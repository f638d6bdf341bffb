--------------------------- MODULE MCTranscribing ---------------------------
(***************************************************************************)
(* Instances for TLC of the two transcriptions that are made of what was   *)
(* recorded before: of a local session, by groups, and async, of a bot's   *)
(* audio chunks. They share no variable; a behaviour is one of one of      *)
(* them, which kind chooses.                                               *)
(***************************************************************************)
EXTENDS LocalTranscription, AsyncTranscription

VARIABLE kind

transcribingVars == <<kind, allVars, asyncVars>>

OnlyLocal == kind = "local" /\ UNCHANGED <<kind, asyncVars>>
OnlyAsync == kind = "async" /\ UNCHANGED <<kind, allVars>>

TranscribingInit == kind \in {"local", "async"} /\ LocalInit /\ AsyncInit

TranscribingNext ==
    \/ OnlyLocal /\ LocalNext
    \/ OnlyAsync /\ AsyncNext

\* The fairness of LocalFairSpec, and Celery delivers the checks of an async
\* transcription, whose time passes; the utterances need not get a result.
TranscribingSpec ==
    /\ TranscribingInit /\ [][TranscribingNext]_transcribingVars
    /\ \A w \in Workers :
         WF_allVars(kind = "local" /\ (Group(w) \/ Closing(w) \/ Completing(w) \/ LocalUtterance(w)))
    /\ WF_allVars(kind = "local" /\ Stop /\ stops = 0)
    /\ \A w \in AsyncWorkers : WF_asyncVars(kind = "async" /\ AsyncStep(w))
    /\ WF_asyncVars(kind = "async" /\ RunOvertime)

-----------------------------------------------------------------------------
\* A transcription settles, whether of a local session that was closed or one
\* that was asked for afterwards.
TranscriptionsSettle == SettlesWithoutFallback /\ AsyncEndsOnce
=============================================================================
