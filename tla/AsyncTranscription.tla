------------------------- MODULE AsyncTranscription -------------------------
(***************************************************************************)
(* An async transcription: made by the API once the bot has ended, filled  *)
(* by the task process_async_transcription, which creates an utterance for *)
(* every audio chunk of the recording, queues their transcription, and     *)
(* then runs again every minute until they are done or its time is up      *)
(* (src/bots/tasks/process_async_transcription_task.py,                    *)
(* AsyncTranscriptionManager in src/bots/models.py, TranscriptView in      *)
(* src/bots/bots_api_views.py). The row is saved under its version. In     *)
(* production a task whose worker dies is delivered again.                 *)
(***************************************************************************)
EXTENDS Naturals

CONSTANTS
    ChunkCount,      \* the audio chunks of the recording
    Passes,          \* times the utterances may get created
    AsyncWorkers,    \* processes that run process_async_transcription
    MaxAsyncFaults   \* bound on dying workers and unexpected exceptions

ASSUME AsyncBounds == MaxAsyncFaults \in Nat /\ ChunkCount \in Nat /\ Passes # {}

Chunks == 1 .. ChunkCount

VARIABLES
    asyncState,  \* AsyncTranscription.state, "none" without the row
    asyncFresh,  \* the workers that refreshed the row since it was saved
    utterance,   \* the utterances, by the pass that created them and the chunk
    asyncQueue,  \* process_async_transcription messages
    check,       \* what each worker is doing
    overtime,    \* more than max_runtime_seconds since started_at
    erased,      \* the transcript was deleted through the API
    asyncFaults  \* faults so far

asyncVars == <<asyncState, asyncFresh, utterance, asyncQueue, check, overtime, erased, asyncFaults>>

AsyncEnded == {"COMPLETE", "FAILED"}
AsyncStates == AsyncEnded \cup {"NOT_STARTED", "IN_PROGRESS"}

\* A running task: its pass and the next chunk to create an utterance for, whether
\* it saw any in progress, the state it will write, and whether that is in the
\* handler of an exception.
Checks == [pc : {"idle", "creating", "starting", "checking", "looking", "deciding", "refreshing", "saving", "acking"},
           pass : Passes, next : 0 .. ChunkCount + 1, busy : BOOLEAN, goal : AsyncStates, handler : BOOLEAN]
NoCheck == [pc |-> "idle", pass |-> CHOOSE p \in Passes : TRUE, next |-> 0, busy |-> FALSE, goal |-> "FAILED",
            handler |-> FALSE]

AsyncTypeOK ==
    /\ asyncState \in AsyncStates \cup {"none"}
    /\ asyncFresh \subseteq AsyncWorkers
    /\ utterance \in [Passes \X Chunks -> {"none", "pending", "text", "failed"}]
    /\ asyncQueue \in Nat
    /\ check \in [AsyncWorkers -> Checks]
    /\ overtime \in BOOLEAN /\ erased \in BOOLEAN
    /\ asyncFaults \in 0 .. MaxAsyncFaults

AsyncInit ==
    /\ asyncState = "none"
    /\ asyncFresh = {}
    /\ utterance = [u \in Passes \X Chunks |-> "none"]
    /\ asyncQueue = 0
    /\ check = [w \in AsyncWorkers |-> NoCheck]
    /\ overtime = FALSE
    /\ erased = FALSE
    /\ asyncFaults = 0

-----------------------------------------------------------------------------
InProgress == \E u \in Passes \X Chunks : utterance[u] = "pending"
AnyFailed == \E u \in Passes \X Chunks : utterance[u] = "failed"

CheckGoto(w, pc) == check' = [check EXCEPT ![w].pc = pc]
CheckReturns(w) ==
    /\ check' = [check EXCEPT ![w] = [NoCheck EXCEPT !.pc = "acking"]]
    /\ asyncFresh' = asyncFresh \ {w}

WillWrite(w, goal) == check' = [check EXCEPT ![w] = [NoCheck EXCEPT !.pc = "refreshing", !.goal = goal]]

\* POST of the transcript creates the row and then queues the task, unless the
\* process dies in between.
RequestTranscription ==
    /\ asyncState = "none"
    /\ asyncState' = "NOT_STARTED"
    /\ \/ asyncQueue' = asyncQueue + 1 /\ UNCHANGED asyncFaults
       \/ /\ asyncFaults < MaxAsyncFaults
          /\ asyncFaults' = asyncFaults + 1
          /\ UNCHANGED asyncQueue
    /\ UNCHANGED <<asyncFresh, utterance, check, overtime, erased>>

\* A worker takes the message and loads the row.
TakeCheck(w) ==
    /\ check[w].pc = "idle" /\ asyncQueue > 0
    /\ asyncQueue' = asyncQueue - 1
    /\ \/ asyncState \in AsyncEnded /\ UNCHANGED check
       \/ asyncState = "IN_PROGRESS" /\ CheckGoto(w, "checking")
       \/ /\ asyncState = "NOT_STARTED"
          /\ \E p \in Passes :
                /\ \A c \in Chunks : utterance[p, c] = "none"
                /\ check' = [check EXCEPT ![w].pc = "creating", ![w].pass = p, ![w].next = 1]
    /\ UNCHANGED <<asyncState, asyncFresh, utterance, overtime, erased, asyncFaults>>

\* create_utterances_for_transcription: one chunk after the other.
CreateUtterance(w) ==
    /\ check[w].pc = "creating"
    /\ IF check[w].next \in Chunks
         THEN /\ utterance' = [utterance EXCEPT ![<<check[w].pass, check[w].next>>] = "pending"]
              /\ check' = [check EXCEPT ![w].next = @ + 1]
         ELSE WillWrite(w, "IN_PROGRESS") /\ UNCHANGED utterance
    /\ UNCHANGED <<asyncState, asyncFresh, asyncQueue, overtime, erased, asyncFaults>>

\* Mutant of CheckCompletion: no look is scheduled after the first.
CheckOnce(w) ==
    /\ check[w].pc = "checking"
    /\ IF InProgress /\ ~overtime THEN CheckReturns(w) ELSE CheckGoto(w, "looking") /\ UNCHANGED asyncFresh
    /\ UNCHANGED <<asyncState, utterance, asyncQueue, overtime, erased, asyncFaults>>

\* check_for_transcription_completion: look again in a minute, or terminate.
CheckCompletion(w) ==
    /\ check[w].pc = "checking"
    /\ IF InProgress /\ ~overtime
         THEN asyncQueue' = asyncQueue + 1 /\ CheckReturns(w)
         ELSE CheckGoto(w, "looking") /\ UNCHANGED <<asyncQueue, asyncFresh>>
    /\ UNCHANGED <<asyncState, utterance, overtime, erased, asyncFaults>>

\* Mutant of LookForPending: only utterances that failed are looked for.
LookForFailed(w) ==
    /\ check[w].pc = "looking"
    /\ check' = [check EXCEPT ![w].pc = "deciding", ![w].busy = AnyFailed]
    /\ UNCHANGED <<asyncState, asyncFresh, utterance, asyncQueue, overtime, erased, asyncFaults>>

\* terminate_transcription asks first for utterances in progress ...
LookForPending(w) ==
    /\ check[w].pc = "looking"
    /\ check' = [check EXCEPT ![w].pc = "deciding", ![w].busy = InProgress]
    /\ UNCHANGED <<asyncState, asyncFresh, utterance, asyncQueue, overtime, erased, asyncFaults>>

\* ... and then for failed ones.
Terminate(w) ==
    /\ check[w].pc = "deciding"
    /\ WillWrite(w, IF check[w].busy \/ AnyFailed THEN "FAILED" ELSE "COMPLETE")
    /\ UNCHANGED <<asyncState, asyncFresh, utterance, asyncQueue, overtime, erased, asyncFaults>>

-----------------------------------------------------------------------------
\* The states from which each setter of AsyncTranscriptionManager goes on.
MayBecome(goal) ==
    CASE goal = "IN_PROGRESS" -> {"NOT_STARTED"}
      [] goal = "COMPLETE"    -> {"IN_PROGRESS"}
      [] goal = "FAILED"      -> {"IN_PROGRESS", "NOT_STARTED"}

\* After set_async_transcription_in_progress the task goes on to its check.
AlreadySaved(w) ==
    IF check[w].goal = "IN_PROGRESS"
      THEN check' = [check EXCEPT ![w] = [NoCheck EXCEPT !.pc = "checking"]] /\ asyncFresh' = asyncFresh \ {w}
      ELSE CheckReturns(w)

\* An exception: the handler sets the transcription failed; one from the
\* handler itself ends the task.
Raised(w) ==
    /\ asyncFresh' = asyncFresh \ {w}
    /\ check' = [check EXCEPT ![w] =
          IF @.handler THEN NoCheck ELSE [NoCheck EXCEPT !.pc = "refreshing", !.handler = TRUE]]

\* refresh_from_db and the check of the transition.
RefreshRow(w) ==
    /\ check[w].pc = "refreshing"
    /\ \/ asyncState = check[w].goal /\ AlreadySaved(w)
       \/ /\ asyncState \in MayBecome(check[w].goal)
          /\ CheckGoto(w, "saving")
          /\ asyncFresh' = asyncFresh \cup {w}
       \/ asyncState \notin MayBecome(check[w].goal) \cup {check[w].goal} /\ Raised(w)
    /\ UNCHANGED <<asyncState, utterance, asyncQueue, overtime, erased, asyncFaults>>

\* Mutant of SaveAsyncRow: the version is not compared.
SaveAsyncRowUnversioned(w) ==
    /\ check[w].pc = "saving"
    /\ asyncState' = check[w].goal
    /\ check' = [check EXCEPT ![w] = [NoCheck EXCEPT !.pc = IF check[w].goal = "IN_PROGRESS" THEN "checking" ELSE "acking"]]
    /\ asyncFresh' = {}
    /\ UNCHANGED <<utterance, asyncQueue, overtime, erased, asyncFaults>>

\* The versioned save; RecordModifiedError is an exception like any other.
SaveAsyncRow(w) ==
    /\ check[w].pc = "saving"
    /\ \/ /\ w \in asyncFresh
          /\ asyncState' = check[w].goal
          /\ check' = [check EXCEPT ![w] = [NoCheck EXCEPT !.pc = IF check[w].goal = "IN_PROGRESS" THEN "checking" ELSE "acking"]]
          /\ asyncFresh' = {}
       \/ w \notin asyncFresh /\ Raised(w) /\ UNCHANGED asyncState
    /\ UNCHANGED <<utterance, asyncQueue, overtime, erased, asyncFaults>>

\* The task has returned: its message is acknowledged.
AckCheck(w) ==
    /\ check[w].pc = "acking"
    /\ check' = [check EXCEPT ![w] = NoCheck]
    /\ UNCHANGED <<asyncState, asyncFresh, utterance, asyncQueue, overtime, erased, asyncFaults>>

-----------------------------------------------------------------------------
\* The task of an utterance, or of its group, gets a text or gives up.
SettleUtterance ==
    /\ \E u \in Passes \X Chunks, result \in {"text", "failed"} :
          utterance[u] = "pending" /\ utterance' = [utterance EXCEPT ![u] = result]
    /\ UNCHANGED <<asyncState, asyncFresh, asyncQueue, check, overtime, erased, asyncFaults>>

\* DELETE of the transcript removes the rows made so far.
DeleteTranscript ==
    /\ asyncState # "none" /\ ~erased
    /\ erased' = TRUE
    /\ utterance' = [u \in Passes \X Chunks |-> "none"]
    /\ UNCHANGED <<asyncState, asyncFresh, asyncQueue, check, overtime, asyncFaults>>

\* The clock passes started_at + max(1800, 3 * utterances) seconds.
RunOvertime ==
    /\ asyncState = "IN_PROGRESS" /\ ~overtime
    /\ overtime' = TRUE
    /\ UNCHANGED <<asyncState, asyncFresh, utterance, asyncQueue, check, erased, asyncFaults>>

\* The worker dies at any point, also after its work and before the message is
\* acknowledged, or an exception comes from anywhere but the handler.
AsyncFault(w) ==
    /\ check[w].pc # "idle" /\ asyncFaults < MaxAsyncFaults
    /\ asyncFaults' = asyncFaults + 1
    /\ \/ /\ check' = [check EXCEPT ![w] = NoCheck]
          /\ asyncFresh' = asyncFresh \ {w}
          /\ asyncQueue' = asyncQueue + 1
       \/ check[w].pc # "acking" /\ ~check[w].handler /\ Raised(w) /\ UNCHANGED asyncQueue
    /\ UNCHANGED <<asyncState, utterance, overtime, erased>>

AsyncStep(w) ==
    \/ TakeCheck(w) \/ CreateUtterance(w) \/ CheckCompletion(w) \/ LookForPending(w)
    \/ Terminate(w) \/ RefreshRow(w) \/ SaveAsyncRow(w) \/ AckCheck(w)

AsyncNext ==
    \/ \E w \in AsyncWorkers : AsyncStep(w) \/ AsyncFault(w)
    \/ RequestTranscription \/ SettleUtterance \/ DeleteTranscript \/ RunOvertime

AsyncSpec == AsyncInit /\ [][AsyncNext]_asyncVars

-----------------------------------------------------------------------------
\* A complete transcription has the words of every chunk, and nothing of it is
\* pending or failed: unless the transcript was deleted meanwhile, whatever
\* workers died and whichever utterances a second pass created again.
AsyncCompleteHasAllWords ==
    asyncState = "COMPLETE" /\ ~erased =>
       /\ \A c \in Chunks : \E p \in Passes : utterance[p, c] = "text"
       /\ ~InProgress /\ ~AnyFailed

\* A transcription that was begun is looked after until it has ended: a check is
\* due, or a worker has it in hand, whichever worker died, was refused its save
\* because the row had been modified, or failed once more while it said so ("if we
\* fail, mark the transcription as failed", process_async_transcription; each check
\* schedules the next). One that was only created needs the message that the API
\* queues after it has saved the row.
AsyncLookedAfter ==
    asyncState = "IN_PROGRESS" \/ (asyncState = "NOT_STARTED" /\ asyncFaults = 0) =>
       asyncQueue > 0 \/ \E w \in AsyncWorkers : check[w].pc \notin {"idle", "acking"}

\* A transcription comes to an end, at the latest when its time is up, and to one
\* end only, which the customer was told by a webhook: two chains of checks, after
\* a worker died, do not change COMPLETE into FAILED.
AsyncEndsOnce ==
    /\ asyncQueue > 0 ~> asyncState \in AsyncEnded
    /\ [][(asyncState \in AsyncEnded) => (asyncState' = asyncState)]_asyncVars
=============================================================================
