-------------------------- MODULE LocalTranscription --------------------------
(***************************************************************************)
(* The transcription of a local recording session, which has no bot: the   *)
(* drains cut utterances and gather them, a group of them is transcribed   *)
(* in one request (process_local_utterance_group), a group that cannot be  *)
(* falls back on process_utterance for each of its utterances, and         *)
(* finalize_local_session closes the recording when the session stops.     *)
(*                                                                         *)
(* The recording, the utterances and process_utterance are those of        *)
(* Transcription. How the drains take the audio from Redis is left to      *)
(* LocalSession; here a cut utterance is in gathered until it is sent.     *)
(***************************************************************************)
EXTENDS Transcription, Sequences, SequencesExt

CONSTANTS
    MaxGroupAttempts, \* MAX_GROUP_ATTEMPTS: Celery's retries of a group (3)
    MaxStops          \* bound on the number of finalize tasks asked for

ASSUME LocalBounds == MaxGroupAttempts \in Nat /\ MaxStops \in Nat

VARIABLES
    words,      \* the utterances whose speech is in the text of each row
    gathered,   \* the utterances cut and not yet sent, in order
    groupQueue, \* process_local_utterance_group messages
    localJob,   \* the group or finalize task each worker runs
    flushed,    \* the last drain of the session is done
    stops,      \* finalize tasks asked for so far
    stopsDue,   \* finalize tasks waiting in the queue
    alone,      \* history: the utterances sent to process_utterance
    replayed    \* history: a group was delivered again whose fallback had begun

history == <<alone, replayed>>
localVars == <<words, gathered, groupQueue, localJob, flushed, stops, stopsDue, history>>
allVars == <<vars, localVars>>
botAndRetry == <<bot, ask, asks>>

Groups == {g \in Seq(Utterances) : g # <<>> /\ IsInjective(g)}
GroupMessages == [members : Groups, retries : 0 .. MaxGroupAttempts]
GroupTasks ==
    [pc : {"calling", "writing", "falling", "marking", "settling", "refreshing", "saving"},
     message : GroupMessages, at : Nat,
     answer : Seq(SUBSET Utterances)]
FinalizeTasks == [pc : {"closing", "closed", "counting", "refreshing", "saving"}]

LocalTypeOK ==
    /\ TypeOK
    /\ words \in [Utterances -> SUBSET Utterances]
    /\ gathered = <<>> \/ gathered \in Groups
    /\ groupQueue \subseteq GroupMessages
    /\ \A w \in Workers : \/ localJob[w] \in FinalizeTasks \cup {NoTask}
                          \/ /\ localJob[w] \in GroupTasks
                             /\ localJob[w].at \in DOMAIN localJob[w].message.members
    /\ flushed \in BOOLEAN
    /\ stops \in 0 .. MaxStops
    /\ stopsDue \in 0 .. MaxStops
    /\ alone \subseteq Utterances
    /\ replayed \in BOOLEAN

\* LocalSessionCreateView: the recording is in progress from the start.
LocalInit ==
    /\ Init
    /\ words = [u \in Utterances |-> {}]
    /\ gathered = <<>>
    /\ groupQueue = {}
    /\ localJob = [w \in Workers |-> NoTask]
    /\ flushed = FALSE
    /\ stops = 0
    /\ stopsDue = 0
    /\ alone = {}
    /\ replayed = FALSE

Free(w) == job[w].pc = "idle" /\ localJob[w].pc = "idle"
Step(w, pc) == localJob' = [localJob EXCEPT ![w].pc = pc]
Leave(w) == localJob' = [localJob EXCEPT ![w] = NoTask]
IsFinalize(w) == localJob[w].pc # "idle" /\ localJob[w] \in FinalizeTasks
IsGroup(w) == localJob[w].pc # "idle" /\ ~IsFinalize(w)
Members(w) == localJob[w].message.members

\* An exception leaves the task; finalize may be retried for a minute.
LocalRaise(w) ==
    /\ Leave(w)
    /\ IF IsFinalize(w) THEN stopsDue' = stopsDue + 1 /\ UNCHANGED groupQueue
       ELSE /\ LET m == localJob[w].message IN
               groupQueue' = IF m.retries < MaxGroupAttempts
                             THEN groupQueue \cup {[m EXCEPT !.retries = @ + 1]} ELSE groupQueue
            /\ UNCHANGED stopsDue

-----------------------------------------------------------------------------
\* A drain cuts an utterance: the row, then the state of the recording, which
\* no other process writes before the last drain.
LocalCut(u) ==
    /\ ~flushed
    /\ status[u] = "none"
    /\ status' = [status EXCEPT ![u] = "pending"]
    /\ trState' = "IN_PROGRESS"
    /\ fresh' = IF trState = "IN_PROGRESS" THEN fresh ELSE {}
    /\ gathered' = Append(gathered, u)
    /\ UNCHANGED <<recState, attempts, audio, queue, job, botAndRetry, crashes>>
    /\ UNCHANGED <<words, groupQueue, localJob, flushed, stops, stopsDue, history>>

Send1(g) == IF g = <<>> THEN groupQueue ELSE groupQueue \cup {[members |-> g, retries |-> 0]}

\* Mutant of DispatchGroup: the ids stay in the group that was sent.
DispatchAndKeep ==
    /\ ~flushed
    /\ gathered # <<>>
    /\ groupQueue' = Send1(gathered)
    /\ UNCHANGED <<vars, words, gathered, localJob, flushed, stops, stopsDue, history>>

\* _settle_group finds the group ready: "Cleared BEFORE dispatch".
DispatchGroup ==
    /\ ~flushed
    /\ gathered # <<>>
    /\ groupQueue' = Send1(gathered)
    /\ gathered' = <<>>
    /\ UNCHANGED <<vars, words, localJob, flushed, stops, stopsDue, history>>

\* LocalSessionStopView, or the reaper of idle sessions.
Stop ==
    /\ stops < MaxStops
    /\ stops' = stops + 1
    /\ stopsDue' = stopsDue + 1
    /\ UNCHANGED <<vars, words, gathered, groupQueue, localJob, flushed, history>>

-----------------------------------------------------------------------------
\* process_local_utterance_group: a replay of a group whose rows all have their
\* text only settles the recording.
GroupDeliver(w, m) ==
    /\ Free(w)
    /\ m \in groupQueue
    /\ groupQueue' = groupQueue \ {m}
    /\ localJob' = [localJob EXCEPT ![w] =
         [pc |-> IF \A u \in Range(m.members) : status[u] = "text" THEN "settling" ELSE "calling",
          message |-> m, at |-> 1, answer |-> <<>>]]
    /\ replayed' = (replayed \/ Range(m.members) \cap alone # {})
    /\ UNCHANGED <<vars, words, gathered, flushed, stops, stopsDue, alone>>

\* Where the words of a group land. Each row has the window its duration gives
\* it in the joined audio. A row whose audio was already cleared adds nothing to
\* that audio, and the speech of the later rows slides into earlier windows.
Lands(g) ==
    LET kept == {i \in DOMAIN g : audio[g[i]] = "kept"}
        inPlace == {i \in kept : \A j \in 1 .. i - 1 : j \in kept}
    IN  {h \in [DOMAIN g -> SUBSET {g[i] : i \in kept}] :
           /\ \A i, j \in DOMAIN g : g[j] \in h[i] => i <= j
           /\ \A j \in kept : \E i \in 1 .. j : g[j] \in h[i]
           /\ \A j \in inPlace, i \in DOMAIN g : g[j] \in h[i] => i = j}

GroupAnswered(w) ==
    /\ IsGroup(w) /\ localJob[w].pc = "calling"
    /\ \E h \in Lands(Members(w)) :
         localJob' = [localJob EXCEPT ![w].pc = "writing", ![w].answer = h]
    /\ UNCHANGED <<vars, words, gathered, groupQueue, flushed, stops, stopsDue, history>>

GroupRetryable(w) ==
    /\ IsGroup(w) /\ localJob[w].pc = "calling"
    /\ localJob[w].message.retries < MaxGroupAttempts
    /\ LocalRaise(w)
    /\ UNCHANGED <<vars, words, gathered, flushed, stops, history>>

\* Mutant of GroupFails: the group is dropped.
GroupGivesUp(w) ==
    /\ IsGroup(w) /\ localJob[w].pc = "calling"
    /\ Leave(w)
    /\ UNCHANGED <<vars, words, gathered, groupQueue, flushed, stops, stopsDue, history>>

\* The failure is not retryable, or the retries are used up.
GroupFails(w) ==
    /\ IsGroup(w) /\ localJob[w].pc = "calling"
    /\ Step(w, "falling")
    /\ UNCHANGED <<vars, words, gathered, groupQueue, flushed, stops, stopsDue, history>>

\* process_utterance.delay for the next member of the group.
FallBack(w) ==
    /\ IsGroup(w) /\ localJob[w].pc = "falling"
    /\ LET at == localJob[w].at IN
         /\ Put(Members(w)[at], 0)
         /\ alone' = alone \cup {Members(w)[at]}
         /\ IF at = Len(Members(w)) THEN Leave(w) ELSE localJob' = [localJob EXCEPT ![w].at = at + 1]
    /\ UNCHANGED <<recording, utterances, job, bot, ask, counters>>
    /\ UNCHANGED <<words, gathered, groupQueue, flushed, stops, stopsDue, replayed>>

\* The next row of the group is saved and its audio cleared.
WriteRow(w) ==
    /\ IsGroup(w) /\ localJob[w].pc = "writing"
    /\ LET at == localJob[w].at
           u == Members(w)[at]
       IN  /\ status' = [status EXCEPT ![u] = "text"]
           /\ words' = [words EXCEPT ![u] = localJob[w].answer[at]]
           /\ audio' = [audio EXCEPT ![u] = "cleared"]
           /\ localJob' = IF at = Len(Members(w)) THEN [localJob EXCEPT ![w].pc = "marking"]
                          ELSE [localJob EXCEPT ![w].at = at + 1]
    /\ UNCHANGED <<recording, attempts, queue, job, bot, ask, counters>>
    /\ UNCHANGED <<gathered, groupQueue, flushed, stops, stopsDue, history>>

\* set_recording_transcription_in_progress, for which COMPLETE is an error.
GroupMark(w) ==
    /\ IsGroup(w) /\ localJob[w].pc = "marking"
    /\ IF trState = "IN_PROGRESS" THEN Step(w, "settling") /\ UNCHANGED <<groupQueue, stopsDue>>
       ELSE LocalRaise(w)
    /\ UNCHANGED <<vars, words, gathered, flushed, stops, history>>

\* Mutant of ReadyToSettle: an utterance that failed does not count.
ReadyToSettleEarly ==
    /\ trState = "IN_PROGRESS"
    /\ Terminal(recState)

ReadyToSettle ==
    /\ trState = "IN_PROGRESS"
    /\ Terminal(recState)
    /\ Untranscribed = {}

\* _settle_recording_state: the row is read again, and all its conditions.
Settle(w) ==
    /\ IsGroup(w) /\ localJob[w].pc = "settling"
    /\ IF ReadyToSettle THEN Step(w, "refreshing") ELSE Leave(w)
    /\ UNCHANGED <<vars, words, gathered, groupQueue, flushed, stops, stopsDue, history>>

\* set_recording_transcription_complete, from a group or from finalize.
LocalRefresh(w) ==
    /\ localJob[w].pc = "refreshing"
    /\ IF AlreadyIn("COMPLETE") THEN Leave(w) /\ UNCHANGED <<fresh, groupQueue, stopsDue>>
       ELSE IF MayEnter("COMPLETE")
         THEN Step(w, "saving") /\ fresh' = fresh \cup {w} /\ UNCHANGED <<groupQueue, stopsDue>>
       ELSE LocalRaise(w) /\ UNCHANGED fresh
    /\ UNCHANGED <<recState, trState, utterances, queue, job, bot, ask, counters>>
    /\ UNCHANGED <<words, gathered, flushed, stops, history>>

LocalSave(w) ==
    /\ localJob[w].pc = "saving"
    /\ Save(w, "COMPLETE")
    /\ Leave(w)
    /\ UNCHANGED <<recState, utterances, queue, job, bot, ask, counters>>
    /\ UNCHANGED <<words, gathered, groupQueue, flushed, stops, stopsDue, history>>

LocalConflict(w) ==
    /\ localJob[w].pc \in {"saving", "closed"}
    /\ w \notin fresh
    /\ LocalRaise(w)
    /\ UNCHANGED <<vars, words, gathered, flushed, stops, history>>

-----------------------------------------------------------------------------
\* finalize_local_session: under the locks of its sources it cuts what is left
\* and sends the group, whatever its size, unless there is no audio left to cut:
\* then it returns before it looks at the group.
Finalize(w) ==
    /\ Free(w)
    /\ stopsDue > 0
    /\ stopsDue' = stopsDue - 1
    /\ flushed' = TRUE
    /\ \/ ~flushed /\ groupQueue' = Send1(gathered) /\ gathered' = <<>>
       \/ UNCHANGED <<groupQueue, gathered>>
    /\ localJob' = [localJob EXCEPT ![w] = [pc |-> "closing"]]
    /\ UNCHANGED <<vars, words, stops, history>>

\* set_recording_complete refreshes the recording: a repeated finalize returns.
Close(w) ==
    /\ localJob[w].pc = "closing"
    /\ IF recState = "COMPLETE" THEN Leave(w) /\ UNCHANGED fresh
       ELSE Step(w, "closed") /\ fresh' = fresh \cup {w}
    /\ UNCHANGED <<recState, trState, utterances, queue, job, bot, ask, counters>>
    /\ UNCHANGED <<words, gathered, groupQueue, flushed, stops, stopsDue, history>>

CloseSave(w) ==
    /\ localJob[w].pc = "closed"
    /\ w \in fresh
    /\ recState' = "COMPLETE"
    /\ fresh' = {}
    /\ Step(w, "counting")
    /\ UNCHANGED <<trState, utterances, queue, job, bot, ask, counters>>
    /\ UNCHANGED <<words, gathered, groupQueue, flushed, stops, stopsDue, history>>

\* The transcription is completed here only if it was in progress when the row
\* was closed, and nothing is left to transcribe.
CountAtClose(w) ==
    /\ localJob[w].pc = "counting"
    /\ IF trState # "NOT_STARTED" /\ Untranscribed = {} THEN Step(w, "refreshing") ELSE Leave(w)
    /\ UNCHANGED <<vars, words, gathered, groupQueue, flushed, stops, stopsDue, history>>

\* A worker dies in a group or finalize task; its message is delivered again.
LocalCrash(w) ==
    /\ localJob[w].pc # "idle"
    /\ crashes < MaxCrashes
    /\ crashes' = crashes + 1
    /\ fresh' = fresh \ {w}
    /\ Leave(w)
    /\ IF IsFinalize(w) THEN stopsDue' = stopsDue + 1 /\ UNCHANGED groupQueue
       ELSE groupQueue' = groupQueue \cup {localJob[w].message} /\ UNCHANGED stopsDue
    /\ UNCHANGED <<recState, trState, utterances, queue, job, bot, ask, asks>>
    /\ UNCHANGED <<words, gathered, flushed, stops, history>>

-----------------------------------------------------------------------------
\* process_utterance on a local row: what it saves replaces the row's text.
LocalUtterance(w) ==
    /\ localJob[w].pc = "idle"
    /\ ProcessUtterance(w)
    /\ words' = IF job[w].pc # "calling" THEN words
                ELSE LET u == job[w].utt IN
                     [words EXCEPT ![u] = IF status'[u] = "text" THEN {u} ELSE {}]
    /\ UNCHANGED <<gathered, groupQueue, localJob, flushed, stops, stopsDue, history>>

Group(w) ==
    \/ \E m \in groupQueue : GroupDeliver(w, m)
    \/ GroupAnswered(w) \/ GroupRetryable(w) \/ GroupFails(w) \/ FallBack(w) \/ WriteRow(w)
    \/ GroupMark(w) \/ Settle(w)

Closing(w) == Finalize(w) \/ Close(w) \/ CloseSave(w) \/ CountAtClose(w)

Completing(w) == LocalRefresh(w) \/ LocalSave(w) \/ LocalConflict(w)

LocalNext ==
    \/ \E u \in Utterances : LocalCut(u)
    \/ DispatchGroup
    \/ Stop
    \/ \E w \in Workers :
         \/ Group(w) \/ Closing(w) \/ Completing(w) \/ LocalUtterance(w)
         \/ LocalCrash(w)
         \/ Crash(w) /\ UNCHANGED localVars

LocalSpec == LocalInit /\ [][LocalNext]_allVars

\* Celery delivers what is queued, providers answer within their limits, and the
\* session is stopped by its owner or by the reaper of idle sessions.
LocalFairSpec ==
    /\ LocalSpec
    /\ \A w \in Workers :
         WF_allVars(Group(w) \/ Closing(w) \/ Completing(w) \/ LocalUtterance(w))
    /\ WF_allVars(Stop /\ stops = 0)

-----------------------------------------------------------------------------
\* CompleteMeansTranscribed, whether finalize or a group completes the
\* transcription and whatever dies, as long as no group is delivered again whose
\* fallback had begun: then two tasks write one row.
LocalCompleteMeansTranscribed == ~replayed => CompleteMeansTranscribed

\* An utterance without text is gathered, or some task will come to it ("WHY
\* NOTHING CAN BE LOST HERE", the module's docstring), whatever dies and although a
\* group's task and finalize's are dropped after their last retry. A group that is
\* delivered again after its fallback had begun makes two tasks of one utterance:
\* each counts its attempts in the row from a copy, and both may run out of retries.
NobodyForgotten ==
    ~replayed => \A u \in Utterances :
       status[u] = "pending" =>
          \/ u \in Range(gathered)
          \/ \E m \in groupQueue : u \in Range(m.members)
          \/ \E w \in Workers : IsGroup(w) /\ u \in Range(Members(w))
          \/ Sent(u)

\* When every group was sent, none had to fall back and no task died half way, a
\* session that was stopped has its transcription completed: by finalize, or by the
\* last group to write its rows (_settle_recording_state: "Without this the
\* recording stays IN_PROGRESS").
SettlesWithoutFallback ==
    (Terminal(recState) /\ trState = "IN_PROGRESS")
       ~> (trState = "COMPLETE" \/ alone # {} \/ gathered # <<>> \/ crashes > 0)

\* The speech of an utterance, once in its row, stays in its row: "a replayed
\* task is a no-op because the rows already hold their text" (the module's
\* docstring), as long as no worker dies in the middle of a group.
HeardWordsStay == [][crashes' = 0 => \A u \in Utterances : u \in words[u] => u \in words'[u]]_allVars
=============================================================================
