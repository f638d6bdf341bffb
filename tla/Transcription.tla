---------------------------- MODULE Transcription ----------------------------
(***************************************************************************)
(* The transcription of one default recording: the utterances of the      *)
(* meeting, the Celery task process_utterance, the state machine of        *)
(* Recording.transcription_state (RecordingManager in src/bots/models.py)  *)
(* and the endpoint that retries the failed utterances.                    *)
(*                                                                         *)
(* Every write of the recording's row is refresh_from_db, a check and a    *)
(* save under the row's version; fresh is the set of processes that have   *)
(* refreshed it since it was last written. The rows of the utterances have *)
(* no version: they are saved whole, from the copy that was read.          *)
(***************************************************************************)
EXTENDS Naturals, FiniteSets

CONSTANTS
    Utterances,  \* the utterances the meeting may have
    Workers,     \* the Celery processes that run process_utterance
    Requests,    \* the requests that retry the failed utterances
    MaxAttempts, \* transcription_attempt_count at which a failure is permanent (5)
    MaxRetries,  \* Celery's retries of one task (6)
    MaxAsks,     \* bound on the number of retry requests
    MaxCrashes   \* bound on the number of workers and bots that die

ASSUME BoundsAssumption == /\ MaxAttempts \in Nat \ {0}
                           /\ MaxRetries \in Nat
                           /\ MaxAsks \in Nat
                           /\ MaxCrashes \in Nat

\* Celery retries a task until its attempts are used up, and once more.
ASSUME RetriesAssumption == MaxAttempts <= MaxRetries + 1

\* A process is a worker or a request.
ASSUME ProcessesAssumption == Workers \cap Requests = {}

VARIABLES
    recState, \* Recording.state
    trState,  \* Recording.transcription_state
    fresh,    \* the processes whose copy of the recording is current
    status,   \* Utterance.transcription and failure_data, together
    attempts, \* Utterance.transcription_attempt_count
    audio,    \* the audio of each utterance: bytes, an emptied chunk, no chunk
    queue,    \* process_utterance messages, by utterance and retries so far
    job,      \* what each worker is doing
    bot,      \* the process that cuts the utterances
    ask,      \* what each retry request is doing
    asks,     \* retry requests so far
    crashes   \* deaths so far

recording == <<recState, trState, fresh>>
utterances == <<status, attempts, audio>>
counters == <<asks, crashes>>
vars == <<recording, utterances, queue, job, bot, ask, counters>>

TranscriptionStates == {"NOT_STARTED", "IN_PROGRESS", "COMPLETE", "FAILED"}
TerminalStates == {"COMPLETE", "FAILED"}
Messages == Utterances \X (0 .. MaxRetries)

\* A running task: the message, the copy of the utterance it loaded (attempts,
\* and whether there was audio to send), the copy of the recording it loaded
\* with it, and the state it is about to write.
Tasks == [pc : {"calling", "checking", "refreshing", "saving"}, utt : Utterances,
          retries : 0 .. MaxRetries, attempts : Nat, heard : BOOLEAN,
          terminal : BOOLEAN, running : BOOLEAN, goal : TerminalStates]
NoTask == [pc |-> "idle"]

\* A retry request: the failed utterances it still has to reset, and the one it
\* has reset and not yet sent.
Asks == [pc : {"refreshing", "saving", "resetting", "dead"}, todo : SUBSET Utterances,
         reset : SUBSET Utterances]
NoAsk == [pc |-> "idle"]

\* The bot's process, and the utterance in its hands.
Bots == [pc : {"idle", "marking", "sending", "stopped", "dead"}, hand : SUBSET Utterances]
IdleBot == [pc |-> "idle", hand |-> {}]

TypeOK ==
    /\ recState \in {"IN_PROGRESS"} \cup TerminalStates
    /\ trState \in TranscriptionStates
    /\ fresh \subseteq Workers \cup Requests
    /\ status \in [Utterances -> {"none", "pending", "text", "failed"}]
    /\ attempts \in [Utterances -> 0 .. MaxAttempts]
    /\ audio \in [Utterances -> {"kept", "cleared", "gone"}]
    /\ queue \in [Messages -> Nat]
    /\ job \in [Workers -> Tasks \cup {NoTask}]
    /\ bot \in Bots
    /\ ask \in [Requests -> Asks \cup {NoAsk}]
    /\ asks \in 0 .. MaxAsks
    /\ crashes \in 0 .. MaxCrashes

\* The bot has joined: the recording is in progress and nothing was said yet.
Init ==
    /\ recState = "IN_PROGRESS"
    /\ trState = "NOT_STARTED"
    /\ fresh = {}
    /\ status = [u \in Utterances |-> "none"]
    /\ attempts = [u \in Utterances |-> 0]
    /\ audio = [u \in Utterances |-> "kept"]
    /\ queue = [m \in Messages |-> 0]
    /\ job = [w \in Workers |-> NoTask]
    /\ bot = IdleBot
    /\ ask = [r \in Requests |-> NoAsk]
    /\ asks = 0
    /\ crashes = 0

-----------------------------------------------------------------------------
Terminal(state) == state \in TerminalStates

\* Utterances of the recording whose transcription column is NULL: those that
\* failed are among them.
Untranscribed == {u \in Utterances : status[u] \in {"pending", "failed"}}

Put(u, n) == queue' = [queue EXCEPT ![<<u, n>>] = @ + 1]

\* An exception leaves the task: Celery runs it again, with backoff, until the
\* retries are used up.
Raise(w) ==
    /\ job' = [job EXCEPT ![w] = NoTask]
    /\ IF job[w].retries < MaxRetries THEN Put(job[w].utt, job[w].retries + 1) ELSE UNCHANGED queue

Return(w) == job' = [job EXCEPT ![w] = NoTask] /\ UNCHANGED queue

Goto(w, pc) == job' = [job EXCEPT ![w].pc = pc] /\ UNCHANGED queue

\* refresh_from_db and the checks of set_recording_transcription_complete and
\* _failed: already there, an illegal transition, or on to the save.
AlreadyIn(goal) == trState = goal
MayEnter(goal) == trState = "IN_PROGRESS" /\ (goal = "COMPLETE" => Terminal(recState))

\* The versioned save of the recording.
Save(p, state) ==
    /\ p \in fresh
    /\ trState' = state
    /\ fresh' = {}

-----------------------------------------------------------------------------
\* process_utterance is delivered. The recording is loaded once, here.
Deliver(w, u, n) ==
    /\ job[w].pc = "idle"
    /\ queue[<<u, n>>] > 0
    /\ queue' = [queue EXCEPT ![<<u, n>>] = @ - 1]
    /\ job' = IF status[u] = "failed" THEN job
              ELSE [job EXCEPT ![w] =
                     [pc |-> IF status[u] = "text" THEN "checking" ELSE "calling",
                      utt |-> u, retries |-> n, attempts |-> attempts[u] + 1,
                      heard |-> audio[u] = "kept", terminal |-> Terminal(recState),
                      running |-> trState = "IN_PROGRESS", goal |-> "COMPLETE"]]
    /\ UNCHANGED <<recording, utterances, bot, ask, counters>>

\* utterance.save() of the copy the task holds.
Write(w, s) ==
    /\ status' = [status EXCEPT ![job[w].utt] = s]
    /\ attempts' = [attempts EXCEPT ![job[w].utt] = job[w].attempts]

\* The provider answers with text, which may be empty.
Transcribed(w) ==
    /\ job[w].pc = "calling"
    /\ job[w].heard
    /\ Write(w, "text")
    /\ audio' = [audio EXCEPT ![job[w].utt] = IF @ = "kept" THEN "cleared" ELSE @]
    /\ Goto(w, "checking")
    /\ UNCHANGED <<recording, bot, ask, counters>>

\* Mutant of RetryableFailure: the attempts are not counted.
RetryableFailureForEver(w) ==
    /\ job[w].pc = "calling"
    /\ status' = [status EXCEPT ![job[w].utt] = "pending"]
    /\ Raise(w)
    /\ UNCHANGED <<attempts, recording, audio, bot, ask, counters>>

RetryableFailure(w) ==
    /\ job[w].pc = "calling"
    /\ job[w].attempts < MaxAttempts
    /\ Write(w, "pending")
    /\ Raise(w)
    /\ UNCHANGED <<recording, audio, bot, ask, counters>>

\* A failure that is not retryable, or the last attempt. The transcription is
\* marked failed if the meeting was over when the task started.
PermanentFailure(w) ==
    /\ job[w].pc = "calling"
    /\ Write(w, "failed")
    /\ IF job[w].terminal /\ job[w].running
         THEN /\ job' = [job EXCEPT ![w].pc = "refreshing", ![w].goal = "FAILED"]
              /\ UNCHANGED queue
         ELSE Return(w)
    /\ UNCHANGED <<recording, audio, bot, ask, counters>>

\* The last utterance of a recording that had ended when the task started.
Check(w) ==
    /\ job[w].pc = "checking"
    /\ IF job[w].terminal /\ Untranscribed = {} THEN Goto(w, "refreshing") ELSE Return(w)
    /\ UNCHANGED <<recording, utterances, bot, ask, counters>>

Refresh(w) ==
    /\ job[w].pc = "refreshing"
    /\ IF AlreadyIn(job[w].goal) THEN Return(w) /\ UNCHANGED fresh
       ELSE IF MayEnter(job[w].goal) THEN Goto(w, "saving") /\ fresh' = fresh \cup {w}
       ELSE Raise(w) /\ UNCHANGED fresh
    /\ UNCHANGED <<recState, trState, utterances, bot, ask, counters>>

SaveRecording(w) ==
    /\ job[w].pc = "saving"
    /\ Save(w, job[w].goal)
    /\ Return(w)
    /\ UNCHANGED <<recState, utterances, bot, ask, counters>>

SaveConflict(w) ==
    /\ job[w].pc = "saving"
    /\ w \notin fresh
    /\ Raise(w)
    /\ UNCHANGED <<recording, utterances, bot, ask, counters>>

\* A worker dies; the broker delivers its message again (acks_late).
Crash(w) ==
    /\ job[w].pc # "idle"
    /\ crashes < MaxCrashes
    /\ crashes' = crashes + 1
    /\ job' = [job EXCEPT ![w] = NoTask]
    /\ Put(job[w].utt, job[w].retries)
    /\ fresh' = fresh \ {w}
    /\ UNCHANGED <<recState, trState, utterances, bot, ask, asks>>

ProcessUtterance(w) ==
    \/ \E u \in Utterances, n \in 0 .. MaxRetries : Deliver(w, u, n)
    \/ Transcribed(w) \/ RetryableFailure(w) \/ PermanentFailure(w)
    \/ Check(w) \/ Refresh(w) \/ SaveRecording(w) \/ SaveConflict(w)

-----------------------------------------------------------------------------
\* create_utterance_from_audio_chunk, in the bot: the row, the state of the
\* recording (nobody else writes it while the meeting lasts), the task.
Cut(u) ==
    /\ bot.pc = "idle"
    /\ recState = "IN_PROGRESS"
    /\ status[u] = "none"
    /\ status' = [status EXCEPT ![u] = "pending"]
    /\ bot' = [pc |-> "marking", hand |-> {u}]
    /\ UNCHANGED <<recording, attempts, audio, queue, job, ask, counters>>

Mark ==
    /\ bot.pc = "marking"
    /\ trState' = "IN_PROGRESS"
    /\ fresh' = IF trState = "IN_PROGRESS" THEN fresh ELSE {}
    /\ bot' = [bot EXCEPT !.pc = "sending"]
    /\ UNCHANGED <<recState, utterances, queue, job, ask, counters>>

Send ==
    /\ bot.pc = "sending"
    /\ \E u \in bot.hand : Put(u, 0)
    /\ bot' = IdleBot
    /\ UNCHANGED <<recording, utterances, job, ask, counters>>

BotDies ==
    /\ bot.pc \notin {"stopped", "dead"}
    /\ crashes < MaxCrashes
    /\ crashes' = crashes + 1
    /\ bot' = [bot EXCEPT !.pc = "dead"]
    /\ UNCHANGED <<recording, utterances, queue, job, ask, asks>>

\* Mutant of Outcome: only the failed utterances count.
OutcomeOfFailed == IF \E u \in Utterances : status[u] = "failed" THEN "FAILED" ELSE "COMPLETE"

\* terminate_recording: an utterance that failed, or is still being transcribed,
\* fails the transcription.
Outcome == IF Untranscribed # {} THEN "FAILED" ELSE "COMPLETE"

\* The bot's state becomes a post-meeting one: create_event, in one transaction,
\* called by the bot's own cleanup (which waits for the utterances, five minutes
\* at the most) or by a command that found the bot dead. A recording without a
\* file has failed.
EndMeeting ==
    /\ bot.pc \in {"idle", "dead"}
    /\ recState = "IN_PROGRESS"
    /\ bot' = IF bot.pc = "dead" THEN bot ELSE [bot EXCEPT !.pc = "stopped"]
    /\ recState' \in TerminalStates
    /\ trState' = IF trState = "IN_PROGRESS" THEN Outcome ELSE trState
    /\ fresh' = {}
    /\ UNCHANGED <<utterances, queue, job, ask, counters>>

\* cleanup_old_audio_chunks deletes the chunks older than a date.
CleanUpAudio(u) ==
    /\ Terminal(recState)
    /\ status[u] \in {"text", "failed"}
    /\ audio[u] # "gone"
    /\ audio' = [audio EXCEPT ![u] = "gone"]
    /\ UNCHANGED <<recording, status, attempts, queue, job, bot, ask, counters>>

-----------------------------------------------------------------------------
Retryable == {u \in Utterances : status[u] = "failed" /\ audio[u] # "gone"}

\* retry_failed_transcription reads the recording and the failed utterances.
AskRetry(r) ==
    /\ ask[r].pc = "idle"
    /\ asks < MaxAsks
    /\ Terminal(recState)
    /\ Retryable # {}
    /\ asks' = asks + 1
    /\ ask' = [ask EXCEPT ![r] = [pc |-> IF trState = "FAILED" THEN "refreshing" ELSE "resetting",
                                  todo |-> Retryable, reset |-> {}]]
    /\ UNCHANGED <<recording, utterances, queue, job, bot, crashes>>

\* set_recording_transcription_failed_to_in_progress_for_retry
RefreshForRetry(r) ==
    /\ ask[r].pc = "refreshing"
    /\ IF trState = "FAILED"
         THEN fresh' = fresh \cup {r} /\ ask' = [ask EXCEPT ![r].pc = "saving"]
         ELSE ask' = [ask EXCEPT ![r] = NoAsk] /\ UNCHANGED fresh
    /\ UNCHANGED <<recState, trState, utterances, queue, job, bot, counters>>

SaveForRetry(r) ==
    /\ ask[r].pc = "saving"
    /\ Save(r, "IN_PROGRESS")
    /\ ask' = [ask EXCEPT ![r].pc = "resetting"]
    /\ UNCHANGED <<recState, utterances, queue, job, bot, counters>>

RetryConflict(r) ==
    /\ ask[r].pc = "saving"
    /\ r \notin fresh
    /\ ask' = [ask EXCEPT ![r] = NoAsk]
    /\ UNCHANGED <<recording, utterances, queue, job, bot, counters>>

\* The saved row is the copy that was read: no text, no failure.
ResetRow(r, u) ==
    /\ ask[r].pc = "resetting"
    /\ ask[r].reset = {}
    /\ u \in ask[r].todo
    /\ status' = [status EXCEPT ![u] = "pending"]
    /\ attempts' = [attempts EXCEPT ![u] = 0]
    /\ ask' = [ask EXCEPT ![r].reset = {u}]
    /\ UNCHANGED <<recording, audio, queue, job, bot, counters>>

SendAgain(r, u) ==
    /\ ask[r].pc = "resetting"
    /\ ask[r].reset = {u}
    /\ Put(u, 0)
    /\ LET left == ask[r].todo \ {u}
       IN ask' = [ask EXCEPT ![r] = IF left = {} THEN NoAsk
                                    ELSE [@ EXCEPT !.todo = left, !.reset = {}]]
    /\ UNCHANGED <<recording, utterances, job, bot, counters>>

\* The web process dies in the middle of a request.
RequestDies(r) ==
    /\ ask[r].pc \notin {"idle", "dead"}
    /\ crashes < MaxCrashes
    /\ crashes' = crashes + 1
    /\ ask' = [ask EXCEPT ![r].pc = "dead"]
    /\ fresh' = fresh \ {r}
    /\ UNCHANGED <<recState, trState, utterances, queue, job, bot, asks>>

Retry(r) ==
    \/ AskRetry(r) \/ RefreshForRetry(r) \/ SaveForRetry(r) \/ RetryConflict(r) \/ RequestDies(r)
    \/ \E u \in Utterances : ResetRow(r, u) \/ SendAgain(r, u)

BotStep == (\E u \in Utterances : Cut(u)) \/ Mark \/ Send \/ BotDies \/ EndMeeting

Next ==
    \/ \E w \in Workers : ProcessUtterance(w) \/ Crash(w)
    \/ BotStep
    \/ \E r \in Requests : Retry(r)
    \/ \E u \in Utterances : CleanUpAudio(u)

Spec == Init /\ [][Next]_vars

\* Celery delivers what is queued, every call to a provider returns (it has a
\* time limit), a request runs to its end, and a bot leaves its meeting or is
\* reaped.
FairSpec ==
    /\ Spec
    /\ \A w \in Workers : WF_vars(ProcessUtterance(w))
    /\ \A r \in Requests :
         WF_vars(RefreshForRetry(r) \/ SaveForRetry(r) \/ RetryConflict(r)
                 \/ \E u \in Utterances : ResetRow(r, u) \/ SendAgain(r, u))
    /\ WF_vars(Mark \/ Send)
    /\ WF_vars(EndMeeting)

-----------------------------------------------------------------------------
\* The transcription is complete only when every utterance has its text, whoever
\* counted them and however long ago (set_recording_transcription_complete, on
\* which the summary of the meeting hangs), until a retry is asked for.
CompleteMeansTranscribed == asks = 0 /\ trState = "COMPLETE" => Untranscribed = {}

Moves == {<<"NOT_STARTED", "IN_PROGRESS">>, <<"IN_PROGRESS", "COMPLETE">>,
          <<"IN_PROGRESS", "FAILED">>, <<"FAILED", "IN_PROGRESS">>}

\* The state moves as RecordingManager says, with any number of workers and
\* requests writing it from copies: COMPLETE is for good, and the only way out
\* of FAILED is a retry ("This is the only transition out of FAILED").
TranscriptionMoves == [][trState' # trState => <<trState, trState'>> \in Moves]_vars

Sent(u) ==
    \/ \E n \in 0 .. MaxRetries : queue[<<u, n>>] > 0
    \/ \E w \in Workers : job[w].pc # "idle" /\ job[w].utt = u

\* An utterance that waits for its text is waiting for somebody, unless the bot or
\* the request that had it in hand has died: no exception, conflict, number of
\* attempts or death of a worker drops its task (process_utterance's two limits).
\* Overlapping retry requests make two tasks of one utterance, and the row of the
\* one that retries in vain is written over the other's.
NobodyWaitsInVain ==
    asks <= 1 => \A u \in Utterances :
       status[u] = "pending" =>
          \/ Sent(u)
          \/ u \in bot.hand
          \/ \E r \in Requests : ask[r].pc # "idle" /\ u \in ask[r].reset

\* Text that was received is not lost: process_utterance, delivered again after
\* its worker died, leaves an utterance that has its text alone. Overlapping retry
\* requests do not (retry_failed_transcription saves the rows it read).
TextIsKept == [][asks' = 0 => \A u \in Utterances : status[u] = "text" => status'[u] = "text"]_vars

\* A transcription that is in progress after the meeting comes to an end
\* (process_utterance: "a post-meeting retry that fails again would leave the
\* recording stuck IN_PROGRESS. Mark it failed here.").
Settles == (Terminal(recState) /\ trState = "IN_PROGRESS") ~> (trState \in TerminalStates)
=============================================================================
