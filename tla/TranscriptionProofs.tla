------------------------- MODULE TranscriptionProofs -------------------------
(***************************************************************************)
(* The transcription of a bot's recording, for any number of utterances,   *)
(* workers, requests, attempts and deaths: its state moves as              *)
(* RecordingManager says, and until somebody asks for a retry a complete   *)
(* transcription has every text and keeps it. The first rests on the       *)
(* version of the recording's row, the second on there being one task, in  *)
(* one place, for each utterance. While at most one retry was asked for,   *)
(* an utterance that waits has somebody who will come to it.               *)
(*                                                                         *)
(* Then the transcription made from all the utterances at once, for any    *)
(* number of chunks and passes: it completes with all the words, what      *)
(* ended stays ended, and what is in progress is somebody's to look after. *)
(***************************************************************************)
EXTENDS Transcription, AsyncTranscription, TLAPS

\* The attempts are counted up to the last one, which leaves a text or a failure.
AttemptsInv ==
    /\ \A u \in Utterances : attempts[u] = MaxAttempts => status[u] \in {"text", "failed"}
    /\ \A w \in Workers : job[w].pc = "calling" => job[w].attempts <= MaxAttempts

\* What the end of the meeting separates: before it the transcription is not in
\* a terminal state and no task or request believes the meeting over; after it
\* the bot does not write the recording.
MeetingInv ==
    /\ recState = "IN_PROGRESS" =>
         /\ trState \in {"NOT_STARTED", "IN_PROGRESS"}
         /\ \A r \in Requests : ask[r].pc = "idle"
    /\ bot.pc \in {"marking", "sending"} => recState = "IN_PROGRESS"
    /\ \A w \in Workers :
         /\ job[w].pc # "idle" /\ job[w].terminal => Terminal(recState)
         /\ job[w].pc \in {"refreshing", "saving"} => job[w].terminal

\* A process whose copy of the recording is current has checked the state the
\* recording is in.
CopyInv ==
    /\ \A w \in Workers :
         job[w].pc = "saving" /\ w \in fresh => trState = "IN_PROGRESS"
    /\ \A r \in Requests : ask[r].pc = "saving" /\ r \in fresh => trState = "FAILED"

\* Until a retry is asked for, an utterance has one task: in the queue, at a worker
\* or with the bot, and its row still waits while a worker calls the provider.
QueueInv ==
    \A m \in Messages :
       /\ queue[m] <= 1
       /\ queue[m] > 0 =>
            /\ status[m[1]] # "none"
            /\ m[1] \notin bot.hand
            /\ \A l \in Messages : queue[l] > 0 /\ l[1] = m[1] => l = m

WorkersInv ==
    \A w \in Workers : job[w].pc # "idle" =>
       /\ status[job[w].utt] # "none"
       /\ job[w].utt \notin bot.hand
       /\ \A m \in Messages : queue[m] > 0 => m[1] # job[w].utt
       /\ \A v \in Workers : job[v].pc # "idle" /\ job[v].utt = job[w].utt => v = w
       /\ job[w].pc = "calling" => status[job[w].utt] = "pending"

\* One task for each utterance, wherever it is.
OneTaskEach == QueueInv /\ WorkersInv /\ \A u \in bot.hand : status[u] = "pending"

TaskInv == (\A r \in Requests : ask[r].pc = "idle") /\ OneTaskEach

\* Whoever counted no untranscribed utterance counted right, and for good.
CountInv ==
    /\ trState = "COMPLETE" => Untranscribed = {}
    /\ \A w \in Workers :
         job[w].pc \in {"refreshing", "saving"} /\ job[w].goal = "COMPLETE" => Untranscribed = {}

StateInv == TypeOK /\ AttemptsInv /\ MeetingInv /\ CopyInv
IInv == StateInv /\ (asks = 0 => TaskInv /\ CountInv)

-----------------------------------------------------------------------------
\* What a step of a worker may assume of the task it has.
LEMMA RunningTask ==
    ASSUME TypeOK, NEW w \in Workers, job[w].pc # "idle"
    PROVE  /\ job[w] \in Tasks
           /\ job[w].utt \in Utterances
           /\ job[w].retries \in 0 .. MaxRetries
           /\ job[w].attempts \in Nat
           /\ job[w].goal \in TerminalStates
  BY DEF TypeOK, Tasks, NoTask

LEMMA PutType ==
    ASSUME queue \in [Messages -> Nat], NEW u \in Utterances, NEW n \in 0 .. MaxRetries, Put(u, n)
    PROVE  queue' \in [Messages -> Nat]
  BY DEF Put, Messages

LEMMA RaiseType ==
    ASSUME TypeOK, NEW w \in Workers, job[w].pc # "idle", Raise(w)
    PROVE  /\ queue' \in [Messages -> Nat]
           /\ job' \in [Workers -> Tasks \cup {NoTask}]
<1>1. /\ job[w].utt \in Utterances
      /\ job[w].retries \in 0 .. MaxRetries
  BY RunningTask
<1>2. queue' \in [Messages -> Nat]
  <2>1. CASE job[w].retries < MaxRetries
    <3>1. job[w].retries + 1 \in 0 .. MaxRetries
      BY <1>1, <2>1, BoundsAssumption
    <3> QED
      BY <1>1, <2>1, <3>1, PutType DEF Raise, TypeOK
  <2>2. CASE ~(job[w].retries < MaxRetries)
    BY <2>2 DEF Raise, TypeOK
  <2> QED
    BY <2>1, <2>2
<1> QED
  BY <1>2 DEF Raise, TypeOK

\* A task that goes on to another step is otherwise what it was.
LEMMA TaskExcept ==
    ASSUME NEW task \in Tasks, NEW pc \in {"calling", "checking", "refreshing", "saving"},
           NEW goal \in TerminalStates
    PROVE  LET next == [task EXCEPT !.pc = pc, !.goal = goal]
           IN  /\ next \in Tasks
               /\ next.pc = pc
               /\ next.goal = goal
               /\ next.utt = task.utt
               /\ next.attempts = task.attempts
               /\ next.terminal = task.terminal
  BY DEF Tasks

LEMMA GotoType ==
    ASSUME TypeOK, NEW w \in Workers, job[w].pc # "idle",
           NEW pc \in {"calling", "checking", "refreshing", "saving"}, Goto(w, pc)
    PROVE  /\ queue' \in [Messages -> Nat]
           /\ job' \in [Workers -> Tasks \cup {NoTask}]
           /\ \A v \in Workers \ {w} : job'[v] = job[v]
           /\ job'[w].pc = pc
           /\ job'[w].utt = job[w].utt
           /\ job'[w].attempts = job[w].attempts
           /\ job'[w].terminal = job[w].terminal
           /\ job'[w].goal = job[w].goal
<1>1. [job[w] EXCEPT !.pc = pc] \in Tasks
  BY RunningTask DEF Tasks
<1>2. job' \in [Workers -> Tasks \cup {NoTask}]
  BY <1>1 DEF Goto, TypeOK
<1>3. /\ \A v \in Workers \ {w} : job'[v] = job[v]
      /\ job'[w] = [job[w] EXCEPT !.pc = pc]
  BY DEF Goto, TypeOK
<1>4. /\ job'[w].pc = pc
      /\ job'[w].utt = job[w].utt
      /\ job'[w].attempts = job[w].attempts
      /\ job'[w].terminal = job[w].terminal
      /\ job'[w].goal = job[w].goal
  BY <1>3, RunningTask DEF Tasks
<1> QED
  BY <1>2, <1>3, <1>4 DEF Goto, TypeOK

LEMMA ReturnType ==
    ASSUME TypeOK, NEW w \in Workers, Return(w)
    PROVE  /\ queue' \in [Messages -> Nat]
           /\ job' \in [Workers -> Tasks \cup {NoTask}]
  BY DEF Return, TypeOK

LEMMA InitIInv == Init => IInv
<1> SUFFICES ASSUME Init PROVE IInv
  OBVIOUS
<1> USE DEF Init
<1>1. TypeOK
  BY BoundsAssumption DEF TypeOK, TranscriptionStates, TerminalStates, Bots, IdleBot
<1>2. AttemptsInv /\ MeetingInv /\ CopyInv
  BY BoundsAssumption DEF AttemptsInv, MeetingInv, CopyInv, NoTask, NoAsk, IdleBot
<1>3. TaskInv /\ CountInv
  BY DEF TaskInv, OneTaskEach, QueueInv, WorkersInv, CountInv, NoTask, NoAsk, IdleBot, Messages
<1> QED
  BY <1>1, <1>2, <1>3 DEF IInv, StateInv

-----------------------------------------------------------------------------
\* The steps of process_utterance. None but SaveRecording writes the recording,
\* and it finds it as it was when it was checked.
LEMMA WorkerStateStep ==
    ASSUME StateInv, NEW w \in Workers, ProcessUtterance(w) \/ Crash(w)
    PROVE  StateInv'
<1> USE DEF StateInv, recording, utterances, counters
<1>1. ASSUME NEW u \in Utterances, NEW n \in 0 .. MaxRetries, Deliver(w, u, n)
      PROVE  StateInv'
  <2> USE <1>1 DEF Deliver
  <2> DEFINE task == [pc |-> IF status[u] = "text" THEN "checking" ELSE "calling",
                      utt |-> u, retries |-> n, attempts |-> attempts[u] + 1,
                      heard |-> audio[u] = "kept", terminal |-> Terminal(recState),
                      running |-> trState = "IN_PROGRESS", goal |-> "COMPLETE"]
  <2>1. task \in Tasks
    BY DEF TypeOK, Tasks, TerminalStates, Terminal
  <2>2. job' \in [Workers -> Tasks \cup {NoTask}]
    BY <2>1 DEF TypeOK
  <2>3. queue' \in [Messages -> Nat]
    BY DEF TypeOK, Messages
  <2>4. TypeOK'
    BY <2>2, <2>3 DEF TypeOK
  <2>5. AttemptsInv'
    BY BoundsAssumption DEF TypeOK, AttemptsInv
  <2>6. MeetingInv' /\ CopyInv'
    BY DEF TypeOK, MeetingInv, CopyInv
  <2> QED
    BY <2>4, <2>5, <2>6
<1>2. ASSUME Transcribed(w) PROVE StateInv'
  <2> USE <1>2 DEF Transcribed
  <2>1. job[w].utt \in Utterances /\ job[w].attempts \in 0 .. MaxAttempts
    BY RunningTask, BoundsAssumption DEF AttemptsInv
  <2>2. TypeOK'
    BY <2>1, GotoType DEF TypeOK, Write
  <2>3. AttemptsInv' /\ MeetingInv' /\ CopyInv'
    BY <2>1 DEF TypeOK, AttemptsInv, MeetingInv, CopyInv, Write, Goto
  <2> QED
    BY <2>2, <2>3
<1>3. ASSUME RetryableFailure(w) PROVE StateInv'
  <2> USE <1>3 DEF RetryableFailure
  <2>1. job[w].utt \in Utterances /\ job[w].attempts \in 0 .. MaxAttempts
    BY RunningTask, BoundsAssumption DEF AttemptsInv
  <2>2. TypeOK'
    BY <2>1, RaiseType DEF TypeOK, Write
  <2>3. AttemptsInv' /\ MeetingInv' /\ CopyInv'
    BY <2>1 DEF TypeOK, AttemptsInv, MeetingInv, CopyInv, Write, Raise, NoTask
  <2> QED
    BY <2>2, <2>3
<1>4. ASSUME PermanentFailure(w) PROVE StateInv'
  <2> USE <1>4 DEF PermanentFailure
  <2>1. job[w].utt \in Utterances /\ job[w].attempts \in 0 .. MaxAttempts
    BY RunningTask, BoundsAssumption DEF AttemptsInv
  <2>2. CASE job[w].terminal /\ job[w].running
    <3> DEFINE next == [job[w] EXCEPT !.pc = "refreshing", !.goal = "FAILED"]
    <3>1. /\ next \in Tasks
          /\ next.pc = "refreshing"
          /\ next.terminal = job[w].terminal
      BY RunningTask, TaskExcept DEF TerminalStates
    <3>2. job' = [job EXCEPT ![w] = next]
      BY <2>2 DEF TypeOK
    <3> HIDE DEF next
    <3>3. TypeOK'
      BY <2>1, <2>2, <3>1, <3>2 DEF TypeOK, Write
    <3>4. AttemptsInv'
      BY <2>1, <3>1, <3>2 DEF TypeOK, AttemptsInv, Write
    <3>5. MeetingInv' /\ CopyInv'
      BY <2>2, <3>1, <3>2 DEF TypeOK, MeetingInv, CopyInv
    <3> QED
      BY <3>3, <3>4, <3>5
  <2>3. CASE ~(job[w].terminal /\ job[w].running)
    <3>1. TypeOK'
      BY <2>1, <2>3, ReturnType DEF TypeOK, Write
    <3>2. AttemptsInv' /\ MeetingInv' /\ CopyInv'
      BY <2>1, <2>3 DEF TypeOK, AttemptsInv, MeetingInv, CopyInv, Write, Return, NoTask
    <3> QED
      BY <3>1, <3>2
  <2> QED
    BY <2>2, <2>3
<1>5. ASSUME Check(w) PROVE StateInv'
  <2> USE <1>5 DEF Check
  <2>1. TypeOK'
    BY GotoType, ReturnType DEF TypeOK
  <2>2. CASE job[w].terminal /\ Untranscribed = {}
    BY <2>1, <2>2, GotoType DEF AttemptsInv, MeetingInv, CopyInv
  <2>3. CASE ~(job[w].terminal /\ Untranscribed = {})
    BY <2>1, <2>3 DEF TypeOK, AttemptsInv, MeetingInv, CopyInv, Return, NoTask
  <2> QED
    BY <2>2, <2>3
<1>6. ASSUME Refresh(w) PROVE StateInv'
  <2> USE <1>6 DEF Refresh
  <2>1. TypeOK'
    BY GotoType, ReturnType, RaiseType DEF TypeOK
  <2>2. AttemptsInv' /\ MeetingInv'
    <3>1. CASE Goto(w, "saving")
      BY <3>1, GotoType DEF AttemptsInv, MeetingInv
    <3>2. CASE Return(w) \/ Raise(w)
      BY <3>2 DEF TypeOK, AttemptsInv, MeetingInv, Return, Raise, NoTask
    <3> QED
      BY <3>1, <3>2
  <2>3. CopyInv'
    BY ProcessesAssumption
       DEF TypeOK, CopyInv, MeetingInv, MayEnter, Goto, Return, Raise, NoTask
  <2> QED
    BY <2>1, <2>2, <2>3
<1>7. ASSUME SaveRecording(w) PROVE StateInv'
  <2> USE <1>7 DEF SaveRecording, Save
  <2>1. TypeOK'
    BY ReturnType, RunningTask DEF TypeOK, TranscriptionStates, TerminalStates
  <2>2. Terminal(recState)
    BY DEF MeetingInv
  <2>3. AttemptsInv' /\ MeetingInv' /\ CopyInv'
    BY <2>2 DEF TypeOK, AttemptsInv, MeetingInv, CopyInv, Return, NoTask, Terminal, TerminalStates
  <2> QED
    BY <2>1, <2>3
<1>8. ASSUME SaveConflict(w) PROVE StateInv'
  <2> USE <1>8 DEF SaveConflict
  <2>1. TypeOK'
    BY RaiseType DEF TypeOK
  <2>2. AttemptsInv' /\ MeetingInv' /\ CopyInv'
    BY DEF TypeOK, AttemptsInv, MeetingInv, CopyInv, Raise, NoTask
  <2> QED
    BY <2>1, <2>2
<1>9. ASSUME Crash(w) PROVE StateInv'
  <2> USE <1>9 DEF Crash
  <2>1. queue' \in [Messages -> Nat]
    BY RunningTask, PutType DEF TypeOK
  <2>2. TypeOK'
    BY <2>1, BoundsAssumption DEF TypeOK
  <2>3. AttemptsInv' /\ MeetingInv' /\ CopyInv'
    BY DEF TypeOK, AttemptsInv, MeetingInv, CopyInv, NoTask
  <2> QED
    BY <2>2, <2>3
<1> QED
  BY <1>1, <1>2, <1>3, <1>4, <1>5, <1>6, <1>7, <1>8, <1>9 DEF ProcessUtterance

\* The steps of the bot and the end of the meeting.
LEMMA BotStateStep ==
    ASSUME StateInv, BotStep
    PROVE  StateInv'
<1> USE DEF StateInv, recording, utterances, counters
<1>1. ASSUME NEW u \in Utterances, Cut(u) PROVE StateInv'
  <2> USE <1>1 DEF Cut
  <2>1. TypeOK'
    BY DEF TypeOK, Bots
  <2>2. AttemptsInv' /\ MeetingInv' /\ CopyInv'
    BY DEF TypeOK, AttemptsInv, MeetingInv, CopyInv
  <2> QED
    BY <2>1, <2>2
<1>2. ASSUME Mark PROVE StateInv'
  <2> USE <1>2 DEF Mark
  <2>1. TypeOK'
    BY DEF TypeOK, Bots, TranscriptionStates
  <2>2. trState \in {"NOT_STARTED", "IN_PROGRESS"}
    BY DEF MeetingInv
  <2>3. AttemptsInv' /\ MeetingInv' /\ CopyInv'
    BY <2>2 DEF TypeOK, Bots, AttemptsInv, MeetingInv, CopyInv
  <2> QED
    BY <2>1, <2>3
<1>3. ASSUME Send PROVE StateInv'
  <2> USE <1>3 DEF Send
  <2>1. PICK u \in bot.hand : Put(u, 0)
    OBVIOUS
  <2>2. u \in Utterances
    BY DEF TypeOK, Bots
  <2>3. queue' \in [Messages -> Nat]
    BY <2>1, <2>2, PutType, BoundsAssumption DEF TypeOK
  <2>4. TypeOK'
    BY <2>3 DEF TypeOK, Bots, IdleBot
  <2>5. AttemptsInv' /\ MeetingInv' /\ CopyInv'
    BY DEF AttemptsInv, MeetingInv, CopyInv, IdleBot
  <2> QED
    BY <2>4, <2>5
<1>4. ASSUME BotDies PROVE StateInv'
  <2> USE <1>4 DEF BotDies
  <2>1. TypeOK'
    BY BoundsAssumption DEF TypeOK, Bots
  <2>2. AttemptsInv' /\ MeetingInv' /\ CopyInv'
    BY DEF TypeOK, Bots, AttemptsInv, MeetingInv, CopyInv
  <2> QED
    BY <2>1, <2>2
<1>5. ASSUME EndMeeting PROVE StateInv'
  <2> USE <1>5 DEF EndMeeting
  <2>1. bot' \in Bots
    BY DEF TypeOK, Bots
  <2>2. trState' \in TranscriptionStates
    BY DEF TypeOK, TranscriptionStates, Outcome
  <2>3. TypeOK'
    BY <2>1, <2>2 DEF TypeOK
  <2>4. AttemptsInv' /\ MeetingInv' /\ CopyInv'
    BY DEF TypeOK, Bots, AttemptsInv, MeetingInv, CopyInv, Terminal, TerminalStates
  <2> QED
    BY <2>3, <2>4
<1> QED
  BY <1>1, <1>2, <1>3, <1>4, <1>5 DEF BotStep

\* The steps of a retry request, which is made after the meeting only.
LEMMA RetryStateStep ==
    ASSUME StateInv, NEW r \in Requests, Retry(r)
    PROVE  StateInv'
<1> USE DEF StateInv, recording, utterances, counters
<1>1. ASSUME AskRetry(r) PROVE StateInv'
  <2> USE <1>1 DEF AskRetry
  <2> DEFINE asked == [pc |-> IF trState = "FAILED" THEN "refreshing" ELSE "resetting",
                       todo |-> Retryable, reset |-> {}]
  <2>1. asked \in Asks
    BY DEF Asks, Retryable
  <2>2. TypeOK'
    BY <2>1, BoundsAssumption DEF TypeOK
  <2>3. AttemptsInv' /\ MeetingInv' /\ CopyInv'
    BY DEF TypeOK, AttemptsInv, MeetingInv, CopyInv, Terminal, TerminalStates
  <2> QED
    BY <2>2, <2>3
<1>2. ASSUME ask[r].pc \notin {"idle", "dead"}
      PROVE  ask[r] \in Asks /\ recState # "IN_PROGRESS"
  BY <1>2 DEF TypeOK, NoAsk, MeetingInv
<1>3. ASSUME RefreshForRetry(r) PROVE StateInv'
  <2> USE <1>3 DEF RefreshForRetry
  <2>1. [ask[r] EXCEPT !.pc = "saving"] \in Asks /\ recState # "IN_PROGRESS"
    BY <1>2 DEF Asks
  <2>2. TypeOK'
    BY <2>1 DEF TypeOK
  <2>3. AttemptsInv' /\ MeetingInv' /\ CopyInv'
    BY <2>1, ProcessesAssumption DEF TypeOK, AttemptsInv, MeetingInv, CopyInv, NoAsk
  <2> QED
    BY <2>2, <2>3
<1>4. ASSUME SaveForRetry(r) PROVE StateInv'
  <2> USE <1>4 DEF SaveForRetry, Save
  <2>1. [ask[r] EXCEPT !.pc = "resetting"] \in Asks /\ recState # "IN_PROGRESS"
    BY <1>2 DEF Asks
  <2>2. TypeOK'
    BY <2>1 DEF TypeOK, TranscriptionStates
  <2>3. AttemptsInv' /\ MeetingInv' /\ CopyInv'
    BY <2>1 DEF TypeOK, AttemptsInv, MeetingInv, CopyInv
  <2> QED
    BY <2>2, <2>3
<1>5. ASSUME RetryConflict(r) PROVE StateInv'
  <2> USE <1>5 DEF RetryConflict
  <2>1. TypeOK'
    BY DEF TypeOK
  <2>2. AttemptsInv' /\ MeetingInv' /\ CopyInv'
    BY DEF TypeOK, AttemptsInv, MeetingInv, CopyInv, NoAsk
  <2> QED
    BY <2>1, <2>2
<1>6. ASSUME NEW u \in Utterances, ResetRow(r, u) PROVE StateInv'
  <2> USE <1>6 DEF ResetRow
  <2>1. [ask[r] EXCEPT !.reset = {u}] \in Asks /\ recState # "IN_PROGRESS"
    BY <1>2 DEF Asks
  <2>2. TypeOK'
    BY <2>1, BoundsAssumption DEF TypeOK
  <2>3. AttemptsInv'
    BY BoundsAssumption DEF TypeOK, AttemptsInv
  <2>4. MeetingInv' /\ CopyInv'
    BY <2>1 DEF TypeOK, MeetingInv, CopyInv
  <2> QED
    BY <2>2, <2>3, <2>4
<1>7. ASSUME NEW u \in Utterances, SendAgain(r, u) PROVE StateInv'
  <2> USE <1>7 DEF SendAgain
  <2> DEFINE left == ask[r].todo \ {u}
             next == IF left = {} THEN NoAsk ELSE [ask[r] EXCEPT !.todo = left, !.reset = {}]
  <2>1. ask[r] \in Asks /\ recState # "IN_PROGRESS"
    BY <1>2
  <2>2. next \in Asks \cup {NoAsk} /\ next.pc \in {"idle", "resetting"}
    BY <2>1 DEF Asks, NoAsk
  <2>3. ask' = [ask EXCEPT ![r] = next]
    OBVIOUS
  <2>4. queue' \in [Messages -> Nat]
    BY PutType, BoundsAssumption DEF TypeOK
  <2> HIDE DEF next
  <2>5. TypeOK'
    BY <2>2, <2>3, <2>4 DEF TypeOK
  <2>6. AttemptsInv' /\ MeetingInv' /\ CopyInv'
    BY <2>1, <2>2, <2>3 DEF TypeOK, AttemptsInv, MeetingInv, CopyInv
  <2> QED
    BY <2>5, <2>6
<1>8. ASSUME RequestDies(r) PROVE StateInv'
  <2> USE <1>8 DEF RequestDies
  <2>1. [ask[r] EXCEPT !.pc = "dead"] \in Asks /\ recState # "IN_PROGRESS"
    BY <1>2 DEF Asks
  <2>2. TypeOK'
    BY <2>1, BoundsAssumption DEF TypeOK
  <2>3. AttemptsInv' /\ MeetingInv' /\ CopyInv'
    BY <2>1 DEF TypeOK, AttemptsInv, MeetingInv, CopyInv
  <2> QED
    BY <2>2, <2>3
<1> QED
  BY <1>1, <1>3, <1>4, <1>5, <1>6, <1>7, <1>8 DEF Retry

LEMMA StateStep == StateInv /\ [Next]_vars => StateInv'
<1> SUFFICES ASSUME StateInv, [Next]_vars PROVE StateInv'
  OBVIOUS
<1>1. ASSUME NEW u \in Utterances, CleanUpAudio(u) PROVE StateInv'
  <2> USE <1>1 DEF CleanUpAudio, StateInv, recording, counters
  <2>1. TypeOK'
    BY DEF TypeOK
  <2> QED
    BY <2>1 DEF AttemptsInv, MeetingInv, CopyInv
<1>2. ASSUME UNCHANGED vars PROVE StateInv'
  BY <1>2 DEF vars, recording, utterances, counters, StateInv, TypeOK, AttemptsInv,
              MeetingInv, CopyInv, Messages, Terminal
<1> QED
  BY <1>1, <1>2, WorkerStateStep, BotStateStep, RetryStateStep DEF Next

\* The requests go their own way.
LEMMA WorkerKeepsRest ==
    ASSUME NEW w \in Workers, ProcessUtterance(w) \/ Crash(w)
    PROVE  UNCHANGED <<ask, asks, bot>>
  BY DEF ProcessUtterance, Deliver, Transcribed, RetryableFailure, PermanentFailure, Check,
         Refresh, SaveRecording, SaveConflict, Crash, counters

LEMMA BotKeepsRest ==
    ASSUME BotStep
    PROVE  UNCHANGED <<ask, asks, job>>
  BY DEF BotStep, Cut, Mark, Send, BotDies, EndMeeting, counters

\* A retry is asked for once and for all.
LEMMA AsksGrow ==
    TypeOK /\ [Next]_vars => /\ asks' = 0 => asks = 0
                             /\ asks' <= 1 => asks <= 1
<1> SUFFICES ASSUME TypeOK, [Next]_vars PROVE asks' = asks \/ asks' = asks + 1
  BY BoundsAssumption DEF TypeOK
<1> USE DEF counters
<1>1. ASSUME NEW w \in Workers, ProcessUtterance(w) \/ Crash(w) PROVE asks' = asks
  BY <1>1, WorkerKeepsRest
<1>2. ASSUME BotStep PROVE asks' = asks
  BY <1>2, BotKeepsRest
<1>3. ASSUME NEW r \in Requests, Retry(r) PROVE asks' = asks \/ asks' = asks + 1
  BY <1>3 DEF Retry, AskRetry, RefreshForRetry, SaveForRetry, RetryConflict, ResetRow,
              SendAgain, RequestDies
<1>4. ASSUME NEW u \in Utterances, CleanUpAudio(u) PROVE asks' = asks
  BY <1>4 DEF CleanUpAudio
<1>5. ASSUME UNCHANGED vars PROVE asks' = asks
  BY <1>5 DEF vars
<1> QED
  BY <1>1, <1>2, <1>3, <1>4, <1>5 DEF Next

-----------------------------------------------------------------------------
\* Until a retry is asked for. The queue after a message was put.
LEMMA PutEffect ==
    ASSUME TypeOK, NEW u \in Utterances, NEW n \in 0 .. MaxRetries, Put(u, n)
    PROVE  \A m \in Messages :
              \/ queue'[m] = queue[m]
              \/ m = <<u, n>> /\ queue'[m] = queue[m] + 1
  BY DEF TypeOK, Put, Messages

\* A task that leaves its worker, put in the queue again or not.
LEMMA TaskLeaves ==
    ASSUME TypeOK, OneTaskEach, NEW w \in Workers, job[w].pc # "idle",
           job' = [job EXCEPT ![w] = NoTask],
           \/ UNCHANGED queue
           \/ \E n \in 0 .. MaxRetries : Put(job[w].utt, n),
           UNCHANGED bot,
           \A u \in Utterances : status[u] # "none" => status'[u] # "none",
           \A u \in Utterances \ {job[w].utt} : status'[u] = status[u]
    PROVE  OneTaskEach'
<1> USE DEF OneTaskEach
<1>1. job[w].utt \in Utterances
  BY RunningTask
<1>2. \A v \in Workers : job'[v].pc # "idle" =>
         job'[v] = job[v] /\ v # w /\ job[v].utt \in Utterances \ {job[w].utt}
  BY RunningTask DEF TypeOK, NoTask, WorkersInv
<1>3. \A m \in Messages : m[1] \in Utterances /\ queue[m] \in Nat
  BY DEF TypeOK, Messages
<1>4. bot.hand \subseteq Utterances
  BY DEF TypeOK, Bots
<1>5. \A m \in Messages : queue[m] > 0 => m[1] # job[w].utt
  BY DEF WorkersInv
<1>8. \A u \in bot.hand : u \in Utterances /\ u # job[w].utt
  BY <1>4 DEF WorkersInv
<1>6. CASE UNCHANGED queue
  <2>1. QueueInv'
    BY <1>3, <1>6 DEF QueueInv
  <2>2. WorkersInv'
    BY <1>2, <1>6 DEF WorkersInv
  <2> QED
    BY <1>4, <1>8, <2>1, <2>2
<1>7. CASE \E n \in 0 .. MaxRetries : Put(job[w].utt, n)
  <2>1. PICK n \in 0 .. MaxRetries : Put(job[w].utt, n)
    BY <1>7
  <2> DEFINE put == <<job[w].utt, n>>
  <2>2. put \in Messages /\ put[1] = job[w].utt
    BY <1>1 DEF Messages
  <2>3. \A m \in Messages : m # put => queue'[m] = queue[m]
    BY <1>1, <2>1, PutEffect
  <2>4. queue[put] = 0 /\ queue'[put] = 1
    <3>1. queue[put] = 0
      BY <1>3, <1>5, <2>2 DEF QueueInv
    <3> QED
      BY <2>1, <2>2, <3>1 DEF Put, TypeOK
  <2> HIDE DEF put
  <2>5. QueueInv'
    BY <1>1, <1>3, <1>5, <2>2, <2>3, <2>4 DEF QueueInv, WorkersInv
  <2>6. WorkersInv'
    BY <1>2, <1>3, <2>2, <2>3, <2>4 DEF WorkersInv
  <2> QED
    BY <1>4, <1>8, <2>5, <2>6
<1> QED
  BY <1>6, <1>7

\* A task that goes on at its worker, past the provider.
LEMMA TaskGoesOn ==
    ASSUME TypeOK, OneTaskEach, NEW w \in Workers, job[w].pc # "idle",
           job'[w].pc \notin {"idle", "calling"}, job'[w].utt = job[w].utt,
           \A v \in Workers \ {w} : job'[v] = job[v],
           UNCHANGED <<queue, bot>>,
           \A u \in Utterances : status[u] # "none" => status'[u] # "none",
           \A u \in Utterances \ {job[w].utt} : status'[u] = status[u]
    PROVE  OneTaskEach'
<1> USE DEF OneTaskEach
<1>1. \A v \in Workers : job[v].pc # "idle" => job[v].utt \in Utterances
  BY RunningTask
<1>2. \A m \in Messages : m[1] \in Utterances /\ queue[m] \in Nat
  BY DEF TypeOK, Messages
<1>3. bot.hand \subseteq Utterances
  BY DEF TypeOK, Bots
<1>4. QueueInv'
  BY <1>2 DEF QueueInv
<1>5. WorkersInv'
  <2>1. \A v \in Workers : job'[v].pc # "idle" => job[v].pc # "idle" /\ job'[v].utt = job[v].utt
    OBVIOUS
  <2> QED
    BY <1>1, <2>1 DEF WorkersInv
<1>6. \A u \in bot.hand : u \in Utterances /\ u # job[w].utt
  BY <1>3 DEF WorkersInv
<1> QED
  BY <1>3, <1>4, <1>5, <1>6

\* A count of zero is for good: a worker that could change it would be working on
\* an untranscribed utterance.
LEMMA WorkerTaskStep ==
    ASSUME StateInv, OneTaskEach, NEW w \in Workers, ProcessUtterance(w) \/ Crash(w)
    PROVE  OneTaskEach' /\ (CountInv => CountInv')
<1> USE DEF recording, utterances, counters, StateInv
<1>1. ASSUME NEW u \in Utterances, NEW n \in 0 .. MaxRetries, Deliver(w, u, n)
      PROVE  OneTaskEach' /\ (CountInv => CountInv')
  <2> USE <1>1 DEF Deliver
  <2> DEFINE m == <<u, n>>
             task == [pc |-> IF status[u] = "text" THEN "checking" ELSE "calling",
                      utt |-> u, retries |-> n, attempts |-> attempts[u] + 1,
                      heard |-> audio[u] = "kept", terminal |-> Terminal(recState),
                      running |-> trState = "IN_PROGRESS", goal |-> "COMPLETE"]
  <2>1. m \in Messages /\ m[1] = u
    BY DEF Messages
  <2>2. \A l \in Messages : queue[l] \in Nat
    BY DEF TypeOK
  <2>3. /\ queue'[m] = 0
        /\ \A l \in Messages \ {m} : queue'[l] = queue[l]
    BY <2>1, <2>2 DEF TypeOK, OneTaskEach, QueueInv
  <2>4. \A l \in Messages : queue'[l] > 0 => queue[l] > 0 /\ l[1] # u
    BY <2>1, <2>2, <2>3 DEF OneTaskEach, QueueInv
  <2>5. /\ status[u] # "none" /\ u \notin bot.hand
        /\ \A v \in Workers : job[v].pc # "idle" => job[v].utt # u
    BY <2>1, <2>2 DEF OneTaskEach, QueueInv, WorkersInv
  <2>6. QueueInv'
    BY <2>2, <2>3, <2>4 DEF OneTaskEach, QueueInv
  <2>7. CASE status[u] = "failed"
    <3>1. WorkersInv'
      BY <2>4, <2>7 DEF OneTaskEach, WorkersInv
    <3> QED
      BY <2>6, <2>7, <3>1 DEF OneTaskEach, CountInv, Untranscribed
  <2>8. CASE status[u] # "failed"
    <3>1. /\ task.utt = u
          /\ task.pc \in {"checking", "calling"}
          /\ task.pc = "calling" => status[u] = "pending"
      BY <2>5, <2>8 DEF TypeOK
    <3>2. job' = [job EXCEPT ![w] = task]
      BY <2>8
    <3> HIDE DEF task
    <3>3. job'[w] = task /\ \A v \in Workers \ {w} : job'[v] = job[v]
      BY <3>2 DEF TypeOK
    <3>4. WorkersInv'
      BY <2>4, <2>5, <3>1, <3>3 DEF OneTaskEach, WorkersInv
    <3> QED
      BY <2>6, <3>1, <3>3, <3>4 DEF OneTaskEach, CountInv, Untranscribed
  <2> QED
    BY <2>7, <2>8
<1>2. ASSUME Transcribed(w) PROVE OneTaskEach' /\ (CountInv => CountInv')
  <2> USE <1>2 DEF Transcribed
  <2>1. /\ status' = [status EXCEPT ![job[w].utt] = "text"]
        /\ job[w].utt \in Utterances
    BY RunningTask DEF Write
  <2>2. OneTaskEach'
    BY <2>1, GotoType, TaskGoesOn DEF TypeOK, Goto
  <2>3. Untranscribed' \subseteq Untranscribed
    BY <2>1 DEF TypeOK, Untranscribed
  <2> QED
    BY <2>2, <2>3, GotoType DEF CountInv
<1>3. ASSUME job[w].pc = "calling" PROVE Untranscribed # {}
  BY <1>3, RunningTask DEF OneTaskEach, WorkersInv, Untranscribed
<1>4. ASSUME RetryableFailure(w) PROVE OneTaskEach' /\ (CountInv => CountInv')
  <2> USE <1>4 DEF RetryableFailure
  <2>1. /\ status' = [status EXCEPT ![job[w].utt] = "pending"]
        /\ job[w].utt \in Utterances
        /\ job[w].retries \in 0 .. MaxRetries
    BY RunningTask DEF Write
  <2>2. \/ UNCHANGED queue
        \/ \E n \in 0 .. MaxRetries : Put(job[w].utt, n)
    BY <2>1, BoundsAssumption DEF Raise
  <2>3. OneTaskEach'
    BY <2>1, <2>2, TaskLeaves DEF TypeOK, Raise
  <2> QED
    BY <1>3, <2>3 DEF TypeOK, CountInv, Raise, NoTask
<1>5. ASSUME PermanentFailure(w) PROVE OneTaskEach' /\ (CountInv => CountInv')
  <2> USE <1>5 DEF PermanentFailure
  <2>1. /\ status' = [status EXCEPT ![job[w].utt] = "failed"]
        /\ job[w].utt \in Utterances
    BY RunningTask DEF Write
  <2>2. CASE job[w].terminal /\ job[w].running
    <3> DEFINE next == [job[w] EXCEPT !.pc = "refreshing", !.goal = "FAILED"]
    <3>1. next.pc = "refreshing" /\ next.goal = "FAILED" /\ next.utt = job[w].utt
      BY RunningTask, TaskExcept DEF TerminalStates
    <3>2. job' = [job EXCEPT ![w] = next] /\ UNCHANGED queue
      BY <2>2 DEF TypeOK
    <3> HIDE DEF next
    <3>3. job'[w] = next /\ \A v \in Workers \ {w} : job'[v] = job[v]
      BY <3>2 DEF TypeOK
    <3>4. OneTaskEach'
      BY <2>1, <3>1, <3>2, <3>3, TaskGoesOn DEF TypeOK
    <3> QED
      BY <1>3, <3>1, <3>3, <3>4 DEF CountInv
  <2>3. CASE ~(job[w].terminal /\ job[w].running)
    <3>1. OneTaskEach'
      BY <2>1, <2>3, TaskLeaves DEF TypeOK, Return
    <3> QED
      BY <1>3, <2>3, <3>1 DEF TypeOK, CountInv, Return, NoTask
  <2> QED
    BY <2>2, <2>3
<1>6. ASSUME job[w].pc # "idle", UNCHANGED <<status, bot>>, Return(w) \/ Raise(w)
      PROVE  /\ OneTaskEach'
             /\ Untranscribed' = Untranscribed
             /\ \A v \in Workers : job'[v].pc # "idle" => job'[v] = job[v]
  <2>1. job[w].retries \in 0 .. MaxRetries
    BY <1>6, RunningTask
  <2>2. \/ UNCHANGED queue
        \/ \E n \in 0 .. MaxRetries : Put(job[w].utt, n)
    BY <1>6, <2>1, BoundsAssumption DEF Raise, Return
  <2>3. job' = [job EXCEPT ![w] = NoTask]
    BY <1>6 DEF Raise, Return
  <2>4. OneTaskEach'
    BY <1>6, <2>2, <2>3, TaskLeaves
  <2> QED
    BY <1>6, <2>3, <2>4 DEF TypeOK, NoTask, Untranscribed
<1>7. ASSUME Check(w) PROVE OneTaskEach' /\ (CountInv => CountInv')
  <2> USE <1>7 DEF Check
  <2>1. CASE Goto(w, "refreshing") /\ Untranscribed = {}
    <3>1. OneTaskEach'
      BY <2>1, GotoType, TaskGoesOn DEF Goto
    <3> QED
      BY <2>1, <3>1 DEF CountInv, Untranscribed
  <2>2. CASE Return(w)
    BY <1>6, <2>2 DEF CountInv
  <2> QED
    BY <2>1, <2>2
<1>8. ASSUME Refresh(w) PROVE OneTaskEach' /\ (CountInv => CountInv')
  <2> USE <1>8 DEF Refresh
  <2>1. CASE Goto(w, "saving")
    <3>1. OneTaskEach'
      BY <2>1, GotoType, TaskGoesOn DEF Goto
    <3> QED
      BY <2>1, <3>1, GotoType DEF CountInv, Untranscribed
  <2>2. CASE Return(w) \/ Raise(w)
    BY <1>6, <2>2 DEF CountInv
  <2> QED
    BY <2>1, <2>2
<1>9. ASSUME SaveRecording(w) PROVE OneTaskEach' /\ (CountInv => CountInv')
  BY <1>6, <1>9 DEF SaveRecording, Save, CountInv
<1>10. ASSUME SaveConflict(w) PROVE OneTaskEach' /\ (CountInv => CountInv')
  BY <1>6, <1>10 DEF SaveConflict, CountInv
<1>11. ASSUME Crash(w) PROVE OneTaskEach' /\ (CountInv => CountInv')
  <2> USE <1>11 DEF Crash
  <2>1. job[w].retries \in 0 .. MaxRetries
    BY RunningTask
  <2>2. OneTaskEach'
    BY <2>1, TaskLeaves
  <2> QED
    BY <2>2 DEF TypeOK, CountInv, NoTask, Untranscribed
<1> QED
  BY <1>1, <1>2, <1>4, <1>5, <1>7, <1>8, <1>9, <1>10, <1>11 DEF ProcessUtterance

\* The bot cuts an utterance nobody has a task of, while nobody can have counted.
LEMMA BotTaskStep ==
    ASSUME StateInv, OneTaskEach, BotStep
    PROVE  OneTaskEach' /\ (CountInv => CountInv')
<1> USE DEF recording, utterances, counters, StateInv
<1>1. \A m \in Messages : m[1] \in Utterances /\ queue[m] \in Nat
  BY DEF TypeOK, Messages
<1>2. \A w \in Workers : job[w].pc # "idle" => job[w].utt \in Utterances
  BY RunningTask
<1>3. bot.hand \subseteq Utterances
  BY DEF TypeOK, Bots
<1>4. ASSUME NEW u \in Utterances, Cut(u) PROVE OneTaskEach' /\ (CountInv => CountInv')
  <2> USE <1>4 DEF Cut
  <2>1. QueueInv'
    BY <1>1 DEF TypeOK, OneTaskEach, QueueInv
  <2>2. WorkersInv'
    BY <1>2 DEF TypeOK, OneTaskEach, WorkersInv
  <2>3. /\ trState # "COMPLETE"
        /\ \A w \in Workers : job[w].pc \notin {"refreshing", "saving"}
    BY DEF MeetingInv, Terminal, TerminalStates
  <2> QED
    BY <2>1, <2>2, <2>3 DEF TypeOK, OneTaskEach, CountInv
<1>5. ASSUME Mark PROVE OneTaskEach' /\ (CountInv => CountInv')
  BY <1>5 DEF Mark, TypeOK, Bots, OneTaskEach, QueueInv, WorkersInv, CountInv, Untranscribed
<1>6. ASSUME Send PROVE OneTaskEach' /\ (CountInv => CountInv')
  <2> USE <1>6 DEF Send
  <2>1. PICK u \in bot.hand : Put(u, 0)
    OBVIOUS
  <2> DEFINE put == <<u, 0>>
  <2>2. u \in Utterances /\ put \in Messages /\ put[1] = u
    BY <1>3, BoundsAssumption DEF Messages
  <2>3. /\ \A m \in Messages : queue[m] > 0 => m[1] # u
        /\ \A w \in Workers : job[w].pc # "idle" => job[w].utt # u
        /\ status[u] # "none"
    BY DEF OneTaskEach, QueueInv, WorkersInv
  <2>4. \A m \in Messages : m # put => queue'[m] = queue[m]
    BY <2>1, <2>2, PutEffect, BoundsAssumption
  <2>5. queue[put] = 0 /\ queue'[put] = 1
    <3>1. queue[put] = 0
      BY <1>1, <2>2, <2>3
    <3> QED
      BY <2>1, <2>2, <3>1 DEF Put, TypeOK
  <2>6. bot'.hand = {}
    BY DEF IdleBot
  <2> HIDE DEF put
  <2>7. QueueInv'
    BY <1>1, <2>2, <2>3, <2>4, <2>5, <2>6 DEF OneTaskEach, QueueInv
  <2>8. WorkersInv'
    BY <1>1, <1>2, <2>2, <2>3, <2>4, <2>5, <2>6 DEF OneTaskEach, WorkersInv
  <2> QED
    BY <2>6, <2>7, <2>8 DEF OneTaskEach, CountInv, Untranscribed
<1>7. ASSUME BotDies PROVE OneTaskEach' /\ (CountInv => CountInv')
  BY <1>7 DEF BotDies, TypeOK, Bots, OneTaskEach, QueueInv, WorkersInv, CountInv, Untranscribed
<1>8. ASSUME EndMeeting PROVE OneTaskEach' /\ (CountInv => CountInv')
  <2> USE <1>8 DEF EndMeeting
  <2>1. bot'.hand = bot.hand
    BY DEF TypeOK, Bots
  <2>2. OneTaskEach'
    BY <2>1 DEF OneTaskEach, QueueInv, WorkersInv
  <2> QED
    BY <2>2 DEF CountInv, Outcome, Untranscribed
<1> QED
  BY <1>4, <1>5, <1>6, <1>7, <1>8 DEF BotStep

LEMMA NextIInv == IInv /\ [Next]_vars => IInv'
<1> SUFFICES ASSUME IInv, [Next]_vars PROVE IInv'
  OBVIOUS
<1> USE DEF IInv
<1>1. StateInv'
  BY StateStep
<1>2. ASSUME asks' = 0 PROVE TaskInv' /\ CountInv'
  <2>1. asks = 0 /\ TaskInv /\ CountInv
    BY <1>2, AsksGrow DEF StateInv
  <2>2. ASSUME NEW r \in Requests, Retry(r) PROVE FALSE
    <3>1. ~AskRetry(r)
      BY <1>2, <2>1 DEF AskRetry
    <3>2. ask[r].pc = "idle"
      BY <2>1 DEF TaskInv
    <3> QED
      BY <2>2, <3>1, <3>2 DEF Retry, RefreshForRetry, SaveForRetry, RetryConflict, ResetRow,
                              SendAgain, RequestDies
  <2>3. ASSUME NEW u \in Utterances, CleanUpAudio(u) PROVE TaskInv' /\ CountInv'
    BY <2>1, <2>3 DEF CleanUpAudio, recording, counters, TaskInv, OneTaskEach, QueueInv, WorkersInv,
                      CountInv, Untranscribed
  <2>4. ASSUME UNCHANGED vars PROVE TaskInv' /\ CountInv'
    BY <2>1, <2>4 DEF vars, recording, utterances, counters, TaskInv, OneTaskEach, QueueInv, WorkersInv,
                      CountInv, Untranscribed
  <2>5. ASSUME NEW w \in Workers, ProcessUtterance(w) \/ Crash(w) PROVE TaskInv' /\ CountInv'
    BY <2>1, <2>5, WorkerTaskStep, WorkerKeepsRest DEF TaskInv
  <2>6. ASSUME BotStep PROVE TaskInv' /\ CountInv'
    BY <2>1, <2>6, BotTaskStep, BotKeepsRest DEF TaskInv
  <2> QED
    BY <2>1, <2>2, <2>3, <2>4, <2>5, <2>6 DEF Next
<1> QED
  BY <1>1, <1>2

LEMMA Invariant == Spec => []IInv
  BY InitIInv, NextIInv, PTL DEF Spec

-----------------------------------------------------------------------------
\* Type correctness; with it no task ever has more attempts than the code allows.
THEOREM TranscriptionTypeCorrect == Spec => []TypeOK
<1>1. IInv => TypeOK
  BY DEF IInv, StateInv
<1> QED
  BY <1>1, Invariant, PTL

\* Until a retry is asked for, a complete transcription has the text of every
\* utterance (RecordingManager.set_recording_transcription_complete and
\* terminate_recording), whatever dies and however often a task is delivered.
THEOREM CompleteIsTranscribed == Spec => []CompleteMeansTranscribed
<1>1. IInv => CompleteMeansTranscribed
  BY DEF IInv, CountInv, CompleteMeansTranscribed
<1> QED
  BY <1>1, Invariant, PTL

\* The transcription state moves along RecordingManager's transitions only, with
\* any number of workers and requests that write the recording from copies.
THEOREM StateMovesAsManaged == Spec => TranscriptionMoves
<1>1. ASSUME IInv, [Next]_vars PROVE [trState' # trState => <<trState, trState'>> \in Moves]_vars
  <2> USE <1>1 DEF IInv, StateInv, recording, Moves
  <2>1. ASSUME NEW w \in Workers, ProcessUtterance(w) \/ Crash(w), trState' # trState
        PROVE  <<trState, trState'>> \in Moves
    <3>1. SaveRecording(w)
      BY <2>1 DEF ProcessUtterance, Deliver, Transcribed, RetryableFailure, PermanentFailure,
                  Check, Refresh, SaveConflict, Crash
    <3>2. trState = "IN_PROGRESS" /\ trState' \in TerminalStates
      BY <3>1, RunningTask DEF SaveRecording, Save, CopyInv
    <3> QED
      BY <3>2 DEF TerminalStates
  <2>2. ASSUME BotStep, trState' # trState PROVE <<trState, trState'>> \in Moves
    <3>1. CASE Mark
      BY <2>2, <3>1 DEF Mark, MeetingInv
    <3>2. CASE EndMeeting
      BY <2>2, <3>2 DEF EndMeeting, Outcome
    <3> QED
      BY <2>2, <3>1, <3>2 DEF BotStep, Cut, Send, BotDies
  <2>3. ASSUME NEW r \in Requests, Retry(r), trState' # trState
        PROVE  <<trState, trState'>> \in Moves
    <3>1. SaveForRetry(r)
      BY <2>3 DEF Retry, AskRetry, RefreshForRetry, RetryConflict, ResetRow, SendAgain, RequestDies
    <3> QED
      BY <3>1 DEF SaveForRetry, Save, CopyInv
  <2>4. ASSUME NEW u \in Utterances, CleanUpAudio(u) PROVE trState' = trState
    BY <2>4 DEF CleanUpAudio
  <2> QED
    BY <2>1, <2>2, <2>3, <2>4 DEF Next
<1> QED
  BY <1>1, Invariant, PTL DEF Spec, TranscriptionMoves

\* Until a retry is asked for, no death, redelivery or late worker takes an
\* utterance's text away.
THEOREM TextStays == Spec => TextIsKept
<1>1. ASSUME IInv, [Next]_vars
      PROVE  [asks' = 0 => \A u \in Utterances : status[u] = "text" => status'[u] = "text"]_vars
  <2> SUFFICES ASSUME asks' = 0, Next, NEW u \in Utterances, status[u] = "text"
               PROVE  status'[u] = "text"
    BY <1>1
  <2> USE <1>1 DEF IInv, StateInv, utterances
  <2>1. asks = 0 /\ TaskInv
    BY AsksGrow
  <2>2. ASSUME NEW w \in Workers, ProcessUtterance(w) \/ Crash(w) PROVE status'[u] = "text"
    <3>1. CASE Transcribed(w) \/ RetryableFailure(w) \/ PermanentFailure(w)
      <4>1. status[job[w].utt] = "pending"
        BY <2>1, <3>1 DEF Transcribed, RetryableFailure, PermanentFailure, TaskInv,
                    OneTaskEach, WorkersInv
      <4> QED
        BY <3>1, <4>1 DEF Transcribed, RetryableFailure, PermanentFailure, Write, TypeOK
    <3>2. CASE ~(Transcribed(w) \/ RetryableFailure(w) \/ PermanentFailure(w))
      BY <2>2, <3>2 DEF ProcessUtterance, Deliver, Check, Refresh, SaveRecording, SaveConflict, Crash
    <3> QED
      BY <3>1, <3>2
  <2>3. ASSUME BotStep PROVE status'[u] = "text"
    BY <2>3 DEF BotStep, Cut, Mark, Send, BotDies, EndMeeting, TypeOK
  <2>4. ASSUME NEW r \in Requests, Retry(r) PROVE status'[u] = "text"
    BY <2>1, <2>4 DEF Retry, AskRetry, RefreshForRetry, SaveForRetry, RetryConflict, ResetRow,
                      SendAgain, RequestDies, TaskInv
  <2>5. ASSUME NEW v \in Utterances, CleanUpAudio(v) PROVE status'[u] = "text"
    BY <2>5 DEF CleanUpAudio
  <2> QED
    BY <2>2, <2>3, <2>4, <2>5 DEF Next
<1> QED
  BY <1>1, Invariant, PTL DEF Spec, TextIsKept

-----------------------------------------------------------------------------
\* Until a second retry is asked for. The request that retries takes utterances
\* that failed, and those have no task: none of them failed after the end of the
\* meeting had settled the transcription and still has to say so.
Idle(r) == ask[r].pc = "idle"

\* What a request that retries still has to do is failed and nobody's task, but for
\* the row it has reset and not yet sent.
AskAgrees(r) ==
    ~Idle(r) =>
       /\ ask[r].reset \subseteq ask[r].todo
       /\ ask[r].pc \in {"refreshing", "saving"} => ask[r].reset = {}
       /\ \A u \in ask[r].todo :
            /\ ~Sent(u) /\ u \notin bot.hand
            /\ status[u] = IF u \in ask[r].reset THEN "pending" ELSE "failed"

Served(u) == Sent(u) \/ u \in bot.hand \/ \E r \in Requests : ~Idle(r) /\ u \in ask[r].reset

\* The task of an utterance that waits was not retried more often than the attempts
\* that were counted. While it is calm, no task is left of an utterance that failed.
WaiterAgrees(u, calm) ==
    /\ status[u] = "pending" => \A n \in 0 .. MaxRetries : queue[<<u, n>>] > 0 => n <= attempts[u]
    /\ calm /\ status[u] = "failed" => ~Sent(u)

\* A task that has its answer has written it; while it is calm, none fails the
\* transcription after the end of the meeting, which did so itself.
TaskOfWaiter(w, calm) ==
    job[w].pc # "idle" =>
       /\ job[w].pc # "calling" => status[job[w].utt] \in {"text", "failed"}
       /\ job[w].pc = "calling" => /\ job[w].retries <= attempts[job[w].utt]
                                   /\ job[w].retries < job[w].attempts
       /\ calm => ~(job[w].terminal /\ job[w].running)

\* It is calm before a retry is asked for.
Calm == asks = 0
WaiterOK(u) == (status[u] = "pending" => Served(u)) /\ WaiterAgrees(u, Calm)

WaitInv ==
    /\ OneTaskEach
    /\ \A u, v \in bot.hand : u = v
    /\ bot.pc = "idle" => bot.hand = {}
    /\ \A r, s \in Requests : ~Idle(r) /\ ~Idle(s) => r = s
    /\ \A r \in Requests : AskAgrees(r)
    /\ \A u \in Utterances : WaiterOK(u)
    /\ \A w \in Workers : TaskOfWaiter(w, Calm)
    /\ asks = 0 /\ Terminal(recState) => trState # "IN_PROGRESS"
    /\ asks = 0 => \A r \in Requests : Idle(r)

WaitIInv == StateInv /\ (asks <= 1 => WaitInv)

\* What a step of a worker leaves alone: every utterance but the one it is at work on.
TouchesOnly(w, u) ==
    /\ \A v \in Workers \ {w} : job'[v] = job[v] /\ (job[v].pc # "idle" => job[v].utt # u)
    /\ job[w].pc # "idle" => job[w].utt = u
    /\ job'[w].pc # "idle" => job'[w].utt = u
    /\ \A x \in Utterances \ {u} : status'[x] = status[x] /\ attempts'[x] = attempts[x]
    /\ \A m \in Messages : m[1] # u => queue'[m] = queue[m]
    /\ Sent(u)

\* What the step must bring about for the one it is at work on.
Lasts(w, u, calm) ==
    /\ status'[u] = "pending" => Sent(u)'
    /\ WaiterAgrees(u, calm)'
    /\ TaskOfWaiter(w, calm)'

LEMMA SentElsewhere ==
    ASSUME NEW x \in Utterances, \A n \in 0 .. MaxRetries : queue'[<<x, n>>] = queue[<<x, n>>],
           \A w \in Workers : (job'[w].pc # "idle" /\ job'[w].utt = x)
                                <=> (job[w].pc # "idle" /\ job[w].utt = x)
    PROVE  Sent(x)' <=> Sent(x)
  BY DEF Sent

LEMMA TouchesKeepsSent ==
    ASSUME NEW w \in Workers, NEW u \in Utterances, TouchesOnly(w, u), NEW x \in Utterances \ {u}
    PROVE  Sent(x)' <=> Sent(x)
<1>1. \A n \in 0 .. MaxRetries : <<x, n>> \in Messages /\ <<x, n>>[1] = x
  BY DEF Messages
<1>2. \A n \in 0 .. MaxRetries : queue'[<<x, n>>] = queue[<<x, n>>]
  BY <1>1 DEF TouchesOnly
<1>3. \A v \in Workers : (job'[v].pc # "idle" /\ job'[v].utt = x)
                           <=> (job[v].pc # "idle" /\ job[v].utt = x)
  BY DEF TouchesOnly
<1> QED
  BY <1>2, <1>3, SentElsewhere

\* A busy worker's utterance is nobody else's.
LEMMA OwnUtterance ==
    ASSUME TypeOK, OneTaskEach, NEW w \in Workers, job[w].pc # "idle"
    PROVE  /\ job[w].utt \in Utterances /\ Sent(job[w].utt)
           /\ \A v \in Workers \ {w} : job[v].pc # "idle" => job[v].utt # job[w].utt
           /\ \A n \in 0 .. MaxRetries : queue[<<job[w].utt, n>>] = 0
<1>1. job[w].utt \in Utterances
  BY RunningTask
<1>2. \A n \in 0 .. MaxRetries :
         /\ <<job[w].utt, n>> \in Messages
         /\ <<job[w].utt, n>>[1] = job[w].utt
         /\ queue[<<job[w].utt, n>>] \in Nat
  BY <1>1 DEF Messages, TypeOK
<1>3. \A m \in Messages : queue[m] > 0 => m[1] # job[w].utt
  BY DEF OneTaskEach, WorkersInv
<1>4. \A n \in 0 .. MaxRetries : queue[<<job[w].utt, n>>] = 0
  BY <1>2, <1>3
<1> QED
  BY <1>1, <1>4 DEF OneTaskEach, WorkersInv, Sent

\* A task that leaves its worker, put in the queue again or not.
LEMMA LeavingTouches ==
    ASSUME TypeOK, OneTaskEach, NEW w \in Workers, job[w].pc # "idle",
           job' = [job EXCEPT ![w] = NoTask],
           \/ UNCHANGED queue
           \/ \E n \in 0 .. MaxRetries : Put(job[w].utt, n),
           \A x \in Utterances \ {job[w].utt} : status'[x] = status[x] /\ attempts'[x] = attempts[x]
    PROVE  TouchesOnly(w, job[w].utt) /\ \A calm \in BOOLEAN : TaskOfWaiter(w, calm)'
<1>1. job[w].utt \in Utterances
  BY RunningTask
<1>2. \A m \in Messages : m[1] # job[w].utt => queue'[m] = queue[m]
  <2>1. ASSUME NEW n \in 0 .. MaxRetries, Put(job[w].utt, n), NEW m \in Messages, m[1] # job[w].utt
        PROVE  queue'[m] = queue[m]
    <3>1. m # <<job[w].utt, n>>
      BY <2>1
    <3> QED
      BY <1>1, <2>1, <3>1, PutEffect
  <2> QED
    BY <2>1
<1>3. /\ job'[w] = NoTask
      /\ \A v \in Workers \ {w} : job'[v] = job[v]
  BY DEF TypeOK
<1> QED
  BY <1>2, <1>3, OwnUtterance DEF TouchesOnly, TaskOfWaiter, NoTask

\* A task that goes on at its worker.
LEMMA GoingOnTouches ==
    ASSUME TypeOK, OneTaskEach, NEW w \in Workers, job[w].pc # "idle",
           job'[w].utt = job[w].utt,
           \A v \in Workers \ {w} : job'[v] = job[v],
           UNCHANGED queue,
           \A x \in Utterances \ {job[w].utt} : status'[x] = status[x] /\ attempts'[x] = attempts[x]
    PROVE  TouchesOnly(w, job[w].utt)
  BY OwnUtterance DEF TouchesOnly

LEMMA ReturnedIsNotSent ==
    ASSUME TypeOK, OneTaskEach, NEW w \in Workers, job[w].pc # "idle", Return(w),
           NEW u \in Utterances, u = job[w].utt
    PROVE  ~Sent(u)'
<1>1. job'[w].pc = "idle" /\ \A v \in Workers \ {w} : job'[v] = job[v]
  BY DEF Return, TypeOK, NoTask
<1>2. \A n \in 0 .. MaxRetries : queue'[<<u, n>>] = 0 /\ ~(queue'[<<u, n>>] > 0)
  BY OwnUtterance DEF Return
<1>3. \A v \in Workers : job'[v].pc # "idle" => job'[v].utt # u
  BY <1>1, OwnUtterance
<1> QED
  BY <1>2, <1>3 DEF Sent

\* A message that was put is somebody's task.
LEMMA PutIsSent ==
    ASSUME TypeOK, NEW u \in Utterances, NEW n \in 0 .. MaxRetries, Put(u, n)
    PROVE  Sent(u)'
<1>1. <<u, n>> \in Messages
  BY DEF Messages
<1>2. queue'[<<u, n>>] > 0
  BY <1>1 DEF Put, TypeOK
<1> QED
  BY <1>2 DEF Sent

\* The steps of the workers. u is the utterance the worker is at work on.
LEMMA WorkerWaits ==
    ASSUME StateInv, OneTaskEach, NEW calm \in BOOLEAN,
           \A u \in Utterances : WaiterAgrees(u, calm),
           \A v \in Workers : TaskOfWaiter(v, calm),
           calm /\ Terminal(recState) => trState # "IN_PROGRESS", NEW w \in Workers, ProcessUtterance(w) \/ Crash(w)
    PROVE  \E u \in Utterances : TouchesOnly(w, u) /\ Lasts(w, u, calm)
<1> USE DEF recording, utterances, counters
<1>1. TypeOK
  BY DEF StateInv
<1>2. ASSUME NEW u \in Utterances, NEW n \in 0 .. MaxRetries, Deliver(w, u, n)
      PROVE  TouchesOnly(w, u) /\ Lasts(w, u, calm)
  <2> USE <1>2 DEF Deliver
  <2> DEFINE task == [pc |-> IF status[u] = "text" THEN "checking" ELSE "calling",
                      utt |-> u, retries |-> n, attempts |-> attempts[u] + 1,
                      heard |-> audio[u] = "kept", terminal |-> Terminal(recState),
                      running |-> trState = "IN_PROGRESS", goal |-> "COMPLETE"]
  <2>1. <<u, n>> \in Messages /\ queue[<<u, n>>] > 0 /\ <<u, n>>[1] = u
    BY DEF Messages
  <2>2. /\ Sent(u) /\ status[u] # "none" /\ u \notin bot.hand
        /\ \A v \in Workers : job[v].pc # "idle" => job[v].utt # u
        /\ \A k \in 0 .. MaxRetries : k # n => ~(queue[<<u, k>>] > 0)
    <3>1. \A k \in 0 .. MaxRetries : k # n => <<u, k>> \in Messages /\ <<u, k>> # <<u, n>> /\ <<u, k>>[1] = u
      BY DEF Messages
    <3>2. \A l \in Messages : queue[l] > 0 /\ l[1] = u => l = <<u, n>>
      BY <1>1, <2>1 DEF OneTaskEach, QueueInv
    <3>3. \A k \in 0 .. MaxRetries : k # n => ~(queue[<<u, k>>] > 0)
      BY <3>1, <3>2
    <3> QED
      BY <1>1, <2>1, <3>3 DEF OneTaskEach, QueueInv, WorkersInv, Sent
  <2>3. \A m \in Messages : m[1] # u => queue'[m] = queue[m]
    BY <1>1, <2>1 DEF TypeOK
  <2>4. \A k \in 0 .. MaxRetries : queue'[<<u, k>>] > 0 => k = n
    <3>1. \A k \in 0 .. MaxRetries : k # n => queue'[<<u, k>>] = queue[<<u, k>>]
      <4>1. \A k \in 0 .. MaxRetries : <<u, k>> \in Messages /\ (k # n => <<u, k>> # <<u, n>>)
        BY DEF Messages
      <4> QED
        BY <1>1, <4>1 DEF TypeOK
    <3> QED
      BY <2>2, <3>1
  <2>5. attempts[u] \in Nat /\ (status[u] = "pending" => n <= attempts[u])
    BY <1>1, <2>1, BoundsAssumption DEF TypeOK, WaiterAgrees
  <2>6. CASE status[u] = "failed"
    <3>1. ~calm
      BY <2>2, <2>6 DEF WaiterAgrees
    <3>2. TouchesOnly(w, u)
      BY <2>2, <2>3, <2>6 DEF TouchesOnly
    <3>3. WaiterAgrees(u, calm)'
      BY <1>1, <2>6, <3>1 DEF WaiterAgrees
    <3>4. TaskOfWaiter(w, calm)'
      BY <2>6 DEF TaskOfWaiter
    <3> QED
      BY <2>6, <3>2, <3>3, <3>4 DEF Lasts
  <2>7. CASE status[u] # "failed"
    <3>1. job' = [job EXCEPT ![w] = task]
      BY <2>7
    <3>2. /\ task.pc = IF status[u] = "text" THEN "checking" ELSE "calling"
          /\ task.utt = u /\ task.retries = n /\ task.attempts = attempts[u] + 1
          /\ task.terminal = Terminal(recState) /\ task.running = (trState = "IN_PROGRESS")
      OBVIOUS
    <3> HIDE DEF task
    <3>3. job'[w] = task /\ \A v \in Workers \ {w} : job'[v] = job[v]
      BY <1>1, <3>1 DEF TypeOK
    <3>4. TouchesOnly(w, u)
      BY <2>2, <2>3, <3>2, <3>3 DEF TouchesOnly
    <3>5. Sent(u)'
      BY <3>2, <3>3 DEF Sent
    <3>6. WaiterAgrees(u, calm)'
      <4>1. status[u] = "pending" => \A k \in 0 .. MaxRetries : queue'[<<u, k>>] > 0 => k <= attempts[u]
        BY <2>4, <2>5
      <4> QED
        BY <2>7, <3>5, <4>1 DEF WaiterAgrees
    <3>7. status[u] \in {"pending", "text"}
      BY <1>1, <2>2, <2>7 DEF TypeOK
    <3>8. calm => ~(task.terminal /\ task.running)
      BY <3>2
    <3>9. TaskOfWaiter(w, calm)'
      <4>1. task.pc = "calling" => task.retries <= attempts[u] /\ task.retries < task.attempts
        BY <2>5, <3>2, <3>7
      <4> QED
        BY <1>1, <3>2, <3>3, <3>7, <3>8, <4>1 DEF TaskOfWaiter
    <3> QED
      BY <3>4, <3>5, <3>6, <3>9 DEF Lasts
  <2> QED
    BY <2>6, <2>7
<1>3. ASSUME NEW u \in Utterances, u = job[w].utt, job[w].pc # "idle", ~\E k \in Utterances, n \in 0 .. MaxRetries : Deliver(w, k, n)
      PROVE  TouchesOnly(w, u) /\ Lasts(w, u, calm)
  <2> USE <1>3
  <2>1. /\ job[w] \in Tasks
        /\ job[w].retries \in 0 .. MaxRetries
        /\ job[w].attempts \in Nat
    BY <1>1, RunningTask
  <2>2. Sent(u) /\ \A n \in 0 .. MaxRetries : queue[<<u, n>>] = 0
    BY <1>1, OwnUtterance
  <2>3. TaskOfWaiter(w, calm) /\ WaiterAgrees(u, calm)
    OBVIOUS
  <2>4. job[w].pc = "calling" => status[u] = "pending"
    BY <1>1 DEF OneTaskEach, WorkersInv
  <2>5. ASSUME Return(w), status'[u] \in {"text", "failed"},
               \A x \in Utterances \ {u} : status'[x] = status[x] /\ attempts'[x] = attempts[x]
        PROVE  TouchesOnly(w, u) /\ Lasts(w, u, calm)
    <3>1. TouchesOnly(w, u) /\ TaskOfWaiter(w, calm)'
      BY <1>1, <2>5, LeavingTouches DEF Return
    <3>2. ~Sent(u)'
      BY <1>1, <2>5, ReturnedIsNotSent
    <3> QED
      BY <2>5, <3>1, <3>2 DEF Lasts, WaiterAgrees
  <2>6. ASSUME Raise(w), status[u] \in {"text", "failed"}, UNCHANGED <<status, attempts>>
        PROVE  TouchesOnly(w, u) /\ Lasts(w, u, calm)
    <3>1. \/ UNCHANGED queue
          \/ \E n \in 0 .. MaxRetries : Put(job[w].utt, n)
      BY <2>1, <2>6, BoundsAssumption DEF Raise
    <3>2. TouchesOnly(w, u) /\ TaskOfWaiter(w, calm)'
      BY <1>1, <2>6, <3>1, LeavingTouches DEF Raise
    <3>3. calm => status[u] # "failed"
      BY <2>2, <2>3 DEF WaiterAgrees
    <3> QED
      BY <2>6, <3>2, <3>3 DEF Lasts, WaiterAgrees
  <2>7. ASSUME NEW pc \in {"checking", "refreshing", "saving"}, Goto(w, pc), pc = "checking" \/ job[w].pc # "calling",
               status'[u] \in {"text", "failed"}, status'[u] = "failed" => status[u] = "failed",
               \A x \in Utterances \ {u} : status'[x] = status[x] /\ attempts'[x] = attempts[x]
        PROVE  TouchesOnly(w, u) /\ Lasts(w, u, calm)
    <3>1. /\ \A v \in Workers \ {w} : job'[v] = job[v]
          /\ job'[w].pc = pc
          /\ job'[w].utt = job[w].utt
          /\ job'[w].terminal = job[w].terminal
          /\ job'[w].running = job[w].running
      BY <1>1, <2>1, <2>7 DEF Goto, Tasks, TypeOK
    <3>2. TouchesOnly(w, u)
      BY <1>1, <2>7, <3>1, GoingOnTouches DEF Goto
    <3>3. calm => status'[u] # "failed"
      BY <2>2, <2>3, <2>7 DEF WaiterAgrees
    <3>4. WaiterAgrees(u, calm)'
      BY <1>1, <2>7, <3>3 DEF WaiterAgrees
    <3>5. TaskOfWaiter(w, calm)'
      BY <1>1, <2>3, <2>7, <3>1 DEF TaskOfWaiter
    <3> QED
      BY <2>7, <3>2, <3>4, <3>5 DEF Lasts
  <2>8. CASE Transcribed(w)
    <3>1. /\ status'[u] = "text"
          /\ \A x \in Utterances \ {u} : status'[x] = status[x] /\ attempts'[x] = attempts[x]
      BY <1>1, <2>8 DEF Transcribed, Write, TypeOK
    <3> QED
      BY <2>7, <2>8, <3>1 DEF Transcribed
  <2>9. CASE RetryableFailure(w)
    <3>1. job[w].retries < MaxRetries /\ job[w].retries + 1 <= job[w].attempts
      BY <2>1, <2>3, <2>9, BoundsAssumption, RetriesAssumption DEF RetryableFailure, TaskOfWaiter
    <3>2. /\ attempts'[u] = job[w].attempts
          /\ \A x \in Utterances \ {u} : status'[x] = status[x] /\ attempts'[x] = attempts[x]
      BY <1>1, <2>9 DEF RetryableFailure, Write, TypeOK
    <3> DEFINE next == job[w].retries + 1
    <3>3. next \in 0 .. MaxRetries /\ Put(u, next) /\ job' = [job EXCEPT ![w] = NoTask]
      BY <2>1, <2>9, <3>1, BoundsAssumption DEF RetryableFailure, Raise
    <3>4. next <= attempts'[u]
      BY <3>1, <3>2
    <3> HIDE DEF next
    <3>5. TouchesOnly(w, u) /\ TaskOfWaiter(w, calm)'
      BY <1>1, <3>2, <3>3, LeavingTouches
    <3>6. Sent(u)'
      BY <1>1, <3>3, PutIsSent
    <3>7. \A n \in 0 .. MaxRetries : queue'[<<u, n>>] > 0 => n = next
      <4>1. ASSUME NEW n \in 0 .. MaxRetries, n # next PROVE queue'[<<u, n>>] = 0
        <5>1. <<u, n>> \in Messages /\ <<u, n>> # <<u, next>>
          BY <4>1 DEF Messages
        <5> QED
          BY <1>1, <2>2, <3>3, <5>1 DEF Put, TypeOK
      <4> QED
        BY <4>1
    <3>8. status'[u] = "pending"
      BY <1>1, <2>9 DEF RetryableFailure, Write, TypeOK
    <3> QED
      BY <3>4, <3>5, <3>6, <3>7, <3>8 DEF Lasts, WaiterAgrees
  <2>10. CASE PermanentFailure(w)
    <3>1. /\ status'[u] = "failed"
          /\ \A x \in Utterances \ {u} : status'[x] = status[x] /\ attempts'[x] = attempts[x]
      BY <1>1, <2>10 DEF PermanentFailure, Write, TypeOK
    <3>2. CASE Return(w)
      BY <2>5, <3>1, <3>2
    <3>3. CASE job[w].terminal /\ job[w].running
      <4>1. ~calm
        BY <2>3, <3>3 DEF TaskOfWaiter
      <4> DEFINE next == [job[w] EXCEPT !.pc = "refreshing", !.goal = "FAILED"]
      <4>2. next.pc = "refreshing" /\ next.utt = u
        BY <2>1, TaskExcept DEF TerminalStates
      <4>3. job' = [job EXCEPT ![w] = next] /\ UNCHANGED queue
        BY <1>1, <2>10, <3>3 DEF PermanentFailure, TypeOK
      <4> HIDE DEF next
      <4>4. job'[w] = next /\ \A v \in Workers \ {w} : job'[v] = job[v]
        BY <1>1, <4>3 DEF TypeOK
      <4>5. TouchesOnly(w, u)
        BY <1>1, <3>1, <4>2, <4>3, <4>4, GoingOnTouches
      <4> QED
        BY <3>1, <4>1, <4>2, <4>4, <4>5 DEF Lasts, WaiterAgrees, TaskOfWaiter
    <3> QED
      BY <2>10, <3>2, <3>3 DEF PermanentFailure
  <2>11. job[w].pc # "calling" => status[u] \in {"text", "failed"}
    BY <2>3 DEF TaskOfWaiter
  <2>12. CASE Check(w)
    BY <2>5, <2>7, <2>11, <2>12 DEF Check
  <2>13. CASE Refresh(w)
    BY <2>5, <2>6, <2>7, <2>11, <2>13 DEF Refresh
  <2>14. CASE SaveRecording(w)
    BY <2>5, <2>11, <2>14 DEF SaveRecording
  <2>15. CASE SaveConflict(w)
    BY <2>6, <2>11, <2>15 DEF SaveConflict
  <2>16. CASE Crash(w)
    <3> DEFINE n == job[w].retries
    <3>1. n \in 0 .. MaxRetries /\ Put(u, n) /\ job' = [job EXCEPT ![w] = NoTask] /\ UNCHANGED <<status, attempts>>
      BY <2>1, <2>16 DEF Crash
    <3>2. status[u] = "pending" => n <= attempts[u]
      BY <2>3, <2>11 DEF TaskOfWaiter
    <3> HIDE DEF n
    <3>3. TouchesOnly(w, u) /\ TaskOfWaiter(w, calm)'
      BY <1>1, <3>1, LeavingTouches
    <3>4. Sent(u)'
      BY <1>1, <3>1, PutIsSent
    <3>5. \A k \in 0 .. MaxRetries : queue'[<<u, k>>] > 0 => k = n
      <4>1. ASSUME NEW k \in 0 .. MaxRetries, k # n PROVE queue'[<<u, k>>] = 0
        <5>1. <<u, k>> \in Messages /\ <<u, k>> # <<u, n>>
          BY <4>1 DEF Messages
        <5> QED
          BY <1>1, <2>2, <3>1, <5>1 DEF Put, TypeOK
      <4> QED
        BY <4>1
    <3>6. calm => status[u] # "failed"
      BY <2>2, <2>3 DEF WaiterAgrees
    <3> QED
      BY <3>1, <3>2, <3>3, <3>4, <3>5, <3>6 DEF Lasts, WaiterAgrees
  <2> QED
    BY <2>8, <2>9, <2>10, <2>12, <2>13, <2>14, <2>15, <2>16 DEF ProcessUtterance
<1>4. CASE \E u \in Utterances, n \in 0 .. MaxRetries : Deliver(w, u, n)
  BY <1>2, <1>4
<1>5. CASE ~\E u \in Utterances, n \in 0 .. MaxRetries : Deliver(w, u, n)
  <2>1. job[w].pc # "idle"
    BY <1>5 DEF ProcessUtterance, Transcribed, RetryableFailure, PermanentFailure, Check,
                Refresh, SaveRecording, SaveConflict, Crash
  <2>2. job[w].utt \in Utterances
    BY <1>1, <2>1, RunningTask
  <2> QED
    BY <1>3, <1>5, <2>1, <2>2
<1> QED
  BY <1>4, <1>5

LEMMA WorkerWaitStep ==
    ASSUME StateInv, WaitInv, NEW w \in Workers, ProcessUtterance(w) \/ Crash(w)
    PROVE  WaitInv'
<1>2. UNCHANGED <<ask, asks, bot>>
  BY WorkerKeepsRest
<1>1. PICK u \in Utterances : /\ TouchesOnly(w, u)
                              /\ (status'[u] = "pending" => Sent(u)')
                              /\ WaiterAgrees(u, Calm)'
                              /\ TaskOfWaiter(w, Calm)'
  <2>1. ASSUME NEW calm \in BOOLEAN, calm = Calm
        PROVE  \E u \in Utterances : TouchesOnly(w, u) /\ Lasts(w, u, calm)
    <3>1. /\ \A u \in Utterances : WaiterAgrees(u, calm)
          /\ \A v \in Workers : TaskOfWaiter(v, calm)
      BY <2>1 DEF WaitInv, WaiterOK, Served, Calm, WaiterAgrees, TaskOfWaiter
    <3> QED
      BY <2>1, <3>1, WorkerWaits DEF WaitInv, Calm
  <2>2. ASSUME NEW u \in Utterances, NEW calm \in BOOLEAN, calm = Calm, Lasts(w, u, calm)
        PROVE  /\ (status'[u] = "pending" => Sent(u)')
               /\ WaiterAgrees(u, Calm)'
               /\ TaskOfWaiter(w, Calm)'
    BY <1>2, <2>2 DEF Lasts, Calm, WaiterAgrees, TaskOfWaiter
  <2>3. Calm \in BOOLEAN
    BY DEF Calm
  <2> QED
    BY <2>1, <2>2, <2>3
<1>3. OneTaskEach'
  BY WorkerTaskStep DEF WaitInv
<1>4. \A x \in Utterances \ {u} : Sent(x)' <=> Sent(x)
  BY <1>1, TouchesKeepsSent
<1>5. ASSUME NEW r \in Requests PROVE AskAgrees(r)'
  <2>1. AskAgrees(r) /\ Sent(u)
    BY <1>1 DEF WaitInv, TouchesOnly
  <2>2. ~Idle(r) => ask[r].todo \subseteq Utterances \ {u}
    <3>1. ~Idle(r) => ask[r] \in Asks
      BY DEF Idle, NoAsk, StateInv, TypeOK
    <3>2. ~Idle(r) => ask[r].todo \subseteq Utterances
      BY <3>1 DEF Asks
    <3> QED
      BY <2>1, <3>2 DEF AskAgrees
  <2> QED
    BY <1>1, <1>2, <1>4, <2>1, <2>2 DEF AskAgrees, Idle, TouchesOnly
<1>6. ASSUME NEW x \in Utterances \ {u} PROVE WaiterOK(x)'
  <2>1. \A n \in 0 .. MaxRetries : <<x, n>> \in Messages /\ <<x, n>>[1] = x
    BY DEF Messages
  <2>2. \A n \in 0 .. MaxRetries : queue'[<<x, n>>] = queue[<<x, n>>]
    BY <1>1, <2>1 DEF TouchesOnly
  <2>3. WaiterOK(x) /\ (Sent(x)' <=> Sent(x)) /\ status'[x] = status[x] /\ attempts'[x] = attempts[x]
    BY <1>1, <1>4 DEF WaitInv, TouchesOnly
  <2> QED
    BY <1>2, <2>2, <2>3 DEF WaiterOK, Served, Calm, WaiterAgrees, Idle
<1>7. ASSUME NEW v \in Workers \ {w} PROVE TaskOfWaiter(v, Calm)'
  <2>1. TaskOfWaiter(v, Calm) /\ job'[v] = job[v]
    BY <1>1 DEF WaitInv, TouchesOnly
  <2>2. job[v].pc # "idle" => job[v].utt \in Utterances \ {u}
    BY <1>1, RunningTask DEF TouchesOnly, StateInv
  <2> QED
    BY <1>1, <1>2, <2>1, <2>2 DEF Calm, TaskOfWaiter, TouchesOnly
<1>8. asks' = 0 /\ Terminal(recState') => trState' # "IN_PROGRESS"
  <2>1. recState' = recState
    BY DEF ProcessUtterance, Deliver, Transcribed, RetryableFailure, PermanentFailure, Check,
           Refresh, SaveRecording, SaveConflict, Crash, recording
  <2>2. CASE SaveRecording(w)
    BY <2>2, RunningTask DEF SaveRecording, Save, StateInv, TerminalStates
  <2>3. CASE ~SaveRecording(w)
    <3>1. trState' = trState
      BY <2>3 DEF ProcessUtterance, Deliver, Transcribed, RetryableFailure, PermanentFailure, Check,
                  Refresh, SaveConflict, Crash, recording
    <3> QED
      BY <1>2, <2>1, <3>1 DEF WaitInv
  <2> QED
    BY <2>2, <2>3
<1>9. \A x \in Utterances : WaiterOK(x)'
  BY <1>1, <1>6 DEF WaiterOK, Served
<1>10. \A v \in Workers : TaskOfWaiter(v, Calm)'
  BY <1>1, <1>7
<1> QED
  BY <1>2, <1>3, <1>5, <1>8, <1>9, <1>10 DEF WaitInv, Idle, Terminal

\* A step that leaves the rows and the tasks alone.
LEMMA RestingWaits ==
    ASSUME WaitInv, UNCHANGED <<status, attempts, queue, job, asks>>,
           bot'.hand = bot.hand, bot'.pc = "idle" => bot.pc = "idle", UNCHANGED ask,
           asks = 0 /\ Terminal(recState') => trState' # "IN_PROGRESS"
    PROVE  WaitInv'
<1>1. \A u \in Utterances : Sent(u)' <=> Sent(u)
  BY DEF Sent
<1>2. OneTaskEach'
  BY DEF WaitInv, OneTaskEach, QueueInv, WorkersInv
<1>3. \A r \in Requests : Idle(r)' <=> Idle(r)
  BY DEF Idle
<1>4. ASSUME NEW r \in Requests PROVE AskAgrees(r)'
  <2>1. AskAgrees(r)
    BY DEF WaitInv
  <2> QED
    BY <1>3, <2>1 DEF AskAgrees, Sent
<1>5. ASSUME NEW u \in Utterances PROVE WaiterOK(u)'
  <2>1. WaiterOK(u)
    BY DEF WaitInv
  <2> QED
    BY <1>1, <1>3, <2>1 DEF WaiterOK, Served, Calm, WaiterAgrees
<1>6. \A w \in Workers : TaskOfWaiter(w, Calm)'
  BY DEF WaitInv, Calm, TaskOfWaiter
<1> QED
  BY <1>2, <1>3, <1>4, <1>5, <1>6 DEF WaitInv, Terminal

LEMMA BotWaitStep ==
    ASSUME StateInv, WaitInv, BotStep
    PROVE  WaitInv'
<1> USE DEF recording, utterances, counters
<1>1. OneTaskEach' /\ UNCHANGED <<ask, asks, job>>
  BY BotTaskStep, BotKeepsRest DEF WaitInv
<1>2. TypeOK /\ OneTaskEach
  BY DEF StateInv, WaitInv
<1>3. ASSUME NEW u \in Utterances, Cut(u) PROVE WaitInv'
  <2> USE <1>3 DEF Cut
  <2>1. /\ \A r \in Requests : Idle(r)
        /\ recState' = "IN_PROGRESS"
    BY DEF StateInv, MeetingInv, Idle
  <2>2. /\ status'[u] = "pending" /\ bot'.hand = {u}
        /\ \A x \in Utterances \ {u} : status'[x] = status[x]
    BY <1>2 DEF TypeOK
  <2>3. /\ \A n \in 0 .. MaxRetries : ~(queue[<<u, n>>] > 0)
        /\ \A w \in Workers : job[w].pc # "idle" => job[w].utt # u
    <3>1. \A n \in 0 .. MaxRetries : <<u, n>> \in Messages /\ <<u, n>>[1] = u
      BY DEF Messages
    <3> QED
      BY <1>2, <3>1 DEF OneTaskEach, QueueInv, WorkersInv
  <2>4. \A x \in Utterances : Sent(x)' <=> Sent(x)
    BY DEF Sent
  <2>5. bot.hand = {}
    BY DEF WaitInv
  <2>6. ASSUME NEW x \in Utterances PROVE WaiterOK(x)'
    <3>1. CASE x = u
      BY <2>2, <2>3, <3>1 DEF WaiterOK, Served, Calm, WaiterAgrees
    <3>2. CASE x # u
      <4>1. WaiterOK(x)
        BY DEF WaitInv
      <4> QED
        BY <1>1, <2>1, <2>2, <2>4, <2>5, <3>2, <4>1 DEF WaiterOK, Served, Calm, WaiterAgrees
    <3> QED
      BY <3>1, <3>2
  <2>7. \A r \in Requests : Idle(r)'
    BY <1>1, <2>1 DEF Idle
  <2>8. ASSUME NEW w \in Workers PROVE TaskOfWaiter(w, Calm)'
    <3>1. TaskOfWaiter(w, Calm) /\ (job[w].pc # "idle" => job[w].utt \in Utterances \ {u})
      BY <1>2, <2>3, RunningTask DEF WaitInv
    <3> QED
      BY <1>1, <2>2, <3>1 DEF Calm, TaskOfWaiter
  <2>9. ~Terminal(recState')
    BY <2>1 DEF Terminal, TerminalStates
  <2> QED
    BY <1>1, <2>2, <2>6, <2>7, <2>8, <2>9 DEF WaitInv, AskAgrees, Terminal
<1>4. ASSUME Mark PROVE WaitInv'
  <2> USE <1>4 DEF Mark
  <2>1. bot'.hand = bot.hand /\ bot'.pc # "idle"
    BY <1>2 DEF TypeOK, Bots
  <2>2. ~Terminal(recState')
    BY DEF StateInv, MeetingInv, Terminal, TerminalStates
  <2> QED
    BY <1>1, <2>1, <2>2, RestingWaits
<1>5. ASSUME Send PROVE WaitInv'
  <2> USE <1>5 DEF Send
  <2>1. PICK u \in bot.hand : Put(u, 0)
    OBVIOUS
  <2>2. /\ u \in Utterances /\ 0 \in 0 .. MaxRetries
        /\ bot.hand = {u} /\ bot'.hand = {} /\ status[u] = "pending"
    BY <1>2, BoundsAssumption DEF TypeOK, Bots, WaitInv, IdleBot, OneTaskEach
  <2>3. /\ \A r \in Requests : Idle(r)
        /\ ~Terminal(recState')
    BY DEF StateInv, MeetingInv, Idle, Terminal, TerminalStates
  <2>4. \A m \in Messages : m[1] # u => queue'[m] = queue[m]
    <3>1. ASSUME NEW m \in Messages, m[1] # u PROVE queue'[m] = queue[m]
      <4>1. m # <<u, 0>>
        BY <3>1
      <4> QED
        BY <1>2, <2>1, <2>2, <4>1, PutEffect
    <3> QED
      BY <3>1
  <2>5. Sent(u)'
    BY <1>2, <2>1, <2>2, PutIsSent
  <2>6. \A n \in 0 .. MaxRetries : queue'[<<u, n>>] > 0 => n = 0
    <3>1. ASSUME NEW n \in 0 .. MaxRetries, n # 0 PROVE ~(queue'[<<u, n>>] > 0)
      <4>1. <<u, n>> \in Messages /\ <<u, n>>[1] = u
        BY <2>2 DEF Messages
      <4>0. <<u, n>> # <<u, 0>>
        BY <3>1
      <4>2. queue'[<<u, n>>] = queue[<<u, n>>]
        BY <1>2, <2>1, <2>2, <4>0, <4>1, PutEffect
      <4>3. ~(queue[<<u, n>>] > 0)
        BY <1>2, <2>2, <4>1 DEF OneTaskEach, QueueInv
      <4> QED
        BY <4>2, <4>3
    <3> QED
      BY <3>1
  <2>7. ASSUME NEW x \in Utterances PROVE WaiterOK(x)'
    <3>1. CASE x = u
      <4>1. \A n \in 0 .. MaxRetries : queue'[<<u, n>>] > 0 => n <= attempts[u]
        BY <1>2, <2>2, <2>6 DEF TypeOK
      <4> QED
        BY <2>2, <2>5, <3>1, <4>1 DEF WaiterOK, Served, Calm, WaiterAgrees
    <3>2. CASE x # u
      <4>1. WaiterOK(x)
        BY DEF WaitInv
      <4>2. \A n \in 0 .. MaxRetries : queue'[<<x, n>>] = queue[<<x, n>>]
        <5>1. \A n \in 0 .. MaxRetries : <<x, n>> \in Messages /\ <<x, n>>[1] = x
          BY DEF Messages
        <5> QED
          BY <2>4, <3>2, <5>1
      <4>3. Sent(x)' <=> Sent(x)
        BY <1>1, <4>2, SentElsewhere
      <4> QED
        BY <1>1, <2>2, <2>3, <3>2, <4>1, <4>2, <4>3 DEF WaiterOK, Served, Calm, WaiterAgrees
    <3> QED
      BY <3>1, <3>2
  <2>8. \A r \in Requests : Idle(r)'
    BY <1>1, <2>3 DEF Idle
  <2>9. \A w \in Workers : TaskOfWaiter(w, Calm)'
    BY <1>1 DEF WaitInv, Calm, TaskOfWaiter
  <2> QED
    BY <1>1, <2>2, <2>3, <2>7, <2>8, <2>9 DEF WaitInv, AskAgrees, Terminal
<1>6. ASSUME BotDies PROVE WaitInv'
  <2> USE <1>6 DEF BotDies
  <2>1. bot'.hand = bot.hand /\ bot'.pc # "idle"
    BY <1>2 DEF TypeOK, Bots
  <2> QED
    BY <1>1, <2>1, RestingWaits DEF WaitInv
<1>7. ASSUME EndMeeting PROVE WaitInv'
  <2> USE <1>7 DEF EndMeeting
  <2>1. bot'.hand = bot.hand /\ bot'.pc # "idle"
    BY <1>2 DEF TypeOK, Bots
  <2>2. trState' # "IN_PROGRESS"
    BY DEF Outcome
  <2> QED
    BY <1>1, <2>1, <2>2, RestingWaits
<1> QED
  BY <1>3, <1>4, <1>5, <1>6, <1>7 DEF BotStep

\* The steps of a request: it is the only one, and nobody works on its rows.
LEMMA RetryWaitStep ==
    ASSUME StateInv, WaitInv, asks' <= 1, NEW r \in Requests, Retry(r)
    PROVE  WaitInv'
<1> USE DEF recording, utterances, counters
<1>1. TypeOK /\ OneTaskEach /\ AskAgrees(r) /\ asks \in Nat
  BY BoundsAssumption DEF StateInv, WaitInv, TypeOK
<1>2. ASSUME AskRetry(r) PROVE WaitInv'
  <2> USE <1>2 DEF AskRetry
  <2>1. asks = 0 /\ asks' = 1
    BY <1>1
  <2> DEFINE asked == [pc |-> IF trState = "FAILED" THEN "refreshing" ELSE "resetting",
                       todo |-> Retryable, reset |-> {}]
  <2>2. ask' = [ask EXCEPT ![r] = asked]
    OBVIOUS
  <2>3. asked.todo = Retryable /\ asked.reset = {} /\ asked.pc # "idle"
    OBVIOUS
  <2> HIDE DEF asked
  <2>4. ask'[r] = asked /\ \A q \in Requests \ {r} : ask'[q] = ask[q] /\ Idle(q)
    BY <1>1, <2>1, <2>2 DEF TypeOK, WaitInv
  <2>5. \A u \in Utterances : Sent(u)' <=> Sent(u)
    BY DEF Sent
  <2>6. AskAgrees(r)'
    <3>1. ASSUME NEW u \in Retryable PROVE ~Sent(u) /\ u \notin bot.hand /\ status[u] = "failed"
      BY <1>1, <2>1 DEF Retryable, WaitInv, WaiterOK, Served, Calm, WaiterAgrees, OneTaskEach
    <3> QED
      BY <2>3, <2>4, <2>5, <3>1 DEF AskAgrees, Retryable
  <2>7. \A q \in Requests \ {r} : Idle(q)'
    BY <2>4 DEF Idle
  <2>8. ASSUME NEW u \in Utterances PROVE WaiterOK(u)'
    <3>1. WaiterOK(u) /\ \A q \in Requests : Idle(q)
      BY <2>1 DEF WaitInv
    <3> QED
      BY <2>1, <2>5, <3>1 DEF WaiterOK, Served, Calm, WaiterAgrees
  <2>9. \A w \in Workers : TaskOfWaiter(w, Calm)'
    BY <2>1 DEF WaitInv, Calm, TaskOfWaiter
  <2>10. OneTaskEach'
    BY <1>1 DEF OneTaskEach, QueueInv, WorkersInv
  <2>11. \A q \in Requests : AskAgrees(q)'
    BY <2>6, <2>7 DEF AskAgrees
  <2>12. (\A u, v \in bot.hand : u = v) /\ (bot.pc = "idle" => bot.hand = {})
    BY DEF WaitInv
  <2> QED
    BY <2>1, <2>7, <2>8, <2>9, <2>10, <2>11, <2>12 DEF WaitInv
<1>3. ASSUME ~AskRetry(r) PROVE WaitInv'
  <2>1. ~Idle(r) /\ asks' = asks /\ asks = 1 /\ bot' = bot /\ job' = job
    <3>1. ~Idle(r) /\ asks' = asks /\ bot' = bot /\ job' = job
      BY <1>3 DEF Retry, RefreshForRetry, SaveForRetry, RetryConflict, ResetRow, SendAgain,
                  RequestDies, Idle
    <3>2. asks # 0
      BY <3>1 DEF WaitInv
    <3> QED
      BY <1>1, <3>1, <3>2
  <2>2. \A q \in Requests \ {r} : Idle(q)
    BY <2>1 DEF WaitInv
  <2>3. \A q \in Requests \ {r} : ask'[q] = ask[q]
    BY <1>1, <1>3 DEF Retry, RefreshForRetry, SaveForRetry, RetryConflict, ResetRow, SendAgain,
                      RequestDies, TypeOK
  <2>4. \A q \in Requests \ {r} : Idle(q)'
    BY <2>2, <2>3 DEF Idle
  <2>5. ask[r] \in Asks
    BY <1>1, <2>1 DEF TypeOK, Idle, NoAsk
  <2>6. ASSUME OneTaskEach', AskAgrees(r)',
               \A u \in Utterances : WaiterOK(u)', \A w \in Workers : TaskOfWaiter(w, Calm)'
        PROVE  WaitInv'
    <3>1. \A q \in Requests : AskAgrees(q)'
      BY <2>4, <2>6 DEF AskAgrees
    <3>2. (\A u, v \in bot.hand : u = v) /\ (bot.pc = "idle" => bot.hand = {})
      BY DEF WaitInv
    <3> QED
      BY <2>1, <2>4, <2>6, <3>1, <3>2 DEF WaitInv
  <2>7. ASSUME UNCHANGED <<status, attempts, queue>>,
               \/ ask'[r] = NoAsk /\ ask[r].reset = {}
               \/ ask'[r].reset = ask[r].reset /\ ask'[r].todo = ask[r].todo /\ ask'[r].pc # "idle"
                  /\ (ask'[r].pc \in {"refreshing", "saving"} => ask[r].reset = {})
        PROVE  WaitInv'
    <3>1. \A u \in Utterances : Sent(u)' <=> Sent(u)
      BY <2>1, <2>7 DEF Sent
    <3>2. OneTaskEach'
      BY <1>1, <2>1, <2>7 DEF OneTaskEach, QueueInv, WorkersInv
    <3>3. \A w \in Workers : TaskOfWaiter(w, Calm)'
      BY <2>1, <2>7 DEF WaitInv, Calm, TaskOfWaiter
    <3>4. AskAgrees(r)'
      <4>1. ask[r].todo \subseteq Utterances
        BY <2>5 DEF Asks
      <4> QED
        BY <1>1, <2>1, <2>7, <3>1, <4>1 DEF AskAgrees, Idle, NoAsk
    <3>5. ASSUME NEW u \in Utterances PROVE WaiterOK(u)'
      <4>1. /\ status'[u] = status[u] /\ attempts'[u] = attempts[u]
            /\ Sent(u)' <=> Sent(u)
            /\ \A n \in 0 .. MaxRetries : queue'[<<u, n>>] = queue[<<u, n>>]
        BY <2>7, <3>1
      <4>2. (\E q \in Requests : ~Idle(q) /\ u \in ask[q].reset) => u \in ask[r].reset
        BY <2>2
      <4>3. u \in ask[r].reset => ~Idle(r)' /\ u \in ask'[r].reset
        BY <2>7 DEF Idle
      <4>4. WaiterOK(u)
        BY DEF WaitInv
      <4> QED
        BY <2>1, <4>1, <4>2, <4>3, <4>4 DEF WaiterOK, Served, Calm, WaiterAgrees
    <3> QED
      BY <2>6, <3>2, <3>3, <3>4, <3>5
  <2>8. CASE RefreshForRetry(r)
    <3>1. ask'[r] = IF trState = "FAILED" THEN [ask[r] EXCEPT !.pc = "saving"] ELSE NoAsk
      BY <1>1, <2>8 DEF RefreshForRetry, TypeOK
    <3>2. /\ [ask[r] EXCEPT !.pc = "saving"].reset = ask[r].reset
          /\ [ask[r] EXCEPT !.pc = "saving"].todo = ask[r].todo
          /\ [ask[r] EXCEPT !.pc = "saving"].pc = "saving"
      BY <2>5 DEF Asks
    <3>3. ask[r].reset = {}
      BY <1>1, <2>1, <2>8 DEF AskAgrees, RefreshForRetry
    <3>4. UNCHANGED <<status, attempts, queue>>
      BY <2>8 DEF RefreshForRetry
    <3> QED
      BY <2>7, <3>1, <3>2, <3>3, <3>4
  <2>9. CASE SaveForRetry(r)
    <3>1. ask'[r] = [ask[r] EXCEPT !.pc = "resetting"]
      BY <1>1, <2>9 DEF SaveForRetry, TypeOK
    <3>2. /\ [ask[r] EXCEPT !.pc = "resetting"].reset = ask[r].reset
          /\ [ask[r] EXCEPT !.pc = "resetting"].todo = ask[r].todo
          /\ [ask[r] EXCEPT !.pc = "resetting"].pc = "resetting"
      BY <2>5 DEF Asks
    <3>3. UNCHANGED <<status, attempts, queue>>
      BY <2>9 DEF SaveForRetry
    <3> QED
      BY <2>7, <3>1, <3>2, <3>3
  <2>10. CASE RetryConflict(r)
    <3>1. ask'[r] = NoAsk /\ ask[r].reset = {} /\ UNCHANGED <<status, attempts, queue>>
      BY <1>1, <2>1, <2>10 DEF RetryConflict, TypeOK, AskAgrees
    <3> QED
      BY <2>7, <3>1
  <2>11. CASE RequestDies(r)
    <3>1. ask'[r] = [ask[r] EXCEPT !.pc = "dead"]
      BY <1>1, <2>11 DEF RequestDies, TypeOK
    <3>2. /\ [ask[r] EXCEPT !.pc = "dead"].reset = ask[r].reset
          /\ [ask[r] EXCEPT !.pc = "dead"].todo = ask[r].todo
          /\ [ask[r] EXCEPT !.pc = "dead"].pc = "dead"
      BY <2>5 DEF Asks
    <3>3. UNCHANGED <<status, attempts, queue>>
      BY <2>11 DEF RequestDies
    <3> QED
      BY <2>7, <3>1, <3>2, <3>3
  <2>12. ASSUME NEW u \in Utterances, ResetRow(r, u) PROVE WaitInv'
    <3> USE <2>12 DEF ResetRow
    <3>1. ask'[r] = [ask[r] EXCEPT !.reset = {u}]
      BY <1>1 DEF TypeOK
    <3>2. ask'[r].reset = {u} /\ ask'[r].todo = ask[r].todo /\ ask'[r].pc = "resetting"
      BY <2>5, <3>1 DEF Asks
    <3>3. ~Sent(u) /\ u \notin bot.hand /\ status[u] = "failed" /\ ask[r].todo \subseteq Utterances
      BY <1>1, <2>1, <2>5 DEF AskAgrees, Asks
    <3>4. /\ status'[u] = "pending" /\ \A x \in Utterances \ {u} : status'[x] = status[x]
          /\ \A x \in Utterances \ {u} : attempts'[x] = attempts[x]
      BY <1>1 DEF TypeOK
    <3>5. \A x \in Utterances : Sent(x)' <=> Sent(x)
      BY <2>1 DEF Sent
    <3>6. \A w \in Workers : job[w].pc # "idle" => job[w].utt \in Utterances \ {u}
      BY <1>1, <3>3, RunningTask DEF Sent
    <3>7. OneTaskEach'
      <4>1. QueueInv'
        <5>1. \A m \in Messages : m[1] \in Utterances
          BY DEF Messages
        <5> QED
          BY <1>1, <2>1, <3>3, <3>4, <5>1 DEF OneTaskEach, QueueInv
      <4>2. WorkersInv'
        BY <1>1, <2>1, <3>4, <3>6 DEF OneTaskEach, WorkersInv
      <4>3. \A x \in bot.hand : x \in Utterances \ {u}
        BY <1>1, <3>3 DEF TypeOK, Bots
      <4> QED
        BY <1>1, <2>1, <3>4, <4>1, <4>2, <4>3 DEF OneTaskEach
    <3>8. AskAgrees(r)'
      BY <1>1, <2>1, <3>2, <3>3, <3>4, <3>5 DEF AskAgrees, Idle
    <3>9. ASSUME NEW x \in Utterances PROVE WaiterOK(x)'
      <4>1. CASE x = u
        <5>1. ~Idle(r)' /\ u \in ask'[r].reset
          BY <3>2 DEF Idle
        <5>2. \A n \in 0 .. MaxRetries : ~(queue'[<<u, n>>] > 0)
          BY <3>3 DEF Sent
        <5> QED
          BY <2>1, <3>4, <4>1, <5>1, <5>2 DEF WaiterOK, Served, Calm, WaiterAgrees
      <4>2. CASE x # u
        <5>1. WaiterOK(x) /\ ~(\E q \in Requests : ~Idle(q) /\ x \in ask[q].reset)
          BY <2>2 DEF WaitInv
        <5> QED
          BY <2>1, <3>4, <3>5, <4>2, <5>1 DEF WaiterOK, Served, Calm, WaiterAgrees
      <4> QED
        BY <4>1, <4>2
    <3>10. \A w \in Workers : TaskOfWaiter(w, Calm)'
      BY <2>1, <3>4, <3>6 DEF WaitInv, Calm, TaskOfWaiter
    <3> QED
      BY <2>6, <3>7, <3>8, <3>9, <3>10
  <2>13. ASSUME NEW u \in Utterances, SendAgain(r, u) PROVE WaitInv'
    <3> USE <2>13 DEF SendAgain
    <3> DEFINE left == ask[r].todo \ {u}
               next == IF left = {} THEN NoAsk ELSE [ask[r] EXCEPT !.todo = left, !.reset = {}]
    <3>1. ask'[r] = next
      BY <1>1 DEF TypeOK
    <3>2. next.pc # "idle" => next.reset = {} /\ next.todo = left
      BY <2>5 DEF Asks, NoAsk
    <3> HIDE DEF next
    <3>3. /\ ~Sent(u) /\ u \notin bot.hand /\ status[u] = "pending" /\ ask[r].todo \subseteq Utterances
          /\ \A x \in left : ~Sent(x) /\ x \notin bot.hand /\ status[x] = "failed"
      BY <1>1, <2>1, <2>5 DEF AskAgrees, Asks
    <3>4. 0 \in 0 .. MaxRetries /\ <<u, 0>> \in Messages /\ <<u, 0>>[1] = u
      BY BoundsAssumption DEF Messages
    <3>5. \A m \in Messages : m # <<u, 0>> => queue'[m] = queue[m]
      BY <1>1, <3>4, PutEffect
    <3>6. /\ \A m \in Messages : m[1] = u => ~(queue[m] > 0)
          /\ \A w \in Workers : job[w].pc # "idle" => job[w].utt # u
      BY <3>3 DEF Sent, Messages
    <3>7. /\ \A m \in Messages : m[1] # u => queue'[m] = queue[m]
          /\ \A m \in Messages : m[1] = u /\ queue'[m] > 0 => m = <<u, 0>>
          /\ queue'[<<u, 0>>] = 1
      <4>1. queue[<<u, 0>>] = 0
        BY <1>1, <3>4, <3>6 DEF TypeOK
      <4>2. queue'[<<u, 0>>] = 1
        BY <1>1, <3>4, <4>1 DEF Put, TypeOK
      <4> QED
        BY <3>4, <3>5, <3>6, <4>2
    <3>8. OneTaskEach'
      <4>1. QueueInv'
        <5> SUFFICES ASSUME NEW m \in Messages
                     PROVE  /\ queue'[m] <= 1
                            /\ queue'[m] > 0 =>
                                 /\ status[m[1]] # "none"
                                 /\ m[1] \notin bot.hand
                                 /\ \A l \in Messages : queue'[l] > 0 /\ l[1] = m[1] => l = m
          BY <2>1 DEF QueueInv
        <5>1. queue[m] \in Nat /\ queue'[m] \in Nat
          BY <1>1, <3>4, PutType DEF TypeOK
        <5>2. CASE m[1] = u
          BY <3>3, <3>7, <5>1, <5>2
        <5>3. CASE m[1] # u
          BY <1>1, <3>7, <5>3 DEF OneTaskEach, QueueInv
        <5> QED
          BY <5>2, <5>3
      <4>2. WorkersInv'
        BY <1>1, <2>1, <3>6, <3>7 DEF OneTaskEach, WorkersInv
      <4> QED
        BY <1>1, <2>1, <4>1, <4>2 DEF OneTaskEach
    <3>9. \A x \in Utterances \ {u} : /\ Sent(x)' <=> Sent(x)
                                      /\ \A n \in 0 .. MaxRetries : queue'[<<x, n>>] = queue[<<x, n>>]
      <4>1. ASSUME NEW x \in Utterances \ {u}
            PROVE  \A n \in 0 .. MaxRetries : queue'[<<x, n>>] = queue[<<x, n>>]
        <5>1. \A n \in 0 .. MaxRetries : <<x, n>> \in Messages /\ <<x, n>>[1] # u
          BY DEF Messages
        <5> QED
          BY <3>7, <5>1
      <4> QED
        BY <2>1, <4>1, SentElsewhere
    <3>10. AskAgrees(r)'
      BY <2>1, <3>1, <3>2, <3>3, <3>9 DEF AskAgrees, Idle
    <3>11. ASSUME NEW x \in Utterances PROVE WaiterOK(x)'
      <4>1. CASE x = u
        <5>1. Sent(u)'
          BY <1>1, <3>4, PutIsSent
        <5>2. \A n \in 0 .. MaxRetries : queue'[<<u, n>>] > 0 => n = 0
          <6>1. \A n \in 0 .. MaxRetries : <<u, n>> \in Messages /\ <<u, n>>[1] = u
            BY DEF Messages
          <6>2. \A n \in 0 .. MaxRetries : <<u, n>> = <<u, 0>> => n = 0
            OBVIOUS
          <6> QED
            BY <3>7, <6>1, <6>2
        <5>3. \A n \in 0 .. MaxRetries : queue'[<<u, n>>] > 0 => n <= attempts[u]
          BY <1>1, <5>2 DEF TypeOK
        <5> QED
          BY <2>1, <3>3, <4>1, <5>1, <5>3 DEF WaiterOK, Served, Calm, WaiterAgrees
      <4>2. CASE x # u
        <5>1. WaiterOK(x) /\ ~(\E q \in Requests : ~Idle(q) /\ x \in ask[q].reset)
          BY <2>2, <4>2 DEF WaitInv
        <5> QED
          BY <2>1, <3>9, <4>2, <5>1 DEF WaiterOK, Served, Calm, WaiterAgrees
      <4> QED
        BY <4>1, <4>2
    <3>12. \A w \in Workers : TaskOfWaiter(w, Calm)'
      BY <2>1 DEF WaitInv, Calm, TaskOfWaiter
    <3> QED
      BY <2>6, <3>8, <3>10, <3>11, <3>12
  <2> QED
    BY <1>3, <2>8, <2>9, <2>10, <2>11, <2>12, <2>13 DEF Retry
<1> QED
  BY <1>2, <1>3

LEMMA WaitInvariant == Spec => []WaitIInv
<1>1. Init => WaitIInv
  <2> SUFFICES ASSUME Init PROVE WaitInv
    BY InitIInv DEF WaitIInv, IInv
  <2> USE DEF Init
  <2>1. TaskInv
    BY InitIInv DEF IInv
  <2>2. (\A r \in Requests : Idle(r)) /\ (\A u \in Utterances : ~Sent(u))
    <3>1. \A u \in Utterances, n \in 0 .. MaxRetries : <<u, n>> \in Messages /\ ~(queue[<<u, n>>] > 0)
      BY DEF Messages
    <3> QED
      BY <3>1 DEF Idle, NoAsk, NoTask, Sent
  <2>3. \A u \in Utterances : WaiterOK(u)
    BY DEF WaiterOK, Served, Calm, WaiterAgrees
  <2>4. \A w \in Workers : TaskOfWaiter(w, Calm)
    BY DEF Calm, TaskOfWaiter, NoTask
  <2> QED
    BY <2>1, <2>2, <2>3, <2>4 DEF WaitInv, TaskInv, AskAgrees, IdleBot, Terminal, TerminalStates
<1>2. WaitIInv /\ [Next]_vars => WaitIInv'
  <2> SUFFICES ASSUME StateInv, asks <= 1 => WaitInv, [Next]_vars, asks' <= 1 PROVE WaitInv'
    BY StateStep DEF WaitIInv
  <2>1. asks <= 1
    BY AsksGrow DEF StateInv
  <2>2. ASSUME NEW w \in Workers, ProcessUtterance(w) \/ Crash(w) PROVE WaitInv'
    BY <2>1, <2>2, WorkerWaitStep
  <2>3. ASSUME BotStep PROVE WaitInv'
    BY <2>1, <2>3, BotWaitStep
  <2>4. ASSUME NEW r \in Requests, Retry(r) PROVE WaitInv'
    BY <2>1, <2>4, RetryWaitStep
  <2>5. ASSUME \/ UNCHANGED vars
               \/ \E u \in Utterances : CleanUpAudio(u)
        PROVE  WaitInv'
    <3>1. UNCHANGED <<recState, trState, status, attempts, queue, job, asks, bot, ask>>
      BY <2>5 DEF CleanUpAudio, recording, utterances, counters, vars
    <3> QED
      BY <2>1, <3>1, RestingWaits DEF WaitInv
  <2> QED
    BY <2>2, <2>3, <2>4, <2>5 DEF Next
<1> QED
  BY <1>1, <1>2, PTL DEF Spec

\* As long as retries do not overlap, an utterance that waits for its text is in a
\* task, in the bot's hand or in the request's (process_utterance's limits of
\* attempts and of Celery's retries, 5 and 6; create_utterance_from_audio_chunk;
\* retry_failed_transcription), for any number of workers, utterances and deaths.
THEOREM WaitersAreServed == Spec => []NobodyWaitsInVain
<1>1. WaitIInv => NobodyWaitsInVain
  BY DEF WaitIInv, WaitInv, WaiterOK, Served, Idle, NobodyWaitsInVain
<1> QED
  BY <1>1, WaitInvariant, PTL

-----------------------------------------------------------------------------
(* The async transcription *)

\* What is left of the utterances to create, and of those created to transcribe.
Made == \E p \in Passes : \A c \in Chunks : utterance[p, c] # "none"
AllDone == ~InProgress /\ ~AnyFailed
Begun == asyncState \in {"IN_PROGRESS"} \cup AsyncEnded
Busy(w) == check[w].pc # "idle"
Writing(w) == check[w].pc \in {"refreshing", "saving"}

\* Until the first task has got to the row there is one task, in one place, and so
\* one pass of utterances; a redelivery repeats the pass of a worker that died.
OneTask ==
    ~Begun => /\ asyncQueue <= 1
              /\ \A v, w \in AsyncWorkers : Busy(v) /\ Busy(w) => v = w
              /\ \A w \in AsyncWorkers : Busy(w) => asyncQueue = 0
Unasked == asyncState = "none" => asyncQueue = 0 /\ \A w \in AsyncWorkers : ~Busy(w)

\* What a task knows of the rows, and still is so unless the transcript was deleted.
CreatedSoFar(w) ==
    asyncState = "NOT_STARTED" /\ check[w].next >= 1 /\
    (~erased => \A c \in Chunks : c < check[w].next => utterance[check[w].pass, c] # "none")
WriterAgrees(w) ==
    /\ check[w].goal = "IN_PROGRESS" /\ ~erased => Made
    /\ check[w].goal = "COMPLETE" => Begun /\ (~erased => AllDone)
TaskAgrees(w) ==
    /\ check[w].pc = "creating" => CreatedSoFar(w)
    /\ check[w].pc \in {"checking", "looking", "deciding"} => Begun
    /\ check[w].pc = "deciding" /\ ~check[w].busy /\ ~erased => ~InProgress
    /\ Writing(w) => WriterAgrees(w) /\ check[w].goal \in {"IN_PROGRESS", "COMPLETE", "FAILED"}
    /\ check[w].pc = "saving" /\ w \in asyncFresh => asyncState \in MayBecome(check[w].goal)

RowAgrees ==
    /\ asyncState \in {"IN_PROGRESS", "COMPLETE"} /\ ~erased => Made
    /\ asyncState = "COMPLETE" /\ ~erased => AllDone

AsyncInv == AsyncTypeOK /\ OneTask /\ Unasked /\ RowAgrees /\ \A w \in AsyncWorkers : TaskAgrees(w)

-----------------------------------------------------------------------------
LEMMA NoCheckTyped ==
    /\ NoCheck \in Checks /\ NoCheck.pc = "idle" /\ NoCheck.goal = "FAILED" /\ ~NoCheck.handler
    /\ \A pc \in {"acking", "checking"} :
          /\ [NoCheck EXCEPT !.pc = pc] \in Checks
          /\ [NoCheck EXCEPT !.pc = pc].pc = pc
    /\ \A goal \in AsyncStates :
          /\ [NoCheck EXCEPT !.pc = "refreshing", !.goal = goal] \in Checks
          /\ [NoCheck EXCEPT !.pc = "refreshing", !.goal = goal].pc = "refreshing"
          /\ [NoCheck EXCEPT !.pc = "refreshing", !.goal = goal].goal = goal
    /\ [NoCheck EXCEPT !.pc = "refreshing", !.handler = TRUE] \in Checks
    /\ [NoCheck EXCEPT !.pc = "refreshing", !.handler = TRUE].pc = "refreshing"
    /\ [NoCheck EXCEPT !.pc = "refreshing", !.handler = TRUE].goal = "FAILED"
<1>1. (CHOOSE p \in Passes : TRUE) \in Passes
  BY AsyncBounds
<1>2. 0 \in 0 .. ChunkCount + 1
  BY AsyncBounds
<1>3. NoCheck \in Checks
  BY <1>1, <1>2 DEF NoCheck, Checks, AsyncStates, AsyncEnded
<1>4. NoCheck.pc = "idle" /\ NoCheck.goal = "FAILED" /\ ~NoCheck.handler
  BY DEF NoCheck
<1>q. QED
  BY <1>3, <1>4 DEF Checks, AsyncStates, AsyncEnded

LEMMA AsyncInitInv == AsyncInit => AsyncInv
<1> SUFFICES ASSUME AsyncInit PROVE AsyncInv
  OBVIOUS
<1>1. \A w \in AsyncWorkers : check[w] = NoCheck
  BY DEF AsyncInit
<1>2. AsyncTypeOK
  <2>1. check \in [AsyncWorkers -> Checks]
    BY NoCheckTyped DEF AsyncInit
  <2>2. utterance \in [Passes \X Chunks -> {"none", "pending", "text", "failed"}]
    BY DEF AsyncInit
  <2>3. overtime \in BOOLEAN /\ erased \in BOOLEAN
    BY DEF AsyncInit
  <2>4. asyncFaults \in 0 .. MaxAsyncFaults /\ asyncQueue \in Nat
    BY AsyncBounds DEF AsyncInit
  <2>5. asyncFresh \subseteq AsyncWorkers /\ asyncState \in AsyncStates \cup {"none"}
    BY DEF AsyncInit
  <2>q. QED
    BY <2>1, <2>2, <2>3, <2>4, <2>5 DEF AsyncTypeOK
<1>3. \A w \in AsyncWorkers : check[w].pc = "idle"
  BY <1>1, NoCheckTyped
<1>4. OneTask /\ Unasked /\ RowAgrees
  BY <1>3 DEF AsyncInit, OneTask, Unasked, RowAgrees, Busy
<1>5. \A w \in AsyncWorkers : TaskAgrees(w)
  BY <1>3 DEF TaskAgrees, Writing
<1>q. QED
  BY <1>2, <1>4, <1>5 DEF AsyncInv

\* The rest of what a task's step may rely on.
LEMMA TaskTyped ==
    ASSUME AsyncTypeOK, NEW w \in AsyncWorkers
    PROVE  /\ check[w] \in Checks /\ check[w].next \in 0 .. ChunkCount + 1 /\ check[w].pass \in Passes
           /\ check[w].goal \in AsyncStates /\ check[w].busy \in BOOLEAN /\ check[w].handler \in BOOLEAN
BY DEF AsyncTypeOK, Checks

\* A worker replaces its own task only.
LEMMA OwnTask ==
    ASSUME AsyncTypeOK, NEW w \in AsyncWorkers, NEW t \in Checks, check' = [check EXCEPT ![w] = t]
    PROVE  /\ check' \in [AsyncWorkers -> Checks] /\ check'[w] = t
           /\ \A v \in AsyncWorkers : v # w => check'[v] = check[v]
BY DEF AsyncTypeOK

\* The tasks of the others agree with the rows as long as the step moves the rows
\* on, and nothing becomes pending after the beginning.
RowsMoveOn ==
    /\ Begun => Begun'
    /\ erased => erased'
    /\ Made => Made' \/ erased'
    /\ Begun /\ ~erased' => (~InProgress => ~InProgress') /\ (AllDone => AllDone')

LEMMA OthersAgree ==
    ASSUME AsyncInv, NEW v \in AsyncWorkers, check'[v] = check[v], RowsMoveOn,
           check[v].pc = "creating" =>
             /\ asyncState' = asyncState
             /\ erased' \/ \A u \in Passes \X Chunks : utterance[u] # "none" => utterance'[u] # "none",
           v \in asyncFresh' => v \in asyncFresh /\ asyncState' = asyncState
    PROVE  TaskAgrees(v)'
<1>1. TaskAgrees(v)
  BY DEF AsyncInv
<1>2. check[v].pc = "creating" => CreatedSoFar(v)'
  <2>1. check[v].pass \in Passes
    BY TaskTyped DEF AsyncInv
  <2>2. \A c \in Chunks : <<check[v].pass, c>> \in Passes \X Chunks
    BY <2>1
  <2>q. QED
    BY <1>1, <2>2 DEF TaskAgrees, CreatedSoFar, RowsMoveOn
<1>3. Writing(v) => WriterAgrees(v)'
  BY <1>1 DEF TaskAgrees, Writing, WriterAgrees, RowsMoveOn
<1>4. check[v].pc = "saving" /\ v \in asyncFresh' => asyncState' \in MayBecome(check[v].goal)
  BY <1>1 DEF TaskAgrees
<1>5. check[v].pc \in {"checking", "looking", "deciding"} => Begun'
  BY <1>1 DEF TaskAgrees, RowsMoveOn
<1>6. check[v].pc = "deciding" /\ ~check[v].busy /\ ~erased' => ~InProgress'
  BY <1>1, <1>5 DEF TaskAgrees, RowsMoveOn
<1>q. QED
  BY <1>1, <1>2, <1>3, <1>4, <1>5, <1>6 DEF TaskAgrees, Writing, MayBecome

\* A message is taken, a task goes on, or it ends and may leave another message.
LEMMA OneTaskStays ==
    ASSUME AsyncTypeOK, OneTask, Unasked, NEW w \in AsyncWorkers, asyncState' = asyncState \/ Begun',
           \A v \in AsyncWorkers : v # w => check'[v] = check[v],
           \/ ~Busy(w) /\ asyncQueue > 0 /\ asyncQueue' = asyncQueue - 1
           \/ Busy(w) /\ asyncQueue' = asyncQueue
           \/ Busy(w) /\ ~Busy(w)' /\ asyncQueue' = asyncQueue + 1
           \/ Busy(w) /\ Begun'
    PROVE  OneTask' /\ Unasked'
<1>1. asyncQueue \in Nat /\ asyncState # "none"
  BY DEF AsyncTypeOK, Unasked
<1>2. asyncState' # "none"
  BY <1>1 DEF Begun, AsyncEnded
<1>3. ASSUME ~Begun' PROVE OneTask'
  <2>1. ~Begun
    BY <1>3 DEF Begun
  <2>q. QED
    BY <1>1, <1>3, <2>1 DEF OneTask, Busy
<1>q. QED
  BY <1>2, <1>3 DEF OneTask, Unasked

\* The rows stay as they are.
RowsStay == UNCHANGED <<asyncState, utterance, erased>>

LEMMA RowsStayMoveOn == ASSUME RowsStay PROVE RowsMoveOn /\ (RowAgrees => RowAgrees')
BY DEF RowsStay, RowsMoveOn, Made, AllDone, InProgress, AnyFailed, Begun, RowAgrees

\* A step of one task that leaves the rows as they are.
LEMMA TaskStep ==
    ASSUME AsyncInv, NEW w \in AsyncWorkers, NEW t \in Checks, check' = [check EXCEPT ![w] = t], RowsStay,
           asyncFresh' \subseteq asyncFresh \cup {w}, overtime' = overtime, asyncFaults' \in 0 .. MaxAsyncFaults,
           \/ ~Busy(w) /\ asyncQueue > 0 /\ asyncQueue' = asyncQueue - 1
           \/ Busy(w) /\ asyncQueue' = asyncQueue
           \/ Busy(w) /\ t.pc = "idle" /\ asyncQueue' = asyncQueue + 1
           \/ Busy(w) /\ Begun /\ asyncQueue' = asyncQueue + 1,
           TaskAgrees(w)'
    PROVE  AsyncInv'
<1>1. /\ check' \in [AsyncWorkers -> Checks] /\ check'[w] = t
      /\ \A v \in AsyncWorkers : v # w => check'[v] = check[v]
  BY OwnTask DEF AsyncInv
<1>2. AsyncTypeOK'
  BY <1>1 DEF AsyncInv, AsyncTypeOK, RowsStay
<1>3. asyncState' = asyncState /\ (Begun => Begun')
  BY DEF RowsStay, Begun
<1>4. OneTask' /\ Unasked'
  BY <1>1, <1>3, OneTaskStays DEF AsyncInv, Busy
<1>5. RowAgrees' /\ RowsMoveOn
  BY RowsStayMoveOn DEF AsyncInv
<1>6. ASSUME NEW v \in AsyncWorkers, v # w PROVE TaskAgrees(v)'
  BY <1>1, <1>3, <1>5, <1>6, OthersAgree DEF RowsStay
<1>q. QED
  BY <1>2, <1>4, <1>5, <1>6 DEF AsyncInv

LEMMA ReturningKeepsInv ==
    ASSUME AsyncInv, NEW w \in AsyncWorkers, RowsStay, CheckReturns(w) \/ check' = [check EXCEPT ![w] = NoCheck],
           asyncFresh' \subseteq asyncFresh,
           overtime' = overtime, asyncFaults' \in 0 .. MaxAsyncFaults, Busy(w),
           \/ asyncQueue' = asyncQueue
           \/ check' = [check EXCEPT ![w] = NoCheck] /\ asyncQueue' = asyncQueue + 1
           \/ Begun /\ asyncQueue' = asyncQueue + 1
    PROVE  AsyncInv'
<1>1. PICK t \in {NoCheck, [NoCheck EXCEPT !.pc = "acking"]} :
         check' = [check EXCEPT ![w] = t] /\ (asyncQueue' = asyncQueue \/ t = NoCheck \/ Begun)
  BY DEF CheckReturns
<1>2. t \in Checks /\ t.pc \in {"idle", "acking"} /\ (t = NoCheck => t.pc = "idle")
  BY NoCheckTyped
<1>3. check'[w] = t
  BY <1>1, <1>2, OwnTask DEF AsyncInv
<1>4. TaskAgrees(w)'
  BY <1>2, <1>3 DEF TaskAgrees, Writing
<1>q. QED
  BY <1>1, <1>2, <1>4, TaskStep

LEMMA TakeKeepsInv == ASSUME AsyncInv, NEW w \in AsyncWorkers, TakeCheck(w) PROVE AsyncInv'
<1>1. check[w] \in Checks /\ check[w].pc = "idle" /\ asyncQueue > 0 /\ asyncQueue' = asyncQueue - 1
  BY TaskTyped DEF TakeCheck, AsyncInv
<1>2. RowsStay /\ asyncFresh' = asyncFresh /\ overtime' = overtime /\ asyncFaults' \in 0 .. MaxAsyncFaults
  BY DEF TakeCheck, RowsStay, AsyncInv, AsyncTypeOK
<1>3. CASE check' = check
  <2>1. check' = [check EXCEPT ![w] = check[w]]
    BY <1>3 DEF AsyncInv, AsyncTypeOK
  <2>2. TaskAgrees(w)'
    BY <1>1, <1>3 DEF TaskAgrees, Writing
  <2>q. QED
    BY <1>1, <1>2, <2>1, <2>2, TaskStep DEF Busy
<1>4. CASE asyncState = "IN_PROGRESS" /\ CheckGoto(w, "checking")
  <2> DEFINE t == [check[w] EXCEPT !.pc = "checking"]
  <2>1. t \in Checks /\ t.pc = "checking" /\ check' = [check EXCEPT ![w] = t]
    BY <1>1, <1>4 DEF CheckGoto, Checks, AsyncInv, AsyncTypeOK
  <2>2. check'[w] = t
    BY <2>1, OwnTask DEF AsyncInv
  <2>3. TaskAgrees(w)'
    BY <1>2, <1>4, <2>1, <2>2 DEF TaskAgrees, Writing, Begun, RowsStay
  <2> HIDE DEF t
  <2>q. QED
    BY <1>1, <1>2, <2>1, <2>3, TaskStep DEF Busy
<1>5. ASSUME asyncState = "NOT_STARTED", NEW p \in Passes,
             check' = [check EXCEPT ![w].pc = "creating", ![w].pass = p, ![w].next = 1]
      PROVE  AsyncInv'
  <2> DEFINE t == [check[w] EXCEPT !.pc = "creating", !.pass = p, !.next = 1]
  <2>1. 1 \in 0 .. ChunkCount + 1
    BY AsyncBounds
  <2>2. t \in Checks /\ t.pc = "creating" /\ t.next = 1
    BY <1>1, <2>1 DEF Checks
  <2>3. check' = [check EXCEPT ![w] = t]
    BY <1>5 DEF AsyncInv, AsyncTypeOK
  <2>4. check'[w] = t
    BY <2>2, <2>3, OwnTask DEF AsyncInv
  <2>5. CreatedSoFar(w)'
    <3>1. \A c \in Chunks : ~(c < 1)
      BY DEF Chunks
    <3>2. check'[w].next = 1 /\ asyncState' = "NOT_STARTED"
      BY <1>2, <1>5, <2>2, <2>4 DEF RowsStay
    <3>3. check'[w].next >= 1
      BY <3>2
    <3>4. \A c \in Chunks : ~(c < check'[w].next)
      BY <3>1, <3>2
    <3>q. QED
      BY <3>2, <3>3, <3>4 DEF CreatedSoFar
  <2>6. TaskAgrees(w)'
    BY <2>2, <2>4, <2>5 DEF TaskAgrees, Writing
  <2> HIDE DEF t
  <2>q. QED
    BY <1>1, <1>2, <2>2, <2>3, <2>6, TaskStep DEF Busy
<1>q. QED
  BY <1>3, <1>4, <1>5 DEF TakeCheck

\* A task is about to write the row.
LEMMA WillWriteStep ==
    ASSUME AsyncInv, NEW w \in AsyncWorkers, NEW goal \in AsyncStates \ {"NOT_STARTED"}, WillWrite(w, goal), Busy(w), RowsStay,
           asyncFresh' \subseteq asyncFresh, UNCHANGED <<asyncQueue, overtime, asyncFaults>>,
           goal = "IN_PROGRESS" /\ ~erased => Made,
           goal = "COMPLETE" => Begun /\ (~erased => AllDone)
    PROVE  AsyncInv'
<1> DEFINE t == [NoCheck EXCEPT !.pc = "refreshing", !.goal = goal]
<1>1. t \in Checks /\ t.pc = "refreshing" /\ t.goal = goal /\ check' = [check EXCEPT ![w] = t]
  BY NoCheckTyped DEF WillWrite
<1>2. check'[w] = t
  BY <1>1, OwnTask DEF AsyncInv
<1> HIDE DEF t
<1>3. WriterAgrees(w)'
  BY <1>1, <1>2 DEF WriterAgrees, RowsStay, Made, Begun, AllDone, InProgress, AnyFailed
<1>4. TaskAgrees(w)'
  BY <1>1, <1>2, <1>3 DEF TaskAgrees, Writing, AsyncStates, AsyncEnded
<1>5. asyncFaults' \in 0 .. MaxAsyncFaults
  BY DEF AsyncInv, AsyncTypeOK
<1>q. QED
  BY <1>1, <1>4, <1>5, TaskStep

LEMMA CreateKeepsInv == ASSUME AsyncInv, NEW w \in AsyncWorkers, CreateUtterance(w) PROVE AsyncInv'
<1>1. /\ check[w].pc = "creating" /\ check[w] \in Checks /\ Busy(w) /\ CreatedSoFar(w)
      /\ check[w].next \in 0 .. ChunkCount + 1 /\ check[w].pass \in Passes
      /\ UNCHANGED <<asyncState, asyncFresh, asyncQueue, overtime, erased, asyncFaults>>
  BY TaskTyped DEF CreateUtterance, AsyncInv, TaskAgrees, Busy
<1>2. CASE check[w].next \notin Chunks
  <2>1. WillWrite(w, "IN_PROGRESS") /\ RowsStay
    BY <1>1, <1>2 DEF CreateUtterance, RowsStay
  <2>2. \A c \in Chunks : c < check[w].next
    <3>1. check[w].next >= 1
      BY <1>1 DEF CreatedSoFar
    <3>q. QED
      BY <1>1, <1>2, <3>1, AsyncBounds DEF Chunks
  <2>3. ~erased => Made
    BY <1>1, <2>2 DEF CreatedSoFar, Made
  <2>q. QED
    BY <1>1, <2>1, <2>3, WillWriteStep DEF AsyncStates, AsyncEnded
<1>3. CASE check[w].next \in Chunks
  <2> DEFINE t == [check[w] EXCEPT !.next = @ + 1]
             u == <<check[w].pass, check[w].next>>
  <2>1. /\ t \in Checks /\ t.pc = "creating" /\ t.next = check[w].next + 1 /\ t.pass = check[w].pass
        /\ check' = [check EXCEPT ![w] = t]
    BY <1>1, <1>3, AsyncBounds DEF CreateUtterance, Checks, Chunks, AsyncInv, AsyncTypeOK
  <2>2. check'[w] = t /\ check' \in [AsyncWorkers -> Checks] /\ \A v \in AsyncWorkers : v # w => check'[v] = check[v]
    BY <2>1, OwnTask DEF AsyncInv
  <2>3. u \in Passes \X Chunks /\ utterance' = [utterance EXCEPT ![u] = "pending"]
    BY <1>1, <1>3 DEF CreateUtterance
  <2> HIDE DEF t, u
  <2>4. /\ utterance' \in [Passes \X Chunks -> {"none", "pending", "text", "failed"}]
        /\ utterance'[u] = "pending" /\ \A v \in Passes \X Chunks : v # u => utterance'[v] = utterance[v]
    BY <2>3 DEF AsyncInv, AsyncTypeOK
  <2>5. AsyncTypeOK'
    BY <1>1, <2>2, <2>4 DEF AsyncInv, AsyncTypeOK
  <2>6. ~Begun /\ ~Begun' /\ asyncState' = "NOT_STARTED"
    BY <1>1 DEF CreatedSoFar, Begun, AsyncEnded
  <2>7. \A v \in AsyncWorkers : Busy(v) => v = w
    BY <1>1, <2>6 DEF AsyncInv, OneTask
  <2>8. OneTask' /\ Unasked'
    BY <1>1, <2>1, <2>2, OneTaskStays DEF AsyncInv, Busy
  <2>9. RowAgrees'
    BY <2>6 DEF RowAgrees
  <2>10. \A v \in AsyncWorkers : v # w => TaskAgrees(v)'
    BY <2>2, <2>7 DEF TaskAgrees, Busy, Writing
  <2>11. CreatedSoFar(w)'
    <3>1. ASSUME NEW c \in Chunks, c < t.next, ~erased PROVE utterance'[check[w].pass, c] # "none"
      <4>1. <<check[w].pass, c>> \in Passes \X Chunks /\ (c = check[w].next => <<check[w].pass, c>> = u)
        BY <1>1 DEF u
      <4>2. c < check[w].next \/ c = check[w].next
        BY <1>1, <2>1, <3>1 DEF Chunks
      <4>q. QED
        BY <1>1, <2>4, <3>1, <4>1, <4>2 DEF CreatedSoFar
    <3>2. t.next >= 1
      BY <1>1, <1>3, <2>1 DEF Chunks
    <3>q. QED
      BY <1>1, <2>1, <2>2, <2>6, <3>1, <3>2 DEF CreatedSoFar
  <2>12. TaskAgrees(w)'
    BY <2>1, <2>2, <2>11 DEF TaskAgrees, Writing
  <2>q. QED
    BY <2>5, <2>8, <2>9, <2>10, <2>12 DEF AsyncInv
<1>q. QED
  BY <1>2, <1>3

LEMMA ChecksKeepInv ==
    ASSUME AsyncInv, NEW w \in AsyncWorkers, CheckCompletion(w) \/ LookForPending(w) \/ Terminate(w) \/ AckCheck(w)
    PROVE  AsyncInv'
<1>1. /\ check[w] \in Checks /\ Busy(w) /\ RowsStay /\ asyncFresh' \subseteq asyncFresh
      /\ overtime' = overtime /\ asyncFaults' = asyncFaults /\ asyncFaults \in 0 .. MaxAsyncFaults
  BY TaskTyped DEF CheckCompletion, LookForPending, Terminate, AckCheck, CheckReturns, Busy, RowsStay, AsyncInv, AsyncTypeOK
<1>2. check[w].pc \in {"checking", "looking", "deciding"} => Begun
  BY DEF AsyncInv, TaskAgrees
<1>3. ASSUME NEW pc \in {"looking", "deciding"}, NEW busy \in BOOLEAN,
             check' = [check EXCEPT ![w] = [check[w] EXCEPT !.pc = pc, !.busy = busy]],
             Begun, asyncQueue' = asyncQueue, pc = "deciding" => busy = InProgress
      PROVE  AsyncInv'
  <2> DEFINE t == [check[w] EXCEPT !.pc = pc, !.busy = busy]
  <2>1. t \in Checks /\ t.pc = pc /\ t.busy = busy
    BY <1>1 DEF Checks
  <2>2. check'[w] = t
    BY <1>3, <2>1, OwnTask DEF AsyncInv
  <2>3. TaskAgrees(w)'
    BY <1>1, <1>3, <2>1, <2>2 DEF TaskAgrees, Writing, RowsStay, Begun, InProgress
  <2> HIDE DEF t
  <2>q. QED
    BY <1>1, <1>3, <2>1, <2>3, TaskStep DEF t
<1>4. CASE CheckCompletion(w)
  <2>1. CASE CheckGoto(w, "looking") /\ asyncQueue' = asyncQueue
    <3>1. check' = [check EXCEPT ![w] = [check[w] EXCEPT !.pc = "looking", !.busy = check[w].busy]]
      BY <1>1, <2>1 DEF CheckGoto, Checks, AsyncInv, AsyncTypeOK
    <3>q. QED
      BY <1>2, <1>3, <1>4, <2>1, <3>1, TaskTyped DEF CheckCompletion, AsyncInv
  <2>2. CASE CheckReturns(w) /\ asyncQueue' = asyncQueue + 1
    BY <1>1, <1>2, <1>4, <2>2, ReturningKeepsInv DEF CheckCompletion
  <2>q. QED
    BY <1>4, <2>1, <2>2 DEF CheckCompletion
<1>5. CASE LookForPending(w)
  <2>1. check' = [check EXCEPT ![w] = [check[w] EXCEPT !.pc = "deciding", !.busy = InProgress]] /\ asyncQueue' = asyncQueue
    BY <1>1, <1>5 DEF LookForPending, AsyncInv, AsyncTypeOK
  <2>2. InProgress \in BOOLEAN
    BY DEF InProgress
  <2>q. QED
    BY <1>2, <1>3, <1>5, <2>1, <2>2 DEF LookForPending
<1>6. CASE Terminate(w)
  <2>1. PICK goal \in {"FAILED", "COMPLETE"} :
          WillWrite(w, goal) /\ (goal = "COMPLETE" => ~check[w].busy /\ ~AnyFailed)
    BY <1>6 DEF Terminate
  <2>2. Begun /\ (goal = "COMPLETE" /\ ~erased => AllDone)
    BY <1>6, <2>1 DEF Terminate, AsyncInv, TaskAgrees, AllDone
  <2>q. QED
    BY <1>1, <1>6, <2>1, <2>2, WillWriteStep DEF Terminate, AsyncStates, AsyncEnded
<1>7. CASE AckCheck(w)
  BY <1>1, <1>7, ReturningKeepsInv DEF AckCheck
<1>q. QED
  BY <1>4, <1>5, <1>6, <1>7

LEMMA RaisedKeepsInv ==
    ASSUME AsyncInv, NEW w \in AsyncWorkers, Raised(w), Busy(w), RowsStay, overtime' = overtime,
           asyncQueue' = asyncQueue, asyncFaults' \in 0 .. MaxAsyncFaults
    PROVE  AsyncInv'
<1>1. PICK t \in {NoCheck, [NoCheck EXCEPT !.pc = "refreshing", !.handler = TRUE]} : check' = [check EXCEPT ![w] = t]
  BY DEF Raised, AsyncInv, AsyncTypeOK
<1>2. t \in Checks /\ t.pc \in {"idle", "refreshing"} /\ t.goal = "FAILED"
  BY NoCheckTyped
<1>3. check'[w] = t /\ asyncFresh' \subseteq asyncFresh
  BY <1>1, <1>2, OwnTask DEF AsyncInv, Raised
<1>4. TaskAgrees(w)'
  BY <1>2, <1>3 DEF TaskAgrees, Writing, WriterAgrees
<1>q. QED
  BY <1>1, <1>2, <1>3, <1>4, TaskStep

LEMMA RefreshKeepsInv == ASSUME AsyncInv, NEW w \in AsyncWorkers, RefreshRow(w) PROVE AsyncInv'
<1>1. /\ check[w] \in Checks /\ check[w].pc = "refreshing" /\ Busy(w) /\ RowsStay
      /\ overtime' = overtime /\ asyncQueue' = asyncQueue /\ asyncFaults' \in 0 .. MaxAsyncFaults
  BY TaskTyped DEF RefreshRow, Busy, RowsStay, AsyncInv, AsyncTypeOK
<1>2. CASE Raised(w)
  BY <1>1, <1>2, RaisedKeepsInv
<1>3. CASE asyncState = check[w].goal /\ AlreadySaved(w)
  <2>1. asyncFresh' \subseteq asyncFresh
    BY <1>3 DEF AlreadySaved, CheckReturns
  <2>2. CASE CheckReturns(w)
    BY <1>1, <2>1, <2>2, ReturningKeepsInv
  <2>3. CASE check[w].goal = "IN_PROGRESS" /\ check' = [check EXCEPT ![w] = [NoCheck EXCEPT !.pc = "checking"]]
    <3>1. check'[w].pc = "checking" /\ [NoCheck EXCEPT !.pc = "checking"] \in Checks
      BY <2>3, NoCheckTyped, OwnTask DEF AsyncInv
    <3>2. TaskAgrees(w)'
      BY <1>1, <1>3, <2>3, <3>1 DEF TaskAgrees, Writing, Begun, RowsStay
    <3>q. QED
      BY <1>1, <2>1, <2>3, <3>1, <3>2, TaskStep
  <2>q. QED
    BY <1>3, <2>2, <2>3 DEF AlreadySaved
<1>4. CASE asyncState \in MayBecome(check[w].goal) /\ CheckGoto(w, "saving") /\ asyncFresh' = asyncFresh \cup {w}
  <2> DEFINE t == [check[w] EXCEPT !.pc = "saving"]
  <2>1. t \in Checks /\ t.pc = "saving" /\ t.goal = check[w].goal /\ check' = [check EXCEPT ![w] = t]
    BY <1>1, <1>4 DEF CheckGoto, Checks, AsyncInv, AsyncTypeOK
  <2>2. check'[w] = t
    BY <2>1, OwnTask DEF AsyncInv
  <2>3. WriterAgrees(w) /\ check[w].goal \in {"IN_PROGRESS", "COMPLETE", "FAILED"}
    BY <1>1 DEF AsyncInv, TaskAgrees, Writing
  <2>4. WriterAgrees(w)'
    BY <1>1, <2>1, <2>2, <2>3 DEF WriterAgrees, RowsStay, Made, Begun, AllDone, InProgress, AnyFailed
  <2>5. asyncState' \in MayBecome(t.goal)
    BY <1>1, <1>4, <2>1 DEF RowsStay
  <2> HIDE DEF t
  <2>6. TaskAgrees(w)'
    BY <2>1, <2>2, <2>3, <2>4, <2>5 DEF TaskAgrees, Writing, MayBecome
  <2>q. QED
    BY <1>1, <1>4, <2>1, <2>6, TaskStep
<1>q. QED
  BY <1>2, <1>3, <1>4 DEF RefreshRow

LEMMA SaveKeepsInv == ASSUME AsyncInv, NEW w \in AsyncWorkers, SaveAsyncRow(w) PROVE AsyncInv'
<1>1. /\ check[w] \in Checks /\ check[w].pc = "saving" /\ Busy(w) /\ TaskAgrees(w)
      /\ UNCHANGED <<utterance, asyncQueue, overtime, erased, asyncFaults>> /\ asyncFaults \in 0 .. MaxAsyncFaults
  BY TaskTyped DEF SaveAsyncRow, Busy, AsyncInv, AsyncTypeOK
<1>2. CASE Raised(w) /\ asyncState' = asyncState
  BY <1>1, <1>2, RaisedKeepsInv DEF RowsStay
<1>3. CASE /\ w \in asyncFresh /\ asyncState' = check[w].goal /\ asyncFresh' = {}
           /\ check' = [check EXCEPT ![w] = [NoCheck EXCEPT !.pc = IF check[w].goal = "IN_PROGRESS" THEN "checking" ELSE "acking"]]
  <2>1. PICK pc \in {"checking", "acking"} :
          /\ check' = [check EXCEPT ![w] = [NoCheck EXCEPT !.pc = pc]]
          /\ pc = "checking" => check[w].goal = "IN_PROGRESS"
    BY <1>3
  <2>2. [NoCheck EXCEPT !.pc = pc] \in Checks /\ [NoCheck EXCEPT !.pc = pc].pc = pc
    BY <2>1, NoCheckTyped
  <2>3. /\ check' \in [AsyncWorkers -> Checks] /\ check'[w].pc = pc
        /\ \A v \in AsyncWorkers : v # w => check'[v] = check[v]
    BY <2>1, <2>2, OwnTask DEF AsyncInv
  <2>4. /\ check[w].goal \in {"IN_PROGRESS", "COMPLETE", "FAILED"} /\ WriterAgrees(w)
        /\ asyncState \in MayBecome(check[w].goal)
    BY <1>1, <1>3 DEF TaskAgrees, Writing
  <2>5. Begun' /\ asyncState' \in AsyncStates
    BY <1>3, <2>4 DEF Begun, AsyncEnded, AsyncStates
  <2>6. AsyncTypeOK'
    BY <1>1, <1>3, <2>3, <2>5 DEF AsyncInv, AsyncTypeOK
  <2>7. OneTask' /\ Unasked'
    BY <1>1, <2>3, <2>5, OneTaskStays DEF AsyncInv
  <2>8. (Made' <=> Made) /\ (InProgress' <=> InProgress) /\ (AllDone' <=> AllDone)
    BY <1>1 DEF Made, AllDone, InProgress, AnyFailed
  <2>9. RowAgrees'
    <3>1. check[w].goal = "COMPLETE" => asyncState = "IN_PROGRESS"
      BY <2>4 DEF MayBecome
    <3>q. QED
      BY <1>1, <1>3, <2>4, <2>8, <3>1 DEF RowAgrees, WriterAgrees, AsyncInv
  <2>10. RowsMoveOn
    BY <1>1, <2>5, <2>8 DEF RowsMoveOn
  <2>11. ASSUME NEW v \in AsyncWorkers, v # w PROVE TaskAgrees(v)'
    <3>1. check[v].pc # "creating"
      <4>1. CASE Begun
        BY <4>1 DEF AsyncInv, TaskAgrees, CreatedSoFar, Begun, AsyncEnded
      <4>2. CASE ~Begun
        BY <1>1, <2>11, <4>2 DEF AsyncInv, OneTask, Busy
      <4>q. QED
        BY <4>1, <4>2
    <3>q. QED
      BY <1>3, <2>3, <2>10, <2>11, <3>1, OthersAgree
  <2>12. TaskAgrees(w)'
    BY <2>1, <2>3, <2>5 DEF TaskAgrees, Writing
  <2>q. QED
    BY <2>6, <2>7, <2>9, <2>11, <2>12 DEF AsyncInv
<1>q. QED
  BY <1>2, <1>3 DEF SaveAsyncRow

LEMMA FaultKeepsInv == ASSUME AsyncInv, NEW w \in AsyncWorkers, AsyncFault(w) PROVE AsyncInv'
<1>1. Busy(w) /\ RowsStay /\ overtime' = overtime
  BY DEF AsyncFault, Busy, RowsStay
<1>4. asyncFaults' \in 0 .. MaxAsyncFaults
  BY AsyncBounds DEF AsyncFault, AsyncInv, AsyncTypeOK
<1>2. CASE Raised(w) /\ asyncQueue' = asyncQueue
  BY <1>1, <1>2, <1>4, RaisedKeepsInv
<1>3. CASE check' = [check EXCEPT ![w] = NoCheck] /\ asyncFresh' = asyncFresh \ {w} /\ asyncQueue' = asyncQueue + 1
  BY <1>1, <1>3, <1>4, ReturningKeepsInv
<1>q. QED
  BY <1>2, <1>3 DEF AsyncFault

LEMMA RequestKeepsInv == ASSUME AsyncInv, RequestTranscription PROVE AsyncInv'
<1>1. /\ asyncState = "none" /\ asyncState' = "NOT_STARTED" /\ asyncQueue' \in {0, 1}
      /\ \A w \in AsyncWorkers : ~Busy(w)
      /\ UNCHANGED <<check, asyncFresh, utterance, overtime, erased>>
  BY DEF RequestTranscription, AsyncInv, Unasked
<1>2. \A w \in AsyncWorkers : check'[w].pc = "idle"
  BY <1>1 DEF Busy
<1>3. OneTask' /\ Unasked' /\ RowAgrees'
  BY <1>1, <1>2 DEF OneTask, Unasked, RowAgrees, Busy
<1>4. \A w \in AsyncWorkers : TaskAgrees(w)'
  BY <1>2 DEF TaskAgrees, Writing
<1>5. asyncFaults' \in 0 .. MaxAsyncFaults
  BY AsyncBounds DEF RequestTranscription, AsyncInv, AsyncTypeOK
<1>6. AsyncTypeOK'
  BY <1>1, <1>5 DEF AsyncInv, AsyncTypeOK, AsyncStates
<1>q. QED
  BY <1>3, <1>4, <1>6 DEF AsyncInv

\* What happens to the utterances and the clock beside the tasks.
LEMMA WorldKeepsInv ==
    ASSUME AsyncInv, SettleUtterance \/ DeleteTranscript \/ RunOvertime PROVE AsyncInv'
<1>1. UNCHANGED <<asyncState, check, asyncFresh, asyncQueue, asyncFaults>> /\ (erased => erased')
  BY DEF SettleUtterance, DeleteTranscript, RunOvertime
<1>2. OneTask' /\ Unasked'
  BY <1>1 DEF AsyncInv, OneTask, Unasked, Begun, Busy
<1>3. utterance' \in [Passes \X Chunks -> {"none", "pending", "text", "failed"}]
  BY DEF SettleUtterance, DeleteTranscript, RunOvertime, AsyncInv, AsyncTypeOK
<1>4. overtime' \in BOOLEAN /\ erased' \in BOOLEAN
  BY DEF SettleUtterance, DeleteTranscript, RunOvertime, AsyncInv, AsyncTypeOK
<1>5. AsyncTypeOK'
  BY <1>1, <1>3, <1>4 DEF AsyncInv, AsyncTypeOK
<1>6. erased' \/ \A u \in Passes \X Chunks : /\ utterance[u] = "none" <=> utterance'[u] = "none"
                                             /\ utterance[u] # "pending" => utterance'[u] = utterance[u]
  BY DEF SettleUtterance, DeleteTranscript, RunOvertime, AsyncInv, AsyncTypeOK
<1>7. (Made => Made' \/ erased') /\ (~erased' => (~InProgress => ~InProgress') /\ (AllDone => AllDone'))
  <2>1. \A p \in Passes, c \in Chunks : <<p, c>> \in Passes \X Chunks
    OBVIOUS
  <2>q. QED
    BY <1>6, <2>1 DEF Made, AllDone, InProgress, AnyFailed
<1>8. RowsMoveOn
  BY <1>1, <1>7 DEF RowsMoveOn, Begun
<1>9. RowAgrees'
  BY <1>1, <1>7 DEF AsyncInv, RowAgrees
<1>10. \A w \in AsyncWorkers : TaskAgrees(w)'
  BY <1>1, <1>6, <1>8, OthersAgree
<1>q. QED
  BY <1>2, <1>5, <1>9, <1>10 DEF AsyncInv

LEMMA AsyncInvariant == AsyncSpec => []AsyncInv
<1>1. AsyncInv /\ [AsyncNext]_asyncVars => AsyncInv'
  <2> SUFFICES ASSUME AsyncInv, [AsyncNext]_asyncVars PROVE AsyncInv'
    OBVIOUS
  <2>1. CASE \E w \in AsyncWorkers : AsyncStep(w) \/ AsyncFault(w)
    BY <2>1, TakeKeepsInv, CreateKeepsInv, ChecksKeepInv, RefreshKeepsInv, SaveKeepsInv, FaultKeepsInv DEF AsyncStep
  <2>2. CASE RequestTranscription \/ SettleUtterance \/ DeleteTranscript \/ RunOvertime
    BY <2>2, RequestKeepsInv, WorldKeepsInv
  <2>3. CASE UNCHANGED asyncVars
    BY <2>3 DEF asyncVars, AsyncInv, AsyncTypeOK, OneTask, Unasked, RowAgrees, TaskAgrees, CreatedSoFar, WriterAgrees,
                Writing, Made, AllDone, InProgress, AnyFailed, Begun, Busy, MayBecome
  <2>q. QED
    BY <2>1, <2>2, <2>3 DEF AsyncNext
<1>q. QED
  BY <1>1, AsyncInitInv, PTL DEF AsyncSpec

\* Whatever workers died and whichever utterances a second pass created again: a
\* transcription that is complete has the words of every chunk, for any number of
\* chunks, passes, workers and faults.
THEOREM AsyncCompleteIsTranscribed == AsyncSpec => []AsyncCompleteHasAllWords
<1>1. AsyncInv => AsyncCompleteHasAllWords
  <2> SUFFICES ASSUME AsyncInv, asyncState = "COMPLETE", ~erased
               PROVE  (\A c \in Chunks : \E p \in Passes : utterance[p, c] = "text") /\ ~InProgress /\ ~AnyFailed
    BY DEF AsyncCompleteHasAllWords
  <2>1. Made /\ ~InProgress /\ ~AnyFailed
    BY DEF AsyncInv, RowAgrees, AllDone
  <2>2. \A p \in Passes, c \in Chunks : <<p, c>> \in Passes \X Chunks
    OBVIOUS
  <2>3. \A p \in Passes, c \in Chunks : utterance[p, c] \in {"none", "text"}
    BY <2>1, <2>2 DEF AsyncInv, AsyncTypeOK, InProgress, AnyFailed
  <2>q. QED
    BY <2>1, <2>3 DEF Made
<1>q. QED
  BY <1>1, AsyncInvariant, PTL

AsyncEndHolds == asyncState \in AsyncEnded => asyncState' = asyncState

\* Two chains of checks, after a worker died, do not change the end that the
\* customer was told of: the row is saved under its version only.
THEOREM AsyncEndsForGood == AsyncSpec => [][AsyncEndHolds]_asyncVars
<1>1. AsyncInv /\ [AsyncNext]_asyncVars => [AsyncEndHolds]_asyncVars
  <2> SUFFICES ASSUME AsyncInv, AsyncNext, asyncState \in AsyncEnded PROVE asyncState' = asyncState
    BY DEF AsyncEndHolds
  <2>1. ASSUME NEW w \in AsyncWorkers, AsyncStep(w) \/ AsyncFault(w) PROVE asyncState' = asyncState
    <3>1. CASE SaveAsyncRow(w)
      <4>1. CASE w \in asyncFresh /\ check[w].pc = "saving"
        BY <4>1 DEF AsyncInv, TaskAgrees, MayBecome, AsyncEnded, Writing
      <4>q. QED
        BY <3>1, <4>1 DEF SaveAsyncRow
    <3>q. QED
      BY <2>1, <3>1 DEF AsyncStep, AsyncFault, TakeCheck, CreateUtterance, CheckCompletion, LookForPending, Terminate,
                        RefreshRow, AckCheck
  <2>2. ~RequestTranscription
    BY DEF RequestTranscription, AsyncEnded
  <2>q. QED
    BY <2>1, <2>2 DEF AsyncNext, SettleUtterance, DeleteTranscript, RunOvertime
<1>q. QED
  BY <1>1, AsyncInvariant, PTL DEF AsyncSpec

\* Only the handler of an exception writes as one, and it says FAILED.
HandlersFail == \A w \in AsyncWorkers : check[w].handler => Writing(w) /\ check[w].goal = "FAILED"

\* A worker that will queue the next check, end the transcription, or have seen to it
\* that its handler does: all but a handler whose save will be refused.
CarriesOn(w) ==
    /\ check[w].pc \notin {"idle", "acking"}
    /\ ~(check[w].handler /\ check[w].pc = "saving" /\ w \notin asyncFresh)
StillOpen == asyncState = "IN_PROGRESS" \/ (asyncState = "NOT_STARTED" /\ asyncFaults = 0)
CarriedOn == StillOpen => asyncQueue > 0 \/ \E w \in AsyncWorkers : CarriesOn(w)

\* A worker does something of its own: w now has the task t.
LEMMA HandlersOfOthers ==
    ASSUME AsyncInv, HandlersFail, NEW w \in AsyncWorkers, NEW t \in Checks, check' = [check EXCEPT ![w] = t],
           t.handler => t.pc \in {"refreshing", "saving"} /\ t.goal = "FAILED"
    PROVE  HandlersFail'
BY OwnTask DEF AsyncInv, HandlersFail, Writing

\* It leaves the others' as they are, and takes on what was to be done or leaves it
\* to somebody.
LEMMA CarriedOnByStep ==
    ASSUME AsyncInv, CarriedOn, NEW w \in AsyncWorkers, NEW t \in Checks, check' = [check EXCEPT ![w] = t],
           asyncFresh \ {w} \subseteq asyncFresh', asyncQueue' \in Nat,
           StillOpen' => StillOpen,
           StillOpen' => \/ asyncQueue' > 0
                         \/ CarriesOn(w)'
                         \/ asyncQueue' = asyncQueue /\ ~CarriesOn(w)
    PROVE  CarriedOn'
<1>1. \A v \in AsyncWorkers : v # w => check'[v] = check[v]
  BY OwnTask DEF AsyncInv
<1>2. \A v \in AsyncWorkers : v # w /\ CarriesOn(v) => CarriesOn(v)'
  BY <1>1 DEF CarriesOn
<1> QED
  BY <1>2 DEF CarriedOn

LEMMA TakenIsCarriedOn ==
    ASSUME AsyncInv, HandlersFail, CarriedOn, NEW w \in AsyncWorkers, TakeCheck(w)
    PROVE  HandlersFail' /\ CarriedOn'
<1>1. check[w] \in Checks /\ check[w].pc = "idle" /\ ~check[w].handler
  BY TaskTyped DEF TakeCheck, AsyncInv, HandlersFail, Writing
<1>0. UNCHANGED <<asyncState, asyncFresh, asyncFaults>> /\ asyncQueue > 0 /\ asyncQueue' = asyncQueue - 1
  BY DEF TakeCheck
<1>2. /\ UNCHANGED <<asyncState, asyncFresh, asyncFaults>> /\ asyncQueue' \in Nat
      /\ StillOpen' <=> StillOpen
  BY <1>0 DEF StillOpen, AsyncInv, AsyncTypeOK
<1>3. CASE asyncState \in AsyncEnded /\ check' = check
  BY <1>2, <1>3 DEF HandlersFail, Writing, CarriedOn, StillOpen, AsyncEnded
<1>4. CASE asyncState = "IN_PROGRESS" /\ CheckGoto(w, "checking")
  <2> DEFINE t == [check[w] EXCEPT !.pc = "checking"]
  <2>1. t \in Checks /\ t.pc = "checking" /\ ~t.handler /\ check' = [check EXCEPT ![w] = t]
    BY <1>1, <1>4 DEF CheckGoto, Checks, AsyncInv, AsyncTypeOK
  <2>2. check'[w] = t
    BY <2>1, OwnTask DEF AsyncInv
  <2> HIDE DEF t
  <2>3. CarriesOn(w)'
    BY <2>1, <2>2 DEF CarriesOn
  <2> QED
    BY <1>2, <2>1, <2>3, HandlersOfOthers, CarriedOnByStep
<1>5. ASSUME NEW p \in Passes, check' = [check EXCEPT ![w].pc = "creating", ![w].pass = p, ![w].next = 1]
      PROVE  HandlersFail' /\ CarriedOn'
  <2> DEFINE t == [check[w] EXCEPT !.pc = "creating", !.pass = p, !.next = 1]
  <2>1. 1 \in 0 .. ChunkCount + 1
    BY AsyncBounds
  <2>2. t \in Checks /\ t.pc = "creating" /\ ~t.handler
    BY <1>1, <2>1 DEF Checks
  <2>3. check' = [check EXCEPT ![w] = t]
    BY <1>5 DEF AsyncInv, AsyncTypeOK
  <2>4. check'[w] = t
    BY <2>2, <2>3, OwnTask DEF AsyncInv
  <2> HIDE DEF t
  <2>5. CarriesOn(w)'
    BY <2>2, <2>4 DEF CarriesOn
  <2> QED
    BY <1>2, <2>2, <2>3, <2>5, HandlersOfOthers, CarriedOnByStep
<1> QED
  BY <1>3, <1>4, <1>5 DEF TakeCheck

\* What the other steps of a task make of it.
LEMMA NoHandler ==
    /\ NoCheck \in Checks /\ ~NoCheck.handler
    /\ \A pc \in {"acking", "checking"} : ~[NoCheck EXCEPT !.pc = pc].handler
    /\ \A goal \in AsyncStates : ~[NoCheck EXCEPT !.pc = "refreshing", !.goal = goal].handler
BY NoCheckTyped DEF Checks

LEMMA WritingIsCarriedOn ==
    ASSUME AsyncInv, HandlersFail, CarriedOn, NEW w \in AsyncWorkers, NEW goal \in AsyncStates, WillWrite(w, goal),
           UNCHANGED <<asyncState, asyncFresh, asyncQueue, asyncFaults>>
    PROVE  HandlersFail' /\ CarriedOn'
<1> DEFINE t == [NoCheck EXCEPT !.pc = "refreshing", !.goal = goal]
<1>1. t \in Checks /\ t.pc = "refreshing" /\ ~t.handler /\ check' = [check EXCEPT ![w] = t]
  BY NoCheckTyped, NoHandler DEF WillWrite
<1>2. check'[w] = t
  BY <1>1, OwnTask DEF AsyncInv
<1> HIDE DEF t
<1>3. CarriesOn(w)'
  BY <1>1, <1>2 DEF CarriesOn
<1>4. (StillOpen' <=> StillOpen) /\ asyncQueue' \in Nat
  BY DEF StillOpen, AsyncInv, AsyncTypeOK
<1> QED
  BY <1>1, <1>3, <1>4, HandlersOfOthers, CarriedOnByStep

\* A task that returns, or is no longer there.
LEMMA ReturningIsCarriedOn ==
    ASSUME AsyncInv, HandlersFail, CarriedOn, NEW w \in AsyncWorkers,
           NEW t \in {NoCheck, [NoCheck EXCEPT !.pc = "acking"]}, check' = [check EXCEPT ![w] = t],
           asyncFresh \ {w} \subseteq asyncFresh', asyncQueue' \in Nat,
           StillOpen' => StillOpen,
           StillOpen' => asyncQueue' > 0 \/ (asyncQueue' = asyncQueue /\ ~CarriesOn(w))
    PROVE  HandlersFail' /\ CarriedOn'
<1>1. t \in Checks /\ ~t.handler
  BY NoCheckTyped, NoHandler
<1> QED
  BY <1>1, HandlersOfOthers, CarriedOnByStep

LEMMA ChecksAreCarriedOn ==
    ASSUME AsyncInv, HandlersFail, CarriedOn, NEW w \in AsyncWorkers,
           CreateUtterance(w) \/ CheckCompletion(w) \/ LookForPending(w) \/ Terminate(w) \/ AckCheck(w)
    PROVE  HandlersFail' /\ CarriedOn'
<1>1. /\ check[w] \in Checks /\ check[w].next \in 0 .. ChunkCount + 1 /\ UNCHANGED <<asyncState, asyncFaults>>
      /\ asyncQueue \in Nat /\ asyncQueue' \in Nat /\ asyncFresh \ {w} \subseteq asyncFresh'
      /\ StillOpen' <=> StillOpen
  BY TaskTyped DEF CreateUtterance, CheckCompletion, LookForPending, Terminate, AckCheck, CheckReturns, AsyncInv,
                   AsyncTypeOK, StillOpen
<1>2. ~AckCheck(w) => ~check[w].handler
  BY DEF CreateUtterance, CheckCompletion, LookForPending, Terminate, HandlersFail, Writing
\* A task that goes on with what it was doing.
<1>3. ASSUME NEW t \in Checks, t.pc \in {"creating", "looking", "deciding"}, ~t.handler, check' = [check EXCEPT ![w] = t]
      PROVE  HandlersFail' /\ CarriedOn'
  <2>1. check'[w] = t
    BY <1>3, OwnTask DEF AsyncInv
  <2>2. CarriesOn(w)'
    BY <1>3, <2>1 DEF CarriesOn
  <2> QED
    BY <1>1, <1>3, <2>2, HandlersOfOthers, CarriedOnByStep
<1>4. CASE CreateUtterance(w)
  <2>1. CASE check[w].next \in Chunks
    <3> DEFINE t == [check[w] EXCEPT !.next = check[w].next + 1]
    <3>1. t \in Checks /\ t.pc = "creating" /\ t.handler = check[w].handler /\ check' = [check EXCEPT ![w] = t]
      BY <1>1, <1>4, <2>1, AsyncBounds DEF CreateUtterance, Checks, Chunks, AsyncInv, AsyncTypeOK
    <3> HIDE DEF t
    <3>2. ~AckCheck(w)
      BY <1>4 DEF AckCheck, CreateUtterance
    <3> QED
      BY <1>2, <1>3, <3>1, <3>2
  <2>2. CASE check[w].next \notin Chunks
    BY <1>4, <2>2, WritingIsCarriedOn DEF CreateUtterance, AsyncStates
  <2> QED
    BY <2>1, <2>2
<1>5. CASE CheckCompletion(w)
  <2>1. CASE asyncQueue' = asyncQueue + 1 /\ CheckReturns(w)
    <3>1. asyncQueue' \in Nat /\ asyncQueue' > 0
      BY <1>1, <2>1
    <3>2. PICK t \in {NoCheck, [NoCheck EXCEPT !.pc = "acking"]} : check' = [check EXCEPT ![w] = t]
      BY <2>1 DEF CheckReturns
    <3> QED
      BY <1>1, <3>1, <3>2, ReturningIsCarriedOn
  <2>2. CASE CheckGoto(w, "looking")
    <3> DEFINE t == [check[w] EXCEPT !.pc = "looking"]
    <3>1. t \in Checks /\ t.pc = "looking" /\ t.handler = check[w].handler /\ check' = [check EXCEPT ![w] = t]
      BY <1>1, <2>2 DEF CheckGoto, Checks, AsyncInv, AsyncTypeOK
    <3> HIDE DEF t
    <3>2. ~AckCheck(w)
      BY <1>5 DEF AckCheck, CheckCompletion
    <3> QED
      BY <1>2, <1>3, <3>1, <3>2
  <2> QED
    BY <1>5, <2>1, <2>2 DEF CheckCompletion
<1>6. CASE LookForPending(w)
  <2> DEFINE t == [check[w] EXCEPT !.pc = "deciding", !.busy = InProgress]
  <2>0. InProgress \in BOOLEAN
    BY DEF InProgress
  <2>1. t \in Checks /\ t.pc = "deciding" /\ t.handler = check[w].handler /\ check' = [check EXCEPT ![w] = t]
    BY <1>1, <1>6, <2>0 DEF LookForPending, Checks, AsyncInv, AsyncTypeOK
  <2> HIDE DEF t
  <2>2. ~AckCheck(w)
    BY <1>6 DEF AckCheck, LookForPending
  <2> QED
    BY <1>2, <1>3, <2>1, <2>2
<1>7. CASE Terminate(w)
  <2>1. PICK goal \in {"FAILED", "COMPLETE"} : WillWrite(w, goal)
    BY <1>7 DEF Terminate
  <2> QED
    BY <1>7, <2>1, WritingIsCarriedOn DEF Terminate, AsyncStates, AsyncEnded
<1>8. CASE AckCheck(w)
  <2>1. ~CarriesOn(w) /\ asyncQueue' = asyncQueue
    BY <1>8 DEF AckCheck, CarriesOn
  <2> QED
    BY <1>1, <1>8, <2>1, ReturningIsCarriedOn DEF AckCheck
<1> QED
  BY <1>4, <1>5, <1>6, <1>7, <1>8

\* An exception is carried on by its handler; one from the handler is not, which
\* must then have had nothing to carry on, or found the transcription over.
LEMMA RaisedIsCarriedOn ==
    ASSUME AsyncInv, HandlersFail, CarriedOn, NEW w \in AsyncWorkers, Raised(w),
           UNCHANGED <<asyncState, asyncQueue>>, asyncFaults' \in Nat, asyncFaults' >= asyncFaults,
           check[w].handler => ~StillOpen' \/ ~CarriesOn(w)
    PROVE  HandlersFail' /\ CarriedOn'
<1>1. StillOpen' => StillOpen
  BY DEF StillOpen, AsyncInv, AsyncTypeOK
<1>2. asyncQueue' \in Nat /\ asyncFresh \ {w} \subseteq asyncFresh'
  BY DEF Raised, AsyncInv, AsyncTypeOK
<1>3. CASE check[w].handler
  <2>1. check' = [check EXCEPT ![w] = NoCheck]
    BY <1>3 DEF Raised
  <2> QED
    BY <1>1, <1>2, <1>3, <2>1, ReturningIsCarriedOn
<1>4. CASE ~check[w].handler
  <2> DEFINE t == [NoCheck EXCEPT !.pc = "refreshing", !.handler = TRUE]
  <2>1. t \in Checks /\ t.pc = "refreshing" /\ t.goal = "FAILED" /\ check' = [check EXCEPT ![w] = t]
    BY <1>4, NoCheckTyped DEF Raised
  <2>2. check'[w] = t
    BY <2>1, OwnTask DEF AsyncInv
  <2> HIDE DEF t
  <2>3. CarriesOn(w)'
    BY <2>1, <2>2 DEF CarriesOn
  <2> QED
    BY <1>1, <1>2, <2>1, <2>3, HandlersOfOthers, CarriedOnByStep
<1> QED
  BY <1>3, <1>4

LEMMA RefreshIsCarriedOn ==
    ASSUME AsyncInv, HandlersFail, CarriedOn, NEW w \in AsyncWorkers, RefreshRow(w)
    PROVE  HandlersFail' /\ CarriedOn'
<1>1. /\ check[w] \in Checks /\ check[w].pc = "refreshing" /\ UNCHANGED <<asyncState, asyncQueue, asyncFaults>>
      /\ asyncQueue' \in Nat /\ asyncFaults' \in Nat /\ asyncFaults' >= asyncFaults
      /\ StillOpen' <=> StillOpen
  BY TaskTyped, AsyncBounds DEF RefreshRow, AsyncInv, AsyncTypeOK, StillOpen
<1>2. check[w].goal \in {"IN_PROGRESS", "COMPLETE", "FAILED"} /\ (check[w].handler => check[w].goal = "FAILED")
  BY <1>1 DEF AsyncInv, TaskAgrees, Writing, HandlersFail
<1>3. CASE asyncState \notin MayBecome(check[w].goal) \cup {check[w].goal} /\ Raised(w)
  <2>1. check[w].handler => ~StillOpen
    BY <1>2, <1>3 DEF MayBecome, StillOpen
  <2> QED
    BY <1>1, <1>3, <2>1, RaisedIsCarriedOn
<1>4. CASE asyncState = check[w].goal /\ AlreadySaved(w)
  <2>1. CASE check[w].goal = "IN_PROGRESS"
    <3> DEFINE t == [NoCheck EXCEPT !.pc = "checking"]
    <3>1. t \in Checks /\ t.pc = "checking" /\ ~t.handler /\ check' = [check EXCEPT ![w] = t]
          /\ asyncFresh \ {w} \subseteq asyncFresh'
      BY <1>4, <2>1, NoCheckTyped, NoHandler DEF AlreadySaved
    <3>2. check'[w] = t
      BY <3>1, OwnTask DEF AsyncInv
    <3> HIDE DEF t
    <3>3. CarriesOn(w)'
      BY <3>1, <3>2 DEF CarriesOn
    <3> QED
      BY <1>1, <3>1, <3>3, HandlersOfOthers, CarriedOnByStep
  <2>2. CASE check[w].goal # "IN_PROGRESS"
    <3>1. CheckReturns(w) /\ ~StillOpen
      BY <1>2, <1>4, <2>2 DEF AlreadySaved, StillOpen
    <3> QED
      BY <1>1, <3>1, ReturningIsCarriedOn DEF CheckReturns
  <2> QED
    BY <2>1, <2>2
<1>5. CASE CheckGoto(w, "saving") /\ asyncFresh' = asyncFresh \cup {w}
  <2> DEFINE t == [check[w] EXCEPT !.pc = "saving"]
  <2>1. t \in Checks /\ t.pc = "saving" /\ t.goal = check[w].goal /\ t.handler = check[w].handler
        /\ check' = [check EXCEPT ![w] = t]
    BY <1>1, <1>5 DEF CheckGoto, Checks, AsyncInv, AsyncTypeOK
  <2>2. check'[w] = t
    BY <2>1, OwnTask DEF AsyncInv
  <2> HIDE DEF t
  <2>3. CarriesOn(w)'
    BY <1>5, <2>1, <2>2 DEF CarriesOn
  <2> QED
    BY <1>1, <1>2, <1>5, <2>1, <2>3, HandlersOfOthers, CarriedOnByStep
<1> QED
  BY <1>3, <1>4, <1>5 DEF RefreshRow

LEMMA SaveIsCarriedOn ==
    ASSUME AsyncInv, HandlersFail, CarriedOn, NEW w \in AsyncWorkers, SaveAsyncRow(w)
    PROVE  HandlersFail' /\ CarriedOn'
<1>1. /\ check[w] \in Checks /\ check[w].pc = "saving" /\ UNCHANGED <<asyncQueue, asyncFaults>>
      /\ asyncFaults' \in Nat /\ asyncFaults' >= asyncFaults
  BY TaskTyped, AsyncBounds DEF SaveAsyncRow, AsyncInv, AsyncTypeOK
<1>2. CASE w \notin asyncFresh /\ Raised(w) /\ asyncState' = asyncState
  <2>1. check[w].handler => ~CarriesOn(w)
    BY <1>1, <1>2 DEF CarriesOn
  <2> QED
    BY <1>1, <1>2, <2>1, RaisedIsCarriedOn
<1>3. CASE /\ w \in asyncFresh /\ asyncState' = check[w].goal
           /\ check' = [check EXCEPT ![w] = [NoCheck EXCEPT !.pc = IF check[w].goal = "IN_PROGRESS" THEN "checking" ELSE "acking"]]
  <2>1. check[w].goal \in {"IN_PROGRESS", "COMPLETE", "FAILED"}
    BY <1>1 DEF AsyncInv, TaskAgrees, Writing
  <2>2. PICK pc \in {"checking", "acking"} :
          /\ check' = [check EXCEPT ![w] = [NoCheck EXCEPT !.pc = pc]]
          /\ check[w].goal = "IN_PROGRESS" => pc = "checking"
    BY <1>3
  <2>3. [NoCheck EXCEPT !.pc = pc] \in Checks /\ [NoCheck EXCEPT !.pc = pc].pc = pc /\ ~[NoCheck EXCEPT !.pc = pc].handler
    BY <2>2, NoCheckTyped, NoHandler
  <2>4. check'[w].pc = pc /\ ~check'[w].handler
    BY <2>2, <2>3, OwnTask DEF AsyncInv
  <2>5. StillOpen' => CarriesOn(w)'
    BY <1>3, <2>1, <2>2, <2>4 DEF StillOpen, CarriesOn
  <2>6. HandlersFail'
    BY <2>2, <2>3, HandlersOfOthers
  <2> QED
    BY <2>5, <2>6 DEF CarriedOn
<1> QED
  BY <1>2, <1>3 DEF SaveAsyncRow

LEMMA FaultIsCarriedOn ==
    ASSUME AsyncInv, HandlersFail, CarriedOn, NEW w \in AsyncWorkers, AsyncFault(w)
    PROVE  HandlersFail' /\ CarriedOn'
<1>1. /\ asyncState' = asyncState /\ asyncFaults' \in Nat /\ asyncFaults' >= asyncFaults /\ asyncQueue \in Nat
      /\ StillOpen' => StillOpen
  BY AsyncBounds DEF AsyncFault, AsyncInv, AsyncTypeOK, StillOpen
<1>2. CASE check' = [check EXCEPT ![w] = NoCheck] /\ asyncFresh' = asyncFresh \ {w} /\ asyncQueue' = asyncQueue + 1
  <2>1. asyncQueue' \in Nat /\ asyncQueue' > 0 /\ asyncFresh \ {w} \subseteq asyncFresh'
    BY <1>1, <1>2
  <2>2. PICK t \in {NoCheck, [NoCheck EXCEPT !.pc = "acking"]} : check' = [check EXCEPT ![w] = t]
    BY <1>2
  <2> QED
    BY <1>1, <2>1, <2>2, ReturningIsCarriedOn
<1>3. CASE ~check[w].handler /\ Raised(w) /\ asyncQueue' = asyncQueue
  BY <1>1, <1>3, RaisedIsCarriedOn
<1> QED
  BY <1>2, <1>3 DEF AsyncFault

\* Nobody has to come back to a transcription: whichever workers die, are refused
\* their save or fail once more, a transcription that was begun has a check waiting
\* or a worker that has it in hand, for any number of workers, chunks and faults. A
\* handler that is refused its save is the one worker that gives up, and then the
\* one that has saved the row carries on.
THEOREM AsyncIsLookedAfter == AsyncSpec => []AsyncLookedAfter
<1>1. AsyncInit => HandlersFail /\ CarriedOn
  <2> SUFFICES ASSUME AsyncInit PROVE HandlersFail /\ CarriedOn
    OBVIOUS
  <2>1. \A w \in AsyncWorkers : ~check[w].handler
    BY NoCheckTyped DEF AsyncInit
  <2> QED
    BY <2>1 DEF AsyncInit, HandlersFail, CarriedOn, StillOpen
<1>2. AsyncInv /\ HandlersFail /\ CarriedOn /\ [AsyncNext]_asyncVars => (HandlersFail /\ CarriedOn)'
  <2> SUFFICES ASSUME AsyncInv, HandlersFail, CarriedOn, [AsyncNext]_asyncVars PROVE HandlersFail' /\ CarriedOn'
    OBVIOUS
  <2>1. CASE \E w \in AsyncWorkers : AsyncStep(w) \/ AsyncFault(w)
    BY <2>1, TakenIsCarriedOn, ChecksAreCarriedOn, RefreshIsCarriedOn, SaveIsCarriedOn, FaultIsCarriedOn DEF AsyncStep
  <2>2. CASE RequestTranscription
    <3>1. check' = check /\ (StillOpen' => asyncQueue' > 0)
      <4>1. asyncQueue' = asyncQueue + 1 \/ asyncFaults' = asyncFaults + 1
        BY <2>2 DEF RequestTranscription
      <4>2. asyncQueue \in Nat /\ asyncFaults \in Nat /\ asyncState' = "NOT_STARTED"
        BY <2>2, AsyncBounds DEF RequestTranscription, AsyncInv, AsyncTypeOK
      <4>3. check' = check
        BY <2>2 DEF RequestTranscription
      <4> QED
        BY <4>1, <4>2, <4>3 DEF StillOpen
    <3> QED
      BY <3>1 DEF HandlersFail, Writing, CarriedOn
  <2>3. CASE SettleUtterance \/ DeleteTranscript \/ RunOvertime \/ UNCHANGED asyncVars
    <3>1. UNCHANGED <<asyncState, asyncFaults, asyncQueue, asyncFresh, check>>
      BY <2>3 DEF SettleUtterance, DeleteTranscript, RunOvertime, asyncVars
    <3> QED
      BY <3>1 DEF HandlersFail, Writing, CarriedOn, StillOpen, CarriesOn
  <2> QED
    BY <2>1, <2>2, <2>3 DEF AsyncNext
<1>3. CarriedOn => AsyncLookedAfter
  BY DEF CarriedOn, CarriesOn, StillOpen, AsyncLookedAfter
<1> QED
  BY <1>1, <1>2, <1>3, AsyncInvariant, PTL DEF AsyncSpec

\* The row, the tasks and the counters of an async transcription keep their types.
THEOREM AsyncTypeCorrect == AsyncSpec => []AsyncTypeOK
<1>1. AsyncInv => AsyncTypeOK
  BY DEF AsyncInv
<1> QED
  BY <1>1, AsyncInvariant, PTL
=============================================================================
