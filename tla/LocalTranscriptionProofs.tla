---------------------- MODULE LocalTranscriptionProofs -----------------------
(***************************************************************************)
(* The transcription of a local session, for any number of utterances,     *)
(* workers, retries and deaths. What carries it is that an utterance has   *)
(* one place: it is gathered, or in one group, or it was sent to           *)
(* process_utterance, which then is the only task that writes its row. The *)
(* theorems say so of every behaviour in which no group is delivered again *)
(* whose fallback had begun.                                               *)
(***************************************************************************)
EXTENDS LocalTranscription, TranscriptionProofs, FiniteSetTheorems

\* The tasks of groups and of finalize.
GroupPcs == {"calling", "writing", "falling", "marking", "settling", "refreshing", "saving"}
GoodGroups == {g \in Seq(Utterances) : g # <<>> /\ \A i, j \in DOMAIN g : g[i] = g[j] => i = j}
GoodMessages == [members : GoodGroups, retries : 0 .. MaxGroupAttempts]
RunningGroups == [pc : GroupPcs, message : GoodMessages, at : Nat, answer : Seq(SUBSET Utterances)]

\* What the group and finalize tasks hold; no worker has two tasks.
LocalTyped ==
    /\ gathered \in GoodGroups \cup {<<>>}
    /\ groupQueue \subseteq GoodMessages
    /\ localJob \in [Workers -> RunningGroups \cup FinalizeTasks \cup {NoTask}]
    /\ \A w \in Workers : IsGroup(w) => localJob[w].at \in DOMAIN Members(w)
    /\ \A w \in Workers : job[w].pc = "idle" \/ localJob[w].pc = "idle"
    /\ flushed \in BOOLEAN /\ replayed \in BOOLEAN /\ alone \subseteq Utterances

NobodyElse == asks = 0 /\ bot = IdleBot /\ \A r \in Requests : ask[r] = NoAsk

\* The recording ends after the last drain, and only then is the transcription completed.
ClosingInv ==
    /\ ~flushed => recState = "IN_PROGRESS"
    /\ \A w \in Workers :
         /\ localJob[w].pc \in {"closing", "closed", "counting"} => flushed
         /\ localJob[w].pc \in {"counting", "refreshing", "saving"} => Terminal(recState)
         /\ localJob[w].pc = "saving" /\ w \in fresh => trState = "IN_PROGRESS"

\* What is gathered or in a group has been cut.
GroupsCut ==
    /\ \A u \in Range(gathered) : status[u] # "none"
    /\ \A m \in groupQueue : \A u \in Range(m.members) : status[u] # "none"
    /\ \A w \in Workers : IsGroup(w) => \A u \in Range(Members(w)) : status[u] # "none"

LocalStateInv == StateInv /\ LocalTyped /\ NobodyElse /\ ClosingInv /\ GroupsCut

\* An utterance is gathered, or in one group, or it has been sent on its own.
Held(w) == IF IsGroup(w) THEN Range(Members(w)) ELSE {}
Apart(s, t) == s \cap t = {}
OnePlace ==
    /\ \A m \in groupQueue : Apart(Range(m.members), Range(gathered))
    /\ \A m, n \in groupQueue : m # n => Apart(Range(m.members), Range(n.members))
    /\ \A w \in Workers : Apart(Held(w), Range(gathered))
    /\ \A w \in Workers, m \in groupQueue : Apart(Held(w), Range(m.members))
    /\ \A v, w \in Workers : v # w => Apart(Held(v), Held(w))

AloneAgrees(u) ==
    /\ Sent(u) => u \in alone
    /\ u \in alone => status[u] # "none" /\ (status[u] = "pending" => Sent(u))

\* What a group's task has done to its rows, and still is so.
MembersAgree(task) ==
    /\ task.pc = "calling" => task.at = 1
    /\ \A i \in DOMAIN task.message.members : LET u == task.message.members[i] IN
         /\ task.pc = "falling" /\ i < task.at => u \in alone
         /\ (task.pc = "falling" => task.at <= i) => u \notin alone
         /\ task.pc = "writing" /\ i < task.at => status[u] = "text"
         /\ task.pc \in {"marking", "settling", "refreshing", "saving"} => status[u] = "text"
GroupAgrees(w) == IsGroup(w) => MembersAgree(localJob[w])

Placed(u) ==
    \/ u \in Range(gathered)
    \/ \E m \in groupQueue : u \in Range(m.members)
    \/ \E w \in Workers : u \in Held(w)

LocalCountInv ==
    CountInv /\ \A w \in Workers : localJob[w].pc \in {"refreshing", "saving"} => Untranscribed = {}

OneWriter ==
    /\ OneTaskEach
    /\ \A u \in Utterances : WaiterAgrees(u, FALSE) /\ AloneAgrees(u)
    /\ \A w \in Workers : TaskOfWaiter(w, FALSE) /\ GroupAgrees(w)
    /\ OnePlace
    /\ \A u \in Range(gathered) : u \notin alone
    /\ \A u \in Utterances : status[u] = "pending" /\ u \notin alone => Placed(u)

LocalInv == LocalStateInv /\ (~replayed => OneWriter /\ LocalCountInv)

\* While no worker has died, what is not sent on its own still has its audio, and a
\* group was written as a whole or not at all.
Pending(g) == \A u \in Range(g) : status[u] = "pending"
Undisturbed ==
    /\ ~replayed
    /\ words = [u \in Utterances |-> words[u]]
    /\ \A u \in Utterances :
         /\ status[u] # "text" => words[u] = {}
         /\ status[u] \in {"none", "pending"} /\ u \notin alone => audio[u] = "kept"
    /\ Pending(gathered)
    /\ \A m \in groupQueue :
         /\ Apart(Range(m.members), alone)
         /\ Pending(m.members) \/ \A u \in Range(m.members) : status[u] = "text"
    /\ \A w \in Workers : IsGroup(w) =>
         /\ localJob[w].pc = "calling" => Pending(Members(w))
         /\ localJob[w].pc = "writing" =>
              \A i \in DOMAIN Members(w) : localJob[w].at <= i => Members(w)[i] \in localJob[w].answer[i]
HeardInv == LocalInv /\ (crashes = 0 => Undisturbed)

-----------------------------------------------------------------------------
\* A group that runs is typed as one; a finalize or no task is told from it.
LEMMA RunningGroup ==
    ASSUME LocalTyped, NEW w \in Workers, IsGroup(w)
    PROVE  /\ localJob[w] \in RunningGroups
           /\ localJob[w].pc \in GroupPcs
           /\ localJob[w].message \in GoodMessages
           /\ Members(w) \in GoodGroups
           /\ localJob[w].at \in DOMAIN Members(w)
           /\ job[w].pc = "idle"
<1>1. localJob[w] \in RunningGroups \cup FinalizeTasks \cup {NoTask}
  BY DEF LocalTyped
<1>2. localJob[w] \in RunningGroups
  BY <1>1 DEF IsGroup, IsFinalize, NoTask
<1>3. localJob[w].pc \in GroupPcs /\ localJob[w].message \in GoodMessages
  BY <1>2 DEF RunningGroups
<1>4. localJob[w].message.members \in GoodGroups
  BY <1>3 DEF GoodMessages
<1> QED
  BY <1>2, <1>3, <1>4 DEF LocalTyped, Members, IsGroup

LEMMA GroupsAreSequences ==
    ASSUME NEW g \in GoodGroups
    PROVE  /\ g \in Seq(Utterances) /\ Len(g) \in Nat \ {0} /\ DOMAIN g = 1 .. Len(g)
           /\ Range(g) \subseteq Utterances /\ Range(g) # {}
           /\ \A i, j \in DOMAIN g : g[i] = g[j] => i = j
           /\ \A i \in DOMAIN g : g[i] \in Utterances /\ g[i] \in Range(g)
<1>1. g \in Seq(Utterances) /\ g # <<>> /\ \A i, j \in DOMAIN g : g[i] = g[j] => i = j
  BY DEF GoodGroups
<1>2. Len(g) \in Nat \ {0} /\ DOMAIN g = 1 .. Len(g)
  BY <1>1
<1>3. \A i \in DOMAIN g : g[i] \in Utterances /\ g[i] \in Range(g)
  BY <1>1 DEF Range
<1>4. 1 \in DOMAIN g
  BY <1>2
<1> QED
  BY <1>1, <1>2, <1>3, <1>4 DEF Range

\* The tasks a group goes on with.
LEMMA GroupExcept ==
    ASSUME NEW task \in RunningGroups
    PROVE  /\ \A pc \in GroupPcs : LET next == [task EXCEPT !.pc = pc] IN
                /\ next \in RunningGroups /\ next.pc = pc
                /\ next.message = task.message /\ next.at = task.at /\ next.answer = task.answer
           /\ \A at \in Nat : LET next == [task EXCEPT !.at = at] IN
                /\ next \in RunningGroups /\ next.pc = task.pc
                /\ next.message = task.message /\ next.at = at /\ next.answer = task.answer
           /\ \A answer \in Seq(SUBSET Utterances) :
                LET next == [task EXCEPT !.pc = "writing", !.answer = answer] IN
                /\ next \in RunningGroups /\ next.pc = "writing"
                /\ next.message = task.message /\ next.at = task.at /\ next.answer = answer
<1>1. \A pc \in GroupPcs : [task EXCEPT !.pc = pc] \in RunningGroups
  BY DEF RunningGroups
<1>2. \A at \in Nat : [task EXCEPT !.at = at] \in RunningGroups
  BY DEF RunningGroups
<1>3. \A answer \in Seq(SUBSET Utterances) : [task EXCEPT !.pc = "writing", !.answer = answer] \in RunningGroups
  BY DEF RunningGroups, GroupPcs
<1> QED
  BY <1>1, <1>2, <1>3 DEF RunningGroups

\* What the tasks hold after one worker's has changed.
Turns(w, next) ==
    /\ localJob' = [localJob EXCEPT ![w] = next]
    /\ next \in RunningGroups \cup FinalizeTasks \cup {NoTask}
    /\ next \in FinalizeTasks \cup {NoTask} \/ next.at \in DOMAIN next.message.members

LEMMA TurnsTyped ==
    ASSUME LocalTyped, NEW w \in Workers, NEW next, Turns(w, next), UNCHANGED job,
           next.pc = "idle" \/ job[w].pc = "idle"
    PROVE  /\ localJob' \in [Workers -> RunningGroups \cup FinalizeTasks \cup {NoTask}]
           /\ \A v \in Workers : IsGroup(v)' => localJob'[v].at \in DOMAIN localJob'[v].message.members
           /\ \A v \in Workers : job'[v].pc = "idle" \/ localJob'[v].pc = "idle"
           /\ localJob'[w] = next
           /\ \A v \in Workers \ {w} : localJob'[v] = localJob[v] /\ (IsGroup(v)' <=> IsGroup(v))
<1>1. /\ localJob' \in [Workers -> RunningGroups \cup FinalizeTasks \cup {NoTask}]
      /\ localJob'[w] = next
      /\ \A v \in Workers \ {w} : localJob'[v] = localJob[v]
  BY DEF Turns, LocalTyped
<1>2. \A v \in Workers \ {w} : IsGroup(v)' <=> IsGroup(v)
  BY <1>1 DEF IsGroup, IsFinalize
<1>3. IsGroup(w)' => next.at \in DOMAIN next.message.members
  BY <1>1 DEF Turns, IsGroup, IsFinalize, NoTask
<1>4. \A v \in Workers \ {w} : IsGroup(v) => localJob[v].at \in DOMAIN localJob[v].message.members
  BY DEF LocalTyped, Members
<1> QED
  BY <1>1, <1>2, <1>3, <1>4 DEF LocalTyped

\* The message of a group, put back to be delivered again.
LEMMA PutBackTyped ==
    ASSUME LocalTyped, NEW w \in Workers, LocalRaise(w), localJob[w].pc # "idle"
    PROVE  /\ groupQueue' \subseteq GoodMessages
           /\ \/ groupQueue' = groupQueue
              \/ /\ IsGroup(w)
                 /\ \E m \in GoodMessages : m.members = Members(w) /\ groupQueue' = groupQueue \cup {m}
<1>1. CASE IsFinalize(w)
  BY <1>1 DEF LocalRaise, LocalTyped
<1>2. CASE ~IsFinalize(w)
  <2>1. IsGroup(w)
    BY <1>2 DEF IsGroup
  <2> DEFINE m == localJob[w].message
             again == [m EXCEPT !.retries = @ + 1]
  <2>2. m \in GoodMessages
    BY <2>1, RunningGroup
  <2>3. CASE m.retries < MaxGroupAttempts
    <3>1. again \in GoodMessages /\ again.members = m.members
      BY <2>2, <2>3, LocalBounds DEF GoodMessages
    <3>2. groupQueue' = groupQueue \cup {again}
      BY <1>2, <2>3 DEF LocalRaise
    <3> QED
      BY <2>1, <3>1, <3>2 DEF LocalTyped, Members
  <2>4. CASE ~(m.retries < MaxGroupAttempts)
    BY <1>2, <2>4 DEF LocalRaise, LocalTyped
  <2> QED
    BY <2>3, <2>4
<1> QED
  BY <1>1, <1>2

LEMMA LeavingTurns == ASSUME NEW w \in Workers, Leave(w) PROVE Turns(w, NoTask) /\ NoTask.pc = "idle"
  BY DEF Leave, Turns, NoTask

LEMMA GroupStepTurns ==
    ASSUME LocalTyped, NEW w \in Workers, IsGroup(w), NEW pc \in GroupPcs, Step(w, pc)
    PROVE  LET next == [localJob[w] EXCEPT !.pc = pc] IN
           /\ Turns(w, next)
           /\ next.pc = pc /\ next.message = localJob[w].message /\ next.at = localJob[w].at
           /\ next.answer = localJob[w].answer
<1> DEFINE next == [localJob[w] EXCEPT !.pc = pc]
<1>1. /\ next \in RunningGroups /\ next.pc = pc
      /\ next.message = localJob[w].message /\ next.at = localJob[w].at /\ next.answer = localJob[w].answer
  BY RunningGroup, GroupExcept
<1>2. localJob' = [localJob EXCEPT ![w] = next]
  BY DEF Step, LocalTyped
<1>3. next.at \in DOMAIN next.message.members
  BY <1>1, RunningGroup DEF Members
<1> QED
  BY <1>1, <1>2, <1>3 DEF Turns

LEMMA FinalizeStepTurns ==
    ASSUME LocalTyped, NEW w \in Workers, IsFinalize(w),
           NEW pc \in {"closing", "closed", "counting", "refreshing", "saving"}, Step(w, pc)
    PROVE  LET next == [localJob[w] EXCEPT !.pc = pc] IN
           /\ Turns(w, next) /\ next \in FinalizeTasks /\ next.pc = pc
<1> DEFINE next == [localJob[w] EXCEPT !.pc = pc]
<1>1. next \in FinalizeTasks /\ next.pc = pc
  BY DEF IsFinalize, FinalizeTasks
<1>2. localJob' = [localJob EXCEPT ![w] = next]
  BY DEF Step, LocalTyped
<1> QED
  BY <1>1, <1>2 DEF Turns

\* process_utterance is at work on one row, and makes no row undone.
LEMMA WorkerAlone ==
    ASSUME StateInv, NEW w \in Workers, ProcessUtterance(w) \/ Crash(w)
    PROVE  /\ recState' = recState
           /\ \A v \in Workers \ {w} : job'[v] = job[v]
           /\ \A u \in Utterances : status[u] # "none" => status'[u] # "none"
           /\ \/ trState' = trState /\ fresh' \subseteq fresh \cup {w}
              \/ fresh' = {}
           /\ Crash(w) => job[w].pc # "idle"
<1> USE DEF recording, utterances, counters
<1>1. TypeOK
  BY DEF StateInv
<1>2. recState' = recState
  BY DEF ProcessUtterance, Deliver, Transcribed, RetryableFailure, PermanentFailure, Check,
         Refresh, SaveRecording, SaveConflict, Crash
<1>3. \A v \in Workers \ {w} : job'[v] = job[v]
  BY <1>1 DEF TypeOK, ProcessUtterance, Deliver, Transcribed, RetryableFailure, PermanentFailure,
         Check, Refresh, SaveRecording, SaveConflict, Crash, Return, Raise, Goto
<1>4. ASSUME NEW u \in Utterances, status[u] # "none" PROVE status'[u] # "none"
  BY <1>1, <1>4 DEF TypeOK, Write, ProcessUtterance, Deliver, Transcribed, RetryableFailure,
         PermanentFailure, Check, Refresh, SaveRecording, SaveConflict, Crash
<1>5. \/ trState' = trState /\ fresh' \subseteq fresh \cup {w}
      \/ fresh' = {}
  BY DEF Save, ProcessUtterance, Deliver, Transcribed, RetryableFailure, PermanentFailure, Check,
         Refresh, SaveRecording, SaveConflict, Crash
<1> QED
  BY <1>2, <1>3, <1>4, <1>5 DEF Crash

\* A step that gives the recording's row, the utterances and the tasks of
\* process_utterance no other values.
LEMMA SameRecordingState ==
    ASSUME StateInv, UNCHANGED vars
    PROVE  StateInv'
<1>1. [Next]_vars
  OBVIOUS
<1> QED
  BY <1>1, StateStep

LEMMA UtteranceStateStep ==
    ASSUME LocalStateInv, NEW w \in Workers, localJob[w].pc = "idle",
           ProcessUtterance(w) \/ Crash(w),
           UNCHANGED <<gathered, groupQueue, localJob, flushed, alone, replayed>>
    PROVE  LocalStateInv'
<1>1. StateInv /\ StateInv'
  BY WorkerStateStep DEF LocalStateInv
<1>2. LocalTyped'
  <2>1. \A v \in Workers : job'[v].pc = "idle" \/ localJob'[v].pc = "idle"
    BY <1>1, WorkerAlone DEF LocalStateInv, LocalTyped
  <2>2. \A v \in Workers : IsGroup(v)' => localJob'[v].at \in DOMAIN localJob'[v].message.members
    BY DEF LocalStateInv, LocalTyped, IsGroup, IsFinalize, Members
  <2> QED
    BY <2>1, <2>2 DEF LocalStateInv, LocalTyped, Members
<1>3. NobodyElse'
  BY WorkerKeepsRest DEF LocalStateInv, NobodyElse
<1>4. ClosingInv'
  BY <1>1, WorkerAlone DEF LocalStateInv, ClosingInv, Terminal
<1>5. GroupsCut'
  <2>1. /\ \A u \in Range(gathered) : u \in Utterances
        /\ \A m \in groupQueue : m.members \in GoodGroups
        /\ \A v \in Workers : IsGroup(v) => Members(v) \in GoodGroups
    BY RunningGroup DEF LocalStateInv, LocalTyped, GoodMessages, GoodGroups, Range
  <2>2. \A u \in Utterances : status[u] # "none" => status'[u] # "none"
    BY <1>1, WorkerAlone
  <2>3. \A v \in Workers : IsGroup(v)' => IsGroup(v) /\ localJob'[v].message.members = Members(v)
    BY DEF IsGroup, IsFinalize, Members
  <2> QED
    BY <2>1, <2>2, <2>3, GroupsAreSequences DEF LocalStateInv, GroupsCut, Members
<1> QED
  BY <1>1, <1>2, <1>3, <1>4, <1>5 DEF LocalStateInv

\* What makes a step of a group's or of finalize's task keep the state.
LEMMA TurnKeepsState ==
    ASSUME LocalStateInv, NEW w \in Workers, NEW next, Turns(w, next),
           job[w].pc = "idle" \/ next.pc = "idle", UNCHANGED <<job, bot, asks, ask>>, StateInv',
           groupQueue' \subseteq GoodMessages, gathered' \in {gathered, <<>>},
           flushed' \in BOOLEAN, replayed' \in BOOLEAN, alone' \subseteq Utterances,
           flushed => flushed', recState' = recState \/ (flushed' /\ Terminal(recState')),
           \/ trState' = trState /\ fresh' \subseteq fresh \cup {w}
           \/ fresh' = {},
           next.pc \in {"closing", "closed", "counting"} => flushed',
           next.pc \in {"counting", "refreshing", "saving"} => Terminal(recState'),
           next.pc = "saving" /\ w \in fresh' => trState' = "IN_PROGRESS",
           \A u \in Utterances : status[u] # "none" => status'[u] # "none",
           \A m \in groupQueue' : m \in groupQueue \/ \A u \in Range(m.members) : status[u] # "none",
           next \in RunningGroups => \A u \in Range(next.message.members) : status[u] # "none"
    PROVE  LocalStateInv'
<1> USE DEF LocalStateInv
<1>1. /\ localJob' \in [Workers -> RunningGroups \cup FinalizeTasks \cup {NoTask}]
      /\ \A v \in Workers : IsGroup(v)' => localJob'[v].at \in DOMAIN localJob'[v].message.members
      /\ \A v \in Workers : job'[v].pc = "idle" \/ localJob'[v].pc = "idle"
      /\ localJob'[w] = next
      /\ \A v \in Workers \ {w} : localJob'[v] = localJob[v] /\ (IsGroup(v)' <=> IsGroup(v))
  BY TurnsTyped
<1>2. LocalTyped'
  BY <1>1 DEF LocalTyped, Members
<1>3. NobodyElse'
  BY DEF NobodyElse
<1>4. ClosingInv'
  <2>1. ~flushed' => recState' = "IN_PROGRESS"
    BY DEF ClosingInv
  <2>2. ASSUME NEW v \in Workers \ {w}
        PROVE  /\ localJob'[v].pc \in {"closing", "closed", "counting"} => flushed'
               /\ localJob'[v].pc \in {"counting", "refreshing", "saving"} => Terminal(recState')
               /\ localJob'[v].pc = "saving" /\ v \in fresh' => trState' = "IN_PROGRESS"
    BY <1>1 DEF ClosingInv
  <2> QED
    BY <1>1, <2>1, <2>2 DEF ClosingInv
<1>5. GroupsCut'
  <2>1. /\ \A u \in Range(gathered) : u \in Utterances
        /\ \A m \in groupQueue' : Range(m.members) \subseteq Utterances
        /\ \A v \in Workers : IsGroup(v)' => Range(localJob'[v].message.members) \subseteq Utterances
    <3>1. \A u \in Range(gathered) : u \in Utterances
      BY DEF LocalTyped, GoodGroups, Range
    <3>2. \A m \in groupQueue' : Range(m.members) \subseteq Utterances
      BY GroupsAreSequences DEF GoodMessages
    <3>3. ASSUME NEW v \in Workers, IsGroup(v)'
          PROVE  Range(localJob'[v].message.members) \subseteq Utterances
      <4>1. localJob'[v] \in RunningGroups
        BY <1>1, <3>3 DEF IsGroup, IsFinalize, NoTask
      <4>2. localJob'[v].message.members \in GoodGroups
        BY <4>1 DEF RunningGroups, GoodMessages
      <4> QED
        BY <4>2, GroupsAreSequences
    <3> QED
      BY <3>1, <3>2, <3>3
  <2>2. \A u \in Range(gathered') : status'[u] # "none"
    BY <2>1 DEF GroupsCut, Range
  <2>3. \A m \in groupQueue' : \A u \in Range(m.members) : status'[u] # "none"
    BY <2>1 DEF GroupsCut
  <2>4. ASSUME NEW v \in Workers, IsGroup(v)', NEW u \in Range(localJob'[v].message.members)
        PROVE  status'[u] # "none"
    <3>1. CASE v = w
      <4>1. next \in RunningGroups
        BY <1>1, <2>4, <3>1 DEF IsGroup, IsFinalize, NoTask
      <4> QED
        BY <1>1, <2>1, <2>4, <3>1, <4>1
    <3>2. CASE v # w
      BY <1>1, <2>1, <2>4, <3>2 DEF GroupsCut, Members
    <3> QED
      BY <3>1, <3>2
  <2> QED
    BY <2>2, <2>3, <2>4 DEF GroupsCut, Members
<1> QED
  BY <1>2, <1>3, <1>4, <1>5

\* The drains: a cut, a group that is sent, a session that is stopped.
LEMMA DrainStateStep ==
    ASSUME LocalStateInv, (\E u \in Utterances : LocalCut(u)) \/ DispatchGroup \/ Stop
    PROVE  LocalStateInv'
<1> USE DEF LocalStateInv
<1>1. ASSUME NEW u \in Utterances, LocalCut(u) PROVE LocalStateInv'
  <2> USE <1>1 DEF LocalCut, botAndRetry, history
  <2>1. recState = "IN_PROGRESS" /\ trState \in {"NOT_STARTED", "IN_PROGRESS"}
    BY DEF ClosingInv, StateInv, MeetingInv
  <2>2. status'[u] = "pending" /\ \A x \in Utterances \ {u} : status'[x] = status[x]
    BY DEF StateInv, TypeOK
  <2>3. StateInv'
    <3>1. TypeOK'
      <4>1. status' \in [Utterances -> {"none", "pending", "text", "failed"}]
        BY DEF StateInv, TypeOK
      <4>2. fresh' \subseteq Workers \cup Requests
        BY DEF StateInv, TypeOK
      <4> QED
        BY <4>1, <4>2 DEF StateInv, TypeOK, TranscriptionStates
    <3>2. AttemptsInv'
      BY <2>2 DEF StateInv, AttemptsInv
    <3>3. MeetingInv'
      BY <2>1 DEF StateInv, MeetingInv
    <3>4. CopyInv'
      BY DEF StateInv, CopyInv
    <3> QED
      BY <3>1, <3>2, <3>3, <3>4 DEF StateInv
  <2>4. gathered \in Seq(Utterances) /\ \A i, j \in DOMAIN gathered : gathered[i] = gathered[j] => i = j
    <3>1. CASE gathered \in GoodGroups
      BY <3>1 DEF GoodGroups
    <3>2. CASE gathered = <<>>
      BY <3>2
    <3> QED
      BY <3>1, <3>2 DEF LocalTyped
  <2>5. \A i \in DOMAIN gathered : gathered[i] # u
    BY DEF GroupsCut, Range
  <2>6. /\ gathered' \in Seq(Utterances) /\ gathered' # <<>>
        /\ \A i, j \in DOMAIN gathered' : gathered'[i] = gathered'[j] => i = j
        /\ \A i \in DOMAIN gathered' : gathered'[i] = u \/ (\E j \in DOMAIN gathered : gathered'[i] = gathered[j])
    BY <2>4, <2>5
  <2>7. LocalTyped'
    <3>1. gathered' \in GoodGroups
      BY <2>6 DEF GoodGroups
    <3>2. \A v \in Workers : IsGroup(v)' <=> IsGroup(v)
      BY DEF IsGroup, IsFinalize
    <3> QED
      BY <3>1, <3>2 DEF LocalTyped, Members
  <2>8. NobodyElse'
    BY DEF NobodyElse
  <2>9. ClosingInv'
    BY <2>1 DEF ClosingInv, Terminal, TerminalStates
  <2>10. GroupsCut'
    <3>1. \A x \in Range(gathered') : x = u \/ x \in Range(gathered) \cap Utterances
      BY <2>4, <2>6 DEF Range
    <3>2. /\ \A m \in groupQueue : Range(m.members) \subseteq Utterances
          /\ \A v \in Workers : IsGroup(v) => Range(Members(v)) \subseteq Utterances
      BY RunningGroup, GroupsAreSequences DEF LocalTyped, GoodMessages
    <3>3. \A x \in Utterances : status[x] # "none" => status'[x] # "none"
      BY <2>2
    <3>4. \A v \in Workers : IsGroup(v)' => IsGroup(v) /\ localJob'[v].message.members = Members(v)
      BY DEF IsGroup, IsFinalize, Members
    <3> QED
      BY <2>2, <3>1, <3>2, <3>3, <3>4 DEF GroupsCut, Members
  <2> QED
    BY <2>3, <2>7, <2>8, <2>9, <2>10
<1>2. ASSUME DispatchGroup \/ Stop PROVE LocalStateInv'
  <2> USE <1>2 DEF history
  <2>1. UNCHANGED <<vars, localJob, flushed, alone, replayed>>
    BY DEF DispatchGroup, Stop
  <2>2. StateInv' /\ NobodyElse' /\ ClosingInv'
    BY <2>1, SameRecordingState DEF NobodyElse, ClosingInv, vars, recording, counters, Terminal
  <2>3. /\ gathered' \in {gathered, <<>>}
        /\ \A m \in groupQueue' : m \in groupQueue \/ (m.members = gathered /\ m \in GoodMessages)
    <3>1. CASE Stop
      BY <3>1 DEF Stop
    <3>2. CASE DispatchGroup
      <4> DEFINE m == [members |-> gathered, retries |-> 0]
      <4>1. m \in GoodMessages /\ m.members = gathered
        BY <3>2, LocalBounds DEF DispatchGroup, LocalTyped, GoodMessages
      <4>2. groupQueue' = groupQueue \cup {m} /\ gathered' = <<>>
        BY <3>2 DEF DispatchGroup, Send1
      <4> HIDE DEF m
      <4> QED
        BY <4>1, <4>2
    <3> QED
      BY <1>2, <3>1, <3>2
  <2>4. \A v \in Workers : (IsGroup(v)' <=> IsGroup(v)) /\ (IsGroup(v) => localJob'[v].message.members = Members(v))
    BY <2>1 DEF IsGroup, IsFinalize, Members
  <2>5. LocalTyped'
    <3>1. groupQueue' \subseteq GoodMessages /\ gathered' \in GoodGroups \cup {<<>>}
      BY <2>3 DEF LocalTyped
    <3> QED
      BY <2>1, <2>4, <3>1 DEF LocalTyped, Members, vars
  <2>6. GroupsCut'
    <3>1. status' = status
      BY <2>1 DEF vars, utterances
    <3>2. \A x \in Range(gathered') : x \in Range(gathered)
      BY <2>3 DEF Range
    <3> QED
      BY <2>3, <2>4, <3>1, <3>2 DEF GroupsCut, Members
  <2> QED
    BY <2>2, <2>5, <2>6
<1> QED
  BY <1>1, <1>2

\* What makes a step of a group's or of finalize's task keep the recording's state.
LEMMA OutsideKeepsState ==
    ASSUME StateInv, NobodyElse, NEW w \in Workers, job[w].pc = "idle",
           UNCHANGED <<job, bot, ask, asks, attempts>>,
           queue' \in [Messages -> Nat], audio' \in [Utterances -> {"kept", "cleared", "gone"}],
           status' \in [Utterances -> {"none", "pending", "text", "failed"}],
           \A u \in Utterances : status'[u] = status[u] \/ status'[u] = "text",
           crashes' \in 0 .. MaxCrashes,
           recState' = recState \/ recState' \in TerminalStates,
           recState' = "IN_PROGRESS" => trState' = trState,
           fresh' \subseteq fresh \cup {w},
           trState' = trState \/ (trState' = "COMPLETE" /\ fresh' = {})
    PROVE  StateInv'
<1> USE DEF StateInv
<1>1. TypeOK'
  <2>1. recState' \in {"IN_PROGRESS"} \cup TerminalStates /\ trState' \in TranscriptionStates
    BY DEF TypeOK, TranscriptionStates
  <2>2. fresh' \subseteq Workers \cup Requests
    BY DEF TypeOK
  <2> QED
    BY <2>1, <2>2 DEF TypeOK
<1>2. AttemptsInv'
  BY DEF AttemptsInv
<1>3. MeetingInv'
  BY DEF MeetingInv, NobodyElse, IdleBot, NoAsk, Terminal, TerminalStates
<1>4. CopyInv'
  BY DEF CopyInv, NobodyElse, NoAsk
<1> QED
  BY <1>1, <1>2, <1>3, <1>4

\* A group goes on to its next member.
LEMMA NextMemberTurns ==
    ASSUME LocalTyped, NEW w \in Workers, IsGroup(w), NEW at, at = localJob[w].at,
           at # Len(Members(w)), localJob' = [localJob EXCEPT ![w].at = at + 1]
    PROVE  LET next == [localJob[w] EXCEPT !.at = at + 1] IN
           /\ Turns(w, next) /\ next \in RunningGroups
           /\ next.pc = localJob[w].pc /\ next.message = localJob[w].message /\ next.at = at + 1
           /\ next.answer = localJob[w].answer
<1> DEFINE next == [localJob[w] EXCEPT !.at = at + 1]
<1>1. /\ localJob[w] \in RunningGroups /\ Members(w) \in GoodGroups
      /\ at \in DOMAIN Members(w) /\ localJob[w].message.members = Members(w)
  BY RunningGroup DEF Members
<1>2. at + 1 \in Nat /\ at + 1 \in DOMAIN Members(w)
  BY <1>1, GroupsAreSequences
<1>3. /\ next \in RunningGroups /\ next.pc = localJob[w].pc /\ next.message = localJob[w].message
      /\ next.at = at + 1 /\ next.answer = localJob[w].answer
  <2>1. localJob[w] \in RunningGroups /\ at + 1 \in Nat
    BY <1>1, <1>2
  <2> QED
    BY <2>1 DEF RunningGroups
<1>4. localJob' = [localJob EXCEPT ![w] = next]
  BY DEF LocalTyped
<1> HIDE DEF next
<1>5. Turns(w, next)
  BY <1>1, <1>2, <1>3, <1>4 DEF Turns
<1> QED
  BY <1>3, <1>5 DEF next

\* The provider's answer is one set of words for each member of the group.
LEMMA AnswerTurns ==
    ASSUME LocalTyped, NEW w \in Workers, IsGroup(w), NEW h \in Lands(Members(w)),
           localJob' = [localJob EXCEPT ![w].pc = "writing", ![w].answer = h]
    PROVE  LET next == [localJob[w] EXCEPT !.pc = "writing", !.answer = h] IN
           /\ Turns(w, next) /\ next \in RunningGroups /\ next.pc = "writing"
           /\ next.message = localJob[w].message /\ next.at = localJob[w].at /\ next.answer = h
<1> DEFINE next == [localJob[w] EXCEPT !.pc = "writing", !.answer = h]
<1>1. /\ localJob[w] \in RunningGroups /\ Members(w) \in GoodGroups
      /\ localJob[w].at \in DOMAIN Members(w) /\ localJob[w].message.members = Members(w)
  BY RunningGroup DEF Members
<1>2. h \in Seq(SUBSET Utterances)
  <2>1. h \in [DOMAIN Members(w) -> SUBSET {Members(w)[i] : i \in {i \in DOMAIN Members(w) : audio[Members(w)[i]] = "kept"}}]
    BY DEF Lands
  <2>2. DOMAIN Members(w) = 1 .. Len(Members(w)) /\ Len(Members(w)) \in Nat
        /\ \A i \in DOMAIN Members(w) : Members(w)[i] \in Utterances
    BY <1>1, GroupsAreSequences
  <2>3. h \in [1 .. Len(Members(w)) -> SUBSET Utterances]
    BY <2>1, <2>2
  <2> QED
    BY <2>2, <2>3
<1>3. /\ next \in RunningGroups /\ next.pc = "writing" /\ next.message = localJob[w].message
      /\ next.at = localJob[w].at /\ next.answer = h
  <2>1. localJob[w] \in RunningGroups
    BY <1>1
  <2> QED
    BY <1>2, <2>1, GroupExcept
<1>4. localJob' = [localJob EXCEPT ![w] = next]
  BY DEF LocalTyped
<1> HIDE DEF next
<1>5. Turns(w, next)
  BY <1>1, <1>3, <1>4 DEF Turns
<1> QED
  BY <1>3, <1>5 DEF next

\* A group's or finalize's task fails: it goes back to the queue, or is dropped.
LEMMA RaiseStateStep ==
    ASSUME LocalStateInv, NEW w \in Workers, localJob[w].pc # "idle", LocalRaise(w),
           UNCHANGED <<vars, gathered, flushed, alone, replayed>>
    PROVE  LocalStateInv'
<1> USE DEF LocalStateInv
<1>1. Turns(w, NoTask) /\ NoTask.pc = "idle" /\ NoTask \notin RunningGroups
  BY LeavingTurns DEF LocalRaise, NoTask, RunningGroups, GroupPcs
<1>2. StateInv' /\ UNCHANGED <<recState, trState, fresh, status, job, bot, ask, asks>>
  BY SameRecordingState DEF vars, recording, utterances, counters
<1>3. /\ groupQueue' \subseteq GoodMessages
      /\ \/ groupQueue' = groupQueue
         \/ /\ IsGroup(w)
            /\ \E m \in GoodMessages : m.members = Members(w) /\ groupQueue' = groupQueue \cup {m}
  BY PutBackTyped
<1>4. \A m \in groupQueue' : m \in groupQueue \/ \A u \in Range(m.members) : status[u] # "none"
  BY <1>3 DEF GroupsCut
<1>5. flushed' \in BOOLEAN /\ replayed' \in BOOLEAN /\ alone' \subseteq Utterances
  BY DEF LocalTyped
<1> HIDE DEF LocalStateInv
<1> QED
  BY <1>1, <1>2, <1>3, <1>4, <1>5, TurnKeepsState

\* The groups: each step is typed, and its rows have been cut.
LEMMA GroupStateStep ==
    ASSUME LocalStateInv, NEW w \in Workers, Group(w)
    PROVE  LocalStateInv'
<1>1. /\ StateInv /\ LocalTyped /\ NobodyElse /\ ClosingInv /\ GroupsCut /\ TypeOK
      /\ flushed \in BOOLEAN /\ replayed \in BOOLEAN /\ alone \subseteq Utterances
      /\ groupQueue \subseteq GoodMessages
  BY DEF LocalStateInv, LocalTyped, StateInv
<1>2. ASSUME NEW m \in groupQueue, GroupDeliver(w, m) PROVE LocalStateInv'
  <2> USE <1>2 DEF GroupDeliver
  <2> DEFINE next == [pc |-> IF \A u \in Range(m.members) : status[u] = "text" THEN "settling" ELSE "calling",
                      message |-> m, at |-> 1, answer |-> <<>>]
  <2>1. m \in GoodMessages /\ m.members \in GoodGroups
    BY <1>1 DEF GoodMessages
  <2>2. next \in RunningGroups
    BY <2>1 DEF RunningGroups, GroupPcs
  <2>3. next.pc \in {"settling", "calling"} /\ next.message = m /\ next.at = 1
    OBVIOUS
  <2>4. localJob' = [localJob EXCEPT ![w] = next]
    OBVIOUS
  <2> HIDE DEF next
  <2>5. Turns(w, next)
    <3>1. 1 \in DOMAIN m.members
      BY <2>1, GroupsAreSequences
    <3> QED
      BY <2>2, <2>3, <2>4, <3>1 DEF Turns
  <2>6. StateInv' /\ UNCHANGED <<recState, trState, fresh, status, job, bot, ask, asks>>
    BY <1>1, SameRecordingState DEF vars, recording, utterances, counters
  <2>7. \A u \in Range(next.message.members) : status[u] # "none"
    BY <1>1, <2>3 DEF GroupsCut
  <2>8. groupQueue' \subseteq groupQueue /\ replayed' \in BOOLEAN /\ job[w].pc = "idle"
    BY <1>1 DEF Free
  <2> QED
    BY <1>1, <2>3, <2>5, <2>6, <2>7, <2>8, TurnKeepsState
<1>3. ASSUME IsGroup(w)
      PROVE  /\ localJob[w] \in RunningGroups /\ localJob[w].pc \in GroupPcs
             /\ Members(w) \in GoodGroups /\ localJob[w].at \in DOMAIN Members(w)
             /\ job[w].pc = "idle" /\ localJob[w].pc # "idle"
             /\ localJob[w].message.members = Members(w)
             /\ \A u \in Range(Members(w)) : status[u] # "none"
  BY <1>1, <1>3, RunningGroup DEF GroupsCut, Members, IsGroup
<1>4. ASSUME IsGroup(w), UNCHANGED <<job, bot, ask, asks>>, StateInv', NEW next, Turns(w, next),
             UNCHANGED <<gathered, flushed, recState, trState, groupQueue, replayed>>,
             fresh' = fresh, alone' \subseteq Utterances,
             \A u \in Utterances : status[u] # "none" => status'[u] # "none",
             next = NoTask \/ (next \in RunningGroups /\ next.message = localJob[w].message),
             next.pc \in {"refreshing", "saving"} => Terminal(recState), next.pc # "saving"
      PROVE  LocalStateInv'
  <2>1. next.pc \notin {"closing", "closed", "counting"}
    BY <1>4 DEF NoTask, RunningGroups, GroupPcs
  <2>2. next \in RunningGroups => \A u \in Range(next.message.members) : status[u] # "none"
    BY <1>3, <1>4 DEF NoTask, RunningGroups, GroupPcs
  <2> QED
    BY <1>1, <1>3, <1>4, <2>1, <2>2, TurnKeepsState
<1>5. ASSUME IsGroup(w), UNCHANGED <<vars, gathered, flushed, groupQueue, alone, replayed>>,
             NEW pc \in {"falling", "settling", "refreshing"}, Step(w, pc),
             pc = "refreshing" => Terminal(recState)
      PROVE  LocalStateInv'
  <2>1. StateInv' /\ UNCHANGED <<recState, trState, fresh, status, job, bot, ask, asks>>
    BY <1>1, <1>5, SameRecordingState DEF vars, recording, utterances, counters
  <2> DEFINE next == [localJob[w] EXCEPT !.pc = pc]
  <2>2. Turns(w, next) /\ next.pc = pc /\ next.message = localJob[w].message
    <3>1. pc \in GroupPcs
      BY <1>5 DEF GroupPcs
    <3> QED
      BY <1>1, <1>5, <3>1, GroupStepTurns
  <2>3. next \in RunningGroups
    BY <1>3, <1>5, GroupExcept DEF GroupPcs
  <2> HIDE DEF next
  <2> QED
    BY <1>1, <1>4, <1>5, <2>1, <2>2, <2>3
<1>6. ASSUME GroupAnswered(w) PROVE LocalStateInv'
  <2> USE <1>6 DEF GroupAnswered, history
  <2>1. PICK h \in Lands(Members(w)) : localJob' = [localJob EXCEPT ![w].pc = "writing", ![w].answer = h]
    OBVIOUS
  <2> DEFINE next == [localJob[w] EXCEPT !.pc = "writing", !.answer = h]
  <2>2. Turns(w, next) /\ next \in RunningGroups /\ next.pc = "writing"
        /\ next.message = localJob[w].message
    BY <1>1, <2>1, AnswerTurns
  <2> HIDE DEF next
  <2>3. StateInv' /\ UNCHANGED <<recState, trState, fresh, status, job, bot, ask, asks>>
    BY <1>1, SameRecordingState DEF vars, recording, utterances, counters
  <2> QED
    BY <1>1, <1>4, <2>2, <2>3
<1>7. ASSUME GroupRetryable(w) PROVE LocalStateInv'
  BY <1>3, <1>7, RaiseStateStep DEF GroupRetryable, history
<1>8. ASSUME GroupFails(w) PROVE LocalStateInv'
  BY <1>5, <1>8 DEF GroupFails, history
<1>9. ASSUME FallBack(w) PROVE LocalStateInv'
  <2> USE <1>9 DEF FallBack
  <2> DEFINE at == localJob[w].at
             u == Members(w)[at]
  <2>1. u \in Utterances
    BY <1>3, GroupsAreSequences
  <2>2. queue' \in [Messages -> Nat]
    BY <1>1, <2>1, PutType, BoundsAssumption DEF TypeOK
  <2>3. UNCHANGED <<recState, trState, fresh, status, attempts, audio, job, bot, ask, asks, crashes>>
    BY DEF recording, utterances, counters
  <2>4. StateInv'
    BY <1>1, <1>3, <2>2, <2>3, OutsideKeepsState DEF TypeOK
  <2>5. alone' \subseteq Utterances
    BY <1>1, <2>1
  <2>6. CASE at = Len(Members(w))
    <3>1. Turns(w, NoTask) /\ NoTask.pc = "idle"
      BY <2>6, LeavingTurns
    <3> QED
      BY <1>4, <2>3, <2>4, <2>5, <3>1
  <2>7. CASE at # Len(Members(w))
    <3> DEFINE next == [localJob[w] EXCEPT !.at = at + 1]
    <3>1. localJob' = [localJob EXCEPT ![w].at = at + 1]
      BY <2>7
    <3>2. /\ Turns(w, next) /\ next \in RunningGroups
          /\ next.pc = "falling" /\ next.message = localJob[w].message
      BY <1>1, <2>7, <3>1, NextMemberTurns
    <3> HIDE DEF next
    <3> QED
      BY <1>4, <2>3, <2>4, <2>5, <3>2
  <2> QED
    BY <2>6, <2>7
<1>10. ASSUME WriteRow(w) PROVE LocalStateInv'
  <2> USE <1>10 DEF WriteRow
  <2> DEFINE at == localJob[w].at
             u == Members(w)[at]
  <2>1. u \in Utterances
    BY <1>3, GroupsAreSequences
  <2>2. UNCHANGED <<recState, trState, fresh, attempts, queue, job, bot, ask, asks, crashes>>
    BY DEF recording, counters
  <2>3. /\ status' \in [Utterances -> {"none", "pending", "text", "failed"}]
        /\ audio' \in [Utterances -> {"kept", "cleared", "gone"}]
        /\ \A x \in Utterances : status'[x] = status[x] \/ status'[x] = "text"
    BY <1>1, <2>1 DEF TypeOK
  <2>4. StateInv'
    <3>1. queue' \in [Messages -> Nat] /\ crashes' \in 0 .. MaxCrashes
      BY <1>1, <2>2 DEF TypeOK
    <3>2. job[w].pc = "idle" /\ fresh' \subseteq fresh \cup {w}
      BY <1>3, <2>2
    <3> HIDE <1>10
    <3> QED
      BY <1>1, <2>2, <2>3, <3>1, <3>2, OutsideKeepsState
  <2>5. \A x \in Utterances : status[x] # "none" => status'[x] # "none"
    BY <2>3
  <2>6. CASE at = Len(Members(w))
    <3> DEFINE next == [localJob[w] EXCEPT !.pc = "marking"]
    <3>1. next \in RunningGroups /\ next.pc = "marking" /\ next.message = localJob[w].message
      BY <1>3, GroupExcept DEF GroupPcs
    <3>2. Turns(w, next)
      BY <1>1, <2>6, GroupStepTurns DEF GroupPcs, Step
    <3> HIDE DEF next
    <3> QED
      BY <1>1, <1>4, <2>2, <2>4, <2>5, <3>1, <3>2 DEF history
  <2>7. CASE at # Len(Members(w))
    <3> DEFINE next == [localJob[w] EXCEPT !.at = at + 1]
    <3>1. localJob' = [localJob EXCEPT ![w].at = at + 1]
      BY <2>7
    <3>2. /\ Turns(w, next) /\ next \in RunningGroups
          /\ next.pc = "writing" /\ next.message = localJob[w].message
      BY <1>1, <2>7, <3>1, NextMemberTurns
    <3> HIDE DEF next
    <3> QED
      BY <1>1, <1>4, <2>2, <2>4, <2>5, <3>2 DEF history
  <2> QED
    BY <2>6, <2>7
<1>11. ASSUME GroupMark(w) PROVE LocalStateInv'
  <2> USE <1>11 DEF GroupMark, history
  <2>1. CASE Step(w, "settling") /\ UNCHANGED groupQueue
    BY <1>5, <2>1
  <2>2. CASE LocalRaise(w)
    BY <1>3, <2>2, RaiseStateStep
  <2> QED
    BY <2>1, <2>2
<1>12. ASSUME Settle(w) PROVE LocalStateInv'
  <2> USE <1>12 DEF Settle, history
  <2>1. CASE ReadyToSettle
    BY <1>5, <2>1 DEF ReadyToSettle
  <2>2. CASE Leave(w)
    <3>1. Turns(w, NoTask) /\ NoTask.pc = "idle"
      BY <2>2, LeavingTurns
    <3>2. StateInv' /\ UNCHANGED <<recState, trState, fresh, status, job, bot, ask, asks>>
      BY <1>1, SameRecordingState DEF vars, recording, utterances, counters
    <3> QED
      BY <1>1, <1>4, <3>1, <3>2
  <2> QED
    BY <2>1, <2>2
<1> QED
  BY <1>2, <1>6, <1>7, <1>8, <1>9, <1>10, <1>11, <1>12 DEF Group

\* finalize_local_session, and the end of the transcription from either task: the
\* recording is closed after the last drain, and completed after it is closed.
LEMMA ClosingStateStep ==
    ASSUME LocalStateInv, NEW w \in Workers, Closing(w) \/ Completing(w) \/ LocalCrash(w)
    PROVE  LocalStateInv'
<1>1. /\ StateInv /\ LocalTyped /\ NobodyElse /\ ClosingInv /\ GroupsCut /\ TypeOK
      /\ flushed \in BOOLEAN /\ replayed \in BOOLEAN /\ alone \subseteq Utterances
      /\ groupQueue \subseteq GoodMessages
  BY DEF LocalStateInv, LocalTyped, StateInv
<1>2. /\ \A m \in groupQueue : \A u \in Range(m.members) : status[u] # "none"
      /\ \A u \in Range(gathered) : status[u] # "none"
  BY <1>1 DEF GroupsCut
<1>3. ASSUME localJob[w].pc # "idle"
      PROVE  /\ job[w].pc = "idle"
             /\ IsGroup(w) => /\ localJob[w] \in RunningGroups /\ localJob[w].message \in GoodMessages
                              /\ localJob[w].message.members = Members(w)
                              /\ \A u \in Range(localJob[w].message.members) : status[u] # "none"
             /\ IsGroup(w) \/ IsFinalize(w)
  BY <1>1, <1>3, RunningGroup DEF LocalTyped, GroupsCut, IsGroup, Members
\* A task of either kind that goes on, or ends.
<1>4. ASSUME NEW next, Turns(w, next), job[w].pc = "idle" \/ next.pc = "idle", StateInv',
             UNCHANGED <<job, bot, asks, ask, status, replayed, alone>>,
             groupQueue' \subseteq GoodMessages, gathered' \in {gathered, <<>>},
             flushed' \in BOOLEAN, flushed => flushed',
             recState' = recState \/ (flushed' /\ Terminal(recState')),
             \/ trState' = trState /\ fresh' \subseteq fresh \cup {w}
             \/ fresh' = {},
             next.pc \in {"closing", "closed", "counting"} => flushed',
             next.pc \in {"counting", "refreshing", "saving"} => Terminal(recState'),
             next.pc = "saving" /\ w \in fresh' => trState' = "IN_PROGRESS",
             \A m \in groupQueue' : m \in groupQueue \/ \A u \in Range(m.members) : status[u] # "none",
             next \in FinalizeTasks \cup {NoTask} \/ (next.message = localJob[w].message /\ IsGroup(w))
      PROVE  LocalStateInv'
  <2>1. next \in RunningGroups => \A u \in Range(next.message.members) : status[u] # "none"
    <3>1. CASE next \in FinalizeTasks \cup {NoTask} /\ next \in RunningGroups
      <4>1. FALSE
        BY <3>1 DEF RunningGroups, FinalizeTasks, NoTask
      <4> QED
        BY <4>1
    <3>2. CASE next.message = localJob[w].message /\ IsGroup(w)
      BY <1>3, <3>2 DEF IsGroup
    <3> QED
      BY <1>4, <3>1, <3>2
  <2>2. replayed' \in BOOLEAN /\ alone' \subseteq Utterances
    BY <1>1, <1>4
  <2>3. \A u \in Utterances : status[u] # "none" => status'[u] # "none"
    BY <1>4
  <2> QED
    BY <1>4, <2>1, <2>2, <2>3, TurnKeepsState
<1>5. ASSUME UNCHANGED vars
      PROVE  StateInv' /\ UNCHANGED <<recState, trState, fresh, status, job, bot, ask, asks>>
  BY <1>1, <1>5, SameRecordingState DEF vars, recording, utterances, counters
<1>6. Turns(w, NoTask) <=> Leave(w)
  BY DEF Turns, Leave
<1>7. NoTask.pc = "idle"
  BY DEF NoTask
\* A step of a task that runs, to another step of it.
<1>8. ASSUME localJob[w].pc # "idle", NEW pc \in {"refreshing", "saving"}, Step(w, pc)
      PROVE  \E next : /\ Turns(w, next) /\ next.pc = pc
                       /\ next \in FinalizeTasks \cup {NoTask} \/ (next.message = localJob[w].message /\ IsGroup(w))
  <2> DEFINE next == [localJob[w] EXCEPT !.pc = pc]
  <2>1. CASE IsFinalize(w)
    <3>1. Turns(w, next) /\ next \in FinalizeTasks /\ next.pc = pc
      BY <1>1, <1>8, <2>1, FinalizeStepTurns
    <3> QED
      BY <3>1
  <2>2. CASE IsGroup(w)
    <3>1. pc \in GroupPcs
      BY <1>8 DEF GroupPcs
    <3>2. Turns(w, next) /\ next.pc = pc /\ next.message = localJob[w].message
      BY <1>1, <1>8, <2>2, <3>1, GroupStepTurns
    <3> QED
      BY <2>2, <3>2
  <2> QED
    BY <1>3, <1>8, <2>1, <2>2
<1>9. ASSUME NEW pc \in {"closed", "counting"}, localJob[w].pc \in {"closing", "closed"}, Step(w, pc)
      PROVE  \E next : Turns(w, next) /\ next.pc = pc /\ next \in FinalizeTasks
  <2>1. IsFinalize(w)
    BY <1>3, <1>9 DEF RunningGroups, GroupPcs
  <2> DEFINE next == [localJob[w] EXCEPT !.pc = pc]
  <2>2. Turns(w, next) /\ next \in FinalizeTasks /\ next.pc = pc
    BY <1>1, <1>9, <2>1, FinalizeStepTurns
  <2> QED
    BY <2>2
<1>10. ASSUME Finalize(w) PROVE LocalStateInv'
  <2> USE <1>10 DEF Finalize, history
  <2> DEFINE next == [pc |-> "closing"]
  <2>1. Turns(w, next) /\ next.pc = "closing" /\ next \in FinalizeTasks
    BY DEF Turns, FinalizeTasks
  <2> HIDE DEF next
  <2>2. job[w].pc = "idle"
    BY DEF Free
  <2>3. /\ groupQueue' \subseteq GoodMessages
        /\ \A m \in groupQueue' : m \in groupQueue \/ \A u \in Range(m.members) : status[u] # "none"
    <3>1. CASE groupQueue' = Send1(gathered) /\ gathered # <<>>
      <4> DEFINE m == [members |-> gathered, retries |-> 0]
      <4>1. m \in GoodMessages /\ m.members = gathered
        BY <1>1, <3>1, LocalBounds DEF LocalTyped, GoodMessages
      <4>2. groupQueue' = groupQueue \cup {m}
        BY <3>1 DEF Send1
      <4> HIDE DEF m
      <4> QED
        BY <1>1, <1>2, <4>1, <4>2
    <3>2. CASE groupQueue' = groupQueue
      BY <1>1, <3>2
    <3> QED
      BY <3>1, <3>2 DEF Send1
  <2>4. gathered' \in {gathered, <<>>}
    OBVIOUS
  <2>5. StateInv' /\ UNCHANGED <<recState, trState, fresh, status, job, bot, ask, asks>>
    BY <1>5
  <2> QED
    BY <1>4, <2>1, <2>2, <2>3, <2>4, <2>5
<1>11. ASSUME Close(w) PROVE LocalStateInv'
  <2> USE <1>11 DEF Close, history
  <2>1. /\ UNCHANGED <<recState, trState, status, attempts, audio, queue, job, bot, ask, asks, crashes>>
        /\ job[w].pc = "idle" /\ fresh' \subseteq fresh \cup {w} /\ flushed
    BY <1>1, <1>3 DEF utterances, counters, ClosingInv
  <2>2. StateInv'
    BY <1>1, <2>1, OutsideKeepsState DEF TypeOK
  <2>3. CASE Leave(w)
    BY <1>1, <1>4, <1>6, <1>7, <2>1, <2>2, <2>3
  <2>4. CASE Step(w, "closed")
    <3>1. PICK next : Turns(w, next) /\ next.pc = "closed" /\ next \in FinalizeTasks
      BY <1>9, <2>4
    <3> QED
      BY <1>1, <1>4, <2>1, <2>2, <3>1
  <2> QED
    BY <2>3, <2>4
<1>12. ASSUME CloseSave(w) PROVE LocalStateInv'
  <2> USE <1>12 DEF CloseSave, history
  <2>1. /\ UNCHANGED <<trState, status, attempts, audio, queue, job, bot, ask, asks, crashes>>
        /\ job[w].pc = "idle" /\ fresh' = {} /\ flushed
        /\ Terminal(recState') /\ recState' \in TerminalStates /\ recState' # "IN_PROGRESS"
    BY <1>1, <1>3 DEF utterances, counters, ClosingInv, Terminal, TerminalStates
  <2>2. StateInv'
    BY <1>1, <2>1, OutsideKeepsState DEF TypeOK
  <2>3. PICK next : Turns(w, next) /\ next.pc = "counting" /\ next \in FinalizeTasks
    BY <1>9
  <2> QED
    BY <1>1, <1>4, <2>1, <2>2, <2>3
<1>13. ASSUME CountAtClose(w) PROVE LocalStateInv'
  <2> USE <1>13 DEF CountAtClose, history
  <2>1. StateInv' /\ UNCHANGED <<recState, trState, fresh, status, job, bot, ask, asks>>
    BY <1>5
  <2>2. job[w].pc = "idle" /\ Terminal(recState)
    BY <1>1, <1>3 DEF ClosingInv
  <2>3. CASE Leave(w)
    BY <1>1, <1>4, <1>6, <1>7, <2>1, <2>2, <2>3
  <2>4. CASE Step(w, "refreshing")
    <3>1. PICK next : /\ Turns(w, next) /\ next.pc = "refreshing"
                      /\ next \in FinalizeTasks \cup {NoTask} \/ (next.message = localJob[w].message /\ IsGroup(w))
      BY <1>8, <2>4
    <3> QED
      BY <1>1, <1>4, <2>1, <2>2, <3>1
  <2> QED
    BY <2>3, <2>4
<1>14. ASSUME LocalRefresh(w) PROVE LocalStateInv'
  <2> USE <1>14 DEF LocalRefresh, history
  <2>1. /\ UNCHANGED <<recState, trState, status, attempts, audio, queue, job, bot, ask, asks, crashes>>
        /\ job[w].pc = "idle" /\ fresh' \subseteq fresh \cup {w} /\ Terminal(recState)
    BY <1>1, <1>3 DEF utterances, counters, ClosingInv
  <2>2. StateInv'
    BY <1>1, <2>1, OutsideKeepsState DEF TypeOK
  <2>3. CASE Leave(w) /\ UNCHANGED groupQueue
    BY <1>1, <1>4, <1>6, <1>7, <2>1, <2>2, <2>3
  <2>4. CASE LocalRaise(w)
    <3>1. Leave(w)
      BY <2>4 DEF LocalRaise
    <3>2. /\ groupQueue' \subseteq GoodMessages
          /\ \A m \in groupQueue' : m \in groupQueue \/ \A u \in Range(m.members) : status[u] # "none"
      BY <1>1, <1>3, <2>4, PutBackTyped DEF Members
    <3> QED
      BY <1>1, <1>4, <1>6, <1>7, <2>1, <2>2, <3>1, <3>2
  <2>5. CASE Step(w, "saving") /\ MayEnter("COMPLETE") /\ UNCHANGED groupQueue
    <3>1. PICK next : /\ Turns(w, next) /\ next.pc = "saving"
                      /\ next \in FinalizeTasks \cup {NoTask} \/ (next.message = localJob[w].message /\ IsGroup(w))
      BY <1>8, <2>5
    <3>2. trState = "IN_PROGRESS"
      BY <2>5 DEF MayEnter
    <3> QED
      BY <1>1, <1>4, <2>1, <2>2, <2>5, <3>1, <3>2
  <2> QED
    BY <2>3, <2>4, <2>5
<1>15. ASSUME LocalSave(w) PROVE LocalStateInv'
  <2> USE <1>15 DEF LocalSave, Save, history
  <2>1. /\ UNCHANGED <<recState, status, attempts, audio, queue, job, bot, ask, asks, crashes>>
        /\ job[w].pc = "idle" /\ fresh' = {} /\ Terminal(recState) /\ recState # "IN_PROGRESS"
        /\ trState' = "COMPLETE"
    BY <1>1, <1>3 DEF utterances, counters, ClosingInv, Terminal, TerminalStates
  <2>2. StateInv'
    BY <1>1, <2>1, OutsideKeepsState DEF TypeOK
  <2> QED
    BY <1>1, <1>4, <1>6, <1>7, <2>1, <2>2
<1>16. ASSUME LocalConflict(w) PROVE LocalStateInv'
  BY <1>16, RaiseStateStep DEF LocalConflict, history
<1>17. ASSUME LocalCrash(w) PROVE LocalStateInv'
  <2> USE <1>17 DEF LocalCrash, history
  <2>1. /\ UNCHANGED <<recState, trState, status, attempts, audio, queue, job, bot, ask, asks>>
        /\ job[w].pc = "idle" /\ fresh' \subseteq fresh \cup {w} /\ crashes' \in 0 .. MaxCrashes
    BY <1>1, <1>3, BoundsAssumption DEF utterances, TypeOK
  <2>2. StateInv'
    BY <1>1, <2>1, OutsideKeepsState DEF TypeOK
  <2>3. /\ groupQueue' \subseteq GoodMessages
        /\ \A m \in groupQueue' : m \in groupQueue \/ \A u \in Range(m.members) : status[u] # "none"
    BY <1>1, <1>3
  <2> QED
    BY <1>1, <1>4, <1>6, <1>7, <2>1, <2>2, <2>3
<1> QED
  BY <1>10, <1>11, <1>12, <1>13, <1>14, <1>15, <1>16, <1>17 DEF Closing, Completing

\* The types of the local session, and what has been cut and closed.
LEMMA LocalStateStep == LocalStateInv /\ [LocalNext]_allVars => LocalStateInv'
<1> SUFFICES ASSUME LocalStateInv, [LocalNext]_allVars PROVE LocalStateInv'
  OBVIOUS
<1>1. ASSUME NEW w \in Workers, LocalUtterance(w) \/ (Crash(w) /\ UNCHANGED localVars)
      PROVE  LocalStateInv'
  <2>1. localJob[w].pc = "idle"
    <3>1. Crash(w) => job[w].pc # "idle"
      BY DEF Crash
    <3> QED
      BY <1>1, <3>1 DEF LocalUtterance, LocalStateInv, LocalTyped
  <2> QED
    BY <1>1, <2>1, UtteranceStateStep DEF LocalUtterance, localVars, history
<1>2. CASE UNCHANGED allVars
  BY <1>2, SameRecordingState
     DEF allVars, localVars, history, vars, recording, counters, utterances, LocalStateInv, LocalTyped,
         NobodyElse, ClosingInv, GroupsCut, IsGroup, IsFinalize, Members, Terminal
<1> QED
  BY <1>1, <1>2, DrainStateStep, GroupStateStep, ClosingStateStep DEF LocalNext

-----------------------------------------------------------------------------
\* What a step of a group's or of finalize's task does to the places of the groups.
Stays(w) == UNCHANGED <<groupQueue, gathered>> /\ Held(w)' \subseteq Held(w)
PutsBack(w) ==
    /\ UNCHANGED gathered /\ Held(w)' = {}
    /\ \E n \in GoodMessages : Range(n.members) = Held(w) /\ groupQueue' = groupQueue \cup {n}
Takes(w) ==
    /\ UNCHANGED gathered /\ Held(w) = {}
    /\ \E m \in groupQueue : groupQueue' = groupQueue \ {m} /\ Held(w)' = Range(m.members)
SendsOff(w) ==
    /\ Held(w)' = Held(w) /\ Range(gathered)' = {}
    /\ \E n \in GoodMessages : Range(n.members) = Range(gathered) /\ groupQueue' = groupQueue \cup {n}
MovesGroup(w) == Stays(w) \/ PutsBack(w) \/ Takes(w) \/ SendsOff(w)

LEMMA MovingKeepsOnePlace ==
    ASSUME OnePlace, NEW w \in Workers, MovesGroup(w), \A v \in Workers \ {w} : Held(v)' = Held(v)
    PROVE  /\ OnePlace'
           /\ \A u \in Utterances : Placed(u) => Placed(u)' \/ (Stays(w) /\ u \in Held(w) \ Held(w)')
<1>1. CASE Stays(w)
  <2>1. OnePlace'
    BY <1>1 DEF Stays, OnePlace, Apart
  <2>2. \A u \in Utterances : Placed(u) => Placed(u)' \/ u \in Held(w) \ Held(w)'
    BY <1>1 DEF Stays, Placed
  <2> QED
    BY <1>1, <2>1, <2>2
<1>2. CASE PutsBack(w)
  <2>1. PICK n \in GoodMessages : Range(n.members) = Held(w) /\ groupQueue' = groupQueue \cup {n}
    BY <1>2 DEF PutsBack
  <2>2. OnePlace'
    BY <1>2, <2>1 DEF PutsBack, OnePlace, Apart
  <2>3. \A u \in Utterances : Placed(u) => Placed(u)'
    BY <1>2, <2>1 DEF PutsBack, Placed
  <2> QED
    BY <2>2, <2>3
<1>3. CASE Takes(w)
  <2>1. PICK m \in groupQueue : groupQueue' = groupQueue \ {m} /\ Held(w)' = Range(m.members)
    BY <1>3 DEF Takes
  <2>2. OnePlace'
    BY <1>3, <2>1 DEF Takes, OnePlace, Apart
  <2>3. \A u \in Utterances : Placed(u) => Placed(u)'
    BY <1>3, <2>1 DEF Takes, Placed
  <2> QED
    BY <2>2, <2>3
<1>4. CASE SendsOff(w)
  <2>1. PICK n \in GoodMessages : Range(n.members) = Range(gathered) /\ groupQueue' = groupQueue \cup {n}
    BY <1>4 DEF SendsOff
  <2>2. OnePlace'
    BY <1>4, <2>1 DEF SendsOff, OnePlace, Apart
  <2>3. \A u \in Utterances : Placed(u) => Placed(u)'
    BY <1>4, <2>1 DEF SendsOff, Placed
  <2> QED
    BY <2>2, <2>3
<1> QED
  BY <1>1, <1>2, <1>3, <1>4 DEF MovesGroup

LEMMA HeldByTurn ==
    ASSUME LocalTyped, NEW w \in Workers, NEW next, Turns(w, next), UNCHANGED job,
           next.pc = "idle" \/ job[w].pc = "idle"
    PROVE  /\ Held(w)' = IF next \in RunningGroups THEN Range(next.message.members) ELSE {}
           /\ IsGroup(w)' <=> next \in RunningGroups
           /\ localJob'[w] = next
           /\ \A v \in Workers \ {w} : /\ Held(v)' = Held(v) /\ localJob'[v] = localJob[v]
                                       /\ IsGroup(v)' <=> IsGroup(v)
<1>1. /\ localJob'[w] = next
      /\ \A v \in Workers \ {w} : localJob'[v] = localJob[v] /\ (IsGroup(v)' <=> IsGroup(v))
  BY TurnsTyped
<1>2. IsGroup(w)' <=> next \in RunningGroups
  <2>1. next \in RunningGroups => next.pc \in GroupPcs /\ next \notin FinalizeTasks
    BY DEF RunningGroups, FinalizeTasks, GroupPcs
  <2>2. next \in RunningGroups \cup FinalizeTasks \cup {NoTask}
    BY DEF Turns
  <2> QED
    BY <1>1, <2>1, <2>2 DEF IsGroup, IsFinalize, NoTask, GroupPcs
<1>3. Held(w)' = IF next \in RunningGroups THEN Range(next.message.members) ELSE {}
  BY <1>1, <1>2 DEF Held, Members
<1>4. \A v \in Workers \ {w} : Held(v)' = Held(v)
  BY <1>1 DEF Held, Members
<1> QED
  BY <1>1, <1>2, <1>3, <1>4

\* Rows and tasks of process_utterance that a step leaves alone.
LEMMA RestingTasks ==
    ASSUME TypeOK, UNCHANGED <<queue, job, bot, status, attempts>>
    PROVE  /\ OneTaskEach => OneTaskEach'
           /\ \A u \in Utterances : (WaiterAgrees(u, FALSE) => WaiterAgrees(u, FALSE)') /\ Sent(u)' = Sent(u)
           /\ \A w \in Workers : TaskOfWaiter(w, FALSE) => TaskOfWaiter(w, FALSE)'
           /\ Untranscribed' = Untranscribed
<1>1. OneTaskEach => OneTaskEach'
  BY DEF OneTaskEach, QueueInv, WorkersInv
<1>2. \A u \in Utterances : (WaiterAgrees(u, FALSE) => WaiterAgrees(u, FALSE)') /\ Sent(u)' = Sent(u)
  BY DEF WaiterAgrees, Sent
<1>3. \A w \in Workers : TaskOfWaiter(w, FALSE) => TaskOfWaiter(w, FALSE)'
  BY DEF TaskOfWaiter
<1> QED
  BY <1>1, <1>2, <1>3 DEF Untranscribed

\* A step of a group's or of finalize's task that leaves the rows and the tasks of
\* process_utterance alone, and drops no group that has not got its texts.
LEMMA TurnKeepsWriter ==
    ASSUME LocalStateInv, OneWriter, LocalCountInv, NEW w \in Workers, NEW next, Turns(w, next),
           next.pc = "idle" \/ job[w].pc = "idle",
           UNCHANGED <<queue, job, bot, status, attempts, alone>>,
           MovesGroup(w), next \in RunningGroups => MembersAgree(next),
           Stays(w) => Held(w)' = Held(w) \/ \A u \in Held(w) : status[u] = "text" \/ u \in alone,
           trState' = "COMPLETE" => trState = "COMPLETE" \/ Untranscribed = {},
           next.pc \in {"refreshing", "saving"} => Untranscribed = {}
    PROVE  OneWriter' /\ LocalCountInv'
<1>1. TypeOK /\ LocalTyped
  BY DEF LocalStateInv, StateInv
<1>2. /\ OneTaskEach'
      /\ \A u \in Utterances : WaiterAgrees(u, FALSE)' /\ Sent(u)' = Sent(u)
      /\ \A v \in Workers : TaskOfWaiter(v, FALSE)'
      /\ Untranscribed' = Untranscribed
  BY <1>1, RestingTasks DEF OneWriter
<1>3. /\ IsGroup(w)' <=> next \in RunningGroups
      /\ localJob'[w] = next
      /\ \A v \in Workers \ {w} : /\ Held(v)' = Held(v) /\ localJob'[v] = localJob[v]
                                  /\ IsGroup(v)' <=> IsGroup(v)
  BY <1>1, HeldByTurn
<1>4. /\ OnePlace'
      /\ \A u \in Utterances : Placed(u) => Placed(u)' \/ (Stays(w) /\ u \in Held(w) \ Held(w)')
  BY <1>3, MovingKeepsOnePlace DEF OneWriter
<1>5. \A u \in Utterances : AloneAgrees(u)'
  BY <1>2 DEF OneWriter, AloneAgrees
<1>6. ASSUME NEW v \in Workers PROVE GroupAgrees(v)'
  <2>1. ASSUME NEW task, MembersAgree(task), localJob'[v] = task PROVE MembersAgree(localJob[v])'
    BY <2>1 DEF MembersAgree
  <2>2. CASE v = w
    BY <1>3, <2>1, <2>2 DEF GroupAgrees
  <2>3. CASE v # w
    BY <1>3, <2>1, <2>3 DEF OneWriter, GroupAgrees
  <2> QED
    BY <2>2, <2>3
<1>7. \A u \in Range(gathered)' : u \notin alone'
  <2>1. Range(gathered)' \subseteq Range(gathered)
    BY DEF MovesGroup, Stays, PutsBack, Takes, SendsOff
  <2> QED
    BY <2>1 DEF OneWriter
<1>8. \A u \in Utterances : status'[u] = "pending" /\ u \notin alone' => Placed(u)'
  BY <1>4 DEF OneWriter
<1>9. LocalCountInv'
  <2>1. CountInv'
    BY <1>2 DEF LocalCountInv, CountInv
  <2> QED
    BY <1>2, <1>3, <2>1 DEF LocalCountInv
<1> QED
  BY <1>2, <1>4, <1>5, <1>6, <1>7, <1>8, <1>9 DEF OneWriter

\* A task that ends: its group is put back, or is no worker's any more.
LEMMA EndedTurn ==
    ASSUME LocalStateInv, NEW w \in Workers, Leave(w), UNCHANGED <<gathered, job>>
    PROVE  /\ Turns(w, NoTask) /\ NoTask.pc = "idle" /\ NoTask \notin RunningGroups
           /\ Held(w)' = {}
           /\ UNCHANGED groupQueue => Stays(w)
           /\ IsGroup(w) /\ groupQueue' = groupQueue \cup {localJob[w].message} => PutsBack(w)
<1>1. Turns(w, NoTask) /\ NoTask.pc = "idle" /\ NoTask \notin RunningGroups
  BY LeavingTurns DEF NoTask, RunningGroups, GroupPcs
<1>2. LocalTyped
  BY DEF LocalStateInv
<1>3. Held(w)' = {}
  BY <1>1, <1>2, HeldByTurn
<1>4. UNCHANGED groupQueue => Stays(w)
  BY <1>3 DEF Stays
<1>5. ASSUME IsGroup(w), groupQueue' = groupQueue \cup {localJob[w].message} PROVE PutsBack(w)
  BY <1>2, <1>3, <1>5, RunningGroup DEF PutsBack, Held, Members
<1> QED
  BY <1>1, <1>3, <1>4, <1>5

LEMMA RaisedTurn ==
    ASSUME LocalStateInv, NEW w \in Workers, LocalRaise(w), localJob[w].pc # "idle",
           UNCHANGED <<gathered, job>>
    PROVE  /\ Stays(w) \/ PutsBack(w)
           /\ IsGroup(w) /\ localJob[w].message.retries < MaxGroupAttempts => PutsBack(w)
<1>1. LocalTyped /\ Leave(w)
  BY DEF LocalStateInv, LocalRaise
<1>2. Held(w)' = {} /\ (UNCHANGED groupQueue => Stays(w))
  BY <1>1, EndedTurn
<1>3. ASSUME IsGroup(w), NEW m \in GoodMessages, m.members = Members(w), groupQueue' = groupQueue \cup {m}
      PROVE  PutsBack(w)
  BY <1>2, <1>3 DEF PutsBack, Held
<1>4. ASSUME IsGroup(w), localJob[w].message.retries < MaxGroupAttempts PROVE PutsBack(w)
  <2> DEFINE m == localJob[w].message
             again == [m EXCEPT !.retries = @ + 1]
  <2>1. m \in GoodMessages
    BY <1>1, <1>4, RunningGroup
  <2>2. again \in GoodMessages /\ again.members = m.members
    BY <1>4, <2>1, LocalBounds DEF GoodMessages
  <2>3. groupQueue' = groupQueue \cup {again}
    BY <1>4 DEF LocalRaise, IsGroup
  <2> HIDE DEF again
  <2> QED
    BY <1>3, <1>4, <2>2, <2>3 DEF Members
<1> QED
  BY <1>1, <1>2, <1>3, <1>4, PutBackTyped

\* A group's task that goes on: it holds what it held, and its rows are as it says.
LEMMA GoingOnKeepsWriter ==
    ASSUME LocalStateInv, OneWriter, LocalCountInv, NEW w \in Workers, IsGroup(w),
           NEW next, Turns(w, next), next \in RunningGroups, next.message = localJob[w].message,
           UNCHANGED <<queue, job, bot, status, attempts, alone, trState, groupQueue, gathered>>,
           next.at = localJob[w].at, next.pc = "writing" \/ next.pc = "falling" => localJob[w].pc = "calling",
           next.pc \in {"marking", "settling", "refreshing", "saving"} =>
              localJob[w].pc \in {"marking", "settling", "refreshing", "saving"},
           next.pc # "calling",
           next.pc \in {"refreshing", "saving"} => Untranscribed = {}
    PROVE  OneWriter' /\ LocalCountInv'
<1>1. LocalTyped
  BY DEF LocalStateInv
<1>2. /\ job[w].pc = "idle" /\ localJob[w].message.members = Members(w) /\ Members(w) \in GoodGroups
      /\ localJob[w].at \in DOMAIN Members(w) /\ localJob[w].pc \in GroupPcs
  BY <1>1, RunningGroup DEF Members
<1>3. Held(w)' = Held(w)
  BY <1>1, <1>2, HeldByTurn DEF Held
<1>4. MembersAgree(next)
  <2>1. MembersAgree(localJob[w])
    BY DEF OneWriter, GroupAgrees
  <2>2. \A i \in DOMAIN Members(w) : i \in Nat /\ (localJob[w].at = 1 => ~(i < 1) /\ 1 <= i)
    BY <1>2, GroupsAreSequences
  <2>3. next.pc \in GroupPcs
    BY DEF RunningGroups
  <2> QED
    BY <1>2, <2>1, <2>2, <2>3 DEF MembersAgree, GroupPcs
<1>5. Stays(w)
  BY <1>3 DEF Stays
<1> QED
  BY <1>2, <1>3, <1>4, <1>5, TurnKeepsWriter DEF MovesGroup

\* The steps of a group's task, but those that write rows or send utterances.
LEMMA GroupWriterStep ==
    ASSUME LocalStateInv, OneWriter, LocalCountInv, ~replayed', NEW w \in Workers,
           \/ \E m \in groupQueue : GroupDeliver(w, m)
           \/ GroupAnswered(w) \/ GroupRetryable(w) \/ GroupFails(w)
           \/ GroupMark(w) \/ Settle(w)
    PROVE  OneWriter' /\ LocalCountInv'
<1>1. LocalTyped /\ TypeOK
  BY DEF LocalStateInv, StateInv
<1>2. ASSUME UNCHANGED vars PROVE UNCHANGED <<queue, job, bot, status, attempts, trState>>
  BY <1>2 DEF vars, recording, utterances
<1>3. ASSUME IsGroup(w)
      PROVE  /\ localJob[w] \in RunningGroups /\ localJob[w].pc # "idle" /\ job[w].pc = "idle"
             /\ Held(w) = Range(Members(w)) /\ MembersAgree(localJob[w])
             /\ localJob[w].message.members = Members(w) /\ Members(w) \in GoodGroups
  BY <1>1, <1>3, RunningGroup DEF OneWriter, GroupAgrees, Held, Members, IsGroup
<1>4. ASSUME IsGroup(w), localJob[w].pc \in {"marking", "settling", "refreshing", "saving"}
      PROVE  \A u \in Held(w) : status[u] = "text"
  BY <1>3, <1>4 DEF MembersAgree, Range
<1>5. ASSUME NEW m \in groupQueue, GroupDeliver(w, m) PROVE OneWriter' /\ LocalCountInv'
  <2> USE <1>5 DEF GroupDeliver
  <2> DEFINE next == [pc |-> IF \A u \in Range(m.members) : status[u] = "text" THEN "settling" ELSE "calling",
                      message |-> m, at |-> 1, answer |-> <<>>]
  <2>1. m \in GoodMessages /\ m.members \in GoodGroups
    BY <1>1 DEF GoodMessages, LocalTyped
  <2>2. next \in RunningGroups
    BY <2>1 DEF RunningGroups, GroupPcs
  <2>3. /\ next.pc = IF \A u \in Range(m.members) : status[u] = "text" THEN "settling" ELSE "calling"
        /\ next.message = m /\ next.at = 1
    OBVIOUS
  <2>4. localJob' = [localJob EXCEPT ![w] = next]
    OBVIOUS
  <2> HIDE DEF next
  <2>5. Turns(w, next)
    <3>1. 1 \in DOMAIN m.members
      BY <2>1, GroupsAreSequences
    <3> QED
      BY <2>2, <2>3, <2>4, <3>1 DEF Turns
  <2>6. /\ UNCHANGED <<queue, job, bot, status, attempts, trState, alone, gathered>>
        /\ groupQueue' = groupQueue \ {m} /\ job[w].pc = "idle"
    BY <1>2 DEF Free
  <2>7. Takes(w)
    <3>1. Held(w) = {}
      BY DEF Held, IsGroup, Free
    <3>2. Held(w)' = Range(m.members)
      BY <1>1, <2>2, <2>3, <2>5, <2>6, HeldByTurn
    <3> QED
      BY <2>6, <3>1, <3>2 DEF Takes
  <2>8. MembersAgree(next)
    <3>1. \A i \in DOMAIN m.members : m.members[i] \in Range(m.members) /\ m.members[i] \notin alone
                                      /\ i \in Nat /\ ~(i < 1)
      <4>1. Range(m.members) \cap alone = {}
        OBVIOUS
      <4> HIDE <1>5
      <4> QED
        BY <2>1, <4>1, GroupsAreSequences
    <3> QED
      BY <2>3, <3>1 DEF MembersAgree
  <2>9. Stays(w) => Held(w)' = Held(w)
    <3>1. groupQueue' # groupQueue
      BY <2>6
    <3> QED
      BY <3>1 DEF Stays
  <2>10. next.pc \notin {"refreshing", "saving"}
    BY <2>3
  <2> HIDE <1>5
  <2> QED
    BY <2>5, <2>6, <2>7, <2>8, <2>9, <2>10, TurnKeepsWriter DEF MovesGroup
\* A step to another part of the task.
<1>6. ASSUME IsGroup(w), NEW pc \in {"falling", "settling", "refreshing"}, Step(w, pc), UNCHANGED vars,
             UNCHANGED <<groupQueue, gathered, alone>>,
             pc = "falling" => localJob[w].pc = "calling",
             pc \in {"settling", "refreshing"} => localJob[w].pc \in {"marking", "settling"},
             pc = "refreshing" => Untranscribed = {}
      PROVE  OneWriter' /\ LocalCountInv'
  <2>1. pc \in GroupPcs
    BY <1>6 DEF GroupPcs
  <2> DEFINE next == [localJob[w] EXCEPT !.pc = pc]
  <2>2. Turns(w, next) /\ next.pc = pc /\ next.message = localJob[w].message /\ next.at = localJob[w].at
    BY <1>1, <1>6, <2>1, GroupStepTurns
  <2>3. next \in RunningGroups
    BY <1>3, <1>6, <2>1, GroupExcept
  <2> HIDE DEF next
  <2> QED
    BY <1>2, <1>6, <2>2, <2>3, GoingOnKeepsWriter
<1>7. ASSUME IsGroup(w), Leave(w), UNCHANGED vars, UNCHANGED <<gathered, alone>>,
             PutsBack(w) \/ (Stays(w) /\ \A u \in Held(w) : status[u] = "text")
      PROVE  OneWriter' /\ LocalCountInv'
  <2>1. UNCHANGED <<queue, job, bot, status, attempts, trState>>
    BY <1>2, <1>7
  <2>2. /\ Turns(w, NoTask) /\ NoTask.pc = "idle" /\ NoTask \notin RunningGroups
        /\ Held(w)' = {} /\ (UNCHANGED groupQueue => Stays(w))
    BY <1>7, <2>1, EndedTurn
  <2>3. Stays(w) => Held(w)' = Held(w) \/ \A u \in Held(w) : status[u] = "text" \/ u \in alone
    <3>1. CASE PutsBack(w) /\ Stays(w)
      <4>1. PICK n \in GoodMessages : Range(n.members) = Held(w) /\ groupQueue' = groupQueue \cup {n}
        BY <3>1 DEF PutsBack
      <4>2. n \in groupQueue
        BY <3>1, <4>1 DEF Stays
      <4>3. Apart(Held(w), Range(n.members))
        BY <4>2 DEF OneWriter, OnePlace
      <4> QED
        BY <4>1, <4>3 DEF Apart
    <3>2. CASE Stays(w) /\ \A u \in Held(w) : status[u] = "text"
      BY <3>2
    <3> QED
      BY <1>7, <3>1, <3>2
  <2> QED
    BY <1>7, <2>1, <2>2, <2>3, TurnKeepsWriter DEF MovesGroup
<1>8. ASSUME GroupAnswered(w) PROVE OneWriter' /\ LocalCountInv'
  <2> USE <1>8 DEF GroupAnswered, history
  <2>1. PICK h \in Lands(Members(w)) : localJob' = [localJob EXCEPT ![w].pc = "writing", ![w].answer = h]
    OBVIOUS
  <2> DEFINE next == [localJob[w] EXCEPT !.pc = "writing", !.answer = h]
  <2>2. Turns(w, next) /\ next \in RunningGroups /\ next.pc = "writing"
        /\ next.message = localJob[w].message /\ next.at = localJob[w].at
    BY <1>1, <2>1, AnswerTurns
  <2> HIDE DEF next
  <2> QED
    BY <1>2, <2>2, GoingOnKeepsWriter
<1>9. ASSUME GroupRetryable(w) PROVE OneWriter' /\ LocalCountInv'
  <2> USE <1>9 DEF GroupRetryable, history
  <2>1. PutsBack(w)
    BY <1>2, <1>3, RaisedTurn
  <2> QED
    BY <1>7, <2>1 DEF LocalRaise
<1>10. ASSUME GroupFails(w) PROVE OneWriter' /\ LocalCountInv'
  BY <1>6, <1>10 DEF GroupFails, history
<1>11. ASSUME GroupMark(w) PROVE OneWriter' /\ LocalCountInv'
  <2> USE <1>11 DEF GroupMark, history
  <2>1. CASE Step(w, "settling") /\ UNCHANGED groupQueue
    BY <1>6, <2>1
  <2>2. CASE LocalRaise(w)
    <3>1. Stays(w) \/ PutsBack(w)
      BY <1>2, <1>3, <2>2, RaisedTurn
    <3> QED
      BY <1>4, <1>7, <2>2, <3>1 DEF LocalRaise
  <2> QED
    BY <2>1, <2>2
<1>12. ASSUME Settle(w) PROVE OneWriter' /\ LocalCountInv'
  <2> USE <1>12 DEF Settle, history
  <2>1. CASE ReadyToSettle
    BY <1>6, <2>1 DEF ReadyToSettle
  <2>2. CASE Leave(w)
    <3>1. Stays(w)
      BY <1>2, <2>2, EndedTurn
    <3> QED
      BY <1>4, <1>7, <2>2, <3>1
  <2> QED
    BY <2>1, <2>2
<1> QED
  BY <1>5, <1>8, <1>9, <1>10, <1>11, <1>12

\* finalize's task, the end of a group's and the death of a worker.
LEMMA ClosingWriterStep ==
    ASSUME LocalStateInv, OneWriter, LocalCountInv, NEW w \in Workers,
           Closing(w) \/ Completing(w) \/ LocalCrash(w)
    PROVE  OneWriter' /\ LocalCountInv'
<1>1. LocalTyped /\ TypeOK
  BY DEF LocalStateInv, StateInv
<1>2. ASSUME UNCHANGED vars PROVE UNCHANGED <<queue, job, bot, status, attempts, trState>>
  BY <1>2 DEF vars, recording, utterances
<1>3. IsFinalize(w) => Held(w) = {} /\ ~IsGroup(w)
  BY DEF Held, IsGroup
<1>4. ASSUME localJob[w].pc # "idle" PROVE job[w].pc = "idle" /\ (IsGroup(w) \/ IsFinalize(w))
  BY <1>1, <1>4 DEF LocalTyped, IsGroup
\* finalize goes on.
<1>5. ASSUME IsFinalize(w) \/ Free(w), NEW next, Turns(w, next), next \in FinalizeTasks,
             job[w].pc = "idle", UNCHANGED <<queue, job, bot, status, attempts, alone, trState>>,
             UNCHANGED <<groupQueue, gathered>> \/ SendsOff(w),
             next.pc \in {"refreshing", "saving"} => Untranscribed = {}
      PROVE  OneWriter' /\ LocalCountInv'
  <2>1. Held(w) = {}
    BY <1>3, <1>5 DEF Held, IsGroup, Free
  <2>2. next \notin RunningGroups
    BY <1>5 DEF RunningGroups, FinalizeTasks
  <2>3. Held(w)' = {}
    BY <1>1, <1>5, <2>2, HeldByTurn
  <2>4. MovesGroup(w)
    BY <1>5, <2>1, <2>3 DEF MovesGroup, Stays
  <2> QED
    BY <1>5, <2>1, <2>2, <2>3, <2>4, TurnKeepsWriter
\* Either task ends.
<1>6. ASSUME Leave(w), UNCHANGED <<queue, job, bot, status, attempts, alone, gathered>>,
             trState' = "COMPLETE" => trState = "COMPLETE" \/ Untranscribed = {},
             PutsBack(w) \/ (Stays(w) /\ \A u \in Held(w) : status[u] = "text")
      PROVE  OneWriter' /\ LocalCountInv'
  <2>1. /\ Turns(w, NoTask) /\ NoTask.pc = "idle" /\ NoTask \notin RunningGroups
        /\ Held(w)' = {} /\ (UNCHANGED groupQueue => Stays(w))
    BY <1>6, EndedTurn
  <2>2. Stays(w) => Held(w)' = Held(w) \/ \A u \in Held(w) : status[u] = "text" \/ u \in alone
    <3>1. CASE PutsBack(w) /\ Stays(w)
      <4>1. PICK n \in GoodMessages : Range(n.members) = Held(w) /\ groupQueue' = groupQueue \cup {n}
        BY <3>1 DEF PutsBack
      <4>2. n \in groupQueue
        BY <3>1, <4>1 DEF Stays
      <4>3. Apart(Held(w), Range(n.members))
        BY <4>2 DEF OneWriter, OnePlace
      <4> QED
        BY <4>1, <4>3 DEF Apart
    <3>2. CASE Stays(w) /\ \A u \in Held(w) : status[u] = "text"
      BY <3>2
    <3> QED
      BY <1>6, <3>1, <3>2
  <2> QED
    BY <1>6, <2>1, <2>2, TurnKeepsWriter DEF MovesGroup
\* The tasks that complete the transcription hold no row without its text.
<1>7. ASSUME localJob[w].pc \in {"closing", "closed", "counting", "refreshing", "saving"}
      PROVE  \A u \in Held(w) : status[u] = "text"
  <2>1. CASE IsGroup(w)
    <3>1. /\ localJob[w].pc \in {"refreshing", "saving"} /\ MembersAgree(localJob[w])
          /\ localJob[w].message.members = Members(w)
      BY <1>1, <1>7, <2>1, RunningGroup DEF GroupPcs, OneWriter, GroupAgrees, Members
    <3> QED
      BY <2>1, <3>1 DEF MembersAgree, Held, Range
  <2>2. CASE IsFinalize(w)
    BY <1>3, <2>2
  <2> QED
    BY <1>4, <1>7, <2>1, <2>2
<1>8. ASSUME localJob[w].pc \in {"closing", "closed", "counting"} PROVE IsFinalize(w) /\ job[w].pc = "idle"
  <2>1. ~IsGroup(w)
    BY <1>1, <1>8, RunningGroup DEF GroupPcs
  <2> QED
    BY <1>4, <1>8, <2>1
<1>9. ASSUME localJob[w].pc \in {"refreshing", "saving"} PROVE Untranscribed = {}
  BY <1>9 DEF LocalCountInv
<1>10. ASSUME localJob[w].pc \in {"closed", "refreshing", "saving"}, LocalRaise(w),
              UNCHANGED <<queue, job, bot, status, attempts, alone, gathered, trState>>
       PROVE  OneWriter' /\ LocalCountInv'
  <2>1. Leave(w) /\ (Stays(w) \/ PutsBack(w))
    BY <1>10, RaisedTurn DEF LocalRaise
  <2> QED
    BY <1>6, <1>7, <1>10, <2>1
<1>11. ASSUME Finalize(w) PROVE OneWriter' /\ LocalCountInv'
  <2> USE <1>11 DEF Finalize, history
  <2> DEFINE next == [pc |-> "closing"]
  <2>1. Turns(w, next) /\ next.pc = "closing" /\ next \in FinalizeTasks
    BY DEF Turns, FinalizeTasks
  <2> HIDE DEF next
  <2>2. Held(w) = {} /\ Held(w)' = {} /\ job[w].pc = "idle" /\ Free(w)
    <3>1. Held(w) = {} /\ job[w].pc = "idle"
      BY DEF Held, IsGroup, Free
    <3>2. UNCHANGED job
      BY <1>2
    <3>3. next \notin RunningGroups
      BY <2>1 DEF RunningGroups, FinalizeTasks
    <3> QED
      BY <1>1, <2>1, <3>1, <3>2, <3>3, HeldByTurn
  <2>3. UNCHANGED <<groupQueue, gathered>> \/ SendsOff(w)
    <3>1. CASE groupQueue' = Send1(gathered) /\ gathered' = <<>> /\ gathered # <<>>
      <4> DEFINE m == [members |-> gathered, retries |-> 0]
      <4>1. m \in GoodMessages /\ m.members = gathered
        BY <1>1, <3>1, LocalBounds DEF LocalTyped, GoodMessages
      <4>2. groupQueue' = groupQueue \cup {m} /\ Range(gathered)' = {}
        BY <3>1 DEF Send1, Range
      <4> HIDE DEF m
      <4> QED
        BY <2>2, <4>1, <4>2 DEF SendsOff
    <3>2. CASE groupQueue' = Send1(gathered) /\ gathered' = <<>> /\ gathered = <<>>
      BY <3>2 DEF Send1
    <3> QED
      BY <3>1, <3>2
  <2>4. UNCHANGED <<queue, job, bot, status, attempts, alone, trState>>
    BY <1>2
  <2> QED
    BY <1>5, <2>1, <2>2, <2>3, <2>4
<1>12. ASSUME NEW pc \in {"closed", "counting", "refreshing", "saving"}, Step(w, pc), IsFinalize(w)
       PROVE  \E next : Turns(w, next) /\ next \in FinalizeTasks /\ next.pc = pc
  <2> DEFINE next == [localJob[w] EXCEPT !.pc = pc]
  <2>1. Turns(w, next) /\ next \in FinalizeTasks /\ next.pc = pc
    BY <1>1, <1>12, FinalizeStepTurns
  <2> QED
    BY <2>1
<1>13. ASSUME Close(w) PROVE OneWriter' /\ LocalCountInv'
  <2> USE <1>13 DEF Close, history
  <2>1. UNCHANGED <<queue, job, bot, status, attempts, alone, trState, gathered, groupQueue>>
    BY DEF utterances
  <2>2. CASE Leave(w)
    BY <1>6, <1>7, <2>1, <2>2, EndedTurn
  <2>3. CASE Step(w, "closed")
    BY <1>5, <1>8, <1>12, <2>1, <2>3
  <2> QED
    BY <2>2, <2>3
<1>14. ASSUME CloseSave(w) PROVE OneWriter' /\ LocalCountInv'
  <2> USE <1>14 DEF CloseSave, history
  <2>1. UNCHANGED <<queue, job, bot, status, attempts, alone, trState, gathered, groupQueue>>
    BY DEF utterances
  <2> QED
    BY <1>5, <1>8, <1>12, <2>1
<1>15. ASSUME CountAtClose(w) PROVE OneWriter' /\ LocalCountInv'
  <2> USE <1>15 DEF CountAtClose, history
  <2>1. UNCHANGED <<queue, job, bot, status, attempts, alone, trState, gathered, groupQueue>>
    BY <1>2
  <2>2. CASE Leave(w)
    BY <1>6, <1>7, <2>1, <2>2, EndedTurn
  <2>3. CASE Step(w, "refreshing") /\ Untranscribed = {}
    BY <1>5, <1>8, <1>12, <2>1, <2>3
  <2> QED
    BY <2>2, <2>3
<1>16. ASSUME LocalRefresh(w) PROVE OneWriter' /\ LocalCountInv'
  <2> USE <1>16 DEF LocalRefresh, history
  <2>1. UNCHANGED <<queue, job, bot, status, attempts, alone, trState, gathered>> /\ job[w].pc = "idle"
    BY <1>4 DEF utterances
  <2>2. CASE Leave(w) /\ UNCHANGED groupQueue
    BY <1>6, <1>7, <2>1, <2>2, EndedTurn
  <2>3. CASE LocalRaise(w)
    BY <1>10, <2>1, <2>3
  <2>4. CASE Step(w, "saving") /\ UNCHANGED groupQueue /\ IsFinalize(w)
    BY <1>5, <1>9, <1>12, <2>1, <2>4
  <2>5. CASE Step(w, "saving") /\ UNCHANGED groupQueue /\ IsGroup(w)
    <3> DEFINE next == [localJob[w] EXCEPT !.pc = "saving"]
    <3>1. "saving" \in GroupPcs
      BY DEF GroupPcs
    <3>2. Turns(w, next) /\ next.pc = "saving" /\ next.message = localJob[w].message /\ next.at = localJob[w].at
      BY <1>1, <2>5, <3>1, GroupStepTurns
    <3>3. next \in RunningGroups
      BY <1>1, <2>5, <3>1, RunningGroup, GroupExcept
    <3> HIDE DEF next
    <3> QED
      BY <1>9, <2>1, <2>5, <3>2, <3>3, GoingOnKeepsWriter
  <2> QED
    BY <1>4, <2>2, <2>3, <2>4, <2>5
<1>17. ASSUME LocalSave(w) PROVE OneWriter' /\ LocalCountInv'
  <2> USE <1>17 DEF LocalSave, history
  <2>1. UNCHANGED <<queue, job, bot, status, attempts, alone, gathered, groupQueue>>
    BY DEF utterances
  <2> QED
    BY <1>6, <1>7, <1>9, <2>1, EndedTurn
<1>18. ASSUME LocalConflict(w) PROVE OneWriter' /\ LocalCountInv'
  BY <1>2, <1>10, <1>18 DEF LocalConflict, history
<1>19. ASSUME LocalCrash(w) PROVE OneWriter' /\ LocalCountInv'
  <2> USE <1>19 DEF LocalCrash, history
  <2>1. UNCHANGED <<queue, job, bot, status, attempts, alone, gathered, trState>>
    BY DEF utterances
  <2>2. CASE IsFinalize(w)
    BY <1>3, <1>6, <2>1, <2>2, EndedTurn
  <2>3. CASE ~IsFinalize(w)
    <3>1. IsGroup(w)
      BY <2>3 DEF IsGroup
    <3> QED
      BY <1>6, <2>1, <2>3, <3>1, EndedTurn
  <2> QED
    BY <2>2, <2>3
<1> QED
  BY <1>11, <1>13, <1>14, <1>15, <1>16, <1>17, <1>18, <1>19 DEF Closing, Completing

LEMMA GatheredGrows ==
    ASSUME NEW g \in GoodGroups \cup {<<>>}, NEW u \in Utterances
    PROVE  Range(Append(g, u)) = Range(g) \cup {u}
<1>1. g \in Seq(Utterances)
  <2>1. CASE g \in GoodGroups
    BY <2>1 DEF GoodGroups
  <2>2. CASE g = <<>>
    BY <2>2
  <2> QED
    BY <2>1, <2>2
<1> DEFINE more == Append(g, u)
<1>2. /\ DOMAIN more = DOMAIN g \cup {Len(g) + 1} /\ more[Len(g) + 1] = u
      /\ \A i \in DOMAIN g : more[i] = g[i]
  BY <1>1
<1> QED
  BY <1>2 DEF Range

\* The drains cut utterances nobody has, and send the group they gathered.
LEMMA DrainWriterStep ==
    ASSUME LocalStateInv, OneWriter, LocalCountInv,
           (\E u \in Utterances : LocalCut(u)) \/ DispatchGroup \/ Stop
    PROVE  OneWriter' /\ LocalCountInv'
<1>1. /\ LocalTyped /\ TypeOK /\ ClosingInv /\ GroupsCut /\ MeetingInv /\ NobodyElse
      /\ \A v \in Workers : IsGroup(v) => Members(v) \in GoodGroups
      /\ \A m \in groupQueue : m.members \in GoodGroups
  BY RunningGroup DEF LocalStateInv, StateInv, LocalTyped, GoodMessages
<1>2. /\ OneTaskEach /\ OnePlace
      /\ \A u \in Utterances : WaiterAgrees(u, FALSE) /\ AloneAgrees(u)
      /\ \A v \in Workers : TaskOfWaiter(v, FALSE) /\ GroupAgrees(v)
      /\ \A u \in Range(gathered) : u \notin alone
      /\ \A u \in Utterances : status[u] = "pending" /\ u \notin alone => Placed(u)
  BY DEF OneWriter
<1>3. ASSUME UNCHANGED localJob
      PROVE  \A v \in Workers : Held(v)' = Held(v) /\ (IsGroup(v)' <=> IsGroup(v))
  BY <1>3 DEF Held, IsGroup, IsFinalize, Members
<1>4. ASSUME NEW u \in Utterances, LocalCut(u) PROVE OneWriter' /\ LocalCountInv'
  <2> USE <1>4 DEF LocalCut, history, botAndRetry
  <2>1. /\ status[u] = "none" /\ status'[u] = "pending" /\ \A x \in Utterances \ {u} : status'[x] = status[x]
        /\ UNCHANGED <<queue, job, bot, attempts, localJob, groupQueue, alone>>
    BY <1>1 DEF TypeOK
  <2>2. u \notin alone /\ ~Sent(u) /\ ~Sent(u)'
    BY <1>2, <2>1 DEF AloneAgrees, Sent
  <2>3. /\ \A m \in Messages : queue[m] > 0 => m[1] # u
        /\ \A v \in Workers : job[v].pc # "idle" => job[v].utt # u /\ job[v].utt \in Utterances
    BY <1>1, <1>2, <2>1, RunningTask DEF OneTaskEach, QueueInv, WorkersInv
  <2>4. \A n \in 0 .. MaxRetries : ~(queue[<<u, n>>] > 0)
    BY <2>2 DEF Sent
  <2>5. OneTaskEach'
    <3>1. \A m \in Messages : m[1] \in Utterances
      BY DEF Messages
    <3>2. bot.hand = {}
      BY <1>1 DEF NobodyElse, IdleBot
    <3> QED
      BY <1>2, <2>1, <2>3, <3>1, <3>2 DEF OneTaskEach, QueueInv, WorkersInv
  <2>6. ASSUME NEW x \in Utterances PROVE WaiterAgrees(x, FALSE)' /\ AloneAgrees(x)'
    <3>1. CASE x = u
      BY <2>1, <2>2, <2>4, <3>1 DEF WaiterAgrees, AloneAgrees
    <3>2. CASE x # u
      BY <1>2, <2>1, <3>2 DEF WaiterAgrees, AloneAgrees, Sent
    <3> QED
      BY <3>1, <3>2
  <2>7. \A v \in Workers : TaskOfWaiter(v, FALSE)'
    BY <1>2, <2>1, <2>3 DEF TaskOfWaiter
  <2>8. Range(gathered)' = Range(gathered) \cup {u}
    BY <1>1, GatheredGrows DEF LocalTyped
  <2>9. /\ \A m \in groupQueue : u \notin Range(m.members)
        /\ \A v \in Workers : u \notin Held(v)
    BY <1>1, <2>1 DEF GroupsCut, Held
  <2>10. OnePlace'
    <3>1. groupQueue' = groupQueue /\ \A v \in Workers : Held(v)' = Held(v)
      BY <1>3, <2>1
    <3> HIDE <1>4
    <3>2. \A m \in groupQueue : Apart(Range(m.members), Range(gathered)')
      BY <1>2, <2>8, <2>9 DEF OnePlace, Apart
    <3>3. \A v \in Workers : Apart(Held(v), Range(gathered)')
      BY <1>2, <2>8, <2>9 DEF OnePlace, Apart
    <3> QED
      BY <1>2, <3>1, <3>2, <3>3 DEF OnePlace, Apart
  <2>11. ASSUME NEW v \in Workers, IsGroup(v) PROVE MembersAgree(localJob[v])'
    <3>1. \A i \in DOMAIN Members(v) : Members(v)[i] \in Utterances \ {u}
      BY <1>1, <2>9, <2>11, GroupsAreSequences DEF Held
    <3>2. MembersAgree(localJob[v])
      BY <1>2, <2>11 DEF GroupAgrees
    <3> QED
      BY <2>1, <3>1, <3>2 DEF MembersAgree, Members
  <2>12. \A v \in Workers : GroupAgrees(v)'
    BY <1>3, <2>1, <2>11 DEF GroupAgrees
  <2>13. \A x \in Utterances : status'[x] = "pending" /\ x \notin alone' => Placed(x)'
    BY <1>2, <1>3, <2>1, <2>8 DEF Placed
  <2>14. LocalCountInv'
    <3>1. recState = "IN_PROGRESS" /\ trState' = "IN_PROGRESS"
      BY <1>1 DEF ClosingInv
    <3>2. \A v \in Workers : /\ localJob[v].pc \notin {"refreshing", "saving"}
                             /\ job[v].pc \notin {"refreshing", "saving"}
      BY <1>1, <3>1 DEF ClosingInv, MeetingInv, Terminal, TerminalStates
    <3> QED
      BY <2>1, <3>1, <3>2 DEF LocalCountInv, CountInv
  <2>15. \A x \in Range(gathered)' : x \notin alone'
    BY <1>2, <2>1, <2>2, <2>8
  <2> QED
    BY <2>5, <2>6, <2>7, <2>10, <2>12, <2>13, <2>14, <2>15 DEF OneWriter
<1>5. ASSUME DispatchGroup \/ Stop PROVE OneWriter' /\ LocalCountInv'
  <2> USE <1>5
  <2>1. UNCHANGED <<trState, queue, job, bot, status, attempts, localJob, alone>>
    BY DEF DispatchGroup, Stop, vars, recording, utterances, history
  <2>2. /\ OneTaskEach' /\ Untranscribed' = Untranscribed
        /\ \A u \in Utterances : WaiterAgrees(u, FALSE)' /\ Sent(u)' = Sent(u)
        /\ \A v \in Workers : TaskOfWaiter(v, FALSE)'
    BY <1>1, <1>2, <2>1, RestingTasks
  <2>3. \/ UNCHANGED <<gathered, groupQueue>>
        \/ /\ Range(gathered)' = {}
           /\ \E n \in GoodMessages : Range(n.members) = Range(gathered) /\ groupQueue' = groupQueue \cup {n}
    <3>1. CASE DispatchGroup
      <4> DEFINE m == [members |-> gathered, retries |-> 0]
      <4>1. m \in GoodMessages /\ m.members = gathered
        BY <1>1, <3>1, LocalBounds DEF DispatchGroup, LocalTyped, GoodMessages
      <4>2. groupQueue' = groupQueue \cup {m} /\ Range(gathered)' = {}
        BY <3>1 DEF DispatchGroup, Send1, Range
      <4> HIDE DEF m
      <4> QED
        BY <4>1, <4>2
    <3>2. CASE Stop
      BY <3>2 DEF Stop
    <3> QED
      BY <3>1, <3>2
  <2>4. OnePlace' /\ \A u \in Utterances : Placed(u) => Placed(u)'
    <3>1. CASE UNCHANGED <<gathered, groupQueue>>
      BY <1>2, <1>3, <2>1, <3>1 DEF OnePlace, Placed
    <3>2. ASSUME Range(gathered)' = {}, NEW n \in GoodMessages, Range(n.members) = Range(gathered),
                 groupQueue' = groupQueue \cup {n}
          PROVE  OnePlace' /\ \A u \in Utterances : Placed(u) => Placed(u)'
      <4>1. OnePlace'
        BY <1>2, <1>3, <2>1, <3>2 DEF OnePlace, Apart
      <4>2. \A u \in Utterances : Placed(u) => Placed(u)'
        BY <1>3, <2>1, <3>2 DEF Placed
      <4> QED
        BY <4>1, <4>2
    <3> QED
      BY <2>3, <3>1, <3>2
  <2>5. \A u \in Utterances : AloneAgrees(u)'
    BY <1>2, <2>1, <2>2 DEF AloneAgrees
  <2>6. \A v \in Workers : GroupAgrees(v)'
    BY <1>2, <1>3, <2>1 DEF GroupAgrees, MembersAgree
  <2>7. Range(gathered)' \subseteq Range(gathered)
    BY <2>3
  <2>8. LocalCountInv'
    BY <2>1, <2>2 DEF LocalCountInv, CountInv
  <2> QED
    BY <1>2, <2>1, <2>2, <2>4, <2>5, <2>6, <2>7, <2>8 DEF OneWriter
<1> QED
  BY <1>4, <1>5

\* The member of a group that is next has no task of its own.
LEMMA NextMember ==
    ASSUME LocalStateInv, OneWriter, NEW w \in Workers, IsGroup(w), localJob[w].pc \in {"writing", "falling"},
           NEW u, u = Members(w)[localJob[w].at]
    PROVE  /\ u \in Utterances /\ u \in Held(w) /\ u \notin alone /\ ~Sent(u)
           /\ status[u] # "none" /\ bot.hand = {}
           /\ \A m \in Messages : m[1] = u => ~(queue[m] > 0)
           /\ \A v \in Workers : job[v].pc # "idle" => job[v].utt \in Utterances \ {u}
           /\ u \notin Range(gathered) /\ \A v \in Workers \ {w} : u \notin Held(v)
<1>1. LocalTyped /\ TypeOK /\ NobodyElse /\ GroupsCut
  BY DEF LocalStateInv, StateInv
<1>2. /\ localJob[w] \in RunningGroups /\ Members(w) \in GoodGroups
      /\ localJob[w].at \in DOMAIN Members(w) /\ localJob[w].message.members = Members(w)
  BY <1>1, RunningGroup DEF Members
<1>3. u \in Utterances /\ u \in Held(w) /\ localJob[w].at \in Nat
  BY <1>2, GroupsAreSequences DEF Held
<1>4. u \notin alone
  <2>1. MembersAgree(localJob[w])
    BY DEF OneWriter, GroupAgrees
  <2>2. localJob[w].at <= localJob[w].at
    BY <1>3
  <2> QED
    BY <1>2, <2>1, <2>2 DEF MembersAgree
<1>5. ~Sent(u)
  BY <1>3, <1>4 DEF OneWriter, AloneAgrees
<1>6. status[u] # "none" /\ bot.hand = {}
  BY <1>1, <1>3 DEF GroupsCut, Held, NobodyElse, IdleBot
<1>7. \A m \in Messages : m[1] = u => ~(queue[m] > 0)
  <2>1. ASSUME NEW m \in Messages, m[1] = u PROVE m[2] \in 0 .. MaxRetries /\ m = <<u, m[2]>>
    BY <2>1 DEF Messages
  <2> QED
    BY <1>5, <2>1 DEF Sent
<1>8. \A v \in Workers : job[v].pc # "idle" => job[v].utt \in Utterances \ {u}
  BY <1>1, <1>5, RunningTask DEF Sent
<1>9. u \notin Range(gathered) /\ \A v \in Workers \ {w} : u \notin Held(v)
  BY <1>3 DEF OneWriter, OnePlace, Apart
<1> QED
  BY <1>3, <1>4, <1>5, <1>6, <1>7, <1>8, <1>9

LEMMA WriteRowWriterStep ==
    ASSUME LocalStateInv, OneWriter, LocalCountInv, NEW w \in Workers, WriteRow(w)
    PROVE  OneWriter' /\ LocalCountInv'
<1> DEFINE at == localJob[w].at
           u == Members(w)[at]
<1>1. /\ LocalTyped /\ TypeOK /\ IsGroup(w) /\ localJob[w].pc = "writing" /\ localJob[w].pc # "idle"
      /\ UNCHANGED <<queue, job, bot, attempts, alone, trState, groupQueue, gathered>>
  BY DEF LocalStateInv, StateInv, WriteRow, IsGroup, recording, history
<1>2. /\ u \in Utterances /\ u \in Held(w) /\ u \notin alone /\ ~Sent(u)
      /\ status[u] # "none" /\ bot.hand = {}
      /\ \A v \in Workers : job[v].pc # "idle" => job[v].utt \in Utterances \ {u}
  BY <1>1, NextMember
<1>3. status'[u] = "text" /\ \A x \in Utterances \ {u} : status'[x] = status[x]
  BY <1>1, <1>2 DEF WriteRow, TypeOK
<1>4. /\ localJob[w] \in RunningGroups /\ Members(w) \in GoodGroups
      /\ at \in DOMAIN Members(w) /\ localJob[w].message.members = Members(w) /\ job[w].pc = "idle"
  BY <1>1, RunningGroup DEF Members
<1>5. DOMAIN Members(w) = 1 .. Len(Members(w)) /\ Len(Members(w)) \in Nat /\ at \in Nat
      /\ \A i \in DOMAIN Members(w) : Members(w)[i] \in Utterances
  BY <1>4, GroupsAreSequences
<1>6. PICK next \in RunningGroups :
         /\ Turns(w, next) /\ next.message = localJob[w].message
         /\ \/ next.pc = "marking" /\ at = Len(Members(w))
            \/ next.pc = "writing" /\ next.at = at + 1
  <2>1. CASE at = Len(Members(w))
    <3> DEFINE next == [localJob[w] EXCEPT !.pc = "marking"]
    <3>1. "marking" \in GroupPcs /\ Step(w, "marking")
      BY <2>1 DEF GroupPcs, WriteRow, Step
    <3>2. Turns(w, next) /\ next.pc = "marking" /\ next.message = localJob[w].message
      BY <1>1, <3>1, GroupStepTurns
    <3>3. next \in RunningGroups
      BY <1>4, <3>1, GroupExcept
    <3> HIDE DEF next
    <3> QED
      BY <2>1, <3>2, <3>3
  <2>2. CASE at # Len(Members(w))
    <3> DEFINE next == [localJob[w] EXCEPT !.at = at + 1]
    <3>1. localJob' = [localJob EXCEPT ![w].at = at + 1]
      BY <2>2 DEF WriteRow
    <3>2. Turns(w, next) /\ next \in RunningGroups /\ next.pc = "writing"
          /\ next.message = localJob[w].message /\ next.at = at + 1
      BY <1>1, <2>2, <3>1, NextMemberTurns
    <3> HIDE DEF next
    <3> QED
      BY <3>2
  <2> QED
    BY <2>1, <2>2
<1>7. /\ Held(w)' = Held(w) /\ (IsGroup(w)' <=> next \in RunningGroups) /\ localJob'[w] = next
      /\ \A v \in Workers \ {w} : /\ Held(v)' = Held(v) /\ localJob'[v] = localJob[v]
                                  /\ IsGroup(v)' <=> IsGroup(v)
  BY <1>1, <1>4, <1>6, HeldByTurn DEF Held
<1>8. /\ OneTaskEach /\ MembersAgree(localJob[w])
      /\ \A x \in Utterances : WaiterAgrees(x, FALSE) /\ AloneAgrees(x)
      /\ \A v \in Workers : TaskOfWaiter(v, FALSE) /\ GroupAgrees(v)
      /\ \A x \in Utterances : status[x] = "pending" /\ x \notin alone => Placed(x)
  BY <1>1 DEF OneWriter, GroupAgrees
<1>9. OneTaskEach'
  <2>1. \A m \in Messages : m[1] \in Utterances
    BY DEF Messages
  <2> QED
    BY <1>1, <1>2, <1>3, <1>8, <2>1 DEF OneTaskEach, QueueInv, WorkersInv
<1>10. ASSUME NEW x \in Utterances PROVE WaiterAgrees(x, FALSE)' /\ AloneAgrees(x)'
  BY <1>1, <1>2, <1>3, <1>8 DEF WaiterAgrees, AloneAgrees, Sent
<1>11. \A v \in Workers : TaskOfWaiter(v, FALSE)'
  BY <1>1, <1>2, <1>3, <1>8 DEF TaskOfWaiter
<1>12. ASSUME NEW v \in Workers PROVE GroupAgrees(v)'
  <2>1. CASE v = w
    <3>1. \A i \in DOMAIN Members(w) : (i < at + 1 \/ at = Len(Members(w))) => status'[Members(w)[i]] = "text"
      <4>1. \A i \in DOMAIN Members(w) : i < at \/ i = at \/ (i > at /\ ~(i < at + 1) /\ at # Len(Members(w)))
        BY <1>5
      <4>2. \A i \in DOMAIN Members(w) : i < at => status[Members(w)[i]] = "text"
        BY <1>1, <1>4, <1>8 DEF MembersAgree
      <4> QED
        BY <1>3, <1>5, <4>1, <4>2
    <3>2. \A i \in DOMAIN Members(w) : Members(w)[i] \notin alone
      BY <1>1, <1>4, <1>8 DEF MembersAgree
    <3>3. ASSUME NEW task, task = next, localJob'[v] = task PROVE MembersAgree(localJob[v])'
      BY <1>1, <1>4, <1>6, <3>1, <3>2, <3>3 DEF MembersAgree
    <3> QED
      BY <1>7, <2>1, <3>3 DEF GroupAgrees
  <2>2. CASE v # w
    <3>1. ASSUME NEW task, MembersAgree(task), localJob'[v] = task,
                 \A i \in DOMAIN task.message.members : task.message.members[i] \in Utterances
          PROVE  MembersAgree(localJob[v])'
      BY <1>1, <1>3, <3>1 DEF MembersAgree
    <3>2. IsGroup(v) => \A i \in DOMAIN localJob[v].message.members : localJob[v].message.members[i] \in Utterances
      BY <1>1, RunningGroup, GroupsAreSequences DEF Members
    <3> QED
      BY <1>7, <1>8, <2>2, <3>1, <3>2 DEF GroupAgrees
  <2> QED
    BY <2>1, <2>2
<1>13. OnePlace' /\ \A x \in Utterances : Placed(x) => Placed(x)'
  <2>1. Stays(w)
    BY <1>1, <1>7 DEF Stays
  <2> QED
    BY <1>7, <2>1, MovingKeepsOnePlace DEF MovesGroup, OneWriter
<1>14. \A x \in Range(gathered)' : x \notin alone'
  BY <1>1 DEF OneWriter
<1>15. \A x \in Utterances : status'[x] = "pending" /\ x \notin alone' => Placed(x)'
  BY <1>1, <1>3, <1>8, <1>13
<1>16. LocalCountInv'
  <2>1. Untranscribed' \subseteq Untranscribed
    BY <1>3 DEF Untranscribed
  <2>2. next.pc \notin {"refreshing", "saving"}
    BY <1>6
  <2> QED
    BY <1>1, <1>7, <2>1, <2>2 DEF LocalCountInv, CountInv
<1> QED
  BY <1>9, <1>10, <1>11, <1>12, <1>13, <1>14, <1>15, <1>16 DEF OneWriter

LEMMA FallBackWriterStep ==
    ASSUME LocalStateInv, OneWriter, LocalCountInv, NEW w \in Workers, FallBack(w),
           NEW at, at = localJob[w].at, NEW u, u = Members(w)[at]
    PROVE  OneWriter' /\ LocalCountInv'
<1>1. /\ LocalTyped /\ TypeOK /\ IsGroup(w) /\ localJob[w].pc = "falling" /\ localJob[w].pc # "idle"
      /\ UNCHANGED <<status, attempts, job, bot, trState, groupQueue, gathered>>
      /\ Put(u, 0) /\ alone' = alone \cup {u}
  BY DEF LocalStateInv, StateInv, FallBack, IsGroup, recording, utterances
<1>2. /\ u \in Utterances /\ u \in Held(w) /\ u \notin alone /\ ~Sent(u)
      /\ status[u] # "none" /\ bot.hand = {}
      /\ \A m \in Messages : m[1] = u => ~(queue[m] > 0)
      /\ \A v \in Workers : job[v].pc # "idle" => job[v].utt \in Utterances \ {u}
      /\ u \notin Range(gathered) /\ \A v \in Workers \ {w} : u \notin Held(v)
  BY <1>1, NextMember
<1>3. /\ localJob[w] \in RunningGroups /\ Members(w) \in GoodGroups
      /\ at \in DOMAIN Members(w) /\ localJob[w].message.members = Members(w) /\ job[w].pc = "idle"
  BY <1>1, RunningGroup DEF Members
<1>4. DOMAIN Members(w) = 1 .. Len(Members(w)) /\ Len(Members(w)) \in Nat /\ at \in Nat
      /\ (\A i \in DOMAIN Members(w) : Members(w)[i] \in Utterances)
      /\ (\A i, j \in DOMAIN Members(w) : Members(w)[i] = Members(w)[j] => i = j)
  BY <1>3, GroupsAreSequences
<1>5. PICK next \in RunningGroups \cup {NoTask} :
         /\ Turns(w, next)
         /\ \/ next = NoTask /\ at = Len(Members(w))
            \/ /\ next \in RunningGroups /\ next.pc = "falling" /\ next.at = at + 1
               /\ next.message = localJob[w].message
  <2>1. CASE at = Len(Members(w))
    BY <2>1, LeavingTurns DEF FallBack
  <2>2. CASE at # Len(Members(w))
    <3> DEFINE next == [localJob[w] EXCEPT !.at = at + 1]
    <3>1. localJob' = [localJob EXCEPT ![w].at = at + 1]
      BY <2>2 DEF FallBack
    <3>2. Turns(w, next) /\ next \in RunningGroups /\ next.pc = "falling"
          /\ next.message = localJob[w].message /\ next.at = at + 1
      BY <1>1, <2>2, <3>1, NextMemberTurns
    <3> HIDE DEF next
    <3> QED
      BY <3>2
  <2> QED
    BY <2>1, <2>2
<1>6. NoTask \notin RunningGroups
  BY DEF NoTask, RunningGroups, GroupPcs
<1>7. /\ Held(w)' = IF next \in RunningGroups THEN Held(w) ELSE {}
      /\ IsGroup(w)' <=> next \in RunningGroups
      /\ localJob'[w] = next
      /\ \A v \in Workers \ {w} : /\ Held(v)' = Held(v) /\ localJob'[v] = localJob[v]
                                  /\ IsGroup(v)' <=> IsGroup(v)
  BY <1>1, <1>3, <1>5, <1>6, HeldByTurn DEF Held
<1>8. /\ OneTaskEach /\ MembersAgree(localJob[w])
      /\ \A x \in Utterances : WaiterAgrees(x, FALSE) /\ AloneAgrees(x)
      /\ \A v \in Workers : TaskOfWaiter(v, FALSE) /\ GroupAgrees(v)
      /\ \A x \in Utterances : status[x] = "pending" /\ x \notin alone => Placed(x)
  BY <1>1 DEF OneWriter, GroupAgrees
<1> DEFINE put == <<u, 0>>
<1>9. /\ put \in Messages /\ put[1] = u
      /\ queue'[put] = 1 /\ \A m \in Messages : m # put => queue'[m] = queue[m]
  <2>1. put \in Messages /\ put[1] = u /\ 0 \in 0 .. MaxRetries
    BY <1>2, BoundsAssumption DEF Messages
  <2>2. queue[put] \in Nat /\ ~(queue[put] > 0)
    BY <1>1, <1>2, <2>1 DEF TypeOK
  <2>3. queue'[put] = queue[put] + 1
    BY <1>1, <2>1 DEF Put, TypeOK
  <2>4. \A m \in Messages : m # put => queue'[m] = queue[m]
    BY <1>1, <1>2, <2>1, PutEffect
  <2> QED
    BY <2>1, <2>2, <2>3, <2>4
<1>10. \A m \in Messages : queue'[m] > 0 /\ m[1] = u => m = put
  BY <1>2, <1>9
<1>11. OneTaskEach'
  <2>1. \A m \in Messages : m[1] \in Utterances
    BY DEF Messages
  <2>2. \A m \in Messages : m[1] # u => queue'[m] = queue[m]
    BY <1>9
  <2> HIDE DEF put
  <2>3. QueueInv'
    BY <1>1, <1>2, <1>8, <1>9, <1>10, <2>1, <2>2 DEF OneTaskEach, QueueInv
  <2>4. WorkersInv'
    BY <1>1, <1>2, <1>8, <1>9, <1>10, <2>1, <2>2 DEF OneTaskEach, WorkersInv
  <2> QED
    BY <1>1, <1>8, <2>3, <2>4 DEF OneTaskEach
<1>12. ASSUME NEW x \in Utterances PROVE WaiterAgrees(x, FALSE)' /\ AloneAgrees(x)'
  <2>1. CASE x = u
    <3>1. Sent(u)'
      <4>1. 0 \in 0 .. MaxRetries /\ u \in Utterances /\ TypeOK /\ Put(u, 0)
        BY <1>1, <1>2, BoundsAssumption
      <4> QED
        BY <4>1, PutIsSent
    <3>2. \A n \in 0 .. MaxRetries : queue'[<<u, n>>] > 0 => n = 0
      <4>1. ASSUME NEW n \in 0 .. MaxRetries, queue'[<<u, n>>] > 0 PROVE n = 0
        <5>1. <<u, n>> \in Messages /\ <<u, n>>[1] = u
          BY <1>2 DEF Messages
        <5>2. <<u, n>> = put
          BY <1>10, <4>1, <5>1
        <5> QED
          BY <5>2
      <4> QED
        BY <4>1
    <3>3. attempts[u] \in Nat /\ 0 <= attempts[u]
      BY <1>1, <1>2, BoundsAssumption DEF TypeOK
    <3>4. WaiterAgrees(x, FALSE)'
      BY <1>1, <2>1, <3>2, <3>3 DEF WaiterAgrees
    <3>5. u \in alone' /\ status'[u] # "none"
      BY <1>1, <1>2
    <3>6. AloneAgrees(u)'
      BY <3>1, <3>5 DEF AloneAgrees
    <3> QED
      BY <2>1, <3>4, <3>6
  <2>2. CASE x # u
    <3>1. \A n \in 0 .. MaxRetries : queue'[<<x, n>>] = queue[<<x, n>>]
      <4>1. \A n \in 0 .. MaxRetries : <<x, n>> \in Messages /\ <<x, n>> # put
        BY <2>2 DEF Messages
      <4> QED
        BY <1>9, <4>1
    <3>2. Sent(x)' <=> Sent(x)
      BY <1>1, <3>1 DEF Sent
    <3> QED
      BY <1>1, <1>8, <2>2, <3>1, <3>2 DEF WaiterAgrees, AloneAgrees
  <2> QED
    BY <2>1, <2>2
<1>13. \A v \in Workers : TaskOfWaiter(v, FALSE)'
  BY <1>1, <1>8 DEF TaskOfWaiter
<1>14. ASSUME NEW i \in DOMAIN Members(w)
       PROVE  /\ i < at + 1 => Members(w)[i] \in alone'
              /\ at + 1 <= i => Members(w)[i] \notin alone'
  <2>1. i \in Nat /\ (i < at + 1 => i < at \/ i = at) /\ (at + 1 <= i => at <= i /\ i # at)
    BY <1>4
  <2>2. (i < at => Members(w)[i] \in alone) /\ (at <= i => Members(w)[i] \notin alone)
    BY <1>1, <1>3, <1>8 DEF MembersAgree
  <2>3. i # at => Members(w)[i] # u
    BY <1>3, <1>4
  <2> QED
    BY <1>1, <2>1, <2>2, <2>3
<1>15. ASSUME NEW v \in Workers PROVE GroupAgrees(v)'
  <2>1. CASE v = w
    <3>1. ASSUME NEW task, task = next, localJob'[v] = task, next \in RunningGroups
          PROVE  MembersAgree(localJob[v])'
      BY <1>3, <1>5, <1>6, <1>14, <3>1 DEF MembersAgree
    <3> QED
      BY <1>7, <2>1, <3>1 DEF GroupAgrees
  <2>2. CASE v # w
    <3>1. ASSUME NEW task, MembersAgree(task), localJob'[v] = task,
                 \A i \in DOMAIN task.message.members : task.message.members[i] # u
          PROVE  MembersAgree(localJob[v])'
      BY <1>1, <3>1 DEF MembersAgree
    <3>2. IsGroup(v) => \A i \in DOMAIN localJob[v].message.members : localJob[v].message.members[i] # u
      BY <1>2, <2>2 DEF Held, Members, Range
    <3> QED
      BY <1>7, <1>8, <2>2, <3>1, <3>2 DEF GroupAgrees
  <2> QED
    BY <2>1, <2>2
<1>16. Stays(w)
  BY <1>1, <1>7 DEF Stays
<1>17. OnePlace' /\ \A x \in Utterances : Placed(x) => Placed(x)' \/ x \in Held(w) \ Held(w)'
  BY <1>7, <1>16, MovingKeepsOnePlace DEF MovesGroup, OneWriter
<1>18. \A x \in Range(gathered)' : x \notin alone'
  BY <1>1, <1>2 DEF OneWriter
<1>19. \A x \in Held(w) \ Held(w)' : x \in alone'
  <2>1. ASSUME NEW i \in DOMAIN Members(w), next = NoTask PROVE Members(w)[i] \in alone'
    <3>1. i < at + 1
      BY <1>4, <1>5, <1>6, <2>1
    <3> QED
      BY <1>14, <3>1
  <2>2. next \notin RunningGroups => next = NoTask
    BY <1>5
  <2> QED
    BY <1>1, <1>7, <2>1, <2>2 DEF Held, Range
<1>20. \A x \in Utterances : status'[x] = "pending" /\ x \notin alone' => Placed(x)'
  BY <1>1, <1>8, <1>17, <1>19
<1>21. LocalCountInv'
  <2>1. Untranscribed' = Untranscribed
    BY <1>1 DEF Untranscribed
  <2>2. next.pc \notin {"refreshing", "saving"}
    BY <1>5 DEF NoTask
  <2> QED
    BY <1>1, <1>7, <2>1, <2>2 DEF LocalCountInv, CountInv
<1> QED
  BY <1>11, <1>12, <1>13, <1>15, <1>17, <1>18, <1>20, <1>21 DEF OneWriter

\* process_utterance on a row that was sent to it: no group has that row.
LEMMA UtteranceWriterStep ==
    ASSUME LocalStateInv, OneWriter, LocalCountInv, NEW w \in Workers, ProcessUtterance(w) \/ Crash(w),
           UNCHANGED <<gathered, groupQueue, localJob, alone>>
    PROVE  OneWriter' /\ LocalCountInv'
<1>1. /\ StateInv /\ TypeOK /\ LocalTyped /\ OneTaskEach /\ CountInv
      /\ \A x \in Utterances : WaiterAgrees(x, FALSE) /\ AloneAgrees(x)
      /\ \A v \in Workers : TaskOfWaiter(v, FALSE) /\ GroupAgrees(v)
      /\ \A x \in Utterances : status[x] = "pending" /\ x \notin alone => Placed(x)
  BY DEF LocalStateInv, StateInv, OneWriter, LocalCountInv
<1>2. OneTaskEach' /\ CountInv'
  BY <1>1, WorkerTaskStep
<1>3. PICK u \in Utterances : TouchesOnly(w, u) /\ Lasts(w, u, FALSE)
  BY <1>1, WorkerWaits
<1>4. u \in alone /\ Sent(u)
  BY <1>1, <1>3 DEF TouchesOnly, AloneAgrees
<1>5. \A x \in Utterances \ {u} : status'[x] = status[x] /\ attempts'[x] = attempts[x] /\ (Sent(x)' <=> Sent(x))
  BY <1>3, TouchesKeepsSent DEF TouchesOnly
<1>6. ASSUME NEW x \in Utterances PROVE WaiterAgrees(x, FALSE)' /\ AloneAgrees(x)'
  <2>1. CASE x = u
    <3>1. status[u] # "none" => status'[u] # "none"
      BY <1>1, WorkerAlone
    <3> QED
      BY <1>1, <1>3, <1>4, <2>1, <3>1 DEF Lasts, AloneAgrees
  <2>2. CASE x # u
    <3>1. \A n \in 0 .. MaxRetries : queue'[<<x, n>>] = queue[<<x, n>>]
      <4>1. \A n \in 0 .. MaxRetries : <<x, n>> \in Messages /\ <<x, n>>[1] # u
        BY <2>2 DEF Messages
      <4> QED
        BY <1>3, <4>1 DEF TouchesOnly
    <3> QED
      BY <1>1, <1>5, <2>2, <3>1 DEF WaiterAgrees, AloneAgrees
  <2> QED
    BY <2>1, <2>2
<1>7. ASSUME NEW v \in Workers PROVE TaskOfWaiter(v, FALSE)'
  <2>1. CASE v = w
    BY <1>3, <2>1 DEF Lasts
  <2>2. CASE v # w
    <3>1. job'[v] = job[v] /\ (job[v].pc # "idle" => job[v].utt \in Utterances \ {u})
      BY <1>1, <1>3, <2>2, RunningTask DEF TouchesOnly
    <3> QED
      BY <1>1, <1>5, <3>1 DEF TaskOfWaiter
  <2> QED
    BY <2>1, <2>2
<1>8. \A v \in Workers : Held(v)' = Held(v) /\ (IsGroup(v)' <=> IsGroup(v))
  BY DEF Held, IsGroup, IsFinalize, Members
<1>9. ASSUME NEW v \in Workers PROVE GroupAgrees(v)'
  <2>1. ASSUME NEW task, MembersAgree(task), localJob'[v] = task, task.pc \in GroupPcs,
               \A i \in DOMAIN task.message.members : task.message.members[i] \in Utterances
        PROVE  MembersAgree(localJob[v])'
    <3>1. \A i \in DOMAIN task.message.members : task.pc # "falling" => task.message.members[i] # u
      BY <1>4, <2>1 DEF MembersAgree
    <3> QED
      BY <1>5, <2>1, <3>1 DEF MembersAgree
  <2>2. IsGroup(v) => /\ localJob[v].pc \in GroupPcs
                      /\ \A i \in DOMAIN localJob[v].message.members : localJob[v].message.members[i] \in Utterances
    BY <1>1, RunningGroup, GroupsAreSequences DEF Members
  <2> QED
    BY <1>1, <1>8, <2>1, <2>2 DEF GroupAgrees
<1>10. OnePlace' /\ \A x \in Utterances : Placed(x)' <=> Placed(x)
  BY <1>8 DEF OneWriter, OnePlace, Placed
<1>11. \A x \in Utterances : status'[x] = "pending" /\ x \notin alone' => Placed(x)'
  BY <1>1, <1>4, <1>5, <1>10
<1>12. LocalCountInv'
  <2>1. Untranscribed = {} => Untranscribed' = {}
    <3>1. ASSUME status' # status PROVE Untranscribed # {}
      <4>1. job[w].pc = "calling"
        BY <3>1 DEF ProcessUtterance, Deliver, Check, Refresh, SaveRecording, SaveConflict, Crash,
                    Transcribed, RetryableFailure, PermanentFailure, utterances
      <4> QED
        BY <1>1, <4>1, RunningTask DEF OneTaskEach, WorkersInv, Untranscribed
    <3> QED
      BY <3>1 DEF Untranscribed
  <2> QED
    BY <1>2, <2>1 DEF LocalCountInv
<1>13. \A x \in Range(gathered)' : x \notin alone'
  BY DEF OneWriter
<1> QED
  BY <1>2, <1>6, <1>7, <1>9, <1>10, <1>11, <1>12, <1>13 DEF OneWriter

LEMMA NobodySentFirst == Init => \A u \in Utterances : ~Sent(u) /\ status[u] = "none"
<1> SUFFICES ASSUME Init, NEW u \in Utterances PROVE ~Sent(u) /\ status[u] = "none"
  OBVIOUS
<1>1. ASSUME NEW n \in 0 .. MaxRetries PROVE ~(queue[<<u, n>>] > 0)
  <2>1. <<u, n>> \in Messages
    BY DEF Messages
  <2>2. queue[<<u, n>>] = 0
    BY <2>1 DEF Init
  <2> QED
    BY <2>2
<1>2. \A w \in Workers : job[w].pc = "idle"
  BY DEF Init, NoTask
<1> QED
  BY <1>1, <1>2 DEF Sent, Init

LEMMA LocalInitInv == LocalInit => LocalInv
<1> SUFFICES ASSUME LocalInit PROVE LocalInv
  OBVIOUS
<1> USE DEF LocalInit
<1>1. StateInv /\ OneTaskEach /\ CountInv /\ asks = 0
  BY InitIInv DEF Init, IInv, TaskInv
<1>2. \A w \in Workers : ~IsGroup(w) /\ Held(w) = {} /\ localJob[w].pc = "idle" /\ job[w].pc = "idle"
  BY DEF IsGroup, IsFinalize, NoTask, Held, Init
<1>3. Range(gathered) = {}
  BY DEF Range
<1>4. LocalTyped
  BY <1>2 DEF LocalTyped
<1>5. NobodyElse /\ ClosingInv /\ GroupsCut
  BY <1>2, <1>3 DEF NobodyElse, ClosingInv, GroupsCut, Init
<1>6. \A u \in Utterances : ~Sent(u) /\ status[u] = "none"
  BY NobodySentFirst
<1>7. \A u \in Utterances : WaiterAgrees(u, FALSE) /\ AloneAgrees(u)
  BY <1>6 DEF WaiterAgrees, AloneAgrees
<1>8. \A w \in Workers : TaskOfWaiter(w, FALSE) /\ GroupAgrees(w)
  BY <1>2 DEF TaskOfWaiter, GroupAgrees
<1>9. OnePlace
  BY <1>2, <1>3 DEF OnePlace, Apart
<1>10. OneWriter
  BY <1>1, <1>3, <1>6, <1>7, <1>8, <1>9 DEF OneWriter
<1>11. LocalCountInv
  BY <1>1, <1>2 DEF LocalCountInv
<1> QED
  BY <1>1, <1>4, <1>5, <1>10, <1>11 DEF LocalInv, LocalStateInv

LEMMA LocalNextInv == LocalInv /\ [LocalNext]_allVars => LocalInv'
<1> SUFFICES ASSUME LocalInv, [LocalNext]_allVars PROVE LocalInv'
  OBVIOUS
<1>1. LocalStateInv /\ LocalStateInv'
  BY LocalStateStep DEF LocalInv
<1>2. ASSUME ~replayed' PROVE ~replayed
  BY <1>2 DEF LocalNext, allVars, localVars, history, LocalCut, DispatchGroup, Stop, Group, Closing,
              Completing, LocalUtterance, LocalCrash, GroupDeliver, GroupAnswered, GroupRetryable,
              GroupFails, FallBack, WriteRow, GroupMark, Settle, Finalize, Close, CloseSave,
              CountAtClose, LocalRefresh, LocalSave, LocalConflict
<1>3. ASSUME ~replayed', OneWriter, LocalCountInv PROVE OneWriter' /\ LocalCountInv'
  <2>1. ASSUME NEW w \in Workers, Group(w) PROVE OneWriter' /\ LocalCountInv'
    <3>1. CASE WriteRow(w)
      BY <1>1, <1>3, <3>1, WriteRowWriterStep
    <3>2. CASE FallBack(w)
      BY <1>1, <1>3, <3>2, FallBackWriterStep
    <3> QED
      BY <1>1, <1>3, <2>1, <3>1, <3>2, GroupWriterStep DEF Group
  <2>2. ASSUME NEW w \in Workers, LocalUtterance(w) \/ (Crash(w) /\ UNCHANGED localVars)
        PROVE  OneWriter' /\ LocalCountInv'
    BY <1>1, <1>3, <2>2, UtteranceWriterStep DEF LocalUtterance, localVars, history
  <2>3. ASSUME UNCHANGED allVars PROVE OneWriter' /\ LocalCountInv'
    <3>1. UNCHANGED <<vars, words, gathered, groupQueue, localJob, flushed, stops, stopsDue, alone, replayed>>
      BY <2>3 DEF allVars, localVars, history
    <3>2. UNCHANGED <<trState, queue, job, bot, status, attempts>> /\ TypeOK
      BY <1>1, <3>1 DEF vars, recording, utterances, LocalStateInv, StateInv
    <3>3. /\ OneTaskEach' /\ Untranscribed' = Untranscribed
          /\ \A u \in Utterances : WaiterAgrees(u, FALSE)' /\ Sent(u)' = Sent(u)
          /\ \A v \in Workers : TaskOfWaiter(v, FALSE)'
      BY <1>3, <3>2, RestingTasks DEF OneWriter
    <3>4. \A v \in Workers : Held(v)' = Held(v) /\ (IsGroup(v)' <=> IsGroup(v))
      BY <3>1 DEF Held, IsGroup, IsFinalize, Members
    <3>5. OnePlace' /\ \A u \in Utterances : Placed(u)' <=> Placed(u)
      BY <1>3, <3>1, <3>4 DEF OneWriter, OnePlace, Placed
    <3>6. \A v \in Workers : GroupAgrees(v)'
      BY <1>3, <3>1, <3>2, <3>4 DEF OneWriter, GroupAgrees, MembersAgree
    <3>7. \A u \in Utterances : AloneAgrees(u)'
      BY <1>3, <3>1, <3>2, <3>3 DEF OneWriter, AloneAgrees
    <3>8. LocalCountInv'
      BY <1>3, <3>1, <3>2, <3>3 DEF LocalCountInv, CountInv
    <3> QED
      BY <1>3, <3>1, <3>2, <3>3, <3>5, <3>6, <3>7, <3>8 DEF OneWriter
  <2> QED
    BY <1>1, <1>3, <2>1, <2>2, <2>3, DrainWriterStep, ClosingWriterStep DEF LocalNext
<1> QED
  BY <1>1, <1>2, <1>3 DEF LocalInv

LEMMA LocalInvariant == LocalSpec => []LocalInv
  BY LocalInitInv, LocalNextInv, PTL DEF LocalSpec

\* A transcription that a group or finalize completed has the text of every utterance
\* (_settle_recording_state, finalize_local_session), whatever dies, as long as no
\* group comes back after its fallback had begun.
THEOREM LocalCompleteIsTranscribed == LocalSpec => []LocalCompleteMeansTranscribed
<1>1. LocalInv => LocalCompleteMeansTranscribed
  BY DEF LocalInv, LocalCountInv, CountInv, LocalCompleteMeansTranscribed, CompleteMeansTranscribed
<1> QED
  BY <1>1, LocalInvariant, PTL

\* An utterance that was cut and has no text is gathered, in a group, at a worker or
\* sent on its own ("WHY NOTHING CAN BE LOST HERE"), although the groups' and
\* finalize's tasks are dropped after their last retry.
THEOREM LocalNobodyIsForgotten == LocalSpec => []NobodyForgotten
<1>1. LocalInv => NobodyForgotten
  BY DEF LocalInv, OneWriter, AloneAgrees, NobodyForgotten, Placed, Held
<1> QED
  BY <1>1, LocalInvariant, PTL

-----------------------------------------------------------------------------
\* A step of a group's or of finalize's task that writes no row.
LEMMA TurnKeepsHeard ==
    ASSUME LocalStateInv, Undisturbed, NEW w \in Workers, NEW next, Turns(w, next),
           next.pc = "idle" \/ job[w].pc = "idle",
           UNCHANGED <<job, words, status, audio, alone>>, ~replayed',
           gathered' \in {gathered, <<>>},
           \A m \in groupQueue' : \/ m \in groupQueue
                                  \/ /\ Apart(Range(m.members), alone)
                                     /\ Pending(m.members) \/ \A u \in Range(m.members) : status[u] = "text",
           next \in RunningGroups =>
              /\ next.pc = "calling" => Pending(next.message.members)
              /\ next.pc = "writing" => \A i \in DOMAIN next.message.members :
                   next.at <= i => next.message.members[i] \in next.answer[i]
    PROVE  Undisturbed'
<1>1. LocalTyped
  BY DEF LocalStateInv
<1>2. /\ IsGroup(w)' <=> next \in RunningGroups
      /\ localJob'[w] = next
      /\ \A v \in Workers \ {w} : localJob'[v] = localJob[v] /\ (IsGroup(v)' <=> IsGroup(v))
  BY <1>1, HeldByTurn
<1>3. Pending(gathered)'
  BY DEF Undisturbed, Pending, Range
<1>4. \A m \in groupQueue' : /\ Apart(Range(m.members), alone)'
                             /\ Pending(m.members)' \/ \A u \in Range(m.members) : status'[u] = "text"
  BY DEF Undisturbed, Pending, Apart
<1>5. ASSUME NEW v \in Workers, IsGroup(v)'
      PROVE  /\ localJob'[v].pc = "calling" => Pending(Members(v))'
             /\ localJob'[v].pc = "writing" => \A i \in DOMAIN localJob'[v].message.members :
                  localJob'[v].at <= i => localJob'[v].message.members[i] \in localJob'[v].answer[i]
  <2>1. CASE v = w
    BY <1>2, <1>5, <2>1 DEF Pending, Members
  <2>2. CASE v # w
    BY <1>2, <1>5, <2>2 DEF Undisturbed, Pending, Members
  <2> QED
    BY <2>1, <2>2
<1> QED
  BY <1>3, <1>4, <1>5 DEF Undisturbed, Members

\* What a group that may be put back is like.
LEMMA WholeGroup ==
    ASSUME LocalStateInv, OneWriter, Undisturbed, NEW w \in Workers, IsGroup(w),
           localJob[w].pc \in {"calling", "marking", "settling", "refreshing", "saving"}
    PROVE  /\ Apart(Range(Members(w)), alone)
           /\ Pending(Members(w)) \/ \A u \in Range(Members(w)) : status[u] = "text"
           /\ localJob[w].pc = "calling" => Pending(Members(w))
<1>1. MembersAgree(localJob[w]) /\ localJob[w].message.members = Members(w)
  BY DEF OneWriter, GroupAgrees, Members
<1>2. Apart(Range(Members(w)), alone)
  BY <1>1 DEF MembersAgree, Apart, Range
<1>3. localJob[w].pc # "calling" => \A u \in Range(Members(w)) : status[u] = "text"
  BY <1>1 DEF MembersAgree, Range
<1> QED
  BY <1>2, <1>3 DEF Undisturbed

\* A group is raised with every row written or none.
LEMMA RaiseKeepsHeard ==
    ASSUME LocalStateInv, OneWriter, Undisturbed, NEW w \in Workers, LocalRaise(w),
           localJob[w].pc \in {"calling", "marking", "settling", "refreshing", "saving", "closed"},
           UNCHANGED <<job, words, status, audio, alone, gathered, replayed>>
    PROVE  Undisturbed'
<1>1. /\ LocalTyped /\ Turns(w, NoTask) /\ NoTask.pc = "idle" /\ NoTask \notin RunningGroups
  BY LeavingTurns DEF LocalStateInv, LocalRaise, NoTask, RunningGroups, GroupPcs
<1>2. \/ groupQueue' = groupQueue
      \/ /\ IsGroup(w)
         /\ \E m \in GoodMessages : m.members = Members(w) /\ groupQueue' = groupQueue \cup {m}
  BY <1>1, PutBackTyped
<1>3. IsGroup(w) => localJob[w].pc # "closed"
  BY <1>1, RunningGroup DEF GroupPcs
<1>4. \A m \in groupQueue' : \/ m \in groupQueue
                             \/ /\ Apart(Range(m.members), alone)
                                /\ Pending(m.members) \/ \A u \in Range(m.members) : status[u] = "text"
  BY <1>2, <1>3, WholeGroup
<1>5. ~replayed'
  BY DEF Undisturbed
<1> QED
  BY <1>1, <1>4, <1>5, TurnKeepsHeard

\* All the audio of a group whose rows all wait is in the request, and every row gets
\* its own words.
LEMMA AnsweredInPlace ==
    ASSUME LocalStateInv, OneWriter, Undisturbed, NEW w \in Workers, IsGroup(w),
           localJob[w].pc = "calling", NEW h \in Lands(Members(w))
    PROVE  \A i \in DOMAIN Members(w) : Members(w)[i] \in h[i]
<1> DEFINE g == Members(w)
           kept == {i \in DOMAIN g : audio[g[i]] = "kept"}
           inPlace == {i \in kept : \A j \in 1 .. i - 1 : j \in kept}
<1>1. LocalTyped /\ g \in GoodGroups
  BY RunningGroup DEF LocalStateInv
<1>2. DOMAIN g = 1 .. Len(g) /\ Len(g) \in Nat /\ \A i \in DOMAIN g : g[i] \in Utterances /\ g[i] \in Range(g)
  BY <1>1, GroupsAreSequences
<1>3. \A i \in DOMAIN g : status[g[i]] = "pending" /\ g[i] \notin alone
  BY <1>2, WholeGroup DEF Pending, Apart
<1>4. kept = DOMAIN g
  BY <1>2, <1>3 DEF Undisturbed
<1>5. inPlace = DOMAIN g
  <2>1. \A i \in DOMAIN g : \A j \in 1 .. i - 1 : j \in DOMAIN g
    BY <1>2
  <2> QED
    BY <1>4, <2>1
<1>6. /\ \A j \in kept : \E i \in 1 .. j : g[j] \in h[i]
      /\ \A j \in inPlace, i \in DOMAIN g : g[j] \in h[i] => i = j
  BY DEF Lands
<1>7. \A j \in DOMAIN g : \A i \in 1 .. j : i \in DOMAIN g
  BY <1>2
<1> QED
  BY <1>4, <1>5, <1>6, <1>7

\* The steps that write no row: of the groups, of finalize and of the drains.
LEMMA GroupHeardStep ==
    ASSUME LocalStateInv, OneWriter, Undisturbed, NEW w \in Workers, UNCHANGED words,
           \/ \E m \in groupQueue : GroupDeliver(w, m)
           \/ GroupAnswered(w) \/ GroupRetryable(w) \/ GroupFails(w) \/ GroupMark(w) \/ Settle(w)
           \/ Closing(w) \/ Completing(w)
    PROVE  Undisturbed'
<1> USE DEF history
<1>1. LocalTyped /\ ~replayed
  BY DEF LocalStateInv, Undisturbed
<1>2. ASSUME UNCHANGED vars PROVE UNCHANGED <<job, status, audio>>
  BY <1>2 DEF vars, utterances
<1>3. ASSUME localJob[w].pc # "idle" PROVE job[w].pc = "idle" /\ (IsGroup(w) \/ IsFinalize(w))
  BY <1>1, <1>3 DEF LocalTyped, IsGroup
<1>4. ASSUME NEW m \in groupQueue, GroupDeliver(w, m) PROVE Undisturbed'
  <2> USE <1>4 DEF GroupDeliver
  <2> DEFINE next == [pc |-> IF \A u \in Range(m.members) : status[u] = "text" THEN "settling" ELSE "calling",
                      message |-> m, at |-> 1, answer |-> <<>>]
  <2>1. m \in GoodMessages /\ m.members \in GoodGroups
    BY <1>1 DEF GoodMessages, LocalTyped
  <2>2. next \in RunningGroups
    BY <2>1 DEF RunningGroups, GroupPcs
  <2>3. /\ next.pc = IF \A u \in Range(m.members) : status[u] = "text" THEN "settling" ELSE "calling"
        /\ next.message = m /\ next.at = 1
    OBVIOUS
  <2>4. localJob' = [localJob EXCEPT ![w] = next]
    OBVIOUS
  <2> HIDE DEF next
  <2>5. Turns(w, next)
    <3>1. 1 \in DOMAIN m.members
      BY <2>1, GroupsAreSequences
    <3> QED
      BY <2>2, <2>3, <2>4, <3>1 DEF Turns
  <2>6. /\ UNCHANGED <<job, words, status, audio, alone, gathered>>
        /\ groupQueue' \subseteq groupQueue /\ job[w].pc = "idle"
    BY <1>2 DEF Free
  <2>7. Range(m.members) \cap alone = {} /\ (Pending(m.members) \/ \A u \in Range(m.members) : status[u] = "text")
    BY DEF Undisturbed, Apart
  <2>8. replayed' = (replayed \/ Range(m.members) \cap alone # {})
    OBVIOUS
  <2> HIDE <1>4
  <2>9. next.pc = "calling" => Pending(next.message.members)
    BY <2>3, <2>7
  <2>10. next.pc # "writing"
    BY <2>3
  <2> QED
    BY <1>1, <2>5, <2>6, <2>7, <2>8, <2>9, <2>10, TurnKeepsHeard
\* A task that ends, or goes on to a part that neither calls the provider nor writes.
<1>5. ASSUME NEW next, Turns(w, next), next.pc \notin {"calling", "writing"},
             next.pc = "idle" \/ job[w].pc = "idle",
             UNCHANGED <<job, status, audio, alone, gathered, groupQueue, replayed>>
      PROVE  Undisturbed'
  BY <1>1, <1>5, TurnKeepsHeard
<1>6. ASSUME NEW pc \in {"falling", "settling", "refreshing", "saving", "closed", "counting"}, Step(w, pc),
             localJob[w].pc # "idle", pc \in {"falling", "settling"} => IsGroup(w),
             pc \in {"closed", "counting"} => IsFinalize(w),
             UNCHANGED <<job, status, audio, alone, gathered, groupQueue, replayed>>
      PROVE  Undisturbed'
  <2> DEFINE next == [localJob[w] EXCEPT !.pc = pc]
  <2>1. CASE IsFinalize(w)
    <3>1. pc \in {"closing", "closed", "counting", "refreshing", "saving"}
      BY <1>3, <1>6, <2>1 DEF IsGroup
    <3>2. Turns(w, next) /\ next.pc = pc
      BY <1>1, <1>6, <2>1, <3>1, FinalizeStepTurns
    <3> HIDE DEF next
    <3> QED
      BY <1>3, <1>5, <1>6, <3>2
  <2>2. CASE IsGroup(w)
    <3>1. pc \in GroupPcs
      BY <1>6, <2>2 DEF GroupPcs, IsGroup
    <3>2. Turns(w, next) /\ next.pc = pc
      BY <1>1, <1>6, <2>2, <3>1, GroupStepTurns
    <3> HIDE DEF next
    <3> QED
      BY <1>3, <1>5, <1>6, <3>2
  <2> QED
    BY <1>3, <1>6, <2>1, <2>2
<1>7. ASSUME Leave(w), UNCHANGED <<job, status, audio, alone, gathered, groupQueue, replayed>>
      PROVE  Undisturbed'
  <2>1. Turns(w, NoTask) /\ NoTask.pc = "idle"
    BY <1>7, LeavingTurns
  <2> QED
    BY <1>5, <1>7, <2>1
<1>8. ASSUME GroupAnswered(w) PROVE Undisturbed'
  <2> USE <1>8 DEF GroupAnswered
  <2>1. PICK h \in Lands(Members(w)) : localJob' = [localJob EXCEPT ![w].pc = "writing", ![w].answer = h]
    OBVIOUS
  <2> DEFINE next == [localJob[w] EXCEPT !.pc = "writing", !.answer = h]
  <2>2. /\ Turns(w, next) /\ next \in RunningGroups /\ next.pc = "writing"
        /\ next.message = localJob[w].message /\ next.answer = h
    BY <1>1, <2>1, AnswerTurns
  <2> HIDE DEF next
  <2>3. \A i \in DOMAIN next.message.members : next.message.members[i] \in next.answer[i]
    BY <2>2, AnsweredInPlace DEF Members
  <2>4. UNCHANGED <<job, words, status, audio, alone, gathered, groupQueue, replayed>> /\ job[w].pc = "idle"
    BY <1>2, <1>3
  <2> QED
    BY <1>1, <2>2, <2>3, <2>4, TurnKeepsHeard
<1>9. ASSUME GroupRetryable(w) PROVE Undisturbed'
  BY <1>2, <1>9, RaiseKeepsHeard DEF GroupRetryable
<1>10. ASSUME GroupFails(w) PROVE Undisturbed'
  BY <1>2, <1>6, <1>10 DEF GroupFails
<1>11. ASSUME GroupMark(w) PROVE Undisturbed'
  <2>1. CASE Step(w, "settling") /\ UNCHANGED groupQueue
    BY <1>2, <1>6, <1>11, <2>1 DEF GroupMark
  <2>2. CASE LocalRaise(w)
    BY <1>2, <1>11, <2>2, RaiseKeepsHeard DEF GroupMark
  <2> QED
    BY <1>11, <2>1, <2>2 DEF GroupMark
<1>12. ASSUME Settle(w) PROVE Undisturbed'
  BY <1>2, <1>6, <1>7, <1>12 DEF Settle
<1>13. ASSUME Finalize(w) PROVE Undisturbed'
  <2> USE <1>13 DEF Finalize
  <2> DEFINE next == [pc |-> "closing"]
  <2>1. Turns(w, next) /\ next.pc = "closing"
    BY DEF Turns, FinalizeTasks
  <2> HIDE DEF next
  <2>2. gathered' \in {gathered, <<>>} /\ job[w].pc = "idle" /\ UNCHANGED <<job, status, audio, alone, replayed>>
    BY <1>2 DEF Free
  <2>3. \A m \in groupQueue' : m \in groupQueue \/ (m.members = gathered)
    BY DEF Send1
  <2>4. Apart(Range(gathered), alone) /\ Pending(gathered)
    BY DEF OneWriter, Undisturbed, Apart
  <2> HIDE <1>13
  <2> QED
    BY <1>1, <2>1, <2>2, <2>3, <2>4, TurnKeepsHeard
<1>14. ASSUME localJob[w].pc \in {"closing", "closed", "counting"} PROVE IsFinalize(w)
  BY <1>1, <1>3, <1>14, RunningGroup DEF GroupPcs
<1>15. ASSUME Close(w) PROVE Undisturbed'
  BY <1>6, <1>7, <1>14, <1>15 DEF Close, utterances
<1>16. ASSUME CloseSave(w) PROVE Undisturbed'
  BY <1>6, <1>14, <1>16 DEF CloseSave, utterances
<1>17. ASSUME CountAtClose(w) PROVE Undisturbed'
  BY <1>2, <1>6, <1>7, <1>14, <1>17 DEF CountAtClose
<1>18. ASSUME LocalRefresh(w) PROVE Undisturbed'
  <2>1. CASE Leave(w) /\ UNCHANGED groupQueue
    BY <1>7, <1>18, <2>1 DEF LocalRefresh, utterances
  <2>2. CASE Step(w, "saving") /\ UNCHANGED groupQueue
    BY <1>6, <1>18, <2>2 DEF LocalRefresh, utterances
  <2>3. CASE LocalRaise(w)
    BY <1>18, <2>3, RaiseKeepsHeard DEF LocalRefresh, utterances
  <2> QED
    BY <1>18, <2>1, <2>2, <2>3 DEF LocalRefresh
<1>19. ASSUME LocalSave(w) PROVE Undisturbed'
  BY <1>7, <1>19 DEF LocalSave, utterances
<1>20. ASSUME LocalConflict(w) PROVE Undisturbed'
  BY <1>2, <1>20, RaiseKeepsHeard DEF LocalConflict
<1> QED
  BY <1>4, <1>8, <1>9, <1>10, <1>11, <1>12, <1>13, <1>15, <1>16, <1>17, <1>18, <1>19, <1>20
     DEF Closing, Completing

-----------------------------------------------------------------------------
\* A step that writes one row, which is in no queued group and in none that calls.
LEMMA RowKeepsHeard ==
    ASSUME Undisturbed, ~replayed', NEW u \in Utterances, NEW w \in Workers,
           words' = [x \in Utterances |-> words'[x]],
           \A x \in Utterances \ {u} : words'[x] = words[x] /\ status'[x] = status[x] /\ audio'[x] = audio[x],
           status'[u] # "text" => words'[u] = {},
           status'[u] \in {"none", "pending"} /\ u \notin alone' => audio'[u] = "kept",
           alone \subseteq alone', alone' \subseteq alone \cup {u},
           UNCHANGED <<gathered, groupQueue>>,
           \A x \in Range(gathered) : x \in Utterances \ {u},
           \A m \in groupQueue : \A x \in Range(m.members) : x \in Utterances \ {u},
           \A v \in Workers \ {w} : /\ localJob'[v] = localJob[v] /\ (IsGroup(v)' <=> IsGroup(v))
                                    /\ IsGroup(v) /\ localJob[v].pc = "calling" =>
                                         \A x \in Range(Members(v)) : x \in Utterances \ {u},
           IsGroup(w)' =>
              /\ localJob'[w].pc # "calling"
              /\ localJob'[w].pc = "writing" => \A i \in DOMAIN Members(w)' :
                   localJob'[w].at <= i => localJob'[w].message.members[i] \in localJob'[w].answer[i]
    PROVE  Undisturbed'
<1>1. \A x \in Utterances :
         /\ status'[x] # "text" => words'[x] = {}
         /\ status'[x] \in {"none", "pending"} /\ x \notin alone' => audio'[x] = "kept"
  BY DEF Undisturbed
<1>2. Pending(gathered)'
  BY DEF Undisturbed, Pending
<1>3. ASSUME NEW m \in groupQueue'
      PROVE  /\ Apart(Range(m.members), alone)'
             /\ Pending(m.members)' \/ \A x \in Range(m.members) : status'[x] = "text"
  BY <1>3 DEF Undisturbed, Pending, Apart
<1>4. ASSUME NEW v \in Workers, IsGroup(v)'
      PROVE  /\ localJob'[v].pc = "calling" => Pending(Members(v))'
             /\ localJob'[v].pc = "writing" => \A i \in DOMAIN Members(v)' :
                  localJob'[v].at <= i => Members(v)'[i] \in localJob'[v].answer[i]
  <2>1. CASE v = w
    BY <1>4, <2>1 DEF Members
  <2>2. CASE v # w
    BY <1>4, <2>2 DEF Undisturbed, Pending, Members
  <2> QED
    BY <2>1, <2>2
<1> QED
  BY <1>1, <1>2, <1>3, <1>4 DEF Undisturbed

\* The member that is next is in no other group, and what is gathered or in a group is cut.
LEMMA NextMemberApart ==
    ASSUME LocalStateInv, OneWriter, NEW w \in Workers, IsGroup(w), localJob[w].pc \in {"writing", "falling"},
           NEW u, u = Members(w)[localJob[w].at]
    PROVE  /\ \A x \in Range(gathered) : x \in Utterances \ {u}
           /\ \A m \in groupQueue : \A x \in Range(m.members) : x \in Utterances \ {u}
           /\ \A v \in Workers \ {w} : IsGroup(v) => \A x \in Range(Members(v)) : x \in Utterances \ {u}
<1>1. u \in Held(w) /\ u \notin Range(gathered) /\ \A v \in Workers \ {w} : u \notin Held(v)
  BY NextMember
<1>2. LocalTyped
  BY DEF LocalStateInv
<1>3. Range(gathered) \subseteq Utterances
  BY <1>2, GroupsAreSequences DEF LocalTyped, Range
<1>4. \A m \in groupQueue : Range(m.members) \subseteq Utterances /\ u \notin Range(m.members)
  <2>1. ASSUME NEW m \in groupQueue PROVE m.members \in GoodGroups
    BY <1>2 DEF LocalTyped, GoodMessages
  <2> QED
    BY <1>1, <2>1, GroupsAreSequences DEF OneWriter, OnePlace, Apart
<1>5. \A v \in Workers : IsGroup(v) => Range(Members(v)) \subseteq Utterances
  BY <1>2, RunningGroup, GroupsAreSequences
<1> QED
  BY <1>1, <1>3, <1>4, <1>5 DEF Held

LEMMA WriteRowHeardStep ==
    ASSUME LocalStateInv, OneWriter, Undisturbed, NEW w \in Workers, WriteRow(w)
    PROVE  /\ Undisturbed'
           /\ \A x \in Utterances : x \in words[x] => x \in words'[x]
<1> DEFINE at == localJob[w].at
           u == Members(w)[at]
<1>1. /\ LocalTyped /\ TypeOK /\ IsGroup(w) /\ localJob[w].pc = "writing"
      /\ UNCHANGED <<job, alone, groupQueue, gathered, replayed>>
  BY DEF LocalStateInv, StateInv, WriteRow, history
<1>2. u \in Utterances
  BY <1>1, NextMember
<1>3. /\ words' = [words EXCEPT ![u] = localJob[w].answer[at]]
      /\ status' = [status EXCEPT ![u] = "text"] /\ audio' = [audio EXCEPT ![u] = "cleared"]
  BY DEF WriteRow
<1>4. /\ localJob[w] \in RunningGroups /\ Members(w) \in GoodGroups
      /\ at \in DOMAIN Members(w) /\ localJob[w].message.members = Members(w) /\ job[w].pc = "idle"
  BY <1>1, RunningGroup DEF Members
<1>5. DOMAIN Members(w) = 1 .. Len(Members(w)) /\ Len(Members(w)) \in Nat /\ at \in Nat
  BY <1>4, GroupsAreSequences
<1>6. \A i \in DOMAIN Members(w) : at <= i => Members(w)[i] \in localJob[w].answer[i]
  BY <1>1 DEF Undisturbed
<1>7. words'[u] = localJob[w].answer[at] /\ u \in words'[u]
  BY <1>2, <1>3, <1>4, <1>5, <1>6 DEF Undisturbed
<1>8. /\ words' = [x \in Utterances |-> words'[x]]
      /\ \A x \in Utterances \ {u} : words'[x] = words[x]
  <2> HIDE DEF u, at
  <2>1. words = [x \in Utterances |-> words[x]]
    BY DEF Undisturbed
  <2> QED
    BY <1>2, <1>3, <2>1
<1>9. /\ status'[u] = "text"
      /\ \A x \in Utterances \ {u} : status'[x] = status[x] /\ audio'[x] = audio[x]
  BY <1>1, <1>2, <1>3 DEF TypeOK
<1>10. PICK next \in RunningGroups :
         /\ Turns(w, next) /\ next.message = localJob[w].message /\ next.answer = localJob[w].answer
         /\ \/ next.pc = "marking"
            \/ next.pc = "writing" /\ next.at = at + 1
  <2>1. CASE at = Len(Members(w))
    <3> DEFINE next == [localJob[w] EXCEPT !.pc = "marking"]
    <3>1. "marking" \in GroupPcs /\ Step(w, "marking")
      BY <2>1 DEF GroupPcs, WriteRow, Step
    <3>2. Turns(w, next) /\ next.pc = "marking" /\ next.message = localJob[w].message
          /\ next.answer = localJob[w].answer
      BY <1>1, <3>1, GroupStepTurns
    <3>3. next \in RunningGroups
      BY <1>4, <3>1, GroupExcept
    <3> HIDE DEF next
    <3> QED
      BY <3>2, <3>3
  <2>2. CASE at # Len(Members(w))
    <3> DEFINE next == [localJob[w] EXCEPT !.at = at + 1]
    <3>1. localJob' = [localJob EXCEPT ![w].at = at + 1]
      BY <2>2 DEF WriteRow
    <3>2. Turns(w, next) /\ next \in RunningGroups /\ next.pc = "writing"
          /\ next.message = localJob[w].message /\ next.at = at + 1 /\ next.answer = localJob[w].answer
      BY <1>1, <2>2, <3>1, NextMemberTurns
    <3> HIDE DEF next
    <3> QED
      BY <3>2
  <2> QED
    BY <2>1, <2>2
<1>11. /\ localJob'[w] = next
       /\ \A v \in Workers \ {w} : localJob'[v] = localJob[v] /\ (IsGroup(v)' <=> IsGroup(v))
  BY <1>1, <1>4, <1>10, HeldByTurn
<1>12. /\ localJob'[w].pc # "calling"
       /\ localJob'[w].pc = "writing" => \A i \in DOMAIN localJob'[w].message.members :
            localJob'[w].at <= i => localJob'[w].message.members[i] \in localJob'[w].answer[i]
  <2>1. \A i \in DOMAIN Members(w) : at + 1 <= i => at <= i
    BY <1>5
  <2> QED
    BY <1>4, <1>6, <1>10, <1>11, <2>1
<1>13. /\ \A x \in Range(gathered) : x \in Utterances \ {u}
       /\ \A m \in groupQueue : \A x \in Range(m.members) : x \in Utterances \ {u}
       /\ \A v \in Workers \ {w} : IsGroup(v) => \A x \in Range(Members(v)) : x \in Utterances \ {u}
  BY <1>1, NextMemberApart
<1> HIDE DEF u, at
<1>14. ~replayed'
  BY <1>1 DEF Undisturbed
<1>15. Undisturbed'
  BY <1>1, <1>2, <1>8, <1>9, <1>11, <1>12, <1>13, <1>14, RowKeepsHeard DEF Members
<1> QED
  BY <1>7, <1>8, <1>15

LEMMA FallBackHeardStep ==
    ASSUME LocalStateInv, OneWriter, Undisturbed, NEW w \in Workers, FallBack(w), UNCHANGED words
    PROVE  Undisturbed'
<1> DEFINE at == localJob[w].at
           u == Members(w)[at]
<1>1. /\ LocalTyped /\ IsGroup(w) /\ localJob[w].pc = "falling"
      /\ UNCHANGED <<status, audio, job, groupQueue, gathered, replayed>> /\ alone' = alone \cup {u}
  BY DEF LocalStateInv, FallBack, utterances
<1>2. u \in Utterances
  BY <1>1, NextMember
<1>3. PICK next : Turns(w, next) /\ next.pc \in {"falling", "idle"}
  <2>1. CASE at = Len(Members(w))
    BY <2>1, LeavingTurns DEF FallBack
  <2>2. CASE at # Len(Members(w))
    <3>1. localJob' = [localJob EXCEPT ![w].at = at + 1]
      BY <2>2 DEF FallBack
    <3> QED
      BY <1>1, <2>2, <3>1, NextMemberTurns
  <2> QED
    BY <2>1, <2>2
<1>4. /\ localJob'[w] = next
      /\ \A v \in Workers \ {w} : localJob'[v] = localJob[v] /\ (IsGroup(v)' <=> IsGroup(v))
  <2>1. job[w].pc = "idle"
    BY <1>1, RunningGroup
  <2> QED
    BY <1>1, <1>3, <2>1, HeldByTurn
<1>5. /\ \A x \in Range(gathered) : x \in Utterances \ {u}
      /\ \A m \in groupQueue : \A x \in Range(m.members) : x \in Utterances \ {u}
      /\ \A v \in Workers \ {w} : IsGroup(v) => \A x \in Range(Members(v)) : x \in Utterances \ {u}
  BY <1>1, NextMemberApart
<1> HIDE DEF u, at
<1>6. ~replayed' /\ words' = [x \in Utterances |-> words'[x]]
      /\ \A x \in Utterances : /\ status[x] # "text" => words[x] = {}
                               /\ status[x] \in {"none", "pending"} /\ x \notin alone => audio[x] = "kept"
  BY <1>1 DEF Undisturbed
<1> QED
  BY <1>1, <1>2, <1>3, <1>4, <1>5, <1>6, RowKeepsHeard

\* process_utterance writes a row that was sent to it and has no text yet.
LEMMA UtteranceHeardStep ==
    ASSUME LocalStateInv, OneWriter, Undisturbed, NEW w \in Workers, LocalUtterance(w)
    PROVE  /\ Undisturbed'
           /\ \A x \in Utterances : x \in words[x] => x \in words'[x]
<1>1. /\ StateInv /\ TypeOK /\ LocalTyped /\ OneTaskEach /\ localJob[w].pc = "idle" /\ ProcessUtterance(w)
      /\ UNCHANGED <<gathered, groupQueue, localJob, alone, replayed>>
  BY DEF LocalStateInv, StateInv, OneWriter, LocalUtterance, history
<1>2. CASE job[w].pc # "calling"
  <2>1. UNCHANGED <<words, status, audio>>
    BY <1>1, <1>2 DEF LocalUtterance, ProcessUtterance, Deliver, Check, Refresh, SaveRecording,
                     SaveConflict, Transcribed, RetryableFailure, PermanentFailure, utterances, recording
  <2>2. \A v \in Workers : (IsGroup(v)' <=> IsGroup(v)) /\ Members(v)' = Members(v)
    BY <1>1 DEF IsGroup, IsFinalize, Members
  <2>3. \A v \in Workers : IsGroup(v) => Pending(Members(v))' = Pending(Members(v))
    BY <2>1, <2>2 DEF Pending
  <2> QED
    BY <1>1, <2>1, <2>2, <2>3 DEF Undisturbed, Pending, Apart
<1>3. CASE job[w].pc = "calling"
  <2> DEFINE u == job[w].utt
  <2>1. u \in Utterances /\ status[u] = "pending" /\ words[u] = {}
    BY <1>1, <1>3, RunningTask DEF OneTaskEach, WorkersInv, Undisturbed
  <2>2. u \in alone
    BY <1>3, <2>1 DEF OneWriter, AloneAgrees, Sent
  <2>3. words' = [words EXCEPT ![u] = IF status'[u] = "text" THEN {u} ELSE {}]
    BY <1>3 DEF LocalUtterance
  <2>4. \A x \in Utterances \ {u} : status'[x] = status[x] /\ audio'[x] = audio[x]
    BY <1>1, <1>3 DEF ProcessUtterance, Deliver, Check, Refresh, SaveRecording, SaveConflict,
                  Transcribed, RetryableFailure, PermanentFailure, Write, TypeOK
  <2>5. \A v \in Workers : (IsGroup(v)' <=> IsGroup(v))
    BY <1>1 DEF IsGroup, IsFinalize
  <2>6. ~IsGroup(w)
    BY <1>1 DEF IsGroup
  <2>7. /\ \A x \in Range(gathered) : x \in Utterances \ {u}
        /\ \A m \in groupQueue : \A x \in Range(m.members) : x \in Utterances \ {u}
        /\ \A v \in Workers \ {w} : IsGroup(v) /\ localJob[v].pc = "calling" =>
             \A x \in Range(Members(v)) : x \in Utterances \ {u}
    <3>1. Range(gathered) \subseteq Utterances /\ \A x \in Range(gathered) : x \notin alone
      BY <1>1, GroupsAreSequences DEF LocalTyped, Range, OneWriter
    <3>2. ASSUME NEW m \in groupQueue PROVE Range(m.members) \subseteq Utterances /\ Apart(Range(m.members), alone)
      <4>1. m.members \in GoodGroups
        BY <1>1 DEF LocalTyped, GoodMessages
      <4> QED
        BY <4>1, GroupsAreSequences DEF Undisturbed
    <3>3. ASSUME NEW v \in Workers, IsGroup(v), localJob[v].pc = "calling"
          PROVE  Range(Members(v)) \subseteq Utterances /\ Apart(Range(Members(v)), alone)
      BY <1>1, <3>3, RunningGroup, GroupsAreSequences, WholeGroup
    <3> QED
      BY <2>2, <3>1, <3>2, <3>3 DEF Apart
  <2>8. ~replayed' /\ words = [x \in Utterances |-> words[x]]
    BY <1>1 DEF Undisturbed
  <2>9. /\ words' = [x \in Utterances |-> words'[x]]
        /\ \A x \in Utterances \ {u} : words'[x] = words[x]
        /\ words'[u] = IF status'[u] = "text" THEN {u} ELSE {}
    <3> HIDE DEF u
    <3> QED
      BY <2>1, <2>3, <2>8
  <2> HIDE DEF u
  <2>10. Undisturbed'
    BY <1>1, <2>1, <2>2, <2>4, <2>5, <2>6, <2>7, <2>8, <2>9, RowKeepsHeard
  <2> QED
    BY <2>1, <2>9, <2>10
<1> QED
  BY <1>2, <1>3

\* The drains cut rows nobody has, and send them together.
LEMMA DrainHeardStep ==
    ASSUME LocalStateInv, OneWriter, Undisturbed, UNCHANGED words,
           (\E u \in Utterances : LocalCut(u)) \/ DispatchGroup \/ Stop
    PROVE  Undisturbed'
<1>1. LocalTyped /\ TypeOK /\ GroupsCut
  BY DEF LocalStateInv, StateInv
<1>2. UNCHANGED <<localJob, alone, replayed, audio>>
  BY DEF LocalCut, DispatchGroup, Stop, vars, utterances, history
<1>3. \A v \in Workers : (IsGroup(v)' <=> IsGroup(v)) /\ Members(v)' = Members(v)
  BY <1>2 DEF IsGroup, IsFinalize, Members
<1>4. ASSUME NEW u \in Utterances, LocalCut(u) PROVE Undisturbed'
  <2> USE <1>4 DEF LocalCut
  <2>1. /\ status[u] = "none" /\ status'[u] = "pending" /\ UNCHANGED groupQueue
        /\ \A x \in Utterances \ {u} : status'[x] = status[x]
    BY <1>1 DEF TypeOK
  <2>2. Range(gathered)' = Range(gathered) \cup {u}
    BY <1>1, GatheredGrows DEF LocalTyped
  <2> HIDE <1>4
  <2>3. /\ \A m \in groupQueue : u \notin Range(m.members)
        /\ \A v \in Workers : IsGroup(v) => u \notin Range(Members(v))
    BY <1>1, <2>1 DEF GroupsCut
  <2>4. /\ Range(gathered) \subseteq Utterances
        /\ \A m \in groupQueue : Range(m.members) \subseteq Utterances
        /\ \A v \in Workers : IsGroup(v) => Range(Members(v)) \subseteq Utterances
    <3>1. Range(gathered) \subseteq Utterances
      BY <1>1, GroupsAreSequences DEF LocalTyped, Range
    <3>2. \A m \in groupQueue : m.members \in GoodGroups
      BY <1>1 DEF LocalTyped, GoodMessages
    <3> QED
      BY <1>1, <3>1, <3>2, RunningGroup, GroupsAreSequences
  <2>5. Pending(gathered)'
    BY <2>1, <2>2, <2>4 DEF Pending, Undisturbed
  <2>6. \A m \in groupQueue : /\ Pending(m.members) => Pending(m.members)'
                              /\ \A x \in Range(m.members) : status'[x] = status[x]
    BY <2>1, <2>3, <2>4 DEF Pending
  <2>7. \A v \in Workers : IsGroup(v) /\ Pending(Members(v)) => Pending(Members(v))'
    BY <1>3, <2>1, <2>3, <2>4 DEF Pending
  <2>8. \A x \in Utterances : /\ status'[x] # "text" => words[x] = {}
                              /\ status'[x] \in {"none", "pending"} /\ x \notin alone => audio[x] = "kept"
    BY <2>1 DEF Undisturbed
  <2> QED
    BY <1>2, <1>3, <2>1, <2>5, <2>6, <2>7, <2>8 DEF Undisturbed, Apart
<1>5. ASSUME DispatchGroup \/ Stop PROVE Undisturbed'
  <2>1. UNCHANGED status /\ gathered' \in {gathered, <<>>}
        /\ \A m \in groupQueue' : m \in groupQueue \/ m.members = gathered
    BY <1>5 DEF DispatchGroup, Stop, vars, utterances, Send1
  <2>2. Apart(Range(gathered), alone) /\ Pending(gathered)
    BY DEF OneWriter, Undisturbed, Apart
  <2>3. Pending(gathered)'
    BY <2>1, <2>2 DEF Pending, Range
  <2>4. \A m \in groupQueue' : /\ Apart(Range(m.members), alone)
                               /\ Pending(m.members)' \/ \A x \in Range(m.members) : status'[x] = "text"
    BY <2>1, <2>2 DEF Undisturbed, Pending
  <2>5. \A v \in Workers : IsGroup(v) /\ Pending(Members(v)) => Pending(Members(v))'
    BY <1>3, <2>1 DEF Pending
  <2> QED
    BY <1>2, <1>3, <2>1, <2>3, <2>4, <2>5 DEF Undisturbed, Apart
<1> QED
  BY <1>4, <1>5

LEMMA LocalInitHeard == LocalInit => HeardInv
<1> SUFFICES ASSUME LocalInit PROVE HeardInv
  OBVIOUS
<1>1. LocalInv
  BY LocalInitInv
<1>2. \A w \in Workers : ~IsGroup(w)
  BY DEF LocalInit, IsGroup, NoTask
<1>3. Pending(gathered)
  BY DEF LocalInit, Pending, Range
<1>4. Undisturbed
  BY <1>2, <1>3 DEF LocalInit, Init, Undisturbed
<1> QED
  BY <1>1, <1>4 DEF HeardInv

\* While no worker has died, a row is written once, or again after its task had no text.
LEMMA LocalNextHeard ==
    ASSUME HeardInv, [LocalNext]_allVars
    PROVE  /\ HeardInv'
           /\ crashes' = 0 => \A u \in Utterances : u \in words[u] => u \in words'[u]
<1>1. LocalInv /\ LocalInv' /\ LocalStateInv
  BY LocalNextInv DEF HeardInv, LocalInv
<1>2. SUFFICES ASSUME crashes' = 0
               PROVE  Undisturbed' /\ \A u \in Utterances : u \in words[u] => u \in words'[u]
  BY <1>1 DEF HeardInv
<1>3. crashes = 0 /\ \A w \in Workers : ~Crash(w) /\ ~LocalCrash(w)
  <2>1. crashes \in Nat
    BY <1>1, BoundsAssumption DEF LocalStateInv, StateInv, TypeOK
  <2>2. \A w \in Workers : ~Crash(w) /\ ~LocalCrash(w)
    BY <1>2, <2>1 DEF Crash, LocalCrash
  <2>3. ASSUME NEW w \in Workers, Group(w) \/ Closing(w) \/ Completing(w) PROVE UNCHANGED crashes
    BY <2>3 DEF vars, counters, Group, Closing, Completing, GroupDeliver, GroupAnswered, GroupRetryable,
              GroupFails, FallBack, WriteRow, GroupMark, Settle, Finalize, Close, CloseSave,
              CountAtClose, LocalRefresh, LocalSave, LocalConflict
  <2>4. ASSUME NEW w \in Workers, LocalUtterance(w) PROVE UNCHANGED crashes
    BY <2>4 DEF counters, LocalUtterance, ProcessUtterance, Deliver, Transcribed, RetryableFailure,
              PermanentFailure, Check, Refresh, SaveRecording, SaveConflict
  <2>5. ASSUME (\E u \in Utterances : LocalCut(u)) \/ DispatchGroup \/ Stop \/ UNCHANGED allVars
        PROVE  UNCHANGED crashes
    BY <2>5 DEF LocalCut, DispatchGroup, Stop, allVars, vars, counters
  <2> QED
    BY <1>2, <2>2, <2>3, <2>4, <2>5 DEF LocalNext
<1>4. Undisturbed /\ OneWriter
  BY <1>1, <1>3 DEF HeardInv, Undisturbed, LocalInv
<1>5. ASSUME NEW w \in Workers, Group(w) \/ Closing(w) \/ Completing(w), ~WriteRow(w)
      PROVE  UNCHANGED words /\ Undisturbed'
  <2>1. UNCHANGED words
    BY <1>5 DEF Group, Closing, Completing, GroupDeliver, GroupAnswered, GroupRetryable,
              GroupFails, FallBack, GroupMark, Settle, Finalize, Close, CloseSave,
              CountAtClose, LocalRefresh, LocalSave, LocalConflict
  <2> QED
    BY <1>1, <1>4, <1>5, <2>1, GroupHeardStep, FallBackHeardStep DEF Group
<1>6. ASSUME (\E u \in Utterances : LocalCut(u)) \/ DispatchGroup \/ Stop
      PROVE  UNCHANGED words /\ Undisturbed'
  <2>1. UNCHANGED words
    BY <1>6 DEF LocalCut, DispatchGroup, Stop
  <2> QED
    BY <1>1, <1>4, <1>6, <2>1, DrainHeardStep
<1>7. ASSUME UNCHANGED allVars PROVE UNCHANGED words /\ Undisturbed'
  <2>1. UNCHANGED <<words, status, audio, gathered, groupQueue, localJob, alone, replayed>>
    BY <1>7 DEF allVars, localVars, vars, utterances, history
  <2>2. \A v \in Workers : (IsGroup(v)' <=> IsGroup(v)) /\ Members(v)' = Members(v)
    BY <2>1 DEF IsGroup, IsFinalize, Members
  <2>3. \A v \in Workers : Pending(Members(v))' = Pending(Members(v))
    BY <2>1, <2>2 DEF Pending
  <2> QED
    BY <1>4, <2>1, <2>2, <2>3 DEF Undisturbed, Pending, Apart
<1>8. ASSUME NEW w \in Workers, WriteRow(w) \/ LocalUtterance(w)
      PROVE  Undisturbed' /\ \A u \in Utterances : u \in words[u] => u \in words'[u]
  BY <1>1, <1>4, <1>8, WriteRowHeardStep, UtteranceHeardStep
<1> QED
  BY <1>3, <1>5, <1>6, <1>7, <1>8 DEF LocalNext

\* The speech of an utterance stays in its row while no worker dies in the middle of
\* a group: the row it is written to is its own, and nobody writes over it.
THEOREM LocalHeardStays == LocalSpec => HeardWordsStay
<1>1. HeardInv /\ [LocalNext]_allVars
        => HeardInv' /\ [crashes' = 0 => \A u \in Utterances : u \in words[u] => u \in words'[u]]_allVars
  BY LocalNextHeard
<1> QED
  BY <1>1, LocalInitHeard, PTL DEF LocalSpec, HeardWordsStay
-----------------------------------------------------------------------------
(* The answers fit their groups, and every finalize task was asked for by   *)
(* one stop.                                                                *)

\* An answer that is being written has words for each row.
AnswersFit == \A w \in Workers : IsGroup(w) /\ localJob[w].pc = "writing" => DOMAIN localJob[w].answer = DOMAIN Members(w)
WordsFit == words \in [Utterances -> SUBSET Utterances] /\ AnswersFit

Finalizers == {w \in Workers : IsFinalize(w)}
FinalizerStarts(w) ==
    /\ stopsDue > 0 /\ stopsDue' = stopsDue - 1 /\ stops' = stops
    /\ w \notin Finalizers /\ Finalizers' = Finalizers \cup {w}
FinalizerLeaves(w) ==
    /\ stopsDue' = stopsDue \/ stopsDue' = stopsDue + 1
    /\ stops' = stops
    /\ w \in Finalizers /\ Finalizers' = Finalizers \ {w}
FinalizersStay ==
    /\ \/ stopsDue' = stopsDue /\ stops' = stops
       \/ stopsDue' = stopsDue + 1 /\ stops < MaxStops /\ stops' = stops + 1
    /\ Finalizers' = Finalizers
FinalizersChange == FinalizersStay \/ \E w \in Workers : FinalizerStarts(w) \/ FinalizerLeaves(w)

\* A finalize task is told from a group's and from none.
LEMMA TasksDiffer ==
    ASSUME LocalTyped, NEW w \in Workers
    PROVE  /\ NoTask.pc = "idle" /\ NoTask \notin FinalizeTasks /\ NoTask \notin RunningGroups
           /\ FinalizeTasks \cap RunningGroups = {} /\ \A t \in FinalizeTasks : t.pc # "idle"
           /\ w \in Finalizers <=> localJob[w] \in FinalizeTasks
           /\ IsGroup(w) <=> localJob[w] \in RunningGroups
<1>1. /\ NoTask.pc = "idle" /\ NoTask \notin FinalizeTasks /\ NoTask \notin RunningGroups
      /\ FinalizeTasks \cap RunningGroups = {} /\ \A t \in FinalizeTasks : t.pc # "idle"
  BY DEF NoTask, FinalizeTasks, RunningGroups, GroupPcs
<1>2. w \in Finalizers <=> localJob[w] \in FinalizeTasks
  BY <1>1 DEF Finalizers, IsFinalize
<1>3. localJob[w] \in RunningGroups => localJob[w].pc # "idle"
  BY DEF RunningGroups, GroupPcs
<1> QED
  BY <1>1, <1>2, <1>3, RunningGroup DEF IsGroup, IsFinalize

LEMMA AfterTurn ==
    ASSUME LocalTyped, LocalTyped', NEW w \in Workers, NEW next, Turns(w, next),
           next \in RunningGroups /\ next.pc = "writing" => DOMAIN next.answer = DOMAIN next.message.members
    PROVE  /\ next \in FinalizeTasks => Finalizers' = Finalizers \cup {w}
           /\ next \notin FinalizeTasks => Finalizers' = Finalizers \ {w}
           /\ AnswersFit => AnswersFit'
<1>1. localJob'[w] = next /\ \A v \in Workers \ {w} : localJob'[v] = localJob[v]
  BY DEF Turns, LocalTyped
<1>2. \A v \in Workers \ {w} : /\ IsFinalize(v)' <=> IsFinalize(v)
                               /\ IsGroup(v)' <=> IsGroup(v)
                               /\ Members(v)' = Members(v)
  BY <1>1 DEF IsFinalize, IsGroup, Members
<1>3. IsFinalize(w)' <=> next \in FinalizeTasks
  BY <1>1, TasksDiffer DEF IsFinalize
<1>4. IsGroup(w)' => next \in RunningGroups
  BY <1>1, TasksDiffer DEF Turns, IsGroup, IsFinalize
<1>5. Members(w)' = next.message.members
  BY <1>1 DEF Members
<1>6. AnswersFit => AnswersFit'
  BY <1>1, <1>2, <1>4, <1>5 DEF AnswersFit
<1> QED
  BY <1>2, <1>3, <1>6 DEF Finalizers

LEMMA LocalTaskLeaves ==
    ASSUME LocalTyped, LocalTyped', NEW w \in Workers, Leave(w)
    PROVE  Finalizers' = Finalizers \ {w} /\ (AnswersFit => AnswersFit')
<1>1. Turns(w, NoTask)
  BY LeavingTurns
<1>2. NoTask \notin FinalizeTasks /\ NoTask \notin RunningGroups
  BY TasksDiffer
<1>3. (NoTask \notin FinalizeTasks => Finalizers' = Finalizers \ {w}) /\ (AnswersFit => AnswersFit')
  BY <1>1, <1>2, AfterTurn
<1> QED
  BY <1>2, <1>3

LEMMA LocalTaskIsBack ==
    ASSUME LocalTyped, LocalTyped', NEW w \in Workers, localJob[w].pc # "idle", Leave(w), stops' = stops,
           stopsDue' = IF IsFinalize(w) THEN stopsDue + 1 ELSE stopsDue
    PROVE  FinalizersChange /\ (AnswersFit => AnswersFit')
<1>1. Finalizers' = Finalizers \ {w} /\ (AnswersFit => AnswersFit')
  BY LocalTaskLeaves
<1>2. CASE IsFinalize(w)
  BY <1>1, <1>2 DEF Finalizers, FinalizerLeaves, FinalizersChange
<1>3. CASE ~IsFinalize(w)
  BY <1>1, <1>3 DEF Finalizers, FinalizersStay, FinalizersChange
<1> QED
  BY <1>1, <1>2, <1>3

LEMMA LocalTaskGoesOn ==
    ASSUME LocalTyped, LocalTyped', NEW w \in Workers, NEW pc, Step(w, pc), UNCHANGED <<stops, stopsDue>>,
           \/ IsGroup(w) /\ pc \in GroupPcs \ {"writing"}
           \/ IsFinalize(w) /\ pc \in {"closing", "closed", "counting", "refreshing", "saving"}
    PROVE  FinalizersChange /\ (AnswersFit => AnswersFit')
<1>1. CASE IsGroup(w) /\ pc \in GroupPcs \ {"writing"}
  <2>1. PICK next : Turns(w, next) /\ next.pc = pc /\ next = [localJob[w] EXCEPT !.pc = pc]
    BY <1>1, GroupStepTurns, Zenon
  <2>2. localJob[w] \in RunningGroups /\ localJob[w] \notin FinalizeTasks /\ w \notin Finalizers
    BY <1>1, TasksDiffer
  <2>3. next \in RunningGroups
    <3>1. pc \in GroupPcs
      BY <1>1
    <3>2. [localJob[w] EXCEPT !.pc = pc] \in RunningGroups
      BY <2>2, <3>1 DEF RunningGroups
    <3> QED
      BY <2>1, <3>2
  <2>4. next \notin FinalizeTasks
    BY <2>3, TasksDiffer
  <2>5. next.pc # "writing"
    BY <1>1, <2>1
  <2>6. Finalizers' = Finalizers \ {w} /\ (AnswersFit => AnswersFit')
    BY <2>1, <2>4, <2>5, AfterTurn
  <2> QED
    BY <2>2, <2>6 DEF FinalizersStay, FinalizersChange
<1>2. CASE IsFinalize(w) /\ pc \in {"closing", "closed", "counting", "refreshing", "saving"}
  <2>1. PICK next : Turns(w, next) /\ next \in FinalizeTasks
    BY <1>2, FinalizeStepTurns, Zenon
  <2>2. w \in Finalizers /\ next \notin RunningGroups
    BY <1>2, <2>1, TasksDiffer DEF Finalizers
  <2> QED
    BY <2>1, <2>2, AfterTurn DEF FinalizersStay, FinalizersChange
<1> QED
  BY <1>1, <1>2

LEMMA NoTaskTurns ==
    ASSUME UNCHANGED localJob
    PROVE  Finalizers' = Finalizers /\ (AnswersFit => AnswersFit')
BY DEF Finalizers, AnswersFit, IsFinalize, IsGroup, Members

LEMMA LocalTaskRaises ==
    ASSUME LocalTyped, LocalTyped', NEW w \in Workers, localJob[w].pc # "idle", LocalRaise(w), stops' = stops
    PROVE  FinalizersChange /\ (AnswersFit => AnswersFit')
<1>1. Leave(w) /\ stopsDue' = IF IsFinalize(w) THEN stopsDue + 1 ELSE stopsDue
  BY DEF LocalRaise
<1> QED
  BY <1>1, LocalTaskIsBack

LEMMA GroupTypesStep ==
    ASSUME LocalStateInv, LocalStateInv', WordsFit, NEW w \in Workers, Group(w)
    PROVE  FinalizersChange /\ WordsFit'
<1>0. LocalTyped /\ LocalTyped'
  BY DEF LocalStateInv
<1>1. ASSUME words' = words, AnswersFit => AnswersFit' PROVE WordsFit'
  BY <1>1 DEF WordsFit
<1>2. ASSUME NEW m \in groupQueue, GroupDeliver(w, m) PROVE FinalizersChange /\ WordsFit'
  <2> DEFINE next == [pc |-> IF \A u \in Range(m.members) : status[u] = "text" THEN "settling" ELSE "calling",
                      message |-> m, at |-> 1, answer |-> <<>>]
  <2>1. m \in GoodMessages /\ m.members \in GoodGroups
    BY <1>0 DEF LocalTyped, GoodMessages
  <2>2. next \in RunningGroups
    BY <2>1 DEF RunningGroups, GroupPcs
  <2>3. next.pc # "writing" /\ next.message = m /\ next.at = 1
    OBVIOUS
  <2>4. localJob' = [localJob EXCEPT ![w] = next] /\ words' = words /\ stops' = stops /\ stopsDue' = stopsDue
    BY <1>2 DEF GroupDeliver
  <2> HIDE DEF next
  <2>5. Turns(w, next)
    <3>1. 1 \in DOMAIN m.members
      BY <2>1, GroupsAreSequences
    <3> QED
      BY <2>2, <2>3, <2>4, <3>1 DEF Turns
  <2>6. next \notin FinalizeTasks
    BY <1>0, <2>2, TasksDiffer
  <2>7. Finalizers' = Finalizers \ {w} /\ (AnswersFit => AnswersFit')
    BY <1>0, <2>3, <2>5, <2>6, AfterTurn
  <2>8. w \notin Finalizers
    BY <1>2 DEF GroupDeliver, Free, Finalizers, IsFinalize
  <2> QED
    BY <1>1, <2>4, <2>7, <2>8 DEF FinalizersStay, FinalizersChange
<1>3. CASE GroupAnswered(w)
  <2>1. IsGroup(w) /\ words' = words /\ stops' = stops /\ stopsDue' = stopsDue
    BY <1>3 DEF GroupAnswered
  <2>2. PICK h \in Lands(Members(w)) : localJob' = [localJob EXCEPT ![w].pc = "writing", ![w].answer = h]
    BY <1>3, Zenon DEF GroupAnswered
  <2> DEFINE next == [localJob[w] EXCEPT !.pc = "writing", !.answer = h]
  <2>3. Turns(w, next) /\ next \in RunningGroups /\ next.message = localJob[w].message /\ next.answer = h
    BY <1>0, <2>1, <2>2, AnswerTurns
  <2> HIDE DEF next
  <2>4. DOMAIN next.answer = DOMAIN next.message.members
    BY <2>3 DEF Lands, Members
  <2>5. next \notin FinalizeTasks /\ w \notin Finalizers
    BY <1>0, <2>1, <2>3, TasksDiffer
  <2>6. Finalizers' = Finalizers \ {w} /\ (AnswersFit => AnswersFit')
    BY <1>0, <2>3, <2>4, <2>5, AfterTurn
  <2> QED
    BY <1>1, <2>1, <2>5, <2>6 DEF FinalizersStay, FinalizersChange
<1>4. ASSUME GroupRetryable(w) \/ GroupMark(w), LocalRaise(w) PROVE FinalizersChange /\ WordsFit'
  <2>1. localJob[w].pc # "idle" /\ words' = words /\ stops' = stops
    BY <1>4 DEF GroupRetryable, GroupMark
  <2> QED
    BY <1>0, <1>1, <1>4, <2>1, LocalTaskRaises
<1>5. ASSUME NEW pc \in GroupPcs \ {"writing"}, IsGroup(w), Step(w, pc), UNCHANGED <<stops, stopsDue, words>>
      PROVE  FinalizersChange /\ WordsFit'
  BY <1>0, <1>1, <1>5, LocalTaskGoesOn
<1>6. ASSUME IsGroup(w), Leave(w), UNCHANGED <<stops, stopsDue, words>> PROVE FinalizersChange /\ WordsFit'
  <2>1. localJob[w].pc # "idle" /\ ~IsFinalize(w)
    BY <1>6 DEF IsGroup
  <2> QED
    BY <1>0, <1>1, <1>6, <2>1, LocalTaskIsBack
<1>7. CASE GroupRetryable(w)
  BY <1>4, <1>7 DEF GroupRetryable
<1>8. CASE GroupFails(w)
  BY <1>5, <1>8 DEF GroupFails, GroupPcs
<1>9. CASE GroupMark(w)
  <2>1. CASE LocalRaise(w)
    BY <1>4, <1>9, <2>1
  <2>2. CASE ~LocalRaise(w)
    BY <1>5, <1>9, <2>2 DEF GroupMark, GroupPcs
  <2> QED
    BY <2>1, <2>2
<1>10. CASE Settle(w)
  BY <1>5, <1>6, <1>10 DEF Settle, GroupPcs
<1>11. ASSUME IsGroup(w), localJob' = [localJob EXCEPT ![w].at = localJob[w].at + 1], localJob[w].at # Len(Members(w)),
              UNCHANGED <<stops, stopsDue>>
       PROVE  FinalizersChange /\ (AnswersFit => AnswersFit')
  <2> DEFINE at == localJob[w].at
  <2> DEFINE next == [localJob[w] EXCEPT !.at = at + 1]
  <2>1. /\ Turns(w, next) /\ next \in RunningGroups /\ next.pc = localJob[w].pc
        /\ next.message = localJob[w].message /\ next.answer = localJob[w].answer
    BY <1>0, <1>11, NextMemberTurns
  <2> HIDE DEF next
  <2>2. next \notin FinalizeTasks /\ w \notin Finalizers
    BY <1>0, <1>11, <2>1, TasksDiffer
  <2>3. next.pc = "writing" => DOMAIN next.answer = DOMAIN next.message.members
    BY <1>11, <2>1 DEF WordsFit, AnswersFit, Members
  <2>4. Finalizers' = Finalizers \ {w} /\ (AnswersFit => AnswersFit')
    BY <1>0, <2>1, <2>2, <2>3, AfterTurn
  <2> QED
    BY <1>11, <2>2, <2>4 DEF FinalizersStay, FinalizersChange
<1>12. CASE FallBack(w)
  <2>1. IsGroup(w) /\ UNCHANGED <<stops, stopsDue, words>>
    BY <1>12 DEF FallBack
  <2>2. \/ Leave(w)
        \/ localJob[w].at # Len(Members(w)) /\ localJob' = [localJob EXCEPT ![w].at = localJob[w].at + 1]
    BY <1>12 DEF FallBack
  <2> QED
    BY <1>1, <1>6, <1>11, <2>1, <2>2
<1>13. CASE WriteRow(w)
  <2> DEFINE at == localJob[w].at
  <2>1. IsGroup(w) /\ localJob[w].pc = "writing" /\ UNCHANGED <<stops, stopsDue>>
    BY <1>13 DEF WriteRow
  <2>2. words' = [words EXCEPT ![Members(w)[at]] = localJob[w].answer[at]]
    BY <1>13 DEF WriteRow
  <2>3. localJob[w].answer[at] \in SUBSET Utterances
    <3>1. localJob[w].answer \in Seq(SUBSET Utterances)
      BY <1>0, <2>1, RunningGroup DEF RunningGroups
    <3>2. at \in DOMAIN localJob[w].answer
      BY <1>0, <2>1, RunningGroup DEF WordsFit, AnswersFit
    <3> QED
      BY <3>1, <3>2
  <2>4. words' \in [Utterances -> SUBSET Utterances]
    BY <2>2, <2>3 DEF WordsFit
  <2>5. \/ Step(w, "marking")
        \/ localJob[w].at # Len(Members(w)) /\ localJob' = [localJob EXCEPT ![w].at = localJob[w].at + 1]
    BY <1>13 DEF WriteRow, Step
  <2>6. FinalizersChange /\ (AnswersFit => AnswersFit')
    <3>1. CASE Step(w, "marking")
      <4>1. "marking" \in GroupPcs \ {"writing"}
        BY DEF GroupPcs
      <4> QED
        BY <1>0, <2>1, <3>1, <4>1, LocalTaskGoesOn
    <3> QED
      BY <1>11, <2>1, <2>5, <3>1
  <2> QED
    BY <2>4, <2>6 DEF WordsFit
<1> QED
  BY <1>2, <1>3, <1>7, <1>8, <1>9, <1>10, <1>12, <1>13 DEF Group


LEMMA FinalizePcs ==
    ASSUME LocalTyped, NEW w \in Workers
    PROVE  /\ localJob[w].pc \in {"closing", "closed", "counting"} => IsFinalize(w)
           /\ localJob[w].pc \in {"refreshing", "saving"} => IsFinalize(w) \/ IsGroup(w)
<1>1. localJob[w] \in RunningGroups => localJob[w].pc \notin {"closing", "closed", "counting"}
  BY DEF RunningGroups, GroupPcs
<1>2. IsGroup(w) => localJob[w] \in RunningGroups
  BY RunningGroup
<1> QED
  BY <1>1, <1>2 DEF IsGroup

LEMMA ClosingTypesStep ==
    ASSUME LocalStateInv, LocalStateInv', WordsFit, NEW w \in Workers,
           Closing(w) \/ Completing(w) \/ LocalCrash(w)
    PROVE  FinalizersChange /\ WordsFit'
<1>0. LocalTyped /\ LocalTyped'
  BY DEF LocalStateInv
<1>1. words' = words /\ stops' = stops
  BY DEF Closing, Completing, Finalize, Close, CloseSave, CountAtClose, LocalRefresh, LocalSave, LocalConflict,
         LocalCrash
<1>2. ASSUME AnswersFit => AnswersFit' PROVE WordsFit'
  BY <1>1, <1>2 DEF WordsFit
<1>3. ASSUME NEW pc \in {"closing", "closed", "counting", "refreshing", "saving"},
             IsFinalize(w), Step(w, pc), stopsDue' = stopsDue
      PROVE  FinalizersChange /\ WordsFit'
  BY <1>0, <1>1, <1>2, <1>3, LocalTaskGoesOn
<1>4. ASSUME localJob[w].pc # "idle", Leave(w), stopsDue' = stopsDue PROVE FinalizersChange /\ WordsFit'
  <2>1. Finalizers' = Finalizers \ {w} /\ WordsFit'
    BY <1>0, <1>2, <1>4, LocalTaskLeaves
  <2>2. CASE w \in Finalizers
    BY <1>1, <1>4, <2>1, <2>2 DEF FinalizerLeaves, FinalizersChange
  <2>3. CASE w \notin Finalizers
    BY <1>1, <1>4, <2>1, <2>3 DEF FinalizersStay, FinalizersChange
  <2> QED
    BY <2>1, <2>2, <2>3
<1>5. ASSUME localJob[w].pc # "idle", LocalRaise(w) PROVE FinalizersChange /\ WordsFit'
  BY <1>0, <1>1, <1>2, <1>5, LocalTaskRaises
<1>6. CASE Finalize(w)
  <2> DEFINE next == [pc |-> "closing"]
  <2>1. next \in FinalizeTasks /\ next \notin RunningGroups
    <3>1. next \in FinalizeTasks
      BY DEF FinalizeTasks
    <3> QED
      BY <1>0, <3>1, TasksDiffer
  <2>2. localJob' = [localJob EXCEPT ![w] = next] /\ stopsDue > 0 /\ stopsDue' = stopsDue - 1
    BY <1>6 DEF Finalize
  <2> HIDE DEF next
  <2>3. Turns(w, next)
    BY <2>1, <2>2 DEF Turns
  <2>4. Finalizers' = Finalizers \cup {w} /\ (AnswersFit => AnswersFit')
    BY <1>0, <2>1, <2>3, AfterTurn
  <2>5. w \notin Finalizers
    BY <1>6 DEF Finalize, Free, Finalizers, IsFinalize
  <2>6. FinalizersChange
    BY <1>1, <2>2, <2>4, <2>5 DEF FinalizerStarts, FinalizersChange
  <2> QED
    BY <1>2, <2>4, <2>6
<1>7. CASE Close(w)
  BY <1>0, <1>3, <1>4, <1>7, FinalizePcs DEF Close
<1>8. CASE CloseSave(w)
  BY <1>0, <1>3, <1>8, FinalizePcs DEF CloseSave
<1>9. CASE CountAtClose(w)
  BY <1>0, <1>3, <1>4, <1>9, FinalizePcs DEF CountAtClose
<1>10. CASE LocalRefresh(w)
  <2>1. localJob[w].pc = "refreshing"
    BY <1>10 DEF LocalRefresh
  <2>2. \/ Leave(w) /\ stopsDue' = stopsDue
        \/ Step(w, "saving") /\ stopsDue' = stopsDue
        \/ LocalRaise(w)
    BY <1>10 DEF LocalRefresh
  <2>3. CASE Step(w, "saving") /\ stopsDue' = stopsDue
    <3>1. IsFinalize(w) \/ IsGroup(w)
      BY <1>0, <2>1, FinalizePcs
    <3>2. "saving" \in GroupPcs \ {"writing"}
      BY DEF GroupPcs
    <3> QED
      BY <1>0, <1>1, <1>2, <2>3, <3>1, <3>2, LocalTaskGoesOn
  <2> QED
    BY <1>4, <1>5, <2>1, <2>2, <2>3
<1>11. CASE LocalSave(w)
  BY <1>4, <1>11 DEF LocalSave
<1>12. CASE LocalConflict(w)
  <2>1. localJob[w].pc # "idle" /\ LocalRaise(w)
    BY <1>12 DEF LocalConflict
  <2> QED
    BY <1>5, <2>1
<1>13. CASE LocalCrash(w)
  <2>1. localJob[w].pc # "idle" /\ Leave(w) /\ stopsDue' = IF IsFinalize(w) THEN stopsDue + 1 ELSE stopsDue
    BY <1>13 DEF LocalCrash
  <2> QED
    BY <1>0, <1>1, <1>2, <2>1, LocalTaskIsBack
<1> QED
  BY <1>6, <1>7, <1>8, <1>9, <1>10, <1>11, <1>12, <1>13 DEF Closing, Completing

LEMMA DrainTypesStep ==
    ASSUME WordsFit, (\E u \in Utterances : LocalCut(u)) \/ DispatchGroup \/ Stop \/ UNCHANGED allVars
    PROVE  FinalizersChange /\ WordsFit'
<1>1. localJob' = localJob /\ words' = words
  BY DEF LocalCut, DispatchGroup, Stop, allVars, localVars
<1>2. \/ stopsDue' = stopsDue /\ stops' = stops
      \/ stopsDue' = stopsDue + 1 /\ stops < MaxStops /\ stops' = stops + 1
  BY DEF LocalCut, DispatchGroup, Stop, allVars, localVars
<1> QED
  BY <1>1, <1>2, NoTaskTurns DEF WordsFit, FinalizersStay, FinalizersChange

LEMMA UtteranceTypesStep ==
    ASSUME LocalStateInv, WordsFit, NEW w \in Workers, LocalUtterance(w) \/ (Crash(w) /\ UNCHANGED localVars)
    PROVE  FinalizersChange /\ WordsFit'
<1>1. localJob' = localJob /\ stops' = stops /\ stopsDue' = stopsDue
  BY DEF LocalUtterance, localVars
<1>2. words' \in [Utterances -> SUBSET Utterances]
  <2>1. CASE UNCHANGED localVars
    BY <2>1 DEF localVars, WordsFit
  <2>2. CASE LocalUtterance(w) /\ job[w].pc # "calling"
    BY <2>2 DEF LocalUtterance, WordsFit
  <2>3. CASE LocalUtterance(w) /\ job[w].pc = "calling"
    <3>1. job[w].utt \in Utterances
      BY <2>3 DEF LocalStateInv, StateInv, TypeOK, Tasks, NoTask
    <3>2. words' = [words EXCEPT ![job[w].utt] = IF status'[job[w].utt] = "text" THEN {job[w].utt} ELSE {}]
      BY <2>3 DEF LocalUtterance
    <3> QED
      BY <3>1, <3>2 DEF WordsFit
  <2> QED
    BY <2>1, <2>2, <2>3
<1> QED
  BY <1>1, <1>2, NoTaskTurns DEF WordsFit, FinalizersStay, FinalizersChange

\* The tasks of finalize, waiting or run, are no more than the stops that asked for them.
LocalFinalizesAskedFor ==
    /\ stopsDue \in Nat /\ stops \in 0 .. MaxStops /\ IsFiniteSet(Finalizers)
    /\ stopsDue + Cardinality(Finalizers) <= stops

LEMMA LocalFinalizesStayAskedFor ==
    ASSUME LocalFinalizesAskedFor, FinalizersChange
    PROVE  LocalFinalizesAskedFor'
<1>0. Cardinality(Finalizers) \in Nat /\ MaxStops \in Nat /\ stops \in Nat
  BY FS_CardinalityType, LocalBounds DEF LocalFinalizesAskedFor
<1>1. CASE FinalizersStay
  BY <1>0, <1>1 DEF FinalizersStay, LocalFinalizesAskedFor
<1>2. ASSUME NEW w \in Workers, FinalizerStarts(w) PROVE LocalFinalizesAskedFor'
  <2>1. IsFiniteSet(Finalizers \cup {w}) /\ Cardinality(Finalizers \cup {w}) = Cardinality(Finalizers) + 1
    BY <1>2, FS_AddElement DEF LocalFinalizesAskedFor, FinalizerStarts
  <2>2. IsFiniteSet(Finalizers') /\ Cardinality(Finalizers') = Cardinality(Finalizers) + 1
    BY <1>2, <2>1 DEF FinalizerStarts
  <2> QED
    BY <1>0, <1>2, <2>2 DEF FinalizerStarts, LocalFinalizesAskedFor
<1>3. ASSUME NEW w \in Workers, FinalizerLeaves(w) PROVE LocalFinalizesAskedFor'
  <2>1. IsFiniteSet(Finalizers \ {w}) /\ Cardinality(Finalizers \ {w}) = Cardinality(Finalizers) - 1
    BY <1>3, FS_RemoveElement DEF LocalFinalizesAskedFor, FinalizerLeaves
  <2>2. IsFiniteSet(Finalizers') /\ Cardinality(Finalizers') = Cardinality(Finalizers) - 1
    BY <1>3, <2>1 DEF FinalizerLeaves
  <2> QED
    BY <1>0, <1>3, <2>2 DEF FinalizerLeaves, LocalFinalizesAskedFor
<1> QED
  BY <1>1, <1>2, <1>3 DEF FinalizersChange

\* The groups of the model are those the proofs speak of.
LEMMA GroupsAreGood == GoodGroups = Groups /\ GoodMessages = GroupMessages /\ RunningGroups = GroupTasks
<1>1. GoodGroups = Groups
  BY DEF GoodGroups, Groups, IsInjective
<1> QED
  BY <1>1 DEF GoodMessages, GroupMessages, RunningGroups, GroupTasks, GroupPcs

\* The rows of a local session, its groups and its tasks keep their types: a group has
\* no utterance twice and its task is never past its last member, what is written is the
\* answer to a row of the group, and of the tasks that finalize a session there are never
\* more, waiting or run, than stops asked for them.
THEOREM LocalTypeCorrect == LocalSpec => [](LocalTypeOK /\ LocalFinalizesAskedFor)
<1> DEFINE Inv == LocalStateInv /\ WordsFit /\ LocalFinalizesAskedFor
<1>1. LocalInit => Inv
  <2> SUFFICES ASSUME LocalInit PROVE Inv
    OBVIOUS
  <2>1. \A w \in Workers : ~IsFinalize(w) /\ ~IsGroup(w)
    BY DEF LocalInit, NoTask, IsFinalize, IsGroup
  <2>2. Finalizers = {} /\ WordsFit
    BY <2>1 DEF LocalInit, Finalizers, WordsFit, AnswersFit
  <2>3. LocalFinalizesAskedFor
    BY <2>2, FS_EmptySet, LocalBounds DEF LocalInit, LocalFinalizesAskedFor
  <2> QED
    BY <2>2, <2>3, LocalInitInv DEF LocalInv
<1>2. LocalInv /\ LocalInv' /\ Inv /\ [LocalNext]_allVars => Inv'
  <2> SUFFICES ASSUME LocalInv, LocalInv', Inv, [LocalNext]_allVars PROVE Inv'
    OBVIOUS
  <2>0. LocalStateInv /\ LocalStateInv'
    BY DEF LocalInv
  <2>1. FinalizersChange /\ WordsFit'
    BY <2>0, GroupTypesStep, ClosingTypesStep, DrainTypesStep, UtteranceTypesStep DEF LocalNext
  <2> QED
    BY <2>0, <2>1, LocalFinalizesStayAskedFor
<1>3. Inv => LocalTypeOK /\ LocalFinalizesAskedFor
  <2> SUFFICES ASSUME Inv PROVE LocalTypeOK
    OBVIOUS
  <2>1. Cardinality(Finalizers) \in Nat
    BY FS_CardinalityType DEF LocalFinalizesAskedFor
  <2>2. stopsDue \in 0 .. MaxStops /\ stops \in 0 .. MaxStops
    BY <2>1, LocalBounds DEF LocalFinalizesAskedFor
  <2>3. ASSUME NEW w \in Workers
        PROVE  \/ localJob[w] \in FinalizeTasks \cup {NoTask}
               \/ localJob[w] \in GroupTasks /\ localJob[w].at \in DOMAIN localJob[w].message.members
    <3>1. localJob[w] \in RunningGroups \cup FinalizeTasks \cup {NoTask}
      BY DEF LocalStateInv, LocalTyped
    <3>2. localJob[w] \in RunningGroups => localJob[w].at \in DOMAIN localJob[w].message.members
      BY TasksDiffer DEF LocalStateInv, LocalTyped, Members
    <3> QED
      BY <3>1, <3>2, GroupsAreGood
  <2> QED
    BY <2>2, <2>3, GroupsAreGood DEF LocalTypeOK, LocalStateInv, StateInv, LocalTyped, WordsFit
<1> QED
  BY <1>1, <1>2, <1>3, LocalInvariant, PTL DEF LocalSpec
=============================================================================
