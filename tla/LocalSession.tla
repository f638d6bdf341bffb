----------------------------- MODULE LocalSession -----------------------------
(***************************************************************************)
(* The audio of a local recording session on its way from the uploads to   *)
(* the transcription requests: the queue, tail, lock and group that Redis  *)
(* holds per source (src/bots/local_session_store.py), the drains that cut *)
(* it into utterances (drain_local_session_audio and                       *)
(* finalize_local_session in src/bots/tasks/                               *)
(* process_local_audio_segment_task.py) and the rows they create.          *)
(*                                                                         *)
(* A segment is its sequence number. The VAD is deterministic: it closes   *)
(* an utterance after the segments in pauses, and where a segment is       *)
(* missing. An utterance is named by its source and its first segment, as  *)
(* source_uuid names it by its start.                                      *)
(***************************************************************************)
EXTENDS Naturals, Sequences, FiniteSets, SequencesExt, FiniteSetsExt

CONSTANTS
    Sources,          \* mic and system
    Workers,          \* the Celery processes that drain
    MaxSequence,      \* segments of each source
    MaxPerDrain,      \* MAX_SEGMENTS_PER_DRAIN (200)
    MaxReplays,       \* bound on the uploads that are repeated
    MaxStops,         \* bound on the finalize tasks asked for
    MaxCrashes,       \* bound on the workers that die
    MaxOverruns       \* bound on the drains of a source that outlive their lock

ASSUME BoundsAssumption == /\ MaxSequence \in Nat \ {0}
                           /\ MaxPerDrain \in Nat \ {0}
                           /\ MaxReplays \in Nat
                           /\ MaxStops \in Nat
                           /\ MaxCrashes \in Nat
                           /\ MaxOverruns \in Nat

VARIABLES
    pauses,    \* the segments that end in a pause
    uploaded,  \* the latest segment uploaded
    queue,     \* local_session_queue
    tail,      \* local_session_tail: the audio held, and the last sequence seen
    lock,      \* local_session_lock
    group,     \* local_session_group: rows gathered
    rows,      \* the Utterance rows: the segments in each
    sent,      \* how often each row was sent to process_local_utterance_group
    trState,   \* Recording.transcription_state
    refreshed, \* the drains whose copy of a NOT_STARTED recording is current
    closed,    \* finalize has completed the recording
    due,       \* drain tasks waiting, by source
    stopsDue,  \* finalize tasks waiting
    job,       \* what each worker is doing
    replays, stops, crashes,
    raised,    \* a drain has left by an exception, with what it had popped
    late,      \* uploaded once the stop was asked for, or left by finalize's pop
    overruns,  \* how often a lock has expired while a drain was at work
    met        \* the sources at which two drains have been at work at once

redis == <<queue, tail, lock, group>>
database == <<rows, trState, refreshed, closed>>
tasks == <<due, stopsDue>>
faults == <<replays, stops, crashes>>
history == <<raised, late, overruns, met>>
counters == <<faults, history>>
vars == <<pauses, uploaded, redis, database, sent, tasks, job, counters>>

Segments == 1 .. MaxSequence
Ids == Sources \X Segments
Tails == [held : Seq(Segments), last : 0 .. MaxSequence]

\* A drain of one source, on its own or for finalize, which has the sources in
\* todo still to drain.
Drains == [pc : {"taking", "cutting", "marking", "saving", "gathering", "dispatching",
                 "keeping", "unlocking", "looking"},
           source : Sources, final : BOOLEAN, todo : SUBSET Sources,
           audio : Seq(Segments), last : 0 .. MaxSequence,
           members : SUBSET Ids, new : SUBSET Ids]
Closings == [pc : {"locking", "closing"}, todo : SUBSET Sources]
Idle == [pc |-> "idle"]

TypeOK ==
    /\ pauses \in [Sources -> SUBSET Segments]
    /\ uploaded \in [Sources -> 0 .. MaxSequence]
    /\ queue \in [Sources -> Seq(Segments)]
    /\ tail \in [Sources -> Tails]
    /\ lock \in [Sources -> BOOLEAN]
    /\ group \in [Sources -> SUBSET Ids]
    /\ rows \in [Ids -> SUBSET Segments]
    /\ sent \in [Ids -> Nat]
    /\ trState \in {"NOT_STARTED", "IN_PROGRESS", "COMPLETE"}
    /\ refreshed \subseteq Workers
    /\ closed \in BOOLEAN
    /\ due \in [Sources -> Nat]
    /\ stopsDue \in 0 .. MaxStops
    /\ job \in [Workers -> Drains \cup Closings \cup {Idle}]
    /\ replays \in 0 .. MaxReplays
    /\ stops \in 0 .. MaxStops
    /\ crashes \in 0 .. MaxCrashes
    /\ raised \in BOOLEAN
    /\ late \in [Sources -> SUBSET Segments]
    /\ overruns \in [Sources -> 0 .. MaxOverruns]
    /\ met \subseteq Sources

\* LocalSessionCreateView has just created the session.
Init ==
    /\ pauses \in [Sources -> SUBSET Segments]
    /\ uploaded = [s \in Sources |-> 0]
    /\ queue = [s \in Sources |-> <<>>]
    /\ tail = [s \in Sources |-> [held |-> <<>>, last |-> 0]]
    /\ lock = [s \in Sources |-> FALSE]
    /\ group = [s \in Sources |-> {}]
    /\ rows = [id \in Ids |-> {}]
    /\ sent = [id \in Ids |-> 0]
    /\ trState = "NOT_STARTED"
    /\ refreshed = {}
    /\ closed = FALSE
    /\ due = [s \in Sources |-> 0]
    /\ stopsDue = 0
    /\ job = [w \in Workers |-> Idle]
    /\ replays = 0
    /\ stops = 0
    /\ crashes = 0
    /\ raised = FALSE
    /\ late = [s \in Sources |-> {}]
    /\ overruns = [s \in Sources |-> 0]
    /\ met = {}

-----------------------------------------------------------------------------
\* One waiting drain does the work of several.
Due(s) == due' = [due EXCEPT ![s] = 1]
Exists(id) == rows[id] # {}
Goto(w, pc) == job' = [job EXCEPT ![w].pc = pc]
Leave(w) == job' = [job EXCEPT ![w] = Idle]
Source(w) == job[w].source
Draining(w, s) == job[w] \in Drains /\ job[w].source = s
AtWork(w, s) == Draining(w, s) /\ job[w].pc # "looking"
Meets(s) == met' = IF \E w \in Workers : AtWork(w, s) THEN met \cup {s} ELSE met

\* LocalSessionAudioView, which does not ask whether the session was stopped:
\* the segment is queued, then a drain is.
Queue(s, n) ==
    /\ queue' = [queue EXCEPT ![s] = Append(@, n)]
    /\ late' = IF stops > 0 THEN [late EXCEPT ![s] = @ \cup {n}] ELSE late
    /\ Due(s)

Upload(s) ==
    /\ uploaded[s] < MaxSequence
    /\ uploaded' = [uploaded EXCEPT ![s] = @ + 1]
    /\ Queue(s, uploaded[s] + 1)
    /\ UNCHANGED <<pauses, tail, lock, group, database, sent, stopsDue, job, faults, raised, overruns, met>>

\* The desktop did not see the answer and uploads the segment again.
UploadAgain(s) ==
    /\ replays < MaxReplays
    /\ replays' = replays + 1
    /\ \E n \in 1 .. uploaded[s] : Queue(s, n)
    /\ UNCHANGED <<pauses, uploaded, tail, lock, group, database, sent, stopsDue, job, stops, crashes, raised,
                   overruns, met>>

\* LocalSessionStopView, or the reaper of idle sessions.
Stop ==
    /\ stops < MaxStops
    /\ stops' = stops + 1
    /\ stopsDue' = stopsDue + 1
    /\ UNCHANGED <<pauses, uploaded, redis, database, sent, due, job, replays, crashes, history>>

-----------------------------------------------------------------------------
Drain(s, final, todo) ==
    [pc |-> "taking", source |-> s, final |-> final, todo |-> todo, audio |-> <<>>,
     last |-> 0, members |-> {}, new |-> {}]

\* Mutant of StartDrain: the lock is not looked at.
StartUnlocked(w, s) ==
    /\ job[w].pc = "idle"
    /\ due[s] > 0
    /\ due' = [due EXCEPT ![s] = 0]
    /\ lock' = [lock EXCEPT ![s] = TRUE]
    /\ job' = [job EXCEPT ![w] = Drain(s, FALSE, {})]
    /\ Meets(s)
    /\ UNCHANGED <<pauses, uploaded, queue, tail, group, database, sent, stopsDue, faults, raised, late, overruns>>

\* drain_local_session_audio: SET NX of the lock.
StartDrain(w, s) ==
    /\ job[w].pc = "idle"
    /\ due[s] > 0
    /\ due' = [due EXCEPT ![s] = 0]
    /\ ~lock[s]
    /\ lock' = [lock EXCEPT ![s] = TRUE]
    /\ job' = [job EXCEPT ![w] = Drain(s, FALSE, {})]
    /\ Meets(s)
    /\ UNCHANGED <<pauses, uploaded, queue, tail, group, database, sent, stopsDue, faults, raised, late, overruns>>

\* "A drain that loses the race simply exits".
SkipDrain(w, s) ==
    /\ job[w].pc = "idle"
    /\ due[s] > 0
    /\ due' = [due EXCEPT ![s] = 0]
    /\ lock[s]
    /\ UNCHANGED <<pauses, uploaded, redis, database, sent, stopsDue, job, counters>>

StartFinalize(w) ==
    /\ job[w].pc = "idle"
    /\ stopsDue > 0
    /\ stopsDue' = stopsDue - 1
    /\ job' = [job EXCEPT ![w] = [pc |-> "locking", todo |-> Sources]]
    /\ UNCHANGED <<pauses, uploaded, redis, database, sent, due, counters>>

\* Mutant of LockForFinal: a source that is being drained is passed over.
SkipForFinal(w) ==
    /\ job[w].pc = "locking"
    /\ IF job[w].todo = {}
         THEN Goto(w, "closing") /\ UNCHANGED <<lock, met>>
       ELSE \E s \in job[w].todo :
         IF lock[s]
           THEN job' = [job EXCEPT ![w].todo = @ \ {s}] /\ UNCHANGED <<lock, met>>
           ELSE /\ lock' = [lock EXCEPT ![s] = TRUE]
                /\ job' = [job EXCEPT ![w] = Drain(s, TRUE, job[w].todo \ {s})]
                /\ Meets(s)
    /\ UNCHANGED <<pauses, uploaded, queue, tail, group, database, sent, tasks, faults, raised, late, overruns>>

\* finalize_local_session locks its sources one after the other; while one is
\* busy the task is retried from the beginning.
LockForFinal(w) ==
    /\ job[w].pc = "locking"
    /\ IF job[w].todo = {}
         THEN Goto(w, "closing") /\ UNCHANGED <<lock, stopsDue, met>>
       ELSE \E s \in job[w].todo :
         IF lock[s]
           THEN Leave(w) /\ stopsDue' = stopsDue + 1 /\ UNCHANGED <<lock, met>>
           ELSE /\ lock' = [lock EXCEPT ![s] = TRUE]
                /\ job' = [job EXCEPT ![w] = Drain(s, TRUE, job[w].todo \ {s})]
                /\ Meets(s)
                /\ UNCHANGED stopsDue
    /\ UNCHANGED <<pauses, uploaded, queue, tail, group, database, sent, due, faults, raised, late, overruns>>

-----------------------------------------------------------------------------
Sorted(S) ==
    CHOOSE q \in [1 .. Cardinality(S) -> S] :
       Range(q) = S /\ \A i, j \in DOMAIN q : i < j => q[i] < q[j]

\* pop_segments: the popped segments that are not replays, of an earlier drain
\* or of this one, sorted.
Fresh(popped, last) == Sorted({n \in Range(popped) : n > last})

\* The end of _drain's work on an empty queue.
NothingToDo(w, new) == new = <<>> /\ ~(job[w].final /\ tail[Source(w)].held # <<>>)

\* load_tail and pop_segments: what is popped is only in the task's memory. Finalize
\* pops once, and does not come back for the rest.
Take(w) ==
    /\ job[w].pc = "taking"
    /\ LET s == Source(w)
           n == IF Len(queue[s]) < MaxPerDrain THEN Len(queue[s]) ELSE MaxPerDrain
           new == Fresh(SubSeq(queue[s], 1, n), tail[s].last)
       IN  /\ queue' = [queue EXCEPT ![s] = SubSeq(@, n + 1, Len(@))]
           /\ job' = IF NothingToDo(w, new) THEN [job EXCEPT ![w].pc = "unlocking"]
                     ELSE [job EXCEPT ![w].pc = "cutting", ![w].audio = tail[s].held \o new,
                                      ![w].last = IF new = <<>> THEN tail[s].last ELSE new[Len(new)]]
           /\ late' = IF job[w].final THEN [late EXCEPT ![s] = @ \cup ToSet(queue'[s])] ELSE late
    /\ UNCHANGED <<pauses, uploaded, tail, lock, group, database, sent, tasks, faults, raised, overruns, met>>

\* The VAD closes an utterance after the i-th segment of the audio.
Closes(w, i) ==
    LET audio == job[w].audio IN
    \/ audio[i] \in pauses[Source(w)]
    \/ i < Len(audio) /\ audio[i + 1] # audio[i] + 1
    \/ i = Len(audio) /\ job[w].final

Ends(w) == {i \in DOMAIN job[w].audio : Closes(w, i)}

\* create_utterance: the row, unless a run before this one has written it.
CutRow(w) ==
    /\ job[w].pc = "cutting"
    /\ Ends(w) # {}
    /\ LET end == Min(Ends(w))
           id == <<Source(w), job[w].audio[1]>>
           rest == SubSeq(job[w].audio, end + 1, Len(job[w].audio))
       IN  IF Exists(id)
             THEN job' = [job EXCEPT ![w].audio = rest] /\ UNCHANGED rows
             ELSE /\ rows' = [rows EXCEPT ![id] = ToSet(SubSeq(job[w].audio, 1, end))]
                  /\ job' = [job EXCEPT ![w].pc = "marking", ![w].new = {id}, ![w].audio = rest]
    /\ UNCHANGED <<pauses, uploaded, redis, trState, refreshed, closed, sent, tasks, counters>>

\* An exception leaves the task: the lock is deleted and Celery retries it. The
\* segments it had popped are gone.
Raise(w) ==
    /\ lock' = [lock EXCEPT ![Source(w)] = FALSE]
    /\ Leave(w)
    /\ IF job[w].final THEN stopsDue' = stopsDue + 1 /\ UNCHANGED due
       ELSE Due(Source(w)) /\ UNCHANGED stopsDue
    /\ raised' = TRUE

Gathered(w) ==
    job' = [job EXCEPT ![w].pc = "cutting", ![w].members = @ \cup job[w].new, ![w].new = {}]

\* set_recording_transcription_in_progress: refreshed here, saved in the next
\* step, under the version of the row.
Mark(w) ==
    /\ job[w].pc = "marking"
    /\ CASE trState = "IN_PROGRESS" -> Gathered(w) /\ UNCHANGED <<refreshed, lock, tasks, raised>>
         [] trState = "NOT_STARTED" -> /\ Goto(w, "saving")
                                       /\ refreshed' = refreshed \cup {w}
                                       /\ UNCHANGED <<lock, tasks, raised>>
         [] trState = "COMPLETE" -> Raise(w) /\ UNCHANGED refreshed
    /\ UNCHANGED <<pauses, uploaded, queue, tail, group, rows, trState, closed, sent, faults, late, overruns, met>>

SaveMark(w) ==
    /\ job[w].pc = "saving"
    /\ w \in refreshed
    /\ trState' = "IN_PROGRESS"
    /\ refreshed' = {}
    /\ Gathered(w)
    /\ UNCHANGED <<pauses, uploaded, redis, rows, closed, sent, tasks, counters>>

MarkConflict(w) ==
    /\ job[w].pc = "saving"
    /\ w \notin refreshed
    /\ Raise(w)
    /\ UNCHANGED <<pauses, uploaded, queue, tail, group, database, sent, faults, late, overruns, met>>

\* _settle_group: load_group, and the rows of this drain.
Gather(w) ==
    /\ job[w].pc = "cutting"
    /\ Ends(w) = {}
    /\ job' = [job EXCEPT ![w].pc = "gathering", ![w].members = @ \cup group[Source(w)]]
    /\ UNCHANGED <<pauses, uploaded, redis, database, sent, tasks, counters>>

\* Not enough speech yet, or no pause.
Hold(w) ==
    /\ job[w].pc = "gathering"
    /\ ~(job[w].final /\ job[w].members # {})
    /\ group' = [group EXCEPT ![Source(w)] = job[w].members]
    /\ Goto(w, "keeping")
    /\ UNCHANGED <<pauses, uploaded, queue, tail, lock, database, sent, tasks, counters>>

\* Mutant of Clear: the group is left as it was.
ClearNothing(w) ==
    /\ job[w].pc = "gathering"
    /\ job[w].members # {}
    /\ Goto(w, "dispatching")
    /\ UNCHANGED <<pauses, uploaded, redis, database, sent, tasks, counters>>

\* The group is ready: "Cleared BEFORE dispatch".
Clear(w) ==
    /\ job[w].pc = "gathering"
    /\ job[w].members # {}
    /\ group' = [group EXCEPT ![Source(w)] = {}]
    /\ Goto(w, "dispatching")
    /\ UNCHANGED <<pauses, uploaded, queue, tail, lock, database, sent, tasks, counters>>

Dispatch(w) ==
    /\ job[w].pc = "dispatching"
    /\ sent' = [id \in Ids |-> IF id \in job[w].members THEN sent[id] + 1 ELSE sent[id]]
    /\ job' = [job EXCEPT ![w].pc = "keeping", ![w].members = {}]
    /\ UNCHANGED <<pauses, uploaded, redis, database, tasks, counters>>

\* Mutant of Keep: the tail of a drain that ends in the middle of an utterance is
\* saved without its audio.
KeepNothing(w) ==
    /\ job[w].pc = "keeping"
    /\ tail' = [tail EXCEPT ![Source(w)] = [held |-> <<>>, last |-> job[w].last]]
    /\ Goto(w, "unlocking")
    /\ UNCHANGED <<pauses, uploaded, queue, lock, group, database, sent, tasks, counters>>

\* save_tail: what no pause has closed yet.
Keep(w) ==
    /\ job[w].pc = "keeping"
    /\ tail' = [tail EXCEPT ![Source(w)] = [held |-> job[w].audio, last |-> job[w].last]]
    /\ Goto(w, "unlocking")
    /\ UNCHANGED <<pauses, uploaded, queue, lock, group, database, sent, tasks, counters>>

\* Mutant of Unlock: the queue is not looked at once the lock is deleted.
UnlockAndLeave(w) ==
    /\ job[w].pc = "unlocking"
    /\ lock' = [lock EXCEPT ![Source(w)] = FALSE]
    /\ job' = [job EXCEPT ![w] = IF job[w].final THEN [pc |-> "locking", todo |-> job[w].todo]
                                 ELSE Idle]
    /\ UNCHANGED <<pauses, uploaded, queue, tail, group, database, sent, tasks, counters>>

\* The lock is deleted, whoever holds it.
Unlock(w) ==
    /\ job[w].pc = "unlocking"
    /\ lock' = [lock EXCEPT ![Source(w)] = FALSE]
    /\ job' = [job EXCEPT ![w] = IF job[w].final THEN [pc |-> "locking", todo |-> job[w].todo]
                                 ELSE [@ EXCEPT !.pc = "looking", !.audio = <<>>, !.members = {}]]
    /\ UNCHANGED <<pauses, uploaded, queue, tail, group, database, sent, tasks, counters>>

\* "Anything that arrived while we held the lock still needs draining."
LookAgain(w) ==
    /\ job[w].pc = "looking"
    /\ IF queue[Source(w)] # <<>> THEN Due(Source(w)) ELSE UNCHANGED due
    /\ Leave(w)
    /\ UNCHANGED <<pauses, uploaded, redis, database, sent, stopsDue, counters>>

\* set_recording_complete, which does nothing the second time, and the end of the
\* session.
Close(w) ==
    /\ job[w].pc = "closing"
    /\ closed' = TRUE
    /\ refreshed' = IF closed THEN refreshed ELSE {}
    /\ Leave(w)
    /\ UNCHANGED <<pauses, uploaded, redis, rows, trState, sent, tasks, counters>>

\* The rows have their text: LocalTranscription's part.
Transcribe ==
    /\ closed
    /\ trState = "IN_PROGRESS"
    /\ \A id \in Ids : Exists(id) => sent[id] > 0
    /\ trState' = "COMPLETE"
    /\ UNCHANGED <<pauses, uploaded, redis, rows, refreshed, closed, sent, tasks, job, counters>>

-----------------------------------------------------------------------------
\* A worker dies: its lock stays, its message is delivered again.
Crash(w) ==
    /\ job[w].pc # "idle"
    /\ crashes < MaxCrashes
    /\ crashes' = crashes + 1
    /\ Leave(w)
    /\ IF job[w] \in Closings \/ job[w].final THEN stopsDue' = stopsDue + 1 /\ UNCHANGED due
       ELSE Due(Source(w)) /\ UNCHANGED stopsDue
    /\ refreshed' = refreshed \ {w}
    /\ UNCHANGED <<pauses, uploaded, redis, rows, trState, closed, sent, replays, stops, history>>

\* LOCK_TTL_SECONDS after the lock was taken: its holder is dead, or slow, as a drain
\* may be that has more than twice that time.
Expire(s) ==
    /\ lock[s]
    /\ lock' = [lock EXCEPT ![s] = FALSE]
    /\ IF \E w \in Workers : AtWork(w, s)
         THEN overruns[s] < MaxOverruns /\ overruns' = [overruns EXCEPT ![s] = @ + 1]
         ELSE UNCHANGED overruns
    /\ UNCHANGED <<pauses, uploaded, queue, tail, group, database, sent, tasks, job, faults, raised, late, met>>

Work(w) ==
    \/ \E s \in Sources : StartDrain(w, s) \/ SkipDrain(w, s)
    \/ StartFinalize(w) \/ LockForFinal(w)
    \/ Take(w) \/ CutRow(w) \/ Mark(w) \/ SaveMark(w) \/ MarkConflict(w)
    \/ Gather(w) \/ Hold(w) \/ Clear(w) \/ Dispatch(w) \/ Keep(w)
    \/ Unlock(w) \/ LookAgain(w) \/ Close(w)

Next ==
    \/ \E s \in Sources : Upload(s) \/ UploadAgain(s) \/ Expire(s)
    \/ Stop
    \/ Transcribe
    \/ \E w \in Workers : Work(w) \/ Crash(w)

Spec == Init /\ [][Next]_vars

\* A queued task is delivered to some worker and runs to its end; a lock whose
\* holder is gone expires.
FairSpec ==
    /\ Spec
    /\ \A w \in Workers : WF_vars(Work(w))
    /\ \A s \in Sources : WF_vars(Expire(s))

-----------------------------------------------------------------------------
\* The properties are about a source whose drains have worked one at a time. That a
\* drain has outlived its lock takes nothing away from them until another drain has
\* begun beside it; then the two write one tail and one group, and the code promises
\* nothing any more.

\* No speech is transcribed twice: two rows of a source share no segment, with
\* replayed uploads, retried drains and drains that were skipped (pop_segments:
\* "would let the second copy through and splice the same audio in twice"). A
\* drain that dies, or leaves by an exception once it has written a row, forgets
\* the sequence it had reached.
NoSpeechTwice ==
    crashes = 0 /\ ~raised => \A s \in Sources \ met, m, n \in Segments :
       m # n => rows[<<s, m>>] \cap rows[<<s, n>>] = {}

\* No row is sent in two requests (_settle_group: "would let the next drain send
\* the same utterances a second time").
SentOnce == \A id \in Ids : id[1] \notin met => sent[id] <= 1

InHand(s) == UNION {ToSet(job[w].audio) : w \in {v \in Workers : Draining(v, s)}}
Written(s) == UNION {rows[<<s, n>>] : n \in Segments}

\* A segment that was accepted is waiting, being cut, held for the next drain,
\* or in a row, unless the drain that had popped it died or left by an exception.
SpeechAccounted ==
    crashes = 0 /\ ~raised => \A s \in Sources \ met : \A n \in 1 .. uploaded[s] :
       n \in ToSet(queue[s]) \cup InHand(s) \cup ToSet(tail[s].held) \cup Written(s)

\* Speech is written down once.
SpeechOnce == SpeechAccounted /\ NoSpeechTwice

\* A row is gathered, in the hands of a drain that will gather it, or sent.
Kept(id) ==
    Exists(id) => \/ id \in group[id[1]]
                  \/ \E w \in Workers : job[w] \in Drains /\ id \in job[w].members \cup job[w].new
                  \/ sent[id] > 0

\* "a dropped Redis key or a dead worker costs the grouping, never the speech"
\* (process_local_utterance_group), where no worker even dies.
NoRowForgotten == crashes = 0 => \A id \in Ids : Kept(id)

\* Rows are sent once: as long as no drain dies or leaves by an exception, which
\* loses the rows it had not gathered, none is forgotten, and whatever happens none
\* is sent twice.
RowsSentOnce ==
    /\ crashes = 0 /\ ~raised => \A id \in Ids : id[1] \notin met => Kept(id)
    /\ SentOnce

\* Whatever is queued is drained, without another upload or the end of the
\* session: "the holder will pick up whatever it queued" (the check of the queue
\* after the lock is deleted). A drain that dies leaves its lock, and its message,
\* delivered again meanwhile, skips what is queued: that waits for the next upload
\* or the end of the session. After the stop it may find nobody any more.
QueueDrains ==
    \A s \in Sources :
       (queue[s] # <<>>) ~> (queue[s] = <<>> \/ crashes > 0 \/ ToSet(queue[s]) \subseteq late[s])

\* Somebody is going to look at the queue of a source: a drain is due, or at work
\* and yet to look for the last time, which finalize's does when it begins.
Watched(s) ==
    \/ due[s] > 0
    \/ \E w \in Workers : Draining(w, s) /\ (job[w].final => job[w].pc = "taking")

\* No upload is left lying: the drain that finds the lock taken exits, relying on
\* the holder to come to what it was sent for ("the holder will pick up whatever it
\* queued", drain_local_session_audio), and the holder lets go of the lock before it
\* looks. What may be left is what came after the stop was asked for, and what one
\* pop of finalize left behind.
NoUploadLeft ==
    crashes = 0 => \A s \in Sources : Watched(s) \/ ToSet(queue[s]) \subseteq late[s]

\* "Exactly one drain may own the tail" (drain_local_session_audio): another can
\* begin beside it only once a lock has expired under a drain at work, and no more of
\* them than locks have; the lock that a slow drain deletes when it ends is not its
\* own, but lets nobody in for whom no lock expired.
OneDrainOwnsTheTail ==
    \A s \in Sources :
       /\ Cardinality({w \in Workers : AtWork(w, s)}) <= 1 + overruns[s]
       /\ s \in met => overruns[s] > 0

\* No row is created once the recording is complete: "completing the recording
\* can't race an as-yet-uncreated utterance" (finalize_local_session); none but of
\* what was uploaded after the stop was asked for, or left by finalize's pop.
NoRowAfterClose ==
    [][closed => \A id \in Ids : rows'[id] # rows[id] =>
          id[1] \in met \/ rows'[id] \subseteq late[id[1]]]_vars
=============================================================================
