-------------------------- MODULE LocalSessionProofs --------------------------
(***************************************************************************)
(* The audio of a local session, for any number of sources, workers and    *)
(* segments, and of locks that expire under a drain at work: a second      *)
(* drain begins beside one at work only after such an expiry, and no more  *)
(* of them than there were. At a source where no two have been at work at  *)
(* once, a row is sent for transcription once; while nothing fails, speech *)
(* is written into one row; and after the close nothing is written but     *)
(* what came late. And, whatever becomes of the locks, while no worker     *)
(* dies an upload has a drain that is yet to look for it.                  *)
(***************************************************************************)
EXTENDS LocalSession, FiniteSetTheorems, WellFoundedInduction, TLAPS

-----------------------------------------------------------------------------
(* The audio of a local session.                                            *)

DrainPcs == {"taking", "cutting", "marking", "saving", "gathering", "dispatching", "keeping", "unlocking", "looking"}
Jobs == Drains \cup Closings \cup {Idle}

AudioTyped ==
    /\ pauses \in [Sources -> SUBSET Segments]
    /\ uploaded \in [Sources -> 0 .. MaxSequence]
    /\ queue \in [Sources -> Seq(Segments)]
    /\ tail \in [Sources -> Tails]
    /\ lock \in [Sources -> BOOLEAN]
    /\ group \in [Sources -> SUBSET Ids]
    /\ rows \in [Ids -> SUBSET Segments]
    /\ sent \in [Ids -> Nat]
    /\ crashes \in Nat /\ raised \in BOOLEAN /\ stops \in Nat /\ closed \in BOOLEAN
    /\ late \in [Sources -> SUBSET Segments] /\ overruns \in [Sources -> Nat] /\ met \in SUBSET Sources
    /\ job \in [Workers -> Jobs]

StateTyped == trState \in {"NOT_STARTED", "IN_PROGRESS", "COMPLETE"}

\* What a job is, its step tells.
LEMMA StepsTell ==
    ASSUME NEW j \in Jobs
    PROVE  /\ j.pc \in DrainPcs <=> j \in Drains
           /\ j.pc \in {"locking", "closing"} <=> j \in Closings
           /\ j.pc = "idle" <=> j = Idle
           /\ j \in Drains => /\ j.source \in Sources /\ j.final \in BOOLEAN /\ j.todo \in SUBSET Sources
                              /\ j.audio \in Seq(Segments) /\ j.last \in 0 .. MaxSequence
                              /\ j.members \in SUBSET Ids /\ j.new \in SUBSET Ids /\ j.pc \in DrainPcs
           /\ j \in Closings => j.todo \in SUBSET Sources
<1>1. j \in Drains => j.pc \in DrainPcs
  BY DEF Drains, DrainPcs
<1>2. j \in Closings => j.pc \in {"locking", "closing"}
  BY DEF Closings
<1>3. j = Idle => j.pc = "idle"
  BY DEF Idle
<1>4. j \in Drains \/ j \in Closings \/ j = Idle
  BY DEF Jobs
<1>5. j \in Drains => /\ j.source \in Sources /\ j.final \in BOOLEAN /\ j.todo \in SUBSET Sources
                      /\ j.audio \in Seq(Segments) /\ j.last \in 0 .. MaxSequence
                      /\ j.members \in SUBSET Ids /\ j.new \in SUBSET Ids
  BY DEF Drains
<1>6. j \in Closings => j.todo \in SUBSET Sources
  BY DEF Closings
<1> QED
  BY <1>1, <1>2, <1>3, <1>4, <1>5, <1>6 DEF DrainPcs

\* One worker's job becomes another.
Turns(w, j) ==
    /\ j \in Jobs
    /\ job' = [job EXCEPT ![w] = j]
    /\ job'[w] = j /\ \A v \in Workers \ {w} : job'[v] = job[v]

LEMMA Turning ==
    ASSUME AudioTyped, NEW w \in Workers, NEW j \in Jobs, job' = [job EXCEPT ![w] = j]
    PROVE  Turns(w, j) /\ job' \in [Workers -> Jobs]
BY DEF AudioTyped, Turns

LEMMA NewDrains ==
    ASSUME NEW s \in Sources, NEW f \in BOOLEAN, NEW t \in SUBSET Sources
    PROVE  Drain(s, f, t) \in Jobs /\ Drain(s, f, t) \in Drains
<1>1. <<>> \in Seq(Segments) /\ 0 \in 0 .. MaxSequence /\ {} \in SUBSET Ids
  BY BoundsAssumption DEF BoundsAssumption
<1>2. Drain(s, f, t) \in Drains
  BY <1>1 DEF Drain, Drains
<1> QED
  BY <1>2 DEF Jobs

LEMMA OtherJobs == ASSUME NEW t \in SUBSET Sources
                   PROVE  [pc |-> "locking", todo |-> t] \in Jobs /\ [pc |-> "closing", todo |-> t] \in Jobs /\ Idle \in Jobs
BY DEF Jobs, Closings

\* A set of numbers that is not empty has a least one.
LEMMA SmallestNumber ==
    ASSUME NEW S \in SUBSET Nat, S # {}
    PROVE  \E x \in S : \A y \in S : x <= y
<1> DEFINE Less == OpToRel(<, Nat)
<1>1. IsWellFoundedOn(Less, Nat)
  BY NatLessThanWellFounded
<1>2. \A x, y \in Nat : x < y => <<x, y>> \in Less
  BY DEF OpToRel
<1> HIDE DEF Less
<1>3. PICK x \in S : \A y \in S : ~(<<y, x>> \in Less)
  BY <1>1, WFMin
<1>4. \A y \in S : ~(y < x)
  BY <1>2, <1>3
<1> QED
  BY <1>4

\* What there is of a set of segments, sorted.
LEMMA SortedOnce ==
    ASSUME NEW S \in SUBSET Segments
    PROVE  /\ Sorted(S) \in Seq(S) /\ Sorted(S) \in Seq(Segments)
           /\ Range(Sorted(S)) = S
           /\ \A i, j \in DOMAIN Sorted(S) : i < j => Sorted(S)[i] < Sorted(S)[j]
<1> DEFINE Upto(k) == S \cap (1 .. k)
<1> DEFINE Lists(k, q) == /\ q \in [1 .. Cardinality(Upto(k)) -> Upto(k)]
                          /\ Range(q) = Upto(k) /\ \A i, j \in DOMAIN q : i < j => q[i] < q[j]
<1>1. MaxSequence \in Nat
  BY BoundsAssumption DEF BoundsAssumption
<1>2. \A k \in 0 .. MaxSequence : IsFiniteSet(Upto(k)) /\ Cardinality(Upto(k)) \in Nat
  <2> SUFFICES ASSUME NEW k \in 0 .. MaxSequence PROVE IsFiniteSet(Upto(k)) /\ Cardinality(Upto(k)) \in Nat
    OBVIOUS
  <2>1. IsFiniteSet(1 .. k)
    BY FS_Interval
  <2>2. IsFiniteSet(Upto(k))
    BY <2>1, FS_Subset
  <2> QED
    BY <2>2, FS_CardinalityType
<1>3. Lists(0, <<>>)
  <2>1. Upto(0) = {}
    OBVIOUS
  <2>2. Cardinality(Upto(0)) = 0
    BY <2>1, FS_EmptySet
  <2>3. Range(<<>>) = {}
    BY DEF Range
  <2> QED
    BY <2>1, <2>2, <2>3
<1>4. ASSUME NEW k \in 1 .. MaxSequence, NEW q, Lists(k - 1, q) PROVE \E r : Lists(k, r)
  <2> DEFINE n == Cardinality(Upto(k - 1))
  <2>1. n \in Nat /\ k - 1 \in 0 .. MaxSequence
    BY <1>1, <1>2
  <2>2. CASE k \notin S
    <3>1. Upto(k) = Upto(k - 1)
      BY <2>2
    <3> QED
      BY <3>1, <1>4
  <2>3. CASE k \in S
    <3>1. Upto(k) = Upto(k - 1) \cup {k} /\ k \notin Upto(k - 1)
      BY <2>3
    <3>2. Cardinality(Upto(k)) = n + 1
      BY <1>2, <2>1, <3>1, FS_AddElement
    <3>3. /\ q \in [1 .. n -> Upto(k - 1)] /\ Range(q) = Upto(k - 1)
          /\ \A i, j \in 1 .. n : i < j => q[i] < q[j]
      BY <1>4
    <3>4. \A x \in Upto(k - 1) : x < k
      OBVIOUS
    <3> DEFINE r == [i \in 1 .. n + 1 |-> IF i = n + 1 THEN k ELSE q[i]]
    <3>5. \A x \in Upto(k - 1) : \E i \in 1 .. n : q[i] = x
      BY <3>3 DEF Range
    <3> HIDE DEF n, Upto
    <3>6. r \in [1 .. n + 1 -> Upto(k)]
      BY <2>1, <3>1, <3>3
    <3>7. \A i, j \in 1 .. n + 1 : i < j => r[i] < r[j]
      BY <2>1, <3>1, <3>3, <3>4
    <3>8. \A x \in Upto(k) : \E i \in 1 .. n + 1 : r[i] = x
      <4> SUFFICES ASSUME NEW x \in Upto(k) PROVE \E i \in 1 .. n + 1 : r[i] = x
        OBVIOUS
      <4>1. CASE x = k
        <5>1. r[n + 1] = k /\ n + 1 \in 1 .. n + 1
          BY <2>1
        <5> QED
          BY <4>1, <5>1
      <4>2. CASE x \in Upto(k - 1)
        <5>1. PICK i \in 1 .. n : q[i] = x
          BY <4>2, <3>5
        <5>2. i \in 1 .. n + 1 /\ i # n + 1 /\ r[i] = x
          BY <5>1, <2>1
        <5> QED
          BY <5>2
      <4> QED
        BY <4>1, <4>2, <3>1
    <3>9. DOMAIN r = 1 .. n + 1
      OBVIOUS
    <3> HIDE DEF r
    <3>10. Range(r) = Upto(k)
      BY <3>6, <3>8, <3>9 DEF Range
    <3> QED
      BY <3>2, <3>6, <3>7, <3>9, <3>10
  <2> QED
    BY <2>2, <2>3
<1> HIDE DEF Lists
<1>5. \A k \in 0 .. MaxSequence : \E q : Lists(k, q)
  <2> DEFINE Without == {k \in 0 .. MaxSequence : ~\E q : Lists(k, q)}
  <2> SUFFICES ASSUME Without # {} PROVE FALSE
    OBVIOUS
  <2>1. Without \in SUBSET Nat
    OBVIOUS
  <2>2. PICK k \in Without : \A y \in Without : k <= y
    BY <2>1, SmallestNumber
  <2>3. k # 0
    BY <1>3
  <2>4. k \in 1 .. MaxSequence /\ k - 1 \in 0 .. MaxSequence
    BY <2>3, <1>1
  <2>5. k - 1 \notin Without
    BY <2>1, <2>2, <2>4
  <2> QED
    BY <1>4, <2>4, <2>5
<1>6. PICK q : Lists(MaxSequence, q)
  BY <1>1, <1>5
<1>7. Upto(MaxSequence) = S
  BY DEF Segments
<1>8. q \in [1 .. Cardinality(S) -> S] /\ Range(q) = S /\ \A i, j \in DOMAIN q : i < j => q[i] < q[j]
  BY <1>6, <1>7 DEF Lists
<1>9. /\ Sorted(S) \in [1 .. Cardinality(S) -> S] /\ Range(Sorted(S)) = S
      /\ \A i, j \in DOMAIN Sorted(S) : i < j => Sorted(S)[i] < Sorted(S)[j]
  BY <1>8, Zenon DEF Sorted
<1>10. Cardinality(S) \in Nat
  BY <1>1, <1>2, <1>7
<1> QED
  BY <1>9, <1>10

-----------------------------------------------------------------------------
(* The kinds of steps there are, to the audio.                              *)

\* Uploads, and what does not touch the audio at all.
Elsewhere ==
    /\ UNCHANGED <<pauses, tail, lock, group, rows, sent, crashes, raised, closed, job, met, overruns>>
    /\ stops' \in Nat /\ stops' >= stops
    /\ \/ UNCHANGED <<uploaded, queue, late>>
       \/ \E s \in Sources :
            /\ uploaded[s] < MaxSequence /\ uploaded' = [uploaded EXCEPT ![s] = uploaded[s] + 1]
            /\ queue' = [queue EXCEPT ![s] = Append(queue[s], uploaded[s] + 1)]
            /\ late' = IF stops > 0 THEN [late EXCEPT ![s] = late[s] \cup {uploaded[s] + 1}] ELSE late
       \/ \E s \in Sources : \E n \in 1 .. uploaded[s] :
            /\ uploaded' = uploaded
            /\ queue' = [queue EXCEPT ![s] = Append(queue[s], n)]
            /\ late' = IF stops > 0 THEN [late EXCEPT ![s] = late[s] \cup {n}] ELSE late

Begins(w, s) ==
    /\ UNCHANGED <<pauses, uploaded, queue, tail, group, rows, sent, crashes, raised, stops, closed, overruns, late>>
    /\ met' = IF \E v \in Workers : AtWork(v, s) THEN met \cup {s} ELSE met
    /\ job[w] \notin Drains /\ ~lock[s] /\ lock' = [lock EXCEPT ![s] = TRUE]
    /\ \/ Turns(w, Drain(s, FALSE, {}))
       \/ job[w] \in Closings /\ s \in job[w].todo /\ Turns(w, Drain(s, TRUE, job[w].todo \ {s}))

\* A worker that has no audio in hand.
Waits(w) ==
    /\ UNCHANGED <<pauses, uploaded, queue, tail, lock, group, rows, sent, crashes, raised, stops, met, overruns, late>>
    /\ closed' = closed \/ (closed' /\ job[w].pc = "closing")
    /\ job[w] \in Drains => job[w].pc = "looking"
    /\ \/ Turns(w, Idle)
       \/ stopsDue > 0 /\ Turns(w, [pc |-> "locking", todo |-> Sources])
       \/ job[w].pc = "locking" /\ job[w].todo = {} /\ Turns(w, [pc |-> "closing", todo |-> {}])

Dies(w) ==
    /\ UNCHANGED <<pauses, uploaded, queue, tail, lock, group, rows, sent, raised, stops, closed, met, overruns, late>>
    /\ crashes' = crashes + 1
    /\ Turns(w, Idle)

Raises(w) ==
    /\ UNCHANGED <<pauses, uploaded, queue, tail, group, rows, sent, crashes, stops, closed, met, overruns, late>>
    /\ job[w] \in Drains /\ job[w].pc \in {"marking", "saving"}
    /\ raised' = TRUE
    /\ lock' = [lock EXCEPT ![job[w].source] = FALSE]
    /\ Turns(w, Idle)

Expires(s) ==
    /\ UNCHANGED <<pauses, uploaded, queue, tail, group, rows, sent, crashes, raised, stops, closed, job, met, late>>
    /\ overruns' = IF \E w \in Workers : AtWork(w, s) THEN [overruns EXCEPT ![s] = overruns[s] + 1] ELSE overruns
    /\ lock[s] /\ lock' = [lock EXCEPT ![s] = FALSE]

Marks(w) ==
    /\ UNCHANGED <<pauses, uploaded, queue, tail, lock, group, rows, sent, crashes, raised, stops, closed, met, overruns, late>>
    /\ job[w] \in Drains /\ job[w].pc \in {"marking", "saving"}
    /\ \/ Turns(w, [job[w] EXCEPT !.pc = "saving"])
       \/ Turns(w, [job[w] EXCEPT !.pc = "cutting", !.members = job[w].members \cup job[w].new, !.new = {}])

\* The drain of w, from its state from, goes on, or ends, as j.
DrainStep(w, from, j) ==
    /\ UNCHANGED <<pauses, uploaded, crashes, raised, stops, closed, met, overruns>>
    /\ job[w] \in Drains /\ job[w].pc = from
    /\ Turns(w, j)

TakesAudio(w) ==
    LET s == Source(w)
        n == IF Len(queue[s]) < MaxPerDrain THEN Len(queue[s]) ELSE MaxPerDrain
        new == Fresh(SubSeq(queue[s], 1, n), tail[s].last)
    IN  /\ queue' = [queue EXCEPT ![s] = SubSeq(queue[s], n + 1, Len(queue[s]))]
        /\ new \in Seq(Segments)
        /\ IF NothingToDo(w, new) THEN DrainStep(w, "taking", [job[w] EXCEPT !.pc = "unlocking"])
           ELSE DrainStep(w, "taking", [job[w] EXCEPT !.pc = "cutting", !.audio = tail[s].held \o new,
                                              !.last = IF new = <<>> THEN tail[s].last ELSE new[Len(new)]])
        /\ UNCHANGED <<tail, lock, group, rows, sent>>
        /\ late' = IF job[w].final THEN [late EXCEPT ![s] = late[s] \cup ToSet(queue'[s])] ELSE late

CutsRow(w) ==
    LET end == Min(Ends(w))
        id == <<Source(w), job[w].audio[1]>>
        rest == SubSeq(job[w].audio, end + 1, Len(job[w].audio))
    IN  /\ Ends(w) # {} /\ id \in Ids /\ end \in 1 .. Len(job[w].audio) /\ \A i \in Ends(w) : end <= i
        /\ IF Exists(id) THEN DrainStep(w, "cutting", [job[w] EXCEPT !.audio = rest]) /\ UNCHANGED rows
           ELSE /\ rows' = [rows EXCEPT ![id] = ToSet(SubSeq(job[w].audio, 1, end))]
                /\ DrainStep(w, "cutting", [job[w] EXCEPT !.pc = "marking", !.new = {id}, !.audio = rest])
        /\ UNCHANGED <<queue, tail, lock, group, sent, late>>

SettlesGroup(w) ==
    /\ UNCHANGED <<queue, tail, lock, rows, late>>
    /\ \/ /\ Ends(w) = {} /\ UNCHANGED <<group, sent>>
          /\ DrainStep(w, "cutting", [job[w] EXCEPT !.pc = "gathering", !.members = job[w].members \cup group[Source(w)]])
       \/ /\ group' = [group EXCEPT ![Source(w)] = job[w].members] /\ UNCHANGED sent
          /\ DrainStep(w, "gathering", [job[w] EXCEPT !.pc = "keeping"])
       \/ /\ group' = [group EXCEPT ![Source(w)] = {}] /\ UNCHANGED sent
          /\ DrainStep(w, "gathering", [job[w] EXCEPT !.pc = "dispatching"])
       \/ /\ sent' = [id \in Ids |-> IF id \in job[w].members THEN sent[id] + 1 ELSE sent[id]] /\ UNCHANGED group
          /\ DrainStep(w, "dispatching", [job[w] EXCEPT !.pc = "keeping", !.members = {}])

KeepsTail(w) ==
    /\ UNCHANGED <<queue, lock, rows, group, sent, late>>
    /\ tail' = [tail EXCEPT ![Source(w)] = [held |-> job[w].audio, last |-> job[w].last]]
    /\ DrainStep(w, "keeping", [job[w] EXCEPT !.pc = "unlocking"])

Unlocks(w) ==
    /\ UNCHANGED <<queue, tail, rows, group, sent, late>>
    /\ lock' = [lock EXCEPT ![Source(w)] = FALSE]
    /\ \/ job[w].final /\ DrainStep(w, "unlocking", [pc |-> "locking", todo |-> job[w].todo])
       \/ ~job[w].final /\ DrainStep(w, "unlocking", [job[w] EXCEPT !.pc = "looking", !.audio = <<>>, !.members = {}])

HandsOn(w) == Waits(w) \/ Dies(w) \/ Raises(w) \/ Marks(w) \/ TakesAudio(w) \/ CutsRow(w) \/ SettlesGroup(w) \/ KeepsTail(w) \/ Unlocks(w)

AudioStep ==
    \/ Elsewhere
    \/ \E s \in Sources : Expires(s)
    \/ \E w \in Workers : HandsOn(w) \/ \E s \in Sources : Begins(w, s)

-----------------------------------------------------------------------------
\* Every step is of one of the kinds.

LEMMA UploadsAreSteps ==
    ASSUME AudioTyped, NEW s \in Sources, Upload(s) \/ UploadAgain(s) \/ Expire(s)
    PROVE  AudioStep
<1>1. CASE Upload(s)
  <2>1. UNCHANGED <<pauses, tail, lock, group, rows, sent, crashes, raised, closed, job, stops, met, overruns>>
    BY <1>1 DEF Upload, faults, database
  <2>2. late' = IF stops > 0 THEN [late EXCEPT ![s] = late[s] \cup {uploaded[s] + 1}] ELSE late
    BY <1>1 DEF Upload, Queue
  <2>3. /\ uploaded[s] < MaxSequence /\ uploaded' = [uploaded EXCEPT ![s] = uploaded[s] + 1]
        /\ queue' = [queue EXCEPT ![s] = Append(queue[s], uploaded[s] + 1)]
    BY <1>1 DEF Upload, Queue
  <2>4. stops' \in Nat /\ stops' >= stops
    BY <2>1 DEF AudioTyped
  <2> QED
    BY <2>1, <2>2, <2>3, <2>4 DEF AudioStep, Elsewhere
<1>2. CASE UploadAgain(s)
  <2>1. UNCHANGED <<pauses, tail, lock, group, rows, sent, crashes, raised, closed, job, stops, uploaded, met, overruns>>
    BY <1>2 DEF UploadAgain, database
  <2>2. \E n \in 1 .. uploaded[s] :
           /\ queue' = [queue EXCEPT ![s] = Append(queue[s], n)]
           /\ late' = IF stops > 0 THEN [late EXCEPT ![s] = late[s] \cup {n}] ELSE late
    BY <1>2 DEF UploadAgain, Queue
  <2>4. stops' \in Nat /\ stops' >= stops
    BY <2>1 DEF AudioTyped
  <2> QED
    BY <2>1, <2>2, <2>4 DEF AudioStep, Elsewhere
<1>3. CASE Expire(s)
  <2>1. Expires(s)
    BY <1>3 DEF Expire, Expires, counters, faults, history, database
  <2> QED
    BY <2>1 DEF AudioStep
<1> QED
  BY <1>1, <1>2, <1>3

LEMMA OutsideIsElsewhere == ASSUME AudioTyped, Stop \/ Transcribe \/ UNCHANGED vars PROVE Elsewhere
<1>1. stops' \in Nat /\ stops' >= stops
  BY DEF Stop, Transcribe, vars, counters, faults, history, AudioTyped
<1>2. UNCHANGED <<pauses, tail, lock, group, rows, sent, crashes, raised, closed, job, uploaded, queue, met, overruns, late>>
  BY DEF Stop, Transcribe, vars, counters, faults, history, redis, database
<1> QED
  BY <1>1, <1>2 DEF Elsewhere

LEMMA BeginningsAreSteps ==
    ASSUME AudioTyped, NEW w \in Workers, NEW s \in Sources, StartDrain(w, s) \/ SkipDrain(w, s)
    PROVE  AudioStep
<1>1. CASE StartDrain(w, s)
  <2>1. job[w] \notin Drains
    BY <1>1, StepsTell DEF StartDrain, AudioTyped, DrainPcs
  <2>2. Turns(w, Drain(s, FALSE, {}))
    BY <1>1, NewDrains, Turning DEF StartDrain
  <2>3. Begins(w, s)
    BY <1>1, <2>1, <2>2 DEF StartDrain, Begins, Meets, faults, database
  <2> QED
    BY <2>3 DEF AudioStep
<1>2. CASE SkipDrain(w, s)
  BY <1>2 DEF SkipDrain, AudioStep, Elsewhere, counters, faults, history, database, redis, AudioTyped
<1> QED
  BY <1>1, <1>2

LEMMA FinalizingIsSteps ==
    ASSUME AudioTyped, NEW w \in Workers, StartFinalize(w) \/ LockForFinal(w) \/ LookAgain(w) \/ Close(w)
    PROVE  Waits(w) \/ \E s \in Sources : Begins(w, s)
<1>1. CASE StartFinalize(w)
  <2>1. job[w] \notin Drains
    BY <1>1, StepsTell DEF StartFinalize, AudioTyped, DrainPcs
  <2>2. Turns(w, [pc |-> "locking", todo |-> Sources])
    BY <1>1, OtherJobs, Turning DEF StartFinalize
  <2> QED
    BY <1>1, <2>1, <2>2 DEF StartFinalize, Waits, counters, faults, history, database, redis
<1>2. CASE LockForFinal(w)
  <2>1. job[w] \in Closings /\ job[w] \notin Drains /\ job[w].todo \in SUBSET Sources
    BY <1>2, StepsTell DEF LockForFinal, AudioTyped, DrainPcs
  <2>2. UNCHANGED <<pauses, uploaded, queue, tail, group, rows, sent, crashes, raised, stops, closed, overruns, late>>
    BY <1>2 DEF LockForFinal, faults, database
  <2>3. CASE job[w].todo = {}
    <3>1. [job[w] EXCEPT !.pc = "closing"] = [pc |-> "closing", todo |-> {}]
      BY <2>1, <2>3 DEF Closings
    <3>2. job' = [job EXCEPT ![w] = [pc |-> "closing", todo |-> {}]] /\ UNCHANGED <<lock, met>>
      BY <1>2, <2>3, <3>1 DEF LockForFinal, Goto
    <3>3. Turns(w, [pc |-> "closing", todo |-> {}])
      BY <3>2, OtherJobs, Turning
    <3> QED
      BY <1>2, <2>1, <2>2, <2>3, <3>2, <3>3 DEF Waits, LockForFinal
  <2>4. CASE job[w].todo # {}
    <3>1. PICK s \in job[w].todo :
            IF lock[s] THEN Leave(w) /\ UNCHANGED <<lock, met>>
            ELSE /\ lock' = [lock EXCEPT ![s] = TRUE]
                 /\ job' = [job EXCEPT ![w] = Drain(s, TRUE, job[w].todo \ {s})]
                 /\ Meets(s)
      BY <1>2, <2>4 DEF LockForFinal
    <3>2. CASE lock[s]
      <4>1. Turns(w, Idle)
        BY <3>1, <3>2, OtherJobs, Turning DEF Leave
      <4> QED
        BY <2>1, <2>2, <3>1, <3>2, <4>1 DEF Waits
    <3>3. CASE ~lock[s]
      <4>1. s \in Sources /\ job[w].todo \ {s} \in SUBSET Sources
        BY <2>1
      <4>2. Turns(w, Drain(s, TRUE, job[w].todo \ {s}))
        BY <3>1, <3>3, <4>1, NewDrains, Turning
      <4> QED
        BY <2>1, <2>2, <3>1, <3>3, <4>1, <4>2 DEF Begins, Meets
    <3> QED
      BY <3>2, <3>3
  <2> QED
    BY <2>3, <2>4
<1>3. CASE LookAgain(w)
  <2>1. Turns(w, Idle)
    BY <1>3, OtherJobs, Turning DEF LookAgain, Leave
  <2> QED
    BY <1>3, <2>1 DEF LookAgain, Waits, counters, faults, history, database, redis
<1>4. CASE Close(w)
  <2>1. Turns(w, Idle)
    BY <1>4, OtherJobs, Turning DEF Close, Leave
  <2>2. job[w] \notin Drains
    BY <1>4, StepsTell DEF Close, AudioTyped, DrainPcs
  <2>3. UNCHANGED <<pauses, uploaded, queue, tail, lock, group, rows, sent, crashes, raised, stops, met, overruns, late>>
    BY <1>4 DEF Close, counters, faults, history, redis
  <2>4. closed' /\ job[w].pc = "closing"
    BY <1>4 DEF Close
  <2> QED
    BY <2>1, <2>2, <2>3, <2>4 DEF Waits
<1> QED
  BY <1>1, <1>2, <1>3, <1>4

LEMMA DeathsAreSteps == ASSUME AudioTyped, NEW w \in Workers, Crash(w) PROVE Dies(w)
<1>1. Turns(w, Idle)
  BY OtherJobs, Turning DEF Crash, Leave
<1> QED
  BY <1>1 DEF Crash, Dies, redis, history

LEMMA RaisingIsAStep ==
    ASSUME AudioTyped, NEW w \in Workers, job[w] \in Drains, job[w].pc \in {"marking", "saving"}, Raise(w),
           UNCHANGED <<pauses, uploaded, queue, tail, group, rows, closed, sent, stops, crashes, met, overruns, late>>
    PROVE  Raises(w)
<1>1. Turns(w, Idle)
  BY OtherJobs, Turning DEF Raise, Leave
<1> QED
  BY <1>1 DEF Raise, Raises, Source

\* A drain with some of its fields set anew.
LEMMA DrainsOn ==
    ASSUME NEW j \in Drains
    PROVE  /\ \A pc \in DrainPcs : [j EXCEPT !.pc = pc] \in Jobs
           /\ \A pc \in DrainPcs, m \in SUBSET Ids : [j EXCEPT !.pc = pc, !.members = m] \in Jobs
           /\ \A pc \in DrainPcs, m, n \in SUBSET Ids : [j EXCEPT !.pc = pc, !.members = m, !.new = n] \in Jobs
           /\ \A pc \in DrainPcs, n \in SUBSET Ids, a \in Seq(Segments) : [j EXCEPT !.pc = pc, !.new = n, !.audio = a] \in Jobs
           /\ \A pc \in DrainPcs, m \in SUBSET Ids, a \in Seq(Segments) : [j EXCEPT !.pc = pc, !.audio = a, !.members = m] \in Jobs
           /\ \A pc \in DrainPcs, a \in Seq(Segments), l \in 0 .. MaxSequence : [j EXCEPT !.pc = pc, !.audio = a, !.last = l] \in Jobs
           /\ \A a \in Seq(Segments) : [j EXCEPT !.audio = a] \in Jobs
<1>1. j \in [pc : DrainPcs, source : Sources, final : BOOLEAN, todo : SUBSET Sources,
             audio : Seq(Segments), last : 0 .. MaxSequence, members : SUBSET Ids, new : SUBSET Ids]
  BY DEF Drains, DrainPcs
<1>2. \A x : x \in [pc : DrainPcs, source : Sources, final : BOOLEAN, todo : SUBSET Sources,
             audio : Seq(Segments), last : 0 .. MaxSequence, members : SUBSET Ids, new : SUBSET Ids] => x \in Jobs
  BY DEF Drains, DrainPcs, Jobs
<1> QED
  BY <1>1, <1>2

\* Where the VAD closes first.
LEMMA FirstEnd ==
    ASSUME AudioTyped, NEW w \in Workers, job[w] \in Drains, Ends(w) # {}
    PROVE  /\ Min(Ends(w)) \in 1 .. Len(job[w].audio) /\ Min(Ends(w)) \in Ends(w)
           /\ \A i \in Ends(w) : Min(Ends(w)) <= i
<1>1. job[w].audio \in Seq(Segments)
  BY StepsTell DEF AudioTyped
<1>2. Ends(w) \in SUBSET (1 .. Len(job[w].audio)) /\ Len(job[w].audio) \in Nat
  BY <1>1 DEF Ends
<1>3. Ends(w) \in SUBSET Nat
  BY <1>2
<1>4. \E x \in Ends(w) : \A y \in Ends(w) : x <= y
  BY <1>3, SmallestNumber
<1> QED
  BY <1>2, <1>4 DEF Min

LEMMA CuttingIsAStep ==
    ASSUME AudioTyped, NEW w \in Workers, CutRow(w)
    PROVE  CutsRow(w)
<1> DEFINE audio == job[w].audio
<1> DEFINE end == Min(Ends(w))
<1> DEFINE id == <<Source(w), audio[1]>>
<1> DEFINE rest == SubSeq(audio, end + 1, Len(audio))
<1>1. job[w] \in Drains /\ Source(w) \in Sources /\ audio \in Seq(Segments) /\ Source(w) = job[w].source
  BY StepsTell DEF AudioTyped, CutRow, DrainPcs, Source
<1>2. Ends(w) # {} /\ end \in 1 .. Len(audio) /\ \A i \in Ends(w) : end <= i
  BY <1>1, FirstEnd DEF CutRow
<1>3. id \in Ids
  BY <1>1, <1>2 DEF Ids
<1>4. rest \in Seq(Segments)
  BY <1>1, <1>2
<1>5. UNCHANGED <<pauses, uploaded, queue, tail, lock, group, sent, crashes, raised, stops, closed, met, overruns, late>> /\ job[w].pc = "cutting"
  BY DEF CutRow, counters, faults, history, redis
<1>6. CASE Exists(id)
  <2>1. job' = [job EXCEPT ![w] = [job[w] EXCEPT !.audio = rest]] /\ UNCHANGED rows
    BY <1>6 DEF CutRow
  <2>2. Turns(w, [job[w] EXCEPT !.audio = rest])
    BY <2>1, <1>1, <1>4, DrainsOn, Turning
  <2> QED
    BY <2>1, <2>2, <1>1, <1>2, <1>3, <1>5, <1>6 DEF CutsRow, DrainStep
<1>7. CASE ~Exists(id)
  <2>1. /\ rows' = [rows EXCEPT ![id] = ToSet(SubSeq(audio, 1, end))]
        /\ job' = [job EXCEPT ![w] = [job[w] EXCEPT !.pc = "marking", !.new = {id}, !.audio = rest]]
    BY <1>7 DEF CutRow
  <2>2. "marking" \in DrainPcs /\ {id} \in SUBSET Ids
    BY <1>3 DEF DrainPcs
  <2>3. Turns(w, [job[w] EXCEPT !.pc = "marking", !.new = {id}, !.audio = rest])
    BY <2>1, <2>2, <1>1, <1>4, DrainsOn, Turning
  <2> QED
    BY <2>1, <2>3, <1>1, <1>2, <1>3, <1>5, <1>7 DEF CutsRow, DrainStep
<1> QED
  BY <1>6, <1>7

LEMMA MarkingIsAStep ==
    ASSUME AudioTyped, StateTyped, NEW w \in Workers, Mark(w) \/ SaveMark(w) \/ MarkConflict(w)
    PROVE  Marks(w) \/ Raises(w)
<1>1. job[w] \in Drains /\ job[w].members \in SUBSET Ids /\ job[w].new \in SUBSET Ids /\ job[w].pc \in {"marking", "saving"}
  BY StepsTell DEF AudioTyped, Mark, SaveMark, MarkConflict, DrainPcs
<1>2. UNCHANGED <<pauses, uploaded, queue, tail, group, rows, closed, sent, stops, crashes, met, overruns, late>>
  BY DEF Mark, SaveMark, MarkConflict, counters, faults, history, redis, database
<1>3. ASSUME Gathered(w), UNCHANGED <<lock, raised>> PROVE Marks(w)
  <2>1. job[w].members \cup job[w].new \in SUBSET Ids /\ {} \in SUBSET Ids /\ "cutting" \in DrainPcs
    BY <1>1 DEF DrainPcs
  <2>2. Turns(w, [job[w] EXCEPT !.pc = "cutting", !.members = job[w].members \cup job[w].new, !.new = {}])
    <3>1. job' = [job EXCEPT ![w] = [job[w] EXCEPT !.pc = "cutting", !.members = job[w].members \cup job[w].new, !.new = {}]]
      BY <1>3 DEF Gathered
    <3> QED
      BY <3>1, <2>1, <1>1, DrainsOn, Turning
  <2> QED
    BY <2>2, <1>1, <1>2, <1>3 DEF Marks
<1>4. CASE Mark(w)
  <2>1. CASE trState = "IN_PROGRESS"
    BY <1>3, <1>4, <2>1 DEF Mark
  <2>2. CASE trState = "NOT_STARTED"
    <3>1. job' = [job EXCEPT ![w] = [job[w] EXCEPT !.pc = "saving"]] /\ UNCHANGED <<lock, raised>>
      BY <1>4, <2>2 DEF Mark, Goto
    <3>2. Turns(w, [job[w] EXCEPT !.pc = "saving"])
      BY <3>1, <1>1, DrainsOn, Turning DEF DrainPcs
    <3> QED
      BY <3>1, <3>2, <1>1, <1>2 DEF Marks
  <2>3. CASE trState = "COMPLETE"
    BY <1>1, <1>2, <1>4, <2>3, RaisingIsAStep DEF Mark
  <2> QED
    BY <1>4, <2>1, <2>2, <2>3 DEF Mark, StateTyped
<1>5. CASE SaveMark(w)
  BY <1>3, <1>5 DEF SaveMark, counters, faults, history, redis
<1>6. CASE MarkConflict(w)
  BY <1>1, <1>2, <1>6, RaisingIsAStep DEF MarkConflict
<1> QED
  BY <1>4, <1>5, <1>6

LEMMA SettlingIsAStep ==
    ASSUME AudioTyped, NEW w \in Workers, Gather(w) \/ Hold(w) \/ Clear(w) \/ Dispatch(w)
    PROVE  SettlesGroup(w)
<1>1. job[w] \in Drains /\ job[w].members \in SUBSET Ids /\ Source(w) \in Sources
  BY StepsTell DEF AudioTyped, Gather, Hold, Clear, Dispatch, DrainPcs, Source
<1>2. UNCHANGED <<pauses, uploaded, queue, tail, lock, rows, closed, stops, crashes, raised, met, overruns, late>>
  BY DEF Gather, Hold, Clear, Dispatch, counters, faults, history, redis, database
<1>3. CASE Gather(w)
  <2>1. job[w].members \cup group[Source(w)] \in SUBSET Ids /\ "gathering" \in DrainPcs
    BY <1>1 DEF AudioTyped, DrainPcs
  <2>2. job' = [job EXCEPT ![w] = [job[w] EXCEPT !.pc = "gathering", !.members = job[w].members \cup group[Source(w)]]]
    BY <1>3 DEF Gather
  <2>3. Turns(w, [job[w] EXCEPT !.pc = "gathering", !.members = job[w].members \cup group[Source(w)]])
    BY <2>1, <2>2, <1>1, DrainsOn, Turning
  <2> QED
    BY <2>3, <1>1, <1>2, <1>3 DEF Gather, SettlesGroup, DrainStep, redis
<1>4. CASE Hold(w)
  <2>1. Turns(w, [job[w] EXCEPT !.pc = "keeping"])
    BY <1>1, <1>4, DrainsOn, Turning DEF Hold, Goto, DrainPcs
  <2> QED
    BY <2>1, <1>1, <1>2, <1>4 DEF Hold, SettlesGroup, DrainStep
<1>5. CASE Clear(w)
  <2>1. Turns(w, [job[w] EXCEPT !.pc = "dispatching"])
    BY <1>1, <1>5, DrainsOn, Turning DEF Clear, Goto, DrainPcs
  <2> QED
    BY <2>1, <1>1, <1>2, <1>5 DEF Clear, SettlesGroup, DrainStep
<1>6. CASE Dispatch(w)
  <2>1. job' = [job EXCEPT ![w] = [job[w] EXCEPT !.pc = "keeping", !.members = {}]]
    BY <1>6 DEF Dispatch
  <2>2. "keeping" \in DrainPcs /\ {} \in SUBSET Ids
    BY DEF DrainPcs
  <2>3. Turns(w, [job[w] EXCEPT !.pc = "keeping", !.members = {}])
    BY <2>1, <2>2, <1>1, DrainsOn, Turning
  <2> QED
    BY <2>3, <1>1, <1>2, <1>6 DEF Dispatch, SettlesGroup, DrainStep, redis
<1> QED
  BY <1>3, <1>4, <1>5, <1>6

LEMMA KeepingIsAStep ==
    ASSUME AudioTyped, NEW w \in Workers, Keep(w) \/ Unlock(w)
    PROVE  KeepsTail(w) \/ Unlocks(w)
<1>1. job[w] \in Drains /\ job[w].final \in BOOLEAN /\ job[w].todo \in SUBSET Sources
  BY StepsTell DEF AudioTyped, Keep, Unlock, DrainPcs
<1>2. UNCHANGED <<pauses, uploaded, queue, group, rows, sent, closed, stops, crashes, raised, met, overruns, late>>
  BY DEF Keep, Unlock, counters, faults, history, database
<1>3. CASE Keep(w)
  <2>1. Turns(w, [job[w] EXCEPT !.pc = "unlocking"])
    BY <1>1, <1>3, DrainsOn, Turning DEF Keep, Goto, DrainPcs
  <2> QED
    BY <2>1, <1>1, <1>2, <1>3 DEF Keep, KeepsTail, DrainStep
<1>4. CASE Unlock(w) /\ job[w].final
  <2>1. job' = [job EXCEPT ![w] = [pc |-> "locking", todo |-> job[w].todo]]
    BY <1>4 DEF Unlock
  <2>2. Turns(w, [pc |-> "locking", todo |-> job[w].todo])
    BY <2>1, <1>1, OtherJobs, Turning
  <2> QED
    BY <2>2, <1>1, <1>2, <1>4 DEF Unlock, Unlocks, DrainStep
<1>5. CASE Unlock(w) /\ ~job[w].final
  <2>1. job' = [job EXCEPT ![w] = [job[w] EXCEPT !.pc = "looking", !.audio = <<>>, !.members = {}]]
    BY <1>5 DEF Unlock
  <2>2. "looking" \in DrainPcs /\ <<>> \in Seq(Segments) /\ {} \in SUBSET Ids
    BY DEF DrainPcs
  <2>3. Turns(w, [job[w] EXCEPT !.pc = "looking", !.audio = <<>>, !.members = {}])
    BY <2>1, <2>2, <1>1, DrainsOn, Turning
  <2> QED
    BY <2>3, <1>1, <1>2, <1>5 DEF Unlock, Unlocks, DrainStep
<1> QED
  BY <1>1, <1>3, <1>4, <1>5

\* What is popped, as far as it is not a replay.
LEMMA FreshOnce ==
    ASSUME NEW q \in Seq(Segments), NEW l \in 0 .. MaxSequence
    PROVE  /\ Fresh(q, l) \in Seq(Segments)
           /\ \A n \in Segments : (\E i \in 1 .. Len(Fresh(q, l)) : Fresh(q, l)[i] = n)
                                    <=> (n > l /\ \E i \in 1 .. Len(q) : q[i] = n)
           /\ \A i, j \in 1 .. Len(Fresh(q, l)) : i < j => Fresh(q, l)[i] < Fresh(q, l)[j]
<1> DEFINE S == {n \in Range(q) : n > l}
<1>1. S \in SUBSET Segments
  BY DEF Range
<1>2. \A n \in Segments : n \in S <=> (n > l /\ \E i \in 1 .. Len(q) : q[i] = n)
  BY DEF Range
<1>3. Fresh(q, l) = Sorted(S)
  BY DEF Fresh
<1> HIDE DEF S
<1>4. /\ Sorted(S) \in Seq(Segments)
      /\ Range(Sorted(S)) = S
      /\ \A i, j \in DOMAIN Sorted(S) : i < j => Sorted(S)[i] < Sorted(S)[j]
  BY <1>1, SortedOnce
<1>5. \A n : n \in S <=> \E i \in 1 .. Len(Sorted(S)) : Sorted(S)[i] = n
  BY <1>4 DEF Range
<1> QED
  BY <1>2, <1>3, <1>4, <1>5

LEMMA TakingIsAStep == ASSUME AudioTyped, NEW w \in Workers, Take(w) PROVE TakesAudio(w)
<1> DEFINE s == Source(w)
<1> DEFINE n == IF Len(queue[s]) < MaxPerDrain THEN Len(queue[s]) ELSE MaxPerDrain
<1> DEFINE new == Fresh(SubSeq(queue[s], 1, n), tail[s].last)
<1> DEFINE audio == tail[s].held \o new
<1> DEFINE last == IF new = <<>> THEN tail[s].last ELSE new[Len(new)]
<1>1. job[w] \in Drains /\ s \in Sources /\ job[w].pc = "taking"
  BY StepsTell DEF AudioTyped, Take, DrainPcs, Source
<1>2. /\ queue[s] \in Seq(Segments) /\ tail[s].last \in 0 .. MaxSequence /\ tail[s].held \in Seq(Segments)
      /\ n \in Nat /\ n <= Len(queue[s])
  BY <1>1, BoundsAssumption DEF AudioTyped, Tails, BoundsAssumption
<1>3. SubSeq(queue[s], 1, n) \in Seq(Segments)
  BY <1>2
<1>4. new \in Seq(Segments)
  BY <1>2, <1>3, FreshOnce
<1>5. UNCHANGED <<pauses, uploaded, tail, lock, group, rows, sent, closed, stops, crashes, raised, met, overruns>>
  BY DEF Take, faults, database
<1>6. queue' = [queue EXCEPT ![s] = SubSeq(queue[s], n + 1, Len(queue[s]))]
  BY DEF Take
<1>9. late' = IF job[w].final THEN [late EXCEPT ![s] = late[s] \cup ToSet(queue'[s])] ELSE late
  BY DEF Take
<1>7. CASE NothingToDo(w, new)
  <2>1. job' = [job EXCEPT ![w] = [job[w] EXCEPT !.pc = "unlocking"]]
    BY <1>7 DEF Take
  <2>2. Turns(w, [job[w] EXCEPT !.pc = "unlocking"])
    BY <2>1, <1>1, DrainsOn, Turning DEF DrainPcs
  <2> QED
    BY <2>2, <1>1, <1>4, <1>5, <1>6, <1>7, <1>9 DEF TakesAudio, DrainStep
<1>8. CASE ~NothingToDo(w, new)
  <2>1. job' = [job EXCEPT ![w] = [job[w] EXCEPT !.pc = "cutting", !.audio = audio, !.last = last]]
    BY <1>8 DEF Take
  <2>2. audio \in Seq(Segments) /\ last \in 0 .. MaxSequence /\ "cutting" \in DrainPcs
    <3>1. audio \in Seq(Segments)
      BY <1>2, <1>4
    <3>2. new # <<>> => Len(new) \in 1 .. Len(new)
      BY <1>4
    <3>3. new # <<>> => new[Len(new)] \in Segments
      BY <1>4, <3>2
    <3>4. last \in 0 .. MaxSequence
      BY <1>2, <3>3 DEF Segments
    <3> QED
      BY <3>1, <3>4 DEF DrainPcs
  <2>3. Turns(w, [job[w] EXCEPT !.pc = "cutting", !.audio = audio, !.last = last])
    BY <2>1, <2>2, <1>1, DrainsOn, Turning
  <2> QED
    BY <2>3, <1>1, <1>4, <1>5, <1>6, <1>8, <1>9 DEF TakesAudio, DrainStep
<1> QED
  BY <1>7, <1>8

LEMMA EveryStepIsAudioStep == ASSUME AudioTyped, StateTyped, [Next]_vars PROVE AudioStep
<1>1. ASSUME NEW w \in Workers, Work(w) \/ Crash(w) PROVE AudioStep
  <2>1. CASE \E s \in Sources : StartDrain(w, s) \/ SkipDrain(w, s)
    BY <2>1, BeginningsAreSteps
  <2>2. CASE StartFinalize(w) \/ LockForFinal(w) \/ LookAgain(w) \/ Close(w)
    BY <2>2, FinalizingIsSteps DEF AudioStep, HandsOn
  <2>3. CASE Mark(w) \/ SaveMark(w) \/ MarkConflict(w)
    BY <2>3, MarkingIsAStep DEF AudioStep, HandsOn
  <2>4. CASE Take(w) \/ CutRow(w)
    BY <2>4, TakingIsAStep, CuttingIsAStep DEF AudioStep, HandsOn
  <2>5. CASE Gather(w) \/ Hold(w) \/ Clear(w) \/ Dispatch(w)
    BY <2>5, SettlingIsAStep DEF AudioStep, HandsOn
  <2>6. CASE Keep(w) \/ Unlock(w)
    BY <2>6, KeepingIsAStep DEF AudioStep, HandsOn
  <2>7. CASE Crash(w)
    BY <2>7, DeathsAreSteps DEF AudioStep, HandsOn
  <2> QED
    BY <1>1, <2>1, <2>2, <2>3, <2>4, <2>5, <2>6, <2>7 DEF Work
<1>2. ASSUME NEW s \in Sources, Upload(s) \/ UploadAgain(s) \/ Expire(s) PROVE AudioStep
  BY <1>2, UploadsAreSteps
<1>3. ASSUME Stop \/ Transcribe \/ UNCHANGED vars PROVE AudioStep
  BY <1>3, OutsideIsElsewhere DEF AudioStep
<1> QED
  BY <1>1, <1>2, <1>3 DEF Next

LEMMA StateStaysTyped == StateTyped /\ [Next]_vars => StateTyped'
<1> SUFFICES ASSUME StateTyped, [Next]_vars PROVE trState' = trState \/ trState' \in {"IN_PROGRESS", "COMPLETE"}
  BY DEF StateTyped
<1>1. ASSUME NEW w \in Workers, NEW s \in Sources, StartDrain(w, s) \/ SkipDrain(w, s) PROVE trState' = trState
  BY <1>1 DEF StartDrain, SkipDrain, database
<1>2. ASSUME NEW w \in Workers, StartFinalize(w) \/ LockForFinal(w) \/ LookAgain(w) \/ Close(w) \/ Crash(w) PROVE trState' = trState
  BY <1>2 DEF StartFinalize, LockForFinal, LookAgain, Close, Crash, database
<1>3. ASSUME NEW w \in Workers, Take(w) \/ CutRow(w) \/ Mark(w) \/ MarkConflict(w) PROVE trState' = trState
  BY <1>3 DEF Take, CutRow, Mark, MarkConflict, database
<1>4. ASSUME NEW w \in Workers, SaveMark(w) PROVE trState' = "IN_PROGRESS"
  BY <1>4 DEF SaveMark
<1>5. ASSUME NEW w \in Workers, Gather(w) \/ Hold(w) \/ Clear(w) \/ Dispatch(w) \/ Keep(w) \/ Unlock(w) PROVE trState' = trState
  BY <1>5 DEF Gather, Hold, Clear, Dispatch, Keep, Unlock, database
<1>6. ASSUME NEW s \in Sources, Upload(s) \/ UploadAgain(s) \/ Expire(s) PROVE trState' = trState
  BY <1>6 DEF Upload, UploadAgain, Expire, database
<1>7. CASE Stop \/ Transcribe \/ UNCHANGED vars
  BY <1>7 DEF Stop, Transcribe, vars, database
<1> QED
  BY <1>1, <1>2, <1>3, <1>4, <1>5, <1>6, <1>7 DEF Next, Work

LEMMA AudioStaysTyped == ASSUME AudioTyped, AudioStep PROVE AudioTyped'
<1>1. CASE Elsewhere
  <2>1. AudioTyped' <=> /\ uploaded' \in [Sources -> 0 .. MaxSequence] /\ queue' \in [Sources -> Seq(Segments)]
                        /\ late' \in [Sources -> SUBSET Segments]
    BY <1>1 DEF Elsewhere, AudioTyped
  <2>2. CASE UNCHANGED <<uploaded, queue, late>>
    BY <2>1, <2>2 DEF AudioTyped
  <2>3. ASSUME NEW s \in Sources, uploaded[s] < MaxSequence, uploaded' = [uploaded EXCEPT ![s] = uploaded[s] + 1],
               queue' = [queue EXCEPT ![s] = Append(queue[s], uploaded[s] + 1)],
               late' = IF stops > 0 THEN [late EXCEPT ![s] = late[s] \cup {uploaded[s] + 1}] ELSE late
        PROVE  AudioTyped'
    <3>1. uploaded[s] + 1 \in 0 .. MaxSequence /\ uploaded[s] + 1 \in Segments
      BY <2>3, BoundsAssumption DEF AudioTyped, BoundsAssumption, Segments
    <3>2. Append(queue[s], uploaded[s] + 1) \in Seq(Segments)
      BY <3>1 DEF AudioTyped
    <3>3. late' \in [Sources -> SUBSET Segments]
      BY <2>3, <3>1 DEF AudioTyped
    <3> QED
      BY <2>1, <2>3, <3>1, <3>2, <3>3 DEF AudioTyped
  <2>4. ASSUME NEW s \in Sources, NEW n \in 1 .. uploaded[s], uploaded' = uploaded,
               queue' = [queue EXCEPT ![s] = Append(queue[s], n)],
               late' = IF stops > 0 THEN [late EXCEPT ![s] = late[s] \cup {n}] ELSE late
        PROVE  AudioTyped'
    <3>1. n \in Segments
      BY <2>4, BoundsAssumption DEF AudioTyped, BoundsAssumption, Segments
    <3>2. Append(queue[s], n) \in Seq(Segments)
      BY <3>1 DEF AudioTyped
    <3>3. late' \in [Sources -> SUBSET Segments]
      BY <2>4, <3>1 DEF AudioTyped
    <3> QED
      BY <2>1, <2>4, <3>2, <3>3 DEF AudioTyped
  <2> QED
    BY <1>1, <2>2, <2>3, <2>4 DEF Elsewhere
<1>2. ASSUME NEW s \in Sources, Expires(s) PROVE AudioTyped'
  BY <1>2 DEF Expires, AudioTyped
<1>3. ASSUME NEW w \in Workers, NEW j, Turns(w, j) PROVE job' \in [Workers -> Jobs]
  BY <1>3 DEF AudioTyped, Turns
<1>4. ASSUME NEW w \in Workers, NEW s \in Sources, Begins(w, s) PROVE AudioTyped'
  BY <1>3, <1>4 DEF Begins, AudioTyped
<1>5. ASSUME NEW w \in Workers, Waits(w) PROVE AudioTyped'
  <2>1. closed' \in BOOLEAN
    BY <1>5 DEF Waits, AudioTyped
  <2> QED
    BY <1>3, <1>5, <2>1 DEF Waits, AudioTyped
<1>6. ASSUME NEW w \in Workers, Dies(w) \/ Raises(w) \/ Marks(w) PROVE AudioTyped'
  <2>1. job' \in [Workers -> Jobs]
    BY <1>3, <1>6 DEF Dies, Raises, Marks
  <2>2. CASE Dies(w)
    BY <2>1, <2>2 DEF Dies, AudioTyped
  <2>3. CASE Raises(w)
    BY <2>1, <2>3 DEF Raises, AudioTyped
  <2>4. CASE Marks(w)
    BY <2>1, <2>4 DEF Marks, AudioTyped
  <2> QED
    BY <1>6, <2>2, <2>3, <2>4
<1>7. ASSUME NEW w \in Workers, NEW from, NEW j, DrainStep(w, from, j)
      PROVE  /\ Source(w) \in Sources /\ job[w].members \in SUBSET Ids /\ job[w].audio \in Seq(Segments)
             /\ job[w].last \in 0 .. MaxSequence
             /\ job' \in [Workers -> Jobs]
             /\ UNCHANGED <<pauses, uploaded, crashes, raised, stops, closed, met, overruns>>
  BY <1>3, <1>7, StepsTell DEF DrainStep, Source, AudioTyped
<1>8. ASSUME NEW w \in Workers, TakesAudio(w) PROVE AudioTyped'
  <2> DEFINE s == Source(w)
  <2> DEFINE n == IF Len(queue[s]) < MaxPerDrain THEN Len(queue[s]) ELSE MaxPerDrain
  <2>1. \E j : DrainStep(w, "taking", j)
    BY <1>8, Zenon DEF TakesAudio
  <2>2. queue' = [queue EXCEPT ![s] = SubSeq(queue[s], n + 1, Len(queue[s]))] /\ UNCHANGED <<tail, lock, group, rows, sent>>
    BY <1>8 DEF TakesAudio
  <2>3. s \in Sources
    BY <1>7, <2>1
  <2>4. SubSeq(queue[s], n + 1, Len(queue[s])) \in Seq(Segments)
    BY <2>3, BoundsAssumption DEF AudioTyped, BoundsAssumption
  <2>5. queue' \in [Sources -> Seq(Segments)]
    BY <2>2, <2>4 DEF AudioTyped
  <2>6. ToSet(queue'[s]) \in SUBSET Segments
    BY <2>3, <2>5 DEF ToSet
  <2>7. late' \in [Sources -> SUBSET Segments]
    BY <1>8, <2>6 DEF TakesAudio, AudioTyped
  <2> QED
    BY <1>7, <2>1, <2>2, <2>5, <2>7 DEF AudioTyped
<1>9. ASSUME NEW w \in Workers, CutsRow(w) PROVE AudioTyped'
  <2> DEFINE end == Min(Ends(w))
  <2> DEFINE id == <<Source(w), job[w].audio[1]>>
  <2>1. (\E j : DrainStep(w, "cutting", j)) /\ id \in Ids /\ end \in 1 .. Len(job[w].audio)
    BY <1>9, Zenon DEF CutsRow
  <2>2. job[w].audio \in Seq(Segments)
    BY <1>7, <2>1
  <2>3. ToSet(SubSeq(job[w].audio, 1, end)) \in SUBSET Segments
    <3>1. SubSeq(job[w].audio, 1, end) \in Seq(Segments)
      BY <2>1, <2>2
    <3> QED
      BY <3>1 DEF ToSet
  <2>4. rows' \in [Ids -> SUBSET Segments]
    BY <1>9, <2>1, <2>3 DEF CutsRow, AudioTyped
  <2>5. UNCHANGED <<queue, tail, lock, group, sent, late>>
    BY <1>9 DEF CutsRow
  <2> QED
    BY <1>7, <2>1, <2>4, <2>5 DEF AudioTyped
<1>10. ASSUME NEW w \in Workers, SettlesGroup(w) PROVE AudioTyped'
  <2>1. PICK from, j : DrainStep(w, from, j)
    BY <1>10, Zenon DEF SettlesGroup
  <2>2. group' \in [Sources -> SUBSET Ids] /\ sent' \in [Ids -> Nat]
    <3>1. Source(w) \in Sources /\ job[w].members \in SUBSET Ids
      BY <1>7, <2>1
    <3>2. \/ group' = group
          \/ group' = [group EXCEPT ![Source(w)] = job[w].members] \/ group' = [group EXCEPT ![Source(w)] = {}]
      BY <1>10 DEF SettlesGroup
    <3>3. \/ sent' = sent \/ sent' = [id \in Ids |-> IF id \in job[w].members THEN sent[id] + 1 ELSE sent[id]]
      BY <1>10 DEF SettlesGroup
    <3>4. group' \in [Sources -> SUBSET Ids]
      BY <3>1, <3>2 DEF AudioTyped
    <3>5. \A id \in Ids : sent[id] + 1 \in Nat /\ sent[id] \in Nat
      BY DEF AudioTyped
    <3> QED
      BY <3>3, <3>4, <3>5 DEF AudioTyped
  <2>3. UNCHANGED <<queue, tail, lock, rows, late>>
    BY <1>10 DEF SettlesGroup
  <2> QED
    BY <1>7, <2>1, <2>2, <2>3 DEF AudioTyped
<1>11. ASSUME NEW w \in Workers, KeepsTail(w) PROVE AudioTyped'
  <2>1. PICK j : DrainStep(w, "keeping", j)
    BY <1>11 DEF KeepsTail
  <2>2. [held |-> job[w].audio, last |-> job[w].last] \in Tails
    BY <1>7, <2>1 DEF Tails
  <2>3. tail' \in [Sources -> Tails]
    BY <2>2, <1>7, <1>11, <2>1 DEF KeepsTail, AudioTyped
  <2> QED
    BY <1>7, <1>11, <2>1, <2>3 DEF KeepsTail, AudioTyped
<1>12. ASSUME NEW w \in Workers, Unlocks(w) PROVE AudioTyped'
  <2>1. PICK j : DrainStep(w, "unlocking", j)
    BY <1>12, Zenon DEF Unlocks
  <2> QED
    BY <1>7, <1>12, <2>1 DEF Unlocks, AudioTyped
<1> QED
  BY <1>1, <1>2, <1>4, <1>5, <1>6, <1>8, <1>9, <1>10, <1>11, <1>12 DEF AudioStep, HandsOn

-----------------------------------------------------------------------------
(* What the steps of a drain make of its fields.                            *)

\* A drain j that becomes k is at pc, with this audio, these rows.
Goes(j, k, pc, audio, last, members, new) ==
    /\ k.pc = pc
    /\ k.source = j.source /\ k.final = j.final /\ k.todo = j.todo
    /\ k.audio = audio /\ k.last = last /\ k.members = members /\ k.new = new

Becomes(w, pc, audio, last, members, new) ==
    /\ job[w] \in Drains /\ job'[w] \in Drains
    /\ Goes(job[w], job'[w], pc, audio, last, members, new)
    /\ \A v \in Workers \ {w} : job'[v] = job[v]

LEMMA FieldsOfDrains ==
    ASSUME NEW j \in Drains
    PROVE  /\ \A p : Goes(j, [j EXCEPT !.pc = p], p, j.audio, j.last, j.members, j.new)
           /\ \A p, m : Goes(j, [j EXCEPT !.pc = p, !.members = m], p, j.audio, j.last, m, j.new)
           /\ \A p, m, n : Goes(j, [j EXCEPT !.pc = p, !.members = m, !.new = n], p, j.audio, j.last, m, n)
           /\ \A p, n, a : Goes(j, [j EXCEPT !.pc = p, !.new = n, !.audio = a], p, a, j.last, j.members, n)
           /\ \A p, a, m : Goes(j, [j EXCEPT !.pc = p, !.audio = a, !.members = m], p, a, j.last, m, j.new)
           /\ \A p, a, l : Goes(j, [j EXCEPT !.pc = p, !.audio = a, !.last = l], p, a, l, j.members, j.new)
           /\ \A a : Goes(j, [j EXCEPT !.audio = a], j.pc, a, j.last, j.members, j.new)
<1>1. j \in [pc : DrainPcs, source : Sources, final : BOOLEAN, todo : SUBSET Sources,
             audio : Seq(Segments), last : 0 .. MaxSequence, members : SUBSET Ids, new : SUBSET Ids]
  BY DEF Drains, DrainPcs
<1> QED
  BY <1>1 DEF Goes

\* What a drain turns into is a drain, unless it says that it is none.
LEMMA TurnsToDrain ==
    ASSUME NEW w \in Workers, NEW j, NEW pc \in DrainPcs, NEW a, NEW l, NEW m, NEW n,
           job[w] \in Drains, Turns(w, j), Goes(job[w], j, pc, a, l, m, n)
    PROVE  Becomes(w, pc, a, l, m, n)
<1>1. j \in Drains
  BY StepsTell DEF Turns, Goes
<1> QED
  BY <1>1 DEF Turns, Becomes

LEMMA MarksBecomes ==
    ASSUME AudioTyped, NEW w \in Workers, Marks(w)
    PROVE  /\ job[w].pc \in {"marking", "saving"}
           /\ \/ Becomes(w, "saving", job[w].audio, job[w].last, job[w].members, job[w].new)
              \/ Becomes(w, "cutting", job[w].audio, job[w].last, job[w].members \cup job[w].new, {})
<1>1. job[w] \in Drains /\ job[w].pc \in {"marking", "saving"} /\ "saving" \in DrainPcs /\ "cutting" \in DrainPcs
  BY DEF Marks, DrainPcs
<1>2. CASE Turns(w, [job[w] EXCEPT !.pc = "saving"])
  BY <1>1, <1>2, TurnsToDrain, FieldsOfDrains
<1>3. CASE Turns(w, [job[w] EXCEPT !.pc = "cutting", !.members = job[w].members \cup job[w].new, !.new = {}])
  BY <1>1, <1>3, TurnsToDrain, FieldsOfDrains
<1> QED
  BY <1>1, <1>2, <1>3 DEF Marks

LEMMA TakesBecomes ==
    ASSUME AudioTyped, NEW w \in Workers, TakesAudio(w)
    PROVE  LET s == Source(w)
               n == IF Len(queue[s]) < MaxPerDrain THEN Len(queue[s]) ELSE MaxPerDrain
               new == Fresh(SubSeq(queue[s], 1, n), tail[s].last)
           IN  /\ job[w].pc = "taking" /\ UNCHANGED <<pauses, uploaded, crashes, raised, stops, closed, met, overruns>>
               /\ IF NothingToDo(w, new)
                    THEN Becomes(w, "unlocking", job[w].audio, job[w].last, job[w].members, job[w].new)
                  ELSE Becomes(w, "cutting", tail[s].held \o new, IF new = <<>> THEN tail[s].last ELSE new[Len(new)],
                               job[w].members, job[w].new)
<1> DEFINE s == Source(w)
<1> DEFINE n == IF Len(queue[s]) < MaxPerDrain THEN Len(queue[s]) ELSE MaxPerDrain
<1> DEFINE new == Fresh(SubSeq(queue[s], 1, n), tail[s].last)
<1> DEFINE last == IF new = <<>> THEN tail[s].last ELSE new[Len(new)]
<1> DEFINE audio == tail[s].held \o new
<1>0. "unlocking" \in DrainPcs /\ "cutting" \in DrainPcs
  BY DEF DrainPcs
<1>1. CASE NothingToDo(w, new)
  <2>1. DrainStep(w, "taking", [job[w] EXCEPT !.pc = "unlocking"])
    BY <1>1 DEF TakesAudio
  <2>2. Becomes(w, "unlocking", job[w].audio, job[w].last, job[w].members, job[w].new)
    BY <1>0, <2>1, TurnsToDrain, FieldsOfDrains DEF DrainStep
  <2> QED
    BY <1>1, <2>1, <2>2 DEF DrainStep
<1>2. CASE ~NothingToDo(w, new)
  <2>1. DrainStep(w, "taking", [job[w] EXCEPT !.pc = "cutting", !.audio = audio, !.last = last])
    BY <1>2 DEF TakesAudio
  <2> HIDE DEF audio, last
  <2>2. Becomes(w, "cutting", audio, last, job[w].members, job[w].new)
    BY <1>0, <2>1, TurnsToDrain, FieldsOfDrains DEF DrainStep
  <2> QED
    BY <1>2, <2>1, <2>2 DEF DrainStep, audio, last
<1> QED
  BY <1>1, <1>2

LEMMA CutsBecomes ==
    ASSUME AudioTyped, NEW w \in Workers, CutsRow(w)
    PROVE  LET end == Min(Ends(w))
               id == <<Source(w), job[w].audio[1]>>
               rest == SubSeq(job[w].audio, end + 1, Len(job[w].audio))
           IN  /\ job[w].pc = "cutting" /\ UNCHANGED <<pauses, uploaded, crashes, raised, stops, closed, met, overruns>>
               /\ \/ /\ Exists(id) /\ rows' = rows
                     /\ Becomes(w, "cutting", rest, job[w].last, job[w].members, job[w].new)
                  \/ /\ ~Exists(id) /\ rows' = [rows EXCEPT ![id] = ToSet(SubSeq(job[w].audio, 1, end))]
                     /\ Becomes(w, "marking", rest, job[w].last, job[w].members, {id})
<1> DEFINE end == Min(Ends(w))
<1> DEFINE id == <<Source(w), job[w].audio[1]>>
<1> DEFINE rest == SubSeq(job[w].audio, end + 1, Len(job[w].audio))
<1>0. "marking" \in DrainPcs /\ "cutting" \in DrainPcs
  BY DEF DrainPcs
<1>1. CASE Exists(id)
  <2>1. DrainStep(w, "cutting", [job[w] EXCEPT !.audio = rest]) /\ rows' = rows
    BY <1>1 DEF CutsRow
  <2>2. Becomes(w, "cutting", rest, job[w].last, job[w].members, job[w].new)
    BY <1>0, <2>1, TurnsToDrain, FieldsOfDrains DEF DrainStep
  <2> QED
    BY <1>1, <2>1, <2>2 DEF DrainStep
<1>2. CASE ~Exists(id)
  <2>1. /\ rows' = [rows EXCEPT ![id] = ToSet(SubSeq(job[w].audio, 1, end))]
        /\ DrainStep(w, "cutting", [job[w] EXCEPT !.pc = "marking", !.new = {id}, !.audio = rest])
    BY <1>2 DEF CutsRow
  <2>2. Becomes(w, "marking", rest, job[w].last, job[w].members, {id})
    BY <1>0, <2>1, TurnsToDrain, FieldsOfDrains DEF DrainStep
  <2> QED
    BY <1>2, <2>1, <2>2 DEF DrainStep
<1> QED
  BY <1>1, <1>2

LEMMA SettlesBecomes ==
    ASSUME AudioTyped, NEW w \in Workers, SettlesGroup(w)
    PROVE  /\ UNCHANGED <<pauses, uploaded, crashes, raised, stops, closed, queue, tail, lock, rows, met, overruns, late>>
           /\ \/ /\ Ends(w) = {} /\ UNCHANGED <<group, sent>> /\ job[w].pc = "cutting"
                 /\ Becomes(w, "gathering", job[w].audio, job[w].last, job[w].members \cup group[Source(w)], job[w].new)
              \/ /\ group' = [group EXCEPT ![Source(w)] = job[w].members] /\ UNCHANGED sent /\ job[w].pc = "gathering"
                 /\ Becomes(w, "keeping", job[w].audio, job[w].last, job[w].members, job[w].new)
              \/ /\ group' = [group EXCEPT ![Source(w)] = {}] /\ UNCHANGED sent /\ job[w].pc = "gathering"
                 /\ Becomes(w, "dispatching", job[w].audio, job[w].last, job[w].members, job[w].new)
              \/ /\ sent' = [id \in Ids |-> IF id \in job[w].members THEN sent[id] + 1 ELSE sent[id]]
                 /\ UNCHANGED group /\ job[w].pc = "dispatching"
                 /\ Becomes(w, "keeping", job[w].audio, job[w].last, {}, job[w].new)
<1>0. {"gathering", "keeping", "dispatching"} \subseteq DrainPcs
  BY DEF DrainPcs
<1>1. ASSUME NEW from, DrainStep(w, from, [job[w] EXCEPT !.pc = "gathering", !.members = job[w].members \cup group[Source(w)]])
      PROVE  /\ Becomes(w, "gathering", job[w].audio, job[w].last, job[w].members \cup group[Source(w)], job[w].new)
             /\ job[w].pc = from /\ UNCHANGED <<pauses, uploaded, crashes, raised, stops, closed, met, overruns>>
  BY <1>0, <1>1, TurnsToDrain, FieldsOfDrains DEF DrainStep
<1>2. ASSUME NEW from, NEW pc \in {"keeping", "dispatching"}, DrainStep(w, from, [job[w] EXCEPT !.pc = pc])
      PROVE  /\ Becomes(w, pc, job[w].audio, job[w].last, job[w].members, job[w].new)
             /\ job[w].pc = from /\ UNCHANGED <<pauses, uploaded, crashes, raised, stops, closed, met, overruns>>
  BY <1>0, <1>2, TurnsToDrain, FieldsOfDrains DEF DrainStep
<1>3. ASSUME NEW from, DrainStep(w, from, [job[w] EXCEPT !.pc = "keeping", !.members = {}])
      PROVE  /\ Becomes(w, "keeping", job[w].audio, job[w].last, {}, job[w].new)
             /\ job[w].pc = from /\ UNCHANGED <<pauses, uploaded, crashes, raised, stops, closed, met, overruns>>
  BY <1>0, <1>3, TurnsToDrain, FieldsOfDrains DEF DrainStep
<1> QED
  BY <1>1, <1>2, <1>3 DEF SettlesGroup

LEMMA KeepsBecomes ==
    ASSUME AudioTyped, NEW w \in Workers, KeepsTail(w)
    PROVE  /\ job[w].pc = "keeping" /\ UNCHANGED <<pauses, uploaded, crashes, raised, stops, closed, met, overruns>>
           /\ Becomes(w, "unlocking", job[w].audio, job[w].last, job[w].members, job[w].new)
<1>1. "unlocking" \in DrainPcs
  BY DEF DrainPcs
<1> QED
  BY <1>1, TurnsToDrain, FieldsOfDrains DEF DrainStep, KeepsTail

LEMMA UnlocksBecomes ==
    ASSUME AudioTyped, NEW w \in Workers, Unlocks(w)
    PROVE  /\ job[w].pc = "unlocking" /\ UNCHANGED <<pauses, uploaded, crashes, raised, stops, closed, met, overruns>>
           /\ job[w] \in Drains /\ \A v \in Workers \ {w} : job'[v] = job[v]
           /\ \/ job[w].final /\ job'[w] = [pc |-> "locking", todo |-> job[w].todo] /\ job'[w] \notin Drains
              \/ ~job[w].final /\ Becomes(w, "looking", <<>>, job[w].last, {}, job[w].new)
<1>1. "looking" \in DrainPcs
  BY DEF DrainPcs
<1>2. CASE job[w].final /\ DrainStep(w, "unlocking", [pc |-> "locking", todo |-> job[w].todo])
  <2>1. [pc |-> "locking", todo |-> job[w].todo] \notin Drains
    BY DEF Drains
  <2> QED
    BY <1>2, <2>1 DEF DrainStep, Turns
<1>3. CASE ~job[w].final /\ DrainStep(w, "unlocking", [job[w] EXCEPT !.pc = "looking", !.audio = <<>>, !.members = {}])
  <2>1. DrainStep(w, "unlocking", [job[w] EXCEPT !.pc = "looking", !.audio = <<>>, !.members = {}])
    BY <1>3
  <2>2. Becomes(w, "looking", <<>>, job[w].last, {}, job[w].new)
    BY <1>1, <2>1, TurnsToDrain, FieldsOfDrains DEF DrainStep
  <2> QED
    BY <1>3, <2>1, <2>2 DEF DrainStep, Becomes
<1> QED
  BY <1>2, <1>3 DEF Unlocks

LEMMA BeginsBecomes ==
    ASSUME AudioTyped, NEW w \in Workers, NEW s \in Sources, Begins(w, s)
    PROVE  /\ job[w] \notin Drains /\ job'[w] \in Drains /\ job'[w].pc = "taking" /\ job'[w].source = s
           /\ job'[w].audio = <<>> /\ job'[w].members = {} /\ job'[w].new = {}
           /\ \A v \in Workers \ {w} : job'[v] = job[v]
           /\ \/ job'[w].final = FALSE
              \/ job'[w].final = TRUE /\ job[w] \in Closings /\ s \in job[w].todo /\ job'[w].todo = job[w].todo \ {s}
<1>1. ASSUME NEW f, NEW t
      PROVE  LET d == Drain(s, f, t)
             IN  d.pc = "taking" /\ d.source = s /\ d.audio = <<>> /\ d.members = {} /\ d.new = {} /\ d.final = f /\ d.todo = t
  BY DEF Drain
<1>2. ASSUME NEW f, NEW t, Turns(w, Drain(s, f, t))
      PROVE  job'[w] = Drain(s, f, t) /\ job'[w] \in Drains /\ \A v \in Workers \ {w} : job'[v] = job[v]
  <2>1. Drain(s, f, t).pc \in DrainPcs
    BY <1>1 DEF DrainPcs
  <2> QED
    BY <1>2, <2>1, StepsTell DEF Turns
<1>0. job[w] \notin Drains
  BY DEF Begins
<1>3. CASE Turns(w, Drain(s, FALSE, {}))
  <2>1. job'[w] = Drain(s, FALSE, {}) /\ job'[w] \in Drains /\ \A v \in Workers \ {w} : job'[v] = job[v]
    BY <1>2, <1>3
  <2>2. /\ job'[w].pc = "taking" /\ job'[w].source = s /\ job'[w].audio = <<>> /\ job'[w].members = {} /\ job'[w].new = {}
        /\ job'[w].final = FALSE /\ job'[w].todo = {}
    BY <2>1 DEF Drain
  <2> QED
    BY <1>0, <2>1, <2>2
<1>4. CASE job[w] \in Closings /\ s \in job[w].todo /\ Turns(w, Drain(s, TRUE, job[w].todo \ {s}))
  <2>1. job'[w] = Drain(s, TRUE, job[w].todo \ {s}) /\ job'[w] \in Drains /\ \A v \in Workers \ {w} : job'[v] = job[v]
    BY <1>2, <1>4
  <2>2. /\ job'[w].pc = "taking" /\ job'[w].source = s /\ job'[w].audio = <<>> /\ job'[w].members = {} /\ job'[w].new = {}
        /\ job'[w].final = TRUE /\ job'[w].todo = job[w].todo \ {s}
    BY <2>1 DEF Drain
  <2> QED
    BY <1>0, <1>4, <2>1, <2>2
<1> QED
  BY <1>3, <1>4 DEF Begins

\* A worker that waits, or has died, or left by an exception, drains nothing.
LEMMA LeavingIsDone ==
    ASSUME AudioTyped, NEW w \in Workers, Waits(w) \/ Dies(w) \/ Raises(w)
    PROVE  job'[w] \notin Drains /\ \A v \in Workers \ {w} : job'[v] = job[v]
<1>1. Idle \notin Drains /\ \A t : [pc |-> "locking", todo |-> t] \notin Drains /\ [pc |-> "closing", todo |-> t] \notin Drains
  BY DEF Idle, Drains
<1>2. PICK j : Turns(w, j) /\ j \notin Drains
  BY <1>1 DEF Waits, Dies, Raises
<1> QED
  BY <1>2 DEF Turns

-----------------------------------------------------------------------------
(* One drain owns the tail.                                                 *)

\* No two drains are at work at once on a source where none have been.
OneAtWork == \A w \in Workers, s \in Sources :
                AtWork(w, s) /\ s \notin met => \A v \in Workers : AtWork(v, s) => v = w

\* Those at work on a source, as many as have its lock, or had it when it expired.
Crew(s) == {w \in Workers : AtWork(w, s)}
CrewOK(s) ==
    /\ IsFiniteSet(Crew(s))
    /\ Cardinality(Crew(s)) <= overruns[s] + (IF lock[s] THEN 1 ELSE 0)
    /\ s \in met => overruns[s] > 0

\* What has been, remains.
LEMMA HistoryGrows ==
    ASSUME AudioTyped, AudioStep
    PROVE  met \subseteq met' /\ \A s \in Sources : late[s] \subseteq late'[s]
<1>1. CASE Elsewhere
  <2>1. met' = met
    BY <1>1 DEF Elsewhere
  <2>2. late' = late \/ \E s \in Sources : \E n : late' = [late EXCEPT ![s] = late[s] \cup {n}]
    BY <1>1 DEF Elsewhere
  <2> QED
    BY <2>1, <2>2 DEF AudioTyped
<1>2. ASSUME NEW s \in Sources, Expires(s) PROVE met' = met /\ late' = late
  BY <1>2 DEF Expires
<1>3. ASSUME NEW w \in Workers, NEW s \in Sources, Begins(w, s) PROVE met \subseteq met' /\ late' = late
  BY <1>3 DEF Begins
<1>4. ASSUME NEW w \in Workers, Waits(w) \/ Dies(w) \/ Raises(w) \/ Marks(w) PROVE met' = met /\ late' = late
  BY <1>4 DEF Waits, Dies, Raises, Marks
<1>5. ASSUME NEW w \in Workers, CutsRow(w) PROVE met' = met /\ late' = late
  <2>1. late' = late
    BY <1>5 DEF CutsRow
  <2> QED
    BY <1>5, <2>1, CutsBecomes
<1>6. ASSUME NEW w \in Workers, SettlesGroup(w) PROVE met' = met /\ late' = late
  BY <1>6, SettlesBecomes
<1>7. ASSUME NEW w \in Workers, KeepsTail(w) PROVE met' = met /\ late' = late
  <2>1. late' = late
    BY <1>7 DEF KeepsTail
  <2> QED
    BY <1>7, <2>1, KeepsBecomes
<1>8. ASSUME NEW w \in Workers, Unlocks(w) PROVE met' = met /\ late' = late
  <2>1. late' = late
    BY <1>8 DEF Unlocks
  <2> QED
    BY <1>8, <2>1, UnlocksBecomes
<1>9. ASSUME NEW w \in Workers, TakesAudio(w) PROVE met' = met /\ \A s \in Sources : late[s] \subseteq late'[s]
  <2>1. met' = met /\ late' = IF job[w].final THEN [late EXCEPT ![Source(w)] = late[Source(w)] \cup ToSet(queue'[Source(w)])] ELSE late
    BY <1>9, TakesBecomes DEF TakesAudio
  <2> QED
    BY <2>1 DEF AudioTyped
<1> QED
  BY <1>1, <1>2, <1>3, <1>4, <1>5, <1>6, <1>7, <1>8, <1>9 DEF AudioStep, HandsOn

\* A drain that goes on holds what it held, unless it lets go.
LEMMA HoldersGoOn ==
    ASSUME NEW w \in Workers, NEW pc, NEW a, NEW l, NEW m, NEW n, Becomes(w, pc, a, l, m, n), job[w].pc # "looking"
    PROVE  /\ \A v \in Workers, s \in Sources : AtWork(v, s)' => AtWork(v, s)
           /\ pc # "looking" => \A v \in Workers, s \in Sources : AtWork(v, s)' <=> AtWork(v, s)
BY DEF Becomes, Goes, AtWork, Draining

\* A worker that is at work on what it was at work on, or on nothing.
LEMMA NoneBegins ==
    ASSUME AudioTyped, NEW w \in Workers, HandsOn(w)
    PROVE  /\ \A v \in Workers, s \in Sources : AtWork(v, s)' => AtWork(v, s)
           /\ UNCHANGED <<met, overruns>>
           /\ \/ UNCHANGED lock
              \/ \E s \in Sources : AtWork(w, s) /\ ~AtWork(w, s)' /\ lock' = [lock EXCEPT ![s] = FALSE]
<1>1. ASSUME Waits(w) \/ Dies(w) \/ Raises(w)
      PROVE  /\ \A v \in Workers, s \in Sources : AtWork(v, s)' => AtWork(v, s)
             /\ \A s \in Sources : ~AtWork(w, s)'
  BY <1>1, LeavingIsDone DEF AtWork, Draining
<1>2. CASE Waits(w) \/ Dies(w)
  BY <1>1, <1>2 DEF Waits, Dies
<1>3. CASE Raises(w)
  <2>1. PICK s \in Sources : s = job[w].source
    BY <1>3, StepsTell DEF Raises, AudioTyped
  <2>2. AtWork(w, s) /\ lock' = [lock EXCEPT ![s] = FALSE] /\ UNCHANGED <<met, overruns>>
    BY <1>3, <2>1 DEF Raises, AtWork, Draining
  <2> QED
    BY <1>1, <1>3, <2>2
<1>4. CASE Marks(w) \/ TakesAudio(w) \/ CutsRow(w) \/ SettlesGroup(w) \/ KeepsTail(w)
  <2>1. lock' = lock
    BY <1>4 DEF Marks, TakesAudio, CutsRow, SettlesGroup, KeepsTail
  <2>2. PICK pc, a, l, m, n : Becomes(w, pc, a, l, m, n) /\ job[w].pc # "looking" /\ UNCHANGED <<met, overruns>>
    <3>1. CASE Marks(w)
      <4>1. UNCHANGED <<met, overruns>>
        BY <3>1 DEF Marks
      <4> QED
        BY <3>1, <4>1, MarksBecomes, Zenon
    <3>2. CASE TakesAudio(w)
      BY <3>2, TakesBecomes, Zenon
    <3>3. CASE CutsRow(w)
      BY <3>3, CutsBecomes, Zenon
    <3>4. CASE SettlesGroup(w)
      BY <3>4, SettlesBecomes, Zenon
    <3>5. CASE KeepsTail(w)
      BY <3>5, KeepsBecomes, Zenon
    <3> QED
      BY <1>4, <3>1, <3>2, <3>3, <3>4, <3>5
  <2>3. \A v \in Workers, s \in Sources : AtWork(v, s)' => AtWork(v, s)
    BY <2>2, HoldersGoOn
  <2> QED
    BY <2>1, <2>2, <2>3
<1>5. CASE Unlocks(w)
  <2>1. /\ job[w].pc = "unlocking" /\ job[w] \in Drains /\ \A v \in Workers \ {w} : job'[v] = job[v]
        /\ job'[w] \notin Drains \/ Becomes(w, "looking", <<>>, job[w].last, {}, job[w].new)
        /\ UNCHANGED <<met, overruns>>
    BY <1>5, UnlocksBecomes
  <2>2. PICK s \in Sources : s = job[w].source
    BY <2>1, StepsTell DEF AudioTyped
  <2>3. AtWork(w, s) /\ lock' = [lock EXCEPT ![s] = FALSE]
    BY <1>5, <2>1, <2>2 DEF Unlocks, AtWork, Draining, Source
  <2>4. (\A v \in Workers, t \in Sources : AtWork(v, t)' => AtWork(v, t)) /\ ~AtWork(w, s)'
    <3>1. CASE job'[w] \notin Drains
      BY <2>1, <3>1 DEF AtWork, Draining
    <3>2. CASE Becomes(w, "looking", <<>>, job[w].last, {}, job[w].new)
      <4>1. \A v \in Workers, t \in Sources : AtWork(v, t)' => AtWork(v, t)
        BY <2>1, <3>2, HoldersGoOn
      <4>2. job'[w].pc = "looking"
        BY <3>2 DEF Becomes, Goes
      <4> QED
        BY <4>1, <4>2 DEF AtWork
    <3> QED
      BY <2>1, <3>1, <3>2
  <2> QED
    BY <2>1, <2>3, <2>4
<1> QED
  BY <1>2, <1>3, <1>4, <1>5 DEF HandsOn

\* Who begins is at work where it begins, and where it was not.
LEMMA OneBegins ==
    ASSUME AudioTyped, NEW w \in Workers, NEW s \in Sources, Begins(w, s)
    PROVE  /\ \A v \in Workers, t \in Sources : AtWork(v, t)' <=> AtWork(v, t) \/ (v = w /\ t = s)
           /\ \A t \in Sources : ~AtWork(w, t)
           /\ ~lock[s] /\ lock' = [lock EXCEPT ![s] = TRUE] /\ overruns' = overruns
           /\ met' = IF Crew(s) # {} THEN met \cup {s} ELSE met
<1>1. /\ job'[w] \in Drains /\ job'[w].source = s /\ job'[w].pc = "taking" /\ job[w] \notin Drains
      /\ \A v \in Workers \ {w} : job'[v] = job[v]
  BY BeginsBecomes
<1>2. \A v \in Workers, t \in Sources : AtWork(v, t)' <=> AtWork(v, t) \/ (v = w /\ t = s)
  BY <1>1 DEF AtWork, Draining
<1>3. \A t \in Sources : ~AtWork(w, t)
  BY <1>1 DEF AtWork, Draining
<1> QED
  BY <1>2, <1>3 DEF Begins, Crew

LEMMA OneAtWorkStays ==
    ASSUME AudioTyped, AudioStep, OneAtWork
    PROVE  OneAtWork'
<1>1. ASSUME met' = met, \A v \in Workers, s \in Sources : AtWork(v, s)' => AtWork(v, s) PROVE OneAtWork'
  BY <1>1 DEF OneAtWork
<1>2. CASE Elsewhere
  BY <1>1, <1>2 DEF Elsewhere, AtWork, Draining
<1>3. ASSUME NEW s \in Sources, Expires(s) PROVE OneAtWork'
  BY <1>1, <1>3 DEF Expires, AtWork, Draining
<1>4. ASSUME NEW w \in Workers, HandsOn(w) PROVE OneAtWork'
  BY <1>1, <1>4, NoneBegins
<1>5. ASSUME NEW w \in Workers, NEW s \in Sources, Begins(w, s) PROVE OneAtWork'
  <2> SUFFICES ASSUME NEW u \in Workers, NEW v \in Workers, NEW t \in Sources, t \notin met', AtWork(u, t)', AtWork(v, t)'
               PROVE  v = u
    BY DEF OneAtWork
  <2>1. /\ \A x \in Workers, y \in Sources : AtWork(x, y)' <=> AtWork(x, y) \/ (x = w /\ y = s)
        /\ met' = IF Crew(s) # {} THEN met \cup {s} ELSE met
    BY <1>5, OneBegins
  <2>2. CASE t = s
    <3>1. Crew(s) = {}
      BY <2>1, <2>2
    <3> QED
      BY <2>1, <2>2, <3>1 DEF Crew
  <2>3. CASE t # s
    BY <2>1, <2>3 DEF OneAtWork
  <2> QED
    BY <2>2, <2>3
<1> QED
  BY <1>2, <1>3, <1>4, <1>5 DEF AudioStep

\* A source at which nobody begins, nothing expires and nobody lets go.
LEMMA CrewShrinks ==
    ASSUME NEW s \in Sources, CrewOK(s), \A v \in Workers : AtWork(v, s)' => AtWork(v, s),
           overruns[s] \in Nat, lock'[s] = lock[s], overruns'[s] = overruns[s], s \in met' => s \in met
    PROVE  CrewOK(s)'
<1>1. IsFiniteSet(Crew(s)) /\ Crew(s)' \subseteq Crew(s)
  BY DEF CrewOK, Crew
<1>2. IsFiniteSet(Crew(s)') /\ Cardinality(Crew(s)') <= Cardinality(Crew(s))
  BY <1>1, FS_Subset
<1>3. Cardinality(Crew(s)) \in Nat /\ Cardinality(Crew(s)') \in Nat
  BY <1>1, <1>2, FS_CardinalityType
<1> QED
  BY <1>2, <1>3 DEF CrewOK

LEMMA CrewStays ==
    ASSUME AudioTyped, AudioStep, \A s \in Sources : CrewOK(s), NEW t \in Sources
    PROVE  CrewOK(t)'
<1>0. IsFiniteSet(Crew(t)) /\ Cardinality(Crew(t)) \in Nat /\ overruns[t] \in Nat
  BY FS_CardinalityType DEF CrewOK, AudioTyped
<1>1. CASE Elsewhere
  BY <1>0, <1>1, CrewShrinks DEF Elsewhere, AtWork, Draining
<1>2. ASSUME NEW s \in Sources, Expires(s) PROVE CrewOK(t)'
  <2>1. Crew(t)' = Crew(t) /\ met' = met
    BY <1>2 DEF Expires, Crew, AtWork, Draining
  <2>2. CASE t # s
    <3>1. lock'[t] = lock[t] /\ overruns'[t] = overruns[t]
      BY <1>2, <2>2 DEF Expires, AudioTyped
    <3> QED
      BY <2>1, <3>1 DEF CrewOK
  <2>3. CASE t = s /\ Crew(s) # {}
    <3>1. \E w \in Workers : AtWork(w, s)
      BY <2>3 DEF Crew
    <3>2. ~lock'[t] /\ overruns'[t] = overruns[t] + 1
      BY <1>2, <2>3, <3>1 DEF Expires, AudioTyped
    <3>3. Cardinality(Crew(t)) <= overruns[t] + 1
      BY <1>0 DEF CrewOK
    <3> QED
      BY <1>0, <2>1, <3>2, <3>3 DEF CrewOK
  <2>4. CASE t = s /\ Crew(s) = {}
    <3>1. ~\E w \in Workers : AtWork(w, s)
      BY <2>4 DEF Crew
    <3>2. overruns' = overruns
      BY <1>2, <3>1 DEF Expires
    <3>3. Cardinality(Crew(t)') = 0
      BY <2>1, <2>4, FS_EmptySet
    <3>4. overruns'[t] + (IF lock'[t] THEN 1 ELSE 0) >= 0
      BY <1>0, <3>2
    <3> QED
      BY <1>0, <2>1, <3>2, <3>3, <3>4 DEF CrewOK
  <2> QED
    BY <2>2, <2>3, <2>4
<1>3. ASSUME NEW w \in Workers, HandsOn(w) PROVE CrewOK(t)'
  <2>1. /\ \A v \in Workers : AtWork(v, t)' => AtWork(v, t)
        /\ UNCHANGED <<met, overruns>>
        /\ \/ UNCHANGED lock
           \/ \E s \in Sources : AtWork(w, s) /\ ~AtWork(w, s)' /\ lock' = [lock EXCEPT ![s] = FALSE]
    BY <1>3, NoneBegins
  <2>2. CASE lock'[t] = lock[t]
    BY <1>0, <2>1, <2>2, CrewShrinks
  <2>3. CASE lock'[t] # lock[t]
    <3>1. PICK s \in Sources : AtWork(w, s) /\ ~AtWork(w, s)' /\ lock' = [lock EXCEPT ![s] = FALSE]
      BY <2>1, <2>3
    <3>2. s = t /\ ~lock'[t]
      BY <2>3, <3>1 DEF AudioTyped
    <3>3. Crew(t)' \subseteq Crew(t) \ {w} /\ w \in Crew(t)
      BY <2>1, <3>1, <3>2 DEF Crew
    <3>4. IsFiniteSet(Crew(t) \ {w}) /\ Cardinality(Crew(t) \ {w}) = Cardinality(Crew(t)) - 1
      BY <1>0, <3>3, FS_RemoveElement
    <3>5. IsFiniteSet(Crew(t)') /\ Cardinality(Crew(t)') <= Cardinality(Crew(t) \ {w})
      BY <3>3, <3>4, FS_Subset
    <3>6. Cardinality(Crew(t)') \in Nat
      BY <3>5, FS_CardinalityType
    <3>7. Cardinality(Crew(t)) <= overruns[t] + 1
      BY <1>0 DEF CrewOK
    <3>8. Cardinality(Crew(t)') <= overruns[t]
      BY <1>0, <3>4, <3>5, <3>6, <3>7
    <3> QED
      BY <1>0, <2>1, <3>2, <3>5, <3>8 DEF CrewOK
  <2> QED
    BY <2>2, <2>3
<1>4. ASSUME NEW w \in Workers, NEW s \in Sources, Begins(w, s) PROVE CrewOK(t)'
  <2>1. /\ \A v \in Workers, u \in Sources : AtWork(v, u)' <=> AtWork(v, u) \/ (v = w /\ u = s)
        /\ \A u \in Sources : ~AtWork(w, u)
        /\ ~lock[s] /\ lock' = [lock EXCEPT ![s] = TRUE] /\ overruns' = overruns
        /\ met' = IF Crew(s) # {} THEN met \cup {s} ELSE met
    BY <1>4, OneBegins
  <2>2. CASE t # s
    <3>1. (\A v \in Workers : AtWork(v, t)' => AtWork(v, t)) /\ (t \in met' => t \in met)
      BY <2>1, <2>2
    <3>2. lock'[t] = lock[t] /\ overruns'[t] = overruns[t]
      BY <2>1, <2>2 DEF AudioTyped
    <3> QED
      BY <1>0, <3>1, <3>2, CrewShrinks
  <2>3. CASE t = s
    <3>1. Crew(t)' = Crew(t) \cup {w} /\ w \notin Crew(t)
      BY <2>1, <2>3 DEF Crew
    <3>2. IsFiniteSet(Crew(t)') /\ Cardinality(Crew(t)') = Cardinality(Crew(t)) + 1
      BY <1>0, <3>1, FS_AddElement
    <3>3. Cardinality(Crew(t)) <= overruns[t]
      BY <1>0, <2>1, <2>3 DEF CrewOK
    <3>4. lock'[t]
      BY <2>1, <2>3 DEF AudioTyped
    <3>5. t \in met' => overruns[t] > 0
      <4>1. CASE Crew(t) = {}
        BY <2>1, <2>3, <4>1 DEF CrewOK
      <4>2. CASE Crew(t) # {}
        <5>1. Cardinality(Crew(t)) # 0
          BY <1>0, <4>2, FS_EmptySet
        <5> QED
          BY <1>0, <3>3, <5>1
      <4> QED
        BY <4>1, <4>2
    <3> QED
      BY <1>0, <2>1, <3>2, <3>3, <3>4, <3>5 DEF CrewOK
  <2> QED
    BY <2>2, <2>3
<1> QED
  BY <1>1, <1>2, <1>3, <1>4 DEF AudioStep

LEMMA SessionIsNew ==
    ASSUME Init
    PROVE  /\ AudioTyped /\ StateTyped
           /\ \A w \in Workers : job[w] = Idle /\ job[w] \notin Drains /\ job[w] \notin Closings /\ job[w].pc = "idle"
<1>1. Idle \in Jobs /\ Idle \notin Drains /\ Idle \notin Closings /\ Idle.pc = "idle"
  BY DEF Idle, Jobs, Drains, Closings
<1>2. MaxSequence \in Nat
  BY BoundsAssumption DEF BoundsAssumption
<1>3. [held |-> <<>>, last |-> 0] \in Tails
  BY <1>2 DEF Tails
<1>4. job \in [Workers -> Jobs] /\ \A w \in Workers : job[w] = Idle
  BY <1>1 DEF Init
<1>5. tail \in [Sources -> Tails] /\ uploaded \in [Sources -> 0 .. MaxSequence] /\ sent \in [Ids -> Nat]
  BY <1>2, <1>3 DEF Init
<1>6. queue \in [Sources -> Seq(Segments)]
  BY DEF Init
<1>7. /\ pauses \in [Sources -> SUBSET Segments] /\ lock \in [Sources -> BOOLEAN]
      /\ group \in [Sources -> SUBSET Ids] /\ rows \in [Ids -> SUBSET Segments]
      /\ crashes \in Nat /\ raised \in BOOLEAN /\ stops \in Nat /\ closed \in BOOLEAN
      /\ trState \in {"NOT_STARTED", "IN_PROGRESS", "COMPLETE"}
      /\ late \in [Sources -> SUBSET Segments] /\ overruns \in [Sources -> Nat] /\ met \in SUBSET Sources
  BY DEF Init
<1> QED
  BY <1>1, <1>4, <1>5, <1>6, <1>7 DEF AudioTyped, StateTyped

\* Whatever holds to begin with and stays so.
LEMMA AudioIsTyped == Spec => [](AudioTyped /\ StateTyped)
<1>1. Init => AudioTyped /\ StateTyped
  BY SessionIsNew
<1>2. AudioTyped /\ StateTyped /\ [Next]_vars => (AudioTyped /\ StateTyped)'
  BY EveryStepIsAudioStep, StateStaysTyped, AudioStaysTyped
<1> QED
  BY <1>1, <1>2, PTL DEF Spec

\* A second drain begins beside one at work only once a lock has expired under one at
\* work, however often workers die or slow drains delete the lock of another: at most
\* as many are at work together as locks have expired under one, and one more
\* (drain_local_session_audio, finalize_local_session).
THEOREM TailHasOneOwner == Spec => []OneDrainOwnsTheTail
<1>1. Init => \A s \in Sources : CrewOK(s)
  <2> SUFFICES ASSUME Init, NEW s \in Sources PROVE CrewOK(s)
    OBVIOUS
  <2>1. Crew(s) = {}
    BY SessionIsNew DEF Crew, AtWork, Draining
  <2>2. IsFiniteSet(Crew(s)) /\ Cardinality(Crew(s)) = 0
    BY <2>1, FS_EmptySet
  <2>3. overruns[s] = 0 /\ lock[s] = FALSE /\ s \notin met
    BY DEF Init
  <2> QED
    BY <2>2, <2>3 DEF CrewOK
<1>2. AudioTyped /\ StateTyped /\ (\A s \in Sources : CrewOK(s)) /\ [Next]_vars => (\A s \in Sources : CrewOK(s))'
  BY EveryStepIsAudioStep, CrewStays
<1>3. AudioTyped /\ (\A s \in Sources : CrewOK(s)) => OneDrainOwnsTheTail
  <2> SUFFICES ASSUME AudioTyped, NEW s \in Sources, CrewOK(s)
               PROVE  Cardinality(Crew(s)) <= 1 + overruns[s] /\ (s \in met => overruns[s] > 0)
    BY DEF OneDrainOwnsTheTail, Crew
  <2>1. Cardinality(Crew(s)) \in Nat /\ overruns[s] \in Nat
    BY FS_CardinalityType DEF CrewOK, AudioTyped
  <2> QED
    BY <2>1 DEF CrewOK
<1> QED
  BY AudioIsTyped, <1>1, <1>2, <1>3, PTL DEF Spec

-----------------------------------------------------------------------------
(* A row is sent once.                                                      *)

InHands(w) == job[w].members \cup job[w].new

\* What a drain that is alone has in hand is not sent, and where it is besides.
DrainRowsUnsent(w) ==
    /\ \A id \in InHands(w) : sent[id] = 0
    /\ job[w].pc = "gathering" => group[job[w].source] \subseteq job[w].members
    /\ job[w].pc = "dispatching" => group[job[w].source] = {}
    /\ job[w].pc \in {"keeping", "unlocking"} => job[w].members \subseteq group[job[w].source]

\* The rows of a drain.
DrainRowsOK(w) ==
    job[w] \in Drains =>
       /\ \A id \in InHands(w) : id[1] = job[w].source /\ Exists(id)
       /\ job[w].new # {} => job[w].pc \in {"marking", "saving"}
       /\ job[w].pc \in {"taking", "looking"} => job[w].members = {}
       /\ job[w].source \notin met => DrainRowsUnsent(w)

GroupRowsOK(s) == \A id \in group[s] : id[1] = s /\ Exists(id) /\ (s \notin met => sent[id] = 0)

SentOK == \A id \in Ids : (id[1] \notin met => sent[id] <= 1) /\ (sent[id] > 0 => Exists(id))

InDrain(id) == \E w \in Workers : job[w] \in Drains /\ id \in InHands(w)
RowsKept == crashes = 0 /\ ~raised =>
               \A id \in Ids : id[1] \notin met /\ Exists(id) =>
                  id \in group[id[1]] \/ InDrain(id) \/ sent[id] > 0

GroupOK == (\A w \in Workers : DrainRowsOK(w)) /\ (\A s \in Sources : GroupRowsOK(s)) /\ SentOK /\ RowsKept

\* A drain of s that takes a step leaves the rows of the other drains alone.
LEMMA OthersKeepRows ==
    ASSUME AudioTyped, OneAtWork, GroupOK, NEW w \in Workers, NEW s \in Sources, AtWork(w, s),
           \A v \in Workers \ {w} : job'[v] = job[v],
           \A t \in Sources \ {s} : group'[t] = group[t], met' = met,
           \A id \in Ids : Exists(id) => Exists(id)',
           \A id \in Ids : id[1] # s => sent'[id] = sent[id]
    PROVE  /\ \A v \in Workers \ {w} : DrainRowsOK(v)'
           /\ \A t \in Sources \ {s} : GroupRowsOK(t)'
<1>1. ASSUME NEW v \in Workers \ {w}, job[v] \in Drains PROVE DrainRowsOK(v)'
  <2>1. job[v].source \in Sources /\ job[v].members \in SUBSET Ids /\ job[v].new \in SUBSET Ids
    BY <1>1, StepsTell DEF AudioTyped
  <2>2. job'[v] = job[v] /\ DrainRowsOK(v)
    BY DEF GroupOK
  <2>3. \A id \in InHands(v) : id \in Ids /\ id[1] = job[v].source /\ Exists(id)'
    BY <1>1, <2>1, <2>2 DEF DrainRowsOK, InHands
  <2>4. InHands(v)' = InHands(v)
    BY <2>2 DEF InHands
  <2>5. CASE job[v].source \in met
    BY <2>2, <2>3, <2>4, <2>5 DEF DrainRowsOK
  <2>6. CASE job[v].source \notin met /\ job[v].source = s
    <3>1. job[v].pc = "looking"
      BY <1>1, <2>6 DEF OneAtWork, AtWork, Draining
    <3>2. job[v].members = {} /\ job[v].new = {}
      BY <1>1, <2>2, <3>1 DEF DrainRowsOK
    <3> QED
      BY <2>2, <3>1, <3>2 DEF DrainRowsOK, DrainRowsUnsent, InHands
  <2>7. CASE job[v].source \notin met /\ job[v].source # s
    <3>1. group'[job[v].source] = group[job[v].source]
      BY <2>1, <2>7
    <3>2. \A id \in InHands(v) : sent'[id] = 0
      BY <1>1, <2>2, <2>3, <2>7 DEF DrainRowsOK, DrainRowsUnsent
    <3>3. DrainRowsUnsent(v)'
      BY <1>1, <2>2, <2>4, <2>7, <3>1, <3>2 DEF DrainRowsOK, DrainRowsUnsent
    <3> QED
      BY <2>2, <2>3, <2>4, <3>3 DEF DrainRowsOK
  <2> QED
    BY <2>5, <2>6, <2>7
<1>2. ASSUME NEW v \in Workers \ {w}, job[v] \notin Drains PROVE DrainRowsOK(v)'
  BY <1>2 DEF DrainRowsOK, DrainRowsUnsent
<1>3. ASSUME NEW t \in Sources \ {s} PROVE GroupRowsOK(t)'
  <2>1. group'[t] = group[t] /\ GroupRowsOK(t) /\ group[t] \in SUBSET Ids
    BY DEF GroupOK, AudioTyped
  <2> QED
    BY <2>1 DEF GroupRowsOK
<1> QED
  BY <1>1, <1>2, <1>3

\* A step of a drain loses no row if it passes on what it had, and what the group had.
LEMMA RowsPassedOn ==
    ASSUME AudioTyped, AudioTyped', GroupOK, NEW w \in Workers, NEW s \in Sources, job[w] \in Drains, job[w].source = s,
           crashes' = crashes, raised' = raised, met' = met,
           \A v \in Workers \ {w} : job'[v] = job[v],
           \A t \in Sources \ {s} : group'[t] = group[t],
           \A id \in Ids : Exists(id)' => Exists(id) \/ (job'[w] \in Drains /\ id \in InHands(w)'),
           \A id \in Ids : sent'[id] >= sent[id],
           s \notin met => \A id \in Ids : id \in InHands(w) \cup group[s] =>
               (id \in group'[s] /\ id[1] = s) \/ (job'[w] \in Drains /\ id \in InHands(w)') \/ sent'[id] > 0
    PROVE  RowsKept'
<1> SUFFICES ASSUME crashes = 0, ~raised, NEW id \in Ids, id[1] \notin met, Exists(id)'
             PROVE  id \in group'[id[1]] \/ InDrain(id)' \/ sent'[id] > 0
  BY DEF RowsKept
<1>1. job'[w] \in Drains /\ id \in InHands(w)' => InDrain(id)'
  BY DEF InDrain
<1>2. CASE ~Exists(id)
  BY <1>1, <1>2
<1>3. CASE Exists(id) /\ sent[id] > 0
  <2>1. sent[id] \in Nat /\ sent'[id] \in Nat /\ sent'[id] >= sent[id]
    BY DEF AudioTyped
  <2> QED
    BY <1>3, <2>1
<1>4. CASE Exists(id) /\ id \in group[id[1]]
  <2>1. id[1] \in Sources
    BY DEF Ids
  <2>2. CASE id[1] = s
    BY <1>1, <1>4, <2>2
  <2> QED
    BY <1>4, <2>1, <2>2
<1>5. CASE Exists(id) /\ InDrain(id)
  <2>1. PICK v \in Workers : job[v] \in Drains /\ id \in InHands(v)
    BY <1>5 DEF InDrain
  <2>2. CASE v = w
    <3>1. id[1] = s
      BY <2>1, <2>2 DEF GroupOK, DrainRowsOK
    <3> QED
      BY <1>1, <2>1, <2>2, <3>1
  <2>3. CASE v # w
    <3>1. job'[v] = job[v]
      BY <2>3
    <3> QED
      BY <2>1, <3>1 DEF InDrain, InHands
  <2> QED
    BY <2>2, <2>3
<1> QED
  BY <1>2, <1>3, <1>4, <1>5 DEF GroupOK, RowsKept

LEMMA GroupStays ==
    ASSUME AudioTyped, AudioTyped', AudioStep, OneAtWork, GroupOK
    PROVE  GroupOK'
<1>1. ASSUME UNCHANGED <<group, rows, sent, crashes, raised, job, met>> PROVE GroupOK'
  <2>1. \A w \in Workers : DrainRowsOK(w)'
    BY <1>1 DEF GroupOK, DrainRowsOK, DrainRowsUnsent, InHands, Exists
  <2>2. \A s \in Sources : GroupRowsOK(s)'
    BY <1>1 DEF GroupOK, GroupRowsOK, Exists
  <2>3. SentOK'
    BY <1>1 DEF GroupOK, SentOK, Exists
  <2>4. RowsKept'
    BY <1>1 DEF GroupOK, RowsKept, Exists, InDrain, InHands
  <2> QED
    BY <2>1, <2>2, <2>3, <2>4 DEF GroupOK
<1>2. CASE Elsewhere
  BY <1>1, <1>2 DEF Elsewhere
<1>3. ASSUME NEW s \in Sources, Expires(s) PROVE GroupOK'
  BY <1>1, <1>3 DEF Expires
\* Nothing is done to a row, and the job of w has none.
<1>4. ASSUME NEW w \in Workers, UNCHANGED <<group, rows, sent>>, met \subseteq met', \A v \in Workers \ {w} : job'[v] = job[v],
             DrainRowsOK(w)',
             \/ crashes' # 0 \/ raised'
             \/ crashes' = crashes /\ raised' = raised /\ (job[w] \in Drains => InHands(w) = {})
      PROVE  GroupOK'
  <2>1. \A v \in Workers \ {w} : DrainRowsOK(v)'
    BY <1>4 DEF GroupOK, DrainRowsOK, DrainRowsUnsent, InHands, Exists
  <2>2. \A s \in Sources : GroupRowsOK(s)'
    BY <1>4 DEF GroupOK, GroupRowsOK, Exists
  <2>3. SentOK'
    BY <1>4 DEF GroupOK, SentOK, Exists
  <2>4. RowsKept'
    <3>1. CASE crashes' # 0 \/ raised'
      BY <3>1 DEF RowsKept
    <3>2. CASE crashes' = crashes /\ raised' = raised /\ (job[w] \in Drains => InHands(w) = {})
      <4> SUFFICES ASSUME NEW id \in Ids, InDrain(id) PROVE InDrain(id)'
        BY <1>4, <3>2 DEF GroupOK, RowsKept, Exists
      <4>1. PICK v \in Workers : job[v] \in Drains /\ id \in InHands(v)
        BY DEF InDrain
      <4>2. job'[v] = job[v]
        BY <1>4, <3>2, <4>1
      <4> QED
        BY <4>1, <4>2 DEF InDrain, InHands
    <3> QED
      BY <1>4, <3>1, <3>2
  <2>5. \A v \in Workers : DrainRowsOK(v)'
    BY <1>4, <2>1
  <2> QED
    BY <2>2, <2>3, <2>4, <2>5 DEF GroupOK
<1>5. ASSUME NEW w \in Workers, NEW s \in Sources, Begins(w, s) PROVE GroupOK'
  <2>1. /\ job[w] \notin Drains /\ job'[w].pc = "taking" /\ job'[w].members = {} /\ job'[w].new = {}
        /\ \A v \in Workers \ {w} : job'[v] = job[v]
    BY <1>5, BeginsBecomes
  <2>2. DrainRowsOK(w)'
    BY <2>1 DEF DrainRowsOK, DrainRowsUnsent, InHands
  <2> QED
    BY <1>4, <1>5, <2>1, <2>2 DEF Begins
<1>6. ASSUME NEW w \in Workers, Waits(w) \/ Dies(w) \/ Raises(w) PROVE GroupOK'
  <2>1. job'[w] \notin Drains /\ \A v \in Workers \ {w} : job'[v] = job[v]
    BY <1>6, LeavingIsDone
  <2>2. DrainRowsOK(w)'
    BY <2>1 DEF DrainRowsOK, DrainRowsUnsent
  <2>3. UNCHANGED <<group, rows, sent>> /\ met \subseteq met'
    BY <1>6 DEF Waits, Dies, Raises
  <2>4. CASE Waits(w)
    <3>1. job[w] \in Drains => InHands(w) = {}
      BY <2>4 DEF Waits, GroupOK, DrainRowsOK, DrainRowsUnsent, InHands
    <3> QED
      BY <1>4, <2>1, <2>2, <2>3, <2>4, <3>1 DEF Waits
  <2>5. CASE Dies(w)
    <3>1. crashes' # 0
      BY <2>5 DEF Dies, AudioTyped
    <3> QED
      BY <1>4, <2>1, <2>2, <2>3, <3>1
  <2>6. CASE Raises(w)
    BY <1>4, <2>1, <2>2, <2>3, <2>6 DEF Raises
  <2> QED
    BY <1>6, <2>4, <2>5, <2>6
\* The drain of w takes a step with its rows.
<1>7. ASSUME NEW w \in Workers, NEW s \in Sources, job[w] \in Drains, job[w].source = s, job[w].pc # "looking",
             crashes' = crashes, raised' = raised, met' = met,
             \A v \in Workers \ {w} : job'[v] = job[v],
             \A t \in Sources \ {s} : group'[t] = group[t],
             \A id \in Ids : Exists(id) => Exists(id)',
             \A id \in Ids : id[1] # s => sent'[id] = sent[id],
             DrainRowsOK(w)', GroupRowsOK(s)', SentOK',
             \A id \in Ids : Exists(id)' => Exists(id) \/ (job'[w] \in Drains /\ id \in InHands(w)'),
             \A id \in Ids : sent'[id] >= sent[id],
             s \notin met => \A id \in Ids : id \in InHands(w) \cup group[s] =>
               (id \in group'[s] /\ id[1] = s) \/ (job'[w] \in Drains /\ id \in InHands(w)') \/ sent'[id] > 0
      PROVE  GroupOK'
  <2>1. AtWork(w, s)
    BY <1>7 DEF AtWork, Draining
  <2>2. /\ \A v \in Workers \ {w} : DrainRowsOK(v)'
        /\ \A t \in Sources \ {s} : GroupRowsOK(t)'
    BY <1>7, <2>1, OthersKeepRows
  <2>3. RowsKept'
    BY <1>7, RowsPassedOn
  <2> QED
    BY <1>7, <2>2, <2>3 DEF GroupOK
\* The drain of w takes a step that touches no row.
<1>8. ASSUME NEW w \in Workers, NEW s \in Sources, job[w] \in Drains, job[w].source = s, job[w].pc # "looking",
             UNCHANGED <<group, rows, sent, crashes, raised, met>>,
             \A v \in Workers \ {w} : job'[v] = job[v],
             DrainRowsOK(w)',
             s \notin met => \A id \in InHands(w) : id \in group[s] \/ (job'[w] \in Drains /\ id \in InHands(w)')
      PROVE  GroupOK'
  <2>1. \A id \in Ids : Exists(id)' <=> Exists(id)
    BY <1>8 DEF Exists
  <2>2. GroupRowsOK(s)'
    BY <1>8 DEF GroupOK, GroupRowsOK, Exists
  <2>3. SentOK'
    BY <1>8 DEF GroupOK, SentOK, Exists
  <2>4. \A id \in group[s] : id[1] = s
    BY DEF GroupOK, GroupRowsOK
  <2>5. \A id \in Ids : sent[id] \in Nat
    BY DEF AudioTyped
  <2>6. s \notin met => \A id \in Ids : id \in InHands(w) \cup group[s] =>
               (id \in group'[s] /\ id[1] = s) \/ (job'[w] \in Drains /\ id \in InHands(w)') \/ sent'[id] > 0
    BY <1>8, <2>4
  <2> QED
    BY <1>7, <1>8, <2>1, <2>2, <2>3, <2>5, <2>6
\* The source of a drain.
<1>9. ASSUME NEW w \in Workers, job[w] \in Drains
      PROVE  /\ job[w].source \in Sources /\ DrainRowsOK(w) /\ GroupRowsOK(job[w].source)
             /\ job[w].members \in SUBSET Ids /\ job[w].new \in SUBSET Ids
             /\ group[job[w].source] \in SUBSET Ids /\ Source(w) = job[w].source
  <2>1. job[w].source \in Sources /\ job[w].members \in SUBSET Ids /\ job[w].new \in SUBSET Ids
    BY <1>9, StepsTell DEF AudioTyped
  <2> QED
    BY <2>1 DEF GroupOK, AudioTyped, Source
<1>10. ASSUME NEW w \in Workers, NEW pc, NEW a, NEW l, NEW m, NEW n, Becomes(w, pc, a, l, m, n)
       PROVE  /\ job[w] \in Drains /\ job'[w] \in Drains /\ job'[w].source = job[w].source
              /\ job'[w].pc = pc /\ job'[w].members = m /\ job'[w].new = n /\ InHands(w)' = m \cup n
              /\ \A v \in Workers \ {w} : job'[v] = job[v]
  BY <1>10 DEF Becomes, Goes, InHands
<1>11. ASSUME NEW w \in Workers, Marks(w) PROVE GroupOK'
  <2>1. UNCHANGED <<group, rows, sent, crashes, raised, met>>
    BY <1>11 DEF Marks
  <2>2. job[w].pc \in {"marking", "saving"}
    BY <1>11, MarksBecomes
  <2>3. CASE Becomes(w, "saving", job[w].audio, job[w].last, job[w].members, job[w].new)
    <3>1. /\ job[w] \in Drains /\ job'[w] \in Drains /\ job'[w].source = job[w].source
          /\ job'[w].pc = "saving" /\ InHands(w)' = InHands(w) /\ \A v \in Workers \ {w} : job'[v] = job[v]
      BY <1>10, <2>3 DEF InHands
    <3>2. DrainRowsOK(w)'
      BY <1>9, <2>1, <3>1 DEF DrainRowsOK, DrainRowsUnsent, Exists
    <3> QED
      BY <1>8, <1>9, <2>1, <2>2, <3>1, <3>2
  <2>4. CASE Becomes(w, "cutting", job[w].audio, job[w].last, job[w].members \cup job[w].new, {})
    <3>1. /\ job[w] \in Drains /\ job'[w] \in Drains /\ job'[w].source = job[w].source
          /\ job'[w].pc = "cutting" /\ InHands(w)' = InHands(w) /\ \A v \in Workers \ {w} : job'[v] = job[v]
          /\ job'[w].new = {}
      BY <1>10, <2>4 DEF InHands
    <3>2. DrainRowsOK(w)'
      BY <1>9, <2>1, <3>1 DEF DrainRowsOK, DrainRowsUnsent, Exists
    <3> QED
      BY <1>8, <1>9, <2>1, <2>2, <3>1, <3>2
  <2> QED
    BY <1>11, <2>3, <2>4, MarksBecomes
<1>12. ASSUME NEW w \in Workers, TakesAudio(w) PROVE GroupOK'
  <2>1. UNCHANGED <<group, rows, sent, crashes, raised, met>> /\ job[w].pc = "taking"
    BY <1>12, TakesBecomes DEF TakesAudio
  <2>2. \E pc \in {"unlocking", "cutting"} : \E a, l : Becomes(w, pc, a, l, job[w].members, job[w].new)
    BY <1>12, TakesBecomes, Zenon
  <2>3. PICK pc \in {"unlocking", "cutting"} : \E a, l : Becomes(w, pc, a, l, job[w].members, job[w].new)
    BY <2>2
  <2> PICK a, l : Becomes(w, pc, a, l, job[w].members, job[w].new)
    BY <2>3
  <2>4. /\ job[w] \in Drains /\ job'[w] \in Drains /\ job'[w].source = job[w].source
        /\ job'[w].pc = pc /\ InHands(w)' = InHands(w) /\ \A v \in Workers \ {w} : job'[v] = job[v]
        /\ job'[w].new = job[w].new /\ job'[w].members = job[w].members
    BY <1>10, <2>3 DEF InHands
  <2>5. job[w].members = {} /\ job[w].new = {}
    BY <1>9, <2>1, <2>4 DEF DrainRowsOK, DrainRowsUnsent
  <2>6. DrainRowsOK(w)'
    BY <2>4, <2>5 DEF DrainRowsOK, DrainRowsUnsent, InHands
  <2> QED
    BY <1>8, <1>9, <2>1, <2>4, <2>6
<1>13. ASSUME NEW w \in Workers, KeepsTail(w) PROVE GroupOK'
  <2>1. UNCHANGED <<group, rows, sent, crashes, raised, met>> /\ job[w].pc = "keeping"
    BY <1>13, KeepsBecomes DEF KeepsTail
  <2>2. /\ job[w] \in Drains /\ job'[w] \in Drains /\ job'[w].source = job[w].source
        /\ job'[w].pc = "unlocking" /\ InHands(w)' = InHands(w) /\ \A v \in Workers \ {w} : job'[v] = job[v]
        /\ job'[w].new = job[w].new /\ job'[w].members = job[w].members
    BY <1>10, <1>13, KeepsBecomes DEF InHands
  <2>3. DrainRowsOK(w)'
    BY <1>9, <2>1, <2>2 DEF DrainRowsOK, DrainRowsUnsent, Exists
  <2> QED
    BY <1>8, <1>9, <2>1, <2>2, <2>3
<1>14. ASSUME NEW w \in Workers, Unlocks(w) PROVE GroupOK'
  <2>1. /\ UNCHANGED <<group, rows, sent, crashes, raised, met>> /\ job[w].pc = "unlocking" /\ job[w] \in Drains
        /\ \A v \in Workers \ {w} : job'[v] = job[v]
    BY <1>14, UnlocksBecomes DEF Unlocks
  <2>2. job[w].new = {} /\ (job[w].source \notin met => InHands(w) \subseteq group[job[w].source])
    BY <1>9, <2>1 DEF DrainRowsOK, DrainRowsUnsent, InHands
  <2>3. CASE job'[w] \notin Drains
    <3>1. DrainRowsOK(w)'
      BY <2>3 DEF DrainRowsOK, DrainRowsUnsent
    <3> QED
      BY <1>8, <1>9, <2>1, <2>2, <3>1
  <2>4. CASE Becomes(w, "looking", <<>>, job[w].last, {}, job[w].new)
    <3>1. DrainRowsOK(w)'
      BY <1>10, <2>2, <2>4 DEF DrainRowsOK, DrainRowsUnsent, InHands
    <3> QED
      BY <1>8, <1>9, <2>1, <2>2, <3>1
  <2> QED
    BY <1>14, <2>3, <2>4, UnlocksBecomes
<1>15. ASSUME NEW w \in Workers, CutsRow(w) PROVE GroupOK'
  <2> DEFINE end == Min(Ends(w))
  <2> DEFINE id == <<Source(w), job[w].audio[1]>>
  <2> DEFINE rest == SubSeq(job[w].audio, end + 1, Len(job[w].audio))
  <2>1. /\ UNCHANGED <<group, sent, crashes, raised, met>> /\ job[w].pc = "cutting"
        /\ id \in Ids /\ end \in 1 .. Len(job[w].audio)
    BY <1>15, CutsBecomes DEF CutsRow
  <2>2. \/ /\ Exists(id) /\ rows' = rows
           /\ Becomes(w, "cutting", rest, job[w].last, job[w].members, job[w].new)
        \/ /\ ~Exists(id) /\ rows' = [rows EXCEPT ![id] = ToSet(SubSeq(job[w].audio, 1, end))]
           /\ Becomes(w, "marking", rest, job[w].last, job[w].members, {id})
    BY <1>15, CutsBecomes
  <2>3. job[w] \in Drains
    BY <2>2 DEF Becomes
  <2>4. job[w].audio \in Seq(Segments) /\ id[1] = job[w].source
    BY <2>3, StepsTell DEF AudioTyped, Source
  <2>5. ToSet(SubSeq(job[w].audio, 1, end)) # {}
    <3>1. SubSeq(job[w].audio, 1, end)[1] = job[w].audio[1] /\ 1 \in DOMAIN SubSeq(job[w].audio, 1, end)
      BY <2>1, <2>4
    <3> QED
      BY <3>1 DEF ToSet
  <2>6. DrainRowsOK(w) /\ job[w].new = {} /\ job[w].members \in SUBSET Ids
    BY <1>9, <2>1, <2>3 DEF DrainRowsOK, DrainRowsUnsent
  <2>9. PICK s \in Sources : s = job[w].source
    BY <1>9, <2>3
  <2> HIDE DEF id, rest, end
  <2>7. CASE Exists(id) /\ rows' = rows /\ Becomes(w, "cutting", rest, job[w].last, job[w].members, job[w].new)
    <3>1. /\ job'[w] \in Drains /\ job'[w].source = job[w].source
          /\ job'[w].pc = "cutting" /\ InHands(w)' = InHands(w) /\ \A v \in Workers \ {w} : job'[v] = job[v]
          /\ job'[w].new = job[w].new /\ job'[w].members = job[w].members
      BY <1>10, <2>7 DEF InHands
    <3>2. DrainRowsOK(w)'
      BY <2>1, <2>3, <2>6, <2>7, <3>1 DEF DrainRowsOK, DrainRowsUnsent, Exists
    <3> QED
      BY <1>8, <1>9, <2>1, <2>3, <2>7, <3>1, <3>2
  <2>8. CASE /\ ~Exists(id) /\ rows' = [rows EXCEPT ![id] = ToSet(SubSeq(job[w].audio, 1, end))]
             /\ Becomes(w, "marking", rest, job[w].last, job[w].members, {id})
    <3>1. /\ job'[w] \in Drains /\ job'[w].source = job[w].source
          /\ job'[w].pc = "marking" /\ InHands(w)' = job[w].members \cup {id} /\ \A v \in Workers \ {w} : job'[v] = job[v]
          /\ job'[w].new = {id} /\ job'[w].members = job[w].members
      BY <1>10, <2>8
    <3>2. \A x \in Ids : Exists(x)' <=> Exists(x) \/ x = id
      BY <2>1, <2>5, <2>8 DEF Exists, AudioTyped
    <3>3. sent[id] = 0
      BY <2>1, <2>8 DEF GroupOK, SentOK, AudioTyped
    <3>4. \A x \in job[w].members : x[1] = job[w].source /\ Exists(x) /\ (job[w].source \notin met => sent[x] = 0)
      BY <2>3, <2>6 DEF DrainRowsOK, DrainRowsUnsent, InHands
    <3>5. DrainRowsOK(w)'
      BY <2>1, <2>4, <2>6, <3>1, <3>2, <3>3, <3>4 DEF DrainRowsOK, DrainRowsUnsent
    <3>6. GroupRowsOK(s)'
      BY <1>9, <2>1, <2>3, <2>9, <3>2 DEF GroupRowsOK, AudioTyped
    <3>7. SentOK'
      BY <2>1, <3>2 DEF GroupOK, SentOK
    <3>8. \A x \in Ids : sent[x] \in Nat
      BY DEF AudioTyped
    <3>9. \A x \in Ids : x \in InHands(w) \cup group[job[w].source] =>
               (x \in group'[job[w].source] /\ x[1] = job[w].source) \/ (job'[w] \in Drains /\ x \in InHands(w)')
      BY <1>9, <2>1, <2>3, <2>6, <3>1 DEF GroupRowsOK, InHands
    <3> QED
      BY <1>7, <1>9, <2>1, <2>3, <2>9, <3>1, <3>2, <3>5, <3>6, <3>7, <3>8, <3>9
  <2> QED
    BY <2>2, <2>7, <2>8
<1>16. ASSUME NEW w \in Workers, SettlesGroup(w) PROVE GroupOK'
  <2>9. job[w] \in Drains
    BY <1>16, SettlesBecomes, Zenon DEF Becomes
  <2>10. PICK s \in Sources : s = job[w].source
    BY <1>9, <2>9
  <2>0. UNCHANGED <<rows, crashes, raised, met>>
    BY <1>16, SettlesBecomes
  <2>1. \A x \in Ids : Exists(x)' <=> Exists(x)
    BY <2>0 DEF Exists
  <2>2. \A x \in Ids : sent[x] \in Nat
    BY DEF AudioTyped
  <2>3. CASE /\ Ends(w) = {} /\ UNCHANGED <<group, sent>> /\ job[w].pc = "cutting"
             /\ Becomes(w, "gathering", job[w].audio, job[w].last, job[w].members \cup group[Source(w)], job[w].new)
    <3>1. /\ job[w] \in Drains /\ job'[w] \in Drains /\ job'[w].source = s /\ job'[w].pc = "gathering"
          /\ job'[w].new = job[w].new /\ job'[w].members = job[w].members \cup group[Source(w)]
          /\ InHands(w)' = job[w].members \cup group[Source(w)] \cup job[w].new /\ \A v \in Workers \ {w} : job'[v] = job[v]
      BY <1>10, <2>3, <2>10
    <3>2. job[w].new = {} /\ Source(w) = s
      BY <1>9, <2>10, <2>3, <3>1 DEF DrainRowsOK, DrainRowsUnsent
    <3>3. DrainRowsOK(w)'
      <4>1. \A x \in job[w].members \cup group[s] : x \in Ids /\ x[1] = s /\ Exists(x) /\ (s \notin met => sent[x] = 0)
        BY <1>9, <2>10, <3>1 DEF DrainRowsOK, DrainRowsUnsent, GroupRowsOK, InHands
      <4> QED
        BY <2>0, <2>1, <2>3, <3>1, <3>2, <4>1 DEF DrainRowsOK, DrainRowsUnsent
    <3> QED
      BY <1>8, <1>9, <2>10, <2>0, <2>3, <3>1, <3>3 DEF InHands
  <2>4. CASE /\ group' = [group EXCEPT ![Source(w)] = job[w].members] /\ UNCHANGED sent /\ job[w].pc = "gathering"
             /\ Becomes(w, "keeping", job[w].audio, job[w].last, job[w].members, job[w].new)
    <3>1. /\ job[w] \in Drains /\ job'[w] \in Drains /\ job'[w].source = s /\ job'[w].pc = "keeping"
          /\ job'[w].new = job[w].new /\ job'[w].members = job[w].members
          /\ InHands(w)' = InHands(w) /\ \A v \in Workers \ {w} : job'[v] = job[v]
      BY <1>10, <2>4, <2>10 DEF InHands
    <3>2. /\ job[w].new = {} /\ Source(w) = s /\ InHands(w) = job[w].members
          /\ s \notin met => group[s] \subseteq job[w].members
      BY <1>9, <2>10, <2>4, <3>1 DEF DrainRowsOK, DrainRowsUnsent, InHands
    <3>3. group'[s] = job[w].members /\ \A t \in Sources \ {s} : group'[t] = group[t]
      BY <1>9, <2>10, <2>4, <3>1, <3>2 DEF AudioTyped
    <3>4. \A x \in job[w].members : x[1] = s /\ Exists(x) /\ (s \notin met => sent[x] = 0) /\ x \in Ids
      BY <1>9, <2>10, <3>1, <3>2 DEF DrainRowsOK, DrainRowsUnsent
    <3>5. DrainRowsOK(w)'
      BY <2>0, <2>1, <2>4, <3>1, <3>2, <3>3, <3>4 DEF DrainRowsOK, DrainRowsUnsent
    <3>6. GroupRowsOK(s)'
      BY <2>0, <2>1, <2>4, <3>3, <3>4 DEF GroupRowsOK
    <3>7. SentOK'
      BY <2>0, <2>1, <2>4 DEF GroupOK, SentOK
    <3>8. s \notin met => \A x \in Ids : x \in InHands(w) \cup group[s] => x \in group'[s] /\ x[1] = s
      BY <3>2, <3>3, <3>4
    <3> QED
      BY <1>7, <1>9, <2>10, <2>0, <2>1, <2>2, <2>4, <3>1, <3>3, <3>5, <3>6, <3>7, <3>8
  <2>5. CASE /\ group' = [group EXCEPT ![Source(w)] = {}] /\ UNCHANGED sent /\ job[w].pc = "gathering"
             /\ Becomes(w, "dispatching", job[w].audio, job[w].last, job[w].members, job[w].new)
    <3>1. /\ job[w] \in Drains /\ job'[w] \in Drains /\ job'[w].source = s /\ job'[w].pc = "dispatching"
          /\ job'[w].new = job[w].new /\ job'[w].members = job[w].members
          /\ InHands(w)' = InHands(w) /\ \A v \in Workers \ {w} : job'[v] = job[v]
      BY <1>10, <2>5, <2>10 DEF InHands
    <3>2. /\ job[w].new = {} /\ Source(w) = s /\ InHands(w) = job[w].members
          /\ s \notin met => group[s] \subseteq job[w].members
      BY <1>9, <2>10, <2>5, <3>1 DEF DrainRowsOK, DrainRowsUnsent, InHands
    <3>3. group'[s] = {} /\ \A t \in Sources \ {s} : group'[t] = group[t]
      BY <1>9, <2>10, <2>5, <3>1, <3>2 DEF AudioTyped
    <3>4. \A x \in job[w].members : x[1] = s /\ Exists(x) /\ (s \notin met => sent[x] = 0) /\ x \in Ids
      BY <1>9, <2>10, <3>1, <3>2 DEF DrainRowsOK, DrainRowsUnsent
    <3>5. DrainRowsOK(w)'
      BY <2>0, <2>1, <2>5, <3>1, <3>2, <3>3, <3>4 DEF DrainRowsOK, DrainRowsUnsent
    <3>6. GroupRowsOK(s)'
      BY <3>3 DEF GroupRowsOK
    <3>7. SentOK'
      BY <2>0, <2>1, <2>5 DEF GroupOK, SentOK
    <3>8. s \notin met => \A x \in Ids : x \in InHands(w) \cup group[s] => x \in InHands(w)'
      BY <3>1, <3>2
    <3> QED
      BY <1>7, <1>9, <2>10, <2>0, <2>1, <2>2, <2>5, <3>1, <3>3, <3>5, <3>6, <3>7, <3>8
  <2>6. CASE /\ sent' = [id \in Ids |-> IF id \in job[w].members THEN sent[id] + 1 ELSE sent[id]]
             /\ UNCHANGED group /\ job[w].pc = "dispatching"
             /\ Becomes(w, "keeping", job[w].audio, job[w].last, {}, job[w].new)
    <3>1. /\ job[w] \in Drains /\ job'[w] \in Drains /\ job'[w].source = s /\ job'[w].pc = "keeping"
          /\ job'[w].new = job[w].new /\ job'[w].members = {} /\ InHands(w)' = job[w].new
          /\ \A v \in Workers \ {w} : job'[v] = job[v]
      <4>3. InHands(w)' = job[w].new
        BY <2>6 DEF Becomes, Goes, InHands
      <4> QED
        BY <1>10, <2>6, <2>10, <4>3
    <3>2. job[w].new = {} /\ (s \notin met => group[s] = {}) /\ InHands(w) = job[w].members
      BY <1>9, <2>10, <2>6, <3>1 DEF DrainRowsOK, DrainRowsUnsent, InHands
    <3>3. \A x \in job[w].members : x[1] = s /\ Exists(x) /\ (s \notin met => sent[x] = 0) /\ x \in Ids
      BY <1>9, <2>10, <3>1, <3>2 DEF DrainRowsOK, DrainRowsUnsent
    <3>4. /\ \A x \in Ids : sent'[x] = IF x \in job[w].members THEN sent[x] + 1 ELSE sent[x]
          /\ s \notin met => \A x \in Ids : x \in job[w].members => sent'[x] = 1
      BY <2>6, <3>3
    <3>5. DrainRowsOK(w)'
      BY <3>1, <3>2 DEF DrainRowsOK, DrainRowsUnsent
    <3>6. GroupRowsOK(s)'
      BY <1>9, <2>0, <2>1, <2>6, <2>10, <3>1, <3>2 DEF GroupRowsOK
    <3>7. SentOK'
      <4>1. \A x \in Ids : x[1] \notin met => sent'[x] <= 1
        BY <3>3, <3>4 DEF GroupOK, SentOK
      <4>2. \A x \in Ids : sent'[x] > 0 => Exists(x)
        BY <2>2, <3>3, <3>4 DEF GroupOK, SentOK
      <4> QED
        BY <2>0, <2>1, <4>1, <4>2 DEF SentOK
    <3>8. /\ \A x \in Ids : sent'[x] >= sent[x] /\ (x[1] # s => sent'[x] = sent[x])
          /\ s \notin met => \A x \in Ids : x \in InHands(w) \cup group[s] => sent'[x] > 0
      BY <2>2, <3>2, <3>3, <3>4
    <3> QED
      BY <1>7, <1>9, <2>10, <2>0, <2>1, <2>6, <3>1, <3>5, <3>6, <3>7, <3>8
  <2> QED
    BY <1>16, <2>3, <2>4, <2>5, <2>6, SettlesBecomes
<1> QED
  BY <1>2, <1>3, <1>5, <1>6, <1>11, <1>12, <1>13, <1>14, <1>15, <1>16 DEF AudioStep, HandsOn

\* At every source where no two drains have been at work at once, rows are sent once,
\* and, as long as no worker dies and no drain leaves by an exception, none is
\* forgotten: what is in a group has not been sent, what is sent has left its group,
\* and the drain that settles a group has all of it in hand (_settle_group).
THEOREM RowsAreSentOnce == Spec => []RowsSentOnce
<1>1. Init => OneAtWork /\ GroupOK
  <2> SUFFICES ASSUME Init PROVE OneAtWork /\ GroupOK
    OBVIOUS
  <2>1. \A w \in Workers : job[w] \notin Drains
    BY SessionIsNew
  <2>2. \A s \in Sources : group[s] = {}
    BY DEF Init
  <2>3. \A id \in Ids : sent[id] = 0 /\ ~Exists(id)
    BY DEF Init, Exists
  <2> QED
    BY <2>1, <2>2, <2>3 DEF OneAtWork, AtWork, Draining, GroupOK, DrainRowsOK, DrainRowsUnsent, GroupRowsOK, SentOK, RowsKept
<1>2. AudioTyped /\ StateTyped /\ OneAtWork /\ GroupOK /\ [Next]_vars => (OneAtWork /\ GroupOK)'
  <2> SUFFICES ASSUME AudioTyped, StateTyped, OneAtWork, GroupOK, [Next]_vars PROVE OneAtWork' /\ GroupOK'
    OBVIOUS
  <2>1. AudioStep /\ AudioTyped'
    BY EveryStepIsAudioStep, AudioStaysTyped
  <2> QED
    BY <2>1, OneAtWorkStays, GroupStays
<1>3. GroupOK => RowsSentOnce
  BY DEF GroupOK, SentOK, RowsKept, InDrain, InHands, RowsSentOnce, SentOnce, Kept
<1> QED
  BY AudioIsTyped, <1>1, <1>2, <1>3, PTL DEF Spec

-----------------------------------------------------------------------------
(* Speech is written down once.                                             *)

Has(q, n) == \E i \in 1 .. Len(q) : q[i] = n
Rising(q) == \A i, j \in 1 .. Len(q) : i < j => q[i] < q[j]

\* Of a source of which u segments were uploaded, those in W are in rows, a is the
\* audio that waits for a pause, l the last that was popped, and q the queue: what
\* was popped is in one of the two, and what was not is queued, the first copies in
\* their order.
Continues(q, u, W, a, l) ==
    /\ Rising(a)
    /\ \A n \in Segments : Has(a, n) => n <= l /\ n \notin W
    /\ l <= u
    /\ \A n \in W : n <= l
    /\ \A n \in Segments : n <= l => Has(a, n) \/ n \in W
    /\ \A i \in 1 .. Len(q) : q[i] <= u
    /\ \A i \in 1 .. Len(q) : \A m \in Segments : l < m /\ m < q[i] => \E k \in 1 .. i - 1 : q[k] = m
    /\ \A m \in Segments : l < m /\ m <= u => Has(q, m)

LEMMA ContinuesUploaded ==
    ASSUME NEW q \in Seq(Segments), NEW u \in 0 .. MaxSequence, NEW W \in SUBSET Segments, NEW a \in Seq(Segments),
           NEW l \in 0 .. MaxSequence, Continues(q, u, W, a, l), NEW n \in Segments, NEW v \in 0 .. MaxSequence,
           (n = u + 1 /\ v = n) \/ (n <= u /\ v = u)
    PROVE  Continues(Append(q, n), v, W, a, l)
<1> DEFINE p == Append(q, n)
<1>0. MaxSequence \in Nat
  BY BoundsAssumption DEF BoundsAssumption
<1>1. p \in Seq(Segments) /\ Len(p) = Len(q) + 1 /\ p[Len(q) + 1] = n /\ \A i \in 1 .. Len(q) : p[i] = q[i]
  OBVIOUS
<1>2. \A i \in 1 .. Len(q) : q[i] <= u /\ q[i] \in Segments
  BY DEF Continues
<1> HIDE DEF p
<1>3. \A i \in 1 .. Len(p) : p[i] <= v
  BY <1>1, <1>2 DEF Segments
<1>4. \A m \in Segments : Has(q, m) => Has(p, m)
  BY <1>1 DEF Has
<1>5. Has(p, n)
  BY <1>1 DEF Has
<1>6. \A m \in Segments : l < m /\ m <= v => Has(p, m)
  BY <1>4, <1>5, <1>0 DEF Continues, Segments
<1>7. ASSUME NEW i \in 1 .. Len(p), NEW m \in Segments, l < m, m < p[i] PROVE \E k \in 1 .. i - 1 : p[k] = m
  <2>1. CASE i \in 1 .. Len(q)
    <3>1. PICK k \in 1 .. i - 1 : q[k] = m
      BY <1>1, <1>7, <2>1 DEF Continues
    <3> QED
      BY <1>1, <2>1, <3>1
  <2>2. CASE i = Len(q) + 1
    <3>1. m <= u
      BY <1>1, <1>7, <2>2, <1>0 DEF Segments
    <3>2. Has(q, m)
      BY <1>7, <3>1 DEF Continues
    <3>3. PICK k \in 1 .. Len(q) : q[k] = m
      BY <3>2 DEF Has
    <3> QED
      BY <1>1, <2>2, <3>3
  <2> QED
    BY <1>1, <2>1, <2>2
<1>8. l <= v
  BY <1>0 DEF Continues
<1> QED
  BY <1>3, <1>6, <1>7, <1>8 DEF Continues, p

\* The first utterance of the audio becomes a row.
LEMMA ContinuesCut ==
    ASSUME NEW q \in Seq(Segments), NEW u \in 0 .. MaxSequence, NEW W \in SUBSET Segments, NEW a \in Seq(Segments),
           NEW l \in 0 .. MaxSequence, Continues(q, u, W, a, l), NEW end \in 1 .. Len(a)
    PROVE  /\ Continues(q, u, W \cup ToSet(SubSeq(a, 1, end)), SubSeq(a, end + 1, Len(a)), l)
           /\ \A n \in ToSet(SubSeq(a, 1, end)) : n \in Segments /\ n \notin W
           /\ a[1] \in ToSet(SubSeq(a, 1, end))
<1> DEFINE row == ToSet(SubSeq(a, 1, end))
<1> DEFINE rest == SubSeq(a, end + 1, Len(a))
<1>0. MaxSequence \in Nat
  BY BoundsAssumption DEF BoundsAssumption
<1>1. \A n : n \in row <=> \E i \in 1 .. end : a[i] = n
  <2>4. SubSeq(a, 1, end) \in Seq(Segments)
    OBVIOUS
  <2>1. PICK x \in Seq(Segments) : x = SubSeq(a, 1, end)
    BY <2>4
  <2>2. DOMAIN x = 1 .. end /\ \A i \in 1 .. end : x[i] = a[i]
    BY <2>1
  <2>3. row = {x[i] : i \in DOMAIN x}
    BY <2>1 DEF ToSet
  <2> QED
    BY <2>2, <2>3
<1>2. rest \in Seq(Segments) /\ Len(rest) = Len(a) - end /\ \A i \in 1 .. Len(a) - end : rest[i] = a[i + end]
  OBVIOUS
<1>3. \A i \in 1 .. Len(a) : a[i] \in Segments
  OBVIOUS
<1> HIDE DEF row, rest
<1>4. \A n \in row : n \in Segments /\ Has(a, n)
  BY <1>1, <1>3 DEF Has
<1>5. Rising(rest)
  <2> SUFFICES ASSUME NEW i \in 1 .. Len(rest), NEW j \in 1 .. Len(rest), i < j PROVE rest[i] < rest[j]
    BY DEF Rising
  <2>1. rest[i] = a[i + end] /\ rest[j] = a[j + end] /\ i + end \in 1 .. Len(a) /\ j + end \in 1 .. Len(a) /\ i + end < j + end
    BY <1>2
  <2> QED
    BY <2>1 DEF Continues, Rising
<1>6. ASSUME NEW n \in Segments, Has(rest, n) PROVE Has(a, n) /\ n \notin row
  <2>1. PICK i \in 1 .. Len(a) - end : a[i + end] = n
    BY <1>2, <1>6 DEF Has
  <2>2. Has(a, n)
    BY <2>1 DEF Has
  <2>3. \A j \in 1 .. end : a[j] < n
    BY <2>1 DEF Continues, Rising
  <2>4. \A j \in 1 .. end : a[j] # n
    BY <2>3, <1>3 DEF Segments
  <2> QED
    BY <2>2, <2>4, <1>1
<1>7. ASSUME NEW n \in Segments, Has(a, n) PROVE Has(rest, n) \/ n \in row
  <2>1. PICK i \in 1 .. Len(a) : a[i] = n
    BY <1>7 DEF Has
  <2>2. CASE i <= end
    BY <1>1, <2>1, <2>2
  <2>3. CASE i > end
    <3>1. i - end \in 1 .. Len(a) - end /\ rest[i - end] = n
      BY <1>2, <2>1, <2>3
    <3> QED
      BY <1>2, <3>1 DEF Has
  <2> QED
    BY <2>1, <2>2, <2>3
<1>8. \A n \in W \cup row : n <= l
  BY <1>4 DEF Continues
<1>9. \A n \in row : n \in Segments /\ n \notin W
  BY <1>4 DEF Continues
<1>10. a[1] \in row
  BY <1>1
<1>11. \A n \in Segments : Has(rest, n) => n <= l /\ n \notin W \cup row
  BY <1>6 DEF Continues
<1>12. \A n \in Segments : n <= l => Has(rest, n) \/ n \in W \cup row
  BY <1>7 DEF Continues
<1>13. Continues(q, u, W \cup row, rest, l)
  BY <1>5, <1>8, <1>11, <1>12 DEF Continues
<1> QED
  BY <1>9, <1>10, <1>13 DEF row, rest

\* What a drain pops follows what it holds.
LEMMA ContinuesTaken ==
    ASSUME NEW q \in Seq(Segments), NEW u \in 0 .. MaxSequence, NEW W \in SUBSET Segments, NEW a \in Seq(Segments),
           NEW l \in 0 .. MaxSequence, Continues(q, u, W, a, l), NEW n \in 0 .. Len(q), NEW new \in Seq(Segments),
           new = Fresh(SubSeq(q, 1, n), l)
    PROVE  /\ Continues(SubSeq(q, n + 1, Len(q)), u, W, a \o new, IF new = <<>> THEN l ELSE new[Len(new)])
           /\ new = <<>> => Continues(SubSeq(q, n + 1, Len(q)), u, W, a, l)
<1> DEFINE p == SubSeq(q, n + 1, Len(q))
<1> DEFINE b == a \o new
<1> DEFINE k == IF new = <<>> THEN l ELSE new[Len(new)]
<1>0. MaxSequence \in Nat
  BY BoundsAssumption DEF BoundsAssumption
<1>1. p \in Seq(Segments) /\ Len(p) = Len(q) - n /\ \A i \in 1 .. Len(q) - n : p[i] = q[i + n]
  OBVIOUS
<1>2. /\ b \in Seq(Segments) /\ Len(b) = Len(a) + Len(new) /\ \A i \in 1 .. Len(a) : b[i] = a[i]
      /\ \A i \in 1 .. Len(new) : b[i + Len(a)] = new[i]
  OBVIOUS
<1>3. /\ \A i \in 1 .. Len(q) : q[i] \in Segments
      /\ \A i \in 1 .. Len(a) : a[i] \in Segments
      /\ \A i \in 1 .. Len(new) : new[i] \in Segments
  OBVIOUS
<1>4. /\ \A m \in Segments : Has(new, m) <=> (m > l /\ \E i \in 1 .. n : q[i] = m)
      /\ Rising(new)
  <2>5. SubSeq(q, 1, n) \in Seq(Segments)
    OBVIOUS
  <2>1. PICK x \in Seq(Segments) : x = SubSeq(q, 1, n)
    BY <2>5
  <2>2. Len(x) = n /\ \A i \in 1 .. n : x[i] = q[i]
    BY <2>1
  <2>3. new = Fresh(x, l)
    BY <2>1
  <2>6. PICK y : y = Fresh(x, l)
    OBVIOUS
  <2>4. /\ \A m \in Segments : (\E i \in 1 .. Len(y) : y[i] = m) <=> (m > l /\ \E i \in 1 .. Len(x) : x[i] = m)
        /\ \A i, j \in 1 .. Len(y) : i < j => y[i] < y[j]
    BY <2>6, FreshOnce, Zenon
  <2>7. new = y
    BY <2>3, <2>6
  <2>8. \A m \in Segments : Has(new, m) <=> (m > l /\ Has(x, m))
    BY <2>4, <2>7, Zenon DEF Has
  <2>9. \A m \in Segments : Has(x, m) <=> \E i \in 1 .. n : q[i] = m
    BY <2>2 DEF Has
  <2>10. Rising(new)
    BY <2>4, <2>7, Zenon DEF Rising
  <2> QED
    BY <2>8, <2>9, <2>10
\* k is the last segment popped.
<1>5. /\ k \in 0 .. MaxSequence /\ l <= k /\ k <= u
      /\ \A m \in Segments : Has(new, m) => m <= k
      /\ k > l => Has(new, k) /\ k \in Segments
  <2>1. CASE new = <<>>
    BY <2>1 DEF Has, Continues
  <2>2. CASE new # <<>>
    <3>1. Len(new) \in 1 .. Len(new) /\ k = new[Len(new)] /\ k \in Segments
      BY <2>2, <1>3
    <3>2. Has(new, k)
      BY <3>1 DEF Has
    <3>3. k > l /\ \E i \in 1 .. n : q[i] = k
      BY <1>4, <3>1, <3>2
    <3>4. k <= u
      BY <3>3 DEF Continues
    <3>5. ASSUME NEW m \in Segments, Has(new, m) PROVE m <= k
      <4>1. PICK i \in 1 .. Len(new) : new[i] = m
        BY <3>5 DEF Has
      <4> QED
        BY <4>1, <1>4, <3>1 DEF Rising, Segments
    <3> QED
      BY <3>1, <3>2, <3>3, <3>4, <3>5, <1>0 DEF Segments
  <2> QED
    BY <2>1, <2>2
<1>6. \A m \in Segments : Has(b, m) <=> Has(a, m) \/ Has(new, m)
  <2>1. ASSUME NEW m \in Segments, Has(a, m) \/ Has(new, m) PROVE Has(b, m)
    <3>1. CASE Has(a, m)
      BY <3>1, <1>2 DEF Has
    <3>2. CASE Has(new, m)
      <4>1. PICK i \in 1 .. Len(new) : new[i] = m
        BY <3>2 DEF Has
      <4>2. i + Len(a) \in 1 .. Len(b) /\ b[i + Len(a)] = m
        BY <4>1, <1>2
      <4> QED
        BY <4>2 DEF Has
    <3> QED
      BY <2>1, <3>1, <3>2
  <2>2. ASSUME NEW m \in Segments, Has(b, m) PROVE Has(a, m) \/ Has(new, m)
    <3>1. PICK i \in 1 .. Len(b) : b[i] = m
      BY <2>2 DEF Has
    <3>2. CASE i <= Len(a)
      BY <3>1, <3>2, <1>2 DEF Has
    <3>3. CASE i > Len(a)
      <4>1. i - Len(a) \in 1 .. Len(new) /\ b[(i - Len(a)) + Len(a)] = new[i - Len(a)] /\ (i - Len(a)) + Len(a) = i
        BY <3>1, <3>3, <1>2
      <4> QED
        BY <4>1, <3>1 DEF Has
    <3> QED
      BY <3>1, <3>2, <3>3
  <2> QED
    BY <2>1, <2>2
<1> HIDE DEF p, b, k
<1>7. Rising(b)
  <2> SUFFICES ASSUME NEW i \in 1 .. Len(b), NEW j \in 1 .. Len(b), i < j PROVE b[i] < b[j]
    BY DEF Rising
  <2>1. CASE j <= Len(a)
    <3>1. i \in 1 .. Len(a) /\ j \in 1 .. Len(a) /\ b[i] = a[i] /\ b[j] = a[j]
      BY <2>1, <1>2
    <3> QED
      BY <3>1 DEF Continues, Rising
  <2>2. CASE i > Len(a)
    <3>2. /\ i - Len(a) \in 1 .. Len(new) /\ (i - Len(a)) + Len(a) = i
          /\ j - Len(a) \in 1 .. Len(new) /\ (j - Len(a)) + Len(a) = j
      BY <2>2, <1>2
    <3>1. /\ i - Len(a) \in 1 .. Len(new) /\ b[i] = new[i - Len(a)]
          /\ j - Len(a) \in 1 .. Len(new) /\ b[j] = new[j - Len(a)]
      BY <3>2, <1>2
    <3>3. i - Len(a) < j - Len(a)
      BY <1>2
    <3> QED
      BY <3>1, <3>3, <1>4 DEF Rising
  <2>3. CASE i <= Len(a) /\ j > Len(a)
    <3>1. b[i] = a[i] /\ a[i] \in Segments /\ Has(a, a[i])
      BY <2>3, <1>2, <1>3 DEF Has
    <3>5. j - Len(a) \in 1 .. Len(new) /\ (j - Len(a)) + Len(a) = j
      BY <2>3, <1>2
    <3>2. j - Len(a) \in 1 .. Len(new) /\ b[j] = new[j - Len(a)]
      BY <3>5, <1>2
    <3>3. b[j] \in Segments /\ Has(new, b[j])
      BY <3>2, <1>3 DEF Has
    <3>4. b[j] > l /\ a[i] <= l
      BY <3>1, <3>3, <1>4 DEF Continues
    <3> QED
      BY <3>1, <3>3, <3>4 DEF Segments
  <2> QED
    BY <1>2, <2>1, <2>2, <2>3
<1>8. \A m \in Segments : Has(b, m) => m <= k /\ m \notin W
  <2> SUFFICES ASSUME NEW m \in Segments, Has(b, m) PROVE m <= k /\ m \notin W
    OBVIOUS
  <2>1. CASE Has(a, m)
    BY <2>1, <1>5 DEF Continues, Segments
  <2>2. CASE Has(new, m)
    <3>1. m > l
      BY <2>2, <1>4
    <3>2. m \notin W
      BY <3>1 DEF Continues, Segments
    <3> QED
      BY <2>2, <3>2, <1>5
  <2> QED
    BY <1>6, <2>1, <2>2
<1>9. \A m \in Segments : m <= k => Has(b, m) \/ m \in W
  <2> SUFFICES ASSUME NEW m \in Segments, m <= k PROVE Has(b, m) \/ m \in W
    OBVIOUS
  <2>1. CASE m <= l
    BY <2>1, <1>6 DEF Continues
  <2>2. CASE m > l
    <3>1. Has(new, k) /\ k \in Segments
      BY <2>2, <1>5, <1>0 DEF Segments
    <3>2. PICK i \in 1 .. n : q[i] = k
      BY <3>1, <1>4
    <3>3. CASE m = k
      BY <3>1, <3>3, <1>6
    <3>4. CASE m # k
      <4>1. l < m /\ m < q[i] /\ i \in 1 .. Len(q)
        BY <2>2, <3>2, <3>4, <1>5 DEF Segments
      <4>2. PICK j \in 1 .. i - 1 : q[j] = m
        BY <4>1 DEF Continues
      <4>3. j \in 1 .. n
        BY <4>2, <3>2
      <4> QED
        BY <2>2, <4>2, <4>3, <1>4, <1>6
    <3> QED
      BY <3>3, <3>4
  <2> QED
    BY <2>1, <2>2 DEF Segments
\* What is left in the queue.
<1>10. \A i \in 1 .. n : \A m \in Segments : m > k => q[i] # m
  BY <1>4, <1>5 DEF Segments
<1>11. ASSUME NEW i \in 1 .. Len(p) PROVE p[i] <= u
  <2>1. p[i] = q[i + n] /\ i + n \in 1 .. Len(q)
    BY <1>1
  <2> QED
    BY <2>1 DEF Continues
<1>12. ASSUME NEW i \in 1 .. Len(p), NEW m \in Segments, k < m, m < p[i] PROVE \E j \in 1 .. i - 1 : p[j] = m
  <2>1. i + n \in 1 .. Len(q) /\ m < q[i + n] /\ l < m
    BY <1>1, <1>5, <1>12 DEF Segments
  <2>2. PICK j \in 1 .. (i + n) - 1 : q[j] = m
    BY <2>1 DEF Continues
  <2>3. j > n
    BY <1>10, <1>12, <2>2, <2>1
  <2>4. j - n \in 1 .. i - 1 /\ p[j - n] = m
    <3>1. j - n \in 1 .. Len(q) - n /\ (j - n) + n = j
      BY <2>1, <2>2, <2>3
    <3> QED
      BY <3>1, <1>1, <2>2, <2>3
  <2> QED
    BY <2>4
<1>13. ASSUME NEW m \in Segments, k < m, m <= u PROVE Has(p, m)
  <2>1. l < m
    BY <1>5, <1>13 DEF Segments
  <2>2. PICK j \in 1 .. Len(q) : q[j] = m
    BY <2>1, <1>13 DEF Continues, Has
  <2>3. j > n
    BY <1>10, <1>13, <2>2
  <2>4. j - n \in 1 .. Len(p) /\ p[j - n] = q[(j - n) + n] /\ (j - n) + n = j
    BY <2>2, <2>3, <1>1
  <2> QED
    BY <2>2, <2>4 DEF Has
<1>14. \A m \in W : m <= k
  BY <1>5 DEF Continues, Segments
<1>15. Continues(p, u, W, b, k)
  BY <1>5, <1>7, <1>8, <1>9, <1>11, <1>12, <1>13, <1>14 DEF Continues
<1>16. ASSUME new = <<>> PROVE b = a /\ k = l
  BY <1>16 DEF b, k
<1> QED
  BY <1>15, <1>16 DEF p, b, k

\* A drain that has popped, and has not saved its tail.
Cutting(w, s) ==
    Draining(w, s) /\ job[w].pc \in {"cutting", "marking", "saving", "gathering", "dispatching", "keeping"}

Follows(s, a, l) == Continues(queue[s], uploaded[s], Written(s), a, l)

\* A row has the segment it is named by, and no other row has any of its segments.
RowsApart(s) ==
    /\ \A n \in Segments : rows[<<s, n>>] # {} => n \in rows[<<s, n>>]
    /\ \A m, n \in Segments : m # n => rows[<<s, m>>] \cap rows[<<s, n>>] = {}

SpeechOK(s) ==
    /\ \A w \in Workers : Cutting(w, s) => Follows(s, job[w].audio, job[w].last)
    /\ (\A w \in Workers : ~Cutting(w, s)) => Follows(s, tail[s].held, tail[s].last)
    /\ RowsApart(s)

SpeechInv == crashes = 0 /\ ~raised => \A s \in Sources \ met : SpeechOK(s)

LEMMA WrittenIs == ASSUME AudioTyped, NEW s \in Sources
                   PROVE  Written(s) \in SUBSET Segments /\ \A n : n \in Written(s) <=> \E m \in Segments : n \in rows[<<s, m>>]
<1>1. \A m \in Segments : <<s, m>> \in Ids
  BY DEF Ids
<1>2. rows \in [Ids -> SUBSET Segments]
  BY DEF AudioTyped
<1> QED
  BY <1>1, <1>2 DEF Written

LEMMA SpeechUntouched ==
    ASSUME NEW s \in Sources, SpeechOK(s),
           queue'[s] = queue[s], uploaded'[s] = uploaded[s], tail'[s] = tail[s],
           \A n \in Segments : rows'[<<s, n>>] = rows[<<s, n>>],
           \A w \in Workers : Cutting(w, s)' <=> Cutting(w, s),
           \A w \in Workers : Cutting(w, s) => job'[w].audio = job[w].audio /\ job'[w].last = job[w].last
    PROVE  SpeechOK(s)'
<1>1. Written(s)' = Written(s)
  BY DEF Written
<1>2. \A a, l : Follows(s, a, l) => Continues(queue'[s], uploaded'[s], Written(s)', a, l)
  BY <1>1 DEF Follows
<1>3. RowsApart(s)'
  BY DEF SpeechOK, RowsApart
<1>4. \A w \in Workers : Cutting(w, s)' => Follows(s, job[w].audio, job[w].last)'
  <2> SUFFICES ASSUME NEW w \in Workers, Cutting(w, s)' PROVE Continues(queue'[s], uploaded'[s], Written(s)', job'[w].audio, job'[w].last)
    BY DEF Follows
  <2>1. Cutting(w, s) /\ Follows(s, job[w].audio, job[w].last)
    BY DEF SpeechOK
  <2> QED
    BY <2>1, <1>2
<1>5. (\A w \in Workers : ~Cutting(w, s))' => Follows(s, tail[s].held, tail[s].last)'
  <2> SUFFICES ASSUME \A w \in Workers : ~Cutting(w, s)' PROVE Continues(queue'[s], uploaded'[s], Written(s)', tail'[s].held, tail'[s].last)
    BY DEF Follows
  <2>1. Follows(s, tail[s].held, tail[s].last)
    BY DEF SpeechOK
  <2> QED
    BY <2>1, <1>2
<1> QED
  BY <1>3, <1>4, <1>5 DEF SpeechOK

\* The step of a drain of s leaves the speech of the other sources alone.
LEMMA SpeechOfOthers ==
    ASSUME NEW w \in Workers, NEW s \in Sources, job[w] \in Drains => job[w].source = s,
           job'[w] \in Drains => job'[w].source = s, \A v \in Workers \ {w} : job'[v] = job[v],
           \A t \in Sources \ {s} : queue'[t] = queue[t] /\ uploaded'[t] = uploaded[t] /\ tail'[t] = tail[t],
           \A t \in Sources \ {s} : \A n \in Segments : rows'[<<t, n>>] = rows[<<t, n>>],
           NEW t \in Sources \ {s}, SpeechOK(t)
    PROVE  SpeechOK(t)'
<1>1. \A v \in Workers : Cutting(v, t)' <=> Cutting(v, t)
  BY DEF Cutting, Draining
<1>2. \A v \in Workers : Cutting(v, t) => job'[v] = job[v]
  BY DEF Cutting, Draining
<1> QED
  BY <1>1, <1>2, SpeechUntouched

LEMMA SpeechUploaded ==
    ASSUME AudioTyped, AudioTyped', Elsewhere, \A s \in Sources \ met : SpeechOK(s)
    PROVE  \A s \in Sources \ met : SpeechOK(s)'
<1>1. UNCHANGED <<tail, rows, job>>
  BY DEF Elsewhere
<1>2. \A v \in Workers, t \in Sources : Cutting(v, t)' <=> Cutting(v, t)
  BY <1>1 DEF Cutting, Draining
<1>3. ASSUME NEW t \in Sources \ met, queue'[t] = queue[t], uploaded'[t] = uploaded[t] PROVE SpeechOK(t)'
  BY <1>1, <1>2, <1>3, SpeechUntouched
<1>4. ASSUME NEW s \in Sources \ met, NEW n \in Segments, NEW v \in 0 .. MaxSequence,
             (n = uploaded[s] + 1 /\ v = n) \/ (n <= uploaded[s] /\ v = uploaded[s]),
             queue'[s] = Append(queue[s], n), uploaded'[s] = v
      PROVE  SpeechOK(s)'
  <2>1. Written(s)' = Written(s) /\ Written(s) \in SUBSET Segments
    BY <1>1, WrittenIs DEF Written
  <2>2. queue[s] \in Seq(Segments) /\ uploaded[s] \in 0 .. MaxSequence
    BY DEF AudioTyped
  <2>3. ASSUME NEW a \in Seq(Segments), NEW l \in 0 .. MaxSequence, Follows(s, a, l)
        PROVE  Continues(queue'[s], uploaded'[s], Written(s)', a, l)
    BY <1>4, <2>1, <2>2, <2>3, ContinuesUploaded DEF Follows
  <2>4. \A w \in Workers : Cutting(w, s)' => Follows(s, job[w].audio, job[w].last)'
    <3> SUFFICES ASSUME NEW w \in Workers, Cutting(w, s) PROVE Continues(queue'[s], uploaded'[s], Written(s)', job'[w].audio, job'[w].last)
      BY <1>2 DEF Follows
    <3>1. job[w].audio \in Seq(Segments) /\ job[w].last \in 0 .. MaxSequence
      BY StepsTell DEF AudioTyped, Cutting, Draining
    <3>2. Follows(s, job[w].audio, job[w].last)
      BY DEF SpeechOK
    <3> QED
      BY <1>1, <2>3, <3>1, <3>2
  <2>5. (\A w \in Workers : ~Cutting(w, s))' => Follows(s, tail[s].held, tail[s].last)'
    <3> SUFFICES ASSUME \A w \in Workers : ~Cutting(w, s)
                 PROVE  Continues(queue'[s], uploaded'[s], Written(s)', tail'[s].held, tail'[s].last)
      BY <1>2 DEF Follows
    <3>1. tail[s].held \in Seq(Segments) /\ tail[s].last \in 0 .. MaxSequence
      BY DEF AudioTyped, Tails
    <3>2. Follows(s, tail[s].held, tail[s].last)
      BY DEF SpeechOK
    <3> QED
      BY <1>1, <2>3, <3>1, <3>2
  <2>6. RowsApart(s)'
    BY <1>1 DEF SpeechOK, RowsApart
  <2> QED
    BY <2>4, <2>5, <2>6 DEF SpeechOK
<1>5. CASE UNCHANGED <<uploaded, queue>>
  BY <1>3, <1>5
<1>6. ASSUME NEW s \in Sources, uploaded[s] < MaxSequence, uploaded' = [uploaded EXCEPT ![s] = uploaded[s] + 1],
             queue' = [queue EXCEPT ![s] = Append(queue[s], uploaded[s] + 1)]
      PROVE  \A t \in Sources \ met : SpeechOK(t)'
  <2>1. uploaded[s] + 1 \in Segments /\ uploaded[s] + 1 \in 0 .. MaxSequence
    BY <1>6, BoundsAssumption DEF AudioTyped, Segments, BoundsAssumption
  <2>2. queue'[s] = Append(queue[s], uploaded[s] + 1) /\ uploaded'[s] = uploaded[s] + 1
    BY <1>6 DEF AudioTyped
  <2>3. \A t \in Sources : t # s => queue'[t] = queue[t] /\ uploaded'[t] = uploaded[t]
    BY <1>6 DEF AudioTyped
  <2>4. s \notin met => SpeechOK(s)'
    BY <1>4, <2>1, <2>2
  <2> QED
    BY <1>3, <2>3, <2>4
<1>7. ASSUME NEW s \in Sources, NEW n \in 1 .. uploaded[s], uploaded' = uploaded,
             queue' = [queue EXCEPT ![s] = Append(queue[s], n)]
      PROVE  \A t \in Sources \ met : SpeechOK(t)'
  <2>1. uploaded[s] \in 0 .. MaxSequence /\ n \in Segments /\ n <= uploaded[s]
    BY BoundsAssumption DEF AudioTyped, Segments, BoundsAssumption
  <2>2. queue'[s] = Append(queue[s], n) /\ uploaded'[s] = uploaded[s]
    BY <1>7 DEF AudioTyped
  <2>3. \A t \in Sources : t # s => queue'[t] = queue[t] /\ uploaded'[t] = uploaded[t]
    BY <1>7 DEF AudioTyped
  <2>4. s \notin met => SpeechOK(s)'
    BY <1>4, <2>1, <2>2
  <2> QED
    BY <1>3, <2>3, <2>4
<1> QED
  BY <1>5, <1>6, <1>7 DEF Elsewhere

\* A drain that pops.
LEMMA SpeechTaken ==
    ASSUME AudioTyped, AudioTyped', OneAtWork, NEW w \in Workers, TakesAudio(w), job[w].source \notin met,
           \A s \in Sources \ met : SpeechOK(s)
    PROVE  \A s \in Sources \ met : SpeechOK(s)'
<1>1. job[w] \in Drains /\ job[w].pc = "taking" /\ UNCHANGED <<uploaded, tail, rows>>
  BY TakesBecomes DEF TakesAudio, Becomes
<1>2. PICK s \in Sources \ met : s = job[w].source
  BY <1>1, StepsTell DEF AudioTyped
<1>3. Source(w) = s /\ queue[s] \in Seq(Segments) /\ tail[s].held \in Seq(Segments) /\ tail[s].last \in 0 .. MaxSequence
      /\ uploaded[s] \in 0 .. MaxSequence
  BY <1>2 DEF Source, AudioTyped, Tails
<1>4. PICK n : n = IF Len(queue[s]) < MaxPerDrain THEN Len(queue[s]) ELSE MaxPerDrain
  OBVIOUS
<1>5. n \in 0 .. Len(queue[s])
  BY <1>3, <1>4, BoundsAssumption DEF BoundsAssumption
<1>6. PICK new : new = Fresh(SubSeq(queue[s], 1, n), tail[s].last)
  OBVIOUS
<1>7. queue' = [queue EXCEPT ![s] = SubSeq(queue[s], n + 1, Len(queue[s]))] /\ new \in Seq(Segments)
  BY <1>3, <1>4, <1>6 DEF TakesAudio
<1>8. PICK k : k = IF new = <<>> THEN tail[s].last ELSE new[Len(new)]
  OBVIOUS
<1>9. \/ new = <<>> /\ Becomes(w, "unlocking", job[w].audio, job[w].last, job[w].members, job[w].new)
      \/ Becomes(w, "cutting", tail[s].held \o new, k, job[w].members, job[w].new)
  BY <1>3, <1>4, <1>6, <1>8, TakesBecomes DEF NothingToDo
<1>10. job'[w] \in Drains /\ job'[w].source = s /\ \A v \in Workers \ {w} : job'[v] = job[v]
  BY <1>2, <1>9 DEF Becomes, Goes
<1>11. \A t \in Sources \ met : t # s => SpeechOK(t)'
  BY <1>1, <1>2, <1>7, <1>10, SpeechOfOthers DEF AudioTyped
<1>12. \A v \in Workers : ~Cutting(v, s)
  <2>1. AtWork(w, s) /\ ~Cutting(w, s)
    BY <1>1, <1>2 DEF AtWork, Draining, Cutting
  <2>2. \A v \in Workers : Cutting(v, s) => AtWork(v, s)
    BY DEF Cutting, AtWork
  <2> QED
    BY <2>1, <2>2 DEF OneAtWork
<1>13. \A v \in Workers : v # w => ~Cutting(v, s)'
  BY <1>10, <1>12 DEF Cutting, Draining
<1>14. Follows(s, tail[s].held, tail[s].last) /\ RowsApart(s)
  BY <1>12 DEF SpeechOK
<1>15. Written(s)' = Written(s) /\ Written(s) \in SUBSET Segments
  BY <1>1, WrittenIs DEF Written
<1>16. queue'[s] = SubSeq(queue[s], n + 1, Len(queue[s])) /\ uploaded'[s] = uploaded[s] /\ tail'[s] = tail[s]
  BY <1>1, <1>7 DEF AudioTyped
<1>17. /\ Continues(queue'[s], uploaded[s], Written(s), tail[s].held \o new, k)
       /\ new = <<>> => Continues(queue'[s], uploaded[s], Written(s), tail[s].held, tail[s].last)
  <2>1. Continues(queue[s], uploaded[s], Written(s), tail[s].held, tail[s].last)
    BY <1>14 DEF Follows
  <2>2. PICK q \in Seq(Segments) : q = queue[s]
    BY <1>3
  <2>3. PICK W \in SUBSET Segments : W = Written(s)
    BY <1>15
  <2>4. PICK a \in Seq(Segments) : a = tail[s].held
    BY <1>3
  <2>5. PICK l \in 0 .. MaxSequence : l = tail[s].last
    BY <1>3
  <2>6. PICK u \in 0 .. MaxSequence : u = uploaded[s]
    BY <1>3
  <2>7. /\ Continues(q, u, W, a, l) /\ n \in 0 .. Len(q) /\ new \in Seq(Segments) /\ new = Fresh(SubSeq(q, 1, n), l)
        /\ k = IF new = <<>> THEN l ELSE new[Len(new)]
    BY <1>5, <1>6, <1>7, <1>8, <2>1, <2>2, <2>3, <2>4, <2>5, <2>6
  <2>8. /\ Continues(SubSeq(q, n + 1, Len(q)), u, W, a \o new, k)
        /\ new = <<>> => Continues(SubSeq(q, n + 1, Len(q)), u, W, a, l)
    <3>1. /\ Continues(SubSeq(q, n + 1, Len(q)), u, W, a \o new, IF new = <<>> THEN l ELSE new[Len(new)])
          /\ new = <<>> => Continues(SubSeq(q, n + 1, Len(q)), u, W, a, l)
      BY <2>7, ContinuesTaken
    <3> QED
      BY <2>7, <3>1
  <2> QED
    BY <1>16, <2>2, <2>3, <2>4, <2>5, <2>6, <2>8
<1>18. RowsApart(s)'
  BY <1>1, <1>14 DEF RowsApart
<1>19. CASE new = <<>> /\ Becomes(w, "unlocking", job[w].audio, job[w].last, job[w].members, job[w].new)
  <2>1. ~Cutting(w, s)'
    BY <1>19 DEF Becomes, Goes, Cutting
  <2>2. Follows(s, tail[s].held, tail[s].last)'
    BY <1>15, <1>16, <1>17, <1>19 DEF Follows
  <2>3. SpeechOK(s)'
    BY <1>13, <1>18, <2>1, <2>2 DEF SpeechOK
  <2> QED
    BY <1>11, <2>3
<1>20. CASE Becomes(w, "cutting", tail[s].held \o new, k, job[w].members, job[w].new)
  <2>1. Cutting(w, s)' /\ job'[w].audio = tail[s].held \o new /\ job'[w].last = k
    BY <1>10, <1>20 DEF Becomes, Goes, Cutting, Draining
  <2>2. Follows(s, job[w].audio, job[w].last)'
    BY <1>15, <1>16, <1>17, <2>1 DEF Follows
  <2>3. SpeechOK(s)'
    BY <1>13, <1>18, <2>1, <2>2 DEF SpeechOK
  <2> QED
    BY <1>11, <2>3
<1> QED
  BY <1>9, <1>19, <1>20

\* A drain that writes a row: one of that name cannot be there.
LEMMA SpeechCut ==
    ASSUME AudioTyped, AudioTyped', OneAtWork, NEW w \in Workers, CutsRow(w), job[w].source \notin met,
           \A s \in Sources \ met : SpeechOK(s)
    PROVE  \A s \in Sources \ met : SpeechOK(s)'
<1> DEFINE end == Min(Ends(w))
<1> DEFINE id == <<Source(w), job[w].audio[1]>>
<1> DEFINE rest == SubSeq(job[w].audio, end + 1, Len(job[w].audio))
<1>1. job[w].pc = "cutting" /\ UNCHANGED <<uploaded, queue, tail>> /\ id \in Ids /\ end \in 1 .. Len(job[w].audio)
  BY CutsBecomes DEF CutsRow
<1>2. \/ /\ Exists(id) /\ rows' = rows
         /\ Becomes(w, "cutting", rest, job[w].last, job[w].members, job[w].new)
      \/ /\ ~Exists(id) /\ rows' = [rows EXCEPT ![id] = ToSet(SubSeq(job[w].audio, 1, end))]
         /\ Becomes(w, "marking", rest, job[w].last, job[w].members, {id})
  BY CutsBecomes
<1>3. job[w] \in Drains /\ job'[w] \in Drains /\ job'[w].source = job[w].source /\ \A v \in Workers \ {w} : job'[v] = job[v]
  BY <1>2 DEF Becomes, Goes
<1>4. PICK s \in Sources \ met : s = job[w].source
  BY <1>3, StepsTell DEF AudioTyped
<1>5. PICK a \in Seq(Segments) : a = job[w].audio
  BY <1>3, StepsTell DEF AudioTyped
<1>6. PICK l \in 0 .. MaxSequence : l = job[w].last
  BY <1>3, StepsTell DEF AudioTyped
<1>7. PICK e \in 1 .. Len(a) : e = end
  BY <1>1, <1>5
<1>8. PICK row : row = ToSet(SubSeq(a, 1, e))
  OBVIOUS
<1>9. Cutting(w, s) /\ Follows(s, a, l) /\ RowsApart(s)
  BY <1>1, <1>3, <1>4, <1>5, <1>6 DEF Cutting, Draining, SpeechOK
<1>10. /\ Continues(queue[s], uploaded[s], Written(s) \cup row, SubSeq(a, e + 1, Len(a)), l)
       /\ \A n \in row : n \in Segments /\ n \notin Written(s)
       /\ a[1] \in row
  <2>1. Continues(queue[s], uploaded[s], Written(s), a, l)
    BY <1>9 DEF Follows
  <2>2. Written(s) \in SUBSET Segments /\ queue[s] \in Seq(Segments) /\ uploaded[s] \in 0 .. MaxSequence
    BY WrittenIs DEF AudioTyped
  <2> QED
    BY <1>8, <2>1, <2>2, ContinuesCut
<1>11. PICK n \in Segments : n = a[1]
  BY <1>10
<1>12. id = <<s, n>> /\ rest = SubSeq(a, e + 1, Len(a))
  BY <1>4, <1>5, <1>7, <1>11 DEF Source
<1> HIDE DEF id, rest, end
<1>13. ~Exists(id)
  <2>1. Exists(id) => n \in rows[<<s, n>>]
    BY <1>9, <1>12 DEF RowsApart, Exists
  <2>2. n \in rows[<<s, n>>] => n \in Written(s)
    BY WrittenIs
  <2> QED
    BY <1>10, <1>11, <2>1, <2>2
<1>14. rows' = [rows EXCEPT ![<<s, n>>] = row] /\ Becomes(w, "marking", SubSeq(a, e + 1, Len(a)), l, job[w].members, {id})
  BY <1>2, <1>5, <1>6, <1>7, <1>8, <1>12, <1>13
<1>15. /\ rows'[<<s, n>>] = row
       /\ \A m \in Segments : m # n => rows'[<<s, m>>] = rows[<<s, m>>]
       /\ \A t \in Sources \ {s} : \A m \in Segments : rows'[<<t, m>>] = rows[<<t, m>>]
       /\ rows[<<s, n>>] = {}
  BY <1>12, <1>13, <1>14 DEF AudioTyped, Ids, Exists
<1>16. \A t \in Sources \ met : t # s => SpeechOK(t)'
  BY <1>1, <1>3, <1>4, <1>15, SpeechOfOthers
<1>17. Written(s)' = Written(s) \cup row
  <2>1. \A x : x \in Written(s)' <=> \E m \in Segments : x \in rows'[<<s, m>>]
    BY WrittenIs, <1>14 DEF Written
  <2>2. \A x : x \in Written(s) <=> \E m \in Segments : x \in rows[<<s, m>>]
    BY WrittenIs
  <2>3. \A x : x \in Written(s)' <=> x \in Written(s) \/ x \in row
    BY <1>15, <2>1, <2>2
  <2> QED
    BY <2>3
<1>18. \A m \in Segments : m # n => rows[<<s, m>>] \cap row = {}
  <2> SUFFICES ASSUME NEW m \in Segments, NEW x \in row, x \in rows[<<s, m>>] PROVE FALSE
    OBVIOUS
  <2>1. x \in Written(s)
    BY WrittenIs
  <2> QED
    BY <1>10, <2>1
<1>19. RowsApart(s)'
  <2>1. \A m \in Segments : rows'[<<s, m>>] # {} => m \in rows'[<<s, m>>]
    BY <1>9, <1>10, <1>11, <1>15 DEF RowsApart
  <2>2. \A m, k \in Segments : m # k => rows'[<<s, m>>] \cap rows'[<<s, k>>] = {}
    <3> SUFFICES ASSUME NEW m \in Segments, NEW k \in Segments, m # k PROVE rows'[<<s, m>>] \cap rows'[<<s, k>>] = {}
      OBVIOUS
    <3>1. CASE m = n
      BY <1>15, <1>18, <3>1
    <3>2. CASE k = n
      BY <1>15, <1>18, <3>2
    <3>3. CASE m # n /\ k # n
      BY <1>9, <1>15, <3>3 DEF RowsApart
    <3> QED
      BY <3>1, <3>2, <3>3
  <2> QED
    BY <2>1, <2>2 DEF RowsApart
<1>20. /\ Cutting(w, s)' /\ job'[w].audio = SubSeq(a, e + 1, Len(a)) /\ job'[w].last = l
  BY <1>3, <1>4, <1>14 DEF Becomes, Goes, Cutting, Draining
<1>21. \A v \in Workers : v # w => ~Cutting(v, s)'
  <2>1. AtWork(w, s) /\ \A v \in Workers : Cutting(v, s) => AtWork(v, s)
    BY <1>9 DEF Cutting, AtWork
  <2>2. \A v \in Workers : v # w => ~Cutting(v, s)
    BY <2>1 DEF OneAtWork
  <2> QED
    BY <1>3, <2>2 DEF Cutting, Draining
<1>22. Follows(s, job[w].audio, job[w].last)'
  BY <1>1, <1>10, <1>17, <1>20 DEF Follows
<1>23. SpeechOK(s)'
  BY <1>19, <1>20, <1>21, <1>22 DEF SpeechOK
<1> QED
  BY <1>16, <1>23

\* A drain that saves its tail.
LEMMA SpeechKept ==
    ASSUME AudioTyped, AudioTyped', OneAtWork, NEW w \in Workers, KeepsTail(w), job[w].source \notin met,
           \A s \in Sources \ met : SpeechOK(s)
    PROVE  \A s \in Sources \ met : SpeechOK(s)'
<1>1. job[w].pc = "keeping" /\ UNCHANGED <<uploaded, queue, rows>>
  BY KeepsBecomes DEF KeepsTail
<1>2. Becomes(w, "unlocking", job[w].audio, job[w].last, job[w].members, job[w].new)
  BY KeepsBecomes
<1>3. job[w] \in Drains /\ job'[w] \in Drains /\ job'[w].source = job[w].source /\ \A v \in Workers \ {w} : job'[v] = job[v]
  BY <1>2 DEF Becomes, Goes
<1>4. PICK s \in Sources \ met : s = job[w].source
  BY <1>3, StepsTell DEF AudioTyped
<1>5. tail' = [tail EXCEPT ![s] = [held |-> job[w].audio, last |-> job[w].last]]
  BY <1>4 DEF KeepsTail, Source
<1>6. tail'[s].held = job[w].audio /\ tail'[s].last = job[w].last /\ \A t \in Sources \ {s} : tail'[t] = tail[t]
  BY <1>5 DEF AudioTyped
<1>7. \A t \in Sources \ met : t # s => SpeechOK(t)'
  BY <1>1, <1>3, <1>4, <1>6, SpeechOfOthers
<1>8. Cutting(w, s) /\ Follows(s, job[w].audio, job[w].last) /\ RowsApart(s)
  BY <1>1, <1>3, <1>4 DEF Cutting, Draining, SpeechOK
<1>9. \A v \in Workers : v # w => ~Cutting(v, s)
  <2>1. AtWork(w, s) /\ \A v \in Workers : Cutting(v, s) => AtWork(v, s)
    BY <1>8 DEF Cutting, AtWork
  <2> QED
    BY <2>1 DEF OneAtWork
<1>10. \A v \in Workers : ~Cutting(v, s)'
  <2>1. ~Cutting(w, s)'
    BY <1>2 DEF Becomes, Goes, Cutting
  <2> QED
    BY <1>3, <1>9, <2>1 DEF Cutting, Draining
<1>11. Written(s)' = Written(s)
  BY <1>1 DEF Written
<1>12. Follows(s, tail[s].held, tail[s].last)'
  BY <1>1, <1>6, <1>8, <1>11 DEF Follows
<1>13. RowsApart(s)'
  BY <1>1, <1>8 DEF RowsApart
<1> QED
  BY <1>7, <1>10, <1>12, <1>13 DEF SpeechOK

\* Where drains have met, whatever one does there leaves the rest alone.
LEMMA SpeechBesides ==
    ASSUME AudioTyped, NEW w \in Workers, TakesAudio(w) \/ CutsRow(w) \/ KeepsTail(w), job[w].source \in met,
           \A s \in Sources \ met : SpeechOK(s)
    PROVE  \A s \in Sources \ met : SpeechOK(s)'
<1>1. /\ job[w] \in Drains /\ \A v \in Workers \ {w} : job'[v] = job[v]
      /\ job'[w].source = job[w].source /\ uploaded' = uploaded
  <2>1. \E pc, a, l, m, n : Becomes(w, pc, a, l, m, n) /\ uploaded' = uploaded
    <3>1. CASE TakesAudio(w)
      BY <3>1, TakesBecomes, Zenon
    <3>2. CASE CutsRow(w)
      BY <3>2, CutsBecomes, Zenon
    <3>3. CASE KeepsTail(w)
      BY <3>3, KeepsBecomes, Zenon
    <3> QED
      BY <3>1, <3>2, <3>3
  <2> QED
    BY <2>1 DEF Becomes, Goes
<1>2. PICK s \in Sources : s = job[w].source /\ s = Source(w)
  BY <1>1, StepsTell DEF AudioTyped, Source
<1>3. /\ \A t \in Sources \ {s} : queue'[t] = queue[t] /\ tail'[t] = tail[t]
      /\ \A t \in Sources \ {s} : \A n \in Segments : rows'[<<t, n>>] = rows[<<t, n>>]
  <2>1. CASE TakesAudio(w)
    BY <1>2, <2>1 DEF TakesAudio, AudioTyped
  <2>2. CASE CutsRow(w)
    <3>1. UNCHANGED <<queue, tail>>
      BY <2>2 DEF CutsRow
    <3>2. rows' = rows \/ \E n, r : rows' = [rows EXCEPT ![<<s, n>>] = r]
      BY <1>2, <2>2 DEF CutsRow
    <3>3. \A t \in Sources, n \in Segments : \A m : t # s => <<t, n>> \in Ids /\ <<t, n>> # <<s, m>>
      BY DEF Ids
    <3>4. rows \in [Ids -> SUBSET Segments]
      BY DEF AudioTyped
    <3> QED
      BY <3>1, <3>2, <3>3, <3>4
  <2>3. CASE KeepsTail(w)
    BY <1>2, <2>3 DEF KeepsTail, AudioTyped
  <2> QED
    BY <2>1, <2>2, <2>3
<1> SUFFICES ASSUME NEW t \in Sources \ met PROVE SpeechOK(t)'
  OBVIOUS
<1> QED
  BY <1>1, <1>2, <1>3, SpeechOfOthers

LEMMA SpeechStays ==
    ASSUME AudioTyped, AudioTyped', AudioStep, OneAtWork, SpeechInv
    PROVE  SpeechInv'
<1> SUFFICES ASSUME crashes' = 0, ~raised' PROVE \A s \in Sources \ met : SpeechOK(s)'
  BY HistoryGrows DEF SpeechInv
<1>1. ASSUME crashes' = crashes, raised' = raised PROVE \A s \in Sources \ met : SpeechOK(s)
  BY <1>1 DEF SpeechInv
<1>2. ASSUME UNCHANGED <<queue, uploaded, tail, rows, crashes, raised>>,
             \A v \in Workers, s \in Sources : Cutting(v, s)' <=> Cutting(v, s),
             \A v \in Workers, s \in Sources : Cutting(v, s) => job'[v].audio = job[v].audio /\ job'[v].last = job[v].last
      PROVE  \A s \in Sources \ met : SpeechOK(s)'
  BY <1>1, <1>2, SpeechUntouched
<1>3. CASE Elsewhere
  BY <1>1, <1>3, SpeechUploaded DEF Elsewhere
<1>4. ASSUME NEW s \in Sources, Expires(s) PROVE \A t \in Sources \ met : SpeechOK(t)'
  BY <1>2, <1>4 DEF Expires, Cutting, Draining
<1>5. ASSUME NEW w \in Workers, NEW s \in Sources, Begins(w, s) PROVE \A t \in Sources \ met : SpeechOK(t)'
  <2>1. UNCHANGED <<queue, uploaded, tail, rows, crashes, raised>>
    BY <1>5 DEF Begins
  <2>2. /\ job[w] \notin Drains /\ job'[w].pc = "taking" /\ \A v \in Workers \ {w} : job'[v] = job[v]
    BY <1>5, BeginsBecomes
  <2> QED
    BY <1>2, <2>1, <2>2 DEF Cutting, Draining
<1>6. ASSUME NEW w \in Workers, Waits(w) PROVE \A t \in Sources \ met : SpeechOK(t)'
  <2>1. UNCHANGED <<queue, uploaded, tail, rows, crashes, raised>> /\ (job[w] \in Drains => job[w].pc = "looking")
    BY <1>6 DEF Waits
  <2>2. job'[w] \notin Drains /\ \A v \in Workers \ {w} : job'[v] = job[v]
    BY <1>6, LeavingIsDone
  <2> QED
    BY <1>2, <2>1, <2>2 DEF Cutting, Draining
<1>7. ASSUME NEW w \in Workers, Dies(w) \/ Raises(w) PROVE FALSE
  BY <1>7 DEF Dies, Raises, AudioTyped
\* A drain goes on with the audio it had.
<1>8. ASSUME NEW w \in Workers, NEW pc, NEW m, NEW n, Becomes(w, pc, job[w].audio, job[w].last, m, n),
             UNCHANGED <<queue, uploaded, tail, rows, crashes, raised>>,
             job[w].pc \in {"cutting", "marking", "saving", "gathering", "dispatching"},
             pc \in {"cutting", "saving", "gathering", "dispatching", "keeping"}
      PROVE  \A s \in Sources \ met : SpeechOK(s)'
  <2>1. /\ job[w] \in Drains /\ job'[w] \in Drains /\ job'[w].source = job[w].source
        /\ job'[w].pc = pc /\ job'[w].audio = job[w].audio /\ job'[w].last = job[w].last
        /\ \A v \in Workers \ {w} : job'[v] = job[v]
    BY <1>8 DEF Becomes, Goes
  <2>2. \A s \in Sources : Cutting(w, s)' <=> Cutting(w, s)
    BY <1>8, <2>1 DEF Cutting, Draining
  <2> QED
    BY <1>2, <1>8, <2>1, <2>2 DEF Cutting, Draining
<1>9. ASSUME NEW w \in Workers, Marks(w) PROVE \A s \in Sources \ met : SpeechOK(s)'
  <2>1. UNCHANGED <<queue, uploaded, tail, rows, crashes, raised>>
    BY <1>9 DEF Marks
  <2> QED
    BY <1>8, <1>9, <2>1, MarksBecomes
<1>10. ASSUME NEW w \in Workers, SettlesGroup(w) PROVE \A s \in Sources \ met : SpeechOK(s)'
  BY <1>8, <1>10, SettlesBecomes
<1>11. ASSUME NEW w \in Workers, Unlocks(w) PROVE \A s \in Sources \ met : SpeechOK(s)'
  <2>1. /\ UNCHANGED <<queue, uploaded, tail, rows, crashes, raised>> /\ job[w].pc = "unlocking"
        /\ \A v \in Workers \ {w} : job'[v] = job[v]
    BY <1>11, UnlocksBecomes DEF Unlocks
  <2>2. job'[w] \notin Drains \/ job'[w].pc = "looking"
    BY <1>11, UnlocksBecomes DEF Becomes, Goes
  <2>3. \A s \in Sources : ~Cutting(w, s) /\ ~Cutting(w, s)'
    BY <2>1, <2>2 DEF Cutting, Draining
  <2> QED
    BY <1>2, <2>1, <2>3 DEF Cutting, Draining
<1>12. ASSUME NEW w \in Workers, TakesAudio(w) PROVE \A s \in Sources \ met : SpeechOK(s)'
  <2>1. \A s \in Sources \ met : SpeechOK(s)
    BY <1>1, <1>12, TakesBecomes
  <2> QED
    BY <1>12, <2>1, SpeechTaken, SpeechBesides
<1>13. ASSUME NEW w \in Workers, CutsRow(w) PROVE \A s \in Sources \ met : SpeechOK(s)'
  <2>1. \A s \in Sources \ met : SpeechOK(s)
    BY <1>1, <1>13, CutsBecomes
  <2> QED
    BY <1>13, <2>1, SpeechCut, SpeechBesides
<1>14. ASSUME NEW w \in Workers, KeepsTail(w) PROVE \A s \in Sources \ met : SpeechOK(s)'
  <2>1. \A s \in Sources \ met : SpeechOK(s)
    BY <1>1, <1>14, KeepsBecomes
  <2> QED
    BY <1>14, <2>1, SpeechKept, SpeechBesides
<1> QED
  BY <1>3, <1>4, <1>5, <1>6, <1>7, <1>9, <1>10, <1>11, <1>12, <1>13, <1>14 DEF AudioStep, HandsOn

\* As long as no worker dies and no drain leaves by an exception, the speech of every
\* source where no two drains have been at work at once is written down once: what was
\* uploaded is queued, held or in a row, and in one row only, whatever is uploaded
\* twice and whenever locks expire (pop_segments, save_tail, create_utterance).
THEOREM SpeechIsWrittenOnce == Spec => []SpeechOnce
<1>1. Init => OneAtWork /\ SpeechInv
  <2> SUFFICES ASSUME Init PROVE OneAtWork /\ SpeechInv
    OBVIOUS
  <2>1. \A w \in Workers : job[w] \notin Drains
    BY SessionIsNew
  <2>2. /\ \A s \in Sources : queue[s] = <<>> /\ uploaded[s] = 0 /\ tail[s].held = <<>> /\ tail[s].last = 0
        /\ \A id \in Ids : rows[id] = {}
    BY DEF Init
  <2>3. \A s \in Sources : \A n \in Segments : rows[<<s, n>>] = {}
    BY <2>2 DEF Ids
  <2>4. \A s \in Sources : Written(s) = {}
    BY <2>3 DEF Written
  <2>5. Continues(<<>>, 0, {}, <<>>, 0)
    BY DEF Continues, Rising, Has, Segments
  <2>6. \A s \in Sources : SpeechOK(s)
    BY <2>1, <2>2, <2>3, <2>4, <2>5 DEF SpeechOK, Follows, RowsApart, Cutting, Draining
  <2> QED
    BY <2>1, <2>6 DEF OneAtWork, AtWork, Draining, SpeechInv
<1>2. AudioTyped /\ StateTyped /\ OneAtWork /\ SpeechInv /\ [Next]_vars => (OneAtWork /\ SpeechInv)'
  <2> SUFFICES ASSUME AudioTyped, StateTyped, OneAtWork, SpeechInv, [Next]_vars PROVE OneAtWork' /\ SpeechInv'
    OBVIOUS
  <2>1. AudioStep /\ AudioTyped'
    BY EveryStepIsAudioStep, AudioStaysTyped
  <2> QED
    BY <2>1, OneAtWorkStays, SpeechStays
<1>3. AudioTyped /\ SpeechInv => SpeechOnce
  <2> SUFFICES ASSUME AudioTyped, crashes = 0, ~raised, \A s \in Sources \ met : SpeechOK(s), NEW s \in Sources \ met
               PROVE  /\ \A n \in 1 .. uploaded[s] : n \in ToSet(queue[s]) \cup InHand(s) \cup ToSet(tail[s].held) \cup Written(s)
                      /\ \A m, n \in Segments : m # n => rows[<<s, m>>] \cap rows[<<s, n>>] = {}
    BY DEF SpeechInv, SpeechOnce, SpeechAccounted, NoSpeechTwice
  <2>1. \A m, n \in Segments : m # n => rows[<<s, m>>] \cap rows[<<s, n>>] = {}
    BY DEF SpeechOK, RowsApart
  <2>2. ASSUME NEW q \in Seq(Segments), NEW n, Has(q, n) PROVE n \in ToSet(q)
    BY <2>2 DEF Has, ToSet
  <2>3. ASSUME NEW n \in 1 .. uploaded[s] PROVE n \in ToSet(queue[s]) \cup InHand(s) \cup ToSet(tail[s].held) \cup Written(s)
    <3>1. n \in Segments /\ n <= uploaded[s] /\ queue[s] \in Seq(Segments) /\ tail[s].held \in Seq(Segments)
          /\ tail[s].last \in 0 .. MaxSequence
      BY BoundsAssumption DEF AudioTyped, Segments, BoundsAssumption, Tails
    <3>2. ASSUME NEW a, NEW l \in 0 .. MaxSequence, Follows(s, a, l) PROVE Has(queue[s], n) \/ Has(a, n) \/ n \in Written(s)
      BY <3>1, <3>2 DEF Follows, Continues, Segments
    <3>3. CASE \A w \in Workers : ~Cutting(w, s)
      <4>1. Has(queue[s], n) \/ Has(tail[s].held, n) \/ n \in Written(s)
        BY <3>1, <3>2, <3>3 DEF SpeechOK
      <4> QED
        BY <2>2, <3>1, <4>1
    <3>4. ASSUME NEW w \in Workers, Cutting(w, s) PROVE n \in ToSet(queue[s]) \cup InHand(s) \cup Written(s)
      <4>1. job[w].last \in 0 .. MaxSequence /\ job[w].audio \in Seq(Segments) /\ Draining(w, s)
        BY <3>4, StepsTell DEF Cutting, Draining, AudioTyped
      <4>2. Has(queue[s], n) \/ Has(job[w].audio, n) \/ n \in Written(s)
        BY <3>2, <3>4, <4>1 DEF SpeechOK
      <4>3. Has(job[w].audio, n) => n \in InHand(s)
        <5>1. ToSet(job[w].audio) \subseteq InHand(s)
          BY <4>1 DEF InHand
        <5> QED
          BY <2>2, <4>1, <5>1
      <4> QED
        BY <2>2, <3>1, <4>2, <4>3
    <3> QED
      BY <3>3, <3>4
  <2> QED
    BY <2>1, <2>3
<1> QED
  BY AudioIsTyped, <1>1, <1>2, <1>3, PTL DEF Spec

-----------------------------------------------------------------------------
(* No row is created once the recording is complete.                        *)

\* Finalize is asked for by the stop only.
Finalizes(w) == job[w] \in Closings \/ (job[w] \in Drains /\ job[w].final)

StopAsked == stopsDue \in Nat /\ (stopsDue > 0 \/ (\E w \in Workers : Finalizes(w)) => stops > 0)

\* A drain that goes on is a finalizer's if it was.
LEMMA FinalizersGoOn ==
    ASSUME AudioTyped, NEW w \in Workers, HandsOn(w), Finalizes(w)', stopsDue = 0
    PROVE  Finalizes(w)
<1>0. Idle \notin Drains /\ Idle \notin Closings /\ Drains \cap Closings = {}
  BY DEF Idle, Drains, Closings
<1>1. ASSUME Turns(w, Idle) PROVE FALSE
  BY <1>0, <1>1 DEF Turns, Finalizes
<1>2. CASE Waits(w)
  <2>1. job[w].pc = "locking"
    BY <1>1, <1>2 DEF Waits
  <2> QED
    BY <2>1, StepsTell DEF AudioTyped, Finalizes
<1>3. CASE Dies(w) \/ Raises(w)
  BY <1>1, <1>3 DEF Dies, Raises
<1>4. ASSUME NEW pc, NEW a, NEW l, NEW m, NEW n, Becomes(w, pc, a, l, m, n) PROVE Finalizes(w)
  BY <1>0, <1>4 DEF Becomes, Goes, Finalizes
<1>5. CASE Marks(w)
  BY <1>4, <1>5, MarksBecomes, Zenon
<1>6. CASE TakesAudio(w)
  BY <1>4, <1>6, TakesBecomes, Zenon
<1>7. CASE CutsRow(w)
  BY <1>4, <1>7, CutsBecomes, Zenon
<1>8. CASE SettlesGroup(w)
  BY <1>4, <1>8, SettlesBecomes, Zenon
<1>9. CASE KeepsTail(w)
  BY <1>4, <1>9, KeepsBecomes, Zenon
<1>10. CASE Unlocks(w)
  <2>1. job[w] \in Drains
    BY <1>10, UnlocksBecomes
  <2>2. CASE job[w].final
    BY <2>1, <2>2 DEF Finalizes
  <2>3. CASE ~job[w].final
    BY <1>4, <1>10, <2>3, UnlocksBecomes, Zenon
  <2> QED
    BY <2>2, <2>3
<1> QED
  BY <1>2, <1>3, <1>5, <1>6, <1>7, <1>8, <1>9, <1>10 DEF HandsOn

\* Another task of it is asked for by the stop, or by one that must be retried.
LEMMA FinalizingAsked ==
    ASSUME AudioTyped, StateTyped, [Next]_vars, stopsDue \in Nat
    PROVE  /\ stopsDue' \in Nat
           /\ stopsDue' > 0 => stopsDue > 0 \/ (\E w \in Workers : Finalizes(w)) \/ stops' > 0
<1>1. ASSUME NEW w \in Workers, NEW s \in Sources, StartDrain(w, s) \/ SkipDrain(w, s) PROVE stopsDue' = stopsDue
  BY <1>1 DEF StartDrain, SkipDrain, tasks
<1>2. ASSUME NEW w \in Workers, StartFinalize(w) PROVE stopsDue > 0 /\ stopsDue' = stopsDue - 1
  BY <1>2 DEF StartFinalize
<1>3. ASSUME NEW w \in Workers, LockForFinal(w) PROVE Finalizes(w) /\ (stopsDue' = stopsDue \/ stopsDue' = stopsDue + 1)
  <2>1. job[w] \in Closings
    BY <1>3, StepsTell DEF LockForFinal, AudioTyped
  <2> QED
    BY <1>3, <2>1 DEF LockForFinal, Finalizes
<1>4. ASSUME NEW w \in Workers, LookAgain(w) \/ Close(w) \/ Take(w) \/ CutRow(w) \/ SaveMark(w) PROVE stopsDue' = stopsDue
  BY <1>4 DEF LookAgain, Close, Take, CutRow, SaveMark, tasks
<1>5. ASSUME NEW w \in Workers, Gather(w) \/ Hold(w) \/ Clear(w) \/ Dispatch(w) \/ Keep(w) \/ Unlock(w) PROVE stopsDue' = stopsDue
  BY <1>5 DEF Gather, Hold, Clear, Dispatch, Keep, Unlock, tasks
<1>6. ASSUME NEW w \in Workers, job[w] \in Drains, Raise(w)
      PROVE  stopsDue' = stopsDue \/ (Finalizes(w) /\ stopsDue' = stopsDue + 1)
  BY <1>6 DEF Raise, Finalizes
<1>7. ASSUME NEW w \in Workers, Mark(w) \/ MarkConflict(w)
      PROVE  stopsDue' = stopsDue \/ (Finalizes(w) /\ stopsDue' = stopsDue + 1)
  <2>1. job[w] \in Drains
    BY <1>7, StepsTell DEF Mark, MarkConflict, AudioTyped, DrainPcs
  <2>2. stopsDue' = stopsDue \/ Raise(w)
    BY <1>7 DEF Mark, MarkConflict, tasks, StateTyped
  <2> QED
    BY <1>6, <2>1, <2>2
<1>8. ASSUME NEW w \in Workers, Crash(w)
      PROVE  stopsDue' = stopsDue \/ (Finalizes(w) /\ stopsDue' = stopsDue + 1)
  <2>1. job[w] \in Closings \/ job[w] \in Drains
    BY <1>8, StepsTell DEF Crash, AudioTyped, Jobs, Idle
  <2> QED
    BY <1>8, <2>1 DEF Crash, Finalizes
<1>9. ASSUME NEW s \in Sources, Upload(s) \/ UploadAgain(s) \/ Expire(s) PROVE stopsDue' = stopsDue
  BY <1>9 DEF Upload, UploadAgain, Expire, tasks
<1>10. CASE Stop
  <2>1. stopsDue' = stopsDue + 1 /\ stops' = stops + 1
    BY <1>10 DEF Stop
  <2> QED
    BY <2>1 DEF AudioTyped
<1>11. CASE Transcribe \/ UNCHANGED vars
  BY <1>11 DEF Transcribe, vars, tasks
<1> QED
  BY <1>1, <1>2, <1>3, <1>4, <1>5, <1>7, <1>8, <1>9, <1>10, <1>11 DEF Next, Work

LEMMA StopsOnly ==
    ASSUME AudioTyped, AudioStep
    PROVE  stops' \in Nat /\ stops' >= stops
<1>1. ASSUME stops' = stops PROVE stops' \in Nat /\ stops' >= stops
  BY <1>1 DEF AudioTyped
<1>2. ASSUME NEW w \in Workers, NEW from, NEW j, DrainStep(w, from, j) PROVE stops' = stops
  BY <1>2 DEF DrainStep
<1>3. ASSUME NEW w \in Workers, HandsOn(w) PROVE stops' = stops
  <2>1. CASE Waits(w) \/ Dies(w) \/ Raises(w) \/ Marks(w)
    BY <2>1 DEF Waits, Dies, Raises, Marks
  <2>2. CASE TakesAudio(w)
    BY <1>2, <2>2, Zenon DEF TakesAudio
  <2>3. CASE CutsRow(w)
    BY <1>2, <2>3, Zenon DEF CutsRow
  <2>4. CASE SettlesGroup(w)
    BY <1>2, <2>4, Zenon DEF SettlesGroup
  <2>5. CASE KeepsTail(w) \/ Unlocks(w)
    BY <1>2, <2>5, Zenon DEF KeepsTail, Unlocks
  <2> QED
    BY <1>3, <2>1, <2>2, <2>3, <2>4, <2>5 DEF HandsOn
<1> QED
  BY <1>1, <1>3 DEF AudioStep, Elsewhere, Expires, Begins

LEMMA StopAskedStill ==
    ASSUME AudioTyped, StateTyped, AudioStep, [Next]_vars, StopAsked
    PROVE  StopAsked'
<1>1. stops' \in Nat /\ stops' >= stops /\ stops \in Nat
  BY StopsOnly DEF AudioTyped
<1>2. /\ stopsDue' \in Nat
      /\ stopsDue' > 0 => stopsDue > 0 \/ (\E w \in Workers : Finalizes(w)) \/ stops' > 0
  BY FinalizingAsked DEF StopAsked
<1>3. ASSUME NEW w \in Workers, Finalizes(w)' PROVE stopsDue > 0 \/ \E v \in Workers : Finalizes(v)
  <2>1. CASE job'[w] = job[w]
    BY <1>3, <2>1 DEF Finalizes
  <2>2. ASSUME NEW v \in Workers, HandsOn(v) PROVE stopsDue > 0 \/ Finalizes(w) \/ Finalizes(v)
    <3>1. CASE v = w
      BY <1>3, <2>2, <3>1, FinalizersGoOn DEF StopAsked
    <3>2. CASE v # w
      <4>1. job'[w] = job[w]
        <5>1. CASE Waits(v) \/ Dies(v) \/ Raises(v)
          BY <3>2, <5>1, LeavingIsDone
        <5>2. CASE Marks(v)
          BY <3>2, <5>2, MarksBecomes DEF Becomes
        <5>3. CASE TakesAudio(v)
          BY <3>2, <5>3, TakesBecomes DEF Becomes
        <5>4. CASE CutsRow(v)
          BY <3>2, <5>4, CutsBecomes DEF Becomes
        <5>5. CASE SettlesGroup(v)
          BY <3>2, <5>5, SettlesBecomes DEF Becomes
        <5>6. CASE KeepsTail(v)
          BY <3>2, <5>6, KeepsBecomes DEF Becomes
        <5>7. CASE Unlocks(v)
          BY <3>2, <5>7, UnlocksBecomes
        <5> QED
          BY <2>2, <5>1, <5>2, <5>3, <5>4, <5>5, <5>6, <5>7 DEF HandsOn
      <4> QED
        BY <1>3, <4>1 DEF Finalizes
    <3> QED
      BY <3>1, <3>2
  <2>3. ASSUME NEW v \in Workers, NEW s \in Sources, Begins(v, s) PROVE Finalizes(w) \/ Finalizes(v)
    <3>1. CASE v = w
      <4>1. job'[w] \in Drains /\ (job'[w].final = FALSE \/ job[w] \in Closings)
        BY <2>3, <3>1, BeginsBecomes
      <4>2. job'[w] \notin Closings
        BY <4>1 DEF Drains, Closings
      <4> QED
        BY <1>3, <3>1, <4>1, <4>2 DEF Finalizes
    <3>2. CASE v # w
      <4>1. job'[w] = job[w]
        BY <2>3, <3>2, BeginsBecomes
      <4> QED
        BY <1>3, <4>1 DEF Finalizes
    <3> QED
      BY <3>1, <3>2
  <2> QED
    BY <2>1, <2>2, <2>3 DEF AudioStep, Elsewhere, Expires
<1>4. stopsDue' > 0 => stops' > 0
  BY <1>1, <1>2 DEF StopAsked
<1>5. (\E w \in Workers : Finalizes(w)') => stops' > 0
  BY <1>1, <1>3 DEF StopAsked
<1> QED
  BY <1>2, <1>4, <1>5 DEF StopAsked

\* Who waits for the lock or looks at the queue has no audio in hand, and looking is
\* not for finalize.
Quiet == \A w \in Workers : job[w] \in Drains /\ job[w].pc \in {"taking", "looking"} =>
                               job[w].audio = <<>> /\ (job[w].pc = "looking" => ~job[w].final)

\* The parts of a sequence.
LEMMA PartsOfSequences ==
    ASSUME NEW q \in Seq(Segments), NEW r \in Seq(Segments)
    PROVE  /\ \A n \in 0 .. Len(q) : /\ ToSet(SubSeq(q, 1, n)) \subseteq ToSet(q) /\ SubSeq(q, 1, n) \in Seq(Segments)
                                     /\ ToSet(SubSeq(q, n + 1, Len(q))) \subseteq ToSet(q)
           /\ ToSet(q \o r) \subseteq ToSet(q) \cup ToSet(r)
           /\ \A n \in Segments : ToSet(Append(q, n)) \subseteq ToSet(q) \cup {n}
           /\ ToSet(<<>>) = {}
           /\ q # <<>> => ToSet(q) # {}
<1>1. ASSUME NEW n \in 0 .. Len(q) PROVE ToSet(SubSeq(q, 1, n)) \subseteq ToSet(q) /\ SubSeq(q, 1, n) \in Seq(Segments)
  BY <1>1 DEF ToSet
<1>2. ASSUME NEW n \in 0 .. Len(q) PROVE ToSet(SubSeq(q, n + 1, Len(q))) \subseteq ToSet(q)
  <2> DEFINE z == SubSeq(q, n + 1, Len(q))
  <2>1. Len(z) = Len(q) - n /\ z \in Seq(Segments) /\ \A i \in 1 .. Len(z) : z[i] = q[n + i] /\ n + i \in 1 .. Len(q)
    BY <1>2
  <2> HIDE DEF z
  <2> QED
    BY <2>1 DEF ToSet, z
<1>3. ToSet(q \o r) \subseteq ToSet(q) \cup ToSet(r)
  <2> DEFINE z == q \o r
  <2>1. /\ z \in Seq(Segments) /\ Len(z) = Len(q) + Len(r) /\ Len(q) \in Nat /\ Len(r) \in Nat
        /\ \A i \in 1 .. Len(z) : z[i] = IF i <= Len(q) THEN q[i] ELSE r[i - Len(q)]
    OBVIOUS
  <2> HIDE DEF z
  <2>2. ASSUME NEW i \in 1 .. Len(z) PROVE z[i] \in ToSet(q) \cup ToSet(r)
    <3>1. CASE i <= Len(q)
      <4>1. i \in DOMAIN q /\ z[i] = q[i]
        BY <2>1, <2>2, <3>1
      <4> QED
        BY <4>1 DEF ToSet
    <3>2. CASE ~(i <= Len(q))
      <4>1. i - Len(q) \in DOMAIN r /\ z[i] = r[i - Len(q)]
        BY <2>1, <2>2, <3>2
      <4> QED
        BY <4>1 DEF ToSet
    <3> QED
      BY <3>1, <3>2
  <2>3. DOMAIN z = 1 .. Len(z)
    BY <2>1
  <2> QED
    BY <2>2, <2>3 DEF ToSet, z
<1>4. ASSUME NEW n \in Segments PROVE ToSet(Append(q, n)) \subseteq ToSet(q) \cup {n}
  BY <1>4 DEF ToSet
<1>5. ToSet(<<>>) = {}
  BY DEF ToSet
<1>6. q # <<>> => ToSet(q) # {}
  <2>1. q # <<>> => 1 \in DOMAIN q
    OBVIOUS
  <2> QED
    BY <2>1 DEF ToSet
<1> QED
  BY <1>1, <1>2, <1>3, <1>4, <1>5, <1>6

LEMMA FreshIsPopped ==
    ASSUME NEW q \in Seq(Segments), NEW l \in 0 .. MaxSequence
    PROVE  Fresh(q, l) \in Seq(Segments) /\ ToSet(Fresh(q, l)) \subseteq ToSet(q)
<1>1. PICK y : y = Fresh(q, l)
  OBVIOUS
<1>2. y \in Seq(Segments) /\ \A n \in Segments : (\E i \in 1 .. Len(y) : y[i] = n) <=> (n > l /\ \E i \in 1 .. Len(q) : q[i] = n)
  BY <1>1, FreshOnce, Zenon
<1>3. ASSUME NEW i \in 1 .. Len(y) PROVE y[i] \in ToSet(q)
  <2>1. y[i] \in Segments
    BY <1>2, <1>3
  <2>2. \E j \in 1 .. Len(q) : q[j] = y[i]
    BY <1>2, <1>3, <2>1
  <2> QED
    BY <2>2 DEF ToSet
<1>4. ToSet(y) \subseteq ToSet(q)
  BY <1>2, <1>3 DEF ToSet
<1> QED
  BY <1>1, <1>2, <1>4

\* A drain takes from the head of its queue.
LEMMA TakenFromQueue ==
    ASSUME AudioTyped, NEW w \in Workers, TakesAudio(w), NEW s \in Sources
    PROVE  ToSet(queue'[s]) \subseteq ToSet(queue[s])
<1>1. PICK t, n : /\ n = IF Len(queue[t]) < MaxPerDrain THEN Len(queue[t]) ELSE MaxPerDrain
                  /\ queue' = [queue EXCEPT ![t] = SubSeq(queue[t], n + 1, Len(queue[t]))]
  BY DEF TakesAudio
<1>2. CASE t = s
  <2>1. queue[s] \in Seq(Segments)
    BY DEF AudioTyped
  <2>2. n \in 0 .. Len(queue[s])
    BY <1>1, <1>2, <2>1, BoundsAssumption DEF BoundsAssumption
  <2>3. queue'[s] = SubSeq(queue[s], n + 1, Len(queue[s]))
    BY <1>1, <1>2 DEF AudioTyped
  <2> QED
    BY <2>1, <2>2, <2>3, PartsOfSequences
<1>3. CASE t # s
  BY <1>1, <1>3 DEF AudioTyped
<1> QED
  BY <1>2, <1>3

\* What waits, once the stop was asked for, came late if all that waited before did.
LEMMA QueueStaysLate ==
    ASSUME AudioTyped, AudioStep, stops > 0, NEW s \in Sources, ToSet(queue[s]) \subseteq late[s]
    PROVE  ToSet(queue'[s]) \subseteq late'[s]
<1>0. late[s] \subseteq late'[s] /\ queue[s] \in Seq(Segments)
  BY HistoryGrows DEF AudioTyped
<1>1. ASSUME queue'[s] = queue[s] PROVE ToSet(queue'[s]) \subseteq late'[s]
  BY <1>0, <1>1
<1>2. CASE Elsewhere
  <2>1. ASSUME NEW t \in Sources, NEW n \in Segments, queue' = [queue EXCEPT ![t] = Append(queue[t], n)],
               late' = IF stops > 0 THEN [late EXCEPT ![t] = late[t] \cup {n}] ELSE late
        PROVE  ToSet(queue'[s]) \subseteq late'[s]
    <3>1. CASE t = s
      <4>1. queue'[s] = Append(queue[s], n) /\ late'[s] = late[s] \cup {n}
        BY <2>1, <3>1 DEF AudioTyped
      <4>2. ToSet(Append(queue[s], n)) \subseteq ToSet(queue[s]) \cup {n}
        BY <1>0, PartsOfSequences
      <4> QED
        BY <4>1, <4>2
    <3>2. CASE t # s
      BY <1>1, <2>1, <3>2 DEF AudioTyped
    <3> QED
      BY <3>1, <3>2
  <2>2. \A t \in Sources : uploaded[t] \in 0 .. MaxSequence
    BY DEF AudioTyped
  <2>3. \A t \in Sources : /\ uploaded[t] < MaxSequence => uploaded[t] + 1 \in Segments
                           /\ \A n \in 1 .. uploaded[t] : n \in Segments
    BY <2>2, BoundsAssumption DEF Segments, BoundsAssumption
  <2>4. CASE queue' = queue
    BY <1>1, <2>4
  <2>5. CASE \E t \in Sources :
               /\ uploaded[t] < MaxSequence
               /\ queue' = [queue EXCEPT ![t] = Append(queue[t], uploaded[t] + 1)]
               /\ late' = IF stops > 0 THEN [late EXCEPT ![t] = late[t] \cup {uploaded[t] + 1}] ELSE late
    BY <2>1, <2>3, <2>5
  <2>6. CASE \E t \in Sources : \E n \in 1 .. uploaded[t] :
               /\ queue' = [queue EXCEPT ![t] = Append(queue[t], n)]
               /\ late' = IF stops > 0 THEN [late EXCEPT ![t] = late[t] \cup {n}] ELSE late
    BY <2>1, <2>3, <2>6
  <2> QED
    BY <1>2, <2>4, <2>5, <2>6 DEF Elsewhere
<1>3. ASSUME NEW t \in Sources, Expires(t) PROVE ToSet(queue'[s]) \subseteq late'[s]
  BY <1>1, <1>3 DEF Expires
<1>4. ASSUME NEW w \in Workers, NEW t \in Sources, Begins(w, t) PROVE ToSet(queue'[s]) \subseteq late'[s]
  BY <1>1, <1>4 DEF Begins
<1>5. ASSUME NEW w \in Workers, Waits(w) \/ Dies(w) \/ Raises(w) \/ Marks(w) \/ CutsRow(w) \/ SettlesGroup(w)
                                \/ KeepsTail(w) \/ Unlocks(w)
      PROVE  ToSet(queue'[s]) \subseteq late'[s]
  <2>1. queue' = queue
    BY <1>5 DEF Waits, Dies, Raises, Marks, CutsRow, SettlesGroup, KeepsTail, Unlocks
  <2> QED
    BY <1>1, <2>1
<1>6. ASSUME NEW w \in Workers, TakesAudio(w) PROVE ToSet(queue'[s]) \subseteq late'[s]
  BY <1>0, <1>6, TakenFromQueue
<1> QED
  BY <1>2, <1>3, <1>4, <1>5, <1>6 DEF AudioStep, HandsOn

\* Nothing is left of a source but what came late: it waits, is held for another
\* drain, or in the hands of one.
Drained(s) ==
    /\ stops > 0 /\ ToSet(queue[s]) \subseteq late[s] /\ ToSet(tail[s].held) \subseteq late[s]
    /\ \A w \in Workers : Draining(w, s) => ToSet(job[w].audio) \subseteq late[s]

\* What finalize has got done.
FinalOK(w) ==
    /\ job[w] \in Closings =>
          /\ \A s \in Sources \ (job[w].todo \cup met) : Drained(s)
          /\ job[w].pc = "closing" => job[w].todo = {}
    /\ job[w] \in Drains /\ job[w].final =>
          /\ \A s \in Sources \ (job[w].todo \cup {job[w].source} \cup met) : Drained(s)
          /\ job[w].pc # "taking" => ToSet(queue[job[w].source]) \subseteq late[job[w].source]
          /\ job[w].pc \in {"gathering", "dispatching", "keeping", "unlocking"} => job[w].audio = <<>>
          /\ job[w].pc = "unlocking" /\ job[w].source \notin met => tail[job[w].source].held = <<>>

CloseOK == (\A w \in Workers : FinalOK(w)) /\ (closed => \A s \in Sources \ met : Drained(s))

LEMMA QuietStays == ASSUME AudioTyped, AudioStep, Quiet PROVE Quiet'
<1>1. ASSUME NEW w \in Workers, \A v \in Workers \ {w} : job'[v] = job[v],
             job'[w] \in Drains /\ job'[w].pc \in {"taking", "looking"} =>
                job'[w].audio = <<>> /\ (job'[w].pc = "looking" => ~job'[w].final)
      PROVE  Quiet'
  BY <1>1 DEF Quiet
<1>2. CASE job' = job
  BY <1>2 DEF Quiet
<1>3. ASSUME NEW w \in Workers, NEW s \in Sources, Begins(w, s) PROVE Quiet'
  BY <1>1, <1>3, BeginsBecomes
<1>4. ASSUME NEW w \in Workers, Waits(w) \/ Dies(w) \/ Raises(w) PROVE Quiet'
  BY <1>1, <1>4, LeavingIsDone
<1>5. ASSUME NEW w \in Workers, NEW pc, NEW a, NEW l, NEW m, NEW n, Becomes(w, pc, a, l, m, n), pc \notin {"taking", "looking"} PROVE Quiet'
  BY <1>1, <1>5 DEF Becomes, Goes
<1>6. ASSUME NEW w \in Workers, Marks(w) PROVE Quiet'
  <2>1. \E pc \in {"saving", "cutting"} : \E m, n : Becomes(w, pc, job[w].audio, job[w].last, m, n)
    BY <1>6, MarksBecomes, Zenon
  <2> QED
    BY <1>5, <2>1
<1>7. ASSUME NEW w \in Workers, TakesAudio(w) PROVE Quiet'
  <2>1. \E pc \in {"unlocking", "cutting"} : \E a, l : Becomes(w, pc, a, l, job[w].members, job[w].new)
    BY <1>7, TakesBecomes, Zenon
  <2> QED
    BY <1>5, <2>1
<1>8. ASSUME NEW w \in Workers, CutsRow(w) PROVE Quiet'
  <2>1. \E pc \in {"marking", "cutting"} : \E a, l, n : Becomes(w, pc, a, l, job[w].members, n)
    BY <1>8, CutsBecomes, Zenon
  <2> QED
    BY <1>5, <2>1
<1>9. ASSUME NEW w \in Workers, SettlesGroup(w) PROVE Quiet'
  BY <1>5, <1>9, SettlesBecomes
<1>10. ASSUME NEW w \in Workers, KeepsTail(w) PROVE Quiet'
  BY <1>5, <1>10, KeepsBecomes
<1>11. ASSUME NEW w \in Workers, Unlocks(w) PROVE Quiet'
  <2>1. \A v \in Workers \ {w} : job'[v] = job[v]
    BY <1>11, UnlocksBecomes
  <2>2. CASE job'[w] \notin Drains
    BY <1>1, <2>1, <2>2
  <2>3. CASE ~job[w].final /\ Becomes(w, "looking", <<>>, job[w].last, {}, job[w].new)
    <3>1. job'[w].audio = <<>> /\ ~job'[w].final
      BY <2>3 DEF Becomes, Goes
    <3> QED
      BY <1>1, <2>1, <3>1
  <2> QED
    BY <1>11, <2>2, <2>3, UnlocksBecomes
<1> QED
  BY <1>2, <1>3, <1>4, <1>6, <1>7, <1>8, <1>9, <1>10, <1>11 DEF AudioStep, HandsOn, Elsewhere, Expires

\* No step gives a drain, or the tail, of a source of which nothing is left anything
\* but what came late.
LEMMA DrainedStays ==
    ASSUME AudioTyped, AudioStep, NEW s \in Sources, Drained(s)
    PROVE  Drained(s)'
<1>0. /\ stops' > 0 /\ ToSet(queue'[s]) \subseteq late'[s] /\ late[s] \subseteq late'[s]
      /\ ToSet(tail[s].held) \subseteq late[s] /\ ToSet(<<>>) = {}
  <2>1. stops > 0 /\ ToSet(queue[s]) \subseteq late[s] /\ ToSet(tail[s].held) \subseteq late[s]
    BY DEF Drained
  <2>2. stops' > 0
    BY <2>1, StopsOnly DEF AudioTyped
  <2>3. ToSet(queue'[s]) \subseteq late'[s] /\ late[s] \subseteq late'[s]
    BY <2>1, QueueStaysLate, HistoryGrows
  <2>4. ToSet(<<>>) = {}
    BY DEF ToSet
  <2> QED
    BY <2>1, <2>2, <2>3, <2>4
<1>00. ASSUME NEW w \in Workers, Draining(w, s) PROVE ToSet(job[w].audio) \subseteq late[s]
  BY <1>00 DEF Drained
<1>1. ASSUME ToSet(tail'[s].held) \subseteq late[s], NEW w \in Workers, \A v \in Workers \ {w} : job'[v] = job[v],
             Draining(w, s)' => ToSet(job'[w].audio) \subseteq late[s]
      PROVE  Drained(s)'
  <2>1. ASSUME NEW v \in Workers, Draining(v, s)' PROVE ToSet(job'[v].audio) \subseteq late'[s]
    <3>1. CASE v = w
      BY <1>0, <1>1, <2>1, <3>1
    <3>2. CASE v # w
      <4>1. job'[v] = job[v] /\ Draining(v, s)
        BY <1>1, <2>1, <3>2 DEF Draining
      <4> QED
        BY <1>0, <1>00, <4>1
    <3> QED
      BY <3>1, <3>2
  <2>2. ToSet(tail'[s].held) \subseteq late'[s]
    BY <1>0, <1>1
  <2> QED
    BY <1>0, <2>1, <2>2 DEF Drained
<1>2. ASSUME tail' = tail, job' = job PROVE Drained(s)'
  <2>1. \A v \in Workers : Draining(v, s)' => ToSet(job'[v].audio) \subseteq late'[s]
    BY <1>0, <1>00, <1>2 DEF Draining
  <2>2. ToSet(tail'[s].held) \subseteq late'[s]
    BY <1>0, <1>2
  <2> QED
    BY <1>0, <2>1, <2>2 DEF Drained
<1>3. CASE Elsewhere
  BY <1>2, <1>3 DEF Elsewhere
<1>4. ASSUME NEW t \in Sources, Expires(t) PROVE Drained(s)'
  BY <1>2, <1>4 DEF Expires
<1>5. ASSUME NEW w \in Workers, NEW t \in Sources, Begins(w, t) PROVE Drained(s)'
  <2>1. job'[w].audio = <<>> /\ \A v \in Workers \ {w} : job'[v] = job[v]
    BY <1>5, BeginsBecomes
  <2>2. tail' = tail
    BY <1>5 DEF Begins
  <2> QED
    BY <1>0, <1>1, <2>1, <2>2
<1>6. ASSUME NEW w \in Workers, Waits(w) \/ Dies(w) \/ Raises(w) PROVE Drained(s)'
  <2>1. job'[w] \notin Drains /\ \A v \in Workers \ {w} : job'[v] = job[v]
    BY <1>6, LeavingIsDone
  <2>2. tail' = tail
    BY <1>6 DEF Waits, Dies, Raises
  <2>3. ~Draining(w, s)'
    BY <2>1 DEF Draining
  <2> QED
    BY <1>0, <1>1, <2>1, <2>2, <2>3
\* A drain goes on with part of the audio it had.
<1>7. ASSUME NEW w \in Workers, NEW pc, NEW a, NEW l, NEW m, NEW n, Becomes(w, pc, a, l, m, n),
             Draining(w, s) => ToSet(a) \subseteq late[s], ToSet(tail'[s].held) \subseteq late[s]
      PROVE  Drained(s)'
  <2>1. /\ job[w] \in Drains /\ job'[w].source = job[w].source /\ job'[w].audio = a
        /\ \A v \in Workers \ {w} : job'[v] = job[v]
    BY <1>7 DEF Becomes, Goes
  <2>2. Draining(w, s)' => ToSet(job'[w].audio) \subseteq late[s]
    BY <1>7, <2>1 DEF Draining
  <2> QED
    BY <1>1, <1>7, <2>1, <2>2
<1>8. ASSUME NEW w \in Workers, Marks(w) PROVE Drained(s)'
  <2>1. tail' = tail
    BY <1>8 DEF Marks
  <2> QED
    BY <1>0, <1>00, <1>7, <1>8, <2>1, MarksBecomes
<1>9. ASSUME NEW w \in Workers, SettlesGroup(w) PROVE Drained(s)'
  <2>1. tail' = tail
    BY <1>9, SettlesBecomes
  <2> QED
    BY <1>0, <1>00, <1>7, <1>9, <2>1, SettlesBecomes
<1>10. ASSUME NEW w \in Workers, KeepsTail(w) PROVE Drained(s)'
  <2>1. tail' = [tail EXCEPT ![Source(w)] = [held |-> job[w].audio, last |-> job[w].last]]
    BY <1>10 DEF KeepsTail
  <2>2. Becomes(w, "unlocking", job[w].audio, job[w].last, job[w].members, job[w].new)
    BY <1>10, KeepsBecomes
  <2>3. job[w] \in Drains /\ Source(w) = job[w].source
    BY <2>2 DEF Becomes, Source
  <2>4. CASE Source(w) = s
    <3>1. tail'[s].held = job[w].audio
      BY <2>1, <2>4 DEF AudioTyped
    <3>2. ToSet(job[w].audio) \subseteq late[s]
      BY <1>00, <2>3, <2>4 DEF Draining
    <3> QED
      BY <1>7, <2>2, <3>1, <3>2
  <2>5. CASE Source(w) # s
    <3>1. tail'[s] = tail[s]
      BY <2>1, <2>5 DEF AudioTyped
    <3> QED
      BY <1>0, <1>00, <1>7, <2>2, <3>1
  <2> QED
    BY <2>4, <2>5
<1>11. ASSUME NEW w \in Workers, Unlocks(w) PROVE Drained(s)'
  <2>1. tail' = tail
    BY <1>11 DEF Unlocks
  <2>2. CASE job'[w] \notin Drains
    <3>1. \A v \in Workers \ {w} : job'[v] = job[v]
      BY <1>11, UnlocksBecomes
    <3>2. ~Draining(w, s)'
      BY <2>2 DEF Draining
    <3> QED
      BY <1>0, <1>1, <2>1, <3>1, <3>2
  <2>3. CASE Becomes(w, "looking", <<>>, job[w].last, {}, job[w].new)
    BY <1>0, <1>7, <2>1, <2>3
  <2> QED
    BY <1>11, <2>2, <2>3, UnlocksBecomes
<1>12. ASSUME NEW w \in Workers, CutsRow(w) PROVE Drained(s)'
  <2>1. tail' = tail
    BY <1>12 DEF CutsRow
  <2>2. PICK end : end = Min(Ends(w)) /\ end \in 1 .. Len(job[w].audio)
    BY <1>12 DEF CutsRow
  <2>3. PICK a : a = SubSeq(job[w].audio, end + 1, Len(job[w].audio))
    OBVIOUS
  <2>4. \E pc, m, n : Becomes(w, pc, a, job[w].last, m, n)
    BY <1>12, <2>2, <2>3, CutsBecomes, Zenon
  <2>5. job[w].audio \in Seq(Segments)
    BY <2>4, StepsTell DEF Becomes, AudioTyped
  <2>6. ToSet(a) \subseteq ToSet(job[w].audio)
    <3>1. end \in 0 .. Len(job[w].audio)
      BY <2>2, <2>5
    <3> QED
      BY <2>3, <2>5, <3>1, PartsOfSequences
  <2> QED
    BY <1>0, <1>00, <1>7, <2>1, <2>4, <2>6
<1>13. ASSUME NEW w \in Workers, TakesAudio(w) PROVE Drained(s)'
  <2>0. tail' = tail
    BY <1>13 DEF TakesAudio
  <2>1. PICK t : t = Source(w)
    OBVIOUS
  <2>2. PICK n : n = IF Len(queue[t]) < MaxPerDrain THEN Len(queue[t]) ELSE MaxPerDrain
    OBVIOUS
  <2>3. PICK p : p = SubSeq(queue[t], 1, n)
    OBVIOUS
  <2>4. PICK new : new = Fresh(p, tail[t].last)
    OBVIOUS
  <2>5. \/ Becomes(w, "unlocking", job[w].audio, job[w].last, job[w].members, job[w].new)
        \/ \E l : Becomes(w, "cutting", tail[t].held \o new, l, job[w].members, job[w].new)
    BY <1>13, <2>1, <2>2, <2>3, <2>4, TakesBecomes, Zenon
  <2>6. ASSUME Draining(w, s) PROVE ToSet(tail[t].held \o new) \subseteq late[s]
    <3>1. t = s /\ queue[s] \in Seq(Segments) /\ tail[s].held \in Seq(Segments) /\ tail[s].last \in 0 .. MaxSequence
      BY <2>1, <2>6 DEF Draining, Source, AudioTyped, Tails
    <3>2. n \in 0 .. Len(queue[s])
      BY <2>2, <3>1, BoundsAssumption DEF BoundsAssumption
    <3>3. p \in Seq(Segments) /\ ToSet(p) \subseteq ToSet(queue[s])
      BY <2>3, <3>1, <3>2, PartsOfSequences
    <3>4. new \in Seq(Segments) /\ ToSet(new) \subseteq ToSet(p)
      BY <2>4, <3>1, <3>3, FreshIsPopped
    <3>5. ToSet(tail[s].held \o new) \subseteq ToSet(tail[s].held) \cup ToSet(new)
      BY <3>1, <3>4, PartsOfSequences
    <3>6. ToSet(queue[s]) \subseteq late[s]
      BY DEF Drained
    <3> QED
      BY <1>0, <3>1, <3>3, <3>4, <3>5, <3>6
  <2> QED
    BY <1>0, <1>00, <1>7, <2>0, <2>5, <2>6
<1> QED
  BY <1>3, <1>4, <1>5, <1>6, <1>8, <1>9, <1>10, <1>11, <1>12, <1>13 DEF AudioStep, HandsOn


\* What is left is what the finalizer's own step leaves.
LEMMA FinalStays ==
    ASSUME AudioTyped, AudioTyped', AudioStep, OneAtWork, StopAsked, Quiet, CloseOK
    PROVE  CloseOK'
<1>1. \A s \in Sources : Drained(s) => Drained(s)'
  BY DrainedStays
<1>2. \A s \in Sources : stops > 0 /\ ToSet(queue[s]) \subseteq late[s] => ToSet(queue'[s]) \subseteq late'[s]
  BY QueueStaysLate
<1>0. met \subseteq met'
  BY HistoryGrows
\* The tail of a source that a finalizer drains is saved by that one only.
<1>3. ASSUME NEW v \in Workers, job'[v] = job[v], job[v] \in Drains, job[v].final, job[v].pc # "taking",
             job[v].source \notin met, tail'[job[v].source] # tail[job[v].source]
      PROVE  FALSE
  <2>1. PICK w \in Workers : KeepsTail(w)
    <3>1. tail' # tail
      BY <1>3
    <3> QED
      BY <3>1 DEF AudioStep, HandsOn, Elsewhere, Expires, Begins, Waits, Dies, Raises, Marks, TakesAudio, CutsRow, SettlesGroup, Unlocks
  <2>2. job[w].pc = "keeping" /\ job[w] \in Drains /\ job'[w].pc = "unlocking"
    BY <2>1, KeepsBecomes DEF Becomes, Goes
  <2>3. tail' = [tail EXCEPT ![job[w].source] = [held |-> job[w].audio, last |-> job[w].last]]
    BY <2>1 DEF KeepsTail, Source
  <2>4. job[v].source \in Sources
    BY <1>3, StepsTell DEF AudioTyped
  <2>5. job[v].source = job[w].source
    BY <1>3, <2>3, <2>4 DEF AudioTyped
  <2>6. AtWork(w, job[v].source) /\ AtWork(v, job[v].source)
    BY <1>3, <2>2, <2>5 DEF AtWork, Draining, Quiet
  <2>7. v = w
    BY <1>3, <2>4, <2>6 DEF OneAtWork
  <2> QED
    BY <1>3, <2>2, <2>7
<1>4. ASSUME NEW v \in Workers, job'[v] = job[v] PROVE FinalOK(v)'
  <2>1. FinalOK(v)
    BY DEF CloseOK
  <2>2. CASE job[v] \in Drains /\ job[v].final
    <3>1. stops > 0
      BY <2>2 DEF StopAsked, Finalizes
    <3>2. PICK s \in Sources : s = job[v].source
      BY <2>2, StepsTell DEF AudioTyped
    <3>3. \A t \in Sources \ (job[v].todo \cup {s} \cup met') : Drained(t)'
      BY <1>0, <1>1, <2>1, <2>2, <3>2 DEF FinalOK
    <3>4. job[v].pc # "taking" => ToSet(queue'[s]) \subseteq late'[s]
      BY <1>2, <2>1, <2>2, <3>1, <3>2 DEF FinalOK
    <3>5. job[v].pc = "unlocking" /\ s \notin met' => tail'[s].held = <<>>
      BY <1>0, <1>3, <1>4, <2>1, <2>2, <3>2 DEF FinalOK
    <3>6. job[v].pc \in {"gathering", "dispatching", "keeping", "unlocking"} => job[v].audio = <<>>
      BY <2>1, <2>2 DEF FinalOK
    <3>7. job[v] \notin Closings
      BY <2>2 DEF Drains, Closings
    <3> QED
      BY <1>4, <3>2, <3>3, <3>4, <3>5, <3>6, <3>7 DEF FinalOK
  <2>3. CASE ~(job[v] \in Drains /\ job[v].final)
    BY <1>0, <1>1, <1>4, <2>1, <2>3 DEF FinalOK
  <2> QED
    BY <2>2, <2>3
<1>5. ASSUME closed' = closed, NEW w \in Workers, \A v \in Workers \ {w} : job'[v] = job[v], FinalOK(w)' PROVE CloseOK'
  BY <1>0, <1>1, <1>4, <1>5 DEF CloseOK
<1>6. CASE Elsewhere
  <2>1. job' = job /\ closed' = closed
    BY <1>6 DEF Elsewhere
  <2> QED
    BY <1>0, <1>1, <1>4, <2>1 DEF CloseOK
<1>7. ASSUME NEW s \in Sources, Expires(s) PROVE CloseOK'
  <2>1. job' = job /\ closed' = closed
    BY <1>7 DEF Expires
  <2> QED
    BY <1>0, <1>1, <1>4, <2>1 DEF CloseOK
<1>8. ASSUME NEW w \in Workers, job'[w] = Idle PROVE FinalOK(w)'
  <2>1. Idle \notin Closings /\ Idle \notin Drains
    BY DEF Idle, Closings, Drains
  <2> QED
    BY <1>8, <2>1 DEF FinalOK
<1>9. ASSUME NEW w \in Workers, NEW s \in Sources, Begins(w, s) PROVE CloseOK'
  <2>1. closed' = closed
    BY <1>9 DEF Begins
  <2>2. /\ job'[w] \in Drains /\ job'[w].pc = "taking" /\ job'[w].source = s /\ \A v \in Workers \ {w} : job'[v] = job[v]
        /\ \/ job'[w].final = FALSE
           \/ job'[w].final = TRUE /\ job[w] \in Closings /\ s \in job[w].todo /\ job'[w].todo = job[w].todo \ {s}
    BY <1>9, BeginsBecomes
  <2>3. job'[w] \notin Closings
    BY <2>2 DEF Drains, Closings
  <2>4. CASE job'[w].final = FALSE
    <3>1. FinalOK(w)'
      BY <2>2, <2>3, <2>4 DEF FinalOK
    <3> QED
      BY <1>5, <2>1, <2>2, <3>1
  <2>5. CASE job[w] \in Closings /\ s \in job[w].todo /\ job'[w].todo = job[w].todo \ {s}
    <3>1. \A t \in Sources \ ((job[w].todo \ {s}) \cup {s} \cup met') : Drained(t)'
      BY <1>0, <1>1, <2>5 DEF CloseOK, FinalOK
    <3>2. FinalOK(w)'
      BY <2>2, <2>3, <2>5, <3>1 DEF FinalOK
    <3> QED
      BY <1>5, <2>1, <2>2, <3>2
  <2> QED
    BY <2>2, <2>4, <2>5
<1>10. ASSUME NEW w \in Workers, Dies(w) \/ Raises(w) PROVE CloseOK'
  <2>1. closed' = closed /\ job'[w] = Idle /\ \A v \in Workers \ {w} : job'[v] = job[v]
    BY <1>10 DEF Dies, Raises, Turns
  <2> QED
    BY <1>5, <1>8, <2>1
<1>11. ASSUME NEW w \in Workers, Waits(w) PROVE CloseOK'
  <2>1. job'[w] \notin Drains /\ \A v \in Workers \ {w} : job'[v] = job[v]
    BY <1>11, LeavingIsDone
  <2>2. FinalOK(w)'
    <3>1. CASE Turns(w, Idle)
      BY <1>8, <3>1 DEF Turns
    <3>2. CASE Turns(w, [pc |-> "locking", todo |-> Sources])
      <4>1. job'[w].todo = Sources /\ job'[w].pc = "locking"
        BY <3>2 DEF Turns
      <4> QED
        BY <2>1, <4>1 DEF FinalOK
    <3>3. CASE job[w].pc = "locking" /\ job[w].todo = {} /\ Turns(w, [pc |-> "closing", todo |-> {}])
      <4>1. job'[w].todo = {} /\ job'[w].pc = "closing"
        BY <3>3 DEF Turns
      <4>2. job[w] \in Closings
        BY <3>3, StepsTell DEF AudioTyped
      <4>3. \A s \in Sources \ met' : Drained(s)'
        BY <1>0, <1>1, <3>3, <4>2 DEF CloseOK, FinalOK
      <4> QED
        BY <2>1, <4>1, <4>3 DEF FinalOK
    <3> QED
      BY <1>11, <3>1, <3>2, <3>3 DEF Waits
  <2>3. closed' => \A s \in Sources \ met' : Drained(s)'
    <3>1. CASE closed' = closed
      BY <1>0, <1>1, <3>1 DEF CloseOK
    <3>2. CASE job[w].pc = "closing"
      <4>1. job[w] \in Closings
        BY <3>2, StepsTell DEF AudioTyped
      <4> QED
        BY <1>0, <1>1, <3>2, <4>1 DEF CloseOK, FinalOK
    <3> QED
      BY <1>11, <3>1, <3>2 DEF Waits
  <2> QED
    BY <1>4, <2>1, <2>2, <2>3 DEF CloseOK
\* The drain of w goes on for finalize.
<1>12. ASSUME NEW w \in Workers, NEW pc, NEW a, NEW l, NEW m, NEW n, Becomes(w, pc, a, l, m, n), closed' = closed,
              NEW s \in Sources, s = job[w].source,
              job[w].final => /\ pc # "taking" => ToSet(queue'[s]) \subseteq late'[s]
                              /\ pc \in {"gathering", "dispatching", "keeping", "unlocking"} => a = <<>>
                              /\ pc = "unlocking" /\ s \notin met' => tail'[s].held = <<>>
       PROVE  CloseOK'
  <2>1. /\ job[w] \in Drains /\ job'[w] \in Drains /\ job'[w].pc = pc /\ job'[w].audio = a
        /\ job'[w].source = s /\ job'[w].final = job[w].final /\ job'[w].todo = job[w].todo
        /\ \A v \in Workers \ {w} : job'[v] = job[v]
    BY <1>12 DEF Becomes, Goes
  <2>2. job'[w] \notin Closings
    BY <2>1 DEF Drains, Closings
  <2>3. job[w].final => \A t \in Sources \ (job[w].todo \cup {s} \cup met') : Drained(t)'
    BY <1>0, <1>1, <1>12, <2>1 DEF CloseOK, FinalOK
  <2>4. FinalOK(w)'
    BY <1>12, <2>1, <2>2, <2>3 DEF FinalOK
  <2> QED
    BY <1>5, <1>12, <2>1, <2>4
<1>13. ASSUME NEW w \in Workers, job[w] \in Drains
       PROVE  \E s \in Sources : /\ s = job[w].source
                                 /\ job[w].final /\ job[w].pc # "taking" => ToSet(queue'[s]) \subseteq late'[s]
  <2>1. PICK s \in Sources : s = job[w].source
    BY <1>13, StepsTell DEF AudioTyped
  <2>2. job[w].final => stops > 0
    BY <1>13 DEF StopAsked, Finalizes
  <2>3. job[w].final /\ job[w].pc # "taking" => ToSet(queue[s]) \subseteq late[s]
    BY <1>13, <2>1 DEF CloseOK, FinalOK
  <2> QED
    BY <1>2, <2>1, <2>2, <2>3
<1>14. ASSUME NEW w \in Workers, Marks(w) PROVE CloseOK'
  <2>1. closed' = closed /\ job[w] \in Drains /\ job[w].pc # "taking"
    BY <1>14 DEF Marks
  <2>2. PICK s \in Sources : s = job[w].source /\ (job[w].final /\ job[w].pc # "taking" => ToSet(queue'[s]) \subseteq late'[s])
    BY <1>13, <2>1
  <2>3. \E pc \in {"saving", "cutting"} : \E m, n : Becomes(w, pc, job[w].audio, job[w].last, m, n)
    BY <1>14, MarksBecomes, Zenon
  <2> QED
    BY <1>12, <2>1, <2>2, <2>3
<1>15. ASSUME NEW w \in Workers, CutsRow(w) PROVE CloseOK'
  <2>1. closed' = closed /\ job[w].pc = "cutting"
    BY <1>15, CutsBecomes
  <2>2. \E pc \in {"marking", "cutting"} : \E a, l, n : Becomes(w, pc, a, l, job[w].members, n)
    BY <1>15, CutsBecomes, Zenon
  <2>3. job[w] \in Drains
    BY <2>2 DEF Becomes
  <2>4. PICK s \in Sources : s = job[w].source /\ (job[w].final /\ job[w].pc # "taking" => ToSet(queue'[s]) \subseteq late'[s])
    BY <1>13, <2>3
  <2> QED
    BY <1>12, <2>1, <2>2, <2>4
<1>16. ASSUME NEW w \in Workers, SettlesGroup(w) PROVE CloseOK'
  <2>1. closed' = closed /\ tail' = tail /\ job[w].pc \in {"cutting", "gathering", "dispatching"}
    BY <1>16, SettlesBecomes
  <2>2. \E pc \in {"gathering", "keeping", "dispatching"} : \E m, n : Becomes(w, pc, job[w].audio, job[w].last, m, n)
    BY <1>16, SettlesBecomes, Zenon
  <2>3. job[w] \in Drains
    BY <2>2 DEF Becomes
  <2>4. PICK s \in Sources : s = job[w].source /\ (job[w].final /\ job[w].pc # "taking" => ToSet(queue'[s]) \subseteq late'[s])
    BY <1>13, <2>3
  <2>5. job[w].final => job[w].audio = <<>>
    <3>1. CASE job[w].pc \in {"gathering", "dispatching"}
      BY <2>3, <3>1 DEF CloseOK, FinalOK
    <3>2. CASE job[w].pc = "cutting"
      <4>1. Ends(w) = {}
        BY <1>16, <3>2, SettlesBecomes
      <4>2. job[w].audio \in Seq(Segments)
        BY <2>3, StepsTell DEF AudioTyped
      <4>3. ASSUME job[w].final, job[w].audio # <<>> PROVE FALSE
        <5>1. Len(job[w].audio) \in DOMAIN job[w].audio
          BY <4>2, <4>3
        <5>2. Len(job[w].audio) \in Ends(w)
          BY <4>3, <5>1 DEF Ends, Closes
        <5> QED
          BY <4>1, <5>2
      <4> QED
        BY <4>3
    <3> QED
      BY <2>1, <3>1, <3>2
  <2> QED
    BY <1>12, <2>1, <2>2, <2>4, <2>5
<1>17. ASSUME NEW w \in Workers, KeepsTail(w) PROVE CloseOK'
  <2>1. closed' = closed /\ job[w].pc = "keeping"
    BY <1>17, KeepsBecomes
  <2>2. Becomes(w, "unlocking", job[w].audio, job[w].last, job[w].members, job[w].new)
    BY <1>17, KeepsBecomes
  <2>3. job[w] \in Drains
    BY <2>2 DEF Becomes
  <2>4. PICK s \in Sources : s = job[w].source /\ (job[w].final /\ job[w].pc # "taking" => ToSet(queue'[s]) \subseteq late'[s])
    BY <1>13, <2>3
  <2>5. job[w].final => job[w].audio = <<>>
    BY <2>1, <2>3 DEF CloseOK, FinalOK
  <2>6. tail' = [tail EXCEPT ![s] = [held |-> job[w].audio, last |-> job[w].last]]
    BY <1>17, <2>4 DEF KeepsTail, Source
  <2>7. tail'[s].held = job[w].audio
    BY <2>6 DEF AudioTyped
  <2> QED
    BY <1>12, <2>1, <2>2, <2>4, <2>5, <2>7
<1>18. ASSUME NEW w \in Workers, Unlocks(w) PROVE CloseOK'
  <2>1. closed' = closed /\ job[w].pc = "unlocking" /\ job[w] \in Drains /\ \A v \in Workers \ {w} : job'[v] = job[v]
    BY <1>18, UnlocksBecomes
  <2>2. PICK s \in Sources : s = job[w].source
    BY <1>13, <2>1
  <2>3. CASE job[w].final /\ job'[w] = [pc |-> "locking", todo |-> job[w].todo] /\ job'[w] \notin Drains
    <3>1. job'[w].pc = "locking" /\ job'[w].todo = job[w].todo
      BY <2>3
    <3>2. stops > 0
      BY <2>1, <2>3 DEF StopAsked, Finalizes
    <3>3. /\ ToSet(queue[s]) \subseteq late[s] /\ (s \notin met => tail[s].held = <<>>) /\ job[w].audio = <<>>
          /\ ToSet(<<>>) = {}
      BY <2>1, <2>2, <2>3 DEF CloseOK, FinalOK, ToSet
    <3>4. s \notin met => Drained(s)
      <4> SUFFICES ASSUME s \notin met, NEW v \in Workers, Draining(v, s) PROVE job[v].audio = <<>>
        BY <3>2, <3>3 DEF Drained
      <4>1. AtWork(w, s)
        BY <2>1, <2>2 DEF AtWork, Draining
      <4>2. v = w \/ job[v].pc = "looking"
        BY <4>1 DEF OneAtWork, AtWork
      <4> QED
        BY <3>3, <4>2 DEF Quiet, Draining
    <3>5. \A t \in Sources \ (job[w].todo \cup met') : Drained(t)'
      BY <1>0, <1>1, <2>1, <2>2, <2>3, <3>4 DEF CloseOK, FinalOK
    <3>6. FinalOK(w)'
      BY <2>3, <3>1, <3>5 DEF FinalOK
    <3> QED
      BY <1>5, <2>1, <3>6
  <2>4. CASE ~job[w].final /\ Becomes(w, "looking", <<>>, job[w].last, {}, job[w].new)
    BY <1>12, <2>1, <2>2, <2>4
  <2> QED
    BY <1>18, <2>3, <2>4, UnlocksBecomes
<1>19. ASSUME NEW w \in Workers, TakesAudio(w) PROVE CloseOK'
  <2>0. \E pc \in {"unlocking", "cutting"} : \E a, l : Becomes(w, pc, a, l, job[w].members, job[w].new)
    BY <1>19, TakesBecomes, Zenon
  <2>1. closed' = closed /\ job[w].pc = "taking" /\ job[w] \in Drains /\ tail' = tail
    BY <1>19, <2>0, TakesBecomes DEF TakesAudio, Becomes
  <2>2. PICK s \in Sources : s = job[w].source
    BY <1>13, <2>1
  <2>3. PICK n : n = IF Len(queue[s]) < MaxPerDrain THEN Len(queue[s]) ELSE MaxPerDrain
    OBVIOUS
  <2>4. job[w].final => late' = [late EXCEPT ![s] = late[s] \cup ToSet(queue'[s])]
    BY <1>19, <2>2 DEF TakesAudio, Source
  <2>5. job[w].final => late'[s] = late[s] \cup ToSet(queue'[s])
    BY <2>4 DEF AudioTyped
  <2>6. job[w].final => ToSet(queue'[s]) \subseteq late'[s]
    BY <2>5
  <2>8. PICK new : new = Fresh(SubSeq(queue[s], 1, n), tail[s].last)
    OBVIOUS
  <2>9. CASE NothingToDo(w, new)
    <3>1. Becomes(w, "unlocking", job[w].audio, job[w].last, job[w].members, job[w].new)
      BY <1>19, <2>2, <2>3, <2>8, <2>9, TakesBecomes DEF Source
    <3>2. job[w].final => tail'[s].held = <<>>
      BY <2>1, <2>2, <2>9 DEF NothingToDo, Source
    <3>3. job[w].audio = <<>>
      BY <2>1 DEF Quiet
    <3> QED
      BY <1>12, <2>1, <2>2, <2>6, <3>1, <3>2, <3>3
  <2>10. CASE ~NothingToDo(w, new)
    <3>1. \E a, l : Becomes(w, "cutting", a, l, job[w].members, job[w].new)
      BY <1>19, <2>2, <2>3, <2>8, <2>10, TakesBecomes, Zenon DEF Source
    <3> QED
      BY <1>12, <2>1, <2>2, <2>6, <3>1
  <2> QED
    BY <2>9, <2>10
<1> QED
  BY <1>6, <1>7, <1>9, <1>10, <1>11, <1>14, <1>15, <1>16, <1>17, <1>18, <1>19 DEF AudioStep, HandsOn

\* Who has nothing in hand but what came late cuts no row of anything else.
LEMMA OnlyLateIsCut ==
    ASSUME AudioTyped, AudioStep, CloseOK, closed, NEW id \in Ids, rows'[id] # rows[id]
    PROVE  id[1] \in met \/ rows'[id] \subseteq late[id[1]]
<1>1. PICK w \in Workers : CutsRow(w)
  <2>1. ASSUME NEW w \in Workers, Waits(w) \/ Dies(w) \/ Raises(w) \/ Marks(w) \/ TakesAudio(w) \/ SettlesGroup(w)
                                  \/ KeepsTail(w) \/ Unlocks(w)
        PROVE  rows' = rows
    BY <2>1 DEF Waits, Dies, Raises, Marks, TakesAudio, SettlesGroup, KeepsTail, Unlocks
  <2> QED
    BY <2>1 DEF AudioStep, HandsOn, Elsewhere, Expires, Begins
<1>2. job[w] \in Drains
  BY <1>1, CutsBecomes, Zenon DEF Becomes
<1>3. PICK s \in Sources : s = job[w].source
  BY <1>2, StepsTell DEF AudioTyped
<1>4. PICK end : end = Min(Ends(w)) /\ end \in 1 .. Len(job[w].audio)
  BY <1>1 DEF CutsRow
<1>5. rows' = [rows EXCEPT ![<<s, job[w].audio[1]>>] = ToSet(SubSeq(job[w].audio, 1, end))]
  <2>1. rows' # rows
    OBVIOUS
  <2>2. rows' = rows \/ rows' = [rows EXCEPT ![<<Source(w), job[w].audio[1]>>] = ToSet(SubSeq(job[w].audio, 1, end))]
    BY <1>1, <1>4, CutsBecomes, Zenon
  <2> QED
    BY <1>3, <2>1, <2>2 DEF Source
<1>6. id = <<s, job[w].audio[1]>> /\ rows'[id] = ToSet(SubSeq(job[w].audio, 1, end))
  BY <1>5 DEF AudioTyped
<1>7. ToSet(SubSeq(job[w].audio, 1, end)) \subseteq ToSet(job[w].audio)
  <2>1. job[w].audio \in Seq(Segments)
    BY <1>2, StepsTell DEF AudioTyped
  <2>2. end \in 0 .. Len(job[w].audio)
    BY <1>4, <2>1
  <2> QED
    BY <2>1, <2>2, PartsOfSequences
<1>8. id[1] = s
  BY <1>6
<1>9. s \notin met => ToSet(job[w].audio) \subseteq late[s]
  BY <1>2, <1>3 DEF CloseOK, Drained, Draining
<1> QED
  BY <1>6, <1>7, <1>8, <1>9

\* Once the recording is complete no row is created but of what was uploaded after the
\* stop was asked for, or of what the one pop of finalize left waiting: whatever dies,
\* is retried, uploaded late or again, finalize has found each source empty of
\* everything else when it let go of it, and it stays so (finalize_local_session).
\* That is so of every source where no two drains have been at work at once, and two
\* can be only where a lock has expired under one of them (TailHasOneOwner).
THEOREM NothingWrittenAfterClose == Spec => NoRowAfterClose
<1> DEFINE EndInv == AudioTyped /\ StateTyped /\ OneAtWork /\ StopAsked /\ Quiet /\ CloseOK
<1>1. Init => EndInv
  <2> SUFFICES ASSUME Init PROVE EndInv
    OBVIOUS
  <2>1. AudioTyped /\ StateTyped /\ \A w \in Workers : job[w] \notin Drains /\ job[w] \notin Closings
    BY SessionIsNew
  <2>2. OneAtWork /\ Quiet
    BY <2>1 DEF OneAtWork, AtWork, Draining, Quiet
  <2>3. StopAsked
    BY <2>1 DEF Init, StopAsked, Finalizes
  <2>4. CloseOK
    BY <2>1 DEF Init, CloseOK, FinalOK
  <2> QED
    BY <2>1, <2>2, <2>3, <2>4
<1>2. EndInv /\ [Next]_vars => EndInv'
  <2> SUFFICES ASSUME EndInv, [Next]_vars PROVE EndInv'
    OBVIOUS
  <2>1. AudioStep
    BY EveryStepIsAudioStep
  <2>2. AudioTyped' /\ StateTyped'
    BY <2>1, StateStaysTyped, AudioStaysTyped
  <2>3. OneAtWork' /\ StopAsked' /\ Quiet'
    BY <2>1, OneAtWorkStays, StopAskedStill, QuietStays
  <2>4. CloseOK'
    BY <2>1, <2>2, FinalStays
  <2> QED
    BY <2>2, <2>3, <2>4
<1>3. EndInv /\ [Next]_vars => [closed => \A id \in Ids : rows'[id] # rows[id] =>
                                           id[1] \in met \/ rows'[id] \subseteq late[id[1]]]_vars
  <2> SUFFICES ASSUME EndInv, [Next]_vars, closed, NEW id \in Ids, rows'[id] # rows[id]
               PROVE  id[1] \in met \/ rows'[id] \subseteq late[id[1]]
    OBVIOUS
  <2>1. AudioStep
    BY EveryStepIsAudioStep
  <2> QED
    BY <2>1, OnlyLateIsCut
<1> QED
  BY <1>1, <1>2, <1>3, PTL DEF Spec, NoRowAfterClose

-----------------------------------------------------------------------------
(* No upload is left lying.                                                 *)

\* A drain with audio to work on stays one.
LEMMA DrainsGoOn ==
    ASSUME AudioTyped, NEW w \in Workers, Marks(w) \/ TakesAudio(w) \/ CutsRow(w) \/ SettlesGroup(w) \/ KeepsTail(w)
    PROVE  \E pc, a, l, m, n : Becomes(w, pc, a, l, m, n) /\ job[w].pc # "looking" /\ pc # "looking" /\ pc # "taking"
<1>1. CASE Marks(w)
  BY <1>1, MarksBecomes, Zenon
<1>2. CASE TakesAudio(w)
  BY <1>2, TakesBecomes, Zenon
<1>3. CASE CutsRow(w)
  BY <1>3, CutsBecomes, Zenon
<1>4. CASE SettlesGroup(w)
  BY <1>4, SettlesBecomes, Zenon
<1>5. CASE KeepsTail(w)
  BY <1>5, KeepsBecomes, Zenon
<1> QED
  BY <1>1, <1>2, <1>3, <1>4, <1>5

\* While no worker dies, who has set a lock is there to delete it.
LockHeld == crashes = 0 => \A s \in Sources : lock[s] => \E w \in Workers : AtWork(w, s)

LEMMA CrashesCount == ASSUME AudioTyped, AudioStep PROVE crashes' = crashes \/ crashes' = crashes + 1
<1>1. ASSUME NEW w \in Workers, NEW from, NEW j, DrainStep(w, from, j) PROVE crashes' = crashes
  BY <1>1 DEF DrainStep
<1>2. ASSUME NEW w \in Workers, TakesAudio(w) \/ CutsRow(w) PROVE crashes' = crashes
  BY <1>1, <1>2, Zenon DEF TakesAudio, CutsRow
<1>3. ASSUME NEW w \in Workers, SettlesGroup(w) \/ KeepsTail(w) \/ Unlocks(w) PROVE crashes' = crashes
  BY <1>1, <1>3, Zenon DEF SettlesGroup, KeepsTail, Unlocks
<1>4. ASSUME NEW w \in Workers, Waits(w) \/ Dies(w) \/ Raises(w) \/ Marks(w) PROVE crashes' = crashes \/ crashes' = crashes + 1
  BY <1>4 DEF Waits, Dies, Raises, Marks
<1> QED
  BY <1>2, <1>3, <1>4 DEF AudioStep, HandsOn, Elsewhere, Expires, Begins

LEMMA LockHeldStill ==
    ASSUME AudioTyped, AudioStep, LockHeld
    PROVE  LockHeld'
<1>1. crashes' = 0 => crashes = 0
  BY CrashesCount DEF AudioTyped
<1> SUFFICES ASSUME crashes' = 0, NEW s \in Sources, lock'[s] PROVE \E w \in Workers : AtWork(w, s)'
  BY DEF LockHeld
<1>2. lock[s] => \E w \in Workers : AtWork(w, s)
  BY <1>1 DEF LockHeld
<1>3. ASSUME NEW w \in Workers, ~AtWork(w, s), \A v \in Workers \ {w} : job'[v] = job[v], lock[s] PROVE \E v \in Workers : AtWork(v, s)'
  BY <1>2, <1>3 DEF AtWork, Draining
<1>4. ASSUME job' = job, lock[s] PROVE \E v \in Workers : AtWork(v, s)'
  BY <1>2, <1>4 DEF AtWork, Draining
<1>5. ASSUME NEW t, lock' = [lock EXCEPT ![t] = FALSE] PROVE t # s /\ lock[s]
  BY <1>5 DEF AudioTyped
<1>6. CASE Elsewhere
  BY <1>4, <1>6 DEF Elsewhere
<1>7. ASSUME NEW t \in Sources, Expires(t) PROVE \E v \in Workers : AtWork(v, s)'
  BY <1>4, <1>5, <1>7 DEF Expires
<1>8. ASSUME NEW w \in Workers, NEW t \in Sources, Begins(w, t) PROVE \E v \in Workers : AtWork(v, s)'
  <2>1. /\ job[w] \notin Drains /\ job'[w] \in Drains /\ job'[w].pc = "taking" /\ job'[w].source = t
        /\ \A v \in Workers \ {w} : job'[v] = job[v]
    BY <1>8, BeginsBecomes
  <2>2. CASE t = s
    BY <2>1, <2>2 DEF AtWork, Draining
  <2>3. CASE t # s
    <3>1. lock[s]
      BY <1>8, <2>3 DEF Begins, AudioTyped
    <3>2. ~AtWork(w, s)
      BY <2>1 DEF AtWork, Draining
    <3> QED
      BY <1>3, <2>1, <3>1, <3>2
  <2> QED
    BY <2>2, <2>3
<1>9. ASSUME NEW w \in Workers, Waits(w) PROVE \E v \in Workers : AtWork(v, s)'
  <2>1. ~AtWork(w, s) /\ lock[s]
    BY <1>9 DEF Waits, AtWork, Draining
  <2> QED
    BY <1>3, <1>9, <2>1, LeavingIsDone
<1>10. ASSUME NEW w \in Workers, Dies(w) PROVE FALSE
  BY <1>10 DEF Dies, AudioTyped
<1>11. ASSUME NEW w \in Workers, Raises(w) PROVE \E v \in Workers : AtWork(v, s)'
  <2>1. job[w].source # s /\ lock[s]
    BY <1>5, <1>11 DEF Raises
  <2>2. ~AtWork(w, s)
    BY <2>1 DEF AtWork, Draining
  <2> QED
    BY <1>3, <1>11, <2>1, <2>2, LeavingIsDone
<1>12. ASSUME NEW w \in Workers, Marks(w) \/ TakesAudio(w) \/ CutsRow(w) \/ SettlesGroup(w) \/ KeepsTail(w)
       PROVE  \E v \in Workers : AtWork(v, s)'
  <2>1. lock[s]
    BY <1>12 DEF Marks, TakesAudio, CutsRow, SettlesGroup, KeepsTail
  <2>2. PICK pc, a, l, m, n : Becomes(w, pc, a, l, m, n) /\ job[w].pc # "looking" /\ pc # "looking" /\ pc # "taking"
    BY <1>12, DrainsGoOn
  <2>3. \A v \in Workers, t \in Sources : AtWork(v, t)' <=> AtWork(v, t)
    BY <2>2, HoldersGoOn
  <2> QED
    BY <1>2, <2>1, <2>3
<1>13. ASSUME NEW w \in Workers, Unlocks(w) PROVE \E v \in Workers : AtWork(v, s)'
  <2>1. Source(w) # s /\ lock[s]
    BY <1>5, <1>13 DEF Unlocks
  <2>2. ~AtWork(w, s)
    BY <2>1 DEF AtWork, Draining, Source
  <2>3. \A v \in Workers \ {w} : job'[v] = job[v]
    BY <1>13, UnlocksBecomes
  <2> QED
    BY <1>3, <2>1, <2>2, <2>3
<1> QED
  BY <1>6, <1>7, <1>8, <1>9, <1>10, <1>11, <1>12, <1>13 DEF AudioStep, HandsOn

\* The tasks are counted.
DueTyped == due \in [Sources -> Nat]

LEMMA DueStaysTyped == ASSUME AudioTyped, StateTyped, DueTyped, [Next]_vars PROVE DueTyped'
<1>1. ASSUME NEW s \in Sources, Due(s) PROVE DueTyped'
  BY <1>1 DEF Due, DueTyped
<1>2. ASSUME due' = due PROVE DueTyped'
  BY <1>2 DEF DueTyped
<1>3. ASSUME NEW w \in Workers, NEW s \in Sources, StartDrain(w, s) \/ SkipDrain(w, s) PROVE DueTyped'
  <2>1. due' = [due EXCEPT ![s] = 0]
    BY <1>3 DEF StartDrain, SkipDrain
  <2> QED
    BY <2>1 DEF DueTyped
<1>4. ASSUME NEW w \in Workers, StartFinalize(w) \/ LockForFinal(w) \/ Close(w) \/ Take(w) \/ CutRow(w) \/ SaveMark(w) PROVE due' = due
  BY <1>4 DEF StartFinalize, LockForFinal, Close, Take, CutRow, SaveMark, tasks
<1>5. ASSUME NEW w \in Workers, Gather(w) \/ Hold(w) \/ Clear(w) \/ Dispatch(w) \/ Keep(w) \/ Unlock(w) PROVE due' = due
  BY <1>5 DEF Gather, Hold, Clear, Dispatch, Keep, Unlock, tasks
<1>6. ASSUME NEW w \in Workers, job[w] \in Drains \/ job[w] \in Closings,
             LookAgain(w) \/ Mark(w) \/ MarkConflict(w) \/ Crash(w)
      PROVE  DueTyped'
  <2>1. job[w] \in Drains => Source(w) \in Sources
    BY <1>6, StepsTell DEF AudioTyped, Source
  <2>2. job[w] \in Drains => job[w] \notin Closings
    BY DEF Drains, Closings
  <2>3. LookAgain(w) => job[w] \in Drains
    BY StepsTell DEF AudioTyped, LookAgain, DrainPcs
  <2>4. Mark(w) \/ MarkConflict(w) => job[w] \in Drains
    BY StepsTell DEF AudioTyped, Mark, MarkConflict, DrainPcs
  <2>5. due' = due \/ Due(Source(w))
    <3>1. CASE LookAgain(w) \/ Crash(w)
      BY <3>1 DEF LookAgain, Crash
    <3>2. CASE MarkConflict(w)
      BY <3>2 DEF MarkConflict, Raise
    <3>3. CASE Mark(w)
      <4>1. UNCHANGED tasks \/ Raise(w)
        BY <3>3 DEF Mark, StateTyped
      <4> QED
        BY <4>1 DEF tasks, Raise
    <3> QED
      BY <1>6, <3>1, <3>2, <3>3
  <2>6. job[w] \in Closings => due' = due
    BY <1>6, <2>2, <2>3, <2>4 DEF Crash
  <2> QED
    BY <1>1, <1>2, <1>6, <2>1, <2>5, <2>6
<1>7. ASSUME NEW s \in Sources, Upload(s) \/ UploadAgain(s) PROVE DueTyped'
  BY <1>1, <1>7 DEF Upload, UploadAgain, Queue
<1>8. ASSUME NEW s \in Sources, Expire(s) PROVE due' = due
  BY <1>8 DEF Expire, tasks
<1>9. CASE Stop \/ Transcribe \/ UNCHANGED vars
  BY <1>2, <1>9 DEF Stop, Transcribe, vars, tasks
<1>10. ASSUME NEW w \in Workers, LookAgain(w) \/ Mark(w) \/ MarkConflict(w) \/ Crash(w)
       PROVE  job[w] \in Drains \/ job[w] \in Closings
  BY <1>10, StepsTell DEF AudioTyped, LookAgain, Mark, MarkConflict, Crash, DrainPcs, Jobs, Idle
<1> QED
  BY <1>2, <1>3, <1>4, <1>5, <1>6, <1>7, <1>8, <1>9, <1>10 DEF Next, Work

\* A drain that is yet to look at the queue of its source.
Watches(w, s) == Draining(w, s) /\ (job[w].final => job[w].pc = "taking")

\* What waits is no drain's any more.
Rests(s) == ToSet(queue[s]) \subseteq late[s]

\* The finalizer's drain has taken from the queue what it will.
FinalRests == \A w \in Workers : job[w] \in Drains /\ job[w].final /\ job[w].pc # "taking" => Rests(job[w].source)

Awaited == \A s \in Sources : Watched(s) \/ Rests(s)

LEMMA AwaitedStill ==
    ASSUME AudioTyped, AudioTyped', StateTyped, AudioStep, [Next]_vars, DueTyped, FinalRests, FinalRests',
           crashes' = crashes, \A s \in Sources : lock[s] => \E w \in Workers : AtWork(w, s), Awaited
    PROVE  Awaited'
<1>0. \A s \in Sources : Watched(s) <=> due[s] > 0 \/ \E w \in Workers : Watches(w, s)
  BY DEF Watched, Watches
<1>00. \A s \in Sources : Watched(s)' <=> due'[s] > 0 \/ \E w \in Workers : Watches(w, s)'
  BY DEF Watched, Watches
\* What is not added to rests, if it did.
<1>000. ASSUME NEW s \in Sources, ToSet(queue'[s]) \subseteq ToSet(queue[s]), Rests(s) PROVE Rests(s)'
  BY <1>000, HistoryGrows DEF Rests
<1>1. ASSUME queue' = queue, due' = due, job' = job PROVE Awaited'
  <2>1. \A s \in Sources : Rests(s) => Rests(s)'
    BY <1>000, <1>1
  <2> QED
    BY <1>1, <2>1 DEF Awaited, Watched, Draining
\* A drain becomes due: the queues of the other sources are as before.
<1>2. ASSUME NEW s \in Sources, Due(s), NEW w \in Workers, \A v \in Workers \ {w} : job'[v] = job[v],
             \A t \in Sources \ {s} : (Rests(t) => Rests(t)') /\ (Watches(w, t) => Watches(w, t)')
      PROVE  Awaited'
  <2>1. due'[s] > 0 /\ \A t \in Sources \ {s} : due'[t] = due[t]
    BY <1>2 DEF Due, DueTyped
  <2>2. ASSUME NEW t \in Sources \ {s}, ~Rests(t)' PROVE due'[t] > 0 \/ \E v \in Workers : Watches(v, t)'
    <3>1. due[t] > 0 \/ \E v \in Workers : Watches(v, t)
      BY <1>0, <1>2, <2>2 DEF Awaited
    <3>2. \A v \in Workers : Watches(v, t) => Watches(v, t)'
      BY <1>2 DEF Watches, Draining
    <3> QED
      BY <2>1, <3>1, <3>2
  <2> QED
    BY <1>00, <2>1, <2>2 DEF Awaited
\* One worker goes on, and what it watched is watched still, or empty.
<1>3. ASSUME NEW w \in Workers, \A v \in Workers \ {w} : job'[v] = job[v],
             \A t \in Sources : ~Rests(t)' =>
                /\ ~Rests(t)
                /\ due[t] > 0 => due'[t] > 0 \/ Watches(w, t)'
                /\ Watches(w, t) => Watches(w, t)'
      PROVE  Awaited'
  <2>1. ASSUME NEW t \in Sources, ~Rests(t)' PROVE due'[t] > 0 \/ \E v \in Workers : Watches(v, t)'
    <3>1. due[t] > 0 \/ \E v \in Workers : Watches(v, t)
      BY <1>0, <1>3, <2>1 DEF Awaited
    <3>2. \A v \in Workers : Watches(v, t) => Watches(v, t)'
      BY <1>3, <2>1 DEF Watches, Draining
    <3> QED
      BY <1>3, <2>1, <3>1, <3>2
  <2> QED
    BY <1>00, <2>1 DEF Awaited
\* A drain goes on at the same source.
<1>4. ASSUME NEW w \in Workers, NEW pc, NEW a, NEW l, NEW m, NEW n, Becomes(w, pc, a, l, m, n), due' = due,
             \A t \in Sources : Rests(t) => Rests(t)', pc # "taking"
      PROVE  Awaited'
  <2>1. ASSUME NEW t \in Sources, ~Rests(t)', Watches(w, t) PROVE Watches(w, t)'
    <3>1. Draining(w, t)' /\ job'[w].final = job[w].final /\ job'[w].pc = pc
      BY <1>4, <2>1 DEF Becomes, Goes, Watches, Draining
    <3>2. ~job'[w].final
      BY <1>4, <2>1, <3>1 DEF FinalRests, Draining
    <3> QED
      BY <3>1, <3>2 DEF Watches
  <2> QED
    BY <1>3, <1>4, <2>1 DEF Becomes
<1>0000. ASSUME queue' = queue, NEW s \in Sources, Rests(s) PROVE Rests(s)'
  BY <1>000, <1>0000
<1>5. ASSUME NEW w \in Workers, NEW s \in Sources, StartDrain(w, s) PROVE Awaited'
  <2>1. Begins(w, s) /\ queue' = queue
    <3>1. job[w] \notin Drains
      BY <1>5, StepsTell DEF StartDrain, AudioTyped, DrainPcs
    <3>2. Turns(w, Drain(s, FALSE, {}))
      BY <1>5, NewDrains, Turning DEF StartDrain
    <3> QED
      BY <1>5, <3>1, <3>2 DEF StartDrain, Begins, Meets, faults, database
  <2>2. /\ job[w] \notin Drains /\ job'[w] \in Drains /\ job'[w].pc = "taking" /\ job'[w].source = s
        /\ \A v \in Workers \ {w} : job'[v] = job[v]
    BY <2>1, BeginsBecomes
  <2>3. Watches(w, s)' /\ \A t \in Sources : ~Watches(w, t)
    BY <2>2 DEF Watches, Draining
  <2>4. \A t \in Sources : t # s => due'[t] = due[t]
    BY <1>5 DEF StartDrain, DueTyped
  <2> QED
    BY <1>0000, <1>3, <2>1, <2>2, <2>3, <2>4
<1>6. ASSUME NEW w \in Workers, NEW s \in Sources, SkipDrain(w, s) PROVE Awaited'
  <2>1. queue' = queue /\ job' = job /\ due' = [due EXCEPT ![s] = 0]
    BY <1>6 DEF SkipDrain, redis
  <2>2. PICK v \in Workers : AtWork(v, s)
    BY <1>6 DEF SkipDrain
  <2>3. ~Rests(s) => Watches(v, s)
    BY <2>2 DEF AtWork, Draining, Watches, FinalRests
  <2>4. \A u \in Workers, t \in Sources : Watches(u, t)' <=> Watches(u, t)
    BY <2>1 DEF Watches, Draining
  <2>5. \A t \in Sources : t # s => due'[t] = due[t]
    BY <2>1 DEF DueTyped
  <2> QED
    BY <1>0000, <1>3, <2>1, <2>3, <2>4, <2>5
<1>7. ASSUME NEW w \in Workers, StartFinalize(w) \/ LockForFinal(w) \/ Close(w) PROVE Awaited'
  <2>1. job[w] \notin Drains
    BY <1>7, StepsTell DEF AudioTyped, StartFinalize, LockForFinal, Close, DrainPcs
  <2>2. queue' = queue /\ due' = due
    BY <1>7 DEF StartFinalize, LockForFinal, Close, redis, tasks
  <2>3. \A v \in Workers \ {w} : job'[v] = job[v]
    <3>1. Waits(w) \/ \E s \in Sources : Begins(w, s)
      BY <1>7, FinalizingIsSteps
    <3> QED
      BY <3>1, LeavingIsDone, BeginsBecomes
  <2> QED
    BY <1>0000, <1>3, <2>1, <2>2, <2>3 DEF Watches, Draining
<1>8. ASSUME NEW w \in Workers, LookAgain(w) PROVE Awaited'
  <2>1. job[w] \in Drains /\ queue' = queue
    BY <1>8, StepsTell DEF AudioTyped, LookAgain, DrainPcs, redis
  <2>2. PICK s \in Sources : s = Source(w)
    BY <2>1, StepsTell DEF AudioTyped, Source
  <2>3. \A v \in Workers \ {w} : job'[v] = job[v]
    <3>1. Waits(w) \/ \E t \in Sources : Begins(w, t)
      BY <1>8, FinalizingIsSteps
    <3> QED
      BY <3>1, LeavingIsDone, BeginsBecomes
  <2>4. \A t \in Sources \ {s} : ~Watches(w, t)
    BY <2>2 DEF Watches, Draining, Source
  <2>5. CASE queue[s] # <<>>
    <3>1. Due(s)
      BY <1>8, <2>2, <2>5 DEF LookAgain
    <3> QED
      BY <1>0000, <1>2, <2>1, <2>3, <2>4, <3>1
  <2>6. CASE queue[s] = <<>>
    <3>1. due' = due
      BY <1>8, <2>2, <2>6 DEF LookAgain
    <3>2. Rests(s)
      BY <2>6 DEF Rests, ToSet
    <3> QED
      BY <1>0000, <1>3, <2>1, <2>3, <2>4, <3>1, <3>2
  <2> QED
    BY <2>5, <2>6
\* What a drain that raises was sent for is asked for again.
<1>9. ASSUME NEW w \in Workers, job[w] \in Drains, job[w].pc \in {"marking", "saving"}, Raise(w), queue' = queue
      PROVE  Awaited'
  <2>1. PICK s \in Sources : s = Source(w)
    BY <1>9, StepsTell DEF AudioTyped, Source
  <2>2. \A v \in Workers \ {w} : job'[v] = job[v]
    BY <1>9 DEF Raise, Leave, AudioTyped
  <2>3. \A t \in Sources \ {s} : ~Watches(w, t)
    BY <2>1 DEF Watches, Draining, Source
  <2>4. CASE job[w].final
    <3>1. due' = due
      BY <1>9, <2>4 DEF Raise
    <3>2. \A t \in Sources : ~Watches(w, t)
      BY <1>9, <2>4 DEF Watches
    <3> QED
      BY <1>0000, <1>3, <1>9, <2>2, <3>1, <3>2
  <2>5. CASE ~job[w].final
    <3>1. Due(s)
      BY <1>9, <2>1, <2>5 DEF Raise
    <3> QED
      BY <1>0000, <1>2, <1>9, <2>2, <2>3, <3>1
  <2> QED
    BY <2>4, <2>5
<1>10. ASSUME NEW w \in Workers, Mark(w) \/ SaveMark(w) \/ MarkConflict(w) PROVE Awaited'
  <2>1. job[w] \in Drains /\ job[w].pc \in {"marking", "saving"} /\ queue' = queue
    BY <1>10, StepsTell DEF AudioTyped, Mark, SaveMark, MarkConflict, DrainPcs, redis
  <2>2. CASE Raise(w)
    BY <1>9, <2>1, <2>2
  <2>3. CASE ~Raise(w)
    <3>1. due' = due
      BY <1>10, <2>3 DEF Mark, SaveMark, MarkConflict, tasks, StateTyped
    <3>2. PICK pc, a, l, m, n : Becomes(w, pc, a, l, m, n) /\ pc # "taking"
      <4>1. CASE Marks(w)
        BY <4>1, DrainsGoOn
      <4>2. CASE Raises(w)
        <5>1. raised' = TRUE /\ job'[w] = Idle
          BY <4>2 DEF Raises, Turns
        <5>2. (Mark(w) \/ SaveMark(w)) /\ ~Raise(w)
          BY <1>10, <2>3 DEF MarkConflict
        <5>3. \E k : job' = [job EXCEPT ![w] = k] /\ k.pc \in {"saving", "cutting"}
          <6>1. Gathered(w) \/ Goto(w, "saving")
            BY <5>2 DEF Mark, SaveMark, StateTyped
          <6>2. \A p : [job[w] EXCEPT !.pc = p].pc = p
            BY <2>1, FieldsOfDrains DEF Goes
          <6>3. \A m, n : [job[w] EXCEPT !.pc = "cutting", !.members = m, !.new = n].pc = "cutting"
            BY <2>1, FieldsOfDrains DEF Goes
          <6>4. CASE Gathered(w)
            BY <6>3, <6>4 DEF Gathered
          <6>5. CASE Goto(w, "saving")
            BY <6>2, <6>5 DEF Goto
          <6> QED
            BY <6>1, <6>4, <6>5
        <5>4. Idle.pc = "idle"
          BY DEF Idle
        <5> QED
          BY <5>1, <5>3, <5>4 DEF AudioTyped
      <4> QED
        BY <1>10, <4>1, <4>2, MarkingIsAStep
    <3> QED
      BY <1>0000, <1>4, <2>1, <3>1, <3>2
  <2> QED
    BY <2>2, <2>3
<1>11. ASSUME NEW w \in Workers, Take(w) \/ CutRow(w) \/ Gather(w) \/ Hold(w) \/ Clear(w) \/ Dispatch(w) \/ Keep(w) PROVE Awaited'
  <2>1. due' = due
    BY <1>11 DEF Take, CutRow, Gather, Hold, Clear, Dispatch, Keep, tasks
  <2>2. \A t \in Sources : Rests(t) => Rests(t)'
    <3>1. CASE Take(w)
      BY <1>000, <3>1, TakingIsAStep, TakenFromQueue
    <3>2. CASE ~Take(w)
      BY <1>0000, <1>11, <3>2 DEF CutRow, Gather, Hold, Clear, Dispatch, Keep, redis
    <3> QED
      BY <3>1, <3>2
  <2>3. \E pc, a, l, m, n : Becomes(w, pc, a, l, m, n) /\ pc # "taking"
    <3>1. CASE Take(w)
      BY <3>1, TakingIsAStep, DrainsGoOn
    <3>2. CASE CutRow(w)
      BY <3>2, CuttingIsAStep, DrainsGoOn
    <3>3. CASE Gather(w) \/ Hold(w) \/ Clear(w) \/ Dispatch(w)
      BY <3>3, SettlingIsAStep, DrainsGoOn
    <3>4. CASE Keep(w)
      <4>1. KeepsTail(w) \/ Unlocks(w)
        BY <3>4, KeepingIsAStep
      <4>2. job[w].pc = "keeping"
        BY <3>4 DEF Keep
      <4>3. KeepsTail(w)
        BY <4>1, <4>2, UnlocksBecomes
      <4> QED
        BY <4>3, DrainsGoOn
    <3> QED
      BY <1>11, <3>1, <3>2, <3>3, <3>4
  <2> QED
    BY <1>4, <2>1, <2>2, <2>3
<1>12. ASSUME NEW w \in Workers, Unlock(w) PROVE Awaited'
  <2>1. Unlocks(w) /\ due' = due /\ queue' = queue
    <3>1. KeepsTail(w) \/ Unlocks(w)
      BY <1>12, KeepingIsAStep
    <3>2. job[w].pc = "unlocking"
      BY <1>12 DEF Unlock
    <3> QED
      BY <1>12, <3>1, <3>2, KeepsBecomes DEF Unlock, tasks
  <2>2. /\ job[w].pc = "unlocking" /\ job[w] \in Drains /\ \A v \in Workers \ {w} : job'[v] = job[v]
        /\ job[w].final \/ Becomes(w, "looking", <<>>, job[w].last, {}, job[w].new)
    BY <2>1, UnlocksBecomes
  <2>3. CASE job[w].final
    <3>1. \A t \in Sources : ~Watches(w, t)
      BY <2>2, <2>3 DEF Watches
    <3> QED
      BY <1>0000, <1>3, <2>1, <2>2, <3>1
  <2>4. CASE Becomes(w, "looking", <<>>, job[w].last, {}, job[w].new)
    BY <1>0000, <1>4, <2>1, <2>4
  <2> QED
    BY <2>2, <2>3, <2>4
<1>13. ASSUME NEW w \in Workers, Crash(w) PROVE FALSE
  BY <1>13 DEF Crash, AudioTyped
<1>14. ASSUME NEW s \in Sources, Upload(s) \/ UploadAgain(s) PROVE Awaited'
  <2>1. Due(s) /\ job' = job /\ \A t \in Sources \ {s} : queue'[t] = queue[t]
    BY <1>14 DEF Upload, UploadAgain, Queue, AudioTyped
  <2>2. due'[s] > 0 /\ \A t \in Sources \ {s} : due'[t] = due[t]
    BY <2>1 DEF Due, DueTyped
  <2>3. \A u \in Workers, t \in Sources : Watches(u, t)' <=> Watches(u, t)
    BY <2>1 DEF Watches, Draining
  <2> QED
    BY <1>0, <1>00, <1>000, <2>1, <2>2, <2>3 DEF Awaited
<1>15. ASSUME NEW s \in Sources, Expire(s) PROVE Awaited'
  BY <1>1, <1>15 DEF Expire, tasks
<1>16. CASE Stop \/ Transcribe \/ UNCHANGED vars
  BY <1>1, <1>16 DEF Stop, Transcribe, vars, tasks, redis
<1> QED
  BY <1>5, <1>6, <1>7, <1>8, <1>10, <1>11, <1>12, <1>13, <1>14, <1>15, <1>16 DEF Next, Work

\* What was not there when finalize took comes late.
LEMMA FinalRestsStill ==
    ASSUME AudioTyped, AudioStep, StopAsked, FinalRests
    PROVE  FinalRests'
<1> SUFFICES ASSUME NEW w \in Workers, job'[w] \in Drains, job'[w].final, job'[w].pc # "taking"
             PROVE  ToSet(queue'[job'[w].source]) \subseteq late'[job'[w].source]
  BY DEF FinalRests, Rests
<1>1. ASSUME job[w] \in Drains, job[w].final, job[w].pc # "taking", job'[w].source = job[w].source
      PROVE  ToSet(queue'[job'[w].source]) \subseteq late'[job'[w].source]
  <2>1. stops > 0 /\ ToSet(queue[job[w].source]) \subseteq late[job[w].source]
    BY <1>1 DEF StopAsked, Finalizes, FinalRests, Rests
  <2>2. job[w].source \in Sources
    BY <1>1, StepsTell DEF AudioTyped
  <2> QED
    BY <1>1, <2>1, <2>2, QueueStaysLate
<1>2. CASE job'[w] = job[w]
  BY <1>1, <1>2
<1>3. ASSUME NEW v \in Workers, HandsOn(v), v # w PROVE job'[w] = job[w]
  <2>1. CASE Waits(v) \/ Dies(v) \/ Raises(v)
    BY <1>3, <2>1, LeavingIsDone
  <2>2. CASE Marks(v) \/ TakesAudio(v) \/ CutsRow(v) \/ SettlesGroup(v) \/ KeepsTail(v)
    BY <1>3, <2>2, DrainsGoOn DEF Becomes
  <2>3. CASE Unlocks(v)
    BY <1>3, <2>3, UnlocksBecomes
  <2> QED
    BY <1>3, <2>1, <2>2, <2>3 DEF HandsOn
<1>4. ASSUME NEW v \in Workers, NEW s \in Sources, Begins(v, s), v # w PROVE job'[w] = job[w]
  BY <1>4, BeginsBecomes
<1>5. ASSUME NEW s \in Sources, Begins(w, s) PROVE FALSE
  BY <1>5, BeginsBecomes
<1>6. CASE Waits(w) \/ Dies(w) \/ Raises(w)
  BY <1>6, LeavingIsDone
<1>7. CASE Marks(w) \/ CutsRow(w) \/ SettlesGroup(w) \/ KeepsTail(w)
  <2>1. job[w].pc # "taking"
    BY <1>7, CutsBecomes, MarksBecomes, SettlesBecomes, KeepsBecomes
  <2>2. job[w] \in Drains /\ job'[w].final = job[w].final /\ job'[w].source = job[w].source
    BY <1>7, DrainsGoOn DEF Becomes, Goes
  <2> QED
    BY <1>1, <2>1, <2>2
<1>8. CASE Unlocks(w)
  <2>1. job[w].pc = "unlocking" /\ job[w] \in Drains /\ (job'[w] \notin Drains \/ ~job[w].final)
    BY <1>8, UnlocksBecomes
  <2>2. ~job[w].final => job'[w].final = job[w].final
    BY <1>8, UnlocksBecomes DEF Becomes, Goes
  <2> QED
    BY <2>1, <2>2
<1>9. CASE TakesAudio(w)
  <2>1. job[w] \in Drains /\ job'[w].source = job[w].source /\ job'[w].final = job[w].final
    BY <1>9, DrainsGoOn DEF Becomes, Goes
  <2>2. PICK s \in Sources : s = job[w].source
    BY <2>1, StepsTell DEF AudioTyped
  <2>3. late' = [late EXCEPT ![s] = late[s] \cup ToSet(queue'[s])]
    BY <1>9, <2>1, <2>2 DEF TakesAudio, Source
  <2>4. late'[s] = late[s] \cup ToSet(queue'[s])
    BY <2>3 DEF AudioTyped
  <2> QED
    BY <2>1, <2>2, <2>4
<1> QED
  BY <1>2, <1>3, <1>4, <1>5, <1>6, <1>7, <1>8, <1>9 DEF AudioStep, HandsOn, Elsewhere, Expires

Woken ==
    /\ AudioTyped /\ StateTyped /\ DueTyped /\ StopAsked /\ LockHeld /\ FinalRests
    /\ crashes = 0 => Awaited

\* While no worker dies no upload is left lying, whatever becomes of the locks and
\* however many drains meet: who finds a source locked and exits leaves it to a drain
\* that is yet to look, and the one that lets go of the lock looks at the queue after
\* it has (drain_local_session_audio). Finalize does not look again: what its pop left,
\* and what comes after the stop, is left (finalize_local_session).
THEOREM NobodyMissesAnUpload == Spec => []NoUploadLeft
<1>1. Init => Woken
  <2> SUFFICES ASSUME Init PROVE Woken
    OBVIOUS
  <2>1. AudioTyped /\ StateTyped /\ \A w \in Workers : job[w] \notin Drains /\ job[w] \notin Closings
    BY SessionIsNew
  <2>2. StopAsked /\ FinalRests
    BY <2>1 DEF Init, StopAsked, Finalizes, FinalRests
  <2>3. LockHeld /\ DueTyped
    BY DEF Init, LockHeld, DueTyped
  <2>4. Awaited
    BY DEF Init, Awaited, Rests, ToSet
  <2> QED
    BY <2>1, <2>2, <2>3, <2>4 DEF Woken
<1>2. Woken /\ [Next]_vars => Woken'
  <2> SUFFICES ASSUME Woken, [Next]_vars PROVE Woken'
    OBVIOUS
  <2>0. AudioTyped /\ StateTyped /\ DueTyped /\ StopAsked /\ LockHeld /\ FinalRests
    BY DEF Woken
  <2>1. AudioStep
    BY <2>0, EveryStepIsAudioStep
  <2>2. AudioTyped' /\ StateTyped' /\ DueTyped' /\ StopAsked' /\ LockHeld' /\ FinalRests'
    BY <2>0, <2>1, StateStaysTyped, AudioStaysTyped, DueStaysTyped, StopAskedStill, LockHeldStill, FinalRestsStill
  <2>3. ASSUME crashes' = 0 PROVE Awaited'
    <3>1. crashes' = crashes
      BY <2>0, <2>1, <2>3, CrashesCount DEF AudioTyped
    <3>2. Awaited /\ \A s \in Sources : lock[s] => \E w \in Workers : AtWork(w, s)
      BY <2>0, <2>3, <3>1 DEF Woken, LockHeld
    <3> QED
      BY <2>0, <2>1, <2>2, <3>1, <3>2, AwaitedStill
  <2> QED
    BY <2>2, <2>3 DEF Woken
<1>3. Woken => NoUploadLeft
  BY DEF Woken, NoUploadLeft, Awaited, Rests
<1> QED
  BY <1>1, <1>2, <1>3, PTL DEF Spec

-----------------------------------------------------------------------------
(* Every finalize task was asked for by one stop.                           *)

Finalizers == {w \in Workers : Finalizes(w)}

\* What becomes of the finalize tasks, of which w is one or becomes one.
FinalizerStarts(w) ==
    /\ stopsDue > 0 /\ stopsDue' = stopsDue - 1 /\ stops' = stops
    /\ w \notin Finalizers /\ Finalizers' = Finalizers \cup {w}
FinalizerLeaves(w) ==
    /\ stopsDue' = stopsDue \/ stopsDue' = stopsDue + 1
    /\ stops' = stops
    /\ w \in Finalizers /\ Finalizers' = Finalizers \ {w}
FinalizersStay ==
    /\ \/ stopsDue' = stopsDue /\ stops' = stops
       \/ stopsDue' = stopsDue + 1 /\ stops' = stops + 1
    /\ Finalizers' = Finalizers

LEMMA FinalizersTurn ==
    ASSUME NEW w \in Workers, \A v \in Workers \ {w} : job'[v] = job[v]
    PROVE  /\ Finalizes(w)' => Finalizers' = Finalizers \cup {w}
           /\ ~Finalizes(w)' => Finalizers' = Finalizers \ {w}
<1>1. \A v \in Workers \ {w} : Finalizes(v)' <=> Finalizes(v)
  BY DEF Finalizes
<1> QED
  BY <1>1 DEF Finalizers

LEMMA FinalizersKept ==
    ASSUME NEW w \in Workers, Finalizes(w)' <=> Finalizes(w), \A v \in Workers \ {w} : job'[v] = job[v]
    PROVE  Finalizers' = Finalizers
<1>1. w \in Finalizers <=> Finalizes(w)
  BY DEF Finalizers
<1> QED
  BY <1>1, FinalizersTurn

\* A drain that goes on is a finalizer's if it was, whoever's it is.
LEMMA FinalizingGoesOn ==
    ASSUME AudioTyped, NEW w \in Workers,
           Marks(w) \/ TakesAudio(w) \/ CutsRow(w) \/ SettlesGroup(w) \/ KeepsTail(w) \/ Unlocks(w)
    PROVE  Finalizers' = Finalizers
<1>0. Drains \cap Closings = {}
  BY DEF Drains, Closings
<1>1. ASSUME NEW pc, NEW a, NEW l, NEW m, NEW n, Becomes(w, pc, a, l, m, n) PROVE Finalizers' = Finalizers
  <2>1. Finalizes(w)' <=> Finalizes(w)
    BY <1>0, <1>1 DEF Becomes, Goes, Finalizes
  <2> QED
    BY <1>1, <2>1, FinalizersKept DEF Becomes
<1>2. CASE Marks(w) \/ TakesAudio(w) \/ CutsRow(w) \/ SettlesGroup(w) \/ KeepsTail(w)
  BY <1>1, <1>2, DrainsGoOn, Zenon
<1>3. CASE Unlocks(w)
  <2>1. job[w] \in Drains /\ \A v \in Workers \ {w} : job'[v] = job[v]
    BY <1>3, UnlocksBecomes
  <2>2. CASE job[w].final /\ job'[w] = [pc |-> "locking", todo |-> job[w].todo]
    <3>1. job[w].todo \in SUBSET Sources
      BY <2>1, StepsTell DEF Jobs
    <3>2. job'[w] \in Closings
      BY <2>2, <3>1 DEF Closings
    <3>3. Finalizes(w)' /\ Finalizes(w)
      BY <2>1, <2>2, <3>2 DEF Finalizes
    <3> QED
      BY <2>1, <3>3, FinalizersKept
  <2>3. CASE Becomes(w, "looking", <<>>, job[w].last, {}, job[w].new)
    BY <1>1, <2>3
  <2> QED
    BY <1>3, <2>2, <2>3, UnlocksBecomes
<1> QED
  BY <1>2, <1>3

\* Who leaves is no finalizer any more.
LEMMA FinalizerIsDone ==
    ASSUME AudioTyped, NEW w \in Workers, Leave(w)
    PROVE  Finalizers' = Finalizers \ {w}
<1>1. Idle \notin Drains /\ Idle \notin Closings
  BY DEF Idle, Drains, Closings
<1>2. Turns(w, Idle)
  BY OtherJobs, Turning DEF Leave
<1>3. ~Finalizes(w)' /\ \A v \in Workers \ {w} : job'[v] = job[v]
  BY <1>1, <1>2 DEF Turns, Finalizes
<1> QED
  BY <1>3, FinalizersTurn

\* A task that is left by an exception, or dies, is queued again.
LEMMA FinalizerIsBack ==
    ASSUME AudioTyped, NEW w \in Workers, Leave(w), stops' = stops,
           stopsDue' = IF Finalizes(w) THEN stopsDue + 1 ELSE stopsDue
    PROVE  FinalizersStay \/ FinalizerLeaves(w)
<1>1. Finalizers' = Finalizers \ {w}
  BY FinalizerIsDone
<1>2. CASE Finalizes(w)
  BY <1>1, <1>2 DEF Finalizers, FinalizerLeaves
<1>3. CASE ~Finalizes(w)
  BY <1>1, <1>3 DEF Finalizers, FinalizersStay
<1> QED
  BY <1>2, <1>3

LEMMA FinalizersChange ==
    ASSUME AudioTyped, StateTyped, [Next]_vars
    PROVE  FinalizersStay \/ \E w \in Workers : FinalizerStarts(w) \/ FinalizerLeaves(w)
<1>0. Idle \notin Drains /\ Idle \notin Closings /\ Drains \cap Closings = {}
  BY DEF Idle, Drains, Closings
<1>1. ASSUME UNCHANGED <<job, stopsDue, stops>> PROVE FinalizersStay
  BY <1>1 DEF FinalizersStay, Finalizers, Finalizes
<1>2. CASE Transcribe \/ UNCHANGED vars
  BY <1>1, <1>2 DEF Transcribe, vars, tasks, counters, faults
<1>3. CASE Stop
  BY <1>3 DEF Stop, FinalizersStay, Finalizers, Finalizes
<1>4. ASSUME NEW s \in Sources, Upload(s) \/ UploadAgain(s) \/ Expire(s) PROVE FinalizersStay
  BY <1>1, <1>4 DEF Upload, UploadAgain, Expire, tasks, counters, faults
<1>5. ASSUME NEW w \in Workers, NEW s \in Sources, StartDrain(w, s) \/ SkipDrain(w, s) PROVE FinalizersStay
  <2>1. CASE SkipDrain(w, s)
    BY <1>1, <2>1 DEF SkipDrain, tasks, counters, faults
  <2>2. CASE StartDrain(w, s)
    <3>1. job[w] = Idle /\ stopsDue' = stopsDue /\ stops' = stops
      BY <2>2, StepsTell DEF StartDrain, AudioTyped, counters, faults
    <3>2. Turns(w, Drain(s, FALSE, {})) /\ Drain(s, FALSE, {}) \in Drains
      BY <2>2, NewDrains, Turning DEF StartDrain
    <3>3. Drain(s, FALSE, {}).final = FALSE
      BY DEF Drain
    <3>4. ~Finalizes(w)' /\ ~Finalizes(w)
      BY <1>0, <3>1, <3>2, <3>3 DEF Turns, Finalizes
    <3> QED
      BY <3>1, <3>2, <3>4, FinalizersKept DEF Turns, FinalizersStay
  <2> QED
    BY <1>5, <2>1, <2>2
<1>6. ASSUME NEW w \in Workers, StartFinalize(w) PROVE FinalizerStarts(w)
  <2>1. job[w] = Idle /\ stopsDue > 0 /\ stopsDue' = stopsDue - 1 /\ stops' = stops
    BY <1>6, StepsTell DEF StartFinalize, AudioTyped, counters, faults
  <2>2. Turns(w, [pc |-> "locking", todo |-> Sources])
    BY <1>6, OtherJobs, Turning DEF StartFinalize
  <2>3. [pc |-> "locking", todo |-> Sources] \in Closings
    BY DEF Closings
  <2>4. Finalizes(w)' /\ ~Finalizes(w)
    BY <1>0, <2>1, <2>2, <2>3 DEF Turns, Finalizes
  <2>5. Finalizers' = Finalizers \cup {w} /\ w \notin Finalizers
    BY <2>2, <2>4, FinalizersTurn DEF Turns, Finalizers
  <2> QED
    BY <2>1, <2>5 DEF FinalizerStarts
<1>7. ASSUME NEW w \in Workers, LockForFinal(w) PROVE FinalizersStay \/ FinalizerLeaves(w)
  <2>1. job[w] \in Closings /\ job[w].todo \in SUBSET Sources /\ stops' = stops
    BY <1>7, StepsTell DEF LockForFinal, AudioTyped, counters, faults
  <2>2. Finalizes(w)
    BY <2>1 DEF Finalizes
  <2>3. CASE stopsDue' = stopsDue + 1 /\ Leave(w)
    BY <2>1, <2>2, <2>3, FinalizerIsBack
  <2>4. CASE stopsDue' = stopsDue /\ Goto(w, "closing")
    <3>1. [job[w] EXCEPT !.pc = "closing"] \in Closings
      BY <2>1 DEF Closings
    <3>2. Turns(w, [job[w] EXCEPT !.pc = "closing"])
      BY <2>4, <3>1, Turning DEF Goto, Jobs
    <3>3. Finalizes(w)'
      BY <3>1, <3>2 DEF Turns, Finalizes
    <3> QED
      BY <2>1, <2>2, <2>4, <3>2, <3>3, FinalizersKept DEF Turns, FinalizersStay
  <2>5. ASSUME NEW s \in job[w].todo, stopsDue' = stopsDue, job' = [job EXCEPT ![w] = Drain(s, TRUE, job[w].todo \ {s})]
        PROVE  FinalizersStay
    <3> DEFINE d == Drain(s, TRUE, job[w].todo \ {s})
    <3>1. d \in Drains /\ d \in Jobs
      BY <2>1, NewDrains
    <3>2. d.final = TRUE
      BY DEF Drain
    <3> HIDE DEF d
    <3>3. Turns(w, d)
      BY <2>5, <3>1, Turning DEF d
    <3>4. Finalizes(w)'
      BY <3>1, <3>2, <3>3 DEF Turns, Finalizes
    <3> QED
      BY <2>1, <2>2, <2>5, <3>3, <3>4, FinalizersKept DEF Turns, FinalizersStay
  <2> QED
    BY <1>7, <2>3, <2>4, <2>5 DEF LockForFinal
<1>8. ASSUME NEW w \in Workers, LookAgain(w) \/ Close(w) PROVE FinalizersStay \/ FinalizerLeaves(w)
  <2>1. Leave(w) /\ stopsDue' = stopsDue /\ stops' = stops
    BY <1>8 DEF LookAgain, Close, tasks, counters, faults
  <2>2. Finalizers' = Finalizers \ {w}
    BY <2>1, FinalizerIsDone
  <2> QED
    BY <2>1, <2>2 DEF FinalizersStay, FinalizerLeaves
<1>9. ASSUME NEW w \in Workers, Take(w) \/ CutRow(w) \/ Gather(w) \/ Hold(w) \/ Clear(w) \/ Dispatch(w) \/ Keep(w) \/ Unlock(w)
      PROVE  FinalizersStay
  <2>1. stopsDue' = stopsDue /\ stops' = stops
    BY <1>9 DEF Take, CutRow, Gather, Hold, Clear, Dispatch, Keep, Unlock, tasks, counters, faults
  <2>2. Finalizers' = Finalizers
    BY <1>9, TakingIsAStep, CuttingIsAStep, SettlingIsAStep, KeepingIsAStep, FinalizingGoesOn
  <2> QED
    BY <2>1, <2>2 DEF FinalizersStay
<1>10. ASSUME NEW w \in Workers, job[w] \in Drains, Raise(w), stops' = stops PROVE FinalizersStay \/ FinalizerLeaves(w)
  <2>1. job[w] \notin Closings
    BY <1>0, <1>10
  <2>2. Leave(w) /\ stopsDue' = IF Finalizes(w) THEN stopsDue + 1 ELSE stopsDue
    BY <1>10, <2>1 DEF Raise, Finalizes
  <2> QED
    BY <1>10, <2>2, FinalizerIsBack
<1>11. ASSUME NEW w \in Workers, Mark(w) \/ SaveMark(w) \/ MarkConflict(w) PROVE FinalizersStay \/ FinalizerLeaves(w)
  <2>1. job[w] \in Drains /\ stops' = stops
    BY <1>11, StepsTell DEF Mark, SaveMark, MarkConflict, AudioTyped, DrainPcs, counters, faults
  <2>2. stopsDue' = stopsDue \/ Raise(w)
    BY <1>11 DEF Mark, SaveMark, MarkConflict, tasks, StateTyped
  <2>3. CASE Raises(w) /\ ~Raise(w)
    <3>1. Leave(w)
      BY <2>3 DEF Raises, Turns, Leave
    <3>2. Finalizers' = Finalizers \ {w}
      BY <3>1, FinalizerIsDone
    <3> QED
      BY <2>1, <2>2, <2>3, <3>2 DEF FinalizersStay, FinalizerLeaves
  <2>4. CASE Marks(w)
    <3>1. Finalizers' = Finalizers
      BY <2>4, FinalizingGoesOn
    <3> QED
      BY <1>10, <2>1, <2>2, <3>1 DEF FinalizersStay
  <2> QED
    BY <1>10, <1>11, <2>1, <2>3, <2>4, MarkingIsAStep
<1>12. ASSUME NEW w \in Workers, Crash(w) PROVE FinalizersStay \/ FinalizerLeaves(w)
  <2>1. job[w] \in Closings \/ job[w] \in Drains
    BY <1>12, StepsTell DEF Crash, AudioTyped, Jobs, Idle
  <2>2. Leave(w) /\ stops' = stops /\ stopsDue' = IF Finalizes(w) THEN stopsDue + 1 ELSE stopsDue
    BY <1>12, <2>1 DEF Crash, Finalizes
  <2> QED
    BY <2>2, FinalizerIsBack
<1> QED
  BY <1>2, <1>3, <1>4, <1>5, <1>6, <1>7, <1>8, <1>9, <1>11, <1>12 DEF Next, Work

\* The finalize tasks, waiting or run, are no more than the stops that asked for them.
FinalizesAskedFor ==
    /\ stopsDue \in Nat /\ stops \in Nat /\ IsFiniteSet(Finalizers)
    /\ stopsDue + Cardinality(Finalizers) <= stops

LEMMA FinalizesStayAskedFor ==
    ASSUME AudioTyped, StateTyped, FinalizesAskedFor, [Next]_vars
    PROVE  FinalizesAskedFor'
<1>0. Cardinality(Finalizers) \in Nat
  BY FS_CardinalityType DEF FinalizesAskedFor
<1>1. CASE FinalizersStay
  BY <1>0, <1>1 DEF FinalizersStay, FinalizesAskedFor
<1>2. ASSUME NEW w \in Workers, FinalizerStarts(w) PROVE FinalizesAskedFor'
  <2>1. IsFiniteSet(Finalizers \cup {w}) /\ Cardinality(Finalizers \cup {w}) = Cardinality(Finalizers) + 1
    BY <1>2, FS_AddElement DEF FinalizesAskedFor, FinalizerStarts
  <2>2. IsFiniteSet(Finalizers') /\ Cardinality(Finalizers') = Cardinality(Finalizers) + 1
    BY <1>2, <2>1 DEF FinalizerStarts
  <2> QED
    BY <1>0, <1>2, <2>2 DEF FinalizerStarts, FinalizesAskedFor
<1>3. ASSUME NEW w \in Workers, FinalizerLeaves(w) PROVE FinalizesAskedFor'
  <2>1. IsFiniteSet(Finalizers \ {w}) /\ Cardinality(Finalizers \ {w}) = Cardinality(Finalizers) - 1
    BY <1>3, FS_RemoveElement DEF FinalizesAskedFor, FinalizerLeaves
  <2>2. IsFiniteSet(Finalizers') /\ Cardinality(Finalizers') = Cardinality(Finalizers) - 1
    BY <1>3, <2>1 DEF FinalizerLeaves
  <2> QED
    BY <1>0, <1>3, <2>2 DEF FinalizerLeaves, FinalizesAskedFor
<1> QED
  BY <1>1, <1>2, <1>3, FinalizersChange

\* What only counts or is a copy.
CountersTyped ==
    /\ refreshed \subseteq Workers
    /\ stops \in 0 .. MaxStops /\ crashes \in 0 .. MaxCrashes /\ replays \in 0 .. MaxReplays
    /\ overruns \in [Sources -> 0 .. MaxOverruns]

LEMMA CountersStayTyped ==
    ASSUME AudioTyped, StateTyped, CountersTyped, [Next]_vars
    PROVE  CountersTyped'
<1>0. MaxStops \in Nat /\ MaxCrashes \in Nat /\ MaxReplays \in Nat /\ MaxOverruns \in Nat
  BY BoundsAssumption DEF BoundsAssumption
<1>1. ASSUME NEW w \in Workers, refreshed' \subseteq refreshed \cup {w}, UNCHANGED <<faults, overruns>> PROVE CountersTyped'
  BY <1>1 DEF CountersTyped, faults
<1>2. ASSUME refreshed' \subseteq refreshed, UNCHANGED <<faults, overruns>> PROVE CountersTyped'
  BY <1>2 DEF CountersTyped, faults
<1>3. ASSUME NEW w \in Workers, NEW s \in Sources, StartDrain(w, s) \/ SkipDrain(w, s) PROVE CountersTyped'
  BY <1>2, <1>3 DEF StartDrain, SkipDrain, database, counters, history
<1>4. ASSUME NEW w \in Workers, StartFinalize(w) \/ LockForFinal(w) \/ LookAgain(w) \/ Take(w) \/ CutRow(w) PROVE CountersTyped'
  BY <1>2, <1>4 DEF StartFinalize, LockForFinal, LookAgain, Take, CutRow, database, counters, history
<1>5. ASSUME NEW w \in Workers, Gather(w) \/ Hold(w) \/ Clear(w) \/ Dispatch(w) \/ Keep(w) \/ Unlock(w) PROVE CountersTyped'
  BY <1>2, <1>5 DEF Gather, Hold, Clear, Dispatch, Keep, Unlock, database, counters, history
<1>6. ASSUME NEW w \in Workers, Close(w) \/ SaveMark(w) \/ MarkConflict(w) PROVE CountersTyped'
  BY <1>2, <1>6 DEF Close, SaveMark, MarkConflict, database, counters, history
<1>7. ASSUME NEW w \in Workers, Mark(w) PROVE CountersTyped'
  <2>1. UNCHANGED <<faults, overruns>> /\ (refreshed' = refreshed \/ refreshed' = refreshed \cup {w})
    BY <1>7 DEF Mark, StateTyped
  <2> QED
    BY <1>1, <2>1
<1>8. ASSUME NEW w \in Workers, Crash(w) PROVE CountersTyped'
  BY <1>0, <1>8 DEF Crash, CountersTyped, history
<1>9. CASE Stop
  BY <1>0, <1>9 DEF Stop, CountersTyped, database, history
<1>10. CASE Transcribe \/ UNCHANGED vars
  BY <1>2, <1>10 DEF Transcribe, vars, database, counters, history
<1>11. ASSUME NEW s \in Sources, Upload(s) PROVE CountersTyped'
  BY <1>2, <1>11 DEF Upload, database
<1>12. ASSUME NEW s \in Sources, UploadAgain(s) PROVE CountersTyped'
  BY <1>0, <1>12 DEF UploadAgain, CountersTyped, database
<1>13. ASSUME NEW s \in Sources, Expire(s) PROVE CountersTyped'
  <2>1. UNCHANGED <<refreshed, faults>>
    BY <1>13 DEF Expire, database
  <2>2. overruns' = overruns \/ (overruns[s] < MaxOverruns /\ overruns' = [overruns EXCEPT ![s] = overruns[s] + 1])
    BY <1>13 DEF Expire
  <2>3. overruns' \in [Sources -> 0 .. MaxOverruns]
    BY <1>0, <2>2 DEF CountersTyped
  <2> QED
    BY <2>1, <2>3 DEF CountersTyped, faults
<1> QED
  BY <1>3, <1>4, <1>5, <1>6, <1>7, <1>8, <1>9, <1>10, <1>11, <1>12, <1>13 DEF Next, Work

\* The keys in Redis, the rows and the tasks keep their types; of the tasks that
\* finalize a session there are never more, waiting or run, than stops asked for
\* them, although a finalize that meets a lock, an error or its worker's death is
\* queued again each time (finalize_local_session).
THEOREM LocalSessionTypeCorrect == Spec => [](TypeOK /\ FinalizesAskedFor)
<1> DEFINE Inv == AudioTyped /\ StateTyped /\ DueTyped /\ FinalizesAskedFor /\ CountersTyped
<1>1. Init => Inv
  <2> SUFFICES ASSUME Init PROVE Inv
    OBVIOUS
  <2>0. MaxReplays \in Nat /\ MaxStops \in Nat /\ MaxCrashes \in Nat /\ MaxOverruns \in Nat
    BY BoundsAssumption DEF BoundsAssumption
  <2>1. AudioTyped /\ StateTyped /\ \A w \in Workers : job[w] \notin Drains /\ job[w] \notin Closings
    BY SessionIsNew
  <2>3. Finalizers = {}
    BY <2>1 DEF Finalizers, Finalizes
  <2>4. FinalizesAskedFor
    BY <2>3, FS_EmptySet DEF Init, FinalizesAskedFor
  <2>5. DueTyped /\ CountersTyped
    BY <2>0 DEF Init, DueTyped, CountersTyped
  <2> QED
    BY <2>1, <2>4, <2>5
<1>2. Inv /\ [Next]_vars => Inv'
  <2> SUFFICES ASSUME Inv, [Next]_vars PROVE Inv'
    OBVIOUS
  <2>1. AudioStep
    BY EveryStepIsAudioStep
  <2> QED
    BY <2>1, StateStaysTyped, AudioStaysTyped, DueStaysTyped, FinalizesStayAskedFor, CountersStayTyped
<1>3. Inv => TypeOK
  <2> SUFFICES ASSUME Inv PROVE TypeOK
    OBVIOUS
  <2>1. Cardinality(Finalizers) \in Nat
    BY FS_CardinalityType DEF FinalizesAskedFor
  <2>2. stopsDue \in 0 .. MaxStops
    BY <2>1, BoundsAssumption DEF FinalizesAskedFor, CountersTyped, BoundsAssumption
  <2> QED
    BY <2>2 DEF TypeOK, AudioTyped, StateTyped, DueTyped, CountersTyped, Jobs
<1> QED
  BY <1>1, <1>2, <1>3, PTL DEF Spec
=============================================================================
