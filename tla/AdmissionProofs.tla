--------------------------- MODULE AdmissionProofs ---------------------------
(***************************************************************************)
(* What is proved of the admission of bots to a meeting, for any requests, *)
(* workers, bounds and hours: one bot at a time is in the meeting, a bot   *)
(* is not staged before its time, and a meeting whose bots keep dying gets *)
(* no more replacements than it may. The last of these is about the chains *)
(* of replacements: each is followed to its root, which is an induction    *)
(* over the order in which the bots were created, and it has one end,      *)
(* which is the only one of it that can be replaced.                       *)
(*                                                                         *)
(* And the thread that joins the meeting keeps to what MeetingAdapter says *)
(* of it.                                                                  *)
(***************************************************************************)
EXTENDS BotAdmission, MeetingJoin, WellFoundedInduction, FiniteSetTheorems, TLAPS

-----------------------------------------------------------------------------
(* Chains of replacements: replaced[b] is the bot that b replaces, or 0. *)

Chains == {replaced \in [BotIds -> Nat] : \A b \in BotIds : replaced[b] < b}

\* root is where the chain of each bot begins.
LeadsTo(replaced, root) ==
    \A b \in BotIds : root[b] = IF replaced[b] = 0 THEN b ELSE root[replaced[b]]

\* A set of numbers has a least one. (The library states induction for a
\* predicate; the provers need a set.)
LEMMA LeastNumber ==
    ASSUME NEW S \in SUBSET Nat, S # {}
    PROVE  \E x \in S : \A y \in S : x <= y
<1> DEFINE Less == OpToRel(<, Nat)
<1>1. IsWellFoundedOn(Less, Nat)
  BY NatLessThanWellFounded
<1>2. \A x, y \in Nat : x < y => <<x, y>> \in Less
  BY DEF OpToRel
<1> HIDE DEF Less
<1>3. PICK x \in S : \A y \in S : ~(<<y, x>> \in Less)
  BY <1>1, WFMin
<1>4. \A y \in S : ~(y < x)
  BY <1>2, <1>3
<1> QED
  BY <1>4

\* Every chain has a root.
LEMMA ChainsHaveRoots ==
    ASSUME NEW replaced \in Chains
    PROVE  \E root \in [BotIds -> BotIds] : LeadsTo(replaced, root)
<1> DEFINE Upto(n, f) == \A b \in 1 .. n : f[b] = IF replaced[b] = 0 THEN b ELSE f[replaced[b]]
           Without == {n \in 0 .. MaxBots : ~ \E f \in [1 .. n -> BotIds] : Upto(n, f)}
<1>1. MaxBots \in Nat
  BY AdmissionAssumption
<1>2. SUFFICES Without = {}
  <2>1. MaxBots \notin Without
    BY <1>2
  <2> QED
    BY <2>1, <1>1 DEF BotIds, LeadsTo
<1>3. SUFFICES ASSUME Without # {} PROVE FALSE
  OBVIOUS
<1>4. PICK n \in Without : \A m \in Without : n <= m
  <2>1. Without \subseteq Nat
    BY <1>1
  <2> HIDE DEF Without
  <2> QED
    BY <2>1, <1>3, LeastNumber
<1>5. n # 0
  <2>1. [b \in 1 .. 0 |-> b] \in [1 .. 0 -> BotIds]
    OBVIOUS
  <2>2. Upto(0, [b \in 1 .. 0 |-> b])
    OBVIOUS
  <2> QED
    BY <2>1, <2>2
<1>6. n \in 1 .. MaxBots /\ n - 1 \in 0 .. MaxBots /\ n - 1 \notin Without
  <2>1. Without \subseteq 0 .. MaxBots
    OBVIOUS
  <2> HIDE DEF Without
  <2> QED
    BY <2>1, <1>1, <1>4, <1>5
<1>7. PICK f \in [1 .. n - 1 -> BotIds] : Upto(n - 1, f)
  BY <1>6
<1> DEFINE g == [b \in 1 .. n |-> IF b < n THEN f[b] ELSE IF replaced[n] = 0 THEN n ELSE f[replaced[n]]]
<1>8. \A b \in 1 .. n : replaced[b] \in Nat /\ replaced[b] < b
  BY <1>6, <1>1 DEF Chains, BotIds
<1>9. \A b \in 1 .. n - 1 : g[b] = f[b]
  BY <1>6
<1>10. g[n] = IF replaced[n] = 0 THEN n ELSE f[replaced[n]]
  BY <1>6
<1>11. g \in [1 .. n -> BotIds]
  <2>1. replaced[n] # 0 => replaced[n] \in 1 .. n - 1
    BY <1>6, <1>8
  <2>2. n \in BotIds
    BY <1>6 DEF BotIds
  <2>3. \A b \in 1 .. n : b < n => b \in 1 .. n - 1
    BY <1>6
  <2> QED
    BY <2>1, <2>2, <2>3
<1> HIDE DEF g
<1>12. Upto(n, g)
  <2> SUFFICES ASSUME NEW b \in 1 .. n
               PROVE  g[b] = IF replaced[b] = 0 THEN b ELSE g[replaced[b]]
    OBVIOUS
  <2>1. replaced[b] # 0 => replaced[b] \in 1 .. n - 1
    BY <1>6, <1>8
  <2>2. CASE b = n
    BY <2>1, <2>2, <1>9, <1>10
  <2>3. CASE b # n
    <3>1. b \in 1 .. n - 1
      BY <2>3, <1>6
    <3> QED
      BY <3>1, <2>1, <1>7, <1>9
  <2> QED
    BY <2>2, <2>3
<1> QED
  BY <1>11, <1>12

\* The root of a bot of the chain is no later than the bot.
LEMMA RootsAreEarlier ==
    ASSUME NEW replaced \in Chains, NEW root, LeadsTo(replaced, root), NEW b \in BotIds
    PROVE  root[b] \in BotIds /\ root[b] <= b
<1> DEFINE Later == {n \in BotIds : ~(root[n] \in BotIds /\ root[n] <= n)}
<1>1. SUFFICES ASSUME Later # {} PROVE FALSE
  OBVIOUS
<1>2. PICK n \in Later : \A m \in Later : n <= m
  <2>1. Later \subseteq Nat
    BY AdmissionAssumption DEF BotIds
  <2> HIDE DEF Later
  <2> QED
    BY <2>1, <1>1, LeastNumber
<1>3. n \in BotIds /\ replaced[n] \in Nat /\ replaced[n] < n /\ n \in Nat
  BY AdmissionAssumption DEF Chains, BotIds
<1>4. replaced[n] # 0
  BY <1>2, <1>3 DEF LeadsTo
<1>5. replaced[n] \in BotIds /\ replaced[n] \notin Later
  BY <1>2, <1>3, <1>4, AdmissionAssumption DEF BotIds
<1>6. root[n] = root[replaced[n]]
  BY <1>3, <1>4 DEF LeadsTo
<1>7. root[n] \in BotIds /\ root[n] <= replaced[n]
  BY <1>5, <1>6
<1>8. root[n] \in Nat
  BY <1>7, AdmissionAssumption DEF BotIds
<1> QED
  BY <1>2, <1>3, <1>7, <1>8

\* Where links are only cut, two bots that still have one root had one before.
LEMMA CutsSplit ==
    ASSUME NEW old \in Chains, NEW new \in Chains, NEW root, NEW root2,
           LeadsTo(old, root), LeadsTo(new, root2),
           \A b \in BotIds : new[b] \in {old[b], 0}
    PROVE  \A i, j \in BotIds : root2[i] = root2[j] => root[i] = root[j]
<1> DEFINE Astray == {n \in BotIds : root[root2[n]] # root[n]}
<1>1. Astray = {}
  <2>1. SUFFICES ASSUME Astray # {} PROVE FALSE
    OBVIOUS
  <2>2. PICK n \in Astray : \A m \in Astray : n <= m
    <3>1. Astray \subseteq Nat
      BY AdmissionAssumption DEF BotIds
    <3> HIDE DEF Astray
    <3> QED
      BY <3>1, <2>1, LeastNumber
  <2>3. n \in BotIds /\ new[n] \in Nat /\ new[n] < n /\ n \in Nat
    BY AdmissionAssumption DEF Chains, BotIds
  <2>4. new[n] # 0 /\ new[n] = old[n]
    BY <2>2, <2>3 DEF LeadsTo
  <2>5. new[n] \in BotIds /\ new[n] \notin Astray
    BY <2>2, <2>3, <2>4, AdmissionAssumption DEF BotIds
  <2>6. root2[n] = root2[new[n]] /\ root[n] = root[new[n]]
    BY <2>3, <2>4 DEF LeadsTo
  <2> QED
    BY <2>2, <2>5, <2>6
<1> QED
  BY <1>1

\* What was added at the end of a chain leaves the roots of the others.
LEMMA AddedLater ==
    ASSUME NEW old \in Chains, NEW new \in Chains, NEW root, NEW root2, NEW last \in BotIds,
           LeadsTo(old, root), LeadsTo(new, root2),
           \A b \in BotIds : b < last => new[b] = old[b]
    PROVE  \A b \in BotIds : b < last => root2[b] = root[b]
<1> DEFINE Moved == {n \in BotIds : n < last /\ root2[n] # root[n]}
<1>1. SUFFICES ASSUME Moved # {} PROVE FALSE
  OBVIOUS
<1>2. PICK n \in Moved : \A m \in Moved : n <= m
  <2>1. Moved \subseteq Nat
    BY AdmissionAssumption DEF BotIds
  <2> HIDE DEF Moved
  <2> QED
    BY <2>1, <1>1, LeastNumber
<1>3. n \in BotIds /\ old[n] \in Nat /\ old[n] < n /\ n \in Nat /\ last \in Nat
  BY AdmissionAssumption DEF Chains, BotIds
<1>4. old[n] # 0 /\ new[n] = old[n]
  BY <1>2, <1>3 DEF LeadsTo
<1>5. old[n] \in BotIds /\ old[n] < last /\ old[n] \notin Moved
  BY <1>2, <1>3, <1>4, AdmissionAssumption DEF BotIds
<1>6. root2[n] = root2[old[n]] /\ root[n] = root[old[n]]
  BY <1>3, <1>4 DEF LeadsTo
<1> QED
  BY <1>2, <1>5, <1>6

\* Where no bot is replaced twice, a bot of a chain that is not its last one is
\* replaced by one of it that is no later than the others.
LEMMA ChainsAreLines ==
    ASSUME NEW replaced \in Chains, NEW root, LeadsTo(replaced, root),
           \A i, j \in BotIds : replaced[i] = replaced[j] /\ replaced[i] # 0 => i = j,
           NEW x \in BotIds, NEW y \in BotIds, root[x] = root[y], x < y
    PROVE  \E s \in BotIds : s <= y /\ replaced[s] = x
<1> DEFINE Succeeded(n) == \A i \in BotIds : i < n /\ root[i] = root[n] => \E s \in BotIds : s <= n /\ replaced[s] = i
           Odd == {n \in BotIds : ~Succeeded(n)}
<1>1. SUFFICES ASSUME Odd # {} PROVE FALSE
  OBVIOUS
<1>2. PICK n \in Odd : \A m \in Odd : n <= m
  <2>1. Odd \subseteq Nat
    BY AdmissionAssumption DEF BotIds
  <2> HIDE DEF Odd
  <2> QED
    BY <2>1, <1>1, LeastNumber
<1>3. PICK i \in BotIds : i < n /\ root[i] = root[n] /\ ~ \E s \in BotIds : s <= n /\ replaced[s] = i
  BY <1>2
<1>4. n \in BotIds /\ n \in Nat /\ i \in Nat /\ replaced[n] \in Nat /\ replaced[n] < n
  BY AdmissionAssumption DEF Chains, BotIds
<1> DEFINE p == replaced[n]
<1>5. p # 0
  <2>1. SUFFICES ASSUME p = 0 PROVE FALSE
    OBVIOUS
  <2>2. root[n] = n
    BY <2>1, <1>4 DEF LeadsTo
  <2>3. root[i] \in BotIds /\ root[i] <= i
    BY RootsAreEarlier
  <2> QED
    BY <2>2, <2>3, <1>3, <1>4
<1>6. p \in BotIds /\ p < n /\ root[p] = root[n] /\ p # i
  BY <1>3, <1>4, <1>5, AdmissionAssumption DEF BotIds, LeadsTo
<1>7. CASE i < p
  <2>1. Succeeded(p)
    BY <1>2, <1>4, <1>6
  <2>2. PICK s \in BotIds : s <= p /\ replaced[s] = i
    BY <2>1, <1>3, <1>6, <1>7
  <2>3. s <= n
    BY <2>2, <1>4, <1>6, AdmissionAssumption DEF BotIds
  <2> QED
    BY <2>2, <2>3, <1>3
<1>8. CASE p < i
  <2>1. Succeeded(i)
    BY <1>2, <1>3, <1>4
  <2>2. PICK s \in BotIds : s <= i /\ replaced[s] = p
    BY <2>1, <1>3, <1>6, <1>8
  <2>3. s = n
    BY <2>2, <1>4, <1>5
  <2> QED
    BY <2>2, <2>3, <1>3, <1>4
<1> QED
  BY <1>4, <1>6, <1>7, <1>8

-----------------------------------------------------------------------------
(* The rows. *)

\* What each bot replaces, and the root of the chain that it came from.
Replaced == [b \in BotIds |-> IF b \in Ids THEN rows[b].replaces ELSE 0]

LEMMA RootIsRoot == ASSUME Replaced \in Chains PROVE LeadsTo(Replaced, RootOf)
<1> DEFINE Root(f) == [b \in BotIds |-> IF b \notin Ids \/ rows[b].replaces = 0 THEN b ELSE f[rows[b].replaces]]
<1>1. PICK f \in [BotIds -> BotIds] : LeadsTo(Replaced, f)
  BY ChainsHaveRoots
<1>2. f = Root(f)
  BY <1>1 DEF LeadsTo, Replaced
<1>3. RootOf = Root(RootOf)
  BY <1>2 DEF RootOf
<1> QED
  BY <1>3 DEF LeadsTo, Replaced

\* The ids that are kept are those of rows, what is to be launched was due, and a
\* scheduled bot has a time.
AdmissionRefs ==
    /\ \A c \in Creators : creation[c].pc = "launching" => creation[c].bot \in Ids
    /\ \A m \in launchQueue : m.bot \in Ids /\ m.at <= hour
    /\ \A l \in Launchers : launcher[l].pc # "idle" => launcher[l].bot \in Ids /\ launcher[l].at <= hour
    /\ \A b \in BotIds : recovery[b].pc = "launching" => recovery[b].bot \in Ids
    /\ \A b \in Ids : rows[b].state = "SCHEDULED" => rows[b].at \in Times

Over(row) == row.state \in PostMeetingStates \cup {"GONE"}

\* What a step may make of a row.
GoesOn(old, new) ==
    /\ new.state \in HoldsSlotStates => old.state \in HoldsSlotStates
    /\ Over(old) => Over(new)
    /\ new.created = old.created /\ new.replaces \in {old.replaces, 0}
    /\ new.state = "SCHEDULED" => new.at \in Times
    /\ old.state = "SCHEDULED" /\ new.state = "STAGED" => old.at <= hour

RowGoesOn == \E b \in Ids, row \in Rows : PutRow(b, row) /\ GoesOn(rows[b], row)

RecoveryCalms == \A b \in BotIds : recovery'[b].pc \in {recovery[b].pc, "none"}

\* What a step may do to the rows and to the replacements that are looked for.
AdmissionStep ==
    \/ (UNCHANGED rows \/ RowGoesOn) /\ RecoveryCalms /\ hour' = hour
    \/ \E b \in Ids : CountReplacements(b) \/ CreateReplacement(b)
    \/ \E b \in Ids : Die(b) /\ RowGoesOn
    \/ \E at \in Times \cup {AtOnce} : InsertRow(at, 0) /\ RecoveryCalms /\ hour' = hour
    \/ HourPasses

-----------------------------------------------------------------------------
LEMMA BotIdsAreIds ==
    ASSUME AdmissionTypeOK
    PROVE  Ids \subseteq BotIds /\ Ids = 1 .. Len(rows) /\ Len(rows) \in Nat /\ \A b \in Ids : rows[b] \in Rows
  BY AdmissionAssumption DEF AdmissionTypeOK, Ids, BotIds

LEMMA RowPut ==
    ASSUME AdmissionTypeOK, NEW b \in Ids, NEW row \in Rows, PutRow(b, row)
    PROVE  /\ rows' \in Seq(Rows) /\ Len(rows') <= MaxBots /\ Ids' = Ids
           /\ rows'[b] = row /\ \A j \in Ids : j # b => rows'[j] = rows[j]
  BY DEF AdmissionTypeOK, Ids, PutRow

LEMMA RowInserted ==
    ASSUME AdmissionTypeOK, NEW at \in Times \cup {AtOnce}, NEW dead \in 0 .. MaxBots, InsertRow(at, dead)
    PROVE  /\ rows' \in Seq(Rows) /\ Len(rows') <= MaxBots /\ Len(rows') = Len(rows) + 1
           /\ Ids' = Ids \cup {Len(rows')} /\ Ids' \subseteq BotIds /\ Len(rows') \notin Ids
           /\ Len(rows') \in BotIds /\ rows'[Len(rows')] = NewRow(at, dead)
           /\ \A j \in Ids : rows'[j] = rows[j]
           /\ NewRow(at, dead).state = "SCHEDULED" => at \in Times
<1>1. NewRow(at, dead) \in Rows
  <2>1. FixedTarget("JOIN_REQUESTED") = "JOINING"
    BY DEF FixedTarget
  <2> QED
    BY <2>1 DEF NewRow, Rows, States, InsertRow
<1>2. rows \in Seq(Rows) /\ rows' = Append(rows, NewRow(at, dead)) /\ Len(rows) < MaxBots /\ MaxBots \in Nat
  BY AdmissionAssumption DEF AdmissionTypeOK, InsertRow
<1>3. /\ rows' \in Seq(Rows) /\ Len(rows') = Len(rows) + 1 /\ Len(rows) \in Nat
      /\ rows'[Len(rows')] = NewRow(at, dead)
      /\ \A j \in 1 .. Len(rows) : rows'[j] = rows[j]
  BY <1>1, <1>2
<1>4. Ids = 1 .. Len(rows) /\ Ids' = 1 .. Len(rows')
  BY <1>2, <1>3 DEF Ids
<1>5. NewRow(at, dead).state = "SCHEDULED" => at \in Times
  BY DEF NewRow, FixedTarget
<1> QED
  BY <1>2, <1>3, <1>4, <1>5 DEF BotIds

LEMMA EndedRows ==
    ASSUME NEW row \in Rows, NEW state \in PostMeetingStates \cup {"GONE"}
    PROVE  Ended(row, state) \in Rows /\ GoesOn(row, Ended(row, state)) /\ Over(Ended(row, state))
<1>1. Ended(row, state) \in Rows
  BY DEF Ended, Rows, States
<1>2. GoesOn(row, Ended(row, state)) /\ Over(Ended(row, state))
  BY DEF Ended, Rows, GoesOn, Over, HoldsSlotStates, PostMeetingStates, States, JoinedStates, BreakoutStates, AppSessionStates
<1> QED
  BY <1>1, <1>2

\* The events that happen to these bots lead on.
LEMMA EventsLeadOn ==
    ASSUME NEW row \in Rows, NEW e \in InMeetingEvents \cup {"STAGED"}, row.state \in From(e),
           e = "STAGED" => row.at <= hour
    PROVE  /\ FixedTarget(e) \in States
           /\ ~Over(row)
           /\ FixedTarget(e) \notin PostMeetingStates =>
                 GoesOn(row, [row EXCEPT !.state = FixedTarget(e)])
<1>1. /\ FixedTarget(e) \in States /\ FixedTarget(e) # "SCHEDULED"
      /\ ~Over(row)
      /\ FixedTarget(e) \in HoldsSlotStates => row.state \in HoldsSlotStates
      /\ FixedTarget(e) = "STAGED" => e = "STAGED"
  BY DEF InMeetingEvents, From, FixedTarget, Over, HoldsSlotStates, PostMeetingStates, States,
         JoinedStates, BreakoutStates, AppSessionStates
<1>2. [row EXCEPT !.state = FixedTarget(e)] = [row EXCEPT !.state = FixedTarget(e)]
  OBVIOUS
<1> QED
  BY <1>1 DEF GoesOn, Rows

LEMMA EventRows ==
    ASSUME AdmissionTypeOK, NEW b \in Ids, NEW e \in InMeetingEvents \cup {"STAGED"}, rows[b].state \in From(e),
           e = "STAGED" => rows[b].at <= hour, NEW s \in {"never", "alive", "joined"}
    PROVE  /\ Happened(b, e) \in Rows /\ GoesOn(rows[b], Happened(b, e))
           /\ [Happened(b, e) EXCEPT !.seen = s] \in Rows
           /\ GoesOn(rows[b], [Happened(b, e) EXCEPT !.seen = s])
<1>1. rows[b] \in Rows
  BY BotIdsAreIds
<1>2. Happened(b, e) \in Rows /\ GoesOn(rows[b], Happened(b, e))
  <2>1. CASE FixedTarget(e) \in PostMeetingStates
    BY <2>1, <1>1, EndedRows DEF Happened
  <2>2. CASE FixedTarget(e) \notin PostMeetingStates
    <3>1. FixedTarget(e) \in States /\ GoesOn(rows[b], [rows[b] EXCEPT !.state = FixedTarget(e)])
      BY <2>2, <1>1, EventsLeadOn
    <3>2. [rows[b] EXCEPT !.state = FixedTarget(e)] \in Rows
      BY <3>1, <1>1 DEF Rows
    <3> QED
      BY <3>1, <3>2, <2>2 DEF Happened
  <2> QED
    BY <2>1, <2>2
<1>3. ASSUME NEW row \in Rows, GoesOn(rows[b], row)
      PROVE  [row EXCEPT !.seen = s] \in Rows /\ GoesOn(rows[b], [row EXCEPT !.seen = s])
  <2>1. [row EXCEPT !.seen = s] \in Rows
    BY DEF Rows
  <2>2. GoesOn(rows[b], [row EXCEPT !.seen = s])
    BY <1>3 DEF Rows, GoesOn, Over
  <2> QED
    BY <2>1, <2>2
<1> QED
  BY <1>2, <1>3

LEMMA FailedRows ==
    ASSUME AdmissionTypeOK, NEW b \in Ids, MayFail(b)
    PROVE  Failed(b) \in Rows /\ GoesOn(rows[b], Failed(b)) /\ Over(Failed(b)) /\ ~Over(rows[b])
<1>1. rows[b] \in Rows
  BY BotIdsAreIds
<1>2. FixedTarget("FATAL_ERROR") = "FATAL_ERROR"
  BY DEF FixedTarget
<1>3. Happened(b, "FATAL_ERROR") = Ended(rows[b], "FATAL_ERROR")
  BY <1>2 DEF Happened, PostMeetingStates
<1>4. /\ Ended(rows[b], "FATAL_ERROR") \in Rows /\ Over(Ended(rows[b], "FATAL_ERROR"))
      /\ GoesOn(rows[b], Ended(rows[b], "FATAL_ERROR"))
  BY <1>1, EndedRows DEF PostMeetingStates
<1>5. ASSUME NEW row \in Rows, GoesOn(rows[b], row), Over(row), NEW x \in BOOLEAN
      PROVE  /\ [row EXCEPT !.left = x] \in Rows
             /\ GoesOn(rows[b], [row EXCEPT !.left = x]) /\ Over([row EXCEPT !.left = x])
  <2>1. [row EXCEPT !.left = x] \in Rows
    BY DEF Rows
  <2>2. GoesOn(rows[b], [row EXCEPT !.left = x]) /\ Over([row EXCEPT !.left = x])
    BY <1>5 DEF Rows, GoesOn, Over
  <2> QED
    BY <2>1, <2>2
<1>6. ~Over(rows[b])
  BY DEF MayFail, From, Over, States, PostMeetingStates, JoinedStates, BreakoutStates, AppSessionStates
<1> QED
  BY <1>3, <1>4, <1>5, <1>6 DEF Failed

LEMMA LaunchedRows ==
    ASSUME AdmissionTypeOK, AdmissionRefs, NEW b \in Ids, Launches(b)
    PROVE  RowGoesOn
<1>1. rows[b] \in Rows
  BY BotIdsAreIds
<1>2. GoesOn(rows[b], rows[b])
  BY <1>1 DEF GoesOn, AdmissionRefs, Rows
<1>3. CASE PutRow(b, [rows[b] EXCEPT !.pod = TRUE])
  <2>1. [rows[b] EXCEPT !.pod = TRUE] \in Rows
    BY <1>1 DEF Rows
  <2>2. GoesOn(rows[b], [rows[b] EXCEPT !.pod = TRUE])
    BY <1>1, <1>2 DEF Rows, GoesOn, Over
  <2> QED
    BY <2>1, <2>2, <1>3 DEF RowGoesOn
<1>4. CASE MayFail(b) /\ PutRow(b, Failed(b))
  BY <1>4, FailedRows DEF RowGoesOn
<1>5. CASE PutRow(b, rows[b])
  BY <1>5, <1>1, <1>2 DEF RowGoesOn
<1> QED
  BY <1>3, <1>4, <1>5 DEF Launches

\* What is written about the rows only keeps its sense while there are as many.
LEMMA RowsGoOnTyped ==
    ASSUME AdmissionTypeOK, AdmissionRefs, RowGoesOn
    PROVE  /\ rows' \in Seq(Rows) /\ Len(rows') <= MaxBots /\ Ids' = Ids
           /\ \A b \in Ids' : rows'[b].state = "SCHEDULED" => rows'[b].at \in Times
<1>1. PICK b \in Ids, row \in Rows : PutRow(b, row) /\ GoesOn(rows[b], row)
  BY DEF RowGoesOn
<1>2. /\ rows' \in Seq(Rows) /\ Len(rows') <= MaxBots /\ Ids' = Ids
      /\ rows'[b] = row /\ \A j \in Ids : j # b => rows'[j] = rows[j]
  BY <1>1, RowPut
<1>3. row.state = "SCHEDULED" => row.at \in Times
  BY <1>1 DEF GoesOn
<1> QED
  BY <1>2, <1>3 DEF AdmissionRefs

-----------------------------------------------------------------------------
(* Each of the steps. *)

AdmissionOK == AdmissionTypeOK /\ AdmissionRefs

LEMMA AdmissionInitOK == AdmissionInit => AdmissionOK
<1> SUFFICES ASSUME AdmissionInit PROVE AdmissionOK
  OBVIOUS
<1>1. Ids = {} /\ rows \in Seq(Rows) /\ Len(rows) <= MaxBots
  BY AdmissionAssumption DEF AdmissionInit, Ids
<1>2. IdleCreation \in [pc : {"idle", "conflict", "again", "launching"}, again : BOOLEAN,
                        at : Times \cup {AtOnce}, bot : 0 .. MaxBots]
  BY AdmissionAssumption DEF IdleCreation
<1>3. IdleLauncher \in [pc : {"idle", "loaded", "staged"}, bot : 0 .. MaxBots, at : Times]
  BY AdmissionAssumption DEF IdleLauncher, Times
<1>4. hour \in 0 .. LastHour + 2
  BY AdmissionAssumption DEF AdmissionInit
<1>5. [pc |-> "none", bot |-> 0] \in [pc : {"none", "due", "counted", "launching"}, bot : 0 .. MaxBots]
  BY AdmissionAssumption
<1>6. AdmissionTypeOK
  BY <1>1, <1>2, <1>3, <1>4, <1>5 DEF AdmissionTypeOK, AdmissionInit
<1>7. AdmissionRefs
  BY <1>1 DEF AdmissionRefs, AdmissionInit, IdleCreation, IdleLauncher
<1> QED
  BY <1>6, <1>7 DEF AdmissionOK

\* A step of the rows alone.
LEMMA OnlyRows ==
    ASSUME AdmissionOK, UNCHANGED rows \/ RowGoesOn, UNCHANGED <<hour, creation, launchQueue, launcher>>,
           recovery' \in [BotIds -> [pc : {"none", "due", "counted", "launching"}, bot : 0 .. MaxBots]],
           \A b \in BotIds : recovery'[b].pc = "launching" => recovery'[b] = recovery[b]
    PROVE  AdmissionOK'
<1>1. /\ rows' \in Seq(Rows) /\ Len(rows') <= MaxBots /\ Ids' = Ids
      /\ \A b \in Ids' : rows'[b].state = "SCHEDULED" => rows'[b].at \in Times
  <2>1. CASE UNCHANGED rows
    BY <2>1 DEF AdmissionOK, AdmissionTypeOK, AdmissionRefs, Ids
  <2>2. CASE RowGoesOn
    BY <2>2, RowsGoOnTyped DEF AdmissionOK
  <2> QED
    BY <2>1, <2>2
<1>2. AdmissionTypeOK'
  BY <1>1 DEF AdmissionOK, AdmissionTypeOK
<1>3. AdmissionRefs'
  BY <1>1 DEF AdmissionOK, AdmissionRefs
<1> QED
  BY <1>2, <1>3 DEF AdmissionOK

LEMMA CreationStep ==
    ASSUME AdmissionOK, NEW c \in Creators,
           InsertBot(c) \/ RefuseCreation(c) \/ ReturnExisting(c) \/ LaunchCreated(c)
    PROVE  AdmissionOK' /\ AdmissionStep
<1> DEFINE CreationRows == [pc : {"idle", "conflict", "again", "launching"}, again : BOOLEAN,
                            at : Times \cup {AtOnce}, bot : 0 .. MaxBots]
<1>1. IdleCreation \in CreationRows
  BY AdmissionAssumption DEF IdleCreation
<1>2. creation \in [Creators -> CreationRows]
  BY DEF AdmissionOK, AdmissionTypeOK
<1>3. RecoveryCalms /\ recovery' = recovery /\ hour' = hour /\ launchQueue' = launchQueue /\ launcher' = launcher
  BY DEF InsertBot, RefuseCreation, ReturnExisting, LaunchCreated, RecoveryCalms
<1> HIDE DEF CreationRows
\* What is left of a step when its request and its rows are as they should be.
<1>4. ASSUME rows' \in Seq(Rows), Len(rows') <= MaxBots, Ids \subseteq Ids',
             \A b \in Ids' : rows'[b].state = "SCHEDULED" => rows'[b].at \in Times,
             NEW row \in CreationRows, creation' = [creation EXCEPT ![c] = row],
             row.pc = "launching" => row.bot \in Ids'
      PROVE  AdmissionOK'
  <2>1. creation' \in [Creators -> CreationRows]
    BY <1>2, <1>4
  <2>2. AdmissionTypeOK'
    BY <1>3, <1>4, <2>1 DEF AdmissionOK, AdmissionTypeOK, CreationRows
  <2>3. \A d \in Creators : creation'[d].pc = "launching" => creation'[d].bot \in Ids'
    BY <1>2, <1>4 DEF AdmissionOK, AdmissionRefs
  <2>4. AdmissionRefs'
    BY <1>3, <1>4, <2>3 DEF AdmissionOK, AdmissionRefs
  <2> QED
    BY <2>2, <2>4 DEF AdmissionOK
<1>5. /\ rows \in Seq(Rows) /\ Len(rows) <= MaxBots
      /\ \A b \in Ids : rows[b].state = "SCHEDULED" => rows[b].at \in Times
  BY DEF AdmissionOK, AdmissionTypeOK, AdmissionRefs
<1>6. CASE UNCHANGED rows /\ (InsertBot(c) \/ RefuseCreation(c) \/ ReturnExisting(c))
  <2>1. Ids' = Ids
    BY <1>6 DEF Ids
  <2>2. AdmissionStep
    BY <1>3, <1>6 DEF AdmissionStep
  <2>3. PICK row \in CreationRows : creation' = [creation EXCEPT ![c] = row] /\ row.pc # "launching"
    <3>1. CASE InsertBot(c)
      <4>1. rows' = rows
        BY <1>6
      <4>2. PICK at \in Times \cup {AtOnce} : creation' = [creation EXCEPT ![c].pc = "conflict", ![c].at = at]
        <5>1. PICK at \in IF creation[c].pc = "again" THEN {creation[c].at} ELSE Times \cup {AtOnce} :
                 \/ InsertRow(at, 0)
                 \/ creation' = [creation EXCEPT ![c].pc = "conflict", ![c].at = at]
          BY <3>1 DEF InsertBot
        <5>2. at \in Times \cup {AtOnce}
          BY <5>1, <1>2 DEF CreationRows
        <5>3. ~InsertRow(at, 0)
          <6>1. 0 \in 0 .. MaxBots
            BY AdmissionAssumption
          <6>2. InsertRow(at, 0) => Len(rows') = Len(rows) + 1
            BY <5>2, <6>1, RowInserted DEF AdmissionOK
          <6>3. Len(rows) \in Nat
            BY <1>5
          <6> QED
            BY <6>2, <6>3, <4>1
        <5> QED
          BY <5>1, <5>2, <5>3
      <4> DEFINE row == [creation[c] EXCEPT !.pc = "conflict", !.at = at]
      <4>3. row \in CreationRows /\ row.pc = "conflict"
        BY <1>2, <4>2 DEF CreationRows
      <4>4. creation' = [creation EXCEPT ![c] = row]
        BY <1>2, <4>2
      <4> QED
        BY <4>3, <4>4
    <3>2. CASE RefuseCreation(c)
      BY <3>2, <1>1 DEF RefuseCreation, IdleCreation
    <3>3. CASE ReturnExisting(c)
      <4> DEFINE row == [creation[c] EXCEPT !.pc = "again", !.again = TRUE]
      <4>1. row \in CreationRows /\ row.pc = "again"
        BY <1>2 DEF CreationRows
      <4>2. creation' = [creation EXCEPT ![c] = row] \/ creation' = [creation EXCEPT ![c] = IdleCreation]
        BY <3>3 DEF ReturnExisting
      <4>3. IdleCreation.pc = "idle"
        BY DEF IdleCreation
      <4> QED
        BY <4>1, <4>2, <4>3, <1>1
    <3> QED
      BY <1>6, <3>1, <3>2, <3>3
  <2> QED
    BY <1>4, <1>5, <1>6, <2>1, <2>2, <2>3
<1>7. CASE ~(UNCHANGED rows) /\ InsertBot(c)
  <2>1. PICK at \in IF creation[c].pc = "again" THEN {creation[c].at} ELSE Times \cup {AtOnce} :
           /\ InsertRow(at, 0)
           /\ creation' = [creation EXCEPT ![c] =
                  IF at = AtOnce THEN [IdleCreation EXCEPT !.pc = "launching", !.bot = Len(rows')]
                                 ELSE IdleCreation]
    BY <1>7 DEF InsertBot
  <2>2. at \in Times \cup {AtOnce} /\ 0 \in 0 .. MaxBots
    BY <2>1, <1>2, AdmissionAssumption DEF CreationRows
  <2>3. /\ rows' \in Seq(Rows) /\ Len(rows') <= MaxBots
        /\ Ids' = Ids \cup {Len(rows')} /\ Len(rows') \in BotIds /\ rows'[Len(rows')] = NewRow(at, 0)
        /\ \A j \in Ids : rows'[j] = rows[j]
        /\ NewRow(at, 0).state = "SCHEDULED" => at \in Times
    BY <2>1, <2>2, RowInserted DEF AdmissionOK
  <2>4. NewRow(at, 0).at = at
    BY DEF NewRow
  <2>5. \A b \in Ids' : rows'[b].state = "SCHEDULED" => rows'[b].at \in Times
    BY <1>5, <2>3, <2>4
  <2>6. PICK row \in CreationRows : row = [IdleCreation EXCEPT !.pc = "launching", !.bot = Len(rows')]
    <3>1. Len(rows') \in 0 .. MaxBots
      BY <2>3, AdmissionAssumption DEF BotIds
    <3> QED
      BY <1>1, <3>1 DEF CreationRows
  <2>7. row.bot \in Ids' /\ IdleCreation.pc = "idle"
    BY <2>3, <2>6 DEF IdleCreation
  <2>8. AdmissionOK'
    <3>1. CASE at = AtOnce
      <4>1. creation' = [creation EXCEPT ![c] = row]
        BY <3>1, <2>1, <2>6
      <4> QED
        BY <4>1, <1>4, <2>3, <2>5, <2>7
    <3>2. CASE at # AtOnce
      BY <3>2, <1>1, <1>4, <2>1, <2>3, <2>5, <2>7
    <3> QED
      BY <3>1, <3>2
  <2> QED
    BY <1>3, <2>1, <2>2, <2>8 DEF AdmissionStep
<1>8. CASE LaunchCreated(c)
  <2>1. creation[c].bot \in Ids
    BY <1>8 DEF LaunchCreated, AdmissionOK, AdmissionRefs
  <2>2. UNCHANGED rows \/ RowGoesOn
    BY <1>8, <2>1, LaunchedRows DEF LaunchCreated, LaunchOrCrash, AdmissionOK
  <2>3. /\ rows' \in Seq(Rows) /\ Len(rows') <= MaxBots /\ Ids' = Ids
        /\ \A b \in Ids' : rows'[b].state = "SCHEDULED" => rows'[b].at \in Times
    <3>1. CASE UNCHANGED rows
      BY <3>1, <1>5 DEF Ids
    <3>2. CASE RowGoesOn
      BY <3>2, RowsGoOnTyped DEF AdmissionOK
    <3> QED
      BY <2>2, <3>1, <3>2
  <2>4. creation' = [creation EXCEPT ![c] = IdleCreation] /\ IdleCreation.pc = "idle"
    BY <1>8 DEF LaunchCreated, IdleCreation
  <2> QED
    BY <1>1, <1>3, <1>4, <2>2, <2>3, <2>4 DEF AdmissionStep
<1> QED
  BY <1>6, <1>7, <1>8 DEF RefuseCreation, ReturnExisting

LEMMA LauncherStep ==
    ASSUME AdmissionOK, NEW l \in Launchers,
           LoadForLaunch(l) \/ Stage(l) \/ LaunchStaged(l) \/ CrashLauncher(l)
    PROVE  AdmissionOK' /\ AdmissionStep
<1> DEFINE LauncherRows == [pc : {"idle", "loaded", "staged"}, bot : 0 .. MaxBots, at : Times]
           Messages == [bot : BotIds, at : Times]
<1>1. IdleLauncher \in LauncherRows /\ IdleLauncher.pc = "idle"
  BY AdmissionAssumption DEF IdleLauncher, Times
<1>2. launcher \in [Launchers -> LauncherRows] /\ launchQueue \subseteq Messages
  BY DEF AdmissionOK, AdmissionTypeOK
<1>3. recovery' = recovery /\ hour' = hour /\ creation' = creation /\ RecoveryCalms
  BY DEF LoadForLaunch, Stage, LaunchStaged, CrashLauncher, RecoveryCalms
<1>4. Ids \subseteq BotIds
  BY BotIdsAreIds DEF AdmissionOK
<1>5. \A m \in launchQueue : m.bot \in Ids /\ m.at <= hour
  BY DEF AdmissionOK, AdmissionRefs
<1>6. launcher[l].pc # "idle" => launcher[l].bot \in Ids /\ launcher[l].at <= hour
  BY DEF AdmissionOK, AdmissionRefs
<1>7. \A m \in launchQueue : m.bot \in Ids /\ m.at \in Times
  BY <1>2, <1>5
<1> HIDE DEF LauncherRows, Messages
\* What is left of a step when its rows go on and its worker is as it should be.
<1>8. ASSUME UNCHANGED rows \/ RowGoesOn, NEW row \in LauncherRows,
             launcher' = [launcher EXCEPT ![l] = row],
             row.pc # "idle" => row.bot \in Ids /\ row.at <= hour,
             launchQueue' \subseteq Messages, \A m \in launchQueue' : m.bot \in Ids /\ m.at <= hour
      PROVE  AdmissionOK' /\ AdmissionStep
  <2>1. /\ rows' \in Seq(Rows) /\ Len(rows') <= MaxBots /\ Ids' = Ids
        /\ \A b \in Ids' : rows'[b].state = "SCHEDULED" => rows'[b].at \in Times
    <3>1. CASE UNCHANGED rows
      BY <3>1 DEF AdmissionOK, AdmissionTypeOK, AdmissionRefs, Ids
    <3>2. CASE RowGoesOn
      BY <3>2, RowsGoOnTyped DEF AdmissionOK
    <3> QED
      BY <1>8, <3>1, <3>2
  <2>2. launcher' \in [Launchers -> LauncherRows]
    BY <1>2, <1>8
  <2>3. AdmissionTypeOK'
    BY <1>3, <1>8, <2>1, <2>2 DEF AdmissionOK, AdmissionTypeOK, LauncherRows, Messages
  <2>4. \A k \in Launchers : launcher'[k].pc # "idle" => launcher'[k].bot \in Ids' /\ launcher'[k].at <= hour'
    BY <1>2, <1>3, <1>8, <2>1 DEF AdmissionOK, AdmissionRefs
  <2>5. AdmissionRefs'
    BY <1>3, <1>8, <2>1, <2>4 DEF AdmissionOK, AdmissionRefs
  <2> QED
    BY <1>3, <1>8, <2>3, <2>5 DEF AdmissionOK, AdmissionStep
<1>9. launcher' = launcher => launcher' = [launcher EXCEPT ![l] = launcher[l]] /\ launcher[l] \in LauncherRows
  BY <1>2
<1>10. CASE LoadForLaunch(l)
  <2>1. PICK m \in launchQueue :
           /\ launchQueue' = launchQueue \ {m}
           /\ IF rows[m.bot].state # "SCHEDULED" THEN UNCHANGED <<rows, launcher>>
              ELSE \/ /\ launcher' = [launcher EXCEPT ![l] = [pc |-> "loaded", bot |-> m.bot, at |-> m.at]]
                      /\ UNCHANGED rows
                   \/ PutRow(m.bot, Failed(m.bot)) /\ UNCHANGED launcher
    BY <1>10 DEF LoadForLaunch
  <2>2. launchQueue' \subseteq Messages /\ \A n \in launchQueue' : n.bot \in Ids /\ n.at <= hour
    BY <1>2, <1>5, <2>1
  <2>3. CASE UNCHANGED <<rows, launcher>>
    BY <2>2, <2>3, <1>6, <1>8, <1>9
  <2>4. CASE launcher' = [launcher EXCEPT ![l] = [pc |-> "loaded", bot |-> m.bot, at |-> m.at]] /\ UNCHANGED rows
    <3>1. [pc |-> "loaded", bot |-> m.bot, at |-> m.at] \in LauncherRows
      BY <1>4, <1>7, <2>1, AdmissionAssumption DEF LauncherRows, BotIds
    <3> QED
      BY <1>5, <1>8, <2>1, <2>2, <2>4, <3>1
  <2>5. CASE rows[m.bot].state = "SCHEDULED" /\ PutRow(m.bot, Failed(m.bot)) /\ UNCHANGED launcher
    <3>1. "SCHEDULED" \in From("FATAL_ERROR")
      <4>1. From("FATAL_ERROR") = States \ (PostMeetingStates \cup {"READY"})
        BY DEF From, BreakoutDepartures
      <4> QED
        BY <4>1 DEF States, PostMeetingStates
    <3>2. m.bot \in Ids /\ MayFail(m.bot)
      BY <1>5, <2>1, <2>5, <3>1 DEF MayFail
    <3>3. RowGoesOn
      BY <2>5, <3>2, FailedRows DEF RowGoesOn, AdmissionOK
    <3> QED
      BY <2>2, <2>5, <3>3, <1>6, <1>8, <1>9
  <2> QED
    BY <2>1, <2>3, <2>4, <2>5
<1>11. CASE Stage(l)
  <2> DEFINE m == launcher[l]
  <2>1. m.pc = "loaded" /\ m \in LauncherRows /\ launchQueue' = launchQueue
    BY <1>2, <1>11 DEF Stage
  <2>2. m.bot \in Ids /\ m.at <= hour
    BY <1>6, <2>1
  <2>3. CASE MayStage(m.bot, m.at) /\ PutRow(m.bot, Happened(m.bot, "STAGED")) /\ launcher' = [launcher EXCEPT ![l].pc = "staged"]
    <3>1. rows[m.bot].state \in From("STAGED") /\ rows[m.bot].at <= hour
      BY <2>2, <2>3 DEF MayStage
    <3>2. Happened(m.bot, "STAGED") \in Rows /\ GoesOn(rows[m.bot], Happened(m.bot, "STAGED"))
      BY <2>2, <3>1, EventRows DEF AdmissionOK
    <3>3. RowGoesOn
      BY <2>2, <2>3, <3>2 DEF RowGoesOn
    <3>4. PICK row \in LauncherRows : row = [m EXCEPT !.pc = "staged"]
      BY <2>1 DEF LauncherRows
    <3>5. row.bot = m.bot /\ row.at = m.at /\ launcher' = [launcher EXCEPT ![l] = row]
      BY <1>2, <2>1, <2>3, <3>4 DEF LauncherRows
    <3> QED
      BY <1>2, <1>5, <1>8, <2>1, <2>2, <3>3, <3>5
  <2>4. CASE launcher' = [launcher EXCEPT ![l] = IdleLauncher] /\ UNCHANGED rows
    BY <1>1, <1>2, <1>5, <1>8, <2>1, <2>4
  <2> QED
    BY <1>11, <2>3, <2>4 DEF Stage
<1>12. CASE LaunchStaged(l)
  <2>1. launcher[l].bot \in Ids /\ launchQueue' = launchQueue
    BY <1>6, <1>12 DEF LaunchStaged
  <2>2. RowGoesOn
    BY <1>12, <2>1, LaunchedRows DEF LaunchStaged, AdmissionOK
  <2>3. launcher' = [launcher EXCEPT ![l] = IdleLauncher]
    BY <1>12 DEF LaunchStaged
  <2> QED
    BY <1>1, <1>2, <1>5, <1>8, <2>1, <2>2, <2>3
<1>13. CASE CrashLauncher(l)
  <2> DEFINE m == [bot |-> launcher[l].bot, at |-> launcher[l].at]
  <2>1. launcher[l].bot \in Ids /\ launcher[l].at <= hour /\ launcher[l].at \in Times
    BY <1>2, <1>6, <1>13 DEF CrashLauncher, LauncherRows
  <2>2. m \in Messages
    BY <2>1, <1>4 DEF Messages
  <2>3. launchQueue' = launchQueue \cup {m} /\ UNCHANGED rows /\ launcher' = [launcher EXCEPT ![l] = IdleLauncher]
    BY <1>13 DEF CrashLauncher
  <2>4. launchQueue' \subseteq Messages /\ \A n \in launchQueue' : n.bot \in Ids /\ n.at <= hour
    BY <1>2, <1>5, <2>1, <2>2, <2>3
  <2> QED
    BY <1>1, <1>8, <2>3, <2>4
<1> QED
  BY <1>10, <1>11, <1>12, <1>13

LEMMA BotStep ==
    ASSUME AdmissionOK, NEW b \in Ids,
           \/ PatchJoinAt(b) \/ PatchMetadata(b) \/ Delete(b) \/ Relaunch(b) \/ StartPod(b)
           \/ TerminateUnlaunched(b) \/ \E e \in InMeetingEvents : MeetingEvent(b, e)
    PROVE  AdmissionOK' /\ AdmissionStep
<1>1. rows[b] \in Rows /\ (rows[b].state = "SCHEDULED" => rows[b].at \in Times) /\ 0 \in 0 .. MaxBots
  BY BotIdsAreIds, AdmissionAssumption DEF AdmissionOK, AdmissionRefs
<1>2. SUFFICES RowGoesOn /\ UNCHANGED <<hour, creation, launchQueue, launcher, recovery>>
  <2>1. recovery \in [BotIds -> [pc : {"none", "due", "counted", "launching"}, bot : 0 .. MaxBots]]
    BY DEF AdmissionOK, AdmissionTypeOK
  <2> QED
    BY <1>2, <2>1, OnlyRows DEF AdmissionStep, RecoveryCalms
<1>3. CASE PatchJoinAt(b)
  <2>1. PICK at \in Times : PutRow(b, [rows[b] EXCEPT !.at = at])
    BY <1>3 DEF PatchJoinAt
  <2>2. [rows[b] EXCEPT !.at = at] \in Rows
    BY <1>1 DEF Rows
  <2>3. GoesOn(rows[b], [rows[b] EXCEPT !.at = at])
    BY <1>1, <1>3 DEF Rows, GoesOn, Over, PatchJoinAt
  <2> QED
    BY <1>3, <2>1, <2>2, <2>3 DEF RowGoesOn, PatchJoinAt
<1>4. CASE PatchMetadata(b)
  <2>1. [rows[b] EXCEPT !.replaces = 0] \in Rows
    BY <1>1 DEF Rows
  <2>2. GoesOn(rows[b], [rows[b] EXCEPT !.replaces = 0])
    BY <1>1 DEF Rows, GoesOn, Over
  <2> QED
    BY <1>4, <2>1, <2>2 DEF RowGoesOn, PatchMetadata
<1>5. CASE Delete(b)
  BY <1>1, <1>5, EndedRows DEF RowGoesOn, Delete
<1>6. CASE Relaunch(b)
  BY <1>6, LaunchedRows DEF Relaunch, AdmissionOK
<1>7. CASE StartPod(b)
  <2>1. [rows[b] EXCEPT !.seen = "alive"] \in Rows
    BY <1>1 DEF Rows
  <2>2. GoesOn(rows[b], [rows[b] EXCEPT !.seen = "alive"])
    BY <1>1 DEF Rows, GoesOn, Over
  <2> QED
    BY <1>7, <2>1, <2>2 DEF RowGoesOn, StartPod
<1>8. CASE TerminateUnlaunched(b)
  BY <1>8, FailedRows DEF RowGoesOn, TerminateUnlaunched, AdmissionOK
<1>9. CASE \E e \in InMeetingEvents : MeetingEvent(b, e)
  <2>1. PICK e \in InMeetingEvents : MeetingEvent(b, e)
    BY <1>9
  <2>2. e # "STAGED"
    BY DEF InMeetingEvents
  <2> DEFINE s == IF e = "BOT_JOINED_MEETING" THEN "joined" ELSE Happened(b, e).seen
  <2>3. Happened(b, e) \in Rows /\ rows[b].state \in From(e)
    BY <2>1, <2>2, EventRows DEF MeetingEvent, AdmissionOK
  <2>4. s \in {"never", "alive", "joined"}
    BY <2>3 DEF Rows
  <2>5. PutRow(b, [Happened(b, e) EXCEPT !.seen = s])
    BY <2>1 DEF MeetingEvent
  <2> HIDE DEF s
  <2>6. [Happened(b, e) EXCEPT !.seen = s] \in Rows /\ GoesOn(rows[b], [Happened(b, e) EXCEPT !.seen = s])
    BY <2>2, <2>3, <2>4, EventRows DEF AdmissionOK
  <2> QED
    BY <2>1, <2>5, <2>6 DEF RowGoesOn, MeetingEvent
<1> QED
  BY <1>3, <1>4, <1>5, <1>6, <1>7, <1>8, <1>9

LEMMA QueueStep ==
    ASSUME AdmissionOK, NEW b \in Ids, QueueLaunch(b)
    PROVE  AdmissionOK' /\ AdmissionStep
<1>1. b \in BotIds /\ hour \in Times /\ hour <= hour
  BY BotIdsAreIds DEF AdmissionOK, AdmissionRefs, AdmissionTypeOK, QueueLaunch
<1>2. [bot |-> b, at |-> hour] \in [bot : BotIds, at : Times]
  BY <1>1
<1>3. UNCHANGED <<rows, hour, creation, launcher, recovery>> /\ launchQueue' = launchQueue \cup {[bot |-> b, at |-> hour]}
  BY DEF QueueLaunch
<1>4. AdmissionTypeOK'
  BY <1>2, <1>3 DEF AdmissionOK, AdmissionTypeOK
<1>5. Ids' = Ids
  BY <1>3 DEF Ids
<1>6. AdmissionRefs'
  BY <1>1, <1>3, <1>5 DEF AdmissionOK, AdmissionRefs
<1> QED
  BY <1>3, <1>4, <1>6 DEF AdmissionOK, AdmissionStep, RecoveryCalms

LEMMA RecoveryStep ==
    ASSUME AdmissionOK, NEW b \in Ids,
           Die(b) \/ CountReplacements(b) \/ StandDown(b) \/ CreateReplacement(b) \/ LaunchReplacement(b)
    PROVE  AdmissionOK' /\ AdmissionStep
<1> DEFINE Checks == [pc : {"none", "due", "counted", "launching"}, bot : 0 .. MaxBots]
<1>1. b \in BotIds /\ recovery \in [BotIds -> Checks] /\ [pc |-> "none", bot |-> 0] \in Checks
  BY BotIdsAreIds, AdmissionAssumption DEF AdmissionOK, AdmissionTypeOK
<1>2. \A pc \in {"none", "due", "counted"} : [recovery EXCEPT ![b].pc = pc] \in [BotIds -> Checks]
  BY <1>1
<1>3. \A pc \in {"none", "due", "counted"}, c \in BotIds :
         c # b => [recovery EXCEPT ![b].pc = pc][c] = recovery[c]
  BY <1>1
<1>4. \A pc \in {"none", "due", "counted"} : [recovery EXCEPT ![b].pc = pc][b].pc = pc
  BY <1>1
<1>5. CASE Die(b)
  <2>1. RowGoesOn
    BY <1>5, FailedRows DEF Die, RowGoesOn, AdmissionOK
  <2>2. recovery' = recovery \/ recovery' = [recovery EXCEPT ![b].pc = "due"]
    BY <1>5 DEF Die
  <2>3. recovery' \in [BotIds -> Checks] /\ \A c \in BotIds : recovery'[c].pc = "launching" => recovery'[c] = recovery[c]
    BY <1>1, <1>2, <1>3, <1>4, <2>2
  <2>4. AdmissionOK'
    BY <1>5, <2>1, <2>3, OnlyRows DEF Die
  <2> QED
    BY <1>5, <2>1, <2>4 DEF AdmissionStep
<1>6. CASE CountReplacements(b)
  <2>1. recovery' = [recovery EXCEPT ![b].pc = "counted"]
    BY <1>6 DEF CountReplacements
  <2>2. recovery' \in [BotIds -> Checks] /\ \A c \in BotIds : recovery'[c].pc = "launching" => recovery'[c] = recovery[c]
    BY <1>2, <1>3, <1>4, <2>1
  <2>3. AdmissionOK'
    BY <1>6, <2>2, OnlyRows DEF CountReplacements
  <2> QED
    BY <1>6, <2>3 DEF AdmissionStep
<1>7. CASE StandDown(b)
  <2>1. recovery' = [recovery EXCEPT ![b].pc = "none"]
    BY <1>7 DEF StandDown
  <2>2. recovery' \in [BotIds -> Checks] /\ \A c \in BotIds : recovery'[c].pc = "launching" => recovery'[c] = recovery[c]
    BY <1>2, <1>3, <1>4, <2>1
  <2>3. AdmissionOK'
    BY <1>7, <2>2, OnlyRows DEF StandDown
  <2>4. RecoveryCalms
    BY <1>3, <1>4, <2>1 DEF RecoveryCalms
  <2> QED
    BY <1>7, <2>3, <2>4 DEF AdmissionStep, StandDown
<1>8. CASE LaunchReplacement(b)
  <2>1. recovery[b].bot \in Ids
    BY <1>1, <1>8 DEF LaunchReplacement, AdmissionOK, AdmissionRefs
  <2>2. UNCHANGED rows \/ RowGoesOn
    BY <1>8, <2>1, LaunchedRows DEF LaunchReplacement, LaunchOrCrash, AdmissionOK
  <2>3. recovery' = [recovery EXCEPT ![b] = [pc |-> "none", bot |-> 0]]
    BY <1>8 DEF LaunchReplacement
  <2>4. recovery' \in [BotIds -> Checks] /\ \A c \in BotIds : recovery'[c].pc = "launching" => recovery'[c] = recovery[c]
    BY <1>1, <2>3
  <2>5. AdmissionOK'
    BY <1>8, <2>2, <2>4, OnlyRows DEF LaunchReplacement
  <2>6. RecoveryCalms
    BY <1>1, <2>3 DEF RecoveryCalms
  <2> QED
    BY <1>8, <2>2, <2>5, <2>6 DEF AdmissionStep, LaunchReplacement
<1>9. CASE CreateReplacement(b)
  <2>1. AtOnce \in Times \cup {AtOnce} /\ b \in 0 .. MaxBots /\ InsertRow(AtOnce, b)
    BY <1>1, <1>9, AdmissionAssumption DEF CreateReplacement, BotIds
  <2>2. /\ rows' \in Seq(Rows) /\ Len(rows') <= MaxBots
        /\ Ids' = Ids \cup {Len(rows')} /\ Len(rows') \in BotIds /\ rows'[Len(rows')] = NewRow(AtOnce, b)
        /\ \A j \in Ids : rows'[j] = rows[j]
        /\ NewRow(AtOnce, b).state = "SCHEDULED" => AtOnce \in Times
    BY <2>1, RowInserted DEF AdmissionOK
  <2>3. NewRow(AtOnce, b).at = AtOnce
    BY DEF NewRow
  <2>4. \A j \in Ids' : rows'[j].state = "SCHEDULED" => rows'[j].at \in Times
    BY <2>2, <2>3 DEF AdmissionOK, AdmissionRefs
  <2>5. PICK n \in 0 .. MaxBots : n = Len(rows')
    BY <2>2, AdmissionAssumption DEF BotIds
  <2>6. recovery' = [recovery EXCEPT ![b] = [pc |-> "launching", bot |-> n]]
    BY <1>9, <2>5 DEF CreateReplacement
  <2>7. recovery' \in [BotIds -> Checks] /\ recovery'[b].bot = n /\ \A c \in BotIds : c # b => recovery'[c] = recovery[c]
    BY <1>1, <2>6
  <2>8. UNCHANGED <<hour, creation, launchQueue, launcher>>
    BY <1>9 DEF CreateReplacement
  <2>9. AdmissionTypeOK'
    BY <2>2, <2>7, <2>8 DEF AdmissionOK, AdmissionTypeOK
  <2>10. \A c \in BotIds : recovery'[c].pc = "launching" => recovery'[c].bot \in Ids'
    BY <2>2, <2>5, <2>7 DEF AdmissionOK, AdmissionRefs
  <2>11. AdmissionRefs'
    BY <2>2, <2>4, <2>8, <2>10 DEF AdmissionOK, AdmissionRefs
  <2> QED
    BY <1>9, <2>9, <2>11 DEF AdmissionOK, AdmissionStep
<1> QED
  BY <1>5, <1>6, <1>7, <1>8, <1>9

LEMMA HourStep ==
    ASSUME AdmissionOK, HourPasses
    PROVE  AdmissionOK' /\ AdmissionStep
<1>1. UNCHANGED <<rows, creation, launchQueue, launcher, recovery>> /\ hour' = hour + 1 /\ hour < LastHour + 2
  BY DEF HourPasses
<1>2. hour \in 0 .. LastHour + 2 /\ hour' \in 0 .. LastHour + 2
  BY <1>1, AdmissionAssumption DEF AdmissionOK, AdmissionTypeOK
<1>3. AdmissionTypeOK'
  BY <1>1, <1>2 DEF AdmissionOK, AdmissionTypeOK
<1>4. \A m \in launchQueue : m.at \in Times
  BY DEF AdmissionOK, AdmissionTypeOK
<1>5. \A l \in Launchers : launcher[l].at \in Times
  BY DEF AdmissionOK, AdmissionTypeOK
<1>6. \A t \in Times : t <= hour => t <= hour'
  BY <1>1, <1>2, AdmissionAssumption DEF Times
<1>7. Ids' = Ids
  BY <1>1 DEF Ids
<1>8. AdmissionRefs'
  BY <1>1, <1>4, <1>5, <1>6, <1>7 DEF AdmissionOK, AdmissionRefs
<1> QED
  BY <1>3, <1>8 DEF AdmissionOK, AdmissionStep

LEMMA AdmissionNextStep ==
    ASSUME AdmissionOK, [AdmissionNext]_admissionVars
    PROVE  AdmissionOK' /\ AdmissionStep
<1>1. CASE UNCHANGED admissionVars
  <2>1. UNCHANGED <<rows, hour, creation, launchQueue, launcher, recovery>>
    BY <1>1 DEF admissionVars
  <2>2. Ids' = Ids
    BY <2>1 DEF Ids
  <2> QED
    BY <2>1, <2>2 DEF AdmissionOK, AdmissionTypeOK, AdmissionRefs, AdmissionStep, RecoveryCalms
<1>2. CASE AdmissionNext
  BY <1>2, CreationStep, LauncherStep, BotStep, QueueStep, RecoveryStep, HourStep
     DEF AdmissionNext, CleanUpUnlaunched
<1> QED
  BY <1>1, <1>2

-----------------------------------------------------------------------------
(* One bot in the meeting, and no bot before its time. *)

SlotOK == \A i, j \in Ids : HoldsSlot(i) /\ HoldsSlot(j) => i = j

LEMMA SlotStep ==
    ASSUME AdmissionOK, SlotOK, AdmissionStep
    PROVE  SlotOK'
<1>1. CASE UNCHANGED rows
  BY <1>1 DEF SlotOK, HoldsSlot, Ids
<1>2. CASE RowGoesOn
  <2>1. PICK b \in Ids, row \in Rows : PutRow(b, row) /\ GoesOn(rows[b], row)
    BY <1>2 DEF RowGoesOn
  <2>2. /\ Ids' = Ids /\ rows'[b] = row
        /\ \A j \in Ids : j # b => rows'[j] = rows[j]
    BY <2>1, RowPut DEF AdmissionOK
  <2>3. \A j \in Ids : HoldsSlot(j)' => HoldsSlot(j)
    BY <2>1, <2>2 DEF GoesOn, HoldsSlot
  <2> QED
    BY <2>2, <2>3 DEF SlotOK
<1>3. ASSUME NEW at \in Times \cup {AtOnce}, NEW dead \in 0 .. MaxBots, InsertRow(at, dead)
      PROVE  SlotOK'
  <2>1. Ids' = Ids \cup {Len(rows')} /\ \A j \in Ids : rows'[j] = rows[j]
    BY <1>3, RowInserted DEF AdmissionOK
  <2>2. \A j \in Ids : ~HoldsSlot(j)'
    BY <1>3, <2>1 DEF InsertRow, SlotIsFree, HoldsSlot
  <2> QED
    BY <2>1, <2>2 DEF SlotOK
<1>4. ASSUME NEW b \in Ids, CreateReplacement(b) PROVE SlotOK'
  <2>1. b \in 0 .. MaxBots /\ AtOnce \in Times \cup {AtOnce}
    BY BotIdsAreIds, AdmissionAssumption DEF AdmissionOK, BotIds
  <2> QED
    BY <1>3, <1>4, <2>1 DEF CreateReplacement
<1>5. 0 \in 0 .. MaxBots
  BY AdmissionAssumption
<1> QED
  BY <1>1, <1>2, <1>3, <1>4, <1>5 DEF AdmissionStep, CountReplacements, HourPasses

LEMMA SlotIsOne == SlotOK => OneBotInMeeting
  BY DEF SlotOK, OneBotInMeeting, HoldsSlot, HoldsSlotStates, VisibleStates, PostMeetingStates,
         JoinedStates, BreakoutStates, AppSessionStates, States

\* What is staged was due.
LEMMA StagedStep ==
    ASSUME AdmissionOK, AdmissionStep, NEW b \in Ids, rows[b].state = "SCHEDULED", rows'[b].state = "STAGED"
    PROVE  rows[b].at <= hour
<1>1. CASE UNCHANGED rows
  BY <1>1
<1>2. CASE RowGoesOn
  <2>1. PICK c \in Ids, row \in Rows : PutRow(c, row) /\ GoesOn(rows[c], row)
    BY <1>2 DEF RowGoesOn
  <2>2. rows'[c] = row /\ \A j \in Ids : j # c => rows'[j] = rows[j]
    BY <2>1, RowPut DEF AdmissionOK
  <2> QED
    BY <2>1, <2>2 DEF GoesOn
<1>3. ASSUME NEW at \in Times \cup {AtOnce}, NEW dead \in 0 .. MaxBots, InsertRow(at, dead)
      PROVE  FALSE
  BY <1>3, RowInserted DEF AdmissionOK
<1>4. ASSUME NEW c \in Ids, CreateReplacement(c) PROVE FALSE
  <2>1. c \in 0 .. MaxBots /\ AtOnce \in Times \cup {AtOnce}
    BY BotIdsAreIds, AdmissionAssumption DEF AdmissionOK, BotIds
  <2> QED
    BY <1>3, <1>4, <2>1 DEF CreateReplacement
<1>5. 0 \in 0 .. MaxBots
  BY AdmissionAssumption
<1> QED
  BY <1>1, <1>2, <1>3, <1>4, <1>5 DEF AdmissionStep, CountReplacements, HourPasses

-----------------------------------------------------------------------------
(* What was replaced. *)

LinksOK ==
    /\ \A j \in Ids : rows[j].replaces < j /\ rows[j].created <= hour
    /\ \A i, j \in Ids : rows[i].replaces = rows[j].replaces /\ rows[i].replaces # 0 => i = j
    /\ \A j \in Ids : rows[j].replaces # 0 => Over(rows[rows[j].replaces])
    /\ \A b \in BotIds : recovery[b].pc \in {"due", "counted"} =>
          /\ b \in Ids /\ Over(rows[b])
          /\ \A j \in Ids : rows[j].replaces # b

CapOK ==
    /\ ReplacementsAreCapped
    /\ \A b \in BotIds : recovery[b].pc = "counted" =>
          Cardinality(RecentReplacements(Lineage(b))) < MaxReplacements

LEMMA LinksAreChains ==
    (AdmissionOK /\ LinksOK) =>
        /\ Replaced \in Chains /\ LeadsTo(Replaced, RootOf)
        /\ \A i, j \in BotIds : Replaced[i] = Replaced[j] /\ Replaced[i] # 0 => i = j
<1> SUFFICES ASSUME AdmissionOK, LinksOK
             PROVE  /\ Replaced \in Chains /\ LeadsTo(Replaced, RootOf)
                    /\ \A i, j \in BotIds : Replaced[i] = Replaced[j] /\ Replaced[i] # 0 => i = j
  OBVIOUS
<1>1. \A j \in Ids : rows[j].replaces \in Nat
  BY BotIdsAreIds, AdmissionAssumption DEF AdmissionOK, Rows
<1>2. \A b \in BotIds : b \in Nat /\ 0 < b
  BY AdmissionAssumption DEF BotIds
<1>3. Replaced \in Chains
  BY <1>1, <1>2 DEF LinksOK, Replaced, Chains
<1>4. \A i, j \in BotIds : Replaced[i] = Replaced[j] /\ Replaced[i] # 0 => i = j
  BY DEF LinksOK, Replaced
<1> QED
  BY <1>3, <1>4, RootIsRoot

LEMMA LinksAreChainsNext ==
    (AdmissionOK' /\ LinksOK') => Replaced' \in Chains /\ LeadsTo(Replaced', RootOf')
<1>1. ((AdmissionOK /\ LinksOK) => Replaced \in Chains /\ LeadsTo(Replaced, RootOf))'
  <2>1. (AdmissionOK /\ LinksOK) => Replaced \in Chains /\ LeadsTo(Replaced, RootOf)
    BY LinksAreChains
  <2> QED
    BY <2>1, PTL
<1> QED
  BY <1>1

LEMMA LinksStep ==
    ASSUME AdmissionOK, LinksOK, AdmissionOK', AdmissionStep
    PROVE  LinksOK'
<1>1. Ids \subseteq BotIds /\ Ids = 1 .. Len(rows) /\ Len(rows) \in Nat /\ \A j \in Ids : rows[j] \in Rows
  BY BotIdsAreIds DEF AdmissionOK
<1>2. hour \in Nat /\ \A j \in Ids : rows[j].created \in Nat /\ rows[j].replaces \in Nat
  BY <1>1, AdmissionAssumption DEF AdmissionOK, AdmissionTypeOK, Rows, Hours
\* A step that only goes on with the rows. Those that are replaced stay over.
<1>3. ASSUME UNCHANGED rows \/ RowGoesOn, hour' \in Nat, hour <= hour'
      PROVE  /\ Ids' = Ids
             /\ \A j \in Ids : rows'[j].replaces < j /\ rows'[j].created <= hour'
             /\ \A i, j \in Ids : rows'[i].replaces = rows'[j].replaces /\ rows'[i].replaces # 0 => i = j
             /\ \A j \in Ids : rows'[j].replaces # 0 => Over(rows'[rows'[j].replaces])
             /\ \A j \in Ids : Over(rows[j]) => Over(rows'[j])
             /\ \A j \in Ids : rows'[j].replaces \in {rows[j].replaces, 0}
  <2>1. /\ Ids' = Ids
        /\ \A j \in Ids : /\ Over(rows[j]) => Over(rows'[j])
                          /\ rows'[j].replaces \in {rows[j].replaces, 0}
                          /\ rows'[j].created = rows[j].created
    <3>1. CASE UNCHANGED rows
      BY <3>1 DEF Ids
    <3>2. CASE RowGoesOn
      <4>1. PICK b \in Ids, row \in Rows : PutRow(b, row) /\ GoesOn(rows[b], row)
        BY <3>2 DEF RowGoesOn
      <4>2. /\ Ids' = Ids /\ rows'[b] = row
            /\ \A j \in Ids : j # b => rows'[j] = rows[j]
        BY <4>1, RowPut DEF AdmissionOK
      <4> QED
        BY <4>1, <4>2 DEF GoesOn
    <3> QED
      BY <1>3, <3>1, <3>2
  <2>2. \A j \in Ids : rows'[j].replaces < j /\ rows'[j].created <= hour'
    BY <1>1, <1>2, <1>3, <2>1 DEF LinksOK
  <2>3. \A i, j \in Ids : rows'[i].replaces = rows'[j].replaces /\ rows'[i].replaces # 0 => i = j
    BY <2>1 DEF LinksOK
  <2>4. \A j \in Ids : rows'[j].replaces # 0 => Over(rows'[rows'[j].replaces])
    <3> SUFFICES ASSUME NEW j \in Ids, rows'[j].replaces # 0 PROVE Over(rows'[rows'[j].replaces])
      OBVIOUS
    <3>1. rows'[j].replaces = rows[j].replaces /\ rows[j].replaces # 0
      BY <2>1
    <3>2. rows[j].replaces \in Ids
      BY <1>1, <1>2, <3>1 DEF LinksOK
    <3> QED
      BY <2>1, <3>1, <3>2 DEF LinksOK
  <2> QED
    BY <2>1, <2>2, <2>3, <2>4
<1>4. CASE (UNCHANGED rows \/ RowGoesOn) /\ RecoveryCalms /\ hour' = hour
  <2>1. \A b \in BotIds : recovery'[b].pc \in {"due", "counted"} => recovery[b].pc \in {"due", "counted"}
    BY <1>4 DEF RecoveryCalms
  <2> QED
    BY <1>2, <1>3, <1>4, <2>1 DEF LinksOK
<1>5. CASE HourPasses
  <2>1. UNCHANGED rows /\ recovery' = recovery /\ hour' = hour + 1
    BY <1>5 DEF HourPasses
  <2> QED
    BY <1>2, <1>3, <2>1 DEF LinksOK
<1>6. ASSUME NEW b \in Ids, CountReplacements(b) PROVE LinksOK'
  <2>1. UNCHANGED rows /\ hour' = hour /\ recovery[b].pc = "due" /\ recovery' = [recovery EXCEPT ![b].pc = "counted"]
    BY <1>6 DEF CountReplacements
  <2>2. \A c \in BotIds : recovery'[c].pc \in {"due", "counted"} => recovery[c].pc \in {"due", "counted"}
    BY <2>1 DEF AdmissionOK, AdmissionTypeOK
  <2> QED
    BY <1>2, <1>3, <2>1, <2>2 DEF LinksOK
<1>7. ASSUME NEW b \in Ids, Die(b), RowGoesOn PROVE LinksOK'
  <2>1. PutRow(b, Failed(b)) /\ MayFail(b) /\ hour' = hour
    BY <1>7 DEF Die
  <2>2. Failed(b) \in Rows /\ Over(Failed(b)) /\ ~Over(rows[b])
    BY <2>1, FailedRows DEF AdmissionOK
  <2>3. rows'[b] = Failed(b)
    BY <2>1, <2>2, RowPut DEF AdmissionOK
  <2>4. \A c \in BotIds : c # b => recovery'[c] = recovery[c]
    BY <1>7 DEF Die, AdmissionOK, AdmissionTypeOK
  <2>5. \A j \in Ids : rows[j].replaces # b
    BY <1>1, <2>2, AdmissionAssumption DEF LinksOK, BotIds
  <2>6. b \in BotIds /\ b # 0
    BY <1>1
  <2>7. /\ Ids' = Ids
        /\ \A j \in Ids : rows'[j].replaces < j /\ rows'[j].created <= hour'
        /\ \A i, j \in Ids : rows'[i].replaces = rows'[j].replaces /\ rows'[i].replaces # 0 => i = j
        /\ \A j \in Ids : rows'[j].replaces # 0 => Over(rows'[rows'[j].replaces])
        /\ \A j \in Ids : Over(rows[j]) => Over(rows'[j])
        /\ \A j \in Ids : rows'[j].replaces \in {rows[j].replaces, 0}
    BY <1>2, <1>3, <1>7, <2>1
  <2>8. ASSUME NEW c \in BotIds, recovery'[c].pc \in {"due", "counted"}
        PROVE  c \in Ids /\ Over(rows'[c]) /\ \A j \in Ids : rows'[j].replaces # c
    <3>1. CASE c = b
      BY <3>1, <2>2, <2>3, <2>5, <2>6, <2>7
    <3>2. CASE c # b
      <4>1. /\ c \in Ids /\ Over(rows[c]) /\ \A j \in Ids : rows[j].replaces # c /\ c # 0
        BY <1>1, <2>4, <2>8, <3>2 DEF LinksOK
      <4> QED
        BY <4>1, <2>7
    <3> QED
      BY <3>1, <3>2
  <2> QED
    BY <2>7, <2>8 DEF LinksOK
\* A new row is the only one to replace what it replaces.
<1>8. ASSUME NEW at \in Times \cup {AtOnce}, NEW dead \in 0 .. MaxBots, InsertRow(at, dead), hour' = hour,
             dead # 0 => dead \in Ids /\ Over(rows[dead]) /\ \A j \in Ids : rows[j].replaces # dead,
             \A b \in BotIds : recovery'[b].pc \in {"due", "counted"} =>
                recovery[b].pc \in {"due", "counted"} /\ b # dead
      PROVE  LinksOK'
  <2> DEFINE n == Len(rows')
  <2>1. /\ n = Len(rows) + 1 /\ Ids' = Ids \cup {n} /\ n \notin Ids /\ rows'[n] = NewRow(at, dead)
        /\ \A j \in Ids : rows'[j] = rows[j]
    BY <1>8, RowInserted DEF AdmissionOK
  <2>2. NewRow(at, dead).replaces = dead /\ NewRow(at, dead).created = hour
    BY DEF NewRow
  <2> HIDE DEF n
  <2>3. dead < n /\ dead \in Nat
    BY <1>1, <1>8, <2>1, AdmissionAssumption
  <2>4. \A j \in Ids' : rows'[j].replaces < j /\ rows'[j].created <= hour'
    BY <1>1, <1>2, <1>8, <2>1, <2>2, <2>3 DEF LinksOK
  <2>5. \A i, j \in Ids' : rows'[i].replaces = rows'[j].replaces /\ rows'[i].replaces # 0 => i = j
    BY <1>8, <2>1, <2>2 DEF LinksOK
  <2>6. \A j \in Ids : rows[j].replaces # 0 => rows[j].replaces \in Ids
    BY <1>1, <1>2 DEF LinksOK
  <2>7. \A j \in Ids' : rows'[j].replaces # 0 => Over(rows'[rows'[j].replaces])
    BY <1>8, <2>1, <2>2, <2>6 DEF LinksOK
  <2>8. \A b \in BotIds : recovery'[b].pc \in {"due", "counted"} =>
          /\ b \in Ids' /\ Over(rows'[b])
          /\ \A j \in Ids' : rows'[j].replaces # b
    BY <1>8, <2>1, <2>2 DEF LinksOK
  <2> QED
    BY <2>4, <2>5, <2>7, <2>8 DEF LinksOK
<1>9. ASSUME NEW at \in Times \cup {AtOnce}, InsertRow(at, 0), RecoveryCalms, hour' = hour PROVE LinksOK'
  <2>1. 0 \in 0 .. MaxBots
    BY AdmissionAssumption
  <2>2. \A b \in BotIds : recovery'[b].pc \in {"due", "counted"} => recovery[b].pc \in {"due", "counted"} /\ b # 0
    BY <1>9, AdmissionAssumption DEF RecoveryCalms, BotIds
  <2> QED
    BY <1>8, <1>9, <2>1, <2>2
<1>10. ASSUME NEW b \in Ids, CreateReplacement(b) PROVE LinksOK'
  <2>1. /\ AtOnce \in Times \cup {AtOnce} /\ b \in 0 .. MaxBots /\ InsertRow(AtOnce, b) /\ hour' = hour
        /\ recovery[b].pc = "counted" /\ recovery' = [recovery EXCEPT ![b] = [pc |-> "launching", bot |-> Len(rows')]]
    BY <1>1, <1>10, AdmissionAssumption DEF CreateReplacement, BotIds
  <2>2. \A c \in BotIds : recovery'[c].pc \in {"due", "counted"} => recovery[c].pc \in {"due", "counted"} /\ c # b
    <3>1. recovery'[b].pc = "launching" /\ \A c \in BotIds : c # b => recovery'[c] = recovery[c]
      BY <1>1, <2>1 DEF AdmissionOK, AdmissionTypeOK
    <3> QED
      BY <3>1
  <2>3. b \in Ids /\ Over(rows[b]) /\ \A j \in Ids : rows[j].replaces # b
    BY <1>1, <2>1 DEF LinksOK
  <2> QED
    BY <1>8, <2>1, <2>2, <2>3
<1> QED
  BY <1>4, <1>5, <1>6, <1>7, <1>9, <1>10 DEF AdmissionStep

-----------------------------------------------------------------------------
(* How often it was replaced. *)

\* The replacements of this hour in the lineage of b.
Recent(b) == RecentReplacements(Lineage(b))

LEMMA RecentIs ==
    ASSUME AdmissionOK, NEW b
    PROVE  /\ Recent(b) = {j \in Ids : /\ RootOf[j] = RootOf[b] /\ rows[j].replaces # 0
                                       /\ rows[j].created = hour}
           /\ IsFiniteSet(Recent(b)) /\ Cardinality(Recent(b)) \in Nat
<1>1. Ids = 1 .. Len(rows) /\ Len(rows) \in Nat
  BY BotIdsAreIds DEF AdmissionOK
<1>2. IsFiniteSet(Ids)
  BY <1>1, FS_Interval
<1>3. Recent(b) = {j \in Ids : RootOf[j] = RootOf[b] /\ rows[j].replaces # 0 /\ rows[j].created = hour}
  BY DEF Recent, RecentReplacements, Lineage
<1>4. IsFiniteSet(Recent(b))
  BY <1>2, <1>3, FS_Subset
<1> QED
  BY <1>3, <1>4, FS_CardinalityType

\* A bot that is replaced, or waits to be, is the last one of its chain, and so
\* no two of one chain are.
LEMMA OneEndOfAChain ==
    ASSUME AdmissionOK, LinksOK, NEW b \in BotIds, NEW c \in BotIds, RootOf[b] = RootOf[c],
           recovery[b].pc \in {"due", "counted"}, recovery[c].pc \in {"due", "counted"}
    PROVE  b = c
<1>1. /\ Replaced \in Chains /\ LeadsTo(Replaced, RootOf)
      /\ \A i, j \in BotIds : Replaced[i] = Replaced[j] /\ Replaced[i] # 0 => i = j
  BY LinksAreChains
<1>2. b \in Nat /\ c \in Nat /\ b # 0 /\ c # 0
  BY AdmissionAssumption DEF BotIds
<1>3. \A s \in BotIds : Replaced[s] # b /\ Replaced[s] # c
  BY <1>2 DEF LinksOK, Replaced
<1>4. ~(b < c)
  BY <1>1, <1>3, ChainsAreLines
<1>5. ~(c < b)
  BY <1>1, <1>3, ChainsAreLines
<1> QED
  BY <1>2, <1>4, <1>5

\* A step that only goes on with the rows leaves no lineage with more of them.
LEMMA NoMoreRecent ==
    ASSUME AdmissionOK, LinksOK, AdmissionOK', LinksOK', UNCHANGED rows \/ RowGoesOn, hour' = hour,
           NEW b \in BotIds
    PROVE  Cardinality(Recent(b)') <= Cardinality(Recent(b))
<1>1. /\ Ids' = Ids
      /\ \A j \in Ids : /\ rows'[j].replaces \in {rows[j].replaces, 0}
                        /\ rows'[j].created = rows[j].created
  <2>1. CASE UNCHANGED rows
    BY <2>1 DEF Ids
  <2>2. CASE RowGoesOn
    <3>1. PICK c \in Ids, row \in Rows : PutRow(c, row) /\ GoesOn(rows[c], row)
      BY <2>2 DEF RowGoesOn
    <3>2. /\ Ids' = Ids /\ rows'[c] = row
          /\ \A j \in Ids : j # c => rows'[j] = rows[j]
      BY <3>1, RowPut DEF AdmissionOK
    <3> QED
      BY <3>1, <3>2 DEF GoesOn
  <2> QED
    BY <2>1, <2>2
<1>2. Replaced \in Chains /\ LeadsTo(Replaced, RootOf) /\ Replaced' \in Chains /\ LeadsTo(Replaced', RootOf')
  BY LinksAreChains, LinksAreChainsNext
<1>3. \A c \in BotIds : Replaced'[c] \in {Replaced[c], 0}
  BY <1>1 DEF Replaced
<1>4. \A i, j \in BotIds : RootOf'[i] = RootOf'[j] => RootOf[i] = RootOf[j]
  BY <1>2, <1>3, CutsSplit
<1>5. Ids \subseteq BotIds
  BY BotIdsAreIds DEF AdmissionOK
<1>6. Recent(b)' \subseteq Recent(b)
  <2>1. Recent(b)' = {j \in Ids' : RootOf'[j] = RootOf'[b] /\ rows'[j].replaces # 0 /\ rows'[j].created = hour'}
    BY DEF Recent, RecentReplacements, Lineage
  <2>2. Recent(b) = {j \in Ids : RootOf[j] = RootOf[b] /\ rows[j].replaces # 0 /\ rows[j].created = hour}
    BY RecentIs
  <2> QED
    BY <1>1, <1>4, <1>5, <2>1, <2>2
<1> QED
  BY <1>6, RecentIs, FS_Subset

\* A new row joins the chain of the bot that it replaces, and leaves the others.
LEMMA RecentAfterInsert ==
    ASSUME AdmissionOK, LinksOK, AdmissionOK', LinksOK', hour' = hour,
           NEW at \in Times \cup {AtOnce}, NEW dead \in 0 .. MaxBots, InsertRow(at, dead),
           dead = 0 \/ dead \in Ids, NEW n \in BotIds, n = Len(rows')
    PROVE  /\ \A b \in Ids : RootOf'[b] = RootOf[b] /\ RootOf[b] \in Ids
           /\ \A b \in Ids : dead = 0 \/ RootOf[b] # RootOf[dead] => Recent(b)' = Recent(b)
           /\ \A b \in Ids : Recent(b)' \subseteq Recent(b) \cup {n}
           /\ dead = 0 => Recent(n)' = {}
           /\ dead # 0 => Recent(n)' = Recent(dead)'
<1>1. /\ n = Len(rows) + 1 /\ Ids' = Ids \cup {n} /\ n \notin Ids /\ rows'[n] = NewRow(at, dead)
      /\ \A j \in Ids : rows'[j] = rows[j] /\ n \in BotIds /\ Ids' \subseteq BotIds
  BY RowInserted DEF AdmissionOK
<1>2. Ids \subseteq BotIds /\ Ids = 1 .. Len(rows) /\ Len(rows) \in Nat /\ n \in BotIds
  BY BotIdsAreIds, RowInserted DEF AdmissionOK
<1>3. NewRow(at, dead).replaces = dead
  BY DEF NewRow
<1>4. Replaced \in Chains /\ LeadsTo(Replaced, RootOf) /\ Replaced' \in Chains /\ LeadsTo(Replaced', RootOf')
  BY LinksAreChains, LinksAreChainsNext
<1>5. \A c \in BotIds : c < n => Replaced'[c] = Replaced[c]
  <2> SUFFICES ASSUME NEW c \in BotIds, c < n PROVE Replaced'[c] = Replaced[c]
    OBVIOUS
  <2>1. c \in Ids /\ c \in Ids'
    BY <1>1, <1>2, AdmissionAssumption DEF BotIds
  <2> QED
    BY <1>1, <2>1 DEF Replaced
<1>6. \A b \in Ids : b \in BotIds /\ b < n
  BY <1>1, <1>2
<1>7. \A b \in Ids : RootOf'[b] = RootOf[b]
  <2>1. \A b \in BotIds : b < n => RootOf'[b] = RootOf[b]
    BY <1>2, <1>4, <1>5, AddedLater
  <2> QED
    BY <1>6, <2>1
<1>8. \A b \in Ids : RootOf[b] \in Ids
  <2> SUFFICES ASSUME NEW b \in Ids PROVE RootOf[b] \in Ids
    OBVIOUS
  <2>1. RootOf[b] \in BotIds /\ RootOf[b] <= b
    BY <1>4, <1>6, RootsAreEarlier
  <2> QED
    BY <1>2, <2>1, AdmissionAssumption DEF BotIds
<1>9. RootOf'[n] = IF dead = 0 THEN n ELSE RootOf'[dead]
  <2>1. Replaced'[n] = dead
    BY <1>1, <1>2, <1>3 DEF Replaced
  <2> QED
    BY <1>2, <1>4, <2>1 DEF LeadsTo
<1>10. \A b : Recent(b)' = {j \in Ids' : RootOf'[j] = RootOf'[b] /\ rows'[j].replaces # 0 /\ rows'[j].created = hour'}
  BY DEF Recent, RecentReplacements, Lineage
<1>11. \A b : Recent(b) = {j \in Ids : RootOf[j] = RootOf[b] /\ rows[j].replaces # 0 /\ rows[j].created = hour}
  BY DEF Recent, RecentReplacements, Lineage
<1>12. \A b \in Ids : Recent(b)' \subseteq Recent(b) \cup {n}
  BY <1>1, <1>7, <1>10, <1>11
<1>13. ASSUME NEW b \in Ids, dead = 0 \/ RootOf[b] # RootOf[dead]
       PROVE  Recent(b)' = Recent(b)
  <2>1. n \notin Recent(b)'
    BY <1>1, <1>3, <1>7, <1>8, <1>9, <1>10, <1>13
  <2>2. Recent(b) \subseteq Recent(b)'
    BY <1>1, <1>7, <1>10, <1>11
  <2> QED
    BY <1>12, <2>1, <2>2
<1>14. dead = 0 => Recent(n)' = {}
  <2> SUFFICES ASSUME dead = 0, NEW j \in Recent(n)' PROVE FALSE
    OBVIOUS
  <2>1. j \in Ids' /\ RootOf'[j] = RootOf'[n] /\ rows'[j].replaces # 0
    BY <1>10
  <2>2. j \in Ids
    BY <1>1, <1>3, <2>1
  <2>3. RootOf[j] = n
    BY <1>7, <1>9, <2>1, <2>2
  <2> QED
    BY <1>1, <1>8, <2>2, <2>3
<1>15. dead # 0 => Recent(n)' = Recent(dead)'
  BY <1>9, <1>10
<1> QED
  BY <1>7, <1>8, <1>12, <1>13, <1>14, <1>15

LEMMA RecentIsANumberNext == AdmissionOK' => \A b \in BotIds : Cardinality(Recent(b)') \in Nat
<1>1. AdmissionOK => \A b \in BotIds : Cardinality(Recent(b)) \in Nat
  BY RecentIs
<1>2. (AdmissionOK => \A b \in BotIds : Cardinality(Recent(b)) \in Nat)'
  BY <1>1, PTL
<1> QED
  BY <1>2

LEMMA CapStep ==
    ASSUME AdmissionOK, LinksOK, CapOK, AdmissionOK', LinksOK', AdmissionStep
    PROVE  CapOK'
<1>1. Ids \subseteq BotIds
  BY BotIdsAreIds DEF AdmissionOK
<1>2. MaxReplacements \in Nat
  BY AdmissionAssumption
<1>3. /\ \A b \in Ids : Cardinality(Recent(b)) <= MaxReplacements
      /\ \A b \in BotIds : recovery[b].pc = "counted" => b \in Ids /\ Cardinality(Recent(b)) < MaxReplacements
  BY RecentIs DEF CapOK, ReplacementsAreCapped, Recent, LinksOK
\* What is to be shown of the step.
<1>4. SUFFICES /\ \A b \in Ids' : Cardinality(Recent(b)') <= MaxReplacements
               /\ \A b \in BotIds : recovery'[b].pc = "counted" => Cardinality(Recent(b)') < MaxReplacements
  <2>1. \A b \in BotIds : Recent(b)' = {j \in Ids' : RootOf'[j] = RootOf'[b] /\ rows'[j].replaces # 0 /\ rows'[j].created = hour'}
    BY DEF Recent, RecentReplacements, Lineage
  <2>2. Ids' \subseteq BotIds
    <3>1. rows' \in Seq(Rows) /\ Len(rows') <= MaxBots /\ MaxBots \in Nat
      BY AdmissionAssumption DEF AdmissionOK, AdmissionTypeOK
    <3>2. DOMAIN rows' = 1 .. Len(rows') /\ Len(rows') \in Nat
      BY <3>1
    <3> QED
      BY <3>1, <3>2 DEF Ids, BotIds
  <2>3. ReplacementsAreCapped'
    BY <1>4, <2>1, <2>2 DEF ReplacementsAreCapped
  <2> QED
    BY <1>4, <2>3 DEF CapOK, Recent
<1>5. \A b \in BotIds : Cardinality(Recent(b)) \in Nat /\ Cardinality(Recent(b)') \in Nat
  <2>1. \A b \in BotIds : Cardinality(Recent(b)) \in Nat
    BY RecentIs
  <2>2. \A b \in BotIds : Cardinality(Recent(b)') \in Nat
    BY RecentIsANumberNext
  <2> QED
    BY <2>1, <2>2
<1>6. ASSUME UNCHANGED rows \/ RowGoesOn, hour' = hour,
             \A b \in BotIds : recovery'[b].pc = "counted" =>
                recovery[b].pc = "counted" \/ Cardinality(Recent(b)) < MaxReplacements
      PROVE  /\ \A b \in Ids' : Cardinality(Recent(b)') <= MaxReplacements
             /\ \A b \in BotIds : recovery'[b].pc = "counted" => Cardinality(Recent(b)') < MaxReplacements
  <2>1. Ids' = Ids
    <3>1. CASE UNCHANGED rows
      BY <3>1 DEF Ids
    <3>2. CASE RowGoesOn
      BY <3>2, RowPut DEF RowGoesOn, AdmissionOK
    <3> QED
      BY <1>6, <3>1, <3>2
  <2>2. \A b \in BotIds : Cardinality(Recent(b)') <= Cardinality(Recent(b))
    BY <1>6, NoMoreRecent
  <2> QED
    BY <1>1, <1>2, <1>3, <1>5, <1>6, <2>1, <2>2
<1>7. CASE (UNCHANGED rows \/ RowGoesOn) /\ RecoveryCalms /\ hour' = hour
  <2>1. \A b \in BotIds : recovery'[b].pc = "counted" => recovery[b].pc = "counted"
    BY <1>7 DEF RecoveryCalms
  <2> QED
    BY <1>6, <1>7, <2>1
<1>8. ASSUME NEW b \in Ids, CountReplacements(b)
      PROVE  /\ \A c \in Ids' : Cardinality(Recent(c)') <= MaxReplacements
             /\ \A c \in BotIds : recovery'[c].pc = "counted" => Cardinality(Recent(c)') < MaxReplacements
  <2>1. /\ UNCHANGED rows /\ hour' = hour /\ recovery' = [recovery EXCEPT ![b].pc = "counted"]
        /\ Cardinality(Recent(b)) < MaxReplacements
    BY <1>8 DEF CountReplacements, Recent
  <2>2. \A c \in BotIds : c # b => recovery'[c] = recovery[c]
    BY <2>1 DEF AdmissionOK, AdmissionTypeOK
  <2> QED
    BY <1>6, <2>1, <2>2
<1>9. ASSUME NEW b \in Ids, Die(b), RowGoesOn
      PROVE  /\ \A c \in Ids' : Cardinality(Recent(c)') <= MaxReplacements
             /\ \A c \in BotIds : recovery'[c].pc = "counted" => Cardinality(Recent(c)') < MaxReplacements
  <2>1. hour' = hour /\ (recovery' = recovery \/ recovery' = [recovery EXCEPT ![b].pc = "due"])
    BY <1>9 DEF Die
  <2>2. \A c \in BotIds : recovery'[c].pc = "counted" => recovery[c].pc = "counted"
    BY <2>1, <1>1 DEF AdmissionOK, AdmissionTypeOK
  <2> QED
    BY <1>6, <1>9, <2>1, <2>2
\* A bot of another hour does not count.
<1>10. CASE HourPasses
  <2>1. UNCHANGED <<rows, recovery>> /\ hour' = hour + 1
    BY <1>10 DEF HourPasses
  <2>2. \A j \in Ids : rows[j].created # hour'
    <3>1. \A j \in Ids : rows[j].created \in Nat /\ rows[j].created <= hour
      BY BotIdsAreIds, AdmissionAssumption DEF AdmissionOK, Rows, Hours, LinksOK
    <3>2. hour \in Nat
      BY AdmissionAssumption DEF AdmissionOK, AdmissionTypeOK
    <3> QED
      BY <2>1, <3>1, <3>2
  <2>3. Ids' = Ids
    BY <2>1 DEF Ids
  <2>4. \A b \in BotIds : Recent(b)' = {}
    <3>1. \A b \in BotIds : Recent(b)' = {j \in Ids' : RootOf'[j] = RootOf'[b] /\ rows'[j].replaces # 0 /\ rows'[j].created = hour'}
      BY DEF Recent, RecentReplacements, Lineage
    <3> QED
      BY <2>1, <2>2, <2>3, <3>1
  <2>5. \A b \in BotIds : Cardinality(Recent(b)') = 0
    BY <2>4, FS_EmptySet
  <2> QED
    BY <1>1, <1>2, <1>3, <1>5, <2>1, <2>3, <2>5
<1>11. ASSUME NEW at \in Times \cup {AtOnce}, InsertRow(at, 0), RecoveryCalms, hour' = hour
       PROVE  /\ \A c \in Ids' : Cardinality(Recent(c)') <= MaxReplacements
              /\ \A c \in BotIds : recovery'[c].pc = "counted" => Cardinality(Recent(c)') < MaxReplacements
  <2>1. 0 \in 0 .. MaxBots
    BY AdmissionAssumption
  <2>2. PICK n \in BotIds : n = Len(rows') /\ Ids' = Ids \cup {n}
    BY <1>11, <2>1, RowInserted DEF AdmissionOK
  <2>3. (\A b \in Ids : Recent(b)' = Recent(b)) /\ Recent(n)' = {}
    BY <1>11, <2>1, <2>2, RecentAfterInsert
  <2>4. Cardinality(Recent(n)') = 0
    BY <2>3, FS_EmptySet
  <2>5. \A c \in BotIds : recovery'[c].pc = "counted" => recovery[c].pc = "counted"
    BY <1>11 DEF RecoveryCalms
  <2>6. \A b \in Ids : Cardinality(Recent(b)') = Cardinality(Recent(b))
    BY <2>3
  <2>7. \A c \in Ids' : Cardinality(Recent(c)') <= MaxReplacements
    BY <1>2, <1>3, <2>2, <2>4, <2>6
  <2>8. \A c \in BotIds : recovery'[c].pc = "counted" => c \in Ids /\ Cardinality(Recent(c)) < MaxReplacements
    BY <1>3, <2>5
  <2> QED
    BY <2>6, <2>7, <2>8
<1>12. ASSUME NEW b \in Ids, CreateReplacement(b)
       PROVE  /\ \A c \in Ids' : Cardinality(Recent(c)') <= MaxReplacements
              /\ \A c \in BotIds : recovery'[c].pc = "counted" => Cardinality(Recent(c)') < MaxReplacements
  <2>1. /\ AtOnce \in Times \cup {AtOnce} /\ b \in 0 .. MaxBots /\ b # 0 /\ InsertRow(AtOnce, b) /\ hour' = hour
        /\ recovery[b].pc = "counted" /\ recovery' = [recovery EXCEPT ![b] = [pc |-> "launching", bot |-> Len(rows')]]
    BY <1>1, <1>12, AdmissionAssumption DEF CreateReplacement, BotIds
  <2>2. PICK n \in BotIds : n = Len(rows') /\ Ids' = Ids \cup {n}
    BY <2>1, RowInserted DEF AdmissionOK
  <2>3. /\ \A c \in Ids : RootOf[c] # RootOf[b] => Recent(c)' = Recent(c)
        /\ \A c \in Ids : Recent(c)' \subseteq Recent(c) \cup {n}
        /\ Recent(n)' = Recent(b)'
    BY <2>1, <2>2, RecentAfterInsert
  <2>4. Cardinality(Recent(b)) < MaxReplacements
    BY <1>1, <1>3, <2>1
  <2>5. ASSUME NEW c \in Ids, RootOf[c] = RootOf[b]
        PROVE  Cardinality(Recent(c)') <= MaxReplacements
    <3>1. Recent(c) = Recent(b)
      BY <2>5 DEF Recent, Lineage
    <3>2. /\ IsFiniteSet(Recent(c)) /\ IsFiniteSet(Recent(c) \cup {n})
          /\ Cardinality(Recent(c) \cup {n}) <= Cardinality(Recent(c)) + 1
      <4>1. IsFiniteSet(Recent(c)) /\ Cardinality(Recent(c)) \in Nat
        BY RecentIs
      <4> QED
        BY <4>1, FS_AddElement
    <3>3. Cardinality(Recent(c)') <= Cardinality(Recent(c) \cup {n})
      BY <2>3, <3>2, FS_Subset
    <3>4. Cardinality(Recent(c) \cup {n}) \in Nat
      BY <3>2, FS_CardinalityType
    <3> QED
      BY <1>1, <1>2, <1>5, <2>4, <3>1, <3>2, <3>3, <3>4
  <2>6. \A c \in Ids : Cardinality(Recent(c)') <= MaxReplacements
    BY <1>3, <2>3, <2>5
  <2>7. ASSUME NEW c \in BotIds, recovery'[c].pc = "counted"
        PROVE  Cardinality(Recent(c)') < MaxReplacements
    <3>1. c # b /\ recovery[c].pc = "counted"
      BY <1>1, <2>1, <2>7 DEF AdmissionOK, AdmissionTypeOK
    <3>2. c \in Ids /\ Cardinality(Recent(c)) < MaxReplacements
      BY <1>3, <3>1
    <3>3. RootOf[c] # RootOf[b]
      BY <1>1, <2>1, <3>1, OneEndOfAChain
    <3> QED
      BY <2>3, <3>2, <3>3
  <2> QED
    BY <2>2, <2>3, <2>6, <2>7
<1> QED
  BY <1>7, <1>8, <1>9, <1>10, <1>11, <1>12 DEF AdmissionStep

-----------------------------------------------------------------------------
AdmissionInv == AdmissionOK /\ SlotOK /\ LinksOK /\ CapOK

LEMMA AdmissionInvInit == AdmissionInit => AdmissionInv
<1> SUFFICES ASSUME AdmissionInit PROVE AdmissionInv
  OBVIOUS
<1>1. Ids = {}
  BY DEF AdmissionInit, Ids
<1>2. \A b \in BotIds : recovery[b].pc = "none"
  BY DEF AdmissionInit
<1>3. SlotOK /\ LinksOK /\ CapOK
  BY <1>1, <1>2 DEF SlotOK, LinksOK, CapOK, ReplacementsAreCapped
<1> QED
  BY <1>3, AdmissionInitOK DEF AdmissionInv

LEMMA AdmissionInvStep == AdmissionInv /\ [AdmissionNext]_admissionVars => AdmissionInv'
<1> SUFFICES ASSUME AdmissionInv, [AdmissionNext]_admissionVars PROVE AdmissionInv'
  OBVIOUS
<1>1. AdmissionOK /\ SlotOK /\ LinksOK /\ CapOK
  BY DEF AdmissionInv
<1>2. AdmissionOK' /\ AdmissionStep
  BY <1>1, AdmissionNextStep
<1>3. SlotOK'
  BY <1>1, <1>2, SlotStep
<1>4. LinksOK'
  BY <1>1, <1>2, LinksStep
<1>5. CapOK'
  BY <1>1, <1>2, <1>4, CapStep
<1> QED
  BY <1>2, <1>3, <1>4, <1>5 DEF AdmissionInv

LEMMA AdmissionInvHolds == AdmissionSpec => []AdmissionInv
  BY AdmissionInvInit, AdmissionInvStep, PTL DEF AdmissionSpec

\* The rows, and what the requests, the workers and the recovery hold of them,
\* keep their types (bots_api_utils.py, launch_bot_utils.py, bot_recovery_utils.py).
THEOREM AdmissionTypeCorrect == AdmissionSpec => []AdmissionTypeOK
<1>1. AdmissionInv => AdmissionTypeOK
  BY DEF AdmissionInv, AdmissionOK
<1> QED
  BY <1>1, AdmissionInvHolds, PTL

\* The unique constraint on the meeting (holds_meeting_slot_states) does keep two
\* bots from being in it: no event brings a bot back that has let go of it.
THEOREM OneBotIsThere == AdmissionSpec => []OneBotInMeeting
<1>1. AdmissionInv => OneBotInMeeting
  BY SlotIsOne DEF AdmissionInv
<1> QED
  BY <1>1, AdmissionInvHolds, PTL

\* The policy of _maybe_create_replacement_bot caps the replacements of a meeting,
\* although it counts before it creates: only one bot of a lineage is ever counted for.
THEOREM ReplacementsStayCapped == AdmissionSpec => []ReplacementsAreCapped
<1>1. AdmissionInv => ReplacementsAreCapped
  BY DEF AdmissionInv, CapOK
<1> QED
  BY <1>1, AdmissionInvHolds, PTL

\* launch_scheduled_bot stages no bot before its join_at, however late its message is.
THEOREM StagedWhenDue == AdmissionSpec => StagedInTime
<1> DEFINE A == \A b \in Ids : rows[b].state = "SCHEDULED" /\ rows'[b].state = "STAGED" => rows[b].at <= hour
<1>1. AdmissionInv /\ [AdmissionNext]_admissionVars => [A]_admissionVars
  <2> SUFFICES ASSUME AdmissionInv, [AdmissionNext]_admissionVars PROVE A
    OBVIOUS
  <2>1. AdmissionOK /\ AdmissionStep
    BY AdmissionNextStep DEF AdmissionInv
  <2> QED
    BY <2>1, StagedStep
<1> QED
  BY <1>1, AdmissionInvHolds, PTL DEF AdmissionSpec, StagedInTime

-----------------------------------------------------------------------------
(* The thread that joins the meeting. *)

JoinPcs == {"off", "opening", "trying", "joined", "in", "gap", "over"}
Joiners == [platform : Platforms, pc : JoinPcs, stage : Int, login : {"none", "available", "used"},
            retries : Int, expected : Int, generic : Int, blocked : Int,
            hostUser : {"unseen", "missing", "overdue"}]
Webs == [left : BOOLEAN, cleaned : BOOLEAN, granted : BOOLEAN]
Messages == {"joined", "granted", "denied", "could_not_join", "ui_failure", "blocked",
             "auto_leave", "meeting_ended"}

\* The browser is cleaned up by a bot that has left.
JoinInv ==
    /\ joiner \in Joiners
    /\ web \in Webs /\ told \in Seq(Messages)
    /\ web.cleaned => web.left

\* What a step may be to the main loop: the thread goes on unseen, gets in, or ends
\* with a message or, of a bot that has left, without one; or the page speaks.
ThreadGoesOn == joiner' \in Joiners /\ JoinPhase(joiner') = JoinPhase(joiner) /\ UNCHANGED <<web, told>>
ThreadSays(m, phase) ==
    /\ JoinPhase(joiner) = "joining" /\ joiner' \in Joiners /\ JoinPhase(joiner') = phase
    /\ told' = Append(told, m) /\ UNCHANGED web
ThreadEnds ==
    \/ ThreadSays("joined", "in")
    \/ \E m \in {"could_not_join", "ui_failure", "blocked"} : ThreadSays(m, "over")
    \/ /\ JoinPhase(joiner) = "joining" /\ joiner' \in Joiners /\ JoinPhase(joiner') = "over"
       /\ web.left /\ UNCHANGED <<web, told>>

ThreadStarts ==
    JoinPhase(joiner) = "idle" /\ joiner' \in Joiners /\ JoinPhase(joiner') = "joining" /\ UNCHANGED <<web, told>>
CleansUp == UNCHANGED <<joiner, told>> /\ web' = [web EXCEPT !.cleaned = TRUE] /\ web.left
LoopHandles == UNCHANGED <<joiner, web>> /\ told # <<>> /\ told' = Tail(told)
LoopLeaves ==
    /\ UNCHANGED joiner /\ ~web.left
    /\ told' = Append(told, "meeting_ended") /\ web' = [web EXCEPT !.left = TRUE]
PageSays(m) ==
    /\ UNCHANGED joiner /\ JoinPhase(joiner) # "idle"
    /\ told' = Append(told, m)
    /\ \A i \in 1 .. Len(told) : told[i] # m
    /\ \/ m = "meeting_ended" /\ web' = [web EXCEPT !.left = TRUE]
       \/ m = "granted" /\ ~web.granted /\ web' = [web EXCEPT !.granted = TRUE]
       \/ m = "denied" /\ UNCHANGED web
       \/ m = "auto_leave" /\ JoinPhase(joiner) = "in" /\ ~web.left /\ UNCHANGED web
       \/ m \in {"could_not_join", "auto_leave"} /\ JoinPhase(joiner) = "joining" /\ UNCHANGED web

JoinStep ==
    \/ ThreadGoesOn \/ ThreadEnds \/ ThreadStarts \/ CleansUp \/ LoopHandles \/ LoopLeaves
    \/ \E m \in Messages : PageSays(m)

\* Setting one of the thread's counters.
LEMMA JoinersSet ==
    ASSUME NEW j \in Joiners
    PROVE  /\ \A pc \in JoinPcs : [j EXCEPT !.pc = pc] \in Joiners
           /\ \A n \in Int : /\ [j EXCEPT !.stage = n] \in Joiners
                             /\ [j EXCEPT !.retries = n] \in Joiners
                             /\ [j EXCEPT !.expected = n] \in Joiners
                             /\ [j EXCEPT !.generic = n] \in Joiners
                             /\ [j EXCEPT !.blocked = n] \in Joiners
           /\ \A l \in {"none", "available", "used"} : [j EXCEPT !.login = l] \in Joiners
           /\ \A h \in {"unseen", "missing", "overdue"} : [j EXCEPT !.hostUser = h] \in Joiners
  BY DEF Joiners

\* The ends of an exception.
LEMMA ThreadRetries ==
    ASSUME NEW j \in Joiners, JoinPhase(joiner) = "joining", UNCHANGED web, Retries(j)
    PROVE  JoinStep
<1>1. [j EXCEPT !.pc = "gap"] \in Joiners
  BY JoinersSet DEF JoinPcs
<1>2. JoinPhase([j EXCEPT !.pc = "gap"]) = "joining"
  BY DEF JoinPhase, Joiners
<1> QED
  BY <1>1, <1>2 DEF Retries, JoinStep, ThreadGoesOn

LEMMA ThreadEndsWith ==
    ASSUME NEW j \in Joiners, JoinPhase(joiner) = "joining", UNCHANGED web,
           NEW m \in {"could_not_join", "ui_failure", "blocked"}, EndsWith(m, j)
    PROVE  JoinStep
<1>1. [j EXCEPT !.pc = "over"] \in Joiners
  BY JoinersSet DEF JoinPcs
<1>2. JoinPhase([j EXCEPT !.pc = "over"]) = "over"
  BY DEF JoinPhase, Joiners
<1> QED
  BY <1>1, <1>2 DEF EndsWith, Tells, JoinStep, ThreadEnds, ThreadSays

LEMMA ThreadEndsSilently ==
    ASSUME joiner \in Joiners, JoinPhase(joiner) = "joining", UNCHANGED web, web.left, EndsSilently
    PROVE  JoinStep
<1>1. [joiner EXCEPT !.pc = "over"] \in Joiners
  BY JoinersSet DEF JoinPcs
<1>2. JoinPhase([joiner EXCEPT !.pc = "over"]) = "over"
  BY DEF JoinPhase, Joiners
<1> QED
  BY <1>1, <1>2 DEF EndsSilently, JoinStep, ThreadEnds

LEMMA LoginStep ==
    ASSUME NEW j \in Joiners, JoinPhase(joiner) = "joining", UNCHANGED web, LoginRequired(j)
    PROVE  JoinStep
<1>1. [j EXCEPT !.login = "used"] \in Joiners
  BY JoinersSet
<1> QED
  BY <1>1, ThreadRetries, ThreadEndsWith DEF LoginRequired

LEMMA ExpectedStep ==
    ASSUME NEW j \in Joiners, JoinPhase(joiner) = "joining", UNCHANGED web, Expected(j)
    PROVE  JoinStep
<1>1. j.expected + 1 \in Int /\ j.retries + 1 \in Int
  BY DEF Joiners
<1> DEFINE k == [j EXCEPT !.expected = @ + 1]
<1>2. k \in Joiners
  BY <1>1, JoinersSet
<1>3. [j EXCEPT !.expected = @ + 1, !.retries = @ + 1] \in Joiners
  BY <1>1 DEF Joiners
<1> QED
  BY <1>2, <1>3, ThreadRetries, ThreadEndsWith DEF Expected

LEMMA FailureStep ==
    ASSUME JoinInv, JoinPhase(joiner) = "joining", UNCHANGED web, Failure
    PROVE  JoinStep
<1>1. joiner \in Joiners /\ (web.left \/ web.cleaned => web.left)
  BY DEF JoinInv
<1>2. joiner.retries + 1 \in Int
  BY <1>1 DEF Joiners
<1>3. [joiner EXCEPT !.retries = @ + 1] \in Joiners
  BY <1>1, <1>2, JoinersSet
<1> QED
  BY <1>1, <1>3, ThreadRetries, ThreadEndsWith, ThreadEndsSilently DEF Failure

LEMMA TryingIsJoining == \A s : Trying(s) => JoinPhase(joiner) = "joining"
  BY DEF Trying, JoinPhase

LEMMA RaisingStep ==
    ASSUME JoinInv, Raising
    PROVE  JoinStep
<1>1. joiner \in Joiners /\ (web.left \/ web.cleaned => web.left) /\ UNCHANGED web
  BY DEF JoinInv, Raising, RaisesFatal, RaisesLoginRequired, RaisesExpected, RaisesBlocked,
         RaisesNoHostUser, RaisesGenericError, Fails
<1>2. \A k : May(k) \/ CanRaise(k) => JoinPhase(joiner) = "joining"
  BY DEF May, CanRaise, JoinPhase
<1>3. CASE RaisesFatal
  BY <1>1, <1>2, <1>3, ThreadEndsWith DEF RaisesFatal
<1>4. CASE RaisesLoginRequired
  BY <1>1, <1>2, <1>4, LoginStep DEF RaisesLoginRequired
<1>5. CASE RaisesExpected
  BY <1>1, <1>2, <1>5, ExpectedStep DEF RaisesExpected
<1>6. CASE RaisesBlocked
  <2> DEFINE j == [joiner EXCEPT !.blocked = IF @ < 2 THEN @ + 1 ELSE @]
  <2>1. j \in Joiners
    BY <1>1 DEF Joiners
  <2>2. LoginRequired(j) \/ Expected(j)
    BY <1>6 DEF RaisesBlocked
  <2> HIDE DEF j
  <2>3. JoinPhase(joiner) = "joining"
    BY <1>2, <1>6 DEF RaisesBlocked
  <2> QED
    BY <1>1, <2>1, <2>2, <2>3, LoginStep, ExpectedStep
<1>7. CASE RaisesNoHostUser
  <2>1. [joiner EXCEPT !.hostUser = "missing"] \in Joiners
    BY <1>1, JoinersSet
  <2>2. EndsWith("could_not_join", joiner) \/ Retries([joiner EXCEPT !.hostUser = "missing"])
    BY <1>7 DEF RaisesNoHostUser
  <2>3. JoinPhase(joiner) = "joining"
    BY <1>2, <1>7 DEF RaisesNoHostUser
  <2> QED
    BY <1>1, <2>1, <2>2, <2>3, ThreadEndsWith, ThreadRetries
<1>8. CASE RaisesGenericError
  <2>1. joiner.generic + 1 \in Int
    BY <1>1 DEF Joiners
  <2>2. [joiner EXCEPT !.generic = @ + 1] \in Joiners
    BY <1>1, <2>1, JoinersSet
  <2>3. JoinPhase(joiner) = "joining"
    BY <1>2, <1>8 DEF RaisesGenericError
  <2> QED
    BY <1>1, <1>8, <2>2, <2>3, ThreadEndsSilently, ThreadRetries DEF RaisesGenericError
<1>9. CASE Fails
  <2>1. JoinPhase(joiner) = "joining"
    BY <1>9 DEF Fails, JoinPhase
  <2> QED
    BY <1>1, <1>9, <2>1, FailureStep DEF Fails
<1> QED
  BY <1>3, <1>4, <1>5, <1>6, <1>7, <1>8, <1>9 DEF Raising

LEMMA ThreadStep ==
    ASSUME JoinInv, NextAttempt \/ CloseBrowser \/ OpenBrowser \/ StageDone \/ Joined \/ HostUserOverdue \/ StartThread
    PROVE  JoinStep
<1>1. joiner \in Joiners
  BY DEF JoinInv
<1>2. CASE NextAttempt
  BY <1>1, <1>2 DEF NextAttempt, JoinStep, ThreadGoesOn, JoinPhase, Joiners, JoinPcs
<1>3. CASE CloseBrowser
  BY <1>1, <1>3 DEF CloseBrowser, JoinStep, ThreadGoesOn
<1>4. CASE OpenBrowser
  <2>1. [joiner EXCEPT !.pc = "trying", !.stage = 1] \in Joiners
    <3> DEFINE j == [joiner EXCEPT !.pc = "trying"]
    <3>1. j \in Joiners
      BY <1>1, JoinersSet DEF JoinPcs
    <3> HIDE DEF j
    <3>2. [j EXCEPT !.stage = 1] \in Joiners
      BY <3>1 DEF Joiners
    <3> QED
      BY <3>2 DEF j
  <2>2. joiner' = [joiner EXCEPT !.pc = "trying", !.stage = 1] /\ joiner.pc = "opening" /\ UNCHANGED <<web, told>>
    BY <1>4 DEF OpenBrowser
  <2>3. joiner'.pc = "trying"
    BY <1>1, <2>2 DEF Joiners
  <2> QED
    BY <2>1, <2>2, <2>3 DEF JoinStep, ThreadGoesOn, JoinPhase
<1>5. CASE StageDone
  <2>1. joiner.stage + 1 \in Int /\ joiner.pc = "trying" /\ UNCHANGED <<web, told>>
    BY <1>1, <1>5 DEF StageDone, Joiners
  <2>2. [joiner EXCEPT !.pc = "joined"] \in Joiners /\ [joiner EXCEPT !.stage = @ + 1] \in Joiners
    BY <1>1, <2>1, JoinersSet DEF JoinPcs
  <2>3. joiner' = [joiner EXCEPT !.pc = "joined"] \/ joiner' = [joiner EXCEPT !.stage = @ + 1]
    BY <1>5 DEF StageDone
  <2>4. joiner'.pc \in {"joined", "trying"}
    BY <1>1, <2>1, <2>3 DEF Joiners
  <2> QED
    BY <2>1, <2>2, <2>3, <2>4 DEF JoinStep, ThreadGoesOn, JoinPhase
<1>6. CASE Joined
  BY <1>1, <1>6 DEF Joined, Tells, JoinStep, ThreadEnds, ThreadSays, JoinPhase, Joiners, JoinPcs
<1>7. CASE HostUserOverdue
  BY <1>1, <1>7 DEF HostUserOverdue, JoinStep, ThreadGoesOn, JoinPhase, Joiners
<1>8. CASE StartThread
  BY <1>1, <1>8 DEF StartThread, JoinStep, ThreadStarts, JoinPhase, Joiners, JoinPcs
<1> QED
  BY <1>2, <1>3, <1>4, <1>5, <1>6, <1>7, <1>8

LEMMA PageStep ==
    ASSUME JoinInv, PageSpeaks \/ Leave \/ CleanUp \/ AutoLeaveDue \/ HandlesMessage
    PROVE  JoinStep
<1>1. joiner \in Joiners
  BY DEF JoinInv
<1>2. HasAsked => JoinPhase(joiner) # "idle"
  BY DEF HasAsked, JoinPhase
<1>3. CASE Admitted \/ MeetsOthers
  BY <1>1, <1>3 DEF Admitted, MeetsOthers, JoinStep, ThreadGoesOn
<1>4. CASE RemovedOrEnded
  BY <1>2, <1>4 DEF RemovedOrEnded, PageSays, PageTells, Tells, JoinStep, Messages
<1>5. CASE PageFails
  BY <1>5, TryingIsJoining DEF PageFails, PageSays, PageTells, Tells, JoinStep, Messages
<1>6. CASE MayRecord
  BY <1>2, <1>6 DEF MayRecord, PageSays, InMeeting, PageTells, Tells, JoinStep, Messages, JoinPhase
<1>7. CASE MayNotRecord
  BY <1>2, <1>7 DEF MayNotRecord, PageSays, InMeeting, PageTells, Tells, JoinStep, Messages
<1>8. CASE Leave
  BY <1>8 DEF Leave, Tells, JoinStep, LoopLeaves
<1>9. CASE CleanUp
  BY <1>9 DEF CleanUp, JoinStep, CleansUp
<1>10. CASE AutoLeaveDue
  BY <1>10 DEF AutoLeaveDue, PageSays, PageTells, Tells, JoinStep, Messages, JoinPhase
<1>11. CASE HandlesMessage
  BY <1>11 DEF HandlesMessage, JoinStep, LoopHandles
<1> QED
  BY <1>3, <1>4, <1>5, <1>6, <1>7, <1>8, <1>9, <1>10, <1>11 DEF PageSpeaks

LEMMA JoinNextStep ==
    ASSUME JoinInv, [JoinNext]_joinVars
    PROVE  JoinStep
<1>1. CASE UNCHANGED joinVars
  BY <1>1 DEF joinVars, JoinInv, JoinStep, ThreadGoesOn
<1>2. CASE JoinNext
  BY <1>2, RaisingStep, ThreadStep, PageStep DEF JoinNext, JoinThread
<1> QED
  BY <1>1, <1>2

LEMMA JoinStepKeeps ==
    ASSUME JoinInv, JoinStep
    PROVE  JoinInv'
<1>1. joiner \in Joiners /\ web \in Webs /\ told \in Seq(Messages) /\ (web.cleaned => web.left)
  BY DEF JoinInv
<1>2. joiner' \in Joiners
  BY <1>1 DEF JoinStep, ThreadGoesOn, ThreadEnds, ThreadSays, ThreadStarts, CleansUp, LoopHandles, LoopLeaves, PageSays
<1>3. told' = told \/ (told # <<>> /\ told' = Tail(told)) \/ \E m \in Messages : told' = Append(told, m)
  BY DEF JoinStep, ThreadGoesOn, ThreadEnds, ThreadSays, ThreadStarts, CleansUp, LoopHandles, LoopLeaves, PageSays,
         Messages
<1>4. told' \in Seq(Messages)
  BY <1>1, <1>3
<1>5. \/ web' = web \/ web' = [web EXCEPT !.left = TRUE] \/ web' = [web EXCEPT !.granted = TRUE]
      \/ web' = [web EXCEPT !.cleaned = TRUE] /\ web.left
  BY DEF JoinStep, ThreadGoesOn, ThreadEnds, ThreadSays, ThreadStarts, CleansUp, LoopHandles, LoopLeaves, PageSays
<1>6. web' \in Webs /\ (web'.cleaned => web'.left)
  BY <1>1, <1>5 DEF Webs
<1> QED
  BY <1>2, <1>4, <1>6 DEF JoinInv

\* What the adapter is to the main loop is what it does.
LEMMA JoinStepIsSeen ==
    ASSUME JoinInv, JoinStep
    PROVE  [Contract!AdapterNext]_(Contract!adapterVars)
<1>1. joiner \in Joiners /\ joiner' \in Joiners /\ web \in Webs
  BY JoinStepKeeps DEF JoinInv
\* The adapter as a record, now and after the step, and with one field set.
<1> DEFINE Adapter(p, l, g) == [phase |-> p, left |-> l, granted |-> g]
<1>2. /\ AsAdapter = Adapter(JoinPhase(joiner), web.left, web.granted)
       /\ AsAdapter' = Adapter(JoinPhase(joiner'), web'.left, web'.granted)
  BY DEF AsAdapter
<1>3. /\ AsAdapter.phase = JoinPhase(joiner) /\ AsAdapter.left = web.left /\ AsAdapter.granted = web.granted
      /\ \A q : /\ [AsAdapter EXCEPT !.phase = q] = Adapter(q, web.left, web.granted)
                /\ [AsAdapter EXCEPT !.left = q] = Adapter(JoinPhase(joiner), q, web.granted)
                /\ [AsAdapter EXCEPT !.granted = q] = Adapter(JoinPhase(joiner), web.left, q)
  <2>1. PICK p, l, g, a : p = JoinPhase(joiner) /\ l = web.left /\ g = web.granted /\ a = AsAdapter
    OBVIOUS
  <2>2. a = [phase |-> p, left |-> l, granted |-> g]
    BY <2>1, <1>2
  <2>3. /\ a.phase = p /\ a.left = l /\ a.granted = g
        /\ \A q : /\ [a EXCEPT !.phase = q] = [phase |-> q, left |-> l, granted |-> g]
                  /\ [a EXCEPT !.left = q] = [phase |-> p, left |-> q, granted |-> g]
                  /\ [a EXCEPT !.granted = q] = [phase |-> p, left |-> l, granted |-> q]
    BY <2>2
  <2> HIDE DEF Adapter
  <2>4. \A x, y, z : Adapter(x, y, z) = [phase |-> x, left |-> y, granted |-> z]
    BY DEF Adapter
  <2> QED
    BY <2>1, <2>3, <2>4
<1> HIDE DEF Adapter
<1>4. /\ JoinPhase(joiner) = "idle" <=> joiner.pc = "off"
      /\ JoinPhase(joiner) = "in" <=> joiner.pc = "in"
      /\ JoinPhase(joiner) = "over" <=> joiner.pc = "over"
      /\ JoinPhase(joiner) = "joining" <=> joiner.pc \notin {"off", "in", "over"}
  BY DEF JoinPhase
<1>5. CASE ThreadGoesOn \/ CleansUp
  <2>1. JoinPhase(joiner') = JoinPhase(joiner) /\ web'.left = web.left /\ web'.granted = web.granted /\ told' = told
    BY <1>1, <1>5 DEF ThreadGoesOn, CleansUp, Webs
  <2> QED
    BY <2>1, <1>2 DEF Contract!adapterVars
<1>6. CASE ThreadSays("joined", "in")
  <2>1. Contract!JoinAttemptEnds
    BY <1>6, <1>2, <1>3 DEF ThreadSays, Contract!JoinAttemptEnds, Contract!Posts
  <2> QED
    BY <2>1 DEF Contract!AdapterNext
<1>7. CASE \E m \in {"could_not_join", "ui_failure", "blocked"} : ThreadSays(m, "over")
  <2>1. Contract!JoinAttemptEnds
    BY <1>7, <1>2, <1>3 DEF ThreadSays, Contract!JoinAttemptEnds, Contract!Posts
  <2> QED
    BY <2>1 DEF Contract!AdapterNext
<1>8. CASE JoinPhase(joiner) = "joining" /\ JoinPhase(joiner') = "over" /\ web.left /\ UNCHANGED <<web, told>>
  <2>1. AsAdapter' = Adapter("over", web.left, web.granted)
    BY <1>2, <1>8
  <2>2. AsAdapter' = [AsAdapter EXCEPT !.phase = "over"]
    <3>1. [AsAdapter EXCEPT !.phase = "over"] = Adapter("over", web.left, web.granted)
      BY <1>3, Zenon
    <3> QED
      BY <2>1, <3>1, Zenon
  <2>3. AsAdapter.phase = "joining" /\ AsAdapter.left /\ UNCHANGED told
    BY <1>3, <1>8
  <2>4. Contract!JoinAttemptEnds
    BY <2>2, <2>3, Zenon DEF Contract!JoinAttemptEnds
  <2> QED
    BY <2>4 DEF Contract!AdapterNext
<1>9. CASE ThreadStarts
  <2>1. Contract!SentIn
    BY <1>9, <1>2, <1>3 DEF ThreadStarts, Contract!SentIn
  <2> QED
    BY <2>1 DEF Contract!AdapterNext
<1>10. CASE LoopHandles
  <2>1. Contract!LoopTakes
    BY <1>10, <1>2 DEF LoopHandles, Contract!LoopTakes
  <2> QED
    BY <2>1 DEF Contract!AdapterNext
<1>11. CASE LoopLeaves
  <2>1. web'.left /\ web'.granted = web.granted
    BY <1>1, <1>11 DEF LoopLeaves, Webs
  <2>2. Contract!AdapterLeaves(told)
    BY <1>11, <1>2, <1>3, <2>1 DEF LoopLeaves, Contract!AdapterLeaves
  <2> QED
    BY <2>2 DEF Contract!AdapterNext
<1>12. ASSUME UNCHANGED joiner, JoinPhase(joiner) # "idle", NEW m \in Messages, told' = Append(told, m),
              \A i \in 1 .. Len(told) : told[i] # m
       PROVE  /\ (m = "meeting_ended" /\ web' = [web EXCEPT !.left = TRUE]) => Contract!MeetingEnds
              /\ (m = "granted" /\ ~web.granted /\ web' = [web EXCEPT !.granted = TRUE]) => Contract!PermissionGranted
              /\ (m = "denied" /\ UNCHANGED web) => Contract!PermissionDenied
              /\ (m = "auto_leave" /\ JoinPhase(joiner) = "in" /\ ~web.left /\ UNCHANGED web) => Contract!AutoLeaveIsDue
              /\ (m \in {"could_not_join", "auto_leave"} /\ JoinPhase(joiner) = "joining" /\ UNCHANGED web) => Contract!PageComplains
  <2>8. AsAdapter' = Adapter(JoinPhase(joiner), web'.left, web'.granted)
    BY <1>2, <1>12
  <2>0. AsAdapter.phase # "idle" /\ (web' = web => UNCHANGED AsAdapter)
    <3>1. AsAdapter.phase # "idle"
      BY <1>3, <1>12
    <3>2. ASSUME web' = web PROVE AsAdapter' = AsAdapter
      BY <2>8, <1>2, <3>2
    <3> QED
      BY <3>1, <3>2
  <2>1. joiner.pc # "off" /\ ~Contract!Waits(m) /\ Contract!Posts(m)
    BY <1>4, <1>12 DEF Contract!Waits, Contract!Posts
  <2>2. ASSUME m = "meeting_ended", web' = [web EXCEPT !.left = TRUE] PROVE Contract!MeetingEnds
    <3>1. web'.left = TRUE /\ web'.granted = web.granted
      BY <1>1, <2>2 DEF Webs
    <3>2. AsAdapter' = [AsAdapter EXCEPT !.left = TRUE]
      <4>1. AsAdapter' = Adapter(JoinPhase(joiner), TRUE, web.granted)
        BY <2>8, <3>1
      <4>2. [AsAdapter EXCEPT !.left = TRUE] = Adapter(JoinPhase(joiner), TRUE, web.granted)
        BY <1>3, Zenon
      <4> QED
        BY <4>1, <4>2, Zenon
    <3> QED
      BY <2>0, <2>1, <2>2, <3>2, Zenon DEF Contract!MeetingEnds
  <2>3. ASSUME m = "granted", ~web.granted, web' = [web EXCEPT !.granted = TRUE] PROVE Contract!PermissionGranted
    <3>1. web'.granted = TRUE /\ web'.left = web.left
      BY <1>1, <2>3 DEF Webs
    <3>2. AsAdapter' = [AsAdapter EXCEPT !.granted = TRUE]
      <4>1. AsAdapter' = Adapter(JoinPhase(joiner), web.left, TRUE)
        BY <2>8, <3>1
      <4>2. [AsAdapter EXCEPT !.granted = TRUE] = Adapter(JoinPhase(joiner), web.left, TRUE)
        BY <1>3, Zenon
      <4> QED
        BY <4>1, <4>2, Zenon
    <3>3. ~AsAdapter.granted
      BY <1>3, <2>3
    <3> QED
      BY <2>0, <2>1, <2>3, <3>2, <3>3, Zenon DEF Contract!PermissionGranted
  <2>4. (m = "denied" /\ UNCHANGED web) => Contract!PermissionDenied
    BY <2>0, <2>1, Zenon DEF Contract!PermissionDenied
  <2>5. (m = "auto_leave" /\ JoinPhase(joiner) = "in" /\ ~web.left /\ UNCHANGED web) => Contract!AutoLeaveIsDue
    BY <1>3, <2>0, <2>1, Zenon DEF Contract!AutoLeaveIsDue
  <2>6. (m \in {"could_not_join", "auto_leave"} /\ JoinPhase(joiner) = "joining" /\ UNCHANGED web) => Contract!PageComplains
    BY <1>3, <2>0, <2>1, Zenon DEF Contract!PageComplains
  <2> QED
    BY <2>2, <2>3, <2>4, <2>5, <2>6
<1>13. CASE \E m \in Messages : PageSays(m)
  BY <1>12, <1>13 DEF PageSays, Contract!AdapterNext
<1>14. CASE ThreadEnds
  BY <1>6, <1>7, <1>8, <1>14 DEF ThreadEnds
<1> QED
  BY <1>5, <1>9, <1>10, <1>11, <1>13, <1>14, Zenon DEF JoinStep

LEMMA JoinStarts == JoinInit => JoinInv /\ Contract!AdapterInit
<1> SUFFICES ASSUME JoinInit PROVE JoinInv /\ Contract!AdapterInit
  OBVIOUS
<1>1. joiner \in Joiners /\ joiner.pc = "off"
  BY DEF JoinInit, Joiners, JoinPcs
<1>2. JoinInv
  BY <1>1 DEF JoinInit, JoinInv, Webs
<1>3. Contract!AdapterInit
  BY <1>1 DEF JoinInit, Contract!AdapterInit, Contract!NewAdapter, AsAdapter, JoinPhase
<1> QED
  BY <1>2, <1>3

\* The joining thread, the page and the main loop's calls are what MeetingAdapter
\* says of an adapter, and on which the bot's process is built: of web_bot_adapter's
\* repeatedly_attempt_to_join_meeting, for each platform and any number of retries.
THEOREM JoinKeepsContract == JoinSpec => ImplementsAdapter
<1>1. JoinInv /\ [JoinNext]_joinVars => JoinInv' /\ [Contract!AdapterNext]_(Contract!adapterVars)
  BY JoinNextStep, JoinStepKeeps, JoinStepIsSeen
<1> QED
  BY <1>1, JoinStarts, PTL DEF JoinSpec, ImplementsAdapter, Contract!AdapterSpec

-----------------------------------------------------------------------------
(* The attempts of the thread that joins the meeting. *)

Threads == [platform : Platforms, pc : JoinPcs, stage : 1 .. 8, login : {"none", "available", "used"},
            retries : 0 .. MaxJoinRetries, expected : 0 .. ExpectedPerRestart,
            generic : 0 .. MaxGenericErrors, blocked : 0 .. 2, hostUser : {"unseen", "missing", "overdue"}]

\* A thread has the stages of its platform. One that goes on has not met so many
\* expected exceptions that a new pod is wanted.
GoesAbout(j) ==
    /\ j \in Threads
    /\ j.stage <= Len(Stages[j.platform])
    /\ j.pc # "over" => j.expected < ExpectedPerRestart

LEMMA StageCounts == \A p \in Platforms : Len(Stages[p]) \in 1 .. 8
BY DEF Platforms, Stages, GoogleStages, TeamsStages, ZoomWebStages

LEMMA ThreadSet ==
    ASSUME NEW j \in Threads
    PROVE  /\ \A pc \in JoinPcs : [j EXCEPT !.pc = pc] \in Threads
           /\ \A n \in 1 .. 8 : [j EXCEPT !.stage = n] \in Threads
           /\ \A n \in 0 .. MaxJoinRetries : [j EXCEPT !.retries = n] \in Threads
           /\ \A n \in 0 .. ExpectedPerRestart : [j EXCEPT !.expected = n] \in Threads
           /\ \A n \in 0 .. MaxGenericErrors : [j EXCEPT !.generic = n] \in Threads
           /\ \A n \in 0 .. 2 : [j EXCEPT !.blocked = n] \in Threads
           /\ \A l \in {"none", "available", "used"} : [j EXCEPT !.login = l] \in Threads
           /\ \A h \in {"unseen", "missing", "overdue"} : [j EXCEPT !.hostUser = h] \in Threads
BY DEF Threads

\* An exception that is handled with the counters of j leaves a thread of its bounds.
LEMMA RetryGoesAbout ==
    ASSUME NEW j, GoesAbout(j), j.pc # "over", Retries(j)
    PROVE  GoesAbout(joiner')
<1>1. [j EXCEPT !.pc = "gap"] \in Threads
  BY ThreadSet DEF GoesAbout, JoinPcs
<1> QED
  BY <1>1 DEF Retries, GoesAbout, Threads

LEMMA EndGoesAbout ==
    ASSUME NEW j \in Threads, j.stage <= Len(Stages[j.platform]), joiner' = [j EXCEPT !.pc = "over"]
    PROVE  GoesAbout(joiner')
<1>1. [j EXCEPT !.pc = "over"] \in Threads
  BY ThreadSet DEF JoinPcs
<1> QED
  BY <1>1 DEF GoesAbout, Threads

LEMMA LoginGoesAbout ==
    ASSUME NEW j, GoesAbout(j), j.pc # "over", LoginRequired(j)
    PROVE  GoesAbout(joiner')
<1>1. CASE Retries([j EXCEPT !.login = "used"])
  <2>1. [j EXCEPT !.login = "used"] \in Threads
    BY ThreadSet DEF GoesAbout
  <2>2. GoesAbout([j EXCEPT !.login = "used"]) /\ [j EXCEPT !.login = "used"].pc # "over"
    BY <2>1 DEF GoesAbout, Threads
  <2> QED
    BY <1>1, <2>2, RetryGoesAbout
<1>2. CASE EndsWith("could_not_join", j)
  BY <1>2, EndGoesAbout DEF EndsWith, GoesAbout
<1> QED
  BY <1>1, <1>2 DEF LoginRequired

LEMMA ExpectedGoesAbout ==
    ASSUME NEW j, GoesAbout(j), j.pc # "over", Expected(j)
    PROVE  GoesAbout(joiner')
<1>1. /\ j \in Threads /\ j.expected + 1 \in 0 .. ExpectedPerRestart /\ j.stage <= Len(Stages[j.platform])
      /\ j.retries \in 0 .. MaxJoinRetries /\ MaxJoinRetries \in Nat /\ ExpectedPerRestart \in Nat \ {0}
  BY MeetingJoinAssumption DEF GoesAbout, Threads
<1>2. CASE j.retries >= MaxJoinRetries
  BY <1>1, <1>2, EndGoesAbout DEF Expected, EndsWith
<1>3. CASE j.retries < MaxJoinRetries /\ (j.expected + 1) % ExpectedPerRestart = 0
  <2> DEFINE k == [j EXCEPT !.expected = j.expected + 1, !.retries = j.retries + 1]
  <2>1. j.retries + 1 \in 0 .. MaxJoinRetries
    BY <1>1, <1>3
  <2>2. k \in Threads
    <3>1. [j EXCEPT !.expected = j.expected + 1] \in Threads
      BY <1>1, ThreadSet
    <3> QED
      BY <2>1, <3>1, ThreadSet
  <2>3. k.stage = j.stage /\ k.platform = j.platform
    BY <1>1 DEF Threads
  <2>4. joiner' = [k EXCEPT !.pc = "over"]
    BY <1>1, <1>3 DEF Expected, EndsWith
  <2> HIDE DEF k
  <2> QED
    BY <1>1, <2>2, <2>3, <2>4, EndGoesAbout
<1>4. CASE j.retries < MaxJoinRetries /\ (j.expected + 1) % ExpectedPerRestart # 0
  <2> DEFINE k == [j EXCEPT !.expected = j.expected + 1]
  <2>1. j.expected + 1 < ExpectedPerRestart
    <3>1. ExpectedPerRestart % ExpectedPerRestart = 0
      BY <1>1
    <3> QED
      BY <1>1, <1>4, <3>1
  <2>2. k \in Threads
    BY <1>1, ThreadSet
  <2>3. k.stage = j.stage /\ k.platform = j.platform /\ k.pc = j.pc /\ k.expected = j.expected + 1
    BY <1>1 DEF Threads
  <2>4. Retries(k)
    BY <1>1, <1>4 DEF Expected
  <2> HIDE DEF k
  <2> QED
    BY <1>1, <2>1, <2>2, <2>3, <2>4, RetryGoesAbout DEF GoesAbout
<1>5. \/ j.retries >= MaxJoinRetries
      \/ j.retries < MaxJoinRetries /\ (j.expected + 1) % ExpectedPerRestart = 0
      \/ j.retries < MaxJoinRetries /\ (j.expected + 1) % ExpectedPerRestart # 0
  BY <1>1
<1> QED
  BY <1>2, <1>3, <1>4, <1>5

LEMMA FailureGoesAbout ==
    ASSUME GoesAbout(joiner), joiner.pc # "over", Failure
    PROVE  GoesAbout(joiner')
<1>1. /\ joiner \in Threads /\ joiner.stage <= Len(Stages[joiner.platform]) /\ joiner.expected < ExpectedPerRestart
      /\ joiner.retries \in 0 .. MaxJoinRetries /\ MaxJoinRetries \in Nat
  BY MeetingJoinAssumption DEF GoesAbout, Threads
<1>2. CASE EndsWith("ui_failure", joiner) \/ EndsSilently
  BY <1>1, <1>2, EndGoesAbout DEF EndsWith, EndsSilently
<1>3. CASE joiner.retries < MaxJoinRetries /\ Retries([joiner EXCEPT !.retries = @ + 1])
  <2> DEFINE k == [joiner EXCEPT !.retries = joiner.retries + 1]
  <2>0. joiner.retries + 1 \in 0 .. MaxJoinRetries
    BY <1>1, <1>3
  <2>1. k \in Threads
    BY <1>1, <2>0, ThreadSet
  <2>2. k.stage = joiner.stage /\ k.platform = joiner.platform /\ k.pc = joiner.pc /\ k.expected = joiner.expected
    BY <1>1 DEF Threads
  <2>3. Retries(k)
    BY <1>3
  <2> HIDE DEF k
  <2> QED
    BY <1>1, <2>1, <2>2, <2>3, RetryGoesAbout DEF GoesAbout
<1> QED
  BY <1>1, <1>2, <1>3 DEF Failure

LEMMA RaisingGoesAbout ==
    ASSUME GoesAbout(joiner), Raising
    PROVE  GoesAbout(joiner')
<1>1. joiner \in Threads /\ joiner.stage <= Len(Stages[joiner.platform]) /\ joiner.pc # "over"
  BY DEF GoesAbout, Raising, RaisesFatal, RaisesLoginRequired, RaisesExpected, RaisesBlocked, RaisesNoHostUser,
         RaisesGenericError, Fails, May, CanRaise
<1>2. CASE RaisesFatal
  BY <1>1, <1>2, EndGoesAbout DEF RaisesFatal, EndsWith
<1>3. CASE RaisesLoginRequired
  BY <1>1, <1>3, LoginGoesAbout DEF RaisesLoginRequired
<1>4. CASE RaisesExpected
  BY <1>1, <1>4, ExpectedGoesAbout DEF RaisesExpected
<1>5. CASE RaisesBlocked
  <2> DEFINE k == [joiner EXCEPT !.blocked = IF joiner.blocked < 2 THEN joiner.blocked + 1 ELSE joiner.blocked]
  <2>1. (IF joiner.blocked < 2 THEN joiner.blocked + 1 ELSE joiner.blocked) \in 0 .. 2
    BY <1>1 DEF Threads
  <2>2. k \in Threads
    BY <1>1, <2>1, ThreadSet
  <2>3. k.stage = joiner.stage /\ k.platform = joiner.platform /\ k.pc = joiner.pc /\ k.expected = joiner.expected
    BY <1>1 DEF Threads
  <2>4. LoginRequired(k) \/ Expected(k)
    BY <1>5 DEF RaisesBlocked
  <2> HIDE DEF k
  <2>5. GoesAbout(k)
    BY <1>1, <2>2, <2>3 DEF GoesAbout
  <2> QED
    BY <1>1, <2>3, <2>4, <2>5, LoginGoesAbout, ExpectedGoesAbout
<1>6. CASE RaisesNoHostUser
  <2>1. CASE EndsWith("could_not_join", joiner)
    BY <1>1, <2>1, EndGoesAbout DEF EndsWith
  <2>2. CASE Retries([joiner EXCEPT !.hostUser = "missing"])
    <3> DEFINE k == [joiner EXCEPT !.hostUser = "missing"]
    <3>1. k \in Threads
      BY <1>1, ThreadSet
    <3>2. k.stage = joiner.stage /\ k.platform = joiner.platform /\ k.pc = joiner.pc /\ k.expected = joiner.expected
      BY <1>1 DEF Threads
    <3>3. Retries(k)
      BY <2>2
    <3> HIDE DEF k
    <3> QED
      BY <1>1, <3>1, <3>2, <3>3, RetryGoesAbout DEF GoesAbout
  <2> QED
    BY <1>6, <2>1, <2>2 DEF RaisesNoHostUser
<1>7. CASE RaisesGenericError
  <2>1. CASE EndsSilently
    BY <1>1, <2>1, EndGoesAbout DEF EndsSilently
  <2>2. CASE joiner.generic < MaxGenericErrors /\ Retries([joiner EXCEPT !.generic = @ + 1])
    <3> DEFINE k == [joiner EXCEPT !.generic = joiner.generic + 1]
    <3>1. joiner.generic + 1 \in 0 .. MaxGenericErrors
      BY <1>1, <2>2, MeetingJoinAssumption DEF Threads
    <3>2. k \in Threads
      BY <1>1, <3>1, ThreadSet
    <3>3. k.stage = joiner.stage /\ k.platform = joiner.platform /\ k.pc = joiner.pc /\ k.expected = joiner.expected
      BY <1>1 DEF Threads
    <3>4. Retries(k)
      BY <2>2
    <3> HIDE DEF k
    <3> QED
      BY <1>1, <3>2, <3>3, <3>4, RetryGoesAbout DEF GoesAbout
  <2> QED
    BY <1>7, <2>1, <2>2 DEF RaisesGenericError
<1>8. CASE Fails
  BY <1>1, <1>8, FailureGoesAbout DEF Fails
<1> QED
  BY <1>2, <1>3, <1>4, <1>5, <1>6, <1>7, <1>8 DEF Raising

LEMMA JoinNextGoesAbout ==
    ASSUME GoesAbout(joiner), [JoinNext]_joinVars
    PROVE  GoesAbout(joiner')
<1>1. joiner \in Threads /\ joiner.stage <= Len(Stages[joiner.platform]) /\ joiner.stage \in 1 .. 8
      /\ joiner.platform \in Platforms /\ Len(Stages[joiner.platform]) \in 1 .. 8
  BY StageCounts DEF GoesAbout, Threads
<1>2. CASE Raising
  BY <1>2, RaisingGoesAbout
<1>3. CASE \E pc \in JoinPcs \ {"over"} : joiner.pc # "over" /\ joiner' = [joiner EXCEPT !.pc = pc]
  <2>1. PICK pc \in JoinPcs \ {"over"} : joiner.pc # "over" /\ joiner' = [joiner EXCEPT !.pc = pc]
    BY <1>3
  <2>2. [joiner EXCEPT !.pc = pc] \in Threads
    BY <1>1, ThreadSet
  <2> QED
    BY <2>1, <2>2 DEF GoesAbout, Threads
<1>4. CASE NextAttempt \/ StartThread \/ Joined
  BY <1>3, <1>4 DEF NextAttempt, StartThread, Joined, JoinPcs
<1>5. CASE OpenBrowser
  <2> DEFINE k == [joiner EXCEPT !.pc = "trying"]
  <2>1. k \in Threads /\ joiner.pc # "over"
    BY <1>1, <1>5, ThreadSet DEF JoinPcs, OpenBrowser
  <2>2. k.platform = joiner.platform /\ k.expected = joiner.expected
    BY <1>1 DEF Threads
  <2>3. joiner' = [k EXCEPT !.stage = 1]
    BY <1>5 DEF OpenBrowser
  <2> HIDE DEF k
  <2>4. [k EXCEPT !.stage = 1] \in Threads
    <3>1. 1 \in 1 .. 8
      OBVIOUS
    <3> QED
      BY <2>1, <3>1, ThreadSet
  <2> QED
    BY <1>1, <2>1, <2>2, <2>3, <2>4 DEF GoesAbout, Threads
<1>6. CASE StageDone
  <2>1. CASE joiner' = [joiner EXCEPT !.pc = "joined"]
    BY <1>3, <1>6, <2>1 DEF StageDone, JoinPcs
  <2>2. CASE joiner.stage # Len(Stages[joiner.platform]) /\ joiner' = [joiner EXCEPT !.stage = @ + 1]
    <3>0. PICK n \in 1 .. 8 : n = Len(Stages[joiner.platform])
      BY <1>1
    <3>a. joiner.stage \in 1 .. 8 /\ joiner.stage <= n /\ joiner.stage # n
      BY <1>1, <2>2, <3>0
    <3>b. joiner.stage + 1 \in 1 .. 8 /\ joiner.stage + 1 <= n
      BY <3>a
    <3>1. joiner.stage + 1 \in 1 .. 8 /\ joiner.stage + 1 <= Len(Stages[joiner.platform])
      BY <3>0, <3>b
    <3>2. [joiner EXCEPT !.stage = joiner.stage + 1] \in Threads
      BY <1>1, <3>1, ThreadSet
    <3> QED
      BY <2>2, <3>1, <3>2 DEF GoesAbout, Threads
  <2> QED
    BY <1>6, <2>1, <2>2 DEF StageDone
<1>7. CASE HostUserOverdue
  <2>1. [joiner EXCEPT !.hostUser = "overdue"] \in Threads
    BY <1>1, ThreadSet
  <2> QED
    BY <1>7, <2>1 DEF HostUserOverdue, GoesAbout, Threads
<1>8. CASE joiner' = joiner
  BY <1>8
<1> QED
  BY <1>2, <1>4, <1>5, <1>6, <1>7, <1>8 DEF JoinNext, JoinThread, PageSpeaks, CloseBrowser, Admitted, MeetsOthers, RemovedOrEnded,
     PageFails, MayRecord, MayNotRecord, Leave, CleanUp, AutoLeaveDue, HandlesMessage, joinVars

\* An attempt to join is one of a bounded number, of each kind of exception that is
\* counted, and at a stage of the platform, for any bounds: max_retries, the generic
\* errors of Zoom's web client, and the expected exceptions, after so many of which
\* the thread asks for a new pod and is over (repeatedly_attempt_to_join_meeting).
THEOREM JoinTypeCorrect == JoinSpec => []JoinTypeOK
<1>1. JoinInit => GoesAbout(joiner) /\ page \in [driver : {"none", "open", "closed"}, inside : BOOLEAN, met : BOOLEAN]
  <2> SUFFICES ASSUME JoinInit PROVE GoesAbout(joiner) /\ page \in [driver : {"none", "open", "closed"}, inside : BOOLEAN, met : BOOLEAN]
    OBVIOUS
  <2>1. joiner \in Threads
    BY MeetingJoinAssumption DEF JoinInit, Threads, JoinPcs
  <2>2. joiner.stage = 1 /\ joiner.expected = 0 /\ Len(Stages[joiner.platform]) \in 1 .. 8
    BY <2>1, StageCounts DEF JoinInit, Threads
  <2>3. joiner.stage <= Len(Stages[joiner.platform])
    <3>1. \A n \in 1 .. 8 : 1 <= n
      OBVIOUS
    <3> QED
      BY <2>2, <3>1, Zenon
  <2>4. joiner.expected < ExpectedPerRestart
    BY <2>2, MeetingJoinAssumption
  <2>5. page \in [driver : {"none", "open", "closed"}, inside : BOOLEAN, met : BOOLEAN]
    BY DEF JoinInit
  <2> QED
    BY <2>1, <2>3, <2>4, <2>5 DEF GoesAbout
<1>2. GoesAbout(joiner) /\ [JoinNext]_joinVars => GoesAbout(joiner)'
  BY JoinNextGoesAbout
<1>3. page \in [driver : {"none", "open", "closed"}, inside : BOOLEAN, met : BOOLEAN] /\ [JoinNext]_joinVars
        => (page \in [driver : {"none", "open", "closed"}, inside : BOOLEAN, met : BOOLEAN])'
  BY DEF JoinNext, JoinThread, Raising, RaisesFatal, RaisesLoginRequired, RaisesExpected, RaisesBlocked,
     RaisesNoHostUser, RaisesGenericError, Fails, NextAttempt, CloseBrowser, OpenBrowser, StageDone, Joined,
     PageSpeaks, Admitted, MeetsOthers, RemovedOrEnded, PageFails, MayRecord, MayNotRecord, HostUserOverdue,
     StartThread, Leave, CleanUp, AutoLeaveDue, HandlesMessage, joinVars
<1>4. GoesAbout(joiner) /\ JoinInv /\ page \in [driver : {"none", "open", "closed"}, inside : BOOLEAN, met : BOOLEAN] => JoinTypeOK
  BY DEF GoesAbout, Threads, JoinPcs, JoinInv, Webs, Messages, JoinTypeOK
<1>5. JoinInv /\ [JoinNext]_joinVars => JoinInv'
  BY JoinNextStep, JoinStepKeeps
<1> QED
  BY <1>1, <1>2, <1>3, <1>4, <1>5, JoinStarts, PTL DEF JoinSpec
=============================================================================
