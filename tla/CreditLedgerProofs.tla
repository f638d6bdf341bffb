-------------------------- MODULE CreditLedgerProofs --------------------------
(***************************************************************************)
(* The credit ledger adds up, for any number of workers, bots, payments    *)
(* and adjustments and any retry bound. The version column is what makes   *)
(* the chain: a worker whose copy of the organisation is current when it   *)
(* saves has also found the end of the chain. The unique keys are what     *)
(* keep a bot and a payment from being billed twice. With both, the ledger *)
(* implements AtomicLedger: each billing is one indivisible entry.         *)
(***************************************************************************)
EXTENDS CreditLedger, TLAPS

\* A copy of the organisation that nobody has replaced since it was read holds
\* the balance, and the leaf found after that read is the end of the chain.
CopyInv(w) ==
    /\ pc[w] \in {"findLeaf", "insert", "saveOrg", "commit", "settings"} /\ w \in fresh =>
         seen[w] = balance
    /\ pc[w] \in {"insert", "saveOrg", "commit"} /\ w \in fresh => leaf[w] = Len(ledger)
    /\ pc[w] = "commit" => w \in fresh

\* The lock of the organisation's row is exclusive.
LockInv == \A v, w \in Workers : pc[v] = "commit" /\ pc[w] = "commit" => v = w

\* Rows inserted by open transactions clash neither with a committed row nor
\* with one another.
KeyInv ==
    /\ \A w \in Workers : Inserted(w) /\ job[w] # Adjustment => ~Recorded(job[w])
    /\ \A v, w \in Workers :
         Inserted(v) /\ Inserted(w) /\ job[v] = job[w] => v = w \/ job[v] = Adjustment

IInv ==
    /\ TypeOK
    /\ LedgerIsChain
    /\ BilledOnce
    /\ \A w \in Workers : CopyInv(w)
    /\ LockInv
    /\ KeyInv

LEMMA InitIInv == Init => IInv
  BY AmountAssumption, RetriesAssumption
     DEF Init, IInv, TypeOK, LedgerIsChain, BilledOnce, BalanceOf, CopyInv, LockInv, KeyInv,
         Inserted, Jobs, PCs, Row

\* The transaction without children is the last one of the chain.
LEMMA LeafIsEnd ==
    ASSUME IInv, NEW i \in 1 .. Len(ledger), ~HasChild(i)
    PROVE  i = Len(ledger)
<1>1. ledger \in Seq(Row)
  BY DEF IInv, TypeOK
<1>2. CASE i < Len(ledger)
  <2>1. i + 1 \in 1 .. Len(ledger) /\ ledger[i + 1].parent = i
    BY <1>1, <1>2 DEF IInv, LedgerIsChain
  <2> QED
    BY <2>1 DEF HasChild
<1> QED
  BY <1>1, <1>2

-----------------------------------------------------------------------------
\* A worker that has nothing inserted, and leaves the rows alone, disturbs
\* nobody: stated for every step that changes neither the ledger nor the
\* balance and makes no copy of another worker current.
LEMMA QuietStep ==
    ASSUME IInv, TypeOK',
           UNCHANGED <<ledger, balance>>,
           NEW w \in Workers,
           \A v \in Workers \ {w} :
              /\ pc'[v] = pc[v] /\ job'[v] = job[v] /\ seen'[v] = seen[v] /\ leaf'[v] = leaf[v]
              /\ v \in fresh' <=> v \in fresh,
           CopyInv(w)',
           pc'[w] = "commit" => \A v \in Workers : pc[v] # "commit",
           pc'[w] \in {"saveOrg", "commit"} => pc[w] = "saveOrg" /\ job'[w] = job[w]
    PROVE  IInv'
<1>1. LedgerIsChain' /\ BilledOnce'
  BY DEF IInv, LedgerIsChain, BalanceOf, BilledOnce
<1>2. ASSUME NEW v \in Workers PROVE CopyInv(v)'
  <2>1. CASE v # w
    BY <2>1 DEF IInv, CopyInv
  <2> QED
    BY <2>1
<1>3. LockInv'
  BY DEF IInv, LockInv
<1>4. KeyInv'
  <2>1. \A v \in Workers : Inserted(v)' => Inserted(v) /\ job'[v] = job[v]
    BY DEF Inserted
  <2> QED
    BY <2>1 DEF IInv, KeyInv, Recorded
<1> QED
  BY <1>1, <1>2, <1>3, <1>4 DEF IInv

LEMMA StartStep ==
    ASSUME IInv, NEW w \in Workers, NEW j \in Jobs, Start(w, j)
    PROVE  IInv'
<1>1. TypeOK'
  BY DEF IInv, TypeOK, Start, Goto, PCs
<1>2. CopyInv(w)'
  BY DEF IInv, TypeOK, Start, Goto, CopyInv
<1> QED
  BY <1>1, <1>2, QuietStep DEF IInv, TypeOK, Start, Goto

\* Reading the organisation, for a transaction or for its settings.
LEMMA ReadStep ==
    ASSUME IInv, NEW w \in Workers, ReadOrg(w) \/ ReadSettings(w)
    PROVE  IInv'
<1>1. TypeOK'
  BY DEF IInv, TypeOK, ReadOrg, ReadSettings, Goto, PCs
<1>2. CopyInv(w)'
  BY DEF IInv, TypeOK, ReadOrg, ReadSettings, Goto, CopyInv
<1> QED
  BY <1>1, <1>2, QuietStep DEF IInv, TypeOK, ReadOrg, ReadSettings, Goto

LEMMA FindLeafStep ==
    ASSUME IInv, NEW w \in Workers, FindLeaf(w)
    PROVE  IInv'
<1>1. leaf' = [leaf EXCEPT ![w] = Len(ledger)]
  <2>1. CASE ledger = <<>>
    BY <2>1 DEF FindLeaf, HasChild
  <2>2. CASE ledger # <<>>
    BY <2>2, LeafIsEnd DEF FindLeaf
  <2> QED
    BY <2>1, <2>2
<1>2. Len(ledger) \in Nat
  BY DEF IInv, TypeOK
<1>3. TypeOK'
  BY <1>1, <1>2 DEF IInv, TypeOK, FindLeaf, Goto, PCs
<1>4. CopyInv(w)'
  BY <1>1 DEF IInv, TypeOK, FindLeaf, Goto, CopyInv
<1> QED
  BY <1>1, <1>3, <1>4, QuietStep DEF IInv, TypeOK, FindLeaf, Goto

\* Ending a call without having changed a row.
LEMMA ReturnStep ==
    ASSUME IInv, NEW w \in Workers, Return(w), UNCHANGED <<ledger, balance>>,
           fresh' = fresh \/ fresh' = fresh \ {w},
           answered' \subseteq Payments
    PROVE  IInv'
<1>1. TypeOK'
  BY RetriesAssumption DEF IInv, TypeOK, Return, Goto, PCs, Jobs
<1>2. CopyInv(w)'
  BY DEF IInv, TypeOK, Return, Goto, CopyInv
<1> QED
  BY <1>1, <1>2, QuietStep DEF IInv, TypeOK, Return, Goto

LEMMA ConflictStep ==
    ASSUME IInv, NEW w \in Workers,
           SaveOrgConflict(w) \/ SettingsConflict(w) \/ Crash(w)
    PROVE  IInv'
<1>1. answered' \subseteq Payments
  BY DEF IInv, TypeOK, SaveOrgConflict, SettingsConflict, Crash, Finish
<1> QED
  BY <1>1, ReturnStep DEF SaveOrgConflict, SettingsConflict, Crash, Finish

LEMMA InsertConflictStep ==
    ASSUME IInv, NEW w \in Workers, InsertConflict(w)
    PROVE  IInv'
<1>1. CASE tries[w] + 1 < MaxRetries
  <2>1. /\ UNCHANGED <<ledger, balance, answered, job, seen, leaf>> /\ fresh' = fresh \ {w}
        /\ pc' = [pc EXCEPT ![w] = "readOrg"] /\ pc \in [Workers -> PCs]
        /\ tries' = [tries EXCEPT ![w] = tries[w] + 1]
    BY <1>1 DEF IInv, TypeOK, InsertConflict, Goto
  <2>2. tries' \in [Workers -> 0 .. MaxRetries - 1]
    BY <1>1, <2>1, RetriesAssumption DEF IInv, TypeOK
  <2>3. TypeOK'
    BY <2>1, <2>2 DEF IInv, TypeOK, PCs
  <2>4. CopyInv(w)'
    BY <2>1 DEF CopyInv
  <2> QED
    BY <2>1, <2>3, <2>4, QuietStep
<1>2. CASE ~(tries[w] + 1 < MaxRetries)
  <2>1. answered' \subseteq Payments
    BY <1>2 DEF IInv, TypeOK, InsertConflict, Finish
  <2> QED
    BY <1>2, <2>1, ReturnStep DEF InsertConflict, Finish
<1> QED
  BY <1>1, <1>2

LEMMA SaveOrgStep ==
    ASSUME IInv, NEW w \in Workers, SaveOrg(w)
    PROVE  IInv'
<1>1. TypeOK'
  BY DEF IInv, TypeOK, SaveOrg, Goto, PCs
<1>2. CopyInv(w)'
  BY DEF IInv, TypeOK, SaveOrg, Goto, CopyInv
<1> QED
  BY <1>1, <1>2, QuietStep DEF IInv, TypeOK, SaveOrg, Goto, OrgLocked

\* The unique constraints let a row in only if it clashes with no other.
LEMMA InsertStep ==
    ASSUME IInv, NEW w \in Workers, Insert(w)
    PROVE  IInv'
<1>1. TypeOK'
  BY DEF IInv, TypeOK, Insert, Goto, PCs
<1>2. /\ UNCHANGED <<ledger, balance, job, seen, leaf, fresh>>
      /\ pc[w] = "insert" /\ pc' = [pc EXCEPT ![w] = "saveOrg"]
  BY DEF Insert, Goto
<1>3. LedgerIsChain' /\ BilledOnce'
  BY <1>2 DEF IInv, LedgerIsChain, BalanceOf, BilledOnce
<1>4. ASSUME NEW v \in Workers PROVE CopyInv(v)'
  BY <1>2 DEF IInv, TypeOK, CopyInv
<1>5. LockInv'
  BY <1>2 DEF IInv, TypeOK, LockInv
<1>6. KeyInv'
  <2>1. job[w] # Adjustment => ~Recorded(job[w])
    BY DEF Insert, Duplicate, SameKey, Recorded
  <2>2. \A v \in Workers : Inserted(v)' <=> Inserted(v) \/ v = w
    BY <1>2 DEF IInv, TypeOK, Inserted
  <2>3. \A v \in Workers \ {w} : Inserted(v) /\ job[v] = job[w] => job[v] = Adjustment
    BY DEF Insert, InsertBlocked, SameKey
  <2> QED
    BY <1>2, <2>1, <2>2, <2>3 DEF IInv, KeyInv, Recorded
<1> QED
  BY <1>1, <1>3, <1>4, <1>5, <1>6 DEF IInv

\* A commit appends to the end of the chain, from the balance at that moment.
LEMMA CommitStep ==
    ASSUME IInv, NEW w \in Workers, Commit(w)
    PROVE  IInv'
<1> DEFINE new == seen[w] + Amount[job[w]]
           row == [parent |-> leaf[w], before |-> seen[w], after |-> new, job |-> job[w]]
<1>1. /\ seen[w] = balance /\ leaf[w] = Len(ledger)
      /\ ledger' = Append(ledger, row) /\ balance' = new
      /\ pc[w] = "commit"
  BY DEF Commit, IInv, CopyInv
<1>2. /\ ledger \in Seq(Row) /\ Len(ledger) \in Nat /\ job[w] \in Jobs
      /\ new \in Int /\ row \in Row
  BY <1>1, AmountAssumption DEF IInv, TypeOK, Row
<1>3. /\ Len(ledger') = Len(ledger) + 1
      /\ ledger'[Len(ledger) + 1] = row
      /\ \A i \in 1 .. Len(ledger) : ledger'[i] = ledger[i]
  BY <1>1, <1>2
<1>4. TypeOK'
  <2>1. ledger' \in Seq(Row) /\ balance' \in Int
    BY <1>1, <1>2
  <2>2. CASE fresh' = {} /\ Finish(w)
    BY <2>1, <2>2, RetriesAssumption DEF IInv, TypeOK, Finish, Return, Goto, PCs, Jobs
  <2>3. CASE /\ Goto(w, "settings") /\ seen' = [seen EXCEPT ![w] = new] /\ fresh' = {w}
             /\ UNCHANGED <<answered, job, leaf, tries>>
    BY <1>2, <2>1, <2>3 DEF IInv, TypeOK, Goto, PCs
  <2> QED
    BY <2>2, <2>3 DEF Commit
<1>5. LedgerIsChain'
  BY <1>1, <1>2, <1>3 DEF IInv, LedgerIsChain, BalanceOf
<1>6. job[w] # Adjustment => ~Recorded(job[w])
  BY <1>1 DEF IInv, KeyInv, Inserted
<1>7. BilledOnce'
  BY <1>2, <1>3, <1>6 DEF IInv, BilledOnce, Recorded
<1>8. \A v \in Workers \ {w} :
        pc[v] # "commit" /\ pc'[v] = pc[v] /\ job'[v] = job[v] /\ v \notin fresh'
  BY <1>1 DEF IInv, TypeOK, LockInv, Commit, Finish, Return, Goto
<1>9. pc'[w] \in {"idle", "settings"} /\ (pc'[w] = "settings" => seen'[w] = balance')
  BY <1>1 DEF IInv, TypeOK, Commit, Finish, Return, Goto
<1>10. (\A v \in Workers : CopyInv(v)') /\ LockInv'
  BY <1>8, <1>9 DEF CopyInv, LockInv
<1>11. KeyInv'
  <2>1. \A v \in Workers : Inserted(v)' => v # w /\ Inserted(v) /\ job'[v] = job[v]
    BY <1>8, <1>9 DEF Inserted
  <2>2. \A v \in Workers \ {w} : Inserted(v) /\ job[v] # Adjustment => job[v] # job[w]
    BY <1>1 DEF IInv, KeyInv, Inserted
  <2>3. \A j \in Jobs : Recorded(j)' => Recorded(j) \/ j = job[w]
    BY <1>2, <1>3 DEF Recorded
  <2> QED
    BY <2>1, <2>2, <2>3 DEF IInv, TypeOK, KeyInv
<1> QED
  BY <1>4, <1>5, <1>7, <1>10, <1>11 DEF IInv

\* Saving a setting writes back the balance that is there.
LEMMA SaveSettingsStep ==
    ASSUME IInv, NEW w \in Workers, SaveSettings(w)
    PROVE  IInv'
<1>1. UNCHANGED <<ledger, balance>> /\ fresh' = {} /\ Return(w)
  BY DEF IInv, CopyInv, SaveSettings, Finish
<1>2. TypeOK'
  BY <1>1, RetriesAssumption
     DEF IInv, TypeOK, SaveSettings, Finish, Return, Goto, PCs, Jobs
<1>3. LedgerIsChain' /\ BilledOnce'
  BY <1>1 DEF IInv, LedgerIsChain, BalanceOf, BilledOnce
<1>4. \A v \in Workers : pc'[v] # "commit" /\ v \notin fresh'
  BY <1>1 DEF IInv, TypeOK, SaveSettings, OrgLocked, Return, Goto
<1>5. \A v \in Workers : Inserted(v)' => Inserted(v) /\ job'[v] = job[v]
  BY <1>1 DEF IInv, TypeOK, Return, Goto, Inserted
<1>6. KeyInv'
  BY <1>1, <1>5 DEF IInv, KeyInv, Recorded
<1> QED
  BY <1>2, <1>3, <1>4, <1>6 DEF IInv, CopyInv, LockInv

LEMMA StepKeepsIInv == IInv /\ [Next]_vars => IInv'
<1> SUFFICES ASSUME IInv, [Next]_vars PROVE IInv'
  OBVIOUS
<1>1. CASE UNCHANGED vars
  BY <1>1 DEF vars, locals, IInv, TypeOK, LedgerIsChain, BalanceOf, BilledOnce, CopyInv,
              LockInv, KeyInv, Recorded, Inserted
<1>2. ASSUME NEW w \in Workers, Step(w) PROVE IInv'
  BY <1>2, ReadStep, FindLeafStep, InsertStep, InsertConflictStep, SaveOrgStep, ConflictStep,
     CommitStep, SaveSettingsStep
     DEF Step
<1> QED
  BY <1>1, <1>2, StartStep, ReadStep, ConflictStep DEF Next

-----------------------------------------------------------------------------
\* The rows and every worker's memory keep their types, and the retry loop of
\* create_transaction its bound.
THEOREM LedgerTypeCorrect == Spec => []TypeOK
<1>1. IInv => TypeOK
  BY DEF IInv
<1> QED
  BY <1>1, InitIInv, StepKeepsIInv, PTL DEF Spec

\* Whatever the workers interleave, the transactions form one chain that adds
\* up to the organisation's balance, and a payment that Stripe delivers again and
\* a bot whose end is charged again come to one transaction.
THEOREM LedgerCorrect == Spec => []LedgerIsTrue
<1>1. IInv => LedgerIsTrue
  BY DEF IInv, LedgerIsTrue
<1> QED
  BY <1>1, InitIInv, StepKeepsIInv, PTL DEF Spec

-----------------------------------------------------------------------------
(***************************************************************************)
(* The account: a commit, of a call whose copy is current, enters one      *)
(* transaction; all that happens before and after it leaves the account    *)
(* as it is.                                                               *)
(***************************************************************************)
Entries == [i \in 1 .. Len(ledger) |-> ledger[i].job]

LEMMA CommitEnters ==
    ASSUME IInv, NEW w \in Workers, Commit(w)
    PROVE  Account!Enter(job[w])
<1> DEFINE row == [parent |-> leaf[w], before |-> seen[w],
                   after |-> seen[w] + Amount[job[w]], job |-> job[w]]
<1>1. /\ seen[w] = balance /\ pc[w] = "commit"
      /\ ledger' = Append(ledger, row)
      /\ balance' = balance + Amount[job[w]]
  BY DEF Commit, IInv, CopyInv
<1>2. ledger \in Seq(Row) /\ Len(ledger) \in Nat /\ row \in Row /\ job[w] \in Jobs
  BY <1>1, AmountAssumption DEF IInv, TypeOK, Row
<1>3. /\ Len(ledger') = Len(ledger) + 1
      /\ ledger'[Len(ledger) + 1].job = job[w]
      /\ \A i \in 1 .. Len(ledger) : ledger'[i] = ledger[i]
  BY <1>1, <1>2
<1>4. Entries \in Seq(Jobs) /\ Len(Entries) = Len(ledger)
  <2>1. \A i \in 1 .. Len(ledger) : ledger[i].job \in Jobs
    <3>1. \A i \in 1 .. Len(ledger) : ledger[i] \in Row
      BY <1>2
    <3> QED
      BY <3>1 DEF Row
  <2>2. Entries \in [1 .. Len(ledger) -> Jobs]
    BY <2>1 DEF Entries
  <2>3. \A S, n, s : n \in Nat /\ s \in [1 .. n -> S] => s \in Seq(S) /\ Len(s) = n
    OBVIOUS
  <2> QED
    BY <1>2, <2>2, <2>3
<1>5. Entries' = Append(Entries, job[w])
  <2>1. /\ Append(Entries, job[w]) \in Seq(Jobs)
        /\ Len(Append(Entries, job[w])) = Len(ledger) + 1
        /\ Append(Entries, job[w])[Len(ledger) + 1] = job[w]
        /\ \A i \in 1 .. Len(ledger) : Append(Entries, job[w])[i] = Entries[i]
    BY <1>2, <1>4
  <2>2. Append(Entries, job[w]) = [i \in 1 .. Len(ledger) + 1 |-> Append(Entries, job[w])[i]]
    BY <2>1
  <2>3. \A i \in 1 .. Len(ledger) + 1 : Append(Entries, job[w])[i] = ledger'[i].job
    BY <1>2, <1>3, <2>1 DEF Entries
  <2> QED
    BY <1>3, <2>2, <2>3 DEF Entries
<1>6. job[w] = Adjustment \/ \A i \in DOMAIN Entries : Entries[i] # job[w]
  BY <1>1 DEF IInv, KeyInv, Inserted, Recorded, Entries
<1> QED
  BY <1>1, <1>5, <1>6 DEF Account!Enter, Entries

LEMMA OtherStepsEnterNothing ==
    ASSUME IInv, NEW w \in Workers,
           \/ \E j \in Jobs : Start(w, j)
           \/ ReadSettings(w) \/ Crash(w)
           \/ Step(w) /\ ~Commit(w)
    PROVE  UNCHANGED <<ledger, balance>>
<1>1. CASE SaveSettings(w)
  BY <1>1 DEF SaveSettings, IInv, CopyInv
<1>2. CASE InsertConflict(w)
  BY <1>2 DEF InsertConflict
<1> QED
  BY <1>1, <1>2 DEF Start, ReadSettings, Crash, Step, ReadOrg, FindLeaf, Insert, SaveOrg,
                    SaveOrgConflict, SettingsConflict

\* Whatever number of workers charge, credit, adjust, retry and save settings at
\* the same time, to the organisation's account each of their steps is one whole
\* create_transaction, made on the balance of that moment, or nothing: no update
\* is lost, none is applied twice and none is half applied.
THEOREM LedgerImplementsAccount == Spec => ImplementsAccount
<1>1. Init => Account!AtomicInit
  <2> SUFFICES ASSUME Init PROVE Account!AtomicInit
    OBVIOUS
  <2>1. ledger = <<>> /\ balance = InitialBalance
    BY DEF Init
  <2>2. [i \in 1 .. Len(ledger) |-> ledger[i].job] = <<>>
    BY <2>1
  <2> QED
    BY <2>1, <2>2 DEF Account!AtomicInit
<1>2. IInv /\ [Next]_vars => [Account!AtomicNext]_(Account!account)
  <2> SUFFICES ASSUME IInv, [Next]_vars
               PROVE  Account!AtomicNext \/ UNCHANGED Account!account
    OBVIOUS
  <2>1. UNCHANGED <<ledger, balance>> => UNCHANGED Account!account
    BY DEF Account!account
  <2>2. ASSUME NEW w \in Workers, Commit(w) PROVE Account!AtomicNext
    <3>1. job[w] \in Jobs
      BY DEF IInv, TypeOK
    <3>2. Account!Enter(job[w])
      BY <2>2, CommitEnters
    <3> QED
      BY <3>1, <3>2, Zenon DEF Account!AtomicNext, Account!Enter
  <2>3. CASE UNCHANGED vars
    BY <2>1, <2>3 DEF vars
  <2>4. CASE Next
    BY <2>1, <2>2, <2>4, OtherStepsEnterNothing DEF Next
  <2> QED
    BY <2>3, <2>4
<1> QED
  BY <1>1, <1>2, InitIInv, StepKeepsIInv, PTL DEF Spec, ImplementsAccount, Account!AtomicSpec
=============================================================================
