---------------------------- MODULE CreditLedger ----------------------------
(***************************************************************************)
(* An organisation's credits: the chain of CreditTransaction rows and the  *)
(* balance on the Organization row, written by concurrent calls of         *)
(* CreditTransactionManager.create_transaction (src/bots/models.py) from   *)
(* the hook that charges a bot, from Stripe's webhooks and from the admin  *)
(* page, while other requests save the same Organization row.              *)
(*                                                                         *)
(* PostgreSQL at READ COMMITTED: a query sees the committed rows; an       *)
(* INSERT waits for an open transaction that inserted the same unique key; *)
(* an UPDATE waits for the row's lock and then compares the version. As in *)
(* BotLifecycle the version is kept as the set of workers whose copy of    *)
(* the Organization row is the current one (fresh).                        *)
(***************************************************************************)
EXTENDS Integers, Sequences

CONSTANTS
    Workers,        \* the processes
    Bots,           \* bots to charge for
    Payments,       \* Stripe payment intents to credit
    Adjustment,     \* a transaction entered by an administrator
    Amount,         \* the centicredits each of these adds
    InitialBalance, \* Organization.centicredits of a new organisation
    MaxRetries,     \* create_transaction's max_retries
    MaxRows         \* bound: no adjustment starts once the chain is this long

Jobs == Bots \cup Payments \cup {Adjustment}

ASSUME AmountAssumption == Amount \in [Jobs -> Int] /\ InitialBalance \in Int
ASSUME RetriesAssumption == MaxRetries \in Nat \ {0}

VARIABLES
    ledger,   \* the committed CreditTransaction rows in the order of their ids
    balance,  \* Organization.centicredits, committed
    answered, \* payments whose webhook was answered, with status 200
    pc,       \* where each worker is
    job,      \* what each worker adds
    seen,     \* organization.centicredits in each worker's memory
    leaf,     \* the leaf transaction each worker found (0: none)
    fresh,    \* workers whose copy of the Organization row is current
    tries     \* retry_count of each worker

locals == <<pc, job, seen, leaf, fresh, tries>>
vars == <<ledger, balance, answered, locals>>

Row == [parent : Nat, before : Int, after : Int, job : Jobs]
PCs == {"idle", "readOrg", "findLeaf", "insert", "saveOrg", "commit", "settings"}

TypeOK ==
    /\ ledger \in Seq(Row)
    /\ balance \in Int
    /\ answered \subseteq Payments
    /\ pc \in [Workers -> PCs]
    /\ job \in [Workers -> Jobs]
    /\ seen \in [Workers -> Int]
    /\ leaf \in [Workers -> Nat]
    /\ fresh \subseteq Workers
    /\ tries \in [Workers -> 0 .. MaxRetries - 1]

Init ==
    /\ ledger = <<>>
    /\ balance = InitialBalance
    /\ answered = {}
    /\ pc = [w \in Workers |-> "idle"]
    /\ job = [w \in Workers |-> Adjustment]
    /\ seen = [w \in Workers |-> 0]
    /\ leaf = [w \in Workers |-> 0]
    /\ fresh = {}
    /\ tries = [w \in Workers |-> 0]

-----------------------------------------------------------------------------
Recorded(j) == \E i \in 1 .. Len(ledger) : ledger[i].job = j
HasChild(i) == \E k \in 1 .. Len(ledger) : ledger[k].parent = i

Goto(w, label) == pc' = [pc EXCEPT ![w] = label]

\* A worker's rows are inserted, though not yet committed.
Inserted(w) == pc[w] \in {"saveOrg", "commit"}

\* The partial unique constraints on (parent_transaction), with one root for
\* the organisation, on (bot) and on (stripe_payment_intent_id).
SameKey(p, j, q, k) == p = q \/ (j = k /\ j # Adjustment)

Duplicate(w) ==
    \E i \in 1 .. Len(ledger) : SameKey(leaf[w], job[w], ledger[i].parent, ledger[i].job)

InsertBlocked(w) ==
    \E v \in Workers \ {w} : Inserted(v) /\ SameKey(leaf[w], job[w], leaf[v], job[v])

OrgLocked == \E v \in Workers : pc[v] = "commit"

\* The call is over, whatever its result; a webhook is answered 200 even when
\* the handler returned an error response, which the view drops.
Return(w) ==
    /\ Goto(w, "idle")
    /\ job' = [job EXCEPT ![w] = Adjustment]
    /\ seen' = [seen EXCEPT ![w] = 0]
    /\ leaf' = [leaf EXCEPT ![w] = 0]
    /\ tries' = [tries EXCEPT ![w] = 0]

Finish(w) ==
    /\ Return(w)
    /\ answered' = answered \cup ({job[w]} \cap Payments)

-----------------------------------------------------------------------------
\* Callers. The bot's row is locked by its create_event, which charges only
\* on the way out of the session, so a bot has one charge at a time at most.
\* Both Stripe paths look first whether the payment has been recorded.
Start(w, j) ==
    /\ pc[w] = "idle"
    /\ j \in Bots \cup Payments => ~Recorded(j)
    /\ j \in Bots => \A v \in Workers : pc[v] = "idle" \/ job[v] # j
    /\ j = Adjustment => Len(ledger) < MaxRows
    /\ Goto(w, "readOrg")
    /\ job' = [job EXCEPT ![w] = j]
    /\ UNCHANGED <<ledger, balance, answered, seen, leaf, fresh, tries>>

\* organization.refresh_from_db()
ReadOrg(w) ==
    /\ pc[w] = "readOrg"
    /\ Goto(w, "findLeaf")
    /\ seen' = [seen EXCEPT ![w] = balance]
    /\ fresh' = fresh \cup {w}
    /\ UNCHANGED <<ledger, balance, answered, job, leaf, tries>>

\* The first transaction without children, if there is one.
FindLeaf(w) ==
    /\ pc[w] = "findLeaf"
    /\ \/ /\ ledger = <<>>
          /\ leaf' = [leaf EXCEPT ![w] = 0]
       \/ \E i \in 1 .. Len(ledger) :
            /\ ~HasChild(i)
            /\ \A k \in 1 .. i - 1 : HasChild(k)
            /\ leaf' = [leaf EXCEPT ![w] = i]
    /\ Goto(w, "insert")
    /\ UNCHANGED <<ledger, balance, answered, job, seen, fresh, tries>>

\* CreditTransaction.objects.create
Insert(w) ==
    /\ pc[w] = "insert"
    /\ ~InsertBlocked(w)
    /\ ~Duplicate(w)
    /\ Goto(w, "saveOrg")
    /\ UNCHANGED <<ledger, balance, answered, job, seen, leaf, fresh, tries>>

InsertConflictForEver(w) ==
    /\ pc[w] = "insert"
    /\ ~InsertBlocked(w)
    /\ Duplicate(w)
    /\ fresh' = fresh \ {w}
    /\ Goto(w, "readOrg")
    /\ UNCHANGED <<ledger, balance, answered, job, seen, leaf, tries>>

\* IntegrityError: again, from the read of the organisation, or RuntimeError.
InsertConflict(w) ==
    /\ pc[w] = "insert"
    /\ ~InsertBlocked(w)
    /\ Duplicate(w)
    /\ fresh' = fresh \ {w}
    /\ IF tries[w] + 1 < MaxRetries
         THEN /\ tries' = [tries EXCEPT ![w] = @ + 1]
              /\ Goto(w, "readOrg")
              /\ UNCHANGED <<answered, job, seen, leaf>>
         ELSE Finish(w)
    /\ UNCHANGED <<ledger, balance>>

\* Mutant of SaveOrg: the version is not compared.
SaveOrgUnchecked(w) ==
    /\ pc[w] = "saveOrg"
    /\ ~OrgLocked
    /\ Goto(w, "commit")
    /\ UNCHANGED <<ledger, balance, answered, job, seen, leaf, fresh, tries>>

\* organization.save() finds the version it read.
SaveOrg(w) ==
    /\ pc[w] = "saveOrg"
    /\ ~OrgLocked
    /\ w \in fresh
    /\ Goto(w, "commit")
    /\ UNCHANGED <<ledger, balance, answered, job, seen, leaf, fresh, tries>>

\* organization.save() finds another version: RecordModifiedError, which the
\* retry loop does not catch.
SaveOrgConflict(w) ==
    /\ pc[w] = "saveOrg"
    /\ ~OrgLocked
    /\ w \notin fresh
    /\ Finish(w)
    /\ UNCHANGED <<ledger, balance, fresh>>

\* The transaction, or the outer one of create_event, commits. The handler of
\* an autopay payment then saves the organisation once more, without its
\* failure data.
Commit(w) ==
    /\ pc[w] = "commit"
    /\ LET new == seen[w] + Amount[job[w]] IN
         /\ ledger' = Append(ledger, [parent |-> leaf[w], before |-> seen[w],
                                      after |-> new, job |-> job[w]])
         /\ balance' = new
         /\ \/ fresh' = {} /\ Finish(w)
            \/ /\ job[w] \in Payments
               /\ Goto(w, "settings")
               /\ seen' = [seen EXCEPT ![w] = new]
               /\ fresh' = {w}
               /\ UNCHANGED <<answered, job, leaf, tries>>

-----------------------------------------------------------------------------
\* Another request reads the organisation, to save one of its settings later:
\* a save writes every column back.
ReadSettings(w) ==
    /\ pc[w] = "idle"
    /\ Goto(w, "settings")
    /\ seen' = [seen EXCEPT ![w] = balance]
    /\ fresh' = fresh \cup {w}
    /\ UNCHANGED <<ledger, balance, answered, job, leaf, tries>>

SaveSettings(w) ==
    /\ pc[w] = "settings"
    /\ ~OrgLocked
    /\ w \in fresh
    /\ balance' = seen[w]
    /\ fresh' = {}
    /\ Finish(w)
    /\ UNCHANGED ledger

SettingsConflict(w) ==
    /\ pc[w] = "settings"
    /\ ~OrgLocked
    /\ w \notin fresh
    /\ Finish(w)
    /\ UNCHANGED <<ledger, balance, fresh>>

\* The process dies: its transaction is rolled back, no answer is sent.
Crash(w) ==
    /\ pc[w] # "idle"
    /\ Return(w)
    /\ fresh' = fresh \ {w}
    /\ UNCHANGED <<ledger, balance, answered>>

Step(w) ==
    \/ ReadOrg(w) \/ FindLeaf(w) \/ Insert(w) \/ InsertConflict(w)
    \/ SaveOrg(w) \/ SaveOrgConflict(w) \/ Commit(w)
    \/ SaveSettings(w) \/ SettingsConflict(w)

Next ==
    \E w \in Workers :
       \/ \E j \in Jobs : Start(w, j)
       \/ ReadSettings(w) \/ Step(w) \/ Crash(w)

Spec == Init /\ [][Next]_vars

FairSpec == Spec /\ \A w \in Workers : SF_vars(Step(w))

-----------------------------------------------------------------------------
\* The rows form one chain, each continuing from the balance its parent left,
\* and the balance on the organisation is that of the chain's end: no charge
\* and no payment is lost or counted twice, although two workers read the same
\* balance and the settings pages write the balance back (create_transaction).
BalanceOf(n) == IF n = 0 THEN InitialBalance ELSE ledger[n].after

LedgerIsChain ==
    /\ \A i \in 1 .. Len(ledger) :
         /\ ledger[i].parent = i - 1
         /\ ledger[i].before = BalanceOf(i - 1)
         /\ ledger[i].after = ledger[i].before + Amount[ledger[i].job]
    /\ balance = BalanceOf(Len(ledger))

\* A bot is charged once and a payment credited once, though Stripe delivers a
\* webhook again and the success page handles the same payment.
BilledOnce ==
    \A i, k \in 1 .. Len(ledger) :
       ledger[i].job = ledger[k].job => i = k \/ ledger[i].job = Adjustment

\* The organisation's account: what was entered, and the balance. Whatever the
\* workers do in between, to it every step is one whole create_transaction or
\* nothing; a save of the settings, which writes the balance back, is nothing.
Account == INSTANCE AtomicLedger WITH entries <- [i \in 1 .. Len(ledger) |-> ledger[i].job]

ImplementsAccount == Account!AtomicSpec

\* The ledger an organisation is billed by.
LedgerIsTrue == LedgerIsChain /\ BilledOnce

\* A call comes to an end: nobody keeps a unique key or the organisation's row
\* locked, and the retries of create_transaction run out.
CallsReturn == \A w \in Workers : pc[w] # "idle" ~> pc[w] = "idle"

\* A payment whose webhook was answered with success is in the ledger: the
\* handler of a failed one returns status 400, for Stripe to deliver it again.
AnsweredIsCredited == \A p \in answered : Recorded(p)
=============================================================================
