---------------------------- MODULE AtomicLedger ----------------------------
(***************************************************************************)
(* What CreditTransactionManager.create_transaction promises: although     *)
(* many processes read, insert, save and retry, an organisation's credits  *)
(* change in one indivisible step, which enters a charge, a payment or an  *)
(* adjustment and adds its amount to the balance of that moment; a charge  *)
(* for a bot and a payment are entered once. CreditLedger, where a call is *)
(* a sequence of reads and writes and may fail at each, implements this.   *)
(***************************************************************************)
EXTENDS Integers, Sequences

CONSTANTS Jobs, Adjustment, Amount, InitialBalance

VARIABLES
    entries,  \* what was charged, paid or adjusted, in the order of its entry
    balance   \* Organization.centicredits

account == <<entries, balance>>

AtomicInit == entries = <<>> /\ balance = InitialBalance

\* One whole create_transaction that succeeds.
Enter(j) ==
    /\ j = Adjustment \/ \A i \in DOMAIN entries : entries[i] # j
    /\ entries' = Append(entries, j)
    /\ balance' = balance + Amount[j]

AtomicNext == \E j \in Jobs : Enter(j)

AtomicSpec == AtomicInit /\ [][AtomicNext]_account
=============================================================================
