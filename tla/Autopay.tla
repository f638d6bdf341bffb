------------------------------- MODULE Autopay -------------------------------
(***************************************************************************)
(* Autopay: when an organisation is low on credits, the scheduler queues   *)
(* autopay_charge, which charges the customer through Stripe; Stripe's     *)
(* webhook credits the organisation. A charge that fails is recorded on    *)
(* the organisation and stops autopay until the customer changes the       *)
(* payment method (src/bots/tasks/autopay_charge_task.py,                  *)
(* src/bots/management/commands/run_scheduler.py, src/bots/stripe_utils.py *)
(* and the billing page in src/bots/projects_views.py).                    *)
(*                                                                         *)
(* Every one of them saves the whole Organization row from a copy, under   *)
(* its version; as in CreditLedger, fresh copies stand for the version.    *)
(***************************************************************************)
EXTENDS Naturals

CONSTANTS
    Charges,          \* the autopay_charge tasks, by their Celery id
    MaxChargeRetries  \* max_retries of autopay_charge

ASSUME ChargeRetriesAssumption == MaxChargeRetries \in Nat

\* The writers that are not tasks have names of their own.
ASSUME WriterNames == Charges \cap {"scheduler", "page", "hook"} = {}

\* The writers of the row: the tasks, the scheduler, the billing page, Stripe's
\* webhooks.
Writers == Charges \cup {"scheduler", "page", "hook"}

VARIABLES
    org,      \* the Organization row
    orgCopy,  \* each writer's copy of it
    orgFresh, \* the writers whose copy has the row's version
    busy,     \* what each writer that is not a task is doing
    charge,   \* the tasks: where they are, retries, PaymentIntents made
    intent    \* the PaymentIntent of each task's idempotency key

autopayVars == <<org, orgCopy, orgFresh, busy, charge, intent>>

\* low: centicredits below the threshold; failed: autopay_charge_failure_data;
\* enqueued: autopay_charge_task_enqueued_at, more than a day ago or not.
Orgs == [low : BOOLEAN, enabled : BOOLEAN, failed : BOOLEAN, enqueued : {"never", "recently", "stale"}]

NoCharge == [pc |-> "none", retries |-> 0, made |-> 0]

\* What is in the copy of a writer that has none.
NoCopy == [low |-> FALSE, enabled |-> FALSE, failed |-> FALSE, enqueued |-> "never"]

AutopayTypeOK ==
    /\ org \in Orgs
    /\ orgCopy \in [Writers -> Orgs]
    /\ orgFresh \subseteq Writers
    /\ busy \in [{"scheduler", "page", "hook"} -> {"idle", "enqueue", "toggle", "reset", "clear"}]
    /\ charge \in [Charges -> [pc : {"none", "queued", "charging", "failing"},
                               retries : 0 .. MaxChargeRetries, made : Nat]]
    /\ intent \in [Charges -> {"none", "processing", "succeeded", "credited"}]

AutopayInit ==
    /\ org = [low |-> FALSE, enabled |-> TRUE, failed |-> FALSE, enqueued |-> "never"]
    /\ orgCopy = [w \in Writers |-> NoCopy]
    /\ orgFresh = {}
    /\ busy = [w \in {"scheduler", "page", "hook"} |-> "idle"]
    /\ charge = [t \in Charges |-> NoCharge]
    /\ intent = [t \in Charges |-> "none"]

-----------------------------------------------------------------------------
Load(w) ==
    /\ orgCopy' = [orgCopy EXCEPT ![w] = org]
    /\ orgFresh' = orgFresh \cup {w}

Unload(w) ==
    /\ orgCopy' = [orgCopy EXCEPT ![w] = NoCopy]
    /\ orgFresh' = orgFresh \ {w}

\* Mutant of SaveOrganization: the version is not compared.
SaveUnversioned(w, row) ==
    /\ org' = row
    /\ orgFresh' = {}
    /\ orgCopy' = [orgCopy EXCEPT ![w] = NoCopy]

\* organization.save(): every column, if the version is the one that was read.
SaveOrganization(w, row) ==
    /\ w \in orgFresh
    /\ org' = row
    /\ orgFresh' = {}
    /\ orgCopy' = [orgCopy EXCEPT ![w] = NoCopy]

\* Another change of the row: nobody's copy is current any more.
Update(row) == org' = row /\ orgFresh' = {}

Become(w, what) == busy' = [busy EXCEPT ![w] = what]

\* RecordModifiedError ends a request, or the scheduler's cycle.
OrganizationConflict(w) ==
    /\ busy[w] # "idle" /\ w \notin orgFresh
    /\ Become(w, "idle")
    /\ Unload(w)
    /\ UNCHANGED <<org, charge, intent>>

-----------------------------------------------------------------------------
\* The query of _run_autopay_tasks.
IsDue(o) == o.enabled /\ o.low /\ ~o.failed /\ o.enqueued # "recently"

FindDue ==
    /\ busy["scheduler"] = "idle" /\ IsDue(org)
    /\ Become("scheduler", "enqueue")
    /\ Load("scheduler")
    /\ UNCHANGED <<org, charge, intent>>

\* enqueue_autopay_charge_task: the save, delay and the commit; the scheduler
\* may die when the task is queued and the save not yet committed.
EnqueueCharge(t) ==
    /\ busy["scheduler"] = "enqueue" /\ charge[t] = NoCharge /\ intent[t] \in {"none", "credited"}
    /\ \/ SaveOrganization("scheduler", [orgCopy["scheduler"] EXCEPT !.enqueued = "recently"])
       \/ "scheduler" \in orgFresh /\ Unload("scheduler") /\ UNCHANGED org
    /\ Become("scheduler", "idle")
    /\ charge' = [charge EXCEPT ![t].pc = "queued"]
    /\ intent' = [intent EXCEPT ![t] = "none"]

\* The copies hold the same date.
DayPasses ==
    /\ org.enqueued = "recently"
    /\ org' = [org EXCEPT !.enqueued = "stale"]
    /\ orgCopy' = [w \in Writers |-> IF orgCopy[w].enqueued = "recently"
                                    THEN [orgCopy[w] EXCEPT !.enqueued = "stale"] ELSE orgCopy[w]]
    /\ UNCHANGED <<orgFresh, busy, charge, intent>>

-----------------------------------------------------------------------------
End(t) == charge' = [charge EXCEPT ![t] = NoCharge]

\* The task reads the organisation and returns early, or goes on to charge.
StartCharge(t) ==
    /\ charge[t].pc = "queued"
    /\ IF org.enabled /\ org.low
         THEN Load(t) /\ charge' = [charge EXCEPT ![t].pc = "charging"]
         ELSE End(t) /\ UNCHANGED <<orgCopy, orgFresh>>
    /\ UNCHANGED <<org, busy, intent>>

\* Mutant of NewIntent: no idempotency key.
NewIntentAlways(t) == TRUE

\* idempotency_key=self.request.id: the same for every run of one task.
NewIntent(t) == intent[t] = "none"

\* No payment method, a declined card, an invalid request.
ChargeFails(t) ==
    /\ charge[t].pc = "charging"
    /\ charge' = [charge EXCEPT ![t].pc = "failing"]
    /\ UNCHANGED <<org, orgCopy, orgFresh, busy, intent>>

\* Stripe's temporary errors: the task runs again with the same id, or gives up.
RetryCharge(t, made) ==
    charge' = [charge EXCEPT ![t] =
        IF @.retries < MaxChargeRetries THEN [pc |-> "queued", retries |-> @.retries + 1, made |-> made]
                                        ELSE NoCharge]

\* PaymentIntent.create: it succeeds, or is not through yet, which counts as
\* failed; or the request or its answer is lost, or the worker dies.
CreateIntent(t) ==
    /\ charge[t].pc = "charging"
    /\ \/ /\ NewIntent(t)
          /\ \E outcome \in {"processing", "succeeded"} : intent' = [intent EXCEPT ![t] = outcome]
       \/ UNCHANGED intent
    /\ LET made == IF intent'[t] # "none" /\ NewIntent(t) THEN charge[t].made + 1 ELSE charge[t].made IN
         \/ intent'[t] \in {"succeeded", "credited"} /\ End(t) /\ Unload(t)
         \/ /\ intent'[t] = "processing"
            /\ charge' = [charge EXCEPT ![t].pc = "failing", ![t].made = made]
            /\ UNCHANGED <<orgCopy, orgFresh>>
         \/ RetryCharge(t, made) /\ Unload(t)
    /\ UNCHANGED <<org, busy>>

\* autopay_charge_failure_data is saved; a conflict ends the task without it.
RecordFailure(t) ==
    /\ charge[t].pc = "failing"
    /\ \/ SaveOrganization(t, [orgCopy[t] EXCEPT !.failed = TRUE])
       \/ t \notin orgFresh /\ Unload(t) /\ UNCHANGED org
    /\ End(t)
    /\ UNCHANGED <<busy, intent>>

-----------------------------------------------------------------------------
\* Stripe: a payment under way gets through in the end.
IntentSettles(t) ==
    /\ intent[t] = "processing"
    /\ intent' = [intent EXCEPT ![t] = "succeeded"]
    /\ UNCHANGED <<org, orgCopy, orgFresh, busy, charge>>

\* process_payment_intent_succeeded: CreditTransactionManager credits the
\* organisation, leaving the handler with a current copy.
CreditPayment(t) ==
    /\ intent[t] = "succeeded" /\ busy["hook"] = "idle"
    /\ intent' = [intent EXCEPT ![t] = "credited"]
    /\ org' = [org EXCEPT !.low = FALSE]
    /\ orgCopy' = [orgCopy EXCEPT !["hook"] = org']
    /\ orgFresh' = {"hook"}
    /\ Become("hook", "clear")
    /\ UNCHANGED charge

\* Then it clears the failure and saves again.
ClearFailure ==
    /\ busy["hook"] = "clear"
    /\ SaveOrganization("hook", [orgCopy["hook"] EXCEPT !.failed = FALSE])
    /\ Become("hook", "idle")
    /\ UNCHANGED <<charge, intent>>

\* process_customer_updated, for a new default payment method.
CustomerUpdated ==
    /\ busy["hook"] = "idle" /\ org.failed
    /\ Load("hook")
    /\ Become("hook", "reset")
    /\ UNCHANGED <<org, charge, intent>>

ResetAutopay ==
    /\ busy["hook"] = "reset"
    /\ SaveOrganization("hook", [orgCopy["hook"] EXCEPT !.failed = FALSE, !.enqueued = "never"])
    /\ Become("hook", "idle")
    /\ UNCHANGED <<charge, intent>>

\* The billing page loads the organisation and saves its settings.
OpenBillingPage ==
    /\ busy["page"] = "idle"
    /\ Load("page")
    /\ Become("page", "toggle")
    /\ UNCHANGED <<org, charge, intent>>

SaveAutopaySettings ==
    /\ busy["page"] = "toggle"
    /\ SaveOrganization("page", [orgCopy["page"] EXCEPT !.enabled = ~@])
    /\ Become("page", "idle")
    /\ UNCHANGED <<charge, intent>>

\* A bot is charged for: the balance falls below the threshold.
SpendCredits ==
    /\ ~org.low
    /\ Update([org EXCEPT !.low = TRUE])
    /\ UNCHANGED <<orgCopy, busy, charge, intent>>

ChargeStep(t) == StartCharge(t) \/ ChargeFails(t) \/ CreateIntent(t) \/ RecordFailure(t)

SchedulerStep ==
    \/ FindDue \/ OrganizationConflict("scheduler")
    \/ \E t \in Charges : EnqueueCharge(t)

StripeStep(t) == IntentSettles(t) \/ CreditPayment(t)

HookStep == ClearFailure \/ ResetAutopay \/ OrganizationConflict("hook")

AutopayNext ==
    \/ SchedulerStep \/ DayPasses \/ HookStep
    \/ \E t \in Charges : ChargeStep(t) \/ StripeStep(t)
    \/ CustomerUpdated \/ OpenBillingPage \/ SaveAutopaySettings \/ OrganizationConflict("page")
    \/ SpendCredits

AutopaySpec == AutopayInit /\ [][AutopayNext]_autopayVars

-----------------------------------------------------------------------------
\* However often a task runs, because Stripe did not answer or its worker died,
\* it makes one payment: the idempotency key is the task's.
OnePaymentPerTask == \A t \in Charges : charge[t].made <= 1

\* A recorded failure stays until the customer changes the payment method or a
\* payment gets through: no other save of the row, from an older copy, undoes it,
\* and no task is queued meanwhile.
FailureHolds ==
    /\ org.failed /\ ~org'.failed => busy["hook"] \in {"reset", "clear"} /\ busy'["hook"] = "idle"
    /\ \A t \in Charges : charge[t].pc = "none" /\ charge'[t].pc = "queued" => ~org.failed

\* Autopay is tried when that can help, and then again and again: never while a
\* failure is recorded, and an organisation that stays low on credits, with
\* autopay on and no failure recorded, does not wait for a task for ever.
AutopayTriedWhenItHelps ==
    /\ [][FailureHolds]_autopayVars
    /\ []<>(\/ ~org.low \/ ~org.enabled \/ org.failed
            \/ \E t \in Charges : charge[t].pc # "none" \/ intent[t] \in {"processing", "succeeded"})
=============================================================================
