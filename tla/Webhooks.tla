------------------------------ MODULE Webhooks ------------------------------
(***************************************************************************)
(* Webhooks: trigger_webhook creates one WebhookDeliveryAttempt row for    *)
(* each subscription, inside the caller's transaction, and queues the      *)
(* Celery task deliver_webhook when the transaction commits                *)
(* (src/bots/webhook_utils.py, src/bots/tasks/deliver_webhook_task.py).    *)
(* In production a task is acknowledged after it ran, so that a task whose *)
(* worker dies runs again.                                                 *)
(***************************************************************************)
EXTENDS Naturals

CONSTANTS
    Deliveries,        \* webhooks that may be triggered, for one subscription
    MaxPosts,       \* MAX_WEBHOOK_DELIVERY_ATTEMPTS
    MaxDeliverRetries, \* DELIVER_WEBHOOK_TASK_MAX_RETRIES
    MaxWebhookFaults   \* bound on dying workers and failing saves

ASSUME WebhookBounds == MaxPosts \in Nat \ {0} /\ MaxDeliverRetries \in Nat /\ MaxWebhookFaults \in Nat

VARIABLES
    trigger,      \* the transaction each webhook is triggered in
    delivery,     \* the committed WebhookDeliveryAttempt rows
    deliverTask,  \* the task of each delivery
    subscribed,   \* WebhookSubscription.is_active
    starved,      \* deliveries given up although nothing was ever sent
    posts,        \* requests that reached the customer's endpoint
    webhookFaults \* faults so far

webhookVars == <<trigger, delivery, deliverTask, subscribed, starved, posts, webhookFaults>>

NoDeliverTask == [pc |-> "none", retries |-> 0, count |-> 0, status |-> "PENDING"]
DeliverTasks == [pc : {"none", "queued", "sending", "saving", "acking"}, retries : 0 .. MaxDeliverRetries,
                 count : Nat, status : {"PENDING", "SUCCESS", "FAILURE"}]

WebhookTypeOK ==
    /\ trigger \in [Deliveries -> {"idle", "open", "committed", "aborted"}]
    /\ delivery \in [Deliveries -> [status : {"PENDING", "SUCCESS", "FAILURE"}, count : Nat]]
    /\ deliverTask \in [Deliveries -> DeliverTasks]
    /\ subscribed \in BOOLEAN
    /\ starved \subseteq Deliveries
    /\ posts \in [Deliveries -> Nat]
    /\ webhookFaults \in 0 .. MaxWebhookFaults

WebhookInit ==
    /\ trigger = [d \in Deliveries |-> "idle"]
    /\ delivery = [d \in Deliveries |-> [status |-> "PENDING", count |-> 0]]
    /\ deliverTask = [d \in Deliveries |-> NoDeliverTask]
    /\ subscribed = TRUE
    /\ starved = {}
    /\ posts = [d \in Deliveries |-> 0]
    /\ webhookFaults = 0

-----------------------------------------------------------------------------
Queued(n) == [NoDeliverTask EXCEPT !.pc = "queued", !.retries = n]

\* The row of an active subscription is inserted, in an open transaction.
TriggerWebhook(d) ==
    /\ trigger[d] = "idle" /\ subscribed
    /\ trigger' = [trigger EXCEPT ![d] = "open"]
    /\ UNCHANGED <<delivery, deliverTask, subscribed, starved, posts, webhookFaults>>

\* transaction.on_commit queues the task, unless the process dies first.
CommitTrigger(d) ==
    /\ trigger[d] = "open"
    /\ trigger' = [trigger EXCEPT ![d] = "committed"]
    /\ \/ deliverTask' = [deliverTask EXCEPT ![d] = Queued(0)] /\ UNCHANGED webhookFaults
       \/ /\ webhookFaults < MaxWebhookFaults
          /\ webhookFaults' = webhookFaults + 1
          /\ UNCHANGED deliverTask
    /\ UNCHANGED <<delivery, subscribed, starved, posts>>

RollbackTrigger(d) ==
    /\ trigger[d] = "open"
    /\ trigger' = [trigger EXCEPT ![d] = "aborted"]
    /\ UNCHANGED <<delivery, deliverTask, subscribed, starved, posts, webhookFaults>>

\* An administrator switches the subscription off or on.
ToggleSubscription ==
    /\ subscribed' = ~subscribed
    /\ UNCHANGED <<trigger, delivery, deliverTask, starved, posts, webhookFaults>>

-----------------------------------------------------------------------------
\* autoretry_for and self.retry: run again later, or give up.
RetryTask(d) ==
    deliverTask' = [deliverTask EXCEPT ![d] =
        IF @.retries < MaxDeliverRetries THEN Queued(@.retries + 1) ELSE NoDeliverTask]

\* The subscription was switched off: nothing is sent.
RefuseInactive(d) ==
    /\ deliverTask[d].pc = "queued" /\ ~subscribed
    /\ delivery' = [delivery EXCEPT ![d].status = "FAILURE"]
    /\ deliverTask' = [deliverTask EXCEPT ![d] = NoDeliverTask]
    /\ UNCHANGED <<trigger, subscribed, starved, posts, webhookFaults>>

\* More deliveries this second than GLOBAL_WEBHOOK_DELIVERIES_PER_SECOND_RATE_LIMIT:
\* the retry is one of those that a failed request needs.
RateLimited(d) ==
    /\ deliverTask[d].pc = "queued" /\ subscribed
    /\ RetryTask(d)
    /\ starved' = IF deliverTask[d].retries = MaxDeliverRetries /\ delivery[d].count = 0
                    THEN starved \cup {d} ELSE starved
    /\ UNCHANGED <<trigger, delivery, subscribed, posts, webhookFaults>>

\* The row is read and the attempt counted, in memory.
StartDelivery(d) ==
    /\ deliverTask[d].pc = "queued" /\ subscribed
    /\ deliverTask' = [deliverTask EXCEPT ![d].pc = "sending", ![d].count = delivery[d].count + 1]
    /\ UNCHANGED <<trigger, delivery, subscribed, starved, posts, webhookFaults>>

\* requests.post: a 2xx answer, another answer or none, or no connection.
PostWebhook(d) ==
    /\ deliverTask[d].pc = "sending"
    /\ \E result \in {"SUCCESS", "FAILURE"} :
          deliverTask' = [deliverTask EXCEPT ![d].pc = "saving", ![d].status = result]
    /\ \/ posts' = [posts EXCEPT ![d] = @ + 1]
       \/ deliverTask'[d].status = "FAILURE" /\ UNCHANGED posts
    /\ UNCHANGED <<trigger, delivery, subscribed, starved, webhookFaults>>

\* Mutant of LastAttempt: one more.
OneAttemptMore(t) == t.count > MaxPosts

LastAttempt(t) == t.count >= MaxPosts

\* delivery.save(), then the end of the task or the exception that retries it.
SaveDelivery(d) ==
    /\ deliverTask[d].pc = "saving"
    /\ delivery' = [delivery EXCEPT ![d] = [status |-> deliverTask[d].status, count |-> deliverTask[d].count]]
    /\ IF deliverTask[d].status = "SUCCESS" \/ LastAttempt(deliverTask[d])
         THEN deliverTask' = [deliverTask EXCEPT ![d].pc = "acking"]
         ELSE RetryTask(d)
    /\ UNCHANGED <<trigger, subscribed, starved, posts, webhookFaults>>

AckDelivery(d) ==
    /\ deliverTask[d].pc = "acking"
    /\ deliverTask' = [deliverTask EXCEPT ![d] = NoDeliverTask]
    /\ UNCHANGED <<trigger, delivery, subscribed, starved, posts, webhookFaults>>

\* The save raises, or the worker dies: the broker delivers the task again.
DeliveryFault(d) ==
    /\ webhookFaults < MaxWebhookFaults
    /\ webhookFaults' = webhookFaults + 1
    /\ \/ deliverTask[d].pc = "saving" /\ RetryTask(d)
       \/ /\ deliverTask[d].pc \in {"sending", "saving", "acking"}
          /\ deliverTask' = [deliverTask EXCEPT ![d] = Queued(deliverTask[d].retries)]
    /\ UNCHANGED <<trigger, delivery, subscribed, starved, posts>>

DeliverStep(d) ==
    RefuseInactive(d) \/ RateLimited(d) \/ StartDelivery(d) \/ PostWebhook(d) \/ SaveDelivery(d) \/ AckDelivery(d)

WebhookNext ==
    \/ ToggleSubscription
    \/ \E d \in Deliveries :
          \/ TriggerWebhook(d) \/ CommitTrigger(d) \/ RollbackTrigger(d)
          \/ DeliverStep(d) \/ DeliveryFault(d)

WebhookSpec == WebhookInit /\ [][WebhookNext]_webhookVars

-----------------------------------------------------------------------------
\* A committed webhook that is still pending has a task that will send it: only
\* a process that died, or a rate limit met at every retry, leaves it unsent.
PendingIsQueued ==
    \A d \in Deliveries :
       trigger[d] = "committed" /\ delivery[d].status = "PENDING" /\ deliverTask[d].pc = "none"
         => webhookFaults > 0 \/ d \in starved

\* The endpoint sees a webhook MAX_WEBHOOK_DELIVERY_ATTEMPTS times at most, and
\* once more for each request that a fault left uncounted: the attempt is saved
\* only after the request, and a redelivered task does not look at the status.
PostsAreBounded == \A d \in Deliveries : posts[d] <= MaxPosts + webhookFaults

\* What a customer's endpoint may rely on.
DeliveredWithinBounds == PendingIsQueued /\ PostsAreBounded
=============================================================================
