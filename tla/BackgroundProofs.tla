-------------------------- MODULE BackgroundProofs --------------------------
(***************************************************************************)
(* What goes on in the background, for any number of webhooks, charges,    *)
(* syncs and claims: webhooks are delivered within their bounds, a task    *)
(* pays once, a calendar never goes back to an earlier revision, a summary *)
(* dies with its transcript, and Zoom's SDK records what the row says.     *)
(***************************************************************************)
EXTENDS Webhooks, Autopay, CalendarSync, SummaryGeneration, ZoomAdapter, TLAPS

-----------------------------------------------------------------------------
(* Webhooks *)

\* Before its transaction is committed a webhook has no task, and its row is new.
NotBeforeCommit(d) ==
    trigger[d] # "committed" =>
        deliverTask[d] = NoDeliverTask /\ delivery[d].count = 0 /\ posts[d] = 0

\* A task that made a request has its result, and whatever was saved is a result.
ResultsAreSaved(d) ==
    /\ deliverTask[d].pc = "saving" => deliverTask[d].status # "PENDING"
    /\ deliverTask[d].pc = "acking" \/ delivery[d].count > 0 => delivery[d].status # "PENDING"

\* A committed webhook without a result has a task that will get one.
PendingHasTask(d) ==
    trigger[d] = "committed" /\ delivery[d].status = "PENDING" /\ deliverTask[d].pc = "none"
        => webhookFaults > 0 \/ d \in starved

\* The requests are those the row counts, the one to be saved, and one for each
\* fault.
RequestsAreCounted(d) ==
    /\ deliverTask[d].pc \in {"sending", "saving"} => deliverTask[d].count = delivery[d].count + 1
    /\ posts[d] <= delivery[d].count + webhookFaults + (IF deliverTask[d].pc = "saving" THEN 1 ELSE 0)

\* A task that will make a request may make one.
RequestsAreLeft(d) ==
    /\ posts[d] <= MaxPosts + webhookFaults
    /\ deliverTask[d].pc \in {"queued", "sending"} => posts[d] < MaxPosts + webhookFaults

DeliveryInv(d) ==
    NotBeforeCommit(d) /\ ResultsAreSaved(d) /\ PendingHasTask(d) /\ RequestsAreCounted(d) /\ RequestsAreLeft(d)

WebhookInv == WebhookTypeOK /\ \A d \in Deliveries : DeliveryInv(d)

\* A step for one delivery leaves the others' rows, tasks and requests alone.
OthersKept(d) ==
    \A e \in Deliveries \ {d} :
        /\ trigger'[e] = trigger[e] /\ delivery'[e] = delivery[e]
        /\ deliverTask'[e] = deliverTask[e] /\ posts'[e] = posts[e]

LEMMA WebhookInitially == WebhookInit => WebhookInv
BY WebhookBounds DEF WebhookInit, WebhookInv, WebhookTypeOK, DeliveryInv, NotBeforeCommit, ResultsAreSaved,
   PendingHasTask, RequestsAreCounted, RequestsAreLeft, NoDeliverTask, DeliverTasks

\* A task that waits, and none at all.
LEMMA NewTasks ==
    /\ Queued(0) \in DeliverTasks /\ NoDeliverTask \in DeliverTasks
    /\ NoDeliverTask.pc = "none"
    /\ \A n \in Nat : Queued(n).pc = "queued"
<1>1. ASSUME NEW n \in Nat PROVE Queued(n).pc = "queued"
  BY DEF Queued, NoDeliverTask
<1>2. Queued(0) \in DeliverTasks
  <2>1. ASSUME NEW n \in 0 .. MaxDeliverRetries PROVE Queued(n) \in DeliverTasks
    BY WebhookBounds DEF Queued, NoDeliverTask, DeliverTasks
  <2>2. 0 \in 0 .. MaxDeliverRetries
    BY WebhookBounds
  <2>q. QED
    BY <2>1, <2>2
<1>3. NoDeliverTask \in DeliverTasks
  BY WebhookBounds DEF NoDeliverTask, DeliverTasks
<1>q. QED
  BY <1>1, <1>2, <1>3 DEF NoDeliverTask

LEMMA TasksAreTyped ==
    ASSUME WebhookTypeOK, NEW d \in Deliveries
    PROVE  /\ NoDeliverTask \in DeliverTasks
           /\ \A n \in 0 .. MaxDeliverRetries : Queued(n) \in DeliverTasks
           /\ \A at \in {"sending", "saving", "acking"} : [deliverTask[d] EXCEPT !.pc = at] \in DeliverTasks
           /\ RetryTask(d) => deliverTask' \in [Deliveries -> DeliverTasks]
<1>1. NoDeliverTask \in DeliverTasks
  BY WebhookBounds DEF NoDeliverTask, DeliverTasks
<1>2. ASSUME NEW n \in 0 .. MaxDeliverRetries PROVE Queued(n) \in DeliverTasks
  BY WebhookBounds DEF Queued, NoDeliverTask, DeliverTasks
<1>3. deliverTask[d] \in DeliverTasks
  BY DEF WebhookTypeOK
<1>4. ASSUME NEW at \in {"sending", "saving", "acking"} PROVE [deliverTask[d] EXCEPT !.pc = at] \in DeliverTasks
  BY <1>3 DEF DeliverTasks
<1>5. deliverTask[d].retries < MaxDeliverRetries => deliverTask[d].retries + 1 \in 0 .. MaxDeliverRetries
  BY <1>3, WebhookBounds DEF DeliverTasks
<1>6. ASSUME RetryTask(d) PROVE deliverTask' \in [Deliveries -> DeliverTasks]
  BY <1>1, <1>2, <1>5, <1>6 DEF RetryTask, WebhookTypeOK
<1>q. QED
  BY <1>1, <1>2, <1>4, <1>6

LEMMA WebhookStepsAreTyped ==
    ASSUME WebhookTypeOK, WebhookNext
    PROVE  WebhookTypeOK'
<1> USE WebhookBounds DEF WebhookTypeOK
<1>1. CASE ToggleSubscription
  BY <1>1 DEF ToggleSubscription
<1>2. ASSUME NEW d \in Deliveries, TriggerWebhook(d) \/ RollbackTrigger(d) PROVE WebhookTypeOK'
  BY <1>2 DEF TriggerWebhook, RollbackTrigger
<1>3. ASSUME NEW d \in Deliveries, CommitTrigger(d) PROVE WebhookTypeOK'
  <2>1. Queued(0) \in DeliverTasks
    BY NewTasks
  <2>2. deliverTask' \in [Deliveries -> DeliverTasks]
    BY <1>3, <2>1 DEF CommitTrigger
  <2>3. webhookFaults' \in 0 .. MaxWebhookFaults
    BY <1>3 DEF CommitTrigger
  <2>q. QED
    BY <1>3, <2>2, <2>3 DEF CommitTrigger
<1>4. ASSUME NEW d \in Deliveries, RefuseInactive(d) \/ AckDelivery(d) PROVE WebhookTypeOK'
  <2>1. NoDeliverTask \in DeliverTasks
    BY DEF NoDeliverTask, DeliverTasks
  <2>q. QED
    BY <1>4, <2>1 DEF RefuseInactive, AckDelivery
<1>5. ASSUME NEW d \in Deliveries, RateLimited(d) PROVE WebhookTypeOK'
  BY <1>5, TasksAreTyped DEF RateLimited
<1>6. ASSUME NEW d \in Deliveries, StartDelivery(d) PROVE WebhookTypeOK'
  <2>1. [deliverTask[d] EXCEPT !.pc = "sending", !.count = delivery[d].count + 1] \in DeliverTasks
    <3>1. deliverTask[d] \in DeliverTasks /\ delivery[d].count + 1 \in Nat
      OBVIOUS
    <3> HIDE DEF WebhookTypeOK
    <3>q. QED
      BY <3>1 DEF DeliverTasks
  <2>2. deliverTask' \in [Deliveries -> DeliverTasks]
    BY <1>6, <2>1 DEF StartDelivery
  <2>q. QED
    BY <1>6, <2>2 DEF StartDelivery
<1>7. ASSUME NEW d \in Deliveries, PostWebhook(d) PROVE WebhookTypeOK'
  <2>1. PICK result \in {"SUCCESS", "FAILURE"} :
          deliverTask' = [deliverTask EXCEPT ![d].pc = "saving", ![d].status = result]
    BY <1>7 DEF PostWebhook
  <2>2. [deliverTask[d] EXCEPT !.pc = "saving", !.status = result] \in DeliverTasks
    BY DEF DeliverTasks
  <2>3. deliverTask' \in [Deliveries -> DeliverTasks]
    BY <2>1, <2>2
  <2>4. posts' \in [Deliveries -> Nat]
    BY <1>7 DEF PostWebhook
  <2>q. QED
    BY <1>7, <2>3, <2>4 DEF PostWebhook
<1>8. ASSUME NEW d \in Deliveries, SaveDelivery(d) PROVE WebhookTypeOK'
  <2>1. deliverTask[d].count \in Nat /\ deliverTask[d].status \in {"PENDING", "SUCCESS", "FAILURE"}
    BY DEF DeliverTasks
  <2>2. delivery' \in [Deliveries -> [status : {"PENDING", "SUCCESS", "FAILURE"}, count : Nat]]
    BY <1>8, <2>1 DEF SaveDelivery
  <2>3. deliverTask' \in [Deliveries -> DeliverTasks]
    BY <1>8, TasksAreTyped DEF SaveDelivery
  <2>q. QED
    BY <1>8, <2>2, <2>3 DEF SaveDelivery
<1>9. ASSUME NEW d \in Deliveries, DeliveryFault(d) PROVE WebhookTypeOK'
  <2>1. deliverTask[d].retries \in 0 .. MaxDeliverRetries
    BY DEF DeliverTasks
  <2>2. deliverTask' \in [Deliveries -> DeliverTasks]
    BY <1>9, <2>1, TasksAreTyped DEF DeliveryFault
  <2>3. webhookFaults' \in 0 .. MaxWebhookFaults
    BY <1>9 DEF DeliveryFault
  <2>q. QED
    BY <1>9, <2>2, <2>3 DEF DeliveryFault
<1>q. QED
  BY <1>1, <1>2, <1>3, <1>4, <1>5, <1>6, <1>7, <1>8, <1>9 DEF WebhookNext, DeliverStep

\* The other deliveries keep their invariant: faults and starved only grow.
LEMMA OthersKeepDelivery ==
    ASSUME WebhookInv, WebhookTypeOK', NEW d \in Deliveries, OthersKept(d),
           webhookFaults' >= webhookFaults, starved \subseteq starved',
           NEW e \in Deliveries, e # d
    PROVE  DeliveryInv(e)'
BY WebhookBounds DEF WebhookInv, WebhookTypeOK, OthersKept, DeliveryInv, NotBeforeCommit, ResultsAreSaved,
   PendingHasTask, RequestsAreCounted, RequestsAreLeft

LEMMA WebhookInductive ==
    ASSUME WebhookInv, [WebhookNext]_webhookVars
    PROVE  WebhookInv'
<1> USE WebhookBounds DEF WebhookInv
<1>0. CASE UNCHANGED webhookVars
  BY <1>0 DEF webhookVars, WebhookTypeOK, DeliveryInv, NotBeforeCommit, ResultsAreSaved, PendingHasTask,
     RequestsAreCounted, RequestsAreLeft
<1>1. CASE ToggleSubscription
  BY <1>1, WebhookStepsAreTyped DEF WebhookNext, ToggleSubscription, DeliveryInv, NotBeforeCommit, ResultsAreSaved, PendingHasTask,
     RequestsAreCounted, RequestsAreLeft
<1>2. ASSUME NEW d \in Deliveries,
             TriggerWebhook(d) \/ CommitTrigger(d) \/ RollbackTrigger(d) \/ DeliverStep(d) \/ DeliveryFault(d)
      PROVE  WebhookInv'
  <2>1. WebhookTypeOK'
    BY <1>2, WebhookStepsAreTyped DEF WebhookNext
  <2>2. OthersKept(d) /\ webhookFaults' >= webhookFaults /\ starved \subseteq starved'
    BY <1>2 DEF OthersKept, TriggerWebhook, CommitTrigger, RollbackTrigger, DeliverStep, RefuseInactive, RateLimited,
       StartDelivery, PostWebhook, SaveDelivery, AckDelivery, DeliveryFault, RetryTask, WebhookTypeOK
  <2>3. DeliveryInv(d)'
    <3>0. /\ delivery[d].count \in Nat /\ posts[d] \in Nat /\ webhookFaults \in Nat
          /\ deliverTask[d].count \in Nat
          /\ deliverTask[d] \in DeliverTasks
          /\ \A task : deliverTask' = [deliverTask EXCEPT ![d] = task] => deliverTask'[d] = task
      BY DEF WebhookTypeOK, DeliverTasks
    <3>n. NoDeliverTask.pc = "none" /\ deliverTask[d].retries \in Nat
      BY <3>0, NewTasks DEF DeliverTasks
    <3>r. RetryTask(d) => \/ deliverTask'[d] = NoDeliverTask
                          \/ deliverTask'[d] = Queued(deliverTask[d].retries + 1)
      BY DEF RetryTask, WebhookTypeOK
    <3> USE <3>0, <3>n DEF DeliveryInv, NotBeforeCommit, ResultsAreSaved, PendingHasTask, RequestsAreCounted, RequestsAreLeft
    <3>1. CASE TriggerWebhook(d)
      BY <3>1 DEF TriggerWebhook, WebhookTypeOK
    <3>2. CASE CommitTrigger(d)
      <4>1. /\ deliverTask[d] = NoDeliverTask /\ delivery[d].count = 0 /\ posts[d] = 0
            /\ delivery' = delivery /\ posts' = posts /\ starved' = starved
            /\ trigger'[d] = "committed"
        BY <3>2 DEF CommitTrigger, WebhookTypeOK, NoDeliverTask, Queued
      <4>2. CASE deliverTask' = [deliverTask EXCEPT ![d] = Queued(0)] /\ webhookFaults' = webhookFaults
        <5>1. deliverTask'[d].pc = "queued"
          BY <4>2, <3>0, NewTasks
        <5>2. posts'[d] < MaxPosts + webhookFaults' /\ delivery'[d].count = 0
          BY <4>1, <4>2, WebhookBounds
        <5>q. QED
          BY <4>1, <4>2, <5>1, <5>2
      <4>3. CASE deliverTask' = deliverTask /\ webhookFaults' = webhookFaults + 1
        BY <4>1, <4>3, NewTasks
      <4>q. QED
        BY <3>2, <4>2, <4>3 DEF CommitTrigger
    <3>3. CASE RollbackTrigger(d)
      BY <3>3 DEF RollbackTrigger, WebhookTypeOK
    <3>4. CASE RefuseInactive(d)
      BY <3>4 DEF RefuseInactive, WebhookTypeOK, NoDeliverTask, Queued
    <3>5. CASE RateLimited(d)
      <4>1. CASE deliverTask[d].retries < MaxDeliverRetries
        BY <3>5, <4>1 DEF RateLimited, RetryTask, WebhookTypeOK, NoDeliverTask, Queued
      <4>2. CASE deliverTask[d].retries = MaxDeliverRetries
        BY <3>5, <4>2 DEF RateLimited, RetryTask, WebhookTypeOK, NoDeliverTask, Queued
      <4>q. QED
        BY <4>1, <4>2 DEF DeliverTasks
    <3>6. CASE StartDelivery(d)
      <4>1. /\ deliverTask[d].pc = "queued"
            /\ delivery' = delivery /\ posts' = posts /\ webhookFaults' = webhookFaults
            /\ starved' = starved /\ trigger' = trigger
            /\ deliverTask'[d] = [deliverTask[d] EXCEPT !.pc = "sending", !.count = delivery[d].count + 1]
        BY <3>6 DEF StartDelivery, WebhookTypeOK
      <4>2. deliverTask'[d].pc = "sending" /\ deliverTask'[d].count = delivery[d].count + 1
        BY <4>1 DEF DeliverTasks
      <4>q. QED
        BY <4>1, <4>2
    <3>7. CASE PostWebhook(d)
      <4>1. PICK result \in {"SUCCESS", "FAILURE"} :
              deliverTask' = [deliverTask EXCEPT ![d].pc = "saving", ![d].status = result]
        BY <3>7 DEF PostWebhook
      <4>2. deliverTask'[d] = [deliverTask[d] EXCEPT !.pc = "saving", !.status = result]
        BY <4>1 DEF WebhookTypeOK
      <4>3. /\ deliverTask'[d].pc = "saving" /\ deliverTask'[d].status # "PENDING"
            /\ deliverTask'[d].count = deliverTask[d].count
        BY <4>2 DEF DeliverTasks
      <4>4. /\ deliverTask[d].pc = "sending"
            /\ delivery' = delivery /\ webhookFaults' = webhookFaults
            /\ starved' = starved /\ trigger' = trigger
            /\ posts'[d] \in {posts[d], posts[d] + 1}
        BY <3>7 DEF PostWebhook, WebhookTypeOK
      <4>q. QED
        BY <4>3, <4>4
    <3>8. CASE SaveDelivery(d)
      <4>1. /\ delivery'[d] = [status |-> deliverTask[d].status, count |-> deliverTask[d].count]
            /\ posts' = posts /\ webhookFaults' = webhookFaults /\ starved' = starved /\ trigger' = trigger
            /\ deliverTask[d].pc = "saving"
        BY <3>8 DEF SaveDelivery, WebhookTypeOK
      <4>2. CASE deliverTask' = [deliverTask EXCEPT ![d].pc = "acking"]
        <5>1. deliverTask'[d] = [deliverTask[d] EXCEPT !.pc = "acking"]
          BY <4>2
        <5>2. deliverTask'[d].pc = "acking"
          BY <5>1 DEF DeliverTasks
        <5>q. QED
          BY <4>1, <5>2
      <4>3. CASE RetryTask(d) /\ ~LastAttempt(deliverTask[d])
        <5>1. deliverTask[d].count < MaxPosts
          BY <4>3, WebhookBounds DEF LastAttempt
        <5>2. delivery'[d].status # "PENDING" /\ delivery'[d].count = deliverTask[d].count
          BY <4>1
        <5>3. posts'[d] <= delivery'[d].count + webhookFaults' /\ posts'[d] < MaxPosts + webhookFaults'
          BY <4>1, <5>1, <5>2
        <5>4. deliverTask'[d].pc \in {"none", "queued"}
          BY <4>3, <3>r, NewTasks
        <5>5. trigger'[d] = "committed"
          BY <4>1
        <5>q. QED
          BY <4>1, <5>2, <5>3, <5>4, <5>5
      <4>q. QED
        BY <3>8, <4>2, <4>3 DEF SaveDelivery
    <3>9. CASE AckDelivery(d)
      BY <3>9 DEF AckDelivery, WebhookTypeOK, NoDeliverTask, Queued
    <3>10. CASE DeliveryFault(d)
      <4>1. /\ delivery' = delivery /\ posts' = posts /\ starved' = starved /\ trigger' = trigger
            /\ webhookFaults' = webhookFaults + 1
            /\ deliverTask[d].pc \in {"sending", "saving", "acking"}
        BY <3>10 DEF DeliveryFault
      <4>2. \/ deliverTask'[d] = NoDeliverTask
            \/ \E n \in Nat : deliverTask'[d] = Queued(n)
        BY <3>10, <3>r, <3>n DEF DeliveryFault
      <4>3. deliverTask'[d].pc \in {"none", "queued"}
        BY <4>2, NewTasks
      <4>4. /\ posts'[d] < MaxPosts + webhookFaults' /\ webhookFaults' > 0
            /\ posts'[d] <= delivery'[d].count + webhookFaults'
        BY <4>1
      <4>5. trigger'[d] = "committed" /\ (delivery'[d].count > 0 => delivery'[d].status # "PENDING")
        BY <4>1
      <4>q. QED
        BY <4>1, <4>3, <4>4, <4>5
    <3>q. QED
      BY <1>2, <3>1, <3>2, <3>3, <3>4, <3>5, <3>6, <3>7, <3>8, <3>9, <3>10 DEF DeliverStep
  <2>q. QED
    BY <2>1, <2>2, <2>3, OthersKeepDelivery
<1>q. QED
  BY <1>0, <1>1, <1>2 DEF WebhookNext

\* For any number of webhooks and whatever the bounds: a committed webhook has a
\* task until it has a result, and its endpoint sees no more requests than the
\* attempts allowed and the faults that left one uncounted.
THEOREM WebhooksDelivered == WebhookSpec => []DeliveredWithinBounds
<1>1. WebhookInv => DeliveredWithinBounds
  BY DEF WebhookInv, DeliveryInv, PendingHasTask, RequestsAreLeft, DeliveredWithinBounds, PendingIsQueued, PostsAreBounded
<1>q. QED
  BY <1>1, WebhookInitially, WebhookInductive, PTL DEF WebhookSpec

\* The rows and the tasks of every webhook keep their types, and a task its retries.
THEOREM WebhookTypeCorrect == WebhookSpec => []WebhookTypeOK
<1>1. WebhookInv => WebhookTypeOK
  BY DEF WebhookInv
<1>q. QED
  BY <1>1, WebhookInitially, WebhookInductive, PTL DEF WebhookSpec

-----------------------------------------------------------------------------
(* Autopay *)

\* A task that has made a payment has its PaymentIntent, so its next run makes
\* no other.
PaidOnce(t) == charge[t].made <= 1 /\ (charge[t].made = 1 => intent[t] # "none")

\* A copy that may be saved is the row, and the scheduler holds one only of an
\* organisation without a failure.
CopiesAreRows ==
    /\ \A w \in orgFresh : orgCopy[w] = org
    /\ busy["scheduler"] = "enqueue" => ~orgCopy["scheduler"].failed

AutopayInv == AutopayTypeOK /\ CopiesAreRows /\ \A t \in Charges : PaidOnce(t)

LEMMA AutopayInitially == AutopayInit => AutopayInv
BY ChargeRetriesAssumption DEF AutopayInit, AutopayInv, AutopayTypeOK, CopiesAreRows, PaidOnce, NoCharge, NoCopy, Orgs,
   Writers

Tasks == [pc : {"none", "queued", "charging", "failing"}, retries : 0 .. MaxChargeRetries, made : Nat]

\* What the saves of the row do to it and to the copies.
LEMMA SavesAreTyped ==
    ASSUME AutopayTypeOK, NEW w \in Writers
    PROVE  /\ Load(w) \/ Unload(w) => orgCopy' \in [Writers -> Orgs] /\ orgFresh' \subseteq Writers
           /\ \A saved \in Orgs : SaveOrganization(w, saved) =>
                org' \in Orgs /\ orgCopy' \in [Writers -> Orgs] /\ orgFresh' \subseteq Writers
           /\ orgCopy[w] \in Orgs
<1>1. NoCopy \in Orgs
  BY DEF NoCopy, Orgs
<1>q. QED
  BY <1>1 DEF AutopayTypeOK, Load, Unload, SaveOrganization

\* What the steps of a task do to it.
LEMMA TaskStepsAreTyped ==
    ASSUME AutopayTypeOK, NEW t \in Charges
    PROVE  /\ End(t) => charge' \in [Charges -> Tasks]
           /\ \A made \in Nat : RetryCharge(t, made) => charge' \in [Charges -> Tasks]
           /\ \A at \in {"queued", "charging", "failing"}, made \in Nat :
                 /\ [charge[t] EXCEPT !.pc = at] \in Tasks
                 /\ [charge[t] EXCEPT !.pc = at, !.made = made] \in Tasks
           /\ charge[t].made \in Nat
<1>1. charge \in [Charges -> Tasks] /\ charge[t] \in Tasks
  BY DEF AutopayTypeOK, Tasks
<1>2. NoCharge \in Tasks
  BY ChargeRetriesAssumption DEF NoCharge, Tasks
<1>3. ASSUME NEW made \in Nat, RetryCharge(t, made) PROVE charge' \in [Charges -> Tasks]
  <2>1. charge[t].retries < MaxChargeRetries =>
          [pc |-> "queued", retries |-> charge[t].retries + 1, made |-> made] \in Tasks
    BY <1>1, ChargeRetriesAssumption DEF Tasks
  <2>q. QED
    BY <1>1, <1>2, <1>3, <2>1 DEF RetryCharge
<1>q. QED
  BY <1>1, <1>2, <1>3 DEF Tasks, End

LEMMA AutopayStepsAreTyped ==
    ASSUME AutopayTypeOK, [AutopayNext]_autopayVars
    PROVE  AutopayTypeOK'
<1> USE DEF AutopayTypeOK
<1>0. charge \in [Charges -> Tasks]
  BY DEF Tasks
<1>t. ASSUME /\ org' \in Orgs /\ orgCopy' \in [Writers -> Orgs] /\ orgFresh' \subseteq Writers
             /\ busy' \in [{"scheduler", "page", "hook"} -> {"idle", "enqueue", "toggle", "reset", "clear"}]
             /\ charge' \in [Charges -> Tasks]
             /\ intent' \in [Charges -> {"none", "processing", "succeeded", "credited"}]
      PROVE  AutopayTypeOK'
  BY <1>t DEF Tasks
<1>w. {"scheduler", "page", "hook"} \subseteq Writers /\ Charges \subseteq Writers
  BY DEF Writers
<1>1. CASE UNCHANGED autopayVars
  BY <1>1 DEF autopayVars
<1>2. CASE FindDue
  BY <1>2, <1>w, SavesAreTyped DEF FindDue, Become
<1>3. ASSUME NEW w \in {"scheduler", "page", "hook"}, OrganizationConflict(w) PROVE AutopayTypeOK'
  BY <1>3, <1>w, SavesAreTyped DEF OrganizationConflict, Become
<1>4. ASSUME NEW t \in Charges, EnqueueCharge(t) PROVE AutopayTypeOK'
  <2>1. [orgCopy["scheduler"] EXCEPT !.enqueued = "recently"] \in Orgs
    BY <1>w DEF Orgs
  <2>2. org' \in Orgs /\ orgCopy' \in [Writers -> Orgs] /\ orgFresh' \subseteq Writers
    BY <1>4, <1>w, <2>1, SavesAreTyped DEF EnqueueCharge
  <2>3. charge' \in [Charges -> Tasks]
    BY <1>4, <1>0, TaskStepsAreTyped DEF EnqueueCharge
  <2>q. QED
    BY <1>4, <1>t, <2>2, <2>3 DEF EnqueueCharge, Become
<1>5. CASE DayPasses
  BY <1>5 DEF DayPasses, Orgs
<1>6. ASSUME NEW t \in Charges, StartCharge(t) PROVE AutopayTypeOK'
  <2>1. orgCopy' \in [Writers -> Orgs] /\ orgFresh' \subseteq Writers
    BY <1>6, <1>w, SavesAreTyped DEF StartCharge
  <2>2. charge' \in [Charges -> Tasks]
    BY <1>6, <1>0, TaskStepsAreTyped DEF StartCharge
  <2>q. QED
    BY <1>6, <1>t, <2>1, <2>2 DEF StartCharge
<1>7. ASSUME NEW t \in Charges, ChargeFails(t) PROVE AutopayTypeOK'
  BY <1>7, <1>0, <1>t, TaskStepsAreTyped DEF ChargeFails
<1>8. ASSUME NEW t \in Charges, CreateIntent(t) PROVE AutopayTypeOK'
  <2>1. orgCopy' \in [Writers -> Orgs] /\ orgFresh' \subseteq Writers
    BY <1>8, <1>w, SavesAreTyped DEF CreateIntent
  <2>2. intent' \in [Charges -> {"none", "processing", "succeeded", "credited"}]
    BY <1>8 DEF CreateIntent
  <2>3. charge[t].made + 1 \in Nat /\ charge[t].made \in Nat
    BY <1>0 DEF Tasks
  <2>4. charge' \in [Charges -> Tasks]
    <3>1. \E made \in Nat : \/ End(t)
                            \/ charge' = [charge EXCEPT ![t].pc = "failing", ![t].made = made]
                            \/ RetryCharge(t, made)
      BY <1>8, <2>3 DEF CreateIntent
    <3>2. PICK made \in Nat : \/ End(t)
                             \/ charge' = [charge EXCEPT ![t].pc = "failing", ![t].made = made]
                             \/ RetryCharge(t, made)
      BY <3>1
    <3>3. [charge[t] EXCEPT !.pc = "failing", !.made = made] \in Tasks
      BY TaskStepsAreTyped
    <3>4. (End(t) \/ RetryCharge(t, made)) => charge' \in [Charges -> Tasks]
      BY TaskStepsAreTyped
    <3>q. QED
      BY <1>0, <3>2, <3>3, <3>4
  <2>q. QED
    BY <1>8, <1>t, <2>1, <2>2, <2>4 DEF CreateIntent
<1>9. ASSUME NEW t \in Charges, RecordFailure(t) PROVE AutopayTypeOK'
  <2>1. [orgCopy[t] EXCEPT !.failed = TRUE] \in Orgs
    BY <1>w DEF Orgs
  <2>2. org' \in Orgs /\ orgCopy' \in [Writers -> Orgs] /\ orgFresh' \subseteq Writers
    BY <1>9, <1>w, <2>1, SavesAreTyped DEF RecordFailure
  <2>3. charge' \in [Charges -> Tasks]
    BY <1>9, <1>0, TaskStepsAreTyped DEF RecordFailure
  <2>q. QED
    BY <1>9, <1>t, <2>2, <2>3 DEF RecordFailure
<1>10. ASSUME NEW t \in Charges, StripeStep(t) PROVE AutopayTypeOK'
  <2>1. [org EXCEPT !.low = FALSE] \in Orgs
    BY DEF Orgs
  <2>2. CASE IntentSettles(t)
    BY <2>2 DEF IntentSettles
  <2>3. CASE CreditPayment(t)
    <3>1. org' \in Orgs /\ orgCopy' \in [Writers -> Orgs] /\ orgFresh' \subseteq Writers
      BY <2>1, <2>3, <1>w DEF CreditPayment
    <3>q. QED
      BY <2>3, <3>1 DEF CreditPayment, Become
  <2>q. QED
    BY <1>10, <2>2, <2>3 DEF StripeStep
<1>11. CASE ClearFailure \/ ResetAutopay
  <2>1. /\ [orgCopy["hook"] EXCEPT !.failed = FALSE] \in Orgs
        /\ [orgCopy["hook"] EXCEPT !.failed = FALSE, !.enqueued = "never"] \in Orgs
    BY <1>w DEF Orgs
  <2>2. org' \in Orgs /\ orgCopy' \in [Writers -> Orgs] /\ orgFresh' \subseteq Writers
    BY <1>11, <1>w, <2>1, SavesAreTyped DEF ClearFailure, ResetAutopay
  <2>q. QED
    BY <1>11, <2>2 DEF ClearFailure, ResetAutopay, Become
<1>12. CASE CustomerUpdated \/ OpenBillingPage
  BY <1>12, <1>w, SavesAreTyped DEF CustomerUpdated, OpenBillingPage, Become
<1>13. CASE SaveAutopaySettings
  <2>1. [orgCopy["page"] EXCEPT !.enabled = ~@] \in Orgs
    BY <1>w DEF Orgs
  <2>2. org' \in Orgs /\ orgCopy' \in [Writers -> Orgs] /\ orgFresh' \subseteq Writers
    BY <1>13, <1>w, <2>1, SavesAreTyped DEF SaveAutopaySettings
  <2>q. QED
    BY <1>13, <2>2 DEF SaveAutopaySettings, Become
<1>14. CASE SpendCredits
  BY <1>14 DEF SpendCredits, Update, Orgs
<1>q. QED
  BY <1>1, <1>2, <1>3, <1>4, <1>5, <1>6, <1>7, <1>8, <1>9, <1>10, <1>11, <1>12, <1>13, <1>14
     DEF AutopayNext, SchedulerStep, HookStep, ChargeStep

LEMMA CopiesStayRows ==
    ASSUME AutopayTypeOK, CopiesAreRows, [AutopayNext]_autopayVars
    PROVE  CopiesAreRows'
<1> USE WriterNames DEF AutopayTypeOK, Writers, CopiesAreRows
<1>1. CASE UNCHANGED autopayVars
  BY <1>1 DEF autopayVars
<1>2. CASE FindDue
  BY <1>2 DEF FindDue, IsDue, Load, Become
<1>3. ASSUME NEW w \in {"scheduler", "page", "hook"}, OrganizationConflict(w) PROVE CopiesAreRows'
  BY <1>3 DEF OrganizationConflict, Unload, Become
<1>4. ASSUME NEW t \in Charges, EnqueueCharge(t) PROVE CopiesAreRows'
  BY <1>4 DEF EnqueueCharge, SaveOrganization, Unload, Become
<1>5. CASE DayPasses
  BY <1>5 DEF DayPasses, Orgs
<1>6. ASSUME NEW t \in Charges, StartCharge(t) PROVE CopiesAreRows'
  BY <1>6 DEF StartCharge, Load
<1>7. ASSUME NEW t \in Charges, ChargeFails(t) PROVE CopiesAreRows'
  BY <1>7 DEF ChargeFails
<1>8. ASSUME NEW t \in Charges, CreateIntent(t) PROVE CopiesAreRows'
  BY <1>8 DEF CreateIntent, Unload
<1>9. ASSUME NEW t \in Charges, RecordFailure(t) PROVE CopiesAreRows'
  BY <1>9 DEF RecordFailure, SaveOrganization, Unload
<1>10. ASSUME NEW t \in Charges, StripeStep(t) PROVE CopiesAreRows'
  BY <1>10 DEF StripeStep, IntentSettles, CreditPayment, Become
<1>11. CASE ClearFailure \/ ResetAutopay
  BY <1>11 DEF ClearFailure, ResetAutopay, SaveOrganization, Become
<1>12. CASE CustomerUpdated \/ OpenBillingPage
  BY <1>12 DEF CustomerUpdated, OpenBillingPage, Load, Become
<1>13. CASE SaveAutopaySettings
  BY <1>13 DEF SaveAutopaySettings, SaveOrganization, Become
<1>14. CASE SpendCredits
  BY <1>14 DEF SpendCredits, Update
<1>q. QED
  BY <1>1, <1>2, <1>3, <1>4, <1>5, <1>6, <1>7, <1>8, <1>9, <1>10, <1>11, <1>12, <1>13, <1>14
     DEF AutopayNext, SchedulerStep, HookStep, ChargeStep

LEMMA PaysOnce ==
    ASSUME AutopayTypeOK, [AutopayNext]_autopayVars, NEW t \in Charges, PaidOnce(t)
    PROVE  PaidOnce(t)'
<1> USE DEF AutopayTypeOK, PaidOnce
<1>1. ASSUME UNCHANGED <<charge, intent>> PROVE PaidOnce(t)'
  BY <1>1
<1>2. ASSUME NEW u \in Charges, EnqueueCharge(u) PROVE PaidOnce(t)'
  BY <1>2 DEF EnqueueCharge, NoCharge
<1>c. charge \in [Charges -> Tasks] /\ charge[t].made \in Nat
  BY DEF Tasks
<1>3. ASSUME NEW u \in Charges, StartCharge(u) \/ ChargeFails(u) \/ RecordFailure(u) PROVE PaidOnce(t)'
  <2>1. intent' = intent /\ charge'[t].made \in {charge[t].made, 0}
    BY <1>3, <1>c DEF StartCharge, ChargeFails, RecordFailure, End, NoCharge, Tasks
  <2>q. QED
    BY <2>1, <1>c
<1>4. ASSUME NEW u \in Charges, CreateIntent(u) PROVE PaidOnce(t)'
  <2>1. CASE u # t
    <3>1. charge'[t] = charge[t] /\ intent'[t] = intent[t]
      BY <1>4, <2>1 DEF CreateIntent, RetryCharge, End
    <3>q. QED
      BY <3>1
  <2>2. CASE u = t
    <3> DEFINE made == IF intent'[t] # "none" /\ NewIntent(t) THEN charge[t].made + 1 ELSE charge[t].made
    <3>1. charge'[t].made \in {0, made}
      <4>1. \/ End(t)
            \/ charge' = [charge EXCEPT ![t].pc = "failing", ![t].made = made]
            \/ RetryCharge(t, made)
        BY <1>4, <2>2 DEF CreateIntent
      <4> HIDE DEF made
      <4>q. QED
        BY <4>1, <1>c DEF End, RetryCharge, NoCharge, Tasks
    <3>2. intent[t] # "none" => intent'[t] # "none"
      BY <1>4, <2>2 DEF CreateIntent, NewIntent
    <3>q. QED
      BY <3>1, <3>2, <1>c DEF NewIntent
  <2>q. QED
    BY <2>1, <2>2
<1>5. ASSUME NEW u \in Charges, StripeStep(u) PROVE PaidOnce(t)'
  BY <1>5 DEF StripeStep, IntentSettles, CreditPayment
<1>q. QED
  BY <1>1, <1>2, <1>3, <1>4, <1>5 DEF AutopayNext, SchedulerStep, HookStep, ChargeStep, FindDue, OrganizationConflict,
     DayPasses, ClearFailure, ResetAutopay, CustomerUpdated, OpenBillingPage, SaveAutopaySettings, SpendCredits, autopayVars

LEMMA AutopayInductive == AutopayInv /\ [AutopayNext]_autopayVars => AutopayInv'
BY AutopayStepsAreTyped, CopiesStayRows, PaysOnce DEF AutopayInv

\* For any number of tasks and retries a task charges the customer once.
THEOREM ChargedOnce == AutopaySpec => []OnePaymentPerTask
<1>1. AutopayInv => OnePaymentPerTask
  BY DEF AutopayInv, PaidOnce, OnePaymentPerTask
<1>q. QED
  BY <1>1, AutopayInitially, AutopayInductive, PTL DEF AutopaySpec

\* The organisation's row and its copies keep their types, and a charge its retries.
THEOREM AutopayTypeCorrect == AutopaySpec => []AutopayTypeOK
<1>1. AutopayInv => AutopayTypeOK
  BY DEF AutopayInv
<1>q. QED
  BY <1>1, AutopayInitially, AutopayInductive, PTL DEF AutopaySpec

LEMMA NobodyUndoesAFailure ==
    ASSUME AutopayInv, AutopayNext
    PROVE  FailureHolds
<1> USE WriterNames DEF AutopayInv, AutopayTypeOK, Writers, CopiesAreRows, FailureHolds
<1>2. CASE FindDue
  BY <1>2 DEF FindDue
<1>3. ASSUME NEW w \in {"scheduler", "page", "hook"}, OrganizationConflict(w) PROVE FailureHolds
  BY <1>3 DEF OrganizationConflict
<1>4. ASSUME NEW t \in Charges, EnqueueCharge(t) PROVE FailureHolds
  BY <1>4 DEF EnqueueCharge, SaveOrganization, Orgs
<1>5. CASE DayPasses
  BY <1>5 DEF DayPasses, Orgs
<1>6. ASSUME NEW t \in Charges, StartCharge(t) PROVE FailureHolds
  BY <1>6 DEF StartCharge, End, NoCharge
<1>7. ASSUME NEW t \in Charges, ChargeFails(t) PROVE FailureHolds
  BY <1>7 DEF ChargeFails
<1>8. ASSUME NEW t \in Charges, CreateIntent(t) PROVE FailureHolds
  BY <1>8 DEF CreateIntent, RetryCharge, End, NoCharge
<1>9. ASSUME NEW t \in Charges, RecordFailure(t) PROVE FailureHolds
  BY <1>9 DEF RecordFailure, SaveOrganization, End, NoCharge, Orgs
<1>10. ASSUME NEW t \in Charges, StripeStep(t) PROVE FailureHolds
  BY <1>10 DEF StripeStep, IntentSettles, CreditPayment, Orgs
<1>11. CASE ClearFailure \/ ResetAutopay
  BY <1>11 DEF ClearFailure, ResetAutopay, Become
<1>12. CASE CustomerUpdated \/ OpenBillingPage
  BY <1>12 DEF CustomerUpdated, OpenBillingPage
<1>13. CASE SaveAutopaySettings
  BY <1>13 DEF SaveAutopaySettings, SaveOrganization, Orgs
<1>14. CASE SpendCredits
  BY <1>14 DEF SpendCredits, Update, Orgs
<1>q. QED
  BY <1>2, <1>3, <1>4, <1>5, <1>6, <1>7, <1>8, <1>9, <1>10, <1>11, <1>12, <1>13, <1>14
     DEF AutopayNext, SchedulerStep, HookStep, ChargeStep

\* The safety part of AutopayTriedWhenItHelps: no save of the organisation from
\* an older copy takes a recorded failure away, and while it is there no charge
\* is queued.
THEOREM FailureStaysRecorded == AutopaySpec => [][FailureHolds]_autopayVars
BY AutopayInitially, AutopayInductive, NobodyUndoesAFailure, PTL DEF AutopaySpec

-----------------------------------------------------------------------------
(* Calendars *)

\* No sync has listed a revision that does not exist, and one that may commit has
\* listed the event's revision or a later one.
ListedAfterLoading ==
    /\ local <= remote
    /\ \A s \in Syncs :
          /\ sync[s].listed <= remote
          /\ sync[s].pc = "committing" /\ s \in calFresh => local <= sync[s].listed

\* The part of CalendarTypeOK that the invariant needs.
CalendarRowsOK ==
    /\ remote \in Revisions /\ local \in Revisions
    /\ eventBot \in [state : {"SCHEDULED", "launched", "deleted"}, from : Revisions]
    /\ calFresh \subseteq Syncs \cup {"hook", "planner"}
    /\ sync \in [Syncs -> [pc : {"idle", "listing", "committing", "disconnecting"},
                           retry : Retries, listed : Revisions]]
    /\ syncFaults \in Nat

CalendarInv == CalendarRowsOK /\ ListedAfterLoading /\ BotFollowsEvent

LEMMA CalendarInitially == CalendarInit => CalendarInv
BY RevisionAssumption DEF CalendarInit, CalendarInv, CalendarRowsOK, ListedAfterLoading, BotFollowsEvent, Revisions,
   Retries, IdleSync

LEMMA CalendarRowsKeepTypes ==
    ASSUME CalendarRowsOK, [CalendarNext]_calendarVars
    PROVE  CalendarRowsOK'
<1> USE RevisionAssumption DEF CalendarRowsOK, Revisions, Retries, IdleSync
<1>1. CASE UNCHANGED calendarVars
  BY <1>1 DEF calendarVars, calendarRow
<1>2. CASE ChangeEvent \/ ReceiveNotification \/ RequestSync \/ PlannerStep \/ SyncDayPasses
  BY <1>2 DEF ChangeEvent, ReceiveNotification, RequestSync, PlannerStep, FindCalendar, EnqueueSync, SyncDayPasses, calendarRow
<1>3. CASE Reconnect \/ LaunchEventBot
  BY <1>3 DEF Reconnect, LaunchEventBot, calendarRow
<1>4. ASSUME NEW s \in Syncs, StartSync(s) \/ ListEvents(s) PROVE CalendarRowsOK'
  BY <1>4 DEF StartSync, ListEvents, calendarRow
<1>5. ASSUME NEW s \in Syncs, CommitSync(s) PROVE CalendarRowsOK'
  <2>1. eventBot' \in [state : {"SCHEDULED", "launched", "deleted"}, from : Revisions] /\ syncFaults' \in Nat
    BY <1>5 DEF CommitSync, SyncBot
  <2>q. QED
    BY <1>5, <2>1 DEF CommitSync, SyncReturns
<1>6. ASSUME NEW s \in Syncs, SyncConflict(s) \/ Disconnect(s) \/ SyncFails(s) PROVE CalendarRowsOK'
  BY <1>6 DEF SyncConflict, Disconnect, SyncFails, SyncReturns, calendarRow
<1>7. ASSUME NEW s \in Syncs, AuthenticationLost(s) PROVE CalendarRowsOK'
  BY <1>7 DEF AuthenticationLost, SyncGoto, calendarRow
<1>q. QED
  BY <1>1, <1>2, <1>3, <1>4, <1>5, <1>6, <1>7 DEF CalendarNext, SyncStep

LEMMA ListingsStayCurrent ==
    ASSUME CalendarRowsOK, ListedAfterLoading, [CalendarNext]_calendarVars
    PROVE  ListedAfterLoading'
<1> USE RevisionAssumption, SyncNames DEF CalendarRowsOK, ListedAfterLoading, Revisions, IdleSync
<1>1. CASE UNCHANGED calendarVars
  BY <1>1 DEF calendarVars, calendarRow
<1>2. CASE ChangeEvent \/ ReceiveNotification \/ RequestSync \/ PlannerStep \/ SyncDayPasses
  BY <1>2 DEF ChangeEvent, ReceiveNotification, RequestSync, PlannerStep, FindCalendar, EnqueueSync, SyncDayPasses, calendarRow
<1>3. CASE Reconnect \/ LaunchEventBot
  BY <1>3 DEF Reconnect, LaunchEventBot, calendarRow
<1>4. ASSUME NEW s \in Syncs, StartSync(s) \/ ListEvents(s) PROVE ListedAfterLoading'
  BY <1>4 DEF StartSync, ListEvents, calendarRow
<1>5. ASSUME NEW s \in Syncs, CommitSync(s) PROVE ListedAfterLoading'
  BY <1>5 DEF CommitSync, SyncReturns
<1>6. ASSUME NEW s \in Syncs, SyncConflict(s) \/ Disconnect(s) \/ SyncFails(s) PROVE ListedAfterLoading'
  BY <1>6 DEF SyncConflict, Disconnect, SyncFails, SyncReturns, calendarRow
<1>7. ASSUME NEW s \in Syncs, AuthenticationLost(s) PROVE ListedAfterLoading'
  BY <1>7 DEF AuthenticationLost, SyncGoto, calendarRow
<1>q. QED
  BY <1>1, <1>2, <1>3, <1>4, <1>5, <1>6, <1>7 DEF CalendarNext, SyncStep

LEMMA BotStaysWithEvent ==
    ASSUME CalendarRowsOK, BotFollowsEvent, [CalendarNext]_calendarVars
    PROVE  BotFollowsEvent'
<1> USE DEF CalendarRowsOK, BotFollowsEvent
<1>1. ASSUME NEW s \in Syncs, CommitSync(s) PROVE BotFollowsEvent'
  BY <1>1 DEF CommitSync, SyncBot
<1>2. ASSUME NEW s \in Syncs, Disconnect(s) PROVE BotFollowsEvent'
  BY <1>2 DEF Disconnect
<1>3. CASE LaunchEventBot
  BY <1>3 DEF LaunchEventBot
<1>4. CASE RequestSync
  BY <1>4 DEF RequestSync
<1>5. ASSUME NEW s \in Syncs, SyncFails(s) \/ AuthenticationLost(s) PROVE BotFollowsEvent'
  BY <1>5 DEF SyncFails, AuthenticationLost
<1>6. ASSUME UNCHANGED <<eventBot, local, syncFaults>> PROVE BotFollowsEvent'
  BY <1>6
<1>q. QED
  BY <1>1, <1>2, <1>3, <1>4, <1>5, <1>6 DEF CalendarNext, SyncStep, ChangeEvent, ReceiveNotification, PlannerStep,
     FindCalendar, EnqueueSync, SyncDayPasses, Reconnect, StartSync, ListEvents, SyncConflict, calendarVars

LEMMA CalendarInductive == CalendarInv /\ [CalendarNext]_calendarVars => CalendarInv'
BY CalendarRowsKeepTypes, ListingsStayCurrent, BotStaysWithEvent DEF CalendarInv

\* Whatever number of syncs run against each other, a scheduled bot has the time
\* of the event in the database, unless a patch of the bot has failed.
THEOREM EventBotFollows == CalendarSpec => []BotFollowsEvent
BY CalendarInitially, CalendarInductive, PTL DEF CalendarSpec, CalendarInv

LEMMA CommitsGoForward ==
    ASSUME CalendarInv, [CalendarNext]_calendarVars
    PROVE  local' >= local
<1> USE RevisionAssumption DEF CalendarInv, CalendarRowsOK, ListedAfterLoading, Revisions
<1>1. ASSUME NEW s \in Syncs, CommitSync(s) PROVE local' >= local
  BY <1>1 DEF CommitSync, SyncMayCommit
<1>2. ASSUME local' = local PROVE local' >= local
  BY <1>2
<1>q. QED
  BY <1>1, <1>2 DEF CalendarNext, SyncStep, ChangeEvent, ReceiveNotification, RequestSync, PlannerStep, FindCalendar,
     EnqueueSync, SyncDayPasses, Reconnect, LaunchEventBot, StartSync, ListEvents, SyncConflict, Disconnect, SyncFails,
     AuthenticationLost, calendarVars, calendarRow

\* The safety part of EventArrivesForGood: a sync that commits has listed the
\* events after the last commit, so none undoes another.
THEOREM EventNeverGoesBack == CalendarSpec => [][local' >= local]_calendarVars
BY CalendarInitially, CalendarInductive, CommitsGoForward, PTL DEF CalendarSpec

\* The rest of it.
PartsOK ==
    /\ notify \in BOOLEAN /\ connected \in BOOLEAN /\ requested \in BOOLEAN /\ dueSync \in BOOLEAN
    /\ hook \in {"idle", "saving"} /\ planner \in {"idle", "saving"}
    /\ syncQueue \in [Retries -> Nat]
    /\ syncFaults \in 0 .. MaxSyncFaults

LEMMA PartsKeepTypes ==
    ASSUME CalendarRowsOK, PartsOK, [CalendarNext]_calendarVars
    PROVE  PartsOK'
<1> USE RevisionAssumption DEF PartsOK, Retries
<1>1. CASE UNCHANGED calendarVars
  BY <1>1 DEF calendarVars, calendarRow
<1>2. CASE ChangeEvent \/ ReceiveNotification \/ SyncDayPasses \/ LaunchEventBot
  BY <1>2 DEF ChangeEvent, ReceiveNotification, SyncDayPasses, LaunchEventBot, calendarRow
<1>9. CASE RequestSync
  <2>1. UNCHANGED <<connected, dueSync, planner, syncQueue>> /\ hook' = "idle"
    BY <1>9 DEF RequestSync
  <2>2. /\ notify' = notify \/ notify' = FALSE
        /\ requested' = requested \/ requested' = TRUE
        /\ syncFaults' = syncFaults \/ (syncFaults < MaxSyncFaults /\ syncFaults' = syncFaults + 1)
    BY <1>9 DEF RequestSync
  <2>3. notify' \in BOOLEAN /\ requested' \in BOOLEAN
    BY <2>2, Zenon
  <2>4. syncFaults' \in 0 .. MaxSyncFaults
    BY <2>2
  <2>q. QED
    BY <2>1, <2>3, <2>4
<1>3. CASE PlannerStep \/ Reconnect
  <2>1. syncQueue' \in [Retries -> Nat]
    BY <1>3 DEF PlannerStep, FindCalendar, EnqueueSync, Reconnect, QueueSync
  <2>q. QED
    BY <1>3, <2>1 DEF PlannerStep, FindCalendar, EnqueueSync, Reconnect
<1>4. ASSUME NEW s \in Syncs, StartSync(s) PROVE PartsOK'
  <2>1. PICK n \in Retries : syncQueue[n] > 0 /\ syncQueue' = [syncQueue EXCEPT ![n] = @ - 1]
    BY <1>4 DEF StartSync
  <2>2. syncQueue' \in [Retries -> Nat]
    BY <2>1
  <2>q. QED
    BY <1>4, <2>2 DEF StartSync
<1>5. ASSUME NEW s \in Syncs, SyncConflict(s) PROVE PartsOK'
  <2>1. sync[s].retry \in Retries
    BY DEF CalendarRowsOK
  <2>2. CASE sync[s].retry < MaxSyncRetries
    <3>1. syncQueue' = [syncQueue EXCEPT ![sync[s].retry + 1] = @ + 1]
      BY <1>5, <2>2 DEF SyncConflict
    <3>2. syncQueue' \in [Retries -> Nat]
      BY <2>1, <2>2, <3>1
    <3>q. QED
      BY <1>5, <3>2 DEF SyncConflict, calendarRow
  <2>3. CASE ~(sync[s].retry < MaxSyncRetries)
    BY <1>5, <2>3 DEF SyncConflict, calendarRow
  <2>q. QED
    BY <2>2, <2>3
<1>6. ASSUME NEW s \in Syncs, CommitSync(s) PROVE PartsOK'
  <2>1. syncFaults' \in 0 .. MaxSyncFaults
    BY <1>6 DEF CommitSync, SyncBot
  <2>q. QED
    BY <1>6, <2>1 DEF CommitSync
<1>7. ASSUME NEW s \in Syncs, ListEvents(s) \/ Disconnect(s) PROVE PartsOK'
  BY <1>7 DEF ListEvents, Disconnect, calendarRow
<1>8. ASSUME NEW s \in Syncs, SyncFails(s) \/ AuthenticationLost(s) PROVE PartsOK'
  BY <1>8 DEF SyncFails, AuthenticationLost, calendarRow
<1>q. QED
  BY <1>1, <1>2, <1>3, <1>4, <1>5, <1>6, <1>7, <1>8, <1>9 DEF CalendarNext, SyncStep

\* The calendar's row, its event, the scheduled bot and the syncs keep their types; a
\* sync that meets a conflict is queued again at most as often as the task may be retried.
THEOREM CalendarTypeCorrect == CalendarSpec => []CalendarTypeOK
<1>1. CalendarInit => PartsOK
  <2>1. CalendarInit => syncFaults \in 0 .. MaxSyncFaults /\ syncQueue \in [Retries -> Nat]
    BY RevisionAssumption DEF CalendarInit
  <2>2. CalendarInit => notify \in BOOLEAN /\ connected \in BOOLEAN /\ requested \in BOOLEAN /\ dueSync \in BOOLEAN
    BY DEF CalendarInit
  <2>q. QED
    BY <2>1, <2>2 DEF CalendarInit, PartsOK
<1>2. CalendarRowsOK /\ PartsOK => CalendarTypeOK
  BY DEF CalendarRowsOK, PartsOK, CalendarTypeOK
<1>q. QED
  BY <1>1, <1>2, CalendarInitially, CalendarInductive, PartsKeepTypes, PTL DEF CalendarSpec, CalendarInv

-----------------------------------------------------------------------------
(***************************************************************************)
(* Summaries: a summary dies with its transcript, for any number of        *)
(* workers, requests and claims. The deletion makes every copy of the row  *)
(* stale and voids every claim given before it; what is claimed after it   *)
(* finds no text.                                                          *)
(***************************************************************************)

\* A worker that holds text of a deleted transcript owns no claim, and no
\* request that could still save its copy would give the claim back to it.
VoidedClaims ==
    deleted =>
      \A w \in Workers : text[w] =>
         /\ startedAt # stamp[w]
         /\ \A r \in fresh : copy[r].startedAt # stamp[w]

\* A copy that can still be saved was read after the deletion, and each copy
\* is of a row that was there.
CopiesOK ==
    \A r \in Requests :
       /\ copy[r].startedAt \in 0 .. clock
       /\ copy[r].state = "DONE" => copy[r].summary
       /\ r \in fresh /\ deleted => ~copy[r].summary
       /\ asked[r] = "idle" => r \notin fresh \/ copy[r] = NoColumns

\* A worker that runs has a claim of its own, and an idle one no text.
StampsOK ==
    \A w \in Workers :
       /\ pc[w] # "collected" => ~text[w]
       /\ pc[w] # "idle" => stamp[w] > 0

IInv ==
    /\ TypeOK
    /\ SummaryDiesWithTranscript
    /\ DoneHasSummary
    /\ VoidedClaims
    /\ CopiesOK
    /\ StampsOK

LEMMA InitIInv == Init => IInv
<1> SUFFICES ASSUME Init PROVE IInv
  OBVIOUS
<1> USE DEF Init
<1>1. NoColumns \in Columns
  BY DEF NoColumns, Columns, SummaryStates
<1>2. copy \in [Requests -> Columns]
  BY <1>1
<1>3. TypeOK
  <2>1. /\ summaryState \in SummaryStates
        /\ startedAt \in 0 .. clock
        /\ stamp \in [Workers -> 0 .. clock]
    BY DEF SummaryStates
  <2> QED
    BY <1>2, <2>1 DEF TypeOK
<1>4. CopiesOK
  BY DEF CopiesOK, NoColumns
<1> QED
  BY <1>3, <1>4 DEF IInv, SummaryDiesWithTranscript, DoneHasSummary, VoidedClaims, StampsOK

LEMMA ClaimStep ==
    ASSUME IInv, NEW w \in Workers, Claim(w)
    PROVE  IInv'
<1> USE DEF IInv, Claim, requests
<1>1. TypeOK'
  BY DEF TypeOK, SummaryStates
<1>2. VoidedClaims'
  BY DEF TypeOK, VoidedClaims, StampsOK
<1>3. CopiesOK'
  BY DEF TypeOK, CopiesOK
<1>4. StampsOK'
  BY DEF TypeOK, StampsOK
<1> QED
  BY <1>1, <1>2, <1>3, <1>4 DEF SummaryDiesWithTranscript, DoneHasSummary

LEMMA NothingToClaimStep ==
    ASSUME IInv, NEW w \in Workers, NothingToClaim(w)
    PROVE  IInv'
  BY DEF IInv, NothingToClaim, row, workers, requests, TypeOK, SummaryDiesWithTranscript,
         DoneHasSummary, VoidedClaims, CopiesOK, StampsOK

\* After the deletion a worker collects nothing; before it, nothing is voided.
LEMMA CollectStep ==
    ASSUME IInv, NEW w \in Workers, Collect(w)
    PROVE  IInv'
<1> USE DEF IInv, Collect, row, requests
<1>1. TypeOK'
  BY DEF TypeOK
<1>2. VoidedClaims' /\ StampsOK'
  BY DEF TypeOK, VoidedClaims, StampsOK
<1> QED
  BY <1>1, <1>2 DEF SummaryDiesWithTranscript, DoneHasSummary, CopiesOK

LEMMA FinishStep ==
    ASSUME IInv, NEW w \in Workers, NEW outcome \in SummaryStates, Finish(w, outcome)
    PROVE  IInv'
<1> USE DEF IInv, Finish, Stop, Owns, Outcomes, requests
<1>1. TypeOK'
  BY DEF TypeOK, SummaryStates
<1>2. SummaryDiesWithTranscript' /\ DoneHasSummary'
  BY DEF TypeOK, SummaryDiesWithTranscript, DoneHasSummary, VoidedClaims
<1>3. VoidedClaims' /\ StampsOK'
  BY DEF TypeOK, VoidedClaims, StampsOK
<1> QED
  BY <1>1, <1>2, <1>3 DEF CopiesOK

LEMMA CrashStep ==
    ASSUME IInv, NEW w \in Workers, Crash(w)
    PROVE  IInv'
<1> USE DEF IInv, Crash, Stop, Enqueue, row, requests
<1>1. TypeOK'
  BY DEF TypeOK
<1>2. VoidedClaims' /\ StampsOK'
  BY DEF TypeOK, VoidedClaims, StampsOK
<1> QED
  BY <1>1, <1>2 DEF SummaryDiesWithTranscript, DoneHasSummary, CopiesOK

LEMMA ReapStep == IInv /\ Reap => IInv'
<1> SUFFICES ASSUME IInv, Reap PROVE IInv'
  OBVIOUS
<1> USE DEF IInv, Reap, workers, requests
<1>1. TypeOK'
  BY DEF TypeOK, SummaryStates
<1>2. VoidedClaims'
  BY DEF TypeOK, VoidedClaims, StampsOK
<1> QED
  BY <1>1, <1>2 DEF SummaryDiesWithTranscript, DoneHasSummary, CopiesOK, StampsOK

\* A copy read after the deletion is of a row whose claim nobody with text owns.
LEMMA ReadStep ==
    ASSUME IInv, NEW r \in Requests, NEW label \in {"save", "regenerate"}, Read(r, label)
    PROVE  IInv'
<1> USE DEF IInv, Read, row, workers
<1>1. TypeOK'
  BY DEF TypeOK, Columns
<1>2. VoidedClaims'
  BY DEF TypeOK, VoidedClaims
<1>3. CopiesOK'
  BY DEF TypeOK, CopiesOK, SummaryDiesWithTranscript, DoneHasSummary
<1> QED
  BY <1>1, <1>2, <1>3 DEF SummaryDiesWithTranscript, DoneHasSummary, StampsOK

LEMMA RegenerateStep ==
    ASSUME IInv, NEW r \in Requests, Regenerate(r)
    PROVE  IInv'
<1> USE DEF IInv, Regenerate, Enqueue, Done, workers
<1>1. TypeOK'
  BY DEF TypeOK, Columns, NoColumns, SummaryStates
<1>2. VoidedClaims' /\ StampsOK'
  BY DEF TypeOK, VoidedClaims, StampsOK
<1>3. CopiesOK'
  BY DEF TypeOK, CopiesOK, NoColumns
<1> QED
  BY <1>1, <1>2, <1>3 DEF SummaryDiesWithTranscript, DoneHasSummary

LEMMA SaveRowStep ==
    ASSUME IInv, NEW r \in Requests, SaveRow(r)
    PROVE  IInv'
<1> USE DEF IInv, SaveRow, Done, workers
<1>1. TypeOK'
  BY DEF TypeOK, CopiesOK, Columns, NoColumns, SummaryStates
<1>2. VoidedClaims' /\ StampsOK'
  BY DEF TypeOK, VoidedClaims, StampsOK
<1>3. CopiesOK'
  BY DEF TypeOK, CopiesOK, NoColumns
<1>4. SummaryDiesWithTranscript' /\ DoneHasSummary'
  BY DEF TypeOK, CopiesOK, SummaryDiesWithTranscript, DoneHasSummary
<1> QED
  BY <1>1, <1>2, <1>3, <1>4

LEMMA SaveConflictStep ==
    ASSUME IInv, NEW r \in Requests, SaveConflict(r)
    PROVE  IInv'
<1> USE DEF IInv, SaveConflict, Done, row, workers
<1>1. TypeOK'
  BY DEF TypeOK, Columns, NoColumns, SummaryStates
<1>2. VoidedClaims' /\ StampsOK'
  BY DEF TypeOK, VoidedClaims, StampsOK
<1>3. CopiesOK'
  BY DEF TypeOK, CopiesOK, NoColumns
<1> QED
  BY <1>1, <1>2, <1>3 DEF SummaryDiesWithTranscript, DoneHasSummary

\* The deletion leaves no claim, and no copy that could be saved.
LEMMA DeleteStep == IInv /\ DeleteData => IInv'
<1> SUFFICES ASSUME IInv, DeleteData PROVE IInv'
  OBVIOUS
<1> USE DEF IInv, DeleteData, workers
<1>a. /\ summaryState' = "PENDING" /\ startedAt' = 0
      /\ summary' = FALSE /\ deleted' = TRUE /\ fresh' = {}
  OBVIOUS
<1>b. UNCHANGED <<clock, queued, pc, stamp, text, copy, asked>>
  OBVIOUS
<1>1. TypeOK'
  <2>1. /\ summaryState' \in SummaryStates
        /\ startedAt' \in 0 .. clock'
    BY <1>a, <1>b DEF TypeOK, SummaryStates
  <2> QED
    BY <2>1, <1>a, <1>b DEF TypeOK
<1>2. VoidedClaims'
  BY DEF TypeOK, VoidedClaims, StampsOK
<1> QED
  BY <1>1, <1>2 DEF SummaryDiesWithTranscript, DoneHasSummary, CopiesOK, StampsOK

LEMMA StepKeepsIInv == IInv /\ [Next]_vars => IInv'
<1> SUFFICES ASSUME IInv, [Next]_vars PROVE IInv'
  OBVIOUS
<1>1. CASE UNCHANGED vars
  BY <1>1 DEF vars, row, workers, requests, IInv, TypeOK, SummaryDiesWithTranscript,
              DoneHasSummary, VoidedClaims, CopiesOK, StampsOK
<1>2. ASSUME NEW w \in Workers,
             \/ Claim(w) \/ NothingToClaim(w) \/ Collect(w) \/ Crash(w)
             \/ \E outcome \in SummaryStates : Finish(w, outcome)
      PROVE  IInv'
  BY <1>2, ClaimStep, NothingToClaimStep, CollectStep, CrashStep, FinishStep
<1>3. ASSUME NEW r \in Requests,
             AskAgain(r) \/ Regenerate(r) \/ ReadRow(r) \/ SaveRow(r) \/ SaveConflict(r)
      PROVE  IInv'
  BY <1>3, ReadStep, RegenerateStep, SaveRowStep, SaveConflictStep DEF AskAgain, ReadRow
<1> QED
  BY <1>1, <1>2, <1>3, ReapStep, DeleteStep DEF Next

-----------------------------------------------------------------------------
\* Neither a worker that was summarising when the data was deleted, nor a
\* request that had read the row, brings a summary of deleted data back.
THEOREM SummaryCorrect == Spec => []SummaryDiesWithTranscript
<1>1. IInv => SummaryDiesWithTranscript
  BY DEF IInv
<1> QED
  BY <1>1, InitIInv, StepKeepsIInv, PTL DEF Spec

\* A meeting marked as summarised has its summary, whichever of the worker, the
\* reaper and a whole-row save wrote the row last.
THEOREM DoneSummaryIsThere == Spec => []DoneHasSummary
<1>1. IInv => DoneHasSummary
  BY DEF IInv
<1> QED
  BY <1>1, InitIInv, StepKeepsIInv, PTL DEF Spec

\* The columns of the row and the memory of the processes keep their types.
THEOREM SummaryTypeCorrect == Spec => []TypeOK
<1>1. IInv => TypeOK
  BY DEF IInv
<1> QED
  BY <1>1, InitIInv, StepKeepsIInv, PTL DEF Spec

-----------------------------------------------------------------------------
(***************************************************************************)
(* Zoom's SDK: a bot records what its row says. The adapter's handlers are *)
(* right each by itself; what makes them right together is the order of    *)
(* the callbacks that wait for the main loop.                              *)
(***************************************************************************)

\* What the row will say once the bot is back from where it moved to.
Returning == IF zoomBot.state \in BreakoutStates THEN zoomBot.last.old ELSE zoomBot.state

\* A bot on the move departed from somewhere, and a bot that is being joined, or
\* has joined, has the recording its state needs.
RowFits ==
    /\ zoomBot.state \in BreakoutStates =>
           zoomBot.last.type \in BreakoutDepartures /\ zoomBot.last.old \in JoinedStates
    /\ Returning \in {"JOINING", "WAITING_ROOM", "JOINED_NOT_RECORDING"} => zoomBot.recording = "NOT_STARTED"
    /\ Returning = "JOINED_RECORDING" => zoomBot.recording = "IN_PROGRESS"
    /\ Returning = "JOINED_RECORDING_PAUSED" => zoomBot.recording = "PAUSED"
    /\ Returning = "JOINED_RECORDING_PERMISSION_DENIED" => zoomBot.recording \in {"NOT_STARTED", "PAUSED"}

\* The process's copy is old only while a leave asked by the API waits for it.
CopyFits == zoomBot.copy = zoomBot.state \/ zoomBot.state = "LEAVING"

\* Of the callbacks q that wait, with the meeting's status and the permission the
\* adapter has: after a move comes an arrival before anything is permitted or
\* denied, and between two permissions comes a denial.
PermissionNews == {"granted", "denied"}
InOrder(q, status, granted) ==
    /\ \A i, k \in 1 .. Len(q) : i < k /\ q[i] \in Moves /\ q[k] \in PermissionNews =>
           \E j \in 1 .. Len(q) : i < j /\ j < k /\ q[j] = "joined"
    /\ status = "meeting" => \A i \in 1 .. Len(q) : q[i] \in Moves => \E j \in 1 .. Len(q) : i < j /\ q[j] = "joined"
    /\ \A i, k \in 1 .. Len(q) : i < k /\ q[i] = "granted" /\ q[k] = "granted" =>
           \E j \in 1 .. Len(q) : i < j /\ j < k /\ q[j] = "denied"
    /\ granted = FALSE => \A i \in 1 .. Len(q) : q[i] = "granted" => \E j \in 1 .. Len(q) : i < j /\ q[j] = "denied"

\* A bot on the move has to hear of its arrival first.
ArrivalFirst(q, status) ==
    /\ \A k \in 1 .. Len(q) : q[k] \in PermissionNews => \E j \in 1 .. Len(q) : j < k /\ q[j] = "joined"
    /\ status = "meeting" => \E j \in 1 .. Len(q) : q[j] = "joined"

\* A bot that may record has to hear of a denial first.
DenialFirst(q, granted) ==
    /\ \A k \in 1 .. Len(q) : q[k] = "granted" => \E j \in 1 .. Len(q) : j < k /\ q[j] = "denied"
    /\ granted = FALSE => \E j \in 1 .. Len(q) : q[j] = "denied"

NewsFits ==
    /\ InOrder(backlog, sdk.status, zoom.granted)
    /\ zoomBot.state \in BreakoutStates /\ Returning # "JOINED_RECORDING_PAUSED" =>
           ArrivalFirst(backlog, sdk.status)
    /\ zoomBot.state = "JOINED_RECORDING_PAUSED" \/ Returning = "JOINED_RECORDING" =>
           DenialFirst(backlog, zoom.granted)

\* What the adapter does is what the row says, or will say.
AdapterFits ==
    /\ zoom.video => zoom.raw
    /\ ~zoomPast.broken =>
        /\ Returning = "JOINED_RECORDING" => zoom.raw /\ ~zoom.paused
        /\ zoomBot.state = "JOINED_RECORDING_PAUSED" \/ Returning = "JOINED_RECORDING_PERMISSION_DENIED" =>
               ~zoom.raw /\ zoom.paused

ZoomInv == ZoomTypeOK /\ RowFits /\ CopyFits /\ NewsFits /\ AdapterFits

-----------------------------------------------------------------------------
(* The callbacks that wait. *)

News == ZoomMessages \cup ZoomCommands

LEMMA OneMore ==
    ASSUME NEW q \in Seq(News), NEW m \in News
    PROVE  /\ Append(q, m) \in Seq(News) /\ Len(Append(q, m)) = Len(q) + 1
           /\ \A i \in 1 .. Len(q) : Append(q, m)[i] = q[i]
           /\ Append(q, m)[Len(q) + 1] = m
OBVIOUS

LEMMA OneLess ==
    ASSUME NEW q \in Seq(News), q # <<>>
    PROVE  /\ Tail(q) \in Seq(News) /\ Len(Tail(q)) + 1 = Len(q) /\ Len(q) \in Nat \ {0}
           /\ \A i \in 1 .. Len(Tail(q)) : Tail(q)[i] = q[i + 1]
           /\ Head(q) = q[1] /\ Head(q) \in News
OBVIOUS

\* The messages that say nothing of moves, arrivals and permissions.
Others == News \ (Moves \cup PermissionNews \cup {"joined"})

\* What may come to wait, with what the status and the permission become.
Grows(q, b, g, q2, b2, g2) ==
    \/ q2 = q /\ (b2 = "meeting" => b = "meeting") /\ g2 = g
    \/ \E m \in Others : q2 = Append(q, m) /\ (b2 = "meeting" => b = "meeting") /\ g2 = g
    \/ \E m \in Moves : q2 = Append(q, m) /\ b2 # "meeting" /\ g2 = g
    \/ q2 = Append(q, "joined") /\ g2 = g
    \/ b = "meeting" /\ g = FALSE /\ q2 = Append(q, "granted") /\ g2 = TRUE
    \/ b = "meeting" /\ q2 = Append(q, "denied") /\ g2 = FALSE

LEMMA NewsNames ==
    /\ "joined" \in News /\ PermissionNews \subseteq News /\ Moves \subseteq News /\ Others \subseteq News
    /\ "joined" \notin Moves \cup PermissionNews /\ Moves \cap PermissionNews = {}
BY DEF News, ZoomMessages, ZoomCommands, PermissionNews, Moves, Others

\* A callback m came to wait.
GrownWith(m, q, b, g, q2, b2, g2) ==
    /\ q2 = Append(q, m)
    /\ m \in Moves => b2 # "meeting"
    /\ m \in PermissionNews => b = "meeting"
    /\ m \in {"granted", "denied"} \/ g2 = g
    /\ m = "joined" \/ (b2 = "meeting" => b = "meeting") \/ m \in PermissionNews
    /\ m = "granted" => g = FALSE /\ g2 = TRUE
    /\ m = "denied" => g2 = FALSE

LEMMA GrownBy ==
    ASSUME NEW q \in Seq(News), NEW b, NEW g, NEW q2, NEW b2, NEW g2,
           Grows(q, b, g, q2, b2, g2), q2 # q
    PROVE  \E m \in News : GrownWith(m, q, b, g, q2, b2, g2)
<1>1. CASE \E m \in Others : q2 = Append(q, m) /\ (b2 = "meeting" => b = "meeting") /\ g2 = g
  BY <1>1, NewsNames DEF GrownWith, PermissionNews, Others
<1>2. CASE \E m \in Moves : q2 = Append(q, m) /\ b2 # "meeting" /\ g2 = g
  BY <1>2, NewsNames DEF GrownWith, PermissionNews
<1>3. CASE q2 = Append(q, "joined") /\ g2 = g
  BY <1>3, NewsNames DEF GrownWith
<1>4. CASE b = "meeting" /\ g = FALSE /\ q2 = Append(q, "granted") /\ g2 = TRUE
  BY <1>4, NewsNames DEF GrownWith, PermissionNews
<1>5. CASE b = "meeting" /\ q2 = Append(q, "denied") /\ g2 = FALSE
  BY <1>5, NewsNames DEF GrownWith, PermissionNews
<1> QED
  BY <1>1, <1>2, <1>3, <1>4, <1>5 DEF Grows

LEMMA OrderGrows ==
    ASSUME NEW q \in Seq(News), NEW b, NEW g, NEW q2, NEW b2, NEW g2,
           Grows(q, b, g, q2, b2, g2), InOrder(q, b, g)
    PROVE  InOrder(q2, b2, g2) /\ q2 \in Seq(News)
<1>1. CASE q2 = q
  <2>1. ~(b = "meeting" /\ q2 = Append(q, "granted")) /\ ~(q2 = Append(q, "denied")) /\ ~(q2 = Append(q, "joined"))
        /\ \A m \in News : q2 # Append(q, m)
    BY <1>1, NewsNames, OneMore DEF PermissionNews
  <2>2. (b2 = "meeting" => b = "meeting") /\ g2 = g
    BY <2>1, NewsNames DEF Grows
  <2> QED
    BY <1>1, <2>2 DEF InOrder
<1>2. CASE q2 # q
  <2>0. PICK m \in News : GrownWith(m, q, b, g, q2, b2, g2)
    BY <1>2, GrownBy
  <2>1. /\ q2 = Append(q, m)
        /\ m \in Moves => b2 # "meeting"
        /\ m \in PermissionNews => b = "meeting"
        /\ m \in {"granted", "denied"} \/ (g2 = g)
        /\ m = "joined" \/ (b2 = "meeting" => b = "meeting") \/ m \in PermissionNews
        /\ m = "granted" => g = FALSE /\ g2 = TRUE
        /\ m = "denied" => g2 = FALSE
    BY <2>0 DEF GrownWith
  <2>2. PICK n \in Nat : n = Len(q)
    OBVIOUS
  <2>3. /\ q2 \in Seq(News) /\ Len(q2) = n + 1 /\ q2[n + 1] = m
        /\ \A i \in 1 .. n : q2[i] = q[i]
    BY <2>1, <2>2, OneMore
  <2>4. ASSUME NEW i \in 1 .. n + 1, NEW k \in 1 .. n + 1, i < k, q2[i] \in Moves, q2[k] \in PermissionNews
        PROVE  \E j \in 1 .. n + 1 : i < j /\ j < k /\ q2[j] = "joined"
    <3>1. i \in 1 .. n /\ q[i] \in Moves
      BY <2>3, <2>4
    <3>2. CASE k \in 1 .. n
      <4>1. PICK j \in 1 .. n : i < j /\ j < k /\ q[j] = "joined"
        BY <2>2, <2>3, <2>4, <3>1, <3>2 DEF InOrder
      <4> QED
        BY <2>3, <4>1
    <3>3. CASE k = n + 1
      <4>1. b = "meeting"
        BY <2>1, <2>3, <2>4, <3>3
      <4>2. PICK j \in 1 .. n : i < j /\ q[j] = "joined"
        BY <2>2, <3>1, <4>1 DEF InOrder
      <4> QED
        BY <2>3, <3>3, <4>2
    <3> QED
      BY <3>2, <3>3
  <2>5. ASSUME b2 = "meeting", NEW i \in 1 .. n + 1, q2[i] \in Moves
        PROVE  \E j \in 1 .. n + 1 : i < j /\ q2[j] = "joined"
    <3>1. i \in 1 .. n /\ q[i] \in Moves
      BY <2>1, <2>3, <2>5
    <3>2. CASE m = "joined"
      BY <2>3, <3>1, <3>2
    <3>3. CASE m # "joined"
      <4>1. b = "meeting"
        BY <2>1, <2>5, <3>3
      <4>2. PICK j \in 1 .. n : i < j /\ q[j] = "joined"
        BY <2>2, <3>1, <4>1 DEF InOrder
      <4> QED
        BY <2>3, <4>2
    <3> QED
      BY <3>2, <3>3
  <2>6. ASSUME NEW i \in 1 .. n + 1, NEW k \in 1 .. n + 1, i < k, q2[i] = "granted", q2[k] = "granted"
        PROVE  \E j \in 1 .. n + 1 : i < j /\ j < k /\ q2[j] = "denied"
    <3>1. i \in 1 .. n /\ q[i] = "granted"
      BY <2>3, <2>6
    <3>2. CASE k \in 1 .. n
      <4>1. PICK j \in 1 .. n : i < j /\ j < k /\ q[j] = "denied"
        BY <2>2, <2>3, <2>6, <3>1, <3>2 DEF InOrder
      <4> QED
        BY <2>3, <4>1
    <3>3. CASE k = n + 1
      <4>1. g = FALSE
        BY <2>1, <2>3, <2>6, <3>3
      <4>2. PICK j \in 1 .. n : i < j /\ q[j] = "denied"
        BY <2>2, <3>1, <4>1 DEF InOrder
      <4> QED
        BY <2>3, <3>3, <4>2
    <3> QED
      BY <3>2, <3>3
  <2>7. ASSUME g2 = FALSE, NEW i \in 1 .. n + 1, q2[i] = "granted"
        PROVE  \E j \in 1 .. n + 1 : i < j /\ q2[j] = "denied"
    <3>1. i \in 1 .. n /\ q[i] = "granted"
      BY <2>1, <2>3, <2>7
    <3>2. CASE m = "denied"
      BY <2>3, <3>1, <3>2
    <3>3. CASE m # "denied"
      <4>1. g = FALSE
        BY <2>1, <2>7, <3>3
      <4>2. PICK j \in 1 .. n : i < j /\ q[j] = "denied"
        BY <2>2, <3>1, <4>1 DEF InOrder
      <4> QED
        BY <2>3, <4>2
    <3> QED
      BY <3>2, <3>3
  <2>8. \A i, k \in 1 .. Len(q2) : i < k /\ q2[i] \in Moves /\ q2[k] \in PermissionNews =>
           \E j \in 1 .. Len(q2) : i < j /\ j < k /\ q2[j] = "joined"
    BY <2>3, <2>4
  <2>9. b2 = "meeting" =>
           \A i \in 1 .. Len(q2) : q2[i] \in Moves => \E j \in 1 .. Len(q2) : i < j /\ q2[j] = "joined"
    BY <2>3, <2>5
  <2>10. \A i, k \in 1 .. Len(q2) : i < k /\ q2[i] = "granted" /\ q2[k] = "granted" =>
           \E j \in 1 .. Len(q2) : i < j /\ j < k /\ q2[j] = "denied"
    BY <2>3, <2>6
  <2>11. g2 = FALSE =>
           \A i \in 1 .. Len(q2) : q2[i] = "granted" => \E j \in 1 .. Len(q2) : i < j /\ q2[j] = "denied"
    BY <2>3, <2>7
  <2> QED
    BY <2>3, <2>8, <2>9, <2>10, <2>11 DEF InOrder
<1> QED
  BY <1>1, <1>2

LEMMA ArrivalGrows ==
    ASSUME NEW q \in Seq(News), NEW b, NEW g, NEW q2, NEW b2, NEW g2,
           Grows(q, b, g, q2, b2, g2), ArrivalFirst(q, b)
    PROVE  ArrivalFirst(q2, b2)
<1>1. CASE q2 = q
  <2>1. \A m \in News : q2 # Append(q, m)
    BY <1>1, OneMore
  <2>2. b2 = "meeting" => b = "meeting"
    BY <2>1, NewsNames DEF Grows, PermissionNews
  <2> QED
    BY <1>1, <2>2 DEF ArrivalFirst
<1>2. CASE q2 # q
  <2>0. PICK m \in News : GrownWith(m, q, b, g, q2, b2, g2)
    BY <1>2, GrownBy
  <2>1. /\ q2 = Append(q, m)
        /\ m \in PermissionNews => b = "meeting"
        /\ m = "joined" \/ (b2 = "meeting" => b = "meeting") \/ m \in PermissionNews
    BY <2>0 DEF GrownWith
  <2>2. PICK n \in Nat : n = Len(q)
    OBVIOUS
  <2>3. /\ Len(q2) = n + 1 /\ q2[n + 1] = m
        /\ \A i \in 1 .. n : q2[i] = q[i]
    BY <2>1, <2>2, OneMore
  <2>4. ASSUME NEW k \in 1 .. n + 1, q2[k] \in PermissionNews
        PROVE  \E j \in 1 .. n + 1 : j < k /\ q2[j] = "joined"
    <3>1. CASE k \in 1 .. n
      <4>1. PICK j \in 1 .. n : j < k /\ q[j] = "joined"
        BY <2>2, <2>3, <2>4, <3>1 DEF ArrivalFirst
      <4> QED
        BY <2>3, <4>1
    <3>2. CASE k = n + 1
      <4>1. b = "meeting"
        BY <2>1, <2>3, <2>4, <3>2
      <4>2. PICK j \in 1 .. n : q[j] = "joined"
        BY <2>2, <4>1 DEF ArrivalFirst
      <4> QED
        BY <2>3, <3>2, <4>2
    <3> QED
      BY <3>1, <3>2
  <2>5. ASSUME b2 = "meeting" PROVE \E j \in 1 .. n + 1 : q2[j] = "joined"
    <3>1. CASE m = "joined"
      BY <2>3, <3>1
    <3>2. CASE b = "meeting"
      <4>1. PICK j \in 1 .. n : q[j] = "joined"
        BY <2>2, <3>2 DEF ArrivalFirst
      <4> QED
        BY <2>3, <4>1
    <3> QED
      BY <2>1, <2>5, <3>1, <3>2
  <2> QED
    BY <2>3, <2>4, <2>5 DEF ArrivalFirst
<1> QED
  BY <1>1, <1>2

LEMMA DenialGrows ==
    ASSUME NEW q \in Seq(News), NEW b, NEW g, NEW q2, NEW b2, NEW g2,
           Grows(q, b, g, q2, b2, g2), DenialFirst(q, g)
    PROVE  DenialFirst(q2, g2)
<1>1. CASE q2 = q
  <2>1. \A m \in News : q2 # Append(q, m)
    BY <1>1, OneMore
  <2>2. g2 = g
    BY <2>1, NewsNames DEF Grows, PermissionNews
  <2> QED
    BY <1>1, <2>2 DEF DenialFirst
<1>2. CASE q2 # q
  <2>0. PICK m \in News : GrownWith(m, q, b, g, q2, b2, g2)
    BY <1>2, GrownBy
  <2>1. /\ q2 = Append(q, m)
        /\ m \in {"granted", "denied"} \/ (g2 = g)
        /\ m = "granted" => g = FALSE /\ g2 = TRUE
        /\ m = "denied" => g2 = FALSE
    BY <2>0 DEF GrownWith
  <2>2. PICK n \in Nat : n = Len(q)
    OBVIOUS
  <2>3. /\ Len(q2) = n + 1 /\ q2[n + 1] = m
        /\ \A i \in 1 .. n : q2[i] = q[i]
    BY <2>1, <2>2, OneMore
  <2>4. ASSUME NEW k \in 1 .. n + 1, q2[k] = "granted"
        PROVE  \E j \in 1 .. n + 1 : j < k /\ q2[j] = "denied"
    <3>1. CASE k \in 1 .. n
      <4>1. PICK j \in 1 .. n : j < k /\ q[j] = "denied"
        BY <2>2, <2>3, <2>4, <3>1 DEF DenialFirst
      <4> QED
        BY <2>3, <4>1
    <3>2. CASE k = n + 1
      <4>1. g = FALSE
        BY <2>1, <2>3, <2>4, <3>2
      <4>2. PICK j \in 1 .. n : q[j] = "denied"
        BY <2>2, <4>1 DEF DenialFirst
      <4> QED
        BY <2>3, <3>2, <4>2
    <3> QED
      BY <3>1, <3>2
  <2>5. ASSUME g2 = FALSE PROVE \E j \in 1 .. n + 1 : q2[j] = "denied"
    <3>1. CASE m = "denied"
      BY <2>3, <3>1
    <3>2. CASE g = FALSE
      <4>1. PICK j \in 1 .. n : q[j] = "denied"
        BY <2>2, <3>2 DEF DenialFirst
      <4> QED
        BY <2>3, <4>1
    <3>3. m = "denied" \/ g = FALSE
      BY <2>1, <2>5, Zenon
    <3> QED
      BY <3>1, <3>2, <3>3
  <2> QED
    BY <2>3, <2>4, <2>5 DEF DenialFirst
<1> QED
  BY <1>1, <1>2

\* When the first callback is taken.
LEMMA OrderRests ==
    ASSUME NEW q \in Seq(News), q # <<>>, NEW b, NEW g, InOrder(q, b, g)
    PROVE  /\ Tail(q) \in Seq(News) /\ InOrder(Tail(q), b, g)
           /\ Head(q) \in Moves => ArrivalFirst(Tail(q), b)
           /\ Head(q) = "granted" => DenialFirst(Tail(q), g)
           /\ ArrivalFirst(q, b) /\ Head(q) # "joined" => ArrivalFirst(Tail(q), b) /\ Head(q) \notin PermissionNews
           /\ DenialFirst(q, g) /\ Head(q) # "denied" => DenialFirst(Tail(q), g) /\ Head(q) # "granted"
<1>1. PICK n \in Nat : n = Len(Tail(q))
  BY OneLess
<1>2. PICK r : r = Tail(q)
  OBVIOUS
<1>3. /\ r \in Seq(News) /\ Len(r) = n /\ Len(q) = n + 1 /\ Head(q) = q[1]
      /\ \A i \in 1 .. n : r[i] = q[i + 1] /\ i + 1 \in 1 .. n + 1
  BY <1>1, <1>2, OneLess
<1>4. \A j \in 1 .. n + 1 : 1 < j => j - 1 \in 1 .. n /\ r[j - 1] = q[j]
  <2>1. ASSUME NEW j \in 1 .. n + 1, 1 < j PROVE j - 1 \in 1 .. n /\ r[j - 1] = q[j]
    <3>1. j - 1 \in 1 .. n /\ (j - 1) + 1 = j
      BY <2>1
    <3> QED
      BY <1>3, <3>1
  <2> QED
    BY <2>1
<1>5. InOrder(r, b, g)
  <2>1. ASSUME NEW i \in 1 .. n, NEW k \in 1 .. n, i < k, r[i] \in Moves, r[k] \in PermissionNews
        PROVE  \E j \in 1 .. n : i < j /\ j < k /\ r[j] = "joined"
    <3>1. PICK j \in 1 .. n + 1 : i + 1 < j /\ j < k + 1 /\ q[j] = "joined"
      BY <1>3, <2>1 DEF InOrder
    <3> QED
      BY <1>4, <3>1
  <2>2. ASSUME b = "meeting", NEW i \in 1 .. n, r[i] \in Moves PROVE \E j \in 1 .. n : i < j /\ r[j] = "joined"
    <3>1. PICK j \in 1 .. n + 1 : i + 1 < j /\ q[j] = "joined"
      BY <1>3, <2>2 DEF InOrder
    <3> QED
      BY <1>4, <3>1
  <2>3. ASSUME NEW i \in 1 .. n, NEW k \in 1 .. n, i < k, r[i] = "granted", r[k] = "granted"
        PROVE  \E j \in 1 .. n : i < j /\ j < k /\ r[j] = "denied"
    <3>1. PICK j \in 1 .. n + 1 : i + 1 < j /\ j < k + 1 /\ q[j] = "denied"
      BY <1>3, <2>3 DEF InOrder
    <3> QED
      BY <1>4, <3>1
  <2>4. ASSUME g = FALSE, NEW i \in 1 .. n, r[i] = "granted" PROVE \E j \in 1 .. n : i < j /\ r[j] = "denied"
    <3>1. PICK j \in 1 .. n + 1 : i + 1 < j /\ q[j] = "denied"
      BY <1>3, <2>4 DEF InOrder
    <3> QED
      BY <1>4, <3>1
  <2>5. \A i, k \in 1 .. Len(r) : i < k /\ r[i] \in Moves /\ r[k] \in PermissionNews =>
           \E j \in 1 .. Len(r) : i < j /\ j < k /\ r[j] = "joined"
    BY <1>3, <2>1
  <2>6. b = "meeting" =>
           \A i \in 1 .. Len(r) : r[i] \in Moves => \E j \in 1 .. Len(r) : i < j /\ r[j] = "joined"
    BY <1>3, <2>2
  <2>7. \A i, k \in 1 .. Len(r) : i < k /\ r[i] = "granted" /\ r[k] = "granted" =>
           \E j \in 1 .. Len(r) : i < j /\ j < k /\ r[j] = "denied"
    BY <1>3, <2>3
  <2>8. g = FALSE =>
           \A i \in 1 .. Len(r) : r[i] = "granted" => \E j \in 1 .. Len(r) : i < j /\ r[j] = "denied"
    BY <1>3, <2>4
  <2> QED
    BY <2>5, <2>6, <2>7, <2>8 DEF InOrder
<1>6. ASSUME q[1] \in Moves PROVE ArrivalFirst(r, b)
  <2>1. ASSUME NEW k \in 1 .. n, r[k] \in PermissionNews PROVE \E j \in 1 .. n : j < k /\ r[j] = "joined"
    <3>1. PICK j \in 1 .. n + 1 : 1 < j /\ j < k + 1 /\ q[j] = "joined"
      BY <1>3, <1>6, <2>1 DEF InOrder
    <3> QED
      BY <1>4, <3>1
  <2>2. ASSUME b = "meeting" PROVE \E j \in 1 .. n : r[j] = "joined"
    <3>1. PICK j \in 1 .. n + 1 : 1 < j /\ q[j] = "joined"
      BY <1>3, <1>6, <2>2 DEF InOrder
    <3> QED
      BY <1>4, <3>1
  <2> QED
    BY <1>3, <2>1, <2>2 DEF ArrivalFirst
<1>7. ASSUME q[1] = "granted" PROVE DenialFirst(r, g)
  <2>1. ASSUME NEW k \in 1 .. n, r[k] = "granted" PROVE \E j \in 1 .. n : j < k /\ r[j] = "denied"
    <3>1. PICK j \in 1 .. n + 1 : 1 < j /\ j < k + 1 /\ q[j] = "denied"
      BY <1>3, <1>7, <2>1 DEF InOrder
    <3> QED
      BY <1>4, <3>1
  <2>2. ASSUME g = FALSE PROVE \E j \in 1 .. n : r[j] = "denied"
    <3>1. PICK j \in 1 .. n + 1 : 1 < j /\ q[j] = "denied"
      BY <1>3, <1>7, <2>2 DEF InOrder
    <3> QED
      BY <1>4, <3>1
  <2> QED
    BY <1>3, <2>1, <2>2 DEF DenialFirst
<1>8. ASSUME ArrivalFirst(q, b), q[1] # "joined" PROVE ArrivalFirst(r, b) /\ q[1] \notin PermissionNews
  <2>1. ASSUME NEW k \in 1 .. n, r[k] \in PermissionNews PROVE \E j \in 1 .. n : j < k /\ r[j] = "joined"
    <3>1. PICK j \in 1 .. n + 1 : j < k + 1 /\ q[j] = "joined"
      BY <1>3, <1>8, <2>1 DEF ArrivalFirst
    <3> QED
      BY <1>4, <1>8, <3>1
  <2>2. ASSUME b = "meeting" PROVE \E j \in 1 .. n : r[j] = "joined"
    <3>1. PICK j \in 1 .. n + 1 : q[j] = "joined"
      BY <1>3, <1>8, <2>2 DEF ArrivalFirst
    <3> QED
      BY <1>4, <1>8, <3>1
  <2>3. q[1] \notin PermissionNews
    BY <1>3, <1>8 DEF ArrivalFirst
  <2> QED
    BY <1>3, <2>1, <2>2, <2>3 DEF ArrivalFirst
<1>9. ASSUME DenialFirst(q, g), q[1] # "denied" PROVE DenialFirst(r, g) /\ q[1] # "granted"
  <2>1. ASSUME NEW k \in 1 .. n, r[k] = "granted" PROVE \E j \in 1 .. n : j < k /\ r[j] = "denied"
    <3>1. PICK j \in 1 .. n + 1 : j < k + 1 /\ q[j] = "denied"
      BY <1>3, <1>9, <2>1 DEF DenialFirst
    <3> QED
      BY <1>4, <1>9, <3>1
  <2>2. ASSUME g = FALSE PROVE \E j \in 1 .. n : r[j] = "denied"
    <3>1. PICK j \in 1 .. n + 1 : q[j] = "denied"
      BY <1>3, <1>9, <2>2 DEF DenialFirst
    <3> QED
      BY <1>4, <1>9, <3>1
  <2>3. q[1] # "granted"
    BY <1>3, <1>9 DEF DenialFirst
  <2> QED
    BY <1>3, <2>1, <2>2, <2>3 DEF DenialFirst
<1> QED
  BY <1>2, <1>3, <1>5, <1>6, <1>7, <1>8, <1>9

-----------------------------------------------------------------------------
(* The rows. *)

\* The events the process and the API create here.
ZoomEvents ==
    BreakoutArrivals \cup BreakoutDepartures \cup
    {"BOT_PUT_IN_WAITING_ROOM", "BOT_JOINED_MEETING", "COULD_NOT_JOIN", "MEETING_ENDED", "BOT_LEFT_MEETING",
     "BOT_RECORDING_PERMISSION_GRANTED", "BOT_RECORDING_PERMISSION_DENIED", "LEAVE_REQUESTED",
     "RECORDING_PAUSED", "RECORDING_RESUMED", "FATAL_ERROR"}

ZoomRows == [state : States, recording : RecordingStates, last : EventRows \cup {NoEvent}, copy : States, taken : BOOLEAN]

LEMMA RowAfter ==
    ASSUME zoomBot \in ZoomRows, NEW e, NEW after \in RowsAfter(e)
    PROVE  /\ zoomBot.state \in From(e) /\ CanResolveTarget(e, zoomBot.last)
           /\ after.state = Target(e, zoomBot.last)
           /\ after.recording \in RecordingsAfter(e, zoomBot.state, after.state, zoomBot.recording)
           /\ after.last = IF e \in BreakoutDepartures
                         THEN [type |-> e, old |-> zoomBot.state, new |-> after.state] ELSE NoEvent
           /\ after.copy = zoomBot.copy /\ after.taken = FALSE
           /\ DOMAIN after = {"state", "recording", "last", "copy", "taken"}
           /\ after = [state |-> after.state, recording |-> after.recording, last |-> after.last, copy |-> after.copy, taken |-> FALSE]
<1>1. PICK to : to = Target(e, zoomBot.last)
  OBVIOUS
<1>2. zoomBot.state \in From(e) /\ CanResolveTarget(e, zoomBot.last)
  BY DEF RowsAfter
<1>3. PICK r \in RecordingsAfter(e, zoomBot.state, to, zoomBot.recording) :
         after = [zoomBot EXCEPT !.state = to, !.recording = r, !.taken = FALSE,
                               !.last = IF e \in BreakoutDepartures
                                        THEN [type |-> e, old |-> zoomBot.state, new |-> to] ELSE NoEvent]
  BY <1>1, <1>2 DEF RowsAfter
<1> QED
  BY <1>1, <1>2, <1>3 DEF ZoomRows

LEMMA RowThere ==
    ASSUME zoomBot \in ZoomRows, NEW e, zoomBot.state \in From(e), CanResolveTarget(e, zoomBot.last),
           NEW r \in RecordingsAfter(e, zoomBot.state, Target(e, zoomBot.last), zoomBot.recording)
    PROVE  RowsAfter(e) # {}
BY DEF RowsAfter

\* A bot is told where it is.
LEMMA ToldWhere ==
    ASSUME zoomBot \in ZoomRows, RowFits, NEW e \in ZoomEvents, NEW after \in RowsAfter(e)
    PROVE  /\ e \notin BreakoutArrivals \cup BreakoutDepartures => after.state = FixedTarget(e) /\ after.last = NoEvent
           /\ e \in BreakoutDepartures => /\ after.state \in BreakoutStates /\ after.recording = zoomBot.recording
                                          /\ zoomBot.state \in JoinedStates
                                          /\ after.last.type \in BreakoutDepartures /\ after.last.old = zoomBot.state
                                          /\ after.last \in EventRows
           /\ e \in BreakoutArrivals => /\ zoomBot.state \in BreakoutStates
                                        /\ after.state = zoomBot.last.old /\ after.state \in JoinedStates
                                        /\ after.recording = zoomBot.recording
                                        /\ after.state # "JOINED_RECORDING_PAUSED"
                                        /\ after.last = NoEvent
<1>1. CASE e \notin BreakoutArrivals \cup BreakoutDepartures
  BY <1>1, RowAfter DEF Target
<1>2. CASE e \in BreakoutDepartures
  <2>1. e = "BOT_BEGAN_JOINING_BREAKOUT_ROOM" \/ e = "BOT_BEGAN_LEAVING_BREAKOUT_ROOM"
    BY <1>2 DEF BreakoutDepartures
  <2>2. after.state \in BreakoutStates /\ zoomBot.state \in JoinedStates
    <3>1. after.state = FixedTarget(e) /\ zoomBot.state \in From(e)
      BY <2>1, RowAfter DEF Target, BreakoutArrivals
    <3> QED
      BY <2>1, <3>1 DEF FixedTarget, From, BreakoutDepartures, BreakoutStates, PostMeetingStates
  <2>3. after.recording \in RecordingsAfter(e, zoomBot.state, after.state, zoomBot.recording)
    BY RowAfter
  <2>4. after.recording = zoomBot.recording
    BY <2>2, <2>3 DEF RecordingsAfter, BreakoutStates, EndsSession, PostMeetingStates
  <2>5. e \in EventTypes
    BY <2>1 DEF EventTypes, MeetingEvents, BreakoutDepartures
  <2>6. e \notin BreakoutArrivals
    BY <2>1 DEF BreakoutArrivals
  <2>7. after.state \in States /\ zoomBot.state \in States
    BY <2>2 DEF States
  <2>8. after.last = [type |-> e, old |-> zoomBot.state, new |-> after.state]
    BY <1>2, RowAfter
  <2> QED
    BY <1>2, <2>2, <2>4, <2>5, <2>6, <2>7, <2>8 DEF EventRows
<1>3. CASE e \in BreakoutArrivals
  <2>1. e = "BOT_JOINED_BREAKOUT_ROOM" \/ e = "BOT_LEFT_BREAKOUT_ROOM"
    BY <1>3 DEF BreakoutArrivals
  <2>2. zoomBot.state \in BreakoutStates
    BY <2>1, RowAfter DEF From, BreakoutStates, BreakoutDepartures
  <2>3. after.state = zoomBot.last.old /\ after.state \in JoinedStates /\ zoomBot.last.old = Returning
    BY <1>3, <2>2, RowAfter DEF Target, RowFits, Returning
  <2>4. after.recording \in RecordingsAfter(e, zoomBot.state, after.state, zoomBot.recording)
    BY RowAfter
  <2>5. after.state # "JOINED_RECORDING_PAUSED"
    BY <2>3, <2>4 DEF RecordingsAfter, RowFits, EndsSession, PostMeetingStates
  <2>6. after.recording = zoomBot.recording
    <3>1. CASE after.state = "JOINED_RECORDING"
      BY <2>3, <2>4, <3>1 DEF RecordingsAfter, RowFits, EndsSession, PostMeetingStates
    <3>2. CASE after.state = "JOINED_RECORDING_PERMISSION_DENIED"
      BY <2>3, <2>4, <3>2 DEF RecordingsAfter, RowFits, EndsSession, PostMeetingStates
    <3>3. CASE after.state = "JOINED_NOT_RECORDING"
      BY <2>3, <2>4, <3>3 DEF RecordingsAfter, EndsSession, PostMeetingStates
    <3> QED
      BY <2>3, <2>5, <3>1, <3>2, <3>3 DEF JoinedStates
  <2>7. e \notin BreakoutDepartures
    BY <2>1 DEF BreakoutDepartures
  <2>8. after.last = NoEvent
    BY <2>7, RowAfter
  <2> QED
    BY <1>3, <2>2, <2>3, <2>5, <2>6, <2>7, <2>8
<1> QED
  BY <1>1, <1>2, <1>3

\* What the other events say.
LEMMA ToldWhat ==
    ASSUME zoomBot \in ZoomRows, RowFits, NEW e \in ZoomEvents, NEW after \in RowsAfter(e)
    PROVE  /\ e = "BOT_PUT_IN_WAITING_ROOM" => after.state = "WAITING_ROOM" /\ after.recording = "NOT_STARTED"
           /\ e = "BOT_JOINED_MEETING" => after.state = "JOINED_NOT_RECORDING" /\ after.recording = "NOT_STARTED"
           /\ e = "BOT_RECORDING_PERMISSION_GRANTED" => after.state = "JOINED_RECORDING" /\ after.recording = "IN_PROGRESS"
           /\ e = "BOT_RECORDING_PERMISSION_DENIED" =>
                 /\ after.state = "JOINED_RECORDING_PERMISSION_DENIED" /\ after.recording \in {"NOT_STARTED", "PAUSED"}
           /\ e = "RECORDING_PAUSED" => /\ after.state = "JOINED_RECORDING_PAUSED" /\ after.recording = "PAUSED"
                                        /\ zoomBot.state = "JOINED_RECORDING"
           /\ e = "RECORDING_RESUMED" => /\ after.state = "JOINED_RECORDING" /\ after.recording = "IN_PROGRESS"
                                         /\ zoomBot.state = "JOINED_RECORDING_PAUSED"
           /\ e \in {"COULD_NOT_JOIN", "MEETING_ENDED", "BOT_LEFT_MEETING", "LEAVE_REQUESTED", "FATAL_ERROR"} =>
                 /\ after.state \in {"FATAL_ERROR", "POST_PROCESSING", "LEAVING"}
                 /\ after.recording \in RecordingStates
           /\ e = "LEAVE_REQUESTED" => after.state = "LEAVING"
<1>1. after.recording \in RecordingsAfter(e, zoomBot.state, after.state, zoomBot.recording) /\ zoomBot.state \in From(e)
  BY RowAfter
<1>2. zoomBot.state \notin BreakoutStates => Returning = zoomBot.state
  BY DEF Returning
<1>3. e \notin BreakoutArrivals \cup BreakoutDepartures => after.state = FixedTarget(e)
  BY ToldWhere
<1>4. CASE e = "BOT_PUT_IN_WAITING_ROOM"
  <2>1. after.state = "WAITING_ROOM" /\ zoomBot.state = "JOINING"
    BY <1>1, <1>3, <1>4 DEF FixedTarget, From, BreakoutArrivals, BreakoutDepartures
  <2> QED
    BY <1>1, <1>2, <1>4, <2>1 DEF RecordingsAfter, RowFits, EndsSession, PostMeetingStates, BreakoutStates
<1>5. CASE e = "BOT_JOINED_MEETING"
  <2>1. after.state = "JOINED_NOT_RECORDING" /\ zoomBot.state \in {"JOINING", "WAITING_ROOM"}
    BY <1>1, <1>3, <1>5 DEF FixedTarget, From, BreakoutArrivals, BreakoutDepartures
  <2> QED
    BY <1>1, <1>2, <1>5, <2>1 DEF RecordingsAfter, RowFits, EndsSession, PostMeetingStates, BreakoutStates
<1>6. CASE e = "BOT_RECORDING_PERMISSION_GRANTED"
  <2>1. after.state = "JOINED_RECORDING"
    BY <1>3, <1>6 DEF FixedTarget, BreakoutArrivals, BreakoutDepartures
  <2> QED
    BY <1>1, <1>6, <2>1 DEF RecordingsAfter, BreakoutArrivals, EndsSession, PostMeetingStates
<1>7. CASE e = "BOT_RECORDING_PERMISSION_DENIED"
  <2>1. after.state = "JOINED_RECORDING_PERMISSION_DENIED" /\ zoomBot.state \in JoinedStates
    BY <1>1, <1>3, <1>7 DEF FixedTarget, From, BreakoutArrivals, BreakoutDepartures
  <2>2. zoomBot.recording \in {"NOT_STARTED", "PAUSED", "IN_PROGRESS"}
    BY <1>2, <2>1 DEF RowFits, JoinedStates, BreakoutStates
  <2> QED
    BY <1>1, <1>7, <2>1, <2>2 DEF RecordingsAfter, EndsSession, PostMeetingStates
<1>8. CASE e = "RECORDING_PAUSED"
  <2>1. after.state = "JOINED_RECORDING_PAUSED" /\ zoomBot.state = "JOINED_RECORDING"
    BY <1>1, <1>3, <1>8 DEF FixedTarget, From, BreakoutArrivals, BreakoutDepartures
  <2> QED
    BY <1>1, <1>8, <2>1 DEF RecordingsAfter, EndsSession, PostMeetingStates
<1>9. CASE e = "RECORDING_RESUMED"
  <2>1. after.state = "JOINED_RECORDING" /\ zoomBot.state = "JOINED_RECORDING_PAUSED"
    BY <1>1, <1>3, <1>9 DEF FixedTarget, From, BreakoutArrivals, BreakoutDepartures
  <2> QED
    BY <1>1, <1>9, <2>1 DEF RecordingsAfter, BreakoutArrivals, EndsSession, PostMeetingStates
<1>10. CASE e \in {"COULD_NOT_JOIN", "MEETING_ENDED", "BOT_LEFT_MEETING", "LEAVE_REQUESTED", "FATAL_ERROR"}
  <2>1. after.state \in {"FATAL_ERROR", "POST_PROCESSING", "LEAVING"} /\ (e = "LEAVE_REQUESTED" => after.state = "LEAVING")
    BY <1>3, <1>10 DEF FixedTarget, BreakoutArrivals, BreakoutDepartures
  <2>2. zoomBot.recording \in RecordingStates
    BY DEF ZoomRows
  <2>3. after.recording \in RecordingStates
    BY <1>1, <2>1, <2>2 DEF RecordingsAfter, RecordingStates, EndsSession, PostMeetingStates
  <2> QED
    BY <1>10, <2>1, <2>3
<1> QED
  BY <1>4, <1>5, <1>6, <1>7, <1>8, <1>9, <1>10 DEF ZoomEvents

\* A row that fits its state takes every event the adapter has acted on.
LEMMA EventTaken ==
    ASSUME zoomBot \in ZoomRows, RowFits, NEW e, RowsAfter(e) = {}
    PROVE  /\ e = "BOT_RECORDING_PERMISSION_DENIED" => zoomBot.state \notin JoinedStates
           /\ e = "BOT_RECORDING_PERMISSION_GRANTED" =>
                 zoomBot.state \notin {"JOINED_NOT_RECORDING", "JOINED_RECORDING_PERMISSION_DENIED"}
           /\ e = "RECORDING_PAUSED" => zoomBot.state # "JOINED_RECORDING"
           /\ e = "RECORDING_RESUMED" => zoomBot.state # "JOINED_RECORDING_PAUSED"
           /\ e = "BOT_JOINED_BREAKOUT_ROOM" /\ zoomBot.state = "JOINING_BREAKOUT_ROOM" =>
                 Returning = "JOINED_RECORDING_PAUSED"
           /\ e = "BOT_LEFT_BREAKOUT_ROOM" /\ zoomBot.state = "LEAVING_BREAKOUT_ROOM" =>
                 Returning = "JOINED_RECORDING_PAUSED"
<1>1. zoomBot.state \notin BreakoutStates => Returning = zoomBot.state
  BY DEF Returning
<1>2. ASSUME e = "BOT_RECORDING_PERMISSION_DENIED", zoomBot.state \in JoinedStates PROVE FALSE
  <2>1. zoomBot.state \in From(e) /\ CanResolveTarget(e, zoomBot.last)
    BY <1>2 DEF From, CanResolveTarget, BreakoutArrivals, BreakoutDepartures
  <2>2. Target(e, zoomBot.last) = "JOINED_RECORDING_PERMISSION_DENIED"
    BY <1>2 DEF Target, FixedTarget, BreakoutArrivals, BreakoutDepartures
  <2>3. \E r : r \in RecordingsAfter(e, zoomBot.state, "JOINED_RECORDING_PERMISSION_DENIED", zoomBot.recording)
    BY <1>2 DEF RecordingsAfter, EndsSession, PostMeetingStates
  <2> QED
    BY <2>1, <2>2, <2>3, RowThere
<1>3. ASSUME e = "BOT_RECORDING_PERMISSION_GRANTED",
             zoomBot.state \in {"JOINED_NOT_RECORDING", "JOINED_RECORDING_PERMISSION_DENIED"}
      PROVE  FALSE
  <2>1. zoomBot.state \in From(e) /\ CanResolveTarget(e, zoomBot.last)
    BY <1>3 DEF From, CanResolveTarget, BreakoutArrivals, BreakoutDepartures
  <2>2. Target(e, zoomBot.last) = "JOINED_RECORDING"
    BY <1>3 DEF Target, FixedTarget, BreakoutArrivals, BreakoutDepartures
  <2>3. zoomBot.recording \in {"NOT_STARTED", "PAUSED"}
    BY <1>1, <1>3 DEF RowFits, BreakoutStates
  <2>4. \E r : r \in RecordingsAfter(e, zoomBot.state, "JOINED_RECORDING", zoomBot.recording)
    BY <1>3, <2>3 DEF RecordingsAfter, EndsSession, PostMeetingStates
  <2> QED
    BY <2>1, <2>2, <2>4, RowThere
<1>4. ASSUME e = "RECORDING_PAUSED", zoomBot.state = "JOINED_RECORDING" PROVE FALSE
  <2>1. zoomBot.state \in From(e) /\ CanResolveTarget(e, zoomBot.last)
    BY <1>4 DEF From, CanResolveTarget, BreakoutArrivals, BreakoutDepartures
  <2>2. Target(e, zoomBot.last) = "JOINED_RECORDING_PAUSED"
    BY <1>4 DEF Target, FixedTarget, BreakoutArrivals, BreakoutDepartures
  <2>3. zoomBot.recording = "IN_PROGRESS"
    BY <1>1, <1>4 DEF RowFits, BreakoutStates
  <2>4. \E r : r \in RecordingsAfter(e, zoomBot.state, "JOINED_RECORDING_PAUSED", zoomBot.recording)
    BY <1>4, <2>3 DEF RecordingsAfter, EndsSession, PostMeetingStates
  <2> QED
    BY <2>1, <2>2, <2>4, RowThere
<1>5. ASSUME e = "RECORDING_RESUMED", zoomBot.state = "JOINED_RECORDING_PAUSED" PROVE FALSE
  <2>1. zoomBot.state \in From(e) /\ CanResolveTarget(e, zoomBot.last)
    BY <1>5 DEF From, CanResolveTarget, BreakoutArrivals, BreakoutDepartures
  <2>2. Target(e, zoomBot.last) = "JOINED_RECORDING"
    BY <1>5 DEF Target, FixedTarget, BreakoutArrivals, BreakoutDepartures
  <2>3. zoomBot.recording = "PAUSED"
    BY <1>1, <1>5 DEF RowFits, BreakoutStates
  <2>4. \E r : r \in RecordingsAfter(e, zoomBot.state, "JOINED_RECORDING", zoomBot.recording)
    BY <1>5, <2>3 DEF RecordingsAfter, EndsSession, PostMeetingStates
  <2> QED
    BY <2>1, <2>2, <2>4, RowThere
<1>6. ASSUME \/ e = "BOT_JOINED_BREAKOUT_ROOM" /\ zoomBot.state = "JOINING_BREAKOUT_ROOM"
             \/ e = "BOT_LEFT_BREAKOUT_ROOM" /\ zoomBot.state = "LEAVING_BREAKOUT_ROOM",
             Returning # "JOINED_RECORDING_PAUSED"
      PROVE  FALSE
  <2>0. e \in BreakoutArrivals /\ zoomBot.state \in BreakoutStates
    BY <1>6 DEF BreakoutArrivals, BreakoutStates
  <2>1. zoomBot.state \in From(e)
    BY <1>6 DEF From, BreakoutDepartures
  <2>2. CanResolveTarget(e, zoomBot.last) /\ zoomBot.last.old \in JoinedStates
    BY <2>0 DEF CanResolveTarget, RowFits
  <2>3. Target(e, zoomBot.last) = Returning
    BY <2>0 DEF Target, Returning
  <2>4. \E r : r \in RecordingsAfter(e, zoomBot.state, Returning, zoomBot.recording)
    <3>1. CASE Returning = "JOINED_RECORDING"
      BY <2>0, <3>1 DEF RecordingsAfter, EndsSession, PostMeetingStates
    <3>2. CASE Returning = "JOINED_RECORDING_PERMISSION_DENIED"
      BY <3>2 DEF RecordingsAfter, EndsSession, PostMeetingStates
    <3>3. CASE Returning = "JOINED_NOT_RECORDING"
      BY <3>3 DEF RecordingsAfter, EndsSession, PostMeetingStates
    <3> QED
      BY <1>6, <2>0, <2>2, <3>1, <3>2, <3>3 DEF Returning, JoinedStates
  <2> QED
    BY <2>1, <2>2, <2>3, <2>4, RowThere
<1> QED
  BY <1>2, <1>3, <1>4, <1>5, <1>6

\* What an event leaves is a row.
LEMMA RowTyped ==
    ASSUME zoomBot \in ZoomRows, RowFits, NEW e \in ZoomEvents, NEW after \in RowsAfter(e)
    PROVE  /\ after \in ZoomRows
           /\ [after EXCEPT !.copy = after.state] \in ZoomRows
           /\ [after EXCEPT !.copy = after.state, !.taken = TRUE] \in ZoomRows
<1>1. after.state \in States
  <2>1. CASE e \in BreakoutArrivals \cup BreakoutDepartures
    BY <2>1, ToldWhere DEF States
  <2>2. CASE e \notin BreakoutArrivals \cup BreakoutDepartures
    BY <2>2, ToldWhat DEF States, ZoomEvents, JoinedStates, PostMeetingStates
  <2> QED
    BY <2>1, <2>2
<1>2. after.recording \in RecordingStates
  <2>1. zoomBot.recording \in RecordingStates
    BY DEF ZoomRows
  <2>2. CASE e \in BreakoutArrivals \cup BreakoutDepartures
    BY <2>1, <2>2, ToldWhere
  <2>3. CASE e \notin BreakoutArrivals \cup BreakoutDepartures
    BY <2>3, ToldWhat DEF RecordingStates, ZoomEvents
  <2> QED
    BY <2>2, <2>3
<1>3. after.last \in EventRows \cup {NoEvent}
  BY ToldWhere
<1>4. zoomBot.copy \in States
  BY DEF ZoomRows
<1>5. PICK s : s = after.state
  OBVIOUS
<1>6. PICK r, l, c : r = after.recording /\ l = after.last /\ c = after.copy
  OBVIOUS
<1>7. after = [state |-> s, recording |-> r, last |-> l, copy |-> c, taken |-> FALSE]
  BY <1>5, <1>6, RowAfter
<1>8. c \in States
  BY <1>4, <1>6, RowAfter
<1>9. s \in States /\ r \in RecordingStates /\ l \in EventRows \cup {NoEvent}
  BY <1>1, <1>2, <1>3, <1>5, <1>6
<1>10. after \in ZoomRows
  BY <1>7, <1>8, <1>9 DEF ZoomRows
<1>11. [after EXCEPT !.copy = after.state] \in ZoomRows
  BY <1>5, <1>9, <1>10 DEF ZoomRows
<1>12. [after EXCEPT !.copy = after.state, !.taken = TRUE] \in ZoomRows
  BY <1>5, <1>9, <1>10 DEF ZoomRows
<1> QED
  BY <1>10, <1>11, <1>12

-----------------------------------------------------------------------------
(* What the steps do to rows, news and adapter. *)

RowStays ==
    /\ zoomBot'.state = zoomBot.state /\ zoomBot'.recording = zoomBot.recording /\ zoomBot'.last = zoomBot.last
    /\ zoomBot'.copy = zoomBot.copy \/ zoomBot'.copy = zoomBot.state
RowLeaves ==
    /\ zoomBot'.state \in {"LEAVING", "POST_PROCESSING", "FATAL_ERROR"}
    /\ zoomBot'.copy = zoomBot'.state \/ zoomBot'.state = "LEAVING"
SoundStays ==
    /\ zoom'.raw = zoom.raw /\ zoom'.paused = zoom.paused /\ (zoom'.video => zoom'.raw)
    /\ zoomPast'.broken = zoomPast.broken
NewsGrow ==
    \/ Grows(backlog, sdk.status, zoom.granted, backlog', sdk'.status, zoom'.granted)
    \/ Grows(Append(backlog, "joined"), "meeting", zoom.granted, backlog', sdk'.status, zoom'.granted)

\* The first callback is taken; a leave may put another one at the end.
Hears(m) ==
    /\ backlog # <<>> /\ Head(backlog) = m
    /\ backlog' = Tail(backlog) \/ backlog' = Append(Tail(backlog), "ended")
    /\ sdk'.status = sdk.status /\ zoom'.granted = zoom.granted

Fits == RowFits /\ CopyFits /\ NewsFits /\ AdapterFits

LEMMA ZoomTyped ==
    ASSUME ZoomTypeOK
    PROVE  /\ backlog \in Seq(News) /\ zoom.granted \in BOOLEAN
           /\ zoomBot \in ZoomRows
BY DEF ZoomTypeOK, News, ZoomRows

LEMMA LeavingFits ==
    ASSUME RowLeaves, InOrder(backlog, sdk.status, zoom.granted)', zoom'.video => zoom'.raw
    PROVE  Fits'
<1>1. zoomBot'.state \notin BreakoutStates
  BY DEF RowLeaves, BreakoutStates
<1>2. Returning' = zoomBot'.state
  BY <1>1 DEF Returning
<1>3. RowFits'
  BY <1>1, <1>2 DEF RowLeaves, RowFits
<1>4. CopyFits'
  BY DEF RowLeaves, CopyFits
<1>5. NewsFits'
  BY <1>1, <1>2 DEF RowLeaves, NewsFits
<1>6. AdapterFits'
  BY <1>1, <1>2 DEF RowLeaves, AdapterFits
<1> QED
  BY <1>3, <1>4, <1>5, <1>6 DEF Fits

LEMMA NewsGrowing ==
    ASSUME ZoomTypeOK, ZoomTypeOK', NewsGrow, InOrder(backlog, sdk.status, zoom.granted)
    PROVE  /\ InOrder(backlog, sdk.status, zoom.granted)'
           /\ ArrivalFirst(backlog, sdk.status) => ArrivalFirst(backlog, sdk.status)'
           /\ DenialFirst(backlog, zoom.granted) => DenialFirst(backlog, zoom.granted)'
<1>1. PICK q, b, g : q = backlog /\ b = sdk.status /\ g = zoom.granted
  OBVIOUS
<1>2. PICK q2, b2, g2 : q2 = backlog' /\ b2 = sdk'.status /\ g2 = zoom'.granted
  OBVIOUS
<1>3. q \in Seq(News)
  BY <1>1, <1>2, ZoomTyped DEF ZoomTypeOK
<1>4. CASE Grows(q, b, g, q2, b2, g2)
  <2>1. InOrder(q2, b2, g2)
    BY <1>1, <1>3, <1>4, OrderGrows, Zenon
  <2>2. ArrivalFirst(q, b) => ArrivalFirst(q2, b2)
    BY <1>3, <1>4, ArrivalGrows, Zenon
  <2>3. DenialFirst(q, g) => DenialFirst(q2, g2)
    BY <1>3, <1>4, DenialGrows, Zenon
  <2> QED
    BY <1>1, <1>2, <2>1, <2>2, <2>3
<1>5. CASE Grows(Append(q, "joined"), "meeting", g, q2, b2, g2)
  <2>1. PICK p : p = Append(q, "joined")
    OBVIOUS
  <2>2. Grows(q, b, g, p, "meeting", g)
    BY <2>1 DEF Grows
  <2>3. p \in Seq(News)
    BY <1>3, <2>1, OneMore, NewsNames
  <2>4. InOrder(p, "meeting", g)
    BY <1>1, <1>3, <2>2, OrderGrows, Zenon
  <2>5. ArrivalFirst(q, b) => ArrivalFirst(p, "meeting")
    BY <1>3, <2>2, ArrivalGrows, Zenon
  <2>6. DenialFirst(q, g) => DenialFirst(p, g)
    BY <1>3, <2>2, DenialGrows, Zenon
  <2>7. Grows(p, "meeting", g, q2, b2, g2)
    BY <1>5, <2>1
  <2>8. InOrder(q2, b2, g2)
    BY <1>3, <2>3, <2>4, <2>7, OrderGrows, Zenon
  <2>9. ArrivalFirst(p, "meeting") => ArrivalFirst(q2, b2)
    BY <1>3, <2>3, <2>7, ArrivalGrows, Zenon
  <2>10. DenialFirst(p, g) => DenialFirst(q2, g2)
    BY <1>3, <2>3, <2>7, DenialGrows, Zenon
  <2> QED
    BY <1>1, <1>2, <2>5, <2>6, <2>8, <2>9, <2>10
<1> QED
  BY <1>1, <1>2, <1>4, <1>5 DEF NewsGrow

\* What goes on outside the main loop's callbacks.
LEMMA OutsideFits ==
    ASSUME ZoomTypeOK, ZoomTypeOK', Fits, NewsGrow, SoundStays, RowStays \/ RowLeaves
    PROVE  Fits'
<1>1. InOrder(backlog, sdk.status, zoom.granted)
  BY DEF Fits, NewsFits
<1>2. /\ InOrder(backlog, sdk.status, zoom.granted)'
      /\ ArrivalFirst(backlog, sdk.status) => ArrivalFirst(backlog, sdk.status)'
      /\ DenialFirst(backlog, zoom.granted) => DenialFirst(backlog, zoom.granted)'
  BY <1>1, NewsGrowing
<1>3. CASE RowLeaves
  BY <1>2, <1>3, LeavingFits DEF SoundStays
<1>4. CASE RowStays
  <2>1. Returning' = Returning
    BY <1>4 DEF RowStays, Returning
  <2>2. RowFits'
    BY <1>4, <2>1 DEF Fits, RowStays, RowFits
  <2>3. CopyFits'
    BY <1>4 DEF Fits, RowStays, CopyFits
  <2>4. NewsFits'
    BY <1>2, <1>4, <2>1 DEF Fits, RowStays, NewsFits
  <2>5. AdapterFits'
    BY <1>4, <2>1 DEF Fits, RowStays, SoundStays, AdapterFits
  <2> QED
    BY <2>2, <2>3, <2>4, <2>5 DEF Fits
<1> QED
  BY <1>3, <1>4

\* What the callbacks left say after the first of them.
LEMMA NewsHeard ==
    ASSUME ZoomTypeOK, ZoomTypeOK', NewsFits, NEW m, Hears(m)
    PROVE  /\ InOrder(backlog, sdk.status, zoom.granted)'
           /\ m \in Moves => ArrivalFirst(backlog, sdk.status)'
           /\ m = "granted" => DenialFirst(backlog, zoom.granted)'
           /\ ArrivalFirst(backlog, sdk.status) /\ m # "joined" =>
                 ArrivalFirst(backlog, sdk.status)' /\ m \notin PermissionNews
           /\ DenialFirst(backlog, zoom.granted) /\ m # "denied" =>
                 DenialFirst(backlog, zoom.granted)' /\ m # "granted"
<1>1. PICK q, b, g : q = backlog /\ b = sdk.status /\ g = zoom.granted
  OBVIOUS
<1>2. PICK q2 : q2 = backlog'
  OBVIOUS
<1>3. PICK t : t = Tail(q)
  OBVIOUS
<1>4. q \in Seq(News) /\ q # <<>> /\ Head(q) = m
  BY <1>1, ZoomTyped DEF Hears
<1>5. InOrder(q, b, g)
  BY <1>1 DEF NewsFits
<1>6. b = sdk'.status /\ g = zoom'.granted
  BY <1>1 DEF Hears
<1>7. /\ t \in Seq(News) /\ InOrder(t, b, g)
      /\ m \in Moves => ArrivalFirst(t, b)
      /\ m = "granted" => DenialFirst(t, g)
      /\ ArrivalFirst(q, b) /\ m # "joined" => ArrivalFirst(t, b) /\ m \notin PermissionNews
      /\ DenialFirst(q, g) /\ m # "denied" => DenialFirst(t, g) /\ m # "granted"
  BY <1>3, <1>4, <1>5, OrderRests
<1>8. Grows(t, b, g, q2, b, g)
  <2>1. CASE q2 = t
    BY <2>1 DEF Grows
  <2>2. CASE q2 = Append(t, "ended")
    <3>1. "ended" \in Others
      BY DEF Others, News, ZoomMessages, Moves, PermissionNews
    <3> QED
      BY <2>2, <3>1 DEF Grows
  <2> QED
    BY <1>1, <1>2, <1>3, <2>1, <2>2 DEF Hears
<1>9. InOrder(q2, b, g)
  BY <1>4, <1>7, <1>8, OrderGrows, Zenon
<1>10. ArrivalFirst(t, b) => ArrivalFirst(q2, b)
  BY <1>4, <1>7, <1>8, ArrivalGrows
<1>11. DenialFirst(t, g) => DenialFirst(q2, g)
  BY <1>4, <1>7, <1>8, DenialGrows
<1> QED
  BY <1>1, <1>2, <1>6, <1>7, <1>9, <1>10, <1>11

\* A callback that changes neither row nor adapter, and is no arrival on a move and
\* no denial of a recording.
LEMMA HeardFits ==
    ASSUME ZoomTypeOK, ZoomTypeOK', Fits, NEW m, Hears(m), SoundStays, RowStays, m # "denied",
           m = "joined" => (zoomBot.state \in BreakoutStates => Returning = "JOINED_RECORDING_PAUSED")
    PROVE  Fits'
<1>1. Returning' = Returning
  BY DEF RowStays, Returning
<1>2. RowFits'
  BY <1>1 DEF Fits, RowStays, RowFits
<1>3. CopyFits'
  BY DEF Fits, RowStays, CopyFits
<1>4. /\ InOrder(backlog, sdk.status, zoom.granted)'
      /\ ArrivalFirst(backlog, sdk.status) /\ m # "joined" => ArrivalFirst(backlog, sdk.status)'
      /\ DenialFirst(backlog, zoom.granted) /\ m # "denied" => DenialFirst(backlog, zoom.granted)'
  BY NewsHeard DEF Fits
<1>5. NewsFits'
  BY <1>1, <1>4 DEF Fits, RowStays, NewsFits
<1>6. AdapterFits'
  BY <1>1 DEF Fits, RowStays, SoundStays, AdapterFits
<1> QED
  BY <1>2, <1>3, <1>5, <1>6 DEF Fits

-----------------------------------------------------------------------------
(* Types. *)

ZoomFields == [asked : BOOLEAN, retry : BOOLEAN, granted : BOOLEAN, raw : BOOLEAN,
               paused : BOOLEAN, moving : BOOLEAN, joined : BOOLEAN, video : BOOLEAN]
SdkRows == [status : Statuses, busy : {"none", "init", "auth", "join", "leave"}]
ZoomPasts == [trouble : 0 .. MaxZoomTrouble, stranded : BOOLEAN, broken : BOOLEAN]

LEMMA ZoomTypes ==
    ZoomTypeOK <=> /\ sdk \in SdkRows /\ zoom \in ZoomFields /\ timers \subseteq TimerKinds
                   /\ backlog \in Seq(News) /\ zoomBot \in ZoomRows /\ zoomPast \in ZoomPasts
BY DEF ZoomTypeOK, SdkRows, ZoomFields, News, ZoomRows, ZoomPasts

LEMMA VideoTyped ==
    ASSUME NEW z \in ZoomFields
    PROVE  /\ VideoFor(z) \in ZoomFields
           /\ VideoFor(z).raw = z.raw /\ VideoFor(z).paused = z.paused /\ VideoFor(z).granted = z.granted
           /\ VideoFor(z).video => z.raw
BY DEF VideoFor, ZoomFields

\* What was said comes to wait at the end.
LEMMA SaidNews ==
    ASSUME NEW q \in Seq(News), NEW m \in News, NEW k \in News
    PROVE  q \o <<>> = q /\ q \o <<m>> = Append(q, m) /\ q \o <<m, k>> = Append(Append(q, m), k)
OBVIOUS

LEMMA PastTyped ==
    ASSUME zoomPast \in ZoomPasts,
           Mishap(FALSE, FALSE) \/ Mishap(FALSE, TRUE) \/ Mishap(TRUE, FALSE) \/ Strands \/ UNCHANGED zoomPast
    PROVE  /\ zoomPast' \in ZoomPasts
           /\ Mishap(FALSE, FALSE) \/ Mishap(TRUE, FALSE) \/ Strands => zoomPast'.broken = zoomPast.broken
           /\ Mishap(FALSE, TRUE) => zoomPast'.broken = TRUE
<1>1. ASSUME Mishap(FALSE, FALSE) PROVE zoomPast' \in ZoomPasts /\ zoomPast'.broken = zoomPast.broken
  BY <1>1, ZoomAssumption DEF Mishap, ZoomPasts
<1>2. ASSUME Mishap(TRUE, FALSE) PROVE zoomPast' \in ZoomPasts /\ zoomPast'.broken = zoomPast.broken
  BY <1>2, ZoomAssumption DEF Mishap, ZoomPasts
<1>3. ASSUME Mishap(FALSE, TRUE) PROVE zoomPast' \in ZoomPasts /\ zoomPast'.broken = TRUE
  <2>1. zoomPast.trouble < MaxZoomTrouble /\ zoomPast.trouble \in Nat /\ zoomPast.stranded \in BOOLEAN
    BY <1>3, ZoomAssumption DEF Mishap, ZoomPasts
  <2>2. zoomPast.trouble + 1 \in 0 .. MaxZoomTrouble
    BY <2>1, ZoomAssumption
  <2>3. zoomPast' = [trouble |-> zoomPast.trouble + 1, stranded |-> zoomPast.stranded \/ FALSE, broken |-> TRUE]
    BY <1>3 DEF Mishap
  <2> QED
    BY <2>1, <2>2, <2>3 DEF ZoomPasts
<1>4. ASSUME Strands PROVE zoomPast' \in ZoomPasts /\ zoomPast'.broken = zoomPast.broken
  BY <1>4 DEF Strands, ZoomPasts
<1> QED
  BY <1>1, <1>2, <1>3, <1>4

LEMMA PausesTyped ==
    ASSUME ZoomTypeOK, PausesAdapter, zoom.video => zoom.raw
    PROVE  /\ zoom' \in ZoomFields /\ zoomPast' \in ZoomPasts /\ timers' = timers
           /\ zoom'.granted = zoom.granted /\ (zoom'.video => zoom'.raw)
           /\ zoomPast.broken => zoomPast'.broken
           /\ zoomPast'.broken \/ (~zoom'.raw /\ zoom'.paused)
<1>0. zoom \in ZoomFields /\ zoomPast \in ZoomPasts
  BY ZoomTypes
<1>1. CASE ~zoom.raw
  BY <1>0, <1>1 DEF PausesAdapter, ZoomFields
<1>2. CASE zoom.raw /\ UNCHANGED zoomPast /\ zoom' = VideoFor([zoom EXCEPT !.paused = TRUE, !.raw = FALSE])
  <2>1. PICK z : z = [zoom EXCEPT !.paused = TRUE, !.raw = FALSE]
    OBVIOUS
  <2>2. z \in ZoomFields /\ z.paused /\ ~z.raw /\ z.granted = zoom.granted
    BY <1>0, <2>1 DEF ZoomFields
  <2> QED
    BY <1>0, <1>2, <2>1, <2>2, VideoTyped DEF PausesAdapter
<1>3. CASE zoom.raw /\ Mishap(FALSE, TRUE) /\ zoom' = VideoFor([zoom EXCEPT !.paused = TRUE])
  <2>1. PICK z : z = [zoom EXCEPT !.paused = TRUE]
    OBVIOUS
  <2>2. z \in ZoomFields /\ z.paused /\ z.granted = zoom.granted
    BY <1>0, <2>1 DEF ZoomFields
  <2>3. zoomPast' \in ZoomPasts /\ zoomPast'.broken = TRUE
    BY <1>0, <1>3, PastTyped
  <2> QED
    BY <1>3, <2>1, <2>2, <2>3, VideoTyped DEF PausesAdapter
<1> QED
  BY <1>1, <1>2, <1>3 DEF PausesAdapter

LEMMA ResumesTyped ==
    ASSUME ZoomTypeOK, ResumesAdapter, zoom.video => zoom.raw
    PROVE  /\ zoom' \in ZoomFields /\ zoomPast' \in ZoomPasts /\ timers' \subseteq TimerKinds
           /\ zoom'.granted = zoom.granted /\ (zoom'.video => zoom'.raw)
           /\ zoomPast.broken => zoomPast'.broken
           /\ zoomPast'.broken \/ (zoom'.raw /\ ~zoom'.paused)
<1>0. zoom \in ZoomFields /\ zoomPast \in ZoomPasts /\ timers \subseteq TimerKinds
  BY ZoomTypes
<1>1. timers \cup {"video"} \subseteq TimerKinds
  BY <1>0 DEF TimerKinds
<1>2. CASE zoom.raw
  BY <1>0, <1>2 DEF ResumesAdapter, ZoomFields
<1>3. CASE ~zoom.raw /\ zoom' = [zoom EXCEPT !.paused = FALSE, !.raw = TRUE] /\ UNCHANGED zoomPast
  BY <1>0, <1>1, <1>3 DEF ResumesAdapter, ZoomFields
<1>4. CASE ~zoom.raw /\ zoom' = [zoom EXCEPT !.paused = FALSE] /\ Mishap(FALSE, TRUE)
  <2>1. zoomPast' \in ZoomPasts /\ zoomPast'.broken = TRUE
    BY <1>0, <1>4, PastTyped
  <2> QED
    BY <1>0, <1>1, <1>4, <2>1 DEF ResumesAdapter, ZoomFields
<1> QED
  BY <1>2, <1>3, <1>4 DEF ResumesAdapter

\* An event's row, as the process or the API writes it.
LEMMA EventTyped ==
    ASSUME ZoomTypeOK, RowFits, NEW e \in ZoomEvents,
           Creates(e) \/ CannotCreate(e) \/ zoomBot' \in RowsAfter(e)
    PROVE  zoomBot' \in ZoomRows
<1>0. zoomBot \in ZoomRows
  BY ZoomTypes
<1>1. CASE Creates(e)
  <2>1. PICK after \in RowsAfter(e) : zoomBot' = [after EXCEPT !.copy = after.state]
    BY <1>1 DEF Creates
  <2> QED
    BY <1>0, <2>1, RowTyped
<1>2. CASE CannotCreate(e)
  BY <1>0, <1>2 DEF CannotCreate, ZoomRows
<1>3. CASE zoomBot' \in RowsAfter(e)
  BY <1>0, <1>3, RowTyped
<1> QED
  BY <1>1, <1>2, <1>3

LEMMA LeavesTyped ==
    ASSUME ZoomTypeOK, backlog # <<>>, Leaves(Tail(backlog))
    PROVE  /\ sdk' \in SdkRows /\ zoom' \in ZoomFields /\ zoomPast' \in ZoomPasts /\ backlog' \in Seq(News)
           /\ backlog' = Tail(backlog) \/ backlog' = Append(Tail(backlog), "ended")
           /\ sdk'.status = sdk.status /\ zoom'.granted = zoom.granted
           /\ zoom'.raw = zoom.raw /\ zoom'.paused = zoom.paused /\ zoom'.video = zoom.video
           /\ zoomPast'.broken = zoomPast.broken
<1>0. sdk \in SdkRows /\ zoom \in ZoomFields /\ zoomPast \in ZoomPasts /\ backlog \in Seq(News)
  BY ZoomTypes
<1>1. Tail(backlog) \in Seq(News)
  BY <1>0, OneLess
<1>2. Append(Tail(backlog), "ended") \in Seq(News)
  BY <1>1, OneMore DEF News, ZoomMessages
<1>3. CASE sdk.status = "none"
  BY <1>0, <1>2, <1>3 DEF Leaves
<1>4. CASE sdk.status # "none" /\ sdk.status \in {"idle", "ended"}
  <2>1. Strands
    BY <1>4 DEF Leaves
  <2> QED
    BY <1>0, <1>1, <1>4, <2>1, PastTyped DEF Leaves
<1>5. CASE sdk.status # "none" /\ sdk.status \notin {"idle", "ended"}
  BY <1>0, <1>1, <1>5 DEF Leaves, SdkRows, ZoomFields
<1> QED
  BY <1>3, <1>4, <1>5

LEMMA CleanedUp ==
    ASSUME CleansUp, zoomPast \in ZoomPasts
    PROVE  /\ sdk' \in SdkRows /\ zoom' \in ZoomFields /\ timers' \subseteq TimerKinds
           /\ backlog' \in Seq(News) /\ zoomPast' \in ZoomPasts
           /\ InOrder(backlog, sdk.status, zoom.granted)' /\ ~zoom'.video
<1>1. sdk' \in SdkRows /\ zoom' \in ZoomFields /\ timers' \subseteq TimerKinds /\ zoomPast' \in ZoomPasts
  BY DEF CleansUp, SdkRows, Statuses, ZoomFields, NewZoom
<1>2. backlog' = <<>> /\ backlog' \in Seq(News)
  BY DEF CleansUp
<1>3. 1 .. Len(backlog') = {}
  BY <1>2
<1>4. InOrder(backlog, sdk.status, zoom.granted)'
  BY <1>3 DEF InOrder
<1>5. ~zoom'.video
  BY DEF CleansUp, NewZoom
<1> QED
  BY <1>1, <1>2, <1>4, <1>5

-----------------------------------------------------------------------------
(* The steps outside the main loop's callbacks. *)

Outside == NewsGrow /\ SoundStays /\ (RowStays \/ RowLeaves)

LEMMA QuietNews ==
    ASSUME ZoomTypeOK, NEW m \in Others, Says(<<>>) \/ Says(<<m>>) \/ UNCHANGED backlog,
           sdk'.status = "meeting" => sdk.status = "meeting", zoom'.granted = zoom.granted
    PROVE  NewsGrow /\ backlog' \in Seq(News)
<1>1. backlog \in Seq(News) /\ m \in News
  BY ZoomTypes, NewsNames
<1>2. backlog' = backlog \/ backlog' = Append(backlog, m)
  BY <1>1, SaidNews DEF Says
<1>3. backlog' \in Seq(News)
  BY <1>1, <1>2, OneMore
<1>4. Grows(backlog, sdk.status, zoom.granted, backlog', sdk'.status, zoom'.granted)
  BY <1>2 DEF Grows
<1> QED
  BY <1>3, <1>4 DEF NewsGrow

LEMMA OtherNames ==
    /\ "lobby" \in Others /\ "ended" \in Others /\ "could_not_join" \in Others /\ "auto_leave" \in Others
    /\ "sync" \in Others /\ "pause" \in Others /\ "resume" \in Others
BY DEF Others, News, ZoomMessages, ZoomCommands, Moves, PermissionNews

\* Nothing is changed that the invariant compares.
LEMMA SoundUntouched ==
    ASSUME zoom' = zoom, zoomPast'.broken = zoomPast.broken, zoom.video => zoom.raw
    PROVE  SoundStays
BY DEF SoundStays

LEMMA RowUntouched == ASSUME zoomBot' = zoomBot PROVE RowStays
BY DEF RowStays

LEMMA JoinsTyped ==
    ASSUME ZoomTypeOK, JoinsMeeting
    PROVE  sdk' \in SdkRows /\ sdk'.status = sdk.status /\ zoomPast' \in ZoomPasts /\ zoomPast'.broken = zoomPast.broken
<1>0. sdk \in SdkRows /\ zoomPast \in ZoomPasts
  BY ZoomTypes
<1>1. CASE sdk' = [sdk EXCEPT !.busy = "join"] /\ UNCHANGED zoomPast
  BY <1>0, <1>1 DEF SdkRows
<1>2. CASE sdk' = [sdk EXCEPT !.busy = "none"] /\ Mishap(TRUE, FALSE)
  BY <1>0, <1>2, PastTyped DEF SdkRows
<1> QED
  BY <1>1, <1>2 DEF JoinsMeeting

LEMMA SetsUp ==
    ASSUME ZoomTypeOK, Fits, SetUpVideo \/ SpeakerChanges
    PROVE  ZoomTypeOK' /\ Outside
<1>0. zoom \in ZoomFields /\ timers \subseteq TimerKinds
  BY ZoomTypes
<1>1. zoom' = VideoFor(zoom) /\ timers' \subseteq TimerKinds /\ UNCHANGED <<sdk, backlog, zoomBot, zoomPast>>
  BY <1>0 DEF SetUpVideo, SpeakerChanges
<1>2. /\ zoom' \in ZoomFields /\ zoom'.raw = zoom.raw /\ zoom'.paused = zoom.paused
      /\ zoom'.granted = zoom.granted /\ (zoom'.video => zoom'.raw)
  BY <1>0, <1>1, VideoTyped
<1>3. ZoomTypeOK'
  BY <1>1, <1>2, ZoomTypes DEF ZoomTypeOK, ZoomFields
<1>4. NewsGrow
  BY <1>1, <1>2, QuietNews, OtherNames
<1>5. SoundStays
  BY <1>1, <1>2 DEF SoundStays
<1> QED
  BY <1>1, <1>3, <1>4, <1>5, RowUntouched DEF Outside

LEMMA ActsOutside ==
    ASSUME ZoomTypeOK, Fits, ActsFirst
    PROVE  ZoomTypeOK' /\ (Outside \/ (CleansUp /\ Creates("FATAL_ERROR")))
<1>0. /\ sdk \in SdkRows /\ zoom \in ZoomFields /\ timers \subseteq TimerKinds
      /\ backlog \in Seq(News) /\ zoomBot \in ZoomRows /\ zoomPast \in ZoomPasts
  BY ZoomTypes
<1>1. zoom.video => zoom.raw
  BY DEF Fits, AdapterFits
<1>2. CASE CleansUp /\ Creates("FATAL_ERROR")
  <2>1. zoomBot' \in ZoomRows
    BY <1>2, EventTyped DEF Fits, ZoomEvents
  <2>2. ZoomTypeOK'
    BY <1>0, <1>2, <2>1, CleanedUp DEF ZoomTypeOK, SdkRows, ZoomFields, News, ZoomRows, ZoomPasts
  <2> QED
    BY <1>2, <2>2
<1>3. CASE /\ zoomBot.state = "JOINING" /\ zoomBot' = [zoomBot EXCEPT !.taken = TRUE]
           /\ \/ sdk' = [status |-> "idle", busy |-> "auth"] /\ UNCHANGED backlog
              \/ sdk' = [status |-> "idle", busy |-> "none"] /\ Says(<<"could_not_join">>)
           /\ UNCHANGED <<zoom, timers, zoomPast>>
  <2>1. sdk' \in SdkRows /\ sdk'.status # "meeting"
    BY <1>3 DEF SdkRows, Statuses
  <2>2. NewsGrow /\ backlog' \in Seq(News)
    BY <1>3, <2>1, QuietNews, OtherNames
  <2>3. zoomBot' \in ZoomRows /\ RowStays
    BY <1>0, <1>3 DEF ZoomRows, RowStays
  <2>4. SoundStays
    BY <1>1, <1>3, SoundUntouched
  <2>5. ZoomTypeOK'
    BY <1>0, <1>3, <2>1, <2>2, <2>3 DEF ZoomTypeOK, SdkRows, ZoomFields, News, ZoomRows, ZoomPasts
  <2> QED
    BY <2>2, <2>3, <2>4, <2>5 DEF Outside
<1>4. CASE /\ zoomBot.state = "LEAVING" /\ zoomBot' = [zoomBot EXCEPT !.taken = TRUE, !.copy = "LEAVING"]
           /\ sdk' = [status |-> "none", busy |-> "none"] /\ Says(<<"ended">>)
           /\ UNCHANGED <<zoom, timers, zoomPast>>
  <2>1. sdk' \in SdkRows /\ sdk'.status # "meeting"
    BY <1>4 DEF SdkRows, Statuses
  <2>2. NewsGrow /\ backlog' \in Seq(News)
    BY <1>4, <2>1, QuietNews, OtherNames
  <2>3. zoomBot' \in ZoomRows /\ RowStays
    BY <1>0, <1>4 DEF ZoomRows, RowStays, States
  <2>4. SoundStays
    BY <1>1, <1>4, SoundUntouched
  <2>5. ZoomTypeOK'
    BY <1>0, <1>4, <2>1, <2>2, <2>3 DEF ZoomTypeOK, SdkRows, ZoomFields, News, ZoomRows, ZoomPasts
  <2> QED
    BY <2>2, <2>3, <2>4, <2>5 DEF Outside
<1> QED
  BY <1>2, <1>3, <1>4 DEF ActsFirst

LEMMA OutsideTyped ==
    ASSUME sdk' \in SdkRows, zoom' \in ZoomFields, timers' \subseteq TimerKinds,
           backlog' \in Seq(News), zoomBot' \in ZoomRows, zoomPast' \in ZoomPasts
    PROVE  ZoomTypeOK'
BY DEF ZoomTypeOK, SdkRows, ZoomFields, News, ZoomRows, ZoomPasts

LEMMA AsksOutside ==
    ASSUME ZoomTypeOK, Fits, Authorized \/ TriesAgain \/ GivesUp \/ LeavesByItself \/ ApiPauses
    PROVE  ZoomTypeOK' /\ Outside
<1>0. /\ sdk \in SdkRows /\ zoom \in ZoomFields /\ timers \subseteq TimerKinds
      /\ backlog \in Seq(News) /\ zoomBot \in ZoomRows /\ zoomPast \in ZoomPasts
  BY ZoomTypes
<1>1. zoom.video => zoom.raw
  BY DEF Fits, AdapterFits
<1>2. UNCHANGED <<zoom, zoomBot>> /\ timers' \subseteq TimerKinds
  <2>1. CASE Authorized
    BY <1>0, <2>1 DEF Authorized
  <2>2. CASE TriesAgain
    BY <1>0, <2>2 DEF TriesAgain
  <2>3. CASE GivesUp
    BY <1>0, <2>3 DEF GivesUp
  <2>4. CASE LeavesByItself
    BY <1>0, <2>4 DEF LeavesByItself
  <2>5. CASE ApiPauses
    BY <1>0, <2>5 DEF ApiPauses
  <2> QED
    BY <2>1, <2>2, <2>3, <2>4, <2>5
<1>3. sdk' \in SdkRows /\ sdk'.status = sdk.status /\ zoomPast' \in ZoomPasts /\ zoomPast'.broken = zoomPast.broken
  <2>1. CASE Authorized
    <3>1. CASE JoinsMeeting
      BY <3>1, JoinsTyped
    <3>2. CASE sdk' = [sdk EXCEPT !.busy = "none"] /\ UNCHANGED zoomPast
      BY <1>0, <3>2 DEF SdkRows
    <3> QED
      BY <2>1, <3>1, <3>2 DEF Authorized
  <2>2. CASE TriesAgain
    BY <2>2, JoinsTyped DEF TriesAgain
  <2>3. CASE GivesUp
    BY <1>0, <2>3 DEF GivesUp
  <2>4. CASE LeavesByItself
    BY <1>0, <2>4 DEF LeavesByItself
  <2>5. CASE ApiPauses
    <3>1. Mishap(FALSE, FALSE) /\ UNCHANGED sdk
      BY <2>5 DEF ApiPauses
    <3> QED
      BY <1>0, <3>1, PastTyped
  <2> QED
    BY <2>1, <2>2, <2>3, <2>4, <2>5
<1>4. \E m \in Others : Says(<<>>) \/ Says(<<m>>) \/ UNCHANGED backlog
  <2>1. CASE Authorized
    <3>1. UNCHANGED backlog \/ Says(<<"could_not_join">>)
      BY <2>1 DEF Authorized
    <3> QED
      BY <3>1, OtherNames
  <2>2. CASE TriesAgain
    <3>1. UNCHANGED backlog
      BY <2>2 DEF TriesAgain
    <3> QED
      BY <3>1, OtherNames
  <2>3. CASE GivesUp
    <3>1. PICK t \in {"connecting", "host", "lobby"} :
             Says(IF sdk.status = t /\ ~(t = "connecting" /\ zoom.moving) THEN <<"could_not_join">> ELSE <<>>)
      BY <2>3 DEF GivesUp
    <3>2. Says(<<"could_not_join">>) \/ Says(<<>>)
      BY <3>1
    <3> QED
      BY <3>2, OtherNames
  <2>4. CASE LeavesByItself
    <3>1. Says(<<"auto_leave">>)
      BY <2>4 DEF LeavesByItself
    <3> QED
      BY <3>1, OtherNames
  <2>5. CASE ApiPauses
    <3>1. Says(<<"pause">>) \/ Says(<<"resume">>)
      BY <2>5 DEF ApiPauses
    <3> QED
      BY <3>1, OtherNames
  <2> QED
    BY <2>1, <2>2, <2>3, <2>4, <2>5
<1>5. NewsGrow /\ backlog' \in Seq(News)
  <2>1. PICK m \in Others : Says(<<>>) \/ Says(<<m>>) \/ UNCHANGED backlog
    BY <1>4
  <2> QED
    BY <1>2, <1>3, <2>1, QuietNews
<1>6. SoundStays
  BY <1>1, <1>2, <1>3, SoundUntouched
<1>7. ZoomTypeOK'
  BY <1>0, <1>2, <1>3, <1>5, OutsideTyped
<1> QED
  BY <1>2, <1>5, <1>6, <1>7, RowUntouched DEF Outside

LEMMA LeaveOutside ==
    ASSUME ZoomTypeOK, Fits, ApiLeave
    PROVE  ZoomTypeOK' /\ Outside
<1>0. /\ sdk \in SdkRows /\ zoom \in ZoomFields /\ timers \subseteq TimerKinds
      /\ backlog \in Seq(News) /\ zoomBot \in ZoomRows /\ zoomPast \in ZoomPasts
  BY ZoomTypes
<1>1. zoomBot' \in RowsAfter("LEAVE_REQUESTED") /\ Says(<<"sync">>) /\ UNCHANGED <<sdk, zoom, timers, zoomPast>>
  BY DEF ApiLeave
<1>2. "LEAVE_REQUESTED" \in ZoomEvents /\ RowFits /\ (zoom.video => zoom.raw)
  BY DEF ZoomEvents, Fits, AdapterFits
<1>3. zoomBot' \in ZoomRows
  BY <1>1, <1>2, EventTyped
<1>4. RowLeaves
  BY <1>0, <1>1, <1>2, ToldWhat DEF RowLeaves
<1>5. NewsGrow /\ backlog' \in Seq(News)
  BY <1>1, QuietNews, OtherNames
<1>6. SoundStays
  BY <1>1, <1>2, SoundUntouched
<1>7. ZoomTypeOK'
  BY <1>0, <1>1, <1>3, <1>5, OutsideTyped
<1> QED
  BY <1>4, <1>5, <1>6, <1>7 DEF Outside

LEMMA PrivilegeOutside ==
    ASSUME ZoomTypeOK, Fits, PrivilegeGiven \/ PrivilegeTaken
    PROVE  ZoomTypeOK' /\ Outside
<1>0. /\ sdk \in SdkRows /\ zoom \in ZoomFields /\ timers \subseteq TimerKinds
      /\ backlog \in Seq(News) /\ zoomBot \in ZoomRows /\ zoomPast \in ZoomPasts
  BY ZoomTypes
<1>1. zoom.video => zoom.raw
  BY DEF Fits, AdapterFits
<1>2. "granted" \in News /\ "denied" \in News
  BY DEF News, ZoomMessages
<1>3. CASE PrivilegeGiven
  <2>1. sdk.status = "meeting" /\ zoom.granted = FALSE /\ UNCHANGED <<sdk, timers, zoomBot, zoomPast>>
    BY <1>0, <1>3 DEF PrivilegeGiven, ZoomFields
  <2>2. zoom' = [zoom EXCEPT !.granted = TRUE]
    BY <1>3 DEF PrivilegeGiven
  <2>3. zoom' \in ZoomFields /\ zoom'.granted = TRUE /\ zoom'.raw = zoom.raw /\ zoom'.paused = zoom.paused
        /\ zoom'.video = zoom.video
    BY <1>0, <2>2 DEF ZoomFields
  <2>4. backlog' = Append(backlog, "granted") /\ backlog' \in Seq(News)
    BY <1>0, <1>2, <1>3, SaidNews, OneMore DEF PrivilegeGiven, Says
  <2>5. Grows(backlog, sdk.status, zoom.granted, backlog', sdk'.status, zoom'.granted)
    BY <2>1, <2>3, <2>4 DEF Grows
  <2>6. SoundStays
    BY <1>1, <2>1, <2>3 DEF SoundStays
  <2>7. ZoomTypeOK'
    BY <1>0, <2>1, <2>3, <2>4, OutsideTyped
  <2> QED
    BY <2>1, <2>5, <2>6, <2>7, RowUntouched DEF Outside, NewsGrow
<1>4. CASE PrivilegeTaken
  <2>1. sdk.status = "meeting" /\ UNCHANGED <<sdk, timers, zoomBot>>
    BY <1>4 DEF PrivilegeTaken
  <2>2. zoom' = [zoom EXCEPT !.granted = FALSE] /\ Mishap(FALSE, FALSE)
    BY <1>4 DEF PrivilegeTaken
  <2>3. zoom' \in ZoomFields /\ zoom'.granted = FALSE /\ zoom'.raw = zoom.raw /\ zoom'.paused = zoom.paused
        /\ zoom'.video = zoom.video
    BY <1>0, <2>2 DEF ZoomFields
  <2>4. backlog' = Append(backlog, "denied") /\ backlog' \in Seq(News)
    BY <1>0, <1>2, <1>4, SaidNews, OneMore DEF PrivilegeTaken, Says
  <2>5. Grows(backlog, sdk.status, zoom.granted, backlog', sdk'.status, zoom'.granted)
    BY <2>1, <2>3, <2>4 DEF Grows
  <2>6. zoomPast' \in ZoomPasts /\ zoomPast'.broken = zoomPast.broken
    BY <1>0, <2>2, PastTyped
  <2>7. SoundStays
    BY <1>1, <2>3, <2>6 DEF SoundStays
  <2>8. ZoomTypeOK'
    BY <1>0, <2>1, <2>3, <2>4, <2>6, OutsideTyped
  <2> QED
    BY <2>1, <2>5, <2>7, <2>8, RowUntouched DEF Outside, NewsGrow
<1> QED
  BY <1>3, <1>4

\* What every change of the meeting's status does.
LEMMA StatusTyped ==
    ASSUME ZoomTypeOK, NEW s \in Statuses, StatusChanges(s)
    PROVE  /\ sdk' \in SdkRows /\ sdk'.status = s
           /\ zoomPast' \in ZoomPasts /\ zoomPast'.broken = zoomPast.broken
           /\ timers' \subseteq TimerKinds
           /\ zoom' \in ZoomFields /\ zoom'.raw = zoom.raw /\ zoom'.paused = zoom.paused /\ zoom'.video = zoom.video
           /\ UNCHANGED zoomBot
<1>0. sdk \in SdkRows /\ zoom \in ZoomFields /\ timers \subseteq TimerKinds /\ zoomPast \in ZoomPasts
  BY ZoomTypes
<1>1. Becomes(s)
  BY DEF StatusChanges, StatusWaits, StatusMoves, StatusInMeeting, StatusFailed, StatusEnded
<1>2. sdk' \in SdkRows /\ sdk'.status = s
  BY <1>0, <1>1 DEF Becomes, SdkRows
<1>3. Mishap(FALSE, FALSE) \/ Strands \/ UNCHANGED zoomPast
  <2>1. CASE s = "failed"
    BY <2>1 DEF StatusChanges, StatusFailed, StatusWaits, StatusMoves, StatusInMeeting, StatusEnded, Moves
  <2>2. CASE s = "ended"
    BY <2>2 DEF StatusChanges, StatusFailed, StatusWaits, StatusMoves, StatusInMeeting, StatusEnded, Moves
  <2>3. CASE s \notin {"failed", "ended"}
    BY <2>3 DEF StatusChanges
  <2> QED
    BY <2>1, <2>2, <2>3
<1>4. zoomPast' \in ZoomPasts /\ zoomPast'.broken = zoomPast.broken
  BY <1>0, <1>3, PastTyped
<1>5. timers' \subseteq TimerKinds /\ UNCHANGED zoomBot
  BY <1>0 DEF StatusChanges, StatusWaits, StatusMoves, StatusInMeeting, StatusFailed, StatusEnded, TimerKinds
<1>6. zoom' \in ZoomFields /\ zoom'.raw = zoom.raw /\ zoom'.paused = zoom.paused /\ zoom'.video = zoom.video
  <2>1. CASE StatusWaits(s)
    BY <1>0, <2>1 DEF StatusWaits
  <2>2. CASE StatusMoves(s)
    BY <1>0, <2>2 DEF StatusMoves, ZoomFields
  <2>3. CASE StatusInMeeting
    BY <1>0, <2>3 DEF StatusInMeeting, ZoomFields
  <2>4. CASE StatusFailed
    BY <1>0, <2>4 DEF StatusFailed, ZoomFields
  <2>5. CASE StatusEnded
    BY <1>0, <2>5 DEF StatusEnded, ZoomFields
  <2> QED
    BY <2>1, <2>2, <2>3, <2>4, <2>5 DEF StatusChanges
<1> QED
  BY <1>2, <1>4, <1>5, <1>6

LEMMA StatusNews ==
    ASSUME ZoomTypeOK, NEW s \in Statuses, StatusChanges(s), sdk'.status = s
    PROVE  NewsGrow /\ backlog' \in Seq(News)
<1>0. zoom \in ZoomFields /\ backlog \in Seq(News)
  BY ZoomTypes
<1>1. CASE s \in {"connecting", "host", "lobby"} /\ StatusWaits(s)
  <2>1. Says(<<"lobby">>) \/ Says(<<>>)
    BY <1>1 DEF StatusWaits
  <2> QED
    BY <1>1, <2>1, QuietNews, OtherNames DEF StatusWaits
<1>2. CASE s \in Moves /\ StatusMoves(s)
  <2>1. s \in News /\ s # "meeting"
    BY <1>2 DEF Moves, News, ZoomMessages
  <2>2. backlog' = Append(backlog, s) /\ backlog' \in Seq(News)
    BY <1>0, <1>2, <2>1, SaidNews, OneMore DEF StatusMoves, Says
  <2>3. zoom'.granted = zoom.granted
    BY <1>0, <1>2 DEF StatusMoves, ZoomFields
  <2>4. Grows(backlog, sdk.status, zoom.granted, backlog', sdk'.status, zoom'.granted)
    BY <1>2, <2>1, <2>2, <2>3 DEF Grows
  <2> QED
    BY <2>2, <2>4 DEF NewsGrow
<1>3. CASE s = "meeting" /\ StatusInMeeting
  <2>1. "joined" \in News /\ "granted" \in News /\ "denied" \in News
    BY DEF News, ZoomMessages
  <2>2. PICK p : p = Append(backlog, "joined")
    OBVIOUS
  <2>3. p \in Seq(News)
    BY <1>0, <2>1, <2>2, OneMore
  <2>4. Append(p, "granted") \in Seq(News) /\ Append(p, "denied") \in Seq(News)
    BY <2>1, <2>3, OneMore
  <2>5. CASE backlog' = p /\ zoom'.granted = zoom.granted
    <3>1. Grows(backlog, sdk.status, zoom.granted, backlog', sdk'.status, zoom'.granted)
      BY <2>2, <2>5 DEF Grows
    <3> QED
      BY <2>3, <2>5, <3>1 DEF NewsGrow
  <2>6. CASE backlog' = Append(p, "granted") /\ zoom.granted = FALSE /\ zoom'.granted = TRUE
    <3>1. Grows(p, "meeting", zoom.granted, backlog', sdk'.status, zoom'.granted)
      BY <2>6 DEF Grows
    <3> QED
      BY <2>2, <2>4, <2>6, <3>1 DEF NewsGrow
  <2>7. CASE backlog' = Append(p, "denied") /\ zoom'.granted = FALSE
    <3>1. Grows(p, "meeting", zoom.granted, backlog', sdk'.status, zoom'.granted)
      BY <2>7 DEF Grows
    <3> QED
      BY <2>2, <2>4, <2>7, <3>1 DEF NewsGrow
  <2>8. \/ Says(<<"joined">>) /\ zoom'.granted = zoom.granted
        \/ Says(<<"joined", "granted">>) /\ zoom.granted = FALSE /\ zoom'.granted = TRUE
        \/ Says(<<"joined", "denied">>) /\ zoom'.granted = FALSE
    <3>1. CASE /\ zoom' = [zoom EXCEPT !.moving = FALSE, !.joined = TRUE, !.granted = TRUE]
               /\ Says(IF zoom.granted THEN <<"joined">> ELSE <<"joined", "granted">>)
      BY <1>0, <3>1 DEF ZoomFields
    <3>2. CASE zoom' = [zoom EXCEPT !.moving = FALSE, !.joined = TRUE] /\ Says(<<"joined">>)
      BY <1>0, <3>2 DEF ZoomFields
    <3>3. CASE zoom' = [zoom EXCEPT !.moving = FALSE, !.joined = TRUE, !.granted = FALSE] /\ Says(<<"joined", "denied">>)
      BY <1>0, <3>3 DEF ZoomFields
    <3> QED
      BY <1>3, <3>1, <3>2, <3>3 DEF StatusInMeeting
  <2>9. /\ backlog \o <<"joined">> = p /\ backlog \o <<"joined", "granted">> = Append(p, "granted")
        /\ backlog \o <<"joined", "denied">> = Append(p, "denied")
    BY <1>0, <2>1, <2>2, SaidNews
  <2> QED
    BY <2>5, <2>6, <2>7, <2>8, <2>9 DEF Says
<1>4. CASE s = "failed" /\ StatusFailed
  <2>1. Says(<<"could_not_join">>) \/ UNCHANGED backlog
    BY <1>4 DEF StatusFailed
  <2>2. zoom'.granted = zoom.granted
    BY <1>0, <1>4 DEF StatusFailed, ZoomFields
  <2> QED
    BY <1>4, <2>1, <2>2, QuietNews, OtherNames
<1>5. CASE s = "ended" /\ StatusEnded
  <2>1. Says(<<"ended">>) \/ UNCHANGED backlog
    BY <1>5 DEF StatusEnded
  <2>2. zoom'.granted = zoom.granted
    BY <1>0, <1>5 DEF StatusEnded, ZoomFields
  <2> QED
    BY <1>5, <2>1, <2>2, QuietNews, OtherNames
<1> QED
  BY <1>1, <1>2, <1>3, <1>4, <1>5 DEF StatusChanges

LEMMA StatusOutside ==
    ASSUME ZoomTypeOK, Fits, NEW s \in Statuses, StatusChanges(s)
    PROVE  ZoomTypeOK' /\ Outside
<1>1. /\ sdk' \in SdkRows /\ sdk'.status = s
      /\ zoomPast' \in ZoomPasts /\ zoomPast'.broken = zoomPast.broken
      /\ timers' \subseteq TimerKinds
      /\ zoom' \in ZoomFields /\ zoom'.raw = zoom.raw /\ zoom'.paused = zoom.paused /\ zoom'.video = zoom.video
      /\ UNCHANGED zoomBot
  BY StatusTyped
<1>2. NewsGrow /\ backlog' \in Seq(News)
  BY <1>1, StatusNews
<1>3. SoundStays
  BY <1>1 DEF SoundStays, Fits, AdapterFits
<1>4. ZoomTypeOK'
  <2>1. zoomBot' \in ZoomRows
    BY <1>1, ZoomTypes
  <2> QED
    BY <1>1, <1>2, <2>1, OutsideTyped
<1> QED
  BY <1>1, <1>2, <1>3, <1>4, RowUntouched DEF Outside

-----------------------------------------------------------------------------
(* The main loop's callbacks. *)

\* The bot goes where it was going: only a move may send it away.
LEMMA RowMoves ==
    ASSUME ZoomTypeOK, ZoomTypeOK', Fits, NEW m, Hears(m), SoundStays, m # "denied",
           Returning' = Returning, zoomBot'.recording = zoomBot.recording, zoomBot'.copy = zoomBot'.state,
           zoomBot'.state # "JOINED_RECORDING_PAUSED",
           zoomBot'.state \in BreakoutStates =>
               m \in Moves /\ zoomBot'.last.type \in BreakoutDepartures /\ zoomBot'.last.old \in JoinedStates
    PROVE  Fits'
<1>1. RowFits'
  BY DEF Fits, RowFits
<1>2. CopyFits'
  BY DEF CopyFits
<1>3. /\ InOrder(backlog, sdk.status, zoom.granted)'
      /\ m \in Moves => ArrivalFirst(backlog, sdk.status)'
      /\ DenialFirst(backlog, zoom.granted) /\ m # "denied" => DenialFirst(backlog, zoom.granted)'
  BY NewsHeard DEF Fits
<1>4. NewsFits'
  BY <1>3 DEF Fits, NewsFits
<1>5. AdapterFits'
  BY DEF Fits, SoundStays, AdapterFits
<1> QED
  BY <1>1, <1>2, <1>4, <1>5 DEF Fits

\* The bot waits, or has joined, and nothing is recorded yet.
LEMMA RowSettles ==
    ASSUME zoomBot'.state \in {"WAITING_ROOM", "JOINED_NOT_RECORDING"}, zoomBot'.recording = "NOT_STARTED",
           zoomBot'.copy = zoomBot'.state, zoom'.video => zoom'.raw, InOrder(backlog, sdk.status, zoom.granted)'
    PROVE  Fits'
<1>1. Returning' = zoomBot'.state /\ zoomBot'.state \notin BreakoutStates
  BY DEF Returning, BreakoutStates
<1>2. RowFits' /\ CopyFits' /\ NewsFits' /\ AdapterFits'
  BY <1>1 DEF RowFits, CopyFits, NewsFits, AdapterFits
<1> QED
  BY <1>2 DEF Fits

\* The recording starts, stops or is denied.
LEMMA RowRecords ==
    ASSUME zoomBot'.state \in {"JOINED_RECORDING", "JOINED_RECORDING_PAUSED", "JOINED_RECORDING_PERMISSION_DENIED"},
           zoomBot'.state = "JOINED_RECORDING" => zoomBot'.recording = "IN_PROGRESS",
           zoomBot'.state = "JOINED_RECORDING_PAUSED" => zoomBot'.recording = "PAUSED",
           zoomBot'.state = "JOINED_RECORDING_PERMISSION_DENIED" => zoomBot'.recording \in {"NOT_STARTED", "PAUSED"},
           zoomBot'.copy = zoomBot'.state, zoom'.video => zoom'.raw,
           InOrder(backlog, sdk.status, zoom.granted)',
           zoomBot'.state # "JOINED_RECORDING_PERMISSION_DENIED" => DenialFirst(backlog, zoom.granted)',
           zoomBot'.state = "JOINED_RECORDING" => zoomPast'.broken \/ (zoom'.raw /\ ~zoom'.paused),
           zoomBot'.state # "JOINED_RECORDING" => zoomPast'.broken \/ (~zoom'.raw /\ zoom'.paused)
    PROVE  Fits'
<1>1. Returning' = zoomBot'.state /\ zoomBot'.state \notin BreakoutStates
  BY DEF Returning, BreakoutStates
<1>2. RowFits' /\ CopyFits'
  BY <1>1 DEF RowFits, CopyFits
<1>3. NewsFits'
  BY <1>1 DEF NewsFits
<1>4. AdapterFits'
  BY <1>1 DEF AdapterFits
<1> QED
  BY <1>2, <1>3, <1>4 DEF Fits

\* A callback is taken and nothing comes in its place.
LEMMA TakenTyped ==
    ASSUME ZoomTypeOK, NEW m, Takes(m), Rest
    PROVE  backlog' \in Seq(News) /\ backlog # <<>> /\ Head(backlog) = m
<1>1. backlog \in Seq(News) /\ backlog # <<>>
  BY ZoomTypes DEF Takes
<1> QED
  BY <1>1, OneLess DEF Takes, Rest

LEMMA CannotMove ==
    ASSUME ZoomTypeOK, NEW e, CannotCreate(e)
    PROVE  RowStays
<1>1. zoomBot \in ZoomRows
  BY ZoomTypes
<1> QED
  BY <1>1 DEF CannotCreate, RowStays, ZoomRows

LEMMA CreatedRow ==
    ASSUME ZoomTypeOK, RowFits, NEW e \in ZoomEvents, Creates(e)
    PROVE  \E after \in RowsAfter(e) :
              /\ zoomBot'.state = after.state /\ zoomBot'.recording = after.recording /\ zoomBot'.last = after.last
              /\ zoomBot'.copy = after.state
<1>0. zoomBot \in ZoomRows
  BY ZoomTypes
<1>1. PICK after \in RowsAfter(e) : zoomBot' = [after EXCEPT !.copy = after.state]
  BY DEF Creates
<1>2. after \in ZoomRows
  BY <1>0, RowTyped
<1> QED
  BY <1>1, <1>2 DEF ZoomRows

LEMMA NewsFit ==
    ASSUME ZoomTypeOK, Fits, TakesNews
    PROVE  ZoomTypeOK' /\ Fits'
<1>0. /\ sdk \in SdkRows /\ zoom \in ZoomFields /\ timers \subseteq TimerKinds
      /\ backlog \in Seq(News) /\ zoomBot \in ZoomRows /\ zoomPast \in ZoomPasts
  BY ZoomTypes
<1>1. RowFits /\ (zoom.video => zoom.raw)
  BY DEF Fits, AdapterFits
<1>2. PICK m \in {"lobby", "to_room", "from_room", "joined"} : Takes(m) /\ (Creates(NewsOf(m)) \/ CannotCreate(NewsOf(m)))
  BY DEF TakesNews
<1>3. Rest /\ UNCHANGED <<sdk, zoom, timers, zoomPast>>
  BY DEF TakesNews
<1>4. PICK e : e = NewsOf(m)
  OBVIOUS
<1>5. /\ m = "lobby" => e = "BOT_PUT_IN_WAITING_ROOM"
      /\ m = "to_room" => e = "BOT_BEGAN_JOINING_BREAKOUT_ROOM"
      /\ m = "from_room" => e = "BOT_BEGAN_LEAVING_BREAKOUT_ROOM"
      /\ m = "joined" => \/ e = "BOT_JOINED_BREAKOUT_ROOM" /\ zoomBot.copy = "JOINING_BREAKOUT_ROOM"
                         \/ e = "BOT_LEFT_BREAKOUT_ROOM" /\ zoomBot.copy = "LEAVING_BREAKOUT_ROOM"
                         \/ /\ e = "BOT_JOINED_MEETING"
                            /\ zoomBot.copy # "JOINING_BREAKOUT_ROOM" /\ zoomBot.copy # "LEAVING_BREAKOUT_ROOM"
  BY <1>2, <1>4 DEF NewsOf
<1>6. e \in ZoomEvents
  BY <1>2, <1>5 DEF ZoomEvents, BreakoutArrivals, BreakoutDepartures
<1>7. backlog' \in Seq(News) /\ Hears(m)
  BY <1>2, <1>3, TakenTyped DEF Hears, Rest
<1>8. zoomBot' \in ZoomRows
  BY <1>1, <1>2, <1>4, <1>6, EventTyped
<1>9. ZoomTypeOK'
  BY <1>0, <1>3, <1>7, <1>8, OutsideTyped
<1>10. SoundStays
  BY <1>1, <1>3, SoundUntouched
<1>11. InOrder(backlog, sdk.status, zoom.granted)'
  BY <1>7, <1>9, NewsHeard DEF Fits
<1>12. CASE CannotCreate(e)
  <2>1. RowStays /\ RowsAfter(e) = {}
    BY <1>12, CannotMove DEF CannotCreate
  <2>2. m = "joined" => (zoomBot.state \in BreakoutStates => Returning = "JOINED_RECORDING_PAUSED")
    <3> SUFFICES ASSUME m = "joined", zoomBot.state \in BreakoutStates PROVE Returning = "JOINED_RECORDING_PAUSED"
      OBVIOUS
    <3>1. zoomBot.copy = zoomBot.state
      BY DEF Fits, CopyFits, BreakoutStates
    <3>2. \/ e = "BOT_JOINED_BREAKOUT_ROOM" /\ zoomBot.state = "JOINING_BREAKOUT_ROOM"
          \/ e = "BOT_LEFT_BREAKOUT_ROOM" /\ zoomBot.state = "LEAVING_BREAKOUT_ROOM"
      BY <1>5, <3>1 DEF BreakoutStates
    <3> QED
      BY <1>0, <1>1, <2>1, <3>2, EventTaken
  <2>3. m # "denied"
    BY <1>2
  <2> QED
    BY <1>7, <1>9, <1>10, <2>1, <2>2, <2>3, HeardFits
<1>13. CASE Creates(e)
  <2>1. PICK after \in RowsAfter(e) :
              /\ zoomBot'.state = after.state /\ zoomBot'.recording = after.recording /\ zoomBot'.last = after.last
              /\ zoomBot'.copy = after.state
    BY <1>1, <1>6, <1>13, CreatedRow
  <2>2. CASE e \in {"BOT_PUT_IN_WAITING_ROOM", "BOT_JOINED_MEETING"}
    <3>1. after.state \in {"WAITING_ROOM", "JOINED_NOT_RECORDING"} /\ after.recording = "NOT_STARTED"
      BY <1>0, <1>1, <1>6, <2>2, ToldWhat
    <3> QED
      BY <1>1, <1>3, <1>9, <1>11, <2>1, <3>1, RowSettles
  <2>3. CASE e \in BreakoutDepartures
    <3>1. /\ after.state \in BreakoutStates /\ after.recording = zoomBot.recording
          /\ zoomBot.state \in JoinedStates
          /\ after.last.type \in BreakoutDepartures /\ after.last.old = zoomBot.state
      BY <1>0, <1>1, <1>6, <2>3, ToldWhere
    <3>2. m \in Moves
      BY <1>2, <1>5, <2>3 DEF Moves, BreakoutDepartures
    <3>3. Returning' = Returning
      BY <2>1, <3>1 DEF Returning, BreakoutStates, JoinedStates
    <3>4. zoomBot'.state # "JOINED_RECORDING_PAUSED" /\ m # "denied"
      BY <1>2, <2>1, <3>1 DEF BreakoutStates
    <3> QED
      BY <1>7, <1>9, <1>10, <2>1, <3>1, <3>2, <3>3, <3>4, RowMoves
  <2>4. CASE e \in BreakoutArrivals
    <3>1. /\ zoomBot.state \in BreakoutStates
          /\ after.state = zoomBot.last.old /\ after.state \in JoinedStates
          /\ after.recording = zoomBot.recording
          /\ after.state # "JOINED_RECORDING_PAUSED"
      BY <1>0, <1>1, <1>6, <2>4, ToldWhere
    <3>2. zoomBot'.state \notin BreakoutStates /\ m # "denied"
      BY <1>2, <2>1, <3>1 DEF BreakoutStates, JoinedStates
    <3>3. Returning' = Returning
      BY <2>1, <3>1, <3>2 DEF Returning
    <3> QED
      BY <1>7, <1>9, <1>10, <2>1, <3>1, <3>2, <3>3, RowMoves
  <2> QED
    BY <1>2, <1>5, <1>9, <2>2, <2>3, <2>4 DEF BreakoutArrivals, BreakoutDepartures
<1> QED
  BY <1>2, <1>4, <1>9, <1>12, <1>13

LEMMA EndingFits ==
    ASSUME ZoomTypeOK, Fits, TakesEnding
    PROVE  ZoomTypeOK' /\ Fits'
<1>0. /\ sdk \in SdkRows /\ zoom \in ZoomFields /\ timers \subseteq TimerKinds
      /\ backlog \in Seq(News) /\ zoomBot \in ZoomRows /\ zoomPast \in ZoomPasts
  BY ZoomTypes
<1>1. RowFits /\ (zoom.video => zoom.raw)
  BY DEF Fits, AdapterFits
<1>2. PICK m \in {"could_not_join", "ended"}, e \in {"COULD_NOT_JOIN", "BOT_LEFT_MEETING", "MEETING_ENDED"} :
         /\ Takes(m)
         /\ \/ Creates(e) /\ CleansUp
            \/ CannotCreate(e) /\ Rest /\ UNCHANGED <<sdk, zoom, timers, zoomPast>>
  BY DEF TakesEnding
<1>3. e \in ZoomEvents
  BY DEF ZoomEvents
<1>4. zoomBot' \in ZoomRows
  BY <1>1, <1>2, <1>3, EventTyped
<1>5. CASE Creates(e) /\ CleansUp
  <2>1. PICK after \in RowsAfter(e) : zoomBot'.state = after.state /\ zoomBot'.copy = after.state
    BY <1>1, <1>3, <1>5, CreatedRow
  <2>2. after.state \in {"FATAL_ERROR", "POST_PROCESSING", "LEAVING"}
    BY <1>0, <1>1, <1>3, ToldWhat
  <2>3. RowLeaves
    BY <2>1, <2>2 DEF RowLeaves
  <2>4. ZoomTypeOK' /\ InOrder(backlog, sdk.status, zoom.granted)' /\ ~zoom'.video
    BY <1>0, <1>4, <1>5, CleanedUp, OutsideTyped
  <2> QED
    BY <2>3, <2>4, LeavingFits
<1>6. CASE CannotCreate(e) /\ Rest /\ UNCHANGED <<sdk, zoom, timers, zoomPast>>
  <2>1. RowStays
    BY <1>6, CannotMove
  <2>2. backlog' \in Seq(News) /\ Hears(m)
    BY <1>2, <1>6, TakenTyped DEF Hears, Rest
  <2>3. SoundStays
    BY <1>1, <1>6, SoundUntouched
  <2>4. ZoomTypeOK'
    BY <1>0, <1>4, <1>6, <2>2, OutsideTyped
  <2>5. m # "denied" /\ m # "joined"
    BY <1>2
  <2> QED
    BY <2>1, <2>2, <2>3, <2>4, <2>5, HeardFits
<1> QED
  BY <1>2, <1>5, <1>6

LEMMA PermissionFits ==
    ASSUME ZoomTypeOK, Fits, TakesPermission
    PROVE  ZoomTypeOK' /\ Fits'
<1>0. /\ sdk \in SdkRows /\ zoom \in ZoomFields /\ timers \subseteq TimerKinds
      /\ backlog \in Seq(News) /\ zoomBot \in ZoomRows /\ zoomPast \in ZoomPasts
  BY ZoomTypes
<1>1. RowFits /\ (zoom.video => zoom.raw) /\ NewsFits /\ CopyFits
  BY DEF Fits, AdapterFits
<1>2. Rest /\ UNCHANGED sdk
  BY DEF TakesPermission
<1>3. "BOT_RECORDING_PERMISSION_GRANTED" \in ZoomEvents /\ "BOT_RECORDING_PERMISSION_DENIED" \in ZoomEvents
  BY DEF ZoomEvents
<1>4. CASE /\ Takes("granted") /\ ResumesAdapter
           /\ Creates("BOT_RECORDING_PERMISSION_GRANTED") \/ CannotCreate("BOT_RECORDING_PERMISSION_GRANTED")
  <2>1. /\ zoom' \in ZoomFields /\ zoomPast' \in ZoomPasts /\ timers' \subseteq TimerKinds
        /\ zoom'.granted = zoom.granted /\ (zoom'.video => zoom'.raw)
        /\ zoomPast'.broken \/ (zoom'.raw /\ ~zoom'.paused)
    BY <1>1, <1>4, ResumesTyped
  <2>2. backlog' \in Seq(News) /\ Hears("granted")
    BY <1>2, <1>4, <2>1, TakenTyped DEF Hears, Rest
  <2>3. zoomBot' \in ZoomRows
    BY <1>1, <1>3, <1>4, EventTyped
  <2>4. ZoomTypeOK'
    BY <1>0, <1>2, <2>1, <2>2, <2>3, OutsideTyped
  <2>5. /\ InOrder(backlog, sdk.status, zoom.granted)' /\ DenialFirst(backlog, zoom.granted)'
        /\ ~ArrivalFirst(backlog, sdk.status) /\ ~DenialFirst(backlog, zoom.granted)
    BY <1>1, <2>2, <2>4, NewsHeard DEF PermissionNews
  <2>6. CASE Creates("BOT_RECORDING_PERMISSION_GRANTED")
    <3>1. PICK after \in RowsAfter("BOT_RECORDING_PERMISSION_GRANTED") :
              /\ zoomBot'.state = after.state /\ zoomBot'.recording = after.recording /\ zoomBot'.copy = after.state
      BY <1>1, <1>3, <2>6, CreatedRow
    <3>2. after.state = "JOINED_RECORDING" /\ after.recording = "IN_PROGRESS"
      BY <1>0, <1>1, <1>3, ToldWhat
    <3> QED
      BY <2>1, <2>4, <2>5, <3>1, <3>2, RowRecords
  <2>7. CASE CannotCreate("BOT_RECORDING_PERMISSION_GRANTED")
    <3>1. RowStays /\ RowsAfter("BOT_RECORDING_PERMISSION_GRANTED") = {}
      BY <2>7, CannotMove DEF CannotCreate
    <3>2. zoomBot.state # "JOINED_RECORDING_PERMISSION_DENIED"
      BY <1>0, <1>1, <3>1, EventTaken
    <3>3. /\ zoomBot.state \in BreakoutStates => Returning = "JOINED_RECORDING_PAUSED"
          /\ zoomBot.state # "JOINED_RECORDING_PAUSED" /\ Returning # "JOINED_RECORDING"
      BY <1>1, <2>5 DEF NewsFits
    <3>4. Returning' = Returning /\ zoomBot'.state = zoomBot.state
      BY <3>1 DEF RowStays, Returning
    <3>5. Returning # "JOINED_RECORDING_PERMISSION_DENIED"
      BY <3>2, <3>3 DEF Returning
    <3>6. RowFits'
      BY <1>1, <3>1, <3>4 DEF RowStays, RowFits
    <3>7. CopyFits'
      BY <1>1, <3>1 DEF RowStays, CopyFits
    <3>8. NewsFits'
      BY <2>5, <3>3, <3>4 DEF NewsFits
    <3>9. AdapterFits'
      BY <2>1, <3>3, <3>4, <3>5 DEF AdapterFits
    <3> QED
      BY <2>4, <3>6, <3>7, <3>8, <3>9 DEF Fits
  <2> QED
    BY <1>4, <2>4, <2>6, <2>7
<1>5. CASE /\ Takes("denied") /\ PausesAdapter
           /\ Creates("BOT_RECORDING_PERMISSION_DENIED") \/ CannotCreate("BOT_RECORDING_PERMISSION_DENIED")
  <2>1. /\ zoom' \in ZoomFields /\ zoomPast' \in ZoomPasts /\ timers' = timers
        /\ zoom'.granted = zoom.granted /\ (zoom'.video => zoom'.raw)
        /\ zoomPast'.broken \/ (~zoom'.raw /\ zoom'.paused)
    BY <1>1, <1>5, PausesTyped
  <2>2. backlog' \in Seq(News) /\ Hears("denied")
    BY <1>2, <1>5, <2>1, TakenTyped DEF Hears, Rest
  <2>3. zoomBot' \in ZoomRows
    BY <1>1, <1>3, <1>5, EventTyped
  <2>4. ZoomTypeOK'
    BY <1>0, <1>2, <2>1, <2>2, <2>3, OutsideTyped
  <2>5. InOrder(backlog, sdk.status, zoom.granted)' /\ ~ArrivalFirst(backlog, sdk.status)
    BY <1>1, <2>2, <2>4, NewsHeard DEF PermissionNews
  <2>6. CASE Creates("BOT_RECORDING_PERMISSION_DENIED")
    <3>1. PICK after \in RowsAfter("BOT_RECORDING_PERMISSION_DENIED") :
              /\ zoomBot'.state = after.state /\ zoomBot'.recording = after.recording /\ zoomBot'.copy = after.state
      BY <1>1, <1>3, <2>6, CreatedRow
    <3>2. after.state = "JOINED_RECORDING_PERMISSION_DENIED" /\ after.recording \in {"NOT_STARTED", "PAUSED"}
      BY <1>0, <1>1, <1>3, ToldWhat
    <3> QED
      BY <2>1, <2>4, <2>5, <3>1, <3>2, RowRecords
  <2>7. CASE CannotCreate("BOT_RECORDING_PERMISSION_DENIED")
    <3>1. RowStays /\ RowsAfter("BOT_RECORDING_PERMISSION_DENIED") = {}
      BY <2>7, CannotMove DEF CannotCreate
    <3>2. zoomBot.state \notin JoinedStates
      BY <1>0, <1>1, <3>1, EventTaken
    <3>3. zoomBot.state \in BreakoutStates => Returning = "JOINED_RECORDING_PAUSED"
      BY <1>1, <2>5 DEF NewsFits
    <3>4. Returning' = Returning /\ zoomBot'.state = zoomBot.state
      BY <3>1 DEF RowStays, Returning
    <3>5. /\ Returning \notin {"JOINED_RECORDING", "JOINED_RECORDING_PERMISSION_DENIED"}
          /\ zoomBot.state # "JOINED_RECORDING_PAUSED"
      BY <3>2, <3>3 DEF Returning, JoinedStates
    <3>6. RowFits'
      BY <1>1, <3>1, <3>4 DEF RowStays, RowFits
    <3>7. CopyFits'
      BY <1>1, <3>1 DEF RowStays, CopyFits
    <3>8. NewsFits'
      BY <2>5, <3>3, <3>4, <3>5 DEF NewsFits
    <3>9. AdapterFits'
      BY <2>1, <3>4, <3>5 DEF AdapterFits
    <3> QED
      BY <2>4, <3>6, <3>7, <3>8, <3>9 DEF Fits
  <2> QED
    BY <1>5, <2>4, <2>6, <2>7
<1> QED
  BY <1>4, <1>5 DEF TakesPermission

LEMMA AutoLeaveFits ==
    ASSUME ZoomTypeOK, Fits, TakesAutoLeave
    PROVE  ZoomTypeOK' /\ Fits'
<1>0. /\ sdk \in SdkRows /\ zoom \in ZoomFields /\ timers \subseteq TimerKinds
      /\ backlog \in Seq(News) /\ zoomBot \in ZoomRows /\ zoomPast \in ZoomPasts
  BY ZoomTypes
<1>1. RowFits /\ (zoom.video => zoom.raw)
  BY DEF Fits, AdapterFits
<1>2. Takes("auto_leave") /\ UNCHANGED timers
  BY DEF TakesAutoLeave
<1>3. "LEAVE_REQUESTED" \in ZoomEvents /\ backlog # <<>> /\ Head(backlog) = "auto_leave"
  BY <1>2 DEF ZoomEvents, Takes
<1>4. CASE \E after \in RowsAfter("LEAVE_REQUESTED") :
              /\ zoomBot' = [after EXCEPT !.copy = after.state, !.taken = TRUE]
              /\ Leaves(Tail(backlog))
  <2>1. PICK after \in RowsAfter("LEAVE_REQUESTED") : zoomBot' = [after EXCEPT !.copy = after.state, !.taken = TRUE]
    BY <1>4
  <2>2. after \in ZoomRows /\ zoomBot' \in ZoomRows /\ after.state = "LEAVING"
    BY <1>0, <1>1, <1>3, <2>1, RowTyped, ToldWhat
  <2>3. RowLeaves
    BY <2>1, <2>2 DEF RowLeaves, ZoomRows
  <2>4. /\ sdk' \in SdkRows /\ zoom' \in ZoomFields /\ zoomPast' \in ZoomPasts /\ backlog' \in Seq(News)
        /\ backlog' = Tail(backlog) \/ backlog' = Append(Tail(backlog), "ended")
        /\ sdk'.status = sdk.status /\ zoom'.granted = zoom.granted
        /\ zoom'.raw = zoom.raw /\ zoom'.video = zoom.video
    BY <1>3, <1>4, LeavesTyped
  <2>5. Hears("auto_leave")
    BY <1>3, <2>4 DEF Hears
  <2>6. ZoomTypeOK'
    BY <1>0, <1>2, <2>2, <2>4, OutsideTyped
  <2>7. InOrder(backlog, sdk.status, zoom.granted)'
    BY <2>5, <2>6, NewsHeard DEF Fits
  <2> QED
    BY <1>1, <2>3, <2>4, <2>6, <2>7, LeavingFits
<1>5. CASE CannotCreate("LEAVE_REQUESTED") /\ Rest /\ UNCHANGED <<sdk, zoom, zoomPast>>
  <2>1. RowStays
    BY <1>5, CannotMove
  <2>2. backlog' \in Seq(News) /\ Hears("auto_leave")
    BY <1>2, <1>5, TakenTyped DEF Hears, Rest
  <2>3. SoundStays
    BY <1>1, <1>5, SoundUntouched
  <2>4. zoomBot' \in ZoomRows
    BY <1>1, <1>3, <1>5, EventTyped
  <2>5. ZoomTypeOK'
    BY <1>0, <1>2, <1>5, <2>2, <2>4, OutsideTyped
  <2> QED
    BY <2>1, <2>2, <2>3, <2>5, HeardFits
<1> QED
  BY <1>4, <1>5 DEF TakesAutoLeave

LEMMA SyncFits ==
    ASSUME ZoomTypeOK, Fits, TakesSync
    PROVE  ZoomTypeOK' /\ Fits'
<1>0. /\ sdk \in SdkRows /\ zoom \in ZoomFields /\ timers \subseteq TimerKinds
      /\ backlog \in Seq(News) /\ zoomBot \in ZoomRows /\ zoomPast \in ZoomPasts
  BY ZoomTypes
<1>1. RowFits /\ (zoom.video => zoom.raw)
  BY DEF Fits, AdapterFits
<1>2. Takes("sync") /\ UNCHANGED timers /\ backlog # <<>> /\ Head(backlog) = "sync"
  BY DEF TakesSync, Takes
<1>3. zoomBot' = [zoomBot EXCEPT !.copy = zoomBot.state, !.taken = zoomBot.taken \/ zoomBot.state = "LEAVING"]
  BY DEF TakesSync
<1>4. zoomBot' \in ZoomRows /\ RowStays
  BY <1>0, <1>3 DEF ZoomRows, RowStays
<1>5. /\ sdk' \in SdkRows /\ zoom' \in ZoomFields /\ zoomPast' \in ZoomPasts /\ backlog' \in Seq(News)
      /\ Hears("sync") /\ SoundStays
  <2>1. CASE Leaves(Tail(backlog))
    <3>1. /\ sdk' \in SdkRows /\ zoom' \in ZoomFields /\ zoomPast' \in ZoomPasts /\ backlog' \in Seq(News)
          /\ backlog' = Tail(backlog) \/ backlog' = Append(Tail(backlog), "ended")
          /\ sdk'.status = sdk.status /\ zoom'.granted = zoom.granted
          /\ zoom'.raw = zoom.raw /\ zoom'.paused = zoom.paused /\ zoom'.video = zoom.video
          /\ zoomPast'.broken = zoomPast.broken
      BY <1>2, <2>1, LeavesTyped
    <3> QED
      BY <1>1, <1>2, <3>1 DEF Hears, SoundStays
  <2>2. CASE Rest /\ UNCHANGED <<sdk, zoom, zoomPast>>
    <3>1. backlog' \in Seq(News) /\ Hears("sync")
      BY <1>2, <2>2, TakenTyped DEF Hears, Rest
    <3> QED
      BY <1>0, <1>1, <2>2, <3>1, SoundUntouched
  <2> QED
    BY <2>1, <2>2 DEF TakesSync
<1>6. ZoomTypeOK'
  BY <1>0, <1>2, <1>4, <1>5, OutsideTyped
<1> QED
  BY <1>4, <1>5, <1>6, HeardFits

LEMMA PauseFits ==
    ASSUME ZoomTypeOK, Fits, TakesPause
    PROVE  ZoomTypeOK' /\ Fits'
<1>0. /\ sdk \in SdkRows /\ zoom \in ZoomFields /\ timers \subseteq TimerKinds
      /\ backlog \in Seq(News) /\ zoomBot \in ZoomRows /\ zoomPast \in ZoomPasts
  BY ZoomTypes
<1>1. RowFits /\ (zoom.video => zoom.raw) /\ NewsFits
  BY DEF Fits, AdapterFits
<1>2. Rest /\ UNCHANGED sdk
  BY DEF TakesPause
<1>3. "RECORDING_PAUSED" \in ZoomEvents /\ "RECORDING_RESUMED" \in ZoomEvents
  BY DEF ZoomEvents
<1>4. ASSUME NEW m \in {"pause", "resume"}, Takes(m),
             zoomBot' = [zoomBot EXCEPT !.copy = zoomBot.state], UNCHANGED <<zoom, timers, zoomPast>>
      PROVE  ZoomTypeOK' /\ Fits'
  <2>1. backlog' \in Seq(News) /\ Hears(m)
    BY <1>2, <1>4, TakenTyped DEF Hears, Rest
  <2>2. zoomBot' \in ZoomRows /\ RowStays
    BY <1>0, <1>4 DEF ZoomRows, RowStays
  <2>3. SoundStays
    BY <1>1, <1>4, SoundUntouched
  <2>4. ZoomTypeOK'
    BY <1>0, <1>2, <1>4, <2>1, <2>2, OutsideTyped
  <2>5. m # "denied" /\ m # "joined"
    BY <1>4
  <2> QED
    BY <2>1, <2>2, <2>3, <2>4, <2>5, HeardFits
<1>5. CASE /\ Takes("pause") /\ zoomBot.state = "JOINED_RECORDING" /\ PausesAdapter
           /\ Creates("RECORDING_PAUSED") \/ CannotCreate("RECORDING_PAUSED")
  <2>1. /\ zoom' \in ZoomFields /\ zoomPast' \in ZoomPasts /\ timers' = timers
        /\ zoom'.granted = zoom.granted /\ (zoom'.video => zoom'.raw)
        /\ zoomPast'.broken \/ (~zoom'.raw /\ zoom'.paused)
    BY <1>1, <1>5, PausesTyped
  <2>2. Creates("RECORDING_PAUSED")
    BY <1>0, <1>1, <1>5, EventTaken DEF CannotCreate
  <2>3. backlog' \in Seq(News) /\ Hears("pause")
    BY <1>2, <1>5, <2>1, TakenTyped DEF Hears, Rest
  <2>4. zoomBot' \in ZoomRows
    BY <1>1, <1>3, <2>2, EventTyped
  <2>5. ZoomTypeOK'
    BY <1>0, <1>2, <2>1, <2>3, <2>4, OutsideTyped
  <2>6. DenialFirst(backlog, zoom.granted)
    BY <1>1, <1>5 DEF NewsFits, Returning, BreakoutStates
  <2>7. InOrder(backlog, sdk.status, zoom.granted)' /\ DenialFirst(backlog, zoom.granted)'
    BY <1>1, <2>3, <2>5, <2>6, NewsHeard
  <2>8. PICK after \in RowsAfter("RECORDING_PAUSED") :
              /\ zoomBot'.state = after.state /\ zoomBot'.recording = after.recording /\ zoomBot'.copy = after.state
    BY <1>1, <1>3, <2>2, CreatedRow
  <2>9. after.state = "JOINED_RECORDING_PAUSED" /\ after.recording = "PAUSED"
    BY <1>0, <1>1, <1>3, ToldWhat
  <2> QED
    BY <2>1, <2>5, <2>7, <2>8, <2>9, RowRecords
<1>6. CASE /\ Takes("resume") /\ zoomBot.state = "JOINED_RECORDING_PAUSED" /\ ResumesAdapter
           /\ Creates("RECORDING_RESUMED") \/ CannotCreate("RECORDING_RESUMED")
  <2>1. /\ zoom' \in ZoomFields /\ zoomPast' \in ZoomPasts /\ timers' \subseteq TimerKinds
        /\ zoom'.granted = zoom.granted /\ (zoom'.video => zoom'.raw)
        /\ zoomPast'.broken \/ (zoom'.raw /\ ~zoom'.paused)
    BY <1>1, <1>6, ResumesTyped
  <2>2. Creates("RECORDING_RESUMED")
    BY <1>0, <1>1, <1>6, EventTaken DEF CannotCreate
  <2>3. backlog' \in Seq(News) /\ Hears("resume")
    BY <1>2, <1>6, <2>1, TakenTyped DEF Hears, Rest
  <2>4. zoomBot' \in ZoomRows
    BY <1>1, <1>3, <2>2, EventTyped
  <2>5. ZoomTypeOK'
    BY <1>0, <1>2, <2>1, <2>3, <2>4, OutsideTyped
  <2>6. DenialFirst(backlog, zoom.granted)
    BY <1>1, <1>6 DEF NewsFits
  <2>7. InOrder(backlog, sdk.status, zoom.granted)' /\ DenialFirst(backlog, zoom.granted)'
    BY <1>1, <2>3, <2>5, <2>6, NewsHeard
  <2>8. PICK after \in RowsAfter("RECORDING_RESUMED") :
              /\ zoomBot'.state = after.state /\ zoomBot'.recording = after.recording /\ zoomBot'.copy = after.state
    BY <1>1, <1>3, <2>2, CreatedRow
  <2>9. after.state = "JOINED_RECORDING" /\ after.recording = "IN_PROGRESS"
    BY <1>0, <1>1, <1>3, ToldWhat
  <2> QED
    BY <2>1, <2>5, <2>7, <2>8, <2>9, RowRecords
<1> QED
  BY <1>4, <1>5, <1>6 DEF TakesPause

-----------------------------------------------------------------------------
LEMMA ZoomBegins == ZoomInit => ZoomInv
<1> SUFFICES ASSUME ZoomInit PROVE ZoomInv
  OBVIOUS
<1>1. sdk \in SdkRows /\ zoom \in ZoomFields /\ timers \subseteq TimerKinds /\ backlog \in Seq(News)
  BY DEF ZoomInit, SdkRows, Statuses, ZoomFields, NewZoom
<1>2. zoomBot \in ZoomRows
  BY DEF ZoomInit, ZoomRows, States, RecordingStates
<1>3. zoomPast \in ZoomPasts
  BY ZoomAssumption DEF ZoomInit, ZoomPasts
<1>4. ZoomTypeOK
  BY <1>1, <1>2, <1>3, ZoomTypes
<1>5. /\ zoomBot.state = "JOINING" /\ zoomBot.copy = "JOINING" /\ zoomBot.recording = "NOT_STARTED"
      /\ Returning = "JOINING" /\ zoomBot.state \notin BreakoutStates
  BY DEF ZoomInit, Returning, BreakoutStates
<1>6. RowFits /\ CopyFits
  BY <1>5 DEF RowFits, CopyFits
<1>7. 1 .. Len(backlog) = {}
  BY DEF ZoomInit
<1>8. NewsFits
  BY <1>5, <1>7 DEF NewsFits, InOrder
<1>9. AdapterFits
  BY <1>5 DEF ZoomInit, NewZoom, AdapterFits
<1> QED
  BY <1>4, <1>6, <1>8, <1>9 DEF ZoomInv

LEMMA ZoomGoesOn == ZoomInv /\ [ZoomNext]_zoomVars => ZoomInv'
<1> SUFFICES ASSUME ZoomTypeOK, Fits, [ZoomNext]_zoomVars PROVE ZoomTypeOK' /\ Fits'
  BY DEF ZoomInv, Fits
<1>1. ASSUME ZoomTypeOK', Outside PROVE Fits'
  BY <1>1, OutsideFits DEF Outside
<1>2. CASE ActsFirst
  <2>1. ZoomTypeOK' /\ (Outside \/ (CleansUp /\ Creates("FATAL_ERROR")))
    BY <1>2, ActsOutside
  <2>2. CASE CleansUp /\ Creates("FATAL_ERROR")
    <3>1. zoomPast \in ZoomPasts /\ zoomBot \in ZoomRows /\ RowFits /\ "FATAL_ERROR" \in ZoomEvents
      BY ZoomTypes DEF Fits, ZoomEvents
    <3>2. PICK after \in RowsAfter("FATAL_ERROR") : zoomBot'.state = after.state /\ zoomBot'.copy = after.state
      BY <2>2, <3>1, CreatedRow
    <3>3. RowLeaves
      BY <3>1, <3>2, ToldWhat DEF RowLeaves
    <3>4. InOrder(backlog, sdk.status, zoom.granted)' /\ ~zoom'.video
      BY <2>2, <3>1, CleanedUp
    <3> QED
      BY <2>1, <3>3, <3>4, LeavingFits
  <2> QED
    BY <1>1, <2>1, <2>2
<1>3. CASE Authorized \/ TriesAgain \/ GivesUp \/ LeavesByItself \/ ApiPauses
  BY <1>1, <1>3, AsksOutside
<1>4. CASE \E s \in Statuses : StatusChanges(s)
  BY <1>1, <1>4, StatusOutside
<1>5. CASE PrivilegeGiven \/ PrivilegeTaken
  BY <1>1, <1>5, PrivilegeOutside
<1>6. CASE SetUpVideo \/ SpeakerChanges
  BY <1>1, <1>6, SetsUp
<1>7. CASE ApiLeave
  BY <1>1, <1>7, LeaveOutside
<1>8. CASE MainLoopTakes
  BY <1>8, NewsFit, EndingFits, PermissionFits, AutoLeaveFits, SyncFits, PauseFits DEF MainLoopTakes
<1>9. CASE UNCHANGED zoomVars
  BY <1>9 DEF zoomVars, ZoomTypeOK, Fits, RowFits, CopyFits, NewsFits, AdapterFits, Returning,
              InOrder, ArrivalFirst, DenialFirst
<1> QED
  BY <1>2, <1>3, <1>4, <1>5, <1>6, <1>7, <1>8, <1>9 DEF ZoomNext

\* While nothing waits, the adapter records what the row says (RecordedAsSaid),
\* for any number of moves, denials, pauses, failures and waiting callbacks.
THEOREM RecordsAsSaid == ZoomSpec => []RecordedAsSaid
<1>1. ZoomInv => RecordedAsSaid
  <2> SUFFICES ASSUME ZoomInv, backlog = <<>>, sdk.status = "meeting", ~zoomPast.broken
               PROVE  /\ zoomBot.state = "JOINED_RECORDING" => zoom.raw /\ ~zoom.paused
                      /\ zoomBot.state \in {"JOINED_RECORDING_PAUSED", "JOINED_RECORDING_PERMISSION_DENIED"} =>
                             ~zoom.raw /\ zoom.paused /\ ~zoom.video
    BY DEF RecordedAsSaid
  <2>1. zoomBot.state \notin BreakoutStates => Returning = zoomBot.state
    BY DEF Returning
  <2>2. AdapterFits
    BY DEF ZoomInv
  <2> QED
    BY <2>1, <2>2 DEF AdapterFits, BreakoutStates
<1> QED
  BY <1>1, ZoomBegins, ZoomGoesOn, PTL DEF ZoomSpec

\* The bot's row, the SDK's status, the adapter's flags and its callbacks keep their
\* types.
THEOREM ZoomTypeCorrect == ZoomSpec => []ZoomTypeOK
<1>1. ZoomInv => ZoomTypeOK
  BY DEF ZoomInv
<1> QED
  BY <1>1, ZoomBegins, ZoomGoesOn, PTL DEF ZoomSpec
=============================================================================
