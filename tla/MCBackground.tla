---------------------------- MODULE MCBackground ----------------------------
(***************************************************************************)
(* Instances for TLC of what goes on in the background: workers cut the    *)
(* audio of a local session, deliver webhooks, charge for autopay and sync *)
(* calendars, and Zoom's SDK calls a bot back. The five share no variable; *)
(* a behaviour is one of one of them, which service chooses.               *)
(***************************************************************************)
EXTENDS LocalSession, Webhooks, Autopay, CalendarSync, ZoomAdapter

VARIABLE service

backgroundVars == <<service, vars, webhookVars, autopayVars, calendarVars, zoomVars>>

\* The variables of the other services keep their values.
OnlyLocal == service = "local" /\ UNCHANGED <<service, webhookVars, autopayVars, calendarVars, zoomVars>>
OnlyWebhooks == service = "webhooks" /\ UNCHANGED <<service, vars, autopayVars, calendarVars, zoomVars>>
OnlyAutopay == service = "autopay" /\ UNCHANGED <<service, vars, webhookVars, calendarVars, zoomVars>>
OnlyCalendar == service = "calendar" /\ UNCHANGED <<service, vars, webhookVars, autopayVars, zoomVars>>
OnlyZoom == service = "zoom" /\ UNCHANGED <<service, vars, webhookVars, autopayVars, calendarVars>>

BackgroundInit ==
    /\ service \in {"local", "webhooks", "autopay", "calendar", "zoom"}
    /\ Init /\ WebhookInit /\ AutopayInit /\ CalendarInit /\ ZoomInit
    /\ service = "local" \/ pauses = [s \in Sources |-> {}]

\* A bound: in one local session a worker dies or a lock expires under its drain, and
\* not both.
DeathOrOverrun == crashes = 0 \/ \A s \in Sources : overruns[s] = 0

BackgroundNext ==
    \/ OnlyLocal /\ Next /\ DeathOrOverrun'
    \/ OnlyWebhooks /\ WebhookNext
    \/ OnlyAutopay /\ AutopayNext
    \/ OnlyCalendar /\ CalendarNext
    \/ OnlyZoom /\ ZoomNext

\* The workers, the scheduler, the webhook handlers and Stripe go on with what
\* they do, and days pass; so do a bot's main loop, its timeouts, and Zoom's SDK
\* where it owes an answer. What users do is not fair.
BackgroundSpec ==
    /\ BackgroundInit /\ [][BackgroundNext]_backgroundVars
    /\ WF_autopayVars(service = "autopay" /\ (SchedulerStep \/ HookStep))
    /\ WF_autopayVars(service = "autopay" /\ DayPasses)
    /\ \A t \in Charges : WF_autopayVars(service = "autopay" /\ (ChargeStep(t) \/ StripeStep(t)))
    /\ WF_calendarVars(service = "calendar" /\ RequestSync)
    /\ WF_calendarVars(service = "calendar" /\ (PlannerStep \/ SyncDayPasses))
    /\ \A s \in Syncs : WF_calendarVars(service = "calendar" /\ SyncStep(s))
    /\ WF_zoomVars(service = "zoom" /\ (ActsFirst \/ Authorized))
    /\ WF_zoomVars(service = "zoom" /\ MainLoopTakes)
    /\ WF_zoomVars(service = "zoom" /\ GivesUp)
    /\ WF_zoomVars(service = "zoom" /\ TriesAgain)
    /\ WF_zoomVars(service = "zoom" /\ SdkAnswers)
=============================================================================
