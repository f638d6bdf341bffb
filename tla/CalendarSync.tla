---------------------------- MODULE CalendarSync ----------------------------
(***************************************************************************)
(* A connected calendar, one event in it and the bot scheduled for that    *)
(* event: the platform notifies a webhook of a change, the webhook         *)
(* requests a sync, the scheduler queues sync_calendar once a minute for   *)
(* requested calendars and once a day for all, the task lists the remote   *)
(* events and, in one transaction, updates the local event and its bots    *)
(* (src/bots/tasks/sync_calendar_task.py, src/bots/external_webhooks_views *)
(* .py, src/bots/management/commands/run_scheduler.py).                    *)
(*                                                                         *)
(* What is in the remote event is a number, its revision; the highest is   *)
(* its deletion. The Calendar row is saved under its version.              *)
(***************************************************************************)
EXTENDS Naturals

CONSTANTS
    Syncs,          \* workers that run sync_calendar
    LastRevision,   \* bound: the revision in which the event is deleted
    MaxSyncRetries, \* autoretry_for of sync_calendar: 6 in the code
    MaxSyncFaults   \* bound on failing syncs and lost notifications

ASSUME RevisionAssumption == LastRevision \in Nat \ {0} /\ MaxSyncRetries \in Nat /\ MaxSyncFaults \in Nat

\* The webhook's handler and the scheduler are not workers.
ASSUME SyncNames == Syncs \cap {"hook", "planner"} = {}

VARIABLES
    remote,     \* the revision of the event at the platform
    notify,     \* the platform has a notification to deliver
    local,      \* the revision in the CalendarEvent row
    eventBot,   \* the bot of the event: its state and the revision its join_at is from
    connected,  \* Calendar.state
    requested,  \* sync_task_requested_at is set
    dueSync,    \* sync_task_enqueued_at is null or a day old
    calFresh,   \* the processes whose copy of the Calendar row is current
    hook,       \* the notification's handler
    planner,    \* the scheduler
    syncQueue,  \* sync_calendar messages, by the number of their retry
    sync,       \* what each worker is doing, for which retry, and the revision it listed
    syncFaults

calendarRow == <<connected, requested, dueSync, calFresh>>
calendarVars == <<remote, notify, local, eventBot, calendarRow, hook, planner, syncQueue, sync, syncFaults>>

Revisions == 0 .. LastRevision
Deleted(r) == r = LastRevision
Retries == 0 .. MaxSyncRetries
IdleSync == [pc |-> "idle", retry |-> 0, listed |-> 0]
NoSyncQueued == \A n \in Retries : syncQueue[n] = 0
QueueSync == syncQueue' = [syncQueue EXCEPT ![0] = @ + 1]

CalendarTypeOK ==
    /\ remote \in Revisions /\ local \in Revisions
    /\ notify \in BOOLEAN
    /\ eventBot \in [state : {"SCHEDULED", "launched", "deleted"}, from : Revisions]
    /\ connected \in BOOLEAN /\ requested \in BOOLEAN /\ dueSync \in BOOLEAN
    /\ calFresh \subseteq Syncs \cup {"hook", "planner"}
    /\ hook \in {"idle", "saving"} /\ planner \in {"idle", "saving"}
    /\ syncQueue \in [Retries -> Nat]
    /\ sync \in [Syncs -> [pc : {"idle", "listing", "committing", "disconnecting"},
                         retry : Retries, listed : Revisions]]
    /\ syncFaults \in 0 .. MaxSyncFaults

\* The calendar has been synced, and a bot scheduled for its event.
CalendarInit ==
    /\ remote = 0 /\ local = 0
    /\ notify = FALSE
    /\ eventBot = [state |-> "SCHEDULED", from |-> 0]
    /\ connected = TRUE /\ requested = FALSE /\ dueSync = FALSE
    /\ calFresh = {}
    /\ hook = "idle" /\ planner = "idle"
    /\ syncQueue = [n \in Retries |-> 0]
    /\ sync = [s \in Syncs |-> IdleSync]
    /\ syncFaults = 0

-----------------------------------------------------------------------------
\* The user changes the event, or deletes it.
ChangeEvent ==
    /\ remote < LastRevision
    /\ remote' = remote + 1
    /\ notify' = TRUE
    /\ UNCHANGED <<local, eventBot, calendarRow, hook, planner, syncQueue, sync, syncFaults>>

\* The notification reaches the webhook, which loads the channel's calendar ...
ReceiveNotification ==
    /\ notify /\ hook = "idle"
    /\ hook' = "saving"
    /\ calFresh' = calFresh \cup {"hook"}
    /\ UNCHANGED <<remote, notify, local, eventBot, connected, requested, dueSync, planner, syncQueue, sync, syncFaults>>

\* ... and saves the request; a conflict is a 500, after which the platform
\* delivers again or gives up.
RequestSync ==
    /\ hook = "saving"
    /\ hook' = "idle"
    /\ \/ /\ "hook" \in calFresh
          /\ requested' = TRUE /\ notify' = FALSE /\ calFresh' = {}
          /\ UNCHANGED syncFaults
       \/ /\ "hook" \notin calFresh
          /\ \/ UNCHANGED <<notify, syncFaults>>
             \/ syncFaults < MaxSyncFaults /\ syncFaults' = syncFaults + 1 /\ notify' = FALSE
          /\ UNCHANGED <<requested, calFresh>>
    /\ UNCHANGED <<remote, local, eventBot, connected, dueSync, planner, syncQueue, sync>>

\* _run_periodic_calendar_syncs
SyncIsDue == connected /\ (requested \/ dueSync)

FindCalendar ==
    /\ planner = "idle" /\ SyncIsDue
    /\ planner' = "saving"
    /\ calFresh' = calFresh \cup {"planner"}
    /\ UNCHANGED <<remote, notify, local, eventBot, connected, requested, dueSync, hook, syncQueue, sync, syncFaults>>

\* enqueue_sync_calendar_task; a conflict ends the scheduler's cycle.
EnqueueSync ==
    /\ planner = "saving"
    /\ planner' = "idle"
    /\ \/ /\ "planner" \in calFresh
          /\ requested' = FALSE /\ dueSync' = FALSE /\ calFresh' = {}
          /\ QueueSync
       \/ "planner" \notin calFresh /\ UNCHANGED <<requested, dueSync, calFresh, syncQueue>>
    /\ UNCHANGED <<remote, notify, local, eventBot, connected, hook, sync, syncFaults>>

\* A sync takes less than a day.
SyncDayPasses ==
    /\ ~dueSync /\ NoSyncQueued /\ \A s \in Syncs : sync[s].pc = "idle"
    /\ planner = "idle"
    /\ dueSync' = TRUE
    /\ UNCHANGED <<remote, notify, local, eventBot, connected, requested, calFresh, hook, planner, syncQueue, sync, syncFaults>>

\* PATCH of the calendar with new credentials: the row is saved, a sync queued.
Reconnect ==
    /\ ~connected /\ NoSyncQueued
    /\ calFresh' = {} /\ dueSync' = FALSE /\ requested' = FALSE
    /\ QueueSync
    /\ UNCHANGED <<remote, notify, local, eventBot, connected, hook, planner, sync, syncFaults>>

-----------------------------------------------------------------------------
SyncGoto(s, pc) == sync' = [sync EXCEPT ![s].pc = pc]
SyncReturns(s) == sync' = [sync EXCEPT ![s] = IdleSync]

\* CalendarSyncHandler.__init__ loads the calendar. Getting an access token may
\* rotate the refresh token, which saves the row.
StartSync(s) ==
    /\ sync[s].pc = "idle"
    /\ \E n \in Retries :
         /\ syncQueue[n] > 0
         /\ syncQueue' = [syncQueue EXCEPT ![n] = @ - 1]
         /\ sync' = [sync EXCEPT ![s] = [pc |-> "listing", retry |-> n, listed |-> 0]]
    /\ \/ calFresh' = calFresh \cup {s} \/ calFresh' = {s}
    /\ UNCHANGED <<remote, notify, local, eventBot, connected, requested, dueSync, hook, planner, syncFaults>>

\* _list_events
ListEvents(s) ==
    /\ sync[s].pc = "listing"
    /\ sync' = [sync EXCEPT ![s].pc = "committing", ![s].listed = remote]
    /\ UNCHANGED <<remote, notify, local, eventBot, calendarRow, hook, planner, syncQueue, syncFaults>>

\* sync_bot_with_calendar_event: the bots still scheduled are patched, or
\* deleted with the event; an error, such as a conflict on the bot's row, is
\* only logged.
SyncBot(r) ==
    \/ /\ eventBot.state = "SCHEDULED"
       /\ eventBot' = IF Deleted(r) THEN [eventBot EXCEPT !.state = "deleted"]
                                    ELSE [eventBot EXCEPT !.from = r]
       /\ UNCHANGED syncFaults
    \/ /\ eventBot.state = "SCHEDULED" /\ syncFaults < MaxSyncFaults
       /\ syncFaults' = syncFaults + 1
       /\ UNCHANGED eventBot
    \/ eventBot.state # "SCHEDULED" /\ UNCHANGED <<eventBot, syncFaults>>

\* Mutant of SyncMayCommit: the version is not compared.
SyncAlwaysCommits(s) == TRUE

SyncMayCommit(s) == s \in calFresh

\* The transaction: an event that did not change is left alone, with its bots;
\* then the calendar is saved.
CommitSync(s) ==
    /\ sync[s].pc = "committing" /\ SyncMayCommit(s)
    /\ local' = sync[s].listed
    /\ IF local' # local THEN SyncBot(local') ELSE UNCHANGED <<eventBot, syncFaults>>
    /\ connected' = TRUE
    /\ calFresh' = {}
    /\ SyncReturns(s)
    /\ UNCHANGED <<remote, notify, requested, dueSync, hook, planner, syncQueue>>

\* Mutant of SyncConflict: the bots were synced before the transaction.
SyncConflictAfterBots(s) ==
    /\ sync[s].pc = "committing" /\ s \notin calFresh
    /\ SyncBot(sync[s].listed)
    /\ SyncReturns(s)
    /\ UNCHANGED <<remote, notify, local, calendarRow, hook, planner, syncQueue>>

\* The row changed since it was loaded: the transaction is rolled back, and the
\* task retried as long as it has retries.
SyncConflict(s) ==
    /\ sync[s].pc \in {"committing", "disconnecting"} /\ s \notin calFresh
    /\ SyncReturns(s)
    /\ IF sync[s].retry < MaxSyncRetries
         THEN syncQueue' = [syncQueue EXCEPT ![sync[s].retry + 1] = @ + 1]
         ELSE UNCHANGED syncQueue
    /\ UNCHANGED <<remote, notify, local, eventBot, calendarRow, hook, planner, syncFaults>>

\* Any other failure, with all its retries: the attempt is saved in the calendar,
\* whose other copies are then out of date.
SyncFails(s) ==
    /\ sync[s].pc \in {"listing", "committing"} /\ syncFaults < MaxSyncFaults
    /\ syncFaults' = syncFaults + 1
    /\ SyncReturns(s)
    /\ calFresh' = IF s \in calFresh THEN {} ELSE calFresh
    /\ UNCHANGED <<remote, notify, local, eventBot, connected, requested, dueSync, hook, planner, syncQueue>>

\* CalendarAPIAuthenticationError
AuthenticationLost(s) ==
    /\ sync[s].pc = "listing" /\ syncFaults < MaxSyncFaults
    /\ syncFaults' = syncFaults + 1
    /\ SyncGoto(s, "disconnecting")
    /\ UNCHANGED <<remote, notify, local, eventBot, calendarRow, hook, planner, syncQueue>>

\* The scheduled bots are deleted and the calendar disconnected.
Disconnect(s) ==
    /\ sync[s].pc = "disconnecting" /\ s \in calFresh
    /\ connected' = FALSE
    /\ calFresh' = {}
    /\ eventBot' = IF eventBot.state = "SCHEDULED" THEN [eventBot EXCEPT !.state = "deleted"] ELSE eventBot
    /\ SyncReturns(s)
    /\ UNCHANGED <<remote, notify, local, requested, dueSync, hook, planner, syncQueue, syncFaults>>

\* The scheduler launches the bot: it keeps the meeting it was launched for.
LaunchEventBot ==
    /\ eventBot.state = "SCHEDULED"
    /\ eventBot' = [eventBot EXCEPT !.state = "launched"]
    /\ UNCHANGED <<remote, notify, local, calendarRow, hook, planner, syncQueue, sync, syncFaults>>

SyncStep(s) == StartSync(s) \/ ListEvents(s) \/ CommitSync(s) \/ SyncConflict(s) \/ Disconnect(s)
PlannerStep == FindCalendar \/ EnqueueSync

CalendarNext ==
    \/ ChangeEvent \/ ReceiveNotification \/ RequestSync \/ PlannerStep \/ SyncDayPasses
    \/ Reconnect \/ LaunchEventBot
    \/ \E s \in Syncs : SyncStep(s) \/ SyncFails(s) \/ AuthenticationLost(s)

CalendarSpec == CalendarInit /\ [][CalendarNext]_calendarVars

-----------------------------------------------------------------------------
\* Once the user leaves the event alone, its last revision arrives, also when
\* the platform's notification is lost or a sync fails, as long as the calendar
\* stays connected: at the latest with the daily sync. And it never goes back:
\* two syncs at a time do not undo each other, because whoever commits second must
\* have loaded the calendar, and so listed the events, after the first commit.
EventArrivesForGood ==
    /\ [][local' >= local]_calendarVars
    /\ []<>(local = remote \/ ~connected)

\* A bot scheduled for an event of the calendar joins at the time the event has
\* (docs/calendar_integration.md:60), whichever syncs ran against each other,
\* unless patching the bot failed, which is only logged.
BotFollowsEvent == eventBot.state = "SCHEDULED" => eventBot.from = local \/ syncFaults > 0
=============================================================================
