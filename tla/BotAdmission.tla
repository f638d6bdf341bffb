---------------------------- MODULE BotAdmission ----------------------------
(***************************************************************************)
(* Who may be in one meeting: the API creates bots for it, at once or      *)
(* scheduled, the scheduler and its launch tasks launch those, a daemon    *)
(* launches again what did not start, a bot that crashed is replaced, and  *)
(* a partial unique index of the database lets one bot at a time hold the  *)
(* meeting (src/bots/bots_api_utils.py, bot_recovery_utils.py,             *)
(* launch_bot_utils.py, tasks/launch_scheduled_bot_task.py and the         *)
(* commands run_scheduler and run_correct_failed_bot_launches). Bots run   *)
(* in pods, whose names are their ids.                                     *)
(***************************************************************************)
EXTENDS BotStates, Naturals, Sequences, FiniteSets

CONSTANTS
    Creators,        \* API requests that create a bot for the meeting
    Launchers,       \* Celery workers that run launch_scheduled_bot
    MaxReplacements, \* MAX_REPLACEMENTS_PER_MEETING_PER_HOUR: 3 in the code
    MaxBots,         \* bounds the bots
    MaxMessages,     \* bounds the launches the scheduler has queued
    LastHour         \* bounds the hours in which bots are created

ASSUME AdmissionAssumption == /\ MaxReplacements \in Nat /\ MaxBots \in Nat
                              /\ LastHour \in Nat /\ MaxMessages \in Nat

VARIABLES
    rows,      \* the Bot rows, in the order of their creation
    hour,      \* the time
    creation,  \* what each request is doing
    launchQueue, \* launch_scheduled_bot messages: bot id and join_at
    launcher,  \* what each worker is doing
    recovery   \* the replacement checks of crashed bots, and the bots they made

admissionVars == <<rows, hour, creation, launchQueue, launcher, recovery>>

BotIds == 1 .. MaxBots
Hours == 0 .. LastHour
Times == 0 .. LastHour + 1
AtOnce == LastHour + 2 \* no join_at
IdleCreation == [pc |-> "idle", again |-> FALSE, at |-> AtOnce, bot |-> 0]
IdleLauncher == [pc |-> "idle", bot |-> 0, at |-> 0]

\* at: join_at; seen: whether it ever had a heartbeat, a BOT_JOINED_MEETING
\* event; left: by the old_state of its FATAL_ERROR event it had left the meeting;
\* pod: one of its name runs. GONE is a row that was deleted.
Rows == [state : States \cup {"GONE"}, at : Times \cup {AtOnce}, created : Hours,
         replaces : 0 .. MaxBots, seen : {"never", "alive", "joined"},
         left : BOOLEAN, pod : BOOLEAN]

AdmissionTypeOK ==
    /\ rows \in Seq(Rows) /\ Len(rows) <= MaxBots
    /\ hour \in 0 .. LastHour + 2
    /\ creation \in [Creators -> [pc : {"idle", "conflict", "again", "launching"}, again : BOOLEAN,
                                 at : Times \cup {AtOnce}, bot : 0 .. MaxBots]]
    /\ launchQueue \subseteq [bot : BotIds, at : Times]
    /\ launcher \in [Launchers -> [pc : {"idle", "loaded", "staged"}, bot : 0 .. MaxBots, at : Times]]
    /\ recovery \in [BotIds -> [pc : {"none", "due", "counted", "launching"}, bot : 0 .. MaxBots]]

AdmissionInit ==
    /\ rows = <<>> /\ hour = 0
    /\ creation = [c \in Creators |-> IdleCreation]
    /\ launchQueue = {} /\ launcher = [l \in Launchers |-> IdleLauncher]
    /\ recovery = [b \in BotIds |-> [pc |-> "none", bot |-> 0]]

-----------------------------------------------------------------------------
\* Mutant of HoldsSlotStates: like post processing, leaving is over.
HoldsSlotUntilLeaving ==
    States \ (PostMeetingStates \cup AppSessionStates \cup {"POST_PROCESSING", "LEAVING"})

\* holds_meeting_slot_states
HoldsSlotStates == States \ (PostMeetingStates \cup AppSessionStates \cup {"POST_PROCESSING"})

HoldsSlot(b) == rows[b].state \in HoldsSlotStates
Ids == DOMAIN rows
SlotIsFree == \A b \in Ids : ~HoldsSlot(b)

\* A new row; its transaction also takes a bot without a join_at to JOINING.
NewRow(at, dead) ==
    [state |-> IF at = AtOnce THEN FixedTarget("JOIN_REQUESTED") ELSE "SCHEDULED",
     at |-> at, created |-> hour, replaces |-> dead, seen |-> "never", left |-> FALSE, pod |-> FALSE]

\* unique_bot_meeting_dedup_key
InsertRow(at, dead) ==
    /\ SlotIsFree /\ Len(rows) < MaxBots /\ hour \in Hours
    /\ rows' = Append(rows, NewRow(at, dead))

\* Of a row that has ended, what is no longer asked for is cleared.
Ended(row, state) == [row EXCEPT !.state = state, !.at = AtOnce, !.seen = "never", !.pod = FALSE]

Happened(b, e) == IF FixedTarget(e) \in PostMeetingStates THEN Ended(rows[b], FixedTarget(e))
                  ELSE [rows[b] EXCEPT !.state = FixedTarget(e)]

MayFail(b) == rows[b].state \in From("FATAL_ERROR")

Failed(b) == [Happened(b, "FATAL_ERROR") EXCEPT
                 !.left = rows[b].state = "POST_PROCESSING"]

PutRow(b, row) == rows' = [rows EXCEPT ![b] = row]

\* launch_bot: a pod is created, which a pod of the same name forbids; or
\* Kubernetes refuses something, this pod or the one of the webpage streamer after
\* it, and the bot fails as not launched, if it can.
Launches(b) ==
    \/ ~rows[b].pod /\ PutRow(b, [rows[b] EXCEPT !.pod = TRUE])
    \/ PutRow(b, IF MayFail(b) THEN Failed(b) ELSE rows[b])

\* The launch, or a crash before it.
LaunchOrCrash(b) == Launches(b) \/ UNCHANGED rows

-----------------------------------------------------------------------------
\* create_bot, for which the project has credits and is below its limit of
\* concurrent bots.
InsertBot(c) ==
    /\ creation[c].pc \in {"idle", "again"}
    /\ \E at \in IF creation[c].pc = "again" THEN {creation[c].at} ELSE Times \cup {AtOnce} :
         \/ /\ InsertRow(at, 0)
            /\ creation' = [creation EXCEPT ![c] =
                  IF at = AtOnce THEN [IdleCreation EXCEPT !.pc = "launching", !.bot = Len(rows')]
                                 ELSE IdleCreation]
         \/ /\ ~SlotIsFree
            /\ creation' = [creation EXCEPT ![c].pc = "conflict", ![c].at = at]
            /\ UNCHANGED rows
    /\ UNCHANGED <<hour, launchQueue, launcher, recovery>>

\* It does not any more, when the creation is tried again.
RefuseCreation(c) ==
    /\ creation[c].pc = "again"
    /\ creation' = [creation EXCEPT ![c] = IdleCreation]
    /\ UNCHANGED <<rows, hour, launchQueue, launcher, recovery>>

\* The conflict: the bot that holds the meeting is returned instead. If it let
\* go of it meanwhile the creation is tried once more.
ReturnExisting(c) ==
    /\ creation[c].pc = "conflict"
    /\ creation' = [creation EXCEPT ![c] =
          IF SlotIsFree /\ ~@.again THEN [@ EXCEPT !.pc = "again", !.again = TRUE] ELSE IdleCreation]
    /\ UNCHANGED <<rows, hour, launchQueue, launcher, recovery>>

\* launch_adhoc_bot_from_view, inline.
LaunchCreated(c) ==
    /\ creation[c].pc = "launching"
    /\ creation' = [creation EXCEPT ![c] = IdleCreation]
    /\ LaunchOrCrash(creation[c].bot)
    /\ UNCHANGED <<hour, launchQueue, launcher, recovery>>

\* patch_bot of a scheduled bot's join_at; the save compares the version.
PatchJoinAt(b) ==
    /\ rows[b].state = "SCHEDULED"
    /\ \E at \in Times \ {rows[b].at} : PutRow(b, [rows[b] EXCEPT !.at = at])
    /\ UNCHANGED <<hour, creation, launchQueue, launcher, recovery>>

\* patch_bot of the metadata, which holds what the bot replaces: all of it goes.
PatchMetadata(b) ==
    /\ rows[b].state # "GONE" /\ rows[b].replaces # 0
    /\ PutRow(b, [rows[b] EXCEPT !.replaces = 0])
    /\ UNCHANGED <<hour, creation, launchQueue, launcher, recovery>>

\* delete_bot, at any time after it read that the bot was SCHEDULED: the row is
\* deleted whatever it is by then (a bot that has ended is left out).
Delete(b) ==
    /\ rows[b].at # AtOnce
    /\ PutRow(b, Ended(rows[b], "GONE"))
    /\ UNCHANGED <<hour, creation, launchQueue, launcher, recovery>>

-----------------------------------------------------------------------------
\* _run_scheduled_bots, once a minute while the bot is due.
QueueLaunch(b) ==
    /\ rows[b].state = "SCHEDULED" /\ rows[b].at = hour /\ Cardinality(launchQueue) < MaxMessages
    /\ launchQueue' = launchQueue \cup {[bot |-> b, at |-> hour]}
    /\ UNCHANGED <<rows, hour, creation, launcher, recovery>>

\* launch_scheduled_bot; without credits the bot fails.
LoadForLaunch(l) ==
    /\ launcher[l].pc = "idle"
    /\ \E m \in launchQueue :
         /\ launchQueue' = launchQueue \ {m}
         /\ IF rows[m.bot].state # "SCHEDULED" THEN UNCHANGED <<rows, launcher>>
            ELSE \/ /\ launcher' = [launcher EXCEPT ![l] = [pc |-> "loaded", bot |-> m.bot, at |-> m.at]]
                    /\ UNCHANGED rows
                 \/ PutRow(m.bot, Failed(m.bot)) /\ UNCHANGED launcher
    /\ UNCHANGED <<hour, creation, recovery>>

\* Mutant of MayStage: whatever the row says by now.
MayStageAnyTime(b, at) == rows[b].state \in From("STAGED")

\* The transition, and after_new_state_is_staged.
MayStage(b, at) == rows[b].state \in From("STAGED") /\ rows[b].at = at

Stage(l) ==
    LET m == launcher[l] IN
    /\ m.pc = "loaded"
    /\ \/ /\ MayStage(m.bot, m.at)
          /\ PutRow(m.bot, Happened(m.bot, "STAGED"))
          /\ launcher' = [launcher EXCEPT ![l].pc = "staged"]
       \/ ~MayStage(m.bot, m.at) /\ launcher' = [launcher EXCEPT ![l] = IdleLauncher] /\ UNCHANGED rows
    /\ UNCHANGED <<hour, creation, launchQueue, recovery>>

LaunchStaged(l) ==
    /\ launcher[l].pc = "staged"
    /\ Launches(launcher[l].bot)
    /\ launcher' = [launcher EXCEPT ![l] = IdleLauncher]
    /\ UNCHANGED <<hour, creation, launchQueue, recovery>>

\* The task is delivered again.
CrashLauncher(l) ==
    /\ launcher[l].pc # "idle"
    /\ launcher' = [launcher EXCEPT ![l] = IdleLauncher]
    /\ launchQueue' = launchQueue \cup {[bot |-> launcher[l].bot, at |-> launcher[l].at]}
    /\ UNCHANGED <<rows, hour, creation, recovery>>

\* _correct_failed_bot_launches: in the minutes after the launch, no heartbeat
\* and no pod; but the launch may just be late.
Relaunch(b) ==
    /\ rows[b].seen = "never" /\ ~rows[b].pod
    /\ \/ rows[b].at = AtOnce /\ rows[b].state = "JOINING" /\ rows[b].created = hour
       \/ rows[b].at = hour /\ rows[b].state = "STAGED"
    /\ Launches(b)
    /\ UNCHANGED <<hour, creation, launchQueue, launcher, recovery>>

-----------------------------------------------------------------------------
\* The process in the pod has its first heartbeat.
StartPod(b) ==
    /\ rows[b].pod /\ rows[b].state \in {"STAGED", "JOINING"} /\ rows[b].seen = "never"
    /\ PutRow(b, [rows[b] EXCEPT !.seen = "alive"])
    /\ UNCHANGED <<hour, creation, launchQueue, launcher, recovery>>

\* What happens to a bot in its meeting, of which BotProcess is the detail.
MeetingEvent(b, e) ==
    /\ rows[b].seen # "never" /\ rows[b].state \in From(e)
    /\ PutRow(b, [Happened(b, e) EXCEPT !.seen = IF e = "BOT_JOINED_MEETING" THEN "joined" ELSE @])
    /\ UNCHANGED <<hour, creation, launchQueue, launcher, recovery>>

InMeetingEvents == {"JOIN_REQUESTED", "BOT_JOINED_MEETING", "COULD_NOT_JOIN", "LEAVE_REQUESTED", "BOT_LEFT_MEETING",
                    "MEETING_ENDED", "POST_PROCESSING_COMPLETED"}

\* It dies, by its own account or by that of the clean-up command:
\* after the commit after_new_state_is_fatal_error has a replacement looked
\* for, which a bot that never joined does not get.
Die(b) ==
    /\ rows[b].seen # "never" /\ MayFail(b)
    /\ PutRow(b, Failed(b))
    /\ recovery' = IF rows[b].seen = "joined" THEN [recovery EXCEPT ![b].pc = "due"] ELSE recovery
    /\ UNCHANGED <<hour, creation, launchQueue, launcher>>

\* Mutant of WasNeverLaunched: only the bots without a join_at.
NeverLaunchedAtOnce(b) == rows[b].seen = "never" /\ rows[b].at = AtOnce /\ rows[b].created < hour

\* terminate_bots_that_never_launched
WasNeverLaunched(b) ==
    /\ rows[b].seen = "never"
    /\ IF rows[b].at = AtOnce THEN rows[b].created < hour ELSE rows[b].at < hour

TerminateUnlaunched(b) ==
    /\ WasNeverLaunched(b) /\ MayFail(b)
    /\ PutRow(b, Failed(b))
    /\ UNCHANGED <<hour, creation, launchQueue, launcher, recovery>>

HourPasses ==
    /\ hour < LastHour + 2
    /\ hour' = hour + 1
    /\ UNCHANGED <<rows, creation, launchQueue, launcher, recovery>>

-----------------------------------------------------------------------------
\* The first bot of the chain of replacements that led to b.
RootOf[b \in BotIds] ==
    IF b \notin Ids \/ rows[b].replaces = 0 THEN b ELSE RootOf[rows[b].replaces]

\* Mutant of Lineage: only what the bot itself replaced.
LineageOfOneHop(b) == {j \in Ids : rows[b].replaces = j}

\* resolve_meeting_lineage
Lineage(b) == {j \in Ids : RootOf[j] = RootOf[b]}

RecentReplacements(S) == {j \in S : rows[j].replaces # 0 /\ rows[j].created = hour}

\* The policy of _maybe_create_replacement_bot.
CountReplacements(b) ==
    /\ recovery[b].pc = "due"
    /\ Cardinality(RecentReplacements(Lineage(b))) < MaxReplacements
    /\ recovery' = [recovery EXCEPT ![b].pc = "counted"]
    /\ UNCHANGED <<rows, hour, creation, launchQueue, launcher>>

\* The policy is against it (auto_rejoin_on_failure, what the bot died of, the
\* credits, the limits), or the process that would look for one dies.
StandDown(b) ==
    /\ recovery[b].pc \in {"due", "counted"}
    /\ recovery' = [recovery EXCEPT ![b].pc = "none"]
    /\ UNCHANGED <<rows, hour, creation, launchQueue, launcher>>

CreateReplacement(b) ==
    /\ recovery[b].pc = "counted"
    /\ InsertRow(AtOnce, b)
    /\ recovery' = [recovery EXCEPT ![b] = [pc |-> "launching", bot |-> Len(rows')]]
    /\ UNCHANGED <<hour, creation, launchQueue, launcher>>

LaunchReplacement(b) ==
    /\ recovery[b].pc = "launching"
    /\ LaunchOrCrash(recovery[b].bot)
    /\ recovery' = [recovery EXCEPT ![b] = [pc |-> "none", bot |-> 0]]
    /\ UNCHANGED <<hour, creation, launchQueue, launcher>>

-----------------------------------------------------------------------------
CleanUpUnlaunched == \E b \in Ids : TerminateUnlaunched(b)

AdmissionNext ==
    \/ \E c \in Creators : \/ InsertBot(c) \/ RefuseCreation(c)
                           \/ ReturnExisting(c) \/ LaunchCreated(c)
    \/ \E l \in Launchers : LoadForLaunch(l) \/ Stage(l) \/ LaunchStaged(l) \/ CrashLauncher(l)
    \/ \E b \in Ids : \/ PatchJoinAt(b) \/ PatchMetadata(b) \/ Delete(b)
                      \/ QueueLaunch(b) \/ Relaunch(b) \/ StartPod(b) \/ Die(b)
                      \/ CountReplacements(b) \/ StandDown(b)
                      \/ CreateReplacement(b) \/ LaunchReplacement(b)
                      \/ \E e \in InMeetingEvents : MeetingEvent(b, e)
    \/ CleanUpUnlaunched \/ HourPasses

AdmissionSpec == AdmissionInit /\ [][AdmissionNext]_admissionVars

-----------------------------------------------------------------------------
\* The states in which somebody in the meeting may see the bot.
VisibleStates == JoinedStates \cup BreakoutStates \cup {"WAITING_ROOM", "LEAVING"}

\* Nobody sees two bots of the project in the meeting: whoever creates bots for
\* it, a request, a retried request or the replacement of a crashed one, and
\* whenever they are launched.
OneBotInMeeting ==
    \A i, j \in Ids : rows[i].state \in VisibleStates /\ rows[j].state \in VisibleStates => i = j

\* A meeting whose bots keep dying gets no more than so many replacements in an
\* hour, as far as the chain of replacements can be followed.
ReplacementsAreCapped ==
    \A b \in Ids : Cardinality({j \in Ids : /\ RootOf[j] = RootOf[b] /\ rows[j].replaces # 0
                                            /\ rows[j].created = hour}) <= MaxReplacements

\* A bot is not staged before its time, although its join_at may change after a
\* launch was queued for the old one, and messages are late.
StagedInTime ==
    [][\A b \in Ids : rows[b].state = "SCHEDULED" /\ rows'[b].state = "STAGED" => rows[b].at <= hour]_admissionVars

\* A bot whose launch was missed or lost does not hold its meeting for ever.
UnlaunchedLetsGo ==
    []<>(\A b \in Ids : HoldsSlot(b) => rows[b].seen # "never")

\* "the bot was in the meeting and died unexpectedly", says the list of crashes
\* that warrant a replacement (src/bots/bot_recovery_utils.py:11).
ReplacedFromMeeting ==
    \A b \in Ids : rows[b].replaces # 0 => ~rows[rows[b].replaces].left
=============================================================================
