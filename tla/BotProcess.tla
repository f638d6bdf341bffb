----------------------------- MODULE BotProcess -----------------------------
(***************************************************************************)
(* The process that takes one bot through a meeting: the GLib main loop of *)
(* BotController in the bot's pod (src/bots/bot_controller), the API views *)
(* that move the bot and publish commands to it, the task that restarts    *)
(* its pod and the commands that end a bot whose process is gone. The      *)
(* browser, which web_bot_adapter drives in threads of its own, is         *)
(* MeetingAdapter. create_event is one step here: BotLifecycle shows that  *)
(* it may be taken so.                                                     *)
(***************************************************************************)
EXTENDS MeetingAdapter, BotTransitions

CONSTANTS
    MaxRestarts, \* bounds the restarts of the pod (the code: 15 minutes)
    MaxTrouble   \* bounds the pauses, refusals, losses, failures of Kubernetes and deaths together

ASSUME BotProcessAssumption == MaxRestarts \in Nat /\ MaxTrouble \in Nat

VARIABLES
    bot,     \* the committed rows: bot, recording, latest BotEvent, charges
    taken,   \* requested_bot_action_taken_at of the latest BotEvent is set
    proc,    \* the process: its own copy of bot.state, and what it is doing
    sent,    \* commands published and not yet received
    restart, \* the restart_bot_pod task, and whether its copy of the bot is current
    past     \* what happened: adapter.init calls, restarts, trouble, the worst of it

processVars == <<bot, taken, proc, inbox, adapter, sent, restart, past>>
rowVars == <<bot, taken, restart>>

Commands == {"sync", "pause", "resume"}

NoProcess == [pc |-> "off", copy |-> "READY", first |-> TRUE, quit |-> FALSE,
              cleaned |-> FALSE, pipeline |-> FALSE, doomed |-> FALSE]
Gone == [NoProcess EXCEPT !.first = FALSE]

ProcessTypeOK ==
    /\ bot \in [state : States, heartbeat : BOOLEAN, recording : RecordingStates,
                last : EventRows \cup {NoEvent}, charges : Nat]
    /\ taken \in BOOLEAN
    /\ proc \in [pc : {"off", "loop", "acting", "pausing", "resuming", "leaving", "cleaning"},
                 copy : States, first : BOOLEAN, quit : BOOLEAN, cleaned : BOOLEAN,
                 pipeline : BOOLEAN, doomed : BOOLEAN]
    /\ inbox \in Seq(Commands \cup AdapterMessages)
    /\ adapter \in [phase : {"idle", "joining", "in", "over"}, left : BOOLEAN, granted : BOOLEAN]
    /\ sent \subseteq Commands
    /\ restart \in [pc : {"none", "queued", "read", "marked", "create"}, fresh : BOOLEAN]
    /\ past \in [inits : Nat, restarts : 0 .. MaxRestarts, stranded : BOOLEAN,
                 trouble : 0 .. MaxTrouble]

ProcessInit ==
    /\ bot \in [state : InitialStates("BOT"), heartbeat : {FALSE}, recording : {"NOT_STARTED"},
                last : {NoEvent}, charges : {0}]
    /\ taken = FALSE
    /\ proc = NoProcess
    /\ inbox = <<>>
    /\ adapter = NewAdapter
    /\ sent = {}
    /\ restart = [pc |-> "none", fresh |-> FALSE]
    /\ past = [inits |-> 0, restarts |-> 0, stranded |-> FALSE, trouble |-> 0]

-----------------------------------------------------------------------------
(* The rows. *)

Outcome(e) == RecordingsAfter(e, bot.state, FixedTarget(e), bot.recording)
Allowed(e) == bot.state \in From(e) /\ Outcome(e) # {}

\* create_event succeeds: a new latest row, whose action nobody has taken, and
\* another version of the bot than the restart task may have read.
Happens(e) ==
    /\ Allowed(e)
    /\ \E r \in Outcome(e) :
         bot' = [bot EXCEPT
                   !.state = FixedTarget(e),
                   !.recording = r,
                   !.last = [type |-> e, old |-> bot.state, new |-> FixedTarget(e)],
                   !.charges = IF IsCharged(e, bot.state, FixedTarget(e), bot.heartbeat)
                               THEN @ + 1 ELSE @]
    /\ taken' = FALSE
    /\ restart' = [restart EXCEPT !.fresh = FALSE]

Raises(e) == ~Allowed(e) /\ UNCHANGED rowVars

\* Either way the process has refreshed its copy of the bot.
Refreshed == [proc EXCEPT !.copy = bot'.state]

Trouble ==
    /\ past.trouble < MaxTrouble
    /\ past' = [past EXCEPT !.trouble = @ + 1]

\* After such trouble a bot may be left to the limit on its run time.
Stranding ==
    /\ past.trouble < MaxTrouble
    /\ past' = [past EXCEPT !.trouble = @ + 1, !.stranded = TRUE]

\* The row an action is requested by, for the two states that request one.
RequestOf(s) == IF s = "JOINING" THEN "JOIN_REQUESTED" ELSE "LEAVE_REQUESTED"

\* Mutant of CanTake: a request that was already taken is taken again.
CanTakeAgain(s) == bot.last.type = RequestOf(s)

\* set_requested_bot_action_taken_at does not raise.
CanTake(s) == bot.last.type = RequestOf(s) /\ ~taken

\* take_action_based_on_bot_in_db when the process reads the bot in state s and
\* box is what waits in the main loop.
TakeAction(s, box) ==
  CASE s = "JOINING" ->
         /\ CanTake(s)
         /\ taken' = TRUE
         /\ adapter' = [adapter EXCEPT !.phase = "joining"]
         /\ past' = [past EXCEPT !.inits = @ + 1]
         /\ inbox' = box
    [] s = "LEAVING" ->
         /\ CanTake(s)
         /\ taken' = TRUE
         /\ AdapterLeaves(box)
         /\ UNCHANGED past
    [] OTHER -> inbox' = box /\ UNCHANGED <<taken, adapter, past>>

TakeActionRaises(s) == s \in {"JOINING", "LEAVING"} /\ ~CanTake(s)

\* cleanup(), up to the upload: the pipeline stops, the browser leaves and the
\* main loop is told to quit. A second call returns at once.
BeginCleanup(box) ==
    IF proc.cleaned
    THEN proc' = Refreshed /\ inbox' = box /\ UNCHANGED adapter
    ELSE /\ proc' = [Refreshed EXCEPT !.pc = "cleaning", !.cleaned = TRUE, !.quit = TRUE,
                                      !.pipeline = FALSE]
         /\ AdapterLeaves(box)

-----------------------------------------------------------------------------
(* The API and the launcher. *)

\* An ad hoc bot is asked to join, a scheduled one is staged; then its pod is created.
LaunchBot ==
    /\ bot.state \in {"READY", "SCHEDULED"}
    /\ \/ Happens("JOIN_REQUESTED")
       \/ Happens("STAGED")
    /\ UNCHANGED <<proc, inbox, adapter, sent, past>>

\* The process runs: BotController.__init__ reads the bot and run() subscribes.
ProcessStarts ==
    /\ proc.pc = "off"
    /\ proc' = [NoProcess EXCEPT !.pc = "loop", !.copy = bot.state]
    /\ inbox' = <<>>
    /\ adapter' = NewAdapter
    /\ UNCHANGED <<bot, taken, sent>>

PodStarts ==
    /\ \/ proc.first /\ bot.last # NoEvent /\ UNCHANGED restart
       \/ restart.pc = "create" /\ restart' = [restart EXCEPT !.pc = "none"]
    /\ ProcessStarts
    /\ UNCHANGED past

\* Where bots are Celery tasks instead of pods, run_bot is delivered again when
\* the worker that ran it is lost.
RunBotRedelivered ==
    /\ ~proc.first /\ restart.pc = "none"
    /\ ProcessStarts
    /\ Stranding
    /\ UNCHANGED restart

\* BotLeaveView: the event, then the command.
RequestLeave ==
    /\ Happens("LEAVE_REQUESTED")
    /\ sent' = sent \cup {"sync"}
    /\ UNCHANGED <<proc, inbox, adapter, past>>

RequestPause ==
    /\ bot.state = "JOINED_RECORDING"
    /\ sent' = sent \cup {"pause"}
    /\ Trouble
    /\ UNCHANGED <<bot, taken, proc, inbox, adapter, restart>>

\* One such command under way is enough.
RequestResume ==
    /\ bot.state = "JOINED_RECORDING_PAUSED"
    /\ "resume" \notin sent /\ ~Waits("resume")
    /\ sent' = sent \cup {"resume"}
    /\ UNCHANGED <<bot, taken, proc, inbox, adapter, restart, past>>

\* redis_listener puts the command in the main loop. Without a subscriber it
\* is gone: publish() keeps nothing.
CommandArrives(c) ==
    /\ c \in sent
    /\ sent' = sent \ {c}
    /\ inbox' = IF proc.pc = "off" THEN inbox ELSE Append(inbox, c)
    /\ UNCHANGED <<bot, taken, proc, adapter, restart, past>>

\* The connection to Redis is closed and opened again in between.
CommandLost(c) ==
    /\ c \in sent
    /\ sent' = sent \ {c}
    /\ Stranding
    /\ UNCHANGED <<bot, taken, proc, inbox, adapter, restart>>

-----------------------------------------------------------------------------
(* The main loop: its 100 ms timeout. *)

InLoop == proc.pc = "loop" /\ ~proc.quit

\* An exception in on_main_loop_timeout, or SIGTERM: FATAL_ERROR if it is
\* still possible, and cleanup in any case.
FailAndCleanUp ==
    /\ Happens("FATAL_ERROR") \/ Raises("FATAL_ERROR")
    /\ BeginCleanup(inbox)

FirstTimeout ==
    /\ InLoop /\ proc.first
    /\ \/ /\ TakeAction(bot.state, inbox)
          /\ proc' = [proc EXCEPT !.first = FALSE, !.copy = bot.state]
          /\ UNCHANGED <<bot, restart>>
       \/ /\ TakeActionRaises(bot.state)
          /\ FailAndCleanUp
          /\ UNCHANGED past
    /\ UNCHANGED sent

\* set_heartbeat refreshes the process's copy and saves the bot.
Heartbeat ==
    /\ InLoop /\ ~proc.first
    /\ ~bot.heartbeat \/ proc.copy # bot.state
    /\ bot' = [bot EXCEPT !.heartbeat = TRUE]
    /\ restart' = [restart EXCEPT !.fresh = FALSE]
    /\ proc' = Refreshed
    /\ UNCHANGED <<taken, inbox, adapter, sent, past>>

AutoLeave ==
    /\ InLoop /\ ~proc.first
    /\ AutoLeaveIsDue
    /\ UNCHANGED <<bot, taken, proc, sent, restart, past>>

\* join_if_staged_and_time_to_join: JOIN_REQUESTED, and then, in the same
\* callback, the action for the state create_event left in the process's copy.
JoinIfStaged ==
    /\ InLoop /\ ~proc.first
    /\ proc.copy = "STAGED"
    /\ \/ /\ Happens("JOIN_REQUESTED")
          /\ proc' = [Refreshed EXCEPT !.pc = "acting"]
          /\ UNCHANGED <<inbox, adapter>>
       \/ /\ ~Allowed("JOIN_REQUESTED")
          /\ FailAndCleanUp
    /\ UNCHANGED <<sent, past>>

ActOnJoin ==
    /\ proc.pc = "acting"
    /\ \/ /\ TakeAction(proc.copy, inbox)
          /\ proc' = [proc EXCEPT !.pc = "loop"]
          /\ UNCHANGED <<bot, restart>>
       \/ /\ TakeActionRaises(proc.copy)
          /\ FailAndCleanUp
          /\ UNCHANGED past
    /\ UNCHANGED sent

\* Anything else the timeout calls raises, or the pod gets SIGTERM.
LoopFails ==
    /\ InLoop
    /\ FailAndCleanUp
    /\ Trouble
    /\ UNCHANGED sent

-----------------------------------------------------------------------------
(* The main loop: its idle callbacks. An exception in one is printed and    *)
(* forgotten. Those already due are still called after the loop was told to *)
(* quit.                                                                    *)

Handling(m) == proc.pc = "loop" /\ inbox # <<>> /\ Head(inbox) = m

\* The event a message that ends the session asks for. MEETING_ENDED looks at
\* the process's own copy of the state.
EndingEvent(m) ==
  CASE m = "could_not_join" -> "COULD_NOT_JOIN"
    [] m = "ui_failure"     -> "FATAL_ERROR"
    [] m = "meeting_ended"  -> IF proc.copy = "LEAVING" THEN "BOT_LEFT_MEETING" ELSE "MEETING_ENDED"

HandleEnding ==
    /\ \E m \in {"could_not_join", "ui_failure", "meeting_ended"} :
         /\ Handling(m)
         /\ \/ Happens(EndingEvent(m)) /\ BeginCleanup(Tail(inbox))
            \/ /\ Raises(EndingEvent(m))
               /\ proc' = Refreshed
               /\ inbox' = Tail(inbox)
               /\ UNCHANGED adapter
    /\ UNCHANGED <<sent, past>>

HandleJoined ==
    /\ Handling("joined")
    /\ Happens("BOT_JOINED_MEETING") \/ Raises("BOT_JOINED_MEETING")
    /\ proc' = Refreshed
    /\ inbox' = Tail(inbox)
    /\ UNCHANGED <<adapter, sent, past>>

\* The pipeline is started or paused before create_event is tried.
HandlePermission ==
    /\ \E m \in {"granted", "denied"} :
         LET e == IF m = "granted" THEN "BOT_RECORDING_PERMISSION_GRANTED"
                                   ELSE "BOT_RECORDING_PERMISSION_DENIED"
         IN /\ Handling(m)
            /\ Happens(e) \/ Raises(e)
            /\ proc' = [Refreshed EXCEPT !.pipeline = (m = "granted")]
    /\ inbox' = Tail(inbox)
    /\ UNCHANGED <<adapter, sent, past>>

\* Blocked by the platform: a new pod is wanted, and this process just quits;
\* fifteen minutes after the bot's start it is given up instead.
HandleBlocked ==
    /\ Handling("blocked")
    /\ \/ /\ past.restarts < MaxRestarts
          /\ restart' = [restart EXCEPT !.pc = "queued"]
          /\ proc' = [proc EXCEPT !.quit = TRUE]
          /\ inbox' = Tail(inbox)
          /\ UNCHANGED <<bot, taken, adapter>>
       \/ /\ Happens("FATAL_ERROR")
          /\ BeginCleanup(Tail(inbox))
       \/ /\ Raises("FATAL_ERROR")
          /\ proc' = Refreshed
          /\ inbox' = Tail(inbox)
          /\ UNCHANGED adapter
    /\ UNCHANGED <<sent, past>>

\* The bot wants to leave by itself: the event, then the action, in two steps
\* that another process may come between.
HandleAutoLeave ==
    /\ Handling("auto_leave")
    /\ \/ Happens("LEAVE_REQUESTED") /\ proc' = [Refreshed EXCEPT !.pc = "leaving"]
       \/ Raises("LEAVE_REQUESTED") /\ proc' = Refreshed
    /\ inbox' = Tail(inbox)
    /\ UNCHANGED <<adapter, sent, past>>

FinishAutoLeave ==
    /\ proc.pc = "leaving"
    /\ proc' = [proc EXCEPT !.pc = "loop"]
    /\ IF CanTake("LEAVING")
         THEN taken' = TRUE /\ AdapterLeaves(inbox)
         ELSE UNCHANGED <<taken, inbox, adapter>>
    /\ UNCHANGED <<bot, sent, restart, past>>

\* Mutant of HandleSync: the bot is not refreshed first.
HandleSyncStale ==
    /\ Handling("sync")
    /\ UNCHANGED proc
    /\ \/ TakeAction(proc.copy, Tail(inbox))
       \/ TakeActionRaises(proc.copy) /\ inbox' = Tail(inbox) /\ UNCHANGED <<taken, adapter, past>>
    /\ UNCHANGED <<bot, sent, restart>>

HandleSync ==
    /\ Handling("sync")
    /\ proc' = [proc EXCEPT !.copy = bot.state]
    /\ \/ TakeAction(bot.state, Tail(inbox))
       \/ /\ TakeActionRaises(bot.state)
          /\ inbox' = Tail(inbox)
          /\ UNCHANGED <<taken, adapter, past>>
    /\ UNCHANGED <<bot, sent, restart>>

\* Mutant of HandlePauseResume: only the row is paused.
HandlePauseResumeOfRow ==
    /\ \E m \in {"pause", "resume"} :
         /\ Handling(m)
         /\ proc' = [proc EXCEPT !.copy = bot.state,
              !.pc = IF m = "pause" /\ bot.state = "JOINED_RECORDING" THEN "pausing"
                     ELSE IF m = "resume" /\ bot.state = "JOINED_RECORDING_PAUSED" THEN "resuming"
                     ELSE @]
    /\ inbox' = Tail(inbox)
    /\ UNCHANGED <<bot, taken, adapter, sent, restart, past>>

\* pause_recording and resume_recording: the state is checked and the pipeline
\* moved; the event follows.
HandlePauseResume ==
    /\ \/ /\ Handling("pause")
          /\ proc' = IF bot.state = "JOINED_RECORDING"
                     THEN [proc EXCEPT !.copy = bot.state, !.pipeline = FALSE, !.pc = "pausing"]
                     ELSE [proc EXCEPT !.copy = bot.state]
       \/ /\ Handling("resume")
          /\ proc' = IF bot.state = "JOINED_RECORDING_PAUSED"
                     THEN [proc EXCEPT !.copy = bot.state, !.pipeline = TRUE, !.pc = "resuming"]
                     ELSE [proc EXCEPT !.copy = bot.state]
    /\ inbox' = Tail(inbox)
    /\ UNCHANGED <<bot, taken, adapter, sent, restart, past>>

RecordPauseResume ==
    /\ \E e \in {"RECORDING_PAUSED", "RECORDING_RESUMED"} :
         /\ proc.pc = IF e = "RECORDING_PAUSED" THEN "pausing" ELSE "resuming"
         /\ Happens(e) \/ Raises(e)
    /\ proc' = [Refreshed EXCEPT !.pc = "loop"]
    /\ UNCHANGED <<inbox, adapter, sent, past>>

\* cleanup(), from the upload on: once the utterances are transcribed, or 300 s
\* have passed, POST_PROCESSING_COMPLETED, which may raise by now.
FinishCleanup ==
    /\ proc.pc = "cleaning"
    /\ IF proc.copy = "POST_PROCESSING"
         THEN \/ Happens("POST_PROCESSING_COMPLETED")
              \/ Raises("POST_PROCESSING_COMPLETED")
         ELSE UNCHANGED rowVars
    /\ proc' = [Refreshed EXCEPT !.pc = "loop"]
    /\ UNCHANGED <<inbox, adapter, sent, past>>

\* run() returns and the process with it.
ProcessExits ==
    /\ proc.pc = "loop" /\ proc.quit
    /\ proc' = Gone
    /\ inbox' = <<>>
    /\ adapter' = NewAdapter
    /\ UNCHANGED <<bot, taken, sent, restart, past>>

-----------------------------------------------------------------------------
(* The browser's threads. *)

BrowserJoins ==
    /\ JoinAttemptEnds
    /\ UNCHANGED <<bot, taken, proc, sent, restart, past>>

\* What comes when it is expected is free, the rest is trouble.
BrowserTells ==
    /\ \/ adapter.phase = "in" /\ PermissionGranted /\ UNCHANGED past
       \/ adapter.phase = "in" /\ ~adapter.left /\ MeetingEnds /\ UNCHANGED past
       \/ adapter.phase # "in" /\ PermissionGranted /\ Trouble
       \/ (adapter.phase # "in" \/ adapter.left) /\ MeetingEnds /\ Trouble
       \/ (PermissionDenied \/ PageComplains) /\ Trouble
    /\ UNCHANGED <<bot, taken, proc, sent, restart>>

-----------------------------------------------------------------------------
(* The restart task and the clean-up commands. *)

\* restart_bot_pod reads the bot, and its latest event, and deletes the pod.
RestartReads ==
    /\ restart.pc = "queued"
    /\ restart' = IF bot.last.type = "JOIN_REQUESTED" THEN [pc |-> "read", fresh |-> TRUE]
                                                      ELSE [pc |-> "none", fresh |-> FALSE]
    /\ UNCHANGED <<bot, taken, proc, inbox, adapter, sent, past>>

\* The pod is gone, or Kubernetes has answered with an error that the task takes
\* no notice of: the request is open again. The event row it saves is the one it
\* has read, which need not be the latest any more.
RestartReopens ==
    /\ restart.pc = "read"
    /\ restart' = [restart EXCEPT !.pc = "marked"]
    /\ taken' = IF bot.last.type = "JOIN_REQUESTED" THEN FALSE ELSE taken
    /\ \/ proc.pc = "off" /\ past' = [past EXCEPT !.restarts = @ + 1]
       \/ /\ proc.pc # "off" /\ past.trouble < MaxTrouble
          /\ past' = [past EXCEPT !.restarts = @ + 1, !.trouble = @ + 1, !.stranded = TRUE]
    /\ UNCHANGED <<bot, proc, inbox, adapter, sent>>

\* The pod that was deleted is still there after 100 seconds.
RestartGivesUp ==
    /\ restart.pc = "read" /\ proc.pc # "off"
    /\ restart' = [pc |-> "none", fresh |-> FALSE]
    /\ proc' = [proc EXCEPT !.doomed = TRUE]
    /\ Trouble
    /\ UNCHANGED <<bot, taken, inbox, adapter, sent>>

\* Mutant of RestartForgets: the bot is saved whatever its version.
RestartForgetsAnyway ==
    /\ restart.pc = "marked"
    /\ bot' = [bot EXCEPT !.heartbeat = FALSE, !.state = "JOINING"]
    /\ restart' = [pc |-> "create", fresh |-> FALSE]
    /\ UNCHANGED <<taken, proc, inbox, adapter, sent, past>>

\* The heartbeats are forgotten by a save of the whole bot row, which raises
\* when the row has another version than the task read. Then the new pod.
RestartForgets ==
    /\ restart.pc = "marked"
    /\ IF restart.fresh
         THEN /\ bot' = [bot EXCEPT !.heartbeat = FALSE]
              /\ restart' = [pc |-> "create", fresh |-> FALSE]
         ELSE /\ restart' = [pc |-> "none", fresh |-> FALSE]
              /\ UNCHANGED bot
    /\ UNCHANGED <<taken, proc, inbox, adapter, sent, past>>

\* create_bot_pod fails, as it does while a pod of that name is there: the task
\* logs it.
RestartCannotCreate ==
    /\ restart.pc = "create"
    /\ restart' = [restart EXCEPT !.pc = "none"]
    /\ \/ proc.pc # "off" /\ UNCHANGED past
       \/ Trouble
    /\ UNCHANGED <<bot, taken, proc, inbox, adapter, sent>>

\* The task is delivered again after its worker died.
RestartRedelivered ==
    /\ restart.pc = "none" /\ 0 < past.restarts /\ past.restarts < MaxRestarts
    /\ restart' = [restart EXCEPT !.pc = "queued"]
    /\ Trouble
    /\ UNCHANGED <<bot, taken, proc, inbox, adapter, sent>>

\* terminate_bot: FATAL_ERROR, if it is still possible, then the pod is deleted.
Terminate ==
    /\ bot.state \notin PostMeetingStates
    /\ Happens("FATAL_ERROR")
    /\ proc' = [proc EXCEPT !.doomed = TRUE]
    /\ UNCHANGED <<inbox, adapter, sent>>

\* No heartbeat for ten minutes: the process is gone, or has been in cleanup()
\* for that long, which its own limit of 600 s does not exclude.
HeartbeatTimeout ==
    /\ bot.heartbeat /\ proc.pc \in {"off", "cleaning"}
    /\ Terminate
    /\ UNCHANGED past

NeverLaunched ==
    /\ ~bot.heartbeat /\ proc.pc = "off"
    /\ Terminate
    /\ UNCHANGED past

\* The limit on the whole run time.
RunsTooLong ==
    /\ bot.heartbeat
    /\ Terminate
    /\ Trouble

\* The pod is deleted, by terminate_bot or by the restart task, or it dies.
ProcessDies ==
    /\ proc.pc # "off"
    /\ \/ proc.doomed /\ UNCHANGED past
       \/ restart.pc = "read" /\ UNCHANGED past
       \/ Trouble
    /\ proc' = Gone
    /\ inbox' = <<>>
    /\ adapter' = NewAdapter
    /\ UNCHANGED <<bot, taken, sent, restart>>

-----------------------------------------------------------------------------
Timeouts == FirstTimeout \/ Heartbeat \/ JoinIfStaged \/ ActOnJoin
Callbacks ==
    \/ HandleEnding \/ HandleJoined \/ HandlePermission \/ HandleBlocked
    \/ HandleAutoLeave \/ FinishAutoLeave \/ HandleSync
    \/ HandlePauseResume \/ RecordPauseResume
Ending == FinishCleanup \/ ProcessExits
MainLoop == Timeouts \/ Callbacks \/ Ending

Restart == RestartReads \/ RestartReopens \/ RestartForgets
RestartFails == RestartGivesUp \/ RestartCannotCreate
CleanUpCommand == HeartbeatTimeout \/ NeverLaunched

ProcessNext ==
    \/ LaunchBot \/ PodStarts \/ RunBotRedelivered
    \/ RequestLeave \/ RequestPause \/ RequestResume
    \/ \E c \in Commands : CommandArrives(c) \/ CommandLost(c)
    \/ MainLoop \/ AutoLeave \/ LoopFails
    \/ BrowserJoins \/ BrowserTells
    \/ Restart \/ RestartFails \/ RestartRedelivered
    \/ CleanUpCommand \/ RunsTooLong \/ ProcessDies

ProcessSpec == ProcessInit /\ [][ProcessNext]_processVars

-----------------------------------------------------------------------------
\* Seen through the rows alone, the process, the views, the restart task and
\* the clean-up commands do nothing but whole events, heartbeats, and the one
\* forgetting of the heartbeats while the bot is still joining.
Lifecycle == INSTANCE AtomicLifecycle WITH
    Sessions <- {"BOT"}, session <- "BOT", state <- bot.state, hasHeartbeat <- bot.heartbeat,
    recording <- bot.recording, lastEvent <- bot.last, charges <- bot.charges

ImplementsLifecycle == Lifecycle!AtomicSpec

\* The browser is sent into the meeting once per pod: neither the first timeout
\* nor a command nor a pod that replaces another joins a second time on a
\* request that was taken (set_requested_bot_action_taken_at).
JoinsAreCounted == past.inits <= 1 + past.restarts

\* A process that tears its bot down has an ended bot: cleanup() never leaves
\* one behind that the database shows in a meeting.
CleanupOnlyAfterEnd ==
    proc.cleaned => bot.state \in PostMeetingStates \cup {"POST_PROCESSING"}

\* While nothing is being handled, what is recorded is what the database says
\* is recorded, although each of the two is changed without the other. This is
\* about a process that went into the meeting: one that a redelivered task
\* starts for a bot already in it does nothing.
PipelineMatchesState ==
    InLoop /\ adapter.phase # "idle" =>
        /\ bot.state = "JOINED_RECORDING" => proc.pipeline
        /\ bot.state \in {"JOINED_RECORDING_PAUSED", "JOINED_RECORDING_PERMISSION_DENIED"} =>
               ~proc.pipeline

\* The process and the rows tell the same story.
ProcessMatchesRows == CleanupOnlyAfterEnd /\ PipelineMatchesState

AskedToLeave == bot.state \in {"LEAVING", "POST_PROCESSING"}
HasLeft == bot.state \in PostMeetingStates \/ past.stranded

\* A bot that was told to leave leaves, and its session ends, whatever its
\* process was doing, unless the command to do so was lost on its way, its task
\* was delivered again, or its request was opened again under a process that ran:
\* nothing but the limit on the run time may end it then.
LeaveIsObeyed == AskedToLeave ~> HasLeft
=============================================================================
