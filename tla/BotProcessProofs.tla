-------------------------- MODULE BotProcessProofs --------------------------
(***************************************************************************)
(* The process of a bot, the views, the restart task and the clean-up      *)
(* commands implement AtomicLifecycle, for any bounds on the restarts and  *)
(* the trouble there is: every one of their steps is, to the rows, a whole *)
(* event, a heartbeat, the forgetting of the heartbeats of a bot that is   *)
(* joining, or nothing. The last of these needs an invariant: the restart  *)
(* task saves its copy of the bot only if no event happened since it read  *)
(* that the bot was asked to join.                                         *)
(*                                                                         *)
(* The browser is sent into the meeting once, and once more for each       *)
(* restart of the pod. The process and the rows tell the same story: a     *)
(* process that tears its bot down has an ended bot, and what the pipeline *)
(* records is what the rows say is recorded.                               *)
(*                                                                         *)
(* The adapter of Zoom's media streams hears nothing of the meeting after  *)
(* it has disconnected, and a session that was told to end is on its way   *)
(* out. What a bot is asked to say is said in turn.                        *)
(***************************************************************************)
EXTENDS BotProcess, MediaRequests, AppSession, WellFoundedInduction, TLAPS

BotRows == [state : States, heartbeat : BOOLEAN, recording : RecordingStates,
            last : EventRows \cup {NoEvent}, charges : Nat]

Restarts == [pc : {"none", "queued", "read", "marked", "create"}, fresh : BOOLEAN]

\* The latest event led to the state of the bot, and a copy of the restart task
\* that is current is one of a bot that is joining.
RowsAgree ==
    /\ bot \in BotRows
    /\ restart \in Restarts
    /\ bot.last = NoEvent \/ (bot.last.new = bot.state /\ bot.last.new = FixedTarget(bot.last.type))
    /\ restart.fresh => bot.state = "JOINING"

\* The events that are asked for here.
ProcessEvents == (MeetingEvents \cup ClosingEvents) \ BreakoutArrivals

\* What a step may do to the rows.
RowStep ==
    \/ \E e \in ProcessEvents : Happens(e)
    \/ bot' = [bot EXCEPT !.heartbeat = TRUE] /\ restart' = [restart EXCEPT !.fresh = FALSE]
    \/ /\ restart.fresh
       /\ bot' = [bot EXCEPT !.heartbeat = FALSE]
       /\ restart' = [pc |-> "create", fresh |-> FALSE]
    \/ /\ bot' = bot
       /\ restart' \in Restarts
       /\ restart'.fresh => restart.fresh \/ bot.last.type = "JOIN_REQUESTED"

-----------------------------------------------------------------------------
\* The events lead to states, and leave the recording in a state of its own.
LEMMA TargetsAreStates == ASSUME NEW e \in ProcessEvents PROVE FixedTarget(e) \in States
  BY DEF ProcessEvents, MeetingEvents, ClosingEvents, BreakoutArrivals, BreakoutDepartures,
         FixedTarget, States, JoinedStates, BreakoutStates, AppSessionStates, PostMeetingStates

LEMMA OutcomesAreStates ==
    ASSUME RowsAgree, NEW e \in ProcessEvents, NEW r \in Outcome(e) PROVE r \in RecordingStates
  BY DEF RowsAgree, BotRows, Outcome, RecordingsAfter, RecordingStates

\* The state graph is the same whether it is extended or instantiated.
LEMMA SameGraph ==
    ASSUME NEW e \in ProcessEvents, NEW s, NEW r, NEW last, NEW beating
    PROVE  /\ Lifecycle!From(e) = From(e)
           /\ Lifecycle!CanResolveTarget(e, last)
           /\ Lifecycle!Target(e, last) = FixedTarget(e)
           /\ Lifecycle!RecordingsAfter(e, s, FixedTarget(e), r) = RecordingsAfter(e, s, FixedTarget(e), r)
           /\ Lifecycle!IsCharged(e, s, FixedTarget(e), beating) = IsCharged(e, s, FixedTarget(e), beating)
           /\ e \in Lifecycle!RequestedFor("BOT")
<1>1. Lifecycle!From(e) = From(e)
  BY DEF Lifecycle!From, From, Lifecycle!States, States, Lifecycle!JoinedStates, JoinedStates,
         Lifecycle!BreakoutStates, BreakoutStates, Lifecycle!AppSessionStates, AppSessionStates,
         Lifecycle!PostMeetingStates, PostMeetingStates, Lifecycle!BreakoutDepartures, BreakoutDepartures
<1>2. e \notin Lifecycle!BreakoutArrivals
  BY DEF ProcessEvents, Lifecycle!BreakoutArrivals, BreakoutArrivals
<1>3. Lifecycle!CanResolveTarget(e, last)
  BY <1>2 DEF Lifecycle!CanResolveTarget
<1>4. Lifecycle!Target(e, last) = FixedTarget(e)
  BY <1>2 DEF Lifecycle!Target, Lifecycle!FixedTarget, FixedTarget
<1>5. /\ Lifecycle!EndsSession(s, FixedTarget(e)) = EndsSession(s, FixedTarget(e))
      /\ Lifecycle!BreakoutArrivals = BreakoutArrivals
  BY DEF Lifecycle!EndsSession, EndsSession, Lifecycle!PostMeetingStates, PostMeetingStates,
         Lifecycle!BreakoutArrivals, BreakoutArrivals
<1>6. Lifecycle!RecordingsAfter(e, s, FixedTarget(e), r) = RecordingsAfter(e, s, FixedTarget(e), r)
  BY <1>5 DEF Lifecycle!RecordingsAfter, RecordingsAfter
<1>7. Lifecycle!IsCharged(e, s, FixedTarget(e), beating) = IsCharged(e, s, FixedTarget(e), beating)
  BY <1>5 DEF Lifecycle!IsCharged, IsCharged
<1>8. e \in Lifecycle!RequestedFor("BOT")
  BY DEF ProcessEvents, Lifecycle!RequestedFor, Lifecycle!ClosingEvents, ClosingEvents,
         Lifecycle!MeetingEvents, MeetingEvents, Lifecycle!BreakoutArrivals, BreakoutArrivals,
         Lifecycle!BreakoutDepartures, BreakoutDepartures
<1> QED
  BY <1>1, <1>3, <1>4, <1>6, <1>7, <1>8

\* An event is one of AtomicLifecycle, after which the rows agree.
LEMMA EventIsAtomic ==
    ASSUME RowsAgree, NEW e \in ProcessEvents, Happens(e)
    PROVE  Lifecycle!ApplyEvent(e) /\ RowsAgree'
<1>1. PICK r \in Outcome(e) :
        bot' = [bot EXCEPT
                  !.state = FixedTarget(e),
                  !.recording = r,
                  !.last = [type |-> e, old |-> bot.state, new |-> FixedTarget(e)],
                  !.charges = IF IsCharged(e, bot.state, FixedTarget(e), bot.heartbeat)
                              THEN @ + 1 ELSE @]
  BY DEF Happens
<1>2. bot.state \in From(e) /\ restart' = [restart EXCEPT !.fresh = FALSE]
  BY DEF Happens, Allowed
<1>3. /\ bot'.state = FixedTarget(e)
      /\ bot'.recording = r
      /\ bot'.last = [type |-> e, old |-> bot.state, new |-> FixedTarget(e)]
      /\ bot'.charges = IF IsCharged(e, bot.state, FixedTarget(e), bot.heartbeat)
                        THEN bot.charges + 1 ELSE bot.charges
      /\ bot'.heartbeat = bot.heartbeat
  BY <1>1 DEF RowsAgree, BotRows
<1>4. Lifecycle!ApplyEvent(e)
  BY <1>2, <1>3, SameGraph DEF Lifecycle!ApplyEvent, Outcome
<1>5. e \in EventTypes
  BY DEF ProcessEvents, EventTypes
<1>6. bot' \in BotRows
  <2>1. [type |-> e, old |-> bot.state, new |-> FixedTarget(e)] \in EventRows
    BY <1>5, TargetsAreStates DEF RowsAgree, BotRows, EventRows
  <2>2. FixedTarget(e) \in States /\ r \in RecordingStates
    BY TargetsAreStates, OutcomesAreStates
  <2> DEFINE charges == IF IsCharged(e, bot.state, FixedTarget(e), bot.heartbeat)
                        THEN bot.charges + 1 ELSE bot.charges
  <2>3. charges \in Nat /\ bot.heartbeat \in BOOLEAN
    BY DEF RowsAgree, BotRows
  <2>4. bot' = [state |-> FixedTarget(e), heartbeat |-> bot.heartbeat, recording |-> r,
                last |-> [type |-> e, old |-> bot.state, new |-> FixedTarget(e)], charges |-> charges]
    BY <1>1 DEF RowsAgree, BotRows
  <2> QED
    BY <2>1, <2>2, <2>3, <2>4 DEF BotRows
<1>7. restart' \in Restarts /\ ~restart'.fresh
  BY <1>2 DEF RowsAgree, Restarts
<1> QED
  BY <1>3, <1>4, <1>6, <1>7 DEF RowsAgree

\* A step on the rows is one of AtomicLifecycle, or none, and keeps the invariant.
LEMMA RowStepIsAtomic ==
    ASSUME RowsAgree, RowStep
    PROVE  [Lifecycle!AtomicNext]_(Lifecycle!rows) /\ RowsAgree'
<1>1. ASSUME NEW e \in ProcessEvents, Happens(e)
      PROVE  Lifecycle!AtomicNext /\ RowsAgree'
  BY <1>1, EventIsAtomic, SameGraph DEF Lifecycle!AtomicNext
<1>2. CASE bot' = [bot EXCEPT !.heartbeat = TRUE] /\ restart' = [restart EXCEPT !.fresh = FALSE]
  <2>1. Lifecycle!SetHeartbeat
    BY <1>2 DEF Lifecycle!SetHeartbeat, RowsAgree, BotRows
  <2>2. RowsAgree'
    BY <1>2 DEF RowsAgree, BotRows, Restarts
  <2> QED
    BY <2>1, <2>2 DEF Lifecycle!AtomicNext
<1>3. CASE /\ restart.fresh
           /\ bot' = [bot EXCEPT !.heartbeat = FALSE]
           /\ restart' = [pc |-> "create", fresh |-> FALSE]
  <2>1. Lifecycle!ForgetHeartbeat
    BY <1>3 DEF Lifecycle!ForgetHeartbeat, RowsAgree, BotRows
  <2>2. RowsAgree'
    BY <1>3 DEF RowsAgree, BotRows, Restarts
  <2> QED
    BY <2>1, <2>2 DEF Lifecycle!AtomicNext
<1>4. CASE /\ bot' = bot
           /\ restart' \in Restarts
           /\ restart'.fresh => restart.fresh \/ bot.last.type = "JOIN_REQUESTED"
  <2>1. bot.last.type = "JOIN_REQUESTED" => bot.state = "JOINING"
    BY DEF RowsAgree, NoEvent, FixedTarget
  <2>2. RowsAgree'
    BY <1>4, <2>1 DEF RowsAgree
  <2> QED
    BY <1>4, <2>2 DEF Lifecycle!rows
<1> QED
  BY <1>1, <1>2, <1>3, <1>4 DEF RowStep

-----------------------------------------------------------------------------
\* Whoever changes no row, and lets the restart task's copy be.
LEMMA NoRowChanges == ASSUME RowsAgree, UNCHANGED <<bot, restart>> PROVE RowStep
  BY DEF RowStep, RowsAgree

\* The event happens, or it raises and the rows stay as they are.
LEMMA HappensOrRaises ==
    ASSUME RowsAgree, NEW e \in ProcessEvents, Happens(e) \/ Raises(e) PROVE RowStep
  BY NoRowChanges DEF RowStep, Raises, rowVars

LEMMA FailingIsRowStep == ASSUME RowsAgree, FailAndCleanUp PROVE RowStep
<1>1. "FATAL_ERROR" \in ProcessEvents
  BY DEF ProcessEvents, ClosingEvents, BreakoutArrivals
<1> QED
  BY <1>1, HappensOrRaises DEF FailAndCleanUp

LEMMA LaunchingIsRowStep ==
    ASSUME RowsAgree, LaunchBot \/ PodStarts \/ RunBotRedelivered PROVE RowStep
<1>1. {"JOIN_REQUESTED", "STAGED"} \subseteq ProcessEvents
  BY DEF ProcessEvents, MeetingEvents, BreakoutArrivals
<1>2. CASE LaunchBot
  BY <1>1, <1>2 DEF LaunchBot, RowStep
<1>3. CASE PodStarts
  <2>1. bot' = bot
    BY <1>3 DEF PodStarts, ProcessStarts
  <2>2. restart' = restart \/ restart' = [restart EXCEPT !.pc = "none"]
    BY <1>3 DEF PodStarts
  <2> QED
    BY <2>1, <2>2 DEF RowStep, RowsAgree, Restarts
<1>4. CASE RunBotRedelivered
  BY <1>4, NoRowChanges DEF RunBotRedelivered, ProcessStarts
<1> QED
  BY <1>2, <1>3, <1>4

LEMMA RequestsAreRowSteps ==
    ASSUME RowsAgree, \/ RequestLeave \/ RequestPause \/ RequestResume
                      \/ \E c \in Commands : CommandArrives(c) \/ CommandLost(c)
    PROVE  RowStep
<1>1. CASE RequestLeave
  BY <1>1 DEF RequestLeave, RowStep, ProcessEvents, MeetingEvents, BreakoutArrivals
<1>2. CASE RequestPause \/ RequestResume
  BY <1>2, NoRowChanges DEF RequestPause, RequestResume
<1>3. CASE \E c \in Commands : CommandArrives(c) \/ CommandLost(c)
  BY <1>3, NoRowChanges DEF CommandArrives, CommandLost
<1> QED
  BY <1>1, <1>2, <1>3

LEMMA TimeoutsAreRowSteps == ASSUME RowsAgree, Timeouts PROVE RowStep
<1>1. CASE FirstTimeout
  BY <1>1, FailingIsRowStep, NoRowChanges DEF FirstTimeout
<1>2. CASE Heartbeat
  BY <1>2 DEF Heartbeat, RowStep
<1>3. CASE JoinIfStaged
  <2>1. "JOIN_REQUESTED" \in ProcessEvents
    BY DEF ProcessEvents, MeetingEvents, BreakoutArrivals
  <2> QED
    BY <1>3, <2>1, FailingIsRowStep DEF JoinIfStaged, RowStep
<1>4. CASE ActOnJoin
  BY <1>4, FailingIsRowStep, NoRowChanges DEF ActOnJoin
<1> QED
  BY <1>1, <1>2, <1>3, <1>4 DEF Timeouts

LEMMA CallbacksAreRowSteps == ASSUME RowsAgree, Callbacks PROVE RowStep
<1>1. {"COULD_NOT_JOIN", "FATAL_ERROR", "BOT_LEFT_MEETING", "MEETING_ENDED", "BOT_JOINED_MEETING",
       "BOT_RECORDING_PERMISSION_GRANTED", "BOT_RECORDING_PERMISSION_DENIED", "LEAVE_REQUESTED",
       "RECORDING_PAUSED", "RECORDING_RESUMED"} \subseteq ProcessEvents
  BY DEF ProcessEvents, MeetingEvents, ClosingEvents, BreakoutArrivals
<1>2. CASE HandleEnding
  <2>1. PICK m \in {"could_not_join", "ui_failure", "meeting_ended"} :
          Happens(EndingEvent(m)) \/ Raises(EndingEvent(m))
    BY <1>2 DEF HandleEnding
  <2>2. EndingEvent(m) \in ProcessEvents
    BY <1>1 DEF EndingEvent
  <2> QED
    BY <2>1, <2>2, HappensOrRaises
<1>3. CASE HandleJoined
  BY <1>1, <1>3, HappensOrRaises DEF HandleJoined
<1>4. CASE HandlePermission
  <2>1. \E e \in ProcessEvents : Happens(e) \/ Raises(e)
    BY <1>1, <1>4 DEF HandlePermission
  <2> QED
    BY <2>1, HappensOrRaises
<1>5. CASE HandleBlocked
  <2>1. CASE restart' = [restart EXCEPT !.pc = "queued"] /\ bot' = bot
    BY <2>1 DEF RowStep, RowsAgree, Restarts
  <2>2. CASE Happens("FATAL_ERROR") \/ Raises("FATAL_ERROR")
    BY <1>1, <2>2, HappensOrRaises
  <2> QED
    BY <1>5, <2>1, <2>2 DEF HandleBlocked
<1>6. CASE HandleAutoLeave
  BY <1>1, <1>6, HappensOrRaises DEF HandleAutoLeave
<1>7. CASE FinishAutoLeave \/ HandleSync \/ HandlePauseResume
  BY <1>7, NoRowChanges DEF FinishAutoLeave, HandleSync, HandlePauseResume
<1>8. CASE RecordPauseResume
  <2>1. \E e \in ProcessEvents : Happens(e) \/ Raises(e)
    BY <1>1, <1>8 DEF RecordPauseResume
  <2> QED
    BY <2>1, HappensOrRaises
<1> QED
  BY <1>2, <1>3, <1>4, <1>5, <1>6, <1>7, <1>8 DEF Callbacks

LEMMA EndingIsRowStep == ASSUME RowsAgree, Ending PROVE RowStep
<1>1. CASE FinishCleanup
  <2>1. "POST_PROCESSING_COMPLETED" \in ProcessEvents
    BY DEF ProcessEvents, ClosingEvents, BreakoutArrivals
  <2>2. CASE proc.copy = "POST_PROCESSING"
    BY <1>1, <2>1, <2>2, HappensOrRaises DEF FinishCleanup
  <2>3. CASE proc.copy # "POST_PROCESSING"
    BY <1>1, <2>3, NoRowChanges DEF FinishCleanup, rowVars
  <2> QED
    BY <2>2, <2>3
<1>2. CASE ProcessExits
  BY <1>2, NoRowChanges DEF ProcessExits
<1> QED
  BY <1>1, <1>2 DEF Ending

LEMMA BrowserIsRowStep ==
    ASSUME RowsAgree, BrowserJoins \/ BrowserTells \/ AutoLeave
    PROVE  RowStep
  BY NoRowChanges DEF BrowserJoins, BrowserTells, AutoLeave

LEMMA RestartIsRowStep == ASSUME RowsAgree, Restart \/ RestartFails \/ RestartRedelivered PROVE RowStep
<1>1. CASE RestartReads
  BY <1>1 DEF RestartReads, RowStep, Restarts
<1>2. CASE RestartReopens
  BY <1>2 DEF RestartReopens, RowStep, RowsAgree, Restarts
<1>3. CASE RestartForgets
  <2>1. CASE restart.fresh
    BY <1>3, <2>1 DEF RestartForgets, RowStep
  <2>2. CASE ~restart.fresh
    <3>1. [pc |-> "none", fresh |-> FALSE] \in Restarts
      BY DEF Restarts
    <3>2. bot' = bot /\ restart' = [pc |-> "none", fresh |-> FALSE]
      BY <1>3, <2>2 DEF RestartForgets
    <3> QED
      BY <3>1, <3>2 DEF RowStep
  <2> QED
    BY <2>1, <2>2
<1>4. CASE RestartRedelivered
  BY <1>4 DEF RestartRedelivered, RowStep, RowsAgree, Restarts
<1>5. CASE RestartGivesUp
  <2>1. bot' = bot /\ restart' = [pc |-> "none", fresh |-> FALSE] /\ restart' \in Restarts
    BY <1>5 DEF RestartGivesUp, Restarts
  <2> QED
    BY <2>1 DEF RowStep
<1>6. CASE RestartCannotCreate
  <2>1. bot' = bot /\ restart' \in Restarts /\ restart'.fresh = restart.fresh
    BY <1>6 DEF RestartCannotCreate, RowsAgree, Restarts
  <2> QED
    BY <2>1 DEF RowStep
<1> QED
  BY <1>1, <1>2, <1>3, <1>4, <1>5, <1>6 DEF Restart, RestartFails

LEMMA DyingIsRowStep ==
    ASSUME RowsAgree, CleanUpCommand \/ RunsTooLong \/ ProcessDies \/ LoopFails PROVE RowStep
<1>1. CASE Terminate
  BY <1>1 DEF Terminate, RowStep, ProcessEvents, ClosingEvents, BreakoutArrivals
<1>2. CASE ProcessDies
  BY <1>2, NoRowChanges DEF ProcessDies
<1>3. CASE LoopFails
  BY <1>3, FailingIsRowStep DEF LoopFails
<1> QED
  BY <1>1, <1>2, <1>3 DEF CleanUpCommand, HeartbeatTimeout, NeverLaunched, RunsTooLong

LEMMA ProcessStepIsRowStep == ASSUME RowsAgree, ProcessNext PROVE RowStep
  BY LaunchingIsRowStep, RequestsAreRowSteps, TimeoutsAreRowSteps, CallbacksAreRowSteps,
     EndingIsRowStep, BrowserIsRowStep, RestartIsRowStep, DyingIsRowStep
     DEF ProcessNext, MainLoop

LEMMA ProcessInitAgrees == ProcessInit => RowsAgree /\ Lifecycle!AtomicInit
<1> SUFFICES ASSUME ProcessInit PROVE RowsAgree /\ Lifecycle!AtomicInit
  OBVIOUS
<1>1. RowsAgree
  <2>1. bot \in BotRows
    <3>1. InitialStates("BOT") \subseteq States /\ "NOT_STARTED" \in RecordingStates
      BY DEF InitialStates, States, RecordingStates
    <3>2. /\ bot = [state |-> bot.state, heartbeat |-> FALSE, recording |-> "NOT_STARTED",
                    last |-> NoEvent, charges |-> 0]
          /\ bot.state \in InitialStates("BOT")
      BY DEF ProcessInit
    <3>3. [state |-> bot.state, heartbeat |-> FALSE, recording |-> "NOT_STARTED",
           last |-> NoEvent, charges |-> 0] \in BotRows
      BY <3>1, <3>2 DEF BotRows
    <3> QED
      BY <3>2, <3>3
  <2>2. bot.last = NoEvent
    BY DEF ProcessInit
  <2>3. restart \in Restarts /\ ~restart.fresh
    BY DEF ProcessInit, Restarts
  <2> QED
    BY <2>1, <2>2, <2>3 DEF RowsAgree
<1>2. Lifecycle!AtomicInit
  BY DEF ProcessInit, Lifecycle!AtomicInit, Lifecycle!InitialStates, InitialStates, NoEvent, Lifecycle!NoEvent
<1> QED
  BY <1>1, <1>2

\* Whatever the process, the views, the restart task and the clean-up commands do,
\* in whatever order and however often they die, the rows of the bot only ever go
\* through the steps of AtomicLifecycle.
THEOREM ProcessImplementsLifecycle == ProcessSpec => ImplementsLifecycle
<1>1. RowsAgree /\ [ProcessNext]_processVars => RowsAgree' /\ [Lifecycle!AtomicNext]_(Lifecycle!rows)
  <2> SUFFICES ASSUME RowsAgree, [ProcessNext]_processVars
               PROVE  RowsAgree' /\ [Lifecycle!AtomicNext]_(Lifecycle!rows)
    OBVIOUS
  <2>1. RowStep
    BY ProcessStepIsRowStep, NoRowChanges DEF processVars
  <2> QED
    BY <2>1, RowStepIsAtomic
<1> QED
  BY <1>1, ProcessInitAgrees, PTL DEF ProcessSpec, ImplementsLifecycle, Lifecycle!AtomicSpec

-----------------------------------------------------------------------------
(* The process and its rows *)

Processes == [pc : {"off", "loop", "acting", "pausing", "resuming", "leaving", "cleaning"},
              copy : States, first : BOOLEAN, quit : BOOLEAN, cleaned : BOOLEAN,
              pipeline : BOOLEAN, doomed : BOOLEAN]
Adapters == [phase : {"idle", "joining", "in", "over"}, left : BOOLEAN, granted : BOOLEAN]
Pasts == [inits : Nat, restarts : 0 .. MaxRestarts, stranded : BOOLEAN, trouble : 0 .. MaxTrouble]
Messages == Commands \cup AdapterMessages

\* A restart that is still to be counted has room.
RestartsHaveRoom == restart.pc \in {"queued", "read"} => past.restarts < MaxRestarts

LEMMA ProcessTypes ==
    ProcessTypeOK <=> /\ bot \in BotRows /\ restart \in Restarts /\ taken \in BOOLEAN
                      /\ proc \in Processes /\ adapter \in Adapters /\ past \in Pasts
                      /\ inbox \in Seq(Messages) /\ sent \subseteq Commands
BY DEF ProcessTypeOK, BotRows, Restarts, Processes, Adapters, Pasts, Messages

\* What the parts of the steps do to the process.
LEMMA PartsAreTyped ==
    ASSUME ProcessTypeOK, bot' \in BotRows
    PROVE  /\ Refreshed \in Processes
           /\ \A pc \in {"off", "loop", "acting", "pausing", "resuming", "leaving", "cleaning"} :
                [Refreshed EXCEPT !.pc = pc] \in Processes
           /\ Gone \in Processes
           /\ NewAdapter \in Adapters
           /\ <<>> \in Seq(Messages)
           /\ inbox # <<>> => Tail(inbox) \in Seq(Messages)
<1>1. bot'.state \in States
  BY DEF BotRows
<1>2. proc \in Processes
  BY ProcessTypes
<1>3. Refreshed \in Processes
  BY <1>1, <1>2 DEF Refreshed, Processes
<1>4. ASSUME NEW pc \in {"off", "loop", "acting", "pausing", "resuming", "leaving", "cleaning"}
      PROVE  [Refreshed EXCEPT !.pc = pc] \in Processes
  BY <1>3 DEF Processes
<1>5. "READY" \in States
  BY DEF States
<1>6. Gone \in Processes
  BY <1>5 DEF Gone, NoProcess, Processes
<1>7. NewAdapter \in Adapters
  BY DEF NewAdapter, Adapters
<1>8. inbox \in Seq(Messages)
  BY ProcessTypes
<1>q. QED
  BY <1>3, <1>4, <1>6, <1>7, <1>8

LEMMA TroubleIsTyped ==
    ASSUME ProcessTypeOK
    PROVE  /\ Trouble \/ Stranding => past' \in Pasts /\ past'.inits = past.inits /\ past'.restarts = past.restarts
           /\ past \in Pasts
<1>1. past \in Pasts
  BY ProcessTypes
<1>2. CASE Trouble
  BY <1>1, <1>2, BotProcessAssumption DEF Trouble, Pasts
<1>3. CASE Stranding
  <2>1. past.trouble + 1 \in 0 .. MaxTrouble
    BY <1>1, <1>3, BotProcessAssumption DEF Stranding, Pasts
  <2>2. past' = [past EXCEPT !.trouble = @ + 1, !.stranded = TRUE]
    BY <1>3 DEF Stranding
  <2>q. QED
    BY <1>1, <2>1, <2>2 DEF Pasts
<1>q. QED
  BY <1>1, <1>2, <1>3

LEMMA PostsAreTyped ==
    ASSUME ProcessTypeOK
    PROVE  /\ \A m \in Messages : Append(inbox, m) \in Seq(Messages)
           /\ \A box \in Seq(Messages) : AdapterLeaves(box) => inbox' \in Seq(Messages) /\ adapter' \in Adapters
<1>1. inbox \in Seq(Messages) /\ adapter \in Adapters
  BY ProcessTypes
<1>2. "meeting_ended" \in Messages
  BY DEF Messages, AdapterMessages
<1>3. ASSUME NEW box \in Seq(Messages), AdapterLeaves(box) PROVE inbox' \in Seq(Messages) /\ adapter' \in Adapters
  <2>1. [adapter EXCEPT !.left = TRUE] \in Adapters
    BY <1>1 DEF Adapters
  <2>2. Append(box, "meeting_ended") \in Seq(Messages)
    BY <1>2
  <2>q. QED
    BY <1>1, <1>3, <2>1, <2>2 DEF AdapterLeaves
<1>q. QED
  BY <1>1, <1>3

LEMMA TakingIsTyped ==
    ASSUME ProcessTypeOK, NEW s, NEW box \in Seq(Messages), TakeAction(s, box)
    PROVE  /\ taken' \in BOOLEAN /\ adapter' \in Adapters /\ past' \in Pasts /\ inbox' \in Seq(Messages)
           /\ past'.restarts = past.restarts
<1>1. taken \in BOOLEAN /\ adapter \in Adapters /\ past \in Pasts
  BY ProcessTypes
<1>2. CASE s = "JOINING"
  <2>1. /\ adapter' = [adapter EXCEPT !.phase = "joining"] /\ past' = [past EXCEPT !.inits = @ + 1]
        /\ taken' = TRUE /\ inbox' = box
    BY <1>2 DEF TakeAction
  <2>q. QED
    BY <1>1, <2>1 DEF Adapters, Pasts
<1>3. CASE s = "LEAVING"
  BY <1>1, <1>3, PostsAreTyped DEF TakeAction
<1>4. CASE s \notin {"JOINING", "LEAVING"}
  BY <1>1, <1>4 DEF TakeAction
<1>q. QED
  BY <1>2, <1>3, <1>4

LEMMA CleanupIsTyped ==
    ASSUME ProcessTypeOK, bot' \in BotRows, NEW box \in Seq(Messages), BeginCleanup(box)
    PROVE  proc' \in Processes /\ inbox' \in Seq(Messages) /\ adapter' \in Adapters
<1>1. CASE proc.cleaned
  BY <1>1, PartsAreTyped, ProcessTypes DEF BeginCleanup
<1>2. CASE ~proc.cleaned
  <2>1. [Refreshed EXCEPT !.pc = "cleaning", !.cleaned = TRUE, !.quit = TRUE, !.pipeline = FALSE] \in Processes
    <3>1. Refreshed \in Processes
      BY PartsAreTyped
    <3>q. QED
      BY <3>1 DEF Processes
  <2>q. QED
    BY <1>2, <2>1, PostsAreTyped DEF BeginCleanup
<1>q. QED
  BY <1>1, <1>2

\* Whether the event happens or raises, the flag of its row stays a flag.
LEMMA FlagIsTyped ==
    ASSUME ProcessTypeOK, NEW e
    PROVE  Happens(e) \/ Raises(e) => taken' \in BOOLEAN /\ restart'.pc = restart.pc
  BY ProcessTypes DEF Happens, Raises, rowVars, Restarts

PartTypes == /\ taken \in BOOLEAN /\ proc \in Processes /\ adapter \in Adapters /\ past \in Pasts
             /\ inbox \in Seq(Messages) /\ sent \subseteq Commands /\ RestartsHaveRoom

LEMMA ThereIsRoomStill ==
    ASSUME RestartsHaveRoom, restart'.pc = restart.pc, past'.restarts = past.restarts PROVE RestartsHaveRoom'
BY DEF RestartsHaveRoom

LEMMA FailingIsTyped ==
    ASSUME ProcessTypeOK, bot' \in BotRows, FailAndCleanUp
    PROVE  /\ taken' \in BOOLEAN /\ proc' \in Processes /\ adapter' \in Adapters /\ inbox' \in Seq(Messages)
           /\ restart'.pc = restart.pc
<1>1. inbox \in Seq(Messages)
  BY ProcessTypes
<1>q. QED
  BY <1>1, CleanupIsTyped, FlagIsTyped DEF FailAndCleanUp

LEMMA LaunchingIsTyped ==
    ASSUME ProcessTypeOK, RestartsHaveRoom, bot' \in BotRows,
           LaunchBot \/ PodStarts \/ RunBotRedelivered \/ RequestLeave \/ RequestPause \/ RequestResume
    PROVE  PartTypes'
<1> USE DEF PartTypes
<1>1. /\ taken \in BOOLEAN /\ proc \in Processes /\ adapter \in Adapters /\ past \in Pasts
      /\ inbox \in Seq(Messages) /\ sent \subseteq Commands /\ restart \in Restarts /\ bot \in BotRows
  BY ProcessTypes
<1>2. CASE LaunchBot
  BY <1>1, <1>2, FlagIsTyped, ThereIsRoomStill DEF LaunchBot
<1>3. ASSUME ProcessStarts
      PROVE  /\ taken' \in BOOLEAN /\ proc' \in Processes /\ adapter' \in Adapters
             /\ inbox' \in Seq(Messages) /\ sent' \subseteq Commands
  <2>1. bot.state \in States
    BY <1>1 DEF BotRows
  <2>2. [NoProcess EXCEPT !.pc = "loop", !.copy = bot.state] \in Processes
    BY <2>1 DEF NoProcess, Processes
  <2>q. QED
    BY <1>1, <1>3, <2>2, PartsAreTyped DEF ProcessStarts
<1>4. CASE PodStarts
  <2>1. past' = past /\ (restart' = restart \/ restart'.pc = "none")
    BY <1>1, <1>4 DEF PodStarts, Restarts
  <2>q. QED
    BY <1>1, <1>3, <1>4, <2>1 DEF PodStarts, RestartsHaveRoom
<1>5. CASE RunBotRedelivered
  BY <1>1, <1>3, <1>5, TroubleIsTyped, ThereIsRoomStill DEF RunBotRedelivered
<1>6. CASE RequestLeave
  BY <1>1, <1>6, FlagIsTyped, ThereIsRoomStill DEF RequestLeave, Commands
<1>7. CASE RequestPause
  BY <1>1, <1>7, TroubleIsTyped, ThereIsRoomStill DEF RequestPause, Commands
<1>8. CASE RequestResume
  BY <1>1, <1>8, ThereIsRoomStill DEF RequestResume, Commands
<1>q. QED
  BY <1>2, <1>4, <1>5, <1>6, <1>7, <1>8

LEMMA CommandsAreTyped ==
    ASSUME ProcessTypeOK, RestartsHaveRoom, NEW c \in Commands, CommandArrives(c) \/ CommandLost(c)
    PROVE  PartTypes'
<1> USE DEF PartTypes
<1>1. /\ taken \in BOOLEAN /\ proc \in Processes /\ adapter \in Adapters /\ past \in Pasts
      /\ inbox \in Seq(Messages) /\ sent \subseteq Commands
  BY ProcessTypes
<1>2. CASE CommandArrives(c)
  <2>1. Append(inbox, c) \in Seq(Messages)
    BY PostsAreTyped DEF Messages
  <2>q. QED
    BY <1>1, <1>2, <2>1, ThereIsRoomStill DEF CommandArrives
<1>3. CASE CommandLost(c)
  BY <1>1, <1>3, TroubleIsTyped, ThereIsRoomStill DEF CommandLost
<1>q. QED
  BY <1>2, <1>3

LEMMA TimeoutsAreTyped ==
    ASSUME ProcessTypeOK, RestartsHaveRoom, bot' \in BotRows, Timeouts \/ AutoLeave \/ LoopFails
    PROVE  PartTypes'
<1> USE DEF PartTypes
<1>1. /\ taken \in BOOLEAN /\ proc \in Processes /\ adapter \in Adapters /\ past \in Pasts
      /\ inbox \in Seq(Messages) /\ sent \subseteq Commands /\ restart \in Restarts /\ bot \in BotRows
  BY ProcessTypes
<1>2. bot.state \in States
  BY <1>1 DEF BotRows
<1>3. CASE FirstTimeout
  <2>1. [proc EXCEPT !.first = FALSE, !.copy = bot.state] \in Processes
    BY <1>1, <1>2 DEF Processes
  <2>2. CASE TakeAction(bot.state, inbox) /\ proc' = [proc EXCEPT !.first = FALSE, !.copy = bot.state]
             /\ UNCHANGED <<bot, restart>>
    BY <1>1, <1>3, <2>1, <2>2, TakingIsTyped, ThereIsRoomStill DEF FirstTimeout
  <2>3. CASE FailAndCleanUp /\ UNCHANGED past
    BY <1>1, <1>3, <2>3, FailingIsTyped, ThereIsRoomStill DEF FirstTimeout
  <2>q. QED
    BY <1>3, <2>2, <2>3 DEF FirstTimeout
<1>4. CASE Heartbeat
  <2>1. restart'.pc = restart.pc
    BY <1>1, <1>4 DEF Heartbeat, Restarts
  <2>q. QED
    BY <1>1, <1>4, <2>1, PartsAreTyped, ThereIsRoomStill DEF Heartbeat
<1>5. CASE JoinIfStaged
  <2>1. CASE Happens("JOIN_REQUESTED") /\ proc' = [Refreshed EXCEPT !.pc = "acting"] /\ UNCHANGED <<inbox, adapter>>
    BY <1>1, <1>5, <2>1, FlagIsTyped, PartsAreTyped, ThereIsRoomStill DEF JoinIfStaged
  <2>2. CASE FailAndCleanUp
    BY <1>1, <1>5, <2>2, FailingIsTyped, ThereIsRoomStill DEF JoinIfStaged
  <2>q. QED
    BY <1>5, <2>1, <2>2 DEF JoinIfStaged
<1>6. CASE ActOnJoin
  <2>1. [proc EXCEPT !.pc = "loop"] \in Processes
    BY <1>1 DEF Processes
  <2>2. CASE TakeAction(proc.copy, inbox) /\ proc' = [proc EXCEPT !.pc = "loop"] /\ UNCHANGED <<bot, restart>>
    BY <1>1, <1>6, <2>1, <2>2, TakingIsTyped, ThereIsRoomStill DEF ActOnJoin
  <2>3. CASE FailAndCleanUp /\ UNCHANGED past
    BY <1>1, <1>6, <2>3, FailingIsTyped, ThereIsRoomStill DEF ActOnJoin
  <2>q. QED
    BY <1>6, <2>2, <2>3 DEF ActOnJoin
<1>7. CASE AutoLeave
  <2>1. Append(inbox, "auto_leave") \in Seq(Messages)
    BY PostsAreTyped DEF Messages, AdapterMessages
  <2>q. QED
    BY <1>1, <1>7, <2>1, ThereIsRoomStill DEF AutoLeave, AutoLeaveIsDue, Posts
<1>8. CASE LoopFails
  BY <1>1, <1>8, FailingIsTyped, TroubleIsTyped, ThereIsRoomStill DEF LoopFails
<1>q. QED
  BY <1>3, <1>4, <1>5, <1>6, <1>7, <1>8 DEF Timeouts

LEMMA CallbacksAreTyped ==
    ASSUME ProcessTypeOK, RestartsHaveRoom, bot' \in BotRows, Callbacks
    PROVE  PartTypes'
<1> USE DEF PartTypes
<1>1. /\ taken \in BOOLEAN /\ proc \in Processes /\ adapter \in Adapters /\ past \in Pasts
      /\ inbox \in Seq(Messages) /\ sent \subseteq Commands /\ restart \in Restarts /\ bot \in BotRows
  BY ProcessTypes
<1>2. bot.state \in States /\ Refreshed \in Processes
  BY <1>1, PartsAreTyped DEF BotRows
<1>t. inbox # <<>> => Tail(inbox) \in Seq(Messages)
  BY PartsAreTyped
<1>3. CASE HandleEnding
  <2>1. PICK m \in {"could_not_join", "ui_failure", "meeting_ended"} :
          /\ Handling(m)
          /\ \/ Happens(EndingEvent(m)) /\ BeginCleanup(Tail(inbox))
             \/ Raises(EndingEvent(m)) /\ proc' = Refreshed /\ inbox' = Tail(inbox) /\ UNCHANGED adapter
    BY <1>3 DEF HandleEnding
  <2>2. taken' \in BOOLEAN /\ restart'.pc = restart.pc
    BY <2>1, FlagIsTyped
  <2>3. Tail(inbox) \in Seq(Messages)
    BY <1>t, <2>1 DEF Handling
  <2>4. proc' \in Processes /\ inbox' \in Seq(Messages) /\ adapter' \in Adapters
    BY <1>1, <1>2, <2>1, <2>3, CleanupIsTyped
  <2>q. QED
    BY <1>1, <1>3, <2>2, <2>4, ThereIsRoomStill DEF HandleEnding
<1>4. CASE HandleJoined
  BY <1>1, <1>2, <1>t, <1>4, FlagIsTyped, ThereIsRoomStill DEF HandleJoined, Handling
<1>5. CASE HandlePermission
  <2>1. PICK m \in {"granted", "denied"}, e \in {"BOT_RECORDING_PERMISSION_GRANTED", "BOT_RECORDING_PERMISSION_DENIED"} :
          Handling(m) /\ (Happens(e) \/ Raises(e)) /\ proc' = [Refreshed EXCEPT !.pipeline = (m = "granted")]
    BY <1>5 DEF HandlePermission
  <2>2. [Refreshed EXCEPT !.pipeline = (m = "granted")] \in Processes
    BY <1>2 DEF Processes
  <2>q. QED
    BY <1>1, <1>t, <1>5, <2>1, <2>2, FlagIsTyped, ThereIsRoomStill DEF HandlePermission, Handling
<1>6. CASE HandleBlocked
  <2>0. Tail(inbox) \in Seq(Messages)
    BY <1>t, <1>6 DEF HandleBlocked, Handling
  <2>1. CASE /\ past.restarts < MaxRestarts /\ restart' = [restart EXCEPT !.pc = "queued"]
             /\ proc' = [proc EXCEPT !.quit = TRUE] /\ inbox' = Tail(inbox) /\ UNCHANGED <<bot, taken, adapter>>
    <3>1. [proc EXCEPT !.quit = TRUE] \in Processes
      BY <1>1 DEF Processes
    <3>q. QED
      BY <1>1, <1>6, <2>0, <2>1, <3>1 DEF HandleBlocked, RestartsHaveRoom
  <2>2. CASE Happens("FATAL_ERROR") /\ BeginCleanup(Tail(inbox))
    BY <1>1, <1>6, <2>0, <2>2, CleanupIsTyped, FlagIsTyped, ThereIsRoomStill DEF HandleBlocked
  <2>3. CASE Raises("FATAL_ERROR") /\ proc' = Refreshed /\ inbox' = Tail(inbox) /\ UNCHANGED adapter
    BY <1>1, <1>2, <1>6, <2>0, <2>3, FlagIsTyped, ThereIsRoomStill DEF HandleBlocked
  <2>q. QED
    BY <1>6, <2>1, <2>2, <2>3 DEF HandleBlocked
<1>7. CASE HandleAutoLeave
  BY <1>1, <1>2, <1>t, <1>7, FlagIsTyped, PartsAreTyped, ThereIsRoomStill DEF HandleAutoLeave, Handling
<1>8. CASE FinishAutoLeave
  <2>1. [proc EXCEPT !.pc = "loop"] \in Processes
    BY <1>1 DEF Processes
  <2>q. QED
    BY <1>1, <1>8, <2>1, PostsAreTyped, ThereIsRoomStill DEF FinishAutoLeave
<1>9. CASE HandleSync
  <2>1. [proc EXCEPT !.copy = bot.state] \in Processes
    BY <1>1, <1>2 DEF Processes
  <2>2. Tail(inbox) \in Seq(Messages)
    BY <1>t, <1>9 DEF HandleSync, Handling
  <2>3. CASE TakeAction(bot.state, Tail(inbox))
    BY <1>1, <1>9, <2>1, <2>2, <2>3, TakingIsTyped, ThereIsRoomStill DEF HandleSync
  <2>4. CASE inbox' = Tail(inbox) /\ UNCHANGED <<taken, adapter, past>>
    BY <1>1, <1>9, <2>1, <2>2, <2>4, ThereIsRoomStill DEF HandleSync
  <2>q. QED
    BY <1>9, <2>3, <2>4 DEF HandleSync
<1>10. CASE HandlePauseResume
  <2>1. /\ [proc EXCEPT !.copy = bot.state] \in Processes
        /\ [proc EXCEPT !.copy = bot.state, !.pipeline = FALSE, !.pc = "pausing"] \in Processes
        /\ [proc EXCEPT !.copy = bot.state, !.pipeline = TRUE, !.pc = "resuming"] \in Processes
    BY <1>1, <1>2 DEF Processes
  <2>q. QED
    BY <1>1, <1>t, <1>10, <2>1, ThereIsRoomStill DEF HandlePauseResume, Handling
<1>11. CASE RecordPauseResume
  BY <1>1, <1>2, <1>11, FlagIsTyped, PartsAreTyped, ThereIsRoomStill DEF RecordPauseResume
<1>q. QED
  BY <1>3, <1>4, <1>5, <1>6, <1>7, <1>8, <1>9, <1>10, <1>11 DEF Callbacks

LEMMA OthersAreTyped ==
    ASSUME ProcessTypeOK, RestartsHaveRoom, bot' \in BotRows,
           Ending \/ BrowserJoins \/ BrowserTells \/ CleanUpCommand \/ RunsTooLong \/ ProcessDies
    PROVE  PartTypes'
<1> USE DEF PartTypes
<1>1. /\ taken \in BOOLEAN /\ proc \in Processes /\ adapter \in Adapters /\ past \in Pasts
      /\ inbox \in Seq(Messages) /\ sent \subseteq Commands /\ restart \in Restarts /\ bot \in BotRows
  BY ProcessTypes
<1>2. bot.state \in States /\ Refreshed \in Processes /\ Gone \in Processes /\ NewAdapter \in Adapters
      /\ <<>> \in Seq(Messages)
  BY <1>1, PartsAreTyped DEF BotRows
<1>3. CASE FinishCleanup
  <2>1. [Refreshed EXCEPT !.pc = "loop"] \in Processes
    BY PartsAreTyped
  <2>2. taken' \in BOOLEAN /\ restart'.pc = restart.pc
    BY <1>1, <1>3, FlagIsTyped DEF FinishCleanup, rowVars
  <2>q. QED
    BY <1>1, <1>3, <2>1, <2>2, ThereIsRoomStill DEF FinishCleanup
<1>4. CASE ProcessExits
  BY <1>1, <1>2, <1>4, ThereIsRoomStill DEF ProcessExits
<1>5. CASE BrowserJoins
  <2>1. \A m \in {"joined", "could_not_join", "ui_failure", "blocked"} : Append(inbox, m) \in Seq(Messages)
    BY PostsAreTyped DEF Messages, AdapterMessages
  <2>2. \A ph \in {"in", "over"} : [adapter EXCEPT !.phase = ph] \in Adapters
    BY <1>1 DEF Adapters
  <2>q. QED
    BY <1>1, <1>5, <2>1, <2>2, ThereIsRoomStill DEF BrowserJoins, JoinAttemptEnds, Posts
<1>6. CASE BrowserTells
  <2>1. \A m \in {"granted", "denied", "could_not_join", "auto_leave", "meeting_ended"} : Append(inbox, m) \in Seq(Messages)
    BY PostsAreTyped DEF Messages, AdapterMessages
  <2>2. [adapter EXCEPT !.granted = TRUE] \in Adapters /\ [adapter EXCEPT !.left = TRUE] \in Adapters
    BY <1>1 DEF Adapters
  <2>3. past' = past \/ Trouble
    BY <1>6 DEF BrowserTells
  <2>4. past' \in Pasts /\ past'.restarts = past.restarts
    BY <1>1, <2>3, TroubleIsTyped
  <2>5. PermissionGranted \/ PermissionDenied \/ MeetingEnds \/ PageComplains
    BY <1>6 DEF BrowserTells
  <2>6. inbox' \in Seq(Messages) /\ adapter' \in Adapters
    BY <1>1, <2>1, <2>2, <2>5 DEF PermissionGranted, PermissionDenied, MeetingEnds, PageComplains, Posts
  <2>q. QED
    BY <1>1, <1>6, <2>4, <2>6, ThereIsRoomStill DEF BrowserTells
<1>7. ASSUME Terminate PROVE proc' \in Processes /\ taken' \in BOOLEAN /\ restart'.pc = restart.pc
                              /\ UNCHANGED <<inbox, adapter, sent>>
  <2>1. [proc EXCEPT !.doomed = TRUE] \in Processes
    BY <1>1 DEF Processes
  <2>q. QED
    BY <1>7, <2>1, FlagIsTyped DEF Terminate
<1>8. CASE CleanUpCommand \/ RunsTooLong
  <2>1. Terminate /\ (past' = past \/ Trouble)
    BY <1>8 DEF CleanUpCommand, HeartbeatTimeout, NeverLaunched, RunsTooLong
  <2>2. past' \in Pasts /\ past'.restarts = past.restarts
    BY <1>1, <2>1, TroubleIsTyped
  <2>q. QED
    BY <1>1, <1>7, <2>1, <2>2, ThereIsRoomStill
<1>9. CASE ProcessDies
  <2>1. past' = past \/ Trouble
    BY <1>9 DEF ProcessDies
  <2>2. past' \in Pasts /\ past'.restarts = past.restarts
    BY <1>1, <2>1, TroubleIsTyped
  <2>q. QED
    BY <1>1, <1>2, <1>9, <2>2, ThereIsRoomStill DEF ProcessDies
<1>q. QED
  BY <1>3, <1>4, <1>5, <1>6, <1>8, <1>9 DEF Ending

LEMMA RestartsAreTyped ==
    ASSUME ProcessTypeOK, RestartsHaveRoom, Restart \/ RestartFails \/ RestartRedelivered PROVE PartTypes'
<1> USE DEF PartTypes
<1>1. /\ taken \in BOOLEAN /\ proc \in Processes /\ adapter \in Adapters /\ past \in Pasts
      /\ inbox \in Seq(Messages) /\ sent \subseteq Commands /\ restart \in Restarts
  BY ProcessTypes
<1>2. CASE RestartReads
  BY <1>1, <1>2 DEF RestartReads, RestartsHaveRoom
<1>3. CASE RestartReopens
  <2>1. restart'.pc = "marked"
    BY <1>1, <1>3 DEF RestartReopens, Restarts
  <2>2. past.restarts + 1 \in 0 .. MaxRestarts
    BY <1>1, <1>3, BotProcessAssumption DEF RestartReopens, RestartsHaveRoom, Pasts
  <2>3. past' \in Pasts
    <3>1. CASE past' = [past EXCEPT !.restarts = @ + 1]
      BY <1>1, <2>2, <3>1 DEF Pasts
    <3>2. CASE /\ past.trouble < MaxTrouble
               /\ past' = [past EXCEPT !.restarts = @ + 1, !.trouble = @ + 1, !.stranded = TRUE]
      <4>1. past.trouble + 1 \in 0 .. MaxTrouble
        BY <1>1, <3>2, BotProcessAssumption DEF Pasts
      <4>q. QED
        BY <1>1, <2>2, <3>2, <4>1 DEF Pasts
    <3>q. QED
      BY <1>3, <3>1, <3>2 DEF RestartReopens
  <2>q. QED
    BY <1>1, <1>3, <2>1, <2>3 DEF RestartReopens, RestartsHaveRoom
<1>4. CASE RestartForgets
  BY <1>1, <1>4 DEF RestartForgets, RestartsHaveRoom
<1>5. CASE RestartRedelivered
  <2>1. past' \in Pasts /\ past'.restarts = past.restarts
    BY <1>5, TroubleIsTyped DEF RestartRedelivered
  <2>q. QED
    BY <1>1, <1>5, <2>1 DEF RestartRedelivered, RestartsHaveRoom
<1>6. CASE RestartGivesUp
  <2>1. past' \in Pasts
    BY <1>6, TroubleIsTyped DEF RestartGivesUp
  <2>2. proc' \in Processes /\ restart' \in Restarts /\ restart'.pc = "none"
    BY <1>1, <1>6 DEF RestartGivesUp, Processes, Restarts
  <2>q. QED
    BY <1>1, <1>6, <2>1, <2>2 DEF RestartGivesUp, RestartsHaveRoom
<1>7. CASE RestartCannotCreate
  <2>1. past' \in Pasts
    BY <1>1, <1>7, TroubleIsTyped DEF RestartCannotCreate
  <2>2. restart' \in Restarts /\ restart'.pc = "none"
    BY <1>1, <1>7 DEF RestartCannotCreate, Restarts
  <2>q. QED
    BY <1>1, <1>7, <2>1, <2>2 DEF RestartCannotCreate, RestartsHaveRoom
<1>q. QED
  BY <1>2, <1>3, <1>4, <1>5, <1>6, <1>7 DEF Restart, RestartFails

ProcessTyped == RowsAgree /\ ProcessTypeOK /\ RestartsHaveRoom

LEMMA ProcessStaysTyped == ProcessTyped /\ [ProcessNext]_processVars => ProcessTyped'
<1> SUFFICES ASSUME ProcessTyped, [ProcessNext]_processVars PROVE ProcessTyped'
  OBVIOUS
<1>1. RowsAgree'
  <2>1. RowStep
    BY ProcessStepIsRowStep, NoRowChanges DEF processVars, ProcessTyped
  <2>q. QED
    BY <2>1, RowStepIsAtomic DEF ProcessTyped
<1>2. bot' \in BotRows /\ restart' \in Restarts
  BY <1>1 DEF RowsAgree
<1>3. PartTypes'
  <2>1. CASE UNCHANGED processVars
    BY <2>1, ProcessTypes DEF processVars, PartTypes, ProcessTyped, RestartsHaveRoom
  <2>2. CASE ProcessNext
    BY <1>2, <2>2, LaunchingIsTyped, CommandsAreTyped, TimeoutsAreTyped, CallbacksAreTyped, OthersAreTyped,
       RestartsAreTyped DEF ProcessNext, MainLoop, ProcessTyped
  <2>q. QED
    BY <2>1, <2>2
<1>4. ProcessTypeOK'
  BY <1>2, <1>3 DEF PartTypes, ProcessTypeOK, BotRows, Restarts, Processes, Adapters, Pasts, Messages
<1>q. QED
  BY <1>1, <1>3, <1>4 DEF ProcessTyped, PartTypes

LEMMA ProcessInitiallyTyped == ProcessInit => ProcessTyped
<1> SUFFICES ASSUME ProcessInit PROVE ProcessTyped
  OBVIOUS
<1>1. RowsAgree
  BY ProcessInitAgrees
<1>2. bot \in BotRows /\ restart \in Restarts
  BY <1>1 DEF RowsAgree
<1>3. taken \in BOOLEAN
  BY DEF ProcessInit
<1>7. inbox \in Seq(Messages)
  BY DEF ProcessInit
<1>8. sent \subseteq Commands
  BY DEF ProcessInit
<1>4. proc \in Processes /\ adapter \in Adapters
  BY DEF ProcessInit, NoProcess, NewAdapter, Processes, Adapters, States
<1>5. past \in Pasts
  BY BotProcessAssumption DEF ProcessInit, Pasts
<1>6. RestartsHaveRoom
  BY DEF ProcessInit, RestartsHaveRoom
<1>q. QED
  BY <1>1, <1>2, <1>3, <1>4, <1>5, <1>6, <1>7, <1>8, ProcessTypes DEF ProcessTyped

\* The rows, the process, the adapter and the restart task keep their types; the
\* restarts stay within their bound, since a task is queued only while there is room.
THEOREM ProcessTypeCorrect == ProcessSpec => []ProcessTypeOK
BY ProcessInitiallyTyped, ProcessStaysTyped, PTL DEF ProcessSpec, ProcessTyped

-----------------------------------------------------------------------------
(* One join per pod *)

\* The joins there were, and the one that is still asked for, are counted by the
\* restarts. A bot that may still be asked to join has not joined.
Open == IF bot.last.type = "JOIN_REQUESTED" /\ ~taken THEN 1 ELSE 0
JoinBudget ==
    /\ past.inits + Open <= 1 + past.restarts
    /\ bot.state \in {"READY", "SCHEDULED", "STAGED"} => past.inits = 0

\* What a step may do to the request to join: an event puts another request in
\* its place, it is taken with a join or without one, a restart opens it again.
JoinStep ==
    \/ (\E e \in ProcessEvents : Happens(e)) /\ past'.inits = past.inits /\ past'.restarts = past.restarts
    \/ /\ bot'.state = bot.state /\ bot'.last = bot.last
       /\ \/ taken' \in {taken, TRUE} /\ past'.inits = past.inits /\ past'.restarts = past.restarts
          \/ /\ bot.last.type = "JOIN_REQUESTED" /\ ~taken /\ taken'
             /\ past'.inits = past.inits + 1 /\ past'.restarts = past.restarts
          \/ past'.inits = past.inits /\ past'.restarts = past.restarts + 1

LEMMA JoinStepKeepsBudget == ASSUME ProcessTyped, ProcessTyped', JoinBudget, JoinStep PROVE JoinBudget'
<1>1. /\ past.inits \in Nat /\ past.restarts \in Nat /\ taken \in BOOLEAN /\ taken' \in BOOLEAN
      /\ past'.inits \in Nat /\ past'.restarts \in Nat
  BY BotProcessAssumption, ProcessTypes DEF ProcessTyped, ProcessTypeOK, Pasts
<1>2. ASSUME NEW e \in ProcessEvents, Happens(e), past'.inits = past.inits, past'.restarts = past.restarts
      PROVE  JoinBudget'
  <2>0. bot \in BotRows
    BY DEF ProcessTyped, RowsAgree
  <2>1. bot'.state = FixedTarget(e) /\ bot'.last.type = e /\ bot.state \in From(e)
    BY <1>2, <2>0 DEF Happens, Allowed, BotRows
  <2>2. bot'.state \in {"READY", "SCHEDULED", "STAGED"} => e = "STAGED"
    BY <2>1 DEF ProcessEvents, MeetingEvents, ClosingEvents, BreakoutArrivals, BreakoutDepartures, FixedTarget
  <2>3. e \in {"STAGED", "JOIN_REQUESTED"} => past.inits = 0
    BY <2>1 DEF JoinBudget, From, BreakoutDepartures
  <2>4. past.inits <= 1 + past.restarts
    BY <1>1 DEF JoinBudget, Open
  <2>q. QED
    BY <1>1, <1>2, <2>1, <2>2, <2>3, <2>4 DEF JoinBudget, Open
<1>3. ASSUME bot'.state = bot.state, bot'.last = bot.last, taken' \in {taken, TRUE}, past'.inits = past.inits,
             past'.restarts = past.restarts
      PROVE  JoinBudget'
  <2>1. taken => taken'
    BY <1>1, <1>3
  <2>2. Open' <= Open
    BY <1>1, <1>3, <2>1 DEF Open
  <2>3. Open \in Nat /\ Open' \in Nat
    BY DEF Open
  <2>q. QED
    BY <1>1, <1>3, <2>2, <2>3 DEF JoinBudget
<1>4. ASSUME bot'.state = bot.state, bot'.last = bot.last, bot.last.type = "JOIN_REQUESTED", ~taken, taken',
             past'.inits = past.inits + 1, past'.restarts = past.restarts
      PROVE  JoinBudget'
  <2>1. bot.state = "JOINING"
    BY <1>4 DEF ProcessTyped, RowsAgree, FixedTarget, NoEvent
  <2>q. QED
    BY <1>1, <1>4, <2>1 DEF JoinBudget, Open
<1>5. ASSUME bot'.state = bot.state, bot'.last = bot.last, past'.inits = past.inits,
             past'.restarts = past.restarts + 1
      PROVE  JoinBudget'
  BY <1>1, <1>5 DEF JoinBudget, Open
<1>q. QED
  BY <1>2, <1>3, <1>4, <1>5 DEF JoinStep

LEMMA TakingIsJoinStep ==
    ASSUME ProcessTyped, NEW s, NEW box, TakeAction(s, box), UNCHANGED bot PROVE JoinStep
<1>1. past \in Pasts
  BY ProcessTypes DEF ProcessTyped
<1>2. CASE s = "JOINING"
  BY <1>1, <1>2 DEF JoinStep, TakeAction, CanTake, RequestOf, Pasts
<1>3. CASE s = "LEAVING"
  BY <1>3 DEF JoinStep, TakeAction
<1>4. CASE s \notin {"JOINING", "LEAVING"}
  BY <1>4 DEF JoinStep, TakeAction
<1>q. QED
  BY <1>2, <1>3, <1>4

LEMMA EventIsJoinStep ==
    ASSUME ProcessTyped, NEW e \in ProcessEvents, Happens(e) \/ Raises(e), past'.inits = past.inits,
           past'.restarts = past.restarts
    PROVE  JoinStep
BY DEF JoinStep, Raises, rowVars

LEMMA StepIsJoinStep == ASSUME ProcessTyped, [ProcessNext]_processVars PROVE JoinStep
<1> USE DEF JoinStep
<1>1. {"JOIN_REQUESTED", "STAGED", "COULD_NOT_JOIN", "FATAL_ERROR", "BOT_LEFT_MEETING", "MEETING_ENDED",
       "BOT_JOINED_MEETING", "BOT_RECORDING_PERMISSION_GRANTED", "BOT_RECORDING_PERMISSION_DENIED",
       "LEAVE_REQUESTED", "RECORDING_PAUSED", "RECORDING_RESUMED", "POST_PROCESSING_COMPLETED"} \subseteq ProcessEvents
  BY DEF ProcessEvents, MeetingEvents, ClosingEvents, BreakoutArrivals
<1>2. Trouble \/ Stranding => past'.inits = past.inits /\ past'.restarts = past.restarts
  BY TroubleIsTyped DEF ProcessTyped
<1>3. FailAndCleanUp => \E e \in ProcessEvents : Happens(e) \/ Raises(e)
  BY <1>1 DEF FailAndCleanUp
<1>4. CASE LaunchBot \/ RequestLeave
  BY <1>1, <1>4 DEF LaunchBot, RequestLeave
<1>5. CASE PodStarts \/ RunBotRedelivered \/ RequestPause \/ RequestResume
  BY <1>2, <1>5 DEF PodStarts, RunBotRedelivered, ProcessStarts, RequestPause, RequestResume
<1>6. CASE \E c \in Commands : CommandArrives(c) \/ CommandLost(c)
  BY <1>2, <1>6 DEF CommandArrives, CommandLost
<1>7. CASE FirstTimeout \/ ActOnJoin \/ HandleSync
  <2>1. \/ UNCHANGED bot /\ \E s, box : TakeAction(s, box)
        \/ FailAndCleanUp /\ UNCHANGED past
        \/ UNCHANGED <<bot, taken, past>>
    BY <1>7 DEF FirstTimeout, ActOnJoin, HandleSync
  <2>q. QED
    BY <1>3, <2>1, TakingIsJoinStep, EventIsJoinStep
<1>8. CASE Heartbeat
  BY <1>8 DEF Heartbeat, ProcessTyped, RowsAgree, BotRows
<1>9. CASE JoinIfStaged \/ LoopFails
  BY <1>1, <1>2, <1>3, <1>9, EventIsJoinStep DEF JoinIfStaged, LoopFails
<1>10. CASE HandleEnding
  <2>1. PICK m \in {"could_not_join", "ui_failure", "meeting_ended"} :
          Happens(EndingEvent(m)) \/ Raises(EndingEvent(m))
    BY <1>10 DEF HandleEnding
  <2>2. EndingEvent(m) \in ProcessEvents
    BY <1>1 DEF EndingEvent
  <2>q. QED
    BY <1>10, <2>1, <2>2, EventIsJoinStep DEF HandleEnding
<1>11. CASE HandleJoined \/ HandlePermission \/ HandleAutoLeave \/ RecordPauseResume
  <2>1. (\E e \in ProcessEvents : Happens(e) \/ Raises(e)) /\ UNCHANGED past
    BY <1>1, <1>11 DEF HandleJoined, HandlePermission, HandleAutoLeave, RecordPauseResume
  <2>q. QED
    BY <2>1, EventIsJoinStep
<1>12. CASE HandleBlocked
  BY <1>1, <1>12, EventIsJoinStep DEF HandleBlocked
<1>13. CASE FinishAutoLeave \/ HandlePauseResume \/ ProcessExits \/ AutoLeave \/ BrowserJoins
  BY <1>13 DEF FinishAutoLeave, HandlePauseResume, ProcessExits, AutoLeave, BrowserJoins
<1>14. CASE FinishCleanup
  BY <1>1, <1>14, EventIsJoinStep DEF FinishCleanup, rowVars
<1>15. CASE BrowserTells \/ ProcessDies
  BY <1>2, <1>15 DEF BrowserTells, ProcessDies
<1>16. CASE RestartReads
  BY <1>16 DEF RestartReads
<1>17. CASE RestartReopens
  <2>1. past'.inits = past.inits /\ past'.restarts = past.restarts + 1
    BY <1>17, ProcessTypes DEF RestartReopens, ProcessTyped, Pasts
  <2>q. QED
    BY <1>17, <2>1 DEF RestartReopens
<1>18. CASE RestartForgets
  BY <1>18 DEF RestartForgets, ProcessTyped, RowsAgree, BotRows
<1>19. CASE RestartRedelivered \/ RestartFails
  BY <1>2, <1>19 DEF RestartRedelivered, RestartFails, RestartGivesUp, RestartCannotCreate
<1>20. CASE CleanUpCommand \/ RunsTooLong
  BY <1>1, <1>2, <1>20 DEF CleanUpCommand, HeartbeatTimeout, NeverLaunched, RunsTooLong, Terminate
<1>21. CASE UNCHANGED processVars
  BY <1>21 DEF processVars
<1>q. QED
  BY <1>4, <1>5, <1>6, <1>7, <1>8, <1>9, <1>10, <1>11, <1>12, <1>13, <1>14, <1>15, <1>16, <1>17, <1>18, <1>19, <1>20, <1>21
     DEF ProcessNext, MainLoop, Timeouts, Callbacks, Ending, Restart

\* For any bounds on the restarts and the trouble: whatever the main loop, the
\* commands, the deaths of the process and the restart task do in whatever order,
\* the browser is sent into the meeting once, and once more for each restart.
THEOREM JoinsCounted == ProcessSpec => []JoinsAreCounted
<1>1. ProcessInit => JoinBudget
  BY DEF ProcessInit, JoinBudget, Open, NoEvent
<1>2. ProcessTyped /\ ProcessTyped' /\ JoinBudget /\ [ProcessNext]_processVars => JoinBudget'
  BY StepIsJoinStep, JoinStepKeepsBudget
<1>3. ProcessTyped /\ JoinBudget => JoinsAreCounted
  <2>1. ProcessTyped => past.inits \in Nat /\ past.restarts \in Nat
    BY BotProcessAssumption, ProcessTypes DEF ProcessTyped, Pasts
  <2>q. QED
    BY <2>1 DEF JoinBudget, Open, JoinsAreCounted
<1>q. QED
  BY <1>1, <1>2, <1>3, ProcessInitiallyTyped, ProcessStaysTyped, PTL DEF ProcessSpec

-----------------------------------------------------------------------------
(* The process and the rows tell the same story *)

Over == PostMeetingStates \cup {"POST_PROCESSING"}

\* What the recording is in, by the state of the bot; the hooks of the events
\* raise when they find another.
RecordingFits ==
    /\ bot.state \in {"READY", "SCHEDULED", "STAGED", "JOINING", "WAITING_ROOM", "JOINED_NOT_RECORDING"} =>
           bot.recording = "NOT_STARTED"
    /\ bot.state = "JOINED_RECORDING" => bot.recording = "IN_PROGRESS"
    /\ bot.state = "JOINED_RECORDING_PAUSED" => bot.recording = "PAUSED"
    /\ bot.state = "JOINED_RECORDING_PERMISSION_DENIED" => bot.recording \in {"NOT_STARTED", "PAUSED"}

\* A bot that was never launched has no process and nothing to restart.
NotYetLaunched ==
    /\ bot.last = NoEvent <=> bot.state \in {"READY", "SCHEDULED"}
    /\ bot.last = NoEvent => proc.pc = "off" /\ proc.first /\ restart.pc = "none" /\ past.restarts = 0

\* What an event that happens does to the state and the recording.
LEMMA EventFacts ==
    ASSUME RowsAgree, NEW e \in ProcessEvents, Happens(e)
    PROVE  /\ bot.state \in From(e) /\ bot'.state = FixedTarget(e) /\ bot'.last.type = e
           /\ bot'.recording \in RecordingsAfter(e, bot.state, FixedTarget(e), bot.recording)
           /\ restart'.pc = restart.pc
BY DEF RowsAgree, BotRows, Restarts, Happens, Allowed, Outcome

LEMMA EventKeepsFit ==
    ASSUME RowsAgree, RecordingFits, NEW e \in ProcessEvents, Happens(e) PROVE RecordingFits'
<1>1. /\ bot.state \in From(e) /\ bot'.state = FixedTarget(e)
      /\ bot'.recording \in RecordingsAfter(e, bot.state, FixedTarget(e), bot.recording)
  BY EventFacts
<1>2. CASE e \in {"JOIN_REQUESTED", "STAGED", "BOT_PUT_IN_WAITING_ROOM", "BOT_JOINED_MEETING"}
  BY <1>1, <1>2 DEF RecordingFits, From, BreakoutDepartures, FixedTarget, RecordingsAfter, EndsSession, PostMeetingStates
<1>3. CASE e \in {"BOT_RECORDING_PERMISSION_GRANTED", "RECORDING_RESUMED"}
  BY <1>1, <1>3 DEF RecordingFits, From, BreakoutDepartures, FixedTarget, RecordingsAfter, EndsSession, PostMeetingStates, BreakoutArrivals
<1>4. CASE e = "RECORDING_PAUSED"
  BY <1>1, <1>4 DEF RecordingFits, From, BreakoutDepartures, FixedTarget, RecordingsAfter, EndsSession, PostMeetingStates
<1>5. CASE e = "BOT_RECORDING_PERMISSION_DENIED"
  BY <1>1, <1>5 DEF RecordingFits, From, FixedTarget, RecordingsAfter, EndsSession, PostMeetingStates, JoinedStates, BreakoutDepartures
<1>6. CASE e \in {"COULD_NOT_JOIN", "FATAL_ERROR", "MEETING_ENDED", "BOT_LEFT_MEETING", "LEAVE_REQUESTED",
                  "POST_PROCESSING_COMPLETED", "DATA_DELETED"} \cup BreakoutDepartures
  <2>1. FixedTarget(e) \in {"FATAL_ERROR", "POST_PROCESSING", "LEAVING", "ENDED", "DATA_DELETED"} \cup BreakoutStates
    BY <1>6 DEF FixedTarget, BreakoutDepartures, BreakoutStates
  <2>q. QED
    BY <1>1, <2>1 DEF RecordingFits, BreakoutStates
<1>q. QED
  BY <1>2, <1>3, <1>4, <1>5, <1>6 DEF ProcessEvents, MeetingEvents, ClosingEvents

LEMMA RecordingStaysFit == RowsAgree /\ RecordingFits /\ RowStep => RecordingFits'
<1> SUFFICES ASSUME RowsAgree, RecordingFits, RowStep PROVE RecordingFits'
  OBVIOUS
<1>1. CASE \E e \in ProcessEvents : Happens(e)
  BY <1>1, EventKeepsFit
<1>2. CASE bot'.state = bot.state /\ bot'.recording = bot.recording
  BY <1>2 DEF RecordingFits
<1>q. QED
  BY <1>1, <1>2 DEF RowStep, RowsAgree, BotRows

\* A bot that is over stays over.
LEMMA OverStaysOver == ASSUME RowsAgree, RowStep, bot.state \in Over PROVE bot'.state \in Over
<1>1. ASSUME NEW e \in ProcessEvents, Happens(e) PROVE bot'.state \in Over
  <2>1. bot.state \in From(e) /\ bot'.state = FixedTarget(e)
    BY <1>1, EventFacts
  <2>2. e \in ClosingEvents
    BY <2>1 DEF ProcessEvents, MeetingEvents, BreakoutDepartures, BreakoutStates, From, Over, PostMeetingStates, JoinedStates
  <2>q. QED
    BY <2>1, <2>2 DEF ClosingEvents, FixedTarget, Over, PostMeetingStates
<1>q. QED
  BY <1>1 DEF RowStep, RowsAgree, BotRows

\* A FATAL_ERROR is refused to a bot that is over, or was not launched, only.
LEMMA FatalErrorEnds ==
    ASSUME RowsAgree, Happens("FATAL_ERROR") \/ Raises("FATAL_ERROR"), bot.state # "READY"
    PROVE  bot'.state \in Over
<1>1. "FATAL_ERROR" \in ProcessEvents
  BY DEF ProcessEvents, ClosingEvents, BreakoutArrivals
<1>2. CASE Happens("FATAL_ERROR")
  BY <1>1, <1>2, EventFacts DEF FixedTarget, Over, PostMeetingStates
<1>3. CASE Raises("FATAL_ERROR")
  <2>1. bot' = bot /\ ~Allowed("FATAL_ERROR") /\ bot.state \in States
    BY <1>3 DEF Raises, rowVars, RowsAgree, BotRows
  <2>2. Outcome("FATAL_ERROR") # {}
    BY DEF Outcome, RecordingsAfter, FixedTarget, EndsSession, PostMeetingStates
  <2>q. QED
    BY <2>1, <2>2 DEF Allowed, From, BreakoutDepartures, Over
<1>q. QED
  BY <1>2, <1>3

LEMMA EventsAsked ==
    /\ {"JOIN_REQUESTED", "STAGED", "COULD_NOT_JOIN", "FATAL_ERROR", "BOT_LEFT_MEETING", "MEETING_ENDED",
        "BOT_JOINED_MEETING", "BOT_RECORDING_PERMISSION_GRANTED", "BOT_RECORDING_PERMISSION_DENIED",
        "LEAVE_REQUESTED", "RECORDING_PAUSED", "RECORDING_RESUMED", "POST_PROCESSING_COMPLETED"} \subseteq ProcessEvents
    /\ \A m \in {"could_not_join", "ui_failure", "meeting_ended"} :
          EndingEvent(m) \in {"COULD_NOT_JOIN", "FATAL_ERROR", "BOT_LEFT_MEETING", "MEETING_ENDED"}
  BY DEF ProcessEvents, MeetingEvents, ClosingEvents, BreakoutArrivals, EndingEvent

LEMMA LaunchedForGood == ASSUME ProcessTyped, NotYetLaunched, [ProcessNext]_processVars PROVE NotYetLaunched'
<1>1. ASSUME NEW e \in ProcessEvents, Happens(e) PROVE NotYetLaunched'
  <2>1. bot'.state = FixedTarget(e) /\ bot'.last.type = e
    BY <1>1, EventFacts DEF ProcessTyped
  <2>2. bot'.state \notin {"READY", "SCHEDULED"}
    BY <2>1 DEF ProcessEvents, MeetingEvents, ClosingEvents, BreakoutArrivals, BreakoutDepartures, FixedTarget
  <2>3. e # "NONE"
    BY DEF ProcessEvents, MeetingEvents, ClosingEvents, BreakoutArrivals, BreakoutDepartures
  <2>4. bot'.last # NoEvent
    BY <2>1, <2>3 DEF NoEvent
  <2>q. QED
    BY <2>2, <2>4 DEF NotYetLaunched
<1>2. RowStep
  BY ProcessStepIsRowStep, NoRowChanges DEF ProcessTyped, processVars
<1>3. (\E e \in ProcessEvents : Happens(e)) \/ (bot'.state = bot.state /\ bot'.last = bot.last)
  BY <1>2 DEF RowStep, ProcessTyped, RowsAgree, BotRows
<1>4. ASSUME bot'.state = bot.state, bot'.last = bot.last, bot.last # NoEvent PROVE NotYetLaunched'
  BY <1>4 DEF NotYetLaunched
<1>5. ASSUME bot'.state = bot.state, bot'.last = bot.last, bot.last = NoEvent PROVE NotYetLaunched'
  <2>1. proc.pc = "off" /\ proc.first /\ restart.pc = "none" /\ past.restarts = 0
    BY <1>5 DEF NotYetLaunched
  <2>2. Trouble \/ Stranding => past'.restarts = past.restarts
    BY TroubleIsTyped DEF ProcessTyped
  <2>3. ASSUME Happens("JOIN_REQUESTED") \/ Happens("STAGED") \/ Happens("LEAVE_REQUESTED") \/ Happens("FATAL_ERROR")
        PROVE  NotYetLaunched'
    BY <1>1, <2>3, EventsAsked
  <2>4. CASE LaunchBot \/ RequestLeave \/ CleanUpCommand \/ RunsTooLong
    BY <2>3, <2>4 DEF LaunchBot, RequestLeave, CleanUpCommand, HeartbeatTimeout, NeverLaunched, RunsTooLong, Terminate
  <2>5. CASE PodStarts \/ RunBotRedelivered
    BY <1>5, <2>1, <2>5 DEF PodStarts, RunBotRedelivered
  <2>6. CASE \/ RequestPause \/ RequestResume \/ BrowserJoins \/ BrowserTells
             \/ \E c \in Commands : CommandArrives(c) \/ CommandLost(c)
    <3>1. UNCHANGED <<proc, restart>> /\ past'.restarts = past.restarts
      BY <2>2, <2>6 DEF RequestPause, RequestResume, BrowserJoins, BrowserTells, CommandArrives, CommandLost
    <3>q. QED
      BY <1>5, <3>1 DEF NotYetLaunched
  <2>7. CASE MainLoop \/ AutoLeave \/ LoopFails \/ ProcessDies
    BY <2>1, <2>7 DEF MainLoop, Timeouts, Callbacks, Ending, FirstTimeout, Heartbeat, JoinIfStaged, ActOnJoin, InLoop,
       HandleEnding, HandleJoined, HandlePermission, HandleBlocked, HandleAutoLeave, FinishAutoLeave, HandleSync,
       HandlePauseResume, RecordPauseResume, FinishCleanup, ProcessExits, Handling, AutoLeave, LoopFails, ProcessDies
  <2>8. CASE Restart \/ RestartFails \/ RestartRedelivered
    BY <2>1, <2>8 DEF Restart, RestartReads, RestartReopens, RestartForgets, RestartFails, RestartGivesUp, RestartCannotCreate,
       RestartRedelivered
  <2>9. CASE UNCHANGED processVars
    BY <1>5, <2>9 DEF processVars, NotYetLaunched
  <2>q. QED
    BY <2>4, <2>5, <2>6, <2>7, <2>8, <2>9 DEF ProcessNext
<1>q. QED
  BY <1>1, <1>3, <1>4, <1>5

\* The process lives only for a bot that is no longer READY.
LEMMA RunningIsNotReady == ASSUME NotYetLaunched, proc.pc # "off" PROVE bot.state # "READY"
BY DEF NotYetLaunched

LEMMA FailingEnds ==
    ASSUME ProcessTyped, NotYetLaunched, proc.pc # "off", FailAndCleanUp PROVE bot'.state \in Over
BY RunningIsNotReady, FatalErrorEnds DEF FailAndCleanUp, ProcessTyped

LEMMA CleanupStaysAfterEnd ==
    ASSUME ProcessTyped, NotYetLaunched, CleanupOnlyAfterEnd, [ProcessNext]_processVars
    PROVE  CleanupOnlyAfterEnd'
<1>1. RowStep
  BY ProcessStepIsRowStep, NoRowChanges DEF ProcessTyped, processVars
<1>2. proc \in Processes
  BY ProcessTypes DEF ProcessTyped
<1>3. ASSUME proc'.cleaned => proc.cleaned PROVE CleanupOnlyAfterEnd'
  BY <1>1, <1>3, OverStaysOver DEF CleanupOnlyAfterEnd, Over, ProcessTyped
<1>4. ASSUME bot'.state \in Over PROVE CleanupOnlyAfterEnd'
  BY <1>4 DEF CleanupOnlyAfterEnd, Over
<1>5. Refreshed.cleaned = proc.cleaned /\ (\A pc : [Refreshed EXCEPT !.pc = pc].cleaned = proc.cleaned)
  BY <1>2 DEF Refreshed, Processes
<1>6. ASSUME proc.pc # "off", FailAndCleanUp PROVE CleanupOnlyAfterEnd'
  BY <1>4, <1>6, FailingEnds
<1>7. CASE FirstTimeout
  BY <1>2, <1>3, <1>6, <1>7 DEF FirstTimeout, InLoop, Processes
<1>8. CASE JoinIfStaged \/ LoopFails
  BY <1>3, <1>5, <1>6, <1>8 DEF JoinIfStaged, LoopFails, InLoop
<1>9. CASE ActOnJoin
  BY <1>2, <1>3, <1>6, <1>9 DEF ActOnJoin, Processes
<1>10. CASE HandleEnding
  <2>1. PICK m \in {"could_not_join", "ui_failure", "meeting_ended"} :
          Happens(EndingEvent(m)) \/ proc' = Refreshed
    BY <1>10 DEF HandleEnding
  <2>2. CASE Happens(EndingEvent(m))
    <3>1. EndingEvent(m) \in ProcessEvents
          /\ EndingEvent(m) \in {"COULD_NOT_JOIN", "FATAL_ERROR", "BOT_LEFT_MEETING", "MEETING_ENDED"}
      BY EventsAsked
    <3>2. bot'.state = FixedTarget(EndingEvent(m))
      BY <2>2, <3>1, EventFacts DEF ProcessTyped
    <3>q. QED
      BY <1>4, <3>1, <3>2 DEF FixedTarget, Over, PostMeetingStates
  <2>q. QED
    BY <1>3, <1>5, <2>1, <2>2
<1>11. CASE HandleJoined \/ HandleAutoLeave \/ RecordPauseResume \/ FinishCleanup \/ Heartbeat
  BY <1>3, <1>5, <1>11 DEF HandleJoined, HandleAutoLeave, RecordPauseResume, FinishCleanup, Heartbeat
<1>12. CASE HandlePermission
  <2>1. \E b : proc' = [Refreshed EXCEPT !.pipeline = b]
    BY <1>12 DEF HandlePermission
  <2>2. proc'.cleaned = proc.cleaned
    BY <1>2, <2>1 DEF Refreshed, Processes
  <2>q. QED
    BY <1>3, <2>2
<1>13. CASE HandleBlocked
  <2>1. \/ proc' = [proc EXCEPT !.quit = TRUE]
        \/ Happens("FATAL_ERROR")
        \/ proc' = Refreshed
    BY <1>13 DEF HandleBlocked
  <2>2. proc.pc # "off"
    BY <1>13 DEF HandleBlocked, Handling
  <2>3. Happens("FATAL_ERROR") => bot'.state \in Over
    BY <2>2, RunningIsNotReady, FatalErrorEnds DEF ProcessTyped
  <2>q. QED
    BY <1>2, <1>3, <1>4, <1>5, <2>1, <2>3 DEF Processes
<1>14. CASE FinishAutoLeave \/ HandleSync \/ HandlePauseResume
  BY <1>2, <1>3, <1>14 DEF FinishAutoLeave, HandleSync, HandlePauseResume, Processes
<1>15. CASE ProcessExits \/ ProcessDies \/ PodStarts \/ RunBotRedelivered
  <2>1. ~proc'.cleaned
    BY <1>15 DEF ProcessExits, ProcessDies, PodStarts, RunBotRedelivered, ProcessStarts, Gone, NoProcess
  <2>q. QED
    BY <1>3, <2>1
<1>16. CASE CleanUpCommand \/ RunsTooLong \/ RestartGivesUp
  <2>1. proc' = [proc EXCEPT !.doomed = TRUE]
    BY <1>16 DEF CleanUpCommand, HeartbeatTimeout, NeverLaunched, RunsTooLong, Terminate, RestartGivesUp
  <2>q. QED
    BY <1>2, <1>3, <2>1 DEF Processes
<1>17. CASE UNCHANGED proc
  BY <1>3, <1>17
<1>18. CASE \/ LaunchBot \/ RequestLeave \/ RequestPause \/ RequestResume \/ AutoLeave \/ BrowserJoins \/ BrowserTells
            \/ Restart \/ RestartCannotCreate \/ RestartRedelivered
            \/ \E c \in Commands : CommandArrives(c) \/ CommandLost(c)
  BY <1>17, <1>18 DEF LaunchBot, RequestLeave, RequestPause, RequestResume, AutoLeave, BrowserJoins, BrowserTells,
     Restart, RestartReads, RestartReopens, RestartForgets, RestartCannotCreate, RestartRedelivered, CommandArrives, CommandLost
<1>q. QED
  BY <1>7, <1>8, <1>9, <1>10, <1>11, <1>12, <1>13, <1>14, <1>15, <1>16, <1>17, <1>18
     DEF ProcessNext, MainLoop, Timeouts, Callbacks, Ending, RestartFails, processVars

\* Whether the permission waits in the main loop, and whether it waits twice.
GrantWaits(box) == \E i \in 1 .. Len(box) : box[i] = "granted"
WaitsOnce(box) == \A i, j \in 1 .. Len(box) : box[i] = "granted" /\ box[j] = "granted" => i = j

\* The adapter tells of the permission once, and a process that is recording, or
\* paused, has heard of it.
GrantedOnce ==
    /\ adapter.phase = "idle" => ~adapter.granted
    /\ GrantWaits(inbox) => adapter.granted
    /\ WaitsOnce(inbox)
    /\ adapter.phase # "idle" /\ bot.state \in {"JOINED_RECORDING", "JOINED_RECORDING_PAUSED"} =>
           adapter.granted /\ ~GrantWaits(inbox)

LEMMA NothingTells == ~GrantWaits(<<>>) /\ WaitsOnce(<<>>)
BY DEF GrantWaits, WaitsOnce

LEMMA PostingTellsNoMore ==
    ASSUME NEW box \in Seq(Messages), NEW m \in Messages, m # "granted"
    PROVE  /\ GrantWaits(Append(box, m)) => GrantWaits(box)
           /\ WaitsOnce(box) => WaitsOnce(Append(box, m))
<1>1. /\ Len(Append(box, m)) = Len(box) + 1 /\ Append(box, m)[Len(box) + 1] = m
      /\ \A i \in 1 .. Len(box) : Append(box, m)[i] = box[i]
      /\ Len(box) \in Nat
  OBVIOUS
<1>2. \A i \in 1 .. (Len(box) + 1) : Append(box, m)[i] = "granted" => i \in 1 .. Len(box)
  BY <1>1
<1>q. QED
  BY <1>1, <1>2 DEF GrantWaits, WaitsOnce

LEMMA TellingTellsOnce ==
    ASSUME NEW box \in Seq(Messages), ~GrantWaits(box) PROVE WaitsOnce(Append(box, "granted"))
<1>1. /\ Len(Append(box, "granted")) = Len(box) + 1
      /\ \A i \in 1 .. Len(box) : Append(box, "granted")[i] = box[i]
      /\ Len(box) \in Nat
  OBVIOUS
<1>2. \A i \in 1 .. (Len(box) + 1) : Append(box, "granted")[i] = "granted" => i = Len(box) + 1
  BY <1>1 DEF GrantWaits
<1>q. QED
  BY <1>1, <1>2 DEF WaitsOnce

LEMMA TakingTellsNoMore ==
    ASSUME NEW box \in Seq(Messages), box # <<>>
    PROVE  /\ GrantWaits(Tail(box)) => GrantWaits(box)
           /\ WaitsOnce(box) => WaitsOnce(Tail(box))
           /\ WaitsOnce(box) /\ Head(box) = "granted" => ~GrantWaits(Tail(box))
<1>1. /\ Len(box) \in Nat /\ Len(box) > 0 /\ Len(Tail(box)) = Len(box) - 1 /\ Head(box) = box[1]
      /\ \A i \in 1 .. Len(Tail(box)) : Tail(box)[i] = box[i + 1]
  OBVIOUS
<1>2. \A i \in 1 .. Len(Tail(box)) : i + 1 \in 1 .. Len(box) /\ i + 1 # 1
  BY <1>1
<1>3. 1 \in 1 .. Len(box)
  BY <1>1
<1>4. GrantWaits(Tail(box)) => GrantWaits(box)
  BY <1>1, <1>2 DEF GrantWaits
<1>5. ASSUME WaitsOnce(box) PROVE WaitsOnce(Tail(box))
  <2>1. ASSUME NEW i \in 1 .. Len(Tail(box)), NEW j \in 1 .. Len(Tail(box)),
               Tail(box)[i] = "granted", Tail(box)[j] = "granted"
        PROVE  i = j
    <3>1. i + 1 = j + 1
      BY <1>1, <1>2, <1>5, <2>1 DEF WaitsOnce
    <3>q. QED
      BY <3>1
  <2>q. QED
    BY <2>1 DEF WaitsOnce
<1>6. ASSUME WaitsOnce(box), Head(box) = "granted" PROVE ~GrantWaits(Tail(box))
  BY <1>1, <1>2, <1>3, <1>6 DEF GrantWaits, WaitsOnce
<1>q. QED
  BY <1>4, <1>5, <1>6

\* What a step may do to the messages other than the permission.
Quietly == GrantWaits(inbox') => GrantWaits(inbox)
OnceStill == WaitsOnce(inbox) => WaitsOnce(inbox')

\* What a step may do to the permission: pass it by, forget it with the adapter,
\* tell of it, or handle it.
GrantStep ==
    \/ /\ Quietly /\ OnceStill
       /\ adapter'.granted = adapter.granted
       /\ adapter'.phase = "idle" => adapter.phase = "idle"
       /\ adapter.phase = "idle" /\ adapter'.phase # "idle" => bot'.state = "JOINING"
       /\ bot'.state \in {"JOINED_RECORDING", "JOINED_RECORDING_PAUSED"} =>
              bot.state \in {"JOINED_RECORDING", "JOINED_RECORDING_PAUSED"}
    \/ inbox' = <<>> /\ adapter' = NewAdapter
    \/ PermissionGranted /\ UNCHANGED bot
    \/ Handling("granted") /\ inbox' = Tail(inbox) /\ UNCHANGED adapter

LEMMA GrantStepKeepsOnce == ASSUME ProcessTyped, GrantedOnce, GrantStep PROVE GrantedOnce'
<1>1. inbox \in Seq(Messages) /\ adapter \in Adapters
  BY ProcessTypes DEF ProcessTyped
<1>2. CASE /\ Quietly /\ OnceStill
           /\ adapter'.granted = adapter.granted
           /\ adapter'.phase = "idle" => adapter.phase = "idle"
           /\ adapter.phase = "idle" /\ adapter'.phase # "idle" => bot'.state = "JOINING"
           /\ bot'.state \in {"JOINED_RECORDING", "JOINED_RECORDING_PAUSED"} =>
                  bot.state \in {"JOINED_RECORDING", "JOINED_RECORDING_PAUSED"}
  BY <1>2 DEF GrantedOnce, Quietly, OnceStill
<1>3. CASE inbox' = <<>> /\ adapter' = NewAdapter
  BY <1>3, NothingTells DEF GrantedOnce, NewAdapter
<1>4. CASE PermissionGranted /\ UNCHANGED bot
  <2>1. /\ adapter.phase # "idle" /\ ~adapter.granted /\ inbox' = Append(inbox, "granted")
        /\ adapter'.granted /\ adapter'.phase = adapter.phase
    BY <1>1, <1>4 DEF PermissionGranted, Posts, Adapters
  <2>2. ~GrantWaits(inbox) /\ bot.state \notin {"JOINED_RECORDING", "JOINED_RECORDING_PAUSED"}
    BY <2>1 DEF GrantedOnce
  <2>q. QED
    BY <1>1, <1>4, <2>1, <2>2, TellingTellsOnce DEF GrantedOnce
<1>5. CASE Handling("granted") /\ inbox' = Tail(inbox) /\ UNCHANGED adapter
  <2>1. inbox # <<>> /\ Head(inbox) = "granted"
    BY <1>5 DEF Handling
  <2>2. GrantWaits(inbox)
    <3>1. Len(inbox) \in Nat /\ Len(inbox) > 0 /\ inbox[1] = "granted"
      BY <1>1, <2>1
    <3>q. QED
      BY <3>1 DEF GrantWaits
  <2>3. ~GrantWaits(Tail(inbox)) /\ WaitsOnce(Tail(inbox))
    BY <1>1, <2>1, TakingTellsNoMore DEF GrantedOnce
  <2>q. QED
    BY <1>5, <2>2, <2>3 DEF GrantedOnce
<1>q. QED
  BY <1>2, <1>3, <1>4, <1>5 DEF GrantStep

HasPermission == {"JOINED_RECORDING", "JOINED_RECORDING_PAUSED"}

LEMMA OnlyTheGrantAdmits ==
    ASSUME RowsAgree, NEW e \in ProcessEvents, Happens(e) \/ Raises(e), e # "BOT_RECORDING_PERMISSION_GRANTED"
    PROVE  bot'.state \in HasPermission => bot.state \in HasPermission
<1>1. CASE Happens(e)
  <2>1. bot.state \in From(e) /\ bot'.state = FixedTarget(e)
    BY <1>1, EventFacts
  <2>2. CASE e \in {"RECORDING_PAUSED", "RECORDING_RESUMED"}
    BY <2>1, <2>2 DEF From, BreakoutDepartures, HasPermission
  <2>3. CASE e \notin {"RECORDING_PAUSED", "RECORDING_RESUMED"}
    <3>1. FixedTarget(e) \notin HasPermission
      BY <2>3 DEF ProcessEvents, MeetingEvents, ClosingEvents, BreakoutArrivals, BreakoutDepartures, FixedTarget,
         HasPermission
    <3>q. QED
      BY <2>1, <3>1
  <2>q. QED
    BY <2>2, <2>3
<1>2. CASE Raises(e)
  BY <1>2 DEF Raises, rowVars
<1>q. QED
  BY <1>1, <1>2

LEMMA QuietBoxes ==
    ASSUME ProcessTyped, NEW box, box = inbox \/ (inbox # <<>> /\ box = Tail(inbox))
    PROVE  /\ inbox' = box => Quietly /\ OnceStill
           /\ \A m \in Messages \ {"granted"} : inbox' = Append(box, m) => Quietly /\ OnceStill
           /\ AdapterLeaves(box) => /\ Quietly /\ OnceStill
                                    /\ adapter'.granted = adapter.granted /\ adapter'.phase = adapter.phase
<1>1. inbox \in Seq(Messages) /\ adapter \in Adapters
  BY ProcessTypes DEF ProcessTyped
<1>2. box \in Seq(Messages)
  BY <1>1
<1>3. (GrantWaits(box) => GrantWaits(inbox)) /\ (WaitsOnce(inbox) => WaitsOnce(box))
  BY <1>1, TakingTellsNoMore
<1>4. inbox' = box => Quietly /\ OnceStill
  BY <1>3 DEF Quietly, OnceStill
<1>5. ASSUME NEW m \in Messages \ {"granted"}, inbox' = Append(box, m) PROVE Quietly /\ OnceStill
  BY <1>2, <1>3, <1>5, PostingTellsNoMore DEF Quietly, OnceStill
<1>6. ASSUME AdapterLeaves(box)
      PROVE  Quietly /\ OnceStill /\ adapter'.granted = adapter.granted /\ adapter'.phase = adapter.phase
  <2>1. "meeting_ended" \in Messages \ {"granted"}
    BY DEF Messages, AdapterMessages
  <2>q. QED
    BY <1>1, <1>4, <1>5, <1>6, <2>1 DEF AdapterLeaves, Adapters
<1>q. QED
  BY <1>4, <1>5, <1>6

LEMMA TakingIsGrantStep ==
    ASSUME ProcessTyped, NEW s, NEW box, box = inbox \/ (inbox # <<>> /\ box = Tail(inbox)),
           TakeAction(s, box), UNCHANGED bot
    PROVE  GrantStep
<1>1. adapter \in Adapters
  BY ProcessTypes DEF ProcessTyped
<1>2. CASE s = "JOINING"
  <2>1. /\ bot.last.type = "JOIN_REQUESTED" /\ inbox' = box
        /\ adapter'.granted = adapter.granted /\ adapter'.phase = "joining"
    BY <1>1, <1>2 DEF TakeAction, CanTake, RequestOf, Adapters
  <2>2. bot.state = "JOINING"
    BY <2>1 DEF ProcessTyped, RowsAgree, FixedTarget, NoEvent
  <2>q. QED
    BY <2>1, <2>2, QuietBoxes DEF GrantStep
<1>3. CASE s = "LEAVING"
  BY <1>3, QuietBoxes DEF TakeAction, GrantStep
<1>4. CASE s \notin {"JOINING", "LEAVING"}
  BY <1>4, QuietBoxes DEF TakeAction, GrantStep
<1>q. QED
  BY <1>2, <1>3, <1>4

LEMMA CleanupIsQuiet ==
    ASSUME ProcessTyped, NEW box, box = inbox \/ (inbox # <<>> /\ box = Tail(inbox)), BeginCleanup(box)
    PROVE  Quietly /\ OnceStill /\ adapter'.granted = adapter.granted /\ adapter'.phase = adapter.phase
BY QuietBoxes DEF BeginCleanup

LEMMA StepIsGrantStep == ASSUME ProcessTyped, GrantedOnce, [ProcessNext]_processVars PROVE GrantStep
<1>1. inbox \in Seq(Messages) /\ adapter \in Adapters
  BY ProcessTypes DEF ProcessTyped
<1>2. ASSUME Quietly, OnceStill, adapter'.granted = adapter.granted, adapter'.phase = adapter.phase,
             bot'.state \in HasPermission => bot.state \in HasPermission
      PROVE  GrantStep
  BY <1>2 DEF GrantStep, HasPermission
<1>3. ASSUME NEW e \in ProcessEvents, Happens(e) \/ Raises(e), e # "BOT_RECORDING_PERMISSION_GRANTED"
      PROVE  bot'.state \in HasPermission => bot.state \in HasPermission
  BY <1>3, OnlyTheGrantAdmits DEF ProcessTyped
<1>4. inbox' = inbox => Quietly /\ OnceStill
  BY QuietBoxes
<1>5. inbox # <<>> /\ inbox' = Tail(inbox) => Quietly /\ OnceStill
  BY QuietBoxes
<1>6. ASSUME FailAndCleanUp PROVE GrantStep
  BY <1>2, <1>3, <1>6, CleanupIsQuiet, EventsAsked DEF FailAndCleanUp
<1>7. CASE \/ LaunchBot \/ RequestLeave \/ CleanUpCommand \/ RunsTooLong \/ RequestPause \/ RequestResume
           \/ FinishCleanup \/ RecordPauseResume \/ Heartbeat \/ Restart \/ RestartFails \/ RestartRedelivered
           \/ UNCHANGED processVars
  <2>1. UNCHANGED <<inbox, adapter>>
    BY <1>7 DEF LaunchBot, RequestLeave, CleanUpCommand, HeartbeatTimeout, NeverLaunched, RunsTooLong, Terminate,
       RequestPause, RequestResume, FinishCleanup, RecordPauseResume, Heartbeat, Restart, RestartReads, RestartReopens,
       RestartForgets, RestartFails, RestartGivesUp, RestartCannotCreate, RestartRedelivered, processVars
  <2>2. \/ \E e \in {"JOIN_REQUESTED", "STAGED", "LEAVE_REQUESTED", "FATAL_ERROR", "POST_PROCESSING_COMPLETED",
                     "RECORDING_PAUSED", "RECORDING_RESUMED"} : Happens(e) \/ Raises(e)
        \/ bot'.state = bot.state
    <3>1. CASE Heartbeat \/ RestartForgets
      BY <3>1 DEF Heartbeat, RestartForgets, ProcessTyped, RowsAgree, BotRows
    <3>2. CASE FinishCleanup \/ RecordPauseResume
      BY <3>2 DEF FinishCleanup, RecordPauseResume, rowVars
    <3>3. CASE LaunchBot \/ RequestLeave \/ CleanUpCommand \/ RunsTooLong
      BY <3>3 DEF LaunchBot, RequestLeave, CleanUpCommand, HeartbeatTimeout, NeverLaunched, RunsTooLong, Terminate
    <3>4. CASE \/ RequestPause \/ RequestResume \/ RestartReads \/ RestartReopens \/ RestartRedelivered
               \/ RestartFails \/ UNCHANGED processVars
      BY <3>4 DEF RequestPause, RequestResume, RestartReads, RestartReopens, RestartRedelivered, RestartFails,
         RestartGivesUp, RestartCannotCreate, processVars
    <3>q. QED
      BY <1>7, <3>1, <3>2, <3>3, <3>4 DEF Restart
  <2>q. QED
    BY <1>2, <1>3, <1>4, <2>1, <2>2, EventsAsked
<1>8. CASE PodStarts \/ RunBotRedelivered \/ ProcessExits \/ ProcessDies
  BY <1>8 DEF PodStarts, RunBotRedelivered, ProcessStarts, ProcessExits, ProcessDies, GrantStep
<1>9. CASE \E c \in Commands : CommandArrives(c) \/ CommandLost(c)
  <2>1. PICK c \in Commands : CommandArrives(c) \/ CommandLost(c)
    BY <1>9
  <2>2. c \in Messages \ {"granted"}
    BY DEF Messages, Commands
  <2>3. UNCHANGED <<bot, adapter>> /\ (inbox' = inbox \/ inbox' = Append(inbox, c))
    BY <2>1 DEF CommandArrives, CommandLost
  <2>q. QED
    BY <1>2, <2>2, <2>3, QuietBoxes
<1>10. CASE FirstTimeout \/ ActOnJoin
  BY <1>6, <1>10, TakingIsGrantStep DEF FirstTimeout, ActOnJoin
<1>11. CASE HandleSync
  <2>1. inbox # <<>> /\ UNCHANGED bot
    BY <1>11 DEF HandleSync, Handling
  <2>2. CASE TakeAction(bot.state, Tail(inbox))
    BY <2>1, <2>2, TakingIsGrantStep
  <2>3. CASE inbox' = Tail(inbox) /\ UNCHANGED adapter
    BY <1>2, <1>5, <2>1, <2>3
  <2>q. QED
    BY <1>11, <2>2, <2>3 DEF HandleSync
<1>12. CASE JoinIfStaged \/ LoopFails
  <2>1. FailAndCleanUp \/ (Happens("JOIN_REQUESTED") /\ UNCHANGED <<inbox, adapter>>)
    BY <1>12 DEF JoinIfStaged, LoopFails
  <2>q. QED
    BY <1>2, <1>3, <1>4, <1>6, <2>1, EventsAsked
<1>13. CASE HandleEnding
  <2>1. PICK m \in {"could_not_join", "ui_failure", "meeting_ended"} :
          /\ Handling(m) /\ (Happens(EndingEvent(m)) \/ Raises(EndingEvent(m)))
          /\ BeginCleanup(Tail(inbox)) \/ (inbox' = Tail(inbox) /\ UNCHANGED adapter)
    BY <1>13 DEF HandleEnding
  <2>2. EndingEvent(m) \in ProcessEvents /\ EndingEvent(m) # "BOT_RECORDING_PERMISSION_GRANTED" /\ inbox # <<>>
    BY <2>1, EventsAsked DEF Handling
  <2>3. bot'.state \in HasPermission => bot.state \in HasPermission
    BY <1>3, <2>1, <2>2
  <2>q. QED
    BY <1>2, <1>5, <2>1, <2>2, <2>3, CleanupIsQuiet
<1>14. CASE HandleJoined \/ HandleAutoLeave
  <2>1. /\ \E e \in {"BOT_JOINED_MEETING", "LEAVE_REQUESTED"} : Happens(e) \/ Raises(e)
        /\ inbox # <<>> /\ inbox' = Tail(inbox) /\ UNCHANGED adapter
    BY <1>14 DEF HandleJoined, HandleAutoLeave, Handling
  <2>q. QED
    BY <1>2, <1>3, <1>5, <2>1, EventsAsked
<1>15. CASE HandlePermission
  <2>1. CASE Handling("granted")
    BY <1>15, <2>1 DEF HandlePermission, GrantStep
  <2>2. CASE ~Handling("granted")
    <3>1. /\ Happens("BOT_RECORDING_PERMISSION_DENIED") \/ Raises("BOT_RECORDING_PERMISSION_DENIED")
          /\ inbox # <<>> /\ inbox' = Tail(inbox) /\ UNCHANGED adapter
      BY <1>15, <2>2 DEF HandlePermission, Handling
    <3>q. QED
      BY <1>2, <1>3, <1>5, <3>1, EventsAsked
  <2>q. QED
    BY <2>1, <2>2
<1>16. CASE HandleBlocked
  <2>1. /\ \/ UNCHANGED bot \/ Happens("FATAL_ERROR") \/ Raises("FATAL_ERROR")
        /\ inbox # <<>>
        /\ BeginCleanup(Tail(inbox)) \/ (inbox' = Tail(inbox) /\ UNCHANGED adapter)
    BY <1>16 DEF HandleBlocked, Handling
  <2>2. bot'.state \in HasPermission => bot.state \in HasPermission
    BY <1>3, <2>1, EventsAsked
  <2>q. QED
    BY <1>2, <1>5, <2>1, <2>2, CleanupIsQuiet
<1>17. CASE FinishAutoLeave
  BY <1>2, <1>4, <1>17, QuietBoxes DEF FinishAutoLeave
<1>18. CASE HandlePauseResume
  BY <1>2, <1>5, <1>18 DEF HandlePauseResume, Handling
<1>19. CASE AutoLeave
  BY <1>2, <1>19, QuietBoxes DEF AutoLeave, AutoLeaveIsDue, Posts, Messages, AdapterMessages
<1>20. CASE BrowserJoins
  <2>1. /\ adapter.phase = "joining" /\ UNCHANGED bot
        /\ adapter'.granted = adapter.granted /\ adapter'.phase # "idle"
        /\ \/ inbox' = inbox
           \/ \E m \in {"joined", "could_not_join", "ui_failure", "blocked"} : inbox' = Append(inbox, m)
    BY <1>1, <1>20 DEF BrowserJoins, JoinAttemptEnds, Posts, Adapters
  <2>2. {"joined", "could_not_join", "ui_failure", "blocked"} \subseteq Messages \ {"granted"}
    BY DEF Messages, AdapterMessages
  <2>3. Quietly /\ OnceStill
    BY <2>1, <2>2, QuietBoxes
  <2>q. QED
    BY <2>1, <2>3 DEF GrantStep
<1>21. CASE BrowserTells
  <2>1. UNCHANGED bot /\ (PermissionGranted \/ PermissionDenied \/ MeetingEnds \/ PageComplains)
    BY <1>21 DEF BrowserTells
  <2>2. CASE PermissionGranted
    BY <2>1, <2>2 DEF GrantStep
  <2>3. CASE PermissionDenied \/ MeetingEnds \/ PageComplains
    <3>1. /\ \E m \in {"denied", "meeting_ended", "could_not_join", "auto_leave"} : inbox' = Append(inbox, m)
          /\ adapter'.granted = adapter.granted /\ adapter'.phase = adapter.phase
      BY <1>1, <2>3 DEF PermissionDenied, MeetingEnds, PageComplains, Posts, Adapters
    <3>2. {"denied", "meeting_ended", "could_not_join", "auto_leave"} \subseteq Messages \ {"granted"}
      BY DEF Messages, AdapterMessages
    <3>q. QED
      BY <1>2, <2>1, <3>1, <3>2, QuietBoxes
  <2>q. QED
    BY <2>1, <2>2, <2>3
<1>q. QED
  BY <1>7, <1>8, <1>9, <1>10, <1>11, <1>12, <1>13, <1>14, <1>15, <1>16, <1>17, <1>18, <1>19, <1>20, <1>21
     DEF ProcessNext, MainLoop, Timeouts, Callbacks, Ending

\* What the process is in the middle of, for a browser that was sent in: its
\* pipeline runs ahead of the rows while it pauses or resumes, and between the
\* event that asks the bot to join or leave and its action the bot is not in
\* the meeting.
Watching == adapter.phase # "idle" /\ ~proc.quit
PipelineInv ==
    Watching =>
        /\ proc.pc # "cleaning"
        /\ proc.pc = "loop" =>
              /\ bot.state = "JOINED_RECORDING" => proc.pipeline
              /\ bot.state \in {"JOINED_RECORDING_PAUSED", "JOINED_RECORDING_PERMISSION_DENIED"} => ~proc.pipeline
        /\ proc.pc \in {"acting", "leaving"} => bot.state \notin JoinedStates
        /\ proc.pc = "pausing" => ~proc.pipeline
        /\ proc.pc = "resuming" => proc.pipeline /\ bot.state # "JOINED_RECORDING_PERMISSION_DENIED"

\* Events that lead out of the meeting, or have not led into it yet.
LEMMA LeadsOutside ==
    ASSUME RowsAgree, NEW e \in {"JOIN_REQUESTED", "STAGED", "COULD_NOT_JOIN", "FATAL_ERROR", "BOT_LEFT_MEETING",
                               "MEETING_ENDED", "LEAVE_REQUESTED", "POST_PROCESSING_COMPLETED"},
           Happens(e)
    PROVE  bot'.state \in {"JOINING", "STAGED", "LEAVING"} \cup Over
<1>1. e \in ProcessEvents
  BY EventsAsked
<1>2. bot'.state = FixedTarget(e)
  BY <1>1, EventFacts
<1>q. QED
  BY <1>2 DEF FixedTarget, Over, PostMeetingStates

LEMMA OutsideIsFine ==
    ASSUME proc \in Processes, PipelineInv, bot'.state \in {"JOINING", "STAGED", "LEAVING"} \cup Over, proc'.pc # "cleaning" \/ proc'.quit,
           proc'.pc \in {"pausing", "resuming"} =>
               proc'.pc = proc.pc /\ proc'.pipeline = proc.pipeline /\ (Watching' => Watching)
    PROVE  PipelineInv'
BY DEF PipelineInv, Watching, Over, PostMeetingStates, JoinedStates

LEMMA NothingMoves ==
    ASSUME PipelineInv, proc'.pc = proc.pc, proc'.pipeline = proc.pipeline, Watching' => Watching, bot'.state = bot.state
    PROVE  PipelineInv'
BY DEF PipelineInv

LEMMA NotWatching == ASSUME ~Watching' PROVE PipelineInv'
BY DEF PipelineInv

\* The action that was asked for is taken in the loop.
LEMMA TakingKeepsPipeline ==
    ASSUME ProcessTyped, PipelineInv, NEW s, NEW box, TakeAction(s, box), UNCHANGED bot,
           proc.pc \in {"loop", "acting"}, proc'.pc = "loop", proc'.quit = proc.quit, proc'.pipeline = proc.pipeline
    PROVE  PipelineInv'
<1>1. adapter \in Adapters
  BY ProcessTypes DEF ProcessTyped
<1>2. CASE s = "JOINING"
  <2>1. bot.last.type = "JOIN_REQUESTED"
    BY <1>2 DEF TakeAction, CanTake, RequestOf
  <2>2. bot'.state = "JOINING"
    BY <2>1 DEF ProcessTyped, RowsAgree, FixedTarget, NoEvent
  <2>q. QED
    BY <2>2 DEF PipelineInv
<1>3. CASE s # "JOINING"
  <2>1. adapter'.phase = adapter.phase
    BY <1>1, <1>3 DEF TakeAction, AdapterLeaves, Adapters
  <2>2. Watching' => Watching
    BY <2>1 DEF Watching
  <2>q. QED
    BY <2>2 DEF PipelineInv, JoinedStates
<1>q. QED
  BY <1>2, <1>3

\* Cleaning up ends the watch, or finds it ended.
LEMMA CleanupKeepsPipeline ==
    ASSUME ProcessTyped, PipelineInv, NEW box, BeginCleanup(box), bot'.state \in Over, proc.pc # "cleaning"
    PROVE  PipelineInv'
<1>1. proc \in Processes /\ adapter \in Adapters
  BY ProcessTypes DEF ProcessTyped
<1>2. CASE ~proc.cleaned
  <2>1. proc' = [Refreshed EXCEPT !.pc = "cleaning", !.cleaned = TRUE, !.quit = TRUE, !.pipeline = FALSE]
    BY <1>2 DEF BeginCleanup
  <2>2. proc'.quit
    BY <1>1, <2>1 DEF Refreshed, Processes
  <2>q. QED
    BY <2>2, NotWatching DEF Watching
<1>3. CASE proc.cleaned
  <2>1. proc'.pc = proc.pc /\ proc'.quit = proc.quit /\ proc'.pipeline = proc.pipeline /\ UNCHANGED adapter
    BY <1>1, <1>3 DEF BeginCleanup, Refreshed, Processes
  <2>2. Watching' => Watching
    BY <2>1 DEF Watching
  <2>q. QED
    BY <1>1, <2>1, <2>2, OutsideIsFine
<1>q. QED
  BY <1>2, <1>3

\* A permission comes to a bot that may record, or that is not recording.
LEMMA PermissionKeepsPipeline ==
    ASSUME ProcessTyped, RecordingFits, GrantedOnce, PipelineInv, HandlePermission PROVE PipelineInv'
<1>1. proc \in Processes /\ inbox \in Seq(Messages) /\ bot.state \in States
  BY ProcessTypes DEF ProcessTyped, BotRows
<1>2. PICK m \in {"granted", "denied"} :
        /\ Handling(m)
        /\ LET e == IF m = "granted" THEN "BOT_RECORDING_PERMISSION_GRANTED" ELSE "BOT_RECORDING_PERMISSION_DENIED"
           IN  Happens(e) \/ Raises(e)
        /\ proc' = [Refreshed EXCEPT !.pipeline = (m = "granted")]
  BY DEF HandlePermission
<1>3. proc.pc = "loop" /\ proc'.pc = "loop" /\ proc'.quit = proc.quit /\ proc'.pipeline = (m = "granted") /\ UNCHANGED adapter
  BY <1>1, <1>2 DEF Handling, Refreshed, Processes, HandlePermission
<1>4. CASE m = "granted"
  <2>1. GrantWaits(inbox)
    <3>1. Len(inbox) \in Nat /\ Len(inbox) > 0 /\ inbox[1] = "granted"
      BY <1>1, <1>2, <1>4 DEF Handling
    <3>q. QED
      BY <3>1 DEF GrantWaits
  <2>2. adapter.phase # "idle" => bot.state # "JOINED_RECORDING_PAUSED"
    BY <2>1 DEF GrantedOnce
  <2>3. CASE Happens("BOT_RECORDING_PERMISSION_GRANTED")
    <3>1. bot'.state = "JOINED_RECORDING"
      BY <2>3, EventFacts, EventsAsked DEF FixedTarget, ProcessTyped
    <3>q. QED
      BY <1>3, <1>4, <3>1 DEF PipelineInv
  <2>4. CASE Raises("BOT_RECORDING_PERMISSION_GRANTED")
    <3>1. bot' = bot /\ ~Allowed("BOT_RECORDING_PERMISSION_GRANTED")
      BY <2>4 DEF Raises, rowVars
    <3>2. bot.state # "JOINED_RECORDING_PERMISSION_DENIED"
      BY <3>1 DEF Allowed, Outcome, RecordingsAfter, From, BreakoutDepartures, FixedTarget, RecordingFits
    <3>q. QED
      BY <1>3, <1>4, <2>2, <3>1, <3>2 DEF PipelineInv, Watching
  <2>q. QED
    BY <1>2, <1>4, <2>3, <2>4
<1>5. CASE m = "denied"
  <2>1. CASE Happens("BOT_RECORDING_PERMISSION_DENIED")
    <3>1. bot'.state = "JOINED_RECORDING_PERMISSION_DENIED"
      BY <2>1, EventFacts, EventsAsked DEF FixedTarget, BreakoutDepartures, ProcessTyped
    <3>q. QED
      BY <1>3, <1>5, <3>1 DEF PipelineInv
  <2>2. CASE Raises("BOT_RECORDING_PERMISSION_DENIED")
    <3>1. bot' = bot /\ ~Allowed("BOT_RECORDING_PERMISSION_DENIED")
      BY <2>2 DEF Raises, rowVars
    <3>2. Outcome("BOT_RECORDING_PERMISSION_DENIED") # {}
      BY DEF Outcome, RecordingsAfter, FixedTarget, BreakoutDepartures
    <3>3. bot.state \notin JoinedStates
      BY <3>1, <3>2 DEF Allowed, From, BreakoutDepartures
    <3>q. QED
      BY <1>3, <3>1, <3>3 DEF PipelineInv, JoinedStates
  <2>q. QED
    BY <1>2, <1>5, <2>1, <2>2
<1>q. QED
  BY <1>2, <1>4, <1>5

\* The event of a pause or a resumption happens, or the bot is out of the meeting.
LEMMA RecordingKeepsPipeline ==
    ASSUME ProcessTyped, RecordingFits, PipelineInv, RecordPauseResume PROVE PipelineInv'
<1>1. proc \in Processes
  BY ProcessTypes DEF ProcessTyped
<1>2. /\ proc'.pc = "loop" /\ proc'.quit = proc.quit /\ proc'.pipeline = proc.pipeline /\ UNCHANGED adapter
  BY <1>1 DEF RecordPauseResume, Refreshed, Processes
<1>3. CASE proc.pc = "pausing" /\ (Happens("RECORDING_PAUSED") \/ Raises("RECORDING_PAUSED"))
  <2>1. CASE Happens("RECORDING_PAUSED")
    <3>1. bot'.state = "JOINED_RECORDING_PAUSED"
      BY <2>1, EventFacts, EventsAsked DEF FixedTarget, ProcessTyped
    <3>q. QED
      BY <1>2, <1>3, <3>1 DEF PipelineInv, Watching
  <2>2. CASE Raises("RECORDING_PAUSED")
    <3>1. bot' = bot /\ ~Allowed("RECORDING_PAUSED")
      BY <2>2 DEF Raises, rowVars
    <3>2. bot.state # "JOINED_RECORDING"
      BY <3>1 DEF Allowed, Outcome, RecordingsAfter, From, BreakoutDepartures, FixedTarget, RecordingFits
    <3>q. QED
      BY <1>2, <1>3, <3>1, <3>2 DEF PipelineInv, Watching
  <2>q. QED
    BY <1>3, <2>1, <2>2
<1>4. CASE proc.pc = "resuming" /\ (Happens("RECORDING_RESUMED") \/ Raises("RECORDING_RESUMED"))
  <2>1. CASE Happens("RECORDING_RESUMED")
    <3>1. bot'.state = "JOINED_RECORDING"
      BY <2>1, EventFacts, EventsAsked DEF FixedTarget, ProcessTyped
    <3>q. QED
      BY <1>2, <1>4, <3>1 DEF PipelineInv, Watching
  <2>2. CASE Raises("RECORDING_RESUMED")
    <3>1. bot' = bot /\ ~Allowed("RECORDING_RESUMED")
      BY <2>2 DEF Raises, rowVars
    <3>2. bot.state # "JOINED_RECORDING_PAUSED"
      BY <3>1 DEF Allowed, Outcome, RecordingsAfter, From, BreakoutDepartures, FixedTarget, RecordingFits
    <3>q. QED
      BY <1>2, <1>4, <3>1, <3>2 DEF PipelineInv, Watching
  <2>q. QED
    BY <1>4, <2>1, <2>2
<1>q. QED
  BY <1>3, <1>4 DEF RecordPauseResume

LEMMA CallbacksKeepPipeline ==
    ASSUME ProcessTyped, NotYetLaunched, RecordingFits, GrantedOnce, PipelineInv, Callbacks PROVE PipelineInv'
<1>1. proc \in Processes /\ RowsAgree /\ adapter \in Adapters
  BY ProcessTypes DEF ProcessTyped
<1>2. /\ Refreshed.pc = proc.pc /\ Refreshed.quit = proc.quit /\ Refreshed.pipeline = proc.pipeline
      /\ \A pc : [Refreshed EXCEPT !.pc = pc].pc = pc /\ [Refreshed EXCEPT !.pc = pc].quit = proc.quit
  BY <1>1 DEF Refreshed, Processes
<1>3. ASSUME proc' = Refreshed, UNCHANGED adapter, bot'.state = bot.state PROVE PipelineInv'
  <2>1. Watching' => Watching
    BY <1>2, <1>3 DEF Watching
  <2>q. QED
    BY <1>2, <1>3, <2>1, NothingMoves
<1>4. CASE HandleEnding
  <2>1. PICK m \in {"could_not_join", "ui_failure", "meeting_ended"} :
          /\ Handling(m)
          /\ \/ Happens(EndingEvent(m)) /\ BeginCleanup(Tail(inbox))
             \/ Raises(EndingEvent(m)) /\ proc' = Refreshed /\ UNCHANGED adapter
    BY <1>4 DEF HandleEnding
  <2>2. CASE Happens(EndingEvent(m)) /\ BeginCleanup(Tail(inbox))
    <3>1. EndingEvent(m) \in {"COULD_NOT_JOIN", "FATAL_ERROR", "BOT_LEFT_MEETING", "MEETING_ENDED"}
          /\ EndingEvent(m) \in ProcessEvents
      BY EventsAsked
    <3>2. bot'.state = FixedTarget(EndingEvent(m))
      BY <1>1, <2>2, <3>1, EventFacts
    <3>3. bot'.state \in Over
      BY <3>1, <3>2 DEF FixedTarget, Over, PostMeetingStates
    <3>q. QED
      BY <2>1, <2>2, <3>3, CleanupKeepsPipeline DEF Handling
  <2>3. CASE Raises(EndingEvent(m)) /\ proc' = Refreshed /\ UNCHANGED adapter
    BY <1>3, <2>3 DEF Raises, rowVars
  <2>q. QED
    BY <2>1, <2>2, <2>3
<1>5. CASE HandleJoined
  <2>1. CASE Happens("BOT_JOINED_MEETING")
    <3>1. bot'.state = "JOINED_NOT_RECORDING"
      BY <1>1, <2>1, EventFacts, EventsAsked DEF FixedTarget
    <3>q. QED
      BY <1>2, <1>5, <3>1 DEF HandleJoined, Handling, PipelineInv
  <2>2. CASE Raises("BOT_JOINED_MEETING")
    BY <1>3, <1>5, <2>2 DEF HandleJoined, Raises, rowVars
  <2>q. QED
    BY <1>5, <2>1, <2>2 DEF HandleJoined
<1>6. CASE HandleBlocked
  <2>1. CASE proc' = [proc EXCEPT !.quit = TRUE]
    <3>1. proc'.quit
      BY <1>1, <2>1 DEF Processes
    <3>q. QED
      BY <3>1, NotWatching DEF Watching
  <2>2. CASE Happens("FATAL_ERROR") /\ BeginCleanup(Tail(inbox))
    <3>1. bot'.state \in Over
      BY <1>1, <1>6, <2>2, RunningIsNotReady, FatalErrorEnds DEF HandleBlocked, Handling
    <3>q. QED
      BY <1>6, <2>2, <3>1, CleanupKeepsPipeline DEF HandleBlocked, Handling
  <2>3. CASE Raises("FATAL_ERROR") /\ proc' = Refreshed /\ UNCHANGED adapter
    BY <1>3, <2>3 DEF Raises, rowVars
  <2>q. QED
    BY <1>6, <2>1, <2>2, <2>3 DEF HandleBlocked
<1>7. CASE HandleAutoLeave
  <2>1. CASE Happens("LEAVE_REQUESTED") /\ proc' = [Refreshed EXCEPT !.pc = "leaving"]
    <3>1. bot'.state \in {"JOINING", "STAGED", "LEAVING"} \cup Over
      BY <1>1, <2>1, LeadsOutside
    <3>2. proc'.pc = "leaving"
      BY <1>2, <2>1
    <3>q. QED
      BY <1>1, <3>1, <3>2, OutsideIsFine
  <2>2. CASE Raises("LEAVE_REQUESTED") /\ proc' = Refreshed
    BY <1>3, <1>7, <2>2 DEF HandleAutoLeave, Raises, rowVars
  <2>q. QED
    BY <1>7, <2>1, <2>2 DEF HandleAutoLeave
<1>8. CASE FinishAutoLeave
  <2>1. proc.pc = "leaving" /\ proc'.pc = "loop" /\ proc'.quit = proc.quit /\ UNCHANGED bot /\ adapter'.phase = adapter.phase
    BY <1>1, <1>8 DEF FinishAutoLeave, AdapterLeaves, Processes, Adapters
  <2>q. QED
    BY <2>1 DEF PipelineInv, Watching, JoinedStates
<1>9. CASE HandleSync
  <2>1. /\ proc.pc = "loop" /\ proc'.pc = "loop" /\ proc'.quit = proc.quit /\ proc'.pipeline = proc.pipeline
        /\ UNCHANGED bot
    BY <1>1, <1>9 DEF HandleSync, Handling, Processes
  <2>2. CASE TakeAction(bot.state, Tail(inbox))
    BY <2>1, <2>2, TakingKeepsPipeline
  <2>3. CASE UNCHANGED adapter
    BY <2>1, <2>3, NothingMoves DEF Watching
  <2>q. QED
    BY <1>9, <2>2, <2>3 DEF HandleSync
<1>10. CASE HandlePauseResume
  <2>1. UNCHANGED <<bot, adapter>> /\ proc.pc = "loop" /\ proc'.quit = proc.quit
    BY <1>1, <1>10 DEF HandlePauseResume, Handling, Processes
  <2>2. CASE proc'.pc = proc.pc /\ proc'.pipeline = proc.pipeline
    BY <2>1, <2>2, NothingMoves DEF Watching
  <2>3. CASE bot.state = "JOINED_RECORDING" /\ proc'.pc = "pausing" /\ ~proc'.pipeline
    BY <2>1, <2>3 DEF PipelineInv
  <2>4. CASE bot.state = "JOINED_RECORDING_PAUSED" /\ proc'.pc = "resuming" /\ proc'.pipeline
    BY <2>1, <2>4 DEF PipelineInv
  <2>5. \/ proc' = [proc EXCEPT !.copy = bot.state]
        \/ /\ bot.state = "JOINED_RECORDING"
           /\ proc' = [proc EXCEPT !.copy = bot.state, !.pipeline = FALSE, !.pc = "pausing"]
        \/ /\ bot.state = "JOINED_RECORDING_PAUSED"
           /\ proc' = [proc EXCEPT !.copy = bot.state, !.pipeline = TRUE, !.pc = "resuming"]
    BY <1>10 DEF HandlePauseResume
  <2>q. QED
    BY <1>1, <2>2, <2>3, <2>4, <2>5 DEF Processes
<1>q. QED
  BY <1>4, <1>5, <1>6, <1>7, <1>8, <1>9, <1>10, PermissionKeepsPipeline, RecordingKeepsPipeline DEF Callbacks

LEMMA StepKeepsPipeline ==
    ASSUME ProcessTyped, NotYetLaunched, RecordingFits, GrantedOnce, PipelineInv, [ProcessNext]_processVars
    PROVE  PipelineInv'
<1>1. proc \in Processes /\ RowsAgree /\ adapter \in Adapters
  BY ProcessTypes DEF ProcessTyped
<1>2. ASSUME FailAndCleanUp, proc.pc \notin {"off", "cleaning"} PROVE PipelineInv'
  BY <1>2, FailingEnds, CleanupKeepsPipeline DEF FailAndCleanUp
<1>3. ASSUME bot'.state = bot.state, UNCHANGED <<proc, adapter>> PROVE PipelineInv'
  BY <1>3, NothingMoves DEF Watching
<1>4. CASE FirstTimeout \/ ActOnJoin
  <2>1. \/ FailAndCleanUp
        \/ /\ \E s, box : TakeAction(s, box)
           /\ UNCHANGED bot
           /\ \/ proc.pc = "loop" /\ proc' = [proc EXCEPT !.first = FALSE, !.copy = bot.state]
              \/ proc' = [proc EXCEPT !.pc = "loop"]
    BY <1>4 DEF FirstTimeout, ActOnJoin, InLoop
  <2>2. proc.pc \in {"loop", "acting"}
    BY <1>4 DEF FirstTimeout, ActOnJoin, InLoop
  <2>3. CASE /\ \E s, box : TakeAction(s, box)
             /\ UNCHANGED bot
             /\ \/ proc.pc = "loop" /\ proc' = [proc EXCEPT !.first = FALSE, !.copy = bot.state]
                \/ proc' = [proc EXCEPT !.pc = "loop"]
    <3>1. proc'.pc = "loop" /\ proc'.quit = proc.quit /\ proc'.pipeline = proc.pipeline
      BY <1>1, <2>3 DEF Processes
    <3>q. QED
      BY <2>2, <2>3, <3>1, TakingKeepsPipeline
  <2>q. QED
    BY <1>2, <2>1, <2>2, <2>3
<1>5. CASE Heartbeat
  <2>1. proc'.pc = proc.pc /\ proc'.quit = proc.quit /\ proc'.pipeline = proc.pipeline /\ UNCHANGED adapter
        /\ bot'.state = bot.state
    BY <1>1, <1>5 DEF Heartbeat, Refreshed, Processes, RowsAgree, BotRows
  <2>q. QED
    BY <2>1, NothingMoves DEF Watching
<1>6. CASE JoinIfStaged
  <2>1. CASE Happens("JOIN_REQUESTED") /\ proc' = [Refreshed EXCEPT !.pc = "acting"]
    <3>1. bot'.state \in {"JOINING", "STAGED", "LEAVING"} \cup Over
      BY <1>1, <2>1, LeadsOutside
    <3>2. proc'.pc = "acting"
      BY <1>1, <2>1 DEF Refreshed, Processes
    <3>q. QED
      BY <1>1, <3>1, <3>2, OutsideIsFine
  <2>q. QED
    BY <1>2, <1>6, <2>1 DEF JoinIfStaged, InLoop
<1>7. CASE LoopFails
  BY <1>2, <1>7 DEF LoopFails, InLoop
<1>8. CASE FinishCleanup
  <2>1. proc.pc = "cleaning" /\ proc'.quit = proc.quit /\ UNCHANGED adapter
    BY <1>1, <1>8 DEF FinishCleanup, Refreshed, Processes
  <2>q. QED
    BY <2>1, NotWatching DEF PipelineInv, Watching
<1>9. CASE ProcessExits \/ ProcessDies \/ PodStarts \/ RunBotRedelivered
  BY <1>9, NotWatching DEF ProcessExits, ProcessDies, PodStarts, RunBotRedelivered, ProcessStarts, NewAdapter, Watching
<1>10. CASE LaunchBot \/ RequestLeave \/ CleanUpCommand \/ RunsTooLong
  <2>1. /\ \E e \in {"JOIN_REQUESTED", "STAGED", "LEAVE_REQUESTED", "FATAL_ERROR"} : Happens(e)
        /\ UNCHANGED adapter
        /\ proc' \in {proc, [proc EXCEPT !.doomed = TRUE]}
    BY <1>10 DEF LaunchBot, RequestLeave, CleanUpCommand, HeartbeatTimeout, NeverLaunched, RunsTooLong, Terminate
  <2>2. bot'.state \in {"JOINING", "STAGED", "LEAVING"} \cup Over
    BY <1>1, <2>1, LeadsOutside
  <2>3. proc'.pc = proc.pc /\ proc'.quit = proc.quit /\ proc'.pipeline = proc.pipeline
    BY <1>1, <2>1 DEF Processes
  <2>4. Watching' => Watching
    BY <2>1, <2>3 DEF Watching
  <2>5. CASE Watching'
    BY <1>1, <2>2, <2>3, <2>4, <2>5, OutsideIsFine DEF PipelineInv
  <2>q. QED
    BY <2>5, NotWatching
<1>11. CASE \/ RequestPause \/ RequestResume \/ Restart \/ RestartCannotCreate \/ RestartRedelivered
            \/ UNCHANGED processVars
            \/ \E c \in Commands : CommandArrives(c) \/ CommandLost(c)
  <2>1. CASE RestartForgets
    BY <1>1, <1>3, <2>1 DEF RestartForgets, RowsAgree, BotRows
  <2>q. QED
    BY <1>3, <1>11, <2>1 DEF RequestPause, RequestResume, Restart, RestartReads, RestartReopens, RestartCannotCreate,
       RestartRedelivered, processVars,
       CommandArrives, CommandLost
<1>12. CASE AutoLeave \/ BrowserJoins \/ BrowserTells
  <2>1. UNCHANGED <<bot, proc>>
    BY <1>12 DEF AutoLeave, BrowserJoins, BrowserTells
  <2>2. adapter.phase = "idle" => adapter'.phase = "idle"
    BY <1>12 DEF AutoLeave, AutoLeaveIsDue, BrowserJoins, JoinAttemptEnds, BrowserTells, PermissionGranted,
       PermissionDenied, MeetingEnds, PageComplains
  <2>q. QED
    BY <2>1, <2>2, NothingMoves DEF Watching
<1>13. CASE RestartGivesUp
  <2>1. proc'.pc = proc.pc /\ proc'.quit = proc.quit /\ proc'.pipeline = proc.pipeline
    BY <1>1, <1>13 DEF RestartGivesUp, Processes
  <2>2. UNCHANGED <<bot, adapter>>
    BY <1>13 DEF RestartGivesUp
  <2>q. QED
    BY <2>1, <2>2, NothingMoves DEF Watching
<1>q. QED
  BY <1>4, <1>5, <1>6, <1>7, <1>8, <1>9, <1>10, <1>11, <1>12, <1>13, CallbacksKeepPipeline
     DEF ProcessNext, MainLoop, Timeouts, Ending, RestartFails

StoryInv == NotYetLaunched /\ RecordingFits /\ CleanupOnlyAfterEnd /\ GrantedOnce /\ PipelineInv

\* For any bounds on the restarts and the trouble: a process that tears its bot
\* down has an ended bot, and what the pipeline records is what the rows say is
\* recorded, although a permission, a pause or a resumption moves the one before
\* the other, and the API moves the rows in between.
THEOREM ProcessAndRowsMatch == ProcessSpec => []ProcessMatchesRows
<1>1. ProcessInit => StoryInv
  <2>1. ProcessInit => NotYetLaunched
    BY DEF ProcessInit, NotYetLaunched, NoProcess, InitialStates
  <2>2. ProcessInit => RecordingFits
    BY DEF ProcessInit, RecordingFits, InitialStates
  <2>3. ProcessInit => CleanupOnlyAfterEnd
    BY DEF ProcessInit, NoProcess, CleanupOnlyAfterEnd
  <2>4. ProcessInit => GrantedOnce
    BY NothingTells DEF ProcessInit, NewAdapter, GrantedOnce
  <2>5. ProcessInit => PipelineInv
    BY DEF ProcessInit, NewAdapter, PipelineInv, Watching
  <2>q. QED
    BY <2>1, <2>2, <2>3, <2>4, <2>5 DEF StoryInv
<1>2. ProcessTyped /\ StoryInv /\ [ProcessNext]_processVars => StoryInv'
  <2> SUFFICES ASSUME ProcessTyped, StoryInv, [ProcessNext]_processVars PROVE StoryInv'
    OBVIOUS
  <2>1. RowStep /\ RowsAgree
    BY ProcessStepIsRowStep, NoRowChanges DEF ProcessTyped, processVars
  <2>2. RecordingFits'
    BY <2>1, RecordingStaysFit DEF StoryInv
  <2>q. QED
    BY <2>2, LaunchedForGood, CleanupStaysAfterEnd, StepIsGrantStep, GrantStepKeepsOnce, StepKeepsPipeline DEF StoryInv
<1>3. StoryInv => ProcessMatchesRows
  BY DEF StoryInv, ProcessMatchesRows, PipelineInv, Watching, PipelineMatchesState, InLoop
<1>q. QED
  BY <1>1, <1>2, <1>3, ProcessInitiallyTyped, ProcessStaysTyped, PTL DEF ProcessSpec

-----------------------------------------------------------------------------
(* The client of the media streams *)

\* The events of an app session that are created once it is connecting.
AppEvents == {"APP_SESSION_CONNECTED", "APP_SESSION_DISCONNECT_REQUESTED", "APP_SESSION_DISCONNECTED",
              "FATAL_ERROR", "POST_PROCESSING_COMPLETED"}

\* A client whose loop runs has a media websocket only after its signaling
\* websocket opened, and none that it would listen to after it exited; there is
\* no client before somebody acted on the request to connect.
ClientHasMedia ==
    /\ rtms.client \in {"none", "thread", "connecting"} => rtms.media = "none"
    /\ rtms.client = "exited" => rtms.closing
    /\ session.state = "CONNECTING" /\ ~session.taken => rtms.client = "none"

\* An adapter that cleans up is not asked to start a client any more, and the
\* request to stop has reached the client or is on its way, unless it was missed.
StopReaches ==
    /\ host.phase \in {"disconnect", "cleanup"} \/ rtms.left => rtms.cleaned
    /\ rtms.cleaned => session.state # "CONNECTING"
    /\ rtms.cleaned /\ ~appPast.missed =>
         rtms.client # "thread" /\ (rtms.client = "none" \/ rtms.closing \/ rtms.shutdown)

\* Whoever waited for the client's thread has waited until it was told.
LeftIsClosing == rtms.left /\ ~appPast.missed => rtms.client = "none" \/ rtms.closing

AppInv == AppTypeOK /\ ClientHasMedia /\ StopReaches /\ LeftIsClosing /\ NothingAfterDisconnect

LEMMA AppEventsLeadOn ==
    ASSUME AppTypeOK, NEW e \in AppEvents, NEW row \in SessionAfter(e)
    PROVE  /\ row \in [state : States, recording : RecordingStates, taken : BOOLEAN]
           /\ row.state # "CONNECTING"
<1>1. FixedTarget(e) \in States \ {"CONNECTING"}
  BY DEF AppEvents, FixedTarget, BreakoutDepartures, States, JoinedStates, BreakoutStates,
         AppSessionStates, PostMeetingStates
<1>2. RecordingsAfter(e, session.state, FixedTarget(e), session.recording) \subseteq RecordingStates
  BY DEF AppTypeOK, RecordingsAfter, RecordingStates
<1>3. PICK r \in RecordingsAfter(e, session.state, FixedTarget(e), session.recording) :
        row = [state |-> FixedTarget(e), recording |-> r, taken |-> FALSE]
  BY DEF SessionAfter
<1> QED
  BY <1>1, <1>2, <1>3

LEMMA AppInitInv == ASSUME AppAssumption, AppInit PROVE AppInv
<1>1. session \in [state : States, recording : RecordingStates, taken : BOOLEAN]
  BY DEF AppInit, States, AppSessionStates, RecordingStates
<1> QED
  BY <1>1, AppAssumption DEF AppInit, AppInv, AppTypeOK, AppPasts, ClientHasMedia, StopReaches, LeftIsClosing, NothingAfterDisconnect,
     NewRtms, HostPhases, ClientPhases, AppMessages

Sessions == [state : States, recording : RecordingStates, taken : BOOLEAN]
Hosts == [phase : HostPhases, backlog : Seq(AppMessages)]

\* What becomes of the row while the adapter is left alone or told to stop.
RowMovesOn == session' = session \/ (session' \in Sessions /\ session'.state # "CONNECTING")

LEMMA BacklogsStayTyped ==
    ASSUME AppTypeOK, NEW m \in AppMessages
    PROVE  /\ host.backlog \in Seq(AppMessages)
           /\ Append(host.backlog, m) \in Seq(AppMessages) /\ Added(m) \in Seq(AppMessages)
           /\ host.backlog # <<>> => /\ Tail(host.backlog) \in Seq(AppMessages)
                                     /\ Append(Tail(host.backlog), m) \in Seq(AppMessages)
  BY DEF AppTypeOK, Added

LEMMA AppPastsChange ==
    ASSUME AppTypeOK, AppAssumption
    PROVE  /\ \A x \in {"none", "sent", "lost"}, y \in BOOLEAN :
                 /\ [appPast EXCEPT !.command = x] \in AppPasts
                 /\ appPast.trouble < MaxAppTrouble =>
                      /\ [appPast EXCEPT !.trouble = @ + 1] \in AppPasts
                      /\ [appPast EXCEPT !.trouble = @ + 1, !.command = x] \in AppPasts
                      /\ [appPast EXCEPT !.trouble = @ + 1, !.missed = y] \in AppPasts
           /\ appPast \in AppPasts
<1>1. appPast \in AppPasts /\ MaxAppTrouble \in Nat
  BY DEF AppTypeOK, AppAssumption
<1>2. appPast.trouble < MaxAppTrouble => appPast.trouble + 1 \in 0 .. MaxAppTrouble
  BY <1>1 DEF AppPasts
<1> QED
  BY <1>1, <1>2 DEF AppPasts

\* The main loop goes on without a word to the adapter.
LEMMA CommandsKeepInv ==
    ASSUME AppInv, RowMovesOn, UNCHANGED <<rtms, stream>>,
           appPast' \in AppPasts, appPast'.late = appPast.late, appPast'.missed = appPast.missed,
           host' \in Hosts, host'.phase \in {"disconnect", "cleanup"} => host'.phase = host.phase
    PROVE  AppInv'
  BY DEF RowMovesOn, Sessions, Hosts, AppInv, AppTypeOK, ClientHasMedia, StopReaches, LeftIsClosing,
         NothingAfterDisconnect

LEMMA RowsKeepInv ==
    ASSUME AppInv, RowMovesOn, UNCHANGED <<rtms, stream, appPast>>,
           host' \in Hosts, host'.phase \in {"disconnect", "cleanup"} => host'.phase = host.phase
    PROVE  AppInv'
<1>1. appPast \in AppPasts
  BY DEF AppInv, AppTypeOK
<1> QED
  BY <1>1, CommandsKeepInv

\* The adapter is started.
LEMMA StartingKeepsInv ==
    ASSUME AppInv, AppAssumption, NEW box \in Seq(AppMessages), Initializes(box),
           session.state = "CONNECTING", ~session.taken,
           session' = [session EXCEPT !.taken = TRUE], UNCHANGED stream
    PROVE  AppInv'
<1>1. Append(box, "connected") \in Seq(AppMessages)
  BY DEF AppMessages
<1>2. ~rtms.cleaned /\ ~rtms.left
  BY DEF AppInv, StopReaches, AppTypeOK
<1>3. /\ host' \in Hosts /\ host'.phase = "running"
      /\ session' \in Sessions /\ session'.taken
  <2>1. host' \in Hosts /\ host'.phase = "running"
    BY <1>1 DEF Initializes, Hosts, HostPhases
  <2>2. session' \in Sessions /\ session'.taken
    BY DEF AppInv, AppTypeOK, Sessions
  <2> QED
    BY <2>1, <2>2
<1>4. CASE rtms' = [rtms EXCEPT !.client = "thread"] /\ UNCHANGED appPast
  BY <1>2, <1>3, <1>4 DEF AppInv, AppTypeOK, ClientHasMedia, StopReaches, LeftIsClosing,
     NothingAfterDisconnect, Sessions, Hosts, ClientPhases
<1>5. CASE Troubles /\ UNCHANGED rtms
  <2>1. appPast' \in AppPasts /\ appPast'.late = appPast.late /\ appPast'.missed = appPast.missed
    BY <1>5, AppPastsChange DEF Troubles, AppInv, AppTypeOK, AppPasts
  <2> QED
    BY <1>2, <1>3, <1>5, <2>1, CommandsKeepInv DEF RowMovesOn, AppInv, AppTypeOK, ClientHasMedia, StopReaches,
       LeftIsClosing, NothingAfterDisconnect, Sessions, Hosts
<1> QED
  BY <1>4, <1>5 DEF Initializes

\* The adapter is told to stop.
LEMMA StoppingKeepsInv ==
    ASSUME AppInv, AsksToStop, session' \in Sessions, session'.state # "CONNECTING",
           host' \in Hosts, UNCHANGED stream
    PROVE  AppInv'
<1>1. /\ appPast' \in AppPasts /\ appPast'.late = appPast.late
      /\ appPast'.missed = (appPast.missed \/ rtms.client = "thread")
  BY DEF AsksToStop, AppInv, AppTypeOK, AppPasts
<1> QED
  BY <1>1 DEF Sessions, Hosts, AppInv, AppTypeOK, ClientHasMedia, StopReaches, LeftIsClosing,
         NothingAfterDisconnect, AsksToStop, LoopRuns, ClientPhases

LEMMA DisconnectingKeepsInv ==
    ASSUME AppInv, NEW box \in Seq(AppMessages), Disconnects(box), UNCHANGED stream,
           session' \in Sessions, session'.state # "CONNECTING"
    PROVE  AppInv'
<1>1. CASE rtms.left
  BY <1>1, RowsKeepInv DEF Disconnects, RowMovesOn, Hosts, HostPhases
<1>2. CASE ~rtms.left
  BY <1>2, StoppingKeepsInv DEF Disconnects, Hosts, HostPhases
<1> QED
  BY <1>1, <1>2

\* The process and its client are gone.
LEMMA NoClientKeepsInv ==
    ASSUME AppInv, rtms' = NewRtms, session' \in Sessions,
           session' = session \/ session'.state # "CONNECTING",
           host' \in Hosts, host'.phase \in {"done", "dead"}, stream' = stream,
           appPast' \in AppPasts, appPast'.late = appPast.late
    PROVE  AppInv'
  BY DEF Sessions, Hosts, AppInv, AppTypeOK, ClientHasMedia, StopReaches, LeftIsClosing,
         NothingAfterDisconnect, NewRtms, ClientPhases

\* take_action_based_on_bot_in_db.
LEMMA ActingKeepsInv ==
    ASSUME AppInv, AppAssumption, NEW box \in Seq(AppMessages), ActsOnRow(box), UNCHANGED stream
    PROVE  AppInv'
<1>1. CASE session.state = "CONNECTING" /\ Initializes(box)
  BY <1>1, StartingKeepsInv DEF ActsOnRow
<1>2. CASE session.state = "DISCONNECTING" /\ Disconnects(box)
  <2>1. session' \in Sessions /\ session'.state # "CONNECTING"
    BY <1>2 DEF ActsOnRow, AppInv, AppTypeOK, Sessions
  <2> QED
    BY <1>2, <2>1, DisconnectingKeepsInv
<1> QED
  BY <1>1, <1>2 DEF ActsOnRow

\* A fatal error ends the session, or comes when it has ended already.
LEMMA FailingKeepsInv == ASSUME AppInv, FailsFatally, UNCHANGED stream PROVE AppInv'
<1>1. session' \in Sessions /\ session'.state # "CONNECTING"
  <2>1. CASE Created("FATAL_ERROR")
    BY <2>1, AppEventsLeadOn DEF Created, AppEvents, AppInv, Sessions
  <2>2. CASE Refused("FATAL_ERROR")
    <3>1. session' = session /\ session \in Sessions
      BY <2>2 DEF Refused, AppInv, AppTypeOK, Sessions
    <3>2. session.state # "CONNECTING"
      <4> SUFFICES ASSUME session.state = "CONNECTING" PROVE FALSE
        OBVIOUS
      <4>1. session.state \in From("FATAL_ERROR")
        BY DEF From, States, AppSessionStates, PostMeetingStates, BreakoutDepartures
      <4>2. RecordingsAfter("FATAL_ERROR", session.state, "FATAL_ERROR", session.recording) # {}
        BY DEF RecordingsAfter, EndsSession, PostMeetingStates
      <4>3. FixedTarget("FATAL_ERROR") = "FATAL_ERROR"
        BY DEF FixedTarget
      <4> QED
        BY <2>2, <4>1, <4>2, <4>3 DEF Refused, SessionAfter
    <3> QED
      BY <3>1, <3>2
  <2> QED
    BY <2>1, <2>2 DEF FailsFatally
<1>2. host' \in Hosts
  BY DEF FailsFatally, Hosts, HostPhases
<1> QED
  BY <1>1, <1>2, StoppingKeepsInv DEF FailsFatally

LEMMA HostKeepsInv == ASSUME AppInv, AppAssumption, HostStep PROVE AppInv'
<1>0. /\ AppTypeOK /\ host \in Hosts /\ session \in Sessions /\ host.backlog \in Seq(AppMessages)
      /\ appPast \in AppPasts
  BY DEF AppInv, AppTypeOK, Hosts, Sessions
<1>1. CASE FirstTurn
  <2>1. CASE ActsOnRow(host.backlog)
    BY <1>0, <1>1, <2>1, ActingKeepsInv DEF FirstTurn
  <2>2. CASE NothingToDo /\ host' = [host EXCEPT !.phase = "running"] /\ UNCHANGED <<session, rtms, appPast>>
    BY <1>0, <1>1, <2>2, RowsKeepInv DEF FirstTurn, RowMovesOn, Hosts, HostPhases
  <2>3. CASE FailsFatally
    BY <1>1, <2>3, FailingKeepsInv DEF FirstTurn
  <2> QED
    BY <1>1, <2>1, <2>2, <2>3 DEF FirstTurn
<1>2. CASE TakesConnected
  <2>1. RowMovesOn
    BY <1>0, <1>2, AppEventsLeadOn DEF TakesConnected, Created, Refused, RowMovesOn, AppEvents, Sessions
  <2>2. host' \in Hosts /\ host'.phase = host.phase
    BY <1>0, <1>2, BacklogsStayTyped DEF TakesConnected, Takes, Drops, Hosts, AppMessages
  <2> QED
    BY <1>2, <2>1, <2>2, RowsKeepInv DEF TakesConnected, Drops
<1>3. CASE TakesDisconnectRequested
  <2>1. CASE Refused("APP_SESSION_DISCONNECT_REQUESTED") /\ Drops
    <3>1. host' \in Hosts /\ host'.phase = host.phase
      BY <1>0, <1>3, <2>1, BacklogsStayTyped DEF TakesDisconnectRequested, Takes, Drops, Hosts, AppMessages
    <3> QED
      BY <1>3, <2>1, <3>1, RowsKeepInv DEF TakesDisconnectRequested, Drops, Refused, RowMovesOn
  <2>2. CASE \E row \in SessionAfter("APP_SESSION_DISCONNECT_REQUESTED") :
               session' = [row EXCEPT !.taken = TRUE] /\ Disconnects(Tail(host.backlog))
    <3>1. session' \in Sessions /\ session'.state # "CONNECTING"
      BY <1>0, <2>2, AppEventsLeadOn DEF AppEvents, Sessions
    <3>2. Tail(host.backlog) \in Seq(AppMessages)
      BY <1>0, <1>3, BacklogsStayTyped DEF TakesDisconnectRequested, Takes, AppMessages
    <3> QED
      BY <1>3, <2>2, <3>1, <3>2, DisconnectingKeepsInv DEF TakesDisconnectRequested
  <2> QED
    BY <1>3, <2>1, <2>2 DEF TakesDisconnectRequested
<1>4. CASE TakesDisconnected
  <2>1. CASE Created("APP_SESSION_DISCONNECTED") /\ ControllerCleansUp
    <3>1. session' \in Sessions /\ session'.state # "CONNECTING"
      BY <1>0, <2>1, AppEventsLeadOn DEF Created, AppEvents, Sessions
    <3>2. host' \in Hosts
      BY <2>1 DEF ControllerCleansUp, Hosts, HostPhases
    <3> QED
      BY <1>4, <2>1, <3>1, <3>2, StoppingKeepsInv DEF ControllerCleansUp, TakesDisconnected
  <2>2. CASE Refused("APP_SESSION_DISCONNECTED") /\ Drops
    <3>1. host' \in Hosts /\ host'.phase = host.phase
      BY <1>0, <1>4, <2>2, BacklogsStayTyped DEF TakesDisconnected, Takes, Drops, Hosts, AppMessages
    <3> QED
      BY <1>4, <2>2, <3>1, RowsKeepInv DEF TakesDisconnected, Drops, Refused, RowMovesOn
  <2> QED
    BY <1>4, <2>1, <2>2 DEF TakesDisconnected
<1>5. CASE TakesStreamEnded
  <2>1. host' \in Hosts /\ host'.phase = host.phase
    BY <1>0, <1>5, BacklogsStayTyped DEF TakesStreamEnded, Takes, Hosts, AppMessages
  <2> QED
    BY <1>5, <2>1, RowsKeepInv DEF TakesStreamEnded, RowMovesOn
<1>6. CASE TakesSync
  <2>0. Tail(host.backlog) \in Seq(AppMessages)
    BY <1>0, <1>6, BacklogsStayTyped DEF TakesSync, Takes, AppMessages
  <2>1. CASE ActsOnRow(Tail(host.backlog))
    BY <1>6, <2>0, <2>1, ActingKeepsInv DEF TakesSync
  <2>2. CASE Drops /\ UNCHANGED session
    <3>1. host' \in Hosts /\ host'.phase = host.phase
      BY <1>0, <2>0, <2>2 DEF Drops, Hosts
    <3> QED
      BY <1>6, <2>2, <3>1, RowsKeepInv DEF TakesSync, Drops, RowMovesOn
  <2> QED
    BY <1>6, <2>1, <2>2 DEF TakesSync
<1>7. CASE JoinReturns
  <2>1. host' \in Hosts /\ host'.phase \notin {"disconnect", "cleanup"}
    <3>1. Append(host.backlog, "disconnected") \in Seq(AppMessages)
      BY <1>0, BacklogsStayTyped DEF AppMessages
    <3>2. \/ host' = [host EXCEPT !.phase = "post"]
          \/ host' = [phase |-> "running", backlog |-> Append(host.backlog, "disconnected")]
      BY <1>7 DEF JoinReturns
    <3> QED
      BY <1>0, <3>1, <3>2 DEF Hosts, HostPhases
  <2>2. rtms.cleaned
    BY <1>7 DEF JoinReturns, AppInv, StopReaches
  <2>3. CASE appPast' = appPast /\ (rtms.client \in {"none", "exited"} \/ ~rtms.shutdown)
    BY <1>7, <2>1, <2>2, <2>3 DEF JoinReturns, Hosts, AppInv, AppTypeOK, ClientHasMedia, StopReaches,
       LeftIsClosing, NothingAfterDisconnect, ClientPhases
  <2>4. CASE appPast.trouble < MaxAppTrouble /\ appPast' = [appPast EXCEPT !.trouble = @ + 1, !.missed = TRUE]
    <3>1. appPast' \in AppPasts /\ appPast'.late = appPast.late /\ appPast'.missed
      BY <1>0, <2>4, AppPastsChange, AppAssumption DEF AppPasts
    <3> QED
      BY <1>7, <2>1, <2>2, <3>1 DEF JoinReturns, Hosts, AppInv, AppTypeOK, ClientHasMedia, StopReaches,
         LeftIsClosing, NothingAfterDisconnect
  <2> QED
    BY <1>7, <2>3, <2>4 DEF JoinReturns
<1>8. CASE FinishesUp
  <2>1. session' \in Sessions /\ (session' = session \/ session'.state # "CONNECTING")
    BY <1>0, <1>8, AppEventsLeadOn DEF FinishesUp, AppEvents, Sessions
  <2>2. host' \in Hosts /\ host'.phase = "done"
    BY <1>0, <1>8 DEF FinishesUp, Hosts, HostPhases
  <2> QED
    BY <1>0, <1>8, <2>1, <2>2, NoClientKeepsInv DEF FinishesUp, AppTypeOK
<1> QED
  BY <1>1, <1>2, <1>3, <1>4, <1>5, <1>6, <1>7, <1>8 DEF HostStep

LEMMA ClientKeepsInv == ASSUME AppInv, ClientStep PROVE AppInv'
<1>1. ASSUME NEW m \in AppMessages, Tells(m) PROVE host' \in Hosts /\ host'.phase = host.phase
  BY <1>1, BacklogsStayTyped DEF Tells, Hosts, AppInv, AppTypeOK
<1> USE DEF AppInv, AppTypeOK, ClientHasMedia, StopReaches, LeftIsClosing, NothingAfterDisconnect, ClientPhases
<1>2. CASE ClientStarts
  BY <1>2 DEF ClientStarts
<1>3. CASE StopsClient
  BY <1>3 DEF StopsClient, LoopRuns
<1>4. CASE SignalingOpens
  BY <1>4 DEF SignalingOpens
<1>5. CASE ClientExits
  <2>1. host' \in Hosts /\ host'.phase = host.phase
    BY <1>1, <1>5 DEF ClientExits, Exits, AppMessages, Hosts
  <2> QED
    BY <1>5, <2>1 DEF ClientExits, Exits, Hosts
<1>6. CASE SignalingTellsEnd
  <2>1. host' \in Hosts /\ host'.phase = host.phase
    BY <1>1, <1>6 DEF SignalingTellsEnd, AppMessages
  <2> QED
    BY <1>6, <2>1 DEF SignalingTellsEnd, Hosts
<1> QED
  BY <1>2, <1>3, <1>4, <1>5, <1>6 DEF ClientStep

LEMMA OthersKeepInv ==
    ASSUME AppInv, AppAssumption,
           \/ SignalingDies \/ MediaConnects \/ MediaOpens \/ MediaDies \/ FrameArrives
           \/ EndSession \/ EndCommandArrives \/ EndCommandLost
           \/ StreamEnds \/ TurnFails \/ HostDies \/ RunAgain \/ SessionReaped
    PROVE  AppInv'
<1>1. ASSUME NEW m \in AppMessages, Tells(m) PROVE host' \in Hosts /\ host'.phase = host.phase
  BY <1>1, BacklogsStayTyped DEF Tells, Hosts, AppInv, AppTypeOK
<1>2. ASSUME Troubles
      PROVE  /\ appPast' \in AppPasts
             /\ appPast'.late = appPast.late /\ appPast'.missed = appPast.missed
  BY <1>2, AppAssumption, AppPastsChange DEF Troubles, AppPasts, AppInv, AppTypeOK
<1>3. AppTypeOK /\ host \in Hosts /\ session \in Sessions
  BY DEF AppInv, AppTypeOK, Hosts, Sessions
<1>4. CASE EndSession \/ EndCommandArrives \/ EndCommandLost
  <2>1. host' \in Hosts /\ host'.phase = host.phase
    BY <1>1, <1>3, <1>4 DEF EndSession, EndCommandArrives, EndCommandLost, AppMessages
  <2>2. RowMovesOn
    BY <1>3, <1>4, AppEventsLeadOn DEF EndSession, EndCommandArrives, EndCommandLost, Created, RowMovesOn, AppEvents, Sessions
  <2>3. appPast' \in AppPasts /\ appPast'.late = appPast.late /\ appPast'.missed = appPast.missed
    BY <1>3, <1>4, AppPastsChange DEF EndSession, EndCommandArrives, EndCommandLost, AppPasts
  <2> QED
    BY <1>4, <2>1, <2>2, <2>3, CommandsKeepInv DEF EndSession, EndCommandArrives, EndCommandLost
<1>5. CASE TurnFails
  BY <1>5, FailingKeepsInv DEF TurnFails
<1>6. CASE HostDies
  <2>1. host' \in Hosts /\ host'.phase = "dead"
    BY <1>6 DEF HostDies, Hosts, HostPhases
  <2> QED
    BY <1>2, <1>3, <1>6, <2>1, NoClientKeepsInv DEF HostDies
<1>7. CASE RunAgain
  <2>1. host' \in Hosts /\ host'.phase = "first"
    BY <1>3, <1>7 DEF RunAgain, Hosts, HostPhases
  <2> QED
    BY <1>7, <2>1, RowsKeepInv DEF RunAgain, RowMovesOn
<1>8. CASE SessionReaped
  <2>1. RowMovesOn
    BY <1>3, <1>8, AppEventsLeadOn DEF SessionReaped, Created, RowMovesOn, AppEvents, Sessions
  <2> QED
    BY <1>3, <1>8, <2>1, RowsKeepInv DEF SessionReaped
<1> USE DEF AppInv, AppTypeOK, ClientHasMedia, StopReaches, LeftIsClosing, NothingAfterDisconnect, ClientPhases
<1>9. CASE SignalingDies
  <2>1. host' \in Hosts /\ host'.phase = host.phase
    BY <1>1, <1>3, <1>9 DEF SignalingDies, Exits, AppMessages
  <2> QED
    BY <1>2, <1>9, <2>1 DEF SignalingDies, Exits, LoopRuns, Hosts
<1>10. CASE MediaConnects
  BY <1>10 DEF MediaConnects
<1>11. CASE MediaOpens
  BY <1>11 DEF MediaOpens
<1>12. CASE MediaDies
  <2>1. host' \in Hosts /\ host'.phase = host.phase
    BY <1>1, <1>3, <1>12 DEF MediaDies, AppMessages
  <2> QED
    BY <1>2, <1>12, <2>1 DEF MediaDies, Hosts
<1>13. CASE FrameArrives
  <2>1. ~(rtms.left /\ ~appPast.missed)
    BY <1>13 DEF FrameArrives, TakesFrames
  <2>2. appPast' = appPast
    BY <1>3, <1>13, <2>1 DEF FrameArrives, AppTypeOK, AppPasts
  <2> QED
    BY <1>13, <2>2 DEF FrameArrives
<1>14. CASE StreamEnds
  BY <1>14 DEF StreamEnds
<1> QED
  BY <1>4, <1>5, <1>6, <1>7, <1>8, <1>9, <1>10, <1>11, <1>12, <1>13, <1>14

LEMMA AppInvariant == AppSpec => []AppInv
<1>1. AppInit => AppInv
  BY AppInitInv, AppAssumption
<1>2. AppInv /\ [AppNext]_appVars => AppInv'
  <2>1. CASE UNCHANGED appVars
    BY <2>1 DEF appVars, AppInv, AppTypeOK, ClientHasMedia, StopReaches, LeftIsClosing, NothingAfterDisconnect
  <2>2. CASE AppNext
    BY <2>2, AppAssumption, HostKeepsInv, ClientKeepsInv, OthersKeepInv DEF AppNext
  <2> QED
    BY <2>1, <2>2
<1> QED
  BY <1>1, <1>2, PTL DEF AppSpec

\* Whatever ends a session that listens to Zoom's streams, and however often its
\* process and its websockets die, nothing of the meeting reaches its recording
\* once the adapter has disconnected, unless the request to stop came too early or the
\* client's loop was kept from seeing it.
THEOREM DisconnectedHearsNothing == AppSpec => []NothingAfterDisconnect
<1>1. AppInv => NothingAfterDisconnect
  BY DEF AppInv
<1> QED
  BY <1>1, AppInvariant, PTL

\* Where a session may be once it is connecting.
AppStates == {"CONNECTING", "CONNECTED", "DISCONNECTING", "POST_PROCESSING"} \cup PostMeetingStates

\* No adapter is left by a process that is over; one that was told to stop stops a
\* session whose end was asked for, and on which somebody acted.
AdapterFollows ==
    /\ session.state \in AppStates
    /\ host.phase \in {"first", "done", "dead"} => rtms = NewRtms
    /\ rtms.cleaned => /\ session.state \notin {"CONNECTING", "CONNECTED"}
                       /\ session.state = "DISCONNECTING" => session.taken

\* What the main loop waits for, finishes, or still finds among its callbacks.
LoopFollows ==
    /\ host.phase = "disconnect" => session.state = "DISCONNECTING" /\ session.taken
    /\ host.phase \in {"cleanup", "post"} => session.state \in {"POST_PROCESSING"} \cup PostMeetingStates
    /\ host.phase = "done" => session.state \in PostMeetingStates
    /\ host.phase = "running" =>
         /\ session.state = "POST_PROCESSING" => rtms.client = "none"
         /\ session.state = "DISCONNECTING" /\ session.taken => Queued("disconnected")
         /\ session.state = "DISCONNECTING" /\ ~session.taken => Queued("sync") \/ appPast.command \in {"sent", "lost"}
         /\ session.state \in {"CONNECTING", "CONNECTED"} /\ rtms.client = "exited" => Queued("disconnect_requested")

CourseHeld == AdapterFollows /\ LoopFollows

\* A callback is still there after another was added or a different one was taken.
LEMMA WaitsStill ==
    ASSUME NEW s \in Seq(AppMessages), NEW m \in AppMessages, \E i \in DOMAIN s : s[i] = m
    PROVE  /\ \A x \in AppMessages : \E i \in DOMAIN Append(s, x) : Append(s, x)[i] = m
           /\ s # <<>> /\ (Head(s) # m => \E i \in DOMAIN Tail(s) : Tail(s)[i] = m)
<1>1. PICK i \in 1 .. Len(s) : s[i] = m
  OBVIOUS
<1>2. ASSUME NEW x \in AppMessages PROVE \E j \in DOMAIN Append(s, x) : Append(s, x)[j] = m
  <2>1. i \in 1 .. Len(Append(s, x)) /\ Append(s, x)[i] = m
    BY <1>1
  <2> QED
    BY <2>1
<1>3. s # <<>>
  BY <1>1
<1>4. ASSUME Head(s) # m PROVE \E j \in DOMAIN Tail(s) : Tail(s)[j] = m
  <2>1. i # 1
    BY <1>1, <1>3, <1>4
  <2>2. i - 1 \in 1 .. Len(Tail(s)) /\ Tail(s)[i - 1] = m
    BY <1>1, <1>3, <2>1
  <2>3. DOMAIN Tail(s) = 1 .. Len(Tail(s))
    <3>1. Tail(s) \in Seq(AppMessages)
      BY <1>3
    <3> QED
      BY <3>1
  <2> QED
    BY <2>2, <2>3, Zenon
<1> QED
  BY <1>2, <1>3, <1>4

LEMMA WaitsNow ==
    ASSUME NEW s \in Seq(AppMessages), NEW m \in AppMessages
    PROVE  \E i \in DOMAIN Append(s, m) : Append(s, m)[i] = m
<1>1. Len(s) + 1 \in 1 .. Len(Append(s, m)) /\ Append(s, m)[Len(s) + 1] = m
  OBVIOUS
<1> QED
  BY <1>1

\* What the events of a session do to it, and when they are refused.
LEMMA AppEventsCome ==
    ASSUME AppTypeOK, AdapterFollows
    PROVE  /\ \A e \in AppEvents : \A row \in SessionAfter(e) :
                 /\ row \in Sessions /\ row.state = FixedTarget(e) /\ ~row.taken
                 /\ session.state \in From(e)
           /\ session.state \in {"CONNECTING", "CONNECTED"} => SessionAfter("APP_SESSION_DISCONNECT_REQUESTED") # {}
           /\ session.state = "DISCONNECTING" => SessionAfter("APP_SESSION_DISCONNECTED") # {}
           /\ session.state = "POST_PROCESSING" => SessionAfter("POST_PROCESSING_COMPLETED") # {}
           /\ session.state \notin PostMeetingStates => SessionAfter("FATAL_ERROR") # {}
<1>1. \A e \in AppEvents : \A row \in SessionAfter(e) :
        row \in Sessions /\ row.state = FixedTarget(e) /\ ~row.taken /\ session.state \in From(e)
  BY AppEventsLeadOn DEF SessionAfter, Sessions
<1>2. ASSUME NEW e \in AppEvents, session.state \in From(e),
             RecordingsAfter(e, session.state, FixedTarget(e), session.recording) # {}
      PROVE  SessionAfter(e) # {}
  BY <1>2 DEF SessionAfter
<1>3. ASSUME session.state \in {"CONNECTING", "CONNECTED"} PROVE SessionAfter("APP_SESSION_DISCONNECT_REQUESTED") # {}
  <2>1. session.state \in From("APP_SESSION_DISCONNECT_REQUESTED")
    BY <1>3 DEF From, BreakoutDepartures
  <2>2. RecordingsAfter("APP_SESSION_DISCONNECT_REQUESTED", session.state, "DISCONNECTING", session.recording) # {}
    BY DEF RecordingsAfter, EndsSession, PostMeetingStates
  <2>3. FixedTarget("APP_SESSION_DISCONNECT_REQUESTED") = "DISCONNECTING"
    BY DEF FixedTarget
  <2> QED
    BY <1>2, <1>3, <2>1, <2>2, <2>3 DEF AppEvents
<1>4. ASSUME session.state = "DISCONNECTING" PROVE SessionAfter("APP_SESSION_DISCONNECTED") # {}
  <2>1. session.state \in From("APP_SESSION_DISCONNECTED")
    BY <1>4 DEF From, BreakoutDepartures
  <2>2. RecordingsAfter("APP_SESSION_DISCONNECTED", session.state, "POST_PROCESSING", session.recording) # {}
    BY DEF RecordingsAfter, EndsSession, PostMeetingStates
  <2>3. FixedTarget("APP_SESSION_DISCONNECTED") = "POST_PROCESSING"
    BY DEF FixedTarget
  <2> QED
    BY <1>2, <1>4, <2>1, <2>2, <2>3 DEF AppEvents
<1>5. ASSUME session.state = "POST_PROCESSING" PROVE SessionAfter("POST_PROCESSING_COMPLETED") # {}
  <2>1. session.state \in From("POST_PROCESSING_COMPLETED")
    BY <1>5 DEF From, BreakoutDepartures
  <2>2. RecordingsAfter("POST_PROCESSING_COMPLETED", session.state, "ENDED", session.recording) # {}
    BY <1>5 DEF RecordingsAfter, EndsSession, PostMeetingStates
  <2>3. FixedTarget("POST_PROCESSING_COMPLETED") = "ENDED"
    BY DEF FixedTarget
  <2> QED
    BY <1>2, <1>5, <2>1, <2>2, <2>3 DEF AppEvents
<1>6. ASSUME session.state \notin PostMeetingStates PROVE SessionAfter("FATAL_ERROR") # {}
  <2>1. session.state \in From("FATAL_ERROR")
    <3>1. From("FATAL_ERROR") = States \ (PostMeetingStates \cup {"READY"})
      BY DEF From, BreakoutDepartures
    <3> QED
      BY <1>6, <3>1 DEF AdapterFollows, AppStates, States, AppSessionStates, PostMeetingStates
  <2>2. RecordingsAfter("FATAL_ERROR", session.state, "FATAL_ERROR", session.recording) # {}
    BY DEF RecordingsAfter, EndsSession, PostMeetingStates
  <2>3. FixedTarget("FATAL_ERROR") = "FATAL_ERROR"
    BY DEF FixedTarget
  <2> QED
    BY <1>2, <1>6, <2>1, <2>2, <2>3 DEF AppEvents
<1> QED
  BY <1>1, <1>3, <1>4, <1>5, <1>6

LEMMA AppTargets ==
    /\ FixedTarget("APP_SESSION_CONNECTED") = "CONNECTED" /\ From("APP_SESSION_CONNECTED") = {"CONNECTING"}
    /\ FixedTarget("APP_SESSION_DISCONNECT_REQUESTED") = "DISCONNECTING"
    /\ From("APP_SESSION_DISCONNECT_REQUESTED") = {"CONNECTED", "CONNECTING"}
    /\ FixedTarget("APP_SESSION_DISCONNECTED") = "POST_PROCESSING" /\ From("APP_SESSION_DISCONNECTED") = {"DISCONNECTING"}
    /\ FixedTarget("POST_PROCESSING_COMPLETED") = "ENDED" /\ From("POST_PROCESSING_COMPLETED") = {"POST_PROCESSING"}
    /\ FixedTarget("FATAL_ERROR") = "FATAL_ERROR"
BY DEF FixedTarget, From, BreakoutDepartures

\* What waits for the main loop goes on waiting, while a client does something or
\* somebody tells the main loop of something.
KeepsCallbacks == host'.phase = host.phase /\ \A m \in AppMessages : Queued(m) => Queued(m)'

LEMMA TellingKeepsCallbacks ==
    ASSUME AppTypeOK, NEW m \in AppMessages, Tells(m)
    PROVE  KeepsCallbacks /\ (host.phase \notin {"done", "dead"} => Queued(m)')
<1>1. host.backlog \in Seq(AppMessages) /\ host'.phase = host.phase /\ host'.backlog = Added(m)
  BY DEF AppTypeOK, Tells
<1>2. \A k \in AppMessages : Queued(k) => Queued(k)'
  <2>1. CASE host'.backlog = host.backlog
    BY <2>1 DEF Queued
  <2>2. CASE host'.backlog = Append(host.backlog, m)
    BY <1>1, <2>2, WaitsStill DEF Queued
  <2> QED
    BY <1>1, <2>1, <2>2 DEF Added
<1>3. ASSUME host.phase \notin {"done", "dead"} PROVE Queued(m)'
  <2>1. host'.backlog = Append(host.backlog, m)
    BY <1>1, <1>3 DEF Added
  <2> QED
    BY <1>1, <2>1, WaitsNow DEF Queued
<1> QED
  BY <1>1, <1>2, <1>3 DEF KeepsCallbacks

\* The client, or somebody who tells it something, leaves the row alone.
LEMMA ClientKeepsCourse ==
    ASSUME AppInv, CourseHeld, session' = session, KeepsCallbacks, rtms.client = "none" => rtms' = rtms,
           appPast'.command = appPast.command,
           rtms'.cleaned = rtms.cleaned, rtms'.client = "none" <=> rtms.client = "none",
           \/ rtms'.client # "exited" \/ rtms.client = "exited" \/ rtms.cleaned
           \/ host.phase = "running" => Queued("disconnect_requested")'
    PROVE  CourseHeld'
<1>1. AdapterFollows'
  BY DEF CourseHeld, AdapterFollows, KeepsCallbacks, NewRtms
<1>2. \A m \in {"disconnected", "sync", "disconnect_requested"} : Queued(m) => Queued(m)'
  BY DEF KeepsCallbacks, AppMessages
<1>3. LoopFollows'
  BY <1>2 DEF CourseHeld, AdapterFollows, LoopFollows, KeepsCallbacks
<1> QED
  BY <1>1, <1>3 DEF CourseHeld

\* The main loop takes one of them.
LEMMA TakingKeepsTheOthers ==
    ASSUME AppTypeOK, NEW m \in AppMessages, Takes(m), Drops
    PROVE  host'.phase = "running" /\ \A k \in AppMessages \ {m} : Queued(k) => Queued(k)'
<1>1. host.backlog \in Seq(AppMessages) /\ host'.phase = "running" /\ host'.backlog = Tail(host.backlog)
      /\ Head(host.backlog) = m
  BY DEF AppTypeOK, Takes, Drops
<1> QED
  BY <1>1, WaitsStill DEF Queued

LEMMA DroppingKeepsCourse ==
    ASSUME AppInv, CourseHeld, NEW m \in AppMessages, Takes(m), Drops, session' = session,
           m = "sync" => session.state # "DISCONNECTING" \/ session.taken,
           m = "disconnected" => session.state # "DISCONNECTING",
           m = "disconnect_requested" => session.state \notin {"CONNECTING", "CONNECTED"}
    PROVE  CourseHeld'
<1>1. host.phase = "running" /\ host'.phase = "running" /\ rtms' = rtms
  BY TakingKeepsTheOthers DEF Takes, Drops, AppInv
<1>2. /\ \A k \in {"disconnected", "sync", "disconnect_requested"} \ {m} : Queued(k) => Queued(k)'
      /\ appPast' = appPast
  BY TakingKeepsTheOthers DEF AppInv, AppMessages, Drops
<1>3. AdapterFollows'
  BY <1>1 DEF CourseHeld, AdapterFollows
<1>4. LoopFollows'
  BY <1>1, <1>2 DEF CourseHeld, LoopFollows
<1> QED
  BY <1>3, <1>4 DEF CourseHeld

\* The adapter disconnects.
LEMMA DisconnectingKeepsCourse ==
    ASSUME CourseHeld, NEW box, Disconnects(box), ~rtms.left,
           session'.state = "DISCONNECTING", session'.taken
    PROVE  CourseHeld'
<1>1. host'.phase = "disconnect"
  BY DEF Disconnects
<1> QED
  BY <1>1 DEF CourseHeld, AdapterFollows, LoopFollows, AppStates

\* The controller cleans up.
LEMMA CleaningKeepsCourse ==
    ASSUME CourseHeld, host' = [phase |-> "cleanup", backlog |-> <<>>],
           session'.state \in {"POST_PROCESSING"} \cup PostMeetingStates
    PROVE  CourseHeld'
<1>1. session'.state \notin {"CONNECTING", "CONNECTED", "DISCONNECTING"}
  BY DEF PostMeetingStates
<1> QED
  BY <1>1 DEF CourseHeld, AdapterFollows, LoopFollows, AppStates

LEMMA FailingKeepsCourse == ASSUME AppInv, CourseHeld, FailsFatally PROVE CourseHeld'
<1>1. CASE Created("FATAL_ERROR")
  <2>1. session'.state = "FATAL_ERROR"
    BY <1>1, AppEventsCome, AppTargets DEF Created, AppEvents, AppInv, CourseHeld
  <2> QED
    BY <2>1, CleaningKeepsCourse DEF FailsFatally, PostMeetingStates
<1>2. CASE Refused("FATAL_ERROR")
  <2>1. session'.state \in PostMeetingStates
    BY <1>2, AppEventsCome DEF Refused, AppInv, CourseHeld
  <2> QED
    BY <2>1, CleaningKeepsCourse DEF FailsFatally
<1> QED
  BY <1>1, <1>2 DEF FailsFatally

\* take_action_based_on_bot_in_db, from a callback or at the first turn.
LEMMA ActingKeepsCourse ==
    ASSUME AppInv, CourseHeld, NEW box, ActsOnRow(box)
    PROVE  CourseHeld'
<1>0. session' = [session EXCEPT !.taken = TRUE] /\ session'.state = session.state /\ session'.taken
  BY DEF ActsOnRow, AppInv, AppTypeOK
<1>1. CASE session.state = "CONNECTING" /\ Initializes(box)
  <2>1. /\ host'.phase = "running" /\ rtms.client = "none" /\ ~rtms.cleaned
        /\ rtms'.client \in {"none", "thread"} /\ rtms'.cleaned = rtms.cleaned
    BY <1>1 DEF Initializes, ActsOnRow, AppInv, AppTypeOK, ClientHasMedia, StopReaches
  <2> QED
    BY <1>0, <1>1, <2>1 DEF CourseHeld, AdapterFollows, LoopFollows, AppStates
<1>2. CASE session.state = "DISCONNECTING" /\ Disconnects(box)
  <2>1. ~rtms.left
    BY <1>2 DEF ActsOnRow, AppInv, StopReaches, CourseHeld, AdapterFollows
  <2> QED
    BY <1>0, <1>2, <2>1, DisconnectingKeepsCourse
<1> QED
  BY <1>1, <1>2 DEF ActsOnRow

LEMMA HostKeepsCourse == ASSUME AppInv, CourseHeld, HostStep PROVE CourseHeld'
<1>0. AppTypeOK /\ host.backlog \in Seq(AppMessages) /\ AdapterFollows /\ LoopFollows
  BY DEF AppInv, AppTypeOK, CourseHeld
<1>1. CASE FirstTurn
  <2>1. CASE ActsOnRow(host.backlog)
    BY <2>1, ActingKeepsCourse
  <2>2. CASE NothingToDo /\ host' = [host EXCEPT !.phase = "running"] /\ UNCHANGED <<session, rtms, appPast>>
    <3>1. rtms.client = "none" /\ ~rtms.cleaned /\ host'.phase = "running"
      BY <1>0, <1>1, <2>2 DEF FirstTurn, AdapterFollows, NewRtms, AppTypeOK
    <3> QED
      BY <1>0, <2>2, <3>1 DEF NothingToDo, CourseHeld, AdapterFollows, LoopFollows
  <2>3. CASE FailsFatally
    BY <2>3, FailingKeepsCourse
  <2> QED
    BY <1>1, <2>1, <2>2, <2>3 DEF FirstTurn
<1>2. CASE TakesConnected
  <2>1. CASE Refused("APP_SESSION_CONNECTED")
    BY <1>2, <2>1, DroppingKeepsCourse DEF TakesConnected, Refused, AppMessages
  <2>2. CASE Created("APP_SESSION_CONNECTED")
    <3>1. session.state = "CONNECTING" /\ session'.state = "CONNECTED"
      BY <1>0, <2>2, AppEventsCome, AppTargets DEF Created, AppEvents
    <3>2. host.phase = "running" /\ host'.phase = "running" /\ rtms' = rtms
      BY <1>0, <1>2, TakingKeepsTheOthers DEF TakesConnected, Takes, Drops, AppMessages
    <3>3. Queued("disconnect_requested") => Queued("disconnect_requested")'
      BY <1>0, <1>2, TakingKeepsTheOthers DEF TakesConnected, AppMessages
    <3> QED
      BY <1>0, <3>1, <3>2, <3>3 DEF CourseHeld, AdapterFollows, LoopFollows, AppStates
  <2> QED
    BY <1>2, <2>1, <2>2 DEF TakesConnected
<1>3. CASE TakesDisconnectRequested
  <2>1. CASE Refused("APP_SESSION_DISCONNECT_REQUESTED") /\ Drops
    <3>1. session.state \notin {"CONNECTING", "CONNECTED"}
      BY <1>0, <2>1, AppEventsCome DEF Refused
    <3> QED
      BY <1>3, <2>1, <3>1, DroppingKeepsCourse DEF TakesDisconnectRequested, Refused, AppMessages
  <2>2. ASSUME NEW row \in SessionAfter("APP_SESSION_DISCONNECT_REQUESTED"),
               session' = [row EXCEPT !.taken = TRUE], Disconnects(Tail(host.backlog))
        PROVE  CourseHeld'
    <3>1. row \in Sessions /\ row.state = "DISCONNECTING" /\ session.state \in {"CONNECTED", "CONNECTING"}
      BY <1>0, AppEventsCome, AppTargets DEF AppEvents
    <3>2. session'.state = "DISCONNECTING" /\ session'.taken
      BY <2>2, <3>1 DEF Sessions
    <3>3. ~rtms.left
      BY <1>0, <3>1 DEF AdapterFollows, AppInv, StopReaches
    <3> QED
      BY <2>2, <3>2, <3>3, DisconnectingKeepsCourse
  <2> QED
    BY <1>3, <2>1, <2>2 DEF TakesDisconnectRequested
<1>4. CASE TakesDisconnected
  <2>1. CASE Created("APP_SESSION_DISCONNECTED") /\ ControllerCleansUp
    <3>1. session'.state = "POST_PROCESSING"
      BY <1>0, <2>1, AppEventsCome, AppTargets DEF Created, AppEvents
    <3> QED
      BY <2>1, <3>1, CleaningKeepsCourse DEF ControllerCleansUp
  <2>2. CASE Refused("APP_SESSION_DISCONNECTED") /\ Drops
    <3>1. session.state # "DISCONNECTING"
      BY <1>0, <2>2, AppEventsCome DEF Refused
    <3> QED
      BY <1>4, <2>2, <3>1, DroppingKeepsCourse DEF TakesDisconnected, Refused, AppMessages
  <2> QED
    BY <1>4, <2>1, <2>2 DEF TakesDisconnected
<1>5. CASE TakesStreamEnded
  <2>1. /\ host.phase = "running" /\ host'.phase = "running" /\ host.backlog # <<>> /\ Head(host.backlog) = "stream_ended"
        /\ host'.backlog = Append(Tail(host.backlog), "disconnect_requested")
    BY <1>0, <1>5 DEF TakesStreamEnded, Takes, AppTypeOK
  <2>2. Tail(host.backlog) \in Seq(AppMessages)
    BY <1>0, <2>1
  <2>3. Queued("disconnect_requested")'
    BY <2>1, <2>2, WaitsNow DEF Queued, AppMessages
  <2>4. ASSUME NEW m \in {"disconnected", "sync"}, Queued(m) PROVE Queued(m)'
    <3>1. m \in AppMessages /\ "disconnect_requested" \in AppMessages /\ m # "stream_ended"
      BY DEF AppMessages
    <3>2. \E i \in DOMAIN host.backlog : host.backlog[i] = m
      BY <2>4 DEF Queued
    <3>3. \E i \in DOMAIN Tail(host.backlog) : Tail(host.backlog)[i] = m
      BY <1>0, <2>1, <3>1, <3>2, WaitsStill
    <3> QED
      BY <2>1, <2>2, <3>1, <3>3, WaitsStill DEF Queued
  <2> QED
    BY <1>5, <2>1, <2>3, <2>4 DEF TakesStreamEnded, CourseHeld, AdapterFollows, LoopFollows
<1>6. CASE TakesSync
  <2>1. CASE ActsOnRow(Tail(host.backlog))
    BY <2>1, ActingKeepsCourse
  <2>2. CASE (NothingToDo \/ session.taken) /\ Drops /\ UNCHANGED session
    BY <1>6, <2>2, DroppingKeepsCourse DEF TakesSync, NothingToDo, AppMessages
  <2> QED
    BY <1>6, <2>1, <2>2 DEF TakesSync
<1>7. CASE JoinReturns
  <2>1. session' = session /\ rtms'.cleaned = rtms.cleaned
    BY <1>0, <1>7 DEF JoinReturns, AppTypeOK
  <2>2. CASE host.phase = "disconnect" /\ host' = [phase |-> "running", backlog |-> Append(host.backlog, "disconnected")]
    <3>1. Queued("disconnected")'
      BY <1>0, <2>2, WaitsNow DEF Queued, AppMessages
    <3> QED
      BY <1>0, <2>1, <2>2, <3>1 DEF CourseHeld, AdapterFollows, LoopFollows
  <2>3. CASE host.phase = "cleanup" /\ host' = [host EXCEPT !.phase = "post"]
    <3>1. host'.phase = "post"
      BY <1>0, <2>3 DEF AppTypeOK
    <3> QED
      BY <1>0, <2>1, <2>3, <3>1 DEF CourseHeld, AdapterFollows, LoopFollows
  <2> QED
    BY <1>7, <2>2, <2>3 DEF JoinReturns
<1>8. CASE FinishesUp
  <2>1. host.phase = "post" /\ host'.phase = "done" /\ rtms' = NewRtms
    BY <1>0, <1>8 DEF FinishesUp, AppTypeOK
  <2>2. session'.state \in PostMeetingStates
    <3>1. CASE session.state = "POST_PROCESSING"
      BY <1>0, <1>8, <3>1, AppEventsCome, AppTargets DEF FinishesUp, AppEvents, PostMeetingStates
    <3>2. CASE session.state # "POST_PROCESSING"
      BY <1>0, <1>8, <3>2 DEF FinishesUp, LoopFollows
    <3> QED
      BY <3>1, <3>2
  <2>3. session'.state \notin {"CONNECTING", "CONNECTED", "DISCONNECTING"}
    BY <2>2 DEF PostMeetingStates
  <2> QED
    BY <2>1, <2>2, <2>3 DEF CourseHeld, AdapterFollows, LoopFollows, AppStates
<1> QED
  BY <1>1, <1>2, <1>3, <1>4, <1>5, <1>6, <1>7, <1>8 DEF HostStep

\* The client's thread tells of its end unless the adapter was told to stop it.
LEMMA ExitsAreTold ==
    ASSUME AppInv, CourseHeld, Exits
    PROVE  /\ KeepsCallbacks
           /\ rtms.cleaned \/ (host.phase = "running" => Queued("disconnect_requested")')
<1>1. AppTypeOK /\ (rtms.left => rtms.cleaned)
  BY DEF AppInv, StopReaches
<1>2. CASE host' = host /\ rtms.cleaned
  BY <1>2 DEF KeepsCallbacks, Queued
<1>3. CASE Tells("disconnect_requested")
  BY <1>1, <1>3, TellingKeepsCallbacks DEF AppMessages
<1> QED
  BY <1>1, <1>2, <1>3 DEF Exits

LEMMA ThreadKeepsCourse ==
    ASSUME AppInv, CourseHeld,
           ClientStep \/ SignalingDies \/ MediaConnects \/ MediaOpens \/ MediaDies \/ FrameArrives \/ StreamEnds
    PROVE  CourseHeld'
<1>1. AppTypeOK /\ ClientHasMedia
  BY DEF AppInv
<1>2. ASSUME host' = host PROVE KeepsCallbacks
  BY <1>2 DEF KeepsCallbacks, Queued
<1>7. ASSUME Troubles PROVE appPast'.command = appPast.command
  BY <1>1, <1>7 DEF Troubles, AppTypeOK, AppPasts
<1>3. CASE ClientStarts \/ StopsClient \/ SignalingOpens \/ MediaConnects \/ MediaOpens \/ FrameArrives \/ StreamEnds
  <2>1. /\ host' = host /\ session' = session /\ rtms'.cleaned = rtms.cleaned
        /\ appPast'.command = appPast.command
        /\ rtms.client = "none" => rtms' = rtms
        /\ rtms'.client = "none" <=> rtms.client = "none"
        /\ rtms'.client # "exited" \/ rtms.client = "exited"
    BY <1>1, <1>3 DEF ClientStarts, StopsClient, SignalingOpens, MediaConnects, MediaOpens, FrameArrives, StreamEnds,
                      LoopRuns, AppTypeOK, AppPasts, ClientHasMedia, ClientPhases
  <2> QED
    BY <1>2, <2>1, ClientKeepsCourse
<1>4. CASE ClientExits \/ SignalingDies
  <2>1. /\ Exits /\ session' = session /\ rtms.client # "none"
        /\ rtms'.cleaned = rtms.cleaned /\ rtms'.client # "none" /\ appPast'.command = appPast.command
    BY <1>1, <1>4, <1>7 DEF ClientExits, SignalingDies, Exits, LoopRuns, AppTypeOK
  <2>2. KeepsCallbacks /\ (rtms.cleaned \/ (host.phase = "running" => Queued("disconnect_requested")'))
    BY <2>1, ExitsAreTold
  <2> QED
    BY <2>1, <2>2, ClientKeepsCourse
<1>5. CASE MediaDies \/ SignalingTellsEnd
  <2>1. /\ session' = session /\ rtms.client # "none" /\ rtms'.cleaned = rtms.cleaned /\ rtms'.client = rtms.client
        /\ host' = host \/ (\E m \in {"disconnect_requested", "stream_ended"} : Tells(m))
        /\ appPast'.command = appPast.command
    BY <1>1, <1>5, <1>7 DEF MediaDies, SignalingTellsEnd, AppTypeOK, ClientHasMedia
  <2>2. KeepsCallbacks
    BY <1>1, <1>2, <2>1, TellingKeepsCallbacks DEF AppMessages
  <2> QED
    BY <2>1, <2>2, ClientKeepsCourse
<1> QED
  BY <1>3, <1>4, <1>5 DEF ClientStep

LEMMA OthersKeepCourse ==
    ASSUME AppInv, CourseHeld,
           EndSession \/ EndCommandArrives \/ EndCommandLost \/ TurnFails \/ HostDies \/ RunAgain \/ SessionReaped
    PROVE  CourseHeld'
<1>0. AppTypeOK /\ AdapterFollows /\ LoopFollows
  BY DEF AppInv, CourseHeld
<1>1. CASE EndSession
  <2>1. session.state \in {"CONNECTED", "CONNECTING"} /\ session'.state = "DISCONNECTING" /\ ~session'.taken
    BY <1>0, <1>1, AppEventsCome, AppTargets DEF EndSession, Created, AppEvents
  <2>2. host' = host /\ appPast'.command = "sent" /\ UNCHANGED rtms
    BY <1>0, <1>1 DEF EndSession, AppTypeOK, AppPasts
  <2>3. host.phase \notin {"disconnect", "cleanup", "post", "done"}
    BY <1>0, <2>1 DEF LoopFollows, PostMeetingStates
  <2> QED
    BY <1>0, <2>1, <2>2, <2>3 DEF CourseHeld, AdapterFollows, LoopFollows, AppStates
<1>2. CASE TurnFails
  BY <1>2, FailingKeepsCourse DEF TurnFails
<1>3. CASE HostDies
  <2>1. host'.phase = "dead" /\ rtms' = NewRtms /\ session' = session
    BY <1>3 DEF HostDies
  <2> QED
    BY <1>0, <2>1 DEF CourseHeld, AdapterFollows, LoopFollows, NewRtms
<1>4. CASE RunAgain
  <2>1. host.phase = "dead" /\ host'.phase = "first" /\ rtms' = rtms /\ session' = session
    BY <1>0, <1>4 DEF RunAgain, AppTypeOK
  <2> QED
    BY <1>0, <2>1 DEF CourseHeld, AdapterFollows, LoopFollows
<1>5. CASE SessionReaped
  <2>1. session'.state = "FATAL_ERROR" /\ host.phase = "dead" /\ UNCHANGED <<host, rtms>>
    BY <1>0, <1>5, AppEventsCome, AppTargets DEF SessionReaped, Created, AppEvents
  <2> QED
    BY <1>0, <2>1 DEF CourseHeld, AdapterFollows, LoopFollows, AppStates, PostMeetingStates
<1>6. CASE EndCommandArrives
  <2>1. UNCHANGED <<session, rtms>> /\ Tells("sync")
    BY <1>6 DEF EndCommandArrives
  <2>2. /\ host'.phase = host.phase /\ (host.phase = "running" => Queued("sync")')
        /\ \A m \in {"disconnected", "disconnect_requested"} : Queued(m) => Queued(m)'
    BY <1>0, <2>1, TellingKeepsCallbacks DEF AppMessages, KeepsCallbacks
  <2> QED
    BY <1>0, <2>1, <2>2 DEF CourseHeld, AdapterFollows, LoopFollows
<1>7. CASE EndCommandLost
  <2>1. UNCHANGED <<session, host, rtms>> /\ appPast'.command = "lost"
    BY <1>0, <1>7 DEF EndCommandLost, AppTypeOK, AppPasts
  <2> QED
    BY <1>0, <2>1 DEF CourseHeld, AdapterFollows, LoopFollows, Queued
<1> QED
  BY <1>1, <1>2, <1>3, <1>4, <1>5, <1>6, <1>7

\* The rows, the callbacks and the client keep their types.
THEOREM AppTypeCorrect == AppSpec => []AppTypeOK
<1>1. AppInv => AppTypeOK
  BY DEF AppInv
<1> QED
  BY <1>1, AppInvariant, PTL

\* The end of a session never depends on somebody who has gone: however often its
\* process dies, whoever asked and whichever websocket was lost, a main loop that runs
\* finds the callback that has it go on, or the command that will add it is under way,
\* and a process that is done leaves a session that is over. Not if the API's command
\* was lost after the request was committed: then nothing is on its way.
THEOREM EndOfSessionIsComing == AppSpec => []EndIsComing
<1>1. AppInit => CourseHeld
  BY DEF AppInit, CourseHeld, AdapterFollows, LoopFollows, AppStates, NewRtms
<1>2. AppInv /\ CourseHeld /\ [AppNext]_appVars => CourseHeld'
  <2> SUFFICES ASSUME AppInv, CourseHeld, [AppNext]_appVars PROVE CourseHeld'
    OBVIOUS
  <2>1. CASE UNCHANGED appVars
    BY <2>1 DEF appVars, CourseHeld, AdapterFollows, LoopFollows, Queued
  <2>2. CASE AppNext
    BY <2>2, HostKeepsCourse, ThreadKeepsCourse, OthersKeepCourse DEF AppNext
  <2> QED
    BY <2>1, <2>2
<1>3. CourseHeld => EndIsComing
  <2> SUFFICES ASSUME CourseHeld PROVE EndIsComing
    OBVIOUS
  <2>1. host.phase = "done" => session.state \in PostMeetingStates
    BY DEF CourseHeld, LoopFollows
  <2>2. ASSUME host.phase = "running", AskedToEnd, ~HasEnded
        PROVE  IF session.state # "DISCONNECTING" THEN Queued("disconnect_requested")
               ELSE IF session.taken THEN Queued("disconnected")
               ELSE Queued("sync") \/ appPast.command = "sent"
    <3>1. session.state \in {"CONNECTING", "CONNECTED", "DISCONNECTING"}
      BY <2>2 DEF AskedToEnd, HasEnded, Forsaken, CourseHeld, AdapterFollows, LoopFollows, AppStates
    <3>2. session.state = "DISCONNECTING" /\ ~session.taken => appPast.command # "lost"
      BY <2>2 DEF HasEnded, Unheard
    <3> QED
      BY <2>2, <3>1, <3>2 DEF AskedToEnd, CourseHeld, LoopFollows
  <2> QED
    BY <2>1, <2>2 DEF EndIsComing
<1> QED
  BY <1>1, <1>2, <1>3, AppInvariant, PTL DEF AppSpec

-----------------------------------------------------------------------------
(* The media a bot is asked to play.                                        *)

MediaRow == [type : MediaTypes, state : RequestStates]
MediaRows == Seq(MediaRow)

\* A set of numbers that is not empty has a least one.
LEMMA SmallestNumber ==
    ASSUME NEW S \in SUBSET Nat, S # {}
    PROVE  \E x \in S : \A y \in S : x <= y
<1> DEFINE Less == OpToRel(<, Nat)
<1>1. IsWellFoundedOn(Less, Nat)
  BY NatLessThanWellFounded
<1>2. \A x, y \in Nat : x < y => <<x, y>> \in Less
  BY DEF OpToRel
<1> HIDE DEF Less
<1>3. PICK x \in S : \A y \in S : ~(<<y, x>> \in Less)
  BY <1>1, WFMin
<1>4. \A y \in S : ~(y < x)
  BY <1>2, <1>3
<1> QED
  BY <1>4

\* A set of row numbers that is not empty has a first and a last one.
LEMMA FirstAndLast ==
    ASSUME NEW n \in Nat, NEW S \in SUBSET (1 .. n), S # {}
    PROVE  /\ Oldest(S) \in S /\ \A j \in S : Oldest(S) <= j
           /\ Newest(S) \in S
<1>1. S \in SUBSET Nat
  OBVIOUS
<1>2. \E x \in S : \A y \in S : x <= y
  BY <1>1, SmallestNumber
<1> DEFINE T == {n - y : y \in S}
<1>3. T \in SUBSET Nat /\ T # {}
  <2>1. \A y \in S : n - y \in Nat
    OBVIOUS
  <2> QED
    BY <2>1
<1>4. \A y \in S : n - y \in T
  OBVIOUS
<1>5. \A t \in T : \E y \in S : t = n - y
  OBVIOUS
<1> HIDE DEF T
<1>6. PICK t \in T : \A u \in T : t <= u
  BY <1>3, SmallestNumber
<1>7. PICK z \in S : t = n - z
  BY <1>5
<1>8. \A y \in S : z >= y
  BY <1>4, <1>6, <1>7
<1> QED
  BY <1>2, <1>8 DEF Oldest, Newest

\* Row i leaves the queue of its type: it is the first that waits, and none plays.
IsNext(rows, m, i) ==
    /\ i \in 1 .. Len(rows) /\ rows[i] = [type |-> m, state |-> "ENQUEUED"]
    /\ \A j \in 1 .. Len(rows) : rows[j].type = m /\ j < i => rows[j].state # "ENQUEUED"
    /\ \A j \in 1 .. Len(rows) : rows[j] # [type |-> m, state |-> "PLAYING"]

LEMMA SavingARow ==
    ASSUME NEW rows \in MediaRows, NEW i \in 1 .. Len(rows), NEW s \in RequestStates
    PROVE  /\ SetTo(rows, i, s) \in MediaRows
           /\ Len(SetTo(rows, i, s)) = Len(rows)
           /\ SetTo(rows, i, s)[i] = [type |-> rows[i].type, state |-> s]
           /\ \A j \in 1 .. Len(rows) : j # i => SetTo(rows, i, s)[j] = rows[j]
<1>1. rows[i] \in MediaRow
  BY DEF MediaRows
<1>2. [rows[i] EXCEPT !.state = s] \in MediaRow /\ [rows[i] EXCEPT !.state = s] = [type |-> rows[i].type, state |-> s]
  BY <1>1 DEF MediaRow
<1> QED
  BY <1>2 DEF SetTo, MediaRows

LEMMA StartingOne ==
    ASSUME MediaAssumption, mediaFaults \in 0 .. MaxMediaFaults,
           NEW rows \in MediaRows, NEW m \in {"AUDIO", "VIDEO"}, NEW o \in StartNext(m, rows)
    PROVE  /\ o.failed \in BOOLEAN /\ (o.failed => mediaFaults < MaxMediaFaults)
           /\ \/ o.rows = rows /\ o.current = 0
              \/ \E i \in 1 .. Len(rows) :
                   /\ IsNext(rows, m, i)
                   /\ \/ o.rows = SetTo(rows, i, "PLAYING") /\ o.current = i
                      \/ o.rows = SetTo(rows, i, "FAILED_TO_PLAY") /\ o.current \in {0, i} /\ (m = "AUDIO" => o.current = 0)
<1>1. CASE ~CanStart(m, rows)
  <2>1. o = [rows |-> rows, current |-> 0, failed |-> FALSE]
    BY <1>1 DEF StartNext
  <2> QED
    BY <2>1
<1>2. CASE CanStart(m, rows)
  <2> DEFINE S == {i \in 1 .. Len(rows) : rows[i] = [type |-> m, state |-> "ENQUEUED"]}
  <2>1. S \in SUBSET (1 .. Len(rows)) /\ S # {}
    BY <1>2 DEF CanStart
  <2>2. Len(rows) \in Nat
    BY DEF MediaRows
  <2>3. NextOf(m, rows) = Oldest(S)
    BY DEF NextOf
  <2>4. NextOf(m, rows) \in S /\ \A j \in S : NextOf(m, rows) <= j
    BY <2>1, <2>2, <2>3, FirstAndLast
  <2>5. IsNext(rows, m, NextOf(m, rows))
    <3>1. ASSUME NEW j \in 1 .. Len(rows), rows[j].type = m, j < NextOf(m, rows) PROVE rows[j].state # "ENQUEUED"
      <4>1. rows[j] \in MediaRow
        BY DEF MediaRows
      <4>2. rows[j].state = "ENQUEUED" => rows[j] = [type |-> m, state |-> "ENQUEUED"]
        BY <4>1, <3>1 DEF MediaRow
      <4> QED
        BY <2>4, <4>2, <3>1
    <3> QED
      BY <1>2, <2>4, <3>1 DEF IsNext, CanStart
  <2> HIDE DEF S
  <2> DEFINE i == NextOf(m, rows)
  <2>6. i \in 1 .. Len(rows)
    BY <2>5 DEF IsNext
  <2> HIDE DEF i
  <2>7. CASE o = [rows |-> SetTo(rows, i, "PLAYING"), current |-> i, failed |-> FALSE]
    BY <2>5, <2>6, <2>7 DEF i
  <2>8. CASE /\ mediaFaults # MaxMediaFaults
             /\ o = [rows |-> SetTo(rows, i, "FAILED_TO_PLAY"), current |-> IF m = "VIDEO" THEN i ELSE 0, failed |-> TRUE]
    BY <2>5, <2>6, <2>8 DEF i, MediaAssumption
  <2> QED
    BY <1>2, <2>7, <2>8 DEF StartNext, i
<1> QED
  BY <1>1, <1>2

\* What a step may do to the requests: a request that has ended stays as it is,
\* one that plays goes on or is finished, new ones wait, and those that speak
\* leave the queue in their turn.
RequestsGoOn ==
    /\ mediaRequests' \in MediaRows
    /\ Len(mediaRequests') >= Len(mediaRequests) /\ Len(mediaRequests') <= MaxRequests
    /\ \A i \in 1 .. Len(mediaRequests) :
         /\ mediaRequests'[i].type = mediaRequests[i].type
         /\ mediaRequests[i].state \notin {"ENQUEUED", "PLAYING"} => mediaRequests'[i] = mediaRequests[i]
         /\ mediaRequests[i].state = "PLAYING" => mediaRequests'[i].state \in {"PLAYING", "FINISHED"}
         /\ mediaRequests[i].state = "ENQUEUED" /\ mediaRequests'[i].state # "ENQUEUED" /\ mediaRequests[i].type # "IMAGE" =>
              \A j \in 1 .. Len(mediaRequests) :
                 mediaRequests[j].type = mediaRequests[i].type /\ j < i => mediaRequests[j].state # "ENQUEUED"
    /\ \A i \in 1 .. Len(mediaRequests') : i > Len(mediaRequests) => mediaRequests'[i].state = "ENQUEUED"

NothingIsDropped ==
    \A i \in 1 .. Len(mediaRequests') : mediaRequests'[i].state = "DROPPED" =>
        i \in 1 .. Len(mediaRequests) /\ mediaRequests[i].state = "DROPPED"

\* Where the requests are that the managers play, and the image just shown.
AudioPlays == \A i \in 1 .. Len(mediaRequests) :
    mediaRequests[i] = [type |-> "AUDIO", state |-> "PLAYING"] <=> i = playing["AUDIO"]
VideoIsOne == playing["VIDEO"] # 0 => mediaRequests[playing["VIDEO"]].type = "VIDEO"
PlayingIsThere == \A m \in {"AUDIO", "VIDEO"} : playing[m] \in 0 .. Len(mediaRequests)
ShownIsThere == mediaStep = "drop" =>
    /\ shown \in 1 .. Len(mediaRequests)
    /\ mediaRequests[shown].type = "IMAGE"
    /\ mediaRequests[shown].state \in {"FINISHED", "FAILED_TO_PLAY"}

MediaInv ==
    /\ MediaTypeOK
    /\ PlayedInOrder /\ DroppedForAnother
    /\ AudioPlays /\ VideoIsOne /\ PlayingIsThere /\ ShownIsThere

LEMMA TurnsAreKept ==
    ASSUME MediaTypeOK, PlayedInOrder, RequestsGoOn
    PROVE  PlayedInOrder'
<1> SUFFICES ASSUME NEW i \in 1 .. Len(mediaRequests'), NEW j \in 1 .. Len(mediaRequests'), i < j,
                    mediaRequests'[i].type = mediaRequests'[j].type, mediaRequests'[i].type # "IMAGE",
                    mediaRequests'[j].state # "ENQUEUED", mediaRequests'[i].state = "ENQUEUED"
             PROVE FALSE
  BY DEF PlayedInOrder
<1>1. Len(mediaRequests) \in Nat /\ Len(mediaRequests') \in Nat
  BY DEF MediaTypeOK, RequestsGoOn, MediaRows
<1>2. i \in 1 .. Len(mediaRequests) /\ j \in 1 .. Len(mediaRequests)
  BY <1>1 DEF RequestsGoOn
<1>3. mediaRequests[i].state = "ENQUEUED"
  BY <1>2 DEF RequestsGoOn
<1> QED
  BY <1>2, <1>3 DEF RequestsGoOn, PlayedInOrder

LEMMA DropsAreKept ==
    ASSUME MediaTypeOK, DroppedForAnother, RequestsGoOn, NothingIsDropped
    PROVE  DroppedForAnother'
<1>1. Len(mediaRequests) \in Nat /\ Len(mediaRequests') \in Nat
  BY DEF MediaTypeOK, RequestsGoOn, MediaRows
<1> SUFFICES ASSUME NEW i \in 1 .. Len(mediaRequests'), mediaRequests'[i].state = "DROPPED"
             PROVE /\ mediaRequests'[i].type = "IMAGE"
                   /\ \E j \in 1 .. Len(mediaRequests') : mediaRequests'[j].type = "IMAGE" /\ mediaRequests'[j].state \in {"FINISHED", "FAILED_TO_PLAY"}
  BY DEF DroppedForAnother
<1>2. i \in 1 .. Len(mediaRequests) /\ mediaRequests[i].state = "DROPPED"
  BY DEF NothingIsDropped
<1>3. PICK j \in 1 .. Len(mediaRequests) : mediaRequests[j].type = "IMAGE" /\ mediaRequests[j].state \in {"FINISHED", "FAILED_TO_PLAY"}
  BY <1>2 DEF DroppedForAnother
<1>4. mediaRequests'[j] = mediaRequests[j] /\ j \in 1 .. Len(mediaRequests')
  BY <1>1, <1>3 DEF RequestsGoOn
<1> QED
  BY <1>2, <1>3, <1>4 DEF DroppedForAnother, RequestsGoOn

\* What a start leaves of the requests, p being the one that was just finished, 0
\* for none.
StartedRow(m, rows, o) ==
    \/ mediaRequests' = rows /\ o.current = 0
    \/ \E i \in 1 .. Len(rows) :
         /\ IsNext(rows, m, i)
         /\ mediaRequests[i] = [type |-> m, state |-> "ENQUEUED"]
         /\ \A j \in 1 .. Len(rows) : j # i => mediaRequests'[j] = rows[j]
         /\ \/ mediaRequests'[i] = [type |-> m, state |-> "PLAYING"] /\ o.current = i
            \/ /\ mediaRequests'[i] = [type |-> m, state |-> "FAILED_TO_PLAY"]
               /\ o.current \in {0, i} /\ (m = "AUDIO" => o.current = 0)

LEMMA StartGoesOn ==
    ASSUME MediaInv, MediaAssumption, NEW m \in {"AUDIO", "VIDEO"}, NEW rows \in MediaRows, Len(rows) = Len(mediaRequests),
           NEW p \in 0 .. Len(rows), \A i \in 1 .. Len(rows) : i # p => rows[i] = mediaRequests[i],
           p # 0 => mediaRequests[p].state = "PLAYING" /\ rows[p] = [type |-> mediaRequests[p].type, state |-> "FINISHED"],
           NEW o \in StartNext(m, rows), Started(o)
    PROVE  /\ StartedRow(m, rows, o)
           /\ RequestsGoOn /\ NothingIsDropped
           /\ Len(mediaRequests') = Len(mediaRequests) /\ mediaFaults' \in 0 .. MaxMediaFaults
<1>1. Len(rows) \in Nat /\ \A i \in 1 .. Len(rows) : rows[i] \in MediaRow /\ mediaRequests[i] \in MediaRow
  <2>1. mediaRequests \in MediaRows
    BY DEF MediaRows, MediaInv, MediaTypeOK, MediaRow
  <2> QED
    BY <2>1 DEF MediaRows
<1>2. mediaFaults \in 0 .. MaxMediaFaults /\ Len(mediaRequests) <= MaxRequests
  BY DEF MediaInv, MediaTypeOK
<1>3. o.failed \in BOOLEAN /\ (o.failed => mediaFaults < MaxMediaFaults)
  BY <1>2, StartingOne
<1>4. mediaFaults' \in 0 .. MaxMediaFaults
  BY <1>2, <1>3, MediaAssumption DEF Started, MediaAssumption
<1>5. mediaRequests' = o.rows
  BY DEF Started
<1>6. CASE o.rows = rows /\ o.current = 0
  <2>1. mediaRequests' = rows
    BY <1>5, <1>6
  <2>2. StartedRow(m, rows, o)
    BY <2>1, <1>6 DEF StartedRow
  <2>3. \A i \in 1 .. Len(rows) : i = p => p # 0
    BY <1>1
  <2>4. RequestsGoOn
    BY <2>1, <2>3, <1>1, <1>2 DEF RequestsGoOn, MediaRow
  <2>5. NothingIsDropped
    BY <2>1, <2>3, <1>1 DEF NothingIsDropped, MediaRow
  <2> QED
    BY <2>1, <2>2, <2>4, <2>5, <1>4
<1>7. CASE ~(o.rows = rows /\ o.current = 0)
  <2>1. PICK i \in 1 .. Len(rows) :
           /\ IsNext(rows, m, i)
           /\ \/ o.rows = SetTo(rows, i, "PLAYING") /\ o.current = i
              \/ o.rows = SetTo(rows, i, "FAILED_TO_PLAY") /\ o.current \in {0, i} /\ (m = "AUDIO" => o.current = 0)
    BY <1>2, <1>7, StartingOne
  <2>2. PICK s \in {"PLAYING", "FAILED_TO_PLAY"} :
           /\ mediaRequests' = SetTo(rows, i, s)
           /\ s = "PLAYING" => o.current = i
           /\ s = "FAILED_TO_PLAY" => o.current \in {0, i} /\ (m = "AUDIO" => o.current = 0)
    BY <2>1, <1>5
  <2>3. s \in RequestStates
    BY DEF RequestStates
  <2>4. rows[i] = [type |-> m, state |-> "ENQUEUED"]
    BY <2>1 DEF IsNext
  <2>5. /\ mediaRequests' \in MediaRows /\ Len(mediaRequests') = Len(rows)
        /\ mediaRequests'[i] = [type |-> m, state |-> s]
        /\ \A j \in 1 .. Len(rows) : j # i => mediaRequests'[j] = rows[j]
    <3>1. rows[i].type = m
      BY <2>4
    <3> QED
      BY <2>2, <2>3, <3>1, SavingARow
  <2>6. i # p
    BY <2>4, <1>1
  <2>7. mediaRequests[i] = [type |-> m, state |-> "ENQUEUED"]
    BY <2>4, <2>6
  <2>8. StartedRow(m, rows, o)
    BY <2>1, <2>2, <2>5, <2>7 DEF StartedRow
  <2>9. \A j \in 1 .. Len(rows) : j = p => p # 0
    BY <1>1
  <2>10. \A j \in 1 .. Len(rows) : mediaRequests[j].type = m /\ j < i => mediaRequests[j].state # "ENQUEUED"
    <3> SUFFICES ASSUME NEW j \in 1 .. Len(rows), mediaRequests[j].type = m, j < i PROVE mediaRequests[j].state # "ENQUEUED"
      OBVIOUS
    <3>1. CASE j = p
      BY <3>1, <2>9
    <3>2. CASE j # p
      BY <3>2, <2>1 DEF IsNext
    <3> QED
      BY <3>1, <3>2
  <2>11. ASSUME NEW j \in 1 .. Len(rows)
         PROVE  /\ mediaRequests'[j].type = mediaRequests[j].type
                /\ mediaRequests[j].state \notin {"ENQUEUED", "PLAYING"} => mediaRequests'[j] = mediaRequests[j]
                /\ mediaRequests[j].state = "PLAYING" => mediaRequests'[j].state \in {"PLAYING", "FINISHED"}
                /\ mediaRequests[j].state = "ENQUEUED" /\ mediaRequests'[j].state # "ENQUEUED" => j = i
                /\ mediaRequests'[j].state = "DROPPED" => mediaRequests[j].state = "DROPPED"
    <3>1. CASE j = i
      BY <3>1, <2>5, <2>7
    <3>2. CASE j = p
      BY <3>2, <2>5, <2>6, <2>9
    <3>3. CASE j # i /\ j # p
      BY <3>3, <2>5
    <3> QED
      BY <3>1, <3>2, <3>3
  <2>12. RequestsGoOn
    BY <2>5, <2>7, <2>10, <2>11, <1>1, <1>2 DEF RequestsGoOn
  <2>13. NothingIsDropped
    BY <2>5, <2>11, <1>1 DEF NothingIsDropped
  <2> QED
    BY <2>5, <2>8, <2>12, <2>13, <1>4
<1> QED
  BY <1>6, <1>7

\* The step that starts the next request of a type with nothing finished before.
LEMMA PlayingNextKeeps ==
    ASSUME MediaInv, MediaAssumption, NEW m \in {"AUDIO", "VIDEO"}, PlayNext(m)
    PROVE  /\ RequestsGoOn /\ NothingIsDropped
           /\ mediaFaults' \in 0 .. MaxMediaFaults
           /\ playing' \in [{"AUDIO", "VIDEO"} -> 0 .. MaxRequests]
           /\ AudioPlays' /\ VideoIsOne' /\ PlayingIsThere'
<1>1. PICK o \in StartNext(m, mediaRequests) :
         /\ Started(o)
         /\ playing' = IF o.current = 0 THEN playing ELSE [playing EXCEPT ![m] = o.current]
  BY DEF PlayNext
<1>2. mediaRequests \in MediaRows /\ 0 \in 0 .. Len(mediaRequests) /\ Len(mediaRequests) \in Nat
  BY DEF MediaInv, MediaTypeOK, MediaRows, MediaRow
<1>3. /\ StartedRow(m, mediaRequests, o)
      /\ RequestsGoOn /\ NothingIsDropped
      /\ Len(mediaRequests') = Len(mediaRequests) /\ mediaFaults' \in 0 .. MaxMediaFaults
  <2>1. \A i \in 1 .. Len(mediaRequests) : i # 0 => mediaRequests[i] = mediaRequests[i]
    OBVIOUS
  <2> QED
    BY <1>1, <1>2, <2>1, StartGoesOn
<1>4. /\ playing \in [{"AUDIO", "VIDEO"} -> 0 .. Len(mediaRequests)] /\ Len(mediaRequests) <= MaxRequests
      /\ AudioPlays /\ VideoIsOne
  BY DEF MediaInv, MediaTypeOK, PlayingIsThere
<1>5. CASE mediaRequests' = mediaRequests /\ o.current = 0
  <2>1. playing' = playing
    BY <1>1, <1>5
  <2> QED
    BY <2>1, <1>2, <1>3, <1>4, <1>5, MediaAssumption DEF AudioPlays, VideoIsOne, PlayingIsThere, MediaAssumption
<1>6. CASE ~(mediaRequests' = mediaRequests /\ o.current = 0)
  <2>1. PICK i \in 1 .. Len(mediaRequests) :
         /\ IsNext(mediaRequests, m, i)
         /\ mediaRequests[i] = [type |-> m, state |-> "ENQUEUED"]
         /\ \A j \in 1 .. Len(mediaRequests) : j # i => mediaRequests'[j] = mediaRequests[j]
         /\ \/ mediaRequests'[i] = [type |-> m, state |-> "PLAYING"] /\ o.current = i
            \/ /\ mediaRequests'[i] = [type |-> m, state |-> "FAILED_TO_PLAY"]
               /\ o.current \in {0, i} /\ (m = "AUDIO" => o.current = 0)
    BY <1>3, <1>6 DEF StartedRow
  <2>2. /\ playing' \in [{"AUDIO", "VIDEO"} -> 0 .. Len(mediaRequests)]
        /\ playing'[m] \in {playing[m], i}
        /\ m = "AUDIO" => playing'["VIDEO"] = playing["VIDEO"]
        /\ m = "VIDEO" => playing'["AUDIO"] = playing["AUDIO"]
        /\ o.current = 0 => playing' = playing
        /\ o.current = i => playing'[m] = i
    BY <1>1, <1>4, <2>1
  <2>3. ASSUME NEW j \in 1 .. Len(mediaRequests) PROVE mediaRequests'[j].type = mediaRequests[j].type
    BY <2>1
  <2>4. VideoIsOne'
    <3>1. CASE m = "AUDIO"
      BY <3>1, <2>2, <2>3, <1>4 DEF VideoIsOne
    <3>2. CASE m = "VIDEO"
      BY <3>2, <2>1, <2>2, <2>3, <1>4 DEF VideoIsOne
    <3> QED
      BY <3>1, <3>2
  <2>5. AudioPlays'
    <3> SUFFICES ASSUME NEW j \in 1 .. Len(mediaRequests)
                 PROVE mediaRequests'[j] = [type |-> "AUDIO", state |-> "PLAYING"] <=> j = playing'["AUDIO"]
      BY <1>3 DEF AudioPlays
    <3>1. CASE m = "VIDEO"
      <4>1. mediaRequests'[i].type = "VIDEO" /\ mediaRequests[i].type = "VIDEO" /\ playing'["AUDIO"] = playing["AUDIO"]
        BY <3>1, <2>1, <2>2
      <4>2. mediaRequests[playing["AUDIO"]].type = "AUDIO" \/ playing["AUDIO"] = 0
        BY <1>4 DEF AudioPlays
      <4> QED
        BY <4>1, <4>2, <2>1, <1>4 DEF AudioPlays
    <3>2. CASE m = "AUDIO"
      <4>1. \A k \in 1 .. Len(mediaRequests) : mediaRequests[k] # [type |-> "AUDIO", state |-> "PLAYING"]
        BY <3>2, <2>1 DEF IsNext
      <4>2. playing["AUDIO"] = 0
        BY <4>1, <1>4 DEF AudioPlays
      <4>3. CASE mediaRequests'[i] = [type |-> m, state |-> "PLAYING"] /\ o.current = i
        BY <4>1, <4>3, <3>2, <2>1, <2>2
      <4>4. CASE mediaRequests'[i] = [type |-> m, state |-> "FAILED_TO_PLAY"] /\ o.current = 0
        BY <4>1, <4>2, <4>4, <3>2, <2>1, <2>2, <1>2
      <4> QED
        BY <4>3, <4>4, <3>2, <2>1
    <3> QED
      BY <3>1, <3>2
  <2>6. PlayingIsThere'
    BY <2>2, <1>3 DEF PlayingIsThere
  <2> QED
    BY <2>2, <2>4, <2>5, <2>6, <1>2, <1>3, <1>4, MediaAssumption DEF MediaAssumption
<1> QED
  BY <1>5, <1>6

\* The monitors: what played is finished, and the next one of its type started.
LEMMA FinishingKeeps ==
    ASSUME MediaInv, MediaAssumption, NEW m \in {"AUDIO", "VIDEO"}, playing[m] # 0,
           mediaRequests[playing[m]].state = "PLAYING",
           NEW o \in StartNext(m, Finished(m)), Started(o),
           playing' = [playing EXCEPT ![m] = IF m = "AUDIO" THEN o.current ELSE 0]
    PROVE  /\ RequestsGoOn /\ NothingIsDropped
           /\ mediaFaults' \in 0 .. MaxMediaFaults
           /\ playing' \in [{"AUDIO", "VIDEO"} -> 0 .. MaxRequests]
           /\ AudioPlays' /\ VideoIsOne' /\ PlayingIsThere'
<1> DEFINE rows == Finished(m)
<1> DEFINE p == playing[m]
<1>1. mediaRequests \in MediaRows /\ Len(mediaRequests) \in Nat /\ Len(mediaRequests) <= MaxRequests
  BY DEF MediaInv, MediaTypeOK, MediaRows, MediaRow
<1>2. /\ playing \in [{"AUDIO", "VIDEO"} -> 0 .. Len(mediaRequests)]
      /\ AudioPlays /\ VideoIsOne
  BY DEF MediaInv, MediaTypeOK, PlayingIsThere
<1>3. p \in 1 .. Len(mediaRequests) /\ p # 0
  BY <1>1, <1>2
<1>4. "FINISHED" \in RequestStates
  BY DEF RequestStates
<1>5. rows = SetTo(mediaRequests, p, "FINISHED")
  BY DEF Finished
<1>6. mediaRequests[p].state = "PLAYING" /\ playing[m] = p /\ o \in StartNext(m, rows)
  OBVIOUS
<1> HIDE DEF rows, p
<1>7. /\ rows \in MediaRows /\ Len(rows) = Len(mediaRequests)
      /\ rows[p] = [type |-> mediaRequests[p].type, state |-> "FINISHED"]
      /\ \A j \in 1 .. Len(mediaRequests) : j # p => rows[j] = mediaRequests[j]
  BY <1>1, <1>3, <1>4, <1>5, SavingARow
<1>8. p \in 0 .. Len(rows)
  BY <1>1, <1>3, <1>7
<1>9. /\ StartedRow(m, rows, o)
      /\ RequestsGoOn /\ NothingIsDropped
      /\ Len(mediaRequests') = Len(mediaRequests) /\ mediaFaults' \in 0 .. MaxMediaFaults
  BY <1>6, <1>7, <1>8, StartGoesOn
<1>10. mediaRequests[p].type = m
  <2>1. m = "AUDIO" => mediaRequests[p] = [type |-> "AUDIO", state |-> "PLAYING"]
    BY <1>2, <1>3, <1>6 DEF AudioPlays
  <2> QED
    BY <2>1, <1>2, <1>3, <1>6 DEF VideoIsOne
<1>11. /\ playing'[m] = IF m = "AUDIO" THEN o.current ELSE 0
       /\ m = "AUDIO" => playing'["VIDEO"] = playing["VIDEO"]
       /\ m = "VIDEO" => playing'["AUDIO"] = playing["AUDIO"]
       /\ DOMAIN playing' = {"AUDIO", "VIDEO"}
  BY <1>2
<1>12. o.current \in 0 .. Len(mediaRequests)
  BY <1>1, <1>7, <1>9 DEF StartedRow
<1>13. playing' \in [{"AUDIO", "VIDEO"} -> 0 .. Len(mediaRequests)]
  BY <1>1, <1>2, <1>12
<1>14. \A j \in 1 .. Len(mediaRequests) : mediaRequests'[j].type = mediaRequests[j].type
  BY <1>9 DEF RequestsGoOn
<1>15. VideoIsOne'
  BY <1>1, <1>2, <1>11, <1>14 DEF VideoIsOne
<1>16. AudioPlays'
  <2> SUFFICES ASSUME NEW j \in 1 .. Len(mediaRequests)
               PROVE mediaRequests'[j] = [type |-> "AUDIO", state |-> "PLAYING"] <=> j = playing'["AUDIO"]
    BY <1>9 DEF AudioPlays
  <2>1. CASE mediaRequests' = rows /\ o.current = 0
    <3>1. CASE m = "AUDIO"
      BY <3>1, <2>1, <1>1, <1>2, <1>6, <1>7, <1>10, <1>11 DEF AudioPlays
    <3>2. CASE m = "VIDEO"
      <4>1. playing["AUDIO"] # p
        BY <3>2, <1>2, <1>3, <1>10 DEF AudioPlays
      <4> QED
        BY <4>1, <3>2, <2>1, <1>2, <1>7, <1>10, <1>11 DEF AudioPlays
    <3> QED
      BY <3>1, <3>2
  <2>2. CASE ~(mediaRequests' = rows /\ o.current = 0)
    <3>1. PICK i \in 1 .. Len(rows) :
         /\ IsNext(rows, m, i)
         /\ mediaRequests[i] = [type |-> m, state |-> "ENQUEUED"]
         /\ \A k \in 1 .. Len(rows) : k # i => mediaRequests'[k] = rows[k]
         /\ \/ mediaRequests'[i] = [type |-> m, state |-> "PLAYING"] /\ o.current = i
            \/ /\ mediaRequests'[i] = [type |-> m, state |-> "FAILED_TO_PLAY"]
               /\ o.current \in {0, i} /\ (m = "AUDIO" => o.current = 0)
      BY <2>2, <1>9 DEF StartedRow
    <3>2. CASE m = "AUDIO"
      <4>1. \A k \in 1 .. Len(mediaRequests) : rows[k] # [type |-> "AUDIO", state |-> "PLAYING"]
        BY <3>1, <3>2, <1>7 DEF IsNext
      <4> QED
        BY <4>1, <3>1, <3>2, <1>7, <1>11, <1>1
    <3>3. CASE m = "VIDEO"
      <4>1. playing["AUDIO"] # p
        BY <3>3, <1>2, <1>3, <1>10 DEF AudioPlays
      <4>2. mediaRequests[playing["AUDIO"]].type = "AUDIO" \/ playing["AUDIO"] = 0
        BY <1>2 DEF AudioPlays
      <4>3. mediaRequests'[i].type = "VIDEO" /\ mediaRequests[i].type = "VIDEO"
        BY <3>1, <3>3
      <4>4. mediaRequests'[p].type = "VIDEO"
        BY <1>3, <1>10, <1>14, <3>3
      <4> QED
        BY <4>1, <4>2, <4>3, <4>4, <3>1, <3>3, <1>2, <1>7, <1>11 DEF AudioPlays
    <3> QED
      BY <3>2, <3>3
  <2> QED
    BY <2>1, <2>2
<1>17. PlayingIsThere'
  BY <1>9, <1>13 DEF PlayingIsThere
<1> QED
  BY <1>1, <1>9, <1>13, <1>15, <1>16, <1>17, MediaAssumption DEF MediaAssumption

\* What remains to be seen of a step that keeps these.
LEMMA MediaParts ==
    ASSUME MediaInv, RequestsGoOn, NothingIsDropped,
           mediaCommand' \in BOOLEAN, alive' \in BOOLEAN,
           mediaStep' \in {"idle", "audio", "image", "drop", "video"}, shown' \in 0 .. MaxRequests,
           mediaFaults' \in 0 .. MaxMediaFaults, playing' \in [{"AUDIO", "VIDEO"} -> 0 .. MaxRequests],
           AudioPlays', VideoIsOne', PlayingIsThere', ShownIsThere'
    PROVE  MediaInv'
<1>1. MediaTypeOK /\ PlayedInOrder /\ DroppedForAnother
  BY DEF MediaInv
<1>2. MediaTypeOK'
  BY DEF MediaTypeOK, RequestsGoOn, MediaRows, MediaRow
<1>3. PlayedInOrder' /\ DroppedForAnother'
  BY <1>1, TurnsAreKept, DropsAreKept
<1> QED
  BY <1>2, <1>3 DEF MediaInv

LEMMA CreatingKeeps == ASSUME MediaInv, NEW m \in MediaTypes, CreateRequest(m) PROVE MediaInv'
<1>1. /\ mediaRequests \in MediaRows /\ Len(mediaRequests) \in Nat /\ Len(mediaRequests) < MaxRequests
      /\ MaxRequests \in Nat
      /\ playing \in [{"AUDIO", "VIDEO"} -> 0 .. Len(mediaRequests)]
      /\ alive \in BOOLEAN /\ mediaStep \in {"idle", "audio", "image", "drop", "video"}
      /\ shown \in 0 .. MaxRequests /\ mediaFaults \in 0 .. MaxMediaFaults
  BY MediaAssumption DEF MediaInv, MediaTypeOK, MediaRows, MediaRow, CreateRequest, PlayingIsThere, MediaAssumption
<1>2. AudioPlays /\ VideoIsOne /\ ShownIsThere
  BY DEF MediaInv
<1>3. [type |-> m, state |-> "ENQUEUED"] \in MediaRow
  BY DEF MediaRow, RequestStates
<1>4. /\ mediaRequests' \in MediaRows /\ Len(mediaRequests') = Len(mediaRequests) + 1
      /\ \A i \in 1 .. Len(mediaRequests) : mediaRequests'[i] = mediaRequests[i]
      /\ mediaRequests'[Len(mediaRequests) + 1] = [type |-> m, state |-> "ENQUEUED"]
  BY <1>1, <1>3 DEF CreateRequest, MediaRows
<1>5. RequestsGoOn
  BY <1>1, <1>4 DEF RequestsGoOn
<1>6. NothingIsDropped
  BY <1>1, <1>4 DEF NothingIsDropped
<1>7. /\ mediaCommand' \in BOOLEAN /\ alive' = alive /\ mediaStep' = mediaStep /\ shown' = shown
      /\ mediaFaults' = mediaFaults /\ playing' = playing
  BY DEF CreateRequest
<1>8. AudioPlays'
  BY <1>1, <1>2, <1>4, <1>7 DEF AudioPlays
<1>9. VideoIsOne'
  BY <1>1, <1>2, <1>4, <1>7 DEF VideoIsOne
<1>10. PlayingIsThere'
  BY <1>1, <1>4, <1>7 DEF PlayingIsThere
<1>11. ShownIsThere'
  BY <1>1, <1>2, <1>4, <1>7 DEF ShownIsThere
<1>12. playing \in [{"AUDIO", "VIDEO"} -> 0 .. MaxRequests]
  BY <1>1
<1> QED
  BY <1>1, <1>5, <1>6, <1>7, <1>8, <1>9, <1>10, <1>11, <1>12, MediaParts

\* Steps that leave the requests and what is played as they are.
LEMMA QuietlyKept ==
    ASSUME MediaInv, UNCHANGED <<mediaRequests, shown, playing, mediaFaults>>, mediaCommand' \in BOOLEAN, alive' \in BOOLEAN,
           mediaStep' \in {"idle", "audio", "image", "drop", "video"}, mediaStep' = "drop" => mediaStep = "drop"
    PROVE  MediaInv'
BY DEF MediaInv, MediaTypeOK, PlayedInOrder, DroppedForAnother, AudioPlays, VideoIsOne, PlayingIsThere, ShownIsThere

LEMMA ShowingKeeps == ASSUME MediaInv, ShowImage PROVE MediaInv'
<1> DEFINE waiting == InState("IMAGE", "ENQUEUED")
<1>1. /\ mediaRequests \in MediaRows /\ Len(mediaRequests) \in Nat /\ Len(mediaRequests) <= MaxRequests
      /\ playing \in [{"AUDIO", "VIDEO"} -> 0 .. MaxRequests]
      /\ alive \in BOOLEAN /\ mediaCommand \in BOOLEAN /\ mediaFaults \in 0 .. MaxMediaFaults
  BY DEF MediaInv, MediaTypeOK, MediaRows, MediaRow
<1>2. AudioPlays /\ VideoIsOne /\ PlayingIsThere
  BY DEF MediaInv
<1>3. UNCHANGED <<mediaCommand, playing, alive>>
  BY DEF ShowImage
<1>4. CASE waiting = {}
  BY <1>1, <1>3, <1>4, QuietlyKept DEF ShowImage
<1>5. CASE waiting # {}
  <2> DEFINE i == Newest(waiting)
  <2>1. PICK s \in {"FINISHED", "FAILED_TO_PLAY"} :
          /\ mediaStep' = "drop" /\ shown' = i
          /\ mediaRequests' = SetTo(mediaRequests, i, s)
          /\ mediaFaults' \in 0 .. MaxMediaFaults
    BY <1>1, <1>5, MediaAssumption DEF ShowImage, MediaAssumption
  <2>2. waiting \in SUBSET (1 .. Len(mediaRequests))
    BY DEF InState
  <2>3. i \in waiting
    BY <1>1, <1>5, <2>2, FirstAndLast
  <2>4. i \in 1 .. Len(mediaRequests) /\ mediaRequests[i] = [type |-> "IMAGE", state |-> "ENQUEUED"]
    BY <2>3 DEF InState
  <2>5. shown' = i /\ mediaRequests' = SetTo(mediaRequests, i, s)
    BY <2>1
  <2> HIDE DEF i
  <2>6. s \in RequestStates
    BY DEF RequestStates
  <2>7. /\ mediaRequests' \in MediaRows /\ Len(mediaRequests') = Len(mediaRequests)
        /\ mediaRequests'[i] = [type |-> mediaRequests[i].type, state |-> s]
        /\ \A j \in 1 .. Len(mediaRequests) : j # i => mediaRequests'[j] = mediaRequests[j]
    BY <1>1, <2>4, <2>5, <2>6, SavingARow
  <2>8. mediaRequests'[i] = [type |-> "IMAGE", state |-> s]
    BY <2>4, <2>7
  <2>9. RequestsGoOn
    BY <1>1, <2>4, <2>7, <2>8 DEF RequestsGoOn
  <2>10. NothingIsDropped
    BY <1>1, <2>4, <2>7, <2>8 DEF NothingIsDropped
  <2>11. AudioPlays'
    BY <1>1, <1>2, <1>3, <2>4, <2>7, <2>8 DEF AudioPlays
  <2>12. VideoIsOne'
    BY <1>1, <1>2, <1>3, <2>4, <2>7, <2>8 DEF VideoIsOne, PlayingIsThere
  <2>13. PlayingIsThere'
    BY <1>2, <1>3, <2>7 DEF PlayingIsThere
  <2>14. ShownIsThere'
    BY <2>4, <2>5, <2>7, <2>8 DEF ShownIsThere
  <2>15. shown' \in 0 .. MaxRequests
    BY <1>1, <2>4, <2>5, MediaAssumption DEF MediaAssumption
  <2> QED
    BY <1>1, <1>3, <2>1, <2>9, <2>10, <2>11, <2>12, <2>13, <2>14, <2>15, MediaParts
<1> QED
  BY <1>4, <1>5

LEMMA DroppingKeeps == ASSUME MediaInv, DropImages PROVE MediaInv'
<1> DEFINE D == InState("IMAGE", "ENQUEUED") \ {shown}
<1>1. /\ mediaRequests \in MediaRows /\ Len(mediaRequests) \in Nat /\ Len(mediaRequests) <= MaxRequests
      /\ playing \in [{"AUDIO", "VIDEO"} -> 0 .. MaxRequests] /\ shown \in 0 .. MaxRequests
      /\ alive \in BOOLEAN /\ mediaCommand \in BOOLEAN /\ mediaFaults \in 0 .. MaxMediaFaults
  BY DEF MediaInv, MediaTypeOK, MediaRows, MediaRow
<1>2. AudioPlays /\ VideoIsOne /\ PlayingIsThere /\ PlayedInOrder /\ DroppedForAnother
  BY DEF MediaInv
<1>3. UNCHANGED <<mediaCommand, shown, playing, alive, mediaFaults>> /\ mediaStep' = "video"
  BY DEF DropImages
<1>4. /\ shown \in 1 .. Len(mediaRequests)
      /\ mediaRequests[shown].type = "IMAGE"
      /\ mediaRequests[shown].state \in {"FINISHED", "FAILED_TO_PLAY"}
  BY DEF MediaInv, ShownIsThere, DropImages
<1>5. \A i \in D : i \in 1 .. Len(mediaRequests) /\ mediaRequests[i] = [type |-> "IMAGE", state |-> "ENQUEUED"] /\ i # shown
  BY DEF InState
<1>6. mediaRequests' = [i \in 1 .. Len(mediaRequests) |->
                          IF i \in D THEN [mediaRequests[i] EXCEPT !.state = "DROPPED"] ELSE mediaRequests[i]]
  BY DEF DropImages
<1> HIDE DEF D
<1>7. \A i \in 1 .. Len(mediaRequests) :
         /\ i \in D => mediaRequests'[i] = [type |-> "IMAGE", state |-> "DROPPED"]
         /\ i \notin D => mediaRequests'[i] = mediaRequests[i]
  BY <1>5, <1>6
<1>8. \A i \in 1 .. Len(mediaRequests) : mediaRequests'[i] \in MediaRow
  <2>1. [type |-> "IMAGE", state |-> "DROPPED"] \in MediaRow
    BY DEF MediaRow, MediaTypes, RequestStates
  <2> QED
    BY <1>1, <1>7, <2>1 DEF MediaRows
<1>9. mediaRequests' \in MediaRows /\ Len(mediaRequests') = Len(mediaRequests)
  BY <1>1, <1>6, <1>8 DEF MediaRows
<1>10. RequestsGoOn
  BY <1>1, <1>5, <1>7, <1>9 DEF RequestsGoOn
<1>11. PlayedInOrder'
  BY <1>2, <1>10, TurnsAreKept DEF MediaInv
<1>12. DroppedForAnother'
  <2>1. mediaRequests'[shown] = mediaRequests[shown]
    BY <1>4, <1>5, <1>7
  <2> QED
    BY <1>2, <1>4, <1>7, <1>9, <2>1 DEF DroppedForAnother
<1>13. AudioPlays'
  BY <1>2, <1>3, <1>5, <1>7, <1>9 DEF AudioPlays
<1>14. VideoIsOne'
  <2>1. \A i \in 1 .. Len(mediaRequests) : mediaRequests'[i].type = mediaRequests[i].type
    BY <1>5, <1>7
  <2> QED
    BY <2>1, <1>1, <1>2, <1>3 DEF VideoIsOne, PlayingIsThere
<1>15. PlayingIsThere'
  BY <1>2, <1>3, <1>9 DEF PlayingIsThere
<1>16. ShownIsThere'
  BY <1>3 DEF ShownIsThere
<1>17. MediaTypeOK'
  BY <1>1, <1>3, <1>9 DEF MediaTypeOK, MediaRows, MediaRow
<1> QED
  BY <1>11, <1>12, <1>13, <1>14, <1>15, <1>16, <1>17 DEF MediaInv

LEMMA PlayingStepsKeep == ASSUME MediaInv, PlayAudio \/ PlayVideo PROVE MediaInv'
<1>1. PICK m \in {"AUDIO", "VIDEO"} : PlayNext(m)
  BY DEF PlayAudio, PlayVideo
<1>2. /\ UNCHANGED <<mediaCommand, shown, alive>>
      /\ mediaStep' \in {"image", "idle"}
  BY DEF PlayAudio, PlayVideo
<1>3. mediaCommand \in BOOLEAN /\ alive \in BOOLEAN /\ shown \in 0 .. MaxRequests
  BY DEF MediaInv, MediaTypeOK
<1>4. ShownIsThere'
  BY <1>2 DEF ShownIsThere
<1>5. /\ RequestsGoOn /\ NothingIsDropped
      /\ mediaFaults' \in 0 .. MaxMediaFaults
      /\ playing' \in [{"AUDIO", "VIDEO"} -> 0 .. MaxRequests]
      /\ AudioPlays' /\ VideoIsOne' /\ PlayingIsThere'
  BY <1>1, MediaAssumption, PlayingNextKeeps
<1> QED
  BY <1>2, <1>3, <1>4, <1>5, MediaParts

LEMMA MonitorsKeep == ASSUME MediaInv, AudioFinished \/ VideoFinished PROVE MediaInv'
<1>1. /\ UNCHANGED <<mediaCommand, shown, alive>>
      /\ mediaStep' = "idle"
  BY DEF AudioFinished, VideoFinished
<1>2. mediaCommand \in BOOLEAN /\ alive \in BOOLEAN /\ shown \in 0 .. MaxRequests
  BY DEF MediaInv, MediaTypeOK
<1>3. ShownIsThere'
  BY <1>1 DEF ShownIsThere
<1>4. playing["AUDIO"] # 0 => mediaRequests[playing["AUDIO"]].state = "PLAYING"
  <2>1. playing["AUDIO"] \in 0 .. Len(mediaRequests) /\ Len(mediaRequests) \in Nat
    BY DEF MediaInv, PlayingIsThere, MediaTypeOK
  <2> QED
    BY <2>1 DEF MediaInv, AudioPlays
<1>5. PICK m \in {"AUDIO", "VIDEO"} :
        /\ playing[m] # 0 /\ mediaRequests[playing[m]].state = "PLAYING"
        /\ \E o \in StartNext(m, Finished(m)) :
             Started(o) /\ playing' = [playing EXCEPT ![m] = IF m = "AUDIO" THEN o.current ELSE 0]
  <2>1. CASE AudioFinished
    BY <2>1, <1>4 DEF AudioFinished
  <2>2. CASE VideoFinished
    BY <2>2 DEF VideoFinished
  <2> QED
    BY <2>1, <2>2
<1>6. PICK o \in StartNext(m, Finished(m)) :
        Started(o) /\ playing' = [playing EXCEPT ![m] = IF m = "AUDIO" THEN o.current ELSE 0]
  BY <1>5
<1>7. /\ RequestsGoOn /\ NothingIsDropped
      /\ mediaFaults' \in 0 .. MaxMediaFaults
      /\ playing' \in [{"AUDIO", "VIDEO"} -> 0 .. MaxRequests]
      /\ AudioPlays' /\ VideoIsOne' /\ PlayingIsThere'
  BY <1>5, <1>6, MediaAssumption, FinishingKeeps
<1> QED
  BY <1>1, <1>2, <1>3, <1>7, MediaParts

LEMMA MediaInitially == MediaInit => MediaInv
<1> SUFFICES ASSUME MediaInit PROVE MediaInv
  OBVIOUS
<1>1. Len(mediaRequests) = 0 /\ mediaRequests \in Seq([type : MediaTypes, state : RequestStates])
  BY DEF MediaInit
<1>2. MediaTypeOK
  <2>1. 0 \in 0 .. MaxRequests /\ 0 \in 0 .. MaxMediaFaults /\ Len(mediaRequests) <= MaxRequests
    BY <1>1, MediaAssumption DEF MediaAssumption
  <2>2. playing \in [{"AUDIO", "VIDEO"} -> 0 .. MaxRequests]
    BY <2>1 DEF MediaInit
  <2> QED
    BY <1>1, <2>1, <2>2 DEF MediaInit, MediaTypeOK
<1> QED
  BY <1>1, <1>2 DEF MediaInit, MediaInv, PlayedInOrder, DroppedForAnother, AudioPlays, VideoIsOne, PlayingIsThere, ShownIsThere

LEMMA MediaInductive == MediaInv /\ [MediaNext]_mediaVars => MediaInv'
<1> SUFFICES ASSUME MediaInv, [MediaNext]_mediaVars PROVE MediaInv'
  OBVIOUS
<1>1. mediaCommand \in BOOLEAN /\ alive \in BOOLEAN /\ mediaStep \in {"idle", "audio", "image", "drop", "video"}
  BY DEF MediaInv, MediaTypeOK
<1>2. CASE UNCHANGED mediaVars
  BY <1>1, <1>2, QuietlyKept DEF mediaVars
<1>3. CASE ReceiveMediaCommand
  BY <1>1, <1>3, QuietlyKept DEF ReceiveMediaCommand
<1>4. CASE FailedVideoFinished
  BY <1>1, <1>4, QuietlyKept DEF FailedVideoFinished
<1> QED
  BY <1>2, <1>3, <1>4, CreatingKeeps, ShowingKeeps, DroppingKeeps, PlayingStepsKeep, MonitorsKeep DEF MediaNext, MediaLoop

\* Whatever requests come while the main loop plays others, and whichever of them
\* fail, what is to be said is said in its turn, the audio manager knows what
\* plays, and an image gives way to another image only: the handlers and monitors
\* of BotMediaRequestManager's requests.
THEOREM RequestsPlayedInTurn == MediaSpec => []PlayedInTurn
<1>1. MediaInv => PlayedInTurn
  <2> SUFFICES ASSUME MediaInv PROVE PlayingIsMonitored
    BY DEF MediaInv, PlayedInTurn
  <2> QED
    BY DEF MediaInv, AudioPlays, PlayingIsMonitored, InState
<1> QED
  BY <1>1, MediaInitially, MediaInductive, PTL DEF MediaSpec

\* The rows of the requests, what plays and the main loop's place keep their types.
THEOREM MediaTypeCorrect == MediaSpec => []MediaTypeOK
<1>1. MediaInv => MediaTypeOK
  BY DEF MediaInv
<1> QED
  BY <1>1, MediaInitially, MediaInductive, PTL DEF MediaSpec
=============================================================================
