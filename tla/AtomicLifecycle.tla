--------------------------- MODULE AtomicLifecycle ---------------------------
(***************************************************************************)
(* What BotEventManager.create_event promises its callers: although many   *)
(* processes move the same bot, each event is applied in one indivisible   *)
(* step to the state the bot is in at that moment, together with its       *)
(* recording, its BotEvent row and its charge. BotLifecycle, where an      *)
(* event is a sequence of reads and writes, implements this specification. *)
(***************************************************************************)
EXTENDS Naturals, BotTransitions

CONSTANT Sessions  \* the session types a bot may be created with

ASSUME SessionsAssumption == Sessions \subseteq SessionTypes

VARIABLES
    session,      \* the session type of the bot, chosen when it is created
    state,        \* Bot.state
    hasHeartbeat, \* Bot.first_heartbeat_timestamp is set
    recording,    \* state of the bot's one recording
    lastEvent,    \* the latest BotEvent row
    charges       \* number of credit transactions made for the bot

rows == <<session, state, hasHeartbeat, recording, lastEvent, charges>>

RowsTypeOK ==
    /\ session \in Sessions
    /\ state \in States
    /\ hasHeartbeat \in BOOLEAN
    /\ recording \in RecordingStates
    /\ lastEvent \in EventRows \cup {NoEvent}
    /\ charges \in Nat

AtomicInit ==
    /\ session \in Sessions
    /\ state \in InitialStates(session)
    /\ hasHeartbeat = FALSE
    /\ recording = "NOT_STARTED"
    /\ lastEvent = NoEvent
    /\ charges = 0

\* One whole create_event that succeeds.
ApplyEvent(e) ==
    /\ state \in From(e)
    /\ CanResolveTarget(e, lastEvent)
    /\ LET new == Target(e, lastEvent) IN
         /\ state' = new
         /\ recording' \in RecordingsAfter(e, state, new, recording)
         /\ lastEvent' = [type |-> e, old |-> state, new |-> new]
         /\ charges' = IF IsCharged(e, state, new, hasHeartbeat)
                         THEN charges + 1 ELSE charges
    /\ UNCHANGED <<session, hasHeartbeat>>

\* One whole Bot.set_heartbeat.
SetHeartbeat ==
    /\ hasHeartbeat' = TRUE
    /\ UNCHANGED <<session, state, recording, lastEvent, charges>>

\* restart_bot_pod gives a bot that is still joining a new pod, and forgets that
\* the old one was alive.
ForgetHeartbeat ==
    /\ state = "JOINING"
    /\ hasHeartbeat' = FALSE
    /\ UNCHANGED <<session, state, recording, lastEvent, charges>>

AtomicNext == SetHeartbeat \/ ForgetHeartbeat \/ \E e \in RequestedFor(session) : ApplyEvent(e)

AtomicSpec == AtomicInit /\ [][AtomicNext]_rows

-----------------------------------------------------------------------------
\* The BotEvent rows form an unbroken chain: the latest one leads to the state
\* the bot is in, so no transition was recorded that did not happen and none
\* happened from a state that another caller had already left (create_event
\* writes old_state from its refresh and bot.state after the save).
EventLogMatchesState ==
    IF lastEvent = NoEvent THEN state \in InitialStates(session)
                           ELSE lastEvent.new = state

\* The states of the recording that each state of the bot allows.
AllowedRecordings(s) ==
  CASE s \in {"JOINED_RECORDING", "CONNECTED"} -> {"IN_PROGRESS"}
    [] s = "JOINED_RECORDING_PAUSED" -> {"PAUSED"}
    [] s = "JOINED_RECORDING_PERMISSION_DENIED" -> {"NOT_STARTED", "PAUSED"}
    [] s \in {"LEAVING", "POST_PROCESSING", "DISCONNECTING"} ->
           {"NOT_STARTED", "IN_PROGRESS", "PAUSED"}
    [] s \in PostMeetingStates -> {"NOT_STARTED", "COMPLETE", "FAILED"}
    [] OTHER -> {"NOT_STARTED"}

\* The recording is running exactly when the bot says it records: a paused, a
\* refused and a not yet admitted bot never has a recording in progress, an
\* ended one has none left open, and a trip to a breakout room, during which
\* the recording is left as it was, brings the bot back to a state that still
\* agrees with it (the hooks of create_event and terminate_recording).
RecordingMatchesState ==
    recording \in AllowedRecordings(IF state \in BreakoutStates THEN lastEvent.old ELSE state)

\* However many callers end the session at once, it is charged at most once,
\* only when it is over, and never for a bot that was not seen alive
\* (after_transition_to_post_meeting_state).
ChargedAtMostOnce ==
    /\ charges <= 1
    /\ charges = 1 => state \in PostMeetingStates /\ hasHeartbeat

\* What create_event keeps of a session, whoever creates its events: the log, the
\* recording and the charge all agree with the state.
RowsAgree == EventLogMatchesState /\ RecordingMatchesState /\ ChargedAtMostOnce

\* A session that is over stays over: no late event or heartbeat of a caller
\* that had read the row earlier reopens it, its recording, or its bill.
SessionEndsForGood ==
    [][(state \in PostMeetingStates) =>
         /\ state' \in PostMeetingStates
         /\ recording' = recording
         /\ charges' = charges]_rows
=============================================================================
