------------------------------ MODULE BotStates ------------------------------
(***************************************************************************)
(* The state graph of a bot: the states and event types of the Bot and     *)
(* BotEvent tables, the transition table of BotEventManager, and the       *)
(* effect a transition has on the bot's recording (src/bots/models.py).    *)
(* Nothing here changes state: BotTransitions says what one transition     *)
(* does, AtomicLifecycle and BotLifecycle say when it happens.             *)
(***************************************************************************)

\* The four states in which the bot is in the meeting room itself.
JoinedStates == {"JOINED_NOT_RECORDING", "JOINED_RECORDING",
                 "JOINED_RECORDING_PAUSED", "JOINED_RECORDING_PERMISSION_DENIED"}

\* On the way into, or out of, a breakout room.
BreakoutStates == {"JOINING_BREAKOUT_ROOM", "LEAVING_BREAKOUT_ROOM"}

AppSessionStates == {"CONNECTING", "CONNECTED", "DISCONNECTING"}

PostMeetingStates == {"FATAL_ERROR", "ENDED", "DATA_DELETED"}

States == JoinedStates \cup BreakoutStates \cup AppSessionStates \cup PostMeetingStates
            \cup {"READY", "SCHEDULED", "STAGED", "JOINING", "WAITING_ROOM",
                  "LEAVING", "POST_PROCESSING"}

-----------------------------------------------------------------------------
AppSessionEvents == {"APP_SESSION_CONNECTION_REQUESTED", "APP_SESSION_CONNECTED",
                     "APP_SESSION_DISCONNECT_REQUESTED", "APP_SESSION_DISCONNECTED"}

\* The two events whose target is where the bot was before it set off.
BreakoutArrivals == {"BOT_JOINED_BREAKOUT_ROOM", "BOT_LEFT_BREAKOUT_ROOM"}
BreakoutDepartures == {"BOT_BEGAN_JOINING_BREAKOUT_ROOM", "BOT_BEGAN_LEAVING_BREAKOUT_ROOM"}

MeetingEvents == BreakoutArrivals \cup BreakoutDepartures \cup
    {"JOIN_REQUESTED", "STAGED", "COULD_NOT_JOIN", "BOT_PUT_IN_WAITING_ROOM",
     "BOT_JOINED_MEETING", "BOT_RECORDING_PERMISSION_GRANTED",
     "BOT_RECORDING_PERMISSION_DENIED", "RECORDING_PAUSED", "RECORDING_RESUMED",
     "MEETING_ENDED", "LEAVE_REQUESTED", "BOT_LEFT_MEETING"}

\* Events that end or wipe a session of either kind.
ClosingEvents == {"FATAL_ERROR", "POST_PROCESSING_COMPLETED", "DATA_DELETED"}

EventTypes == MeetingEvents \cup AppSessionEvents \cup ClosingEvents
                \cup {"LOCAL_SESSION_ENDED"}

\* VALID_TRANSITIONS[e]["from"]; a scalar there is a set of one here.
From(e) ==
  CASE e = "JOIN_REQUESTED"            -> {"READY", "STAGED"}
    [] e = "STAGED"                    -> {"SCHEDULED"}
    [] e = "COULD_NOT_JOIN"            -> {"JOINING", "WAITING_ROOM"}
    [] e = "FATAL_ERROR"               -> States \ (PostMeetingStates \cup {"READY"})
    [] e = "BOT_PUT_IN_WAITING_ROOM"   -> {"JOINING"}
    [] e = "BOT_JOINED_MEETING"        -> {"WAITING_ROOM", "JOINING"}
    [] e = "BOT_RECORDING_PERMISSION_GRANTED" ->
           {"JOINED_NOT_RECORDING", "JOINED_RECORDING_PERMISSION_DENIED"}
    [] e = "MEETING_ENDED"             ->
           JoinedStates \cup BreakoutStates \cup {"WAITING_ROOM", "JOINING", "LEAVING"}
    [] e = "LEAVE_REQUESTED"           ->
           JoinedStates \cup BreakoutStates \cup {"WAITING_ROOM", "JOINING"}
    [] e = "BOT_LEFT_MEETING"          -> {"LEAVING"}
    [] e = "POST_PROCESSING_COMPLETED" -> {"POST_PROCESSING"}
    [] e = "DATA_DELETED"              -> {"FATAL_ERROR", "ENDED"}
    [] e = "RECORDING_PAUSED"          -> {"JOINED_RECORDING"}
    [] e = "RECORDING_RESUMED"         -> {"JOINED_RECORDING_PAUSED"}
    [] e = "BOT_JOINED_BREAKOUT_ROOM"  -> {"JOINING_BREAKOUT_ROOM"}
    [] e = "BOT_LEFT_BREAKOUT_ROOM"    -> {"LEAVING_BREAKOUT_ROOM"}
    [] e \in BreakoutDepartures        -> JoinedStates
    [] e = "BOT_RECORDING_PERMISSION_DENIED"  -> JoinedStates
    [] e = "APP_SESSION_CONNECTION_REQUESTED" -> {"READY"}
    [] e = "APP_SESSION_CONNECTED"            -> {"CONNECTING"}
    [] e = "APP_SESSION_DISCONNECT_REQUESTED" -> {"CONNECTED", "CONNECTING"}
    [] e = "APP_SESSION_DISCONNECTED"         -> {"DISCONNECTING"}
    [] e = "LOCAL_SESSION_ENDED"              -> {"READY"}

\* VALID_TRANSITIONS[e]["to"] where it is a constant.
FixedTarget(e) ==
  CASE e = "JOIN_REQUESTED"            -> "JOINING"
    [] e = "STAGED"                    -> "STAGED"
    [] e \in {"COULD_NOT_JOIN", "FATAL_ERROR"} -> "FATAL_ERROR"
    [] e = "BOT_PUT_IN_WAITING_ROOM"   -> "WAITING_ROOM"
    [] e = "BOT_JOINED_MEETING"        -> "JOINED_NOT_RECORDING"
    [] e \in {"BOT_RECORDING_PERMISSION_GRANTED", "RECORDING_RESUMED"} -> "JOINED_RECORDING"
    [] e \in {"MEETING_ENDED", "BOT_LEFT_MEETING", "APP_SESSION_DISCONNECTED"} -> "POST_PROCESSING"
    [] e = "LEAVE_REQUESTED"           -> "LEAVING"
    [] e \in {"POST_PROCESSING_COMPLETED", "LOCAL_SESSION_ENDED"} -> "ENDED"
    [] e = "DATA_DELETED"              -> "DATA_DELETED"
    [] e = "RECORDING_PAUSED"          -> "JOINED_RECORDING_PAUSED"
    [] e = "BOT_BEGAN_JOINING_BREAKOUT_ROOM"  -> "JOINING_BREAKOUT_ROOM"
    [] e = "BOT_BEGAN_LEAVING_BREAKOUT_ROOM"  -> "LEAVING_BREAKOUT_ROOM"
    [] e = "BOT_RECORDING_PERMISSION_DENIED"  -> "JOINED_RECORDING_PERMISSION_DENIED"
    [] e = "APP_SESSION_CONNECTION_REQUESTED" -> "CONNECTING"
    [] e = "APP_SESSION_CONNECTED"            -> "CONNECTED"
    [] e = "APP_SESSION_DISCONNECT_REQUESTED" -> "DISCONNECTING"

-----------------------------------------------------------------------------
\* What the callers of create_event ask for, by the bot's session type: the
\* call sites are the API views, the scheduler, the clean-up commands and the
\* bot controller's adapter messages.
SessionTypes == {"BOT", "APP_SESSION"}

RequestedFor(session) ==
    ClosingEvents \cup (IF session = "BOT" THEN MeetingEvents ELSE AppSessionEvents)

\* A bot is created READY, or SCHEDULED when it has a join_at.
InitialStates(session) == IF session = "BOT" THEN {"READY", "SCHEDULED"} ELSE {"READY"}
=============================================================================
