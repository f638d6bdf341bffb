--------------------------- MODULE BotTransitions ---------------------------
(***************************************************************************)
(* What one transition does once BotEventManager.create_event has decided  *)
(* to take it: the state it leads to, and what the "after_new_state" hooks *)
(* do to the bot's one recording and to the organisation's credits         *)
(* (src/bots/models.py).                                                   *)
(***************************************************************************)
EXTENDS BotStates

RecordingStates == {"NOT_STARTED", "IN_PROGRESS", "PAUSED", "COMPLETE", "FAILED"}

\* The columns of a BotEvent row that the code reads back.
EventRows == [type : EventTypes, old : States, new : States]

NoEvent == [type |-> "NONE", old |-> "NONE", new |-> "NONE"]

\* get_to_state_for_bot_breakout_room_event raises unless the latest event is
\* the departure; the bot then goes back to the state it departed from.
CanResolveTarget(e, last) ==
    e \in BreakoutArrivals =>
        last.type \in BreakoutDepartures /\ last.old \in JoinedStates

Target(e, last) == IF e \in BreakoutArrivals THEN last.old ELSE FixedTarget(e)

\* "transitioned_to_post_meeting_state" of create_event.
EndsSession(old, new) == new \in PostMeetingStates /\ old \notin PostMeetingStates

\* The states in which the hooks may leave a recording that was in state r
\* before event e took the bot from old to new. The empty set stands for the
\* ValidationError a hook raises when it does not find the recording it expects.
\* A recording is terminated COMPLETE when its file was saved (or none was
\* wanted) and FAILED otherwise; which of the two is left open.
RecordingsAfter(e, old, new, r) ==
  CASE new \in {"JOINED_RECORDING", "CONNECTED"} ->
           IF r \in {"NOT_STARTED", "PAUSED"} THEN {"IN_PROGRESS"}
           ELSE IF e \in BreakoutArrivals THEN {r} ELSE {}
    [] new = "JOINED_RECORDING_PAUSED" ->
           IF r = "IN_PROGRESS" THEN {"PAUSED"} ELSE {}
    [] new = "JOINED_RECORDING_PERMISSION_DENIED" ->
           IF r = "IN_PROGRESS" THEN {"PAUSED"} ELSE {r}
    [] EndsSession(old, new) ->
           IF r \in {"IN_PROGRESS", "PAUSED"} THEN {"COMPLETE", "FAILED"} ELSE {r}
    [] OTHER -> {r}

\* Credits are charged when the session ends, except by a FATAL_ERROR event,
\* and only for a bot that was ever alive (it has a first heartbeat).
IsCharged(e, old, new, hasHeartbeat) ==
    EndsSession(old, new) /\ e # "FATAL_ERROR" /\ hasHeartbeat
=============================================================================
