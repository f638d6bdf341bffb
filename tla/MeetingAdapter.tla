--------------------------- MODULE MeetingAdapter ---------------------------
(***************************************************************************)
(* What a bot's process may rely on from the web adapter that drives its   *)
(* browser (src/bots/web_bot_adapter): which messages its threads may put  *)
(* in the main loop, and when. BotProcess is built on it; MeetingJoin, the *)
(* adapter in detail, is shown to keep to it.                              *)
(***************************************************************************)
EXTENDS Naturals, Sequences

VARIABLES
    adapter, \* where the browser is, left_meeting, the permission it was given
    inbox    \* idle callbacks of the main loop: adapter messages and commands

adapterVars == <<adapter, inbox>>

AdapterMessages == {"joined", "granted", "denied", "could_not_join", "ui_failure", "blocked",
                    "auto_leave", "meeting_ended"}
NewAdapter == [phase |-> "idle", left |-> FALSE, granted |-> FALSE]

AdapterInit == adapter = NewAdapter /\ inbox = <<>>

Waits(m) == \E i \in 1 .. Len(inbox) : inbox[i] = m
Posts(m) == inbox' = Append(inbox, m)

\* The main loop takes what is due.
LoopTakes == inbox # <<>> /\ inbox' = Tail(inbox) /\ UNCHANGED adapter

\* init(): the browser is sent into the meeting.
SentIn ==
    /\ adapter.phase = "idle"
    /\ adapter' = [adapter EXCEPT !.phase = "joining"]
    /\ UNCHANGED inbox

\* adapter.leave(): the browser leaves, once, and says the meeting has ended.
AdapterLeaves(box) ==
    IF adapter.left
    THEN inbox' = box /\ UNCHANGED adapter
    ELSE /\ inbox' = Append(box, "meeting_ended")
         /\ adapter' = [adapter EXCEPT !.left = TRUE]

\* repeatedly_attempt_to_join_meeting gets in, or ends with one message, or
\* without one when the bot has left.
JoinAttemptEnds ==
    /\ adapter.phase = "joining"
    /\ \/ /\ Posts("joined")
          /\ adapter' = [adapter EXCEPT !.phase = "in"]
       \/ /\ \E m \in {"could_not_join", "ui_failure", "blocked"} : Posts(m)
          /\ adapter' = [adapter EXCEPT !.phase = "over"]
       \/ /\ adapter.left /\ UNCHANGED inbox
          /\ adapter' = [adapter EXCEPT !.phase = "over"]

\* The page says that it cannot get in, or that the bot should leave, and the
\* thread that waits goes on waiting. One message of a kind that waits is enough.
PageComplains ==
    /\ adapter.phase = "joining"
    /\ \E m \in {"could_not_join", "auto_leave"} : ~Waits(m) /\ Posts(m)
    /\ UNCHANGED adapter

\* after_bot_can_record_meeting tells of the permission only once, be it before
\* the bot is told to have joined.
PermissionGranted ==
    /\ adapter.phase # "idle" /\ ~adapter.granted
    /\ Posts("granted")
    /\ adapter' = [adapter EXCEPT !.granted = TRUE]

PermissionDenied ==
    /\ adapter.phase # "idle"
    /\ Posts("denied")
    /\ UNCHANGED adapter

\* The host ends the meeting or removes the bot, also one that is leaving, still
\* joining or not let in: the handler posts MEETING_ENDED without a look at
\* left_meeting.
MeetingEnds ==
    /\ adapter.phase # "idle"
    /\ ~Waits("meeting_ended")
    /\ Posts("meeting_ended")
    /\ adapter' = [adapter EXCEPT !.left = TRUE]

\* check_auto_leave_conditions posts its request every 100 ms until the bot
\* has left.
AutoLeaveIsDue ==
    /\ adapter.phase = "in" /\ ~adapter.left
    /\ ~Waits("auto_leave")
    /\ Posts("auto_leave")
    /\ UNCHANGED adapter

AdapterNext ==
    \/ SentIn \/ AdapterLeaves(inbox) \/ LoopTakes
    \/ JoinAttemptEnds \/ PageComplains
    \/ PermissionGranted \/ PermissionDenied \/ MeetingEnds \/ AutoLeaveIsDue

AdapterSpec == AdapterInit /\ [][AdapterNext]_adapterVars
=============================================================================
