---------------------------- MODULE ZoomAdapter ----------------------------
(***************************************************************************)
(* A bot that joins by Zoom's native SDK instead of a browser:             *)
(* ZoomBotAdapter (src/bots/zoom_bot_adapter), which turns the SDK's       *)
(* callbacks into messages, and the main loop of BotController, which      *)
(* takes them one by one with the commands of the API. The SDK calls back  *)
(* on the main loop, so a handler is a step; the SDK itself is external.   *)
(* create_event is one step here: BotLifecycle shows that it may be.       *)
(***************************************************************************)
EXTENDS BotTransitions, Naturals, Sequences

CONSTANTS
    MaxZoomTrouble, \* bounds what sets a bot back: pauses, moves, retries, refusals
    MaxBacklog      \* bounds the callbacks that wait when another one comes

ASSUME ZoomAssumption == {MaxZoomTrouble, MaxBacklog} \subseteq Nat

VARIABLES
    sdk,      \* the SDK: the meeting's status, and what it still has to answer
    zoom,     \* the adapter's fields
    timers,   \* the GLib timeouts that are set, one of a kind
    backlog,  \* idle callbacks of the main loop: adapter messages and commands
    zoomBot,  \* the committed rows, the process's copy of the state, the request taken,
              \* and the latest event where it is read back
    zoomPast  \* the trouble so far; a leave nobody will carry out; a call that failed

zoomVars == <<sdk, zoom, timers, backlog, zoomBot, zoomPast>>

\* GetMeetingStatus(), "none" without a meeting service.
Statuses == {"none", "idle", "connecting", "host", "lobby", "meeting", "to_room", "from_room",
             "failed", "ended"}
Moves == {"to_room", "from_room"}
TimerKinds == {"connecting", "host", "lobby", "rejoin", "video"}
ZoomMessages == {"lobby", "joined", "to_room", "from_room", "granted", "denied", "ended",
                 "could_not_join", "auto_leave"}
ZoomCommands == {"sync", "pause", "resume"}

NewZoom == [asked |-> FALSE, retry |-> FALSE, granted |-> FALSE, raw |-> FALSE, paused |-> FALSE,
            moving |-> FALSE, joined |-> FALSE, video |-> FALSE]

ZoomTypeOK ==
    /\ sdk \in [status : Statuses, busy : {"none", "init", "auth", "join", "leave"}]
    /\ zoom \in [asked : BOOLEAN, retry : BOOLEAN, granted : BOOLEAN, raw : BOOLEAN,
                 paused : BOOLEAN, moving : BOOLEAN, joined : BOOLEAN, video : BOOLEAN]
    /\ timers \subseteq TimerKinds
    /\ backlog \in Seq(ZoomMessages \cup ZoomCommands)
    /\ zoomBot \in [state : States, recording : RecordingStates, last : EventRows \cup {NoEvent},
                    copy : States, taken : BOOLEAN]
    /\ zoomPast \in [trouble : 0 .. MaxZoomTrouble, stranded : BOOLEAN, broken : BOOLEAN]

ZoomInit ==
    /\ sdk = [status |-> "none", busy |-> "init"]
    /\ zoom = NewZoom
    /\ timers = {}
    /\ backlog = <<>>
    /\ zoomBot = [state |-> "JOINING", recording |-> "NOT_STARTED", copy |-> "JOINING", last |-> NoEvent,
                  taken |-> FALSE]
    /\ zoomPast = [trouble |-> 0, stranded |-> FALSE, broken |-> FALSE]

-----------------------------------------------------------------------------
Says(messages) ==
    /\ Len(backlog) <= MaxBacklog
    /\ backlog' = backlog \o messages

\* More trouble, and what it left behind.
Mishap(stranded, broken) ==
    /\ zoomPast.trouble < MaxZoomTrouble
    /\ zoomPast' = [trouble |-> zoomPast.trouble + 1,
                    stranded |-> zoomPast.stranded \/ stranded,
                    broken |-> zoomPast.broken \/ broken]

\* From here on nothing but the limit on the bot's run time ends it.
Strands == zoomPast' = [zoomPast EXCEPT !.stranded = TRUE]

\* What create_event may make of the rows: none if it raises.
RowsAfter(e) ==
    IF zoomBot.state \in From(e) /\ CanResolveTarget(e, zoomBot.last)
    THEN LET to == Target(e, zoomBot.last)
         IN {[zoomBot EXCEPT !.state = to, !.recording = r, !.taken = FALSE,
                             !.last = IF e \in BreakoutDepartures
                                      THEN [type |-> e, old |-> zoomBot.state, new |-> to]
                                      ELSE NoEvent]
               : r \in RecordingsAfter(e, zoomBot.state, to, zoomBot.recording)}
    ELSE {}

\* The process creates an event, or cannot; either way its copy is refreshed.
Creates(e) == \E row \in RowsAfter(e) : zoomBot' = [row EXCEPT !.copy = row.state]
CannotCreate(e) == RowsAfter(e) = {} /\ zoomBot' = [zoomBot EXCEPT !.copy = zoomBot.state]

\* leave(): without a service it answers itself; while the SDK has not begun to
\* join, or is between two attempts, it does nothing at all.
Leaves(box) ==
    IF sdk.status = "none"
    THEN backlog' = Append(box, "ended") /\ UNCHANGED <<sdk, zoom, zoomPast>>
    ELSE /\ backlog' = box
         /\ IF sdk.status \in {"idle", "ended"}
              THEN Strands /\ UNCHANGED <<sdk, zoom>>
              ELSE /\ sdk' = [sdk EXCEPT !.busy = "leave"]
                   /\ zoom' = [zoom EXCEPT !.asked = TRUE]
                   /\ UNCHANGED zoomPast

\* cleanup() of the controller and of the adapter: the services are destroyed
\* and the main loop quits.
CleansUp ==
    /\ sdk' = [status |-> "none", busy |-> "none"]
    /\ zoom' = NewZoom
    /\ timers' = {}
    /\ backlog' = <<>>
    /\ UNCHANGED zoomPast

-----------------------------------------------------------------------------
(* Raw recording. *)

\* set_video_input_manager_based_on_state, on the fields z.
VideoFor(z) ==
    IF ~z.raw THEN [z EXCEPT !.video = FALSE]
    ELSE IF z.granted /\ ~z.moving THEN [z EXCEPT !.video = TRUE]
    ELSE z

\* Mutant of PausesAdapter: without the host's permission there is nothing to stop.
PausesPermitted ==
    /\ UNCHANGED <<timers, zoomPast>>
    /\ zoom' = VideoFor([zoom EXCEPT !.paused = TRUE, !.raw = @ /\ ~zoom.granted])

\* pause_recording and stop_raw_recording, which the SDK may refuse.
PausesAdapter ==
    /\ UNCHANGED timers
    /\ IF zoom.raw
         THEN \/ /\ zoom' = VideoFor([zoom EXCEPT !.paused = TRUE, !.raw = FALSE])
                 /\ UNCHANGED zoomPast
              \/ /\ zoom' = VideoFor([zoom EXCEPT !.paused = TRUE])
                 /\ Mishap(FALSE, TRUE)
         ELSE zoom' = [zoom EXCEPT !.paused = TRUE] /\ UNCHANGED zoomPast

\* start_or_resume_recording and start_raw_recording: whether or not the SDK
\* agreed, the video is set up a moment later.
ResumesAdapter ==
    IF zoom.raw
    THEN zoom' = [zoom EXCEPT !.paused = FALSE] /\ UNCHANGED <<timers, zoomPast>>
    ELSE /\ timers' = timers \cup {"video"}
         /\ \/ zoom' = [zoom EXCEPT !.paused = FALSE, !.raw = TRUE] /\ UNCHANGED zoomPast
            \/ zoom' = [zoom EXCEPT !.paused = FALSE] /\ Mishap(FALSE, TRUE)

\* set_up_video_input_manager, 100 ms after the start, and again whenever the
\* speaker or the one who shares changes.
SetUpVideo ==
    /\ "video" \in timers
    /\ timers' = timers \ {"video"}
    /\ zoom' = VideoFor(zoom)
    /\ UNCHANGED <<sdk, backlog, zoomBot, zoomPast>>

SpeakerChanges ==
    /\ sdk.status = "meeting" /\ VideoFor(zoom) # zoom
    /\ zoom' = VideoFor(zoom)
    /\ UNCHANGED <<sdk, timers, backlog, zoomBot, zoomPast>>

-----------------------------------------------------------------------------
(* Joining. *)

\* The first timeout of the main loop acts on the bot's state: it creates the
\* services and asks for authorization, or leaves before there is anything to
\* leave. InitSDK or SetEvent may fail.
ActsFirst ==
    /\ sdk.busy = "init"
    /\ \/ /\ zoomBot.state = "JOINING"
          /\ zoomBot' = [zoomBot EXCEPT !.taken = TRUE]
          /\ \/ sdk' = [status |-> "idle", busy |-> "auth"] /\ UNCHANGED backlog
             \/ sdk' = [status |-> "idle", busy |-> "none"] /\ Says(<<"could_not_join">>)
          /\ UNCHANGED <<zoom, timers, zoomPast>>
       \/ /\ zoomBot.state = "JOINING"
          /\ Creates("FATAL_ERROR") /\ CleansUp
       \/ /\ zoomBot.state = "LEAVING"
          /\ zoomBot' = [zoomBot EXCEPT !.taken = TRUE, !.copy = "LEAVING"]
          /\ sdk' = [status |-> "none", busy |-> "none"]
          /\ Says(<<"ended">>)
          /\ UNCHANGED <<zoom, timers, zoomPast>>

\* join_meeting: when Join refuses, that is only logged.
JoinsMeeting ==
    \/ sdk' = [sdk EXCEPT !.busy = "join"] /\ UNCHANGED zoomPast
    \/ sdk' = [sdk EXCEPT !.busy = "none"] /\ Mishap(TRUE, FALSE)

\* auth_return
Authorized ==
    /\ sdk.busy = "auth"
    /\ \/ JoinsMeeting /\ UNCHANGED backlog
       \/ sdk' = [sdk EXCEPT !.busy = "none"] /\ Says(<<"could_not_join">>) /\ UNCHANGED zoomPast
    /\ UNCHANGED <<zoom, timers, zoomBot>>

\* meeting_status_changed, with another status s: what every one of them does.
Becomes(s) ==
    sdk' = [status |-> s, busy |-> IF sdk.busy = "leave" /\ s # "ended" THEN "leave" ELSE "none"]

\* A new connection, a wait for the host, the waiting room: each has its timeout,
\* and only that of the connection is taken back.
StatusWaits(s) ==
    /\ Becomes(s)
    /\ timers' = (timers \ {"connecting"}) \cup {s}
    /\ Says(IF s = "lobby" THEN <<"lobby">> ELSE <<>>)
    /\ UNCHANGED <<zoom, zoomBot>>

StatusMoves(s) ==
    /\ Becomes(s)
    /\ timers' = timers \ {"connecting"}
    /\ zoom' = [zoom EXCEPT !.moving = TRUE]
    /\ Says(<<s>>)
    /\ UNCHANGED zoomBot

\* on_join, on every arrival: the bot may record, has asked the host to be
\* allowed, or learns that it cannot be.
StatusInMeeting ==
    /\ Becomes("meeting")
    /\ timers' = timers \ {"connecting"}
    /\ \/ /\ zoom' = [zoom EXCEPT !.moving = FALSE, !.joined = TRUE, !.granted = TRUE]
          /\ Says(IF zoom.granted THEN <<"joined">> ELSE <<"joined", "granted">>)
       \/ /\ zoom' = [zoom EXCEPT !.moving = FALSE, !.joined = TRUE]
          /\ Says(<<"joined">>)
       \/ /\ zoom' = [zoom EXCEPT !.moving = FALSE, !.joined = TRUE, !.granted = FALSE]
          /\ Says(<<"joined", "denied">>)
    /\ UNCHANGED zoomBot

\* An attempt fails. When that is because the user on whose behalf the bot joins
\* is not there, and was not for too long, it is tried again after the end.
StatusFailed ==
    /\ Becomes("failed")
    /\ timers' = timers \ {"connecting"}
    /\ \/ Says(<<"could_not_join">>) /\ UNCHANGED <<zoom, zoomPast>>
       \/ /\ zoom' = [zoom EXCEPT !.retry = TRUE]
          /\ Mishap(FALSE, FALSE)
          /\ UNCHANGED backlog
    /\ UNCHANGED zoomBot

\* The end, or, although the bot may have been told to leave, another attempt.
StatusEnded ==
    /\ Becomes("ended")
    /\ IF zoom.retry
         THEN /\ timers' = (timers \ {"connecting"}) \cup {"rejoin"}
              /\ zoom' = [zoom EXCEPT !.retry = FALSE]
              /\ IF zoom.asked THEN Strands ELSE UNCHANGED zoomPast
              /\ UNCHANGED backlog
         ELSE /\ timers' = timers \ {"connecting"}
              /\ Says(<<"ended">>)
              /\ UNCHANGED <<zoom, zoomPast>>
    /\ UNCHANGED zoomBot

\* The ways of a meeting (external).
Onward(s) ==
  CASE s \in {"idle", "ended"}    -> IF sdk.busy = "join" THEN {"connecting"} ELSE {}
    [] s = "connecting"           -> {"host", "lobby", "meeting", "failed", "ended"}
    [] s \in {"host", "lobby"}    -> {"connecting", "meeting", "ended"}
    [] s = "meeting"              -> {"lobby", "to_room", "from_room", "failed", "ended"}
    [] s \in Moves                -> {"connecting", "meeting", "ended"}
    [] s = "failed"               -> {"ended"}
    [] OTHER                      -> {}
SetsBack(old, new) ==
    \/ old = "meeting" /\ new \in Moves \cup {"lobby"}
    \/ old \in {"host", "lobby"} /\ new = "connecting"

StatusChanges(s) ==
    /\ s \in Onward(sdk.status)
    /\ IF SetsBack(sdk.status, s) THEN Mishap(FALSE, FALSE)
       ELSE s \in {"failed", "ended"} \/ UNCHANGED zoomPast
    /\ \/ s \in {"connecting", "host", "lobby"} /\ StatusWaits(s)
       \/ s \in Moves /\ StatusMoves(s)
       \/ s = "meeting" /\ StatusInMeeting
       \/ s = "failed" /\ StatusFailed
       \/ s = "ended" /\ StatusEnded

\* on_recording_privilege_changed and the answer to the bot's request.
PrivilegeGiven ==
    /\ sdk.status = "meeting" /\ ~zoom.granted
    /\ zoom' = [zoom EXCEPT !.granted = TRUE]
    /\ Says(<<"granted">>)
    /\ UNCHANGED <<sdk, timers, zoomBot, zoomPast>>

PrivilegeTaken ==
    /\ sdk.status = "meeting"
    /\ zoom' = [zoom EXCEPT !.granted = FALSE]
    /\ Says(<<"denied">>)
    /\ Mishap(FALSE, FALSE)
    /\ UNCHANGED <<sdk, timers, zoomBot>>

-----------------------------------------------------------------------------
(* Timeouts. *)

\* Mutant of GivesUp: nobody notices that a connection never comes about.
GivesUpOutside ==
    /\ \E t \in {"host", "lobby"} :
         /\ t \in timers
         /\ timers' = timers \ {t}
         /\ Says(IF sdk.status = t THEN <<"could_not_join">> ELSE <<>>)
    /\ UNCHANGED <<sdk, zoom, zoomBot, zoomPast>>

\* give_up_if_still_in_connecting_state, leave_meeting_if_not_started_yet,
\* leave_meeting_if_still_in_waiting_room
GivesUp ==
    /\ \E t \in {"connecting", "host", "lobby"} :
         /\ t \in timers
         /\ timers' = timers \ {t}
         /\ Says(IF sdk.status = t /\ ~(t = "connecting" /\ zoom.moving)
                 THEN <<"could_not_join">> ELSE <<>>)
    /\ UNCHANGED <<sdk, zoom, zoomBot, zoomPast>>

TriesAgain ==
    /\ "rejoin" \in timers
    /\ timers' = timers \ {"rejoin"}
    /\ JoinsMeeting
    /\ UNCHANGED <<zoom, backlog, zoomBot>>

\* check_auto_leave_conditions, every 100 ms. A paused bot hears nothing, so it
\* counts as silence.
LeavesByItself ==
    /\ sdk.busy # "init" /\ zoom.joined /\ ~zoom.asked
    /\ \A i \in 1 .. Len(backlog) : backlog[i] # "auto_leave"
    /\ Says(<<"auto_leave">>)
    /\ UNCHANGED <<sdk, zoom, timers, zoomBot, zoomPast>>

-----------------------------------------------------------------------------
(* The API. *)

ApiLeave ==
    /\ zoomBot' \in RowsAfter("LEAVE_REQUESTED")
    /\ Says(<<"sync">>)
    /\ UNCHANGED <<sdk, zoom, timers, zoomPast>>

ApiPauses ==
    /\ \/ zoomBot.state = "JOINED_RECORDING" /\ Says(<<"pause">>)
       \/ zoomBot.state = "JOINED_RECORDING_PAUSED" /\ Says(<<"resume">>)
    /\ Mishap(FALSE, FALSE)
    /\ UNCHANGED <<sdk, zoom, timers, zoomBot>>

-----------------------------------------------------------------------------
(* The main loop's idle callbacks. An exception in one ends it, not the loop. *)

Takes(m) == sdk.busy # "init" /\ backlog # <<>> /\ Head(backlog) = m
Rest == backlog' = Tail(backlog)

\* Messages that ask for an event and nothing else. Where the bot arrives is
\* told by the process's copy of its state.
NewsOf(m) ==
  CASE m = "lobby"     -> "BOT_PUT_IN_WAITING_ROOM"
    [] m = "to_room"   -> "BOT_BEGAN_JOINING_BREAKOUT_ROOM"
    [] m = "from_room" -> "BOT_BEGAN_LEAVING_BREAKOUT_ROOM"
    [] m = "joined"    ->
         IF zoomBot.copy = "JOINING_BREAKOUT_ROOM" THEN "BOT_JOINED_BREAKOUT_ROOM"
         ELSE IF zoomBot.copy = "LEAVING_BREAKOUT_ROOM" THEN "BOT_LEFT_BREAKOUT_ROOM"
         ELSE "BOT_JOINED_MEETING"

TakesNews ==
    /\ \E m \in {"lobby", "to_room", "from_room", "joined"} :
         Takes(m) /\ (Creates(NewsOf(m)) \/ CannotCreate(NewsOf(m)))
    /\ Rest
    /\ UNCHANGED <<sdk, zoom, timers, zoomPast>>

\* The end of the session, or an attempt that was given up. A bot that is
\* leaving, or has joined before, is not ended by the latter.
TakesEnding ==
    \E m \in {"could_not_join", "ended"} :
       LET e == IF m = "could_not_join" THEN "COULD_NOT_JOIN"
                ELSE IF zoomBot.copy = "LEAVING" THEN "BOT_LEFT_MEETING" ELSE "MEETING_ENDED"
       IN /\ Takes(m)
          /\ \/ Creates(e) /\ CleansUp
             \/ /\ CannotCreate(e)
                /\ Rest
                /\ UNCHANGED <<sdk, zoom, timers, zoomPast>>

\* The recording is started or stopped before the event is tried.
TakesPermission ==
    /\ \/ /\ Takes("granted") /\ ResumesAdapter
          /\ LET e == "BOT_RECORDING_PERMISSION_GRANTED" IN Creates(e) \/ CannotCreate(e)
       \/ /\ Takes("denied") /\ PausesAdapter
          /\ LET e == "BOT_RECORDING_PERMISSION_DENIED" IN Creates(e) \/ CannotCreate(e)
    /\ Rest
    /\ UNCHANGED sdk

TakesAutoLeave ==
    /\ Takes("auto_leave")
    /\ \/ /\ \E row \in RowsAfter("LEAVE_REQUESTED") :
               zoomBot' = [row EXCEPT !.copy = row.state, !.taken = TRUE]
          /\ Leaves(Tail(backlog))
       \/ /\ CannotCreate("LEAVE_REQUESTED")
          /\ Rest
          /\ UNCHANGED <<sdk, zoom, zoomPast>>
    /\ UNCHANGED timers

\* A request is acted on once.
TakesSync ==
    /\ Takes("sync")
    /\ zoomBot' = [zoomBot EXCEPT !.copy = zoomBot.state, !.taken = @ \/ zoomBot.state = "LEAVING"]
    /\ IF zoomBot.state = "LEAVING" /\ ~zoomBot.taken
         THEN Leaves(Tail(backlog))
         ELSE Rest /\ UNCHANGED <<sdk, zoom, zoomPast>>
    /\ UNCHANGED timers

TakesPause ==
    /\ \/ /\ Takes("pause")
          /\ IF zoomBot.state = "JOINED_RECORDING"
               THEN PausesAdapter /\ (Creates("RECORDING_PAUSED") \/ CannotCreate("RECORDING_PAUSED"))
               ELSE zoomBot' = [zoomBot EXCEPT !.copy = zoomBot.state] /\ UNCHANGED <<zoom, timers, zoomPast>>
       \/ /\ Takes("resume")
          /\ IF zoomBot.state = "JOINED_RECORDING_PAUSED"
               THEN ResumesAdapter /\ (Creates("RECORDING_RESUMED") \/ CannotCreate("RECORDING_RESUMED"))
               ELSE zoomBot' = [zoomBot EXCEPT !.copy = zoomBot.state] /\ UNCHANGED <<zoom, timers, zoomPast>>
    /\ Rest
    /\ UNCHANGED sdk

-----------------------------------------------------------------------------
MainLoopTakes ==
    \/ TakesNews \/ TakesEnding \/ TakesPermission \/ TakesAutoLeave \/ TakesSync \/ TakesPause

\* What the SDK answers sooner or later: a Join with a connection, a Leave and a
\* failure with the end.
SdkAnswers ==
    \/ sdk.busy = "join" /\ StatusChanges("connecting")
    \/ (sdk.busy = "leave" \/ sdk.status = "failed") /\ StatusChanges("ended")

ZoomNext ==
    \/ ActsFirst \/ Authorized
    \/ \E s \in Statuses : StatusChanges(s)
    \/ PrivilegeGiven \/ PrivilegeTaken \/ SpeakerChanges
    \/ GivesUp \/ TriesAgain \/ SetUpVideo \/ LeavesByItself
    \/ ApiLeave \/ ApiPauses
    \/ MainLoopTakes

ZoomSpec == ZoomInit /\ [][ZoomNext]_zoomVars

-----------------------------------------------------------------------------
\* While nothing is being handled, the SDK gives its raw data, and video, to a
\* bot whose row says that it records, and to no other, whatever the host, the
\* API and the breakout rooms did in between, unless a call to the SDK failed.
RecordedAsSaid ==
    sdk.status = "meeting" /\ backlog = <<>> /\ ~zoomPast.broken =>
        /\ zoomBot.state = "JOINED_RECORDING" => zoom.raw /\ ~zoom.paused
        /\ zoomBot.state \in {"JOINED_RECORDING_PAUSED", "JOINED_RECORDING_PERMISSION_DENIED"} =>
               ~zoom.raw /\ zoom.paused /\ ~zoom.video

\* From the main loop's first turn on, an attempt to join comes to an end, be it
\* because the bot gives up, and a bot that was told to leave leaves, unless its
\* leave or its Join is lost on the SDK.
InTransit == zoomBot.state \in {"JOINING", "WAITING_ROOM", "LEAVING"}
AttemptsEnd == (sdk.busy # "init" /\ InTransit) ~> (~InTransit \/ zoomPast.stranded)
=============================================================================
