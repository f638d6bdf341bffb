------------------------------ MODULE AppSession ------------------------------
(***************************************************************************)
(* A session that listens to a meeting through Zoom's media streams        *)
(* instead of joining it: the API that begins and ends it                  *)
(* (src/bots/app_session_api_views.py), ZoomRTMSAdapter and its RTMSClient *)
(* (src/bots/zoom_rtms_adapter), and what the controller's main loop does  *)
(* with their messages. The client runs an asyncio loop in a thread of its *)
(* own: a task per websocket, which the main loop tells to stop and waits  *)
(* for, but no longer than five seconds. create_event is one step here:    *)
(* BotLifecycle shows that it may be.                                      *)
(***************************************************************************)
EXTENDS BotTransitions, Naturals, Sequences

CONSTANT MaxAppTrouble  \* bounds the deaths of the process and of the websockets, and what is lost
ASSUME AppAssumption == MaxAppTrouble \in Nat

VARIABLES
    session,  \* the committed rows, and requested_bot_action_taken_at
    host,     \* the controller's process: what it is doing, and the idle callbacks it has
    rtms,     \* the adapter's flags and the client with its two websockets
    stream,   \* Zoom's side: whether the meeting goes on, and has said that it ended
    appPast   \* the trouble so far; whether a frame came, or a stop was missed, too late;
              \* what has become of the command that AppSessionEndView publishes

appVars == <<session, host, rtms, stream, appPast>>

\* The client: no thread yet, a thread whose loop is not running yet, a signaling
\* websocket being opened, open, and a loop that has finished.
ClientPhases == {"none", "thread", "connecting", "open", "exited"}
LoopRuns == rtms.client \in {"connecting", "open"}

\* "first" before the first turn of the main loop; "disconnect" and "cleanup"
\* while the main loop waits for the thread.
HostPhases == {"first", "running", "disconnect", "cleanup", "post", "done", "dead"}
AppMessages == {"connected", "disconnect_requested", "disconnected", "stream_ended", "sync"}

NewRtms == [client |-> "none", media |-> "none", closing |-> FALSE, shutdown |-> FALSE,
            cleaned |-> FALSE, left |-> FALSE]

AppPasts == [trouble : 0 .. MaxAppTrouble, late : BOOLEAN, missed : BOOLEAN, command : {"none", "sent", "lost"}]

AppTypeOK ==
    /\ session \in [state : States, recording : RecordingStates, taken : BOOLEAN]
    /\ host \in [phase : HostPhases, backlog : Seq(AppMessages)]
    /\ rtms \in [client : ClientPhases, media : {"none", "connecting", "open", "closed"},
                 closing : BOOLEAN, shutdown : BOOLEAN, cleaned : BOOLEAN, left : BOOLEAN]
    /\ stream \in [up : BOOLEAN, told : BOOLEAN]
    /\ appPast \in AppPasts

\* create_app_session has committed the row, the launched process has begun.
AppInit ==
    /\ session = [state |-> "CONNECTING", recording |-> "NOT_STARTED", taken |-> FALSE]
    /\ host = [phase |-> "first", backlog |-> <<>>]
    /\ rtms = NewRtms
    /\ stream = [up |-> TRUE, told |-> FALSE]
    /\ appPast = [trouble |-> 0, late |-> FALSE, missed |-> FALSE, command |-> "none"]

-----------------------------------------------------------------------------
Troubles ==
    /\ appPast.trouble < MaxAppTrouble
    /\ appPast' = [appPast EXCEPT !.trouble = @ + 1]

\* create_event makes something of the rows, or raises.
SessionAfter(e) ==
    IF session.state \in From(e)
    THEN {[state |-> FixedTarget(e), recording |-> r, taken |-> FALSE] :
            r \in RecordingsAfter(e, session.state, FixedTarget(e), session.recording)}
    ELSE {}
Created(e) == session' \in SessionAfter(e)
Refused(e) == SessionAfter(e) = {} /\ UNCHANGED session

\* The idle callbacks after one more; a process that is gone has none.
Added(m) == IF host.phase \in {"done", "dead"} THEN host.backlog ELSE Append(host.backlog, m)
Tells(m) == host' = [host EXCEPT !.backlog = Added(m)]

-----------------------------------------------------------------------------
(* The adapter, on the main loop. *)

\* init: the thread is started and the session called connected, whatever the
\* client does with it.
Initializes(box) ==
    \/ /\ rtms' = [rtms EXCEPT !.client = "thread"]
       /\ host' = [phase |-> "running", backlog |-> Append(box, "connected")]
       /\ UNCHANGED appPast
    \/ /\ host' = [phase |-> "running", backlog |-> box]
       /\ Troubles
       /\ UNCHANGED rtms

\* request_shutdown reaches a loop that runs; one that is about to run misses it.
AsksToStop ==
    /\ rtms' = [rtms EXCEPT !.cleaned = TRUE, !.shutdown = @ \/ LoopRuns]
    /\ appPast' = [appPast EXCEPT !.missed = @ \/ rtms.client = "thread"]

\* disconnect: the client is asked to stop, and the main loop waits for it.
Disconnects(box) ==
    IF rtms.left
    THEN host' = [phase |-> "running", backlog |-> box] /\ UNCHANGED <<rtms, appPast>>
    ELSE host' = [phase |-> "disconnect", backlog |-> box] /\ AsksToStop

\* cleanup of the controller: leave, which is disconnect, then cleanup of the
\* adapter; nothing is taken from the main loop any more.
ControllerCleansUp ==
    /\ host' = [phase |-> "cleanup", backlog |-> <<>>]
    /\ AsksToStop

\* Thread.join returns: the thread is over, or five seconds are. By then a loop
\* that runs has seen the request, although the other side may not have answered,
\* unless something has kept it busy all the while.
JoinReturns ==
    /\ \/ (rtms.client \in {"none", "exited"} \/ ~rtms.shutdown) /\ UNCHANGED appPast
       \/ /\ LoopRuns /\ rtms.shutdown /\ appPast.trouble < MaxAppTrouble
          /\ appPast' = [appPast EXCEPT !.trouble = @ + 1, !.missed = TRUE]
    /\ rtms' = [rtms EXCEPT !.left = TRUE]
    /\ \/ host.phase = "disconnect"
          /\ host' = [phase |-> "running", backlog |-> Append(host.backlog, "disconnected")]
       \/ host.phase = "cleanup"
          /\ host' = [host EXCEPT !.phase = "post"]
    /\ UNCHANGED <<session, stream>>

\* The end of cleanup: the recording is uploaded and the utterances are waited
\* for (Transcription); then the session is over, and so is the process.
FinishesUp ==
    /\ host.phase = "post"
    /\ host' = [host EXCEPT !.phase = "done"]
    /\ IF session.state = "POST_PROCESSING" THEN session' \in SessionAfter("POST_PROCESSING_COMPLETED")
       ELSE UNCHANGED session
    /\ rtms' = NewRtms
    /\ UNCHANGED <<stream, appPast>>

-----------------------------------------------------------------------------
(* The controller. *)

\* take_action_based_on_bot_in_db: a request on which somebody acted already
\* raises. Initializes and Disconnects say where the main loop goes on.
ActsOnRow(box) ==
    /\ ~session.taken
    /\ \/ session.state = "CONNECTING" /\ Initializes(box)
       \/ session.state = "DISCONNECTING" /\ Disconnects(box)
    /\ session' = [session EXCEPT !.taken = TRUE]
NothingToDo == session.state \notin {"CONNECTING", "DISCONNECTING"}

\* on_main_loop_timeout raises, or the process is told to terminate.
FailsFatally ==
    /\ Created("FATAL_ERROR") \/ Refused("FATAL_ERROR")
    /\ host' = [phase |-> "cleanup", backlog |-> <<>>]
    /\ AsksToStop

FirstTurn ==
    /\ host.phase = "first"
    /\ \/ ActsOnRow(host.backlog)
       \/ NothingToDo /\ host' = [host EXCEPT !.phase = "running"] /\ UNCHANGED <<session, rtms, appPast>>
       \/ ~NothingToDo /\ session.taken /\ FailsFatally
    /\ UNCHANGED stream

\* The main loop takes an idle callback. An exception in one ends it, not the loop.
Takes(m) == host.phase = "running" /\ host.backlog # <<>> /\ Head(host.backlog) = m
Drops == host' = [host EXCEPT !.backlog = Tail(@)] /\ UNCHANGED <<rtms, appPast>>

TakesConnected ==
    /\ Takes("connected")
    /\ Created("APP_SESSION_CONNECTED") \/ Refused("APP_SESSION_CONNECTED")
    /\ Drops
    /\ UNCHANGED stream

\* Whoever asked first acts: a request of the API comes with a command of its own.
TakesDisconnectRequested ==
    /\ Takes("disconnect_requested")
    /\ \/ /\ \E row \in SessionAfter("APP_SESSION_DISCONNECT_REQUESTED") :
               session' = [row EXCEPT !.taken = TRUE]
          /\ Disconnects(Tail(host.backlog))
       \/ Refused("APP_SESSION_DISCONNECT_REQUESTED") /\ Drops
    /\ UNCHANGED stream

TakesDisconnected ==
    /\ Takes("disconnected")
    /\ \/ Created("APP_SESSION_DISCONNECTED") /\ ControllerCleansUp
       \/ Refused("APP_SESSION_DISCONNECTED") /\ Drops
    /\ UNCHANGED stream

\* handle_rtms_json_message of a streamUpdate.
TakesStreamEnded ==
    /\ Takes("stream_ended")
    /\ host' = [host EXCEPT !.backlog = Append(Tail(@), "disconnect_requested")]
    /\ UNCHANGED <<session, rtms, stream, appPast>>

TakesSync ==
    /\ Takes("sync")
    /\ \/ ActsOnRow(Tail(host.backlog))
       \/ (NothingToDo \/ session.taken) /\ Drops /\ UNCHANGED session
    /\ UNCHANGED stream

HostStep ==
    \/ FirstTurn \/ TakesConnected \/ TakesDisconnectRequested \/ TakesDisconnected
    \/ TakesStreamEnded \/ TakesSync \/ JoinReturns \/ FinishesUp

-----------------------------------------------------------------------------
(* The client's thread. *)

ClientStarts ==
    /\ rtms.client = "thread"
    /\ rtms' = [rtms EXCEPT !.client = "connecting"]
    /\ UNCHANGED <<session, host, stream, appPast>>

\* The callback of request_shutdown, on the client's own loop.
StopsClient ==
    /\ rtms.shutdown /\ LoopRuns
    /\ rtms' = [rtms EXCEPT !.closing = TRUE, !.shutdown = FALSE]
    /\ UNCHANGED <<session, host, stream, appPast>>

SignalingOpens ==
    /\ rtms.client = "connecting"
    /\ rtms' = [rtms EXCEPT !.client = "open"]
    /\ UNCHANGED <<session, host, stream, appPast>>

\* Mutant of Exits: only the end of the stream is told, not the end of the client.
ExitsSilently ==
    /\ rtms' = [rtms EXCEPT !.client = "exited", !.media = "closed", !.closing = TRUE]
    /\ UNCHANGED host

\* The signaling websocket is over, and with it run(), which cancels the other.
\* handle_rtms_exit tells, unless the session is being disconnected.
Exits ==
    /\ rtms' = [rtms EXCEPT !.client = "exited", !.media = "closed", !.closing = TRUE]
    /\ IF rtms.left \/ rtms.cleaned THEN UNCHANGED host ELSE Tells("disconnect_requested")

ClientExits ==
    /\ rtms.client = "open" /\ (rtms.closing \/ (~stream.up /\ stream.told))
    /\ Exits
    /\ UNCHANGED <<session, stream, appPast>>

SignalingDies ==
    /\ LoopRuns /\ Troubles
    /\ Exits
    /\ UNCHANGED <<session, stream>>

\* The answer to the handshake names the media server.
MediaConnects ==
    /\ rtms.client = "open" /\ ~rtms.closing /\ rtms.media = "none"
    /\ rtms' = [rtms EXCEPT !.media = "connecting"]
    /\ UNCHANGED <<session, host, stream, appPast>>

MediaOpens ==
    /\ rtms.media = "connecting"
    /\ rtms' = [rtms EXCEPT !.media = "open"]
    /\ UNCHANGED <<session, host, stream, appPast>>

\* A media websocket that fails is told of, one that the server closes is not.
MediaDies ==
    /\ rtms.media \in {"connecting", "open"} /\ Troubles
    /\ rtms' = [rtms EXCEPT !.media = "closed"]
    /\ Tells("disconnect_requested") \/ (rtms.media = "open" /\ UNCHANGED host)
    /\ UNCHANGED <<session, stream>>

\* Mutant of TakesFrames: the media websocket's loop does not look at _closing.
TakesFramesToTheEnd == rtms.media = "open"

\* Audio and video go on to the pipeline as long as nobody asked to stop.
TakesFrames == rtms.media = "open" /\ ~rtms.closing
FrameArrives ==
    /\ TakesFrames /\ stream.up
    /\ appPast' = [appPast EXCEPT !.late = @ \/ (rtms.left /\ ~appPast.missed)]
    /\ UNCHANGED <<session, host, rtms, stream>>

SignalingTellsEnd ==
    /\ rtms.client = "open" /\ ~rtms.closing /\ ~stream.up /\ ~stream.told
    /\ stream' = [stream EXCEPT !.told = TRUE]
    /\ Tells("stream_ended")
    /\ UNCHANGED <<session, rtms, appPast>>

ClientStep == ClientStarts \/ StopsClient \/ SignalingOpens \/ ClientExits \/ SignalingTellsEnd

-----------------------------------------------------------------------------
(* The API, Zoom, and what happens to the process. *)

\* AppSessionEndView: the request, which is committed, and then the command that
\* tells the process.
EndSession ==
    /\ Created("APP_SESSION_DISCONNECT_REQUESTED")
    /\ appPast' = [appPast EXCEPT !.command = "sent"]
    /\ UNCHANGED <<host, rtms, stream>>

\* redis_listener puts it in the main loop; a process that is gone does not listen.
EndCommandArrives ==
    /\ appPast.command = "sent"
    /\ appPast' = [appPast EXCEPT !.command = "none"]
    /\ Tells("sync")
    /\ UNCHANGED <<session, rtms, stream>>

\* The view dies or cannot publish it, or redis_listener is reconnecting or over.
EndCommandLost ==
    /\ appPast.command = "sent" /\ appPast.trouble < MaxAppTrouble
    /\ appPast' = [appPast EXCEPT !.trouble = @ + 1, !.command = "lost"]
    /\ UNCHANGED <<session, host, rtms, stream>>

StreamEnds ==
    /\ stream.up
    /\ stream' = [stream EXCEPT !.up = FALSE]
    /\ UNCHANGED <<session, host, rtms, appPast>>

TurnFails ==
    /\ host.phase = "running"
    /\ FailsFatally
    /\ UNCHANGED stream

HostDies ==
    /\ host.phase \notin {"done", "dead"} /\ Troubles
    /\ host' = [phase |-> "dead", backlog |-> <<>>]
    /\ rtms' = NewRtms
    /\ UNCHANGED <<session, stream>>

\* Celery delivers run_bot again: a new process, which begins with the row.
RunAgain ==
    /\ host.phase = "dead" /\ session.state \notin PostMeetingStates
    /\ host' = [host EXCEPT !.phase = "first"]
    /\ UNCHANGED <<session, rtms, stream, appPast>>

\* The heartbeat of a session without a process times out.
SessionReaped ==
    /\ host.phase = "dead" /\ session.state \notin PostMeetingStates
    /\ Created("FATAL_ERROR")
    /\ UNCHANGED <<host, rtms, stream, appPast>>

AppNext ==
    \/ HostStep \/ ClientStep
    \/ SignalingDies \/ MediaConnects \/ MediaOpens \/ MediaDies \/ FrameArrives
    \/ EndSession \/ EndCommandArrives \/ EndCommandLost \/ StreamEnds \/ TurnFails \/ HostDies \/ RunAgain \/ SessionReaped

AppSpec == AppInit /\ [][AppNext]_appVars

-----------------------------------------------------------------------------
\* The process was started again after it had connected, and does not connect.
Forsaken ==
    /\ session.state \in {"CONNECTED", "POST_PROCESSING"} /\ rtms.client = "none"
    /\ host.phase = "running"

\* The command to disconnect is lost, and nothing else will tell the process: a
\* second request is refused, and so is what the client asks for.
Unheard ==
    /\ session.state = "DISCONNECTING" /\ ~session.taken
    /\ host.phase = "running" /\ appPast.command = "lost"

AskedToEnd == session.state = "DISCONNECTING" \/ rtms.client = "exited"
HasEnded == session.state \in PostMeetingStates \/ Forsaken \/ Unheard

\* A session whose end was asked for ends, and so does one that has lost its
\* stream, whoever noticed first and whoever else asked; all but one whose
\* process was started again after it had connected, which does not connect, and
\* one whose process never heard the command.
SessionEnds == AskedToEnd ~> HasEnded

\* Waits for the main loop.
Queued(m) == \E i \in DOMAIN host.backlog : host.backlog[i] = m

\* A session that was told to end, or has lost its stream, is on its way out: the
\* message that has the main loop go on is there, or under way; a request on which
\* somebody has acted is followed by the message that the adapter has disconnected,
\* and no process is done before its session is over
\* (take_action_based_on_bot_in_db and on_message_from_adapter, which raise if they
\* come second, and the loop that goes on without them). The one exception is a
\* session whose command was lost: the code sends no other.
EndIsComing ==
    /\ host.phase = "done" => session.state \in PostMeetingStates
    /\ host.phase = "running" /\ AskedToEnd /\ ~HasEnded =>
         IF session.state # "DISCONNECTING" THEN Queued("disconnect_requested")
         ELSE IF session.taken THEN Queued("disconnected")
         ELSE Queued("sync") \/ appPast.command = "sent"

\* Once the adapter has disconnected, no frame reaches the recording, although
\* the wait for the client's thread is limited; all but that of a client that was
\* asked to stop before its loop ran, or whose loop was kept from seeing it.
NothingAfterDisconnect == ~appPast.late
=============================================================================
