--------------------------- MODULE MediaRequests ---------------------------
(***************************************************************************)
(* What a bot is asked to say and show: the requests the API creates for   *)
(* audio, video and images, and the main loop that plays them, one handler *)
(* or monitor at a time, while new requests may come at any moment         *)
(* (src/bots/bot_controller, BotMediaRequestManager in src/bots/models.py).*)
(***************************************************************************)
EXTENDS Naturals, Sequences, FiniteSets

CONSTANTS
    MaxRequests,   \* bounds the requests
    MaxMediaFaults \* bounds the requests that fail to play

ASSUME MediaAssumption == MaxRequests \in Nat /\ MaxMediaFaults \in Nat

VARIABLES
    mediaRequests, \* the BotMediaRequest rows, in the order of their creation
    mediaCommand,  \* a sync_media_requests command is under way
    mediaStep,     \* what of that command is handled next
    shown,         \* the image request just shown
    playing,       \* what the audio and the video output manager play, 0 for nothing
    alive,         \* the main loop runs
    mediaFaults

mediaVars == <<mediaRequests, mediaCommand, mediaStep, shown, playing, alive, mediaFaults>>

MediaTypes == {"AUDIO", "VIDEO", "IMAGE"}
RequestStates == {"ENQUEUED", "PLAYING", "FINISHED", "FAILED_TO_PLAY", "DROPPED"}

MediaTypeOK ==
    /\ mediaRequests \in Seq([type : MediaTypes, state : RequestStates])
    /\ Len(mediaRequests) <= MaxRequests
    /\ mediaCommand \in BOOLEAN /\ alive \in BOOLEAN
    /\ mediaStep \in {"idle", "audio", "image", "drop", "video"}
    /\ shown \in 0 .. MaxRequests
    /\ playing \in [{"AUDIO", "VIDEO"} -> 0 .. MaxRequests]
    /\ mediaFaults \in 0 .. MaxMediaFaults

MediaInit ==
    /\ mediaRequests = <<>>
    /\ mediaCommand = FALSE
    /\ mediaStep = "idle"
    /\ shown = 0
    /\ playing = [m \in {"AUDIO", "VIDEO"} |-> 0]
    /\ alive = TRUE
    /\ mediaFaults = 0

InState(m, s) == {i \in 1 .. Len(mediaRequests) : mediaRequests[i] = [type |-> m, state |-> s]}
Oldest(S) == CHOOSE i \in S : \A j \in S : i <= j
Newest(S) == CHOOSE i \in S : \A j \in S : i >= j

\* Row i is saved in state s.
SetTo(rows, i, s) == [rows EXCEPT ![i].state = s]

-----------------------------------------------------------------------------
\* The API: a video waits for nothing to play, an image for no video to.
CreateRequest(m) ==
    /\ Len(mediaRequests) < MaxRequests
    /\ m = "VIDEO" => \A k \in MediaTypes : InState(k, "PLAYING") = {}
    /\ m = "IMAGE" => InState("VIDEO", "PLAYING") = {}
    /\ mediaRequests' = Append(mediaRequests, [type |-> m, state |-> "ENQUEUED"])
    /\ mediaCommand' = TRUE
    /\ UNCHANGED <<mediaStep, shown, playing, alive, mediaFaults>>

ReceiveMediaCommand ==
    /\ alive /\ mediaCommand /\ mediaStep = "idle"
    /\ mediaCommand' = FALSE
    /\ mediaStep' = "audio"
    /\ UNCHANGED <<mediaRequests, shown, playing, alive, mediaFaults>>

\* The oldest enqueued request of type m may be played now: nothing plays.
CanStart(m, rows) ==
    /\ \E i \in 1 .. Len(rows) : rows[i] = [type |-> m, state |-> "ENQUEUED"]
    /\ \A i \in 1 .. Len(rows) : rows[i] # [type |-> m, state |-> "PLAYING"]

NextOf(m, rows) ==
    Oldest({i \in 1 .. Len(rows) : rows[i] = [type |-> m, state |-> "ENQUEUED"]})

\* What starting the next request of type m on these rows comes to: the rows,
\* the request the output manager then plays (0: as before), and whether it
\* failed. The video manager notes what it plays before it plays it.
StartNext(m, rows) ==
    IF ~CanStart(m, rows) THEN {[rows |-> rows, current |-> 0, failed |-> FALSE]}
    ELSE LET i == NextOf(m, rows) IN
         {[rows |-> SetTo(rows, i, "PLAYING"), current |-> i, failed |-> FALSE]} \cup
         (IF mediaFaults = MaxMediaFaults THEN {}
          ELSE {[rows |-> SetTo(rows, i, "FAILED_TO_PLAY"),
                 current |-> IF m = "VIDEO" THEN i ELSE 0, failed |-> TRUE]})

Started(o) ==
    /\ mediaRequests' = o.rows
    /\ mediaFaults' = IF o.failed THEN mediaFaults + 1 ELSE mediaFaults

\* take_action_based_on_audio (or _video)_media_requests_in_db.
PlayNext(m) ==
    \E o \in StartNext(m, mediaRequests) :
        /\ Started(o)
        /\ playing' = IF o.current = 0 THEN playing ELSE [playing EXCEPT ![m] = o.current]

PlayAudio ==
    /\ mediaStep = "audio"
    /\ PlayNext("AUDIO")
    /\ mediaStep' = "image"
    /\ UNCHANGED <<mediaCommand, shown, alive>>

\* The image created last is shown at once.
ShowImage ==
    /\ mediaStep = "image"
    /\ LET waiting == InState("IMAGE", "ENQUEUED") IN
         IF waiting = {}
         THEN mediaStep' = "video" /\ UNCHANGED <<mediaRequests, shown, mediaFaults>>
         ELSE /\ mediaStep' = "drop"
              /\ shown' = Newest(waiting)
              /\ \/ /\ mediaRequests' = SetTo(mediaRequests, Newest(waiting), "FINISHED")
                    /\ UNCHANGED mediaFaults
                 \/ /\ mediaFaults < MaxMediaFaults
                    /\ mediaFaults' = mediaFaults + 1
                    /\ mediaRequests' = SetTo(mediaRequests, Newest(waiting), "FAILED_TO_PLAY")
    /\ UNCHANGED <<mediaCommand, playing, alive>>

\* The other enqueued images are dropped. They are queried only now, so that
\* an image that came since is dropped too.
DropImages ==
    /\ mediaStep = "drop"
    /\ mediaRequests' = [i \in 1 .. Len(mediaRequests) |->
                      IF i \in InState("IMAGE", "ENQUEUED") \ {shown}
                      THEN [mediaRequests[i] EXCEPT !.state = "DROPPED"] ELSE mediaRequests[i]]
    /\ mediaStep' = "video"
    /\ UNCHANGED <<mediaCommand, shown, playing, alive, mediaFaults>>

PlayVideo ==
    /\ mediaStep = "video"
    /\ PlayNext("VIDEO")
    /\ mediaStep' = "idle"
    /\ UNCHANGED <<mediaCommand, shown, alive>>

-----------------------------------------------------------------------------
Finished(m) == SetTo(mediaRequests, playing[m], "FINISHED")

\* Mutant of AudioFinished: cleared after the callback, as for videos.
AudioFinishedThenCleared ==
    /\ alive /\ mediaStep = "idle" /\ playing["AUDIO"] # 0
    /\ \E o \in StartNext("AUDIO", Finished("AUDIO")) : Started(o)
    /\ playing' = [playing EXCEPT !["AUDIO"] = 0]
    /\ UNCHANGED <<mediaCommand, mediaStep, shown, alive>>

\* monitor_currently_playing_audio_media_request: the request's time is over;
\* it is cleared, and the callback finishes it and plays the next one.
AudioFinished ==
    /\ alive /\ mediaStep = "idle" /\ playing["AUDIO"] # 0
    /\ \E o \in StartNext("AUDIO", Finished("AUDIO")) :
         Started(o) /\ playing' = [playing EXCEPT !["AUDIO"] = o.current]
    /\ UNCHANGED <<mediaCommand, mediaStep, shown, alive>>

\* monitor_currently_playing_video_media_request: the video is over. The
\* callback finishes it and plays the next one, and only then the manager
\* forgets what it plays.
VideoFinished ==
    /\ alive /\ mediaStep = "idle" /\ playing["VIDEO"] # 0
    /\ mediaRequests[playing["VIDEO"]].state = "PLAYING"
    /\ \E o \in StartNext("VIDEO", Finished("VIDEO")) : Started(o)
    /\ playing' = [playing EXCEPT !["VIDEO"] = 0]
    /\ UNCHANGED <<mediaCommand, mediaStep, shown, alive>>

\* A video that failed to play cannot be finished: ValueError in the timeout of
\* the main loop, which ends the session.
FailedVideoFinished ==
    /\ alive /\ mediaStep = "idle" /\ playing["VIDEO"] # 0
    /\ mediaRequests[playing["VIDEO"]].state = "FAILED_TO_PLAY"
    /\ alive' = FALSE
    /\ UNCHANGED <<mediaRequests, mediaCommand, mediaStep, shown, playing, mediaFaults>>

MediaLoop ==
    \/ ReceiveMediaCommand
    \/ PlayAudio \/ ShowImage \/ DropImages \/ PlayVideo
    \/ AudioFinished \/ VideoFinished \/ FailedVideoFinished

MediaNext ==
    \/ \E m \in MediaTypes : CreateRequest(m)
    \/ MediaLoop

MediaSpec == MediaInit /\ [][MediaNext]_mediaVars

-----------------------------------------------------------------------------
\* Requests to speak are played in the order in which they were made, whichever
\* of the commands and the finished requests starts the next one.
PlayedInOrder ==
    \A i, j \in 1 .. Len(mediaRequests) :
        /\ i < j
        /\ mediaRequests[i].type = mediaRequests[j].type /\ mediaRequests[i].type # "IMAGE"
        /\ mediaRequests[j].state # "ENQUEUED"
        => mediaRequests[i].state # "ENQUEUED"

\* What the database says is being said, the audio manager will finish: its
\* request never stays PLAYING and in the way of the next ones.
PlayingIsMonitored == InState("AUDIO", "PLAYING") \subseteq {playing["AUDIO"]}

\* An image is dropped only because another one was shown, and nothing but an
\* image is dropped.
DroppedForAnother ==
    \A i \in 1 .. Len(mediaRequests) : mediaRequests[i].state = "DROPPED" =>
        /\ mediaRequests[i].type = "IMAGE"
        /\ \E j \in 1 .. Len(mediaRequests) : /\ mediaRequests[j].type = "IMAGE"
                                             /\ mediaRequests[j].state \in {"FINISHED", "FAILED_TO_PLAY"}

\* What the meeting hears and sees of the requests.
PlayedInTurn == PlayedInOrder /\ PlayingIsMonitored /\ DroppedForAnother
=============================================================================
