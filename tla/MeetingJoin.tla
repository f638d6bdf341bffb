----------------------------- MODULE MeetingJoin -----------------------------
(***************************************************************************)
(* How a browser gets into a meeting: the thread                           *)
(* repeatedly_attempt_to_join_meeting of src/bots/web_bot_adapter, with    *)
(* the steps and the failures of the Google Meet, Teams and Zoom web       *)
(* adapters, beside the websocket thread that hears from the page and the  *)
(* main loop that may tell the adapter to leave and to clean up meanwhile. *)
(* A step of the thread is a stage of an attempt, which succeeds or raises *)
(* an exception, and an exception is handled where it is raised.           *)
(***************************************************************************)
EXTENDS Naturals, Sequences

CONSTANTS
    MaxJoinRetries,     \* max_retries (the code: 3)
    ExpectedPerRestart, \* expected exceptions until a new pod is wanted (the code: 5)
    MaxGenericErrors,   \* ZOOM_WEB_MAX_GENERIC_JOIN_ERROR_RETRIES (the code: 3)
    MaxUntold           \* bounds the messages that wait while the page sends another

ASSUME MeetingJoinAssumption ==
    /\ MaxJoinRetries \in Nat
    /\ ExpectedPerRestart \in Nat \ {0}
    /\ MaxGenericErrors \in Nat /\ MaxUntold \in Nat

VARIABLES
    joiner, \* the thread: platform, pc, stage, and the counters of its loop
    page,   \* the browser: its driver, whether it is in the meeting, what it met
    web,    \* left_meeting, cleaned_up, recording_permission_granted_at
    told    \* messages put in the main loop and not yet handled

joinVars == <<joiner, page, web, told>>

Platforms == {"google", "teams", "zoom_web"}

\* attempt_to_join_meeting of each platform.
GoogleStages == <<"login", "find", "name", "prepare", "ask", "wait", "host", "settle">>
TeamsStages == <<"login", "name", "prepare", "ask", "wait", "settle">>
ZoomWebStages == <<"ask", "wait", "settle">>
Stages == [google |-> GoogleStages, teams |-> TeamsStages, zoom_web |-> ZoomWebStages]

JoinTypeOK ==
    /\ joiner \in [platform : Platforms,
                   pc : {"off", "opening", "trying", "joined", "in", "gap", "over"},
                   stage : 1 .. 8, login : {"none", "available", "used"},
                   retries : 0 .. MaxJoinRetries, expected : 0 .. ExpectedPerRestart,
                   generic : 0 .. MaxGenericErrors, blocked : 0 .. 2,
                   hostUser : {"unseen", "missing", "overdue"}]
    /\ page \in [driver : {"none", "open", "closed"}, inside : BOOLEAN, met : BOOLEAN]
    /\ web \in [left : BOOLEAN, cleaned : BOOLEAN, granted : BOOLEAN]
    /\ told \in Seq({"joined", "granted", "denied", "could_not_join", "ui_failure", "blocked",
                     "auto_leave", "meeting_ended"})

JoinInit ==
    /\ joiner \in [platform : Platforms, pc : {"off"}, stage : {1},
                   login : {"none", "available", "used"}, retries : {0}, expected : {0},
                   generic : {0}, blocked : {0}, hostUser : {"unseen"}]
    /\ joiner.platform = "zoom_web" => joiner.login = "none"
    /\ page = [driver |-> "none", inside |-> FALSE, met |-> FALSE]
    /\ web = [left |-> FALSE, cleaned |-> FALSE, granted |-> FALSE]
    /\ told = <<>>

-----------------------------------------------------------------------------
AtStage == Stages[joiner.platform][joiner.stage]
Trying(s) == joiner.pc = "trying" /\ AtStage = s
Tells(m) == told' = Append(told, m)
PageTells(m) ==
    /\ Len(told) <= MaxUntold
    /\ \A i \in 1 .. Len(told) : told[i] # m
    /\ Tells(m)

\* The exceptions of each platform's stages, but for those of elements that cannot
\* be found or clicked and those nobody foresaw, such as the ones of a driver that
\* was closed, which every stage may raise.
GoogleLogin == {"login_failed"}
TeamsLogin == {"login_failed"}
GoogleFind == {"not_found"}
GoogleName == {"blocked", "login_required", "login_failed"}
TeamsName == {"not_found"}
GooglePrepare == {"expected"}
GoogleAsk == {"expected"}
GoogleWait == {"blocked", "denied", "room_timeout"}
TeamsWait == {"login_required", "captcha", "denied", "expected", "room_timeout"}
ZoomWebWait == {"captcha", "wrong_password", "login_required", "no_host_user", "generic_error",
                "host_timeout", "room_timeout"}
GoogleHost == {"host_timeout"}

RaisedBy ==
    [google   |-> <<GoogleLogin, GoogleFind, GoogleName, GooglePrepare, GoogleAsk, GoogleWait,
                    GoogleHost, {}>>,
     teams    |-> <<TeamsLogin, TeamsName, {}, {}, TeamsWait, {}>>,
     zoom_web |-> <<{}, ZoomWebWait, {}>>]

\* Exceptions that end the thread with one message.
Fatal == {"login_failed", "denied", "room_timeout", "host_timeout", "not_found",
          "wrong_password", "captcha"}

\* A timeout of the waiting, for the host or to be let in.
IsWaitTimeout(k) == k = "room_timeout" \/ (k = "host_timeout" /\ AtStage = "wait")

\* The stage that the thread is in has this exception.
CanRaise(k) ==
    /\ joiner.pc = "trying" /\ page.driver = "open"
    /\ k \in RaisedBy[joiner.platform][joiner.stage]

\* Exception k can be raised now. A login can only fail where one was made; a
\* bot that has seen others in the meeting is not timed out; a captcha of Teams
\* asks for the login there is.
May(k) ==
    /\ CanRaise(k)
    /\ k = "login_failed" => joiner.login = "used"
    /\ IsWaitTimeout(k) => ~page.met
    /\ k = "captcha" => joiner.login # "available"

Retries(j) == joiner' = [j EXCEPT !.pc = "gap"] /\ UNCHANGED told
EndsWith(m, j) == Tells(m) /\ joiner' = [j EXCEPT !.pc = "over"]
EndsSilently == joiner' = [joiner EXCEPT !.pc = "over"] /\ UNCHANGED told

\* abort_join_attempt closes the window before a timeout of the waiting is raised.
RaisesFatal ==
    /\ \E k \in Fatal :
         /\ May(k)
         /\ page' = IF IsWaitTimeout(k) THEN [page EXCEPT !.driver = "closed"] ELSE page
    /\ EndsWith("could_not_join", joiner)
    /\ UNCHANGED web

\* The bot logs in, once, when the meeting requires it.
LoginRequired(j) ==
    IF j.login = "available"
    THEN Retries([j EXCEPT !.login = "used"])
    ELSE EndsWith("could_not_join", j)

RaisesLoginRequired ==
    /\ May("login_required") \/ (CanRaise("captcha") /\ joiner.login = "available")
    /\ LoginRequired(joiner)
    /\ UNCHANGED <<page, web>>

\* Mutant of Expected: these exceptions are not counted.
ExpectedUncounted(j) == Retries(j)

\* UiRetryableExpectedException: a retry, also of a bot that has left, and every
\* so often a new pod is wanted instead.
Expected(j) ==
    IF j.retries >= MaxJoinRetries THEN EndsWith("ui_failure", j)
    ELSE IF (j.expected + 1) % ExpectedPerRestart = 0
         THEN EndsWith("blocked", [j EXCEPT !.expected = @ + 1, !.retries = @ + 1])
         ELSE Retries([j EXCEPT !.expected = @ + 1])

RaisesExpected ==
    /\ May("expected")
    /\ Expected(joiner)
    /\ UNCHANGED <<page, web>>

\* Google shows the bot out: the second time that it happens to a bot that could
\* have logged in, it logs in.
RaisesBlocked ==
    /\ May("blocked")
    /\ LET j == [joiner EXCEPT !.blocked = IF @ < 2 THEN @ + 1 ELSE @]
       IN IF j.login = "available" /\ j.blocked > 1 THEN LoginRequired(j) ELSE Expected(j)
    /\ UNCHANGED <<page, web>>

\* UiAuthorizedUserNotInMeetingTimeoutExceededException: retried until the first
\* of them is too long ago.
RaisesNoHostUser ==
    /\ May("no_host_user")
    /\ CASE joiner.hostUser = "overdue" -> EndsWith("could_not_join", joiner)
         [] OTHER -> Retries([joiner EXCEPT !.hostUser = "missing"])
    /\ UNCHANGED <<page, web>>

\* handle_generic_join_error, and its exception that is always retried: so many
\* times, then the page's complaint is passed on and the thread waits on.
RaisesGenericError ==
    /\ May("generic_error")
    /\ joiner.generic < MaxGenericErrors
    /\ IF web.left \/ web.cleaned
         THEN EndsSilently
         ELSE Retries([joiner EXCEPT !.generic = @ + 1])
    /\ UNCHANGED <<page, web>>

\* UiRetryableException and every other exception.
Failure ==
    IF joiner.retries >= MaxJoinRetries THEN EndsWith("ui_failure", joiner)
    ELSE IF web.left \/ web.cleaned THEN EndsSilently
         ELSE Retries([joiner EXCEPT !.retries = @ + 1])

Fails ==
    /\ joiner.pc \in {"opening", "trying"}
    /\ Failure
    /\ UNCHANGED <<page, web>>

-----------------------------------------------------------------------------
(* The thread where nothing is raised. *)

\* sleep(1), in which a bot that is told to leave is not noticed.
NextAttempt ==
    /\ joiner.pc = "gap"
    /\ joiner' = [joiner EXCEPT !.pc = "opening"]
    /\ UNCHANGED <<page, web, told>>

\* init_driver closes the old browser and opens another. Until it is open there is
\* none that cleanup() could close.
CloseBrowser ==
    /\ joiner.pc = "opening" /\ page.driver # "none"
    /\ page' = [page EXCEPT !.driver = "none", !.inside = FALSE]
    /\ UNCHANGED <<joiner, web, told>>

OpenBrowser ==
    /\ joiner.pc = "opening" /\ page.driver = "none"
    /\ page' = [page EXCEPT !.driver = "open"]
    /\ joiner' = [joiner EXCEPT !.pc = "trying", !.stage = 1]
    /\ UNCHANGED <<web, told>>

\* The waiting is over when the bot is in the meeting; Teams also stops waiting
\* when its count of looks is used up after others were seen.
StageDone ==
    /\ joiner.pc = "trying" /\ page.driver = "open"
    /\ AtStage = "wait" => page.inside \/ (joiner.platform = "teams" /\ page.met)
    /\ joiner' = IF joiner.stage = Len(Stages[joiner.platform])
                 THEN [joiner EXCEPT !.pc = "joined"]
                 ELSE [joiner EXCEPT !.stage = @ + 1]
    /\ UNCHANGED <<page, web, told>>

\* after_bot_joined_meeting.
Joined ==
    /\ joiner.pc = "joined"
    /\ joiner' = [joiner EXCEPT !.pc = "in"]
    /\ Tells("joined")
    /\ UNCHANGED <<page, web>>

-----------------------------------------------------------------------------
(* The page, over the websocket. *)

\* The browser has asked to be let in, and is still there when the thread is not.
HasAsked ==
    /\ page.driver = "open" /\ joiner.pc \notin {"off", "opening", "gap"}
    /\ \E i \in 1 .. joiner.stage : Stages[joiner.platform][i] = "wait"
InMeeting == page.inside /\ HasAsked

\* The host lets the bot in.
Admitted ==
    /\ HasAsked /\ ~page.inside
    /\ page' = [page EXCEPT !.inside = TRUE]
    /\ UNCHANGED <<joiner, web, told>>

\* participants_info holds somebody else. It is never emptied, by a retry either.
MeetsOthers ==
    /\ InMeeting /\ ~page.met
    /\ page' = [page EXCEPT !.met = TRUE]
    /\ UNCHANGED <<joiner, web, told>>

\* handle_removed_from_meeting and handle_meeting_ended: a page that waits to be
\* let in sends their messages as well.
RemovedOrEnded ==
    /\ HasAsked
    /\ web' = [web EXCEPT !.left = TRUE]
    /\ PageTells("meeting_ended")
    /\ UNCHANGED <<joiner, page>>

\* handle_failed_to_join, also for a generic error after the last retry, and
\* could_not_enable_closed_captions.
PageFails ==
    /\ page.driver = "open"
    /\ \/ Trying("wait") /\ joiner.platform = "zoom_web" /\ PageTells("could_not_join")
       \/ Trying("settle") /\ PageTells("auto_leave")
    /\ UNCHANGED <<joiner, page, web>>

\* after_bot_can_record_meeting: once in, or when the host of a Zoom meeting says so.
MayRecord ==
    /\ joiner.pc = "in" \/ (joiner.platform = "zoom_web" /\ InMeeting)
    /\ ~web.granted
    /\ web' = [web EXCEPT !.granted = TRUE]
    /\ PageTells("granted")
    /\ UNCHANGED <<joiner, page>>

MayNotRecord ==
    /\ joiner.platform = "zoom_web" /\ InMeeting
    /\ PageTells("denied")
    /\ UNCHANGED <<joiner, page, web>>

\* Time passes for a bot whose host is not there.
HostUserOverdue ==
    /\ joiner.hostUser = "missing"
    /\ joiner' = [joiner EXCEPT !.hostUser = "overdue"]
    /\ UNCHANGED <<page, web, told>>

-----------------------------------------------------------------------------
(* The main loop. *)

\* init() starts the thread.
StartThread ==
    /\ joiner.pc = "off"
    /\ joiner' = [joiner EXCEPT !.pc = "opening"]
    /\ UNCHANGED <<page, web, told>>

\* Mutant of Leave: left_meeting is not looked at first.
LeaveAgain == Tells("meeting_ended") /\ web' = [web EXCEPT !.left = TRUE] /\ UNCHANGED <<joiner, page>>

\* leave(): the message goes out whatever the browser does.
Leave ==
    /\ ~web.left
    /\ Tells("meeting_ended")
    /\ web' = [web EXCEPT !.left = TRUE]
    /\ UNCHANGED <<joiner, page>>

\* cleanup(), after leave(): the browser is closed, if there is one.
CleanUp ==
    /\ web.left /\ ~web.cleaned
    /\ web' = [web EXCEPT !.cleaned = TRUE]
    /\ page' = [page EXCEPT !.driver = IF @ = "open" THEN "closed" ELSE @]
    /\ UNCHANGED <<joiner, told>>

\* check_auto_leave_conditions.
AutoLeaveDue ==
    /\ joiner.pc = "in" /\ ~web.left
    /\ PageTells("auto_leave")
    /\ UNCHANGED <<joiner, page, web>>

HandlesMessage ==
    /\ told # <<>>
    /\ told' = Tail(told)
    /\ UNCHANGED <<joiner, page, web>>

-----------------------------------------------------------------------------
Raising ==
    \/ RaisesFatal \/ RaisesLoginRequired \/ RaisesExpected \/ RaisesBlocked
    \/ RaisesNoHostUser \/ RaisesGenericError \/ Fails
JoinThread == Raising \/ NextAttempt \/ CloseBrowser \/ OpenBrowser \/ StageDone \/ Joined
PageSpeaks ==
    \/ Admitted \/ MeetsOthers \/ RemovedOrEnded \/ PageFails \/ MayRecord \/ MayNotRecord

JoinNext ==
    \/ JoinThread \/ PageSpeaks \/ HostUserOverdue
    \/ StartThread \/ Leave \/ CleanUp \/ AutoLeaveDue \/ HandlesMessage

JoinSpec == JoinInit /\ [][JoinNext]_joinVars

-----------------------------------------------------------------------------
\* Where the thread is, as the main loop sees it.
JoinPhase(j) ==
    CASE j.pc = "off" -> "idle" [] j.pc \in {"in", "over"} -> j.pc [] OTHER -> "joining"

AsAdapter == [phase |-> JoinPhase(joiner), left |-> web.left, granted |-> web.granted]

\* What the main loop may rely on: the thread ends with at most one message, a
\* bot that has left says so once, and nothing is told of a bot that was not sent.
Contract == INSTANCE MeetingAdapter WITH adapter <- AsAdapter, inbox <- told

ImplementsAdapter == Contract!AdapterSpec

\* The thread comes to an end, in the meeting or with its message, however often
\* it is shown out, asked to log in, refused or left to wait: no mix of the kinds
\* of exceptions that are retried goes on for ever.
JoinThreadEnds == (joiner.pc = "opening") ~> (joiner.pc \in {"in", "over"})
=============================================================================
