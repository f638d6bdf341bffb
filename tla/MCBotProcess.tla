---------------------------- MODULE MCBotProcess ----------------------------
(***************************************************************************)
(* Instances for TLC of a bot's process: how it moves the bot, how it      *)
(* plays the media it is asked to, how a session without a bot listens     *)
(* through Zoom's streams, and, after the meeting, how the workers         *)
(* summarise it. They share no variable; a behaviour is one of one of      *)
(* them, which part chooses.                                               *)
(***************************************************************************)
EXTENDS BotProcess, MediaRequests, AppSession, SummaryGeneration

VARIABLE part

allVars == <<part, processVars, mediaVars, appVars, vars>>

OnlyProcess == part = "process" /\ UNCHANGED <<part, mediaVars, appVars, vars>>
OnlyMedia == part = "media" /\ UNCHANGED <<part, processVars, appVars, vars>>
OnlyApp == part = "app" /\ UNCHANGED <<part, processVars, mediaVars, vars>>
OnlySummary == part = "summary" /\ UNCHANGED <<part, processVars, mediaVars, appVars>>

AllInit ==
    /\ part \in {"process", "media", "app", "summary"}
    /\ ProcessInit /\ MediaInit /\ AppInit /\ Init
    /\ part = "process" \/ bot.state = "READY"

AllNext ==
    \/ OnlyProcess /\ ProcessNext
    \/ OnlyMedia /\ MediaNext
    \/ OnlyApp /\ AppNext
    \/ OnlySummary /\ Next

\* The process, the browser, the restart task, the clean-up commands and
\* the delivery of a command go on with what they do, and so do the client of
\* Zoom's streams and the reaper of sessions; meetings need not end.
AllSpec ==
    /\ AllInit /\ [][AllNext]_allVars
    /\ WF_processVars(part = "process" /\ MainLoop)
    /\ WF_processVars(part = "process" /\ BrowserJoins)
    /\ WF_processVars(part = "process" /\ CommandArrives("sync"))
    /\ WF_processVars(part = "process" /\ Restart)
    /\ WF_processVars(part = "process" /\ CleanUpCommand)
    /\ WF_appVars(part = "app" /\ HostStep)
    /\ WF_appVars(part = "app" /\ ClientStep)
    /\ WF_appVars(part = "app" /\ EndCommandArrives)
    /\ WF_appVars(part = "app" /\ SessionReaped)

-----------------------------------------------------------------------------
\* A session that is told to end ends, and its process with it, whether a bot
\* has to leave its meeting or a client of Zoom's streams to disconnect: both
\* LeaveIsObeyed and SessionEnds, since only one of the parts ever moves.
EndsAsAsked == (AskedToLeave \/ AskedToEnd) ~> (HasLeft \/ HasEnded)
=============================================================================
