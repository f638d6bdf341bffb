# A verification project for Attendee

Attendee runs meeting bots: a REST API creates a bot, a process joins the meeting
and records it, workers transcribe and summarize, a ledger charges for the time.
It also takes the audio of a *local session* straight from a desktop client. All
of it is Django and Celery over PostgreSQL and Redis: the interesting state is in
rows and keys that several processes read, think about, and write.

The TLA+ modules here model that state and the handlers that change it, TLC
checks them on small instances, and TLAPS proves the safety properties for every
size. `PROJECT.json` lists the components, the runs, the source lines of every
definition, the hazards, the findings and the theorems.

## 1. Inventory

State is in `src/bots/models.py` unless another file is named.

| Component | State | Operations | What is hard | What makes it correct | Here |
|---|---|---|---|---|---|
| Bot event manager | `Bot.state`, `BotEvent` rows, `Recording.state`, heartbeat, charge | `create_event` with its table of transitions and hooks, `set_heartbeat` | called by API views, scheduler, clean-up commands and the bot's process at once; optimistic versions, bounded retries | each event is atomic; log, recordings and charge agree with the state; an ended session stays ended | `BotStates`, `BotTransitions`, `AtomicLifecycle`, `BotLifecycle` |
| Credit ledger | `CreditTransaction` chain, `Organization.centicredits` | `create_transaction`, Stripe webhook, settings views | two unique constraints, a version, deliveries repeated | one chain, balance equals its sum, nothing billed twice | `CreditLedger` |
| Bot admission, recovery, scheduler, launching | rows of bots, `meeting_dedup_key` and its unique constraint, `join_at` | create, PATCH, delete, replace a dead bot, stage, launch, launch again | redelivered tasks against PATCH and DELETE; two replacements and a late bot | one bot in the meeting, replacements capped, nobody staged early | `BotAdmission` |
| Bot controller | the process's state, `requested_bot_action_taken_at`, commands in Redis (`bot_controller/`) | main loop, adapter messages, commands, automatic leave, cleanup, restart of the pod | restarts between request and action; the API moves the rows meanwhile | rows move as the life cycle allows, the pipeline records what the rows say, one join per pod, who is told to leave ends | `BotProcess` |
| Media requests | `BotMediaRequest` rows and the audio, video and image managers | request, play, finish, fail | several requests of one type, failures during a play | played in the order asked, none left PLAYING | `MediaRequests` |
| Meeting adapters | browser, SDK and stream state (`*_adapter/`) | join, wait, retry, leave, pause, resume, callbacks | threads, timers, outside programs, callbacks out of their expected order | at most one message, nothing recorded that the row denies, nothing heard after the end | `MeetingAdapter`, `MeetingJoin`, `ZoomAdapter`, `AppSession` |
| Transcription of a recording | `Utterance` rows, `Recording.transcription_state` | `process_utterance`, end of meeting, retry request, audio clean-up | cached rows, whole-row saves, retries, redelivery | complete means transcribed; nobody waits without a task | `Transcription` |
| Transcription of a local session | the same, and groups of utterances | `process_local_utterance_group`, its fallback, `finalize_local_session` | who completes last; replays | the same, and a closed session settles | `LocalTranscription` |
| Local session audio | Redis queue, tail, lock, group per source (`local_session_store.py`) | upload, stop, drain, finalize, dispatch | locks with a time to live, destructive pops, replays, uploads after the stop | a drain alone at its source; no speech lost or cut twice; nothing cut after the close but what came late | `LocalSession` |
| Async transcription | `AsyncTranscription` row and its utterances | request, create, check, terminate, delete | time limit against late results, redelivery | complete means all words; its end is final | `AsyncTranscription` |
| Meeting summary | `Bot.summary*` columns | claim, finish, reaper, regenerate, `delete_data`, PATCH | late workers, redelivery, columns written past the version | a summary never outlives its transcript | `SummaryGeneration` |
| Webhooks | `WebhookDeliveryAttempt` | `trigger_webhook`, `deliver_webhook` | count after send, redelivery, rate limit | at least once, in bounded attempts | `Webhooks` |
| Autopay | `autopay_charge_task_enqueued_at`, failure data | scheduler query, `autopay_charge`, Stripe webhooks, settings | charge while a payment is on its way | one payment for one task | `Autopay` |
| Calendars | `Calendar` row, events, their bots | notifications, scheduler, `sync_calendar` | overlapping syncs | no older event comes back, the bot follows its event | `CalendarSync` |
| Bots API, meetings API, dashboard, retention, pods | rows of the components above | views and commands | they share the rows | the actions that change state are in the models above | partly |
| Webpage streamer, transcription providers, Zoom OAuth, signed-in bots, deployment, migrations, tests | none of their own, or an outside service | | | input and output of the models | not modelled |

How they interact: the bot's process, API views and commands call `create_event`;
its hooks start and end recordings (`RecordingManager`), charge
(`CreditTransactionManager`) and trigger webhooks; a recording that ends decides its
transcription's state from the utterances, a transcription that completes enqueues
`generate_meeting_summary`. A bot's process talks to its adapter by calls and gets
messages back on its main loop; the API reaches it through Redis. A local session has
no process: uploads fill Redis, drains cut rows, groups are sent to the provider,
finalize closes. The shared memory is always a row or a key; every handler may run in
several copies, may die at any point, and (with `CELERY_TASK_ACKS_LATE`,
`src/attendee/settings/production.py:23-26`) is then delivered again.

Two ideas of the code recur in the models:

- *Versioned rows* (`Bot`, `Recording`, `Organization`, `Calendar`,
  `AsyncTranscription`): a save fails if another save came since the read. A version
  number is compared only with the one a process read, so the models keep the set of
  processes whose copy is current (`fresh`, `recFresh`, `refreshed`, ...) and need no
  bound on versions.
- *Unversioned rows* (`Utterance`, columns written by `.update()`): a save writes
  the whole copy, whatever happened since. The models keep the copy.

## 2. Modules

### BotStates, BotTransitions, AtomicLifecycle, BotLifecycle

`BotStates` is the enumeration of states and events and `VALID_TRANSITIONS`
(`From`, `FixedTarget`, the breakout room functions). `BotTransitions` is what one
event does: `Target`, the recording its hook leaves (`RecordingsAfter`, empty when
the hook raises), whether it ends the session and is charged.

`AtomicLifecycle` is the abstract specification: an event that is allowed happens
in one step. `BotLifecycle` is the code: a caller begins a transaction
(`Call`, `Refresh`), checks the table, saves the row under its version
(`Save`, `SaveConflict`), runs the hooks (`HookFails`, `HookConflict`), inserts the
`BotEvent` and commits (`Commit`); a conflict rolls back and goes round again up to
`max_retries` (`RetryOrRaise`). `set_heartbeat` reads and saves the same row.
`SaveRecordingElsewhere` is a worker that saves the recording, which a hook's save
then finds changed. The database is PostgreSQL at READ COMMITTED: an UPDATE locks
the row (`lock`) until its transaction ends.

The session types BOT and APP_SESSION are modelled; LOCAL has two events of its
own and no process (see `LocalSession`). A hook's version conflict on the
organization's row is always possible (`Charged`), since the ledger is elsewhere.

### BotProcess

One bot in its meeting: the rows (state, recording, requested action), the process
with its main loop, the adapter (as far as the controller sees it), the restart task
and the clean-up command. `MainLoop` takes one callback at a time: a message of the
adapter, a command from Redis (`CommandArrives`), a timeout with its automatic leave.
`BrowserJoins` and the adapter's other messages come at any time; the pod may die
anywhere and is restarted (`Restart`) or its bot is ended (`CleanUpCommand`). The restart
task goes on when Kubernetes answers its questions with an error, so that a pod that still
runs may have its request opened again (`RestartReopens`), gives up when the old pod does not
go (`RestartGivesUp`), and logs a new pod that cannot be created (`RestartCannotCreate`). Each
event is one `ApplyEvent` of `BotTransitions`, which `BotLifecycle` justifies; the
module maps its state to one session of `AtomicLifecycle`
(`Lifecycle == INSTANCE AtomicLifecycle WITH ...`) and the refinement is the property
`ImplementsLifecycle`.

### MeetingAdapter, MeetingJoin, ZoomAdapter, AppSession, MediaRequests

`MeetingAdapter` is the abstract specification of what the controller needs from an
adapter's joining thread: it is sent, it tells the outcome once, it leaves.
`MeetingJoin` is the thread of the browser adapters (Google Meet, Teams, Zoom web)
with retries, logins, waiting rooms, timeouts and the cleanup that may run at the same
time; `JoinPhase` and `AsAdapter` map it to `MeetingAdapter` (`ImplementsAdapter`), and
`JoinThreadEnds` is what justifies that `BotProcess` may count on an answer from its
browser.

`ZoomAdapter` is the adapter of Zoom's native SDK: its callbacks, timers and the API's
commands all run on the main loop; the SDK is external and answers or not
(`SdkAnswers`). `backlog` are the callbacks the SDK has called for and the loop has not
taken. `AppSession` is a session that listens through Zoom's realtime streams: the
host, the controller's calls, the client's thread and its two websockets. The request of
the API is committed (`EndSession`) before its command is published, which arrives
(`EndCommandArrives`) or does not (`EndCommandLost`: the view dies, Redis refuses it, or
the listener is reconnecting or has ended). `EndIsComing` says by which message, queued or
on its way, the main loop is to hear of an end that was asked for; a session that never
heard of it (`Unheard`) is its exception. The wait for the client's thread ends after five
seconds, whether its loop has seen the request or not (`JoinReturns`).
`MediaRequests` is what the bot is asked to say, play and show: rows and managers.

### BotAdmission

The rows of the bots that want one meeting. Creation checks the unique constraint and
retries; a PATCH may move `join_at`, or replace the metadata, which cuts the lineage; a
bot that dies sends a message to the recovery task, which counts the dead bots of its
lineage in the last hour in one step and creates a replacement in a later one; the
scheduler stages what is due, launch tasks are delivered more than once, a daemon
launches again, a bot that was never launched is ended. A launch creates the pod, or
Kubernetes refuses it for whatever reason and the bot fails if it still can
(`Launches`). Identities are numbers, since a replacement refers to the bot it replaces
(`RootOf` follows the links).

### CreditLedger

A worker reads the organization, finds the leaf of the chain, inserts the next
`CreditTransaction` and saves the organization under its version, in a
transaction; an `IntegrityError` goes round again, a `RecordModifiedError` leaves
the call. `AtomicLedger` is the abstract specification, an account into which each charge
or payment is entered once, in one step with its balance; the committed transactions, in
the order of the chain, are its entries (`Account == INSTANCE AtomicLedger WITH ...`,
`ImplementsAccount`). Payments come from Stripe's webhook, which is delivered until it is
answered 200; charges from bots; a settings view saves the organization, too; an
administrator's adjustment may be made any number of times (`MaxRows` bounds it).

### Transcription, LocalTranscription, AsyncTranscription, SummaryGeneration

`Transcription`: the bot cuts utterances (`Cut`, `Mark`, `Send`), workers run
`process_utterance` (`Deliver`, `Transcribed`, `RetryableFailure`,
`PermanentFailure`, `Check`, `Refresh`, `SaveRecording`), the meeting ends
(`EndMeeting`, which decides COMPLETE, FAILED or leaves it), requests retry
(`AskRetry`, `ResetRow`, `SendAgain`), audio is cleaned up, processes die. A worker
keeps the copies of the utterance and of the recording that the task loaded.

`LocalTranscription` extends it with the group task (`GroupDeliver`,
`GroupAnswered`, `WriteRow`, `Settle`, and `FallBack`, which sends each row to
`process_utterance`) and `finalize_local_session` (`Finalize`, `Close`, `CloseSave`,
`CountAtClose`). `words` says whose speech each row holds: the provider's words are
cut by the durations of the rows over the audio that was joined (`Lands`).

`AsyncTranscription` is a transcription a customer asks for after the meeting: the
task creates utterances, a chain of checks counts them and ends the row by completion
or by its time limit; a redelivered task makes a second pass. Each check schedules the
next, so nobody else would come back to a transcription that has lost its task:
`AsyncLookedAfter`.

`SummaryGeneration`: `Claim` is the atomic PENDING to GENERATING, `Collect` reads the
transcript, `Finish` writes the outcome if the worker still owns the claim (`Owns`:
state and time stamp), `Reap` sets an old claim back to PENDING, `Regenerate` asks again,
`DeleteData` clears, `ReadRow`/`SaveRow` are a PATCH that saves every column under the
version. The prompt and the provider are one choice between success, failure and
skipping.

### LocalSession

One source's audio: a segment is its sequence number, `pauses` are the segments
that end an utterance (the VAD closes it there). `Upload` and `UploadAgain` push on
the queue, a drain takes the lock (`StartDrain`), pops a batch (`Take`), cuts rows
(`CutRow`), marks the recording (`Mark`, `SaveMark`), gathers and sends the group
(`Gather`, `Hold`, `Clear`, `Dispatch`), keeps the tail (`Keep`), unlocks and looks
again. `StartFinalize`, `LockForFinal` and `Close` are finalize. `Transcribe` stands
for `LocalTranscription`, which in turn leaves the drains to this module. A drain that
finds the lock held leaves its work to the holder; `NoUploadLeft` says that the holder, or
a drain that is due, has yet to look at whatever is queued (`Watched`).

A lock may expire at any time (`Expire`), under a drain at work, too: it lives 120 s and a
drain may run 300 s. The drain goes on, and deletes at its end whatever lock there is. From
then on two drains may be at work at one source, on one tail and one group. `overruns`
counts how often a lock expired under a drain, `met` collects the sources at which a drain
has begun beside another; what the properties say of a source they say until it is in
`met`, not only until a lock has expired. Uploads do not ask whether the session was
stopped. `late` are the segments that came after the stop was asked for, or that finalize
left in the queue because it pops one batch; `NoRowAfterClose`, `NoUploadLeft` and
`QueueDrains` except these segments and no others.

Simplified here: every segment holds speech; uploads of new segments are in order;
Celery's own bounds on a drain's (3) and finalize's (60) retries are left out;
several waiting drain tasks of a source are one; pause, resume, the idle reaper and
`LOCAL_SESSION_ENDED` are not actions. `close_reason`'s size and pause limits are a
choice between `Hold` and `Clear`.

### Webhooks, Autopay, CalendarSync

`Webhooks`: the attempt's row and its task are created when the transaction commits;
`deliver_webhook` may be delayed by the rate limit, posts, counts, saves and retries;
its worker may die at any point. `Autopay`: the scheduler enqueues under the versioned
row of the organization, the task charges with an idempotency key and records its
failure, Stripe's two webhooks credit and clear, a person's settings view resets.
`CalendarSync`: notifications and the scheduler request syncs; a sync reads the
calendar, commits its events and their bots under the calendar's version, fails and
is retried; an authentication failure disconnects.

## 3. Runs

An `MC*` module puts specifications next to each other, states the fairness and names
the symmetry; each `.cfg` is one run. The parts of a bundled module share no variable:
its specification lets one of them move, chosen at the start, so that a behaviour is a
behaviour of one part and a state is the state of one part. `PROJECT.json` has, for
every property of a passing run, a mutant of the code's definition that breaks it (the
operators called "Mutant of ...").

| Run | Shows | Bounds |
|---|---|---|
| `lifecycle` | `RowsAgree`; `ImplementsAtomic` (refinement of `AtomicLifecycle`) | either session type, 2 callers, 2 tries |
| `lifecycle_breakout` | finding | 2 callers |
| `transcription` | `CompleteMeansTranscribed`, `NobodyWaitsInVain` | 2 utterances, 2 workers, 2 overlapping requests, 2 attempts, 1 retry, 1 death |
| `transcription_settles` | finding | 2 utterances, 2 workers, 1 request, 3 retries, fairness, no death |
| `transcribing` | `LocalCompleteMeansTranscribed`, `NobodyForgotten`, `HeardWordsStay`; async: `AsyncCompleteHasAllWords`, `AsyncLookedAfter`; `TranscriptionsSettle` (both) | local session: 2 utterances, 2 workers, 2 attempts, 3 retries, 1 death, 2 stops; async: 2 chunks, 2 passes, 2 workers, 1 fault |
| `local_session_stop` | `NoUploadLeft`, `NoRowAfterClose`, `QueueDrains` | 2 sources of 1 segment, of which one pauses after every segment, batches of 1, 1 stop, and one trouble (`OneTrouble`): 1 replayed upload, 1 death, or 1 lock of each source that expires under a drain |
| `local_session_forgotten` | finding | 2 sources, 1 segment |
| `background` | local session: `SpeechOnce`, `RowsSentOnce`, `OneDrainOwnsTheTail`; `DeliveredWithinBounds`; autopay: `OnePaymentPerTask`, `AutopayTriedWhenItHelps`; calendar: `BotFollowsEvent`, `EventArrivesForGood`; Zoom's SDK: `RecordedAsSaid`, `AttemptsEnd` | 1 source, 3 segments in batches of 2, 2 workers, 1 replay, 1 death or 1 lock that expires under a drain (`DeathOrOverrun`); 1 webhook, 2 posts, 3 retries, 1 fault; 1 charge, 1 retry; 2 syncs, 2 revisions, 1 retry, 1 fault; 2 troubles, 1 waiting callback of the host |
| `bot_process` | bot: `JoinsAreCounted`, `ProcessMatchesRows`, `ImplementsLifecycle`; media: `PlayedInTurn`; app session: `NothingAfterDisconnect`, `EndIsComing`; summary: `SummaryDiesWithTranscript`; bot and app session: `EndsAsAsked` | 2 restarts, 2 troubles, 1 waiting command; 3 requests, 1 fault; 2 troubles; 2 workers, 2 requests, 2 claims |
| `admission` | bots: `OneBotInMeeting`, `ReplacementsAreCapped`, `StagedInTime`, `UnlaunchedLetsGo`; joining: `ImplementsAdapter`, `JoinThreadEnds`; ledger: `LedgerIsTrue`, `ImplementsAccount` (refinement of `AtomicLedger`), `CallsReturn` | 1 creator, 1 launcher, 1 replacement per hour, 3 bots, 1 message; all platforms and logins, 1 retry; 2 workers, 1 bot, 1 payment, adjustments, 3 tries |
| `rejoin`, `ledger_answer` | findings | as `admission`; 2 workers, 2 tries |

The runs do not repeat the type invariants (`TypeOK`, `WebhookTypeOK`, ...), one in each
module: each is a theorem of section 4.

Why the bounds are enough. A conflict needs two processes, and a third adds a loser
that behaves as the second; two tries show a retry after a conflict and the last try
that raises. Two utterances tell the last one from the others, which is what the
counting is about. Two segments per batch and three in all give a full batch, a
remainder and a replay below the last sequence; a batch of one and a replay leave something
that finalize does not pop. One death and its redelivery give two runs of one task; one lock
that expires under a drain lets a second one in, and the two deletions of the lock are those
of any number. One retry for two attempts leaves no retry to spare: the code has six
for five attempts. A bot, its replacement and a late bot are three; two revisions tell
an older event from a newer one. A trouble is a call that fails or a callback out of
turn: two of them give a recovery that fails. And where a safety property is a theorem
(section 4), no bound is needed. Each passing run visits between 0.2 and
2.5 million states. `CHECK_DEADLOCK FALSE` is said where the input (utterances,
segments, requests, troubles) is bounded and the system is at rest when it is done.

Fairness. Celery delivers what is queued and tasks have time limits: weak fairness of a
worker's steps. A meeting ends or its bot is reaped; a lock without a holder expires
(`Expire`); the scheduler's loop comes round (`SchedulerStep`, `PlannerStep`, `DayPasses`,
`HourPasses`), and so do the clean-up commands (`CleanUpCommand`, `CleanUpUnlaunched`,
`SessionReaped`). The process's main loop takes what waits (`MainLoop`, `MainLoopTakes`,
`HostStep`), a thread goes on (`JoinThread`, `ClientStep`), a command `sync` reaches the
process, a dead pod is restarted. Stripe answers (`StripeStep`); Zoom's SDK answers a
Join or a Leave (`SdkAnswers`), and where it loses one the property says so
(`stranded`). `CreditLedger` has strong fairness of a call's steps: PostgreSQL serves the
waiters of a row lock in turn. Nothing that a person, a meeting's host or a fault does is
fair.

Properties that name `crashes`, `asks`, `replayed`, `raised`, `met`, `late`, `stranded` or
`Unheard` hold as long as that has not happened, or except for what is in it; what happens
otherwise is in section 5.

## 4. Proofs

| Module | Theorems (with the run's property they state) | For every |
|---|---|---|
| `BotLifecycleProofs` | `LifecycleImplementsAtomic` (`ImplementsAtomic`), `LifecycleRowsCorrect` (`RowsAgree`), `LifecycleEndsForGood`, `LifecycleTypeCorrect`, `AtomicRowsCorrect`, `AtomicSessionEndsForGood` | set of callers, bound on retries |
| `BotProcessProofs` | `ProcessImplementsLifecycle` (`ImplementsLifecycle`), `JoinsCounted` (`JoinsAreCounted`), `ProcessAndRowsMatch` (`ProcessMatchesRows`), `ProcessTypeCorrect`, `DisconnectedHearsNothing` (`NothingAfterDisconnect`), `EndOfSessionIsComing` (`EndIsComing`), `AppTypeCorrect`, `RequestsPlayedInTurn` (`PlayedInTurn`), `MediaTypeCorrect` | number of restarts, troubles, commands, requests, faults |
| `AdmissionProofs` | `OneBotIsThere` (`OneBotInMeeting`), `ReplacementsStayCapped` (`ReplacementsAreCapped`), `StagedWhenDue` (`StagedInTime`), `AdmissionTypeCorrect`, `JoinKeepsContract` (`ImplementsAdapter`), `JoinTypeCorrect` | creators, launchers, bots, messages, hours, cap; platform, number of retries |
| `CreditLedgerProofs` | `LedgerCorrect` (`LedgerIsTrue`), `LedgerImplementsAccount` (`ImplementsAccount`), `LedgerTypeCorrect` | workers, bots, payments, amounts |
| `TranscriptionProofs` | `CompleteIsTranscribed` (`CompleteMeansTranscribed`), `WaitersAreServed` (`NobodyWaitsInVain`), `TextStays`, `StateMovesAsManaged`, `TranscriptionTypeCorrect`, `AsyncCompleteIsTranscribed` (`AsyncCompleteHasAllWords`), `AsyncIsLookedAfter` (`AsyncLookedAfter`), `AsyncEndsForGood`, `AsyncTypeCorrect` | utterances, workers, requests, attempts, retries, deaths; chunks, passes, faults |
| `LocalTranscriptionProofs` | `LocalCompleteIsTranscribed` (`LocalCompleteMeansTranscribed`), `LocalNobodyIsForgotten` (`NobodyForgotten`), `LocalHeardStays` (`HeardWordsStay`), `LocalTypeCorrect` | the same, and group attempts, stops |
| `LocalSessionProofs` | `TailHasOneOwner` (`OneDrainOwnsTheTail`), `RowsAreSentOnce` (`RowsSentOnce`), `SpeechIsWrittenOnce` (`SpeechOnce`), `NothingWrittenAfterClose` (`NoRowAfterClose`), `NobodyMissesAnUpload` (`NoUploadLeft`), `LocalSessionTypeCorrect` | sources, workers, segments, batch size, replays, stops, deaths, locks that expire under a drain |
| `BackgroundProofs` | `SummaryCorrect` (`SummaryDiesWithTranscript`), `DoneSummaryIsThere`, `SummaryTypeCorrect`, `WebhooksDelivered` (`DeliveredWithinBounds`), `ChargedOnce` (`OnePaymentPerTask`), `FailureStaysRecorded`, `EventBotFollows` (`BotFollowsEvent`), `EventNeverGoesBack`, `RecordsAsSaid` (`RecordedAsSaid`), `WebhookTypeCorrect`, `AutopayTypeCorrect`, `CalendarTypeCorrect`, `ZoomTypeCorrect` | workers, requests, webhooks, charges, syncs, retries, faults; moves, pauses, failures, waiting callbacks |

A name without a run's property is a further result of the same invariant.

*Life cycle.* The rows' invariant (`RowsInv`: the last event explains the state, the
recording is one the state allows, a breakout room was entered from a joined state, at
most one charge) is inductive for the atomic steps. For the code the invariant adds
`CallerInv`: the holder of the lock is the one caller in its hooks, and a caller whose
copy is current remembers the state the bot is in. With it every `Commit` is one
`ApplyEvent`, every `SaveHeartbeat` one `SetHeartbeat`, and all other steps stutter; the
row properties then follow from the abstract specification.

*Bot's process.* Every step is one event of the abstract life cycle, a heartbeat, or
nothing. What is to be shown is that the guard of the event holds of the row and not of
the process's copy; a restart takes a bot back, which `RowsInv` allows because a restart
task that has read the row fresh found it JOINING, whether Kubernetes deletes the old
pod, refuses to, or refuses the new one (`RestartGivesUp`, `RestartCannotCreate`).
`JoinBudget` counts the browser's joins that are still to come with those that were.
`StoryInv` is what makes `ProcessMatchesRows` inductive: the process of a bot that was
never launched does nothing (`NotYetLaunched`), what the adapter was granted and told
explains what the pipeline records (`RecordingFits`, `GrantedOnce`, `PipelineInv`), and
cleanup begins after the end only. For the app session (`AppInv`) a client that streams
has its media socket, a stop reaches the client that is there, and who was asked to
leave is closing. That its end is coming (`EndIsComing`) needs the course of the
session, `AdapterFollows` and `LoopFollows`: an adapter that was cleaned up has a row
that is past CONNECTED, a row that is DISCONNECTING has the message queued, or its
command on the way or lost, that goes with whether the process has acted on it, and a
client that has exited has told so. For the media (`MediaInv`) what a manager plays is
the row the database calls PLAYING, requests before it are finished, and a dropped image
had a successor.

*Admission.* To the rows every step is one of: a row goes on, a row is inserted, the dead
are counted, a bot dies, the hour passes. A row that lets go of the meeting's key never
takes it back (`SlotOK`); `LinksOK` says that links go to older, dead bots and that nobody
is replaced twice, so that a lineage is a line, of which only the last dead bot can have
been counted for. `RootOf` is a recursive function over identities; that it exists,
and that cutting a link only splits lineages, is shown by least elements. `CapOK` then
bounds what is there together with what was counted and not yet created. For joining, each
attempt's steps are summed up in one relation (`JoinStep`), which the mapping to
`MeetingAdapter` needs and which is the same for every platform. Its types need `GoesAbout`: a thread that goes on
has met fewer expected exceptions than call for a new pod.

*Ledger.* `LedgerIsChain` alone is not inductive: an insert was prepared from a copy
read long ago. `CopyInv` says what a worker with a current copy knows (the balance, and
that its leaf is the end of the chain), `LockInv` that at most one worker is between its
save and its commit, `KeyInv` that an uncommitted insert clashes with no other row. A
save that passes the version check therefore extends the chain it read. Under the mapping
to `AtomicLedger` a commit is then one entry, whatever was read, inserted and rolled back
before, and every other step is a stutter: what is saved and not committed is not yet
part of the account, and the balance is read off the committed rows.

*Transcription.* `CopyInv`: a process whose copy of the recording is current has checked
the state the recording is in, and `MeetingInv`: before the end of the meeting only the
bot writes that state, after it the bot does not; together they give the moves.
`TaskInv`: until a retry is asked for, an utterance has one task, in the queue, at a worker
or with the bot, so that nobody writes a row that has its text, and a count of zero
untranscribed utterances (`CountInv`) stays true from `Check` to `SaveRecording`.
`WaitInv` extends this over one retry request: what it takes had failed, and no failed
utterance had a task left, so there is still one task each. It needs
`MaxAttempts <= MaxRetries + 1`, as the code has it (five attempts, six retries,
`src/bots/tasks/process_utterance_task.py:82,100`). For async transcription (`AsyncInv`),
until the first task has got to the row there is one task and one pass; afterwards the
row's version decides. `AsyncLookedAfter` is not inductive: a worker whose save is going to
be refused looks as if it had the transcription in hand. `CarriedOn` leaves out the one for
whom nothing comes after the refusal, the handler of an exception, and `HandlersFail` says
that a handler writes nothing but FAILED, so that whoever made its copy stale has ended the
transcription or goes on with it.

*Local session's transcription.* `LocalInv`: an utterance is gathered, in one group, or
sent on its own, in one place, as long as no group came back after its fallback had
begun (`replayed`); then each row has one writer and the count at the close is right.
`HeardInv`: while no worker died, what is not sent on its own keeps its audio, and a
group in the queue was written as a whole or not at all. For the types, `WordsFit` says
that an answer that is being written has words for each row of its group.

*Local session's audio.* No theorem assumes anything of locks or of uploads. `CrewOK`: a
source has at work as many drains as have its lock or had it when it expired, and no
drain that deletes a lock adds to them. `OneAtWork`: where no drains have met, who
drains is alone, although its lock may be gone or be another's by now; the further
invariants speak of such sources. `GroupOK`: rows that a drain has cut and not yet
gathered, rows gathered, groups held and sent do not overlap and together are the rows.
`SpeechInv`: what was popped is in a row or waits, in order, as audio of the drain or
the tail; what was not popped is queued, and the first copies in the queue are in order.
`CloseOK`: what finalize has done so far says which sources are `Drained`, with nothing
queued, held or in a drain's hands but what is late, and they stay so.
`NobodyMissesAnUpload` needs neither that drains are alone nor that locks last: its
invariant (`Woken`) says that while no worker has died every lock has a drain at work
(`LockHeld`), so that a drain which finds a source locked leaves its queue to one that
is yet to look, and that all that is left when finalize has popped is late
(`FinalRests`). Both models of a local session have a conservation law,
`FinalizesAskedFor` and `LocalFinalizesAskedFor`: a finalize task is queued again
whenever it meets a lock, a conflict or its worker's death, and yet those that wait and
those that run are together no more than the stops that asked for them.

*Summary, webhooks, autopay, calendar.* `VoidedClaims` says that once the data is deleted a
worker that still holds text of the transcript owns no claim and no copy could give it
back, `CopiesOK` that the copy of a request that may still be saved was read after the
deletion, `StampsOK` that a running worker has a claim's stamp. `WebhookInv`: nothing is
sent before the commit, a pending attempt has its task, requests the endpoint saw are
counted or were lost to a fault. `AutopayInv`: a current copy is the row, and a task whose
intent exists has paid with its key. `CalendarInv`: a sync that may still commit listed
the calendar after loading its row.

*Zoom's SDK.* Each handler is right for the callback it takes; what makes them right
together is the order of those that wait. `InOrder`: after a move comes an arrival before
anything is permitted or denied, and between two permissions comes a denial. A bot on the
move therefore hears of its arrival first (`ArrivalFirst`), and one that records, or is
paused, of a denial before the next permission (`DenialFirst`), so that its row takes the
event for which the adapter has already acted (`EventTaken`), except for a paused bot on
the move, whose arrival raises (section 5). `AdapterFits` says what the row says, or will
say once the bot is back (`Returning`).

Assumptions of the constants are the named ASSUMEs of the modules (a positive number of
tries, a caller that is not the null value, workers that are not requests, integer
amounts); no theorem bounds the size of a set.

Model-checked only: liveness, that is `CallsReturn`, `UnlaunchedLetsGo`, `JoinThreadEnds`,
`QueueDrains`, `EndsAsAsked`, `AttemptsEnd` and the parts of `TranscriptionsSettle`,
`AutopayTriedWhenItHelps` and `EventArrivesForGood` that say something happens (what they
forbid is proved: `AsyncEndsForGood`, `FailureStaysRecorded`, `EventNeverGoesBack`). What
follows from fairness, and ENABLED, is beyond the prover. So are the library's induction
theorems that take an operator; where induction was needed (identities of bots, order of
segments) it is done by least elements of sets of numbers. Every other property of a
passing run is a theorem, and so is the type invariant of every module.

## 5. Where the code and what it says of itself differ

Each has a run that TLC refutes (`PROJECT.json`, "findings"):

- `lifecycle_breakout`: a paused bot cannot return from a breakout room; the hook of
  JOINED_RECORDING_PAUSED insists on a recording in progress.
- `ledger_answer`: a payment whose credit met a version conflict is answered 200.
- `transcription_settles`: a task that read the recording too early leaves it
  IN_PROGRESS.
- `local_session_forgotten`: two sources' first rows; the loser's row is in no group.
- `rejoin`: a bot that had left and died while post-processing is replaced by one that
  joins the meeting again.

Others were seen while the models were written, and are why some properties have a
condition. To see one, drop the condition or change the constant named.

Transcription and local sessions:

- `CompleteMeansTranscribed` without its condition on `asks`: `retry_failed_transcription`
  saves rows it read before (`bots_api_utils.py:671-675`), so overlapping requests, or one
  request and a redelivered task, erase words.
- `NobodyWaitsInVain` without `asks <= 1`: overlapping requests make two tasks of one
  utterance, and the one whose retries run out writes its row over the other's.
- `HeardWordsStay` without `crashes = 0`: a group task replayed after half its rows
  joins only the audio still there but cuts by all durations
  (`process_local_utterance_group_task.py:65-92`).
- `LocalCompleteMeansTranscribed`, `NobodyForgotten` without `~replayed`: a group
  delivered again after its fallback had begun gives one row two tasks; both may write
  it, and (2 utterances, 2 workers, 5 attempts, 6 retries, 1 death) both may run out of
  Celery's retries. The row then waits with no task; its audio remains.
- `RowsSentOnce`, `SpeechOnce` without `~raised`: a drain that leaves by an exception (two
  sources' first rows, or a recording already COMPLETE) loses what it had popped, and a
  replayed upload may then be cut into a second row of the same speech.
- A closed session may not settle without a death: finalize reads the recording before
  a fallback task, or dies between the save of the recording and the count.
- Without `crashes = 0` popped segments, and rows not yet gathered, are lost: they are
  only in the drain's memory.
- `OneDrainOwnsTheTail` with a bound of 1 and a lock that expires: the lock lives 120 s, a
  drain may run 300 s, and the lock is deleted without a token, against "Exactly one drain may
  own the tail" (`process_local_audio_segment_task.py:46`). Two drains of one source lose or
  double its speech, send a row twice, and cut rows after the close: `SpeechOnce`,
  `RowsSentOnce` and `NoRowAfterClose` without the condition on `met`.
- `NoRowAfterClose`, `NoUploadLeft`, `QueueDrains` without `late`: an upload after the stop,
  or a longer queue than finalize pops (`MAX_SEGMENTS_PER_DRAIN`,
  `local_session_store.py:27,140`), is cut into a row by a later drain, whose recording may
  be complete by then, or stays in the queue.
- `QueueDrains` with a death and no stop: the redelivered drain finds the dead
  drain's lock, exits, and nobody comes back until the next upload or the stop.
- The last group is not sent when the close finds no audio of its source.

Bots:

- A PATCH of a bot may write back GENERATING over a finished summary: the worker's
  `.update()` leaves the version alone (`SaveRow` after `ReadRow`).
- A bot patched to another `meeting_url` keeps the key of its old meeting
  (`bots_api_utils.py:471`).
- A command to the process is lost when nobody listens on its channel, and while the
  listener connects again (`bot_controller.py:946-962`). The row is what counts, but only a
  `sync` has the process look at it, and the views send it for a request that was accepted
  only: a second Leave is refused in LEAVING. The bot leaves when its meeting ends, or by the
  limit of 30 h on the run time (`stranded`, the condition of `EndsAsAsked`).
- A second video request while one plays stays PLAYING; a video that fails to play ends
  the bot.
- Webhooks: a delivery is repeated after a success when its worker dies before the row
  is saved. Autopay: a scheduler that dies between the task and its time stamp enqueues a
  second task, which has a key of its own. Calendars: a channel's expiration is compared
  in the wrong unit and lies in 1970.

Browser adapters:

- `left_meeting` and `cleaned_up` are looked at before `sleep(1)` and the start of the
  driver, and until it has started cleanup finds no driver to close: a bot told to leave in
  this gap opens a browser, joins after its cleanup, and stays until the process ends.
- Some retries (a login that is required, expected errors) are made after a leave, too.
- `participants_info` is never cleared, so a retried attempt enforces no waiting-room
  timeout ("the bot was just let in" is then wrong): Google Meet's is taken as denied, Teams
  goes on for 180 s, Zoom web retries.
- A denial in Teams without a button to dismiss it raises `UiCouldNotLocate`, and the bot
  knocks again; Zoom web sends ZOOM_MEETING_STATUS_FAILED every second after three generic
  errors; `leave` posts MEETING_ENDED before it sets `left_meeting`;
  `was_removed_from_meeting` is set nowhere.
- A Zoom web host's permission that comes while the bot still settles is posted before
  its arrival, raises in the controller and is not posted again: the bot never records.

Zoom's SDK:

- The timers of the waiting room and of the wait for the host are not cleared: a second
  wait ends early.
- A leave while the SDK is idle, or in the three seconds between two tries, is ignored;
  one between a failure and its end is answered by another try. The bot then joins, and
  records, though its row says LEAVING (`stranded`), against "Causes the bot to leave the
  meeting." (`bots_api_views.py:686`).
- A Join that is refused is only logged, and the bot stays JOINING.
- COULD_NOT_JOIN raises in LEAVING and in the joined states: a bot put back into the
  waiting room stays there.
- A user's pause does not outlast the host's taking the permission back and giving it
  again. A bot that is paused or not permitted hears nothing, which counts as silence.
- After a breakout room the video is set up again with the next speaker only.

App sessions:

- The command to end is published after the request is committed
  (`app_session_api_views.py:142-144`), and is lost as a bot's is. A second End is refused in
  DISCONNECTING, and so is the `disconnect_requested` that the client sends when the stream
  ends, so that the session stays DISCONNECTING with nothing queued, against "Causes the app
  session to end." (`app_session_api_views.py:127`), until its process dies or the clean-up
  command's limit of 30 h, which `AppSession` leaves out (`Unheard`, the condition of
  `EndIsComing` and `EndsAsAsked`).
- A client that fails to start is only logged, and the session stays CONNECTING until
  the API ends it; a stop asked before the client's loop runs is missed, and one that the
  loop is too busy to see for five seconds comes late (the conditions of
  `NothingAfterDisconnect`); a media websocket that the server closes normally is told
  to nobody; a redelivered task of a connected session only heartbeats.
- After a resume the frames up to the next keyframe are dropped if one passes before
  "Resumed" is handled.

## 6. Not modelled, and what is left

Outside the models: audio and video themselves, UI selectors, the webpage streamer,
providers' protocols, pages, serializers, log-in, settings and migrations. Where they
matter they are a choice (a call succeeds or fails, a page says one thing or another).

Left to do, most important first:

1. `LocalSession` with pause, resume, the idle reaper and `LOCAL_SESSION_ENDED`.
2. `BotAdmission` with two meetings, for the PATCH of a `meeting_url`; `CalendarSync` with
   several events and the renewal of channels.
3. Zoom OAuth connections (token refresh on a versioned row) and the sharing of meetings
   (viewers, tokens, deletion).
4. The pure parts: `close_reason`, the splitting of a group's words by durations, the
   gap and clock-skew arithmetic, against reference definitions.
5. Zoom's SDK: what it records and shows when a call fails (`broken`), and the stale
   timers, are modelled and not yet stated as properties.
