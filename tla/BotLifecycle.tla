---------------------------- MODULE BotLifecycle ----------------------------
(***************************************************************************)
(* BotEventManager.create_event as it runs: a bot's row is moved by many   *)
(* processes at once (API views, Celery tasks, the scheduler, the clean-up *)
(* commands, the bot's own pod), each of which reads the row, decides, and *)
(* writes it back in a transaction guarded by the row's version column     *)
(* (src/bots/models.py).                                                   *)
(*                                                                         *)
(* The database is PostgreSQL at READ COMMITTED: a statement sees what was *)
(* committed before it began, and an UPDATE takes the row's lock until its *)
(* transaction ends. The version number is only ever compared with the one *)
(* a process read, so the model keeps, instead of the number, the set of   *)
(* the processes whose copy of the row is still the current one (fresh).   *)
(* The committed rows are the variables of AtomicLifecycle.                *)
(***************************************************************************)
EXTENDS AtomicLifecycle

CONSTANTS
    Callers,    \* the processes that may call create_event or set_heartbeat
    NoCaller,   \* the bot row's lock is free
    MaxRetries  \* create_event's max_retries

ASSUME CallersAssumption == NoCaller \notin Callers
ASSUME MaxRetriesAssumption == MaxRetries \in Nat \ {0}

VARIABLES
    lock,     \* the caller whose open transaction has updated the bot row
    pc,       \* where each caller is
    event,    \* the event type each caller wants to create
    seen,     \* the state each caller read as old_state
    fresh,    \* the callers since whose read of the bot row nobody saved it
    recFresh, \* the callers since whose hook read the recording nobody saved it
    tries     \* retry_count of each caller

locals == <<pc, event, seen, fresh, recFresh, tries>>
vars == <<rows, lock, locals>>

PCs == {"idle", "refresh", "save", "hooks", "heartbeat"}

LocalsTypeOK ==
    /\ lock \in Callers \cup {NoCaller}
    /\ pc \in [Callers -> PCs]
    /\ event \in [Callers -> EventTypes]
    /\ seen \in [Callers -> States]
    /\ fresh \subseteq Callers
    /\ recFresh \subseteq Callers
    /\ tries \in [Callers -> 0 .. MaxRetries - 1]

TypeOK == RowsTypeOK /\ LocalsTypeOK

Init ==
    /\ AtomicInit
    /\ lock = NoCaller
    /\ pc = [c \in Callers |-> "idle"]
    /\ event = [c \in Callers |-> "FATAL_ERROR"]
    /\ seen = [c \in Callers |-> "READY"]
    /\ fresh = {}
    /\ recFresh = {}
    /\ tries = [c \in Callers |-> 0]

-----------------------------------------------------------------------------
Goto(c, label) == pc' = [pc EXCEPT ![c] = label]

\* What a caller read is of no use to it once it reads again or returns.
Forget(c) ==
    /\ fresh' = fresh \ {c}
    /\ recFresh' = recFresh \ {c}

\* Leaving create_event or set_heartbeat: the local variables are gone.
Return(c) ==
    /\ Goto(c, "idle")
    /\ event' = [event EXCEPT ![c] = "FATAL_ERROR"]
    /\ seen' = [seen EXCEPT ![c] = "READY"]
    /\ tries' = [tries EXCEPT ![c] = 0]

\* The transaction ends without having changed a row.
Rollback(c) ==
    /\ lock' = IF lock = c THEN NoCaller ELSE lock
    /\ UNCHANGED rows
    /\ Forget(c)

\* The caller gets an exception, or its process dies.
Abandon(c) == Return(c) /\ Rollback(c)

\* "except RecordModifiedError": go round again, or give up and raise.
RetryOrRaise(c) ==
    /\ Rollback(c)
    /\ IF tries[c] + 1 < MaxRetries
         THEN /\ tries' = [tries EXCEPT ![c] = @ + 1]
              /\ Goto(c, "refresh")
              /\ seen' = [seen EXCEPT ![c] = "READY"]
              /\ UNCHANGED event
         ELSE Return(c)

\* Some process calls create_event.
Call(c, e) ==
    /\ pc[c] = "idle"
    /\ Goto(c, "refresh")
    /\ event' = [event EXCEPT ![c] = e]
    /\ UNCHANGED <<rows, lock, seen, fresh, recFresh, tries>>

\* refresh_from_db, then the check of the transition table, which raises
\* ValidationError to the caller.
Refresh(c) ==
    /\ pc[c] = "refresh"
    /\ state \in From(event[c])
    /\ Goto(c, "save")
    /\ seen' = [seen EXCEPT ![c] = state]
    /\ fresh' = fresh \cup {c}
    /\ UNCHANGED <<rows, lock, event, recFresh, tries>>

EventNotAllowed(c) ==
    /\ pc[c] = "refresh"
    /\ state \notin From(event[c])
    /\ Abandon(c)

\* Mutant of Save: an UPDATE that does not compare the version.
SaveUnchecked(c) ==
    /\ pc[c] = "save"
    /\ lock = NoCaller
    /\ CanResolveTarget(event[c], lastEvent)
    /\ lock' = c
    /\ Goto(c, "hooks")
    /\ recFresh' = recFresh \cup {c}
    /\ UNCHANGED <<rows, event, seen, fresh, tries>>

\* bot.save() waits for the row's lock and compares the version. It is reached
\* only when the target state can be worked out from the latest event.
Save(c) ==
    /\ pc[c] = "save"
    /\ lock = NoCaller
    /\ CanResolveTarget(event[c], lastEvent)
    /\ c \in fresh
    /\ lock' = c
    /\ Goto(c, "hooks")
    /\ recFresh' = recFresh \cup {c}
    /\ UNCHANGED <<rows, event, seen, fresh, tries>>

\* bot.save() finds another version: RecordModifiedError.
SaveConflict(c) ==
    /\ pc[c] = "save"
    /\ lock = NoCaller
    /\ CanResolveTarget(event[c], lastEvent)
    /\ c \notin fresh
    /\ RetryOrRaise(c)

\* The latest event is not the departure the arrival was expected after: a
\* plain Exception, which create_event does not retry.
TargetUnknown(c) ==
    /\ pc[c] = "save"
    /\ ~CanResolveTarget(event[c], lastEvent)
    /\ Abandon(c)

NewState(c) == Target(event[c], lastEvent)
Outcomes(c) == RecordingsAfter(event[c], seen[c], NewState(c), recording)
Charged(c) == IsCharged(event[c], seen[c], NewState(c), hasHeartbeat)

\* The hooks pass, the BotEvent row is inserted and the transaction commits.
Commit(c) ==
    /\ pc[c] = "hooks"
    /\ \E r \in Outcomes(c) :
         /\ r # recording => c \in recFresh
         /\ recording' = r
         /\ recFresh' = IF r # recording THEN {} ELSE recFresh \ {c}
    /\ state' = NewState(c)
    /\ lastEvent' = [type |-> event[c], old |-> seen[c], new |-> NewState(c)]
    /\ charges' = IF Charged(c) THEN charges + 1 ELSE charges
    /\ lock' = NoCaller
    /\ fresh' = {}
    /\ Return(c)
    /\ UNCHANGED <<session, hasHeartbeat>>

\* A hook raises: no recording in the state it expects, or (for STAGED) the
\* join_at the launcher passed is no longer the bot's join_at.
HookFails(c) ==
    /\ pc[c] = "hooks"
    /\ Outcomes(c) = {} \/ event[c] = "STAGED"
    /\ Abandon(c)

\* The recording's save, or the organisation's when a charge is made, finds a
\* version other than the one it read.
HookConflict(c) ==
    /\ pc[c] = "hooks"
    /\ \/ c \notin recFresh /\ \E r \in Outcomes(c) : r # recording
       \/ Charged(c)
    /\ RetryOrRaise(c)

\* The process dies; the database rolls its transaction back.
Crash(c) ==
    /\ pc[c] # "idle"
    /\ Abandon(c)

-----------------------------------------------------------------------------
\* Bot.set_heartbeat: the same read and versioned save, of the whole row. An
\* attempt that finds another version is simply made again (up to ten times).
ReadForHeartbeat(c) ==
    /\ pc[c] = "idle"
    /\ Goto(c, "heartbeat")
    /\ seen' = [seen EXCEPT ![c] = state]
    /\ fresh' = fresh \cup {c}
    /\ UNCHANGED <<rows, lock, event, recFresh, tries>>

\* Mutant of SaveHeartbeat: the whole row is written back unchecked.
SaveHeartbeatUnchecked(c) ==
    /\ pc[c] = "heartbeat"
    /\ lock = NoCaller
    /\ state' = seen[c]
    /\ hasHeartbeat' = TRUE
    /\ fresh' = {}
    /\ Return(c)
    /\ UNCHANGED <<session, recording, lastEvent, charges, lock, recFresh>>

SaveHeartbeat(c) ==
    /\ pc[c] = "heartbeat"
    /\ lock = NoCaller
    /\ c \in fresh
    /\ state' = seen[c]
    /\ hasHeartbeat' = TRUE
    /\ fresh' = {}
    /\ Return(c)
    /\ UNCHANGED <<session, recording, lastEvent, charges, lock, recFresh>>

HeartbeatConflict(c) ==
    /\ pc[c] = "heartbeat"
    /\ lock = NoCaller
    /\ c \notin fresh
    /\ Abandon(c)

\* A transcription worker saves another column of the recording row. It cannot
\* while a hook has the row locked, that is, between a hook's own save and the
\* commit, which are one step here.
SaveRecordingElsewhere ==
    /\ recFresh' = {}
    /\ UNCHANGED <<rows, lock, pc, event, seen, fresh, tries>>

-----------------------------------------------------------------------------
\* The steps of a create_event or set_heartbeat already begun.
Step(c) ==
    \/ Refresh(c) \/ EventNotAllowed(c) \/ Save(c) \/ SaveConflict(c)
    \/ TargetUnknown(c)
    \/ Commit(c) \/ HookFails(c) \/ HookConflict(c)
    \/ SaveHeartbeat(c) \/ HeartbeatConflict(c)

Next ==
    \/ \E c \in Callers :
         \/ \E e \in RequestedFor(session) : Call(c, e)
         \/ ReadForHeartbeat(c)
         \/ Step(c)
         \/ Crash(c)
    \/ SaveRecordingElsewhere

Spec == Init /\ [][Next]_vars

-----------------------------------------------------------------------------
\* create_event is atomic: seen through the committed rows, every step of every
\* caller is one whole event applied to the state the bot is in at that moment,
\* one heartbeat, or nothing.
ImplementsAtomic == AtomicSpec

\* The bot comes back from a breakout room in whichever of the four joined
\* states it left: once the arrival event was allowed and its target found
\* from the departure event, no hook rejects it.
BreakoutArrivalAccepted ==
    \A c \in Callers :
        pc[c] = "hooks" /\ event[c] \in BreakoutArrivals => Outcomes(c) # {}
=============================================================================
