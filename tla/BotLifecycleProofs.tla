------------------------- MODULE BotLifecycleProofs -------------------------
(***************************************************************************)
(* Proofs about BotLifecycle, for any number of callers and any retry      *)
(* bound. First, what create_event promises implies the properties of the  *)
(* committed rows, whatever events are applied. Then create_event and      *)
(* set_heartbeat, for all their interleaved reads and writes, implement    *)
(* AtomicLifecycle, so that those properties hold of the program.          *)
(***************************************************************************)
EXTENDS BotLifecycle, TLAPS

\* The invariant of the committed rows. What RecordingMatchesState says of a
\* bot in a breakout room needs the departure to be the latest event, and
\* charging once needs that nothing was charged while the session was open.
RowsInv ==
    /\ session \in Sessions
    /\ state \in States
    /\ hasHeartbeat \in BOOLEAN
    /\ recording \in RecordingStates
    /\ lastEvent \in EventRows \cup {NoEvent}
    /\ charges \in {0, 1}
    /\ EventLogMatchesState
    /\ RecordingMatchesState
    /\ state \in BreakoutStates =>
         lastEvent.type \in BreakoutDepartures /\ lastEvent.old \in JoinedStates
    /\ charges = 1 => state \in PostMeetingStates /\ hasHeartbeat

\* One whole event preserves the invariant of the rows, whichever event it is.
LEMMA EventPreservesRows ==
    ASSUME NEW e \in EventTypes, RowsInv, ApplyEvent(e)
    PROVE  RowsInv'
<1> DEFINE new == Target(e, lastEvent)
<1> USE DEF RowsInv, EventLogMatchesState, RecordingMatchesState, AllowedRecordings,
            ApplyEvent, From, FixedTarget, Target, CanResolveTarget, EndsSession,
            RecordingsAfter, IsCharged, EventRows, NoEvent, RecordingStates, States,
            JoinedStates, BreakoutStates, AppSessionStates, PostMeetingStates,
            BreakoutArrivals, BreakoutDepartures, InitialStates, SessionTypes
<1>1. CASE e \in BreakoutArrivals
  <2>1. /\ state \in BreakoutStates
        /\ lastEvent.old \in JoinedStates
        /\ recording \in AllowedRecordings(lastEvent.old)
        /\ new = lastEvent.old
    BY <1>1
  <2>2. CASE new = "JOINED_NOT_RECORDING"
    BY <1>1, <2>1, <2>2
  <2>3. CASE new = "JOINED_RECORDING"
    BY <1>1, <2>1, <2>3
  <2>4. CASE new = "JOINED_RECORDING_PAUSED"
    BY <1>1, <2>1, <2>4
  <2>5. CASE new = "JOINED_RECORDING_PERMISSION_DENIED"
    BY <1>1, <2>1, <2>5
  <2> QED
    BY <2>1, <2>2, <2>3, <2>4, <2>5
<1>2. CASE e \in BreakoutDepartures
  <2>1. CASE e = "BOT_BEGAN_JOINING_BREAKOUT_ROOM"
    BY <2>1
  <2>2. CASE e = "BOT_BEGAN_LEAVING_BREAKOUT_ROOM"
    BY <2>2
  <2> QED
    BY <1>2, <2>1, <2>2
<1>3. CASE e = "JOIN_REQUESTED"
  BY <1>3
<1>4. CASE e = "STAGED"
  BY <1>4
<1>5. CASE e = "COULD_NOT_JOIN"
  BY <1>5
<1>6. CASE e = "FATAL_ERROR"
  BY <1>6
<1>7. CASE e = "BOT_PUT_IN_WAITING_ROOM"
  BY <1>7
<1>8. CASE e = "BOT_JOINED_MEETING"
  BY <1>8
<1>9. CASE e = "BOT_RECORDING_PERMISSION_GRANTED"
  BY <1>9
<1>10. CASE e = "BOT_RECORDING_PERMISSION_DENIED"
  BY <1>10
<1>11. CASE e = "RECORDING_PAUSED"
  BY <1>11
<1>12. CASE e = "RECORDING_RESUMED"
  BY <1>12
<1>13. CASE e = "MEETING_ENDED"
  BY <1>13
<1>14. CASE e = "LEAVE_REQUESTED"
  BY <1>14
<1>15. CASE e = "BOT_LEFT_MEETING"
  BY <1>15
<1>16. CASE e = "POST_PROCESSING_COMPLETED"
  BY <1>16
<1>17. CASE e = "DATA_DELETED"
  BY <1>17
<1>18. CASE e = "APP_SESSION_CONNECTION_REQUESTED"
  BY <1>18
<1>19. CASE e = "APP_SESSION_CONNECTED"
  BY <1>19
<1>20. CASE e = "APP_SESSION_DISCONNECT_REQUESTED"
  BY <1>20
<1>21. CASE e = "APP_SESSION_DISCONNECTED"
  BY <1>21
<1>22. CASE e = "LOCAL_SESSION_ENDED"
  BY <1>22
<1> QED
  BY <1>1, <1>2, <1>3, <1>4, <1>5, <1>6, <1>7, <1>8, <1>9, <1>10, <1>11, <1>12, <1>13, <1>14, <1>15, <1>16, <1>17, <1>18, <1>19, <1>20, <1>21, <1>22
     DEF EventTypes, MeetingEvents, AppSessionEvents, ClosingEvents

\* What a caller may ask for is a row of the transition table.
LEMMA RequestedAreEvents ==
    ASSUME NEW s, NEW e \in RequestedFor(s)
    PROVE  e \in EventTypes
<1>1. CASE s = "BOT"
  BY <1>1 DEF RequestedFor, EventTypes
<1>2. CASE s # "BOT"
  BY <1>2 DEF RequestedFor, EventTypes
<1> QED
  BY <1>1, <1>2

LEMMA InitRows == AtomicInit => RowsInv
<1> SUFFICES ASSUME AtomicInit PROVE RowsInv
  OBVIOUS
<1>1. state \in {"READY", "SCHEDULED"} /\ session \in Sessions
  BY DEF AtomicInit, InitialStates
<1>2. EventLogMatchesState
  BY DEF AtomicInit, EventLogMatchesState
<1>3. RecordingMatchesState
  BY <1>1 DEF AtomicInit, RecordingMatchesState, AllowedRecordings, BreakoutStates,
              PostMeetingStates
<1>4. lastEvent = NoEvent /\ recording \in RecordingStates /\ hasHeartbeat = FALSE /\ charges = 0
  BY DEF AtomicInit, RecordingStates
<1>5. state \in States /\ state \notin BreakoutStates
  BY <1>1 DEF States, BreakoutStates
<1>6. charges \in {0, 1} /\ (charges = 1 => state \in PostMeetingStates /\ hasHeartbeat)
  BY <1>4
<1> QED
  BY <1>1, <1>2, <1>3, <1>4, <1>5, <1>6 DEF RowsInv

\* A heartbeat writes a column no other property reads.
LEMMA HeartbeatPreservesRows == RowsInv /\ SetHeartbeat => RowsInv'
  BY DEF RowsInv, SetHeartbeat, EventLogMatchesState, RecordingMatchesState

\* A bot that is still joining was not charged, so that nothing but the charge's
\* condition reads the heartbeat that is forgotten.
LEMMA ForgettingPreservesRows == RowsInv /\ ForgetHeartbeat => RowsInv'
  BY DEF RowsInv, ForgetHeartbeat, EventLogMatchesState, RecordingMatchesState, PostMeetingStates

LEMMA StepPreservesRows == RowsInv /\ [AtomicNext]_rows => RowsInv'
<1> SUFFICES ASSUME RowsInv, [AtomicNext]_rows PROVE RowsInv'
  OBVIOUS
<1>1. CASE SetHeartbeat
  BY <1>1, HeartbeatPreservesRows
<1>2. ASSUME NEW e \in RequestedFor(session), ApplyEvent(e) PROVE RowsInv'
  BY <1>2, RequestedAreEvents, EventPreservesRows
<1>3. CASE ForgetHeartbeat
  BY <1>3, ForgettingPreservesRows
<1>4. CASE UNCHANGED rows
  BY <1>4 DEF RowsInv, rows, EventLogMatchesState, RecordingMatchesState
<1> QED
  BY <1>1, <1>2, <1>3, <1>4 DEF AtomicNext

\* The properties of the committed rows follow from the invariant.
LEMMA RowsInvImplies ==
    RowsInv => RowsTypeOK /\ EventLogMatchesState /\ RecordingMatchesState /\ ChargedAtMostOnce
  BY DEF RowsInv, RowsTypeOK, ChargedAtMostOnce

\* Whatever events are applied in whatever order, the event rows, the state of
\* the bot, the state of its recording and its charge agree.
THEOREM AtomicRowsCorrect ==
    AtomicSpec => [](RowsTypeOK /\ EventLogMatchesState /\ RecordingMatchesState
                       /\ ChargedAtMostOnce)
  BY InitRows, StepPreservesRows, RowsInvImplies, PTL DEF AtomicSpec

\* Only DATA_DELETED is allowed after a session has ended, and no hook touches
\* the recording or the credits of such a session.
LEMMA EndedStaysEnded ==
    ASSUME RowsInv, state \in PostMeetingStates, NEW e \in EventTypes, ApplyEvent(e)
    PROVE  state' \in PostMeetingStates /\ recording' = recording /\ charges' = charges
<1>1. state \in From(e)
  BY DEF ApplyEvent
<1>2. e = "DATA_DELETED"
  BY <1>1
     DEF From, EventTypes, MeetingEvents, AppSessionEvents, ClosingEvents, JoinedStates,
         BreakoutStates, PostMeetingStates, BreakoutDepartures, BreakoutArrivals
<1> QED
  BY <1>2 DEF ApplyEvent, Target, FixedTarget, BreakoutArrivals, RecordingsAfter, EndsSession,
              IsCharged, PostMeetingStates

\* A session that has ended is never reopened, nor charged again.
THEOREM AtomicSessionEndsForGood == AtomicSpec => SessionEndsForGood
<1> DEFINE Kept == state \in PostMeetingStates =>
                     state' \in PostMeetingStates /\ recording' = recording /\ charges' = charges
<1>1. RowsInv /\ [AtomicNext]_rows => [Kept]_rows
  <2> SUFFICES ASSUME RowsInv, AtomicNext, state \in PostMeetingStates PROVE Kept
    OBVIOUS
  <2>1. CASE SetHeartbeat
    BY <2>1 DEF SetHeartbeat
  <2>2. ASSUME NEW e \in RequestedFor(session), ApplyEvent(e) PROVE Kept
    BY <2>2, RequestedAreEvents, EndedStaysEnded
  <2>3. CASE ForgetHeartbeat
    BY <2>3 DEF ForgetHeartbeat
  <2> QED
    BY <2>1, <2>2, <2>3 DEF AtomicNext
<1> QED
  BY <1>1, InitRows, StepPreservesRows, PTL DEF AtomicSpec, SessionEndsForGood

-----------------------------------------------------------------------------
\* What a caller remembers is still true of the row when it acts on it: the
\* holder of the row's lock is the one caller in its hooks, and a copy of the
\* row that nobody has saved since it was read equals the row.
CallerInv(c) ==
    /\ pc[c] = "hooks" <=> lock = c
    /\ pc[c] \in {"refresh", "save", "hooks"} => event[c] \in RequestedFor(session)
    /\ pc[c] \in {"save", "hooks"} => seen[c] \in From(event[c])
    /\ pc[c] \in {"save", "hooks", "heartbeat"} /\ c \in fresh => seen[c] = state
    /\ pc[c] = "hooks" => c \in fresh /\ CanResolveTarget(event[c], lastEvent)

IInv ==
    /\ RowsInv
    /\ LocalsTypeOK
    /\ \A c \in Callers : CallerInv(c)

LEMMA InitIInv == Init => IInv
<1> SUFFICES ASSUME Init PROVE IInv
  OBVIOUS
<1>1. RowsInv
  BY InitRows DEF Init
<1>2. LocalsTypeOK
  BY MaxRetriesAssumption
     DEF Init, LocalsTypeOK, PCs, EventTypes, ClosingEvents, States
<1>3. ASSUME NEW c \in Callers PROVE CallerInv(c)
  BY CallersAssumption DEF Init, CallerInv
<1> QED
  BY <1>1, <1>2, <1>3 DEF IInv

-----------------------------------------------------------------------------
\* The commit of a create_event is one whole event, applied to the state the
\* bot is in: the caller still holds the row it read, so old_state is the
\* state, and the hooks judged the recording as it is.
LEMMA CommitIsEvent ==
    ASSUME IInv, NEW c \in Callers, Commit(c)
    PROVE  event[c] \in RequestedFor(session) /\ ApplyEvent(event[c])
<1>1. pc[c] = "hooks"
  BY DEF Commit
<1>2. /\ event[c] \in RequestedFor(session)
      /\ seen[c] = state
      /\ state \in From(event[c])
      /\ CanResolveTarget(event[c], lastEvent)
  BY <1>1 DEF IInv, CallerInv
<1>3. recording' \in RecordingsAfter(event[c], state, Target(event[c], lastEvent), recording)
  BY <1>2 DEF Commit, Outcomes, NewState
<1> QED
  BY <1>2, <1>3 DEF ApplyEvent, Commit, NewState, Charged

\* A heartbeat that is saved writes back the state the bot is in.
LEMMA SaveIsHeartbeat ==
    ASSUME IInv, NEW c \in Callers, SaveHeartbeat(c)
    PROVE  SetHeartbeat
  BY DEF IInv, CallerInv, SaveHeartbeat, SetHeartbeat

\* Every other step leaves the committed rows as they are.
LEMMA OtherStepsStutter ==
    ASSUME NEW c \in Callers,
           \/ \E e \in RequestedFor(session) : Call(c, e)
           \/ ReadForHeartbeat(c) \/ Refresh(c) \/ EventNotAllowed(c)
           \/ Save(c) \/ SaveConflict(c) \/ TargetUnknown(c)
           \/ HookFails(c) \/ HookConflict(c) \/ HeartbeatConflict(c) \/ Crash(c)
    PROVE  UNCHANGED rows
  BY DEF Call, ReadForHeartbeat, Refresh, EventNotAllowed, Save, SaveConflict, TargetUnknown,
         HookFails, HookConflict, HeartbeatConflict, Crash, Abandon, RetryOrRaise, Rollback

LEMMA StepIsAtomic == IInv /\ [Next]_vars => [AtomicNext]_rows
<1> SUFFICES ASSUME IInv, [Next]_vars PROVE [AtomicNext]_rows
  OBVIOUS
<1>1. CASE UNCHANGED vars
  BY <1>1 DEF vars
<1>2. CASE SaveRecordingElsewhere
  BY <1>2 DEF SaveRecordingElsewhere
<1>3. ASSUME NEW c \in Callers, Commit(c) PROVE AtomicNext
  BY <1>3, CommitIsEvent DEF AtomicNext
<1>4. ASSUME NEW c \in Callers, SaveHeartbeat(c) PROVE AtomicNext
  BY <1>4, SaveIsHeartbeat DEF AtomicNext
<1> QED
  BY <1>1, <1>2, <1>3, <1>4, OtherStepsStutter DEF Next, Step

-----------------------------------------------------------------------------
CallersOK == LocalsTypeOK /\ \A d \in Callers : CallerInv(d)

\* The names a caller's local variables have while it is idle.
LEMMA IdleValues == "FATAL_ERROR" \in EventTypes /\ "READY" \in States
  BY DEF EventTypes, ClosingEvents, States

LEMMA AbandonKeepsCallers ==
    ASSUME IInv, NEW c \in Callers, Abandon(c)
    PROVE  CallersOK'
<1>1. LocalsTypeOK'
  BY IdleValues, MaxRetriesAssumption
     DEF IInv, LocalsTypeOK, Abandon, Return, Rollback, Forget, Goto, PCs
<1>2. ASSUME NEW d \in Callers PROVE CallerInv(d)'
  BY <1>2, CallersAssumption
     DEF IInv, LocalsTypeOK, CallerInv, Abandon, Return, Rollback, Forget, Goto, rows
<1> QED
  BY <1>1, <1>2 DEF CallersOK

LEMMA RetryKeepsCallers ==
    ASSUME IInv, NEW c \in Callers, pc[c] \in {"save", "hooks"}, RetryOrRaise(c)
    PROVE  CallersOK'
<1>1. CASE tries[c] + 1 < MaxRetries
  <2>1. LocalsTypeOK'
    BY <1>1, IdleValues, MaxRetriesAssumption
       DEF IInv, LocalsTypeOK, RetryOrRaise, Rollback, Forget, Goto, PCs
  <2>2. ASSUME NEW d \in Callers PROVE CallerInv(d)'
    BY <1>1, <2>2, CallersAssumption
       DEF IInv, LocalsTypeOK, CallerInv, RetryOrRaise, Rollback, Forget, Goto, rows
  <2> QED
    BY <2>1, <2>2 DEF CallersOK
<1>2. CASE ~(tries[c] + 1 < MaxRetries)
  BY <1>2, AbandonKeepsCallers DEF RetryOrRaise, Abandon
<1> QED
  BY <1>1, <1>2

LEMMA CallKeepsCallers ==
    ASSUME IInv, NEW c \in Callers, NEW e \in RequestedFor(session), Call(c, e)
    PROVE  CallersOK'
<1>1. e \in EventTypes
  BY RequestedAreEvents
<1>2. LocalsTypeOK'
  BY <1>1 DEF IInv, LocalsTypeOK, Call, Goto, PCs
<1>3. ASSUME NEW d \in Callers PROVE CallerInv(d)'
  BY <1>3 DEF IInv, LocalsTypeOK, CallerInv, Call, Goto, rows
<1> QED
  BY <1>2, <1>3 DEF CallersOK

\* Reading the row, for an event or for a heartbeat, makes a fresh copy of it.
LEMMA ReadKeepsCallers ==
    ASSUME IInv, NEW c \in Callers, Refresh(c) \/ ReadForHeartbeat(c)
    PROVE  CallersOK'
<1>1. LocalsTypeOK'
  BY DEF IInv, RowsInv, LocalsTypeOK, Refresh, ReadForHeartbeat, Goto, PCs
<1>2. ASSUME NEW d \in Callers PROVE CallerInv(d)'
  BY <1>2 DEF IInv, LocalsTypeOK, CallerInv, Refresh, ReadForHeartbeat, Goto, rows
<1> QED
  BY <1>1, <1>2 DEF CallersOK

LEMMA SaveKeepsCallers ==
    ASSUME IInv, NEW c \in Callers, Save(c)
    PROVE  CallersOK'
<1>1. LocalsTypeOK'
  BY DEF IInv, LocalsTypeOK, Save, Goto, PCs
<1>2. ASSUME NEW d \in Callers PROVE CallerInv(d)'
  BY <1>2, CallersAssumption DEF IInv, LocalsTypeOK, CallerInv, Save, Goto, rows
<1> QED
  BY <1>1, <1>2 DEF CallersOK

\* A commit makes every other copy of the row stale; only one caller is in its
\* hooks, so no other caller counted on its copy or on the latest event.
LEMMA CommitKeepsCallers ==
    ASSUME IInv, NEW c \in Callers, Commit(c)
    PROVE  CallersOK'
<1>1. LocalsTypeOK'
  BY IdleValues, MaxRetriesAssumption DEF IInv, LocalsTypeOK, Commit, Return, Goto, PCs
<1>2. lock = c /\ session' = session
  BY DEF IInv, CallerInv, Commit
<1>3. ASSUME NEW d \in Callers PROVE CallerInv(d)'
  BY <1>2, <1>3, CallersAssumption DEF IInv, LocalsTypeOK, CallerInv, Commit, Return, Goto
<1> QED
  BY <1>1, <1>3 DEF CallersOK

LEMMA SaveHeartbeatKeepsCallers ==
    ASSUME IInv, NEW c \in Callers, SaveHeartbeat(c)
    PROVE  CallersOK'
<1>1. LocalsTypeOK'
  BY IdleValues, MaxRetriesAssumption DEF IInv, LocalsTypeOK, SaveHeartbeat, Return, Goto, PCs
<1>2. ASSUME NEW d \in Callers PROVE CallerInv(d)'
  BY <1>2, CallersAssumption
     DEF IInv, LocalsTypeOK, CallerInv, SaveHeartbeat, Return, Goto
<1> QED
  BY <1>1, <1>2 DEF CallersOK

LEMMA StepKeepsCallers == IInv /\ [Next]_vars => CallersOK'
<1> SUFFICES ASSUME IInv, [Next]_vars PROVE CallersOK'
  OBVIOUS
<1>1. CASE UNCHANGED vars \/ SaveRecordingElsewhere
  <2>1. /\ UNCHANGED <<rows, lock, pc, event, seen, fresh, tries>>
        /\ recFresh' \subseteq Callers
    BY <1>1 DEF IInv, LocalsTypeOK, vars, locals, SaveRecordingElsewhere
  <2> QED
    BY <2>1 DEF IInv, LocalsTypeOK, CallersOK, CallerInv, rows
<1>2. ASSUME NEW c \in Callers,
             EventNotAllowed(c) \/ TargetUnknown(c) \/ HookFails(c)
               \/ HeartbeatConflict(c) \/ Crash(c)
      PROVE  CallersOK'
  BY <1>2, AbandonKeepsCallers
     DEF EventNotAllowed, TargetUnknown, HookFails, HeartbeatConflict, Crash
<1>3. ASSUME NEW c \in Callers, SaveConflict(c) \/ HookConflict(c) PROVE CallersOK'
  BY <1>3, RetryKeepsCallers DEF SaveConflict, HookConflict
<1>4. ASSUME NEW c \in Callers,
             \E e \in RequestedFor(session) : Call(c, e)
      PROVE  CallersOK'
  BY <1>4, CallKeepsCallers
<1>5. ASSUME NEW c \in Callers,
             Refresh(c) \/ ReadForHeartbeat(c) \/ Save(c) \/ Commit(c) \/ SaveHeartbeat(c)
      PROVE  CallersOK'
  BY <1>5, ReadKeepsCallers, SaveKeepsCallers, CommitKeepsCallers, SaveHeartbeatKeepsCallers
<1> QED
  BY <1>1, <1>2, <1>3, <1>4, <1>5 DEF Next, Step

LEMMA StepKeepsIInv == IInv /\ [Next]_vars => IInv'
  BY StepIsAtomic, StepPreservesRows, StepKeepsCallers DEF IInv, CallersOK

-----------------------------------------------------------------------------
\* create_event and set_heartbeat are atomic: whatever the interleaving of any
\* number of callers, the committed rows change as if each event and heartbeat
\* happened in one step, and a crash or a lost race changes nothing.
THEOREM LifecycleImplementsAtomic == Spec => ImplementsAtomic
<1>1. Init => AtomicInit
  BY DEF Init
<1> QED
  BY <1>1, InitIInv, StepKeepsIInv, StepIsAtomic, PTL DEF Spec, ImplementsAtomic, AtomicSpec

\* The rows and every caller's local variables keep their types, and no caller
\* retries more often than max_retries allows.
THEOREM LifecycleTypeCorrect == Spec => []TypeOK
<1>1. IInv => TypeOK
  BY RowsInvImplies DEF IInv, TypeOK
<1> QED
  BY <1>1, InitIInv, StepKeepsIInv, PTL DEF Spec

\* The rows inherit what the atomic transitions keep. Whatever its callers
\* interleave, the BotEvent rows lead to the state the bot is in, the recording is
\* in progress exactly when that state says so, and the session is charged once
\* at most, and only when it is over.
THEOREM LifecycleRowsCorrect == Spec => []RowsAgree
  BY LifecycleImplementsAtomic, AtomicRowsCorrect, PTL DEF ImplementsAtomic, RowsAgree

\* No late caller reopens, or bills again, a session that is over.
THEOREM LifecycleEndsForGood == Spec => SessionEndsForGood
  BY LifecycleImplementsAtomic, AtomicSessionEndsForGood, PTL DEF ImplementsAtomic
=============================================================================
