SPECIFICATION AllSpec
CONSTANTS
    Workers = {w1, w2}
    Requests = {r1, r2}
    MaxClaims = 2
    MaxQueued = 1
    MaxRestarts = 2
    MaxTrouble = 2
    MaxRequests = 3
    MaxMediaFaults = 1
    MaxAppTrouble = 2
INVARIANTS
    SummaryDiesWithTranscript
    JoinsAreCounted
    ProcessMatchesRows
    PlayedInTurn
    NothingAfterDisconnect
    EndIsComing
PROPERTIES
    ImplementsLifecycle
    EndsAsAsked
CHECK_DEADLOCK FALSE
