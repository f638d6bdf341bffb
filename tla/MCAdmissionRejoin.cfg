SPECIFICATION ServiceSpec

CONSTANTS
    Workers = {w1, w2}
    Bots = {b1}
    Payments = {p1}
    Adjustment = Adjustment
    Amount <- MCAmount
    InitialBalance = 5
    MaxRetries = 3
    MaxRows = 2
    Creators = {c1}
    Launchers = {l1}
    MaxReplacements = 1
    MaxBots = 3
    MaxMessages = 1
    LastHour = 0
    MaxJoinRetries = 1
    ExpectedPerRestart = 2
    MaxGenericErrors = 1
    MaxUntold = 0

INVARIANT
    ReplacedFromMeeting
CHECK_DEADLOCK FALSE
