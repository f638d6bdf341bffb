SPECIFICATION FairSpec
CONSTANTS
    Utterances = {u1, u2}
    Workers = {w1, w2}
    Requests = {r1}
    MaxAttempts = 2
    MaxRetries = 3
    MaxAsks = 1
    MaxCrashes = 0
PROPERTY Settles
CHECK_DEADLOCK FALSE
