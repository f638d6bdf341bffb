SPECIFICATION Spec

CONSTANTS
    Utterances = {u1, u2}
    Workers = {w1, w2}
    Requests = {r1, r2}
    MaxAttempts = 2
    MaxRetries = 1
    MaxAsks = 2
    MaxCrashes = 1

SYMMETRY Symmetric

INVARIANTS
    CompleteMeansTranscribed
    NobodyWaitsInVain

CHECK_DEADLOCK FALSE
