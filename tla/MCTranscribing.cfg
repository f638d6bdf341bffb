SPECIFICATION TranscribingSpec

CONSTANTS
    Utterances = {u1, u2}
    Workers = {w1, w2}
    Requests = {}
    MaxAttempts = 2
    MaxRetries = 3
    MaxAsks = 0
    MaxCrashes = 1
    MaxGroupAttempts = 1
    MaxStops = 2
    ChunkCount = 2
    Passes = {1, 2}
    AsyncWorkers = {a1, a2}
    MaxAsyncFaults = 1

INVARIANTS
    LocalCompleteMeansTranscribed
    NobodyForgotten
    AsyncCompleteHasAllWords
    AsyncLookedAfter

PROPERTIES
    HeardWordsStay
    TranscriptionsSettle

CHECK_DEADLOCK FALSE
