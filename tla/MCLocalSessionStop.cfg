SPECIFICATION StopSpec

CONSTANTS
    Sources = {mic, system}
    Workers = {w1, w2}
    MaxSequence = 1
    MaxPerDrain = 1
    MaxReplays = 1
    MaxStops = 1
    MaxCrashes = 1
    MaxOverruns = 1

INVARIANTS
    NoUploadLeft

PROPERTIES
    NoRowAfterClose
    QueueDrains

CHECK_DEADLOCK FALSE
