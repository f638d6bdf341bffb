SPECIFICATION Spec
CONSTANTS
    Sources = {mic, system}
    Workers = {w1, w2}
    MaxSequence = 1
    MaxPerDrain = 2
    MaxReplays = 0
    MaxStops = 0
    MaxCrashes = 0
    MaxOverruns = 0
SYMMETRY Symmetric
INVARIANTS
    NoRowForgotten
CHECK_DEADLOCK FALSE
