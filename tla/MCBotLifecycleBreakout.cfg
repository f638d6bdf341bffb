SPECIFICATION Spec
CONSTANTS
    Sessions = {"BOT"}
    Callers = {c1, c2}
    NoCaller = NoCaller
    MaxRetries = 1
INVARIANT
    BreakoutArrivalAccepted
