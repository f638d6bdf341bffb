SPECIFICATION Spec
CONSTANTS
    Sessions = {"BOT", "APP_SESSION"}
    Callers = {c1, c2}
    NoCaller = NoCaller
    MaxRetries = 2
SYMMETRY CallerSymmetry
INVARIANTS
    RowsAgree
PROPERTIES
    ImplementsAtomic
