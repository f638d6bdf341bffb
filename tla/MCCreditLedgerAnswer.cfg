SPECIFICATION Spec
CONSTANTS
    Workers = {w1, w2}
    Bots = {b1}
    Payments = {p1}
    Adjustment = Adjustment
    Amount <- MCAmount
    InitialBalance = 5
    MaxRetries = 2
    MaxRows = 1
INVARIANT
    AnsweredIsCredited
