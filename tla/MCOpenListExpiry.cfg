\* A gateway that only expires tokens, and two callers.
SPECIFICATION Spec
CONSTANTS
    c1 = c1  c2 = c2
    Callers = {c1, c2}
    MaxRetries = 0
    Threshold = 2
    Credentials = TRUE
    FirstToken = 0
    Faults = {}
    MayCancel = FALSE
    MaxEpochs = 2
INVARIANTS ExpiryIsNoFailure
CHECK_DEADLOCK FALSE
