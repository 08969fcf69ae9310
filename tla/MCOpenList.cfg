\* Two callers; the gateway fails, expires tokens and answers logins without one.
SPECIFICATION FairSpec
CONSTANTS
    c1 = c1  c2 = c2
    Callers = {c1, c2}
    MaxRetries = 1
    Threshold = 2
    Credentials = TRUE
    FirstToken = 0
    Faults = {"transient", "fatal", "empty"}
    MayCancel = TRUE
    MaxEpochs = 2
INVARIANTS TypeOK OpenMeansFailures
PROPERTIES EventuallyReturns
CHECK_DEADLOCK FALSE
