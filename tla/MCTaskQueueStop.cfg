\* Graceful shutdowns only, and no database error.
SPECIFICATION Spec
CONSTANTS
    t1 = t1  q1 = q1  q2 = q2  w1 = w1  w2 = w2
    Tasks = {t1}
    Queues = {q1}
    Workers = {w1}
    QueueOf <- OneQueue
    MaxRetries <- OneRetry
    Delayed = {}
    Requests = {1}
    MaxConcurrency = 1
    Endings = {"stop"}
    MaxLoads = 2
    MaxFaults = 0
INVARIANTS RetriesHonoured
CHECK_DEADLOCK FALSE
