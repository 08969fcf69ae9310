\* Overlapping loads, restarts and crashes; two workers, one database error.
SPECIFICATION Spec
CONSTANTS
    t1 = t1  q1 = q1  q2 = q2  w1 = w1  w2 = w2
    Tasks = {t1}
    Queues = {q1}
    Workers = {w1, w2}
    QueueOf <- OneQueue
    MaxRetries <- OneRetry
    Delayed = {q1}
    Requests = {0, 5}
    MaxConcurrency = 2
    Endings = {"unload", "stop", "crash"}
    MaxLoads = 2
    MaxFaults = 1
SYMMETRY WorkerSymmetry
INVARIANTS TypeOK SingleExecutor BoundedCalls RunningIsOwned
PROPERTIES SettledNeverCalled ImplementsLifecycle
CHECK_DEADLOCK FALSE
