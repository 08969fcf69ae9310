\* Liveness where loads overlap or follow one another, each with a worker.
SPECIFICATION FairSpec
CONSTANTS
    t1 = t1  q1 = q1  q2 = q2  w1 = w1  w2 = w2
    Tasks = {t1}
    Queues = {q1}
    Workers = {w1, w2}
    QueueOf <- OneQueue
    MaxRetries <- NoRetry
    Delayed = {}
    Requests = {1}
    MaxConcurrency = 1
    Endings = {"unload", "stop", "crash"}
    MaxLoads = 2
    MaxFaults = 0
VIEW LiveView
PROPERTIES EventuallySettled CloseTerminates
CHECK_DEADLOCK FALSE
