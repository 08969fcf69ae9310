---------------------------- MODULE MCTaskQueue ----------------------------
(* Instances of TaskQueue for TLC. *)
EXTENDS TaskQueue, TLC

CONSTANTS t1, q1, q2, w1, w2

OneQueue == [t \in {t1} |-> q1]
OneRetry == [q \in Queues |-> 1]
NoRetry  == [q \in Queues |-> 0]

WorkerSymmetry == Permutations(Workers)

\* calls, usurped and overlapped are read by no guard and by no liveness property
LiveView == <<rows, service, worker, orphan, faults>>
=============================================================================
