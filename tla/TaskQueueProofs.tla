-------------------------- MODULE TaskQueueProofs --------------------------
(***************************************************************************)
(* Proofs about TaskQueue: the agreement of rows and workers, which is     *)
(* inductive (IInv), the properties that follow from it, the refinement of *)
(* TaskLifecycle, and the bound on the calls of a task.                    *)
(***************************************************************************)
EXTENDS TaskQueue, FiniteSetTheorems, TLAPS

\* The initial states are well typed.
LEMMA InitTypes == Init => TypeOK
<1> SUFFICES ASSUME Init PROVE TypeOK
  OBVIOUS
<1> USE ConstantsAssumption DEF Init
<1>1. status \in [Tasks -> Statuses] /\ pc \in [Workers -> Pcs]
  BY DEF Statuses, Pcs
<1>2. mgr \in Managers /\ load \in Loads /\ wload \in [Workers -> Loads]
  BY DEF Managers, Loads
<1>3. svc \in [Loads -> Phases] /\ conc \in [Loads -> [Queues -> Nat]]
  BY DEF Phases, NoQueue
<1>4. wqueue \in [Workers -> Queues] /\ wtask \in [Workers -> Tasks]
  OBVIOUS
<1> QED
  BY <1>1, <1>2, <1>3, <1>4 DEF TypeOK

\* A worker that gives its task back keeps the types.
LEMMA RevertTypes ==
    ASSUME TypeOK, NEW w \in Workers, RevertTaskToPending(w) PROVE TypeOK'
<1> USE DEF TypeOK, RevertTaskToPending, Statuses, Terminal, Pcs, Holding
<1>0. status' \in [Tasks -> Statuses]
  OBVIOUS
<1>1. attempt' \in [Tasks -> Nat]
  <2>1. wtask[w] \in Tasks /\ attempt[wtask[w]] \in Nat
    OBVIOUS
  <2>2. CASE attempt[wtask[w]] > 0
    BY <2>1, <2>2
  <2>3. CASE attempt[wtask[w]] = 0
    BY <2>1, <2>3
  <2> QED BY <2>1, <2>2, <2>3
<1>2. orphan' \subseteq Tasks /\ faults' \in Nat
  OBVIOUS
<1>3. pc' \in [Workers -> Pcs] /\ wattempt' \in [Workers -> Nat] /\ wok' \in [Workers -> BOOLEAN]
  BY DEF Return, Goto
<1> QED
  BY <1>0, <1>1, <1>2, <1>3 DEF service

\* Every step, of the plugin, the manager, time or a worker, keeps the types.
LEMMA NextTypes == TypeOK /\ [Next]_vars => TypeOK'
<1> SUFFICES ASSUME TypeOK, [Next]_vars PROVE TypeOK'
  OBVIOUS
<1> USE ConstantsAssumption
    DEF TypeOK, rows, service, worker, history, Statuses, Terminal, Pcs, Holding
<1>1. CASE Load
  <2>1. load' \in Loads
    BY <1>1 DEF Load, Loads
  <2>2. svc' \in [Loads -> Phases]
    BY <1>1 DEF Load, Phases, Open
  <2>3. overlapped' \in BOOLEAN
    BY <1>1 DEF Load
  <2> QED BY <1>1, <2>1, <2>2, <2>3 DEF Load
<1>2. ASSUME NEW l \in Loads, NEW q \in Queues, NEW want \in Requests, CreateQueue(l, q, want) PROVE TypeOK'
  BY <1>2 DEF CreateQueue, ResetRunning
<1>3. ASSUME NEW q \in Queues, ClearQueue(q) PROVE TypeOK'
  BY <1>3 DEF ClearQueue
<1>4. ASSUME NEW l \in Loads, NEW t \in Tasks, Enqueue(l, t) PROVE TypeOK'
  BY <1>4 DEF Enqueue
<1>5. ASSUME NEW t \in Tasks, Cancel(t) PROVE TypeOK'
  BY <1>5 DEF Cancel
<1>6. ASSUME NEW t \in Tasks, BecomeDue(t) PROVE TypeOK'
  BY <1>6 DEF BecomeDue
<1>7. ASSUME NEW l \in Loads, NEW t \in Tasks, NotifyWorkers(l, t) PROVE TypeOK'
  BY <1>7 DEF NotifyWorkers
<1>8. ASSUME NEW t \in Tasks, RunCleanup(t) PROVE TypeOK'
  BY <1>8 DEF RunCleanup
<1>9. ASSUME NEW l \in Loads, Unlist(l) PROVE TypeOK'
  BY <1>9 DEF Unlist, Loads, Phases, Open
<1>10. ASSUME NEW l \in Loads, CloseBegin(l) PROVE TypeOK'
  BY <1>10 DEF CloseBegin, Loads, Phases, Open
<1>11. CASE StopCancel
  BY <1>11 DEF StopCancel, Managers
<1>12. CASE StopLock \/ StopEnd
  BY <1>12 DEF StopLock, StopEnd, StopMoves, Managers
<1>13. ASSUME NEW l \in Loads, CloseEnd(l) PROVE TypeOK'
  BY <1>13 DEF CloseEnd, CloseService, Closes, ResetRunning, Loads, Phases, Open, NoQueue
<1>14. CASE ProcessEnds
  BY <1>14 DEF ProcessEnds, NoQueue, Loads, Phases, Open, Managers
<1>15. ASSUME NEW w \in Workers, WakeBySignal(w) PROVE TypeOK'
  BY <1>15 DEF WakeBySignal, Goto
<1>16. ASSUME NEW w \in Workers, WakeByTicker(w) PROVE TypeOK'
  BY <1>16 DEF WakeByTicker, Goto
<1>17. ASSUME NEW w \in Workers, Exit(w) PROVE TypeOK'
  <2>1. 0 \in Loads
    BY DEF Loads
  <2> QED BY <1>17, <2>1 DEF Exit, Goto
<1>18. ASSUME NEW w \in Workers, Dequeue(w) PROVE TypeOK'
  BY <1>18 DEF Dequeue, Ready, Goto
<1>19. ASSUME NEW w \in Workers, DequeueNone(w) PROVE TypeOK'
  BY <1>19 DEF DequeueNone, Goto
<1>20. ASSUME NEW w \in Workers, RateWait(w) PROVE TypeOK'
  BY <1>20 DEF RateWait, Goto
<1>21. ASSUME NEW w \in Workers, RateWaitCancelled(w) PROVE TypeOK'
  BY <1>21, RevertTypes DEF RateWaitCancelled
<1>22. ASSUME NEW w \in Workers, Lookup(w) PROVE TypeOK'
  <2>1. CASE Found(w)
    <3>1. Goto(w, "call") /\ calls' = [calls EXCEPT ![wtask[w]] = @ + 1] /\ UNCHANGED wok
      BY <1>22, <2>1 DEF Lookup
    <3> QED BY <1>22, <3>1 DEF Lookup, Goto
  <2>2. CASE ~Found(w)
    BY <1>22, <2>2 DEF Lookup, Goto
  <2> QED BY <2>1, <2>2
<1>23. ASSUME NEW w \in Workers, CallReturns(w) PROVE TypeOK'
  BY <1>23 DEF CallReturns, Goto
<1>24. ASSUME NEW w \in Workers, AfterCall(w) PROVE TypeOK'
  BY <1>24 DEF AfterCall, Goto
<1>25. ASSUME NEW w \in Workers, AfterCallCancelled(w) PROVE TypeOK'
  BY <1>25, RevertTypes DEF AfterCallCancelled
<1>26. ASSUME NEW w \in Workers, SaveOutcome(w) PROVE TypeOK'
  <2>0. Outcome(w) \in Statuses
    BY DEF Outcome
  <2>1. status' \in [Tasks -> Statuses] /\ due' \in [Tasks -> BOOLEAN]
    BY <1>26, <2>0 DEF SaveOutcome
  <2>2. notify' \subseteq Loads \X Tasks
    BY <1>26 DEF SaveOutcome, Retried
  <2>3. /\ pc' \in [Workers -> Pcs] /\ wattempt' \in [Workers -> Nat]
        /\ wok' \in [Workers -> BOOLEAN]
    BY <1>26 DEF SaveOutcome, Return, Goto
  <2> QED BY <1>26, <2>1, <2>2, <2>3 DEF SaveOutcome
<1>27. ASSUME NEW w \in Workers, SaveFails(w) PROVE TypeOK'
  BY <1>27 DEF SaveFails, Retried, Return, Goto
<1>28. CASE UNCHANGED vars
  BY <1>28 DEF vars
<1> QED
  BY <1>1, <1>2, <1>3, <1>4, <1>5, <1>6, <1>7, <1>8, <1>9, <1>10, <1>11, <1>12, <1>13, <1>14,
     <1>15, <1>16, <1>17, <1>18, <1>19, <1>20, <1>21, <1>22, <1>23, <1>24, <1>25, <1>26, <1>27,
     <1>28
     DEF Next, PluginStep, TimeStep, EndStep, WorkerStep

\* The services so far have numbers up to the last load's, and their workers too.
LoadsBehind ==
    /\ \A l \in Loads : l = 0 \/ l > load => svc[l] = "none"
    /\ \A w \in Workers : wload[w] <= load

\* Only an open service has queues.
QueuesOpen == \A l \in Loads, q \in Queues : conc[l][q] > 0 => l \in Opened

\* A worker whose database is open works for a queue that was created.
OwnQueue == \A w \in Workers : pc[w] # "off" /\ DbOpen(w) => conc[wload[w]][wqueue[w]] > 0

\* No two workers whose database is open hold the same task, unless it was usurped.
OneHolder ==
    \A v, w \in Workers, t \in Tasks \ usurped :
        Holds(v, t) /\ Holds(w, t) /\ DbOpen(v) /\ DbOpen(w) => v = w

\* Services are open side by side, and rows are usurped, only after an overlap; and
\* a usurped row was enqueued.
Overlaps ==
    /\ ~overlapped => \A l, m \in Opened : l = m
    /\ usurped # {} => overlapped
    /\ \A t \in usurped : status[t] # "absent"

\* the inductive invariant
Agreement == LoadsBehind /\ QueuesOpen /\ OwnQueue /\ HeldIsRunning /\ OneHolder
                /\ RunningIsOwned /\ Overlaps
IInv == TypeOK /\ Agreement

\* Nothing is running and nobody holds a task in the initial states.
LEMMA InitIInv == Init => IInv
BY InitTypes, ConstantsAssumption
   DEF Init, IInv, Agreement, TypeOK, LoadsBehind, QueuesOpen, OwnQueue, HeldIsRunning, OneHolder,
       RunningIsOwned, Overlaps, Serves, Opened, Holds, DbOpen, Open, Holding, Pcs, NoQueue

\* Steps that leave holders, queues and running rows as they are keep the agreement.
LEMMA Frame ==
    ASSUME IInv, Opened' = Opened,
           \A l \in Loads : svc'[l] = "none" <=> svc[l] = "none",
           UNCHANGED <<load, conc, attempt, wload, wqueue, wtask, wattempt, orphan, usurped, overlapped>>,
           \A w \in Workers : /\ pc'[w] \in Holding <=> pc[w] \in Holding
                              /\ pc'[w] = "off" <=> pc[w] = "off",
           \A t \in Tasks : \/ status'[t] = status[t]
                            \/ status[t] # "running" /\ status'[t] \notin {"running", "absent"}
    PROVE  Agreement'
<1> USE DEF IInv, Agreement, TypeOK
<1>1. \A w \in Workers : DbOpen(w)' <=> DbOpen(w)
  BY DEF DbOpen
<1>2. \A w \in Workers, t \in Tasks : Holds(w, t)' <=> Holds(w, t)
  BY DEF Holds
<1>3. \A l \in Loads, q \in Queues : Serves(l, q)' <=> Serves(l, q)
  BY DEF Serves
<1>4. LoadsBehind' /\ QueuesOpen'
  BY DEF LoadsBehind, QueuesOpen
<1>5. OwnQueue'
  BY <1>1 DEF OwnQueue
<1>6. HeldIsRunning'
  BY <1>1, <1>2 DEF HeldIsRunning
<1>7. OneHolder'
  BY <1>1, <1>2 DEF OneHolder
<1>8. RunningIsOwned'
  BY <1>1, <1>2, <1>3, ConstantsAssumption DEF RunningIsOwned
<1>9. Overlaps'
  BY DEF Overlaps
<1> QED
  BY <1>4, <1>5, <1>6, <1>7, <1>8, <1>9

\* A worker that lets its task go keeps it too, if it only writes a row it owns and
\* accounts for the one it leaves running.
LEMMA Release ==
    ASSUME IInv, NEW w \in Workers, pc[w] \in Holding, pc' \in [Workers -> Pcs],
           pc'[w] \in {"poll", "drain"}, \A v \in Workers \ {w} : pc'[v] = pc[v],
           UNCHANGED <<svc, load, conc, wload, wqueue, wtask, usurped, overlapped>>,
           wattempt' = [wattempt EXCEPT ![w] = 0],
           orphan \subseteq orphan',
           DbOpen(w) \/ UNCHANGED <<status, attempt>>,
           \A t \in Tasks \ {wtask[w]} : status'[t] = status[t] /\ attempt'[t] = attempt[t],
           status'[wtask[w]] \in {status[wtask[w]], "pending", "completed", "failed"},
           status[wtask[w]] = "absent" => status'[wtask[w]] = "absent",
           DbOpen(w) /\ status'[wtask[w]] = "running" => wtask[w] \in orphan'
    PROVE  Agreement'
<1> DEFINE t == wtask[w]
<1> USE DEF IInv, Agreement, TypeOK
<1>0. t \in Tasks /\ Holds(w, t) /\ Opened' = Opened
  BY DEF Holds, Opened
<1>1. \A v \in Workers : DbOpen(v)' <=> DbOpen(v)
  BY <1>0 DEF DbOpen
<1>2. /\ \A v \in Workers \ {w}, s \in Tasks : Holds(v, s)' <=> Holds(v, s)
      /\ \A s \in Tasks : ~Holds(w, s)'
  BY DEF Holds, Holding
<1>3. \A l \in Loads, q \in Queues : Serves(l, q)' <=> Serves(l, q)
  BY <1>0 DEF Serves
<1>4. LoadsBehind' /\ QueuesOpen'
  BY <1>0 DEF LoadsBehind, QueuesOpen
<1>5. OwnQueue'
  BY <1>1 DEF OwnQueue, Holding
<1>6. HeldIsRunning'
  BY <1>0, <1>1, <1>2 DEF HeldIsRunning, OneHolder
<1>7. OneHolder'
  BY <1>1, <1>2 DEF OneHolder
<1>8. RunningIsOwned'
  <2> SUFFICES ASSUME NEW s \in Tasks, status'[s] = "running",
                      NEW l \in Loads, Serves(l, QueueOf[s])', s \notin orphan'
               PROVE  \E v \in Workers : Holds(v, s)' /\ DbOpen(v)'
    BY DEF RunningIsOwned
  <2>1. status[s] = "running" /\ Serves(l, QueueOf[s]) /\ s \notin orphan
    BY <1>0, <1>3, ConstantsAssumption
  <2>2. PICK v \in Workers : Holds(v, s) /\ DbOpen(v)
    BY <2>1 DEF RunningIsOwned
  <2>3. v # w
    BY <2>2 DEF Holds
  <2> QED BY <1>1, <1>2, <2>2, <2>3
<1>9. Overlaps'
  BY <1>0 DEF Overlaps
<1> QED
  BY <1>4, <1>5, <1>6, <1>7, <1>8, <1>9

\* The release of a worker whose row is given back.
LEMMA RevertAgrees ==
    ASSUME IInv, NEW w \in Workers, pc[w] \in Holding, RevertTaskToPending(w)
    PROVE  Agreement'
<1> DEFINE t == wtask[w]
<1> USE DEF IInv, TypeOK
<1>1. /\ UNCHANGED <<svc, load, conc, wload, wqueue, wtask, usurped, overlapped>>
      /\ pc' = [pc EXCEPT ![w] = "poll"] /\ wattempt' = [wattempt EXCEPT ![w] = 0]
  BY DEF RevertTaskToPending, Return, Goto, service
<1>2. pc' \in [Workers -> Pcs] /\ pc'[w] \in {"poll", "drain"} /\ \A v \in Workers \ {w} : pc'[v] = pc[v]
  BY <1>1 DEF Pcs
<1>3. /\ orphan \subseteq orphan'
      /\ DbOpen(w) \/ UNCHANGED <<status, attempt>>
      /\ \A s \in Tasks \ {t} : status'[s] = status[s] /\ attempt'[s] = attempt[s]
      /\ status'[t] \in {status[t], "pending", "completed", "failed"}
      /\ status[t] = "absent" => status'[t] = "absent"
      /\ DbOpen(w) /\ status'[t] = "running" => t \in orphan'
  BY DEF RevertTaskToPending
<1> HIDE DEF t
<1> QED BY <1>1, <1>2, <1>3, Release DEF t

\* A load adds a service without queues or workers; the others stay as open.
LEMMA LoadAgrees == IInv /\ Load => Agreement'
<1> SUFFICES ASSUME IInv, Load PROVE Agreement'
  OBVIOUS
<1> USE DEF IInv, Agreement, TypeOK, Load, rows, worker
<1>1. load + 1 \in Loads /\ load' = load + 1 /\ svc[load + 1] = "none"
  BY ConstantsAssumption DEF Loads, LoadsBehind
<1>2. Opened' = Opened \cup {load + 1} /\ load + 1 \notin Opened
  BY <1>1 DEF Opened, Open
<1>3. \A w \in Workers : DbOpen(w)' <=> DbOpen(w)
  BY <1>1, <1>2 DEF DbOpen, LoadsBehind, Loads
<1>4. \A w \in Workers, t \in Tasks : Holds(w, t)' <=> Holds(w, t)
  BY DEF Holds
<1>5. \A l \in Loads, q \in Queues : Serves(l, q)' <=> Serves(l, q)
  BY <1>1, <1>2 DEF Serves, QueuesOpen
<1>6. LoadsBehind' /\ QueuesOpen'
  BY <1>1, <1>2 DEF LoadsBehind, QueuesOpen, Loads
<1>7. OwnQueue' /\ HeldIsRunning' /\ OneHolder'
  BY <1>3, <1>4 DEF OwnQueue, HeldIsRunning, OneHolder
<1>8. RunningIsOwned'
  BY <1>3, <1>4, <1>5, ConstantsAssumption DEF RunningIsOwned
<1>9. Overlaps'
  <2>1. ~overlapped' => Opened' = {load + 1}
    BY <1>2
  <2> QED BY <2>1 DEF Overlaps
<1> QED
  BY <1>6, <1>7, <1>8, <1>9

\* A dequeued task was in nobody's hands, or usurped.
LEMMA DequeueAgrees == IInv /\ (\E w \in Workers : Dequeue(w)) => Agreement'
<1> SUFFICES ASSUME IInv, NEW w \in Workers, Dequeue(w) PROVE Agreement'
  OBVIOUS
<1> USE DEF IInv, Agreement, TypeOK
<1>1. PICK t \in Ready(wqueue[w]) :
         /\ status' = [status EXCEPT ![t] = "running"]
         /\ attempt' = [attempt EXCEPT ![t] = @ + 1]
         /\ wtask' = [wtask EXCEPT ![w] = t]
         /\ wattempt' = [wattempt EXCEPT ![w] = attempt[t] + 1]
  BY DEF Dequeue
<1>2. t \in Tasks /\ QueueOf[t] = wqueue[w] /\ status[t] = "pending"
  BY <1>1 DEF Ready
<1>3. /\ UNCHANGED <<svc, load, conc, wload, wqueue, orphan, usurped, overlapped>>
      /\ pc[w] = "drain" /\ Alive(w) /\ pc' \in {[pc EXCEPT ![w] = "wait"], [pc EXCEPT ![w] = "lookup"]}
  BY DEF Dequeue, Goto, service, history
<1>4. Opened' = Opened /\ DbOpen(w) /\ \A v \in Workers : DbOpen(v)' <=> DbOpen(v)
  BY <1>3 DEF Opened, DbOpen, Alive, Running, Open
<1>5. /\ \A v \in Workers \ {w}, s \in Tasks : Holds(v, s)' <=> Holds(v, s)
      /\ \A s \in Tasks : Holds(w, s)' <=> s = t
      /\ \A s \in Tasks : ~Holds(w, s)
  BY <1>1, <1>2, <1>3 DEF Holds, Holding
<1>6. \A l \in Loads, q \in Queues : Serves(l, q)' <=> Serves(l, q)
  BY <1>3, <1>4 DEF Serves
<1>7. LoadsBehind' /\ QueuesOpen' /\ OwnQueue'
  BY <1>3, <1>4 DEF LoadsBehind, QueuesOpen, OwnQueue
<1>8. \A v \in Workers : Holds(v, t) /\ DbOpen(v) => t \in usurped
  BY <1>2 DEF HeldIsRunning
<1>9. HeldIsRunning'
  BY <1>1, <1>2, <1>3, <1>4, <1>5, <1>8 DEF HeldIsRunning, OwnQueue
<1>10. OneHolder'
  <2> SUFFICES ASSUME NEW u \in Workers, NEW v \in Workers, NEW s \in Tasks \ usurped,
                      Holds(u, s)', Holds(v, s)', DbOpen(u)', DbOpen(v)'
               PROVE  u = v
    BY <1>3 DEF OneHolder
  <2>1. CASE s = t
    BY <1>4, <1>5, <1>8, <2>1
  <2>2. CASE s # t
    BY <1>4, <1>5, <2>2 DEF OneHolder
  <2> QED BY <2>1, <2>2
<1>11. RunningIsOwned'
  <2> SUFFICES ASSUME NEW s \in Tasks, status'[s] = "running",
                      NEW l \in Loads, Serves(l, QueueOf[s])', s \notin orphan'
               PROVE  \E v \in Workers : Holds(v, s)' /\ DbOpen(v)'
    BY DEF RunningIsOwned
  <2>1. CASE s = t
    BY <1>4, <1>5, <2>1
  <2>2. CASE s # t
    <3>1. status[s] = "running" /\ Serves(l, QueueOf[s]) /\ s \notin orphan
      BY <1>1, <1>2, <1>3, <1>6, <2>2, ConstantsAssumption
    <3>2. PICK v \in Workers : Holds(v, s) /\ DbOpen(v)
      BY <3>1 DEF RunningIsOwned
    <3> QED BY <1>4, <1>5, <3>2
  <2> QED BY <2>1, <2>2
<1>12. Overlaps'
  BY <1>1, <1>2, <1>3, <1>4 DEF Overlaps
<1> QED
  BY <1>7, <1>9, <1>10, <1>11, <1>12

\* The goroutine of a worker ends, with nothing in its hands.
LEMMA ExitAgrees == IInv /\ (\E w \in Workers : Exit(w)) => Agreement'
<1> SUFFICES ASSUME IInv, NEW w \in Workers, Exit(w) PROVE Agreement'
  OBVIOUS
<1> USE DEF IInv, Agreement, TypeOK, Exit, Goto, rows, service, history
<1>1. Opened' = Opened /\ \A v \in Workers \ {w} : DbOpen(v)' <=> DbOpen(v)
  BY DEF Opened, DbOpen
<1>2. /\ \A v \in Workers, s \in Tasks : Holds(v, s)' <=> Holds(v, s)
      /\ \A s \in Tasks : ~Holds(w, s)
  BY DEF Holds, Holding
<1>3. \A l \in Loads, q \in Queues : Serves(l, q)' <=> Serves(l, q)
  BY <1>1 DEF Serves
<1>4. LoadsBehind' /\ QueuesOpen' /\ Overlaps'
  BY <1>1 DEF LoadsBehind, QueuesOpen, Overlaps, Loads
<1>5. OwnQueue' /\ HeldIsRunning' /\ OneHolder'
  BY <1>1, <1>2 DEF OwnQueue, HeldIsRunning, OneHolder
<1>6. RunningIsOwned'
  <2> SUFFICES ASSUME NEW s \in Tasks, status'[s] = "running",
                      NEW l \in Loads, Serves(l, QueueOf[s])', s \notin orphan'
               PROVE  \E v \in Workers : Holds(v, s)' /\ DbOpen(v)'
    BY DEF RunningIsOwned
  <2>1. status[s] = "running" /\ Serves(l, QueueOf[s]) /\ s \notin orphan
    BY <1>3, ConstantsAssumption
  <2>2. PICK v \in Workers : Holds(v, s) /\ DbOpen(v)
    BY <2>1 DEF RunningIsOwned
  <2> QED BY <1>1, <1>2, <2>2
<1> QED
  BY <1>4, <1>5, <1>6

\* A reset leaves no row of `which' running, and usurps those in a worker's hands.
LEMMA ResetFacts ==
    ASSUME TypeOK, NEW which \in SUBSET Tasks, NEW opened \in SUBSET Loads,
           ResetRunning(which, opened)
    PROVE  /\ usurped \subseteq usurped' /\ orphan' = orphan \ which
           /\ \A t \in Tasks : \/ status'[t] = status[t] /\ (t \in which => status[t] # "running")
                               \/ t \in which /\ status[t] = "running" /\ status'[t] = "pending"
           /\ \A t \in which, w \in Workers :
                 Holds(w, t) /\ wload[w] \in opened => t \in usurped'
           /\ \A t \in usurped' \ usurped :
                 t \in which /\ \E w \in Workers : Holds(w, t) /\ wload[w] \in opened
BY DEF ResetRunning, TypeOK

\* Creating a queue resets its rows before its workers begin.
LEMMA CreateAgrees ==
    ASSUME IInv, NEW l \in Loads, NEW q \in Queues, NEW want \in Requests, CreateQueue(l, q, want)
    PROVE  Agreement'
<1> DEFINE mine == {t \in Tasks : QueueOf[t] = q}
<1> USE DEF IInv, Agreement, TypeOK
<1>1. /\ UNCHANGED <<attempt, svc, load, wtask, wattempt, overlapped>>
      /\ l \in Opened /\ conc[l][q] = 0
      /\ conc' = [conc EXCEPT ![l][q] = Granted(l, want)] /\ Granted(l, want) \in Nat \ {0}
      /\ ResetRunning(mine, Opened)
  BY DEF CreateQueue
<1>2. PICK new \in SUBSET {w \in Workers : pc[w] = "off"} :
         /\ pc' = [w \in Workers |-> IF w \in new THEN "drain" ELSE pc[w]]
         /\ wload' = [w \in Workers |-> IF w \in new THEN l ELSE wload[w]]
         /\ wqueue' = [w \in Workers |-> IF w \in new THEN q ELSE wqueue[w]]
  BY DEF CreateQueue
<1>3. /\ usurped \subseteq usurped' /\ orphan' = orphan \ mine
      /\ \A t \in Tasks : \/ status'[t] = status[t] /\ (t \in mine => status[t] # "running")
                          \/ t \in mine /\ status[t] = "running" /\ status'[t] = "pending"
      /\ \A t \in mine, w \in Workers : Holds(w, t) /\ wload[w] \in Opened => t \in usurped'
      /\ \A t \in usurped' \ usurped :
            t \in mine /\ \E w \in Workers : Holds(w, t) /\ wload[w] \in Opened
  <2>1. mine \in SUBSET Tasks /\ Opened \in SUBSET Loads
    BY DEF Opened
  <2> QED BY ResetFacts, <1>1, <2>1
<1>4. Opened' = Opened
  BY <1>1 DEF Opened
<1>5. \A w \in Workers, t \in Tasks : Holds(w, t)' <=> Holds(w, t)
  BY <1>1, <1>2 DEF Holds, Holding
<1>6. \A w \in Workers, t \in Tasks : Holds(w, t) =>
         (DbOpen(w)' <=> DbOpen(w)) /\ wqueue'[w] = wqueue[w] /\ wload'[w] = wload[w]
  BY <1>2, <1>4 DEF Holds, Holding, DbOpen
<1>7. LoadsBehind'
  BY <1>1, <1>2 DEF LoadsBehind, Opened, Open, Loads
<1>8. QueuesOpen'
  BY <1>1, <1>4 DEF QueuesOpen
<1>9. OwnQueue'
  BY <1>1, <1>2, <1>4 DEF OwnQueue, DbOpen
<1>10. HeldIsRunning'
  <2> SUFFICES ASSUME NEW w \in Workers, NEW t \in Tasks, Holds(w, t), DbOpen(w)
               PROVE  /\ QueueOf[t] = wqueue[w] /\ conc'[wload[w]][wqueue[w]] > 0
                      /\ t \in usurped' \/ (status'[t] = "running" /\ attempt[t] = wattempt[w])
    BY <1>1, <1>5, <1>6 DEF HeldIsRunning
  <2>1. /\ QueueOf[t] = wqueue[w] /\ conc[wload[w]][wqueue[w]] > 0
        /\ t \in usurped \/ (status[t] = "running" /\ attempt[t] = wattempt[w])
    BY DEF HeldIsRunning
  <2>2. conc'[wload[w]][wqueue[w]] > 0
    BY <1>1, <2>1
  <2> HIDE DEF mine
  <2> QED BY <1>3, <2>1, <2>2 DEF DbOpen
<1>11. OneHolder'
  BY <1>3, <1>5, <1>6 DEF OneHolder
<1>12. RunningIsOwned'
  <2> SUFFICES ASSUME NEW s \in Tasks, status'[s] = "running",
                      NEW m \in Loads, Serves(m, QueueOf[s])', s \notin orphan'
               PROVE  \E v \in Workers : Holds(v, s)' /\ DbOpen(v)'
    BY DEF RunningIsOwned
  <2>1. status[s] = "running" /\ s \notin mine /\ s \notin orphan
    BY <1>3
  <2>2. Serves(m, QueueOf[s])
    BY <1>1, <1>4, <2>1, ConstantsAssumption DEF Serves
  <2>3. PICK v \in Workers : Holds(v, s) /\ DbOpen(v)
    BY <2>1, <2>2 DEF RunningIsOwned
  <2> QED BY <1>5, <1>6, <2>3
<1>13. Overlaps'
  <2>1. \A t \in usurped' \ usurped, w \in Workers :
            Holds(w, t) /\ wload[w] \in Opened /\ ~overlapped => FALSE
    <3> SUFFICES ASSUME NEW t \in usurped' \ usurped, NEW w \in Workers,
                        Holds(w, t), wload[w] \in Opened, ~overlapped
                 PROVE  FALSE
      OBVIOUS
    <3>1. t \in Tasks /\ QueueOf[t] = q
      BY <1>3
    <3>2. wload[w] = l
      BY <1>1 DEF Overlaps
    <3>3. QueueOf[t] = wqueue[w] /\ conc[wload[w]][wqueue[w]] > 0
      BY <3>1 DEF HeldIsRunning, DbOpen
    <3> QED BY <1>1, <3>1, <3>2, <3>3
  <2>2. \A t \in usurped' \ usurped : status'[t] = "pending" \/ status'[t] = "running"
    BY <1>3 DEF HeldIsRunning, DbOpen
  <2>3. \A t \in usurped : status'[t] # "absent"
    BY <1>3 DEF Overlaps
  <2> HIDE DEF mine
  <2> QED BY <1>1, <1>3, <1>4, <2>1, <2>2, <2>3 DEF Overlaps
<1> QED
  BY <1>7, <1>8, <1>9, <1>10, <1>11, <1>12, <1>13

\* Closing a service resets every row, and usurps those of the other services.
LEMMA CloseAgrees == ASSUME IInv, NEW l \in Loads, CloseEnd(l) PROVE Agreement'
<1> USE DEF IInv, Agreement, TypeOK
<1>1. /\ UNCHANGED <<attempt, load, pc, wload, wqueue, wtask, wattempt, overlapped>>
      /\ svc' = [svc EXCEPT ![l] = "closed"] /\ conc' = [conc EXCEPT ![l] = NoQueue]
      /\ ResetRunning(Tasks, Opened \ {l}) /\ l \in Opened
  BY DEF CloseEnd, CloseService, Closes, worker, Opened, Open
<1>2. Opened' = Opened \ {l}
  BY <1>1 DEF Opened, Open
<1>3. /\ usurped \subseteq usurped' /\ orphan' = orphan \ Tasks
      /\ \A t \in Tasks : \/ status'[t] = status[t] /\ status[t] # "running"
                          \/ status[t] = "running" /\ status'[t] = "pending"
      /\ \A t \in Tasks, w \in Workers : Holds(w, t) /\ wload[w] \in Opened \ {l} => t \in usurped'
      /\ \A t \in usurped' \ usurped :
            t \in Tasks /\ \E w \in Workers : Holds(w, t) /\ wload[w] \in Opened \ {l}
  <2>1. Tasks \in SUBSET Tasks /\ Opened \ {l} \in SUBSET Loads
    BY DEF Opened
  <2>2. /\ usurped \subseteq usurped' /\ orphan' = orphan \ Tasks
        /\ \A t \in Tasks : \/ status'[t] = status[t] /\ (t \in Tasks => status[t] # "running")
                            \/ t \in Tasks /\ status[t] = "running" /\ status'[t] = "pending"
        /\ \A t \in Tasks, w \in Workers : Holds(w, t) /\ wload[w] \in Opened \ {l} => t \in usurped'
        /\ \A t \in usurped' \ usurped :
              t \in Tasks /\ \E w \in Workers : Holds(w, t) /\ wload[w] \in Opened \ {l}
    BY ResetFacts, <1>1, <2>1
  <2> QED BY <2>2
<1>4. \A w \in Workers : DbOpen(w)' <=> DbOpen(w) /\ wload[w] # l
  BY <1>1, <1>2 DEF DbOpen
<1>5. \A w \in Workers, t \in Tasks : Holds(w, t)' <=> Holds(w, t)
  BY <1>1 DEF Holds
<1>6. LoadsBehind' /\ QueuesOpen'
  BY <1>1, <1>2 DEF LoadsBehind, QueuesOpen, NoQueue, Opened, Open
<1>7. OwnQueue'
  BY <1>1, <1>4 DEF OwnQueue
<1>8. HeldIsRunning'
  BY <1>1, <1>3, <1>4, <1>5 DEF HeldIsRunning, DbOpen
<1>9. OneHolder'
  BY <1>3, <1>4, <1>5 DEF OneHolder
<1>10. RunningIsOwned'
  BY <1>3 DEF RunningIsOwned
<1>11. Overlaps'
  <2>1. usurped' # {} => overlapped
    <3>1. ASSUME NEW t \in usurped' \ usurped PROVE overlapped
      BY <1>1, <1>3, <3>1 DEF Overlaps
    <3> QED BY <3>1 DEF Overlaps
  <2>2. \A t \in usurped' : status'[t] # "absent"
    BY <1>3 DEF Overlaps, HeldIsRunning, DbOpen
  <2> QED BY <1>1, <1>2, <2>1, <2>2 DEF Overlaps
<1> QED
  BY <1>6, <1>7, <1>8, <1>9, <1>10, <1>11

\* With the process every service ends, and its workers with it.
LEMMA EndAgrees == IInv /\ ProcessEnds => Agreement'
<1> SUFFICES ASSUME IInv, ProcessEnds PROVE Agreement'
  OBVIOUS
<1> USE DEF IInv, Agreement, TypeOK, ProcessEnds, rows, history
<1>1. Opened' = {}
  BY DEF Opened, Open
<1>2. LoadsBehind' /\ QueuesOpen'
  BY ConstantsAssumption DEF LoadsBehind, QueuesOpen, NoQueue, Loads
<1> QED
  BY <1>1, <1>2 DEF OwnQueue, HeldIsRunning, OneHolder, RunningIsOwned, Overlaps, DbOpen, Serves

\* Every step keeps the agreement of rows and workers.
LEMMA NextIInv == IInv /\ [Next]_vars => IInv'
<1> SUFFICES ASSUME IInv, [Next]_vars PROVE IInv'
  OBVIOUS
<1>0. TypeOK /\ TypeOK'
  BY NextTypes DEF IInv
<1>a. SUFFICES Agreement'
  BY <1>0 DEF IInv
<1>b. \A w \in Workers : pc[w] \in Pcs /\ wtask[w] \in Tasks /\ (Alive(w) => DbOpen(w))
  BY <1>0 DEF TypeOK, Alive, Running, DbOpen, Opened, Open
<1>1. CASE Load
  BY <1>1, LoadAgrees
<1>2. ASSUME NEW l \in Loads, NEW q \in Queues, NEW want \in Requests, CreateQueue(l, q, want) PROVE Agreement'
  BY <1>2, CreateAgrees
<1>3. ASSUME NEW q \in Queues, ClearQueue(q) PROVE Agreement'
  BY <1>3, <1>0, Frame DEF ClearQueue, Opened, Open, Terminal, TypeOK, rows, service, worker,
     history
<1>4. ASSUME NEW l \in Loads, NEW t \in Tasks, Enqueue(l, t) PROVE Agreement'
  BY <1>4, <1>0, Frame DEF Enqueue, Opened, Open, Terminal, TypeOK, rows, service, worker, history
<1>5. ASSUME NEW t \in Tasks, Cancel(t) PROVE Agreement'
  BY <1>5, <1>0, Frame DEF Cancel, Opened, Open, Terminal, TypeOK, rows, service, worker, history
<1>6. ASSUME NEW t \in Tasks, BecomeDue(t) PROVE Agreement'
  BY <1>6, <1>0, Frame DEF BecomeDue, Opened, Open, Terminal, TypeOK, rows, service, worker, history
<1>7. ASSUME NEW l \in Loads, NEW t \in Tasks, NotifyWorkers(l, t) PROVE Agreement'
  BY <1>7, <1>0, Frame DEF NotifyWorkers, Opened, Open, Terminal, TypeOK, rows, service, worker,
     history
<1>8. ASSUME NEW t \in Tasks, RunCleanup(t) PROVE Agreement'
  BY <1>8, <1>0, Frame DEF RunCleanup, Opened, Open, Terminal, TypeOK, rows, service, worker,
     history
<1>9. ASSUME NEW l \in Loads, Unlist(l) PROVE Agreement'
  BY <1>9, <1>0, Frame DEF Unlist, Opened, Open, Terminal, TypeOK, rows, service, worker, history
<1>10. ASSUME NEW l \in Loads, CloseBegin(l) PROVE Agreement'
  BY <1>10, <1>0, Frame DEF CloseBegin, Opened, Open, Terminal, TypeOK, rows, service, worker,
     history
<1>11. CASE StopCancel
  BY <1>11, <1>0, Frame DEF StopCancel, Opened, Open, Terminal, TypeOK, rows, service, worker,
     history
<1>12. CASE StopLock \/ StopEnd
  BY <1>12, <1>0, Frame DEF StopLock, StopEnd, StopMoves, Opened, Open, Terminal, TypeOK, rows,
     service, worker, history
<1>13. ASSUME NEW l \in Loads, CloseEnd(l) PROVE Agreement'
  BY <1>13, CloseAgrees
<1>14. CASE ProcessEnds
  BY <1>14, EndAgrees
<1>15. ASSUME NEW w \in Workers, WakeBySignal(w) PROVE Agreement'
  BY <1>15, <1>0, Frame DEF WakeBySignal, Goto, Opened, Holding, TypeOK, rows, service, worker,
     history
<1>16. ASSUME NEW w \in Workers, WakeByTicker(w) PROVE Agreement'
  BY <1>16, <1>0, Frame DEF WakeByTicker, Goto, Opened, Holding, TypeOK, rows, service, worker,
     history
<1>17. ASSUME NEW w \in Workers, Exit(w) PROVE Agreement'
  BY <1>17, ExitAgrees
<1>18. ASSUME NEW w \in Workers, Dequeue(w) PROVE Agreement'
  BY <1>18, DequeueAgrees
<1>19. ASSUME NEW w \in Workers, DequeueNone(w) PROVE Agreement'
  BY <1>19, <1>0, Frame DEF DequeueNone, Goto, Opened, Holding, TypeOK, rows, service, worker,
     history
<1>20. ASSUME NEW w \in Workers, RateWait(w) PROVE Agreement'
  BY <1>20, <1>0, Frame DEF RateWait, Goto, Opened, Holding, TypeOK, rows, service, worker, history
<1>21. ASSUME NEW w \in Workers, RateWaitCancelled(w) PROVE Agreement'
  BY <1>21, RevertAgrees DEF RateWaitCancelled, Holding
<1>22. ASSUME NEW w \in Workers, Lookup(w) PROVE Agreement'
  BY <1>22, <1>0, Frame DEF Lookup, Goto, Opened, Holding, TypeOK, rows, service, worker, history
<1>23. ASSUME NEW w \in Workers, CallReturns(w) PROVE Agreement'
  BY <1>23, <1>0, Frame DEF CallReturns, Goto, Opened, Holding, TypeOK, rows, service, worker,
     history
<1>24. ASSUME NEW w \in Workers, AfterCall(w) PROVE Agreement'
  BY <1>24, <1>0, Frame DEF AfterCall, Goto, Opened, Holding, TypeOK, rows, service, worker, history
<1>25. ASSUME NEW w \in Workers, AfterCallCancelled(w) PROVE Agreement'
  BY <1>25, RevertAgrees DEF AfterCallCancelled, Holding
<1>26. ASSUME NEW w \in Workers, SaveOutcome(w) PROVE Agreement'
  <2> DEFINE t == wtask[w]
  <2>1. /\ UNCHANGED <<svc, load, conc, wload, wqueue, wtask, orphan, usurped, overlapped, attempt>>
        /\ pc' = [pc EXCEPT ![w] = "drain"] /\ wattempt' = [wattempt EXCEPT ![w] = 0]
        /\ pc[w] = "save" /\ Alive(w)
    BY <1>26 DEF SaveOutcome, Return, Goto, history
  <2>2. /\ \A s \in Tasks \ {t} : status'[s] = status[s]
        /\ status'[t] \in {status[t], "pending", "completed", "failed"}
        /\ status'[t] = status[t] \/ status'[t] # "running"
    BY <1>0, <1>26 DEF SaveOutcome, Outcome, TypeOK
  <2>3. /\ pc' \in [Workers -> Pcs] /\ pc'[w] \in {"poll", "drain"}
        /\ \A v \in Workers \ {w} : pc'[v] = pc[v]
    BY <1>0, <2>1 DEF TypeOK
  <2>4. Holds(w, t) /\ DbOpen(w) /\ t \in Tasks
    BY <1>b, <2>1 DEF Holds, Holding
  <2>5. status[t] # "absent"
    BY <2>4 DEF IInv, Agreement, HeldIsRunning, Overlaps
  <2>6. status'[t] # "running"
    BY <1>26, <2>4, <1>0 DEF SaveOutcome, Outcome, TypeOK
  <2> HIDE DEF t
  <2> QED BY <1>0, <2>1, <2>2, <2>3, <2>4, <2>5, <2>6, Release DEF t, Holding
<1>27. ASSUME NEW w \in Workers, SaveFails(w) PROVE Agreement'
  BY <1>27, <1>0, <1>b, Release DEF SaveFails, Retried, Return, Goto, TypeOK, Holding, rows,
     service, worker, history
<1>28. CASE UNCHANGED vars
  BY <1>28, <1>0, Frame DEF vars, Opened, Open, Terminal, TypeOK, rows, service, worker, history
<1> QED
  BY <1>1, <1>2, <1>3, <1>4, <1>5, <1>6, <1>7, <1>8, <1>9, <1>10, <1>11, <1>12, <1>13, <1>14,
     <1>15, <1>16, <1>17, <1>18, <1>19, <1>20, <1>21, <1>22, <1>23, <1>24, <1>25, <1>26, <1>27,
     <1>28
     DEF Next, PluginStep, TimeStep, EndStep, WorkerStep

\* Spec keeps the invariant: the rows held by workers are theirs alone, save those that
\* the end or the beginning of another service resets.
THEOREM Invariance == Spec => []IInv
<1>1. Init => IInv
  BY InitIInv
<1>2. IInv /\ [Next]_vars => IInv'
  BY NextIInv
<1> QED
  BY <1>1, <1>2, PTL DEF Spec

\* Every variable keeps its type: no status outside the schema's, no attempt
\* counter below zero.
THEOREM TypeCorrect == Spec => []TypeOK
<1>1. IInv => TypeOK
  BY DEF IInv, Agreement
<1> QED
  BY <1>1, Invariance, PTL

\* While it can write, a worker's copy of its task is that of the table, unless another
\* service has reset the row meanwhile.
THEOREM HeldIsRunningHolds == Spec => []HeldIsRunning
<1>1. IInv => HeldIsRunning
  BY DEF IInv, Agreement
<1> QED
  BY <1>1, Invariance, PTL

\* No running task of a created queue is without a worker, save failed writes, however
\* many services are open.
THEOREM RunningIsOwnedHolds == Spec => []RunningIsOwned
<1>1. IInv => RunningIsOwned
  BY DEF IInv, Agreement
<1> QED
  BY <1>1, Invariance, PTL

\* Two executions of one task overlap only when one of them is a straggler, or when two
\* services were open at once and one has reset the row of the other.
THEOREM SingleExecutorHolds == Spec => []SingleExecutor
<1>1. IInv => SingleExecutor
  BY DEF IInv, Agreement, TypeOK, OneHolder, Overlaps, SingleExecutor, Holds, Holding
<1> QED
  BY <1>1, Invariance, PTL

-----------------------------------------------------------------------------
(* What a step may never do *)

\* A worker that settles or calls finds its row running, unless it was usurped.
LEMMA WriterOwns ==
    ASSUME IInv, NEW w \in Workers, pc[w] \in {"save", "lookup"}, Alive(w)
    PROVE  /\ wtask[w] \in Tasks /\ Holds(w, wtask[w]) /\ DbOpen(w)
           /\ wtask[w] \in usurped \/ (status[wtask[w]] = "running" /\ attempt[wtask[w]] = wattempt[w])
BY DEF IInv, Agreement, TypeOK, HeldIsRunning, Holds, Holding, DbOpen, Opened, Alive, Running, Open

\* No step moves a settled task, but for the cleanup and for usurped rows; and no step
\* brings a deleted row back.
LEMMA StickyStep ==
    ASSUME IInv, [Next]_vars, NEW t \in Tasks
    PROVE  /\ status[t] \in Terminal /\ t \notin usurped => status'[t] \in {status[t], "removed"}
           /\ status[t] = "removed" => status'[t] = "removed"
<1> DEFINE Sticky == /\ status[t] \in Terminal /\ t \notin usurped => status'[t] \in {status[t], "removed"}
                     /\ status[t] = "removed" => status'[t] = "removed"
<1>0. TypeOK
  BY DEF IInv
<1> USE DEF Terminal, rows, service, worker, history, TypeOK
<1>1. CASE PluginStep
  BY <1>0, <1>1 DEF PluginStep, CreateQueue, ResetRunning, ClearQueue, Enqueue, Cancel
<1>2. CASE TimeStep
  <2>1. ASSUME NEW s \in Tasks, RunCleanup(s) PROVE Sticky
    BY <1>0, <2>1 DEF RunCleanup
  <2>2. CASE UNCHANGED status
    BY <2>2
  <2> QED BY <1>2, <2>1, <2>2 DEF TimeStep, BecomeDue, NotifyWorkers
<1>3. CASE EndStep
  BY <1>0, <1>3 DEF EndStep, Unlist, CloseBegin, StopCancel, StopLock, StopEnd, StopMoves,
                    CloseEnd, CloseService, ResetRunning, ProcessEnds
<1>4. ASSUME NEW w \in Workers, WorkerStep(w) PROVE Sticky
  <2>1. CASE SaveOutcome(w)
    <3>1. wtask[w] = t => t \in usurped \/ status[t] = "running"
      BY <2>1, WriterOwns DEF SaveOutcome
    <3> QED BY <1>0, <2>1, <3>1 DEF SaveOutcome
  <2>2. CASE Dequeue(w)
    BY <1>0, <2>2 DEF Dequeue, Ready
  <2>3. CASE RateWaitCancelled(w) \/ AfterCallCancelled(w)
    BY <1>0, <2>3 DEF RateWaitCancelled, AfterCallCancelled, RevertTaskToPending
  <2>4. CASE ~(SaveOutcome(w) \/ Dequeue(w) \/ RateWaitCancelled(w) \/ AfterCallCancelled(w))
    BY <1>4, <2>4 DEF WorkerStep, WakeBySignal, WakeByTicker, Exit, DequeueNone, RateWait,
                      Lookup, CallReturns, AfterCall, SaveFails
  <2> QED BY <2>1, <2>2, <2>3, <2>4
<1>5. CASE Load \/ UNCHANGED vars
  BY <1>5 DEF Load, vars
<1> QED BY <1>1, <1>2, <1>3, <1>4, <1>5 DEF Next

\* A settled task is settled for good, for every number of loads, workers,
\* database errors and crashes, unless its row was usurped; and a deleted one deleted.
THEOREM TerminalStickyHolds == Spec => TerminalSticky
<1>1. IInv /\ [Next]_vars =>
        [\A t \in Tasks :
           /\ status[t] \in Terminal /\ t \notin usurped => status'[t] \in {status[t], "removed"}
           /\ status[t] = "removed" => status'[t] = "removed"]_vars
  BY StickyStep
<1> QED
  BY <1>1, Invariance, PTL DEF Spec, TerminalSticky

\* No step calls the plugin for a settled task that was not usurped.
LEMMA NoCallStep ==
    ASSUME IInv, [Next]_vars, NEW t \in Tasks \ usurped, status[t] \in Terminal
    PROVE  calls'[t] = calls[t]
<1>0. TypeOK
  BY DEF IInv
<1> USE DEF rows, service, worker, history, TypeOK
<1>1. CASE PluginStep
  BY <1>1 DEF PluginStep, CreateQueue, ClearQueue, Enqueue, Cancel
<1>2. CASE TimeStep
  BY <1>2 DEF TimeStep, BecomeDue, NotifyWorkers, RunCleanup
<1>3. CASE EndStep
  BY <1>3 DEF EndStep, Unlist, CloseBegin, StopCancel, StopLock, StopEnd, StopMoves,
              CloseEnd, CloseService, ProcessEnds
<1>4. ASSUME NEW w \in Workers, WorkerStep(w) PROVE calls'[t] = calls[t]
  <2>1. CASE Lookup(w) /\ Found(w)
    <3>1. wtask[w] # t
      BY <2>1, WriterOwns DEF Lookup, Found, Terminal
    <3>2. calls' = [calls EXCEPT ![wtask[w]] = @ + 1]
      BY <2>1 DEF Lookup
    <3> QED BY <1>0, <3>1, <3>2
  <2>2. CASE Lookup(w) /\ ~Found(w)
    BY <2>2 DEF Lookup
  <2>3. CASE ~Lookup(w)
    BY <1>4, <2>3 DEF WorkerStep, WakeBySignal, WakeByTicker, Exit, Dequeue, DequeueNone, RateWait,
         RateWaitCancelled, CallReturns, AfterCall, AfterCallCancelled, RevertTaskToPending,
         SaveOutcome, SaveFails
  <2> QED BY <2>1, <2>2, <2>3
<1>5. CASE Load \/ UNCHANGED vars
  BY <1>5 DEF Load, vars
<1> QED BY <1>1, <1>2, <1>3, <1>4, <1>5 DEF Next

\* No callback begins for a task that was cancelled, or has completed or failed, unless
\* another service has reset its row in the hands of a worker.
THEOREM SettledNeverCalledHolds == Spec => SettledNeverCalled
<1>1. IInv /\ [Next]_vars =>
        [\A t \in Tasks \ usurped : status[t] \in Terminal => calls'[t] = calls[t]]_vars
  BY NoCallStep
<1> QED
  BY <1>1, Invariance, PTL DEF Spec, SettledNeverCalled

-----------------------------------------------------------------------------
(* The service implements TaskLifecycle *)

\* The empty table is the initial state of the life cycle.
LEMMA InitLife == Init => Life!LifeInit
BY DEF Init, Life!LifeInit, lifeStage, lifeInHand

\* A reset puts back the tasks in hand among those it names, and shares those that an
\* open service still executes.
LEMMA ResetPutsBack ==
    ASSUME IInv, NEW S \in SUBSET Tasks, NEW opened \in SUBSET Opened,
           ResetRunning(S, opened), attempt' = attempt
    PROVE  Life!PutBack
<1>0. TypeOK
  BY DEF IInv
<1>1. lifeStage' = lifeStage
  BY <1>0 DEF lifeStage, ResetRunning, TypeOK
<1>2. lifeInHand' = lifeInHand \ (S \cap lifeInHand)
  BY <1>0 DEF lifeInHand, ResetRunning, TypeOK
<1>3. S \cap lifeInHand \in SUBSET lifeInHand
  OBVIOUS
<1> DEFINE T == {t \in S : t \notin usurped /\ \E w \in Workers : Holds(w, t) /\ wload[w] \in opened}
<1>4. usurped' = usurped \cup T
  BY DEF ResetRunning
<1>5. T \in SUBSET (S \cap lifeInHand)
  BY <1>0 DEF lifeInHand, IInv, Agreement, HeldIsRunning, DbOpen, TypeOK
<1> HIDE DEF T
<1> QED
  BY <1>1, <1>2, <1>3, <1>4, <1>5 DEF Life!PutBack

\* So does a worker that gives its task back.
LEMMA OnePutsBack ==
    ASSUME TypeOK, NEW t \in Tasks, status[t] = "running", usurped' = usurped,
           status' = [status EXCEPT ![t] = "pending"],
           attempt' = attempt \/ attempt' = [attempt EXCEPT ![t] = @ - 1]
    PROVE  Life!PutBack
<1>1. lifeStage' = lifeStage
  BY DEF lifeStage, TypeOK
<1>2. lifeInHand' = lifeInHand \ {t}
  BY DEF lifeInHand, TypeOK
<1>3. {t} \in SUBSET lifeInHand /\ usurped' = usurped \cup {} /\ {} \in SUBSET {t}
  BY DEF lifeInHand
<1> QED
  BY <1>1, <1>2, <1>3 DEF Life!PutBack

\* Giving an interrupted task back puts it back, or finds the row out of reach.
LEMMA RevertPutsBack ==
    ASSUME IInv, NEW w \in Workers, pc[w] \in Holding, RevertTaskToPending(w)
    PROVE  Life!PutBack \/ UNCHANGED <<status, attempt, usurped>>
<1> DEFINE t == wtask[w]
<1>1. TypeOK /\ t \in Tasks /\ usurped' = usurped
  BY DEF IInv, TypeOK, RevertTaskToPending
<1>2. CASE DbOpen(w) /\ status[t] = "running"
           /\ status' = [status EXCEPT ![t] = "pending"]
           /\ attempt' = [attempt EXCEPT ![t] = IF @ > 0 THEN @ - 1 ELSE 0]
  <2>1. attempt[t] \in Nat
    BY <1>1 DEF TypeOK
  <2>2. attempt' = attempt \/ attempt' = [attempt EXCEPT ![t] = @ - 1]
    <3>1. CASE attempt[t] > 0
      BY <1>1, <1>2, <3>1 DEF TypeOK
    <3>2. CASE attempt[t] = 0
      BY <1>1, <1>2, <3>2 DEF TypeOK
    <3> QED BY <2>1, <3>1, <3>2
  <2> HIDE DEF t
  <2> QED BY <1>1, <1>2, <2>2, OnePutsBack
<1>3. CASE UNCHANGED <<status, attempt>>
  BY <1>1, <1>3
<1> QED
  BY <1>2, <1>3 DEF RevertTaskToPending

\* Saving an outcome settles the task, puts it back for a retry, or overrules what became
\* of a usurped row.
LEMMA SaveSettles ==
    ASSUME IInv, NEW w \in Workers, SaveOutcome(w)
    PROVE  Life!PutBack \/ Life!Settle \/ Life!Overrule \/ UNCHANGED <<status, attempt, usurped>>
<1> DEFINE t == wtask[w]
<1>1. /\ TypeOK /\ t \in Tasks
      /\ t \in usurped \/ (status[t] = "running" /\ attempt[t] = wattempt[w])
  BY WriterOwns DEF IInv, SaveOutcome
<1>2. attempt' = attempt /\ usurped' = usurped
  BY DEF SaveOutcome, history
<1>3. CASE status[t] = "removed"
  BY <1>2, <1>3 DEF SaveOutcome
<1>4. CASE status[t] # "removed"
  <2>0. status' = [status EXCEPT ![t] = Outcome(w)]
    BY <1>4 DEF SaveOutcome
  <2>1. Outcome(w) \in {"completed", "failed", "pending"}
    BY DEF Outcome
  <2> DEFINE out == IF Outcome(w) = "pending" THEN "queued" ELSE Outcome(w)
  <2>2. lifeStage' = [s \in Tasks |-> IF s \in {t} THEN out ELSE lifeStage[s]]
    BY <1>1, <2>0, <2>1 DEF lifeStage, TypeOK
  <2>3. lifeInHand' = lifeInHand \ {t}
    BY <1>1, <2>0, <2>1 DEF lifeInHand, TypeOK
  <2>4. CASE t \notin usurped /\ Outcome(w) = "pending"
    <3> HIDE DEF t
    <3> QED BY <1>1, <1>2, <2>0, <2>4, OnePutsBack
  <2>5. CASE t \notin usurped /\ Outcome(w) # "pending"
    <3>1. Outcome(w) = "failed" => attempt[t] > MaxRetries[QueueOf[t]]
      BY <1>1, <2>5 DEF Outcome, Exhausted
    <3>2. t \in lifeInHand
      BY <1>1, <2>5 DEF lifeInHand
    <3> HIDE DEF t
    <3> QED BY <1>1, <1>2, <2>1, <2>2, <2>3, <2>5, <3>1, <3>2 DEF Life!Settle, Life!Move
  <2>6. CASE t \in usurped
    <3>1. lifeStage[t] \in {"completed", "failed", "cancelled", "queued"}
      BY <1>1, <1>4, <2>6
         DEF lifeStage, IInv, Agreement, Overlaps, TypeOK, Statuses, Terminal
    <3>2. out \in {"queued", "completed", "failed"}
      BY <2>1
    <3> HIDE DEF t, out
    <3> QED BY <1>1, <1>2, <2>2, <2>3, <2>6, <3>1, <3>2
            DEF Life!Overrule, Life!Move, Life!Settled
  <2> QED BY <2>4, <2>5, <2>6
<1> QED
  BY <1>3, <1>4

\* A dequeue takes a task that nobody has in hand.
LEMMA DequeueTakes ==
    ASSUME TypeOK, NEW w \in Workers, Dequeue(w)
    PROVE  Life!Take
<1>1. PICK t \in Ready(wqueue[w]) : /\ status' = [status EXCEPT ![t] = "running"]
                                    /\ attempt' = [attempt EXCEPT ![t] = @ + 1]
  BY DEF Dequeue
<1>0. usurped' = usurped
  BY DEF Dequeue, history
<1>2. t \in Tasks /\ status[t] = "pending"
  BY DEF Ready
<1>3. lifeStage' = lifeStage
  BY <1>1, <1>2 DEF lifeStage, TypeOK
<1>4. lifeInHand' = lifeInHand \cup {t} /\ t \notin lifeInHand
  BY <1>1, <1>2 DEF lifeInHand, TypeOK
<1>5. lifeStage[t] = "queued"
  BY <1>2 DEF lifeStage
<1> QED
  BY <1>0, <1>1, <1>2, <1>3, <1>4, <1>5 DEF Life!Take, Life!Queued

\* Each operation of the plugin is a put-back, a submission or a withdrawal.
LEMMA PluginLife ==
    ASSUME IInv, PluginStep
    PROVE  Life!PutBack \/ Life!Submit \/ Life!Withdraw
<1>1. TypeOK
  BY DEF IInv
<1>2. ASSUME NEW l \in Loads, NEW q \in Queues, NEW want \in Requests, CreateQueue(l, q, want)
      PROVE  Life!PutBack
  <2>1. {t \in Tasks : QueueOf[t] = q} \in SUBSET Tasks /\ Opened \in SUBSET Opened
    OBVIOUS
  <2> QED BY <1>1, <1>2, <2>1, ResetPutsBack DEF CreateQueue
<1>3. ASSUME NEW q \in Queues, ClearQueue(q)
      PROVE  Life!Withdraw
  <2> DEFINE S == {t \in Tasks : QueueOf[t] = q /\ status[t] = "pending"}
  <2>1. /\ status' = [t \in Tasks |-> IF t \in S THEN "cancelled" ELSE status[t]]
        /\ attempt' = attempt /\ usurped' = usurped
    BY <1>3 DEF ClearQueue, history
  <2>2. S \in SUBSET Tasks /\ (\A t \in S : status[t] = "pending")
    OBVIOUS
  <2>3. S \in SUBSET (Life!Queued \ lifeInHand)
    BY DEF Life!Queued, lifeStage, lifeInHand
  <2> HIDE DEF S
  <2>4. /\ lifeInHand' = lifeInHand
        /\ lifeStage' = [t \in Tasks |-> IF t \in S THEN "cancelled" ELSE lifeStage[t]]
    BY <1>1, <2>1, <2>2 DEF lifeInHand, lifeStage, TypeOK
  <2> QED BY <2>1, <2>3, <2>4 DEF Life!Withdraw, Life!Move
<1>4. ASSUME NEW l \in Loads, NEW t \in Tasks, Enqueue(l, t)
      PROVE  Life!Submit
  <2>1. /\ status' = [s \in Tasks |-> IF s \in {t} THEN "pending" ELSE status[s]]
        /\ attempt' = attempt /\ usurped' = usurped /\ status[t] = "absent"
    BY <1>1, <1>4 DEF Enqueue, TypeOK, history
  <2>2. /\ lifeInHand' = lifeInHand
        /\ lifeStage' = [s \in Tasks |-> IF s \in {t} THEN "queued" ELSE lifeStage[s]]
    BY <1>1, <2>1 DEF lifeInHand, lifeStage, TypeOK
  <2>3. lifeStage[t] = "absent"
    BY <2>1 DEF lifeStage
  <2> QED BY <2>1, <2>2, <2>3 DEF Life!Submit, Life!Move
<1>5. ASSUME NEW t \in Tasks, Cancel(t)
      PROVE  Life!Withdraw
  <2>1. /\ status' = [s \in Tasks |-> IF s \in {t} THEN "cancelled" ELSE status[s]]
        /\ attempt' = attempt /\ usurped' = usurped /\ status[t] = "pending"
    BY <1>1, <1>5 DEF Cancel, TypeOK, history
  <2>2. /\ lifeInHand' = lifeInHand
        /\ lifeStage' = [s \in Tasks |-> IF s \in {t} THEN "cancelled" ELSE lifeStage[s]]
    BY <1>1, <2>1 DEF lifeInHand, lifeStage, TypeOK
  <2>3. {t} \in SUBSET (Life!Queued \ lifeInHand)
    BY <2>1 DEF Life!Queued, lifeStage, lifeInHand
  <2> QED BY <2>1, <2>2, <2>3 DEF Life!Withdraw, Life!Move
<1> QED
  BY <1>2, <1>3, <1>4, <1>5 DEF PluginStep

\* Each step of a worker is a take, a put-back, an outcome or invisible.
LEMMA WorkerLife ==
    ASSUME IInv, NEW w \in Workers, WorkerStep(w)
    PROVE  \/ Life!PutBack \/ Life!Settle \/ Life!Overrule \/ Life!Take
           \/ UNCHANGED <<status, attempt, usurped>>
<1>1. CASE SaveOutcome(w)
  BY <1>1, SaveSettles
<1>2. CASE Dequeue(w)
  BY <1>2, DequeueTakes DEF IInv
<1>3. CASE RateWaitCancelled(w) \/ AfterCallCancelled(w)
  BY <1>3, RevertPutsBack DEF RateWaitCancelled, AfterCallCancelled, Holding
<1>4. CASE ~(SaveOutcome(w) \/ Dequeue(w) \/ RateWaitCancelled(w) \/ AfterCallCancelled(w))
  BY <1>4 DEF WorkerStep, WakeBySignal, WakeByTicker, Exit, DequeueNone, RateWait,
              Lookup, CallReturns, AfterCall, SaveFails, rows, history
<1> QED BY <1>1, <1>2, <1>3, <1>4

\* Every step of the service is a step of the life cycle or a stutter.
LEMMA NextLife ==
    ASSUME IInv, [Next]_vars
    PROVE  [Life!LifeNext]_Life!lifeVars
<1> USE DEF Life!LifeNext, Life!lifeVars
<1>0. TypeOK
  BY DEF IInv
<1>1. CASE UNCHANGED <<status, attempt, usurped>>
  BY <1>1 DEF lifeStage, lifeInHand
<1>2. CASE PluginStep
  BY <1>2, PluginLife
<1>3. ASSUME NEW l \in Loads, CloseEnd(l) PROVE Life!PutBack
  <2>1. Tasks \in SUBSET Tasks /\ Opened \ {l} \in SUBSET Opened
    OBVIOUS
  <2> QED BY <1>3, <2>1, ResetPutsBack DEF CloseEnd, CloseService
<1>4. ASSUME NEW t \in Tasks, RunCleanup(t) PROVE Life!Forget
  <2>1. /\ status' = [s \in Tasks |-> IF s \in {t} THEN "removed" ELSE status[s]]
        /\ attempt' = attempt /\ usurped' = usurped /\ status[t] \in Terminal
    BY <1>0, <1>4 DEF RunCleanup, TypeOK, history
  <2>2. /\ lifeInHand' = lifeInHand
        /\ lifeStage' = [s \in Tasks |-> IF s \in {t} THEN "removed" ELSE lifeStage[s]]
    BY <1>0, <2>1 DEF lifeInHand, lifeStage, TypeOK, Terminal
  <2>3. lifeStage[t] \in Life!Settled
    BY <2>1 DEF lifeStage, Life!Settled, Terminal
  <2> QED BY <2>1, <2>2, <2>3 DEF Life!Forget, Life!Move
<1>5. ASSUME NEW w \in Workers, WorkerStep(w) PROVE [Life!LifeNext]_Life!lifeVars
  BY <1>1, <1>5, WorkerLife
<1> QED
  BY <1>1, <1>2, <1>3, <1>4, <1>5
  DEF Next, TimeStep, BecomeDue, NotifyWorkers, EndStep, Unlist, CloseBegin, StopCancel, StopLock,
      StopEnd, StopMoves, ProcessEnds, Load, rows, history, vars

\* What a plugin observes of its tasks is what TaskLifecycle promises.
THEOREM Refinement == Spec => ImplementsLifecycle
<1>1. IInv /\ [Next]_vars => [Life!LifeNext]_Life!lifeVars
  BY NextLife
<1> QED
  BY <1>1, InitLife, Invariance, PTL DEF Spec, ImplementsLifecycle, Life!LifeSpec

-----------------------------------------------------------------------------
(* At-least-once delivery is bounded *)

Cap(a, m) == IF a < m THEN a ELSE m

\* the loads that were cut short, and what they and the database errors may have cost
Cut  == {l \in 1 .. load : ~Running(l)}
Lost == Cardinality(Cut) + faults

\* t has been called by a worker that may still record the outcome
Called(t) == \E w \in Workers : /\ Holds(w, t) /\ Alive(w)
                                /\ pc[w] \in {"call", "back", "save"}

\* What a task may have cost so far.  A row whose execution is nobody's any more has cost
\* one call less than the loads cut short and the errors allow.
Budget(t) ==
    LET m == MaxRetries[QueueOf[t]] IN
    /\ calls[t] <= m + load + faults
    /\ status[t] = "absent" => calls[t] = 0
    /\ status[t] = "pending" => calls[t] <= Cap(attempt[t], m) + Lost
    /\ status[t] = "running" =>
         calls[t] <= Cap(attempt[t] - 1, m) + Lost + (IF Called(t) THEN 1 ELSE 0)

CallBudget == \A t \in Tasks \ usurped : Budget(t)

\* The loads cut short are some of those there were.
LEMMA CutType ==
    ASSUME IInv
    PROVE  /\ IsFiniteSet(Cut) /\ Cardinality(Cut) \in Nat /\ Lost \in Nat
           /\ \A l \in Loads : Running(l) => l \in 1 .. load /\ Cardinality(Cut) + 1 <= load
<1> USE DEF IInv, TypeOK
<1>1. load \in Nat /\ faults \in Nat
  BY ConstantsAssumption DEF Loads
<1>2. IsFiniteSet(1 .. load) /\ Cardinality(1 .. load) = load
  BY <1>1, FS_Interval
<1>3. IsFiniteSet(Cut) /\ Cardinality(Cut) \in Nat
  BY <1>2, FS_Subset, FS_CardinalityType DEF Cut
<1>4. ASSUME NEW l \in Loads, Running(l) PROVE l \in 1 .. load /\ Cardinality(Cut) + 1 <= load
  <2>1. l \in 1 .. load
    BY <1>1, <1>4, ConstantsAssumption DEF Agreement, LoadsBehind, Running, Loads
  <2>2. l \notin Cut /\ Cut \cup {l} \subseteq 1 .. load
    BY <1>4, <2>1 DEF Cut
  <2>3. Cardinality(Cut \cup {l}) = Cardinality(Cut) + 1
    BY <1>3, <2>2, FS_AddElement
  <2>4. Cardinality(Cut \cup {l}) <= load
    <3>1. Cut \cup {l} \in SUBSET (1 .. load)
      BY <2>2
    <3>2. Cardinality(Cut \cup {l}) <= Cardinality(1 .. load)
      BY <1>2, <3>1, FS_Subset
    <3> QED BY <1>2, <3>2
  <2> QED BY <2>1, <2>3, <2>4
<1> QED
  BY <1>1, <1>3, <1>4 DEF Lost

\* A load that was cut short stays so.
LEMMA CutStays ==
    ASSUME IInv, [Next]_vars
    PROVE  /\ load <= load' /\ faults <= faults' /\ usurped \subseteq usurped'
           /\ \A l \in 1 .. load : ~Running(l) => ~Running(l)'
<1> DEFINE Goal == /\ load <= load' /\ faults <= faults' /\ usurped \subseteq usurped'
                   /\ \A l \in 1 .. load : ~Running(l) => ~Running(l)'
<1>0. TypeOK /\ load \in Nat /\ faults \in Nat /\ 1 .. load \subseteq Loads
  BY ConstantsAssumption DEF IInv, TypeOK, Loads
<1> USE DEF Running, rows, service, worker, history
<1>1. CASE PluginStep
  BY <1>0, <1>1 DEF PluginStep, CreateQueue, ResetRunning, ClearQueue, Enqueue, Cancel
<1>2. CASE TimeStep
  <2>1. UNCHANGED <<load, faults, usurped, mgr, svc>>
    BY <1>2 DEF TimeStep, BecomeDue, NotifyWorkers, RunCleanup
  <2> QED BY <1>0, <2>1
<1>3. CASE StopCancel \/ StopLock \/ StopEnd \/ ProcessEnds
  BY <1>0, <1>3 DEF StopCancel, StopLock, StopEnd, StopMoves, ProcessEnds
<1>4. ASSUME NEW l \in Loads, Unlist(l) \/ CloseBegin(l) \/ CloseEnd(l) PROVE Goal
  BY <1>0, <1>4 DEF TypeOK, Unlist, CloseBegin, CloseEnd, CloseService, Closes, ResetRunning
<1>5. ASSUME NEW w \in Workers, WorkerStep(w) PROVE Goal
  BY <1>0, <1>5 DEF WorkerStep, WakeBySignal, WakeByTicker, Exit, Dequeue, DequeueNone, RateWait,
         RateWaitCancelled, Lookup, CallReturns, AfterCall, AfterCallCancelled, RevertTaskToPending,
         SaveOutcome, SaveFails
<1>6. CASE Load \/ UNCHANGED vars
  BY <1>0, <1>6 DEF Load, vars, TypeOK
<1> QED BY <1>1, <1>2, <1>3, <1>4, <1>5, <1>6 DEF Next, EndStep

\* The cost only grows, and by one at least when a running load is cut short.
LEMMA LostGrows ==
    ASSUME IInv, [Next]_vars
    PROVE  /\ Lost \in Nat /\ Lost' \in Nat /\ Lost <= Lost'
           /\ faults < faults' => Lost + 1 <= Lost'
           /\ \A l \in Loads : Running(l) /\ ~Running(l)' => Lost + 1 <= Lost'
<1>0. IInv'
  BY NextIInv
<1>1. /\ IsFiniteSet(Cut) /\ Cardinality(Cut) \in Nat /\ Lost \in Nat
      /\ \A l \in Loads : Running(l) => l \in 1 .. load
  BY CutType
<1>2. IsFiniteSet(Cut)' /\ (Cardinality(Cut) \in Nat)' /\ (Lost \in Nat)'
  BY <1>0, CutType, PTL
<1>3. /\ load <= load' /\ faults <= faults'
      /\ \A l \in 1 .. load : ~Running(l) => ~Running(l)'
  BY CutStays
<1>4. load \in Nat /\ load' \in Nat /\ faults \in Nat /\ faults' \in Nat
  BY <1>0, ConstantsAssumption DEF IInv, TypeOK, Loads
<1>5. Cut \subseteq Cut' /\ Cardinality(Cut) <= Cardinality(Cut')
  <2>1. Cut \subseteq Cut'
    BY <1>3, <1>4 DEF Cut
  <2> QED BY <1>2, <2>1, FS_Subset
<1>6. ASSUME NEW l \in Loads, Running(l), ~Running(l)'
      PROVE  Cardinality(Cut) + 1 <= Cardinality(Cut')
  <2>1. l \notin Cut /\ l \in Cut'
    BY <1>1, <1>3, <1>4, <1>6 DEF Cut
  <2>2. Cut \cup {l} \subseteq Cut'
    BY <1>5, <2>1
  <2>3. Cardinality(Cut \cup {l}) = Cardinality(Cut) + 1
    BY <1>1, <2>1, FS_AddElement
  <2>4. Cardinality(Cut \cup {l}) <= Cardinality(Cut')
    BY <1>2, <2>2, FS_Subset
  <2> QED BY <2>3, <2>4
<1> QED
  BY <1>1, <1>2, <1>3, <1>4, <1>5, <1>6 DEF Lost

\* A debt that may be paid off only against a greater loss.
LEMMA Owed ==
    ASSUME NEW a \in Nat, NEW b \in Nat, a <= b, NEW c, NEW d, c => d \/ a + 1 <= b
    PROVE  a + (IF c THEN 1 ELSE 0) <= b + (IF d THEN 1 ELSE 0)
<1>1. CASE c /\ d
  <2>1. (IF c THEN 1 ELSE 0) = 1 /\ (IF d THEN 1 ELSE 0) = 1
    BY <1>1, Zenon
  <2>2. a + 1 <= b + 1
    OBVIOUS
  <2> QED BY <2>1, <2>2, Zenon
<1>2. CASE c /\ ~d
  <2>1. (IF c THEN 1 ELSE 0) = 1 /\ (IF d THEN 1 ELSE 0) = 0
    BY <1>2, Zenon
  <2>2. a + 1 <= b
    BY <1>2, Zenon
  <2>3. a + 1 <= b + 0
    BY <2>2
  <2> QED BY <2>1, <2>3, Zenon
<1>3. CASE ~c
  <2>1. (IF c THEN 1 ELSE 0) = 0 /\ (IF d THEN 1 ELSE 0) \in {0, 1}
    BY <1>3, Zenon
  <2>2. \A v \in {0, 1} : a + 0 <= b + v
    OBVIOUS
  <2> QED BY <2>1, <2>2, Zenon
<1> QED BY <1>1, <1>2, <1>3, Zenon

\* The arithmetic of the steps that do not call the plugin for t.
LEMMA BudgetStep ==
    ASSUME TypeOK, TypeOK', NEW t \in Tasks, Budget(t), load <= load', faults <= faults',
           Lost \in Nat, Lost' \in Nat, Lost <= Lost', calls'[t] = calls[t],
           \/ /\ status'[t] = status[t] /\ attempt'[t] = attempt[t]
              /\ status[t] = "running" /\ Called(t) => Called(t)' \/ Lost + 1 <= Lost'
           \/ status'[t] \in {"completed", "failed", "cancelled", "removed"}
           \/ status[t] = "absent" /\ status'[t] = "pending"
           \/ status[t] = "pending" /\ status'[t] = "running" /\ attempt'[t] = attempt[t] + 1
           \/ /\ status[t] = "running" /\ status'[t] = "pending"
              /\ attempt'[t] = attempt[t] /\ attempt[t] <= MaxRetries[QueueOf[t]]
           \/ /\ status[t] = "running" /\ status'[t] = "pending" /\ ~Called(t)
              /\ attempt'[t] \in {attempt[t], attempt[t] - 1}
    PROVE  Budget(t)'
<1> DEFINE m == MaxRetries[QueueOf[t]]
           u == IF Called(t) THEN 1 ELSE 0
           v == IF Called(t)' THEN 1 ELSE 0
<1>1. /\ m \in Nat /\ load \in Nat /\ load' \in Nat /\ faults \in Nat /\ faults' \in Nat
      /\ calls[t] \in Nat /\ attempt[t] \in Nat /\ attempt'[t] \in Nat
  BY ConstantsAssumption DEF TypeOK, Loads
<1>2. /\ calls[t] <= m + load + faults
      /\ status[t] = "absent" => calls[t] = 0
      /\ status[t] = "pending" => calls[t] <= Cap(attempt[t], m) + Lost
      /\ status[t] = "running" => calls[t] <= Cap(attempt[t] - 1, m) + Lost + u
  BY DEF Budget
<1>3. u \in {0, 1} /\ v \in {0, 1} /\ (~Called(t) => u = 0)
  OBVIOUS
<1>4. (Called(t) => Called(t)' \/ Lost + 1 <= Lost') => Lost + u <= Lost' + v
  BY Owed, Zenon
<1> HIDE DEF m, u, v
<1>5. /\ calls'[t] <= m + load' + faults'
      /\ status'[t] = "absent" => calls'[t] = 0
      /\ status'[t] = "pending" => calls'[t] <= Cap(attempt'[t], m) + Lost'
      /\ status'[t] = "running" => calls'[t] <= Cap(attempt'[t] - 1, m) + Lost' + v
  <2>1. CASE /\ status'[t] = status[t] /\ attempt'[t] = attempt[t]
             /\ status[t] = "running" /\ Called(t) => Called(t)' \/ Lost + 1 <= Lost'
    <3>1. status[t] = "running" => Lost + u <= Lost' + v
      BY <1>4, <2>1
    <3> QED BY <1>1, <1>2, <1>3, <2>1, <3>1 DEF Cap
  <2>2. CASE status'[t] \in {"completed", "failed", "cancelled", "removed"}
    BY <1>1, <1>2, <2>2
  <2>3. CASE status[t] = "absent" /\ status'[t] = "pending"
    BY <1>1, <1>2, <2>3 DEF Cap
  <2>4. CASE status[t] = "pending" /\ status'[t] = "running" /\ attempt'[t] = attempt[t] + 1
    BY <1>1, <1>2, <1>3, <2>4 DEF Cap
  <2>5. CASE /\ status[t] = "running" /\ status'[t] = "pending"
             /\ attempt'[t] = attempt[t] /\ attempt[t] <= MaxRetries[QueueOf[t]]
    BY <1>1, <1>2, <1>3, <2>5 DEF Cap, m
  <2>6. CASE /\ status[t] = "running" /\ status'[t] = "pending" /\ ~Called(t)
             /\ attempt'[t] \in {attempt[t], attempt[t] - 1}
    <3>1. u = 0
      BY <1>3, <2>6
    <3> QED BY <1>1, <1>2, <2>6, <3>1 DEF Cap
  <2> QED BY <2>1, <2>2, <2>3, <2>4, <2>5, <2>6
<1> QED
  BY <1>5 DEF Budget, m, v

\* A task that was not usurped has one worker that may write its row: if that one has not
\* called, or is cut short, nobody has.
LEMMA CalledByOne ==
    ASSUME IInv, NEW w \in Workers, NEW t \in Tasks \ usurped, Holds(w, t), DbOpen(w),
           ~Alive(w) \/ pc[w] \notin {"call", "back", "save"}
    PROVE  ~Called(t) /\ status[t] = "running" /\ attempt[t] = wattempt[w]
<1>1. status[t] = "running" /\ attempt[t] = wattempt[w]
  BY DEF IInv, Agreement, HeldIsRunning
<1>2. \A v \in Workers : Alive(v) => DbOpen(v)
  BY DEF IInv, TypeOK, Alive, Running, DbOpen, Opened, Open
<1> QED
  BY <1>1, <1>2 DEF Called, IInv, Agreement, OneHolder

\* No call has been made in the initial states.
LEMMA InitCalls == Init => CallBudget
<1> SUFFICES ASSUME Init, NEW t \in Tasks PROVE Budget(t)
  BY DEF CallBudget
<1>1. IInv
  BY InitIInv
<1>2. MaxRetries[QueueOf[t]] \in Nat
  BY ConstantsAssumption
<1> QED
  BY <1>2 DEF Init, Budget

\* A step that does not touch t's row, and by which nobody lets a called t go unless a
\* load is cut short or the database fails.
LEMMA BudgetFrame ==
    ASSUME IInv, [Next]_vars, NEW t \in Tasks, Budget(t),
           status'[t] = status[t], attempt'[t] = attempt[t], calls'[t] = calls[t],
           \A w \in Workers, l \in Loads :
              /\ Holds(w, t) /\ wload[w] = l /\ Running(l) /\ pc[w] \in {"call", "back", "save"}
              => \/ Holds(w, t)' /\ wload'[w] = l /\ pc'[w] \in {"call", "back", "save"}
                 \/ faults < faults'
                 \/ ~Running(l)'
    PROVE  Budget(t)'
<1>1. TypeOK /\ TypeOK'
  BY NextTypes DEF IInv
<1>2. load <= load' /\ faults <= faults'
  BY CutStays
<1>3. /\ Lost \in Nat /\ Lost' \in Nat /\ Lost <= Lost' /\ (faults < faults' => Lost + 1 <= Lost')
      /\ \A l \in Loads : Running(l) /\ ~Running(l)' => Lost + 1 <= Lost'
  BY LostGrows
<1>4. ASSUME Called(t) PROVE Called(t)' \/ Lost + 1 <= Lost'
  <2>1. PICK w \in Workers : Holds(w, t) /\ Alive(w) /\ pc[w] \in {"call", "back", "save"}
    BY <1>4 DEF Called
  <2>2. PICK l \in Loads : l = wload[w] /\ Running(l)
    BY <1>1, <2>1 DEF TypeOK, Alive
  <2>3. CASE Running(l)' /\ ~(faults < faults')
    <3>1. Holds(w, t)' /\ wload'[w] = l /\ pc'[w] \in {"call", "back", "save"}
      BY <2>1, <2>2, <2>3
    <3>2. Alive(w)'
      BY <2>3, <3>1 DEF Alive, Running
    <3> QED BY <3>1, <3>2 DEF Called
  <2>4. CASE ~Running(l)'
    <3>1. Lost + 1 <= Lost'
      BY <1>3, <2>2, <2>4
    <3> QED BY <3>1, Zenon
  <2>5. CASE faults < faults'
    <3>1. Lost + 1 <= Lost'
      BY <1>3, <2>5
    <3> QED BY <3>1, Zenon
  <2> QED BY <2>3, <2>4, <2>5
<1> QED
  BY <1>1, <1>2, <1>3, <1>4, BudgetStep

\* A step that resets, or gives back, the row of a task that nobody has called for.
LEMMA BudgetReset ==
    ASSUME IInv, [Next]_vars, NEW t \in Tasks, Budget(t), calls'[t] = calls[t],
           status[t] = "running", status'[t] = "pending", ~Called(t),
           attempt'[t] \in {attempt[t], attempt[t] - 1}
    PROVE  Budget(t)'
<1>1. TypeOK /\ TypeOK'
  BY NextTypes DEF IInv
<1> QED
  BY <1>1, CutStays, LostGrows, BudgetStep

\* A call by the only worker that may record its outcome.
LEMMA BudgetCall ==
    ASSUME IInv, [Next]_vars, NEW w \in Workers, Lookup(w), Found(w),
           wtask[w] \notin usurped, Budget(wtask[w])
    PROVE  Budget(wtask[w])'
<1> DEFINE t == wtask[w]
           m == MaxRetries[QueueOf[t]]
<1>1. TypeOK /\ t \in Tasks
  BY DEF IInv, TypeOK
<1>2. Alive(w) /\ pc[w] = "lookup" /\ wload[w] \in Loads /\ Running(wload[w])
  BY <1>1 DEF Lookup, Found, Alive, TypeOK
<1>3. Holds(w, t) /\ DbOpen(w)
  BY <1>2, WriterOwns
<1>4. ~Called(t) /\ status[t] = "running"
  BY <1>1, <1>2, <1>3, CalledByOne
<1>5. /\ calls'[t] = calls[t] + 1 /\ attempt' = attempt /\ status' = status
      /\ load' = load /\ faults' = faults /\ (\A l \in Loads : Running(l)' = Running(l))
      /\ pc'[w] = "call" /\ wtask' = wtask /\ wload' = wload
  BY <1>1 DEF Lookup, Goto, TypeOK, rows, service, Running
<1>6. Called(t)'
  BY <1>1, <1>2, <1>5 DEF Called, Holds, Holding, Alive, TypeOK
<1>7. /\ m \in Nat /\ load \in Nat /\ faults \in Nat /\ Cardinality(Cut) \in Nat
      /\ calls[t] \in Nat /\ attempt[t] \in Nat /\ Cardinality(Cut) + 1 <= load
  BY <1>1, <1>2, CutType, ConstantsAssumption DEF TypeOK, Loads
<1>8. Cut' = Cut
  <2>1. \A l \in 1 .. load : l \in Loads
    BY <1>1, <1>7, ConstantsAssumption DEF TypeOK, Loads
  <2> QED BY <1>5, <2>1 DEF Cut
<1>9. (IF Called(t) THEN 1 ELSE 0) = 0 /\ (IF Called(t)' THEN 1 ELSE 0) = 1
  BY <1>4, <1>6, Zenon
<1>10. calls[t] <= Cap(attempt[t] - 1, m) + Lost + (IF Called(t) THEN 1 ELSE 0)
  BY <1>4 DEF Budget
<1>11. calls[t] <= Cap(attempt[t] - 1, m) + Cardinality(Cut) + faults
  BY <1>7, <1>9, <1>10 DEF Lost, Cap
<1>12. /\ calls'[t] <= m + load' + faults'
       /\ calls'[t] <= Cap(attempt'[t] - 1, m) + Lost' + 1
  BY <1>5, <1>7, <1>8, <1>11 DEF Lost, Cap
<1>13. calls'[t] <= Cap(attempt'[t] - 1, m) + Lost' + (IF Called(t)' THEN 1 ELSE 0)
  BY <1>9, <1>12
<1> QED
  BY <1>4, <1>5, <1>12, <1>13 DEF Budget

\* Each step of a worker keeps the budget of every task.
LEMMA WorkerCalls ==
    ASSUME IInv, [Next]_vars, NEW w \in Workers, WorkerStep(w),
           NEW t \in Tasks \ usurped, Budget(t)
    PROVE  Budget(t)'
<1>1. TypeOK /\ TypeOK'
  BY NextTypes DEF IInv
<1> USE DEF rows, service, worker, history
<1>2. CASE SaveOutcome(w) /\ wtask[w] = t /\ status[t] # "removed"
  <2>1. status[t] = "running" /\ attempt[t] = wattempt[w]
    BY <1>2, WriterOwns DEF SaveOutcome
  <2>2. status'[t] = Outcome(w) /\ attempt' = attempt /\ calls' = calls
    BY <1>1, <1>2 DEF SaveOutcome, TypeOK
  <2>3. \/ status'[t] \in {"completed", "failed"}
        \/ status'[t] = "pending" /\ attempt[t] <= MaxRetries[QueueOf[t]]
    <3>1. attempt[t] \in Nat /\ MaxRetries[QueueOf[t]] \in Nat
      BY <1>1, ConstantsAssumption DEF TypeOK
    <3> QED BY <1>2, <2>1, <2>2, <3>1 DEF Outcome, Exhausted
  <2> QED BY <1>1, <2>1, <2>2, <2>3, CutStays, LostGrows, BudgetStep
<1>3. CASE SaveOutcome(w) /\ ~(wtask[w] = t /\ status[t] # "removed")
  <2>1. status'[t] = status[t] /\ attempt' = attempt /\ calls' = calls /\ wload' = wload
    BY <1>1, <1>3 DEF SaveOutcome, TypeOK
  <2>2. wtask[w] # t
    BY <1>1, <1>3, WriterOwns DEF SaveOutcome
  <2>3. \A v \in Workers \ {w} : pc'[v] = pc[v] /\ wtask' = wtask
    BY <1>1, <1>3 DEF SaveOutcome, Return, Goto, TypeOK
  <2> QED BY <2>1, <2>2, <2>3, BudgetFrame DEF Holds, Holding
<1>4. CASE Dequeue(w)
  <2>1. PICK s \in Tasks : /\ status[s] = "pending"
                           /\ status' = [status EXCEPT ![s] = "running"]
                           /\ attempt' = [attempt EXCEPT ![s] = @ + 1]
    BY <1>4 DEF Dequeue, Ready
  <2>2. calls' = calls /\ wload' = wload /\ pc[w] = "drain"
    BY <1>4 DEF Dequeue
  <2>3. CASE s = t
    <3>1. status[t] = "pending" /\ status'[t] = "running" /\ attempt'[t] = attempt[t] + 1
      BY <1>1, <2>1, <2>3 DEF TypeOK
    <3> QED BY <1>1, <2>2, <3>1, CutStays, LostGrows, BudgetStep
  <2>4. CASE s # t
    <3>1. status'[t] = status[t] /\ attempt'[t] = attempt[t]
      BY <1>1, <2>1, <2>4 DEF TypeOK
    <3>2. \A v \in Workers \ {w} : pc'[v] = pc[v] /\ wtask'[v] = wtask[v]
      BY <1>1, <1>4 DEF Dequeue, Goto, TypeOK
    <3> QED BY <2>2, <3>1, <3>2, BudgetFrame DEF Holds, Holding
  <2> QED BY <2>3, <2>4
<1>5. CASE Lookup(w) /\ Found(w) /\ wtask[w] = t
  <2>1. wtask[w] \notin usurped /\ Budget(wtask[w])
    BY <1>5
  <2>2. Budget(wtask[w])'
    BY <1>5, <2>1, BudgetCall
  <2>3. wtask' = wtask
    BY <1>5 DEF Lookup
  <2> QED BY <1>5, <2>2, <2>3 DEF Budget, Called
<1>6. CASE Lookup(w) /\ ~(Found(w) /\ wtask[w] = t)
  <2>1. calls'[t] = calls[t]
    BY <1>1, <1>6 DEF Lookup, TypeOK
  <2>2. UNCHANGED <<status, attempt, wload, wtask>> /\ pc[w] = "lookup"
    BY <1>6 DEF Lookup
  <2>3. \A v \in Workers \ {w} : pc'[v] = pc[v]
    BY <1>1, <1>6 DEF Lookup, Goto, TypeOK
  <2> QED BY <2>1, <2>2, <2>3, BudgetFrame DEF Holds, Holding
<1>7. CASE RateWaitCancelled(w) \/ AfterCallCancelled(w)
  <2>1. RevertTaskToPending(w) /\ ~Alive(w) /\ pc[w] \in Holding
    BY <1>7 DEF RateWaitCancelled, AfterCallCancelled, Holding
  <2>2. calls' = calls /\ UNCHANGED <<wload, wtask>>
    BY <2>1 DEF RevertTaskToPending
  <2>3. \A v \in Workers \ {w} : pc'[v] = pc[v]
    BY <1>1, <2>1 DEF RevertTaskToPending, Return, Goto, TypeOK
  <2> DEFINE taken == DbOpen(w) /\ status[wtask[w]] = "running" /\ t = wtask[w] /\ status'[t] # status[t]
  <2>4. CASE taken
    <3>1. Holds(w, t)
      BY <2>1, <2>4 DEF Holds
    <3>2. ~Called(t)
      BY <2>1, <2>4, <3>1, CalledByOne
    <3>3. status'[t] = "pending" /\ attempt'[t] \in {attempt[t], attempt[t] - 1}
      BY <1>1, <2>1, <2>4 DEF RevertTaskToPending, TypeOK
    <3> QED BY <2>2, <2>4, <3>2, <3>3, BudgetReset
  <2>5. CASE ~taken
    <3>1. status'[t] = status[t] /\ attempt'[t] = attempt[t]
      BY <1>1, <2>1, <2>5 DEF RevertTaskToPending, TypeOK
    <3>2. ASSUME NEW v \in Workers, NEW l \in Loads, Holds(v, t), wload[v] = l, Running(l)
          PROVE  Holds(v, t)' /\ wload'[v] = l /\ pc'[v] = pc[v]
      <4>1. v # w
        BY <2>1, <3>2 DEF Alive
      <4> QED BY <2>2, <2>3, <3>2, <4>1 DEF Holds
    <3> QED BY <2>2, <3>1, <3>2, BudgetFrame
  <2> QED BY <2>4, <2>5
<1>8. CASE SaveFails(w)
  <2>1. UNCHANGED <<status, attempt, calls, wload, wtask>> /\ (~Alive(w) \/ faults < faults')
    BY <1>1, <1>8 DEF SaveFails, TypeOK
  <2>2. \A v \in Workers \ {w} : pc'[v] = pc[v]
    BY <1>1, <1>8 DEF SaveFails, Return, Goto, TypeOK
  <2>3. ASSUME NEW v \in Workers, NEW l \in Loads, Holds(v, t), wload[v] = l, Running(l),
               pc[v] \in {"call", "back", "save"}
        PROVE  \/ Holds(v, t)' /\ wload'[v] = l /\ pc'[v] \in {"call", "back", "save"}
               \/ faults < faults'
    <3>1. v # w \/ faults < faults'
      BY <2>1, <2>3 DEF Alive
    <3> QED BY <2>1, <2>2, <2>3, <3>1 DEF Holds
  <2> QED BY <2>1, <2>3, BudgetFrame
<1>9. CASE CallReturns(w) \/ AfterCall(w)
  <2>1. UNCHANGED <<status, attempt, calls, wload, wtask>> /\ pc'[w] \in {"back", "save"}
    BY <1>1, <1>9 DEF CallReturns, AfterCall, Goto, TypeOK
  <2>2. \A v \in Workers \ {w} : pc'[v] = pc[v]
    BY <1>1, <1>9 DEF CallReturns, AfterCall, Goto, TypeOK
  <2> QED BY <2>1, <2>2, BudgetFrame DEF Holds, Holding
<1>10. CASE WakeBySignal(w) \/ WakeByTicker(w) \/ Exit(w) \/ DequeueNone(w) \/ RateWait(w)
  <2>1. UNCHANGED <<status, attempt, calls, wtask>> /\ pc[w] \in {"poll", "drain", "wait"}
    BY <1>10 DEF WakeBySignal, WakeByTicker, Exit, DequeueNone, RateWait
  <2>2. \A v \in Workers \ {w} : pc'[v] = pc[v] /\ wload'[v] = wload[v]
    BY <1>1, <1>10 DEF WakeBySignal, WakeByTicker, Exit, DequeueNone, RateWait, Goto, TypeOK
  <2> QED BY <2>1, <2>2, BudgetFrame DEF Holds, Holding
<1> QED
  BY <1>2, <1>3, <1>4, <1>5, <1>6, <1>7, <1>8, <1>9, <1>10 DEF WorkerStep

\* A reset of rows keeps the budget of those that stay in nobody's hands.
LEMMA ResetCalls ==
    ASSUME IInv, [Next]_vars, NEW which \in SUBSET Tasks, NEW opened \in SUBSET Opened,
           ResetRunning(which, opened), UNCHANGED <<attempt, calls, wtask>>,
           NEW t \in Tasks \ usurped', Budget(t),
           \A w \in Workers, l \in Loads : wload[w] = l /\ Running(l) /\ Holds(w, t) =>
              \/ l \in opened /\ pc'[w] = pc[w] /\ wload'[w] = l
              \/ ~Running(l)'
    PROVE  Budget(t)'
<1>1. TypeOK
  BY DEF IInv
<1>2. CASE t \in which /\ status[t] = "running" /\ ~Called(t)
  BY <1>1, <1>2, BudgetReset DEF ResetRunning, TypeOK
<1>3. CASE ~(t \in which /\ status[t] = "running")
  <2>1. status'[t] = status[t]
    BY <1>3 DEF ResetRunning
  <2> QED BY <2>1, BudgetFrame DEF Holds
<1>4. CASE t \in which /\ status[t] = "running" /\ Called(t)
  \* the one that called is of the service that ends
  <2>1. PICK w \in Workers : Holds(w, t) /\ Alive(w) /\ pc[w] \in {"call", "back", "save"}
    BY <1>4 DEF Called
  <2>2. wload[w] \notin opened
    BY <1>4, <2>1 DEF ResetRunning
  <2>3. PICK l \in Loads : l = wload[w] /\ Running(l) /\ ~Running(l)'
    BY <1>1, <2>1, <2>2 DEF Alive, TypeOK
  <2>4. Lost \in Nat /\ Lost' \in Nat /\ load <= load' /\ faults <= faults'
    BY LostGrows, CutStays
  <2>7. Lost + 1 <= Lost'
    BY <2>3, LostGrows
  <2>5. TypeOK' /\ status'[t] = "pending"
    BY <1>4, NextTypes DEF ResetRunning, IInv
  <2>6. (IF Called(t) THEN 1 ELSE 0) = 1
    BY <1>4, Zenon
  <2>8. calls[t] <= Cap(attempt[t] - 1, MaxRetries[QueueOf[t]]) + Lost + 1
    BY <1>4, <2>6 DEF Budget
  <2>9. /\ calls[t] \in Nat /\ attempt[t] \in Nat /\ MaxRetries[QueueOf[t]] \in Nat
        /\ load \in Nat /\ load' \in Nat /\ faults \in Nat /\ faults' \in Nat
    BY <1>1, <2>5, ConstantsAssumption DEF TypeOK, Loads
  <2>10. calls'[t] <= Cap(attempt'[t], MaxRetries[QueueOf[t]]) + Lost'
    BY <2>4, <2>7, <2>8, <2>9 DEF Cap
  <2>11. calls'[t] <= MaxRetries[QueueOf[t]] + load' + faults'
    BY <2>4, <2>9 DEF Budget
  <2> QED BY <2>5, <2>10, <2>11 DEF Budget
<1> QED
  BY <1>2, <1>3, <1>4

\* No step spends more than the budget of a task that is not usurped.
LEMMA NextCalls == IInv /\ CallBudget /\ [Next]_vars => CallBudget'
<1> SUFFICES ASSUME IInv, CallBudget, [Next]_vars, NEW t \in Tasks \ usurped' PROVE Budget(t)'
  BY DEF CallBudget
<1>1. TypeOK /\ TypeOK' /\ t \in Tasks \ usurped /\ Budget(t)
  BY NextTypes, CutStays DEF IInv, CallBudget
<1> USE DEF rows, service, worker, history
<1>2. CASE Load \/ TimeStep \/ UNCHANGED vars
  <2>1. ASSUME NEW s \in Tasks, RunCleanup(s) PROVE Budget(t)'
    <3>1. UNCHANGED <<attempt, calls, pc, wtask, wload>>
      BY <2>1 DEF RunCleanup
    <3>2. status'[t] \in {status[t], "removed"}
      BY <1>1, <2>1 DEF RunCleanup, TypeOK
    <3>3. CASE status'[t] = status[t]
      BY <1>1, <3>1, <3>3, BudgetFrame DEF Holds
    <3>4. CASE status'[t] = "removed"
      BY <1>1, <3>1, <3>4, CutStays, LostGrows, BudgetStep
    <3> QED BY <3>2, <3>3, <3>4
  <2>2. CASE UNCHANGED <<status, attempt, calls, pc, wtask, wload>>
    BY <1>1, <2>2, BudgetFrame DEF Holds
  <2> QED BY <1>2, <2>1, <2>2 DEF Load, TimeStep, BecomeDue, NotifyWorkers, vars
<1>3. ASSUME NEW l \in Loads, NEW q \in Queues, NEW want \in Requests, CreateQueue(l, q, want)
      PROVE  Budget(t)'
  <2>1. ResetRunning({s \in Tasks : QueueOf[s] = q}, Opened) /\ UNCHANGED <<attempt, calls, wtask>>
    BY <1>3 DEF CreateQueue
  <2>2. \A w \in Workers : pc[w] # "off" => pc'[w] = pc[w] /\ wload'[w] = wload[w]
    BY <1>1, <1>3 DEF CreateQueue, TypeOK
  <2>3. \A w \in Workers, k \in Loads : wload[w] = k /\ Running(k) /\ Holds(w, t) =>
           k \in Opened /\ pc'[w] = pc[w] /\ wload'[w] = k
    BY <1>1, <2>2 DEF Running, Opened, Open, TypeOK, Holds, Holding
  <2>4. {s \in Tasks : QueueOf[s] = q} \in SUBSET Tasks /\ Opened \in SUBSET Opened
    OBVIOUS
  <2> QED BY <1>1, <2>1, <2>3, <2>4, ResetCalls
<1>4. CASE \/ \E q \in Queues : ClearQueue(q)
           \/ \E s \in Tasks : Cancel(s) \/ \E l \in Loads : Enqueue(l, s)
  <2>1. UNCHANGED <<attempt, calls, pc, wtask, wload>>
    BY <1>4 DEF ClearQueue, Cancel, Enqueue
  <2>2. \/ status'[t] = status[t] \/ status'[t] = "cancelled"
        \/ status[t] = "absent" /\ status'[t] = "pending"
    BY <1>1, <1>4 DEF ClearQueue, Cancel, Enqueue, TypeOK
  <2>3. CASE status'[t] = status[t]
    BY <1>1, <2>1, <2>3, BudgetFrame DEF Holds
  <2>4. CASE status'[t] # status[t]
    BY <1>1, <2>1, <2>2, <2>4, CutStays, LostGrows, BudgetStep
  <2> QED BY <2>3, <2>4
<1>5. ASSUME NEW l \in Loads, CloseEnd(l) PROVE Budget(t)'
  <2>1. /\ ResetRunning(Tasks, Opened \ {l})
        /\ UNCHANGED <<attempt, calls, pc, wtask, wload, mgr>>
        /\ svc' = [svc EXCEPT ![l] = "closed"]
    BY <1>5 DEF CloseEnd, CloseService
  <2>2. \A w \in Workers, k \in Loads : wload[w] = k /\ Running(k) /\ Holds(w, t) =>
           \/ k \in Opened \ {l} /\ pc'[w] = pc[w] /\ wload'[w] = k
           \/ ~Running(k)'
    BY <1>1, <2>1 DEF Running, Opened, Open, TypeOK
  <2>3. Tasks \in SUBSET Tasks /\ Opened \ {l} \in SUBSET Opened
    OBVIOUS
  <2> QED BY <1>1, <2>1, <2>2, <2>3, ResetCalls
<1>6. CASE \/ StopCancel \/ StopLock \/ StopEnd \/ \E l \in Loads : Unlist(l) \/ CloseBegin(l)
  <2>1. UNCHANGED <<status, attempt, calls, pc, wtask, wload>>
    BY <1>6 DEF StopCancel, StopLock, StopEnd, StopMoves, Unlist, CloseBegin
  <2> QED BY <1>1, <2>1, BudgetFrame DEF Holds
<1>7. CASE ProcessEnds
  <2>1. UNCHANGED <<status, attempt, calls>> /\ \A l \in Loads : ~Running(l)'
    BY <1>1, <1>7 DEF ProcessEnds, Running, TypeOK
  <2> QED BY <1>1, <2>1, BudgetFrame
<1>8. ASSUME NEW w \in Workers, WorkerStep(w) PROVE Budget(t)'
  BY <1>1, <1>8, WorkerCalls
<1> QED
  BY <1>2, <1>3, <1>4, <1>5, <1>6, <1>7, <1>8 DEF Next, PluginStep, EndStep

\* A task that no other service has reset in the hands of a worker is called at most
\* MaxRetries + 1 times, and once more for each earlier load that was cut short and for
\* each database error the workers met.
THEOREM BoundedCallsHolds == Spec => []BoundedCalls
<1>1. CallBudget => BoundedCalls
  BY DEF CallBudget, Budget, BoundedCalls
<1> QED
  BY <1>1, InitCalls, NextCalls, Invariance, PTL DEF Spec
=============================================================================
