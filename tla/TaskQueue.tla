----------------------------- MODULE TaskQueue -----------------------------
(***************************************************************************)
(* The persistent task queue the host offers to one plugin                 *)
(* (plugins/host_taskqueue.go), over any number of loads of that plugin.   *)
(*                                                                         *)
(* A load of the plugin creates a service: a context, an SQLite handle, an *)
(* in-memory table of queues and, per queue, worker goroutines.  The rows  *)
(* of the tasks table survive the service; everything else belongs to one  *)
(* load.  Services of a plugin may overlap: unloadPlugin takes the plugin  *)
(* out of the map first and closes it afterwards, and a load asks nothing  *)
(* of its predecessor.  Workers of a closed service may still be running:  *)
(* Close gives up waiting for them after shutdownTimeout.                  *)
(*                                                                         *)
(* Time is abstracted to what decides control: a pending row is `due' or   *)
(* not, and becomes due at some moment.  The dequeue takes any due row of  *)
(* its queue: ORDER BY next_run_at, created_at is one of those choices.    *)
(***************************************************************************)
EXTENDS Integers, FiniteSets, FiniteSetsExt, Functions

CONSTANTS
    Tasks,           \* task ids, each used once (id.NewRandom)
    Queues,          \* queue names
    Workers,         \* goroutine slots
    QueueOf,         \* the queue each task is enqueued in
    MaxRetries,      \* the queues' maxRetries
    Delayed,         \* the queues with delayMs > 0, which have a rate limiter
    Requests,        \* the concurrencies a plugin asks for
    MaxConcurrency,  \* the manifest's maxConcurrency
    Endings,         \* how a load may end: "unload", "stop", "crash"
    MaxLoads,        \* bound: loads of the plugin
    MaxFaults        \* bound: database errors met by the workers

ASSUME ConstantsAssumption ==
    /\ Tasks # {} /\ Queues # {}
    /\ QueueOf \in [Tasks -> Queues]
    /\ MaxRetries \in [Queues -> Nat]
    /\ Delayed \subseteq Queues
    /\ Requests \subseteq Int
    /\ MaxConcurrency \in Nat \ {0}
    /\ Endings \subseteq {"unload", "stop", "crash"}
    /\ MaxLoads \in Nat
    /\ MaxFaults \in Nat

VARIABLES
    \* the tasks table
    status, attempt, due,
    \* the manager and the loads: how many there were, the phase of each, its
    \* queues' concurrency (0: not created), its filled signal channels, and
    \* its notifyWorkers calls to come (from Enqueue or AfterFunc)
    mgr, load, svc, conc, signal, notify,
    \* the worker goroutines
    pc, wload, wqueue, wtask, wattempt, wok,
    \* history: executions begun per task, rows whose last write failed, rows
    \* reset in the hands of a worker that can still write them, did a load find
    \* the service of another open, and the database errors
    calls, orphan, usurped, overlapped, faults

rows    == <<status, attempt, due>>
service == <<mgr, load, svc, conc, signal, notify>>
worker  == <<pc, wload, wqueue, wtask, wattempt, wok>>
history == <<calls, orphan, usurped, overlapped, faults>>
vars    == <<rows, service, worker, history>>

Terminal == {"completed", "failed", "cancelled"}
Statuses == {"absent", "pending", "running", "removed"} \cup Terminal

(***************************************************************************)
(* A service is                                                            *)
(* live      loaded and in the manager's map                               *)
(* lost      put out of the map by another load, and never closed          *)
(* unlisted  unloadPlugin took it out of the map; Close not called yet     *)
(* closing   Close cancelled the context and waits for the workers         *)
(* closed    Close has closed the database, or the process has ended       *)
(* and the manager is up, draining (Stop has cancelled every context),     *)
(* locked (Stop holds the lock and closes what is in the map) or stopped.  *)
(***************************************************************************)
Loads   == 0 .. MaxLoads    \* 0: no load
Open    == {"live", "lost", "unlisted", "closing"}
Phases  == Open \cup {"none", "closed"}
Managers == {"up", "draining", "locked", "stopped"}

Holding == {"wait", "lookup", "call", "back", "save"}
Pcs     == {"off", "poll", "drain"} \cup Holding

\* s.ctx.Err() = nil for the service l; its handle s.db is open
Running(l) == mgr = "up" /\ svc[l] \in {"live", "lost", "unlisted"}
Opened     == {l \in Loads : svc[l] \in Open}

\* as a worker sees its own service
Alive(w)  == Running(wload[w])
DbOpen(w) == wload[w] \in Opened

Holds(w, t) == pc[w] \in Holding /\ wtask[w] = t

NoQueue == [q \in Queues |-> 0]

Init ==
    /\ status = [t \in Tasks |-> "absent"]
    /\ attempt = [t \in Tasks |-> 0]
    /\ due = [t \in Tasks |-> FALSE]
    /\ mgr = "up"
    /\ load = 0
    /\ svc = [l \in Loads |-> "none"]
    /\ conc = [l \in Loads |-> NoQueue]
    /\ signal = {}
    /\ notify = {}
    /\ pc = [w \in Workers |-> "off"]
    /\ wload = [w \in Workers |-> 0]
    /\ wqueue = [w \in Workers |-> CHOOSE q \in Queues : TRUE]
    /\ wtask = [w \in Workers |-> CHOOSE t \in Tasks : TRUE]
    /\ wattempt = [w \in Workers |-> 0]
    /\ wok = [w \in Workers |-> FALSE]
    /\ calls = [t \in Tasks |-> 0]
    /\ orphan = {}
    /\ usurped = {}
    /\ overlapped = FALSE
    /\ faults = 0

-----------------------------------------------------------------------------
(* Loading and the calls the plugin makes *)

\* a load that has passed the check of `stopped' may end while Stop waits for
\* it; a plugin that is in the map is overwritten
Load ==
    /\ mgr \in {"up", "draining"}
    /\ load < MaxLoads
    /\ load' = load + 1
    /\ svc' = [l \in Loads |-> IF l = load + 1 THEN "live"
                                ELSE IF svc[l] = "live" THEN "lost" ELSE svc[l]]
    /\ overlapped' = (overlapped \/ Opened # {})
    /\ UNCHANGED <<rows, mgr, conc, signal, notify, worker, calls, orphan, usurped, faults>>

\* applyConfigDefaults and clampConcurrency; 0 when the budget is exhausted
Allocated(l) == SumFunction(conc[l])
Available(l) == MaxConcurrency - Allocated(l)
Granted(l, want) ==
    LET asked == IF want <= 0 THEN 1 ELSE want
    IN  IF Available(l) <= 0 THEN 0 ELSE IF asked > Available(l) THEN Available(l) ELSE asked

\* UPDATE tasks SET status = pending ... WHERE status = running, on the rows
\* of `which', when the services of `opened' can still write; the attempts stay
MutResetRunning(which, opened) ==    \* mutant: no reset
    UNCHANGED <<status, usurped>> /\ orphan' = orphan \ which
ResetRunning(which, opened) ==
    /\ status' = [t \in Tasks |->
                    IF t \in which /\ status[t] = "running" THEN "pending" ELSE status[t]]
    /\ orphan' = orphan \ which
    /\ usurped' = usurped \cup
                    {t \in which : \E w \in Workers : Holds(w, t) /\ wload[w] \in opened}

CreateQueue(l, q, want) ==
    /\ l \in Opened
    /\ conc[l][q] = 0
    /\ ResetRunning({t \in Tasks : QueueOf[t] = q}, Opened)
    /\ Granted(l, want) \in Nat \ {0}
    /\ conc' = [conc EXCEPT ![l][q] = Granted(l, want)]
    /\ \E new \in SUBSET {w \in Workers : pc[w] = "off"} :
         /\ Cardinality(new) = Granted(l, want)
         /\ pc' = [w \in Workers |-> IF w \in new THEN "drain" ELSE pc[w]]
         /\ wload' = [w \in Workers |-> IF w \in new THEN l ELSE wload[w]]
         /\ wqueue' = [w \in Workers |-> IF w \in new THEN q ELSE wqueue[w]]
    /\ UNCHANGED <<attempt, due, mgr, load, svc, signal, notify,
                   wtask, wattempt, wok, calls, overlapped, faults>>

\* the service l can write, and has the queue q
Serves(l, q) == l \in Opened /\ conc[l][q] > 0

Enqueue(l, t) ==
    /\ Serves(l, QueueOf[t])
    /\ status[t] = "absent"
    /\ status' = [status EXCEPT ![t] = "pending"]
    /\ due' = [due EXCEPT ![t] = TRUE]
    /\ notify' = IF Running(l) THEN notify \cup {<<l, t>>} ELSE notify
    /\ UNCHANGED <<attempt, mgr, load, svc, conc, signal, worker, history>>

\* mutant: also cancels a running task
MutCancel(t) ==
    /\ Opened # {}
    /\ status[t] \in {"pending", "running"}
    /\ status' = [status EXCEPT ![t] = "cancelled"]
    /\ UNCHANGED <<attempt, due, service, worker, history>>
Cancel(t) ==
    /\ Opened # {}
    /\ status[t] = "pending"
    /\ status' = [status EXCEPT ![t] = "cancelled"]
    /\ UNCHANGED <<attempt, due, service, worker, history>>

ClearQueue(q) ==
    /\ \E l \in Loads : Serves(l, q)
    /\ \E t \in Tasks : QueueOf[t] = q /\ status[t] = "pending"
    /\ status' = [t \in Tasks |->
                    IF QueueOf[t] = q /\ status[t] = "pending" THEN "cancelled" ELSE status[t]]
    /\ UNCHANGED <<attempt, due, service, worker, history>>

-----------------------------------------------------------------------------
(* Time, notifications and the cleanup loop *)

BecomeDue(t) ==
    /\ status[t] = "pending"
    /\ ~due[t]
    /\ due' = [due EXCEPT ![t] = TRUE]
    /\ UNCHANGED <<status, attempt, service, worker, history>>

\* the last step of Enqueue, or the timer of a retry, which fires no earlier
\* than the row is due
NotifyWorkers(l, t) ==
    /\ <<l, t>> \in notify
    /\ status[t] = "pending" => due[t]
    /\ notify' = notify \ {<<l, t>>}
    /\ signal' = signal \cup {<<l, QueueOf[t]>>}
    /\ UNCHANGED <<rows, mgr, load, svc, conc, worker, history>>

\* mutant: deletes by age only
MutRunCleanup(t) ==
    /\ \E l \in Loads : Running(l)
    /\ status[t] # "absent"
    /\ status' = [status EXCEPT ![t] = "removed"]
    /\ UNCHANGED <<attempt, due, service, worker, history>>
RunCleanup(t) ==
    /\ \E l \in Loads : Running(l) /\ Serves(l, QueueOf[t])
    /\ status[t] \in Terminal
    /\ status' = [status EXCEPT ![t] = "removed"]
    /\ UNCHANGED <<attempt, due, service, worker, history>>

-----------------------------------------------------------------------------
(* The workers *)

Goto(w, l) == pc' = [pc EXCEPT ![w] = l]

\* processTask returns, and its locals are gone
Return(w, l) ==
    /\ Goto(w, l)
    /\ wattempt' = [wattempt EXCEPT ![w] = 0]
    /\ wok' = [wok EXCEPT ![w] = FALSE]

WakeBySignal(w) ==
    /\ pc[w] = "poll" /\ Alive(w)
    /\ <<wload[w], wqueue[w]>> \in signal
    /\ signal' = signal \ {<<wload[w], wqueue[w]>>}
    /\ Goto(w, "drain")
    /\ UNCHANGED <<rows, mgr, load, svc, conc, notify, wload, wqueue, wtask, wattempt, wok, history>>

MutWakeByTicker(w) == FALSE    \* mutant: workers wait for signals only
WakeByTicker(w) ==
    /\ pc[w] = "poll" /\ Alive(w)
    /\ Goto(w, "drain")
    /\ UNCHANGED <<rows, service, wload, wqueue, wtask, wattempt, wok, history>>

\* a cancelled context ends drainQueue and the select loop
Exit(w) ==
    /\ pc[w] \in {"poll", "drain"} /\ ~Alive(w)
    /\ Goto(w, "off")
    /\ wload' = [wload EXCEPT ![w] = 0]
    /\ UNCHANGED <<rows, service, wqueue, wtask, wattempt, wok, history>>

MutReady(q) == {t \in Tasks : QueueOf[t] = q /\ status[t] \in {"pending", "running"}}    \* mutant
Ready(q) == {t \in Tasks : QueueOf[t] = q /\ status[t] = "pending" /\ due[t]}

Dequeue(w) ==
    /\ pc[w] = "drain" /\ Alive(w)
    /\ \E t \in Ready(wqueue[w]) :
         /\ status' = [status EXCEPT ![t] = "running"]
         /\ attempt' = [attempt EXCEPT ![t] = @ + 1]
         /\ wtask' = [wtask EXCEPT ![w] = t]
         /\ wattempt' = [wattempt EXCEPT ![w] = attempt[t] + 1]
    /\ Goto(w, IF wqueue[w] \in Delayed THEN "wait" ELSE "lookup")
    /\ UNCHANGED <<due, service, wload, wqueue, wok, history>>

DequeueNone(w) ==
    /\ pc[w] = "drain" /\ Alive(w)
    /\ \/ Ready(wqueue[w]) = {} /\ UNCHANGED faults
       \/ faults < MaxFaults /\ faults' = faults + 1
    /\ Goto(w, "poll")
    /\ UNCHANGED <<rows, service, wload, wqueue, wtask, wattempt, wok,
                   calls, orphan, usurped, overlapped>>

RateWait(w) ==
    /\ pc[w] = "wait" /\ Alive(w)
    /\ Goto(w, "lookup")
    /\ UNCHANGED <<rows, service, wload, wqueue, wtask, wattempt, wok, history>>

\* revertTaskToPending: refunds the attempt, unless the handle is closed
RevertTaskToPending(w) ==
    LET t == wtask[w] IN
    /\ \/ /\ DbOpen(w) /\ status[t] = "running"
          /\ status' = [status EXCEPT ![t] = "pending"]
          /\ attempt' = [attempt EXCEPT ![t] = IF @ > 0 THEN @ - 1 ELSE 0]
          /\ UNCHANGED <<orphan, faults>>
       \/ /\ ~(DbOpen(w) /\ status[t] = "running")
          /\ UNCHANGED <<status, attempt, orphan, faults>>
       \/ /\ DbOpen(w) /\ faults < MaxFaults
          /\ faults' = faults + 1
          /\ orphan' = orphan \cup {t}
          /\ UNCHANGED <<status, attempt>>
    /\ Return(w, "poll")
    /\ UNCHANGED <<due, service, wload, wqueue, wtask,
                   calls, usurped, overlapped>>

RateWaitCancelled(w) == pc[w] = "wait" /\ ~Alive(w) /\ RevertTaskToPending(w)

\* defaultInvokeCallback: the lookup needs the manager's lock, and finds what is
\* in the map, be it of another load; a plugin that is not there and a cancelled
\* context are errors without a call
Found(w) == Alive(w) /\ \E l \in Loads : svc[l] = "live"
Lookup(w) ==
    /\ pc[w] = "lookup" /\ mgr # "locked"
    /\ IF Found(w)
       THEN /\ Goto(w, "call")
            /\ calls' = [calls EXCEPT ![wtask[w]] = @ + 1]
            /\ UNCHANGED wok
       ELSE /\ Goto(w, "back")
            /\ wok' = [wok EXCEPT ![w] = FALSE]
            /\ UNCHANGED calls
    /\ UNCHANGED <<rows, service, wload, wqueue, wtask, wattempt,
                   orphan, usurped, overlapped, faults>>

CallReturns(w) ==
    /\ pc[w] = "call"
    /\ \E ok \in BOOLEAN : wok' = [wok EXCEPT ![w] = ok]
    /\ Goto(w, "back")
    /\ UNCHANGED <<rows, service, wload, wqueue, wtask, wattempt,
                   calls, orphan, usurped, overlapped, faults>>

AfterCall(w) ==
    /\ pc[w] = "back" /\ Alive(w)
    /\ Goto(w, "save")
    /\ UNCHANGED <<rows, service, wload, wqueue, wtask, wattempt, wok, history>>

AfterCallCancelled(w) == pc[w] = "back" /\ ~Alive(w) /\ RevertTaskToPending(w)

\* the outcome of wtask[w]: completeTask and the two ends of handleTaskFailure
MutExhausted(w) == wattempt[w] > MaxRetries[QueueOf[wtask[w]]] + 1    \* mutant: off by one
Exhausted(w) == wattempt[w] > MaxRetries[QueueOf[wtask[w]]]
\* mutant: a status of its own for tasks that will be tried again
MutOutcome(w) == IF wok[w] THEN "completed" ELSE IF Exhausted(w) THEN "failed" ELSE "retry"
Outcome(w)   == IF wok[w] THEN "completed" ELSE IF Exhausted(w) THEN "failed" ELSE "pending"

\* the timer of a retry to come
Retried(w) == IF Outcome(w) = "pending" /\ Alive(w)
              THEN notify \cup {<<wload[w], wtask[w]>>} ELSE notify

\* the UPDATEs name the id only, and find no row if it has been deleted
SaveOutcome(w) ==
    /\ pc[w] = "save" /\ Alive(w)
    /\ IF status[wtask[w]] = "removed"
       THEN UNCHANGED <<status, due>>
       ELSE /\ status' = [status EXCEPT ![wtask[w]] = Outcome(w)]
            /\ due' = [due EXCEPT ![wtask[w]] = Outcome(w) # "pending"]
    /\ notify' = Retried(w)
    /\ Return(w, "drain")
    /\ UNCHANGED <<attempt, mgr, load, svc, conc, signal, wload, wqueue, wtask, history>>

\* the UPDATE fails: the context was cancelled meanwhile, or the database
\* returned an error; it is logged, and the row stays running
SaveFails(w) ==
    /\ pc[w] = "save"
    /\ \/ ~Alive(w) /\ UNCHANGED faults
       \/ Alive(w) /\ faults < MaxFaults /\ faults' = faults + 1
    /\ orphan' = IF DbOpen(w) THEN orphan \cup {wtask[w]} ELSE orphan
    /\ notify' = Retried(w)
    /\ Return(w, "drain")
    /\ UNCHANGED <<rows, mgr, load, svc, conc, signal, wload, wqueue, wtask, calls, usurped, overlapped>>

-----------------------------------------------------------------------------
(* The end of a load *)

\* unloadPlugin: it needs the lock for the map only
Unlist(l) ==
    /\ "unload" \in Endings /\ mgr # "locked"
    /\ svc[l] = "live"
    /\ svc' = [svc EXCEPT ![l] = "unlisted"]
    /\ UNCHANGED <<rows, mgr, load, conc, signal, notify, worker, history>>

\* nobody is left to hear the signals of a cancelled service
CloseBegin(l) ==
    /\ svc[l] = "unlisted"
    /\ svc' = [svc EXCEPT ![l] = "closing"]
    /\ signal' = {s \in signal : s[1] # l}
    /\ notify' = {n \in notify : n[1] # l}
    /\ UNCHANGED <<rows, mgr, load, conc, worker, history>>

StopCancel ==
    /\ "stop" \in Endings /\ mgr = "up"
    /\ mgr' = "draining"
    /\ signal' = {} /\ notify' = {}
    /\ UNCHANGED <<rows, load, svc, conc, worker, history>>

StopMoves(from, to) ==
    /\ mgr = from /\ mgr' = to
    /\ UNCHANGED <<rows, load, svc, conc, signal, notify, worker, history>>

StopLock == StopMoves("draining", "locked")
StopEnd  == (\A l \in Loads : svc[l] # "live") /\ StopMoves("locked", "stopped")

\* nobody is left to use a closed service
CloseService(l) ==
    /\ ResetRunning(Tasks, Opened \ {l})
    /\ svc' = [svc EXCEPT ![l] = "closed"]
    /\ conc' = [conc EXCEPT ![l] = NoQueue]
    /\ UNCHANGED <<attempt, due, mgr, load, signal, notify, worker, calls, overlapped, faults>>

\* Close of an unloaded plugin, or of the one that Stop has found in the map
Closes(l) == svc[l] = "closing" \/ (mgr = "locked" /\ svc[l] = "live")

\* Close after its wait, which ends when the workers have exited or after
\* shutdownTimeout, with stragglers left behind
\* mutant: waits for the workers without a timeout
MutCloseEnd(l) ==
    Closes(l) /\ (\A w \in Workers : wload[w] = l => pc[w] = "off") /\ CloseService(l)
CloseEnd(l) == Closes(l) /\ CloseService(l)

\* the process ends, after Manager.Stop or by a crash; another one begins
ProcessEnds ==
    /\ mgr = "stopped" \/ ("crash" \in Endings /\ Opened # {})
    /\ mgr' = "up"
    /\ svc' = [l \in Loads |-> IF svc[l] = "none" THEN "none" ELSE "closed"]
    /\ conc' = [l \in Loads |-> NoQueue]
    /\ signal' = {} /\ notify' = {}
    /\ pc' = [w \in Workers |-> "off"]
    /\ wload' = [w \in Workers |-> 0]
    /\ wattempt' = [w \in Workers |-> 0]
    /\ wok' = [w \in Workers |-> FALSE]
    /\ UNCHANGED <<rows, load, wqueue, wtask, history>>

-----------------------------------------------------------------------------
WorkerStep(w) ==
    \/ WakeBySignal(w) \/ WakeByTicker(w) \/ Exit(w)
    \/ Dequeue(w) \/ DequeueNone(w)
    \/ RateWait(w) \/ RateWaitCancelled(w)
    \/ Lookup(w) \/ CallReturns(w) \/ AfterCall(w) \/ AfterCallCancelled(w)
    \/ SaveOutcome(w) \/ SaveFails(w)

PluginStep ==
    \/ \E q \in Queues : ClearQueue(q) \/ \E l \in Loads, want \in Requests : CreateQueue(l, q, want)
    \/ \E t \in Tasks : Cancel(t) \/ \E l \in Loads : Enqueue(l, t)

TimeStep == \E t \in Tasks : BecomeDue(t) \/ RunCleanup(t) \/ \E l \in Loads : NotifyWorkers(l, t)

EndStep ==
    \/ \E l \in Loads : Unlist(l) \/ CloseBegin(l) \/ CloseEnd(l)
    \/ StopCancel \/ StopLock \/ StopEnd \/ ProcessEnds

Next == Load \/ PluginStep \/ TimeStep \/ EndStep \/ \E w \in Workers : WorkerStep(w)

Spec == Init /\ [][Next]_vars

\* Every goroutine is scheduled; a callback returns, since the plugin's calls
\* are limited in time and end with their context; clocks and the waits of Close
\* pass.  Nothing is assumed of the plugin's own calls, of the manager's, of the
\* database, or of the signals to the workers: no step of theirs is required.
Fairness ==
    /\ \A w \in Workers : WF_vars(\/ WorkerStep(w) /\ pc[w] # "save"
                                  \/ SaveOutcome(w)
                                  \/ SaveFails(w) /\ ~Alive(w))
    /\ \A t \in Tasks : WF_vars(BecomeDue(t))
    /\ \A l \in 1 .. MaxLoads : WF_vars(CloseBegin(l) \/ CloseEnd(l))
    /\ WF_vars(StopLock \/ StopEnd)

FairSpec == Spec /\ Fairness

-----------------------------------------------------------------------------
(* Properties *)

\* The variables have their types.
TypeOK ==
    /\ status \in [Tasks -> Statuses]
    /\ attempt \in [Tasks -> Nat]
    /\ due \in [Tasks -> BOOLEAN]
    /\ mgr \in Managers
    /\ load \in Loads
    /\ svc \in [Loads -> Phases]
    /\ conc \in [Loads -> [Queues -> Nat]]
    /\ signal \subseteq Loads \X Queues
    /\ notify \subseteq Loads \X Tasks
    /\ pc \in [Workers -> Pcs]
    /\ wload \in [Workers -> Loads]
    /\ wqueue \in [Workers -> Queues]
    /\ wtask \in [Workers -> Tasks]
    /\ wattempt \in [Workers -> Nat]
    /\ wok \in [Workers -> BOOLEAN]
    /\ calls \in [Tasks -> Nat]
    /\ orphan \subseteq Tasks
    /\ usurped \subseteq Tasks
    /\ overlapped \in BOOLEAN
    /\ faults \in Nat

\* The copy a worker took of its task is never stale while it can write: the
\* row is still running, in its queue, at the attempt it read.  completeTask
\* and handleTaskFailure rely on it: their UPDATEs only name the id.  The case
\* excepted is that another service of the plugin has reset the row meanwhile.
HeldIsRunning ==
    \A w \in Workers, t \in Tasks : Holds(w, t) /\ DbOpen(w) =>
        /\ QueueOf[t] = wqueue[w] /\ conc[wload[w]][wqueue[w]] > 0
        /\ t \in usurped \/ (status[t] = "running" /\ attempt[t] = wattempt[w])

\* Two workers inside the callback of one task: one of them was left behind by a
\* Close that timed out, and can no longer write the row, or another service has
\* reset the row under the hands of one; that takes a load beside an open service.
SingleExecutor ==
    /\ \A v, w \in Workers : v # w /\ pc[v] = "call" /\ pc[w] = "call" /\ wtask[v] = wtask[w]
         => ~DbOpen(v) \/ ~DbOpen(w) \/ wtask[v] \in usurped
    /\ usurped # {} => overlapped

\* No task is lost, also where services overlap: a running row of a queue that an
\* open service has created is in the hands of a worker that can write it, or its
\* last write failed.
RunningIsOwned ==
    \A t \in Tasks : status[t] = "running" /\ (\E l \in Loads : Serves(l, QueueOf[t]))
        => t \in orphan \/ \E w \in Workers : Holds(w, t) /\ DbOpen(w)

\* At-least-once delivery is bounded, also where services overlap: beyond the first
\* call and the retries, a task is called at most once more for each earlier load that
\* was cut short and for each database error, unless another service has reset its row
\* in the hands of a worker.
BoundedCalls ==
    \A t \in Tasks : t \in usurped \/ calls[t] <= MaxRetries[QueueOf[t]] + load + faults

\* A settled task stays settled until the cleanup loop deletes it, whatever
\* stragglers, resets and reloads do; a row that was reset under the hands of a
\* worker may be overwritten, but stays deleted.
TerminalSticky ==
    [][\A t \in Tasks :
         /\ status[t] \in Terminal /\ t \notin usurped => status'[t] \in {status[t], "removed"}
         /\ status[t] = "removed" => status'[t] = "removed"]_vars

\* The plugin is never called for a task it cancelled, nor again for one that
\* completed or failed, unless another service has reset its row.
SettledNeverCalled ==
    [][\A t \in Tasks \ usurped : status[t] \in Terminal => calls'[t] = calls[t]]_vars

\* what a plugin observes of the rows
lifeStage  == [t \in Tasks |-> IF status[t] \in {"pending", "running"} THEN "queued" ELSE status[t]]
lifeInHand == {t \in Tasks : status[t] = "running"}
Life == INSTANCE TaskLifecycle WITH
    Retries <- [t \in Tasks |-> MaxRetries[QueueOf[t]]],
    stage <- lifeStage, inHand <- lifeInHand, tries <- attempt, shared <- usurped

\* Every step of the service is a step of TaskLifecycle: no interleaving of
\* workers, reloads and crashes shows the plugin anything else.
ImplementsLifecycle == Life!LifeSpec

\* While the plugin stays loaded, a task of a created queue settles.
EventuallySettled ==
    \A t \in Tasks, l \in 1 .. MaxLoads :
        /\ mgr = "up" /\ svc[l] = "live" /\ conc[l][QueueOf[t]] > 0
        /\ status[t] \in {"pending", "running"}
        ~> mgr # "up" \/ svc[l] # "live" \/ status[t] \in Terminal \/ t \in orphan

\* A load being ended does end, also when Manager.Stop holds the lock its own
\* workers wait for.
CloseTerminates ==
    /\ \A l \in 1 .. MaxLoads : svc[l] \in {"unlisted", "closing"} ~> svc[l] = "closed"
    /\ mgr \in {"draining", "locked"} ~> mgr \notin {"draining", "locked"}

\* "MaxRetries is the number of times to retry a failed task", and a shutdown
\* "ensure[s] the interrupted attempt doesn't count": a task fails for good
\* only after the plugin was called for it MaxRetries + 1 times.
RetriesHonoured ==
    \A t \in Tasks : status[t] = "failed" => calls[t] > MaxRetries[QueueOf[t]]
=============================================================================
