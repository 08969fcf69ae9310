-------------------------- MODULE BufferedScrobbler --------------------------
(***************************************************************************)
(* The buffered submission of plays to one external service, offered by a  *)
(* plugin (core/scrobbler/buffered_scrobbler.go), and the register of the  *)
(* active scrobblers (core/scrobbler/play_tracker.go).                     *)
(*                                                                         *)
(* Each request that plays a track puts a row in the scrobble_buffer table *)
(* and wakes the loop of the registered scrobbler, which sends the rows of *)
(* each user in order.  A scrobbler that is created again has a new loop,  *)
(* while the old one may still be at work.  A play is its rank: the table  *)
(* is read in the order of play_time, which no two plays of a user share.  *)
(***************************************************************************)
EXTENDS Integers, FiniteSets, FiniteSetsExt

CONSTANTS
    Plays,        \* plays that requests submit, by play_time
    Users,
    UserOf,       \* the user of each play
    MaxChanges,   \* bound: times the plugin is unloaded or loaded
    MaxLoops,     \* bound: scrobblers created
    MaxFaults,    \* bound: database errors and crashes
    MaxRetries    \* bound: times the service asks to retry later

ASSUME ScrobblerAssumption ==
    /\ Plays \subseteq Nat \ {0}
    /\ Users # {} /\ UserOf \in [Plays -> Users]
    /\ MaxChanges \in Nat /\ MaxLoops \in Nat /\ MaxFaults \in Nat /\ MaxRetries \in Nat

VARIABLES
    buffer,                    \* rows of the table
    changes,                   \* times the plugin manager unloaded or loaded the plugin
    registered, created,       \* its scrobbler in pluginScrobblers (0: none), those created
    stopped, wake, timers,     \* per scrobbler: cancelled context, wakeSignal, AfterFuncs
    pc, users, cur, entry, ok, \* locals of run, processQueue and processUserQueue
    request, by,               \* where the request of a play is, with which scrobbler
    faults, retries,           \* errors and retries so far
    \* history: final answers of the service, rows put in since a loop read its entry,
    \* rows put in through a replaced scrobbler
    answers, late, stray

loop    == <<pc, users, cur, entry, ok>>
signals == <<stopped, wake, timers>>
tallies == <<faults, retries>>
history == <<answers, late, stray>>
vars    == <<buffer, changes, registered, created, signals, loop, request, by, tallies, history>>

Loops    == 1 .. MaxLoops
None     == 0
Busy     == {"next", "send", "dequeue"}
Pcs      == {"off", "users", "pick", "select"} \cup Busy
Requests == {"new", "copy", "enqueue", "signal", "done"}

Init ==
    /\ buffer = {}
    /\ changes = 0
    /\ registered = 0 /\ created = 0
    /\ stopped = {} /\ wake = {} /\ timers = [l \in Loops |-> 0]
    /\ pc = [l \in Loops |-> "off"]
    /\ users = [l \in Loops |-> {}]
    /\ cur = [l \in Loops |-> CHOOSE u \in Users : TRUE]
    /\ entry = [l \in Loops |-> None]
    /\ ok = [l \in Loops |-> TRUE]
    /\ request = [p \in Plays |-> "new"]
    /\ by = [p \in Plays |-> 0]
    /\ faults = 0 /\ retries = 0
    /\ answers = [p \in Plays |-> 0]
    /\ late = [l \in Loops |-> {}]
    /\ stray = {}

Fault == faults < MaxFaults /\ faults' = faults + 1 /\ UNCHANGED retries

-----------------------------------------------------------------------------
(* The plugin manager and the register *)

\* the manager has the plugin
present == changes % 2 = 0

\* the plugin is unloaded or loaded
Toggle ==
    /\ changes < MaxChanges /\ changes' = changes + 1
    /\ UNCHANGED <<buffer, registered, created, signals, loop, request, by, tallies, history>>

\* refreshPluginScrobblers
Refresh ==
    \/ /\ present /\ registered = 0 /\ created < MaxLoops
       /\ created' = created + 1
       /\ registered' = created'
       /\ pc' = [pc EXCEPT ![created'] = "users"]
       /\ UNCHANGED stopped
    \/ /\ ~present /\ registered # 0
       /\ stopped' = stopped \cup {registered}
       /\ registered' = 0
       /\ UNCHANGED <<created, pc>>
    \/ /\ present <=> registered # 0
       /\ UNCHANGED <<registered, created, stopped, pc>>

\* another request asks for the active scrobblers, as NowPlaying does
OtherRequest ==
    /\ Refresh
    /\ UNCHANGED <<buffer, changes, wake, timers, users, cur, entry, ok, request, by, tallies,
                   answers, late, stray>>

-----------------------------------------------------------------------------
(* The request that submits a play *)

At(p, from, to) == request[p] = from /\ request' = [request EXCEPT ![p] = to]

\* getActiveScrobblers refreshes the register and then copies it
Submit(p) ==
    /\ At(p, "new", "copy")
    /\ Refresh
    /\ UNCHANGED <<buffer, changes, wake, timers, users, cur, entry, ok, by, tallies, answers, late,
                   stray>>

\* the scrobbler may be missing, or the user not authorized by the plugin
Copy(p) ==
    /\ \/ /\ registered # 0 /\ present
          /\ At(p, "copy", "enqueue")
          /\ by' = [by EXCEPT ![p] = registered]
       \/ At(p, "copy", "done") /\ UNCHANGED by
    /\ UNCHANGED <<buffer, changes, registered, created, signals, loop, tallies, history>>

Enqueue(p) ==
    /\ At(p, "enqueue", "signal")
    /\ buffer' = buffer \cup {p}
    /\ late' = [l \in Loops |-> IF entry[l] = None THEN {} ELSE late[l] \cup {p}]
    /\ stray' = IF registered \in {0, by[p]} THEN stray ELSE stray \cup {p}
    /\ UNCHANGED <<changes, registered, created, signals, loop, by, tallies, answers>>

EnqueueFails(p) ==
    /\ At(p, "enqueue", "done") /\ Fault
    /\ by' = [by EXCEPT ![p] = 0]
    /\ UNCHANGED <<buffer, changes, registered, created, signals, loop, history>>

Woken(p) == {l \in {by[p]} : pc[l] # "off"}

Signal(p) ==
    /\ At(p, "signal", "done")
    /\ wake' = wake \cup Woken(p)
    /\ by' = [by EXCEPT ![p] = 0]
    /\ UNCHANGED <<buffer, changes, registered, created, stopped, timers, loop, tallies, history>>

-----------------------------------------------------------------------------
(* The loop of a scrobbler *)

Goto(l, to) == pc' = [pc EXCEPT ![l] = to]

\* a database call fails: its context is cancelled, or the database errs
DbFails(l) == \/ l \in stopped /\ UNCHANGED tallies
              \/ l \notin stopped /\ Fault

\* the entry goes out of scope
Forget(l) ==
    /\ entry' = [entry EXCEPT ![l] = None]
    /\ late' = [late EXCEPT ![l] = {}]

\* the user's queue, or the list of users, is given up until the next pass
GiveUp(l) ==
    /\ ok' = [ok EXCEPT ![l] = FALSE]
    /\ Goto(l, "pick")
    /\ Forget(l)
    /\ UNCHANGED <<changes, registered, created, signals, cur, request, by, answers, stray>>

ReadUsers(l) ==
    /\ pc[l] = "users" /\ l \notin stopped
    /\ users' = [users EXCEPT ![l] = {UserOf[p] : p \in buffer}]
    /\ Goto(l, "pick")
    /\ UNCHANGED <<buffer, changes, registered, created, signals, cur, entry, ok, request, by,
                   tallies, history>>

ReadUsersFails(l) ==
    /\ pc[l] = "users" /\ DbFails(l)
    /\ users' = [users EXCEPT ![l] = {}]
    /\ GiveUp(l)
    /\ UNCHANGED buffer

PickUser(l) ==
    /\ pc[l] = "pick"
    /\ \E u \in users[l] : cur' = [cur EXCEPT ![l] = u] /\ users' = [users EXCEPT ![l] = @ \ {u}]
    /\ Goto(l, "next")
    /\ UNCHANGED <<buffer, changes, registered, created, signals, entry, ok, request, by, tallies,
                   history>>

\* a pass that did not empty every queue sets a timer
MutAgain(l) == UNCHANGED timers    \* mutant: what could not be sent is forgotten
Again(l) == timers' = [timers EXCEPT ![l] = IF ok[l] THEN @ ELSE @ + 1]

EndPass(l) ==
    /\ pc[l] = "pick" /\ users[l] = {}
    /\ Again(l)
    /\ ok' = [ok EXCEPT ![l] = TRUE]
    /\ Goto(l, "select")
    /\ UNCHANGED <<buffer, changes, registered, created, stopped, wake, users, cur, entry, request,
                   by, tallies, history>>

Queue(u) == {p \in buffer : UserOf[p] = u}

MutFirst(u) == Max(Queue(u))    \* mutant: the last play first
First(u) == Min(Queue(u))

Next_(l) ==
    /\ pc[l] = "next" /\ l \notin stopped
    /\ IF Queue(cur[l]) = {}
       THEN Goto(l, "pick") /\ UNCHANGED entry
       ELSE /\ Goto(l, "send")
            /\ entry' = [entry EXCEPT ![l] = First(cur[l])]
    /\ UNCHANGED <<buffer, changes, registered, created, signals, users, cur, ok, request, by,
                   tallies, history>>

NextFails(l) ==
    /\ pc[l] = "next" /\ DbFails(l)
    /\ GiveUp(l)
    /\ UNCHANGED <<buffer, users>>

NotAvailable(l) ==
    /\ pc[l] = "send" /\ ~present
    /\ GiveUp(l)
    /\ UNCHANGED <<buffer, users, tallies>>

\* The plugin is there, and the service takes the play or the error is one that
\* discards it.
Answered(l) ==
    /\ pc[l] = "send" /\ present
    /\ answers' = [answers EXCEPT ![entry[l]] = @ + 1]
    /\ Goto(l, "dequeue")
    /\ UNCHANGED <<buffer, changes, registered, created, signals, users, cur, entry, ok, request,
                   by, tallies, late, stray>>

\* ErrRetryLater
MutKeep(l) == buffer \ {entry[l]}    \* mutant: a play to retry is dropped
Keep(l) == buffer
RetryLater(l) ==
    /\ pc[l] = "send" /\ present
    /\ retries < MaxRetries /\ retries' = retries + 1
    /\ buffer' = Keep(l)
    /\ GiveUp(l)
    /\ UNCHANGED <<users, faults>>

MutRemoved(l) == {}    \* mutant: an answered play stays in the table
Removed(l) == {entry[l]}

Dequeue(l) ==
    /\ pc[l] = "dequeue" /\ l \notin stopped
    /\ buffer' = buffer \ Removed(l)
    /\ stray' = stray \ Removed(l)
    /\ Goto(l, "next")
    /\ Forget(l)
    /\ UNCHANGED <<changes, registered, created, signals, users, cur, ok, request, by, tallies,
                   answers>>

DequeueFails(l) ==
    /\ pc[l] = "dequeue" /\ DbFails(l)
    /\ GiveUp(l)
    /\ UNCHANGED <<buffer, users>>

\* the select at the end of run
Wake(l) ==
    /\ pc[l] = "select" /\ l \in wake
    /\ wake' = wake \ {l}
    /\ Goto(l, "users")
    /\ UNCHANGED <<buffer, changes, registered, created, stopped, timers, users, cur, entry, ok,
                   request, by, tallies, history>>

\* signals and timers that are left wake nobody
Exit(l) ==
    /\ pc[l] = "select" /\ l \in stopped
    /\ Goto(l, "off")
    /\ wake' = wake \ {l} /\ timers' = [timers EXCEPT ![l] = 0]
    /\ UNCHANGED <<buffer, changes, registered, created, stopped, users, cur, entry, ok, request,
                   by, tallies, history>>

MutSet(l) == TRUE    \* mutant: timers that nobody set fire
Set(l) == timers[l] > 0

TimerFires(l) ==
    /\ Set(l)
    /\ timers' = [timers EXCEPT ![l] = @ - 1]
    /\ wake' = wake \cup {l}
    /\ UNCHANGED <<buffer, changes, registered, created, stopped, loop, request, by, tallies,
                   history>>

-----------------------------------------------------------------------------
\* The process ends, and the requests in flight with it.  The contexts that were
\* cancelled are gone too; stopped keeps them for the count.
Crash ==
    /\ Fault
    /\ registered' = 0
    /\ wake' = {} /\ timers' = [l \in Loops |-> 0]
    /\ pc' = [l \in Loops |-> "off"]
    /\ users' = [l \in Loops |-> {}] /\ ok' = [l \in Loops |-> TRUE]
    /\ entry' = [l \in Loops |-> None] /\ late' = [l \in Loops |-> {}]
    /\ request' = [p \in Plays |-> IF request[p] = "new" THEN "new" ELSE "done"]
    /\ by' = [p \in Plays |-> 0]
    /\ UNCHANGED <<buffer, changes, created, stopped, cur, answers, stray>>

Step(l) ==
    \/ ReadUsers(l) \/ ReadUsersFails(l) \/ PickUser(l) \/ EndPass(l)
    \/ Next_(l) \/ NextFails(l) \/ NotAvailable(l)
    \/ Dequeue(l) \/ DequeueFails(l)

Next ==
    \/ Toggle \/ OtherRequest \/ Crash
    \/ \E p \in Plays : Submit(p) \/ Copy(p) \/ Enqueue(p) \/ EnqueueFails(p) \/ Signal(p)
    \/ \E l \in Loops : \/ Step(l) \/ Answered(l) \/ RetryLater(l)
                        \/ Wake(l) \/ Exit(l) \/ TimerFires(l)

Spec == Init /\ [][Next]_vars

\* Goroutines and timers run, and a request goes on once its row is in the
\* table; a service takes its time but returns.
Fairness ==
    /\ \A p \in Plays : WF_vars(Signal(p))
    /\ \A l \in Loops : /\ WF_vars(Step(l) \/ Answered(l) \/ RetryLater(l) \/ Wake(l))
                        /\ WF_vars(TimerFires(l))

FairSpec == Spec /\ Fairness

-----------------------------------------------------------------------------
(* Properties *)

\* The variables have their types.
TypeOK ==
    /\ buffer \subseteq Plays
    /\ changes \in 0 .. MaxChanges
    /\ registered \in 0 .. MaxLoops /\ created \in 0 .. MaxLoops
    /\ stopped \subseteq Loops /\ wake \subseteq Loops /\ timers \in [Loops -> Nat]
    /\ pc \in [Loops -> Pcs]
    /\ users \in [Loops -> SUBSET Users]
    /\ cur \in [Loops -> Users] /\ ok \in [Loops -> BOOLEAN]
    /\ entry \in [Loops -> Plays \cup {None}]
    /\ request \in [Plays -> Requests] /\ by \in [Plays -> 0 .. MaxLoops]
    /\ faults \in 0 .. MaxFaults /\ retries \in 0 .. MaxRetries
    /\ answers \in [Plays -> Nat]
    /\ late \in [Loops -> SUBSET Plays] /\ stray \subseteq Plays

\* A play leaves the table only once the service has answered it for good, whatever
\* loops, retries and crashes have meanwhile done to it.  The first final answer to a
\* play comes after those to all earlier plays of its user, but for plays put in since
\* the loop read it: a retry of one play, or another loop, does not let later ones
\* overtake it.
NoneDropped == \A p \in buffer \ buffer' : answers[p] > 0
InOrder ==
    \A l \in Loops : pc[l] = "send" /\ pc'[l] = "dequeue" /\ answers[entry[l]] = 0
        => \A p \in Queue(UserOf[entry[l]]) : p < entry[l] => answers[p] > 0 \/ p \in late[l]
AnsweredInOrder == [][NoneDropped /\ InOrder]_vars

\* At least once means once, but for database errors, crashes and scrobblers
\* that were stopped.
RarelyTwice == \A p \in Plays : answers[p] <= 1 + faults + Cardinality(stopped)

\* A play in the table is answered in the end while its plugin stays.
EventuallyAnswered ==
    \A p \in Plays : p \in buffer ~> p \notin buffer \/ p \in stray \/ registered = 0 \/ ~present
=============================================================================
