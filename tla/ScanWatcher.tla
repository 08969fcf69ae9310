----------------------------- MODULE ScanWatcher -----------------------------
(***************************************************************************)
(* The loop that turns changes of the file system into scans               *)
(* (scanner/watcher.go, Run) and the lock it shares with the scans others  *)
(* ask for (scanner/controller.go).                                        *)
(*                                                                         *)
(* A change of a folder is an event until the loop receives it.  A scan    *)
(* visits the folders it was asked for and reads them as they are; it may  *)
(* pass over one it cannot read or import, and it may end on an error with *)
(* folders it has not visited, which the loop only logs: it forgot them    *)
(* when it made the request.  What a scan does with a folder is            *)
(* LibraryScan's subject.  The queue of events is a set: their order and   *)
(* repetition only move the timer.                                         *)
(***************************************************************************)
EXTENDS FiniteSets, Naturals

CONSTANTS
    Folders,
    Others,           \* the sets of folders that other scans are asked for
    Selective,        \* DevSelectiveWatcher
    MaxChanges,       \* bound: changes of folders
    MaxOthers,        \* bound: scans others begin
    MaxFailures       \* bound: folders passed over, and scans that end on an error

\* what the constants satisfy
WatcherAssumption ==
    /\ Others \subseteq SUBSET Folders
    /\ Selective \in BOOLEAN
    /\ MaxChanges \in Nat /\ MaxOthers \in Nat /\ MaxFailures \in Nat

VARIABLES
    dirty,               \* folders that differ from what a scan last read
    events,              \* folders with an event on its way to the loop
    targets, timer,      \* locals of Run
    loop,                \* where Run is: in its select, or asking for the status
    asked,               \* scans launched by Run that have not asked for the lock
    running, todo,       \* the lock, and the folders its holder has still to visit
    own,                 \* whether the holder is a scan that Run launched
    changes, others, failures,
    \* history: changed folders of a request that was refused; those that a
    \* scan of Run left unread, and nothing was to ask for again; whether the
    \* status could not be read since the last event
    refused, missed, stuck

scan == <<running, todo, own>>
excuses == <<refused, missed, stuck>>
bounds == <<changes, others, failures>>
vars == <<dirty, events, targets, timer, loop, asked, scan, bounds, excuses>>

Init ==
    /\ dirty = {} /\ events = {} /\ targets = {}
    /\ timer = "stopped" /\ loop = "select"
    /\ asked = {}
    /\ running = FALSE /\ todo = {} /\ own = FALSE
    /\ changes = 0 /\ others = 0 /\ failures = 0
    /\ refused = {} /\ missed = {} /\ stuck = FALSE

-----------------------------------------------------------------------------
(* The file system, and the watchers of the libraries *)

Change(f) ==
    /\ changes < MaxChanges
    /\ changes' = changes + 1
    /\ dirty' = dirty \cup {f}
    /\ events' = events \cup {f}
    /\ refused' = refused \ {f} /\ missed' = missed \ {f}
    /\ UNCHANGED <<targets, timer, loop, asked, scan, others, failures, stuck>>

-----------------------------------------------------------------------------
(* The loop *)

Notified(f) ==
    /\ loop = "select" /\ f \in events
    /\ events' = events \ {f}
    /\ timer' = "armed"
    /\ targets' = targets \cup {f}
    /\ stuck' = FALSE
    /\ UNCHANGED <<dirty, loop, asked, scan, bounds, refused, missed>>

TimerEnds ==
    /\ loop = "select" /\ timer = "armed"
    /\ timer' = "stopped"
    /\ loop' = "status"
    /\ UNCHANGED <<dirty, events, targets, asked, scan, bounds, excuses>>

\* a request without targets is one for the whole library
Request == IF Selective THEN targets ELSE {}

Launch ==
    /\ loop = "status" /\ ~running
    /\ asked' = asked \cup {Request}
    /\ targets' = {}
    /\ loop' = "select"
    /\ UNCHANGED <<dirty, events, timer, scan, bounds, excuses>>

Retry == "armed"

MutKept == {}    \* mutant: the targets are cleared before the status is looked at
Kept == targets

AlreadyScanning ==
    /\ loop = "status" /\ running
    /\ timer' = Retry
    /\ targets' = Kept
    /\ loop' = "select"
    /\ UNCHANGED <<dirty, events, asked, scan, bounds, excuses>>

\* the break only leaves the select
StatusFails ==
    /\ loop = "status"
    /\ stuck' = TRUE
    /\ loop' = "select"
    /\ UNCHANGED <<dirty, events, targets, timer, asked, scan, bounds, refused, missed>>

-----------------------------------------------------------------------------
(* Scans *)

Wanted(request) == IF request = {} THEN Folders ELSE request

Begin(request) ==
    /\ request \in asked
    /\ asked' = asked \ {request}
    /\ \/ /\ ~running
          /\ running' = TRUE /\ own' = TRUE
          /\ todo' = Wanted(request)
          /\ UNCHANGED refused
       \/ /\ running
          /\ refused' = refused \cup (Wanted(request) \cap dirty)
          /\ UNCHANGED scan
    /\ UNCHANGED <<dirty, events, targets, timer, loop, bounds, missed, stuck>>

BeginOther(request) ==
    /\ ~running /\ others < MaxOthers
    /\ others' = others + 1
    /\ running' = TRUE
    /\ todo' = Wanted(request)
    /\ UNCHANGED <<dirty, events, targets, timer, loop, asked, own, changes, failures, excuses>>

Visit(f) ==
    /\ running /\ f \in todo
    /\ todo' = todo \ {f}
    /\ dirty' = dirty \ {f}
    /\ refused' = refused \ {f} /\ missed' = missed \ {f}
    /\ UNCHANGED <<events, targets, timer, loop, asked, running, own, bounds, stuck>>

\* the folders that somebody is still going to ask for
Pending == events \cup targets \cup UNION {Wanted(request) : request \in asked}

\* The holder of the lock leaves these folders as they are; the error, or the
\* warning, is logged by the loop and nobody asks again.
Leave(left) ==
    /\ failures < MaxFailures
    /\ failures' = failures + 1
    /\ missed' = IF own THEN missed \cup ((left \cap dirty) \ Pending) ELSE missed
    /\ UNCHANGED <<dirty, events, targets, timer, loop, asked, changes, others, refused, stuck>>

\* a folder that cannot be read or imported is passed over with a warning
PassOver(f) ==
    /\ running /\ f \in todo
    /\ todo' = todo \ {f}
    /\ UNCHANGED <<running, own>>
    /\ Leave({f})

\* the lock is released by a defer, however the scan ends
EndOnError ==
    /\ running /\ todo # {}
    /\ running' = FALSE /\ own' = FALSE /\ todo' = {}
    /\ Leave(todo)

MutFinished == TRUE    \* mutant: the lock is released while folders are visited
Finished == todo = {}

End ==
    /\ running /\ Finished
    /\ running' = FALSE /\ own' = FALSE
    /\ UNCHANGED <<dirty, events, targets, timer, loop, asked, todo, bounds, excuses>>

-----------------------------------------------------------------------------
Loop == (\E f \in Folders : Notified(f)) \/ TimerEnds \/ Launch \/ AlreadyScanning \/ StatusFails
Scan == (\E request \in asked : Begin(request)) \/ (\E f \in Folders : Visit(f)) \/ End

Next ==
    \/ Loop \/ Scan \/ EndOnError
    \/ \E f \in Folders : PassOver(f)
    \/ \E f \in Folders : Change(f)
    \/ \E request \in Others : BeginOther(request)

Spec == Init /\ [][Next]_vars

\* Run and the goroutines it launches are scheduled, its timer ends, and every
\* scan that has begun comes to its end, with or without an error.
Fairness ==
    /\ \A f \in Folders : WF_vars(Notified(f))
    /\ WF_vars(TimerEnds) /\ WF_vars(Launch \/ AlreadyScanning \/ StatusFails)
    /\ WF_vars(Scan)

-----------------------------------------------------------------------------
(* Properties *)

\* The variables have their types.
TypeOK ==
    /\ dirty \subseteq Folders /\ events \subseteq Folders /\ targets \subseteq Folders
    /\ timer \in {"stopped", "armed"} /\ loop \in {"select", "status"}
    /\ asked \subseteq SUBSET Folders
    /\ running \in BOOLEAN /\ todo \subseteq Folders /\ (todo # {} => running)
    /\ own \in BOOLEAN /\ (own => running)
    /\ changes \in 0..MaxChanges /\ others \in 0..MaxOthers /\ failures \in 0..MaxFailures
    /\ refused \subseteq Folders /\ missed \subseteq Folders /\ stuck \in BOOLEAN

\* Every change is scanned in the end, unless its request met another scan, the
\* scan that Run launched for it failed or passed it over after the last event,
\* or the status could not be read.
EventuallyScanned ==
    \A f \in Folders : f \in dirty ~> f \notin dirty \/ f \in refused \cup missed \/ stuck
=============================================================================
