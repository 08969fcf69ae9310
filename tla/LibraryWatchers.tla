--------------------------- MODULE LibraryWatchers ---------------------------
(***************************************************************************)
(* The watchers of the libraries: Run, Watch and StopWatching of           *)
(* scanner/watcher.go, called for the requests of administrators that      *)
(* create, move and delete libraries (core/library.go).                    *)
(*                                                                         *)
(* The k-th call of Watch that starts a watcher starts watcher k: a        *)
(* goroutine, its context and its entry in libraryWatchers.                *)
(*                                                                         *)
(* An update reads the row of its library, compares the paths, writes the  *)
(* whole row and tells the watchers only if the paths it compared differ:  *)
(* one that leaves the path alone writes back the path its client has.     *)
(* So do the service as it starts and every scan: they write back the rows *)
(* they have read whose type they detect, and tell nobody.  The default    *)
(* library, which keeps its path, is not among the Libraries.              *)
(***************************************************************************)
EXTENDS Naturals, FiniteSets

CONSTANTS
    Libraries,
    Admins,         \* administrators, one request at a time each
    Detectors,      \* who write back rows: the service, a scan
    MaxPath,        \* bound: paths
    MaxWatchers     \* bound: watchers started

\* what the constants satisfy
WatchersAssumption ==
    /\ MaxPath \in Nat \ {0} /\ MaxWatchers \in Nat

VARIABLES
    path,              \* the libraries in the database (Absent: none)
    request,           \* what an administrator's request has still to write or tell
    copies,            \* rows a detector has read and will write back
    mainCtx, run,      \* Run's context, and where Run is
    listed,            \* libraries Run has read and not yet called Watch for
    started,           \* number of watchers started
    lib, dir,          \* what a watcher watches
    cancelled, ended,  \* watchers by context and by goroutine
    libraryWatchers,   \* library |-> its watcher (None)
    raced              \* history: libraries whose path was last changed while another
                       \* request, or Run, had still to tell it, by a row that was read
                       \* before an earlier change, or by a request that then failed

vars == <<path, request, copies, mainCtx, run, listed, started, lib, dir, cancelled, ended,
          libraryWatchers, raced>>

Absent   == 0
None     == 0
Paths    == 1 .. MaxPath
Watchers == 1 .. MaxWatchers
Entries  == Libraries \X Paths
Request(op, l, p, was) == [op |-> op, lib |-> l, path |-> p, was |-> was]
Idle     == Request("idle", None, Absent, Absent)
Requests == {Idle} \cup {Request("put", l, p, was) : l \in Libraries, p \in Paths, was \in Paths}
                   \cup {Request("watch", l, p, Absent) : l \in Libraries, p \in Paths}
                   \cup {Request(op, l, Absent, Absent) : op \in {"delete", "stop"}, l \in Libraries}

\* the paths of libraries are unique
Unique(paths) ==
    \A l, k \in Libraries : l # k /\ paths[l] = paths[k] => paths[l] = Absent
Rows == {<<l, path[l]>> : l \in {l \in Libraries : path[l] # Absent}}

Init ==
    /\ path \in [Libraries -> Paths \cup {Absent}] /\ Unique(path)
    /\ request = [a \in Admins |-> Idle]
    /\ copies = [d \in Detectors |-> {}]
    /\ mainCtx = "nil" /\ run = "start" /\ listed = {}
    /\ started = 0
    /\ lib = [w \in Watchers |-> None] /\ dir = [w \in Watchers |-> Absent]
    /\ cancelled = {} /\ ended = {}
    /\ libraryWatchers = [l \in Libraries |-> None]
    /\ raced = {}

registry == <<started, lib, dir, cancelled, ended, libraryWatchers>>

-----------------------------------------------------------------------------
(* Watch and StopWatching, which hold the lock of the registry *)

MutRegistered(l) == {libraryWatchers[l]}    \* mutant: a missing watcher is stopped
Registered(l) == {libraryWatchers[l]} \ {None}

Watch(l, p) ==
    IF mainCtx = "nil" THEN UNCHANGED registry
    ELSE /\ started < MaxWatchers
         /\ started' = started + 1
         /\ lib' = [lib EXCEPT ![started'] = l]
         /\ dir' = [dir EXCEPT ![started'] = p]
         /\ cancelled' = (cancelled \cup Registered(l))
                            \cup (IF mainCtx = "done" THEN {started'} ELSE {})
         /\ libraryWatchers' = [libraryWatchers EXCEPT ![l] = started']
         /\ UNCHANGED ended

StopWatching(l) ==
    /\ cancelled' = cancelled \cup Registered(l)
    /\ libraryWatchers' = [libraryWatchers EXCEPT ![l] = None]
    /\ UNCHANGED <<started, lib, dir, ended>>

\* the deferred function of the goroutine
MutCleaned(w) == [libraryWatchers EXCEPT ![lib[w]] = None]    \* mutant: whoever is registered
Cleaned(w) == [l \in Libraries |-> IF libraryWatchers[l] = w THEN None ELSE libraryWatchers[l]]

WatcherEnds(w) ==
    /\ w <= started /\ w \notin ended    \* its context has ended, or it fails
    /\ ended' = ended \cup {w}
    /\ libraryWatchers' = Cleaned(w)
    /\ UNCHANGED <<path, request, copies, mainCtx, run, listed, started, lib, dir, cancelled, raced>>

-----------------------------------------------------------------------------
(* Run *)

RunBegins ==
    /\ run = "start"
    /\ run' = "list"
    /\ mainCtx' = "live"
    /\ UNCHANGED <<path, request, copies, listed, registry, raced>>

RunLists ==
    /\ run = "list"
    /\ run' = "watch"
    /\ listed' = Rows
    /\ UNCHANGED <<path, request, copies, mainCtx, registry, raced>>

RunWatches ==
    /\ run = "watch"
    /\ \E entry \in listed :
           Watch(entry[1], entry[2]) /\ listed' = listed \ {entry}
    /\ UNCHANGED <<path, request, copies, mainCtx, run, raced>>

RunLoops ==
    /\ run = "watch" /\ listed = {}
    /\ run' = "loop"
    /\ UNCHANGED <<path, request, copies, mainCtx, listed, registry, raced>>

\* the context ends, and with it those of all watchers
WithMain == 1 .. started

Shutdown ==
    /\ mainCtx = "live"
    /\ mainCtx' = "done"
    /\ cancelled' = cancelled \cup WithMain
    /\ UNCHANGED <<path, request, copies, run, listed, started, lib, dir, ended, libraryWatchers,
                   raced>>

RunStops ==
    /\ run = "loop" /\ mainCtx = "done"
    /\ run' = "stopped"
    /\ cancelled' = cancelled \cup UNION {Registered(l) : l \in Libraries}
    /\ libraryWatchers' = [l \in Libraries |-> None]
    /\ UNCHANGED <<path, request, copies, mainCtx, listed, started, lib, dir, ended, raced>>

-----------------------------------------------------------------------------
(* Requests, and the detectors of media types *)

\* somebody has still to tell the watchers of the library
Telling(l) == \/ \E a \in Admins : request[a].lib = l /\ request[a].op \in {"watch", "stop"}
              \/ \E entry \in listed : entry[1] = l

\* The row of a library is written, or removed, by somebody who tells it, or
\* not, and who knows an earlier row, or fails afterwards: it is lost.
Written(l, p, tells, lost) ==
    /\ path' = [path EXCEPT ![l] = p] /\ Unique(path')
    /\ raced' = IF p # path[l] /\ (lost \/ Telling(l)) THEN raced \cup {l}
                ELSE IF tells /\ ~Telling(l) THEN raced \ {l}
                ELSE raced
    /\ UNCHANGED <<mainCtx, run, listed, registry>>

Goes(a, next) == request' = [request EXCEPT ![a] = next] /\ UNCHANGED copies

\* Put writes the row, and inserts one that has been deleted; if it then fails
\* to assign the library to the administrators, the request ends there.
Put(a, l, p, tells, stale) ==
    \/ /\ Written(l, p, tells, stale)
       /\ Goes(a, IF tells THEN Request("watch", l, p, Absent) ELSE Idle)
    \/ /\ Written(l, p, FALSE, TRUE)
       /\ Goes(a, Idle)

\* the client may name the library
Save(a, l, p) == request[a] = Idle /\ Put(a, l, p, TRUE, FALSE)

Update(a, l, p) ==
    /\ request[a] = Idle /\ path[l] # Absent
    /\ Goes(a, Request("put", l, p, path[l]))
    /\ UNCHANGED <<path, mainCtx, run, listed, registry, raced>>

MutPathChanged(a) == FALSE    \* mutant: the row is read after it is written
PathChanged(a) == request[a].was # request[a].path

UpdateWrites(a) ==
    /\ request[a].op = "put"
    /\ LET l == request[a].lib
       IN  Put(a, l, request[a].path, PathChanged(a), ~PathChanged(a) /\ request[a].was # path[l])

\* the row is read, if only for the log
Delete(a, l) ==
    /\ request[a] = Idle /\ path[l] # Absent
    /\ Goes(a, Request("delete", l, Absent, Absent))
    /\ UNCHANGED <<path, mainCtx, run, listed, registry, raced>>

DeleteWrites(a) ==
    /\ request[a].op = "delete"
    /\ Written(request[a].lib, Absent, TRUE, FALSE)
    /\ Goes(a, Request("stop", request[a].lib, Absent, Absent))

\* the path is another's, or the database fails
RequestFails(a) ==
    /\ request[a].op \in {"put", "delete"}
    /\ Goes(a, Idle)
    /\ UNCHANGED <<path, mainCtx, run, listed, registry, raced>>

MutTold(a) == request[a].op = "watch"    \* mutant: deletions are not told
Told(a) == request[a].op \in {"watch", "stop"}

Tell(a) ==
    /\ request[a].op \in {"watch", "stop"}
    /\ IF Told(a)
       THEN IF request[a].op = "watch" THEN Watch(request[a].lib, request[a].path)
            ELSE StopWatching(request[a].lib)
       ELSE UNCHANGED registry
    /\ Goes(a, Idle)
    /\ UNCHANGED <<path, mainCtx, run, listed, raced>>

\* the rows that are music and look like audiobooks
Detect(d) ==
    /\ copies[d] = {}
    /\ \E detected \in SUBSET Rows : copies' = [copies EXCEPT ![d] = detected]
    /\ UNCHANGED <<path, request, mainCtx, run, listed, registry, raced>>

\* the error of Put is ignored
WriteBack(d) ==
    \E entry \in copies[d] :
        /\ copies' = [copies EXCEPT ![d] = @ \ {entry}]
        /\ UNCHANGED request
        /\ \/ Written(entry[1], entry[2], FALSE, TRUE)
           \/ UNCHANGED <<path, mainCtx, run, listed, registry, raced>>

-----------------------------------------------------------------------------
Next ==
    \/ RunBegins \/ RunLists \/ RunWatches \/ RunLoops \/ Shutdown \/ RunStops
    \/ \E w \in Watchers : WatcherEnds(w)
    \/ \E a \in Admins :
           \/ UpdateWrites(a) \/ DeleteWrites(a) \/ RequestFails(a) \/ Tell(a)
           \/ \E l \in Libraries : Delete(a, l) \/ \E p \in Paths : Save(a, l, p) \/ Update(a, l, p)
    \/ \E d \in Detectors : Detect(d) \/ WriteBack(d)

Spec == Init /\ [][Next]_vars

-----------------------------------------------------------------------------
(* Properties *)

Active == {w \in 1 .. started : w \notin cancelled /\ w \notin ended}

\* The variables have their types, and watchers are registered for their library.
TypeOK ==
    /\ path \in [Libraries -> Paths \cup {Absent}] /\ Unique(path)
    /\ request \in [Admins -> Requests] /\ copies \in [Detectors -> SUBSET Entries]
    /\ mainCtx \in {"nil", "live", "done"}
    /\ run \in {"start", "list", "watch", "loop", "stopped"}
    /\ listed \subseteq Entries
    /\ started \in 0 .. MaxWatchers
    /\ cancelled \subseteq 1 .. started /\ ended \subseteq 1 .. started
    /\ \A w \in 1 .. started : lib[w] \in Libraries /\ dir[w] \in Paths
    /\ \A l \in Libraries : libraryWatchers[l] # None =>
           libraryWatchers[l] \in 1 .. started /\ lib[libraryWatchers[l]] = l
    /\ raced \subseteq Libraries

\* A watcher that works is the registered one of its library: StopWatching and
\* a later Watch reach it, and no library is watched twice.
ActiveIsRegistered == \A w \in Active : libraryWatchers[lib[w]] = w

\* Between requests, while Run is in its loop, every watcher that works watches
\* the path its library has in the database, unless the path was last changed
\* while another request, or Run, was about to tell it, or changed by a row
\* written back stale, or by a request that failed before it told anybody.
WatchedAsStored ==
    run = "loop" /\ (\A a \in Admins : request[a] = Idle)
        => \A w \in Active : path[lib[w]] = dir[w] \/ lib[w] \in raced
=============================================================================
