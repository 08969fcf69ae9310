---------------------------- MODULE ServicesProofs ----------------------------
(***************************************************************************)
(* What is proved of further components of Resources, for every value of   *)
(* their constants, each with an inductive invariant of its own (see       *)
(* ResourcesProofs for the cache, capacities and plugins).                 *)
(***************************************************************************)
EXTENDS ResourcesProofs, FiniteSetTheorems, SequenceTheorems, WellFoundedInduction, TLAPS

-----------------------------------------------------------------------------
(* The watchers of libraries *)

WatcherTypes ==
    /\ path \in [Libraries -> Watchers!Paths \cup {Watchers!Absent}] /\ Watchers!Unique(path)
    /\ request \in [Admins -> Watchers!Requests]
    /\ copies \in [Detectors -> SUBSET Watchers!Entries]
    /\ mainCtx \in {"nil", "live", "done"}
    /\ run \in {"start", "list", "watch", "loop", "stopped"}
    /\ listed \subseteq Watchers!Entries
    /\ watchers \in 0 .. MaxWatchers
    /\ lib \in [Watchers!Watchers -> Libraries \cup {Watchers!None}]
    /\ dir \in [Watchers!Watchers -> Watchers!Paths \cup {Watchers!Absent}]
    /\ \A w \in 1 .. watchers : lib[w] \in Libraries /\ dir[w] \in Watchers!Paths
    /\ libraryWatchers \in [Libraries -> 0 .. watchers]
    /\ cancelled \subseteq 1 .. watchers /\ ended \subseteq 1 .. watchers
    /\ raced \subseteq Libraries

\* There are no watchers before Run, and the registered one of a library is of that library.
Registry ==
    /\ mainCtx = "nil" => watchers = 0
    /\ \A l \in Libraries : libraryWatchers[l] # Watchers!None => lib[libraryWatchers[l]] = l
    /\ Watchers!ActiveIsRegistered

Tells(a) == request[a].op \in {"watch", "stop"}

Concerns(a, l) == Tells(a) /\ request[a].lib = l

\* What has still to be told, and what Run has read, is what the database says, unless a change
\* of the library has met it.
ToldIsStored ==
    /\ \A a \in Admins : Tells(a) =>
           request[a].lib \in raced \/ request[a].path = path[request[a].lib]
    /\ \A e \in listed : e[1] \in raced \/ e[2] = path[e[1]]

\* A watcher that is not up to date has its correction under way.
Corrected ==
    \A w \in Watchers!Active :
        \/ path[lib[w]] = dir[w] \/ lib[w] \in raced
        \/ \E a \in Admins : Concerns(a, lib[w])

WatchersInv == WatcherTypes /\ Registry /\ ToldIsStored /\ Corrected

LEMMA WatcherFacts ==
  ASSUME TRUE
  PROVE  /\ MaxPath \in Nat \ {0} /\ MaxWatchers \in Nat
         /\ Watchers!None = 0 /\ Watchers!Absent = 0
         /\ Watchers!Paths = 1 .. MaxPath /\ Watchers!Watchers = 1 .. MaxWatchers
  BY ResourcesAssumption
     DEF Watchers!WatchersAssumption, Watchers!None, Watchers!Absent, Watchers!Paths,
         Watchers!Watchers

\* What a request that is under way says.
LEMMA RequestTypes ==
  ASSUME WatcherTypes, NEW a \in Admins, request[a].op # "idle"
  PROVE  /\ request[a].lib \in Libraries
         /\ request[a].op \in {"watch", "put"} => request[a].path \in Watchers!Paths
         /\ request[a].op \in {"stop", "delete"} => request[a].path = Watchers!Absent
         /\ request[a].op \in {"watch", "put", "stop", "delete"}
  <1>1. request[a] \in Watchers!Requests
    BY DEF WatcherTypes
  <1> QED
    BY <1>1 DEF Watchers!Requests, Watchers!Idle, Watchers!Request

\* What a request may become.
LEMMA IsRequest ==
  ASSUME NEW l \in Libraries, NEW p \in Watchers!Paths, NEW was \in Watchers!Paths
  PROVE  /\ Watchers!Idle \in Watchers!Requests
         /\ Watchers!Request("put", l, p, was) \in Watchers!Requests
         /\ Watchers!Request("watch", l, p, Watchers!Absent) \in Watchers!Requests
         /\ Watchers!Request("delete", l, Watchers!Absent, Watchers!Absent) \in Watchers!Requests
         /\ Watchers!Request("stop", l, Watchers!Absent, Watchers!Absent) \in Watchers!Requests
  BY DEF Watchers!Requests

Keeps(w) == w \in Watchers!Active /\ lib'[w] = lib[w] /\ dir'[w] = dir[w]

\* Watch replaces the watcher of a library by one for the path it is told.
LEMMA WatchReplaces ==
  ASSUME WatcherTypes, Registry, NEW l \in Libraries, NEW p \in Watchers!Paths,
         Watchers!Watch(l, p)
  PROVE  /\ watchers' \in 0 .. MaxWatchers
         /\ lib' \in [Watchers!Watchers -> Libraries \cup {Watchers!None}]
         /\ dir' \in [Watchers!Watchers -> Watchers!Paths \cup {Watchers!Absent}]
         /\ \A w \in 1 .. watchers' : lib'[w] \in Libraries /\ dir'[w] \in Watchers!Paths
         /\ libraryWatchers' \in [Libraries -> 0 .. watchers']
         /\ cancelled' \subseteq 1 .. watchers' /\ ended' \subseteq 1 .. watchers'
         /\ mainCtx = "nil" => watchers' = 0
         /\ \A k \in Libraries :
                libraryWatchers'[k] # Watchers!None => lib'[libraryWatchers'[k]] = k
         /\ Watchers!ActiveIsRegistered'
         /\ \A w \in Watchers!Active' : \/ Keeps(w) /\ lib[w] # l
                                        \/ lib'[w] = l /\ dir'[w] = p
  <1> USE WatcherFacts
  <1>1. CASE mainCtx = "nil"
    <2>1. /\ watchers' = watchers /\ lib' = lib /\ dir' = dir /\ cancelled' = cancelled
          /\ ended' = ended /\ libraryWatchers' = libraryWatchers /\ watchers = 0
      BY <1>1 DEF Watchers!Watch, Watchers!registry, Registry
    <2>2. Watchers!Active' = {}
      BY <2>1 DEF Watchers!Active
    <2> QED
      BY <1>1, <2>1, <2>2 DEF WatcherTypes, Registry, Watchers!ActiveIsRegistered
  <1>2. CASE mainCtx # "nil"
    <2>1. /\ watchers < MaxWatchers /\ watchers' = watchers + 1
          /\ lib' = [lib EXCEPT ![watchers'] = l] /\ dir' = [dir EXCEPT ![watchers'] = p]
          /\ cancelled' = (cancelled \cup Watchers!Registered(l))
                              \cup (IF mainCtx = "done" THEN {watchers'} ELSE {})
          /\ libraryWatchers' = [libraryWatchers EXCEPT ![l] = watchers']
          /\ ended' = ended
      BY <1>2 DEF Watchers!Watch
    <2>2. /\ watchers' \in 0 .. MaxWatchers /\ watchers' \in Watchers!Watchers
          /\ 0 .. watchers \subseteq 0 .. watchers' /\ watchers' \in 0 .. watchers'
          /\ 1 .. watchers \subseteq 1 .. watchers'
          /\ \A w \in 1 .. watchers' : w # watchers' => w \in 1 .. watchers
          /\ 1 .. watchers \subseteq Watchers!Watchers /\ watchers' \notin 0 .. watchers
      BY <2>1 DEF WatcherTypes
    <2>3. /\ lib' \in [Watchers!Watchers -> Libraries \cup {Watchers!None}]
          /\ dir' \in [Watchers!Watchers -> Watchers!Paths \cup {Watchers!Absent}]
          /\ lib'[watchers'] = l /\ dir'[watchers'] = p
          /\ \A w \in 1 .. watchers : lib'[w] = lib[w] /\ dir'[w] = dir[w]
      BY <2>1, <2>2 DEF WatcherTypes
    <2>4. \A w \in 1 .. watchers' : lib'[w] \in Libraries /\ dir'[w] \in Watchers!Paths
      BY <2>2, <2>3 DEF WatcherTypes
    <2>5. /\ libraryWatchers' \in [Libraries -> 0 .. watchers'] /\ libraryWatchers'[l] = watchers'
          /\ \A k \in Libraries \ {l} : libraryWatchers'[k] = libraryWatchers[k]
      BY <2>1, <2>2 DEF WatcherTypes
    <2>6. /\ Watchers!Registered(l) \subseteq 1 .. watchers
          /\ \A w \in 1 .. watchers : libraryWatchers[l] = w => w \in Watchers!Registered(l)
      BY DEF WatcherTypes, Watchers!Registered
    <2>7. cancelled' \subseteq 1 .. watchers' /\ ended' \subseteq 1 .. watchers'
      <3>1. cancelled' \subseteq (cancelled \cup Watchers!Registered(l)) \cup {watchers'}
        BY <2>1
      <3>2. cancelled \subseteq 1 .. watchers /\ ended \subseteq 1 .. watchers
        BY DEF WatcherTypes
      <3>3. watchers' \in 1 .. watchers'
        BY <2>2
      <3>4. ended' \subseteq 1 .. watchers'
        BY <2>1, <2>2, <3>2
      <3> QED
        BY <2>2, <2>6, <3>1, <3>2, <3>3, <3>4
    <2>8. ASSUME NEW w \in Watchers!Active', w # watchers'
          PROVE  Keeps(w) /\ lib[w] # l
      <3>1. w \in 1 .. watchers /\ w \notin cancelled /\ w \notin ended
            /\ w \notin Watchers!Registered(l)
        BY <2>1, <2>2, <2>8 DEF Watchers!Active
      <3>2. w \in Watchers!Active
        BY <3>1 DEF Watchers!Active
      <3>3. libraryWatchers[lib[w]] = w
        BY <3>2 DEF Registry, Watchers!ActiveIsRegistered
      <3> QED
        BY <2>3, <2>6, <3>1, <3>2, <3>3 DEF Keeps
    <2>9. ASSUME NEW w \in Watchers!Active'
          PROVE  libraryWatchers'[lib'[w]] = w
      <3>1. CASE w = watchers'
        BY <2>3, <2>5, <3>1
      <3>2. CASE w # watchers'
        <4>1. Keeps(w) /\ lib[w] # l
          BY <2>8, <3>2
        <4>2. libraryWatchers[lib[w]] = w /\ lib[w] \in Libraries
          BY <4>1 DEF Keeps, Registry, Watchers!ActiveIsRegistered, Watchers!Active, WatcherTypes
        <4> QED
          BY <2>5, <4>1, <4>2 DEF Keeps
      <3> QED
        BY <3>1, <3>2
    <2>10. ASSUME NEW k \in Libraries, libraryWatchers'[k] # Watchers!None
           PROVE  lib'[libraryWatchers'[k]] = k
      <3>1. CASE k = l
        BY <2>3, <2>5, <3>1
      <3>2. CASE k # l
        <4>1. libraryWatchers'[k] = libraryWatchers[k] /\ libraryWatchers[k] \in 1 .. watchers
          BY <2>5, <2>10, <3>2 DEF WatcherTypes
        <4> QED
          BY <2>3, <2>10, <4>1 DEF Registry
      <3> QED
        BY <3>1, <3>2
    <2> QED
      BY <1>2, <2>2, <2>3, <2>4, <2>5, <2>7, <2>8, <2>9, <2>10 DEF Watchers!ActiveIsRegistered
  <1> QED
    BY <1>1, <1>2

\* What takes watchers out of the registry takes working ones away and adds none.
LEMMA FewerWatchers ==
  ASSUME WatcherTypes, Registry,
         watchers' = watchers, lib' = lib, dir' = dir,
         cancelled' \subseteq 1 .. watchers, ended' \subseteq 1 .. watchers,
         cancelled \subseteq cancelled', ended \subseteq ended',
         libraryWatchers' \in [Libraries -> 0 .. watchers],
         \A k \in Libraries : libraryWatchers'[k] \in {libraryWatchers[k], Watchers!None},
         \A w \in Watchers!Active' : libraryWatchers'[lib[w]] = libraryWatchers[lib[w]]
  PROVE  /\ \A k \in Libraries :
                libraryWatchers'[k] # Watchers!None => lib'[libraryWatchers'[k]] = k
         /\ Watchers!ActiveIsRegistered'
         /\ \A w \in Watchers!Active' : Keeps(w)
  <1>1. Watchers!Active' \subseteq Watchers!Active
    BY DEF Watchers!Active
  <1>2. \A w \in Watchers!Active' : Keeps(w)
    BY <1>1 DEF Keeps
  <1>3. Watchers!ActiveIsRegistered'
    BY <1>1 DEF Registry, Watchers!ActiveIsRegistered
  <1>4. \A k \in Libraries : libraryWatchers'[k] # Watchers!None => lib'[libraryWatchers'[k]] = k
    BY DEF Registry
  <1> QED
    BY <1>2, <1>3, <1>4

\* Every watcher that works afterwards worked before, or is for what was told or read.
LEMMA StillCorrected ==
  ASSUME Corrected, UNCHANGED <<path, raced>>,
         NEW done,    \* the administrator who is told, if there is one
         \A a \in Admins \ {done} : request'[a] = request[a],
         NEW l, NEW p, l \in raced \/ p = path[l],
         \A w \in Watchers!Active' : \/ Keeps(w) /\ (done \in Admins => ~Concerns(done, lib[w]))
                                     \/ lib'[w] = l /\ dir'[w] = p
  PROVE  Corrected'
  <1> SUFFICES ASSUME NEW w \in Watchers!Active'
               PROVE  \/ path[lib'[w]] = dir'[w] \/ lib'[w] \in raced
                      \/ \E a \in Admins : Concerns(a, lib[w])'
    BY DEF Corrected, Concerns
  <1>1. CASE lib'[w] = l /\ dir'[w] = p
    BY <1>1
  <1>2. CASE Keeps(w) /\ (done \in Admins => ~Concerns(done, lib[w]))
    <2>1. \/ path[lib[w]] = dir[w] \/ lib[w] \in raced
          \/ \E a \in Admins \ {done} : Concerns(a, lib[w])
      BY <1>2 DEF Corrected, Keeps
    <2> QED
      BY <1>2, <2>1 DEF Keeps, Concerns, Tells
  <1> QED
    BY <1>1, <1>2

LEMMA RunKeeps ==
  ASSUME WatchersInv,
         Watchers!RunBegins \/ Watchers!RunLists \/ Watchers!RunWatches \/ Watchers!RunLoops
  PROVE  WatchersInv'
  <1> USE WatcherFacts DEF WatchersInv, Watchers!Unique, Watchers!Entries
  <1>1. CASE Watchers!RunWatches
    <2>1. PICK e \in listed : Watchers!Watch(e[1], e[2]) /\ listed' = listed \ {e}
      BY <1>1 DEF Watchers!RunWatches
    <2>2. e[1] \in Libraries /\ e[2] \in Watchers!Paths
      BY DEF WatcherTypes
    <2>3. /\ path' = path /\ copies' = copies /\ request' = request /\ mainCtx' = mainCtx
          /\ run' = run /\ raced' = raced
      BY <1>1 DEF Watchers!RunWatches
    <2>4. WatcherTypes' /\ Registry'
      BY <2>1, <2>2, <2>3, WatchReplaces DEF WatcherTypes, Registry
    <2>5. ToldIsStored'
      BY <2>1, <2>3 DEF ToldIsStored, Tells
    <2>6. \A w \in Watchers!Active' : Keeps(w) \/ (lib'[w] = e[1] /\ dir'[w] = e[2])
      BY <2>1, <2>2, WatchReplaces
    <2>7. e[1] \in raced \/ e[2] = path[e[1]]
      BY DEF ToldIsStored
    <2>8. Corrected'
      BY <2>3, <2>6, <2>7 DEF Corrected, Keeps, Concerns, Tells
    <2> QED
      BY <2>4, <2>5, <2>8
  <1>2. CASE ~Watchers!RunWatches
    <2>1. /\ path' = path /\ copies' = copies /\ request' = request /\ raced' = raced
          /\ watchers' = watchers /\ lib' = lib /\ dir' = dir /\ cancelled' = cancelled
          /\ ended' = ended /\ libraryWatchers' = libraryWatchers
      BY <1>2 DEF Watchers!RunBegins, Watchers!RunLists, Watchers!RunLoops, Watchers!registry
    <2>2. /\ mainCtx' = mainCtx \/ mainCtx' = "live"
          /\ run' \in {"start", "list", "watch", "loop", "stopped"}
      BY <1>2 DEF Watchers!RunBegins, Watchers!RunLists, Watchers!RunLoops
    <2>3. \/ listed' = listed
          \/ listed' = {<<l, path[l]>> : l \in {l \in Libraries : path[l] # Watchers!Absent}}
      BY <1>2 DEF Watchers!RunBegins, Watchers!RunLists, Watchers!RunLoops, Watchers!Rows
    <2>4. /\ listed' \subseteq Libraries \X Watchers!Paths
          /\ \A e \in listed' : e \in listed \/ e[2] = path[e[1]]
      BY <2>3 DEF WatcherTypes
    <2>5. WatcherTypes'
      BY <2>1, <2>2, <2>4 DEF WatcherTypes
    <2>6. Registry'
      BY <2>1, <2>2 DEF Registry, Watchers!ActiveIsRegistered, Watchers!Active
    <2>7. ToldIsStored' /\ Corrected'
      BY <2>1, <2>4 DEF ToldIsStored, Corrected, Concerns, Tells, Watchers!Active
    <2> QED
      BY <2>5, <2>6, <2>7
  <1> QED
    BY <1>1, <1>2

\* A watcher that ends by itself leaves the registry to its successor.
LEMMA EndKeeps ==
  ASSUME WatchersInv, NEW w \in Watchers!Watchers, Watchers!WatcherEnds(w)
  PROVE  WatchersInv'
  <1> USE WatcherFacts DEF WatchersInv, Watchers!Unique, Watchers!Entries
  <1>1. /\ w \in 1 .. watchers /\ ended' = ended \cup {w}
        /\ path' = path /\ copies' = copies /\ request' = request /\ mainCtx' = mainCtx
        /\ run' = run /\ listed' = listed /\ watchers' = watchers /\ lib' = lib /\ dir' = dir
        /\ cancelled' = cancelled /\ raced' = raced
    BY DEF Watchers!WatcherEnds, WatcherTypes
  <1>2. libraryWatchers' = [l \in Libraries |-> IF libraryWatchers[l] = w THEN Watchers!None
                                                ELSE libraryWatchers[l]]
    BY DEF Watchers!WatcherEnds, Watchers!Cleaned
  <1>3. /\ libraryWatchers' \in [Libraries -> 0 .. watchers]
        /\ \A l \in Libraries : /\ libraryWatchers'[l] \in {libraryWatchers[l], Watchers!None}
                                /\ libraryWatchers[l] # w => libraryWatchers'[l] = libraryWatchers[l]
    BY <1>2 DEF WatcherTypes
  <1>4. ASSUME NEW v \in Watchers!Active'
        PROVE  libraryWatchers'[lib[v]] = libraryWatchers[lib[v]]
    <2>1. v \in Watchers!Active /\ v # w /\ lib[v] \in Libraries
      BY <1>1 DEF Watchers!Active, WatcherTypes
    <2>2. libraryWatchers[lib[v]] # w
      BY <2>1 DEF Registry, Watchers!ActiveIsRegistered
    <2>3. \A l \in Libraries : libraryWatchers[l] # w => libraryWatchers'[l] = libraryWatchers[l]
      BY <1>3
    <2> QED
      BY <2>1, <2>2, <2>3
  <1>5. cancelled' \subseteq 1 .. watchers /\ ended' \subseteq 1 .. watchers
    BY <1>1 DEF WatcherTypes
  <1>6. /\ \A l \in Libraries :
              libraryWatchers'[l] # Watchers!None => lib'[libraryWatchers'[l]] = l
        /\ Watchers!ActiveIsRegistered' /\ \A v \in Watchers!Active' : Keeps(v)
    <2>1. WatcherTypes /\ Registry
      OBVIOUS
    <2>2. watchers' = watchers /\ lib' = lib /\ dir' = dir
      BY <1>1
    <2>3. cancelled \subseteq cancelled' /\ ended \subseteq ended'
      BY <1>1
    <2>4. libraryWatchers' \in [Libraries -> 0 .. watchers]
      BY <1>3
    <2>5. \A k \in Libraries : libraryWatchers'[k] \in {libraryWatchers[k], Watchers!None}
      BY <1>3
    <2> HIDE WatcherFacts DEF WatchersInv, Watchers!Unique, Watchers!Entries
    <2> QED
      BY <1>4, <1>5, <2>1, <2>2, <2>3, <2>4, <2>5, FewerWatchers
  <1>7. WatcherTypes'
    BY <1>1, <1>3, <1>5 DEF WatcherTypes
  <1>8. Registry'
    BY <1>1, <1>6 DEF Registry
  <1>9. ToldIsStored' /\ Corrected'
    BY <1>1, <1>6 DEF ToldIsStored, Corrected, Concerns, Tells, Keeps
  <1> QED
    BY <1>7, <1>8, <1>9

\* Nothing works after the end.
LEMMA ShutdownKeeps ==
  ASSUME WatchersInv, Watchers!Shutdown \/ Watchers!RunStops
  PROVE  WatchersInv'
  <1> USE WatcherFacts DEF WatchersInv, Watchers!Unique, Watchers!Entries
  <1>1. /\ path' = path /\ copies' = copies /\ request' = request /\ listed' = listed
        /\ watchers' = watchers /\ lib' = lib /\ dir' = dir /\ ended' = ended /\ raced' = raced
        /\ mainCtx' = "done" /\ run' \in {run, "stopped"}
    BY DEF Watchers!Shutdown, Watchers!RunStops
  <1>2. /\ libraryWatchers' \in [Libraries -> 0 .. watchers]
        /\ \A l \in Libraries : libraryWatchers'[l] \in {libraryWatchers[l], Watchers!None}
    <2>1. \/ libraryWatchers' = libraryWatchers
          \/ libraryWatchers' = [l \in Libraries |-> Watchers!None]
      BY DEF Watchers!Shutdown, Watchers!RunStops
    <2>2. libraryWatchers \in [Libraries -> 0 .. watchers] /\ Watchers!None \in 0 .. watchers
      BY DEF WatcherTypes
    <2> QED
      BY <2>1, <2>2
  <1>3. cancelled' \subseteq 1 .. watchers
    <2>1. \A l \in Libraries : Watchers!Registered(l) \subseteq 1 .. watchers
      BY DEF WatcherTypes, Watchers!Registered
    <2>2. cancelled \subseteq 1 .. watchers
      BY DEF WatcherTypes
    <2> QED
      <3>1. UNION {Watchers!Registered(l) : l \in Libraries} \subseteq 1 .. watchers
        BY <2>1
      <3>2. \/ cancelled' = cancelled \cup 1 .. watchers
            \/ cancelled' = cancelled \cup UNION {Watchers!Registered(l) : l \in Libraries}
        BY DEF Watchers!Shutdown, Watchers!RunStops, Watchers!WithMain
      <3> QED
        BY <2>2, <3>1, <3>2
  <1>4. Watchers!Active' = {}
    <2>1. CASE Watchers!Shutdown
      BY <1>1, <2>1 DEF Watchers!Shutdown, Watchers!WithMain, Watchers!Active
    <2>2. CASE Watchers!RunStops
      <3> SUFFICES ASSUME NEW w \in Watchers!Active'
                   PROVE  FALSE
        OBVIOUS
      <3>1. cancelled' = cancelled \cup UNION {Watchers!Registered(l) : l \in Libraries}
        BY <2>2 DEF Watchers!RunStops
      <3>2. w \in Watchers!Active /\ w \notin cancelled'
        BY <1>1, <3>1 DEF Watchers!Active
      <3>3. lib[w] \in Libraries /\ libraryWatchers[lib[w]] = w /\ w # Watchers!None
        BY <3>2 DEF Registry, Watchers!ActiveIsRegistered, Watchers!Active, WatcherTypes
      <3>4. w \in Watchers!Registered(lib[w])
        BY <3>3 DEF Watchers!Registered
      <3> QED
        BY <3>1, <3>2, <3>3, <3>4
    <2> QED
      BY <2>1, <2>2
  <1>5. WatcherTypes'
    BY <1>1, <1>2, <1>3 DEF WatcherTypes
  <1>6. Registry'
    BY <1>1, <1>2, <1>4 DEF Registry, Watchers!ActiveIsRegistered
  <1>7. ToldIsStored' /\ Corrected'
    BY <1>1, <1>4 DEF ToldIsStored, Corrected, Tells
  <1> QED
    BY <1>5, <1>6, <1>7

\* Whoever changes the path of a library tells it, or is known to have raced.
LEMMA WrittenKeeps ==
  ASSUME WatchersInv, NEW l \in Libraries, NEW p \in Watchers!Paths \cup {Watchers!Absent},
         NEW tells \in BOOLEAN, NEW lost \in BOOLEAN, Watchers!Written(l, p, tells, lost),
         request' \in [Admins -> Watchers!Requests],
         copies' \in [Detectors -> SUBSET Watchers!Entries],
         NEW a,    \* the administrator who writes, if there is one
         \A b \in Admins \ {a} : request'[b] = request[b],
         a \in Admins => ~Tells(a) /\ (~tells => ~Tells(a)'),
         tells => a \in Admins /\ Concerns(a, l)' /\ request'[a].path = p,
         ~tells => p = path[l] \/ lost
  PROVE  WatchersInv'
  <1> USE WatcherFacts DEF WatchersInv, Watchers!Unique, Watchers!Entries
  <1>1. /\ mainCtx' = mainCtx /\ run' = run /\ listed' = listed
        /\ watchers' = watchers /\ lib' = lib /\ dir' = dir /\ ended' = ended
        /\ cancelled' = cancelled /\ libraryWatchers' = libraryWatchers
    BY DEF Watchers!Written, Watchers!registry
  <1>2. /\ path' = [path EXCEPT ![l] = p] /\ Watchers!Unique(path')
        /\ path'[l] = p /\ \A k \in Libraries \ {l} : path'[k] = path[k]
    BY DEF Watchers!Written, WatcherTypes
  <1>3. /\ raced' \subseteq Libraries /\ \A k \in Libraries \ {l} : k \in raced' <=> k \in raced
        /\ p # path[l] /\ (lost \/ Watchers!Telling(l)) => l \in raced'
        /\ l \in raced /\ (~tells \/ Watchers!Telling(l)) => l \in raced'
    BY DEF Watchers!Written, WatcherTypes
  <1>4. WatcherTypes'
    <2>1. path' \in [Libraries -> Watchers!Paths \cup {Watchers!Absent}]
      BY <1>2 DEF WatcherTypes
    <2>2. Watchers!Unique(path)'
      BY <1>2 DEF Watchers!Unique
    <2> QED
      BY <1>1, <1>3, <2>1, <2>2 DEF WatcherTypes
  <1>5. Registry'
    BY <1>1 DEF Registry, Watchers!ActiveIsRegistered, Watchers!Active
  \* somebody else tells what the database said: it says so still, or has raced
  <1>6. ASSUME NEW k \in Libraries, NEW q, k \in raced \/ q = path[k],
               k = l => Watchers!Telling(l)
        PROVE  k \in raced' \/ q = path'[k]
    BY <1>2, <1>3, <1>6
  <1>7. ASSUME NEW b \in Admins, Tells(b)'
        PROVE  request'[b].lib \in raced' \/ request'[b].path = path'[request'[b].lib]
    <2>1. CASE b = a
      BY <1>2, <1>7, <2>1 DEF Concerns
    <2>2. CASE b # a
      <3>1. request'[b] = request[b] /\ Tells(b) /\ request[b].lib \in Libraries
        BY <1>7, <2>2, RequestTypes DEF Tells
      <3>2. request[b].lib = l => Watchers!Telling(l)
        BY <3>1 DEF Watchers!Telling, Tells
      <3> QED
        BY <1>6, <3>1, <3>2 DEF ToldIsStored
    <2> QED
      BY <2>1, <2>2
  <1>8. ASSUME NEW e \in listed
        PROVE  e[1] \in raced' \/ e[2] = path'[e[1]]
    <2>1. e[1] \in Libraries
      BY DEF WatcherTypes, Watchers!Entries
    <2>2. e[1] = l => Watchers!Telling(l)
      BY DEF Watchers!Telling
    <2> QED
      BY <1>6, <2>1, <2>2 DEF ToldIsStored
  <1>9. ASSUME NEW w \in Watchers!Active
        PROVE  \/ path'[lib[w]] = dir[w] \/ lib[w] \in raced'
               \/ \E b \in Admins : Concerns(b, lib[w])'
    <2>1. lib[w] \in Libraries
      BY DEF Watchers!Active, WatcherTypes
    <2>2. \/ path[lib[w]] = dir[w] \/ lib[w] \in raced
          \/ \E b \in Admins : b # a /\ Concerns(b, lib[w])'
      <3>1. \/ path[lib[w]] = dir[w] \/ lib[w] \in raced
            \/ \E b \in Admins : Concerns(b, lib[w])
        BY DEF Corrected
      <3>2. \A b \in Admins : Concerns(b, lib[w]) => b # a /\ request'[b] = request[b]
        BY DEF Concerns
      <3> QED
        BY <1>1, <3>1, <3>2 DEF Concerns, Tells
    <2>3. CASE lib[w] = l /\ tells
      BY <1>1, <2>3
    <2>4. CASE lib[w] = l /\ ~tells
      BY <1>2, <1>3, <2>2, <2>4
    <2>5. CASE lib[w] # l
      BY <1>2, <1>3, <2>1, <2>2, <2>5
    <2> QED
      BY <2>3, <2>4, <2>5
  <1>10. ToldIsStored'
    BY <1>1, <1>7, <1>8 DEF ToldIsStored
  <1>11. Corrected'
    BY <1>1, <1>9 DEF Corrected, Watchers!Active, Concerns, Tells
  <1> QED
    BY <1>4, <1>5, <1>10, <1>11

\* What only reads the database, or ends before it has written, leaves what is told alone.
LEMMA ReadsKeep ==
  ASSUME WatchersInv,
         UNCHANGED <<path, mainCtx, run, listed, Watchers!registry, raced>>,
         request' \in [Admins -> Watchers!Requests],
         copies' \in [Detectors -> SUBSET Watchers!Entries],
         \A b \in Admins : \/ request'[b] = request[b]
                           \/ ~Tells(b) /\ ~Tells(b)'
  PROVE  WatchersInv'
  <1> USE DEF WatchersInv, Watchers!registry
  <1>1. WatcherTypes'
    BY DEF WatcherTypes, Watchers!Unique
  <1>2. Registry'
    BY DEF Registry, Watchers!ActiveIsRegistered, Watchers!Active
  <1>3. ToldIsStored'
    BY DEF ToldIsStored, Tells
  <1>4. Corrected'
    BY DEF Corrected, Concerns, Tells, Watchers!Active
  <1> QED
    BY <1>1, <1>2, <1>3, <1>4

\* A request that goes on, or ends.
LEMMA RequestGoesOn ==
  ASSUME WatcherTypes, NEW a \in Admins, NEW next \in Watchers!Requests, Watchers!Goes(a, next)
  PROVE  /\ request' \in [Admins -> Watchers!Requests]
         /\ copies' \in [Detectors -> SUBSET Watchers!Entries]
         /\ request'[a] = next /\ \A b \in Admins \ {a} : request'[b] = request[b]
  <1>1. request' = [request EXCEPT ![a] = next]
    BY DEF Watchers!Goes
  <1>2. copies' = copies
    BY DEF Watchers!Goes
  <1>3. request' \in [Admins -> Watchers!Requests]
    BY <1>1 DEF WatcherTypes
  <1>4. copies' \in [Detectors -> SUBSET Watchers!Entries]
    BY <1>2 DEF WatcherTypes
  <1>5. request'[a] = next /\ \A b \in Admins \ {a} : request'[b] = request[b]
    BY <1>1 DEF WatcherTypes
  <1> QED
    BY <1>3, <1>4, <1>5

\* An update that has found the paths alike, and changes the path, has read an earlier row.
LEMMA PutKeeps ==
  ASSUME WatchersInv, NEW a \in Admins, ~Tells(a), NEW l \in Libraries, NEW p \in Watchers!Paths,
         NEW tells \in BOOLEAN, NEW stale \in BOOLEAN, Watchers!Put(a, l, p, tells, stale),
         ~tells => p = path[l] \/ stale
  PROVE  WatchersInv'
  <1> USE DEF WatchersInv
  <1> DEFINE watch == Watchers!Request("watch", l, p, Watchers!Absent)
  <1>1. watch \in Watchers!Requests /\ Watchers!Idle \in Watchers!Requests
    BY IsRequest
  <1>2. /\ watch.op = "watch" /\ watch.lib = l /\ watch.path = p
        /\ Watchers!Idle.op = "idle"
    BY DEF Watchers!Request, Watchers!Idle
  <1>3. CASE Watchers!Written(l, p, tells, stale) /\ Watchers!Goes(a, IF tells THEN watch ELSE Watchers!Idle)
    <2>1. PICK next \in {watch, Watchers!Idle} :
              Watchers!Goes(a, next) /\ next = (IF tells THEN watch ELSE Watchers!Idle)
      BY <1>3
    <2>2. /\ request' \in [Admins -> Watchers!Requests]
          /\ copies' \in [Detectors -> SUBSET Watchers!Entries]
          /\ request'[a] = next /\ \A b \in Admins \ {a} : request'[b] = request[b]
      BY <1>1, <2>1, RequestGoesOn
    <2>3. /\ tells => Concerns(a, l)' /\ request'[a].path = p
          /\ ~tells => ~Tells(a)'
      BY <1>2, <2>1, <2>2 DEF Concerns, Tells
    <2> HIDE DEF WatchersInv, watch
    <2> QED
      BY <1>3, <2>2, <2>3, WrittenKeeps
  <1>4. CASE Watchers!Written(l, p, FALSE, TRUE) /\ Watchers!Goes(a, Watchers!Idle)
    <2>1. /\ request' \in [Admins -> Watchers!Requests]
          /\ copies' \in [Detectors -> SUBSET Watchers!Entries]
          /\ request'[a] = Watchers!Idle /\ \A b \in Admins \ {a} : request'[b] = request[b]
      BY <1>1, <1>4, RequestGoesOn
    <2>2. ~Tells(a)'
      BY <1>2, <2>1 DEF Tells
    <2> HIDE DEF WatchersInv, watch
    <2> QED
      BY <1>4, <2>1, <2>2, WrittenKeeps
  <1> QED
    BY <1>3, <1>4 DEF Watchers!Put

\* A deletion tells the watchers.
LEMMA DeletionKeeps ==
  ASSUME WatchersInv, NEW a \in Admins, ~Tells(a), NEW l \in Libraries,
         Watchers!Goes(a, Watchers!Request("stop", l, Watchers!Absent, Watchers!Absent)),
         Watchers!Written(l, Watchers!Absent, TRUE, FALSE)
  PROVE  WatchersInv'
  <1> DEFINE told == Watchers!Request("stop", l, Watchers!Absent, Watchers!Absent)
  <1>1. told \in Watchers!Requests
    BY DEF Watchers!Requests
  <1>2. told.op = "stop" /\ told.lib = l /\ told.path = Watchers!Absent
    BY DEF Watchers!Request
  <1>3. WatcherTypes /\ Watchers!Goes(a, told)
    BY DEF WatchersInv
  <1> HIDE DEF told
  <1>4. /\ request' \in [Admins -> Watchers!Requests]
        /\ copies' \in [Detectors -> SUBSET Watchers!Entries]
        /\ request'[a] = told /\ \A b \in Admins \ {a} : request'[b] = request[b]
    BY <1>1, <1>3, RequestGoesOn
  <1>5. Concerns(a, l)' /\ request'[a].path = Watchers!Absent
    BY <1>2, <1>4 DEF Concerns, Tells
  <1>6. ASSUME NEW p \in Watchers!Paths \cup {Watchers!Absent}, p = Watchers!Absent,
               NEW tells \in BOOLEAN, tells, NEW lost \in BOOLEAN, ~lost,
               Watchers!Written(l, p, tells, lost)
        PROVE  WatchersInv'
    <2>1. /\ a \in Admins => ~Tells(a) /\ (~tells => ~Tells(a)')
          /\ tells => a \in Admins /\ Concerns(a, l)' /\ request'[a].path = p
          /\ ~tells => p = path[l] \/ lost
      BY <1>5, <1>6
    <2>2. Watchers!Written(l, p, tells, lost)
      BY <1>6
    <2> QED
      BY <1>4, <2>1, <2>2, WrittenKeeps
  <1> QED
    BY <1>6

\* A request changes the database by Put or a deletion, or only reads it.
LEMMA RequestKeeps ==
  ASSUME WatchersInv, NEW a \in Admins,
         \/ Watchers!UpdateWrites(a) \/ Watchers!DeleteWrites(a) \/ Watchers!RequestFails(a)
         \/ \E l \in Libraries :
                Watchers!Delete(a, l) \/ \E p \in Watchers!Paths : Watchers!Save(a, l, p) \/ Watchers!Update(a, l, p)
  PROVE  WatchersInv'
  <1> USE DEF WatchersInv
  <1>1. Watchers!Idle.op = "idle" /\ Watchers!Idle \in Watchers!Requests
    BY DEF Watchers!Idle, Watchers!Request, Watchers!Requests
  <1>2. ASSUME NEW l \in Libraries, NEW p \in Watchers!Paths, Watchers!Save(a, l, p)
        PROVE  WatchersInv'
    <2>1. ~Tells(a) /\ Watchers!Put(a, l, p, TRUE, FALSE)
      BY <1>1, <1>2 DEF Tells, Watchers!Save
    <2> HIDE DEF WatchersInv
    <2> QED
      BY <2>1, PutKeeps
  <1>3. CASE Watchers!UpdateWrites(a)
    <2>1. /\ request[a].op = "put" /\ request[a].lib \in Libraries
          /\ request[a].path \in Watchers!Paths /\ ~Tells(a)
      BY <1>3, RequestTypes DEF Tells, Watchers!UpdateWrites
    <2>2. PICK l \in Libraries, p \in Watchers!Paths : l = request[a].lib /\ p = request[a].path
      BY <2>1
    <2>3. PICK tells \in BOOLEAN, stale \in BOOLEAN :
              /\ tells = Watchers!PathChanged(a)
              /\ stale = (~Watchers!PathChanged(a) /\ request[a].was # path[l])
      BY DEF Watchers!PathChanged
    <2>4. Watchers!Put(a, l, p, tells, stale)
      BY <1>3, <2>2, <2>3 DEF Watchers!UpdateWrites
    <2>5. ~tells => p = path[l] \/ stale
      BY <2>2, <2>3 DEF Watchers!PathChanged
    <2> HIDE DEF WatchersInv
    <2> QED
      BY <2>1, <2>4, <2>5, PutKeeps
  <1>4. CASE Watchers!DeleteWrites(a)
    <2>1. /\ request[a].op = "delete" /\ request[a].lib \in Libraries /\ ~Tells(a)
      BY <1>4, RequestTypes DEF Tells, Watchers!DeleteWrites
    <2>2. PICK l \in Libraries : l = request[a].lib
      BY <2>1
    <2>3. /\ Watchers!Goes(a, Watchers!Request("stop", l, Watchers!Absent, Watchers!Absent))
          /\ Watchers!Written(l, Watchers!Absent, TRUE, FALSE)
      BY <1>4, <2>2 DEF Watchers!DeleteWrites
    <2> HIDE DEF WatchersInv
    <2> QED
      BY <2>1, <2>3, DeletionKeeps
  <1>5. ASSUME NEW next \in Watchers!Requests, Watchers!Goes(a, next), ~Tells(a),
               next.op \notin {"watch", "stop"},
               UNCHANGED <<path, mainCtx, run, listed, Watchers!registry, raced>>
        PROVE  WatchersInv'
    <2>1. /\ request' \in [Admins -> Watchers!Requests]
          /\ copies' \in [Detectors -> SUBSET Watchers!Entries]
          /\ request'[a] = next /\ \A b \in Admins \ {a} : request'[b] = request[b]
      BY <1>5, RequestGoesOn
    <2>2. ~Tells(a)'
      BY <1>5, <2>1 DEF Tells
    <2> HIDE DEF WatchersInv
    <2> QED
      BY <1>5, <2>1, <2>2, ReadsKeep
  <1>6. CASE Watchers!RequestFails(a)
    BY <1>1, <1>5, <1>6 DEF Watchers!RequestFails, Tells
  <1>7. ASSUME NEW l \in Libraries, NEW p \in Watchers!Paths, Watchers!Update(a, l, p)
        PROVE  WatchersInv'
    <2> DEFINE put == Watchers!Request("put", l, p, path[l])
    <2>1. put \in Watchers!Requests /\ put.op = "put"
      <3>1. path[l] \in Watchers!Paths
        BY <1>7 DEF Watchers!Update, WatcherTypes
      <3> QED
        BY <3>1 DEF Watchers!Requests, Watchers!Request
    <2>2. /\ Watchers!Goes(a, put) /\ request[a] = Watchers!Idle
          /\ UNCHANGED <<path, mainCtx, run, listed, Watchers!registry, raced>>
      BY <1>7 DEF Watchers!Update
    <2>3. PICK next \in Watchers!Requests : Watchers!Goes(a, next) /\ next.op = "put"
      BY <2>1, <2>2
    <2> QED
      BY <1>1, <1>5, <2>2, <2>3 DEF Tells
  <1>8. ASSUME NEW l \in Libraries, Watchers!Delete(a, l)
        PROVE  WatchersInv'
    <2>1. PICK next \in Watchers!Requests : Watchers!Goes(a, next) /\ next.op = "delete"
      BY <1>8 DEF Watchers!Delete, Watchers!Requests, Watchers!Request
    <2> QED
      BY <1>1, <1>5, <1>8, <2>1 DEF Watchers!Delete, Tells
  <1> QED
    BY <1>2, <1>3, <1>4, <1>6, <1>7, <1>8

\* A detector tells nobody.
LEMMA DetectorKeeps ==
  ASSUME WatchersInv, NEW d \in Detectors, Watchers!Detect(d) \/ Watchers!WriteBack(d)
  PROVE  WatchersInv'
  <1> USE WatcherFacts DEF WatchersInv, Watchers!Unique, Watchers!Entries
  <1>1. CASE Watchers!Detect(d)
    <2>1. PICK detected \in SUBSET Watchers!Rows : copies' = [copies EXCEPT ![d] = detected]
      BY <1>1 DEF Watchers!Detect
    <2>2. Watchers!Rows \subseteq Watchers!Entries
      BY DEF Watchers!Rows, Watchers!Entries, WatcherTypes
    <2>3. copies' \in [Detectors -> SUBSET Watchers!Entries]
      BY <2>1, <2>2 DEF WatcherTypes
    <2>4. request' = request /\ UNCHANGED <<path, mainCtx, run, listed, Watchers!registry, raced>>
      BY <1>1 DEF Watchers!Detect
    <2>5. request' \in [Admins -> Watchers!Requests]
      BY <2>4 DEF WatcherTypes
    <2> HIDE DEF WatchersInv
    <2> QED
      BY <2>3, <2>4, <2>5, ReadsKeep
  <1>2. CASE Watchers!WriteBack(d)
    <2>1. PICK e \in copies[d] :
              /\ copies' = [copies EXCEPT ![d] = @ \ {e}] /\ request' = request
              /\ \/ Watchers!Written(e[1], e[2], FALSE, TRUE)
                 \/ UNCHANGED <<path, mainCtx, run, listed, Watchers!registry, raced>>
      BY <1>2 DEF Watchers!WriteBack
    <2>2. copies' \in [Detectors -> SUBSET Watchers!Entries] /\ e \in Watchers!Entries
      BY <2>1 DEF WatcherTypes
    <2>3. PICK l \in Libraries, p \in Watchers!Paths : l = e[1] /\ p = e[2]
      BY <2>2 DEF Watchers!Entries
    <2>4. request' \in [Admins -> Watchers!Requests]
      BY <2>1 DEF WatcherTypes
    <2>5. CASE Watchers!Written(l, p, FALSE, TRUE)
      <3> DEFINE nobody == CHOOSE a : a \notin Admins
      <3>1. nobody \notin Admins
        BY NoSetContainsEverything
      <3> HIDE DEF nobody, WatchersInv
      <3> QED
        BY <2>1, <2>2, <2>4, <2>5, <3>1, WrittenKeeps
    <2>6. CASE UNCHANGED <<path, mainCtx, run, listed, Watchers!registry, raced>>
      <3> HIDE DEF WatchersInv
      <3> QED
        BY <2>1, <2>2, <2>4, <2>6, ReadsKeep
    <2> QED
      BY <2>1, <2>3, <2>5, <2>6
  <1> QED
    BY <1>1, <1>2

\* What is told last is what the database says.
LEMMA TellKeeps ==
  ASSUME WatchersInv, NEW a \in Admins, Watchers!Tell(a)
  PROVE  WatchersInv'
  <1> USE WatcherFacts DEF WatchersInv, Watchers!Unique, Watchers!Entries
  <1> DEFINE l == request[a].lib
             p == request[a].path
  <1>1. /\ path' = path /\ copies' = copies /\ mainCtx' = mainCtx /\ run' = run
        /\ listed' = listed /\ raced' = raced
        /\ Tells(a) /\ request' = [request EXCEPT ![a] = Watchers!Idle]
    BY DEF Watchers!Tell, Watchers!Goes, Tells
  <1>2. request' \in [Admins -> Watchers!Requests]
    <2>1. Watchers!Idle \in Watchers!Requests
      BY DEF Watchers!Requests
    <2> QED
      BY <1>1, <2>1 DEF WatcherTypes
  <1>3. request'[a] = Watchers!Idle /\ \A b \in Admins \ {a} : request'[b] = request[b]
    BY <1>1 DEF WatcherTypes
  <1>4. ToldIsStored'
    <2>1. ~Tells(a)'
      BY <1>3 DEF Tells, Watchers!Idle, Watchers!Request
    <2> QED
      BY <1>1, <1>3, <2>1 DEF ToldIsStored, Tells
  <1>5. /\ l \in Libraries /\ (l \in raced \/ p = path[l])
        /\ request[a].op = "watch" => p \in Watchers!Paths
    BY <1>1, RequestTypes DEF ToldIsStored, Tells
  <1>6. CASE request[a].op = "watch"
    <2>1. Watchers!Watch(l, p)
      BY <1>1, <1>6 DEF Watchers!Tell, Watchers!Told, Tells
    <2>2. WatcherTypes' /\ Registry'
      BY <1>1, <1>2, <1>5, <1>6, <2>1, WatchReplaces DEF WatcherTypes, Registry
    <2>3. \A w \in Watchers!Active' : \/ Keeps(w) /\ lib[w] # l
                                      \/ lib'[w] = l /\ dir'[w] = p
      BY <1>5, <1>6, <2>1, WatchReplaces
    <2>4. Corrected'
      <3>1. \A w \in Watchers!Active' : \/ Keeps(w) /\ (a \in Admins => ~Concerns(a, lib[w]))
                                        \/ lib'[w] = l /\ dir'[w] = p
        BY <2>3 DEF Concerns
      <3>2. Corrected /\ UNCHANGED <<path, raced>>
        BY <1>1
      <3> HIDE DEF l, p, WatchersInv
      <3> QED
        BY <1>3, <1>5, <3>1, <3>2, StillCorrected
    <2> QED
      BY <1>4, <2>2, <2>4
  <1>7. CASE request[a].op # "watch"
    <2>1. Watchers!StopWatching(l)
      BY <1>1, <1>7 DEF Watchers!Tell, Watchers!Told, Tells
    <2>2. /\ cancelled' = cancelled \cup Watchers!Registered(l)
          /\ libraryWatchers' = [libraryWatchers EXCEPT ![l] = Watchers!None]
          /\ watchers' = watchers /\ lib' = lib /\ dir' = dir /\ ended' = ended
      BY <2>1 DEF Watchers!StopWatching
    <2>3. /\ libraryWatchers' \in [Libraries -> 0 .. watchers]
          /\ \A k \in Libraries : libraryWatchers'[k] \in {libraryWatchers[k], Watchers!None}
          /\ \A k \in Libraries \ {l} : libraryWatchers'[k] = libraryWatchers[k]
      BY <1>5, <2>2 DEF WatcherTypes
    <2>4. cancelled' \subseteq 1 .. watchers
      <3>1. Watchers!Registered(l) \subseteq 1 .. watchers
        BY <1>5 DEF WatcherTypes, Watchers!Registered
      <3> QED
        BY <2>2, <3>1 DEF WatcherTypes
    <2>5. ASSUME NEW w \in Watchers!Active'
          PROVE  w \in Watchers!Active /\ lib[w] \in Libraries /\ lib[w] # l
      <3>1. w \in Watchers!Active /\ w \notin Watchers!Registered(l)
        BY <2>2 DEF Watchers!Active
      <3>2. libraryWatchers[lib[w]] = w /\ w # Watchers!None /\ lib[w] \in Libraries
        BY <3>1 DEF Registry, Watchers!ActiveIsRegistered, Watchers!Active, WatcherTypes
      <3> QED
        BY <3>1, <3>2 DEF Watchers!Registered
    <2>6. /\ \A k \in Libraries :
                libraryWatchers'[k] # Watchers!None => lib'[libraryWatchers'[k]] = k
          /\ Watchers!ActiveIsRegistered' /\ \A w \in Watchers!Active' : Keeps(w)
      <3>1. ended' \subseteq 1 .. watchers
        BY <2>2 DEF WatcherTypes
      <3>2. \A w \in Watchers!Active' : libraryWatchers'[lib[w]] = libraryWatchers[lib[w]]
        BY <2>3, <2>5
      <3> QED
        BY <2>2, <2>3, <2>4, <3>1, <3>2, FewerWatchers
    <2>7. WatcherTypes'
      BY <1>1, <1>2, <2>2, <2>3, <2>4 DEF WatcherTypes
    <2>8. Registry'
      BY <1>1, <2>2, <2>6 DEF Registry
    <2>9. Corrected'
      <3>1. \A w \in Watchers!Active' : \/ Keeps(w) /\ (a \in Admins => ~Concerns(a, lib[w]))
                                        \/ lib'[w] = l /\ dir'[w] = p
        BY <2>5, <2>6 DEF Concerns
      <3>2. Corrected /\ UNCHANGED <<path, raced>>
        BY <1>1
      <3> HIDE DEF l, p, WatchersInv
      <3> QED
        BY <1>3, <1>5, <3>1, <3>2, StillCorrected
    <2> QED
      BY <1>4, <2>7, <2>8, <2>9
  <1> QED
    BY <1>6, <1>7

LEMMA WatchersStep ==
  ASSUME WatchersInv, Watchers!Next
  PROVE  WatchersInv'
  BY RunKeeps, EndKeeps, ShutdownKeeps, RequestKeeps, TellKeeps, DetectorKeeps DEF Watchers!Next

LEMMA InitWatchers ==
  ASSUME Init
  PROVE  WatchersInv
  <1> USE WatcherFacts
  <1>1. Watchers!Init
    BY DEF Init
  <1>2. Watchers!Active = {} /\ watchers = 0 /\ mainCtx = "nil" /\ listed = {}
    BY <1>1 DEF Watchers!Init, Watchers!Active
  <1>3. request \in [Admins -> Watchers!Requests] /\ \A a \in Admins : request[a] = Watchers!Idle
    BY <1>1 DEF Watchers!Init, Watchers!Requests
  <1>4. WatcherTypes
    BY <1>1, <1>3 DEF Watchers!Init, WatcherTypes
  <1>5. Registry
    BY <1>1, <1>2 DEF Watchers!Init, Registry, Watchers!ActiveIsRegistered
  <1>6. ToldIsStored /\ Corrected
    BY <1>2, <1>3 DEF ToldIsStored, Corrected, Tells, Watchers!Idle, Watchers!Request
  <1> QED
    BY <1>4, <1>5, <1>6 DEF WatchersInv

LEMMA WatchersHold == Spec => [](component = "watchers" => WatchersInv)
  <1> DEFINE Inv == component = "watchers" => WatchersInv
  <1>1. Init => Inv
    BY InitWatchers
  <1>2. Inv /\ [Next]_vars => Inv'
    <2> SUFFICES ASSUME Inv, [Next]_vars, component' = "watchers"
                 PROVE  WatchersInv'
      OBVIOUS
    <2>1. component = "watchers" /\ WatchersInv
      BY DEF Next, vars
    <2>2. CASE Next
      <3>1. Watchers!Next
        BY <2>1, <2>2 DEF Next
      <3> QED
        BY <2>1, <3>1, WatchersStep
    <2>3. CASE UNCHANGED vars
      <3>1. UNCHANGED watcherVars
        BY <2>3 DEF vars, devices
      <3> QED
        BY <2>1, <3>1
           DEF watcherVars, WatchersInv, WatcherTypes, Registry, ToldIsStored, Corrected, Concerns,
               Tells, Watchers!ActiveIsRegistered, Watchers!Active, Watchers!Unique
    <2> QED
      BY <2>2, <2>3
  <1> QED
    BY <1>1, <1>2, PTL DEF Spec

\* However requests, Run and failing watchers interleave: a watcher that works is the
\* registered one, so that it can be stopped, and watches what the database says when no
\* request is under way, unless the path was last changed by a stale row or a request that
\* failed, or before another had told its own (scanner/watcher.go, core/library.go).
THEOREM WatchedAsStoredHolds == Spec => []WatchedAsStored
  <1> DEFINE Inv == component = "watchers" => WatchersInv
  <1>1. Inv => WatchedAsStored
    <2> SUFFICES ASSUME WatchersInv
                 PROVE  Watchers!ActiveIsRegistered /\ Watchers!WatchedAsStored
      BY DEF WatchedAsStored
    <2> QED
      BY DEF WatchersInv, Registry, Corrected, Concerns, Tells, Watchers!WatchedAsStored,
             Watchers!Idle, Watchers!Request
  <1> QED
    BY <1>1, WatchersHold, PTL

-----------------------------------------------------------------------------
(* The switches of the gateways *)

SwitchTypes ==
    /\ states \in Switches!Flags /\ wanted \in [Gateways -> BOOLEAN]
    /\ switch \in [Admins -> {Switches!Idle} \cup Switches!Requests]
    /\ overlaps \in BOOLEAN /\ unread \in BOOLEAN

\* Until two requests meet or a read fails, the one that is under way has read what is stored.
SwitchesInv ==
    /\ SwitchTypes
    /\ ~overlaps /\ ~unread =>
        /\ Switches!Disabled(states) = {g \in Gateways : ~wanted[g]}
        /\ \A a \in Admins : switch[a].at # "idle" =>
               /\ switch[a].read = states
               /\ \A b \in Admins : switch[b].at # "idle" => b = a

\* Flags are some gateways'.
LEMMA FlagsAre ==
  ASSUME NEW flags
  PROVE  flags \in Switches!Flags
             <=> \E G \in SUBSET Gateways : flags \in [G -> BOOLEAN]
  <1>1. flags \in Switches!Flags
            <=> \E F \in {[G -> BOOLEAN] : G \in SUBSET Gateways} : flags \in F
    BY DEF Switches!Flags
  <1> QED
    BY <1>1

LEMMA SwitchesStep ==
  ASSUME SwitchesInv, Switches!Next
  PROVE  SwitchesInv'
  <1>1. PICK a \in Admins :
            Switches!Puts(a) \/ \E g \in Gateways, on \in BOOLEAN : Switches!Loads(a, g, on)
    BY DEF Switches!Next
  <1>2. Switches!Idle \in {Switches!Idle} \cup Switches!Requests /\ Switches!Idle.at = "idle"
    BY DEF Switches!Idle
  <1>3. CASE Switches!Puts(a)
    <2> DEFINE r == switch[a]
    <2>1. /\ r.at = "put" /\ switch' = [switch EXCEPT ![a] = Switches!Idle]
          /\ overlaps' = overlaps /\ unread' = unread
          /\ \/ states' = Switches!Set(r) /\ wanted' = [wanted EXCEPT ![r.gateway] = r.on]
             \/ states' = states /\ wanted' = wanted
      BY <1>3 DEF Switches!Puts
    <2>2. r \in Switches!Requests
      BY <1>2, <2>1 DEF SwitchesInv, SwitchTypes
    <2>3. r.gateway \in Gateways /\ r.on \in BOOLEAN
      BY <2>2 DEF Switches!Requests
    <2>4. /\ switch' \in [Admins -> {Switches!Idle} \cup Switches!Requests]
          /\ switch'[a] = Switches!Idle /\ \A b \in Admins \ {a} : switch'[b] = switch[b]
      BY <1>2, <2>1 DEF SwitchesInv, SwitchTypes
    <2>5. wanted' \in [Gateways -> BOOLEAN]
      BY <2>1, <2>3 DEF SwitchesInv, SwitchTypes
    <2>a. states' \in Switches!Flags
      <3>1. CASE states' = states
        BY <3>1 DEF SwitchesInv, SwitchTypes
      <3>2. CASE states' = Switches!Set(r)
        <4>1. r.read \in Switches!Flags
          BY <2>2 DEF Switches!Requests
        <4>2. PICK G \in SUBSET Gateways : r.read \in [G -> BOOLEAN]
          BY <4>1, FlagsAre
        <4>3. states' = [g \in G \cup {r.gateway} |-> IF g = r.gateway THEN r.on ELSE r.read[g]]
          BY <3>2, <4>2 DEF Switches!Set
        <4>4. states' \in [G \cup {r.gateway} -> BOOLEAN] /\ G \cup {r.gateway} \in SUBSET Gateways
          BY <2>3, <4>2, <4>3
        <4> QED
          BY <4>4, FlagsAre
      <3> QED
        BY <2>1, <3>1, <3>2
    <2>6. SwitchTypes'
      BY <2>1, <2>4, <2>5, <2>a DEF SwitchesInv, SwitchTypes
    <2>7. ASSUME ~overlaps, ~unread
          PROVE  /\ Switches!Disabled(states') = {g \in Gateways : ~wanted'[g]}
                 /\ \A b \in Admins : switch'[b].at = "idle"
      <3>1. /\ Switches!Disabled(states) = {g \in Gateways : ~wanted[g]}
            /\ r.read = states /\ \A b \in Admins : switch[b].at # "idle" => b = a
        BY <2>1, <2>7 DEF SwitchesInv
      <3>2. \A b \in Admins : switch'[b].at = "idle"
        BY <1>2, <2>4, <3>1
      <3>3. CASE states' = Switches!Set(r) /\ wanted' = [wanted EXCEPT ![r.gateway] = r.on]
        <4>1. states' = [g \in DOMAIN states \cup {r.gateway} |->
                            IF g = r.gateway THEN r.on ELSE states[g]]
          BY <3>1, <3>3 DEF Switches!Set
        <4>2. \A g : g \in Switches!Disabled(states) <=> g \in DOMAIN states /\ ~states[g]
          BY DEF Switches!Disabled
        <4>3. \A g : g \in Switches!Disabled(states') <=> g \in DOMAIN states' /\ ~states'[g]
          BY DEF Switches!Disabled
        <4>4. /\ DOMAIN states' = DOMAIN states \cup {r.gateway} /\ states'[r.gateway] = r.on
              /\ \A g \in DOMAIN states : g # r.gateway => states'[g] = states[g]
          BY <4>1
        <4>5. /\ wanted'[r.gateway] = r.on
              /\ \A g \in Gateways : g # r.gateway => wanted'[g] = wanted[g]
          BY <2>3, <3>3 DEF SwitchesInv, SwitchTypes
        <4>6. \A g : g \in Switches!Disabled(states') <=> g \in Gateways /\ ~wanted'[g]
          BY <2>3, <3>1, <4>2, <4>3, <4>4, <4>5
        <4> QED
          BY <3>2, <4>6
      <3>4. CASE states' = states /\ wanted' = wanted
        BY <3>1, <3>2, <3>4
      <3> QED
        BY <2>1, <3>3, <3>4
    <2> QED
      BY <2>1, <2>6, <2>7 DEF SwitchesInv
  <1>4. ASSUME NEW g \in Gateways, NEW on \in BOOLEAN, Switches!Loads(a, g, on)
        PROVE  SwitchesInv'
    <2>1. PICK read \in {states, Switches!NoFlags} :
              /\ switch' = [switch EXCEPT ![a] =
                               [at |-> "put", gateway |-> g, on |-> on, read |-> read]]
              /\ unread' = (unread \/ read # states)
      BY <1>4 DEF Switches!Loads
    <2>2. /\ switch[a].at = "idle" /\ states' = states /\ wanted' = wanted
          /\ overlaps' = (overlaps \/ \E b \in Admins : switch[b].at # "idle")
      BY <1>4 DEF Switches!Loads
    <2>3. read \in Switches!Flags
      <3>1. Switches!NoFlags \in [{} -> BOOLEAN] /\ {} \in SUBSET Gateways
        BY DEF Switches!NoFlags
      <3>2. Switches!NoFlags \in Switches!Flags
        BY <3>1, FlagsAre
      <3> QED
        BY <3>2 DEF SwitchesInv, SwitchTypes
    <2> DEFINE asks == [at |-> "put", gateway |-> g, on |-> on, read |-> read]
    <2>4. asks \in Switches!Requests
      BY <1>4, <2>3 DEF Switches!Requests
    <2>5. /\ switch' \in [Admins -> {Switches!Idle} \cup Switches!Requests]
          /\ switch'[a] = asks /\ \A b \in Admins \ {a} : switch'[b] = switch[b]
      BY <2>1, <2>4 DEF SwitchesInv, SwitchTypes
    <2>6. overlaps' \in BOOLEAN
      BY <2>2
    <2>7. unread' \in BOOLEAN
      BY <2>1
    <2>8. SwitchTypes'
      BY <2>2, <2>5, <2>6, <2>7 DEF SwitchesInv, SwitchTypes
    <2>9. ASSUME ~overlaps', ~unread'
          PROVE  /\ ~overlaps /\ ~unread /\ read = states
                 /\ \A b \in Admins : switch[b].at = "idle"
      BY <2>1, <2>2, <2>9
    <2>10. ASSUME ~overlaps', ~unread'
           PROVE  /\ Switches!Disabled(states') = {h \in Gateways : ~wanted'[h]}
                  /\ \A b \in Admins : switch'[b].at # "idle" =>
                         /\ switch'[b].read = states'
                         /\ \A c \in Admins : switch'[c].at # "idle" => c = b
      <3>1. Switches!Disabled(states') = {h \in Gateways : ~wanted'[h]}
        BY <2>2, <2>9, <2>10 DEF SwitchesInv, Switches!Disabled
      <3>2. \A b \in Admins : switch'[b].at # "idle" => b = a
        BY <2>5, <2>9, <2>10
      <3>3. switch'[a].read = states'
        BY <2>2, <2>5, <2>9, <2>10
      <3> QED
        BY <3>1, <3>2, <3>3
    <2> QED
      BY <2>8, <2>10 DEF SwitchesInv
  <1> QED
    BY <1>1, <1>3, <1>4

LEMMA InitSwitches ==
  ASSUME Init
  PROVE  SwitchesInv
  <1>1. Switches!Init
    BY DEF Init
  <1>2. states \in [{} -> BOOLEAN] /\ {} \in SUBSET Gateways /\ DOMAIN states = {}
    BY <1>1 DEF Switches!Init, Switches!NoFlags
  <1>3. states \in Switches!Flags
    BY <1>2, FlagsAre
  <1>4. \A a \in Admins : switch[a] = Switches!Idle /\ switch[a].at = "idle"
    BY <1>1 DEF Switches!Init, Switches!Idle
  <1>5. SwitchTypes
    BY <1>1, <1>3 DEF Switches!Init, SwitchTypes
  <1>6. \A g \in Gateways : wanted[g] = TRUE
    BY <1>1 DEF Switches!Init
  <1>7. Switches!Disabled(states) = {} /\ {g \in Gateways : ~wanted[g]} = {}
    BY <1>2, <1>6 DEF Switches!Disabled
  <1> QED
    BY <1>4, <1>5, <1>7 DEF SwitchesInv

-----------------------------------------------------------------------------
(* The links of the cloud *)

LinkTypes ==
    /\ issued \in 0 .. MaxLinks /\ reports \in BOOLEAN
    /\ near \subseteq 1 .. issued /\ dead \subseteq 1 .. issued
    /\ link \in 0 .. issued /\ (link # Links!None => reports)
    /\ flight \in [at : {"none", "get", "ask", "put", "end"}, link : 0 .. issued]
    /\ waiting = {c \in Links!Callers : at[c] = "wait"}
    /\ (flight = Links!NoCall => waiting = {})
    /\ rawURL \in [Handles -> 0 .. issued]
    /\ at \in [Links!Callers -> Links!Pcs]
    /\ hasFailed \in [Handles -> 0 .. issued]
    /\ forgotten \subseteq 1 .. issued /\ late \subseteq Handles

\* A handle has a link whenever it fetches, and knows that it has failed from its failure to
\* the end of its read.
FailureIsKnown ==
    \A h \in Handles :
        /\ at[h] \in {"fetch", "drop", "retry"} => rawURL[h] # Links!None
        /\ at[h] \in {"idle", "fetch"} => hasFailed[h] = Links!None
        /\ at[h] = "drop" => hasFailed[h] # Links!None
        /\ at[h] \in {"get", "do", "wait", "retry"} /\ hasFailed[h] # Links!None =>
               hasFailed[h] \in forgotten

\* A link that has just been issued is nobody's yet, and a call that a handle shares brings it
\* another link than the one that has failed.
AnswersAreNew ==
    /\ flight.at = "put" =>
           /\ flight.link \notin forgotten \cup {Links!None, link}
           /\ \A h \in Handles : flight.link \notin {rawURL[h], hasFailed[h]}
    /\ flight.at = "end" =>
           \A h \in Handles : at[h] = "wait" /\ hasFailed[h] # Links!None /\ h \notin late =>
               flight.link # hasFailed[h]

LinksInv == LinkTypes /\ FailureIsKnown /\ AnswersAreNew /\ Links!FailedIsNotServed

LEMMA LinkFacts ==
  ASSUME TRUE
  PROVE  /\ MaxLinks \in Nat /\ Links!None = 0 /\ Handles \cap Players = {}
         /\ Links!Callers = Handles \cup Players /\ Links!Links = 1 .. MaxLinks
         /\ Links!Pcs = {"idle", "get", "do", "wait", "fetch", "drop", "retry"}
         /\ Links!NoCall = [at |-> "none", link |-> 0]
  BY ResourcesAssumption
     DEF Links!LinksAssumption, Links!None, Links!Callers, Links!Links, Links!Pcs, Links!NoCall

\* What the callers of Obtain have when they go on.
Onwards(callers, l) ==
    /\ at' \in [Links!Callers -> Links!Pcs]
    /\ rawURL' \in [Handles -> 0 .. issued] /\ hasFailed' \in [Handles -> 0 .. issued]
    /\ \A c \in Links!Callers \ callers : at'[c] = at[c]
    /\ \A c \in callers : at'[c] \in {"idle", "fetch", "retry"}
    /\ \A h \in Handles \ callers : rawURL'[h] = rawURL[h] /\ hasFailed'[h] = hasFailed[h]
    /\ l = Links!None => \A h \in Handles \cap callers :
           at'[h] = "idle" /\ rawURL'[h] = rawURL[h] /\ hasFailed'[h] = Links!None
    /\ l # Links!None => \A h \in Handles \cap callers :
           /\ rawURL'[h] = l /\ hasFailed'[h] = hasFailed[h]
           /\ at'[h] = IF hasFailed[h] # Links!None THEN "retry" ELSE "fetch"

LEMMA Obtained ==
  ASSUME LinkTypes, NEW callers \in SUBSET Links!Callers, NEW l \in 0 .. issued,
         Links!Obtain(callers, l)
  PROVE  Onwards(callers, l)
  <1> USE LinkFacts
  <1>1. at' = [c \in Links!Callers |->
                 IF c \notin callers THEN at[c]
                 ELSE IF c \in Players \/ l = Links!None THEN "idle"
                 ELSE IF hasFailed[c] # Links!None THEN "retry" ELSE "fetch"]
    BY DEF Links!Obtain
  <1>2. rawURL' = [h \in Handles |-> IF h \in callers /\ l # Links!None THEN l ELSE rawURL[h]]
    BY DEF Links!Obtain
  <1>3. hasFailed' = [h \in Handles |-> IF h \in callers /\ l = Links!None THEN Links!None
                                        ELSE hasFailed[h]]
    BY DEF Links!Obtain
  <1>4. at' \in [Links!Callers -> Links!Pcs]
    BY <1>1 DEF LinkTypes
  <1>5. rawURL' \in [Handles -> 0 .. issued]
    BY <1>2 DEF LinkTypes
  <1>6. hasFailed' \in [Handles -> 0 .. issued]
    BY <1>3 DEF LinkTypes
  <1>7. /\ \A c \in Links!Callers \ callers : at'[c] = at[c]
        /\ \A c \in callers : at'[c] \in {"idle", "fetch", "retry"}
    BY <1>1
  <1>8. ASSUME NEW h \in Handles
        PROVE  /\ h \notin callers => rawURL'[h] = rawURL[h] /\ hasFailed'[h] = hasFailed[h]
               /\ h \in callers /\ l = Links!None =>
                      at'[h] = "idle" /\ rawURL'[h] = rawURL[h] /\ hasFailed'[h] = Links!None
               /\ h \in callers /\ l # Links!None =>
                      /\ rawURL'[h] = l /\ hasFailed'[h] = hasFailed[h]
                      /\ at'[h] = IF hasFailed[h] # Links!None THEN "retry" ELSE "fetch"
    BY <1>1, <1>2, <1>3
  <1> QED
    BY <1>4, <1>5, <1>6, <1>7, <1>8 DEF Onwards

\* Links age and die, and the call of the group asks the gateway for another.
LEMMA GatewayKeeps ==
  ASSUME LinksInv,
         \/ \E l \in Links!Links : Links!Expires(l) \/ Links!Dies(l)
         \/ Links!GetAgain \/ Links!Resolve \/ Links!ResolveFails \/ Links!Put
  PROVE  LinksInv'
  <1> USE LinkFacts DEF LinksInv
  <1>1. /\ waiting' = waiting /\ rawURL' = rawURL /\ at' = at /\ hasFailed' = hasFailed
        /\ forgotten' = forgotten /\ late' = late /\ reports' = reports
    BY DEF Links!Expires, Links!Dies, Links!GetAgain, Links!Resolve, Links!ResolveFails, Links!Put,
           Links!gateway, Links!group
  <1>2. CASE \E l \in Links!Links : Links!Expires(l) \/ Links!Dies(l)
    <2>1. /\ issued' = issued /\ link' = link /\ flight' = flight
          /\ near' \subseteq 1 .. issued /\ dead' \subseteq 1 .. issued
      <3>1. PICK l \in 1 .. MaxLinks : Links!Expires(l) \/ Links!Dies(l)
        BY <1>2
      <3>2. l \in 1 .. issued /\ issued' = issued /\ link' = link /\ flight' = flight
        BY <3>1 DEF Links!Expires, Links!Dies, Links!group, LinkTypes
      <3>3. near' \in {near, near \cup {l}} /\ dead' \in {dead, dead \cup {l}}
        BY <3>1 DEF Links!Expires, Links!Dies
      <3> QED
        BY <3>2, <3>3 DEF LinkTypes
    <2>2. LinkTypes'
      BY <1>1, <2>1 DEF LinkTypes
    <2> QED
      BY <1>1, <2>1, <2>2 DEF FailureIsKnown, AnswersAreNew, Links!FailedIsNotServed
  <1>3. CASE Links!GetAgain
    <2>1. /\ issued' = issued /\ near' = near /\ dead' = dead /\ flight.at = "get"
          /\ \/ flight' = [at |-> "end", link |-> link] /\ link' = link /\ link # Links!None
             \/ flight' = [at |-> "ask", link |-> Links!None] /\ link' = Links!None
      BY <1>3 DEF Links!GetAgain, Links!gateway, Links!Usable
    <2>2. LinkTypes'
      BY <1>1, <2>1 DEF LinkTypes
    <2>3. FailureIsKnown'
      BY <1>1 DEF FailureIsKnown
    <2>4. AnswersAreNew'
      BY <1>1, <2>1 DEF FailureIsKnown, AnswersAreNew, Links!FailedIsNotServed
    <2>5. Links!FailedIsNotServed'
      BY <1>1, <2>1 DEF LinkTypes, Links!FailedIsNotServed
    <2> QED
      BY <2>2, <2>3, <2>4, <2>5
  <1>4. CASE Links!Resolve
    <2>1. /\ issued' = issued + 1 /\ issued < MaxLinks /\ near' = near /\ link' = link
          /\ dead' \in {dead, dead \cup 1 .. issued} /\ flight.at = "ask"
          /\ flight' = [at |-> "put", link |-> issued']
      BY <1>4 DEF Links!Resolve
    <2>2. /\ issued' \in 0 .. MaxLinks /\ issued' \in 0 .. issued'
          /\ 0 .. issued \subseteq 0 .. issued' /\ 1 .. issued \subseteq 1 .. issued'
          /\ issued' \notin 0 .. issued /\ issued' \notin 1 .. issued /\ issued' # 0
      BY <2>1 DEF LinkTypes
    <2>3. /\ rawURL' \in [Handles -> 0 .. issued'] /\ hasFailed' \in [Handles -> 0 .. issued']
          /\ near' \subseteq 1 .. issued' /\ dead' \subseteq 1 .. issued' /\ link' \in 0 .. issued'
          /\ forgotten' \subseteq 1 .. issued'
      BY <1>1, <2>1, <2>2 DEF LinkTypes
    <2>4. /\ flight' \in [at : {"none", "get", "ask", "put", "end"}, link : 0 .. issued']
          /\ flight' # Links!NoCall
      BY <2>1, <2>2
    <2>5. LinkTypes'
      BY <1>1, <2>1, <2>2, <2>3, <2>4 DEF LinkTypes
    <2>6. FailureIsKnown' /\ Links!FailedIsNotServed'
      BY <1>1, <2>1 DEF FailureIsKnown, Links!FailedIsNotServed
    <2>7. /\ flight'.link \notin forgotten \cup {Links!None, link}
          /\ \A h \in Handles : flight'.link \notin {rawURL[h], hasFailed[h]}
      BY <2>1, <2>2 DEF LinkTypes
    <2>8. AnswersAreNew'
      BY <1>1, <2>1, <2>7 DEF AnswersAreNew
    <2> QED
      BY <2>5, <2>6, <2>8
  <1>5. CASE Links!ResolveFails
    <2>1. /\ issued' = issued /\ near' = near /\ dead' = dead /\ link' = link
          /\ flight' = [at |-> "end", link |-> Links!None]
      BY <1>5 DEF Links!ResolveFails, Links!gateway
    <2>2. LinkTypes'
      BY <1>1, <2>1 DEF LinkTypes
    <2>3. FailureIsKnown' /\ Links!FailedIsNotServed'
      BY <1>1, <2>1 DEF FailureIsKnown, Links!FailedIsNotServed
    <2>4. AnswersAreNew'
      BY <1>1, <2>1 DEF AnswersAreNew
    <2> QED
      BY <2>2, <2>3, <2>4
  <1>6. CASE Links!Put
    <2>1. /\ issued' = issued /\ near' = near /\ dead' = dead /\ flight.at = "put"
          /\ link' = IF reports THEN flight.link ELSE link
          /\ flight' = [flight EXCEPT !.at = "end"]
      BY <1>6 DEF Links!Put, Links!gateway
    <2>2. /\ flight'.at = "end" /\ flight'.link = flight.link
          /\ flight' \in [at : {"none", "get", "ask", "put", "end"}, link : 0 .. issued]
      BY <2>1 DEF LinkTypes
    <2>3. link' \in 0 .. issued /\ (link' # Links!None => reports) /\ flight' # Links!NoCall
      BY <2>1, <2>2 DEF LinkTypes
    <2>4. LinkTypes'
      BY <1>1, <2>1, <2>2, <2>3 DEF LinkTypes
    <2>5. FailureIsKnown'
      BY <1>1 DEF FailureIsKnown
    <2>6. AnswersAreNew'
      BY <1>1, <2>1, <2>2 DEF AnswersAreNew
    <2>7. Links!FailedIsNotServed'
      BY <1>1, <2>1 DEF AnswersAreNew, Links!FailedIsNotServed
    <2> QED
      BY <2>4, <2>5, <2>6, <2>7
  <1> QED
    BY <1>2, <1>3, <1>4, <1>5, <1>6

\* One looks into the cache, or gets what the call brings.
LEMMA ObtainKeeps ==
  ASSUME LinksInv, Links!Finish \/ \E c \in Links!Callers : Links!Get(c)
  PROVE  LinksInv'
  <1> USE LinkFacts DEF LinksInv
  <1>1. /\ issued' = issued /\ near' = near /\ dead' = dead /\ reports' = reports
        /\ forgotten' = forgotten /\ late' = late
    BY DEF Links!Finish, Links!Get, Links!gateway
  <1>2. CASE Links!Finish
    <2>1. /\ link' = link /\ flight.at = "end" /\ Links!Obtain(waiting, flight.link)
          /\ flight' = Links!NoCall /\ waiting' = {}
      BY <1>2 DEF Links!Finish
    <2>2. waiting \in SUBSET Links!Callers /\ flight.link \in 0 .. issued /\ LinkTypes
      BY DEF LinkTypes
    <2>3. Onwards(waiting, flight.link)
      BY ONLY <2>1, <2>2, Obtained
    <2>4. \A c \in Links!Callers : at'[c] # "wait"
      BY <2>3 DEF LinkTypes, Onwards
    <2>5. LinkTypes'
      BY <1>1, <2>1, <2>3, <2>4 DEF LinkTypes, Onwards
    <2>6. \A h \in Handles \cap waiting : at[h] = "wait"
      BY DEF LinkTypes
    <2>7. FailureIsKnown'
      <3> SUFFICES ASSUME NEW h \in Handles
                   PROVE  /\ at'[h] \in {"fetch", "drop", "retry"} => rawURL'[h] # Links!None
                          /\ at'[h] \in {"idle", "fetch"} => hasFailed'[h] = Links!None
                          /\ at'[h] = "drop" => hasFailed'[h] # Links!None
                          /\ at'[h] \in {"get", "do", "wait", "retry"}
                             /\ hasFailed'[h] # Links!None => hasFailed'[h] \in forgotten
        BY <1>1 DEF FailureIsKnown
      <3>1. /\ at[h] \in {"fetch", "drop", "retry"} => rawURL[h] # Links!None
            /\ at[h] \in {"idle", "fetch"} => hasFailed[h] = Links!None
            /\ at[h] = "drop" => hasFailed[h] # Links!None
            /\ at[h] \in {"get", "do", "wait", "retry"} /\ hasFailed[h] # Links!None =>
                   hasFailed[h] \in forgotten
        BY DEF FailureIsKnown
      <3>2. CASE h \in waiting
        <4>1. at[h] = "wait"
          BY <2>6, <3>2
        <4>2. CASE flight.link = Links!None
          BY <2>3, <3>2, <4>2 DEF Onwards
        <4>3. CASE flight.link # Links!None
          BY <2>3, <3>1, <3>2, <4>1, <4>3 DEF Onwards
        <4> QED
          BY <4>2, <4>3
      <3>3. CASE h \notin waiting
        <4>1. at'[h] = at[h] /\ rawURL'[h] = rawURL[h] /\ hasFailed'[h] = hasFailed[h]
          BY <2>3, <3>3 DEF Onwards, Links!Callers
        <4> QED
          BY <3>1, <4>1
      <3> QED
        BY <3>2, <3>3
    <2>8. AnswersAreNew'
      BY <2>1 DEF AnswersAreNew
    <2>9. Links!FailedIsNotServed'
      BY <1>1, <2>1, <2>3, <2>6 DEF Onwards, FailureIsKnown, AnswersAreNew, Links!FailedIsNotServed
    <2> QED
      BY <2>5, <2>7, <2>8, <2>9
  <1>3. ASSUME NEW c \in Links!Callers, Links!Get(c)
        PROVE  LinksInv'
    <2>1. at[c] = "get" /\ flight' = flight /\ waiting' = waiting
      BY <1>3 DEF Links!Get, Links!group
    <2>2. CASE Links!Usable # {}
      <3>1. link # Links!None /\ link \in 0 .. issued
        BY <2>2 DEF Links!Usable, LinkTypes
      <3>2. Links!Obtain({c}, link) /\ link' = link
        BY <1>3, <2>2 DEF Links!Get
      <3>3. /\ at' \in [Links!Callers -> Links!Pcs]
            /\ rawURL' \in [Handles -> 0 .. issued] /\ hasFailed' \in [Handles -> 0 .. issued]
            /\ \A d \in Links!Callers \ {c} : at'[d] = at[d]
            /\ at'[c] \in {"idle", "fetch", "retry"}
            /\ \A h \in Handles \ {c} : rawURL'[h] = rawURL[h] /\ hasFailed'[h] = hasFailed[h]
            /\ c \in Handles =>
                 /\ rawURL'[c] = link /\ hasFailed'[c] = hasFailed[c]
                 /\ at'[c] = IF hasFailed[c] # Links!None THEN "retry" ELSE "fetch"
        <4>1. {c} \in SUBSET Links!Callers /\ LinkTypes
          BY <1>3
        <4>2. Onwards({c}, link)
          BY ONLY <4>1, <3>1, <3>2, Obtained
        <4> QED
          BY <3>1, <4>2 DEF Onwards
      <3>4. waiting = {d \in Links!Callers : at'[d] = "wait"}
        BY <2>1, <3>3 DEF LinkTypes
      <3>5. LinkTypes'
        BY <1>1, <2>1, <3>2, <3>3, <3>4 DEF LinkTypes
      <3>6. FailureIsKnown'
        BY <1>1, <2>1, <3>1, <3>3 DEF FailureIsKnown
      <3>7. AnswersAreNew'
        BY <1>1, <2>1, <3>2, <3>3 DEF AnswersAreNew
      <3>8. Links!FailedIsNotServed'
        BY <1>1, <2>1, <3>2, <3>3 DEF FailureIsKnown, Links!FailedIsNotServed
      <3> QED
        BY <3>5, <3>6, <3>7, <3>8
    <2>3. CASE Links!Usable = {}
      <3>1. /\ at' = [at EXCEPT ![c] = "do"] /\ link' = Links!None /\ rawURL' = rawURL
            /\ hasFailed' = hasFailed
        BY <1>3, <2>3 DEF Links!Get, Links!Goto
      <3>2. /\ at' \in [Links!Callers -> Links!Pcs] /\ at'[c] = "do"
            /\ \A d \in Links!Callers \ {c} : at'[d] = at[d]
        BY <1>3, <3>1 DEF LinkTypes
      <3>3. waiting = {d \in Links!Callers : at'[d] = "wait"}
        BY <2>1, <3>2 DEF LinkTypes
      <3>4. LinkTypes'
        BY <1>1, <2>1, <3>1, <3>2, <3>3 DEF LinkTypes
      <3>5. FailureIsKnown'
        BY <1>1, <2>1, <3>1, <3>2 DEF FailureIsKnown
      <3>6. AnswersAreNew'
        BY <1>1, <2>1, <3>1, <3>2 DEF AnswersAreNew
      <3>7. Links!FailedIsNotServed'
        BY <1>1, <3>1, <3>2 DEF Links!FailedIsNotServed, LinkTypes
      <3> QED
        BY <3>4, <3>5, <3>6, <3>7
    <2> QED
      BY <2>2, <2>3
  <1> QED
    BY <1>2, <1>3

\* One who joins a call that has its answer is late.
LEMMA DoKeeps ==
  ASSUME LinksInv, NEW c \in Links!Callers, Links!Do(c)
  PROVE  LinksInv'
  <1> USE LinkFacts DEF LinksInv
  <1>1. /\ issued' = issued /\ near' = near /\ dead' = dead /\ reports' = reports
        /\ link' = link /\ rawURL' = rawURL /\ hasFailed' = hasFailed /\ forgotten' = forgotten
        /\ at[c] = "do" /\ at' = [at EXCEPT ![c] = "wait"] /\ waiting' = waiting \cup {c}
        /\ flight' = IF flight = Links!NoCall THEN [Links!NoCall EXCEPT !.at = "get"] ELSE flight
        /\ late' = IF flight.at = "end" THEN late \cup ({c} \cap Handles) ELSE late \ {c}
    BY DEF Links!Do, Links!Goto, Links!gateway
  <1>2. /\ at' \in [Links!Callers -> Links!Pcs] /\ at'[c] = "wait"
        /\ \A d \in Links!Callers \ {c} : at'[d] = at[d]
    BY <1>1 DEF LinkTypes
  <1>3. waiting' = {d \in Links!Callers : at'[d] = "wait"}
    BY <1>1, <1>2 DEF LinkTypes
  <1>4. \/ flight' = flight /\ flight # Links!NoCall
        \/ flight' = [at |-> "get", link |-> Links!None]
    BY <1>1
  <1>5. /\ flight' \in [at : {"none", "get", "ask", "put", "end"}, link : 0 .. issued]
        /\ flight' # Links!NoCall
    BY <1>4 DEF LinkTypes
  <1>6. /\ late' \subseteq Handles /\ \A h \in Handles \ {c} : h \in late' <=> h \in late
        /\ c \in Handles /\ flight.at = "end" => c \in late'
    BY <1>1 DEF LinkTypes
  <1>7. LinkTypes'
    BY <1>1, <1>2, <1>3, <1>5, <1>6 DEF LinkTypes
  <1>8. FailureIsKnown'
    BY <1>1, <1>2 DEF FailureIsKnown
  <1>9. AnswersAreNew'
    BY <1>1, <1>2, <1>4, <1>6 DEF AnswersAreNew
  <1>10. Links!FailedIsNotServed'
    BY <1>1, <1>2, <1>6 DEF Links!FailedIsNotServed
  <1> QED
    BY <1>7, <1>8, <1>9, <1>10

\* What a step of a caller that waits for no call changes of them.
LEMMA Moved ==
  ASSUME LinkTypes, NEW c \in Links!Callers, NEW to \in Links!Pcs \ {"wait"},
         at[c] # "wait", Links!Goto(c, to)
  PROVE  /\ at' \in [Links!Callers -> Links!Pcs] /\ at'[c] = to
         /\ \A d \in Links!Callers \ {c} : at'[d] = at[d]
         /\ waiting = {d \in Links!Callers : at'[d] = "wait"}
  <1>1. /\ at' \in [Links!Callers -> Links!Pcs] /\ at'[c] = to
        /\ \A d \in Links!Callers \ {c} : at'[d] = at[d]
    BY DEF LinkTypes, Links!Goto
  <1> QED
    BY <1>1 DEF LinkTypes

\* Handles and players are different callers.
LEMMA PlayKeeps ==
  ASSUME LinksInv, NEW p \in Players, Links!Play(p)
  PROVE  LinksInv'
  <1> USE DEF LinksInv
  <1>1. /\ issued' = issued /\ near' = near /\ dead' = dead /\ reports' = reports
        /\ flight' = flight /\ waiting' = waiting /\ link' = link /\ rawURL' = rawURL
        /\ hasFailed' = hasFailed /\ forgotten' = forgotten /\ late' = late
    BY DEF Links!Play, Links!gateway, Links!group
  <1>2. /\ p \in Links!Callers /\ "get" \in Links!Pcs \ {"wait"} /\ at[p] # "wait"
        /\ Links!Goto(p, "get")
    BY LinkFacts DEF Links!Play
  <1>3. /\ at' \in [Links!Callers -> Links!Pcs] /\ at'[p] = "get"
        /\ \A d \in Links!Callers \ {p} : at'[d] = at[d]
        /\ waiting = {d \in Links!Callers : at'[d] = "wait"}
    BY <1>2, Moved
  <1>4. \A h \in Handles : at'[h] = at[h]
    BY <1>3, LinkFacts
  <1>5. LinkTypes'
    BY <1>1, <1>3 DEF LinkTypes
  <1> QED
    BY <1>1, <1>4, <1>5 DEF FailureIsKnown, AnswersAreNew, Links!FailedIsNotServed

\* A read fails once, and forgets its failure at its end.
LEMMA LinkReadKeeps ==
  ASSUME LinksInv, NEW h \in Handles,
         \/ Links!Read(h) \/ Links!Fetched(h) \/ Links!FetchFails(h)
         \/ Links!Drop(h) \/ Links!RetryFails(h) \/ Links!Reopen(h)
  PROVE  LinksInv'
  <1> USE DEF LinksInv
  <1>1. /\ issued' = issued /\ near' = near /\ dead' = dead /\ reports' = reports
        /\ flight' = flight /\ waiting' = waiting
    BY DEF Links!Read, Links!Fetched, Links!FetchFails, Links!Drop, Links!RetryFails,
           Links!Reopen, Links!ReadEnds, Links!gateway, Links!group
  <1>2. h \in Links!Callers /\ Links!Pcs \ {"wait"} =
            {"idle", "get", "do", "fetch", "drop", "retry"}
    BY LinkFacts
  <1> DEFINE Moves(to) == /\ at' \in [Links!Callers -> Links!Pcs] /\ at'[h] = to
                          /\ \A d \in Links!Callers \ {h} : at'[d] = at[d]
                          /\ waiting = {d \in Links!Callers : at'[d] = "wait"}
                          /\ \A g \in Handles \ {h} : at'[g] = at[g]
  <1>3. ASSUME NEW to \in Links!Pcs \ {"wait"}, at[h] # "wait", Links!Goto(h, to)
        PROVE  Moves(to)
    <2>1. /\ at' \in [Links!Callers -> Links!Pcs] /\ at'[h] = to
          /\ \A d \in Links!Callers \ {h} : at'[d] = at[d]
          /\ waiting = {d \in Links!Callers : at'[d] = "wait"}
      BY <1>2, <1>3, Moved
    <2> QED
      BY <2>1, LinkFacts
  <1> HIDE DEF Moves
  <1>4. CASE Links!Read(h)
    <2>1. /\ at[h] = "idle" /\ link' = link /\ rawURL' = rawURL /\ hasFailed' = hasFailed
          /\ forgotten' = forgotten /\ late' = late
      BY <1>4 DEF Links!Read
    <2>2. PICK to \in {"get", "fetch"} : Links!Goto(h, to) /\ (to = "fetch" => rawURL[h] # Links!None)
      BY <1>4 DEF Links!Read, Links!LinkExpiring
    <2>3. Moves(to)
      BY <1>2, <1>3, <2>1, <2>2
    <2>4. LinkTypes'
      <3>1. /\ at' \in [Links!Callers -> Links!Pcs]
            /\ waiting' = {c \in Links!Callers : at'[c] = "wait"}
        BY <1>1, <2>3 DEF Moves
      <3> QED
        BY <1>1, <2>1, <3>1 DEF LinkTypes
    <2>5. FailureIsKnown'
      BY <2>1, <2>2, <2>3 DEF FailureIsKnown, Moves
    <2>6. AnswersAreNew'
      <3>1. at'[h] # "wait" /\ \A g \in Handles \ {h} : at'[g] = at[g]
        BY <2>2, <2>3 DEF Moves
      <3> QED
        BY <1>1, <2>1, <3>1 DEF AnswersAreNew
    <2>7. Links!FailedIsNotServed'
      BY <2>1, <2>2, <2>3 DEF Links!FailedIsNotServed, Moves
    <2> QED
      BY <2>4, <2>5, <2>6, <2>7
  <1>5. CASE Links!Fetched(h) \/ Links!RetryFails(h)
    <2>1. /\ at[h] \in {"fetch", "retry"} /\ Links!Goto(h, "idle") /\ link' = link
          /\ rawURL' = rawURL /\ forgotten' = forgotten /\ late' = late \ {h}
          /\ hasFailed' = [hasFailed EXCEPT ![h] = Links!None]
      BY <1>5 DEF Links!Fetched, Links!RetryFails, Links!ReadEnds, Links!group
    <2>2. Moves("idle")
      BY <1>2, <1>3, <2>1
    <2>3. /\ hasFailed' \in [Handles -> 0 .. issued] /\ hasFailed'[h] = Links!None
          /\ \A g \in Handles \ {h} : hasFailed'[g] = hasFailed[g]
      BY <2>1, LinkFacts DEF LinkTypes
    <2>4. LinkTypes'
      BY <1>1, <2>1, <2>2, <2>3 DEF LinkTypes, Moves
    <2>5. FailureIsKnown'
      BY <2>1, <2>2, <2>3 DEF FailureIsKnown, Moves
    <2>6. flight.at = "put" => flight.link # Links!None
      BY DEF AnswersAreNew
    <2>7. AnswersAreNew'
      BY <1>1, <2>1, <2>2, <2>3, <2>6 DEF AnswersAreNew, Moves
    <2>8. Links!FailedIsNotServed'
      BY <2>1, <2>2, <2>3 DEF Links!FailedIsNotServed, Moves
    <2> QED
      BY <2>4, <2>5, <2>7, <2>8
  <1>6. CASE Links!FetchFails(h)
    <2>1. /\ at[h] = "fetch" /\ Links!Goto(h, "drop") /\ link' = link
          /\ rawURL' = rawURL /\ forgotten' = forgotten /\ late' = late
          /\ hasFailed' = [hasFailed EXCEPT ![h] = rawURL[h]]
      BY <1>6 DEF Links!FetchFails, Links!group
    <2>2. Moves("drop")
      BY <1>2, <1>3, <2>1
    <2>3. /\ hasFailed' \in [Handles -> 0 .. issued] /\ hasFailed'[h] = rawURL[h]
          /\ \A g \in Handles \ {h} : hasFailed'[g] = hasFailed[g]
      BY <2>1 DEF LinkTypes
    <2>4. LinkTypes'
      BY <1>1, <2>1, <2>2, <2>3 DEF LinkTypes, Moves
    <2>5. FailureIsKnown'
      BY <2>1, <2>2, <2>3 DEF FailureIsKnown, Moves
    <2>6. AnswersAreNew'
      BY <1>1, <2>1, <2>2, <2>3 DEF AnswersAreNew, Moves
    <2>7. Links!FailedIsNotServed'
      BY <2>1, <2>2, <2>3 DEF Links!FailedIsNotServed, Moves
    <2> QED
      BY <2>4, <2>5, <2>6, <2>7
  <1>7. CASE Links!Drop(h)
    <2>1. /\ at[h] = "drop" /\ Links!Goto(h, "get") /\ link' = Links!None
          /\ rawURL' = rawURL /\ forgotten' = forgotten \cup {hasFailed[h]}
          /\ late' = late \ {h} /\ hasFailed' = hasFailed
      BY <1>7 DEF Links!Drop, Links!Invalidated, Links!None
    <2>2. Moves("get")
      BY <1>2, <1>3, <2>1
    <2>3. hasFailed[h] \in 1 .. issued
      BY <2>1, LinkFacts DEF FailureIsKnown, LinkTypes
    <2>4. link' \in 0 .. issued /\ Links!None \notin forgotten'
      BY <2>1, <2>3, LinkFacts DEF LinkTypes
    <2>5. LinkTypes'
      BY <1>1, <2>1, <2>2, <2>3, <2>4 DEF LinkTypes, Moves
    <2>6. FailureIsKnown'
      BY <2>1, <2>2 DEF FailureIsKnown, Moves
    <2>7. AnswersAreNew'
      BY <1>1, <2>1, <2>2 DEF AnswersAreNew, Moves
    <2>8. Links!FailedIsNotServed'
      BY <2>1, <2>2, <2>4 DEF Links!FailedIsNotServed, Moves
    <2> QED
      BY <2>5, <2>6, <2>7, <2>8
  <1>8. CASE Links!Reopen(h)
    <2>1. /\ at[h] = "idle" /\ at' = at /\ link' = link /\ forgotten' = forgotten
          /\ late' = late /\ hasFailed' = hasFailed
          /\ rawURL' = [rawURL EXCEPT ![h] = Links!None]
      BY <1>8 DEF Links!Reopen
    <2>2. /\ rawURL' \in [Handles -> 0 .. issued] /\ rawURL'[h] = Links!None
          /\ \A g \in Handles \ {h} : rawURL'[g] = rawURL[g]
      BY <2>1, LinkFacts DEF LinkTypes
    <2>3. LinkTypes'
      BY <1>1, <2>1, <2>2 DEF LinkTypes
    <2>4. FailureIsKnown'
      BY <2>1, <2>2 DEF FailureIsKnown
    <2>5. flight.at = "put" => flight.link # Links!None
      BY DEF AnswersAreNew
    <2>6. AnswersAreNew'
      BY <1>1, <2>1, <2>2, <2>5 DEF AnswersAreNew
    <2>7. Links!FailedIsNotServed'
      BY <2>1, <2>2 DEF Links!FailedIsNotServed
    <2> QED
      BY <2>3, <2>4, <2>6, <2>7
  <1> QED
    BY <1>4, <1>5, <1>6, <1>7, <1>8

LEMMA LinksStep ==
  ASSUME LinksInv, [Links!Next]_linkVars
  PROVE  LinksInv'
  <1>1. CASE UNCHANGED linkVars
    BY <1>1 DEF LinksInv, LinkTypes, FailureIsKnown, AnswersAreNew, Links!FailedIsNotServed,
                linkVars, Links!vars, Links!gateway, Links!group
  <1>2. CASE Links!Next
    BY <1>2, GatewayKeeps, ObtainKeeps, DoKeeps, PlayKeeps, LinkReadKeeps DEF Links!Next
  <1> QED
    BY <1>1, <1>2

LEMMA InitLinks ==
  ASSUME Links!Init
  PROVE  LinksInv
  BY LinkFacts
     DEF Links!Init, LinksInv, LinkTypes, FailureIsKnown, AnswersAreNew, Links!FailedIsNotServed

-----------------------------------------------------------------------------
(* The reads of a file in the cloud *)

\* The lemmas about runs of bytes: their length and elements, one run after another, and a
\* part of a run.
LEMMA BytesProperties ==
  ASSUME NEW first \in Int, NEW n \in Nat
  PROVE  /\ File!Bytes(first, n) \in Seq(Int) /\ Len(File!Bytes(first, n)) = n
         /\ \A i \in 1 .. n : File!Bytes(first, n)[i] = first + i - 1
  <1>1. File!Bytes(first, n) = [i \in 1 .. n |-> first + i - 1]
    BY DEF File!Bytes
  <1>2. [i \in 1 .. n |-> first + i - 1] \in [1 .. n -> Int]
    OBVIOUS
  <1>3. File!Bytes(first, n) \in Seq(Int)
    BY <1>1, <1>2, SeqDef
  <1>4. Len(File!Bytes(first, n)) = n
    BY <1>1, <1>2, <1>3, LenProperties
  <1> QED
    BY <1>1, <1>3, <1>4

LEMMA BytesJoin ==
  ASSUME NEW first \in Int, NEW n \in Nat, NEW m \in Nat
  PROVE  File!Bytes(first, n) \o File!Bytes(first + n, m) = File!Bytes(first, n + m)
  <1> DEFINE s == File!Bytes(first, n)
             t == File!Bytes(first + n, m)
             u == File!Bytes(first, n + m)
  <1>1. s \in Seq(Int) /\ Len(s) = n /\ \A i \in 1 .. n : s[i] = first + i - 1
    BY BytesProperties
  <1>2. t \in Seq(Int) /\ Len(t) = m /\ \A i \in 1 .. m : t[i] = first + n + i - 1
    BY BytesProperties
  <1>3. u \in Seq(Int) /\ Len(u) = n + m /\ \A i \in 1 .. n + m : u[i] = first + i - 1
    BY BytesProperties
  <1> HIDE DEF s, t, u
  <1>4. /\ s \o t \in Seq(Int) /\ Len(s \o t) = Len(s) + Len(t)
        /\ \A i \in 1 .. Len(s) + Len(t) :
               (s \o t)[i] = IF i <= Len(s) THEN s[i] ELSE t[i - Len(s)]
    BY <1>1, <1>2, ConcatProperties
  <1>5. \A i \in 1 .. n + m : (s \o t)[i] = first + i - 1
    BY <1>1, <1>2, <1>4
  <1>6. Len(s \o t) = Len(u) /\ \A i \in 1 .. Len(s \o t) : (s \o t)[i] = u[i]
    BY <1>1, <1>2, <1>3, <1>4, <1>5
  <1>7. s \o t = u
    BY <1>3, <1>4, <1>6, SeqEqual
  <1> QED
    BY <1>7 DEF s, t, u

LEMMA BytesPart ==
  ASSUME NEW first \in Int, NEW n \in Nat, NEW a \in 1 .. n + 1, NEW b \in a - 1 .. n
  PROVE  SubSeq(File!Bytes(first, n), a, b) = File!Bytes(first + a - 1, b - a + 1)
  <1> DEFINE s == File!Bytes(first, n)
             t == File!Bytes(first + a - 1, b - a + 1)
             u == SubSeq(s, a, b)
  <1>1. s \in Seq(Int) /\ Len(s) = n /\ \A i \in 1 .. n : s[i] = first + i - 1
    BY BytesProperties
  <1>2. first + a - 1 \in Int /\ b - a + 1 \in Nat
    OBVIOUS
  <1>3. /\ t \in Seq(Int) /\ Len(t) = b - a + 1
        /\ \A i \in 1 .. b - a + 1 : t[i] = (first + a - 1) + i - 1
    BY <1>2, BytesProperties
  <1> HIDE DEF s, t
  <1>4. \A i \in a .. b : s[i] \in Int
    BY <1>1
  <1>5. /\ u \in Seq(Int) /\ Len(u) = (IF a <= b THEN b - a + 1 ELSE 0)
        /\ \A i \in 1 .. b - a + 1 : u[i] = s[a + i - 1]
    BY <1>4, SubSeqProperties
  <1>6. \A i \in 1 .. b - a + 1 : u[i] = (first + a - 1) + i - 1
    BY <1>1, <1>5
  <1>7. Len(u) = b - a + 1
    BY <1>5
  <1> HIDE DEF u
  <1>8. Len(u) = Len(t) /\ \A i \in 1 .. Len(u) : u[i] = t[i]
    BY <1>3, <1>6, <1>7
  <1>9. u = t
    BY <1>3, <1>5, <1>8, SeqEqual
  <1> QED
    BY <1>9 DEF s, t, u

\* A run of the file from base on.
IsRun(bytes, base) ==
    /\ bytes \in Seq(Int) /\ base \in Nat /\ base + Len(bytes) <= fileSize
    /\ bytes = File!Bytes(base, Len(bytes))

FileTypes ==
    /\ fileSize \in Nat /\ tagEnd \in Nat /\ reading \in {"no", "yes"}
    /\ off \in Nat /\ want \in Nat /\ off + want <= fileSize

\* Each window is a run of the file, and the tail's reaches its end.
WindowsAreRuns ==
    /\ IsRun(head, 0) /\ IsRun(mid, midOff) /\ IsRun(tail, tailOff)
    /\ tail # <<>> => tailOff + Len(tail) = fileSize

\* What has been read is a run too, from where the read began.
OutIsRun ==
    /\ out \in Seq(Int) /\ Len(out) <= want
    /\ out = File!Bytes(off, Len(out))

FileInv == FileTypes /\ WindowsAreRuns /\ OutIsRun

LEMMA EmptyIsRun ==
  ASSUME NEW first \in Int
  PROVE  <<>> \in Seq(Int) /\ Len(<<>>) = 0 /\ <<>> = File!Bytes(first, 0)
  <1>1. <<>> \in Seq(Int) /\ Len(<<>>) = 0
    BY EmptySeq
  <1>2. File!Bytes(first, 0) \in Seq(Int) /\ Len(File!Bytes(first, 0)) = 0
    BY BytesProperties
  <1>3. <<>> = File!Bytes(first, 0)
    BY <1>2, EmptySeq
  <1> QED
    BY <1>1, <1>3

LEMMA ReadFacts ==
  ASSUME FileInv, File!Reading
  PROVE  /\ File!At \in Nat /\ File!At = off + Len(out)
         /\ File!Rest \in Nat \ {0} /\ File!Rest = want - Len(out)
         /\ File!At + File!Rest = off + want /\ File!At + File!Rest <= fileSize
         /\ File!At < fileSize /\ Len(out) \in Nat
  <1>1. Len(out) \in Nat
    BY LenProperties DEF FileInv, OutIsRun
  <1> QED
    BY <1>1 DEF FileInv, OutIsRun, FileTypes, File!Reading, File!At, File!Rest

\* A window that has the rest of the read gives all of it.
LEMMA CopyIsWhole ==
  ASSUME FileInv, File!Reading, NEW bytes, NEW base, IsRun(bytes, base),
         base <= File!At, File!At + File!Rest <= base + Len(bytes), File!Copy(bytes, base)
  PROVE  OutIsRun' /\ reading' = "yes" /\ off' = off /\ want' = want
  <1> DEFINE at0 == File!At
             n   == File!Rest
             l   == Len(bytes)
             k   == Len(out)
             a   == at0 - base + 1
             b   == at0 - base + n
  <1>1. /\ at0 \in Nat /\ at0 = off + k /\ n \in Nat \ {0} /\ n = want - k /\ k \in Nat
        /\ off \in Nat /\ want \in Nat
    BY ReadFacts DEF FileInv, FileTypes
  <1>2. out = File!Bytes(off, k)
    BY DEF FileInv, OutIsRun
  <1>3. l \in Nat /\ base \in Nat /\ base <= at0 /\ at0 + n <= base + l
    BY LenProperties DEF IsRun
  <1>4. bytes = File!Bytes(base, l)
    BY DEF IsRun
  <1>5. /\ off' = off /\ want' = want
        /\ ~(at0 < base \/ at0 - base > l) =>
              LET m == File!Least(n, l - (at0 - base))
              IN  /\ out' = out \o SubSeq(bytes, at0 - base + 1, at0 - base + m)
                  /\ reading' = IF m = 0 THEN "short" ELSE "yes"
    BY DEF File!Copy
  <1> HIDE DEF at0, n, l, k
  <1>6. ~(at0 < base \/ at0 - base > l) /\ n <= l - (at0 - base)
    BY <1>1, <1>3
  <1>7. File!Least(n, l - (at0 - base)) = n
    BY <1>1, <1>3, <1>6 DEF File!Least
  <1>8. out' = out \o SubSeq(bytes, a, b) /\ reading' = (IF n = 0 THEN "short" ELSE "yes")
    BY <1>5, <1>6, <1>7
  <1>9. reading' = "yes"
    BY <1>1, <1>8
  <1>10. a \in 1 .. l + 1 /\ b \in a - 1 .. l /\ base \in Int /\ off \in Int /\ base + a - 1 = at0 /\ b - a + 1 = n
    BY <1>1, <1>3
  <1> HIDE DEF a, b
  <1>11. SubSeq(File!Bytes(base, l), a, b) = File!Bytes(base + a - 1, b - a + 1)
    BY ONLY <1>3, <1>10, BytesPart, Zenon
  <1>12. out' = File!Bytes(off, k) \o File!Bytes(off + k, n)
    BY <1>1, <1>2, <1>4, <1>8, <1>10, <1>11
  <1>13. File!Bytes(off, k) \o File!Bytes(off + k, n) = File!Bytes(off, k + n)
    BY ONLY <1>1, <1>10, BytesJoin, Zenon
  <1>14. k + n = want
    BY <1>1
  <1>15. out' = File!Bytes(off, want)
    BY <1>12, <1>13, <1>14
  <1>16. File!Bytes(off, want) \in Seq(Int) /\ Len(File!Bytes(off, want)) = want
    BY <1>1, BytesProperties
  <1>17. Len(out') = want /\ out' \in Seq(Int) /\ out' = File!Bytes(off', Len(out'))
    BY <1>5, <1>15, <1>16
  <1>18. OutIsRun'
    BY <1>1, <1>5, <1>17 DEF OutIsRun
  <1> QED
    BY <1>5, <1>9, <1>18

LEMMA LeastGreatest ==
  ASSUME NEW a \in Int, NEW b \in Int
  PROVE  /\ File!Least(a, b) \in {a, b} /\ File!Least(a, b) <= a /\ File!Least(a, b) <= b
         /\ File!Greatest(a, b) \in {a, b} /\ a <= File!Greatest(a, b)
         /\ b <= File!Greatest(a, b)
  BY DEF File!Least, File!Greatest

LEMMA FileConstants ==
  ASSUME TRUE
  PROVE  /\ \A n \in FileSizes \cup Budgets : n \in Nat
         /\ HeadBytes \in Nat /\ TailBytes \in Nat /\ WindowBytes \in Nat
         /\ ProbeBytes \in Nat /\ HeaderBytes \in Nat /\ FrameSlack \in Nat
  BY ResourcesAssumption DEF File!FileAssumption

LEMMA WindowLengths ==
  ASSUME WindowsAreRuns
  PROVE  Len(head) \in Nat /\ Len(tail) \in Nat /\ Len(mid) \in Nat
  BY LenProperties DEF WindowsAreRuns, IsRun

\* What is asked of the drive continues a window and reaches the end of the read.
LEMMA HeadGrows ==
  ASSUME FileInv, File!Reading, ~File!Cached, File!InHead
  PROVE  /\ File!Range.off = Len(head) /\ File!Length \in Nat
         /\ File!At + File!Rest <= Len(head) + File!Length
         /\ Len(head) + File!Length <= fileSize
  <1> DEFINE end   == File!At + File!Rest
             hint  == IF Len(head) >= HeaderBytes /\ tagEnd > 0 THEN tagEnd + FrameSlack ELSE 0
             probe == File!Least(File!Least(ProbeBytes, HeadBytes), fileSize)
             l     == Len(head)
  <1>1. end \in Nat /\ end <= fileSize /\ File!At \in Nat /\ File!Rest \in Nat \ {0}
    BY ReadFacts
  <1>2. fileSize \in Nat /\ tagEnd \in Nat /\ l \in Nat /\ l <= fileSize
    BY WindowLengths DEF FileInv, FileTypes, WindowsAreRuns, IsRun
  <1>3. ~File!Covers(head, 0)
    BY DEF File!Cached
  <1>4. head = <<>> => l = 0
    BY EmptySeq
  <1>5. l < end
    BY <1>1, <1>2, <1>3, <1>4 DEF File!Covers
  <1>6. hint \in Int
    BY <1>2, FileConstants
  <1>7. probe \in Int
    BY <1>2, FileConstants DEF File!Least
  <1>8. File!HeadTo = File!Least(fileSize, File!Greatest(hint, File!Greatest(end, probe)))
    BY DEF File!HeadTo
  <1> HIDE DEF end, hint, probe, l
  <1>9. File!HeadTo \in Nat /\ end <= File!HeadTo /\ File!HeadTo <= fileSize
    BY <1>1, <1>2, <1>6, <1>7, <1>8 DEF File!Least, File!Greatest
  <1>10. File!Range = [off |-> l, len |-> File!HeadTo - l]
    BY DEF File!Range, l
  <1>11. File!Length = File!Least(File!HeadTo - l, fileSize - l)
    BY <1>10 DEF File!Length
  <1>12. File!Length = File!HeadTo - l
    BY <1>2, <1>9, <1>11 DEF File!Least
  <1> QED
    BY <1>1, <1>2, <1>5, <1>9, <1>10, <1>12 DEF l, end

LEMMA TailGrows ==
  ASSUME FileInv, File!Reading, ~File!Cached, ~File!InHead, File!InTail
  PROVE  /\ File!Range.off \in Nat /\ File!Range.off <= File!At /\ File!Length \in Nat
         /\ File!Range.off + File!Length = IF tail = <<>> THEN fileSize ELSE tailOff
  <1> DEFINE probe == File!Least(File!Least(ProbeBytes, TailBytes), fileSize)
             at0   == File!At
             from  == File!TailFrom
             end   == File!TailEnd
  <1>1. at0 \in Nat /\ at0 < fileSize /\ at0 + File!Rest <= fileSize /\ File!Rest \in Nat \ {0}
    BY ReadFacts
  <1>2. /\ fileSize \in Nat
        /\ tail = <<>> \/ tailOff + Len(tail) = fileSize
        /\ tailOff \in Nat /\ tailOff + Len(tail) <= fileSize /\ Len(tail) \in Nat
    BY WindowLengths DEF FileInv, FileTypes, WindowsAreRuns, IsRun
  <1>3. tail = <<>> \/ at0 < tailOff
    BY <1>1, <1>2 DEF File!Cached, File!Covers
  <1>4. probe \in Int
    BY <1>2, FileConstants DEF File!Least
  <1>5. from = fileSize - File!Least(fileSize, File!Greatest(fileSize - at0, probe))
    BY DEF File!TailFrom
  <1>6. end = IF tail = <<>> THEN fileSize ELSE tailOff
    BY DEF File!TailEnd
  <1>7. File!Range = [off |-> from, len |-> end - from]
    BY DEF File!Range
  <1>8. File!Length = File!Least(end - from, fileSize - from)
    BY <1>7 DEF File!Length
  <1> HIDE DEF probe, at0, from, end
  <1>9. from \in Nat /\ from <= at0
    BY <1>1, <1>2, <1>4, <1>5 DEF File!Least, File!Greatest
  <1>10. end \in Nat /\ from <= end /\ end <= fileSize
    BY <1>1, <1>2, <1>3, <1>6, <1>9
  <1>11. File!Length = end - from
    BY <1>2, <1>8, <1>9, <1>10 DEF File!Least
  <1> QED
    BY <1>6, <1>7, <1>9, <1>10, <1>11 DEF at0

LEMMA WindowMoves ==
  ASSUME FileInv, File!Reading, ~File!InHead, ~File!InTail
  PROVE  /\ File!Range.off = File!At /\ File!Length \in Nat
         /\ File!Rest <= File!Length /\ File!At + File!Length <= fileSize
  <1> DEFINE at0  == File!At
             rest == File!Rest
  <1>1. at0 \in Nat /\ at0 < fileSize /\ at0 + rest <= fileSize /\ rest \in Nat \ {0}
    BY ReadFacts
  <1>2. fileSize \in Nat
    BY DEF FileInv, FileTypes
  <1>3. File!MidBytes = File!Least(fileSize - at0, File!Greatest(rest, WindowBytes))
    BY DEF File!MidBytes
  <1>4. File!Range = [off |-> at0, len |-> File!MidBytes]
    BY DEF File!Range
  <1>5. File!Length = File!Least(File!MidBytes, fileSize - at0)
    BY <1>4 DEF File!Length
  <1> HIDE DEF at0, rest
  <1>6. File!MidBytes \in Nat /\ rest <= File!MidBytes /\ File!MidBytes <= fileSize - at0
    <2>1. WindowBytes \in Nat
      BY FileConstants
    <2>2. File!Greatest(rest, WindowBytes) \in Nat /\ rest <= File!Greatest(rest, WindowBytes)
      BY <1>1, <2>1 DEF File!Greatest
    <2>3. fileSize - at0 \in Nat /\ rest <= fileSize - at0
      BY <1>1, <1>2
    <2> QED
      BY <1>1, <1>3, <2>2, <2>3 DEF File!Least
  <1>7. File!Length = File!MidBytes
    BY <1>1, <1>2, <1>5, <1>6 DEF File!Least
  <1> QED
    BY <1>1, <1>2, <1>4, <1>6, <1>7 DEF at0, rest

\* A range joins the head, or comes before the tail.
LEMMA RunsJoin ==
  ASSUME FileInv, NEW base \in Nat, NEW n \in Nat, NEW m \in Nat, base + n + m <= fileSize
  PROVE  /\ File!Bytes(base, n) \o File!Bytes(base + n, m) = File!Bytes(base, n + m)
         /\ IsRun(File!Bytes(base, n + m), base) /\ Len(File!Bytes(base, n + m)) = n + m
  <1>1. base \in Int /\ n \in Nat /\ m \in Nat /\ n + m \in Nat /\ fileSize \in Nat
    BY DEF FileInv, FileTypes
  <1>2. File!Bytes(base, n) \o File!Bytes(base + n, m) = File!Bytes(base, n + m)
    BY ONLY <1>1, BytesJoin, Zenon
  <1>3. File!Bytes(base, n + m) \in Seq(Int) /\ Len(File!Bytes(base, n + m)) = n + m
    BY ONLY <1>1, BytesProperties, Zenon
  <1>4. base + (n + m) <= fileSize
    BY <1>1
  <1>5. IsRun(File!Bytes(base, n + m), base)
    BY <1>3, <1>4 DEF IsRun
  <1> QED
    BY <1>2, <1>3, <1>5

LEMMA FetchKeeps ==
  ASSUME FileInv, File!Fetch
  PROVE  FileInv'
  <1>1. /\ File!Reading /\ ~File!Cached
        /\ fileSize' = fileSize /\ tagEnd' = tagEnd
    BY DEF File!Fetch
  <1>2. /\ File!At \in Nat /\ File!Rest \in Nat \ {0} /\ File!At + File!Rest <= fileSize
        /\ fileSize \in Nat
    BY <1>1, ReadFacts DEF FileInv, FileTypes
  <1> DEFINE got == File!Bytes(File!Range.off, File!Length)
             n   == File!Length
  <1>3. ASSUME OutIsRun', reading' = "yes", off' = off, want' = want, WindowsAreRuns'
        PROVE  FileInv'
    BY <1>1, <1>3 DEF FileInv, FileTypes
  <1>4. CASE File!InHead
    <2>1. /\ head' = head \o got /\ File!Copy(head', 0)
          /\ tail' = tail /\ tailOff' = tailOff /\ mid' = mid /\ midOff' = midOff
      BY <1>4 DEF File!Fetch
    <2> DEFINE l == Len(head)
    <2>2. /\ File!Range.off = l /\ n \in Nat /\ File!At + File!Rest <= l + n
          /\ l + n <= fileSize
      BY <1>1, <1>4, HeadGrows
    <2>3. l \in Nat /\ head = File!Bytes(0, l)
      BY WindowLengths DEF FileInv, WindowsAreRuns, IsRun
    <2> HIDE DEF l, n
    <2>4. 0 \in Nat /\ 0 + l + n <= fileSize /\ 0 + l = l /\ 0 + n = n
      BY <2>2, <2>3
    <2>5. /\ File!Bytes(0, l) \o File!Bytes(0 + l, n) = File!Bytes(0, l + n)
          /\ IsRun(File!Bytes(0, l + n), 0) /\ Len(File!Bytes(0, l + n)) = l + n
      BY <2>2, <2>3, <2>4, RunsJoin, Zenon
    <2>6. PICK grown : grown = head'
      OBVIOUS
    <2>7. IsRun(grown, 0) /\ Len(grown) = l + n
      BY <2>1, <2>2, <2>3, <2>4, <2>5, <2>6 DEF n
    <2>8. File!Copy(grown, 0) /\ 0 <= File!At /\ File!At + File!Rest <= 0 + Len(grown)
      BY <1>2, <2>1, <2>2, <2>3, <2>6, <2>7 DEF n
    <2>9. OutIsRun' /\ reading' = "yes" /\ off' = off /\ want' = want
      BY <1>1, <2>7, <2>8, CopyIsWhole
    <2>10. WindowsAreRuns'
      BY <1>1, <2>1, <2>6, <2>7 DEF FileInv, WindowsAreRuns, IsRun
    <2> QED
      BY <1>3, <2>9, <2>10
  <1>5. CASE ~File!InHead /\ File!InTail
    <2> DEFINE l    == Len(tail)
               from == File!Range.off
    <2>1. /\ tail' = got \o tail /\ tailOff' = from /\ File!Copy(tail', tailOff')
          /\ head' = head /\ mid' = mid /\ midOff' = midOff
      BY <1>5 DEF File!Fetch, File!Extended
    <2>2. /\ from \in Nat /\ from <= File!At /\ n \in Nat
          /\ from + n = IF tail = <<>> THEN fileSize ELSE tailOff
      BY <1>1, <1>5, TailGrows
    <2>3. /\ l \in Nat /\ tail = File!Bytes(tailOff, l)
          /\ tail # <<>> => tailOff + l = fileSize
      BY WindowLengths DEF FileInv, WindowsAreRuns, IsRun
    <2>4. tail = <<>> => l = 0
      BY EmptySeq
    <2>5. from + n \in Int
      BY <2>2
    <2>6. <<>> = File!Bytes(from + n, 0)
      BY <2>5, EmptyIsRun
    <2> HIDE DEF l, n, from
    <2>7. tail = File!Bytes(from + n, l) /\ from + n + l = fileSize
      <3>1. CASE tail = <<>>
        BY <1>2, <2>2, <2>4, <2>6, <3>1
      <3>2. CASE tail # <<>>
        <4>1. from + n = tailOff
          BY <2>2, <3>2
        <4> QED
          BY <2>2, <2>3, <3>2, <4>1
      <3> QED
        BY <3>1, <3>2
    <2>8. from + n + l <= fileSize
      BY <1>2, <2>7
    <2>9. /\ File!Bytes(from, n) \o File!Bytes(from + n, l) = File!Bytes(from, n + l)
          /\ IsRun(File!Bytes(from, n + l), from) /\ Len(File!Bytes(from, n + l)) = n + l
      BY <2>2, <2>3, <2>8, RunsJoin, Zenon
    <2>10. PICK grown : grown = tail'
      OBVIOUS
    <2>11. IsRun(grown, from) /\ Len(grown) = n + l
      BY <2>1, <2>7, <2>9, <2>10 DEF n, from
    <2>12. from + Len(grown) = fileSize
      BY <2>2, <2>3, <2>7, <2>11
    <2>13. /\ File!Copy(grown, from) /\ from <= File!At
           /\ File!At + File!Rest <= from + Len(grown)
      BY <1>2, <2>1, <2>2, <2>10, <2>12
    <2>14. OutIsRun' /\ reading' = "yes" /\ off' = off /\ want' = want
      BY <1>1, <2>11, <2>13, CopyIsWhole
    <2>15. WindowsAreRuns'
      BY <1>1, <2>1, <2>10, <2>11, <2>12 DEF FileInv, WindowsAreRuns, IsRun
    <2> QED
      BY <1>3, <2>14, <2>15
  <1>6. CASE ~File!InHead /\ ~File!InTail
    <2> DEFINE from == File!Range.off
    <2>1. /\ mid' = got /\ midOff' = from /\ File!Copy(mid', midOff')
          /\ head' = head /\ tail' = tail /\ tailOff' = tailOff
      BY <1>6 DEF File!Fetch
    <2>2. /\ from = File!At /\ n \in Nat
          /\ File!Rest <= n /\ File!At + n <= fileSize
      BY <1>1, <1>6, WindowMoves
    <2> HIDE DEF from, n
    <2>3. from \in Int /\ from \in Nat /\ from + n <= fileSize
      BY <1>2, <2>2
    <2>4. File!Bytes(from, n) \in Seq(Int) /\ Len(File!Bytes(from, n)) = n
      BY ONLY <2>2, <2>3, BytesProperties, Zenon
    <2>5. PICK moved : moved = mid'
      OBVIOUS
    <2>6. moved = File!Bytes(from, n)
      BY <2>1, <2>5 DEF n, from
    <2>7. IsRun(moved, from) /\ Len(moved) = n
      BY <2>3, <2>4, <2>6 DEF IsRun
    <2>8. /\ File!Copy(moved, from) /\ from <= File!At
          /\ File!At + File!Rest <= from + Len(moved)
      BY <1>2, <2>1, <2>2, <2>5, <2>7
    <2>9. OutIsRun' /\ reading' = "yes" /\ off' = off /\ want' = want
      BY <1>1, <2>7, <2>8, CopyIsWhole
    <2>10. WindowsAreRuns'
      BY <1>1, <2>1, <2>5, <2>7 DEF FileInv, WindowsAreRuns, IsRun
    <2> QED
      BY <1>3, <2>9, <2>10
  <1> QED
    BY <1>4, <1>5, <1>6

LEMMA CacheKeeps ==
  ASSUME FileInv, File!FromCache
  PROVE  FileInv'
  <1>1. /\ File!Reading /\ fileSize' = fileSize /\ tagEnd' = tagEnd
        /\ head' = head /\ tail' = tail /\ tailOff' = tailOff /\ mid' = mid /\ midOff' = midOff
    BY DEF File!FromCache, File!windows
  <1>2. PICK bytes, base : IsRun(bytes, base) /\ File!Covers(bytes, base) /\ File!Copy(bytes, base)
    BY DEF File!FromCache, FileInv, WindowsAreRuns
  <1>3. base <= File!At /\ File!At + File!Rest <= base + Len(bytes)
    BY <1>1, <1>2, ReadFacts DEF File!Covers, IsRun
  <1>4. OutIsRun' /\ reading' = "yes" /\ off' = off /\ want' = want
    BY <1>1, <1>2, <1>3, CopyIsWhole
  <1>5. WindowsAreRuns'
    BY <1>1 DEF FileInv, WindowsAreRuns, IsRun
  <1> QED
    BY <1>1, <1>4, <1>5 DEF FileInv, FileTypes

LEMMA DoneKeeps ==
  ASSUME FileInv, NEW from \in Nat, NEW n \in Nat, from + n <= fileSize,
         reading' \in {"no", "yes"}, off' = from, want' = n, out' = <<>>,
         UNCHANGED <<fileSize, tagEnd, budget, File!windows>>
  PROVE  FileInv'
  <1>1. WindowsAreRuns'
    BY DEF FileInv, WindowsAreRuns, IsRun, File!windows
  <1>2. FileTypes'
    BY DEF FileInv, FileTypes
  <1>3. /\ <<>> \in Seq(Int) /\ Len(<<>>) = 0 /\ <<>> = File!Bytes(from, 0)
    BY EmptyIsRun
  <1>4. OutIsRun'
    BY <1>3 DEF OutIsRun
  <1> QED
    BY <1>1, <1>2, <1>4 DEF FileInv

LEMMA FileStep ==
  ASSUME FileInv, [File!Next]_fileVars
  PROVE  FileInv'
  <1>1. CASE UNCHANGED fileVars
    BY <1>1 DEF FileInv, FileTypes, WindowsAreRuns, OutIsRun, IsRun, fileVars
  <1>2. ASSUME NEW from \in 0 .. fileSize, NEW n \in 0 .. fileSize, File!ReadAt(from, n)
        PROVE  FileInv'
    <2>1. from \in Nat /\ n \in Nat
      BY DEF FileInv, FileTypes
    <2>2. /\ from + n <= fileSize /\ reading' \in {"no", "yes"} /\ off' = from /\ want' = n
          /\ out' = <<>> /\ UNCHANGED <<fileSize, tagEnd, budget, File!windows>>
      BY <1>2 DEF File!ReadAt
    <2> QED
      BY <2>1, <2>2, DoneKeeps
  <1>3. CASE File!FetchFails \/ File!ReadEnds
    <2>1. /\ 0 \in Nat /\ 0 + 0 <= fileSize
      BY DEF FileInv, FileTypes
    <2>2. /\ reading' \in {"no", "yes"} /\ off' = 0 /\ want' = 0
          /\ out' = <<>> /\ UNCHANGED <<fileSize, tagEnd, budget, File!windows>>
      BY <1>3 DEF File!FetchFails, File!ReadEnds, File!Done
    <2> QED
      BY <2>1, <2>2, DoneKeeps
  <1> QED
    BY <1>1, <1>2, <1>3, FetchKeeps, CacheKeeps DEF File!Next

LEMMA InitFile ==
  ASSUME File!Init
  PROVE  FileInv
  <1>1. /\ fileSize \in Nat /\ tagEnd \in Nat /\ reading = "no" /\ off = 0 /\ want = 0
        /\ head = <<>> /\ tail = <<>> /\ mid = <<>> /\ out = <<>> /\ tailOff = 0 /\ midOff = 0
    BY FileConstants DEF File!Init
  <1>2. <<>> \in Seq(Int) /\ Len(<<>>) = 0 /\ <<>> = File!Bytes(0, 0)
    BY EmptyIsRun
  <1> QED
    BY <1>1, <1>2 DEF FileInv, FileTypes, WindowsAreRuns, OutIsRun, IsRun

-----------------------------------------------------------------------------
CloudInv == LinksInv /\ FileInv /\ SwitchesInv

LEMMA CloudHolds == Spec => []CloudInv
  <1>1. Init => CloudInv
    BY InitLinks, InitFile, InitSwitches DEF Init, CloudInv
  <1>2. CloudInv /\ [Next]_vars => CloudInv'
    <2> SUFFICES ASSUME CloudInv, [Next]_vars
                 PROVE  CloudInv'
      OBVIOUS
    <2>1. [Links!Next]_linkVars /\ [File!Next]_fileVars /\ [Switches!Next]_switchVars
      BY DEF Next, vars, cloud
    <2>2. UNCHANGED switchVars => SwitchesInv'
      BY DEF CloudInv, SwitchesInv, SwitchTypes, Switches!Disabled, switchVars
    <2>3. SwitchesInv'
      BY <2>1, <2>2, SwitchesStep DEF CloudInv
    <2> QED
      BY <2>1, <2>3, LinksStep, FileStep DEF CloudInv
  <1> QED
    BY <1>1, <1>2, PTL DEF Spec

\* A read of a file in the cloud gives the bytes it asked for, neither the cache nor a retry
\* serves a link that has failed, and the gateways' switches are as they were put.
THEOREM CloudIsRightHolds == Spec => []CloudIsRight
  <1>1. CloudInv => CloudIsRight
    BY DEF CloudInv, LinksInv, FileInv, FileTypes, OutIsRun, File!ReadsAreRight, SwitchesInv,
           Switches!SwitchesAreKept, CloudIsRight
  <1> QED
    BY <1>1, CloudHolds, PTL

-----------------------------------------------------------------------------
(* The jukebox *)

PlayerTypes ==
    /\ items \in Seq(QueueTracks) /\ index \in Int /\ -1 <= index
    /\ index <= (IF Len(items) = 0 THEN 0 ELSE Len(items) - 1)
    /\ players \in Seq(Player!Player) /\ active \in 0 .. Len(players)
    /\ starting \in [Player!Actors -> 0 .. Len(players)]
    /\ intent \in Player!Intents
    /\ switching \in BOOLEAN /\ overlapped \in BOOLEAN /\ detached \in BOOLEAN

\* Without an overlap one actor at most waits for a player, and while it waits no track is
\* active and its player is of the current item.
OneSwitches ==
    ~overlapped =>
        /\ starting["handler"] = 0 \/ starting["switcher"] = 0
        /\ \A a \in Player!Actors : starting[a] # 0 =>
               /\ active = 0
               /\ ~players[starting[a]].returned
               /\ Player!Current = {players[starting[a]].track}

\* An active track has been returned, and a signal is of a player that is gone.
Returned ==
    /\ active # 0 => players[active].returned
    /\ active = 0 => ~detached
    /\ \A p \in 1 .. Len(players) :
           players[p].signals => players[p].returned /\ players[p].mode = "gone"

\* Nothing else plays, or is taken for what plays.
Quiet(seq, one) ==
    \A p \in 1 .. Len(seq) :
        /\ seq[p].returned /\ seq[p].mode # "gone" => p = one
        /\ seq[p].signals => p = one \/ seq[p].closed

PlayerInv ==
    /\ PlayerTypes /\ OneSwitches /\ Returned
    /\ Player!ActiveIsCurrent
    /\ ~overlapped => Quiet(players, active)

LEMMA PlayerFacts ==
  ASSUME TRUE
  PROVE  MaxItems \in Nat /\ MaxPlayers \in Nat /\ Player!Actors = {"handler", "switcher"}
  BY ResourcesAssumption DEF Player!JukeboxAssumption, Player!Actors

\* What a player is.
LEMMA PlayerParts ==
  ASSUME NEW s \in Seq(Player!Player), NEW p \in 1 .. Len(s)
  PROVE  /\ s[p] \in Player!Player /\ s[p].track \in QueueTracks
         /\ s[p].mode \in {"playing", "paused", "gone"}
         /\ s[p].returned \in BOOLEAN /\ s[p].closed \in BOOLEAN /\ s[p].signals \in BOOLEAN
  <1>1. s[p] \in Player!Player
    BY ElementOfSeq
  <1> QED
    BY <1>1 DEF Player!Player

\* Of players some of which have changed, but whose tracks and ends have not.
Alike(before, after) ==
    /\ after \in Seq(Player!Player) /\ Len(after) = Len(before)
    /\ \A p \in 1 .. Len(before) :
           /\ after[p].track = before[p].track /\ after[p].returned = before[p].returned
           /\ before[p].mode = "gone" => after[p].mode = "gone"
           /\ before[p].closed => after[p].closed
           /\ after[p].signals => before[p].signals

\* One player becomes x.
LEMMA OneChanges ==
  ASSUME NEW s \in Seq(Player!Player), NEW p \in 1 .. Len(s), NEW x \in Player!Player,
         NEW after, after = [s EXCEPT ![p] = x]
  PROVE  /\ after \in Seq(Player!Player) /\ Len(after) = Len(s) /\ after[p] = x
         /\ \A q \in 1 .. Len(s) : q # p => after[q] = s[q]
  BY ExceptSeq

LEMMA ModeSet ==
  ASSUME players \in Seq(Player!Player), NEW p \in 1 .. Len(players),
         NEW m \in {"playing", "paused"}
  PROVE  /\ Alike(players, Player!SetMode(p, m))
         /\ \A q \in 1 .. Len(players) :
                /\ Player!SetMode(p, m)[q].mode # "gone" <=> players[q].mode # "gone"
                /\ Player!SetMode(p, m)[q].closed = players[q].closed
  <1> DEFINE x == [players[p] EXCEPT !.mode = IF Player!Running(p) THEN m ELSE "gone"]
             after == Player!SetMode(p, m)
  <1>1. players[p] \in Player!Player
    BY PlayerParts
  <1>2. /\ x \in Player!Player /\ x.track = players[p].track /\ x.returned = players[p].returned
        /\ x.closed = players[p].closed /\ x.signals = players[p].signals
        /\ x.mode # "gone" <=> players[p].mode # "gone"
    BY <1>1 DEF Player!Player, Player!Running
  <1>3. after = [players EXCEPT ![p] = x]
    BY <1>1 DEF Player!SetMode, Player!Player
  <1> HIDE DEF x, after
  <1>4. /\ after \in Seq(Player!Player) /\ Len(after) = Len(players) /\ after[p] = x
        /\ \A q \in 1 .. Len(players) : q # p => after[q] = players[q]
    BY <1>2, <1>3, OneChanges
  <1>5. Alike(players, after)
    BY <1>2, <1>4 DEF Alike
  <1> QED
    BY <1>2, <1>4, <1>5 DEF after

LEMMA ActiveClosed ==
  ASSUME players \in Seq(Player!Player), active \in 0 .. Len(players)
  PROVE  /\ Alike(players, Player!CloseActive)
         /\ active # 0 => Player!CloseActive[active].closed /\ Player!CloseActive[active].mode = "gone"
         /\ \A q \in 1 .. Len(players) : q # active => Player!CloseActive[q] = players[q]
  <1>1. CASE active = 0
    BY <1>1 DEF Player!CloseActive, Alike
  <1>2. CASE active # 0
    <2> DEFINE x == [players[active] EXCEPT !.mode = "gone", !.closed = TRUE]
               after == Player!CloseActive
    <2>1. active \in 1 .. Len(players) /\ players[active] \in Player!Player
      BY <1>2, PlayerParts, LenProperties
    <2>2. /\ x \in Player!Player /\ x.track = players[active].track
          /\ x.returned = players[active].returned
          /\ x.closed /\ x.signals = players[active].signals /\ x.mode = "gone"
      BY <2>1 DEF Player!Player
    <2>3. after = [players EXCEPT ![active] = x]
      BY <1>2, <2>1 DEF Player!CloseActive, Player!Close, Player!Player
    <2> HIDE DEF x, after
    <2>4. /\ after \in Seq(Player!Player) /\ Len(after) = Len(players) /\ after[active] = x
          /\ \A q \in 1 .. Len(players) : q # active => after[q] = players[q]
      BY <2>1, <2>2, <2>3, OneChanges
    <2>5. Alike(players, after)
      BY <2>2, <2>4 DEF Alike
    <2> QED
      BY <2>2, <2>4, <2>5 DEF after
  <1> QED
    BY <1>1, <1>2

\* The same actors wait for the same players.
LEMMA StillSwitching ==
  ASSUME PlayerTypes, OneSwitches, Alike(players, players'), UNCHANGED <<items, index, starting>>,
         active' \in {active, 0}, overlapped => overlapped'
  PROVE  OneSwitches'
  <1> USE PlayerFacts
  <1>1. ASSUME NEW a \in Player!Actors, starting[a] # 0, ~overlapped'
        PROVE  /\ active' = 0 /\ ~players'[starting[a]].returned
               /\ Player!Current' = {players'[starting[a]].track}
    <2>1. starting[a] \in 1 .. Len(players)
      BY <1>1, LenProperties DEF PlayerTypes
    <2>2. Player!Current' = Player!Current
      BY DEF Player!Current, Player!At
    <2> QED
      BY <1>1, <2>1, <2>2 DEF OneSwitches, Alike
  <1> QED
    BY <1>1 DEF OneSwitches

\* What only changes how players stand.
LEMMA PlayersChange ==
  ASSUME PlayerInv, Alike(players, players'), UNCHANGED <<items, index, active, starting, detached>>,
         overlapped => overlapped', overlapped' \in BOOLEAN,
         intent' \in Player!Intents, switching' \in BOOLEAN
  PROVE  PlayerInv'
  <1> USE PlayerFacts DEF PlayerInv
  <1>1. PlayerTypes'
    BY DEF PlayerTypes, Alike
  <1>2. OneSwitches'
    BY StillSwitching
  <1>3. players \in Seq(Player!Player) /\ active \in 0 .. Len(players) /\ Len(players) \in Nat
    BY LenProperties DEF PlayerTypes
  <1>4. Returned'
    BY <1>3 DEF Returned, Alike
  <1>5. Player!ActiveIsCurrent'
    <2>1. Player!Current' = Player!Current
      BY DEF Player!Current, Player!At
    <2>2. active # 0 => players'[active].track = players[active].track
      BY <1>3 DEF Alike
    <2> QED
      BY <2>1, <2>2 DEF Player!ActiveIsCurrent
  <1>6. ~overlapped' => Quiet(players', active')
    <2> SUFFICES ASSUME ~overlapped'
                 PROVE  Quiet(players', active')
      OBVIOUS
    <2>1. Quiet(players, active)
      OBVIOUS
    <2> QED
      BY <1>3, <2>1 DEF Quiet, Alike
  <1> QED
    BY <1>1, <1>2, <1>4, <1>5, <1>6

\* Players of which none plays, and a signal is of a track that was closed.
LEMMA ClosedIsQuiet ==
  ASSUME PlayerInv, ~overlapped
  PROVE  Quiet(Player!CloseActive, 0)
  <1>1. players \in Seq(Player!Player) /\ active \in 0 .. Len(players) /\ Len(players) \in Nat
    BY LenProperties DEF PlayerInv, PlayerTypes
  <1>2. Quiet(players, active)
    BY DEF PlayerInv
  <1> QED
    BY <1>1, <1>2, ActiveClosed DEF Quiet, Alike

LEMMA IndexIsSet ==
  ASSUME PlayerTypes, NEW i \in Int
  PROVE  /\ Player!SetIndex(i) \in Int /\ -1 <= Player!SetIndex(i)
         /\ Player!SetIndex(i) <= (IF Len(items) = 0 THEN 0 ELSE Len(items) - 1)
  <1>1. Len(items) \in Nat
    BY LenProperties DEF PlayerTypes
  <1> QED
    BY <1>1 DEF Player!SetIndex, Player!Larger, Player!Smaller

\* A switch of tracks, up to the start of mpv.
LEMMA SwitchKeeps ==
  ASSUME PlayerInv, NEW a \in Player!Actors, NEW i \in Int, NEW before,
         Player!Switch(a, i, before), Alike(players, before), items' = items,
         ~overlapped' => Quiet(before, 0) /\ \A b \in Player!Actors : starting[b] = 0,
         overlapped => overlapped', overlapped' \in BOOLEAN,
         intent' \in Player!Intents, switching' \in BOOLEAN
  PROVE  PlayerInv'
  <1> USE PlayerFacts
  <1>1. /\ index' = Player!SetIndex(i) /\ active' = 0 /\ detached' = FALSE
    BY DEF Player!Switch
  <1>2. /\ index' \in Int /\ -1 <= index'
        /\ index' <= (IF Len(items) = 0 THEN 0 ELSE Len(items) - 1)
    BY <1>1, IndexIsSet DEF PlayerInv
  <1>3. /\ before \in Seq(Player!Player) /\ Len(before) = Len(players) /\ Len(players) \in Nat
        /\ starting \in [Player!Actors -> 0 .. Len(players)]
    BY LenProperties DEF Alike, PlayerInv, PlayerTypes
  <1>4. \A p \in 1 .. Len(before) :
            before[p].signals => before[p].returned /\ before[p].mode = "gone"
    BY DEF Alike, PlayerInv, Returned
  <1>5. /\ items' \in Seq(QueueTracks) /\ index' \in Int /\ -1 <= index'
        /\ index' <= (IF Len(items') = 0 THEN 0 ELSE Len(items') - 1)
    BY <1>2 DEF PlayerInv, PlayerTypes
  <1>6. active' = 0 /\ detached' \in BOOLEAN
    BY <1>1
  <1>7. CASE players' = before /\ starting' = starting
    <2>1. PlayerTypes'
      BY <1>3, <1>7, <1>5, <1>6 DEF PlayerTypes
    <2>2. OneSwitches'
      BY <1>7 DEF OneSwitches
    <2>3. Returned'
      BY <1>1, <1>3, <1>4, <1>7 DEF Returned
    <2>4. Player!ActiveIsCurrent' /\ (~overlapped' => Quiet(players', active'))
      BY <1>1, <1>7 DEF Player!ActiveIsCurrent
    <2> QED
      BY <2>1, <2>2, <2>3, <2>4 DEF PlayerInv
  <1>8. ASSUME NEW t \in Player!At(items, Player!SetIndex(i)), players' = Player!Begin(t, before),
               starting' = [starting EXCEPT ![a] = Len(players) + 1]
        PROVE  PlayerInv'
    <2> DEFINE new == [track |-> t, mode |-> "playing", returned |-> FALSE,
                       closed |-> FALSE, signals |-> FALSE]
               n == Len(players) + 1
    <2>1. t \in QueueTracks /\ Player!Current' = {t}
      <3>1. Player!SetIndex(i) \in 0 .. Len(items) - 1 /\ t = items[Player!SetIndex(i) + 1]
        BY <1>8 DEF Player!At
      <3>2. Player!SetIndex(i) + 1 \in 1 .. Len(items) /\ items \in Seq(QueueTracks)
        BY <3>1, LenProperties DEF PlayerInv, PlayerTypes
      <3> QED
        BY <1>1, <3>1, <3>2, ElementOfSeq DEF Player!Current, Player!At
    <2>2. new \in Player!Player /\ new.track = t /\ new.mode = "playing" /\ ~new.returned /\ ~new.signals
      BY <2>1 DEF Player!Player
    <2> HIDE DEF new
    <2>3. /\ players' \in Seq(Player!Player) /\ Len(players') = n
          /\ players'[n] = new /\ \A p \in 1 .. Len(players) : players'[p] = before[p]
      <3>1. players' = Append(before, new)
        BY <1>8 DEF Player!Begin, new
      <3> QED
        BY <1>3, <2>2, <3>1
    <2>4. /\ starting' \in [Player!Actors -> 0 .. n] /\ starting'[a] = n
          /\ \A b \in Player!Actors \ {a} : starting'[b] = starting[b]
      BY <1>3, <1>8
    <2>5. PlayerTypes'
      BY <1>3, <1>5, <1>6, <2>3, <2>4 DEF PlayerTypes
    <2>6. OneSwitches'
      <3> SUFFICES ASSUME ~overlapped'
                   PROVE  /\ starting'["handler"] = 0 \/ starting'["switcher"] = 0
                          /\ \A b \in Player!Actors : starting'[b] # 0 =>
                                 /\ active' = 0 /\ ~players'[starting'[b]].returned
                                 /\ Player!Current' = {players'[starting'[b]].track}
        BY DEF OneSwitches
      <3>1. \A b \in Player!Actors \ {a} : starting'[b] = 0
        BY <2>4
      <3>2. active' = 0 /\ ~players'[n].returned /\ Player!Current' = {players'[n].track}
        BY <1>1, <2>1, <2>2, <2>3
      <3> QED
        BY <2>4, <3>1, <3>2
    <2>7. Returned'
      BY <1>1, <1>3, <1>4, <2>2, <2>3 DEF Returned
    <2>8. Player!ActiveIsCurrent'
      BY <1>1 DEF Player!ActiveIsCurrent
    <2>9. ~overlapped' => Quiet(players', active')
      BY <1>1, <1>3, <2>2, <2>3 DEF Quiet
    <2> QED
      BY <2>5, <2>6, <2>7, <2>8, <2>9 DEF PlayerInv
  <1> QED
    BY <1>7, <1>8 DEF Player!Switch

\* A set of natural numbers that has an element has a least one.
LEMMA HasLeast ==
  ASSUME NEW S \in SUBSET Nat, S # {}
  PROVE  \E x \in S : \A y \in S : x <= y
  <1> DEFINE R == OpToRel(<, Nat)
  <1>1. IsWellFoundedOn(R, Nat)
    BY NatLessThanWellFounded
  <1>2. \A x, y \in S : <<y, x>> \notin R => x <= y
    BY DEF OpToRel
  <1> HIDE DEF R
  <1>3. PICK x \in S : \A y \in S : ~(<<y, x>> \in R)
    BY <1>1, WFMin, Zenon
  <1> QED
    BY <1>2, <1>3

\* IndexByID finds the current id wherever it is in the queue.
LEMMA CurrentIsFound ==
  ASSUME NEW q \in Seq(QueueTracks)
  PROVE  /\ Player!IndexByID(q) \in {-1} \cup (0 .. Len(q) - 1)
         /\ Player!IndexByID(q) # -1 => Player!At(q, Player!IndexByID(q)) = Player!Current
         /\ (\E i \in 0 .. Len(q) - 1 : Player!At(q, i) = Player!Current) =>
                Player!IndexByID(q) # -1
  <1> DEFINE found == {i \in 0 .. Len(q) - 1 : Player!At(q, i) = Player!Current}
  <1>1. Player!IndexByID(q) = IF found = {} THEN -1
                              ELSE CHOOSE i \in found : \A j \in found : i <= j
    BY DEF Player!IndexByID
  <1>2. Len(q) \in Nat
    BY LenProperties
  <1>3. CASE found = {}
    BY <1>1, <1>3
  <1>4. CASE found # {}
    <2>1. \E i \in found : \A j \in found : i <= j
      <3>1. found \in SUBSET Nat
        BY <1>2
      <3> HIDE DEF found
      <3> QED
        BY <1>4, <3>1, HasLeast
    <2>2. Player!IndexByID(q) \in found
      BY <1>1, <1>4, <2>1
    <2> QED
      BY <1>2, <2>2
  <1> QED
    BY <1>3, <1>4

LEMMA RequestFacts ==
  ASSUME PlayerInv, Player!Request
  PROVE  /\ overlapped' \in BOOLEAN /\ (overlapped => overlapped')
         /\ ~overlapped' => \A b \in Player!Actors : starting[b] = 0
         /\ items \in Seq(QueueTracks) /\ Len(items) \in Nat
         /\ players \in Seq(Player!Player) /\ Len(players) \in Nat /\ active \in 0 .. Len(players)
         /\ switching \in BOOLEAN /\ intent \in Player!Intents /\ detached \in BOOLEAN
         /\ index \in Int /\ -1 <= index
         /\ index <= (IF Len(items) = 0 THEN 0 ELSE Len(items) - 1)
  BY PlayerFacts, LenProperties DEF Player!Request, PlayerInv, PlayerTypes

\* A request that changes the queue leaves the tracks alone, or closes the active one.
LEMMA QueueChanges ==
  ASSUME PlayerInv, Player!Request,
         items' \in Seq(QueueTracks), index' \in Int, -1 <= index',
         index' <= (IF Len(items') = 0 THEN 0 ELSE Len(items') - 1),
         Alike(players, players'), UNCHANGED <<starting, intent, switching>>, detached' \in BOOLEAN,
         \/ active' = 0 /\ players' = Player!CloseActive /\ detached' = FALSE
         \/ /\ active' = active /\ (detached => detached')
            /\ active = 0 => ~detached'
            /\ active # 0 /\ ~detached' /\ ~overlapped => Player!Current' = Player!Current
  PROVE  PlayerInv'
  <1> USE RequestFacts, PlayerFacts
  <1>1. PlayerTypes'
    BY DEF PlayerInv, PlayerTypes, Alike
  <1>2. OneSwitches'
    BY DEF OneSwitches
  <1>3. CASE active' = 0 /\ players' = Player!CloseActive /\ detached' = FALSE
    <2>1. Returned'
      BY <1>3 DEF PlayerInv, Returned, Alike
    <2>2. Player!ActiveIsCurrent'
      BY <1>3 DEF Player!ActiveIsCurrent
    <2>3. ~overlapped' => Quiet(players', active')
      BY <1>3, ClosedIsQuiet
    <2> QED
      BY <1>1, <1>2, <2>1, <2>2, <2>3 DEF PlayerInv
  <1>4. CASE /\ active' = active /\ (detached => detached')
             /\ active = 0 => ~detached'
             /\ active # 0 /\ ~detached' /\ ~overlapped => Player!Current' = Player!Current
    <2>1. Returned'
      BY <1>4 DEF PlayerInv, Returned, Alike
    <2>2. Player!ActiveIsCurrent'
      BY <1>4 DEF PlayerInv, Player!ActiveIsCurrent, Alike
    <2>3. ~overlapped' => Quiet(players', active')
      BY <1>4 DEF PlayerInv, Quiet, Alike
    <2> QED
      BY <1>1, <1>2, <2>1, <2>2, <2>3 DEF PlayerInv
  <1> QED
    BY <1>3, <1>4

\* At most one item is at a position.
LEMMA AtPosition ==
  ASSUME NEW q \in Seq(QueueTracks), NEW i \in 0 .. Len(q) - 1
  PROVE  Player!At(q, i) = {q[i + 1]}
  BY DEF Player!At

LEMMA QueueRequestKeeps ==
  ASSUME PlayerInv,
         \/ \E t \in QueueTracks : Player!Add(t) \/ Player!Set(t)
         \/ \E i \in 0 .. Len(items) - 1 : Player!RemoveItem(i)
         \/ Player!Clear \/ Player!Shuffle
  PROVE  PlayerInv'
  <1>1. Player!Request
    BY DEF Player!Add, Player!Set, Player!RemoveItem, Player!Clear, Player!Shuffle
  <1> USE <1>1, RequestFacts, PlayerFacts
  <1>2. Alike(players, players) /\ Alike(players, Player!CloseActive)
    BY ActiveClosed DEF Alike
  <1>3. ASSUME NEW t \in QueueTracks, Player!Add(t)
        PROVE  PlayerInv'
    <2>1. /\ items' = Append(items, t) /\ index' = Player!AddedIndex
          /\ UNCHANGED <<active, players, starting, intent, switching, detached>>
      BY <1>3 DEF Player!Add
    <2>2. /\ items' \in Seq(QueueTracks) /\ Len(items') = Len(items) + 1
          /\ \A i \in 1 .. Len(items) : items'[i] = items[i]
      BY <2>1
    <2>3. /\ index' \in Int /\ -1 <= index'
          /\ index' <= (IF Len(items') = 0 THEN 0 ELSE Len(items') - 1)
      BY <2>1, <2>2 DEF Player!AddedIndex
    <2>4. active # 0 /\ ~detached /\ ~overlapped => Player!Current' = Player!Current
      <3> SUFFICES ASSUME active # 0, ~detached, ~overlapped
                   PROVE  Player!Current' = Player!Current
        OBVIOUS
      <3>1. Player!Current = {players[active].track}
        BY DEF PlayerInv, Player!ActiveIsCurrent
      <3>2. index \in 0 .. Len(items) - 1
        BY <3>1 DEF Player!Current, Player!At
      <3> QED
        BY <2>1, <2>2, <3>2 DEF Player!AddedIndex, Player!Current, Player!At
    <2>5. active = 0 => ~detached
      BY DEF PlayerInv, Returned
    <2> QED
      BY <1>2, <2>1, <2>2, <2>3, <2>4, <2>5, QueueChanges
  <1>4. ASSUME NEW t \in QueueTracks, Player!Set(t)
        PROVE  PlayerInv'
    <2>1. /\ items' = <<t>> /\ index' = 0 /\ active' = 0 /\ players' = Player!CloseActive
          /\ detached' = FALSE /\ UNCHANGED <<starting, intent, switching>>
      BY <1>4 DEF Player!Set
    <2>2. items' \in Seq(QueueTracks) /\ Len(items') = 1
      BY <2>1
    <2>3. /\ index' \in Int /\ -1 <= index'
          /\ index' <= (IF Len(items') = 0 THEN 0 ELSE Len(items') - 1)
      BY <2>1, <2>2
    <2>4. Alike(players, players') /\ detached' \in BOOLEAN
      BY <1>2, <2>1
    <2> QED
      BY <2>1, <2>2, <2>3, <2>4, QueueChanges
  <1>5. CASE Player!Clear
    <2>1. /\ items' = <<>> /\ index' = -1 /\ active' = 0 /\ players' = Player!CloseActive
          /\ detached' = FALSE /\ UNCHANGED <<starting, intent, switching>>
      BY <1>5 DEF Player!Clear
    <2>2. items' \in Seq(QueueTracks) /\ Len(items') = 0
      BY <2>1
    <2>3. /\ index' \in Int /\ -1 <= index'
          /\ index' <= (IF Len(items') = 0 THEN 0 ELSE Len(items') - 1)
      BY <2>1, <2>2
    <2>4. Alike(players, players') /\ detached' \in BOOLEAN
      BY <1>2, <2>1
    <2> QED
      BY <2>1, <2>2, <2>3, <2>4, QueueChanges
  <1>6. ASSUME NEW i \in 0 .. Len(items) - 1, Player!RemoveItem(i)
        PROVE  PlayerInv'
    <2> DEFINE rest == Player!RemoveAt(items, i + 1)
               r == Player!IndexByID(rest)
    <2>1. /\ players' = IF Player!IsPlaying /\ index = i THEN Player!SetMode(active, "paused")
                        ELSE players
          /\ items' = rest /\ index' = r
          /\ detached' = (detached \/ (active # 0 /\ r = -1))
          /\ UNCHANGED <<active, starting, intent, switching>>
      BY <1>6 DEF Player!RemoveItem
    <2>2. rest \in Seq(QueueTracks)
      <3>1. SubSeq(items, 1, (i + 1) - 1) \in Seq(QueueTracks)
        BY SubSeqProperties, ElementOfSeq
      <3>2. SubSeq(items, (i + 1) + 1, Len(items)) \in Seq(QueueTracks)
        BY SubSeqProperties, ElementOfSeq
      <3> QED
        BY <3>1, <3>2, ConcatProperties DEF Player!RemoveAt
    <2> HIDE DEF rest
    <2>3. /\ r \in {-1} \cup (0 .. Len(rest) - 1)
          /\ r # -1 => Player!At(rest, r) = Player!Current
      BY <2>2, CurrentIsFound
    <2> HIDE DEF r
    <2>4. /\ index' \in Int /\ -1 <= index'
          /\ index' <= (IF Len(items') = 0 THEN 0 ELSE Len(items') - 1)
      BY <2>1, <2>2, <2>3, LenProperties
    <2>5. active # 0 /\ ~detached' => Player!Current' = Player!Current
      BY <2>1, <2>3 DEF Player!Current
    <2>6. Alike(players, players')
      <3>1. Player!IsPlaying => active \in 1 .. Len(players)
        BY DEF Player!IsPlaying
      <3> QED
        BY <1>2, <2>1, <3>1, ModeSet
    <2>7. detached' \in BOOLEAN /\ (detached => detached') /\ (active = 0 => ~detached')
      BY <2>1 DEF PlayerInv, Returned
    <2> QED
      BY <2>1, <2>2, <2>4, <2>5, <2>6, <2>7, QueueChanges
  <1>7. CASE Player!Shuffle
    <2>1. PICK f \in [1 .. Len(items) -> 1 .. Len(items)] :
              Player!IsInjective(f) /\ items' = [i \in 1 .. Len(items) |-> items[f[i]]]
      BY <1>7 DEF Player!Shuffle
    <2>2. /\ index' = Player!IndexByID(items')
          /\ UNCHANGED <<active, players, starting, intent, switching, detached>>
      BY <1>7 DEF Player!Shuffle
    <2>3. \A i \in 1 .. Len(items) : items[f[i]] \in QueueTracks
      BY <2>1, ElementOfSeq
    <2>4. /\ items' \in Seq(QueueTracks) /\ Len(items') = Len(items)
          /\ \A i \in 1 .. Len(items) : items'[i] = items[f[i]]
      BY <2>1, <2>3
    <2>5. /\ Player!IndexByID(items') \in {-1} \cup (0 .. Len(items') - 1)
          /\ Player!IndexByID(items') # -1 =>
                 Player!At(items', Player!IndexByID(items')) = Player!Current
          /\ (\E i \in 0 .. Len(items') - 1 : Player!At(items', i) = Player!Current) =>
                 Player!IndexByID(items') # -1
      BY <2>4, CurrentIsFound
    <2>6. /\ index' \in Int /\ -1 <= index'
          /\ index' <= (IF Len(items') = 0 THEN 0 ELSE Len(items') - 1)
      BY <2>2, <2>4, <2>5
    \* a permutation loses nothing
    <2>7. \A j \in 1 .. Len(items) : \E i \in 1 .. Len(items) : f[i] = j
      <3>1. f \in Injection(1 .. Len(items), 1 .. Len(items))
        BY <2>1 DEF Injection, IsInjective, Player!IsInjective
      <3>2. IsFiniteSet(1 .. Len(items))
        BY FS_Interval
      <3>3. f \in Surjection(1 .. Len(items), 1 .. Len(items))
        BY <3>1, <3>2, FS_Injection
      <3> QED
        BY <3>3 DEF Surjection
    <2>8. active # 0 /\ ~detached /\ ~overlapped => Player!Current' = Player!Current
      <3> SUFFICES ASSUME active # 0, ~detached, ~overlapped
                   PROVE  Player!Current' = Player!Current
        OBVIOUS
      <3>1. Player!Current = {players[active].track}
        BY DEF PlayerInv, Player!ActiveIsCurrent
      <3>2. index \in 0 .. Len(items) - 1 /\ Player!Current = {items[index + 1]}
        BY <3>1 DEF Player!Current, Player!At
      <3>3. PICK i \in 1 .. Len(items) : f[i] = index + 1
        BY <2>7, <3>2
      <3>4. i - 1 \in 0 .. Len(items') - 1 /\ Player!At(items', i - 1) = Player!Current
        <4>1. items'[i] = items[index + 1]
          BY <2>4, <3>3
        <4>2. i \in 1 .. Len(items') /\ Len(items') \in Nat
          BY <2>4, LenProperties
        <4>3. (i - 1) + 1 = i /\ i - 1 \in 0 .. Len(items') - 1
          BY ONLY <4>2
        <4> QED
          BY ONLY <3>2, <4>1, <4>2, <4>3 DEF Player!At
      <3> QED
        BY <2>2, <2>5, <3>4 DEF Player!Current
    <2>9. active = 0 => ~detached
      BY DEF PlayerInv, Returned
    <2> QED
      BY <1>2, <2>2, <2>4, <2>6, <2>8, <2>9, QueueChanges
  <1> QED
    BY <1>3, <1>4, <1>5, <1>6, <1>7

LEMMA PlayRequestKeeps ==
  ASSUME PlayerInv,
         \/ Player!Stop \/ Player!StartActive \/ Player!SkipWithin \/ Player!StartCurrent
         \/ \E i \in 0 .. Len(items) - 1 : Player!SkipTo(i)
  PROVE  PlayerInv'
  <1>1. Player!Request
    BY DEF Player!Stop, Player!StartActive, Player!SkipWithin, Player!StartCurrent, Player!SkipTo
  <1> USE <1>1, RequestFacts, PlayerFacts
  <1>2. Alike(players, players)
    BY DEF Alike
  <1>3. active # 0 => Alike(players, Player!SetMode(active, "paused"))
                      /\ Alike(players, Player!SetMode(active, "playing"))
    <2>1. active # 0 => active \in 1 .. Len(players)
      OBVIOUS
    <2> QED
      BY <2>1, ModeSet
  <1>4. CASE Player!Stop
    BY <1>3, <1>4, PlayersChange DEF Player!Stop, Player!queueVars
  <1>5. CASE Player!StartActive
    BY <1>3, <1>5, PlayersChange DEF Player!StartActive, Player!queueVars
  <1>6. CASE Player!SkipWithin
    <2>1. /\ UNCHANGED <<items, index, active, starting, intent, detached>>
          /\ Alike(players, players') /\ switching' \in BOOLEAN
      BY <1>2, <1>3, <1>6 DEF Player!SkipWithin, Player!queueVars, Player!IsPlaying
    <2> QED
      BY <2>1, PlayersChange
  <1>7. CASE Player!StartCurrent
    <2>1. /\ active = 0 /\ Player!Switch("handler", index, players) /\ items' = items
          /\ intent' \in Player!Intents /\ switching' \in BOOLEAN
      BY <1>7 DEF Player!StartCurrent, Player!Intents
    <2>2. ~overlapped' => Quiet(players, 0)
      BY <2>1 DEF PlayerInv
    <2> QED
      BY <1>2, <2>1, <2>2, SwitchKeeps
  <1>8. ASSUME NEW i \in 0 .. Len(items) - 1, Player!SkipTo(i)
        PROVE  PlayerInv'
    <2>1. /\ Player!Switch("handler", i, Player!CloseActive) /\ items' = items
          /\ intent' \in Player!Intents /\ switching' \in BOOLEAN
      BY <1>8 DEF Player!SkipTo, Player!Intents
    <2>2. Alike(players, Player!CloseActive)
      BY ActiveClosed
    <2>3. ~overlapped' => Quiet(Player!CloseActive, 0)
      BY ClosedIsQuiet
    <2>4. "handler" \in Player!Actors /\ i \in Int
      OBVIOUS
    <2>5. ~overlapped' => Quiet(Player!CloseActive, 0) /\ \A b \in Player!Actors : starting[b] = 0
      BY <2>3
    <2> QED
      BY <2>1, <2>2, <2>4, <2>5, SwitchKeeps
  <1> QED
    BY <1>4, <1>5, <1>6, <1>7, <1>8

LEMMA NewTrackKeeps ==
  ASSUME PlayerInv, NEW a \in Player!Actors, Player!NewTrack(a) \/ Player!NewTrackFails(a)
  PROVE  PlayerInv'
  <1> USE PlayerFacts
  <1>1. /\ players \in Seq(Player!Player) /\ Len(players) \in Nat
        /\ starting \in [Player!Actors -> 0 .. Len(players)] /\ active \in 0 .. Len(players)
        /\ switching \in BOOLEAN /\ overlapped \in BOOLEAN
    BY LenProperties DEF PlayerInv, PlayerTypes
  <1>2. /\ starting[a] # 0 /\ starting' = [starting EXCEPT ![a] = 0]
        /\ UNCHANGED <<items, index, intent, overlapped>>
    BY DEF Player!NewTrack, Player!NewTrackFails, Player!queueVars
  <1>3. /\ starting' \in [Player!Actors -> 0 .. Len(players)] /\ starting'[a] = 0
        /\ \A b \in Player!Actors \ {a} : starting'[b] = starting[b]
        /\ ~overlapped => \A b \in Player!Actors \ {a} : starting[b] = 0
    BY <1>1, <1>2 DEF PlayerInv, OneSwitches
  <1>4. OneSwitches'
    BY <1>2, <1>3 DEF OneSwitches
  <1>5. Player!Current' = Player!Current
    BY <1>2 DEF Player!Current, Player!At
  <1>6. CASE Player!NewTrackFails(a)
    <2>1. UNCHANGED <<active, players, switching, detached>>
      BY <1>6 DEF Player!NewTrackFails
    <2>2. PlayerTypes'
      BY <1>2, <1>3, <2>1 DEF PlayerInv, PlayerTypes
    <2>3. Returned' /\ Player!ActiveIsCurrent' /\ (~overlapped' => Quiet(players', active'))
      BY <1>2, <1>5, <2>1 DEF PlayerInv, Returned, Player!ActiveIsCurrent, Quiet
    <2> QED
      BY <1>4, <2>2, <2>3 DEF PlayerInv
  <1>7. CASE Player!NewTrack(a)
    <2> DEFINE n == starting[a]
               x == [players[n] EXCEPT !.returned = TRUE]
    <2>1. n \in 1 .. Len(players) /\ players[n] \in Player!Player /\ players[n].mode # "gone"
      BY <1>1, <1>2, <1>7, PlayerParts DEF Player!NewTrack, Player!Running
    <2>2. /\ x \in Player!Player /\ x.track = players[n].track /\ x.returned
          /\ x.closed = players[n].closed /\ x.signals = players[n].signals
          /\ x.mode = players[n].mode
      BY <2>1 DEF Player!Player
    <2>3. players' = [players EXCEPT ![n] = x]
      BY <1>7, <2>1 DEF Player!NewTrack, Player!Player
    <2>4. active' = n /\ detached' = FALSE /\ switching' \in BOOLEAN
      BY <1>1, <1>7 DEF Player!NewTrack
    <2> HIDE DEF x
    <2>5. /\ players' \in Seq(Player!Player) /\ Len(players') = Len(players) /\ players'[n] = x
          /\ \A q \in 1 .. Len(players) : q # n => players'[q] = players[q]
      BY <1>1, <2>1, <2>2, <2>3, OneChanges
    <2>6. PlayerTypes'
      BY <1>2, <1>3, <2>1, <2>4, <2>5 DEF PlayerInv, PlayerTypes
    <2>7. Returned'
      BY <2>1, <2>2, <2>4, <2>5 DEF PlayerInv, Returned
    <2>8. ~overlapped => active = 0 /\ Player!Current = {players[n].track}
      BY <1>2 DEF PlayerInv, OneSwitches
    <2>9. Player!ActiveIsCurrent'
      BY <1>2, <1>5, <2>2, <2>4, <2>5, <2>8 DEF Player!ActiveIsCurrent
    <2>10. ~overlapped' => Quiet(players', active')
      BY <1>1, <1>2, <2>1, <2>2, <2>4, <2>5, <2>8 DEF PlayerInv, Quiet
    <2> QED
      BY <1>4, <2>6, <2>7, <2>9, <2>10 DEF PlayerInv
  <1> QED
    BY <1>6, <1>7

LEMMA EndOfTrackKeeps ==
  ASSUME PlayerInv, NEW p \in DOMAIN players, Player!PlayerEnds(p)
  PROVE  PlayerInv'
  <1> USE PlayerFacts
  <1>1. /\ players \in Seq(Player!Player) /\ Len(players) \in Nat /\ p \in 1 .. Len(players)
        /\ active \in 0 .. Len(players) /\ starting \in [Player!Actors -> 0 .. Len(players)]
    BY LenProperties DEF PlayerInv, PlayerTypes
  <1> DEFINE x == [players[p] EXCEPT !.mode = "gone", !.signals = players[p].returned]
  <1>2. players[p] \in Player!Player /\ players[p].mode # "gone"
    BY <1>1, PlayerParts DEF Player!PlayerEnds, Player!Running
  <1>3. /\ x \in Player!Player /\ x.track = players[p].track /\ x.returned = players[p].returned
        /\ x.closed = players[p].closed /\ x.signals = players[p].returned /\ x.mode = "gone"
    BY <1>2 DEF Player!Player
  <1>4. /\ players' = [players EXCEPT ![p] = x]
        /\ UNCHANGED <<items, index, active, starting, intent, switching, overlapped, detached>>
    BY <1>2 DEF Player!PlayerEnds, Player!queueVars, Player!Player
  <1> HIDE DEF x
  <1>5. /\ players' \in Seq(Player!Player) /\ Len(players') = Len(players) /\ players'[p] = x
        /\ \A q \in 1 .. Len(players) : q # p => players'[q] = players[q]
    BY <1>1, <1>3, <1>4, OneChanges
  <1>6. \A q \in 1 .. Len(players) :
            players'[q].track = players[q].track /\ players'[q].returned = players[q].returned
    BY <1>3, <1>5
  <1>7. Player!Current' = Player!Current
    BY <1>4 DEF Player!Current, Player!At
  <1>8. PlayerTypes'
    BY <1>4, <1>5 DEF PlayerInv, PlayerTypes
  <1>9. OneSwitches'
    <2> SUFFICES ASSUME NEW a \in Player!Actors, starting[a] # 0, ~overlapped
                 PROVE  /\ active = 0 /\ ~players'[starting[a]].returned
                        /\ Player!Current = {players'[starting[a]].track}
      BY <1>4, <1>7 DEF PlayerInv, OneSwitches
    <2>1. starting[a] \in 1 .. Len(players)
      BY <1>1
    <2> QED
      BY <1>6, <2>1 DEF PlayerInv, OneSwitches
  <1>10. Returned'
    BY <1>1, <1>3, <1>4, <1>5 DEF PlayerInv, Returned
  <1>11. Player!ActiveIsCurrent'
    BY <1>1, <1>4, <1>6, <1>7 DEF PlayerInv, Player!ActiveIsCurrent
  <1>12. ~overlapped' => Quiet(players', active')
    BY <1>1, <1>2, <1>3, <1>4, <1>5 DEF PlayerInv, Quiet
  <1> QED
    BY <1>8, <1>9, <1>10, <1>11, <1>12 DEF PlayerInv

LEMMA ReceiveKeeps ==
  ASSUME PlayerInv, NEW p \in DOMAIN players, Player!Receive(p)
  PROVE  PlayerInv'
  <1> USE PlayerFacts
  <1>1. /\ players \in Seq(Player!Player) /\ Len(players) \in Nat /\ p \in 1 .. Len(players)
        /\ active \in 0 .. Len(players) /\ starting \in [Player!Actors -> 0 .. Len(players)]
        /\ index \in Int /\ overlapped \in BOOLEAN /\ intent \in Player!Intents
        /\ switching \in BOOLEAN
    BY LenProperties DEF PlayerInv, PlayerTypes
  <1> DEFINE closed == Player!CloseActive
             x == [closed[p] EXCEPT !.signals = FALSE]
             before == [Player!CloseActive EXCEPT ![p].signals = FALSE]
  <1>2. Alike(players, closed)
    BY <1>1, ActiveClosed
  <1>3. /\ closed \in Seq(Player!Player) /\ Len(closed) = Len(players)
        /\ closed[p] \in Player!Player
    BY <1>1, <1>2, PlayerParts DEF Alike
  <1>4. ~overlapped => Quiet(closed, 0)
    BY ClosedIsQuiet
  <1> HIDE DEF closed
  <1>5. /\ x \in Player!Player /\ x.track = closed[p].track /\ x.returned = closed[p].returned
        /\ x.closed = closed[p].closed /\ ~x.signals /\ x.mode = closed[p].mode
    BY <1>3 DEF Player!Player
  <1>6. before = [closed EXCEPT ![p] = x]
    BY <1>3 DEF closed, Player!Player
  <1> HIDE DEF x, before
  <1>7. /\ before \in Seq(Player!Player) /\ Len(before) = Len(players) /\ before[p] = x
        /\ \A q \in 1 .. Len(players) : q # p => before[q] = closed[q]
    BY <1>1, <1>3, <1>5, <1>6, OneChanges
  <1>8. Alike(players, before)
    <2>1. \A q \in 1 .. Len(players) :
              /\ before[q].track = closed[q].track /\ before[q].returned = closed[q].returned
              /\ before[q].mode = closed[q].mode /\ before[q].closed = closed[q].closed
              /\ before[q].signals => closed[q].signals
      BY ONLY <1>5, <1>7
    <2> QED
      BY ONLY <1>2, <1>7, <2>1 DEF Alike
  <1>9. ~overlapped => Quiet(before, 0)
    BY <1>1, <1>3, <1>4, <1>5, <1>7 DEF Quiet
  <1>10. /\ overlapped' \in BOOLEAN /\ (overlapped => overlapped')
         /\ ~overlapped' => \A b \in Player!Actors : starting[b] = 0
         /\ UNCHANGED <<items, intent, switching>>
    BY <1>1 DEF Player!Receive
  <1>11. \/ /\ active' = 0 /\ players' = before /\ detached' = FALSE
            /\ UNCHANGED <<index, starting>>
         \/ Player!Switch("switcher", index + 1, before)
    BY DEF Player!Receive, before
  <1>12. CASE /\ active' = 0 /\ players' = before /\ detached' = FALSE
              /\ UNCHANGED <<index, starting>>
    <2>1. PlayerTypes'
      <3>1. /\ items' \in Seq(QueueTracks) /\ index' \in Int /\ -1 <= index'
            /\ index' <= (IF Len(items') = 0 THEN 0 ELSE Len(items') - 1)
        BY <1>10, <1>12 DEF PlayerInv, PlayerTypes
      <3>2. active' = 0 /\ detached' \in BOOLEAN /\ players' \in Seq(Player!Player)
            /\ Len(players') = Len(players)
        BY <1>7, <1>12
      <3> QED
        BY <1>1, <1>10, <1>12, <3>1, <3>2 DEF PlayerTypes
    <2>2. OneSwitches'
      BY <1>10, <1>12 DEF OneSwitches
    <2>3. Returned'
      BY <1>8, <1>12 DEF PlayerInv, Returned, Alike
    <2>4. Player!ActiveIsCurrent'
      BY <1>12 DEF Player!ActiveIsCurrent
    <2>5. ~overlapped' => Quiet(players', active')
      BY <1>9, <1>10, <1>12
    <2> QED
      BY <2>1, <2>2, <2>3, <2>4, <2>5 DEF PlayerInv
  <1>13. CASE Player!Switch("switcher", index + 1, before)
    <2>1. "switcher" \in Player!Actors /\ index + 1 \in Int
      BY <1>1
    <2>2. ~overlapped' => Quiet(before, 0) /\ \A b \in Player!Actors : starting[b] = 0
      BY <1>9, <1>10
    <2> QED
      BY <1>1, <1>8, <1>10, <1>13, <2>1, <2>2, SwitchKeeps
  <1> QED
    BY <1>11, <1>12, <1>13

LEMMA PlayerStep ==
  ASSUME PlayerInv, Player!Next
  PROVE  PlayerInv'
  BY QueueRequestKeeps, PlayRequestKeeps, NewTrackKeeps, EndOfTrackKeeps, ReceiveKeeps DEF Player!Next

LEMMA InitPlayer ==
  ASSUME Init
  PROVE  PlayerInv
  <1>1. Player!Init
    BY DEF Init
  <1>2. /\ items = <<>> /\ index = -1 /\ active = 0 /\ players = <<>>
        /\ starting = [a \in Player!Actors |-> 0] /\ intent = "stay"
        /\ switching = FALSE /\ overlapped = FALSE /\ detached = FALSE
    BY <1>1 DEF Player!Init
  <1>3. /\ items \in Seq(QueueTracks) /\ Len(items) = 0
        /\ players \in Seq(Player!Player) /\ Len(players) = 0
    BY <1>2, EmptySeq
  <1>4. PlayerTypes
    <2>1. starting \in [Player!Actors -> 0 .. Len(players)] /\ active \in 0 .. Len(players)
      BY <1>2, <1>3
    <2>2. intent \in Player!Intents
      BY <1>2 DEF Player!Intents
    <2>3. index \in Int /\ -1 <= index /\ index <= (IF Len(items) = 0 THEN 0 ELSE Len(items) - 1)
      BY <1>2, <1>3
    <2> QED
      BY <1>2, <1>3, <2>1, <2>2, <2>3 DEF PlayerTypes
  <1>5. OneSwitches /\ Returned /\ Player!ActiveIsCurrent /\ Quiet(players, active)
    BY <1>2, <1>3, PlayerFacts DEF OneSwitches, Returned, Player!ActiveIsCurrent, Quiet
  <1> QED
    BY <1>4, <1>5 DEF PlayerInv

LEMMA PlayerHolds == Spec => [](component = "player" => PlayerInv)
  <1> DEFINE Inv == component = "player" => PlayerInv
  <1>1. Init => Inv
    BY InitPlayer
  <1>2. Inv /\ [Next]_vars => Inv'
    <2> SUFFICES ASSUME Inv, [Next]_vars, component' = "player"
                 PROVE  PlayerInv'
      OBVIOUS
    <2>1. component = "player" /\ PlayerInv
      BY DEF Next, vars
    <2>2. CASE Next
      <3>1. Player!Next
        BY <2>1, <2>2 DEF Next
      <3> QED
        BY <2>1, <3>1, PlayerStep
    <2>3. CASE UNCHANGED vars
      <3>1. UNCHANGED playerVars
        BY <2>3 DEF vars, devices
      <3> QED
        BY <2>1, <3>1
           DEF playerVars, PlayerInv, PlayerTypes, OneSwitches, Returned, Quiet,
               Player!ActiveIsCurrent, Player!Current, Player!At
    <2> QED
      BY <2>2, <2>3
  <1> QED
    BY <1>1, <1>2, PTL DEF Spec

\* The track that plays is the one the queue shows, nothing plays beside it, and a signal is taken
\* for the end of the track it is of, however requests, ends of tracks and failures of mpv come,
\* until a request and a switch of tracks overlap (core/playback/device.go, queue.go, mpv/track.go).
THEOREM JukeboxPlaysItsQueueHolds == Spec => []JukeboxPlaysItsQueue
  <1> DEFINE Inv == component = "player" => PlayerInv
  <1>1. Inv => JukeboxPlaysItsQueue
    <2> SUFFICES ASSUME PlayerInv
                 PROVE  Player!ActiveIsCurrent /\ Player!OnePlayer /\ Player!SignalsAreTimely
      BY DEF JukeboxPlaysItsQueue
    <2>1. DOMAIN players = 1 .. Len(players)
      BY LenProperties DEF PlayerInv, PlayerTypes
    <2> QED
      BY <2>1 DEF PlayerInv, Quiet, Player!OnePlayer, Player!SignalsAreTimely, Player!Running
  <1> QED
    BY <1>1, PlayerHolds, PTL
-----------------------------------------------------------------------------
(* Types *)

\* A handle does not fetch more than its budget.
BudgetKept ==
    /\ fileSize \in FileSizes /\ tagEnd \in 0 .. fileSize
    /\ budget \in Budgets /\ fetched \in 0 .. budget

LEMMA BudgetStep ==
  ASSUME FileInv, BudgetKept, [File!Next]_fileVars
  PROVE  BudgetKept'
  <1>1. budget \in Nat /\ fetched \in Nat /\ fetched <= budget
    BY FileConstants DEF BudgetKept
  <1>2. CASE File!Fetch
    <2>1. File!Length \in Nat
      BY <1>2, HeadGrows, TailGrows, WindowMoves DEF File!Fetch
    <2>2. /\ ~(budget > 0 /\ fetched + File!Length > budget)
          /\ fetched' = IF budget > 0 THEN fetched + File!Length ELSE 0
          /\ UNCHANGED <<fileSize, tagEnd, budget>>
      BY <1>2 DEF File!Fetch, File!OverBudget
    <2>3. fetched' \in 0 .. budget
      BY <1>1, <2>1, <2>2
    <2> QED
      BY <2>2, <2>3 DEF BudgetKept
  <1>3. CASE ~File!Fetch
    <2>1. UNCHANGED <<fileSize, tagEnd, budget, fetched>>
      BY <1>3 DEF File!Next, File!ReadAt, File!FromCache, File!FetchFails, File!ReadEnds, File!Done,
                  File!windows, fileVars
    <2> QED
      BY <2>1 DEF BudgetKept
  <1> QED
    BY <1>2, <1>3

LEMMA InitBudget ==
  ASSUME File!Init
  PROVE  BudgetKept
  BY FileConstants DEF File!Init, BudgetKept

\* A run of the file is of its offsets.
LEMMA RunsAreOffsets ==
  ASSUME fileSize \in Nat, NEW base \in Nat, NEW bytes \in Seq(Int), base + Len(bytes) <= fileSize,
         bytes = File!Bytes(base, Len(bytes))
  PROVE  bytes \in Seq(0 .. fileSize - 1) /\ base \in 0 .. fileSize
  <1>1. Len(bytes) \in Nat
    BY LenProperties
  <1> DEFINE n == Len(bytes)
  <1>2. bytes = [i \in 1 .. n |-> base + i - 1]
    BY DEF File!Bytes
  <1> HIDE DEF n
  <1>3. n \in Nat /\ base + n <= fileSize
    BY <1>1 DEF n
  <1>4. \A i \in 1 .. n : base + i - 1 \in 0 .. fileSize - 1
    BY <1>3
  <1>5. [i \in 1 .. n |-> base + i - 1] \in [1 .. n -> 0 .. fileSize - 1]
    BY <1>4
  <1>6. bytes \in Seq(0 .. fileSize - 1)
    BY <1>2, <1>3, <1>5, SeqDef
  <1> QED
    BY <1>3, <1>6

LEMMA FileTyped == FileInv /\ BudgetKept => File!TypeOK
  <1> SUFFICES ASSUME FileInv, BudgetKept
               PROVE  File!TypeOK
    OBVIOUS
  <1>1. fileSize \in Nat /\ off \in Nat /\ want \in Nat /\ off + want <= fileSize
    BY DEF FileInv, FileTypes
  <1>2. /\ head \in Seq(0 .. fileSize - 1) /\ tail \in Seq(0 .. fileSize - 1)
        /\ mid \in Seq(0 .. fileSize - 1)
        /\ tailOff \in 0 .. fileSize /\ midOff \in 0 .. fileSize
    BY <1>1, RunsAreOffsets DEF FileInv, WindowsAreRuns, IsRun
  <1>3. out \in Seq(0 .. fileSize - 1)
    <2>1. out \in Seq(Int) /\ Len(out) \in Nat /\ Len(out) <= want
          /\ out = File!Bytes(off, Len(out))
      BY LenProperties DEF FileInv, OutIsRun
    <2>2. off + Len(out) <= fileSize
      BY <1>1, <2>1
    <2> QED
      BY <1>1, <2>1, <2>2, RunsAreOffsets
  <1>4. off \in 0 .. fileSize /\ want \in 0 .. fileSize
    BY <1>1
  <1>5. reading \in {"no", "yes", "short", "panic"}
    BY DEF FileInv, FileTypes
  <1> QED
    BY <1>2, <1>3, <1>4, <1>5 DEF BudgetKept, File!TypeOK

\* The requests for the switches are counted.
Asked == asked \in 0 .. MaxSwitchRequests

LEMMA StoreFacts ==
  ASSUME TRUE
  PROVE  Prefix \subseteq Keys /\ (CHOOSE k \in Keys : TRUE) \in Keys
  <1>1. Prefix \subseteq Keys /\ \E k \in Keys : TRUE
    BY ResourcesAssumption DEF Store!StoreAssumption
  <1> QED
    BY <1>1

LEMMA StoreStep ==
  ASSUME Store!TypeOK, [Store!Next]_storeVars
  PROVE  Store!TypeOK'
  <1> USE StoreFacts
  <1>1. CASE UNCHANGED storeVars
    BY <1>1 DEF storeVars, Store!TypeOK
  <1>2. ASSUME NEW c \in StoreCalls, NEW k \in Keys, NEW s \in ValueSizes, NEW t \in Store!Expiry,
               Store!SetValue(c, k, s, t)
        PROVE  Store!TypeOK'
    <2>1. Store!OldSize(k) \in ValueSizes \cup {0}
      BY DEF Store!TypeOK, Store!OldSize
    <2> QED
      BY <1>2, <2>1 DEF Store!TypeOK, Store!SetValue, Store!rows
  <1>3. ASSUME NEW c \in StoreCalls, Store!CheckStorageLimit(c)
        PROVE  Store!TypeOK'
    BY <1>3 DEF Store!TypeOK, Store!CheckStorageLimit, Store!Return, Store!rows, Store!Expiry
  <1>4. ASSUME NEW c \in StoreCalls, Store!Upsert(c)
        PROVE  Store!TypeOK'
    BY <1>4 DEF Store!TypeOK, Store!Upsert, Store!Return, Store!Expiry
  <1>5. ASSUME NEW ks \in SUBSET Keys, Store!Gone(ks)
        PROVE  Store!TypeOK'
    BY <1>5 DEF Store!TypeOK, Store!Gone, Store!Holding, Store!locals, Store!Expiry
  <1>6. ASSUME NEW k \in Keys, Store!Expire(k)
        PROVE  Store!TypeOK'
    BY <1>6 DEF Store!TypeOK, Store!Expire, Store!Holding, Store!locals, Store!Expiry
  <1>7. ASSUME NEW c \in StoreCalls, NEW k \in Keys, NEW s \in ValueSizes,
               Store!Set(c, k, s) \/ Store!SetWithTTL(c, k, s)
        PROVE  Store!TypeOK'
    BY <1>2, <1>7 DEF Store!Set, Store!SetWithTTL, Store!Expiry
  <1>8. ASSUME NEW k \in Keys, Store!Delete(k)
        PROVE  Store!TypeOK'
    BY <1>5, <1>8 DEF Store!Delete
  <1>9. CASE Store!DeleteByPrefix \/ Store!CleanupExpired
    BY <1>5, <1>9 DEF Store!DeleteByPrefix, Store!CleanupExpired, Store!Expired
  <1> QED
    BY <1>1, <1>3, <1>4, <1>6, <1>7, <1>8, <1>9 DEF Store!Next

LEMMA InitStore ==
  ASSUME Store!Init
  PROVE  Store!TypeOK
  BY StoreFacts DEF Store!Init, Store!TypeOK, Store!Expiry

\* A decision is to play the file, to transcode it, or neither.
LEMMA Decisions ==
  ASSUME NEW src, NEW suffix, NEW listener
  PROVE  Decider!MakeDecision(src, suffix, listener).kind \in {"direct", "transcode", "none"}
  BY DEF Decider!MakeDecision

LEMMA TokenMade ==
  ASSUME NEW r, Decider!Decide(r), token = Decider!NoToken \/ token.decision.kind \in {"direct", "transcode"}
  PROVE  token' = Decider!NoToken \/ token'.decision.kind \in {"direct", "transcode"}
  <1> DEFINE decision == Decider!MakeDecision(Decider!SourceStream(r), r.file.suffix, ask.client)
  <1>1. decision.kind \in {"direct", "transcode", "none"}
    BY Decisions
  <1>2. token' = IF decision.kind = "none" THEN token
                 ELSE [decision |-> decision, client |-> ask.client, made |-> r.at,
                       ua |-> Decider!Second(r.at)]
    BY DEF Decider!Decide
  <1> HIDE DEF decision
  <1> QED
    BY <1>1, <1>2

LEMMA DeciderFacts == MaxTime \in Nat
  <1>1. Decider!DeciderAssumption
    BY ResourcesAssumption
  <1> QED
    BY <1>1 DEF Decider!DeciderAssumption

LEMMA DeciderStep ==
  ASSUME Decider!TypeOK, [Decider!Next]_deciderVars
  PROVE  Decider!TypeOK'
  <1> USE DEF Decider!TypeOK
  <1>0. MaxTime \in Nat
    BY DeciderFacts
  <1>1. CASE UNCHANGED deciderVars
    BY <1>1 DEF deciderVars
  <1>2. ASSUME NEW f \in AudioFiles, Decider!Replace(f)
        PROVE  Decider!TypeOK'
    BY <1>0, <1>2 DEF Decider!Replace
  <1>3. CASE Decider!Scan
    BY <1>3 DEF Decider!Scan, Decider!Rows
  <1>4. ASSUME NEW c \in AudioClients, Decider!ReadRow(c)
        PROVE  Decider!TypeOK'
    BY <1>4 DEF Decider!ReadRow, Decider!Rows
  <1>5. CASE Decider!AlreadyProbed
    BY <1>5, TokenMade DEF Decider!AlreadyProbed
  <1>6. CASE Decider!ProbeAudioStream
    <2>1. /\ ask.at = "read" /\ UNCHANGED <<disk, media, token, crossed>>
          /\ \/ ask' = [ask EXCEPT !.at = "probed", !.probe = {disk.file}]
             \/ ask' = Decider!Idle
      BY <1>6 DEF Decider!ProbeAudioStream
    <2>2. /\ ask \in [at : {"read", "probed"}, client : AudioClients, row : Decider!Rows,
                      probe : SUBSET AudioFiles]
          /\ {disk.file} \in SUBSET AudioFiles
      BY <2>1 DEF Decider!Idle
    <2> HIDE DEF Decider!TypeOK
    <2>3. ask' = Decider!Idle \/ ask' \in [at : {"read", "probed"}, client : AudioClients,
                                          row : Decider!Rows, probe : SUBSET AudioFiles]
      BY <2>1, <2>2
    <2> QED
      BY <2>1, <2>3 DEF Decider!TypeOK
  <1>7. CASE Decider!UpdateProbeData
    <2>1. /\ ask.at = "probed" /\ ask' = Decider!Idle
          /\ media' = [media EXCEPT !.probe = ask.probe] \/ media' = media
          /\ Decider!Decide([ask.row EXCEPT !.probe = ask.probe])
          /\ UNCHANGED <<disk, crossed>>
      BY <1>7 DEF Decider!UpdateProbeData
    <2>2. token' = Decider!NoToken \/ token'.decision.kind \in {"direct", "transcode"}
      BY <2>1, TokenMade
    <2>3. ask.probe \in SUBSET AudioFiles
      BY <2>1 DEF Decider!Idle
    <2>4. media' \in Decider!Rows
      BY <2>1, <2>3 DEF Decider!Rows
    <2> QED
      BY <2>1, <2>2, <2>4
  <1> QED
    BY <1>1, <1>2, <1>3, <1>4, <1>5, <1>6, <1>7 DEF Decider!Next

LEMMA InitDecider ==
  ASSUME Decider!Init
  PROVE  Decider!TypeOK
  <1>1. PICK f \in AudioFiles : disk = [file |-> f, at |-> 0]
    BY DEF Decider!Init
  <1>2. /\ media = [file |-> f, at |-> 0, probe |-> {}] /\ ask = Decider!Idle
        /\ token = Decider!NoToken /\ crossed = FALSE
    BY <1>1 DEF Decider!Init
  <1>3. 0 \in 0 .. MaxTime
    BY DeciderFacts
  <1>4. disk \in [file : AudioFiles, at : 0 .. MaxTime] /\ media \in Decider!Rows
    BY <1>1, <1>2, <1>3 DEF Decider!Rows
  <1> QED
    BY <1>2, <1>4 DEF Decider!TypeOK

\* What the invariants of the components lack.
Others == BudgetKept /\ Asked /\ Store!TypeOK /\ Decider!TypeOK

LEMMA OthersHold == Spec => [](CloudInv /\ Others)
  <1>1. Init => Others
    <2>1. MaxSwitchRequests \in Nat
      BY ResourcesAssumption DEF Switches!SwitchesAssumption
    <2> QED
      BY <2>1, InitBudget, InitStore, InitDecider DEF Init, Others, Asked, Switches!Init
  <1>2. CloudInv /\ Others /\ [Next]_vars => Others'
    <2> SUFFICES ASSUME CloudInv, Others, [Next]_vars
                 PROVE  Others'
      OBVIOUS
    <2>1. /\ [File!Next]_fileVars /\ [Switches!Next]_switchVars
          /\ [Store!Next]_storeVars /\ [Decider!Next]_deciderVars
      BY DEF Next, vars, cloud, plugin, streaming
    <2>2. Asked'
      BY <2>1, ResourcesAssumption
         DEF Others, Asked, switchVars, Switches!Next, Switches!Loads, Switches!Puts,
             Switches!SwitchesAssumption
    <2> QED
      BY <2>1, <2>2, BudgetStep, StoreStep, DeciderStep DEF CloudInv, Others
  <1> QED
    BY <1>1, <1>2, CloudHolds, PTL DEF Spec

LEMMA ComponentsTyped ==
  ASSUME WatchersInv \/ component # "watchers", CloudInv, Others,
         PlayerInv \/ component # "player"
  PROVE  /\ component = "watchers" => Watchers!TypeOK
         /\ Links!TypeOK /\ File!TypeOK /\ Switches!TypeOK
         /\ component = "player" => Player!TypeOK
  <1>1. WatchersInv => Watchers!TypeOK
    BY WatcherFacts DEF WatchersInv, WatcherTypes, Registry, Watchers!TypeOK
  <1>2. Links!TypeOK
    BY LinkFacts DEF CloudInv, LinksInv, LinkTypes, Links!TypeOK, Links!Links
  <1>3. File!TypeOK
    BY FileTyped DEF CloudInv, Others
  <1>4. Switches!TypeOK
    BY DEF CloudInv, Others, Asked, SwitchesInv, SwitchTypes, Switches!TypeOK
  <1>5. PlayerInv => Player!TypeOK
    <2> SUFFICES ASSUME PlayerInv
                 PROVE  Player!TypeOK
      OBVIOUS
    <2>1. Len(items) \in Nat
      BY LenProperties DEF PlayerInv, PlayerTypes
    <2>2. index \in -1 .. Player!Larger(0, Len(items) - 1)
      BY <2>1 DEF PlayerInv, PlayerTypes, Player!Larger
    <2> QED
      BY <2>2 DEF PlayerInv, PlayerTypes, Player!TypeOK
  <1> QED
    BY <1>1, <1>2, <1>3, <1>4, <1>5

\* The variables of every component have their types; among them, no more of a file is fetched than
\* its budget, and no more than its limits taken of what is counted.
THEOREM TypesHold == Spec => []TypeOK
  <1>1. /\ CapacityInv
        /\ component = "cache" => CacheInv
        /\ component = "plugins" => PluginInv
        /\ component = "watchers" => WatchersInv
        /\ component = "player" => PlayerInv
        /\ CloudInv /\ Others
        => TypeOK
    BY ComponentsTyped
       DEF CapacityInv, ThrottleInv, LimiterInv, CacheInv, PluginInv, PluginTypes, Others, TypeOK
  <1> QED
    BY <1>1, CapacityHolds, CacheHolds, PluginsHold, WatchersHold, PlayerHolds, OthersHold, PTL

-----------------------------------------------------------------------------
(* Tokens *)

\* An accepted token carries what is decided of the file as it is, but for a scan that came between
\* a probe and its storing, and for files that change within the second.
TokensAreOfTheFile ==
    /\ Decider!ResolvesFromToken /\ media.at = disk.at /\ ~crossed
    /\ token.made # media.at => Decider!Second(token.made) # Decider!Second(media.at)
    => token.decision = Decider!MakeDecision(disk.file.stream, disk.file.suffix, token.client)

\* What a row says of the file, if it has its time.
OfTheFile(r) ==
    r.at = disk.at =>
        /\ r.file = disk.file
        /\ r.probe # {} /\ ~crossed => r.probe = {disk.file}

\* Rows are older than the file, and what a request has read of one is older than the row.
RowsAreOlder ==
    /\ media.at <= disk.at /\ OfTheFile(media)
    /\ ask.at # "idle" => ask.row.at <= media.at /\ OfTheFile(ask.row)
    /\ ask.at = "probed" /\ media.at = disk.at /\ ~crossed => ask.probe = {disk.file}

TokenIsOfARow ==
    token # Decider!NoToken =>
        /\ token.made \in Nat /\ token.made <= media.at
        /\ token.ua = Decider!Second(token.made)
        /\ token.made = disk.at /\ ~crossed =>
             token.decision = Decider!MakeDecision(disk.file.stream, disk.file.suffix, token.client)

DeciderInv == Decider!TypeOK /\ RowsAreOlder /\ TokenIsOfARow

LEMMA DeciderParts ==
  ASSUME Decider!TypeOK
  PROVE  /\ disk.file \in AudioFiles /\ disk.at \in Nat /\ media.at \in Nat /\ media.file \in AudioFiles
         /\ ask.at # "idle" => /\ ask.at \in {"read", "probed"} /\ ask.row \in Decider!Rows
                               /\ ask.row.at \in Nat
  <1>1. 0 .. MaxTime \subseteq Nat
    BY DeciderFacts
  <1> QED
    BY <1>1 DEF Decider!TypeOK, Decider!Idle, Decider!Rows

\* The source is what was probed.
LEMMA SourceIsProbed ==
  ASSUME NEW r, NEW f, r.probe = {f}
  PROVE  Decider!SourceStream(r) = f.stream
  <1>1. (CHOOSE g \in {f} : TRUE) = f
    OBVIOUS
  <1> QED
    BY <1>1 DEF Decider!SourceStream

\* A token is made of a row as old as the request's, and if that is the file's, of the file.
LEMMA TokenIsDecided ==
  ASSUME DeciderInv, NEW r, Decider!Decide(r), r.at \in Nat, r.at <= media.at,
         UNCHANGED <<disk, crossed>>, media'.at = media.at,
         r.at = disk.at /\ ~crossed => r.file = disk.file /\ r.probe = {disk.file}
  PROVE  TokenIsOfARow'
  <1> DEFINE decision == Decider!MakeDecision(Decider!SourceStream(r), r.file.suffix, ask.client)
             made     == [decision |-> decision, client |-> ask.client, made |-> r.at,
                          ua |-> Decider!Second(r.at)]
  <1>1. token' = token \/ token' = made
    BY DEF Decider!Decide
  <1>2. CASE token' = token
    BY <1>2 DEF DeciderInv, TokenIsOfARow
  <1>3. CASE token' = made
    <2>1. r.at = disk.at /\ ~crossed =>
              decision = Decider!MakeDecision(disk.file.stream, disk.file.suffix, ask.client)
      BY SourceIsProbed
    <2> HIDE DEF decision
    <2>2. /\ token'.made = r.at /\ token'.ua = Decider!Second(r.at)
          /\ token'.decision = decision /\ token'.client = ask.client
      BY <1>3
    <2> QED
      BY <2>1, <2>2 DEF TokenIsOfARow
  <1> QED
    BY <1>1, <1>2, <1>3

LEMMA TokenStep ==
  ASSUME DeciderInv, [Decider!Next]_deciderVars
  PROVE  DeciderInv'
  <1> USE DeciderParts DEF DeciderInv
  <1>0. Decider!TypeOK'
    BY DeciderStep
  <1>1. CASE UNCHANGED deciderVars
    BY <1>0, <1>1 DEF deciderVars, RowsAreOlder, OfTheFile, TokenIsOfARow
  <1>2. ASSUME NEW f \in AudioFiles, Decider!Replace(f)
        PROVE  DeciderInv'
    <2>1. /\ disk'.at \in Nat /\ disk.at < disk'.at /\ UNCHANGED <<media, ask, token, crossed>>
      BY <1>2, DeciderFacts DEF Decider!Replace
    <2> QED
      BY <1>0, <2>1 DEF RowsAreOlder, OfTheFile, TokenIsOfARow
  <1>3. CASE Decider!Scan
    <2>1. /\ media.at < disk.at /\ media'.at = disk.at /\ media'.file = disk.file
          /\ media'.probe = {} /\ UNCHANGED <<disk, ask, token>>
          /\ crossed' = (crossed \/ (ask.at = "probed" /\ ask.probe # {disk.file}))
      BY <1>3 DEF Decider!Scan
    <2>2. RowsAreOlder'
      <3>1. OfTheFile(media)'
        BY <2>1 DEF OfTheFile
      <3>2. /\ disk.at \in Nat /\ media.at \in Nat /\ media'.at <= disk'.at
            /\ ask.at # "idle" => ask.row.at \in Nat /\ ask.row.at <= media.at
        BY <2>1 DEF RowsAreOlder
      <3>3. ask'.at # "idle" => ask'.row.at <= media'.at /\ ask'.row.at # disk'.at
        BY <2>1, <3>2
      <3>4. ask'.at # "idle" => OfTheFile(ask.row)'
        BY <3>3 DEF OfTheFile
      <3>5. ask'.at = "probed" /\ ~crossed' => ask'.probe = {disk'.file}
        BY <2>1
      <3> QED
        BY <3>1, <3>2, <3>3, <3>4, <3>5 DEF RowsAreOlder
    <2>3. TokenIsOfARow'
      BY <2>1 DEF TokenIsOfARow
    <2> QED
      BY <1>0, <2>2, <2>3
  <1>4. ASSUME NEW c \in AudioClients, Decider!ReadRow(c)
        PROVE  DeciderInv'
    <2>1. /\ ask'.at = "read" /\ ask'.row = media /\ UNCHANGED <<disk, media, token, crossed>>
      BY <1>4 DEF Decider!ReadRow
    <2> QED
      BY <1>0, <2>1 DEF RowsAreOlder, OfTheFile, TokenIsOfARow
  <1>5. CASE Decider!AlreadyProbed
    <2>1. /\ ask.at = "read" /\ ask.row.probe # {} /\ Decider!Decide(ask.row)
          /\ ask'.at = "idle" /\ UNCHANGED <<disk, media, crossed>>
      BY <1>5 DEF Decider!AlreadyProbed, Decider!Idle
    <2>2. RowsAreOlder'
      BY <2>1 DEF RowsAreOlder, OfTheFile
    <2>3. TokenIsOfARow'
      BY <2>1, TokenIsDecided DEF RowsAreOlder, OfTheFile
    <2> QED
      BY <1>0, <2>2, <2>3
  <1>6. CASE Decider!ProbeAudioStream
    <2>1. /\ ask.at = "read" /\ UNCHANGED <<disk, media, token, crossed>>
          /\ ask' = [ask EXCEPT !.at = "probed", !.probe = {disk.file}] \/ ask' = Decider!Idle
      BY <1>6 DEF Decider!ProbeAudioStream
    <2>2. ask \in [at : {"read", "probed"}, client : AudioClients, row : Decider!Rows,
                  probe : SUBSET AudioFiles]
      BY <2>1 DEF Decider!Idle, Decider!TypeOK
    <2>3. \/ ask'.at = "idle"
          \/ ask'.row = ask.row /\ ask'.at = "probed" /\ ask'.probe = {disk.file}
      <3> DEFINE probing == [ask EXCEPT !.at = "probed", !.probe = {disk.file}]
      <3>1. probing.row = ask.row /\ probing.at = "probed" /\ probing.probe = {disk.file}
        BY ONLY <2>2
      <3>2. Decider!Idle.at = "idle"
        BY DEF Decider!Idle
      <3> HIDE DEF probing
      <3>3. ask' = probing \/ ask' = Decider!Idle
        BY <2>1 DEF probing
      <3> QED
        BY <3>1, <3>2, <3>3
    <2> QED
      BY <1>0, <2>1, <2>3 DEF RowsAreOlder, OfTheFile, TokenIsOfARow
  <1>7. CASE Decider!UpdateProbeData
    <2> DEFINE r == [ask.row EXCEPT !.probe = ask.probe]
    <2>1. /\ ask.at = "probed" /\ Decider!Decide(r)
          /\ media' = [media EXCEPT !.probe = ask.probe] \/ media' = media
          /\ ask' = Decider!Idle /\ UNCHANGED <<disk, crossed>>
      BY <1>7 DEF Decider!UpdateProbeData
    <2>2. /\ r.at = ask.row.at /\ r.file = ask.row.file /\ r.probe = ask.probe
      BY <2>1 DEF Decider!Rows
    <2>3. /\ media'.at = media.at /\ media'.file = media.file
          /\ media'.probe = ask.probe \/ media'.probe = media.probe
      BY <2>1 DEF Decider!TypeOK, Decider!Rows
    <2>4. ask'.at = "idle"
      BY <2>1 DEF Decider!Idle
    <2>5. RowsAreOlder'
      BY <2>1, <2>3, <2>4 DEF RowsAreOlder, OfTheFile
    <2>6. /\ r.at \in Nat /\ r.at <= media.at
          /\ r.at = disk.at /\ ~crossed => r.file = disk.file /\ r.probe = {disk.file}
      BY <2>1, <2>2 DEF RowsAreOlder, OfTheFile
    <2> HIDE DEF r
    <2>7. TokenIsOfARow'
      BY <2>1, <2>3, <2>6, TokenIsDecided
    <2> QED
      BY <1>0, <2>5, <2>7
  <1> QED
    BY <1>1, <1>2, <1>3, <1>4, <1>5, <1>6, <1>7 DEF Decider!Next

LEMMA InitToken ==
  ASSUME Decider!Init
  PROVE  DeciderInv
  <1>1. Decider!TypeOK
    BY InitDecider
  <1>2. PICK f \in AudioFiles : disk = [file |-> f, at |-> 0]
    BY DEF Decider!Init
  <1>3. /\ media = [file |-> f, at |-> 0, probe |-> {}] /\ ask.at = "idle"
        /\ token = Decider!NoToken
    BY <1>2 DEF Decider!Init, Decider!Idle
  <1> QED
    BY <1>1, <1>2, <1>3 DEF DeciderInv, RowsAreOlder, OfTheFile, TokenIsOfARow

LEMMA DeciderHolds == Spec => []DeciderInv
  <1>1. Init => DeciderInv
    BY InitToken DEF Init
  <1>2. DeciderInv /\ [Next]_vars => DeciderInv'
    <2>1. [Next]_vars => [Decider!Next]_deciderVars
      BY DEF Next, vars, streaming
    <2> QED
      BY <2>1, TokenStep
  <1> QED
    BY <1>1, <1>2, PTL DEF Spec

\* What is stored as a file's probe is of that file, and what an accepted token plays was decided of
\* that file, through every interleaving of replacements, scans, probes and requests, unless a scan
\* came between a probe and its storing (core/stream/decider.go, token.go): the part of LimitsAreKept
\* that is not about the values of the decision.
THEOREM TokensAreOfTheFileHolds ==
    Spec => [](Decider!ProbesAreOfTheFile /\ TokensAreOfTheFile)
  <1>1. DeciderInv => Decider!ProbesAreOfTheFile /\ TokensAreOfTheFile
    <2> SUFFICES ASSUME DeciderInv
                 PROVE  Decider!ProbesAreOfTheFile /\ TokensAreOfTheFile
      OBVIOUS
    <2>1. Decider!ProbesAreOfTheFile
      BY DEF DeciderInv, RowsAreOlder, OfTheFile, Decider!ProbesAreOfTheFile
    <2>2. TokensAreOfTheFile
      BY DEF DeciderInv, TokenIsOfARow, TokensAreOfTheFile, Decider!ResolvesFromToken
    <2> QED
      BY <2>1, <2>2
  <1> QED
    BY <1>1, DeciderHolds, PTL
=============================================================================
