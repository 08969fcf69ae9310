----------------------------- MODULE PlaySessions -----------------------------
(***************************************************************************)
(* The session of a player (core/scrobbler/play_tracker.go): the requests  *)
(* that report what it plays, the cache that forgets the session when its  *)
(* time has passed, and the worker that hands reports to the scrobblers    *)
(* (playbackreport_worker.go).  Sessions of different players share only   *)
(* the queue, which keeps the order of each.                               *)
(*                                                                         *)
(* The k-th session is number k.  The cache looks at one entry at a time:  *)
(* a request reads it in one step and writes it in another, an entry whose *)
(* time has passed is hidden from requests until it is evicted, and the    *)
(* callback of an eviction runs in a goroutine of its own.  "playing" is   *)
(* also said of a track that starts or is paused; where these differ they  *)
(* are actions of their own.  Reports are handed over in the order they    *)
(* were queued; the queue is represented by the ends it reports.           *)
(***************************************************************************)
EXTENDS Naturals, Sequences, FiniteSets

CONSTANTS
    Handlers,       \* requests of the player at a time
    Tracks,
    MaxRequests     \* bound: requests

\* what the constants satisfy
SessionsAssumption == MaxRequests \in Nat

VARIABLES
    current, expired,      \* playMap: the player's session, and whether its time has passed
    track, sessions,       \* the track of a session, sessions so far
    requests,
    pc, held, op,          \* of a request: its place, its session, its state
    evicted,               \* sessions whose callback is still to run
    prQueue, prSignal,     \* the queue and the signal of the worker
    batch,                 \* reports the worker has taken
    delivered,             \* sessions whose end scrobblers have been told
    \* history: sessions with a report queued after the end; replaced or deleted without a
    \* report; read by two requests at a time, or evicted or replaced while
    \* a request had read them
    again, superseded, raced

playMap == <<current, expired, track, sessions>>
handler == <<requests, pc, held, op>>
queue   == <<prQueue, prSignal, batch, delivered>>
history == <<again, superseded, raced>>
vars    == <<playMap, handler, evicted, queue, history>>

None     == 0
Sessions == 1 .. MaxRequests

Init ==
    /\ current = None /\ expired = FALSE
    /\ track = <<>> /\ sessions = 0
    /\ requests = 0
    /\ pc = [h \in Handlers |-> "idle"] /\ held = [h \in Handlers |-> None]
    /\ op = [h \in Handlers |-> "playing"]
    /\ evicted = {}
    /\ prQueue = {} /\ prSignal = FALSE /\ batch = {}
    /\ delivered = {} /\ again = {} /\ superseded = {} /\ raced = {}

HeldBy(hs) == {held[h] : h \in hs} \ {None}
Live == IF expired THEN None ELSE current

MutSignal == prSignal    \* mutant: the worker is not woken
Signal == TRUE

Ended == prQueue \cup batch \cup delivered

Enqueue(state, s) ==
    /\ prQueue' = IF state = "playing" THEN prQueue ELSE prQueue \cup ({s} \ {None})
    /\ prSignal' = Signal
    /\ again' = again \cup ({s} \cap Ended)
    /\ UNCHANGED <<batch, delivered>>

Overlap(s) == raced' = raced \cup ({s} \cap HeldBy(Handlers))

\* a session of its own for the track
NewSession(t) == sessions' = sessions + 1 /\ track' = Append(track, t)

Goto(h, place) == pc' = [pc EXCEPT ![h] = place]

-----------------------------------------------------------------------------
(* ReportPlayback *)

\* the map is asked first, unless the track starts
Starting(h, t) ==
    /\ pc[h] = "idle" /\ requests < MaxRequests
    /\ requests' = requests + 1
    /\ op' = [op EXCEPT ![h] = "playing"]
    /\ NewSession(t)
    /\ held' = [held EXCEPT ![h] = sessions']
    /\ Goto(h, "store")
    /\ UNCHANGED <<current, expired, evicted, queue, history>>

SameTrack(t) == Live # None /\ track[Live] = t

Playing(h, t) ==
    /\ pc[h] = "idle" /\ requests < MaxRequests
    /\ requests' = requests + 1
    /\ op' = [op EXCEPT ![h] = "playing"]
    /\ IF SameTrack(t) THEN UNCHANGED <<track, sessions>> ELSE NewSession(t)
    /\ held' = [held EXCEPT ![h] = IF SameTrack(t) THEN Live ELSE sessions']
    /\ Overlap(held'[h])
    /\ Goto(h, "store")
    /\ UNCHANGED <<current, expired, evicted, queue, again, superseded>>

Stopped(h) ==
    /\ pc[h] = "idle" /\ requests < MaxRequests
    /\ requests' = requests + 1
    /\ op' = [op EXCEPT ![h] = "stopped"]
    /\ held' = [held EXCEPT ![h] = Live]
    /\ Overlap(Live)
    /\ Goto(h, "report")
    /\ UNCHANGED <<playMap, evicted, queue, again, superseded>>

HeldElsewhere(h) == HeldBy(Handlers \ {h})
Lost(h) == {current} \ {None, held[h]}

Store(h) ==
    /\ pc[h] = "store"
    /\ current' = held[h] /\ expired' = FALSE
    /\ superseded' = superseded \cup Lost(h)
    /\ raced' = raced \cup (Lost(h) \cap HeldElsewhere(h))
    /\ Goto(h, "report")
    /\ UNCHANGED <<track, sessions, requests, held, op, evicted, queue, again>>

MutAfterReport(h) == "idle"    \* mutant: the stopped session stays in the map
AfterReport(h) == IF op[h] = "stopped" THEN "remove" ELSE "idle"

Report(h) ==
    /\ pc[h] = "report"
    /\ Enqueue(op[h], held[h])
    /\ Goto(h, AfterReport(h))
    /\ held' = IF AfterReport(h) = "idle" THEN [held EXCEPT ![h] = None] ELSE held
    /\ op' = IF AfterReport(h) = "idle" THEN [op EXCEPT ![h] = "playing"] ELSE op
    /\ UNCHANGED <<playMap, requests, evicted, superseded, raced>>

\* whatever session is there by now
Remove(h) ==
    /\ pc[h] = "remove"
    /\ current' = None /\ expired' = FALSE
    /\ superseded' = superseded \cup Lost(h)
    /\ raced' = raced \cup (Lost(h) \cap HeldElsewhere(h))
    /\ Goto(h, "idle")
    /\ held' = [held EXCEPT ![h] = None] /\ op' = [op EXCEPT ![h] = "playing"]
    /\ UNCHANGED <<track, sessions, requests, evicted, queue, again>>

-----------------------------------------------------------------------------
(* Time, and the callback of the cache *)

Expire ==
    /\ current # None /\ ~expired
    /\ expired' = TRUE
    /\ UNCHANGED <<current, track, sessions, handler, evicted, queue, history>>

Evict ==
    /\ current # None /\ expired
    /\ evicted' = evicted \cup {current}
    /\ raced' = raced \cup ({current} \cap HeldBy(Handlers))
    /\ current' = None /\ expired' = FALSE
    /\ UNCHANGED <<track, sessions, handler, queue, again, superseded>>

OnExpiration(s) ==
    /\ s \in evicted
    /\ evicted' = evicted \ {s}
    /\ Enqueue("expired", s)
    /\ UNCHANGED <<playMap, handler, superseded, raced>>

-----------------------------------------------------------------------------
(* The worker *)

Swap ==
    /\ batch = {} /\ prSignal
    /\ prSignal' = FALSE
    /\ batch' = prQueue /\ prQueue' = {}
    /\ UNCHANGED <<playMap, handler, evicted, delivered, history>>

Dispatch ==
    /\ batch # {}
    /\ batch' = {}
    /\ delivered' = delivered \cup batch
    /\ UNCHANGED <<playMap, handler, evicted, prQueue, prSignal, history>>

-----------------------------------------------------------------------------
Handle(h) == Store(h) \/ Report(h) \/ Remove(h)

Next ==
    \/ \E h \in Handlers :
           \/ \E t \in Tracks : Starting(h, t) \/ Playing(h, t)
           \/ Stopped(h) \/ Handle(h)
    \/ Expire \/ Evict \/ \E s \in evicted : OnExpiration(s)
    \/ Swap \/ Dispatch

Spec == Init /\ [][Next]_vars

\* Requests come to their end, time passes for a session nobody renews, the
\* cache evicts and calls back, and the worker goes on.
Fairness ==
    /\ \A h \in Handlers : WF_vars(Handle(h))
    /\ WF_vars(Expire) /\ WF_vars(Evict)
    /\ \A s \in Sessions : WF_vars(OnExpiration(s))
    /\ WF_vars(Swap) /\ WF_vars(Dispatch)

-----------------------------------------------------------------------------
(* Properties *)

\* The variables have their types, and sessions exist.
TypeOK ==
    /\ sessions \in 0 .. MaxRequests /\ track \in Seq(Tracks) /\ Len(track) = sessions
    /\ current \in 0 .. sessions /\ expired \in BOOLEAN /\ (expired => current # None)
    /\ requests \in 0 .. MaxRequests
    /\ pc \in [Handlers -> {"idle", "store", "report", "remove"}]
    /\ held \in [Handlers -> 0 .. sessions] /\ op \in [Handlers -> {"playing", "stopped"}]
    /\ \A h \in Handlers : pc[h] = "idle" => held[h] = None
    /\ evicted \subseteq 1 .. sessions
    /\ prSignal \in BOOLEAN
    /\ Ended \cup again \cup superseded \cup raced \subseteq 1 .. sessions

\* Once a session is reported as stopped or expired nothing more is reported of
\* it, unless two requests of the player met, or one met the eviction.
EndedStaysEnded == again \subseteq raced

\* The end of every session is handed to the scrobblers in the end, unless
\* another session took its place, two requests met, or one met the eviction.
SessionsAreClosed ==
    \A s \in Sessions : s = current ~> s \in delivered \cup superseded \cup raced
=============================================================================
