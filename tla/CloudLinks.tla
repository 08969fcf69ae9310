------------------------------ MODULE CloudLinks ------------------------------
(***************************************************************************)
(* The signed direct links of a file of the cloud: the shared cache of     *)
(* core/cloudsource/linkcache.go, the resolutions that directURL           *)
(* (cloudfs.go) coalesces, the open handles of remotefile.go, which renew  *)
(* a link that expires or fails, and players, which are redirected to it.  *)
(*                                                                         *)
(* A link is its number in the order in which the gateway issues them.  It *)
(* may die at any time, before its reported expiry as well.  One file: the *)
(* cache and the group of resolutions are keyed by its path.               *)
(***************************************************************************)
EXTENDS Naturals

CONSTANTS
    Handles,      \* open files, one read at a time each
    Players,      \* requests that only want a link
    MaxLinks      \* bound: links issued

\* what the constants satisfy
LinksAssumption == Handles \cap Players = {} /\ MaxLinks \in Nat

VARIABLES
    reports,                      \* whether the gateway reports when its links expire
    issued, near, dead,           \* links: number, those close to their expiry, unusable ones
    entry,                        \* linkCache.entries
    flight, waiting,              \* the group's call, and the callers that share it
    rawURL,                       \* the links of the handles
    pc,
    \* history: the link that has failed in a handle's read, links dropped after
    \* they had failed, callers that joined a call which had its answer
    failed, forgotten, late

gateway == <<reports, issued, near, dead>>
group   == <<flight, waiting>>
vars    == <<gateway, entry, group, rawURL, pc, failed, forgotten, late>>

None    == 0
Links   == 1 .. MaxLinks
Callers == Handles \cup Players
Pcs     == {"idle", "get", "do", "wait", "fetch", "drop", "retry"}
NoCall  == [at |-> "none", link |-> None]

Init ==
    /\ reports \in BOOLEAN
    /\ issued = 0 /\ near = {} /\ dead = {}
    /\ entry = None
    /\ flight = NoCall /\ waiting = {}
    /\ rawURL = [h \in Handles |-> None]
    /\ pc = [c \in Callers |-> "idle"]
    /\ failed = [h \in Handles |-> None] /\ forgotten = {} /\ late = {}

Goto(c, l) == pc' = [pc EXCEPT ![c] = l]

-----------------------------------------------------------------------------
(* Time, and the drive *)

\* linkRefreshMargin before the expiry the gateway has reported
Expires(l) ==
    /\ reports /\ l <= issued /\ l \notin near
    /\ near' = near \cup {l}
    /\ UNCHANGED <<reports, issued, dead, entry, group, rawURL, pc, failed, forgotten, late>>

Dies(l) ==
    /\ l <= issued /\ l \notin dead
    /\ dead' = dead \cup {l}
    /\ UNCHANGED <<reports, issued, near, entry, group, rawURL, pc, failed, forgotten, late>>

-----------------------------------------------------------------------------
(* directURL *)

\* what a caller does with a link or, when there is none, with an error: a
\* handle whose read has had a failure keeps the link it has
Obtain(callers, link) ==
    /\ pc' = [c \in Callers |-> IF c \notin callers THEN pc[c]
                                ELSE IF c \in Players \/ link = None THEN "idle"
                                ELSE IF failed[c] # None THEN "retry" ELSE "fetch"]
    /\ rawURL' = [h \in Handles |-> IF h \in callers /\ link # None THEN link ELSE rawURL[h]]
    /\ failed' = [h \in Handles |-> IF h \in callers /\ link = None THEN None ELSE failed[h]]

Usable == {entry} \ (near \cup {None})

\* links.get, which deletes what it must not serve
Get(c) ==
    /\ pc[c] = "get"
    /\ IF Usable # {} THEN Obtain({c}, entry) /\ UNCHANGED entry
       ELSE Goto(c, "do") /\ entry' = None /\ UNCHANGED <<rawURL, failed>>
    /\ UNCHANGED <<gateway, group, forgotten, late>>

\* group.Do: the first caller starts the call, the others share it
Do(c) ==
    /\ pc[c] = "do"
    /\ Goto(c, "wait")
    /\ waiting' = waiting \cup {c}
    /\ flight' = IF flight = NoCall THEN [NoCall EXCEPT !.at = "get"] ELSE flight
    /\ late' = IF flight.at = "end" THEN late \cup ({c} \cap Handles) ELSE late \ {c}
    /\ UNCHANGED <<gateway, entry, rawURL, failed, forgotten>>

\* the call looks into the cache again
GetAgain ==
    /\ flight.at = "get"
    /\ flight' = IF Usable # {} THEN [at |-> "end", link |-> entry]
                 ELSE [at |-> "ask", link |-> None]
    /\ entry' = IF Usable # {} THEN entry ELSE None
    /\ UNCHANGED <<gateway, waiting, rawURL, pc, failed, forgotten, late>>

\* the gateway issues a link, and older ones may no longer be valid
Resolve ==
    /\ flight.at = "ask" /\ issued < MaxLinks
    /\ issued' = issued + 1
    /\ dead' \in {dead, dead \cup 1 .. issued}
    /\ flight' = [at |-> "put", link |-> issued']
    /\ UNCHANGED <<reports, near, entry, waiting, rawURL, pc, failed, forgotten, late>>

ResolveFails ==
    /\ flight.at = "ask"
    /\ flight' = [at |-> "end", link |-> None]
    /\ UNCHANGED <<gateway, entry, waiting, rawURL, pc, failed, forgotten, late>>

Put ==
    /\ flight.at = "put"
    /\ entry' = IF reports THEN flight.link ELSE entry
    /\ flight' = [flight EXCEPT !.at = "end"]
    /\ UNCHANGED <<gateway, waiting, rawURL, pc, failed, forgotten, late>>

Finish ==
    /\ flight.at = "end"
    /\ Obtain(waiting, flight.link)
    /\ flight' = NoCall /\ waiting' = {}
    /\ UNCHANGED <<gateway, entry, forgotten, late>>

-----------------------------------------------------------------------------
(* Players, and the reads of handles *)

\* DirectURL
Play(p) ==
    /\ pc[p] = "idle"
    /\ Goto(p, "get")
    /\ UNCHANGED <<gateway, entry, group, rawURL, failed, forgotten, late>>

\* fetchLocked, which resolves a link that is missing or close to its expiry
LinkExpiring(h) == rawURL[h] \in near \cup {None}

Read(h) ==
    /\ pc[h] = "idle"
    /\ Goto(h, IF LinkExpiring(h) THEN "get" ELSE "fetch")
    /\ UNCHANGED <<gateway, entry, group, rawURL, failed, forgotten, late>>

ReadEnds(h) ==
    /\ Goto(h, "idle")
    /\ failed' = [failed EXCEPT ![h] = None]
    /\ late' = late \ {h}

\* FetchRange answers, or fails for good: the link is dead, or the network is
Fetched(h) ==
    /\ pc[h] \in {"fetch", "retry"} /\ rawURL[h] \notin dead
    /\ ReadEnds(h)
    /\ UNCHANGED <<gateway, entry, group, rawURL, forgotten>>

FetchFails(h) ==
    /\ pc[h] = "fetch"
    /\ Goto(h, "drop")
    /\ failed' = [failed EXCEPT ![h] = rawURL[h]]
    /\ UNCHANGED <<gateway, entry, group, rawURL, forgotten, late>>

\* directURLFresh
MutInvalidated == entry    \* mutant: the failed link stays in the cache
Invalidated == None

Drop(h) ==
    /\ pc[h] = "drop"
    /\ Goto(h, "get")
    /\ entry' = Invalidated
    /\ forgotten' = forgotten \cup {failed[h]}
    /\ late' = late \ {h}
    /\ UNCHANGED <<gateway, group, rawURL, failed>>

RetryFails(h) ==
    /\ pc[h] = "retry"
    /\ ReadEnds(h)
    /\ UNCHANGED <<gateway, entry, group, rawURL, forgotten>>

\* a file is closed, and another opened
Reopen(h) ==
    /\ pc[h] = "idle" /\ rawURL[h] # None
    /\ rawURL' = [rawURL EXCEPT ![h] = None]
    /\ UNCHANGED <<gateway, entry, group, pc, failed, forgotten, late>>

-----------------------------------------------------------------------------
Next ==
    \/ \E l \in Links : Expires(l) \/ Dies(l)
    \/ \E c \in Callers : Get(c) \/ Do(c)
    \/ GetAgain \/ Resolve \/ ResolveFails \/ Put \/ Finish
    \/ \E p \in Players : Play(p)
    \/ \E h \in Handles : \/ Read(h) \/ Fetched(h) \/ FetchFails(h) \/ Drop(h)
                          \/ RetryFails(h) \/ Reopen(h)

Spec == Init /\ [][Next]_vars

-----------------------------------------------------------------------------
(* Properties *)

\* The variables have their types, and callers wait only for a call.
TypeOK ==
    /\ issued \in 0 .. MaxLinks
    /\ reports \in BOOLEAN
    /\ near \subseteq 1 .. issued /\ dead \subseteq 1 .. issued
    /\ entry \in 0 .. issued /\ (entry # None => reports)
    /\ flight.at \in {"none", "get", "ask", "put", "end"} /\ flight.link \in 0 .. issued
    /\ waiting = {c \in Callers : pc[c] = "wait"}
    /\ flight = NoCall => waiting = {}
    /\ rawURL \in [Handles -> 0 .. issued]
    /\ pc \in [Callers -> Pcs]
    /\ failed \in [Handles -> 0 .. issued] /\ forgotten \subseteq Links /\ late \subseteq Handles

\* A link that was dropped because it had failed is not in the cache again, and
\* the one retry of a read does not use the link that has just failed, unless it
\* joined a resolution that already had its answer.
FailedIsNotServed ==
    /\ entry \notin forgotten
    /\ \A h \in Handles : pc[h] = "retry" => rawURL[h] # failed[h] \/ h \in late
=============================================================================
