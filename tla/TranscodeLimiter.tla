--------------------------- MODULE TranscodeLimiter ---------------------------
(***************************************************************************)
(* The caps on concurrent transcodes (core/stream/limiter.go) and the      *)
(* requests that run ffmpeg under them (NewTranscodingCache and            *)
(* transcodeWithRefresh of core/stream/media_streamer.go).                 *)
(*                                                                         *)
(* A request reserves a slot of its user and then a global one, and        *)
(* releases them in the other order; each of these is a step.  A transcode *)
(* of a cloud file that yields nothing is started once more.               *)
(***************************************************************************)
EXTENDS Naturals, FiniteSets

CONSTANTS
    Requests,
    User,             \* the user of a request, Anonymous for a public share
    Anonymous,
    Remote,           \* requests for files of the cloud
    MaxConcurrent, MaxPerUser    \* the caps; 0 disables one

\* what the constants satisfy
LimiterAssumption ==
    /\ DOMAIN User = Requests /\ Remote \subseteq Requests
    /\ MaxConcurrent \in Nat /\ MaxPerUser \in Nat
    /\ MaxConcurrent > 0 \/ MaxPerUser > 0    \* with both disabled there is no limiter

VARIABLES
    global, perUser,    \* slots taken
    stage,              \* where a request is
    ffmpeg              \* requests whose ffmpeg process runs

vars == <<global, perUser, stage, ffmpeg>>

Users  == {User[r] : r \in Requests} \ {Anonymous}
Stages == {"idle", "reserved", "starting", "retrying", "streaming", "closing", "freeing"}

PerUserActive(r) == MaxPerUser > 0 /\ User[r] # Anonymous

Init ==
    /\ global = 0 /\ perUser = [u \in Users |-> 0]
    /\ stage = [r \in Requests |-> "idle"]
    /\ ffmpeg = {}

Goto(r, s) == stage' = [stage EXCEPT ![r] = s]

ReleasePerUser(r) ==
    perUser' = IF PerUserActive(r) THEN [perUser EXCEPT ![User[r]] = @ - 1] ELSE perUser

-----------------------------------------------------------------------------
(* Acquire: a request that is refused is answered and is idle again *)

Reserve(r) ==
    /\ stage[r] = "idle"
    /\ PerUserActive(r) => perUser[User[r]] < MaxPerUser
    /\ perUser' = IF PerUserActive(r) THEN [perUser EXCEPT ![User[r]] = @ + 1] ELSE perUser
    /\ Goto(r, "reserved")
    /\ UNCHANGED <<global, ffmpeg>>

Free == MaxConcurrent > 0 => global < MaxConcurrent

Take(r) ==
    /\ stage[r] = "reserved" /\ Free
    /\ global' = IF MaxConcurrent > 0 THEN global + 1 ELSE global
    /\ Goto(r, "starting")
    /\ UNCHANGED <<perUser, ffmpeg>>

Rollback(r) == ReleasePerUser(r)

Refuse(r) ==
    /\ stage[r] = "reserved" /\ ~Free
    /\ Rollback(r)
    /\ Goto(r, "idle")
    /\ UNCHANGED <<global, ffmpeg>>

-----------------------------------------------------------------------------
(* The transcode *)

\* ffmpeg starts; a first attempt at a cloud file may turn out to be empty,
\* and an attempt may fail before there is a process
Transcode(r) ==
    /\ stage[r] \in {"starting", "retrying"} /\ r \notin ffmpeg
    /\ ffmpeg' = ffmpeg \cup {r}
    /\ IF r \in Remote THEN UNCHANGED stage ELSE Goto(r, "streaming")
    /\ UNCHANGED <<global, perUser>>

\* peekOrKeep
Alive(r) ==
    /\ stage[r] \in {"starting", "retrying"} /\ r \in ffmpeg
    /\ Goto(r, "streaming")
    /\ UNCHANGED <<global, perUser, ffmpeg>>

\* mutant: the start error of the retry does not release the slots
MutAfterFailure(r) == IF stage[r] = "starting" /\ r \in Remote THEN "retrying" ELSE "idle"
AfterFailure(r) == IF stage[r] = "starting" /\ r \in Remote THEN "retrying" ELSE "closing"

StartFails(r) ==
    /\ stage[r] \in {"starting", "retrying"}
    /\ ffmpeg' = ffmpeg \ {r}
    /\ Goto(r, AfterFailure(r))
    /\ UNCHANGED <<global, perUser>>

\* the output ends or its client leaves, and the reader is closed
CloseReader(r) ==
    /\ stage[r] = "streaming"
    /\ ffmpeg' = ffmpeg \ {r}
    /\ Goto(r, "closing")
    /\ UNCHANGED <<global, perUser>>

-----------------------------------------------------------------------------
(* The release: once, however often the reader is closed *)

ReleaseGlobal(r) ==
    /\ stage[r] = "closing"
    /\ global' = IF MaxConcurrent > 0 THEN global - 1 ELSE global
    /\ Goto(r, "freeing")
    /\ UNCHANGED <<perUser, ffmpeg>>

ReleaseUser(r) ==
    /\ stage[r] = "freeing"
    /\ ReleasePerUser(r)
    /\ Goto(r, "idle")
    /\ UNCHANGED <<global, ffmpeg>>

-----------------------------------------------------------------------------
Next ==
    \E r \in Requests :
        \/ Reserve(r) \/ Take(r) \/ Refuse(r)
        \/ Transcode(r) \/ Alive(r) \/ StartFails(r) \/ CloseReader(r)
        \/ ReleaseGlobal(r) \/ ReleaseUser(r)

Spec == Init /\ [][Next]_vars

-----------------------------------------------------------------------------
(* Properties *)

\* The variables have their types.
TypeOK ==
    /\ global \in Nat /\ perUser \in [Users -> Nat]
    /\ stage \in [Requests -> Stages]
    /\ ffmpeg \subseteq Requests

At(stages) == {r \in Requests : stage[r] \in stages}
Running    == {"starting", "retrying", "streaming", "closing"}

\* Slots are neither lost nor given twice: a user's slots are those of the
\* requests between its reservation and its release, and the global ones those
\* of the requests that may run ffmpeg.  No cap is ever exceeded by processes.
SlotsAreHeld ==
    /\ MaxConcurrent > 0 => global = Cardinality(At(Running)) /\ global <= MaxConcurrent
    /\ MaxPerUser > 0 => \A u \in Users :
           /\ perUser[u] = Cardinality({r \in At(Stages \ {"idle"}) : User[r] = u})
           /\ perUser[u] <= MaxPerUser
    /\ ffmpeg \subseteq At(Running)
=============================================================================
