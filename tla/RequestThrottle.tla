---------------------------- MODULE RequestThrottle ----------------------------
(***************************************************************************)
(* The throttle in front of the artwork handlers                           *)
(* (server/throttle_backlog.go): a request takes a backlog token or is     *)
(* refused, then waits for a token until one is free, its time ends or its *)
(* client leaves.  The tokens are the contents of two buffered channels.   *)
(***************************************************************************)
EXTENDS Naturals, FiniteSets

CONSTANTS
    Requests,
    Limit, BacklogLimit

\* what the constants satisfy
ThrottleAssumption == Limit \in Nat \ {0} /\ BacklogLimit \in Nat

VARIABLES
    tokens, backlogTokens,    \* tokens in the channels
    stage                     \* where a request is

vars == <<tokens, backlogTokens, stage>>

Stages == {"new", "admitted", "waiting", "handled", "flushing", "givingUp", "refused", "served"}

Init ==
    /\ tokens = Limit /\ backlogTokens = Limit + BacklogLimit
    /\ stage = [r \in Requests |-> "new"]

Goto(r, s) == stage' = [stage EXCEPT ![r] = s]

-----------------------------------------------------------------------------
Admit(r) ==
    /\ stage[r] = "new" /\ backlogTokens > 0
    /\ backlogTokens' = backlogTokens - 1
    /\ Goto(r, "admitted")
    /\ UNCHANGED tokens

\* the backlog is full, or the client has left
Refuse(r) ==
    /\ stage[r] = "new"
    /\ Goto(r, "refused")
    /\ UNCHANGED <<tokens, backlogTokens>>

TakeToken(r) ==
    /\ stage[r] \in {"admitted", "waiting"} /\ tokens > 0
    /\ tokens' = tokens - 1
    /\ Goto(r, "handled")
    /\ UNCHANGED backlogTokens

Wait(r) ==
    /\ stage[r] = "admitted" /\ tokens = 0
    /\ Goto(r, "waiting")
    /\ UNCHANGED <<tokens, backlogTokens>>

\* the timer ends, or the client leaves
GiveUp(r) ==
    /\ stage[r] = "waiting"
    /\ Goto(r, "givingUp")
    /\ UNCHANGED <<tokens, backlogTokens>>

MutReturned == backlogTokens    \* mutant: the backlog token of a request that gives up is lost
Returned == backlogTokens + 1

\* the send to the channel would wait if it were full
ReturnBacklog(r) ==
    /\ stage[r] = "givingUp" /\ backlogTokens < Limit + BacklogLimit
    /\ backlogTokens' = Returned
    /\ Goto(r, "refused")
    /\ UNCHANGED tokens

\* the release, before the response is flushed: first one channel, then the other
Release(r) ==
    /\ stage[r] = "handled" /\ tokens < Limit
    /\ tokens' = tokens + 1
    /\ Goto(r, "flushing")
    /\ UNCHANGED backlogTokens

ReleaseBacklog(r) ==
    /\ stage[r] = "flushing" /\ backlogTokens < Limit + BacklogLimit
    /\ backlogTokens' = backlogTokens + 1
    /\ Goto(r, "served")
    /\ UNCHANGED tokens

\* another request, once the response is written
Again(r) ==
    /\ stage[r] \in {"refused", "served"}
    /\ Goto(r, "new")
    /\ UNCHANGED <<tokens, backlogTokens>>

Next ==
    \E r \in Requests :
        \/ Admit(r) \/ Refuse(r) \/ TakeToken(r) \/ Wait(r) \/ GiveUp(r) \/ ReturnBacklog(r)
        \/ Release(r) \/ ReleaseBacklog(r) \/ Again(r)

Spec == Init /\ [][Next]_vars

-----------------------------------------------------------------------------
(* Properties *)

\* The variables have their types.
TypeOK ==
    /\ tokens \in 0 .. Limit /\ backlogTokens \in 0 .. Limit + BacklogLimit
    /\ stage \in [Requests -> Stages]

At(stages) == {r \in Requests : stage[r] \in stages}

\* Tokens are neither lost nor made: those missing from the channels are held
\* by the requests under way, so that no send on a channel waits.
TokensAreHeld ==
    /\ tokens + Cardinality(At({"handled"})) = Limit
    /\ backlogTokens + Cardinality(At({"admitted", "waiting", "handled", "flushing", "givingUp"}))
           = Limit + BacklogLimit
=============================================================================
