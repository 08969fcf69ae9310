--------------------------- MODULE ListeningProofs ---------------------------
(***************************************************************************)
(* What is proved of BufferedScrobbler, for every number of plays, users,  *)
(* scrobblers, unloads, faults and retries: the types; that a play leaves  *)
(* the table only when answered and in the order of the plays; and that it *)
(* is answered more than once only for an error, a crash or a stopped      *)
(* scrobbler.  And of Playlists, for every number of requests and crashes  *)
(* and of tracks below 999999: the types, and that a playlist is as the    *)
(* requests ask for.                                                       *)
(***************************************************************************)
EXTENDS Listening, FiniteSetTheorems, FunctionTheorems, WellFoundedInduction, TLAPS

-----------------------------------------------------------------------------
(* Operators *)

\* A set of natural numbers that has an element has a least one.
LEMMA LeastOfNaturals ==
    ASSUME NEW S \in SUBSET Nat, S # {}
    PROVE  Min(S) \in S /\ \A x \in S : Min(S) <= x
<1> DEFINE R == OpToRel(<, Nat)
<1>1. IsWellFoundedOn(R, Nat)
  BY NatLessThanWellFounded
<1>2. \A x, y \in S : <<y, x>> \notin R => x <= y
  BY DEF OpToRel
<1> HIDE DEF R
<1>3. PICK x \in S : \A y \in S : ~(<<y, x>> \in R)
  BY <1>1, WFMin, Zenon
<1> QED BY <1>2, <1>3 DEF Min

\* The play that is sent next is the user's oldest in the table.
LEMMA FirstIsOldest ==
    ASSUME NEW u, buffer \subseteq Plays, Queue(u) # {}
    PROVE  /\ First(u) \in buffer /\ UserOf[First(u)] = u
           /\ \A p \in Queue(u) : First(u) <= p
<1>1. Queue(u) \subseteq Nat
  BY ScrobblerAssumption DEF Queue
<1>2. First(u) \in Queue(u) /\ \A p \in Queue(u) : First(u) <= p
  BY <1>1, LeastOfNaturals DEF First
<1> QED BY <1>2 DEF Queue

-----------------------------------------------------------------------------
(* Types *)

\* TypeOK, and a request that has chosen its scrobbler knows it.
Types ==
    /\ TypeOK
    /\ \A p \in Plays : request[p] \in {"enqueue", "signal"} => by[p] \in Loops

LEMMA InitTypes == Init => Types
<1> SUFFICES ASSUME Init PROVE Types
  OBVIOUS
<1>1. cur \in [Loops -> Users]
  <2>1. (CHOOSE u \in Users : TRUE) \in Users
    BY ScrobblerAssumption
  <2> QED BY <2>1 DEF Init
<1>2. /\ registered \in 0 .. MaxLoops /\ created \in 0 .. MaxLoops
      /\ changes \in 0 .. MaxChanges /\ faults \in 0 .. MaxFaults /\ retries \in 0 .. MaxRetries
      /\ \A p \in Plays : by[p] \in 0 .. MaxLoops
  BY ScrobblerAssumption DEF Init
<1>3. by \in [Plays -> 0 .. MaxLoops]
  BY <1>2 DEF Init
<1>4. /\ entry \in [Loops -> Plays \cup {None}]
      /\ late \in [Loops -> SUBSET Plays] /\ users \in [Loops -> SUBSET Users]
      /\ pc \in [Loops -> Pcs] /\ request \in [Plays -> Requests]
      /\ ok \in [Loops -> BOOLEAN]
  BY DEF Init, Pcs, Requests
<1>5. timers \in [Loops -> Nat] /\ answers \in [Plays -> Nat]
  BY DEF Init
<1>6. buffer = {} /\ stopped = {} /\ wake = {} /\ stray = {}
  BY DEF Init
<1> QED BY <1>1, <1>2, <1>3, <1>4, <1>5, <1>6 DEF TypeOK, Types, Init

\* The register keeps its types, whatever refreshes it.
LEMMA RefreshTypes ==
    ASSUME TypeOK, Refresh
    PROVE  /\ registered' \in 0 .. MaxLoops /\ created' \in 0 .. MaxLoops
           /\ stopped' \subseteq Loops /\ pc' \in [Loops -> Pcs]
<1>1. MaxLoops \in Nat /\ created \in 0 .. MaxLoops /\ registered \in 0 .. MaxLoops
  BY ScrobblerAssumption DEF TypeOK
<1>2. stopped \subseteq Loops /\ pc \in [Loops -> Pcs]
  BY DEF TypeOK
<1>3. CASE /\ created < MaxLoops /\ created' = created + 1 /\ registered' = created'
           /\ pc' = [pc EXCEPT ![created'] = "users"] /\ UNCHANGED stopped
  <2>1. created' \in 0 .. MaxLoops
    BY <1>1, <1>3
  <2>2. "users" \in Pcs
    BY DEF Pcs
  <2> QED BY <1>2, <1>3, <2>1, <2>2
<1>4. CASE /\ registered # 0 /\ stopped' = stopped \cup {registered} /\ registered' = 0
           /\ UNCHANGED <<created, pc>>
  <2>1. registered \in Loops
    BY <1>1, <1>4 DEF Loops
  <2> QED BY <1>1, <1>2, <1>4, <2>1
<1>5. CASE UNCHANGED <<registered, created, stopped, pc>>
  BY <1>1, <1>2, <1>5
<1> QED BY <1>3, <1>4, <1>5 DEF Refresh

\* Every step keeps the types.
LEMMA NextTypes == Types /\ [Next]_vars => Types'
<1> SUFFICES ASSUME Types, [Next]_vars PROVE Types'
  OBVIOUS
<1> USE DEF Types, TypeOK, loop, signals, tallies, history
<1>1. CASE UNCHANGED vars
  BY <1>1 DEF vars
<1>2. CASE Toggle
  <2>1. changes' \in 0 .. MaxChanges
    BY <1>2, ScrobblerAssumption DEF Toggle
  <2> QED BY <1>2, <2>1 DEF Toggle
<1>3. CASE OtherRequest
  BY <1>3, RefreshTypes DEF OtherRequest
<1>4. CASE Crash
  <2>1. faults' \in 0 .. MaxFaults /\ retries' = retries
    BY <1>4, ScrobblerAssumption DEF Crash, Fault
  <2>2. registered' \in 0 .. MaxLoops /\ by' \in [Plays -> 0 .. MaxLoops]
    BY <1>4, ScrobblerAssumption DEF Crash
  <2>3. /\ pc' \in [Loops -> Pcs] /\ request' \in [Plays -> Requests]
        /\ users' \in [Loops -> SUBSET Users] /\ ok' \in [Loops -> BOOLEAN]
        /\ entry' \in [Loops -> Plays \cup {None}] /\ late' \in [Loops -> SUBSET Plays]
        /\ timers' \in [Loops -> Nat] /\ wake' \subseteq Loops
    BY <1>4 DEF Crash, Pcs, Requests
  <2>4. \A p \in Plays : request'[p] \in {"new", "done"}
    BY <1>4 DEF Crash
  <2> QED BY <1>4, <2>1, <2>2, <2>3, <2>4 DEF Crash
<1>5. ASSUME NEW p \in Plays, Submit(p) PROVE Types'
  <2>1. request' \in [Plays -> Requests] /\ request' = [request EXCEPT ![p] = "copy"]
    BY <1>5 DEF Submit, At, Requests
  <2> QED BY <1>5, <2>1, RefreshTypes DEF Submit
<1>6. ASSUME NEW p \in Plays, Copy(p) PROVE Types'
  <2>1. request' \in [Plays -> Requests] /\ by' \in [Plays -> 0 .. MaxLoops]
    BY <1>6 DEF Copy, At, Requests
  <2>2. \A q \in Plays : request'[q] \in {"enqueue", "signal"} => by'[q] \in Loops
    <3>1. CASE /\ registered # 0 /\ request' = [request EXCEPT ![p] = "enqueue"]
               /\ by' = [by EXCEPT ![p] = registered]
      <4>1. registered \in Loops
        BY <3>1, ScrobblerAssumption DEF Loops
      <4> QED BY <3>1, <4>1
    <3>2. CASE request' = [request EXCEPT ![p] = "done"] /\ UNCHANGED by
      BY <3>2
    <3> QED BY <1>6, <3>1, <3>2 DEF Copy, At
  <2> QED BY <1>6, <2>1, <2>2 DEF Copy
<1>7. ASSUME NEW p \in Plays, Enqueue(p) PROVE Types'
  <2>1. request' \in [Plays -> Requests] /\ late' \in [Loops -> SUBSET Plays]
    BY <1>7 DEF Enqueue, At, Requests
  <2>2. buffer' \subseteq Plays /\ stray' \subseteq Plays
    BY <1>7 DEF Enqueue
  <2>3. \A q \in Plays : request'[q] \in {"enqueue", "signal"} => by'[q] \in Loops
    BY <1>7 DEF Enqueue, At
  <2> QED BY <1>7, <2>1, <2>2, <2>3 DEF Enqueue
<1>8. ASSUME NEW p \in Plays, EnqueueFails(p) \/ Signal(p) PROVE Types'
  <2>1. request' \in [Plays -> Requests] /\ by' \in [Plays -> 0 .. MaxLoops]
    BY <1>8, ScrobblerAssumption DEF EnqueueFails, Signal, At, Requests
  <2>2. faults' \in 0 .. MaxFaults /\ retries' = retries
    BY <1>8, ScrobblerAssumption DEF EnqueueFails, Signal, Fault
  <2>3. wake' \subseteq Loops
    BY <1>8 DEF EnqueueFails, Signal, Woken, At
  <2>4. \A q \in Plays : request'[q] \in {"enqueue", "signal"} => by'[q] \in Loops
    BY <1>8 DEF EnqueueFails, Signal, At
  <2> QED BY <1>8, <2>1, <2>2, <2>3, <2>4 DEF EnqueueFails, Signal
<1> DEFINE LoopsTypes ==
             /\ buffer' \subseteq Plays /\ stray' \subseteq Plays
             /\ wake' \subseteq Loops /\ timers' \in [Loops -> Nat]
             /\ pc' \in [Loops -> Pcs] /\ users' \in [Loops -> SUBSET Users]
             /\ cur' \in [Loops -> Users] /\ ok' \in [Loops -> BOOLEAN]
             /\ entry' \in [Loops -> Plays \cup {None}] /\ late' \in [Loops -> SUBSET Plays]
             /\ faults' \in 0 .. MaxFaults /\ retries' \in 0 .. MaxRetries
             /\ answers' \in [Plays -> Nat]
<1>9. ASSUME UNCHANGED <<changes, registered, created, stopped, request, by>>, LoopsTypes
      PROVE  Types'
  BY <1>9
<1>10. ASSUME NEW l \in Loops, GiveUp(l)
       PROVE  /\ pc' \in [Loops -> Pcs] /\ ok' \in [Loops -> BOOLEAN]
              /\ entry' \in [Loops -> Plays \cup {None}] /\ late' \in [Loops -> SUBSET Plays]
              /\ UNCHANGED <<changes, registered, created, stopped, wake, timers, cur, request, by,
                             answers, stray>>
  BY <1>10 DEF GiveUp, Goto, Forget, Pcs, Busy
<1>11. ASSUME NEW l \in Loops, DbFails(l)
       PROVE  faults' \in 0 .. MaxFaults /\ retries' \in 0 .. MaxRetries
  BY <1>11, ScrobblerAssumption DEF DbFails, Fault
<1>12. ASSUME NEW l \in Loops, Step(l) PROVE Types'
  <2>1. CASE ReadUsers(l)
    <3>1. {UserOf[p] : p \in buffer} \subseteq Users
      BY ScrobblerAssumption
    <3> QED BY <2>1, <3>1 DEF ReadUsers, Goto, Pcs, Busy
  <2>2. CASE ReadUsersFails(l)
    <3>1. users' \in [Loops -> SUBSET Users]
      BY <2>2 DEF ReadUsersFails
    <3> QED BY <1>10, <1>11, <2>2, <3>1 DEF ReadUsersFails
  <2>3. CASE PickUser(l)
    <3>1. PICK u \in users[l] : cur' = [cur EXCEPT ![l] = u] /\ users' = [users EXCEPT ![l] = @ \ {u}]
      BY <2>3 DEF PickUser
    <3>2. u \in Users /\ users[l] \ {u} \in SUBSET Users
      OBVIOUS
    <3>3. cur' \in [Loops -> Users] /\ users' \in [Loops -> SUBSET Users]
      BY <3>1, <3>2
    <3>4. pc' \in [Loops -> Pcs]
      BY <2>3 DEF PickUser, Goto, Pcs, Busy
    <3> QED BY <2>3, <3>3, <3>4 DEF PickUser
  <2>4. CASE EndPass(l)
    <3>1. timers' \in [Loops -> Nat] /\ ok' \in [Loops -> BOOLEAN] /\ pc' \in [Loops -> Pcs]
      BY <2>4 DEF EndPass, Again, Goto, Pcs, Busy
    <3> QED BY <2>4, <3>1 DEF EndPass
  <2>5. CASE Next_(l)
    <3>1. pc' \in [Loops -> Pcs]
      BY <2>5 DEF Next_, Goto, Pcs, Busy
    <3>2. entry' \in [Loops -> Plays \cup {None}]
      <4>1. CASE Queue(cur[l]) = {}
        BY <2>5, <4>1 DEF Next_
      <4>2. CASE Queue(cur[l]) # {}
        <5>1. First(cur[l]) \in Plays
          BY <4>2, FirstIsOldest
        <5> QED BY <2>5, <4>2, <5>1 DEF Next_
      <4> QED BY <4>1, <4>2
    <3> QED BY <2>5, <3>1, <3>2 DEF Next_
  <2>6. CASE NextFails(l) \/ NotAvailable(l) \/ DequeueFails(l)
    BY <1>10, <1>11, <2>6 DEF NextFails, NotAvailable, DequeueFails
  <2>7. CASE Dequeue(l)
    <3>1. /\ pc' \in [Loops -> Pcs]
          /\ entry' \in [Loops -> Plays \cup {None}] /\ late' \in [Loops -> SUBSET Plays]
      BY <2>7 DEF Dequeue, Goto, Forget, Pcs, Busy
    <3> QED BY <2>7, <3>1 DEF Dequeue
  <2> QED BY <1>12, <2>1, <2>2, <2>3, <2>4, <2>5, <2>6, <2>7 DEF Step
<1>13. ASSUME NEW l \in Loops, Answered(l) PROVE Types'
  <2>1. pc' \in [Loops -> Pcs]
    BY <1>13 DEF Answered, Goto, Pcs, Busy
  <2>2. answers' = [p \in Plays |-> IF p = entry[l] THEN answers[p] + 1 ELSE answers[p]]
    BY <1>13 DEF Answered
  <2>3. answers' \in [Plays -> Nat]
    BY <2>2
  <2> QED BY <1>13, <2>1, <2>3 DEF Answered
<1>14. ASSUME NEW l \in Loops, RetryLater(l) PROVE Types'
  <2>1. retries' \in 0 .. MaxRetries /\ faults' \in 0 .. MaxFaults
    BY <1>14, ScrobblerAssumption DEF RetryLater
  <2>2. buffer' = buffer /\ users' = users /\ GiveUp(l)
    BY <1>14 DEF RetryLater, Keep
  <2> QED BY <1>10, <2>1, <2>2
<1>15. ASSUME NEW l \in Loops, Wake(l) \/ Exit(l) \/ TimerFires(l) PROVE Types'
  <2>1. /\ pc' \in [Loops -> Pcs] /\ wake' \subseteq Loops /\ timers' \in [Loops -> Nat]
    BY <1>15 DEF Wake, Exit, TimerFires, Set, Goto, Pcs, Busy
  <2> QED BY <1>15, <2>1 DEF Wake, Exit, TimerFires
<1> HIDE DEF Types
<1> QED
  BY <1>1, <1>2, <1>3, <1>4, <1>5, <1>6, <1>7, <1>8, <1>12, <1>13, <1>14, <1>15 DEF Next

LEMMA TypesHold == Spec => []Types
BY InitTypes, NextTypes, PTL DEF Spec

\* The variables have their types.
THEOREM TypeCorrect == Spec => []TypeOK
BY TypesHold, PTL DEF Types

-----------------------------------------------------------------------------
(* The inductive invariant *)

\* A scrobbler that is not stopped, and whose loop runs, is the registered one: a loop that
\* was replaced keeps running, but its context is cancelled.
OneLive ==
    /\ stopped \subseteq 1 .. created
    /\ registered <= created /\ registered \notin stopped
    /\ \A l \in Loops : l > created => pc[l] = "off"
    /\ \A l \in Loops : pc[l] # "off" /\ l \notin stopped => l = registered

Holds(l) == pc[l] \in {"send", "dequeue"}

\* What a loop at work on an entry knows of it: only the live loop removes rows, so the row
\* it works on is still there; every older row of the user came after it was read.
EntryKnown ==
    /\ \A l \in Loops : Holds(l) => entry[l] \in Plays
    /\ \A l \in Loops : Holds(l) /\ l \notin stopped => entry[l] \in buffer
    /\ \A l \in Loops : pc[l] = "dequeue" => answers[entry[l]] > 0
    /\ \A l \in Loops : pc[l] = "send" =>
         \A p \in Queue(UserOf[entry[l]]) : p < entry[l] => p \in late[l]
    /\ \A p \in Plays : request[p] \in {"new", "copy", "enqueue"} =>
         p \notin buffer /\ answers[p] = 0 /\ \A l \in Loops : Holds(l) => entry[l] # p

\* The answers to a play that are yet to come: one while it is in the table, unless the live
\* loop has its answer and is about to remove it ...
Settled(p) == \E l \in Loops : l \notin stopped /\ pc[l] = "dequeue" /\ entry[l] = p
Owed(p) == IF p \in buffer /\ ~Settled(p) THEN 1 ELSE 0

\* ... and one for each stopped loop that is sending it.  The others are of no more use.
Spent(p) == {l \in stopped : ~(pc[l] = "send" /\ entry[l] = p)}

AnswersPaid == \A p \in Plays : answers[p] + Owed(p) <= 1 + faults + Cardinality(Spent(p))

IInv == TypeOK /\ OneLive /\ EntryKnown /\ AnswersPaid

LEMMA InitIInv == Init => OneLive /\ EntryKnown /\ AnswersPaid
<1> SUFFICES ASSUME Init PROVE OneLive /\ EntryKnown /\ AnswersPaid
  OBVIOUS
<1>1. OneLive /\ EntryKnown
  BY DEF Init, OneLive, EntryKnown, Holds
<1>2. ASSUME NEW p \in Plays PROVE Spent(p) = {} /\ Owed(p) = 0 /\ answers[p] = 0
  BY DEF Init, Spent, Owed
<1>3. Cardinality({}) = 0
  BY FS_EmptySet
<1>4. ASSUME NEW p \in Plays
      PROVE  answers[p] + Owed(p) <= 1 + faults + Cardinality(Spent(p))
  <2>1. Cardinality(Spent(p)) = 0 /\ Owed(p) = 0 /\ answers[p] = 0 /\ faults = 0
    BY <1>2, <1>3 DEF Init
  <2> QED BY <2>1
<1>5. AnswersPaid
  BY <1>4 DEF AnswersPaid
<1> QED BY <1>1, <1>5

-----------------------------------------------------------------------------
(* The live loop *)

\* What a step of a loop, but for its own location, leaves alone: it runs before it, and the
\* register and the contexts are not its business.
LEMMA LoopStep ==
    ASSUME TypeOK, NEW l \in Loops,
           Step(l) \/ Answered(l) \/ RetryLater(l) \/ Wake(l) \/ Exit(l) \/ TimerFires(l)
    PROVE  /\ UNCHANGED <<registered, created, stopped, request>>
           /\ \A k \in Loops : k # l => pc'[k] = pc[k] /\ entry'[k] = entry[k] /\ late'[k] = late[k]
           /\ pc[l] = "off" => pc' = pc /\ entry' = entry
<1> USE DEF TypeOK, signals, loop, history, Goto, Forget, GiveUp
<1>1. CASE Step(l)
  BY <1>1 DEF Step, ReadUsers, ReadUsersFails, PickUser, EndPass, Next_, NextFails, NotAvailable,
              Dequeue, DequeueFails
<1>2. CASE Answered(l) \/ RetryLater(l)
  BY <1>2 DEF Answered, RetryLater
<1>3. CASE Wake(l) \/ Exit(l) \/ TimerFires(l)
  BY <1>3 DEF Wake, Exit, TimerFires
<1> QED BY <1>1, <1>2, <1>3

\* What a refresh of the register does: nothing, a new scrobbler, or the stop of the old one.
LEMMA RefreshCases ==
    ASSUME Refresh
    PROVE  \/ /\ registered = 0 /\ created < MaxLoops
              /\ created' = created + 1 /\ registered' = created + 1
              /\ pc' = [pc EXCEPT ![created + 1] = "users"] /\ UNCHANGED stopped
           \/ /\ registered # 0 /\ registered' = 0 /\ stopped' = stopped \cup {registered}
              /\ UNCHANGED <<created, pc>>
           \/ UNCHANGED <<registered, created, stopped, pc>>
BY DEF Refresh

LEMMA RefreshOneLive == ASSUME TypeOK, OneLive, Refresh PROVE OneLive'
<1> USE DEF OneLive
<1>0. /\ MaxLoops \in Nat /\ created \in 0 .. MaxLoops /\ registered \in 0 .. MaxLoops
      /\ pc \in [Loops -> Pcs] /\ stopped \subseteq Loops
  BY ScrobblerAssumption DEF TypeOK
<1>1. CASE /\ registered = 0 /\ created < MaxLoops
           /\ created' = created + 1 /\ registered' = created + 1
           /\ pc' = [pc EXCEPT ![created + 1] = "users"] /\ UNCHANGED stopped
  <2>1. created + 1 \in Loops /\ created + 1 \notin stopped
    BY <1>0, <1>1 DEF Loops
  <2>2. \A l \in Loops : l \in Nat \ {0} /\ pc'[l] = IF l = created + 1 THEN "users" ELSE pc[l]
    BY <1>0, <1>1 DEF Loops
  <2>3. stopped' \subseteq 1 .. created'
    BY <1>0, <1>1
  <2> QED BY <1>0, <1>1, <2>1, <2>2, <2>3
<1>2. CASE /\ registered # 0 /\ registered' = 0 /\ stopped' = stopped \cup {registered}
           /\ UNCHANGED <<created, pc>>
  <2>1. registered \in 1 .. created /\ 0 \notin stopped'
    BY <1>0, <1>2
  <2> QED BY <1>0, <1>2, <2>1
<1>3. CASE UNCHANGED <<registered, created, stopped, pc>>
  BY <1>3
<1> QED BY <1>1, <1>2, <1>3, RefreshCases

LEMMA NextOneLive == TypeOK /\ OneLive /\ [Next]_vars => OneLive'
<1> SUFFICES ASSUME TypeOK, OneLive, [Next]_vars PROVE OneLive'
  OBVIOUS
<1>1. CASE UNCHANGED <<registered, created, stopped, pc>>
  BY <1>1 DEF OneLive
<1>2. CASE Refresh
  BY <1>2, RefreshOneLive
<1>3. CASE Crash
  <2>1. /\ registered' = 0 /\ pc' = [l \in Loops |-> "off"] /\ UNCHANGED <<created, stopped>>
        /\ created \in Nat
    BY <1>3 DEF Crash, TypeOK
  <2> QED BY <2>1 DEF OneLive
<1>4. ASSUME NEW l \in Loops,
             Step(l) \/ Answered(l) \/ RetryLater(l) \/ Wake(l) \/ Exit(l) \/ TimerFires(l)
      PROVE  OneLive'
  <2>1. /\ UNCHANGED <<registered, created, stopped>>
        /\ \A k \in Loops : k # l => pc'[k] = pc[k]
        /\ pc[l] = "off" => pc' = pc
    BY <1>4, LoopStep
  <2>2. \A k \in Loops : pc'[k] # "off" => pc[k] # "off"
    BY <2>1
  <2> QED BY <2>1, <2>2 DEF OneLive
<1>5. ASSUME NEW p \in Plays, Copy(p) \/ Enqueue(p) \/ EnqueueFails(p) \/ Signal(p) PROVE OneLive'
  BY <1>1, <1>5 DEF Copy, Enqueue, EnqueueFails, Signal, signals, loop
<1>6. CASE Toggle \/ OtherRequest \/ \E p \in Plays : Submit(p)
  BY <1>1, <1>2, <1>6 DEF Toggle, OtherRequest, Submit, signals, loop
<1>7. CASE UNCHANGED vars
  BY <1>1, <1>7 DEF vars, signals, loop
<1> QED
  BY <1>3, <1>4, <1>5, <1>6, <1>7 DEF Next

-----------------------------------------------------------------------------
(* What a loop knows of its entry *)

Early == {"new", "copy", "enqueue"}

\* A step keeps what loops know when no loop takes an entry, the rows and the answers stay,
\* and no request goes back.
LEMMA KnownStays ==
    ASSUME EntryKnown,
           \A l \in Loops : Holds(l)' => pc'[l] = pc[l] /\ entry'[l] = entry[l] /\ late'[l] = late[l],
           stopped \subseteq stopped', UNCHANGED <<buffer, answers>>,
           \A p \in Plays : request'[p] \in Early => request[p] \in Early
    PROVE  EntryKnown'
BY DEF EntryKnown, Holds, Queue, Early

\* A loop that has given its entry up.
LEMMA GiveUpKnown ==
    ASSUME TypeOK, EntryKnown, NEW l \in Loops, GiveUp(l), UNCHANGED buffer
    PROVE  EntryKnown'
<1>1. /\ \A k \in Loops : pc'[k] = IF k = l THEN "pick" ELSE pc[k]
      /\ \A k \in Loops : k # l => entry'[k] = entry[k] /\ late'[k] = late[k]
      /\ UNCHANGED <<stopped, request, answers>>
  BY DEF GiveUp, Goto, Forget, TypeOK, signals
<1>2. \A k \in Loops : Holds(k)' => k # l
  BY <1>1 DEF Holds
<1> QED BY <1>1, <1>2, KnownStays

LEMMA NextEntryKnown == Types /\ OneLive /\ EntryKnown /\ [Next]_vars => EntryKnown'
<1> SUFFICES ASSUME Types, OneLive, EntryKnown, [Next]_vars PROVE EntryKnown'
  OBVIOUS
<1>0. /\ pc \in [Loops -> Pcs] /\ entry \in [Loops -> Plays \cup {None}]
      /\ late \in [Loops -> SUBSET Plays] /\ answers \in [Plays -> Nat]
      /\ request \in [Plays -> Requests] /\ buffer \subseteq Plays /\ stopped \subseteq Loops
      /\ TypeOK
  BY DEF Types, TypeOK
<1>1. CASE UNCHANGED <<pc, entry, late, stopped, buffer, answers, request>>
  BY <1>1 DEF EntryKnown, Holds, Queue
<1>2. ASSUME Refresh, UNCHANGED <<entry, late, buffer, answers>>,
             \A p \in Plays : request'[p] \in Early => request[p] \in Early
      PROVE  EntryKnown'
  <2>1. stopped \subseteq stopped'
    BY <1>2, RefreshCases
  <2>2. \A l \in Loops : Holds(l)' => pc'[l] = pc[l]
    <3>1. CASE pc' = [pc EXCEPT ![created + 1] = "users"]
      <4>1. \A l \in Loops : pc'[l] = IF l = created + 1 THEN "users" ELSE pc[l]
        BY <1>0, <3>1
      <4> QED BY <4>1 DEF Holds
    <3>2. CASE UNCHANGED pc
      BY <3>2
    <3> QED BY <1>2, <3>1, <3>2, RefreshCases
  <2> QED BY <1>2, <2>1, <2>2, KnownStays
<1>3. CASE Crash
  <2>1. \A l \in Loops : ~Holds(l)'
    BY <1>3 DEF Crash, Holds
  <2>2. UNCHANGED <<buffer, answers, stopped>>
    BY <1>3 DEF Crash
  <2>3. \A p \in Plays : request'[p] \in Early => request[p] \in Early
    BY <1>3 DEF Crash, Early
  <2> QED BY <2>1, <2>2, <2>3, KnownStays
<1>4. ASSUME NEW p \in Plays, Submit(p) \/ Copy(p) \/ EnqueueFails(p) \/ Signal(p)
      PROVE  \A q \in Plays : request'[q] \in Early => request[q] \in Early
  BY <1>0, <1>4 DEF Submit, Copy, EnqueueFails, Signal, At, Early
<1>5. ASSUME NEW p \in Plays, Copy(p) \/ EnqueueFails(p) \/ Signal(p) PROVE EntryKnown'
  <2>1. UNCHANGED <<pc, entry, late, stopped, buffer, answers>>
    BY <1>5 DEF Copy, EnqueueFails, Signal, loop, signals, history
  <2> QED BY <1>4, <1>5, <2>1, KnownStays
<1>6. ASSUME NEW p \in Plays, Submit(p) PROVE EntryKnown'
  BY <1>2, <1>4, <1>6 DEF Submit
<1>7. CASE OtherRequest
  BY <1>2, <1>7 DEF OtherRequest
<1>8. ASSUME NEW p \in Plays, Enqueue(p) PROVE EntryKnown'
  <2>1. /\ request[p] = "enqueue" /\ buffer' = buffer \cup {p}
        /\ \A q \in Plays : request'[q] = IF q = p THEN "signal" ELSE request[q]
        /\ \A l \in Loops : entry[l] # None => late'[l] = late[l] \cup {p}
        /\ UNCHANGED <<pc, entry, stopped, answers>>
    BY <1>0, <1>8 DEF Enqueue, At, loop, signals
  <2>2. \A l \in Loops : Holds(l) => entry[l] # None /\ entry[l] # p
    BY <2>1, ScrobblerAssumption DEF EntryKnown, None
  <2>3. \A l \in Loops : Holds(l)' <=> Holds(l)
    BY <2>1 DEF Holds
  <2>4. \A l \in Loops : pc'[l] = "send" =>
          \A q \in Queue(UserOf[entry[l]])' : q < entry[l] => q \in late'[l]
    BY <2>1, <2>2 DEF EntryKnown, Holds, Queue
  <2>5. \A q \in Plays : request'[q] \in Early =>
          q \notin buffer' /\ answers'[q] = 0 /\ \A l \in Loops : Holds(l)' => entry'[l] # q
    BY <2>1, <2>3 DEF EntryKnown, Early
  <2> QED BY <2>1, <2>2, <2>3, <2>4, <2>5 DEF EntryKnown, Early
<1>9. ASSUME NEW l \in Loops, Next_(l) PROVE EntryKnown'
  <2>1. CASE Queue(cur[l]) = {}
    <3>1. /\ \A k \in Loops : pc'[k] = IF k = l THEN "pick" ELSE pc[k]
          /\ UNCHANGED <<entry, late, stopped, buffer, answers, request>>
      BY <1>0, <1>9, <2>1 DEF Next_, Goto, signals, history
    <3> QED BY <3>1, KnownStays DEF Holds
  <2>2. CASE Queue(cur[l]) # {}
    <3> DEFINE e == First(cur[l])
    <3>1. e \in buffer /\ UserOf[e] = cur[l] /\ \A p \in Queue(cur[l]) : e <= p
      BY <1>0, <2>2, FirstIsOldest
    <3>2. /\ \A k \in Loops : /\ pc'[k] = IF k = l THEN "send" ELSE pc[k]
                             /\ entry'[k] = IF k = l THEN e ELSE entry[k]
          /\ UNCHANGED <<late, stopped, buffer, answers, request>>
      BY <1>0, <1>9, <2>2 DEF Next_, Goto, signals, history
    <3> HIDE DEF e
    <3>3. e \in Plays /\ \A p \in Plays : request[p] \in Early => p # e
      BY <1>0, <3>1 DEF EntryKnown, Early
    <3>4. \A p \in Queue(UserOf[e]) : ~(p < e)
      <4>1. \A p \in Queue(cur[l]) : p \in Nat /\ e <= p
        BY <1>0, <3>1, ScrobblerAssumption DEF Queue
      <4>2. e \in Nat
        BY <3>3, ScrobblerAssumption
      <4> QED BY <3>1, <4>1, <4>2
    <3>5. \A k \in Loops : k # l => (Holds(k)' <=> Holds(k))
      BY <3>2 DEF Holds
    <3>6. \A k \in Loops : Queue(UserOf[entry[k]])' = Queue(UserOf[entry'[k]])
      BY <3>2 DEF Queue
    <3>7. \A k \in Loops : pc'[k] = "send" =>
            \A p \in Queue(UserOf[entry[k]])' : p < entry'[k] => p \in late'[k]
      <4> TAKE k \in Loops
      <4>1. CASE k = l
        BY <3>2, <3>4, <3>6, <4>1
      <4>2. CASE k # l
        BY <3>2, <3>6, <4>2 DEF EntryKnown
      <4> QED BY <4>1, <4>2
    <3>8. \A p \in Plays : request'[p] \in Early =>
            p \notin buffer' /\ answers'[p] = 0 /\ \A k \in Loops : Holds(k)' => entry'[k] # p
      BY <3>2, <3>3, <3>5 DEF EntryKnown, Early
    <3>9. \A k \in Loops : Holds(k)' => entry'[k] \in Plays
      BY <3>2, <3>3, <3>5 DEF EntryKnown
    <3>11. \A k \in Loops : Holds(k)' /\ k \notin stopped' => entry'[k] \in buffer'
      BY <3>1, <3>2, <3>5 DEF EntryKnown
    <3>10. \A k \in Loops : pc'[k] = "dequeue" => answers'[entry'[k]] > 0
      BY <3>2 DEF EntryKnown
    <3> QED BY <3>7, <3>8, <3>9, <3>10, <3>11 DEF EntryKnown, Early
  <2> QED BY <2>1, <2>2
<1>10. ASSUME NEW l \in Loops, Answered(l) PROVE EntryKnown'
  <2>1. /\ pc[l] = "send"
        /\ \A k \in Loops : pc'[k] = IF k = l THEN "dequeue" ELSE pc[k]
        /\ \A p \in Plays : answers'[p] = IF p = entry[l] THEN answers[p] + 1 ELSE answers[p]
        /\ UNCHANGED <<entry, late, stopped, buffer, request>>
    BY <1>0, <1>10 DEF Answered, Goto, signals
  <2>2. entry[l] \in Plays /\ request[entry[l]] \notin Early
    BY <2>1 DEF EntryKnown, Holds, Early
  <2>3. \A k \in Loops : Holds(k)' <=> Holds(k)
    BY <2>1 DEF Holds
  <2>4. \A k \in Loops : pc'[k] = "dequeue" => answers'[entry'[k]] > 0
    <3>1. \A k \in Loops : pc[k] = "dequeue" => entry[k] \in Plays
      BY DEF EntryKnown, Holds
    <3>2. \A p \in Plays : answers[p] \in Nat
      BY <1>0
    <3> QED BY <2>1, <2>2, <3>1, <3>2 DEF EntryKnown
  <2>5. \A k \in Loops : pc'[k] = "send" =>
          \A p \in Queue(UserOf[entry[k]])' : p < entry[k] => p \in late[k]
    BY <2>1 DEF EntryKnown, Queue
  <2> QED BY <2>1, <2>2, <2>3, <2>4, <2>5 DEF EntryKnown, Early
<1>11. ASSUME NEW l \in Loops, Dequeue(l) PROVE EntryKnown'
  <2>1. /\ l \notin stopped /\ pc[l] = "dequeue"
        /\ buffer' = buffer \ {entry[l]}
        /\ \A k \in Loops : pc'[k] = IF k = l THEN "next" ELSE pc[k]
        /\ \A k \in Loops : k # l => entry'[k] = entry[k] /\ late'[k] = late[k]
        /\ UNCHANGED <<stopped, answers, request>>
    BY <1>0, <1>11 DEF Dequeue, Removed, Goto, Forget, signals
  <2>2. \A k \in Loops : Holds(k)' => Holds(k) /\ k # l
    BY <2>1 DEF Holds
  <2>3. \A k \in Loops : Holds(k) /\ k \notin stopped => k = l
    BY <2>1 DEF OneLive, Holds
  <2>4. \A u : Queue(u)' \subseteq Queue(u)
    BY <2>1 DEF Queue
  <2> QED BY <2>1, <2>2, <2>3, <2>4 DEF EntryKnown
<1>12. ASSUME NEW l \in Loops,
              NextFails(l) \/ NotAvailable(l) \/ DequeueFails(l) \/ ReadUsersFails(l) \/ RetryLater(l)
       PROVE  EntryKnown'
  <2>1. GiveUp(l) /\ UNCHANGED buffer
    BY <1>12 DEF NextFails, NotAvailable, DequeueFails, ReadUsersFails, RetryLater, Keep
  <2> QED BY <1>0, <2>1, GiveUpKnown
<1>13. ASSUME NEW l \in Loops,
              ReadUsers(l) \/ PickUser(l) \/ EndPass(l) \/ Wake(l) \/ Exit(l) \/ TimerFires(l)
       PROVE  EntryKnown'
  <2>1. UNCHANGED <<entry, late, stopped, buffer, answers, request>>
    BY <1>13 DEF ReadUsers, PickUser, EndPass, Wake, Exit, TimerFires, signals, loop, history
  <2>2. \A k \in Loops : Holds(k)' => pc'[k] = pc[k]
    BY <1>0, <1>13 DEF ReadUsers, PickUser, EndPass, Wake, Exit, TimerFires, loop, Goto, Holds
  <2> QED BY <2>1, <2>2, KnownStays
<1>14. CASE Toggle \/ UNCHANGED vars
  BY <1>1, <1>14 DEF Toggle, vars, loop, signals, history
<1> QED
  BY <1>3, <1>5, <1>6, <1>7, <1>8, <1>9, <1>10, <1>11, <1>12, <1>13, <1>14 DEF Next, Step

-----------------------------------------------------------------------------
(* The order of the answers *)

\* Rows go in one action only, and it removes an entry that was answered.
LEMMA NextNoneDropped == Types /\ EntryKnown /\ [Next]_vars => NoneDropped
<1> SUFFICES ASSUME Types, EntryKnown, [Next]_vars PROVE NoneDropped
  OBVIOUS
<1>1. CASE buffer \subseteq buffer'
  BY <1>1 DEF NoneDropped
<1>2. ASSUME NEW l \in Loops, Dequeue(l) PROVE NoneDropped
  BY <1>2 DEF Dequeue, Removed, EntryKnown, NoneDropped
<1>3. ASSUME NEW l \in Loops,
             \/ ReadUsers(l) \/ ReadUsersFails(l) \/ PickUser(l) \/ EndPass(l) \/ Next_(l)
             \/ NextFails(l) \/ NotAvailable(l) \/ DequeueFails(l)
      PROVE  buffer \subseteq buffer'
  BY <1>3 DEF ReadUsers, ReadUsersFails, PickUser, EndPass, Next_, NextFails, NotAvailable,
              DequeueFails
<1>4. ASSUME NEW l \in Loops,
             Answered(l) \/ RetryLater(l) \/ Wake(l) \/ Exit(l) \/ TimerFires(l)
      PROVE  buffer \subseteq buffer'
  BY <1>4 DEF Answered, RetryLater, Keep, Wake, Exit, TimerFires
<1>5. ASSUME NEW p \in Plays,
             Submit(p) \/ Copy(p) \/ Enqueue(p) \/ EnqueueFails(p) \/ Signal(p)
      PROVE  buffer \subseteq buffer'
  BY <1>5 DEF Submit, Copy, Enqueue, EnqueueFails, Signal
<1>6. CASE Toggle \/ OtherRequest \/ Crash \/ UNCHANGED vars
  BY <1>1, <1>6 DEF Toggle, OtherRequest, Crash, vars
<1> QED
  BY <1>1, <1>2, <1>3, <1>4, <1>5, <1>6 DEF Next, Step

\* A loop knows of every older play of the user that it came after it read its entry.
LEMMA EntryInOrder == EntryKnown => InOrder
BY DEF EntryKnown, InOrder, Queue

LEMMA KnownHolds == Spec => [](Types /\ OneLive /\ EntryKnown)
<1>1. Init => OneLive /\ EntryKnown
  BY InitIInv
<1>2. Types => TypeOK
  BY DEF Types
<1> QED
  BY <1>1, <1>2, InitTypes, NextTypes, NextOneLive, NextEntryKnown, PTL DEF Spec

\* No play leaves the table unanswered, and none overtakes an older one of its user that was
\* in the table when the loop read it, whatever loops, retries and crashes do.
THEOREM AnsweredInOrderHolds == Spec => AnsweredInOrder
<1>1. Types /\ OneLive /\ EntryKnown /\ [Next]_vars => [NoneDropped /\ InOrder]_vars
  BY NextNoneDropped, EntryInOrder
<1> QED
  BY <1>1, KnownHolds, PTL DEF Spec, AnsweredInOrder

-----------------------------------------------------------------------------
(* The number of the answers *)

\* What the counts are made of.
LEMMA LoopsAreFinite ==
    \A S \in SUBSET Loops :
        /\ IsFiniteSet(S) /\ Cardinality(S) \in Nat
        /\ \A T \in SUBSET S : Cardinality(T) <= Cardinality(S)
<1>1. IsFiniteSet(Loops)
  BY ScrobblerAssumption, FS_Interval DEF Loops
<1> QED
  BY <1>1, FS_Subset, FS_CardinalityType

LEMMA Counts ==
    Types => /\ faults \in Nat /\ stopped \in SUBSET Loops
             /\ \A p \in Plays : answers[p] \in Nat /\ Owed(p) \in {0, 1} /\ Spent(p) \in SUBSET stopped
BY ScrobblerAssumption DEF Types, TypeOK, Owed, Spent

LEMMA CountsAfter ==
    Types' => /\ faults' \in Nat /\ stopped' \in SUBSET Loops
              /\ \A p \in Plays : /\ answers'[p] \in Nat /\ Owed(p)' \in {0, 1}
                                 /\ Spent(p)' \in SUBSET stopped'
BY ScrobblerAssumption DEF Types, TypeOK, Owed, Spent

LEMMA Balance ==
    ASSUME NEW a \in Nat, NEW o \in Nat, NEW q \in Nat, NEW m \in Nat, NEW n \in Nat,
           NEW f \in Nat, NEW g \in Nat,
           a + o <= 1 + f + m, q - o <= g - f, m <= n
    PROVE  a + q <= 1 + g + n
OBVIOUS

\* A play's account stays balanced when what is owed grows no more than the faults do.
LEMMA PaidStays ==
    ASSUME Types, Types', NEW p \in Plays,
           answers[p] + Owed(p) <= 1 + faults + Cardinality(Spent(p)),
           answers'[p] = answers[p],
           Owed(p)' - Owed(p) <= faults' - faults,
           Spent(p) \subseteq Spent(p)'
    PROVE  answers'[p] + Owed(p)' <= 1 + faults' + Cardinality(Spent(p)')
<1> DEFINE S == Spent(p)
           T == Spent(p)'
           o == Owed(p)
           q == Owed(p)'
<1>1. faults \in Nat /\ answers[p] \in Nat /\ o \in {0, 1} /\ S \in SUBSET Loops
  BY Counts
<1>2. faults' \in Nat /\ q \in {0, 1} /\ T \in SUBSET Loops
  BY CountsAfter
<1>3. Cardinality(S) \in Nat /\ Cardinality(T) \in Nat /\ Cardinality(S) <= Cardinality(T)
  <2>1. S \in SUBSET T
    OBVIOUS
  <2> QED BY <1>1, <1>2, <2>1, LoopsAreFinite
<1>4. answers[p] + o <= 1 + faults + Cardinality(S) /\ q - o <= faults' - faults
  OBVIOUS
<1> DEFINE a == answers[p]
           m == Cardinality(S)
           n == Cardinality(T)
<1>6. /\ a \in Nat /\ m \in Nat /\ n \in Nat /\ o \in Nat /\ q \in Nat
      /\ faults \in Nat /\ faults' \in Nat
      /\ a + o <= 1 + faults + m /\ q - o <= faults' - faults /\ m <= n
  BY <1>1, <1>2, <1>3, <1>4
<1> HIDE DEF S, T, o, q, a, m, n
<1>7. a + q <= 1 + faults' + n
  BY <1>6, Balance
<1>5. answers[p] + q <= 1 + faults' + Cardinality(T)
  BY <1>7 DEF a, n
<1> QED BY <1>5 DEF T, q

\* It also does when a loop more has been spent, on an answer or on the entry it leaves.
LEMMA PaidByLoop ==
    ASSUME Types, Types', NEW p \in Plays, NEW l,
           answers[p] + Owed(p) <= 1 + faults + Cardinality(Spent(p)),
           answers'[p] + Owed(p)' <= answers[p] + Owed(p) + 1,
           faults' = faults, l \notin Spent(p), Spent(p)' = Spent(p) \cup {l}
    PROVE  answers'[p] + Owed(p)' <= 1 + faults' + Cardinality(Spent(p)')
<1> DEFINE S == Spent(p)
           a == answers[p] + Owed(p)
           b == answers'[p] + Owed(p)'
<1>0. faults \in Nat /\ S \in SUBSET Loops /\ answers[p] \in Nat /\ Owed(p) \in {0, 1}
  BY Counts
<1>1. faults \in Nat /\ IsFiniteSet(S) /\ Cardinality(S) \in Nat /\ a \in Nat
  BY <1>0, LoopsAreFinite
<1>2. b \in Nat
  <2>1. answers'[p] \in Nat /\ Owed(p)' \in {0, 1}
    BY CountsAfter
  <2> QED BY <2>1
<1>3. Cardinality(Spent(p)') = Cardinality(S) + 1
  BY <1>1, FS_AddElement
<1>4. a <= 1 + faults + Cardinality(S) /\ b <= a + 1
  OBVIOUS
<1> HIDE DEF S, a, b
<1>5. b <= 1 + faults + (Cardinality(S) + 1)
  BY <1>1, <1>2, <1>4
<1> QED BY <1>3, <1>5 DEF b

\* The step that keeps every account, when loops give up or do something else.
LEMMA PaidByFaults ==
    ASSUME Types, Types', AnswersPaid, UNCHANGED answers,
           \A p \in Plays : Owed(p)' - Owed(p) <= faults' - faults /\ Spent(p) \subseteq Spent(p)'
    PROVE  AnswersPaid'
BY PaidStays DEF AnswersPaid

\* A loop that gives up its entry frees what it owes, and a fault or its own stop pays.
LEMMA GiveUpPaid ==
    ASSUME Types, Types', OneLive, AnswersPaid, NEW l \in Loops, pc[l] # "off", GiveUp(l),
           UNCHANGED buffer,
           \/ faults' = faults /\ (pc[l] # "dequeue" \/ l \in stopped)
           \/ faults' = faults + 1
    PROVE  AnswersPaid'
<1>1. /\ \A k \in Loops : pc'[k] = IF k = l THEN "pick" ELSE pc[k]
      /\ \A k \in Loops : k # l => entry'[k] = entry[k]
      /\ UNCHANGED <<stopped, answers>>
  BY DEF GiveUp, Goto, Forget, Types, TypeOK, signals
<1>2. stopped \subseteq Loops /\ faults \in Nat
  BY Counts
<1>3. \A p \in Plays : Spent(p) \subseteq Spent(p)'
  BY <1>1, <1>2 DEF Spent
<1>4. ASSUME NEW p \in Plays PROVE Owed(p)' - Owed(p) <= faults' - faults
  <2>1. CASE faults' = faults + 1
    BY <1>2, <2>1 DEF Owed
  <2>2. CASE faults' = faults /\ (pc[l] # "dequeue" \/ l \in stopped)
    <3>1. Settled(p)' <=> Settled(p)
      BY <1>1, <2>2 DEF Settled
    <3> QED BY <1>2, <2>2, <3>1 DEF Owed
  <2> QED BY <2>1, <2>2
<1> QED BY <1>1, <1>3, <1>4, PaidByFaults

LEMMA NextAnswersPaid ==
    Types /\ Types' /\ OneLive /\ EntryKnown /\ AnswersPaid /\ [Next]_vars => AnswersPaid'
<1> SUFFICES ASSUME Types, Types', OneLive, EntryKnown, AnswersPaid, [Next]_vars
             PROVE  AnswersPaid'
  OBVIOUS
<1>0. /\ pc \in [Loops -> Pcs] /\ entry \in [Loops -> Plays \cup {None}]
      /\ answers \in [Plays -> Nat] /\ buffer \subseteq Plays /\ stopped \subseteq Loops
      /\ registered \in 0 .. MaxLoops /\ faults \in Nat /\ TypeOK
  BY Counts DEF Types, TypeOK
<1>1. ASSUME UNCHANGED <<stopped, buffer, answers>>, faults <= faults', faults' \in Nat,
             \A l \in Loops : pc'[l] = "dequeue" <=> pc[l] = "dequeue",
             \A l \in Loops : pc'[l] = "send" => pc[l] = "send",
             \A l \in Loops : pc[l] = "dequeue" \/ pc'[l] = "send" => entry'[l] = entry[l]
      PROVE  AnswersPaid'
  <2>0. /\ stopped' = stopped /\ buffer' = buffer
        /\ \A l \in Loops : pc'[l] = "dequeue" <=> pc[l] = "dequeue"
        /\ \A l \in Loops : pc[l] = "dequeue" => entry'[l] = entry[l]
    BY <1>1
  <2>1. ASSUME NEW p \in Plays PROVE Settled(p)' <=> Settled(p)
    BY <2>0 DEF Settled
  <2>2. \A p \in Plays : Owed(p)' = Owed(p) /\ Owed(p) \in {0, 1}
    BY <2>0, <2>1 DEF Owed
  <2>3. \A p \in Plays : Spent(p) \subseteq Spent(p)'
    BY <1>0, <1>1 DEF Spent
  <2>4. \A p \in Plays : Owed(p)' - Owed(p) <= faults' - faults
    BY <1>0, <1>1, <2>2
  <2> QED BY <1>1, <2>3, <2>4, PaidByFaults
<1>2. ASSUME Refresh, UNCHANGED <<entry, buffer, answers, faults>> PROVE AnswersPaid'
  <2>1. CASE /\ registered = 0 /\ created < MaxLoops
             /\ pc' = [pc EXCEPT ![created + 1] = "users"] /\ UNCHANGED stopped
    <3>1. created + 1 \in Loops
      BY <2>1, ScrobblerAssumption DEF Types, TypeOK, Loops
    <3>2. \A l \in Loops : pc'[l] = IF l = created + 1 THEN "users" ELSE pc[l]
      BY <1>0, <2>1
    <3>3. pc[created + 1] = "off"
      <4>1. created + 1 > created
        BY <1>0 DEF TypeOK
      <4> QED BY <3>1, <4>1 DEF OneLive
    <3> QED BY <1>0, <1>1, <1>2, <2>1, <3>2, <3>3
  <2>2. CASE UNCHANGED <<stopped, pc>>
    BY <1>0, <1>1, <1>2, <2>2
  <2>3. CASE registered # 0 /\ stopped' = stopped \cup {registered} /\ UNCHANGED pc
    <3> DEFINE r == registered
    <3>1. r \in Loops /\ r \notin stopped
      BY <1>0, <2>3 DEF OneLive, Loops
    <3> SUFFICES ASSUME NEW p \in Plays
                 PROVE  answers'[p] + Owed(p)' <= 1 + faults' + Cardinality(Spent(p)')
      BY DEF AnswersPaid
    <3>2. answers[p] + Owed(p) <= 1 + faults + Cardinality(Spent(p)) /\ answers'[p] = answers[p]
      BY <1>2 DEF AnswersPaid
    <3>3. CASE pc[r] = "send" /\ entry[r] = p
      <4>1. Spent(p)' = Spent(p)
        BY <1>2, <2>3, <3>1, <3>3 DEF Spent
      <4>2. Settled(p)' <=> Settled(p)
        BY <1>2, <2>3, <3>1, <3>3 DEF Settled
      <4>3. Owed(p)' - Owed(p) <= faults' - faults
        BY <1>0, <1>2, <4>2 DEF Owed
      <4> QED BY <3>2, <4>1, <4>3, PaidStays
    <3>4. CASE ~(pc[r] = "send" /\ entry[r] = p)
      <4>1. Spent(p)' = Spent(p) \cup {r} /\ r \notin Spent(p)
        BY <1>2, <2>3, <3>1, <3>4 DEF Spent
      <4>2. answers'[p] + Owed(p)' <= answers[p] + Owed(p) + 1
        BY <1>0, <3>2 DEF Owed
      <4> QED BY <1>2, <3>2, <4>1, <4>2, PaidByLoop
    <3> QED BY <3>3, <3>4
  <2> QED BY <1>2, <2>1, <2>2, <2>3, RefreshCases
<1>3. CASE Crash
  <2>1. /\ pc' = [l \in Loops |-> "off"] /\ UNCHANGED <<stopped, buffer, answers>>
        /\ faults' = faults + 1
    BY <1>3 DEF Crash, Fault
  <2>2. \A p \in Plays : Spent(p) \subseteq Spent(p)'
    BY <1>0, <2>1 DEF Spent
  <2>3. \A p \in Plays : Owed(p)' - Owed(p) <= faults' - faults
    BY <1>0, <2>1 DEF Owed
  <2> QED BY <2>1, <2>2, <2>3, PaidByFaults
<1>4. ASSUME NEW p \in Plays, Copy(p) \/ EnqueueFails(p) \/ Signal(p) PROVE AnswersPaid'
  <2>1. UNCHANGED <<pc, entry, stopped, buffer, answers>>
    BY <1>4 DEF Copy, EnqueueFails, Signal, loop, signals, history
  <2>2. faults' \in Nat /\ faults <= faults'
    BY <1>0, <1>4 DEF Copy, EnqueueFails, Signal, Fault, tallies
  <2> QED BY <1>1, <2>1, <2>2
<1>5. CASE OtherRequest \/ \E p \in Plays : Submit(p)
  BY <1>2, <1>5 DEF OtherRequest, Submit, tallies
<1>6. ASSUME NEW p \in Plays, Enqueue(p) PROVE AnswersPaid'
  <2>1. /\ buffer' = buffer \cup {p} /\ request[p] = "enqueue"
        /\ UNCHANGED <<pc, entry, stopped, answers, faults>>
    BY <1>6 DEF Enqueue, At, loop, signals, tallies
  <2> SUFFICES ASSUME NEW q \in Plays
               PROVE  answers'[q] + Owed(q)' <= 1 + faults' + Cardinality(Spent(q)')
    BY DEF AnswersPaid
  <2>2. CASE q = p
    <3>1. answers'[q] = 0
      BY <2>1, <2>2 DEF EntryKnown
    <3>2. Owed(q)' \in {0, 1} /\ Spent(q)' \in SUBSET Loops /\ faults' \in Nat
      BY CountsAfter
    <3>3. Cardinality(Spent(q)') \in Nat
      BY <3>2, LoopsAreFinite
    <3> QED BY <3>1, <3>2, <3>3
  <2>3. CASE q # p
    <3>1. (Settled(q)' <=> Settled(q)) /\ Spent(q)' = Spent(q)
      BY <2>1 DEF Settled, Spent
    <3>2. Owed(q)' - Owed(q) <= faults' - faults
      BY <1>0, <2>1, <2>3, <3>1 DEF Owed
    <3> QED BY <2>1, <3>1, <3>2, PaidStays DEF AnswersPaid
  <2> QED BY <2>2, <2>3
<1>7. ASSUME NEW l \in Loops, Next_(l) PROVE AnswersPaid'
  <2>1. /\ pc[l] = "next" /\ l \notin stopped
        /\ \A k \in Loops : k # l => pc'[k] = pc[k] /\ entry'[k] = entry[k]
        /\ pc'[l] \in {"pick", "send"}
        /\ UNCHANGED <<stopped, buffer, answers, faults>>
    BY <1>0, <1>7 DEF Next_, Goto, signals, tallies, history
  <2>2. \A p \in Plays : (Settled(p)' <=> Settled(p)) /\ Spent(p)' = Spent(p)
    BY <1>0, <2>1 DEF Settled, Spent
  <2>3. \A p \in Plays : Owed(p)' - Owed(p) <= faults' - faults
    BY <1>0, <2>1, <2>2 DEF Owed
  <2> QED BY <2>1, <2>2, <2>3, PaidByFaults
<1>8. ASSUME NEW l \in Loops, Answered(l) PROVE AnswersPaid'
  <2> DEFINE e == entry[l]
  <2>1. /\ pc[l] = "send" /\ e \in Plays
        /\ \A k \in Loops : pc'[k] = IF k = l THEN "dequeue" ELSE pc[k]
        /\ \A p \in Plays : answers'[p] = IF p = e THEN answers[p] + 1 ELSE answers[p]
        /\ UNCHANGED <<entry, stopped, buffer, faults>>
    BY <1>0, <1>8 DEF Answered, Goto, signals, tallies, EntryKnown, Holds
  <2> SUFFICES ASSUME NEW p \in Plays
               PROVE  answers'[p] + Owed(p)' <= 1 + faults' + Cardinality(Spent(p)')
    BY DEF AnswersPaid
  <2>2. answers[p] + Owed(p) <= 1 + faults + Cardinality(Spent(p))
    BY DEF AnswersPaid
  <2>3. CASE p # e
    <3>1. (Settled(p)' <=> Settled(p)) /\ Spent(p)' = Spent(p)
      BY <1>0, <2>1, <2>3 DEF Settled, Spent
    <3>2. Owed(p)' - Owed(p) <= faults' - faults
      BY <1>0, <2>1, <3>1 DEF Owed
    <3> QED BY <2>1, <2>2, <2>3, <3>1, <3>2, PaidStays
  <2>4. CASE p = e /\ l \in stopped
    <3>1. Settled(p)' <=> Settled(p)
      BY <2>1, <2>4 DEF Settled
    <3>2. Spent(p)' = Spent(p) \cup {l} /\ l \notin Spent(p)
      BY <1>0, <2>1, <2>4 DEF Spent
    <3>3. Owed(p)' = Owed(p) /\ Owed(p) \in {0, 1} /\ answers[p] \in Nat
      BY <1>0, <2>1, <3>1 DEF Owed
    <3>4. answers'[p] + Owed(p)' <= answers[p] + Owed(p) + 1
      BY <2>1, <2>4, <3>3
    <3> QED BY <2>1, <2>2, <3>2, <3>4, PaidByLoop
  <2>5. CASE p = e /\ l \notin stopped
    <3>1. \A k \in Loops : k \notin stopped /\ pc[k] # "off" => k = l
      BY <2>1, <2>5 DEF OneLive
    <3>2. ~Settled(p)
      BY <2>1, <3>1 DEF Settled
    <3>3. p \in buffer
      BY <2>1, <2>5 DEF EntryKnown, Holds
    <3>4. Settled(p)'
      BY <2>1, <2>5 DEF Settled
    <3>5. Owed(p) = 1 /\ Owed(p)' = 0
      BY <3>2, <3>3, <3>4 DEF Owed
    <3>6. Spent(p)' = Spent(p)
      BY <1>0, <2>1, <2>5 DEF Spent
    <3>7. answers[p] \in Nat /\ answers'[p] = answers[p] + 1
      BY <1>0, <2>1, <2>5
    <3> QED BY <2>1, <2>2, <3>5, <3>6, <3>7
  <2> QED BY <2>3, <2>4, <2>5
<1>9. ASSUME NEW l \in Loops, Dequeue(l) PROVE AnswersPaid'
  <2>1. /\ l \notin stopped /\ pc[l] = "dequeue" /\ buffer' = buffer \ {entry[l]}
        /\ \A k \in Loops : pc'[k] = IF k = l THEN "next" ELSE pc[k]
        /\ \A k \in Loops : k # l => entry'[k] = entry[k]
        /\ UNCHANGED <<stopped, answers, faults>>
    BY <1>0, <1>9 DEF Dequeue, Removed, Goto, Forget, signals, tallies
  <2>2. \A p \in Plays : Spent(p)' = Spent(p)
    BY <1>0, <2>1 DEF Spent
  <2>3. ASSUME NEW p \in Plays PROVE Owed(p)' - Owed(p) <= faults' - faults
    <3>1. CASE p = entry[l]
      <4>1. Owed(p)' = 0 /\ Owed(p) \in {0, 1}
        BY <2>1, <3>1 DEF Owed
      <4> QED BY <1>0, <2>1, <4>1
    <3>2. CASE p # entry[l]
      <4>1. Settled(p)' <=> Settled(p)
        BY <2>1, <3>2 DEF Settled
      <4> QED BY <1>0, <2>1, <3>2, <4>1 DEF Owed
    <3> QED BY <3>1, <3>2
  <2> QED BY <2>1, <2>2, <2>3, PaidByFaults
<1>10. ASSUME NEW l \in Loops,
              NextFails(l) \/ NotAvailable(l) \/ DequeueFails(l) \/ ReadUsersFails(l) \/ RetryLater(l)
       PROVE  AnswersPaid'
  <2>1. GiveUp(l) /\ UNCHANGED buffer /\ pc[l] # "off"
    BY <1>10 DEF NextFails, NotAvailable, DequeueFails, ReadUsersFails, RetryLater, Keep
  <2>2. \/ faults' = faults /\ (pc[l] # "dequeue" \/ l \in stopped)
        \/ faults' = faults + 1
    BY <1>10 DEF NextFails, NotAvailable, DequeueFails, ReadUsersFails, RetryLater, DbFails, Fault,
                 tallies
  <2> QED BY <2>1, <2>2, GiveUpPaid
<1>11. ASSUME NEW l \in Loops,
              ReadUsers(l) \/ PickUser(l) \/ EndPass(l) \/ Wake(l) \/ Exit(l) \/ TimerFires(l)
       PROVE  AnswersPaid'
  <2>1. UNCHANGED <<entry, stopped, buffer, answers, faults>>
    BY <1>11 DEF ReadUsers, PickUser, EndPass, Wake, Exit, TimerFires, signals, loop, history, tallies
  <2>2. \A k \in Loops : /\ pc'[k] = "dequeue" <=> pc[k] = "dequeue"
                         /\ pc'[k] = "send" => pc[k] = "send"
    BY <1>0, <1>11 DEF ReadUsers, PickUser, EndPass, Wake, Exit, TimerFires, loop, Goto
  <2> QED BY <1>0, <1>1, <2>1, <2>2
<1>12. CASE Toggle \/ UNCHANGED vars
  <2>1. UNCHANGED <<pc, entry, stopped, buffer, answers, faults>>
    BY <1>12 DEF Toggle, vars, loop, signals, history, tallies
  <2> QED BY <1>0, <1>1, <2>1
<1> QED
  BY <1>3, <1>4, <1>5, <1>6, <1>7, <1>8, <1>9, <1>10, <1>11, <1>12 DEF Next, Step

\* A play is answered more than once only for a database error, a crash, or a scrobbler that
\* was stopped, and for each of them once.
THEOREM RarelyTwiceHolds == Spec => []RarelyTwice
<1>1. Types /\ AnswersPaid => RarelyTwice
  <2> SUFFICES ASSUME Types, AnswersPaid, NEW p \in Plays
               PROVE  answers[p] <= 1 + faults + Cardinality(stopped)
    BY DEF RarelyTwice
  <2>1. /\ faults \in Nat /\ stopped \in SUBSET Loops
        /\ answers[p] \in Nat /\ Owed(p) \in {0, 1} /\ Spent(p) \in SUBSET stopped
    BY Counts
  <2>2. /\ Cardinality(stopped) \in Nat /\ Cardinality(Spent(p)) \in Nat
        /\ Cardinality(Spent(p)) <= Cardinality(stopped)
    BY <2>1, LoopsAreFinite
  <2>3. answers[p] + Owed(p) <= 1 + faults + Cardinality(Spent(p))
    BY DEF AnswersPaid
  <2> QED BY <2>1, <2>2, <2>3
<1>2. Init => AnswersPaid
  BY InitIInv
<1> QED
  BY <1>1, <1>2, KnownHolds, NextAnswersPaid, PTL DEF Spec

-----------------------------------------------------------------------------
(* Playlists: operators *)

LEMMA ListsCardinality == \A S : Lists!Cardinality(S) = Cardinality(S)
BY DEF Lists!Cardinality, Cardinality

LEMMA ListsFacts ==
    /\ MaxTracks \in Nat /\ MaxTracks >= 3 /\ MaxTracks < -Lists!Aside
    /\ MaxRequests \in Nat /\ MaxCrashes \in Nat
    /\ Lists!Aside \in Int /\ Lists!Tracks = 1 .. MaxTracks
<1>1. Lists!Aside \in Int
  BY SMT DEF Lists!Aside
<1> QED
  BY <1>1, ListsAssumption DEF Lists!PlaylistsAssumption, Lists!Tracks

\* A finite set of integers that has an element has a greatest one.
LEMMA Greatest ==
    ASSUME NEW S \in SUBSET Int, IsFiniteSet(S), S # {}
    PROVE  Lists!Max(S) \in S /\ \A x \in S : x <= Lists!Max(S)
<1> DEFINE Bounded(T) == \E x \in T : \A y \in T : y <= x
           bad == {n \in Nat : \E T \in SUBSET Int :
                        IsFiniteSet(T) /\ T # {} /\ Cardinality(T) = n /\ ~Bounded(T)}
<1>1. bad = {}
  <2> SUFFICES ASSUME bad # {} PROVE FALSE
    OBVIOUS
  <2>1. PICK n \in bad : \A m \in bad : n <= m
    BY LeastOfNaturals
  <2>2. PICK T \in SUBSET Int : IsFiniteSet(T) /\ T # {} /\ Cardinality(T) = n /\ ~Bounded(T)
    OBVIOUS
  <2>3. PICK t \in T : TRUE
    BY <2>2
  <2>4. IsFiniteSet(T \ {t}) /\ Cardinality(T \ {t}) = n - 1 /\ n - 1 \in Nat
    <3>1. IsFiniteSet(T \ {t}) /\ Cardinality(T \ {t}) = n - 1
      BY <2>2, <2>3, FS_RemoveElement
    <3> QED
      BY <3>1, FS_CardinalityType
  <2>5. T \ {t} # {}
    BY <2>2, <2>3
  <2>6. Bounded(T \ {t})
    <3>1. n - 1 \notin bad
      BY <2>1, <2>4
    <3> QED
      BY <2>2, <2>4, <2>5, <3>1
  <2>7. PICK x \in T \ {t} : \A y \in T \ {t} : y <= x
    BY <2>6
  <2>8. x \in Int /\ t \in Int
    BY <2>2, <2>3
  <2>9. CASE t <= x
    BY <2>2, <2>7, <2>9
  <2>10. CASE x < t
    BY <2>2, <2>7, <2>8, <2>10
  <2> QED
    BY <2>8, <2>9, <2>10
<1>2. Bounded(S)
  <2>1. Cardinality(S) \in Nat
    BY FS_CardinalityType
  <2> QED
    BY <1>1, <2>1
<1> QED
  BY <1>2 DEF Lists!Max

\* What the positions of a list are.
Placed(positions) ==
    /\ IsFiniteSet(DOMAIN positions)
    /\ \A t \in DOMAIN positions : positions[t] \in Int
    /\ \A t, u \in DOMAIN positions : positions[t] = positions[u] => t = u

\* The positions are as many as the tracks.
LEMMA PositionsCounted ==
    ASSUME NEW positions, Placed(positions)
    PROVE  /\ IsFiniteSet(Lists!Positions(positions))
           /\ Cardinality(Lists!Positions(positions)) = Cardinality(DOMAIN positions)
           /\ Cardinality(DOMAIN positions) \in Nat
<1> DEFINE f == [t \in DOMAIN positions |-> positions[t]]
<1>1. f \in Bijection(DOMAIN positions, Lists!Positions(positions))
  BY Fun_IsBij DEF Placed, Lists!Positions
<1>2. ExistsBijection(DOMAIN positions, Lists!Positions(positions))
  BY <1>1 DEF ExistsBijection
<1> QED
  BY <1>2, FS_Bijection, FS_CardinalityType DEF Placed

\* A new track is put behind all others.
LEMMA FollowingIsLast ==
    ASSUME NEW positions, Placed(positions)
    PROVE  /\ Lists!Following(positions) \in Int
           /\ \A t \in DOMAIN positions : positions[t] < Lists!Following(positions)
           /\ (\A t \in DOMAIN positions : positions[t] > 0) => Lists!Following(positions) > 0
           /\ Lists!Contiguous(positions) =>
                  Lists!Following(positions) = Cardinality(DOMAIN positions) + 1
<1> DEFINE P == Lists!Positions(positions)
           n == Cardinality(DOMAIN positions)
<1>1. P \in SUBSET Int /\ IsFiniteSet(P) /\ n \in Nat /\ \A t \in DOMAIN positions : positions[t] \in P
  BY PositionsCounted DEF Placed, Lists!Positions
<1>2. Lists!Contiguous(positions) <=> P = 1 .. n
  BY ListsCardinality DEF Lists!Contiguous
<1>3. CASE DOMAIN positions = {}
  <2>1. n = 0
    BY <1>3, FS_EmptySet
  <2> QED
    BY <1>3, <2>1 DEF Lists!Following
<1>4. CASE DOMAIN positions # {}
  <2>1. P # {}
    BY <1>1, <1>4
  <2>2. Lists!Max(P) \in P /\ \A x \in P : x <= Lists!Max(P)
    BY <1>1, <2>1, Greatest
  <2>3. Lists!Following(positions) = Lists!Max(P) + 1
    BY <1>4 DEF Lists!Following
  <2>4. PICK t \in DOMAIN positions : positions[t] = Lists!Max(P)
    BY <2>2 DEF Lists!Positions
  <2> HIDE DEF P, n
  <2>5. P = 1 .. n => Lists!Max(P) = n
    <3> SUFFICES ASSUME P = 1 .. n PROVE Lists!Max(P) = n
      OBVIOUS
    <3>1. n \in P
      BY <1>1, <2>1
    <3> QED
      BY <1>1, <2>2, <3>1
  <2>6. Lists!Max(P) \in Int
    BY <1>1, <2>2
  <2>7. \A u \in DOMAIN positions : positions[u] < Lists!Following(positions)
    <3> SUFFICES ASSUME NEW u \in DOMAIN positions
                 PROVE  positions[u] < Lists!Following(positions)
      OBVIOUS
    <3>1. positions[u] \in P /\ positions[u] \in Int
      BY <1>1
    <3>2. positions[u] <= Lists!Max(P)
      BY <2>2, <3>1
    <3> QED
      BY <2>3, <2>6, <3>1, <3>2
  <2>8. (\A u \in DOMAIN positions : positions[u] > 0) => Lists!Following(positions) > 0
    BY <2>3, <2>4, <2>6
  <2>9. Lists!Contiguous(positions) => Lists!Following(positions) = Cardinality(DOMAIN positions) + 1
    BY <1>2, <2>3, <2>5 DEF n
  <2> QED
    BY <2>3, <2>6, <2>7, <2>8, <2>9
<1> QED
  BY <1>3, <1>4

\* Ranked turns the order round, and leaves no gaps.
LEMMA RankedInTurn ==
    ASSUME NEW positions, Placed(positions)
    PROVE  /\ DOMAIN Lists!Ranked(positions) = DOMAIN positions
           /\ Placed(Lists!Ranked(positions))
           /\ \A t \in DOMAIN positions : Lists!Ranked(positions)[t] > 0
           /\ \A t, u \in DOMAIN positions :
                  Lists!Ranked(positions)[t] <= Lists!Ranked(positions)[u]
                      <=> positions[t] >= positions[u]
           /\ Lists!Contiguous(Lists!Ranked(positions))
<1> DEFINE D == DOMAIN positions
           above(t) == {u \in D : positions[u] >= positions[t]}
           f == Lists!Ranked(positions)
           n == Cardinality(D)
<1>1. DOMAIN f = D /\ \A t \in D : f[t] = Cardinality(above(t))
  BY ListsCardinality DEF Lists!Ranked
<1>2. \A t \in D : /\ IsFiniteSet(above(t)) /\ Cardinality(above(t)) \in Nat
                   /\ Cardinality(above(t)) <= n
                   /\ t \in above(t) /\ Cardinality(above(t)) > 0
  <2> SUFFICES ASSUME NEW t \in D
               PROVE  /\ IsFiniteSet(above(t)) /\ Cardinality(above(t)) \in Nat
                      /\ Cardinality(above(t)) <= n
                      /\ t \in above(t) /\ Cardinality(above(t)) > 0
    OBVIOUS
  <2>1. IsFiniteSet(above(t)) /\ Cardinality(above(t)) <= n
    BY FS_Subset DEF Placed
  <2>2. t \in above(t)
    BY DEF Placed
  <2>3. Cardinality(above(t)) \in Nat /\ Cardinality(above(t)) # 0
    BY <2>1, <2>2, FS_CardinalityType, FS_EmptySet
  <2> QED
    BY <2>1, <2>2, <2>3
<1>3. ASSUME NEW t \in D, NEW u \in D, positions[t] > positions[u]
      PROVE  f[t] < f[u]
  <2> HIDE DEF f
  <2>1. above(t) \in SUBSET above(u) /\ u \in above(u) /\ u \notin above(t)
    BY <1>3 DEF Placed
  <2>2. Cardinality(above(t)) <= Cardinality(above(u)) /\ Cardinality(above(t)) # Cardinality(above(u))
    <3>1. IsFiniteSet(above(u)) /\ above(t) # above(u)
      BY <1>2, <2>1
    <3> HIDE DEF above
    <3> QED
      BY <2>1, <3>1, FS_Subset
  <2>3. f[t] = Cardinality(above(t)) /\ f[u] = Cardinality(above(u))
    BY <1>1
  <2>4. Cardinality(above(t)) \in Nat /\ Cardinality(above(u)) \in Nat
    BY <1>2
  <2> HIDE DEF above
  <2> QED
    BY <2>2, <2>3, <2>4
<1> HIDE DEF above, f, n
<1>4. \A t, u \in D : f[t] <= f[u] <=> positions[t] >= positions[u]
  <2> SUFFICES ASSUME NEW t \in D, NEW u \in D
               PROVE  f[t] <= f[u] <=> positions[t] >= positions[u]
    OBVIOUS
  <2>1. f[t] \in Int /\ f[u] \in Int /\ positions[t] \in Int /\ positions[u] \in Int
    <3>1. positions[t] \in Int /\ positions[u] \in Int
      BY DEF Placed
    <3>2. f[t] \in Nat /\ f[u] \in Nat
      BY <1>1, <1>2
    <3> QED
      BY <3>1, <3>2
  <2>2. CASE positions[t] = positions[u]
    <3>1. t = u
      BY <2>2 DEF Placed
    <3> QED
      BY <2>1, <3>1
  <2>3. CASE positions[t] > positions[u]
    BY <1>3, <2>1, <2>3
  <2>4. CASE positions[t] < positions[u]
    BY <1>3, <2>1, <2>4
  <2> QED
    BY <2>1, <2>2, <2>3, <2>4
<1>5. Placed(f)
  <2>1. \A t \in D : f[t] \in Int
    BY <1>1, <1>2
  <2>2. \A t, u \in D : f[t] = f[u] => t = u
    <3> SUFFICES ASSUME NEW t \in D, NEW u \in D, f[t] = f[u] PROVE t = u
      OBVIOUS
    <3>1. positions[t] >= positions[u] /\ positions[u] >= positions[t]
      BY <1>4, <2>1
    <3> QED
      BY <3>1 DEF Placed
  <2> QED
    BY <1>1, <2>1, <2>2 DEF Placed
<1>6. Lists!Contiguous(f)
  <2>1. Lists!Positions(f) \in SUBSET (1 .. n)
    BY <1>1, <1>2 DEF Lists!Positions
  <2>0. n \in Nat
    BY PositionsCounted DEF n
  <2>2. /\ IsFiniteSet(1 .. n) /\ Cardinality(1 .. n) = n
    BY <2>0, FS_Interval
  <2>3. Cardinality(Lists!Positions(f)) = n
    BY <1>1, <1>5, PositionsCounted DEF n
  <2>4. Lists!Positions(f) = 1 .. n
    BY <2>1, <2>2, <2>3, FS_Subset
  <2> QED
    BY <1>1, <2>4, ListsCardinality DEF Lists!Contiguous, n
<1>7. \A t \in D : f[t] > 0
  BY <1>1, <1>2
<1> QED
  BY <1>1, <1>4, <1>5, <1>6, <1>7 DEF f

\* In a list without gaps a track has the index that is its position.
LEMMA IndexIsPosition ==
    ASSUME NEW positions, Placed(positions), Lists!Contiguous(positions),
           NEW t \in DOMAIN positions
    PROVE  Cardinality({u \in DOMAIN positions : positions[u] <= positions[t]}) = positions[t]
<1> DEFINE S == {u \in DOMAIN positions : positions[u] <= positions[t]}
           n == Cardinality(DOMAIN positions)
           f == [u \in S |-> positions[u]]
<1>1. Lists!Positions(positions) = 1 .. n /\ n \in Nat
  BY ListsCardinality, PositionsCounted DEF Lists!Contiguous
<1>2. positions[t] \in 1 .. n /\ \A u \in DOMAIN positions : positions[u] \in 1 .. n
  BY <1>1 DEF Lists!Positions
<1>3. \A k \in 1 .. positions[t] : \E u \in S : positions[u] = k
  <2> SUFFICES ASSUME NEW k \in 1 .. positions[t] PROVE \E u \in S : positions[u] = k
    OBVIOUS
  <2>1. k \in Lists!Positions(positions) /\ k <= positions[t]
    BY <1>1, <1>2
  <2> QED
    BY <2>1 DEF Lists!Positions
<1>4. f \in Bijection(S, 1 .. positions[t])
  <2>1. f \in [S -> 1 .. positions[t]]
    BY <1>2
  <2>2. \A u, v \in S : f[u] = f[v] => u = v
    BY DEF Placed
  <2>3. \A k \in 1 .. positions[t] : \E u \in S : f[u] = k
    BY <1>3
  <2> HIDE DEF f, S
  <2> QED
    BY <2>1, <2>2, <2>3, Fun_IsBij
<1>5. IsFiniteSet(S)
  BY FS_Subset DEF Placed
<1>6. Cardinality(1 .. positions[t]) = Cardinality(S)
  BY <1>4, <1>5, FS_Bijection DEF ExistsBijection
<1>7. Cardinality(1 .. positions[t]) = positions[t]
  BY <1>2, FS_Interval
<1> QED
  BY <1>6, <1>7

\* The operations on positions keep them integers, and no two of them the same.
LEMMA WithoutPlaced ==
    ASSUME NEW positions, NEW out, Placed(positions)
    PROVE  /\ Placed(Lists!Without(positions, out))
           /\ DOMAIN Lists!Without(positions, out) = DOMAIN positions \ out
<1>1. IsFiniteSet(DOMAIN positions \ out)
  BY FS_Subset DEF Placed
<1> QED
  BY <1>1 DEF Placed, Lists!Without

LEMMA WithPlaced ==
    ASSUME NEW positions, Placed(positions), NEW t, t \notin DOMAIN positions,
           NEW p \in Int, p \notin Lists!Positions(positions)
    PROVE  /\ Placed(Lists!With(positions, t, p))
           /\ DOMAIN Lists!With(positions, t, p) = DOMAIN positions \cup {t}
           /\ (\A u \in DOMAIN positions : positions[u] > 0) /\ p > 0 =>
                  \A u \in DOMAIN Lists!With(positions, t, p) : Lists!With(positions, t, p)[u] > 0
           /\ Lists!Contiguous(positions) /\ p = Cardinality(DOMAIN positions) + 1 =>
                  Lists!Contiguous(Lists!With(positions, t, p))
<1> DEFINE w == Lists!With(positions, t, p)
           n == Cardinality(DOMAIN positions)
<1>1. /\ DOMAIN w = DOMAIN positions \cup {t} /\ w[t] = p
      /\ \A u \in DOMAIN positions : w[u] = positions[u]
  BY DEF Lists!With
<1>2. \A u \in DOMAIN positions : positions[u] # p
  BY DEF Lists!Positions
<1>3. IsFiniteSet(DOMAIN positions \cup {t}) /\ Cardinality(DOMAIN positions \cup {t}) = n + 1 /\ n \in Nat
  BY FS_AddElement, FS_CardinalityType DEF Placed
<1> HIDE DEF w, n
<1>4. Placed(w)
  BY <1>1, <1>2, <1>3 DEF Placed
<1>5. Lists!Positions(w) = Lists!Positions(positions) \cup {p}
  BY <1>1 DEF Lists!Positions
<1>6. ASSUME Lists!Positions(positions) = 1 .. n, p = n + 1
      PROVE  Lists!Positions(w) = 1 .. n + 1
  BY <1>3, <1>5, <1>6
<1>7. Lists!Contiguous(positions) /\ p = n + 1 => Lists!Contiguous(w)
  BY <1>1, <1>3, <1>6, ListsCardinality DEF Lists!Contiguous, n
<1> QED
  BY <1>1, <1>4, <1>7 DEF w, n

LEMMA NegatedPlaced ==
    ASSUME NEW positions, Placed(positions), Lists!Unique(Lists!Negated(positions))
    PROVE  /\ Placed(Lists!Negated(positions))
           /\ DOMAIN Lists!Negated(positions) = DOMAIN positions
BY DEF Placed, Lists!Negated, Lists!Unique, Lists!IsInjective

LEMMA NegatedPositive ==
    ASSUME NEW positions, Placed(positions), \A t \in DOMAIN positions : positions[t] > 0
    PROVE  \A t \in DOMAIN positions : Lists!Negated(positions)[t] = -positions[t]
BY DEF Placed, Lists!Negated

LEMMA RenumberedInTurn ==
    ASSUME NEW positions, Placed(positions), Lists!Renumbers(positions)
    PROVE  /\ Placed(Lists!Renumbered(positions))
           /\ DOMAIN Lists!Renumbered(positions) = DOMAIN positions
           /\ \A t \in DOMAIN positions : Lists!Renumbered(positions)[t] > 0
           /\ Lists!Contiguous(Lists!Renumbered(positions))
           /\ (\A t \in DOMAIN positions : positions[t] > 0) =>
                  Lists!Listed(Lists!Renumbered(positions)) = Lists!Listed(positions)
<1> DEFINE neg == Lists!Negated(positions)
           ren == Lists!Ranked(neg)
<1>1. Placed(neg) /\ DOMAIN neg = DOMAIN positions
  BY NegatedPlaced DEF Lists!Renumbers
<1> HIDE DEF neg
<1>2. /\ DOMAIN ren = DOMAIN positions /\ Placed(ren) /\ Lists!Contiguous(ren)
      /\ \A t \in DOMAIN positions : ren[t] > 0
      /\ \A t, u \in DOMAIN positions : ren[t] <= ren[u] <=> neg[t] >= neg[u]
  BY <1>1, RankedInTurn
<1>3. Lists!Renumbered(positions) = ren
  BY DEF Lists!Renumbered, neg
<1> HIDE DEF ren
<1>4. ASSUME \A t \in DOMAIN positions : positions[t] > 0
      PROVE  Lists!Listed(ren) = Lists!Listed(positions)
  <2>1. \A t \in DOMAIN positions : neg[t] = -positions[t] /\ positions[t] \in Int
    BY <1>4, NegatedPositive DEF neg, Placed
  <2>2. \A t, u \in DOMAIN positions : ren[t] <= ren[u] <=> positions[t] <= positions[u]
    BY <1>2, <2>1
  <2> QED
    BY <1>2, <2>2 DEF Lists!Listed
<1> QED
  BY <1>2, <1>3, <1>4

-----------------------------------------------------------------------------
(* Playlists: orders *)

LEMMA KeptListed ==
    ASSUME NEW out, wanted = Lists!Listed(id), DOMAIN id \subseteq Lists!Tracks
    PROVE  Lists!Kept(out) = Lists!Listed(Lists!Without(id, out))
BY DEF Lists!Kept, Lists!Only, Lists!Listed, Lists!Without

LEMMA ThenListed ==
    ASSUME NEW positions, Placed(positions), NEW new \in Int, new \notin DOMAIN positions,
           NEW p \in Int, \A t \in DOMAIN positions : positions[t] < p
    PROVE  Lists!Then(Lists!Listed(positions), Lists!ByNumber({new}))
               = Lists!Listed(Lists!With(positions, new, p))
<1> DEFINE w == Lists!With(positions, new, p)
           D == DOMAIN positions
<1>1. /\ DOMAIN w = D \cup {new} /\ w[new] = p
      /\ \A u \in D : w[u] = positions[u] /\ positions[u] \in Int
  BY DEF Lists!With, Placed
<1>2. {q[1] : q \in Lists!Listed(positions)} = D
  <2>1. \A t \in D : <<t, t>> \in Lists!Listed(positions)
    BY <1>1 DEF Lists!Listed
  <2>2. \A q \in Lists!Listed(positions) : q[1] \in D
    BY DEF Lists!Listed
  <2>3. \A t \in D : \E q \in Lists!Listed(positions) : q[1] = t
    BY <2>1
  <2> QED
    BY <2>2, <2>3
<1> HIDE DEF w
<1>3. Lists!ByNumber({new}) = {<<new, new>>} /\ {q[1] : q \in {<<new, new>>}} = {new}
  BY DEF Lists!ByNumber
<1>4. Lists!Then(Lists!Listed(positions), Lists!ByNumber({new}))
          = Lists!Listed(positions) \cup {<<new, new>>} \cup (D \X {new})
  BY <1>2, <1>3 DEF Lists!Then
<1>5. ASSUME NEW q
      PROVE  q \in Lists!Listed(positions) \cup {<<new, new>>} \cup (D \X {new})
                 <=> q \in Lists!Listed(w)
  <2>1. q \in Lists!Listed(w) <=>
            q \in (D \cup {new}) \X (D \cup {new}) /\ w[q[1]] <= w[q[2]]
    BY <1>1 DEF Lists!Listed
  <2>2. q \in Lists!Listed(positions) <=> q \in D \X D /\ positions[q[1]] <= positions[q[2]]
    BY DEF Lists!Listed
  <2>3. CASE q \in D \X D
    BY <1>1, <2>1, <2>2, <2>3
  <2>4. CASE q \in D \X {new}
    BY <1>1, <2>1, <2>4
  <2>5. CASE q \in {new} \X D
    BY <1>1, <2>1, <2>2, <2>5
  <2>6. CASE q = <<new, new>>
    BY <1>1, <2>1, <2>6
  <2> QED
    BY <2>1, <2>2, <2>3, <2>4, <2>5, <2>6
<1> QED
  BY <1>4, <1>5 DEF w

\* An order as the pairs of a set, cut down to some tracks.
LEMMA OnlyListed ==
    ASSUME NEW S \in SUBSET DOMAIN id, wanted = Lists!Listed(id), Placed(id)
    PROVE  /\ Lists!Only(S) = {q \in S \X S : id[q[1]] <= id[q[2]]}
           /\ {q[1] : q \in Lists!Only(S)} = S
<1>1. Lists!Only(S) = {q \in S \X S : id[q[1]] <= id[q[2]]}
  BY DEF Lists!Only, Lists!Listed
<1>2. \A t \in S : <<t, t>> \in Lists!Only(S)
  BY <1>1 DEF Placed
<1>3. \A t \in S : \E q \in Lists!Only(S) : q[1] = t
  BY <1>2
<1>4. \A q \in Lists!Only(S) : q[1] \in S
  BY <1>1
<1> QED
  BY <1>1, <1>3, <1>4

\* Three orders one after another.
LEMMA ThenThen ==
    ASSUME wanted = Lists!Listed(id), Placed(id),
           NEW A \in SUBSET DOMAIN id, NEW B \in SUBSET DOMAIN id, NEW C \in SUBSET DOMAIN id
    PROVE  Lists!Then(Lists!Then(Lists!Only(A), Lists!Only(B)), Lists!Only(C))
               = Lists!Only(A) \cup Lists!Only(B) \cup Lists!Only(C)
                     \cup (A \X B) \cup (A \X C) \cup (B \X C)
<1> DEFINE AB == Lists!Then(Lists!Only(A), Lists!Only(B))
<1>1. AB = Lists!Only(A) \cup Lists!Only(B) \cup (A \X B)
  BY OnlyListed DEF Lists!Then
<1>2. {q[1] : q \in AB} = A \cup B
  <2>1. /\ \A q \in Lists!Only(A) : q[1] \in A
        /\ \A q \in Lists!Only(B) : q[1] \in B
        /\ \A t \in A : \E q \in Lists!Only(A) : q[1] = t
        /\ \A t \in B : \E q \in Lists!Only(B) : q[1] = t
    <3>1. {q[1] : q \in Lists!Only(A)} = A /\ {q[1] : q \in Lists!Only(B)} = B
      BY OnlyListed
    <3> QED
      BY <3>1
  <2>2. \A q \in AB : q[1] \in A \cup B
    BY <1>1, <2>1
  <2>3. \A t \in A \cup B : \E q \in AB : q[1] = t
    BY <1>1, <2>1
  <2> HIDE DEF AB
  <2> QED
    BY <2>2, <2>3
<1>3. {q[1] : q \in Lists!Only(C)} = C
  BY OnlyListed
<1>4. Lists!Then(AB, Lists!Only(C)) = AB \cup Lists!Only(C) \cup ((A \cup B) \X C)
  BY <1>2, <1>3 DEF Lists!Then
<1> HIDE DEF AB
<1>5. (A \cup B) \X C = (A \X C) \cup (B \X C)
  OBVIOUS
<1> QED
  BY <1>1, <1>4, <1>5 DEF AB

\* Where Reorder leaves a track that was at position p.
Moves(pos, newPos, p) ==
    IF p = pos THEN newPos
    ELSE IF pos < p /\ p <= newPos THEN p - 1
    ELSE IF newPos <= p /\ p < pos THEN p + 1
    ELSE p

LEMMA ReorderedAt ==
    ASSUME NEW pos \in Lists!Tracks, NEW newPos \in Lists!Tracks, pos # newPos,
           NEW t \in DOMAIN id, id[t] \in Int, id[t] > 0
    PROVE  Lists!Reordered(pos, newPos)[t] = Moves(pos, newPos, id[t])
<1> DEFINE p == id[t]
           a == Lists!PutAside(pos)[t]
           b == Lists!Shifted(pos, newPos)[t]
           c == Lists!TurnedBack(pos, newPos)[t]
<1> USE ListsFacts
<1>1. a = IF p = pos THEN Lists!Aside ELSE p
  BY DEF Lists!PutAside, Lists!InList
<1>2. b = Lists!Shift(pos, newPos, a)
  BY DEF Lists!Shifted, Lists!InList
<1>3. c = IF b < 0 /\ b # Lists!Aside THEN -b ELSE b
  BY DEF Lists!TurnedBack, Lists!InList
<1>4. Lists!Reordered(pos, newPos)[t] = IF c = Lists!Aside THEN newPos ELSE c
  BY DEF Lists!Reordered, Lists!InList
<1>5. /\ pos \in Int /\ newPos \in Int /\ p \in Int /\ pos > 0 /\ newPos > 0 /\ p > 0
      /\ pos < -Lists!Aside /\ newPos < -Lists!Aside /\ Lists!Aside \in Int /\ Lists!Aside < 0
  OBVIOUS
<1> HIDE DEF p, a, b, c
<1>6. CASE p = pos
  <2>1. b = Lists!Aside
    BY <1>1, <1>2, <1>5, <1>6 DEF Lists!Shift
  <2> QED
    BY <1>3, <1>4, <1>6, <2>1 DEF Moves, p
<1>7. CASE p # pos
  <2>1. b = IF pos < p /\ p <= newPos THEN -(p - 1)
            ELSE IF newPos <= p /\ p < pos THEN -(p + 1) ELSE p
    BY <1>1, <1>2, <1>5, <1>7 DEF Lists!Shift
  <2>2. c = Moves(pos, newPos, p) /\ c # Lists!Aside
    BY <1>3, <1>5, <1>7, <2>1 DEF Moves
  <2> QED
    BY <1>4, <2>2 DEF p
<1> QED
  BY <1>6, <1>7

LEMMA ReorderedListed ==
    ASSUME Placed(id), \A t \in DOMAIN id : id[t] > 0,
           DOMAIN id \subseteq Lists!Tracks, wanted = Lists!Listed(id),
           NEW pos \in Lists!Tracks, NEW newPos \in Lists!Tracks, pos # newPos
    PROVE  /\ Lists!Moved(pos, newPos) = Lists!Listed(Lists!Reordered(pos, newPos))
           /\ DOMAIN Lists!Reordered(pos, newPos) = DOMAIN id
           /\ \A t \in DOMAIN id : Lists!Reordered(pos, newPos)[t] > 0
           /\ {pos, newPos} \subseteq Lists!Positions(id) /\ Lists!Contiguous(id) =>
                  Lists!Contiguous(Lists!Reordered(pos, newPos))
<1> DEFINE r == Lists!Reordered(pos, newPos)
           M(p) == Moves(pos, newPos, p)
           D == DOMAIN id
           moves  == {t \in D : id[t] = pos}
           before == {t \in D \ moves :
                          IF pos < newPos THEN id[t] <= newPos ELSE id[t] < newPos}
           rest   == D \ (moves \cup before)
<1>1. pos \in Int /\ newPos \in Int /\ pos > 0 /\ newPos > 0 /\ \A t \in D : id[t] \in Int /\ id[t] > 0
  BY ListsFacts DEF Placed
<1>2. DOMAIN r = D /\ \A t \in D : r[t] = M(id[t])
  <2>1. DOMAIN r = D
    BY DEF Lists!Reordered, Lists!InList
  <2> QED
    BY <1>1, <2>1, ReorderedAt
<1> HIDE DEF r
<1>3. \A t \in D : r[t] \in Int /\ r[t] > 0
  BY <1>1, <1>2 DEF Moves
<1>4. Lists!Moved(pos, newPos) = Lists!Then(Lists!Then(Lists!Only(before), Lists!Only(moves)), Lists!Only(rest))
  <2>1. Lists!Kept(moves \cup before) = Lists!Only(rest)
    BY DEF Lists!Kept, Lists!Only, Lists!Listed
  <2> QED
    BY <2>1 DEF Lists!Moved, Lists!InList
<1>5. ASSUME NEW t \in D, NEW u \in D
      PROVE  r[t] <= r[u] <=>
                 \/ t \in before /\ u \in before /\ id[t] <= id[u]
                 \/ t \in moves /\ u \in moves /\ id[t] <= id[u]
                 \/ t \in rest /\ u \in rest /\ id[t] <= id[u]
                 \/ t \in before /\ u \in moves
                 \/ t \in before /\ u \in rest
                 \/ t \in moves /\ u \in rest
  <2>1. CASE pos < newPos
    BY <1>1, <1>2, <2>1 DEF Moves
  <2>2. CASE newPos < pos
    BY <1>1, <1>2, <2>2 DEF Moves
  <2> QED
    BY <1>1, <2>1, <2>2
<1>6. before \in SUBSET D /\ moves \in SUBSET D /\ rest \in SUBSET D
  OBVIOUS
<1> HIDE DEF before, moves, rest
<1>7. Lists!Moved(pos, newPos)
          = Lists!Only(before) \cup Lists!Only(moves) \cup Lists!Only(rest)
                \cup (before \X moves) \cup (before \X rest) \cup (moves \X rest)
  BY <1>4, <1>6, ThenThen
<1>8. \A S \in {before, moves, rest} :
          Lists!Only(S) = {q \in S \X S : id[q[1]] <= id[q[2]]}
  BY <1>6, OnlyListed
<1>9. ASSUME NEW q
      PROVE  q \in Lists!Moved(pos, newPos) <=> q \in Lists!Listed(r)
  <2>1. q \in Lists!Listed(r) <=> q \in D \X D /\ r[q[1]] <= r[q[2]]
    BY <1>2 DEF Lists!Listed
  <2>2. q \in Lists!Moved(pos, newPos) => q \in D \X D
    BY <1>6, <1>7, <1>8
  <2>3. ASSUME q \in D \X D
        PROVE  q \in Lists!Moved(pos, newPos) <=> r[q[1]] <= r[q[2]]
    <3>1. PICK t \in D, u \in D : q = <<t, u>>
      BY <2>3
    <3>2. q \in Lists!Moved(pos, newPos) <=>
                 \/ t \in before /\ u \in before /\ id[t] <= id[u]
                 \/ t \in moves /\ u \in moves /\ id[t] <= id[u]
                 \/ t \in rest /\ u \in rest /\ id[t] <= id[u]
                 \/ t \in before /\ u \in moves
                 \/ t \in before /\ u \in rest
                 \/ t \in moves /\ u \in rest
      BY <1>7, <1>8, <3>1
    <3> QED
      BY <1>5, <3>1, <3>2
  <2> QED
    BY <2>1, <2>2, <2>3
<1>10. ASSUME {pos, newPos} \subseteq Lists!Positions(id), Lists!Contiguous(id)
       PROVE  Lists!Contiguous(r)
  <2> DEFINE n == Cardinality(D)
  <2>1. Lists!Positions(id) = 1 .. n /\ n \in Nat
    BY <1>10, ListsCardinality, PositionsCounted DEF Lists!Contiguous
  <2> HIDE DEF n
  <2>2. pos \in 1 .. n /\ newPos \in 1 .. n /\ \A t \in D : id[t] \in 1 .. n
    BY <1>10, <2>1 DEF Lists!Positions
  <2>3. \A p \in 1 .. n : M(p) \in 1 .. n
    BY <2>1, <2>2 DEF Moves
  <2>4. \A k \in 1 .. n : \E p \in 1 .. n : M(p) = k
    <3> SUFFICES ASSUME NEW k \in 1 .. n PROVE \E p \in 1 .. n : M(p) = k
      OBVIOUS
    <3>1. CASE k = newPos
      BY <2>2, <3>1 DEF Moves
    <3>2. CASE k # newPos /\ pos <= k /\ k < newPos
      <4>1. k + 1 \in 1 .. n /\ M(k + 1) = k
        BY <2>1, <2>2, <3>2 DEF Moves
      <4> QED
        BY <4>1
    <3>3. CASE k # newPos /\ newPos < k /\ k <= pos
      <4>1. k - 1 \in 1 .. n /\ M(k - 1) = k
        BY <2>1, <2>2, <3>3 DEF Moves
      <4> QED
        BY <4>1
    <3>4. CASE k # newPos /\ ~(pos <= k /\ k < newPos) /\ ~(newPos < k /\ k <= pos)
      <4>1. M(k) = k
        BY <2>1, <2>2, <3>4 DEF Moves
      <4> QED
        BY <4>1
    <3> QED
      BY <3>1, <3>2, <3>3, <3>4
  <2> HIDE DEF M
  <2>5. \A k \in 1 .. n : \E t \in D : r[t] = k
    <3> SUFFICES ASSUME NEW k \in 1 .. n PROVE \E t \in D : r[t] = k
      OBVIOUS
    <3>1. PICK p \in 1 .. n : M(p) = k
      BY <2>4
    <3>2. PICK t \in D : id[t] = p
      BY <2>1 DEF Lists!Positions
    <3> QED
      BY <1>2, <3>1, <3>2
  <2>6. Lists!Positions(r) = 1 .. n
    BY <1>2, <2>2, <2>3, <2>5 DEF Lists!Positions
  <2> QED
    BY <1>2, <2>6, ListsCardinality DEF Lists!Contiguous, n
<1> QED
  BY <1>2, <1>3, <1>9, <1>10 DEF r

\* The tracks of a file are put before those that were added meanwhile.
LEMMA FilledListed ==
    ASSUME Placed(id), \A t \in DOMAIN id : id[t] > 0, wanted = Lists!Listed(id),
           NEW n \in Nat, NEW old \in Nat, DOMAIN id \subseteq 1 .. old,
           Lists!Positions(id) \cap 1 .. n = {},
           NEW list, list = [t \in DOMAIN id \cup (old + 1) .. (old + n) |->
                                 IF t \in (old + 1) .. (old + n) THEN t - old ELSE id[t]]
    PROVE  /\ Lists!Then(Lists!ByNumber((old + 1) .. (old + n)), wanted) = Lists!Listed(list)
           /\ \A t \in DOMAIN list : list[t] > 0
           /\ DOMAIN id = {} => Lists!Contiguous(list)
<1> DEFINE D == DOMAIN id
           new == (old + 1) .. (old + n)
<1>1. \A t \in D : id[t] \in Int /\ id[t] > n
  <2> SUFFICES ASSUME NEW t \in D PROVE id[t] \in Int /\ id[t] > n
    OBVIOUS
  <2>1. id[t] \in Int /\ id[t] > 0 /\ id[t] \in Lists!Positions(id)
    BY DEF Placed, Lists!Positions
  <2> QED
    BY <2>1
<1>2. \A t \in new : t \in Nat /\ t - old \in 1 .. n /\ t \notin D
  OBVIOUS
<1>3. /\ DOMAIN list = D \cup new /\ \A t \in new : list[t] = t - old
      /\ \A t \in D : list[t] = id[t]
  BY <1>2
<1>4. {q[1] : q \in Lists!ByNumber(new)} = new
  <2>1. \A t \in new : <<t, t>> \in Lists!ByNumber(new)
    BY <1>2 DEF Lists!ByNumber
  <2>2. \A q \in Lists!ByNumber(new) : q[1] \in new
    BY DEF Lists!ByNumber
  <2>3. \A t \in new : \E q \in Lists!ByNumber(new) : q[1] = t
    BY <2>1
  <2> HIDE DEF new
  <2> QED
    BY <2>2, <2>3
<1>5. {q[1] : q \in wanted} = D
  <2>1. \A t \in D : <<t, t>> \in wanted
    BY <1>1 DEF Lists!Listed
  <2>2. \A q \in wanted : q[1] \in D
    BY DEF Lists!Listed
  <2>3. \A t \in D : \E q \in wanted : q[1] = t
    BY <2>1
  <2> QED
    BY <2>2, <2>3
<1>6. Lists!Then(Lists!ByNumber(new), wanted) = Lists!ByNumber(new) \cup wanted \cup (new \X D)
  BY <1>4, <1>5 DEF Lists!Then
<1>7. \A t \in new : \A u \in new : list[t] <= list[u] <=> t <= u
  BY <1>2, <1>3
<1>8. \A t \in new : \A u \in D : list[t] <= list[u] /\ ~(list[u] <= list[t])
  BY <1>1, <1>2, <1>3
<1>9. \A t \in DOMAIN list : list[t] > 0
  BY <1>1, <1>2, <1>3
<1>10. ASSUME D = {} PROVE Lists!Contiguous(list)
  <2>1. Lists!Positions(list) = 1 .. n
    <3>1. \A k \in 1 .. n : old + k \in new /\ list[old + k] = k
      BY <1>3
    <3>2. DOMAIN list = new
      BY <1>3, <1>10
    <3>3. \A t \in new : list[t] \in 1 .. n
      BY <1>2, <1>3
    <3>4. \A k \in 1 .. n : \E t \in new : list[t] = k
      BY <3>1
    <3>5. Lists!Positions(list) = {list[t] : t \in new}
      BY <3>2 DEF Lists!Positions
    <3>6. {list[t] : t \in new} = 1 .. n
      <4> DEFINE N == 1 .. n
      <4>1. \A t \in new : list[t] \in N
        BY <3>3
      <4>2. \A k \in N : \E t \in new : list[t] = k
        BY <3>4
      <4> HIDE DEF new, N
      <4>3. {list[t] : t \in new} = N
        BY <4>1, <4>2, Zenon
      <4> QED
        BY <4>3 DEF N
    <3> QED
      BY <3>5, <3>6
  <2>2. Cardinality(DOMAIN list) = n
    BY <1>3, <1>10, FS_Interval
  <2> QED
    BY <2>1, <2>2, ListsCardinality DEF Lists!Contiguous
<1> HIDE DEF new
<1>11. ASSUME NEW q
       PROVE  q \in Lists!ByNumber(new) \cup wanted \cup (new \X D) <=> q \in Lists!Listed(list)
  <2>1. q \in Lists!Listed(list) <=>
            q \in (D \cup new) \X (D \cup new) /\ list[q[1]] <= list[q[2]]
    BY <1>3 DEF Lists!Listed
  <2>2. q \in wanted <=> q \in D \X D /\ id[q[1]] <= id[q[2]]
    BY DEF Lists!Listed
  <2>3. q \in Lists!ByNumber(new) <=> q \in new \X new /\ q[1] <= q[2]
    BY DEF Lists!ByNumber
  <2>4. CASE q \in D \X D
    BY <1>2, <1>3, <2>1, <2>2, <2>3, <2>4
  <2>5. CASE q \in new \X new
    BY <1>2, <1>7, <2>1, <2>2, <2>3, <2>5
  <2>6. CASE q \in new \X D
    <3>1. PICK t \in new, u \in D : q = <<t, u>>
      BY <2>6
    <3>2. list[t] <= list[u]
      BY <1>8
    <3> QED
      BY <2>1, <2>6, <3>1, <3>2
  <2>7. CASE q \in D \X new
    <3>1. PICK u \in D, t \in new : q = <<u, t>>
      BY <2>7
    <3>2. ~(list[u] <= list[t])
      BY <1>8
    <3>3. t \notin D
      BY <1>2
    <3>4. q \notin Lists!Listed(list)
      BY <2>1, <3>1, <3>2
    <3>5. q \notin D \X D /\ q \notin new \X new /\ q \notin new \X D
      BY <1>2, <3>1, <3>3
    <3> QED
      BY <2>2, <2>3, <3>4, <3>5
  <2> QED
    BY <2>1, <2>2, <2>3, <2>4, <2>5, <2>6, <2>7
<1> QED
  BY <1>6, <1>9, <1>10, <1>11 DEF new

\* A list that is new, or whose tracks were put aside.
LEMMA NewListed ==
    ASSUME NEW n \in Nat, NEW old \in Nat,
           NEW list, list = [t \in (old + 1) .. (old + n) |-> t - old]
    PROVE  /\ Placed(list) /\ Lists!Contiguous(list)
           /\ Lists!ByNumber((old + 1) .. (old + n)) = Lists!Listed(list)
           /\ \A t \in DOMAIN list : list[t] > 0
<1> DEFINE new == (old + 1) .. (old + n)
<1>1. DOMAIN list = new /\ \A t \in new : t \in Int /\ list[t] = t - old /\ list[t] \in 1 .. n
  OBVIOUS
<1>2. IsFiniteSet(new) /\ Cardinality(new) = n
  BY FS_Interval
<1>3. \A k \in 1 .. n : \E t \in new : list[t] = k
  <2>1. \A k \in 1 .. n : old + k \in new /\ list[old + k] = k
    BY <1>1
  <2> QED
    BY <2>1
<1> HIDE DEF new
<1>4. Lists!Positions(list) = 1 .. n
  <2> DEFINE N == 1 .. n
  <2>1. /\ \A t \in new : list[t] \in N
        /\ \A k \in N : \E t \in new : list[t] = k
    BY <1>1, <1>3
  <2> HIDE DEF N
  <2>2. {list[t] : t \in new} = N
    BY <2>1, Zenon
  <2> QED
    BY <1>1, <2>2 DEF Lists!Positions, N
<1>5. Lists!Contiguous(list)
  BY <1>1, <1>2, <1>4, ListsCardinality DEF Lists!Contiguous
<1>6. Placed(list)
  BY <1>1, <1>2 DEF Placed
<1>7. \A t \in new, u \in new : list[t] <= list[u] <=> t <= u
  BY <1>1
<1>8. Lists!ByNumber(new) = Lists!Listed(list)
  BY <1>1, <1>7 DEF Lists!ByNumber, Lists!Listed
<1> QED
  BY <1>1, <1>5, <1>6, <1>8 DEF new

LEMMA FilledPlaced ==
    ASSUME Placed(id), NEW n \in Nat, NEW old \in Nat, DOMAIN id \subseteq 1 .. old,
           Lists!Positions(id) \cap 1 .. n = {},
           NEW list, list = [t \in DOMAIN id \cup (old + 1) .. (old + n) |->
                                 IF t \in (old + 1) .. (old + n) THEN t - old ELSE id[t]]
    PROVE  Placed(list) /\ DOMAIN list = DOMAIN id \cup (old + 1) .. (old + n)
<1> DEFINE new == (old + 1) .. (old + n)
<1>1. IsFiniteSet(DOMAIN id \cup new)
  <2>1. IsFiniteSet(new)
    BY FS_Interval
  <2> QED
    BY <2>1, FS_Union DEF Placed
<1>2. \A t \in new : t \in Nat /\ t - old \in 1 .. n /\ t \notin DOMAIN id
  OBVIOUS
<1>3. DOMAIN list = DOMAIN id \cup new
  OBVIOUS
<1>4. \A t \in new : list[t] = t - old /\ t \in Int
  BY <1>2
<1>5. \A t \in DOMAIN id : list[t] = id[t] /\ list[t] \in Int /\ list[t] \notin 1 .. n
  BY <1>2 DEF Placed, Lists!Positions
<1>6. ASSUME NEW t \in DOMAIN list, NEW u \in DOMAIN list, list[t] = list[u] PROVE t = u
  <2>1. CASE t \in new /\ u \in new
    BY <1>4, <1>6, <2>1
  <2>2. CASE t \in DOMAIN id /\ u \in DOMAIN id
    BY <1>5, <1>6, <2>2 DEF Placed
  <2>3. CASE t \in new /\ u \in DOMAIN id
    BY <1>2, <1>4, <1>5, <1>6, <2>3
  <2>4. CASE t \in DOMAIN id /\ u \in new
    BY <1>2, <1>4, <1>5, <1>6, <2>4
  <2> QED
    BY <1>3, <2>1, <2>2, <2>3, <2>4
<1>7. \A t \in DOMAIN list : list[t] \in Int
  BY <1>2, <1>3, <1>4, <1>5
<1> QED
  BY <1>1, <1>3, <1>6, <1>7 DEF Placed

\* A list whose first positions are free has gaps, or is empty.
LEMMA FirstIsFree ==
    ASSUME NEW positions, Placed(positions), Lists!Contiguous(positions),
           NEW n \in Nat, n > 0, Lists!Positions(positions) \cap 1 .. n = {}
    PROVE  DOMAIN positions = {}
<1> DEFINE m == Cardinality(DOMAIN positions)
<1>1. Lists!Positions(positions) = 1 .. m /\ m \in Nat
  BY ListsCardinality, PositionsCounted DEF Lists!Contiguous
<1> HIDE DEF m
<1>2. 1 .. m = {}
  <2>1. 1 \in 1 .. n
    OBVIOUS
  <2>2. 1 \notin 1 .. m
    BY <1>1, <2>1
  <2> QED
    BY <1>1, <2>2
<1> QED
  BY <1>1, <1>2 DEF Lists!Positions

LEMMA ReorderedPlaced ==
    ASSUME Placed(id), NEW pos \in Lists!Tracks, NEW newPos \in Lists!Tracks,
           Lists!Reorders(pos, newPos)
    PROVE  Placed(Lists!Reordered(pos, newPos)) /\ DOMAIN Lists!Reordered(pos, newPos) = DOMAIN id
<1> DEFINE r == Lists!Reordered(pos, newPos)
           a == Lists!PutAside(pos)
           b == Lists!Shifted(pos, newPos)
           c == Lists!TurnedBack(pos, newPos)
<1>1. pos \in Int /\ newPos \in Int /\ Lists!Aside \in Int
  BY ListsFacts
<1>2. \A t \in DOMAIN id : a[t] \in Int
  BY <1>1 DEF Lists!PutAside, Lists!InList, Placed
<1>3. \A t \in DOMAIN id : b[t] = Lists!Shift(pos, newPos, a[t])
  BY DEF Lists!Shifted, Lists!InList
<1> HIDE DEF a, b
<1>4. \A t \in DOMAIN id : b[t] \in Int
  BY <1>1, <1>2, <1>3 DEF Lists!Shift
<1>5. \A t \in DOMAIN id : c[t] = IF b[t] < 0 /\ b[t] # Lists!Aside THEN -b[t] ELSE b[t]
  BY DEF Lists!TurnedBack, Lists!InList, b
<1> HIDE DEF c
<1>6. \A t \in DOMAIN id : c[t] \in Int
  BY <1>4, <1>5
<1>7. DOMAIN r = DOMAIN id /\ \A t \in DOMAIN id : r[t] = IF c[t] = Lists!Aside THEN newPos ELSE c[t]
  BY DEF Lists!Reordered, Lists!InList, c
<1>8. Lists!Unique(r)
  BY DEF Lists!Reorders
<1> HIDE DEF r
<1>9. \A t \in DOMAIN id : r[t] \in Int
  BY <1>1, <1>6, <1>7
<1> QED
  BY <1>7, <1>8, <1>9 DEF Placed, Lists!Unique, Lists!IsInjective, r

\* A contiguous list stays so if it has the same tracks at the same positions.
LEMMA SameContiguous ==
    ASSUME NEW f, NEW g, DOMAIN f = DOMAIN g, \A t \in DOMAIN f : f[t] = g[t]
    PROVE  Lists!Contiguous(f) <=> Lists!Contiguous(g)
<1>1. Lists!Positions(f) = Lists!Positions(g)
  BY DEF Lists!Positions
<1> QED
  BY <1>1 DEF Lists!Contiguous

-----------------------------------------------------------------------------
(* Playlists: the list and its order *)

Ranking == {c \in Clients : at[c] = "rank"}

Numbered ==
    /\ Placed(id)
    /\ DOMAIN id \subseteq 1 .. used /\ used \in 0 .. MaxTracks

\* A request knows what it has to write.
Stepping ==
    /\ at \in [Clients -> Lists!Steps] /\ local \in [Clients -> Int]
    /\ \A c \in Clients : /\ at[c] = "count" => local[c] >= 0
                          /\ at[c] \in {"clear", "fill"} => local[c] > 0

Ordered ==
    /\ wanted = Lists!Listed(id)
    /\ \A t \in DOMAIN id : id[t] > 0
    /\ Lists!Contiguous(id) \/ gapped

\* Between the two statements of renumber, the positions are turned round.
Turned ==
    /\ \A c, d \in Ranking : c = d
    /\ wanted = {p \in (DOMAIN id) \X (DOMAIN id) : id[p[1]] >= id[p[2]]}
    /\ \A t \in DOMAIN id : id[t] < 0

OrderKept == crossed \/ (IF Ranking = {} THEN Ordered ELSE Turned)

\* A transaction or a statement that no other request is crossed by meets the order.
LEMMA Uncrossed ==
    ASSUME OrderKept, NEW c \in Clients, at[c] # "rank", ~(crossed \/ Lists!Crosses(c))
    PROVE  Ordered /\ Ranking = {}
BY DEF OrderKept, Ranking, Lists!Crosses

LEMMA GotoStep ==
    ASSUME Stepping, NEW c \in Clients, NEW step \in Lists!Steps, NEW value \in Int,
           Lists!Goto(c, step, value)
    PROVE  /\ at' \in [Clients -> Lists!Steps] /\ local' \in [Clients -> Int]
           /\ at'[c] = step /\ local'[c] = value
           /\ \A d \in Clients \ {c} : at'[d] = at[d] /\ local'[d] = local[d]
BY DEF Stepping, Lists!Goto

LEMMA GotoRanking ==
    ASSUME Stepping, NEW c \in Clients, NEW step \in Lists!Steps, NEW value \in Int,
           Lists!Goto(c, step, value)
    PROVE  /\ step # "rank" => Ranking' = Ranking \ {c}
           /\ step = "rank" => Ranking' = Ranking \cup {c}
BY GotoStep DEF Ranking

LEMMA NumberedTracks == Numbered => DOMAIN id \subseteq Lists!Tracks /\ used \in Nat /\ used + 1 \notin DOMAIN id
BY ListsFacts DEF Numbered

LEMMA RemoveInOrder ==
    ASSUME Numbered, Stepping, OrderKept, NEW c \in Clients, NEW pos \in Lists!Tracks,
           Lists!RemoveTracks(c, pos)
    PROVE  Numbered' /\ OrderKept'
<1> DEFINE out  == {t \in DOMAIN id : id[t] = pos}
           rest == Lists!Without(id, out)
<1>1. /\ at[c] = "idle" /\ Lists!Renumbers(rest)
      /\ Lists!Commit(c, Lists!Renumbered(rest), Lists!Kept(out)) /\ UNCHANGED used
  BY DEF Lists!RemoveTracks, Lists!Request, Lists!InList
<1>2. Placed(rest) /\ DOMAIN rest = DOMAIN id \ out /\ \A t \in DOMAIN rest : rest[t] = id[t]
  <2>1. \A t \in DOMAIN rest : rest[t] = id[t]
    BY DEF Lists!Without
  <2> QED
    BY <2>1, WithoutPlaced DEF Numbered
<1> HIDE DEF rest, out
<1>3. /\ id' = Lists!Renumbered(rest) /\ wanted' = Lists!Kept(out) /\ UNCHANGED at
      /\ crossed' = (crossed \/ Lists!Crosses(c))
  BY <1>1 DEF Lists!Commit, Lists!locals
<1>4. Placed(id') /\ DOMAIN id' = DOMAIN id \ out /\ \A t \in DOMAIN id' : id'[t] > 0
  BY <1>1, <1>2, <1>3, RenumberedInTurn
<1>5. Numbered'
  BY <1>1, <1>4 DEF Numbered, Placed
<1>6. ASSUME ~(crossed \/ Lists!Crosses(c)) PROVE Ordered' /\ Ranking' = {}
  <2>1. Ordered /\ Ranking = {}
    BY <1>1, <1>6, Uncrossed
  <2>2. \A t \in DOMAIN rest : rest[t] > 0
    BY <1>2, <2>1 DEF Ordered
  <2>3. Lists!Listed(id') = Lists!Listed(rest) /\ Lists!Contiguous(id')
    BY <1>1, <1>2, <1>3, <2>2, RenumberedInTurn
  <2>4. Lists!Kept(out) = Lists!Listed(rest)
    BY <2>1, KeptListed, NumberedTracks DEF Ordered, rest
  <2> QED
    BY <1>3, <1>4, <2>1, <2>3, <2>4 DEF Ordered, Ranking
<1> QED
  BY <1>3, <1>5, <1>6 DEF OrderKept

LEMMA UpdateInOrder ==
    ASSUME Numbered, Stepping, OrderKept, NEW c \in Clients, NEW i \in Lists!Tracks,
           Lists!UpdateTracks(c, i)
    PROVE  Numbered' /\ OrderKept'
<1> DEFINE out  == {t \in DOMAIN id : id[t] = i}
           left == Lists!Without(id, out)
           rest == Lists!Renumbered(left)
           new  == used + 1
<1>1. /\ at[c] = "idle" /\ Lists!Renumbers(left) /\ used < MaxTracks
      /\ Lists!Commit(c, Lists!With(rest, new, Lists!Following(rest)),
                      Lists!Then(Lists!Kept(out), Lists!ByNumber({new})))
      /\ used' = new /\ gapped' = FALSE
  BY DEF Lists!UpdateTracks, Lists!Request, Lists!InList
<1>2. Placed(left) /\ DOMAIN left = DOMAIN id \ out /\ \A t \in DOMAIN left : left[t] = id[t]
  <2>1. \A t \in DOMAIN left : left[t] = id[t]
    BY DEF Lists!Without
  <2> QED
    BY <2>1, WithoutPlaced DEF Numbered
<1> HIDE DEF left, out
<1>3. /\ id' = Lists!With(rest, new, Lists!Following(rest))
      /\ wanted' = Lists!Then(Lists!Kept(out), Lists!ByNumber({new})) /\ UNCHANGED at
      /\ crossed' = (crossed \/ Lists!Crosses(c))
  BY <1>1 DEF Lists!Commit, Lists!locals
<1>4. /\ Placed(rest) /\ DOMAIN rest = DOMAIN id \ out /\ \A t \in DOMAIN rest : rest[t] > 0
      /\ Lists!Contiguous(rest)
  BY <1>1, <1>2, RenumberedInTurn
<1> HIDE DEF rest
<1>5. new \notin DOMAIN rest /\ new \in Int
  BY <1>4, NumberedTracks
<1>6. /\ Lists!Following(rest) \in Int /\ Lists!Following(rest) > 0
      /\ \A t \in DOMAIN rest : rest[t] < Lists!Following(rest)
      /\ Lists!Following(rest) = Cardinality(DOMAIN rest) + 1
  BY <1>4, FollowingIsLast
<1>7. Lists!Following(rest) \notin Lists!Positions(rest)
  <2>1. \A t \in DOMAIN rest : rest[t] # Lists!Following(rest)
    BY <1>4, <1>6 DEF Placed
  <2> QED
    BY <2>1 DEF Lists!Positions
<1>8. /\ Placed(id') /\ DOMAIN id' = DOMAIN rest \cup {new}
      /\ \A t \in DOMAIN id' : id'[t] > 0
      /\ Lists!Contiguous(id')
  BY <1>3, <1>4, <1>5, <1>6, <1>7, WithPlaced
<1>9. Numbered'
  <2>1. DOMAIN id' \subseteq 1 .. used' /\ used' \in 0 .. MaxTracks
    BY <1>1, <1>4, <1>8, ListsFacts DEF Numbered
  <2> QED
    BY <1>8, <2>1 DEF Numbered, Placed
<1>10. ASSUME ~(crossed \/ Lists!Crosses(c)) PROVE Ordered' /\ Ranking' = {}
  <2>1. Ordered /\ Ranking = {}
    BY <1>1, <1>10, Uncrossed
  <2>2. \A t \in DOMAIN left : left[t] > 0
    BY <1>2, <2>1 DEF Ordered
  <2>3. Lists!Listed(rest) = Lists!Listed(left)
    BY <1>1, <1>2, <2>2, RenumberedInTurn DEF rest
  <2>4. Lists!Kept(out) = Lists!Listed(left)
    BY <2>1, KeptListed, NumberedTracks DEF Ordered, left
  <2>5. wanted' = Lists!Listed(id')
    BY <1>3, <1>4, <1>5, <1>6, <2>3, <2>4, ThenListed
  <2> QED
    BY <1>3, <1>8, <2>1, <2>5 DEF Ordered, Ranking
<1> QED
  BY <1>3, <1>9, <1>10 DEF OrderKept

LEMMA ReorderInOrder ==
    ASSUME Numbered, Stepping, OrderKept, NEW c \in Clients,
           NEW pos \in Lists!Tracks, NEW newPos \in Lists!Tracks, Lists!ReorderTrack(c, pos, newPos)
    PROVE  Numbered' /\ OrderKept'
<1>1. /\ at[c] = "idle" /\ pos # newPos /\ Lists!Reorders(pos, newPos)
      /\ id' = Lists!Reordered(pos, newPos) /\ wanted' = Lists!Moved(pos, newPos)
      /\ crossed' = (crossed \/ Lists!Crosses(c))
      /\ gapped' = (gapped \/ ~({pos, newPos} \subseteq Lists!Positions(id)))
      /\ UNCHANGED <<used, at>>
  BY DEF Lists!ReorderTrack, Lists!Request, Lists!locals
<1>2. Placed(id') /\ DOMAIN id' = DOMAIN id
  BY <1>1, ReorderedPlaced DEF Numbered
<1>3. Numbered'
  BY <1>1, <1>2 DEF Numbered, Placed
<1>4. ASSUME ~(crossed \/ Lists!Crosses(c)) PROVE Ordered' /\ Ranking' = {}
  <2>1. Ordered /\ Ranking = {}
    BY <1>1, <1>4, Uncrossed
  <2>2. /\ wanted' = Lists!Listed(id') /\ \A t \in DOMAIN id : id'[t] > 0
        /\ {pos, newPos} \subseteq Lists!Positions(id) /\ Lists!Contiguous(id) => Lists!Contiguous(id')
    BY <1>1, <2>1, ReorderedListed, NumberedTracks DEF Ordered, Numbered
  <2>3. Lists!Contiguous(id') \/ gapped'
    BY <1>1, <2>1, <2>2 DEF Ordered
  <2> QED
    BY <1>1, <1>2, <2>1, <2>2, <2>3 DEF Ordered, Ranking
<1> QED
  BY <1>1, <1>3, <1>4 DEF OrderKept

LEMMA CreateInOrder ==
    ASSUME Numbered, Stepping, OrderKept, NEW c \in Clients, NEW n \in 0 .. 2, Lists!Create(c, n)
    PROVE  Numbered' /\ OrderKept'
<1>1. at[c] = "idle" /\ used + n <= MaxTracks /\ used' = used + n /\ gapped' = (gapped /\ n = 0)
  BY DEF Lists!Create, Lists!Request
<1>2. CASE n = 0
  <2>1. /\ id' = id /\ wanted' = wanted /\ crossed' = (crossed \/ Lists!Crosses(c)) /\ UNCHANGED at
    BY <1>2 DEF Lists!Create, Lists!Commit, Lists!locals
  <2>2. Numbered'
    BY <1>1, <1>2, <2>1 DEF Numbered, Placed
  <2>3. gapped => gapped'
    BY <1>1, <1>2
  <2>4. ASSUME ~(crossed \/ Lists!Crosses(c)) PROVE Ordered' /\ Ranking' = {}
    <3>1. Ordered /\ Ranking = {}
      BY <1>1, <2>4, Uncrossed
    <3> QED
      BY <2>1, <2>3, <3>1 DEF Ordered, Ranking
  <2> QED
    BY <2>1, <2>2, <2>4 DEF OrderKept
<1>3. CASE n # 0
  <2> DEFINE new == (used + 1) .. (used + n)
             list == [t \in new |-> t - used]
  <2>1. /\ id' = list /\ wanted' = Lists!ByNumber(new)
        /\ crossed' = (crossed \/ Lists!Crosses(c)) /\ UNCHANGED at
    BY <1>3 DEF Lists!Create, Lists!Commit, Lists!locals
  <2>2. /\ Placed(list) /\ Lists!Contiguous(list) /\ Lists!ByNumber(new) = Lists!Listed(list)
        /\ \A t \in DOMAIN list : list[t] > 0
    <3>1. n \in Nat /\ used \in Nat
      BY NumberedTracks
    <3> QED
      BY <3>1, NewListed, Zenon
  <2>3. DOMAIN list = new /\ new \subseteq 1 .. used + n /\ used + n \in 0 .. MaxTracks
    BY <1>1 DEF Numbered
  <2> HIDE DEF list, new
  <2>4. Numbered'
    BY <1>1, <2>1, <2>2, <2>3 DEF Numbered, Placed
  <2>5. ASSUME ~(crossed \/ Lists!Crosses(c)) PROVE Ordered' /\ Ranking' = {}
    <3>1. Ranking = {}
      BY <1>1, <2>5, Uncrossed
    <3> QED
      BY <2>1, <2>2, <3>1 DEF Ordered, Ranking
  <2> QED
    BY <2>1, <2>4, <2>5 DEF OrderKept
<1> QED
  BY <1>2, <1>3

LEMMA InsertInOrder ==
    ASSUME Numbered, Stepping, OrderKept, NEW c \in Clients, Lists!Insert(c)
    PROVE  Numbered' /\ OrderKept'
<1> DEFINE new == used + 1
           p == local[c]
           next == Lists!Following(id)
<1>1. /\ at[c] = "insert" /\ used < MaxTracks /\ p \notin Lists!Positions(id)
      /\ id' = Lists!With(id, new, p) /\ used' = new
      /\ wanted' = Lists!Then(wanted, Lists!ByNumber({new}))
      /\ crossed' = (crossed \/ Lists!Crosses(c) \/ p < next)
      /\ gapped' = (gapped \/ p > next)
      /\ Lists!Goto(c, "stats", 0)
  BY DEF Lists!Insert
<1>2. p \in Int /\ new \in Int /\ new \notin DOMAIN id /\ Placed(id)
  BY NumberedTracks DEF Stepping, Numbered
<1>3. /\ Placed(id') /\ DOMAIN id' = DOMAIN id \cup {new}
      /\ (\A u \in DOMAIN id : id[u] > 0) /\ p > 0 => \A u \in DOMAIN id' : id'[u] > 0
      /\ Lists!Contiguous(id) /\ p = Cardinality(DOMAIN id) + 1 => Lists!Contiguous(id')
  BY <1>1, <1>2, WithPlaced
<1>4. Numbered'
  <2>1. DOMAIN id' \subseteq 1 .. used' /\ used' \in 0 .. MaxTracks
    BY <1>1, <1>3, ListsFacts DEF Numbered
  <2> QED
    BY <1>3, <2>1 DEF Numbered, Placed
<1>5. ASSUME ~(crossed \/ Lists!Crosses(c)), ~(p < next) PROVE Ordered' /\ Ranking' = {}
  <2>1. Ordered /\ Ranking = {}
    BY <1>1, <1>5, Uncrossed
  <2>2. /\ next \in Int /\ \A t \in DOMAIN id : id[t] < next
        /\ (\A t \in DOMAIN id : id[t] > 0) => next > 0
        /\ Lists!Contiguous(id) => next = Cardinality(DOMAIN id) + 1
    BY <1>2, FollowingIsLast
  <2> HIDE DEF new, p, next
  <2>3. p > 0 /\ \A t \in DOMAIN id : id[t] < p
    BY <1>2, <1>5, <2>1, <2>2 DEF Ordered, Placed
  <2>4. wanted' = Lists!Listed(id')
    BY <1>1, <1>2, <2>1, <2>3, ThenListed DEF Ordered
  <2>5. Lists!Contiguous(id') \/ gapped'
    <3>1. CASE p = next
      BY <1>1, <1>3, <2>1, <2>2, <3>1 DEF Ordered
    <3>2. CASE p # next
      <4>1. p > next
        BY <1>2, <1>5, <2>2, <3>2
      <4> QED
        BY <1>1, <4>1
    <3> QED
      BY <3>1, <3>2
  <2>6. Ranking' = {}
    BY <1>1, <2>1, GotoRanking DEF Lists!Steps
  <2> QED
    BY <1>3, <2>1, <2>3, <2>4, <2>5, <2>6 DEF Ordered
<1> QED
  BY <1>1, <1>4, <1>5 DEF OrderKept

LEMMA ClearInOrder ==
    ASSUME Numbered, Stepping, OrderKept, NEW c \in Clients, Lists!Clear(c)
    PROVE  Numbered' /\ OrderKept'
<1>1. /\ at[c] = "clear" /\ id' = Lists!Without(id, DOMAIN id) /\ wanted' = {}
      /\ crossed' = Lists!Crosses(c) /\ gapped' = FALSE /\ UNCHANGED used
      /\ Lists!Goto(c, "fill", local[c])
  BY DEF Lists!Clear, Lists!InList, Lists!bounds
<1>2. Placed(id') /\ DOMAIN id' = {}
  <2>1. Placed(id') /\ DOMAIN id' = DOMAIN id \ DOMAIN id
    BY <1>1, WithoutPlaced DEF Numbered
  <2> QED
    BY <2>1
<1>3. Numbered'
  BY <1>1, <1>2 DEF Numbered, Placed
<1>4. ASSUME ~Lists!Crosses(c) PROVE Ordered' /\ Ranking' = {}
  <2>1. Ranking = {}
    BY <1>1, <1>4 DEF Ranking, Lists!Crosses
  <2>2. local[c] \in Int
    BY DEF Stepping
  <2>3. Ranking' = {}
    BY <1>1, <2>1, <2>2, GotoRanking DEF Lists!Steps
  <2>4. Lists!Positions(id') = {} /\ Cardinality(DOMAIN id') = 0
    BY <1>2, FS_EmptySet DEF Lists!Positions
  <2>5. Lists!Contiguous(id')
    <3>1. 1 .. 0 = {}
      OBVIOUS
    <3> QED
      BY <2>4, <3>1, ListsCardinality DEF Lists!Contiguous
  <2>6. wanted' = Lists!Listed(id')
    BY <1>1, <1>2 DEF Lists!Listed
  <2> QED
    BY <1>2, <2>3, <2>5, <2>6 DEF Ordered
<1> QED
  BY <1>1, <1>3, <1>4 DEF OrderKept

LEMMA FillInOrder ==
    ASSUME Numbered, Stepping, OrderKept, NEW c \in Clients, Lists!Fill(c)
    PROVE  Numbered' /\ OrderKept'
<1> DEFINE n == local[c]
           new == (used + 1) .. (used + n)
           list == [t \in DOMAIN id \cup new |-> IF t \in new THEN t - used ELSE id[t]]
<1>1. /\ at[c] = "fill" /\ used + n <= MaxTracks /\ Lists!Positions(id) \cap 1 .. n = {}
      /\ id' = list /\ used' = used + n
      /\ wanted' = Lists!Then(Lists!ByNumber(new), wanted)
      /\ crossed' = (crossed \/ Lists!Crosses(c)) /\ UNCHANGED gapped
      /\ Lists!Goto(c, "stats", 0)
  BY DEF Lists!Fill, Lists!InList
<1>2. n \in Nat /\ n > 0 /\ used \in Nat /\ DOMAIN id \subseteq 1 .. used /\ Placed(id)
  BY <1>1, NumberedTracks DEF Stepping, Numbered
<1> HIDE DEF n
<1>3. Placed(list) /\ DOMAIN list = DOMAIN id \cup new
  BY <1>1, <1>2, FilledPlaced, Zenon
<1>4. new \subseteq 1 .. used + n /\ used + n \in 0 .. MaxTracks /\ 1 .. used \subseteq 1 .. used + n
  BY <1>1, <1>2, ListsFacts
<1>5. Numbered'
  <2> HIDE DEF list, new
  <2>1. Placed(id')
    BY <1>1, <1>3
  <2>2. DOMAIN id' \subseteq 1 .. used' /\ used' \in 0 .. MaxTracks
    <3>1. DOMAIN id' \subseteq 1 .. used + n
      BY <1>1, <1>2, <1>3, <1>4
    <3> QED
      BY <1>1, <1>4, <3>1
  <2> QED
    BY <2>1, <2>2 DEF Numbered, Placed
<1>6. ASSUME ~(crossed \/ Lists!Crosses(c)) PROVE Ordered' /\ Ranking' = {}
  <2>1. Ordered /\ Ranking = {}
    BY <1>1, <1>6, Uncrossed
  <2>2. /\ Lists!Then(Lists!ByNumber(new), wanted) = Lists!Listed(list)
        /\ \A t \in DOMAIN list : list[t] > 0
        /\ DOMAIN id = {} => Lists!Contiguous(list)
    BY <1>1, <1>2, <2>1, FilledListed, Zenon DEF Ordered
  <2>3. Lists!Contiguous(id) => DOMAIN id = {}
    BY <1>1, <1>2, FirstIsFree
  <2>4. Ranking' = {}
    BY <1>1, <2>1, GotoRanking DEF Lists!Steps
  <2> QED
    BY <1>1, <2>1, <2>2, <2>3, <2>4 DEF Ordered
<1> QED
  BY <1>1, <1>5, <1>6 DEF OrderKept

LEMMA PurgeInOrder ==
    ASSUME Numbered, Stepping, OrderKept, NEW c \in Clients, Lists!Purge(c)
    PROVE  Numbered' /\ OrderKept'
<1> DEFINE step == IF DOMAIN id \cap deleted = {} THEN "idle" ELSE "negate"
           rest == Lists!Without(id, deleted)
<1>1. /\ at[c] = "purge" /\ Lists!Goto(c, step, 0)
      /\ id' = rest /\ wanted' = Lists!Kept(deleted)
      /\ crossed' = (crossed \/ Lists!Crosses(c))
      /\ gapped' = (gapped \/ DOMAIN id \cap deleted # {}) /\ UNCHANGED used
  BY DEF Lists!Purge, Lists!InList, Lists!bounds
<1>2. step \in Lists!Steps /\ step # "rank"
  BY DEF Lists!Steps
<1>3. Placed(rest) /\ DOMAIN rest = DOMAIN id \ deleted /\ \A t \in DOMAIN rest : rest[t] = id[t]
  <2>1. \A t \in DOMAIN rest : rest[t] = id[t]
    BY DEF Lists!Without
  <2> QED
    BY <2>1, WithoutPlaced DEF Numbered
<1> HIDE DEF step, rest
<1>4. Numbered'
  BY <1>1, <1>3 DEF Numbered, Placed
<1>5. ASSUME ~(crossed \/ Lists!Crosses(c)) PROVE Ordered' /\ Ranking' = {}
  <2>1. Ordered /\ Ranking = {}
    BY <1>1, <1>5, Uncrossed
  <2>2. Ranking' = {}
    BY <1>1, <1>2, <2>1, GotoRanking
  <2>3. wanted' = Lists!Listed(id')
    BY <1>1, <2>1, KeptListed, NumberedTracks DEF Ordered, rest
  <2>4. \A t \in DOMAIN rest : rest[t] > 0
    BY <1>3, <2>1 DEF Ordered
  <2>5. Lists!Contiguous(rest) \/ gapped'
    <3>1. CASE DOMAIN id \cap deleted = {}
      <4>1. DOMAIN rest = DOMAIN id
        BY <1>3, <3>1
      <4>2. Lists!Contiguous(rest) <=> Lists!Contiguous(id)
        BY <1>3, <4>1, SameContiguous
      <4> QED
        BY <1>1, <2>1, <4>2 DEF Ordered
    <3> QED
      BY <1>1, <3>1
  <2> QED
    BY <1>1, <2>2, <2>3, <2>4, <2>5 DEF Ordered
<1> QED
  BY <1>1, <1>4, <1>5 DEF OrderKept

LEMMA NegateInOrder ==
    ASSUME Numbered, Stepping, OrderKept, NEW c \in Clients, Lists!Negate(c)
    PROVE  Numbered' /\ OrderKept'
<1>1. /\ at[c] = "negate" /\ crossed' = (crossed \/ Lists!Crosses(c))
      /\ UNCHANGED <<used, wanted, gapped>>
  BY DEF Lists!Negate, Lists!bounds
<1>2. CASE Lists!Unique(Lists!Negated(id))
  <2>1. id' = Lists!Negated(id) /\ Lists!Goto(c, "rank", 0)
    BY <1>2 DEF Lists!Negate
  <2>2. Placed(id') /\ DOMAIN id' = DOMAIN id
    BY <1>2, <2>1, NegatedPlaced DEF Numbered
  <2>3. Numbered'
    BY <1>1, <2>2 DEF Numbered, Placed
  <2>4. ASSUME ~(crossed \/ Lists!Crosses(c)) PROVE Turned' /\ Ranking' # {}
    <3>1. Ordered /\ Ranking = {}
      BY <1>1, <2>4, Uncrossed
    <3>2. Ranking' = {c}
      BY <2>1, <3>1, GotoRanking DEF Lists!Steps
    <3>3. \A t \in DOMAIN id : id'[t] = -id[t] /\ id[t] \in Int /\ id[t] > 0
      BY <2>1, <3>1, NegatedPositive DEF Ordered, Numbered, Placed
    <3>4. \A t \in DOMAIN id, u \in DOMAIN id : id[t] <= id[u] <=> id'[t] >= id'[u]
      BY <3>3
    <3>5. wanted' = {p \in (DOMAIN id') \X (DOMAIN id') : id'[p[1]] >= id'[p[2]]}
      BY <1>1, <2>2, <3>1, <3>4 DEF Ordered, Lists!Listed
    <3>6. \A t \in DOMAIN id' : id'[t] < 0
      BY <2>2, <3>3
    <3> QED
      BY <3>2, <3>5, <3>6 DEF Turned
  <2> QED
    BY <1>1, <2>3, <2>4 DEF OrderKept
<1>3. CASE ~Lists!Unique(Lists!Negated(id))
  <2>1. id' = id /\ Lists!Goto(c, "idle", 0)
    BY <1>3 DEF Lists!Negate, Lists!Ends
  <2>2. Numbered'
    BY <1>1, <2>1 DEF Numbered, Placed
  <2>3. ASSUME ~(crossed \/ Lists!Crosses(c)) PROVE Ordered' /\ Ranking' = {}
    <3>1. Ordered /\ Ranking = {}
      BY <1>1, <2>3, Uncrossed
    <3>2. Ranking' = {}
      BY <2>1, <3>1, GotoRanking DEF Lists!Steps
    <3> QED
      BY <1>1, <2>1, <3>1, <3>2 DEF Ordered
  <2> QED
    BY <1>1, <2>2, <2>3 DEF OrderKept
<1> QED
  BY <1>2, <1>3

LEMMA RankInOrder ==
    ASSUME Numbered, Stepping, OrderKept, NEW c \in Clients, Lists!Rank(c)
    PROVE  Numbered' /\ OrderKept'
<1>1. /\ at[c] = "rank" /\ crossed' = (crossed \/ Lists!Crosses(c) \/ ~Lists!Ranks(id))
      /\ UNCHANGED <<used, wanted>>
  BY DEF Lists!Rank, Lists!bounds
<1>2. CASE Lists!Ranks(id)
  <2>1. id' = Lists!Ranked(id) /\ gapped' = FALSE /\ Lists!Goto(c, "stats", 0)
    BY <1>2 DEF Lists!Rank
  <2>2. /\ DOMAIN id' = DOMAIN id /\ Placed(id')
        /\ \A t \in DOMAIN id : id'[t] > 0
        /\ \A t, u \in DOMAIN id : id'[t] <= id'[u] <=> id[t] >= id[u]
        /\ Lists!Contiguous(id')
    BY <2>1, RankedInTurn DEF Numbered
  <2>3. Numbered'
    BY <1>1, <2>2 DEF Numbered, Placed
  <2>4. ASSUME ~(crossed \/ Lists!Crosses(c)) PROVE Ordered' /\ Ranking' = {}
    <3>1. Ranking = {c}
      BY <1>1, <2>4 DEF Ranking, Lists!Crosses
    <3>2. wanted = {p \in (DOMAIN id) \X (DOMAIN id) : id[p[1]] >= id[p[2]]}
      BY <2>4, <3>1 DEF OrderKept, Turned
    <3>3. wanted' = Lists!Listed(id')
      BY <1>1, <2>2, <3>2 DEF Lists!Listed
    <3>4. Ranking' = {}
      BY <2>1, <3>1, GotoRanking DEF Lists!Steps
    <3> QED
      BY <2>2, <3>3, <3>4 DEF Ordered
  <2> QED
    BY <1>1, <2>3, <2>4 DEF OrderKept
<1>3. CASE ~Lists!Ranks(id)
  <2>1. id' = id
    BY <1>3 DEF Lists!Rank
  <2>2. Numbered'
    BY <1>1, <2>1 DEF Numbered, Placed
  <2> QED
    BY <1>1, <1>3, <2>2 DEF OrderKept
<1> QED
  BY <1>2, <1>3

LEMMA CollectInOrder ==
    ASSUME Numbered, Stepping, OrderKept, Lists!ScanCollects
    PROVE  Numbered' /\ OrderKept'
<1> DEFINE out  == DOMAIN id \cap deleted
           rest == Lists!Without(id, out)
<1>1. /\ Lists!Renumbers(rest)
      /\ id' = Lists!Renumbered(rest) /\ wanted' = Lists!Kept(out)
      /\ crossed' = (crossed \/ Ranking # {}) /\ UNCHANGED <<used, at>>
  BY DEF Lists!ScanCollects, Lists!InList, Lists!locals, Lists!bounds, Ranking
<1>2. Placed(rest) /\ DOMAIN rest = DOMAIN id \ out /\ \A t \in DOMAIN rest : rest[t] = id[t]
  <2>1. \A t \in DOMAIN rest : rest[t] = id[t]
    BY DEF Lists!Without
  <2> QED
    BY <2>1, WithoutPlaced DEF Numbered
<1> HIDE DEF rest, out
<1>3. /\ Placed(id') /\ DOMAIN id' = DOMAIN id \ out /\ \A t \in DOMAIN id' : id'[t] > 0
      /\ Lists!Contiguous(id')
  BY <1>1, <1>2, RenumberedInTurn
<1>4. Numbered'
  BY <1>1, <1>3 DEF Numbered, Placed
<1>5. ASSUME ~(crossed \/ Ranking # {}) PROVE Ordered' /\ Ranking' = {}
  <2>1. Ordered /\ Ranking = {}
    BY <1>5 DEF OrderKept
  <2>2. \A t \in DOMAIN rest : rest[t] > 0
    BY <1>2, <2>1 DEF Ordered
  <2>3. Lists!Listed(id') = Lists!Listed(rest)
    BY <1>1, <1>2, <2>2, RenumberedInTurn
  <2>4. Lists!Kept(out) = Lists!Listed(rest)
    BY <2>1, KeptListed, NumberedTracks DEF Ordered, rest
  <2> QED
    BY <1>1, <1>3, <2>1, <2>3, <2>4 DEF Ordered, Ranking
<1> QED
  BY <1>1, <1>4, <1>5 DEF OrderKept

\* The steps of a request that leave the list as it is.
Leaves(c) ==
    \/ Lists!Count(c) \/ Lists!PutCount(c) \/ Lists!AddTracks(c) \/ Lists!InsertFails(c)
    \/ \E n \in 0 .. 2 : Lists!Import(c, n)
    \/ Lists!FillFails(c) \/ Lists!DeleteMissing(c) \/ Lists!FindOrphans(c)

LEMMA ListsCases ==
    ASSUME Lists!Next
    PROVE  \/ \E c \in Clients :
                  \/ \E pos \in Lists!Tracks :
                         \/ Lists!RemoveTracks(c, pos) \/ Lists!UpdateTracks(c, pos)
                         \/ \E newPos \in Lists!Tracks : Lists!ReorderTrack(c, pos, newPos)
                  \/ \E n \in 0 .. 2 : Lists!Create(c, n)
                  \/ Lists!Insert(c) \/ Lists!Clear(c) \/ Lists!Fill(c)
                  \/ Lists!Purge(c) \/ Lists!Negate(c) \/ Lists!Rank(c)
                  \/ Leaves(c)
           \/ \E t \in DOMAIN id : Lists!Vanish(t)
           \/ Lists!ScanCollects
           \/ Lists!Crash
BY DEF Lists!Next, Lists!Step, Lists!InList, Leaves

LEMMA LeavesAlone ==
    ASSUME Stepping, NEW c \in Clients, Leaves(c)
    PROVE  UNCHANGED <<id, used, wanted, crossed, gapped, misled>> /\ Ranking' = Ranking
<1>1. CASE Lists!Count(c)
  <2>1. Lists!Counted(id) = Lists!Counted(id) /\ at[c] = "stats" /\ at' = [at EXCEPT ![c] = "count"]
        /\ UNCHANGED <<id, used, wanted, crossed, gapped, misled>>
    BY <1>1 DEF Lists!Count, Lists!Goto, Lists!bounds, Lists!history
  <2> QED
    BY <2>1 DEF Stepping, Ranking
<1>2. CASE Lists!PutCount(c)
  BY <1>2 DEF Lists!PutCount, Lists!Ends, Lists!Goto, Lists!bounds, Stepping, Ranking
<1>3. CASE Lists!AddTracks(c)
  BY <1>3 DEF Lists!AddTracks, Lists!Request, Lists!Goto, Lists!history, Stepping, Ranking
<1>4. CASE Lists!InsertFails(c)
  BY <1>4 DEF Lists!InsertFails, Lists!Ends, Lists!Goto, Lists!bounds, Lists!history, Stepping, Ranking
<1>5. ASSUME NEW n \in 0 .. 2, Lists!Import(c, n)
      PROVE  UNCHANGED <<id, used, wanted, crossed, gapped, misled>> /\ Ranking' = Ranking
  <2>1. /\ at[c] = "idle" /\ UNCHANGED <<id, used, wanted, crossed, gapped, misled>>
        /\ at' = [at EXCEPT ![c] = "stats"] \/ at' = [at EXCEPT ![c] = "clear"]
    BY <1>5 DEF Lists!Import, Lists!Request, Lists!Goto
  <2> QED
    BY <2>1 DEF Stepping, Ranking
<1>6. CASE Lists!FillFails(c)
  BY <1>6 DEF Lists!FillFails, Lists!Ends, Lists!Goto, Lists!bounds, Lists!history, Stepping, Ranking
<1>7. CASE Lists!DeleteMissing(c)
  BY <1>7 DEF Lists!DeleteMissing, Lists!Request, Lists!Goto, Stepping, Ranking
<1>8. CASE Lists!FindOrphans(c)
  BY <1>8 DEF Lists!FindOrphans, Lists!Goto, Lists!bounds, Lists!history, Stepping, Ranking
<1> QED
  BY <1>1, <1>2, <1>3, <1>4, <1>5, <1>6, <1>7, <1>8 DEF Leaves

LEMMA NextInOrder ==
    ASSUME Numbered, Stepping, OrderKept, Lists!Next
    PROVE  Numbered' /\ OrderKept'
<1>1. ASSUME UNCHANGED <<id, used, wanted, crossed, gapped>>, Ranking' = Ranking
      PROVE  Numbered' /\ OrderKept'
  BY <1>1 DEF Numbered, Placed, OrderKept, Ordered, Turned
<1>2. ASSUME NEW c \in Clients, Leaves(c) PROVE Numbered' /\ OrderKept'
  BY <1>1, <1>2, LeavesAlone
<1>3. ASSUME NEW t \in DOMAIN id, Lists!Vanish(t) PROVE Numbered' /\ OrderKept'
  BY <1>1, <1>3 DEF Lists!Vanish, Lists!history, Lists!locals, Ranking
<1>4. CASE Lists!Crash
  <2>1. /\ at' = [c \in Clients |-> "idle"] /\ crossed' = (crossed \/ Ranking # {})
        /\ UNCHANGED <<id, used, wanted, gapped>>
    BY <1>4 DEF Lists!Crash, Ranking
  <2>2. Ranking' = {}
    BY <2>1 DEF Ranking
  <2>3. Numbered'
    BY <2>1 DEF Numbered, Placed
  <2>4. ASSUME ~(crossed \/ Ranking # {}) PROVE Ordered'
    BY <2>1, <2>4 DEF OrderKept, Ordered
  <2> QED
    BY <2>1, <2>2, <2>3, <2>4 DEF OrderKept
<1> QED
  BY <1>2, <1>3, <1>4, ListsCases, RemoveInOrder, UpdateInOrder, ReorderInOrder, CreateInOrder,
     InsertInOrder, ClearInOrder, FillInOrder, PurgeInOrder, NegateInOrder, RankInOrder,
     CollectInOrder

-----------------------------------------------------------------------------
(* Playlists: types *)

ListTypes ==
    /\ songCount \in Nat /\ outdated \subseteq Clients
    /\ missing \subseteq Lists!Tracks /\ deleted \subseteq Lists!Tracks
    /\ requests \in 0 .. MaxRequests /\ crashes \in 0 .. MaxCrashes
    /\ wanted \subseteq Lists!Tracks \X Lists!Tracks

Flags == crossed \in BOOLEAN /\ gapped \in BOOLEAN /\ miscounted \in BOOLEAN /\ misled \in BOOLEAN

LEMMA ListsTyped ==
    Lists!TypeOK <=>
        /\ Lists!InList \subseteq 1 .. used /\ used \in 0 .. MaxTracks
        /\ Lists!Positions(id) \subseteq Int /\ Lists!Unique(id)
        /\ at \in [Clients -> Lists!Steps] /\ local \in [Clients -> Int]
        /\ ListTypes /\ Flags
<1>1. {crossed, gapped, miscounted, misled} \subseteq BOOLEAN <=> Flags
  BY DEF Flags
<1> QED
  BY <1>1 DEF Lists!TypeOK, ListTypes

LEMMA NumberedTyped ==
    Numbered => /\ Lists!InList \subseteq 1 .. used /\ used \in 0 .. MaxTracks
                /\ Lists!Positions(id) \subseteq Int /\ Lists!Unique(id)
BY DEF Numbered, Placed, Lists!InList, Lists!Positions, Lists!Unique, Lists!IsInjective

LEMMA CountedNat ==
    ASSUME NEW positions, IsFiniteSet(DOMAIN positions)
    PROVE  Lists!Counted(positions) \in Nat
<1>1. IsFiniteSet(DOMAIN positions \ deleted)
  BY FS_Subset
<1> QED
  BY <1>1, FS_CardinalityType, ListsCardinality DEF Lists!Counted

LEMMA OrdersTyped ==
    ASSUME ListTypes, Numbered
    PROVE  /\ \A S : Lists!Only(S) \subseteq Lists!Tracks \X Lists!Tracks
           /\ \A S : Lists!Kept(S) \subseteq Lists!Tracks \X Lists!Tracks
           /\ \A S \in SUBSET Lists!Tracks : Lists!ByNumber(S) \subseteq Lists!Tracks \X Lists!Tracks
           /\ \A a, b \in SUBSET (Lists!Tracks \X Lists!Tracks) :
                  Lists!Then(a, b) \subseteq Lists!Tracks \X Lists!Tracks
<1>1. \A S : Lists!Only(S) \subseteq Lists!Tracks \X Lists!Tracks
  BY DEF Lists!Only, ListTypes
<1>2. \A S : Lists!Kept(S) \subseteq Lists!Tracks \X Lists!Tracks
  BY <1>1 DEF Lists!Kept
<1>3. \A S \in SUBSET Lists!Tracks : Lists!ByNumber(S) \subseteq Lists!Tracks \X Lists!Tracks
  BY DEF Lists!ByNumber
<1>4. ASSUME NEW a \in SUBSET (Lists!Tracks \X Lists!Tracks),
             NEW b \in SUBSET (Lists!Tracks \X Lists!Tracks)
      PROVE  Lists!Then(a, b) \subseteq Lists!Tracks \X Lists!Tracks
  <2>1. \A p \in a \cup b : p[1] \in Lists!Tracks
    OBVIOUS
  <2>2. /\ {p[1] : p \in a} \subseteq Lists!Tracks
        /\ {p[1] : p \in b} \subseteq Lists!Tracks
    BY <2>1
  <2>3. {p[1] : p \in a} \X {p[1] : p \in b} \subseteq Lists!Tracks \X Lists!Tracks
    BY <2>2
  <2> QED
    BY <2>3 DEF Lists!Then
<1> QED
  BY <1>1, <1>2, <1>3, <1>4

LEMMA GotoStepping ==
    ASSUME Stepping, NEW c \in Clients, NEW step \in Lists!Steps, NEW value \in Int,
           Lists!Goto(c, step, value),
           step = "count" => value >= 0, step \in {"clear", "fill"} => value > 0
    PROVE  Stepping'
<1>1. /\ at' \in [Clients -> Lists!Steps] /\ local' \in [Clients -> Int]
      /\ at'[c] = step /\ local'[c] = value
      /\ \A d \in Clients \ {c} : at'[d] = at[d] /\ local'[d] = local[d]
  BY GotoStep
<1> QED
  BY <1>1 DEF Stepping

LEMMA RestStepping == Stepping /\ UNCHANGED <<at, local>> => Stepping'
BY DEF Stepping

LEMMA NextStepping ==
    ASSUME Numbered, Stepping, Lists!Next
    PROVE  Stepping'
<1>1. ASSUME NEW c \in Clients,
             \/ \E pos \in Lists!Tracks :
                    \/ Lists!RemoveTracks(c, pos) \/ Lists!UpdateTracks(c, pos)
                    \/ \E newPos \in Lists!Tracks : Lists!ReorderTrack(c, pos, newPos)
             \/ \E n \in 0 .. 2 : Lists!Create(c, n)
      PROVE  Stepping'
  <2>1. UNCHANGED <<at, local>>
    BY <1>1 DEF Lists!RemoveTracks, Lists!UpdateTracks, Lists!ReorderTrack, Lists!Create,
                Lists!Commit, Lists!locals
  <2> QED
    BY <2>1, RestStepping
<1>2. ASSUME NEW c \in Clients, Lists!Insert(c) PROVE Stepping'
  BY <1>2, GotoStepping DEF Lists!Insert, Lists!Steps
<1>3. ASSUME NEW c \in Clients, Lists!Clear(c) PROVE Stepping'
  <2>1. Lists!Goto(c, "fill", local[c]) /\ local[c] \in Int /\ local[c] > 0
    BY <1>3 DEF Lists!Clear, Stepping
  <2> QED
    BY <2>1, GotoStepping DEF Lists!Steps
<1>4. ASSUME NEW c \in Clients, Lists!Fill(c) PROVE Stepping'
  BY <1>4, GotoStepping DEF Lists!Fill, Lists!Steps
<1>5. ASSUME NEW c \in Clients, Lists!Purge(c) PROVE Stepping'
  <2>1. PICK step \in {"idle", "negate"} : Lists!Goto(c, step, 0)
    BY <1>5 DEF Lists!Purge
  <2> QED
    BY <2>1, GotoStepping DEF Lists!Steps
<1>6. ASSUME NEW c \in Clients, Lists!Negate(c) PROVE Stepping'
  <2>1. PICK step \in {"idle", "rank"} : Lists!Goto(c, step, 0)
    BY <1>6 DEF Lists!Negate, Lists!Ends
  <2> QED
    BY <2>1, GotoStepping DEF Lists!Steps
<1>7. ASSUME NEW c \in Clients, Lists!Rank(c) PROVE Stepping'
  <2>1. PICK step \in {"idle", "stats"} : Lists!Goto(c, step, 0)
    BY <1>7 DEF Lists!Rank, Lists!Ends
  <2> QED
    BY <2>1, GotoStepping DEF Lists!Steps
<1>8. ASSUME NEW c \in Clients, Leaves(c) PROVE Stepping'
  <2>1. CASE Lists!Count(c)
    <3>1. Lists!Counted(id) \in Nat
      BY CountedNat DEF Numbered, Placed
    <3> QED
      BY <2>1, <3>1, GotoStepping DEF Lists!Count, Lists!Steps
  <2>2. CASE Lists!PutCount(c) \/ Lists!InsertFails(c) \/ Lists!FillFails(c)
    <3>1. Lists!Goto(c, "idle", 0)
      BY <2>2 DEF Lists!PutCount, Lists!InsertFails, Lists!FillFails, Lists!Ends
    <3> QED
      BY <3>1, GotoStepping DEF Lists!Steps
  <2>3. CASE Lists!AddTracks(c)
    <3>1. Lists!Following(id) \in Int
      BY FollowingIsLast DEF Numbered
    <3> QED
      BY <2>3, <3>1, GotoStepping DEF Lists!AddTracks, Lists!Steps
  <2>4. ASSUME NEW n \in 0 .. 2, Lists!Import(c, n) PROVE Stepping'
    <3>1. Lists!Goto(c, "stats", 0) \/ (n > 0 /\ Lists!Goto(c, "clear", n))
      BY <2>4 DEF Lists!Import
    <3> QED
      BY <3>1, GotoStepping DEF Lists!Steps
  <2>5. CASE Lists!DeleteMissing(c)
    BY <2>5, GotoStepping DEF Lists!DeleteMissing, Lists!Steps
  <2>6. CASE Lists!FindOrphans(c)
    <3>1. PICK step \in {"idle", "purge"} : Lists!Goto(c, step, 0)
      BY <2>6 DEF Lists!FindOrphans
    <3> QED
      BY <3>1, GotoStepping DEF Lists!Steps
  <2> QED
    BY <1>8, <2>1, <2>2, <2>3, <2>4, <2>5, <2>6 DEF Leaves
<1>9. ASSUME NEW t \in DOMAIN id, Lists!Vanish(t) PROVE Stepping'
  BY <1>9, RestStepping DEF Lists!Vanish, Lists!locals
<1>10. CASE Lists!ScanCollects
  BY <1>10, RestStepping DEF Lists!ScanCollects, Lists!locals
<1>11. CASE Lists!Crash
  <2>1. at' = [c \in Clients |-> "idle"] /\ local' = [c \in Clients |-> 0]
    BY <1>11 DEF Lists!Crash
  <2> QED
    BY <2>1 DEF Stepping, Lists!Steps
<1> QED
  BY <1>1, <1>2, <1>3, <1>4, <1>5, <1>6, <1>7, <1>8, <1>9, <1>10, <1>11, ListsCases

LEMMA NextFlags ==
    ASSUME Flags, Lists!Next
    PROVE  Flags'
<1>1. ASSUME NEW c \in Clients, NEW pos \in Lists!Tracks,
             \/ Lists!RemoveTracks(c, pos) \/ Lists!UpdateTracks(c, pos)
             \/ \E newPos \in Lists!Tracks : Lists!ReorderTrack(c, pos, newPos)
      PROVE  Flags'
  BY <1>1 DEF Flags, Lists!RemoveTracks, Lists!UpdateTracks, Lists!ReorderTrack, Lists!Commit
<1>2. ASSUME NEW c \in Clients, NEW n \in 0 .. 2, Lists!Create(c, n) \/ Lists!Import(c, n)
      PROVE  Flags'
  BY <1>2 DEF Flags, Lists!Create, Lists!Import, Lists!Commit
<1>3. ASSUME NEW c \in Clients, Lists!AddTracks(c) \/ Lists!DeleteMissing(c) PROVE Flags'
  BY <1>3 DEF Flags, Lists!AddTracks, Lists!DeleteMissing, Lists!history
<1>4. ASSUME NEW c \in Clients, Lists!Step(c) PROVE Flags'
  <2>1. CASE Lists!Count(c) \/ Lists!InsertFails(c) \/ Lists!FillFails(c) \/ Lists!FindOrphans(c)
    BY <2>1 DEF Flags, Lists!Count, Lists!InsertFails, Lists!FillFails, Lists!FindOrphans, Lists!history
  <2>2. CASE Lists!PutCount(c)
    BY <2>2 DEF Flags, Lists!PutCount
  <2>3. CASE Lists!Insert(c) \/ Lists!Clear(c) \/ Lists!Fill(c)
    BY <2>3 DEF Flags, Lists!Insert, Lists!Clear, Lists!Fill, Lists!Crosses
  <2>4. CASE Lists!Purge(c) \/ Lists!Negate(c) \/ Lists!Rank(c)
    BY <2>4 DEF Flags, Lists!Purge, Lists!Negate, Lists!Rank
  <2> QED
    BY <1>4, <2>1, <2>2, <2>3, <2>4 DEF Lists!Step
<1>5. ASSUME NEW t \in Lists!InList, Lists!Vanish(t) PROVE Flags'
  BY <1>5 DEF Flags, Lists!Vanish, Lists!history
<1>6. CASE Lists!ScanCollects \/ Lists!Crash
  BY <1>6 DEF Flags, Lists!ScanCollects, Lists!Crash
<1> QED
  BY <1>1, <1>2, <1>3, <1>4, <1>5, <1>6 DEF Lists!Next

LEMMA NextListTypes ==
    ASSUME Numbered, Stepping, ListTypes, Numbered', Lists!Next
    PROVE  ListTypes'
<1> DEFINE Bounds == requests' \in 0 .. MaxRequests /\ crashes' \in 0 .. MaxCrashes
           Files  == missing' \subseteq Lists!Tracks /\ deleted' \subseteq Lists!Tracks
           Tallies == songCount' \in Nat /\ outdated' \subseteq Clients
           Order  == wanted' \subseteq Lists!Tracks \X Lists!Tracks
<1>0. /\ requests + 1 \in Int /\ (requests < MaxRequests => requests + 1 \in 0 .. MaxRequests)
      /\ (crashes < MaxCrashes => crashes + 1 \in 0 .. MaxCrashes)
  BY ListsFacts DEF ListTypes
<1>1. ASSUME NEW c \in Clients, NEW positions, NEW order, Lists!Commit(c, positions, order),
             IsFiniteSet(DOMAIN positions), order \subseteq Lists!Tracks \X Lists!Tracks
      PROVE  Files /\ Tallies /\ Order
  <2>1. Lists!Counted(positions) \in Nat
    BY <1>1, CountedNat
  <2> QED
    BY <1>1, <2>1 DEF Lists!Commit, Lists!Outdates, Lists!files, ListTypes
<1>2. ASSUME NEW c \in Clients, Lists!Request(c) PROVE Bounds
  BY <1>0, <1>2 DEF Lists!Request, ListTypes
<1>3. ASSUME NEW c \in Clients, NEW pos \in Lists!Tracks, Lists!RemoveTracks(c, pos)
      PROVE  Bounds /\ Files /\ Tallies /\ Order
  <2> DEFINE out == {t \in Lists!InList : id[t] = pos}
             list == Lists!Renumbered(Lists!Without(id, out))
  <2>1. Lists!Commit(c, list, Lists!Kept(out)) /\ Lists!Request(c)
    BY <1>3 DEF Lists!RemoveTracks
  <2>2. id' = list
    BY <2>1 DEF Lists!Commit
  <2> HIDE DEF list, out
  <2>3. IsFiniteSet(DOMAIN list)
    BY <2>2 DEF Numbered, Placed
  <2> QED
    BY <1>1, <1>2, <2>1, <2>3, OrdersTyped
<1>4. ASSUME NEW c \in Clients, NEW i \in Lists!Tracks, Lists!UpdateTracks(c, i)
      PROVE  Bounds /\ Files /\ Tallies /\ Order
  <2>1. PICK out, list : /\ Lists!Commit(c, list, Lists!Then(Lists!Kept(out), Lists!ByNumber({used + 1})))
                         /\ Lists!Request(c) /\ used < MaxTracks
    BY <1>4 DEF Lists!UpdateTracks
  <2>2. IsFiniteSet(DOMAIN list)
    BY <2>1 DEF Lists!Commit, Numbered, Placed
  <2>3. {used + 1} \in SUBSET Lists!Tracks
    BY <2>1, ListsFacts DEF Numbered
  <2>4. Lists!Then(Lists!Kept(out), Lists!ByNumber({used + 1})) \subseteq Lists!Tracks \X Lists!Tracks
    BY <2>3, OrdersTyped
  <2> QED
    BY <1>1, <1>2, <2>1, <2>2, <2>4
<1>5. ASSUME NEW c \in Clients, NEW pos \in Lists!Tracks, NEW newPos \in Lists!Tracks,
             Lists!ReorderTrack(c, pos, newPos)
      PROVE  Bounds /\ Files /\ Tallies /\ Order
  <2>1. /\ Lists!Request(c) /\ wanted' = Lists!Moved(pos, newPos)
        /\ UNCHANGED <<songCount, missing, deleted, outdated>>
    BY <1>5 DEF Lists!ReorderTrack, Lists!files
  <2>2. PICK a, b, d : Lists!Moved(pos, newPos) = Lists!Then(Lists!Then(Lists!Only(a), Lists!Only(b)), Lists!Kept(d))
    BY DEF Lists!Moved
  <2>3. Lists!Then(Lists!Only(a), Lists!Only(b)) \subseteq Lists!Tracks \X Lists!Tracks
    BY OrdersTyped
  <2>4. Order
    BY <2>1, <2>2, <2>3, OrdersTyped
  <2> QED
    BY <1>2, <2>1, <2>4 DEF ListTypes
<1>6. ASSUME NEW c \in Clients, NEW n \in 0 .. 2, Lists!Create(c, n)
      PROVE  Bounds /\ Files /\ Tallies /\ Order
  <2>1. Lists!Request(c) /\ used + n <= MaxTracks
    BY <1>6 DEF Lists!Create
  <2>2. CASE n = 0
    <3>1. Lists!Commit(c, id, wanted)
      BY <1>6, <2>2 DEF Lists!Create
    <3> QED
      BY <1>1, <1>2, <2>1, <3>1 DEF Numbered, Placed, ListTypes
  <2>3. CASE n # 0
    <3>1. PICK list : Lists!Commit(c, list, Lists!ByNumber((used + 1) .. (used + n)))
      BY <1>6, <2>3 DEF Lists!Create
    <3>2. (used + 1) .. (used + n) \in SUBSET Lists!Tracks
      BY <2>1, ListsFacts DEF Numbered
    <3>3. Lists!ByNumber((used + 1) .. (used + n)) \subseteq Lists!Tracks \X Lists!Tracks
      BY <3>2, OrdersTyped
    <3>4. IsFiniteSet(DOMAIN list)
      BY <3>1 DEF Lists!Commit, Numbered, Placed
    <3> QED
      BY <1>1, <1>2, <2>1, <3>1, <3>3, <3>4
  <2> QED
    BY <2>2, <2>3
<1>7. ASSUME NEW c \in Clients, Lists!Insert(c) PROVE Bounds /\ Files /\ Tallies /\ Order
  <2>1. /\ used < MaxTracks /\ wanted' = Lists!Then(wanted, Lists!ByNumber({used + 1}))
        /\ Lists!Outdates /\ UNCHANGED <<songCount, missing, deleted, requests, crashes>>
    BY <1>7 DEF Lists!Insert, Lists!files
  <2>2. {used + 1} \in SUBSET Lists!Tracks
    BY <2>1, ListsFacts DEF Numbered
  <2>3. Order
    BY <2>1, <2>2, OrdersTyped DEF ListTypes
  <2> QED
    BY <2>1, <2>3 DEF ListTypes, Lists!Outdates
<1>8. ASSUME NEW c \in Clients, Lists!Clear(c) PROVE Bounds /\ Files /\ Tallies /\ Order
  BY <1>8 DEF Lists!Clear, Lists!files, Lists!bounds, Lists!Outdates, ListTypes
<1>9. ASSUME NEW c \in Clients, Lists!Fill(c) PROVE Bounds /\ Files /\ Tallies /\ Order
  <2> DEFINE new == (used + 1) .. (used + local[c])
  <2>1. /\ used + local[c] <= MaxTracks /\ wanted' = Lists!Then(Lists!ByNumber(new), wanted)
        /\ Lists!Outdates /\ UNCHANGED <<songCount, missing, deleted, requests, crashes>>
    BY <1>9 DEF Lists!Fill, Lists!files
  <2>2. new \in SUBSET Lists!Tracks
    BY <2>1, ListsFacts DEF Numbered, Stepping
  <2> HIDE DEF new
  <2>3. Order
    BY <2>1, <2>2, OrdersTyped DEF ListTypes
  <2> QED
    BY <2>1, <2>3 DEF ListTypes, Lists!Outdates
<1>10. ASSUME NEW c \in Clients, Lists!Purge(c) \/ Lists!Negate(c) \/ Lists!Rank(c)
       PROVE  Bounds /\ Files /\ Tallies /\ Order
  <2>1. UNCHANGED <<songCount, missing, deleted, requests, crashes, outdated>>
    BY <1>10 DEF Lists!Purge, Lists!Negate, Lists!Rank, Lists!files, Lists!bounds
  <2>2. wanted' = wanted \/ wanted' = Lists!Kept(deleted)
    BY <1>10 DEF Lists!Purge, Lists!Negate, Lists!Rank
  <2> QED
    BY <2>1, <2>2, OrdersTyped DEF ListTypes
<1>11. ASSUME NEW c \in Clients, Leaves(c) PROVE Bounds /\ Files /\ Tallies /\ Order
  <2>1. wanted' = wanted
    BY <1>11, LeavesAlone
  <2>2. CASE Lists!Count(c) \/ Lists!InsertFails(c) \/ Lists!FillFails(c) \/ Lists!FindOrphans(c)
    BY <2>1, <2>2 DEF Lists!Count, Lists!InsertFails, Lists!FillFails, Lists!FindOrphans,
                Lists!files, Lists!bounds, Lists!history, ListTypes
  <2>3. CASE Lists!PutCount(c)
    <3>1. local[c] \in Nat
      BY <2>3 DEF Lists!PutCount, Stepping
    <3> QED
      BY <2>1, <2>3, <3>1 DEF Lists!PutCount, Lists!files, Lists!bounds, ListTypes
  <2>4. CASE Lists!AddTracks(c)
    BY <1>2, <2>1, <2>4 DEF Lists!AddTracks, Lists!files, Lists!history, ListTypes
  <2>5. ASSUME NEW n \in 0 .. 2, Lists!Import(c, n) PROVE Bounds /\ Files /\ Tallies /\ Order
    <3>1. Lists!Request(c) /\ songCount' = n /\ UNCHANGED <<missing, deleted, outdated>>
      BY <2>5 DEF Lists!Import, Lists!files
    <3> QED
      BY <1>2, <2>1, <3>1 DEF ListTypes
  <2>6. CASE Lists!DeleteMissing(c)
    <3>1. /\ Lists!Request(c) /\ deleted' = deleted \cup missing /\ missing' = {} /\ UNCHANGED songCount
          /\ outdated' = outdated \/ Lists!Outdates
      BY <2>6 DEF Lists!DeleteMissing
    <3> QED
      BY <1>2, <2>1, <3>1 DEF ListTypes, Lists!Outdates
  <2> QED
    BY <1>11, <2>2, <2>3, <2>4, <2>5, <2>6 DEF Leaves
<1>12. ASSUME NEW t \in DOMAIN id, Lists!Vanish(t) PROVE Bounds /\ Files /\ Tallies /\ Order
  <2>1. t \in Lists!Tracks
    BY NumberedTracks
  <2> QED
    BY <1>0, <1>12, <2>1 DEF Lists!Vanish, Lists!history, ListTypes
<1>13. ASSUME Lists!ScanCollects PROVE Bounds /\ Files /\ Tallies /\ Order
  <2>1. Lists!Counted(id) \in Nat
    BY CountedNat DEF Numbered, Placed
  <2>2. /\ wanted' = Lists!Kept(Lists!InList \cap deleted) /\ songCount' = Lists!Counted(id)
        /\ UNCHANGED <<missing, deleted, requests, crashes, outdated>>
    BY <1>13 DEF Lists!ScanCollects, Lists!files, Lists!bounds
  <2> QED
    BY <2>1, <2>2, OrdersTyped DEF ListTypes
<1>14. ASSUME Lists!Crash PROVE Bounds /\ Files /\ Tallies /\ Order
  BY <1>0, <1>14 DEF Lists!Crash, Lists!files, ListTypes
<1>15. Bounds /\ Files /\ Tallies /\ Order
  <2> HIDE DEF Bounds, Files, Tallies, Order
  <2> QED
    BY <1>3, <1>4, <1>5, <1>6, <1>7, <1>8, <1>9, <1>10, <1>11, <1>12, <1>13, <1>14, ListsCases
<1> QED
  BY <1>15 DEF ListTypes

-----------------------------------------------------------------------------
(* Playlists: the count *)

ToCount == \E c \in Clients : at[c] \in {"stats", "count"}

\* What a request has counted is so unless it is outdated; the count of the playlist is
\* right, or a request is about to put it right.
Counting ==
    /\ \A c \in Clients : at[c] = "count" /\ c \notin outdated => local[c] = Lists!Counted(id)
    /\ ~miscounted /\ (DOMAIN id) \cap deleted = {} =>
           \/ songCount = Cardinality(DOMAIN id)
           \/ ToCount
           \/ DOMAIN id = {} /\ \E c \in Clients : at[c] = "fill"

LEMMA CountedAll ==
    ASSUME NEW positions
    PROVE  /\ Lists!Counted(positions) = Cardinality(DOMAIN positions \ deleted)
           /\ (DOMAIN positions) \cap deleted = {} =>
                  Lists!Counted(positions) = Cardinality(DOMAIN positions)
<1>1. Lists!Counted(positions) = Cardinality(DOMAIN positions \ deleted)
  BY ListsCardinality DEF Lists!Counted
<1>2. (DOMAIN positions) \cap deleted = {} => DOMAIN positions \ deleted = DOMAIN positions
  OBVIOUS
<1> QED
  BY <1>1, <1>2

LEMMA CommitCounts ==
    ASSUME NEW c, NEW positions, NEW order, Lists!Commit(c, positions, order)
    PROVE  Counting'
<1>1. /\ id' = positions /\ songCount' = Lists!Counted(positions) /\ Lists!Outdates
      /\ UNCHANGED <<at, deleted>>
  BY DEF Lists!Commit, Lists!files, Lists!locals
<1>2. (DOMAIN id') \cap deleted' = {} => songCount' = Cardinality(DOMAIN id')
  BY <1>1, CountedAll
<1>3. \A d \in Clients : at'[d] = "count" => d \in outdated'
  BY <1>1 DEF Lists!Outdates
<1> QED
  BY <1>2, <1>3 DEF Counting

\* A request that is about to count makes no other's count wrong.
LEMMA StatsCounts ==
    ASSUME Stepping, NEW c \in Clients, Lists!Goto(c, "stats", 0), Lists!Outdates
    PROVE  Counting'
<1>1. at'[c] = "stats" /\ \A d \in Clients \ {c} : at'[d] = at[d]
  BY GotoStep DEF Lists!Steps
<1>2. \A d \in Clients : at'[d] = "count" => d \in outdated'
  BY <1>1 DEF Lists!Outdates
<1> QED
  BY <1>1, <1>2 DEF Counting, ToCount

\* A list that keeps its tracks keeps its count.
LEMMA SameCounts ==
    ASSUME Stepping, Counting, NEW c \in Clients,
           NEW step \in Lists!Steps \ {"count"}, NEW value \in Int, Lists!Goto(c, step, value),
           at[c] \notin {"stats", "count", "fill"},
           DOMAIN id' = DOMAIN id, UNCHANGED <<songCount, deleted, outdated, miscounted>>
    PROVE  Counting'
<1>1. at'[c] = step /\ \A d \in Clients \ {c} : at'[d] = at[d] /\ local'[d] = local[d]
  BY GotoStep
<1>2. Lists!Counted(id)' = Lists!Counted(id)
  BY ListsCardinality DEF Lists!Counted
<1>3. \A d \in Clients : at'[d] = "count" /\ d \notin outdated' => local'[d] = Lists!Counted(id)'
  BY <1>1, <1>2 DEF Counting
<1>4. \A d \in Clients : at[d] \in {"stats", "count", "fill"} => at'[d] = at[d]
  BY <1>1
<1> QED
  BY <1>3, <1>4 DEF Counting, ToCount

LEMMA NextCounting ==
    ASSUME Numbered, Stepping, Counting, Lists!Next
    PROVE  Counting'
<1>1. ASSUME NEW c \in Clients, NEW pos \in Lists!Tracks,
             Lists!RemoveTracks(c, pos) \/ Lists!UpdateTracks(c, pos)
      PROVE  Counting'
  BY <1>1, CommitCounts DEF Lists!RemoveTracks, Lists!UpdateTracks
<1>2. ASSUME NEW c \in Clients, NEW pos \in Lists!Tracks, NEW newPos \in Lists!Tracks,
             Lists!ReorderTrack(c, pos, newPos)
      PROVE  Counting'
  <2>1. /\ id' = Lists!Reordered(pos, newPos)
        /\ UNCHANGED <<songCount, deleted, at, local, outdated, miscounted>>
    BY <1>2 DEF Lists!ReorderTrack, Lists!files, Lists!locals
  <2>2. DOMAIN id' = DOMAIN id
    BY <2>1 DEF Lists!Reordered, Lists!InList
  <2>3. Lists!Counted(id)' = Lists!Counted(id)
    BY <2>1, <2>2, ListsCardinality DEF Lists!Counted
  <2> QED
    BY <2>1, <2>2, <2>3 DEF Counting, ToCount
<1>3. ASSUME NEW c \in Clients, NEW n \in 0 .. 2, Lists!Create(c, n) PROVE Counting'
  <2>1. \E list, order : Lists!Commit(c, list, order)
    BY <1>3 DEF Lists!Create
  <2> QED
    BY <2>1, CommitCounts
<1>4. ASSUME NEW c \in Clients, Lists!Insert(c) \/ Lists!Fill(c) PROVE Counting'
  <2>1. Lists!Goto(c, "stats", 0) /\ Lists!Outdates
    BY <1>4 DEF Lists!Insert, Lists!Fill
  <2> QED
    BY <2>1, StatsCounts
<1>5. ASSUME NEW c \in Clients, Lists!Clear(c) PROVE Counting'
  <2>1. /\ id' = Lists!Without(id, DOMAIN id) /\ Lists!Goto(c, "fill", local[c]) /\ Lists!Outdates
        /\ local[c] \in Int
    BY <1>5 DEF Lists!Clear, Lists!InList, Stepping
  <2>2. DOMAIN id' = {}
    BY <2>1 DEF Lists!Without
  <2>3. at'[c] = "fill" /\ \A d \in Clients \ {c} : at'[d] = at[d]
    BY <2>1, GotoStep DEF Lists!Steps
  <2>4. \A d \in Clients : at'[d] = "count" => d \in outdated'
    BY <2>1, <2>3 DEF Lists!Outdates
  <2> QED
    BY <2>2, <2>3, <2>4 DEF Counting
<1>6. ASSUME NEW c \in Clients, Lists!Purge(c) PROVE Counting'
  <2>1. /\ at[c] = "purge" /\ id' = Lists!Without(id, deleted)
        /\ miscounted' = (miscounted \/ (DOMAIN id) \cap deleted # {})
        /\ UNCHANGED <<songCount, deleted, outdated>>
    BY <1>6 DEF Lists!Purge, Lists!InList, Lists!files
  <2>2. PICK step \in {"idle", "negate"} : Lists!Goto(c, step, 0)
    BY <1>6 DEF Lists!Purge
  <2>3. at'[c] = step /\ \A d \in Clients \ {c} : at'[d] = at[d] /\ local'[d] = local[d]
    BY <2>2, GotoStep DEF Lists!Steps
  <2>4. DOMAIN id' = DOMAIN id \ deleted
    BY <2>1 DEF Lists!Without
  <2>5. Lists!Counted(id)' = Lists!Counted(id)
    <3>1. DOMAIN id' \ deleted' = DOMAIN id \ deleted
      BY <2>1, <2>4
    <3> QED
      BY <3>1, ListsCardinality DEF Lists!Counted
  <2>6. \A d \in Clients : at'[d] = "count" /\ d \notin outdated' => local'[d] = Lists!Counted(id)'
    BY <2>1, <2>2, <2>3, <2>5 DEF Counting
  <2>7. \A d \in Clients : at[d] \in {"stats", "count", "fill"} => at'[d] = at[d]
    BY <2>1, <2>3
  <2>8. (DOMAIN id) \cap deleted = {} => DOMAIN id' = DOMAIN id
    BY <2>4
  <2> QED
    BY <2>1, <2>6, <2>7, <2>8 DEF Counting, ToCount
<1>7. ASSUME NEW c \in Clients, Lists!Negate(c) PROVE Counting'
  <2>1. /\ at[c] = "negate" /\ (id' = id \/ id' = Lists!Negated(id))
        /\ UNCHANGED <<songCount, deleted, outdated, miscounted>>
    BY <1>7 DEF Lists!Negate, Lists!files
  <2>2. PICK step \in {"idle", "rank"} : Lists!Goto(c, step, 0)
    BY <1>7 DEF Lists!Negate, Lists!Ends
  <2>3. DOMAIN id' = DOMAIN id
    BY <2>1 DEF Lists!Negated
  <2> QED
    BY <2>1, <2>2, <2>3, SameCounts DEF Lists!Steps
<1>8. ASSUME NEW c \in Clients, Lists!Rank(c) PROVE Counting'
  <2>1. /\ at[c] = "rank" /\ (id' = id \/ id' = Lists!Ranked(id))
        /\ UNCHANGED <<songCount, deleted, outdated, miscounted>>
    BY <1>8 DEF Lists!Rank, Lists!files
  <2>2. PICK step \in {"idle", "stats"} : Lists!Goto(c, step, 0)
    BY <1>8 DEF Lists!Rank, Lists!Ends
  <2>3. DOMAIN id' = DOMAIN id
    BY <2>1 DEF Lists!Ranked
  <2> QED
    BY <2>1, <2>2, <2>3, SameCounts DEF Lists!Steps
<1>9. ASSUME NEW c \in Clients, Leaves(c) PROVE Counting'
  <2>1. CASE Lists!Count(c)
    <3>1. /\ at[c] = "stats" /\ Lists!Goto(c, "count", Lists!Counted(id))
          /\ UNCHANGED <<id, deleted, outdated>>
      BY <2>1 DEF Lists!Count, Lists!files, Lists!history
    <3>2. Lists!Counted(id) \in Int /\ "count" \in Lists!Steps
      BY CountedNat DEF Numbered, Placed, Lists!Steps
    <3>3. /\ at'[c] = "count" /\ local'[c] = Lists!Counted(id)
          /\ \A d \in Clients \ {c} : at'[d] = at[d] /\ local'[d] = local[d]
      BY <3>1, <3>2, GotoStep
    <3>4. Lists!Counted(id)' = Lists!Counted(id)
      BY <3>1, ListsCardinality DEF Lists!Counted
    <3>5. \A d \in Clients : at'[d] = "count" /\ d \notin outdated' => local'[d] = Lists!Counted(id)'
      BY <3>1, <3>3, <3>4 DEF Counting
    <3> QED
      BY <3>3, <3>5 DEF Counting, ToCount
  <2>2. CASE Lists!PutCount(c)
    <3>1. /\ at[c] = "count" /\ songCount' = local[c] /\ miscounted' = (c \in outdated)
          /\ outdated' = outdated \ {c} /\ Lists!Goto(c, "idle", 0) /\ UNCHANGED <<id, deleted>>
      BY <2>2 DEF Lists!PutCount, Lists!Ends, Lists!files
    <3>2. at'[c] = "idle" /\ \A d \in Clients \ {c} : at'[d] = at[d] /\ local'[d] = local[d]
      BY <3>1, GotoStep DEF Lists!Steps
    <3>3. Lists!Counted(id)' = Lists!Counted(id)
      BY <3>1, ListsCardinality DEF Lists!Counted
    <3>4. \A d \in Clients : at'[d] = "count" /\ d \notin outdated' => local'[d] = Lists!Counted(id)'
      BY <3>1, <3>2, <3>3 DEF Counting
    <3>5. c \notin outdated /\ (DOMAIN id) \cap deleted = {} => songCount' = Cardinality(DOMAIN id)
      BY <3>1, CountedAll DEF Counting
    <3> QED
      BY <3>1, <3>4, <3>5 DEF Counting
  <2>3. CASE Lists!AddTracks(c)
    <3>1. /\ at[c] = "idle" /\ Lists!Goto(c, "insert", Lists!Following(id))
          /\ UNCHANGED <<id, songCount, deleted, outdated, miscounted>>
      BY <2>3 DEF Lists!AddTracks, Lists!Request, Lists!files, Lists!history
    <3>2. Lists!Following(id) \in Int
      BY FollowingIsLast DEF Numbered
    <3> QED
      BY <3>1, <3>2, SameCounts DEF Lists!Steps
  <2>4. CASE Lists!InsertFails(c)
    <3>1. /\ at[c] = "insert" /\ Lists!Goto(c, "idle", 0)
          /\ UNCHANGED <<id, songCount, deleted, outdated, miscounted>>
      BY <2>4 DEF Lists!InsertFails, Lists!Ends, Lists!files, Lists!history
    <3> QED
      BY <3>1, SameCounts DEF Lists!Steps
  <2>5. ASSUME NEW n \in 0 .. 2, Lists!Import(c, n) PROVE Counting'
    <3>1. /\ at[c] = "idle" /\ miscounted' = TRUE
          /\ Lists!Goto(c, "stats", 0) \/ Lists!Goto(c, "clear", n)
          /\ UNCHANGED <<id, deleted, outdated>>
      BY <2>5 DEF Lists!Import, Lists!Request, Lists!files
    <3>2. at'[c] # "count" /\ \A d \in Clients \ {c} : at'[d] = at[d] /\ local'[d] = local[d]
      BY <3>1, GotoStep DEF Lists!Steps
    <3>3. Lists!Counted(id)' = Lists!Counted(id)
      BY <3>1, ListsCardinality DEF Lists!Counted
    <3> QED
      BY <3>1, <3>2, <3>3 DEF Counting
  <2>6. CASE Lists!FillFails(c)
    <3>1. /\ at[c] = "fill" /\ Lists!Positions(id) \cap 1 .. local[c] # {} /\ Lists!Goto(c, "idle", 0)
          /\ UNCHANGED <<id, songCount, deleted, outdated, miscounted>>
      BY <2>6 DEF Lists!FillFails, Lists!Ends, Lists!files, Lists!history
    <3>2. at'[c] = "idle" /\ \A d \in Clients \ {c} : at'[d] = at[d] /\ local'[d] = local[d]
      BY <3>1, GotoStep DEF Lists!Steps
    <3>3. Lists!Counted(id)' = Lists!Counted(id)
      BY <3>1, ListsCardinality DEF Lists!Counted
    <3>4. DOMAIN id # {}
      BY <3>1 DEF Lists!Positions
    <3>5. \A d \in Clients : at'[d] = "count" /\ d \notin outdated' => local'[d] = Lists!Counted(id)'
      BY <3>1, <3>2, <3>3 DEF Counting
    <3>6. ToCount => ToCount'
      BY <3>1, <3>2 DEF ToCount
    <3> QED
      BY <3>1, <3>4, <3>5, <3>6 DEF Counting
  <2>7. CASE Lists!DeleteMissing(c)
    <3>1. /\ at[c] = "idle" /\ deleted' = deleted \cup missing /\ Lists!Goto(c, "orphans", 0)
          /\ IF (DOMAIN id) \cap missing = {} THEN UNCHANGED outdated ELSE Lists!Outdates
          /\ UNCHANGED <<id, songCount, miscounted>>
      BY <2>7 DEF Lists!DeleteMissing, Lists!Request, Lists!InList
    <3>2. at'[c] = "orphans" /\ \A d \in Clients \ {c} : at'[d] = at[d] /\ local'[d] = local[d]
      BY <3>1, GotoStep DEF Lists!Steps
    <3>3. \A d \in Clients : at'[d] = "count" /\ d \notin outdated' => local'[d] = Lists!Counted(id)'
      <4>1. CASE (DOMAIN id) \cap missing = {}
        <5>1. DOMAIN id' \ deleted' = DOMAIN id \ deleted
          BY <3>1, <4>1
        <5>2. Lists!Counted(id)' = Lists!Counted(id)
          BY <5>1, ListsCardinality DEF Lists!Counted
        <5> QED
          BY <3>1, <3>2, <4>1, <5>2 DEF Counting
      <4>2. CASE (DOMAIN id) \cap missing # {}
        BY <3>1, <3>2, <4>2 DEF Lists!Outdates
      <4> QED
        BY <4>1, <4>2
    <3>4. \A d \in Clients : at[d] \in {"stats", "count", "fill"} => at'[d] = at[d]
      BY <3>1, <3>2
    <3>5. (DOMAIN id') \cap deleted' = {} => (DOMAIN id) \cap deleted = {}
      BY <3>1
    <3> QED
      BY <3>1, <3>3, <3>4, <3>5 DEF Counting, ToCount
  <2>8. CASE Lists!FindOrphans(c)
    <3>1. at[c] = "orphans" /\ UNCHANGED <<id, songCount, deleted, outdated, miscounted>>
      BY <2>8 DEF Lists!FindOrphans, Lists!files, Lists!history
    <3>2. PICK step \in {"idle", "purge"} : Lists!Goto(c, step, 0)
      BY <2>8 DEF Lists!FindOrphans
    <3> QED
      BY <3>1, <3>2, SameCounts DEF Lists!Steps
  <2> QED
    BY <1>9, <2>1, <2>2, <2>3, <2>4, <2>5, <2>6, <2>7, <2>8 DEF Leaves
<1>10. ASSUME NEW t \in DOMAIN id, Lists!Vanish(t) PROVE Counting'
  <2>1. UNCHANGED <<id, songCount, deleted, at, local, outdated, miscounted>>
    BY <1>10 DEF Lists!Vanish, Lists!locals, Lists!history
  <2> QED
    BY <2>1, ListsCardinality DEF Counting, ToCount, Lists!Counted
<1>11. CASE Lists!ScanCollects
  <2> DEFINE out  == (DOMAIN id) \cap deleted
             rest == Lists!Without(id, out)
  <2>1. /\ id' = Lists!Renumbered(rest) /\ songCount' = Lists!Counted(id)
        /\ UNCHANGED <<deleted, at, local, outdated>>
    BY <1>11 DEF Lists!ScanCollects, Lists!InList, Lists!files, Lists!locals
  <2>2. DOMAIN id' = DOMAIN id \ out
    BY <2>1 DEF Lists!Renumbered, Lists!Ranked, Lists!Negated, Lists!Without
  <2>3. DOMAIN id' \ deleted' = DOMAIN id \ deleted /\ DOMAIN id' = DOMAIN id \ deleted
    BY <2>1, <2>2
  <2>4. Lists!Counted(id)' = Lists!Counted(id) /\ songCount' = Cardinality(DOMAIN id')
    BY <2>1, <2>3, ListsCardinality DEF Lists!Counted
  <2> QED
    BY <2>1, <2>4 DEF Counting
<1>12. CASE Lists!Crash
  <2>1. /\ at' = [c \in Clients |-> "idle"] /\ UNCHANGED <<id, songCount, deleted>>
        /\ miscounted' = (miscounted \/ \E c \in Clients : at[c] # "idle")
    BY <1>12 DEF Lists!Crash, Lists!files
  <2>2. ~(miscounted \/ \E c \in Clients : at[c] # "idle") /\ (DOMAIN id) \cap deleted = {} =>
            songCount = Cardinality(DOMAIN id)
    BY DEF Counting, ToCount
  <2> QED
    BY <2>1, <2>2 DEF Counting
<1> QED
  BY <1>1, <1>2, <1>3, <1>4, <1>5, <1>6, <1>7, <1>8, <1>9, <1>10, <1>11, <1>12, ListsCases

-----------------------------------------------------------------------------
(* Playlists: removal by index *)

LEMMA NextNotMisled ==
    ASSUME Numbered, Stepping, ~misled, Lists!Next
    PROVE  ~misled'
<1>1. ASSUME NEW c \in Clients, NEW i \in Lists!Tracks, Lists!UpdateTracks(c, i) PROVE ~misled'
  <2> DEFINE out == {t \in Lists!InList : id[t] = i}
  <2>1. misled' = (misled \/ (/\ out # Lists!ShownAt(i) /\ Lists!InList \cap Lists!Absent = {}
                              /\ Lists!Contiguous(id)))
    BY <1>1 DEF Lists!UpdateTracks
  <2>2. ASSUME Lists!InList \cap Lists!Absent = {}, Lists!Contiguous(id) PROVE out = Lists!ShownAt(i)
    <3>1. Lists!Shown = DOMAIN id
      BY <2>2 DEF Lists!Shown, Lists!InList
    <3>2. \A t \in DOMAIN id : Cardinality({u \in DOMAIN id : id[u] <= id[t]}) = id[t]
      BY <2>2, IndexIsPosition DEF Numbered
    <3> QED
      BY <3>1, <3>2, ListsCardinality DEF Lists!ShownAt, Lists!InList
  <2> HIDE DEF out
  <2> QED
    BY <2>1, <2>2
<1>2. ASSUME UNCHANGED misled PROVE ~misled'
  BY <1>2
<1>3. ASSUME NEW c \in Clients, NEW pos \in Lists!Tracks,
             Lists!RemoveTracks(c, pos) \/ \E newPos \in Lists!Tracks : Lists!ReorderTrack(c, pos, newPos)
      PROVE  ~misled'
  BY <1>2, <1>3 DEF Lists!RemoveTracks, Lists!ReorderTrack
<1>4. ASSUME NEW c \in Clients, \/ \E n \in 0 .. 2 : Lists!Create(c, n)
                                 \/ Lists!Insert(c) \/ Lists!Clear(c) \/ Lists!Fill(c)
                                 \/ Lists!Purge(c) \/ Lists!Negate(c) \/ Lists!Rank(c)
      PROVE  ~misled'
  BY <1>2, <1>4 DEF Lists!Create, Lists!Insert, Lists!Clear, Lists!Fill, Lists!Purge, Lists!Negate,
                    Lists!Rank
<1>5. ASSUME NEW c \in Clients, Leaves(c) PROVE ~misled'
  BY <1>2, <1>5, LeavesAlone
<1>6. ASSUME NEW t \in DOMAIN id, Lists!Vanish(t) PROVE ~misled'
  BY <1>2, <1>6 DEF Lists!Vanish, Lists!history
<1>7. CASE Lists!ScanCollects \/ Lists!Crash
  BY <1>2, <1>7 DEF Lists!ScanCollects, Lists!Crash
<1> QED
  BY <1>1, <1>3, <1>4, <1>5, <1>6, <1>7, ListsCases

-----------------------------------------------------------------------------
(* Both *)

ListsInv == Numbered /\ Stepping /\ OrderKept /\ ListTypes /\ Flags /\ Counting /\ ~misled

LEMMA InitLists == Lists!Init => ListsInv
<1> SUFFICES ASSUME Lists!Init PROVE ListsInv
  OBVIOUS
<1>1. /\ id = [t \in 1 .. 3 |-> t] /\ songCount = 3 /\ used = 3
      /\ at = [c \in Clients |-> "idle"] /\ local = [c \in Clients |-> 0]
      /\ wanted = Lists!ByNumber(1 .. 3) /\ misled = FALSE
  BY DEF Lists!Init
<1>2. /\ Placed(id) /\ Lists!Contiguous(id) /\ Lists!ByNumber(1 .. 3) = Lists!Listed(id)
      /\ \A t \in DOMAIN id : id[t] > 0
  <2>1. id = [t \in (0 + 1) .. (0 + 3) |-> t - 0] /\ (0 + 1) .. (0 + 3) = 1 .. 3
    <3>1. (0 + 1) .. (0 + 3) = 1 .. 3 /\ \A t \in 1 .. 3 : t - 0 = t
      OBVIOUS
    <3> QED
      BY <1>1, <3>1
  <2>2. 0 \in Nat /\ 3 \in Nat
    OBVIOUS
  <2>3. /\ Placed(id) /\ Lists!Contiguous(id)
        /\ Lists!ByNumber((0 + 1) .. (0 + 3)) = Lists!Listed(id)
        /\ \A t \in DOMAIN id : id[t] > 0
    BY <2>1, <2>2, NewListed
  <2> QED
    BY <2>1, <2>3
<1>3. Numbered
  BY <1>1, <1>2, ListsFacts DEF Numbered
<1>4. Stepping
  BY <1>1 DEF Stepping, Lists!Steps
<1>5. OrderKept
  <2>1. Ranking = {}
    BY <1>1 DEF Ranking
  <2> QED
    BY <1>1, <1>2, <2>1 DEF OrderKept, Ordered
<1>6. ListTypes
  <2>1. 1 .. 3 \subseteq Lists!Tracks
    BY ListsFacts
  <2>2. wanted \subseteq Lists!Tracks \X Lists!Tracks
    BY <1>1, <2>1 DEF Lists!ByNumber
  <2> QED
    BY <2>2, ListsFacts DEF Lists!Init, ListTypes
<1>7. Flags
  BY DEF Lists!Init, Flags
<1>8. Counting
  <2>1. Cardinality(1 .. 3) = 3 /\ DOMAIN id = 1 .. 3
    <3>1. \A n \in Nat : Cardinality(1 .. n) = n
      BY FS_Interval
    <3> QED
      BY <1>1, <3>1
  <2> QED
    BY <1>1, <2>1 DEF Counting
<1> QED
  BY <1>1, <1>3, <1>4, <1>5, <1>6, <1>7, <1>8 DEF ListsInv

LEMMA NextLists == ListsInv /\ [Lists!Next]_listVars => ListsInv'
<1> SUFFICES ASSUME ListsInv, [Lists!Next]_listVars PROVE ListsInv'
  OBVIOUS
<1>1. CASE Lists!Next
  <2>1. Numbered' /\ OrderKept'
    BY <1>1, NextInOrder DEF ListsInv
  <2>2. Stepping' /\ Flags' /\ Counting' /\ ~misled'
    BY <1>1, NextStepping, NextFlags, NextCounting, NextNotMisled DEF ListsInv
  <2>3. ListTypes'
    BY <1>1, <2>1, NextListTypes DEF ListsInv
  <2> QED
    BY <2>1, <2>2, <2>3 DEF ListsInv
<1>2. CASE UNCHANGED listVars
  <2> USE <1>2 DEF listVars
  <2>1. Numbered'
    BY DEF ListsInv, Numbered, Placed
  <2>2. Stepping' /\ ListTypes'
    BY ListsCardinality DEF ListsInv, Stepping, ListTypes
  <2>3. OrderKept'
    BY DEF ListsInv, OrderKept, Ranking, Ordered, Turned
  <2>4. Flags' /\ ~misled'
    BY DEF ListsInv, Flags
  <2>5. Counting'
    BY ListsCardinality DEF ListsInv, Counting, ToCount, Lists!Counted
  <2> QED
    BY <2>1, <2>2, <2>3, <2>4, <2>5 DEF ListsInv
<1> QED
  BY <1>1, <1>2

LEMMA ListsInvTyped == ListsInv => Lists!TypeOK
BY NumberedTyped, ListsTyped DEF ListsInv, Stepping

LEMMA ListsInvAsked == ListsInv => Lists!PlaylistIsAsAsked
<1> SUFFICES ASSUME ListsInv PROVE Lists!PlaylistIsAsAsked
  OBVIOUS
<1>1. ASSUME Lists!AtRest PROVE Ranking = {} /\ ~ToCount /\ ~\E c \in Clients : at[c] = "fill"
  BY <1>1 DEF Lists!AtRest, Ranking, ToCount
<1>2. ASSUME Lists!AtRest, ~crossed PROVE Ordered
  BY <1>1, <1>2 DEF ListsInv, OrderKept
<1>3. Lists!OrderIsWanted /\ Lists!PositionsAreDense
  BY <1>2 DEF Lists!OrderIsWanted, Lists!PositionsAreDense, Ordered
<1>4. Lists!CountIsRight
  BY <1>1, ListsCardinality DEF ListsInv, Counting, Lists!CountIsRight, Lists!InList
<1>5. Lists!IndexIsRight
  BY DEF ListsInv, Lists!IndexIsRight
<1> QED
  BY <1>3, <1>4, <1>5 DEF Lists!PlaylistIsAsAsked

\* Both components keep their invariants: one moves, and the other rests.
LEMMA ListeningHolds == ListeningSpec => [](Types /\ ListsInv)
<1>1. ListeningInit => Types /\ ListsInv
  BY InitTypes, InitLists DEF ListeningInit
<1>2. Types /\ ListsInv /\ [ListeningNext]_<<component, vars, listVars>> => (Types /\ ListsInv)'
  BY NextTypes, NextLists DEF ListeningNext
<1> QED
  BY <1>1, <1>2, PTL DEF ListeningSpec

\* The variables of the buffer and of a playlist have their types, and no two tracks of a
\* playlist share a position, which is the index on playlist_tracks.
THEOREM ListeningTypesCorrect == ListeningSpec => []TypesOK
<1>1. Types /\ ListsInv => TypesOK
  BY ListsInvTyped DEF Types, TypesOK
<1> QED
  BY <1>1, ListeningHolds, PTL

\* Whatever requests, scans, deletions and crashes meet, a playlist has its tracks in the
\* order the requests on it (core/playlists/playlists.go) ask for, counts them right, and
\* has the track removed that the index shows, but for the exceptions Playlists names.
THEOREM PlaylistIsAlwaysAsAsked == ListeningSpec => []PlaylistIsAsAsked
<1>1. Types /\ ListsInv => PlaylistIsAsAsked
  BY ListsInvAsked DEF PlaylistIsAsAsked
<1> QED
  BY <1>1, ListeningHolds, PTL
=============================================================================
