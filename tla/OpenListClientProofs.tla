------------------------ MODULE OpenListClientProofs ------------------------
(***************************************************************************)
(* Proofs about OpenListClient, for any callers, retries, thresholds and   *)
(* answers of the gateway: types and budgets, what the breaker counts, and *)
(* who holds the login lock.                                               *)
(***************************************************************************)
EXTENDS OpenListClient, TLAPS

\* The initial state is well typed.
LEMMA InitTypes == Init => TypeOK
<1> SUFFICES ASSUME Init PROVE TypeOK
  OBVIOUS
<1>1. FirstToken \in Nat /\ 0 \in 0..Threshold /\ 0 \in 0..MaxRetries
  BY ClientAssumption
<1>2. [m \in Modes |-> 0] \in [Modes -> 0..MaxRetries]
  BY <1>1
<1>3. retries \in [Callers -> [Modes -> 0..MaxRetries]]
  BY <1>2 DEF Init
<1> QED
  BY <1>1, <1>3 DEF Init, TypeOK, Modes, Gates, Replies, Pcs

\* Returning to the caller, which unlocks the login lock, keeps the types.
LEMMA ReturnTypes ==
    ASSUME TypeOK, NEW c \in Callers, Return(c),
           epoch' \in Nat, token' \in Nat, failures' \in 0..Threshold, gate' \in Gates,
           upstream' \in BOOLEAN
    PROVE  TypeOK'
BY ClientAssumption DEF TypeOK, Return, Forget, Goto, Modes, Replies, Pcs

\* Every step keeps the types: no caller retries more often than it may, and the
\* breaker counts no further than its threshold.
LEMMA NextTypes == TypeOK /\ [Next]_vars => TypeOK'
<1> SUFFICES ASSUME TypeOK, [Next]_vars PROVE TypeOK'
  OBVIOUS
<1> USE ClientAssumption DEF TypeOK, breaker, locals, Modes, Gates, Replies, Pcs
<1>1. CASE Expire
  BY <1>1 DEF Expire
<1>2. CASE CoolDown
  BY <1>2 DEF CoolDown
<1>3. ASSUME NEW c \in Callers, Begin(c) PROVE TypeOK'
  BY <1>3 DEF Begin, Goto
<1>4. ASSUME NEW c \in Callers, CancelContext(c) PROVE TypeOK'
  BY <1>4 DEF CancelContext
<1>5. ASSUME NEW c \in Callers, Allow(c) PROVE TypeOK'
  <2>1. CASE gate = "open"
    BY <1>5, <2>1, ReturnTypes DEF Allow
  <2>2. CASE gate # "open"
    BY <1>5, <2>2 DEF Allow, Goto
  <2> QED BY <2>1, <2>2
<1>6. ASSUME NEW c \in Callers, Ensure(c) PROVE TypeOK'
  BY <1>6 DEF Ensure, Goto
<1>7. ASSUME NEW c \in Callers, Lock(c) PROVE TypeOK'
  BY <1>7 DEF Lock, Goto
<1>8. ASSUME NEW c \in Callers, Recheck(c) PROVE TypeOK'
  <2>1. CASE token = 0 /\ ~Credentials
    BY <1>8, <2>1, ReturnTypes DEF Recheck
  <2>2. CASE ~(token = 0 /\ ~Credentials)
    BY <1>8, <2>2 DEF Recheck, Goto
  <2> QED BY <2>1, <2>2
<1>9. ASSUME NEW c \in Callers, Send(c) PROVE TypeOK'
  BY <1>9 DEF Send, Goto
<1>10. ASSUME NEW c \in Callers, CancelWait(c) PROVE TypeOK'
  BY <1>10, ReturnTypes DEF CancelWait
<1>11. ASSUME NEW c \in Callers, Answer(c) PROVE TypeOK'
  <2>1. sent' \in [Callers -> Nat]
    BY <1>11 DEF Answer
  <2>2. reply' \in [Callers -> Replies]
    BY <1>11 DEF Answer
  <2> QED BY <1>11, <2>1, <2>2 DEF Answer, Goto
<1>12. ASSUME NEW c \in Callers, Succeed(c) PROVE TypeOK'
  <2>1. CASE mode[c] = "req" \/ sent[c] = 0
    BY <1>12, <2>1, ReturnTypes DEF Succeed, Reset
  <2>2. CASE ~(mode[c] = "req" \/ sent[c] = 0)
    <3>1. sent[c] \in Nat /\ retries' \in [Callers -> [Modes -> 0..MaxRetries]]
      BY <1>12, <2>2 DEF Succeed
    <3>2. /\ failures' = 0 /\ gate' = "closed" /\ token' = sent[c] /\ loginMu' = loginMu \ {c}
          /\ mode' = [mode EXCEPT ![c] = "req"] /\ sent' = [sent EXCEPT ![c] = 0]
          /\ pc' = [pc EXCEPT ![c] = "slot"]
          /\ UNCHANGED <<cancelled, reauthed, reply, epoch, upstream>>
      BY <1>12, <2>2 DEF Succeed, Reset, Goto
    <3> QED BY <3>1, <3>2
  <2> QED BY <2>1, <2>2
<1>13. ASSUME NEW c \in Callers, Reauthenticate(c) PROVE TypeOK'
  BY <1>13 DEF Reauthenticate, Goto
<1>14. ASSUME NEW c \in Callers, Retry(c) PROVE TypeOK'
  BY <1>14 DEF Retry, Exhausted, Goto
<1>15. ASSUME NEW c \in Callers, Backoff(c) PROVE TypeOK'
  BY <1>15 DEF Backoff, Goto
<1>16. ASSUME NEW c \in Callers, GiveUp(c) PROVE TypeOK'
  BY <1>16 DEF GiveUp, Goto
<1>17. ASSUME NEW c \in Callers, NoteFailure(c) PROVE TypeOK'
  BY <1>17, ReturnTypes DEF NoteFailure
<1>18. CASE UNCHANGED vars
  BY <1>18 DEF vars
<1> QED
  BY <1>1, <1>2, <1>3, <1>4, <1>5, <1>6, <1>7, <1>8, <1>9, <1>10, <1>11, <1>12, <1>13, <1>14,
     <1>15, <1>16, <1>17, <1>18
     DEF Next, Progress

\* Every variable keeps its type, and no request exceeds its retries.
THEOREM TypeCorrect == Spec => []TypeOK
<1> QED BY InitTypes, NextTypes, PTL DEF Spec

-----------------------------------------------------------------------------
(* The breaker *)

\* The breaker stays in step with its count, whoever's request ends.
LEMMA NextOpenMeansFailures ==
    TypeOK /\ OpenMeansFailures /\ [Next]_vars => OpenMeansFailures'
<1> SUFFICES ASSUME TypeOK, OpenMeansFailures, [Next]_vars PROVE OpenMeansFailures'
  OBVIOUS
<1> USE ClientAssumption DEF TypeOK, OpenMeansFailures, breaker, Gates
<1>1. CASE CoolDown
  BY <1>1 DEF CoolDown
<1>2. ASSUME NEW c \in Callers, Succeed(c) PROVE OpenMeansFailures'
  BY <1>2 DEF Succeed, Reset
<1>3. ASSUME NEW c \in Callers, NoteFailure(c) PROVE OpenMeansFailures'
  BY <1>3 DEF NoteFailure, Opens
<1>4. CASE UNCHANGED breaker
  BY <1>4
<1>5. CASE Expire
  BY <1>5, <1>4 DEF Expire
<1>6. ASSUME NEW c \in Callers,
             \/ Begin(c) \/ CancelContext(c) \/ Lock(c) \/ Allow(c) \/ Ensure(c) \/ Recheck(c)
             \/ Send(c) \/ Answer(c) \/ Reauthenticate(c) \/ Retry(c) \/ Backoff(c) \/ GiveUp(c)
             \/ CancelWait(c)
       PROVE UNCHANGED breaker
  BY <1>6 DEF Begin, CancelContext, Lock, Allow, Ensure, Recheck, Send, Answer, Reauthenticate,
              Retry, Backoff, GiveUp, CancelWait
<1> QED
  BY <1>1, <1>2, <1>3, <1>4, <1>5, <1>6 DEF Next, Progress, vars

\* The breaker is open, or trials, when and only when Threshold failures have come that no
\* success separates, however the requests that were in flight when it opened end.
THEOREM OpenMeansFailuresHolds == Spec => []OpenMeansFailures
<1>1. Init => OpenMeansFailures
  BY ClientAssumption DEF Init, OpenMeansFailures
<1> QED
  BY <1>1, TypeCorrect, NextOpenMeansFailures, PTL DEF Spec

-----------------------------------------------------------------------------
(* The login lock *)

\* The lock is held by the one caller that checks the token again or logs in, and by
\* nobody else; that caller is past every wait for the lock.
LoginLocked ==
    /\ \A c, d \in loginMu : c = d
    /\ \A c \in Callers : c \in loginMu <=> mode[c] = "login" \/ pc[c] = "recheck"
    /\ \A c \in Callers : mode[c] = "login" => pc[c] \notin {"idle", "ensure", "lock", "recheck"}

\* A caller that returns gives the lock back.
LEMMA ReturnUnlocks ==
    ASSUME TypeOK, LoginLocked, NEW c \in Callers, Return(c)
    PROVE  LoginLocked'
BY DEF TypeOK, LoginLocked, Return, Forget, Goto, Modes, Pcs

\* A step of a caller outside the lock that neither takes it nor returns keeps it.
LEMMA NextLoginLocked == TypeOK /\ LoginLocked /\ [Next]_vars => LoginLocked'
<1> SUFFICES ASSUME TypeOK, LoginLocked, [Next]_vars PROVE LoginLocked'
  OBVIOUS
<1> USE DEF TypeOK, LoginLocked, breaker, locals, Modes, Pcs, Goto
<1>1. CASE Expire \/ CoolDown \/ UNCHANGED vars
  BY <1>1 DEF Expire, CoolDown, vars
<1>2. ASSUME NEW c \in Callers,
             \/ Begin(c) \/ CancelContext(c) \/ Ensure(c) \/ Send(c) \/ Answer(c)
             \/ Reauthenticate(c) \/ Retry(c) \/ Backoff(c) \/ GiveUp(c)
       PROVE LoginLocked'
  BY <1>2 DEF Begin, CancelContext, Ensure, Send, Answer, Reauthenticate, MayReplay, Retry,
              Backoff, GiveUp
<1>3. ASSUME NEW c \in Callers, Lock(c) PROVE LoginLocked'
  BY <1>3 DEF Lock
<1>4. ASSUME NEW c \in Callers, Allow(c) PROVE LoginLocked'
  <2>1. CASE gate = "open"
    BY <1>4, <2>1, ReturnUnlocks DEF Allow
  <2>2. CASE gate # "open"
    BY <1>4, <2>2 DEF Allow
  <2> QED BY <2>1, <2>2
<1>5. ASSUME NEW c \in Callers, Recheck(c) PROVE LoginLocked'
  <2>1. CASE Return(c)
    BY <2>1, ReturnUnlocks
  <2>2. CASE /\ Goto(c, "slot") /\ loginMu' = loginMu \ {c}
             /\ UNCHANGED mode
    <3>1. c \in loginMu /\ mode[c] # "login"
      BY <1>5 DEF Recheck
    <3>2. \A d \in Callers : d # c => d \notin loginMu
      BY <3>1
    <3>3. /\ loginMu' = {}
          /\ \A d \in Callers : pc'[d] = IF d = c THEN "slot" ELSE pc[d]
      BY <2>2, <3>2
    <3> QED BY <2>2, <3>1, <3>2, <3>3
  <2>3. CASE /\ Goto(c, "allow") /\ mode' = [mode EXCEPT ![c] = "login"]
             /\ UNCHANGED loginMu
    <3>1. c \in loginMu
      BY <1>5 DEF Recheck
    <3>2. \A d \in Callers : /\ pc'[d] = IF d = c THEN "allow" ELSE pc[d]
                            /\ mode'[d] = IF d = c THEN "login" ELSE mode[d]
      BY <2>3
    <3> QED BY <2>3, <3>1, <3>2
  <2> QED BY <1>5, <2>1, <2>2, <2>3 DEF Recheck, locals
<1>6. ASSUME NEW c \in Callers, Succeed(c) PROVE LoginLocked'
  <2>1. CASE Return(c)
    BY <2>1, ReturnUnlocks
  <2>2. CASE ~Return(c)
    BY <1>6, <2>2 DEF Succeed
  <2> QED BY <2>1, <2>2
<1>7. ASSUME NEW c \in Callers, NoteFailure(c) \/ CancelWait(c) PROVE LoginLocked'
  BY <1>7, ReturnUnlocks DEF NoteFailure, CancelWait
<1> QED
  BY <1>1, <1>2, <1>3, <1>4, <1>5, <1>6, <1>7 DEF Next, Progress

\* One caller logs in at a time; whoever holds the lock logs in or is about to, and no exit
\* of a request, error or cancellation leaves it locked.
THEOREM LoginLockedHolds == Spec => []LoginLocked
<1>1. Init => LoginLocked
  BY DEF Init, LoginLocked
<1> QED
  BY <1>1, TypeCorrect, NextLoginLocked, PTL DEF Spec
=============================================================================
