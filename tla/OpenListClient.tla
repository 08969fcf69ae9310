--------------------------- MODULE OpenListClient ---------------------------
(***************************************************************************)
(* The OpenList API client (adapters/openlist/client.go, breaker.go): many *)
(* goroutines make requests through one circuit breaker, one cached token  *)
(* and one login mutex.                                                    *)
(*                                                                         *)
(* do() is the same loop for a request and for the login nested in it, so  *)
(* a caller has a mode: "req" for its request, "login" while it holds      *)
(* loginMu and runs the login's do().  The gateway is the environment: it  *)
(* accepts the tokens of its current epoch and may fail in the ways of     *)
(* Faults.  Waiting times are abstracted; what a wait allows in between,   *)
(* and its cancellation, are not.                                          *)
(***************************************************************************)
EXTENDS Naturals, FiniteSets

CONSTANTS
    Callers,       \* goroutines
    MaxRetries,    \* Config.MaxRetries
    Threshold,     \* Config.FailureThreshold
    Credentials,   \* whether a username is configured
    FirstToken,    \* Config.Token: 0 for none, 1 for a valid one
    Faults,        \* what the gateway may answer instead of a success
    MayCancel,     \* whether callers may cancel their requests
    MaxEpochs      \* bound: token expirations at the gateway, plus one

ASSUME ClientAssumption ==
    /\ MaxRetries \in Nat
    /\ Threshold \in Nat \ {0}
    /\ Credentials \in BOOLEAN
    /\ FirstToken \in {0, 1}
    /\ Faults \subseteq {"transient", "fatal", "empty"}
    /\ MayCancel \in BOOLEAN
    /\ MaxEpochs \in Nat \ {0}

VARIABLES
    epoch,                 \* the gateway accepts the tokens of this epoch
    token, loginMu,        \* cached token (0: none); the holder of loginMu, if any
    failures, gate,        \* the breaker: openUntil is zero, ahead or past
    cancelled,             \* callers whose context is cancelled
    pc, mode, reauthed, retries, sent, reply,
    upstream               \* history: whether the gateway itself ever failed

breaker == <<failures, gate>>
locals  == <<mode, reauthed, retries, sent, reply>>
vars    == <<epoch, token, loginMu, breaker, cancelled, pc, locals, upstream>>

Modes   == {"req", "login"}
Gates   == {"closed", "open", "half"}
Replies == {"ok", "denied", "transient", "fatal"}
Pcs     == {"idle", "allow", "ensure", "lock", "recheck", "slot", "wire", "answer",
            "backoff", "note"}

Init ==
    /\ epoch = 1
    /\ token = FirstToken
    /\ loginMu = {}
    /\ failures = 0
    /\ gate = "closed"
    /\ cancelled = {}
    /\ pc = [c \in Callers |-> "idle"]
    /\ mode = [c \in Callers |-> "req"]
    /\ reauthed = [c \in Callers |-> FALSE]
    /\ retries = [c \in Callers |-> [m \in Modes |-> 0]]
    /\ sent = [c \in Callers |-> 0]
    /\ reply = [c \in Callers |-> "ok"]
    /\ upstream = FALSE

Goto(c, l) == pc' = [pc EXCEPT ![c] = l]

-----------------------------------------------------------------------------
(* The gateway and the clock *)

Expire ==
    /\ epoch < MaxEpochs
    /\ epoch' = epoch + 1
    /\ UNCHANGED <<token, loginMu, breaker, cancelled, pc, locals, upstream>>

\* openFor has passed
CoolDown ==
    /\ gate = "open"
    /\ gate' = "half"
    /\ UNCHANGED <<epoch, token, loginMu, failures, cancelled, pc, locals, upstream>>

-----------------------------------------------------------------------------
(* One request *)

Begin(c) ==
    /\ pc[c] = "idle"
    /\ Goto(c, "allow")
    /\ UNCHANGED <<epoch, token, loginMu, breaker, cancelled, locals, upstream>>

CancelContext(c) ==
    /\ MayCancel /\ pc[c] # "idle" /\ c \notin cancelled
    /\ cancelled' = cancelled \cup {c}
    /\ UNCHANGED <<epoch, token, loginMu, breaker, pc, locals, upstream>>

\* do() returns to its caller: the locals are gone, and an error of the login
\* unlocks loginMu on its way through ensureToken
Forget(c) ==
    /\ Goto(c, "idle")
    /\ mode' = [mode EXCEPT ![c] = "req"]
    /\ reauthed' = [reauthed EXCEPT ![c] = FALSE]
    /\ retries' = [retries EXCEPT ![c] = [m \in Modes |-> 0]]
    /\ sent' = [sent EXCEPT ![c] = 0]
    /\ reply' = [reply EXCEPT ![c] = "ok"]
    /\ cancelled' = cancelled \ {c}
MutReturn(c) == Forget(c) /\ UNCHANGED loginMu    \* mutant: an error leaves loginMu locked
Return(c) == Forget(c) /\ loginMu' = loginMu \ {c}

\* b.allow() lets through what comes when openUntil is zero or past
Allow(c) ==
    /\ pc[c] = "allow"
    /\ \/ gate = "open" /\ Return(c)
       \/ /\ gate # "open"
          /\ Goto(c, IF mode[c] = "req" THEN "ensure" ELSE "slot")
          /\ UNCHANGED <<loginMu, cancelled, locals>>
    /\ UNCHANGED <<epoch, token, breaker, upstream>>

\* ensureToken before the lock
Ensure(c) ==
    /\ pc[c] = "ensure"
    /\ Goto(c, IF token # 0 THEN "slot" ELSE "lock")
    /\ UNCHANGED <<epoch, token, loginMu, breaker, cancelled, locals, upstream>>

Lock(c) ==
    /\ pc[c] = "lock"
    /\ loginMu = {}
    /\ loginMu' = {c}
    /\ Goto(c, "recheck")
    /\ UNCHANGED <<epoch, token, breaker, cancelled, locals, upstream>>

\* ensureToken and login under the lock, until the login's do()
Recheck(c) ==
    /\ pc[c] = "recheck"
    /\ \/ /\ token # 0
          /\ Goto(c, "slot")
          /\ loginMu' = loginMu \ {c}
          /\ UNCHANGED <<cancelled, locals>>
       \/ /\ token = 0 /\ ~Credentials
          /\ Return(c)
       \/ /\ token = 0 /\ Credentials
          /\ Goto(c, "allow")
          /\ mode' = [mode EXCEPT ![c] = "login"]
          /\ UNCHANGED <<loginMu, cancelled, reauthed, retries, sent, reply>>
    /\ UNCHANGED <<epoch, token, breaker, upstream>>

\* the throttle's wait is over: execute() reads the token and sends
Send(c) ==
    /\ pc[c] = "slot" /\ c \notin cancelled
    /\ Goto(c, "wire")
    /\ sent' = [sent EXCEPT ![c] = token]
    /\ UNCHANGED <<epoch, token, loginMu, breaker, cancelled, mode, reauthed, retries, reply,
                   upstream>>

\* both waits, of the throttle and of the backoff, end with the context
CancelWait(c) ==
    /\ pc[c] \in {"slot", "backoff"} /\ c \in cancelled
    /\ Return(c)
    /\ UNCHANGED <<epoch, token, breaker, upstream>>

\* A request is denied unless its token is of the current epoch, and a login is
\* answered with such a token.  A cancelled round trip looks like a transport
\* error.
Answer(c) ==
    /\ pc[c] = "wire"
    /\ \/ reply' = [reply EXCEPT ![c] = IF mode[c] = "req" /\ sent[c] # epoch
                                          THEN "denied" ELSE "ok"]
          /\ UNCHANGED upstream
       \/ \E r \in Faults \ {"empty"} : reply' = [reply EXCEPT ![c] = r] /\ upstream' = TRUE
       \/ c \in cancelled /\ reply' = [reply EXCEPT ![c] = "transient"] /\ UNCHANGED upstream
    /\ \E t \in {epoch} \cup IF "empty" \in Faults THEN {0} ELSE {} :
         sent' = [sent EXCEPT ![c] = IF mode[c] = "login" THEN t ELSE 0]
    /\ Goto(c, "answer")
    /\ UNCHANGED <<epoch, token, loginMu, breaker, cancelled, mode, reauthed, retries>>

\* onSuccess, and do() returns nil: from the login, unless its token is empty,
\* to the throttle of the request that needed the token
MutReset == failures    \* mutant: a success closes the breaker but keeps the count
Reset == 0
Succeed(c) ==
    /\ pc[c] = "answer" /\ reply[c] = "ok"
    /\ failures' = Reset
    /\ gate' = "closed"
    /\ \/ (mode[c] = "req" \/ sent[c] = 0) /\ Return(c) /\ UNCHANGED token
       \/ /\ mode[c] = "login" /\ sent[c] # 0
          /\ token' = sent[c]
          /\ loginMu' = loginMu \ {c}
          /\ mode' = [mode EXCEPT ![c] = "req"]
          /\ retries' = [retries EXCEPT ![c]["login"] = 0]
          /\ sent' = [sent EXCEPT ![c] = 0]
          /\ Goto(c, "slot")
          /\ UNCHANGED <<cancelled, reauthed, reply>>
    /\ UNCHANGED <<epoch, upstream>>

MayReplay(c) == mode[c] = "req" /\ ~reauthed[c] /\ Credentials

\* 401: forget the cached token, whatever it is by now, and replay once
Reauthenticate(c) ==
    /\ pc[c] = "answer" /\ reply[c] = "denied" /\ MayReplay(c)
    /\ reauthed' = [reauthed EXCEPT ![c] = TRUE]
    /\ token' = 0
    /\ reply' = [reply EXCEPT ![c] = "ok"]
    /\ Goto(c, "allow")
    /\ UNCHANGED <<epoch, loginMu, breaker, cancelled, mode, retries, sent, upstream>>

MutExhausted(c) == retries[c][mode[c]] > MaxRetries    \* mutant: one retry too many
Exhausted(c) == retries[c][mode[c]] >= MaxRetries

Retry(c) ==
    /\ pc[c] = "answer" /\ reply[c] = "transient" /\ ~Exhausted(c)
    /\ retries' = [retries EXCEPT ![c][mode[c]] = @ + 1]
    /\ reply' = [reply EXCEPT ![c] = "ok"]
    /\ Goto(c, "backoff")
    /\ UNCHANGED <<epoch, token, loginMu, breaker, cancelled, mode, reauthed, sent, upstream>>

Backoff(c) ==
    /\ pc[c] = "backoff" /\ c \notin cancelled
    /\ Goto(c, "allow")
    /\ UNCHANGED <<epoch, token, loginMu, breaker, cancelled, locals, upstream>>

GiveUp(c) ==
    /\ pc[c] = "answer"
    /\ \/ reply[c] = "denied" /\ ~MayReplay(c)
       \/ reply[c] = "transient" /\ Exhausted(c)
       \/ reply[c] = "fatal"
    /\ Goto(c, "note")
    /\ UNCHANGED <<epoch, token, loginMu, breaker, cancelled, locals, upstream>>

\* whether a failure (re-)opens the breaker; failures beyond the threshold
\* change nothing, and are not counted here
Opens == gate = "half" \/ failures + 1 >= Threshold

\* noteFailure, and do() returns the error
NoteFailure(c) ==
    /\ pc[c] = "note"
    /\ failures' = IF gate = "half" \/ failures = Threshold THEN failures ELSE failures + 1
    /\ gate' = IF Opens THEN "open" ELSE gate
    /\ Return(c)
    /\ UNCHANGED <<epoch, token, upstream>>

-----------------------------------------------------------------------------
Progress(c) ==
    \/ Allow(c) \/ Ensure(c) \/ Recheck(c) \/ Send(c) \/ Answer(c)
    \/ Succeed(c) \/ Reauthenticate(c) \/ Retry(c) \/ Backoff(c) \/ GiveUp(c)
    \/ NoteFailure(c) \/ CancelWait(c)

Next ==
    \/ Expire \/ CoolDown
    \/ \E c \in Callers : Begin(c) \/ CancelContext(c) \/ Lock(c) \/ Progress(c)

Spec == Init /\ [][Next]_vars

\* Goroutines are scheduled, and the gateway's answers, limited by the HTTP
\* client's timeouts, arrive; Go's mutexes do not starve a waiter.
Fairness == \A c \in Callers : WF_vars(Progress(c)) /\ SF_vars(Lock(c))

FairSpec == Spec /\ Fairness

-----------------------------------------------------------------------------
(* Properties *)

\* The variables have their types; the retry budgets and the failure count
\* stay within their limits.
TypeOK ==
    /\ epoch \in Nat
    /\ token \in Nat
    /\ loginMu \subseteq Callers
    /\ failures \in 0..Threshold
    /\ gate \in Gates
    /\ cancelled \subseteq Callers
    /\ pc \in [Callers -> Pcs]
    /\ mode \in [Callers -> Modes]
    /\ reauthed \in [Callers -> BOOLEAN]
    /\ retries \in [Callers -> [Modes -> 0..MaxRetries]]
    /\ sent \in [Callers -> Nat]
    /\ reply \in [Callers -> Replies]
    /\ upstream \in BOOLEAN

\* The breaker fast-fails or trials only after Threshold failures that no
\* success separates, however the requests in flight when it opened end.
OpenMeansFailures == gate # "closed" <=> failures = Threshold

\* Every request is answered, refused or given up.
EventuallyReturns == \A c \in Callers : pc[c] # "idle" ~> pc[c] = "idle"

\* "an expired token is not an upstream failure": a gateway that only expires
\* tokens is never held to have failed.
ExpiryIsNoFailure == ~upstream => failures = 0
=============================================================================
