--------------------------- MODULE TaskLifecycle ---------------------------
(***************************************************************************)
(* What the task service promises a plugin about each task, whatever       *)
(* loads, crashes and workers there are (plugins/host/task.go).            *)
(***************************************************************************)
EXTENDS Naturals

CONSTANTS Tasks, Retries    \* Retries[t]: retries of a failed task

VARIABLES stage,   \* what Get reports, pending and running being "queued"
          inHand,  \* the tasks being executed, or left so by a crash
          tries,   \* executions that count
          shared   \* tasks put back while somebody executes them

lifeVars == <<stage, inHand, tries, shared>>

Settled == {"completed", "failed", "cancelled"}

LifeInit ==
    /\ stage = [t \in Tasks |-> "absent"]
    /\ inHand = {}
    /\ tries = [t \in Tasks |-> 0]
    /\ shared = {}

Move(S, to) == stage' = [t \in Tasks |-> IF t \in S THEN to ELSE stage[t]]

Queued == {t \in Tasks : stage[t] = "queued"}

Submit ==
    \E t \in Tasks :
        stage[t] = "absent" /\ Move({t}, "queued") /\ UNCHANGED <<inHand, tries, shared>>

\* only tasks nobody executes can be cancelled
Withdraw ==
    \E S \in SUBSET (Queued \ inHand) : Move(S, "cancelled") /\ UNCHANGED <<inHand, tries, shared>>

Take ==
    \E t \in Queued \ inHand :
        /\ inHand' = inHand \cup {t}
        /\ tries' = [tries EXCEPT ![t] = @ + 1]
        /\ UNCHANGED <<stage, shared>>

\* a retry, a recovery, or an interruption, which may not count; who executes one
\* that is recovered may not know
PutBack ==
    \E S \in SUBSET inHand :
        /\ inHand' = inHand \ S
        /\ \E T \in SUBSET S : shared' = shared \cup T
        /\ \/ UNCHANGED tries
           \/ \E t \in S : tries' = [tries EXCEPT ![t] = @ - 1]
        /\ UNCHANGED stage

\* a task settles once, from the hands of whoever executes it, and fails only
\* when its retries are used up
Settle ==
    \E t \in inHand, s \in {"completed", "failed"} :
        /\ s = "failed" => tries[t] > Retries[t]
        /\ Move({t}, s)
        /\ inHand' = inHand \ {t}
        /\ UNCHANGED <<tries, shared>>

\* one who has executed a shared task puts its own outcome over any other, but does
\* not bring a task back that is forgotten
Overrule ==
    \E t \in shared, s \in {"queued", "completed", "failed"} :
        /\ stage[t] \in Settled \cup {"queued"}
        /\ Move({t}, s)
        /\ inHand' = inHand \ {t}
        /\ UNCHANGED <<tries, shared>>

Forget == \E t \in Tasks : stage[t] \in Settled /\ Move({t}, "removed")
                            /\ UNCHANGED <<inHand, tries, shared>>

LifeNext == Submit \/ Withdraw \/ Take \/ PutBack \/ Settle \/ Overrule \/ Forget

LifeSpec == LifeInit /\ [][LifeNext]_lifeVars
=============================================================================
