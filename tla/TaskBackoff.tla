----------------------------- MODULE TaskBackoff -----------------------------
(***************************************************************************)
(* How long a failed task waits for its next attempt: the shift of a       *)
(* 64-bit integer and its clamp in handleTaskFailure                       *)
(* (plugins/host_taskqueue.go).  Width and MaxBackoff are smaller here,    *)
(* and in the same proportion: the square of the longest delay fits into   *)
(* the integer.                                                            *)
(***************************************************************************)
EXTENDS Integers

CONSTANTS
    Width,         \* bits of the integer
    MaxBackoff,    \* maxBackoffMs
    Default,       \* defaultBackoffMs
    MaxAttempts    \* bound: attempts of the task

\* two to the power of n
Pow2[n \in Nat] == IF n = 0 THEN 1 ELSE 2 * Pow2[n - 1]

\* what the constants satisfy
BackoffAssumption ==
    /\ Width \in Nat \ {0} /\ MaxAttempts \in Nat
    /\ MaxBackoff \in Nat /\ Default \in 1..MaxBackoff
    /\ MaxBackoff * MaxBackoff < Pow2[Width - 1]

VARIABLES
    config,     \* BackoffMs of the queue
    attempt,    \* attempts made
    backoff     \* the delay before the next one

vars == <<config, attempt, backoff>>

Limit == Pow2[Width - 1]

\* an integer of Width bits, in two's complement
Wrapped(x) == ((x + Limit) % (2 * Limit)) - Limit

ShiftedLeft(x, n) == Wrapped(x * Pow2[n])

\* MUTANT of Clamped: an overflow that shows as a negative number or 0 is not
MutClamped(x) == IF x > MaxBackoff THEN MaxBackoff ELSE x

Clamped(x) == IF x <= 0 \/ x > MaxBackoff THEN MaxBackoff ELSE x

\* any number a plugin gives for a new queue, or the default for none
Init ==
    /\ \E given \in -1..(Limit - 1) : config = IF given <= 0 THEN Default ELSE given
    /\ attempt = 0 /\ backoff = 0

\* attempt counts from 1
HandleTaskFailure ==
    /\ attempt < MaxAttempts
    /\ attempt' = attempt + 1
    /\ backoff' = Clamped(ShiftedLeft(config, attempt))
    /\ UNCHANGED config

Next == HandleTaskFailure

Spec == Init /\ [][Next]_vars

-----------------------------------------------------------------------------
\* The variables have their types: a delay is never longer than the limit.
TypeOK == config \in 1..(Limit - 1) /\ attempt \in 0..MaxAttempts /\ backoff \in 0..MaxBackoff

\* The delay is that of the queue doubled with every attempt, up to the limit, however
\* many there are and whatever the shift does to the number; of a queue that asks
\* for more than the limit, only that it is never none, and the first is the limit.
DelaysDouble ==
    attempt > 0 =>
        IF config <= MaxBackoff
        THEN LET doubled == config * Pow2[attempt - 1]
             IN  backoff = IF doubled > MaxBackoff THEN MaxBackoff ELSE doubled
        ELSE backoff > 0 /\ (attempt = 1 => backoff = MaxBackoff)
=============================================================================
