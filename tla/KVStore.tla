------------------------------- MODULE KVStore -------------------------------
(***************************************************************************)
(* The key-value store of one plugin (plugins/host_kvstore.go): a table    *)
(* with a size and an expiry for each key, and a limit of the total size.  *)
(* Every statement is a step.  setValue takes three: it reads the size the *)
(* key had, then the size of everything, and writes the row.  A missing    *)
(* row counts as much as an empty one, and is represented by it.           *)
(***************************************************************************)
EXTENDS Naturals, FiniteSets, Folds

CONSTANTS
    Keys,
    Calls,       \* calls that set a value at a time
    Prefix,      \* the keys that DeleteByPrefix matches
    Sizes,       \* sizes of values
    MaxSize      \* the limit

\* what the constants satisfy
StoreAssumption ==
    /\ Keys # {} /\ Prefix \subseteq Keys
    /\ Sizes \subseteq Nat /\ MaxSize \in Nat

VARIABLES
    size, expiry,                    \* the rows
    pc, key, newSize, ttl, oldSize,  \* of a call
    \* history: calls whose key left the store, or that met another write,
    \* since their first statement; whether such a call has met the limit
    met, exceeded

rows   == <<size, expiry>>
locals == <<pc, key, newSize, ttl, oldSize>>
vars   == <<rows, locals, met, exceeded>>

Expiry == {"never", "later", "past"}

Init ==
    /\ size = [k \in Keys |-> 0] /\ expiry = [k \in Keys |-> "never"]
    /\ pc = [c \in Calls |-> "idle"]
    /\ key = [c \in Calls |-> CHOOSE k \in Keys : TRUE]
    /\ newSize = [c \in Calls |-> 0] /\ ttl = [c \in Calls |-> "never"]
    /\ oldSize = [c \in Calls |-> 0]
    /\ met = {} /\ exceeded = FALSE

NotExpired(k) == expiry[k] # "past"

Used(sizes, ks) == MapThenFoldSet(+, 0, LAMBDA k : sizes[k], LAMBDA s : CHOOSE k \in s : TRUE, ks)
StorageUsed == Used(size, {k \in Keys : NotExpired(k)})

-----------------------------------------------------------------------------
(* setValue *)

MutOldSize(k) == size[k]    \* mutant: the size of an expired row is counted
OldSize(k) == IF NotExpired(k) THEN size[k] ELSE 0

SetValue(c, k, s, t) ==
    /\ pc[c] = "idle"
    /\ key' = [key EXCEPT ![c] = k] /\ newSize' = [newSize EXCEPT ![c] = s]
    /\ ttl' = [ttl EXCEPT ![c] = t]
    /\ oldSize' = [oldSize EXCEPT ![c] = OldSize(k)]
    /\ pc' = [pc EXCEPT ![c] = "check"]
    /\ UNCHANGED <<rows, met, exceeded>>

Set(c, k, s)        == SetValue(c, k, s, "never")
SetWithTTL(c, k, s) == SetValue(c, k, s, "later")

Fits(c) == newSize[c] <= oldSize[c] \/ StorageUsed + newSize[c] <= MaxSize + oldSize[c]

\* what a call held is of no use when it returns
Return(c) ==
    /\ pc' = [pc EXCEPT ![c] = "idle"]
    /\ key' = [key EXCEPT ![c] = CHOOSE k \in Keys : TRUE]
    /\ newSize' = [newSize EXCEPT ![c] = 0] /\ ttl' = [ttl EXCEPT ![c] = "never"]
    /\ oldSize' = [oldSize EXCEPT ![c] = 0]

CheckStorageLimit(c) ==
    /\ pc[c] = "check"
    /\ \/ /\ Fits(c)
          /\ pc' = [pc EXCEPT ![c] = "write"]
          /\ UNCHANGED <<key, newSize, ttl, oldSize, met>>
       \/ ~Fits(c) /\ Return(c) /\ met' = met \ {c}
    /\ UNCHANGED <<rows, exceeded>>

\* history: the limit is exceeded by the rows as they become
Exceeds == Used(size', {k \in Keys : expiry'[k] # "past"}) > MaxSize

Upsert(c) ==
    /\ pc[c] = "write"
    /\ size' = [size EXCEPT ![key[c]] = newSize[c]]
    /\ expiry' = [expiry EXCEPT ![key[c]] = ttl[c]]
    /\ Return(c)
    /\ met' = {d \in Calls \ {c} : pc[d] # "idle"}
    /\ exceeded' = (Exceeds /\ (exceeded \/ c \in met))

-----------------------------------------------------------------------------
(* Deletion, time and the clean-up *)

\* calls that have read the size of a key that is now gone
Holding(ks) == {c \in Calls : pc[c] # "idle" /\ key[c] \in ks /\ oldSize[c] > 0}

Gone(ks) ==
    /\ size' = [k \in Keys |-> IF k \in ks THEN 0 ELSE size[k]]
    /\ expiry' = [k \in Keys |-> IF k \in ks THEN "never" ELSE expiry[k]]
    /\ met' = met \cup Holding(ks)
    /\ exceeded' = (exceeded /\ Exceeds)
    /\ UNCHANGED locals

Delete(k)      == size[k] > 0 /\ Gone({k})
DeleteByPrefix == (\E k \in Prefix : size[k] > 0) /\ Gone(Prefix)

Expire(k) ==
    /\ expiry[k] = "later"
    /\ expiry' = [expiry EXCEPT ![k] = "past"]
    /\ met' = met \cup Holding({k})
    /\ UNCHANGED <<size, locals>>
    /\ exceeded' = (exceeded /\ Exceeds)

Expired == {k \in Keys : expiry[k] = "past"}

CleanupExpired ==
    /\ Expired # {}
    /\ Gone(Expired)

-----------------------------------------------------------------------------
Next ==
    \/ \E c \in Calls :
           \/ \E k \in Keys, s \in Sizes : Set(c, k, s) \/ SetWithTTL(c, k, s)
           \/ CheckStorageLimit(c) \/ Upsert(c)
    \/ \E k \in Keys : Delete(k) \/ Expire(k)
    \/ DeleteByPrefix \/ CleanupExpired

Spec == Init /\ [][Next]_vars

-----------------------------------------------------------------------------
(* Properties *)

\* The variables have their types.
TypeOK ==
    /\ size \in [Keys -> Sizes \cup {0}] /\ expiry \in [Keys -> Expiry]
    /\ pc \in [Calls -> {"idle", "check", "write"}]
    /\ key \in [Calls -> Keys] /\ newSize \in [Calls -> Sizes \cup {0}]
    /\ ttl \in [Calls -> Expiry] /\ oldSize \in [Calls -> Sizes \cup {0}]
    /\ met \subseteq {c \in Calls : pc[c] # "idle"} /\ exceeded \in BOOLEAN

\* The values that have not expired stay within the limit, unless a call stored
\* one though its key had been deleted or had expired since it read the key's
\* size, or another call had stored a value since then.
QuotaKept == StorageUsed <= MaxSize \/ exceeded
=============================================================================
