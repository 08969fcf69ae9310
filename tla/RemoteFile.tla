------------------------------ MODULE RemoteFile ------------------------------
(***************************************************************************)
(* The reads of a file of the cloud (core/cloudsource/remotefile.go): each *)
(* is served from three windows on the file, its head, its tail and a      *)
(* sliding one, which grow or move by ranges fetched on demand, under a    *)
(* budget of bytes for tag parsers.                                        *)
(*                                                                         *)
(* A byte is its offset, so a window is a sequence of offsets.  Sizes are  *)
(* scaled down.  The handle's mutex makes its reads sequential; a fetch    *)
(* brings exactly the range asked for, or fails (CloudLinks has the link   *)
(* it uses).                                                               *)
(***************************************************************************)
EXTENDS Integers, Sequences

CONSTANTS
    Sizes,                               \* sizes the file may have
    HeadBytes, TailBytes, WindowBytes,   \* of the endpoint
    ProbeBytes, HeaderBytes, FrameSlack, \* the probes, an ID3v2 header, id3FrameSlack
    Budgets                              \* budgets of the handle (0: none)

\* what the constants satisfy
FileAssumption ==
    /\ Sizes \cup Budgets \subseteq Nat
    /\ HeadBytes \in Nat /\ TailBytes \in Nat /\ WindowBytes \in Nat
    /\ ProbeBytes \in Nat \ {0} /\ HeaderBytes \in Nat /\ FrameSlack \in Nat

VARIABLES
    size, tagEnd, budget,                \* the file, the end of its ID3v2 tag (0: none)
    head, tail, tailOff, mid, midOff,    \* windows
    fetched,                             \* bytes fetched, if there is a budget
    reading, off, want, out              \* readAtLocked: what is asked, and read so far

windows == <<head, tail, tailOff, mid, midOff, fetched>>
vars    == <<size, tagEnd, budget, windows, reading, off, want, out>>

Least(a, b)    == IF a < b THEN a ELSE b
Greatest(a, b) == IF a < b THEN b ELSE a

\* the bytes from the first one on
Bytes(first, n) == [i \in 1 .. n |-> first + i - 1]

Init ==
    /\ size \in Sizes /\ tagEnd \in 0 .. size /\ budget \in Budgets
    /\ head = <<>> /\ tail = <<>> /\ tailOff = 0 /\ mid = <<>> /\ midOff = 0
    /\ fetched = 0
    /\ reading = "no" /\ off = 0 /\ want = 0 /\ out = <<>>

\* a read within the file; Read and Seek only choose where
ReadAt(from, n) ==
    /\ reading = "no"
    /\ from + n <= size
    /\ reading' = "yes"
    /\ off' = from /\ want' = n /\ out' = <<>>
    /\ UNCHANGED <<size, tagEnd, budget, windows>>

-----------------------------------------------------------------------------
(* copyWindowLocked and loadWindowLocked, for the rest of the read *)

Reading == reading = "yes" /\ Len(out) < want
At      == off + Len(out)
Rest    == want - Len(out)

Covers(data, base) == data # <<>> /\ At >= base /\ At + Rest <= base + Len(data)

Cached == Covers(head, 0) \/ Covers(mid, midOff) \/ Covers(tail, tailOff)

\* src[off-base:] panics beyond the ends of src
Copy(data, base) ==
    /\ UNCHANGED <<off, want>>
    /\ IF At < base \/ At - base > Len(data)
       THEN reading' = "panic" /\ UNCHANGED out
       ELSE LET n == Least(Rest, Len(data) - (At - base)) IN
            /\ out' = out \o SubSeq(data, At - base + 1, At - base + n)
            /\ reading' = IF n = 0 THEN "short" ELSE "yes"

FromCache ==
    /\ Reading
    /\ \/ Covers(head, 0) /\ Copy(head, 0)
       \/ ~Covers(head, 0) /\ Covers(mid, midOff) /\ Copy(mid, midOff)
       \/ ~Covers(head, 0) /\ ~Covers(mid, midOff) /\ Covers(tail, tailOff) /\ Copy(tail, tailOff)
    /\ UNCHANGED <<size, tagEnd, budget, windows>>

TailBase == size - Least(TailBytes, size)
InHead   == At < Least(HeadBytes, size)
InTail   == ~InHead /\ At >= TailBase

\* the head grows to what is asked, its probe, or the end of its tag
HeadTo ==
    LET hint == IF Len(head) >= HeaderBytes /\ tagEnd > 0 THEN tagEnd + FrameSlack ELSE 0
        probe == Least(Least(ProbeBytes, HeadBytes), size)
    IN Least(size, Greatest(hint, Greatest(At + Rest, probe)))

\* the tail grows backwards
TailFrom == size - Least(size, Greatest(size - At, Least(Least(ProbeBytes, TailBytes), size)))

TailEnd  == IF tail = <<>> THEN size ELSE tailOff

MutExtended(data) == tail \o data    \* mutant: the tail grows at the wrong end
Extended(data) == data \o tail

MidBytes == Least(size - At, Greatest(Rest, WindowBytes))

\* the range that is fetched: its offset and length
Range ==
    IF InHead THEN [off |-> Len(head), len |-> HeadTo - Len(head)]
    ELSE IF InTail THEN [off |-> TailFrom, len |-> TailEnd - TailFrom]
    ELSE [off |-> At, len |-> MidBytes]

\* fetchLocked: the range, cut at the end of the file, and the budget
Length     == Least(Range.len, size - Range.off)
OverBudget == budget > 0 /\ fetched + Length > budget

Fetch ==
    /\ Reading /\ ~Cached /\ ~OverBudget
    /\ fetched' = IF budget > 0 THEN fetched + Length ELSE 0
    /\ LET data == Bytes(Range.off, Length) IN
       IF InHead THEN /\ head' = head \o data
                      /\ Copy(head', 0)
                      /\ UNCHANGED <<tail, tailOff, mid, midOff>>
       ELSE IF InTail THEN /\ tail' = Extended(data) /\ tailOff' = Range.off
                           /\ Copy(tail', tailOff')
                           /\ UNCHANGED <<head, mid, midOff>>
       ELSE /\ mid' = data /\ midOff' = Range.off
            /\ Copy(mid', midOff')
            /\ UNCHANGED <<head, tail, tailOff>>
    /\ UNCHANGED <<size, tagEnd, budget>>

\* readAtLocked returns
Done ==
    /\ reading' = "no"
    /\ off' = 0 /\ want' = 0 /\ out' = <<>>
    /\ UNCHANGED <<size, tagEnd, budget, windows>>

\* the budget is exceeded, or the fetch and its one retry fail
FetchFails ==
    /\ Reading /\ ~Cached
    /\ Done

ReadEnds ==
    /\ reading = "yes" /\ Len(out) = want
    /\ Done

-----------------------------------------------------------------------------
Next ==
    \/ \E from, n \in 0 .. size : n > 0 /\ ReadAt(from, n)
    \/ FromCache \/ Fetch \/ FetchFails \/ ReadEnds

Spec == Init /\ [][Next]_vars

-----------------------------------------------------------------------------
(* Properties *)

\* The variables have their types, and no handle fetches more than its budget.
TypeOK ==
    /\ size \in Sizes /\ tagEnd \in 0 .. size /\ budget \in Budgets
    /\ \A data \in {head, tail, mid, out} : data \in Seq(0 .. size - 1)
    /\ tailOff \in 0 .. size /\ midOff \in 0 .. size
    /\ fetched \in 0 .. budget
    /\ reading \in {"no", "yes", "short", "panic"}
    /\ off \in 0 .. size /\ want \in 0 .. size

\* A read returns the bytes of its range, whatever the windows had from earlier
\* reads and failures; it never panics on a slice, and never comes short of what
\* was asked without an error.
ReadsAreRight ==
    /\ reading \notin {"panic", "short"}
    /\ out = Bytes(off, Len(out))
=============================================================================
