------------------------------ MODULE MCScanner ------------------------------
(***************************************************************************)
(* An instance of Scanner for TLC.                                         *)
(***************************************************************************)
EXTENDS Scanner, TLC

CONSTANTS f1, f2

\* two folders, scanned together or one of them
AnyFolders == {Folders, {f1}, {f2}}

\* two libraries, scanned in turn
InTurn == {<<1, 2>>}

FolderSymmetry == Permutations(Folders)

\* rows are numbered in the order of what they are: other orders are the same
Code(i) == kind[i] + 3 * fileLib[i] + 9 * created[i] + (IF i \in missing THEN 27 ELSE 0)

\* a component that rests is in one initial state
TracksRest ==
    /\ fileLib = [i \in Tracks!Ids |-> 1] /\ kind = [i \in Tracks!Ids |-> 1]
    /\ created = [i \in Tracks!Ids |-> 0]
    /\ missing = {} /\ stars = {} /\ purging = TRUE
TracksRun ==
    /\ stars = IF purging THEN {1, 2} ELSE {1}
    /\ missing # {}
    /\ \A i, j \in Tracks!Ids : i < j => Code(i) <= Code(j)

MCInit ==
    /\ component \in {"scan", "tracks", "books"}
    /\ flag \in IF component = "scan" THEN BOOLEAN ELSE {FALSE}
    /\ exists \in IF component = "books" THEN BOOLEAN ELSE {FALSE}
    /\ component # "tracks" => TracksRest
    /\ ScannerInit
    /\ component = "tracks" => TracksRun

MCSpec == MCInit /\ [][ScannerNext]_<<component, vars, trackVars, bookVars>>
=============================================================================
