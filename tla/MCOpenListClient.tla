--------------------------- MODULE MCOpenListClient ---------------------------
(* Instances of OpenListClient for TLC. *)
EXTENDS OpenListClient, TLC

CONSTANTS c1, c2

CallerSymmetry == Permutations(Callers)
=============================================================================
