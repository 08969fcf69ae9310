---------------------------- MODULE MCLibraryScan ----------------------------
(* An instance of LibraryScan for TLC. *)
EXTENDS LibraryScan

CONSTANTS f1, f2

AnyFolder == {Folders} \cup {{f} : f \in Folders}
=============================================================================
