----------------------------- MODULE MCListening -----------------------------
(***************************************************************************)
(* An instance of Listening for TLC.                                       *)
(***************************************************************************)
EXTENDS Listening, TLC

CONSTANT ann

\* the two plays are of one user
OneUser == 1 :> ann @@ 2 :> ann
=============================================================================
