----------------------------- MODULE MCSseBroker -----------------------------
(* Instances of SseBroker for TLC. *)
EXTENDS SseBroker, TLC

CONSTANTS c1, c2, p1, ann

TwoOfOne == c1 :> ann @@ c2 :> ann
=============================================================================
