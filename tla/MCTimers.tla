------------------------------- MODULE MCTimers -------------------------------
(***************************************************************************)
(* Values of the constants of Timers for TLC.                              *)
(***************************************************************************)
EXTENDS Timers

CONSTANTS f1, f2

\* others scan everything, or one folder
AnyFolders == {{}, {f1}, {f2}}
=============================================================================
