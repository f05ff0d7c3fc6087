------------------------------- MODULE MCPoller -------------------------------
(***************************************************************************)
(* Instances of Poller for TLC.                                             *)
(***************************************************************************)
EXTENDS Poller

CONSTANTS a, b   \* input files
=============================================================================
