------------------------------ MODULE MCSyncLock ------------------------------
(***************************************************************************)
(* Instances of SyncLock for TLC.                                           *)
(***************************************************************************)
EXTENDS SyncLock, TLC

CONSTANTS button, poller, nightly   \* who starts syncs

\* Starters differ in nothing but what a refusal leads to.
MCSymmetry == Permutations(Starters)
=============================================================================
