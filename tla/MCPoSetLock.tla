----------------------------- MODULE MCPoSetLock -----------------------------
(***************************************************************************)
(* Instances of PoSetLock for TLC.                                          *)
(***************************************************************************)
EXTENDS PoSetLock

CONSTANTS merge, redo, sweep   \* action names, also used as the clients

MCClients == {merge, redo, sweep}
MCActions == {merge, redo, sweep}

\* Every client performs an action of its own.
MCDistinct == [c \in MCClients |-> c]
=============================================================================
