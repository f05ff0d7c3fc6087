----------------------------- MODULE PublishedSet -----------------------------
(***************************************************************************)
(* What a PO set promises to those who only see its page and the output      *)
(* folder, whichever handler, sync or rebuild works on it: the file appears  *)
(* before the page says "merged" and stays from then on, a rebuild adds      *)
(* pages and loses none, a set is closed (archived) instead of delivered and *)
(* never after it, and nothing leaves a closed set.                          *)
(***************************************************************************)
CONSTANT Docs

VARIABLES
  phase,   \* "open" or "delivered"
  closed,
  file     \* the documents in the output file; {} if there is none

vars == <<phase, closed, file>>

Init == phase = "open" /\ closed = FALSE /\ file = {}

\* The file is written, and taken back if the delivery cannot be recorded.
Write ==
  /\ phase = "open" /\ ~closed
  /\ file = {}
  /\ file' \in (SUBSET Docs) \ {{}}
  /\ UNCHANGED <<phase, closed>>

Withdraw ==
  /\ phase = "open" /\ ~closed
  /\ file' = {}
  /\ UNCHANGED <<phase, closed>>

Deliver ==
  /\ phase = "open" /\ ~closed
  /\ file # {}
  /\ phase' = "delivered"
  /\ UNCHANGED <<closed, file>>

Rebuild ==
  /\ phase = "delivered" /\ ~closed
  /\ file' \in SUBSET Docs
  /\ file \subseteq file'
  /\ UNCHANGED <<phase, closed>>

Close ==
  /\ phase = "open"
  /\ closed' = TRUE
  /\ UNCHANGED <<phase, file>>

Next == Write \/ Withdraw \/ Deliver \/ Rebuild \/ Close
Spec == Init /\ [][Next]_vars
=============================================================================
