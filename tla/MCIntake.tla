------------------------------- MODULE MCIntake -------------------------------
(***************************************************************************)
(* Instances of Intake for TLC: a purchase order that comes twice, a        *)
(* combined PDF of two pages and a file that is no acceptable PDF.          *)
(***************************************************************************)
EXTENDS Intake, TLC

CONSTANTS order, packet, text   \* files
CONSTANTS n1, n2, n3             \* names

MCKind == order :> "single" @@ packet :> "combined" @@ text :> "reject"
MCArrivals == {<<order, n1>>, <<order, n2>>, <<packet, n2>>, <<text, n3>>}
Part(from, to, skip) == [from |-> from, to |-> to, skip |-> skip]
Apart == [count |-> 2, parts |-> <<Part(1, 1, FALSE), Part(2, 2, FALSE)>>]
Gap == [count |-> 2, parts |-> <<Part(2, 2, FALSE)>>]
Cover == [count |-> 2, parts |-> <<Part(1, 1, FALSE), Part(2, 2, TRUE)>>]
MCClaims == {Apart, Cover, Gap}
MCRecombined == {<<packet, 2, 2>>}
=============================================================================
