--------------------------- MODULE MCPoSetLifecycle ---------------------------
(***************************************************************************)
(* Instances of PoSetLifecycle for TLC.                                     *)
(***************************************************************************)
EXTENDS PoSetLifecycle, TLC

CONSTANTS po, dn, dn2, si, customs, shipping   \* documents
CONSTANTS o1, o2                               \* request handlers

MCType ==
  [d \in Docs |-> CASE d = po -> "PO" [] d \in {dn, dn2} -> "DN" [] d = si -> "SI"
                    [] d = customs -> "CUSTOMS" [] d = shipping -> "SHIPPING"]

\* The two delivery notes carry one number: they are the pages of one delivery
\* when their lines differ, and a re-scan when they do not.
MCNumber == [d \in Docs |-> IF d = dn2 THEN dn ELSE d]

\* Every document reads well.
ReadsWell == [d \in Docs |-> {"full"}]

\* The first delivery note may be unreadable, the first page or all of it; the
\* second is the other page, or reads with a wrong quantity.
ReadsMixed == [d \in Docs |-> IF d = dn THEN {"failed", "first", "full"}
                              ELSE IF d = dn2 THEN {"second", "wrong"} ELSE {"full"}]

\* The two request handlers are interchangeable.
MCSymmetry == Permutations(Operators)
=============================================================================
