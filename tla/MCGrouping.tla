----------------------------- MODULE MCGrouping -----------------------------
(* Instances of Grouping for TLC: a PO; a delivery note with the same       *)
(* digits and other letters; and a delivery note without a PO number, whose *)
(* DN number the other note shares and the PO prints against a line.        *)
EXTENDS Grouping

CONSTANTS po, dn, dn2, k1, n1

N(k, l) == [key |-> k, letters |-> l]

MCKind == [d \in Docs |-> IF d = po THEN "PO" ELSE "DN"]
MCPrinted == [d \in Docs |-> CASE d = po -> N(k1, "A") [] d = dn2 -> N(k1, "B")
                               [] OTHER -> NoNumber]
MCDnNo == [d \in Docs |-> IF d \in {dn, dn2} THEN n1 ELSE NoDn]
MCRefs == [d \in Docs |-> IF d = po THEN {n1} ELSE {}]
MCChoices == {<<"PO", N(k1, "B")>>, <<"DN", N(k1, "B")>>,
              <<"CUSTOMS", N(k1, "")>>, <<"CUSTOMS", NoNumber>>}

=============================================================================
