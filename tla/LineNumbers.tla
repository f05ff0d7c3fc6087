------------------------------ MODULE LineNumbers ------------------------------
(***************************************************************************)
(* The line numbers of a PO and of a vendor, and the rules that translate    *)
(* one into the other: services/matching.py, LINE_MAPPING_RULES and what     *)
(* _eligible_rules and _apply_rule do with them.                             *)
(*                                                                           *)
(* A number is compared by its key: a kind and an integer.                   *)
(***************************************************************************)
EXTENDS Naturals

Rules == {"x10", "div10", "add_rel", "strip_rel"}
AsPrinted == "as printed"

Key(kind, n) == [kind |-> kind, n |-> n]

\* The keys that printed line numbers are compared by.
Keys == [kind : {"plain", "rel", "other"}, n : Nat \ {0}]

Plain(key) == key.kind = "plain"
Release(key) == key.kind = "rel"
Tens(key) == key.n % 10 = 0

Eligible(rule, poKeys, keys) ==
  \/ /\ rule = "x10"
     /\ \A key \in poKeys \cup keys : Plain(key)
     /\ \A key \in poKeys : Tens(key)
  \/ /\ rule = "div10"
     /\ \A key \in poKeys \cup keys : Plain(key)
     /\ \A key \in keys : Tens(key)
     /\ \E key \in poKeys : ~Tens(key)
  \/ /\ rule = "add_rel"
     /\ \A key \in keys : Plain(key)
     /\ \A key \in poKeys : Release(key)
  \/ /\ rule = "strip_rel"
     /\ \A key \in poKeys : Plain(key)
     /\ \A key \in keys : Release(key)

Applied(rule, key) ==
  CASE rule = "x10" -> Key("plain", key.n * 10)
    [] rule = "div10" -> Key("plain", key.n \div 10)
    [] rule = "add_rel" -> Key("rel", key.n)
    [] rule = "strip_rel" -> Key("plain", key.n)
    [] rule = AsPrinted -> key
=============================================================================
