----------------------------- MODULE LineMatching -----------------------------
(***************************************************************************)
(* How the lines of a PO are compared with those of its delivery notes and   *)
(* invoices: services/matching.py, compare_po_set_lines and the verdict      *)
(* that services/reconciliation.py draws from them.                          *)
(*                                                                           *)
(* Documents arrive one after the other and the set is read again after some *)
(* of them.  A printed line number is a plain number, a number with the      *)
(* release suffix -1, or something else, possibly with leading zeros; its    *)
(* characters are left out.  A description is its normalised text, and the   *)
(* quantity of some rows is the number of units that they speak of.          *)
(***************************************************************************)
EXTENDS LineNumbers, Sequences, FiniteSets, Functions

CONSTANTS
  Purchases,     \* the lines of PO documents: sequences of rows
  Deliveries,    \* the lines of delivery notes and invoices: sequences of rows
  Descriptions,  \* texts
  Similar,       \* Similar[d, e]: how alike two texts are, 0 to 100
  Threshold,     \* fuzzy_description_threshold; 0 turns the fallback off
  Switches,      \* configurations of line_number_fallback: sets of rules
  MaxDocuments,  \* bound on the documents of a set
  None

Pools == {"DN", "SI"}

\* A number as it is printed, and the key it is compared by (normalize_line_no).
Printed == [kind : {"plain", "rel", "other"}, n : Nat \ {0}, zeros : BOOLEAN]
Orphan == Key("orphan", 0)
Normal(no) == IF no = None THEN None ELSE Key(no.kind, no.n)

Rows == [no : Printed \cup {None}, desc : Descriptions \cup {None}, qty : Nat \ {0}]

ASSUME LineMatchingAssumption ==
  /\ Purchases \subseteq Seq(Rows) \ {<<>>}
  /\ Deliveries \subseteq Seq(Rows) \ {<<>>}
  /\ Similar \in [Descriptions \X Descriptions -> 0..100]
  /\ Threshold \in 0..100
  /\ Switches \subseteq SUBSET Rules
  /\ MaxDocuments \in Nat
  /\ None \notin Keys

VARIABLES
  po,    \* the lines of the PO
  docs,  \* the documents of each pool, in the order in which they came
  on,    \* the rules that are switched on
  last   \* the last reading: its documents, verdict, rules and placements

matching == <<po, docs, on, last>>

Unread == [docs |-> [p \in Pools |-> <<>>], status |-> "unread",
           rule |-> [p \in Pools |-> AsPrinted], placed |-> [p \in Pools |-> <<>>]]

MatchingInit ==
  /\ po \in Purchases
  /\ docs = [p \in Pools |-> <<>>]
  /\ on \in Switches
  /\ last = Unread

\* The rows of the documents of a pool, each by its document and its place there.
Lines(pool) == UNION {{d} \X DOMAIN pool[d] : d \in DOMAIN pool}
RowAt(pool, at) == pool[at[1]][at[2]]

KeysOf(rows) == {Normal(row.no) : row \in rows}
PoKeys == KeysOf(Range(po))
PoolKeys(pool) == UNION {KeysOf(Range(pool[d])) : d \in DOMAIN pool}

Ordered == [i \in DOMAIN po |-> po[i].qty]
Delivered(pool) == [at \in Lines(pool) |-> RowAt(pool, at).qty]

\* The number of units in some rows, whose quantities are q.
Amount(q, rows) == Cardinality(UNION {{row} \X (1 .. q[row]) : row \in rows})

-----------------------------------------------------------------------------
(* The keys of the PO, in the order of their first lines.                    *)

\* po_item_key: the number, else the description.
ItemKey(row) ==
  IF row.no # None THEN Normal(row.no)
  ELSE IF row.desc # None THEN Key("desc", row.desc) ELSE None

ItemKeys == {ItemKey(row) : row \in Range(po)}
Numberless == {ItemKey(row) : row \in {row \in Range(po) : row.no = None /\ row.desc # None}}

FirstOf(key) ==
  CHOOSE i \in DOMAIN po : ItemKey(po[i]) = key /\ \A j \in 1 .. (i - 1) : ItemKey(po[j]) # key
InOrder == [key \in ItemKeys |-> FirstOf(key)]

\* The text of a line is the one of its first row.
TextOf(key) == po[FirstOf(key)].desc

-----------------------------------------------------------------------------
(* resolve_line_mapping                                                      *)

Fits(keys) ==
  {rule \in on : Eligible(rule, PoKeys, keys)
                 /\ \A key \in keys : Applied(rule, key) \in PoKeys}

\* A mutant: a pool in which one document fits as printed is mapped all the same.
RuleMixed(pools, p) ==
  LET fits == Fits(PoolKeys(pools[p]))
  IN IF \/ None \in PoKeys \cup PoolKeys(pools["DN"]) \cup PoolKeys(pools["SI"])
        \/ PoolKeys(pools[p]) \subseteq PoKeys
        \/ fits = {}
     THEN AsPrinted
     ELSE CHOOSE rule \in fits : TRUE

\* A pool is mapped only when its numbers do not fit as printed, a rule that is on makes
\* all of them fit, no document of it fits as printed, and every row has a number.
RuleOf(pools, p) ==
  LET fits == Fits(PoolKeys(pools[p]))
  IN IF \/ None \in PoKeys \cup PoolKeys(pools["DN"]) \cup PoolKeys(pools["SI"])
        \/ PoolKeys(pools[p]) \subseteq PoKeys
        \/ fits = {}
        \/ \E doc \in Range(pools[p]) : KeysOf(Range(doc)) \subseteq PoKeys
     THEN AsPrinted
     ELSE CHOOSE rule \in fits : TRUE

-----------------------------------------------------------------------------
(* group_by_line_no                                                          *)

\* The first, in some order, of the keys whose text is most alike, if it is alike enough.
Closest(text, keys, order) ==
  LET score(key) == IF text = None \/ TextOf(key) = None THEN 0 ELSE Similar[text, TextOf(key)]
      best == {key \in keys :
                 /\ score(key) > 0 /\ score(key) >= Threshold
                 /\ \A other \in keys :
                      \/ score(other) < score(key)
                      \/ score(other) = score(key) /\ order[key] <= order[other]}
  IN IF best = {} THEN Orphan ELSE CHOOSE key \in best : TRUE

\* A number that the PO carries decides.  A row without one goes by its text; a row whose
\* number the PO does not carry may only go to a line without a number, and those are
\* tried in the order of a Python set, which is arbitrary.
Place(row, rule, order) ==
  IF row.no # None /\ Applied(rule, Normal(row.no)) \in ItemKeys THEN Applied(rule, Normal(row.no))
  ELSE IF Threshold = 0 THEN Orphan
  ELSE IF row.no = None THEN Closest(row.desc, ItemKeys, InOrder)
  ELSE Closest(row.desc, Numberless, order)

Placed(pools, p, order) ==
  [at \in Lines(pools[p]) |-> Place(RowAt(pools[p], at), RuleOf(pools, p), order)]

OrderedAt(key) == Amount(Ordered, {i \in DOMAIN po : ItemKey(po[i]) = key})
DeliveredAt(key, pool, placed) == Amount(Delivered(pool), {at \in Lines(pool) : placed[at] = key})

-----------------------------------------------------------------------------
(* compare_aggregates, and the verdict: lines that nobody delivered are      *)
(* waited for, lines that differ are a mismatch.                             *)

\* A mutant: rows without a place are not looked at.
VerdictIgnoringOrphans(pools, placed) ==
  LET delivered(key, p) == DeliveredAt(key, pools[p], placed[p])
      off(p) == {key \in ItemKeys : delivered(key, p) # OrderedAt(key)}
  IN IF None \in ItemKeys THEN "quarantined"
     ELSE IF \A p \in Pools : off(p) = {} THEN "reconciled"
     ELSE IF \A p \in Pools : \A key \in off(p) : delivered(key, p) = 0 THEN "pending"
     ELSE "mismatched"

\* A mutant: a line may be delivered in excess.
VerdictAtLeast(pools, placed) ==
  LET delivered(key, p) == DeliveredAt(key, pools[p], placed[p])
      off(p) == {key \in ItemKeys : delivered(key, p) < OrderedAt(key)}
  IN IF None \in ItemKeys \/ \E p \in Pools : Orphan \in Range(placed[p]) THEN "quarantined"
     ELSE IF \A p \in Pools : off(p) = {} THEN "reconciled"
     ELSE IF \A p \in Pools : \A key \in off(p) : delivered(key, p) = 0 THEN "pending"
     ELSE "mismatched"

Verdict(pools, placed) ==
  LET delivered(key, p) == DeliveredAt(key, pools[p], placed[p])
      off(p) == {key \in ItemKeys : delivered(key, p) # OrderedAt(key)}
  IN IF None \in ItemKeys \/ \E p \in Pools : Orphan \in Range(placed[p]) THEN "quarantined"
     ELSE IF \A p \in Pools : off(p) = {} THEN "reconciled"
     ELSE IF \A p \in Pools : \A key \in off(p) : delivered(key, p) = 0 THEN "pending"
     ELSE "mismatched"

Reading(pools, order) ==
  LET placed == [p \in Pools |-> Placed(pools, p, order)]
  IN [docs |-> pools, status |-> Verdict(pools, placed),
      rule |-> [p \in Pools |-> RuleOf(pools, p)], placed |-> placed]

-----------------------------------------------------------------------------
Deliver(p, doc) ==
  /\ Len(docs["DN"]) + Len(docs["SI"]) < MaxDocuments
  /\ docs' = [docs EXCEPT ![p] = Append(@, doc)]
  /\ UNCHANGED <<po, on, last>>

\* The set is read once it has a delivery note and an invoice.
Read ==
  /\ \A p \in Pools : docs[p] # <<>>
  /\ \E order \in Bijection(Numberless, 1 .. Cardinality(Numberless)) :
       last' = Reading(docs, order)
  /\ UNCHANGED <<po, docs, on>>

MatchingNext == Read \/ \E p \in Pools, doc \in Deliveries : Deliver(p, doc)
MatchingSpec == MatchingInit /\ [][MatchingNext]_matching

-----------------------------------------------------------------------------
(* Properties.                                                               *)

Reconciled == last.status = "reconciled"

\* A set reconciles only when every quantity of every document is accounted for: what the
\* PO orders in all is what the delivery notes and what the invoices say in all, whichever
\* rows were mapped, guessed by their text or summed over several documents.
QuantitiesAreConserved ==
  Reconciled =>
    \A p \in Pools :
      Amount(Delivered(last.docs[p]), Lines(last.docs[p])) = Amount(Ordered, DOMAIN po)

\* What a row means if its vendor numbers lines by `scheme`; None if it cannot be.
Meant(row, scheme) ==
  IF \/ row.no = None
     \/ scheme \in {"x10", "div10", "add_rel"} /\ ~Plain(row.no)
     \/ scheme = "div10" /\ ~Tens(row.no)
     \/ scheme = "strip_rel" /\ ~Release(row.no)
  THEN None ELSE Applied(scheme, Normal(row.no))

\* A set never reconciles on the wrong lines: under whichever of the numberings a vendor
\* may have had in mind all along, if it makes every row a line of the PO, then each
\* of those lines was delivered, and invoiced, in the quantity ordered.
RightLines ==
  Reconciled =>
    \A p \in Pools, scheme \in Rules \cup {AsPrinted} :
      LET pool == last.docs[p]
          meant == [at \in Lines(pool) |-> Meant(RowAt(pool, at), scheme)]
      IN (\A at \in Lines(pool) : meant[at] # None /\ meant[at] \in ItemKeys)
         => \A key \in ItemKeys : DeliveredAt(key, pool, meant) = OrderedAt(key)

\* A row that has been put on one numbered line is not moved to another one by documents
\* that come later, unless the set is quarantined for a person to look at.
PlacementIsStable ==
  [][\A p \in Pools :
       LET old == last.placed[p] new == last'.placed[p] IN
       \A at \in DOMAIN old :
         /\ RowAt(last.docs[p], at).no # None
         /\ Orphan \notin {old[at], new[at]}
         /\ old[at].kind # "desc" \/ new[at].kind # "desc"
         /\ old[at] # new[at]
         => last'.status = "quarantined"]_matching
=============================================================================
