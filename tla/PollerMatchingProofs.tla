------------------------ MODULE PollerMatchingProofs ------------------------
(***************************************************************************)
(* Proofs about the two components that stand alone: Poller, for every set   *)
(* of files and every bound, and LineMatching, for every PO, delivery and    *)
(* configuration.  They share no state, and no proof uses both.              *)
(***************************************************************************)
EXTENDS Poller, LineMatching, FiniteSetTheorems, TLAPS

(* Poller *)

\* TypeOK in two parts: the flags, and everything else.
Flags ==
  queued \in BOOLEAN /\ quiet \in BOOLEAN /\ owed \in BOOLEAN /\ busy \in BOOLEAN /\ due \in BOOLEAN
Others ==
  /\ folder \in Folders /\ seen \in Folders /\ snapshot \in Folders /\ given \in Folders
  /\ pc \in {"waiting", "acquiring", "starting", "running"}
  /\ retries \in 0 .. MaxRetries
  /\ troubles \in Nat /\ restarts \in Nat /\ settles \in Nat /\ others \in Nat

LEMMA TypeParts == TypeOK <=> Flags /\ Others
BY DEF TypeOK, Flags, Others

\* One file of a folder grows.
LEMMA ArriveTyped ==
  ASSUME folder \in Folders, NEW f \in Files, Arrive(f)
  PROVE  folder' \in Folders
BY PollerAssumption DEF Arrive, Folders, Versions

\* The watcher's memory and the files keep their types in every tick, whatever
\* the surroundings do (InputWatcher writes nothing else).
THEOREM TypeCorrect == Spec => []TypeOK
<1>1. Empty \in Folders
  BY PollerAssumption DEF Empty, Folders, Versions
<1>2. Init => TypeOK
  <2> SUFFICES ASSUME Init
               PROVE  TypeOK
    OBVIOUS
  <2>1. Flags
    BY Zenon DEF Init, Flags
  <2>2. Others
    BY <1>1, PollerAssumption DEF Init, Others
  <2> QED
    BY <2>1, <2>2, TypeParts
<1>3. TypeOK /\ [Next]_vars => TypeOK'
  <2> SUFFICES ASSUME TypeOK, [Next]_vars
               PROVE  Flags' /\ Others'
    BY TypeParts DEF TypeOK, Flags, Others
  <2>1. Flags /\ Others
    BY TypeParts
  <2>2. Flags'
    BY <2>1, Zenon
       DEF Flags, Next, Tick, vars, poller, counts, Check, Acquire, Scan, Ended, Raised, Halted,
           Arrive, OtherStarts, OtherEnds, SettleTimePasses, QuietEnds, Restart
  <2>3. Others'
    <3> USE <2>1, PollerAssumption DEF Others, poller, counts
    <3>1. CASE Check
      BY <3>1 DEF Check
    <3>2. CASE Acquire
      BY <3>2 DEF Acquire
    <3>3. CASE Scan
      BY <3>3 DEF Scan
    <3>4. CASE Ended
      BY <3>4 DEF Ended
    <3>5. CASE Raised
      BY <3>5 DEF Raised
    <3>6. CASE Halted
      BY <3>6 DEF Halted
    <3>7. ASSUME NEW f \in Files, Arrive(f)
          PROVE  Others'
      BY <3>7, ArriveTyped DEF Arrive
    <3>8. CASE OtherStarts \/ OtherEnds \/ SettleTimePasses \/ QuietEnds
      BY <3>8 DEF OtherStarts, OtherEnds, SettleTimePasses, QuietEnds
    <3>9. CASE Restart
      BY <1>1, <3>9 DEF Restart
    <3>10. CASE UNCHANGED vars
      BY <3>10 DEF vars
    <3> QED
      BY <3>1, <3>2, <3>3, <3>4, <3>5, <3>6, <3>7, <3>8, <3>9, <3>10 DEF Next, Tick
  <2> QED
    BY <2>2, <2>3
<1> QED
  BY <1>2, <1>3, PTL DEF Spec

-----------------------------------------------------------------------------

\* What the poller remembers of a file is no newer than what a sync was handed, and
\* that no newer than what is in the folder.
NoLater(s, t) == \A f \in Files : s[f] <= t[f]

\* The inductive invariant.  `seen` may only take over the snapshot of a tick
\* whose sync has listed the folder since: from then on the sync was handed at
\* least what the tick had seen.
SeenInv ==
  /\ NoLater(seen, given)
  /\ NoLater(given, folder)
  /\ NoLater(snapshot, folder)
  /\ pc = "running" => NoLater(snapshot, given)

\* A version between two equal ones is the same.
LEMMA SeenIsGiven == TypeOK /\ SeenInv => NothingSkipped
BY PollerAssumption DEF TypeOK, SeenInv, NoLater, NothingSkipped, Folders, Versions

\* Every step keeps it.
LEMMA SeenInvKept ==
  ASSUME TypeOK, SeenInv, [Next]_vars
  PROVE  SeenInv'
<1> USE DEF TypeOK, SeenInv, NoLater, Folders, Versions, poller, counts
<1>1. CASE Check
  BY <1>1 DEF Check
<1>2. CASE Acquire
  BY <1>2 DEF Acquire
<1>3. CASE Scan
  BY <1>3 DEF Scan
<1>4. CASE Ended
  BY <1>4 DEF Ended
<1>5. CASE Raised
  BY <1>5 DEF Raised
<1>6. CASE Halted
  BY <1>6 DEF Halted
<1>7. ASSUME NEW f \in Files, Arrive(f)
      PROVE  SeenInv'
  <2>1. \A g \in Files : folder[g] <= folder'[g]
    BY <1>7 DEF Arrive
  <2>2. \A g \in Files : folder'[g] \in Nat /\ folder[g] \in Nat /\ given[g] \in Nat
                         /\ snapshot[g] \in Nat
    BY <1>7, ArriveTyped
  <2> QED
    BY <1>7, <2>1, <2>2 DEF Arrive
<1>8. CASE OtherStarts \/ OtherEnds \/ SettleTimePasses \/ QuietEnds
  BY <1>8 DEF OtherStarts, OtherEnds, SettleTimePasses, QuietEnds
<1>9. CASE Restart
  BY <1>9 DEF Restart, Empty
<1>10. CASE UNCHANGED vars
  BY <1>10 DEF vars
<1> QED
  BY <1>1, <1>2, <1>3, <1>4, <1>5, <1>6, <1>7, <1>8, <1>9, <1>10 DEF Next, Tick

\* "Nothing is skipped", for any files, versions, failures, restarts and other
\* syncs: what `_seen` holds of a file was handed to a sync that listed the folder
\* after the tick that took the snapshot.
THEOREM NothingIsSkipped == Spec => []NothingSkipped
<1>1. Init => SeenInv
  BY DEF Init, SeenInv, NoLater, Empty
<1>2. TypeOK /\ SeenInv /\ [Next]_vars => SeenInv'
  BY SeenInvKept
<1> QED
  BY <1>1, <1>2, SeenIsGiven, TypeCorrect, PTL DEF Spec

-----------------------------------------------------------------------------
(* LineMatching *)

\* A non-empty set of numbers has a least one.
LEMMA LeastNumber ==
  ASSUME NEW S \in SUBSET Nat, S # {}
  PROVE  \E m \in S : \A k \in S : m <= k
<1> DEFINE Less == OpToRel(<, Nat)
<1>1. \A k, m \in Nat : <<k, m>> \in Less <=> k < m
  BY DEF OpToRel
<1>2. IsWellFoundedOn(Less, Nat)
  BY NatLessThanWellFounded, Zenon
<1> HIDE DEF Less
<1>3. PICK m \in S : \A k \in S : ~(<<k, m>> \in Less)
  BY <1>2, WFMin
<1>4. ASSUME NEW k \in S
      PROVE  m <= k
  <2>1. k \in Nat /\ m \in Nat /\ ~(k < m)
    BY <1>1, <1>3
  <2> QED
    BY <2>1
<1> QED
  BY <1>4

-----------------------------------------------------------------------------
(* Quantities as numbers of units.                                           *)

Units(q, rows) == UNION {{row} \X (1 .. q[row]) : row \in rows}

LEMMA AmountIs == \A q, rows : Amount(q, rows) = Cardinality(Units(q, rows))
BY DEF Amount, Units

\* What a unit is: a row and a number up to the quantity of the row.
LEMMA UnitsAre ==
  ASSUME NEW D, NEW q \in [D -> Nat], NEW u
  PROVE  u \in Units(q, D) <=> u \in D \X (Nat \ {0}) /\ u[2] <= q[u[1]]
<1>1. u \in Units(q, D) <=> \E row \in D : u \in {row} \X (1 .. q[row])
  BY DEF Units
<1>2. ASSUME NEW row \in D, u \in {row} \X (1 .. q[row])
      PROVE  u \in D \X (Nat \ {0}) /\ u[2] <= q[u[1]]
  BY <1>2
<1>3. ASSUME u \in D \X (Nat \ {0}), u[2] <= q[u[1]]
      PROVE  u \in {u[1]} \X (1 .. q[u[1]]) /\ u[1] \in D
  BY <1>3
<1> QED
  BY <1>1, <1>2, <1>3

LEMMA UnitsOfSome ==
  ASSUME NEW D, NEW q \in [D -> Nat], NEW rows \in SUBSET D, NEW u
  PROVE  u \in Units(q, rows) <=> u \in Units(q, D) /\ u[1] \in rows
<1>1. \A S : u \in Units(q, S) <=> \E row \in S : u \in {row} \X (1 .. q[row])
  BY DEF Units
<1>2. \A row : u \in {row} \X (1 .. q[row]) => u[1] = row
  OBVIOUS
<1> QED
  BY <1>1, <1>2

\* Finitely many rows have finitely many units.
LEMMA UnitsFinite ==
  ASSUME NEW D, IsFiniteSet(D), NEW q \in [D -> Nat]
  PROVE  IsFiniteSet(Units(q, D))
<1> DEFINE of == [row \in D |-> {row} \X (1 .. q[row])]
           S == {of[row] : row \in D}
<1>1. of \in Surjection(D, S)
  BY DEF Surjection
<1>2. IsFiniteSet(S)
  BY <1>1, FS_Surjection
<1>3. ASSUME NEW row \in D
      PROVE  IsFiniteSet(of[row])
  <2>1. IsFiniteSet({row})
    BY FS_Singleton
  <2>2. 1 \in Int /\ q[row] \in Int
    OBVIOUS
  <2>3. IsFiniteSet(1 .. q[row])
    BY <2>2, FS_Interval
  <2> QED
    BY <2>1, <2>3, FS_Product
<1>4. \A T \in S : IsFiniteSet(T)
  BY <1>3
<1>5. Units(q, D) = UNION S
  BY DEF Units
<1> QED
  BY <1>2, <1>4, <1>5, FS_UNION

LEMMA UnitsOfSomeFinite ==
  ASSUME NEW D, IsFiniteSet(D), NEW q \in [D -> Nat], NEW rows \in SUBSET D
  PROVE  IsFiniteSet(Units(q, rows))
<1>1. IsFiniteSet(Units(q, D))
  BY UnitsFinite
<1>2. Units(q, rows) \in SUBSET Units(q, D)
  BY DEF Units
<1> QED
  BY <1>1, <1>2, FS_Subset

\* The rows of D that c puts at k.
At(c, D, k) == {row \in D : c[row] = k}

\* Rows D and E with quantities q and r, put at k by c and e, amount to the same at every k.
Agree(D, q, c, E, r, e, K) == \A k \in K : Amount(q, At(c, D, k)) = Amount(r, At(e, E, k))

\* Two families of rows that agree in the quantity of every class agree in the whole.
LEMMA Regrouped ==
  ASSUME NEW D, IsFiniteSet(D), NEW q \in [D -> Nat],
         NEW E, IsFiniteSet(E), NEW r \in [E -> Nat],
         NEW K, NEW c \in [D -> K], NEW e \in [E -> K],
         Agree(D, q, c, E, r, e, K)
  PROVE  Amount(q, D) = Amount(r, E)
<1> DEFINE C(k) == At(c, D, k)
           B(k) == At(e, E, k)
           U(k) == Units(q, C(k))
           V(k) == Units(r, B(k))
           g(k) == CHOOSE b \in Bijection(U(k), V(k)) : TRUE
           F == [u \in Units(q, D) |-> g(c[u[1]])[u]]
<1>1. IsFiniteSet(Units(q, D)) /\ IsFiniteSet(Units(r, E))
  BY UnitsFinite
<1>2. ASSUME NEW k \in K
      PROVE  g(k) \in Bijection(U(k), V(k))
  <2>1. C(k) \in SUBSET D /\ B(k) \in SUBSET E
    BY DEF At
  <2>2. Amount(q, C(k)) = Amount(r, B(k))
    BY DEF Agree
  <2> HIDE DEF C, B
  <2>3. IsFiniteSet(U(k)) /\ IsFiniteSet(V(k))
    BY <2>1, UnitsOfSomeFinite
  <2>4. Cardinality(U(k)) = Cardinality(V(k))
    BY <2>2, AmountIs
  <2>5. ExistsBijection(U(k), V(k))
    BY <2>3, <2>4, FS_SameCardinalityBij
  <2> QED
    BY <2>5 DEF ExistsBijection
<1>3. \A k \in K, u \in Units(q, D) : u \in U(k) <=> c[u[1]] = k
  <2>1. \A k \in K : C(k) \in SUBSET D
    BY DEF At
  <2>2. \A u \in Units(q, D) : u[1] \in D
    BY UnitsAre
  <2>3. \A k \in K, u \in Units(q, D) : u[1] \in C(k) <=> c[u[1]] = k
    BY <2>2 DEF At
  <2> HIDE DEF C
  <2> QED
    BY <2>1, <2>3, UnitsOfSome
<1>4. \A k \in K, v \in Units(r, E) : v \in V(k) <=> e[v[1]] = k
  <2>1. \A k \in K : B(k) \in SUBSET E
    BY DEF At
  <2>2. \A v \in Units(r, E) : v[1] \in E
    BY UnitsAre
  <2>3. \A k \in K, v \in Units(r, E) : v[1] \in B(k) <=> e[v[1]] = k
    BY <2>2 DEF At
  <2> HIDE DEF B
  <2> QED
    BY <2>1, <2>3, UnitsOfSome
<1>5. /\ \A u \in Units(q, D) : c[u[1]] \in K
      /\ \A v \in Units(r, E) : e[v[1]] \in K
  BY UnitsAre
<1>6. \A k \in K : U(k) \subseteq Units(q, D) /\ V(k) \subseteq Units(r, E)
  BY DEF Units, At
<1>7. ASSUME NEW k \in K
      PROVE  /\ \A u \in U(k) : g(k)[u] \in V(k)
             /\ \A u, v \in U(k) : g(k)[u] = g(k)[v] => u = v
             /\ \A v \in V(k) : \E u \in U(k) : g(k)[u] = v
  <2> HIDE DEF U, V, g
  <2> QED
    BY <1>2 DEF Bijection, Injection, Surjection, IsInjective
<1> HIDE DEF g, U, V, C, B
<1>8. ASSUME NEW u \in Units(q, D)
      PROVE  F[u] \in Units(r, E) /\ e[F[u][1]] = c[u[1]]
  <2>1. u \in U(c[u[1]]) /\ c[u[1]] \in K
    BY <1>3, <1>5
  <2>2. F[u] \in V(c[u[1]])
    BY <1>7, <2>1
  <2> QED
    BY <1>4, <1>6, <2>1, <2>2
<1>9. ASSUME NEW u \in Units(q, D), NEW v \in Units(q, D), F[u] = F[v]
      PROVE  u = v
  <2>1. c[u[1]] = c[v[1]]
    BY <1>8, <1>9
  <2>2. g(c[u[1]])[u] = g(c[u[1]])[v]
    BY <1>9, <2>1
  <2>3. u \in U(c[u[1]]) /\ v \in U(c[u[1]]) /\ c[u[1]] \in K
    BY <1>3, <1>5, <2>1
  <2> QED
    BY <1>7, <2>2, <2>3
<1>10. ASSUME NEW v \in Units(r, E)
       PROVE  \E u \in Units(q, D) : F[u] = v
  <2>1. v \in V(e[v[1]]) /\ e[v[1]] \in K
    BY <1>4, <1>5
  <2>2. PICK u \in U(e[v[1]]) : g(e[v[1]])[u] = v
    BY <1>7, <2>1
  <2>3. u \in Units(q, D) /\ c[u[1]] = e[v[1]]
    BY <1>3, <1>6, <2>1
  <2> QED
    BY <2>2, <2>3
<1>11. F \in Bijection(Units(q, D), Units(r, E))
  <2>1. F \in [Units(q, D) -> Units(r, E)]
    BY <1>8
  <2> HIDE DEF F
  <2> QED
    BY <1>9, <1>10, <2>1 DEF Bijection, Injection, Surjection, IsInjective
<1>12. Cardinality(Units(r, E)) = Cardinality(Units(q, D))
  BY <1>1, <1>11, FS_Bijection DEF ExistsBijection
<1> QED
  BY <1>12, AmountIs

-----------------------------------------------------------------------------
(* Documents and their rows.                                                 *)

\* The rows of a pool are finitely many, each with a quantity.
LEMMA PoolRows ==
  ASSUME NEW pool \in Seq(Deliveries)
  PROVE  /\ IsFiniteSet(Lines(pool))
         /\ \A d \in DOMAIN pool : pool[d] \in Seq(Rows) \ {<<>>}
         /\ \A at \in Lines(pool) : at[1] \in DOMAIN pool /\ at[2] \in DOMAIN pool[at[1]]
         /\ \A at \in Lines(pool) : RowAt(pool, at) \in Rows
         /\ Delivered(pool) \in [Lines(pool) -> Nat]
<1> DEFINE length == [d \in DOMAIN pool |-> Len(pool[d])]
<1>1. \A d \in DOMAIN pool : pool[d] \in Deliveries
  OBVIOUS
<1>2. \A d \in DOMAIN pool : pool[d] \in Seq(Rows) \ {<<>>}
  BY <1>1, LineMatchingAssumption
<1>3. length \in [DOMAIN pool -> Nat]
  BY <1>2
<1>4. \A d \in DOMAIN pool : DOMAIN pool[d] = 1 .. length[d]
  BY <1>2
<1>5. Lines(pool) = Units(length, DOMAIN pool)
  BY <1>4 DEF Lines, Units
<1>6. DOMAIN pool = 1 .. Len(pool) /\ Len(pool) \in Int /\ 1 \in Int
  OBVIOUS
<1>7. IsFiniteSet(DOMAIN pool)
  BY <1>6, FS_Interval
<1>8. ASSUME NEW at \in Lines(pool)
      PROVE  at[1] \in DOMAIN pool /\ at[2] \in DOMAIN pool[at[1]]
  BY DEF Lines
<1>9. ASSUME NEW at \in Lines(pool)
      PROVE  RowAt(pool, at) \in Rows
  <2>1. pool[at[1]] \in Seq(Rows)
    BY <1>2, <1>8
  <2> QED
    BY <1>8, <2>1 DEF RowAt
<1> QED
  <2>1. IsFiniteSet(Lines(pool))
    BY <1>3, <1>5, <1>7, UnitsFinite
  <2>2. Delivered(pool) \in [Lines(pool) -> Nat]
    BY <1>9 DEF Delivered, Rows
  <2> QED
    BY <1>2, <1>8, <1>9, <2>1, <2>2

\* So are those of the PO.
LEMMA PoRows ==
  ASSUME po \in Purchases
  PROVE  /\ po \in Seq(Rows) \ {<<>>}
         /\ IsFiniteSet(DOMAIN po) /\ DOMAIN po # {}
         /\ \A i \in DOMAIN po : po[i] \in Rows
         /\ Ordered \in [DOMAIN po -> Nat \ {0}]
<1>1. po \in Seq(Rows) \ {<<>>}
  BY LineMatchingAssumption
<1>2. DOMAIN po = 1 .. Len(po) /\ Len(po) \in Int /\ 1 \in Int
  BY <1>1
<1>3. IsFiniteSet(DOMAIN po)
  BY <1>2, FS_Interval
<1>4. \A i \in DOMAIN po : po[i] \in Rows
  BY <1>1
<1>5. DOMAIN po # {}
  <2>1. Len(po) # 0
    BY <1>1
  <2> QED
    BY <1>2, <2>1
<1> QED
  BY <1>1, <1>3, <1>4, <1>5 DEF Ordered, Rows

-----------------------------------------------------------------------------
(* Where a row may be put.                                                   *)

LEMMA ClosestIsOneOf ==
  ASSUME NEW text, NEW keys, NEW order
  PROVE  Closest(text, keys, order) \in keys \cup {Orphan}
<1> DEFINE score(key) == IF text = None \/ TextOf(key) = None THEN 0
                         ELSE Similar[text, TextOf(key)]
           best == {key \in keys :
                      /\ score(key) > 0 /\ score(key) >= Threshold
                      /\ \A other \in keys :
                           \/ score(other) < score(key)
                           \/ score(other) = score(key) /\ order[key] <= order[other]}
<1>1. best \subseteq keys
  OBVIOUS
<1>2. Closest(text, keys, order) = IF best = {} THEN Orphan ELSE CHOOSE key \in best : TRUE
  BY Zenon DEF Closest
<1> HIDE DEF best
<1> QED
  BY <1>1, <1>2

\* A row is put on a line of the PO or nowhere; with a number it is put where the number
\* says, if the PO has that line, else on a line that has no number.
LEMMA PlaceIsOneOf ==
  ASSUME NEW row, NEW rule, NEW order
  PROVE  LET place == Place(row, rule, order)
             meant == Applied(rule, Normal(row.no))
         IN /\ place \in ItemKeys \cup {Orphan}
            /\ row.no # None => place = IF meant \in ItemKeys THEN meant
                                        ELSE IF Threshold = 0 THEN Orphan
                                        ELSE Closest(row.desc, Numberless, order)
            /\ row.no # None /\ Applied(rule, Normal(row.no)) \notin ItemKeys
                 => place \in Numberless \cup {Orphan}
<1>1. Numberless \subseteq ItemKeys
  BY DEF Numberless, ItemKeys
<1>2. /\ Closest(row.desc, Numberless, order) \in Numberless \cup {Orphan}
      /\ Closest(row.desc, ItemKeys, InOrder) \in ItemKeys \cup {Orphan}
  BY ClosestIsOneOf
<1> QED
  BY <1>1, <1>2 DEF Place

\* What the verdict "reconciled" says of a pool: every row is on a line, and every
\* line has got its quantity.
LEMMA ReconciledPool ==
  ASSUME NEW pools, NEW order, Reading(pools, order).status = "reconciled",
         NEW p \in Pools
  PROVE  LET placed == Placed(pools, p, order)
         IN /\ Reading(pools, order).placed[p] = placed
            /\ placed \in [Lines(pools[p]) -> ItemKeys]
            /\ \A key \in ItemKeys : DeliveredAt(key, pools[p], placed) = OrderedAt(key)
<1> DEFINE placed == [q \in Pools |-> Placed(pools, q, order)]
<1>1. Verdict(pools, placed) = "reconciled" /\ Reading(pools, order).placed = placed
  BY DEF Reading
<1>2. /\ \A q \in Pools : Orphan \notin Range(placed[q])
      /\ \A q \in Pools : \A key \in ItemKeys :
           DeliveredAt(key, pools[q], placed[q]) = OrderedAt(key)
  <2> HIDE DEF placed
  <2> QED
    BY <1>1 DEF Verdict
<1>3. placed[p] = Placed(pools, p, order)
  OBVIOUS
<1>4. ASSUME NEW at \in Lines(pools[p])
      PROVE  Placed(pools, p, order)[at] \in ItemKeys
  <2>1. Placed(pools, p, order)[at] = Place(RowAt(pools[p], at), RuleOf(pools, p), order)
    BY DEF Placed
  <2>2. Placed(pools, p, order)[at] \in ItemKeys \cup {Orphan}
    BY <2>1, PlaceIsOneOf
  <2>3. Placed(pools, p, order)[at] \in Range(Placed(pools, p, order))
    BY DEF Placed, Range
  <2> QED
    BY <1>2, <1>3, <2>2, <2>3
<1>5. Placed(pools, p, order) \in [Lines(pools[p]) -> ItemKeys]
  BY <1>4 DEF Placed
<1> QED
  BY <1>1, <1>2, <1>3, <1>5

\* Rows that are on lines of the PO, each line with its quantity, say as much as the PO.
LEMMA LinesAddUp ==
  ASSUME NEW pool, IsFiniteSet(Lines(pool)), Delivered(pool) \in [Lines(pool) -> Nat],
         IsFiniteSet(DOMAIN po), Ordered \in [DOMAIN po -> Nat],
         NEW placed \in [Lines(pool) -> ItemKeys],
         \A key \in ItemKeys : DeliveredAt(key, pool, placed) = OrderedAt(key)
  PROVE  Amount(Delivered(pool), Lines(pool)) = Amount(Ordered, DOMAIN po)
<1> DEFINE asked == [i \in DOMAIN po |-> ItemKey(po[i])]
<1>1. asked \in [DOMAIN po -> ItemKeys]
  BY DEF ItemKeys, Range
<1>2. \A key : At(asked, DOMAIN po, key) = {i \in DOMAIN po : ItemKey(po[i]) = key}
  BY DEF At
<1> HIDE DEF asked
<1>3. Agree(Lines(pool), Delivered(pool), placed, DOMAIN po, Ordered, asked, ItemKeys)
  BY <1>2 DEF Agree, DeliveredAt, OrderedAt, At
<1> QED
  BY <1>1, <1>3, Regrouped

\* A reconciled pool says as much in all as the PO.
LEMMA ReconciledTotal ==
  ASSUME po \in Purchases, NEW pools \in [Pools -> Seq(Deliveries)], NEW order,
         Reading(pools, order).status = "reconciled", NEW p \in Pools
  PROVE  Amount(Delivered(pools[p]), Lines(pools[p])) = Amount(Ordered, DOMAIN po)
<1>1. /\ Placed(pools, p, order) \in [Lines(pools[p]) -> ItemKeys]
      /\ \A key \in ItemKeys :
           DeliveredAt(key, pools[p], Placed(pools, p, order)) = OrderedAt(key)
  BY ReconciledPool
<1>2. IsFiniteSet(Lines(pools[p])) /\ Delivered(pools[p]) \in [Lines(pools[p]) -> Nat]
  BY PoolRows
<1>3. IsFiniteSet(DOMAIN po) /\ Ordered \in [DOMAIN po -> Nat]
  BY PoRows
<1> QED
  BY <1>1, <1>2, <1>3, LinesAddUp

-----------------------------------------------------------------------------
(* The rules that translate line numbers: what _resolve_line_mapping asserts *)
(* of them and its docstring says.                                           *)

\* The four rules exclude each other whenever there is a number on either side, so that
\* the CHOOSE of RuleOf has one rule to choose (`assert len(fits) <= 1`).
THEOREM OneRule ==
  ASSUME NEW poKeys \in SUBSET Keys, NEW keys \in SUBSET Keys,
         poKeys # {}, keys # {},
         NEW r \in Rules, NEW s \in Rules,
         Eligible(r, poKeys, keys), Eligible(s, poKeys, keys)
  PROVE  r = s
<1>1. PICK bought \in poKeys : TRUE
  OBVIOUS
<1>2. PICK shipped \in keys : TRUE
  OBVIOUS
<1>3. /\ ~(Plain(bought) /\ Release(bought))
      /\ ~(Plain(shipped) /\ Release(shipped))
  BY DEF Plain, Release
<1>4. ASSUME NEW q \in Rules, Eligible(q, poKeys, keys)
      PROVE  /\ q \in {"x10", "div10"} => Plain(bought) /\ Plain(shipped)
             /\ q = "add_rel" => Release(bought) /\ Plain(shipped)
             /\ q = "strip_rel" => Plain(bought) /\ Release(shipped)
  BY <1>1, <1>2, <1>4 DEF Eligible, Rules
<1>5. CASE {r, s} \subseteq {"x10", "div10"}
  BY <1>5 DEF Eligible
<1>6. CASE ~({r, s} \subseteq {"x10", "div10"})
  <2>1. /\ r \in {"x10", "div10"} => Plain(bought) /\ Plain(shipped)
        /\ r = "add_rel" => Release(bought) /\ Plain(shipped)
        /\ r = "strip_rel" => Plain(bought) /\ Release(shipped)
    BY <1>4
  <2>2. /\ s \in {"x10", "div10"} => Plain(bought) /\ Plain(shipped)
        /\ s = "add_rel" => Release(bought) /\ Plain(shipped)
        /\ s = "strip_rel" => Plain(bought) /\ Release(shipped)
    BY <1>4
  <2> QED
    BY <1>3, <1>6, <2>1, <2>2 DEF Rules
<1> QED
  BY <1>5, <1>6

\* Division by ten loses nothing of a number that ends in a zero.
LEMMA TensDivide ==
  ASSUME NEW m \in Nat, NEW n \in Nat, m % 10 = 0, n % 10 = 0, m \div 10 = n \div 10
  PROVE  m = n
<1>1. m = 10 * (m \div 10) + (m % 10) /\ n = 10 * (n \div 10) + (n % 10)
  OBVIOUS
<1> QED
  BY <1>1

\* An eligible rule keeps different line numbers of a pool apart: the quantities of two
\* lines are never added up because of a translation.
THEOREM LinesStayApart ==
  ASSUME NEW poKeys \in SUBSET Keys, NEW keys \in SUBSET Keys,
         NEW rule \in Rules, Eligible(rule, poKeys, keys),
         NEW j \in keys, NEW k \in keys, Applied(rule, j) = Applied(rule, k)
  PROVE  j = k
<1>1. j \in Keys /\ k \in Keys
  OBVIOUS
<1>2. j.n \in Nat /\ k.n \in Nat
  BY <1>1 DEF Keys
<1>3. j.kind = k.kind
  BY DEF Eligible, Rules, Plain, Release
<1>4. j.n = k.n
  <2>1. CASE rule = "x10"
    <3>1. Key("plain", j.n * 10) = Key("plain", k.n * 10)
      BY <2>1 DEF Applied
    <3>2. j.n * 10 = k.n * 10
      BY <3>1 DEF Key
    <3> QED
      BY <1>2, <3>2
  <2>2. CASE rule = "div10"
    <3>1. Key("plain", j.n \div 10) = Key("plain", k.n \div 10)
      BY <2>2 DEF Applied
    <3>2. j.n \div 10 = k.n \div 10
      BY <3>1 DEF Key
    <3>3. j.n % 10 = 0 /\ k.n % 10 = 0
      BY <2>2 DEF Eligible, Tens
    <3> QED
      BY <1>2, <3>2, <3>3, TensDivide
  <2>3. CASE rule \in {"add_rel", "strip_rel"}
    <3>1. \/ Key("rel", j.n) = Key("rel", k.n)
          \/ Key("plain", j.n) = Key("plain", k.n)
      BY <2>3 DEF Applied
    <3> QED
      BY <3>1 DEF Key
  <2> QED
    BY <2>1, <2>2, <2>3 DEF Rules
<1> QED
  BY <1>1, <1>3, <1>4 DEF Keys

-----------------------------------------------------------------------------
(* Numberings.                                                               *)

\* Nothing but a least number has no smaller one beside it.
LEMMA NoDescent ==
  ASSUME NEW S \in SUBSET Nat, \A n \in S : \E m \in S : m < n
  PROVE  S = {}
<1> SUFFICES ASSUME S # {}
             PROVE  FALSE
  OBVIOUS
<1>1. PICK n \in S : \A k \in S : n <= k
  BY LeastNumber
<1>2. PICK m \in S : m < n
  OBVIOUS
<1>3. m \in Nat /\ n \in Nat /\ n <= m
  BY <1>1
<1> QED
  BY <1>2, <1>3

\* Finitely many numbers do not contain the multiples of all of them.
LEMMA NoGrowth ==
  ASSUME NEW S \in SUBSET (Nat \ {0}), IsFiniteSet(S), NEW c \in {10, 100},
         \A n \in S : c * n \in S
  PROVE  S = {}
<1> DEFINE f == [n \in S |-> c * n]
<1>1. f \in [S -> S]
  OBVIOUS
<1>2. \A m, n \in S : f[m] = f[n] => m = n
  OBVIOUS
<1>3. f \in Injection(S, S)
  <2> HIDE DEF f
  <2> QED
    BY <1>1, <1>2 DEF Injection, IsInjective
<1>4. f \in Surjection(S, S)
  <2> HIDE DEF f
  <2> QED
    BY <1>3, FS_Injection
<1>5. \A n \in S : \E m \in S : f[m] = n
  <2> HIDE DEF f
  <2> QED
    BY <1>4 DEF Surjection
<1>6. \A n \in S : \E m \in S : m < n
  <2> SUFFICES ASSUME NEW n \in S
               PROVE  \E m \in S : m < n
    OBVIOUS
  <2>1. PICK m \in S : f[m] = n
    BY <1>5
  <2>2. c * m = n /\ m \in Nat \ {0}
    BY <2>1
  <2> QED
    BY <2>2
<1> QED
  BY <1>6, NoDescent

\* What the numbers of a vendor who numbers lines by s look like.
Usable(s, keys) ==
  /\ s \in {"x10", "div10", "add_rel"} => \A key \in keys : Plain(key)
  /\ s = "div10" => \A key \in keys : Tens(key)
  /\ s = "strip_rel" => \A key \in keys : Release(key)

Numberings == Rules \cup {AsPrinted}

\* A usable numbering makes keys of keys, of a kind that it alone decides.
LEMMA AppliedKey ==
  ASSUME NEW keys \in SUBSET Keys, NEW s \in Numberings, Usable(s, keys), NEW key \in keys
  PROVE  /\ Applied(s, key) \in Keys
         /\ s \in {"x10", "div10", "strip_rel"} => Applied(s, key).kind = "plain"
         /\ s = "add_rel" => Applied(s, key).kind = "rel"
         /\ s = "x10" => Applied(s, key).n = key.n * 10
         /\ s = "div10" => key.n = Applied(s, key).n * 10
         /\ s = AsPrinted => Applied(s, key) = key
<1>1. key.n \in Nat \ {0} /\ key.kind \in {"plain", "rel", "other"} /\ key \in Keys
  BY DEF Keys
<1>2. CASE s = "x10"
  <2>1. Applied(s, key) = [kind |-> "plain", n |-> key.n * 10]
    BY <1>2 DEF Applied, Key, AsPrinted
  <2> QED
    BY <1>1, <1>2, <2>1 DEF Keys, AsPrinted
<1>3. CASE s = "div10"
  <2>1. Applied(s, key) = [kind |-> "plain", n |-> key.n \div 10]
    BY <1>3 DEF Applied, Key, AsPrinted
  <2>2. key.n % 10 = 0
    BY <1>3 DEF Usable, Tens
  <2>3. key.n = 10 * (key.n \div 10) /\ key.n \div 10 \in Nat \ {0}
    BY <1>1, <2>2
  <2> QED
    BY <1>3, <2>1, <2>3 DEF Keys, AsPrinted
<1>4. CASE s = "add_rel"
  <2>1. Applied(s, key) = [kind |-> "rel", n |-> key.n]
    BY <1>4 DEF Applied, Key, AsPrinted
  <2> QED
    BY <1>1, <1>4, <2>1 DEF Keys, AsPrinted
<1>5. CASE s = "strip_rel"
  <2>1. Applied(s, key) = [kind |-> "plain", n |-> key.n]
    BY <1>5 DEF Applied, Key, AsPrinted
  <2> QED
    BY <1>1, <1>5, <2>1 DEF Keys, AsPrinted
<1>6. CASE s = AsPrinted
  <2>1. Applied(s, key) = key
    BY <1>6 DEF Applied, AsPrinted
  <2> QED
    BY <1>1, <1>6, <2>1 DEF AsPrinted
<1> QED
  BY <1>2, <1>3, <1>4, <1>5, <1>6 DEF Numberings, Rules

\* Of the lines of one PO and the numbers of one pool at most one numbering makes the
\* PO's lines, all of them and nothing else: two usable ones are the same, unless the
\* numbers fit as printed.
LEMMA OneNumbering ==
  ASSUME NEW keys \in SUBSET Keys, keys # {}, IsFiniteSet(keys), NEW lines \in SUBSET Keys,
         NEW r \in Numberings, Usable(r, keys), NEW s \in Numberings, Usable(s, keys),
         \A key \in keys : Applied(s, key) \in lines,
         \A line \in lines : \E key \in keys : line = Applied(r, key),
         r # AsPrinted => ~(keys \subseteq lines)
  PROVE  r = s
<1> SUFFICES ASSUME r # s
             PROVE  FALSE
  OBVIOUS
<1> DEFINE S == {key.n : key \in keys}
           of == [key \in keys |-> key.n]
<1>1. S \in SUBSET (Nat \ {0}) /\ S # {}
  BY DEF Keys
<1>2. IsFiniteSet(S)
  <2>1. of \in Surjection(keys, S)
    BY DEF Surjection
  <2> QED
    BY <2>1, FS_Surjection
<1>3. \A key \in keys : \E k \in keys : Applied(s, key) = Applied(r, k)
  OBVIOUS
<1>4. PICK some \in keys : TRUE
  OBVIOUS
<1>5. PICK other \in keys : Applied(s, some) = Applied(r, other)
  BY <1>3
<1>6. s # AsPrinted
  <2> SUFFICES ASSUME s = AsPrinted
               PROVE  FALSE
    OBVIOUS
  <2>1. \A key \in keys : Applied(s, key) = key
    BY AppliedKey
  <2> QED
    BY <2>1
<1>7. s \in {"x10", "div10"} /\ r \in {"x10", "div10", AsPrinted}
  <2>1. /\ s \in {"x10", "div10", "strip_rel"} => Applied(s, some).kind = "plain"
        /\ s = "add_rel" => Applied(s, some).kind = "rel"
    BY AppliedKey
  <2>2. /\ r \in {"x10", "div10", "strip_rel"} => Applied(s, some).kind = "plain"
        /\ r = "add_rel" => Applied(s, some).kind = "rel"
        /\ r = AsPrinted => Applied(s, some).kind = other.kind
    BY <1>5, AppliedKey
  <2>3. /\ s \in {"x10", "div10", "add_rel"} => some.kind = "plain" /\ other.kind = "plain"
        /\ s = "strip_rel" => some.kind = "rel" /\ other.kind = "rel"
        /\ r \in {"x10", "div10", "add_rel"} => some.kind = "plain" /\ other.kind = "plain"
        /\ r = "strip_rel" => some.kind = "rel" /\ other.kind = "rel"
    BY DEF Usable, Plain, Release
  <2> QED
    BY <1>6, <2>1, <2>2, <2>3 DEF Numberings, Rules
<1>8. \A key \in keys : /\ s = "x10" => Applied(s, key).n = key.n * 10
                        /\ s = "div10" => key.n = Applied(s, key).n * 10
  BY AppliedKey
<1>9. \A key \in keys : /\ r = "x10" => Applied(r, key).n = key.n * 10
                        /\ r = "div10" => key.n = Applied(r, key).n * 10
                        /\ r = AsPrinted => Applied(r, key).n = key.n
  BY AppliedKey
<1>10. CASE s = "x10"
  <2>1. \E c \in {10, 100} : \A n \in S : c * n \in S
    <3>1. ASSUME NEW key \in keys
          PROVE  \E k \in keys : k.n = IF r = AsPrinted THEN 10 * key.n ELSE 100 * key.n
      <4>1. PICK k \in keys : Applied(s, key) = Applied(r, k)
        BY <1>3
      <4>2. Applied(s, key).n = key.n * 10 /\ key.n \in Nat
        BY <1>8, <1>10 DEF Keys
      <4>3. CASE r = AsPrinted
        BY <1>9, <4>1, <4>2, <4>3
      <4>4. CASE r = "div10"
        <5>1. k.n = Applied(r, k).n * 10
          BY <1>9, <4>4
        <5>2. k.n = (key.n * 10) * 10
          BY <4>1, <4>2, <5>1
        <5> QED
          BY <4>2, <4>4, <5>2 DEF AsPrinted
      <4> QED
        BY <1>7, <1>10, <4>3, <4>4
    <3>2. \A n \in S : (IF r = AsPrinted THEN 10 ELSE 100) * n \in S
      BY <3>1
    <3> QED
      BY <3>2
  <2> QED
    BY <1>1, <1>2, <2>1, NoGrowth
<1>11. CASE s = "div10"
  <2>1. ASSUME NEW key \in keys
        PROVE  \E k \in keys : k.n < key.n
    <3>1. PICK k \in keys : Applied(s, key) = Applied(r, k)
      BY <1>3
    <3>2. key.n = Applied(s, key).n * 10 /\ k.n \in Nat \ {0}
      BY <1>8, <1>11 DEF Keys
    <3>3. CASE r = AsPrinted
      BY <1>9, <3>1, <3>2, <3>3
    <3>4. CASE r = "x10"
      BY <1>9, <3>1, <3>2, <3>4
    <3> QED
      BY <1>7, <1>11, <3>3, <3>4
  <2>2. \A n \in S : \E m \in S : m < n
    BY <2>1
  <2>3. S \in SUBSET Nat
    BY <1>1
  <2> QED
    BY <1>1, <2>2, <2>3, NoDescent
<1> QED
  BY <1>7, <1>10, <1>11

-----------------------------------------------------------------------------
(* The numbers of a PO and of a pool.                                        *)

\* A printed number has a key; a row that has none stands for None.
LEMMA NumberKeys ==
  ASSUME NEW row \in Rows
  PROVE  /\ row.no = None <=> Normal(row.no) = None
         /\ row.no # None => Normal(row.no) \in Keys /\ Normal(row.no) = Key(row.no.kind, row.no.n)
         /\ Normal(row.no) \in Keys \cup {None}
BY LineMatchingAssumption DEF Rows, Printed, Normal, Key, Keys

\* The keys of a pool are those of its rows.
LEMMA PoolKeysAre ==
  ASSUME NEW pool \in Seq(Deliveries)
  PROVE  /\ PoolKeys(pool) = {Normal(RowAt(pool, at).no) : at \in Lines(pool)}
         /\ PoolKeys(pool) \in SUBSET (Keys \cup {None})
         /\ IsFiniteSet(PoolKeys(pool))
         /\ pool # <<>> => PoolKeys(pool) # {}
<1> DEFINE K == {Normal(RowAt(pool, at).no) : at \in Lines(pool)}
           of == [at \in Lines(pool) |-> Normal(RowAt(pool, at).no)]
<1>1. PoolKeys(pool) \subseteq K
  <2> SUFFICES ASSUME NEW d \in DOMAIN pool, NEW i \in DOMAIN pool[d]
               PROVE  Normal(pool[d][i].no) \in K
    BY DEF PoolKeys, KeysOf, Range
  <2>1. <<d, i>> \in Lines(pool)
    BY DEF Lines
  <2>2. RowAt(pool, <<d, i>>) = pool[d][i]
    BY DEF RowAt
  <2> QED
    BY <2>1, <2>2
<1>2. K \subseteq PoolKeys(pool)
  <2> SUFFICES ASSUME NEW at \in Lines(pool)
               PROVE  Normal(RowAt(pool, at).no) \in PoolKeys(pool)
    OBVIOUS
  <2>1. at[1] \in DOMAIN pool /\ at[2] \in DOMAIN pool[at[1]]
    BY PoolRows
  <2>2. Normal(RowAt(pool, at).no) \in KeysOf(Range(pool[at[1]]))
    BY <2>1 DEF KeysOf, Range, RowAt
  <2> QED
    BY <2>1, <2>2 DEF PoolKeys
<1>3. PoolKeys(pool) = K
  BY <1>1, <1>2
<1>4. K \in SUBSET (Keys \cup {None})
  BY PoolRows, NumberKeys
<1>5. IsFiniteSet(K)
  <2>1. of \in Surjection(Lines(pool), K)
    BY DEF Surjection
  <2>2. IsFiniteSet(Lines(pool))
    BY PoolRows
  <2> HIDE DEF of, K
  <2> QED
    BY <2>1, <2>2, FS_Surjection
<1>6. ASSUME pool # <<>>
      PROVE  K # {}
  <2>1. Len(pool) # 0 /\ DOMAIN pool = 1 .. Len(pool) /\ Len(pool) \in Nat
    BY <1>6
  <2>2. 1 \in DOMAIN pool
    BY <2>1
  <2>3. pool[1] \in Seq(Rows) /\ pool[1] # <<>>
    BY <2>2, PoolRows
  <2>4. Len(pool[1]) # 0 /\ DOMAIN pool[1] = 1 .. Len(pool[1]) /\ Len(pool[1]) \in Nat
    BY <2>3
  <2>5. 1 \in DOMAIN pool[1]
    BY <2>4
  <2>6. <<1, 1>> \in Lines(pool)
    BY <2>2, <2>5 DEF Lines
  <2> QED
    BY <2>6
<1> QED
  BY <1>3, <1>4, <1>5, <1>6

\* A number is a line of the PO when it is printed on one.
LEMMA NumberedLines ==
  ASSUME po \in Purchases, None \notin ItemKeys, NEW key \in Keys
  PROVE  /\ key \in ItemKeys <=> key \in PoKeys
         /\ key \notin Numberless \cup {Orphan}
<1>1. \A row \in Range(po) : row \in Rows
  BY PoRows DEF Range
<1>2. key.kind \in {"plain", "rel", "other"}
  BY DEF Keys
<1>3. key \notin Numberless \cup {Orphan}
  BY <1>2 DEF Numberless, ItemKey, Orphan, Key
<1>4. ASSUME NEW row \in Range(po)
      PROVE  /\ row.no # None => ItemKey(row) = Normal(row.no)
             /\ row.no = None => ItemKey(row) # key /\ Normal(row.no) # key
  <2>1. row.no = None => Normal(row.no) = None /\ key # None
    BY LineMatchingAssumption DEF Normal
  <2>2. row.no = None => ItemKey(row) # key
    BY <1>2, LineMatchingAssumption DEF ItemKey, Key
  <2> QED
    BY <2>1, <2>2 DEF ItemKey
<1>5. key \in ItemKeys <=> \E row \in Range(po) : ItemKey(row) = key
  BY DEF ItemKeys
<1>6. key \in PoKeys <=> \E row \in Range(po) : Normal(row.no) = key
  BY DEF PoKeys, KeysOf
<1> QED
  BY <1>3, <1>4, <1>5, <1>6

\* What a pool's rule says of the pool.
LEMMA RuleFits ==
  ASSUME on \in Switches, NEW pools, NEW p \in Pools
  PROVE  LET r == RuleOf(pools, p)
         IN /\ r \in Numberings
            /\ r # AsPrinted =>
                 /\ r \in Rules /\ r \in Fits(PoolKeys(pools[p]))
                 /\ None \notin PoKeys /\ \A q \in Pools : None \notin PoolKeys(pools[q])
                 /\ ~(PoolKeys(pools[p]) \subseteq PoKeys)
                 /\ \A doc \in Range(pools[p]) : ~(KeysOf(Range(doc)) \subseteq PoKeys)
<1> DEFINE fits == Fits(PoolKeys(pools[p]))
           plain == \/ None \in PoKeys \cup PoolKeys(pools["DN"]) \cup PoolKeys(pools["SI"])
                    \/ PoolKeys(pools[p]) \subseteq PoKeys
                    \/ fits = {}
                    \/ \E doc \in Range(pools[p]) : KeysOf(Range(doc)) \subseteq PoKeys
<1>1. RuleOf(pools, p) = IF plain THEN AsPrinted ELSE CHOOSE rule \in fits : TRUE
  BY DEF RuleOf
<1>2. fits \subseteq Rules
  BY LineMatchingAssumption DEF Fits
<1>3. AsPrinted \notin Rules
  BY DEF AsPrinted, Rules
<1>4. CASE plain
  BY <1>1, <1>4 DEF Numberings
<1>5. CASE ~plain
  <2>1. fits # {}
    BY <1>5
  <2>2. RuleOf(pools, p) \in fits
    <3> HIDE DEF fits
    <3> QED
      BY <1>1, <1>5, <2>1
  <2>3. None \notin PoKeys /\ \A q \in Pools : None \notin PoolKeys(pools[q])
    BY <1>5 DEF Pools
  <2> QED
    BY <1>2, <1>3, <1>5, <2>2, <2>3 DEF Numberings
<1> QED
  BY <1>4, <1>5

\* A quantity is nothing exactly when there are no rows.
LEMMA NothingAmounts ==
  ASSUME NEW D, IsFiniteSet(D), NEW q \in [D -> Nat], NEW rows \in SUBSET D
  PROVE  /\ rows = {} => Amount(q, rows) = 0
         /\ (\E row \in rows : q[row] # 0) => Amount(q, rows) # 0
<1>1. IsFiniteSet(Units(q, rows))
  BY UnitsOfSomeFinite
<1>2. rows = {} => Units(q, rows) = {}
  BY DEF Units
<1>3. ASSUME NEW row \in rows, q[row] # 0
      PROVE  Units(q, rows) # {}
  <2>1. q[row] \in Nat \ {0}
    BY <1>3
  <2>2. <<row, 1>> \in {row} \X (1 .. q[row])
    BY <2>1
  <2> QED
    BY <2>2 DEF Units
<1> QED
  BY <1>1, <1>2, <1>3, AmountIs, FS_EmptySet

\* An eligible rule is a usable numbering.
LEMMA EligibleUsable ==
  ASSUME NEW keys, NEW r \in Rules, r \in Fits(keys)
  PROVE  Usable(r, keys) /\ (\A key \in keys : Applied(r, key) \in PoKeys)
BY DEF Fits, Eligible, Usable, Rules

\* Every numbered line of the PO of a reconciled set is what the pool's rule makes of some
\* number of the pool, when all rows of the pool have numbers.
LEMMA LinesAreMade ==
  ASSUME po \in Purchases, NEW pools \in [Pools -> Seq(Deliveries)], NEW order,
         Reading(pools, order).status = "reconciled", None \notin ItemKeys, NEW p \in Pools,
         \A at \in Lines(pools[p]) : RowAt(pools[p], at).no # None,
         NEW line \in ItemKeys, line \in Keys
  PROVE  \E key \in PoolKeys(pools[p]) : line = Applied(RuleOf(pools, p), key)
<1> DEFINE pool == pools[p]
           placed == Placed(pools, p, order)
           there == {at \in Lines(pool) : placed[at] = line}
<1>1. /\ placed \in [Lines(pool) -> ItemKeys]
      /\ Amount(Delivered(pool), there) = OrderedAt(line)
  <2>1. placed \in [Lines(pool) -> ItemKeys] /\ DeliveredAt(line, pool, placed) = OrderedAt(line)
    BY ReconciledPool
  <2> QED
    BY <2>1 DEF DeliveredAt
<1>2. OrderedAt(line) # 0
  <2> DEFINE rows == {i \in DOMAIN po : ItemKey(po[i]) = line}
  <2>1. PICK i \in DOMAIN po : ItemKey(po[i]) = line
    BY DEF ItemKeys, Range
  <2>2. i \in rows /\ rows \in SUBSET DOMAIN po
    BY <2>1
  <2>3. /\ IsFiniteSet(DOMAIN po) /\ Ordered \in [DOMAIN po -> Nat] /\ Ordered[i] # 0
    BY PoRows
  <2> HIDE DEF rows
  <2>4. Amount(Ordered, rows) # 0
    BY <2>2, <2>3, NothingAmounts
  <2> QED
    BY <2>4 DEF OrderedAt, rows
<1>3. there # {}
  <2>1. /\ IsFiniteSet(Lines(pool)) /\ Delivered(pool) \in [Lines(pool) -> Nat]
        /\ there \in SUBSET Lines(pool)
    BY PoolRows
  <2> HIDE DEF there, pool
  <2> QED
    BY <1>1, <1>2, <2>1, NothingAmounts
<1>4. PICK at \in Lines(pool) : placed[at] = line
  BY <1>3
<1>5. placed[at] = Place(RowAt(pool, at), RuleOf(pools, p), order)
  BY DEF Placed
<1>6. line \notin Numberless \cup {Orphan}
  BY NumberedLines
<1>7. line = Applied(RuleOf(pools, p), Normal(RowAt(pool, at).no))
  BY <1>4, <1>5, <1>6, PlaceIsOneOf
<1>8. Normal(RowAt(pool, at).no) \in PoolKeys(pool)
  BY PoolKeysAre
<1> QED
  BY <1>7, <1>8

\* If a numbering makes every row of a reconciled pool a line of the PO, the rows have
\* been put on these lines.
LEMMA RightPlaces ==
  ASSUME po \in Purchases, on \in Switches, NEW pools \in [Pools -> Seq(Deliveries)],
         NEW order, Reading(pools, order).status = "reconciled",
         NEW p \in Pools, pools[p] # <<>>, NEW s \in Numberings,
         \A at \in Lines(pools[p]) : /\ Meant(RowAt(pools[p], at), s) # None
                                     /\ Meant(RowAt(pools[p], at), s) \in ItemKeys,
         NEW at \in Lines(pools[p])
  PROVE  Placed(pools, p, order)[at] = Meant(RowAt(pools[p], at), s)
<1> DEFINE pool == pools[p]
           keys == PoolKeys(pool)
           lines == ItemKeys \cap Keys
           r == RuleOf(pools, p)
<1>1. None \notin ItemKeys
  <2>1. Verdict(pools, [q \in Pools |-> Placed(pools, q, order)]) = "reconciled"
    BY DEF Reading
  <2> QED
    BY <2>1 DEF Verdict
<1>2. \A row : Meant(row, s) # None =>
        /\ row.no # None
        /\ Meant(row, s) = Applied(s, Normal(row.no))
        /\ s \in {"x10", "div10", "add_rel"} => Plain(row.no)
        /\ s = "div10" => Tens(row.no)
        /\ s = "strip_rel" => Release(row.no)
  BY DEF Meant
<1>3. \A x \in Lines(pool) : RowAt(pool, x) \in Rows /\ RowAt(pool, x).no # None
  BY <1>2, PoolRows
<1>4. keys = {Normal(RowAt(pool, x).no) : x \in Lines(pool)}
  BY PoolKeysAre
<1>5. /\ keys \in SUBSET Keys /\ keys # {} /\ IsFiniteSet(keys)
  BY <1>3, <1>4, NumberKeys, PoolKeysAre
<1>6. Usable(s, keys)
  <2> SUFFICES ASSUME NEW x \in Lines(pool)
               PROVE  LET key == Normal(RowAt(pool, x).no) IN
                      /\ s \in {"x10", "div10", "add_rel"} => Plain(key)
                      /\ s = "div10" => Tens(key)
                      /\ s = "strip_rel" => Release(key)
    BY <1>4 DEF Usable
  <2>1. Normal(RowAt(pool, x).no) = Key(RowAt(pool, x).no.kind, RowAt(pool, x).no.n)
    BY <1>3, NumberKeys
  <2> QED
    BY <1>2, <2>1 DEF Key, Plain, Tens, Release
<1>7. \A key \in keys : Applied(s, key) \in lines
  <2> SUFFICES ASSUME NEW x \in Lines(pool)
               PROVE  Applied(s, Normal(RowAt(pool, x).no)) \in lines
    BY <1>4
  <2>1. Applied(s, Normal(RowAt(pool, x).no)) \in ItemKeys
    BY <1>2
  <2>2. Applied(s, Normal(RowAt(pool, x).no)) \in Keys
    <3>1. Normal(RowAt(pool, x).no) \in keys
      BY <1>4
    <3> HIDE DEF keys
    <3> QED
      BY <1>5, <1>6, <3>1, AppliedKey
  <2> QED
    BY <2>1, <2>2
<1>8. \A line \in lines : \E key \in keys : line = Applied(r, key)
  BY <1>1, <1>3, LinesAreMade
<1>9. r \in Numberings /\ Usable(r, keys) /\ (r # AsPrinted => ~(keys \subseteq lines))
  <2>1. r \in Numberings
    BY RuleFits
  <2>2. CASE r = AsPrinted
    BY <2>1, <2>2 DEF Usable, AsPrinted
  <2>3. CASE r # AsPrinted
    <3>1. r \in Rules /\ r \in Fits(keys) /\ ~(keys \subseteq PoKeys)
      BY <2>3, RuleFits
    <3>2. Usable(r, keys)
      BY <3>1, EligibleUsable
    <3>3. lines \subseteq PoKeys
      BY <1>1, NumberedLines
    <3> QED
      BY <2>1, <3>1, <3>2, <3>3
  <2> QED
    BY <2>2, <2>3
<1>10. r = s
  <2>1. lines \in SUBSET Keys
    OBVIOUS
  <2> HIDE DEF lines, keys, r
  <2> QED
    BY <1>5, <1>6, <1>7, <1>8, <1>9, <2>1, OneNumbering
<1>11. Placed(pools, p, order)[at] = Place(RowAt(pool, at), r, order)
  BY DEF Placed
<1> QED
  BY <1>2, <1>10, <1>11, PlaceIsOneOf

-----------------------------------------------------------------------------
(* Documents that come later.                                                *)

\* The documents of each pool are the first ones of the pool in `later`.
Earlier(pools, later) ==
  \A p \in Pools : /\ Len(pools[p]) <= Len(later[p])
                   /\ \A d \in DOMAIN pools[p] : pools[p][d] = later[p][d]

\* Their rows and numbers are still there.
LEMMA RowsRemain ==
  ASSUME NEW pools \in [Pools -> Seq(Deliveries)], NEW later \in [Pools -> Seq(Deliveries)],
         Earlier(pools, later), NEW p \in Pools
  PROVE  /\ \A at \in Lines(pools[p]) : /\ at \in Lines(later[p])
                                        /\ RowAt(later[p], at) = RowAt(pools[p], at)
         /\ Range(pools[p]) \subseteq Range(later[p])
         /\ PoolKeys(pools[p]) \subseteq PoolKeys(later[p])
<1> DEFINE pool == pools[p]
           grown == later[p]
<1>1. /\ pool \in Seq(Deliveries) /\ grown \in Seq(Deliveries)
      /\ Len(pool) <= Len(grown) /\ \A d \in DOMAIN pool : pool[d] = grown[d]
  BY DEF Earlier
<1> HIDE DEF pool, grown
<1>2. \A d \in DOMAIN pool : d \in DOMAIN grown /\ pool[d] = grown[d]
  BY <1>1
<1>3. ASSUME NEW at \in Lines(pool)
      PROVE  at \in Lines(grown) /\ RowAt(grown, at) = RowAt(pool, at)
  <2>1. PICK d \in DOMAIN pool : at \in {d} \X DOMAIN pool[d]
    BY DEF Lines
  <2>2. d \in DOMAIN grown /\ grown[d] = pool[d] /\ at[1] = d
    BY <1>2, <2>1
  <2>3. at \in {d} \X DOMAIN grown[d]
    BY <2>1, <2>2
  <2> QED
    BY <2>2, <2>3 DEF Lines, RowAt
<1>4. Range(pool) \subseteq Range(grown)
  BY <1>2 DEF Range
<1>5. PoolKeys(pool) \subseteq PoolKeys(grown)
  BY <1>2 DEF PoolKeys
<1> QED
  BY <1>3, <1>4, <1>5 DEF pool, grown

\* A rule that makes all numbers fit makes some of them fit.
LEMMA FitsFewer ==
  ASSUME NEW some, NEW keys, some \subseteq keys
  PROVE  Fits(keys) \subseteq Fits(some)
BY DEF Fits, Eligible

\* A number that no line of the PO has keeps its row off the lines, when all lines have
\* numbers and the numbers are taken as printed.
LEMMA StrayRow ==
  ASSUME po \in Purchases, None \notin ItemKeys, None \notin PoKeys, NEW row, NEW order,
         Normal(row.no) \in Keys, Normal(row.no) \notin PoKeys
  PROVE  Place(row, AsPrinted, order) = Orphan
<1>1. \A line \in Range(po) : line.no # None
  BY DEF PoKeys, KeysOf, Normal
<1>2. Numberless = {}
  BY <1>1 DEF Numberless
<1>3. Applied(AsPrinted, Normal(row.no)) = Normal(row.no)
  BY DEF Applied, AsPrinted
<1>4. Normal(row.no) \notin ItemKeys
  BY NumberedLines
<1>5. row.no # None
  BY LineMatchingAssumption DEF Normal
<1> QED
  BY <1>2, <1>3, <1>4, <1>5, PlaceIsOneOf

\* A pool that was mapped is mapped by the same rule when documents come later, and one that
\* was not is not, unless a row has no place any more.
LEMMA RuleRemains ==
  ASSUME po \in Purchases, on \in Switches,
         NEW pools \in [Pools -> Seq(Deliveries)], NEW later \in [Pools -> Seq(Deliveries)],
         Earlier(pools, later), NEW order, NEW p \in Pools, pools[p] # <<>>,
         None \notin ItemKeys, Orphan \notin Range(Placed(later, p, order))
  PROVE  RuleOf(pools, p) = RuleOf(later, p)
<1> DEFINE r == RuleOf(pools, p)
           s == RuleOf(later, p)
           keys == PoolKeys(pools[p])
           grown == PoolKeys(later[p])
<1>1. /\ r \in Rules \cup {AsPrinted}
      /\ r # AsPrinted =>
           /\ r \in Fits(keys) /\ None \notin PoKeys /\ None \notin keys /\ ~(keys \subseteq PoKeys)
  BY RuleFits DEF Numberings
<1>2. /\ s \in Rules \cup {AsPrinted}
      /\ s # AsPrinted =>
           /\ s \in Fits(grown)
           /\ None \notin PoKeys /\ \A q \in Pools : None \notin PoolKeys(later[q])
           /\ \A doc \in Range(later[p]) : ~(KeysOf(Range(doc)) \subseteq PoKeys)
  BY RuleFits DEF Numberings
<1>3. keys \subseteq grown /\ keys \in SUBSET (Keys \cup {None}) /\ keys # {}
  BY RowsRemain, PoolKeysAre
<1>4. ASSUME r # AsPrinted, s # AsPrinted
      PROVE  r = s
  <2>1. s \in Fits(keys)
    BY <1>2, <1>3, <1>4, FitsFewer
  <2>2. Eligible(r, PoKeys, keys) /\ Eligible(s, PoKeys, keys)
    BY <1>1, <1>4, <2>1 DEF Fits
  <2>3. PoKeys \in SUBSET Keys /\ PoKeys # {}
    <3>1. \A i \in DOMAIN po : po[i] \in Rows /\ Normal(po[i].no) \in Keys \cup {None}
      BY PoRows, NumberKeys
    <3>2. PoKeys = {Normal(po[i].no) : i \in DOMAIN po} /\ DOMAIN po # {}
      BY PoRows DEF PoKeys, KeysOf, Range
    <3> QED
      BY <1>1, <1>4, <3>1, <3>2
  <2>4. keys \in SUBSET Keys
    BY <1>1, <1>3, <1>4
  <2> HIDE DEF r, s, keys
  <2> QED
    BY <1>1, <1>2, <1>3, <1>4, <2>2, <2>3, <2>4, OneRule
<1>5. ASSUME r = AsPrinted, s # AsPrinted
      PROVE  FALSE
  <2>1. s \in Fits(keys)
    BY <1>2, <1>3, <1>5, FitsFewer
  <2>2. None \notin PoKeys \cup PoolKeys(pools["DN"]) \cup PoolKeys(pools["SI"])
    <3>1. PoolKeys(pools["DN"]) \subseteq PoolKeys(later["DN"])
      BY RowsRemain DEF Pools
    <3>2. PoolKeys(pools["SI"]) \subseteq PoolKeys(later["SI"])
      BY RowsRemain DEF Pools
    <3>3. None \notin PoKeys /\ None \notin PoolKeys(later["DN"]) /\ None \notin PoolKeys(later["SI"])
      BY <1>2, <1>5 DEF Pools
    <3> QED
      BY <3>1, <3>2, <3>3
  <2>3. s \in Rules /\ AsPrinted \notin Rules
    BY <1>2, <1>5 DEF Rules, AsPrinted
  <2>4. \A doc \in Range(pools[p]) : ~(KeysOf(Range(doc)) \subseteq PoKeys)
    BY <1>2, <1>5, RowsRemain
  <2>5. ~(keys \subseteq PoKeys)
    <3>1. pools[p] \in Seq(Deliveries)
      OBVIOUS
    <3>2. pools[p][1] \in Range(pools[p]) /\ 1 \in DOMAIN pools[p]
      BY <3>1 DEF Range
    <3>3. KeysOf(Range(pools[p][1])) \subseteq keys
      BY <3>2 DEF PoolKeys
    <3> QED
      BY <2>4, <3>2, <3>3
  <2>6. r = CHOOSE rule \in Fits(keys) : TRUE
    BY <2>1, <2>2, <2>4, <2>5 DEF RuleOf
  <2>7. r \in Fits(keys) /\ Fits(keys) \subseteq Rules
    <3>1. Fits(keys) \subseteq Rules
      BY LineMatchingAssumption DEF Fits
    <3> HIDE DEF r, keys
    <3> QED
      BY <2>1, <2>6, <3>1
  <2> QED
    BY <1>5, <2>3, <2>7
<1>6. ASSUME r # AsPrinted, s = AsPrinted
      PROVE  FALSE
  <2>1. PICK key \in keys : key \notin PoKeys
    BY <1>1, <1>6
  <2>2. key \in Keys
    BY <1>1, <1>3, <1>6
  <2>3. PICK at \in Lines(pools[p]) : key = Normal(RowAt(pools[p], at).no)
    BY PoolKeysAre
  <2>4. at \in Lines(later[p]) /\ RowAt(later[p], at) = RowAt(pools[p], at)
    BY RowsRemain
  <2>5. Placed(later, p, order)[at] = Place(RowAt(later[p], at), AsPrinted, order)
    BY <1>6, <2>4 DEF Placed
  <2>6. Placed(later, p, order)[at] = Orphan
    BY <1>1, <1>6, <2>1, <2>2, <2>3, <2>4, <2>5, StrayRow
  <2>7. Placed(later, p, order)[at] \in Range(Placed(later, p, order))
    BY <2>4 DEF Placed, Range
  <2> QED
    BY <2>6, <2>7
<1> QED
  BY <1>1, <1>2, <1>4, <1>5, <1>6

\* A line without a number has the key of a description.
LEMMA NumberlessKind ==
  ASSUME NEW key \in Numberless
  PROVE  key.kind = "desc"
BY DEF Numberless, ItemKey, Key

\* What may become of the place of a numbered row.
Stays(old, new) == Orphan \in {old, new} \/ (old.kind = "desc" /\ new.kind = "desc") \/ old = new

\* A numbered row stays where it was, or is guessed by its text both times, or has no place,
\* or the set is quarantined.
LEMMA StablePlaces ==
  ASSUME po \in Purchases, on \in Switches,
         NEW pools \in [Pools -> Seq(Deliveries)], NEW later \in [Pools -> Seq(Deliveries)],
         Earlier(pools, later), NEW before, NEW after, NEW p \in Pools, pools[p] # <<>>,
         NEW at \in Lines(pools[p]), RowAt(pools[p], at).no # None
  PROVE  \/ Reading(later, after).status = "quarantined"
         \/ Stays(Placed(pools, p, before)[at], Placed(later, p, after)[at])
<1> DEFINE old == Placed(pools, p, before)[at]
           new == Placed(later, p, after)[at]
           row == RowAt(pools[p], at)
           rule == RuleOf(pools, p)
<1> SUFFICES ASSUME Reading(later, after).status # "quarantined"
             PROVE  Stays(old, new)
  OBVIOUS
<1>1. None \notin ItemKeys /\ Orphan \notin Range(Placed(later, p, after))
  <2> DEFINE placed == [q \in Pools |-> Placed(later, q, after)]
  <2>1. Verdict(later, placed) # "quarantined"
    BY DEF Reading
  <2>2. placed[p] = Placed(later, p, after)
    OBVIOUS
  <2> HIDE DEF placed
  <2> QED
    BY <2>1, <2>2 DEF Verdict
<1>2. RuleOf(later, p) = rule
  BY <1>1, RuleRemains
<1>3. at \in Lines(later[p]) /\ RowAt(later[p], at) = row
  BY RowsRemain
<1>4. old = Place(row, rule, before) /\ new = Place(row, rule, after)
  BY <1>2, <1>3 DEF Placed
<1>5. CASE Applied(rule, Normal(row.no)) \in ItemKeys
  BY <1>4, <1>5, PlaceIsOneOf DEF Stays
<1>6. CASE Applied(rule, Normal(row.no)) \notin ItemKeys
  <2>1. old \in Numberless \cup {Orphan} /\ new \in Numberless \cup {Orphan}
    BY <1>4, <1>6, PlaceIsOneOf
  <2> QED
    BY <2>1, NumberlessKind DEF Stays
<1> QED
  BY <1>5, <1>6

-----------------------------------------------------------------------------
(* Every reading is one of documents that were there.                        *)

PoolsOf == [Pools -> Seq(Deliveries)]

LInv ==
  /\ po \in Purchases /\ docs \in PoolsOf /\ on \in Switches
  /\ \/ last = Unread
     \/ \E pools \in PoolsOf, order \in Bijection(Numberless, 1 .. Cardinality(Numberless)) :
          /\ \A p \in Pools : pools[p] # <<>>
          /\ Earlier(pools, docs)
          /\ last = Reading(pools, order)

\* A reading depends on the PO, the switches and the documents alone.
LEMMA SameReading ==
  ASSUME po' = po, on' = on
  PROVE  /\ Numberless' = Numberless
         /\ \A pools, order : Reading(pools, order)' = Reading(pools, order)
<1>1. Numberless' = Numberless /\ ItemKeys' = ItemKeys /\ PoKeys' = PoKeys
  BY DEF Numberless, ItemKeys, PoKeys
<1>2. \A key : FirstOf(key)' = FirstOf(key)
  BY DEF FirstOf
<1>3. \A key : TextOf(key)' = TextOf(key)
  BY <1>2 DEF TextOf
<1>4. InOrder' = InOrder
  BY <1>1, <1>2 DEF InOrder
<1>5. \A text, keys, order : Closest(text, keys, order)' = Closest(text, keys, order)
  <2> SUFFICES ASSUME NEW text, NEW keys, NEW order
               PROVE  Closest(text, keys, order)' = Closest(text, keys, order)
    OBVIOUS
  <2> DEFINE score(key) == IF text = None \/ TextOf(key) = None THEN 0
                           ELSE Similar[text, TextOf(key)]
             best == {key \in keys :
                        /\ score(key) > 0 /\ score(key) >= Threshold
                        /\ \A other \in keys :
                             \/ score(other) < score(key)
                             \/ score(other) = score(key) /\ order[key] <= order[other]}
  <2>1. \A key : score(key)' = score(key)
    BY <1>3, Zenon
  <2> HIDE DEF score
  <2>2. best' = best
    BY <2>1
  <2> HIDE DEF best
  <2>3. /\ Closest(text, keys, order) = IF best = {} THEN Orphan ELSE CHOOSE key \in best : TRUE
        /\ Closest(text, keys, order)' = IF best' = {} THEN Orphan ELSE CHOOSE key \in best' : TRUE
    BY Zenon DEF Closest, best, score
  <2> QED
    BY <2>2, <2>3
<1>6. \A keys : Fits(keys)' = Fits(keys)
  BY <1>1 DEF Fits
<1>7. \A pools, p : RuleOf(pools, p)' = RuleOf(pools, p)
  <2> SUFFICES ASSUME NEW pools, NEW p
               PROVE  RuleOf(pools, p)' = RuleOf(pools, p)
    OBVIOUS
  <2> DEFINE fits == Fits(PoolKeys(pools[p]))
             plain == \/ None \in PoKeys \cup PoolKeys(pools["DN"]) \cup PoolKeys(pools["SI"])
                      \/ PoolKeys(pools[p]) \subseteq PoKeys
                      \/ fits = {}
                      \/ \E doc \in Range(pools[p]) : KeysOf(Range(doc)) \subseteq PoKeys
  <2>1. fits' = fits
    BY <1>6
  <2> HIDE DEF fits
  <2>2. plain' <=> plain
    BY <1>1, <2>1
  <2> HIDE DEF plain
  <2>3. /\ RuleOf(pools, p) = IF plain THEN AsPrinted ELSE CHOOSE rule \in fits : TRUE
        /\ RuleOf(pools, p)' = IF plain' THEN AsPrinted ELSE CHOOSE rule \in fits' : TRUE
    BY DEF RuleOf, plain, fits
  <2> QED
    BY <2>1, <2>2, <2>3
<1>8. \A row, rule, order : Place(row, rule, order)' = Place(row, rule, order)
  BY <1>1, <1>4, <1>5 DEF Place
<1>9. \A pools, p, order : Placed(pools, p, order)' = Placed(pools, p, order)
  BY <1>7, <1>8 DEF Placed
<1>10. Ordered' = Ordered
  BY DEF Ordered
<1>11. \A key : OrderedAt(key)' = OrderedAt(key)
  BY <1>10 DEF OrderedAt
<1>12. \A pools, placed : Verdict(pools, placed)' = Verdict(pools, placed)
  BY <1>1, <1>11 DEF Verdict
<1> QED
  BY <1>1, <1>7, <1>9, <1>12 DEF Reading

LEMMA LInvInit == MatchingInit => LInv
<1> SUFFICES ASSUME MatchingInit
             PROVE  LInv
  OBVIOUS
<1>1. [p \in Pools |-> <<>>] \in PoolsOf
  BY DEF PoolsOf
<1> QED
  BY <1>1 DEF MatchingInit, LInv

LEMMA DocumentsGrow ==
  ASSUME docs \in PoolsOf, NEW p \in Pools, NEW doc \in Deliveries, Deliver(p, doc)
  PROVE  docs' \in PoolsOf /\ \A pools \in PoolsOf : Earlier(pools, docs) => Earlier(pools, docs')
<1>1. docs' = [docs EXCEPT ![p] = Append(@, doc)]
  BY DEF Deliver
<1>2. docs' \in PoolsOf
  BY <1>1 DEF PoolsOf
<1>3. ASSUME NEW q \in Pools
      PROVE  /\ docs[q] \in Seq(Deliveries) /\ docs'[q] \in Seq(Deliveries)
             /\ Len(docs[q]) <= Len(docs'[q])
             /\ \A d \in DOMAIN docs[q] : docs[q][d] = docs'[q][d]
  BY <1>1 DEF PoolsOf
<1>4. ASSUME NEW pools \in PoolsOf, Earlier(pools, docs), NEW q \in Pools
      PROVE  /\ Len(pools[q]) <= Len(docs'[q])
             /\ \A d \in DOMAIN pools[q] : pools[q][d] = docs'[q][d]
  <2>1. pools[q] \in Seq(Deliveries)
    BY DEF PoolsOf
  <2>2. Len(pools[q]) <= Len(docs[q]) /\ \A d \in DOMAIN pools[q] : pools[q][d] = docs[q][d]
    BY <1>4 DEF Earlier
  <2> QED
    BY <1>3, <2>1, <2>2
<1> QED
  BY <1>2, <1>4 DEF Earlier

LEMMA LInvNext == LInv /\ [MatchingNext]_matching => LInv'
<1> SUFFICES ASSUME LInv, [MatchingNext]_matching
             PROVE  LInv'
  OBVIOUS
<1>1. po' = po /\ on' = on
  BY DEF MatchingNext, Read, Deliver, matching
<1>2. /\ Numberless' = Numberless
      /\ \A pools, order : Reading(pools, order)' = Reading(pools, order)
  BY <1>1, SameReading
<1>3. po' \in Purchases /\ on' \in Switches /\ docs \in PoolsOf
  BY <1>1 DEF LInv
<1>4. CASE Read
  <2>1. docs' = docs /\ \A p \in Pools : docs[p] # <<>>
    BY <1>4 DEF Read
  <2>2. PICK order \in Bijection(Numberless, 1 .. Cardinality(Numberless)) :
          last' = Reading(docs, order)
    BY <1>4 DEF Read
  <2>3. last' = Reading(docs, order)'
    BY <1>2, <2>1, <2>2
  <2>4. Earlier(docs, docs')
    BY <1>3, <2>1 DEF Earlier, PoolsOf
  <2> QED
    BY <1>2, <1>3, <2>1, <2>2, <2>4 DEF LInv
<1>5. ASSUME docs' \in PoolsOf, last' = last,
             \A pools \in PoolsOf : Earlier(pools, docs) => Earlier(pools, docs')
      PROVE  LInv'
  BY <1>2, <1>3, <1>5 DEF LInv, Unread
<1>6. CASE \E p \in Pools, doc \in Deliveries : Deliver(p, doc)
  BY <1>3, <1>5, <1>6, DocumentsGrow DEF Deliver
<1>7. CASE UNCHANGED matching
  BY <1>3, <1>5, <1>7 DEF matching
<1> QED
  BY <1>4, <1>6, <1>7 DEF MatchingNext

LEMMA LInvAlways == MatchingSpec => []LInv
BY LInvInit, LInvNext, PTL DEF MatchingSpec

\* What a reconciled set has read.
LEMMA LastReading ==
  ASSUME LInv, Reconciled
  PROVE  \E order :
           /\ last.docs \in PoolsOf /\ \A p \in Pools : last.docs[p] # <<>>
           /\ Reading(last.docs, order).status = "reconciled"
<1>1. last # Unread
  BY DEF Reconciled, Unread
<1>2. PICK pools \in PoolsOf, order \in Bijection(Numberless, 1 .. Cardinality(Numberless)) :
        /\ \A p \in Pools : pools[p] # <<>>
        /\ last = Reading(pools, order)
  BY <1>1 DEF LInv
<1>3. last.docs = pools
  BY <1>2 DEF Reading
<1> QED
  BY <1>2, <1>3 DEF Reconciled

\* The verdict accounts for every unit: for any PO, any documents, any similarity of texts
\* and any order of the candidates, a set that reconciles has, in the delivery notes and in
\* the invoices, as many units as the PO orders (compare_po_set_lines and the verdict).
THEOREM NothingAddedOrLost == MatchingSpec => []QuantitiesAreConserved
<1>1. ASSUME LInv
      PROVE  QuantitiesAreConserved
  <2> SUFFICES ASSUME Reconciled, NEW p \in Pools
               PROVE  Amount(Delivered(last.docs[p]), Lines(last.docs[p]))
                        = Amount(Ordered, DOMAIN po)
    BY DEF QuantitiesAreConserved
  <2>1. PICK order : /\ last.docs \in PoolsOf
                     /\ Reading(last.docs, order).status = "reconciled"
    BY <1>1, LastReading
  <2> QED
    BY <1>1, <2>1, ReconciledTotal DEF LInv, PoolsOf
<1> QED
  BY <1>1, LInvAlways, PTL

\* A set that reconciles does so on the lines that the vendor meant, whichever of the
\* numberings that is: a mapping that fits every number is the only one that can.
THEOREM ReconciledOnRightLines == MatchingSpec => []RightLines
<1>1. ASSUME LInv
      PROVE  RightLines
  <2> SUFFICES ASSUME Reconciled, NEW p \in Pools, NEW scheme \in Rules \cup {AsPrinted}
               PROVE  LET pool == last.docs[p]
                          meant == [at \in Lines(pool) |-> Meant(RowAt(pool, at), scheme)]
                      IN (\A at \in Lines(pool) : meant[at] # None /\ meant[at] \in ItemKeys)
                         => \A key \in ItemKeys : DeliveredAt(key, pool, meant) = OrderedAt(key)
    BY DEF RightLines
  <2> DEFINE pool == last.docs[p]
             meant == [at \in Lines(pool) |-> Meant(RowAt(pool, at), scheme)]
  <2> SUFFICES ASSUME \A at \in Lines(pool) : meant[at] # None /\ meant[at] \in ItemKeys,
                      NEW key \in ItemKeys
               PROVE  DeliveredAt(key, pool, meant) = OrderedAt(key)
    OBVIOUS
  <2>1. PICK order : /\ last.docs \in PoolsOf /\ last.docs[p] # <<>>
                     /\ Reading(last.docs, order).status = "reconciled"
    BY <1>1, LastReading
  <2>2. po \in Purchases /\ on \in Switches
    BY <1>1 DEF LInv
  <2>3. \A at \in Lines(pool) : Meant(RowAt(pool, at), scheme) # None
                                /\ Meant(RowAt(pool, at), scheme) \in ItemKeys
    OBVIOUS
  <2>4. \A at \in Lines(pool) :
          Placed(last.docs, p, order)[at] = Meant(RowAt(pool, at), scheme)
    BY <2>1, <2>2, <2>3, RightPlaces DEF PoolsOf, Numberings
  <2>5. Placed(last.docs, p, order) = meant
    BY <2>4 DEF Placed
  <2>6. DeliveredAt(key, pool, Placed(last.docs, p, order)) = OrderedAt(key)
    BY <2>1, ReconciledPool
  <2> QED
    BY <2>5, <2>6
<1> QED
  BY <1>1, LInvAlways, PTL

\* Later documents never move a numbered row from one line to another unseen: a pool's
\* mapping is decided once, by any of its documents (the atomic rule of _resolve_line_mapping).
THEOREM PlacementsStand == MatchingSpec => PlacementIsStable
<1> DEFINE Stands ==
      \A p \in Pools :
        LET old == last.placed[p] new == last'.placed[p] IN
        \A at \in DOMAIN old :
          /\ RowAt(last.docs[p], at).no # None
          /\ Orphan \notin {old[at], new[at]}
          /\ old[at].kind # "desc" \/ new[at].kind # "desc"
          /\ old[at] # new[at]
          => last'.status = "quarantined"
<1>1. ASSUME LInv, [MatchingNext]_matching
      PROVE  [Stands]_matching
  <2>1. CASE last' = last
    BY <2>1
  <2>2. CASE Read /\ last = Unread
    BY <2>2 DEF Unread
  <2>3. CASE Read /\ last # Unread
    <3>1. PICK after \in Bijection(Numberless, 1 .. Cardinality(Numberless)) :
            last' = Reading(docs, after)
      BY <2>3 DEF Read
    <3>2. PICK pools \in PoolsOf, before \in Bijection(Numberless, 1 .. Cardinality(Numberless)) :
            /\ \A p \in Pools : pools[p] # <<>>
            /\ Earlier(pools, docs)
            /\ last = Reading(pools, before)
      BY <1>1, <2>3 DEF LInv
    <3>3. \A p \in Pools : /\ last.placed[p] = Placed(pools, p, before)
                           /\ last'.placed[p] = Placed(docs, p, after)
      BY <3>1, <3>2 DEF Reading
    <3>4. last.docs = pools /\ last'.status = Reading(docs, after).status
      BY <3>1, <3>2 DEF Reading
    <3>5. po \in Purchases /\ on \in Switches /\ docs \in PoolsOf
      BY <1>1 DEF LInv
    <3>6. ASSUME NEW p \in Pools, NEW at \in DOMAIN last.placed[p],
                 RowAt(last.docs[p], at).no # None
          PROVE  \/ last'.status = "quarantined"
                 \/ Stays(last.placed[p][at], last'.placed[p][at])
      <4>1. at \in Lines(pools[p]) /\ RowAt(pools[p], at).no # None
        BY <3>3, <3>4, <3>6 DEF Placed
      <4>2. \/ Reading(docs, after).status = "quarantined"
            \/ Stays(Placed(pools, p, before)[at], Placed(docs, p, after)[at])
        <5>1. pools \in [Pools -> Seq(Deliveries)] /\ docs \in [Pools -> Seq(Deliveries)]
          BY <3>5 DEF PoolsOf
        <5>2. Earlier(pools, docs) /\ pools[p] # <<>> /\ po \in Purchases /\ on \in Switches
          BY <3>2, <3>5
        <5> QED
          BY <4>1, <5>1, <5>2, StablePlaces
      <4> QED
        BY <3>3, <3>4, <4>2
    <3> QED
      BY <3>6 DEF Stays
  <2> QED
    BY <1>1, <2>1, <2>2, <2>3 DEF MatchingNext, Deliver, matching
<1> QED
  BY <1>1, LInvAlways, PTL DEF MatchingSpec, PlacementIsStable
=============================================================================
