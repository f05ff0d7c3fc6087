---------------------------- MODULE GroupingProofs ----------------------------
(***************************************************************************)
(* Proofs about Grouping for every folder of documents, every operator and *)
(* every bound.                                                             *)
(***************************************************************************)
EXTENDS Grouping, TLAPS

Statuses == {"unused", "open", "merged", "archived"}
Places == {"idle", "minting", "placing", "linking", "joining", "choosing",
           "opening", "filing", "moving"} \cup Stages
SetRows == [status : Statuses, key : Keys \cup {NoKey}, letters : Letters]

\* The empty values are well-typed.
LEMMA EmptyTyped == NoNumber \in Numbers /\ NoRow \in Rows /\ NoJob \in Jobs
<1>1. NoNumber \in Numbers
  BY GroupingAssumption DEF NoNumber, Numbers
<1>2. NoRow \in Rows
  BY <1>1 DEF NoRow, Rows, Kinds, Attachable, Sources
<1>3. NoJob \in Jobs
  BY <1>1, <1>2 DEF NoJob, Jobs, Kinds, Attachable
<1> QED
  BY <1>1, <1>2, <1>3

\* TypeOK, one conjunct for each kind of step.
LEMMA TypeParts ==
  TypeOK <=> /\ sets \in [Sets -> SetRows]
             /\ docs \in [Docs -> Rows]
             /\ input \in SUBSET Docs
             /\ pc \in [Actors -> Places]
             /\ job \in [Actors -> Jobs]
             /\ requests \in Nat
             /\ crashes \in Nat
BY DEF TypeOK, SetRows, Statuses, Places

\* The same for the next state, as the steps below establish it.
LEMMA TypeNext ==
  ASSUME sets' \in [Sets -> SetRows], docs' \in [Docs -> Rows], input' \in SUBSET Docs,
         pc' \in [Actors -> Places], job' \in [Actors -> Jobs],
         requests' \in Nat, crashes' \in Nat
  PROVE  TypeOK'
BY DEF TypeOK, SetRows, Statuses, Places

\* An actor moves and takes a well-typed job along.
LEMMA MoveTyped ==
  ASSUME TypeOK, NEW a \in Actors, NEW j \in Jobs, NEW p \in Places
  PROVE  /\ Keep(a, j) => job' \in [Actors -> Jobs]
         /\ Goto(a, p) => pc' \in [Actors -> Places]
BY TypeParts DEF Keep, Goto

\* Updates of a job keep its type.
LEMMA JobUpdates ==
  ASSUME NEW j \in Jobs
  PROVE  /\ \A D \in SUBSET Docs : [j EXCEPT !.todo = D] \in Jobs
         /\ \A d \in Docs \cup {NoDoc} : [j EXCEPT !.doc = d] \in Jobs
         /\ \A s \in Sets \cup {NoSet} : [j EXCEPT !.set = s] \in Jobs
         /\ \A n \in Numbers : [j EXCEPT !.number = n] \in Jobs
         /\ \A k \in Kinds : [j EXCEPT !.kind = k] \in Jobs
         /\ \A g \in BOOLEAN : [j EXCEPT !.guess = g] \in Jobs
         /\ \A f \in [Docs -> Rows] : [j EXCEPT !.seen = f] \in Jobs
<1> USE DEF Jobs
<1>1. \A D \in SUBSET Docs : [j EXCEPT !.todo = D] \in Jobs
  OBVIOUS
<1>2. \A d \in Docs \cup {NoDoc} : [j EXCEPT !.doc = d] \in Jobs
  OBVIOUS
<1>3. \A s \in Sets \cup {NoSet} : [j EXCEPT !.set = s] \in Jobs
  OBVIOUS
<1>4. \A n \in Numbers : [j EXCEPT !.number = n] \in Jobs
  OBVIOUS
<1>5. \A k \in Kinds : [j EXCEPT !.kind = k] \in Jobs
  OBVIOUS
<1>6. \A g \in BOOLEAN : [j EXCEPT !.guess = g] \in Jobs
  OBVIOUS
<1>7. \A f \in [Docs -> Rows] : [j EXCEPT !.seen = f] \in Jobs
  OBVIOUS
<1> QED
  BY <1>1, <1>2, <1>3, <1>4, <1>5, <1>6, <1>7

\* The INSERT of a set: sets, place and job keep their types.
LEMMA InsertTyped ==
  ASSUME TypeOK, NEW a \in Actors, NEW n \in Numbers, NEW p \in Places, NEW q \in Places,
         Insert(a, n, p, q)
  PROVE  sets' \in [Sets -> SetRows] /\ pc' \in [Actors -> Places] /\ job' \in [Actors -> Jobs]
<1>1. job[a] \in Jobs
  BY TypeParts
<1>2. \A s \in Sets \cup {NoSet} : [job[a] EXCEPT !.set = s] \in Jobs
  BY <1>1, JobUpdates
<1>3. [job[a] EXCEPT !.doc = NoDoc] \in Jobs
  BY <1>1, JobUpdates
<1>4. CASE \E s \in Unused : /\ Created(s, n)
                             /\ Keep(a, [job[a] EXCEPT !.set = s])
                             /\ Goto(a, p)
  <2>1. PICK s \in Unused : /\ Created(s, n)
                            /\ Keep(a, [job[a] EXCEPT !.set = s])
                            /\ Goto(a, p)
    BY <1>4
  <2>2. s \in Sets
    BY DEF Unused
  <2>3. [status |-> "open", key |-> n.key, letters |-> n.letters] \in SetRows
    BY DEF SetRows, Statuses, Numbers
  <2>4. sets' \in [Sets -> SetRows]
    BY <2>1, <2>2, <2>3, TypeParts DEF Created
  <2> QED
    BY <1>2, <2>1, <2>2, <2>4, MoveTyped
<1>5. CASE \E s \in Matching(n) : /\ Keep(a, [job[a] EXCEPT !.set = s])
                                  /\ Goto(a, p)
                                  /\ UNCHANGED sets
  <2>1. PICK s \in Matching(n) : /\ Keep(a, [job[a] EXCEPT !.set = s])
                                 /\ Goto(a, p)
                                 /\ UNCHANGED sets
    BY <1>5
  <2>2. s \in Sets
    BY DEF Matching, OpenSets
  <2> QED
    BY <1>2, <2>1, <2>2, TypeParts, MoveTyped
<1>6. CASE Keep(a, [job[a] EXCEPT !.doc = NoDoc]) /\ Goto(a, q) /\ UNCHANGED sets
  BY <1>3, <1>6, TypeParts, MoveTyped
<1> QED
  BY <1>4, <1>5, <1>6 DEF Insert

\* What Place, Join, Link and the holding page leave of a job.
LEMMA PlacedTyped ==
  ASSUME TypeOK, NEW p \in Places, Placed(p)
  PROVE  pc' \in [Actors -> Places] /\ job' \in [Actors -> Jobs]
<1>1. Sync \in Actors /\ job[Sync] \in Jobs
  BY TypeParts DEF Actors
<1>2. [NoJob EXCEPT !.todo = job[Sync].todo, !.seen = job[Sync].seen] \in Jobs
  BY <1>1, EmptyTyped DEF Jobs
<1> QED
  BY <1>1, <1>2, MoveTyped DEF Placed

\* A request that ends leaves an empty job.
LEMMA RefusedTyped ==
  ASSUME TypeOK, NEW o \in Operators, Refused(o)
  PROVE  pc' \in [Actors -> Places] /\ job' \in [Actors -> Jobs]
BY EmptyTyped, MoveTyped DEF Refused, Actors, Places

\* A document takes the set that its placement carries.
LEMMA SetWritten ==
  ASSUME TypeOK, docs' = [docs EXCEPT ![job[Sync].doc].set = job[Sync].set]
  PROVE  docs' \in [Docs -> Rows]
<1>1. job[Sync].set \in Sets \cup {NoSet}
  BY TypeParts DEF Actors, Jobs
<1> QED
  BY <1>1, TypeParts DEF Rows

\* A sweep carries the rows it has loaded.
LEMMA SweepTyped ==
  ASSUME TypeOK, NEW D \in SUBSET Docs, Sweep(D)
  PROVE  job' \in [Actors -> Jobs]
<1>1. [d \in Docs |-> IF d \in D THEN docs[d] ELSE NoRow] \in [Docs -> Rows]
  BY EmptyTyped, TypeParts
<1>2. [NoJob EXCEPT !.todo = D, !.seen = [d \in Docs |-> IF d \in D THEN docs[d] ELSE NoRow]] \in Jobs
  BY <1>1, EmptyTyped DEF Jobs
<1> QED
  BY <1>2, TypeParts DEF Sweep, Keep, Actors

\* A visited document leaves the list; the placement may be added to the job.
LEMMA RestTyped ==
  ASSUME TypeOK, NEW d \in Docs, NEW s \in Sets, NEW n \in Numbers, NEW g \in BOOLEAN
  PROVE  LET rest == [job[Sync] EXCEPT !.todo = @ \ {d}]
         IN /\ rest \in Jobs
            /\ [rest EXCEPT !.doc = d, !.set = s] \in Jobs
            /\ [rest EXCEPT !.doc = d, !.number = n] \in Jobs
            /\ [rest EXCEPT !.doc = d, !.set = s, !.number = n, !.guess = g] \in Jobs
<1> DEFINE rest == [job[Sync] EXCEPT !.todo = @ \ {d}]
<1>1. job[Sync] \in Jobs
  BY TypeParts DEF Actors
<1>2. rest \in Jobs
  BY <1>1 DEF Jobs
<1> HIDE DEF rest
<1>3. [rest EXCEPT !.doc = d, !.set = s] \in Jobs
  BY <1>2 DEF Jobs
<1>4. [rest EXCEPT !.doc = d, !.number = n] \in Jobs
  BY <1>2 DEF Jobs
<1>5. [rest EXCEPT !.doc = d, !.set = s, !.number = n, !.guess = g] \in Jobs
  BY <1>2 DEF Jobs
<1> QED
  BY <1>2, <1>3, <1>4, <1>5 DEF rest

\* The steps of the sync keep every variable's type.
LEMMA SyncTyped ==
  ASSUME TypeOK, SyncStep
  PROVE  TypeOK'
<1> USE DEF At, Bounds
<1>0. /\ Sync \in Actors /\ job[Sync] \in Jobs
      /\ {"idle", "reading", "grouping", "resolving", "attaching", "minting", "placing",
          "linking", "joining"} \subseteq Places
      /\ \A d \in Docs : docs[d] \in Rows /\ job[Sync].seen[d] \in Rows
  BY TypeParts DEF Actors, Places, Stages, Jobs
<1>1. CASE SyncStart
  <2>1. [NoJob EXCEPT !.todo = input] \in Jobs
    BY EmptyTyped, JobUpdates, TypeParts
  <2> QED
    BY <1>0, <1>1, <2>1, MoveTyped, TypeParts, TypeNext DEF SyncStart
<1>2. CASE ReadingEnds
  BY <1>0, <1>2, MoveTyped, TypeParts, TypeNext DEF ReadingEnds
<1>3. CASE Mint
  <2>1. job[Sync].number \in Numbers
    BY <1>0 DEF Jobs
  <2> QED
    BY <1>0, <1>3, <2>1, InsertTyped, TypeParts, TypeNext DEF Mint
<1>4. CASE Place
  BY <1>0, <1>4, SetWritten, PlacedTyped, TypeParts, TypeNext DEF Place, Placed
<1>5. CASE GroupingEnds
  <2>1. Unattached \in SUBSET Docs
    BY DEF Unattached
  <2> QED
    BY <1>0, <1>5, <2>1, SweepTyped, MoveTyped, TypeParts, TypeNext DEF GroupingEnds
<1>6. CASE Link
  <2>1. job[Sync].set \in Sets \cup {NoSet} /\ job[Sync].number \in Numbers
    BY <1>0 DEF Jobs
  <2>2. docs' \in [Docs -> Rows]
    <3> DEFINE j == job[Sync]
               num(d) == IF j.number.key # NoKey
                         THEN [docs[d].number EXCEPT !.key = j.number.key] ELSE docs[d].number
               src(d) == IF j.guess THEN "dn_number" ELSE docs[d].source
               row(d) == [docs[d] EXCEPT !.set = j.set, !.number = num(d), !.source = src(d)]
    <3>1. ASSUME NEW d \in Docs
          PROVE  num(d) \in Numbers /\ src(d) \in Sources
      BY <1>0, <2>1 DEF Rows, Numbers, Sources
    <3>2. ASSUME NEW d \in Docs
          PROVE  row(d) \in Rows
      <4> HIDE DEF num, src
      <4> QED
        BY <1>0, <2>1, <3>1 DEF Rows
    <3>3. docs' = [docs EXCEPT ![j.doc] = row(j.doc)]
      BY <1>6 DEF Link
    <3> HIDE DEF row
    <3> QED
      BY <3>2, <3>3, TypeParts
  <2> QED
    BY <1>0, <1>6, <2>2, PlacedTyped, TypeParts, TypeNext DEF Link, Placed
<1>7. CASE ResolvingEnds
  <2>1. {d \in Unattached : docs[d].number.key # NoKey} \in SUBSET Docs
    BY DEF Unattached
  <2> QED
    BY <1>0, <1>7, <2>1, SweepTyped, MoveTyped, TypeParts, TypeNext DEF ResolvingEnds
<1>8. CASE Join
  BY <1>0, <1>8, SetWritten, PlacedTyped, TypeParts, TypeNext DEF Join, Placed
<1>9. CASE SyncEnds
  BY <1>0, <1>9, EmptyTyped, MoveTyped, TypeParts, TypeNext DEF SyncEnds
<1>10. ASSUME NEW d \in Docs, Read(d)
       PROVE  TypeOK'
  <2>1. docs' \in [Docs -> Rows]
    <3> DEFINE typed == docs[d].source = "manual"
               row(v) == [docs[d] EXCEPT
                            !.stage = "valid", !.kind = KindOf[d],
                            !.number = IF typed THEN @ ELSE Printed[d], !.unsure = v /\ ~typed,
                            !.set = IF ~typed /\ (v \/ Printed[d].key = NoKey) THEN NoSet ELSE @]
    <3>1. PICK v \in BOOLEAN : docs' = [docs EXCEPT ![d] = row(v)]
      BY <1>10 DEF Read
    <3>2. KindOf[d] \in Kinds /\ Printed[d] \in Numbers
      BY GroupingAssumption DEF Kinds
    <3>3. row(v) \in Rows
      BY <1>0, <3>2 DEF Rows
    <3> HIDE DEF row
    <3> QED
      BY <3>1, <3>3, TypeParts
  <2> QED
    BY <1>10, <2>1, TypeParts, TypeNext DEF Read
<1>11. ASSUME NEW d \in Docs, Group(d)
       PROVE  TypeOK'
  <2>1. docs[d].number \in Numbers /\ Matching(docs[d].number) \subseteq Sets
    BY <1>0 DEF Rows, Matching, OpenSets
  <2>2. job' \in [Actors -> Jobs]
    <3>1. CASE Keep(Sync, [job[Sync] EXCEPT !.todo = @ \ {d}])
      <4>1. [job[Sync] EXCEPT !.todo = @ \ {d}] \in Jobs
        BY <1>0 DEF Jobs
      <4> QED
        BY <3>1, <4>1, TypeParts DEF Keep
    <3>2. ASSUME NEW s \in Sets,
                 Keep(Sync, [[job[Sync] EXCEPT !.todo = @ \ {d}] EXCEPT !.doc = d, !.set = s])
          PROVE  job' \in [Actors -> Jobs]
      BY <2>1, <3>2, RestTyped, TypeParts DEF Keep
    <3>3. ASSUME Keep(Sync, [[job[Sync] EXCEPT !.todo = @ \ {d}]
                               EXCEPT !.doc = d, !.number = docs[d].number])
          PROVE  job' \in [Actors -> Jobs]
      <4>1. [[job[Sync] EXCEPT !.todo = @ \ {d}] EXCEPT !.doc = d, !.number = docs[d].number] \in Jobs
        BY <1>0, <2>1 DEF Jobs
      <4> QED
        BY <3>3, <4>1, TypeParts DEF Keep
    <3> QED
      BY <1>11, <2>1, <3>1, <3>2, <3>3 DEF Group
  <2>3. pc' \in [Actors -> Places]
    BY <1>0, <1>11, TypeParts DEF Group, Goto
  <2> QED
    BY <1>11, <2>2, <2>3, TypeParts, TypeNext DEF Group
<1>12. ASSUME NEW d \in Docs, Resolve(d)
       PROVE  TypeOK'
  <2>1. Common(Anchors(d)) \subseteq Sets /\ Anchors(d) \subseteq Docs
    BY DEF Common, Anchors, Siblings, Namers
  <2>2. \A a \in Docs : [job[Sync].seen[d].number EXCEPT !.key = docs[a].number.key] \in Numbers
    BY <1>0 DEF Rows, Numbers
  <2>3. (Common(Siblings(d)) # {} /\ job[Sync].seen[d].source # "manual") \in BOOLEAN
    OBVIOUS
  <2>4. job' \in [Actors -> Jobs]
    <3>1. CASE Keep(Sync, [job[Sync] EXCEPT !.todo = @ \ {d}])
      <4>1. [job[Sync] EXCEPT !.todo = @ \ {d}] \in Jobs
        BY <1>0 DEF Jobs
      <4> QED
        BY <3>1, <4>1, TypeParts DEF Keep
    <3>2. ASSUME NEW s \in Sets, NEW a \in Docs,
                 Keep(Sync, [[job[Sync] EXCEPT !.todo = @ \ {d}] EXCEPT !.doc = d, !.set = s,
                    !.number = [job[Sync].seen[d].number EXCEPT !.key = docs[a].number.key],
                    !.guess = Common(Siblings(d)) # {} /\ job[Sync].seen[d].source # "manual"])
          PROVE  job' \in [Actors -> Jobs]
      BY <2>2, <2>3, <3>2, RestTyped, TypeParts DEF Keep
    <3> QED
      BY <1>12, <2>1, <3>1, <3>2 DEF Resolve
  <2>5. pc' \in [Actors -> Places]
    BY <1>0, <1>12, TypeParts DEF Resolve, Goto
  <2> QED
    BY <1>12, <2>4, <2>5, TypeParts, TypeNext DEF Resolve
<1>13. ASSUME NEW d \in Docs, Attach(d)
       PROVE  TypeOK'
  <2>1. Matching(job[Sync].seen[d].number) \subseteq Sets
    BY DEF Matching, OpenSets
  <2>2. job' \in [Actors -> Jobs]
    <3>1. CASE Keep(Sync, [job[Sync] EXCEPT !.todo = @ \ {d}])
      <4>1. [job[Sync] EXCEPT !.todo = @ \ {d}] \in Jobs
        BY <1>0 DEF Jobs
      <4> QED
        BY <3>1, <4>1, TypeParts DEF Keep
    <3>2. ASSUME NEW s \in Sets,
                 Keep(Sync, [[job[Sync] EXCEPT !.todo = @ \ {d}] EXCEPT !.doc = d, !.set = s])
          PROVE  job' \in [Actors -> Jobs]
      BY <3>2, EmptyTyped, RestTyped, TypeParts DEF Keep
    <3> QED
      BY <1>13, <2>1, <3>1, <3>2 DEF Attach
  <2>3. pc' \in [Actors -> Places]
    BY <1>0, <1>13, TypeParts DEF Attach, Goto
  <2> QED
    BY <1>13, <2>2, <2>3, TypeParts, TypeNext DEF Attach
<1> QED
  BY <1>1, <1>2, <1>3, <1>4, <1>5, <1>6, <1>7, <1>8, <1>9, <1>10, <1>11, <1>12, <1>13 DEF SyncStep

\* So do the steps of a request on the holding page.
LEMMA OperatorTyped ==
  ASSUME TypeOK, NEW o \in Operators, OperatorStep(o)
  PROVE  TypeOK'
<1> USE DEF At, Bounds
<1>0. /\ o \in Actors /\ job[o] \in Jobs
      /\ {"idle", "choosing", "opening", "filing", "moving"} \subseteq Places
      /\ \A d \in Docs : docs[d] \in Rows /\ job[o].seen[d] \in Rows
  BY TypeParts DEF Actors, Places, Jobs
<1>1. CASE Choose(o)
  <2>1. \A s \in Sets : [job[o] EXCEPT !.set = s] \in Jobs
    BY <1>0, JobUpdates
  <2>2. Matching(job[o].number) \subseteq Sets
    BY DEF Matching, OpenSets
  <2>3. CASE UNCHANGED job /\ \E p \in {"filing", "opening"} : Goto(o, p)
    BY <1>0, <1>1, <2>3, MoveTyped, TypeParts, TypeNext DEF Choose
  <2>4. CASE Refused(o)
    BY <1>1, <2>4, RefusedTyped, TypeParts, TypeNext DEF Choose
  <2>5. CASE Goto(o, "filing") /\ \E s \in Sets : Keep(o, [job[o] EXCEPT !.set = s])
    BY <1>0, <1>1, <2>1, <2>5, MoveTyped, TypeParts, TypeNext DEF Choose
  <2> QED
    BY <1>1, <2>2, <2>3, <2>4, <2>5 DEF Choose
<1>2. CASE Open(o)
  <2>1. job[o].number \in Numbers
    BY <1>0 DEF Jobs
  <2> QED
    BY <1>0, <1>2, <2>1, InsertTyped, TypeParts, TypeNext DEF Open
<1>3. CASE File(o)
  <2> DEFINE j == job[o]
             row(d) == Filed(docs[d], j.seen[d], j)
  <2>1. j.kind \in Kinds /\ j.number \in Numbers /\ j.set \in Sets \cup {NoSet}
    BY <1>0 DEF Jobs
  <2>2. ASSUME NEW d \in Docs
        PROVE  row(d) \in Rows
    <3> DEFINE doubt == docs[d].unsure /\ ~(j.number # NoNumber /\ j.seen[d].unsure)
    <3>1. doubt \in BOOLEAN
      OBVIOUS
    <3>2. row(d) = [docs[d] EXCEPT
                     !.kind = IF j.kind # j.seen[d].kind THEN j.kind ELSE docs[d].kind,
                     !.number = IF j.number # NoNumber /\ j.number # j.seen[d].number
                                THEN j.number ELSE docs[d].number,
                     !.source = IF j.number # NoNumber THEN "manual" ELSE docs[d].source,
                     !.unsure = doubt,
                     !.set = IF j.set # NoSet THEN j.set ELSE docs[d].set]
      BY DEF Filed
    <3>3. docs[d] \in Rows /\ "manual" \in Sources
      BY <1>0 DEF Sources
    <3> HIDE DEF doubt, j, row
    <3> QED
      BY <2>1, <3>1, <3>2, <3>3 DEF Rows
  <2>3. docs' = docs \/ docs' = [docs EXCEPT ![j.doc] = row(j.doc)]
    BY <1>3 DEF File
  <2>4. docs' \in [Docs -> Rows]
    <3> HIDE DEF row
    <3> QED
      BY <2>2, <2>3, TypeParts
  <2> QED
    BY <1>3, <2>4, RefusedTyped, TypeParts, TypeNext DEF File
<1>4. CASE Shelve(o)
  <2> DEFINE free == docs[job[o].doc].shelved \/ docs[job[o].doc].set = NoSet
  <2>0. free \in BOOLEAN /\ docs' = [docs EXCEPT ![job[o].doc].shelved = free]
    BY <1>4 DEF Shelve
  <2>1. docs' \in [Docs -> Rows]
    <3> HIDE DEF free
    <3> QED
      BY <2>0, TypeParts DEF Rows
  <2> QED
    BY <1>4, <2>1, RefusedTyped, TypeParts, TypeNext DEF Shelve
<1> QED
  BY <1>1, <1>2, <1>3, <1>4 DEF OperatorStep

\* Documents, sets, actors and what they carry keep their types under every
\* step of the sync, the holding page, a merge, an archive and a crash.
THEOREM TypeCorrect == Spec => []TypeOK
<1>1. Init => TypeOK
  <2> SUFFICES ASSUME Init
               PROVE  TypeOK
    OBVIOUS
  <2>1. sets \in [Sets -> SetRows]
    BY GroupingAssumption DEF Init, SetRows, Statuses
  <2>2. /\ docs \in [Docs -> Rows] /\ input \in SUBSET Docs
        /\ pc \in [Actors -> Places] /\ job \in [Actors -> Jobs]
    BY EmptyTyped DEF Init, Places
  <2>3. requests \in Nat /\ crashes \in Nat
    BY DEF Init
  <2> QED
    BY <2>1, <2>2, <2>3, TypeParts
<1>2. TypeOK /\ [Next]_vars => TypeOK'
  <2> SUFFICES ASSUME TypeOK, [Next]_vars
               PROVE  TypeOK'
    OBVIOUS
  <2> USE DEF At, Bounds
  <2>0. {"idle", "choosing", "filing", "moving"} \subseteq Places
    BY DEF Places
  <2>1. CASE SyncStep
    BY <2>1, SyncTyped
  <2>2. ASSUME NEW d \in Docs, Arrive(d)
        PROVE  TypeOK'
    <3>1. docs' \in [Docs -> Rows]
      BY <2>2, TypeParts DEF Arrive, Rows
    <3> QED
      BY <2>2, <3>1, TypeParts, TypeNext DEF Arrive
  <2>3. ASSUME NEW d \in Docs, Confirm(d)
        PROVE  TypeOK'
    <3>1. docs' \in [Docs -> Rows]
      BY <2>3, TypeParts DEF Confirm, Rows, Sources
    <3> QED
      BY <2>3, <3>1, TypeParts, TypeNext DEF Confirm
  <2>4. ASSUME NEW o \in Operators, OperatorStep(o)
        PROVE  TypeOK'
    BY <2>4, OperatorTyped
  <2>5. ASSUME NEW o \in Operators, NEW d \in Docs, SetAside(o, d)
        PROVE  TypeOK'
    <3>1. o \in Actors /\ [NoJob EXCEPT !.doc = d] \in Jobs
      BY EmptyTyped, JobUpdates DEF Actors
    <3> QED
      BY <2>0, <2>5, <3>1, MoveTyped, TypeParts, TypeNext DEF SetAside
  <2>6. ASSUME NEW o \in Operators, NEW d \in Docs, NEW c \in Choices,
               Reclassify(o, d, c[1], c[2])
        PROVE  TypeOK'
    <3>1. c[1] \in Kinds /\ c[2] \in Numbers /\ o \in Actors
      BY GroupingAssumption DEF HandAssignable, Kinds, Actors
    <3>2. [NoJob.seen EXCEPT ![d] = docs[d]] \in [Docs -> Rows]
      BY EmptyTyped, TypeParts DEF Jobs
    <3>3. [NoJob EXCEPT !.doc = d, !.kind = c[1], !.number = c[2], !.seen[d] = docs[d]] \in Jobs
      BY <3>1, <3>2, EmptyTyped DEF Jobs
    <3>4. job' \in [Actors -> Jobs]
      BY <2>6, <3>1, <3>3, TypeParts DEF Reclassify, Keep
    <3>5. pc' \in [Actors -> Places]
      BY <2>0, <2>6, <3>1, TypeParts DEF Reclassify, Goto
    <3> QED
      BY <2>6, <3>4, <3>5, TypeParts, TypeNext DEF Reclassify, Ask
  <2>7. ASSUME NEW s \in Sets, Deliver(s)
        PROVE  TypeOK'
    <3>1. sets' \in [Sets -> SetRows]
      BY <2>7, TypeParts DEF Deliver, SetRows, Statuses
    <3> QED
      BY <2>7, <3>1, TypeParts, TypeNext DEF Deliver
  <2>8. ASSUME NEW s \in Sets, Archive(s)
        PROVE  TypeOK'
    <3>1. sets' \in [Sets -> SetRows]
      BY <2>8, TypeParts DEF Archive, SetRows, Statuses
    <3>2. docs' \in [Docs -> Rows]
      BY <2>8, TypeParts DEF Archive, Rows
    <3> QED
      BY <2>8, <3>1, <3>2, TypeParts, TypeNext DEF Archive
  <2>9. ASSUME NEW S, Crash(S)
        PROVE  TypeOK'
    BY <2>0, <2>9, EmptyTyped, TypeParts, TypeNext DEF Crash
  <2>10. CASE UNCHANGED vars
    BY <2>10 DEF vars, TypeOK
  <2> QED
    BY <2>1, <2>2, <2>3, <2>4, <2>5, <2>6, <2>7, <2>8, <2>9, <2>10 DEF Next
<1> QED
  BY <1>1, <1>2, PTL DEF Spec

\* The steps that can break OneOpenSetPerKey are the INSERT's alone, by the sync
\* (Mint) or by an operator (Open): every other step leaves po_sets alone or closes
\* a set.  The INSERT creates a set only when no open one has its digits.
LEMMA InsertKeepsOne ==
  ASSUME TypeOK, OneOpenSetPerKey, NEW a, NEW n, NEW p, NEW q, Insert(a, n, p, q)
  PROVE  OneOpenSetPerKey'
<1>1. CASE UNCHANGED sets
  BY <1>1 DEF OneOpenSetPerKey, Status
<1>2. ASSUME OpenSets(n.key) = {}, NEW s \in Unused, Created(s, n)
      PROVE  OneOpenSetPerKey'
  <2>1. /\ s \in Sets
        /\ sets' = [sets EXCEPT ![s] = [status |-> "open", key |-> n.key,
                                       letters |-> n.letters]]
    BY <1>2 DEF Unused, Created
  <2>2. \A t \in Sets : ~(sets[t].status = "open" /\ sets[t].key = n.key)
    BY <1>2 DEF OpenSets, Status
  <2>3. sets'[s].key = n.key /\ \A t \in Sets \ {s} : sets'[t] = sets[t]
    BY <2>1 DEF TypeOK
  <2> QED
    BY <2>1, <2>2, <2>3 DEF OneOpenSetPerKey, Status
<1> QED
  BY <1>1, <1>2 DEF Insert

\* A set that leaves "open" cannot clash with another.
LEMMA ClosingKeepsOne ==
  ASSUME TypeOK, OneOpenSetPerKey, NEW s \in Sets, NEW v \in {"merged", "archived"},
         sets' = [sets EXCEPT ![s].status = v]
  PROVE  OneOpenSetPerKey'
<1>1. \A t \in Sets : sets'[t].status = "open"
                      => sets[t].status = "open" /\ sets'[t].key = sets[t].key
  BY DEF TypeOK
<1> QED
  BY <1>1 DEF OneOpenSetPerKey, Status

\* OneOpenSetPerKey in every behaviour: the set a number leads to is never a
\* matter of which open set the look-up happens to return.
THEOREM OneOpenSet == Spec => []OneOpenSetPerKey
<1>1. Init => OneOpenSetPerKey
  <2> SUFFICES ASSUME Init, NEW s \in Sets
               PROVE  sets[s].status # "open"
    BY DEF OneOpenSetPerKey, Status
  <2>1. sets = [t \in Sets |-> [status |-> "unused", key |-> NoKey, letters |-> ""]]
    BY Zenon DEF Init
  <2> QED
    BY <2>1
<1>2. TypeOK /\ OneOpenSetPerKey /\ [Next]_vars => OneOpenSetPerKey'
  <2> SUFFICES ASSUME TypeOK, OneOpenSetPerKey, [Next]_vars
               PROVE  OneOpenSetPerKey'
    OBVIOUS
  <2>0. CASE UNCHANGED sets
    BY <2>0 DEF OneOpenSetPerKey, Status
  <2>1. CASE SyncStep
    BY <2>0, <2>1, InsertKeepsOne
       DEF SyncStep, SyncStart, ReadingEnds, Mint, Place, GroupingEnds, Link, ResolvingEnds,
           Join, SyncEnds, Read, Group, Resolve, Attach, Placed
  <2>2. ASSUME NEW o \in Operators, OperatorStep(o)
        PROVE  OneOpenSetPerKey'
    BY <2>0, <2>2, InsertKeepsOne DEF OperatorStep, Choose, Open, File, Shelve
  <2>3. ASSUME NEW o \in Operators, NEW d \in Docs,
               SetAside(o, d) \/ \E c \in Choices : Reclassify(o, d, c[1], c[2])
        PROVE  OneOpenSetPerKey'
    BY <2>0, <2>3 DEF SetAside, Reclassify, Ask
  <2>4. ASSUME NEW d \in Docs, Arrive(d) \/ Confirm(d)
        PROVE  OneOpenSetPerKey'
    BY <2>0, <2>4 DEF Arrive, Confirm
  <2>5. ASSUME NEW s \in Sets, Deliver(s)
        PROVE  OneOpenSetPerKey'
    BY <2>5, ClosingKeepsOne DEF Deliver
  <2>6. ASSUME NEW s \in Sets, Archive(s)
        PROVE  OneOpenSetPerKey'
    BY <2>6, ClosingKeepsOne DEF Archive
  <2>7. ASSUME NEW S, Crash(S)
        PROVE  OneOpenSetPerKey'
    BY <2>0, <2>7 DEF Crash
  <2>8. CASE UNCHANGED vars
    BY <2>0, <2>8 DEF vars
  <2> QED
    BY <2>1, <2>2, <2>3, <2>4, <2>5, <2>6, <2>7, <2>8 DEF Next
<1> QED
  BY <1>1, <1>2, TypeCorrect, PTL DEF Spec

-----------------------------------------------------------------------------
(* Where documents are placed.                                               *)

\* A person typed the document's number.
Typed(d) == docs[d].source = "manual"

\* The set agrees with what d prints, and d prints one number at most.
Suits(d, s) ==
  /\ s \in Sets /\ Status(s) # "unused"
  /\ docs[d].stage = "valid" /\ ~docs[d].unsure
  /\ Printed[d].key \in {NoKey, sets[s].key}
  /\ Compatible(Printed[d].letters, sets[s].letters)

Fits(d, s) == Typed(d) \/ Suits(d, s)

\* Something other than a shared DN number speaks for d in s, or d is marked.
Vouched(d, s) ==
  \/ docs[d].source # "none"
  \/ Printed[d].key # NoKey
  \/ \E p \in Docs : DnNo[d] \in LineRefs[p] /\ (docs[p].set = s \/ docs[p].source # "none")

\* What the row of a document says about how it was placed.
RowSound(d) ==
  /\ docs[d].set # NoSet => Fits(d, docs[d].set) /\ Vouched(d, docs[d].set)
  /\ docs[d].source = "dn_number" => docs[d].stage = "valid" /\ docs[d].set # NoSet
  /\ docs[d].source = "none" /\ docs[d].stage # "valid" => docs[d].number = NoNumber /\ docs[d].set = NoSet
  /\ docs[d].source = "none" /\ docs[d].stage = "valid" /\ docs[d].set = NoSet
       => docs[d].number = Printed[d]

\* A row that a sweep has loaded and not visited yet: what may have changed since.
SeenSound(d) ==
  LET was == job[Sync].seen[d]
  IN /\ docs[d].stage = "valid"
     /\ docs[d].unsure => was.unsure
     /\ docs[d].set # NoSet => Typed(d)
     /\ \/ was.source = "manual" /\ Typed(d)
        \/ was.source = "none" /\ was.number = Printed[d]

Unplaced(d) == docs[d].set = NoSet \/ docs[d].source # "none"

\* What the sync knows of the placement it is making.
JobSound ==
  LET j == job[Sync]
      d == j.doc
  IN /\ pc[Sync] \in {"resolving", "linking", "attaching", "joining"} =>
          \A c \in j.todo : SeenSound(c)
     /\ pc[Sync] \in {"attaching", "joining"} =>
          \A c \in j.todo : j.seen[c].number.key # NoKey
     /\ pc[Sync] \in {"minting", "placing", "linking", "joining"} => d \in Docs /\ Unplaced(d)
     /\ pc[Sync] = "minting" =>
          \/ Typed(d)
          \/ /\ docs[d].stage = "valid" /\ ~docs[d].unsure
             /\ j.number = Printed[d] /\ Printed[d].key # NoKey
     /\ pc[Sync] \in {"placing", "joining"} => j.set \in Sets /\ Fits(d, j.set) /\ Vouched(d, j.set)
     /\ pc[Sync] = "linking" => /\ j.set \in Sets /\ docs[d].stage = "valid"
                          /\ Fits(d, j.set)
                          /\ IF j.guess THEN Suits(d, j.set) ELSE Vouched(d, j.set)
     /\ pc[Sync] \in {"linking", "joining"} => d \notin j.todo

\* A request without a number has no set.
RequestSound(o) ==
  /\ pc[o] \in {"choosing", "opening"} => job[o].number # NoNumber
  /\ pc[o] = "filing" /\ job[o].number = NoNumber => job[o].set = NoSet

PlacementInv ==
  /\ \A d \in Docs : RowSound(d)
  /\ JobSound
  /\ \A o \in Operators : RequestSound(o)

\* What no step takes back: a row that has a source keeps one, a set is left
\* only by a row with a source, a reading is made once; a set keeps its number.
DocsGrow ==
  \A d \in Docs :
    /\ docs'[d].source = "none" => docs[d].source = "none"
    /\ docs[d].set # NoSet /\ docs'[d].source = "none" => docs'[d].set = docs[d].set
    /\ docs[d].stage = "valid" => docs'[d].stage = "valid" /\ (docs'[d].unsure => docs[d].unsure)

SetsGrow ==
  \A s \in Sets : Status(s) # "unused" =>
    Status(s)' # "unused" /\ sets'[s].key = sets[s].key /\ sets'[s].letters = sets[s].letters

LEMMA SuitsStays ==
  ASSUME DocsGrow, SetsGrow, NEW d \in Docs, NEW s, Suits(d, s)
  PROVE  Suits(d, s)'
BY DEF DocsGrow, SetsGrow, Suits

LEMMA VouchedStays ==
  ASSUME DocsGrow, NEW d \in Docs, NEW s \in Sets, Vouched(d, s)
  PROVE  Vouched(d, s)'
<1>1. s # NoSet
  BY GroupingAssumption
<1> QED
  BY <1>1 DEF DocsGrow, Vouched

\* A row whose placement a step leaves alone stays sound.
LEMMA RowKept ==
  ASSUME TypeOK, DocsGrow, SetsGrow, NEW d \in Docs, RowSound(d),
         docs'[d].set = docs[d].set, docs'[d].source = docs[d].source,
         docs'[d].number = docs[d].number, docs'[d].stage = docs[d].stage
  PROVE  RowSound(d)'
<1>1. docs[d].set # NoSet => docs[d].set \in Sets
  BY TypeParts DEF Rows
<1>2. docs[d].set # NoSet => Fits(d, docs[d].set)'
  BY SuitsStays DEF RowSound, Fits, Typed
<1>3. docs[d].set # NoSet => Vouched(d, docs[d].set)'
  BY <1>1, VouchedStays DEF RowSound
<1> QED
  BY <1>2, <1>3 DEF RowSound

\* So does what the sync knows of its placement, under the steps of others.
LEMMA JobKept ==
  ASSUME TypeOK, DocsGrow, SetsGrow, JobSound,
         pc'[Sync] = pc[Sync], job'[Sync] = job[Sync],
         \A d \in Docs : /\ Typed(d) => Typed(d)'
                         /\ docs[d].set = NoSet => docs'[d].set = NoSet \/ Typed(d)'
  PROVE  JobSound'
<1> DEFINE j == job[Sync]
           d == j.doc
<1>1. j \in Jobs /\ j.todo \subseteq Docs
  BY TypeParts DEF Actors, Jobs
<1>2. ASSUME NEW c \in Docs, SeenSound(c)
      PROVE  SeenSound(c)'
  BY <1>2 DEF SeenSound, Typed, DocsGrow
<1>3. ASSUME NEW c \in Docs, Unplaced(c)
      PROVE  Unplaced(c)'
  BY <1>3 DEF Unplaced, Typed, DocsGrow
<1>4. ASSUME NEW c \in Docs, NEW s, Fits(c, s)
      PROVE  Fits(c, s)'
  BY <1>4, SuitsStays DEF Fits
<1>5. (pc[Sync] \in {"resolving", "linking", "attaching", "joining"} =>
          \A c \in j.todo : SeenSound(c))'
  BY <1>1, <1>2 DEF JobSound
<1>6. (pc[Sync] \in {"minting", "placing", "linking", "joining"} => d \in Docs /\ Unplaced(d))'
  BY <1>3 DEF JobSound
<1>7. (pc[Sync] = "minting" =>
          \/ Typed(d)
          \/ /\ docs[d].stage = "valid" /\ ~docs[d].unsure
             /\ j.number = Printed[d] /\ Printed[d].key # NoKey)'
  BY DEF JobSound, DocsGrow
<1>8. (pc[Sync] \in {"placing", "joining"} => j.set \in Sets /\ Fits(d, j.set) /\ Vouched(d, j.set))'
  BY <1>4, VouchedStays DEF JobSound
<1>9. (pc[Sync] = "linking" => /\ j.set \in Sets /\ docs[d].stage = "valid"
                               /\ Fits(d, j.set)
                               /\ IF j.guess THEN Suits(d, j.set) ELSE Vouched(d, j.set))'
  BY <1>4, SuitsStays, VouchedStays DEF JobSound, DocsGrow
<1>10. /\ (pc[Sync] \in {"attaching", "joining"} => \A c \in j.todo : j.seen[c].number.key # NoKey)'
       /\ (pc[Sync] \in {"linking", "joining"} => d \notin j.todo)'
  BY DEF JobSound
<1> HIDE DEF d, j
<1> QED
  BY <1>5, <1>6, <1>7, <1>8, <1>9, <1>10 DEF JobSound, d, j

LEMMA RequestKept ==
  ASSUME NEW o \in Operators, RequestSound(o), pc'[o] = pc[o], job'[o] = job[o]
  PROVE  RequestSound(o)'
BY DEF RequestSound

\* A set is created from an unused row, and kept once it is used.
LEMMA SetSteps ==
  ASSUME TypeOK
  PROVE  /\ UNCHANGED sets => SetsGrow
         /\ \A a, n, p, q : Insert(a, n, p, q) => SetsGrow
         /\ \A s \in Sets, v \in {"merged", "archived"} : sets' = [sets EXCEPT ![s].status = v] => SetsGrow
<1>1. UNCHANGED sets => SetsGrow
  BY DEF SetsGrow, Status
<1>2. ASSUME NEW a, NEW n, NEW p, NEW q, Insert(a, n, p, q)
      PROVE  SetsGrow
  <2>1. ASSUME NEW s \in Unused, Created(s, n)
        PROVE  SetsGrow
    BY <2>1, TypeParts DEF Created, Unused, SetsGrow, Status
  <2> QED
    BY <1>1, <1>2, <2>1 DEF Insert
<1>3. ASSUME NEW s \in Sets, NEW v \in {"merged", "archived"}, sets' = [sets EXCEPT ![s].status = v]
      PROVE  SetsGrow
  BY <1>3, TypeParts DEF SetsGrow, Status, SetRows
<1> QED
  BY <1>1, <1>2, <1>3

LEMMA SameDocsGrow ==
  ASSUME UNCHANGED docs
  PROVE  DocsGrow
BY DEF DocsGrow

\* A step that moves the sync leaves the requests where they are.
LEMMA SyncMoves ==
  ASSUME TypeOK, PlacementInv,
         job' = job \/ \E j : Keep(Sync, j),
         pc' = pc \/ \E p : Goto(Sync, p)
  PROVE  \A o \in Operators : RequestSound(o)'
<1>1. \A o \in Operators : pc'[o] = pc[o] /\ job'[o] = job[o]
  BY TypeParts, GroupingAssumption DEF Keep, Goto, Actors
<1> QED
  BY <1>1, RequestKept DEF PlacementInv

LEMMA StillRows ==
  ASSUME TypeOK, PlacementInv, UNCHANGED docs, SetsGrow
  PROVE  \A d \in Docs : RowSound(d)'
BY RowKept, SameDocsGrow DEF PlacementInv

LEMMA NoPlacement ==
  ASSUME pc'[Sync] \in {"idle", "reading", "grouping"}
  PROVE  JobSound'
BY DEF JobSound

\* A sweep starts from sound rows.
LEMMA SweepSound ==
  ASSUME TypeOK, PlacementInv, NEW D \in SUBSET Unattached, Sweep(D), UNCHANGED docs
  PROVE  /\ job'[Sync].todo = D
         /\ \A c \in D : SeenSound(c)' /\ job'[Sync].seen[c] = docs[c]
<1> DEFINE rows == [d \in Docs |-> IF d \in D THEN docs[d] ELSE NoRow]
           j == [NoJob EXCEPT !.todo = D, !.seen = rows]
<1>1. j.todo = D /\ j.seen = rows
  BY DEF NoJob
<1>2. job'[Sync] = j
  BY TypeParts DEF Sweep, Keep, Actors
<1>3. D \subseteq Docs
  BY DEF Unattached
<1>4. \A c \in D : rows[c] = docs[c]
  BY <1>3
<1> HIDE DEF j, rows
<1>5. \A c \in D : job'[Sync].seen[c] = docs[c]
  BY <1>1, <1>2, <1>4
<1>6. ASSUME NEW c \in D
      PROVE  SeenSound(c)'
  <2>1. /\ docs[c].stage = "valid" /\ docs[c].set = NoSet /\ RowSound(c)
        /\ docs[c].source \in {"none", "dn_number", "manual"}
    BY <1>3, TypeParts DEF Unattached, PlacementInv, Rows, Sources
  <2>2. docs[c].source # "dn_number"
    BY <2>1 DEF RowSound
  <2>3. docs[c].source = "none" => docs[c].number = Printed[c]
    BY <2>1 DEF RowSound
  <2> QED
    BY <1>5, <2>1, <2>2, <2>3 DEF SeenSound, Typed
<1> QED
  BY <1>1, <1>2, <1>5, <1>6

\* The fields of a job after a document was visited.
LEMMA RestFields ==
  ASSUME TypeOK, NEW d, NEW s, NEW n, NEW g
  PROVE  LET rest == [job[Sync] EXCEPT !.todo = @ \ {d}]
             j1 == [rest EXCEPT !.doc = d, !.set = s]
             j2 == [rest EXCEPT !.doc = d, !.number = n]
             j3 == [rest EXCEPT !.doc = d, !.set = s, !.number = n, !.guess = g]
         IN /\ rest.todo = job[Sync].todo \ {d} /\ rest.seen = job[Sync].seen
            /\ j1.todo = rest.todo /\ j1.seen = rest.seen /\ j1.doc = d /\ j1.set = s
            /\ j2.todo = rest.todo /\ j2.seen = rest.seen /\ j2.doc = d /\ j2.number = n
            /\ j3.todo = rest.todo /\ j3.seen = rest.seen /\ j3.doc = d /\ j3.set = s
            /\ j3.guess = g
<1> DEFINE rest == [job[Sync] EXCEPT !.todo = @ \ {d}]
<1>1. job[Sync] \in Jobs
  BY TypeParts DEF Actors
<1>2. /\ rest.todo = job[Sync].todo \ {d} /\ rest.seen = job[Sync].seen
      /\ DOMAIN rest = {"todo", "seen", "doc", "set", "number", "kind", "guess"}
  BY <1>1 DEF Jobs
<1> HIDE DEF rest
<1>3. [rest EXCEPT !.doc = d, !.set = s].todo = rest.todo
  BY <1>2
<1> QED
  BY <1>2 DEF rest

\* The visit of a document by group_document.
LEMMA GroupPlacement ==
  ASSUME TypeOK, PlacementInv, NEW d \in Docs, Group(d)
  PROVE  PlacementInv'
<1> DEFINE n == docs[d].number
           rest == [job[Sync] EXCEPT !.todo = @ \ {d}]
<1>1. UNCHANGED <<sets, docs>> /\ (\A c \in Docs : RowSound(c)')
  BY StillRows, SetSteps DEF Group
<1>2. \A o \in Operators : RequestSound(o)'
  BY SyncMoves DEF Group
<1>3. Sync \in Actors /\ pc \in [Actors -> Places] /\ job \in [Actors -> Jobs]
  BY TypeParts DEF Actors
<1>4. ASSUME docs[d].set = NoSet, n.key # NoKey, ~docs[d].unsure
      PROVE  /\ Unplaced(d)
             /\ Typed(d) \/ (docs[d].stage = "valid" /\ n = Printed[d])
  <2>1. RowSound(d) /\ docs[d].source \in {"none", "dn_number", "manual"}
    BY TypeParts DEF PlacementInv, Rows, Sources
  <2>2. NoNumber.key = NoKey
    BY DEF NoNumber
  <2> QED
    BY <1>4, <2>1, <2>2 DEF RowSound, Unplaced, Typed
<1>5. JobSound'
  <2>1. CASE UNCHANGED pc
    BY <2>1, NoPlacement DEF Group, At
  <2>2. ASSUME docs[d].set = NoSet, n.key # NoKey, ~docs[d].unsure, NEW s \in Matching(n),
               Keep(Sync, [rest EXCEPT !.doc = d, !.set = s]), Goto(Sync, "placing")
        PROVE  JobSound'
    <3>1. pc'[Sync] = "placing" /\ job'[Sync].doc = d /\ job'[Sync].set = s
      BY <1>3, <2>2, RestFields DEF Keep, Goto
    <3>2. s \in Sets /\ Status(s) = "open" /\ sets[s].key = n.key /\ Compatible(sets[s].letters, n.letters)
      BY <2>2 DEF Matching, OpenSets
    <3>3. Unplaced(d) /\ (Typed(d) \/ (Suits(d, s) /\ Printed[d].key # NoKey))
      BY <1>4, <2>2, <3>2 DEF Suits, Compatible
    <3>4. Fits(d, s) /\ Vouched(d, s)
      BY <3>3 DEF Fits, Vouched, Typed
    <3>5. Unplaced(d)' /\ Fits(d, s)' /\ Vouched(d, s)'
      BY <1>1, <3>3, <3>4 DEF Unplaced, Fits, Vouched, Typed, Suits, Status
    <3> QED
      BY <3>1, <3>2, <3>5 DEF JobSound
  <2>3. ASSUME docs[d].set = NoSet, n.key # NoKey, ~docs[d].unsure,
               Keep(Sync, [rest EXCEPT !.doc = d, !.number = n]), Goto(Sync, "minting")
        PROVE  JobSound'
    <3>1. pc'[Sync] = "minting" /\ job'[Sync].doc = d /\ job'[Sync].number = n
      BY <1>3, <2>3, RestFields DEF Keep, Goto
    <3>2. Unplaced(d)' /\ (Typed(d) => Typed(d)')
      BY <1>1, <1>4, <2>3 DEF Unplaced, Typed
    <3> QED
      BY <1>1, <1>4, <2>3, <3>1, <3>2 DEF JobSound
  <2> QED
    BY <2>1, <2>2, <2>3 DEF Group
<1> QED
  BY <1>1, <1>2, <1>5 DEF PlacementInv

\* The INSERT on behalf of the sync.
LEMMA MintPlacement ==
  ASSUME TypeOK, PlacementInv, Mint, NEW d, d = job[Sync].doc, NEW n, n = job[Sync].number
  PROVE  PlacementInv'
<1>1. UNCHANGED docs /\ SetsGrow /\ (\A c \in Docs : RowSound(c)')
  BY StillRows, SetSteps DEF Mint
<1>2. \A o \in Operators : RequestSound(o)'
  BY SyncMoves DEF Mint, Insert
<1>3. Sync \in Actors /\ pc \in [Actors -> Places] /\ job \in [Actors -> Jobs] /\ job[Sync] \in Jobs
  BY TypeParts DEF Actors
<1>4. /\ d \in Docs /\ Unplaced(d)
      /\ \/ Typed(d)
         \/ /\ docs[d].stage = "valid" /\ ~docs[d].unsure
            /\ n = Printed[d] /\ Printed[d].key # NoKey
  BY DEF Mint, At, PlacementInv, JobSound
<1>5. ASSUME NEW s \in Sets, Keep(Sync, [job[Sync] EXCEPT !.set = s]), Goto(Sync, "placing"),
             Status(s)' = "open", sets'[s].key = n.key, Compatible(sets'[s].letters, n.letters)
      PROVE  JobSound'
  <2>1. pc'[Sync] = "placing" /\ job'[Sync].doc = d /\ job'[Sync].set = s
    BY <1>3, <1>5 DEF Keep, Goto, Jobs
  <2>2. Unplaced(d)' /\ (Typed(d) => Typed(d)')
    BY <1>1, <1>4 DEF Unplaced, Typed
  <2>3. ~Typed(d) => Suits(d, s)'
    BY <1>1, <1>4, <1>5 DEF Suits, Compatible
  <2>4. Fits(d, s)' /\ Vouched(d, s)'
    BY <1>1, <1>4, <2>2, <2>3 DEF Fits, Vouched, Typed
  <2> QED
    BY <1>4, <1>5, <2>1, <2>2, <2>4 DEF JobSound
<1>6. JobSound'
  <2>1. ASSUME NEW s \in Unused, Created(s, n),
               Keep(Sync, [job[Sync] EXCEPT !.set = s]), Goto(Sync, "placing")
        PROVE  JobSound'
    <3>1. s \in Sets /\ sets'[s] = [status |-> "open", key |-> n.key, letters |-> n.letters]
      BY <2>1, TypeParts DEF Created, Unused
    <3>2. Status(s)' = "open" /\ sets'[s].key = n.key /\ Compatible(sets'[s].letters, n.letters)
      BY <3>1 DEF Status, Compatible
    <3> QED
      BY <1>5, <2>1, <3>1, <3>2
  <2>2. ASSUME NEW s \in Matching(n), UNCHANGED sets,
               Keep(Sync, [job[Sync] EXCEPT !.set = s]), Goto(Sync, "placing")
        PROVE  JobSound'
    <3>1. s \in Sets /\ Status(s)' = "open" /\ sets'[s].key = n.key /\ Compatible(sets'[s].letters, n.letters)
      BY <2>2 DEF Matching, OpenSets, Status
    <3> QED
      BY <1>5, <2>2, <3>1
  <2>3. CASE Goto(Sync, "grouping")
    BY <1>3, <2>3, NoPlacement DEF Goto
  <2> QED
    BY <2>1, <2>2, <2>3 DEF Mint, Insert
<1> QED
  BY <1>1, <1>2, <1>6 DEF PlacementInv

\* The visit of a document by the sweep for documents without a number.
LEMMA ResolvePlacement ==
  ASSUME TypeOK, PlacementInv, NEW d \in Docs, Resolve(d)
  PROVE  PlacementInv'
<1> DEFINE was == job[Sync].seen[d]
           rest == [job[Sync] EXCEPT !.todo = @ \ {d}]
<1>1. UNCHANGED <<sets, docs>> /\ (\A c \in Docs : RowSound(c)')
  BY StillRows, SetSteps DEF Resolve
<1>2. \A o \in Operators : RequestSound(o)'
  BY SyncMoves DEF Resolve
<1>3. Sync \in Actors /\ pc \in [Actors -> Places] /\ job \in [Actors -> Jobs] /\ pc[Sync] = "resolving"
  BY TypeParts DEF Actors, Resolve, At
<1>4. SeenSound(d) /\ \A c \in job[Sync].todo : SeenSound(c)
  BY <1>3 DEF PlacementInv, JobSound, Resolve
<1>5. ASSUME job'[Sync].todo = job[Sync].todo \ {d}, job'[Sync].seen = job[Sync].seen
      PROVE  \A c \in job'[Sync].todo : SeenSound(c)'
  BY <1>1, <1>4, <1>5 DEF SeenSound, Typed
<1>6. CASE Keep(Sync, rest) /\ UNCHANGED pc
  <2>1. job'[Sync].todo = job[Sync].todo \ {d} /\ job'[Sync].seen = job[Sync].seen /\ pc'[Sync] = "resolving"
    BY <1>3, <1>6, RestFields DEF Keep
  <2> QED
    BY <1>1, <1>2, <1>5, <2>1 DEF PlacementInv, JobSound
<1>7. ASSUME NEW s \in Common(Anchors(d)), ~was.unsure, was.number.key = NoKey, Status(s) = "open",
             Compatible(sets[s].letters, was.number.letters), NEW n,
             Keep(Sync, [rest EXCEPT !.doc = d, !.set = s, !.number = n,
                            !.guess = Common(Siblings(d)) # {} /\ was.source # "manual"]),
             Goto(Sync, "linking")
      PROVE  PlacementInv'
  <2> DEFINE g == Common(Siblings(d)) # {} /\ was.source # "manual"
  <2>1. /\ job'[Sync].todo = job[Sync].todo \ {d} /\ job'[Sync].seen = job[Sync].seen /\ pc'[Sync] = "linking"
        /\ job'[Sync].doc = d /\ job'[Sync].set = s /\ job'[Sync].guess = g
    BY <1>3, <1>7, RestFields DEF Keep, Goto
  <2>2. s \in Sets
    BY <1>7 DEF Common
  <2>3. Unplaced(d) /\ docs[d].stage = "valid"
    BY <1>4 DEF SeenSound, Unplaced, Typed
  <2>4. was.source # "manual" => Suits(d, s)
    BY <1>4, <1>7, <2>2 DEF SeenSound, Suits, Compatible
  <2>5. was.source = "manual" => Typed(d)
    BY <1>4 DEF SeenSound
  <2>6. ASSUME ~g, was.source # "manual"
        PROVE  Vouched(d, s)
    <3>1. Anchors(d) = Namers(d)
      BY <2>6 DEF Anchors
    <3>2. PICK p \in Namers(d) : docs[p].set = s
      BY <1>7, <3>1 DEF Common
    <3> QED
      BY <3>2 DEF Vouched, Namers
  <2>7. Fits(d, s) /\ IF g THEN Suits(d, s) ELSE Vouched(d, s)
    BY <2>4, <2>5, <2>6 DEF Fits, Vouched, Typed
  <2> HIDE DEF g
  <2>8. /\ Unplaced(d)' /\ Fits(d, s)' /\ IF g THEN Suits(d, s)' ELSE Vouched(d, s)'
        /\ docs'[d].stage = "valid"
    BY <1>1, <2>3, <2>7 DEF Unplaced, Fits, Vouched, Typed, Suits, Status
  <2>9. JobSound'
    BY <1>5, <2>1, <2>2, <2>8 DEF JobSound
  <2> QED
    BY <1>1, <1>2, <2>9 DEF PlacementInv
<1> QED
  BY <1>6, <1>7 DEF Resolve

\* The visit of a document by the sweep for documents with a number.
LEMMA AttachPlacement ==
  ASSUME TypeOK, PlacementInv, NEW d \in Docs, Attach(d)
  PROVE  PlacementInv'
<1> DEFINE was == job[Sync].seen[d]
           rest == [job[Sync] EXCEPT !.todo = @ \ {d}]
<1>1. UNCHANGED <<sets, docs>> /\ (\A c \in Docs : RowSound(c)')
  BY StillRows, SetSteps DEF Attach
<1>2. \A o \in Operators : RequestSound(o)'
  BY SyncMoves DEF Attach
<1>3. Sync \in Actors /\ pc \in [Actors -> Places] /\ job \in [Actors -> Jobs] /\ pc[Sync] = "attaching"
  BY TypeParts DEF Actors, Attach, At
<1>4. /\ SeenSound(d) /\ was.number.key # NoKey
      /\ \A c \in job[Sync].todo : SeenSound(c) /\ job[Sync].seen[c].number.key # NoKey
  BY <1>3 DEF PlacementInv, JobSound, Attach
<1>5. ASSUME job'[Sync].todo = job[Sync].todo \ {d}, job'[Sync].seen = job[Sync].seen
      PROVE  \A c \in job'[Sync].todo : SeenSound(c)' /\ job'[Sync].seen[c].number.key # NoKey
  BY <1>1, <1>4, <1>5 DEF SeenSound, Typed
<1>6. CASE Keep(Sync, rest) /\ UNCHANGED pc
  <2>1. job'[Sync].todo = job[Sync].todo \ {d} /\ job'[Sync].seen = job[Sync].seen /\ pc'[Sync] = "attaching"
    BY <1>3, <1>6, RestFields DEF Keep
  <2> QED
    BY <1>1, <1>2, <1>5, <2>1 DEF PlacementInv, JobSound
<1>7. ASSUME ~was.unsure, NEW s \in Matching(was.number),
             Keep(Sync, [rest EXCEPT !.doc = d, !.set = s]), Goto(Sync, "joining")
      PROVE  PlacementInv'
  <2>1. /\ job'[Sync].todo = job[Sync].todo \ {d} /\ job'[Sync].seen = job[Sync].seen /\ pc'[Sync] = "joining"
        /\ job'[Sync].doc = d /\ job'[Sync].set = s
    BY <1>3, <1>7, RestFields DEF Keep, Goto
  <2>2. /\ s \in Sets /\ Status(s) = "open" /\ sets[s].key = was.number.key
        /\ Compatible(sets[s].letters, was.number.letters)
    BY <1>7 DEF Matching, OpenSets
  <2>3. Unplaced(d)
    BY <1>4 DEF SeenSound, Unplaced, Typed
  <2>4. Typed(d) \/ (Suits(d, s) /\ Printed[d].key # NoKey)
    BY <1>4, <1>7, <2>2 DEF SeenSound, Suits, Compatible
  <2>5. Fits(d, s) /\ Vouched(d, s)
    BY <2>4 DEF Fits, Vouched, Typed
  <2>6. Unplaced(d)' /\ Fits(d, s)' /\ Vouched(d, s)'
    BY <1>1, <2>3, <2>5 DEF Unplaced, Fits, Vouched, Typed, Suits, Status
  <2>7. JobSound'
    BY <1>5, <2>1, <2>2, <2>6 DEF JobSound
  <2> QED
    BY <1>1, <1>2, <2>7 DEF PlacementInv
<1> QED
  BY <1>6, <1>7 DEF Attach

\* The UPDATE that puts a document into the set its placement carries.
LEMMA WrittenSound ==
  ASSUME TypeOK, PlacementInv, UNCHANGED sets,
         NEW d \in Docs, NEW s \in Sets, docs' = [docs EXCEPT ![d].set = s],
         Unplaced(d), Fits(d, s), Vouched(d, s)
  PROVE  DocsGrow /\ \A c \in Docs : RowSound(c)'
<1>1. /\ docs \in [Docs -> Rows] /\ NoSet \notin Sets
      /\ \A c \in Docs : docs[c].source \in {"none", "dn_number", "manual"}
  BY TypeParts, GroupingAssumption DEF Rows, Sources
<1>2. /\ docs'[d].set = s /\ docs'[d].source = docs[d].source /\ docs'[d].stage = docs[d].stage
      /\ docs'[d].unsure = docs[d].unsure /\ docs'[d].number = docs[d].number
      /\ \A c \in Docs \ {d} : docs'[c] = docs[c]
  BY <1>1 DEF Rows
<1>3. DocsGrow /\ SetsGrow
  <2>1. DocsGrow
    BY <1>2 DEF DocsGrow, Unplaced
  <2> QED
    BY <2>1, SetSteps
<1>4. Fits(d, s)' /\ Vouched(d, s)'
  BY <1>2, <1>3, SuitsStays, VouchedStays DEF Fits, Typed
<1>5. RowSound(d)'
  <2>1. docs[d].source = "dn_number" \/ docs[d].source = "none" => Suits(d, s)
    BY DEF Fits, Typed
  <2>2. docs[d].source \in {"dn_number", "none"} => docs[d].stage = "valid"
    BY <2>1 DEF Suits
  <2> QED
    BY <1>1, <1>2, <1>4, <2>2 DEF RowSound
<1>6. \A c \in Docs \ {d} : RowSound(c)'
  BY <1>2, <1>3, RowKept DEF PlacementInv
<1> QED
  BY <1>3, <1>5, <1>6

LEMMA PlacedFields ==
  ASSUME TypeOK, NEW p, Placed(p)
  PROVE  /\ pc'[Sync] = p /\ UNCHANGED sets
         /\ job'[Sync].todo = job[Sync].todo /\ job'[Sync].seen = job[Sync].seen
<1> DEFINE j == [NoJob EXCEPT !.todo = job[Sync].todo, !.seen = job[Sync].seen]
<1>1. j.todo = job[Sync].todo /\ j.seen = job[Sync].seen
  BY DEF NoJob
<1>2. job'[Sync] = j
  BY TypeParts DEF Placed, Keep, Actors
<1> HIDE DEF j
<1> QED
  BY <1>1, <1>2, TypeParts DEF Placed, Goto, Actors

\* A row that a sweep has still to visit is not touched by what it writes.
LEMMA TodoKept ==
  ASSUME NEW D, \A c \in D : SeenSound(c) /\ docs'[c] = docs[c] /\ job'[Sync].seen = job[Sync].seen
  PROVE  \A c \in D : SeenSound(c)'
BY DEF SeenSound, Typed

LEMMA PlacePlacement ==
  ASSUME TypeOK, PlacementInv, Place \/ Join
  PROVE  PlacementInv'
<1>1. PICK d \in Docs : d = job[Sync].doc /\ Unplaced(d)
  BY DEF Place, Join, At, PlacementInv, JobSound
<1>2. PICK s \in Sets : s = job[Sync].set /\ Fits(d, s) /\ Vouched(d, s)
  BY <1>1 DEF Place, Join, At, PlacementInv, JobSound
<1>3. docs' = [docs EXCEPT ![d].set = s] /\ UNCHANGED sets
  BY <1>1, <1>2 DEF Place, Join, Placed
<1>4. \A c \in Docs : RowSound(c)'
  BY <1>1, <1>2, <1>3, WrittenSound
<1>5. \A o \in Operators : RequestSound(o)'
  BY SyncMoves DEF Place, Join, Placed
<1>6. JobSound'
  <2>1. CASE Place
    BY <2>1, PlacedFields, NoPlacement DEF Place
  <2>2. CASE Join
    <3>1. pc'[Sync] = "attaching" /\ job'[Sync].todo = job[Sync].todo /\ job'[Sync].seen = job[Sync].seen
      BY <2>2, PlacedFields DEF Join
    <3>2. /\ d \notin job[Sync].todo
          /\ \A c \in job[Sync].todo : SeenSound(c) /\ job[Sync].seen[c].number.key # NoKey
      BY <1>1, <2>2 DEF Join, At, PlacementInv, JobSound
    <3>3. job[Sync].todo \subseteq Docs
      BY TypeParts DEF Actors, Jobs
    <3>4. \A c \in job[Sync].todo : docs'[c] = docs[c]
      BY <1>3, <3>2, <3>3, TypeParts
    <3>5. \A c \in job[Sync].todo : SeenSound(c)'
      BY <3>1, <3>2, <3>4, TodoKept
    <3> QED
      BY <3>1, <3>2, <3>5 DEF JobSound
  <2> QED
    BY <2>1, <2>2
<1> QED
  BY <1>4, <1>5, <1>6 DEF PlacementInv

\* The UPDATE of the sweep by DN number writes over whatever a person filed since
\* the row was loaded; the set it writes still suits what the document prints.
LEMMA LinkPlacement ==
  ASSUME TypeOK, PlacementInv, Link
  PROVE  PlacementInv'
<1> DEFINE j == job[Sync]
<1>1. pc[Sync] = "linking"
  BY DEF Link, At
<1>2. PICK d \in Docs : d = j.doc /\ Unplaced(d) /\ docs[d].stage = "valid" /\ d \notin j.todo
  BY <1>1 DEF PlacementInv, JobSound
<1>3. PICK s \in Sets : /\ s = j.set /\ Fits(d, s)
                        /\ IF j.guess THEN Suits(d, s) ELSE Vouched(d, s)
  BY <1>1, <1>2 DEF PlacementInv, JobSound
<1>4. /\ docs \in [Docs -> Rows] /\ NoSet \notin Sets
      /\ \A c \in Docs : docs[c].source \in {"none", "dn_number", "manual"}
  BY TypeParts, GroupingAssumption DEF Rows, Sources
<1>5. /\ docs'[d].set = s /\ docs'[d].stage = docs[d].stage /\ docs'[d].unsure = docs[d].unsure
      /\ docs'[d].source = IF j.guess THEN "dn_number" ELSE docs[d].source
      /\ \A c \in Docs \ {d} : docs'[c] = docs[c]
  <2> DEFINE num == IF j.number.key # NoKey
                    THEN [docs[d].number EXCEPT !.key = j.number.key] ELSE docs[d].number
             src == IF j.guess THEN "dn_number" ELSE docs[d].source
             row == [docs[d] EXCEPT !.set = s, !.number = num, !.source = src]
  <2>1. docs' = [docs EXCEPT ![d] = row]
    BY <1>2, <1>3 DEF Link
  <2> HIDE DEF num, src
  <2>2. row.set = s /\ row.stage = docs[d].stage /\ row.unsure = docs[d].unsure /\ row.source = src
    BY <1>4 DEF Rows
  <2> HIDE DEF row
  <2> QED
    BY <1>4, <2>1, <2>2 DEF src
<1>6. UNCHANGED sets /\ SetsGrow
  BY SetSteps DEF Link, Placed
<1>7. DocsGrow
  BY <1>5, <1>2 DEF DocsGrow, Unplaced
<1>8. \A c \in Docs \ {d} : RowSound(c)'
  BY <1>5, <1>6, <1>7, RowKept DEF PlacementInv
<1>9. RowSound(d)'
  <2>1. CASE j.guess
    <3>1. Suits(d, s)'
      BY <1>3, <1>6, <1>7, <2>1, SuitsStays
    <3> QED
      BY <1>2, <1>4, <1>5, <2>1, <3>1 DEF RowSound, Fits, Vouched
  <2>2. CASE ~j.guess
    <3>1. Fits(d, s)' /\ Vouched(d, s)'
      BY <1>3, <1>5, <1>6, <1>7, <2>2, SuitsStays, VouchedStays DEF Fits, Typed
    <3> QED
      BY <1>2, <1>4, <1>5, <3>1 DEF RowSound
  <2> QED
    BY <2>1, <2>2
<1>10. \A o \in Operators : RequestSound(o)'
  BY SyncMoves DEF Link, Placed
<1>11. JobSound'
  <2>1. pc'[Sync] = "resolving" /\ job'[Sync].todo = job[Sync].todo /\ job'[Sync].seen = job[Sync].seen
    BY PlacedFields DEF Link
  <2>2. j.todo \subseteq Docs
    BY TypeParts DEF Actors, Jobs
  <2>3. \A c \in j.todo : SeenSound(c) /\ docs'[c] = docs[c]
    BY <1>1, <1>2, <1>5, <2>2 DEF PlacementInv, JobSound
  <2>4. \A c \in job[Sync].todo : SeenSound(c)'
    BY <2>1, <2>3, TodoKept
  <2> QED
    BY <2>1, <2>4 DEF JobSound
<1> QED
  BY <1>8, <1>9, <1>10, <1>11 DEF PlacementInv

\* A reading; until then the row of a document without a typed number is empty.
LEMMA ReadPlacement ==
  ASSUME TypeOK, PlacementInv, NEW d \in Docs, Read(d)
  PROVE  PlacementInv'
<1> DEFINE typed == docs[d].source = "manual"
           row(v) == [docs[d] EXCEPT
                        !.stage = "valid", !.kind = KindOf[d],
                        !.number = IF typed THEN @ ELSE Printed[d], !.unsure = v /\ ~typed,
                        !.set = IF ~typed /\ (v \/ Printed[d].key = NoKey) THEN NoSet ELSE @]
<1>1. PICK v \in BOOLEAN : docs' = [docs EXCEPT ![d] = row(v)]
  BY DEF Read
<1>2. docs \in [Docs -> Rows] /\ docs[d] \in Rows /\ docs[d].source \in {"none", "dn_number", "manual"}
  BY TypeParts DEF Rows, Sources
<1>3. /\ row(v).stage = "valid" /\ row(v).source = docs[d].source
      /\ row(v).number = IF typed THEN docs[d].number ELSE Printed[d]
      /\ row(v).set = IF ~typed /\ (v \/ Printed[d].key = NoKey) THEN NoSet ELSE docs[d].set
  BY <1>2 DEF Rows
<1> HIDE DEF row
<1>4. /\ docs'[d].stage = "valid" /\ docs'[d].source = docs[d].source
      /\ docs'[d].number = IF typed THEN docs[d].number ELSE Printed[d]
      /\ docs'[d].set = IF ~typed /\ (v \/ Printed[d].key = NoKey) THEN NoSet ELSE docs[d].set
      /\ \A c \in Docs \ {d} : docs'[c] = docs[c]
  BY <1>1, <1>2, <1>3
<1>5. docs[d].stage = "pending" /\ RowSound(d) /\ UNCHANGED <<sets, pc, job>> /\ pc[Sync] = "reading"
  BY DEF Read, PlacementInv, At
<1>6. typed \/ (docs[d].source = "none" /\ docs[d].set = NoSet)
  BY <1>2, <1>5 DEF RowSound
<1>7. DocsGrow /\ SetsGrow
  <2>1. DocsGrow
    BY <1>4, <1>5, <1>6 DEF DocsGrow
  <2> QED
    BY <1>5, <2>1, SetSteps
<1>8. \A c \in Docs \ {d} : RowSound(c)'
  BY <1>4, <1>7, RowKept DEF PlacementInv
<1>9. RowSound(d)'
  BY <1>4, <1>6 DEF RowSound, Fits, Typed, Vouched
<1>10. JobSound' /\ \A o \in Operators : RequestSound(o)'
  BY <1>5, NoPlacement, RequestKept DEF PlacementInv
<1> QED
  BY <1>8, <1>9, <1>10 DEF PlacementInv

LEMMA SyncPlacement ==
  ASSUME TypeOK, PlacementInv, SyncStep
  PROVE  PlacementInv'
<1>0. Sync \in Actors /\ pc \in [Actors -> Places] /\ job \in [Actors -> Jobs]
  BY TypeParts DEF Actors
<1>1. CASE SyncStart \/ ReadingEnds \/ SyncEnds
  <2>1. UNCHANGED <<sets, docs>> /\ pc'[Sync] \in {"idle", "reading", "grouping"}
    BY <1>0, <1>1 DEF SyncStart, ReadingEnds, SyncEnds, Goto
  <2>2. \A o \in Operators : RequestSound(o)'
    BY <1>1, SyncMoves DEF SyncStart, ReadingEnds, SyncEnds
  <2> QED
    BY <2>1, <2>2, StillRows, SetSteps, NoPlacement DEF PlacementInv
<1>2. CASE GroupingEnds \/ ResolvingEnds
  <2>1. PICK D \in SUBSET Unattached :
          /\ Sweep(D)
          /\ pc'[Sync] = "resolving" \/ (pc'[Sync] = "attaching" /\ \A c \in D : docs[c].number.key # NoKey)
    <3>1. CASE GroupingEnds
      BY <1>0, <3>1 DEF GroupingEnds, Goto
    <3>2. CASE ResolvingEnds
      <4>1. {d \in Unattached : docs[d].number.key # NoKey} \in SUBSET Unattached
        OBVIOUS
      <4> QED
        BY <1>0, <3>2, <4>1 DEF ResolvingEnds, Goto
    <3> QED
      BY <1>2, <3>1, <3>2
  <2>2. UNCHANGED <<sets, docs>>
    BY <1>2 DEF GroupingEnds, ResolvingEnds
  <2>3. job'[Sync].todo = D /\ \A c \in D : SeenSound(c)' /\ job'[Sync].seen[c] = docs[c]
    BY <2>1, <2>2, SweepSound
  <2>4. JobSound'
    BY <2>1, <2>3 DEF JobSound
  <2>5. \A o \in Operators : RequestSound(o)'
    BY <1>2, SyncMoves DEF GroupingEnds, ResolvingEnds, Sweep
  <2> QED
    BY <2>2, <2>4, <2>5, StillRows, SetSteps DEF PlacementInv
<1> QED
  BY <1>1, <1>2, GroupPlacement, MintPlacement, ResolvePlacement, AttachPlacement,
     PlacePlacement, LinkPlacement, ReadPlacement DEF SyncStep

\* A step of one request: the sync and the other requests are where they were.
LEMMA RequestMoves ==
  ASSUME TypeOK, PlacementInv, NEW o \in Operators,
         job' = job \/ \E j : Keep(o, j),
         pc' = pc \/ \E p : Goto(o, p)
  PROVE  /\ pc'[Sync] = pc[Sync] /\ job'[Sync] = job[Sync]
         /\ \A u \in Operators \ {o} : RequestSound(u)'
<1>1. /\ pc'[Sync] = pc[Sync] /\ job'[Sync] = job[Sync]
      /\ \A u \in Operators \ {o} : pc'[u] = pc[u] /\ job'[u] = job[u]
  BY TypeParts, GroupingAssumption DEF Keep, Goto, Actors
<1> QED
  BY <1>1, RequestKept DEF PlacementInv

\* A step that leaves the rows and the sync alone.
LEMMA AsideKept ==
  ASSUME TypeOK, PlacementInv, UNCHANGED docs, SetsGrow,
         pc'[Sync] = pc[Sync], job'[Sync] = job[Sync]
  PROVE  JobSound' /\ \A d \in Docs : RowSound(d)'
<1>1. \A d \in Docs : /\ Typed(d) => Typed(d)'
                      /\ docs[d].set = NoSet => docs'[d].set = NoSet \/ Typed(d)'
  BY DEF Typed
<1> QED
  BY <1>1, SameDocsGrow, StillRows, JobKept DEF PlacementInv

LEMMA RefusedFields ==
  ASSUME TypeOK, NEW o \in Operators, Refused(o)
  PROVE  RequestSound(o)'
<1>1. pc'[o] = "idle"
  BY TypeParts DEF Refused, Goto, Actors
<1> QED
  BY <1>1 DEF RequestSound

\* Choosing the set and creating it: a request with a number keeps it.
LEMMA ChoosePlacement ==
  ASSUME TypeOK, PlacementInv, NEW o \in Operators, Choose(o) \/ Open(o)
  PROVE  PlacementInv'
<1>1. o \in Actors /\ pc \in [Actors -> Places] /\ job \in [Actors -> Jobs] /\ job[o] \in Jobs
  BY TypeParts DEF Actors
<1>2. UNCHANGED docs /\ SetsGrow
  BY SetSteps DEF Choose, Open
<1>3. (job' = job \/ \E j : Keep(o, j)) /\ (pc' = pc \/ \E p : Goto(o, p))
  BY DEF Choose, Open, Insert, Refused
<1>4. job[o].number # NoNumber
  BY DEF Choose, Open, At, PlacementInv, RequestSound
<1>5. RequestSound(o)'
  <2>1. CASE Refused(o)
    BY <2>1, RefusedFields
  <2>2. CASE Goto(o, "idle")
    BY <1>1, <2>2 DEF Goto, RequestSound
  <2>3. CASE job' = job \/ \E s : Keep(o, [job[o] EXCEPT !.set = s])
    <3>1. job'[o].number = job[o].number
      BY <1>1, <2>3 DEF Keep, Jobs
    <3> QED
      BY <1>4, <3>1 DEF RequestSound
  <2> QED
    BY <2>1, <2>2, <2>3 DEF Choose, Open, Insert
<1> QED
  BY <1>2, <1>3, <1>5, RequestMoves, AsideKept DEF PlacementInv

\* The commit of a request: with a number, the row is a person's from then on;
\* without, neither its set nor its number changes.
LEMMA FilePlacement ==
  ASSUME TypeOK, PlacementInv, NEW o \in Operators, File(o)
  PROVE  PlacementInv'
<1> DEFINE j == job[o]
           typed == j.number # NoNumber
<1>1. /\ pc'[Sync] = pc[Sync] /\ job'[Sync] = job[Sync]
      /\ \A u \in Operators : RequestSound(u)'
  BY RequestMoves, RefusedFields DEF File, Refused
<1>2. UNCHANGED sets /\ SetsGrow
  BY SetSteps DEF File
<1>3. CASE UNCHANGED docs
  BY <1>1, <1>2, <1>3, AsideKept DEF PlacementInv
<1>4. ASSUME NEW d \in Docs, d = j.doc, docs' = [docs EXCEPT ![d] = Filed(docs[d], j.seen[d], j)]
      PROVE  PlacementInv'
  <2> DEFINE row == Filed(docs[d], j.seen[d], j)
  <2>1. docs \in [Docs -> Rows] /\ docs[d] \in Rows
    BY TypeParts
  <2>2. ~typed => j.set = NoSet
    BY DEF File, At, PlacementInv, RequestSound
  <2>3. /\ row.stage = docs[d].stage /\ (row.unsure => docs[d].unsure)
        /\ row.source = IF typed THEN "manual" ELSE docs[d].source
        /\ ~typed => row.number = docs[d].number
        /\ row.set = IF j.set # NoSet THEN j.set ELSE docs[d].set
    BY <2>1 DEF Filed, Rows
  <2> HIDE DEF row
  <2>4. docs'[d] = row /\ \A c \in Docs \ {d} : docs'[c] = docs[c]
    BY <1>4, <2>1 DEF row
  <2>5. DocsGrow
    BY <2>2, <2>3, <2>4 DEF DocsGrow
  <2>6. \A c \in Docs \ {d} : RowSound(c)'
    BY <1>2, <2>4, <2>5, RowKept DEF PlacementInv
  <2>7. RowSound(d)'
    <3>1. CASE typed
      BY <2>3, <2>4, <3>1 DEF RowSound, Fits, Typed, Vouched
    <3>2. CASE ~typed
      <4>1. docs'[d].set = docs[d].set /\ docs'[d].source = docs[d].source
            /\ docs'[d].number = docs[d].number /\ docs'[d].stage = docs[d].stage
        BY <2>2, <2>3, <2>4, <3>2
      <4> QED
        BY <1>2, <2>5, <4>1, RowKept DEF PlacementInv
    <3> QED
      BY <3>1, <3>2
  <2>8. \A c \in Docs : /\ Typed(c) => Typed(c)'
                        /\ docs[c].set = NoSet => docs'[c].set = NoSet \/ Typed(c)'
    BY <2>2, <2>3, <2>4 DEF Typed
  <2>9. JobSound'
    BY <1>1, <1>2, <2>5, <2>8, JobKept DEF PlacementInv
  <2> QED
    BY <1>1, <2>6, <2>7, <2>9 DEF PlacementInv
<1>5. j.doc \notin Docs => UNCHANGED docs
  BY TypeParts DEF File
<1> QED
  BY <1>3, <1>4, <1>5 DEF File

\* Steps that change a row in nothing that its placement depends on, or confirm it.
LEMMA RowsAside ==
  ASSUME TypeOK, PlacementInv, SetsGrow,
         pc'[Sync] = pc[Sync], job'[Sync] = job[Sync],
         \A u \in Operators : RequestSound(u)',
         \A d \in Docs : \/ docs'[d] = docs[d]
                         \/ /\ docs'[d].set = docs[d].set /\ docs'[d].number = docs[d].number
                            /\ docs'[d].source = docs[d].source /\ docs'[d].unsure = docs[d].unsure
                            /\ docs'[d].stage = docs[d].stage
                         \/ /\ docs[d].source = "dn_number" /\ docs'[d].source = "manual"
                            /\ docs'[d].set = docs[d].set /\ docs'[d].unsure = docs[d].unsure
                            /\ docs'[d].stage = docs[d].stage
                         \/ /\ docs[d].stage = "absent" /\ docs'[d].stage = "pending"
                            /\ docs'[d].set = docs[d].set /\ docs'[d].number = docs[d].number
                            /\ docs'[d].source = docs[d].source
  PROVE  PlacementInv'
<1>1. DocsGrow
  BY DEF DocsGrow
<1>2. \A d \in Docs : /\ Typed(d) => Typed(d)'
                      /\ docs[d].set = NoSet => docs'[d].set = NoSet \/ Typed(d)'
  BY DEF Typed
<1>3. ASSUME NEW d \in Docs
      PROVE  RowSound(d)'
  <2>1. CASE docs'[d].set = docs[d].set /\ docs'[d].number = docs[d].number
             /\ docs'[d].source = docs[d].source /\ docs'[d].stage = docs[d].stage
    BY <1>1, <2>1, RowKept DEF PlacementInv
  <2>2. CASE docs'[d].source = "manual"
    BY <2>2 DEF RowSound, Fits, Typed, Vouched
  <2>3. CASE /\ docs[d].stage = "absent" /\ docs'[d].stage = "pending"
             /\ docs'[d].set = docs[d].set /\ docs'[d].number = docs[d].number
             /\ docs'[d].source = docs[d].source
    <3>1. RowSound(d)
      BY DEF PlacementInv
    <3>2. docs[d].source \in {"none", "dn_number", "manual"}
      BY TypeParts DEF Rows, Sources
    <3>3. docs[d].source # "dn_number"
      BY <2>3, <3>1 DEF RowSound
    <3> QED
      BY <2>2, <2>3, <3>1, <3>2, <3>3 DEF RowSound
  <2> QED
    BY <2>1, <2>2, <2>3
<1>4. JobSound'
  BY <1>1, <1>2, JobKept DEF PlacementInv
<1> QED
  BY <1>3, <1>4 DEF PlacementInv

LEMMA StepPlacement ==
  ASSUME TypeOK, PlacementInv, [Next]_vars
  PROVE  PlacementInv'
<1>0. docs \in [Docs -> Rows] /\ sets \in [Sets -> SetRows]
      /\ pc \in [Actors -> Places] /\ job \in [Actors -> Jobs]
      /\ Sync \in Actors /\ Operators \subseteq Actors /\ Sync \notin Operators
  BY TypeParts, GroupingAssumption DEF Actors
<1>1. ASSUME UNCHANGED <<pc, job>>
      PROVE  \A u \in Operators : RequestSound(u)'
  BY <1>1 DEF PlacementInv, RequestSound
<1>2. ASSUME NEW d \in Docs, Arrive(d) \/ Confirm(d)
      PROVE  PlacementInv'
  <2>1. UNCHANGED <<sets, pc, job>>
    BY <1>2 DEF Arrive, Confirm
  <2>2. CASE Arrive(d)
    <3>1. /\ docs[d].stage = "absent" /\ docs'[d].stage = "pending"
          /\ docs'[d].set = docs[d].set /\ docs'[d].number = docs[d].number
          /\ docs'[d].source = docs[d].source
          /\ \A c \in Docs \ {d} : docs'[c] = docs[c]
      BY <1>0, <2>2 DEF Arrive, Rows
    <3> QED
      BY <1>1, <2>1, <3>1, RowsAside, SetSteps
  <2>3. CASE Confirm(d)
    <3>1. /\ docs[d].source = "dn_number" /\ docs'[d].source = "manual"
          /\ docs'[d].set = docs[d].set /\ docs'[d].unsure = docs[d].unsure
          /\ docs'[d].stage = docs[d].stage
          /\ \A c \in Docs \ {d} : docs'[c] = docs[c]
      BY <1>0, <2>3 DEF Confirm, Rows
    <3> QED
      BY <1>1, <2>1, <3>1, RowsAside, SetSteps
  <2> QED
    BY <1>2, <2>2, <2>3
<1>3. ASSUME NEW o \in Operators, OperatorStep(o)
      PROVE  PlacementInv'
  <2>1. CASE Shelve(o)
    <3> DEFINE c == job[o].doc
               free == docs[c].shelved \/ docs[c].set = NoSet
    <3>1. docs' = [docs EXCEPT ![c].shelved = free] /\ UNCHANGED sets
      BY <2>1 DEF Shelve
    <3> HIDE DEF c, free
    <3>2. \A d \in Docs : /\ docs'[d].set = docs[d].set /\ docs'[d].number = docs[d].number
                          /\ docs'[d].source = docs[d].source /\ docs'[d].unsure = docs[d].unsure
                          /\ docs'[d].stage = docs[d].stage
      BY <1>0, <3>1 DEF Rows
    <3>3. /\ pc'[Sync] = pc[Sync] /\ job'[Sync] = job[Sync]
          /\ \A u \in Operators : RequestSound(u)'
      BY <2>1, RequestMoves, RefusedFields DEF Shelve, Refused
    <3> QED
      BY <3>1, <3>2, <3>3, RowsAside, SetSteps
  <2> QED
    BY <1>3, <2>1, ChoosePlacement, FilePlacement DEF OperatorStep
<1>4. ASSUME NEW o \in Operators, NEW d \in Docs, SetAside(o, d)
      PROVE  PlacementInv'
  <2>1. pc'[o] = "moving" /\ UNCHANGED <<sets, docs>>
    BY <1>0, <1>4 DEF SetAside, Goto
  <2>2. RequestSound(o)'
    BY <2>1 DEF RequestSound
  <2>3. /\ pc'[Sync] = pc[Sync] /\ job'[Sync] = job[Sync]
        /\ \A u \in Operators \ {o} : RequestSound(u)'
    BY <1>4, RequestMoves DEF SetAside
  <2> QED
    BY <2>1, <2>2, <2>3, AsideKept, SetSteps DEF PlacementInv
<1>5. ASSUME NEW o \in Operators, NEW d \in Docs, NEW c \in Choices, Reclassify(o, d, c[1], c[2])
      PROVE  PlacementInv'
  <2> DEFINE j == [NoJob EXCEPT !.doc = d, !.kind = c[1], !.number = c[2], !.seen[d] = docs[d]]
  <2>1. j.number = c[2] /\ j.set = NoSet
    BY DEF NoJob
  <2>2. job'[o] = j /\ pc'[o] = (IF c[2] = NoNumber THEN "filing" ELSE "choosing") /\ UNCHANGED <<sets, docs>>
    BY <1>0, <1>5 DEF Reclassify, Ask, Keep, Goto
  <2>3. /\ pc'[Sync] = pc[Sync] /\ job'[Sync] = job[Sync]
        /\ \A u \in Operators \ {o} : RequestSound(u)'
    BY <1>5, RequestMoves DEF Reclassify
  <2> HIDE DEF j
  <2>4. RequestSound(o)'
    BY <2>1, <2>2 DEF RequestSound
  <2> QED
    BY <2>2, <2>3, <2>4, AsideKept, SetSteps DEF PlacementInv
<1>6. ASSUME NEW s \in Sets, Deliver(s)
      PROVE  PlacementInv'
  <2>1. UNCHANGED <<docs, pc, job>> /\ SetsGrow
    BY <1>6, SetSteps DEF Deliver
  <2> QED
    BY <1>1, <2>1, AsideKept DEF PlacementInv
<1>7. ASSUME NEW s \in Sets, Archive(s)
      PROVE  PlacementInv'
  <2>1. UNCHANGED <<pc, job>> /\ SetsGrow
    BY <1>7, SetSteps DEF Archive
  <2>2. \A d \in Docs : /\ docs'[d].set = docs[d].set /\ docs'[d].number = docs[d].number
                        /\ docs'[d].source = docs[d].source /\ docs'[d].unsure = docs[d].unsure
                        /\ docs'[d].stage = docs[d].stage
    BY <1>0, <1>7 DEF Archive, Rows
  <2> QED
    BY <1>1, <2>1, <2>2, RowsAside
<1>8. ASSUME NEW S, Crash(S)
      PROVE  PlacementInv'
  <2>1. /\ UNCHANGED <<sets, docs>>
        /\ \A a \in Actors : \/ pc'[a] = "idle" /\ job'[a] = NoJob
                             \/ pc'[a] = pc[a] /\ job'[a] = job[a]
    BY <1>8 DEF Crash
  <2>2. \A d \in Docs : RowSound(d)'
    BY <2>1, StillRows, SetSteps
  <2>3. \A u \in Operators : RequestSound(u)'
    BY <1>0, <2>1 DEF PlacementInv, RequestSound
  <2>4. JobSound'
    <3>1. CASE pc'[Sync] = "idle"
      BY <3>1, NoPlacement
    <3>2. CASE pc'[Sync] = pc[Sync] /\ job'[Sync] = job[Sync]
      BY <2>1, <3>2, AsideKept, SetSteps
    <3> QED
      BY <1>0, <2>1, <3>1, <3>2
  <2> QED
    BY <2>2, <2>3, <2>4 DEF PlacementInv
<1>9. CASE UNCHANGED vars
  <2>1. UNCHANGED <<sets, docs, pc, job>>
    BY <1>9 DEF vars
  <2> QED
    BY <1>1, <2>1, AsideKept, SetSteps DEF PlacementInv
<1> QED
  BY <1>2, <1>3, <1>4, <1>5, <1>6, <1>7, <1>8, <1>9, SyncPlacement DEF Next

\* PlacementInv in every behaviour, and what it says of documents in a set.
LEMMA PlacementAlways == Spec => [](TypeOK /\ PlacementInv)
<1>1. Init => PlacementInv
  <2> SUFFICES ASSUME Init
               PROVE  PlacementInv
    OBVIOUS
  <2>1. docs = [d \in Docs |-> NoRow] /\ pc = [a \in Actors |-> "idle"]
    BY DEF Init
  <2>2. \A d \in Docs : RowSound(d)
    BY <2>1 DEF RowSound, NoRow
  <2>3. pc[Sync] = "idle" /\ \A o \in Operators : pc[o] = "idle"
    BY <2>1 DEF Actors
  <2>4. JobSound
    BY <2>3 DEF JobSound
  <2> QED
    BY <2>2, <2>3, <2>4 DEF PlacementInv, RequestSound
<1>2. TypeOK /\ PlacementInv /\ [Next]_vars => PlacementInv'
  BY StepPlacement
<1> QED
  BY <1>1, <1>2, TypeCorrect, PTL DEF Spec

\* A document nobody typed a number for is in a set of its own printed digits whose
\* letters do not contradict its own, and shows one number only: between the
\* look-up of a set (_find_open_set) and the UPDATE nothing that the sync knows
\* of the document or the set goes stale, whoever files, confirms, archives or
\* dies in between.
THEOREM OwnNumberAlways == Spec => []OwnNumberDecides
<1>1. PlacementInv => OwnNumberDecides
  BY DEF PlacementInv, RowSound, Fits, Suits, Typed, OwnNumberDecides
<1> QED
  BY <1>1, PlacementAlways, PTL

\* A delivery-note number that two vendors share never puts a document into a
\* packet by itself (resolve_unattached_documents): the placement is marked, or a
\* document that was in the set prints the number against a line.
THEOREM GuessAlwaysMarked == Spec => []GuessIsMarked
<1>1. PlacementInv => GuessIsMarked
  BY DEF PlacementInv, RowSound, Vouched, GuessIsMarked
<1> QED
  BY <1>1, PlacementAlways, PTL

=============================================================================
