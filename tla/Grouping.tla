------------------------------- MODULE Grouping -------------------------------
(***************************************************************************)
(* How documents come to belong to PO sets: services/grouping.py, the sync  *)
(* stages that call it (flows/sync.py), and the holding page, where an      *)
(* operator types a document's PO number (reclassify) or sets the document  *)
(* aside.  A set is keyed by the digits of a PO number; the letters of the  *)
(* number only forbid.  A look-up of the open set, the INSERT of a new one  *)
(* and the UPDATE of the document are three transactions, and none of them  *)
(* holds a lock that the other actors respect.                              *)
(*                                                                          *)
(* What later happens to a set (verdict, merge, archive) is PoSetLifecycle; *)
(* here it is one step each, Deliver and Archive.                           *)
(***************************************************************************)
EXTENDS Naturals, FiniteSets

CONSTANTS
  Docs,         \* files that may arrive in the input folder
  KindOf,       \* the type a reading finds: "PO", "DN" or "UNKNOWN"
  Printed,      \* the PO number a reading finds, as [key, letters]
  Ambiguous,    \* documents in which a reading may find more than one PO number
  DnNo,         \* the document's own delivery-note number, or NoDn
  LineRefs,     \* the DN numbers a PO prints against its lines
  Choices,      \* what an operator may submit: <<type, PO number or NoNumber>>
  Keys,         \* digits of PO numbers
  Letters,      \* letters of PO numbers, "" when there are none
  NoKey, NoDn, NoDoc, NoSet,
  MaxSets,      \* bound on the sets ever created
  Operators,    \* concurrent handlers of the holding page
  Sync,         \* the sync flow
  MaxRequests,  \* bound on operator requests
  MaxCrashes    \* bound on crashes

Sets == 1..MaxSets
Actors == Operators \cup {Sync}
Numbers == [key : Keys \cup {NoKey}, letters : Letters]
NoNumber == [key |-> NoKey, letters |-> ""]
\* An invoice (SI) takes the paths of a delivery note, shipping those of customs.
Attachable == {"PO", "DN"}
Kinds == Attachable \cup {"CUSTOMS", "UNKNOWN"}
HandAssignable == Attachable \cup {"CUSTOMS"}
Sources == {"none", "dn_number", "manual"}

ASSUME GroupingAssumption ==
  /\ KindOf \in [Docs -> Attachable \cup {"UNKNOWN"}]
  /\ Printed \in [Docs -> Numbers]
  /\ Ambiguous \subseteq Docs
  /\ Choices \subseteq HandAssignable \X Numbers
  /\ "" \in Letters
  /\ NoKey \notin Keys
  /\ NoSet \notin Sets
  /\ MaxSets \in Nat
  /\ Sync \notin Operators
  /\ MaxRequests \in Nat
  /\ MaxCrashes \in Nat

VARIABLES
  sets,   \* po_sets: status ("unused" before the INSERT), digits and letters
  docs,   \* documents: extraction, type, PO number and its source, po_set_id, archived_at
  input,  \* documents with a copy in the input folder
  pc,     \* where each actor is
  job,    \* what each actor carries from one transaction to the next
  requests, crashes

vars == <<sets, docs, input, pc, job, requests, crashes>>

NoRow == [stage |-> "absent", kind |-> "UNKNOWN", number |-> NoNumber,
          source |-> "none", unsure |-> FALSE, set |-> NoSet, shelved |-> FALSE]

\* todo: documents still to visit; seen: the rows as the stage loaded them;
\* doc, set: the placement being made; number, kind: what the operator typed;
\* guess: placed by a shared DN number only.
NoJob == [todo |-> {}, seen |-> [d \in Docs |-> NoRow], doc |-> NoDoc, set |-> NoSet,
          number |-> NoNumber, kind |-> "UNKNOWN", guess |-> FALSE]

Rows == [stage : {"absent", "pending", "valid"}, kind : Kinds, number : Numbers,
         source : Sources, unsure : BOOLEAN, set : Sets \cup {NoSet}, shelved : BOOLEAN]

Jobs == [todo : SUBSET Docs, seen : [Docs -> Rows], doc : Docs \cup {NoDoc},
         set : Sets \cup {NoSet}, number : Numbers, kind : Kinds, guess : BOOLEAN]

Stages == {"reading", "grouping", "resolving", "attaching"}

TypeOK ==
  /\ sets \in [Sets -> [status : {"unused", "open", "merged", "archived"},
                        key : Keys \cup {NoKey}, letters : Letters]]
  /\ docs \in [Docs -> Rows]
  /\ input \in SUBSET Docs
  /\ pc \in [Actors -> {"idle", "minting", "placing", "linking", "joining", "choosing",
                        "opening", "filing", "moving"} \cup Stages]
  /\ job \in [Actors -> Jobs]
  /\ requests \in Nat
  /\ crashes \in Nat

Init ==
  /\ sets = [s \in Sets |-> [status |-> "unused", key |-> NoKey, letters |-> ""]]
  /\ docs = [d \in Docs |-> NoRow]
  /\ input = {}
  /\ pc = [a \in Actors |-> "idle"]
  /\ job = [a \in Actors |-> NoJob]
  /\ requests = 0
  /\ crashes = 0

-----------------------------------------------------------------------------

At(a, p) == pc[a] = p
Goto(a, p) == pc' = [pc EXCEPT ![a] = p]
Keep(a, j) == job' = [job EXCEPT ![a] = j]
SyncRunning == pc[Sync] # "idle"
Bounds == <<requests, crashes>>

Status(s) == sets[s].status
Members(s) == {d \in Docs : docs[d].set = s}

\* letters_compatible: one side without letters agrees with everything.
Compatible(l, m) == l = "" \/ m = "" \/ l = m

\* _find_open_set; the unique index uq_po_sets_open_po_no allows at most one.
OpenSets(k) == {s \in Sets : Status(s) = "open" /\ sets[s].key = k}

\* The sets a document with this number may join, and those that keep it out.
Matching(n) == {s \in OpenSets(n.key) : Compatible(sets[s].letters, n.letters)}

Unused == {s \in Sets : Status(s) = "unused"}

\* INSERT INTO po_sets: ids grow.
Created(s, n) ==
  /\ s \in Unused
  /\ \A t \in Unused : s <= t
  /\ sets' = [sets EXCEPT ![s] = [status |-> "open", key |-> n.key, letters |-> n.letters]]

\* Mutant: the INSERT without the unique index on open sets.
InsertFreely(a, n, next, out) ==
  \E s \in Unused :
    /\ Created(s, n)
    /\ Keep(a, [job[a] EXCEPT !.set = s])
    /\ Goto(a, next)

\* Mutant: the loser of the race joins the winner's set without the letters check.
InsertOrJoinAny(a, n, next, out) ==
  \/ OpenSets(n.key) = {} /\ InsertFreely(a, n, next, out)
  \/ \E s \in OpenSets(n.key) :
       /\ Keep(a, [job[a] EXCEPT !.set = s])
       /\ Goto(a, next)
       /\ UNCHANGED sets

\* The INSERT of get_or_create_po_set.  On an IntegrityError the loser looks
\* again and joins the winner's set, unless the letters contradict.
Insert(a, n, next, out) ==
  \/ /\ OpenSets(n.key) = {}
     /\ \E s \in Unused :
          /\ Created(s, n)
          /\ Keep(a, [job[a] EXCEPT !.set = s])
          /\ Goto(a, next)
  \/ \E s \in Matching(n) :
       /\ Keep(a, [job[a] EXCEPT !.set = s])
       /\ Goto(a, next)
       /\ UNCHANGED sets
  \/ /\ OpenSets(n.key) # {} /\ Matching(n) = {}
     /\ Keep(a, [job[a] EXCEPT !.doc = NoDoc])
     /\ Goto(a, out)
     /\ UNCHANGED sets

-----------------------------------------------------------------------------
(* The sync.                                                                 *)

\* A file is dropped into the input folder.
Arrive(d) ==
  /\ docs[d].stage = "absent"
  /\ docs' = [docs EXCEPT ![d].stage = "pending"]
  /\ input' = input \cup {d}
  /\ UNCHANGED <<sets, pc, job, Bounds>>

\* The sync lock is free: no document is being set aside.
SyncStart ==
  /\ At(Sync, "idle")
  /\ \A o \in Operators : ~At(o, "moving")
  /\ Keep(Sync, [NoJob EXCEPT !.todo = input])
  /\ Goto(Sync, "reading")
  /\ UNCHANGED <<sets, docs, input, Bounds>>

\* A reading replaces type and number; a number typed by a person stays.  Without
\* one, a document that shows no number or several is in no set.
Read(d) ==
  /\ At(Sync, "reading")
  /\ d \in job[Sync].todo
  /\ docs[d].stage = "pending"
  /\ LET typed == docs[d].source = "manual"
     IN \E several \in BOOLEAN :
          /\ several => d \in Ambiguous
          /\ docs' = [docs EXCEPT
                ![d].stage = "valid",
                ![d].kind = KindOf[d],
                ![d].number = IF typed THEN @ ELSE Printed[d],
                ![d].unsure = several /\ ~typed,
                ![d].set = IF ~typed /\ (several \/ Printed[d].key = NoKey) THEN NoSet ELSE @]
  /\ UNCHANGED <<sets, input, pc, job, Bounds>>

\* Mutant: only the documents this sync has read are grouped, not those an
\* earlier sync read before it died.
GroupNewOnly ==
  /\ At(Sync, "reading")
  /\ Keep(Sync, [job[Sync] EXCEPT !.todo = {d \in @ : docs[d].stage # "valid"}])
  /\ Goto(Sync, "grouping")
  /\ UNCHANGED <<sets, docs, input, Bounds>>

\* A document that could not be read now is read by a later sync.
ReadingEnds ==
  /\ At(Sync, "reading")
  /\ Goto(Sync, "grouping")
  /\ UNCHANGED <<sets, docs, input, job, Bounds>>

\* group_document up to its look-up.  Only a PO without an open set goes on to
\* mint one; everything else that is not placed is held.
Group(d) ==
  /\ At(Sync, "grouping")
  /\ d \in job[Sync].todo
  /\ LET n == docs[d].number
         places == /\ docs[d].kind \in Attachable
                   /\ docs[d].set = NoSet
                   /\ n.key # NoKey
                   /\ ~docs[d].unsure
         rest == [job[Sync] EXCEPT !.todo = @ \ {d}]
     IN \/ /\ places
           /\ \E s \in Matching(n) : Keep(Sync, [rest EXCEPT !.doc = d, !.set = s])
           /\ Goto(Sync, "placing")
        \/ /\ places /\ OpenSets(n.key) = {} /\ docs[d].kind = "PO"
           /\ Keep(Sync, [rest EXCEPT !.doc = d, !.number = n])
           /\ Goto(Sync, "minting")
        \/ /\ ~places \/ (Matching(n) = {} /\ (OpenSets(n.key) # {} \/ docs[d].kind # "PO"))
           /\ Keep(Sync, rest)
           /\ UNCHANGED pc
  /\ UNCHANGED <<sets, docs, input, Bounds>>

Mint ==
  /\ At(Sync, "minting")
  /\ Insert(Sync, job[Sync].number, "placing", "grouping")
  /\ UNCHANGED <<docs, input, Bounds>>

\* The UPDATE of the document after the look-up, by its id alone; the next
\* stage goes on with what is left of `todo`.
Placed(to) ==
  /\ Keep(Sync, [NoJob EXCEPT !.todo = job[Sync].todo, !.seen = job[Sync].seen])
  /\ Goto(Sync, to)
  /\ UNCHANGED <<sets, input, Bounds>>

Place ==
  /\ At(Sync, "placing")
  /\ docs' = [docs EXCEPT ![job[Sync].doc].set = job[Sync].set]
  /\ Placed("grouping")

\* The rows a sweep starts from: read and unattached.
Unattached ==
  {d \in Docs : docs[d].stage = "valid" /\ docs[d].set = NoSet /\ docs[d].kind \in Attachable}

\* A sweep loads its rows once and goes on to write them by id.
Sweep(D) ==
  Keep(Sync, [NoJob EXCEPT !.todo = D, !.seen = [d \in Docs |-> IF d \in D THEN docs[d] ELSE NoRow]])

GroupingEnds ==
  /\ At(Sync, "grouping")
  /\ job[Sync].todo = {}
  /\ Sweep(Unattached)
  /\ Goto(Sync, "resolving")
  /\ UNCHANGED <<sets, docs, input, Bounds>>

-----------------------------------------------------------------------------
(* The sweep for documents without a PO number of their own.                 *)

\* Attached documents with the same delivery-note number; a reading finds it.
Siblings(d) ==
  {a \in Docs \ {d} : /\ DnNo[d] # NoDn
                      /\ DnNo[a] = DnNo[d]
                      /\ docs[a].stage = "valid" /\ docs[a].set # NoSet /\ ~docs[a].shelved}

\* Attached POs that print the document's DN number against a line.
Namers(d) ==
  {a \in Docs : /\ DnNo[d] \in LineRefs[a]
                /\ docs[a].stage = "valid" /\ docs[a].kind = "PO"
                /\ docs[a].set # NoSet /\ ~docs[a].shelved}

\* The one set all anchors agree on, or none.
Common(A) ==
  {s \in Sets : A # {} /\ \A a \in A : docs[a].set = s}

Anchors(d) == IF Common(Siblings(d)) # {} THEN Siblings(d) ELSE Namers(d)

Resolve(d) ==
  /\ At(Sync, "resolving")
  /\ d \in job[Sync].todo
  /\ LET was == job[Sync].seen[d]
         rest == [job[Sync] EXCEPT !.todo = @ \ {d}]
         Chosen == {s \in Common(Anchors(d)) :
                      /\ ~was.unsure
                      /\ was.number.key = NoKey
                      /\ Status(s) = "open"
                      /\ Compatible(sets[s].letters, was.number.letters)}
     IN \/ \E s \in Chosen, a \in Anchors(d) :
             /\ Keep(Sync, [rest EXCEPT !.doc = d, !.set = s,
                              !.number = [was.number EXCEPT !.key = docs[a].number.key],
                              !.guess = Common(Siblings(d)) # {} /\ was.source # "manual"])
             /\ Goto(Sync, "linking")
        \/ /\ Chosen = {}
           /\ Keep(Sync, rest)
           /\ UNCHANGED pc
  /\ UNCHANGED <<sets, docs, input, Bounds>>

\* Mutant: the placement is not marked for a person to confirm.
LinkUnmarked ==
  /\ At(Sync, "linking")
  /\ docs' = [docs EXCEPT ![job[Sync].doc].set = job[Sync].set,
                          ![job[Sync].doc].number = job[Sync].number]
  /\ Placed("resolving")

Link ==
  LET j == job[Sync]
      row == docs[j.doc]
      named == [row.number EXCEPT !.key = j.number.key]
  IN /\ At(Sync, "linking")
     /\ docs' = [docs EXCEPT ![j.doc] =
                   [row EXCEPT !.set = j.set,
                               !.number = IF j.number.key # NoKey THEN named ELSE row.number,
                               !.source = IF j.guess THEN "dn_number" ELSE row.source]]
     /\ Placed("resolving")

ResolvingEnds ==
  /\ At(Sync, "resolving")
  /\ job[Sync].todo = {}
  /\ Sweep({d \in Unattached : docs[d].number.key # NoKey})
  /\ Goto(Sync, "attaching")
  /\ UNCHANGED <<sets, docs, input, Bounds>>

\* attach_unattached_to_open_sets: never mints.
Attach(d) ==
  /\ At(Sync, "attaching")
  /\ d \in job[Sync].todo
  /\ LET was == job[Sync].seen[d]
         rest == [job[Sync] EXCEPT !.todo = @ \ {d}]
     IN \/ /\ ~was.unsure
           /\ \E s \in Matching(was.number) : Keep(Sync, [rest EXCEPT !.doc = d, !.set = s])
           /\ Goto(Sync, "joining")
        \/ /\ was.unsure \/ Matching(was.number) = {}
           /\ Keep(Sync, rest)
           /\ UNCHANGED pc
  /\ UNCHANGED <<sets, docs, input, Bounds>>

Join ==
  /\ At(Sync, "joining")
  /\ docs' = [docs EXCEPT ![job[Sync].doc].set = job[Sync].set]
  /\ Placed("attaching")

SyncEnds ==
  /\ At(Sync, "attaching")
  /\ job[Sync].todo = {}
  /\ Keep(Sync, NoJob)
  /\ Goto(Sync, "idle")
  /\ UNCHANGED <<sets, docs, input, Bounds>>

SyncStep ==
  \/ SyncStart \/ ReadingEnds \/ Mint \/ Place \/ GroupingEnds
  \/ Link \/ ResolvingEnds \/ Join \/ SyncEnds
  \/ \E d \in Docs : Read(d) \/ Group(d) \/ Resolve(d) \/ Attach(d)

-----------------------------------------------------------------------------
(* The holding page.                                                         *)

\* The checks every request makes first, on what it reads then.
Held(d) == docs[d].stage # "absent" /\ ~docs[d].shelved /\ docs[d].set = NoSet

Ask(o) ==
  /\ At(o, "idle")
  /\ requests < MaxRequests
  /\ ~SyncRunning
  /\ requests' = requests + 1
  /\ UNCHANGED <<sets, docs, input, crashes>>

\* reclassify: a type, and a PO number or none.
Reclassify(o, d, k, n) ==
  /\ Held(d)
  /\ Ask(o)
  /\ Keep(o, [NoJob EXCEPT !.doc = d, !.kind = k, !.number = n, !.seen[d] = docs[d]])
  /\ Goto(o, IF n = NoNumber THEN "filing" ELSE "choosing")

Refused(o) == Keep(o, NoJob) /\ Goto(o, "idle")

\* The target: the open set of the typed number, a new one for a PO or DN;
\* a customs file prefers a single delivered packet and never mints.
Choose(o) ==
  LET n == job[o].number
      customs == job[o].kind = "CUSTOMS"
      packets == {s \in Sets : /\ customs /\ Status(s) = "merged" /\ sets[s].key = n.key
                               /\ Compatible(sets[s].letters, n.letters)}
      targets == IF packets # {} THEN packets ELSE Matching(n)
  IN /\ At(o, "choosing")
     /\ \/ /\ Cardinality(packets) <= 1
           /\ \E s \in targets : Keep(o, [job[o] EXCEPT !.set = s])
           /\ Goto(o, "filing")
        \/ /\ OpenSets(n.key) = {} /\ packets = {}
           /\ Goto(o, IF customs THEN "filing" ELSE "opening")
           /\ UNCHANGED job
        \/ /\ Cardinality(packets) > 1 \/ (targets = {} /\ OpenSets(n.key) # {})
           /\ Refused(o)
     /\ UNCHANGED <<sets, docs, input, Bounds>>

Open(o) ==
  /\ At(o, "opening")
  /\ Insert(o, job[o].number, "filing", "idle")
  /\ UNCHANGED <<docs, input, Bounds>>

\* The commit writes, by the row's id, the columns that differ from the row the
\* request loaded; what the row is now is not looked at again.
Filed(row, was, j) ==
  LET typed == j.number # NoNumber
  IN [row EXCEPT !.kind = IF j.kind # was.kind THEN j.kind ELSE @,
                 !.number = IF typed /\ j.number # was.number THEN j.number ELSE @,
                 !.source = IF typed THEN "manual" ELSE @,
                 !.unsure = @ /\ ~(typed /\ was.unsure),
                 !.set = IF j.set # NoSet THEN j.set ELSE @]

File(o) ==
  LET j == job[o]
  IN /\ At(o, "filing")
     /\ IF j.set # NoSet /\ Status(j.set) = "archived"
        THEN UNCHANGED docs
        ELSE docs' = [docs EXCEPT ![j.doc] = Filed(docs[j.doc], j.seen[j.doc], j)]
     /\ Refused(o)
     /\ UNCHANGED <<sets, input, Bounds>>

\* set_aside_document holds the sync lock.  The file is copied out first ...
SetAside(o, d) ==
  /\ Held(d)
  /\ \A p \in Operators : ~At(p, "moving")
  /\ At(o, "idle")
  /\ requests < MaxRequests
  /\ ~SyncRunning
  /\ requests' = requests + 1
  /\ input' = input \ {d}
  /\ Keep(o, [NoJob EXCEPT !.doc = d])
  /\ Goto(o, "moving")
  /\ UNCHANGED <<sets, docs, crashes>>

\* ... and the row is archived if it is still unattached.
Shelve(o) ==
  /\ At(o, "moving")
  /\ docs' = [docs EXCEPT ![job[o].doc].shelved = @ \/ docs[job[o].doc].set = NoSet]
  /\ Refused(o)
  /\ UNCHANGED <<sets, input, Bounds>>

\* confirm_placement.
Confirm(d) ==
  /\ docs[d].source = "dn_number"
  /\ docs[d].set # NoSet /\ Status(docs[d].set) # "archived"
  /\ ~SyncRunning
  /\ docs' = [docs EXCEPT ![d].source = "manual"]
  /\ UNCHANGED <<sets, input, pc, job, Bounds>>

OperatorStep(o) == Choose(o) \/ Open(o) \/ File(o) \/ Shelve(o)

-----------------------------------------------------------------------------
(* What happens to a set elsewhere, and crashes.                             *)

\* reconcile and merge, with the gates that look at how a document was placed;
\* then the input copies of the set are cleared.
Deliver(s) ==
  LET core == {d \in Members(s) : docs[d].kind \in Attachable}
  IN /\ Status(s) = "open"
     /\ \A k \in Attachable : \E d \in core : docs[d].kind = k
     /\ \A d \in core :
          /\ docs[d].stage = "valid"
          /\ docs[d].number.key \in {NoKey, sets[s].key}
          /\ docs[d].source # "dn_number"
          /\ Compatible(docs[d].number.letters, sets[s].letters)
     /\ \A d, e \in core : Compatible(docs[d].number.letters, docs[e].number.letters)
     /\ sets' = [sets EXCEPT ![s].status = "merged"]
     /\ input' = input \ Members(s)
     /\ UNCHANGED <<docs, pc, job, Bounds>>

\* archive_quarantined: the set, its documents and their input copies.
Archive(s) ==
  /\ Status(s) = "open"
  /\ ~SyncRunning
  /\ sets' = [sets EXCEPT ![s].status = "archived"]
  /\ docs' = [d \in Docs |-> [docs[d] EXCEPT !.shelved = @ \/ docs[d].set = s]]
  /\ input' = input \ Members(s)
  /\ UNCHANGED <<pc, job, Bounds>>

\* The sync, or the web server with its requests, dies.
Crash(S) ==
  /\ crashes < MaxCrashes
  /\ \E a \in S : ~At(a, "idle")
  /\ crashes' = crashes + 1
  /\ pc' = [a \in Actors |-> IF a \in S THEN "idle" ELSE pc[a]]
  /\ job' = [a \in Actors |-> IF a \in S THEN NoJob ELSE job[a]]
  /\ UNCHANGED <<sets, docs, input, requests>>

Next ==
  \/ SyncStep
  \/ \E d \in Docs : Arrive(d) \/ Confirm(d)
  \/ \E o \in Operators :
       \/ OperatorStep(o)
       \/ \E d \in Docs : SetAside(o, d)
       \/ \E d \in Docs, c \in Choices : Reclassify(o, d, c[1], c[2])
  \/ \E s \in Sets : Deliver(s) \/ Archive(s)
  \/ Crash({Sync}) \/ Crash(Operators)

Spec == Init /\ [][Next]_vars

\* Syncs start again and again and run to their end, and so does a request.
FairSpec ==
  Spec /\ WF_vars(SyncStep) /\ \A o \in Operators : WF_vars(OperatorStep(o))

-----------------------------------------------------------------------------
(* Properties.                                                               *)

\* Two open sets never share their digits, however the sync and the holding
\* page race to create one (uq_po_sets_open_po_no).
OneOpenSetPerKey ==
  \A s, t \in Sets : Status(s) = "open" /\ Status(t) = "open" /\ sets[s].key = sets[t].key
                       => s = t

\* A document nobody typed a number for is in a set of its own printed digits,
\* its letters do not contradict the set's, and its reading found one PO number only.
OwnNumberDecides ==
  \A d \in Docs :
    LET s == docs[d].set
    IN /\ s # NoSet /\ docs[d].source # "manual" /\ docs[d].kind \in Attachable
       => /\ ~docs[d].unsure
          /\ Printed[d].key \in {NoKey, sets[s].key}
          /\ Compatible(Printed[d].letters, sets[s].letters)

\* A document without a PO number is in a set only if a document that was there
\* prints its DN number against a line (one whose own place was typed or guessed
\* since counts), a person put it there, or the placement waits for a person: a
\* delivery-note number that two vendors share never puts a document into a
\* packet by itself.
GuessIsMarked ==
  \A d \in Docs :
    LET s == docs[d].set
    IN s # NoSet /\ docs[d].kind \in Attachable /\ Printed[d].key = NoKey
       => \/ docs[d].source # "none"
          \/ \E p \in Docs : /\ DnNo[d] \in LineRefs[p]
                             /\ docs[p].set = s \/ docs[p].source # "none"

\* A document the sync can place: its set is open, or it is a PO in the input
\* folder whose digits no open set has.
Placeable(d) ==
  /\ docs[d].stage = "valid" /\ docs[d].kind \in Attachable
  /\ docs[d].set = NoSet /\ ~docs[d].shelved /\ ~docs[d].unsure
  /\ docs[d].number.key # NoKey
  /\ \/ Matching(docs[d].number) # {}
     \/ docs[d].kind = "PO" /\ d \in input /\ OpenSets(docs[d].number.key) = {}

\* No document that can be placed waits for ever, whichever sync read it and
\* wherever that sync died: every sync groups the documents of its folder again.
NothingWaitsInVain == \A d \in Docs : Placeable(d) ~> ~Placeable(d)

\* A document that an operator moved to the quarantine folder leaves the list
\* and stays out: it is in no set that can still be delivered.  The sweeps do
\* not look at archived_at, so this does not hold.
SetAsideStaysOut ==
  \A d \in Docs : docs[d].shelved /\ docs[d].set # NoSet
                    => Status(docs[d].set) = "archived"

=============================================================================
