---------------------------- MODULE PoSetLifecycle ----------------------------
(***************************************************************************)
(* The life of one PO set: its row in `po_sets`, its documents, and its     *)
(* packet in the output folder, driven by two kinds of actor that run at    *)
(* the same time:                                                           *)
(*                                                                          *)
(*   - Operators: request handlers of api/routes/po_sets.py and of the      *)
(*     manual upload (api/routes/dashboard.py), each under the per-PO lock, *)
(*     and placements from the holding page, which commit before they lock; *)
(*   - Sync: the flow of flows/sync.py, which reads documents, attaches     *)
(*     them to the set WITHOUT that lock, then reconciles the set under it  *)
(*     and finally retries the customs rebuilds that are still owed.        *)
(*                                                                          *)
(* Both run services/reconciliation.py and services/merge.py.  One step is  *)
(* one database transaction or one file operation; whatever the code read   *)
(* in an earlier step it remembers in `job`.  A reason sentence is          *)
(* abstracted to the status it explains, a document's content to what the   *)
(* verdict depends on (`reading`), and the lock's age to Lapse, which frees *)
(* the lock of a dead holder (PoSetLock models the clock).                  *)
(***************************************************************************)
EXTENDS Naturals, FiniteSets

CONSTANTS
  Docs,         \* documents that may come to belong to this set
  TypeOf,       \* "PO", "DN", "SI", "CUSTOMS" or "SHIPPING" per document
  NumberOf,     \* the document's own DN or invoice number
  Founders,     \* documents attached and read when the model starts
  ByNumber,     \* documents whose only link to the set is a shared DN number
  Outcomes,     \* what reading each document may find
  Operators,    \* concurrent request handlers
  Sync,         \* the sync flow
  Routes,       \* the actions operators may take
  Faults,       \* which of "source", "disk", "commit", "settle" may happen
  MaxRequests,  \* bound on operator requests
  MaxCrashes,   \* bound on crashes
  NoAction      \* SQL NULL in locked_by_action

\* No file at the set's output path; a packet without pages is never written.
NoPacket == {}

Actors == Operators \cup {Sync}

CoreTypes == {"PO", "DN", "SI"}
AddonTypes == {"CUSTOMS", "SHIPPING"}

Readings == {"unread", "failed", "foreign", "alien", "void", "wrong",
             "first", "second", "full"}

Statuses == {"pending", "mismatched", "blocked_customs", "quarantined", "merged"}

RouteActions == {"merge", "redo_match", "redo_extract", "confirm_placement",
                 "force_merge", "toggle_customs", "manual_upload",
                 "remove_supporting", "quarantine_delete", "reclassify"}
SyncActions == {"sync_reconcile", "sync_customs_append"}

ASSUME LifecycleAssumption ==
  /\ TypeOf \in [Docs -> CoreTypes \cup AddonTypes]
  /\ Founders \subseteq Docs
  /\ Outcomes \in [Docs -> SUBSET Readings]
  /\ Sync \notin Operators
  /\ Routes \subseteq RouteActions
  /\ MaxRequests \in Nat
  /\ MaxCrashes \in Nat
  /\ NoAction \notin RouteActions \cup SyncActions

VARIABLES
  status,    \* po_sets.status
  reason,    \* the status that reconcile_reason explains; "forced" after Force Merge
  delivered, \* po_sets.merged_output_path is not NULL
  archived,  \* po_sets.archived_at is not NULL
  toggle,    \* po_sets.has_customs_toggle
  owed,      \* po_sets.customs_append_pending
  lock,      \* po_sets.locked_by_action
  packet,    \* documents in the file at the output path, or NoPacket
  member,    \* documents with po_set_id = this set
  shelved,   \* documents with archived_at set
  held,      \* documents placed by number only and not confirmed
  reading,   \* extraction_status of each document with what was read
  pc,        \* where each actor is
  job,       \* what each actor carries from step to step
  requests, crashes

row == <<status, reason, delivered, archived, toggle, owed>>
docs == <<member, shelved, held, reading>>
counts == <<requests, crashes>>
vars == <<row, lock, packet, docs, pc, job, counts>>

\* act: the lock's action; seen: the status reconcile loaded; proved: the live
\* documents it reconciled; pages: documents being processed or written;
\* say: the verdict, later the reason to store; debt: `owed` as it was loaded.
NoJob == [act |-> NoAction, seen |-> "pending", proved |-> {}, pages |-> {},
          say |-> "pending", debt |-> FALSE]

Jobs == [act : RouteActions \cup SyncActions \cup {NoAction}, seen : Statuses,
         proved : SUBSET Docs, pages : SUBSET Docs, say : Statuses \cup {"merge"},
         debt : BOOLEAN]

\* Places where an actor is between the acquisition and the release of the lock.
Bodies == {"judging", "deciding", "merging", "writing", "committing",
           "restoring", "overruling", "recording", "reopening", "resetting",
           "reading", "confirming", "forcing", "sealing", "toggling",
           "uploading", "removing", "exporting", "shelving", "appending",
           "crediting", "indebting", "releasing"}

\* Places outside any lock: of the sync flow, and of a placement by an operator.
Stages == {"scanning", "breaking", "attaching", "sweeping", "owing", "placing"}

TypeOK ==
  /\ status \in Statuses
  /\ reason \in Statuses \cup {"none", "forced"}
  /\ delivered \in BOOLEAN
  /\ archived \in BOOLEAN
  /\ toggle \in BOOLEAN
  /\ owed \in BOOLEAN
  /\ lock \in RouteActions \cup SyncActions \cup {NoAction}
  /\ packet \in SUBSET Docs
  /\ member \in SUBSET Docs
  /\ shelved \in SUBSET Docs
  /\ held \in SUBSET Docs
  /\ reading \in [Docs -> Readings]
  /\ pc \in [Actors -> {"idle", "admitted"} \cup Stages \cup Bodies]
  /\ job \in [Actors -> Jobs]
  /\ requests \in Nat
  /\ crashes \in Nat

Init ==
  /\ status = "pending"
  /\ reason = "none"
  /\ delivered = FALSE
  /\ archived = FALSE
  /\ toggle = FALSE
  /\ owed = FALSE
  /\ lock = NoAction
  /\ packet = NoPacket
  /\ member = Founders
  /\ shelved = {}
  /\ held = Founders \cap ByNumber
  /\ reading = [d \in Docs |-> IF d \in Founders THEN "full" ELSE "unread"]
  /\ pc = [a \in Actors |-> "idle"]
  /\ job = [a \in Actors |-> NoJob]
  /\ requests = 0
  /\ crashes = 0

-----------------------------------------------------------------------------
(* The verdict: what _reconcile_po_set_inner concludes from the documents.  *)

OfType(D, t) == {d \in D : TypeOf[d] = t}
Core(D) == {d \in D : TypeOf[d] \in CoreTypes}
HasBoth(D) == \A t \in AddonTypes : OfType(D, t) # {}
SyncRunning == pc[Sync] # "idle"

\* The PO lines a document reports: every set here has two.
Lines == {1, 2}
LinesOf(v) == CASE v = "first" -> {1}
                [] v = "second" -> {2}
                [] v \in {"wrong", "full"} -> Lines
                [] OTHER -> {}

\* Two documents of one vendor pool report the same line.
Overlap(d, e, r) ==
  /\ d # e
  /\ TypeOf[d] = TypeOf[e]
  /\ TypeOf[d] \in {"DN", "SI"}
  /\ LinesOf(r[d]) \cap LinesOf(r[e]) # {}

Duplicated(D, r) == \E d, e \in D : Overlap(d, e, r) /\ NumberOf[d] = NumberOf[e]

\* A line both sides report, with different quantities.
Disagrees(D, r) ==
  \/ \E d \in Core(D) : r[d] = "wrong"
  \/ \E d, e \in D : Overlap(d, e, r)

\* A line some vendor pool reports nothing for.
Short(D, r) ==
  \E t \in {"DN", "SI"} : UNION {LinesOf(r[d]) : d \in OfType(D, t)} # Lines

\* The gates in the order the code tries them; the first that applies decides.
Verdict(D, r, unconfirmed, gate) ==
  LET Some(v) == \E d \in Core(D) : r[d] = v
  IN  IF Some("failed") THEN "quarantined"
      ELSE IF Some("unread") THEN "pending"
      ELSE IF Some("foreign") THEN "quarantined"
      ELSE IF \E t \in CoreTypes : OfType(D, t) = {} THEN "pending"
      ELSE IF Some("alien") THEN "quarantined"
      ELSE IF unconfirmed \cap D # {} THEN "pending"
      ELSE IF Duplicated(D, r) THEN "quarantined"
      ELSE IF Cardinality(OfType(D, "PO")) > 1 THEN "pending"
      ELSE IF Some("void") THEN "quarantined"
      ELSE IF Disagrees(D, r) THEN "mismatched"
      ELSE IF Short(D, r) THEN "pending"
      ELSE IF gate /\ ~HasBoth(D) THEN "blocked_customs"
      ELSE "merge"

-----------------------------------------------------------------------------
(* Bookkeeping of the actors.                                               *)

At(a, p) == pc[a] = p
Goto(a, p) == pc' = [pc EXCEPT ![a] = p]
Keep(a, f) == job' = [job EXCEPT ![a] = f]
Stay == UNCHANGED <<job, counts>>

\* `ps.status = v` on a freshly loaded row: no UPDATE when v is what was loaded.
Assigned(a, v) == IF v = job[a].seen THEN status ELSE v

\* A file stands at the output path that this set does not own.
Orphan == packet # NoPacket /\ ~delivered

-----------------------------------------------------------------------------
(* The lock.  _acquire_lock refuses while a sync runs and on an archived     *)
(* set; the Re-Extract and Re-Match routes first refuse a merged set.  The   *)
(* conditional UPDATE that takes the lock is a later statement.              *)

Request(a, r) ==
  /\ At(a, "idle")
  /\ a \in Operators
  /\ r # "reclassify"
  /\ requests < MaxRequests
  /\ ~SyncRunning
  /\ archived => r = "quarantine_delete"
  /\ r \in {"redo_match", "redo_extract"} => status # "merged"
  /\ requests' = requests + 1
  /\ Keep(a, [NoJob EXCEPT !.act = r])
  /\ Goto(a, "admitted")
  /\ UNCHANGED <<row, lock, packet, docs, crashes>>

FirstStep(r) ==
  CASE r = "merge" -> "judging"
    [] r = "redo_match" -> "reopening"
    [] r = "redo_extract" -> "resetting"
    [] r = "confirm_placement" -> "confirming"
    [] r = "force_merge" -> "forcing"
    [] r = "toggle_customs" -> "toggling"
    [] r = "manual_upload" -> "uploading"
    [] r = "remove_supporting" -> "removing"
    [] r = "quarantine_delete" -> "exporting"
    [] r = "reclassify" -> "judging"
    [] OTHER -> "releasing"

\* Mutant: the lock is taken without looking at it.
AcquireBlindly(a) ==
  /\ At(a, "admitted")
  /\ lock' = job[a].act
  /\ Goto(a, FirstStep(job[a].act))
  /\ UNCHANGED <<row, packet, docs, job, counts>>

Acquire(a) ==
  /\ At(a, "admitted")
  /\ lock = NoAction
  /\ lock' = job[a].act
  /\ Goto(a, FirstStep(job[a].act))
  /\ UNCHANGED <<row, packet, docs, job, counts>>

\* 409: another action holds the lock.
Conflict(a) ==
  /\ At(a, "admitted")
  /\ lock # NoAction
  /\ Keep(a, NoJob)
  /\ Goto(a, "idle")
  /\ UNCHANGED <<row, lock, packet, docs, counts>>

\* The `finally` of every holder.
Release(a) ==
  /\ At(a, "releasing")
  /\ lock' = IF lock = job[a].act THEN NoAction ELSE lock
  /\ Keep(a, NoJob)
  /\ Goto(a, IF job[a].act = "sync_reconcile" THEN "owing" ELSE "idle")
  /\ UNCHANGED <<row, packet, docs, counts>>

\* Mutant: a lock never runs out of time.
LapseNever == FALSE /\ UNCHANGED vars

\* The lock of a dead holder runs out of time.
Lapse ==
  /\ lock # NoAction
  /\ \A a \in Actors : pc[a] \in Bodies => job[a].act # lock
  /\ lock' = NoAction
  /\ UNCHANGED <<row, packet, docs, pc, job, counts>>

\* The web server, the sync flow or both die: no `finally` runs.
Crash(S) ==
  /\ crashes < MaxCrashes
  /\ \E a \in S : pc[a] # "idle"
  /\ crashes' = crashes + 1
  /\ pc' = [a \in Actors |-> IF a \in S THEN "idle" ELSE pc[a]]
  /\ job' = [a \in Actors |-> IF a \in S THEN NoJob ELSE job[a]]
  /\ UNCHANGED <<row, lock, packet, docs, requests>>

-----------------------------------------------------------------------------
(* reconcile_po_set: read, write the verdict, merge, store the reason.       *)

\* A placement goes on to the customs rebuild, whatever the reconcile said.
Reconciled(a) == Goto(a, IF job[a].act = "reclassify" THEN "appending" ELSE "releasing")

\* One read of the row and its documents.  The verdicts of an archived or an
\* already quarantined set leave everything as it is.
Judge(a) ==
  /\ At(a, "judging")
  /\ \/ /\ archived \/ status = "quarantined"
        /\ Reconciled(a)
        /\ UNCHANGED job
     \/ /\ ~archived
        /\ status = "merged"
        /\ Keep(a, [job[a] EXCEPT !.say = "merged"])
        /\ Goto(a, "recording")
     \/ /\ ~archived
        /\ status \notin {"quarantined", "merged"}
        /\ LET v == Verdict(member, reading, held \ shelved, toggle)
           IN \E say \in {v} \cup
                 (IF v = "merge" /\ a = Sync /\ "settle" \in Faults THEN {"pending"} ELSE {}) :
                Keep(a, [job[a] EXCEPT !.seen = status, !.say = say,
                                       !.proved = member \ shelved])
        /\ Goto(a, "deciding")
  /\ UNCHANGED <<row, lock, packet, docs, counts>>

\* The commit of the verdict; "merge" first clears the status to pending.
Decide(a) ==
  /\ At(a, "deciding")
  /\ status' = Assigned(a, IF job[a].say = "merge" THEN "pending" ELSE job[a].say)
  /\ Goto(a, IF job[a].say = "merge" THEN "merging" ELSE "recording")
  /\ UNCHANGED <<reason, delivered, archived, toggle, owed, lock, packet, docs>>
  /\ Stay

\* Mutant: merge.py's own copy of the customs gate ignores the requirement flag.
MergeDeclinedByDrift ==
  archived \/ status \notin {"pending", "merged"} \/ ~HasBoth(member)

\* merge_po_set declines without an exception.
MergeDeclined ==
  \/ archived
  \/ status = "merged" /\ ~delivered
  \/ /\ status # "merged"
     /\ \/ status \in {"mismatched", "quarantined", "blocked_customs"}
        \/ Cardinality({d \in OfType(member, "PO") : reading[d] # "foreign"}) > 1
        \/ toggle /\ ~HasBoth(member)
        \/ member = {}

\* merge_po_set loads the row again, in a session of its own.
MergeCheck(a) ==
  /\ At(a, "merging")
  /\ \/ /\ MergeDeclined
        /\ Goto(a, "restoring")
        /\ UNCHANGED job
     \/ /\ ~archived /\ status = "merged" /\ delivered
        /\ Keep(a, [job[a] EXCEPT !.say = "merged"])
        /\ Goto(a, "recording")
     \/ /\ ~MergeDeclined /\ status # "merged"
        /\ IF Orphan
           THEN /\ Keep(a, [job[a] EXCEPT !.say = "quarantined"])
                /\ Goto(a, "overruling")
           ELSE /\ Keep(a, [job[a] EXCEPT !.pages = member])
                /\ Goto(a, "writing")
  /\ UNCHANGED <<row, lock, packet, docs, counts>>

\* Why the packet may not be written: the output folder fails, the name is
\* taken, the live documents are no longer the reconciled ones, or a source
\* PDF cannot be read.
WriteFailures(a) ==
  (IF "disk" \in Faults THEN {"pending"} ELSE {}) \cup
  (IF Orphan THEN {"quarantined"}
   ELSE IF member \ shelved # job[a].proved THEN {"pending"}
   ELSE IF "source" \in Faults THEN {"quarantined"} ELSE {})

\* Mutant: the documents are not compared again before the write.
MergeWriteUnchecked(a) ==
  /\ At(a, "writing")
  /\ packet' = job[a].pages
  /\ Goto(a, "committing")
  /\ UNCHANGED <<row, lock, docs, job, counts>>

\* Mutant: a failed write is not noticed.
MergeWriteIgnoringFaults(a) ==
  /\ At(a, "writing")
  /\ \E p \in {job[a].pages} \cup (IF "disk" \in Faults THEN {packet} ELSE {}) : packet' = p
  /\ Goto(a, "committing")
  /\ UNCHANGED <<row, lock, docs, job, counts>>

\* Under the output-name lock.
MergeWrite(a) ==
  /\ At(a, "writing")
  /\ \/ \E v \in WriteFailures(a) :
          /\ Keep(a, [job[a] EXCEPT !.say = v])
          /\ Goto(a, "overruling")
          /\ UNCHANGED packet
     \/ /\ ~Orphan
        /\ member \ shelved = job[a].proved
        /\ packet' = job[a].pages
        /\ Goto(a, "committing")
        /\ UNCHANGED job
  /\ UNCHANGED <<row, lock, docs, counts>>

\* A commit that fails removes the file again and escapes as an exception.
CommitFails(a) ==
  /\ "commit" \in Faults
  /\ packet' = NoPacket
  /\ Reconciled(a)
  /\ UNCHANGED <<row, lock, docs>>
  /\ Stay

MergeCommit(a) ==
  /\ At(a, "committing")
  /\ \/ /\ status' = "merged"
        /\ delivered' = TRUE
        /\ reason' = "merged"
        /\ Keep(a, [job[a] EXCEPT !.say = "merged"])
        /\ Goto(a, "recording")
        /\ UNCHANGED <<archived, toggle, owed, lock, packet, docs, counts>>
     \/ CommitFails(a)

\* A declined merge puts the earlier status back; there is no reason to store.
Restore(a) ==
  /\ At(a, "restoring")
  /\ status' = job[a].seen
  /\ Reconciled(a)
  /\ UNCHANGED <<reason, delivered, archived, toggle, owed, lock, packet, docs>>
  /\ Stay

\* The `except` branches after a refused merge write their status whatever
\* the row holds by now.
Overrule(a) ==
  /\ At(a, "overruling")
  /\ status' = job[a].say
  /\ Goto(a, "recording")
  /\ UNCHANGED <<reason, delivered, archived, toggle, owed, lock, packet, docs>>
  /\ Stay

\* _persist_reason, a transaction of its own.
Record(a) ==
  /\ At(a, "recording")
  /\ reason' = IF job[a].say = "merged" /\ status = "merged" /\ reason # "none"
               THEN reason ELSE job[a].say
  /\ Reconciled(a)
  /\ UNCHANGED <<status, delivered, archived, toggle, owed, lock, packet, docs>>
  /\ Stay

Reconcile(a) ==
  \/ Judge(a) \/ Decide(a) \/ MergeCheck(a) \/ MergeWrite(a) \/ MergeCommit(a)
  \/ Restore(a) \/ Overrule(a) \/ Record(a)

-----------------------------------------------------------------------------
(* The bodies of the other routes.                                           *)

\* The operator's gate back into reconciliation: quarantined -> pending.
Reopen(a) ==
  /\ At(a, "reopening")
  /\ status' = IF status = "quarantined" THEN "pending" ELSE status
  /\ Goto(a, IF job[a].act = "redo_extract" THEN "reading" ELSE "judging")
  /\ UNCHANGED <<reason, delivered, archived, toggle, owed, lock, packet, docs>>
  /\ Stay

\* redo_extract makes every PO, DN and SI of the set unread in one commit.
Reset(a) ==
  /\ At(a, "resetting")
  /\ reading' = [d \in Docs |-> IF d \in Core(member) THEN "unread" ELSE reading[d]]
  /\ Keep(a, [job[a] EXCEPT !.pages = Core(member)])
  /\ Goto(a, "reopening")
  /\ UNCHANGED <<row, lock, packet, member, shelved, held, counts>>

\* extract_document leaves archived and already read documents as they are; a
\* failed one has used up its attempts.
Findings(d) ==
  IF reading[d] = "unread" /\ d \notin shelved THEN Outcomes[d] ELSE {reading[d]}

ReadAgain(a) ==
  /\ At(a, "reading")
  /\ \/ \E d \in job[a].pages :
          /\ \E v \in Findings(d) : reading' = [reading EXCEPT ![d] = v]
          /\ Keep(a, [job[a] EXCEPT !.pages = @ \ {d}])
          /\ UNCHANGED pc
     \/ /\ job[a].pages = {}
        /\ Goto(a, "judging")
        /\ UNCHANGED <<reading, job>>
  /\ UNCHANGED <<row, lock, packet, member, shelved, held, counts>>

\* A person vouches for a document that was placed by number only.
Confirm(a) ==
  /\ At(a, "confirming")
  /\ \E d \in held \cap member : held' = held \ {d}
  /\ Goto(a, "judging")
  /\ UNCHANGED <<row, lock, packet, member, shelved, reading>>
  /\ Stay

\* force_merge skips every gate but the packet's name; a set that is already
\* delivered keeps its packet (only an audit row is written).
ForceMerge(a) ==
  /\ At(a, "forcing")
  /\ ~archived
  /\ IF status = "merged" /\ delivered
     THEN Goto(a, "releasing") /\ UNCHANGED packet
     ELSE /\ member # {} /\ ~Orphan
          /\ packet' = member
          /\ Goto(a, "sealing")
  /\ UNCHANGED <<row, lock, docs>>
  /\ Stay

Seal(a) ==
  /\ At(a, "sealing")
  /\ \/ /\ status' = "merged"
        /\ delivered' = TRUE
        /\ reason' = "forced"
        /\ Goto(a, "releasing")
        /\ UNCHANGED <<archived, toggle, owed, lock, packet, docs>>
        /\ Stay
     \/ CommitFails(a)

\* toggle_customs clears blocked_customs only; a merged set whose requirement
\* is switched on with both files attached goes on to rebuild its packet.
Toggle(a) ==
  /\ At(a, "toggling")
  /\ ~archived
  /\ toggle /\ status # "merged" =>
       \A d \in member \ shelved : TypeOf[d] \notin AddonTypes
  /\ toggle' = ~toggle
  /\ owed' = (owed /\ ~toggle)
  /\ IF status = "blocked_customs" /\ (toggle \/ HasBoth(member))
     THEN /\ status' = "pending"
          /\ reason' = IF toggle THEN "pending" ELSE reason
     ELSE UNCHANGED <<status, reason>>
  /\ Goto(a, IF status = "merged" /\ ~toggle /\ HasBoth(member)
             THEN "appending" ELSE "releasing")
  /\ UNCHANGED <<delivered, archived, lock, packet, docs>>
  /\ Stay

\* A customs or shipping file is attached, or was attached before.  The set is
\* not looked at again for archived_at once the lock is held.
Upload(a) ==
  /\ At(a, "uploading")
  /\ \E d \in Docs :
       /\ TypeOf[d] \in AddonTypes
       /\ LET attached == member \cup {d}
              complete == toggle /\ HasBoth(attached \ (shelved \ {d}))
          IN /\ member' = attached
             /\ shelved' = shelved \ {d}
             /\ status' = IF complete /\ status = "blocked_customs"
                          THEN "pending" ELSE status
             /\ Goto(a, IF complete /\ status = "merged" THEN "appending" ELSE "releasing")
  /\ UNCHANGED <<reason, delivered, archived, toggle, owed, lock, packet, held, reading>>
  /\ Stay

\* remove_supporting takes a wrong customs or shipping file out of an open set.
Remove(a) ==
  /\ At(a, "removing")
  /\ ~archived
  /\ status # "merged"
  /\ \E d \in member \ shelved :
       /\ TypeOf[d] \in AddonTypes
       /\ member' = member \ {d}
       /\ shelved' = shelved \cup {d}
  /\ Goto(a, "releasing")
  /\ UNCHANGED <<row, lock, packet, held, reading>>
  /\ Stay

\* archive_quarantined checks the set, copies its files out ...
Export(a) ==
  /\ At(a, "exporting")
  /\ ~archived
  /\ status = "quarantined"
  /\ Goto(a, "shelving")
  /\ UNCHANGED <<row, lock, packet, docs>>
  /\ Stay

\* ... and marks the set and every document it has by now in one commit.
Shelve(a) ==
  /\ At(a, "shelving")
  /\ \/ /\ archived' = TRUE
        /\ shelved' = shelved \cup member
     \/ /\ Faults \cap {"disk", "commit"} # {}
        /\ UNCHANGED <<archived, shelved>>
  /\ Goto(a, "releasing")
  /\ UNCHANGED <<status, reason, delivered, toggle, owed, lock, packet, member, held, reading>>
  /\ Stay

\* A body that ends in an error before it has changed anything.
Refusals ==
  [confirming |-> held \cap member = {},
   forcing    |-> archived \/ (~(status = "merged" /\ delivered)
                                /\ (member = {} \/ Orphan \/ Faults \cap {"source", "disk"} # {})),
   toggling   |-> archived \/ (toggle /\ status # "merged" /\
                                \E d \in member \ shelved : TypeOf[d] \in AddonTypes),
   uploading  |-> TRUE,
   removing   |-> archived \/ status = "merged"
                    \/ \A d \in member \ shelved : TypeOf[d] \notin AddonTypes,
   exporting  |-> archived \/ status # "quarantined"]

Refuse(a) ==
  /\ pc[a] \in DOMAIN Refusals
  /\ Refusals[pc[a]]
  /\ Goto(a, "releasing")
  /\ UNCHANGED <<row, lock, packet, docs>>
  /\ Stay

-----------------------------------------------------------------------------
(* The customs rebuild of a delivered packet.                                *)

Appendable == ~archived /\ status = "merged" /\ delivered /\ toggle /\ HasBoth(member)

\* Mutant: the file is replaced by the customs pages instead of rebuilt with them.
AppendAddonsOnly(a) ==
  /\ At(a, "appending")
  /\ Appendable
  /\ packet' = member \ Core(member)
  /\ Keep(a, [job[a] EXCEPT !.debt = owed])
  /\ Goto(a, "crediting")
  /\ UNCHANGED <<row, lock, docs, counts>>

\* append_customs_to_merged_packet up to the atomic replacement of the file.
AppendWrite(a) ==
  /\ At(a, "appending")
  /\ Appendable
  /\ packet' = member
  /\ Keep(a, [job[a] EXCEPT !.debt = owed])
  /\ Goto(a, "crediting")
  /\ UNCHANGED <<row, lock, docs, counts>>

\* A set with nothing to append is left alone; the sync clears its debt.
AppendNothing(a) ==
  /\ At(a, "appending")
  /\ ~Appendable
  /\ owed' = (owed /\ a # Sync)
  /\ Goto(a, "releasing")
  /\ UNCHANGED <<status, reason, delivered, archived, toggle, lock, packet, docs>>
  /\ Stay

\* It raises.
AppendFail(a) ==
  /\ At(a, "appending")
  /\ Appendable
  /\ Faults \cap {"source", "disk"} # {}
  /\ Goto(a, "indebting")
  /\ UNCHANGED <<row, lock, packet, docs>>
  /\ Stay

\* Its commit: the audit row, and the debt if the row was loaded with one.
Credit(a) ==
  /\ At(a, "crediting")
  /\ \/ owed' = (owed /\ ~job[a].debt) /\ Goto(a, "releasing")
     \/ "commit" \in Faults /\ UNCHANGED owed /\ Goto(a, "indebting")
  /\ UNCHANGED <<status, reason, delivered, archived, toggle, lock, packet, docs>>
  /\ Stay

\* set_customs_append_pending, after any error of the rebuild.
Indebt(a) ==
  /\ At(a, "indebting")
  /\ owed' = (owed \/ ~archived)
  /\ Goto(a, "releasing")
  /\ UNCHANGED <<status, reason, delivered, archived, toggle, lock, packet, docs>>
  /\ Stay

Rebuild(a) ==
  \/ AppendWrite(a) \/ AppendNothing(a) \/ AppendFail(a) \/ Credit(a) \/ Indebt(a)

RouteBody(a) ==
  \/ Reopen(a) \/ Reset(a) \/ ReadAgain(a) \/ Confirm(a) \/ ForceMerge(a) \/ Seal(a)
  \/ Toggle(a) \/ Upload(a) \/ Remove(a) \/ Export(a) \/ Shelve(a) \/ Refuse(a)
  \/ Rebuild(a)

-----------------------------------------------------------------------------
(* A person places a held document.  The request takes the lock only after   *)
(* the document is in the set; Grouping models how the set is found.         *)

\* What the request checks first.  A PO, DN or SI goes to an open set that
\* nobody works on, a customs or shipping file also to a delivered one.
Propose(a, d) ==
  /\ At(a, "idle")
  /\ a \in Operators
  /\ "reclassify" \in Routes
  /\ requests < MaxRequests
  /\ ~SyncRunning
  /\ d \notin member \cup shelved
  /\ ~archived
  /\ TypeOf[d] \in CoreTypes => status # "merged" /\ lock = NoAction
  /\ requests' = requests + 1
  /\ Keep(a, [NoJob EXCEPT !.act = "reclassify", !.pages = {d}])
  /\ Goto(a, "placing")
  /\ UNCHANGED <<row, lock, packet, docs, crashes>>

\* Mutant: the debt is left to the rebuild that follows.
PlaceWithoutDebt(a) ==
  LET placed == member \cup job[a].pages
      complete == toggle /\ HasBoth(placed \ shelved)
  IN /\ At(a, "placing")
     /\ ~archived
     /\ member' = placed
     /\ held' = held \ job[a].pages
     /\ status' = IF complete /\ status = "blocked_customs" THEN "pending" ELSE status
     /\ Keep(a, [job[a] EXCEPT !.pages = {}])
     /\ Goto(a, "admitted")
     /\ UNCHANGED <<reason, delivered, archived, toggle, owed, lock, packet, shelved, reading, counts>>

\* The commit that places it, and the debt a delivered packet has from then on.
\* The set may have been merged or archived, or the document attached, since.
Place(a) ==
  LET placed == member \cup job[a].pages
      complete == toggle /\ HasBoth(placed \ shelved)
  IN /\ At(a, "placing")
     /\ IF archived
        THEN /\ Keep(a, NoJob)
             /\ Goto(a, "idle")
             /\ UNCHANGED <<status, owed, member, held>>
        ELSE /\ member' = placed
             /\ held' = held \ job[a].pages
             /\ status' = IF complete /\ status = "blocked_customs"
                          THEN "pending" ELSE status
             /\ owed' = (owed \/ (complete /\ status = "merged"))
             /\ Keep(a, [job[a] EXCEPT !.pages = {}])
             /\ Goto(a, "admitted")
     /\ UNCHANGED <<reason, delivered, archived, toggle, lock, packet, shelved, reading, counts>>

-----------------------------------------------------------------------------
(* The sync flow.                                                            *)

SyncStart ==
  /\ At(Sync, "idle")
  /\ Goto(Sync, "scanning")
  /\ UNCHANGED <<row, lock, packet, docs>>
  /\ Stay

\* A document is read, whether or not it belongs to the set already.
ScanRead(d) ==
  /\ At(Sync, "scanning")
  /\ TypeOf[d] \in CoreTypes
  /\ reading[d] = "unread"
  /\ d \notin shelved
  /\ \E v \in Outcomes[d] :
       /\ reading' = [reading EXCEPT ![d] = v]
       /\ IF v = "failed"
          THEN /\ Keep(Sync, [NoJob EXCEPT !.pages = {d}])
               /\ Goto(Sync, "breaking")
          ELSE UNCHANGED <<job, pc>>
  /\ UNCHANGED <<row, lock, packet, member, shelved, held, counts>>

\* Mutant: the broken document's set is quarantined whatever its status.
BreakAnySet ==
  /\ At(Sync, "breaking")
  /\ IF job[Sync].pages \subseteq member
     THEN status' = "quarantined" /\ reason' = "quarantined"
     ELSE UNCHANGED <<status, reason>>
  /\ Keep(Sync, NoJob)
  /\ Goto(Sync, "scanning")
  /\ UNCHANGED <<delivered, archived, toggle, owed, lock, packet, docs, counts>>

\* _quarantine_broken_document: one UPDATE that spares archived, merged and
\* already quarantined sets; the per-PO lock is not taken.
Break ==
  /\ At(Sync, "breaking")
  /\ IF job[Sync].pages \subseteq member /\ ~archived /\ status \notin {"merged", "quarantined"}
     THEN status' = "quarantined" /\ reason' = "quarantined"
     ELSE UNCHANGED <<status, reason>>
  /\ Keep(Sync, NoJob)
  /\ Goto(Sync, "scanning")
  /\ UNCHANGED <<delivered, archived, toggle, owed, lock, packet, docs, counts>>

\* Grouping and the attach sweeps look the open set up ...
AttachRead(d) ==
  /\ At(Sync, "scanning")
  /\ TypeOf[d] \in CoreTypes
  /\ reading[d] \in {"void", "wrong", "first", "second", "full"}
  /\ d \notin member
  /\ status # "merged"
  /\ ~archived
  /\ Keep(Sync, [NoJob EXCEPT !.pages = {d}])
  /\ Goto(Sync, "attaching")
  /\ UNCHANGED <<row, lock, packet, docs, counts>>

\* ... and commit the document's po_set_id later, without the per-PO lock.
AttachWrite ==
  /\ At(Sync, "attaching")
  /\ member' = member \cup job[Sync].pages
  /\ held' = held \cup (job[Sync].pages \cap ByNumber)
  /\ Keep(Sync, NoJob)
  /\ Goto(Sync, "scanning")
  /\ UNCHANGED <<row, lock, packet, shelved, reading, counts>>

\* The reading ends; documents not yet in the input folder, or left unread by
\* a tripped provider breaker, wait for the next sync.
ScanEnd ==
  /\ At(Sync, "scanning")
  /\ Goto(Sync, "sweeping")
  /\ UNCHANGED <<row, lock, packet, docs>>
  /\ Stay

\* _reconcile_with_lock_guard.
Sweep ==
  /\ At(Sync, "sweeping")
  /\ \/ /\ ~archived
        /\ lock = NoAction
        /\ lock' = "sync_reconcile"
        /\ Keep(Sync, [NoJob EXCEPT !.act = "sync_reconcile"])
        /\ Goto(Sync, "judging")
     \/ /\ lock # NoAction \/ archived \/ status = "merged"
        /\ Goto(Sync, "owing")
        /\ UNCHANGED <<lock, job>>
  /\ UNCHANGED <<row, packet, docs, counts>>

\* Mutant: merged sets are skipped, as in the sweep of the open sets.
SettleSkipsMerged ==
  /\ At(Sync, "owing")
  /\ Goto(Sync, "idle")
  /\ UNCHANGED <<row, lock, packet, docs>>
  /\ Stay

\* The last stage retries a rebuild that is still owed; the flag is read again
\* under the lock.  Then the sync ends.
Settle ==
  /\ At(Sync, "owing")
  /\ \/ /\ status = "merged" /\ ~archived /\ owed
        /\ lock = NoAction
        /\ lock' = "sync_customs_append"
        /\ Keep(Sync, [NoJob EXCEPT !.act = "sync_customs_append"])
        /\ Goto(Sync, "appending")
     \/ /\ ~(status = "merged" /\ ~archived /\ owed) \/ lock # NoAction
        /\ Goto(Sync, "idle")
        /\ UNCHANGED <<lock, job>>
  /\ UNCHANGED <<row, packet, docs, counts>>

SyncStage ==
  \/ SyncStart \/ Break \/ AttachWrite \/ ScanEnd \/ Sweep \/ Settle
  \/ \E d \in Docs : ScanRead(d) \/ AttachRead(d)

-----------------------------------------------------------------------------

OperatorStep(a) ==
  Acquire(a) \/ Conflict(a) \/ RouteBody(a) \/ Reconcile(a) \/ Release(a) \/ Place(a)

SyncStep ==
  SyncStage \/ Reconcile(Sync) \/ Rebuild(Sync) \/ Release(Sync)

Next ==
  \/ \E a \in Operators :
       OperatorStep(a) \/ (\E r \in Routes : Request(a, r)) \/ \E d \in Docs : Propose(a, d)
  \/ SyncStep
  \/ Lapse
  \/ \E S \in {Operators, {Sync}, Actors} : Crash(S)

Spec == Init /\ [][Next]_vars

\* A handler that got its lock runs to its end; the watcher and the nightly
\* schedule start syncs again and again, and each sync runs to its end.  Every
\* file is read and grouped by some sync, however often one stops early, and a
\* file or commit fault passes: a packet is written and recorded on some retry.
Fairness ==
  /\ \A a \in Operators : WF_vars(OperatorStep(a))
  /\ WF_vars(SyncStep)
  /\ WF_vars(Lapse)
  /\ SF_vars(\E d \in Docs : ScanRead(d))
  /\ SF_vars(\E d \in Docs : AttachRead(d))
  /\ SF_vars(AppendWrite(Sync))
  /\ SF_vars(MergeWrite(Sync) /\ packet' # packet)
  /\ SF_vars(MergeCommit(Sync) /\ status' = "merged")
  /\ SF_vars(Credit(Sync) /\ ~owed')

FairSpec == Spec /\ Fairness

-----------------------------------------------------------------------------
(* Safety.                                                                   *)

Holding(a) == pc[a] \in Bodies

\* FR-CONC-2: at most one action of one actor works on the set at a time.
LockExcludes ==
  \A a, b \in Actors : Holding(a) /\ Holding(b) => a = b

\* A set shown as delivered has a packet file at its recorded path, across
\* failed writes, failed commits and crashes.
MergedHasPacket == status = "merged" => delivered /\ packet # NoPacket

\* FR-14.6: whatever the handlers and the sync do, a delivered set stays so.
DeliveredIsTerminal == [][status = "merged" => status' = "merged"]_vars

\* A packet that was not forced passes every gate at the moment its set becomes
\* merged, although the sync reads and attaches documents without the lock; as
\* long as nobody places documents from the holding page, also without the lock.
AutoPacketIsProved ==
  [][status # "merged" /\ status' = "merged" /\ reason' = "merged"
       => Verdict(packet' \ shelved', reading', held', toggle') = "merge"]_vars

\* An archived set's packet is never written.
ArchivedNeverDelivers ==
  [][archived => packet' = packet /\ (status' = "merged" => status = "merged")]_vars

\* The handlers, the sync and the rebuild together keep what PublishedSet promises.
Published ==
  INSTANCE PublishedSet WITH
    phase <- IF status = "merged" THEN "delivered" ELSE "open",
    closed <- archived,
    file <- packet
PublishedSetImplemented == Published!Spec

\* A delivered packet that lacks the customs pages its set requires and has is
\* recorded as owed once nobody works on the set, whatever fault met the rebuild,
\* and when a placement has found the set busy.  No record is left by a crash
\* between the commit of a toggle or an upload and the rebuild, nor by a placement
\* that meets a forced merge between its write and its commit.
CustomsDebtRecorded ==
  /\ crashes = 0
  /\ status = "merged" /\ toggle /\ HasBoth(member \ shelved) /\ ~archived
  /\ ~HasBoth(packet)
  /\ \A a \in Actors : ~Holding(a)
  => owed

-----------------------------------------------------------------------------
(* What documents and comments of the repository say, and the code does not *)
(* keep: each is checked by a run that finds the counterexample.             *)

\* Re-Extract never touches what was read from a delivered document
\* (docstring of _refuse_if_merged).
DeliveredReadingsStay ==
  [][status = "merged" => \A d \in packet : reading'[d] = reading[d]]_vars

-----------------------------------------------------------------------------
(* Liveness.                                                                 *)

\* A set whose documents all read well is delivered in the end, however
\* operators, syncs and file faults interleave, unless customs files come to be
\* required or a crash has left a packet file that no row owns.
EventuallyDelivered == ~toggle ~> status = "merged" \/ toggle \/ Orphan

\* A rebuild that is owed is made, or stops being owed, across crashes.
DebtIsPaid == owed ~> ~owed

\* The lock does not stay with an action for ever, even if its holder dies.
LockIsFreed == lock # NoAction ~> lock = NoAction

=============================================================================
