-------------------------- MODULE PoSetLifecycleProofs --------------------------
(***************************************************************************)
(* Proofs about PoSetLifecycle, for any documents, operators, routes,       *)
(* faults and bounds.                                                       *)
(*                                                                          *)
(* The inductive invariant IInv has four parts: the types; Exclusion, that  *)
(* the lock names the one actor inside a body; Fit, what holds at the place *)
(* an actor has reached; and MergedHasPacket.  A step inside a body is      *)
(* summarised by BodyStep: where the actor goes, with what job, and that    *)
(* place and job fit.  The rest of the argument is the same for all of them.*)
(*                                                                          *)
(* Three sections build on IInv: the implementation of PublishedSet, the    *)
(* proof that an automatic packet is what the verdict proved, and the       *)
(* record of the customs pages that a delivered packet lacks.               *)
(***************************************************************************)
EXTENDS PoSetLifecycle, TLAPS

\* Places between the decision to merge and its outcome: the set is not merged.
Open == {"deciding", "merging", "writing", "committing", "restoring",
         "overruling", "sealing"}

\* What is true of an actor at place p with job f.
Fit(p, f) ==
  /\ f.seen # "merged"
  /\ p = "deciding" => f.say # "merged"
  /\ p = "overruling" => f.say \in {"pending", "quarantined"}
  /\ p = "recording" => f.say # "merge"
  /\ p \in Open => status # "merged"
  /\ p \in {"writing", "committing", "sealing"} => ~archived
  /\ p = "writing" => f.pages # {}
  /\ p \in {"committing", "sealing"} => packet # NoPacket

\* The lock names the action of the one actor that is inside a body, and an actor on
\* its way there has an action to name.
Exclusion ==
  \A a \in Actors :
    /\ pc[a] \in {"admitted", "placing"} \/ Holding(a) => job[a].act # NoAction
    /\ Holding(a) => lock = job[a].act
    /\ \A b \in Actors : Holding(a) /\ Holding(b) => a = b

IInv == TypeOK /\ Exclusion /\ (\A a \in Actors : Fit(pc[a], job[a])) /\ MergedHasPacket

\* A step of an actor inside a body that stays inside.
BodyStep(a, p, f) ==
  /\ Goto(a, p) /\ Keep(a, f)
  /\ p \in Bodies /\ f \in Jobs /\ f.act = job[a].act
  /\ lock' = lock
  /\ Fit(p, f)'

\* The variables that actors share keep their types.
RowTyped ==
  /\ status \in Statuses
  /\ reason \in Statuses \cup {"none", "forced"}
  /\ delivered \in BOOLEAN
  /\ archived \in BOOLEAN
  /\ toggle \in BOOLEAN
  /\ owed \in BOOLEAN

DocsTyped ==
  /\ packet \in SUBSET Docs
  /\ member \in SUBSET Docs
  /\ shelved \in SUBSET Docs
  /\ held \in SUBSET Docs
  /\ reading \in [Docs -> Readings]

CountsTyped == requests \in Nat /\ crashes \in Nat

\* What is to be shown of every step inside a body.
KeepsBody(a) ==
  (\E p, f : BodyStep(a, p, f)) /\ RowTyped' /\ DocsTyped' /\ CountsTyped' /\ MergedHasPacket'

-----------------------------------------------------------------------------
(* Facts about the model's operators.                                       *)

\* A verdict is a status other than "merged", or the order to merge.
LEMMA VerdictType ==
  ASSUME NEW D, NEW r, NEW u, NEW g
  PROVE  Verdict(D, r, u, g) \in {"quarantined", "pending", "mismatched",
                                  "blocked_customs", "merge"}
BY DEF Verdict

LEMMA JobFields ==
  ASSUME NEW j \in Jobs
  PROVE  /\ j.act \in RouteActions \cup SyncActions \cup {NoAction}
         /\ j.seen \in Statuses
         /\ j.proved \subseteq Docs
         /\ j.pages \subseteq Docs
         /\ j.say \in Statuses \cup {"merge"}
BY DEF Jobs

LEMMA NoJobFits ==
  /\ NoJob \in Jobs
  /\ NoJob.act = NoAction /\ NoJob.seen = "pending" /\ NoJob.say = "pending"
BY DEF NoJob, Jobs, Statuses

\* A step that leaves every job alone keeps this one.
LEMMA Kept ==
  ASSUME TypeOK, NEW a \in Actors, UNCHANGED job
  PROVE  Keep(a, job[a]) /\ job[a] \in Jobs
BY DEF TypeOK, Keep

\* While one actor is inside a body, no other is.
LEMMA Alone ==
  ASSUME Exclusion, NEW a \in Actors, Holding(a)
  PROVE  \A b \in Actors : b # a => ~Holding(b)
BY DEF Exclusion

\* A step inside a body keeps the actors' part of the invariant.
LEMMA BodyStepKeeps ==
  ASSUME IInv, NEW a \in Actors, Holding(a), NEW p, NEW f, BodyStep(a, p, f)
  PROVE  /\ pc' \in [Actors -> {"idle", "admitted"} \cup Stages \cup Bodies]
         /\ job' \in [Actors -> Jobs]
         /\ lock' \in RouteActions \cup SyncActions \cup {NoAction}
         /\ Exclusion'
         /\ \A b \in Actors : Fit(pc[b], job[b])'
<1> USE DEF BodyStep, Goto, Keep
<1>1. /\ pc \in [Actors -> {"idle", "admitted"} \cup Stages \cup Bodies]
      /\ job \in [Actors -> Jobs]
      /\ lock \in RouteActions \cup SyncActions \cup {NoAction}
  BY DEF IInv, TypeOK
<1>2. pc'[a] = p /\ job'[a] = f
  BY <1>1
<1>3. \A b \in Actors : b # a => pc'[b] = pc[b] /\ job'[b] = job[b] /\ pc[b] \notin Bodies
  BY <1>1, Alone DEF IInv, Holding
<1>4. Exclusion'
  BY <1>1, <1>2, <1>3 DEF IInv, Exclusion, Holding
<1>5. ASSUME NEW b \in Actors
      PROVE  Fit(pc[b], job[b])'
  <2>1. CASE b = a
    BY <1>2, <2>1 DEF Fit
  <2>2. CASE b # a
    <3>1. Fit(pc[b], job[b])
      BY DEF IInv
    <3>2. pc'[b] \notin Bodies
      BY <1>3, <2>2
    <3> QED
      BY <1>3, <2>2, <3>1, <3>2 DEF Fit, Bodies, Open
  <2> QED
    BY <2>1, <2>2
<1> QED
  BY <1>1, <1>4, <1>5

-----------------------------------------------------------------------------
(* The steps of reconcile_po_set.                                           *)

\* A step that leaves the jobs alone, to a place that asks nothing of the set.
LEMMA CalmStep ==
  ASSUME IInv, NEW a \in Actors, NEW p \in Bodies \ (Open \cup {"recording"}), Goto(a, p),
         UNCHANGED <<job, lock>>
  PROVE  \E q, f : BodyStep(a, q, f)
<1> PICK f : f = job[a]
  OBVIOUS
<1>1. Keep(a, f) /\ f \in Jobs /\ Fit(pc[a], f)
  BY Kept DEF IInv
<1>2. BodyStep(a, p, f)
  BY <1>1 DEF BodyStep, Fit, Open
<1> QED
  BY <1>2

LEMMA ReconciledStep ==
  ASSUME IInv, NEW a \in Actors, Reconciled(a), UNCHANGED <<job, lock>>
  PROVE  \E q, f : BodyStep(a, q, f)
BY CalmStep DEF Reconciled, Bodies, Open

LEMMA JudgeStep ==
  ASSUME IInv, NEW a \in Actors, Judge(a)
  PROVE  KeepsBody(a)
<1> DEFINE v == Verdict(member, reading, held \ shelved, toggle)
<1>1. job[a] \in Jobs /\ status \in Statuses /\ member \ shelved \in SUBSET Docs
  BY DEF IInv, TypeOK
<1>2. v \in {"quarantined", "pending", "mismatched", "blocked_customs", "merge"}
  BY VerdictType
<1>3. UNCHANGED <<row, lock, packet, docs, counts>>
  BY DEF Judge
<1>4. Fit(pc[a], job[a])
  BY DEF IInv
<1>5. ASSUME archived \/ status = "quarantined"
      PROVE  \E p, f : BodyStep(a, p, f)
  BY <1>3, <1>5, ReconciledStep DEF Judge
<1>6. ASSUME ~archived, status = "merged"
      PROVE  \E p, f : BodyStep(a, p, f)
  <2>1. PICK f : f = [job[a] EXCEPT !.say = "merged"]
    OBVIOUS
  <2>2. f \in Jobs /\ f.act = job[a].act /\ f.seen = job[a].seen /\ f.say = "merged"
    BY <1>1, <2>1 DEF Jobs, Statuses
  <2>3. Keep(a, f) /\ Goto(a, "recording")
    BY <1>6, <2>1 DEF Judge
  <2>4. BodyStep(a, "recording", f)
    BY <1>3, <1>4, <2>2, <2>3 DEF BodyStep, Bodies, Fit, Open
  <2> QED
    BY <2>4
<1>7. ASSUME ~archived, status \notin {"quarantined", "merged"}
      PROVE  \E p, f : BodyStep(a, p, f)
  <2> HIDE DEF v
  <2>1. PICK say \in {v, "pending"} :
          /\ Keep(a, [job[a] EXCEPT !.seen = status, !.say = say,
                                    !.proved = member \ shelved])
          /\ Goto(a, "deciding")
    BY <1>7 DEF Judge, v
  <2>2. say \in Statuses \cup {"merge"} /\ say # "merged"
    BY <1>2, <2>1 DEF Statuses
  <2>3. PICK f : f = [job[a] EXCEPT !.seen = status, !.say = say, !.proved = member \ shelved]
    OBVIOUS
  <2>4. f \in Jobs /\ f.act = job[a].act /\ f.seen = status /\ f.say = say
    BY <1>1, <2>2, <2>3 DEF Jobs
  <2>5. Keep(a, f) /\ Goto(a, "deciding")
    BY <2>1, <2>3
  <2>6. BodyStep(a, "deciding", f)
    BY <1>3, <1>7, <2>2, <2>4, <2>5 DEF BodyStep, Bodies, Fit, Open, row
  <2> QED
    BY <2>6
<1>8. \E p, f : BodyStep(a, p, f)
  BY <1>5, <1>6, <1>7
<1> QED
  BY <1>3, <1>8 DEF KeepsBody, IInv, TypeOK, RowTyped, DocsTyped, CountsTyped, MergedHasPacket,
     row, docs, counts

LEMMA DecideStep ==
  ASSUME IInv, NEW a \in Actors, Decide(a)
  PROVE  KeepsBody(a)
<1> PICK f : f = job[a]
  OBVIOUS
<1>1. Keep(a, f) /\ f \in Jobs /\ UNCHANGED lock
  BY Kept DEF IInv, Decide, Stay
<1>2. Fit("deciding", f) /\ status # "merged"
  BY DEF IInv, Fit, Open, Decide, At
<1>3. f.say \in Statuses \cup {"merge"} /\ f.seen \in Statuses
  BY <1>1, JobFields
<1>4. status' \in Statuses /\ status' # "merged"
  BY <1>2, <1>3 DEF Decide, Assigned, Statuses, Fit, IInv, TypeOK
<1>5. CASE f.say = "merge"
  <2>1. BodyStep(a, "merging", f)
    BY <1>1, <1>2, <1>4, <1>5 DEF Decide, BodyStep, Bodies, Fit, Open
  <2> QED
    BY <2>1, <1>4 DEF KeepsBody, Decide, IInv, TypeOK, RowTyped, DocsTyped, CountsTyped,
       MergedHasPacket, Stay, docs, counts
<1>6. CASE f.say # "merge"
  <2>1. BodyStep(a, "recording", f)
    BY <1>1, <1>2, <1>4, <1>6 DEF Decide, BodyStep, Bodies, Fit, Open
  <2> QED
    BY <2>1, <1>4 DEF KeepsBody, Decide, IInv, TypeOK, RowTyped, DocsTyped, CountsTyped,
       MergedHasPacket, Stay, docs, counts
<1> QED
  BY <1>5, <1>6

LEMMA MergeCheckStep ==
  ASSUME IInv, NEW a \in Actors, MergeCheck(a)
  PROVE  KeepsBody(a)
<1>1. job[a] \in Jobs /\ member \in SUBSET Docs
  BY DEF IInv, TypeOK
<1>2. UNCHANGED <<row, lock, packet, docs, counts>>
  BY DEF MergeCheck
<1>3. Fit("merging", job[a])
  BY DEF IInv, MergeCheck, At
<1>4. ASSUME MergeDeclined, Goto(a, "restoring"), UNCHANGED job
      PROVE  \E p, f : BodyStep(a, p, f)
  <2> PICK f : f = job[a]
    OBVIOUS
  <2>1. BodyStep(a, "restoring", f)
    BY <1>1, <1>2, <1>3, <1>4, Kept DEF IInv, BodyStep, Bodies, Fit, Open, row
  <2> QED
    BY <2>1
<1>5. ASSUME NEW p, NEW v, <<p, v>> \in {<<"recording", "merged">>, <<"overruling", "quarantined">>},
             Keep(a, [job[a] EXCEPT !.say = v]), Goto(a, p)
      PROVE  \E q, f : BodyStep(a, q, f)
  <2> PICK f : f = [job[a] EXCEPT !.say = v]
    OBVIOUS
  <2>1. f \in Jobs /\ f.act = job[a].act /\ f.seen = job[a].seen /\ f.say = v
    BY <1>1, <1>5 DEF Jobs, Statuses
  <2>2. BodyStep(a, p, f)
    BY <1>2, <1>3, <1>5, <2>1 DEF BodyStep, Bodies, Fit, Open, row
  <2> QED
    BY <2>2
<1>6. ASSUME ~MergeDeclined, status # "merged", Keep(a, [job[a] EXCEPT !.pages = member]),
             Goto(a, "writing")
      PROVE  \E p, f : BodyStep(a, p, f)
  <2> PICK f : f = [job[a] EXCEPT !.pages = member]
    OBVIOUS
  <2>1. f \in Jobs /\ f.act = job[a].act /\ f.seen = job[a].seen /\ f.pages = member
    BY <1>1 DEF Jobs
  <2>2. member # {} /\ ~archived
    BY <1>6 DEF MergeDeclined
  <2>3. BodyStep(a, "writing", f)
    BY <1>2, <1>3, <1>6, <2>1, <2>2 DEF BodyStep, Bodies, Fit, Open, row
  <2> QED
    BY <2>3
<1>7. \E p, f : BodyStep(a, p, f)
  BY <1>4, <1>5, <1>6 DEF MergeCheck
<1> QED
  BY <1>2, <1>7 DEF KeepsBody, IInv, TypeOK, RowTyped, DocsTyped, CountsTyped, MergedHasPacket,
     row, docs, counts

LEMMA MergeWriteStep ==
  ASSUME IInv, NEW a \in Actors, MergeWrite(a)
  PROVE  KeepsBody(a)
<1>1. job[a] \in Jobs /\ job[a].pages \subseteq Docs
  BY JobFields DEF IInv, TypeOK
<1>2. UNCHANGED <<row, lock, docs, counts>>
  BY DEF MergeWrite
<1>3. Fit("writing", job[a]) /\ status # "merged"
  BY DEF IInv, MergeWrite, At, Fit, Open
<1>4. ASSUME NEW v \in WriteFailures(a), Keep(a, [job[a] EXCEPT !.say = v]),
             Goto(a, "overruling")
      PROVE  \E p, f : BodyStep(a, p, f)
  <2> PICK f : f = [job[a] EXCEPT !.say = v]
    OBVIOUS
  <2>1. v \in {"pending", "quarantined"}
    BY DEF WriteFailures
  <2>2. f \in Jobs /\ f.act = job[a].act /\ f.seen = job[a].seen /\ f.say = v
    BY <1>1, <2>1 DEF Jobs, Statuses
  <2>3. BodyStep(a, "overruling", f)
    BY <1>2, <1>3, <1>4, <2>1, <2>2 DEF BodyStep, Bodies, Fit, Open, row
  <2> QED
    BY <2>3
<1>5. ASSUME packet' = job[a].pages, Goto(a, "committing"), UNCHANGED job
      PROVE  \E p, f : BodyStep(a, p, f)
  <2> PICK f : f = job[a]
    OBVIOUS
  <2>1. BodyStep(a, "committing", f)
    BY <1>1, <1>2, <1>3, <1>5, Kept DEF IInv, BodyStep, Bodies, Fit, Open, row, NoPacket
  <2> QED
    BY <2>1
<1>6. (\E p, f : BodyStep(a, p, f)) /\ packet' \in SUBSET Docs
  BY <1>1, <1>4, <1>5 DEF MergeWrite, IInv, TypeOK
<1> QED
  BY <1>2, <1>3, <1>6 DEF KeepsBody, IInv, TypeOK, RowTyped, DocsTyped, CountsTyped,
     MergedHasPacket, row, docs, counts

LEMMA FailedCommitStep ==
  ASSUME IInv, NEW a \in Actors, pc[a] \in {"committing", "sealing"}, CommitFails(a)
  PROVE  KeepsBody(a)
<1>1. status # "merged"
  BY DEF IInv, Fit, Open
<1>2. \E p, f : BodyStep(a, p, f)
  BY ReconciledStep DEF CommitFails, Stay
<1> QED
  BY <1>1, <1>2 DEF CommitFails, Stay, NoPacket, KeepsBody, IInv, TypeOK, RowTyped, DocsTyped,
     CountsTyped, MergedHasPacket, row, docs, counts

LEMMA MergeCommitStep ==
  ASSUME IInv, NEW a \in Actors, MergeCommit(a)
  PROVE  KeepsBody(a)
<1>1. CASE CommitFails(a)
  BY <1>1, FailedCommitStep DEF MergeCommit, At
<1>2. CASE ~CommitFails(a)
  <2>1. /\ status' = "merged" /\ delivered' = TRUE /\ reason' = "merged"
        /\ UNCHANGED <<archived, toggle, owed, lock, packet, docs, counts>>
        /\ Keep(a, [job[a] EXCEPT !.say = "merged"]) /\ Goto(a, "recording")
    BY <1>2 DEF MergeCommit
  <2>2. Fit("committing", job[a]) /\ job[a] \in Jobs
    BY DEF IInv, TypeOK, MergeCommit, At
  <2> PICK f : f = [job[a] EXCEPT !.say = "merged"]
    OBVIOUS
  <2>3. f \in Jobs /\ f.act = job[a].act /\ f.seen = job[a].seen /\ f.say = "merged"
    BY <2>2 DEF Jobs, Statuses
  <2>4. BodyStep(a, "recording", f)
    BY <2>1, <2>2, <2>3 DEF BodyStep, Bodies, Fit, Open
  <2> QED
    BY <2>1, <2>2, <2>4 DEF Fit, Statuses, KeepsBody, IInv, TypeOK, RowTyped, DocsTyped,
       CountsTyped, MergedHasPacket, row, docs, counts
<1> QED
  BY <1>1, <1>2

LEMMA RestoreStep ==
  ASSUME IInv, NEW a \in Actors, Restore(a)
  PROVE  KeepsBody(a)
<1>1. \E p, f : BodyStep(a, p, f)
  BY ReconciledStep DEF Restore, Stay
<1>2. status' \in Statuses /\ status' # "merged"
  BY JobFields DEF Restore, IInv, TypeOK, Fit
<1> QED
  BY <1>1, <1>2 DEF Restore, Stay, KeepsBody, IInv, TypeOK, RowTyped, DocsTyped, CountsTyped,
     MergedHasPacket, row, docs, counts

LEMMA OverruleStep ==
  ASSUME IInv, NEW a \in Actors, Overrule(a)
  PROVE  KeepsBody(a)
<1> PICK f : f = job[a]
  OBVIOUS
<1>1. Keep(a, f) /\ f \in Jobs /\ Fit("overruling", f)
  BY Kept DEF IInv, Overrule, Stay, At
<1>2. BodyStep(a, "recording", f)
  BY <1>1 DEF Overrule, BodyStep, Bodies, Fit, Open
<1> QED
  BY <1>1, <1>2 DEF Overrule, Stay, Fit, Statuses, KeepsBody, IInv, TypeOK, RowTyped, DocsTyped,
     CountsTyped, MergedHasPacket, row, docs, counts

LEMMA RecordStep ==
  ASSUME IInv, NEW a \in Actors, Record(a)
  PROVE  KeepsBody(a)
<1>1. \E p, f : BodyStep(a, p, f)
  BY ReconciledStep DEF Record, Stay
<1>2. job[a].say \in Statuses
  BY JobFields DEF Record, At, IInv, TypeOK, Fit
<1> QED
  BY <1>1, <1>2 DEF Record, Stay, KeepsBody, IInv, TypeOK, RowTyped, DocsTyped, CountsTyped,
     MergedHasPacket, row, docs, counts

LEMMA ReconcileStep ==
  ASSUME IInv, NEW a \in Actors, Reconcile(a)
  PROVE  KeepsBody(a)
BY JudgeStep, DecideStep, MergeCheckStep, MergeWriteStep, MergeCommitStep, RestoreStep,
   OverruleStep, RecordStep DEF Reconcile

-----------------------------------------------------------------------------
(* The steps of the other routes and of the customs rebuild.                *)

LEMMA ReopenStep ==
  ASSUME IInv, NEW a \in Actors, Reopen(a)
  PROVE  KeepsBody(a)
<1>1. \E p, f : BodyStep(a, p, f)
  BY CalmStep DEF Reopen, Stay, Bodies, Open
<1> QED
  BY <1>1 DEF Reopen, Stay, Statuses, KeepsBody, IInv, TypeOK, RowTyped, DocsTyped, CountsTyped,
     MergedHasPacket, row, docs, counts

\* Re-Extract carries the documents to be read again.
LEMMA ResetStep ==
  ASSUME IInv, NEW a \in Actors, Reset(a)
  PROVE  KeepsBody(a)
<1> PICK f : f = [job[a] EXCEPT !.pages = Core(member)]
  OBVIOUS
<1>1. job[a] \in Jobs /\ Fit(pc[a], job[a]) /\ Core(member) \in SUBSET Docs
  BY DEF IInv, TypeOK, Core
<1>2. f \in Jobs /\ f.act = job[a].act /\ f.seen = job[a].seen
  BY <1>1 DEF Jobs
<1>3. BodyStep(a, "reopening", f)
  BY <1>1, <1>2 DEF Reset, BodyStep, Bodies, Fit, Open, row
<1>4. reading' \in [Docs -> Readings]
  BY DEF Reset, IInv, TypeOK, Readings
<1> QED
  BY <1>3, <1>4 DEF Reset, KeepsBody, IInv, TypeOK, RowTyped, DocsTyped, CountsTyped,
     MergedHasPacket, row, docs, counts

LEMMA ReadAgainStep ==
  ASSUME IInv, NEW a \in Actors, ReadAgain(a)
  PROVE  KeepsBody(a)
<1>1. job[a] \in Jobs /\ Fit(pc[a], job[a]) /\ pc[a] = "reading"
  BY DEF IInv, TypeOK, ReadAgain, At
<1>2. ASSUME NEW d \in job[a].pages, \E v \in Findings(d) : reading' = [reading EXCEPT ![d] = v],
             Keep(a, [job[a] EXCEPT !.pages = @ \ {d}]), UNCHANGED pc
      PROVE  (\E p, f : BodyStep(a, p, f)) /\ reading' \in [Docs -> Readings]
  <2> PICK f : f = [job[a] EXCEPT !.pages = @ \ {d}]
    OBVIOUS
  <2>1. f \in Jobs /\ f.act = job[a].act /\ f.seen = job[a].seen /\ d \in Docs
    BY <1>1 DEF Jobs
  <2>2. Goto(a, "reading")
    BY <1>1, <1>2 DEF Goto, IInv, TypeOK
  <2>3. BodyStep(a, "reading", f)
    BY <1>1, <1>2, <2>1, <2>2 DEF ReadAgain, BodyStep, Bodies, Fit, Open, row
  <2>4. Findings(d) \subseteq Readings
    BY <2>1, LifecycleAssumption DEF Findings, IInv, TypeOK
  <2> QED
    BY <1>2, <2>1, <2>3, <2>4 DEF IInv, TypeOK
<1>3. ASSUME Goto(a, "judging"), UNCHANGED <<reading, job>>
      PROVE  (\E p, f : BodyStep(a, p, f)) /\ reading' \in [Docs -> Readings]
  BY <1>3, CalmStep DEF ReadAgain, Bodies, Open, IInv, TypeOK
<1> QED
  BY <1>2, <1>3 DEF ReadAgain, KeepsBody, IInv, TypeOK, RowTyped, DocsTyped, CountsTyped,
     MergedHasPacket, row, docs, counts

LEMMA ConfirmStep ==
  ASSUME IInv, NEW a \in Actors, Confirm(a)
  PROVE  KeepsBody(a)
<1>1. \E p, f : BodyStep(a, p, f)
  BY CalmStep DEF Confirm, Stay, Bodies, Open
<1> QED
  BY <1>1 DEF Confirm, Stay, KeepsBody, IInv, TypeOK, RowTyped, DocsTyped, CountsTyped,
     MergedHasPacket, row, docs, counts

LEMMA ForceMergeStep ==
  ASSUME IInv, NEW a \in Actors, ForceMerge(a)
  PROVE  KeepsBody(a)
<1>1. CASE status = "merged" /\ delivered
  <2>1. \E p, f : BodyStep(a, p, f)
    BY <1>1, CalmStep DEF ForceMerge, Stay, Bodies, Open
  <2> QED
    BY <1>1, <2>1 DEF ForceMerge, Stay, KeepsBody, IInv, TypeOK, RowTyped, DocsTyped,
       CountsTyped, MergedHasPacket, row, docs, counts
<1>2. CASE ~(status = "merged" /\ delivered)
  <2> PICK f : f = job[a]
    OBVIOUS
  <2>1. Keep(a, f) /\ f \in Jobs /\ Fit("forcing", f) /\ status # "merged"
    BY <1>2, Kept DEF ForceMerge, Stay, At, IInv, MergedHasPacket
  <2>2. BodyStep(a, "sealing", f)
    BY <1>2, <2>1 DEF ForceMerge, Stay, BodyStep, Bodies, Fit, Open, row, NoPacket
  <2> QED
    BY <1>2, <2>1, <2>2 DEF ForceMerge, Stay, KeepsBody, IInv, TypeOK, RowTyped, DocsTyped,
       CountsTyped, MergedHasPacket, row, docs, counts
<1> QED
  BY <1>1, <1>2

LEMMA SealStep ==
  ASSUME IInv, NEW a \in Actors, Seal(a)
  PROVE  KeepsBody(a)
<1>1. CASE CommitFails(a)
  BY <1>1, FailedCommitStep DEF Seal, At
<1>2. CASE ~CommitFails(a)
  <2>1. \E p, f : BodyStep(a, p, f)
    BY <1>2, CalmStep DEF Seal, Stay, Bodies, Open
  <2>2. packet # NoPacket
    BY DEF Seal, At, IInv, Fit
  <2> QED
    BY <1>2, <2>1, <2>2 DEF Seal, Stay, Statuses, KeepsBody, IInv, TypeOK, RowTyped, DocsTyped,
       CountsTyped, MergedHasPacket, row, docs, counts
<1> QED
  BY <1>1, <1>2

LEMMA ToggleStep ==
  ASSUME IInv, NEW a \in Actors, Toggle(a)
  PROVE  KeepsBody(a)
<1>1. \E p, f : BodyStep(a, p, f)
  BY CalmStep DEF Toggle, Stay, Bodies, Open
<1> QED
  BY <1>1 DEF Toggle, Stay, Statuses, KeepsBody, IInv, TypeOK, RowTyped, DocsTyped, CountsTyped,
     MergedHasPacket, row, docs, counts

LEMMA UploadStep ==
  ASSUME IInv, NEW a \in Actors, Upload(a)
  PROVE  KeepsBody(a)
<1>1. \E p, f : BodyStep(a, p, f)
  BY CalmStep DEF Upload, Stay, Bodies, Open
<1> QED
  BY <1>1 DEF Upload, Stay, Statuses, KeepsBody, IInv, TypeOK, RowTyped, DocsTyped, CountsTyped,
     MergedHasPacket, row, docs, counts

LEMMA RemoveStep ==
  ASSUME IInv, NEW a \in Actors, Remove(a)
  PROVE  KeepsBody(a)
<1>1. \E p, f : BodyStep(a, p, f)
  BY CalmStep DEF Remove, Stay, Bodies, Open
<1> QED
  BY <1>1 DEF Remove, Stay, KeepsBody, IInv, TypeOK, RowTyped, DocsTyped, CountsTyped,
     MergedHasPacket, row, docs, counts

LEMMA ExportStep ==
  ASSUME IInv, NEW a \in Actors, Export(a)
  PROVE  KeepsBody(a)
<1>1. \E p, f : BodyStep(a, p, f)
  BY CalmStep DEF Export, Stay, Bodies, Open
<1> QED
  BY <1>1 DEF Export, Stay, KeepsBody, IInv, TypeOK, RowTyped, DocsTyped, CountsTyped,
     MergedHasPacket, row, docs, counts

LEMMA ShelveStep ==
  ASSUME IInv, NEW a \in Actors, Shelve(a)
  PROVE  KeepsBody(a)
<1>1. \E p, f : BodyStep(a, p, f)
  BY CalmStep DEF Shelve, Stay, Bodies, Open
<1> QED
  BY <1>1 DEF Shelve, Stay, KeepsBody, IInv, TypeOK, RowTyped, DocsTyped, CountsTyped,
     MergedHasPacket, row, docs, counts

LEMMA RefuseStep ==
  ASSUME IInv, NEW a \in Actors, Refuse(a)
  PROVE  KeepsBody(a)
<1>1. \E p, f : BodyStep(a, p, f)
  BY CalmStep DEF Refuse, Stay, Bodies, Open
<1> QED
  BY <1>1 DEF Refuse, Stay, Refusals, KeepsBody, IInv, TypeOK, RowTyped, DocsTyped, CountsTyped,
     MergedHasPacket, row, docs, counts

\* The packet with the customs pages is not empty: it has both of them.
LEMMA AppendWriteStep ==
  ASSUME IInv, NEW a \in Actors, AppendWrite(a)
  PROVE  KeepsBody(a)
<1> PICK f : f = [job[a] EXCEPT !.debt = owed]
  OBVIOUS
<1>1. job[a] \in Jobs /\ owed \in BOOLEAN /\ Fit(pc[a], job[a])
  BY DEF IInv, TypeOK
<1>2. f \in Jobs /\ f.act = job[a].act /\ f.seen = job[a].seen
  BY <1>1 DEF Jobs
<1>3. BodyStep(a, "crediting", f)
  BY <1>1, <1>2 DEF AppendWrite, BodyStep, Bodies, Fit, Open, row
<1>4. member # {}
  BY DEF AppendWrite, Appendable, HasBoth, OfType, AddonTypes
<1> QED
  BY <1>3, <1>4 DEF AppendWrite, Appendable, NoPacket, KeepsBody, IInv, TypeOK, RowTyped,
     DocsTyped, CountsTyped, MergedHasPacket, row, docs, counts

LEMMA AppendNothingStep ==
  ASSUME IInv, NEW a \in Actors, AppendNothing(a)
  PROVE  KeepsBody(a)
<1>1. \E p, f : BodyStep(a, p, f)
  BY CalmStep DEF AppendNothing, Stay, Bodies, Open
<1> QED
  BY <1>1 DEF AppendNothing, Stay, KeepsBody, IInv, TypeOK, RowTyped, DocsTyped, CountsTyped,
     MergedHasPacket, row, docs, counts

LEMMA AppendFailStep ==
  ASSUME IInv, NEW a \in Actors, AppendFail(a)
  PROVE  KeepsBody(a)
<1>1. \E p, f : BodyStep(a, p, f)
  BY CalmStep DEF AppendFail, Stay, Bodies, Open
<1> QED
  BY <1>1 DEF AppendFail, Stay, KeepsBody, IInv, TypeOK, RowTyped, DocsTyped, CountsTyped,
     MergedHasPacket, row, docs, counts

LEMMA CreditStep ==
  ASSUME IInv, NEW a \in Actors, Credit(a)
  PROVE  KeepsBody(a)
<1>1. \E p, f : BodyStep(a, p, f)
  BY CalmStep DEF Credit, Stay, Bodies, Open
<1> QED
  BY <1>1 DEF Credit, Stay, KeepsBody, IInv, TypeOK, RowTyped, DocsTyped, CountsTyped,
     MergedHasPacket, row, docs, counts

LEMMA IndebtStep ==
  ASSUME IInv, NEW a \in Actors, Indebt(a)
  PROVE  KeepsBody(a)
<1>1. \E p, f : BodyStep(a, p, f)
  BY CalmStep DEF Indebt, Stay, Bodies, Open
<1> QED
  BY <1>1 DEF Indebt, Stay, KeepsBody, IInv, TypeOK, RowTyped, DocsTyped, CountsTyped,
     MergedHasPacket, row, docs, counts

LEMMA RebuildStep ==
  ASSUME IInv, NEW a \in Actors, Rebuild(a)
  PROVE  KeepsBody(a)
BY AppendWriteStep, AppendNothingStep, AppendFailStep, CreditStep, IndebtStep DEF Rebuild

LEMMA RouteBodyStep ==
  ASSUME IInv, NEW a \in Actors, RouteBody(a)
  PROVE  KeepsBody(a)
BY ReopenStep, ResetStep, ReadAgainStep, ConfirmStep, ForceMergeStep, SealStep, ToggleStep,
   UploadStep, RemoveStep, ExportStep, ShelveStep, RefuseStep, RebuildStep DEF RouteBody

\* A step inside a body keeps the whole invariant.
LEMMA InsideKeeps ==
  ASSUME IInv, NEW a \in Actors, Holding(a), KeepsBody(a)
  PROVE  IInv'
<1> PICK p, f : BodyStep(a, p, f)
  BY DEF KeepsBody
<1> QED
  BY BodyStepKeeps DEF KeepsBody, IInv, TypeOK, RowTyped, DocsTyped, CountsTyped

-----------------------------------------------------------------------------
(* The steps into, out of and between bodies.                               *)

\* An actor outside any body moves on and stays outside.
LEMMA OutsideKeeps ==
  ASSUME IInv, NEW a \in Actors, ~Holding(a), NEW f \in Jobs,
         NEW p \in {"idle", "admitted"} \cup Stages, Goto(a, p), Keep(a, f),
         f.seen # "merged", p \in {"admitted", "placing"} => f.act # NoAction,
         status' = status \/ status' # "merged",
         UNCHANGED <<archived, packet, lock>>
  PROVE  /\ pc' \in [Actors -> {"idle", "admitted"} \cup Stages \cup Bodies]
         /\ job' \in [Actors -> Jobs]
         /\ Exclusion'
         /\ \A b \in Actors : Fit(pc[b], job[b])'
<1> USE DEF Goto, Keep
<1>1. /\ pc \in [Actors -> {"idle", "admitted"} \cup Stages \cup Bodies]
      /\ job \in [Actors -> Jobs]
  BY DEF IInv, TypeOK
<1>2. pc'[a] = p /\ job'[a] = f /\ p \notin Bodies
  BY <1>1 DEF Stages, Bodies
<1>3. \A b \in Actors : b # a => pc'[b] = pc[b] /\ job'[b] = job[b]
  BY <1>1
<1>4. Exclusion'
  BY <1>1, <1>2, <1>3 DEF IInv, Exclusion, Holding
<1>5. ASSUME NEW b \in Actors
      PROVE  Fit(pc[b], job[b])'
  <2>1. CASE b = a
    BY <1>2, <2>1 DEF Fit, Open, Bodies
  <2>2. CASE b # a
    BY <1>3, <2>2 DEF IInv, Fit
  <2> QED
    BY <2>1, <2>2
<1> QED
  BY <1>1, <1>4, <1>5

\* The lock is free and an actor takes it.
LEMMA EnterKeeps ==
  ASSUME IInv, NEW a \in Actors, lock = NoAction, NEW f \in Jobs, f.act # NoAction,
         NEW p \in Bodies \ (Open \cup {"recording"}), Goto(a, p), Keep(a, f),
         f.seen # "merged", lock' = f.act, UNCHANGED <<row, packet, docs, counts>>
  PROVE  IInv'
<1> USE DEF Goto, Keep
<1>1. /\ pc \in [Actors -> {"idle", "admitted"} \cup Stages \cup Bodies]
      /\ job \in [Actors -> Jobs]
  BY DEF IInv, TypeOK
<1>2. pc'[a] = p /\ job'[a] = f
  BY <1>1
<1>3. \A b \in Actors : ~Holding(b)
  BY DEF IInv, Exclusion
<1>4. \A b \in Actors : b # a => pc'[b] = pc[b] /\ job'[b] = job[b]
  BY <1>1
<1>5. Exclusion'
  BY <1>2, <1>3, <1>4 DEF IInv, Exclusion, Holding
<1>6. ASSUME NEW b \in Actors
      PROVE  Fit(pc[b], job[b])'
  <2>1. CASE b = a
    BY <1>2, <2>1 DEF Fit, Open
  <2>2. CASE b # a
    BY <1>4, <2>2 DEF IInv, Fit, row
  <2> QED
    BY <2>1, <2>2
<1>7. lock' \in RouteActions \cup SyncActions \cup {NoAction}
  BY JobFields
<1> QED
  BY <1>1, <1>5, <1>6, <1>7 DEF IInv, TypeOK, MergedHasPacket, row, docs, counts

LEMMA ReleaseKeeps ==
  ASSUME IInv, NEW a \in Actors, Release(a)
  PROVE  IInv'
<1>1. /\ pc \in [Actors -> {"idle", "admitted"} \cup Stages \cup Bodies]
      /\ job \in [Actors -> Jobs]
  BY DEF IInv, TypeOK
<1>2. PICK p \in {"owing", "idle"} : Goto(a, p)
  BY DEF Release
<1>3. Holding(a)
  BY DEF Release, At, Holding, Bodies
<1>4. /\ pc' \in [Actors -> {"idle", "admitted"} \cup Stages \cup Bodies]
      /\ job' \in [Actors -> Jobs]
      /\ pc'[a] = p /\ job'[a] = NoJob /\ p \notin Bodies /\ p # "admitted"
      /\ \A b \in Actors : b # a => pc'[b] = pc[b] /\ job'[b] = job[b]
  BY <1>1, <1>2, NoJobFits DEF Release, Goto, Keep, Stages, Bodies
<1>5. \A b \in Actors : b # a => ~Holding(b)
  BY <1>3, Alone DEF IInv
<1>6. Exclusion'
  BY <1>4, <1>5 DEF IInv, Exclusion, Holding
<1>7. ASSUME NEW b \in Actors
      PROVE  Fit(pc[b], job[b])'
  <2>1. CASE b = a
    BY <1>4, <2>1, NoJobFits DEF Fit, Open, Bodies
  <2>2. CASE b # a
    BY <1>4, <2>2 DEF IInv, Fit, Release, row
  <2> QED
    BY <2>1, <2>2
<1> QED
  BY <1>4, <1>6, <1>7 DEF Release, IInv, TypeOK, MergedHasPacket, row, docs, counts

\* A dead holder's lock runs out: nobody is inside a body then.
LEMMA LapseKeeps ==
  ASSUME IInv, Lapse
  PROVE  IInv'
<1>1. \A b \in Actors : ~Holding(b)
  BY DEF Lapse, IInv, Exclusion, Holding
<1>2. Exclusion'
  BY <1>1 DEF Lapse, IInv, Exclusion, Holding
<1> QED
  BY <1>2 DEF Lapse, IInv, TypeOK, Fit, MergedHasPacket, row, docs, counts

LEMMA CrashKeeps ==
  ASSUME IInv, NEW S, Crash(S)
  PROVE  IInv'
<1>1. /\ pc \in [Actors -> {"idle", "admitted"} \cup Stages \cup Bodies]
      /\ job \in [Actors -> Jobs]
  BY DEF IInv, TypeOK
<1>2. /\ pc' \in [Actors -> {"idle", "admitted"} \cup Stages \cup Bodies]
      /\ job' \in [Actors -> Jobs]
      /\ \A b \in Actors : \/ pc'[b] = "idle" /\ job'[b] = NoJob
                           \/ pc'[b] = pc[b] /\ job'[b] = job[b]
  BY <1>1, NoJobFits DEF Crash
<1>3. Exclusion'
  BY <1>2 DEF Crash, IInv, Exclusion, Holding, Bodies
<1>4. ASSUME NEW b \in Actors
      PROVE  Fit(pc[b], job[b])'
  BY <1>2, NoJobFits DEF Crash, IInv, Fit, Open, row
<1>5. crashes' \in Nat
  BY DEF Crash, IInv, TypeOK
<1> QED
  BY <1>2, <1>3, <1>4, <1>5 DEF Crash, IInv, TypeOK, MergedHasPacket, row, docs

-----------------------------------------------------------------------------
(* Requests and the stages of the sync.                                     *)

LEMMA RequestKeeps ==
  ASSUME IInv, NEW a \in Actors, NEW r \in Routes, Request(a, r)
  PROVE  IInv'
<1>1. PICK f : f = [NoJob EXCEPT !.act = r]
  OBVIOUS
<1>2. f \in Jobs /\ f.seen = "pending" /\ f.act # NoAction
  BY <1>1, LifecycleAssumption DEF Jobs, NoJob, Statuses
<1>3. ~Holding(a) /\ Goto(a, "admitted") /\ Keep(a, f) /\ requests' \in Nat
  BY <1>1 DEF Request, At, Holding, Bodies, IInv, TypeOK
<1> QED
  BY <1>2, <1>3, OutsideKeeps DEF Request, IInv, TypeOK, MergedHasPacket, row, docs, counts

LEMMA AcquireKeeps ==
  ASSUME IInv, NEW a \in Actors, Acquire(a)
  PROVE  IInv'
<1>1. PICK f : f = job[a]
  OBVIOUS
<1>2. Keep(a, f) /\ f \in Jobs /\ f.act # NoAction /\ f.seen # "merged"
  BY <1>1, Kept DEF Acquire, IInv, At, Exclusion, Fit
<1>3. PICK p : p = FirstStep(f.act)
  OBVIOUS
<1>4. p \in Bodies \ (Open \cup {"recording"})
  BY <1>3 DEF FirstStep, Bodies, Open
<1> QED
  BY <1>1, <1>2, <1>3, <1>4, EnterKeeps DEF Acquire

LEMMA ConflictKeeps ==
  ASSUME IInv, NEW a \in Actors, Conflict(a)
  PROVE  IInv'
<1>1. ~Holding(a)
  BY DEF Conflict, At, Holding, Bodies
<1> QED
  BY <1>1, NoJobFits, OutsideKeeps DEF Conflict, IInv, TypeOK, MergedHasPacket, row, docs, counts

\* A placement changes the set before it asks for the lock.
LEMMA ProposeKeeps ==
  ASSUME IInv, NEW a \in Actors, NEW d \in Docs, Propose(a, d)
  PROVE  IInv'
<1>1. PICK f : f = [NoJob EXCEPT !.act = "reclassify", !.pages = {d}]
  OBVIOUS
<1>2. f \in Jobs /\ f.seen = "pending" /\ f.act # NoAction
  BY <1>1, LifecycleAssumption DEF Jobs, NoJob, Statuses, RouteActions
<1>3. ~Holding(a) /\ Goto(a, "placing") /\ Keep(a, f) /\ requests' \in Nat /\ "placing" \in Stages
  BY <1>1 DEF Propose, At, Holding, Bodies, Stages, IInv, TypeOK
<1> QED
  BY <1>2, <1>3, OutsideKeeps DEF Propose, IInv, TypeOK, MergedHasPacket, row, docs, counts

LEMMA PlaceKeeps ==
  ASSUME IInv, NEW a \in Actors, Place(a)
  PROVE  IInv'
<1>1. job[a] \in Jobs /\ job[a].act # NoAction /\ job[a].seen # "merged" /\ ~Holding(a)
  BY DEF IInv, TypeOK, Exclusion, Fit, Place, At, Holding, Bodies
<1>2. UNCHANGED <<reason, delivered, archived, toggle, lock, packet, shelved, reading, counts>>
  BY DEF Place
<1>3. CASE archived
  BY <1>1, <1>2, <1>3, NoJobFits, OutsideKeeps
  DEF Place, IInv, TypeOK, MergedHasPacket, counts
<1>4. CASE ~archived
  <2>1. PICK f : f = [job[a] EXCEPT !.pages = {}]
    OBVIOUS
  <2>2. f \in Jobs /\ f.act = job[a].act /\ f.seen = job[a].seen
    BY <1>1, <2>1 DEF Jobs
  <2>3. Keep(a, f) /\ Goto(a, "admitted")
    BY <1>4, <2>1 DEF Place
  <2>4. /\ status' \in Statuses /\ (status' = status \/ status' # "merged")
        /\ status' = "merged" => status = "merged"
        /\ owed' \in BOOLEAN /\ member' \in SUBSET Docs /\ held' \in SUBSET Docs
    BY <1>1, <1>4, JobFields DEF Place, Statuses, IInv, TypeOK
  <2> QED
    BY <1>1, <1>2, <2>2, <2>3, <2>4, OutsideKeeps DEF IInv, TypeOK, MergedHasPacket, counts
<1> QED
  BY <1>3, <1>4

LEMMA SyncStageKeeps ==
  ASSUME IInv, SyncStage
  PROVE  IInv'
<1>1. Sync \in Actors
  BY DEF Actors
<1>2. job[Sync] \in Jobs /\ job[Sync].seen # "merged"
  BY <1>1 DEF IInv, TypeOK, Fit
<1>3. CASE SyncStart \/ ScanEnd
  <2>1. PICK p \in {"scanning", "sweeping"} : Goto(Sync, p)
    BY <1>3 DEF SyncStart, ScanEnd
  <2>2. PICK f : f = job[Sync]
    OBVIOUS
  <2>3. Keep(Sync, f) /\ ~Holding(Sync) /\ p \in Stages
    BY <1>1, <1>3, <2>2, Kept DEF SyncStart, ScanEnd, Stay, At, Holding, Bodies, Stages, IInv
  <2> QED
    BY <1>1, <1>2, <1>3, <2>1, <2>2, <2>3, OutsideKeeps
    DEF SyncStart, ScanEnd, Stay, IInv, TypeOK, MergedHasPacket, row, docs, counts
<1>4. CASE Break
  <2>1. ~Holding(Sync) /\ "scanning" \in Stages
    BY <1>4 DEF Break, At, Holding, Bodies, Stages
  <2>2. status' = status \/ status' = "quarantined"
    BY <1>4 DEF Break
  <2>3. reason' = reason \/ reason' = "quarantined"
    BY <1>4 DEF Break
  <2> QED
    BY <1>1, <1>4, <2>1, <2>2, <2>3, NoJobFits, OutsideKeeps
    DEF Break, IInv, TypeOK, MergedHasPacket, Statuses, docs, counts
<1>5. ASSUME NEW d \in Docs, AttachRead(d)
      PROVE  IInv'
  <2>1. PICK f : f = [NoJob EXCEPT !.pages = {d}]
    OBVIOUS
  <2>2. f \in Jobs /\ f.seen = "pending" /\ Keep(Sync, f) /\ Goto(Sync, "attaching")
    BY <1>5, <2>1 DEF AttachRead, NoJob, Jobs, Statuses
  <2>3. ~Holding(Sync) /\ "attaching" \in Stages
    BY <1>5 DEF AttachRead, At, Holding, Bodies, Stages
  <2> QED
    BY <1>1, <1>5, <2>2, <2>3, OutsideKeeps
    DEF AttachRead, IInv, TypeOK, MergedHasPacket, row, docs, counts
<1>6. CASE AttachWrite
  <2>1. ~Holding(Sync) /\ "scanning" \in Stages
    BY <1>6 DEF AttachWrite, At, Holding, Bodies, Stages
  <2>2. member' \in SUBSET Docs /\ held' \in SUBSET Docs
    BY <1>2, <1>6, JobFields DEF AttachWrite, IInv, TypeOK
  <2> QED
    BY <1>1, <1>6, <2>1, <2>2, NoJobFits, OutsideKeeps
    DEF AttachWrite, IInv, TypeOK, MergedHasPacket, row, counts
<1>7. ASSUME NEW d \in Docs, ScanRead(d)
      PROVE  IInv'
  <2>1. PICK v \in Outcomes[d] :
          /\ reading' = [reading EXCEPT ![d] = v]
          /\ IF v = "failed"
             THEN /\ Keep(Sync, [NoJob EXCEPT !.pages = {d}])
                  /\ Goto(Sync, "breaking")
             ELSE UNCHANGED <<job, pc>>
    BY <1>7 DEF ScanRead
  <2>2. PICK f : f = IF v = "failed" THEN [NoJob EXCEPT !.pages = {d}] ELSE job[Sync]
    OBVIOUS
  <2>3. PICK p : p = IF v = "failed" THEN "breaking" ELSE "scanning"
    OBVIOUS
  <2>4. f \in Jobs /\ f.seen # "merged"
    BY <1>2, <2>2 DEF NoJob, Jobs, Statuses
  <2>5. Keep(Sync, f) /\ Goto(Sync, p)
    BY <1>1, <1>7, <2>1, <2>2, <2>3 DEF ScanRead, At, Keep, Goto, IInv, TypeOK
  <2>6. ~Holding(Sync) /\ p \in Stages
    BY <1>7, <2>3 DEF ScanRead, At, Holding, Bodies, Stages
  <2>7. reading' \in [Docs -> Readings]
    BY <2>1, LifecycleAssumption DEF IInv, TypeOK
  <2>8. UNCHANGED <<row, lock, packet, member, shelved, held, counts>> /\ p \notin {"admitted", "placing"}
    BY <1>7, <2>3 DEF ScanRead
  <2> QED
    BY <1>1, <2>4, <2>5, <2>6, <2>7, <2>8, OutsideKeeps
    DEF IInv, TypeOK, MergedHasPacket, row, counts
<1>8. CASE Sweep \/ Settle
  <2>1. ~Holding(Sync)
    BY <1>8 DEF Sweep, Settle, At, Holding, Bodies
  <2>2. ASSUME NEW r \in SyncActions, NEW p \in {"judging", "appending"}, lock = NoAction,
               lock' = r, Keep(Sync, [NoJob EXCEPT !.act = r]), Goto(Sync, p)
        PROVE  IInv'
    <3>1. PICK f : f = [NoJob EXCEPT !.act = r]
      OBVIOUS
    <3>2. f \in Jobs /\ f.seen = "pending" /\ f.act = r /\ r # NoAction
      BY <3>1, LifecycleAssumption DEF NoJob, Jobs, Statuses
    <3>3. p \in Bodies \ (Open \cup {"recording"})
      BY DEF Bodies, Open
    <3>4. UNCHANGED <<row, packet, docs, counts>>
      BY <1>8 DEF Sweep, Settle
    <3> QED
      BY <1>1, <2>2, <3>1, <3>2, <3>3, <3>4, EnterKeeps
  <2>3. ASSUME NEW p \in {"owing", "idle"}, Goto(Sync, p), UNCHANGED <<lock, job>>
        PROVE  IInv'
    <3>1. PICK f : f = job[Sync]
      OBVIOUS
    <3>2. Keep(Sync, f)
      BY <1>1, <2>3, <3>1, Kept DEF IInv
    <3>3. UNCHANGED <<row, packet, docs, counts>> /\ p \in {"idle"} \cup Stages
      BY <1>8 DEF Sweep, Settle, Stages
    <3> QED
      BY <1>1, <1>2, <2>1, <2>3, <3>1, <3>2, <3>3, OutsideKeeps
      DEF IInv, TypeOK, MergedHasPacket, row, docs, counts
  <2> QED
    BY <1>8, <2>2, <2>3 DEF Sweep, Settle, SyncActions
<1> QED
  BY <1>3, <1>4, <1>5, <1>6, <1>7, <1>8 DEF SyncStage

-----------------------------------------------------------------------------
(* The invariant of the specification.                                      *)

LEMMA IInvInit == ASSUME Init PROVE IInv
<1>1. TypeOK
  BY NoJobFits, LifecycleAssumption DEF Init, TypeOK, Statuses, Readings, NoPacket
<1>2. Exclusion
  BY DEF Init, Exclusion, Holding, Bodies
<1>3. \A a \in Actors : Fit(pc[a], job[a])
  BY NoJobFits DEF Init, Fit, Open
<1> QED
  BY <1>1, <1>2, <1>3 DEF IInv, MergedHasPacket, Init

\* A body's steps start inside the body.
LEMMA BodiesHold ==
  ASSUME NEW a \in Actors, RouteBody(a) \/ Reconcile(a)
  PROVE  Holding(a)
<1>1. CASE RouteBody(a)
  BY <1>1 DEF RouteBody, Reopen, Reset, ReadAgain, Confirm, ForceMerge, Seal, Toggle, Upload,
     Remove, Export, Shelve, Refuse, Refusals, Rebuild, AppendWrite, AppendNothing, AppendFail,
     Credit, Indebt, At, Holding, Bodies
<1>2. CASE Reconcile(a)
  BY <1>2 DEF Reconcile, Judge, Decide, MergeCheck, MergeWrite, MergeCommit, Restore, Overrule,
     Record, At, Holding, Bodies
<1> QED
  BY <1>1, <1>2

LEMMA IInvNext == ASSUME IInv, [Next]_vars PROVE IInv'
<1>1. ASSUME NEW a \in Actors, RouteBody(a) \/ Reconcile(a)
      PROVE  IInv'
  BY <1>1, BodiesHold, RouteBodyStep, ReconcileStep, InsideKeeps
<1>2. ASSUME NEW a \in Operators, OperatorStep(a)
      PROVE  IInv'
  BY <1>1, <1>2, AcquireKeeps, ConflictKeeps, ReleaseKeeps, PlaceKeeps DEF OperatorStep, Actors
<1>3. ASSUME NEW a \in Operators, (\E r \in Routes : Request(a, r)) \/ \E d \in Docs : Propose(a, d)
      PROVE  IInv'
  BY <1>3, RequestKeeps, ProposeKeeps DEF Actors
<1>4. CASE SyncStep
  BY <1>1, <1>4, SyncStageKeeps, ReleaseKeeps DEF SyncStep, Actors, RouteBody
<1>5. CASE Lapse
  BY <1>5, LapseKeeps
<1>6. ASSUME NEW S, Crash(S)
      PROVE  IInv'
  BY <1>6, CrashKeeps
<1>7. CASE UNCHANGED vars
  BY <1>7 DEF vars, row, docs, counts, IInv, TypeOK, Exclusion, Holding, Fit, MergedHasPacket
<1> QED
  BY <1>2, <1>3, <1>4, <1>5, <1>6, <1>7 DEF Next

THEOREM Invariance == Spec => []IInv
BY IInvInit, IInvNext, PTL DEF Spec

\* The row, the documents and the bookkeeping keep their types.
THEOREM TypeCorrect == Spec => []TypeOK
<1>1. IInv => TypeOK
  BY DEF IInv
<1> QED
  BY <1>1, Invariance, PTL

\* FR-CONC-2 for any number of request handlers, crashes and lapsed locks: two
\* actors are never inside handlers of the set at once.
THEOREM Exclusive == Spec => []LockExcludes
<1>1. IInv => LockExcludes
  BY DEF IInv, Exclusion, LockExcludes
<1> QED
  BY <1>1, Invariance, PTL

\* A set shown as delivered has a recorded path and a packet file there.
THEOREM PacketExists == Spec => []MergedHasPacket
<1>1. IInv => MergedHasPacket
  BY DEF IInv
<1> QED
  BY <1>1, Invariance, PTL

-----------------------------------------------------------------------------
(* What a step may never do.                                                *)

\* FR-14.6 for every value of the constants: no handler, no sync, no crash and
\* no failed write takes a set out of the merged status.
THEOREM Terminal == Spec => DeliveredIsTerminal
<1>1. ASSUME IInv, Next, status = "merged"
      PROVE  status' = "merged"
  <2>1. ASSUME NEW a \in Actors, Reconcile(a)
        PROVE  status' = "merged"
    <3>1. pc[a] \notin Open
      BY <1>1 DEF IInv, Fit
    <3> QED
      BY <1>1, <2>1, <3>1 DEF Reconcile, Judge, Decide, MergeCheck, MergeWrite, MergeCommit,
         Restore, Overrule, Record, At, Open, row
  <2>2. ASSUME NEW a \in Actors, RouteBody(a)
        PROVE  status' = "merged"
    BY <1>1, <2>2 DEF RouteBody, Reopen, Reset, ReadAgain, Confirm, ForceMerge, Seal, CommitFails,
       Toggle, Upload, Remove, Export, Shelve, Refuse, Rebuild, AppendWrite, AppendNothing,
       AppendFail, Credit, Indebt, row
  <2>3. ASSUME NEW a \in Actors, Acquire(a) \/ Conflict(a) \/ Release(a) \/ Place(a)
                \/ (\E r \in Routes : Request(a, r)) \/ \E d \in Docs : Propose(a, d)
        PROVE  status' = "merged"
    BY <1>1, <2>3 DEF Acquire, Conflict, Release, Request, Propose, Place, row
  <2>4. CASE SyncStage
    BY <1>1, <2>4 DEF SyncStage, SyncStart, Break, AttachWrite, ScanEnd, Sweep, Settle, ScanRead,
       AttachRead, row
  <2>5. CASE Lapse \/ \E S : Crash(S)
    BY <1>1, <2>5 DEF Lapse, Crash, row
  <2> QED
    BY <1>1, <2>1, <2>2, <2>3, <2>4, <2>5 DEF Next, OperatorStep, SyncStep, Actors, RouteBody
<1>2. IInv /\ [Next]_vars => [status = "merged" => status' = "merged"]_vars
  BY <1>1
<1> QED
  BY <1>2, Invariance, PTL DEF Spec, DeliveredIsTerminal

\* A person's archive is final for the packet: a merge that was under way when
\* the set was archived neither writes a packet nor delivers the set.
THEOREM ArchiveIsFinal == Spec => ArchivedNeverDelivers
<1> DEFINE Still == packet' = packet /\ (status' = "merged" => status = "merged")
<1>1. ASSUME IInv, Next, archived
      PROVE  Still
  <2>1. ASSUME NEW a \in Actors, Reconcile(a)
        PROVE  Still
    <3>1. Fit(pc[a], job[a]) /\ pc[a] \notin {"writing", "committing"}
      BY <1>1 DEF IInv, Fit
    <3> QED
      BY <1>1, <2>1, <3>1 DEF Reconcile, Judge, Decide, Assigned, MergeCheck, MergeWrite,
         MergeCommit, Restore, Overrule, Record, At, Fit, row
  <2>2. ASSUME NEW a \in Actors, RouteBody(a)
        PROVE  Still
    <3>1. pc[a] # "sealing"
      BY <1>1 DEF IInv, Fit
    <3> QED
      BY <1>1, <2>2, <3>1 DEF RouteBody, Reopen, Reset, ReadAgain, Confirm, ForceMerge, Seal,
         Toggle, Upload, Remove, Export, Shelve, Refuse, Rebuild, AppendWrite, Appendable,
         AppendNothing, AppendFail, Credit, Indebt, At, row
  <2>3. ASSUME NEW a \in Actors, Acquire(a) \/ Conflict(a) \/ Release(a) \/ Place(a)
                \/ (\E r \in Routes : Request(a, r)) \/ \E d \in Docs : Propose(a, d)
        PROVE  Still
    BY <1>1, <2>3 DEF Acquire, Conflict, Release, Request, Propose, Place, row
  <2>4. CASE SyncStage
    BY <1>1, <2>4 DEF SyncStage, SyncStart, Break, AttachWrite, ScanEnd, Sweep, Settle, ScanRead,
       AttachRead, row
  <2>5. CASE Lapse \/ \E S : Crash(S)
    BY <1>1, <2>5 DEF Lapse, Crash, row
  <2> QED
    BY <1>1, <2>1, <2>2, <2>3, <2>4, <2>5 DEF Next, OperatorStep, SyncStep, Actors, RouteBody
<1>2. IInv /\ [Next]_vars => [archived => Still]_vars
  BY <1>1
<1> QED
  BY <1>2, Invariance, PTL DEF Spec, ArchivedNeverDelivers

-----------------------------------------------------------------------------
(***************************************************************************)
(* A packet that was not forced passes every gate at the moment its set is  *)
(* marked merged, for any documents, operators, faults and bounds, as long   *)
(* as nobody places documents from the holding page, which is done without   *)
(* the per-PO lock and may meet the sync at the same document.               *)
(*                                                                          *)
(* The verdict is taken in one transaction and the packet committed three   *)
(* transactions later, while the sync reads documents and attaches them     *)
(* without the per-PO lock.  The argument: the sync reads only unread        *)
(* documents, of which a proved set has none; it attaches only documents     *)
(* that are not members yet, so what it adds to `held` is not proved; and    *)
(* the documents it adds to the set are noticed before the write.            *)
(***************************************************************************)

\* A set that is not archived has no archived member, and documents are
\* archived one by one only when they are customs or shipping files.
Unshelved ==
  ~archived => member \cap shelved = {} /\ Core(shelved) = {}

\* What the sync is about to attach is a new member.
Newcomer ==
  pc[Sync] = "attaching" => Core(job[Sync].pages) = job[Sync].pages /\ job[Sync].pages \cap member = {}

\* What an actor that decided to merge knows of the documents it proved.
Promise(p, f) ==
  /\ p \in {"merging", "writing", "committing"} \/ (p = "deciding" /\ f.say = "merge") =>
       /\ Verdict(f.proved, reading, held, toggle) = "merge"
       /\ f.proved \subseteq member
       /\ f.proved \cap shelved = {}
  /\ p = "writing" => f.proved \subseteq f.pages /\ f.pages \subseteq member
  /\ p = "committing" => packet = f.proved

\* No request is about to place a document.
NoPlacement == \A a \in Actors : pc[a] # "placing"

PInv == IInv /\ Unshelved /\ Newcomer /\ \A a \in Actors : Promise(pc[a], job[a])

-----------------------------------------------------------------------------
(* The verdict.                                                             *)

\* The verdict looks at what the core documents of the set read.
LEMMA VerdictSame ==
  ASSUME NEW D, NEW r, NEW s, NEW u, NEW g, \A d \in Core(D) : s[d] = r[d]
  PROVE  Verdict(D, s, u, g) = Verdict(D, r, u, g)
<1>1. \A d \in Core(D) : s[d] = r[d]
  OBVIOUS
<1>2. \A d \in D : TypeOf[d] \in {"DN", "SI"} => d \in Core(D)
  BY DEF Core, CoreTypes
<1>3. \A d, c \in D : Overlap(d, c, s) <=> Overlap(d, c, r)
  BY <1>1, <1>2 DEF Overlap
<1>4. Duplicated(D, s) <=> Duplicated(D, r)
  BY <1>3 DEF Duplicated
<1>5. Disagrees(D, s) <=> Disagrees(D, r)
  BY <1>1, <1>3 DEF Disagrees
<1>6. ASSUME NEW t \in {"DN", "SI"}
      PROVE  {LinesOf(s[d]) : d \in OfType(D, t)} = {LinesOf(r[d]) : d \in OfType(D, t)}
  BY <1>1, <1>2, <1>6 DEF OfType
<1>7. Short(D, s) <=> Short(D, r)
  BY <1>6 DEF Short
<1>8. \A w : (\E d \in Core(D) : s[d] = w) <=> (\E d \in Core(D) : r[d] = w)
  BY <1>1
<1> QED
  BY <1>4, <1>5, <1>7, <1>8 DEF Verdict

\* A set is not merged while one of its documents waits to be read.
LEMMA ProvedIsRead ==
  ASSUME NEW D, NEW r, NEW u, NEW g, Verdict(D, r, u, g) = "merge"
  PROVE  \A d \in Core(D) : r[d] # "unread"
BY DEF Verdict

-----------------------------------------------------------------------------
(* Steps inside a body.                                                     *)

\* It is enough to look at the acting actor: no other is inside a body, and the
\* sync, if it is about to attach, meets no new core document.
LEMMA InsidePromises ==
  ASSUME PInv, NEW a \in Actors, Holding(a), KeepsBody(a), Unshelved',
         Promise(pc[a], job[a])', Core(member') \subseteq member
  PROVE  PInv'
<1>1. PICK p, f : BodyStep(a, p, f)
  BY DEF KeepsBody
<1>2. IInv'
  BY InsideKeeps DEF PInv
<1>3. \A b \in Actors : b # a => pc'[b] = pc[b] /\ job'[b] = job[b] /\ pc[b] \notin Bodies
  BY <1>1, Alone DEF BodyStep, Goto, Keep, PInv, IInv, TypeOK, Holding
<1>4. pc'[a] \in Bodies
  BY <1>1 DEF BodyStep, Goto, PInv, IInv, TypeOK
<1>5. Newcomer'
  <2>1. Sync \in Actors /\ "attaching" \notin Bodies
    BY DEF Actors, Bodies
  <2>2. CASE Sync = a
    BY <1>4, <2>1, <2>2 DEF Newcomer
  <2>3. CASE Sync # a
    BY <1>3, <2>1, <2>3 DEF Newcomer, PInv, Core
  <2> QED
    BY <2>2, <2>3
<1>6. ASSUME NEW b \in Actors, b # a
      PROVE  Promise(pc[b], job[b])'
  <2>1. pc'[b] \notin {"deciding", "merging", "writing", "committing"}
    BY <1>3, <1>6 DEF Bodies
  <2> QED
    BY <2>1 DEF Promise
<1> QED
  BY <1>2, <1>5, <1>6 DEF PInv

\* The verdict is taken: the proved documents are all the set has.
LEMMA JudgePromises ==
  ASSUME PInv, NEW a \in Actors, Judge(a)
  PROVE  Promise(pc[a], job[a])'
<1> DEFINE v == Verdict(member, reading, held \ shelved, toggle)
<1>1. job[a] \in Jobs /\ status \in Statuses /\ member \in SUBSET Docs /\ v \in Statuses \cup {"merge"}
  BY VerdictType DEF PInv, IInv, TypeOK, Statuses
<1>2. CASE archived \/ status \in {"quarantined", "merged"}
  <2>1. pc'[a] \in {"releasing", "appending", "recording"}
    BY <1>2 DEF Judge, Reconciled, Goto, PInv, IInv, TypeOK
  <2> QED
    BY <2>1 DEF Promise
<1>3. CASE ~archived /\ status \notin {"quarantined", "merged"}
  <2> HIDE DEF v
  <2>1. PICK say \in {v, "pending"} :
          Keep(a, [job[a] EXCEPT !.seen = status, !.say = say, !.proved = member \ shelved])
    BY <1>3 DEF Judge, v
  <2>2. PICK f : f = [job[a] EXCEPT !.seen = status, !.say = say, !.proved = member \ shelved]
    OBVIOUS
  <2>3. f.say = say /\ f.proved = member \ shelved
    BY <1>1, <2>2 DEF Jobs
  <2>4. job'[a] = f /\ pc'[a] = "deciding"
    BY <1>3, <2>1, <2>2 DEF Judge, Goto, Keep, PInv, IInv, TypeOK
  <2>5. member \cap shelved = {} /\ f.proved = member
    BY <1>3, <2>3 DEF PInv, Unshelved
  <2>6. v = Verdict(f.proved, reading, held, toggle)
    <3>1. (held \ shelved) \cap member = held \cap member
      BY <2>5
    <3>2. Verdict(member, reading, held \ shelved, toggle) = Verdict(member, reading, held, toggle)
      BY <3>1 DEF Verdict
    <3> QED
      BY <2>5, <3>2 DEF v
  <2>7. UNCHANGED <<member, shelved, reading, held, toggle>>
    BY DEF Judge, docs, row
  <2>8. f.say = "merge" => v = "merge"
    BY <2>1, <2>3
  <2>9. f.say = "merge" => Verdict(f.proved, reading', held', toggle') = "merge"
    BY <2>6, <2>7, <2>8
  <2>10. f.proved \subseteq member' /\ f.proved \cap shelved' = {}
    BY <2>5, <2>7
  <2> QED
    BY <2>4, <2>9, <2>10 DEF Promise
<1> QED
  BY <1>2, <1>3

\* Each of the three transactions after it hands the promise on.
LEMMA DecidePromises ==
  ASSUME PInv, NEW a \in Actors, Decide(a)
  PROVE  Promise(pc[a], job[a])'
<1>1. /\ UNCHANGED <<job, member, shelved, reading, held, toggle>>
      /\ pc'[a] = IF job[a].say = "merge" THEN "merging" ELSE "recording"
  BY DEF Decide, Stay, Goto, docs, PInv, IInv, TypeOK
<1>2. Promise("deciding", job[a])
  BY DEF PInv, Decide, At
<1> QED
  BY <1>1, <1>2 DEF Promise

LEMMA MergeCheckPromises ==
  ASSUME PInv, NEW a \in Actors, MergeCheck(a)
  PROVE  Promise(pc[a], job[a])'
<1>1. job[a] \in Jobs /\ Promise("merging", job[a])
  BY DEF PInv, IInv, TypeOK, MergeCheck, At
<1>2. UNCHANGED <<member, shelved, reading, held, toggle>>
  BY DEF MergeCheck, docs, row
<1>3. \/ pc'[a] \in {"restoring", "recording", "overruling"}
      \/ pc'[a] = "writing" /\ job'[a] = [job[a] EXCEPT !.pages = member]
  BY DEF MergeCheck, Goto, Keep, PInv, IInv, TypeOK
<1>4. ASSUME NEW f, f = [job[a] EXCEPT !.pages = member]
      PROVE  f.pages = member /\ f.proved = job[a].proved
  BY <1>1, <1>4 DEF Jobs
<1> QED
  BY <1>1, <1>2, <1>3, <1>4 DEF Promise

LEMMA MergeWritePromises ==
  ASSUME PInv, NEW a \in Actors, MergeWrite(a)
  PROVE  Promise(pc[a], job[a])'
<1>1. Promise("writing", job[a]) /\ ~archived
  BY DEF PInv, IInv, Fit, MergeWrite, At
<1>2. UNCHANGED <<member, shelved, reading, held, toggle>>
  BY DEF MergeWrite, docs, row
<1>3. \/ pc'[a] = "overruling"
      \/ /\ pc'[a] = "committing" /\ job'[a] = job[a]
         /\ member \ shelved = job[a].proved /\ packet' = job[a].pages
  BY DEF MergeWrite, Goto, PInv, IInv, TypeOK
<1>4. member \cap shelved = {}
  BY <1>1 DEF PInv, Unshelved
<1> QED
  BY <1>1, <1>2, <1>3, <1>4 DEF Promise

LEMMA ReconcilePromises ==
  ASSUME PInv, NEW a \in Actors, Reconcile(a)
  PROVE  PInv'
<1>1. Promise(pc[a], job[a])'
  <2>1. CASE MergeCommit(a) \/ Restore(a) \/ Overrule(a) \/ Record(a)
    <3>1. pc'[a] \in {"recording", "appending", "releasing"}
      BY <2>1 DEF MergeCommit, CommitFails, Restore, Overrule, Record, Reconciled, Goto, PInv,
         IInv, TypeOK
    <3> QED
      BY <3>1 DEF Promise
  <2> QED
    BY <2>1, JudgePromises, DecidePromises, MergeCheckPromises, MergeWritePromises DEF Reconcile
<1>2. UNCHANGED <<member, shelved, archived>>
  BY DEF Reconcile, Judge, Decide, MergeCheck, MergeWrite, MergeCommit, CommitFails, Restore,
     Overrule, Record, row, docs
<1>3. Unshelved' /\ Core(member') \subseteq member
  BY <1>2 DEF PInv, Unshelved, Core
<1>4. Holding(a) /\ KeepsBody(a)
  BY BodiesHold, ReconcileStep DEF PInv
<1> QED
  BY <1>1, <1>3, <1>4, InsidePromises

LEMMA RouteBodyPromises ==
  ASSUME PInv, NEW a \in Actors, RouteBody(a)
  PROVE  PInv'
<1>1. pc'[a] \notin {"deciding", "merging", "writing", "committing"}
  BY DEF RouteBody, Reopen, Reset, ReadAgain, Confirm, ForceMerge, Seal, CommitFails, Toggle,
     Upload, Remove, Export, Shelve, Refuse, Rebuild, AppendWrite, AppendNothing, AppendFail, Credit,
     Indebt, Reconciled, Goto, At, PInv, IInv, TypeOK
<1>2. Promise(pc[a], job[a])'
  BY <1>1 DEF Promise
<1>3. Unshelved' /\ Core(member') \subseteq member
  <2>1. CASE Upload(a)
    BY <2>1 DEF Upload, PInv, Unshelved, Core, CoreTypes, AddonTypes
  <2>2. CASE Remove(a)
    BY <2>2 DEF Remove, PInv, Unshelved, Core, CoreTypes, AddonTypes
  <2>3. CASE Shelve(a)
    BY <2>3 DEF Shelve, PInv, Unshelved, Core
  <2>4. CASE ~(Upload(a) \/ Remove(a) \/ Shelve(a))
    <3>1. UNCHANGED <<member, shelved, archived>>
      BY <2>4 DEF RouteBody, Reopen, Reset, ReadAgain, Confirm, ForceMerge, Seal, CommitFails,
         Toggle, Export, Refuse, Rebuild, AppendWrite, AppendNothing, AppendFail, Credit, Indebt,
         row, docs
    <3> QED
      BY <3>1 DEF PInv, Unshelved, Core
  <2> QED
    BY <2>1, <2>2, <2>3, <2>4
<1>4. Holding(a) /\ KeepsBody(a)
  BY BodiesHold, RouteBodyStep DEF PInv
<1> QED
  BY <1>2, <1>3, <1>4, InsidePromises

-----------------------------------------------------------------------------
(* Steps outside the bodies.                                                *)

\* A step that leaves the set's documents alone and starts no merge.
LEMMA QuietPromises ==
  ASSUME PInv, IInv', Newcomer',
         UNCHANGED <<archived, toggle, packet, docs>>,
         \A b \in Actors : \/ pc'[b] = pc[b] /\ job'[b] = job[b]
                           \/ pc'[b] \notin {"deciding", "merging", "writing", "committing"}
  PROVE  PInv'
<1>1. Unshelved'
  BY DEF PInv, Unshelved, docs
<1>2. ASSUME NEW b \in Actors
      PROVE  Promise(pc[b], job[b])'
  BY DEF PInv, Promise, docs
<1> QED
  BY <1>1, <1>2 DEF PInv

\* Requests, the lock and the crashes.
LEMMA LockPromises ==
  ASSUME PInv, IInv',
         \/ \E a \in Actors : Acquire(a) \/ Conflict(a) \/ Release(a)
         \/ \E a \in Operators, r \in Routes : Request(a, r)
         \/ Lapse \/ (\E S : Crash(S)) \/ UNCHANGED vars
  PROVE  PInv'
<1>1. UNCHANGED <<archived, toggle, packet, docs>>
  BY DEF Acquire, Conflict, Release, Request, Lapse, Crash, vars, row
<1>2. \A b \in Actors : \/ pc'[b] = pc[b] /\ job'[b] = job[b]
                        \/ pc'[b] \notin {"deciding", "merging", "writing", "committing", "attaching"}
  BY DEF Acquire, FirstStep, Conflict, Release, Request, Lapse, Crash, vars, Goto, Keep, Actors,
     PInv, IInv, TypeOK
<1>3. Newcomer'
  BY <1>1, <1>2 DEF Newcomer, PInv, docs, Actors
<1> QED
  BY <1>1, <1>2, <1>3, QuietPromises

LEMMA ScanReadPromises ==
  ASSUME PInv, IInv', NEW d \in Docs, ScanRead(d)
  PROVE  PInv'
<1>1. /\ UNCHANGED <<archived, toggle, packet, member, shelved, held>>
      /\ pc'[Sync] \in {"scanning", "breaking"}
      /\ \A b \in Actors : b # Sync => pc'[b] = pc[b] /\ job'[b] = job[b]
  BY DEF ScanRead, At, Goto, Keep, row, Actors, PInv, IInv, TypeOK
<1>2. PICK v : reading' = [reading EXCEPT ![d] = v]
  BY DEF ScanRead
<1>3. reading \in [Docs -> Readings] /\ reading[d] = "unread" /\ TypeOf[d] \in CoreTypes
  BY DEF ScanRead, PInv, IInv, TypeOK
<1>4. Unshelved' /\ Newcomer'
  BY <1>1 DEF PInv, Unshelved, Newcomer
<1>5. ASSUME NEW b \in Actors, b # Sync,
             pc[b] \in {"merging", "writing", "committing"} \/ (pc[b] = "deciding" /\ job[b].say = "merge")
      PROVE  Verdict(job[b].proved, reading', held, toggle) = "merge"
  <2>1. PICK D : D = job[b].proved
    OBVIOUS
  <2>2. D \in SUBSET Docs /\ Verdict(D, reading, held, toggle) = "merge"
    BY <1>5, <2>1, JobFields DEF PInv, Promise, IInv, TypeOK
  <2>3. d \notin Core(D)
    BY <1>3, <2>2, ProvedIsRead
  <2>4. \A e \in Core(D) : reading'[e] = reading[e]
    BY <1>2, <1>3, <2>2, <2>3 DEF Core
  <2> QED
    BY <2>1, <2>2, <2>4, VerdictSame
<1>6. ASSUME NEW b \in Actors
      PROVE  Promise(pc[b], job[b])'
  BY <1>1, <1>5 DEF PInv, Promise
<1> QED
  BY <1>4, <1>6 DEF PInv

LEMMA AttachWritePromises ==
  ASSUME PInv, IInv', AttachWrite
  PROVE  PInv'
<1> DEFINE new == job[Sync].pages
<1>1. Core(new) = new /\ new \cap member = {}
  BY DEF PInv, Newcomer, AttachWrite, At
<1>2. /\ UNCHANGED <<archived, toggle, packet, shelved, reading>>
      /\ member' = member \cup new /\ held' = held \cup (new \cap ByNumber)
      /\ pc'[Sync] = "scanning"
      /\ \A b \in Actors : b # Sync => pc'[b] = pc[b] /\ job'[b] = job[b]
  BY DEF AttachWrite, At, Goto, Keep, row, Actors, PInv, IInv, TypeOK
<1>3. Unshelved' /\ Newcomer'
  BY <1>1, <1>2 DEF PInv, Unshelved, Newcomer, Core
<1>4. ASSUME NEW b \in Actors, b # Sync,
             pc[b] \in {"merging", "writing", "committing"} \/ (pc[b] = "deciding" /\ job[b].say = "merge")
      PROVE  Verdict(job[b].proved, reading, held', toggle) = "merge"
  <2>1. Verdict(job[b].proved, reading, held, toggle) = "merge" /\ job[b].proved \subseteq member
    BY <1>4 DEF PInv, Promise
  <2>2. held' \cap job[b].proved = held \cap job[b].proved
    BY <1>1, <1>2, <2>1
  <2> QED
    BY <2>1, <2>2 DEF Verdict
<1>5. ASSUME NEW b \in Actors
      PROVE  Promise(pc[b], job[b])'
  BY <1>2, <1>4 DEF PInv, Promise
<1> QED
  BY <1>3, <1>5 DEF PInv

LEMMA SyncStagePromises ==
  ASSUME PInv, IInv', SyncStage
  PROVE  PInv'
<1>1. CASE SyncStart \/ Break \/ ScanEnd \/ Sweep \/ Settle
  <2>1. /\ UNCHANGED <<archived, toggle, packet, docs>>
        /\ pc'[Sync] \notin {"deciding", "merging", "writing", "committing", "attaching"}
        /\ \A b \in Actors : b # Sync => pc'[b] = pc[b] /\ job'[b] = job[b]
    BY <1>1 DEF SyncStart, Break, ScanEnd, Sweep, Settle, Stay, Goto, Keep, row, Actors, PInv,
       IInv, TypeOK
  <2>2. Newcomer'
    BY <2>1 DEF Newcomer
  <2> QED
    BY <2>1, <2>2, QuietPromises
<1>2. ASSUME NEW d \in Docs, AttachRead(d)
      PROVE  PInv'
  <2>1. /\ UNCHANGED <<archived, toggle, packet, docs>>
        /\ pc'[Sync] = "attaching" /\ job'[Sync] = [NoJob EXCEPT !.pages = {d}]
        /\ \A b \in Actors : b # Sync => pc'[b] = pc[b] /\ job'[b] = job[b]
    BY <1>2 DEF AttachRead, Goto, Keep, row, Actors, PInv, IInv, TypeOK
  <2>2. job'[Sync].pages = {d}
    BY <2>1 DEF NoJob
  <2>3. Newcomer'
    BY <1>2, <2>1, <2>2 DEF Newcomer, AttachRead, Core, docs
  <2> QED
    BY <2>1, <2>3, QuietPromises
<1> QED
  BY <1>1, <1>2, ScanReadPromises, AttachWritePromises DEF SyncStage

-----------------------------------------------------------------------------

LEMMA PInvInit == ASSUME Init PROVE PInv
<1>1. Unshelved /\ Newcomer /\ \A a \in Actors : Promise(pc[a], job[a])
  BY DEF Init, Unshelved, Newcomer, Promise, Core, Actors
<1> QED
  BY <1>1, IInvInit DEF PInv

\* Where the holding page places nothing, no step is a placement.
LEMMA NoPlacementKeeps ==
  ASSUME IInv, NoPlacement, "reclassify" \notin Routes, [Next]_vars
  PROVE  NoPlacement'
<1>1. ASSUME NEW a \in Actors, RouteBody(a) \/ Reconcile(a)
      PROVE  NoPlacement'
  <2>1. PICK p, f : BodyStep(a, p, f)
    BY <1>1, RouteBodyStep, ReconcileStep DEF KeepsBody
  <2> QED
    BY <2>1 DEF BodyStep, Goto, Bodies, NoPlacement, IInv, TypeOK
<1>2. ASSUME NEW a \in Actors,
             \/ Acquire(a) \/ Conflict(a) \/ Release(a) \/ \E r \in Routes : Request(a, r)
             \/ Place(a) \/ \E d \in Docs : Propose(a, d)
      PROVE  NoPlacement'
  BY <1>2 DEF Acquire, FirstStep, Conflict, Release, Request, Place, Propose, At, Goto,
     NoPlacement, IInv, TypeOK
<1>3. CASE SyncStage
  BY <1>3 DEF SyncStage, SyncStart, Break, AttachWrite, ScanEnd, Sweep, Settle, ScanRead,
     AttachRead, Goto, NoPlacement, IInv, TypeOK
<1>4. CASE Lapse \/ (\E S : Crash(S)) \/ UNCHANGED vars
  BY <1>4 DEF Lapse, Crash, vars, NoPlacement, IInv, TypeOK
<1> QED
  BY <1>1, <1>2, <1>3, <1>4 DEF Next, OperatorStep, SyncStep, Actors, RouteBody

LEMMA PInvNext ==
  ASSUME PInv, NoPlacement, "reclassify" \notin Routes, [Next]_vars
  PROVE  PInv'
<1>1. IInv'
  BY IInvNext DEF PInv
<1>2. ASSUME NEW a \in Actors, RouteBody(a) \/ Reconcile(a)
      PROVE  PInv'
  BY <1>2, RouteBodyPromises, ReconcilePromises
<1>3. CASE SyncStage
  BY <1>1, <1>3, SyncStagePromises
<1>4. CASE \/ \E a \in Actors : Acquire(a) \/ Conflict(a) \/ Release(a)
           \/ \E a \in Operators, r \in Routes : Request(a, r)
           \/ Lapse \/ (\E S : Crash(S)) \/ UNCHANGED vars
  BY <1>1, <1>4, LockPromises
<1>5. ~\E a \in Operators : Place(a) \/ \E d \in Docs : Propose(a, d)
  BY DEF Place, Propose, At, NoPlacement, Actors
<1> QED
  BY <1>2, <1>3, <1>4, <1>5 DEF Next, OperatorStep, SyncStep, Actors, RouteBody

LEMMA PacketInvariance ==
  ASSUME "reclassify" \notin Routes
  PROVE  Spec => [](PInv /\ NoPlacement)
<1>1. Init => NoPlacement
  BY DEF Init, NoPlacement
<1>2. PInv /\ NoPlacement /\ [Next]_vars => (PInv /\ NoPlacement)'
  BY PInvNext, NoPlacementKeeps DEF PInv
<1> QED
  BY <1>1, <1>2, PInvInit, PTL DEF Spec

\* Whatever the sync reads and attaches without the lock, and whatever crashes
\* or fails, while nothing is placed from the holding page, the packet of a set that becomes merged without being forced holds
\* documents that pass every gate of the reconciliation at that moment.
THEOREM PacketIsProved ==
  ASSUME "reclassify" \notin Routes
  PROVE  Spec => AutoPacketIsProved
<1> DEFINE Proved == status # "merged" /\ status' = "merged" /\ reason' = "merged"
                       => Verdict(packet' \ shelved', reading', held', toggle') = "merge"
<1>1. ASSUME PInv, NoPlacement, Next, status # "merged", status' = "merged", reason' = "merged"
      PROVE  Verdict(packet' \ shelved', reading', held', toggle') = "merge"
  <2>1. PICK a \in Actors : MergeCommit(a)
    <3>1. ASSUME NEW a \in Actors, Reconcile(a)
          PROVE  MergeCommit(a)
      <4>1. Fit(pc[a], job[a])
        BY <1>1 DEF PInv, IInv
      <4> QED
        BY <1>1, <3>1, <4>1 DEF Reconcile, Judge, Decide, Assigned, MergeCheck, MergeWrite,
           Restore, Overrule, Record, At, Fit, row
    <3>2. ~\E a \in Actors : RouteBody(a)
      BY <1>1 DEF RouteBody, Reopen, Reset, ReadAgain, Confirm, ForceMerge, Seal, CommitFails,
         Toggle, Upload, Remove, Export, Shelve, Refuse, Rebuild, AppendWrite, AppendNothing,
         AppendFail, Credit, Indebt, row
    <3>3. ~\E a \in Actors : Acquire(a) \/ Conflict(a) \/ Release(a) \/ \E r \in Routes : Request(a, r)
      BY <1>1 DEF Acquire, Conflict, Release, Request, row
    <3>4. ~SyncStage
      BY <1>1 DEF SyncStage, SyncStart, Break, AttachWrite, ScanEnd, Sweep, Settle, ScanRead,
         AttachRead, row
    <3>5. ~(Lapse \/ \E S : Crash(S))
      BY <1>1 DEF Lapse, Crash, row
    <3>6. ~\E a \in Operators : Place(a) \/ \E d \in Docs : Propose(a, d)
      BY <1>1 DEF Place, Propose, At, NoPlacement, Actors
    <3> QED
      BY <1>1, <3>1, <3>2, <3>3, <3>4, <3>5, <3>6 DEF Next, OperatorStep, SyncStep, Actors,
         RouteBody
  <2>2. Promise("committing", job[a])
    BY <1>1, <2>1 DEF MergeCommit, At, PInv
  <2>3. UNCHANGED <<packet, shelved, reading, held, toggle>>
    BY <1>1, <2>1 DEF MergeCommit, CommitFails, row, docs
  <2>4. packet \ shelved = job[a].proved
    BY <2>2 DEF Promise
  <2> QED
    BY <2>2, <2>3, <2>4 DEF Promise
<1>2. PInv /\ NoPlacement /\ [Next]_vars => [Proved]_vars
  BY <1>1
<1> QED
  BY <1>2, PacketInvariance, PTL DEF Spec, AutoPacketIsProved

-------------------------------------------------------------------------------
(***************************************************************************)
(* The handlers, the sync and the rebuild implement PublishedSet, for any   *)
(* documents, operators, routes, faults and bounds.                         *)
(*                                                                          *)
(* What has to be known of the set beyond IInv: a recorded path means        *)
(* "merged", so that a packet is only ever written where no file is; the     *)
(* pages of a packet, written or about to be, are documents of the set, so   *)
(* that a rebuild from the documents of the set loses none; and a set that   *)
(* is about to be archived is not delivered.                                 *)
(***************************************************************************)

\* The documents of a packet stay documents of its set.
Contained(p, f) ==
  /\ p = "writing" => f.pages \subseteq member
  /\ p \in {"committing", "sealing"} => packet \subseteq member
  /\ p = "shelving" => status # "merged"

Delivered ==
  /\ delivered => status = "merged"
  /\ status = "merged" => packet \subseteq member

RInv == IInv /\ Delivered /\ \A a \in Actors : Contained(pc[a], job[a])

\* Places that Contained speaks of.
Publishing == {"writing", "committing", "sealing", "shelving"}

\* A step of PublishedSet, or none.
Implements == [Published!Next]_(Published!vars)

-----------------------------------------------------------------------------
(* Steps inside a body.                                                      *)

\* Only the acting actor is inside a body.
LEMMA InsideContained ==
  ASSUME RInv, NEW a \in Actors, Holding(a), KeepsBody(a), Delivered',
         Contained(pc[a], job[a])'
  PROVE  RInv'
<1>1. PICK p, f : BodyStep(a, p, f)
  BY DEF KeepsBody
<1>2. IInv'
  BY InsideKeeps DEF RInv
<1>3. ASSUME NEW b \in Actors, b # a
      PROVE  Contained(pc[b], job[b])'
  <2>1. pc'[b] = pc[b] /\ pc[b] \notin Bodies
    BY <1>1, <1>3, Alone DEF BodyStep, Goto, RInv, IInv, TypeOK, Holding
  <2> QED
    BY <2>1 DEF Contained, Bodies
<1> QED
  BY <1>2, <1>3 DEF RInv

\* The steps of reconcile_po_set: from the check to the commit the pages are members.
LEMMA ReconcileContained ==
  ASSUME RInv, NEW a \in Actors, Reconcile(a)
  PROVE  RInv' /\ Implements
<1>1. Holding(a) /\ KeepsBody(a)
  BY BodiesHold, ReconcileStep DEF RInv
<1>2. /\ Fit(pc[a], job[a]) /\ Contained(pc[a], job[a]) /\ job[a] \in Jobs
      /\ \A p : Goto(a, p) => pc'[a] = p
      /\ \A f : Keep(a, f) => job'[a] = f
  BY DEF RInv, IInv, TypeOK, Goto, Keep
<1>3. CASE MergeCheck(a)
  <2>1. UNCHANGED <<row, packet, docs>>
    BY <1>3 DEF MergeCheck
  <2>2. \/ pc'[a] \notin Publishing
        \/ pc'[a] = "writing" /\ job'[a] = [job[a] EXCEPT !.pages = member]
    BY <1>2, <1>3 DEF MergeCheck, Publishing
  <2>3. [job[a] EXCEPT !.pages = member].pages = member
    BY <1>2 DEF Jobs
  <2>4. Contained(pc[a], job[a])' /\ Delivered'
    BY <2>1, <2>2, <2>3 DEF Contained, Publishing, RInv, Delivered, row, docs
  <2> QED
    BY <1>1, <2>1, <2>4, InsideContained DEF Implements, Published!vars, row
<1>4. CASE MergeWrite(a)
  <2>1. UNCHANGED <<row, docs>> /\ status # "merged" /\ ~delivered /\ ~archived
    BY <1>2, <1>4 DEF MergeWrite, At, Fit, Open, RInv, Delivered
  <2>2. \/ pc'[a] = "overruling" /\ UNCHANGED packet
        \/ /\ pc'[a] = "committing" /\ job'[a] = job[a]
           /\ packet = {} /\ packet' = job[a].pages
           /\ job[a].pages # {} /\ job[a].pages \subseteq member
    BY <1>2, <1>4, <2>1 DEF MergeWrite, At, Orphan, NoPacket, Fit, Contained
  <2>3. Contained(pc[a], job[a])' /\ Delivered'
    BY <2>1, <2>2 DEF Contained, Delivered, row, docs
  <2>4. member \in SUBSET Docs
    BY DEF RInv, IInv, TypeOK
  <2>5. CASE UNCHANGED packet
    BY <1>1, <2>1, <2>3, <2>5, InsideContained DEF Implements, Published!vars, row
  <2>6. CASE packet = {} /\ packet' # {} /\ packet' \in SUBSET Docs
    <3>1. Published!Write
      BY <2>1, <2>6 DEF Published!Write, row
    <3> QED
      BY <1>1, <2>3, <3>1, InsideContained DEF Implements, Published!Next
  <2> QED
    BY <2>2, <2>4, <2>5, <2>6
<1>5. CASE MergeCommit(a)
  <2>1. /\ status # "merged" /\ ~archived /\ packet # {} /\ packet \subseteq member
        /\ pc'[a] \notin Publishing /\ UNCHANGED <<member, archived>>
        /\ \/ status' = "merged" /\ delivered' = TRUE /\ UNCHANGED packet
           \/ UNCHANGED <<status, delivered>> /\ packet' = {}
    BY <1>2, <1>5 DEF MergeCommit, CommitFails, Reconciled, At, Fit, Open, Contained, Publishing,
       NoPacket, row, docs
  <2>2. Contained(pc[a], job[a])' /\ Delivered'
    BY <2>1 DEF Contained, Publishing, RInv, Delivered
  <2>3. Implements
    BY <2>1 DEF Implements, Published!Next, Published!Deliver, Published!Withdraw
  <2> QED
    BY <1>1, <2>2, <2>3, InsideContained
<1>6. CASE Judge(a) \/ Decide(a) \/ Restore(a) \/ Overrule(a) \/ Record(a)
  <2>1. /\ UNCHANGED <<delivered, archived, packet, member>>
        /\ status' = "merged" <=> status = "merged"
        /\ pc'[a] \notin Publishing
    BY <1>2, <1>6 DEF Judge, Decide, Assigned, Restore, Overrule, Record, Reconciled, At, Fit,
       Open, Publishing, row, docs
  <2>2. Contained(pc[a], job[a])' /\ Delivered'
    BY <2>1 DEF Contained, Publishing, RInv, Delivered
  <2> QED
    BY <1>1, <2>1, <2>2, InsideContained DEF Implements, Published!vars
<1> QED
  BY <1>3, <1>4, <1>5, <1>6 DEF Reconcile

\* The other handlers: only Force Merge writes a packet, only the customs rebuild
\* replaces one, and only Remove takes a document out of the set.
LEMMA RouteBodyContained ==
  ASSUME RInv, NEW a \in Actors, RouteBody(a)
  PROVE  RInv' /\ Implements
<1>1. Holding(a) /\ KeepsBody(a)
  BY BodiesHold, RouteBodyStep DEF RInv
<1>2. /\ Fit(pc[a], job[a]) /\ Contained(pc[a], job[a])
      /\ \A p : Goto(a, p) => pc'[a] = p
      /\ member \in SUBSET Docs
  BY DEF RInv, IInv, TypeOK, Goto
<1>3. CASE ForceMerge(a)
  <2>1. UNCHANGED <<row, docs>> /\ ~archived
    BY <1>3 DEF ForceMerge
  <2>2. CASE status = "merged" /\ delivered
    <3>1. UNCHANGED packet /\ pc'[a] \notin Publishing
      BY <1>2, <1>3, <2>2 DEF ForceMerge, Publishing
    <3>2. Contained(pc[a], job[a])' /\ Delivered'
      BY <2>1, <3>1 DEF Contained, Publishing, RInv, Delivered, row, docs
    <3> QED
      BY <1>1, <2>1, <3>1, <3>2, InsideContained DEF Implements, Published!vars, row
  <2>3. CASE ~(status = "merged" /\ delivered)
    <3>1. /\ packet = {} /\ packet' = member /\ member # {} /\ pc'[a] = "sealing"
          /\ status # "merged"
      BY <1>2, <1>3, <2>3 DEF ForceMerge, Orphan, NoPacket, RInv, IInv, MergedHasPacket, Delivered
    <3>2. Contained(pc[a], job[a])' /\ Delivered'
      BY <2>1, <3>1 DEF Contained, RInv, Delivered, row, docs
    <3>3. Published!Write
      BY <1>2, <2>1, <3>1 DEF Published!Write, row
    <3> QED
      BY <1>1, <3>2, <3>3, InsideContained DEF Implements, Published!Next
  <2> QED
    BY <2>2, <2>3
<1>4. CASE Seal(a)
  <2>1. /\ status # "merged" /\ ~archived /\ packet # {} /\ packet \subseteq member
        /\ pc'[a] \notin Publishing /\ UNCHANGED <<member, archived>>
        /\ \/ status' = "merged" /\ delivered' = TRUE /\ UNCHANGED packet
           \/ UNCHANGED <<status, delivered>> /\ packet' = {}
    BY <1>2, <1>4 DEF Seal, CommitFails, Reconciled, At, Fit, Open, Contained, Publishing,
       NoPacket,
       row, docs
  <2>2. Contained(pc[a], job[a])' /\ Delivered'
    BY <2>1 DEF Contained, Publishing, RInv, Delivered
  <2>3. Implements
    BY <2>1 DEF Implements, Published!Next, Published!Deliver, Published!Withdraw
  <2> QED
    BY <1>1, <2>2, <2>3, InsideContained
<1>5. CASE AppendWrite(a)
  <2>1. /\ status = "merged" /\ ~archived /\ UNCHANGED <<row, member>> /\ packet' = member
        /\ packet \subseteq member /\ pc'[a] \notin Publishing
    BY <1>2, <1>5 DEF AppendWrite, Appendable, RInv, Delivered, Publishing, docs
  <2>2. Contained(pc[a], job[a])' /\ Delivered'
    BY <2>1 DEF Contained, Publishing, RInv, Delivered, row
  <2>3. Published!Rebuild
    BY <1>2, <2>1 DEF Published!Rebuild, row
  <2> QED
    BY <1>1, <2>2, <2>3, InsideContained DEF Implements, Published!Next
<1>6. CASE Shelve(a)
  <2>1. /\ status # "merged" /\ UNCHANGED <<status, delivered, packet, member>>
        /\ archived' \in {TRUE, archived} /\ pc'[a] \notin Publishing
    BY <1>2, <1>6 DEF Shelve, At, Contained, Publishing
  <2>2. Contained(pc[a], job[a])' /\ Delivered'
    BY <2>1 DEF Contained, Publishing, RInv, Delivered
  <2>3. Implements
    BY <2>1 DEF Implements, Published!Next, Published!Close, Published!vars
  <2> QED
    BY <1>1, <2>2, <2>3, InsideContained
<1>7. CASE Export(a)
  <2>1. UNCHANGED <<row, packet, docs>> /\ status = "quarantined" /\ pc'[a] = "shelving"
    BY <1>2, <1>7 DEF Export
  <2>2. Contained(pc[a], job[a])' /\ Delivered'
    BY <2>1 DEF Contained, RInv, Delivered, row, docs
  <2> QED
    BY <1>1, <2>1, <2>2, InsideContained DEF Implements, Published!vars, row
<1>8. CASE Remove(a)
  <2>1. UNCHANGED <<row, packet>> /\ status # "merged" /\ pc'[a] \notin Publishing
    BY <1>2, <1>8 DEF Remove, Publishing
  <2>2. Contained(pc[a], job[a])' /\ Delivered'
    BY <2>1 DEF Contained, Publishing, RInv, Delivered, row
  <2> QED
    BY <1>1, <2>1, <2>2, InsideContained DEF Implements, Published!vars, row
<1>9. CASE \/ Reopen(a) \/ Reset(a) \/ ReadAgain(a) \/ Confirm(a) \/ Toggle(a) \/ Upload(a)
           \/ Refuse(a) \/ AppendNothing(a) \/ AppendFail(a) \/ Credit(a) \/ Indebt(a)
  <2>1. /\ UNCHANGED <<delivered, archived, packet>> /\ member \subseteq member'
        /\ status' = "merged" <=> status = "merged"
    BY <1>9 DEF Reopen, Reset, ReadAgain, Confirm, Toggle, Upload, Refuse, AppendNothing,
       AppendFail, Credit, Indebt, row, docs
  <2>2. pc'[a] \notin Publishing
    BY <1>2, <1>9 DEF Reopen, Reset, ReadAgain, Confirm, Toggle, Upload, Refuse, AppendNothing,
       AppendFail, Credit, Indebt, Publishing, At
  <2>3. Contained(pc[a], job[a])' /\ Delivered'
    BY <2>1, <2>2 DEF Contained, Publishing, RInv, Delivered
  <2> QED
    BY <1>1, <2>1, <2>3, InsideContained DEF Implements, Published!vars
<1> QED
  BY <1>3, <1>4, <1>5, <1>6, <1>7, <1>8, <1>9 DEF RouteBody, Rebuild

-----------------------------------------------------------------------------
(* Steps outside the bodies, and the theorem.                                *)

\* Requests, placements, the lock, crashes and the stages of the sync publish nothing.
LEMMA OutsideContained ==
  ASSUME RInv, IInv',
         UNCHANGED <<delivered, archived, packet>>, member \subseteq member',
         status' = "merged" <=> status = "merged",
         \A b \in Actors : \/ pc'[b] = pc[b] /\ job'[b] = job[b]
                           \/ pc'[b] \notin Publishing
  PROVE  RInv' /\ Implements
<1>1. Delivered'
  BY DEF RInv, Delivered
<1>2. ASSUME NEW b \in Actors
      PROVE  Contained(pc[b], job[b])'
  BY DEF RInv, Contained, Publishing
<1> QED
  BY <1>1, <1>2 DEF RInv, Implements, Published!vars

LEMMA RInvInit == ASSUME Init PROVE RInv /\ Published!Init
<1>1. Delivered /\ \A a \in Actors : Contained(pc[a], job[a])
  BY DEF Init, Delivered, Contained, NoPacket
<1> QED
  BY <1>1, IInvInit DEF RInv, Published!Init, Init, NoPacket

LEMMA RInvNext == ASSUME RInv, [Next]_vars PROVE RInv' /\ Implements
<1>1. IInv'
  BY IInvNext DEF RInv
<1>2. ASSUME NEW a \in Actors, RouteBody(a) \/ Reconcile(a)
      PROVE  RInv' /\ Implements
  BY <1>2, RouteBodyContained, ReconcileContained
<1>3. ASSUME \/ \E a \in Actors : Acquire(a) \/ Conflict(a) \/ Release(a)
             \/ \E a \in Operators, r \in Routes : Request(a, r)
             \/ Lapse \/ (\E S : Crash(S)) \/ UNCHANGED vars
      PROVE  RInv' /\ Implements
  <2>1. UNCHANGED <<row, packet, docs>>
    BY <1>3 DEF Acquire, Conflict, Release, Request, Lapse, Crash, vars
  <2>2. \A b \in Actors : \/ pc'[b] = pc[b] /\ job'[b] = job[b]
                          \/ pc'[b] \notin Publishing
    BY <1>3 DEF Acquire, FirstStep, Conflict, Release, Request, Lapse, Crash, vars, Goto, Keep,
       Actors, Publishing, RInv, IInv, TypeOK
  <2> QED
    BY <1>1, <2>1, <2>2, OutsideContained DEF row, docs
<1>4. ASSUME NEW a \in Operators, Place(a) \/ \E d \in Docs : Propose(a, d)
      PROVE  RInv' /\ Implements
  <2>1. /\ UNCHANGED <<delivered, archived, packet>> /\ member \subseteq member'
        /\ status' = "merged" <=> status = "merged"
    BY <1>4 DEF Place, Propose, row, docs
  <2>2. /\ pc'[a] \notin Publishing
        /\ \A b \in Actors : b # a => pc'[b] = pc[b] /\ job'[b] = job[b]
    BY <1>4 DEF Place, Propose, Goto, Keep, Actors, Publishing, RInv, IInv, TypeOK
  <2> QED
    BY <1>1, <2>1, <2>2, OutsideContained
<1>5. CASE SyncStage
  <2>1. /\ UNCHANGED <<delivered, archived, packet>> /\ member \subseteq member'
        /\ status' = "merged" <=> status = "merged"
    BY <1>5 DEF SyncStage, SyncStart, Break, AttachWrite, ScanEnd, Sweep, Settle, ScanRead,
       AttachRead, row, docs
  <2>2. /\ pc'[Sync] \notin Publishing
        /\ \A b \in Actors : b # Sync => pc'[b] = pc[b] /\ job'[b] = job[b]
    BY <1>5 DEF SyncStage, SyncStart, Break, AttachWrite, ScanEnd, Sweep, Settle, ScanRead,
       AttachRead, Stay, At, Goto, Keep, Actors, Publishing, RInv, IInv, TypeOK
  <2> QED
    BY <1>1, <2>1, <2>2, OutsideContained
<1> QED
  BY <1>2, <1>3, <1>4, <1>5 DEF Next, OperatorStep, SyncStep, Actors, RouteBody

\* Whoever works on the set, and whatever fails or crashes, what its page and the output
\* folder show is a behaviour of PublishedSet: the file is there before the page says
\* "merged" and stays, a rebuild loses no page, and nothing leaves a closed set.
THEOREM Refinement == Spec => PublishedSetImplemented
<1>1. Init => RInv /\ Published!Init
  BY RInvInit
<1>2. RInv /\ [Next]_vars => RInv' /\ [Published!Next]_(Published!vars)
  BY RInvNext DEF Implements
<1> QED
  BY <1>1, <1>2, PTL DEF Spec, PublishedSetImplemented, Published!Spec

-----------------------------------------------------------------------------
(***************************************************************************)
(* A delivered packet that lacks customs pages is recorded as owed, for any *)
(* documents, operators, faults and bounds, where force-merge and placement *)
(* are not both among the routes.                                           *)
(*                                                                          *)
(* The argument follows the packet from the decision to write it: until its *)
(* commit only the sync adds documents to the set, and no customs file.      *)
(* After the commit every step that completes the pair of customs files goes *)
(* on to the rebuild under the lock or records the debt itself, and the       *)
(* rebuild gives the debt up only for a packet that has both.                *)
(***************************************************************************)

\* What the actor that writes a packet knows of the customs pages in it.
Pledge(p, f) ==
  /\ p = "writing" /\ toggle => HasBoth(f.pages)
  /\ p = "committing" /\ toggle => HasBoth(packet)
  /\ p = "sealing" /\ toggle /\ HasBoth(member \ shelved) => HasBoth(packet)
  /\ p = "crediting" => HasBoth(packet)

\* An actor is where one of the routes has led it.
OnRoute(p, f) ==
  /\ p \in {"admitted", "placing"} => f.act \in Routes
  /\ p \in {"forcing", "sealing"} => "force_merge" \in Routes
  /\ p = "placing" => f.act = "reclassify"

\* The sync attaches what grouping sorts, and no customs or shipping file.
AttachesCore ==
  pc[Sync] = "attaching" => Core(job[Sync].pages) = job[Sync].pages

\* What is missing is owed, or someone is about to add it or to record it.
DebtKnown ==
  /\ crashes = 0
  /\ status = "merged" /\ toggle /\ HasBoth(member \ shelved) /\ ~archived
  /\ ~HasBoth(packet)
  => owed \/ \E a \in Actors : pc[a] \in {"appending", "indebting"}

DInv ==
  /\ IInv /\ AttachesCore /\ DebtKnown
  /\ \A a \in Actors : Pledge(pc[a], job[a]) /\ OnRoute(pc[a], job[a])

NotBoth == "force_merge" \notin Routes \/ "reclassify" \notin Routes

\* More documents do not lose the pair.
LEMMA PairGrows ==
  ASSUME NEW D, NEW E, D \subseteq E, HasBoth(D)
  PROVE  HasBoth(E)
BY DEF HasBoth, OfType

\* Core documents do not complete it.
LEMMA PairIsNotCore ==
  ASSUME NEW D, NEW E, NEW S, Core(E) = E, HasBoth((D \cup E) \ S)
  PROVE  HasBoth(D \ S)
<1>1. ASSUME NEW t \in AddonTypes
      PROVE  OfType(D \ S, t) # {}
  <2>1. PICK d \in (D \cup E) \ S : TypeOf[d] = t
    BY <1>1 DEF HasBoth, OfType
  <2>2. d \notin E
    BY <1>1, <2>1 DEF Core, CoreTypes, AddonTypes
  <2> QED
    BY <2>1, <2>2 DEF OfType
<1> QED
  BY <1>1 DEF HasBoth

\* Inside a body it is enough to look at the acting actor.
LEMMA InsideDebts ==
  ASSUME DInv, NEW a \in Actors, Holding(a), KeepsBody(a), DebtKnown',
         Pledge(pc[a], job[a])', OnRoute(pc[a], job[a])'
  PROVE  DInv'
<1>1. PICK p, f : BodyStep(a, p, f)
  BY DEF KeepsBody
<1>2. IInv'
  BY InsideKeeps DEF DInv
<1>3. \A b \in Actors : b # a => pc'[b] = pc[b] /\ job'[b] = job[b] /\ pc[b] \notin Bodies
  BY <1>1, Alone DEF BodyStep, Goto, Keep, DInv, IInv, TypeOK, Holding
<1>4. pc'[a] \in Bodies
  BY <1>1 DEF BodyStep, Goto, DInv, IInv, TypeOK
<1>5. AttachesCore'
  BY <1>3, <1>4 DEF AttachesCore, DInv, Bodies, Actors
<1>6. ASSUME NEW b \in Actors, b # a
      PROVE  Pledge(pc[b], job[b])' /\ OnRoute(pc[b], job[b])'
  BY <1>3, <1>6 DEF Pledge, OnRoute, DInv, Bodies
<1> QED
  BY <1>2, <1>5, <1>6 DEF DInv

\* Who holds the lock and is not at the rebuild finds the debt recorded.
LEMMA NobodyElseRebuilds ==
  ASSUME DInv, NEW a \in Actors, Holding(a), pc[a] \notin {"appending", "indebting"},
         crashes = 0, status = "merged", toggle, HasBoth(member \ shelved), ~archived,
         ~HasBoth(packet)
  PROVE  owed
<1>1. \A b \in Actors : pc[b] \notin {"appending", "indebting"}
  BY Alone DEF DInv, IInv, Holding, Bodies
<1> QED
  BY <1>1 DEF DInv, DebtKnown

\* A step that neither touches the packet and its pages nor merges the set.
LEMMA CalmDebts ==
  ASSUME DInv, NEW a \in Actors, Holding(a), KeepsBody(a),
         pc[a] \notin {"appending", "indebting"},
         pc'[a] \notin {"writing", "committing", "sealing", "crediting", "forcing"},
         UNCHANGED <<toggle, owed, packet, member, shelved, archived, crashes>>,
         status' = "merged" => status = "merged"
  PROVE  DInv'
<1>1. pc'[a] \in Bodies
  BY DEF KeepsBody, BodyStep, Goto, DInv, IInv, TypeOK
<1>2. Pledge(pc[a], job[a])' /\ OnRoute(pc[a], job[a])'
  BY <1>1 DEF Pledge, OnRoute, Bodies
<1>3. DebtKnown'
  BY NobodyElseRebuilds DEF DebtKnown
<1> QED
  BY <1>2, <1>3, InsideDebts

-----------------------------------------------------------------------------
(* The steps of reconcile_po_set.                                           *)

\* A packet about to be written has the pair its set requires.
LEMMA MergeCheckDebts ==
  ASSUME DInv, NEW a \in Actors, MergeCheck(a)
  PROVE  DInv'
<1>1. Holding(a) /\ KeepsBody(a) /\ pc[a] = "merging"
  BY MergeCheckStep DEF MergeCheck, At, Holding, Bodies, DInv
<1>2. UNCHANGED <<row, packet, docs, counts>>
  BY DEF MergeCheck
<1>3. CASE pc'[a] # "writing"
  <2>1. pc'[a] \in {"restoring", "recording", "overruling"}
    BY <1>3 DEF MergeCheck, Goto, DInv, IInv, TypeOK
  <2> QED
    BY <1>1, <1>2, <2>1, CalmDebts DEF row, docs, counts
<1>4. CASE pc'[a] = "writing"
  <2>1. ~MergeDeclined /\ status # "merged" /\ Keep(a, [job[a] EXCEPT !.pages = member])
    BY <1>4 DEF MergeCheck, Goto, DInv, IInv, TypeOK
  <2>2. job'[a].pages = member
    BY <2>1 DEF Keep, DInv, IInv, TypeOK, Jobs
  <2>3. Pledge(pc[a], job[a])' /\ OnRoute(pc[a], job[a])'
    BY <1>2, <1>4, <2>1, <2>2 DEF Pledge, OnRoute, MergeDeclined, row
  <2>4. DebtKnown'
    BY <1>2, <2>1 DEF DebtKnown, row
  <2> QED
    BY <1>1, <2>3, <2>4, InsideDebts
<1> QED
  BY <1>3, <1>4

LEMMA MergeWriteDebts ==
  ASSUME DInv, NEW a \in Actors, MergeWrite(a)
  PROVE  DInv'
<1>1. Holding(a) /\ KeepsBody(a) /\ pc[a] = "writing"
  BY MergeWriteStep DEF MergeWrite, At, Holding, Bodies, DInv
<1>2. UNCHANGED <<row, docs, counts>> /\ status # "merged"
  BY <1>1 DEF MergeWrite, DInv, IInv, Fit, Open
<1>3. DebtKnown'
  BY <1>2 DEF DebtKnown, row
<1>4. pc'[a] = "overruling" \/ (pc'[a] = "committing" /\ packet' = job[a].pages)
  BY DEF MergeWrite, Goto, DInv, IInv, TypeOK
<1>5. Pledge(pc[a], job[a])' /\ OnRoute(pc[a], job[a])'
  BY <1>1, <1>2, <1>4 DEF Pledge, OnRoute, DInv, row
<1> QED
  BY <1>1, <1>3, <1>5, InsideDebts

\* A commit that fails leaves the set unmerged.
LEMMA FailedCommitDebts ==
  ASSUME DInv, NEW a \in Actors, pc[a] \in {"committing", "sealing"}, CommitFails(a)
  PROVE  DInv'
<1>1. Holding(a) /\ KeepsBody(a) /\ status # "merged"
  BY FailedCommitStep DEF Holding, Bodies, DInv, IInv, Fit, Open
<1>2. pc'[a] \in {"releasing", "appending"} /\ UNCHANGED row
  BY DEF CommitFails, Reconciled, Goto, DInv, IInv, TypeOK
<1>3. DebtKnown' /\ Pledge(pc[a], job[a])' /\ OnRoute(pc[a], job[a])'
  BY <1>1, <1>2 DEF DebtKnown, Pledge, OnRoute, row
<1> QED
  BY <1>1, <1>3, InsideDebts

LEMMA MergeCommitDebts ==
  ASSUME DInv, NEW a \in Actors, MergeCommit(a)
  PROVE  DInv'
<1>1. CASE CommitFails(a)
  BY <1>1, FailedCommitDebts DEF MergeCommit, At
<1>2. CASE ~CommitFails(a)
  <2>1. Holding(a) /\ KeepsBody(a) /\ pc[a] = "committing" /\ pc'[a] = "recording"
    BY <1>2, MergeCommitStep DEF MergeCommit, At, Goto, Holding, Bodies, DInv, IInv, TypeOK
  <2>2. UNCHANGED <<toggle, packet>>
    BY <1>2 DEF MergeCommit
  <2>3. DebtKnown'
    BY <2>1, <2>2 DEF DebtKnown, DInv, Pledge
  <2>4. Pledge(pc[a], job[a])' /\ OnRoute(pc[a], job[a])'
    BY <2>1 DEF Pledge, OnRoute
  <2> QED
    BY <2>1, <2>3, <2>4, InsideDebts
<1> QED
  BY <1>1, <1>2

LEMMA ReconcileDebts ==
  ASSUME DInv, NEW a \in Actors, Reconcile(a)
  PROVE  DInv'
<1>1. CASE MergeCheck(a) \/ MergeWrite(a) \/ MergeCommit(a)
  BY <1>1, MergeCheckDebts, MergeWriteDebts, MergeCommitDebts
<1>2. CASE Judge(a) \/ Decide(a) \/ Restore(a) \/ Overrule(a) \/ Record(a)
  <2>1. Holding(a) /\ KeepsBody(a) /\ Fit(pc[a], job[a])
    BY BodiesHold, ReconcileStep DEF DInv, IInv
  <2>2. pc[a] \notin {"appending", "indebting"}
    BY <1>2 DEF Judge, Decide, Restore, Overrule, Record, At
  <2>3. pc'[a] \in {"deciding", "merging", "recording", "appending", "releasing"}
    BY <1>2 DEF Judge, Decide, Restore, Overrule, Record, Reconciled, Goto, DInv, IInv, TypeOK
  <2>4. UNCHANGED <<toggle, owed, packet, member, shelved, archived, crashes>>
    BY <1>2 DEF Judge, Decide, Restore, Overrule, Record, Stay, row, docs, counts
  <2>5. status' = "merged" => status = "merged"
    BY <1>2, <2>1 DEF Judge, Decide, Assigned, Restore, Overrule, Record, At, Fit, row
  <2> QED
    BY <2>1, <2>2, <2>3, <2>4, <2>5, CalmDebts
<1> QED
  BY <1>1, <1>2 DEF Reconcile

-----------------------------------------------------------------------------
(* The bodies of the other routes.                                          *)

\* Re-Match, Re-Extract, a confirmation, the export and the refusals.
LEMMA CalmRouteDebts ==
  ASSUME DInv, NEW a \in Actors,
         Reopen(a) \/ Reset(a) \/ ReadAgain(a) \/ Confirm(a) \/ Export(a) \/ Refuse(a)
  PROVE  DInv'
<1>1. Holding(a) /\ KeepsBody(a)
  BY BodiesHold, RouteBodyStep DEF RouteBody, DInv
<1>2. pc[a] \notin {"appending", "indebting"}
  BY DEF Reopen, Reset, ReadAgain, Confirm, Export, Refuse, Refusals, At
<1>3. pc'[a] \in {"reading", "judging", "reopening", "shelving", "releasing"}
  BY DEF Reopen, Reset, ReadAgain, Confirm, Export, Refuse, Goto, At, DInv, IInv, TypeOK
<1>4. UNCHANGED <<toggle, owed, packet, member, shelved, archived, crashes>>
  BY DEF Reopen, Reset, ReadAgain, Confirm, Export, Refuse, Stay, row, docs, counts
<1>5. status' = "merged" => status = "merged"
  BY DEF Reopen, Reset, ReadAgain, Confirm, Export, Refuse, row
<1> QED
  BY <1>1, <1>2, <1>3, <1>4, <1>5, CalmDebts

\* A forced packet holds every document the set has at that moment.
LEMMA ForceMergeDebts ==
  ASSUME DInv, NEW a \in Actors, ForceMerge(a)
  PROVE  DInv'
<1>1. Holding(a) /\ KeepsBody(a) /\ pc[a] = "forcing"
  BY ForceMergeStep DEF ForceMerge, At, Holding, Bodies, DInv
<1>2. UNCHANGED <<row, docs, counts>>
  BY DEF ForceMerge, Stay
<1>3. CASE status = "merged" /\ delivered
  <2>1. pc'[a] = "releasing" /\ UNCHANGED packet
    BY <1>3 DEF ForceMerge, Goto, DInv, IInv, TypeOK
  <2> QED
    BY <1>1, <1>2, <2>1, CalmDebts DEF row, docs, counts
<1>4. CASE ~(status = "merged" /\ delivered)
  <2>1. status # "merged"
    BY <1>4 DEF DInv, IInv, MergedHasPacket
  <2>2. pc'[a] = "sealing" /\ packet' = member
    BY <1>4 DEF ForceMerge, Goto, DInv, IInv, TypeOK
  <2>3. HasBoth(member \ shelved) => HasBoth(member)
    BY PairGrows
  <2>4. Pledge(pc[a], job[a])' /\ OnRoute(pc[a], job[a])'
    BY <1>1, <1>2, <2>2, <2>3 DEF Pledge, OnRoute, DInv, docs
  <2>5. DebtKnown'
    BY <1>2, <2>1 DEF DebtKnown, row
  <2> QED
    BY <1>1, <2>4, <2>5, InsideDebts
<1> QED
  BY <1>3, <1>4

LEMMA SealDebts ==
  ASSUME DInv, NEW a \in Actors, Seal(a)
  PROVE  DInv'
<1>1. CASE CommitFails(a)
  BY <1>1, FailedCommitDebts DEF Seal, At
<1>2. CASE ~CommitFails(a)
  <2>1. Holding(a) /\ KeepsBody(a) /\ pc[a] = "sealing" /\ pc'[a] = "releasing"
    BY <1>2, SealStep DEF Seal, At, Goto, Holding, Bodies, DInv, IInv, TypeOK
  <2>2. UNCHANGED <<toggle, packet, member, shelved>>
    BY <1>2 DEF Seal, docs
  <2>3. DebtKnown'
    BY <2>1, <2>2 DEF DebtKnown, DInv, Pledge
  <2>4. Pledge(pc[a], job[a])' /\ OnRoute(pc[a], job[a])'
    BY <2>1 DEF Pledge, OnRoute
  <2> QED
    BY <2>1, <2>3, <2>4, InsideDebts
<1> QED
  BY <1>1, <1>2

\* Switching the requirement on for a delivered set that has the pair leads to
\* the rebuild; switching it off gives the debt up with the requirement.
LEMMA ToggleDebts ==
  ASSUME DInv, NEW a \in Actors, Toggle(a)
  PROVE  DInv'
<1>1. Holding(a) /\ KeepsBody(a)
  BY ToggleStep DEF Toggle, At, Holding, Bodies, DInv
<1>2. pc'[a] = IF status = "merged" /\ ~toggle /\ HasBoth(member) THEN "appending" ELSE "releasing"
  BY DEF Toggle, Goto, DInv, IInv, TypeOK
<1>3. UNCHANGED <<member, shelved>> /\ toggle' = ~toggle /\ (status' = "merged" => status = "merged")
  BY DEF Toggle, docs
<1>4. HasBoth(member \ shelved) => HasBoth(member)
  BY PairGrows
<1>5. DebtKnown'
  BY <1>2, <1>3, <1>4 DEF DebtKnown
<1>6. Pledge(pc[a], job[a])' /\ OnRoute(pc[a], job[a])'
  BY <1>2 DEF Pledge, OnRoute
<1> QED
  BY <1>1, <1>5, <1>6, InsideDebts

\* A customs file that completes the pair of a delivered set leads to the rebuild.
LEMMA UploadDebts ==
  ASSUME DInv, NEW a \in Actors, Upload(a)
  PROVE  DInv'
<1>1. Holding(a) /\ KeepsBody(a)
  BY UploadStep DEF Upload, At, Holding, Bodies, DInv
<1>2. PICK d \in Docs :
        LET attached == member \cup {d}
            complete == toggle /\ HasBoth(attached \ (shelved \ {d}))
        IN /\ member' = attached
           /\ shelved' = shelved \ {d}
           /\ status' = IF complete /\ status = "blocked_customs" THEN "pending" ELSE status
           /\ Goto(a, IF complete /\ status = "merged" THEN "appending" ELSE "releasing")
  BY DEF Upload
<1>3. pc'[a] \in {"appending", "releasing"} /\ UNCHANGED toggle
  BY <1>2 DEF Upload, Goto, DInv, IInv, TypeOK
<1>4. status' = "merged" /\ toggle' /\ HasBoth(member' \ shelved') => pc'[a] = "appending"
  BY <1>2, <1>3 DEF Goto, DInv, IInv, TypeOK
<1>5. DebtKnown'
  BY <1>4 DEF DebtKnown
<1>6. Pledge(pc[a], job[a])' /\ OnRoute(pc[a], job[a])'
  BY <1>3 DEF Pledge, OnRoute
<1> QED
  BY <1>1, <1>5, <1>6, InsideDebts

\* Removing a customs file is for sets that are not delivered, and an archived
\* set owes nothing.
LEMMA RemoveShelveDebts ==
  ASSUME DInv, NEW a \in Actors, Remove(a) \/ Shelve(a)
  PROVE  DInv'
<1>1. Holding(a) /\ KeepsBody(a) /\ pc[a] \in {"removing", "shelving"}
  BY RemoveStep, ShelveStep DEF Remove, Shelve, At, Holding, Bodies, DInv
<1>2. pc'[a] = "releasing"
  BY DEF Remove, Shelve, Goto, DInv, IInv, TypeOK
<1>3. UNCHANGED <<status, toggle, owed, packet, crashes>>
  BY DEF Remove, Shelve, Stay, row, counts
<1>4. status # "merged" \/ archived' \/ UNCHANGED <<member, shelved, archived>>
  BY DEF Remove, Shelve
<1>5. DebtKnown'
  BY <1>1, <1>3, <1>4, NobodyElseRebuilds DEF DebtKnown
<1>6. Pledge(pc[a], job[a])' /\ OnRoute(pc[a], job[a])'
  BY <1>2 DEF Pledge, OnRoute
<1> QED
  BY <1>1, <1>5, <1>6, InsideDebts

\* The rebuild writes both files, or finds nothing owed, or records the debt.
LEMMA RebuildDebts ==
  ASSUME DInv, NEW a \in Actors, Rebuild(a)
  PROVE  DInv'
<1>1. Holding(a) /\ KeepsBody(a)
  BY BodiesHold, RouteBodyStep DEF RouteBody, DInv
<1>2. CASE AppendWrite(a)
  <2>1. pc'[a] = "crediting" /\ HasBoth(packet')
    BY <1>2 DEF AppendWrite, Appendable, Goto, DInv, IInv, TypeOK
  <2>2. DebtKnown' /\ Pledge(pc[a], job[a])' /\ OnRoute(pc[a], job[a])'
    BY <2>1 DEF DebtKnown, Pledge, OnRoute
  <2> QED
    BY <1>1, <2>2, InsideDebts
<1>3. CASE AppendNothing(a)
  <2>1. pc'[a] = "releasing" /\ UNCHANGED <<status, delivered, archived, toggle, member, shelved>>
    BY <1>3 DEF AppendNothing, Goto, docs, DInv, IInv, TypeOK
  <2>2. HasBoth(member \ shelved) => HasBoth(member)
    BY PairGrows
  <2>3. ~(status = "merged" /\ toggle /\ HasBoth(member \ shelved) /\ ~archived)
    BY <1>3, <2>2 DEF AppendNothing, Appendable, DInv, IInv, MergedHasPacket
  <2>4. DebtKnown' /\ Pledge(pc[a], job[a])' /\ OnRoute(pc[a], job[a])'
    BY <2>1, <2>3 DEF DebtKnown, Pledge, OnRoute
  <2> QED
    BY <1>1, <2>4, InsideDebts
<1>4. CASE AppendFail(a)
  <2>1. pc'[a] = "indebting"
    BY <1>4 DEF AppendFail, Goto, DInv, IInv, TypeOK
  <2>2. DebtKnown' /\ Pledge(pc[a], job[a])' /\ OnRoute(pc[a], job[a])'
    BY <2>1 DEF DebtKnown, Pledge, OnRoute
  <2> QED
    BY <1>1, <2>2, InsideDebts
<1>5. CASE Credit(a)
  <2>1. pc'[a] \in {"releasing", "indebting"} /\ UNCHANGED packet
    BY <1>5 DEF Credit, Goto, DInv, IInv, TypeOK
  <2>2. HasBoth(packet)
    BY <1>5 DEF Credit, At, DInv, Pledge
  <2>3. DebtKnown' /\ Pledge(pc[a], job[a])' /\ OnRoute(pc[a], job[a])'
    BY <2>1, <2>2 DEF DebtKnown, Pledge, OnRoute
  <2> QED
    BY <1>1, <2>3, InsideDebts
<1>6. CASE Indebt(a)
  <2>1. pc'[a] = "releasing" /\ (archived' \/ owed')
    BY <1>6 DEF Indebt, Goto, DInv, IInv, TypeOK
  <2>2. DebtKnown' /\ Pledge(pc[a], job[a])' /\ OnRoute(pc[a], job[a])'
    BY <2>1 DEF DebtKnown, Pledge, OnRoute
  <2> QED
    BY <1>1, <2>2, InsideDebts
<1> QED
  BY <1>2, <1>3, <1>4, <1>5, <1>6 DEF Rebuild

LEMMA RouteBodyDebts ==
  ASSUME DInv, NEW a \in Actors, RouteBody(a)
  PROVE  DInv'
BY CalmRouteDebts, ForceMergeDebts, SealDebts, ToggleDebts, UploadDebts, RemoveShelveDebts,
   RebuildDebts DEF RouteBody

-----------------------------------------------------------------------------
(* Steps outside the bodies.                                                *)

\* A step that leaves the debt and what it is about alone, and the places where
\* someone is about to settle it.
LEMMA QuietDebts ==
  ASSUME DInv, IInv', AttachesCore',
         UNCHANGED <<archived, toggle, owed, packet, member, shelved>>,
         status' = "merged" => status = "merged", crashes' = 0 => crashes = 0,
         \A b \in Actors : OnRoute(pc[b], job[b])',
         \A b \in Actors :
           \/ pc'[b] = pc[b] /\ job'[b] = job[b]
           \/ /\ pc[b] \notin {"appending", "indebting"} \/ crashes' # 0
              /\ pc'[b] \notin {"writing", "committing", "sealing", "crediting"}
  PROVE  DInv'
<1>1. ASSUME NEW b \in Actors
      PROVE  Pledge(pc[b], job[b])'
  BY DEF DInv, Pledge
<1>2. DebtKnown'
  BY DEF DInv, DebtKnown
<1> QED
  BY <1>1, <1>2 DEF DInv

\* Requests, the lock and the crashes.
LEMMA LockDebts ==
  ASSUME DInv, IInv',
         \/ \E a \in Actors : Acquire(a) \/ Conflict(a) \/ Release(a)
         \/ \E a \in Operators, r \in Routes : Request(a, r)
         \/ Lapse \/ (\E S : Crash(S)) \/ UNCHANGED vars
  PROVE  DInv'
<1>1. UNCHANGED <<status, archived, toggle, owed, packet, member, shelved>>
  BY DEF Acquire, Conflict, Release, Request, Lapse, Crash, vars, row, docs
<1>2. crashes' = 0 => crashes = 0
  <2>1. crashes \in Nat
    BY DEF DInv, IInv, TypeOK
  <2>2. crashes' = crashes \/ crashes' = crashes + 1
    BY DEF Acquire, Conflict, Release, Request, Lapse, Crash, vars, counts
  <2> QED
    BY <2>1, <2>2
<1> DEFINE Fine(b) ==
      /\ OnRoute(pc[b], job[b])'
      /\ \/ pc'[b] = pc[b] /\ job'[b] = job[b]
         \/ /\ pc[b] \notin {"appending", "indebting"} \/ crashes' # 0
            /\ pc'[b] \notin {"writing", "committing", "sealing", "crediting", "attaching"}
<1>3. ASSUME NEW b \in Actors
      PROVE  Fine(b)
  <2>1. OnRoute(pc[b], job[b])
    BY DEF DInv
  <2>2. ASSUME NEW a \in Actors, Acquire(a)
        PROVE  Fine(b)
    <3>1. job' = job /\ pc' = [pc EXCEPT ![a] = FirstStep(job[a].act)] /\ pc[a] = "admitted"
      BY <2>2 DEF Acquire, Goto, At
    <3>2. job[a].act \in Routes
      BY <3>1 DEF DInv, OnRoute
    <3> QED
      BY <2>1, <3>1, <3>2 DEF FirstStep, OnRoute, DInv, IInv, TypeOK
  <2>3. ASSUME NEW a \in Actors, Conflict(a) \/ Release(a)
        PROVE  Fine(b)
    BY <2>1, <2>3 DEF Conflict, Release, At, Goto, Keep, OnRoute, DInv, IInv, TypeOK
  <2>4. ASSUME NEW a \in Operators, NEW r \in Routes, Request(a, r)
        PROVE  Fine(b)
    <3>1. /\ pc' = [pc EXCEPT ![a] = "admitted"] /\ pc[a] = "idle"
          /\ job' = [job EXCEPT ![a] = [NoJob EXCEPT !.act = r]]
      BY <2>4 DEF Request, Goto, Keep, At
    <3> QED
      BY <2>1, <3>1 DEF NoJob, OnRoute, Actors, DInv, IInv, TypeOK
  <2>5. ASSUME Lapse \/ (\E S : Crash(S)) \/ UNCHANGED vars
        PROVE  Fine(b)
    BY <2>1, <2>5 DEF Lapse, Crash, vars, counts, OnRoute, DInv, IInv, TypeOK
  <2> QED
    BY <2>2, <2>3, <2>4, <2>5
<1>4. AttachesCore'
  BY <1>3 DEF AttachesCore, DInv, Actors
<1> QED
  BY <1>1, <1>2, <1>3, <1>4, QuietDebts

LEMMA SyncStageDebts ==
  ASSUME DInv, IInv', SyncStage
  PROVE  DInv'
<1>1. /\ pc[Sync] \in Stages \cup {"idle"}
      /\ \A b \in Actors : b # Sync => pc'[b] = pc[b] /\ job'[b] = job[b]
  BY DEF SyncStage, SyncStart, Break, AttachWrite, ScanEnd, Sweep, Settle, ScanRead, AttachRead,
     Stay, At, Goto, Keep, Stages, Actors, DInv, IInv, TypeOK
<1>2. UNCHANGED <<archived, toggle, owed, packet, shelved, crashes>>
  BY DEF SyncStage, SyncStart, Break, AttachWrite, ScanEnd, Sweep, Settle, ScanRead, AttachRead,
     Stay, row, docs, counts
<1>3. status' = "merged" => status = "merged"
  BY DEF SyncStage, SyncStart, Break, AttachWrite, ScanEnd, Sweep, Settle, ScanRead, AttachRead,
     row
<1>4. pc'[Sync] \in {"scanning", "breaking", "attaching", "sweeping", "judging", "owing",
                     "appending", "idle"}
  BY DEF SyncStage, SyncStart, Break, AttachWrite, ScanEnd, Sweep, Settle, ScanRead, AttachRead,
     At, Goto, Actors, DInv, IInv, TypeOK
<1>5. ASSUME NEW b \in Actors
      PROVE  OnRoute(pc[b], job[b])'
  BY <1>1, <1>4 DEF OnRoute, DInv
<1>6. AttachesCore'
  <2>1. ASSUME pc'[Sync] = "attaching"
        PROVE  Core(job'[Sync].pages) = job'[Sync].pages
    <3>1. PICK d \in Docs : AttachRead(d)
      BY <2>1 DEF SyncStage, SyncStart, Break, AttachWrite, ScanEnd, Sweep, Settle, ScanRead,
         At, Goto, Actors, DInv, IInv, TypeOK
    <3>2. job'[Sync].pages = {d} /\ TypeOf[d] \in CoreTypes
      BY <3>1 DEF AttachRead, Keep, NoJob, Actors, DInv, IInv, TypeOK
    <3> QED
      BY <3>2 DEF Core
  <2> QED
    BY <2>1 DEF AttachesCore
<1>7. CASE UNCHANGED member
  <2>1. \A b \in Actors :
          \/ pc'[b] = pc[b] /\ job'[b] = job[b]
          \/ /\ pc[b] \notin {"appending", "indebting"} \/ crashes' # 0
             /\ pc'[b] \notin {"writing", "committing", "sealing", "crediting"}
    BY <1>1, <1>4 DEF Stages
  <2> QED
    BY <1>2, <1>3, <1>5, <1>6, <1>7, <2>1, QuietDebts
<1>8. CASE member' # member
  <2>1. AttachWrite
    BY <1>8 DEF SyncStage, SyncStart, Break, ScanEnd, Sweep, Settle, ScanRead, AttachRead, docs
  <2>2. member' = member \cup job[Sync].pages /\ Core(job[Sync].pages) = job[Sync].pages
    BY <2>1 DEF AttachWrite, At, AttachesCore, DInv
  <2>3. HasBoth(member' \ shelved) => HasBoth(member \ shelved)
    BY <2>2, PairIsNotCore
  <2>4. ASSUME NEW b \in Actors
        PROVE  Pledge(pc[b], job[b])'
    BY <1>1, <1>2, <1>4, <2>3 DEF Pledge, DInv
  <2>5. DebtKnown'
    <3>1. \A b \in Actors : pc[b] \in {"appending", "indebting"} => pc'[b] = pc[b]
      BY <1>1 DEF Stages
    <3> QED
      BY <1>2, <1>3, <2>3, <3>1 DEF DebtKnown, DInv
  <2> QED
    BY <1>5, <1>6, <2>4, <2>5 DEF DInv
<1> QED
  BY <1>7, <1>8

\* A placement records the debt with the commit that completes the pair.
LEMMA PlacementDebts ==
  ASSUME NotBoth, DInv, IInv', NEW a \in Operators, Place(a) \/ \E d \in Docs : Propose(a, d)
  PROVE  DInv'
<1>1. /\ a \in Actors /\ a # Sync
      /\ pc[a] \in {"idle", "placing"} /\ pc'[a] \in {"idle", "admitted", "placing"}
      /\ \A b \in Actors : b # a => pc'[b] = pc[b] /\ job'[b] = job[b]
  BY LifecycleAssumption DEF Place, Propose, At, Goto, Keep, Actors, DInv, IInv, TypeOK
<1>2. UNCHANGED <<archived, toggle, packet, shelved, crashes>>
  BY DEF Place, Propose, row, docs, counts
<1>3. job'[a].act = "reclassify" \/ pc'[a] = "idle"
  <2>1. job \in [Actors -> Jobs] /\ pc \in [Actors -> {"idle", "admitted"} \cup Stages \cup Bodies]
    BY DEF DInv, IInv, TypeOK
  <2>2. CASE Place(a) /\ archived
    BY <1>1, <2>1, <2>2 DEF Place, Goto
  <2>3. CASE Place(a) /\ ~archived
    <3>1. job' = [job EXCEPT ![a] = [job[a] EXCEPT !.pages = {}]] /\ job[a].act = "reclassify"
      BY <1>1, <2>3 DEF Place, Keep, At, OnRoute, DInv
    <3>2. job'[a].act = job[a].act
      BY <1>1, <2>1, <3>1 DEF Jobs
    <3> QED
      BY <3>1, <3>2
  <2>4. ASSUME NEW d \in Docs, Propose(a, d)
        PROVE  job'[a].act = "reclassify"
    <3>1. job' = [job EXCEPT ![a] = [NoJob EXCEPT !.act = "reclassify", !.pages = {d}]]
      BY <2>4 DEF Propose, Keep
    <3> QED
      BY <1>1, <2>1, <3>1 DEF NoJob
  <2> QED
    BY <2>2, <2>3, <2>4
<1>4. "reclassify" \in Routes
  BY <1>1 DEF Place, Propose, At, DInv, OnRoute
<1>5. ASSUME NEW b \in Actors
      PROVE  OnRoute(pc[b], job[b])'
  BY <1>1, <1>3, <1>4 DEF OnRoute, DInv
<1>6. AttachesCore'
  BY <1>1 DEF AttachesCore, DInv, Actors
<1>7. ASSUME NEW b \in Actors
      PROVE  Pledge(pc[b], job[b])'
  <2>1. pc[b] # "sealing"
    BY <1>4 DEF NotBoth, DInv, OnRoute
  <2> QED
    BY <1>1, <1>2, <2>1 DEF Pledge, DInv
<1>8. DebtKnown'
  <2>1. \A b \in Actors : pc[b] \in {"appending", "indebting"} => pc'[b] = pc[b]
    BY <1>1
  <2>2. CASE UNCHANGED <<status, owed, member>>
    BY <1>2, <2>1, <2>2 DEF DebtKnown, DInv
  <2>3. CASE Place(a) /\ ~archived
    <3>1. /\ member' = member \cup job[a].pages
          /\ status' = "merged" => status = "merged"
          /\ owed' = (owed \/ (toggle /\ HasBoth((member \cup job[a].pages) \ shelved)
                               /\ status = "merged"))
      BY <2>3 DEF Place
    <3>2. status' = "merged" /\ toggle' /\ HasBoth(member' \ shelved') => owed'
      BY <1>2, <3>1
    <3> QED
      BY <3>2 DEF DebtKnown
  <2> QED
    BY <2>2, <2>3 DEF Place, Propose, row, docs
<1> QED
  BY <1>5, <1>6, <1>7, <1>8 DEF DInv

-----------------------------------------------------------------------------

LEMMA DInvInit == ASSUME Init PROVE DInv
<1>1. /\ AttachesCore /\ DebtKnown
      /\ \A a \in Actors : Pledge(pc[a], job[a]) /\ OnRoute(pc[a], job[a])
  BY DEF Init, AttachesCore, DebtKnown, Pledge, OnRoute, Actors
<1> QED
  BY <1>1, IInvInit DEF DInv

LEMMA DInvNext ==
  ASSUME NotBoth, DInv, [Next]_vars
  PROVE  DInv'
<1>1. IInv'
  BY IInvNext DEF DInv
<1>2. ASSUME NEW a \in Actors, RouteBody(a) \/ Reconcile(a)
      PROVE  DInv'
  BY <1>2, RouteBodyDebts, ReconcileDebts
<1>3. CASE SyncStage
  BY <1>1, <1>3, SyncStageDebts
<1>4. CASE \/ \E a \in Actors : Acquire(a) \/ Conflict(a) \/ Release(a)
           \/ \E a \in Operators, r \in Routes : Request(a, r)
           \/ Lapse \/ (\E S : Crash(S)) \/ UNCHANGED vars
  BY <1>1, <1>4, LockDebts
<1>5. ASSUME NEW a \in Operators, Place(a) \/ \E d \in Docs : Propose(a, d)
      PROVE  DInv'
  BY <1>1, <1>5, PlacementDebts
<1> QED
  BY <1>2, <1>3, <1>4, <1>5 DEF Next, OperatorStep, SyncStep, Actors, RouteBody

\* Customs pages that a delivered packet lacks are recorded as owed, whatever
\* request, sync, placement or fault comes between the documents and the packet,
\* unless forced merges and placements go on side by side.
THEOREM DebtsAreRecorded ==
  ASSUME NotBoth
  PROVE  Spec => []CustomsDebtRecorded
<1>1. DInv => CustomsDebtRecorded
  BY DEF DInv, DebtKnown, CustomsDebtRecorded, Holding, Bodies
<1>2. DInv /\ [Next]_vars => DInv'
  BY DInvNext
<1> QED
  BY <1>1, <1>2, DInvInit, PTL DEF Spec
=============================================================================
