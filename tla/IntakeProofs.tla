------------------------------ MODULE IntakeProofs ------------------------------
(***************************************************************************)
(* Proofs about Intake, for any files, names, arrivals, claims of the        *)
(* vision model, switches, faults and bounds.                                *)
(*                                                                           *)
(* NothingVanishes needs to know what lies where: a copy that is taken away  *)
(* is one of a content that is kept elsewhere, and what a split overwrites   *)
(* under a part's name is a part of the same split.  SplitIsComplete needs   *)
(* the progress of the cutter.  IInv adds both, and what the holder of the   *)
(* sync lock carries from one step to the next.                              *)
(*                                                                           *)
(* The lemmas that end in Steps say which steps can touch a group of         *)
(* variables at all; those that end in Kept show a part of IInv after a step.*)
(***************************************************************************)
EXTENDS Intake, FiniteSetTheorems, TLAPS

-----------------------------------------------------------------------------
(* The inductive invariant.                                                  *)

\* What lies where: people's files under the names they gave, parts under the names
\* of their split, and nothing but people's files in combined/.
PlacesInv ==
  /\ \A n \in Names : input[n] # None => input[n].body \in Files
  /\ \A n \in PartNames :
       input[n] # None => input[n].body \in Parts /\ input[n].body[1] = n[1]
  /\ \A n \in Places : parked[n] # None => parked[n].body \in Files

\* Rows: only a valid combined file is a completed split, a person's file keeps the
\* name it came with and has no parent, and a split was cut into its own parts.
RowsInv ==
  /\ \A c \in Contents : row[c] # None /\ row[c].split = "done" =>
       c \in Files /\ row[c].status = "valid"
  /\ \A f \in Files : row[f] # None => row[f].name \in Names /\ row[f].parent = None
  /\ \A f \in Files : \A p \in cut[f] : p[1] = f

\* What the holder of the lock carries.
JobInv ==
  /\ holder = "nobody" => job = Idle
  /\ \A pair \in job.todo : pair[2] \in Files => pair[1] \in Names
  /\ \A c \in job.reads : row[c] # None
  /\ job.at \in {"recording", "inserting"} =>
       job.doc \in Contents /\ job.name \in Places
       /\ (job.doc \in Files => job.name \in Names)
  /\ job.at \in {"copying", "removing", "reporting", "recopying", "marking"} =>
       job.doc \in Contents
  /\ At("delivering") => job.reads \subseteq stored

\* A split under way: the combined file is stored and not split yet, and the parts
\* that are numbered below the next one lie in the input folder.
Split == {"condemning", "cutting", "parking", "sweeping", "closing"}
SplitInv ==
  /\ job.at \in Split =>
       /\ job.doc \in Files /\ Kind[job.doc] = "combined" /\ job.doc \in stored
       /\ row[job.doc] # None /\ row[job.doc].split # "done"
  /\ job.at \in Split \ {"condemning"} =>
       /\ job.claim \in Claims /\ ~Refused(job.claim)
       /\ \A i \in Kept(job.claim) :
            (At("cutting") => Number(job.claim, i) < job.next) =>
               input[<<job.doc, Number(job.claim, i)>>] = Written(job.doc, job.claim, i)
  /\ At("cutting") => job.next \in 1..Cardinality(Kept(job.claim))

IInv == TypeOK /\ PlacesInv /\ RowsInv /\ JobInv /\ SplitInv
        /\ NothingVanishes /\ SplitIsComplete

-----------------------------------------------------------------------------
(* Constants, and the fields of what the holder carries and of a row.        *)

\* Names, contents and the assumptions about them, in the form the proofs use.
LEMMA Basics ==
  /\ Names \subseteq Places /\ PartNames \subseteq Places
  /\ Files \subseteq Contents /\ Parts \subseteq Contents /\ Uploads \subseteq Files
  /\ None \notin Contents /\ None \notin Copies /\ None \notin Rows
  /\ Pages \in Nat \ {0} /\ MaxDrops \in Nat /\ MaxFaults \in Nat
  /\ Contents = Files \cup Parts /\ Places = Names \cup PartNames
  /\ Files \cap Parts = {} /\ Names \cap PartNames = {}
BY IntakeAssumption DEF Places, Contents

\* The fields of a job.
LEMMA Fields ==
  ASSUME job \in Jobs
  PROVE  /\ job.at \in Stages /\ job.todo \in SUBSET (Places \X Contents)
         /\ job.found \in SUBSET (Places \X Contents) /\ job.reads \in SUBSET Contents
         /\ job.tried \in SUBSET Contents /\ job.failed \in SUBSET Contents
         /\ job.doc \in Contents \cup {None} /\ job.name \in Places \cup {None}
         /\ job.claim \in Claims \cup {None} /\ job.next \in 0..(Pages + 1)
         /\ job.back \in Stages /\ job.again \in BOOLEAN
BY DEF Jobs, Stages

-----------------------------------------------------------------------------
(* Claims: the parts that are kept are at most as many as there are pages, and *)
(* their numbers tell them apart.                                            *)

\* The parts kept of an accepted claim start on different pages.
LEMMA KeptParts ==
  ASSUME NEW claim \in Claims, ~Refused(claim)
  PROVE  /\ IsFiniteSet(Kept(claim))
         /\ Cardinality(Kept(claim)) \in 1..Pages
         /\ \A i \in Kept(claim) :
              /\ claim.parts[i].from \in 1..Pages
              /\ claim.parts[i].to \in 1..Pages
              /\ claim.parts[i].from <= claim.parts[i].to
<1>. DEFINE K == Kept(claim)
            start == [i \in K |-> claim.parts[i].from]
<1>1. claim.parts \in Seq(Components) BY IntakeAssumption
<1>2. ASSUME NEW i \in DOMAIN claim.parts
      PROVE  /\ claim.parts[i].from \in 1..Pages
             /\ claim.parts[i].to \in 1..Pages
             /\ claim.parts[i].from <= claim.parts[i].to
  <2>1. claim.parts[i] \in Components BY <1>1
  <2>2. ~Malformed(claim.parts[i]) BY DEF Refused
  <2>. QED BY <2>1, <2>2, IntakeAssumption DEF Malformed, Components
<1>3. K \subseteq DOMAIN claim.parts BY DEF Kept
<1>4. \A i, j \in K : i # j => start[i] # start[j]
  BY <1>2, <1>3 DEF Refused, Overlapping, PagesOf
<1>5. start \in Injection(K, 1..Pages)
  BY <1>2, <1>3, <1>4 DEF Injection, IsInjective
<1>6. IsFiniteSet(1..Pages) /\ Cardinality(1..Pages) = Pages
  BY FS_Interval, IntakeAssumption
<1>7. IsFiniteSet(K) /\ Cardinality(K) <= Pages
  BY <1>5, <1>6, FS_Injection
<1>8. Cardinality(K) \in Nat /\ Cardinality(K) # 0
  BY <1>7, FS_CardinalityType, FS_EmptySet DEF Refused
<1>. QED BY <1>2, <1>3, <1>7, <1>8, IntakeAssumption

\* The numbering of the kept parts is one to one.
LEMMA Numbers ==
  ASSUME NEW claim \in Claims, ~Refused(claim)
  PROVE  /\ \A i \in Kept(claim) : Number(claim, i) \in 1..Cardinality(Kept(claim))
         /\ \A i, j \in Kept(claim) : Number(claim, i) = Number(claim, j) => i = j
<1>. DEFINE K == Kept(claim)
            upto(i) == {j \in K : j <= i}
<1>1. IsFiniteSet(K) /\ K \subseteq Nat
  <2>1. claim.parts \in Seq(Components) BY IntakeAssumption
  <2>. QED BY <2>1, KeptParts DEF Kept
<1>2. ASSUME NEW i \in K
      PROVE  /\ IsFiniteSet(upto(i)) /\ Cardinality(upto(i)) \in Nat
             /\ Cardinality(upto(i)) <= Cardinality(K)
             /\ Cardinality(upto(i)) # 0
  <2>1. upto(i) \in SUBSET K /\ i \in upto(i) BY <1>1
  <2>. QED BY <2>1, <1>1, FS_Subset, FS_CardinalityType, FS_EmptySet
<1>3. ASSUME NEW i \in K, NEW j \in K, i < j
      PROVE  Cardinality(upto(i)) # Cardinality(upto(j))
  <2>1. upto(i) \in SUBSET upto(j) /\ j \in upto(j) /\ j \notin upto(i)
    BY <1>1, <1>3
  <2>. QED BY <2>1, <1>2, FS_Subset
<1>4. Cardinality(K) \in Nat BY <1>1, FS_CardinalityType
<1>5. \A i \in K : Number(claim, i) = Cardinality(upto(i)) BY DEF Number
<1>. HIDE DEF upto
<1>. QED BY <1>1, <1>2, <1>3, <1>4, <1>5

\* What the cutter writes, and the name it writes it under.
LEMMA WrittenPart ==
  ASSUME NEW claim \in Claims, ~Refused(claim), NEW f \in Files, Kind[f] = "combined",
         NEW i \in Kept(claim)
  PROVE  /\ PartOf(f, claim, i) \in Parts /\ PartOf(f, claim, i)[1] = f
         /\ Written(f, claim, i) \in Copies
         /\ Number(claim, i) \in 1..Pages /\ <<f, Number(claim, i)>> \in PartNames
<1>1. PartOf(f, claim, i) \in Parts /\ PartOf(f, claim, i)[1] = f
  BY KeptParts DEF Parts, PartOf
<1>2. Number(claim, i) \in 1..Pages BY KeptParts, Numbers, Basics
<1>. QED BY <1>1, <1>2, Basics DEF Written, Copies, PartNames

-----------------------------------------------------------------------------
(* The steps.                                                                *)

\* The jobs that steps start from.
LEMMA IdleJob == Idle \in Jobs
BY Basics DEF Idle, Jobs, Stages

\* A job stays one when its document is done with.
LEMMA FreedJob ==
  ASSUME job \in Jobs, NEW stage \in Stages
  PROVE  /\ Freed(stage) \in Jobs /\ Freed(stage).at = stage
         /\ Freed(stage).todo = job.todo /\ Freed(stage).found = job.found
         /\ Freed(stage).reads = job.reads /\ Freed(stage).tried = job.tried
         /\ Freed(stage).failed = job.failed
<1>1. 0 \in 0..(Pages + 1) BY Basics
<1>. QED BY <1>1 DEF Freed, Jobs

\* A job stays one when a file is off its list.
LEMMA DoneJob ==
  ASSUME job \in Jobs, NEW n \in Places, NEW c \in Contents
  PROVE  Done(n, c) \in Jobs
BY DEF Done, Jobs

\* A job stays one when a document has been read.
LEMMA TriedJob ==
  ASSUME job \in Jobs, NEW c \in Contents
  PROVE  Tried(c) \in Jobs
BY DEF Tried, Jobs

\* The fields of a row that lead to files.
LEMMA RowFields ==
  ASSUME NEW c \in Contents, row \in [Contents -> Rows \cup {None}], row[c] # None
  PROVE  row[c].name \in Places /\ row[c].parent \in Files \cup {None}
BY DEF Rows

\* Nobody carries anything.
LEMMA IdleFields ==
  /\ Idle.at = "idle" /\ Idle.todo = {} /\ Idle.found = {} /\ Idle.reads = {}
  /\ Idle.tried = {} /\ Idle.failed = {} /\ Idle.back = "idle"
BY DEF Idle

\* Next, with the pairs of the lists taken apart.
LEMMA Steps ==
  ASSUME TypeOK, Next
  PROVE  \/ SyncStart \/ List \/ RejectRecord \/ InsertNew \/ IngestEnd \/ Condemn \/ Cut \/ Park
         \/ Sweep \/ Close \/ SplitFails \/ ReadEnd \/ Recover \/ TidyEnd \/ Deliver
         \/ Group \/ Merge \/ SyncEnd \/ QuarantineCopy
         \/ QuarantineRemove \/ QuarantineReport \/ Recopy \/ MarkAside \/ Crash
         \/ \E n \in Places, c \in Contents : <<n, c>> \in job.todo /\
              (Leave(n, c) \/ RejectMove(n, c) \/ IngestKnown(n, c) \/ StoreNew(n, c))
         \/ \E n \in Places, c \in Contents : <<n, c>> \in job.found /\ ClearResent(n, c)
         \/ \E c \in Contents : c \in job.reads /\
              (ReadNothing(c) \/ ReadSingle(c) \/ ReadBroken(c) \/ ReadRecombined(c)
               \/ ReadUnsplit(c) \/ \E claim \in Claims : Clear(c, claim))
         \/ \E c \in Contents : Quarantine(c) \/ Lose(c) \/ SetAside(c)
         \/ \E f \in Files, n \in Names : Drop(f, n)
         \/ \E n \in Names : Finish(n)
         \/ \E c \in Uploads : UploadBegin(c) \/ UploadLook(c) \/ UploadAdd(c)
<1>1. /\ job.todo \subseteq Places \X Contents /\ job.found \subseteq Places \X Contents
      /\ job.reads \subseteq Contents /\ job.failed \subseteq Contents
  BY DEF TypeOK, Jobs
<1>2. ASSUME NEW file \in job.todo \cup job.found
      PROVE  file[1] \in Places /\ file[2] \in Contents /\ file = <<file[1], file[2]>>
  BY <1>1
<1>3. CASE Scan BY <1>1, <1>2, <1>3 DEF Scan
<1>4. CASE Read BY <1>1, <1>4 DEF Read
<1>5. CASE Tidy BY <1>1, <1>2, <1>5 DEF Tidy
<1>6. CASE Take BY <1>6 DEF Take
<1>7. CASE Upload BY <1>7 DEF Upload
<1>8. CASE People BY <1>8 DEF People
<1>. QED BY <1>3, <1>4, <1>5, <1>6, <1>7, <1>8 DEF Next

\* The steps of the holder of the lock.
LEMMA JobSteps ==
  ASSUME TypeOK, Next
  PROVE  \/ UNCHANGED job
         \/ SyncStart \/ List \/ RejectRecord \/ InsertNew \/ IngestEnd \/ Condemn \/ Cut
         \/ Park \/ Sweep \/ Close \/ SplitFails \/ ReadEnd \/ Recover \/ TidyEnd \/ Deliver
         \/ Merge \/ SyncEnd \/ QuarantineCopy \/ QuarantineRemove \/ QuarantineReport
         \/ Recopy \/ MarkAside \/ Crash
         \/ \E n \in Places, c \in Contents :
           <<n, c>> \in job.todo /\ (Leave(n, c) \/ RejectMove(n, c)
                                     \/ IngestKnown(n, c) \/ StoreNew(n, c))
         \/ \E n \in Places, c \in Contents :
           <<n, c>> \in job.found /\ ClearResent(n, c)
         \/ \E c \in Contents :
           c \in job.reads /\ (ReadNothing(c) \/ ReadSingle(c) \/ ReadBroken(c)
                               \/ ReadRecombined(c) \/ ReadUnsplit(c))
         \/ \E c \in Contents, claim \in Claims :
           c \in job.reads /\ Clear(c, claim)
         \/ \E c \in Contents : Quarantine(c) \/ SetAside(c)
<1>. USE DEF folders, history, budget
<1>1. CASE Group
  BY <1>1 DEF Group
<1>2. ASSUME NEW c \in Contents, Lose(c)
      PROVE  UNCHANGED job
  BY <1>2 DEF Lose
<1>3. ASSUME NEW c \in Files, NEW n \in Names, Drop(c, n)
      PROVE  UNCHANGED job
  BY <1>3 DEF Drop
<1>4. ASSUME NEW n \in Names, Finish(n)
      PROVE  UNCHANGED job
  BY <1>4 DEF Finish
<1>5. ASSUME NEW c \in Uploads,
             UploadBegin(c) \/ UploadLook(c) \/ UploadAdd(c)
      PROVE  UNCHANGED job
  BY <1>5 DEF UploadBegin, UploadLook, UploadAdd
<1>. QED BY <1>1, <1>2, <1>3, <1>4, <1>5, Steps

\* The steps that write rows, or record a split.
LEMMA RowSteps ==
  ASSUME TypeOK, Next
  PROVE  \/ UNCHANGED <<row, cut>>
         \/ RejectRecord \/ InsertNew \/ Condemn \/ Close \/ Group \/ Merge \/ MarkAside
         \/ \E c \in Contents :
           c \in job.reads /\ (ReadSingle(c) \/ ReadBroken(c) \/ ReadRecombined(c)
                               \/ ReadUnsplit(c))
         \/ \E c \in Uploads : UploadLook(c) \/ UploadAdd(c)
<1>. USE DEF folders, history, budget
<1>1. CASE SyncStart \/ List \/ IngestEnd \/ Cut \/ Park \/ Sweep \/ SplitFails
          \/ ReadEnd \/ Recover \/ TidyEnd \/ Deliver \/ SyncEnd \/ QuarantineCopy
          \/ QuarantineRemove \/ QuarantineReport \/ Recopy \/ Crash
  BY <1>1 DEF SyncStart, List, IngestEnd, Cut, Park, Sweep, SplitFails, ReadEnd,
           Recover, TidyEnd, Deliver, SyncEnd, QuarantineCopy, QuarantineRemove,
           QuarantineReport, Recopy, Crash
<1>2. ASSUME NEW n \in Places, NEW c \in Contents, <<n, c>> \in job.todo,
             Leave(n, c) \/ RejectMove(n, c) \/ IngestKnown(n, c) \/ StoreNew(n, c)
      PROVE  UNCHANGED <<row, cut>>
  BY <1>2 DEF Leave, RejectMove, IngestKnown, StoreNew
<1>3. ASSUME NEW n \in Places, NEW c \in Contents, <<n, c>> \in job.found,
             ClearResent(n, c)
      PROVE  UNCHANGED <<row, cut>>
  BY <1>3 DEF ClearResent
<1>4. ASSUME NEW c \in Contents, c \in job.reads, ReadNothing(c)
      PROVE  UNCHANGED <<row, cut>>
  BY <1>4 DEF ReadNothing
<1>5. ASSUME NEW c \in Contents, NEW claim \in Claims, c \in job.reads,
             Clear(c, claim)
      PROVE  UNCHANGED <<row, cut>>
  BY <1>5 DEF Clear
<1>6. ASSUME NEW c \in Contents, Quarantine(c) \/ Lose(c) \/ SetAside(c)
      PROVE  UNCHANGED <<row, cut>>
  BY <1>6 DEF Quarantine, Lose, SetAside
<1>7. ASSUME NEW c \in Files, NEW n \in Names, Drop(c, n)
      PROVE  UNCHANGED <<row, cut>>
  BY <1>7 DEF Drop
<1>8. ASSUME NEW n \in Names, Finish(n)
      PROVE  UNCHANGED <<row, cut>>
  BY <1>8 DEF Finish
<1>9. ASSUME NEW c \in Uploads, UploadBegin(c)
      PROVE  UNCHANGED <<row, cut>>
  BY <1>9 DEF UploadBegin
<1>. QED BY <1>1, <1>2, <1>3, <1>4, <1>5, <1>6, <1>7, <1>8, <1>9, Steps

\* The steps that write in the input folder, or in combined/.
LEMMA InputSteps ==
  ASSUME TypeOK, Next
  PROVE  \/ UNCHANGED <<input, parked>>
         \/ Cut \/ Park \/ Sweep \/ Deliver \/ QuarantineRemove \/ Recopy
         \/ \E n \in Places, c \in Contents :
           <<n, c>> \in job.todo /\ RejectMove(n, c)
         \/ \E n \in Places, c \in Contents :
           <<n, c>> \in job.found /\ ClearResent(n, c)
         \/ \E c \in Contents, claim \in Claims :
           c \in job.reads /\ Clear(c, claim)
         \/ \E c \in Files, n \in Names : Drop(c, n)
         \/ \E n \in Names : Finish(n)
<1>. USE DEF folders, history, budget
<1>1. CASE SyncStart \/ List \/ RejectRecord \/ InsertNew \/ IngestEnd \/ Condemn
          \/ Close \/ SplitFails \/ ReadEnd \/ Recover \/ TidyEnd \/ Group \/ Merge
          \/ SyncEnd \/ QuarantineCopy \/ QuarantineReport \/ MarkAside \/ Crash
  BY <1>1 DEF SyncStart, List, RejectRecord, InsertNew, IngestEnd, Condemn, Close,
           SplitFails, ReadEnd, Recover, TidyEnd, Group, Merge, SyncEnd,
           QuarantineCopy, QuarantineReport, MarkAside, Crash
<1>2. ASSUME NEW n \in Places, NEW c \in Contents, <<n, c>> \in job.todo,
             Leave(n, c) \/ IngestKnown(n, c) \/ StoreNew(n, c)
      PROVE  UNCHANGED <<input, parked>>
  BY <1>2 DEF Leave, IngestKnown, StoreNew
<1>3. ASSUME NEW c \in Contents, c \in job.reads,
             ReadNothing(c) \/ ReadSingle(c) \/ ReadBroken(c) \/ ReadRecombined(c)
             \/ ReadUnsplit(c)
      PROVE  UNCHANGED <<input, parked>>
  BY <1>3 DEF ReadNothing, ReadSingle, ReadBroken, ReadRecombined, ReadUnsplit
<1>4. ASSUME NEW c \in Contents, Quarantine(c) \/ Lose(c) \/ SetAside(c)
      PROVE  UNCHANGED <<input, parked>>
  BY <1>4 DEF Quarantine, Lose, SetAside
<1>5. ASSUME NEW c \in Uploads,
             UploadBegin(c) \/ UploadLook(c) \/ UploadAdd(c)
      PROVE  UNCHANGED <<input, parked>>
  BY <1>5 DEF UploadBegin, UploadLook, UploadAdd
<1>. QED BY <1>1, <1>2, <1>3, <1>4, <1>5, Steps

\* The steps that write history.
LEMMA HistorySteps ==
  ASSUME TypeOK, Next
  PROVE  \/ UNCHANGED history
         \/ Park \/ Close
         \/ \E c \in Contents : Lose(c)
         \/ \E n \in Names : Finish(n)
<1>. USE DEF folders, history, budget
<1>1. CASE SyncStart \/ List \/ RejectRecord \/ InsertNew \/ IngestEnd \/ Condemn
          \/ Cut \/ Sweep \/ SplitFails \/ ReadEnd \/ Recover \/ TidyEnd \/ Deliver
          \/ Group \/ Merge \/ SyncEnd \/ QuarantineCopy \/ QuarantineRemove
          \/ QuarantineReport \/ Recopy \/ MarkAside \/ Crash
  BY <1>1 DEF SyncStart, List, RejectRecord, InsertNew, IngestEnd, Condemn, Cut, Sweep,
           SplitFails, ReadEnd, Recover, TidyEnd, Deliver, Group, Merge, SyncEnd,
           QuarantineCopy, QuarantineRemove, QuarantineReport, Recopy, MarkAside,
           Crash
<1>2. ASSUME NEW n \in Places, NEW c \in Contents, <<n, c>> \in job.todo,
             Leave(n, c) \/ RejectMove(n, c) \/ IngestKnown(n, c) \/ StoreNew(n, c)
      PROVE  UNCHANGED history
  BY <1>2 DEF Leave, RejectMove, IngestKnown, StoreNew
<1>3. ASSUME NEW n \in Places, NEW c \in Contents, <<n, c>> \in job.found,
             ClearResent(n, c)
      PROVE  UNCHANGED history
  BY <1>3 DEF ClearResent
<1>4. ASSUME NEW c \in Contents, c \in job.reads,
             ReadNothing(c) \/ ReadSingle(c) \/ ReadBroken(c) \/ ReadRecombined(c)
             \/ ReadUnsplit(c)
      PROVE  UNCHANGED history
  BY <1>4 DEF ReadNothing, ReadSingle, ReadBroken, ReadRecombined, ReadUnsplit
<1>5. ASSUME NEW c \in Contents, NEW claim \in Claims, c \in job.reads,
             Clear(c, claim)
      PROVE  UNCHANGED history
  BY <1>5 DEF Clear
<1>6. ASSUME NEW c \in Contents, Quarantine(c) \/ SetAside(c)
      PROVE  UNCHANGED history
  BY <1>6 DEF Quarantine, SetAside
<1>7. ASSUME NEW c \in Files, NEW n \in Names, Drop(c, n)
      PROVE  UNCHANGED history
  BY <1>7 DEF Drop
<1>8. ASSUME NEW c \in Uploads,
             UploadBegin(c) \/ UploadLook(c) \/ UploadAdd(c)
      PROVE  UNCHANGED history
  BY <1>8 DEF UploadBegin, UploadLook, UploadAdd
<1>. QED BY <1>1, <1>2, <1>3, <1>4, <1>5, <1>6, <1>7, <1>8, Steps

\* cut changes when a split is closed; only the end of a copy makes a file arrive, and
\* takes it off the lost ones.
LEMMA HistoryGrows ==
  ASSUME IInv, [Next]_vars
  PROVE  /\ cut' = cut \/ Close
         /\ (arrived' = arrived /\ lost \subseteq lost') \/ \E n \in Names : Finish(n)
<1>1. CASE UNCHANGED vars BY <1>1 DEF vars, history
<1>2. CASE Next
  BY <1>2, HistorySteps DEF IInv, Finish, Lose, Park, Close, history
<1>. QED BY <1>1, <1>2

\* The holder of the lock always knows where it is and what it carries.
LEMMA JobKept ==
  ASSUME IInv, [Next]_vars
  PROVE  job' \in Jobs
<1>. USE DEF IInv, At, Goto, Fault
<1>1. CASE UNCHANGED job
  BY <1>1 DEF TypeOK
<1>2. CASE SyncStart
  BY <1>2 DEF SyncStart, Jobs, Stages, TypeOK
<1>3. CASE List
  <2>. DEFINE list == {<<n, input[n].body>> : n \in Present}
  <2>1. list \in SUBSET (Places \X Contents)
    BY DEF TypeOK, Copies, Present
  <2>2. job \in Jobs /\ job' = [job EXCEPT !.at = "ingesting", !.todo = list]
    BY <1>3 DEF List, TypeOK
  <2>. HIDE DEF list
  <2>. QED BY <2>1, <2>2 DEF Jobs, Stages
<1>4. CASE RejectRecord
  BY <1>4, FreedJob DEF RejectRecord, Stages, TypeOK
<1>5. CASE InsertNew
  <2>1. job \in Jobs /\ job.doc \in Contents /\ job.name \in Places
    BY <1>5 DEF InsertNew, Freed, TypeOK, JobInv
  <2>2. \/ job' = Freed("ingesting")
        \/ job' = [Freed("ingesting") EXCEPT !.found = @ \cup {<<job.name, job.doc>>},
                                             !.reads = @ \cup {job.doc}]
    BY <1>5 DEF InsertNew
  <2>3. Freed("ingesting") \in Jobs
    BY <2>1, FreedJob DEF Stages
  <2>. DEFINE this == {<<job.name, job.doc>>}
  <2>4. this \in SUBSET (Places \X Contents) BY <2>1
  <2>. HIDE DEF this
  <2>5. [Freed("ingesting") EXCEPT !.found = @ \cup this,
                                   !.reads = @ \cup {job.doc}] \in Jobs
    BY <2>1, <2>3, <2>4 DEF Jobs
  <2>. QED BY <2>2, <2>3, <2>5 DEF this
<1>6. CASE IngestEnd
  BY <1>6 DEF IngestEnd, Jobs, Stages, TypeOK
<1>7. CASE Condemn
  <2>1. job \in Jobs /\ job.doc \in Contents
    BY <1>7, Basics DEF Condemn, TypeOK, SplitInv, Split
  <2>2. job' = [job EXCEPT !.at = "copying", !.back = "reading",
                             !.failed = @ \cup {job.doc}]
    BY <1>7 DEF Condemn
  <2>. QED BY <2>1, <2>2 DEF Jobs, Stages
<1>8. CASE Cut
  <2>1. job \in Jobs /\ job.next + 1 \in 0..(Pages + 1)
    BY <1>8, Basics, KeptParts DEF Cut, TypeOK, SplitInv, Split
  <2>2. job' = [job EXCEPT !.next = @ + 1, !.at =
                  IF job.next = Cardinality(Kept(job.claim)) THEN "parking" ELSE @]
    BY <1>8 DEF Cut
  <2>. QED BY <2>1, <2>2 DEF Jobs, Stages
<1>9. CASE Park
  BY <1>9 DEF Park, Jobs, Stages, TypeOK
<1>10. CASE Sweep
  BY <1>10 DEF Sweep, Jobs, Stages, TypeOK
<1>11. CASE Close
  BY <1>11, FreedJob DEF Close, Stages, TypeOK
<1>12. CASE SplitFails
  BY <1>12, FreedJob DEF SplitFails, Stages, TypeOK
<1>13. CASE ReadEnd
  BY <1>13 DEF ReadEnd, Jobs, Stages, TypeOK
<1>14. CASE Recover
  <2>. DEFINE pending == {c \in Contents : row[c] # None /\ row[c].status = "pending"} \ job.tried
  <2>1. job \in Jobs /\ pending \in SUBSET Contents
    BY DEF TypeOK
  <2>2. job' = [job EXCEPT !.at = "reading", !.again = TRUE, !.reads = pending]
    BY <1>14 DEF Recover
  <2>. HIDE DEF pending
  <2>. QED BY <2>1, <2>2 DEF Jobs, Stages
<1>15. CASE TidyEnd
  BY <1>15, IdleJob DEF TidyEnd, Jobs, Stages, TypeOK
<1>16. CASE Deliver
  BY <1>16 DEF Deliver, Jobs, Stages, TypeOK
<1>17. CASE Merge
  <2>1. job \in Jobs /\ Members \in SUBSET Contents
    BY <1>17, Basics DEF TypeOK, Members
  <2>2. job' = [job EXCEPT !.at = "delivering", !.reads = Members]
    BY <1>17 DEF Merge
  <2>. QED BY <2>1, <2>2 DEF Jobs, Stages
<1>18. CASE SyncEnd
  BY <1>18, IdleJob DEF SyncEnd
<1>19. CASE QuarantineCopy
  BY <1>19 DEF QuarantineCopy, Jobs, Stages, TypeOK
<1>20. CASE QuarantineRemove
  BY <1>20 DEF QuarantineRemove, Jobs, Stages, TypeOK
<1>21. CASE QuarantineReport
  BY <1>21, Fields, IdleJob, FreedJob DEF QuarantineReport, Back, Jobs, TypeOK
<1>22. CASE Recopy
  BY <1>22, Basics, Fields, IdleJob DEF Recopy, Jobs, Stages, TypeOK
<1>23. CASE MarkAside
  BY <1>23, IdleJob DEF MarkAside
<1>24. CASE Crash
  BY <1>24, IdleJob DEF Crash
<1>25. ASSUME NEW n \in Places, NEW c \in Contents, <<n, c>> \in job.todo,
             Leave(n, c)
      PROVE  job' \in Jobs
  BY <1>25, DoneJob DEF Leave, TypeOK
<1>26. ASSUME NEW n \in Places, NEW c \in Contents, <<n, c>> \in job.todo,
             RejectMove(n, c)
      PROVE  job' \in Jobs
  <2>1. Done(n, c) \in Jobs
    BY <1>26, DoneJob DEF TypeOK
  <2>2. \/ job' = Done(n, c)
        \/ job' = [Done(n, c) EXCEPT !.at = "recording", !.doc = c, !.name = n]
    BY <1>26 DEF RejectMove
  <2>3. [Done(n, c) EXCEPT !.at = "recording", !.doc = c, !.name = n] \in Jobs
    BY <2>1 DEF Jobs, Stages
  <2>. QED BY <2>1, <2>2, <2>3
<1>27. ASSUME NEW n \in Places, NEW c \in Contents, <<n, c>> \in job.todo,
             IngestKnown(n, c)
      PROVE  job' \in Jobs
  <2>. DEFINE this == {<<n, c>>}
              fresh == IF AlreadyRead(c) THEN {} ELSE {c}
  <2>1. Done(n, c) \in Jobs /\ this \in SUBSET (Places \X Contents)
        /\ fresh \in SUBSET Contents
    BY <1>27, DoneJob DEF TypeOK
  <2>2. job' = [Done(n, c) EXCEPT !.found = @ \cup this, !.reads = @ \cup fresh]
    BY <1>27 DEF IngestKnown
  <2>. HIDE DEF this, fresh
  <2>. QED BY <2>1, <2>2 DEF Jobs, Stages
<1>28. ASSUME NEW n \in Places, NEW c \in Contents, <<n, c>> \in job.todo,
             StoreNew(n, c)
      PROVE  job' \in Jobs
  <2>1. Done(n, c) \in Jobs
    BY <1>28, Basics, DoneJob DEF TypeOK
  <2>2. job' = [Done(n, c) EXCEPT !.at = "inserting", !.doc = c, !.name = n]
    BY <1>28 DEF StoreNew
  <2>. QED BY <2>1, <2>2 DEF Jobs, Stages
<1>29. ASSUME NEW n \in Places, NEW c \in Contents, <<n, c>> \in job.found,
             ClearResent(n, c)
      PROVE  job' \in Jobs
  BY <1>29 DEF ClearResent, Jobs, Stages, TypeOK
<1>30. ASSUME NEW c \in Contents, c \in job.reads, ReadNothing(c)
      PROVE  job' \in Jobs
  BY <1>30, TriedJob DEF ReadNothing, TypeOK
<1>31. ASSUME NEW c \in Contents, c \in job.reads, ReadSingle(c)
      PROVE  job' \in Jobs
  BY <1>31, TriedJob DEF ReadSingle, TypeOK
<1>32. ASSUME NEW c \in Contents, c \in job.reads, ReadBroken(c)
      PROVE  job' \in Jobs
  <2>1. Tried(c) \in Jobs
    BY <1>32, Basics, TriedJob DEF TypeOK
  <2>2. job' = [Tried(c) EXCEPT !.failed = @ \cup {c}]
    BY <1>32 DEF ReadBroken
  <2>. QED BY <2>1, <2>2 DEF Jobs, Stages
<1>33. ASSUME NEW c \in Contents, c \in job.reads, ReadRecombined(c)
      PROVE  job' \in Jobs
  <2>1. Tried(c) \in Jobs /\ row[c].parent \in Contents \cup {None}
    BY <1>33, Basics, TriedJob, RowFields DEF TypeOK, JobInv
  <2>2. job' = [Tried(c) EXCEPT !.failed = @ \cup {c}, !.at = "copying",
                                  !.doc = row[c].parent, !.back = "reading"]
    BY <1>33 DEF ReadRecombined
  <2>. QED BY <2>1, <2>2 DEF Jobs, Stages
<1>34. ASSUME NEW c \in Contents, c \in job.reads, ReadUnsplit(c)
      PROVE  job' \in Jobs
  <2>1. Tried(c) \in Jobs
    BY <1>34, Basics, TriedJob DEF TypeOK
  <2>2. job' = [Tried(c) EXCEPT !.at = "copying", !.doc = c, !.back = "reading"]
    BY <1>34 DEF ReadUnsplit
  <2>. QED BY <2>1, <2>2 DEF Jobs, Stages
<1>35. ASSUME NEW c \in Contents, NEW claim \in Claims, c \in job.reads,
             Clear(c, claim)
      PROVE  job' \in Jobs
  <2>1. Tried(c) \in Jobs /\ 1 \in 0..(Pages + 1)
    BY <1>35, Basics, TriedJob DEF TypeOK
  <2>2. job' = [Tried(c) EXCEPT !.doc = c, !.claim = claim, !.next = 1,
                    !.at = IF Refused(claim) THEN "condemning" ELSE "cutting"]
    BY <1>35 DEF Clear
  <2>. QED BY <2>1, <2>2 DEF Jobs, Stages
<1>36. ASSUME NEW c \in Contents, Quarantine(c)
      PROVE  job' \in Jobs
  <2>1. job \in Jobs
    BY <1>36, Basics DEF TypeOK
  <2>2. job' = [job EXCEPT !.at = "copying", !.doc = c, !.back = "tidying",
                             !.failed = @ \ {c}]
    BY <1>36 DEF Quarantine
  <2>. QED BY <2>1, <2>2 DEF Jobs, Stages
<1>37. ASSUME NEW c \in Contents, SetAside(c)
      PROVE  job' \in Jobs
  <2>1. Idle \in Jobs
    BY <1>37, Basics, IdleJob DEF TypeOK
  <2>2. job' = [Idle EXCEPT !.doc = c, !.back = "marking",
             !.at = IF c \in reported \/ row[c].rejected THEN "recopying" ELSE "copying"]
    BY <1>37 DEF SetAside
  <2>. QED BY <2>1, <2>2 DEF Jobs, Stages
<1>. QED
  <2>1. CASE UNCHANGED vars
    BY <2>1, <1>1 DEF vars, folders, history, budget
  <2>2. CASE Next
    BY <2>2, <1>1, <1>2, <1>3, <1>4, <1>5, <1>6, <1>7, <1>8, <1>9, <1>10, <1>11, <1>12,
       <1>13, <1>14, <1>15, <1>16, <1>17, <1>18, <1>19, <1>20, <1>21, <1>22, <1>23,
       <1>24, <1>25, <1>26, <1>27, <1>28, <1>29, <1>30, <1>31, <1>32, <1>33, <1>34,
       <1>35, <1>36, <1>37, JobSteps
  <2>. QED BY <2>1, <2>2

\* A row is written whole or field by field.
LEMMA RowKept ==
  ASSUME IInv, [Next]_vars
  PROVE  row' \in [Contents -> Rows \cup {None}]
<1>. DEFINE Goal == row' \in [Contents -> Rows \cup {None}]
<1>. SUFFICES Goal OBVIOUS
<1>. USE DEF IInv, At, Goto, Fault
<1>1. CASE UNCHANGED <<row, cut>>
  BY <1>1 DEF TypeOK
<1>2. CASE RejectRecord
  <2>1. job.doc \in Contents /\ job.name \in Places
    BY <1>2 DEF RejectRecord, Freed, JobInv
  <2>. DEFINE new == [status |-> "failed", split |-> "no", name |-> job.name,
                      parent |-> None, rejected |-> TRUE, set |-> "none"]
  <2>2. new \in Rows BY <2>1 DEF Rows
  <2>3. row' = row \/ row' = [row EXCEPT ![job.doc] = new] BY <1>2 DEF RejectRecord
  <2>. HIDE DEF new
  <2>. QED BY <2>1, <2>2, <2>3 DEF TypeOK
<1>3. CASE InsertNew
  <2>1. job.doc \in Contents /\ job.name \in Places
        /\ ParentOf(job.name) \in Files \cup {None}
    BY <1>3, Basics DEF InsertNew, Freed, JobInv, ParentOf, PartNames
  <2>. DEFINE new == [status |-> "pending", split |-> "no", name |-> job.name,
                      parent |-> ParentOf(job.name), rejected |-> FALSE, set |-> "none"]
  <2>2. new \in Rows BY <2>1 DEF Rows
  <2>3. row' = row \/ row' = [row EXCEPT ![job.doc] = new] BY <1>3 DEF InsertNew
  <2>. HIDE DEF new
  <2>. QED BY <2>1, <2>2, <2>3 DEF TypeOK
<1>4. CASE Condemn
  <2>1. /\ row \in [Contents -> Rows \cup {None}]
        /\ job.doc \in Contents /\ row[job.doc] \in Rows
    BY <1>4, Basics DEF Condemn, TypeOK, SplitInv, Split
  <2>. QED BY <2>1, <1>4 DEF Condemn, Rows
<1>5. CASE Close
  <2>1. /\ row \in [Contents -> Rows \cup {None}]
        /\ job.doc \in Contents /\ row[job.doc] \in Rows
    BY <1>5, Basics DEF Close, Freed, TypeOK, SplitInv, Split
  <2>. QED BY <2>1, <1>5 DEF Close, Freed, Rows
<1>6. CASE Group
  <2>1. row \in [Contents -> Rows \cup {None}]
    BY DEF TypeOK
  <2>2. \A c \in Contents : c \in Placeable => row[c] \in Rows
    BY <2>1 DEF Placeable
  <2>3. ASSUME NEW c \in Contents PROVE row'[c] \in Rows \cup {None}
    <3>1. CASE c \in Placeable BY <3>1, <2>2, <1>6 DEF Group, Rows
    <3>2. CASE c \notin Placeable BY <3>2, <2>1, <1>6 DEF Group
    <3>. QED BY <3>1, <3>2
  <2>4. row' = [c \in Contents |-> row'[c]] BY <1>6 DEF Group
  <2>. QED BY <2>3, <2>4
<1>7. CASE Merge
  <2>1. row \in [Contents -> Rows \cup {None}]
    BY DEF TypeOK
  <2>2. \A c \in Contents : c \in Members => row[c] \in Rows
    BY <2>1 DEF Members
  <2>3. ASSUME NEW c \in Contents PROVE row'[c] \in Rows \cup {None}
    <3>1. CASE c \in Members BY <3>1, <2>2, <1>7 DEF Merge, Rows
    <3>2. CASE c \notin Members BY <3>2, <2>1, <1>7 DEF Merge
    <3>. QED BY <3>1, <3>2
  <2>4. row' = [c \in Contents |-> row'[c]] BY <1>7 DEF Merge
  <2>. QED BY <2>3, <2>4
<1>8. CASE MarkAside
  BY <1>8, Basics DEF MarkAside, TypeOK
<1>9. ASSUME NEW c \in Contents, c \in job.reads, ReadSingle(c)
      PROVE  Goal
  <2>1. row \in [Contents -> Rows \cup {None}] /\ row[c] \in Rows
    BY <1>9 DEF TypeOK, JobInv
  <2>. QED BY <2>1, <1>9 DEF ReadSingle, Rows
<1>10. ASSUME NEW c \in Contents, c \in job.reads, ReadBroken(c)
      PROVE  Goal
  <2>1. row \in [Contents -> Rows \cup {None}] /\ row[c] \in Rows
    BY <1>10 DEF TypeOK, JobInv
  <2>. QED BY <2>1, <1>10 DEF ReadBroken, Rows
<1>11. ASSUME NEW c \in Contents, c \in job.reads, ReadRecombined(c)
      PROVE  Goal
  <2>1. row \in [Contents -> Rows \cup {None}] /\ row[c] \in Rows
    BY <1>11 DEF TypeOK, JobInv
  <2>. QED BY <2>1, <1>11 DEF ReadRecombined, Rows
<1>12. ASSUME NEW c \in Contents, c \in job.reads, ReadUnsplit(c)
      PROVE  Goal
  <2>1. row \in [Contents -> Rows \cup {None}] /\ row[c] \in Rows
    BY <1>12 DEF TypeOK, JobInv
  <2>. QED BY <2>1, <1>12 DEF ReadUnsplit, Rows
<1>13. ASSUME NEW c \in Uploads, UploadLook(c)
      PROVE  Goal
  BY <1>13, Basics DEF UploadLook, Rows, TypeOK
<1>14. ASSUME NEW c \in Uploads, UploadAdd(c)
      PROVE  Goal
  <2>. DEFINE new(n) == [status |-> "valid", split |-> "no", name |-> n,
                         parent |-> None, rejected |-> FALSE, set |-> "open"]
  <2>1. \A n \in Names : new(n) \in Rows BY Basics DEF Rows
  <2>2. row' = row \/ \E n \in Names : row' = [row EXCEPT ![c] = new(n)] BY <1>14 DEF UploadAdd
  <2>. HIDE DEF new
  <2>. QED BY <2>1, <2>2, Basics DEF TypeOK
<1>. HIDE DEF Goal
<1>. QED
  <2>1. CASE UNCHANGED vars
    BY <2>1, <1>1 DEF vars, folders, history, budget
  <2>2. CASE Next
    BY <2>2, <1>1, <1>2, <1>3, <1>4, <1>5, <1>6, <1>7, <1>8, <1>9, <1>10, <1>11, <1>12,
       <1>13, <1>14, RowSteps
  <2>. QED BY <2>1, <2>2

\* Files are put in the input folder whole, and taken out whole.
LEMMA InputKept ==
  ASSUME IInv, [Next]_vars
  PROVE  input' \in [Places -> Copies \cup {None}]
<1>. DEFINE Goal == input' \in [Places -> Copies \cup {None}]
<1>. SUFFICES Goal OBVIOUS
<1>. USE DEF IInv, At, Goto, Fault
<1>1. CASE UNCHANGED <<input, parked>>
  BY <1>1 DEF TypeOK
<1>2. CASE Cut
  <2>1. PICK i \in Kept(job.claim) :
          input' = [input EXCEPT ![<<job.doc, job.next>>] = Written(job.doc, job.claim, i)]
    BY <1>2 DEF Cut
  <2>2. Written(job.doc, job.claim, i) \in Copies
    BY <1>2, <2>1, WrittenPart DEF Cut, SplitInv, Split
  <2>. QED BY <2>1, <2>2 DEF TypeOK
<1>3. CASE Park
  BY <1>3, Basics DEF Park, Without, Copies, TypeOK
<1>4. CASE Sweep
  BY <1>4, Basics DEF Sweep, Without, Copies, TypeOK
<1>5. CASE Deliver
  BY <1>5, Basics DEF Deliver, Without, Copies, TypeOK
<1>6. CASE QuarantineRemove
  BY <1>6, Basics DEF QuarantineRemove, Without, Copies, TypeOK
<1>7. CASE Recopy
  BY <1>7, Basics DEF Recopy, Without, Copies, TypeOK
<1>8. ASSUME NEW n \in Places, NEW c \in Contents, <<n, c>> \in job.todo,
             RejectMove(n, c)
      PROVE  Goal
  BY <1>8, Basics DEF RejectMove, Without, Copies, TypeOK
<1>9. ASSUME NEW n \in Places, NEW c \in Contents, <<n, c>> \in job.found,
             ClearResent(n, c)
      PROVE  Goal
  BY <1>9, Basics DEF ClearResent, Without, Copies, TypeOK
<1>10. ASSUME NEW c \in Contents, NEW claim \in Claims, c \in job.reads,
             Clear(c, claim)
      PROVE  Goal
  BY <1>10, Basics DEF Clear, Without, Copies, TypeOK
<1>11. ASSUME NEW c \in Files, NEW n \in Names, Drop(c, n)
      PROVE  Goal
  <2>1. [body |-> c, growing |-> TRUE] \in Copies BY Basics DEF Copies
  <2>. QED BY <2>1, <1>11 DEF Drop, TypeOK
<1>12. ASSUME NEW n \in Names, Finish(n)
      PROVE  Goal
  <2>1. input[n] \in Copies /\ n \in Places BY <1>12, Basics DEF Finish, TypeOK
  <2>. QED BY <2>1, <1>12 DEF Finish, Copies, TypeOK
<1>. HIDE DEF Goal
<1>. QED
  <2>1. CASE UNCHANGED vars
    BY <2>1, <1>1 DEF vars, folders, history, budget
  <2>2. CASE Next
    BY <2>2, <1>1, <1>2, <1>3, <1>4, <1>5, <1>6, <1>7, <1>8, <1>9, <1>10, <1>11, <1>12,
       InputSteps
  <2>. QED BY <2>1, <2>2

\* The other types.
LEMMA RestKept ==
  ASSUME IInv, Next
  PROVE  /\ stored' \in SUBSET Contents /\ kept' \in SUBSET Contents
         /\ reported' \in SUBSET Contents
         /\ parked' \in [Places -> Copies \cup {None}]
         /\ cut' \in [Files -> SUBSET Parts]
         /\ arrived' \in SUBSET Files /\ lost' \in SUBSET Contents
         /\ holder' \in {"nobody", "sync", "operator"}
         /\ upload' \in {<<"idle">>} \cup ({"looking", "adding"} \X Uploads)
         /\ drops' \in 0..MaxDrops /\ faults' \in 0..MaxFaults
<1>. DEFINE Goal == /\ stored' \in SUBSET Contents /\ kept' \in SUBSET Contents
                    /\ reported' \in SUBSET Contents
                    /\ parked' \in [Places -> Copies \cup {None}]
                    /\ cut' \in [Files -> SUBSET Parts]
                    /\ arrived' \in SUBSET Files /\ lost' \in SUBSET Contents
                    /\ holder' \in {"nobody", "sync", "operator"}
                    /\ upload' \in {<<"idle">>} \cup ({"looking", "adding"} \X Uploads)
                    /\ drops' \in 0..MaxDrops /\ faults' \in 0..MaxFaults
<1>. SUFFICES Goal OBVIOUS
<1>. USE DEF IInv, At, Goto, Fault, folders, history, budget
<1>1. CASE SyncStart \/ List \/ RejectRecord \/ InsertNew
  BY <1>1, Basics, Fields DEF SyncStart, List, RejectRecord, InsertNew, TypeOK, JobInv, SplitInv,
     Split
<1>2. CASE IngestEnd \/ Condemn \/ Cut \/ Park
  BY <1>2, Basics, Fields DEF IngestEnd, Condemn, Cut, Park, TypeOK, JobInv, SplitInv, Split
<1>3. CASE Sweep \/ SplitFails \/ ReadEnd \/ Recover
  BY <1>3, Basics, Fields DEF Sweep, SplitFails, ReadEnd, Recover, TypeOK, JobInv, SplitInv, Split
<1>4. CASE TidyEnd \/ Deliver \/ Group \/ Merge
  BY <1>4, Basics, Fields DEF TidyEnd, Idle, Deliver, Group, Merge, TypeOK, JobInv, SplitInv, Split
<1>5. CASE SyncEnd \/ QuarantineCopy \/ QuarantineRemove \/ QuarantineReport
  BY <1>5, Basics, Fields DEF SyncEnd, QuarantineCopy, QuarantineRemove, QuarantineReport,
     TypeOK, JobInv, SplitInv, Split
<1>6. CASE Recopy \/ MarkAside \/ Crash
  BY <1>6, Basics, Fields DEF Recopy, MarkAside, Crash, TypeOK, JobInv, SplitInv, Split
<1>7. CASE Close
  <2>1. {PartOf(job.doc, job.claim, i) : i \in Kept(job.claim)} \in SUBSET Parts
    BY <1>7, WrittenPart DEF Close, Freed, SplitInv, Split
  <2>2. job.doc \in Files BY <1>7 DEF Close, Freed, SplitInv, Split
  <2>. QED BY <2>1, <2>2, <1>7 DEF Close, Freed, TypeOK
<1>8. ASSUME NEW n \in Places, NEW c \in Contents, <<n, c>> \in job.todo, Leave(n, c) PROVE Goal
  BY <1>8, Basics DEF Leave, TypeOK
<1>9. ASSUME NEW n \in Places, NEW c \in Contents, <<n, c>> \in job.todo, RejectMove(n, c) PROVE Goal
  BY <1>9, Basics DEF RejectMove, TypeOK
<1>10. ASSUME NEW n \in Places, NEW c \in Contents, <<n, c>> \in job.todo, IngestKnown(n, c) PROVE Goal
  BY <1>10, Basics DEF IngestKnown, TypeOK
<1>11. ASSUME NEW n \in Places, NEW c \in Contents, <<n, c>> \in job.todo, StoreNew(n, c) PROVE Goal
  BY <1>11, Basics DEF StoreNew, TypeOK
<1>12. ASSUME NEW n \in Places, NEW c \in Contents, <<n, c>> \in job.found, ClearResent(n, c) PROVE Goal
  BY <1>12, Basics DEF ClearResent, TypeOK
<1>13. ASSUME NEW c \in Contents, c \in job.reads, ReadNothing(c) PROVE Goal
  BY <1>13, Basics DEF ReadNothing, TypeOK
<1>14. ASSUME NEW c \in Contents, c \in job.reads, ReadSingle(c) PROVE Goal
  BY <1>14, Basics DEF ReadSingle, TypeOK
<1>15. ASSUME NEW c \in Contents, c \in job.reads, ReadBroken(c) PROVE Goal
  BY <1>15, Basics DEF ReadBroken, TypeOK
<1>16. ASSUME NEW c \in Contents, c \in job.reads, ReadRecombined(c) PROVE Goal
  BY <1>16, Basics DEF ReadRecombined, TypeOK
<1>17. ASSUME NEW c \in Contents, c \in job.reads, ReadUnsplit(c) PROVE Goal
  BY <1>17, Basics DEF ReadUnsplit, TypeOK
<1>18. ASSUME NEW c \in Contents, NEW claim \in Claims, c \in job.reads, Clear(c, claim) PROVE Goal
  BY <1>18, Basics DEF Clear, TypeOK
<1>19. ASSUME NEW c \in Contents, Quarantine(c) PROVE Goal
  BY <1>19, Basics DEF Quarantine, TypeOK
<1>20. ASSUME NEW c \in Contents, Lose(c) PROVE Goal
  BY <1>20, Basics DEF Lose, TypeOK
<1>21. ASSUME NEW c \in Contents, SetAside(c) PROVE Goal
  BY <1>21, Basics DEF SetAside, TypeOK
<1>22. ASSUME NEW c \in Files, NEW n \in Names, Drop(c, n) PROVE Goal
  BY <1>22, Basics DEF Drop, TypeOK
<1>23. ASSUME NEW n \in Names, Finish(n) PROVE Goal
  BY <1>23, Basics DEF Finish, TypeOK, PlacesInv
<1>24. ASSUME NEW c \in Uploads, UploadBegin(c) PROVE Goal
  BY <1>24, Basics DEF UploadBegin, TypeOK
<1>25. ASSUME NEW c \in Uploads, UploadLook(c) PROVE Goal
  BY <1>25, Basics DEF UploadLook, TypeOK
<1>26. ASSUME NEW c \in Uploads, UploadAdd(c) PROVE Goal
  BY <1>26, Basics DEF UploadAdd, TypeOK
<1>. HIDE DEF Goal
<1>. QED BY <1>1, <1>2, <1>3, <1>4, <1>5, <1>6, <1>7, <1>8, <1>9, <1>10, <1>11, <1>12, <1>13,
  <1>14, <1>15, <1>16, <1>17, <1>18, <1>19, <1>20, <1>21, <1>22, <1>23, <1>24, <1>25,
  <1>26, Steps

\* What lies where.
LEMMA PlacesKept ==
  ASSUME IInv, [Next]_vars
  PROVE  PlacesInv'
<1>. USE DEF IInv, At, Goto, Fault
<1>1. CASE UNCHANGED <<input, parked>>
  BY <1>1 DEF PlacesInv
<1>2. CASE Cut
  <2>1. PICK i \in Kept(job.claim) : Number(job.claim, i) = job.next
          /\ input' = [input EXCEPT ![<<job.doc, job.next>>] = Written(job.doc, job.claim, i)]
    BY <1>2 DEF Cut
  <2>2. /\ <<job.doc, job.next>> \in PartNames /\ <<job.doc, job.next>>[1] = job.doc
        /\ Written(job.doc, job.claim, i).body \in Parts
        /\ Written(job.doc, job.claim, i).body[1] = job.doc
    BY <1>2, <2>1, WrittenPart DEF Cut, SplitInv, Split, Written
  <2>3. parked' = parked BY <1>2 DEF Cut
  <2>. QED BY <2>1, <2>2, <2>3, Basics DEF TypeOK, PlacesInv
<1>3. CASE Park
  <2>1. job.doc \in Files /\ row[job.doc].name \in Names
    BY <1>3 DEF Park, RowsInv, SplitInv, Split
  <2>. QED BY <1>3, <2>1, Basics DEF Park, Without, TypeOK, PlacesInv
<1>4. CASE Sweep
  BY <1>4, Basics DEF Sweep, Without, TypeOK, PlacesInv
<1>5. CASE Deliver
  BY <1>5, Basics DEF Deliver, Without, TypeOK, PlacesInv
<1>6. CASE QuarantineRemove
  BY <1>6, Basics DEF QuarantineRemove, Without, TypeOK, PlacesInv
<1>7. CASE Recopy
  BY <1>7, Basics DEF Recopy, Without, TypeOK, PlacesInv
<1>8. ASSUME NEW n \in Places, NEW c \in Contents, <<n, c>> \in job.todo,
             RejectMove(n, c)
      PROVE  PlacesInv'
  BY <1>8, Basics DEF RejectMove, Without, TypeOK, PlacesInv
<1>9. ASSUME NEW n \in Places, NEW c \in Contents, <<n, c>> \in job.found,
             ClearResent(n, c)
      PROVE  PlacesInv'
  BY <1>9, Basics DEF ClearResent, Without, TypeOK, PlacesInv
<1>10. ASSUME NEW c \in Contents, NEW claim \in Claims, c \in job.reads,
             Clear(c, claim)
      PROVE  PlacesInv'
  BY <1>10, Basics DEF Clear, Without, TypeOK, PlacesInv
<1>11. ASSUME NEW c \in Files, NEW n \in Names, Drop(c, n)
      PROVE  PlacesInv'
  BY <1>11, Basics DEF Drop, Without, TypeOK, PlacesInv
<1>12. ASSUME NEW n \in Names, Finish(n)
      PROVE  PlacesInv'
  BY <1>12, Basics DEF Finish, Without, TypeOK, PlacesInv
<1>. QED
  <2>1. CASE UNCHANGED vars
    BY <2>1, <1>1 DEF vars, folders, history, budget
  <2>2. CASE Next
    BY <2>2, <1>1, <1>2, <1>3, <1>4, <1>5, <1>6, <1>7, <1>8, <1>9, <1>10, <1>11, <1>12,
       InputSteps
  <2>. QED BY <2>1, <2>2

\* What a step does to a row: it is archived, it is new, or it keeps its name and its
\* parent and becomes a completed split only when a split is closed.
LEMMA RowEffects ==
  ASSUME IInv, NEW d \in Contents, row'[d] # row[d], [Next]_vars
  PROVE  \/ /\ MarkAside /\ d = job.doc
            /\ row[d] # None /\ row[d].set = "none" /\ row'[d] = None
         \/ /\ row[d] = None /\ row'[d] # None /\ row'[d].split = "no"
            /\ d \in Files => row'[d].name \in Names /\ row'[d].parent = None
         \/ /\ row[d] # None /\ row'[d] # None
            /\ row'[d].name = row[d].name /\ row'[d].parent = row[d].parent
            /\ row'[d].split = "done" =>
                 /\ row'[d].status = "valid"
                 /\ row[d].split = "done" \/ (Close /\ d = job.doc)
<1>. DEFINE Goal == \/ /\ MarkAside /\ d = job.doc
                       /\ row[d] # None /\ row[d].set = "none" /\ row'[d] = None
                    \/ /\ row[d] = None /\ row'[d] # None /\ row'[d].split = "no"
                       /\ d \in Files => row'[d].name \in Names /\ row'[d].parent = None
                    \/ /\ row[d] # None /\ row'[d] # None
                       /\ row'[d].name = row[d].name /\ row'[d].parent = row[d].parent
                       /\ row'[d].split = "done" =>
                            /\ row'[d].status = "valid"
                            /\ row[d].split = "done" \/ (Close /\ d = job.doc)
<1>. SUFFICES Goal OBVIOUS
<1>. USE DEF IInv, At, Goto, Fault
<1>1. CASE UNCHANGED <<row, cut>>
  BY <1>1
<1>2. CASE RejectRecord
  BY <1>2, Basics DEF RejectRecord, Freed, TypeOK, JobInv
<1>3. CASE InsertNew
  <2>1. d = job.doc /\ row[d] = None BY <1>3 DEF InsertNew, Freed, TypeOK
  <2>2. row'[d] = [status |-> "pending", split |-> "no", name |-> job.name,
                   parent |-> ParentOf(job.name), rejected |-> FALSE, set |-> "none"]
    BY <2>1, <1>3 DEF InsertNew, Freed, TypeOK
  <2>3. d \in Files => job.name \in Names /\ ParentOf(job.name) = None
    BY <2>1, <1>3, Basics DEF InsertNew, Freed, JobInv, ParentOf
  <2>4. ParentOf(job.name) \in Files \cup {None} /\ job.name \in Places
    BY <1>3, Basics DEF InsertNew, Freed, JobInv, ParentOf, PartNames
  <2>5. row'[d] \in Rows BY <2>2, <2>4 DEF Rows
  <2>. QED BY <2>1, <2>2, <2>3, <2>5, Basics
<1>4. CASE Condemn
  <2>1. row[job.doc] \in Rows /\ job.doc \in Contents
    BY <1>4, Basics DEF Condemn, TypeOK, SplitInv, Split
  <2>. QED BY <2>1, <1>4, Basics DEF Condemn, TypeOK, Rows
<1>5. CASE Close
  <2>1. row[job.doc] \in Rows /\ job.doc \in Contents
    BY <1>5, Basics DEF Close, Freed, TypeOK, SplitInv, Split
  <2>. QED BY <2>1, <1>5, Basics DEF Close, Freed, TypeOK, Rows
<1>6. CASE Group
  <2>1. d \in Placeable /\ row[d] \in Rows BY <1>6 DEF Group, Placeable, TypeOK
  <2>2. row[d].split = "done" => row[d].status = "valid" BY <2>1, Basics DEF RowsInv
  <2>3. row'[d] = [row[d] EXCEPT !.set = "open"] BY <2>1, <1>6 DEF Group
  <2>4. row'[d] \in Rows BY <2>1, <2>3 DEF Rows
  <2>5. /\ row'[d].name = row[d].name /\ row'[d].parent = row[d].parent
        /\ row'[d].split = row[d].split /\ row'[d].status = row[d].status
    BY <2>1, <2>3 DEF Rows
  <2>. QED BY <2>1, <2>2, <2>4, <2>5, Basics
<1>7. CASE Merge
  <2>1. d \in Members /\ row[d] \in Rows BY <1>7 DEF Merge, Members, TypeOK
  <2>2. row[d].split = "done" => row[d].status = "valid" BY <2>1, Basics DEF RowsInv
  <2>3. row'[d] = [row[d] EXCEPT !.set = "merged"] BY <2>1, <1>7 DEF Merge
  <2>4. row'[d] \in Rows BY <2>1, <2>3 DEF Rows
  <2>5. /\ row'[d].name = row[d].name /\ row'[d].parent = row[d].parent
        /\ row'[d].split = row[d].split /\ row'[d].status = row[d].status
    BY <2>1, <2>3 DEF Rows
  <2>. QED BY <2>1, <2>2, <2>4, <2>5, Basics
<1>8. CASE MarkAside
  BY <1>8, Basics DEF MarkAside, TypeOK
<1>9. ASSUME NEW c \in Contents, c \in job.reads, ReadSingle(c)
      PROVE  Goal
  <2>1. row[c] \in Rows BY <1>9 DEF TypeOK, JobInv
  <2>2. row[c].split = "done" => row[c].status = "valid" BY <2>1, Basics DEF RowsInv
  <2>3. d # c => row'[d] = row[d] BY <1>9 DEF ReadSingle, TypeOK
  <2>. QED BY <2>1, <2>2, <2>3, <1>9, Basics DEF ReadSingle, TypeOK, Rows, RowsInv, AlreadyRead,
              Recombines
<1>10. ASSUME NEW c \in Contents, c \in job.reads, ReadBroken(c)
      PROVE  Goal
  <2>1. row[c] \in Rows BY <1>10 DEF TypeOK, JobInv
  <2>2. row[c].split = "done" => row[c].status = "valid" BY <2>1, Basics DEF RowsInv
  <2>3. d # c => row'[d] = row[d] BY <1>10 DEF ReadBroken, TypeOK
  <2>. QED BY <2>1, <2>2, <2>3, <1>10, Basics DEF ReadBroken, TypeOK, Rows, RowsInv, AlreadyRead,
              Recombines
<1>11. ASSUME NEW c \in Contents, c \in job.reads, ReadRecombined(c)
      PROVE  Goal
  <2>1. row[c] \in Rows BY <1>11 DEF TypeOK, JobInv
  <2>2. row[c].split = "done" => row[c].status = "valid" BY <2>1, Basics DEF RowsInv
  <2>3. d # c => row'[d] = row[d] BY <1>11 DEF ReadRecombined, TypeOK
  <2>. QED BY <2>1, <2>2, <2>3, <1>11, Basics DEF ReadRecombined, TypeOK, Rows, RowsInv,
              AlreadyRead, Recombines
<1>12. ASSUME NEW c \in Contents, c \in job.reads, ReadUnsplit(c)
      PROVE  Goal
  <2>1. row[c] \in Rows BY <1>12 DEF TypeOK, JobInv
  <2>2. row[c].split = "done" => row[c].status = "valid" BY <2>1, Basics DEF RowsInv
  <2>3. d # c => row'[d] = row[d] BY <1>12 DEF ReadUnsplit, TypeOK
  <2>. QED BY <2>1, <2>2, <2>3, <1>12, Basics DEF ReadUnsplit, TypeOK, Rows, RowsInv,
              AlreadyRead, Recombines
<1>13. ASSUME NEW c \in Uploads, UploadLook(c)
      PROVE  Goal
  <2>1. d = c /\ row[d] \in Rows /\ row'[d] \in Rows
    BY <1>13, RowKept, Basics DEF UploadLook, TypeOK, Rows
  <2>. QED BY <2>1, <1>13, Basics DEF UploadLook, TypeOK, Rows, RowsInv
<1>14. ASSUME NEW c \in Uploads, UploadAdd(c)
      PROVE  Goal
  <2>1. d = c /\ row[d] = None BY <1>14 DEF UploadAdd, TypeOK
  <2>2. PICK n \in Names : row' = [row EXCEPT ![c] =
          [status |-> "valid", split |-> "no", name |-> n, parent |-> None,
           rejected |-> FALSE, set |-> "open"]]
    BY <2>1, <1>14 DEF UploadAdd
  <2>3. row'[d] \in Rows BY <2>1, RowKept, <2>2, Basics DEF TypeOK
  <2>. QED BY <2>1, <2>2, <2>3, Basics DEF TypeOK
<1>. HIDE DEF Goal
<1>. QED
  <2>1. CASE UNCHANGED vars
    BY <2>1, <1>1 DEF vars, folders, history, budget
  <2>2. CASE Next
    BY <2>2, <1>1, <1>2, <1>3, <1>4, <1>5, <1>6, <1>7, <1>8, <1>9, <1>10, <1>11, <1>12,
       <1>13, <1>14, RowSteps
  <2>. QED BY <2>1, <2>2

\* Only a set-aside takes a row away, and a row keeps its name.
LEMMA RowsRemain ==
  ASSUME IInv, [Next]_vars, NEW c \in Contents, row[c] # None
  PROVE  /\ row'[c] # None => row'[c].name = row[c].name
         /\ row'[c] = None => MarkAside /\ c = job.doc /\ row[c].set = "none"
BY RowEffects

\* What rows say.
LEMMA RowsKept ==
  ASSUME IInv, [Next]_vars
  PROVE  RowsInv'
<1>. USE DEF IInv
<1>1. ASSUME NEW d \in Contents, row'[d] # None
      PROVE  /\ row'[d].split = "done" => d \in Files /\ row'[d].status = "valid"
             /\ d \in Files => row'[d].name \in Names /\ row'[d].parent = None
  BY <1>1, RowEffects, Basics DEF RowsInv, Close, SplitInv, Split, At
<1>2. ASSUME NEW f \in Files, NEW p \in cut'[f]
      PROVE  p[1] = f
  <2>1. CASE UNCHANGED cut BY <2>1, <1>2 DEF RowsInv
  <2>2. CASE Close
    <3>1. CASE f = job.doc
      <4>1. PICK i \in Kept(job.claim) : p = PartOf(job.doc, job.claim, i)
        BY <1>2, <2>2, <3>1 DEF Close, Freed, TypeOK
      <4>. QED BY <4>1, <2>2, <3>1, WrittenPart DEF Close, Freed, SplitInv, Split, At
    <3>2. CASE f # job.doc BY <1>2, <2>2, <3>2 DEF Close, Freed, RowsInv, TypeOK
    <3>. QED BY <3>1, <3>2
  <2>3. UNCHANGED cut \/ Close
    <3>1. CASE UNCHANGED vars BY <3>1 DEF vars, history
    <3>2. CASE Next
      BY <3>2, RowSteps DEF RejectRecord, Freed, InsertNew, Condemn, Group, Merge, MarkAside,
         ReadSingle, ReadBroken, ReadRecombined, ReadUnsplit, UploadLook, UploadAdd, history
    <3>. QED BY <3>1, <3>2
  <2>. QED BY <2>1, <2>2, <2>3
<1>. QED BY <1>1, <1>2, Basics DEF RowsInv

\* Nobody carries anything without the lock.
LEMMA HolderKept ==
  ASSUME IInv, [Next]_vars
  PROVE  holder' = "nobody" => job' = Idle
<1>. DEFINE Goal == holder' = "nobody" => job' = Idle
<1>. SUFFICES Goal OBVIOUS
<1>. USE DEF IInv, At, Goto, Fault
<1>1. CASE UNCHANGED vars
  BY <1>1 DEF JobInv, vars, folders, history, budget
<1>2. CASE SyncStart
  BY <1>2, IdleFields DEF SyncStart, JobInv, Untried, Turn, folders, history, budget
<1>3. CASE List
  BY <1>3, IdleFields DEF List, JobInv, Untried, Turn, folders, history, budget
<1>4. CASE RejectRecord
  BY <1>4, IdleFields DEF RejectRecord, Freed, JobInv, Untried, Turn, folders, history, budget
<1>5. CASE InsertNew
  BY <1>5, IdleFields DEF InsertNew, Freed, JobInv, Untried, Turn, folders, history, budget
<1>6. CASE IngestEnd
  BY <1>6, IdleFields DEF IngestEnd, JobInv, Untried, Turn, folders, history, budget
<1>7. CASE Condemn
  BY <1>7, IdleFields DEF Condemn, JobInv, Untried, Turn, folders, history, budget
<1>8. CASE Cut
  BY <1>8, IdleFields DEF Cut, JobInv, Untried, Turn, folders, history, budget
<1>9. CASE Park
  BY <1>9, IdleFields DEF Park, JobInv, Untried, Turn, folders, history, budget
<1>10. CASE Sweep
  BY <1>10, IdleFields DEF Sweep, JobInv, Untried, Turn, folders, history, budget
<1>11. CASE Close
  BY <1>11, IdleFields DEF Close, Freed, JobInv, Untried, Turn, folders, history, budget
<1>12. CASE SplitFails
  BY <1>12, IdleFields DEF SplitFails, Freed, JobInv, Untried, Turn, folders, history, budget
<1>13. CASE ReadEnd
  BY <1>13, IdleFields DEF ReadEnd, JobInv, Untried, Turn, folders, history, budget
<1>14. CASE Recover
  BY <1>14, IdleFields DEF Recover, JobInv, Untried, Turn, folders, history, budget
<1>15. CASE TidyEnd
  BY <1>15, IdleFields DEF TidyEnd, Idle, JobInv, Untried, Turn, folders, history, budget
<1>16. CASE Deliver
  BY <1>16, IdleFields DEF Deliver, JobInv, Untried, Turn, folders, history, budget
<1>17. CASE Group
  BY <1>17, IdleFields DEF Group, JobInv, Untried, Turn, folders, history, budget
<1>18. CASE Merge
  BY <1>18, IdleFields DEF Merge, JobInv, Untried, Turn, folders, history, budget
<1>19. CASE SyncEnd
  BY <1>19, IdleFields DEF SyncEnd, JobInv, Untried, Turn, folders, history, budget
<1>20. CASE QuarantineCopy
  BY <1>20, IdleFields DEF QuarantineCopy, JobInv, Untried, Turn, folders, history,
     budget
<1>21. CASE QuarantineRemove
  BY <1>21, IdleFields DEF QuarantineRemove, JobInv, Untried, Turn, folders, history,
     budget
<1>22. CASE QuarantineReport
  BY <1>22, IdleFields DEF QuarantineReport, Back, Freed, JobInv, Untried, Turn, folders, history,
     budget
<1>23. CASE Recopy
  BY <1>23, IdleFields DEF Recopy, JobInv, Untried, Turn, folders, history, budget
<1>24. CASE MarkAside
  BY <1>24, IdleFields DEF MarkAside, JobInv, Untried, Turn, folders, history, budget
<1>25. CASE Crash
  BY <1>25, IdleFields DEF Crash, JobInv, Untried, Turn, folders, history, budget
<1>26. ASSUME NEW n \in Places, NEW c \in Contents, <<n, c>> \in job.todo,
             Leave(n, c)
      PROVE  Goal
  BY <1>26, IdleFields DEF Leave, JobInv, Untried, Turn, folders, history, budget
<1>27. ASSUME NEW n \in Places, NEW c \in Contents, <<n, c>> \in job.todo,
             RejectMove(n, c)
      PROVE  Goal
  BY <1>27, IdleFields DEF RejectMove, JobInv, Untried, Turn, folders, history, budget
<1>28. ASSUME NEW n \in Places, NEW c \in Contents, <<n, c>> \in job.todo,
             IngestKnown(n, c)
      PROVE  Goal
  BY <1>28, IdleFields DEF IngestKnown, JobInv, Untried, Turn, folders, history, budget
<1>29. ASSUME NEW n \in Places, NEW c \in Contents, <<n, c>> \in job.todo,
             StoreNew(n, c)
      PROVE  Goal
  BY <1>29, IdleFields DEF StoreNew, JobInv, Untried, Turn, folders, history, budget
<1>30. ASSUME NEW n \in Places, NEW c \in Contents, <<n, c>> \in job.found,
             ClearResent(n, c)
      PROVE  Goal
  BY <1>30, IdleFields DEF ClearResent, JobInv, Untried, Turn, folders, history, budget
<1>31. ASSUME NEW c \in Contents, c \in job.reads, ReadNothing(c)
      PROVE  Goal
  BY <1>31, IdleFields DEF ReadNothing, JobInv, Untried, Turn, folders, history, budget
<1>32. ASSUME NEW c \in Contents, c \in job.reads, ReadSingle(c)
      PROVE  Goal
  BY <1>32, IdleFields DEF ReadSingle, JobInv, Untried, Turn, folders, history, budget
<1>33. ASSUME NEW c \in Contents, c \in job.reads, ReadBroken(c)
      PROVE  Goal
  BY <1>33, IdleFields DEF ReadBroken, JobInv, Untried, Turn, folders, history, budget
<1>34. ASSUME NEW c \in Contents, c \in job.reads, ReadRecombined(c)
      PROVE  Goal
  BY <1>34, IdleFields DEF ReadRecombined, JobInv, Untried, Turn, folders, history,
     budget
<1>35. ASSUME NEW c \in Contents, c \in job.reads, ReadUnsplit(c)
      PROVE  Goal
  BY <1>35, IdleFields DEF ReadUnsplit, JobInv, Untried, Turn, folders, history, budget
<1>36. ASSUME NEW c \in Contents, NEW claim \in Claims, c \in job.reads,
             Clear(c, claim)
      PROVE  Goal
  BY <1>36, IdleFields DEF Clear, JobInv, Untried, Turn, folders, history, budget
<1>37. ASSUME NEW c \in Contents, Quarantine(c)
      PROVE  Goal
  BY <1>37, IdleFields DEF Quarantine, JobInv, Untried, Turn, folders, history, budget
<1>38. ASSUME NEW c \in Contents, Lose(c)
      PROVE  Goal
  BY <1>38, IdleFields DEF Lose, JobInv, Untried, Turn, folders, history, budget
<1>39. ASSUME NEW c \in Contents, SetAside(c)
      PROVE  Goal
  BY <1>39, IdleFields DEF SetAside, JobInv, Untried, Turn, folders, history, budget
<1>40. ASSUME NEW c \in Files, NEW n \in Names, Drop(c, n)
      PROVE  Goal
  BY <1>40, IdleFields DEF Drop, JobInv, Untried, Turn, folders, history, budget
<1>41. ASSUME NEW n \in Names, Finish(n)
      PROVE  Goal
  BY <1>41, IdleFields DEF Finish, JobInv, Untried, Turn, folders, history, budget
<1>42. ASSUME NEW c \in Uploads, UploadBegin(c)
      PROVE  Goal
  BY <1>42, IdleFields DEF UploadBegin, JobInv, Untried, Turn, folders, history, budget
<1>43. ASSUME NEW c \in Uploads, UploadLook(c)
      PROVE  Goal
  BY <1>43, IdleFields DEF UploadLook, JobInv, Untried, Turn, folders, history, budget
<1>44. ASSUME NEW c \in Uploads, UploadAdd(c)
      PROVE  Goal
  BY <1>44, IdleFields DEF UploadAdd, JobInv, Untried, Turn, folders, history, budget
<1>. HIDE DEF Goal
<1>. QED
  <2>1. CASE UNCHANGED vars
    BY <2>1, <1>1 DEF vars, folders, history, budget
  <2>2. CASE Next
    BY <2>2, <1>1, <1>2, <1>3, <1>4, <1>5, <1>6, <1>7, <1>8, <1>9, <1>10, <1>11, <1>12,
       <1>13, <1>14, <1>15, <1>16, <1>17, <1>18, <1>19, <1>20, <1>21, <1>22, <1>23,
       <1>24, <1>25, <1>26, <1>27, <1>28, <1>29, <1>30, <1>31, <1>32, <1>33, <1>34,
       <1>35, <1>36, <1>37, <1>38, <1>39, <1>40, <1>41, <1>42, <1>43, <1>44, Steps
  <2>. QED BY <2>1, <2>2

\* What an ingest of new bytes makes is a row.
LEMMA NewRow ==
  ASSUME IInv, At("inserting")
  PROVE  [status |-> "pending", split |-> "no", name |-> job.name,
          parent |-> ParentOf(job.name), rejected |-> FALSE, set |-> "none"] \in Rows \ {None}
<1>1. job.name \in Places /\ ParentOf(job.name) \in Files \cup {None}
  BY Basics DEF IInv, At, JobInv, ParentOf, PartNames
<1>. DEFINE new == [status |-> "pending", split |-> "no", name |-> job.name,
                    parent |-> ParentOf(job.name), rejected |-> FALSE, set |-> "none"]
<1>2. new \in Rows BY <1>1 DEF Rows
<1>. HIDE DEF new
<1>3. new \in Rows \ {None} BY <1>2, Basics
<1>. QED BY <1>3 DEF new

\* The list of a scan.
LEMMA ListKept ==
  ASSUME IInv, [Next]_vars
  PROVE  \A pair \in job'.todo : pair[2] \in Files => pair[1] \in Names
<1>. DEFINE Goal == \A pair \in job'.todo : pair[2] \in Files => pair[1] \in Names
<1>. SUFFICES Goal OBVIOUS
<1>. USE DEF IInv, At, Goto, Fault
<1>1. CASE UNCHANGED job
  BY <1>1 DEF JobInv, folders, history, budget
<1>2. CASE SyncStart
  BY <1>2 DEF SyncStart, TypeOK, JobInv, Jobs, Done, Tried, folders, history, budget
<1>3. CASE List
  <2>1. job'.todo = {<<n, input[n].body>> : n \in Present}
    BY <1>3 DEF List, TypeOK, Jobs
  <2>2. ASSUME NEW n \in Present, input[n].body \in Files PROVE n \in Names
    BY <2>2, Basics DEF Present, PlacesInv
  <2>. QED BY <2>1, <2>2 DEF TypeOK, folders, history, budget
<1>4. CASE RejectRecord
  BY <1>4 DEF RejectRecord, Freed, TypeOK, JobInv, Jobs, Done, Tried, folders, history, budget
<1>5. CASE InsertNew
  BY <1>5 DEF InsertNew, Freed, TypeOK, JobInv, Jobs, Done, Tried, folders, history, budget
<1>6. CASE IngestEnd
  BY <1>6 DEF IngestEnd, TypeOK, JobInv, Jobs, Done, Tried, folders, history, budget
<1>7. CASE Condemn
  BY <1>7 DEF Condemn, TypeOK, JobInv, Jobs, Done, Tried, folders, history, budget
<1>8. CASE Cut
  BY <1>8 DEF Cut, TypeOK, JobInv, Jobs, Done, Tried, folders, history, budget
<1>9. CASE Park
  BY <1>9 DEF Park, TypeOK, JobInv, Jobs, Done, Tried, folders, history, budget
<1>10. CASE Sweep
  BY <1>10 DEF Sweep, TypeOK, JobInv, Jobs, Done, Tried, folders, history, budget
<1>11. CASE Close
  BY <1>11 DEF Close, Freed, TypeOK, JobInv, Jobs, Done, Tried, folders, history, budget
<1>12. CASE SplitFails
  BY <1>12 DEF SplitFails, Freed, TypeOK, JobInv, Jobs, Done, Tried, folders, history, budget
<1>13. CASE ReadEnd
  BY <1>13 DEF ReadEnd, TypeOK, JobInv, Jobs, Done, Tried, folders, history, budget
<1>14. CASE Recover
  BY <1>14 DEF Recover, TypeOK, JobInv, Jobs, Done, Tried, folders, history, budget
<1>15. CASE TidyEnd
  BY <1>15 DEF TidyEnd, Idle, TypeOK, JobInv, Jobs, Done, Tried, folders, history, budget
<1>16. CASE Deliver
  BY <1>16 DEF Deliver, TypeOK, JobInv, Jobs, Done, Tried, folders, history, budget
<1>17. CASE Merge
  BY <1>17 DEF Merge, TypeOK, JobInv, Jobs, Done, Tried, folders, history, budget
<1>18. CASE SyncEnd
  BY <1>18, IdleFields, IdleJob DEF SyncEnd, TypeOK, JobInv, Jobs, folders, history,
     budget
<1>19. CASE QuarantineCopy
  BY <1>19 DEF QuarantineCopy, TypeOK, JobInv, Jobs, Done, Tried, folders, history,
     budget
<1>20. CASE QuarantineRemove
  BY <1>20 DEF QuarantineRemove, TypeOK, JobInv, Jobs, Done, Tried, folders, history,
     budget
<1>21. CASE QuarantineReport
  BY <1>21, IdleFields, IdleJob DEF QuarantineReport, Back, Freed, TypeOK, JobInv, Jobs, folders,
     history, budget
<1>22. CASE Recopy
  BY <1>22, IdleFields, IdleJob DEF Recopy, TypeOK, JobInv, Jobs, folders, history,
     budget
<1>23. CASE MarkAside
  BY <1>23, IdleFields, IdleJob DEF MarkAside, TypeOK, JobInv, Jobs, folders, history,
     budget
<1>24. CASE Crash
  BY <1>24, IdleFields, IdleJob DEF Crash, TypeOK, JobInv, Jobs, folders, history,
     budget
<1>25. ASSUME NEW n \in Places, NEW c \in Contents, <<n, c>> \in job.todo,
             Leave(n, c)
      PROVE  Goal
  BY <1>25 DEF Leave, TypeOK, JobInv, Jobs, Done, Tried, folders, history, budget
<1>26. ASSUME NEW n \in Places, NEW c \in Contents, <<n, c>> \in job.todo,
             RejectMove(n, c)
      PROVE  Goal
  <2>1. Done(n, c) \in Jobs /\ Done(n, c).todo = job.todo \ {<<n, c>>}
    BY DoneJob DEF Done, TypeOK, Jobs
  <2>2. job'.todo = Done(n, c).todo
    BY <1>26, <2>1 DEF RejectMove, Jobs
  <2>. QED BY <2>1, <2>2 DEF JobInv, folders, history, budget
<1>27. ASSUME NEW n \in Places, NEW c \in Contents, <<n, c>> \in job.todo,
             IngestKnown(n, c)
      PROVE  Goal
  BY <1>27 DEF IngestKnown, TypeOK, JobInv, Jobs, Done, Tried, folders, history, budget
<1>28. ASSUME NEW n \in Places, NEW c \in Contents, <<n, c>> \in job.todo,
             StoreNew(n, c)
      PROVE  Goal
  BY <1>28 DEF StoreNew, TypeOK, JobInv, Jobs, Done, Tried, folders, history, budget
<1>29. ASSUME NEW n \in Places, NEW c \in Contents, <<n, c>> \in job.found,
             ClearResent(n, c)
      PROVE  Goal
  BY <1>29 DEF ClearResent, TypeOK, JobInv, Jobs, Done, Tried, folders, history, budget
<1>30. ASSUME NEW c \in Contents, c \in job.reads, ReadNothing(c)
      PROVE  Goal
  BY <1>30 DEF ReadNothing, TypeOK, JobInv, Jobs, Done, Tried, folders, history, budget
<1>31. ASSUME NEW c \in Contents, c \in job.reads, ReadSingle(c)
      PROVE  Goal
  BY <1>31 DEF ReadSingle, TypeOK, JobInv, Jobs, Done, Tried, folders, history, budget
<1>32. ASSUME NEW c \in Contents, c \in job.reads, ReadBroken(c)
      PROVE  Goal
  BY <1>32 DEF ReadBroken, TypeOK, JobInv, Jobs, Done, Tried, folders, history, budget
<1>33. ASSUME NEW c \in Contents, c \in job.reads, ReadRecombined(c)
      PROVE  Goal
  BY <1>33 DEF ReadRecombined, TypeOK, JobInv, Jobs, Done, Tried, folders, history,
     budget
<1>34. ASSUME NEW c \in Contents, c \in job.reads, ReadUnsplit(c)
      PROVE  Goal
  BY <1>34 DEF ReadUnsplit, TypeOK, JobInv, Jobs, Done, Tried, folders, history, budget
<1>35. ASSUME NEW c \in Contents, NEW claim \in Claims, c \in job.reads,
             Clear(c, claim)
      PROVE  Goal
  BY <1>35 DEF Clear, TypeOK, JobInv, Jobs, Done, Tried, folders, history, budget
<1>36. ASSUME NEW c \in Contents, Quarantine(c)
      PROVE  Goal
  BY <1>36 DEF Quarantine, TypeOK, JobInv, Jobs, Done, Tried, folders, history, budget
<1>37. ASSUME NEW c \in Contents, SetAside(c)
      PROVE  Goal
  BY <1>37, IdleFields, IdleJob DEF SetAside, TypeOK, JobInv, Jobs, folders, history,
     budget
<1>. HIDE DEF Goal
<1>. QED
  <2>1. CASE UNCHANGED vars
    BY <2>1, <1>1 DEF vars, folders, history, budget
  <2>2. CASE Next
    BY <2>2, <1>1, <1>2, <1>3, <1>4, <1>5, <1>6, <1>7, <1>8, <1>9, <1>10, <1>11, <1>12,
       <1>13, <1>14, <1>15, <1>16, <1>17, <1>18, <1>19, <1>20, <1>21, <1>22, <1>23,
       <1>24, <1>25, <1>26, <1>27, <1>28, <1>29, <1>30, <1>31, <1>32, <1>33, <1>34,
       <1>35, <1>36, <1>37, JobSteps
  <2>. QED BY <2>1, <2>2

\* Whatever is to be read has a row.
LEMMA ReadsKept ==
  ASSUME IInv, [Next]_vars
  PROVE  \A c \in job'.reads : row'[c] # None
<1>. DEFINE Goal == \A c \in job'.reads : row'[c] # None
<1>. SUFFICES Goal OBVIOUS
<1>. USE DEF IInv, At, Goto, Fault
<1>1. CASE UNCHANGED vars
  BY <1>1 DEF JobInv, vars, folders, history, budget
<1>2. CASE SyncStart
  BY <1>2, RowsRemain DEF SyncStart, TypeOK, JobInv, Jobs, Done, Tried, MarkAside, folders,
     history, budget
<1>3. CASE List
  BY <1>3, RowsRemain DEF List, TypeOK, JobInv, Jobs, Done, Tried, MarkAside, folders,
     history, budget
<1>4. CASE RejectRecord
  BY <1>4, RowsRemain DEF RejectRecord, Freed, TypeOK, JobInv, Jobs, Done, Tried, MarkAside, folders,
     history, budget
<1>5. CASE InsertNew
  <2>1. CASE job' = Freed("ingesting")
    <3>1. job'.reads = job.reads BY <2>1 DEF Freed, TypeOK, Jobs
    <3>. QED BY <3>1, <1>5, RowsRemain, Fields DEF InsertNew, Freed, JobInv, MarkAside, TypeOK
  <2>2. CASE job' = [Freed("ingesting") EXCEPT !.found = @ \cup {<<job.name, job.doc>>},
                                               !.reads = @ \cup {job.doc}]
    <3>1. job'.reads = job.reads \cup {job.doc} BY <2>2 DEF Freed, TypeOK, Jobs
    <3>2. row'[job.doc] # None \/ job' = Freed("ingesting")
      BY <1>5, NewRow, <2>2 DEF InsertNew, Freed, TypeOK, JobInv
    <3>. QED BY <2>1, <3>1, <3>2, <1>5, RowsRemain, Fields DEF InsertNew, Freed, JobInv, MarkAside,
                TypeOK
  <2>. QED BY <2>1, <2>2, <1>5 DEF InsertNew, Freed, folders, history, budget
<1>6. CASE IngestEnd
  BY <1>6, RowsRemain DEF IngestEnd, TypeOK, JobInv, Jobs, Done, Tried, MarkAside, folders,
     history, budget
<1>7. CASE Condemn
  BY <1>7, RowsRemain DEF Condemn, TypeOK, JobInv, Jobs, Done, Tried, MarkAside, folders,
     history, budget
<1>8. CASE Cut
  BY <1>8, RowsRemain DEF Cut, TypeOK, JobInv, Jobs, Done, Tried, MarkAside, folders,
     history, budget
<1>9. CASE Park
  BY <1>9, RowsRemain DEF Park, TypeOK, JobInv, Jobs, Done, Tried, MarkAside, folders,
     history, budget
<1>10. CASE Sweep
  BY <1>10, RowsRemain DEF Sweep, TypeOK, JobInv, Jobs, Done, Tried, MarkAside, folders,
     history, budget
<1>11. CASE Close
  BY <1>11, RowsRemain DEF Close, Freed, TypeOK, JobInv, Jobs, Done, Tried, MarkAside, folders,
     history, budget
<1>12. CASE SplitFails
  BY <1>12, RowsRemain DEF SplitFails, Freed, TypeOK, JobInv, Jobs, Done, Tried, MarkAside, folders,
     history, budget
<1>13. CASE ReadEnd
  BY <1>13, RowsRemain DEF ReadEnd, TypeOK, JobInv, Jobs, Done, Tried, MarkAside, folders,
     history, budget
<1>14. CASE Recover
  BY <1>14, RowsRemain DEF Recover, TypeOK, JobInv, Jobs, Done, Tried, MarkAside, folders,
     history, budget
<1>15. CASE TidyEnd
  BY <1>15, RowsRemain DEF TidyEnd, Idle, TypeOK, JobInv, Jobs, Done, Tried, MarkAside, folders,
     history, budget
<1>16. CASE Deliver
  BY <1>16, RowsRemain DEF Deliver, TypeOK, JobInv, Jobs, Done, Tried, MarkAside, folders,
     history, budget
<1>17. CASE Group
  BY <1>17, RowsRemain DEF Group, TypeOK, JobInv, Jobs, Done, Tried, MarkAside, folders,
     history, budget
<1>18. CASE Merge
  <2>1. job'.reads = Members BY <1>18 DEF Merge, TypeOK, Jobs
  <2>. QED BY <2>1, <1>18, RowsRemain DEF Merge, Members, MarkAside, folders, history,
              budget
<1>19. CASE SyncEnd
  BY <1>19, IdleFields, IdleJob DEF SyncEnd, TypeOK, Jobs, folders, history, budget
<1>20. CASE QuarantineCopy
  BY <1>20, RowsRemain DEF QuarantineCopy, TypeOK, JobInv, Jobs, Done, Tried, MarkAside, folders,
     history, budget
<1>21. CASE QuarantineRemove
  BY <1>21, RowsRemain DEF QuarantineRemove, TypeOK, JobInv, Jobs, Done, Tried, MarkAside,
     folders, history, budget
<1>22. CASE QuarantineReport
  BY <1>22, IdleFields, IdleJob DEF QuarantineReport, Back, Freed, TypeOK, Jobs, JobInv, folders,
     history, budget
<1>23. CASE Recopy
  BY <1>23, IdleFields, IdleJob DEF Recopy, TypeOK, Jobs, JobInv, folders, history,
     budget
<1>24. CASE MarkAside
  BY <1>24, IdleFields, IdleJob DEF MarkAside, TypeOK, Jobs, folders, history, budget
<1>25. CASE Crash
  BY <1>25, IdleFields, IdleJob DEF Crash, TypeOK, Jobs, folders, history, budget
<1>26. ASSUME NEW n \in Places, NEW c \in Contents, <<n, c>> \in job.todo,
             Leave(n, c)
      PROVE  Goal
  BY <1>26, RowsRemain DEF Leave, TypeOK, JobInv, Jobs, Done, Tried, MarkAside, folders,
     history, budget
<1>27. ASSUME NEW n \in Places, NEW c \in Contents, <<n, c>> \in job.todo,
             RejectMove(n, c)
      PROVE  Goal
  BY <1>27, RowsRemain DEF RejectMove, TypeOK, JobInv, Jobs, Done, Tried, MarkAside, folders,
     history, budget
<1>28. ASSUME NEW n \in Places, NEW c \in Contents, <<n, c>> \in job.todo,
             IngestKnown(n, c)
      PROVE  Goal
  BY <1>28, RowsRemain DEF IngestKnown, TypeOK, JobInv, Jobs, Done, Tried, MarkAside, folders,
     history, budget
<1>29. ASSUME NEW n \in Places, NEW c \in Contents, <<n, c>> \in job.todo,
             StoreNew(n, c)
      PROVE  Goal
  BY <1>29, RowsRemain DEF StoreNew, TypeOK, JobInv, Jobs, Done, Tried, MarkAside, folders,
     history, budget
<1>30. ASSUME NEW n \in Places, NEW c \in Contents, <<n, c>> \in job.found,
             ClearResent(n, c)
      PROVE  Goal
  BY <1>30, RowsRemain DEF ClearResent, TypeOK, JobInv, Jobs, Done, Tried, MarkAside, folders,
     history, budget
<1>31. ASSUME NEW c \in Contents, c \in job.reads, ReadNothing(c)
      PROVE  Goal
  BY <1>31, RowsRemain DEF ReadNothing, TypeOK, JobInv, Jobs, Done, Tried, MarkAside, folders,
     history, budget
<1>32. ASSUME NEW c \in Contents, c \in job.reads, ReadSingle(c)
      PROVE  Goal
  <2>1. Tried(c) \in Jobs /\ Tried(c).reads = job.reads
    BY TriedJob DEF Tried, TypeOK, Jobs
  <2>2. job'.reads = job.reads BY <1>32, <2>1 DEF ReadSingle, Jobs
  <2>. QED BY <2>2, <1>32, RowsRemain, Fields DEF ReadSingle, JobInv, Untried, MarkAside, TypeOK,
              folders, history, budget
<1>33. ASSUME NEW c \in Contents, c \in job.reads, ReadBroken(c)
      PROVE  Goal
  <2>1. Tried(c) \in Jobs /\ Tried(c).reads = job.reads
    BY TriedJob DEF Tried, TypeOK, Jobs
  <2>2. job'.reads = job.reads BY <1>33, <2>1 DEF ReadBroken, Jobs
  <2>. QED BY <2>2, <1>33, RowsRemain, Fields DEF ReadBroken, JobInv, Untried, MarkAside, TypeOK,
              folders, history, budget
<1>34. ASSUME NEW c \in Contents, c \in job.reads, ReadRecombined(c)
      PROVE  Goal
  BY <1>34, RowsRemain DEF ReadRecombined, TypeOK, JobInv, Jobs, Done, Tried, MarkAside, folders,
     history, budget
<1>35. ASSUME NEW c \in Contents, c \in job.reads, ReadUnsplit(c)
      PROVE  Goal
  BY <1>35, RowsRemain DEF ReadUnsplit, TypeOK, JobInv, Jobs, Done, Tried, MarkAside, folders,
     history, budget
<1>36. ASSUME NEW c \in Contents, NEW claim \in Claims, c \in job.reads,
             Clear(c, claim)
      PROVE  Goal
  BY <1>36, RowsRemain DEF Clear, TypeOK, JobInv, Jobs, Done, Tried, MarkAside, folders,
     history, budget
<1>37. ASSUME NEW c \in Contents, Quarantine(c)
      PROVE  Goal
  BY <1>37, RowsRemain DEF Quarantine, TypeOK, JobInv, Jobs, Done, Tried, MarkAside, folders,
     history, budget
<1>38. ASSUME NEW c \in Contents, Lose(c)
      PROVE  Goal
  BY <1>38, RowsRemain DEF Lose, TypeOK, JobInv, Jobs, Done, Tried, MarkAside, folders,
     history, budget
<1>39. ASSUME NEW c \in Contents, SetAside(c)
      PROVE  Goal
  BY <1>39, IdleFields, IdleJob DEF SetAside, TypeOK, Jobs, folders, history, budget
<1>40. ASSUME NEW c \in Files, NEW n \in Names, Drop(c, n)
      PROVE  Goal
  BY <1>40, RowsRemain DEF Drop, TypeOK, JobInv, Jobs, Done, Tried, MarkAside, folders,
     history, budget
<1>41. ASSUME NEW n \in Names, Finish(n)
      PROVE  Goal
  BY <1>41, RowsRemain DEF Finish, TypeOK, JobInv, Jobs, Done, Tried, MarkAside, folders,
     history, budget
<1>42. ASSUME NEW c \in Uploads, UploadBegin(c)
      PROVE  Goal
  BY <1>42, RowsRemain DEF UploadBegin, TypeOK, JobInv, Jobs, Done, Tried, MarkAside, folders,
     history, budget
<1>43. ASSUME NEW c \in Uploads, UploadLook(c)
      PROVE  Goal
  BY <1>43, RowsRemain DEF UploadLook, TypeOK, JobInv, Jobs, Done, Tried, MarkAside, folders,
     history, budget
<1>44. ASSUME NEW c \in Uploads, UploadAdd(c)
      PROVE  Goal
  BY <1>44, RowsRemain DEF UploadAdd, TypeOK, JobInv, Jobs, Done, Tried, MarkAside, folders,
     history, budget
<1>. HIDE DEF Goal
<1>. QED
  <2>1. CASE UNCHANGED vars
    BY <2>1, <1>1 DEF vars, folders, history, budget
  <2>2. CASE Next
    BY <2>2, <1>1, <1>2, <1>3, <1>4, <1>5, <1>6, <1>7, <1>8, <1>9, <1>10, <1>11, <1>12,
       <1>13, <1>14, <1>15, <1>16, <1>17, <1>18, <1>19, <1>20, <1>21, <1>22, <1>23,
       <1>24, <1>25, <1>26, <1>27, <1>28, <1>29, <1>30, <1>31, <1>32, <1>33, <1>34,
       <1>35, <1>36, <1>37, <1>38, <1>39, <1>40, <1>41, <1>42, <1>43, <1>44, Steps
  <2>. QED BY <2>1, <2>2

\* What a stage needs is there.
LEMMA StagesKept ==
  ASSUME IInv, [Next]_vars
  PROVE  /\ job'.at \in {"recording", "inserting"} =>
              job'.doc \in Contents /\ job'.name \in Places
              /\ (job'.doc \in Files => job'.name \in Names)
         /\ job'.at \in {"copying", "removing", "reporting", "recopying", "marking"} =>
              job'.doc \in Contents
         /\ job'.at = "delivering" => job'.reads \subseteq stored'
<1>. DEFINE Goal == /\ job'.at \in {"recording", "inserting"} =>
                         job'.doc \in Contents /\ job'.name \in Places
                         /\ (job'.doc \in Files => job'.name \in Names)
                    /\ job'.at \in {"copying", "removing", "reporting", "recopying", "marking"} =>
                         job'.doc \in Contents
                    /\ job'.at = "delivering" => job'.reads \subseteq stored'
<1>. SUFFICES Goal OBVIOUS
<1>. USE DEF IInv, At, Goto, Fault
<1>1. CASE UNCHANGED vars
  BY <1>1 DEF JobInv, vars, folders, history, budget
<1>2. CASE SyncStart
  BY <1>2 DEF SyncStart, TypeOK, JobInv, Jobs, Done, Tried, folders, history, budget
<1>3. CASE List
  BY <1>3 DEF List, TypeOK, JobInv, Jobs, Done, Tried, folders, history, budget
<1>4. CASE RejectRecord
  BY <1>4 DEF RejectRecord, Freed, TypeOK, JobInv, Jobs, Done, Tried, folders, history, budget
<1>5. CASE InsertNew
  <2>1. job'.at = "ingesting" BY <1>5 DEF InsertNew, Freed, TypeOK, Jobs
  <2>. QED BY <2>1
<1>6. CASE IngestEnd
  BY <1>6 DEF IngestEnd, TypeOK, JobInv, Jobs, Done, Tried, folders, history, budget
<1>7. CASE Condemn
  BY <1>7, Basics DEF Condemn, TypeOK, Jobs, SplitInv, Split, folders, history, budget
<1>8. CASE Cut
  BY <1>8 DEF Cut, TypeOK, JobInv, Jobs, Done, Tried, folders, history, budget
<1>9. CASE Park
  BY <1>9 DEF Park, TypeOK, JobInv, Jobs, Done, Tried, folders, history, budget
<1>10. CASE Sweep
  BY <1>10 DEF Sweep, TypeOK, JobInv, Jobs, Done, Tried, folders, history, budget
<1>11. CASE Close
  BY <1>11 DEF Close, Freed, TypeOK, JobInv, Jobs, Done, Tried, folders, history, budget
<1>12. CASE SplitFails
  BY <1>12 DEF SplitFails, Freed, TypeOK, JobInv, Jobs, Done, Tried, folders, history, budget
<1>13. CASE ReadEnd
  BY <1>13 DEF ReadEnd, TypeOK, JobInv, Jobs, Done, Tried, folders, history, budget
<1>14. CASE Recover
  BY <1>14 DEF Recover, TypeOK, JobInv, Jobs, Done, Tried, folders, history, budget
<1>15. CASE TidyEnd
  BY <1>15 DEF TidyEnd, Idle, TypeOK, JobInv, Jobs, Done, Tried, folders, history, budget
<1>16. CASE Deliver
  BY <1>16 DEF Deliver, TypeOK, JobInv, Jobs, Done, Tried, folders, history, budget
<1>17. CASE Group
  BY <1>17 DEF Group, TypeOK, JobInv, Jobs, Done, Tried, folders, history, budget
<1>18. CASE Merge
  BY <1>18 DEF Merge, TypeOK, JobInv, Jobs, Done, Tried, folders, history, budget
<1>19. CASE SyncEnd
  BY <1>19, IdleFields, IdleJob DEF SyncEnd, TypeOK, Jobs, folders, history, budget
<1>20. CASE QuarantineCopy
  BY <1>20 DEF QuarantineCopy, TypeOK, JobInv, Jobs, Done, Tried, folders, history,
     budget
<1>21. CASE QuarantineRemove
  BY <1>21 DEF QuarantineRemove, TypeOK, JobInv, Jobs, Done, Tried, folders, history,
     budget
<1>22. CASE QuarantineReport
  <2>1. CASE job' = [job EXCEPT !.at = "marking"]
    BY <2>1, <1>22 DEF QuarantineReport, TypeOK, Jobs, JobInv
  <2>2. CASE job.back # "marking" /\ job' = Freed(job.back)
    <3>1. job'.at \in {"idle", "reading", "tidying"} BY <2>2 DEF Freed, TypeOK, Jobs
    <3>. QED BY <3>1
  <2>3. CASE job' = Idle BY <2>3, IdleFields
  <2>. QED BY <2>1, <2>2, <2>3, <1>22 DEF QuarantineReport, Back
<1>23. CASE Recopy
  BY <1>23, IdleFields, IdleJob DEF Recopy, TypeOK, Jobs, JobInv, folders, history,
     budget
<1>24. CASE MarkAside
  BY <1>24, IdleFields, IdleJob DEF MarkAside, TypeOK, Jobs, folders, history, budget
<1>25. CASE Crash
  BY <1>25, IdleFields, IdleJob DEF Crash, TypeOK, Jobs, folders, history, budget
<1>26. ASSUME NEW n \in Places, NEW c \in Contents, <<n, c>> \in job.todo,
             Leave(n, c)
      PROVE  Goal
  BY <1>26 DEF Leave, TypeOK, JobInv, Jobs, Done, Tried, folders, history, budget
<1>27. ASSUME NEW n \in Places, NEW c \in Contents, <<n, c>> \in job.todo,
             RejectMove(n, c)
      PROVE  Goal
  BY <1>27 DEF RejectMove, TypeOK, JobInv, Jobs, Done, Tried, folders, history, budget
<1>28. ASSUME NEW n \in Places, NEW c \in Contents, <<n, c>> \in job.todo,
             IngestKnown(n, c)
      PROVE  Goal
  <2>1. job'.at = "ingesting" BY <1>28, DoneJob DEF IngestKnown, Turn, TypeOK, Jobs, Done
  <2>. QED BY <2>1
<1>29. ASSUME NEW n \in Places, NEW c \in Contents, <<n, c>> \in job.todo,
             StoreNew(n, c)
      PROVE  Goal
  BY <1>29 DEF StoreNew, TypeOK, JobInv, Jobs, Done, Tried, folders, history, budget
<1>30. ASSUME NEW n \in Places, NEW c \in Contents, <<n, c>> \in job.found,
             ClearResent(n, c)
      PROVE  Goal
  BY <1>30 DEF ClearResent, TypeOK, JobInv, Jobs, Done, Tried, folders, history, budget
<1>31. ASSUME NEW c \in Contents, c \in job.reads, ReadNothing(c)
      PROVE  Goal
  BY <1>31 DEF ReadNothing, TypeOK, JobInv, Jobs, Done, Tried, folders, history, budget
<1>32. ASSUME NEW c \in Contents, c \in job.reads, ReadSingle(c)
      PROVE  Goal
  BY <1>32 DEF ReadSingle, TypeOK, JobInv, Jobs, Done, Tried, folders, history, budget
<1>33. ASSUME NEW c \in Contents, c \in job.reads, ReadBroken(c)
      PROVE  Goal
  BY <1>33 DEF ReadBroken, TypeOK, JobInv, Jobs, Done, Tried, folders, history, budget
<1>34. ASSUME NEW c \in Contents, c \in job.reads, ReadRecombined(c)
      PROVE  Goal
  <2>1. job'.at = "copying" /\ job'.doc = row[c].parent
    BY <1>34, TriedJob DEF ReadRecombined, TypeOK, Jobs
  <2>. QED BY <2>1, <1>34, RowFields, Basics DEF ReadRecombined, Recombines, JobInv, TypeOK,
              folders, history, budget
<1>35. ASSUME NEW c \in Contents, c \in job.reads, ReadUnsplit(c)
      PROVE  Goal
  BY <1>35 DEF ReadUnsplit, TypeOK, JobInv, Jobs, Done, Tried, folders, history, budget
<1>36. ASSUME NEW c \in Contents, NEW claim \in Claims, c \in job.reads,
             Clear(c, claim)
      PROVE  Goal
  BY <1>36 DEF Clear, TypeOK, JobInv, Jobs, Done, Tried, folders, history, budget
<1>37. ASSUME NEW c \in Contents, Quarantine(c)
      PROVE  Goal
  BY <1>37 DEF Quarantine, TypeOK, JobInv, Jobs, Done, Tried, folders, history, budget
<1>38. ASSUME NEW c \in Contents, Lose(c)
      PROVE  Goal
  BY <1>38, IdleFields, Basics DEF Lose, JobInv, folders, history, budget
<1>39. ASSUME NEW c \in Contents, SetAside(c)
      PROVE  Goal
  BY <1>39, IdleFields, IdleJob DEF SetAside, TypeOK, Jobs, JobInv, folders, history,
     budget
<1>40. ASSUME NEW c \in Files, NEW n \in Names, Drop(c, n)
      PROVE  Goal
  BY <1>40 DEF Drop, TypeOK, JobInv, Jobs, Done, Tried, folders, history, budget
<1>41. ASSUME NEW n \in Names, Finish(n)
      PROVE  Goal
  BY <1>41 DEF Finish, TypeOK, JobInv, Jobs, Done, Tried, folders, history, budget
<1>42. ASSUME NEW c \in Uploads, UploadBegin(c)
      PROVE  Goal
  BY <1>42 DEF UploadBegin, TypeOK, JobInv, Jobs, Done, Tried, folders, history, budget
<1>43. ASSUME NEW c \in Uploads, UploadLook(c)
      PROVE  Goal
  BY <1>43 DEF UploadLook, TypeOK, JobInv, Jobs, Done, Tried, folders, history, budget
<1>44. ASSUME NEW c \in Uploads, UploadAdd(c)
      PROVE  Goal
  BY <1>44 DEF UploadAdd, TypeOK, JobInv, Jobs, Done, Tried, folders, history, budget
<1>. HIDE DEF Goal
<1>. QED
  <2>1. CASE UNCHANGED vars
    BY <2>1, <1>1 DEF vars, folders, history, budget
  <2>2. CASE Next
    BY <2>2, <1>1, <1>2, <1>3, <1>4, <1>5, <1>6, <1>7, <1>8, <1>9, <1>10, <1>11, <1>12,
       <1>13, <1>14, <1>15, <1>16, <1>17, <1>18, <1>19, <1>20, <1>21, <1>22, <1>23,
       <1>24, <1>25, <1>26, <1>27, <1>28, <1>29, <1>30, <1>31, <1>32, <1>33, <1>34,
       <1>35, <1>36, <1>37, <1>38, <1>39, <1>40, <1>41, <1>42, <1>43, <1>44, Steps
  <2>. QED BY <2>1, <2>2

\* The steps that begin a split, go on with it, or leave it where it is.
LEMMA SplitSteps ==
  ASSUME IInv, job'.at \in Split, [Next]_vars
  PROVE  \/ \E c \in Contents, claim \in Claims : c \in job.reads /\ Clear(c, claim)
         \/ Cut \/ Park \/ Sweep
         \/ job' = job /\ \/ UNCHANGED vars
                          \/ \E f \in Files, n \in Names : Drop(f, n)
                          \/ \E n \in Names : Finish(n)
                          \/ \E c \in Uploads : UploadBegin(c) \/ UploadLook(c) \/ UploadAdd(c)
<1>. DEFINE Goal == \/ \E c \in Contents, claim \in Claims : c \in job.reads /\ Clear(c, claim)
                    \/ Cut \/ Park \/ Sweep
                    \/ job' = job /\ \/ UNCHANGED vars
                                     \/ \E f \in Files, n \in Names : Drop(f, n)
                                     \/ \E n \in Names : Finish(n)
                                     \/ \E c \in Uploads : UploadBegin(c) \/ UploadLook(c) \/ UploadAdd(c)
<1>. SUFFICES Goal OBVIOUS
<1>. USE DEF IInv, At, Goto, Fault
<1>1. CASE UNCHANGED vars
  BY <1>1 DEF vars
<1>2. CASE SyncStart
  BY <1>2 DEF SyncStart, Split, TypeOK, Jobs, Done, Tried, Untried, Turn
<1>3. CASE List
  BY <1>3 DEF List, Split, TypeOK, Jobs, Done, Tried, Untried, Turn
<1>4. CASE RejectRecord
  BY <1>4 DEF RejectRecord, Freed, Split, TypeOK, Jobs, Done, Tried, Untried, Turn
<1>5. CASE InsertNew
  BY <1>5 DEF InsertNew, Freed, Split, TypeOK, Jobs, Done, Tried, Untried, Turn
<1>6. CASE IngestEnd
  BY <1>6 DEF IngestEnd, Split, TypeOK, Jobs, Done, Tried, Untried, Turn
<1>7. CASE Condemn
  BY <1>7 DEF Condemn, Split, TypeOK, Jobs, Done, Tried, Untried, Turn
<1>8. CASE Cut
  BY <1>8
<1>9. CASE Park
  BY <1>9
<1>10. CASE Sweep
  BY <1>10
<1>11. CASE Close
  BY <1>11 DEF Close, Freed, Split, TypeOK, Jobs, Done, Tried, Untried, Turn
<1>12. CASE SplitFails
  BY <1>12 DEF SplitFails, Freed, Split, TypeOK, Jobs, Done, Tried, Untried, Turn
<1>13. CASE ReadEnd
  BY <1>13 DEF ReadEnd, Split, TypeOK, Jobs, Done, Tried, Untried, Turn
<1>14. CASE Recover
  BY <1>14 DEF Recover, Split, TypeOK, Jobs, Done, Tried, Untried, Turn
<1>15. CASE TidyEnd
  BY <1>15 DEF TidyEnd, Idle, Split, TypeOK, Jobs, Done, Tried, Untried, Turn
<1>16. CASE Deliver
  BY <1>16 DEF Deliver, Split, TypeOK, Jobs, Done, Tried, Untried, Turn
<1>17. CASE Group
  BY <1>17 DEF Group, Split, TypeOK, Jobs, Done, Tried, Untried, Turn
<1>18. CASE Merge
  BY <1>18 DEF Merge, Split, TypeOK, Jobs, Done, Tried, Untried, Turn
<1>19. CASE SyncEnd
  BY <1>19, IdleFields, IdleJob DEF SyncEnd, Split, TypeOK, Jobs
<1>20. CASE QuarantineCopy
  BY <1>20 DEF QuarantineCopy, Split, TypeOK, Jobs, Done, Tried, Untried, Turn
<1>21. CASE QuarantineRemove
  BY <1>21 DEF QuarantineRemove, Split, TypeOK, Jobs, Done, Tried, Untried, Turn
<1>22. CASE QuarantineReport
  <2>1. job'.at \in {"idle", "reading", "tidying", "marking"}
    BY <1>22, IdleFields DEF QuarantineReport, Back, Freed, TypeOK, Jobs
  <2>. QED BY <2>1 DEF Split
<1>23. CASE Recopy
  BY <1>23, IdleFields, IdleJob DEF Recopy, Split, TypeOK, Jobs
<1>24. CASE MarkAside
  BY <1>24, IdleFields, IdleJob DEF MarkAside, Split, TypeOK, Jobs
<1>25. CASE Crash
  BY <1>25, IdleFields, IdleJob DEF Crash, Split, TypeOK, Jobs
<1>26. ASSUME NEW n \in Places, NEW c \in Contents, <<n, c>> \in job.todo,
             Leave(n, c)
      PROVE  Goal
  BY <1>26 DEF Leave, Split, TypeOK, Jobs, Done, Tried, Untried, Turn
<1>27. ASSUME NEW n \in Places, NEW c \in Contents, <<n, c>> \in job.todo,
             RejectMove(n, c)
      PROVE  Goal
  BY <1>27 DEF RejectMove, Split, TypeOK, Jobs, Done, Tried, Untried, Turn
<1>28. ASSUME NEW n \in Places, NEW c \in Contents, <<n, c>> \in job.todo,
             IngestKnown(n, c)
      PROVE  Goal
  BY <1>28 DEF IngestKnown, Split, TypeOK, Jobs, Done, Tried, Untried, Turn
<1>29. ASSUME NEW n \in Places, NEW c \in Contents, <<n, c>> \in job.todo,
             StoreNew(n, c)
      PROVE  Goal
  BY <1>29 DEF StoreNew, Split, TypeOK, Jobs, Done, Tried, Untried, Turn
<1>30. ASSUME NEW n \in Places, NEW c \in Contents, <<n, c>> \in job.found,
             ClearResent(n, c)
      PROVE  Goal
  BY <1>30 DEF ClearResent, Split, TypeOK, Jobs, Done, Tried, Untried, Turn
<1>31. ASSUME NEW c \in Contents, c \in job.reads, ReadNothing(c)
      PROVE  Goal
  BY <1>31 DEF ReadNothing, Split, TypeOK, Jobs, Done, Tried, Untried, Turn
<1>32. ASSUME NEW c \in Contents, c \in job.reads, ReadSingle(c)
      PROVE  Goal
  BY <1>32 DEF ReadSingle, Split, TypeOK, Jobs, Done, Tried, Untried, Turn
<1>33. ASSUME NEW c \in Contents, c \in job.reads, ReadBroken(c)
      PROVE  Goal
  BY <1>33 DEF ReadBroken, Split, TypeOK, Jobs, Done, Tried, Untried, Turn
<1>34. ASSUME NEW c \in Contents, c \in job.reads, ReadRecombined(c)
      PROVE  Goal
  BY <1>34 DEF ReadRecombined, Split, TypeOK, Jobs, Done, Tried, Untried, Turn
<1>35. ASSUME NEW c \in Contents, c \in job.reads, ReadUnsplit(c)
      PROVE  Goal
  BY <1>35 DEF ReadUnsplit, Split, TypeOK, Jobs, Done, Tried, Untried, Turn
<1>36. ASSUME NEW c \in Contents, NEW claim \in Claims, c \in job.reads,
             Clear(c, claim)
      PROVE  Goal
  BY <1>36
<1>37. ASSUME NEW c \in Contents, Quarantine(c)
      PROVE  Goal
  BY <1>37 DEF Quarantine, Split, TypeOK, Jobs, Done, Tried, Untried, Turn
<1>38. ASSUME NEW c \in Contents, Lose(c)
      PROVE  Goal
  BY <1>38, IdleFields DEF Lose, Split, JobInv
<1>39. ASSUME NEW c \in Contents, SetAside(c)
      PROVE  Goal
  BY <1>39, IdleFields, IdleJob DEF SetAside, Split, TypeOK, Jobs
<1>40. ASSUME NEW c \in Files, NEW n \in Names, Drop(c, n)
      PROVE  Goal
  <2>1. job' = job BY <1>40 DEF Drop
  <2>. QED BY <2>1, <1>40
<1>41. ASSUME NEW n \in Names, Finish(n)
      PROVE  Goal
  <2>1. job' = job BY <1>41 DEF Finish
  <2>. QED BY <2>1, <1>41
<1>42. ASSUME NEW c \in Uploads, UploadBegin(c)
      PROVE  Goal
  <2>1. job' = job BY <1>42 DEF UploadBegin
  <2>. QED BY <2>1, <1>42
<1>43. ASSUME NEW c \in Uploads, UploadLook(c)
      PROVE  Goal
  <2>1. job' = job BY <1>43 DEF UploadLook
  <2>. QED BY <2>1, <1>43
<1>44. ASSUME NEW c \in Uploads, UploadAdd(c)
      PROVE  Goal
  <2>1. job' = job BY <1>44 DEF UploadAdd
  <2>. QED BY <2>1, <1>44
<1>. HIDE DEF Goal
<1>. QED
  <2>1. CASE UNCHANGED vars
    BY <2>1, <1>1 DEF vars, folders, history, budget
  <2>2. CASE Next
    BY <2>2, <1>1, <1>2, <1>3, <1>4, <1>5, <1>6, <1>7, <1>8, <1>9, <1>10, <1>11, <1>12,
       <1>13, <1>14, <1>15, <1>16, <1>17, <1>18, <1>19, <1>20, <1>21, <1>22, <1>23,
       <1>24, <1>25, <1>26, <1>27, <1>28, <1>29, <1>30, <1>31, <1>32, <1>33, <1>34,
       <1>35, <1>36, <1>37, <1>38, <1>39, <1>40, <1>41, <1>42, <1>43, <1>44, Steps
  <2>. QED BY <2>1, <2>2

\* A split under way stays one until it is closed or given up.
LEMMA SplitKept ==
  ASSUME IInv, [Next]_vars
  PROVE  SplitInv'
<1>. SUFFICES ASSUME job'.at \in Split PROVE SplitInv'
  BY DEF SplitInv, Split, At
<1>. USE DEF IInv, At, Goto
<1>1. ASSUME NEW c \in Contents, NEW claim \in Claims, c \in job.reads, Clear(c, claim)
      PROVE  SplitInv'
  <2>1. /\ job'.doc = c /\ job'.claim = claim /\ job'.next = 1
        /\ job'.at = IF Refused(claim) THEN "condemning" ELSE "cutting"
    BY <1>1, TriedJob DEF Clear, TypeOK, Jobs
  <2>2. /\ c \in Files /\ Kind[c] = "combined" /\ c \in stored' /\ row[c] # None
        /\ row[c].split # "done" /\ row' = row
    BY <1>1, Basics DEF Clear, Combines, KindOf, AlreadyRead, JobInv, RowsInv
  <2>3. CASE Refused(claim)
    BY <2>1, <2>2, <2>3 DEF SplitInv, Split
  <2>4. CASE ~Refused(claim)
    BY <2>1, <2>2, <2>4, KeptParts, Numbers DEF SplitInv, Split
  <2>. QED BY <2>3, <2>4
<1>2. ASSUME job.at \in Split \ {"condemning"}, job'.at \in Split \ {"condemning"},
             job'.doc = job.doc, job'.claim = job.claim, row' = row, stored' = stored,
             At("cutting")' => job'.next \in 1..Cardinality(Kept(job.claim)),
             \A i \in Kept(job.claim) :
               (At("cutting")' => Number(job.claim, i) < job'.next) =>
                  input'[<<job.doc, Number(job.claim, i)>>] = Written(job.doc, job.claim, i)
      PROVE  SplitInv'
  BY <1>2 DEF SplitInv, Split
<1>3. CASE Cut
  <2>1. PICK i \in Kept(job.claim) : Number(job.claim, i) = job.next
          /\ input' = [input EXCEPT ![<<job.doc, job.next>>] = Written(job.doc, job.claim, i)]
    BY <1>3 DEF Cut
  <2>2. /\ job'.doc = job.doc /\ job'.claim = job.claim /\ job'.next = job.next + 1
        /\ job'.at = IF job.next = Cardinality(Kept(job.claim)) THEN "parking" ELSE "cutting"
    BY <1>3 DEF Cut, TypeOK, Jobs
  <2>3. /\ job.next \in 1..Cardinality(Kept(job.claim)) /\ ~Refused(job.claim)
        /\ job.claim \in Claims /\ job.doc \in Files /\ Kind[job.doc] = "combined"
        /\ Cardinality(Kept(job.claim)) \in Nat
    BY <1>3, KeptParts DEF Cut, SplitInv, Split
  <2>4. ASSUME NEW j \in Kept(job.claim),
               At("cutting")' => Number(job.claim, j) < job'.next
        PROVE  input'[<<job.doc, Number(job.claim, j)>>] = Written(job.doc, job.claim, j)
    <3>1. <<job.doc, Number(job.claim, j)>> \in Places
      BY <2>3, WrittenPart, Basics
    <3>2. Number(job.claim, j) \in 1..Cardinality(Kept(job.claim))
      BY <2>3, Numbers
    <3>3. CASE Number(job.claim, j) = job.next
      <4>1. j = i BY <2>1, <2>3, <3>3, Numbers
      <4>. QED BY <2>1, <3>1, <3>3, <4>1 DEF TypeOK
    <3>4. CASE Number(job.claim, j) # job.next
      <4>1. Number(job.claim, j) < job.next BY <2>2, <2>3, <2>4, <3>2, <3>4
      <4>2. input[<<job.doc, Number(job.claim, j)>>] = Written(job.doc, job.claim, j)
        BY <1>3, <4>1 DEF Cut, SplitInv, Split
      <4>. QED BY <2>1, <3>1, <3>4, <4>2 DEF TypeOK
    <3>. QED BY <3>3, <3>4
  <2>5. At("cutting")' => job'.next \in 1..Cardinality(Kept(job.claim)) BY <2>2, <2>3
  <2>6. job.at \in Split \ {"condemning"} /\ job'.at \in Split \ {"condemning"}
    BY <1>3, <2>2 DEF Cut, Split
  <2>7. row' = row /\ stored' = stored BY <1>3 DEF Cut
  <2>. QED BY <1>2, <2>2, <2>4, <2>5, <2>6, <2>7
<1>4. CASE Park
  <2>1. /\ job.doc \in Files /\ row[job.doc].name \in Names /\ job.claim \in Claims
        /\ Kind[job.doc] = "combined" /\ ~Refused(job.claim)
    BY <1>4 DEF Park, RowsInv, SplitInv, Split
  <2>2. /\ job'.doc = job.doc /\ job'.claim = job.claim
        /\ job.at = "parking" /\ job'.at \in {"sweeping", "closing"}
        /\ row' = row /\ stored' = stored
    BY <1>4 DEF Park, TypeOK, Jobs
  <2>3. \A n \in PartNames : input'[n] = input[n]
    BY <1>4, <2>1, Basics DEF Park, Without
  <2>4. \A i \in Kept(job.claim) :
          input'[<<job.doc, Number(job.claim, i)>>] = Written(job.doc, job.claim, i)
    BY <2>1, <2>2, <2>3, WrittenPart DEF SplitInv, Split
  <2>. QED BY <1>2, <2>2, <2>4 DEF Split
<1>5. CASE Sweep
  <2>1. /\ job.doc \in Files /\ job.claim \in Claims
        /\ Kind[job.doc] = "combined" /\ ~Refused(job.claim)
    BY <1>5 DEF Sweep, SplitInv, Split
  <2>2. /\ job'.doc = job.doc /\ job'.claim = job.claim
        /\ job.at = "sweeping" /\ job'.at = "closing"
        /\ row' = row /\ stored' = stored
    BY <1>5 DEF Sweep, TypeOK, Jobs
  <2>3. \A n \in PartNames : input'[n] = input[n]
    BY <1>5, <2>1, Basics DEF Sweep, Without, CopiesOf, Complete, Holds, PlacesInv
  <2>4. \A i \in Kept(job.claim) :
          input'[<<job.doc, Number(job.claim, i)>>] = Written(job.doc, job.claim, i)
    BY <2>1, <2>2, <2>3, WrittenPart DEF SplitInv, Split
  <2>. QED BY <1>2, <2>2, <2>4 DEF Split
<1>6. ASSUME job' = job, stored \subseteq stored', \A n \in PartNames : input'[n] = input[n],
             ~Close, ~MarkAside
      PROVE  SplitInv'
  <2>1. job.at \in Split /\ SplitInv BY <1>6
  <2>2. /\ job.doc \in Files /\ job.doc \in Contents /\ Kind[job.doc] = "combined"
        /\ row[job.doc] # None /\ row[job.doc].split # "done"
    BY <2>1, Basics DEF SplitInv
  <2>3. row'[job.doc] # None /\ row'[job.doc].split # "done"
    BY <2>2, <1>6, RowEffects
  <2>4. job.at # "condemning" => \A i \in Kept(job.claim) :
          input'[<<job.doc, Number(job.claim, i)>>] = input[<<job.doc, Number(job.claim, i)>>]
    BY <2>1, <2>2, <1>6, WrittenPart DEF SplitInv, Split
  <2>. QED BY <2>1, <2>2, <2>3, <2>4, <1>6 DEF SplitInv, Split
<1>7. CASE job' = job /\ UNCHANGED vars
  BY <1>7 DEF SplitInv, vars, folders, Split
<1>8. ASSUME job' = job, NEW c \in Files, NEW n \in Names, Drop(c, n) PROVE SplitInv'
  <2>1. \A m \in PartNames : input'[m] = input[m] BY <1>8, Basics DEF Drop, TypeOK
  <2>2. ~Close /\ ~MarkAside BY <1>8 DEF Close, Freed, MarkAside, TypeOK, Jobs, Split
  <2>. QED BY <1>6, <1>8, <2>1, <2>2 DEF Drop
<1>9. ASSUME job' = job, NEW n \in Names, Finish(n) PROVE SplitInv'
  <2>1. \A m \in PartNames : input'[m] = input[m] BY <1>9, Basics DEF Finish, TypeOK
  <2>2. ~Close /\ ~MarkAside BY <1>9 DEF Close, Freed, MarkAside, TypeOK, Jobs, Split
  <2>. QED BY <1>6, <1>9, <2>1, <2>2 DEF Finish
<1>10. ASSUME job' = job, NEW c \in Uploads,
              UploadBegin(c) \/ UploadLook(c) \/ UploadAdd(c)
       PROVE  SplitInv'
  BY <1>6, <1>10 DEF UploadBegin, UploadLook, UploadAdd, Close, MarkAside, folders,
     Split
<1>. QED BY <1>1, <1>3, <1>4, <1>5, <1>7, <1>8, <1>9, <1>10, SplitSteps

\* Stored and kept copies go only when somebody removes them, and combined/ only grows.
LEMMA StoresGrow ==
  ASSUME IInv, [Next]_vars
  PROVE  /\ (stored \subseteq stored' /\ kept \subseteq kept') \/ \E c \in Contents : Lose(c)
         /\ \A n \in Places : parked[n] # None => parked'[n] = parked[n]
         /\ parked' = parked \/ Park
<1>. DEFINE Goal == /\ (stored \subseteq stored' /\ kept \subseteq kept') \/ \E c \in Contents : Lose(c)
                    /\ \A n \in Places : parked[n] # None => parked'[n] = parked[n]
                    /\ parked' = parked \/ Park
<1>. SUFFICES Goal OBVIOUS
<1>. USE DEF folders, history, budget
<1>1. CASE SyncStart \/ List \/ RejectRecord \/ InsertNew \/ IngestEnd \/ Condemn
          \/ Cut \/ Sweep
  BY <1>1 DEF SyncStart, List, RejectRecord, InsertNew, IngestEnd, Condemn, Cut, Sweep
<1>2. CASE Close \/ SplitFails \/ ReadEnd \/ Recover \/ TidyEnd \/ Deliver \/ Group
          \/ Merge
  BY <1>2 DEF Close, Freed, SplitFails, ReadEnd, Recover, TidyEnd, Deliver, Group, Merge
<1>3. CASE SyncEnd \/ QuarantineCopy \/ QuarantineRemove \/ QuarantineReport
          \/ Recopy \/ MarkAside \/ Crash
  BY <1>3 DEF SyncEnd, QuarantineCopy, QuarantineRemove, QuarantineReport, Recopy,
           MarkAside, Crash
<1>4. CASE Park BY <1>4 DEF Park, IInv, TypeOK
<1>5. ASSUME NEW n \in Places, NEW c \in Contents, <<n, c>> \in job.todo,
             Leave(n, c) \/ RejectMove(n, c) \/ IngestKnown(n, c) \/ StoreNew(n, c)
      PROVE  Goal
  BY <1>5 DEF Leave, RejectMove, IngestKnown, StoreNew
<1>6. ASSUME NEW n \in Places, NEW c \in Contents, <<n, c>> \in job.found,
             ClearResent(n, c)
      PROVE  Goal
  BY <1>6 DEF ClearResent
<1>7. ASSUME NEW c \in Contents, c \in job.reads,
             ReadNothing(c) \/ ReadSingle(c) \/ ReadBroken(c) \/ ReadRecombined(c)
             \/ ReadUnsplit(c)
      PROVE  Goal
  BY <1>7 DEF ReadNothing, ReadSingle, ReadBroken, ReadRecombined, ReadUnsplit
<1>8. ASSUME NEW c \in Contents, NEW claim \in Claims, c \in job.reads,
             Clear(c, claim)
      PROVE  Goal
  BY <1>8 DEF Clear
<1>9. ASSUME NEW c \in Contents,
             Quarantine(c) \/ SetAside(c)
      PROVE  Goal
  BY <1>9 DEF Quarantine, SetAside
<1>10. ASSUME NEW c \in Files, NEW n \in Names,
             Drop(c, n)
      PROVE  Goal
  BY <1>10 DEF Drop
<1>11. ASSUME NEW n \in Names,
             Finish(n)
      PROVE  Goal
  BY <1>11 DEF Finish
<1>12. ASSUME NEW c \in Uploads,
             UploadBegin(c) \/ UploadLook(c) \/ UploadAdd(c)
      PROVE  Goal
  BY <1>12 DEF UploadBegin, UploadLook, UploadAdd
<1>13. ASSUME NEW c \in Contents, Lose(c) PROVE Goal
  BY <1>13 DEF Lose
<1>14. CASE UNCHANGED vars BY <1>14 DEF vars
<1>. HIDE DEF Goal
<1>. QED BY <1>1, <1>2, <1>3, <1>4, <1>5, <1>6, <1>7, <1>8, <1>9, <1>10, <1>11, <1>12,
         <1>13, <1>14, Steps DEF IInv

\* The last copy of a content does not go unless somebody removes it, a split is parked
\* over it, or it is a part of a combined file that is cut again.
CutAgain(x) ==
  /\ x \in Parts
  /\ \/ Cut /\ x[1] = job.doc
     \/ \E c \in Contents, claim \in Claims :
          c \in job.reads /\ Clear(c, claim) /\ x[1] = c

\* A content that is somewhere stays somewhere, unless a person or the parking of another
\* file takes its last copy, or a new split of its parent clears it.
LEMMA CopiesStay ==
  ASSUME IInv, [Next]_vars, NEW x \in Contents, Somewhere(x)
  PROVE  Somewhere(x)' \/ x \in lost' \/ CutAgain(x)
<1>. DEFINE Goal == Somewhere(x)' \/ x \in lost' \/ CutAgain(x)
<1>. SUFFICES Goal OBVIOUS
<1>1. CASE \E c \in Contents : Lose(c)
  <2>1. PICK c \in Contents : Lose(c) BY <1>1
  <2>2. CASE c = x BY <2>1, <2>2 DEF Lose
  <2>3. CASE c # x
    BY <2>1, <2>3 DEF Lose, Somewhere, CopiesOf, Complete, Holds, Parked
  <2>. QED BY <2>2, <2>3
<1>2. CASE x \in stored \cup kept /\ stored \subseteq stored' /\ kept \subseteq kept'
  BY <1>2 DEF Somewhere
<1>3. CASE Parked(x)
  <2>1. PICK n \in Places : parked[n] = [body |-> x, growing |-> FALSE]
    BY <1>3 DEF Parked
  <2>2. parked[n] # None
    <3>1. [body |-> x, growing |-> FALSE] \in Copies BY DEF Copies
    <3>. QED BY <2>1, <3>1, Basics
  <2>. QED BY <2>1, <2>2, StoresGrow DEF Somewhere, Parked
<1>4. ASSUME NEW n \in Places, Complete(n, x), ~Complete(n, x)'
      PROVE  Goal
  <2>. USE DEF IInv, At, Goto
  <2>1. input[n] # None /\ input[n].body = x /\ ~input[n].growing /\ input'[n] # input[n]
    BY <1>4 DEF Complete, Holds
  <2>2. ASSUME x \in stored' \cup kept' PROVE Goal BY <2>2 DEF Somewhere
  <2>3. CASE Sweep \/ Deliver
    BY <2>1, <2>2, <2>3 DEF Sweep, Deliver, Without, CopiesOf, Complete, Holds, SplitInv,
       Split, JobInv
  <2>4. CASE QuarantineRemove \/ Recopy
    BY <2>1, <2>2, <2>4 DEF QuarantineRemove, Recopy, Without, CopiesOf, Complete, Holds
  <2>5. ASSUME NEW m \in Places, NEW c \in Contents, RejectMove(m, c) PROVE Goal
    BY <2>1, <2>2, <2>5 DEF RejectMove, Without, Complete, Holds
  <2>6. ASSUME NEW m \in Places, NEW c \in Contents, ClearResent(m, c) PROVE Goal
    BY <2>1, <2>2, <2>6 DEF ClearResent, Without, Complete, Holds
  <2>7. ASSUME NEW c \in Files, NEW m \in Names, Drop(c, m) PROVE Goal
    BY <2>1, <2>7 DEF Drop, TypeOK
  <2>8. ASSUME NEW m \in Names, Finish(m) PROVE Goal
    BY <2>1, <2>8 DEF Finish, TypeOK
  <2>9. CASE Cut
    <3>1. n = <<job.doc, job.next>> /\ n \in PartNames
      BY <2>1, <2>9, WrittenPart DEF Cut, TypeOK, SplitInv, Split
    <3>. QED BY <2>1, <2>9, <3>1 DEF PlacesInv, CutAgain
  <2>10. ASSUME NEW c \in Contents, NEW claim \in Claims, c \in job.reads, Clear(c, claim)
         PROVE  Goal
    <3>1. n \in {c} \X (1..Pages) /\ c \in Files /\ Kind[c] = "combined"
      BY <2>1, <2>10, Basics DEF Clear, Without, Combines, KindOf
    <3>2. n \in PartNames /\ n[1] = c BY <3>1 DEF PartNames
    <3>. QED BY <2>1, <2>10, <3>2 DEF PlacesInv, CutAgain
  <2>11. CASE Park
    <3>1. \E other \in Contents :
            /\ Holds(n, other)
            /\ parked' = IF parked[n] # None THEN parked ELSE [parked EXCEPT ![n] = input[n]]
            /\ lost' = IF Somewhere(other)' THEN lost ELSE lost \cup {other}
      BY <2>1, <2>11 DEF Park, Without
    <3>. QED BY <2>1, <3>1 DEF Holds
  <2>12. CASE UNCHANGED <<input, parked>> BY <2>1, <2>12
  <2>13. CASE UNCHANGED vars BY <2>1, <2>13 DEF vars, folders
  <2>. HIDE DEF Goal
  <2>. QED BY <2>3, <2>4, <2>5, <2>6, <2>7, <2>8, <2>9, <2>10, <2>11, <2>12, <2>13, InputSteps
<1>5. CASE \E n \in Places : Complete(n, x) /\ Complete(n, x)'
  BY <1>5 DEF Somewhere, CopiesOf
<1>. HIDE DEF Goal
<1>. QED BY <1>1, <1>2, <1>3, <1>4, <1>5, StoresGrow DEF Somewhere, CopiesOf

\* A file that has arrived is somewhere after every step.
LEMMA VanishKept ==
  ASSUME IInv, [Next]_vars
  PROVE  NothingVanishes'
<1>. SUFFICES ASSUME NEW f \in arrived', f \notin lost' PROVE Somewhere(f)'
  BY DEF NothingVanishes
<1>1. CASE f \in arrived \ lost
  <2>1. f \in Files BY <1>1 DEF IInv, TypeOK
  <2>. QED BY <1>1, <2>1, CopiesStay, Basics DEF IInv, NothingVanishes, CutAgain
<1>2. CASE \E n \in Names : Finish(n)
  <2>1. PICK n \in Names : Finish(n) BY <1>2
  <2>2. CASE f = input[n].body
    <3>1. n \in Places /\ input[n] \in Copies BY <2>1, Basics DEF Finish, IInv, TypeOK
    <3>2. input'[n] = [input[n] EXCEPT !.growing = FALSE]
      BY <2>1, <3>1 DEF Finish, IInv, TypeOK
    <3>3. input'[n] \in Copies /\ input'[n].body = f /\ ~input'[n].growing
      BY <2>2, <3>1, <3>2 DEF Copies
    <3>. QED BY <3>1, <3>3, Basics DEF Somewhere, CopiesOf, Complete, Holds
  <2>3. CASE f # input[n].body
    BY <1>1, <2>1, <2>3 DEF Finish
  <2>. QED BY <2>2, <2>3
<1>3. ASSUME f \notin arrived \/ f \in lost
      PROVE  \E n \in Names : Finish(n)
  BY <1>3, HistoryGrows
<1>. QED BY <1>1, <1>2, <1>3

\* The parts of a completed split are somewhere: when it is closed all of them lie in the
\* input folder, and later no split cuts over them, since their parent is not split again.
LEMMA CompleteKept ==
  ASSUME IInv, [Next]_vars
  PROVE  SplitIsComplete'
<1>. USE DEF IInv, At
<1>. SUFFICES ASSUME NEW f \in Files, row'[f] # None, row'[f].split = "done",
                     NEW p \in cut'[f], p \notin lost'
              PROVE  Somewhere(p)'
  BY DEF SplitIsComplete
<1>1. CASE Close /\ f = job.doc
  <2>1. /\ job.claim \in Claims /\ ~Refused(job.claim) /\ Kind[f] = "combined"
        /\ UNCHANGED folders
    BY <1>1 DEF Close, Freed, SplitInv, Split
  <2>2. PICK i \in Kept(job.claim) : p = PartOf(f, job.claim, i)
    BY <1>1 DEF Close, Freed, TypeOK
  <2>3. input[<<f, Number(job.claim, i)>>] = Written(f, job.claim, i)
    BY <1>1, <2>2 DEF Close, Freed, SplitInv, Split
  <2>4. <<f, Number(job.claim, i)>> \in Places /\ Written(f, job.claim, i) \in Copies
    BY <2>1, <2>2, WrittenPart, Basics
  <2>5. Complete(<<f, Number(job.claim, i)>>, p)
    <3>1. input[<<f, Number(job.claim, i)>>] # None BY <2>3, <2>4, Basics
    <3>. QED BY <2>2, <2>3, <3>1 DEF Complete, Holds, Written
  <2>6. CopiesOf(p)' # {}
    BY <2>1, <2>4, <2>5 DEF CopiesOf, Complete, Holds, folders
  <2>. QED BY <2>6 DEF Somewhere
<1>2. CASE ~(Close /\ f = job.doc)
  <2>1. row[f] # None /\ row[f].split = "done" /\ row[f].status = "valid"
    BY <1>2, RowEffects, Basics DEF RowsInv
  <2>2. cut'[f] = cut[f]
    BY <1>2, HistoryGrows DEF Close, Freed, TypeOK
  <2>3. p \in Parts /\ p \in Contents /\ p[1] = f
    BY <2>2, Basics DEF TypeOK, RowsInv
  <2>4. p \notin lost
    <3>1. CASE lost \subseteq lost' BY <3>1
    <3>2. CASE \E n \in Names : Finish(n)
      BY <2>3, <3>2, Basics DEF Finish, PlacesInv
    <3>. QED BY <3>1, <3>2, HistoryGrows
  <2>5. Somewhere(p) BY <2>1, <2>2, <2>4 DEF SplitIsComplete
  <2>6. ~CutAgain(p)
    BY <2>1, <2>3 DEF CutAgain, Cut, Clear, AlreadyRead, SplitInv, Split
  <2>. QED BY <2>3, <2>5, <2>6, CopiesStay
<1>. QED BY <1>1, <1>2

-----------------------------------------------------------------------------
(* The theorems.                                                             *)

\* The invariant holds at the start ...
LEMMA InitIInv == Init => IInv
<1>. SUFFICES ASSUME Init PROVE IInv OBVIOUS
<1>1. TypeOK
  BY IdleJob, Basics DEF Init, TypeOK
<1>2. PlacesInv /\ RowsInv BY Basics DEF Init, PlacesInv, RowsInv
<1>3. JobInv /\ SplitInv BY IdleFields DEF Init, JobInv, SplitInv, Split, At
<1>4. NothingVanishes /\ SplitIsComplete BY Basics DEF Init, NothingVanishes, SplitIsComplete
<1>. QED BY <1>1, <1>2, <1>3, <1>4 DEF IInv

\* ... and after every step.
LEMMA StepIInv == IInv /\ [Next]_vars => IInv'
<1>. SUFFICES ASSUME IInv, [Next]_vars PROVE IInv' OBVIOUS
<1>1. TypeOK'
  <2>1. CASE UNCHANGED vars
    BY <2>1 DEF IInv, TypeOK, vars, folders, history, budget
  <2>2. CASE Next
    BY <2>2, JobKept, RowKept, InputKept, RestKept DEF TypeOK
  <2>. QED BY <2>1, <2>2
<1>2. JobInv'
  BY HolderKept, ListKept, ReadsKept, StagesKept DEF JobInv, At
<1>. QED BY <1>1, <1>2, PlacesKept, RowsKept, SplitKept, VanishKept, CompleteKept DEF IInv

\* It is an invariant.
LEMMA IInvAlways == Spec => []IInv
BY InitIInv, StepIInv, PTL DEF Spec

\* Folders, rows, lists and what the holder of the lock carries are well-typed in every
\* state of the intake (ingestion.py, splitting.py, quarantine.py, sync.py).
THEOREM TypeCorrect == Spec => []TypeOK
BY IInvAlways, PTL DEF IInv

\* No file that was completely in the input folder vanishes, whatever is scanned,
\* rejected, split, quarantined, set aside, delivered, interrupted or repeated: it is in
\* the input folder, in stored/, in quarantine/_documents or in combined/, unless a
\* person or the parking of another file under its name removed the last copy.
THEOREM NothingEverVanishes == Spec => []NothingVanishes
BY IInvAlways, PTL DEF IInv

\* Every part that a completed split was cut into is somewhere, so that the next scan
\* finds it or has found it (splitting.py writes them before _handle_combined commits).
THEOREM SplitsAreComplete == Spec => []SplitIsComplete
BY IInvAlways, PTL DEF IInv

\* A set-aside does not archive a document that an upload attached after it was checked
\* (quarantine.py, the second look at po_set_id in _set_aside_locked).
THEOREM AttachedAlwaysStays == Spec => AttachedStays
<1>1. IInv /\ [Next]_vars =>
        [\A c \in Contents : row[c] # None /\ row[c].set # "none" => row'[c] # None]_vars
  BY RowsRemain
<1>. QED BY <1>1, IInvAlways, PTL DEF Spec, AttachedStays

\* A scan and an upload of the same bytes make one row: neither writes over the row of
\* the other (the unique index on active hashes in models.py).
THEOREM RowsAreNotReplaced == Spec => OneRowPerContent
<1>1. IInv /\ [Next]_vars =>
        [\A c \in Contents : row[c] # None /\ row'[c] # None => row'[c].name = row[c].name]_vars
  BY RowsRemain
<1>. QED BY <1>1, IInvAlways, PTL DEF Spec, OneRowPerContent

=============================================================================
