---------------------------- MODULE SetFoldersProofs ----------------------------
(***************************************************************************)
(* Proofs about SetFolders, for any documents, any names of input files and *)
(* any number of sets, removals and troubles.                               *)
(*                                                                          *)
(* FoldersInv says, beside the types, where a running operation is and what *)
(* it has done so far: the archive or removal holds its set in the status it *)
(* found (Working), and every file it moved is in its folder (InProgress);   *)
(* the name it puts a file back under is free unless a person took it        *)
(* meanwhile (Returning); the input files it has still to look at are all    *)
(* there are of its set (Walked); and a folder that carries the id of a set  *)
(* belongs to it, or to one whose removal could not take the id off (Marked).*)
(***************************************************************************)
EXTENDS SetFolders, SequenceTheorems, TLAPS

\* The last stages of a removal: its rows are gone.
AfterCommit == {"reporting", "unlinking", "unmarking"}

\* The types without the four conjuncts about the stage of a job.
Typed ==
  /\ input \in [Slots -> Docs \cup {None}]
  /\ late \subseteq Slots
  /\ stored \subseteq Docs /\ free \subseteq Docs /\ members \subseteq Docs
  /\ life \in Lives /\ id \in Ids
  /\ status \in {"quarantined", "merged", "archived", "removed"}
  /\ packet \in BOOLEAN
  /\ exports \in [Ids -> Exports \cup {None}]
  /\ removals \in Seq(Removals)
  /\ folders \in Seq(Folders)
  /\ job \in Jobs
  /\ raced \in BOOLEAN
  /\ stale \subseteq Lives
  /\ drops \in 0..MaxDrops /\ faults \in 0..MaxFaults

\* Which stages an operation has, and in which status its set is meanwhile.
Working ==
  /\ job.op = "none" \/ job.at = "idle" => job = Idle
  /\ job.op = "archive" =>
       /\ job.at \in {"copying", "publishing", "moving", "undoing"}
       /\ status = "quarantined"
       /\ job.at \in {"moving", "undoing"} <=> exports[id] # None
  /\ job.op = "remove" =>
       /\ job.at \in {"copying", "moving", "committing", "restoring"} \cup AfterCommit
       /\ job.at \in AfterCommit <=> status = "removed"
       /\ status # "archived"

\* The folder of the removal that runs, from its publication on.
InProgress ==
  job.op = "remove" /\ job.at # "copying" =>
    /\ removals # <<>>
    /\ Folder.life = life
    /\ Folder.note # "failed"
    /\ job.at \notin {"unlinking", "unmarking"} => Folder.note = "in progress"
    /\ job.moved \subseteq Folder.input
    /\ job.at \notin AfterCommit =>
         /\ job.snap \subseteq Folder.files \cup Folder.missing
         /\ Folder.input \subseteq job.moved \cup Folder.listed

\* A removed set has a folder that says so, or that the removal is in progress.
Ended ==
  status = "removed" => removals # <<>> /\ Folder.life = life /\ Folder.note # "failed"

\* No folder is older than its set.
Past == \A k \in 1..Len(removals) : removals[k].life <= life

\* Files are put back after they were moved, each under a name that was found free.
Returning ==
  /\ job.at \in {"copying", "publishing"} => job.moved = {}
  /\ job.target # None =>
       /\ job.at \in {"undoing", "restoring"}
       /\ job.file \in job.moved
       /\ input[job.target] # None => raced

\* What is left of the set in the input folder while the files are moved.
Walked ==
  /\ job.at = "moving" =>
       \A n \in Slots : input[n] \in job.snap => n \in job.todo \cup late \/ job.unread
  /\ job.at = "committing" =>
       \A n \in Slots : input[n] \in job.snap => n \in late

\* Whose id a quarantine folder carries.
Marked ==
  \A k \in 1..Len(folders) :
    /\ folders[k].marker # None => folders[k].marker <= id
    /\ folders[k].marker = id =>
         /\ folders[k].life \in stale \cup {life}
         /\ status = "removed" /\ job.op = "none" => folders[k].life \in stale

FoldersInv ==
  /\ Typed /\ Working /\ InProgress /\ Ended /\ Past /\ Returning /\ Walked /\ Marked
  /\ NotesAreTrue

-----------------------------------------------------------------------------
(* Facts about the model's operators.                                       *)

LEMMA IdleJob ==
  /\ Idle \in Jobs
  /\ Idle.op = "none" /\ Idle.at = "idle" /\ Idle.moved = {} /\ Idle.todo = {}
  /\ Idle.target = None
BY DEF Idle, Jobs

LEMMA JobFields ==
  ASSUME NEW j \in Jobs
  PROVE  /\ j.op \in {"none", "archive", "remove"}
         /\ j.snap \subseteq Docs /\ j.seen \subseteq Docs /\ j.missing \subseteq Docs
         /\ j.todo \subseteq Slots
         /\ j.moved \subseteq Slots \X Docs
         /\ j.unread \in BOOLEAN
         /\ j.rounds \in 0..2
         /\ j.file \in (Slots \X Docs) \cup {None} /\ j.target \in Slots \cup {None}
BY DEF Jobs

\* The file that is being put back, and what becomes of the job with it.
LEMMA FileInHand ==
  ASSUME job \in Jobs, Returning, job.target # None
  PROVE  /\ job.target \in Slots /\ job.file \in Slots \X Docs /\ job.file \in job.moved
         /\ job.at \in {"undoing", "restoring"}
BY JobFields DEF Returning

LEMMA FileAway ==
  ASSUME job \in Jobs, PutAway
  PROVE  /\ job' \in Jobs /\ job'.moved = job.moved \ {job.file} /\ job'.target = None
         /\ job'.op = job.op /\ job'.at = job.at /\ job'.snap = job.snap
         /\ job'.todo = job.todo /\ job'.unread = job.unread
         /\ raced' \in BOOLEAN
<1> DEFINE j == [job EXCEPT !.moved = @ \ {job.file}, !.file = None, !.target = None]
<1>1. /\ j \in Jobs /\ j.moved = job.moved \ {job.file} /\ j.target = None
      /\ j.op = job.op /\ j.at = job.at /\ j.snap = job.snap
      /\ j.todo = job.todo /\ j.unread = job.unread
  BY DEF Jobs
<1> QED
  BY <1>1 DEF PutAway

\* A file and a name that were chosen for it.
LEMMA FileTaken ==
  ASSUME job \in Jobs, NEW file \in job.moved, NEW n \in Slots,
         job' = [job EXCEPT !.file = file, !.target = n]
  PROVE  /\ job' \in Jobs /\ job'.file = file /\ job'.target = n
         /\ job'.moved = job.moved /\ job'.op = job.op /\ job'.at = job.at
         /\ job'.snap = job.snap
<1>1. file \in Slots \X Docs
  BY JobFields
<1> DEFINE j == [job EXCEPT !.file = file, !.target = n]
<1>2. /\ j \in Jobs /\ j.file = file /\ j.target = n
      /\ j.moved = job.moved /\ j.op = job.op /\ j.at = job.at /\ j.snap = job.snap
  BY <1>1 DEF Jobs
<1> QED
  BY <1>2

\* An operation goes on to another stage, and its job stays what it was.
LEMMA Staged ==
  ASSUME job \in Jobs,
         NEW p \in {"moving", "undoing", "committing", "restoring", "reporting", "unlinking",
                    "unmarking"},
         Goto(p)
  PROVE  /\ job' \in Jobs /\ job'.at = p /\ job'.op = job.op
         /\ job'.moved = job.moved /\ job'.target = job.target
<1> DEFINE j == [job EXCEPT !.at = p]
<1>1. j \in Jobs
  BY DEF Jobs
<1>2. j.at = p /\ j.op = job.op /\ j.moved = job.moved /\ j.target = job.target
  BY DEF Jobs
<1> QED
  BY <1>1, <1>2 DEF Goto

\* The one who works on the last removal folder rewrites no other.
LEMMA NowChangesTheLast ==
  ASSUME removals \in Seq(Removals), removals # <<>>, NEW f \in Removals, Now(f)
  PROVE  /\ removals' \in Seq(Removals)
         /\ removals' # <<>>
         /\ Len(removals') = Len(removals)
         /\ Folder' = f
         /\ \A k \in 1..Len(removals) : k # Len(removals) => removals'[k] = removals[k]
<1>1. Len(removals) \in Nat /\ Len(removals) \in 1..Len(removals)
  BY LenProperties, EmptySeq
<1> QED
  BY <1>1, ExceptSeq DEF Now, Folder

LEMMA LastFolder ==
  ASSUME removals \in Seq(Removals), removals # <<>>
  PROVE  Len(removals) \in Nat /\ Len(removals) \in 1..Len(removals) /\ Folder \in Removals
BY LenProperties, ElementOfSeq DEF Folder

LEMMA FolderForms ==
  ASSUME NEW f \in Removals, NEW S \in SUBSET (Slots \X Docs),
         NEW note \in {"in progress", "removed", "failed"}
  PROVE  /\ [f EXCEPT !.input = S] \in Removals
         /\ [f EXCEPT !.listed = S] \in Removals
         /\ [f EXCEPT !.note = note] \in Removals
BY DEF Removals

LEMMA FirstJobs ==
  ASSUME NEW S \in SUBSET Docs, NEW T \in SUBSET Slots, NEW p \in {"copying", "moving"}
  PROVE  /\ [Idle EXCEPT !.op = "archive", !.snap = S, !.at = p, !.todo = T] \in Jobs
         /\ [Idle EXCEPT !.op = "remove", !.at = "copying", !.snap = S] \in Jobs
<1>1. [Idle EXCEPT !.op = "archive", !.snap = S, !.at = p, !.todo = T] \in Jobs
  BY IdleJob DEF Jobs
<1>2. [Idle EXCEPT !.op = "remove", !.at = "copying", !.snap = S] \in Jobs
  BY IdleJob DEF Jobs
<1> QED
  BY <1>1, <1>2

-----------------------------------------------------------------------------
(* Types.                                                                   *)

LEMMA AroundTyped ==
  ASSUME Typed, Around
  PROVE  Typed'
<1> USE SetFoldersAssumption DEF Typed, files, rows, places
<1>1. ASSUME NEW n \in Slots, NEW c \in Docs, Drop(n, c)
      PROVE  Typed'
  BY <1>1 DEF Drop
<1>2. ASSUME NEW n \in Slots, Ingest(n)
      PROVE  Typed'
  BY <1>2 DEF Ingest
<1>3. ASSUME NEW c \in Docs, Attach(c)
      PROVE  Typed'
  BY <1>3 DEF Attach
<1>4. ASSUME NEW c \in Docs, Found(c)
      PROVE  Typed'
  BY <1>4 DEF Found, Lives
<1>5. ASSUME NEW c \in Docs, Lose(c)
      PROVE  Typed'
  BY <1>5 DEF Lose, Fault
<1>6. CASE ForceMerge
  BY <1>6 DEF ForceMerge
<1>7. CASE QuarantineCopy
  <2>1. folders' \in Seq(Folders)
    <3>1. ASSUME NEW k \in Own,
                 folders' = [folders EXCEPT ![k].life = life,
                                            ![k].docs = @ \cup (members \cap stored)]
          PROVE  folders' \in Seq(Folders)
      <4>1. k \in 1..Len(folders) /\ folders[k] \in Folders
        BY ElementOfSeq DEF Own, Tried
      <4> DEFINE f == [folders[k] EXCEPT !.life = life, !.docs = @ \cup (members \cap stored)]
      <4>2. f \in Folders
        BY <4>1 DEF Folders
      <4>3. folders' = [folders EXCEPT ![k] = f]
        BY <3>1
      <4> QED
        BY <4>1, <4>2, <4>3, ExceptSeq
    <3>2. ASSUME NEW marker \in {id, None},
                 folders' = Append(folders, [marker |-> marker, life |-> life, print |-> members,
                                             docs |-> members \cap stored])
          PROVE  folders' \in Seq(Folders)
      <4>1. [marker |-> marker, life |-> life, print |-> members, docs |-> members \cap stored]
              \in Folders
        BY DEF Folders
      <4> QED
        BY <3>2, <4>1, AppendProperties
    <3> QED
      BY <1>7, <3>1, <3>2 DEF QuarantineCopy
  <2>2. faults' \in 0..MaxFaults
    <3>1. faults' = faults \/ Fault
      BY <1>7, Zenon DEF QuarantineCopy
    <3> QED
      BY <3>1 DEF Fault
  <2> QED
    BY <1>7, <2>1, <2>2 DEF QuarantineCopy
<1>8. CASE Crash
  <2>1. job' \in Jobs /\ late' \subseteq Slots /\ raced' \in BOOLEAN
    BY <1>8, IdleJob DEF Crash
  <2>2. stale' \subseteq Lives
    BY <1>8 DEF Crash
  <2>3. faults' \in 0..MaxFaults
    BY <1>8 DEF Crash, Fault
  <2> QED
    BY <1>8, <2>1, <2>2, <2>3 DEF Crash
<1> QED
  BY <1>1, <1>2, <1>3, <1>4, <1>5, <1>6, <1>7, <1>8 DEF Around

LEMMA ArchiveTyped ==
  ASSUME Typed, Working, Returning, Archive
  PROVE  Typed'
<1> USE SetFoldersAssumption DEF Typed, files, rows, places
<1>1. CASE ArchiveStart
  <2>1. job' \in Jobs
    BY <1>1, FirstJobs DEF ArchiveStart, Present
  <2> QED
    BY <1>1, <2>1 DEF ArchiveStart
<1>2. CASE ArchiveReread
  <2>1. job' \in Jobs
    <3>1. [job EXCEPT !.at = "publishing"] \in Jobs
      BY DEF Jobs
    <3>2. ASSUME job.rounds # 2
          PROVE  [job EXCEPT !.snap = members, !.rounds = @ + 1] \in Jobs
      <4>1. job.rounds + 1 \in 0..2
        BY <3>2, JobFields
      <4> QED
        BY <4>1 DEF Jobs
    <3> QED
      BY <1>2, <3>1, <3>2 DEF ArchiveReread
  <2> QED
    BY <1>2, <2>1 DEF ArchiveReread
<1>3. CASE ArchivePublish
  <2>1. job' \in Jobs
    BY <1>3 DEF ArchivePublish, Present, Jobs
  <2>2. [files |-> job.seen \ job.missing, missing |-> job.missing, input |-> {}] \in Exports
    BY JobFields DEF Exports
  <2> QED
    BY <1>3, <2>1, <2>2 DEF ArchivePublish
<1>4. CASE ArchiveFail
  <2>1. job' \in Jobs
    BY <1>4 DEF ArchiveFail, Goto, Jobs
  <2> QED
    BY <1>4, <2>1 DEF ArchiveFail, Fault
<1>7. ASSUME NEW file \in job.moved, UndoLook(file)
      PROVE  Typed'
  <2>1. file \in Slots \X Docs
    BY JobFields
  <2>2. job' \in Jobs
    <3>1. CASE job' = [job EXCEPT !.file = file, !.target = file[1]]
      BY <2>1, <3>1, FileTaken
    <3>2. CASE job' = [job EXCEPT !.moved = @ \ {file}]
      BY <3>2 DEF Jobs
    <3> QED
      BY <1>7, <3>1, <3>2 DEF UndoLook
  <2> QED
    BY <1>7, <2>2 DEF UndoLook
<1>8. CASE UndoMove
  <2>1. job.target \in Slots /\ job.file \in Slots \X Docs
    BY <1>8, FileInHand DEF UndoMove
  <2>2. job' \in Jobs /\ raced' \in BOOLEAN
    BY <1>8, FileAway DEF UndoMove
  <2>3. input' \in [Slots -> Docs \cup {None}]
    BY <1>8, <2>1 DEF UndoMove, PutBack
  <2>4. exports[id] \in Exports
    BY <1>8 DEF UndoMove, At, Working
  <2>5. exports' \in [Ids -> Exports \cup {None}]
    <3>1. [exports[id] EXCEPT !.input = @ \ {job.file}] \in Exports
      BY <2>4 DEF Exports
    <3> QED
      BY <1>8, <3>1 DEF UndoMove
  <2> QED
    BY <1>8, <2>2, <2>3, <2>5 DEF UndoMove
<1>9. CASE UndoEnd
  BY <1>9, IdleJob DEF UndoEnd
<1>5. CASE ArchiveCommit
  BY <1>5, IdleJob DEF ArchiveCommit, Fault
<1>6. ASSUME NEW n \in Slots, ArchiveMove(n)
      PROVE  Typed'
  <2>1. CASE input[n] \in job.snap /\ job' = [job EXCEPT !.todo = @ \ {n}, !.moved = @ \cup {<<n, input[n]>>}]
             /\ exports' = [exports EXCEPT ![id].input = @ \cup {<<n, input[n]>>}]
             /\ input' = [input EXCEPT ![n] = None] /\ UNCHANGED faults
    <3>1. <<n, input[n]>> \in Slots \X Docs
      BY <2>1, JobFields
    <3>2. job' \in Jobs
      BY <2>1, <3>1 DEF Jobs
    <3>3. exports[id] \in Exports
      BY <1>6 DEF ArchiveMove, At, Working
    <3>4. [exports[id] EXCEPT !.input = @ \cup {<<n, input[n]>>}] \in Exports
      BY <3>1, <3>3 DEF Exports
    <3> QED
      BY <1>6, <2>1, <3>2, <3>4 DEF ArchiveMove
  <2>2. CASE faults' \in {faults, faults + 1} /\ faults' \in 0..MaxFaults
             /\ job' = [job EXCEPT !.todo = @ \ {n}, !.unread = @ \/ faults' # faults]
             /\ UNCHANGED <<exports, input>>
    <3>1. job' \in Jobs
      BY <2>2 DEF Jobs
    <3> QED
      BY <1>6, <2>2, <3>1 DEF ArchiveMove
  <2> QED
    BY <1>6, <2>1, <2>2 DEF ArchiveMove, Fault
<1> QED
  BY <1>1, <1>2, <1>3, <1>4, <1>5, <1>6, <1>7, <1>8, <1>9 DEF Archive

LEMMA StagingTyped ==
  ASSUME Typed, Staging
  PROVE  Typed'
<1> USE SetFoldersAssumption DEF Typed, files, rows, places
<1>1. CASE StagingFails
  BY <1>1, IdleJob DEF StagingFails, Fault
<1>2. ASSUME NEW c \in Docs, Copy(c)
      PROVE  Typed'
  <2>1. job' \in Jobs
    BY <1>2 DEF Copy, Jobs
  <2> QED
    BY <1>2, <2>1 DEF Copy
<1> QED
  BY <1>1, <1>2 DEF Staging

\* The last folder as a step of a removal leaves it.
LEMMA FolderWritten ==
  ASSUME Typed, removals # <<>>, NEW S \in SUBSET (Slots \X Docs),
         NEW note \in {"in progress", "removed", "failed"},
         \/ Now([Folder EXCEPT !.input = S])
         \/ Now([Folder EXCEPT !.listed = S])
         \/ Now([Folder EXCEPT !.note = note])
  PROVE  removals' \in Seq(Removals)
BY LastFolder, FolderForms, NowChangesTheLast DEF Typed

LEMMA RemoveTyped ==
  ASSUME Typed, Working, InProgress, Returning, Remove
  PROVE  Typed'
<1> USE SetFoldersAssumption DEF Typed, files, rows, places
<1>0. removals # <<>> => Folder \in Removals
  BY LastFolder
<1>1. CASE RemoveStart
  <2>1. job' \in Jobs
    BY <1>1, FirstJobs DEF RemoveStart
  <2> QED
    BY <1>1, <2>1 DEF RemoveStart
<1>2. CASE RemovePublish
  <2>1. job' \in Jobs
    BY <1>2 DEF RemovePublish, Present, Jobs
  <2> DEFINE new == [life |-> life, files |-> job.seen \ job.missing, missing |-> job.missing,
                     input |-> {}, listed |-> {}, packet |-> packet, note |-> "in progress"]
  <2>2. new \in Removals
    BY JobFields DEF Removals
  <2>3. removals' = Append(removals, new)
    BY <1>2 DEF RemovePublish
  <2>4. removals' \in Seq(Removals)
    BY <2>2, <2>3, AppendProperties
  <2> QED
    BY <1>2, <2>1, <2>4 DEF RemovePublish
<1>3. CASE RemoveMoved
  <2>1. job' \in Jobs
    BY <1>3 DEF RemoveMoved, Goto, Jobs
  <2> QED
    BY <1>3, <2>1 DEF RemoveMoved
<1>4. CASE RemoveCommit
  <2>1. job' \in Jobs
    <3>1. Goto("reporting") \/ Goto("restoring")
      BY <1>4, Zenon DEF RemoveCommit
    <3> QED
      BY <3>1, Staged
  <2>2. faults' \in 0..MaxFaults
    <3>1. faults' = faults \/ Fault
      BY <1>4, Zenon DEF RemoveCommit
    <3> QED
      BY <3>1 DEF Fault
  <2>3. status' \in {status, "removed"} /\ members' \in {members, {}}
    BY <1>4, Zenon DEF RemoveCommit
  <2> QED
    BY <1>4, <2>1, <2>2, <2>3 DEF RemoveCommit
<1>5. CASE RemoveFail
  <2>1. removals' \in Seq(Removals)
    BY <1>5, FolderWritten DEF RemoveFail, At, InProgress
  <2> QED
    BY <1>5, <2>1, IdleJob DEF RemoveFail, Fault
<1>6. CASE RemoveReport
  <2>1. removals' \in Seq(Removals)
    BY <1>6, FolderWritten DEF RemoveReport, At, InProgress
  <2>2. job' \in Jobs
    BY <1>6 DEF RemoveReport, Goto, Jobs
  <2> QED
    BY <1>6, <2>1, <2>2 DEF RemoveReport, Fault
<1>7. CASE RemoveUnlink
  <2>1. job' \in Jobs
    BY <1>7 DEF RemoveUnlink, Goto, Jobs
  <2> QED
    <3>1. packet' \in BOOLEAN
      BY <1>7, Zenon DEF RemoveUnlink
    <3>2. faults' \in 0..MaxFaults
      <4>1. faults' = faults \/ Fault
        BY <1>7, Zenon DEF RemoveUnlink
      <4> QED
        BY <4>1 DEF Fault
    <3> QED
      BY <1>7, <2>1, <3>1, <3>2 DEF RemoveUnlink
<1>8. CASE RemoveUnmark
  <2> DEFINE clear(k) == IF folders[k].marker = id THEN [folders[k] EXCEPT !.marker = None]
                         ELSE folders[k]
  <2>1. \A k \in 1..Len(folders) : clear(k) \in Folders
    <3> SUFFICES ASSUME NEW k \in 1..Len(folders)
                 PROVE  clear(k) \in Folders
      OBVIOUS
    <3>1. folders[k] \in Folders
      BY ElementOfSeq
    <3>2. [folders[k] EXCEPT !.marker = None] \in Folders
      BY <3>1 DEF Folders
    <3> QED
      BY <3>1, <3>2
  <2>2. Len(folders) \in Nat
    BY LenProperties
  <2>3. [k \in 1..Len(folders) |-> clear(k)] \in Seq(Folders)
    BY <2>1, <2>2
  <2>4. folders' \in Seq(Folders)
    BY <1>8, <2>3 DEF RemoveUnmark
  <2> QED
    BY <1>8, <2>4, IdleJob DEF RemoveUnmark, Fault
<1>9. ASSUME NEW n \in Slots, RemoveMove(n)
      PROVE  Typed'
  <2>1. job' \in Jobs
    <3>1. CASE input[n] \in job.snap
                 /\ job' = [job EXCEPT !.todo = @ \ {n}, !.moved = @ \cup {<<n, input[n]>>}]
      <4>1. <<n, input[n]>> \in Slots \X Docs
        BY <3>1, JobFields
      <4> QED
        BY <3>1, <4>1 DEF Jobs
    <3>2. CASE job' = [job EXCEPT !.todo = @ \ {n}]
      BY <3>2 DEF Jobs
    <3>3. CASE job' = [job EXCEPT !.todo = @ \ {n}, !.unread = TRUE]
      BY <3>3 DEF Jobs
    <3>4. CASE job' = [job EXCEPT !.at = "restoring"]
      BY <3>4 DEF Jobs
    <3> QED
      BY <1>9, <3>1, <3>2, <3>3, <3>4, Zenon DEF RemoveMove, Goto
  <2>2. removals' \in Seq(Removals)
    <3>1. CASE input[n] \in job.snap /\ Now([Folder EXCEPT !.input = @ \cup {<<n, input[n]>>}])
      <4>1. removals # <<>>
        BY <1>9 DEF RemoveMove, At, InProgress
      <4>2. Folder.input \cup {<<n, input[n]>>} \in SUBSET (Slots \X Docs)
        <5>1. <<n, input[n]>> \in Slots \X Docs
          BY <3>1, JobFields
        <5>2. Folder.input \subseteq Slots \X Docs
          BY <1>0, <4>1 DEF Removals
        <5> QED
          BY <5>1, <5>2
      <4> QED
        BY <3>1, <4>1, <4>2, FolderWritten
    <3> QED
      BY <1>9, <3>1 DEF RemoveMove
  <2>3. input' \in [Slots -> Docs \cup {None}] /\ faults' \in 0..MaxFaults
    BY <1>9 DEF RemoveMove, Fault
  <2> QED
    BY <1>9, <2>1, <2>2, <2>3 DEF RemoveMove
<1>10. ASSUME NEW file \in job.moved, RestoreLook(file)
       PROVE  Typed'
  <2>1. job' \in Jobs
    BY <1>10, FileTaken DEF RestoreLook
  <2> QED
    BY <1>10, <2>1 DEF RestoreLook
<1>11. CASE RestoreReplace
  <2>1. job' \in Jobs /\ raced' \in BOOLEAN
    BY <1>11, FileAway DEF RestoreReplace
  <2>2. removals # <<>> /\ job.target \in Slots /\ job.file \in Slots \X Docs
    BY <1>11, FileInHand DEF RestoreReplace, At, InProgress
  <2>3. /\ Folder.input \ {job.file} \in SUBSET (Slots \X Docs)
        /\ Folder.listed \cup {job.file} \in SUBSET (Slots \X Docs)
    BY <1>0, <2>2 DEF Removals
  <2>4. removals' \in Seq(Removals)
    BY <1>11, <2>2, <2>3, FolderWritten DEF RestoreReplace
  <2>5. input' \in [Slots -> Docs \cup {None}]
    <3>1. CASE PutBack
      BY <2>2, <3>1 DEF PutBack
    <3> QED
      BY <1>11, <3>1, Zenon DEF RestoreReplace
  <2>6. faults' \in 0..MaxFaults
    <3>1. faults' = faults \/ Fault
      BY <1>11, Zenon DEF RestoreReplace
    <3> QED
      BY <3>1 DEF Fault
  <2> QED
    BY <1>11, <2>1, <2>4, <2>5, <2>6 DEF RestoreReplace
<1> QED
  BY <1>1, <1>2, <1>3, <1>4, <1>5, <1>6, <1>7, <1>8, <1>9, <1>10, <1>11 DEF Remove

\* Steps that leave the rows, the folders and the job of a removal alone.
LEMMA AroundLeaves ==
  ASSUME Around
  PROVE  /\ UNCHANGED <<exports, removals>>
         /\ job' = job \/ Crash
         /\ UNCHANGED <<life, id, status>> \/ (job.op = "none" /\ UNCHANGED job)
<1> USE DEF files, rows, places
<1>1. ASSUME NEW n \in Slots, Ingest(n) \/ \E c \in Docs : Drop(n, c)
      PROVE  UNCHANGED <<exports, removals, job, life, id, status>>
  BY <1>1 DEF Drop, Ingest
<1>2. ASSUME NEW c \in Docs, Attach(c) \/ Lose(c)
      PROVE  UNCHANGED <<exports, removals, job, life, id, status>>
  BY <1>2 DEF Attach, Lose
<1>3. ASSUME NEW c \in Docs, Found(c)
      PROVE  job.op = "none" /\ UNCHANGED <<exports, removals, job>>
  BY <1>3 DEF Found
<1>4. CASE ForceMerge
  BY <1>4 DEF ForceMerge
<1>5. CASE QuarantineCopy
  BY <1>5 DEF QuarantineCopy
<1>6. CASE Crash
  BY <1>6 DEF Crash
<1> QED
  BY <1>1, <1>2, <1>3, <1>4, <1>5, <1>6 DEF Around

-----------------------------------------------------------------------------
(* Where an operation is.                                                   *)

LEMMA WorkingKept ==
  ASSUME Typed, Working, Returning, Next
  PROVE  Working'
<1> USE IdleJob DEF Working, AfterCommit, At, Goto, files, rows, places
<1>0. job.op \in {"none", "archive", "remove"}
  BY JobFields DEF Typed
<1>1. CASE Archive
  <2>0. id \in Ids /\ exports \in [Ids -> Exports \cup {None}]
    BY DEF Typed
  <2>1. CASE ArchiveStart
    BY <2>1 DEF ArchiveStart, Reusable, Idle
  <2>2. CASE ArchiveReread
    BY <2>2 DEF ArchiveReread, Typed, Jobs
  <2>3. CASE ArchivePublish
    <3>1. exports'[id] \in Exports
      BY <2>0, <2>3, JobFields DEF ArchivePublish, Typed, Exports
    <3> QED
      BY <2>3, <3>1, SetFoldersAssumption DEF ArchivePublish, Typed, Jobs
  <2>4. CASE UndoEnd \/ ArchiveCommit
    BY <2>4 DEF UndoEnd, ArchiveCommit
  <2>6. CASE ArchiveFail
    BY <2>6 DEF ArchiveFail, Typed, Jobs
  <2>7. ASSUME NEW file \in job.moved, UndoLook(file)
        PROVE  Working'
    BY <2>7 DEF UndoLook, Typed, Jobs
  <2>8. CASE UndoMove
    <3>1. job'.op = job.op /\ job'.at = job.at
      BY <2>8, FileAway DEF UndoMove, Typed
    <3>2. exports[id] \in Exports
      BY <2>0, <2>8 DEF UndoMove
    <3>3. [exports[id] EXCEPT !.input = @ \ {job.file}] \in Exports
      BY <3>2 DEF Exports
    <3>4. exports'[id] # None
      BY <2>0, <2>8, <3>2, <3>3, SetFoldersAssumption DEF UndoMove
    <3> QED
      BY <2>8, <3>1, <3>4 DEF UndoMove
  <2>5. ASSUME NEW n \in Slots, ArchiveMove(n)
        PROVE  Working'
    <3>1. exports'[id] # None
      <4>1. exports[id] \in Exports
        BY <2>0, <2>5 DEF ArchiveMove
      <4>2. CASE input[n] \in job.snap /\ exports' = [exports EXCEPT ![id].input = @ \cup {<<n, input[n]>>}]
        <5>1. <<n, input[n]>> \in Slots \X Docs
          BY <4>2, JobFields DEF Typed
        <5>2. [exports[id] EXCEPT !.input = @ \cup {<<n, input[n]>>}] \in Exports
          BY <4>1, <5>1 DEF Exports
        <5>3. exports'[id] \in Exports
          BY <2>0, <4>2, <5>2
        <5> QED
          BY <5>3, SetFoldersAssumption
      <4>3. CASE exports' = exports
        BY <4>1, <4>3, SetFoldersAssumption
      <4> QED
        BY <2>5, <4>2, <4>3 DEF ArchiveMove
    <3> QED
      BY <2>5, <3>1 DEF ArchiveMove, Typed, Jobs
  <2> QED
    BY <1>1, <2>1, <2>2, <2>3, <2>4, <2>5, <2>6, <2>7, <2>8 DEF Archive
<1>2. CASE Remove
  <2>1. CASE RemoveStart
    BY <2>1 DEF RemoveStart, Active, Idle
  <2>2. CASE RemovePublish
    BY <2>2 DEF RemovePublish, Typed, Jobs
  <2>7. CASE RemoveMoved
    BY <2>7 DEF RemoveMoved, Goto, Typed, Jobs
  <2>8. CASE RemoveCommit
    <3>1. \/ Goto("reporting") /\ status' = "removed"
          \/ Goto("restoring") /\ status' = status
      BY <2>8, Zenon DEF RemoveCommit
    <3>2. \/ job'.op = "remove" /\ job'.at = "reporting" /\ status' = "removed"
          \/ job'.op = "remove" /\ job'.at = "restoring" /\ status' = status
      BY <2>8, <3>1, Staged DEF RemoveCommit, Typed
    <3> QED
      BY <2>8, <3>2 DEF RemoveCommit
  <2>9. CASE RemoveReport \/ RemoveUnlink
    <3>1. job'.op = "remove" /\ job'.at \in {"unlinking", "unmarking"}
      BY <2>9, Staged DEF RemoveReport, RemoveUnlink, Typed
    <3> QED
      BY <2>9, <3>1 DEF RemoveReport, RemoveUnlink
  <2>3. CASE RemoveFail \/ RemoveUnmark
    BY <2>3 DEF RemoveFail, RemoveUnmark
  <2>4. ASSUME NEW n \in Slots, RemoveMove(n)
        PROVE  Working'
    BY <2>4 DEF RemoveMove, Typed, Jobs
  <2>5. ASSUME NEW file \in job.moved, RestoreLook(file)
        PROVE  Working'
    BY <2>5 DEF RestoreLook, Typed, Jobs
  <2>6. CASE RestoreReplace
    <3>1. job'.op = job.op /\ job'.at = job.at
      BY <2>6, FileAway DEF RestoreReplace, Typed
    <3> QED
      BY <2>6, <3>1 DEF RestoreReplace
  <2> QED
    BY <1>2, <2>1, <2>2, <2>3, <2>4, <2>5, <2>6, <2>7, <2>8, <2>9 DEF Remove
<1>3. CASE Staging
  <2>1. CASE StagingFails
    BY <2>1 DEF StagingFails
  <2>2. ASSUME NEW c \in Docs, Copy(c)
        PROVE  Working'
    BY <2>2 DEF Copy, Typed, Jobs
  <2> QED
    BY <1>3, <2>1, <2>2 DEF Staging
<1>4. CASE Around
  <2>1. CASE Crash
    BY <2>1 DEF Crash
  <2>2. CASE ~Crash
    <3>1. job' = job /\ exports' = exports
      BY <1>4, <2>2, AroundLeaves
    <3>2. CASE job.op = "none"
      BY <3>1, <3>2
    <3>3. CASE job.op # "none"
      BY <1>4, <3>1, <3>3, AroundLeaves
    <3> QED
      BY <3>2, <3>3
  <2> QED
    BY <2>1, <2>2
<1> QED
  BY <1>1, <1>2, <1>3, <1>4 DEF Next

LEMMA ReturningKept ==
  ASSUME Typed, Working, Returning, Next
  PROVE  Returning'
<1> USE IdleJob DEF At, Goto
<1>0. job \in Jobs /\ None \notin Slots /\ input \in [Slots -> Docs \cup {None}]
  BY SetFoldersAssumption DEF Typed
<1>1. CASE job' = job /\ input' = input /\ raced' = raced
  BY <1>1 DEF Returning
<1>2. CASE job'.target = None /\ job'.moved = {}
  BY <1>2 DEF Returning
<1>3. CASE job'.target = None /\ job'.at \notin {"copying", "publishing"}
  BY <1>3 DEF Returning
<1>4. CASE ArchiveStart \/ RemoveStart
  BY <1>2, <1>4 DEF ArchiveStart, RemoveStart, Idle
<1>5. CASE ArchiveReread \/ ArchivePublish \/ RemovePublish \/ \E c \in Docs : Copy(c)
  <2>1. job.target = None /\ job.moved = {}
    BY <1>5 DEF ArchiveReread, ArchivePublish, RemovePublish, Copy, Returning
  <2>2. job'.target = job.target /\ job'.moved = job.moved
    <3>1. CASE ArchiveReread
      BY <1>0, <3>1 DEF ArchiveReread, Jobs
    <3>2. CASE ArchivePublish \/ RemovePublish
      BY <1>0, <3>2 DEF ArchivePublish, RemovePublish, Jobs
    <3>3. ASSUME NEW c \in Docs, Copy(c)
          PROVE  job'.target = job.target /\ job'.moved = job.moved
      BY <1>0, <3>3 DEF Copy, Jobs
    <3> QED
      BY <1>5, <3>1, <3>2, <3>3
  <2> QED
    BY <1>2, <2>1, <2>2
<1>6. CASE \/ ArchiveFail \/ RemoveMoved \/ RemoveCommit \/ RemoveReport \/ RemoveUnlink
           \/ \E n \in Slots : ArchiveMove(n) \/ RemoveMove(n)
  <2>1. job.target = None
    <3>1. job.at \in {"moving", "committing", "reporting", "unlinking"}
      BY <1>6
         DEF ArchiveFail, RemoveMoved, RemoveCommit, RemoveReport, RemoveUnlink, ArchiveMove,
             RemoveMove
    <3> QED
      BY <3>1 DEF Returning
  <2>2. CASE ArchiveFail \/ RemoveMoved \/ RemoveCommit \/ RemoveReport \/ RemoveUnlink
    <3> HIDE DEF Goto
    <3>1. \E p \in {"undoing", "committing", "restoring", "reporting", "unlinking", "unmarking"} :
            Goto(p)
      BY <2>2, Zenon DEF ArchiveFail, RemoveMoved, RemoveCommit, RemoveReport, RemoveUnlink
    <3>2. job'.target = job.target /\ job'.at \notin {"copying", "publishing"}
      BY <1>0, <3>1, Staged
    <3> QED
      BY <1>3, <2>1, <3>2
  <2>3. ASSUME NEW n \in Slots, ArchiveMove(n)
        PROVE  job'.target = job.target /\ job'.at = "moving"
    BY <1>0, <2>3 DEF ArchiveMove, Jobs
  <2>4. ASSUME NEW n \in Slots, RemoveMove(n)
        PROVE  job'.target = job.target /\ job'.at \in {"moving", "restoring"}
    BY <1>0, <2>4 DEF RemoveMove, Jobs
  <2> QED
    BY <1>3, <1>6, <2>1, <2>2, <2>3, <2>4
\* The name is looked for ...
<1>7. ASSUME NEW file \in job.moved, UndoLook(file) \/ RestoreLook(file)
      PROVE  Returning'
  <2>1. /\ job.at \in {"undoing", "restoring"} /\ job.target = None /\ UNCHANGED <<input, raced>>
        /\ file[1] \in Slots
    BY <1>0, <1>7, JobFields DEF UndoLook, RestoreLook, files
  <2>2. ASSUME NEW n \in Slots, input[n] = None, job' = [job EXCEPT !.file = file, !.target = n]
        PROVE  Returning'
    BY <1>0, <2>1, <2>2, FileTaken DEF Returning
  <2>3. ASSUME job' = [job EXCEPT !.moved = @ \ {file}]
        PROVE  Returning'
    <3>1. job'.target = job.target /\ job'.at = job.at
      BY <1>0, <2>3 DEF Jobs
    <3> QED
      BY <1>3, <2>1, <3>1
  <2> QED
    BY <1>7, <2>1, <2>2, <2>3 DEF UndoLook, RestoreLook
\* ... and filled, or given up.
<1>8. CASE UndoMove \/ RestoreReplace
  BY <1>0, <1>3, <1>8, FileAway DEF UndoMove, RestoreReplace
<1>9. CASE UndoEnd \/ ArchiveCommit \/ RemoveFail \/ RemoveUnmark \/ StagingFails
  BY <1>2, <1>9 DEF UndoEnd, ArchiveCommit, RemoveFail, RemoveUnmark, StagingFails
<1>10. CASE Around
  <2>1. ASSUME NEW n \in Slots, NEW c \in Docs, Drop(n, c)
        PROVE  Returning'
    <3>1. job' = job /\ input' = [input EXCEPT ![n] = c] /\ raced' = (raced \/ n = job.target)
      BY <2>1 DEF Drop
    <3>2. n # job.target /\ job.target \in Slots => input'[job.target] = input[job.target]
      BY <1>0, <3>1
    <3>3. n = job.target \/ raced => raced'
      BY <3>1, Zenon
    <3>4. job.target # None => job.target \in Slots
      BY <1>0, JobFields
    <3>5. job.target # None /\ input'[job.target] # None => raced'
      BY <3>2, <3>3, <3>4 DEF Returning
    <3> QED
      BY <3>1, <3>5 DEF Returning
  <2>2. ASSUME NEW n \in Slots, Ingest(n)
        PROVE  Returning'
    BY <1>1, <2>2 DEF Ingest
  <2>3. ASSUME NEW c \in Docs, Attach(c) \/ Found(c) \/ Lose(c)
        PROVE  Returning'
    BY <1>1, <2>3 DEF Attach, Found, Lose, files
  <2>4. CASE ForceMerge \/ QuarantineCopy \/ Crash
    BY <1>1, <1>2, <2>4 DEF ForceMerge, QuarantineCopy, Crash, files
  <2> QED
    BY <1>10, <2>1, <2>2, <2>3, <2>4 DEF Around
<1> QED
  BY <1>4, <1>5, <1>6, <1>7, <1>8, <1>9, <1>10 DEF Next, Archive, Remove, Staging

\* What each step of a removal does to the folders.
LEMMA FoldersOfStep ==
  ASSUME Typed, Working, InProgress, Returning, Next
  PROVE  \/ UNCHANGED removals
         \/ /\ job.op = "remove" /\ job.at = "copying"
            /\ removals' \in Seq(Removals) /\ Len(removals') = Len(removals) + 1
            /\ \A k \in 1..Len(removals) : removals'[k] = removals[k]
            /\ removals'[Len(removals')].note = "in progress"
            /\ removals'[Len(removals')].life = life
            /\ RemovePublish
         \/ /\ job.op = "remove" /\ job.at \in {"moving", "restoring", "reporting"}
            /\ removals # <<>> /\ Folder.life = life /\ Folder.note = "in progress"
            /\ removals' \in Seq(Removals) /\ Len(removals') = Len(removals)
            /\ \A k \in 1..Len(removals) : k # Len(removals) => removals'[k] = removals[k]
            /\ Folder'.life = life
            /\ Folder'.note = Folder.note \/ RemoveFail \/ RemoveReport
<1> DEFINE Onlast == /\ job.op = "remove" /\ job.at \in {"moving", "restoring", "reporting"}
                     /\ removals # <<>> /\ Folder.life = life /\ Folder.note = "in progress"
<1>0. Onlast => Folder \in Removals
  BY LastFolder DEF Typed
<1>1. CASE RemovePublish
  <2> DEFINE new == [life |-> life, files |-> job.seen \ job.missing, missing |-> job.missing,
                     input |-> {}, listed |-> {}, packet |-> packet, note |-> "in progress"]
  <2>1. new \in Removals
    BY JobFields DEF Removals, Typed
  <2>2. removals' = Append(removals, new) /\ job.op = "remove" /\ job.at = "copying"
    BY <1>1 DEF RemovePublish, At
  <2> HIDE DEF new
  <2>3. /\ removals' \in Seq(Removals) /\ Len(removals') = Len(removals) + 1
        /\ \A k \in 1..Len(removals) : removals'[k] = removals[k]
        /\ removals'[Len(removals')] = new
    BY <2>1, <2>2, AppendProperties DEF Typed
  <2>4. new.note = "in progress" /\ new.life = life
    BY DEF new
  <2> QED
    BY <1>1, <2>2, <2>3, <2>4
<1>2. ASSUME Onlast, NEW S \in SUBSET (Slots \X Docs),
             \/ Now([Folder EXCEPT !.input = S])
             \/ Now([Folder EXCEPT !.listed = S])
      PROVE  /\ removals' \in Seq(Removals) /\ Len(removals') = Len(removals)
             /\ \A k \in 1..Len(removals) : k # Len(removals) => removals'[k] = removals[k]
             /\ Folder'.life = life /\ Folder'.note = Folder.note
  <2> DEFINE f == [Folder EXCEPT !.input = S]
             g == [Folder EXCEPT !.listed = S]
  <2>1. f \in Removals /\ f.life = Folder.life /\ f.note = Folder.note
    BY <1>0, <1>2 DEF Removals
  <2>2. g \in Removals /\ g.life = Folder.life /\ g.note = Folder.note
    BY <1>0, <1>2 DEF Removals
  <2> HIDE DEF f, g
  <2>3. CASE Now(f)
    BY <1>2, <2>1, <2>3, NowChangesTheLast DEF Typed
  <2>4. CASE Now(g)
    BY <1>2, <2>2, <2>4, NowChangesTheLast DEF Typed
  <2> QED
    BY <1>2, <2>3, <2>4 DEF f, g
<1>3. ASSUME Onlast, NEW note \in {"failed", "removed"}, Now([Folder EXCEPT !.note = note])
      PROVE  /\ removals' \in Seq(Removals) /\ Len(removals') = Len(removals)
             /\ \A k \in 1..Len(removals) : k # Len(removals) => removals'[k] = removals[k]
             /\ Folder'.life = life
  <2> DEFINE f == [Folder EXCEPT !.note = note]
  <2>1. f \in Removals /\ f.life = Folder.life
    BY <1>0, <1>3 DEF Removals
  <2> HIDE DEF f
  <2>2. Now(f)
    BY <1>3 DEF f
  <2> QED
    BY <1>3, <2>1, <2>2, NowChangesTheLast DEF Typed
<1>4. CASE RemoveFail \/ RemoveReport
  <2>1. Onlast
    BY <1>4 DEF RemoveFail, RemoveReport, At, InProgress
  <2> QED
    BY <1>3, <1>4, <2>1 DEF RemoveFail, RemoveReport
<1>5. ASSUME NEW n \in Slots, RemoveMove(n), ~UNCHANGED removals
      PROVE  /\ Onlast /\ removals' \in Seq(Removals) /\ Len(removals') = Len(removals)
             /\ \A k \in 1..Len(removals) : k # Len(removals) => removals'[k] = removals[k]
             /\ Folder'.life = life /\ Folder'.note = Folder.note
  <2>1. Onlast
    BY <1>5 DEF RemoveMove, At, InProgress
  <2>2. <<n, input[n]>> \in Slots \X Docs
    BY <1>5, JobFields DEF RemoveMove, Typed
  <2>3. Folder.input \cup {<<n, input[n]>>} \in SUBSET (Slots \X Docs)
    BY <1>0, <2>1, <2>2 DEF Removals
  <2> QED
    BY <1>2, <1>5, <2>1, <2>3 DEF RemoveMove
<1>6. ASSUME RestoreReplace
      PROVE  /\ Onlast /\ removals' \in Seq(Removals) /\ Len(removals') = Len(removals)
             /\ \A k \in 1..Len(removals) : k # Len(removals) => removals'[k] = removals[k]
             /\ Folder'.life = life /\ Folder'.note = Folder.note
  <2>1. Onlast
    BY <1>6 DEF RestoreReplace, At, InProgress
  <2>2. job.file \in Slots \X Docs
    BY <1>6, FileInHand DEF RestoreReplace, Typed
  <2>3. /\ Folder.input \ {job.file} \in SUBSET (Slots \X Docs)
        /\ Folder.listed \cup {job.file} \in SUBSET (Slots \X Docs)
    BY <1>0, <2>1, <2>2 DEF Removals
  <2> QED
    BY <1>2, <1>6, <2>1, <2>3 DEF RestoreReplace
<1>7. CASE Archive \/ Staging
  BY <1>7 DEF Archive, Staging, ArchiveStart, ArchiveReread, ArchivePublish, ArchiveFail,
     UndoLook, UndoMove, UndoEnd,
       ArchiveCommit, ArchiveMove, StagingFails, Copy, places
<1>8. CASE \/ RemoveStart \/ RemoveMoved \/ RemoveCommit \/ RemoveUnlink \/ RemoveUnmark
           \/ \E file \in job.moved : RestoreLook(file)
  BY <1>8 DEF RemoveStart, RemoveMoved, RemoveCommit, RemoveUnlink, RemoveUnmark, RestoreLook,
     places
<1>9. CASE Around
  BY <1>9, AroundLeaves
<1>10. CASE Remove
  BY <1>1, <1>4, <1>5, <1>6, <1>8, <1>10 DEF Remove
<1> QED
  BY <1>7, <1>9, <1>10 DEF Next

LEMMA InProgressKept ==
  ASSUME Typed, Working, InProgress, Returning, Next
  PROVE  InProgress'
<1>0. /\ job \in Jobs /\ removals \in Seq(Removals)
      /\ removals # <<>> => Folder \in Removals
  BY LastFolder DEF Typed
<1>1. CASE Archive
  <2>1. job'.op # "remove"
    <3>1. CASE ArchiveStart
      BY <3>1 DEF ArchiveStart, Idle
    <3>2. CASE ArchiveReread \/ ArchivePublish
      BY <1>0, <3>2 DEF ArchiveReread, ArchivePublish, At, Jobs
    <3>3. CASE ArchiveFail
      BY <1>0, <3>3, Staged DEF ArchiveFail, At
    <3>4. CASE UndoMove
      BY <1>0, <3>4, FileAway DEF UndoMove, At
    <3>5. CASE UndoEnd \/ ArchiveCommit
      BY <3>5, IdleJob DEF UndoEnd, ArchiveCommit
    <3>6. ASSUME NEW n \in Slots, ArchiveMove(n)
          PROVE  job'.op # "remove"
      BY <1>0, <3>6 DEF ArchiveMove, At, Jobs
    <3>7. ASSUME NEW file \in job.moved, UndoLook(file)
          PROVE  job'.op # "remove"
      BY <1>0, <3>7 DEF UndoLook, At, Jobs
    <3> QED
      BY <1>1, <3>1, <3>2, <3>3, <3>4, <3>5, <3>6, <3>7 DEF Archive
  <2> QED
    BY <2>1 DEF InProgress
<1>2. CASE Staging
  <2>1. job' = Idle \/ job'.op # "remove" \/ job'.at = "copying"
    BY <1>0, <1>2 DEF Staging, StagingFails, Copy, Jobs
  <2> QED
    BY <2>1, IdleJob DEF InProgress
<1>3. CASE Around
  <2>1. CASE Crash
    BY <2>1, IdleJob DEF Crash, InProgress
  <2>2. CASE ~Crash
    BY <1>3, <2>2, AroundLeaves DEF InProgress, Folder
  <2> QED
    BY <2>1, <2>2
<1>4. CASE Remove
  <2>0. life' = life
    BY <1>4 DEF Remove, RemoveStart, RemovePublish, RemoveMoved, RemoveCommit, RemoveFail,
       RemoveReport,
         RemoveUnlink, RemoveUnmark, RemoveMove, RestoreLook, RestoreReplace, rows
  <2>1. CASE RemoveStart \/ RemoveFail \/ RemoveUnmark
    <3>1. job'.op = "none" \/ job'.at = "copying"
      BY <2>1, IdleJob DEF RemoveStart, RemoveFail, RemoveUnmark, Idle
    <3> QED
      BY <3>1, WorkingKept, IdleJob DEF InProgress, Working
  <2>2. CASE RemovePublish
    <3> DEFINE new == [life |-> life, files |-> job.seen \ job.missing, missing |-> job.missing,
                       input |-> {}, listed |-> {}, packet |-> packet, note |-> "in progress"]
    <3>1. new \in Removals
      BY <1>0, JobFields DEF Removals, Typed
    <3>2. removals' = Append(removals, new)
      BY <2>2 DEF RemovePublish
    <3>3. removals' # <<>> /\ Folder' = new
      <4> HIDE DEF new
      <4> QED
        BY <1>0, <3>1, <3>2, AppendProperties, LenProperties DEF Folder
    <3>4. job'.moved = {} /\ job'.snap = job.snap /\ job.snap \subseteq job.seen /\ job'.at = "moving"
      BY <1>0, <2>2 DEF RemovePublish, At, Returning, Jobs
    <3> QED
      BY <2>0, <3>3, <3>4 DEF InProgress, AfterCommit
  <2>3. CASE RemoveMoved \/ RemoveCommit \/ RemoveUnlink
    <3>1. /\ job.op = "remove" /\ removals' = removals
          /\ job.at \in {"moving", "committing", "unlinking"}
          /\ job'.moved = job.moved /\ job'.snap = job.snap
          /\ job'.at \in AfterCommit \/ job.at \in {"moving", "committing"}
          /\ job'.at \in {"unlinking", "unmarking"} <=> job.at = "unlinking"
      BY <1>0, <2>3 DEF RemoveMoved, RemoveCommit, RemoveUnlink, At, Goto, Jobs, places,
         AfterCommit
    <3> QED
      BY <2>0, <3>1 DEF InProgress, Folder, AfterCommit
  <2>4. CASE RemoveReport
    <3>1. /\ job.op = "remove" /\ job.at = "reporting"
          /\ job'.moved = job.moved /\ job'.at = "unlinking"
      BY <1>0, <2>4 DEF RemoveReport, At, Goto, Jobs
    <3>2. removals # <<>> /\ Folder \in Removals
      BY <1>0, <3>1 DEF InProgress
    <3>3. [Folder EXCEPT !.note = "removed"] \in Removals
      BY <3>2 DEF Removals
    <3>4. removals' # <<>> /\ (Folder' = Folder \/ Folder' = [Folder EXCEPT !.note = "removed"])
      BY <1>0, <2>4, <3>2, <3>3, NowChangesTheLast DEF RemoveReport, Folder
    <3>5. Folder'.life = Folder.life /\ Folder'.input = Folder.input /\ Folder'.note \in {Folder.note, "removed"}
      BY <3>2, <3>4 DEF Removals
    <3> QED
      BY <2>0, <3>1, <3>4, <3>5 DEF InProgress, AfterCommit
  <2>5. ASSUME NEW n \in Slots, RemoveMove(n)
        PROVE  InProgress'
    <3>1. job.op = "remove" /\ job.at = "moving" /\ removals # <<>> /\ Folder \in Removals
      BY <1>0, <2>5 DEF RemoveMove, At, InProgress
    <3>2. CASE /\ input[n] \in job.snap
               /\ Now([Folder EXCEPT !.input = @ \cup {<<n, input[n]>>}])
               /\ job' = [job EXCEPT !.todo = @ \ {n}, !.moved = @ \cup {<<n, input[n]>>}]
      <4> DEFINE f == [Folder EXCEPT !.input = @ \cup {<<n, input[n]>>}]
      <4>1. <<n, input[n]>> \in Slots \X Docs
        BY <1>0, <3>2, JobFields
      <4>2. /\ f \in Removals
            /\ f.life = Folder.life /\ f.note = Folder.note /\ f.files = Folder.files
            /\ f.missing = Folder.missing /\ f.listed = Folder.listed
            /\ f.input = Folder.input \cup {<<n, input[n]>>}
        BY <3>1, <4>1 DEF Removals
      <4> HIDE DEF f
      <4>3. removals' # <<>> /\ Folder' = f
        BY <1>0, <3>1, <3>2, <4>2, NowChangesTheLast DEF f
      <4>4. job'.moved = job.moved \cup {<<n, input[n]>>} /\ job'.snap = job.snap /\ job'.at = job.at
        BY <1>0, <3>2 DEF Jobs
      <4> QED
        BY <2>0, <3>1, <4>2, <4>3, <4>4 DEF InProgress, AfterCommit
    <3>3. CASE /\ removals' = removals
               /\ \/ job' = [job EXCEPT !.todo = @ \ {n}]
                  \/ job' = [job EXCEPT !.todo = @ \ {n}, !.unread = TRUE]
                  \/ job' = [job EXCEPT !.at = "restoring"]
      <4>1. job'.moved = job.moved /\ job'.snap = job.snap /\ job'.at \in {"moving", "restoring"}
        BY <1>0, <3>1, <3>3 DEF Jobs
      <4> QED
        BY <2>0, <3>1, <3>3, <4>1 DEF InProgress, AfterCommit, Folder
    <3> QED
      BY <2>5, <3>2, <3>3, Zenon DEF RemoveMove, Goto
  <2>6. CASE RestoreReplace
    <3>1. job.op = "remove" /\ job.at = "restoring" /\ removals # <<>> /\ Folder \in Removals
      BY <1>0, <2>6 DEF RestoreReplace, At, InProgress
    <3> DEFINE f == [Folder EXCEPT !.input = @ \ {job.file}]
               g == [Folder EXCEPT !.listed = @ \cup {job.file}]
    <3>2. job.file \in Slots \X Docs
      BY <1>0, <2>6, FileInHand DEF RestoreReplace
    <3>3. /\ f \in Removals
          /\ f.life = Folder.life /\ f.note = Folder.note /\ f.files = Folder.files
          /\ f.missing = Folder.missing /\ f.listed = Folder.listed
          /\ f.input = Folder.input \ {job.file}
      BY <3>1 DEF Removals
    <3>4. /\ g \in Removals
          /\ g.life = Folder.life /\ g.note = Folder.note /\ g.files = Folder.files
          /\ g.missing = Folder.missing /\ g.input = Folder.input
          /\ g.listed = Folder.listed \cup {job.file}
      BY <3>1, <3>2 DEF Removals
    <3>5. Now(f) \/ Now(g)
      BY <2>6 DEF RestoreReplace
    <3> HIDE DEF f, g
    <3>6. removals' # <<>> /\ (Folder' = f \/ Folder' = g)
      BY <1>0, <3>1, <3>3, <3>4, <3>5, NowChangesTheLast
    <3>7. job'.moved = job.moved \ {job.file} /\ job'.snap = job.snap /\ job'.at = job.at
      BY <1>0, <2>6, FileAway DEF RestoreReplace
    <3> QED
      BY <2>0, <3>1, <3>3, <3>4, <3>6, <3>7 DEF InProgress, AfterCommit
  <2>7. ASSUME NEW file \in job.moved, RestoreLook(file)
        PROVE  InProgress'
    <3>1. /\ job.op = "remove" /\ job.at = "restoring" /\ UNCHANGED removals
          /\ job'.moved = job.moved /\ job'.snap = job.snap /\ job'.at = job.at
      BY <1>0, <2>7, FileTaken DEF RestoreLook, At, places
    <3> QED
      BY <2>0, <3>1 DEF InProgress, Folder
  <2> QED
    BY <1>4, <2>1, <2>2, <2>3, <2>4, <2>5, <2>6, <2>7 DEF Remove
<1> QED
  BY <1>1, <1>2, <1>3, <1>4 DEF Next

-----------------------------------------------------------------------------
(* The notes.                                                               *)

\* Which steps end the life of a set, and which begin one.
LEMMA StatusOfStep ==
  ASSUME Next
  PROVE  /\ status' = "removed" /\ status # "removed" =>
              RemoveCommit /\ job.at = "committing" /\ members = job.snap
         /\ life' # life => (\E c \in Docs : Found(c)) /\ life' = life + 1 /\ status' = "quarantined"
         /\ status = "removed" /\ status' # "removed" => (\E c \in Docs : Found(c)) \/ Archive
         /\ status' = "archived" /\ status # "archived" => ArchiveCommit
<1> USE DEF files, rows, places
<1>1. CASE Archive
  BY <1>1 DEF Archive, ArchiveStart, ArchiveReread, ArchivePublish, ArchiveFail, UndoLook,
     UndoMove, UndoEnd, ArchiveCommit, ArchiveMove
<1>2. CASE Remove
  <2>1. life' = life
    BY <1>2 DEF Remove, RemoveStart, RemovePublish, RemoveMoved, RemoveCommit, RemoveFail,
       RemoveReport,
         RemoveUnlink, RemoveUnmark, RemoveMove, RestoreLook, RestoreReplace
  <2>2. CASE RemoveCommit
    BY <2>1, <2>2 DEF RemoveCommit, At
  <2>3. CASE ~RemoveCommit
    <3>1. status' = status
      BY <1>2, <2>3 DEF Remove, RemoveStart, RemovePublish, RemoveMoved, RemoveFail, RemoveReport,
         RemoveUnlink, RemoveUnmark, RemoveMove, RestoreLook, RestoreReplace
    <3> QED
      BY <2>1, <3>1
  <2> QED
    BY <2>2, <2>3
<1>3. CASE Staging
  BY <1>3 DEF Staging, StagingFails, Copy
<1>4. CASE Around
  <2>1. ASSUME NEW c \in Docs, Found(c)
        PROVE  life' = life + 1 /\ status' = "quarantined"
    BY <2>1 DEF Found
  <2>2. CASE ~\E c \in Docs : Found(c)
    <3>1. ASSUME NEW n \in Slots, NEW c \in Docs, Drop(n, c) \/ Ingest(n) \/ Attach(c) \/ Lose(c)
          PROVE  life' = life /\ status' = status
      BY <3>1 DEF Drop, Ingest, Attach, Lose
    <3>3. ASSUME NEW n \in Slots, Ingest(n)
          PROVE  life' = life /\ status' = status
      BY <3>3 DEF Ingest
    <3>4. ASSUME NEW c \in Docs, Attach(c) \/ Lose(c)
          PROVE  life' = life /\ status' = status
      BY <3>4 DEF Attach, Lose
    <3>5. UNCHANGED <<life, status>> \/ ForceMerge \/ QuarantineCopy \/ Crash
      BY <1>4, <2>2, <3>1, <3>3, <3>4 DEF Around
    <3>6. status' \in {status, "merged"} /\ life' = life /\ (status' # status => status = "quarantined")
      BY <3>5 DEF ForceMerge, QuarantineCopy, Crash
    <3> QED
      BY <3>6
  <2> QED
    BY <2>1, <2>2
<1> QED
  BY <1>1, <1>2, <1>3, <1>4 DEF Next

LEMMA PastKept ==
  ASSUME Typed, Working, InProgress, Returning, Past, Next
  PROVE  Past'
<1>1. life' >= life /\ life \in Nat /\ life' \in Nat
  BY StatusOfStep, SetFoldersAssumption DEF Typed, Lives
<1>2. Len(removals) \in Nat /\ (removals # <<>> => Len(removals) \in 1..Len(removals))
  BY LastFolder, LenProperties DEF Typed
<1>3. \A k \in 1..Len(removals) : removals[k].life \in Nat
  <2> SUFFICES ASSUME NEW k \in 1..Len(removals)
               PROVE  removals[k].life \in Nat
    OBVIOUS
  <2>1. removals[k] \in Removals
    BY ElementOfSeq DEF Typed
  <2>2. removals[k].life \in Lives
    BY <2>1 DEF Removals
  <2> QED
    BY <2>2, SetFoldersAssumption DEF Lives
<1>4. CASE UNCHANGED removals
  BY <1>1, <1>3, <1>4 DEF Past
<1>5. CASE RemovePublish /\ Len(removals') = Len(removals) + 1
           /\ (\A k \in 1..Len(removals) : removals'[k] = removals[k])
           /\ removals'[Len(removals')].life = life
  BY <1>1, <1>2, <1>3, <1>5 DEF Past
<1>6. CASE /\ removals # <<>> /\ Len(removals') = Len(removals)
           /\ \A k \in 1..Len(removals) : k # Len(removals) => removals'[k] = removals[k]
           /\ Folder'.life = life
  BY <1>1, <1>2, <1>3, <1>6 DEF Past, Folder
<1> QED
  BY <1>4, <1>5, <1>6, FoldersOfStep

LEMMA EndedKept ==
  ASSUME Typed, Working, InProgress, Returning, Ended, Next
  PROVE  Ended'
<1> SUFFICES ASSUME status' = "removed"
             PROVE  removals' # <<>> /\ Folder'.life = life' /\ Folder'.note # "failed"
  BY DEF Ended
<1>0. Len(removals) \in Nat /\ removals \in Seq(Removals)
  BY LenProperties DEF Typed
<1>1. CASE status # "removed"
  <2>1. RemoveCommit /\ job.at = "committing" /\ life' = life
    BY <1>1, StatusOfStep
  <2>2. removals' = removals /\ job.op = "remove"
    BY <2>1 DEF RemoveCommit, At, places
  <2> QED
    BY <2>1, <2>2 DEF InProgress, Folder
<1>2. CASE status = "removed"
  <2>1. removals # <<>> /\ Folder.life = life /\ Folder.note # "failed" /\ life' = life
    BY <1>2, StatusOfStep DEF Ended
  <2>2. CASE removals' = removals
    BY <2>1, <2>2 DEF Folder
  <2>3. CASE removals' # removals
    <3>1. job.op = "remove" => job.at \in AfterCommit
      BY <1>2 DEF Working
    <3>2. /\ Len(removals') = Len(removals) /\ removals' \in Seq(Removals)
          /\ Folder'.life = life
          /\ Folder'.note = Folder.note \/ RemoveFail \/ RemoveReport
      BY <2>3, <3>1, FoldersOfStep DEF AfterCommit
    <3>3. removals' # <<>>
      BY <1>0, <2>1, <3>2, LastFolder, LenProperties, EmptySeq
    <3>4. ~RemoveFail
      BY <3>1 DEF RemoveFail, At, AfterCommit
    <3>5. CASE RemoveReport
      <4>1. Folder \in Removals
        BY <1>0, <2>1, LastFolder
      <4>2. [Folder EXCEPT !.note = "removed"] \in Removals
        BY <4>1 DEF Removals
      <4>3. Folder' = [Folder EXCEPT !.note = "removed"]
        BY <1>0, <2>1, <2>3, <3>5, <4>2, NowChangesTheLast DEF RemoveReport
      <4>4. Folder'.note = "removed"
        BY <4>1, <4>3 DEF Removals
      <4> QED
        BY <2>1, <3>2, <3>3, <4>4
    <3> QED
      BY <2>1, <3>2, <3>3, <3>4, <3>5
  <2> QED
    BY <2>2, <2>3
<1> QED
  BY <1>1, <1>2

LEMMA NotesKept ==
  ASSUME Typed, Working, InProgress, Returning, Ended, Past, NotesAreTrue, Next
  PROVE  NotesAreTrue'
<1>0. /\ Len(removals) \in Nat /\ removals \in Seq(Removals) /\ removals' \in Seq(Removals)
      /\ removals # <<>> => Len(removals) \in 1..Len(removals)
      /\ DOMAIN removals = 1..Len(removals) /\ DOMAIN removals' = 1..Len(removals')
  <2>1. removals' \in Seq(Removals)
    BY FoldersOfStep DEF Typed
  <2> QED
    BY <2>1, LastFolder, LenProperties DEF Typed
<1>1. life \in Nat /\ \A k \in 1..Len(removals) : removals[k].life \in Nat /\ removals[k].life <= life
  <2>1. ASSUME NEW k \in 1..Len(removals)
        PROVE  removals[k].life \in Lives
    <3>1. removals[k] \in Removals
      BY <1>0, ElementOfSeq
    <3> QED
      BY <3>1 DEF Removals
  <2> QED
    BY <2>1, SetFoldersAssumption DEF Typed, Lives, Past
\* A folder that the step leaves alone.
<1>2. ASSUME NEW k \in 1..Len(removals), k \in 1..Len(removals'), removals'[k] = removals[k],
             \A j \in 1..Len(removals) : j > k => j \in 1..Len(removals') /\ removals'[j].life = removals[j].life
      PROVE  /\ removals'[k].note = "removed" => removals'[k].life < life' \/ status' = "removed"
             /\ removals'[k].note = "failed" /\ removals'[k].life = life' /\ status' = "removed" =>
                  \E j \in (k + 1)..Len(removals') : removals'[j].life = life'
             /\ removals'[k].note = "failed" => removals'[k].input \subseteq removals'[k].listed
  <2>0. /\ removals[k].note = "removed" => removals[k].life < life \/ status = "removed"
        /\ removals[k].note = "failed" /\ removals[k].life = life /\ status = "removed" =>
             \E j \in (k + 1)..Len(removals) : removals[j].life = life
        /\ removals[k].note = "failed" => removals[k].input \subseteq removals[k].listed
    BY <1>0 DEF NotesAreTrue
  <2>1. CASE \E c \in Docs : Found(c)
    <3>1. life' = life + 1 /\ status' = "quarantined"
      BY <2>1 DEF Found
    <3> QED
      BY <1>1, <1>2, <2>0, <3>1
  <2>2. CASE ~\E c \in Docs : Found(c)
    <3>0. life' = life
      BY <2>2, StatusOfStep
    <3>1. removals'[k].note = "removed" => removals'[k].life < life' \/ status' = "removed"
      <4>1. status = "removed" => status' = "removed"
        <5>1. ~(status = "removed" /\ Archive /\ status' # "removed")
          BY DEF Archive, ArchiveStart, ArchiveReread, ArchivePublish, ArchiveFail, UndoLook,
             UndoMove, UndoEnd, ArchiveCommit,
             ArchiveMove, At, Working, rows
        <5> QED
          BY <2>2, <5>1, StatusOfStep
      <4> QED
        BY <1>2, <2>0, <3>0, <4>1
    <3>2. ASSUME removals[k].note = "failed", removals[k].life = life, status' = "removed"
          PROVE  \E j \in (k + 1)..Len(removals') : removals'[j].life = life'
      <4>1. CASE status = "removed"
        BY <1>0, <1>2, <2>0, <3>0, <3>2, <4>1
      <4>2. CASE status # "removed"
        <5>1. RemoveCommit /\ job.at = "committing" /\ job.op = "remove" /\ removals' = removals
          BY <3>2, <4>2, StatusOfStep DEF RemoveCommit, At, places
        <5>2. removals # <<>> /\ Folder.life = life /\ Folder.note # "failed"
          BY <5>1 DEF InProgress
        <5>3. k # Len(removals)
          BY <3>2, <5>2 DEF Folder
        <5>4. Len(removals) \in (k + 1)..Len(removals)
          <6>1. Len(removals) \in Nat /\ k \in 1..Len(removals)
            BY <1>0
          <6> QED
            BY <5>3, <6>1
        <5> QED
          BY <3>0, <5>1, <5>2, <5>4 DEF Folder
      <4> QED
        BY <4>1, <4>2
    <3> QED
      BY <1>2, <2>0, <3>0, <3>1, <3>2
  <2> QED
    BY <2>1, <2>2
<1>3. CASE UNCHANGED removals
  BY <1>0, <1>2, <1>3 DEF NotesAreTrue
<1>4. CASE /\ Len(removals') = Len(removals) + 1
           /\ \A k \in 1..Len(removals) : removals'[k] = removals[k]
           /\ removals'[Len(removals')].note = "in progress"
  <2> SUFFICES ASSUME NEW k \in 1..Len(removals')
               PROVE  /\ removals'[k].note = "removed" => removals'[k].life < life' \/ status' = "removed"
                      /\ removals'[k].note = "failed" /\ removals'[k].life = life' /\ status' = "removed" =>
                           \E j \in (k + 1)..Len(removals') : removals'[j].life = life'
                      /\ removals'[k].note = "failed" => removals'[k].input \subseteq removals'[k].listed
    BY <1>0 DEF NotesAreTrue
  <2>1. CASE k = Len(removals')
    BY <1>4, <2>1
  <2>2. CASE k # Len(removals')
    <3>1. k \in 1..Len(removals) /\ \A j \in 1..Len(removals) : j \in 1..Len(removals')
      <4>1. Len(removals) \in Nat /\ Len(removals') = Len(removals) + 1
        BY <1>0, <1>4
      <4> QED
        BY <2>2, <4>1
    <3>2. removals'[k] = removals[k]
      BY <1>4, <3>1
    <3>3. \A j \in 1..Len(removals) : j \in 1..Len(removals') /\ removals'[j].life = removals[j].life
      BY <1>4, <3>1
    <3> QED
      BY <1>2, <3>1, <3>2, <3>3, Zenon
  <2> QED
    BY <2>1, <2>2
<1>5. CASE /\ job.op = "remove" /\ job.at \in {"moving", "restoring", "reporting"}
           /\ removals # <<>> /\ Folder.life = life /\ Folder.note = "in progress"
           /\ Len(removals') = Len(removals)
           /\ \A k \in 1..Len(removals) : k # Len(removals) => removals'[k] = removals[k]
           /\ Folder'.life = life
           /\ Folder'.note = Folder.note \/ RemoveFail \/ RemoveReport
  <2>0. Folder \in Removals
    BY <1>0, <1>5, LastFolder
  <2> SUFFICES ASSUME NEW k \in 1..Len(removals)
               PROVE  /\ removals'[k].note = "removed" => removals'[k].life < life' \/ status' = "removed"
                      /\ removals'[k].note = "failed" /\ removals'[k].life = life' /\ status' = "removed" =>
                           \E j \in (k + 1)..Len(removals') : removals'[j].life = life'
                      /\ removals'[k].note = "failed" => removals'[k].input \subseteq removals'[k].listed
    BY <1>0, <1>5 DEF NotesAreTrue
  <2>1. CASE k # Len(removals)
    <3>1. \A j \in 1..Len(removals) : j \in 1..Len(removals') /\ removals'[j].life = removals[j].life
      BY <1>0, <1>5 DEF Folder
    <3> QED
      BY <1>2, <1>5, <2>1, <3>1
  <2>2. CASE k = Len(removals)
    <3>1. removals'[k] = Folder'
      BY <1>5, <2>2 DEF Folder
    <3>2. CASE Folder'.note = Folder.note
      BY <1>5, <3>1, <3>2
    <3>3. CASE RemoveReport
      <4>1. status = "removed" /\ status' = status
        BY <3>3 DEF RemoveReport, At, Working, AfterCommit, rows
      <4>2. [Folder EXCEPT !.note = "removed"] \in Removals
        BY <2>0 DEF Removals
      <4>3. Folder' = Folder \/ Folder' = [Folder EXCEPT !.note = "removed"]
        BY <1>0, <1>5, <3>3, <4>2, NowChangesTheLast DEF RemoveReport, Folder
      <4>4. Folder'.note # "failed"
        BY <1>5, <2>0, <4>3 DEF Removals
      <4> QED
        BY <3>1, <4>1, <4>4
    <3>4. CASE RemoveFail
      <4>1. status' = status /\ status # "removed" /\ job.moved = {} /\ job.at = "restoring" /\ job.op = "remove"
        BY <3>4 DEF RemoveFail, At, Working, AfterCommit, rows
      <4>2. [Folder EXCEPT !.note = "failed"] \in Removals
        BY <2>0 DEF Removals
      <4>3. Folder' = Folder \/ Folder' = [Folder EXCEPT !.note = "failed"]
        BY <1>0, <1>5, <3>4, <4>2, NowChangesTheLast DEF RemoveFail, Folder
      <4>4. Folder'.input = Folder.input /\ Folder'.listed = Folder.listed /\ Folder'.note \in {"in progress", "failed"}
        BY <1>5, <2>0, <4>3 DEF Removals
      <4>5. Folder.input \subseteq Folder.listed
        BY <4>1 DEF InProgress, AfterCommit
      <4> QED
        BY <3>1, <4>1, <4>4, <4>5
    <3> QED
      BY <1>5, <3>2, <3>3, <3>4
  <2> QED
    BY <2>1, <2>2
<1> QED
  BY <1>3, <1>4, <1>5, FoldersOfStep

-----------------------------------------------------------------------------
(* The last copy.                                                           *)

\* The exception of LastCopyIsKept: c is under the name that a put-back has chosen.
Lost(c) == raced /\ input[job.target] = c

LEMMA ExportsGrow ==
  ASSUME exports \in [Ids -> Exports \cup {None}], NEW i \in Ids, NEW e \in Exports,
         exports' = [exports EXCEPT ![i] = e],
         exports[i] # None => exports[i].files \subseteq e.files /\ exports[i].input \subseteq e.input
  PROVE  \A c \in Docs : Exported(c) => Exported(c)'
<1>1. e # None
  BY SetFoldersAssumption
<1> SUFFICES ASSUME NEW c \in Docs, NEW k \in Ids, exports[k] # None,
                    c \in exports[k].files \/ \E file \in exports[k].input : file[2] = c
             PROVE  Exported(c)'
  BY DEF Exported
<1>2. CASE k = i
  <2>1. exports'[i] = e /\ (c \in e.files \/ \E file \in e.input : file[2] = c)
    BY <1>2
  <2> QED
    BY <1>1, <2>1 DEF Exported
<1>3. CASE k # i
  <2>1. exports'[k] = exports[k]
    BY <1>3
  <2> QED
    BY <2>1 DEF Exported
<1> QED
  BY <1>2, <1>3

LEMMA ArchiveKeepsCopies ==
  ASSUME Typed, Working, Returning, Archive, NEW c \in Docs, HasCopy(c)
  PROVE  HasCopy(c)' \/ Lost(c)
<1>0. /\ exports \in [Ids -> Exports \cup {None}] /\ id \in Ids /\ job \in Jobs
      /\ input \in [Slots -> Docs \cup {None}]
  BY DEF Typed
<1>1. CASE \/ ArchiveStart \/ ArchiveReread \/ ArchiveFail \/ UndoEnd \/ ArchiveCommit
           \/ \E file \in job.moved : UndoLook(file)
  BY <1>1 DEF ArchiveStart, ArchiveReread, ArchiveFail, UndoLook, UndoEnd, ArchiveCommit, files,
     places, HasCopy, Exported, Removed
<1>2. CASE ArchivePublish
  <2> DEFINE e == [files |-> job.seen \ job.missing, missing |-> job.missing, input |-> {}]
  <2>1. e \in Exports
    BY <1>0, JobFields DEF Exports
  <2>2. exports[id] = None
    BY <1>2 DEF ArchivePublish, At, Working
  <2>3. exports' = [exports EXCEPT ![id] = e]
    BY <1>2 DEF ArchivePublish
  <2> HIDE DEF e
  <2>4. Exported(c) => Exported(c)'
    BY <1>0, <2>1, <2>2, <2>3, ExportsGrow
  <2>5. UNCHANGED <<input, stored, removals>>
    BY <1>2 DEF ArchivePublish, files
  <2> QED
    BY <2>4, <2>5 DEF HasCopy, Removed
<1>3. ASSUME NEW n \in Slots, ArchiveMove(n)
      PROVE  HasCopy(c)'
  <2>1. UNCHANGED <<stored, removals>> /\ exports[id] \in Exports
    BY <1>0, <1>3 DEF ArchiveMove, At, Working
  <2>2. CASE UNCHANGED <<exports, input>>
    BY <2>1, <2>2 DEF HasCopy, Exported, Removed
  <2>3. CASE /\ input[n] \in job.snap /\ input' = [input EXCEPT ![n] = None]
             /\ exports' = [exports EXCEPT ![id].input = @ \cup {<<n, input[n]>>}]
    <3> DEFINE e == [exports[id] EXCEPT !.input = @ \cup {<<n, input[n]>>}]
    <3>1. <<n, input[n]>> \in Slots \X Docs
      BY <1>0, <2>3, JobFields
    <3>2. /\ e \in Exports /\ e.files = exports[id].files
          /\ e.input = exports[id].input \cup {<<n, input[n]>>}
      BY <2>1, <3>1 DEF Exports
    <3>3. exports' = [exports EXCEPT ![id] = e]
      BY <2>3
    <3> HIDE DEF e
    <3>4. Exported(c) => Exported(c)'
      BY <1>0, <3>2, <3>3, ExportsGrow
    <3>5. CASE input[n] = c
      <4>1. exports'[id] = e /\ e # None
        BY <1>0, <3>2, <3>3, SetFoldersAssumption
      <4>2. \E file \in e.input : file[2] = c
        <5>1. <<n, input[n]>> \in e.input /\ <<n, input[n]>>[2] = c
          BY <3>2, <3>5
        <5> QED
          BY <5>1
      <4>3. Exported(c)'
        BY <1>0, <4>1, <4>2 DEF Exported
      <4> QED
        BY <4>3 DEF HasCopy
    <3>6. CASE input[n] # c
      <4>1. \A m \in Slots : input[m] = c => input'[m] = c
        BY <1>0, <2>3, <3>6
      <4> QED
        BY <2>1, <3>4, <4>1 DEF HasCopy, Removed
    <3> QED
      BY <3>5, <3>6
  <2> QED
    BY <1>3, <2>2, <2>3 DEF ArchiveMove
<1>4. CASE UndoMove
  <2>1. /\ UNCHANGED <<stored, removals>> /\ exports[id] \in Exports
        /\ job.target \in Slots /\ (input[job.target] # None => raced)
    BY <1>0, <1>4, FileInHand DEF UndoMove, At, Working, Returning
  <2>2. CASE UNCHANGED <<input, exports>>
    BY <2>1, <2>2 DEF HasCopy, Exported, Removed
  <2>3. CASE PutBack /\ exports' = [exports EXCEPT ![id].input = @ \ {job.file}]
    <3> DEFINE e == [exports[id] EXCEPT !.input = @ \ {job.file}]
    <3>1. e \in Exports /\ e.files = exports[id].files /\ e.input = exports[id].input \ {job.file}
      BY <2>1 DEF Exports
    <3>2. exports' = [exports EXCEPT ![id] = e]
      BY <2>3
    <3> HIDE DEF e
    <3>3. input'[job.target] = job.file[2] /\ \A n \in Slots \ {job.target} : input'[n] = input[n]
      BY <1>0, <2>1, <2>3 DEF PutBack
    <3>4. CASE job.file[2] = c
      BY <2>1, <3>3, <3>4 DEF HasCopy
    <3>5. CASE job.file[2] # c /\ Exported(c)
      <4>1. PICK k \in Ids : /\ exports[k] # None
                             /\ c \in exports[k].files \/ \E file \in exports[k].input : file[2] = c
        BY <3>5 DEF Exported
      <4>2. CASE k # id
        <5>1. exports'[k] = exports[k]
          BY <1>0, <3>2, <4>2
        <5> QED
          BY <4>1, <5>1 DEF Exported, HasCopy
      <4>3. CASE k = id
        <5>1. exports'[id] = e /\ e # None
          BY <1>0, <3>1, <3>2, SetFoldersAssumption
        <5>2. c \in e.files \/ \E file \in e.input : file[2] = c
          BY <3>1, <3>5, <4>1, <4>3
        <5> QED
          BY <1>0, <5>1, <5>2 DEF Exported, HasCopy
      <4> QED
        BY <4>2, <4>3
    <3>6. CASE \E n \in Slots : input[n] = c
      <4>1. PICK n \in Slots : input[n] = c
        BY <3>6
      <4> QED
        BY <2>1, <3>3, <4>1, SetFoldersAssumption DEF HasCopy, Lost
    <3> QED
      BY <2>1, <3>4, <3>5, <3>6 DEF HasCopy, Removed
  <2> QED
    BY <1>4, <2>2, <2>3 DEF UndoMove
<1> QED
  BY <1>1, <1>2, <1>3, <1>4 DEF Archive

\* The last folder of a removal, rewritten with all that it held.
LEMMA FolderGrows ==
  ASSUME Typed, removals # <<>>, NEW f \in Removals, Now(f), NEW c \in Docs, Removed(c),
         c \in Folder.files => c \in f.files,
         (\E file \in Folder.input : file[2] = c) => \E file \in f.input : file[2] = c
  PROVE  Removed(c)'
<1>1. /\ DOMAIN removals = 1..Len(removals) /\ DOMAIN removals' = 1..Len(removals)
      /\ Len(removals') = Len(removals) /\ removals'[Len(removals)] = f
      /\ \A k \in 1..Len(removals) : k # Len(removals) => removals'[k] = removals[k]
  BY NowChangesTheLast, LenProperties DEF Typed, Folder
<1>2. PICK k \in 1..Len(removals) : c \in removals[k].files \/ \E file \in removals[k].input : file[2] = c
  BY <1>1 DEF Removed
<1>3. CASE k = Len(removals)
  <2>1. c \in f.files \/ \E file \in f.input : file[2] = c
    BY <1>2, <1>3 DEF Folder
  <2> QED
    BY <1>1, <1>3, <2>1 DEF Removed
<1>4. CASE k # Len(removals)
  BY <1>1, <1>2, <1>4 DEF Removed
<1> QED
  BY <1>3, <1>4

LEMMA RemoveKeepsCopies ==
  ASSUME Typed, InProgress, Returning, Remove, NEW c \in Docs, HasCopy(c)
  PROVE  HasCopy(c)' \/ Lost(c)
<1>0. /\ removals \in Seq(Removals) /\ job \in Jobs /\ input \in [Slots -> Docs \cup {None}]
      /\ removals # <<>> => Folder \in Removals
  BY LastFolder DEF Typed
<1>1. CASE \/ RemoveStart \/ RemoveMoved \/ RemoveCommit \/ RemoveUnlink \/ RemoveUnmark
           \/ \E file \in job.moved : RestoreLook(file)
  BY <1>1 DEF RemoveStart, RemoveMoved, RemoveCommit, RemoveUnlink, RemoveUnmark, RestoreLook,
     files, places,
       HasCopy, Exported, Removed
<1>2. CASE RemovePublish
  <2> DEFINE new == [life |-> life, files |-> job.seen \ job.missing, missing |-> job.missing,
                     input |-> {}, listed |-> {}, packet |-> packet, note |-> "in progress"]
  <2>1. new \in Removals
    BY <1>0, JobFields DEF Removals, Typed
  <2>2. removals' = Append(removals, new) /\ UNCHANGED <<input, stored, exports>>
    BY <1>2 DEF RemovePublish, files
  <2> HIDE DEF new
  <2>3. \A k \in DOMAIN removals : k \in DOMAIN removals' /\ removals'[k] = removals[k]
    BY <1>0, <2>1, <2>2, AppendProperties, LenProperties
  <2>4. Removed(c) => Removed(c)'
    BY <2>3 DEF Removed
  <2> QED
    BY <2>2, <2>4 DEF HasCopy, Exported
<1>3. CASE RemoveFail \/ RemoveReport
  <2>1. removals # <<>> /\ UNCHANGED <<input, stored, exports>>
    BY <1>3 DEF RemoveFail, RemoveReport, At, InProgress, files
  <2>2. ASSUME NEW note \in {"failed", "removed"}, Now([Folder EXCEPT !.note = note]), Removed(c)
        PROVE  Removed(c)'
    <3> DEFINE f == [Folder EXCEPT !.note = note]
    <3>1. f \in Removals /\ f.files = Folder.files /\ f.input = Folder.input
      BY <1>0, <2>1 DEF Removals
    <3>2. Now(f)
      BY <2>2
    <3> HIDE DEF f
    <3> QED
      BY <2>1, <2>2, <3>1, <3>2, FolderGrows
  <2>3. Removed(c) => Removed(c)'
    <3>1. CASE UNCHANGED removals
      BY <3>1 DEF Removed
    <3> QED
      BY <1>3, <2>2, <3>1 DEF RemoveFail, RemoveReport
  <2> QED
    BY <2>1, <2>3 DEF HasCopy, Exported
<1>4. ASSUME NEW n \in Slots, RemoveMove(n)
      PROVE  HasCopy(c)'
  <2>1. removals # <<>> /\ UNCHANGED <<stored, exports>>
    BY <1>4 DEF RemoveMove, At, InProgress
  <2>2. CASE UNCHANGED <<removals, input>>
    BY <2>1, <2>2 DEF HasCopy, Exported, Removed
  <2>3. CASE /\ input[n] \in job.snap /\ input' = [input EXCEPT ![n] = None]
             /\ Now([Folder EXCEPT !.input = @ \cup {<<n, input[n]>>}])
    <3> DEFINE f == [Folder EXCEPT !.input = @ \cup {<<n, input[n]>>}]
    <3>1. <<n, input[n]>> \in Slots \X Docs
      BY <1>0, <2>3, JobFields
    <3>2. f \in Removals /\ f.files = Folder.files /\ f.input = Folder.input \cup {<<n, input[n]>>}
      BY <1>0, <2>1, <3>1 DEF Removals
    <3>3. Now(f)
      BY <2>3
    <3> HIDE DEF f
    <3>4. Removed(c) => Removed(c)'
      BY <2>1, <3>2, <3>3, FolderGrows
    <3>5. CASE input[n] = c
      <4>1. \E file \in f.input : file[2] = c
        <5>1. <<n, input[n]>> \in f.input /\ <<n, input[n]>>[2] = c
          BY <3>2, <3>5
        <5> QED
          BY <5>1
      <4>2. Len(removals) \in DOMAIN removals' /\ removals'[Len(removals)] = f
        BY <1>0, <2>1, <3>2, <3>3, NowChangesTheLast, LenProperties DEF Folder
      <4> QED
        BY <4>1, <4>2 DEF HasCopy, Removed
    <3>6. CASE input[n] # c
      <4>1. \A m \in Slots : input[m] = c => input'[m] = c
        BY <1>0, <2>3, <3>6
      <4> QED
        BY <2>1, <3>4, <4>1 DEF HasCopy, Exported
    <3> QED
      BY <3>5, <3>6
  <2> QED
    BY <1>4, <2>2, <2>3 DEF RemoveMove
<1>5. CASE RestoreReplace
  <2>1. /\ removals # <<>> /\ UNCHANGED <<stored, exports>>
        /\ job.target \in Slots /\ job.file \in Slots \X Docs /\ (input[job.target] # None => raced)
    BY <1>0, <1>5, FileInHand DEF RestoreReplace, At, InProgress, Returning
  <2>2. PutBack => /\ input'[job.target] = job.file[2]
                   /\ \A n \in Slots \ {job.target} : input'[n] = input[n]
    BY <1>0, <2>1 DEF PutBack
\* The input folder: the file itself, and what it may have overwritten.
  <2>3. PutBack \/ UNCHANGED input => \A n \in Slots : input[n] = c => HasCopy(c)' \/ Lost(c)
    BY <2>1, <2>2, SetFoldersAssumption DEF HasCopy, Lost
  <2>4. CASE PutBack /\ Now([Folder EXCEPT !.input = @ \ {job.file}])
    <3> DEFINE f == [Folder EXCEPT !.input = @ \ {job.file}]
    <3>1. f \in Removals /\ f.files = Folder.files /\ f.input = Folder.input \ {job.file}
      BY <1>0, <2>1 DEF Removals
    <3>2. Now(f)
      BY <2>4
    <3> HIDE DEF f
    <3>3. CASE job.file[2] = c
      BY <2>1, <2>2, <2>4, <3>3 DEF HasCopy
    <3>4. CASE job.file[2] # c
      <4>1. (\E x \in Folder.input : x[2] = c) => \E x \in f.input : x[2] = c
        BY <3>1, <3>4
      <4>2. Removed(c) => Removed(c)'
        BY <2>1, <3>1, <3>2, <4>1, FolderGrows
      <4> QED
        BY <2>1, <2>3, <2>4, <4>2 DEF HasCopy, Exported
    <3> QED
      BY <3>3, <3>4
  <2>5. CASE (PutBack \/ UNCHANGED input) /\ Now([Folder EXCEPT !.listed = @ \cup {job.file}])
    <3> DEFINE f == [Folder EXCEPT !.listed = @ \cup {job.file}]
    <3>1. f \in Removals /\ f.files = Folder.files /\ f.input = Folder.input
      BY <1>0, <2>1 DEF Removals
    <3>2. Now(f)
      BY <2>5
    <3> HIDE DEF f
    <3>3. Removed(c) => Removed(c)'
      BY <2>1, <3>1, <3>2, FolderGrows
    <3> QED
      BY <2>1, <2>3, <2>5, <3>3 DEF HasCopy, Exported
  <2> QED
    BY <1>5, <2>4, <2>5 DEF RestoreReplace
<1> QED
  BY <1>1, <1>2, <1>3, <1>4, <1>5 DEF Remove

LEMMA LastCopyStays ==
  ASSUME Typed, Working, InProgress, Returning, Next, NEW c \in Docs, HasCopy(c)
  PROVE  HasCopy(c)' \/ Lost(c)
<1>0. input \in [Slots -> Docs \cup {None}]
  BY DEF Typed
<1>1. CASE Archive
  BY <1>1, ArchiveKeepsCopies
<1>2. CASE Remove
  BY <1>2, RemoveKeepsCopies
<1>3. CASE Staging
  BY <1>3 DEF Staging, StagingFails, Copy, files, places, HasCopy, Exported, Removed
<1>4. CASE Around
  <2>0. UNCHANGED <<exports, removals>>
    BY <1>4, AroundLeaves
  <2>1. ASSUME NEW n \in Slots, NEW d \in Docs, Drop(n, d)
        PROVE  HasCopy(c)'
    <3>1. stored' = stored /\ input' = [input EXCEPT ![n] = d] /\ input[n] = None
      BY <2>1 DEF Drop
    <3>2. \A m \in Slots : input[m] = c => input'[m] = c
      BY <1>0, <3>1, SetFoldersAssumption
    <3> QED
      BY <2>0, <3>1, <3>2 DEF HasCopy, Exported, Removed
  <2>2. ASSUME NEW n \in Slots, Ingest(n)
        PROVE  HasCopy(c)'
    BY <2>0, <2>2 DEF Ingest, HasCopy, Exported, Removed
  <2>3. ASSUME NEW d \in Docs, Lose(d)
        PROVE  HasCopy(c)'
    BY <2>0, <2>3 DEF Lose, HasCopy, Exported, Removed
  <2>4. CASE UNCHANGED <<input, stored>>
    BY <2>0, <2>4 DEF HasCopy, Exported, Removed
  <2>5. ASSUME NEW d \in Docs, Attach(d) \/ Found(d)
        PROVE  UNCHANGED <<input, stored>>
    BY <2>5 DEF Attach, Found, files
  <2>6. CASE ForceMerge \/ QuarantineCopy \/ Crash
    BY <2>6, <2>4 DEF ForceMerge, QuarantineCopy, Crash, files
  <2> QED
    BY <1>4, <2>1, <2>2, <2>3, <2>4, <2>5, <2>6 DEF Around
<1> QED
  BY <1>1, <1>2, <1>3, <1>4 DEF Next

-----------------------------------------------------------------------------
(* What is left behind, and whose folder it is.                             *)

LEMMA WalkedKept ==
  ASSUME Typed, Working, Walked, Next
  PROVE  Walked'
<1>0. /\ job \in Jobs /\ input \in [Slots -> Docs \cup {None}] /\ members \subseteq Docs
      /\ job.snap \subseteq Docs /\ None \notin Docs /\ faults \in Nat
  BY JobFields, SetFoldersAssumption DEF Typed
<1>1. CASE job'.at \notin {"moving", "committing"}
  BY <1>1 DEF Walked
\* The walk begins with all files of the folder.
<1>2. CASE ArchiveStart \/ ArchivePublish \/ RemovePublish
  <2>1. /\ input' = input /\ job'.at # "committing"
        /\ job'.at = "moving" => job'.todo = Present /\ job'.snap \subseteq Docs
    <3>1. CASE ArchiveStart
      BY <1>0, <3>1, IdleJob DEF ArchiveStart, files, Jobs
    <3>2. CASE ArchivePublish \/ RemovePublish
      BY <1>0, <3>2 DEF ArchivePublish, RemovePublish, files, Jobs
    <3> QED
      BY <1>2, <3>1, <3>2
  <2> QED
    BY <1>0, <2>1 DEF Walked, Present
<1>3. ASSUME NEW n \in Slots, ArchiveMove(n) \/ RemoveMove(n)
      PROVE  Walked'
  <2>0. job.at = "moving" /\ n \in job.todo /\ late' = late
    BY <1>3 DEF ArchiveMove, RemoveMove, At
  <2>1. CASE /\ input' = [input EXCEPT ![n] = None]
             /\ job' = [job EXCEPT !.todo = @ \ {n}, !.moved = @ \cup {<<n, input[n]>>}]
    <3>1. /\ job'.todo = job.todo \ {n} /\ job'.snap = job.snap /\ job'.unread = job.unread
          /\ job'.at = "moving"
      BY <1>0, <2>0, <2>1 DEF Jobs
    <3> QED
      BY <1>0, <2>0, <2>1, <3>1 DEF Walked
  <2>2. CASE /\ input[n] \notin job.snap /\ input' = input
             /\ job'.todo = job.todo \ {n} /\ job'.snap = job.snap /\ job'.unread = job.unread
             /\ job'.at = "moving"
    BY <1>0, <2>0, <2>2 DEF Walked
  <2>3. CASE job'.at = "moving" /\ job'.unread
    BY <2>3 DEF Walked
  <2>4. CASE job'.at = "restoring"
    BY <2>4 DEF Walked
  <2>5. CASE ArchiveMove(n)
    <3>1. ASSUME input[n] \notin job.snap, UNCHANGED <<faults, input>>,
                 job' = [job EXCEPT !.todo = @ \ {n}, !.unread = @ \/ faults' # faults]
          PROVE  Walked'
      <4>1. job'.todo = job.todo \ {n} /\ job'.snap = job.snap /\ job'.at = "moving"
        BY <1>0, <2>0, <3>1 DEF Jobs
      <4>2. job'.unread = (job.unread \/ faults' # faults)
        BY <1>0, <3>1 DEF Jobs
      <4>3. job.unread => job'.unread
        BY <4>2
      <4> QED
        BY <2>0, <3>1, <4>1, <4>3 DEF Walked
    <3>2. ASSUME Fault, job' = [job EXCEPT !.todo = @ \ {n}, !.unread = @ \/ faults' # faults]
          PROVE  Walked'
      <4>1. faults' # faults
        BY <1>0, <3>2 DEF Fault
      <4>2. job'.unread = (job.unread \/ faults' # faults) /\ job'.at = "moving"
        BY <1>0, <2>0, <3>2 DEF Jobs
      <4> QED
        BY <2>3, <4>1, <4>2
    <3> QED
      BY <2>1, <2>5, <3>1, <3>2 DEF ArchiveMove
  <2>6. CASE RemoveMove(n)
    <3>1. ASSUME input[n] \notin job.snap, input' = input, job' = [job EXCEPT !.todo = @ \ {n}]
          PROVE  Walked'
      <4>1. /\ job'.todo = job.todo \ {n} /\ job'.snap = job.snap /\ job'.unread = job.unread
            /\ job'.at = "moving"
        BY <1>0, <2>0, <3>1 DEF Jobs
      <4> QED
        BY <2>2, <3>1, <4>1
    <3>2. ASSUME job' = [job EXCEPT !.todo = @ \ {n}, !.unread = TRUE]
          PROVE  Walked'
      <4>1. job'.unread /\ job'.at = "moving"
        BY <1>0, <2>0, <3>2 DEF Jobs
      <4> QED
        BY <2>3, <4>1
    <3>3. ASSUME Goto("restoring")
          PROVE  Walked'
      <4>1. job'.at = "restoring"
        BY <1>0, <3>3 DEF Goto, Jobs
      <4> QED
        BY <2>4, <4>1
    <3> QED
      BY <2>1, <2>6, <3>1, <3>2, <3>3 DEF RemoveMove
  <2> QED
    BY <1>3, <2>5, <2>6
\* It ends when nothing is left to look at, and every file could be read.
<1>4. CASE RemoveMoved
  <2>1. job'.at \in {"restoring", "committing"} /\ job'.snap = job.snap /\ UNCHANGED <<input, late>>
    BY <1>0, <1>4 DEF RemoveMoved, Goto, Jobs, files
  <2>2. job'.at = "committing" => ~job.unread
    BY <1>0, <1>4 DEF RemoveMoved, Goto, Jobs
  <2>3. job.at = "moving" /\ job.todo = {}
    BY <1>4 DEF RemoveMoved, At
  <2> QED
    BY <2>1, <2>2, <2>3 DEF Walked
<1>5. CASE Around
  <2>1. CASE Crash
    BY <1>1, <2>1, IdleJob DEF Crash
  <2>2. ASSUME NEW n \in Slots, NEW c \in Docs, Drop(n, c), job.at \in {"moving", "committing"}
        PROVE  Walked'
    <3>1. job' = job /\ late' = late \cup {n} /\ input' = [input EXCEPT ![n] = c]
      BY <2>2 DEF Drop
    <3> QED
      BY <1>0, <3>1 DEF Walked
  <2>3. CASE UNCHANGED <<job, late, input>>
    BY <2>3 DEF Walked
  <2>4. ASSUME NEW n \in Slots, Ingest(n)
        PROVE  UNCHANGED <<job, late, input>>
    BY <2>4 DEF Ingest
  <2>5. ASSUME NEW c \in Docs, Attach(c) \/ Found(c) \/ Lose(c)
        PROVE  UNCHANGED <<job, late, input>>
    BY <2>5 DEF Attach, Found, Lose, files
  <2>6. CASE ForceMerge \/ QuarantineCopy
    BY <2>3, <2>6 DEF ForceMerge, QuarantineCopy, files
  <2>7. ASSUME NEW n \in Slots, NEW c \in Docs, Drop(n, c), job.at \notin {"moving", "committing"}
        PROVE  Walked'
    BY <1>1, <2>7 DEF Drop
  <2> QED
    BY <1>5, <2>1, <2>2, <2>3, <2>4, <2>5, <2>6, <2>7 DEF Around
<1>6. CASE \/ ArchiveReread \/ ArchiveFail \/ UndoMove \/ UndoEnd \/ ArchiveCommit \/ RemoveStart \/ RemoveCommit \/ RemoveFail
           \/ RemoveReport \/ RemoveUnlink \/ RemoveUnmark \/ Staging
           \/ RestoreReplace \/ \E file \in job.moved : UndoLook(file) \/ RestoreLook(file)
  <2>1. job'.at \notin {"moving", "committing"}
    <3>1. CASE ArchiveReread
      BY <1>0, <3>1 DEF ArchiveReread, At, Jobs
    <3>2. CASE ArchiveFail \/ RemoveCommit \/ RemoveReport \/ RemoveUnlink
      <4>1. \E p \in {"undoing", "restoring", "reporting", "unlinking", "unmarking"} : Goto(p)
        BY <3>2, Zenon DEF ArchiveFail, RemoveCommit, RemoveReport, RemoveUnlink
      <4> QED
        BY <1>0, <4>1, Staged
    <3>3. CASE UndoMove \/ RestoreReplace
      BY <1>0, <3>3, FileAway DEF UndoMove, RestoreReplace, At
    <3>4. CASE UndoEnd \/ ArchiveCommit \/ RemoveFail \/ RemoveUnmark \/ StagingFails
      BY <3>4, IdleJob DEF UndoEnd, ArchiveCommit, RemoveFail, RemoveUnmark, StagingFails
    <3>5. CASE RemoveStart
      BY <3>5 DEF RemoveStart, Idle
    <3>6. ASSUME NEW c \in Docs, Copy(c)
          PROVE  job'.at \notin {"moving", "committing"}
      BY <1>0, <3>6 DEF Copy, Jobs
    <3>7. ASSUME NEW file \in job.moved, UndoLook(file)
          PROVE  job'.at \notin {"moving", "committing"}
      BY <1>0, <3>7 DEF UndoLook, At, Jobs
    <3>8. ASSUME NEW file \in job.moved, RestoreLook(file)
          PROVE  job'.at \notin {"moving", "committing"}
      BY <1>0, <3>8, FileTaken DEF RestoreLook, At
    <3> QED
      BY <1>6, <3>1, <3>2, <3>3, <3>4, <3>5, <3>6, <3>7, <3>8 DEF Staging
  <2> QED
    BY <1>1, <2>1
<1> QED
  BY <1>2, <1>3, <1>4, <1>5, <1>6 DEF Next, Archive, Remove

LEMMA SameFolders ==
  ASSUME Marked, UNCHANGED <<folders, id, life>>, stale \subseteq stale',
         status' = "removed" /\ job'.op = "none" =>
           life \in stale' \/ (status = "removed" /\ job.op = "none")
  PROVE  Marked'
BY DEF Marked

LEMMA MarkedKept ==
  ASSUME Typed, Working, Marked, Next
  PROVE  Marked'
<1>0. /\ job \in Jobs /\ job.op \in {"none", "archive", "remove"}
      /\ folders \in Seq(Folders) /\ Len(folders) \in Nat
      /\ id \in Ids /\ id \in Nat /\ id # None
  BY JobFields, LenProperties, SetFoldersAssumption DEF Typed, Ids
<1>1. CASE Archive
  <2>1. UNCHANGED <<stale, id, life, folders>> /\ status' # "removed"
    <3>1. CASE ArchiveStart
      BY <3>1 DEF ArchiveStart, rows, places
    <3>2. CASE ~ArchiveStart
      <4>1. job.op = "archive" => status = "quarantined"
        BY DEF Working
      <4> QED
        BY <1>1, <3>2, <4>1
           DEF Archive, ArchiveReread, ArchivePublish, ArchiveFail, UndoLook, UndoMove, UndoEnd, ArchiveCommit, ArchiveMove, At, rows, places
    <3> QED
      BY <3>1, <3>2
  <2> QED
    BY <2>1, SameFolders
<1>2. CASE Staging
  <2>1. UNCHANGED <<stale, id, life, folders, status>> /\ job.at \in {"copying", "publishing"}
    BY <1>2 DEF Staging, StagingFails, Copy, rows, places
  <2>2. status # "removed"
    BY <1>0, <2>1, IdleJob DEF Working, AfterCommit
  <2> QED
    BY <2>1, <2>2, SameFolders
<1>3. CASE Remove /\ ~RemoveUnmark
  <2>1. UNCHANGED <<stale, id, life, folders>>
    BY <1>3 DEF Remove, RemoveStart, RemovePublish, RemoveMoved, RemoveCommit, RemoveFail,
       RemoveReport,
       RemoveUnlink, RemoveMove, RestoreLook, RestoreReplace, rows, places
  <2>2. status' # "removed" \/ job'.op = "remove"
    <3>1. CASE RemoveFail
      BY <3>1 DEF RemoveFail, At, Working, AfterCommit, rows
    <3>2. CASE RemoveStart
      BY <3>2 DEF RemoveStart, Active, rows
    <3>3. CASE RemovePublish \/ RemoveMoved \/ RemoveCommit \/ RemoveReport \/ RemoveUnlink
      BY <1>0, <3>3 DEF RemovePublish, RemoveMoved, RemoveCommit, RemoveReport, RemoveUnlink, At,
         Goto, Jobs
    <3>4. ASSUME NEW n \in Slots, RemoveMove(n)
          PROVE  job'.op = "remove"
      BY <1>0, <3>4 DEF RemoveMove, At, Goto, Jobs
    <3>5. ASSUME RestoreReplace \/ \E file \in job.moved : RestoreLook(file)
          PROVE  job'.op = "remove"
      BY <1>0, <3>5 DEF RestoreReplace, RestoreLook, PutAway, At, Jobs
    <3> QED
      BY <1>3, <3>1, <3>2, <3>3, <3>4, <3>5 DEF Remove
  <2> QED
    BY <2>1, <2>2, SameFolders
\* The removal takes the id off, or the history says that it could not.
<1>4. CASE RemoveUnmark
  <2>1. UNCHANGED <<id, life>>
    BY <1>4 DEF RemoveUnmark, rows
  <2>2. CASE folders' = folders /\ stale' = stale \cup {life}
    BY <2>1, <2>2, SameFolders
  <2>3. CASE folders' = [k \in 1..Len(folders) |->
                          IF folders[k].marker = id THEN [folders[k] EXCEPT !.marker = None]
                          ELSE folders[k]]
    <3>1. Len(folders') = Len(folders)
      BY <1>0, <2>3
    <3> SUFFICES ASSUME NEW k \in 1..Len(folders)
                 PROVE  /\ folders'[k].marker # id
                        /\ folders'[k].marker # None => folders'[k].marker <= id
      BY <2>1, <3>1 DEF Marked
    <3>2. folders[k] \in Folders
      BY <1>0, ElementOfSeq
    <3>3. [folders[k] EXCEPT !.marker = None].marker = None
      BY <3>2 DEF Folders
    <3> QED
      BY <1>0, <2>3, <3>3 DEF Marked
  <2> QED
    BY <1>4, <2>2, <2>3 DEF RemoveUnmark
<1>5. CASE Around
  <2>1. CASE Crash
    <3>1. /\ UNCHANGED <<folders, id, life, status>>
          /\ stale' = stale \/ stale' = stale \cup {life}
          /\ job.at \in AfterCommit => life \in stale'
          /\ job.op # "none"
      BY <2>1 DEF Crash, rows, places, AfterCommit
    <3>2. status = "removed" => job.at \in AfterCommit
      BY <1>0, <3>1 DEF Working
    <3> QED
      BY <3>1, <3>2, SameFolders
  <2>2. ASSUME NEW c \in Docs, Found(c)
        PROVE  Marked'
    <3>1. /\ UNCHANGED <<folders, stale>> /\ status' = "quarantined" /\ job.op = "none"
          /\ id' = id + 1 \/ (id' = id /\ status = "removed")
      BY <2>2 DEF Found, places
    <3> SUFFICES ASSUME NEW k \in 1..Len(folders)
                 PROVE  /\ folders[k].marker # None => folders[k].marker <= id'
                        /\ folders[k].marker = id' => folders[k].life \in stale
      BY <3>1 DEF Marked
    <3>2. folders[k].marker # None => folders[k].marker \in Nat /\ folders[k].marker <= id
      <4>1. folders[k] \in Folders
        BY <1>0, ElementOfSeq
      <4>2. folders[k].marker \in Ids \cup {None}
        BY <4>1 DEF Folders
      <4> QED
        BY <4>2, SetFoldersAssumption DEF Marked, Ids
    <3>3. id' \in Ids
      BY <2>2 DEF Found
    <3>4. CASE id' = id
      BY <1>0, <3>1, <3>2, <3>4 DEF Marked
    <3>5. CASE id' = id + 1
      <4>1. id' # None
        BY <3>3, SetFoldersAssumption
      <4> QED
        BY <1>0, <3>2, <3>5, <4>1
    <3> QED
      BY <3>1, <3>4, <3>5
  <2>3. CASE QuarantineCopy
    <3>1. UNCHANGED <<id, life, stale, status>> /\ status = "quarantined" /\ life \in Lives
      BY <2>3 DEF QuarantineCopy, rows, Typed
    <3>2. ASSUME NEW k \in Own,
                 folders' = [folders EXCEPT ![k].life = life,
                                            ![k].docs = @ \cup (members \cap stored)]
          PROVE  Marked'
      <4> DEFINE f == [folders[k] EXCEPT !.life = life, !.docs = @ \cup (members \cap stored)]
      <4>1. k \in 1..Len(folders) /\ folders[k].marker = id
        BY DEF Own, Tried
      <4>2. folders[k] \in Folders
        BY <1>0, <4>1, ElementOfSeq
      <4>3. f \in Folders /\ f.marker = id /\ f.life = life
        BY <3>1, <4>1, <4>2 DEF Folders, Typed
      <4>4. folders' = [folders EXCEPT ![k] = f]
        BY <3>2
      <4> HIDE DEF f
      <4>5. /\ Len(folders') = Len(folders) /\ folders'[k] = f
            /\ \A j \in 1..Len(folders) : j # k => folders'[j] = folders[j]
        BY <1>0, <4>1, <4>3, <4>4, ExceptSeq
      <4> QED
        BY <1>0, <3>1, <4>3, <4>5 DEF Marked
    <3>3. ASSUME NEW marker \in {id, None},
                 folders' = Append(folders, [marker |-> marker, life |-> life, print |-> members,
                                             docs |-> members \cap stored])
          PROVE  Marked'
      <4> DEFINE f == [marker |-> marker, life |-> life, print |-> members, docs |-> members \cap stored]
      <4>1. f \in Folders /\ f.marker \in {id, None} /\ f.life = life
        BY <1>0, <3>1 DEF Folders, Typed
      <4>2. folders' = Append(folders, f)
        BY <3>3
      <4> HIDE DEF f
      <4>3. /\ Len(folders') = Len(folders) + 1 /\ folders'[Len(folders) + 1] = f
            /\ \A j \in 1..Len(folders) : folders'[j] = folders[j]
        BY <1>0, <4>1, <4>2, AppendProperties
      <4>4. \A k \in 1..Len(folders') : k \in 1..Len(folders) \/ k = Len(folders) + 1
        BY <1>0, <4>3
      <4> QED
        BY <1>0, <3>1, <4>1, <4>3, <4>4 DEF Marked
    <3> QED
      BY <2>3, <3>2, <3>3 DEF QuarantineCopy
  <2>4. CASE UNCHANGED <<folders, stale, job, id, life, status>>
    BY <2>4, SameFolders
  <2>5. ASSUME NEW n \in Slots, Ingest(n) \/ \E c \in Docs : Drop(n, c)
        PROVE  UNCHANGED <<folders, stale, job, id, life, status>>
    BY <2>5 DEF Ingest, Drop, rows, places
  <2>6. ASSUME NEW c \in Docs, Attach(c) \/ Lose(c)
        PROVE  UNCHANGED <<folders, stale, job, id, life, status>>
    BY <2>6 DEF Attach, Lose, rows, places
  <2>7. CASE ForceMerge
    BY <2>7, SameFolders DEF ForceMerge, places
  <2> QED
    BY <1>5, <2>1, <2>2, <2>3, <2>4, <2>5, <2>6, <2>7 DEF Around
<1> QED
  BY <1>1, <1>2, <1>3, <1>4, <1>5 DEF Next

-----------------------------------------------------------------------------
(* The theorems.                                                            *)

LEMMA InitFoldersInv == Init => FoldersInv
<1> SUFFICES ASSUME Init
             PROVE  FoldersInv
  OBVIOUS
<1>0. removals = <<>> /\ folders = <<>> /\ Len(removals) = 0 /\ Len(folders) = 0 /\ job = Idle
  BY DEF Init
<1>1. Typed
  <2>1. 1 \in Lives /\ 1 \in Ids /\ 0 \in 0..MaxDrops /\ 0 \in 0..MaxFaults
    BY SetFoldersAssumption DEF Lives, Ids
  <2>2. removals \in Seq(Removals) /\ folders \in Seq(Folders)
    BY <1>0
  <2> QED
    BY <1>0, <2>1, <2>2, IdleJob DEF Init, Typed
<1>2. Working /\ InProgress /\ Returning /\ Walked
  BY <1>0, IdleJob DEF Working, InProgress, Returning, Walked
<1>3. Ended
  BY DEF Init, Ended
<1>4. Past /\ Marked /\ NotesAreTrue
  BY <1>0 DEF Past, Marked, NotesAreTrue
<1> QED
  BY <1>1, <1>2, <1>3, <1>4 DEF FoldersInv

LEMMA StepFoldersInv == FoldersInv /\ [Next]_vars => FoldersInv'
<1>1. ASSUME FoldersInv, Next
      PROVE  FoldersInv'
  <2>1. Typed'
    BY <1>1, ArchiveTyped, RemoveTyped, StagingTyped, AroundTyped DEF FoldersInv, Next
  <2> QED
    BY <1>1, <2>1, WorkingKept, InProgressKept, EndedKept, PastKept, ReturningKept, WalkedKept,
       MarkedKept, NotesKept
       DEF FoldersInv
<1>2. ASSUME FoldersInv, UNCHANGED vars
      PROVE  FoldersInv'
  <2> USE <1>2 DEF vars, files, rows, places
  <2>1. Typed' /\ Working' /\ Returning' /\ Walked' /\ Marked'
    BY DEF FoldersInv, Typed, Working, Returning, Walked, Marked
  <2>2. InProgress' /\ Ended' /\ Past'
    BY DEF FoldersInv, InProgress, Ended, Past, Folder
  <2>3. NotesAreTrue'
    BY DEF FoldersInv, NotesAreTrue
  <2> QED
    BY <2>1, <2>2, <2>3 DEF FoldersInv
<1> QED
  BY <1>1, <1>2

LEMMA FoldersInvAlways == Spec => []FoldersInv
BY InitFoldersInv, StepFoldersInv, PTL DEF Spec

\* The folders, the rows and the running operation are well-typed at every step, and a
\* moved file is in the folder of the operation that moved it (remove_set_to_quarantine,
\* archive_quarantined).
THEOREM TypeCorrect == Spec => []TypeOK
<1>1. FoldersInv => TypeOK
  BY DEF FoldersInv, Typed, Working, InProgress, Returning, TypeOK
<1> QED
  BY <1>1, FoldersInvAlways, PTL

\* However archives, removals, their failures, crashes and people meet, no step takes the
\* last copy of a document out of the input folder, stored/, the exports and the removal
\* folders, but a put-back that overwrites a file which came under the name it had found
\* free (_restore_input_copies, archive_quarantined).
THEOREM LastCopyAlways == Spec => LastCopyIsKept
<1>1. ASSUME FoldersInv, Next, NEW c \in Docs, HasCopy(c), ~HasCopy(c)'
      PROVE  raced /\ input[job.target] = c
  BY <1>1, LastCopyStays DEF FoldersInv, Lost
<1>2. FoldersInv /\ [Next]_vars =>
        [\A c \in Docs : HasCopy(c) /\ ~HasCopy(c)' => raced /\ input[job.target] = c]_vars
  BY <1>1
<1> QED
  BY <1>2, FoldersInvAlways, PTL DEF Spec, LastCopyIsKept

\* The note of a removal folder tells the truth after any failure or crash.
THEOREM NotesAlwaysTrue == Spec => []NotesAreTrue
<1>1. FoldersInv => NotesAreTrue
  BY DEF FoldersInv
<1> QED
  BY <1>1, FoldersInvAlways, PTL

\* A removal deletes no row whose document is neither in its folder nor named there as
\* missing.
THEOREM RemovalCompletes == Spec => RemovalIsComplete
<1>1. ASSUME FoldersInv, Next, status' = "removed", status # "removed"
      PROVE  members \subseteq Folder.files \cup Folder.missing
  <2>1. job.op = "remove" /\ job.at = "committing" /\ members = job.snap
    BY <1>1, StatusOfStep DEF RemoveCommit, At
  <2> QED
    BY <1>1, <2>1 DEF FoldersInv, InProgress, AfterCommit
<1>2. FoldersInv /\ [Next]_vars =>
        [status' = "removed" /\ status # "removed" =>
           members \subseteq Folder.files \cup Folder.missing]_vars
  BY <1>1
<1> QED
  BY <1>2, FoldersInvAlways, PTL DEF Spec, RemovalIsComplete

\* When the rows of a set go, no file of a document that goes with them is left in the
\* input folder but one that came after the folder was listed and, for an archive, one that
\* could not be read or whose document was attached after the last re-read.
THEOREM NothingIsLeftBehind == Spec => NothingStaysBehind
<1>1. ASSUME FoldersInv, Next, ~Active', Active, NEW n \in Slots, input[n] \in members
      PROVE  n \in late \/ (job.op = "archive" /\ (job.unread \/ input[n] \notin job.snap))
  <2>1. status' \in {"archived", "removed"} /\ status \notin {"archived", "removed"}
    <3>1. Typed'
      BY <1>1, ArchiveTyped, RemoveTyped, StagingTyped, AroundTyped DEF FoldersInv, Next
    <3> QED
      BY <1>1, <3>1 DEF Active, Typed
  <2>2. CASE ArchiveCommit
    BY <1>1, <2>2 DEF ArchiveCommit, At, FoldersInv, Walked
  <2>3. CASE job.at = "committing" /\ members = job.snap
    BY <1>1, <2>3 DEF FoldersInv, Walked
  <2> QED
    BY <1>1, <2>1, <2>2, <2>3, StatusOfStep
<1>2. FoldersInv /\ [Next]_vars =>
        [~Active' /\ Active =>
           \A n \in Slots : input[n] \in members =>
             \/ n \in late
             \/ job.op = "archive" /\ (job.unread \/ input[n] \notin job.snap)]_vars
  BY <1>1
<1> QED
  BY <1>2, FoldersInvAlways, PTL DEF Spec, NothingStaysBehind

\* A set takes no quarantine folder over from another, unless the removal of the other
\* could not take its id off.
THEOREM FoldersNeverShared == Spec => FoldersAreNotShared
<1>1. ASSUME FoldersInv, Next, NEW k \in DOMAIN folders, folders'[k].life # folders[k].life
      PROVE  folders[k].life \in stale
  <2>0. /\ folders \in Seq(Folders) /\ DOMAIN folders = 1..Len(folders) /\ Len(folders) \in Nat
        /\ folders[k] \in Folders /\ life \in Lives
    BY <1>1, LenProperties, ElementOfSeq DEF FoldersInv, Typed
  <2>1. QuarantineCopy \/ RemoveUnmark
    <3>1. CASE UNCHANGED folders
      BY <1>1, <3>1
    <3>2. CASE Archive \/ Staging
      BY <3>1, <3>2 DEF Archive, Staging, ArchiveStart, ArchiveReread, ArchivePublish,
         ArchiveFail, UndoLook, UndoMove, UndoEnd,
         ArchiveCommit, ArchiveMove, StagingFails, Copy, places
    <3>3. CASE Remove
      BY <3>1, <3>3 DEF Remove, RemoveStart, RemovePublish, RemoveMoved, RemoveCommit, RemoveFail,
         RemoveReport, RemoveUnlink, RemoveMove, RestoreLook, RestoreReplace, places
    <3>4. CASE Around
      <4>1. ASSUME NEW n \in Slots, Ingest(n) \/ \E c \in Docs : Drop(n, c)
            PROVE  UNCHANGED folders
        BY <4>1 DEF Ingest, Drop, places
      <4>2. ASSUME NEW c \in Docs, Attach(c) \/ Found(c) \/ Lose(c)
            PROVE  UNCHANGED folders
        BY <4>2 DEF Attach, Found, Lose, places
      <4>3. CASE ForceMerge \/ Crash
        BY <3>1, <4>3 DEF ForceMerge, Crash, places
      <4> QED
        BY <3>1, <3>4, <4>1, <4>2, <4>3 DEF Around
    <3> QED
      BY <1>1, <3>2, <3>3, <3>4 DEF Next
  <2>2. CASE RemoveUnmark
    <3>1. [folders[k] EXCEPT !.marker = None].life = folders[k].life
      BY <2>0 DEF Folders
    <3> QED
      BY <1>1, <2>0, <2>2, <3>1 DEF RemoveUnmark
  <2>3. CASE QuarantineCopy
    <3>1. ASSUME NEW j \in Own,
                 folders' = [folders EXCEPT ![j].life = life,
                                            ![j].docs = @ \cup (members \cap stored)]
          PROVE  folders[k].life \in stale
      <4>1. CASE k # j
        BY <1>1, <2>0, <3>1, <4>1
      <4>2. CASE k = j
        <5>1. folders[k].marker = id
          BY <4>2 DEF Own
        <5>2. folders'[k].life = life
          BY <2>0, <3>1, <4>2 DEF Folders
        <5> QED
          BY <1>1, <2>0, <5>1, <5>2 DEF FoldersInv, Marked
      <4> QED
        BY <4>1, <4>2
    <3>2. ASSUME NEW marker \in {id, None},
                 folders' = Append(folders, [marker |-> marker, life |-> life, print |-> members,
                                             docs |-> members \cap stored])
          PROVE  FALSE
      <4> DEFINE f == [marker |-> marker, life |-> life, print |-> members, docs |-> members \cap stored]
      <4>1. f \in Folders
        BY <1>1 DEF FoldersInv, Typed, Folders
      <4>2. folders' = Append(folders, f)
        BY <3>2
      <4> HIDE DEF f
      <4>3. folders'[k] = folders[k]
        BY <2>0, <4>1, <4>2, AppendProperties
      <4> QED
        BY <1>1, <4>3
    <3> QED
      BY <2>3, <3>1, <3>2 DEF QuarantineCopy
  <2> QED
    BY <2>1, <2>2, <2>3
<1>2. FoldersInv /\ [Next]_vars =>
        [\A k \in DOMAIN folders :
           folders'[k].life # folders[k].life => folders[k].life \in stale]_vars
  BY <1>1
<1> QED
  BY <1>2, FoldersInvAlways, PTL DEF Spec, FoldersAreNotShared

=============================================================================
