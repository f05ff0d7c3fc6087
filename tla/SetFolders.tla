------------------------------ MODULE SetFolders ------------------------------
(***************************************************************************)
(* The folders of one PO number in services/quarantine.py: the quarantine    *)
(* folder of a set (quarantine_copy), its archive export                     *)
(* (archive_quarantined) and its removal (remove_set_to_quarantine), with    *)
(* the routes in api/routes/po_sets.py that hold the locks around them.      *)
(*                                                                           *)
(* A document is its content.  A set lives, is archived or removed, and the  *)
(* same PO number may found another one later: `life` counts them, `id` is   *)
(* the row's id, which SQLite gives again once the last row is deleted.  An  *)
(* archive holds the per-PO lock only; a removal also holds the sync lock.   *)
(* Both walk over files one at a time, and only their last transaction       *)
(* changes rows; `job` is where the one that runs is.                        *)
(***************************************************************************)
EXTENDS Naturals, Sequences, FiniteSets

CONSTANTS
  Docs,                          \* contents of documents
  Slots,                         \* names of files in the input folder
  MaxLives,                      \* bound on the sets of this PO number
  MaxDrops, MaxTries, MaxFaults, \* bounds on files put in, removals begun and troubles
  None

Lives == 1..MaxLives
Ids == 1..MaxLives
Exports == [files : SUBSET Docs, missing : SUBSET Docs, input : SUBSET (Slots \X Docs)]

ASSUME SetFoldersAssumption ==
  /\ MaxLives \in Nat \ {0}
  /\ MaxDrops \in Nat /\ MaxTries \in Nat /\ MaxFaults \in Nat
  /\ None \notin Docs /\ None \notin Slots /\ None \notin Exports /\ None \notin Ids

VARIABLES
  input,    \* the input folder
  late,     \* names put in the folder after the running operation listed it
  stored,   \* contents with a copy in data/stored
  free,     \* contents of active rows that are in no set
  members,  \* contents of active rows in the set
  life, id, \* which set of this PO number there is, or was last, and its id
  status,   \* "quarantined", "merged", "archived" or "removed"
  packet,   \* the merged packet is on disk
  exports,  \* the complete archive export of an id, or None
  removals, \* the removal folders, in order
  folders,  \* the quarantine folders of this PO number, in the order they were made
  job,      \* the archive or removal that runs
  raced,    \* history: a file came under the name a put-back found free and has yet to fill
  stale,    \* history: removed lives whose folder still carries their id
  drops, faults

files == <<input, late, stored, packet>>
rows == <<free, members, life, id, status>>
places == <<exports, removals, folders>>
vars == <<files, rows, places, job, raced, stale, drops, faults>>

\* snap: the documents read at the start; seen: those copied or found missing, missing;
\* rounds: re-reads for late arrivals; todo: input files to look at; moved: those moved,
\* <<name, content>>; unread: one could not be read; file: the one that is being put back,
\* target: the name found free for it.
Idle == [op |-> "none", at |-> "idle", snap |-> {}, seen |-> {}, missing |-> {},
         rounds |-> 0, todo |-> {}, moved |-> {}, unread |-> FALSE,
         file |-> None, target |-> None]

Jobs == [op : {"none", "archive", "remove"},
         at : {"idle", "copying", "publishing", "moving", "undoing", "committing",
               "restoring", "reporting", "unlinking", "unmarking"},
         snap : SUBSET Docs, seen : SUBSET Docs, missing : SUBSET Docs, rounds : 0..2,
         todo : SUBSET Slots, moved : SUBSET (Slots \X Docs), unread : BOOLEAN,
         file : (Slots \X Docs) \cup {None}, target : Slots \cup {None}]

Removals == [life : Lives, files : SUBSET Docs, missing : SUBSET Docs,
             input : SUBSET (Slots \X Docs), listed : SUBSET (Slots \X Docs),
             packet : BOOLEAN, note : {"in progress", "removed", "failed"}]
Folders == [marker : Ids \cup {None}, life : Lives, docs : SUBSET Docs,
            print : SUBSET Docs]

Folder == removals[Len(removals)] \* of the removal that runs

TypeOK ==
  /\ input \in [Slots -> Docs \cup {None}]
  /\ late \subseteq Slots
  /\ stored \subseteq Docs /\ free \subseteq Docs /\ members \subseteq Docs
  /\ life \in Lives /\ id \in Ids
  /\ status \in {"quarantined", "merged", "archived", "removed"}
  /\ packet \in BOOLEAN
  /\ exports \in [Ids -> Exports \cup {None}]
  /\ removals \in Seq(Removals)
  /\ folders \in Seq(Folders)
  /\ job \in Jobs
  /\ job.op = "none" \/ job.at = "idle" => job = Idle
  /\ job.op = "archive" /\ job.at \in {"moving", "undoing"} => exports[id] # None
  /\ job.op = "remove" /\ job.at # "copying" => job.moved \subseteq Folder.input
  /\ job.target # None => job.file \in job.moved
  /\ raced \in BOOLEAN
  /\ stale \subseteq Lives
  /\ drops \in 0..MaxDrops /\ faults \in 0..MaxFaults

Init ==
  /\ input = [n \in Slots |-> None]
  /\ late = {}
  /\ stored = {} /\ free = {} /\ members = {}
  /\ life = 1 /\ id = 1
  /\ status = "quarantined"
  /\ packet = FALSE
  /\ exports = [i \in Ids |-> None]
  /\ removals = <<>>
  /\ folders = <<>>
  /\ job = Idle
  /\ raced = FALSE /\ stale = {}
  /\ drops = 0 /\ faults = 0

Fault == faults < MaxFaults /\ faults' = faults + 1
Active == status \in {"quarantined", "merged"}
At(op, stage) == job.op = op /\ job.at = stage
Goto(stage) == job' = [job EXCEPT !.at = stage]
Present == {n \in Slots : input[n] # None}

-----------------------------------------------------------------------------
(* Around the two operations.                                                *)

\* A person puts a file in the input folder.
Drop(n, c) ==
  /\ input[n] = None
  /\ drops < MaxDrops
  /\ drops' = drops + 1
  /\ input' = [input EXCEPT ![n] = c]
  /\ late' = IF job.at \in {"idle", "copying", "publishing"} THEN late ELSE late \cup {n}
  /\ raced' = (raced \/ n = job.target)
  /\ UNCHANGED <<stored, packet, rows, places, job, stale, faults>>

\* A sync ingests a file: known bytes only get their stored copy back.
Ingest(n) ==
  /\ input[n] # None
  /\ job.op # "remove"
  /\ stored' = stored \cup {input[n]}
  /\ free' = IF input[n] \in members THEN free ELSE free \cup {input[n]}
  /\ stored' # stored \/ free' # free
  /\ UNCHANGED <<input, late, packet, members, life, id, status, places, job, raced,
                 stale, drops, faults>>

\* A document is placed in the set by a sync or by hand ...
Attach(c) ==
  /\ c \in free
  /\ status = "quarantined"
  /\ free' = free \ {c}
  /\ members' = members \cup {c}
  /\ UNCHANGED <<files, life, id, status, places, job, raced, stale, drops, faults>>

\* ... or founds the next set of this number, whose id may be a removed set's.
Found(c) ==
  /\ c \in free
  /\ ~Active
  /\ job.op = "none"
  /\ life < MaxLives
  /\ life' = life + 1
  /\ id' \in IF status = "removed" THEN {id, id + 1} ELSE {id + 1}
  /\ id' \in Ids
  /\ free' = free \ {c}
  /\ members' = {c}
  /\ status' = "quarantined"
  /\ UNCHANGED <<files, places, job, raced, stale, drops, faults>>

\* The operator forces the merge.
ForceMerge ==
  /\ status = "quarantined"
  /\ members # {} /\ members \subseteq stored
  /\ job.op = "none"
  /\ status' = "merged"
  /\ packet' = TRUE
  /\ UNCHANGED <<input, late, stored, free, members, life, id, places, job, raced, stale,
                 drops, faults>>

\* A stored copy that is not the last copy is lost.
Lose(c) ==
  /\ c \in stored
  /\ \E n \in Slots : input[n] = c
  /\ Fault
  /\ stored' = stored \ {c}
  /\ UNCHANGED <<input, late, packet, rows, places, job, raced, stale, drops>>

Crash ==
  /\ job.op # "none"
  /\ Fault
  /\ job' = Idle
  /\ late' = {}
  /\ raced' = FALSE
  /\ stale' = IF job.at \in {"reporting", "unlinking", "unmarking"} THEN stale \cup {life}
             ELSE stale
  /\ UNCHANGED <<input, stored, packet, rows, places, drops>>

-----------------------------------------------------------------------------
(* quarantine_copy: the folder of a quarantined set.                         *)

\* The folder named for the PO number, then those named for the contents of the set as
\* well (_set_fingerprint): a set's own are those that carry its id.
Tried == {k \in 1..Len(folders) : k = 1 \/ folders[k].print = members}
Own == {k \in Tried : folders[k].marker = id}

\* The marker, then the stored copies, in the first of its own folders or in a new one;
\* what an earlier copy put there stays.
QuarantineCopy ==
  /\ status = "quarantined"
  /\ job.op # "remove"
  /\ \/ \E k \in Own :
          /\ \A j \in Own : k <= j
          /\ folders' = [folders EXCEPT ![k].life = life,
                                       ![k].docs = @ \cup (members \cap stored)]
          /\ UNCHANGED faults
     \/ /\ Own = {}
        /\ \E marker \in {id, None} :
             /\ folders' = Append(folders, [marker |-> marker, life |-> life, print |-> members,
                                           docs |-> members \cap stored])
             /\ IF marker = id THEN UNCHANGED faults
                ELSE Fault                 \* the marker cannot be written
  /\ folders' # folders
  /\ UNCHANGED <<files, rows, exports, removals, job, raced, stale, drops>>

-----------------------------------------------------------------------------
(* archive_quarantined                                                       *)

\* A complete export that a failed attempt left under this id is used again.
Reusable == exports[id] # None

ArchiveStart ==
  /\ status = "quarantined"
  /\ job.op = "none"
  /\ job' = [Idle EXCEPT !.op = "archive", !.snap = members,
                        !.at = IF Reusable THEN "moving" ELSE "copying",
                        !.todo = IF Reusable THEN Present ELSE {}]
  /\ UNCHANGED <<files, rows, places, raced, stale, drops, faults>>

\* One document after the other; a missing one is recorded as missing.
Copy(c) ==
  /\ job.at = "copying"
  /\ c \in job.snap \ job.seen
  /\ job' = [job EXCEPT !.seen = @ \cup {c},
                       !.missing = IF c \in stored THEN @ ELSE @ \cup {c}]
  /\ UNCHANGED <<files, rows, places, raced, stale, drops, faults>>

\* Late arrivals are copied too, twice at most.
ArchiveReread ==
  /\ At("archive", "copying")
  /\ job.snap \subseteq job.seen
  /\ job' = IF job.rounds = 2 \/ members \subseteq job.seen
            THEN [job EXCEPT !.at = "publishing"]
            ELSE [job EXCEPT !.snap = members, !.rounds = @ + 1]
  /\ UNCHANGED <<files, rows, places, raced, stale, drops, faults>>

\* The manifest, then the rename of the staging folder; then the listing.
ArchivePublish ==
  /\ At("archive", "publishing")
  /\ exports' = [exports EXCEPT ![id] =
                  [files |-> job.seen \ job.missing, missing |-> job.missing, input |-> {}]]
  /\ job' = [job EXCEPT !.at = "moving", !.todo = Present]
  /\ UNCHANGED <<files, rows, removals, folders, raced, stale, drops, faults>>

\* A copy that belongs to the set moves into the export; one that cannot be read is
\* passed over.
ArchiveMove(n) ==
  /\ At("archive", "moving")
  /\ n \in job.todo
  /\ \/ /\ input[n] \in job.snap
        /\ exports' = [exports EXCEPT ![id].input = @ \cup {<<n, input[n]>>}]
        /\ input' = [input EXCEPT ![n] = None]
        /\ job' = [job EXCEPT !.todo = @ \ {n}, !.moved = @ \cup {<<n, input[n]>>}]
        /\ UNCHANGED faults
     \/ /\ \/ input[n] \notin job.snap /\ UNCHANGED faults
           \/ Fault
        /\ job' = [job EXCEPT !.todo = @ \ {n}, !.unread = @ \/ faults' # faults]
        /\ UNCHANGED <<exports, input>>
  /\ UNCHANGED <<late, stored, packet, rows, removals, folders, raced, stale, drops>>

\* A move fails: those before it are undone one at a time.
ArchiveFail ==
  /\ At("archive", "moving")
  /\ job.todo # {}
  /\ Fault
  /\ Goto("undoing")
  /\ UNCHANGED <<files, rows, places, raced, stale, drops>>

\* What a put-back does once it has a name: the file goes there, whatever is there by
\* now; or it is done with.
PutBack == input' = [input EXCEPT ![job.target] = job.file[2]]
PutAway ==
  /\ job' = [job EXCEPT !.moved = @ \ {job.file}, !.file = None, !.target = None]
  /\ raced' = FALSE

\* A file is put back if its name is free, ...
UndoLook(file) ==
  /\ At("archive", "undoing")
  /\ job.target = None
  /\ file \in job.moved
  /\ job' = IF input[file[1]] = None THEN [job EXCEPT !.file = file, !.target = file[1]]
            ELSE [job EXCEPT !.moved = @ \ {file}]
  /\ UNCHANGED <<files, rows, places, raced, stale, drops, faults>>

\* ... and one that cannot be moved back is only logged.
UndoMove ==
  /\ At("archive", "undoing")
  /\ job.target # None
  /\ \/ PutBack /\ exports' = [exports EXCEPT ![id].input = @ \ {job.file}]
     \/ UNCHANGED <<input, exports>>
  /\ PutAway
  /\ UNCHANGED <<late, stored, packet, rows, removals, folders, stale, drops, faults>>

UndoEnd ==
  /\ At("archive", "undoing")
  /\ job.moved = {}
  /\ job' = Idle
  /\ late' = {}
  /\ UNCHANGED <<input, stored, packet, rows, places, raced, stale, drops, faults>>

\* A mutant: a commit that fails leaves the attempt open.
ArchiveCommitLeftOpen ==
  /\ At("archive", "moving")
  /\ job.todo = {}
  /\ \/ status' = "archived" /\ members' = {} /\ UNCHANGED faults /\ job' = Idle
     \/ Fault /\ UNCHANGED <<status, members>> /\ Goto("idle")
  /\ late' = {}
  /\ UNCHANGED <<input, stored, packet, free, life, id, places, raced, stale, drops>>

\* One transaction archives the set and whatever documents it has by now.
ArchiveCommit ==
  /\ At("archive", "moving")
  /\ job.todo = {}
  /\ \/ status' = "archived" /\ members' = {} /\ UNCHANGED faults
     \/ Fault /\ UNCHANGED <<status, members>>
  /\ job' = Idle
  /\ late' = {}
  /\ UNCHANGED <<input, stored, packet, free, life, id, places, raced, stale, drops>>

\* A copy or the manifest fails: the staging folder is removed, nothing else changed.
StagingFails ==
  /\ job.at \in {"copying", "publishing"}
  /\ Fault
  /\ job' = Idle
  /\ UNCHANGED <<files, rows, places, raced, stale, drops>>

-----------------------------------------------------------------------------
(* remove_set_to_quarantine                                                  *)

RemoveStart ==
  /\ Active
  /\ job.op = "none"
  /\ Len(removals) < MaxTries
  /\ job' = [Idle EXCEPT !.op = "remove", !.at = "copying", !.snap = members]
  /\ UNCHANGED <<files, rows, places, raced, stale, drops, faults>>

\* The packet and the export, then the rename: the folder is there, and says that the
\* removal is in progress.
RemovePublish ==
  /\ At("remove", "copying")
  /\ job.snap \subseteq job.seen
  /\ removals' = Append(removals,
       [life |-> life, files |-> job.seen \ job.missing, missing |-> job.missing,
        input |-> {}, listed |-> {}, packet |-> packet, note |-> "in progress"])
  /\ job' = [job EXCEPT !.at = "moving", !.todo = Present]
  /\ UNCHANGED <<files, rows, exports, folders, raced, stale, drops, faults>>

Now(folder) == removals' = [removals EXCEPT ![Len(removals)] = folder]

\* A copy that belongs to the set is copied, compared and removed; a file that cannot be
\* read is remembered, and a copy that fails ends the walk.
RemoveMove(n) ==
  /\ At("remove", "moving")
  /\ n \in job.todo
  /\ \/ /\ input[n] \in job.snap
        /\ Now([Folder EXCEPT !.input = @ \cup {<<n, input[n]>>}])
        /\ input' = [input EXCEPT ![n] = None]
        /\ job' = [job EXCEPT !.todo = @ \ {n}, !.moved = @ \cup {<<n, input[n]>>}]
        /\ UNCHANGED faults
     \/ /\ input[n] \notin job.snap
        /\ job' = [job EXCEPT !.todo = @ \ {n}]
        /\ UNCHANGED <<removals, input, faults>>
     \/ /\ Fault
        /\ \/ job' = [job EXCEPT !.todo = @ \ {n}, !.unread = TRUE]
           \/ Goto("restoring")
        /\ UNCHANGED <<removals, input>>
  /\ UNCHANGED <<late, stored, packet, rows, exports, folders, raced, stale, drops>>

\* A mutant: files that could not be read are passed over, as an archive does.
RemoveMovedRegardless ==
  /\ At("remove", "moving")
  /\ job.todo = {}
  /\ Goto("committing")
  /\ UNCHANGED <<files, rows, places, raced, stale, drops, faults>>

RemoveMoved ==
  /\ At("remove", "moving")
  /\ job.todo = {}
  /\ Goto(IF job.unread THEN "restoring" ELSE "committing")
  /\ UNCHANGED <<files, rows, places, raced, stale, drops, faults>>

\* A mutant: the documents are not read again.
RemoveCommitBlindly ==
  /\ At("remove", "committing")
  /\ \/ /\ status' = "removed"
        /\ members' = {}
        /\ Goto("reporting")
        /\ UNCHANGED faults
     \/ /\ Fault
        /\ Goto("restoring")
        /\ UNCHANGED <<status, members>>
  /\ UNCHANGED <<files, free, life, id, places, raced, stale, drops>>

\* The rows go in one transaction, unless a document arrived since they were read.
RemoveCommit ==
  /\ At("remove", "committing")
  /\ \/ /\ members = job.snap
        /\ status' = "removed"
        /\ members' = {}
        /\ Goto("reporting")
        /\ UNCHANGED faults
     \/ /\ members # job.snap
        /\ Goto("restoring")
        /\ UNCHANGED <<status, members, faults>>
     \/ /\ Fault
        /\ Goto("restoring")
        /\ UNCHANGED <<status, members>>
  /\ UNCHANGED <<files, free, life, id, places, raced, stale, drops>>

\* A mutant: under its old name, whatever is there.
RestoreLookNowhere(file) ==
  /\ At("remove", "restoring")
  /\ job.target = None
  /\ file \in job.moved
  /\ job' = [job EXCEPT !.file = file, !.target = file[1]]
  /\ UNCHANGED <<files, rows, places, raced, stale, drops, faults>>

\* _restore_input_copies: under its old name, or a free one if somebody took it.
RestoreLook(file) ==
  /\ At("remove", "restoring")
  /\ job.target = None
  /\ file \in job.moved
  /\ \E n \in Slots :
       /\ input[n] = None
       /\ input[file[1]] = None => n = file[1]
       /\ job' = [job EXCEPT !.file = file, !.target = n]
  /\ UNCHANGED <<files, rows, places, raced, stale, drops, faults>>

\* A mutant: a file that cannot be put back is not reported.
RestoreReplaceSilently ==
  /\ At("remove", "restoring")
  /\ job.target # None
  /\ \/ /\ PutBack
        /\ Now([Folder EXCEPT !.input = @ \ {job.file}])
        /\ UNCHANGED faults
     \/ Fault /\ UNCHANGED <<input, removals>>
  /\ PutAway
  /\ UNCHANGED <<late, stored, packet, rows, exports, folders, stale, drops>>

\* The file is written beside the name and renamed to it, then the copy goes.  One of
\* the three fails: it is reported, and the copy stays.
RestoreReplace ==
  /\ At("remove", "restoring")
  /\ job.target # None
  /\ \/ /\ PutBack
        /\ Now([Folder EXCEPT !.input = @ \ {job.file}])
        /\ UNCHANGED faults
     \/ /\ PutBack \/ UNCHANGED input
        /\ Now([Folder EXCEPT !.listed = @ \cup {job.file}])
        /\ Fault
  /\ PutAway
  /\ UNCHANGED <<late, stored, packet, rows, exports, folders, stale, drops>>

\* _mark_removal_failed; the note may fail to be written.
RemoveFail ==
  /\ At("remove", "restoring")
  /\ job.moved = {}
  /\ \/ Now([Folder EXCEPT !.note = "failed"]) /\ UNCHANGED faults
     \/ Fault /\ UNCHANGED removals
  /\ job' = Idle
  /\ late' = {}
  /\ UNCHANGED <<input, stored, packet, rows, exports, folders, raced, stale, drops>>

\* After the commit: the report, the packet, the markers.
RemoveReport ==
  /\ At("remove", "reporting")
  /\ \/ Now([Folder EXCEPT !.note = "removed"]) /\ UNCHANGED faults
     \/ Fault /\ UNCHANGED removals
  /\ Goto("unlinking")
  /\ UNCHANGED <<files, rows, exports, folders, raced, stale, drops>>

RemoveUnlink ==
  /\ At("remove", "unlinking")
  /\ \/ packet' = FALSE /\ UNCHANGED faults
     \/ packet /\ Fault /\ UNCHANGED packet
  /\ Goto("unmarking")
  /\ UNCHANGED <<input, late, stored, rows, places, raced, stale, drops>>

\* A mutant: the markers are left.
RemoveUnmarkNothing ==
  /\ At("remove", "unmarking")
  /\ job' = Idle
  /\ late' = {}
  /\ UNCHANGED <<input, stored, packet, rows, places, raced, stale, drops, faults>>

RemoveUnmark ==
  /\ At("remove", "unmarking")
  /\ \/ /\ folders' = [k \in 1..Len(folders) |->
                        IF folders[k].marker = id THEN [folders[k] EXCEPT !.marker = None]
                        ELSE folders[k]]
        /\ UNCHANGED <<stale, faults>>
     \/ Fault /\ stale' = stale \cup {life} /\ UNCHANGED folders
  /\ job' = Idle
  /\ late' = {}
  /\ UNCHANGED <<input, stored, packet, rows, exports, removals, raced, drops>>

-----------------------------------------------------------------------------
Archive == \/ ArchiveStart \/ ArchiveReread \/ ArchivePublish \/ ArchiveFail
           \/ UndoMove \/ UndoEnd \/ ArchiveCommit
           \/ \E n \in Slots : ArchiveMove(n)
           \/ \E file \in job.moved : UndoLook(file)
Remove == \/ RemoveStart \/ RemovePublish \/ RemoveMoved \/ RemoveCommit \/ RemoveFail
          \/ RemoveReport \/ RemoveUnlink \/ RemoveUnmark \/ RestoreReplace
          \/ \E n \in Slots : RemoveMove(n)
          \/ \E file \in job.moved : RestoreLook(file)
Staging == StagingFails \/ \E c \in Docs : Copy(c)
Around == \/ \E n \in Slots, c \in Docs : Drop(n, c)
          \/ \E n \in Slots : Ingest(n)
          \/ \E c \in Docs : Attach(c) \/ Found(c) \/ Lose(c)
          \/ ForceMerge \/ QuarantineCopy \/ Crash

Next == Archive \/ Remove \/ Staging \/ Around
Spec == Init /\ [][Next]_vars

-----------------------------------------------------------------------------
(* Properties.                                                               *)

Exported(c) == \E i \in Ids : /\ exports[i] # None
                              /\ \/ c \in exports[i].files
                                 \/ \E file \in exports[i].input : file[2] = c
Removed(c) == \E k \in DOMAIN removals :
                \/ c \in removals[k].files
                \/ \E file \in removals[k].input : file[2] = c

HasCopy(c) == c \in stored \/ (\E n \in Slots : input[n] = c) \/ Exported(c) \/ Removed(c)

\* Whatever an archive, a removal, their failures and a crash do with the input copies,
\* no step takes a document's last copy: it is in the input folder, in stored/, in an
\* export or in a removal folder.  One exception: a put-back looks for a free name and
\* writes to it afterwards, and a file a person gives that name in between is overwritten.
LastCopyIsKept ==
  [][\A c \in Docs : HasCopy(c) /\ ~HasCopy(c)' => raced /\ input[job.target] = c]_vars

\* The note in a removal folder tells the truth after any failure or crash: "removed"
\* only when the rows of that set are gone, "failed" never in the folder of the attempt
\* that removed them; a removal that failed put every input file back, or names it in
\* its report.
NotesAreTrue ==
  \A k \in DOMAIN removals :
    /\ removals[k].note = "removed" =>
         removals[k].life < life \/ status = "removed"
    /\ removals[k].note = "failed" /\ removals[k].life = life /\ status = "removed" =>
         \E j \in (k + 1)..Len(removals) : removals[j].life = life
    /\ removals[k].note = "failed" => removals[k].input \subseteq removals[k].listed

\* The rows of a set are deleted only when each of its documents is in the removal
\* folder or named there as missing, whatever was attached to it meanwhile.
RemovalIsComplete ==
  [][status' = "removed" /\ status # "removed" =>
       members \subseteq Folder.files \cup Folder.missing]_vars

\* A set that was archived or removed does not come back by itself: when its rows go, no
\* file of a document that goes with them is left in the input folder, except one that
\* came after the folder was listed and, for an archive, one that could not be read and
\* one of a document attached after the archive read the set for the last time: the
\* commit archives that document too.
NothingStaysBehind ==
  [][~Active' /\ Active =>
       \A n \in Slots : input[n] \in members =>
         \/ n \in late
         \/ job.op = "archive" /\ (job.unread \/ input[n] \notin job.snap)]_vars

\* The quarantine folder of one set is not overwritten by another of the same number,
\* unless the removal of the first could not take its id off the folder.
FoldersAreNotShared ==
  [][\A k \in DOMAIN folders :
       folders'[k].life # folders[k].life => folders[k].life \in stale]_vars
=============================================================================
