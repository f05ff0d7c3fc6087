-------------------------------- MODULE Intake --------------------------------
(***************************************************************************)
(* How a file in the input folder becomes a document: services/ingestion.py, *)
(* services/splitting.py, the handling of combined PDFs in                   *)
(* services/extraction.py, the quarantine and the set-aside of one document  *)
(* in services/quarantine.py, and the parts of flows/sync.py that call them. *)
(*                                                                           *)
(* A file is its content: `documents.sha256_hash` identifies it, and copies  *)
(* under other names are the same document.  A part cut from a combined PDF  *)
(* is the content <<parent, first page, last page>> and its file is named    *)
(* <<parent, number>>.  The sync and a set-aside both hold the sync lock, so *)
(* one program counter stands for whoever holds it; people who put files in  *)
(* the folder, the upload route and crashes come in between its steps.  One  *)
(* step is one file operation or one transaction.                            *)
(*                                                                           *)
(* The outcome of a reading is the file's Kind (DocumentReading models the   *)
(* attempts), the placement in a set and the merge are commits by other      *)
(* parts (Grouping, PoSetLifecycle).                                         *)
(***************************************************************************)
EXTENDS Naturals, Sequences, FiniteSets

CONSTANTS
  Files,       \* contents that people put in the input folder
  Names,       \* names they give them
  Arrivals,    \* <<content, name>> pairs that may be put there
  Kind,        \* of each file: "single", "combined", "broken" or "reject"
  Pages,       \* page count of every combined file
  Claims,      \* what the vision model may say a combined file consists of
  Recombined,  \* parts that are read as combined files once more
  Uploads,     \* contents an operator may upload as customs papers
  Splitting,   \* values that extraction.split_combined takes over time
  MaxDrops,    \* bound on files put in the folder and uploads
  MaxFaults,   \* bound on faults, crashes and removed copies
  None         \* no file, no row

Parts == {p \in Files \X (1..Pages) \X (1..Pages) :
            Kind[p[1]] = "combined" /\ p[2] <= p[3]}
Contents == Files \cup Parts
PartNames == {f \in Files : Kind[f] = "combined"} \X (1..Pages)
Places == Names \cup PartNames
\* A file's bytes, and whether it is still being written.
Copies == [body : Contents, growing : BOOLEAN]

KindOf(c) == IF c \in Files THEN Kind[c]
             ELSE IF c \in Recombined THEN "combined" ELSE "single"

Rows == [status : {"pending", "valid", "failed"}, split : {"no", "failed", "done"},
         name : Places, parent : Files \cup {None}, rejected : BOOLEAN,
         set : {"none", "open", "merged"}]

\* A claim: the page count and the components, each [from, to, skip].
Components == [from : 0..(Pages + 1), to : 0..(Pages + 1), skip : BOOLEAN]

ASSUME IntakeAssumption ==
  /\ Arrivals \subseteq Files \X Names
  /\ Names \cap PartNames = {} /\ Files \cap Parts = {}
  /\ None \notin Contents \cup Copies \cup Rows
  /\ Kind \in [Files -> {"single", "combined", "broken", "reject"}]
  /\ Pages \in Nat \ {0}
  /\ \A claim \in Claims : claim.count \in Nat /\ claim.parts \in Seq(Components)
  /\ Recombined \subseteq Parts
  /\ Uploads \subseteq Files
  /\ Splitting \subseteq BOOLEAN
  /\ MaxDrops \in Nat /\ MaxFaults \in Nat

VARIABLES
  input,     \* the input folder: a file, or None, under each name
  stored,    \* contents with a copy in data/stored
  kept,      \* contents with a copy in quarantine/_documents
  reported,  \* contents whose quarantine folder has its report
  parked,    \* the combined/ folder
  row,       \* the active document row of each content, or None
  cut,       \* history: the parts a completed split was cut into
  arrived,   \* history: contents that were completely in the input folder
  lost,      \* history: contents of which a person, or the parking of another
             \* file, removed the last copy
  holder,    \* who holds the sync lock: "nobody", "sync" or "operator"
  job,       \* where the holder is and what it carries
  upload,    \* the upload route: its place and its content
  drops, faults

folders == <<input, stored, kept, reported, parked>>
history == <<cut, arrived, lost>>
budget == <<drops, faults>>
vars == <<folders, row, history, holder, job, upload, budget>>

\* todo: <<name, content>> pairs the stability poll passed; found: pairs ingested;
\* reads: documents to read; tried: those read in this pass; failed: those to be
\* quarantined; doc, name: the one in hand; claim, next: the split in hand; back:
\* where a quarantine returns to; again: the recovery pass.
Idle == [at |-> "idle", todo |-> {}, found |-> {}, reads |-> {}, tried |-> {},
         failed |-> {}, doc |-> None, name |-> None, claim |-> None, next |-> 0,
         back |-> "idle", again |-> FALSE]

Stages == {"idle", "listing", "ingesting", "rejecting", "recording", "inserting",
           "reading", "clearing", "condemning", "cutting", "parking", "sweeping",
           "closing", "tidying", "copying", "removing", "reporting", "settling",
           "delivering", "recopying", "marking"}

Jobs == [at : Stages, todo : SUBSET (Places \X Contents),
         found : SUBSET (Places \X Contents), reads : SUBSET Contents,
         tried : SUBSET Contents, failed : SUBSET Contents,
         doc : Contents \cup {None}, name : Places \cup {None},
         claim : Claims \cup {None}, next : 0..(Pages + 1),
         back : {"idle", "reading", "tidying", "marking"}, again : BOOLEAN]

TypeOK ==
  /\ input \in [Places -> Copies \cup {None}]
  /\ stored \in SUBSET Contents
  /\ kept \in SUBSET Contents
  /\ reported \in SUBSET Contents
  /\ parked \in [Places -> Copies \cup {None}]
  /\ row \in [Contents -> Rows \cup {None}]
  /\ cut \in [Files -> SUBSET Parts]
  /\ arrived \in SUBSET Files
  /\ lost \in SUBSET Contents
  /\ holder \in {"nobody", "sync", "operator"}
  /\ job \in Jobs
  /\ upload \in {<<"idle">>} \cup ({"looking", "adding"} \X Uploads)
  /\ drops \in 0..MaxDrops
  /\ faults \in 0..MaxFaults

Init ==
  /\ input = [n \in Places |-> None]
  /\ stored = {}
  /\ kept = {}
  /\ reported = {}
  /\ parked = [n \in Places |-> None]
  /\ row = [c \in Contents |-> None]
  /\ cut = [f \in Files |-> {}]
  /\ arrived = {}
  /\ lost = {}
  /\ holder = "nobody"
  /\ job = Idle
  /\ upload = <<"idle">>
  /\ drops = 0
  /\ faults = 0

-----------------------------------------------------------------------------
(* Folders.                                                                  *)

Holds(n, c) == input[n] # None /\ input[n].body = c
Without(S) == [n \in Places |-> IF n \in S THEN None ELSE input[n]]
Complete(n, c) == Holds(n, c) /\ ~input[n].growing
CopiesOf(c) == {n \in Places : Complete(n, c)}
Parked(c) == \E n \in Places : parked[n] = [body |-> c, growing |-> FALSE]
Somewhere(c) == c \in stored \cup kept \/ CopiesOf(c) # {} \/ Parked(c)

At(stage) == job.at = stage
Goto(stage) == job' = [job EXCEPT !.at = stage]
\* The document in hand is done with.
Freed(stage) == [job EXCEPT !.at = stage, !.doc = None, !.name = None, !.claim = None,
                           !.next = 0, !.back = "idle"]
Fault == faults < MaxFaults /\ faults' = faults + 1

-----------------------------------------------------------------------------
(* People and the outside.                                                   *)

\* A file begins to be copied into the input folder, under a free name.
Drop(c, n) ==
  /\ <<c, n>> \in Arrivals
  /\ input[n] = None
  /\ drops < MaxDrops
  /\ drops' = drops + 1
  /\ input' = [input EXCEPT ![n] = [body |-> c, growing |-> TRUE]]
  /\ UNCHANGED <<stored, kept, reported, parked, row, history, holder, job,
                 upload, faults>>

Finish(n) ==
  /\ input[n] # None
  /\ input[n].growing
  /\ input' = [input EXCEPT ![n].growing = FALSE]
  /\ arrived' = arrived \cup {input[n].body}
  /\ lost' = lost \ {input[n].body}
  /\ UNCHANGED <<stored, kept, reported, parked, row, cut, holder, job,
                 upload, budget>>

\* Somebody cleans up the quarantine folder, or the stored files.
Lose(c) ==
  /\ holder = "nobody"
  /\ upload = <<"idle">>
  /\ Fault
  /\ \/ c \in kept /\ kept' = kept \ {c} /\ UNCHANGED stored
     \/ c \in stored /\ stored' = stored \ {c} /\ UNCHANGED kept
  /\ UNCHANGED <<input, reported, parked, row, cut, arrived, holder, job, upload,
                 drops>>
  /\ lost' = IF Somewhere(c)' THEN lost ELSE lost \cup {c}

Crash ==
  /\ holder # "nobody" \/ upload # <<"idle">>
  /\ Fault
  /\ holder' = "nobody"
  /\ job' = Idle
  /\ upload' = <<"idle">>
  /\ UNCHANGED <<folders, row, history, drops>>

-----------------------------------------------------------------------------
(* Phase A of a sync: the scan and the ingestion.                            *)

SyncStart ==
  /\ holder = "nobody"
  /\ holder' = "sync"
  /\ Goto("listing")
  /\ UNCHANGED <<folders, row, history, upload, budget>>

\* find_input_pdfs: every PDF in the folder and its subfolders, once.
Present == {n \in Places : input[n] # None}

List ==
  /\ At("listing")
  /\ job' = [job EXCEPT !.at = "ingesting",
                        !.todo = {<<n, input[n].body>> : n \in Present}]
  /\ UNCHANGED <<folders, row, history, holder, upload, budget>>

\* The list is worked off with the oldest file first; a file may be of any age.
Turn(n, c) == At("ingesting") /\ <<n, c>> \in job.todo
Done(n, c) == [job EXCEPT !.todo = @ \ {<<n, c>>}]

\* Mutant: the re-check never finds a file to be as the poll saw it.
LeaveAnyway(n, c) ==
  /\ Turn(n, c)
  /\ job' = Done(n, c)
  /\ UNCHANGED <<folders, row, history, holder, upload, budget>>

\* The file is still being written, or another has taken its name: the poll, the
\* re-check before reading or the incomplete-PDF check leaves it for the next scan.
Leave(n, c) ==
  /\ Turn(n, c)
  /\ ~Complete(n, c)
  /\ job' = Done(n, c)
  /\ UNCHANGED <<folders, row, history, holder, upload, budget>>

\* A file that is not an acceptable PDF is moved to the quarantine folder ...
RejectMove(n, c) ==
  /\ Turn(n, c)
  /\ Complete(n, c)
  /\ KindOf(c) = "reject"
  /\ \/ /\ input' = Without({n})
        /\ kept' = kept \cup {c}
        /\ job' = [Done(n, c) EXCEPT !.at = "recording", !.doc = c, !.name = n]
        /\ UNCHANGED faults
     \/ /\ Fault
        /\ job' = Done(n, c)
        /\ UNCHANGED <<input, kept>>
  /\ UNCHANGED <<stored, reported, parked, row, history, holder, upload, drops>>

\* ... and gets a failed row, unless its bytes have a row.
RejectRecord ==
  /\ At("recording")
  /\ \/ /\ row[job.doc] = None
        /\ row' = [row EXCEPT ![job.doc] =
                     [status |-> "failed", split |-> "no", name |-> job.name,
                      parent |-> None, rejected |-> TRUE, set |-> "none"]]
        /\ UNCHANGED faults
     \/ row[job.doc] # None /\ UNCHANGED <<row, faults>>
     \/ Fault /\ UNCHANGED row
  /\ job' = Freed("ingesting")
  /\ UNCHANGED <<folders, history, holder, upload, drops>>

AlreadyRead(c) == row[c].status = "valid"

\* The bytes are a document already: only a missing stored copy is written again.
IngestKnown(n, c) ==
  /\ Turn(n, c)
  /\ Complete(n, c)
  /\ KindOf(c) # "reject"
  /\ row[c] # None
  /\ \/ stored' = stored \cup {c} /\ UNCHANGED faults
     \/ c \notin stored /\ Fault /\ UNCHANGED stored
  /\ job' = [Done(n, c) EXCEPT !.found = @ \cup {<<n, c>>},
                               !.reads = IF AlreadyRead(c) THEN @ ELSE @ \cup {c}]
  /\ UNCHANGED <<input, kept, reported, parked, row, history, holder, upload, drops>>

\* New bytes: the stored copy first, then the row.
StoreNew(n, c) ==
  /\ Turn(n, c)
  /\ Complete(n, c)
  /\ KindOf(c) # "reject"
  /\ row[c] = None
  /\ stored' = stored \cup {c}
  /\ job' = [Done(n, c) EXCEPT !.at = "inserting", !.doc = c, !.name = n]
  /\ UNCHANGED <<input, kept, reported, parked, row, history, holder, upload, budget>>

\* Mutant: the link is the name itself, not the row it leads to.
ParentByName(n) == IF n \in PartNames THEN n ELSE None

\* A part's file name leads to the row of the split it came from.
ParentOf(n) ==
  IF n \in PartNames /\ row[n[1]] # None /\ row[n[1]].split # "no" THEN n[1] ELSE None

\* The unique index on active hashes lets one of two rows in.
InsertNew ==
  /\ At("inserting")
  /\ \/ /\ row[job.doc] = None
        /\ row' = [row EXCEPT ![job.doc] =
                     [status |-> "pending", split |-> "no", name |-> job.name,
                      parent |-> ParentOf(job.name), rejected |-> FALSE, set |-> "none"]]
        /\ job' = [Freed("ingesting") EXCEPT !.found = @ \cup {<<job.name, job.doc>>},
                              !.reads = @ \cup {job.doc}]
        /\ UNCHANGED faults
     \/ row[job.doc] # None /\ job' = Freed("ingesting") /\ UNCHANGED <<row, faults>>
     \/ Fault /\ job' = Freed("ingesting") /\ UNCHANGED row
  /\ UNCHANGED <<folders, history, holder, upload, drops>>

IngestEnd ==
  /\ At("ingesting")
  /\ job.todo = {}
  /\ Goto("reading")
  /\ UNCHANGED <<folders, row, history, holder, upload, budget>>

-----------------------------------------------------------------------------
(* Phase B: the readings, one document at a time.                            *)

Untried(c) == At("reading") /\ c \notin job.tried
Tried(c) == [job EXCEPT !.tried = @ \cup {c}]
Recombines(c) == KindOf(c) = "combined" /\ row[c].parent # None
Combines(c) == KindOf(c) = "combined" /\ c \in Files

\* The provider is down, the stored copy is missing, or an upload made the
\* document valid: the row stays as it is.
ReadNothing(c) ==
  /\ Untried(c)
  /\ \/ Fault
     \/ (c \notin stored \/ AlreadyRead(c)) /\ UNCHANGED faults
  /\ job' = Tried(c)
  /\ UNCHANGED <<folders, row, history, holder, upload, drops>>

ReadSingle(c) ==
  /\ Untried(c)
  /\ c \in stored
  /\ ~Combines(c) /\ ~Recombines(c) /\ KindOf(c) # "broken"
  /\ row' = [row EXCEPT ![c].status = "valid"]
  /\ job' = Tried(c)
  /\ UNCHANGED <<folders, history, holder, upload, budget>>

\* It cannot be read, or failed before and has no attempt left.
ReadBroken(c) ==
  /\ Untried(c)
  /\ c \in stored
  /\ ~AlreadyRead(c)
  /\ KindOf(c) = "broken" \/ row[c].status = "failed"
  /\ row' = [row EXCEPT ![c].status = "failed"]
  /\ job' = [Tried(c) EXCEPT !.failed = @ \cup {c}]
  /\ UNCHANGED <<folders, history, holder, upload, budget>>

\* A part reads as a combined file again: it fails, and its parent is quarantined.
ReadRecombined(c) ==
  /\ Untried(c)
  /\ c \in stored
  /\ Recombines(c)
  /\ row' = [row EXCEPT ![c].status = "failed"]
  /\ job' = [Tried(c) EXCEPT !.failed = @ \cup {c}, !.at = "copying",
                             !.doc = row[c].parent, !.back = "reading"]
  /\ UNCHANGED <<folders, history, holder, upload, budget>>

\* Splitting is off: a valid row without data, and the file is quarantined whole.
ReadUnsplit(c) ==
  /\ Untried(c)
  /\ c \in stored
  /\ Combines(c) /\ ~AlreadyRead(c)
  /\ FALSE \in Splitting
  /\ row' = [row EXCEPT ![c].status = "valid", ![c].split = "no", ![c].set = "none"]
  /\ job' = [Tried(c) EXCEPT !.at = "copying", !.doc = c, !.back = "reading"]
  /\ UNCHANGED <<folders, history, holder, upload, budget>>

\* split_combined: the gates on a claim, after the files of an earlier pass are removed.
PagesOf(part) == part.from..part.to
Malformed(part) == part.from < 1 \/ part.to > Pages \/ part.from > part.to
Overlapping(claim) ==
  \E i, j \in DOMAIN claim.parts :
    i # j /\ PagesOf(claim.parts[i]) \cap PagesOf(claim.parts[j]) # {}
\* Parts are numbered from 1, without gaps over the components that are kept.
Kept(claim) == {i \in DOMAIN claim.parts : ~claim.parts[i].skip}
Number(claim, i) == Cardinality({j \in Kept(claim) : j <= i})
Refused(claim) ==
  \/ claim.count # Pages
  \/ \E i \in DOMAIN claim.parts : Malformed(claim.parts[i])
  \/ Overlapping(claim)
  \/ UNION {PagesOf(claim.parts[i]) : i \in DOMAIN claim.parts} # 1..Pages
  \/ Kept(claim) = {}
PartOf(c, claim, i) == <<c, claim.parts[i].from, claim.parts[i].to>>
Written(c, claim, i) == [body |-> PartOf(c, claim, i), growing |-> FALSE]

Clear(c, claim) ==
  /\ Untried(c)
  /\ c \in stored
  /\ Combines(c) /\ ~AlreadyRead(c)
  /\ TRUE \in Splitting
  /\ input' = Without({c} \X (1..Pages))
  /\ job' = [Tried(c) EXCEPT !.doc = c, !.claim = claim, !.next = 1,
                             !.at = IF Refused(claim) THEN "condemning" ELSE "cutting"]
  /\ UNCHANGED <<stored, kept, reported, parked, row, history, holder, upload, budget>>

\* A refused claim: the row fails, and the whole file is quarantined.
Condemn ==
  /\ At("condemning")
  /\ row' = [row EXCEPT ![job.doc].status = "failed", ![job.doc].split = "failed",
                        ![job.doc].set = "none"]
  /\ job' = [job EXCEPT !.at = "copying", !.back = "reading",
                        !.failed = @ \cup {job.doc}]
  /\ UNCHANGED <<folders, history, holder, upload, budget>>

\* Mutant: every part is written under the first number.
CutOver ==
  /\ At("cutting")
  /\ \E i \in Kept(job.claim) :
       /\ Number(job.claim, i) = job.next
       /\ input' = [input EXCEPT ![<<job.doc, 1>>] = Written(job.doc, job.claim, i)]
  /\ job' = [job EXCEPT !.next = @ + 1, !.at =
               IF job.next = Cardinality(Kept(job.claim)) THEN "parking" ELSE @]
  /\ UNCHANGED <<stored, kept, reported, parked, row, history, holder, upload, budget>>

Cut ==
  /\ At("cutting")
  /\ \E i \in Kept(job.claim) :
       /\ Number(job.claim, i) = job.next
       /\ input' = [input EXCEPT ![<<job.doc, job.next>>] = Written(job.doc, job.claim, i)]
  /\ job' = [job EXCEPT !.next = @ + 1, !.at =
               IF job.next = Cardinality(Kept(job.claim)) THEN "parking" ELSE @]
  /\ UNCHANGED <<stored, kept, reported, parked, row, history, holder, upload, budget>>

\* The input copy, found by its name alone, moves to combined/, or is removed when
\* a file of that name is there: that may be another file, and its last copy.
Park ==
  /\ At("parking")
  /\ LET n == row[job.doc].name IN
     \/ \E other \in Contents :
          /\ Holds(n, other)
          /\ input' = Without({n})
          /\ parked' = IF parked[n] # None THEN parked
                       ELSE [parked EXCEPT ![n] = input[n]]
          /\ UNCHANGED <<stored, kept, faults>>
          /\ lost' = IF Somewhere(other)' THEN lost ELSE lost \cup {other}
          /\ Goto("sweeping")
     \/ /\ input[n] = None
        /\ Goto("sweeping")
        /\ UNCHANGED <<input, stored, kept, parked, lost, faults>>
     \/ /\ Fault
        /\ Goto("closing")
        /\ UNCHANGED <<input, stored, kept, parked, lost>>
  /\ UNCHANGED <<reported, row, cut, arrived, holder, upload, drops>>

\* Every other copy of the combined file.
Sweep ==
  /\ At("sweeping")
  /\ input' = Without(CopiesOf(job.doc))
  /\ Goto("closing")
  /\ UNCHANGED <<stored, kept, reported, parked, row, history, holder, upload, budget>>

Close ==
  /\ At("closing")
  /\ row' = [row EXCEPT ![job.doc].status = "valid", ![job.doc].split = "done",
                        ![job.doc].set = "none"]
  /\ cut' = [cut EXCEPT ![job.doc] =
               {PartOf(job.doc, job.claim, i) : i \in Kept(job.claim)}]
  /\ job' = Freed("reading")
  /\ UNCHANGED <<folders, arrived, lost, holder, upload, budget>>

\* A part cannot be written, or the commit fails: the reading is undone.
SplitFails ==
  /\ At("cutting") \/ At("closing")
  /\ Fault
  /\ job' = Freed("reading")
  /\ UNCHANGED <<folders, row, history, holder, upload, drops>>

ReadEnd ==
  /\ At("reading")
  /\ job.reads \subseteq job.tried
  /\ Goto("tidying")
  /\ UNCHANGED <<folders, row, history, holder, upload, budget>>

-----------------------------------------------------------------------------
(* Phase C: re-sent files and failed documents; then the recovery pass.      *)

\* _clear_resent_duplicate
ClearResent(n, c) ==
  /\ At("tidying")
  /\ <<n, c>> \in job.found
  /\ \/ /\ input' = IF row[c].set = "merged" /\ c \in stored /\ Complete(n, c)
                     THEN Without({n}) ELSE input
        /\ UNCHANGED faults
     \/ Fault /\ UNCHANGED input
  /\ job' = [job EXCEPT !.found = @ \ {<<n, c>>}]
  /\ UNCHANGED <<stored, kept, reported, parked, row, history, holder, upload, drops>>

\* _quarantine_broken_document (its set is PoSetLifecycle's Break)
Quarantine(c) ==
  /\ At("tidying")
  /\ job.found = {}
  /\ c \in job.failed
  /\ job' = [job EXCEPT !.at = "copying", !.doc = c, !.back = "tidying",
                        !.failed = @ \ {c}]
  /\ UNCHANGED <<folders, row, history, holder, upload, budget>>

\* After the scan's documents, the pending ones of earlier runs are read.
Recover ==
  /\ At("tidying")
  /\ job.found = {} /\ job.failed = {} /\ ~job.again
  /\ job' = [job EXCEPT !.at = "reading", !.again = TRUE, !.reads =
               {c \in Contents : row[c] # None /\ row[c].status = "pending"} \ job.tried]
  /\ UNCHANGED <<folders, row, history, holder, upload, budget>>

TidyEnd ==
  /\ At("tidying")
  /\ job.found = {} /\ job.failed = {} /\ job.again
  /\ job' = [Idle EXCEPT !.at = "settling"]
  /\ UNCHANGED <<folders, row, history, holder, upload, budget>>

\* Grouping, reconciliation and the merge, seen from here: all documents that can be
\* placed are placed in one set, and that set is delivered.
Placeable == {c \in Contents : /\ row[c] # None /\ row[c].status = "valid"
                              /\ row[c].set = "none" /\ ~Combines(c)}
Members == {c \in Contents : row[c] # None /\ row[c].set = "open"}

Group ==
  /\ At("settling")
  /\ Placeable # {}
  /\ row' = [c \in Contents |-> IF c \in Placeable THEN [row[c] EXCEPT !.set = "open"]
                                ELSE row[c]]
  /\ UNCHANGED <<folders, history, holder, job, upload, budget>>

Merge ==
  /\ At("settling")
  /\ Members # {} /\ Members \subseteq stored
  /\ row' = [c \in Contents |-> IF c \in Members THEN [row[c] EXCEPT !.set = "merged"]
                                ELSE row[c]]
  /\ job' = [job EXCEPT !.at = "delivering", !.reads = Members]
  /\ UNCHANGED <<folders, history, holder, upload, budget>>

\* delete_input_files: the files of their names with their bytes, then every copy.
Deliver ==
  /\ At("delivering")
  /\ \/ input' = Without(UNION {CopiesOf(c) : c \in job.reads}) /\ UNCHANGED faults
     \/ Fault /\ UNCHANGED input
  /\ Goto("settling")
  /\ UNCHANGED <<stored, kept, reported, parked, row, history, holder, upload, drops>>

SyncEnd ==
  /\ At("settling")
  /\ holder' = "nobody"
  /\ job' = Idle
  /\ UNCHANGED <<folders, row, history, upload, budget>>

-----------------------------------------------------------------------------
(* quarantine_document: called for failed documents, combined files, parents *)
(* of recombined parts, and by a set-aside.                                  *)

QuarantineCopy ==
  /\ At("copying")
  /\ \/ /\ kept' = IF job.doc \in stored THEN kept \cup {job.doc} ELSE kept
        /\ UNCHANGED faults
     \/ Fault /\ UNCHANGED kept
  /\ Goto("removing")
  /\ UNCHANGED <<input, stored, reported, parked, row, history, holder, upload, drops>>

\* Mutant: the input copies go whether or not a copy was made.
QuarantineRemoveAnyway ==
  /\ At("removing")
  /\ input' = Without(CopiesOf(job.doc))
  /\ Goto("reporting")
  /\ UNCHANGED <<kept, stored, reported, parked, row, history, holder, upload, budget>>

\* The input copies go only once a copy is in the quarantine folder, made from the
\* input copy of the document's name when the stored one could not be used.
QuarantineRemove ==
  /\ At("removing")
  /\ LET c == job.doc
         now == IF row[c] # None /\ Complete(row[c].name, c) THEN kept \cup {c} ELSE kept
     IN \/ /\ kept' = now
           /\ input' = IF c \in now THEN Without(CopiesOf(c)) ELSE input
           /\ UNCHANGED faults
        \/ Fault /\ UNCHANGED <<kept, input>>
  /\ Goto("reporting")
  /\ UNCHANGED <<stored, reported, parked, row, history, holder, upload, drops>>

\* A set-aside goes on with its document.
Back == job' = IF job.back = "marking" THEN [job EXCEPT !.at = "marking"] ELSE Freed(job.back)

\* QUARANTINE.txt and the audit row.  Callers in the sync go on without them.
QuarantineReport ==
  /\ At("reporting")
  /\ \/ reported' = reported \cup {job.doc} /\ Back /\ UNCHANGED <<holder, faults>>
     \/ Fault /\ holder = "sync" /\ Back /\ UNCHANGED <<reported, holder>>
     \/ Fault /\ holder = "operator" /\ holder' = "nobody" /\ job' = Idle
        /\ UNCHANGED reported
  /\ UNCHANGED <<input, stored, kept, parked, row, history, upload, drops>>

-----------------------------------------------------------------------------
(* An operator sets an unattached document aside.                            *)

SetAside(c) ==
  /\ holder = "nobody"
  /\ row[c] # None
  /\ row[c].set = "none"
  /\ holder' = "operator"
  /\ job' = [Idle EXCEPT !.doc = c, !.back = "marking",
             !.at = IF c \in reported \/ row[c].rejected THEN "recopying" ELSE "copying"]
  /\ UNCHANGED <<folders, row, history, upload, budget>>

\* It has a quarantine copy by its report: make sure of one, or refuse.
Recopy ==
  /\ At("recopying")
  /\ \/ /\ job.doc \in kept \cup stored
        /\ kept' = kept \cup {job.doc}
        /\ input' = Without(CopiesOf(job.doc))
        /\ Goto("marking")
        /\ UNCHANGED <<holder, faults>>
     \/ /\ \/ job.doc \notin kept \cup stored /\ UNCHANGED faults
           \/ job.doc \notin kept /\ Fault
        /\ holder' = "nobody"
        /\ job' = Idle
        /\ UNCHANGED <<kept, input>>
  /\ UNCHANGED <<stored, reported, parked, row, history, upload, drops>>

\* Mutant: the row is archived as it was when the move began.
MarkAsideBlindly ==
  /\ At("marking")
  /\ row' = [row EXCEPT ![job.doc] = None]
  /\ holder' = "nobody"
  /\ job' = Idle
  /\ UNCHANGED <<folders, history, upload, budget>>

\* The row is archived unless an upload attached it meanwhile.
MarkAside ==
  /\ At("marking")
  /\ \/ /\ row[job.doc].set = "none"
        /\ row' = [row EXCEPT ![job.doc] = None]
     \/ row[job.doc].set # "none" /\ UNCHANGED row
  /\ holder' = "nobody"
  /\ job' = Idle
  /\ UNCHANGED <<folders, history, upload, budget>>

-----------------------------------------------------------------------------
(* The upload of a customs paper to a set, which does not take the sync lock. *)

UploadBegin(c) ==
  /\ holder = "nobody"
  /\ upload = <<"idle">>
  /\ upload' = <<"looking", c>>
  /\ drops < MaxDrops
  /\ drops' = drops + 1
  /\ UNCHANGED <<folders, row, history, holder, job, faults>>

\* Known bytes are attached, refused or attached already; new ones are stored.
UploadLook(c) ==
  /\ upload = <<"looking", c>>
  /\ \/ /\ row[c] = None
        /\ stored' = stored \cup {c}
        /\ upload' = <<"adding", c>>
        /\ UNCHANGED row
     \/ /\ row[c] # None
        /\ row' = IF /\ row[c].set = "none" /\ ~row[c].rejected /\ row[c].split = "no"
                     /\ row[c].status # "valid" \/ Combines(c)
                  THEN [row EXCEPT ![c].set = "open", ![c].status = "valid"] ELSE row
        /\ upload' = <<"idle">>
        /\ UNCHANGED stored
  /\ UNCHANGED <<input, kept, reported, parked, history, holder, job, budget>>

\* Mutant: the hash is not unique; the upload's row takes the place of another's.
UploadAddTwice(c) ==
  /\ upload = <<"adding", c>>
  /\ \E n \in {m \in Names : <<c, m>> \in Arrivals} :
       row' = [row EXCEPT ![c] = [status |-> "valid", split |-> "no", name |-> n,
                                 parent |-> None, rejected |-> FALSE, set |-> "open"]]
  /\ upload' = <<"idle">>
  /\ UNCHANGED <<folders, history, holder, job, budget>>

UploadAdd(c) ==
  /\ upload = <<"adding", c>>
  /\ \/ /\ row[c] = None
        /\ \E n \in {m \in Names : <<c, m>> \in Arrivals} :
             row' = [row EXCEPT ![c] = [status |-> "valid", split |-> "no", name |-> n,
                                       parent |-> None, rejected |-> FALSE, set |-> "open"]]
     \/ row[c] # None /\ UNCHANGED row
  /\ upload' = <<"idle">>
  /\ UNCHANGED <<folders, history, holder, job, budget>>

-----------------------------------------------------------------------------
Scan == List \/ IngestEnd \/ RejectRecord \/ InsertNew
        \/ \E file \in job.todo :
             \/ Leave(file[1], file[2]) \/ RejectMove(file[1], file[2])
             \/ IngestKnown(file[1], file[2]) \/ StoreNew(file[1], file[2])
Read == \/ \E c \in job.reads \ job.tried :
             ReadNothing(c) \/ ReadSingle(c) \/ ReadBroken(c) \/ ReadRecombined(c)
             \/ ReadUnsplit(c) \/ \E claim \in Claims : Clear(c, claim)
        \/ Condemn \/ Cut \/ Park \/ Sweep \/ Close \/ SplitFails \/ ReadEnd
Tidy == \/ \E file \in job.found : ClearResent(file[1], file[2])
        \/ \E c \in job.failed : Quarantine(c)
        \/ Recover \/ TidyEnd \/ Deliver
Take == QuarantineCopy \/ QuarantineRemove \/ QuarantineReport \/ Recopy \/ MarkAside
Upload == \E c \in Uploads : UploadLook(c) \/ UploadAdd(c)
People == \/ \E c \in Files, n \in Names : Drop(c, n)
          \/ \E n \in Names : Finish(n)
          \/ \E c \in Contents : Lose(c) \/ SetAside(c)
          \/ \E c \in Uploads : UploadBegin(c)

Next == SyncStart \/ Scan \/ Read \/ Tidy \/ Group \/ Merge \/ SyncEnd \/ Take \/ Upload
        \/ People \/ Crash

Spec == Init /\ [][Next]_vars

\* Whoever holds the lock goes on; syncs come again, whatever operators do between
\* them; a file under way may stay so, and no set need be complete.
FairSpec == Spec /\ SF_vars(SyncStart) /\ WF_vars(Scan \/ Read \/ Tidy \/ SyncEnd \/ Take)
                 /\ WF_vars(Upload)

-----------------------------------------------------------------------------
(* Properties.                                                               *)

\* Nobody's file vanishes: a file that was completely in the input folder is in it
\* still, in stored/, in the quarantine folder or in combined/, whatever the scans,
\* splits, quarantines, set-asides, deliveries, faults and crashes between, unless a
\* person removed the last copy, or a split parked it over another of its name.
NothingVanishes == \A f \in arrived \ lost : Somewhere(f)

\* The parts of a completed split are never lost between the cutter and the next
\* scan: each is in the input folder or has a copy, as long as its parent is a row.
SplitIsComplete ==
  \A f \in Files : row[f] # None /\ row[f].split = "done" =>
    \A p \in cut[f] \ lost : Somewhere(p)

\* A document that an upload or a sync has placed in a set is not archived by a
\* set-aside that checked it before.
AttachedStays ==
  [][\A c \in Contents : row[c] # None /\ row[c].set # "none" => row'[c] # None]_vars

\* Two that bring in the same bytes, a scan and an upload, get one row: the later one
\* does not replace the earlier one's.
OneRowPerContent ==
  [][\A c \in Contents : row[c] # None /\ row'[c] # None => row'[c].name = row[c].name]_vars

\* No file is forgotten and none is in the way for ever: a complete file that has no
\* row, a row that is not read, and a file of no further use (its document failed or
\* was delivered) that still lies in the input folder are dealt with in the end.
Waiting(f) ==
  IF row[f] = None THEN CopiesOf(f) # {}
  ELSE \/ row[f].status = "pending" /\ (f \in stored \/ CopiesOf(f) # {})
       \/ (row[f].status = "failed" \/ row[f].set = "merged") /\ CopiesOf(f) # {}
NoFileWaitsForever == \A f \in Files : []<>~Waiting(f)
=============================================================================
