# TLA+ models of the AAM merger

The AAM merger watches an input folder for scanned purchase orders (PO), delivery notes (DN),
invoices (SI) and customs papers, has a vision model read them, groups them into PO sets,
reconciles the lines of each set and writes one merged PDF (the *packet*) per set. It is one web
service (request threads, an input poller thread, a dashboard that polls), one nightly Prefect
worker process, a SQLite database and a handful of folders. What is hard about it is that requests,
sync and poller act on the same rows and files with no transaction that spans database and file
system, and that every one of them may be cut off in the middle.

Paths below are relative to `src/app/` of the application.

## 1. Inventory

| component | state it keeps | operations | correct when |
|---|---|---|---|
| Per-PO lock (`services/locking.py`, helpers of `api/routes/po_sets.py`) | `locked_by_action`, `locked_at` of a set's row | acquire, release, stale cleanup by the dashboard poll, heartbeat | a holder that heartbeats in time is alone; a dead holder's lock is freed |
| PO set life cycle (`services/reconciliation.py`, `merge.py`, `customs.py`, routes of `po_sets.py`) | status, reason, packet path, archive mark, customs requirement, customs debt; the packet file | reconcile, merge, forced merge, toggle, upload, remove, Re-Match, Re-Extract, confirm, place, archive, rebuild | an automatic packet is exactly what was proved; a delivered set stays delivered and has its packet; a missing customs page is owed and paid |
| Document reading (`services/extraction.py`, `retry.py`, pool in `flows/sync.py`) | `extraction_status`, attempt count, refund marker; the breaker's module state | claim, call, store, refund, trip, reclaim, quarantine | every document is read or fails for its own fault; a provider fault condemns nothing |
| Sync lock (`services/sync_lock.py`) | `.sync.lock`, `.sync.started` | acquire with stale break, heartbeat, release, the routes' test | one sync at a time, and the routes see it |
| Input poller (`services/poller.py`) | handled file signatures, queued flag, pause, owed run, retry count | tick | no version of a file is skipped; no endless retry |
| Sync flow (`flows/sync.py`) | the pass's lists in memory | ingest, read, group, quarantine, recover, sweep, customs retry | the passes compose the above |
| Grouping (`services/grouping.py`) | `po_set_id`, placement fields | mint, attach, sweeps, resolution by DN number | one open set per number; a printed number decides, a guess waits for a person; nothing waits in vain |
| Line matching (`services/matching.py`, verdict of `reconciliation.py`) | none: a function of the documents | keys, numbering rules, description fallback, sums, verdict | a set reconciles only if every quantity is accounted for on the right line |
| Ingestion, splitting (`services/ingestion.py`, `splitting.py`, `_handle_combined`) | documents by content hash, part files | ingest, reject, split, park, clear input copies | no file is lost, none is in twice, none waits for ever |
| Quarantine folders (`services/quarantine.py`) | folders with markers, staging folders, exports, removal notes | quarantine, archive, set aside, remove, restore | the last copy of a file is kept; notes are true; no set takes another's folder |
| Dashboard document actions (`api/routes/dashboard.py`) | document rows | upload, reclassify, set aside | as grouping |
| Manual merger, settings, authentication, progress, shell | temporary files, YAML, sessions | | see section 7 |

They interact through the database rows (every process), the folders, and two locks. The routes ask
`_is_sync_running` before they take a per-PO lock; the sync takes the per-PO lock of each set it
reconciles, but reads, groups and attaches documents *without* it; the dashboard's poll clears stale
per-PO locks; the poller, the Scan button and the nightly flow compete for the sync lock; extraction
workers share the provider breaker. `PROJECT.json` lists the components with their status and the
hazards, each at its line.

## 2. Modules

| module | models | theorems in |
|---|---|---|
| `PoSetLock` | the per-PO lock with its clock, one SQL statement per step | `PoSetLockProofs` |
| `PoSetLifecycle` | one set, its documents and its packet under operators and the sync | `PoSetLifecycleProofs` |
| `PublishedSet` | what a set promises to those who see its page and the output folder; implemented by `PoSetLifecycle` | `PoSetLifecycleProofs` |
| `DocumentReading` | documents, worker pool, retry envelope, breaker, two passes | `DocumentReadingProofs` |
| `SyncLock` | lock file and sidecar, one file operation per step | `SyncLockProofs` |
| `Poller` | the poller's tick among files, other syncs and failures | `PollerMatchingProofs` |
| `Grouping` | documents on their way into sets: the sync's grouping and sweeps, the holding page | `GroupingProofs` |
| `Intake` | files on their way to documents: scan, ingest, split, quarantine, set-aside, upload, delivery | `IntakeProofs` |
| `SetFolders` | the folders of one PO number: quarantine copy, archive, removal | `SetFoldersProofs` |
| `LineMatching` | the comparison of lines, as documents come in | `PollerMatchingProofs` |
| `LineNumbers` | line numbers and the rules that translate them; part of `LineMatching` | `PollerMatchingProofs` |

`MC<module>` gives each its instances for TLC. Operators whose comment begins with *Mutant* are
plausible bugs; each shows that one property would notice it, and none is part of a specification.

**PoSetLock.** `Acquire` is the one conditional UPDATE of `acquire_lock`. The stale cleanup
(`release_if_stale`) and the heartbeat (`_refresh_lock`) read and write in two statements, so they
are two steps each (`CleanupRead`/`CleanupWrite`, `RefreshRead`/`RefreshWrite`). `kept` is a history
variable: the last time a client acquired or refreshed in time.

**PoSetLifecycle.** One step is one transaction or one file operation. What the code loaded earlier
(the status a reconcile started from, the documents it proved, the pages to write) is in `job`, so
every read-then-write of the code is one here. `Judge` computes the verdict with the gates in the
code's order (`Verdict`); `Decide` commits it; `MergeCheck` is the second load of the row in
`merge_po_set`; `MergeWrite` compares the live documents again and writes the file; `MergeCommit` and
`CommitFails` are the two ends of the commit. `Sweep`, `Settle`, `ScanRead`, `AttachRead`,
`AttachWrite` and `Break` are the sync. A placement from the holding page is `Propose` (its checks) and `Place`
(its commit, the customs debt included), both before the lock; if it gets the lock, a reconcile and a rebuild follow,
where `AppendNothing` is a rebuild that has nothing to do. `debt` in `job` is the debt a rebuild found when it loaded the
row: it is what its commit clears, since the session writes a column only where it differs from what it loaded.
A document's content is reduced to what the verdict
distinguishes: `failed`, `unread`, of a foreign type, naming another PO, void lines, one of two
lines, both lines, a wrong quantity. A reason sentence is the status it explains. The age of the lock
is `Lapse`, which frees only a dead holder's lock; the clock is PoSetLock's subject. Left out: the
sub-reasons, audit rows, invoice naming beyond "the name is taken" (`Orphan`), a packet with no
readable page.

**DocumentReading.** `Open`, `Claim`, `Send`, the answer (`Store`, `StoreCombined`, `Excuse`, `Refute`), `Note`,
`Trip`, `Refund`, `Credit`, `Fail` are the transactions and critical sections of `extract_document`,
in that order; `Raise` is the envelope of `with_backoff_retry`, which calls again. `StoreCombined` is an answer that
the file holds several documents, with all that `_handle_combined` can make of it (Intake has the splitter): a valid
row whose file is parked, or quarantined unsplit, or a row that fails at once because the split is refused or the
document is a part itself; then its file, or its parent's, goes to quarantine after one answer. `combined` is history:
the documents that were read so. `Launch` to
`SyncEnd` are the flow: main pass, quarantine, recovery pass, quarantine. `Orphan` encodes the rule
of `validate_attempt_budget`: a claim grows old only when nobody works on it. What was read, and
Re-Extract while a sync runs, are not in this module. The check of the breaker in `_extract_one` after
a call is one step with the call's return.

**SyncLock.** `Look` reads the sidecar's age, `Unlink` and `Clean` remove the two files, `Lock` is the
OS lock (opening and locking are one step of the external `filelock`), `Mark` writes the sidecar,
`Finish` and `Unlock` are the two halves of the release. `overtaken` and `raced` are history: a stale
verdict was overtaken by an acquisition, and was acted on all the same. The clock does not tick
between `Lock` and `Mark`, two adjacent calls.

**Poller.** A signature is a version number. `Check` and `Acquire` are apart, for a file or another sync
may come in between; the sync lists the folder (`Scan`) after the tick took its snapshot. Ends of a
run: `Ended` with or without errors, `Raised`, `Halted` (provider breaker). Input copies that the sync
deletes are not modelled: a missing file is never new.

**Grouping.** One step is one transaction of `group_document`, `get_or_create_po_set`, the two sweeps or a
request of the holding page. A PO number is a pair of digits (`key`) and letters. `job` holds what an actor carries
from one transaction to the next: the documents still to visit, the rows as the sweep or the request loaded them
(`seen`), the set it found. `Insert` is the INSERT under the unique index with the loser's second look-up; `Filed` writes
only the columns that differ from the row the request loaded, as the session does. `Read`, `Deliver` and `Archive`
stand for a reading, a merge and an archive, which DocumentReading and PoSetLifecycle model in full: `Deliver` keeps
the gates that look at how a document was placed. An invoice takes the paths of a delivery note, and shipping papers
those of customs papers. Splitting, files that fail, the second reading pass and the line matches are left out; a
document left unread is read by a later sync.

**PublishedSet.** Five actions: the file appears (`Write`) or is taken back (`Withdraw`) while the set is open, the page
says *merged* (`Deliver`), a rebuild adds pages (`Rebuild`), the set is closed (`Close`). `PoSetLifecycle` maps
`status = "merged"` to the phase, `archived` to `closed`, `packet` to `file`, and everything else is stuttering.

**Intake.** A file is its content; copies under other names are the same document, and a part cut from a combined file
is `<<parent, first page, last page>>`. The sync and a set-aside both hold the sync lock, so `holder` and one program
counter (`job`) stand for whoever holds it; files arrive, the upload route runs and crashes come in between. `List` to
`IngestEnd` are Phase A of a sync (it goes by the files' times; a file may be of any age, so by any order),
`ReadSingle` to `ReadEnd` the readings with the splitter (`Clear`, `Cut`, `Park`, `Sweep`, `Close`; `Refused` are its
gates, `Kept` the components it cuts, in the order `Number` gives them), `ClearResent` to `TidyEnd` what follows them,
`QuarantineCopy`, `QuarantineRemove`, `QuarantineReport` the quarantine of one document from any of its three callers,
`SetAside` to `MarkAside` the set-aside, `UploadBegin` to `UploadAdd` the manual upload. A claimed (`processing`) row
counts as `pending`, since a later sync takes it back; documents are read one at a time (the pool is in
DocumentReading); `Group` and `Merge` are the commits of Grouping and PoSetLifecycle as seen from the folder.
`arrived` and `lost` are history: the files that were completely in the input folder, and the contents whose last copy
a person, or the parking of another file, removed. A copy that pauses for longer than the stability poll, and a
Re-Extract of a file that has been split, are not modelled.

**SetFolders.** `QuarantineCopy` chooses the folder by its id marker and content fingerprint (`Tried` lists the
candidates, `Own` says whether one is the set's). `ArchiveStart` to `ArchiveCommit` are `archive_quarantined`;
`RemoveStart` to `RemoveUnmark` are `remove_set_to_quarantine`: export, publish, move the input copies one at a time,
commit, then report and clean up. A failure before the commit puts the files back one at a time: a removal looks for a
free name (`RestoreLook`), writes the file beside it and renames it there (`RestoreReplace`, which may fail and is then
reported), and ends with `RemoveFail`; an archive goes through `UndoLook` and `UndoMove`, where a failure is only
logged. `file` and `target` in `job` are the file in hand and the name found for it; `raced` is history: a person gave
that name to another file before the put-back wrote to it. `life` counts the sets that one PO number has had; `id` is
the row's id, which SQLite gives again after a removal.

**LineMatching.** A printed number is a kind (plain, release, other), an integer and whether it has leading zeros
(`Normal` drops them, as `normalize_line_no` does); the similarity of two descriptions is a table. `Eligible` (in
`LineNumbers`, which has no constants or variables), `Fits` and `RuleOf` are the choice of a numbering rule for a
pool, `Place` puts a row on a line, `Verdict` compares the sums. A row of a pool is known by its document and its place
there (`Lines`), and a sum of quantities is the number of units the rows speak of (`Amount`), so sums are cardinalities
and need no recursion. `Deliver` adds a document and `Read` is one reconcile (`Reading`), so that what a later document
does to an earlier reading can be stated.

## 3. Runs

| run | asks | result |
|---|---|---|
| `PoSetLock_distinct` | three clients with different actions: is a client in time ever overtaken, does the cleanup clear a fresh lock? | holds |
| `PoSetLifecycle_faults` | two operators, uploads and removals of a customs file among their actions, the sync, all file and database faults, one crash: lock, packet, terminal status, proof of the packet | holds |
| `PoSetLifecycle_live` | toggles, uploads and placements beside the sync, with disk and commit faults and a crash: does the set implement `PublishedSet`, is a missing customs page owed and paid, is a set that reads well delivered, is every lock freed? | holds |
| `DocumentReading` | two workers, an outage, a crash: fair blame, no document lost, no failed file left, breaker at rest | holds |
| `SyncLock` | three starters, crashes, silent syncs: one live sync, visible to the routes | holds |
| `Poller` | changing files, other syncs, failures, a restart: nothing skipped, no endless retry | holds |
| `Grouping` | syncs, an operator, a crash: one open set per number, printed numbers decide, guesses are marked, nothing waits in vain | holds |
| `Intake` | a file under two names, a combined file that may take one of them, a file that is no PDF, an upload, set-asides, a fault or a crash: does a file vanish, a part get lost, a placed document get archived, a file wait for ever? | holds |
| `SetFolders` | archives and removals while files arrive, documents attach, moves, put-backs, commits and notes fail: does a step take a last copy, is a note untrue, a document deleted unexported, a file of the set left behind, a folder shared? | holds |
| `LineMatching` | six purchase orders, eleven kinds of deliveries, rules on and off: does a set reconcile on wrong quantities or lines, does a late document move a row silently? | holds |
| `PoSetLifecycle_redo_after_merge` | does Re-Extract leave delivered readings alone? | violated |
| `Grouping_set_aside` | does a document that was moved to quarantine stay out of the sets? | violated |

The two violated runs are the `findings` of `PROJECT.json`, each with the line it contradicts:

- *Re-Extract after a merge.* `_refuse_if_merged` runs before the lock is taken and is not repeated. A
  merge that commits in between leaves a delivered set whose documents are reset and read again.
- *Set-aside document comes back.* `_set_aside_locked` archives the row and leaves it valid and unattached. Neither
  sweep of grouping.py looks at `archived_at`: when the PO arrives, the note is attached to its set, and its lines count
  in the verdict beside those of the corrected copy.

### Known differences without a run

Met while modelling, mostly as counterexamples of a stronger property; the models behave like the code, and the
properties say what holds all the same.

- *Lost refund* (extraction.py:1520; sync.py:470 says the breaker refunds them all). Worker A has noted its 400 and not
  yet stored `failed`; worker B trips the breaker and refunds A's row; A's commit lands on top. It writes the columns that it
  changed, so the document ends the pass as failed with a count of 0, and a later sync reads it again. A refund also
  puts back a row that another worker read in between: one that was split is then pending with its file in combined/,
  and if the process dies after it failed once more it stays failed, its file in neither folder the flow looks at.
- *Overtaken break* (sync_lock.py:98; its docstring names another race as the only one). Starter A finds the sidecar of
  a dead sync stale, B breaks the same lock and starts a sync, A then unlinks B's lock file and starts one too.
  `OneLiveSync` excepts this case (`raced`).
- *Life cycle.* A reconcile that loaded its row before the sync quarantined the set overwrites the quarantine
  (reconciliation.py:976). A crash between the commit of a toggle or an upload and the rebuild records no customs debt
  (customs.py:131), so `CustomsDebtRecorded` speaks of behaviours without a crash. Re-Match and Re-Extract accept a set
  archived between the check and the lock (po_sets.py:86). Release by action name lets an expired holder free the lock
  of a second request for the same action (locking.py:93).
- *Placement.* A rebuild that loaded the row with a debt clears it in its commit, also the debt of a document placed
  while it wrote its pages; if the placement then finds the lock busy, the document stays out of the packet
  (merge.py:648; dashboard.py:1980 records the debt "so a busy lock cannot lose it"). `CustomsDebtRecorded` holds all
  the same, for the packet has both kinds of pages then. A PO, delivery note or invoice that `_refuse_if_target_busy`
  let pass before another action took the lock is committed to a set that is being merged (dashboard.py:1903). A sync
  that had loaded the held document before marks it as placed by its number afterwards (grouping.py:572), and an
  automatic packet can then hold a document whose placement nobody confirmed: `AutoPacketIsProved` is checked and
  proved without placements. A placement that commits between the write and the commit of a forced merge finds the
  lock busy and the set not merged, so it records no debt; the packet then lacks its pages and nothing is owed
  (dashboard.py:1977). `CustomsDebtRecorded` is proved for routes without one of the two, and the live run has no
  forced merge. It speaks of the documents that are not archived (`shelved`): a customs paper that a request removed
  after a placement had checked it is placed all the same, stays archived and is not counted (dashboard.py:1957), so
  nothing is owed for it.
- *Grouping.* A sweep looks the open set up and commits the document later without the per-PO lock, so a set that merges
  or is archived in between keeps a document its packet does not hold (grouping.py:372). A reclassification admitted
  before a sync moves a document out of the set in which the sync has put it, even a delivered one (dashboard.py:1744).
  A sweep acts on the rows it loaded: the note whose lines named a DN number may have been moved by a person since
  (grouping.py:541), so `GuessIsMarked` asks that such a line is printed by a document that is in the set, or was and
  has been placed by a person or a guess since.
- *Intake.* The parts of a pass that was cut off are ingested by the next scan before the new split clears them
  (sync.py:967; splitting.py:87). A copy of a split parent that is sent again stays in the folder (extraction.py:753).
  `_handle_combined` finds the input copy by its name only and parks whatever file has taken it (extraction.py:742;
  quarantine.py:484 compares the bytes). If combined/ has that name already, it removes the file instead: after a
  crash between the parking and the commit of a split, a file that took the name and came in after the scan listed the
  folder is deleted with no copy anywhere, against HANDOFF_PLAN.md:40 ("never delete the input unless a copy exists").
  `NothingVanishes` without its exception (`lost`) is violated in 26 steps, with no loss by a person. A set-aside
  whose copy fails archives the row with no copy in the quarantine folder (quarantine.py:645); the stored copy
  remains. If that is missing too and only a renamed input copy is left, the document comes back with the next scan.
  Two simplifications: an upload looks its row up and attaches it in one step, and a part that reads as combined again
  after its parent's row is gone counts as a single document, where the code would split it once more.
- *Set folders.* A put-back looks for a free name and writes to it afterwards (quarantine.py:1294, 1190), against
  quarantine.py:1290 ("Never overwrite a file the operator put there meanwhile"). A file that a person gives that name
  in between is overwritten, and since a removal holds the sync lock no scan has stored it: `LastCopyIsKept` excepts
  that one step (`raced`) and forbids every other loss. The commit of an archive archives whatever the set holds (1207),
  also documents attached after the last re-read (after the start, if an earlier export is reused). Their input files
  were not moved, and the next scan brings them back, where the docstring (993) says that files are moved "so the next
  sync cannot resurrect the set";
  `NothingStaysBehind` excepts them. An archive also passes over an input file it cannot read (1173), where a removal
  stops (1531): excepted too. A crash between the commit of a removal and the rewrite of the marker (1654)
  lets a set with the same id adopt the folder: `FoldersAreNotShared` excepts it (`stale`). An export that an earlier
  attempt left, or one made before a late attachment, may lack documents of the set it is the archive of
  (987, 1069); they keep their stored copies.
- *Line matching.* Rows without a place are tried against unnumbered lines in the order of a Python set
  (matching.py:140): `Read` takes any order. A tenth line delivered alone makes a pool look mixed, and the set is
  quarantined although each row has a line: the safe side.

### Bounds

- `MaxTime = 7` with `Timeout = 2`: three full timeouts, enough for an overtaken holder to return, a
  cleanup to act on an old observation and a third client to acquire.
- `MaxRequests` (2 to 4) and `MaxCrashes` (0 or 1) bound what people and the machine do; the sync repeats without
  bound. Two operators and the sync are all the actors that can be inside one set's body, lock or no lock. Five
  documents give a split delivery (`dn`, `dn2` are the two pages of one DN), or two rival readings of it, in the
  faults run beside a customs file; the live run has one note and both customs files. Placements are in the live run
  only, since `AutoPacketIsProved` does not hold with them (*Placement* above).
- A crash between the packet's rename and the commit leaves a file nobody owns (`Orphan`): the next merge quarantines
  the set as `packet_naming_failed` and waits for a person, so `EventuallyDelivered` excepts it.
- `Cap = 2`, `Limit = 2` (the code: 3 and 3) keep one answer between "first" and "last"; three documents of
  three kinds, with and without an input file, two workers, one outage, one crash. Larger values add
  repetitions of the same steps.
- `Threshold = 2` ticks and three starters: the third is needed to race a break.
- `Poller`: two files with two versions, three retries (the code's value), one failed or halted run, one
  restart, one settled set, two syncs of others.
- `Grouping`: three documents are the smallest folder with a PO, a rival with the same digits and other letters, and a
  note that only a shared DN number or the PO's lines can place; the reading of the rival may or may not find several
  numbers. Three sets allow one minted by the sync, one by the operator and one after an archive. One request and one
  crash, while syncs repeat without bound. The set-aside run leaves reclassification out, so that its counterexample is
  the sweep's.
- `Intake`: four arrivals (a file under two names, one of them shared with the combined file), two drops or uploads and
  one fault, crash or lost copy, while syncs and set-asides repeat without bound; a
  combined file of two pages, three claims of the model (right, with a cover page to skip, with a gap), one part that
  reads as combined again. A second fault adds repetitions of the single-fault cases; the parts of a file of three
  pages are cut by the same loop.
- `SetFolders`: two documents, three names, two lives of the PO number, two drops, two removals, one trouble. A run
  with two troubles (4.5 million states) found nothing more.
- `LineMatching`: three documents, the least for two in one pool beside one in the other. The line lists hold the
  cases where rules compete (1, 10, 100; release suffixes; leading zeros; equal descriptions; no number at all). No set
  of this instance reconciles through the description fallback alone; the theorems cover that case.
- Four configurations switch deadlock detection off: PoSetLock's clock ends at `MaxTime`, a poller with nothing new to
  do takes no step, and in `SetFolders` and `LineMatching` everything that can happen has happened at some point.
  Everywhere else TLC looks for deadlock.
- Operators, the three starters, and in `SetFolders` names and documents are interchangeable: those runs use symmetry,
  and check no liveness.
- Every module with a proof file has its type invariant proved for all constants (section 4); only `Intake` and
  `SetFolders` also check theirs in a run. In `LineMatching` the types are the first part of the invariant `LInv`.

### Fairness

- Handlers and the sync run to their end once started (`WF` on each actor's step): they are threads with no
  blocking wait but the provider's timeout. Requests of people are never fair, except that nothing needs them.
- The sync starts again and again: the poller and the nightly schedule start it.
- `PoSetLifecycle`: every file is read and grouped by *some* sync (`SF` on `ScanRead` and `AttachRead`): a
  sync may stop early, but the next begins with the same folder; and faults pass (`SF` on the sync's `AppendWrite`, on
  a `MergeWrite` that writes, on a `MergeCommit` that commits and on a `Credit` that does).
- `DocumentReading`: `WF` on every worker and on the flow; `SF` on a sync start at which no claim is left
  `processing`, since the claim of a dead worker grows older than `stale_processing_seconds`. Crashes and
  outages are bounded, not unfair.
- `Grouping`: `WF` on the sync and on a request once admitted. Arrivals and readings are not fair: the property speaks
  of documents that have been read.
- `Intake`: `SF` on the start of a sync, which comes again whenever the lock is free at times; `WF` on whoever holds
  the lock and on the upload. A file that is still being copied may stay so, and no set need be complete.
- `PoSetLock`, `SyncLock`, `SetFolders`, `LineMatching`: safety only.
- `Poller`: `WF` on the tick, on the end of a pause and on the end of another sync. Other syncs come at a
  person's or the calendar's pace while a queued poller looks every five seconds: they are bounded.

## 4. Proofs

All proofs hold for every value of the constants that meets the `ASSUME`s.

*PoSetLock* (`PoSetLockProofs`): `TypeCorrect`; `HolderKeepsLock`, and from it `MutualExclusion`, under
`DistinctActions`. The property is not inductive alone: a pending cleanup could still free the lock. `LockInv`
adds that an observed stale lock stays stale (`ObservedIsStale`) and that no lock is dated in the future
(`NotInFuture`). `DistinctActions` is necessary: a lock names its action, so two requests for one action are
the same holder to it. `FreshLocksAreSpared` needs no assumption on actions: the cleanup writes with the owner and age
that it read in its condition, and time only passes.

*PoSetLifecycle* (`PoSetLifecycleProofs`): `TypeCorrect`, `Exclusive`, `PacketExists`, `Terminal`,
`ArchiveIsFinal`, from `IInv`: types, `Exclusion` (whoever is in a body holds the lock under its own action and no
one else is inside), `Fit` (what each place of a body knows: an actor that is deciding or merging found the set
unmerged, one that seals has a packet on disk), and `MergedHasPacket`. A lemma per action shows that it keeps the
body's frame (`KeepsBody`); `InsideKeeps` and `OutsideKeeps` lift it to the whole state.

`PacketIsProved` (`AutoPacketIsProved`) holds for every set of routes without "reclassify": then no
placement ever starts (`NoPlacement`). The verdict is taken three
transactions before the packet is committed, while the sync reads and attaches without the lock. `PInv` adds the
`Promise` of an actor on its way to a merge: the proved documents still get the verdict "merge". It survives because
the sync reads only unread documents, and a proved set has none (`ProvedIsRead`); it attaches only newcomers
(`Newcomer`), so it holds back none of the proved ones; and new members are noticed by the comparison before the
write.

`Refinement` is `Spec => PublishedSetImplemented`. The mapping needs more than `IInv`: a recorded path means merged
(`Delivered`), so that a packet is only ever written where no file is; its pages are members of the set from the check
on (`Contained`), so that a rebuild, which takes the members, loses none; only `Remove` takes a member out, and never
of a delivered set; and a set that is being archived is not delivered. Each action is shown to be one of the five of
`PublishedSet` or a stutter (`ReconcileContained`, `RouteBodyContained`, `OutsideContained`).

`DebtsAreRecorded` (`CustomsDebtRecorded`) is the longest argument about one set: pages go missing in one step, and are
owed after another actor's. `DInv` says what every actor on the way to a rebuild, to the record of a debt or to a merge
has in hand (`Pledge`), that the sync attaches core documents only (`AttachesCore`), and that a delivered packet without
the pages is owed or has an actor that is rebuilding it or recording the debt (`DebtKnown`). Its assumption, `NotBoth`,
is that forced merges and placements are not both among the routes: together they do lose a debt (*Placement* above).
The property, and with it the theorem, says nothing once a crash has happened (customs.py:131 above).

*SyncLock* (`SyncLockProofs`): `TypeCorrect`, `OneSync`, `SyncIsSeen`, from `SyncInv`. A sync in time owns the file
at the lock's path; any starter that is breaking while such a sync runs has been overtaken, so to go on it must
race; a sidecar is no older than the silence of its sync, so nobody finds a live one stale.

*Grouping* (`GroupingProofs`): `TypeCorrect`, with one lemma for what each kind of step does to a job or a row, and
`OneOpenSet`. Given the types the latter is inductive: only the INSERT (`Mint`, `Open`) can break it, and it
creates a set only when no open one has its digits (`InsertKeepsOne`); the other steps that write a set close it.
`OwnNumberAlways` and `GuessAlwaysMarked` come from `PlacementInv`: what a row says about its placement (`RowSound`),
what a sweep knows of the rows it has loaded and not visited (`SeenSound`), what the sync and a request carry from the
choice of a set to the UPDATE that uses it (`JobSound`, `RequestSound`). It survives the gap between the two because a
set keeps its number and letters, a row once placed by a person or a guess stays so marked, and a document is read once.

*Poller* (first part of `PollerMatchingProofs`): `TypeCorrect`, and `NothingIsSkipped` from `SeenInv`: what is marked as handled was given to
a sync, what was given was in the folder, and while a sync runs its snapshot is no later than what it was given.

*DocumentReading* (`DocumentReadingProofs`): `TypeCorrect`; `OneReaderEach`, that a document has one worker at most
and is then neither queued nor returned; and `CondemnedIsForCause`, from `ChargeInv`: a row is charged with no more
than what is held against its document, unless it was read as several (`Covered`) and but for the attempt under way
(`ChargedForCause`), and each worker knows what of its row a refund by another worker can have changed (`Knows`).
`OneReader` is needed first, for otherwise the claim of a second worker would break what the first one knows.

*SetFolders* (`SetFoldersProofs`): `TypeCorrect`, `LastCopyAlways`, `NotesAlwaysTrue`, `RemovalCompletes`,
`NothingIsLeftBehind`, `FoldersNeverShared`, from `FoldersInv`: where a running operation is and in which status its set
is (`Working`), what its folder says (`InProgress`, `Ended`, `Past`), that a file is put back after it was moved and under a
name that was found free and is so still, unless a person took it (`Returning`), that all that is left of the set in the
input folder is still to be walked (`Walked`), and whose id a folder carries (`Marked`). `LastCopyIsKept` is an action
property: each step that takes a file from a place must find its content in another one (`LastCopyStays`), and the one
that writes over a file is the put-back that `Returning` describes.

*Intake* (`IntakeProofs`): `TypeCorrect`, `NothingEverVanishes`, `SplitsAreComplete`, `AttachedAlwaysStays`,
`RowsAreNotReplaced`, from `IInv`. A step that takes a file away must leave its content elsewhere, and a part that is
cut must not overwrite somebody's file: `PlacesInv` (parts lie under names of their own split, people's files under
theirs), `RowsInv` (only a valid combined file is a completed split, and is not split again), `JobInv` (what the
holder of the lock carries at each place) and `SplitInv` (the parts numbered below the next one are in the folder, as
written). That the cutter comes to an end and writes each part under a number of its own is arithmetic over a claim
(`KeptParts`, `Numbers`): kept parts start on different pages, so there are no more of them than pages.

*LineMatching* (second part of `PollerMatchingProofs`; the two components have nothing in common but the file):
`NothingAddedOrLost`, `ReconciledOnRightLines` and `PlacementsStand`, the three properties of the run. The invariant
`LInv` says that the last reading, if there is one, is `Reading` of documents that were the first ones of each pool, in
some order of the lines without a number; so what is left is about the reading, for every PO and all documents.

- *Quantities.* A reconciled pool has every row on a line and every line in its quantity (`ReconciledPool`). Two
  families of rows that agree class by class agree in the whole (`Regrouped`): the bijections between the units of each
  class are put together to one.
- *Right lines.* Let a numbering make every row a line of the PO. Then each row has a number and the number it means is
  printed on the PO (`NumberedLines`); and since the set is reconciled, each numbered line of the PO is what the rule in
  force makes of some number of the pool (`LinesAreMade`). Two different numberings cannot both be like that
  (`OneNumbering`): the kinds of numbers exclude the release rules, and between `x10`, `div10` and the numbers as
  printed a finite set of numbers would contain the multiples of all its members (`NoGrowth`) or a smaller one beside
  each (`NoDescent`). So the rule in force is the one that was meant, and every row is where it belongs (`RightPlaces`).
- *Stability.* A pool keeps its rule when it grows, or some row has no place any more and the set is quarantined
  (`RuleRemains`). Rules that fit a pool fit what it was before (`FitsFewer`), and no two do (`OneRule`); a mapped pool
  had no document that fits as printed, now or earlier; and a pool that falls back to its printed numbers still holds
  the number for which it was mapped, whose row is then on no line (`StrayRow`).

`OneRule` is what `_resolve_pool` asserts (`len(fits) <= 1`) and the docstring of `_eligible_rules` says, for all sets of
numbers; `LinesStayApart`, that an eligible rule is injective on a vendor's numbers, so a translation never adds the
quantities of two lines (`TensDivide` is the arithmetic of the division).

Every safety invariant and every action property that a passing run checks is thus a theorem, some under
an assumption on who acts (`DistinctActions` for the first two of PoSetLock, the routes for `AutoPacketIsProved` and
`CustomsDebtRecorded`). Only model-checked is what is outside the
prover's reach: liveness under fairness and `ENABLED` (`EventuallyDelivered`, `DebtIsPaid`, `LockIsFreed`,
`EveryDocumentSettles`, `FailedFilesAreQuarantined`, `BreakerComesToRest`, `EveryFileIsGiven`, `PollerComesToRest`,
`NothingWaitsInVain`, `NoFileWaitsForever`). The two violated properties have their counterexamples.

## 5. Plan

What is left, in the order of importance:

1. An abstract mutex with leases, implemented by `PoSetLock`.
2. Composition of `SyncLock` with the routes' test, and Re-Extract with the workers of a sync.
3. `SettingsSave`: the optimistic file version and the YAML rewrite.

## 6. Assumptions

SQLite serialises transactions, and a session sees its own snapshot of a row. A file replace is atomic. One host.
A live action finishes within the lock's timeout or heartbeats (`validate_attempt_budget` in `core/config.py`).
`PoSetLifecycle` relies on it: it frees only dead holders' locks, and what an overtaken live holder may do is not
modelled there.

## 7. Not modelled

The manual merger works on private temporary files of one request. Authentication is expiry arithmetic on single
rows. Sync progress is a display counter. Application shell, templates, middleware and logging have no protocol.
Prompts, parsing and validation of what the vision model returns are data, abstracted to kinds of answers.
Migration scripts, backup tools and installers run while the service is stopped.
