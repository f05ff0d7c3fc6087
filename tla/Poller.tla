-------------------------------- MODULE Poller --------------------------------
(***************************************************************************)
(* The input-folder poller: a thread of the web service that looks at the   *)
(* input folder every minute and starts a sync when there is something new  *)
(* to read (services/poller.py).  Around it: files that arrive or change at *)
(* any time, other syncs that hold the sync lock (SyncLock), sets that wait *)
(* for their settle time, and the ways a sync may end.                      *)
(*                                                                          *)
(* A file's signature (mtime and size) is a version number, 0 for no file.  *)
(* The two pauses after a failed run are one flag, for only their end       *)
(* matters here.                                                            *)
(***************************************************************************)
EXTENDS Naturals

CONSTANTS
  Files,        \* paths in the input folder
  MaxVersion,   \* bound on the changes of one file
  MaxRetries,   \* MAX_ERROR_RETRIES
  MaxTroubles,  \* bound on runs that raise or are halted by the provider
  MaxRestarts,  \* bound on restarts of the web service
  MaxSettles,   \* bound on sets that reach the end of their settle time
  MaxOthers     \* bound on the syncs that others start

ASSUME PollerAssumption ==
  /\ MaxVersion \in Nat
  /\ MaxRetries \in Nat
  /\ MaxTroubles \in Nat
  /\ MaxRestarts \in Nat
  /\ MaxSettles \in Nat
  /\ MaxOthers \in Nat

VARIABLES
  folder,    \* the version of each input file
  seen,      \* InputWatcher._seen
  snapshot,  \* the snapshot of the tick under way
  pc,        \* what the poller thread is doing
  queued,    \* _queued
  quiet,     \* now < _backoff_until
  owed,      \* _after_backoff
  retries,   \* _error_retries
  busy,      \* another sync holds the sync lock
  due,       \* settling_sets_ready
  given,     \* the versions a sync of the poller was handed (history)
  troubles, restarts, settles, others

poller == <<seen, snapshot, pc, queued, quiet, owed, retries>>
counts == <<troubles, restarts, settles, others>>
vars == <<folder, poller, busy, due, given, counts>>

Versions == 0 .. MaxVersion
Folders == [Files -> Versions]
Empty == [f \in Files |-> 0]

TypeOK ==
  /\ folder \in Folders
  /\ seen \in Folders
  /\ snapshot \in Folders
  /\ pc \in {"waiting", "acquiring", "starting", "running"}
  /\ queued \in BOOLEAN
  /\ quiet \in BOOLEAN
  /\ owed \in BOOLEAN
  /\ retries \in 0 .. MaxRetries
  /\ busy \in BOOLEAN
  /\ due \in BOOLEAN
  /\ given \in Folders
  /\ troubles \in Nat
  /\ restarts \in Nat
  /\ settles \in Nat
  /\ others \in Nat

Init ==
  /\ folder = Empty
  /\ seen = Empty
  /\ snapshot = Empty
  /\ pc = "waiting"
  /\ queued = FALSE
  /\ quiet = FALSE
  /\ owed = FALSE
  /\ retries = MaxRetries
  /\ busy = FALSE
  /\ due = FALSE
  /\ given = Empty
  /\ troubles = 0
  /\ restarts = 0
  /\ settles = 0
  /\ others = 0

-----------------------------------------------------------------------------
(* The surroundings.                                                         *)

\* A file is dropped or grows.
Arrive(f) ==
  /\ folder[f] < MaxVersion
  /\ folder' = [folder EXCEPT ![f] = @ + 1]
  /\ UNCHANGED <<poller, busy, due, given, counts>>

\* The Scan button or the nightly flow takes the sync lock.
OtherStarts ==
  /\ ~busy
  /\ pc \in {"waiting", "acquiring"}
  /\ others < MaxOthers
  /\ others' = others + 1
  /\ busy' = TRUE
  /\ UNCHANGED <<folder, poller, due, given, troubles, restarts, settles>>

OtherEnds ==
  /\ busy
  /\ busy' = FALSE
  /\ UNCHANGED <<folder, poller, due, given, counts>>

\* A set has waited long enough and may be merged by the next sync.
SettleTimePasses ==
  /\ settles < MaxSettles
  /\ ~due
  /\ due' = TRUE
  /\ settles' = settles + 1
  /\ UNCHANGED <<folder, poller, busy, given, troubles, restarts, others>>

QuietEnds ==
  /\ quiet
  /\ quiet' = FALSE
  /\ UNCHANGED <<folder, seen, snapshot, pc, queued, owed, retries, busy, due, given, counts>>

\* Everything the poller remembers is in memory.
Restart ==
  /\ restarts < MaxRestarts
  /\ restarts' = restarts + 1
  /\ seen' = Empty
  /\ snapshot' = Empty
  /\ pc' = "waiting"
  /\ queued' = FALSE
  /\ quiet' = FALSE
  /\ owed' = FALSE
  /\ retries' = MaxRetries
  /\ UNCHANGED <<folder, busy, due, given, troubles, settles, others>>

-----------------------------------------------------------------------------
(* One tick.                                                                 *)

HasNewFiles(s) == \E f \in Files : s[f] > 0 /\ seen[f] # s[f]

Wanted(s) == queued \/ owed \/ HasNewFiles(s) \/ due

Check ==
  /\ pc = "waiting"
  /\ ~quiet
  /\ Wanted(folder)
  /\ snapshot' = folder
  /\ pc' = "acquiring"
  /\ UNCHANGED <<folder, seen, queued, quiet, owed, retries, busy, due, given, counts>>

\* Mutant: a refused tick is not remembered, and takes its files for handled.
AcquireOrForget ==
  /\ pc = "acquiring"
  /\ IF busy
     THEN pc' = "waiting" /\ seen' = snapshot /\ UNCHANGED <<queued, owed>>
     ELSE pc' = "starting" /\ queued' = FALSE /\ owed' = FALSE /\ UNCHANGED seen
  /\ UNCHANGED <<folder, snapshot, quiet, retries, busy, due, given, counts>>

\* acquire_sync_lock; a run that has to wait for another sync is queued.
Acquire ==
  /\ pc = "acquiring"
  /\ IF busy
     THEN pc' = "waiting" /\ queued' = TRUE /\ UNCHANGED owed
     ELSE pc' = "starting" /\ queued' = FALSE /\ owed' = FALSE
  /\ UNCHANGED <<folder, seen, snapshot, quiet, retries, busy, due, given, counts>>

\* The sync lists the folder, later than the tick did.
Scan ==
  /\ pc = "starting"
  /\ given' = folder
  /\ pc' = "running"
  /\ UNCHANGED <<folder, seen, snapshot, queued, quiet, owed, retries, busy, due, counts>>

\* The run raises (the flow engine is down), before or after it listed the
\* folder: the files stay new and the run is owed after a pause.
Raised ==
  /\ pc \in {"starting", "running"}
  /\ troubles < MaxTroubles
  /\ troubles' = troubles + 1
  /\ quiet' = TRUE
  /\ owed' = TRUE
  /\ pc' = "waiting"
  /\ UNCHANGED <<folder, seen, snapshot, queued, retries, busy, due, given, restarts, settles, others>>

\* The provider refuses all requests: the files count as handled, for the
\* documents stay pending, and a run is owed after a pause.
Halted ==
  /\ pc = "running"
  /\ troubles < MaxTroubles
  /\ troubles' = troubles + 1
  /\ quiet' = TRUE
  /\ owed' = TRUE
  /\ retries' = MaxRetries
  /\ seen' = snapshot
  /\ pc' = "waiting"
  /\ UNCHANGED <<folder, snapshot, queued, busy, due, given, restarts, settles, others>>

\* Mutant: the files present at the end of the run count as handled.
EndedWithLaterFiles ==
  /\ pc = "running"
  /\ \E failed \in BOOLEAN :
       IF failed /\ retries > 0
       THEN retries' = retries - 1 /\ UNCHANGED seen
       ELSE retries' = MaxRetries /\ seen' = folder
  /\ due' = FALSE
  /\ pc' = "waiting"
  /\ UNCHANGED <<folder, snapshot, queued, quiet, owed, busy, given, counts>>

\* Mutant: a run with errors is tried again without end.
EndedRetrying ==
  /\ pc = "running"
  /\ \E failed \in BOOLEAN :
       IF failed THEN UNCHANGED <<retries, seen>>
       ELSE retries' = MaxRetries /\ seen' = snapshot
  /\ due' = FALSE
  /\ pc' = "waiting"
  /\ UNCHANGED <<folder, snapshot, queued, quiet, owed, busy, given, counts>>

\* The run ends, with or without errors and unstable files.  After some tries
\* with errors its files are left to the nightly sync.
Ended ==
  /\ pc = "running"
  /\ \E failed \in BOOLEAN :
       IF failed /\ retries > 0
       THEN retries' = retries - 1 /\ UNCHANGED seen
       ELSE retries' = MaxRetries /\ seen' = snapshot
  /\ due' = FALSE
  /\ pc' = "waiting"
  /\ UNCHANGED <<folder, snapshot, queued, quiet, owed, busy, given, counts>>

Tick == Check \/ Acquire \/ Scan \/ Ended \/ Raised \/ Halted

Next ==
  \/ Tick
  \/ \E f \in Files : Arrive(f)
  \/ OtherStarts \/ OtherEnds \/ SettleTimePasses \/ QuietEnds \/ Restart

Spec == Init /\ [][Next]_vars

\* The thread ticks every minute (every five seconds when queued), pauses pass
\* and every other sync ends.
Fairness ==
  /\ WF_vars(Tick)
  /\ WF_vars(QuietEnds)
  /\ WF_vars(OtherEnds)

FairSpec == Spec /\ Fairness

-----------------------------------------------------------------------------

\* "Nothing is skipped": a file the poller counts as handled was handed, in the
\* version that is in the folder, to a sync that listed the folder after it
\* arrived, however the run, the file and other syncs overlap.
NothingSkipped ==
  \A f \in Files : folder[f] > 0 /\ seen[f] = folder[f] => given[f] = folder[f]

\* Every version of every file is handed to a sync in the end, or replaced.
EveryFileIsGiven ==
  \A f \in Files : \A v \in 1 .. MaxVersion :
    folder[f] = v ~> given[f] >= v \/ folder[f] # v

\* A file that fails in every sync does not keep the poller busy for ever: it
\* comes to rest once nothing new happens.
PollerComesToRest == <>[](pc = "waiting" /\ ~queued /\ ~owed)

=============================================================================
