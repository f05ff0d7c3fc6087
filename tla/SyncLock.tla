------------------------------- MODULE SyncLock -------------------------------
(***************************************************************************)
(* The lock that lets one sync run at a time on the host: an OS lock on the *)
(* file `.sync.lock` and the sidecar `.sync.started`, whose age tells a     *)
(* live sync from the residue of a dead one (services/sync_lock.py).  The   *)
(* starters are the Scan button, the input poller, the nightly flow and a   *)
(* recovery run, each a thread or a process of its own.                     *)
(*                                                                          *)
(* Every call on the file system is one step.  An unlinked file that is     *)
(* still locked excludes nobody, so only the file at the lock's path is     *)
(* kept, by its holder.  Ages count up to one past the stale threshold,     *)
(* where all ages are alike.  Opening and locking the file is one step: the *)
(* library (filelock) is external.                                          *)
(***************************************************************************)
EXTENDS Naturals

CONSTANTS
  Starters,   \* who may start a sync
  NoFile,     \* nothing at the lock's path
  Unheld,     \* a lock file nobody holds
  Threshold   \* _stale_seconds(), in ticks

ASSUME SyncLockAssumption ==
  /\ Threshold \in Nat
  /\ NoFile \notin Starters
  /\ Unheld \notin Starters
  /\ NoFile # Unheld

VARIABLES
  path,      \* the file at the lock's path: NoFile, Unheld or its holder
  sidecar,   \* the sidecar exists
  age,       \* its age; 0 when there is none
  pc,        \* what each starter is doing
  silent,    \* per starter: the time since it acquired or last heartbeat (history)
  overtaken, \* starters whose stale verdict an acquisition has overtaken (history)
  raced,     \* such a verdict was acted on (history)
  slept      \* a live sync has been silent past the threshold (history)

files == <<path, sidecar, age>>
history == <<silent, overtaken, raced, slept>>
vars == <<files, pc, history>>

Ages == 0 .. Threshold + 1
Places == {"idle", "breaking", "cleaning", "locking", "locked", "syncing", "unlocking"}

TypeOK ==
  /\ path \in Starters \cup {NoFile, Unheld}
  /\ sidecar \in BOOLEAN
  /\ age \in Ages
  /\ pc \in [Starters -> Places]
  /\ silent \in [Starters -> Ages]
  /\ overtaken \in SUBSET Starters
  /\ raced \in BOOLEAN
  /\ slept \in BOOLEAN

Init ==
  /\ path = NoFile
  /\ sidecar = FALSE
  /\ age = 0
  /\ pc = [s \in Starters |-> "idle"]
  /\ silent = [s \in Starters |-> 0]
  /\ overtaken = {}
  /\ raced = FALSE
  /\ slept = FALSE

-----------------------------------------------------------------------------

Goto(s, p) == pc' = [pc EXCEPT ![s] = p]

Stale == sidecar /\ age > Threshold

\* _is_sync_running, asked by every route that changes a PO set.
SyncRunning == sidecar /\ age <= Threshold

Breaking == {s \in Starters : pc[s] \in {"breaking", "cleaning"}}

\* A holder that heartbeats as often as the threshold asks of it.
InTime(s) == pc[s] \in {"locked", "syncing"} /\ silent[s] <= Threshold

-----------------------------------------------------------------------------
(* acquire_sync_lock.                                                        *)

\* _break_if_stale judges by the sidecar's age alone, which says nothing of a
\* holder that has not written its sidecar yet ...
Look(s) ==
  /\ pc[s] = "idle"
  /\ Goto(s, IF Stale THEN "breaking" ELSE "locking")
  /\ overtaken' = IF \E t \in Starters : pc[t] = "locked"
                   THEN overtaken \cup {s} ELSE overtaken \ {s}
  /\ UNCHANGED <<files, silent, raced, slept>>

\* ... then unlinks the lock file, whoever holds it by now ...
Unlink(s) ==
  /\ pc[s] = "breaking"
  /\ path' = NoFile
  /\ raced' = (raced \/ s \in overtaken)
  /\ Goto(s, "cleaning")
  /\ UNCHANGED <<sidecar, age, silent, overtaken, slept>>

\* ... and the sidecar.
Clean(s) ==
  /\ pc[s] = "cleaning"
  /\ sidecar' = FALSE
  /\ age' = 0
  /\ raced' = (raced \/ s \in overtaken)
  /\ Goto(s, "locking")
  /\ UNCHANGED <<path, silent, overtaken, slept>>

\* Mutant: the lock file is opened but not locked.
LockUnchecked(s) ==
  /\ pc[s] = "locking"
  /\ path' = s
  /\ silent' = [silent EXCEPT ![s] = 0]
  /\ overtaken' = overtaken \cup Breaking
  /\ Goto(s, "locked")
  /\ UNCHANGED <<sidecar, age, raced, slept>>

\* lock.acquire(timeout=0), which creates a missing file.
Lock(s) ==
  /\ pc[s] = "locking"
  /\ path \in {NoFile, Unheld}
  /\ path' = s
  /\ silent' = [silent EXCEPT ![s] = 0]
  /\ overtaken' = overtaken \cup Breaking
  /\ Goto(s, "locked")
  /\ UNCHANGED <<sidecar, age, raced, slept>>

\* Mutant: a refused starter cleans up as if it had been the holder.
RefusedReleases(s) ==
  /\ pc[s] = "locking"
  /\ path \in Starters
  /\ sidecar' = FALSE
  /\ age' = 0
  /\ Goto(s, "idle")
  /\ UNCHANGED <<path, history>>

\* Another sync holds it: 409 for the button, "skipped" for the nightly flow,
\* "queued" for the poller.
Refused(s) ==
  /\ pc[s] = "locking"
  /\ path \in Starters
  /\ Goto(s, "idle")
  /\ UNCHANGED <<files, history>>

\* The sidecar is written right after the lock is taken.
Mark(s) ==
  /\ pc[s] = "locked"
  /\ sidecar' = TRUE
  /\ age' = 0
  /\ silent' = [silent EXCEPT ![s] = 0]
  /\ overtaken' = overtaken \cup Breaking
  /\ Goto(s, "syncing")
  /\ UNCHANGED <<path, raced, slept>>

-----------------------------------------------------------------------------
(* The life of the sync.                                                     *)

\* heartbeat_sync_lock touches a sidecar that exists, and never makes one.
Heartbeat(s) ==
  /\ pc[s] = "syncing"
  /\ age' = 0
  /\ silent' = IF InTime(s) THEN [silent EXCEPT ![s] = 0] ELSE silent
  /\ UNCHANGED <<path, sidecar, pc, overtaken, raced, slept>>

\* release_sync_lock removes the sidecar first ...
Finish(s) ==
  /\ pc[s] = "syncing"
  /\ sidecar' = FALSE
  /\ age' = 0
  /\ Goto(s, "unlocking")
  /\ UNCHANGED <<path, history>>

\* ... and then gives up the OS lock, on the file it locked.
Unlock(s) ==
  /\ pc[s] = "unlocking"
  /\ path' = IF path = s THEN Unheld ELSE path
  /\ Goto(s, "idle")
  /\ UNCHANGED <<sidecar, age, history>>

\* The OS frees the lock of a dead process; the sidecar stays.
Crash(s) ==
  /\ pc[s] # "idle"
  /\ path' = IF path = s THEN Unheld ELSE path
  /\ Goto(s, "idle")
  /\ UNCHANGED <<sidecar, age, history>>

Older(n) == IF n <= Threshold THEN n + 1 ELSE n

\* No tick of the clock falls between taking the lock and writing the sidecar.
Tick ==
  /\ \A s \in Starters : pc[s] # "locked"
  /\ age' = IF sidecar THEN Older(age) ELSE 0
  /\ silent' = [s \in Starters |-> Older(silent[s])]
  /\ slept' = (slept \/ \E s \in Starters : pc[s] = "syncing" /\ silent[s] = Threshold)
  /\ UNCHANGED <<path, sidecar, pc, overtaken, raced>>

Next ==
  \/ \E s \in Starters :
       Look(s) \/ Unlink(s) \/ Clean(s) \/ Lock(s) \/ Refused(s) \/ Mark(s)
         \/ Heartbeat(s) \/ Finish(s) \/ Unlock(s) \/ Crash(s)
  \/ Tick

Spec == Init /\ [][Next]_vars

-----------------------------------------------------------------------------

\* A sync that heartbeats in time is the only one, as long as no starter breaks
\* the lock on a stale verdict that an acquisition has overtaken (FR-4.3).
OneLiveSync ==
  ~raced => \A s, t \in Starters : InTime(s) /\ InTime(t) => s = t

\* FR-CONC-3: a running sync is seen by the routes, which then refuse to touch
\* any PO set, unless a sync has been silent for too long or a break has raced:
\* removing the sidecar before the lock never hides the next sync.
LiveSyncIsVisible ==
  ~raced /\ ~slept => \A s \in Starters : pc[s] = "syncing" => SyncRunning

=============================================================================
