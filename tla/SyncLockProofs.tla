---------------------------- MODULE SyncLockProofs ----------------------------
(***************************************************************************)
(* Proofs about SyncLock for every set of starters and every threshold.     *)
(***************************************************************************)
EXTENDS SyncLock, TLAPS

\* The files, the program counters and the bookkeeping keep their types under
\* every step of acquire_sync_lock, heartbeat_sync_lock and release_sync_lock.
THEOREM TypeCorrect == Spec => []TypeOK
<1>1. Init => TypeOK
  <2>1. 0 \in Ages
    BY SyncLockAssumption DEF Ages
  <2> QED
    BY <2>1 DEF Init, TypeOK, Places
<1>2. TypeOK /\ [Next]_vars => TypeOK'
  <2> SUFFICES ASSUME TypeOK, [Next]_vars
               PROVE  TypeOK'
    OBVIOUS
  <2>0. 0 \in Ages
    BY SyncLockAssumption DEF Ages
  <2> USE DEF TypeOK, Places, Goto, files, history
  <2>1. ASSUME NEW s \in Starters, Look(s)
        PROVE  TypeOK'
    BY <2>1 DEF Look
  <2>2. ASSUME NEW s \in Starters, Unlink(s)
        PROVE  TypeOK'
    BY <2>2 DEF Unlink
  <2>3. ASSUME NEW s \in Starters, Clean(s)
        PROVE  TypeOK'
    BY <2>0, <2>3 DEF Clean
  <2>4. ASSUME NEW s \in Starters, Lock(s)
        PROVE  TypeOK'
    BY <2>0, <2>4 DEF Lock, Breaking
  <2>5. ASSUME NEW s \in Starters, Refused(s)
        PROVE  TypeOK'
    BY <2>5 DEF Refused
  <2>6. ASSUME NEW s \in Starters, Mark(s)
        PROVE  TypeOK'
    BY <2>0, <2>6 DEF Mark, Breaking
  <2>7. ASSUME NEW s \in Starters, Heartbeat(s)
        PROVE  TypeOK'
    BY <2>0, <2>7 DEF Heartbeat
  <2>8. ASSUME NEW s \in Starters, Finish(s)
        PROVE  TypeOK'
    BY <2>0, <2>8 DEF Finish
  <2>9. ASSUME NEW s \in Starters, Unlock(s)
        PROVE  TypeOK'
    BY <2>9 DEF Unlock
  <2>10. ASSUME NEW s \in Starters, Crash(s)
         PROVE  TypeOK'
    BY <2>10 DEF Crash
  <2>11. CASE Tick
    BY <2>0, <2>11, SyncLockAssumption DEF Tick, Older, Ages
  <2>12. CASE UNCHANGED vars
    BY <2>12 DEF vars
  <2> QED
    BY <2>1, <2>2, <2>3, <2>4, <2>5, <2>6, <2>7, <2>8, <2>9, <2>10, <2>11, <2>12 DEF Next
<1> QED
  BY <1>1, <1>2, PTL DEF Spec

-----------------------------------------------------------------------------

\* A sync that heartbeats in time holds the file at the lock's path.
HolderHasThePath ==
  ~raced => \A s \in Starters : InTime(s) => path = s

\* Whoever is breaking the lock while such a sync runs has been overtaken.
BreakersAreOvertaken ==
  ~raced => \A b \in Breaking : \A s \in Starters : InTime(s) => b \in overtaken

\* A sidecar is never older than the silence of a sync that is in time.
SidecarIsFresh ==
  ~raced =>
    \A s \in Starters :
      pc[s] = "syncing" /\ silent[s] <= Threshold /\ sidecar => age <= silent[s]

\* Before any sync has slept every sync is in time and has its sidecar.
NobodySlept ==
  ~raced /\ ~slept =>
    \A s \in Starters : pc[s] = "syncing" => silent[s] <= Threshold /\ sidecar

\* The clock does not move between the lock and the first sidecar.
LockedIsInTime ==
  \A s \in Starters : pc[s] = "locked" => silent[s] = 0

\* The inductive strengthening: a stale verdict and a sync that is in time
\* exclude each other unless the verdict came first.
SyncInv ==
  /\ HolderHasThePath
  /\ BreakersAreOvertaken
  /\ SidecarIsFresh
  /\ NobodySlept
  /\ LockedIsInTime

LEMMA SyncInvStep ==
  ASSUME TypeOK, SyncInv, [Next]_vars
  PROVE  SyncInv'
<1> USE SyncLockAssumption
    DEF TypeOK, Ages, Places, Goto, files, history, SyncInv, HolderHasThePath,
        BreakersAreOvertaken, SidecarIsFresh, NobodySlept, LockedIsInTime, InTime,
        Breaking
<1>1. ASSUME NEW s \in Starters, Look(s)
      PROVE  SyncInv'
  BY <1>1 DEF Look, Stale
<1>2. ASSUME NEW s \in Starters, Unlink(s)
      PROVE  SyncInv'
  BY <1>2 DEF Unlink
<1>3. ASSUME NEW s \in Starters, Clean(s)
      PROVE  SyncInv'
  BY <1>3 DEF Clean
<1>4. ASSUME NEW s \in Starters, Lock(s)
      PROVE  SyncInv'
  BY <1>4 DEF Lock
<1>5. ASSUME NEW s \in Starters, Refused(s)
      PROVE  SyncInv'
  BY <1>5 DEF Refused
<1>6. ASSUME NEW s \in Starters, Mark(s)
      PROVE  SyncInv'
  <2>1. HolderHasThePath' /\ BreakersAreOvertaken'
    BY <1>6 DEF Mark
  <2>2. SidecarIsFresh' /\ NobodySlept' /\ LockedIsInTime'
    BY <1>6 DEF Mark
  <2> QED
    BY <2>1, <2>2
<1>7. ASSUME NEW s \in Starters, Heartbeat(s)
      PROVE  SyncInv'
  BY <1>7 DEF Heartbeat
<1>8. ASSUME NEW s \in Starters, Finish(s)
      PROVE  SyncInv'
  BY <1>8 DEF Finish
<1>9. ASSUME NEW s \in Starters, Unlock(s)
      PROVE  SyncInv'
  BY <1>9 DEF Unlock
<1>10. ASSUME NEW s \in Starters, Crash(s)
       PROVE  SyncInv'
  BY <1>10 DEF Crash
<1>11. CASE Tick
  BY <1>11 DEF Tick, Older
<1>12. CASE UNCHANGED vars
  BY <1>12 DEF vars
<1> QED
  BY <1>1, <1>2, <1>3, <1>4, <1>5, <1>6, <1>7, <1>8, <1>9, <1>10, <1>11, <1>12 DEF Next

\* The inductive invariant of every behaviour.
THEOREM SyncInvAlways == Spec => []SyncInv
<1>1. Init => SyncInv
  BY DEF Init, SyncInv, HolderHasThePath, BreakersAreOvertaken, SidecarIsFresh,
         NobodySlept, LockedIsInTime, InTime, Breaking
<1> QED
  BY <1>1, SyncInvStep, TypeCorrect, PTL DEF Spec

\* Two syncs that heartbeat in time never run at once, unless a break that an
\* acquisition has overtaken goes ahead (_break_if_stale unlinks the lock file
\* without looking again).
THEOREM OneSync == Spec => []OneLiveSync
<1>1. SyncInv => OneLiveSync
  BY DEF SyncInv, HolderHasThePath, OneLiveSync
<1> QED
  BY <1>1, SyncInvAlways, PTL

\* The routes see every running sync: release_sync_lock removes the sidecar
\* before it frees the lock and so never hides the sync that comes next.
THEOREM SyncIsSeen == Spec => []LiveSyncIsVisible
<1>1. TypeOK /\ SyncInv => LiveSyncIsVisible
  BY SyncLockAssumption
  DEF TypeOK, Ages, SyncInv, SidecarIsFresh, NobodySlept, LiveSyncIsVisible, SyncRunning
<1> QED
  BY <1>1, SyncInvAlways, TypeCorrect, PTL

=============================================================================
