--------------------------- MODULE PoSetLockProofs ---------------------------
(***************************************************************************)
(* Proofs about PoSetLock for every set of clients and every timeout.       *)
(***************************************************************************)
EXTENDS PoSetLock, TLAPS

\* The row, the clock and the bookkeeping keep their types (acquire_lock,
\* release_lock, release_if_stale and _refresh_lock write nothing else).
THEOREM TypeCorrect == Spec => []TypeOK
<1>1. Init => TypeOK
  BY ConstantsAssumption DEF Init, TypeOK, Times, Rows, Unlocked
<1>2. TypeOK /\ [Next]_vars => TypeOK'
  <2> SUFFICES ASSUME TypeOK, [Next]_vars
               PROVE  TypeOK'
    OBVIOUS
  <2> USE ConstantsAssumption DEF TypeOK, Times, Rows
  <2>1. ASSUME NEW c \in Clients, Acquire(c)
        PROVE  TypeOK'
    BY <2>1 DEF Acquire
  <2>2. ASSUME NEW c \in Clients, RefreshRead(c)
        PROVE  TypeOK'
    BY <2>2 DEF RefreshRead
  <2>3. ASSUME NEW c \in Clients, RefreshWrite(c)
        PROVE  TypeOK'
    BY <2>3 DEF RefreshWrite
  <2>4. ASSUME NEW c \in Clients, Release(c)
        PROVE  TypeOK'
    BY <2>4 DEF Release, Unlocked
  <2>5. ASSUME NEW c \in Clients, Crash(c)
        PROVE  TypeOK'
    BY <2>5 DEF Crash
  <2>6. CASE CleanupRead
    BY <2>6 DEF CleanupRead
  <2>7. CASE CleanupWrite
    BY <2>7 DEF CleanupWrite, Unlocked
  <2>8. CASE Tick
    BY <2>8 DEF Tick
  <2>9. CASE UNCHANGED vars
    BY <2>9 DEF vars
  <2> QED
    BY <2>1, <2>2, <2>3, <2>4, <2>5, <2>6, <2>7, <2>8, <2>9 DEF Next
<1> QED
  BY <1>1, <1>2, PTL DEF Spec

-----------------------------------------------------------------------------

\* A lock observed stale stays stale: the observation can only age.
ObservedIsStale ==
  observed # Unlocked =>
    observed.action \in Actions /\ observed.at + Timeout < now

\* No lock is dated in the future.
NotInFuture == lock.at <= now

\* The inductive strengthening: the holder's claim, the cleanup's, the clock's.
LockInv == InTimeHolderKeepsLock /\ ObservedIsStale /\ NotInFuture

\* When the action name identifies the client, a client that heartbeats in
\* time is never overtaken: what FR-CONC-1 asks of the lock, for every number
\* of clients, crashes and stale polls.
THEOREM HolderKeepsLock ==
  ASSUME DistinctActions
  PROVE  Spec => []InTimeHolderKeepsLock
<1>1. Init => LockInv
  BY DEF Init, LockInv, InTimeHolderKeepsLock, InTime, ObservedIsStale, NotInFuture, Unlocked
<1>2. TypeOK /\ TypeOK' /\ LockInv /\ [Next]_vars => LockInv'
  <2> SUFFICES ASSUME TypeOK, TypeOK', LockInv, [Next]_vars
               PROVE  LockInv'
    OBVIOUS
  <2> USE ConstantsAssumption DEF TypeOK, Times, Rows
  <2>0. NotInFuture'
    BY DEF LockInv, NotInFuture, Next, vars, Acquire, RefreshRead, RefreshWrite, Release,
           Crash, CleanupRead, CleanupWrite, Tick, Unlocked
  <2>1. ASSUME NEW c \in Clients, Acquire(c)
        PROVE  LockInv'
    <3>1. \A d \in Clients : d # c => ~InTime(d)
      <4> SUFFICES ASSUME NEW d \in Clients, d # c, InTime(d)
                   PROVE  FALSE
        OBVIOUS
      <4>1. lock.action = ActionOf[d] /\ kept[d] <= lock.at
        BY DEF LockInv, InTimeHolderKeepsLock
      <4>2. lock.action # NoAction
        BY <4>1
      <4>3. lock.at + Timeout <= now
        BY <2>1, <4>2 DEF Acquire, Takeable
      <4> QED
        BY <4>1, <4>3 DEF InTime
    <3>2. InTimeHolderKeepsLock'
      BY <2>1, <3>1 DEF Acquire, InTimeHolderKeepsLock, InTime
    <3>3. ObservedIsStale'
      BY <2>1 DEF Acquire, LockInv, ObservedIsStale, Unlocked
    <3> QED
      BY <2>0, <3>2, <3>3 DEF LockInv
  <2>2. ASSUME NEW c \in Clients, RefreshRead(c)
        PROVE  LockInv'
    BY <2>0, <2>2 DEF RefreshRead, LockInv, InTimeHolderKeepsLock, InTime, ObservedIsStale, Unlocked
  <2>3. ASSUME NEW c \in Clients, RefreshWrite(c)
        PROVE  LockInv'
    <3>1. InTimeHolderKeepsLock'
      BY <2>3 DEF RefreshWrite, LockInv, InTimeHolderKeepsLock, InTime, NotInFuture
    <3>2. ObservedIsStale'
      BY <2>3 DEF RefreshWrite, LockInv, ObservedIsStale, Unlocked
    <3> QED
      BY <2>0, <3>1, <3>2 DEF LockInv
  <2>4. ASSUME NEW c \in Clients, Release(c)
        PROVE  LockInv'
    <3>1. \A d \in Clients : InTime(d)' => InTime(d) /\ d # c
      BY <2>4 DEF Release, InTime
    <3>2. \A d \in Clients : InTime(d)' => lock' = lock
      BY <2>4, <3>1 DEF Release, LockInv, InTimeHolderKeepsLock, DistinctActions
    <3>3. InTimeHolderKeepsLock'
      BY <2>4, <3>1, <3>2 DEF Release, LockInv, InTimeHolderKeepsLock
    <3>4. ObservedIsStale'
      BY <2>4 DEF Release, LockInv, ObservedIsStale, Unlocked
    <3> QED
      BY <2>0, <3>3, <3>4 DEF LockInv
  <2>5. ASSUME NEW c \in Clients, Crash(c)
        PROVE  LockInv'
    BY <2>0, <2>5 DEF Crash, LockInv, InTimeHolderKeepsLock, InTime, ObservedIsStale, Unlocked
  <2>6. CASE CleanupRead
    <3>1. InTimeHolderKeepsLock'
      BY <2>6 DEF CleanupRead, LockInv, InTimeHolderKeepsLock, InTime
    <3>2. ObservedIsStale'
      BY <2>6 DEF CleanupRead, Stale, ObservedIsStale, Unlocked
    <3> QED
      BY <2>0, <3>1, <3>2 DEF LockInv
  <2>7. CASE CleanupWrite
    <3>1. \A d \in Clients : InTime(d)' => lock' = lock
      <4> SUFFICES ASSUME NEW d \in Clients, InTime(d)', lock = observed
                   PROVE  FALSE
        BY <2>7 DEF CleanupWrite
      <4>1. lock.at + Timeout < now
        BY <2>7 DEF CleanupWrite, LockInv, ObservedIsStale
      <4>2. kept[d] <= lock.at /\ now < kept[d] + Timeout
        BY <2>7 DEF CleanupWrite, LockInv, InTimeHolderKeepsLock, InTime
      <4> QED
        BY <4>1, <4>2
    <3>2. InTimeHolderKeepsLock'
      BY <2>7, <3>1 DEF CleanupWrite, LockInv, InTimeHolderKeepsLock, InTime
    <3>3. ObservedIsStale'
      BY <2>7 DEF CleanupWrite, ObservedIsStale, Unlocked
    <3> QED
      BY <2>0, <3>2, <3>3 DEF LockInv
  <2>8. CASE Tick
    BY <2>0, <2>8 DEF Tick, LockInv, InTimeHolderKeepsLock, InTime, ObservedIsStale, Unlocked
  <2>9. CASE UNCHANGED vars
    BY <2>0, <2>9 DEF vars, LockInv, InTimeHolderKeepsLock, InTime, ObservedIsStale, Unlocked
  <2> QED
    BY <2>1, <2>2, <2>3, <2>4, <2>5, <2>6, <2>7, <2>8, <2>9 DEF Next
<1>3. LockInv => InTimeHolderKeepsLock
  BY DEF LockInv
<1> QED
  BY <1>1, <1>2, <1>3, TypeCorrect, PTL DEF Spec

\* Two in-time clients would both be named by the one row.
THEOREM MutualExclusion ==
  ASSUME DistinctActions
  PROVE  Spec => []OneInTimeHolder
<1>1. InTimeHolderKeepsLock => OneInTimeHolder
  BY DEF InTimeHolderKeepsLock, OneInTimeHolder, DistinctActions
<1> QED
  BY <1>1, HolderKeepsLock, PTL

-----------------------------------------------------------------------------

\* What a cleanup has observed stays stale, whatever the clients' actions are named:
\* the observed value names its moment, and the clock does not go back.
LEMMA ObservationAges ==
  ASSUME TypeOK, ObservedIsStale, [Next]_vars
  PROVE  ObservedIsStale'
<1> USE ConstantsAssumption DEF TypeOK, Times, Rows
<1>1. CASE CleanupRead
  BY <1>1 DEF CleanupRead, Stale, ObservedIsStale, Unlocked
<1>2. CASE CleanupWrite
  BY <1>2 DEF CleanupWrite, ObservedIsStale
<1>3. ASSUME observed' = observed, now' \in {now, now + 1}
      PROVE  ObservedIsStale'
  BY <1>3 DEF ObservedIsStale, Unlocked
<1>4. CASE observed' = observed /\ now' = now
  BY <1>3, <1>4
<1>5. CASE Tick
  BY <1>3, <1>5 DEF Tick
<1> QED
  BY <1>1, <1>2, <1>4, <1>5
     DEF Next, vars, Acquire, RefreshRead, RefreshWrite, Release, Crash

\* release_if_stale never clears a lock taken in the gap between its read and its
\* write: only its own client gives up a lock that is not stale, and for this the
\* names of the actions do not matter.
THEOREM FreshLocksAreSpared == Spec => CleanupSparesFreshLocks
<1>1. Init => ObservedIsStale
  BY DEF Init, ObservedIsStale
<1>2. TypeOK /\ ObservedIsStale /\ [Next]_vars => ObservedIsStale'
  BY ObservationAges
<1>3. ASSUME TypeOK, ObservedIsStale, [Next]_vars,
             lock.action # NoAction, lock'.action = NoAction, pc' = pc
      PROVE  Stale
  <2> USE ConstantsAssumption DEF TypeOK, Times, Rows
  <2>1. CASE CleanupWrite
    BY <1>3, <2>1 DEF CleanupWrite, ObservedIsStale, Stale
  <2>2. ASSUME NEW c \in Clients, Acquire(c) \/ RefreshWrite(c) \/ Release(c)
        PROVE  FALSE
    BY <1>3, <2>2 DEF Acquire, RefreshWrite, Release
  <2>3. CASE lock' = lock
    BY <1>3, <2>3
  <2> QED
    BY <1>3, <2>1, <2>2, <2>3 DEF Next, vars, RefreshRead, Crash, CleanupRead, Tick
<1> QED
  BY <1>1, <1>2, <1>3, TypeCorrect, PTL DEF Spec, CleanupSparesFreshLocks
=============================================================================
