------------------------------ MODULE PoSetLock ------------------------------
(***************************************************************************)
(* The per-PO lock: the columns `locked_by_action` and `locked_at` of one   *)
(* `po_sets` row, taken and given back by request handlers and by the sync  *)
(* sweep (services/locking.py, the `_acquire_lock`, `_release_lock` and     *)
(* `_refresh_lock` helpers of api/routes/po_sets.py), and cleared by the    *)
(* dashboard poll when it is stale (`release_if_stale`).                    *)
(*                                                                          *)
(* The lock names an ACTION, not the request that took it, and it is given  *)
(* up by time: a holder that stalls longer than the timeout is overtaken.   *)
(* Every SQL statement is one step.  Time is `datetime.now()`, counted in   *)
(* ticks up to MaxTime.                                                     *)
(***************************************************************************)
EXTENDS Naturals

CONSTANTS
  Clients,    \* request handlers and sweeps that take the lock of this set
  Actions,    \* action names ("merge", "redo_extract", "sync_reconcile", ...)
  NoAction,   \* SQL NULL in locked_by_action
  ActionOf,   \* the action each client performs
  Timeout,    \* concurrency.po_set_lock_timeout_seconds, in ticks
  MaxTime     \* bound on the clock

ASSUME ConstantsAssumption ==
  /\ ActionOf \in [Clients -> Actions]
  /\ NoAction \notin Actions
  /\ Timeout \in Nat \ {0}
  /\ MaxTime \in Nat

VARIABLES
  now,      \* the clock
  lock,     \* the row: [action, at]; `at` of an unlocked row is meaningless
  pc,       \* what each client is doing
  kept,     \* per client: the last acquire or in-time heartbeat (history)
  observed  \* the lock a dashboard poll has judged stale, or Unlocked

vars == <<now, lock, pc, kept, observed>>

Times == 0 .. MaxTime

Unlocked == [action |-> NoAction, at |-> 0]

Rows == [action : Actions \cup {NoAction}, at : Times]

TypeOK ==
  /\ now \in Times
  /\ lock \in Rows
  /\ pc \in [Clients -> {"idle", "working", "refreshing"}]
  /\ kept \in [Clients -> Times]
  /\ observed \in Rows

Init ==
  /\ now = 0
  /\ lock = Unlocked
  /\ pc = [c \in Clients |-> "idle"]
  /\ kept = [c \in Clients |-> 0]
  /\ observed = Unlocked

-----------------------------------------------------------------------------

\* The WHERE clause of acquire_lock: free, or locked_at <= now - timeout.
Takeable == lock.action = NoAction \/ lock.at + Timeout <= now

\* is_locked is FALSE only when the age exceeds the timeout; a lock of exactly
\* that age is still "locked" to a reader although acquire_lock may take it.
Stale == lock.action # NoAction /\ lock.at + Timeout < now

\* A client is in time while its last acquire or heartbeat is younger than the
\* timeout: the requirement AppConfig.validate_attempt_budget puts on actions.
InTime(c) == pc[c] # "idle" /\ now < kept[c] + Timeout

-----------------------------------------------------------------------------

\* One UPDATE: the free-or-expired test and the write are a single statement.
Acquire(c) ==
  /\ pc[c] = "idle"
  /\ Takeable
  /\ lock' = [action |-> ActionOf[c], at |-> now]
  /\ pc' = [pc EXCEPT ![c] = "working"]
  /\ kept' = [kept EXCEPT ![c] = now]
  /\ UNCHANGED <<now, observed>>

\* _refresh_lock first reads the row and compares the action name ...
RefreshRead(c) ==
  /\ pc[c] = "working"
  /\ lock.action = ActionOf[c]
  /\ pc' = [pc EXCEPT ![c] = "refreshing"]
  /\ UNCHANGED <<now, lock, kept, observed>>

\* ... and then writes locked_at by primary key, whoever holds the lock by now.
RefreshWrite(c) ==
  /\ pc[c] = "refreshing"
  /\ lock' = [lock EXCEPT !.at = now]
  /\ kept' = IF InTime(c) THEN [kept EXCEPT ![c] = now] ELSE kept
  /\ pc' = [pc EXCEPT ![c] = "working"]
  /\ UNCHANGED <<now, observed>>

\* Mutant: a release that ignores the action name.
ReleaseAnyLock(c) ==
  /\ pc[c] = "working"
  /\ lock' = Unlocked
  /\ pc' = [pc EXCEPT ![c] = "idle"]
  /\ UNCHANGED <<now, kept, observed>>

\* The `finally` of every handler: an UPDATE conditional on the action name.
Release(c) ==
  /\ pc[c] = "working"
  /\ lock' = IF lock.action = ActionOf[c] THEN Unlocked ELSE lock
  /\ pc' = [pc EXCEPT ![c] = "idle"]
  /\ UNCHANGED <<now, kept, observed>>

\* The process dies: no `finally` runs and the row keeps the lock.
Crash(c) ==
  /\ pc[c] # "idle"
  /\ pc' = [pc EXCEPT ![c] = "idle"]
  /\ UNCHANGED <<now, lock, kept, observed>>

\* release_if_stale, first half: a dashboard poll reads a stale lock.
CleanupRead ==
  /\ Stale
  /\ observed' = lock
  /\ UNCHANGED <<now, lock, pc, kept>>

\* Mutant: a cleanup that clears whatever lock it finds.
CleanupBlindly ==
  /\ observed # Unlocked
  /\ lock' = Unlocked
  /\ observed' = Unlocked
  /\ UNCHANGED <<now, pc, kept>>

\* Mutant: a cleanup conditional on the action name but not on locked_at.
CleanupByAction ==
  /\ observed # Unlocked
  /\ lock' = IF lock.action = observed.action THEN Unlocked ELSE lock
  /\ observed' = Unlocked
  /\ UNCHANGED <<now, pc, kept>>

\* Second half: an UPDATE conditional on the observed action and locked_at.
CleanupWrite ==
  /\ observed # Unlocked
  /\ lock' = IF lock = observed THEN Unlocked ELSE lock
  /\ observed' = Unlocked
  /\ UNCHANGED <<now, pc, kept>>

Tick ==
  /\ now < MaxTime
  /\ now' = now + 1
  /\ UNCHANGED <<lock, pc, kept, observed>>

Next ==
  \/ \E c \in Clients :
       Acquire(c) \/ RefreshRead(c) \/ RefreshWrite(c) \/ Release(c) \/ Crash(c)
  \/ CleanupRead
  \/ CleanupWrite
  \/ Tick

Spec == Init /\ [][Next]_vars

-----------------------------------------------------------------------------

\* A client that acquires the lock and heartbeats in time is never overtaken:
\* the row still names its action, with a time no older than its last
\* heartbeat.  Expired holders, stale polls and crashed clients may do what
\* they like around it (FR-CONC-1, FR-CONC-2).
InTimeHolderKeepsLock ==
  \A c \in Clients :
    InTime(c) => lock.action = ActionOf[c] /\ kept[c] <= lock.at

\* Two clients never work on the set at once while both are in time.
OneInTimeHolder ==
  \A c, d \in Clients : InTime(c) /\ InTime(d) => c = d

\* Only its own client gives up a lock that is not stale: a cleanup that
\* decided "stale" cannot clear a lock taken in the gap (release_if_stale).
CleanupSparesFreshLocks ==
  [][ (/\ lock.action # NoAction
       /\ lock'.action = NoAction
       /\ pc' = pc)
      => Stale ]_vars

\* The condition under which the action name identifies the holder.
DistinctActions ==
  \A c, d \in Clients : ActionOf[c] = ActionOf[d] => c = d
=============================================================================
