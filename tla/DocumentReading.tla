--------------------------- MODULE DocumentReading ---------------------------
(***************************************************************************)
(* How documents are read: the rows in `documents`, the pool of worker      *)
(* threads that send them to the provider, and the breaker that stops a     *)
(* sync when the fault is the provider's (services/extraction.py, the       *)
(* extraction and quarantine stages of flows/sync.py, services/retry.py).   *)
(*                                                                          *)
(* A sync reads the documents whose file is in the input folder (stage      *)
(* "scanning"), quarantines what failed for good ("judging"), then reads    *)
(* the documents that are still pending without a file ("recovering") and   *)
(* judges those ("closing").  One step of a worker is one transaction, one  *)
(* critical section of the breaker's mutex, or the provider's answer.  What *)
(* an answer says is abstracted to its kind; grouping of what was read is   *)
(* PoSetLifecycle's AttachRead and AttachWrite.                             *)
(***************************************************************************)
EXTENDS Naturals, FiniteSets

CONSTANTS
  Docs,        \* active documents that are read automatically
  Files,       \* those with a file in the input folder; the others are split children
  Workers,     \* threads of the extraction pool
  Cap,         \* extraction.max_retries: attempts charged before giving up
  Limit,       \* PROVIDER_400_LIMIT
  Answers,     \* per document: what a healthy provider may answer
  Outages,     \* which of "infra", "fatal" and "rejected" a sick one answers
  MaxOutages,  \* bound on answers of a sick provider
  MaxCrashes,  \* bound on crashes
  NoDoc

ASSUME ReadingAssumption ==
  /\ Files \subseteq Docs
  /\ Cap \in Nat \ {0}
  /\ Limit \in Nat \ {0}
  /\ Answers \in [Docs -> SUBSET {"ok", "combined", "unreadable", "rejected"}]
  /\ Outages \subseteq {"infra", "fatal", "rejected"}
  /\ MaxOutages \in Nat
  /\ MaxCrashes \in Nat
  /\ NoDoc \notin Docs

VARIABLES
  st,        \* documents.extraction_status
  attempts,  \* documents.extraction_attempt_count
  marked,    \* documents whose raw_extraction_json is the refund marker
  filed,     \* documents whose file is still in the input folder
  broken,    \* documents copied to the quarantine folder
  stage,     \* where the sync flow is
  queue,     \* jobs of this pass not yet given to a worker
  tried,     \* documents the scanning pass had a job for
  returned,  \* documents of this pass whose call returned, unhalted
  worker,    \* what each worker is doing
  breaker,   \* the breaker's module state
  blame,     \* answers held against each document, and crashes under it (history)
  combined,  \* documents that were read as several in one file (history)
  outages, crashes

rows == <<st, attempts, marked>>
files == <<filed, broken>>
flow == <<stage, queue, tried, returned>>
counts == <<outages, crashes>>
history == <<blame, combined>>
vars == <<rows, files, flow, worker, breaker, history, counts>>

Statuses == {"pending", "processing", "valid", "failed"}
Stages == {"idle", "scanning", "judging", "recovering", "closing"}

\* doc: its job; at: the next step; calls: calls made by the retry envelope
\* before this one; from: the status the row was read with; no: the attempt's
\* number; refund: the documents this worker has to refund.
Idle == [doc |-> NoDoc, at |-> "free", calls |-> 0, from |-> "pending", no |-> 0,
         refund |-> {}]

\* rejected and deferred are the two sets of document ids, claimed the flag
\* that one worker has taken on the refund.
Reset == [tripped |-> FALSE, rejected |-> {}, deferred |-> {}, claimed |-> FALSE]

Breakers == [tripped : BOOLEAN, rejected : SUBSET Docs, deferred : SUBSET Docs,
             claimed : BOOLEAN]

Places == {"free", "launched", "opening", "claiming", "claimed", "calling", "crediting",
           "noting", "failing", "tripping", "refunding"}

Jobs == [doc : Docs \cup {NoDoc}, at : Places, calls : 0 .. Cap, from : Statuses,
         no : 0 .. Cap, refund : SUBSET Docs]

TypeOK ==
  /\ st \in [Docs -> Statuses]
  /\ attempts \in [Docs -> 0 .. Cap]
  /\ marked \in SUBSET Docs
  /\ filed \in SUBSET Docs
  /\ broken \in SUBSET Docs
  /\ stage \in Stages
  /\ queue \in SUBSET Docs
  /\ tried \in SUBSET Docs
  /\ returned \in SUBSET Docs
  /\ worker \in [Workers -> Jobs]
  /\ breaker \in Breakers
  /\ blame \in [Docs -> 0 .. Cap]
  /\ combined \in SUBSET Docs
  /\ outages \in Nat
  /\ crashes \in Nat

Init ==
  /\ st = [d \in Docs |-> "pending"]
  /\ attempts = [d \in Docs |-> 0]
  /\ marked = {}
  /\ filed = Files
  /\ broken = {}
  /\ stage = "idle"
  /\ queue = {}
  /\ tried = {}
  /\ returned = {}
  /\ worker = [w \in Workers |-> Idle]
  /\ breaker = Reset
  /\ blame = [d \in Docs |-> 0]
  /\ combined = {}
  /\ outages = 0
  /\ crashes = 0

-----------------------------------------------------------------------------

Doc(w) == worker[w].doc
At(w, p) == worker[w].at = p
Goto(w, p) == worker' = [worker EXCEPT ![w].at = p]

Reading == stage \in {"scanning", "recovering"}

\* Mutant: the claims of dead workers are not recognised.
OrphanNever(d) == FALSE

\* A claim nobody is working on.  The configuration keeps
\* stale_processing_seconds above the longest time a live worker can take, so
\* only such a claim is ever old enough to be reclaimed.
Orphan(d) == st[d] = "processing" /\ \A w \in Workers : Doc(w) # d

\* Rejected documents whose verdict a trip may still withdraw.
Withheld == breaker.rejected \cup breaker.deferred

\* One more answer held against d; counting to Cap is enough.
Blamed(d) == [blame EXCEPT ![d] = IF @ < Cap THEN @ + 1 ELSE @]

-----------------------------------------------------------------------------
(* The sync flow.                                                            *)

\* Mutant: only pending documents get a job.
SyncStartPendingOnly ==
  /\ stage = "idle"
  /\ breaker' = Reset
  /\ \E S \in SUBSET {d \in Docs : Orphan(d)} :
       st' = [d \in Docs |-> IF d \in S THEN "pending" ELSE st[d]]
  /\ queue' = {d \in filed : st'[d] = "pending"}
  /\ tried' = queue'
  /\ returned' = {}
  /\ stage' = "scanning"
  /\ UNCHANGED <<attempts, marked, files, worker, history, counts>>

\* reset_provider_breaker, reclaim_stale_processing, and one job for every
\* file of a document that was not read before.
SyncStart ==
  /\ stage = "idle"
  /\ breaker' = Reset
  /\ \E S \in SUBSET {d \in Docs : Orphan(d)} :
       st' = [d \in Docs |-> IF d \in S THEN "pending" ELSE st[d]]
  /\ queue' = {d \in filed : st'[d] # "valid"}
  /\ tried' = queue'
  /\ returned' = {}
  /\ stage' = "scanning"
  /\ UNCHANGED <<attempts, marked, files, worker, history, counts>>

Launch(w) ==
  /\ Reading
  /\ At(w, "free")
  /\ ~breaker.tripped
  /\ \E d \in queue :
       /\ queue' = queue \ {d}
       /\ worker' = [worker EXCEPT ![w] = [Idle EXCEPT !.doc = d, !.at = "launched"]]
  /\ UNCHANGED <<rows, files, stage, tried, returned, breaker, history, counts>>

\* _extract_one looks at the breaker once more before the first call.
Enter(w) ==
  /\ At(w, "launched")
  /\ IF breaker.tripped
     THEN worker' = [worker EXCEPT ![w] = Idle]
     ELSE Goto(w, "opening")
  /\ UNCHANGED <<rows, files, flow, breaker, history, counts>>

\* The pool is done when every worker is; a trip leaves the rest of the queue.
PoolEnds ==
  /\ Reading
  /\ \A w \in Workers : At(w, "free")
  /\ queue = {} \/ breaker.tripped
  /\ queue' = {}
  /\ stage' = IF stage = "scanning" THEN "judging" ELSE "closing"
  /\ UNCHANGED <<rows, files, tried, returned, worker, breaker, history, counts>>

\* Documents this pass has to quarantine: the call returned and the row says
\* `failed`, and its 400 is not one that a trip has put down to the provider.
Doomed ==
  {d \in returned : /\ st[d] = "failed"
                    /\ d \in Withheld => ~breaker.tripped}

\* _quarantine_broken_document: the file leaves the input folder.
Condemn(d) ==
  /\ stage \in {"judging", "closing"}
  /\ d \in Doomed \ broken
  /\ broken' = broken \cup {d}
  /\ filed' = filed \ {d}
  /\ UNCHANGED <<rows, flow, worker, breaker, history, counts>>

\* recovery_flow: pending documents that this sync has not tried yet.
Recover ==
  /\ stage = "judging"
  /\ Doomed \subseteq broken
  /\ \E S \in SUBSET {d \in Docs : Orphan(d)} :
       st' = [d \in Docs |-> IF d \in S THEN "pending" ELSE st[d]]
  /\ queue' = {d \in Docs \ tried : st'[d] = "pending"}
  /\ returned' = {}
  /\ stage' = "recovering"
  /\ UNCHANGED <<attempts, marked, files, tried, worker, breaker, history, counts>>

\* end_provider_breaker, in the `finally` of the flow.
SyncEnd ==
  /\ stage = "closing"
  /\ Doomed \subseteq broken
  /\ stage' = "idle"
  /\ breaker' = Reset
  /\ UNCHANGED <<rows, files, queue, tried, returned, worker, history, counts>>

\* The process dies with everything it holds in memory.
Crash ==
  /\ crashes < MaxCrashes
  /\ stage # "idle"
  /\ crashes' = crashes + 1
  /\ stage' = "idle"
  /\ queue' = {}
  /\ tried' = {}
  /\ returned' = {}
  /\ worker' = [w \in Workers |-> Idle]
  /\ breaker' = Reset
  /\ blame' = [d \in Docs |-> IF st[d] = "processing" /\ ~Orphan(d) /\ blame[d] < Cap
                              THEN blame[d] + 1 ELSE blame[d]]
  /\ UNCHANGED <<rows, files, combined, outages>>

-----------------------------------------------------------------------------
(* extract_document and the retry envelope around it.                        *)

\* The call returns normally; whether that halts the pass is asked then.
Return(w) ==
  /\ worker' = [worker EXCEPT ![w] = Idle]
  /\ returned' = IF breaker.tripped THEN returned ELSE returned \cup {Doc(w)}

\* The call raises: the envelope makes Cap + 1 calls and then gives up, with
\* an outcome that is counted as an error and looked at by no later stage.
Raise(w) ==
  /\ LET again == [Idle EXCEPT !.doc = Doc(w), !.at = "opening", !.calls = worker[w].calls + 1]
     IN worker' = [worker EXCEPT ![w] = IF worker[w].calls < Cap THEN again ELSE Idle]
  /\ UNCHANGED returned

\* It raises ProviderRequestRejected, which is not tried again.
Halt(w) ==
  /\ worker' = [worker EXCEPT ![w] = Idle]
  /\ UNCHANGED returned

Elsewhere == UNCHANGED <<files, stage, queue, tried, combined, counts>>

\* The first session: leave the row alone, take a claim over that has grown
\* old by now, give up on the document, or go on to claim it.
Open(w) ==
  LET d == Doc(w)
      skips == st[d] = "valid" \/ (st[d] = "pending" /\ breaker.tripped)
      open == st[d] # "processing" /\ ~skips
  IN
  /\ At(w, "opening")
  /\ \/ /\ skips \/ st[d] = "processing"
        /\ Return(w)
        /\ UNCHANGED st
     \/ /\ st[d] = "processing"
        /\ st' = [st EXCEPT ![d] = "pending"]
        /\ UNCHANGED <<worker, returned>>
     \/ /\ open /\ attempts[d] >= Cap
        /\ st' = [st EXCEPT ![d] = "failed"]
        /\ Return(w)
     \/ /\ open /\ attempts[d] < Cap
        /\ worker' = [worker EXCEPT ![w].at = "claiming", ![w].from = st[d]]
        /\ UNCHANGED <<st, returned>>
  /\ UNCHANGED <<attempts, marked, breaker, blame>>
  /\ Elsewhere

\* The compare-and-swap.
Claim(w) ==
  LET d == Doc(w) IN
  /\ At(w, "claiming")
  /\ IF st[d] = worker[w].from /\ attempts[d] < Cap
     THEN /\ st' = [st EXCEPT ![d] = "processing"]
          /\ attempts' = [attempts EXCEPT ![d] = @ + 1]
          /\ worker' = [worker EXCEPT ![w].at = "claimed", ![w].no = attempts[d] + 1]
          /\ UNCHANGED returned
     ELSE /\ st' = IF st[d] # "valid" /\ attempts[d] >= Cap
                   THEN [st EXCEPT ![d] = "failed"] ELSE st
          /\ Return(w)
          /\ UNCHANGED attempts
  /\ UNCHANGED <<marked, breaker, blame>>
  /\ Elsewhere

\* A trip between the claim and the call gives the claim back (_release_claim).
Send(w) ==
  LET d == Doc(w) IN
  /\ At(w, "claimed")
  /\ IF breaker.tripped
     THEN /\ Return(w)
          /\ IF st[d] = "processing"
             THEN /\ st' = [st EXCEPT ![d] = "pending"]
                  /\ attempts' = [attempts EXCEPT ![d] = 0]
             ELSE UNCHANGED <<st, attempts>>
     ELSE Goto(w, "calling") /\ UNCHANGED <<st, attempts, returned>>
  /\ UNCHANGED <<marked, breaker, blame>>
  /\ Elsewhere

\* An answer of a sick provider is counted, one of a healthy one is not.
Answered(w, answer) ==
  /\ At(w, "calling")
  /\ \/ answer \in Answers[Doc(w)] /\ UNCHANGED outages
     \/ answer \in Outages /\ outages < MaxOutages /\ outages' = outages + 1
  /\ UNCHANGED <<stage, queue, tried, crashes>>

\* A reading is stored only while the row is still claimed.
Store(w) ==
  LET d == Doc(w) IN
  /\ Answered(w, "ok")
  /\ IF st[d] = "processing"
     THEN /\ st' = [st EXCEPT ![d] = "valid"]
          /\ marked' = marked \ {d}
          /\ Goto(w, "crediting")
          /\ UNCHANGED returned
     ELSE Return(w) /\ UNCHANGED <<st, marked>>
  /\ UNCHANGED <<attempts, files, breaker, history>>

\* _handle_combined: several documents in one file.  It is split and parked, or was
\* split before; or it is quarantined unsplit, with a valid row; or the splitter refuses
\* it, or it is a part itself, and the row fails: it is quarantined, or its parent is,
\* which was split.  The call returns normally, and the breaker hears nothing of it.
StoreCombined(w) ==
  LET d == Doc(w) IN
  /\ Answered(w, "combined")
  /\ IF st[d] = "processing"
     THEN /\ \E v \in {"valid", "failed"} : st' = [st EXCEPT ![d] = v]
          /\ marked' = marked \ {d}
          /\ combined' = combined \cup {d}
          /\ \/ UNCHANGED files
             \/ st'[d] = "valid" /\ filed' = filed \ {d} /\ UNCHANGED broken
             \/ \E c \in combined' : filed' = filed \ {c} /\ broken' = broken \cup {c}
     ELSE UNCHANGED <<st, marked, combined, files>>
  /\ Return(w)
  /\ UNCHANGED <<attempts, breaker, blame>>

\* _note_provider_ok: the rejections so far were the documents' own.
Credit(w) ==
  /\ At(w, "crediting")
  /\ breaker' = [breaker EXCEPT !.rejected = {}]
  /\ Return(w)
  /\ UNCHANGED <<rows, blame>>
  /\ Elsewhere

\* Mutant: an outage of the provider is charged to the document.
ExcuseCharged(w) ==
  LET d == Doc(w) IN
  /\ \E answer \in {"infra", "fatal"} :
       /\ Answered(w, answer)
       /\ IF answer = "infra" THEN Raise(w) ELSE Goto(w, "tripping") /\ UNCHANGED returned
  /\ st' = [st EXCEPT ![d] = "pending"]
  /\ UNCHANGED <<attempts, marked, files, breaker, history>>

\* A provider or network fault gives the attempt back.
Excuse(w) ==
  LET d == Doc(w) IN
  /\ \E answer \in {"infra", "fatal"} :
       /\ Answered(w, answer)
       /\ IF answer = "infra" THEN Raise(w) ELSE Goto(w, "tripping") /\ UNCHANGED returned
  /\ st' = [st EXCEPT ![d] = "pending"]
  /\ attempts' = [attempts EXCEPT ![d] = IF breaker.tripped THEN 0 ELSE worker[w].no - 1]
  /\ UNCHANGED <<marked, files, breaker, history>>

\* _trip_provider_fatal.
Trip(w) ==
  /\ At(w, "tripping")
  /\ breaker' = [breaker EXCEPT !.tripped = TRUE]
  /\ Halt(w)
  /\ UNCHANGED <<rows, blame>>
  /\ Elsewhere

\* Any other fault: refunded when the breaker has tripped meanwhile, else held
\* against the document, a 400 after it was reported to the breaker.
Refute(w) ==
  LET d == Doc(w) IN
  /\ \E answer \in {"unreadable", "rejected"} :
       /\ Answered(w, answer)
       /\ IF breaker.tripped
          THEN /\ st' = [st EXCEPT ![d] = "pending"]
               /\ attempts' = [attempts EXCEPT ![d] = 0]
               /\ Halt(w)
               /\ UNCHANGED blame
          ELSE /\ Goto(w, IF answer = "rejected" THEN "noting" ELSE "failing")
               /\ blame' = Blamed(d)
               /\ UNCHANGED <<st, attempts, returned>>
  /\ UNCHANGED <<marked, files, breaker, combined>>

\* Mutant: the refund marker is not looked at.
NoteUnmarked(w) ==
  LET seen == breaker.rejected \cup {Doc(w)}
      trips == Cardinality(seen) >= Limit \/ breaker.tripped
  IN
  /\ At(w, "noting")
  /\ IF ~trips
     THEN /\ breaker' = [breaker EXCEPT !.rejected = seen]
          /\ Goto(w, "failing")
     ELSE /\ breaker' = [breaker EXCEPT !.rejected = seen, !.tripped = TRUE, !.claimed = TRUE]
          /\ worker' = [worker EXCEPT ![w].at = "refunding",
                                      ![w].refund = seen \cup breaker.deferred]
  /\ UNCHANGED <<rows, returned, blame>>
  /\ Elsewhere

\* _note_provider_400, or _defer_400 for a document that was refunded before.
Note(w) ==
  LET d == Doc(w)
      seen == breaker.rejected \cup {d}
      trips == Cardinality(seen) >= Limit \/ breaker.tripped
  IN
  /\ At(w, "noting")
  /\ IF d \in marked
     THEN /\ breaker' = [breaker EXCEPT !.deferred = @ \cup {d}]
          /\ Goto(w, "failing")
     ELSE IF ~trips
     THEN /\ breaker' = [breaker EXCEPT !.rejected = seen]
          /\ Goto(w, "failing")
     ELSE IF breaker.claimed
     THEN /\ breaker' = [breaker EXCEPT !.rejected = seen, !.tripped = TRUE,
                                        !.deferred = @ \cup {d}]
          /\ Goto(w, "failing")
     ELSE /\ breaker' = [breaker EXCEPT !.rejected = seen, !.tripped = TRUE, !.claimed = TRUE]
          /\ worker' = [worker EXCEPT ![w].at = "refunding",
                                      ![w].refund = seen \cup breaker.deferred]
  /\ UNCHANGED <<rows, returned, blame>>
  /\ Elsewhere

\* _refund_rejected, one UPDATE whatever the rows say by now.
Refund(w) ==
  LET S == worker[w].refund IN
  /\ At(w, "refunding")
  /\ st' = [d \in Docs |-> IF d \in S THEN "pending" ELSE st[d]]
  /\ attempts' = [d \in Docs |-> IF d \in S THEN 0 ELSE attempts[d]]
  /\ marked' = marked \cup S
  /\ Halt(w)
  /\ UNCHANGED <<breaker, blame>>
  /\ Elsewhere

\* The verdict on the document, whatever the row says by now.  The session writes what it
\* changed: it loaded the row with this attempt's number, so the count stays what it is.
Fail(w) ==
  LET d == Doc(w) IN
  /\ At(w, "failing")
  /\ st' = [st EXCEPT ![d] = "failed"]
  /\ Raise(w)
  /\ UNCHANGED <<attempts, marked, breaker, blame>>
  /\ Elsewhere

WorkerStep(w) ==
  \/ Enter(w) \/ Open(w) \/ Claim(w) \/ Send(w) \/ Store(w) \/ StoreCombined(w)
  \/ Credit(w) \/ Excuse(w) \/ Trip(w) \/ Refute(w) \/ Note(w) \/ Refund(w) \/ Fail(w)

FlowStep ==
  \/ SyncStart \/ PoolEnds \/ Recover \/ SyncEnd
  \/ \E d \in Docs : Condemn(d)

Next ==
  \/ FlowStep
  \/ \E w \in Workers : Launch(w) \/ WorkerStep(w)
  \/ Crash

Spec == Init /\ [][Next]_vars

\* Threads run, the watcher and the nightly schedule start syncs again and
\* again, and the claim of a dead worker grows old enough in the end.
Fairness ==
  /\ WF_vars(FlowStep)
  /\ SF_vars(SyncStart /\ \A d \in Docs : st'[d] # "processing")
  /\ \A w \in Workers : WF_vars(Launch(w) \/ WorkerStep(w))

FairSpec == Spec /\ Fairness

-----------------------------------------------------------------------------
(* Safety.                                                                   *)

\* A document is quarantined only after Cap answers that it cannot be read (or crashes
\* while it was being read), or because it was read as several documents in one file:
\* outages of the provider, retries and refunds never use its attempts up.
CondemnedForCause == \A d \in broken : blame[d] = Cap \/ d \in combined

-----------------------------------------------------------------------------
(* Liveness.                                                                 *)

\* No document waits for ever: whatever crashes, trips and outages come
\* between, it is read or known to have failed, and so again if a refund puts
\* it back.
EveryDocumentSettles ==
  \A d \in Docs : []<>(st[d] \in {"valid", "failed"})

\* The file of a document that has failed for good leaves the input folder, for the
\* quarantine folder or, when it was split, for combined/, even if the process dies
\* before it is moved.
FailedFilesAreQuarantined ==
  \A d \in Files : []<>(st[d] = "failed" => d \notin filed)

\* Documents that are themselves refused with a 400 do not halt sync after
\* sync: the refund marker lets each be judged on its own.
BreakerComesToRest == <>[](~breaker.tripped)

=============================================================================
