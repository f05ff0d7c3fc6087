------------------------ MODULE DocumentReadingProofs ------------------------
(***************************************************************************)
(* Proofs about DocumentReading for every set of documents and workers,     *)
(* every cap and limit, and any outages and crashes.                        *)
(***************************************************************************)
EXTENDS DocumentReading, TLAPS

\* A worker that is not free has a document, and an attempt that is under way has
\* its number.
Sound == {j \in Jobs : /\ j.at = "free" <=> j.doc = NoDoc
                       /\ j.at \in {"claimed", "calling"} => j.no >= 1}

TypeInv == TypeOK /\ worker \in [Workers -> Sound]

\* A document has at most one worker, and is then neither queued nor returned;
\* outside the reading stages there is no job.
OneReader ==
  /\ \A v, w \in Workers : Doc(v) = Doc(w) /\ Doc(v) # NoDoc => v = w
  /\ \A w \in Workers : Doc(w) \notin queue \cup returned
  /\ queue \cap returned = {}
  /\ ~Reading => queue = {} /\ \A w \in Workers : At(w, "free")

\* The attempt the worker of d has claimed and not yet heard of.
UnderWay(d) == \E w \in Workers : Doc(w) = d /\ worker[w].at \in {"claimed", "calling"}

\* A document that was read as several, or one that is charged with no more than what
\* is held against it.
Covered(d) == attempts[d] <= blame[d] \/ d \in combined

\* So is every row that was not read, but for the attempt that is under way.
ChargedForCause ==
  \A d \in Docs : Covered(d) \/ st[d] = "valid" \/ (st[d] = "processing" /\ UnderWay(d))

\* What a worker knows of its row, whatever a refund by another one does to it.
Knows(w) ==
  LET d == Doc(w) IN
  /\ At(w, "claiming") => st[d] \in {worker[w].from, "pending"} /\ worker[w].from \in {"pending", "failed"}
  /\ worker[w].at \in {"claimed", "calling"} =>
       /\ st[d] \in {"processing", "pending"}
       /\ st[d] # "processing" => attempts[d] = 0
       /\ attempts[d] <= worker[w].no
       /\ worker[w].no <= blame[d] + 1 \/ d \in combined
  /\ At(w, "crediting") => st[d] \in {"valid", "pending"}
  /\ worker[w].at \in {"noting", "failing"} => Covered(d)

\* A document whose call returned and that failed has no attempt left, or was read
\* as several.
ReturnedIsSpent == \A d \in returned : st[d] = "failed" => attempts[d] = Cap \/ d \in combined

ChargeInv ==
  /\ ChargedForCause
  /\ \A w \in Workers : Knows(w)
  /\ ReturnedIsSpent
  /\ CondemnedForCause

-----------------------------------------------------------------------------
(* Types.                                                                    *)

\* The records that the steps give a worker.
LEMMA JobForms ==
  /\ Idle \in Sound
  /\ \A d \in Docs : [Idle EXCEPT !.doc = d, !.at = "launched"] \in Sound
  /\ \A d \in Docs, n \in 0 .. Cap : [Idle EXCEPT !.doc = d, !.at = "opening", !.calls = n] \in Sound
  /\ \A j \in Sound, p \in Places \ {"free"} :
       j.doc # NoDoc /\ (p \in {"claimed", "calling"} => j.no >= 1) => [j EXCEPT !.at = p] \in Sound
<1>1. Idle \in Sound /\ Idle \in Jobs
  BY ReadingAssumption DEF Idle, Sound, Jobs, Places, Statuses
<1>2. ASSUME NEW d \in Docs
      PROVE  [Idle EXCEPT !.doc = d, !.at = "launched"] \in Sound
  <2> DEFINE j == [Idle EXCEPT !.doc = d, !.at = "launched"]
  <2>1. j \in Jobs /\ j.doc = d /\ j.at = "launched"
    BY <1>1 DEF Jobs, Places
  <2> HIDE DEF j
  <2>2. j \in Sound
    BY <2>1, ReadingAssumption DEF Sound
  <2> QED
    BY <2>2 DEF j
<1>3. ASSUME NEW d \in Docs, NEW n \in 0 .. Cap
      PROVE  [Idle EXCEPT !.doc = d, !.at = "opening", !.calls = n] \in Sound
  <2> DEFINE j == [Idle EXCEPT !.doc = d, !.at = "opening", !.calls = n]
  <2>1. j \in Jobs /\ j.doc = d /\ j.at = "opening"
    BY <1>1 DEF Jobs, Places
  <2> HIDE DEF j
  <2>2. j \in Sound
    BY <2>1, ReadingAssumption DEF Sound
  <2> QED
    BY <2>2 DEF j
<1>4. ASSUME NEW j \in Sound, NEW p \in Places \ {"free"},
             j.doc # NoDoc, p \in {"claimed", "calling"} => j.no >= 1
      PROVE  [j EXCEPT !.at = p] \in Sound
  <2> DEFINE k == [j EXCEPT !.at = p]
  <2>1. k \in Jobs /\ k.doc = j.doc /\ k.at = p /\ k.no = j.no
    BY <1>4 DEF Sound, Jobs
  <2> HIDE DEF k
  <2>2. k \in Sound
    BY <1>4, <2>1 DEF Sound
  <2> QED
    BY <2>2 DEF k
<1> QED
  BY <1>1, <1>2, <1>3, <1>4

\* The ways a worker leaves a step.
LEMMA MovesTyped ==
  ASSUME TypeInv, NEW w \in Workers, ~At(w, "free")
  PROVE  /\ Doc(w) \in Docs
         /\ \A p \in Places \ {"free"} :
              Goto(w, p) /\ (p \in {"claimed", "calling"} => worker[w].no >= 1)
                => worker' \in [Workers -> Sound]
         /\ Return(w) => worker' \in [Workers -> Sound] /\ returned' \in SUBSET Docs
         /\ Raise(w) => worker' \in [Workers -> Sound] /\ returned' = returned
         /\ Halt(w) => worker' \in [Workers -> Sound] /\ returned' = returned
<1>1. worker[w] \in Sound /\ worker[w] \in Jobs
  BY DEF TypeInv, Sound
<1>2. Doc(w) \in Docs
  BY <1>1 DEF At, Doc, Sound, Jobs
<1>3. ASSUME NEW p \in Places \ {"free"}, Goto(w, p),
             p \in {"claimed", "calling"} => worker[w].no >= 1
      PROVE  worker' \in [Workers -> Sound]
  <2>1. [worker[w] EXCEPT !.at = p] \in Sound
    BY <1>1, <1>2, <1>3, JobForms, ReadingAssumption DEF Doc
  <2>2. worker' = [worker EXCEPT ![w] = [worker[w] EXCEPT !.at = p]]
    BY <1>3 DEF Goto
  <2> QED
    BY <2>1, <2>2 DEF TypeInv
<1>4. ASSUME Return(w)
      PROVE  worker' \in [Workers -> Sound] /\ returned' \in SUBSET Docs
  BY <1>2, <1>4, JobForms DEF Return, TypeInv, TypeOK
<1>5. ASSUME Raise(w)
      PROVE  worker' \in [Workers -> Sound]
  <2>1. worker[w].calls \in 0 .. Cap
    BY <1>1 DEF Jobs
  <2>2. worker[w].calls < Cap => worker[w].calls + 1 \in 0 .. Cap
    BY <2>1, ReadingAssumption
  <2> DEFINE again == [Idle EXCEPT !.doc = Doc(w), !.at = "opening", !.calls = worker[w].calls + 1]
  <2>3. worker' = [worker EXCEPT ![w] = IF worker[w].calls < Cap THEN again ELSE Idle]
    BY <1>5 DEF Raise
  <2>4. worker[w].calls < Cap => again \in Sound
    BY <1>2, <2>2, JobForms
  <2> HIDE DEF again
  <2> QED
    BY <2>3, <2>4, JobForms DEF TypeInv
<1>6. ASSUME Halt(w)
      PROVE  worker' \in [Workers -> Sound]
  BY <1>6, JobForms DEF Halt, TypeInv
<1> QED
  BY <1>2, <1>3, <1>4, <1>5, <1>6 DEF Raise, Halt

\* TypeInv, with one conjunct for each variable, and the same for the next state.
LEMMA TypeParts ==
  TypeInv <=> /\ st \in [Docs -> Statuses] /\ attempts \in [Docs -> 0 .. Cap] /\ marked \in SUBSET Docs
              /\ filed \in SUBSET Docs /\ broken \in SUBSET Docs
              /\ stage \in Stages /\ queue \in SUBSET Docs /\ tried \in SUBSET Docs
              /\ returned \in SUBSET Docs
              /\ worker \in [Workers -> Sound]
              /\ breaker \in Breakers
              /\ blame \in [Docs -> 0 .. Cap] /\ combined \in SUBSET Docs
              /\ outages \in Nat /\ crashes \in Nat
BY DEF TypeInv, TypeOK, Sound

LEMMA TypeNext ==
  ASSUME st' \in [Docs -> Statuses], attempts' \in [Docs -> 0 .. Cap], marked' \in SUBSET Docs,
         filed' \in SUBSET Docs, broken' \in SUBSET Docs,
         stage' \in Stages, queue' \in SUBSET Docs, tried' \in SUBSET Docs,
         returned' \in SUBSET Docs,
         worker' \in [Workers -> Sound],
         breaker' \in Breakers,
         blame' \in [Docs -> 0 .. Cap], combined' \in SUBSET Docs,
         outages' \in Nat, crashes' \in Nat
  PROVE  TypeInv'
BY DEF TypeInv, TypeOK, Sound

\* Rows that are put back, and a status that is written.
LEMMA StatusTyped ==
  ASSUME TypeInv
  PROVE  /\ \A S \in SUBSET Docs : [d \in Docs |-> IF d \in S THEN "pending" ELSE st[d]] \in [Docs -> Statuses]
         /\ \A d \in Docs, v \in Statuses : [st EXCEPT ![d] = v] \in [Docs -> Statuses]
         /\ \A d \in Docs, n \in 0 .. Cap : [attempts EXCEPT ![d] = n] \in [Docs -> 0 .. Cap]
         /\ {"pending", "processing", "valid", "failed"} \subseteq Statuses
BY TypeParts DEF Statuses

\* The steps of the flow and a crash.
LEMMA FlowTyped ==
  ASSUME TypeInv, FlowStep \/ Crash
  PROVE  TypeInv'
<1> USE DEF rows, files, counts, history
<1>0. Reset \in Breakers /\ {"idle", "scanning", "judging", "recovering", "closing"} \subseteq Stages
  BY DEF Reset, Breakers, Stages
<1>1. \A S \in SUBSET {d \in Docs : Orphan(d)} : S \in SUBSET Docs
  OBVIOUS
<1>2. CASE SyncStart
  <2>1. st' \in [Docs -> Statuses]
    BY <1>1, <1>2, StatusTyped DEF SyncStart
  <2> QED
    BY <1>0, <1>2, <2>1, TypeParts, TypeNext DEF SyncStart
<1>3. CASE PoolEnds
  BY <1>0, <1>3, TypeParts, TypeNext DEF PoolEnds
<1>4. CASE Recover
  <2>1. st' \in [Docs -> Statuses]
    BY <1>1, <1>4, StatusTyped DEF Recover
  <2> QED
    BY <1>0, <1>4, <2>1, TypeParts, TypeNext DEF Recover
<1>5. CASE SyncEnd
  BY <1>0, <1>5, TypeParts, TypeNext DEF SyncEnd
<1>6. ASSUME NEW d \in Docs, Condemn(d)
      PROVE  TypeInv'
  BY <1>6, TypeParts, TypeNext DEF Condemn, flow
<1>7. CASE Crash
  <2>1. worker' \in [Workers -> Sound]
    BY <1>7, JobForms DEF Crash
  <2>2. blame' \in [Docs -> 0 .. Cap]
    BY <1>7, TypeParts, ReadingAssumption DEF Crash
  <2> QED
    BY <1>0, <1>7, <2>1, <2>2, TypeParts, TypeNext DEF Crash
<1> QED
  BY <1>2, <1>3, <1>4, <1>5, <1>6, <1>7 DEF FlowStep

\* The steps of a worker.
LEMMA WorkerTyped ==
  ASSUME TypeInv, NEW w \in Workers, Launch(w) \/ WorkerStep(w)
  PROVE  TypeInv'
<1> USE DEF rows, files, flow, counts, history, Elsewhere
<1>1. /\ {"opening", "claiming", "claimed", "calling", "crediting", "noting", "failing",
          "tripping", "refunding"} \subseteq Places \ {"free"}
      /\ worker[w] \in Sound /\ worker[w] \in Jobs
      /\ 0 \in 0 .. Cap
  BY TypeParts, ReadingAssumption DEF Places, Sound
<1>2. ASSUME ~At(w, "free")
      PROVE  /\ Doc(w) \in Docs
             /\ st[Doc(w)] \in Statuses /\ attempts[Doc(w)] \in 0 .. Cap
  BY <1>2, MovesTyped, TypeParts
<1>3. CASE Launch(w)
  <2>0. PICK d \in queue : worker' = [worker EXCEPT ![w] = [Idle EXCEPT !.doc = d, !.at = "launched"]]
    BY <1>3 DEF Launch
  <2>1. worker' \in [Workers -> Sound]
    <3>1. [Idle EXCEPT !.doc = d, !.at = "launched"] \in Sound
      BY JobForms, TypeParts
    <3> QED
      BY <2>0, <3>1, TypeParts
  <2> QED
    BY <1>3, <2>1, TypeParts, TypeNext DEF Launch
<1>4. CASE Enter(w)
  <2>1. worker' \in [Workers -> Sound]
    BY <1>1, <1>4, MovesTyped, JobForms, TypeParts DEF Enter, At
  <2> QED
    BY <1>4, <2>1, TypeParts, TypeNext DEF Enter
<1>5. CASE Open(w)
  <2> DEFINE d == Doc(w)
  <2>0. ~At(w, "free") /\ d \in Docs
    BY <1>2, <1>5 DEF Open, At
  <2>1. st' \in [Docs -> Statuses]
    BY <1>5, <2>0, StatusTyped, TypeParts DEF Open
  <2>2. worker' \in [Workers -> Sound] /\ returned' \in SUBSET Docs
    <3>1. CASE Return(w)
      BY <2>0, <3>1, MovesTyped
    <3>2. CASE UNCHANGED <<worker, returned>>
      BY <3>2, TypeParts
    <3>3. CASE worker' = [worker EXCEPT ![w].at = "claiming", ![w].from = st[d]] /\ UNCHANGED returned
      <4> DEFINE j == [worker[w] EXCEPT !.at = "claiming", !.from = st[d]]
      <4>1. j \in Jobs /\ j.at = "claiming" /\ j.doc = worker[w].doc
        BY <1>1, <1>2, <2>0 DEF Jobs
      <4>2. worker' = [worker EXCEPT ![w] = j]
        BY <3>3
      <4> HIDE DEF j
      <4>3. j \in Sound
        BY <2>0, <4>1, ReadingAssumption DEF Sound, Doc
      <4> QED
        BY <3>3, <4>2, <4>3, TypeParts
    <3> QED
      BY <1>5, <3>1, <3>2, <3>3 DEF Open
  <2> QED
    BY <1>5, <2>1, <2>2, TypeParts, TypeNext DEF Open
<1>6. CASE Claim(w)
  <2> DEFINE d == Doc(w)
  <2>0. ~At(w, "free") /\ d \in Docs
    BY <1>2, <1>6 DEF Claim, At
  <2>1. CASE st[d] = worker[w].from /\ attempts[d] < Cap
    <3>1. attempts[d] + 1 \in 0 .. Cap /\ attempts[d] + 1 >= 1
      BY <1>2, <2>0, <2>1, ReadingAssumption
    <3>2. attempts' = [attempts EXCEPT ![d] = attempts[d] + 1] /\ st' = [st EXCEPT ![d] = "processing"]
      BY <1>6, <2>1 DEF Claim
    <3>3. attempts' \in [Docs -> 0 .. Cap] /\ st' \in [Docs -> Statuses]
      BY <2>0, <3>1, <3>2, StatusTyped
    <3>4. worker' \in [Workers -> Sound]
      <4> DEFINE j == [worker[w] EXCEPT !.at = "claimed", !.no = attempts[d] + 1]
      <4>1. j \in Jobs /\ j.at = "claimed" /\ j.doc = worker[w].doc /\ j.no = attempts[d] + 1
        BY <1>1, <3>1 DEF Jobs
      <4>2. worker' = [worker EXCEPT ![w] = j]
        BY <1>6, <2>1 DEF Claim
      <4> HIDE DEF j
      <4>3. j \in Sound
        BY <2>0, <3>1, <4>1, ReadingAssumption DEF Sound, Doc
      <4> QED
        BY <4>2, <4>3, TypeParts
    <3> QED
      BY <1>6, <2>1, <3>3, <3>4, TypeParts, TypeNext DEF Claim
  <2>2. CASE ~(st[d] = worker[w].from /\ attempts[d] < Cap)
    <3>1. st' \in [Docs -> Statuses]
      BY <1>6, <2>0, <2>2, StatusTyped, TypeParts DEF Claim
    <3> QED
      BY <1>6, <2>0, <2>2, <3>1, MovesTyped, TypeParts, TypeNext DEF Claim
  <2> QED
    BY <2>1, <2>2
<1>7. CASE Send(w)
  <2>0. ~At(w, "free") /\ Doc(w) \in Docs
    BY <1>2, <1>7 DEF Send, At
  <2>1. st' \in [Docs -> Statuses] /\ attempts' \in [Docs -> 0 .. Cap]
    BY <1>1, <1>7, <2>0, StatusTyped, TypeParts DEF Send
  <2>2. worker[w].no >= 1
    BY <1>1, <1>7 DEF Send, At, Sound
  <2>3. worker' \in [Workers -> Sound] /\ returned' \in SUBSET Docs
    BY <1>1, <1>7, <2>0, <2>2, MovesTyped, TypeParts DEF Send
  <2> QED
    BY <1>7, <2>1, <2>3, TypeParts, TypeNext DEF Send
<1>8. ASSUME NEW answer, Answered(w, answer)
      PROVE  outages' \in Nat /\ crashes' \in Nat /\ ~At(w, "free")
  BY <1>8, TypeParts DEF Answered, At
<1>9. CASE Store(w)
  <2>0. ~At(w, "free") /\ Doc(w) \in Docs
    BY <1>2, <1>8, <1>9 DEF Store
  <2>1. st' \in [Docs -> Statuses]
    BY <1>9, <2>0, StatusTyped, TypeParts DEF Store
  <2>2. worker' \in [Workers -> Sound] /\ returned' \in SUBSET Docs
    BY <1>1, <1>9, <2>0, MovesTyped, TypeParts DEF Store
  <2>3. outages' \in Nat /\ crashes' \in Nat
    BY <1>8, <1>9 DEF Store
  <2> QED
    BY <1>9, <2>1, <2>2, <2>3, TypeParts, TypeNext DEF Store, Answered
<1>17. CASE StoreCombined(w)
  <2>0. ~At(w, "free") /\ Doc(w) \in Docs
    BY <1>2, <1>8, <1>17 DEF StoreCombined
  <2>1. st' \in [Docs -> Statuses]
    BY <1>17, <2>0, StatusTyped, TypeParts DEF StoreCombined
  <2>2. worker' \in [Workers -> Sound] /\ returned' \in SUBSET Docs
    BY <1>17, <2>0, MovesTyped, TypeParts DEF StoreCombined
  <2>3. outages' \in Nat /\ crashes' \in Nat
    BY <1>8, <1>17 DEF StoreCombined
  <2>4. combined' \in SUBSET Docs /\ marked' \in SUBSET Docs
    BY <1>17, <2>0, TypeParts DEF StoreCombined
  <2>5. filed' \in SUBSET Docs /\ broken' \in SUBSET Docs
    BY <1>17, <2>4, TypeParts DEF StoreCombined
  <2> QED
    BY <1>17, <2>1, <2>2, <2>3, <2>4, <2>5, TypeParts, TypeNext DEF StoreCombined, Answered
<1>10. CASE Credit(w)
  <2>1. breaker' \in Breakers
    BY <1>10, TypeParts DEF Credit, Breakers
  <2> QED
    BY <1>10, <2>1, MovesTyped, TypeParts, TypeNext DEF Credit, At
<1>11. CASE Excuse(w)
  <2>0. ~At(w, "free") /\ Doc(w) \in Docs
    BY <1>2, <1>8, <1>11 DEF Excuse
  <2>1. st' \in [Docs -> Statuses]
    BY <1>11, <2>0, StatusTyped DEF Excuse
  <2>2. worker[w].no - 1 \in 0 .. Cap
    BY <1>1, <1>11, ReadingAssumption DEF Excuse, Answered, At, Sound, Jobs
  <2>3. attempts' \in [Docs -> 0 .. Cap]
    BY <1>1, <1>11, <2>0, <2>2, StatusTyped DEF Excuse
  <2>4. worker' \in [Workers -> Sound] /\ returned' \in SUBSET Docs
    BY <1>1, <1>11, <2>0, MovesTyped, TypeParts DEF Excuse
  <2>5. outages' \in Nat /\ crashes' \in Nat
    BY <1>8, <1>11 DEF Excuse
  <2> QED
    BY <1>11, <2>1, <2>3, <2>4, <2>5, TypeParts, TypeNext DEF Excuse, Answered
<1>12. CASE Trip(w)
  <2>1. breaker' \in Breakers
    BY <1>12, TypeParts DEF Trip, Breakers
  <2> QED
    BY <1>12, <2>1, MovesTyped, TypeParts, TypeNext DEF Trip, At
<1>13. CASE Refute(w)
  <2>0. ~At(w, "free") /\ Doc(w) \in Docs
    BY <1>2, <1>8, <1>13 DEF Refute
  <2>1. st' \in [Docs -> Statuses] /\ attempts' \in [Docs -> 0 .. Cap]
    BY <1>1, <1>13, <2>0, StatusTyped, TypeParts DEF Refute
  <2>2. blame' \in [Docs -> 0 .. Cap]
    BY <1>13, TypeParts, ReadingAssumption DEF Refute, Blamed
  <2>3. worker' \in [Workers -> Sound] /\ returned' \in SUBSET Docs
    <3>1. CASE Halt(w)
      BY <2>0, <3>1, MovesTyped, TypeParts
    <3>2. CASE UNCHANGED returned /\ \E p \in {"noting", "failing"} : Goto(w, p)
      BY <1>1, <2>0, <3>2, MovesTyped, TypeParts
    <3> QED
      BY <1>13, <3>1, <3>2 DEF Refute
  <2>4. outages' \in Nat /\ crashes' \in Nat
    BY <1>8, <1>13 DEF Refute
  <2> QED
    BY <1>13, <2>1, <2>2, <2>3, <2>4, TypeParts, TypeNext DEF Refute, Answered
<1>14. CASE Note(w)
  <2>0. ~At(w, "free") /\ Doc(w) \in Docs
    BY <1>2, <1>14 DEF Note, At
  <2> DEFINE seen == breaker.rejected \cup {Doc(w)}
  <2>1. breaker' \in Breakers
    <3>1. seen \in SUBSET Docs /\ breaker.deferred \cup {Doc(w)} \in SUBSET Docs /\ breaker \in Breakers
      BY <2>0, TypeParts DEF Breakers
    <3> HIDE DEF seen
    <3>2. /\ [breaker EXCEPT !.deferred = breaker.deferred \cup {Doc(w)}] \in Breakers
          /\ [breaker EXCEPT !.rejected = seen] \in Breakers
          /\ [breaker EXCEPT !.rejected = seen, !.tripped = TRUE,
                             !.deferred = breaker.deferred \cup {Doc(w)}] \in Breakers
          /\ [breaker EXCEPT !.rejected = seen, !.tripped = TRUE, !.claimed = TRUE] \in Breakers
      BY <3>1 DEF Breakers
    <3> QED
      BY <1>14, <3>2 DEF Note, seen
  <2>2. worker' \in [Workers -> Sound]
    <3>1. CASE Goto(w, "failing")
      BY <1>1, <2>0, <3>1, MovesTyped
    <3>2. CASE worker' = [worker EXCEPT ![w].at = "refunding", ![w].refund = seen \cup breaker.deferred]
      <4> DEFINE j == [worker[w] EXCEPT !.at = "refunding", !.refund = seen \cup breaker.deferred]
      <4>0. seen \cup breaker.deferred \in SUBSET Docs
        BY <2>0, TypeParts DEF Breakers
      <4>1. j \in Jobs /\ j.at = "refunding" /\ j.doc = worker[w].doc
        BY <1>1, <4>0 DEF Jobs
      <4>2. worker' = [worker EXCEPT ![w] = j]
        BY <3>2
      <4> HIDE DEF j
      <4>3. j \in Sound
        BY <2>0, <4>1, ReadingAssumption DEF Sound, Doc
      <4> QED
        BY <4>2, <4>3, TypeParts
    <3> QED
      BY <1>14, <3>1, <3>2 DEF Note
  <2> QED
    BY <1>14, <2>1, <2>2, TypeParts, TypeNext DEF Note
<1>15. CASE Refund(w)
  <2>1. worker[w].refund \in SUBSET Docs
    BY <1>1 DEF Jobs
  <2>2. st' \in [Docs -> Statuses] /\ attempts' \in [Docs -> 0 .. Cap]
    BY <1>1, <1>15, <2>1, StatusTyped, TypeParts DEF Refund
  <2>3. worker' \in [Workers -> Sound] /\ returned' \in SUBSET Docs
    BY <1>15, MovesTyped, TypeParts DEF Refund, At
  <2> QED
    BY <1>15, <2>1, <2>2, <2>3, TypeParts, TypeNext DEF Refund
<1>16. CASE Fail(w)
  <2>0. ~At(w, "free") /\ Doc(w) \in Docs
    BY <1>2, <1>16 DEF Fail, At
  <2>2. st' \in [Docs -> Statuses]
    BY <1>16, <2>0, StatusTyped DEF Fail
  <2>3. worker' \in [Workers -> Sound] /\ returned' \in SUBSET Docs
    BY <1>16, <2>0, MovesTyped, TypeParts DEF Fail
  <2> QED
    BY <1>16, <2>2, <2>3, TypeParts, TypeNext DEF Fail
<1> QED
  BY <1>3, <1>4, <1>5, <1>6, <1>7, <1>9, <1>10, <1>11, <1>12, <1>13, <1>14, <1>15, <1>16, <1>17
     DEF WorkerStep

LEMMA InitTyped ==
  ASSUME Init
  PROVE  TypeInv
<1>1. worker \in [Workers -> Sound]
  BY JobForms DEF Init
<1>2. breaker \in Breakers
  BY DEF Init, Breakers, Reset
<1>3. st \in [Docs -> Statuses] /\ stage \in Stages
  BY DEF Init, Statuses, Stages
<1>4. attempts \in [Docs -> 0 .. Cap] /\ blame \in [Docs -> 0 .. Cap]
  BY ReadingAssumption DEF Init
<1>5. filed \in SUBSET Docs
  BY ReadingAssumption DEF Init
<1> QED
  BY <1>1, <1>2, <1>3, <1>4, <1>5, TypeParts DEF Init

LEMMA StepTyped ==
  ASSUME TypeInv, [Next]_vars
  PROVE  TypeInv'
<1>1. CASE UNCHANGED vars
  BY <1>1, TypeParts, TypeNext DEF vars, rows, files, flow, counts, history
<1> QED
  BY <1>1, FlowTyped, WorkerTyped DEF Next

\* Rows, attempts, the breaker and every worker keep their types; a worker on a
\* document has claimed an attempt before it sends one (extract_document).
THEOREM TypeCorrect == Spec => []TypeInv
<1>1. Init => TypeInv
  BY InitTyped
<1>2. TypeInv /\ [Next]_vars => TypeInv'
  BY StepTyped
<1> QED
  BY <1>1, <1>2, PTL DEF Spec

-----------------------------------------------------------------------------
(* One worker for a document.                                                *)

\* Where a step leaves its worker; the others are where they were.
LEMMA Moves ==
  ASSUME TypeInv, NEW w \in Workers
  PROVE  /\ \A p \in Places : Goto(w, p) =>
              /\ Doc(w)' = Doc(w) /\ At(w, p)' /\ worker'[w].no = worker[w].no
              /\ worker'[w].from = worker[w].from
              /\ \A v \in Workers \ {w} : worker'[v] = worker[v]
         /\ Return(w) => /\ worker'[w] = Idle /\ \A v \in Workers \ {w} : worker'[v] = worker[v]
                         /\ returned' \in {returned, returned \cup {Doc(w)}}
         /\ Raise(w) => /\ worker'[w] = Idle \/ (Doc(w)' = Doc(w) /\ At(w, "opening")')
                        /\ \A v \in Workers \ {w} : worker'[v] = worker[v]
                        /\ returned' = returned
         /\ Halt(w) => /\ worker'[w] = Idle /\ \A v \in Workers \ {w} : worker'[v] = worker[v]
                       /\ returned' = returned
<1>1. worker \in [Workers -> Sound] /\ worker[w] \in Jobs
  BY TypeParts DEF Sound
<1>2. ASSUME NEW p \in Places, Goto(w, p)
      PROVE  /\ Doc(w)' = Doc(w) /\ At(w, p)' /\ worker'[w].no = worker[w].no
             /\ worker'[w].from = worker[w].from
             /\ \A v \in Workers \ {w} : worker'[v] = worker[v]
  BY <1>1, <1>2 DEF Goto, Doc, At, Jobs
<1>3. ASSUME Raise(w)
      PROVE  /\ worker'[w] = Idle \/ (Doc(w)' = Doc(w) /\ At(w, "opening")')
             /\ \A v \in Workers \ {w} : worker'[v] = worker[v]
  <2> DEFINE again == [Idle EXCEPT !.doc = Doc(w), !.at = "opening", !.calls = worker[w].calls + 1]
  <2>1. again.doc = Doc(w) /\ again.at = "opening"
    BY DEF Idle
  <2>2. worker' = [worker EXCEPT ![w] = IF worker[w].calls < Cap THEN again ELSE Idle]
    BY <1>3 DEF Raise
  <2> HIDE DEF again
  <2> QED
    BY <1>1, <2>1, <2>2 DEF Doc, At
<1> QED
  BY <1>1, <1>2, <1>3 DEF Return, Raise, Halt

\* A step leaves its worker on its document or frees it, and only the return of
\* a call adds to `returned`; a file that is quarantined with it held several documents.
LEMMA StaysOrLeaves ==
  ASSUME TypeInv, NEW w \in Workers, WorkerStep(w)
  PROVE  /\ ~At(w, "free")
         /\ \A v \in Workers \ {w} : worker'[v] = worker[v]
         /\ \/ Doc(w)' = Doc(w) /\ returned' = returned
            \/ worker'[w] = Idle /\ returned' \in {returned, returned \cup {Doc(w)}}
         /\ UNCHANGED <<stage, queue>>
         /\ combined \subseteq combined' /\ broken' \subseteq broken \cup combined'
<1> USE DEF rows, files, flow, counts, history, Elsewhere
<1>0. {"opening", "claiming", "claimed", "calling", "crediting", "noting", "failing",
       "tripping", "refunding"} \subseteq Places
  BY DEF Places
<1>1. worker \in [Workers -> Sound] /\ worker[w] \in Jobs
  BY TypeParts DEF Sound
<1>2. CASE Enter(w)
  BY <1>0, <1>1, <1>2, Moves DEF Enter, At
<1>3. CASE Open(w)
  <2>1. CASE worker' = [worker EXCEPT ![w].at = "claiming", ![w].from = st[Doc(w)]] /\ UNCHANGED returned
    <3> DEFINE j == [worker[w] EXCEPT !.at = "claiming", !.from = st[Doc(w)]]
    <3>1. j.doc = worker[w].doc
      BY <1>1 DEF Jobs
    <3>2. worker' = [worker EXCEPT ![w] = j]
      BY <2>1
    <3> HIDE DEF j
    <3> QED
      BY <1>1, <1>3, <2>1, <3>1, <3>2 DEF Open, Doc, At
  <2>2. CASE Return(w) \/ UNCHANGED <<worker, returned>>
    BY <1>3, <2>2, Moves DEF Open, At, Doc
  <2> QED
    BY <1>3, <2>1, <2>2 DEF Open
<1>4. CASE Claim(w)
  <2>1. CASE worker' = [worker EXCEPT ![w].at = "claimed", ![w].no = attempts[Doc(w)] + 1] /\ UNCHANGED returned
    <3> DEFINE j == [worker[w] EXCEPT !.at = "claimed", !.no = attempts[Doc(w)] + 1]
    <3>1. j.doc = worker[w].doc
      BY <1>1 DEF Jobs
    <3>2. worker' = [worker EXCEPT ![w] = j]
      BY <2>1
    <3> HIDE DEF j
    <3> QED
      BY <1>1, <1>4, <2>1, <3>1, <3>2 DEF Claim, Doc, At
  <2>2. CASE Return(w)
    BY <1>4, <2>2, Moves DEF Claim, At
  <2> QED
    BY <1>4, <2>1, <2>2 DEF Claim
<1>5. CASE Send(w)
  BY <1>0, <1>5, Moves DEF Send, At
<1>6. CASE Store(w)
  BY <1>0, <1>6, Moves DEF Store, Answered, At
<1>14. CASE StoreCombined(w)
  BY <1>14, Moves DEF StoreCombined, Answered, At
<1>7. CASE Credit(w)
  BY <1>0, <1>7, Moves DEF Credit, At
<1>8. CASE Excuse(w)
  BY <1>0, <1>8, Moves DEF Excuse, Answered, At
<1>9. CASE Trip(w)
  BY <1>0, <1>9, Moves DEF Trip, At
<1>10. CASE Refute(w)
  <2>1. CASE Halt(w)
    BY <1>10, <2>1, Moves DEF Refute, Answered, At
  <2>2. CASE UNCHANGED returned /\ \E p \in {"noting", "failing"} : Goto(w, p)
    BY <1>0, <1>10, <2>2, Moves DEF Refute, Answered, At
  <2> QED
    BY <1>10, <2>1, <2>2 DEF Refute
<1>11. CASE Note(w)
  <2>1. CASE Goto(w, "failing")
    BY <1>0, <1>11, <2>1, Moves DEF Note, At
  <2>2. CASE \E S : worker' = [worker EXCEPT ![w].at = "refunding", ![w].refund = S]
    <3>1. PICK S : worker' = [worker EXCEPT ![w].at = "refunding", ![w].refund = S]
      BY <2>2
    <3> DEFINE j == [worker[w] EXCEPT !.at = "refunding", !.refund = S]
    <3>2. j.doc = worker[w].doc
      BY <1>1 DEF Jobs
    <3>3. worker' = [worker EXCEPT ![w] = j]
      BY <3>1
    <3> HIDE DEF j
    <3> QED
      BY <1>1, <1>11, <3>2, <3>3 DEF Note, Doc, At
  <2> QED
    BY <1>11, <2>1, <2>2 DEF Note
<1>12. CASE Refund(w)
  BY <1>12, Moves DEF Refund, At
<1>13. CASE Fail(w)
  BY <1>13, Moves DEF Fail, At
<1> QED
  BY <1>2, <1>3, <1>4, <1>5, <1>6, <1>7, <1>8, <1>9, <1>10, <1>11, <1>12, <1>13, <1>14
     DEF WorkerStep

\* OneReader, for a worker that is not free.
LEMMA Alone ==
  ASSUME TypeInv, OneReader, NEW w \in Workers, ~At(w, "free")
  PROVE  /\ Doc(w) \in Docs /\ Reading
         /\ Doc(w) \notin queue \cup returned
         /\ \A v \in Workers \ {w} : Doc(v) # Doc(w)
         /\ Doc(w) # NoDoc
<1>1. Doc(w) \in Docs
  BY MovesTyped
<1>2. Doc(w) # NoDoc
  BY <1>1, ReadingAssumption
<1> QED
  BY <1>1, <1>2 DEF OneReader

LEMMA OneReaderKept ==
  ASSUME TypeInv, OneReader, Next
  PROVE  OneReader'
<1>0. /\ worker \in [Workers -> Sound] /\ Idle.doc = NoDoc /\ Idle.at = "free"
      /\ NoDoc \notin Docs /\ queue \subseteq Docs /\ returned \subseteq Docs
      /\ stage \in Stages
      /\ \A v \in Workers : At(v, "free") <=> Doc(v) = NoDoc
  <2>1. \A v \in Workers : At(v, "free") <=> Doc(v) = NoDoc
    BY TypeParts DEF At, Doc, Sound
  <2> QED
    BY <2>1, TypeParts, ReadingAssumption DEF Idle
<1>1. CASE SyncStart
  <2>1. queue' \subseteq Docs /\ returned' = {} /\ Reading' /\ worker' = worker
    BY <1>1, TypeParts DEF SyncStart, Reading
  <2>2. \A v \in Workers : Doc(v)' = NoDoc
    BY <1>0, <1>1, <2>1 DEF SyncStart, OneReader, Reading, Doc
  <2> QED
    BY <1>0, <2>1, <2>2 DEF OneReader
<1>2. CASE Recover
  <2>1. queue' \subseteq Docs /\ returned' = {} /\ Reading' /\ worker' = worker
    BY <1>2 DEF Recover, Reading
  <2>2. \A v \in Workers : Doc(v)' = NoDoc
    BY <1>0, <1>2, <2>1 DEF Recover, OneReader, Reading, Doc
  <2> QED
    BY <1>0, <2>1, <2>2 DEF OneReader
<1>3. CASE PoolEnds
  <2>1. queue' = {} /\ returned' = returned /\ worker' = worker
    BY <1>3 DEF PoolEnds
  <2>2. \A v \in Workers : Doc(v)' = NoDoc /\ At(v, "free")'
    BY <1>0, <1>3, <2>1 DEF PoolEnds, Doc, At
  <2> QED
    BY <1>0, <2>1, <2>2 DEF OneReader
<1>4. CASE SyncEnd
  <2>1. queue' = queue /\ returned' = returned /\ worker' = worker
    BY <1>4 DEF SyncEnd
  <2>2. ~Reading
    BY <1>4 DEF SyncEnd, Reading
  <2> QED
    BY <1>0, <2>1, <2>2 DEF OneReader, Doc, At
<1>5. ASSUME NEW d \in Docs, Condemn(d)
      PROVE  OneReader'
  BY <1>5 DEF Condemn, OneReader, flow, Doc, At, Reading
<1>6. CASE Crash
  <2>1. \A v \in Workers : Doc(v)' = NoDoc /\ At(v, "free")'
    BY <1>0, <1>6 DEF Crash, Doc, At
  <2> QED
    BY <1>0, <1>6, <2>1 DEF Crash, OneReader
<1>7. ASSUME NEW w \in Workers, Launch(w)
      PROVE  OneReader'
  <2>1. PICK d \in queue : /\ queue' = queue \ {d}
                           /\ worker' = [worker EXCEPT ![w] = [Idle EXCEPT !.doc = d, !.at = "launched"]]
    BY <1>7 DEF Launch
  <2> DEFINE j == [Idle EXCEPT !.doc = d, !.at = "launched"]
  <2>2. j.doc = d
    BY DEF Idle
  <2>3. worker' = [worker EXCEPT ![w] = j]
    BY <2>1
  <2> HIDE DEF j
  <2>4. Doc(w)' = d /\ \A v \in Workers \ {w} : Doc(v)' = Doc(v)
    BY <1>0, <2>2, <2>3 DEF Doc
  <2>5. returned' = returned /\ stage' = stage /\ Reading'
    BY <1>7 DEF Launch, Reading
  <2>6. \A u, v \in Workers : Doc(u)' = Doc(v)' /\ Doc(u)' # NoDoc => u = v
    BY <2>4 DEF OneReader
  <2>7. \A v \in Workers : Doc(v)' \notin queue' \cup returned'
    BY <2>1, <2>4, <2>5 DEF OneReader
  <2> QED
    BY <2>1, <2>5, <2>6, <2>7 DEF OneReader
<1>8. ASSUME NEW w \in Workers, WorkerStep(w)
      PROVE  OneReader'
  <2>1. /\ ~At(w, "free")
        /\ \A v \in Workers \ {w} : worker'[v] = worker[v]
        /\ \/ Doc(w)' = Doc(w) /\ returned' = returned
           \/ worker'[w] = Idle /\ returned' \in {returned, returned \cup {Doc(w)}}
        /\ stage' = stage /\ queue' = queue
    BY <1>8, StaysOrLeaves
  <2>2. /\ Doc(w) \in Docs /\ Reading
        /\ Doc(w) \notin queue \cup returned
        /\ \A v \in Workers \ {w} : Doc(v) # Doc(w)
    BY <2>1, Alone
  <2>3. \A v \in Workers \ {w} : Doc(v)' = Doc(v)
    BY <2>1 DEF Doc
  <2>4. Doc(w)' \in {Doc(w), NoDoc}
    BY <1>0, <2>1 DEF Doc
  <2>5. \A u, v \in Workers : Doc(u)' = Doc(v)' /\ Doc(u)' # NoDoc => u = v
    BY <2>2, <2>3, <2>4 DEF OneReader
  <2>6. \A v \in Workers : Doc(v)' \notin queue' \cup returned'
    <3>1. CASE Doc(w)' = Doc(w) /\ returned' = returned
      BY <2>1, <2>3, <3>1 DEF OneReader
    <3>2. CASE worker'[w] = Idle /\ returned' \in {returned, returned \cup {Doc(w)}}
      <4>1. Doc(w)' = NoDoc
        BY <1>0, <3>2 DEF Doc
      <4> QED
        BY <1>0, <2>1, <2>2, <2>3, <3>2, <4>1 DEF OneReader
    <3> QED
      BY <2>1, <3>1, <3>2
  <2>7. queue' \cap returned' = {} /\ Reading'
    BY <2>1, <2>2 DEF OneReader, Reading
  <2> QED
    BY <2>5, <2>6, <2>7 DEF OneReader
<1> QED
  BY <1>1, <1>2, <1>3, <1>4, <1>5, <1>6, <1>7, <1>8 DEF Next, FlowStep

\* No document is read by two workers of the pool, nor given to one again once
\* its call has returned in this pass (run_extraction and the pool).
THEOREM OneReaderEach == Spec => [](TypeInv /\ OneReader)
<1>1. Init => TypeInv /\ OneReader
  <2> SUFFICES ASSUME Init
               PROVE  TypeInv /\ OneReader
    OBVIOUS
  <2>2. TypeInv
    BY InitTyped
  <2>3. \A v \in Workers : Doc(v) = NoDoc /\ At(v, "free")
    BY DEF Init, Doc, At, Idle
  <2> QED
    BY <2>2, <2>3 DEF Init, OneReader
<1>2. TypeInv /\ OneReader /\ [Next]_vars => (TypeInv /\ OneReader)'
  <2> SUFFICES ASSUME TypeInv, OneReader, [Next]_vars
               PROVE  TypeInv' /\ OneReader'
    OBVIOUS
  <2>1. TypeInv'
    BY StepTyped
  <2>2. CASE Next
    BY <2>1, <2>2, OneReaderKept
  <2>3. CASE UNCHANGED vars
    BY <2>1, <2>3 DEF vars, flow, OneReader, Doc, At, Reading
  <2> QED
    BY <2>2, <2>3, <2>1
<1> QED
  BY <1>1, <1>2, PTL DEF Spec

-----------------------------------------------------------------------------
(* What is held against a document.                                          *)

\* The row of a document that has a worker.
LEMMA OwnRow ==
  ASSUME TypeInv, OneReader, ChargeInv, NEW w \in Workers, ~At(w, "free")
  PROVE  /\ Doc(w) \in Docs
         /\ st[Doc(w)] \in Statuses /\ attempts[Doc(w)] \in 0 .. Cap /\ blame[Doc(w)] \in 0 .. Cap
         /\ worker[w].no \in 0 .. Cap
         /\ Knows(w)
         /\ worker[w].at \notin {"claimed", "calling"} =>
              Covered(Doc(w)) \/ st[Doc(w)] = "valid"
<1>1. Doc(w) \in Docs /\ \A v \in Workers \ {w} : Doc(v) # Doc(w)
  BY Alone
<1>2. worker[w] \in Jobs
  BY TypeParts DEF Sound
<1>3. worker[w].at \notin {"claimed", "calling"} => ~UnderWay(Doc(w))
  BY <1>1 DEF UnderWay
<1>4. worker[w].no \in 0 .. Cap
  BY <1>2 DEF Jobs
<1> QED
  BY <1>1, <1>3, <1>4, TypeParts DEF ChargeInv, ChargedForCause

\* It is enough to look at the worker that moves and the row it moves on.
LEMMA OwnStep ==
  ASSUME TypeInv, TypeInv', OneReader, ChargeInv, NEW w \in Workers, WorkerStep(w),
         \A c \in Docs \ {Doc(w)} : st'[c] = st[c] /\ attempts'[c] = attempts[c] /\ blame'[c] = blame[c],
         blame[Doc(w)] <= blame'[Doc(w)],
         \/ returned' = returned
         \/ st'[Doc(w)] = "failed" => attempts'[Doc(w)] = Cap \/ Doc(w) \in combined',
         Knows(w)',
         \/ attempts'[Doc(w)] <= blame'[Doc(w)] \/ Doc(w) \in combined'
         \/ st'[Doc(w)] = "valid"
         \/ st'[Doc(w)] = "processing" /\ Doc(w)' = Doc(w) /\ worker'[w].at \in {"claimed", "calling"}
  PROVE  ChargeInv'
<1> DEFINE d == Doc(w)
<1>1. /\ ~At(w, "free")
      /\ \A v \in Workers \ {w} : worker'[v] = worker[v]
      /\ returned' \in {returned, returned \cup {d}}
      /\ combined \subseteq combined' /\ broken' \subseteq broken \cup combined'
  BY StaysOrLeaves
<1>2. /\ d \in Docs /\ d \notin returned
      /\ \A v \in Workers \ {w} : Doc(v) # d
  BY <1>1, Alone
<1>3. ChargedForCause'
  <2> SUFFICES ASSUME NEW c \in Docs
               PROVE  (Covered(c) \/ st[c] = "valid" \/ (st[c] = "processing" /\ UnderWay(c)))'
    BY DEF ChargedForCause
  <2>1. CASE c = d
    BY <2>1 DEF UnderWay, Covered
  <2>2. CASE c # d
    <3>1. UnderWay(c) => UnderWay(c)'
      BY <1>1, <2>2 DEF UnderWay, Doc
    <3> QED
      BY <1>1, <2>2, <3>1 DEF ChargeInv, ChargedForCause, Covered
  <2> QED
    BY <2>1, <2>2
<1>4. \A v \in Workers : Knows(v)'
  <2> SUFFICES ASSUME NEW v \in Workers, v # w
               PROVE  Knows(v)'
    OBVIOUS
  <2>1. worker'[v] = worker[v] /\ Doc(v)' = Doc(v) /\ Doc(v) # d
    BY <1>1, <1>2 DEF Doc
  <2>2. Knows(v)
    BY DEF ChargeInv
  <2>3. CASE At(v, "free")
    BY <2>1, <2>3 DEF Knows, At
  <2>4. CASE ~At(v, "free")
    <3>1. Doc(v) \in Docs
      BY <2>4, MovesTyped
    <3> QED
      BY <1>1, <2>1, <2>2, <3>1 DEF Knows, At, Covered
  <2> QED
    BY <2>3, <2>4
<1>5. ReturnedIsSpent'
  BY <1>1, <1>2, TypeParts DEF ChargeInv, ReturnedIsSpent
<1>6. CondemnedForCause'
  <2>1. \A c \in Docs : blame[c] \in 0 .. Cap /\ blame'[c] \in 0 .. Cap
    BY TypeParts DEF TypeInv, TypeOK
  <2>2. \A c \in Docs : blame[c] = Cap => blame'[c] = Cap
    BY <2>1, <1>2, ReadingAssumption
  <2> QED
    BY <1>1, <2>2, TypeParts DEF ChargeInv, CondemnedForCause
<1> QED
  BY <1>3, <1>4, <1>5, <1>6 DEF ChargeInv

\* A worker without an attempt or a verdict knows nothing.
LEMMA KnowsNothing ==
  ASSUME NEW w \in Workers,
         worker'[w].at \in {"free", "launched", "opening", "tripping", "refunding"}
  PROVE  Knows(w)'
BY DEF Knows, At

\* Each step of a worker.
LEMMA ChargeOfStep ==
  ASSUME TypeInv, TypeInv', OneReader, ChargeInv, NEW w \in Workers, WorkerStep(w)
  PROVE  ChargeInv'
<1> USE DEF rows, history, Elsewhere, Covered
<1> DEFINE d == Doc(w)
<1>0. /\ {"opening", "claiming", "claimed", "calling", "crediting", "noting", "failing",
          "tripping", "refunding"} \subseteq Places
      /\ Idle.at = "free"
      /\ worker \in [Workers -> Sound] /\ worker[w] \in Jobs
      /\ st \in [Docs -> Statuses] /\ attempts \in [Docs -> 0 .. Cap] /\ blame \in [Docs -> 0 .. Cap]
  BY TypeParts DEF Places, Idle, Sound
<1>1. ~At(w, "free") /\ combined \subseteq combined'
  BY StaysOrLeaves
<1>2. /\ d \in Docs
      /\ st[d] \in Statuses /\ attempts[d] \in 0 .. Cap /\ blame[d] \in 0 .. Cap
      /\ worker[w].no \in 0 .. Cap
      /\ Knows(w)
      /\ worker[w].at \notin {"claimed", "calling"} => Covered(d) \/ st[d] = "valid"
      /\ combined \subseteq combined'
  BY <1>1, OwnRow
<1>3. Return(w) \/ Halt(w) => Knows(w)'
  BY <1>0, Moves, KnowsNothing
<1>4. Raise(w) => Knows(w)'
  BY <1>0, Moves, KnowsNothing DEF At
<1>5. UNCHANGED <<worker, st, attempts, blame>> => Knows(w)'
  BY <1>2 DEF Knows, Doc, At
<1> HIDE DEF d
<1>6. CASE Enter(w)
  <2>1. Knows(w)'
    BY <1>0, <1>6, Moves, KnowsNothing DEF Enter, At
  <2>2. Covered(d) \/ st[d] = "valid"
    BY <1>2, <1>6 DEF Enter, At
  <2> QED
    BY <1>2, <1>6, <2>1, <2>2, OwnStep DEF Enter, flow, d
<1>7. CASE Open(w)
  <2>0. Covered(d) \/ st[d] = "valid"
    BY <1>2, <1>7 DEF Open, At
  <2>1. CASE Return(w) /\ UNCHANGED st /\ st[d] # "failed"
    BY <1>2, <1>3, <1>7, <2>0, <2>1, OwnStep DEF Open, d
  <2>2. CASE st' = [st EXCEPT ![d] = "pending"] /\ UNCHANGED <<worker, returned>> /\ st[d] = "processing"
    <3>1. Knows(w)'
      BY <1>7, <2>2, KnowsNothing DEF Open, At
    <3> QED
      BY <1>0, <1>2, <1>7, <2>0, <2>2, <3>1, OwnStep DEF Open, d
  <2>3. CASE Return(w) /\ st' = [st EXCEPT ![d] = "failed"] /\ attempts[d] >= Cap /\ st[d] # "valid"
    <3>1. attempts[d] = Cap
      BY <1>2, <2>3, ReadingAssumption
    <3> QED
      BY <1>0, <1>2, <1>3, <1>7, <2>0, <2>3, <3>1, OwnStep DEF Open, d
  <2>4. CASE /\ st[d] \notin {"valid", "processing"}
             /\ worker' = [worker EXCEPT ![w].at = "claiming", ![w].from = st[d]]
             /\ UNCHANGED <<st, returned>>
    <3> DEFINE j == [worker[w] EXCEPT !.at = "claiming", !.from = st[d]]
    <3>1. j.doc = worker[w].doc /\ j.at = "claiming" /\ j.from = st[d]
      BY <1>0 DEF Jobs
    <3>2. worker' = [worker EXCEPT ![w] = j]
      BY <2>4
    <3> HIDE DEF j
    <3>3. worker'[w].doc = d /\ worker'[w].at = "claiming" /\ worker'[w].from = st[d]
      BY <1>0, <3>1, <3>2 DEF Doc, d
    <3>4. st[d] \in {"pending", "failed"}
      BY <1>2, <2>4 DEF Statuses
    <3>5. Knows(w)'
      BY <2>4, <3>3, <3>4 DEF Knows, Doc, At
    <3> QED
      BY <1>2, <1>7, <2>0, <2>4, <3>5, OwnStep DEF Open, d
  <2> QED
    BY <1>7, <2>1, <2>2, <2>3, <2>4 DEF Open, d
<1>8. CASE Claim(w)
  <2>0. /\ st[d] \in {worker[w].from, "pending"} /\ worker[w].from \in {"pending", "failed"}
        /\ Covered(d)
    BY <1>2, <1>8 DEF Claim, At, Knows, d
  <2>1. CASE st[d] = worker[w].from /\ attempts[d] < Cap
    <3> DEFINE j == [worker[w] EXCEPT !.at = "claimed", !.no = attempts[d] + 1]
    <3>1. j.doc = worker[w].doc /\ j.at = "claimed" /\ j.no = attempts[d] + 1
      BY <1>0 DEF Jobs
    <3>2. worker' = [worker EXCEPT ![w] = j]
      BY <1>8, <2>1 DEF Claim, d
    <3> HIDE DEF j
    <3>3. worker'[w].doc = d /\ worker'[w].at = "claimed" /\ worker'[w].no = attempts[d] + 1
      BY <1>0, <3>1, <3>2 DEF Doc, d
    <3>4. st'[d] = "processing" /\ attempts'[d] = attempts[d] + 1 /\ blame' = blame
      BY <1>0, <1>2, <1>8, <2>1 DEF Claim, d
    <3>5. Knows(w)'
      BY <1>2, <2>0, <3>3, <3>4, ReadingAssumption DEF Knows, Doc, At
    <3>6. Doc(w)' = d /\ worker'[w].at \in {"claimed", "calling"}
      BY <3>3 DEF Doc
    <3>7. \A c \in Docs \ {d} : st'[c] = st[c] /\ attempts'[c] = attempts[c]
      BY <1>0, <1>8, <2>1 DEF Claim, d
    <3>8. returned' = returned
      BY <1>8, <2>1 DEF Claim, d
    <3> QED
      BY <1>2, <3>4, <3>5, <3>6, <3>7, <3>8, OwnStep DEF d
  <2>2. CASE ~(st[d] = worker[w].from /\ attempts[d] < Cap)
    <3>1. /\ st' = IF st[d] # "valid" /\ attempts[d] >= Cap
                   THEN [st EXCEPT ![d] = "failed"] ELSE st
          /\ Return(w) /\ UNCHANGED <<attempts, blame>>
      BY <1>8, <2>2 DEF Claim, d
    <3>2. \A c \in Docs \ {d} : st'[c] = st[c]
      BY <1>0, <3>1
    <3>3. st'[d] = "failed" => attempts'[d] = Cap
      BY <1>0, <1>2, <2>0, <2>2, <3>1, ReadingAssumption
    <3> QED
      BY <1>2, <1>3, <2>0, <3>1, <3>2, <3>3, OwnStep DEF d
  <2> QED
    BY <2>1, <2>2
<1>9. CASE Send(w)
  <2>0. /\ st[d] \in {"processing", "pending"} /\ (st[d] # "processing" => attempts[d] = 0)
        /\ blame' = blame
    BY <1>2, <1>9 DEF Send, At, Knows, d
  <2>1. CASE breaker.tripped
    <3>1. st'[d] = "pending" /\ attempts'[d] = 0
      BY <1>0, <1>2, <1>9, <2>0, <2>1 DEF Send, d
    <3>2. \A c \in Docs \ {d} : st'[c] = st[c] /\ attempts'[c] = attempts[c]
      BY <1>0, <1>9, <2>1 DEF Send, d
    <3>3. Knows(w)'
      BY <1>3, <1>9, <2>1 DEF Send
    <3> QED
      BY <1>2, <2>0, <3>1, <3>2, <3>3, OwnStep DEF d
  <2>2. CASE ~breaker.tripped
    <3>1. Goto(w, "calling") /\ UNCHANGED <<st, attempts, returned>>
      BY <1>9, <2>2 DEF Send
    <3>2. Doc(w)' = d /\ worker'[w].at = "calling" /\ worker'[w].no = worker[w].no
      BY <1>0, <3>1, Moves DEF At, d
    <3>3. Knows(w)'
      BY <1>2, <1>9, <2>0, <3>1, <3>2 DEF Send, Knows, At, d
    <3>4. attempts'[d] <= blame'[d] \/ d \in combined' \/ (st'[d] = "processing" /\ worker'[w].at \in {"claimed", "calling"})
      BY <1>2, <2>0, <3>1, <3>2
    <3> QED
      BY <1>2, <2>0, <3>1, <3>2, <3>3, <3>4, OwnStep DEF d
  <2> QED
    BY <2>1, <2>2
<1>10. ASSUME At(w, "calling")
       PROVE  /\ st[d] \in {"processing", "pending"}
              /\ st[d] # "processing" => attempts[d] = 0
              /\ attempts[d] <= worker[w].no
              /\ worker[w].no <= blame[d] + 1 \/ d \in combined
              /\ worker[w].no >= 1
  <2>1. worker[w].no >= 1
    BY <1>0, <1>10 DEF At, Sound
  <2> QED
    BY <1>2, <1>10, <2>1 DEF At, Knows, d
<1>11. CASE Store(w)
  <2>0. At(w, "calling") /\ UNCHANGED <<attempts, blame>>
    BY <1>11 DEF Store, Answered
  <2>1. CASE st[d] = "processing"
    <3>1. st' = [st EXCEPT ![d] = "valid"] /\ Goto(w, "crediting") /\ UNCHANGED returned
      BY <1>11, <2>1 DEF Store, d
    <3>2. st'[d] = "valid" /\ \A c \in Docs \ {d} : st'[c] = st[c]
      BY <1>0, <1>2, <3>1
    <3>3. Doc(w)' = d /\ worker'[w].at = "crediting"
      BY <1>0, <3>1, Moves DEF At, d
    <3>4. Knows(w)'
      BY <3>2, <3>3 DEF Knows, At
    <3> QED
      BY <1>2, <2>0, <3>1, <3>2, <3>4, OwnStep DEF d
  <2>2. CASE st[d] # "processing"
    <3>1. Return(w) /\ UNCHANGED st
      BY <1>11, <2>2 DEF Store, d
    <3> QED
      BY <1>2, <1>3, <1>10, <2>0, <2>2, <3>1, OwnStep DEF d
  <2> QED
    BY <2>1, <2>2
<1>12. CASE Credit(w)
  <2>1. st[d] \in {"valid", "pending"} /\ (Covered(d) \/ st[d] = "valid")
    BY <1>2, <1>12 DEF Credit, At, Knows, d
  <2> QED
    BY <1>2, <1>3, <1>12, <2>1, OwnStep DEF Credit, d
<1>13. CASE Excuse(w)
  <2>0. At(w, "calling") /\ returned' = returned /\ blame' = blame
    BY <1>13 DEF Excuse, Answered, Raise
  <2>1. st'[d] = "pending" /\ \A c \in Docs \ {d} : st'[c] = st[c] /\ attempts'[c] = attempts[c]
    BY <1>0, <1>2, <1>13 DEF Excuse, d
  <2>2. attempts'[d] \in {0, worker[w].no - 1}
    BY <1>0, <1>2, <1>13 DEF Excuse, d
  <2>3. attempts'[d] <= blame'[d] \/ d \in combined'
    BY <1>2, <1>10, <2>0, <2>2, ReadingAssumption
  <2>4. CASE Raise(w)
    BY <1>2, <1>4, <2>0, <2>1, <2>3, <2>4, OwnStep DEF d
  <2>5. CASE Goto(w, "tripping")
    <3>1. Knows(w)'
      BY <1>0, <2>5, Moves, KnowsNothing DEF At
    <3> QED
      BY <1>2, <2>0, <2>1, <2>3, <3>1, OwnStep DEF d
  <2> QED
    BY <1>13, <2>4, <2>5 DEF Excuse
<1>14. CASE Trip(w)
  <2>1. Covered(d) \/ st[d] = "valid"
    BY <1>2, <1>14 DEF Trip, At
  <2> QED
    BY <1>2, <1>3, <1>14, <2>1, OwnStep DEF Trip, Halt, d
<1>15. CASE Refute(w)
  <2>0. At(w, "calling") /\ returned' = returned
    BY <1>15 DEF Refute, Answered, Halt
  <2>1. CASE breaker.tripped
    <3>1. st' = [st EXCEPT ![d] = "pending"] /\ attempts' = [attempts EXCEPT ![d] = 0]
          /\ Halt(w) /\ blame' = blame
      BY <1>15, <2>1 DEF Refute, d
    <3>2. st'[d] = "pending" /\ attempts'[d] = 0
          /\ \A c \in Docs \ {d} : st'[c] = st[c] /\ attempts'[c] = attempts[c]
      BY <1>0, <1>2, <3>1
    <3> QED
      BY <1>2, <1>3, <2>0, <3>1, <3>2, OwnStep DEF d
  <2>2. CASE ~breaker.tripped
    <3>1. /\ \E p \in {"noting", "failing"} : Goto(w, p)
          /\ blame' = Blamed(d) /\ UNCHANGED <<st, attempts>>
      BY <1>15, <2>2 DEF Refute, d
    <3>2. /\ blame'[d] = IF blame[d] < Cap THEN blame[d] + 1 ELSE blame[d]
          /\ \A c \in Docs \ {d} : blame'[c] = blame[c]
      BY <1>0, <1>2, <3>1 DEF Blamed
    <3>3. blame[d] <= blame'[d] /\ (attempts'[d] <= blame'[d] \/ d \in combined')
      BY <1>2, <1>10, <2>0, <3>1, <3>2, ReadingAssumption
    <3>4. Doc(w)' = d /\ worker'[w].at \in {"noting", "failing"} /\ worker'[w].no = worker[w].no
      BY <1>0, <3>1, Moves DEF At, d
    <3>5. Knows(w)'
      BY <3>3, <3>4 DEF Knows, At, d
    <3> QED
      BY <1>2, <2>0, <3>1, <3>2, <3>3, <3>5, OwnStep DEF d
  <2> QED
    BY <2>1, <2>2
<1>16. CASE Note(w)
  <2>0. Covered(d) /\ UNCHANGED <<st, attempts, blame, returned>>
    BY <1>2, <1>16 DEF Note, At, Knows, d
  <2>1. Knows(w)'
    <3>1. CASE Goto(w, "failing")
      <4>1. Doc(w)' = d /\ worker'[w].at = "failing" /\ worker'[w].no = worker[w].no
        BY <1>0, <3>1, Moves DEF At, d
      <4> QED
        BY <1>2, <2>0, <4>1 DEF Knows, At
    <3>2. CASE \E S : worker' = [worker EXCEPT ![w].at = "refunding", ![w].refund = S]
      <4>1. PICK S : worker' = [worker EXCEPT ![w].at = "refunding", ![w].refund = S]
        BY <3>2
      <4> DEFINE j == [worker[w] EXCEPT !.at = "refunding", !.refund = S]
      <4>2. j.at = "refunding"
        BY <1>0 DEF Jobs
      <4>3. worker' = [worker EXCEPT ![w] = j]
        BY <4>1
      <4> HIDE DEF j
      <4> QED
        BY <1>0, <4>2, <4>3, KnowsNothing
    <3> QED
      BY <1>16, <3>1, <3>2 DEF Note
  <2> QED
    BY <1>2, <2>0, <2>1, OwnStep DEF d
<1>17. CASE Refund(w)
  <2> DEFINE S == worker[w].refund
  <2>0. /\ \A c \in Docs : st'[c] = IF c \in S THEN "pending" ELSE st[c]
        /\ \A c \in Docs : attempts'[c] = IF c \in S THEN 0 ELSE attempts[c]
        /\ UNCHANGED <<blame, returned>> /\ worker[w].at = "refunding"
    BY <1>17 DEF Refund, Halt, At
  <2>1. (\A v \in Workers \ {w} : worker'[v] = worker[v]) /\ UNCHANGED <<broken, combined>>
    BY <1>17, StaysOrLeaves DEF Refund, files
  <2> HIDE DEF S
  <2>2. ChargedForCause'
    <3> SUFFICES ASSUME NEW c \in Docs
                 PROVE  (Covered(c) \/ st[c] = "valid" \/ (st[c] = "processing" /\ UnderWay(c)))'
      BY DEF ChargedForCause
    <3>1. CASE c \in S
      BY <1>0, <2>0, <3>1, ReadingAssumption DEF Covered
    <3>2. CASE c \notin S
      <4>1. UnderWay(c) => UnderWay(c)'
        BY <2>0, <2>1 DEF UnderWay, Doc
      <4> QED
        BY <2>0, <2>1, <3>2, <4>1 DEF ChargeInv, ChargedForCause
    <3> QED
      BY <3>1, <3>2
  <2>3. ASSUME NEW v \in Workers, v # w
        PROVE  Knows(v)'
    <3>1. worker'[v] = worker[v] /\ Doc(v)' = Doc(v)
      BY <2>1, <2>3 DEF Doc
    <3>2. Knows(v)
      BY DEF ChargeInv
    <3>3. CASE At(v, "free")
      BY <3>1, <3>3, KnowsNothing DEF At
    <3>4. CASE ~At(v, "free")
      <4>1. Doc(v) \in Docs
        BY <3>4, MovesTyped
      <4>2. worker[v].no \in 0 .. Cap
        BY TypeParts DEF Sound, Jobs
      <4>5. blame[Doc(v)] \in 0 .. Cap
        BY <1>0, <4>1
      <4>3. CASE Doc(v) \in S
        BY <2>0, <2>1, <3>1, <3>2, <4>1, <4>2, <4>3, <4>5, ReadingAssumption DEF Knows, At
      <4>4. CASE Doc(v) \notin S
        BY <2>0, <2>1, <3>1, <3>2, <4>1, <4>4 DEF Knows, At
      <4> QED
        BY <4>3, <4>4
    <3> QED
      BY <3>3, <3>4
  <2>4. Knows(w)'
    BY <1>3, <1>17 DEF Refund
  <2>5. ReturnedIsSpent'
    BY <2>0, <2>1, TypeParts DEF ChargeInv, ReturnedIsSpent
  <2>6. CondemnedForCause'
    BY <2>0, <2>1 DEF ChargeInv, CondemnedForCause
  <2> QED
    BY <2>2, <2>3, <2>4, <2>5, <2>6 DEF ChargeInv
<1>18. CASE Fail(w)
  <2>0. Covered(d) /\ UNCHANGED <<attempts, blame, returned>>
    BY <1>2, <1>18 DEF Fail, At, Knows, Raise, d
  <2>1. \A c \in Docs \ {d} : st'[c] = st[c]
    BY <1>0, <1>18 DEF Fail, d
  <2>2. Knows(w)'
    BY <1>4, <1>18 DEF Fail
  <2> QED
    BY <1>2, <2>0, <2>1, <2>2, OwnStep DEF d
<1>19. CASE StoreCombined(w)
  <2>0. At(w, "calling") /\ UNCHANGED <<attempts, blame>> /\ Return(w)
    BY <1>19 DEF StoreCombined, Answered
  <2>1. CASE st[d] = "processing"
    <3>1. d \in combined' /\ \E v \in {"valid", "failed"} : st' = [st EXCEPT ![d] = v]
      BY <1>19, <2>1 DEF StoreCombined, d
    <3>2. \A c \in Docs \ {d} : st'[c] = st[c]
      BY <1>0, <3>1
    <3> QED
      BY <1>2, <1>3, <2>0, <3>1, <3>2, OwnStep DEF d
  <2>2. CASE st[d] # "processing"
    <3>1. UNCHANGED st
      BY <1>19, <2>2 DEF StoreCombined, d
    <3> QED
      BY <1>2, <1>3, <1>10, <2>0, <2>2, <3>1, OwnStep DEF d
  <2> QED
    BY <2>1, <2>2
<1> QED
  BY <1>6, <1>7, <1>8, <1>9, <1>11, <1>12, <1>13, <1>14, <1>15, <1>16, <1>17, <1>18, <1>19
     DEF WorkerStep

\* With no worker on any document, what a reclaim does to orphaned claims keeps
\* every charge.
LEMMA ChargeOfReclaim ==
  ASSUME TypeInv, OneReader, ChargeInv, ~Reading,
         NEW S \in SUBSET {d \in Docs : Orphan(d)},
         st' = [d \in Docs |-> IF d \in S THEN "pending" ELSE st[d]],
         returned' = {}, UNCHANGED <<attempts, history, broken, worker>>
  PROVE  ChargeInv'
<1> USE DEF history, Covered
<1>1. \A v \in Workers : worker[v].at = "free"
  BY DEF OneReader, At
<1>2. \A c \in Docs : Covered(c) \/ st[c] = "valid"
  BY <1>1 DEF ChargeInv, ChargedForCause, UnderWay
<1>3. ChargedForCause'
  <2> SUFFICES ASSUME NEW c \in Docs
               PROVE  (Covered(c) \/ st[c] = "valid")'
    BY DEF ChargedForCause
  <2>1. c \in S => st[c] = "processing"
    BY DEF Orphan
  <2> QED
    BY <1>2, <2>1
<1>4. \A v \in Workers : Knows(v)'
  BY <1>1, KnowsNothing
<1> QED
  BY <1>3, <1>4 DEF ChargeInv, ReturnedIsSpent, CondemnedForCause

\* Each step of the flow, the start of a job, and a crash.
LEMMA ChargeOfFlow ==
  ASSUME TypeInv, TypeInv', OneReader, ChargeInv,
         FlowStep \/ (\E w \in Workers : Launch(w)) \/ Crash
  PROVE  ChargeInv'
<1> USE DEF rows, files, counts, history, Covered
<1>0. /\ worker \in [Workers -> Sound] /\ Idle.at = "free"
      /\ st \in [Docs -> Statuses] /\ attempts \in [Docs -> 0 .. Cap] /\ blame \in [Docs -> 0 .. Cap]
      /\ broken \subseteq Docs /\ returned \subseteq Docs
  BY TypeParts DEF Idle
<1>1. ASSUME UNCHANGED <<st, attempts, history, returned, broken, worker>>
      PROVE  ChargeInv'
  BY <1>1 DEF ChargeInv, ChargedForCause, UnderWay, Knows, ReturnedIsSpent, CondemnedForCause,
     Doc, At
<1>2. CASE SyncStart
  <2>1. PICK S \in SUBSET {d \in Docs : Orphan(d)} :
          st' = [d \in Docs |-> IF d \in S THEN "pending" ELSE st[d]]
    BY <1>2 DEF SyncStart
  <2> QED
    BY <1>2, <2>1, ChargeOfReclaim DEF SyncStart, Reading
<1>3. CASE Recover
  <2>1. PICK S \in SUBSET {d \in Docs : Orphan(d)} :
          st' = [d \in Docs |-> IF d \in S THEN "pending" ELSE st[d]]
    BY <1>3 DEF Recover
  <2> QED
    BY <1>3, <2>1, ChargeOfReclaim DEF Recover, Reading
<1>4. CASE PoolEnds
  BY <1>1, <1>4 DEF PoolEnds
<1>5. CASE SyncEnd
  BY <1>1, <1>5 DEF SyncEnd
<1>6. ASSUME NEW d \in Docs, Condemn(d)
      PROVE  ChargeInv'
  <2>1. UNCHANGED <<st, attempts, history, returned, worker>> /\ broken' = broken \cup {d}
    BY <1>6 DEF Condemn, flow
  <2>2. d \in returned /\ st[d] = "failed"
    BY <1>6 DEF Condemn, Doomed
  <2>3. blame[d] \in 0 .. Cap /\ (d \in combined \/ (attempts[d] = Cap /\ attempts[d] <= blame[d]))
    BY <1>0, <2>2 DEF ChargeInv, ReturnedIsSpent, ChargedForCause
  <2>4. blame[d] = Cap \/ d \in combined
    BY <2>3, ReadingAssumption
  <2> QED
    BY <2>1, <2>4 DEF ChargeInv, ChargedForCause, UnderWay, Knows, ReturnedIsSpent,
       CondemnedForCause, Doc, At
<1>7. ASSUME NEW w \in Workers, Launch(w)
      PROVE  ChargeInv'
  <2>1. PICK d \in queue : worker' = [worker EXCEPT ![w] = [Idle EXCEPT !.doc = d, !.at = "launched"]]
    BY <1>7 DEF Launch
  <2> DEFINE j == [Idle EXCEPT !.doc = d, !.at = "launched"]
  <2>2. j.at = "launched"
    BY DEF Idle
  <2>3. worker' = [worker EXCEPT ![w] = j]
    BY <2>1
  <2> HIDE DEF j
  <2>4. worker'[w].at = "launched" /\ worker[w].at = "free" /\ \A v \in Workers \ {w} : worker'[v] = worker[v]
    BY <1>0, <1>7, <2>2, <2>3 DEF Launch, At
  <2>5. UNCHANGED <<st, attempts, history, returned, broken>>
    BY <1>7 DEF Launch
  <2>6. \A c \in Docs : UnderWay(c) => UnderWay(c)'
    BY <2>4 DEF UnderWay, Doc
  <2>7. ChargedForCause'
    BY <2>5, <2>6 DEF ChargeInv, ChargedForCause
  <2>8. \A v \in Workers \ {w} : Knows(v)'
    BY <2>4, <2>5 DEF ChargeInv, Knows, Doc, At
  <2>9. Knows(w)'
    BY <2>4, KnowsNothing
  <2> QED
    BY <2>5, <2>7, <2>8, <2>9 DEF ChargeInv, ReturnedIsSpent, CondemnedForCause
<1>8. CASE Crash
  <2>1. \A v \in Workers : worker'[v].at = "free"
    BY <1>0, <1>8 DEF Crash
  <2>2. UNCHANGED <<st, attempts, broken, combined>> /\ returned' = {}
    BY <1>8 DEF Crash
  <2>3. \A c \in Docs : blame'[c] = IF st[c] = "processing" /\ ~Orphan(c) /\ blame[c] < Cap
                                    THEN blame[c] + 1 ELSE blame[c]
    BY <1>8 DEF Crash
  <2>4. ASSUME NEW c \in Docs
        PROVE  (Covered(c) \/ st[c] = "valid")'
    <3>0. attempts[c] \in 0 .. Cap /\ blame[c] \in 0 .. Cap
      BY <1>0
    <3>1. CASE Covered(c) \/ st[c] = "valid"
      BY <2>2, <2>3, <3>0, <3>1, ReadingAssumption
    <3>2. CASE st[c] = "processing" /\ UnderWay(c)
      <4>1. PICK v \in Workers : Doc(v) = c /\ worker[v].at \in {"claimed", "calling"}
        BY <3>2 DEF UnderWay
      <4>2. worker[v].no \in 0 .. Cap
        BY <1>0 DEF Sound, Jobs
      <4>3. Knows(v)
        BY DEF ChargeInv
      <4>4. attempts[c] <= worker[v].no /\ (worker[v].no <= blame[c] + 1 \/ c \in combined)
        BY <4>1, <4>3 DEF Knows
      <4>5. ~Orphan(c)
        BY <4>1 DEF Orphan
      <4> QED
        BY <2>2, <2>3, <3>0, <3>2, <4>2, <4>4, <4>5, ReadingAssumption
    <3> QED
      BY <3>1, <3>2 DEF ChargeInv, ChargedForCause
  <2>5. \A v \in Workers : Knows(v)'
    BY <2>1, KnowsNothing
  <2>6. CondemnedForCause'
    BY <1>0, <2>2, <2>3, ReadingAssumption DEF ChargeInv, CondemnedForCause
  <2> QED
    BY <2>2, <2>4, <2>5, <2>6 DEF ChargeInv, ChargedForCause, ReturnedIsSpent
<1> QED
  BY <1>2, <1>3, <1>4, <1>5, <1>6, <1>7, <1>8 DEF FlowStep

\* A document is quarantined only after as many answers about itself, or crashes
\* while it was being read, as it has attempts (extract_document,
\* _quarantine_broken_document), or because its file was read as several documents
\* (_handle_combined): an attempt is charged before the call and given
\* back when the fault turns out to be the provider's, by this worker or, for a
\* refusal, by the one that trips the breaker.
THEOREM CondemnedIsForCause == Spec => []CondemnedForCause
<1>1. Init => ChargeInv
  <2> SUFFICES ASSUME Init
               PROVE  ChargeInv
    OBVIOUS
  <2>1. \A v \in Workers : worker[v].at = "free"
    BY DEF Init, Idle
  <2>2. \A w \in Workers : Knows(w)
    BY <2>1 DEF Knows, At
  <2> QED
    BY <2>2 DEF Init, ChargeInv, ChargedForCause, Covered, ReturnedIsSpent,
       CondemnedForCause
<1>2. TypeInv /\ OneReader /\ TypeInv' /\ ChargeInv /\ [Next]_vars => ChargeInv'
  <2> SUFFICES ASSUME TypeInv, OneReader, TypeInv', ChargeInv, [Next]_vars
               PROVE  ChargeInv'
    OBVIOUS
  <2>1. CASE UNCHANGED vars
    BY <2>1 DEF vars, rows, files, flow, history, ChargeInv, ChargedForCause, Covered, UnderWay,
                Knows, ReturnedIsSpent, CondemnedForCause, Doc, At
  <2> QED
    BY <2>1, ChargeOfStep, ChargeOfFlow DEF Next
<1>3. Spec => [](TypeInv /\ OneReader)
  BY OneReaderEach
<1>4. ChargeInv => CondemnedForCause
  BY DEF ChargeInv
<1> QED
  BY <1>1, <1>2, <1>3, <1>4, PTL DEF Spec

=============================================================================
