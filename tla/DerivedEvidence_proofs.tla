------------------------ MODULE DerivedEvidence_proofs ------------------------
(***************************************************************************)
(* Proofs about the tasks of retracted evidence, for any number of workers *)
(* and tasks, any batch size and any number of faults.                     *)
(***************************************************************************)
EXTENDS DerivedEvidence, TLAPS

WorkerRec ==
  [pc : {"idle"}] \cup [pc : {"stage"}, batch : Batches]
    \cup [pc : {"record"}, batch : Batches, task : Task, fragment : Nat]
    \cup [pc : {"failed"}, task : Task]

(* The fragments ingested under the keys were drawn before: that keeps the *)
(* next one apart from them.                                               *)
DrawnBefore == \A t \in Task : ingest[t] <= drawn

IInv == TypeOK /\ OneReplacement /\ CompletedIsRecorded /\ DrawnBefore

-----------------------------------------------------------------------------
LEMMA WorkerForms ==
  ASSUME NEW r \in WorkerRec
  PROVE  /\ r.pc = "stage" => r.batch \in SUBSET Task
         /\ r.pc = "record" => r.batch \in SUBSET Task /\ r.task \in Task /\ r.fragment \in Nat
         /\ r.pc = "failed" => r.task \in Task
BY DEF WorkerRec, Batches

LEMMA TypeWorker == TypeOK <=>
  /\ status \in [Task -> {"none", "pending", "processing", "completed"}]
  /\ lapsed \in [Task -> BOOLEAN]
  /\ ingest \in [Task -> Nat] /\ recorded \in [Task -> Nat] /\ drawn \in Nat
  /\ worker \in [Worker -> WorkerRec]
  /\ faults \in 0..MaxFaults
BY DEF TypeOK, WorkerRec

LEMMA PutType ==
  ASSUME worker \in [Worker -> WorkerRec], NEW w \in Worker, NEW r \in WorkerRec, Put(w, r)
  PROVE  /\ worker' \in [Worker -> WorkerRec]
         /\ worker'[w] = r
         /\ \A v \in Worker : v # w => worker'[v] = worker[v]
BY DEF Put

LEMMA FaultType == ASSUME faults \in 0..MaxFaults, Fault PROVE faults' \in 0..MaxFaults
BY LimitAssumption DEF Fault

LEMMA InitIInv == Init => IInv
<1> SUFFICES ASSUME Init PROVE IInv
  OBVIOUS
<1>1. TypeOK
  BY LimitAssumption DEF Init, TypeOK, Idle
<1> QED
  BY <1>1 DEF Init, IInv, OneReplacement, CompletedIsRecorded, DrawnBefore, Idle

-----------------------------------------------------------------------------
LEMMA EnqueueIInv == ASSUME IInv, NEW w \in Worker, NEW S \in SUBSET Task, Enqueue(w, S) PROVE IInv'
<1> DEFINE r == [pc |-> "stage", batch |-> S]
<1>1. r \in WorkerRec /\ r.pc = "stage"
  BY DEF WorkerRec, Batches
<1>2. Put(w, r)
  BY DEF Enqueue
<1> HIDE DEF r
<1>3. worker \in [Worker -> WorkerRec] /\ status \in [Task -> {"none", "pending", "processing", "completed"}]
  BY TypeWorker DEF IInv
<1>4. /\ worker' \in [Worker -> WorkerRec] /\ worker'[w] = r
      /\ \A v \in Worker : v # w => worker'[v] = worker[v]
  BY <1>1, <1>2, <1>3, PutType
<1>5. TypeOK'
  BY <1>3, <1>4 DEF IInv, TypeOK, WorkerRec, Enqueue
<1>6. OneReplacement'
  BY <1>1, <1>4 DEF IInv, OneReplacement, Enqueue
<1>7. CompletedIsRecorded'
  BY <1>3 DEF IInv, CompletedIsRecorded, Enqueue
<1> QED
  BY <1>5, <1>6, <1>7 DEF IInv, DrawnBefore, Enqueue

LEMMA ClaimIInv == ASSUME IInv, NEW w \in Worker, NEW S \in SUBSET Task, Claim(w, S) PROVE IInv'
<1> DEFINE r == [pc |-> "stage", batch |-> S]
<1>1. r \in WorkerRec /\ r.pc = "stage"
  BY DEF WorkerRec, Batches
<1>2. Put(w, r)
  BY DEF Claim
<1> HIDE DEF r
<1>3. worker \in [Worker -> WorkerRec] /\ status \in [Task -> {"none", "pending", "processing", "completed"}]
  BY TypeWorker DEF IInv
<1>4. /\ worker' \in [Worker -> WorkerRec] /\ worker'[w] = r
      /\ \A v \in Worker : v # w => worker'[v] = worker[v]
  BY <1>1, <1>2, <1>3, PutType
<1>5. TypeOK'
  BY <1>3, <1>4 DEF IInv, TypeOK, WorkerRec, Claim
<1>6. OneReplacement'
  BY <1>1, <1>4 DEF IInv, OneReplacement, Claim
<1>7. CompletedIsRecorded'
  BY <1>3 DEF IInv, CompletedIsRecorded, Claim, Claimable
<1> QED
  BY <1>5, <1>6, <1>7 DEF IInv, DrawnBefore, Claim

LEMMA IngestIInv == ASSUME IInv, NEW w \in Worker, NEW t \in Task, Ingest(w, t) PROVE IInv'
<1> DEFINE f == Ingested(t)
           r == [pc |-> "record", batch |-> worker[w].batch, task |-> t, fragment |-> f]
           x == [pc |-> "failed", task |-> t]
<1>1. /\ worker \in [Worker -> WorkerRec] /\ ingest \in [Task -> Nat] /\ drawn \in Nat
      /\ recorded \in [Task -> Nat] /\ faults \in 0..MaxFaults
  BY TypeWorker DEF IInv
<1>2. f \in Nat /\ f # 0 /\ (ingest[t] = 0 => f = drawn + 1) /\ (ingest[t] # 0 => f = ingest[t])
  BY <1>1 DEF Ingested
<1>3. /\ drawn' = IF f > drawn THEN f ELSE drawn
      /\ ingest' = [ingest EXCEPT ![t] = f]
      /\ (Put(w, r) /\ UNCHANGED faults) \/ (Put(w, x) /\ Fault)
      /\ UNCHANGED <<status, lapsed, recorded>>
  BY DEF Ingest
<1> HIDE DEF f
<1>4. worker[w] \in WorkerRec /\ worker[w].pc = "stage"
  BY <1>1 DEF Ingest
<1>5. worker[w].batch \in SUBSET Task
  BY <1>4, WorkerForms
<1>6. r \in WorkerRec /\ x \in WorkerRec
  BY <1>2, <1>5 DEF WorkerRec, Batches
<1>7. /\ r.pc = "record" /\ r.task = t /\ r.fragment = f /\ x.pc = "failed"
  OBVIOUS
<1> HIDE DEF r, x
<1>8. PICK q \in {r, x} : Put(w, q)
  BY <1>3
<1>9. /\ worker' \in [Worker -> WorkerRec] /\ worker'[w] = q
      /\ \A v \in Worker : v # w => worker'[v] = worker[v]
  BY <1>1, <1>6, <1>8, PutType
<1>10. faults' \in 0..MaxFaults
  BY <1>1, <1>3, FaultType
<1>11. /\ ingest' \in [Task -> Nat] /\ drawn' \in Nat
       /\ ingest'[t] = f /\ \A u \in Task : u # t => ingest'[u] = ingest[u]
  BY <1>1, <1>2, <1>3
<1>12. TypeOK'
  BY <1>3, <1>9, <1>10, <1>11 DEF IInv, TypeOK, WorkerRec
<1>13. DrawnBefore'
  BY <1>1, <1>2, <1>3, <1>11 DEF IInv, DrawnBefore
<1>14. ASSUME NEW v \in Worker, worker'[v].pc = "record"
       PROVE  worker'[v].fragment = ingest'[worker'[v].task] /\ worker'[v].fragment # 0
  <2>1. CASE v = w
    BY <2>1, <1>14, <1>2, <1>7, <1>8, <1>9, <1>11
  <2>2. CASE v # w
    <3>1. worker'[v] = worker[v] /\ worker[v] \in WorkerRec
      BY <2>2, <1>1, <1>9
    <3>2. worker[v].task \in Task
      BY <3>1, <1>14, WorkerForms
    <3>3. worker[v].fragment = ingest[worker[v].task] /\ worker[v].fragment # 0
      BY <3>1, <1>14 DEF IInv, OneReplacement
    <3> QED
      BY <3>1, <3>2, <3>3, <1>2, <1>11
  <2> QED
    BY <2>1, <2>2
<1>15. \A u \in Task : recorded'[u] \in {0, ingest'[u]}
  BY <1>1, <1>2, <1>3, <1>11 DEF IInv, OneReplacement
<1>16. \A u, v \in Task : u # v /\ ingest'[u] # 0 => ingest'[u] # ingest'[v]
  BY <1>1, <1>2, <1>11 DEF IInv, OneReplacement, DrawnBefore
<1>17. OneReplacement'
  BY <1>14, <1>15, <1>16 DEF OneReplacement
<1>18. CompletedIsRecorded'
  BY <1>3 DEF IInv, CompletedIsRecorded
<1> QED
  BY <1>12, <1>13, <1>17, <1>18 DEF IInv

LEMMA RecordIInv == ASSUME IInv, NEW w \in Worker, Record(w) PROVE IInv'
<1> DEFINE t == worker[w].task
           rest == worker[w].batch \ {t}
           s == [pc |-> "stage", batch |-> rest]
           x == [pc |-> "failed", task |-> t]
<1>1. /\ worker \in [Worker -> WorkerRec] /\ ingest \in [Task -> Nat] /\ drawn \in Nat
      /\ recorded \in [Task -> Nat] /\ faults \in 0..MaxFaults /\ lapsed \in [Task -> BOOLEAN]
      /\ status \in [Task -> {"none", "pending", "processing", "completed"}]
  BY TypeWorker DEF IInv
<1>2. worker[w] \in WorkerRec /\ worker[w].pc = "record"
  BY <1>1 DEF Record
<1>3. t \in Task /\ rest \in SUBSET Task /\ worker[w].fragment \in Nat
  BY <1>2, WorkerForms
<1>4. worker[w].fragment = ingest[t] /\ worker[w].fragment # 0
  BY <1>2 DEF IInv, OneReplacement
<1>5. /\ recorded' = [recorded EXCEPT ![t] = IF @ = 0 THEN worker[w].fragment ELSE @]
      /\ status' = [status EXCEPT ![t] = "completed"]
      /\ lapsed' = [lapsed EXCEPT ![t] = FALSE]
      /\ UNCHANGED <<ingest, drawn>>
  BY DEF Record, Recorded
<1>6. (\E q \in {Idle, s, x} : Put(w, q)) /\ (UNCHANGED faults \/ Fault)
  BY DEF Record, NextTask
<1>7. /\ \A q \in {Idle, s, x} : q \in WorkerRec /\ q.pc # "record"
  BY <1>3 DEF WorkerRec, Batches, Idle
<1> HIDE DEF t, rest, s, x
<1>8. PICK q \in {Idle, s, x} : Put(w, q)
  BY <1>6
<1>9. /\ worker' \in [Worker -> WorkerRec] /\ worker'[w] = q
      /\ \A v \in Worker : v # w => worker'[v] = worker[v]
  BY <1>1, <1>7, <1>8, PutType
<1>10. faults' \in 0..MaxFaults
  BY <1>1, <1>6, FaultType
<1>11. /\ recorded'[t] = ingest[t] /\ \A u \in Task : u # t => recorded'[u] = recorded[u]
       /\ recorded' \in [Task -> Nat]
  BY <1>1, <1>3, <1>4, <1>5 DEF IInv, OneReplacement
<1>12. TypeOK'
  BY <1>1, <1>3, <1>5, <1>9, <1>10, <1>11 DEF TypeOK, WorkerRec
<1>13. OneReplacement'
  BY <1>3, <1>5, <1>7, <1>9, <1>11 DEF IInv, OneReplacement
<1>14. CompletedIsRecorded'
  BY <1>1, <1>3, <1>4, <1>5, <1>11 DEF IInv, CompletedIsRecorded
<1> QED
  BY <1>5, <1>12, <1>13, <1>14 DEF IInv, DrawnBefore

LEMMA StageErrorIInv ==
  ASSUME IInv, NEW w \in Worker, NEW t \in Task, StageError(w, t) PROVE IInv'
<1> DEFINE x == [pc |-> "failed", task |-> t]
<1>1. worker \in [Worker -> WorkerRec] /\ faults \in 0..MaxFaults
  BY TypeWorker DEF IInv
<1>2. Put(w, x) /\ x \in WorkerRec /\ x.pc = "failed"
  BY DEF StageError, WorkerRec
<1> HIDE DEF x
<1>3. /\ worker' \in [Worker -> WorkerRec] /\ worker'[w] = x
      /\ \A v \in Worker : v # w => worker'[v] = worker[v]
  BY <1>1, <1>2, PutType
<1>4. faults' \in 0..MaxFaults
  BY <1>1, FaultType DEF StageError
<1>5. TypeOK'
  BY <1>3, <1>4 DEF IInv, TypeOK, WorkerRec, StageError
<1>6. OneReplacement'
  BY <1>2, <1>3 DEF IInv, OneReplacement, StageError
<1> QED
  BY <1>5, <1>6 DEF IInv, CompletedIsRecorded, DrawnBefore, StageError

LEMMA CrashIInv == ASSUME IInv, NEW w \in Worker, Crash(w) PROVE IInv'
<1>1. worker \in [Worker -> WorkerRec] /\ faults \in 0..MaxFaults
  BY TypeWorker DEF IInv
<1>2. Put(w, Idle) /\ Idle \in WorkerRec /\ Idle.pc = "idle"
  BY DEF Crash, WorkerRec, Idle
<1>3. /\ worker' \in [Worker -> WorkerRec] /\ worker'[w] = Idle
      /\ \A v \in Worker : v # w => worker'[v] = worker[v]
  BY <1>1, <1>2, PutType
<1>4. faults' \in 0..MaxFaults
  BY <1>1, FaultType DEF Crash
<1>5. TypeOK'
  BY <1>3, <1>4 DEF IInv, TypeOK, WorkerRec, Crash
<1>6. OneReplacement'
  BY <1>2, <1>3 DEF IInv, OneReplacement, Crash
<1> QED
  BY <1>5, <1>6 DEF IInv, CompletedIsRecorded, DrawnBefore, Crash

LEMMA RecordFailureIInv == ASSUME IInv, NEW w \in Worker, RecordFailure(w) PROVE IInv'
<1>1. /\ worker \in [Worker -> WorkerRec] /\ lapsed \in [Task -> BOOLEAN]
      /\ status \in [Task -> {"none", "pending", "processing", "completed"}]
  BY TypeWorker DEF IInv
<1>2. Put(w, Idle) /\ Idle \in WorkerRec /\ Idle.pc = "idle"
  BY DEF RecordFailure, WorkerRec, Idle
<1>3. /\ worker' \in [Worker -> WorkerRec] /\ worker'[w] = Idle
      /\ \A v \in Worker : v # w => worker'[v] = worker[v]
  BY <1>1, <1>2, PutType
<1>4. worker[w].task \in Task
  BY <1>1, WorkerForms DEF RecordFailure
<1>5. /\ status' \in [Task -> {"none", "pending", "processing", "completed"}]
      /\ lapsed' \in [Task -> BOOLEAN]
      /\ \A t \in Task : status'[t] = "completed" <=> status[t] = "completed"
  BY <1>1, <1>4 DEF RecordFailure, Failable, FailedStatus
<1>6. TypeOK'
  BY <1>3, <1>5 DEF IInv, TypeOK, WorkerRec, RecordFailure
<1>7. OneReplacement'
  BY <1>2, <1>3 DEF IInv, OneReplacement, RecordFailure
<1> QED
  BY <1>5, <1>6, <1>7 DEF IInv, CompletedIsRecorded, DrawnBefore, RecordFailure

LEMMA LeasePassesIInv == ASSUME IInv, NEW t \in Task, LeasePasses(t) PROVE IInv'
BY DEF IInv, TypeOK, OneReplacement, CompletedIsRecorded, DrawnBefore, LeasePasses

LEMMA NextIInv == ASSUME IInv, [Next]_vars PROVE IInv'
<1>1. CASE UNCHANGED vars
  BY <1>1 DEF IInv, TypeOK, OneReplacement, CompletedIsRecorded, DrawnBefore, vars
<1>2. ASSUME NEW w \in Worker, NEW S \in SUBSET Task, Enqueue(w, S) \/ Claim(w, S) PROVE IInv'
  BY <1>2, EnqueueIInv, ClaimIInv
<1>3. ASSUME NEW w \in Worker, Stage(w) \/ Crash(w) \/ \E t \in Task : StageError(w, t) PROVE IInv'
  BY <1>3, IngestIInv, RecordIInv, RecordFailureIInv, CrashIInv, StageErrorIInv DEF Stage
<1> QED
  BY <1>1, <1>2, <1>3, LeasePassesIInv DEF Next

LEMMA Inductive == Spec => []IInv
BY InitIInv, NextIInv, PTL DEF Spec

-----------------------------------------------------------------------------
(* The variables keep their types, whichever tasks are claimed and however *)
(* their staging fails.                                                    *)
THEOREM TypeCorrect == Spec => []TypeOK
BY Inductive, PTL DEF IInv

(* Overlapping attempts of a task come to one fragment, which no other     *)
(* task has, so that StageConflictDerivedEvidence never meets a derivation *)
(* with another fragment.                                                  *)
THEOREM ReplacementIsUnique == Spec => []OneReplacement
BY Inductive, PTL DEF IInv

(* A task is completed exactly when its replacement is recorded: no late   *)
(* RecordConflictDerivedEvidenceFailure and no claim reopens it.           *)
THEOREM CompletionIsRecorded == Spec => []CompletedIsRecorded
BY Inductive, PTL DEF IInv
=============================================================================
