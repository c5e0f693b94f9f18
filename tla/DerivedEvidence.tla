---------------------------- MODULE DerivedEvidence ----------------------------
(***************************************************************************)
(* The tasks that a conflict resolution leaves behind: for every piece of  *)
(* evidence it retracts, a deletion-only fragment is ingested and recorded *)
(* as its replacement.  The worker that commits a resolution stages its    *)
(* tasks at once, without a claim; what it leaves is claimed in batches,   *)
(* under a lease, by the next review runs.  Staging is two transactions:   *)
(* the ingest, kept apart by an idempotency key, and the record.  No lease *)
(* is looked at by either of them, nor by the record of a failure.         *)
(***************************************************************************)
EXTENDS Naturals, FiniteSets

CONSTANTS Worker,
          Task,       \* a task per conflict and retracted fragment
          Limit,      \* conflict review batch size
          MaxFaults   \* bound of errors and crashes

ASSUME LimitAssumption == Limit \in Nat \ {0} /\ MaxFaults \in Nat
ASSUME TaskAssumption == IsFiniteSet(Task)

VARIABLES
  status,    \* of relationship_conflict_derived_evidence_tasks
  lapsed,    \* whether lease_until has passed
  ingest,    \* the fragment ingested under the key of each task, 0 without
  recorded,  \* replacement_fragment_id of the derivation, 0 without
  drawn,     \* fragments ingested so far
  worker,    \* what each worker is doing
  faults

vars == <<status, lapsed, ingest, recorded, drawn, worker, faults>>

Idle == [pc |-> "idle"]

Init ==
  /\ status = [t \in Task |-> "none"]
  /\ lapsed = [t \in Task |-> FALSE]
  /\ ingest = [t \in Task |-> 0] /\ recorded = [t \in Task |-> 0]
  /\ drawn = 0
  /\ worker = [w \in Worker |-> Idle]
  /\ faults = 0

Fault == faults < MaxFaults /\ faults' = faults + 1

Put(w, r) == worker' = [worker EXCEPT ![w] = r]

(* enqueueConflictDerivedEvidenceTasks in the commit of a resolution, which *)
(* goes on to stage them.                                                  *)
Enqueue(w, S) ==
  /\ worker[w].pc = "idle"
  /\ S # {} /\ \A t \in S : status[t] = "none"
  /\ status' = [t \in Task |-> IF t \in S THEN "pending" ELSE status[t]]
  /\ Put(w, [pc |-> "stage", batch |-> S])
  /\ UNCHANGED <<lapsed, ingest, recorded, drawn, faults>>

\* Variant: only tasks that nobody holds are claimed.
ClaimablePending == {t \in Task : status[t] = "pending"}
Claimable == {t \in Task : status[t] = "pending" \/ (status[t] = "processing" /\ lapsed[t])}

(* ClaimConflictDerivedEvidenceTasks, passing over locked rows *)
Claim(w, S) ==
  /\ worker[w].pc = "idle"
  /\ S # {} /\ S \subseteq Claimable /\ Cardinality(S) <= Limit
  /\ status' = [t \in Task |-> IF t \in S THEN "processing" ELSE status[t]]
  /\ lapsed' = [t \in Task |-> IF t \in S THEN FALSE ELSE lapsed[t]]
  /\ Put(w, [pc |-> "stage", batch |-> S])
  /\ UNCHANGED <<ingest, recorded, drawn, faults>>

\* Variant: every attempt ingests a fragment of its own.
IngestedAnew(t) == drawn + 1
(* insertKnowledgeIngest under the key of the task, or the fragment that   *)
(* was inserted under it before.                                           *)
Ingested(t) == IF ingest[t] = 0 THEN drawn + 1 ELSE ingest[t]

(* commitDerivedEvidenceIngest; its answer may be lost. *)
Ingest(w, t) ==
  /\ worker[w].pc = "stage" /\ t \in worker[w].batch
  /\ drawn' = IF Ingested(t) > drawn THEN Ingested(t) ELSE drawn
  /\ ingest' = [ingest EXCEPT ![t] = Ingested(t)]
  /\ \/ /\ Put(w, [pc |-> "record", batch |-> worker[w].batch,
                   task |-> t, fragment |-> Ingested(t)])
        /\ UNCHANGED faults
     \/ Put(w, [pc |-> "failed", task |-> t]) /\ Fault
  /\ UNCHANGED <<status, lapsed, recorded>>

(* The next task of the batch; after the last one the worker is free to    *)
(* claim another batch.                                                    *)
NextTask(w) ==
  LET rest == worker[w].batch \ {worker[w].task} IN
  IF rest = {} THEN Put(w, Idle)
  ELSE Put(w, [pc |-> "stage", batch |-> rest])

(* The derivation is inserted unless there is one. *)
Recorded(w) == [recorded EXCEPT ![worker[w].task] = IF @ = 0 THEN worker[w].fragment ELSE @]

(* The second transaction of StageConflictDerivedEvidence: it fails unless *)
(* the derivation names the fragment of this attempt.  Its answer may be   *)
(* lost.                                                                   *)
Record(w) ==
  /\ worker[w].pc = "record"
  /\ Recorded(w)[worker[w].task] = worker[w].fragment
  /\ recorded' = Recorded(w)
  /\ status' = [status EXCEPT ![worker[w].task] = "completed"]
  /\ lapsed' = [lapsed EXCEPT ![worker[w].task] = FALSE]
  /\ \/ NextTask(w) /\ UNCHANGED faults
     \/ Put(w, [pc |-> "failed", task |-> worker[w].task]) /\ Fault
  /\ UNCHANGED <<ingest, drawn>>

(* Either transaction fails without effect. *)
StageError(w, t) ==
  /\ \/ worker[w].pc = "stage" /\ t \in worker[w].batch
     \/ worker[w].pc = "record" /\ t = worker[w].task
  /\ Fault
  /\ Put(w, [pc |-> "failed", task |-> t])
  /\ UNCHANGED <<status, lapsed, ingest, recorded, drawn>>

Failable(t) == status[t] # "completed"

FailedStatus == "pending"

(* RecordConflictDerivedEvidenceFailure; the rest of the batch is left. *)
RecordFailure(w) ==
  /\ worker[w].pc = "failed"
  /\ LET t == worker[w].task IN
     IF Failable(t)
     THEN status' = [status EXCEPT ![t] = FailedStatus] /\ lapsed' = [lapsed EXCEPT ![t] = FALSE]
     ELSE UNCHANGED <<status, lapsed>>
  /\ Put(w, Idle)
  /\ UNCHANGED <<ingest, recorded, drawn, faults>>

(* The process ends, or the failure itself cannot be recorded. *)
Crash(w) ==
  /\ worker[w].pc # "idle"
  /\ Fault
  /\ Put(w, Idle)
  /\ UNCHANGED <<status, lapsed, ingest, recorded, drawn>>

(* The lease of a claimed task passes, at work or not. *)
LeasePasses(t) ==
  /\ status[t] = "processing" /\ ~lapsed[t]
  /\ lapsed' = [lapsed EXCEPT ![t] = TRUE]
  /\ UNCHANGED <<status, ingest, recorded, drawn, worker, faults>>

-----------------------------------------------------------------------------
Stage(w) == (\E t \in Task : Ingest(w, t)) \/ Record(w) \/ RecordFailure(w)

Next ==
  \/ \E w \in Worker, S \in SUBSET Task : Enqueue(w, S) \/ Claim(w, S)
  \/ \E w \in Worker : Stage(w) \/ Crash(w) \/ \E t \in Task : StageError(w, t)
  \/ \E t \in Task : LeasePasses(t)

Spec == Init /\ [][Next]_vars

(* A worker that stages goes on, leases pass, and later runs claim what is *)
(* claimable, oldest first.                                                *)
Fairness ==
  /\ \A w \in Worker : WF_vars(Stage(w))
  /\ \A t \in Task : WF_vars(LeasePasses(t))
  /\ \A t \in Task : SF_vars(\E w \in Worker, S \in SUBSET Task : t \in S /\ Claim(w, S))

FairSpec == Spec /\ Fairness

-----------------------------------------------------------------------------
Batches == SUBSET Task

\* Every variable has its type.
TypeOK ==
  /\ status \in [Task -> {"none", "pending", "processing", "completed"}]
  /\ lapsed \in [Task -> BOOLEAN]
  /\ ingest \in [Task -> Nat] /\ recorded \in [Task -> Nat] /\ drawn \in Nat
  /\ worker \in [Worker -> [pc : {"idle"}] \cup [pc : {"stage"}, batch : Batches]
                   \cup [pc : {"record"}, batch : Batches, task : Task, fragment : Nat]
                   \cup [pc : {"failed"}, task : Task]]
  /\ faults \in 0..MaxFaults

(* However many attempts of a task overlap, after a lapsed lease, a crash  *)
(* or a lost answer, they all come to the one fragment ingested under its  *)
(* key, and no two tasks share one: an attempt is never refused because    *)
(* another one recorded a replacement before it.                           *)
OneReplacement ==
  /\ \A w \in Worker : worker[w].pc = "record" =>
       worker[w].fragment = ingest[worker[w].task] /\ worker[w].fragment # 0
  /\ \A t \in Task : recorded[t] \in {0, ingest[t]}
  /\ \A t, u \in Task : t # u /\ ingest[t] # 0 => ingest[t] # ingest[u]

(* A task is completed exactly when its replacement is recorded, and stays *)
(* so: the late failure report of a worker that lost its lease, or whose   *)
(* answer was lost, does not make it claimable again.                      *)
CompletedIsRecorded ==
  \A t \in Task : status[t] = "completed" <=> recorded[t] # 0

(* Every retracted piece of evidence gets its replacement in the end,      *)
(* whoever crashed or failed on the way, once failures stop.               *)
TasksComplete == \A t \in Task : status[t] = "pending" ~> status[t] = "completed"
=============================================================================
