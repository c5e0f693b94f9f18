---------------------------- MODULE ConflictReview ----------------------------
(***************************************************************************)
(* The scheduled review of relationship conflicts of one team.  Workers    *)
(* take the team's run of the day under a lease and go through its cases:  *)
(* a case is claimed, its snapshot of the evidence refreshed, and then it  *)
(* is dismissed, left waiting, resolved by majority, or marked overdue.    *)
(* An overdue case is assessed by a provider at most once a day; the       *)
(* answer, or the last write after too many failures, becomes a plan that  *)
(* is committed in a later transaction.  Marking a case overdue gives up   *)
(* its lease: everything that follows is guarded by the case's version.    *)
(*                                                                         *)
(* Every action is one transaction.  Those that change a case or plan for  *)
(* it lock its row first; recording an answer locks only its own attempt.  *)
(* The claim of a resolution that fails is released only while its worker  *)
(* holds the lease, which no worker that executes a plan does, so that     *)
(* release changes nothing here.  Staging of derived evidence is the       *)
(* subject of DerivedEvidence.                                             *)
(***************************************************************************)
EXTENDS Naturals, FiniteSets

CONSTANTS Worker,        \* worker ids (host, pid and index: kept by a restart)
          Case,          \* conflict cases of the team
          Position,      \* positions of a case
          Snapshot,      \* states of the evidence about a case
          Conflicting,   \* those in which two positions are still supported
          Majority,      \* the position with a majority of supporters, if any
          LastWriter,    \* the position that the last write selects
          FirstSnapshot, \* the evidence that opened the cases
          NoWorker, NoPosition,
          DueAt,         \* review_due_at
          TicksPerDay,   \* clock ticks in 24 hours
          MaxNow,        \* bound of the clock
          MaxFailedDays, \* ConflictAssessmentMaxFailedDays
          MaxAttempts,   \* conflict review max attempts
          Model,         \* providers: the assessor, and the typed decision provider
          Required,      \* those whose error fails the case
          Configured,    \* the providers that the run of a day may come to use
          MaxFaults,     \* bound of errors, crashes and late workers
          MaxChanges     \* bound of changes of the evidence

ASSUME NoneAssumption == NoWorker \notin Worker /\ NoPosition \notin Position
ASSUME SizeAssumption == /\ {DueAt, MaxNow, MaxAttempts, MaxFaults, MaxChanges} \subseteq Nat
                         /\ TicksPerDay \in Nat \ {0} /\ MaxFailedDays \in Nat \ {0}
ASSUME EvidenceAssumption ==
  /\ Conflicting \subseteq Snapshot /\ FirstSnapshot \in Conflicting
  /\ Majority \in [Conflicting -> Position \cup {NoPosition}]
  /\ LastWriter \in [Snapshot -> Position]
  /\ Required \subseteq Model
ASSUME WorkerAssumption == IsFiniteSet(Worker)
ASSUME ConfiguredAssumption == Configured \in [0..(MaxNow \div TicksPerDay) -> SUBSET Model]

VARIABLES
  now,       \* the clock
  evidence,  \* the supported relationships of each case
  kase,      \* relationship_conflict_cases
  runs,      \* relationship_conflict_review_runs, by local_run_date
  assessed,  \* relationship_conflict_ai_assessment_attempts
  plans,     \* relationship_conflict_resolution_plans
  worker,    \* what each worker is doing
  verdict,   \* history: how each case was resolved, and on which evidence
  faults, changes

vars == <<now, evidence, kase, runs, assessed, plans, worker, verdict, faults, changes>>

Day(t) == t \div TicksPerDay
Days == 0..Day(MaxNow)

Idle == [pc |-> "idle", day |-> 0, tried |-> {}, failed |-> FALSE]
NoVerdict == [method |-> "none"]

(* upsertRelationshipConflictCase creates a case open and due for review. *)
Init ==
  /\ now = 0
  /\ evidence = [c \in Case |-> FirstSnapshot]
  /\ kase = [c \in Case |->
       [status |-> "open", version |-> 1, snap |-> FirstSnapshot, lease |-> NoWorker,
        lapsed |-> FALSE, run |-> 0, attempts |-> 0, next |-> 0, preferred |-> NoPosition]]
  /\ runs = [d \in Days |-> [status |-> "none", worker |-> NoWorker, lapsed |-> FALSE]]
  /\ assessed = {} /\ plans = {}
  /\ worker = [w \in Worker |-> Idle]
  /\ verdict = [c \in Case |-> NoVerdict]
  /\ faults = 0 /\ changes = 0

Fault == faults < MaxFaults /\ faults' = faults + 1

-----------------------------------------------------------------------------
(* The worker's loop: ProcessTeamConflictReview                            *)

Put(w, r) == worker' = [worker EXCEPT ![w] = r]

(* On to the next case of the run; a case that failed fails the run. *)
NextCase(w, failed) ==
  Put(w, [pc |-> "renew", day |-> worker[w].day, tried |-> worker[w].tried,
          failed |-> worker[w].failed \/ failed])

(* The row of a date is inserted, or taken over when it is not completed   *)
(* and its lease is free, past, or held under the same worker id.          *)
Reservable(d, w) ==
  \/ runs[d].status = "none"
  \/ runs[d].status = "failed"
  \/ runs[d].status = "running" /\ (runs[d].lapsed \/ runs[d].worker = w)

Reserve(d, w) ==
  runs' = [runs EXCEPT ![d] = [status |-> "running", worker |-> w, lapsed |-> FALSE]]

(* The run of the day is reserved, and derived evidence left over from     *)
(* earlier runs retried: an error of that fails the run, which goes on.    *)
Start(w) ==
  /\ worker[w].pc = "idle"
  /\ Reservable(Day(now), w)
  /\ Reserve(Day(now), w)
  /\ \/ Put(w, [Idle EXCEPT !.pc = "renew", !.day = Day(now)]) /\ UNCHANGED faults
     \/ Put(w, [Idle EXCEPT !.pc = "renew", !.day = Day(now), !.failed = TRUE]) /\ Fault
  /\ UNCHANGED <<now, evidence, kase, assessed, plans, verdict, changes>>

(* The lease is renewed before every case; a run that was lost fails. *)
Renew(w) ==
  /\ worker[w].pc = "renew"
  /\ \/ /\ Reservable(worker[w].day, w)
        /\ Reserve(worker[w].day, w)
        /\ Put(w, [worker[w] EXCEPT !.pc = "claim"])
     \/ /\ ~Reservable(worker[w].day, w)
        /\ Put(w, [worker[w] EXCEPT !.pc = "finish", !.failed = TRUE])
        /\ UNCHANGED runs
  /\ UNCHANGED <<now, evidence, kase, assessed, plans, verdict, faults, changes>>

Live == {"open", "overdue"}

Claimable(c, w) ==
  /\ kase[c].status \in Live
  /\ kase[c].next <= now
  /\ kase[c].attempts < MaxAttempts
  /\ kase[c].lease = NoWorker \/ kase[c].lapsed \/ kase[c].lease = w
  /\ c \notin worker[w].tried

\* SKIP LOCKED passes over a case that a transaction of another worker holds.
Locked(c, w) == \E v \in Worker \ {w} : worker[v].pc \in {"review", "plan", "commit", "reserve"} /\ worker[v].case = c

ClaimedCase(c, w) ==
  [kase[c] EXCEPT !.lease = w, !.lapsed = FALSE, !.run = worker[w].day, !.attempts = @ + 1]

Claim(w) ==
  /\ worker[w].pc = "claim"
  /\ \/ \E c \in Case :
          /\ Claimable(c, w)
          /\ kase' = [kase EXCEPT ![c] = ClaimedCase(c, w)]
          /\ Put(w, [pc |-> "review", day |-> worker[w].day, case |-> c, at |-> now,
                     tried |-> worker[w].tried \cup {c}, failed |-> worker[w].failed])
     \/ /\ \A c \in Case : Claimable(c, w) => Locked(c, w)
        /\ Put(w, [worker[w] EXCEPT !.pc = "finish"])
        /\ UNCHANGED kase
  /\ UNCHANGED <<now, evidence, runs, assessed, plans, verdict, faults, changes>>

(* Variant: whoever took the run over, its end is recorded. *)
CompleteAnyRun(w) ==
  runs' = [runs EXCEPT ![worker[w].day] =
             [@ EXCEPT !.status = IF worker[w].failed THEN "failed" ELSE "completed", !.lapsed = FALSE]]

(* CompleteRelationshipConflictReviewRun: the row still names the worker;  *)
(* its lease is not looked at.                                             *)
CompleteRun(w) ==
  IF runs[worker[w].day].worker = w
  THEN runs' = [runs EXCEPT ![worker[w].day] =
                  [@ EXCEPT !.status = IF worker[w].failed THEN "failed" ELSE "completed", !.lapsed = FALSE]]
  ELSE UNCHANGED runs

Finish(w) ==
  /\ worker[w].pc = "finish"
  /\ CompleteRun(w)
  /\ Put(w, Idle)
  /\ UNCHANGED <<now, evidence, kase, assessed, plans, verdict, faults, changes>>

-----------------------------------------------------------------------------
(* The snapshot of a case and its version                                  *)

(* supersedeReservedOverdueConflictAssessments and the pending plans *)
Supersede(c) ==
  /\ assessed' = {IF a.case = c /\ a.status = "reserved" THEN [a EXCEPT !.status = "superseded"] ELSE a : a \in assessed}
  /\ plans' = {IF p.case = c /\ p.status = "resolution_pending" THEN [p EXCEPT !.status = "superseded"] ELSE p : p \in plans}

Unleased(k) == [k EXCEPT !.lease = NoWorker, !.lapsed = FALSE]

(* bumpRelationshipConflictCaseVersion *)
Bumped(k, s) == [Unleased(k) EXCEPT !.snap = s, !.version = @ + 1, !.attempts = 0]

(* dismissRelationshipConflictCase *)
Dismissed(k, s, at) == [Unleased(k) EXCEPT !.snap = s, !.version = @ + 1, !.status = "dismissed", !.next = at]

Changed(c) == kase[c].snap # evidence[c]
Conflicted(c) == evidence[c] \in Conflicting

Dismiss(w, c) ==
  /\ ~Conflicted(c)
  /\ Supersede(c)
  /\ kase' = [kase EXCEPT ![c] = Dismissed(@, evidence[c], worker[w].at)]

(* The record a review goes on with, and the tables it leaves. *)
Refreshed(c) == IF Changed(c) THEN Bumped(kase[c], evidence[c]) ELSE kase[c]
RefreshTables(c) == IF Changed(c) THEN Supersede(c) ELSE UNCHANGED <<assessed, plans>>

-----------------------------------------------------------------------------
(* ReviewRelationshipConflictCase of the repository                        *)

\* Variant: the lease is taken for granted once the case was claimed.
HoldsAlways(w, c) == TRUE
(* loadRelationshipConflictCaseForReview *)
Holds(w, c) == kase[c].lease = w /\ kase[c].run = worker[w].day /\ ~kase[c].lapsed

(* resolveRelationshipConflictCase *)
Resolved(k, p, at) ==
  [Unleased(k) EXCEPT !.status = "resolved", !.preferred = p, !.version = @ + 1, !.next = at]

\* Variant: marking a case overdue keeps the attempts it took.
OverdueKeepingAttempts(k, at) == [Unleased(k) EXCEPT !.status = "overdue", !.next = at + TicksPerDay]
(* markRelationshipConflictCaseOverdue *)
Overdue(k, at) == [Unleased(k) EXCEPT !.status = "overdue", !.next = at + TicksPerDay, !.attempts = 0]

(* releaseRelationshipConflictCaseLease with conflictNextReviewAt *)
Released(k, at) ==
  [Unleased(k) EXCEPT
     !.next = IF DueAt > at /\ at + TicksPerDay > DueAt THEN DueAt ELSE at + TicksPerDay,
     !.attempts = 0]

(* EvaluateRelationshipConflict on the refreshed record *)
Evaluate(w, c) ==
  \/ /\ worker[w].at < DueAt
     /\ kase' = [kase EXCEPT ![c] = Released(Refreshed(c), worker[w].at)]
     /\ NextCase(w, FALSE)
     /\ UNCHANGED verdict
  \/ /\ worker[w].at >= DueAt /\ Majority[evidence[c]] # NoPosition
     /\ kase' = [kase EXCEPT ![c] = Resolved(Refreshed(c), Majority[evidence[c]], worker[w].at)]
     /\ verdict' = [verdict EXCEPT ![c] = [method |-> "deterministic", basis |-> Refreshed(c).snap, evidence |-> evidence[c]]]
     /\ NextCase(w, FALSE)
  \/ /\ worker[w].at >= DueAt /\ Majority[evidence[c]] = NoPosition
     /\ kase' = [kase EXCEPT ![c] = Overdue(Refreshed(c), worker[w].at)]
     /\ Put(w, [worker[w] EXCEPT !.pc = "resume"])
     /\ UNCHANGED verdict

Review(w) ==
  /\ worker[w].pc = "review"
  /\ LET c == worker[w].case IN
     \/ /\ ~Holds(w, c)
        /\ NextCase(w, TRUE)
        /\ UNCHANGED <<kase, assessed, plans, verdict>>
     \/ /\ Holds(w, c)
        /\ Dismiss(w, c)
        /\ NextCase(w, FALSE)
        /\ UNCHANGED verdict
     \/ /\ Holds(w, c) /\ Conflicted(c)
        /\ RefreshTables(c)
        /\ Evaluate(w, c)
  /\ UNCHANGED <<now, evidence, runs, faults, changes>>

-----------------------------------------------------------------------------
(* Overdue cases: ReviewRelationshipConflictCase of the service            *)

PendingPlans(c) ==
  {p \in plans : p.case = c /\ p.version = kase[c].version /\ p.status = "resolution_pending"}

Resolving(w, version, date, model, position, method) ==
  [pc |-> "plan", day |-> worker[w].day, tried |-> worker[w].tried, failed |-> worker[w].failed,
   case |-> worker[w].case, at |-> worker[w].at, version |-> version, date |-> date, model |-> model,
   position |-> position, method |-> method]

(* ResumePendingOverdueConflictResolution; a new assessment is made under  *)
(* the provider of the moment.                                             *)
Resume(w) ==
  /\ worker[w].pc = "resume"
  /\ LET c == worker[w].case IN
     \/ /\ kase[c].status = "overdue"
        /\ \E p \in PendingPlans(c) :
             Put(w, Resolving(w, p.version, p.date, p.model, p.position, p.method))
     \/ /\ kase[c].status # "overdue" \/ PendingPlans(c) = {}
        /\ \E m \in Configured[worker[w].day] :
             Put(w, [pc |-> "reserve", day |-> worker[w].day, tried |-> worker[w].tried,
                     failed |-> worker[w].failed, case |-> c, at |-> worker[w].at, date |-> Day(worker[w].at), model |-> m])
  /\ UNCHANGED <<now, evidence, kase, runs, assessed, plans, verdict, faults, changes>>

Of(c, v, m) == {a \in assessed : a.case = c /\ a.version = v /\ a.model = m}

\* Variant: failures count whatever evidence they were about.
FailuresOfCase(c, v, m) == {a \in assessed : a.case = c /\ a.model = m /\ a.status = "failed"}
(* countFailedOverdueConflictAssessments *)
Failures(c, v, m) == {a \in Of(c, v, m) : a.status = "failed"}

(* expirePriorOverdueConflictAssessmentReservations *)
Expired(c, v, m, date) ==
  {IF a \in Of(c, v, m) /\ a.status = "reserved" /\ a.date < date
   THEN [a EXCEPT !.status = "failed"] ELSE a : a \in assessed}

ExpiredFailures(c, v, m, date) ==
  {a \in Expired(c, v, m, date) : a.case = c /\ a.version = v /\ a.model = m /\ a.status = "failed"}

ReservedRow(c, date, m) ==
  [case |-> c, version |-> kase[c].version, date |-> date, model |-> m,
   status |-> "reserved", position |-> NoPosition, snap |-> kase[c].snap]

\* Variant: a reservation of the day that was answered is made again.
AskedPending(c, v, m, date) == \E a \in Of(c, v, m) : a.date = date /\ a.status = "reserved"
\* The insert gives way to a row of the version, date and provider.
Asked(c, v, m, date) == \E a \in Of(c, v, m) : a.date = date

(* ReserveOverdueConflictAssessment: after enough failures the last write  *)
(* wins; a provider that was asked today is not asked again.               *)
ReserveAssessment(w) ==
  /\ worker[w].pc = "reserve"
  /\ LET c == worker[w].case
         v == kase[c].version
         m == worker[w].model
         date == worker[w].date
         failed == ExpiredFailures(c, v, m, date) IN
     \/ /\ kase[c].status # "overdue" \/ PendingPlans(c) # {}
        /\ NextCase(w, FALSE)
        /\ UNCHANGED assessed
     \/ /\ kase[c].status = "overdue" /\ PendingPlans(c) = {}
        /\ Cardinality(failed) >= MaxFailedDays /\ m \notin Required
        /\ assessed' = Expired(c, v, m, date)
        /\ \E a \in failed :
             /\ \A b \in failed : b.date <= a.date
             /\ Put(w, Resolving(w, v, a.date, m, LastWriter[evidence[c]], "last_write_wins"))
     \/ /\ kase[c].status = "overdue" /\ PendingPlans(c) = {}
        /\ Cardinality(failed) < MaxFailedDays \/ m \in Required
        /\ Asked(c, v, m, date)
        /\ assessed' = Expired(c, v, m, date)
        /\ NextCase(w, FALSE)
     \/ /\ kase[c].status = "overdue" /\ PendingPlans(c) = {}
        /\ Cardinality(failed) < MaxFailedDays \/ m \in Required
        /\ ~Asked(c, v, m, date)
        /\ assessed' = Expired(c, v, m, date) \cup {ReservedRow(c, date, m)}
        /\ Put(w, [pc |-> "assess", day |-> worker[w].day, tried |-> worker[w].tried,
                   failed |-> worker[w].failed, case |-> c, at |-> worker[w].at, date |-> date, model |-> m,
                   version |-> v, dossier |-> evidence[c]])
  /\ UNCHANGED <<now, evidence, kase, runs, plans, verdict, faults, changes>>

(* The reservation a worker answers. *)
Mine(w) ==
  {a \in Of(worker[w].case, worker[w].version, worker[w].model) : a.date = worker[w].date}

Completed(w, status, position) ==
  assessed' = {IF a \in Mine(w) THEN [a EXCEPT !.status = status, !.position = position] ELSE a : a \in assessed}

ResolveAs(w, position, method) ==
  Put(w, Resolving(w, worker[w].version, worker[w].date, worker[w].model, position, method))

\* Variant: the count of failures is one short.
OneFailureShort(w) ==
  Cardinality(Failures(worker[w].case, worker[w].version, worker[w].model)) + 2 >= MaxFailedDays
(* FailureCount of CompleteOverdueConflictAssessment, this one included. *)
LastFailure(w) ==
  Cardinality(Failures(worker[w].case, worker[w].version, worker[w].model)) + 1 >= MaxFailedDays

StillReserved(w) == \E a \in Mine(w) : a.status = "reserved"

(* The provider answers, and applyAssessmentResponse or                    *)
(* recordAssessmentFailure completes the reservation.  The error of a      *)
(* required provider fails the case instead; its unusable answers, and     *)
(* those of the assessor it hands uncertain cases to, are failures too.    *)
Assess(w) ==
  /\ worker[w].pc = "assess"
  /\ \/ /\ ~StillReserved(w)
        /\ \E lost \in {FALSE, worker[w].model \in Required} : NextCase(w, lost)
        /\ UNCHANGED assessed
     \/ /\ StillReserved(w)
        /\ \E p \in Position : Completed(w, "selected", p) /\ ResolveAs(w, p, "ai")
     \/ /\ StillReserved(w)
        /\ Completed(w, "abstained", NoPosition)
        /\ ResolveAs(w, LastWriter[worker[w].dossier], "last_write_wins")
     \/ /\ StillReserved(w)
        /\ Completed(w, "failed", NoPosition)
        /\ IF LastFailure(w)
           THEN ResolveAs(w, LastWriter[worker[w].dossier], "last_write_wins")
           ELSE NextCase(w, FALSE)
     \/ /\ StillReserved(w) /\ worker[w].model \in Required
        /\ Completed(w, "failed", NoPosition)
        /\ NextCase(w, TRUE)
  /\ UNCHANGED <<now, evidence, kase, runs, plans, verdict, faults, changes>>

-----------------------------------------------------------------------------
(* executeResolution: a plan, its embeddings, and the commit of the plan   *)

\* loadRelationshipConflictCaseForResolution: no lease, the version decides.
Expected(w) ==
  kase[worker[w].case].status = "overdue" /\ kase[worker[w].case].version = worker[w].version

PlanOf(w) == {p \in plans : p.case = worker[w].case /\ p.version = worker[w].version}

(* validateConflictResolutionAssessment *)
Earned(w) ==
  \E a \in Mine(w) :
    \/ worker[w].method = "ai" /\ a.status = "selected" /\ a.position = worker[w].position
    \/ worker[w].method = "last_write_wins" /\ a.status = "abstained"
    \/ /\ worker[w].method = "last_write_wins" /\ a.status = "failed"
       /\ Cardinality(Failures(worker[w].case, worker[w].version, worker[w].model)) >= MaxFailedDays

\* Variant: a plan is built without a look at the evidence.
FreshUnchecked(w) == Expected(w)
Fresh(w) == Expected(w) /\ Conflicted(worker[w].case) /\ ~Changed(worker[w].case)

(* A plan that cannot be built: the case moved on, or the evidence did,    *)
(* and then the refreshed snapshot is kept.  (It is also stale where the   *)
(* assessment or the plan on record does not back it: FreshIsBacked.)      *)
Stale(w) ==
  LET c == worker[w].case IN
  \/ /\ ~Expected(w)
     /\ UNCHANGED <<kase, assessed, plans>>
  \/ /\ Expected(w) /\ ~Conflicted(c)
     /\ Dismiss(w, c)
  \/ /\ Expected(w) /\ Conflicted(c) /\ Changed(c)
     /\ Supersede(c)
     /\ kase' = [kase EXCEPT ![c] = Bumped(@, evidence[c])]

PlanRow(w) ==
  [case |-> worker[w].case, version |-> worker[w].version, position |-> worker[w].position,
   method |-> worker[w].method, date |-> worker[w].date, model |-> worker[w].model,
   status |-> "resolution_pending"]

(* ensureConflictResolutionPlan: one plan per version, for one position. *)
Planned(w) == IF PlanOf(w) = {} THEN plans \cup {PlanRow(w)} ELSE plans
\* Variant: a plan that is there is used, whatever it prefers.
AgreedAlways(w) == \A p \in PlanOf(w) : p.status = "resolution_pending"
Agreed(w) == \A p \in PlanOf(w) : p.position = worker[w].position /\ p.status = "resolution_pending"

(* Too many documents or fragments: the plan stays, the case is released,  *)
(* whoever has claimed it meanwhile.                                       *)
Defer(w) ==
  /\ plans' = Planned(w)
  /\ kase' = [kase EXCEPT ![worker[w].case] = Released(@, worker[w].at)]
  /\ NextCase(w, FALSE)
  /\ UNCHANGED <<assessed, faults>>

Plan(w) ==
  /\ worker[w].pc = "plan"
  /\ \/ /\ Stale(w)
        /\ NextCase(w, FALSE)
        /\ UNCHANGED faults
     \/ /\ Fresh(w) /\ Earned(w)
        /\ \E p \in PlanOf(w) : p.position # worker[w].position
        /\ NextCase(w, TRUE)
        /\ UNCHANGED <<kase, assessed, plans, faults>>
     \/ /\ Fresh(w) /\ Earned(w) /\ Agreed(w)
        /\ plans' = Planned(w)
        /\ Put(w, [worker[w] EXCEPT !.pc = "commit"])
        /\ UNCHANGED <<kase, assessed, faults>>
     \/ Fresh(w) /\ Earned(w) /\ Agreed(w) /\ Defer(w)
  /\ UNCHANGED <<now, evidence, runs, verdict, changes>>

(* CommitRelationshipConflictResolution: the plan is built again under the *)
(* locks; a plan whose documents differ by now is stale.                   *)
Commit(w) ==
  /\ worker[w].pc = "commit"
  /\ LET c == worker[w].case IN
     \/ /\ Stale(w)
        /\ NextCase(w, FALSE)
        /\ UNCHANGED <<verdict, faults>>
     \/ /\ Fresh(w) /\ Earned(w) /\ Agreed(w)
        /\ kase' = [kase EXCEPT ![c] = Resolved(@, worker[w].position, worker[w].at)]
        /\ plans' = {IF p \in PlanOf(w) THEN [p EXCEPT !.status = "applied"] ELSE p : p \in plans}
        /\ verdict' = [verdict EXCEPT ![c] =
             [method |-> worker[w].method, basis |-> (CHOOSE a \in Mine(w) : TRUE).snap, evidence |-> evidence[c]]]
        /\ \/ NextCase(w, FALSE) /\ UNCHANGED faults
           \/ NextCase(w, TRUE) /\ Fault  \* stageConflictDerivedEvidence failed
        /\ UNCHANGED assessed
     \/ /\ Fresh(w) /\ Earned(w) /\ Agreed(w)
        /\ Defer(w)
        /\ UNCHANGED verdict
     \/ /\ Fresh(w) /\ Earned(w) /\ Agreed(w)
        /\ Fault
        /\ NextCase(w, FALSE)
        /\ UNCHANGED <<kase, assessed, plans, verdict>>
  /\ UNCHANGED <<now, evidence, runs, changes>>

-----------------------------------------------------------------------------
(* Faults                                                                  *)

InCase == {"review", "resume", "reserve", "assess", "plan", "commit"}

(* A call to the store, the settings or the embedding provider fails. *)
Error(w) ==
  /\ Fault
  /\ \/ /\ worker[w].pc \in InCase
        /\ NextCase(w, TRUE)
     \/ /\ worker[w].pc \in {"renew", "claim"}
        /\ Put(w, [worker[w] EXCEPT !.pc = "finish", !.failed = TRUE])
     \/ /\ worker[w].pc = "finish"
        /\ Put(w, Idle)
  /\ UNCHANGED <<now, evidence, kase, runs, assessed, plans, verdict, changes>>

(* The process ends; the worker comes back under the same id. *)
Crash(w) ==
  /\ worker[w].pc # "idle"
  /\ Fault
  /\ Put(w, Idle)
  /\ UNCHANGED <<now, evidence, kase, runs, assessed, plans, verdict, changes>>

RunInUse(d) == \E w \in Worker : runs[d].worker = w /\ worker[w].pc # "idle" /\ worker[w].day = d
CaseInUse(c) == \E w \in Worker : kase[c].lease = w /\ worker[w].pc = "review" /\ worker[w].case = c

(* A lease passes: always that of a dead worker, or one that is late. *)
RunLapses(d) ==
  /\ runs[d].status = "running" /\ ~runs[d].lapsed
  /\ IF RunInUse(d) THEN Fault ELSE UNCHANGED faults
  /\ runs' = [runs EXCEPT ![d].lapsed = TRUE]
  /\ UNCHANGED <<now, evidence, kase, assessed, plans, worker, verdict, changes>>

CaseLapses(c) ==
  /\ kase[c].lease # NoWorker /\ ~kase[c].lapsed
  /\ IF CaseInUse(c) THEN Fault ELSE UNCHANGED faults
  /\ kase' = [kase EXCEPT ![c].lapsed = TRUE]
  /\ UNCHANGED <<now, evidence, runs, assessed, plans, worker, verdict, changes>>

(* The clock moves when the run of the day is through; a tick is longer    *)
(* than a lease.  Otherwise the workers are late, and their leases may     *)
(* have passed.                                                            *)
Settled == runs[Day(now)].status = "completed" /\ \A w \in Worker : worker[w].pc = "idle"

LeasesLapse ==
  /\ runs' = [d \in Days |-> [runs[d] EXCEPT !.lapsed = runs[d].status = "running"]]
  /\ kase' = [c \in Case |-> [kase[c] EXCEPT !.lapsed = kase[c].lease # NoWorker]]

Tick ==
  /\ now < MaxNow /\ \E c \in Case : kase[c].status \in Live  \* bounds: later runs are empty
  /\ Settled
  /\ now' = now + 1
  /\ LeasesLapse
  /\ UNCHANGED <<evidence, assessed, plans, worker, verdict, faults, changes>>

LateTick ==
  /\ now < MaxNow
  /\ ~Settled /\ Fault
  /\ now' = now + 1
  /\ LeasesLapse \/ UNCHANGED <<runs, kase>>
  /\ UNCHANGED <<evidence, assessed, plans, worker, verdict, changes>>

(* Evidence is retracted, quarantined or reinstated: no case is touched. *)
ChangeEvidence(c, s) ==
  /\ changes < MaxChanges /\ changes' = changes + 1
  /\ evidence' = [evidence EXCEPT ![c] = s]
  /\ UNCHANGED <<now, kase, runs, assessed, plans, worker, verdict, faults>>

(* applyRelationshipConflictPlacement: a write that finds a conflict       *)
(* refreshes the snapshot of the live case.                                *)
PlaceEvidence(c, s) ==
  /\ changes < MaxChanges /\ changes' = changes + 1
  /\ s \in Conflicting /\ kase[c].status \in Live
  /\ evidence' = [evidence EXCEPT ![c] = s]
  /\ kase[c].snap # s
  /\ Supersede(c)
  /\ kase' = [kase EXCEPT ![c] = Bumped(@, s)]
  /\ UNCHANGED <<now, runs, worker, verdict, faults>>

-----------------------------------------------------------------------------
Step(w) ==
  \/ Start(w) \/ Renew(w) \/ Claim(w) \/ Finish(w)
  \/ Review(w) \/ Resume(w) \/ ReserveAssessment(w) \/ Assess(w)
  \/ Plan(w) \/ Commit(w)

Next ==
  \/ \E w \in Worker : Step(w) \/ Error(w) \/ Crash(w)
  \/ \E d \in Days : RunLapses(d)
  \/ \E c \in Case : CaseLapses(c)
  \/ \E c \in Case, s \in Snapshot : ChangeEvidence(c, s) \/ PlaceEvidence(c, s)
  \/ Tick \/ LateTick

Spec == Init /\ [][Next]_vars

-----------------------------------------------------------------------------
(* Properties                                                              *)

CaseRecord ==
  [status : Live \cup {"resolved", "dismissed"}, version : Nat \ {0}, snap : Snapshot,
   lease : Worker \cup {NoWorker}, lapsed : BOOLEAN, run : Days, attempts : 0..MaxAttempts,
   next : Nat, preferred : Position \cup {NoPosition}]

(* The type of the tables and of the clock, and the attempts of a case stay *)
(* within the maximum that ClaimRelationshipConflictCases checks.          *)
TypeOK ==
  /\ now \in 0..MaxNow /\ faults \in 0..MaxFaults /\ changes \in 0..MaxChanges
  /\ evidence \in [Case -> Snapshot]
  /\ kase \in [Case -> CaseRecord]
  /\ runs \in [Days -> [status : {"none", "running", "failed", "completed"},
                        worker : Worker \cup {NoWorker}, lapsed : BOOLEAN]]
  /\ \A a \in assessed : a.status \in {"reserved", "selected", "abstained", "failed", "superseded"}
  /\ \A p \in plans : p.status \in {"resolution_pending", "applied", "superseded"}
  /\ \A w \in Worker : worker[w].day \in Days /\ worker[w].tried \subseteq Case

(* A case is decided under the snapshot that its assessment was reserved   *)
(* for, and the evidence still agrees with that snapshot at the commit:    *)
(* from the reservation on no lease is held, and the evidence may change.  *)
DecidedOnCurrentEvidence ==
  \A c \in Case : verdict[c].method # "none" => verdict[c].basis = verdict[c].evidence

(* A worker that comes to plan or commit while the case and the evidence   *)
(* are as they were has an assessment, and a plan if there is one, that    *)
(* back it, whichever workers planned, answered or expired in between.     *)
FreshIsBacked ==
  \A w \in Worker : worker[w].pc \in {"plan", "commit"} /\ Fresh(w) =>
    Earned(w) /\ \A p \in PlanOf(w) : p.status = "resolution_pending"

Applied(c) == {p \in plans : p.case = c /\ p.status = "applied"}

(* A resolved overdue case prefers the position of its one applied plan,   *)
(* the plan of the version that was decided; two workers of different days *)
(* may both have an answer for the case.                                   *)
OnePlanDecides ==
  \A c \in Case :
    /\ \A p, q \in plans : p.case = c /\ q.case = c /\ p.version = q.version => p = q
    /\ kase[c].status = "resolved" /\ verdict[c].method # "deterministic" =>
         \E p \in Applied(c) : /\ Applied(c) = {p}
                               /\ p.version + 1 = kase[c].version
                               /\ p.position = kase[c].preferred

(* The last write wins only where the provider abstained, or failed on as  *)
(* many days as the limit says, for the version that was decided.          *)
LastWriteIsEarned ==
  \A p \in plans : p.method = "last_write_wins" =>
    \/ \E a \in Of(p.case, p.version, p.model) : a.status = "abstained" /\ a.date = p.date
    \/ MaxFailedDays <= Cardinality({a \in Of(p.case, p.version, p.model) : a.status = "failed"})

(* A provider is asked about a version of a case at most once a day, so    *)
(* that as many failures as the limit says took as many days.  A run that  *)
(* failed is done again on the same day, and a deferred resolution makes a *)
(* case due again that a later day had passed on.                          *)
OneAttemptADay ==
  \A a, b \in assessed :
    a.case = b.case /\ a.version = b.version /\ a.model = b.model /\ a.date = b.date => a = b

(* Reviews that go through give their attempt back: only errors, crashes   *)
(* and lost leases bring a case nearer to the maximum at which no worker   *)
(* claims it again.                                                        *)
AttemptsAreFaults ==
  \A c \in Case : kase[c].status \in Live =>
    kase[c].attempts <= faults + Cardinality({w \in Worker : worker[w].pc = "review" /\ worker[w].case = c})

(* A case that was resolved or dismissed stays so, whichever worker still  *)
(* holds an old claim, an answer or a plan for it.                         *)
ClosedIsFinal ==
  [][\A c \in Case : kase[c].status \notin Live => kase'[c] = kase[c]]_vars

(* The run of a day that was completed is not run again and not failed by  *)
(* a worker that lost it, although its end is recorded without a look at   *)
(* the lease.                                                              *)
CompletedRunsStand ==
  [][\A d \in Days : runs[d].status = "completed" => runs'[d] = runs[d]]_vars
=============================================================================
