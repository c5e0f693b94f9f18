------------------------ MODULE ConflictReview_proofs ------------------------
(***************************************************************************)
(* Proofs about the review of conflicts, for any workers, cases, evidence, *)
(* providers and limits.                                                   *)
(***************************************************************************)
EXTENDS ConflictReview, Integers, FiniteSetTheorems, TLAPS

Method == {"ai", "last_write_wins"}

(* What a worker keeps, by the phase it is in. *)
LoopState == [pc : {"idle", "renew", "claim", "finish"}, day : Days, tried : SUBSET Case, failed : BOOLEAN]
CaseState == [pc : {"review", "resume"}, day : Days, case : Case, at : 0..MaxNow,
              tried : SUBSET Case, failed : BOOLEAN]
ReserveState == [pc : {"reserve"}, day : Days, tried : SUBSET Case, failed : BOOLEAN, case : Case,
                 at : 0..MaxNow, date : Days, model : Model]
AssessState == [pc : {"assess"}, day : Days, tried : SUBSET Case, failed : BOOLEAN, case : Case,
                at : 0..MaxNow, date : Days, model : Model, version : Nat \ {0}, dossier : Snapshot]
ResolveState == [pc : {"plan", "commit"}, day : Days, tried : SUBSET Case, failed : BOOLEAN, case : Case,
                 at : 0..MaxNow, version : Nat \ {0}, date : Days, model : Model,
                 position : Position, method : Method]
WorkerState == LoopState \cup CaseState \cup ReserveState \cup AssessState \cup ResolveState

AttemptRow == [case : Case, version : Nat \ {0}, date : Days, model : Model,
               status : {"reserved", "selected", "abstained", "failed", "superseded"},
               position : Position \cup {NoPosition}, snap : Snapshot]
PlanRecord == [case : Case, version : Nat \ {0}, position : Position, method : Method, date : Days,
               model : Model, status : {"resolution_pending", "applied", "superseded"}]

RunRecord == [status : {"none", "running", "failed", "completed"}, worker : Worker \cup {NoWorker}, lapsed : BOOLEAN]

(* A closed case is under no lease: whoever claimed it lost the claim. *)
CaseFine(k) == k \in CaseRecord /\ (k.status \notin Live => k.lease = NoWorker /\ k.lapsed = FALSE)

(* Only the lease of a running run passes. *)
RunFine(r) == r \in RunRecord /\ (r.status # "running" => r.lapsed = FALSE)

ClockOK == /\ now \in 0..MaxNow /\ faults \in 0..MaxFaults /\ changes \in 0..MaxChanges
           /\ evidence \in [Case -> Snapshot]
CasesOK == kase \in [Case -> CaseRecord] /\ \A c \in Case : CaseFine(kase[c])
RunsOK == runs \in [Days -> RunRecord] /\ \A d \in Days : RunFine(runs[d])
TablesOK == assessed \subseteq AttemptRow /\ plans \subseteq PlanRecord
WorkersOK == worker \in [Worker -> WorkerState]

(* The worker that a completed run names is not working on it any more. *)
DoneOK ==
  \A d \in Days, w \in Worker :
    runs[d].status = "completed" /\ runs[d].worker = w => worker[w].pc = "idle" \/ worker[w].day # d

IInv == ClockOK /\ CasesOK /\ RunsOK /\ TablesOK /\ WorkersOK /\ DoneOK

(* The step parts of the two action properties. *)
ClosedStep == \A c \in Case : kase[c].status \notin Live => kase'[c] = kase[c]
RunStep == \A d \in Days : runs[d].status = "completed" => runs'[d] = runs[d]

-----------------------------------------------------------------------------
(* Data                                                                    *)

\* The quotient, without the division.
LEMMA Quotient ==
  ASSUME NEW t \in Nat, NEW n \in Nat, n > 0
  PROVE  t \div n \in Int /\ n * (t \div n) <= t /\ t < n * (t \div n) + n
<1>1. t \div n \in Int
  OBVIOUS
<1>2. n * (t \div n) <= t
  OBVIOUS
<1>3. t < n * (t \div n) + n
  OBVIOUS
<1> QED
  BY <1>1, <1>2, <1>3

\* Division keeps the order.
LEMMA DivOrder ==
  ASSUME NEW n \in Nat, n > 0, NEW t \in Nat, NEW u \in Nat, t <= u
  PROVE  t \div n \in Nat /\ u \div n \in Nat /\ t \div n <= u \div n
<1> DEFINE q == t \div n
           r == u \div n
<1>1. q \in Int /\ n * q <= t /\ t < n * q + n
  BY Quotient
<1>2. r \in Int /\ n * r <= u /\ u < n * r + n
  BY Quotient
<1> HIDE DEF q, r
<1>3. q >= 0
  BY <1>1
<1>4. r >= 0
  BY <1>2
<1>5. q <= r
  BY <1>1, <1>2
<1> QED
  BY <1>1, <1>2, <1>3, <1>4, <1>5 DEF q, r

\* The day of a reading of the clock is one of the days of the runs.
LEMMA DayType == \A t \in 0..MaxNow : Day(t) \in Days
BY DivOrder, SizeAssumption DEF Day, Days

\* The first day is one of them.
LEMMA FirstDay == 0 \in Days
<1>1. MaxNow \div TicksPerDay \in Nat
  BY DivOrder, SizeAssumption
<1> QED
  BY <1>1 DEF Days, Day

\* The record that a phase has.
LEMMA Phases ==
  ASSUME WorkersOK, NEW w \in Worker
  PROVE  /\ worker[w] \in WorkerState
         /\ worker[w].day \in Days /\ worker[w].tried \in SUBSET Case /\ worker[w].failed \in BOOLEAN
         /\ worker[w].pc \in {"idle", "renew", "claim", "finish"} => worker[w] \in LoopState
         /\ worker[w].pc \in {"review", "resume"} => worker[w] \in CaseState
         /\ worker[w].pc = "reserve" => worker[w] \in ReserveState
         /\ worker[w].pc = "assess" => worker[w] \in AssessState
         /\ worker[w].pc \in {"plan", "commit"} => worker[w] \in ResolveState
         /\ worker[w].pc \in InCase => worker[w].case \in Case /\ worker[w].at \in 0..MaxNow
BY DEF WorkersOK, WorkerState, LoopState, CaseState, ReserveState, AssessState, ResolveState, InCase

\* A worker's record is replaced.
LEMMA PutType ==
  ASSUME WorkersOK, NEW w \in Worker, NEW r \in WorkerState, Put(w, r)
  PROVE  /\ WorkersOK' /\ worker'[w] = r
         /\ \A v \in Worker : v # w => worker'[v] = worker[v]
BY DEF WorkersOK, Put

\* The next case of the same run.
LEMMA NextCaseType ==
  ASSUME WorkersOK, NEW w \in Worker, NEW f \in BOOLEAN, NextCase(w, f)
  PROVE  /\ WorkersOK' /\ worker'[w].day = worker[w].day
         /\ \A v \in Worker : v # w => worker'[v] = worker[v]
<1> DEFINE r == [pc |-> "renew", day |-> worker[w].day, tried |-> worker[w].tried,
                 failed |-> worker[w].failed \/ f]
<1>1. (worker[w].failed \/ f) \in BOOLEAN
  OBVIOUS
<1>2. r \in LoopState
  BY <1>1, Phases DEF LoopState
<1>3. r \in WorkerState /\ Put(w, r) /\ r.day = worker[w].day
  BY <1>2 DEF WorkerState, NextCase
<1> HIDE DEF r
<1> QED
  BY <1>3, PutType

\* A worker without a case.
LEMMA IdleType == Idle \in WorkerState /\ Idle.pc = "idle"
BY FirstDay DEF Idle, WorkerState, LoopState

-----------------------------------------------------------------------------
(* Records of cases                                                        *)

LEMMA UnleasedType ==
  ASSUME NEW k \in CaseRecord
  PROVE  /\ Unleased(k) \in CaseRecord
         /\ Unleased(k).lease = NoWorker /\ Unleased(k).lapsed = FALSE
         /\ Unleased(k).status = k.status /\ Unleased(k).version = k.version
BY DEF CaseRecord, Unleased

LEMMA BumpedType ==
  ASSUME NEW k \in CaseRecord, NEW s \in Snapshot
  PROVE  CaseFine(Bumped(k, s)) /\ Bumped(k, s).status = k.status
<1>1. 0 \in 0..MaxAttempts
  BY SizeAssumption
<1> DEFINE u == Unleased(k)
<1>2. u \in CaseRecord /\ u.lease = NoWorker /\ u.lapsed = FALSE /\ u.status = k.status
  BY UnleasedType
<1> HIDE DEF u
<1>4. u.version + 1 \in Nat \ {0}
  BY <1>2 DEF CaseRecord
<1>3. LET b == [u EXCEPT !.snap = s, !.version = @ + 1, !.attempts = 0]
      IN  b \in CaseRecord /\ b.lease = NoWorker /\ b.lapsed = FALSE /\ b.status = k.status
  BY <1>1, <1>2, <1>4 DEF CaseRecord, Live
<1> QED
  BY <1>3 DEF Bumped, CaseFine, u

LEMMA DismissedType ==
  ASSUME NEW k \in CaseRecord, NEW s \in Snapshot, NEW at \in Nat
  PROVE  CaseFine(Dismissed(k, s, at))
<1> DEFINE u == Unleased(k)
<1>2. u \in CaseRecord /\ u.lease = NoWorker /\ u.lapsed = FALSE
  BY UnleasedType
<1> HIDE DEF u
<1>4. u.version + 1 \in Nat \ {0}
  BY <1>2 DEF CaseRecord
<1>3. LET b == [u EXCEPT !.snap = s, !.version = @ + 1, !.status = "dismissed", !.next = at]
      IN  b \in CaseRecord /\ b.lease = NoWorker /\ b.lapsed = FALSE
  BY <1>2, <1>4 DEF CaseRecord, Live
<1> QED
  BY <1>3 DEF Dismissed, CaseFine, u

LEMMA ResolvedType ==
  ASSUME NEW k \in CaseRecord, NEW p \in Position \cup {NoPosition}, NEW at \in Nat
  PROVE  CaseFine(Resolved(k, p, at))
<1> DEFINE u == Unleased(k)
<1>2. u \in CaseRecord /\ u.lease = NoWorker /\ u.lapsed = FALSE
  BY UnleasedType
<1> HIDE DEF u
<1>4. u.version + 1 \in Nat \ {0}
  BY <1>2 DEF CaseRecord
<1>3. LET b == [u EXCEPT !.status = "resolved", !.preferred = p, !.version = @ + 1, !.next = at]
      IN  b \in CaseRecord /\ b.lease = NoWorker /\ b.lapsed = FALSE
  BY <1>2, <1>4 DEF CaseRecord, Live
<1> QED
  BY <1>3 DEF Resolved, CaseFine, u

LEMMA OverdueType ==
  ASSUME NEW k \in CaseRecord, NEW at \in Nat
  PROVE  CaseFine(Overdue(k, at))
<1>1. 0 \in 0..MaxAttempts /\ at + TicksPerDay \in Nat
  BY SizeAssumption
<1> DEFINE u == Unleased(k)
<1>2. u \in CaseRecord /\ u.lease = NoWorker /\ u.lapsed = FALSE
  BY UnleasedType
<1> HIDE DEF u
<1>3. LET b == [u EXCEPT !.status = "overdue", !.next = at + TicksPerDay, !.attempts = 0]
      IN  b \in CaseRecord /\ b.lease = NoWorker /\ b.lapsed = FALSE
  BY <1>1, <1>2 DEF CaseRecord, Live
<1> QED
  BY <1>3 DEF Overdue, CaseFine, u

LEMMA ReleasedType ==
  ASSUME NEW k \in CaseRecord, NEW at \in Nat
  PROVE  CaseFine(Released(k, at))
<1> DEFINE n == IF DueAt > at /\ at + TicksPerDay > DueAt THEN DueAt ELSE at + TicksPerDay
           u == Unleased(k)
<1>1. 0 \in 0..MaxAttempts /\ n \in Nat
  BY SizeAssumption
<1>2. u \in CaseRecord /\ u.lease = NoWorker /\ u.lapsed = FALSE
  BY UnleasedType
<1>3. Released(k, at) = [u EXCEPT !.next = n, !.attempts = 0]
  BY DEF Released
<1> HIDE DEF u, n
<1>4. LET b == [u EXCEPT !.next = n, !.attempts = 0]
      IN  b \in CaseRecord /\ b.lease = NoWorker /\ b.lapsed = FALSE
  BY <1>1, <1>2 DEF CaseRecord
<1> QED
  BY <1>3, <1>4 DEF CaseFine

\* One live case is written; the closed ones stay.
LEMMA CaseWrite ==
  ASSUME CasesOK, NEW c \in Case, NEW r, CaseFine(r), kase[c].status \in Live,
         kase' = [kase EXCEPT ![c] = r]
  PROVE  CasesOK' /\ ClosedStep
<1>1. r \in CaseRecord
  BY DEF CaseFine
<1>2. kase' \in [Case -> CaseRecord] /\ kase'[c] = r /\ \A b \in Case : b # c => kase'[b] = kase[b]
  BY <1>1 DEF CasesOK
<1>3. \A b \in Case : CaseFine(kase'[b])
  BY <1>2 DEF CasesOK
<1> QED
  BY <1>2, <1>3 DEF CasesOK, ClosedStep

\* No case is written.
LEMMA CaseStays ==
  ASSUME CasesOK, UNCHANGED kase
  PROVE  CasesOK' /\ ClosedStep
BY DEF CasesOK, ClosedStep, CaseFine

\* No run is written, and the workers stay on the days they were on.
LEMMA RunStays ==
  ASSUME RunsOK, DoneOK, UNCHANGED runs, NEW w \in Worker,
         worker[w].pc # "idle" \/ worker' = worker,
         worker'[w].pc = "idle" \/ worker'[w].day = worker[w].day,
         \A v \in Worker : v # w => worker'[v] = worker[v]
  PROVE  RunsOK' /\ DoneOK' /\ RunStep
BY DEF RunsOK, DoneOK, RunStep, RunFine

-----------------------------------------------------------------------------
(* The tables                                                              *)

LEMMA SupersedeType ==
  ASSUME TablesOK, NEW c \in Case, Supersede(c)
  PROVE  TablesOK'
<1>1. \A a \in AttemptRow : [a EXCEPT !.status = "superseded"] \in AttemptRow
  BY DEF AttemptRow
<1>2. \A p \in PlanRecord : [p EXCEPT !.status = "superseded"] \in PlanRecord
  BY DEF PlanRecord
<1>3. assessed' \subseteq AttemptRow
  BY <1>1 DEF TablesOK, Supersede
<1>4. plans' \subseteq PlanRecord
  BY <1>2 DEF TablesOK, Supersede
<1> QED
  BY <1>3, <1>4 DEF TablesOK

LEMMA CompletedType ==
  ASSUME TablesOK, NEW w \in Worker, NEW st \in {"selected", "abstained", "failed"},
         NEW p \in Position \cup {NoPosition}, Completed(w, st, p)
  PROVE  assessed' \subseteq AttemptRow
<1>1. \A a \in AttemptRow : [a EXCEPT !.status = st, !.position = p] \in AttemptRow
  BY DEF AttemptRow
<1> QED
  BY <1>1 DEF TablesOK, Completed

LEMMA ExpiredType ==
  ASSUME TablesOK, NEW c, NEW v, NEW m, NEW date
  PROVE  Expired(c, v, m, date) \subseteq AttemptRow
<1>1. \A a \in AttemptRow : [a EXCEPT !.status = "failed"] \in AttemptRow
  BY DEF AttemptRow
<1> QED
  BY <1>1 DEF TablesOK, Expired

LEMMA PlannedType ==
  ASSUME TablesOK, WorkersOK, NEW w \in Worker, worker[w].pc \in {"plan", "commit"}
  PROVE  Planned(w) \subseteq PlanRecord
<1>1. worker[w] \in ResolveState
  BY Phases
<1>2. PlanRow(w) \in PlanRecord
  BY <1>1 DEF PlanRow, PlanRecord, ResolveState
<1> QED
  BY <1>2 DEF Planned, TablesOK

\* Facts about the evidence of a case that is under review.
LEMMA EvidenceType ==
  ASSUME ClockOK, NEW c \in Case
  PROVE  /\ evidence[c] \in Snapshot /\ LastWriter[evidence[c]] \in Position
         /\ Conflicted(c) => Majority[evidence[c]] \in Position \cup {NoPosition}
BY EvidenceAssumption DEF ClockOK, Conflicted

LEMMA DismissType ==
  ASSUME ClockOK, CasesOK, TablesOK, WorkersOK, NEW w \in Worker, worker[w].pc \in InCase,
         Dismiss(w, worker[w].case), kase[worker[w].case].status \in Live
  PROVE  CasesOK' /\ ClosedStep /\ TablesOK'
<1> DEFINE c == worker[w].case
<1>1. c \in Case /\ worker[w].at \in Nat
  BY Phases, SizeAssumption
<1>2. kase[c] \in CaseRecord /\ evidence[c] \in Snapshot
  BY <1>1, EvidenceType DEF CasesOK
<1> DEFINE r == Dismissed(kase[c], evidence[c], worker[w].at)
<1>3. CaseFine(r)
  BY <1>1, <1>2, DismissedType
<1>4. kase' = [kase EXCEPT ![c] = r] /\ Supersede(c) /\ kase[c].status \in Live
  BY DEF Dismiss
<1> HIDE DEF r, c
<1>5. CasesOK' /\ ClosedStep
  BY <1>1, <1>3, <1>4, CaseWrite
<1>6. TablesOK'
  BY <1>1, <1>4, SupersedeType
<1> QED
  BY <1>5, <1>6
-----------------------------------------------------------------------------
(* The actions                                                             *)

\* The variables that no step of a worker writes.
LEMMA ClockStays ==
  ASSUME ClockOK, UNCHANGED <<now, evidence, changes>>, UNCHANGED faults \/ Fault
  PROVE  ClockOK'
BY SizeAssumption DEF ClockOK, Fault

LEMMA InitIInv == Init => IInv
<1> SUFFICES ASSUME Init PROVE IInv
  OBVIOUS
<1>1. ClockOK
  BY SizeAssumption, EvidenceAssumption DEF Init, ClockOK
<1>2. CasesOK
  <2> DEFINE k == [status |-> "open", version |-> 1, snap |-> FirstSnapshot, lease |-> NoWorker,
                   lapsed |-> FALSE, run |-> 0, attempts |-> 0, next |-> 0, preferred |-> NoPosition]
  <2>1. CaseFine(k)
    BY FirstDay, SizeAssumption, EvidenceAssumption DEF CaseFine, CaseRecord, Live
  <2>2. kase = [c \in Case |-> k]
    BY DEF Init
  <2> HIDE DEF k
  <2> QED
    BY <2>1, <2>2 DEF CasesOK, CaseFine
<1>3. RunsOK /\ DoneOK
  BY DEF Init, RunsOK, RunFine, RunRecord, DoneOK
<1>4. TablesOK
  BY DEF Init, TablesOK
<1>5. WorkersOK
  BY IdleType DEF Init, WorkersOK
<1> QED
  BY <1>1, <1>2, <1>3, <1>4, <1>5 DEF IInv

\* A run that is not completed is taken.
LEMMA ReserveType ==
  ASSUME RunsOK, DoneOK, NEW w \in Worker, NEW d \in Days, Reservable(d, w), Reserve(d, w),
         worker'[w].day = d,
         worker[w].pc = "idle" \/ worker[w].day = d,
         \A v \in Worker : v # w => worker'[v] = worker[v]
  PROVE  RunsOK' /\ DoneOK' /\ RunStep
<1> DEFINE r == [status |-> "running", worker |-> w, lapsed |-> FALSE]
<1>1. RunFine(r) /\ r \in RunRecord /\ r.status = "running"
  BY DEF RunFine, RunRecord
<1>2. runs' = [runs EXCEPT ![d] = r]
  BY DEF Reserve
<1>3. runs[d].status # "completed"
  BY DEF Reservable
<1> HIDE DEF r
<1>4. runs' \in [Days -> RunRecord] /\ runs'[d] = r /\ \A e \in Days : e # d => runs'[e] = runs[e]
  BY <1>1, <1>2 DEF RunsOK
<1>5. RunsOK'
  BY <1>1, <1>4 DEF RunsOK
<1>6. DoneOK'
  BY <1>1, <1>4 DEF DoneOK
<1>7. RunStep
  BY <1>3, <1>4 DEF RunStep
<1> QED
  BY <1>5, <1>6, <1>7

LEMMA StartStep == ASSUME IInv, NEW w \in Worker, Start(w) PROVE IInv' /\ ClosedStep /\ RunStep
<1> USE DEF IInv
<1> DEFINE d == Day(now)
<1>1. d \in Days
  BY DayType DEF ClockOK
<1>2. /\ worker[w].pc = "idle" /\ Reservable(d, w) /\ Reserve(d, w) /\ UNCHANGED kase
      /\ UNCHANGED <<now, evidence, changes>> /\ (UNCHANGED faults \/ Fault) /\ UNCHANGED <<assessed, plans>>
  BY DEF Start
<1>3. Idle \in LoopState
  BY FirstDay DEF Idle, LoopState
<1> DEFINE r == [Idle EXCEPT !.pc = "renew", !.day = d]
           q == [Idle EXCEPT !.pc = "renew", !.day = d, !.failed = TRUE]
<1>4. r \in WorkerState /\ r.day = d
  BY <1>1, <1>3 DEF WorkerState, LoopState
<1>5. q \in WorkerState /\ q.day = d
  BY <1>1, <1>3 DEF WorkerState, LoopState
<1>10. Put(w, r) \/ Put(w, q)
  BY DEF Start
<1> HIDE DEF r, q, d
<1>6. WorkersOK' /\ worker'[w].day = d /\ \A v \in Worker : v # w => worker'[v] = worker[v]
  <2>1. CASE Put(w, r)
    BY <1>4, <2>1, PutType
  <2>2. CASE Put(w, q)
    BY <1>5, <2>2, PutType
  <2> QED
    BY <1>10, <2>1, <2>2
<1>7. RunsOK' /\ DoneOK' /\ RunStep
  BY <1>1, <1>2, <1>6, ReserveType
<1>8. ClockOK' /\ CasesOK' /\ ClosedStep
  BY <1>2, ClockStays, CaseStays
<1>9. TablesOK'
  BY <1>2 DEF TablesOK
<1> QED
  BY <1>6, <1>7, <1>8, <1>9

LEMMA RenewStep == ASSUME IInv, NEW w \in Worker, Renew(w) PROVE IInv' /\ ClosedStep /\ RunStep
<1> USE DEF IInv
<1> DEFINE d == worker[w].day
<1>1. worker[w].pc = "renew" /\ worker[w] \in LoopState /\ d \in Days
  BY Phases DEF Renew
<1>2. /\ UNCHANGED kase /\ UNCHANGED <<now, evidence, changes>> /\ UNCHANGED faults /\ UNCHANGED <<assessed, plans>>
  BY DEF Renew
<1>3. ClockOK' /\ CasesOK' /\ ClosedStep /\ TablesOK'
  BY <1>2, ClockStays, CaseStays DEF TablesOK
<1>4. CASE Reservable(d, w) /\ Reserve(d, w) /\ Put(w, [worker[w] EXCEPT !.pc = "claim"])
  <2>1. [worker[w] EXCEPT !.pc = "claim"] \in WorkerState /\ [worker[w] EXCEPT !.pc = "claim"].day = d
    BY <1>1 DEF WorkerState, LoopState
  <2>2. WorkersOK' /\ worker'[w].day = d /\ \A v \in Worker : v # w => worker'[v] = worker[v]
    BY <1>4, <2>1, PutType
  <2>3. RunsOK' /\ DoneOK' /\ RunStep
    BY <1>1, <1>4, <2>2, ReserveType
  <2> QED
    BY <1>3, <2>2, <2>3
<1>5. CASE Put(w, [worker[w] EXCEPT !.pc = "finish", !.failed = TRUE]) /\ UNCHANGED runs
  <2> DEFINE r == [worker[w] EXCEPT !.pc = "finish", !.failed = TRUE]
  <2>1. r \in WorkerState /\ r.day = d
    BY <1>1 DEF WorkerState, LoopState
  <2> HIDE DEF r
  <2>2. WorkersOK' /\ worker'[w].day = d /\ \A v \in Worker : v # w => worker'[v] = worker[v]
    BY <1>5, <2>1, PutType DEF r
  <2>3. RunsOK' /\ DoneOK' /\ RunStep
    BY <1>1, <1>5, <2>2, RunStays
  <2> QED
    BY <1>3, <2>2, <2>3
<1> QED
  BY <1>4, <1>5 DEF Renew

\* A claimed case is still a case; it was live and its attempts had room.
LEMMA ClaimedType ==
  ASSUME CasesOK, WorkersOK, NEW w \in Worker, NEW c \in Case, Claimable(c, w)
  PROVE  CaseFine(ClaimedCase(c, w)) /\ kase[c].status \in Live
<1> DEFINE k == kase[c]
           d == worker[w].day
<1>1. k \in CaseRecord /\ d \in Days /\ k.status \in Live /\ k.attempts < MaxAttempts
  BY Phases DEF CasesOK, Claimable
<1>2. k.attempts + 1 \in 0..MaxAttempts
  BY <1>1, SizeAssumption DEF CaseRecord
<1>3. ClaimedCase(c, w) = [k EXCEPT !.lease = w, !.lapsed = FALSE, !.run = d, !.attempts = @ + 1]
  BY DEF ClaimedCase
<1> HIDE DEF k, d
<1>4. LET b == [k EXCEPT !.lease = w, !.lapsed = FALSE, !.run = d, !.attempts = @ + 1]
      IN  b \in CaseRecord /\ b.status = k.status
  BY <1>1, <1>2 DEF CaseRecord
<1> QED
  BY <1>1, <1>3, <1>4 DEF CaseFine, k

LEMMA ClaimStep == ASSUME IInv, NEW w \in Worker, Claim(w) PROVE IInv' /\ ClosedStep /\ RunStep
<1> USE DEF IInv
<1>1. worker[w].pc = "claim" /\ worker[w] \in LoopState
  BY Phases DEF Claim
<1>2. /\ UNCHANGED <<now, evidence, changes>> /\ UNCHANGED faults /\ UNCHANGED <<assessed, plans>> /\ UNCHANGED runs
  BY DEF Claim
<1>3. ClockOK' /\ TablesOK'
  BY <1>2, ClockStays DEF TablesOK
<1>4. CASE \E c \in Case :
             /\ Claimable(c, w)
             /\ kase' = [kase EXCEPT ![c] = ClaimedCase(c, w)]
             /\ Put(w, [pc |-> "review", day |-> worker[w].day, case |-> c, at |-> now,
                        tried |-> worker[w].tried \cup {c}, failed |-> worker[w].failed])
  <2>1. PICK c \in Case :
             /\ Claimable(c, w)
             /\ kase' = [kase EXCEPT ![c] = ClaimedCase(c, w)]
             /\ Put(w, [pc |-> "review", day |-> worker[w].day, case |-> c, at |-> now,
                        tried |-> worker[w].tried \cup {c}, failed |-> worker[w].failed])
    BY <1>4
  <2> DEFINE r == [pc |-> "review", day |-> worker[w].day, case |-> c, at |-> now,
                   tried |-> worker[w].tried \cup {c}, failed |-> worker[w].failed]
  <2>2. r \in WorkerState /\ r.day = worker[w].day
    BY <1>1 DEF WorkerState, LoopState, CaseState, ClockOK
  <2> HIDE DEF r
  <2>3. WorkersOK' /\ worker'[w].day = worker[w].day /\ \A v \in Worker : v # w => worker'[v] = worker[v]
    BY <2>1, <2>2, PutType DEF r
  <2>4. RunsOK' /\ DoneOK' /\ RunStep
    BY <1>1, <1>2, <2>3, RunStays
  <2>5. CasesOK' /\ ClosedStep
    BY <2>1, ClaimedType, CaseWrite
  <2> QED
    BY <1>3, <2>3, <2>4, <2>5
<1>5. CASE Put(w, [worker[w] EXCEPT !.pc = "finish"]) /\ UNCHANGED kase
  <2>1. [worker[w] EXCEPT !.pc = "finish"] \in WorkerState /\ [worker[w] EXCEPT !.pc = "finish"].day = worker[w].day
    BY <1>1 DEF WorkerState, LoopState
  <2>2. WorkersOK' /\ worker'[w].day = worker[w].day /\ \A v \in Worker : v # w => worker'[v] = worker[v]
    BY <1>5, <2>1, PutType
  <2>3. RunsOK' /\ DoneOK' /\ RunStep
    BY <1>1, <1>2, <2>2, RunStays
  <2> QED
    BY <1>3, <1>5, <2>2, <2>3, CaseStays
<1> QED
  BY <1>4, <1>5 DEF Claim

LEMMA FinishStep == ASSUME IInv, NEW w \in Worker, Finish(w) PROVE IInv' /\ ClosedStep /\ RunStep
<1> USE DEF IInv
<1> DEFINE d == worker[w].day
<1>1. worker[w].pc = "finish" /\ d \in Days
  BY Phases DEF Finish
<1>2. /\ UNCHANGED kase /\ UNCHANGED <<now, evidence, changes>> /\ UNCHANGED faults /\ UNCHANGED <<assessed, plans>>
      /\ CompleteRun(w)
  BY DEF Finish
<1>3. ClockOK' /\ CasesOK' /\ ClosedStep /\ TablesOK'
  BY <1>2, ClockStays, CaseStays DEF TablesOK
<1>4. WorkersOK' /\ worker'[w].pc = "idle" /\ \A v \in Worker : v # w => worker'[v] = worker[v]
  BY IdleType, PutType DEF Finish
<1>5. CASE runs[d].worker # w
  <2>1. UNCHANGED runs
    BY <1>2, <1>5 DEF CompleteRun
  <2> QED
    BY <1>1, <1>3, <1>4, <2>1, RunStays
<1>6. CASE runs[d].worker = w
  <2> DEFINE st == IF worker[w].failed THEN "failed" ELSE "completed"
             r == [runs[d] EXCEPT !.status = st, !.lapsed = FALSE]
  <2>1. runs' = [runs EXCEPT ![d] = r]
    BY <1>2, <1>6 DEF CompleteRun
  <2>2. st \in {"failed", "completed"} /\ runs[d] \in RunRecord
    BY <1>1 DEF RunsOK
  <2> HIDE DEF st
  <2>3. r \in RunRecord /\ r.lapsed = FALSE /\ r.worker = w
    BY <2>2, <1>6 DEF RunRecord
  <2> HIDE DEF r
  <2>4. RunFine(r)
    BY <2>3 DEF RunFine
  <2>5. runs' \in [Days -> RunRecord] /\ runs'[d] = r /\ \A e \in Days : e # d => runs'[e] = runs[e]
    BY <1>1, <2>1, <2>3 DEF RunsOK
  <2>6. RunsOK'
    BY <2>4, <2>5 DEF RunsOK
  <2>7. DoneOK'
    BY <1>4, <2>3, <2>5 DEF DoneOK
  <2>8. RunStep
    BY <1>1, <1>6, <2>5 DEF RunStep, DoneOK
  <2> QED
    BY <1>3, <1>4, <2>6, <2>7, <2>8
<1> QED
  BY <1>5, <1>6

(* What a step within a case keeps: the runs are not written by it. *)
Rest == ClockOK' /\ WorkersOK' /\ RunsOK' /\ DoneOK' /\ RunStep

\* A worker goes on with its case.
LEMMA PutKeeps ==
  ASSUME IInv, NEW w \in Worker, worker[w].pc # "idle", NEW r \in WorkerState, r.day = worker[w].day, Put(w, r),
         UNCHANGED <<now, evidence, changes>>, UNCHANGED faults \/ Fault, UNCHANGED runs
  PROVE  Rest
<1>1. WorkersOK' /\ worker'[w] = r /\ \A v \in Worker : v # w => worker'[v] = worker[v]
  BY PutType DEF IInv
<1>2. RunsOK' /\ DoneOK' /\ RunStep
  BY <1>1, RunStays DEF IInv
<1>3. ClockOK'
  BY ClockStays DEF IInv
<1> QED
  BY <1>1, <1>2, <1>3 DEF Rest

\* A worker is done with its case.
LEMMA NextCaseKeeps ==
  ASSUME IInv, NEW w \in Worker, worker[w].pc # "idle", NEW f \in BOOLEAN, NextCase(w, f),
         UNCHANGED <<now, evidence, changes>>, UNCHANGED faults \/ Fault, UNCHANGED runs
  PROVE  Rest
<1>1. WorkersOK' /\ worker'[w].day = worker[w].day /\ \A v \in Worker : v # w => worker'[v] = worker[v]
  BY NextCaseType DEF IInv
<1>2. RunsOK' /\ DoneOK' /\ RunStep
  BY <1>1, RunStays DEF IInv
<1>3. ClockOK'
  BY ClockStays DEF IInv
<1> QED
  BY <1>1, <1>2, <1>3 DEF Rest

\* The tables are not written.
LEMMA TablesStay == ASSUME TablesOK, UNCHANGED <<assessed, plans>> PROVE TablesOK'
BY DEF TablesOK

\* The record a review goes on with.
LEMMA RefreshedType ==
  ASSUME IInv, NEW c \in Case
  PROVE  Refreshed(c) \in CaseRecord
BY BumpedType, EvidenceType DEF IInv, CasesOK, Refreshed, CaseFine

LEMMA RefreshTablesType ==
  ASSUME TablesOK, NEW c \in Case, RefreshTables(c)
  PROVE  TablesOK'
BY SupersedeType, TablesStay DEF RefreshTables

LEMMA EvaluateStep ==
  ASSUME IInv, NEW w \in Worker, worker[w].pc = "review", Conflicted(worker[w].case),
         kase[worker[w].case].status \in Live, Evaluate(w, worker[w].case),
         UNCHANGED <<now, evidence, changes>>, UNCHANGED faults, UNCHANGED runs
  PROVE  Rest /\ CasesOK' /\ ClosedStep
<1> DEFINE c == worker[w].case
           at == worker[w].at
           k == Refreshed(c)
<1>1. c \in Case /\ at \in Nat /\ worker[w] \in CaseState
  BY Phases, SizeAssumption DEF IInv, InCase
<1>2. k \in CaseRecord /\ CasesOK /\ kase[c].status \in Live
  BY <1>1, RefreshedType DEF IInv
<1>3. Majority[evidence[c]] \in Position \cup {NoPosition}
  BY <1>1, EvidenceType DEF IInv
<1>4. CASE kase' = [kase EXCEPT ![c] = Released(k, at)] /\ NextCase(w, FALSE)
  <2>1. CaseFine(Released(k, at))
    BY <1>1, <1>2, ReleasedType
  <2>2. Rest
    BY <1>4, NextCaseKeeps
  <2> QED
    BY <1>1, <1>2, <1>4, <2>1, <2>2, CaseWrite
<1>5. CASE kase' = [kase EXCEPT ![c] = Resolved(k, Majority[evidence[c]], at)] /\ NextCase(w, FALSE)
  <2>1. CaseFine(Resolved(k, Majority[evidence[c]], at))
    BY <1>1, <1>2, <1>3, ResolvedType
  <2>2. Rest
    BY <1>5, NextCaseKeeps
  <2> QED
    BY <1>1, <1>2, <1>5, <2>1, <2>2, CaseWrite
<1>6. CASE kase' = [kase EXCEPT ![c] = Overdue(k, at)] /\ Put(w, [worker[w] EXCEPT !.pc = "resume"])
  <2>1. CaseFine(Overdue(k, at))
    BY <1>1, <1>2, OverdueType
  <2> DEFINE r == [worker[w] EXCEPT !.pc = "resume"]
  <2>2. r \in WorkerState /\ r.day = worker[w].day
    BY <1>1 DEF CaseState, WorkerState
  <2> HIDE DEF r
  <2>3. Put(w, r)
    BY <1>6 DEF r
  <2>4. Rest
    BY <2>2, <2>3, PutKeeps
  <2> QED
    BY <1>1, <1>2, <1>6, <2>1, <2>4, CaseWrite
<1> QED
  BY <1>4, <1>5, <1>6 DEF Evaluate

LEMMA ReviewStep == ASSUME IInv, NEW w \in Worker, Review(w) PROVE IInv' /\ ClosedStep /\ RunStep
<1> DEFINE c == worker[w].case
<1>1. worker[w].pc = "review" /\ c \in Case /\ CasesOK /\ TablesOK
  BY Phases DEF Review, InCase, IInv
<1>2. UNCHANGED <<now, evidence, changes>> /\ UNCHANGED faults /\ UNCHANGED runs
  BY DEF Review
<1>3. ASSUME Holds(w, c) PROVE kase[c].status \in Live
  BY <1>1, <1>3, NoneAssumption DEF Holds, CasesOK, CaseFine
<1>4. CASE NextCase(w, TRUE) /\ UNCHANGED <<kase, assessed, plans>>
  <2>1. Rest
    BY <1>1, <1>2, <1>4, NextCaseKeeps
  <2> QED
    BY <1>1, <1>4, <2>1, CaseStays, TablesStay DEF Rest, IInv
<1>5. CASE Holds(w, c) /\ Dismiss(w, c) /\ NextCase(w, FALSE)
  <2>1. Rest
    BY <1>1, <1>2, <1>5, NextCaseKeeps
  <2>2. CasesOK' /\ ClosedStep /\ TablesOK'
    BY <1>1, <1>3, <1>5, DismissType DEF IInv, InCase
  <2> QED
    BY <2>1, <2>2 DEF Rest, IInv
<1>6. CASE Holds(w, c) /\ Conflicted(c) /\ RefreshTables(c) /\ Evaluate(w, c)
  <2>1. Rest /\ CasesOK' /\ ClosedStep
    BY <1>1, <1>2, <1>3, <1>6, EvaluateStep
  <2>2. TablesOK'
    BY <1>1, <1>6, RefreshTablesType
  <2> QED
    BY <2>1, <2>2 DEF Rest, IInv
<1> QED
  BY <1>4, <1>5, <1>6 DEF Review

\* A worker that goes on to resolve its case.
LEMMA ResolvingType ==
  ASSUME WorkersOK, NEW w \in Worker, worker[w].pc \in InCase, NEW v \in Nat \ {0}, NEW date \in Days,
         NEW m \in Model, NEW p \in Position, NEW method \in Method
  PROVE  Resolving(w, v, date, m, p, method) \in WorkerState
         /\ Resolving(w, v, date, m, p, method).day = worker[w].day
<1>1. Resolving(w, v, date, m, p, method) \in ResolveState
  BY Phases DEF Resolving, ResolveState
<1>2. Resolving(w, v, date, m, p, method).day = worker[w].day
  BY DEF Resolving
<1> QED
  BY <1>1, <1>2 DEF WorkerState

LEMMA ResumeStep == ASSUME IInv, NEW w \in Worker, Resume(w) PROVE IInv' /\ ClosedStep /\ RunStep
<1> DEFINE c == worker[w].case
<1>1. /\ worker[w].pc = "resume" /\ c \in Case /\ worker[w].at \in 0..MaxNow
      /\ WorkersOK /\ CasesOK /\ TablesOK
  BY Phases DEF Resume, InCase, IInv
<1>2. UNCHANGED <<now, evidence, changes>> /\ UNCHANGED faults /\ UNCHANGED runs /\ UNCHANGED <<kase, assessed, plans>>
  BY DEF Resume
<1>3. CasesOK' /\ ClosedStep /\ TablesOK'
  BY <1>1, <1>2, CaseStays, TablesStay
<1>4. CASE \E p \in PendingPlans(c) : Put(w, Resolving(w, p.version, p.date, p.model, p.position, p.method))
  <2>1. PICK p \in PendingPlans(c) : Put(w, Resolving(w, p.version, p.date, p.model, p.position, p.method))
    BY <1>4
  <2>2. p \in PlanRecord
    BY <1>1 DEF TablesOK, PendingPlans
  <2>3. p.version \in Nat \ {0} /\ p.date \in Days /\ p.model \in Model /\ p.position \in Position /\ p.method \in Method
    BY <2>2 DEF PlanRecord
  <2> DEFINE r == Resolving(w, p.version, p.date, p.model, p.position, p.method)
  <2>4. r \in WorkerState /\ r.day = worker[w].day
    BY <1>1, <2>3, ResolvingType DEF InCase
  <2> HIDE DEF r
  <2>5. Rest
    BY <1>1, <1>2, <2>1, <2>4, PutKeeps DEF r
  <2> QED
    BY <1>3, <2>5 DEF Rest, IInv
<1>5. CASE \E m \in Model :
             Put(w, [pc |-> "reserve", day |-> worker[w].day, tried |-> worker[w].tried,
                     failed |-> worker[w].failed, case |-> c, at |-> worker[w].at, date |-> Day(worker[w].at), model |-> m])
  <2>1. PICK m \in Model :
             Put(w, [pc |-> "reserve", day |-> worker[w].day, tried |-> worker[w].tried,
                     failed |-> worker[w].failed, case |-> c, at |-> worker[w].at, date |-> Day(worker[w].at), model |-> m])
    BY <1>5
  <2> DEFINE r == [pc |-> "reserve", day |-> worker[w].day, tried |-> worker[w].tried,
                   failed |-> worker[w].failed, case |-> c, at |-> worker[w].at, date |-> Day(worker[w].at), model |-> m]
  <2>2. Day(worker[w].at) \in Days
    BY <1>1, DayType
  <2>3. r \in ReserveState /\ r.day = worker[w].day
    BY <1>1, <2>2, Phases DEF ReserveState
  <2>4. Put(w, r)
    BY <2>1
  <2> HIDE DEF r
  <2>5. r \in WorkerState
    BY <2>3 DEF WorkerState
  <2>6. Rest
    BY <1>1, <1>2, <2>3, <2>4, <2>5, PutKeeps
  <2> QED
    BY <1>3, <2>6 DEF Rest, IInv
<1>6. \A m \in Configured[worker[w].day] : m \in Model
  BY <1>1, Phases, ConfiguredAssumption DEF Days, Day
<1> QED
  BY <1>4, <1>5, <1>6 DEF Resume

LEMMA ReserveAssessmentStep ==
  ASSUME IInv, NEW w \in Worker, ReserveAssessment(w) PROVE IInv' /\ ClosedStep /\ RunStep
<1> DEFINE c == worker[w].case
           v == kase[c].version
           m == worker[w].model
           date == worker[w].date
           failed == ExpiredFailures(c, v, m, date)
<1>1. /\ worker[w].pc = "reserve" /\ c \in Case /\ worker[w].at \in 0..MaxNow /\ m \in Model /\ date \in Days
      /\ WorkersOK /\ CasesOK /\ TablesOK /\ ClockOK
  BY Phases DEF ReserveAssessment, InCase, IInv, ReserveState
<1>2. UNCHANGED <<now, evidence, changes>> /\ UNCHANGED faults /\ UNCHANGED runs /\ UNCHANGED kase /\ UNCHANGED plans
  BY DEF ReserveAssessment
<1>3. CasesOK' /\ ClosedStep
  BY <1>1, <1>2, CaseStays
<1>4. v \in Nat \ {0} /\ kase[c].snap \in Snapshot /\ evidence[c] \in Snapshot /\ LastWriter[evidence[c]] \in Position
  BY <1>1, EvidenceType DEF CasesOK, CaseRecord
<1>5. Expired(c, v, m, date) \subseteq AttemptRow
  BY <1>1, ExpiredType
<1>6. CASE NextCase(w, FALSE) /\ UNCHANGED assessed
  <2>1. Rest
    BY <1>1, <1>2, <1>6, NextCaseKeeps
  <2>2. TablesOK'
    BY <1>1, <1>2, <1>6, TablesStay
  <2> QED
    BY <1>3, <2>1, <2>2 DEF Rest, IInv
<1>7. CASE /\ assessed' = Expired(c, v, m, date)
           /\ \E a \in failed : Put(w, Resolving(w, v, a.date, m, LastWriter[evidence[c]], "last_write_wins"))
  <2>1. PICK a \in failed : Put(w, Resolving(w, v, a.date, m, LastWriter[evidence[c]], "last_write_wins"))
    BY <1>7
  <2>2. a \in AttemptRow
    BY <1>5 DEF ExpiredFailures
  <2>3. a.date \in Days /\ "last_write_wins" \in Method
    BY <2>2 DEF AttemptRow, Method
  <2> DEFINE r == Resolving(w, v, a.date, m, LastWriter[evidence[c]], "last_write_wins")
  <2>4. r \in WorkerState /\ r.day = worker[w].day
    BY <1>1, <1>4, <2>3, ResolvingType DEF InCase
  <2> HIDE DEF r
  <2>5. Rest
    BY <1>1, <1>2, <2>1, <2>4, PutKeeps DEF r
  <2>6. TablesOK'
    BY <1>1, <1>2, <1>5, <1>7 DEF TablesOK
  <2> QED
    BY <1>3, <2>5, <2>6 DEF Rest, IInv
<1>8. CASE /\ assessed' = Expired(c, v, m, date) \cup {ReservedRow(c, date, m)}
           /\ Put(w, [pc |-> "assess", day |-> worker[w].day, tried |-> worker[w].tried,
                      failed |-> worker[w].failed, case |-> c, at |-> worker[w].at, date |-> date, model |-> m,
                      version |-> v, dossier |-> evidence[c]])
  <2> DEFINE r == [pc |-> "assess", day |-> worker[w].day, tried |-> worker[w].tried,
                   failed |-> worker[w].failed, case |-> c, at |-> worker[w].at, date |-> date, model |-> m,
                   version |-> v, dossier |-> evidence[c]]
  <2>1. r \in AssessState /\ r.day = worker[w].day
    BY <1>1, <1>4, Phases DEF AssessState
  <2>2. ReservedRow(c, date, m) \in AttemptRow
    BY <1>1, <1>4 DEF ReservedRow, AttemptRow
  <2>3. Put(w, r)
    BY <1>8
  <2> HIDE DEF r
  <2>4. r \in WorkerState
    BY <2>1 DEF WorkerState
  <2>5. Rest
    BY <1>1, <1>2, <2>1, <2>3, <2>4, PutKeeps
  <2>6. TablesOK'
    BY <1>1, <1>2, <1>5, <1>8, <2>2 DEF TablesOK
  <2> QED
    BY <1>3, <2>5, <2>6 DEF Rest, IInv
<1>9. CASE NextCase(w, FALSE) /\ assessed' = Expired(c, v, m, date)
  <2>1. Rest
    BY <1>1, <1>2, <1>9, NextCaseKeeps
  <2>2. TablesOK'
    BY <1>1, <1>2, <1>5, <1>9 DEF TablesOK
  <2> QED
    BY <1>3, <2>1, <2>2 DEF Rest, IInv
<1> QED
  BY <1>6, <1>7, <1>8, <1>9 DEF ReserveAssessment

LEMMA AssessStep == ASSUME IInv, NEW w \in Worker, Assess(w) PROVE IInv' /\ ClosedStep /\ RunStep
<1>1. /\ worker[w].pc = "assess" /\ WorkersOK /\ CasesOK /\ TablesOK
      /\ worker[w].version \in Nat \ {0} /\ worker[w].date \in Days /\ worker[w].model \in Model
      /\ worker[w].dossier \in Snapshot
  BY Phases DEF Assess, IInv, AssessState
<1>2. UNCHANGED <<now, evidence, changes>> /\ UNCHANGED faults /\ UNCHANGED runs /\ UNCHANGED kase /\ UNCHANGED plans
  BY DEF Assess
<1>3. CasesOK' /\ ClosedStep
  BY <1>1, <1>2, CaseStays
<1>4. ASSUME NEW p \in Position, NEW method \in Method, ResolveAs(w, p, method) PROVE Rest
  <2> DEFINE r == Resolving(w, worker[w].version, worker[w].date, worker[w].model, p, method)
  <2>1. r \in WorkerState /\ r.day = worker[w].day
    BY <1>1, ResolvingType DEF InCase
  <2>2. Put(w, r)
    BY <1>4 DEF ResolveAs
  <2> HIDE DEF r
  <2> QED
    BY <1>1, <1>2, <2>1, <2>2, PutKeeps
<1>5. ASSUME NEW f \in BOOLEAN, NextCase(w, f) PROVE Rest
  BY <1>1, <1>2, <1>5, NextCaseKeeps
<1>6. ASSUME NEW st \in {"selected", "abstained", "failed"}, NEW p \in Position \cup {NoPosition},
             Completed(w, st, p)
      PROVE  TablesOK'
  BY <1>1, <1>2, <1>6, CompletedType DEF TablesOK
<1>7. LastWriter[worker[w].dossier] \in Position /\ "ai" \in Method /\ "last_write_wins" \in Method
  BY <1>1, EvidenceAssumption DEF Method
<1>8. CASE (\E lost \in {FALSE, worker[w].model \in Required} : NextCase(w, lost)) /\ UNCHANGED assessed
  <2>1. NextCase(w, FALSE) \/ NextCase(w, worker[w].model \in Required)
    BY <1>8
  <2>2. (worker[w].model \in Required) \in BOOLEAN
    OBVIOUS
  <2>3. TablesOK'
    BY <1>1, <1>2, <1>8, TablesStay
  <2> QED
    BY <1>3, <1>5, <2>1, <2>2, <2>3 DEF Rest, IInv
<1>9. CASE \E p \in Position : Completed(w, "selected", p) /\ ResolveAs(w, p, "ai")
  <2>1. Rest /\ TablesOK'
    BY <1>4, <1>6, <1>7, <1>9
  <2> QED
    BY <1>3, <2>1 DEF Rest, IInv
<1>10. CASE Completed(w, "abstained", NoPosition) /\ ResolveAs(w, LastWriter[worker[w].dossier], "last_write_wins")
  <2>1. Rest /\ TablesOK'
    BY <1>4, <1>6, <1>7, <1>10
  <2> QED
    BY <1>3, <2>1 DEF Rest, IInv
<1>11. CASE /\ Completed(w, "failed", NoPosition)
            /\ \/ ResolveAs(w, LastWriter[worker[w].dossier], "last_write_wins")
               \/ NextCase(w, FALSE) \/ NextCase(w, TRUE)
  <2>1. Rest /\ TablesOK'
    BY <1>4, <1>5, <1>6, <1>7, <1>11
  <2> QED
    BY <1>3, <2>1 DEF Rest, IInv
<1> QED
  BY <1>8, <1>9, <1>10, <1>11 DEF Assess

-----------------------------------------------------------------------------
(* Plans                                                                   *)

\* A worker with a plan for a case that is as it expects, or not.
LEMMA StaleStep ==
  ASSUME IInv, NEW w \in Worker, worker[w].pc \in {"plan", "commit"}, Stale(w)
  PROVE  CasesOK' /\ ClosedStep /\ TablesOK'
<1> DEFINE c == worker[w].case
<1>1. c \in Case /\ worker[w].pc \in InCase /\ ClockOK /\ WorkersOK /\ CasesOK /\ TablesOK
  BY Phases DEF InCase, IInv
<1>2. CASE UNCHANGED <<kase, assessed, plans>>
  BY <1>1, <1>2, CaseStays, TablesStay
<1>3. CASE Expected(w) /\ Dismiss(w, c)
  <2>1. kase[c].status \in Live
    BY <1>3 DEF Expected, Live
  <2> QED
    BY <1>1, <1>3, <2>1, DismissType
<1>4. CASE Expected(w) /\ Supersede(c) /\ kase' = [kase EXCEPT ![c] = Bumped(@, evidence[c])]
  <2>1. kase[c].status \in Live
    BY <1>4 DEF Expected, Live
  <2>2. kase[c] \in CaseRecord /\ evidence[c] \in Snapshot
    BY <1>1, EvidenceType DEF CasesOK
  <2> DEFINE r == Bumped(kase[c], evidence[c])
  <2>3. CaseFine(r) /\ kase' = [kase EXCEPT ![c] = r]
    BY <1>4, <2>2, BumpedType
  <2> HIDE DEF r
  <2> QED
    BY <1>1, <1>4, <2>1, <2>3, CaseWrite, SupersedeType
<1> QED
  BY <1>2, <1>3, <1>4 DEF Stale

LEMMA DeferStep ==
  ASSUME IInv, NEW w \in Worker, worker[w].pc \in {"plan", "commit"}, Expected(w), Defer(w),
         UNCHANGED <<now, evidence, changes>>, UNCHANGED runs
  PROVE  IInv' /\ ClosedStep /\ RunStep
<1> DEFINE c == worker[w].case
<1>1. c \in Case /\ worker[w].at \in Nat /\ WorkersOK /\ CasesOK /\ TablesOK
  BY Phases, SizeAssumption DEF InCase, IInv
<1>2. kase[c].status \in Live
  BY DEF Expected, Live
<1> DEFINE r == Released(kase[c], worker[w].at)
<1>3. CaseFine(r)
  BY <1>1, ReleasedType DEF CasesOK
<1>4. kase' = [kase EXCEPT ![c] = r]
  BY DEF Defer
<1> HIDE DEF r
<1>5. CasesOK' /\ ClosedStep
  BY <1>1, <1>2, <1>3, <1>4, CaseWrite
<1>6. TablesOK'
  BY <1>1, PlannedType DEF Defer, TablesOK
<1>7. Rest
  BY NextCaseKeeps DEF Defer
<1> QED
  BY <1>5, <1>6, <1>7 DEF Rest, IInv

LEMMA PlanStep == ASSUME IInv, NEW w \in Worker, Plan(w) PROVE IInv' /\ ClosedStep /\ RunStep
<1>1. worker[w].pc = "plan" /\ WorkersOK /\ CasesOK /\ TablesOK /\ worker[w] \in ResolveState
  BY Phases DEF Plan, IInv
<1>2. UNCHANGED <<now, evidence, changes>> /\ UNCHANGED runs
  BY DEF Plan
<1>3. CASE Stale(w) /\ NextCase(w, FALSE) /\ UNCHANGED faults
  <2>1. Rest
    BY <1>1, <1>2, <1>3, NextCaseKeeps
  <2> QED
    BY <1>1, <1>3, <2>1, StaleStep DEF Rest, IInv
<1>4. CASE NextCase(w, TRUE) /\ UNCHANGED <<kase, assessed, plans, faults>>
  <2>1. Rest
    BY <1>1, <1>2, <1>4, NextCaseKeeps
  <2> QED
    BY <1>1, <1>4, <2>1, CaseStays, TablesStay DEF Rest, IInv
<1>5. CASE plans' = Planned(w) /\ Put(w, [worker[w] EXCEPT !.pc = "commit"]) /\ UNCHANGED <<kase, assessed, faults>>
  <2> DEFINE r == [worker[w] EXCEPT !.pc = "commit"]
  <2>1. r \in WorkerState /\ r.day = worker[w].day
    BY <1>1 DEF ResolveState, WorkerState
  <2> HIDE DEF r
  <2>2. Rest
    BY <1>1, <1>2, <1>5, <2>1, PutKeeps DEF r
  <2>3. TablesOK'
    BY <1>1, <1>5, PlannedType DEF TablesOK
  <2> QED
    BY <1>1, <1>5, <2>2, <2>3, CaseStays DEF Rest, IInv
<1>6. CASE Fresh(w) /\ Defer(w)
  BY <1>1, <1>2, <1>6, DeferStep DEF Fresh
<1> QED
  BY <1>3, <1>4, <1>5, <1>6 DEF Plan

LEMMA CommitStep == ASSUME IInv, NEW w \in Worker, Commit(w) PROVE IInv' /\ ClosedStep /\ RunStep
<1> DEFINE c == worker[w].case
<1>1. /\ worker[w].pc = "commit" /\ WorkersOK /\ CasesOK /\ TablesOK /\ c \in Case /\ worker[w].at \in Nat
      /\ worker[w].position \in Position
  BY Phases, SizeAssumption DEF Commit, IInv, InCase, ResolveState
<1>2. UNCHANGED <<now, evidence, changes>> /\ UNCHANGED runs
  BY DEF Commit
<1>3. CASE Stale(w) /\ NextCase(w, FALSE) /\ UNCHANGED faults
  <2>1. Rest
    BY <1>1, <1>2, <1>3, NextCaseKeeps
  <2> QED
    BY <1>1, <1>3, <2>1, StaleStep DEF Rest, IInv
<1>4. CASE /\ Fresh(w)
           /\ kase' = [kase EXCEPT ![c] = Resolved(@, worker[w].position, worker[w].at)]
           /\ plans' = {IF p \in PlanOf(w) THEN [p EXCEPT !.status = "applied"] ELSE p : p \in plans}
           /\ (NextCase(w, FALSE) /\ UNCHANGED faults) \/ (NextCase(w, TRUE) /\ Fault)
           /\ UNCHANGED assessed
  <2>1. Rest
    BY <1>1, <1>2, <1>4, NextCaseKeeps
  <2>2. kase[c].status \in Live /\ kase[c] \in CaseRecord
    BY <1>1, <1>4 DEF Fresh, Expected, Live, CasesOK
  <2> DEFINE r == Resolved(kase[c], worker[w].position, worker[w].at)
  <2>3. CaseFine(r) /\ kase' = [kase EXCEPT ![c] = r]
    BY <1>1, <1>4, <2>2, ResolvedType
  <2> HIDE DEF r
  <2>4. CasesOK' /\ ClosedStep
    BY <1>1, <2>2, <2>3, CaseWrite
  <2>5. \A p \in PlanRecord : [p EXCEPT !.status = "applied"] \in PlanRecord
    BY DEF PlanRecord
  <2>6. plans' \subseteq PlanRecord
    BY <1>1, <1>4, <2>5 DEF TablesOK
  <2>7. TablesOK'
    BY <1>1, <1>4, <2>6 DEF TablesOK
  <2> QED
    BY <2>1, <2>4, <2>7 DEF Rest, IInv
<1>5. CASE Fresh(w) /\ Defer(w)
  BY <1>1, <1>2, <1>5, DeferStep DEF Fresh
<1>6. CASE Fault /\ NextCase(w, FALSE) /\ UNCHANGED <<kase, assessed, plans>>
  <2>1. Rest
    BY <1>1, <1>2, <1>6, NextCaseKeeps
  <2> QED
    BY <1>1, <1>6, <2>1, CaseStays, TablesStay DEF Rest, IInv
<1> QED
  BY <1>3, <1>4, <1>5, <1>6 DEF Commit

-----------------------------------------------------------------------------
(* Faults and the environment                                              *)

LEMMA ErrorStep == ASSUME IInv, NEW w \in Worker, Error(w) \/ Crash(w) PROVE IInv' /\ ClosedStep /\ RunStep
<1>1. /\ UNCHANGED <<now, evidence, changes>> /\ UNCHANGED runs /\ UNCHANGED <<kase, assessed, plans>> /\ Fault
      /\ worker[w].pc # "idle" /\ WorkersOK /\ CasesOK /\ TablesOK
  BY DEF Error, Crash, IInv, InCase
<1>2. Rest
  <2>1. CASE NextCase(w, TRUE)
    BY <1>1, <2>1, NextCaseKeeps
  <2>2. CASE worker[w].pc \in {"renew", "claim"} /\ Put(w, [worker[w] EXCEPT !.pc = "finish", !.failed = TRUE])
    <3> DEFINE r == [worker[w] EXCEPT !.pc = "finish", !.failed = TRUE]
    <3>1. worker[w] \in LoopState
      BY <1>1, <2>2, Phases
    <3>2. r \in WorkerState /\ r.day = worker[w].day
      BY <3>1 DEF LoopState, WorkerState
    <3> HIDE DEF r
    <3> QED
      BY <1>1, <2>2, <3>2, PutKeeps DEF r
  <2>3. CASE Put(w, Idle)
    <3>1. WorkersOK' /\ worker'[w].pc = "idle" /\ \A v \in Worker : v # w => worker'[v] = worker[v]
      BY <1>1, <2>3, IdleType, PutType
    <3>2. RunsOK' /\ DoneOK' /\ RunStep
      BY <1>1, <3>1, RunStays DEF IInv
    <3> QED
      BY <1>1, <3>1, <3>2, ClockStays DEF Rest, IInv
  <2> QED
    BY <2>1, <2>2, <2>3 DEF Error, Crash
<1>3. CasesOK' /\ ClosedStep /\ TablesOK'
  BY <1>1, CaseStays, TablesStay
<1> QED
  BY <1>2, <1>3 DEF Rest, IInv

LEMMA RunLapsesStep == ASSUME IInv, NEW d \in Days, RunLapses(d) PROVE IInv' /\ ClosedStep /\ RunStep
<1> USE DEF IInv
<1>1. /\ runs[d].status = "running" /\ runs' = [runs EXCEPT ![d] = [@ EXCEPT !.lapsed = TRUE]]
      /\ UNCHANGED <<now, evidence, changes>> /\ (UNCHANGED faults \/ Fault) /\ UNCHANGED <<kase, assessed, plans>>
      /\ UNCHANGED worker
  BY DEF RunLapses
<1>2. ClockOK' /\ CasesOK' /\ ClosedStep /\ TablesOK' /\ WorkersOK'
  BY <1>1, ClockStays, CaseStays, TablesStay DEF WorkersOK
<1> DEFINE r == [runs[d] EXCEPT !.lapsed = TRUE]
<1>3. r \in RunRecord /\ r.status = "running"
  BY <1>1 DEF RunsOK, RunRecord
<1>4. runs' = [runs EXCEPT ![d] = r]
  BY <1>1
<1> HIDE DEF r
<1>5. runs' \in [Days -> RunRecord] /\ runs'[d] = r /\ \A e \in Days : e # d => runs'[e] = runs[e]
  BY <1>3, <1>4 DEF RunsOK
<1>6. RunsOK'
  BY <1>3, <1>5 DEF RunsOK, RunFine
<1>7. DoneOK' /\ RunStep
  BY <1>1, <1>3, <1>5 DEF DoneOK, RunStep
<1> QED
  BY <1>2, <1>6, <1>7

LEMMA CaseLapsesStep == ASSUME IInv, NEW c \in Case, CaseLapses(c) PROVE IInv' /\ ClosedStep /\ RunStep
<1> USE DEF IInv
<1>1. /\ kase[c].lease # NoWorker /\ kase' = [kase EXCEPT ![c] = [@ EXCEPT !.lapsed = TRUE]]
      /\ UNCHANGED <<now, evidence, changes>> /\ (UNCHANGED faults \/ Fault) /\ UNCHANGED <<assessed, plans>>
      /\ UNCHANGED worker /\ UNCHANGED runs
  BY DEF CaseLapses
<1>2. ClockOK' /\ TablesOK' /\ WorkersOK' /\ RunsOK' /\ DoneOK' /\ RunStep
  BY <1>1, ClockStays, TablesStay DEF WorkersOK, RunsOK, RunFine, DoneOK, RunStep
<1>3. kase[c].status \in Live /\ kase[c] \in CaseRecord
  BY <1>1 DEF CasesOK, CaseFine
<1> DEFINE r == [kase[c] EXCEPT !.lapsed = TRUE]
<1>4. r \in CaseRecord /\ r.status = kase[c].status
  BY <1>3 DEF CaseRecord
<1>5. kase' = [kase EXCEPT ![c] = r]
  BY <1>1
<1> HIDE DEF r
<1>6. CaseFine(r)
  BY <1>3, <1>4 DEF CaseFine
<1>7. CasesOK' /\ ClosedStep
  BY <1>3, <1>5, <1>6, CaseWrite
<1> QED
  BY <1>2, <1>7

LEMMA LeasesLapseStep ==
  ASSUME CasesOK, RunsOK, DoneOK, LeasesLapse, UNCHANGED worker
  PROVE  CasesOK' /\ ClosedStep /\ RunsOK' /\ DoneOK' /\ RunStep
<1>1. ASSUME NEW c \in Case PROVE CaseFine(kase'[c]) /\ (kase[c].status \notin Live => kase'[c] = kase[c])
  <2> DEFINE k == kase[c]
             l == (k.lease # NoWorker)
  <2>1. k \in CaseRecord /\ (k.status \notin Live => k.lease = NoWorker /\ k.lapsed = FALSE)
    BY DEF CasesOK, CaseFine
  <2>2. kase'[c] = [k EXCEPT !.lapsed = l]
    BY DEF LeasesLapse
  <2>3. l \in BOOLEAN /\ (k.status \notin Live => l = k.lapsed)
    BY <2>1
  <2> HIDE DEF k, l
  <2>4. [k EXCEPT !.lapsed = l] \in CaseRecord /\ [k EXCEPT !.lapsed = l].status = k.status
        /\ [k EXCEPT !.lapsed = l].lease = k.lease /\ [k EXCEPT !.lapsed = l].lapsed = l
    BY <2>1, <2>3 DEF CaseRecord
  <2>5. l = k.lapsed => [k EXCEPT !.lapsed = l] = k
    BY <2>1 DEF CaseRecord
  <2> QED
    BY <2>1, <2>2, <2>3, <2>4, <2>5 DEF CaseFine, k
<1>2. ASSUME NEW d \in Days PROVE RunFine(runs'[d]) /\ runs'[d].status = runs[d].status /\ runs'[d].worker = runs[d].worker
                                  /\ (runs[d].status = "completed" => runs'[d] = runs[d])
  <2> DEFINE k == runs[d]
             l == (k.status = "running")
  <2>1. k \in RunRecord /\ (k.status # "running" => k.lapsed = FALSE)
    BY DEF RunsOK, RunFine
  <2>2. runs'[d] = [k EXCEPT !.lapsed = l]
    BY DEF LeasesLapse
  <2>3. l \in BOOLEAN /\ (k.status # "running" => l = k.lapsed)
    BY <2>1
  <2> HIDE DEF k, l
  <2>4. [k EXCEPT !.lapsed = l] \in RunRecord /\ [k EXCEPT !.lapsed = l].status = k.status
        /\ [k EXCEPT !.lapsed = l].worker = k.worker /\ [k EXCEPT !.lapsed = l].lapsed = l
    BY <2>1, <2>3 DEF RunRecord
  <2>5. l = k.lapsed => [k EXCEPT !.lapsed = l] = k
    BY <2>1 DEF RunRecord
  <2> QED
    BY <2>1, <2>2, <2>3, <2>4, <2>5 DEF RunFine, k
<1>3. kase' \in [Case -> CaseRecord] /\ runs' \in [Days -> RunRecord]
  BY <1>1, <1>2 DEF LeasesLapse, CaseFine, RunFine
<1>4. CasesOK' /\ ClosedStep
  BY <1>1, <1>3 DEF CasesOK, ClosedStep
<1>5. RunsOK' /\ RunStep
  BY <1>2, <1>3 DEF RunsOK, RunStep
<1>6. DoneOK'
  BY <1>2 DEF DoneOK
<1> QED
  BY <1>4, <1>5, <1>6

LEMMA TickStep == ASSUME IInv, Tick \/ LateTick PROVE IInv' /\ ClosedStep /\ RunStep
<1> USE DEF IInv
<1>1. /\ now < MaxNow /\ now' = now + 1 /\ UNCHANGED <<evidence, assessed, plans, worker, changes>>
      /\ UNCHANGED faults \/ Fault
      /\ LeasesLapse \/ UNCHANGED <<runs, kase>>
  BY DEF Tick, LateTick
<1>2. ClockOK'
  BY <1>1, SizeAssumption DEF ClockOK, Fault
<1>3. TablesOK' /\ WorkersOK'
  BY <1>1 DEF TablesOK, WorkersOK
<1>4. CASE UNCHANGED <<runs, kase>>
  BY <1>1, <1>2, <1>3, <1>4, CaseStays DEF RunsOK, RunFine, DoneOK, RunStep
<1>5. CASE LeasesLapse
  BY <1>1, <1>2, <1>3, <1>5, LeasesLapseStep
<1> QED
  BY <1>1, <1>4, <1>5

LEMMA EvidenceStep ==
  ASSUME IInv, NEW c \in Case, NEW s \in Snapshot, ChangeEvidence(c, s) \/ PlaceEvidence(c, s)
  PROVE  IInv' /\ ClosedStep /\ RunStep
<1> USE DEF IInv
<1>1. /\ changes < MaxChanges /\ changes' = changes + 1 /\ evidence' = [evidence EXCEPT ![c] = s]
      /\ UNCHANGED <<now, runs, worker, faults>>
  BY DEF ChangeEvidence, PlaceEvidence
<1>2. ClockOK' /\ WorkersOK' /\ RunsOK' /\ DoneOK' /\ RunStep
  BY <1>1, SizeAssumption DEF ClockOK, WorkersOK, RunsOK, RunFine, DoneOK, RunStep
<1>3. CASE UNCHANGED <<kase, assessed, plans>>
  BY <1>2, <1>3, CaseStays, TablesStay
<1>4. CASE kase[c].status \in Live /\ Supersede(c) /\ kase' = [kase EXCEPT ![c] = Bumped(@, s)]
  <2> DEFINE r == Bumped(kase[c], s)
  <2>1. CaseFine(r) /\ kase' = [kase EXCEPT ![c] = r]
    BY <1>4, BumpedType DEF CasesOK
  <2> HIDE DEF r
  <2> QED
    BY <1>2, <1>4, <2>1, CaseWrite, SupersedeType
<1> QED
  BY <1>3, <1>4 DEF ChangeEvidence, PlaceEvidence

-----------------------------------------------------------------------------
(* Theorems                                                                *)

LEMMA NextStep == ASSUME IInv, [Next]_vars PROVE IInv' /\ ClosedStep /\ RunStep
<1>1. CASE UNCHANGED vars
  <2>1. UNCHANGED <<kase, assessed, plans, now, evidence, runs, worker, faults, changes>> /\ CasesOK
    BY <1>1 DEF vars, IInv
  <2>2. CasesOK' /\ ClosedStep
    BY <2>1, CaseStays
  <2> QED
    BY <2>1, <2>2 DEF IInv, ClockOK, RunsOK, RunFine, TablesOK, WorkersOK, DoneOK, RunStep
<1>2. ASSUME NEW w \in Worker, Step(w) PROVE IInv' /\ ClosedStep /\ RunStep
  BY <1>2, StartStep, RenewStep, ClaimStep, FinishStep, ReviewStep, ResumeStep, ReserveAssessmentStep,
     AssessStep, PlanStep, CommitStep DEF Step
<1> QED
  BY <1>1, <1>2, ErrorStep, RunLapsesStep, CaseLapsesStep, EvidenceStep, TickStep DEF Next

LEMMA Inductive == Spec => []IInv
BY InitIInv, NextStep, PTL DEF Spec

-----------------------------------------------------------------------------
(* Versions                                                                *)

(* The version of a case stands for its snapshot: an attempt on record is  *)
(* of the version of the case only if it is of its snapshot.               *)
Frozen ==
  \A a \in assessed : /\ a.version <= kase[a.case].version
                      /\ a.version = kase[a.case].version => a.snap = kase[a.case].snap

(* A step keeps the version and the snapshot, or goes to a later version. *)
KeepsOrBumps(k, l) == (l.version = k.version /\ l.snap = k.snap) \/ l.version > k.version
VersionStep == \A c \in Case : KeepsOrBumps(kase[c], kase'[c])

(* A step keeps what attempts are about, or adds one about the current     *)
(* version.                                                                *)
SameSubject(a, b) == a.case = b.case /\ a.version = b.version /\ a.snap = b.snap
AttemptStep ==
  \/ \A a \in assessed' : \E b \in assessed : SameSubject(a, b)
  \/ /\ UNCHANGED kase
     /\ \A a \in assessed' : \/ \E b \in assessed : SameSubject(a, b)
                             \/ /\ a.case \in Case /\ a.version = kase[a.case].version
                                /\ a.snap = kase[a.case].snap

LEMMA FrozenStep ==
  ASSUME IInv, Frozen, VersionStep, AttemptStep, CasesOK'
  PROVE  Frozen'
<1> SUFFICES ASSUME NEW a \in assessed'
             PROVE  /\ a.version <= kase'[a.case].version
                    /\ a.version = kase'[a.case].version => a.snap = kase'[a.case].snap
  BY DEF Frozen
<1>1. CASE \E b \in assessed : SameSubject(a, b)
  <2>1. PICK b \in assessed : SameSubject(a, b)
    BY <1>1
  <2>2. b.case \in Case /\ b.version \in Nat
    BY DEF IInv, TablesOK, AttemptRow
  <2> DEFINE k == kase[b.case]
             l == kase'[b.case]
  <2>3. k.version \in Nat /\ l.version \in Nat
    BY <2>2 DEF IInv, CasesOK, CaseRecord
  <2>4. b.version <= k.version /\ (b.version = k.version => b.snap = k.snap)
    BY DEF Frozen
  <2>5. KeepsOrBumps(k, l)
    BY <2>2 DEF VersionStep
  <2>6. b.version <= l.version /\ (b.version = l.version => b.snap = l.snap)
    BY <2>2, <2>3, <2>4, <2>5 DEF KeepsOrBumps
  <2>7. a.case = b.case /\ a.version = b.version /\ a.snap = b.snap
    BY <2>1 DEF SameSubject
  <2> QED
    BY <2>6, <2>7
<1>2. CASE UNCHANGED kase /\ a.case \in Case /\ a.version = kase[a.case].version /\ a.snap = kase[a.case].snap
  BY <1>2 DEF IInv, CasesOK, CaseRecord
<1> QED
  BY <1>1, <1>2 DEF AttemptStep

\* The versions of the records that the transactions write.
LEMMA Versions ==
  ASSUME NEW k \in CaseRecord, NEW s \in Snapshot, NEW p \in Position \cup {NoPosition}, NEW at \in Nat
  PROVE  /\ Bumped(k, s).version = k.version + 1 /\ Bumped(k, s).snap = s
         /\ Dismissed(k, s, at).version = k.version + 1
         /\ Resolved(k, p, at).version = k.version + 1
         /\ Overdue(k, at).version = k.version /\ Overdue(k, at).snap = k.snap
         /\ Released(k, at).version = k.version /\ Released(k, at).snap = k.snap
<1> DEFINE u == Unleased(k)
<1>1. u \in CaseRecord /\ u.version = k.version /\ u.snap = k.snap
  BY DEF Unleased, CaseRecord
<1>2. /\ Bumped(k, s) = [u EXCEPT !.snap = s, !.version = @ + 1, !.attempts = 0]
      /\ Dismissed(k, s, at) = [u EXCEPT !.snap = s, !.version = @ + 1, !.status = "dismissed", !.next = at]
      /\ Resolved(k, p, at) = [u EXCEPT !.status = "resolved", !.preferred = p, !.version = @ + 1, !.next = at]
      /\ Overdue(k, at) = [u EXCEPT !.status = "overdue", !.next = at + TicksPerDay, !.attempts = 0]
  BY DEF Bumped, Dismissed, Resolved, Overdue
<1>3. \E n : Released(k, at) = [u EXCEPT !.next = n, !.attempts = 0]
  BY DEF Released
<1> HIDE DEF u
<1>4. /\ Bumped(k, s).version = k.version + 1 /\ Bumped(k, s).snap = s
      /\ Dismissed(k, s, at).version = k.version + 1
      /\ Resolved(k, p, at).version = k.version + 1
  BY <1>1, <1>2 DEF CaseRecord
<1>5. Overdue(k, at).version = k.version /\ Overdue(k, at).snap = k.snap
  BY <1>1, <1>2 DEF CaseRecord
<1>6. Released(k, at).version = k.version /\ Released(k, at).snap = k.snap
  BY <1>1, <1>3 DEF CaseRecord
<1> QED
  BY <1>4, <1>5, <1>6

\* Each record is later than the one it replaces, or the same version of it.
LEMMA WrittenVersions ==
  ASSUME NEW k \in CaseRecord, NEW s \in Snapshot, NEW p \in Position \cup {NoPosition}, NEW at \in Nat
  PROVE  /\ KeepsOrBumps(k, Bumped(k, s)) /\ KeepsOrBumps(k, Dismissed(k, s, at))
         /\ KeepsOrBumps(k, Resolved(k, p, at)) /\ KeepsOrBumps(k, Overdue(k, at))
         /\ KeepsOrBumps(k, Released(k, at))
<1>1. k.version \in Nat
  BY DEF CaseRecord
<1> QED
  BY <1>1, Versions DEF KeepsOrBumps

\* A record of a case is replaced.
LEMMA VersionWrite ==
  ASSUME CasesOK, NEW c \in Case, NEW r, KeepsOrBumps(kase[c], r), kase' = [kase EXCEPT ![c] = r]
  PROVE  VersionStep
BY DEF CasesOK, VersionStep, KeepsOrBumps

LEMMA VersionStays == ASSUME UNCHANGED kase PROVE VersionStep
BY DEF VersionStep, KeepsOrBumps

\* Attempts change their status only.
LEMMA StatusOnly ==
  ASSUME NEW a \in AttemptRow, NEW st, NEW p
  PROVE  /\ SameSubject([a EXCEPT !.status = st], a)
         /\ SameSubject([a EXCEPT !.status = st, !.position = p], a)
BY DEF AttemptRow, SameSubject

LEMMA AttemptsStay == ASSUME UNCHANGED assessed PROVE AttemptStep
BY DEF AttemptStep, SameSubject

LEMMA AttemptsSuperseded == ASSUME TablesOK, NEW c, Supersede(c) PROVE AttemptStep
<1> SUFFICES ASSUME NEW a \in assessed' PROVE \E b \in assessed : SameSubject(a, b)
  BY DEF AttemptStep
<1>1. PICK b \in assessed : a = IF b.case = c /\ b.status = "reserved" THEN [b EXCEPT !.status = "superseded"] ELSE b
  BY DEF Supersede
<1>2. SameSubject([b EXCEPT !.status = "superseded"], b) /\ SameSubject(b, b)
  BY StatusOnly DEF TablesOK, SameSubject
<1> QED
  BY <1>1, <1>2

LEMMA AttemptsCompleted ==
  ASSUME TablesOK, NEW w, NEW st, NEW p, Completed(w, st, p) PROVE AttemptStep
<1> SUFFICES ASSUME NEW a \in assessed' PROVE \E b \in assessed : SameSubject(a, b)
  BY DEF AttemptStep
<1>1. PICK b \in assessed : a = IF b \in Mine(w) THEN [b EXCEPT !.status = st, !.position = p] ELSE b
  BY DEF Completed
<1>2. SameSubject([b EXCEPT !.status = st, !.position = p], b) /\ SameSubject(b, b)
  BY StatusOnly DEF TablesOK, SameSubject
<1> QED
  BY <1>1, <1>2

LEMMA AttemptsExpired ==
  ASSUME TablesOK, NEW c, NEW v, NEW m, NEW date
  PROVE  \A a \in Expired(c, v, m, date) : \E b \in assessed : SameSubject(a, b)
<1> SUFFICES ASSUME NEW a \in Expired(c, v, m, date) PROVE \E b \in assessed : SameSubject(a, b)
  OBVIOUS
<1>1. PICK b \in assessed : a = IF b \in Of(c, v, m) /\ b.status = "reserved" /\ b.date < date
                               THEN [b EXCEPT !.status = "failed"] ELSE b
  BY DEF Expired
<1>2. SameSubject([b EXCEPT !.status = "failed"], b) /\ SameSubject(b, b)
  BY StatusOnly DEF TablesOK, SameSubject
<1> QED
  BY <1>1, <1>2

(* A case is decided at most once more by a step, and on what it shows. *)
VerdictStep ==
  /\ DOMAIN verdict' = DOMAIN verdict
  /\ \A c \in Case : verdict'[c] = verdict[c] \/ verdict'[c].basis = verdict'[c].evidence

DecidedStep == VersionStep /\ AttemptStep /\ VerdictStep

LEMMA VerdictStays == ASSUME UNCHANGED verdict PROVE VerdictStep
BY DEF VerdictStep

LEMMA VerdictWrite ==
  ASSUME DOMAIN verdict = Case, NEW c \in Case, NEW r, r.basis = r.evidence,
         verdict' = [verdict EXCEPT ![c] = r]
  PROVE  VerdictStep
BY DEF VerdictStep

\* Nothing that the decision depends on is written.
LEMMA DecidedStays ==
  ASSUME UNCHANGED <<kase, assessed, verdict>> PROVE DecidedStep
BY VersionStays, AttemptsStay, VerdictStays DEF DecidedStep

\* The refreshed record has the evidence as its snapshot.
LEMMA RefreshedVersion ==
  ASSUME IInv, NEW c \in Case
  PROVE  KeepsOrBumps(kase[c], Refreshed(c)) /\ Refreshed(c).snap = evidence[c]
<1>1. kase[c] \in CaseRecord /\ evidence[c] \in Snapshot /\ NoPosition \in Position \cup {NoPosition} /\ 0 \in Nat
  BY EvidenceType DEF IInv, CasesOK
<1>2. KeepsOrBumps(kase[c], Bumped(kase[c], evidence[c])) /\ Bumped(kase[c], evidence[c]).snap = evidence[c]
  BY <1>1, Versions, WrittenVersions
<1> QED
  BY <1>2 DEF Refreshed, Changed, KeepsOrBumps

\* Two writes in one transaction.
LEMMA TwoWrites ==
  ASSUME NEW k \in CaseRecord, NEW l \in CaseRecord, NEW m \in CaseRecord, KeepsOrBumps(k, l), KeepsOrBumps(l, m)
  PROVE  KeepsOrBumps(k, m)
BY DEF KeepsOrBumps, CaseRecord

LEMMA EvaluateDecided ==
  ASSUME IInv, DOMAIN verdict = Case, NEW w \in Worker, worker[w].pc = "review", Conflicted(worker[w].case),
         Evaluate(w, worker[w].case)
  PROVE  VersionStep /\ VerdictStep
<1> DEFINE c == worker[w].case
           at == worker[w].at
           k == Refreshed(c)
           p == Majority[evidence[c]]
<1>1. c \in Case /\ at \in Nat /\ CasesOK
  BY Phases, SizeAssumption DEF IInv, InCase
<1>2. k \in CaseRecord /\ kase[c] \in CaseRecord /\ p \in Position \cup {NoPosition} /\ evidence[c] \in Snapshot
  BY <1>1, RefreshedType, EvidenceType DEF IInv, CasesOK
<1>3. KeepsOrBumps(kase[c], k) /\ k.snap = evidence[c]
  BY <1>1, RefreshedVersion
<1>4. /\ KeepsOrBumps(k, Resolved(k, p, at)) /\ KeepsOrBumps(k, Overdue(k, at)) /\ KeepsOrBumps(k, Released(k, at))
      /\ Resolved(k, p, at) \in CaseRecord /\ Overdue(k, at) \in CaseRecord /\ Released(k, at) \in CaseRecord
  BY <1>1, <1>2, WrittenVersions, ResolvedType, OverdueType, ReleasedType DEF CaseFine
<1>5. ASSUME NEW r \in CaseRecord, KeepsOrBumps(k, r), kase' = [kase EXCEPT ![c] = r] PROVE VersionStep
  BY <1>1, <1>2, <1>3, <1>5, TwoWrites, VersionWrite
<1>6. VersionStep
  BY <1>4, <1>5 DEF Evaluate
<1>7. CASE UNCHANGED verdict
  BY <1>6, <1>7, VerdictStays
<1>8. CASE verdict' = [verdict EXCEPT ![c] = [method |-> "deterministic", basis |-> k.snap, evidence |-> evidence[c]]]
  <2> DEFINE r == [method |-> "deterministic", basis |-> k.snap, evidence |-> evidence[c]]
  <2>1. r.basis = r.evidence
    BY <1>3
  <2>2. verdict' = [verdict EXCEPT ![c] = r]
    BY <1>8
  <2> HIDE DEF r
  <2> QED
    BY <1>1, <1>6, <2>1, <2>2, VerdictWrite
<1> QED
  BY <1>7, <1>8 DEF Evaluate

LEMMA DismissDecided ==
  ASSUME IInv, NEW w \in Worker, worker[w].pc \in InCase, Dismiss(w, worker[w].case)
  PROVE  VersionStep /\ AttemptStep
<1> DEFINE c == worker[w].case
<1>1. c \in Case /\ worker[w].at \in Nat /\ CasesOK /\ TablesOK
  BY Phases, SizeAssumption DEF IInv
<1>2. kase[c] \in CaseRecord /\ evidence[c] \in Snapshot /\ NoPosition \in Position \cup {NoPosition}
  BY <1>1, EvidenceType DEF IInv, CasesOK
<1> DEFINE r == Dismissed(kase[c], evidence[c], worker[w].at)
<1>3. KeepsOrBumps(kase[c], r)
  BY <1>1, <1>2, WrittenVersions
<1>4. kase' = [kase EXCEPT ![c] = r] /\ Supersede(c)
  BY DEF Dismiss
<1> HIDE DEF r, c
<1> QED
  BY <1>1, <1>3, <1>4, VersionWrite, AttemptsSuperseded

LEMMA ReviewDecided ==
  ASSUME IInv, DOMAIN verdict = Case, NEW w \in Worker, Review(w) PROVE DecidedStep
<1> DEFINE c == worker[w].case
<1>1. worker[w].pc = "review" /\ c \in Case /\ TablesOK /\ worker[w].pc \in InCase
  BY Phases DEF Review, IInv, InCase
<1>2. CASE UNCHANGED <<kase, assessed, verdict>>
  BY <1>2, DecidedStays
<1>3. CASE Dismiss(w, c) /\ UNCHANGED verdict
  BY <1>1, <1>3, DismissDecided, VerdictStays DEF DecidedStep
<1>4. CASE Conflicted(c) /\ RefreshTables(c) /\ Evaluate(w, c)
  <2>1. AttemptStep
    BY <1>1, <1>4, AttemptsSuperseded, AttemptsStay DEF RefreshTables
  <2> QED
    BY <1>1, <1>4, <2>1, EvaluateDecided DEF DecidedStep
<1> QED
  BY <1>2, <1>3, <1>4 DEF Review

LEMMA ReserveDecided == ASSUME IInv, NEW w \in Worker, ReserveAssessment(w) PROVE DecidedStep
<1> DEFINE c == worker[w].case
           v == kase[c].version
           m == worker[w].model
           date == worker[w].date
<1>1. c \in Case /\ TablesOK /\ UNCHANGED kase /\ UNCHANGED verdict
  BY Phases DEF ReserveAssessment, IInv, InCase
<1>2. \A a \in Expired(c, v, m, date) : \E b \in assessed : SameSubject(a, b)
  BY <1>1, AttemptsExpired
<1>3. /\ ReservedRow(c, date, m).case = c /\ ReservedRow(c, date, m).version = kase[c].version
      /\ ReservedRow(c, date, m).snap = kase[c].snap
  BY DEF ReservedRow
<1>4. CASE UNCHANGED assessed
  BY <1>1, <1>4, DecidedStays
<1>5. CASE assessed' = Expired(c, v, m, date)
  <2>1. AttemptStep
    BY <1>2, <1>5 DEF AttemptStep
  <2> QED
    BY <1>1, <2>1, VersionStays, VerdictStays DEF DecidedStep
<1>6. CASE assessed' = Expired(c, v, m, date) \cup {ReservedRow(c, date, m)}
  <2>1. AttemptStep
    BY <1>1, <1>2, <1>3, <1>6 DEF AttemptStep
  <2> QED
    BY <1>1, <2>1, VersionStays, VerdictStays DEF DecidedStep
<1> QED
  BY <1>4, <1>5, <1>6 DEF ReserveAssessment

LEMMA AssessDecided == ASSUME IInv, NEW w \in Worker, Assess(w) PROVE DecidedStep
<1>1. TablesOK /\ UNCHANGED kase /\ UNCHANGED verdict
  BY DEF Assess, IInv
<1>2. AttemptStep
  BY <1>1, AttemptsCompleted, AttemptsStay DEF Assess
<1> QED
  BY <1>1, <1>2, VersionStays, VerdictStays DEF DecidedStep

LEMMA StaleDecided ==
  ASSUME IInv, NEW w \in Worker, worker[w].pc \in {"plan", "commit"}, Stale(w), UNCHANGED verdict
  PROVE  DecidedStep
<1> DEFINE c == worker[w].case
<1>1. c \in Case /\ worker[w].pc \in InCase /\ CasesOK /\ TablesOK
  BY Phases DEF InCase, IInv
<1>2. CASE UNCHANGED <<kase, assessed, plans>>
  BY <1>2, DecidedStays
<1>3. CASE Dismiss(w, c)
  BY <1>1, <1>3, DismissDecided, VerdictStays DEF DecidedStep
<1>4. CASE Supersede(c) /\ kase' = [kase EXCEPT ![c] = Bumped(@, evidence[c])]
  <2>1. kase[c] \in CaseRecord /\ evidence[c] \in Snapshot /\ NoPosition \in Position \cup {NoPosition} /\ 0 \in Nat
    BY <1>1, EvidenceType DEF CasesOK, IInv
  <2> DEFINE r == Bumped(kase[c], evidence[c])
  <2>2. KeepsOrBumps(kase[c], r) /\ kase' = [kase EXCEPT ![c] = r]
    BY <1>4, <2>1, WrittenVersions
  <2> HIDE DEF r
  <2> QED
    BY <1>1, <1>4, <2>2, VersionWrite, AttemptsSuperseded, VerdictStays DEF DecidedStep
<1> QED
  BY <1>2, <1>3, <1>4 DEF Stale

LEMMA DeferDecided ==
  ASSUME IInv, NEW w \in Worker, worker[w].pc \in {"plan", "commit"}, Defer(w), UNCHANGED verdict
  PROVE  DecidedStep
<1> DEFINE c == worker[w].case
           r == Released(kase[c], worker[w].at)
<1>1. c \in Case /\ worker[w].at \in Nat /\ CasesOK
  BY Phases, SizeAssumption DEF InCase, IInv
<1>2. kase[c] \in CaseRecord /\ evidence[c] \in Snapshot /\ NoPosition \in Position \cup {NoPosition}
  BY <1>1, EvidenceType DEF CasesOK, IInv
<1>3. KeepsOrBumps(kase[c], r)
  BY <1>1, <1>2, WrittenVersions
<1>4. kase' = [kase EXCEPT ![c] = r] /\ UNCHANGED assessed
  BY DEF Defer
<1> HIDE DEF r
<1> QED
  BY <1>1, <1>3, <1>4, VersionWrite, AttemptsStay, VerdictStays DEF DecidedStep

LEMMA PlanDecided == ASSUME IInv, NEW w \in Worker, Plan(w) PROVE DecidedStep
<1>1. worker[w].pc \in {"plan", "commit"} /\ UNCHANGED verdict
  BY DEF Plan
<1>2. CASE UNCHANGED <<kase, assessed>>
  BY <1>1, <1>2, DecidedStays
<1> QED
  BY <1>1, <1>2, StaleDecided, DeferDecided DEF Plan

\* A commit that resolves the case has an attempt of the snapshot it saw.
LEMMA CommitBasis ==
  ASSUME IInv, Frozen, NEW w \in Worker, worker[w].pc = "commit", Fresh(w), Earned(w)
  PROVE  (CHOOSE a \in Mine(w) : TRUE).snap = evidence[worker[w].case]
<1> DEFINE c == worker[w].case
           b == CHOOSE a \in Mine(w) : TRUE
<1>1. b \in Mine(w)
  BY DEF Earned
<1> HIDE DEF b
<1>2. b \in assessed /\ b.case = c /\ b.version = worker[w].version
  BY <1>1 DEF Mine, Of
<1>3. kase[c].version = worker[w].version /\ kase[c].snap = evidence[c]
  BY DEF Fresh, Expected, Changed
<1>4. b.snap = kase[c].snap
  BY <1>2, <1>3 DEF Frozen
<1> QED
  BY <1>3, <1>4 DEF b

LEMMA CommitDecided ==
  ASSUME IInv, Frozen, DOMAIN verdict = Case, NEW w \in Worker, Commit(w) PROVE DecidedStep
<1> DEFINE c == worker[w].case
<1>1. worker[w].pc = "commit" /\ c \in Case /\ worker[w].at \in Nat /\ CasesOK /\ worker[w].position \in Position
  BY Phases, SizeAssumption DEF Commit, InCase, IInv, ResolveState
<1>2. CASE Stale(w) /\ UNCHANGED verdict
  BY <1>1, <1>2, StaleDecided
<1>3. CASE Defer(w) /\ UNCHANGED verdict
  BY <1>1, <1>3, DeferDecided
<1>4. CASE UNCHANGED <<kase, assessed, plans, verdict>>
  BY <1>4, DecidedStays
<1>5. CASE /\ Fresh(w) /\ Earned(w)
           /\ kase' = [kase EXCEPT ![c] = Resolved(@, worker[w].position, worker[w].at)]
           /\ verdict' = [verdict EXCEPT ![c] =
                [method |-> worker[w].method, basis |-> (CHOOSE a \in Mine(w) : TRUE).snap, evidence |-> evidence[c]]]
           /\ UNCHANGED assessed
  <2>1. kase[c] \in CaseRecord /\ evidence[c] \in Snapshot
    BY <1>1, EvidenceType DEF CasesOK, IInv
  <2> DEFINE k == Resolved(kase[c], worker[w].position, worker[w].at)
             b == (CHOOSE a \in Mine(w) : TRUE).snap
             r == [method |-> worker[w].method, basis |-> b, evidence |-> evidence[c]]
  <2>2. KeepsOrBumps(kase[c], k) /\ kase' = [kase EXCEPT ![c] = k]
    BY <1>1, <1>5, <2>1, WrittenVersions
  <2>3. b = evidence[c]
    BY <1>1, <1>5, CommitBasis
  <2>4. verdict' = [verdict EXCEPT ![c] = r]
    BY <1>5
  <2> HIDE DEF k, b
  <2>5. r.basis = r.evidence
    BY <2>3
  <2> HIDE DEF r
  <2>6. VersionStep /\ VerdictStep
    BY <1>1, <2>2, <2>4, <2>5, VersionWrite, VerdictWrite
  <2> QED
    BY <1>5, <2>6, AttemptsStay DEF DecidedStep
<1> QED
  BY <1>2, <1>3, <1>4, <1>5 DEF Commit

LEMMA ClaimDecided == ASSUME IInv, NEW w \in Worker, Claim(w) PROVE DecidedStep
<1>1. UNCHANGED <<assessed, verdict>> /\ CasesOK
  BY DEF Claim, IInv
<1>2. CASE UNCHANGED kase
  BY <1>1, <1>2, DecidedStays
<1>3. CASE \E c \in Case : kase' = [kase EXCEPT ![c] = ClaimedCase(c, w)]
  <2>1. PICK c \in Case : kase' = [kase EXCEPT ![c] = ClaimedCase(c, w)]
    BY <1>3
  <2>2. ClaimedCase(c, w).version = kase[c].version /\ ClaimedCase(c, w).snap = kase[c].snap
    BY <1>1 DEF ClaimedCase, CasesOK, CaseRecord
  <2>3. KeepsOrBumps(kase[c], ClaimedCase(c, w))
    BY <2>2 DEF KeepsOrBumps
  <2> QED
    BY <1>1, <2>1, <2>3, VersionWrite, AttemptsStay, VerdictStays DEF DecidedStep
<1> QED
  BY <1>2, <1>3 DEF Claim

LEMMA LapsesDecided ==
  ASSUME IInv, (\E c \in Case : CaseLapses(c)) \/ LeasesLapse, UNCHANGED <<assessed, verdict>> PROVE DecidedStep
<1>1. ASSUME NEW k \in CaseRecord, NEW l PROVE KeepsOrBumps(k, [k EXCEPT !.lapsed = l])
  BY DEF KeepsOrBumps, CaseRecord
<1>2. CASE \E c \in Case : CaseLapses(c)
  <2>1. PICK c \in Case : kase' = [kase EXCEPT ![c] = [@ EXCEPT !.lapsed = TRUE]]
    BY <1>2 DEF CaseLapses
  <2> DEFINE r == [kase[c] EXCEPT !.lapsed = TRUE]
  <2>2. KeepsOrBumps(kase[c], r) /\ kase' = [kase EXCEPT ![c] = r]
    BY <1>1, <2>1 DEF IInv, CasesOK
  <2> HIDE DEF r
  <2> QED
    BY <2>2, VersionWrite, AttemptsStay, VerdictStays DEF DecidedStep, IInv
<1>3. CASE LeasesLapse
  <2>1. VersionStep
    BY <1>1, <1>3 DEF LeasesLapse, VersionStep, IInv, CasesOK
  <2> QED
    BY <2>1, AttemptsStay, VerdictStays DEF DecidedStep
<1> QED
  BY <1>2, <1>3

LEMMA EvidenceDecided ==
  ASSUME IInv, NEW c \in Case, NEW s \in Snapshot, ChangeEvidence(c, s) \/ PlaceEvidence(c, s)
  PROVE  DecidedStep
<1>1. UNCHANGED verdict /\ CasesOK /\ TablesOK
  BY DEF ChangeEvidence, PlaceEvidence, IInv
<1>2. CASE UNCHANGED <<kase, assessed>>
  BY <1>1, <1>2, DecidedStays
<1>3. CASE Supersede(c) /\ kase' = [kase EXCEPT ![c] = Bumped(@, s)]
  <2>1. kase[c] \in CaseRecord /\ NoPosition \in Position \cup {NoPosition} /\ 0 \in Nat
    BY <1>1 DEF CasesOK
  <2> DEFINE r == Bumped(kase[c], s)
  <2>2. KeepsOrBumps(kase[c], r) /\ kase' = [kase EXCEPT ![c] = r]
    BY <1>3, <2>1, WrittenVersions
  <2> HIDE DEF r
  <2> QED
    BY <1>1, <1>3, <2>2, VersionWrite, AttemptsSuperseded, VerdictStays DEF DecidedStep
<1> QED
  BY <1>2, <1>3 DEF ChangeEvidence, PlaceEvidence

LEMMA NextDecided ==
  ASSUME IInv, Frozen, DOMAIN verdict = Case, [Next]_vars PROVE DecidedStep
<1>1. CASE UNCHANGED vars
  BY <1>1, DecidedStays DEF vars
<1>2. ASSUME NEW w \in Worker, Step(w) PROVE DecidedStep
  <2>1. CASE Start(w) \/ Renew(w) \/ Finish(w) \/ Resume(w)
    BY <2>1, DecidedStays DEF Start, Renew, Finish, Resume
  <2> QED
    BY <1>2, <2>1, ClaimDecided, ReviewDecided, ReserveDecided, AssessDecided, PlanDecided, CommitDecided DEF Step
<1>3. ASSUME NEW w \in Worker, Error(w) \/ Crash(w) PROVE DecidedStep
  BY <1>3, DecidedStays DEF Error, Crash
<1>4. ASSUME NEW d \in Days, RunLapses(d) PROVE DecidedStep
  BY <1>4, DecidedStays DEF RunLapses
<1>5. ASSUME NEW c \in Case, CaseLapses(c) PROVE DecidedStep
  BY <1>5, LapsesDecided DEF CaseLapses
<1>6. CASE Tick \/ LateTick
  BY <1>6, LapsesDecided, DecidedStays DEF Tick, LateTick
<1> QED
  BY <1>1, <1>2, <1>3, <1>4, <1>5, <1>6, EvidenceDecided DEF Next

-----------------------------------------------------------------------------
(* The tables, the clock and the workers keep their types, and no case is  *)
(* claimed more often than the maximum allows.                             *)
THEOREM TypeCorrect == Spec => []TypeOK
<1>1. IInv => TypeOK
  <2> SUFFICES ASSUME IInv PROVE TypeOK
    OBVIOUS
  <2>1. \A a \in assessed : a.status \in {"reserved", "selected", "abstained", "failed", "superseded"}
    BY DEF IInv, TablesOK, AttemptRow
  <2>2. \A p \in plans : p.status \in {"resolution_pending", "applied", "superseded"}
    BY DEF IInv, TablesOK, PlanRecord
  <2>3. \A w \in Worker : worker[w].day \in Days /\ worker[w].tried \subseteq Case
    BY Phases DEF IInv
  <2> QED
    BY <2>1, <2>2, <2>3 DEF IInv, TypeOK, ClockOK, CasesOK, RunsOK, RunRecord
<1> QED
  BY <1>1, Inductive, PTL

(* A case that was resolved or dismissed is never written again, whichever *)
(* workers still hold claims, answers or plans for it.                     *)
THEOREM ClosedStands == Spec => ClosedIsFinal
<1>1. IInv /\ [Next]_vars => [\A c \in Case : kase[c].status \notin Live => kase'[c] = kase[c]]_vars
  BY NextStep DEF ClosedStep
<1> QED
  BY <1>1, Inductive, PTL DEF Spec, ClosedIsFinal

(* A completed run of a day is neither taken again nor failed by a worker  *)
(* that lost it.                                                           *)
THEOREM CompletedStands == Spec => CompletedRunsStand
<1>1. IInv /\ [Next]_vars => [\A d \in Days : runs[d].status = "completed" => runs'[d] = runs[d]]_vars
  BY NextStep DEF RunStep
<1> QED
  BY <1>1, Inductive, PTL DEF Spec, CompletedRunsStand

DecidedInv == IInv /\ Frozen /\ DOMAIN verdict = Case /\ DecidedOnCurrentEvidence

(* A case is decided on the evidence that its assessment was made for, and *)
(* that evidence still stands at the commit, although no lease protects    *)
(* the case from the reservation of the assessment on.                     *)
THEOREM DecisionIsCurrent == Spec => []DecidedOnCurrentEvidence
<1>1. Init => DecidedInv
  <2> SUFFICES ASSUME Init PROVE DecidedInv
    OBVIOUS
  <2>1. Frozen /\ DOMAIN verdict = Case /\ DecidedOnCurrentEvidence
    BY DEF Init, Frozen, DecidedOnCurrentEvidence, NoVerdict
  <2> QED
    BY <2>1, InitIInv DEF DecidedInv
<1>2. ASSUME DecidedInv, [Next]_vars PROVE DecidedInv'
  <2>1. IInv' /\ DecidedStep
    BY <1>2, NextStep, NextDecided DEF DecidedInv
  <2>2. Frozen'
    BY <1>2, <2>1, FrozenStep DEF DecidedInv, DecidedStep, IInv
  <2>3. DOMAIN verdict' = Case
    BY <1>2, <2>1 DEF DecidedInv, DecidedStep, VerdictStep
  <2>4. DecidedOnCurrentEvidence'
    BY <1>2, <2>1 DEF DecidedInv, DecidedStep, VerdictStep, DecidedOnCurrentEvidence
  <2> QED
    BY <2>1, <2>2, <2>3, <2>4 DEF DecidedInv
<1>3. DecidedInv => DecidedOnCurrentEvidence
  BY DEF DecidedInv
<1> QED
  BY <1>1, <1>2, <1>3, PTL DEF Spec
-----------------------------------------------------------------------------
(* Attempts: one a day, and an answer stays                                *)

SameAttempt(a, b) == a.case = b.case /\ a.version = b.version /\ a.model = b.model /\ a.date = b.date

RowsInv == IsFiniteSet(assessed) /\ OneAttemptADay

(* A row that was answered, expired or superseded is not written again. *)
RowsKept == \A a \in assessed : a.status # "reserved" => a \in assessed'

\* The image of a finite set.
LEMMA ImageFinite ==
  ASSUME NEW S, NEW T, IsFiniteSet(S), NEW f \in [S -> T]
  PROVE  IsFiniteSet({f[x] : x \in S})
<1> DEFINE I == {f[x] : x \in S}
<1>1. f \in [S -> I]
  OBVIOUS
<1>2. f \in Surjection(S, I)
  BY <1>1 DEF Surjection
<1> HIDE DEF I
<1>3. IsFiniteSet(I)
  BY <1>2, FS_Surjection
<1> QED
  BY <1>3 DEF I

\* Rows change in place, and those that were reserved only; a new row is of
\* a day on which there is none.
LEMMA Rewrite ==
  ASSUME RowsInv, NEW f \in [assessed -> AttemptRow], NEW N, IsFiniteSet(N),
         \A a \in assessed : SameAttempt(f[a], a) /\ (a.status # "reserved" => f[a] = a),
         \A r \in N, a \in assessed : ~SameAttempt(r, a),
         \A r, q \in N : r = q,
         assessed' = {f[a] : a \in assessed} \cup N
  PROVE  RowsInv' /\ RowsKept
<1> DEFINE I == {f[a] : a \in assessed}
<1>1. IsFiniteSet(I)
  BY ImageFinite DEF RowsInv
<1>2. IsFiniteSet(assessed')
  BY <1>1, FS_Union
<1>3. ASSUME NEW a \in assessed', NEW b \in assessed', SameAttempt(a, b) PROVE a = b
  <2>1. CASE a \in I /\ b \in I
    <3>1. PICK x \in assessed, y \in assessed : a = f[x] /\ b = f[y]
      BY <2>1
    <3>2. SameAttempt(x, y)
      BY <1>3, <3>1 DEF SameAttempt
    <3>3. x = y
      BY <3>2 DEF RowsInv, OneAttemptADay, SameAttempt
    <3> QED
      BY <3>1, <3>3
  <2>2. ASSUME NEW x \in assessed, NEW r \in N, SameAttempt(f[x], r) \/ SameAttempt(r, f[x]) PROVE FALSE
    <3>1. SameAttempt(r, x)
      BY <2>2 DEF SameAttempt
    <3> QED
      BY <3>1
  <2>3. CASE a \in I /\ b \in N
    BY <1>3, <2>2, <2>3
  <2>4. CASE a \in N /\ b \in I
    BY <1>3, <2>2, <2>4
  <2>5. CASE a \in N /\ b \in N
    BY <2>5
  <2> QED
    BY <2>1, <2>3, <2>4, <2>5
<1>4. OneAttemptADay'
  BY <1>3 DEF OneAttemptADay, SameAttempt
<1>5. RowsKept
  BY DEF RowsKept
<1> QED
  BY <1>2, <1>4, <1>5 DEF RowsInv

\* The rows stay.
LEMMA RowsStay == ASSUME RowsInv, UNCHANGED assessed PROVE RowsInv' /\ RowsKept
BY DEF RowsInv, OneAttemptADay, RowsKept

\* Only the status and the position of a row change.
LEMMA StatusRows ==
  ASSUME NEW a \in AttemptRow, NEW st, NEW p
  PROVE  /\ SameAttempt([a EXCEPT !.status = st], a)
         /\ SameAttempt([a EXCEPT !.status = st, !.position = p], a)
BY DEF AttemptRow, SameAttempt

LEMMA RowsSuperseded ==
  ASSUME TablesOK, RowsInv, NEW c, Supersede(c) PROVE RowsInv' /\ RowsKept
<1> DEFINE f == [a \in assessed |-> IF a.case = c /\ a.status = "reserved"
                                    THEN [a EXCEPT !.status = "superseded"] ELSE a]
<1>1. \A a \in AttemptRow : [a EXCEPT !.status = "superseded"] \in AttemptRow
  BY DEF AttemptRow
<1>2. f \in [assessed -> AttemptRow]
  BY <1>1 DEF TablesOK
<1>3. \A a \in assessed : SameAttempt(f[a], a) /\ (a.status # "reserved" => f[a] = a)
  BY StatusRows DEF TablesOK, SameAttempt
<1>4. assessed' = {f[a] : a \in assessed} \cup {}
  BY DEF Supersede
<1> HIDE DEF f
<1> QED
  BY <1>2, <1>3, <1>4, Rewrite, FS_EmptySet

\* The rows that an answer completes: the one the worker reserved.
LEMMA MineIsOne ==
  ASSUME RowsInv, NEW w, StillReserved(w)
  PROVE  \E a \in assessed : Mine(w) = {a} /\ a.status = "reserved" /\ SameAttempt(a, worker[w])
<1>1. PICK a \in Mine(w) : a.status = "reserved"
  BY DEF StillReserved
<1>2. a \in assessed /\ SameAttempt(a, worker[w])
  BY <1>1 DEF Mine, Of, SameAttempt
<1>3. \A b \in Mine(w) : b = a
  BY <1>1 DEF Mine, Of, RowsInv, OneAttemptADay
<1> QED
  BY <1>1, <1>2, <1>3

LEMMA RowsCompleted ==
  ASSUME TablesOK, RowsInv, NEW w, StillReserved(w), NEW st \in {"selected", "abstained", "failed"},
         NEW p \in Position \cup {NoPosition}, Completed(w, st, p)
  PROVE  /\ RowsInv' /\ RowsKept
         /\ \E b \in assessed' : /\ SameAttempt(b, worker[w]) /\ b \notin assessed
                                 /\ b.status = st /\ b.position = p
<1> DEFINE f == [a \in assessed |-> IF a \in Mine(w) THEN [a EXCEPT !.status = st, !.position = p] ELSE a]
<1>1. \A a \in AttemptRow : [a EXCEPT !.status = st, !.position = p] \in AttemptRow
  BY DEF AttemptRow
<1>2. f \in [assessed -> AttemptRow]
  BY <1>1 DEF TablesOK
<1>3. PICK a \in assessed : Mine(w) = {a} /\ a.status = "reserved" /\ SameAttempt(a, worker[w])
  BY MineIsOne
<1>4. \A b \in assessed : SameAttempt(f[b], b) /\ (b.status # "reserved" => f[b] = b)
  BY <1>3, StatusRows DEF TablesOK, SameAttempt
<1>5. assessed' = {f[b] : b \in assessed} \cup {}
  BY DEF Completed
<1>6. f[a] \in assessed' /\ f[a] = [a EXCEPT !.status = st, !.position = p] /\ a \in AttemptRow
  BY <1>3, <1>5 DEF TablesOK
<1>7. f[a].status = st /\ f[a].position = p /\ f[a] # a
  BY <1>3, <1>6 DEF AttemptRow
<1>8. SameAttempt(f[a], a)
  BY <1>3, <1>4
<1> HIDE DEF f
<1>9. SameAttempt(f[a], worker[w])
  BY <1>3, <1>8 DEF SameAttempt
<1>10. f[a] \notin assessed
  BY <1>3, <1>7, <1>8 DEF RowsInv, OneAttemptADay, SameAttempt
<1>11. RowsInv' /\ RowsKept
  BY <1>2, <1>4, <1>5, Rewrite, FS_EmptySet
<1> QED
  BY <1>6, <1>7, <1>9, <1>10, <1>11

\* Reservations of earlier days expire, and one of a new day may be added.
LEMMA RowsExpired ==
  ASSUME TablesOK, RowsInv, NEW c, NEW v, NEW m, NEW date, NEW N, IsFiniteSet(N),
         \A r \in N, a \in assessed : ~SameAttempt(r, a), \A r, q \in N : r = q,
         assessed' = Expired(c, v, m, date) \cup N
  PROVE  RowsInv' /\ RowsKept
<1> DEFINE f == [a \in assessed |-> IF a \in Of(c, v, m) /\ a.status = "reserved" /\ a.date < date
                                    THEN [a EXCEPT !.status = "failed"] ELSE a]
<1>1. \A a \in AttemptRow : [a EXCEPT !.status = "failed"] \in AttemptRow
  BY DEF AttemptRow
<1>2. f \in [assessed -> AttemptRow]
  BY <1>1 DEF TablesOK
<1>3. \A a \in assessed : SameAttempt(f[a], a) /\ (a.status # "reserved" => f[a] = a)
  BY StatusRows DEF TablesOK, SameAttempt
<1>4. assessed' = {f[a] : a \in assessed} \cup N
  BY DEF Expired
<1> HIDE DEF f
<1> QED
  BY <1>2, <1>3, <1>4, Rewrite

LEMMA ReserveRows ==
  ASSUME IInv, RowsInv, NEW w \in Worker, ReserveAssessment(w) PROVE RowsInv' /\ RowsKept
<1> DEFINE c == worker[w].case
           v == kase[c].version
           m == worker[w].model
           date == worker[w].date
           r == ReservedRow(c, date, m)
<1>1. TablesOK
  BY DEF IInv
<1>2. CASE UNCHANGED assessed
  BY <1>2, RowsStay
<1>3. CASE assessed' = Expired(c, v, m, date)
  <2>1. assessed' = Expired(c, v, m, date) \cup {}
    BY <1>3
  <2> QED
    BY <1>1, <2>1, RowsExpired, FS_EmptySet
<1>4. CASE ~Asked(c, v, m, date) /\ assessed' = Expired(c, v, m, date) \cup {r}
  <2>1. \A a \in assessed : ~SameAttempt(r, a)
    BY <1>4 DEF Asked, Of, SameAttempt, ReservedRow
  <2> HIDE DEF r
  <2>2. IsFiniteSet({r}) /\ (\A q \in {r}, a \in assessed : ~SameAttempt(q, a)) /\ \A q, s \in {r} : q = s
    BY <2>1, FS_Singleton
  <2> HIDE DEF c, v, m, date
  <2> QED
    BY <1>1, <1>4, <2>2, RowsExpired
<1> QED
  BY <1>2, <1>3, <1>4 DEF ReserveAssessment

LEMMA AssessRows ==
  ASSUME IInv, RowsInv, NEW w \in Worker, Assess(w) PROVE RowsInv' /\ RowsKept
<1>1. TablesOK /\ NoPosition \in Position \cup {NoPosition}
  BY DEF IInv
<1>2. CASE UNCHANGED assessed
  BY <1>2, RowsStay
<1>3. CASE StillReserved(w) /\ \E p \in Position : Completed(w, "selected", p)
  BY <1>1, <1>3, RowsCompleted
<1>4. CASE StillReserved(w) /\ (Completed(w, "abstained", NoPosition) \/ Completed(w, "failed", NoPosition))
  BY <1>1, <1>4, RowsCompleted
<1> QED
  BY <1>2, <1>3, <1>4 DEF Assess

LEMMA StaleRows ==
  ASSUME IInv, RowsInv, NEW w \in Worker, Stale(w) PROVE RowsInv' /\ RowsKept
BY RowsStay, RowsSuperseded DEF Stale, Dismiss, IInv

LEMMA NextRows ==
  ASSUME IInv, RowsInv, [Next]_vars PROVE RowsInv' /\ RowsKept
<1>1. CASE UNCHANGED assessed
  BY <1>1, RowsStay
<1>2. ASSUME NEW w \in Worker, Step(w) PROVE RowsInv' /\ RowsKept
  <2>1. CASE Start(w) \/ Renew(w) \/ Claim(w) \/ Finish(w) \/ Resume(w)
    BY <1>1, <2>1 DEF Start, Renew, Claim, Finish, Resume
  <2>2. CASE Review(w)
    BY <1>1, <2>2, RowsSuperseded DEF Review, Dismiss, RefreshTables, IInv
  <2>3. CASE Plan(w)
    BY <1>1, <2>3, StaleRows DEF Plan, Defer
  <2>4. CASE Commit(w)
    BY <1>1, <2>4, StaleRows DEF Commit, Defer
  <2> QED
    BY <1>2, <2>1, <2>2, <2>3, <2>4, ReserveRows, AssessRows DEF Step
<1>3. ASSUME NEW w \in Worker, Error(w) \/ Crash(w) PROVE UNCHANGED assessed
  BY <1>3 DEF Error, Crash
<1>4. ASSUME NEW c \in Case, NEW s \in Snapshot, ChangeEvidence(c, s) \/ PlaceEvidence(c, s)
      PROVE  RowsInv' /\ RowsKept
  BY <1>1, <1>4, RowsSuperseded DEF ChangeEvidence, PlaceEvidence, IInv
<1>5. ASSUME NEW d \in Days, RunLapses(d) PROVE UNCHANGED assessed
  BY <1>5 DEF RunLapses
<1>6. ASSUME NEW c \in Case, CaseLapses(c) PROVE UNCHANGED assessed
  BY <1>6 DEF CaseLapses
<1>7. CASE Tick \/ LateTick \/ UNCHANGED vars
  BY <1>1, <1>7 DEF Tick, LateTick, vars
<1> QED
  BY <1>1, <1>2, <1>3, <1>4, <1>5, <1>6, <1>7 DEF Next

LEMMA RowsInductive == Spec => [](IInv /\ RowsInv)
<1>1. Init => RowsInv
  BY FS_EmptySet DEF Init, RowsInv, OneAttemptADay
<1>2. IInv /\ RowsInv /\ [Next]_vars => RowsInv'
  BY NextRows
<1> QED
  BY <1>1, <1>2, Inductive, PTL DEF Spec

(* A provider is asked about a version of a case at most once a day, in    *)
(* any instance: the insert gives way to the row of the day, which no      *)
(* other transaction removes.                                              *)
THEOREM AskedOnceADay == Spec => []OneAttemptADay
BY RowsInductive, PTL DEF RowsInv

-----------------------------------------------------------------------------
(* Plans: backed by an attempt, one to a version                           *)

FailuresIn(A, r) ==
  {a \in A : a.case = r.case /\ a.version = r.version /\ a.model = r.model /\ a.status = "failed"}

(* What entitles a plan, or a worker that is about to make one, to its     *)
(* position, given the attempts on record.                                 *)
Backs(a, r, A) ==
  \/ r.method = "ai" /\ a.status = "selected" /\ a.position = r.position
  \/ r.method = "last_write_wins" /\ a.status = "abstained"
  \/ /\ r.method = "last_write_wins" /\ a.status = "failed"
     /\ Cardinality(FailuresIn(A, r)) >= MaxFailedDays
Backed(r, A) == \E a \in A : SameAttempt(a, r) /\ Backs(a, r, A)

(* A plan that is not pending is of a version that is over; the one that   *)
(* was applied made the version after it.                                  *)
PlanFine(p, k) ==
  /\ p.version <= k.version
  /\ p.status # "resolution_pending" => p.version < k.version
  /\ p.status = "applied" => k.status = "resolved" /\ k.version = p.version + 1 /\ k.preferred = p.position

PlansInv ==
  /\ \A p, q \in plans : p.case = q.case /\ p.version = q.version => p = q
  /\ \A p \in plans : Backed(p, assessed) /\ PlanFine(p, kase[p.case])
  /\ \A c \in Case : kase[c].status = "resolved" /\ verdict[c].method # "deterministic" => Applied(c) # {}

(* A worker that plans or commits is backed, and one that commits has a    *)
(* plan on record.                                                         *)
TaskFine(r, A, P) ==
  r.pc \in {"plan", "commit"} =>
    /\ Backed(r, A)
    /\ r.pc = "commit" => \E p \in P : p.case = r.case /\ p.version = r.version
TaskInv == \A w \in Worker : TaskFine(worker[w], assessed, plans)

PlanKeysKept == \A p \in plans : \E q \in plans' : q.case = p.case /\ q.version = p.version

(* A case is resolved by this step only with the majority. *)
ResolvedStep ==
  \A c \in Case : kase'[c].status = "resolved" =>
    verdict'[c].method = "deterministic" \/ (kase[c].status = "resolved" /\ verdict'[c] = verdict[c])

\* The test of the store.
LEMMA EarnedIsBacked == ASSUME NEW w PROVE Earned(w) <=> Backed(worker[w], assessed)
<1>1. Failures(worker[w].case, worker[w].version, worker[w].model) = FailuresIn(assessed, worker[w])
  BY DEF Failures, Of, FailuresIn
<1> QED
  BY <1>1 DEF Earned, Backed, Backs, Mine, Of, SameAttempt

\* More failures are on record, or as many.
LEMMA FailuresGrow ==
  ASSUME NEW A, NEW B, IsFiniteSet(A), IsFiniteSet(B), \A a \in A : a.status # "reserved" => a \in B, NEW r
  PROVE  /\ Cardinality(FailuresIn(A, r)) \in Nat /\ Cardinality(FailuresIn(B, r)) \in Nat
         /\ Cardinality(FailuresIn(A, r)) <= Cardinality(FailuresIn(B, r))
         /\ \A b \in FailuresIn(B, r) : b \notin A => Cardinality(FailuresIn(A, r)) + 1 <= Cardinality(FailuresIn(B, r))
<1> DEFINE F == FailuresIn(A, r)
           G == FailuresIn(B, r)
<1>1. F \subseteq A /\ G \subseteq B /\ F \subseteq G
  BY DEF FailuresIn
<1> HIDE DEF F, G
<1>2. IsFiniteSet(F) /\ IsFiniteSet(G)
  BY <1>1, FS_Subset
<1>3. Cardinality(F) \in Nat /\ Cardinality(G) \in Nat /\ Cardinality(F) <= Cardinality(G)
  BY <1>1, <1>2, FS_Subset, FS_CardinalityType
<1>4. ASSUME NEW b \in G, b \notin A PROVE Cardinality(F) + 1 <= Cardinality(G)
  <2>1. b \notin F /\ F \cup {b} \subseteq G
    BY <1>1, <1>4
  <2>2. Cardinality(F \cup {b}) = Cardinality(F) + 1
    BY <1>2, <2>1, FS_AddElement
  <2>3. Cardinality(F \cup {b}) <= Cardinality(G)
    BY <1>2, <2>1, FS_Subset
  <2> QED
    BY <2>2, <2>3
<1> QED
  BY <1>3, <1>4 DEF F, G

\* What was backed stays backed: answers stay, and failures grow.
LEMMA BackedKept ==
  ASSUME NEW A, NEW B, IsFiniteSet(A), IsFiniteSet(B), \A a \in A : a.status # "reserved" => a \in B,
         NEW r, Backed(r, A)
  PROVE  Backed(r, B)
<1>1. PICK a \in A : SameAttempt(a, r) /\ Backs(a, r, A)
  BY DEF Backed
<1>2. a \in B
  BY <1>1 DEF Backs
<1>3. Cardinality(FailuresIn(A, r)) >= MaxFailedDays => Cardinality(FailuresIn(B, r)) >= MaxFailedDays
  BY FailuresGrow, SizeAssumption
<1> QED
  BY <1>1, <1>2, <1>3 DEF Backed, Backs

\* Only what a plan is for counts.
LEMMA BackedSame ==
  ASSUME NEW A, NEW p, NEW r, SameAttempt(p, r), p.method = r.method, p.position = r.position, Backed(p, A)
  PROVE  Backed(r, A)
<1>1. FailuresIn(A, p) = FailuresIn(A, r)
  BY DEF FailuresIn, SameAttempt
<1> QED
  BY <1>1 DEF Backed, Backs, SameAttempt

LEMMA BackedStep ==
  ASSUME RowsInv, RowsInv', RowsKept, NEW r, Backed(r, assessed) PROVE Backed(r, assessed')
BY BackedKept DEF RowsInv, RowsKept

\* The workers but one stay as they are.
LEMMA TaskStep ==
  ASSUME TaskInv, RowsInv, RowsInv', RowsKept, PlanKeysKept, NEW w \in Worker,
         \A v \in Worker : v # w => worker'[v] = worker[v], TaskFine(worker'[w], assessed', plans')
  PROVE  TaskInv'
<1> SUFFICES ASSUME NEW v \in Worker PROVE TaskFine(worker'[v], assessed', plans')
  BY DEF TaskInv
<1>1. CASE v # w
  <2>1. worker'[v] = worker[v] /\ TaskFine(worker[v], assessed, plans)
    BY <1>1 DEF TaskInv
  <2>2. Backed(worker[v], assessed) => Backed(worker[v], assessed')
    BY BackedStep
  <2> QED
    BY <2>1, <2>2 DEF TaskFine, PlanKeysKept
<1> QED
  BY <1>1

\* No worker takes a step.
LEMMA TaskStays ==
  ASSUME TaskInv, RowsInv, RowsInv', RowsKept, PlanKeysKept, UNCHANGED worker PROVE TaskInv'
<1> SUFFICES ASSUME NEW v \in Worker PROVE TaskFine(worker'[v], assessed', plans')
  BY DEF TaskInv
<1>1. worker'[v] = worker[v] /\ TaskFine(worker[v], assessed, plans)
  BY DEF TaskInv
<1>2. Backed(worker[v], assessed) => Backed(worker[v], assessed')
  BY BackedStep
<1> QED
  BY <1>1, <1>2 DEF TaskFine, PlanKeysKept

(* What every step does to the cases and the attempts. *)
CaseFacts ==
  /\ CasesOK /\ CasesOK' /\ TablesOK /\ RowsInv /\ RowsInv' /\ RowsKept
  /\ VersionStep /\ ClosedStep

\* A plan that is as it was, or superseded with its version, stays fine.
LEMMA PlanFineKept ==
  ASSUME CaseFacts, NEW p \in plans, PlanFine(p, kase[p.case]), p.case \in Case
  PROVE  PlanFine(p, kase'[p.case])
<1> DEFINE k == kase[p.case]
           l == kase'[p.case]
<1>1. k.version \in Nat /\ l.version \in Nat /\ p.version \in Nat
  BY DEF CaseFacts, CasesOK, CaseRecord, TablesOK, PlanRecord
<1>2. KeepsOrBumps(k, l)
  BY DEF CaseFacts, VersionStep
<1>3. k.status = "resolved" => l = k
  BY DEF CaseFacts, ClosedStep, Live
<1> HIDE DEF k, l
<1>4. PlanFine(p, k)
  BY DEF k
<1>5. PlanFine(p, l)
  BY <1>1, <1>2, <1>3, <1>4 DEF PlanFine, KeepsOrBumps
<1> QED
  BY <1>5 DEF l

\* Plans change in place.
LEMMA PlansRewrite ==
  ASSUME CaseFacts, PlansInv, ResolvedStep, NEW g \in [plans -> PlanRecord],
         plans' = {g[p] : p \in plans},
         \A p \in plans : \/ g[p] = p
                          \/ /\ g[p] = [p EXCEPT !.status = "superseded"] /\ p.status = "resolution_pending"
                             /\ kase'[p.case].version > kase[p.case].version
  PROVE  PlansInv' /\ PlanKeysKept
<1>1. \A p \in plans : p \in PlanRecord /\ p.case \in Case
  BY DEF CaseFacts, TablesOK, PlanRecord
<1>2. \A p \in plans : /\ g[p].case = p.case /\ g[p].version = p.version /\ SameAttempt(p, g[p])
                       /\ p.method = g[p].method /\ p.position = g[p].position
  BY <1>1 DEF PlanRecord, SameAttempt
<1>3. PlanKeysKept
  BY <1>2 DEF PlanKeysKept
<1>4. ASSUME NEW p \in plans', NEW q \in plans', p.case = q.case, p.version = q.version PROVE p = q
  <2>1. PICK x \in plans, y \in plans : p = g[x] /\ q = g[y]
    OBVIOUS
  <2>2. x = y
    BY <1>2, <1>4, <2>1 DEF PlansInv
  <2> QED
    BY <2>1, <2>2
<1>5. ASSUME NEW q \in plans' PROVE Backed(q, assessed') /\ PlanFine(q, kase'[q.case])
  <2>1. PICK p \in plans : q = g[p]
    OBVIOUS
  <2>2. Backed(p, assessed')
    BY BackedStep DEF CaseFacts, PlansInv
  <2>3. Backed(q, assessed')
    BY <1>2, <2>1, <2>2, BackedSame
  <2>4. PlanFine(p, kase'[p.case])
    BY <1>1, PlanFineKept DEF PlansInv
  <2>5. CASE q = p
    BY <2>3, <2>4, <2>5
  <2>6. CASE /\ q = [p EXCEPT !.status = "superseded"] /\ p.status = "resolution_pending"
             /\ kase'[p.case].version > kase[p.case].version
    <3>1. q.status = "superseded" /\ q.version = p.version /\ q.case = p.case
      BY <1>1, <2>6 DEF PlanRecord
    <3>2. p.version \in Nat /\ kase[p.case].version \in Nat /\ kase'[p.case].version \in Nat
      BY <1>1 DEF CaseFacts, CasesOK, CaseRecord, PlanRecord
    <3>3. p.version <= kase[p.case].version
      BY DEF PlansInv, PlanFine
    <3> QED
      BY <2>3, <2>6, <3>1, <3>2, <3>3 DEF PlanFine
  <2> QED
    BY <2>1, <2>5, <2>6
<1>6. ASSUME NEW c \in Case, kase'[c].status = "resolved", verdict'[c].method # "deterministic"
      PROVE  Applied(c)' # {}
  <2>1. kase[c].status = "resolved" /\ verdict[c].method # "deterministic"
    BY <1>6 DEF ResolvedStep
  <2>2. PICK p \in plans : p.case = c /\ p.status = "applied"
    BY <2>1 DEF PlansInv, Applied
  <2>3. g[p] = p
    BY <2>2
  <2> QED
    BY <2>2, <2>3 DEF Applied
<1> QED
  BY <1>3, <1>4, <1>5, <1>6 DEF PlansInv

LEMMA PlansStay ==
  ASSUME CaseFacts, PlansInv, ResolvedStep, UNCHANGED plans PROVE PlansInv' /\ PlanKeysKept
<1> DEFINE g == [p \in plans |-> p]
<1>1. g \in [plans -> PlanRecord] /\ plans' = {g[p] : p \in plans} /\ \A p \in plans : g[p] = p
  BY DEF CaseFacts, TablesOK
<1> HIDE DEF g
<1> QED
  BY <1>1, PlansRewrite

LEMMA PlansSuperseded ==
  ASSUME CaseFacts, PlansInv, ResolvedStep, NEW c \in Case, Supersede(c),
         kase'[c].version > kase[c].version
  PROVE  PlansInv' /\ PlanKeysKept
<1> DEFINE g == [p \in plans |-> IF p.case = c /\ p.status = "resolution_pending"
                                 THEN [p EXCEPT !.status = "superseded"] ELSE p]
<1>1. \A p \in PlanRecord : [p EXCEPT !.status = "superseded"] \in PlanRecord
  BY DEF PlanRecord
<1>2. g \in [plans -> PlanRecord] /\ plans' = {g[p] : p \in plans}
  BY <1>1 DEF CaseFacts, TablesOK, Supersede
<1>3. \A p \in plans : \/ g[p] = p
                       \/ /\ g[p] = [p EXCEPT !.status = "superseded"] /\ p.status = "resolution_pending"
                          /\ kase'[p.case].version > kase[p.case].version
  OBVIOUS
<1> HIDE DEF g
<1> QED
  BY <1>2, <1>3, PlansRewrite

\* A plan is made for the version that the case has.
LEMMA PlansAdded ==
  ASSUME CaseFacts, WorkersOK, PlansInv, ResolvedStep, NEW w \in Worker, worker[w].pc \in {"plan", "commit"},
         Fresh(w), Earned(w), plans' = Planned(w)
  PROVE  PlansInv' /\ PlanKeysKept /\ \E p \in plans' : p.case = worker[w].case /\ p.version = worker[w].version
<1> DEFINE r == PlanRow(w)
           c == worker[w].case
<1>1. /\ r.case = c /\ r.version = worker[w].version /\ SameAttempt(worker[w], r) /\ r.status = "resolution_pending"
      /\ worker[w].method = r.method /\ worker[w].position = r.position
  BY DEF PlanRow, SameAttempt
<1>2. c \in Case /\ kase[c].version = r.version /\ kase[c].version \in Nat /\ kase'[c].version \in Nat
  BY <1>1, Phases DEF InCase, Fresh, Expected, CaseFacts, CasesOK, CaseRecord
<1> HIDE DEF r
<1>3. CASE PlanOf(w) # {}
  <2>1. UNCHANGED plans
    BY <1>3 DEF Planned
  <2> QED
    BY <1>3, <2>1, PlansStay DEF PlanOf
<1>4. CASE PlanOf(w) = {}
  <2>1. plans' = plans \cup {r}
    BY <1>4 DEF Planned, r
  <2>2. \A p \in plans : ~(p.case = r.case /\ p.version = r.version)
    BY <1>1, <1>4 DEF PlanOf
  <2>3. \A p, q \in plans' : p.case = q.case /\ p.version = q.version => p = q
    BY <2>1, <2>2 DEF PlansInv
  <2>4. Backed(r, assessed')
    <3>1. Backed(worker[w], assessed)
      BY EarnedIsBacked
    <3> QED
      BY <1>1, <3>1, BackedSame, BackedStep DEF CaseFacts
  <2>5. PlanFine(r, kase'[r.case])
    <3>1. KeepsOrBumps(kase[c], kase'[c])
      BY <1>2 DEF CaseFacts, VersionStep
    <3> QED
      BY <1>1, <1>2, <3>1 DEF PlanFine, KeepsOrBumps
  <2>6. ASSUME NEW p \in plans PROVE Backed(p, assessed') /\ PlanFine(p, kase'[p.case])
    <3>1. p.case \in Case
      BY DEF CaseFacts, TablesOK, PlanRecord
    <3> QED
      BY <3>1, BackedStep, PlanFineKept DEF PlansInv, CaseFacts
  <2>7. ASSUME NEW b \in Case, kase'[b].status = "resolved", verdict'[b].method # "deterministic"
        PROVE  Applied(b)' # {}
    <3>1. Applied(b) # {}
      BY <2>7 DEF ResolvedStep, PlansInv
    <3> QED
      BY <2>1, <3>1 DEF Applied
  <2>8. PlanKeysKept
    BY <2>1 DEF PlanKeysKept
  <2>9. PlansInv'
    BY <2>1, <2>3, <2>4, <2>5, <2>6, <2>7 DEF PlansInv
  <2> QED
    BY <1>1, <2>1, <2>8, <2>9
<1> QED
  BY <1>3, <1>4

\* The plan of the version is applied, and the case resolved with it.
LEMMA PlansApplied ==
  ASSUME CaseFacts, WorkersOK, PlansInv, TaskInv, DOMAIN verdict = Case, NEW w \in Worker, worker[w].pc = "commit",
         Fresh(w), Agreed(w),
         kase' = [kase EXCEPT ![worker[w].case] = Resolved(@, worker[w].position, worker[w].at)],
         plans' = {IF p \in PlanOf(w) THEN [p EXCEPT !.status = "applied"] ELSE p : p \in plans},
         \A c \in Case : c # worker[w].case => verdict'[c] = verdict[c]
  PROVE  PlansInv' /\ PlanKeysKept
<1> DEFINE c == worker[w].case
           k == kase[c]
           l == Resolved(k, worker[w].position, worker[w].at)
           v == worker[w].version
<1>1. c \in Case /\ worker[w].at \in Nat /\ worker[w].position \in Position \cup {NoPosition}
  BY Phases, SizeAssumption DEF InCase, ResolveState
<1>2. k \in CaseRecord /\ k.version = v /\ k.status = "overdue" /\ v \in Nat
  BY <1>1 DEF CaseFacts, CasesOK, Fresh, Expected, CaseRecord
<1>3. l.status = "resolved" /\ l.preferred = worker[w].position /\ l.version = v + 1
  BY <1>1, <1>2 DEF Resolved, Unleased, CaseRecord
<1>4. kase'[c] = l /\ \A b \in Case : b # c => kase'[b] = kase[b]
  BY <1>1 DEF CaseFacts, CasesOK
<1>5. PICK p \in plans : p.case = c /\ p.version = v
  BY DEF TaskInv, TaskFine
<1>6. PlanOf(w) = {p}
  BY <1>5 DEF PlanOf, PlansInv
<1>7. p \in PlanRecord /\ p.position = worker[w].position /\ p.status = "resolution_pending"
  BY <1>6 DEF Agreed, CaseFacts, TablesOK
<1> DEFINE q == [p EXCEPT !.status = "applied"]
<1>8. /\ q.case = c /\ q.version = v /\ q.status = "applied" /\ q.position = worker[w].position
      /\ SameAttempt(p, q) /\ p.method = q.method /\ p.position = q.position
  BY <1>5, <1>7 DEF PlanRecord, SameAttempt
<1> HIDE DEF l, q
<1>9. \A x \in plans' : x = q \/ (x \in plans /\ x # p)
  BY <1>6, <1>7 DEF q
<1>10. q \in plans' /\ \A x \in plans : x # p => x \in plans'
  BY <1>5, <1>6 DEF q
<1>11. \A x \in plans : x # p => ~(x.case = c /\ x.version = v)
  BY <1>5 DEF PlansInv
<1>12. \A x, y \in plans' : x.case = y.case /\ x.version = y.version => x = y
  BY <1>8, <1>9, <1>11 DEF PlansInv
<1>13. Backed(q, assessed') /\ PlanFine(q, kase'[q.case])
  <2>1. Backed(p, assessed')
    BY BackedStep DEF PlansInv, CaseFacts
  <2>2. Backed(q, assessed')
    BY <1>8, <2>1, BackedSame
  <2>3. PlanFine(q, l)
    BY <1>2, <1>3, <1>8 DEF PlanFine
  <2> QED
    BY <1>4, <1>8, <2>2, <2>3
<1>14. ASSUME NEW x \in plans PROVE Backed(x, assessed') /\ PlanFine(x, kase'[x.case])
  <2>1. x.case \in Case
    BY DEF CaseFacts, TablesOK, PlanRecord
  <2> QED
    BY <2>1, BackedStep, PlanFineKept DEF PlansInv, CaseFacts
<1>15. ASSUME NEW b \in Case, kase'[b].status = "resolved", verdict'[b].method # "deterministic"
       PROVE  Applied(b)' # {}
  <2>1. CASE b = c
    BY <1>8, <1>10, <2>1 DEF Applied
  <2>2. CASE b # c
    <3>1. PICK x \in plans : x.case = b /\ x.status = "applied"
      BY <1>4, <1>15, <2>2 DEF PlansInv, Applied
    <3>2. x \in plans'
      BY <1>5, <1>10, <2>2, <3>1
    <3> QED
      BY <3>1, <3>2 DEF Applied
  <2> QED
    BY <2>1, <2>2
<1>16. PlanKeysKept
  BY <1>5, <1>8, <1>10 DEF PlanKeysKept
<1> QED
  BY <1>9, <1>12, <1>13, <1>14, <1>15, <1>16 DEF PlansInv

\* What the transactions leave as the status of a case.
LEMMA Statuses ==
  ASSUME NEW k \in CaseRecord, NEW s \in Snapshot, NEW p \in Position \cup {NoPosition}, NEW at \in Nat
  PROVE  /\ Bumped(k, s).status = k.status /\ Dismissed(k, s, at).status = "dismissed"
         /\ Resolved(k, p, at).status = "resolved" /\ Overdue(k, at).status = "overdue"
         /\ Released(k, at).status = k.status
<1> DEFINE u == Unleased(k)
<1>1. u \in CaseRecord /\ u.status = k.status
  BY UnleasedType
<1>2. /\ Bumped(k, s) = [u EXCEPT !.snap = s, !.version = @ + 1, !.attempts = 0]
      /\ Dismissed(k, s, at) = [u EXCEPT !.snap = s, !.version = @ + 1, !.status = "dismissed", !.next = at]
      /\ Resolved(k, p, at) = [u EXCEPT !.status = "resolved", !.preferred = p, !.version = @ + 1, !.next = at]
      /\ Overdue(k, at) = [u EXCEPT !.status = "overdue", !.next = at + TicksPerDay, !.attempts = 0]
  BY DEF Bumped, Dismissed, Resolved, Overdue
<1>3. \E n : Released(k, at) = [u EXCEPT !.next = n, !.attempts = 0]
  BY DEF Released
<1> HIDE DEF u
<1> QED
  BY <1>1, <1>2, <1>3 DEF CaseRecord

LEMMA ResolvedWrite ==
  ASSUME CasesOK, NEW c \in Case, NEW r, r.status = kase[c].status \/ r.status # "resolved",
         kase' = [kase EXCEPT ![c] = r], UNCHANGED verdict
  PROVE  ResolvedStep /\ kase'[c] = r
BY DEF CasesOK, ResolvedStep

LEMMA ResolvedStays == ASSUME UNCHANGED <<kase, verdict>> PROVE ResolvedStep
BY DEF ResolvedStep

LEMMA NoTask == ASSUME NEW r, NEW A, NEW P, r.pc \notin {"plan", "commit"} PROVE TaskFine(r, A, P)
BY DEF TaskFine

\* A worker goes on without a plan.
LEMMA LeavesTask ==
  ASSUME WorkersOK, TaskInv, RowsInv, RowsInv', RowsKept, PlanKeysKept, NEW w \in Worker, NEW r, Put(w, r),
         r.pc \notin {"plan", "commit"}
  PROVE  TaskInv'
<1>1. worker'[w] = r /\ \A v \in Worker : v # w => worker'[v] = worker[v]
  BY DEF Put, WorkersOK
<1> QED
  BY <1>1, NoTask, TaskStep

LEMMA NextCaseTask ==
  ASSUME WorkersOK, TaskInv, RowsInv, RowsInv', RowsKept, PlanKeysKept, NEW w \in Worker, NEW f, NextCase(w, f)
  PROVE  TaskInv'
<1> DEFINE r == [pc |-> "renew", day |-> worker[w].day, tried |-> worker[w].tried, failed |-> worker[w].failed \/ f]
<1>1. Put(w, r) /\ r.pc \notin {"plan", "commit"}
  BY DEF NextCase
<1> HIDE DEF r
<1> QED
  BY <1>1, LeavesTask

Facts == IInv /\ CaseFacts /\ PlansInv /\ TaskInv
Goal == PlansInv' /\ TaskInv'

LEMMA FactsAre ==
  ASSUME Facts
  PROVE  /\ IInv /\ CaseFacts /\ PlansInv /\ TaskInv /\ WorkersOK /\ CasesOK /\ TablesOK /\ ClockOK
         /\ RowsInv /\ RowsInv' /\ RowsKept
BY DEF Facts, IInv, CaseFacts

\* The tables and the decisions stay, and no worker comes to plan.
LEMMA QuietTask ==
  ASSUME Facts, UNCHANGED <<plans, verdict>>, \A c \in Case : kase'[c].status = kase[c].status,
         UNCHANGED worker \/ \E w \in Worker : \E r : Put(w, r) /\ r.pc \notin {"plan", "commit"}
  PROVE  Goal
<1>1. ResolvedStep
  BY DEF ResolvedStep
<1>2. PlansInv' /\ PlanKeysKept
  BY <1>1, FactsAre, PlansStay
<1> QED
  BY <1>2, FactsAre, TaskStays, LeavesTask DEF Goal

LEMMA LoopTask ==
  ASSUME Facts, NEW w \in Worker, Start(w) \/ Renew(w) \/ Claim(w) \/ Finish(w) \/ Error(w) \/ Crash(w)
  PROVE  Goal
<1>1. UNCHANGED <<plans, verdict>>
  BY DEF Start, Renew, Claim, Finish, Error, Crash
<1>2. Idle.pc = "idle"
  BY DEF Idle
<1>3. ASSUME NEW r, Put(w, r), r.pc \in {"idle", "renew", "claim", "finish"}
      PROVE  \E x : Put(w, x) /\ x.pc \notin {"plan", "commit"}
  BY <1>3
<1>4. \E r : Put(w, r) /\ r.pc \notin {"plan", "commit"}
  <2>1. CASE Start(w)
    <3>1. /\ [Idle EXCEPT !.pc = "renew", !.day = Day(now)].pc = "renew"
          /\ [Idle EXCEPT !.pc = "renew", !.day = Day(now), !.failed = TRUE].pc = "renew"
      BY DEF Idle
    <3> QED
      BY <1>3, <2>1, <3>1 DEF Start
  <2>2. CASE Renew(w)
    <3>1. worker[w] \in LoopState
      BY <2>2, FactsAre, Phases DEF Renew
    <3>2. /\ [worker[w] EXCEPT !.pc = "claim"].pc = "claim"
          /\ [worker[w] EXCEPT !.pc = "finish", !.failed = TRUE].pc = "finish"
      BY <3>1 DEF LoopState
    <3> QED
      BY <1>3, <2>2, <3>2 DEF Renew
  <2>3. CASE Claim(w)
    <3>1. CASE Put(w, [worker[w] EXCEPT !.pc = "finish"])
      <4>1. worker[w] \in LoopState
        BY <2>3, FactsAre, Phases DEF Claim
      <4>2. [worker[w] EXCEPT !.pc = "finish"].pc = "finish"
        BY <4>1 DEF LoopState
      <4> QED
        BY <1>3, <3>1, <4>2
    <3>2. CASE \E c \in Case : Put(w, [pc |-> "review", day |-> worker[w].day, case |-> c, at |-> now,
                     tried |-> worker[w].tried \cup {c}, failed |-> worker[w].failed])
      <4>1. PICK c \in Case : Put(w, [pc |-> "review", day |-> worker[w].day, case |-> c, at |-> now,
                     tried |-> worker[w].tried \cup {c}, failed |-> worker[w].failed])
        BY <3>2
      <4> DEFINE r == [pc |-> "review", day |-> worker[w].day, case |-> c, at |-> now,
                     tried |-> worker[w].tried \cup {c}, failed |-> worker[w].failed]
      <4>2. Put(w, r) /\ r.pc = "review"
        BY <4>1
      <4> HIDE DEF r
      <4> QED
        BY <4>2
    <3> QED
      BY <2>3, <3>1, <3>2 DEF Claim
  <2>4. CASE Finish(w)
    BY <1>2, <1>3, <2>4 DEF Finish
  <2>5. CASE Error(w)
    <3>1. CASE NextCase(w, TRUE)
      <4> DEFINE r == [pc |-> "renew", day |-> worker[w].day, tried |-> worker[w].tried, failed |-> worker[w].failed \/ TRUE]
      <4>1. Put(w, r) /\ r.pc = "renew"
        BY <3>1 DEF NextCase
      <4> HIDE DEF r
      <4> QED
        BY <4>1
    <3>2. CASE worker[w].pc \in {"renew", "claim"} /\ Put(w, [worker[w] EXCEPT !.pc = "finish", !.failed = TRUE])
      <4>1. worker[w] \in LoopState
        BY <3>2, FactsAre, Phases
      <4>2. [worker[w] EXCEPT !.pc = "finish", !.failed = TRUE].pc = "finish"
        BY <4>1 DEF LoopState
      <4> QED
        BY <1>3, <3>2, <4>2
    <3>3. CASE Put(w, Idle)
      BY <1>2, <1>3, <3>3
    <3> QED
      BY <2>5, <3>1, <3>2, <3>3 DEF Error
  <2>6. CASE Crash(w)
    BY <1>2, <1>3, <2>6 DEF Crash
  <2> QED
    BY <2>1, <2>2, <2>3, <2>4, <2>5, <2>6
<1>5. \A c \in Case : kase'[c].status = kase[c].status
  <2>1. CASE UNCHANGED kase
    BY <2>1
  <2>2. CASE \E c \in Case : kase' = [kase EXCEPT ![c] = ClaimedCase(c, w)]
    <3>1. PICK c \in Case : kase' = [kase EXCEPT ![c] = ClaimedCase(c, w)]
      BY <2>2
    <3>2. ClaimedCase(c, w).status = kase[c].status
      BY FactsAre DEF ClaimedCase, CasesOK, CaseRecord
    <3> QED
      BY <3>1, <3>2, FactsAre DEF CasesOK
  <2> QED
    BY <2>1, <2>2 DEF Start, Renew, Claim, Finish, Error, Crash
<1> QED
  BY <1>1, <1>4, <1>5, QuietTask

LEMMA ClockTask ==
  ASSUME Facts, (\E d \in Days : RunLapses(d)) \/ (\E c \in Case : CaseLapses(c)) \/ Tick \/ LateTick
  PROVE  Goal
<1>1. UNCHANGED <<plans, verdict, worker>>
  BY DEF RunLapses, CaseLapses, Tick, LateTick
<1>2. \A k \in CaseRecord : \A l : [k EXCEPT !.lapsed = l].status = k.status
  BY DEF CaseRecord
<1>3. \A c \in Case : kase'[c].status = kase[c].status
  <2>1. CASE UNCHANGED kase
    BY <2>1
  <2>2. CASE LeasesLapse
    BY <1>2, <2>2, FactsAre DEF LeasesLapse, CasesOK
  <2>3. CASE \E c \in Case : kase' = [kase EXCEPT ![c] = [@ EXCEPT !.lapsed = TRUE]]
    BY <1>2, <2>3, FactsAre DEF CasesOK
  <2> QED
    BY <2>1, <2>2, <2>3 DEF RunLapses, CaseLapses, Tick, LateTick
<1> QED
  BY <1>1, <1>3, QuietTask

\* One by one, for the provers.
LEMMA DismissedVersion ==
  ASSUME NEW k \in CaseRecord, NEW s \in Snapshot, NEW at \in Nat
  PROVE  Dismissed(k, s, at).version = k.version + 1
BY Versions

LEMMA BumpedVersion ==
  ASSUME NEW k \in CaseRecord, NEW s \in Snapshot PROVE Bumped(k, s).version = k.version + 1
<1>1. 0 \in Nat
  OBVIOUS
<1> QED
  BY <1>1, Versions

LEMMA ReleasedVersion ==
  ASSUME NEW k \in CaseRecord, NEW s \in Snapshot, NEW at \in Nat
  PROVE  Released(k, at).version = k.version /\ Overdue(k, at).version = k.version
BY Versions

LEMMA ResolvedVersion ==
  ASSUME NEW k \in CaseRecord, NEW s \in Snapshot, NEW p \in Position \cup {NoPosition}, NEW at \in Nat
  PROVE  Resolved(k, p, at).version = k.version + 1
BY Versions

\* A record of a later version supersedes the plans of the case.
LEMMA BumpTask ==
  ASSUME Facts, NEW c \in Case, NEW r, kase' = [kase EXCEPT ![c] = r], r.version = kase[c].version + 1,
         r.status = kase[c].status \/ r.status # "resolved", Supersede(c), UNCHANGED verdict
  PROVE  PlansInv' /\ PlanKeysKept
<1>1. ResolvedStep /\ kase'[c] = r
  BY FactsAre, ResolvedWrite
<1>2. kase[c].version \in Nat
  BY FactsAre DEF CasesOK, CaseRecord
<1>3. kase'[c].version > kase[c].version
  BY <1>1, <1>2
<1> QED
  BY <1>1, <1>3, FactsAre, PlansSuperseded

LEMMA DismissTask ==
  ASSUME Facts, NEW w \in Worker, worker[w].pc \in InCase, Dismiss(w, worker[w].case), UNCHANGED verdict
  PROVE  PlansInv' /\ PlanKeysKept
<1> DEFINE c == worker[w].case
           r == Dismissed(kase[c], evidence[c], worker[w].at)
<1>1. c \in Case /\ worker[w].at \in Nat
  BY FactsAre, Phases, SizeAssumption
<1>2. kase[c] \in CaseRecord /\ evidence[c] \in Snapshot /\ NoPosition \in Position \cup {NoPosition}
  BY <1>1, FactsAre, EvidenceType DEF CasesOK
<1>3. r.version = kase[c].version + 1 /\ r.status = "dismissed"
  <2> HIDE DEF c
  <2>1. r.version = kase[c].version + 1
    BY <1>1, <1>2, DismissedVersion
  <2>2. r.status = "dismissed"
    BY <1>1, <1>2, Statuses
  <2> QED
    BY <2>1, <2>2
<1>4. kase' = [kase EXCEPT ![c] = r] /\ Supersede(c)
  BY DEF Dismiss
<1> HIDE DEF r, c
<1> QED
  BY <1>1, <1>3, <1>4, BumpTask

\* The snapshot is refreshed, with the version, when the evidence changed.
LEMMA EvaluateTask ==
  ASSUME Facts, DOMAIN verdict = Case, NEW w \in Worker, worker[w].pc = "review", Conflicted(worker[w].case),
         RefreshTables(worker[w].case), Evaluate(w, worker[w].case)
  PROVE  PlansInv' /\ PlanKeysKept
<1> DEFINE c == worker[w].case
           at == worker[w].at
           k == Refreshed(c)
           p == Majority[evidence[c]]
<1>1. c \in Case /\ at \in Nat
  BY FactsAre, Phases, SizeAssumption DEF InCase
<1>2. kase[c] \in CaseRecord /\ evidence[c] \in Snapshot /\ p \in Position \cup {NoPosition}
  BY <1>1, FactsAre, EvidenceType DEF CasesOK
<1>3. CASE Changed(c)
  <2>1. k = Bumped(kase[c], evidence[c]) /\ Supersede(c)
    BY <1>3 DEF Refreshed, RefreshTables
  <2>2. k \in CaseRecord /\ k.version = kase[c].version + 1 /\ k.status = kase[c].status
    <3> HIDE DEF c, k, p
    <3>1. k \in CaseRecord /\ k.status = kase[c].status
      BY <1>2, <2>1, BumpedType DEF CaseFine
    <3>2. k.version = kase[c].version + 1
      BY <1>2, <2>1, BumpedVersion
    <3> QED
      BY <3>1, <3>2
  <2>3. kase[c].version \in Nat
    BY <1>2 DEF CaseRecord
  <2> HIDE DEF k
  <2>4. kase'[c].version > kase[c].version
    <3>1. /\ Released(k, at).version = k.version /\ Overdue(k, at).version = k.version
          /\ Resolved(k, p, at).version = k.version + 1
      <4> HIDE DEF c, p, at
      <4>1. Released(k, at).version = k.version /\ Overdue(k, at).version = k.version
        BY <1>1, <1>2, <2>2, ReleasedVersion
      <4>2. Resolved(k, p, at).version = k.version + 1
        BY <1>1, <1>2, <2>2, ResolvedVersion
      <4> QED
        BY <4>1, <4>2
    <3>2. kase'[c] = Released(k, at) \/ kase'[c] = Overdue(k, at) \/ kase'[c] = Resolved(k, p, at)
      BY <1>1, FactsAre DEF Evaluate, CasesOK, k
    <3> QED
      BY <2>2, <2>3, <3>1, <3>2
  <2>5. ResolvedStep
    <3>1. Released(k, at).status = kase[c].status /\ Overdue(k, at).status = "overdue"
      <4> HIDE DEF c, p, at
      <4> QED
        BY <1>1, <1>2, <2>2, Statuses
    <3>2. CASE kase' = [kase EXCEPT ![c] = Released(k, at)] /\ UNCHANGED verdict
      BY <1>1, <3>1, <3>2, FactsAre, ResolvedWrite
    <3>3. CASE kase' = [kase EXCEPT ![c] = Overdue(k, at)] /\ UNCHANGED verdict
      BY <1>1, <3>1, <3>3, FactsAre, ResolvedWrite
    <3>4. CASE /\ kase' = [kase EXCEPT ![c] = Resolved(k, p, at)]
               /\ verdict' = [verdict EXCEPT ![c] = [method |-> "deterministic", basis |-> k.snap, evidence |-> evidence[c]]]
      BY <1>1, <3>4, FactsAre DEF ResolvedStep, CasesOK
    <3> QED
      BY <3>2, <3>3, <3>4 DEF Evaluate, k
  <2> QED
    BY <1>1, <2>1, <2>4, <2>5, FactsAre, PlansSuperseded
<1>4. CASE ~Changed(c)
  <2>1. k = kase[c] /\ UNCHANGED plans
    BY <1>4 DEF Refreshed, RefreshTables
  <2>2. Released(kase[c], at).status = kase[c].status /\ Overdue(kase[c], at).status = "overdue"
    BY <1>1, <1>2, Statuses
  <2>3. CASE kase' = [kase EXCEPT ![c] = Released(kase[c], at)] /\ UNCHANGED verdict
    BY <1>1, <2>1, <2>2, <2>3, FactsAre, ResolvedWrite, PlansStay
  <2>4. CASE kase' = [kase EXCEPT ![c] = Overdue(kase[c], at)] /\ UNCHANGED verdict
    BY <1>1, <2>1, <2>2, <2>4, FactsAre, ResolvedWrite, PlansStay
  <2>5. CASE /\ kase' = [kase EXCEPT ![c] = Resolved(kase[c], p, at)]
             /\ verdict' = [verdict EXCEPT ![c] = [method |-> "deterministic", basis |-> k.snap, evidence |-> evidence[c]]]
    <3>1. ResolvedStep
      BY <1>1, <2>5, FactsAre DEF ResolvedStep, CasesOK
    <3> QED
      BY <2>1, <3>1, FactsAre, PlansStay
  <2> QED
    BY <2>1, <2>3, <2>4, <2>5 DEF Evaluate
<1> QED
  BY <1>3, <1>4

LEMMA ReviewTask ==
  ASSUME Facts, DOMAIN verdict = Case, NEW w \in Worker, Review(w) PROVE Goal
<1> DEFINE c == worker[w].case
<1>1. worker[w].pc = "review" /\ worker[w].pc \in InCase /\ worker[w] \in CaseState
  BY FactsAre, Phases DEF Review, InCase
<1>2. CASE NextCase(w, TRUE) /\ UNCHANGED <<kase, assessed, plans, verdict>>
  <2>1. PlansInv' /\ PlanKeysKept
    BY <1>2, FactsAre, ResolvedStays, PlansStay
  <2> QED
    BY <1>2, <2>1, FactsAre, NextCaseTask DEF Goal
<1>3. CASE Dismiss(w, c) /\ NextCase(w, FALSE) /\ UNCHANGED verdict
  BY <1>1, <1>3, FactsAre, DismissTask, NextCaseTask DEF Goal
<1>4. CASE Conflicted(c) /\ RefreshTables(c) /\ Evaluate(w, c)
  <2>1. PlansInv' /\ PlanKeysKept
    BY <1>1, <1>4, EvaluateTask
  <2>2. CASE NextCase(w, FALSE)
    BY <2>1, <2>2, FactsAre, NextCaseTask DEF Goal
  <2>3. CASE Put(w, [worker[w] EXCEPT !.pc = "resume"])
    <3>1. [worker[w] EXCEPT !.pc = "resume"].pc = "resume"
      BY <1>1 DEF CaseState
    <3> QED
      BY <2>1, <2>3, <3>1, FactsAre, LeavesTask DEF Goal
  <2> QED
    BY <1>4, <2>2, <2>3 DEF Evaluate
<1> QED
  BY <1>2, <1>3, <1>4 DEF Review

\* A worker comes to plan what is backed.
LEMMA TakesTask ==
  ASSUME Facts, UNCHANGED <<kase, plans, verdict>>, NEW w \in Worker, NEW v, NEW date, NEW m, NEW p, NEW method,
         Put(w, Resolving(w, v, date, m, p, method)), Backed(Resolving(w, v, date, m, p, method), assessed')
  PROVE  Goal
<1> DEFINE r == Resolving(w, v, date, m, p, method)
<1>1. r.pc = "plan"
  BY DEF Resolving
<1> HIDE DEF r
<1>2. TaskFine(r, assessed', plans')
  BY <1>1 DEF TaskFine, r
<1>3. worker'[w] = r /\ \A u \in Worker : u # w => worker'[u] = worker[u]
  BY FactsAre DEF Put, WorkersOK, r
<1>4. PlansInv' /\ PlanKeysKept
  BY FactsAre, ResolvedStays, PlansStay
<1> QED
  BY <1>2, <1>3, <1>4, FactsAre, TaskStep DEF Goal

LEMMA ResumeTask == ASSUME Facts, NEW w \in Worker, Resume(w) PROVE Goal
<1> DEFINE c == worker[w].case
<1>1. UNCHANGED <<kase, assessed, plans, verdict>>
  BY DEF Resume
<1>2. CASE \E p \in PendingPlans(c) : Put(w, Resolving(w, p.version, p.date, p.model, p.position, p.method))
  <2>1. PICK p \in PendingPlans(c) : Put(w, Resolving(w, p.version, p.date, p.model, p.position, p.method))
    BY <1>2
  <2> DEFINE r == Resolving(w, p.version, p.date, p.model, p.position, p.method)
  <2>2. p \in plans /\ SameAttempt(p, r) /\ p.method = r.method /\ p.position = r.position
    BY <2>1 DEF PendingPlans, Resolving, SameAttempt
  <2>3. Backed(p, assessed')
    BY <1>1, <2>2, FactsAre DEF PlansInv
  <2>4. Backed(r, assessed')
    BY <2>2, <2>3, BackedSame
  <2> QED
    BY <1>1, <2>1, <2>4, TakesTask
<1>3. CASE \E m \in Configured[worker[w].day] :
             Put(w, [pc |-> "reserve", day |-> worker[w].day, tried |-> worker[w].tried,
                     failed |-> worker[w].failed, case |-> c, at |-> worker[w].at, date |-> Day(worker[w].at), model |-> m])
  <2>1. PICK m \in Configured[worker[w].day] :
             Put(w, [pc |-> "reserve", day |-> worker[w].day, tried |-> worker[w].tried,
                     failed |-> worker[w].failed, case |-> c, at |-> worker[w].at, date |-> Day(worker[w].at), model |-> m])
    BY <1>3
  <2> DEFINE r == [pc |-> "reserve", day |-> worker[w].day, tried |-> worker[w].tried,
                   failed |-> worker[w].failed, case |-> c, at |-> worker[w].at, date |-> Day(worker[w].at), model |-> m]
  <2>2. Put(w, r) /\ r.pc = "reserve"
    BY <2>1
  <2> HIDE DEF r
  <2> QED
    BY <1>1, <2>2, QuietTask
<1> QED
  BY <1>2, <1>3 DEF Resume

LEMMA ReserveTask == ASSUME Facts, NEW w \in Worker, ReserveAssessment(w) PROVE Goal
<1> DEFINE c == worker[w].case
           v == kase[c].version
           m == worker[w].model
           date == worker[w].date
           failed == ExpiredFailures(c, v, m, date)
           s == LastWriter[evidence[c]]
<1>1. UNCHANGED <<kase, plans, verdict>>
  BY DEF ReserveAssessment
<1>2. CASE NextCase(w, FALSE)
  <2>1. PlansInv' /\ PlanKeysKept
    BY <1>1, FactsAre, ResolvedStays, PlansStay
  <2> QED
    BY <1>2, <2>1, FactsAre, NextCaseTask DEF Goal
<1>3. CASE /\ Cardinality(failed) >= MaxFailedDays /\ assessed' = Expired(c, v, m, date)
           /\ \E a \in failed : Put(w, Resolving(w, v, a.date, m, s, "last_write_wins"))
  <2>1. PICK a \in failed : Put(w, Resolving(w, v, a.date, m, s, "last_write_wins"))
    BY <1>3
  <2> DEFINE r == Resolving(w, v, a.date, m, s, "last_write_wins")
  <2>2. r.case = c /\ r.version = v /\ r.model = m /\ r.date = a.date /\ r.method = "last_write_wins"
    BY DEF Resolving
  <2>3. failed = FailuresIn(assessed', r)
    BY <1>3, <2>2 DEF ExpiredFailures, FailuresIn
  <2>4. a \in assessed' /\ a.status = "failed" /\ SameAttempt(a, r)
    BY <2>2, <2>3 DEF FailuresIn, SameAttempt
  <2> HIDE DEF failed
  <2>5. Backed(r, assessed')
    BY <1>3, <2>2, <2>3, <2>4 DEF Backed, Backs
  <2> QED
    BY <1>1, <2>1, <2>5, TakesTask
<1>4. CASE Put(w, [pc |-> "assess", day |-> worker[w].day, tried |-> worker[w].tried,
                   failed |-> worker[w].failed, case |-> c, at |-> worker[w].at, date |-> date, model |-> m,
                   version |-> v, dossier |-> evidence[c]])
  <2> DEFINE r == [pc |-> "assess", day |-> worker[w].day, tried |-> worker[w].tried,
                   failed |-> worker[w].failed, case |-> c, at |-> worker[w].at, date |-> date, model |-> m,
                   version |-> v, dossier |-> evidence[c]]
  <2>1. Put(w, r) /\ r.pc = "assess"
    BY <1>4
  <2> HIDE DEF r
  <2> QED
    BY <1>1, <2>1, QuietTask
<1> QED
  BY <1>2, <1>3, <1>4 DEF ReserveAssessment

LEMMA AssessTask == ASSUME Facts, NEW w \in Worker, Assess(w) PROVE Goal
<1>1. UNCHANGED <<kase, plans, verdict>> /\ NoPosition \in Position \cup {NoPosition}
  BY DEF Assess
<1>2. PlansInv' /\ PlanKeysKept
  BY <1>1, FactsAre, ResolvedStays, PlansStay
<1>3. ASSUME NEW f, NextCase(w, f) PROVE Goal
  BY <1>2, <1>3, FactsAre, NextCaseTask DEF Goal
<1>4. ASSUME NEW p, NEW method, ResolveAs(w, p, method), NEW b \in assessed', SameAttempt(b, worker[w]),
             \/ method = "ai" /\ b.status = "selected" /\ b.position = p
             \/ method = "last_write_wins" /\ b.status = "abstained"
             \/ /\ method = "last_write_wins" /\ b.status = "failed"
                /\ Cardinality(FailuresIn(assessed', worker[w])) >= MaxFailedDays
      PROVE  Goal
  <2> DEFINE r == Resolving(w, worker[w].version, worker[w].date, worker[w].model, p, method)
  <2>1. SameAttempt(worker[w], r) /\ r.method = method /\ r.position = p
    BY DEF Resolving, SameAttempt
  <2>2. Put(w, r)
    BY <1>4 DEF ResolveAs
  <2>3. FailuresIn(assessed', worker[w]) = FailuresIn(assessed', r) /\ SameAttempt(b, r)
    BY <1>4, <2>1 DEF FailuresIn, SameAttempt
  <2> HIDE DEF r
  <2>4. Backed(r, assessed')
    BY <1>4, <2>1, <2>3 DEF Backed, Backs
  <2> QED
    BY <1>1, <2>2, <2>4, TakesTask DEF r
<1>5. CASE \E lost \in {FALSE, worker[w].model \in Required} : NextCase(w, lost)
  BY <1>3, <1>5
<1>6. CASE StillReserved(w) /\ \E p \in Position : Completed(w, "selected", p) /\ ResolveAs(w, p, "ai")
  <2>1. PICK p \in Position : Completed(w, "selected", p) /\ ResolveAs(w, p, "ai")
    BY <1>6
  <2>2. PICK b \in assessed' : SameAttempt(b, worker[w]) /\ b.status = "selected" /\ b.position = p
    BY <1>6, <2>1, FactsAre, RowsCompleted
  <2> QED
    BY <1>4, <2>1, <2>2
<1>7. CASE /\ StillReserved(w) /\ Completed(w, "abstained", NoPosition)
           /\ ResolveAs(w, LastWriter[worker[w].dossier], "last_write_wins")
  <2>1. PICK b \in assessed' : SameAttempt(b, worker[w]) /\ b.status = "abstained"
    BY <1>1, <1>7, FactsAre, RowsCompleted
  <2> QED
    BY <1>4, <1>7, <2>1
<1>8. CASE /\ StillReserved(w) /\ Completed(w, "failed", NoPosition) /\ LastFailure(w)
           /\ ResolveAs(w, LastWriter[worker[w].dossier], "last_write_wins")
  <2>1. PICK b \in assessed' : SameAttempt(b, worker[w]) /\ b.status = "failed" /\ b \notin assessed
    BY <1>1, <1>8, FactsAre, RowsCompleted
  <2>2. b \in FailuresIn(assessed', worker[w])
    BY <2>1 DEF FailuresIn, SameAttempt
  <2>3. Failures(worker[w].case, worker[w].version, worker[w].model) = FailuresIn(assessed, worker[w])
    BY DEF Failures, Of, FailuresIn
  <2>4. Cardinality(FailuresIn(assessed, worker[w])) + 1 >= MaxFailedDays
    BY <1>8, <2>3 DEF LastFailure
  <2>5. /\ Cardinality(FailuresIn(assessed, worker[w])) \in Nat /\ Cardinality(FailuresIn(assessed', worker[w])) \in Nat
        /\ Cardinality(FailuresIn(assessed, worker[w])) + 1 <= Cardinality(FailuresIn(assessed', worker[w]))
    BY <2>1, <2>2, FactsAre, FailuresGrow DEF RowsInv, RowsKept
  <2>6. Cardinality(FailuresIn(assessed', worker[w])) >= MaxFailedDays
    BY <2>4, <2>5, SizeAssumption
  <2> QED
    BY <1>4, <1>8, <2>1, <2>6
<1> QED
  BY <1>3, <1>5, <1>6, <1>7, <1>8 DEF Assess

LEMMA RefreshTask ==
  ASSUME Facts, NEW c \in Case, NEW s \in Snapshot, Supersede(c), kase' = [kase EXCEPT ![c] = Bumped(@, s)],
         UNCHANGED verdict
  PROVE  PlansInv' /\ PlanKeysKept
<1> DEFINE r == Bumped(kase[c], s)
<1>1. kase[c] \in CaseRecord /\ NoPosition \in Position \cup {NoPosition} /\ 0 \in Nat
  BY FactsAre DEF CasesOK
<1>2. r.status = kase[c].status
  BY <1>1, BumpedType
<1>3. r.version = kase[c].version + 1
  BY <1>1, Versions
<1>4. kase' = [kase EXCEPT ![c] = r]
  OBVIOUS
<1> HIDE DEF r
<1> QED
  BY <1>2, <1>3, <1>4, BumpTask

LEMMA StaleTask ==
  ASSUME Facts, NEW w \in Worker, worker[w].pc \in {"plan", "commit"}, Stale(w), UNCHANGED verdict
  PROVE  PlansInv' /\ PlanKeysKept
<1> DEFINE c == worker[w].case
<1>1. c \in Case /\ worker[w].pc \in InCase /\ evidence[c] \in Snapshot
  BY FactsAre, Phases, EvidenceType DEF InCase
<1>2. CASE UNCHANGED <<kase, assessed, plans>>
  BY <1>2, FactsAre, ResolvedStays, PlansStay
<1>3. CASE Dismiss(w, c)
  BY <1>1, <1>3, DismissTask
<1>4. CASE Supersede(c) /\ kase' = [kase EXCEPT ![c] = Bumped(@, evidence[c])]
  BY <1>1, <1>4, RefreshTask
<1> QED
  BY <1>2, <1>3, <1>4 DEF Stale

LEMMA DeferTask ==
  ASSUME Facts, NEW w \in Worker, worker[w].pc \in {"plan", "commit"}, Fresh(w), Earned(w), Defer(w),
         UNCHANGED verdict
  PROVE  Goal
<1> DEFINE c == worker[w].case
           at == worker[w].at
           r == Released(kase[c], at)
<1>1. c \in Case /\ at \in Nat
  BY FactsAre, Phases, SizeAssumption DEF InCase
<1>2. kase[c] \in CaseRecord /\ evidence[c] \in Snapshot /\ NoPosition \in Position \cup {NoPosition}
  BY <1>1, FactsAre, EvidenceType DEF CasesOK
<1>3. r.status = kase[c].status
  <2> HIDE DEF c, at
  <2> QED
    BY <1>1, <1>2, Statuses
<1>4. kase' = [kase EXCEPT ![c] = r] /\ plans' = Planned(w) /\ NextCase(w, FALSE)
  BY DEF Defer
<1> HIDE DEF r
<1>5. ResolvedStep
  BY <1>1, <1>3, <1>4, FactsAre, ResolvedWrite
<1>6. PlansInv' /\ PlanKeysKept
  BY <1>4, <1>5, FactsAre, PlansAdded
<1> QED
  BY <1>4, <1>6, FactsAre, NextCaseTask DEF Goal

LEMMA PlanTask == ASSUME Facts, NEW w \in Worker, Plan(w) PROVE Goal
<1>1. worker[w].pc = "plan" /\ UNCHANGED verdict /\ worker[w] \in ResolveState
  BY FactsAre, Phases DEF Plan
<1>2. CASE Stale(w) /\ NextCase(w, FALSE)
  BY <1>1, <1>2, FactsAre, StaleTask, NextCaseTask DEF Goal
<1>3. CASE NextCase(w, TRUE) /\ UNCHANGED <<kase, assessed, plans>>
  <2>1. PlansInv' /\ PlanKeysKept
    BY <1>1, <1>3, FactsAre, ResolvedStays, PlansStay
  <2> QED
    BY <1>3, <2>1, FactsAre, NextCaseTask DEF Goal
<1>4. CASE /\ Fresh(w) /\ Earned(w) /\ plans' = Planned(w) /\ Put(w, [worker[w] EXCEPT !.pc = "commit"])
           /\ UNCHANGED <<kase, assessed>>
  <2> DEFINE r == [worker[w] EXCEPT !.pc = "commit"]
  <2>1. /\ r.pc = "commit" /\ SameAttempt(worker[w], r) /\ worker[w].method = r.method
        /\ worker[w].position = r.position
    BY <1>1 DEF ResolveState, SameAttempt
  <2>2. PlansInv' /\ PlanKeysKept /\ \E p \in plans' : p.case = worker[w].case /\ p.version = worker[w].version
    BY <1>1, <1>4, FactsAre, ResolvedStays, PlansAdded
  <2>3. Backed(worker[w], assessed')
    BY <1>4, EarnedIsBacked
  <2>4. Put(w, r)
    BY <1>4
  <2> HIDE DEF r
  <2>5. Backed(r, assessed')
    BY <2>1, <2>3, BackedSame
  <2>6. TaskFine(r, assessed', plans')
    BY <2>1, <2>2, <2>5 DEF TaskFine, SameAttempt
  <2>7. worker'[w] = r /\ \A v \in Worker : v # w => worker'[v] = worker[v]
    BY <2>4, FactsAre DEF Put, WorkersOK
  <2> QED
    BY <2>2, <2>6, <2>7, FactsAre, TaskStep DEF Goal
<1>5. CASE Fresh(w) /\ Earned(w) /\ Defer(w)
  BY <1>1, <1>5, DeferTask
<1> QED
  BY <1>2, <1>3, <1>4, <1>5 DEF Plan

LEMMA CommitTask ==
  ASSUME Facts, DOMAIN verdict = Case, NEW w \in Worker, Commit(w) PROVE Goal
<1> DEFINE c == worker[w].case
<1>1. worker[w].pc = "commit" /\ worker[w].pc \in {"plan", "commit"}
  BY DEF Commit
<1>2. CASE Stale(w) /\ NextCase(w, FALSE) /\ UNCHANGED verdict
  BY <1>1, <1>2, FactsAre, StaleTask, NextCaseTask DEF Goal
<1>3. CASE NextCase(w, FALSE) /\ UNCHANGED <<kase, assessed, plans, verdict>>
  <2>1. PlansInv' /\ PlanKeysKept
    BY <1>1, <1>3, FactsAre, ResolvedStays, PlansStay
  <2> QED
    BY <1>3, <2>1, FactsAre, NextCaseTask DEF Goal
<1>4. CASE Fresh(w) /\ Earned(w) /\ Defer(w) /\ UNCHANGED verdict
  BY <1>1, <1>4, DeferTask
<1>5. CASE /\ Fresh(w) /\ Agreed(w)
           /\ kase' = [kase EXCEPT ![c] = Resolved(@, worker[w].position, worker[w].at)]
           /\ plans' = {IF p \in PlanOf(w) THEN [p EXCEPT !.status = "applied"] ELSE p : p \in plans}
           /\ \A b \in Case : b # c => verdict'[b] = verdict[b]
           /\ NextCase(w, FALSE) \/ NextCase(w, TRUE)
  <2>1. PlansInv' /\ PlanKeysKept
    BY <1>1, <1>5, FactsAre, PlansApplied
  <2> QED
    BY <1>5, <2>1, FactsAre, NextCaseTask DEF Goal
<1>6. \A r : verdict' = [verdict EXCEPT ![c] = r] => \A b \in Case : b # c => verdict'[b] = verdict[b]
  OBVIOUS
<1> QED
  BY <1>2, <1>3, <1>4, <1>5, <1>6 DEF Commit

LEMMA EvidenceTask ==
  ASSUME Facts, NEW c \in Case, NEW s \in Snapshot, ChangeEvidence(c, s) \/ PlaceEvidence(c, s) PROVE Goal
<1>1. CASE ChangeEvidence(c, s)
  BY <1>1, QuietTask DEF ChangeEvidence
<1>2. CASE PlaceEvidence(c, s)
  <2>1. PlansInv' /\ PlanKeysKept /\ UNCHANGED worker
    BY <1>2, RefreshTask DEF PlaceEvidence
  <2> QED
    BY <2>1, FactsAre, TaskStays DEF Goal
<1> QED
  BY <1>1, <1>2

LEMMA NextTask ==
  ASSUME Facts, DOMAIN verdict = Case, [Next]_vars PROVE Goal
<1>1. CASE UNCHANGED vars
  BY <1>1, QuietTask DEF vars
<1>2. ASSUME NEW w \in Worker, Step(w) \/ Error(w) \/ Crash(w) PROVE Goal
  BY <1>2, LoopTask, ReviewTask, ResumeTask, ReserveTask, AssessTask, PlanTask, CommitTask DEF Step
<1> QED
  BY <1>1, <1>2, ClockTask, EvidenceTask DEF Next

PlannedInv == DecidedInv /\ RowsInv /\ PlansInv /\ TaskInv

LEMMA PlannedStep == ASSUME PlannedInv, [Next]_vars PROVE PlannedInv'
<1>1. IInv /\ Frozen /\ DOMAIN verdict = Case /\ RowsInv /\ PlansInv /\ TaskInv
  BY DEF PlannedInv, DecidedInv
<1>2. IInv' /\ ClosedStep /\ DecidedStep /\ RowsInv' /\ RowsKept
  BY <1>1, NextStep, NextDecided, NextRows
<1>3. Facts
  BY <1>1, <1>2 DEF Facts, CaseFacts, IInv, DecidedStep
<1>4. PlansInv' /\ TaskInv'
  BY <1>1, <1>3, NextTask DEF Goal
<1>5. DecidedInv'
  <2>1. Frozen'
    BY <1>1, <1>2, FrozenStep DEF DecidedStep, IInv
  <2>2. DOMAIN verdict' = Case
    BY <1>1, <1>2 DEF DecidedStep, VerdictStep
  <2>3. DecidedOnCurrentEvidence'
    BY <1>2 DEF PlannedInv, DecidedInv, DecidedStep, VerdictStep, DecidedOnCurrentEvidence
  <2> QED
    BY <1>2, <2>1, <2>2, <2>3 DEF DecidedInv
<1> QED
  BY <1>2, <1>4, <1>5 DEF PlannedInv

LEMMA PlannedInductive == Spec => []PlannedInv
<1>1. Init => PlannedInv
  <2> SUFFICES ASSUME Init PROVE PlannedInv
    OBVIOUS
  <2>1. Frozen /\ DOMAIN verdict = Case /\ DecidedOnCurrentEvidence
    BY DEF Init, Frozen, DecidedOnCurrentEvidence, NoVerdict
  <2>2. RowsInv
    BY FS_EmptySet DEF Init, RowsInv, OneAttemptADay
  <2>3. PlansInv
    BY DEF Init, PlansInv
  <2>4. TaskInv
    BY DEF Init, TaskInv, TaskFine, Idle
  <2> QED
    BY <2>1, <2>2, <2>3, <2>4, InitIInv DEF PlannedInv, DecidedInv
<1> QED
  BY <1>1, PlannedStep, PTL DEF Spec

(* A worker that comes to plan or commit a case that is as it was has the  *)
(* assessment and the plan that back it, whichever workers planned,        *)
(* answered or expired reservations since it was told the position.        *)
THEOREM FreshStaysBacked == Spec => []FreshIsBacked
<1>1. ASSUME PlannedInv PROVE FreshIsBacked
  <2> SUFFICES ASSUME NEW w \in Worker, worker[w].pc \in {"plan", "commit"}, Fresh(w)
               PROVE  Earned(w) /\ \A p \in PlanOf(w) : p.status = "resolution_pending"
    BY DEF FreshIsBacked
  <2>1. Earned(w)
    BY <1>1, EarnedIsBacked DEF PlannedInv, TaskInv, TaskFine
  <2>2. ASSUME NEW p \in PlanOf(w) PROVE p.status = "resolution_pending"
    <3>1. p \in plans /\ p.case = worker[w].case /\ p.version = worker[w].version
      BY DEF PlanOf
    <3>2. PlanFine(p, kase[p.case]) /\ kase[p.case].version = p.version
      BY <1>1, <3>1 DEF PlannedInv, PlansInv, Fresh, Expected
    <3>3. p.version \in Nat
      BY <1>1, <3>1 DEF PlannedInv, DecidedInv, IInv, TablesOK, PlanRecord
    <3> QED
      BY <3>2, <3>3 DEF PlanFine
  <2> QED
    BY <2>1, <2>2
<1> QED
  BY <1>1, PlannedInductive, PTL

(* A resolved overdue case has one applied plan, the plan of the version   *)
(* that was decided, and prefers its position.                             *)
THEOREM OnePlanIsApplied == Spec => []OnePlanDecides
<1>1. ASSUME PlannedInv PROVE OnePlanDecides
  <2> SUFFICES ASSUME NEW c \in Case
               PROVE  /\ \A p, q \in plans : p.case = c /\ q.case = c /\ p.version = q.version => p = q
                      /\ kase[c].status = "resolved" /\ verdict[c].method # "deterministic" =>
                           \E p \in Applied(c) : /\ Applied(c) = {p}
                                                 /\ p.version + 1 = kase[c].version
                                                 /\ p.position = kase[c].preferred
    BY DEF OnePlanDecides
  <2>1. \A p, q \in plans : p.case = q.case /\ p.version = q.version => p = q
    BY <1>1 DEF PlannedInv, PlansInv
  <2>2. ASSUME kase[c].status = "resolved", verdict[c].method # "deterministic"
        PROVE  \E p \in Applied(c) : /\ Applied(c) = {p}
                                     /\ p.version + 1 = kase[c].version
                                     /\ p.position = kase[c].preferred
    <3>1. PICK p \in Applied(c) : TRUE
      BY <1>1, <2>2 DEF PlannedInv, PlansInv
    <3>2. \A q \in Applied(c) : /\ q \in plans /\ q.case = c /\ q.version \in Nat
                                /\ kase[c].version = q.version + 1 /\ kase[c].preferred = q.position
      BY <1>1 DEF PlannedInv, PlansInv, PlanFine, Applied, DecidedInv, IInv, TablesOK, PlanRecord
    <3>3. \A q \in Applied(c) : q.version = p.version
      BY <3>1, <3>2
    <3>4. Applied(c) = {p}
      BY <2>1, <3>1, <3>2, <3>3
    <3> QED
      BY <3>1, <3>2, <3>4
  <2> QED
    BY <2>1, <2>2
<1> QED
  BY <1>1, PlannedInductive, PTL

(* The last write wins only for a version on which the provider abstained, *)
(* or failed on as many days as the limit says.                            *)
THEOREM LastWriteEarned == Spec => []LastWriteIsEarned
<1>1. ASSUME PlannedInv PROVE LastWriteIsEarned
  <2> SUFFICES ASSUME NEW p \in plans, p.method = "last_write_wins"
               PROVE  \/ \E a \in Of(p.case, p.version, p.model) : a.status = "abstained" /\ a.date = p.date
                      \/ MaxFailedDays <= Cardinality({a \in Of(p.case, p.version, p.model) : a.status = "failed"})
    BY DEF LastWriteIsEarned
  <2>1. PICK a \in assessed : SameAttempt(a, p) /\ Backs(a, p, assessed)
    BY <1>1 DEF PlannedInv, PlansInv, Backed
  <2>2. {b \in Of(p.case, p.version, p.model) : b.status = "failed"} = FailuresIn(assessed, p)
    BY DEF Of, FailuresIn
  <2>3. CASE a.status = "abstained"
    BY <2>1, <2>3 DEF SameAttempt, Of
  <2>4. CASE Cardinality(FailuresIn(assessed, p)) >= MaxFailedDays
    <3>1. IsFiniteSet(FailuresIn(assessed, p))
      BY <1>1, FS_Subset DEF PlannedInv, RowsInv, FailuresIn
    <3>2. Cardinality(FailuresIn(assessed, p)) \in Nat
      BY <3>1, FS_CardinalityType
    <3> QED
      BY <2>2, <2>4, <3>2, SizeAssumption
  <2> QED
    BY <2>1, <2>3, <2>4 DEF Backs
<1> QED
  BY <1>1, PlannedInductive, PTL

-----------------------------------------------------------------------------
(* Attempts of reviews                                                     *)

Reviewing(w, c) == worker[w].pc = "review" /\ worker[w].case = c /\ kase[c].lease = w

(* A case has at most as many attempts as there were faults, or one more,  *)
(* and that one is under way: its worker holds the lease, for the run it   *)
(* works on.                                                               *)
AttemptsInv ==
  /\ \A w \in Worker, c \in Case : Reviewing(w, c) => kase[c].run = worker[w].day
  /\ \A c \in Case : kase[c].status \in Live /\ kase[c].attempts > faults =>
       /\ kase[c].attempts = faults + 1 /\ ~kase[c].lapsed
       /\ \E w \in Worker : Reviewing(w, c)

\* A step counts a fault at most.
LEMMA FaultStep ==
  ASSUME IInv, IInv', Fault \/ UNCHANGED faults
  PROVE  /\ faults \in Nat /\ faults' \in Nat /\ (faults' = faults \/ faults' = faults + 1)
         /\ \A c \in Case : kase[c].attempts \in Nat /\ kase'[c].attempts \in Nat
BY SizeAssumption DEF IInv, ClockOK, Fault, CasesOK, CaseRecord

\* Nobody starts or ends a review, and the claims stay.
LEMMA ClaimsStay ==
  ASSUME IInv, IInv', AttemptsInv, Fault \/ UNCHANGED faults, UNCHANGED kase,
         \A w \in Worker : worker'[w] = worker[w] \/ (worker[w].pc # "review" /\ worker'[w].pc # "review")
  PROVE  AttemptsInv'
<1>1. ASSUME NEW w \in Worker, NEW c \in Case PROVE Reviewing(w, c)' <=> Reviewing(w, c)
  BY DEF Reviewing
<1>2. \A w \in Worker, c \in Case : Reviewing(w, c) => worker'[w] = worker[w]
  BY DEF Reviewing
<1>3. \A w \in Worker, c \in Case : Reviewing(w, c)' => kase'[c].run = worker'[w].day
  BY <1>1, <1>2 DEF AttemptsInv
<1>4. ASSUME NEW c \in Case, kase'[c].status \in Live, kase'[c].attempts > faults'
      PROVE  kase'[c].attempts = faults' + 1 /\ ~kase'[c].lapsed /\ \E w \in Worker : Reviewing(w, c)'
  <2>1. kase[c].attempts > faults
    BY <1>4, FaultStep
  <2>2. kase[c].attempts = faults + 1 /\ ~kase[c].lapsed /\ \E w \in Worker : Reviewing(w, c)
    BY <1>4, <2>1 DEF AttemptsInv
  <2> QED
    BY <1>1, <1>4, <2>2, FaultStep
<1> QED
  BY <1>3, <1>4 DEF AttemptsInv

\* A fault covers the review that it ends.
LEMMA AttemptsFail ==
  ASSUME IInv, IInv', AttemptsInv, Fault,
         \A c \in Case : /\ kase'[c].status = kase[c].status /\ kase'[c].attempts = kase[c].attempts
                         /\ kase'[c].lease = kase[c].lease /\ kase'[c].run = kase[c].run,
         \A w \in Worker : worker'[w] = worker[w] \/ worker'[w].pc # "review"
  PROVE  AttemptsInv'
<1>1. \A w \in Worker, c \in Case : Reviewing(w, c)' => Reviewing(w, c) /\ worker'[w] = worker[w]
  BY DEF Reviewing
<1>2. \A w \in Worker, c \in Case : Reviewing(w, c)' => kase'[c].run = worker'[w].day
  BY <1>1 DEF AttemptsInv
<1>3. ASSUME NEW c \in Case, kase'[c].status \in Live, kase'[c].attempts > faults'
      PROVE  FALSE
  <2>1. faults' = faults + 1 /\ faults \in Nat /\ kase[c].attempts \in Nat
    BY FaultStep DEF Fault
  <2>2. kase[c].attempts > faults /\ kase[c].attempts # faults + 1
    BY <1>3, <2>1
  <2> QED
    BY <1>3, <2>2 DEF AttemptsInv
<1> QED
  BY <1>2, <1>3 DEF AttemptsInv

\* A case is given up: its attempts are taken back, or it is closed.
LEMMA AttemptsReset ==
  ASSUME IInv, IInv', AttemptsInv, Fault \/ UNCHANGED faults, NEW c \in Case, NEW r,
         kase' = [kase EXCEPT ![c] = r], r.lease = NoWorker, r.attempts = 0 \/ r.status \notin Live,
         \A w \in Worker : \/ worker'[w] = worker[w]
                           \/ (worker[w].pc = "review" => worker[w].case = c) /\ worker'[w].pc # "review"
  PROVE  AttemptsInv'
<1>1. kase'[c] = r /\ \A b \in Case : b # c => kase'[b] = kase[b]
  BY DEF IInv, CasesOK
<1>2. \A w \in Worker : ~Reviewing(w, c)'
  BY <1>1, NoneAssumption DEF Reviewing
<1>3. \A w \in Worker, b \in Case : b # c => (Reviewing(w, b)' <=> Reviewing(w, b))
  BY <1>1 DEF Reviewing
<1>4. \A w \in Worker, b \in Case : Reviewing(w, b) /\ b # c => worker'[w] = worker[w]
  BY DEF Reviewing
<1>5. \A w \in Worker, b \in Case : Reviewing(w, b)' => kase'[b].run = worker'[w].day
  BY <1>1, <1>2, <1>3, <1>4 DEF AttemptsInv
<1>6. ASSUME NEW b \in Case, kase'[b].status \in Live, kase'[b].attempts > faults'
      PROVE  kase'[b].attempts = faults' + 1 /\ ~kase'[b].lapsed /\ \E w \in Worker : Reviewing(w, b)'
  <2>1. b # c
    BY <1>1, <1>6, FaultStep
  <2>2. kase[b].attempts > faults /\ kase'[b] = kase[b]
    BY <1>1, <1>6, <2>1, FaultStep
  <2>3. kase[b].attempts = faults + 1 /\ ~kase[b].lapsed /\ \E w \in Worker : Reviewing(w, b)
    BY <1>6, <2>2 DEF AttemptsInv
  <2> QED
    BY <1>3, <1>6, <2>1, <2>2, <2>3, FaultStep
<1> QED
  BY <1>5, <1>6 DEF AttemptsInv

\* The records that the transactions leave.
LEMMA GivenUp ==
  ASSUME NEW k \in CaseRecord, NEW s \in Snapshot, NEW p \in Position \cup {NoPosition}, NEW at \in Nat
  PROVE  /\ Bumped(k, s).lease = NoWorker /\ Bumped(k, s).attempts = 0
         /\ Dismissed(k, s, at).lease = NoWorker /\ Dismissed(k, s, at).status \notin Live
         /\ Resolved(k, p, at).lease = NoWorker /\ Resolved(k, p, at).status \notin Live
         /\ Overdue(k, at).lease = NoWorker /\ Overdue(k, at).attempts = 0
         /\ Released(k, at).lease = NoWorker /\ Released(k, at).attempts = 0
<1> DEFINE u == Unleased(k)
<1>1. u \in CaseRecord /\ u.lease = NoWorker
  BY UnleasedType
<1>2. /\ Bumped(k, s) = [u EXCEPT !.snap = s, !.version = @ + 1, !.attempts = 0]
      /\ Dismissed(k, s, at) = [u EXCEPT !.snap = s, !.version = @ + 1, !.status = "dismissed", !.next = at]
      /\ Resolved(k, p, at) = [u EXCEPT !.status = "resolved", !.preferred = p, !.version = @ + 1, !.next = at]
      /\ Overdue(k, at) = [u EXCEPT !.status = "overdue", !.next = at + TicksPerDay, !.attempts = 0]
  BY DEF Bumped, Dismissed, Resolved, Overdue
<1>3. \E n : Released(k, at) = [u EXCEPT !.next = n, !.attempts = 0]
  BY DEF Released
<1> HIDE DEF u
<1> QED
  BY <1>1, <1>2, <1>3 DEF CaseRecord, Live

(* What an action gives to the argument: the steps it takes are of one     *)
(* worker.                                                                 *)
OnlyOf(w) == \A v \in Worker : v # w => worker'[v] = worker[v]

LEMMA PutOnly == ASSUME IInv, NEW w \in Worker, NEW r, Put(w, r) PROVE OnlyOf(w) /\ worker'[w] = r
BY DEF Put, OnlyOf, IInv, WorkersOK

LEMMA NextCaseOnly ==
  ASSUME IInv, NEW w \in Worker, NEW f, NextCase(w, f) PROVE OnlyOf(w) /\ worker'[w].pc = "renew"
BY PutOnly DEF NextCase

LEMMA ClaimAttempts ==
  ASSUME IInv, IInv', AttemptsInv, NEW w \in Worker, Claim(w) PROVE AttemptsInv'
<1>1. worker[w].pc = "claim" /\ UNCHANGED faults /\ worker[w] \in LoopState
  BY Phases DEF Claim, IInv
<1>2. CASE Put(w, [worker[w] EXCEPT !.pc = "finish"]) /\ UNCHANGED kase
  <2>1. [worker[w] EXCEPT !.pc = "finish"].pc = "finish"
    BY <1>1 DEF LoopState
  <2>2. OnlyOf(w) /\ worker'[w].pc = "finish"
    BY <1>2, <2>1, PutOnly
  <2> QED
    BY <1>1, <1>2, <2>2, ClaimsStay DEF OnlyOf
<1>3. ASSUME NEW c \in Case, Claimable(c, w), kase' = [kase EXCEPT ![c] = ClaimedCase(c, w)],
             Put(w, [pc |-> "review", day |-> worker[w].day, case |-> c, at |-> now,
                     tried |-> worker[w].tried \cup {c}, failed |-> worker[w].failed])
      PROVE  AttemptsInv'
  <2> DEFINE r == [pc |-> "review", day |-> worker[w].day, case |-> c, at |-> now,
                   tried |-> worker[w].tried \cup {c}, failed |-> worker[w].failed]
             k == ClaimedCase(c, w)
  <2>1. OnlyOf(w) /\ worker'[w] = r
    BY <1>3, PutOnly
  <2>2. /\ worker'[w].pc = "review" /\ worker'[w].case = c /\ worker'[w].day = worker[w].day
        /\ \A v \in Worker : v # w => worker'[v] = worker[v]
    BY <2>1 DEF OnlyOf
  <2>3. /\ k.lease = w /\ k.run = worker[w].day /\ k.attempts = kase[c].attempts + 1 /\ k.lapsed = FALSE
        /\ k.status = kase[c].status
    BY DEF ClaimedCase, IInv, CasesOK, CaseRecord
  <2>4. kase'[c] = k /\ \A b \in Case : b # c => kase'[b] = kase[b]
    BY <1>3 DEF IInv, CasesOK
  <2> HIDE DEF r, k
  <2>5. ASSUME NEW v \in Worker, NEW b \in Case, b # c PROVE Reviewing(v, b)' <=> Reviewing(v, b)
    BY <1>1, <2>2, <2>4, <2>5 DEF Reviewing
  <2>6. ASSUME NEW v \in Worker, NEW b \in Case, Reviewing(v, b)' PROVE kase'[b].run = worker'[v].day
    <3>1. CASE b = c
      <4>1. v = w
        BY <2>3, <2>4, <2>6, <3>1 DEF Reviewing
      <4> QED
        BY <2>2, <2>3, <2>4, <3>1, <4>1
    <3>2. CASE b # c
      <4>1. Reviewing(v, b) /\ v # w
        BY <1>1, <2>5, <2>6, <3>2 DEF Reviewing
      <4> QED
        BY <2>2, <2>4, <3>2, <4>1 DEF AttemptsInv
    <3> QED
      BY <3>1, <3>2
  <2>7. kase[c].status \in Live /\ kase[c].attempts <= faults
    <3>1. \A v \in Worker : Reviewing(v, c) => kase[c].lapsed
      BY <1>1, <1>3, NoneAssumption DEF Claimable, Reviewing
    <3>2. kase[c].status \in Live
      BY <1>3 DEF Claimable
    <3>3. ~(kase[c].attempts > faults)
      BY <3>1, <3>2 DEF AttemptsInv
    <3> QED
      BY <1>1, <3>2, <3>3, FaultStep
  <2>8. ASSUME NEW b \in Case, kase'[b].status \in Live, kase'[b].attempts > faults'
        PROVE  kase'[b].attempts = faults' + 1 /\ ~kase'[b].lapsed /\ \E v \in Worker : Reviewing(v, b)'
    <3>1. CASE b = c
      <4>1. kase'[b].attempts = faults' + 1
        BY <1>1, <2>3, <2>4, <2>7, <2>8, <3>1, FaultStep
      <4>2. Reviewing(w, b)' /\ ~kase'[b].lapsed
        BY <2>2, <2>3, <2>4, <3>1 DEF Reviewing
      <4> QED
        BY <4>1, <4>2
    <3>2. CASE b # c
      <4>1. kase[b].attempts = faults + 1 /\ ~kase[b].lapsed /\ \E v \in Worker : Reviewing(v, b)
        BY <1>1, <2>4, <2>8, <3>2 DEF AttemptsInv
      <4> QED
        BY <1>1, <2>4, <2>5, <3>2, <4>1
    <3> QED
      BY <3>1, <3>2
  <2> QED
    BY <2>6, <2>8 DEF AttemptsInv
<1> QED
  BY <1>2, <1>3 DEF Claim

\* The review of a claim that was lost changes nothing: another worker's
\* claim, or a fault, stands for the attempt.
LEMMA LostAttempts ==
  ASSUME IInv, IInv', AttemptsInv, NEW w \in Worker, worker[w].pc = "review", ~Holds(w, worker[w].case),
         OnlyOf(w), worker'[w].pc = "renew", UNCHANGED kase, UNCHANGED faults
  PROVE  AttemptsInv'
<1>1. \A v \in Worker, c \in Case : Reviewing(v, c)' => Reviewing(v, c) /\ worker'[v] = worker[v]
  BY DEF Reviewing, OnlyOf
<1>2. \A v \in Worker, c \in Case : Reviewing(v, c) /\ v # w => Reviewing(v, c)'
  BY DEF Reviewing, OnlyOf
<1>3. \A c \in Case : Reviewing(w, c) => kase[c].lapsed
  BY DEF Reviewing, Holds, AttemptsInv, IInv, CasesOK, CaseRecord
<1>4. \A v \in Worker, c \in Case : Reviewing(v, c)' => kase'[c].run = worker'[v].day
  BY <1>1 DEF AttemptsInv
<1>5. ASSUME NEW c \in Case, kase'[c].status \in Live, kase'[c].attempts > faults'
      PROVE  kase'[c].attempts = faults' + 1 /\ ~kase'[c].lapsed /\ \E v \in Worker : Reviewing(v, c)'
  <2>1. kase[c].attempts = faults + 1 /\ ~kase[c].lapsed /\ \E v \in Worker : Reviewing(v, c)
    BY <1>5 DEF AttemptsInv
  <2>2. PICK v \in Worker : Reviewing(v, c)
    BY <2>1
  <2>3. v # w
    BY <1>3, <2>1, <2>2
  <2> QED
    BY <1>2, <2>1, <2>2, <2>3
<1> QED
  BY <1>4, <1>5 DEF AttemptsInv

\* A transaction of a worker writes the case that it works on.
LEMMA WritesOwn ==
  ASSUME IInv, IInv', AttemptsInv, Fault \/ UNCHANGED faults, NEW w \in Worker, worker[w].pc \in InCase,
         OnlyOf(w), worker'[w].pc # "review", NEW r, kase' = [kase EXCEPT ![worker[w].case] = r],
         r.lease = NoWorker, r.attempts = 0 \/ r.status \notin Live
  PROVE  AttemptsInv'
<1>1. worker[w].case \in Case
  BY Phases DEF IInv
<1>2. \A v \in Worker : \/ worker'[v] = worker[v]
                        \/ (worker[v].pc = "review" => worker[v].case = worker[w].case) /\ worker'[v].pc # "review"
  BY DEF OnlyOf
<1> QED
  BY <1>1, <1>2, AttemptsReset

LEMMA DismissAttempts ==
  ASSUME IInv, IInv', AttemptsInv, Fault \/ UNCHANGED faults, NEW w \in Worker, worker[w].pc \in InCase,
         OnlyOf(w), worker'[w].pc # "review", Dismiss(w, worker[w].case)
  PROVE  AttemptsInv'
<1> DEFINE c == worker[w].case
           r == Dismissed(kase[c], evidence[c], worker[w].at)
<1>1. c \in Case /\ worker[w].at \in Nat
  BY Phases, SizeAssumption DEF IInv
<1>2. kase[c] \in CaseRecord /\ evidence[c] \in Snapshot /\ NoPosition \in Position \cup {NoPosition}
  BY <1>1, EvidenceType DEF IInv, CasesOK
<1>3. r.lease = NoWorker /\ r.status \notin Live
  <2> HIDE DEF c
  <2> QED
    BY <1>1, <1>2, GivenUp
<1>4. kase' = [kase EXCEPT ![c] = r]
  BY DEF Dismiss
<1> HIDE DEF r
<1> QED
  BY <1>3, <1>4, WritesOwn

LEMMA ReviewAttempts ==
  ASSUME IInv, IInv', AttemptsInv, NEW w \in Worker, Review(w) PROVE AttemptsInv'
<1> DEFINE c == worker[w].case
           at == worker[w].at
           k == Refreshed(c)
           p == Majority[evidence[c]]
<1>1. worker[w].pc = "review" /\ worker[w].pc \in InCase /\ UNCHANGED faults /\ c \in Case /\ at \in Nat /\ worker[w] \in CaseState
  BY Phases, SizeAssumption DEF Review, InCase, IInv
<1>2. CASE ~Holds(w, c) /\ NextCase(w, TRUE) /\ UNCHANGED <<kase, assessed, plans, verdict>>
  BY <1>1, <1>2, NextCaseOnly, LostAttempts
<1>3. CASE Dismiss(w, c) /\ NextCase(w, FALSE)
  <2>1. OnlyOf(w) /\ worker'[w].pc = "renew"
    BY <1>3, NextCaseOnly
  <2> QED
    BY <1>1, <1>3, <2>1, DismissAttempts
<1>4. CASE Conflicted(c) /\ Evaluate(w, c)
  <2>1. k \in CaseRecord /\ p \in Position \cup {NoPosition} /\ evidence[c] \in Snapshot
    BY <1>1, <1>4, RefreshedType, EvidenceType DEF IInv
  <2>2. /\ Released(k, at).lease = NoWorker /\ Released(k, at).attempts = 0
        /\ Overdue(k, at).lease = NoWorker /\ Overdue(k, at).attempts = 0
        /\ Resolved(k, p, at).lease = NoWorker /\ Resolved(k, p, at).status \notin Live
    <3> HIDE DEF c, k, p, at
    <3> QED
      BY <1>1, <2>1, GivenUp
  <2>3. OnlyOf(w) /\ worker'[w].pc # "review"
    <3>1. CASE NextCase(w, FALSE)
      BY <3>1, NextCaseOnly
    <3>2. CASE Put(w, [worker[w] EXCEPT !.pc = "resume"])
      <4>1. [worker[w] EXCEPT !.pc = "resume"].pc = "resume"
        BY <1>1 DEF CaseState
      <4> QED
        BY <3>2, <4>1, PutOnly
    <3> QED
      BY <1>4, <3>1, <3>2 DEF Evaluate
  <2>4. \E r : /\ kase' = [kase EXCEPT ![c] = r] /\ r.lease = NoWorker
               /\ r.attempts = 0 \/ r.status \notin Live
    <3> HIDE DEF k
    <3>1. kase' = [kase EXCEPT ![c] = Released(k, at)] \/ kase' = [kase EXCEPT ![c] = Overdue(k, at)]
          \/ kase' = [kase EXCEPT ![c] = Resolved(k, p, at)]
      BY <1>4 DEF Evaluate, k
    <3> QED
      BY <2>2, <3>1
  <2> QED
    BY <1>1, <2>3, <2>4, WritesOwn
<1> QED
  BY <1>2, <1>3, <1>4 DEF Review

LEMMA StaleAttempts ==
  ASSUME IInv, IInv', AttemptsInv, UNCHANGED faults, NEW w \in Worker, worker[w].pc \in {"plan", "commit"},
         OnlyOf(w), worker'[w].pc = "renew", Stale(w)
  PROVE  AttemptsInv'
<1> DEFINE c == worker[w].case
<1>1. c \in Case /\ worker[w].pc \in InCase
  BY Phases DEF InCase, IInv
<1>2. CASE UNCHANGED <<kase, assessed, plans>>
  BY <1>2, ClaimsStay DEF OnlyOf
<1>3. CASE Dismiss(w, c)
  BY <1>1, <1>3, DismissAttempts
<1>4. CASE kase' = [kase EXCEPT ![c] = Bumped(@, evidence[c])]
  <2> DEFINE r == Bumped(kase[c], evidence[c])
  <2>1. kase[c] \in CaseRecord /\ evidence[c] \in Snapshot /\ NoPosition \in Position \cup {NoPosition} /\ 0 \in Nat
    BY <1>1, EvidenceType DEF IInv, CasesOK
  <2>2. r.lease = NoWorker /\ r.attempts = 0
    <3> HIDE DEF c
    <3> QED
      BY <2>1, GivenUp
  <2>3. kase' = [kase EXCEPT ![c] = r]
    BY <1>4
  <2> HIDE DEF r
  <2> QED
    BY <1>1, <2>2, <2>3, WritesOwn
<1> QED
  BY <1>2, <1>3, <1>4 DEF Stale

LEMMA DeferAttempts ==
  ASSUME IInv, IInv', AttemptsInv, NEW w \in Worker, worker[w].pc \in {"plan", "commit"}, Defer(w)
  PROVE  AttemptsInv'
<1> DEFINE c == worker[w].case
           at == worker[w].at
           r == Released(kase[c], at)
<1>1. c \in Case /\ at \in Nat /\ worker[w].pc \in InCase
  BY Phases, SizeAssumption DEF IInv, InCase
<1>2. kase[c] \in CaseRecord /\ evidence[c] \in Snapshot /\ NoPosition \in Position \cup {NoPosition}
  BY <1>1, EvidenceType DEF IInv, CasesOK
<1>3. r.lease = NoWorker /\ r.attempts = 0
  <2> HIDE DEF c, at
  <2> QED
    BY <1>1, <1>2, GivenUp
<1>4. kase' = [kase EXCEPT ![c] = r] /\ UNCHANGED faults /\ NextCase(w, FALSE)
  BY DEF Defer
<1> HIDE DEF r
<1>5. OnlyOf(w) /\ worker'[w].pc # "review"
  BY <1>4, NextCaseOnly
<1> QED
  BY <1>1, <1>3, <1>4, <1>5, WritesOwn

LEMMA PlanAttempts ==
  ASSUME IInv, IInv', AttemptsInv, NEW w \in Worker, Plan(w) PROVE AttemptsInv'
<1>1. worker[w].pc = "plan" /\ worker[w] \in ResolveState
  BY Phases DEF Plan, IInv
<1>2. CASE Stale(w) /\ NextCase(w, FALSE) /\ UNCHANGED faults
  BY <1>1, <1>2, NextCaseOnly, StaleAttempts
<1>3. CASE NextCase(w, TRUE) /\ UNCHANGED <<kase, assessed, plans, faults>>
  <2>1. OnlyOf(w) /\ worker'[w].pc = "renew"
    BY <1>3, NextCaseOnly
  <2> QED
    BY <1>1, <1>3, <2>1, ClaimsStay DEF OnlyOf
<1>4. CASE Put(w, [worker[w] EXCEPT !.pc = "commit"]) /\ UNCHANGED <<kase, assessed, faults>>
  <2>1. [worker[w] EXCEPT !.pc = "commit"].pc = "commit"
    BY <1>1 DEF ResolveState
  <2>2. OnlyOf(w) /\ worker'[w].pc = "commit"
    BY <1>4, <2>1, PutOnly
  <2> QED
    BY <1>1, <1>4, <2>2, ClaimsStay DEF OnlyOf
<1>5. CASE Defer(w)
  BY <1>1, <1>5, DeferAttempts
<1> QED
  BY <1>2, <1>3, <1>4, <1>5 DEF Plan

LEMMA CommitAttempts ==
  ASSUME IInv, IInv', AttemptsInv, NEW w \in Worker, Commit(w) PROVE AttemptsInv'
<1> DEFINE c == worker[w].case
           at == worker[w].at
           p == worker[w].position
           r == Resolved(kase[c], p, at)
<1>1. worker[w].pc = "commit" /\ worker[w].pc \in InCase /\ c \in Case /\ at \in Nat /\ p \in Position \cup {NoPosition}
  BY Phases, SizeAssumption DEF Commit, InCase, IInv, ResolveState
<1>2. CASE Stale(w) /\ NextCase(w, FALSE) /\ UNCHANGED faults
  BY <1>1, <1>2, NextCaseOnly, StaleAttempts
<1>3. CASE Defer(w)
  BY <1>1, <1>3, DeferAttempts
<1>4. CASE Fault /\ NextCase(w, FALSE) /\ UNCHANGED kase
  <2>1. OnlyOf(w) /\ worker'[w].pc = "renew"
    BY <1>4, NextCaseOnly
  <2> QED
    BY <1>1, <1>4, <2>1, ClaimsStay DEF OnlyOf
<1>5. CASE /\ kase' = [kase EXCEPT ![c] = r]
           /\ \/ NextCase(w, FALSE) /\ UNCHANGED faults
              \/ NextCase(w, TRUE) /\ Fault
  <2>1. kase[c] \in CaseRecord /\ evidence[c] \in Snapshot
    BY <1>1, EvidenceType DEF IInv, CasesOK
  <2>2. r.lease = NoWorker /\ r.status \notin Live
    <3> HIDE DEF c, at, p
    <3> QED
      BY <1>1, <2>1, GivenUp
  <2>3. OnlyOf(w) /\ worker'[w].pc = "renew" /\ (Fault \/ UNCHANGED faults)
    BY <1>5, NextCaseOnly
  <2> HIDE DEF r
  <2> QED
    BY <1>1, <1>5, <2>2, <2>3, WritesOwn
<1> QED
  BY <1>2, <1>3, <1>4, <1>5 DEF Commit

\* A worker that is neither claiming nor reviewing.
LEMMA OtherAttempts ==
  ASSUME IInv, IInv', AttemptsInv, NEW w \in Worker,
         Start(w) \/ Renew(w) \/ Finish(w) \/ Resume(w) \/ ReserveAssessment(w) \/ Assess(w)
  PROVE  AttemptsInv'
<1>1. worker[w].pc # "review" /\ UNCHANGED kase /\ (Fault \/ UNCHANGED faults)
  BY DEF Start, Renew, Finish, Resume, ReserveAssessment, Assess
<1>2. \E r : Put(w, r)
  BY DEF Start, Renew, Finish, Resume, ReserveAssessment, Assess, NextCase, ResolveAs
<1>3. OnlyOf(w)
  BY <1>2, PutOnly
<1>4. worker'[w].pc # "review"
  <2>1. Idle.pc = "idle" /\ [Idle EXCEPT !.pc = "renew", !.day = Day(now)].pc = "renew"
        /\ [Idle EXCEPT !.pc = "renew", !.day = Day(now), !.failed = TRUE].pc = "renew"
    BY DEF Idle
  <2>2. CASE Start(w) \/ Finish(w)
    BY <2>1, <2>2, PutOnly DEF Start, Finish
  <2>3. CASE Renew(w)
    <3>1. worker[w] \in LoopState
      BY <2>3, Phases DEF Renew, IInv
    <3>2. /\ [worker[w] EXCEPT !.pc = "claim"].pc = "claim"
          /\ [worker[w] EXCEPT !.pc = "finish", !.failed = TRUE].pc = "finish"
      BY <3>1 DEF LoopState
    <3> QED
      BY <2>3, <3>2, PutOnly DEF Renew
  <2>4. ASSUME NEW v, NEW d, NEW m, NEW p, NEW h, Put(w, Resolving(w, v, d, m, p, h)) PROVE worker'[w].pc # "review"
    <3>1. Resolving(w, v, d, m, p, h).pc = "plan"
      BY DEF Resolving
    <3> QED
      BY <2>4, <3>1, PutOnly
  <2>5. CASE Resume(w)
    <3>1. CASE \E p \in PendingPlans(worker[w].case) : Put(w, Resolving(w, p.version, p.date, p.model, p.position, p.method))
      BY <2>4, <3>1
    <3>2. ASSUME NEW m, Put(w, [pc |-> "reserve", day |-> worker[w].day, tried |-> worker[w].tried,
                       failed |-> worker[w].failed, case |-> worker[w].case, at |-> worker[w].at,
                       date |-> Day(worker[w].at), model |-> m])
          PROVE  worker'[w].pc # "review"
      <4> DEFINE r == [pc |-> "reserve", day |-> worker[w].day, tried |-> worker[w].tried,
                       failed |-> worker[w].failed, case |-> worker[w].case, at |-> worker[w].at,
                       date |-> Day(worker[w].at), model |-> m]
      <4>1. r.pc = "reserve" /\ Put(w, r)
        BY <3>2
      <4> HIDE DEF r
      <4> QED
        BY <4>1, PutOnly
    <3> QED
      BY <2>5, <3>1, <3>2 DEF Resume
  <2>6. CASE ReserveAssessment(w)
    <3>1. ASSUME NEW m, NEW v, NEW d, NEW e,
                 Put(w, [pc |-> "assess", day |-> worker[w].day, tried |-> worker[w].tried,
                         failed |-> worker[w].failed, case |-> worker[w].case, at |-> worker[w].at, date |-> d,
                         model |-> m, version |-> v, dossier |-> e])
          PROVE  worker'[w].pc # "review"
      <4> DEFINE r == [pc |-> "assess", day |-> worker[w].day, tried |-> worker[w].tried,
                       failed |-> worker[w].failed, case |-> worker[w].case, at |-> worker[w].at, date |-> d,
                       model |-> m, version |-> v, dossier |-> e]
      <4>1. r.pc = "assess" /\ Put(w, r)
        BY <3>1
      <4> HIDE DEF r
      <4> QED
        BY <4>1, PutOnly
    <3>2. CASE NextCase(w, FALSE)
      BY <3>2, NextCaseOnly
    <3>3. \/ NextCase(w, FALSE)
          \/ \E a, v, m, p : Put(w, Resolving(w, v, a, m, p, "last_write_wins"))
          \/ Put(w, [pc |-> "assess", day |-> worker[w].day, tried |-> worker[w].tried,
                      failed |-> worker[w].failed, case |-> worker[w].case, at |-> worker[w].at,
                      date |-> worker[w].date, model |-> worker[w].model,
                      version |-> kase[worker[w].case].version, dossier |-> evidence[worker[w].case]])
      BY <2>6, Zenon DEF ReserveAssessment
    <3> QED
      BY <2>4, <3>1, <3>2, <3>3
  <2>7. CASE Assess(w)
    <3>1. ASSUME NEW p, NEW h, ResolveAs(w, p, h) PROVE worker'[w].pc # "review"
      BY <2>4, <3>1 DEF ResolveAs
    <3>2. ASSUME NEW l, NextCase(w, l) PROVE worker'[w].pc # "review"
      BY <3>2, NextCaseOnly
    <3>3. (\E p, h : ResolveAs(w, p, h)) \/ (\E l : NextCase(w, l))
      BY <2>7, Zenon DEF Assess
    <3> QED
      BY <3>1, <3>2, <3>3
  <2> QED
    BY <2>2, <2>3, <2>5, <2>6, <2>7
<1> QED
  BY <1>1, <1>3, <1>4, ClaimsStay DEF OnlyOf

LEMMA FailAttempts ==
  ASSUME IInv, IInv', AttemptsInv, NEW w \in Worker, Error(w) \/ Crash(w) PROVE AttemptsInv'
<1>1. Fault /\ UNCHANGED kase
  BY DEF Error, Crash
<1>2. OnlyOf(w) /\ worker'[w].pc # "review"
  <2>1. Idle.pc = "idle"
    BY DEF Idle
  <2>2. CASE NextCase(w, TRUE)
    BY <2>2, NextCaseOnly
  <2>3. CASE Put(w, Idle)
    BY <2>1, <2>3, PutOnly
  <2>4. CASE worker[w].pc \in {"renew", "claim"} /\ Put(w, [worker[w] EXCEPT !.pc = "finish", !.failed = TRUE])
    <3>1. worker[w] \in LoopState
      BY <2>4, Phases DEF IInv
    <3>2. [worker[w] EXCEPT !.pc = "finish", !.failed = TRUE].pc = "finish"
      BY <3>1 DEF LoopState
    <3> QED
      BY <2>4, <3>2, PutOnly
  <2> QED
    BY <2>2, <2>3, <2>4 DEF Error, Crash
<1> QED
  BY <1>1, <1>2, AttemptsFail DEF OnlyOf

LEMMA ClockAttempts ==
  ASSUME IInv, IInv', AttemptsInv, (\E d \in Days : RunLapses(d)) \/ (\E c \in Case : CaseLapses(c)) \/ Tick \/ LateTick
  PROVE  AttemptsInv'
<1>1. UNCHANGED worker
  BY DEF RunLapses, CaseLapses, Tick, LateTick
<1>2. \A k \in CaseRecord : \A l : /\ [k EXCEPT !.lapsed = l].status = k.status /\ [k EXCEPT !.lapsed = l].attempts = k.attempts
                                   /\ [k EXCEPT !.lapsed = l].lease = k.lease /\ [k EXCEPT !.lapsed = l].run = k.run
  BY DEF CaseRecord
<1> DEFINE Same == \A c \in Case : /\ kase'[c].status = kase[c].status /\ kase'[c].attempts = kase[c].attempts
                                   /\ kase'[c].lease = kase[c].lease /\ kase'[c].run = kase[c].run
<1>3. ASSUME LeasesLapse PROVE Same
  BY <1>2, <1>3 DEF LeasesLapse, IInv, CasesOK
<1>4. ASSUME NEW c \in Case, CaseLapses(c) PROVE Same
  BY <1>2, <1>4 DEF CaseLapses, IInv, CasesOK
<1>5. CASE \E d \in Days : RunLapses(d)
  BY <1>1, <1>5, ClaimsStay DEF RunLapses
<1>6. CASE LateTick
  <2>1. Same /\ Fault
    BY <1>3, <1>6 DEF LateTick
  <2> QED
    BY <1>1, <2>1, AttemptsFail
<1>7. ASSUME Same, UNCHANGED faults, NEW D, D \subseteq Case,
             \A c \in Case : c \notin D => kase'[c] = kase[c], \A c \in D, w \in Worker : ~Reviewing(w, c)
      PROVE  AttemptsInv'
  <2>1. ASSUME NEW w \in Worker, NEW c \in Case PROVE Reviewing(w, c)' <=> Reviewing(w, c)
    BY <1>1, <1>7 DEF Reviewing
  <2>2. \A w \in Worker, c \in Case : Reviewing(w, c)' => kase'[c].run = worker'[w].day
    BY <1>1, <1>7, <2>1 DEF AttemptsInv
  <2>3. ASSUME NEW c \in Case, kase'[c].status \in Live, kase'[c].attempts > faults'
        PROVE  kase'[c].attempts = faults' + 1 /\ ~kase'[c].lapsed /\ \E w \in Worker : Reviewing(w, c)'
    <3>1. kase[c].attempts = faults + 1 /\ ~kase[c].lapsed /\ \E w \in Worker : Reviewing(w, c)
      BY <1>7, <2>3 DEF AttemptsInv
    <3>2. c \notin D
      BY <1>7, <3>1
    <3> QED
      BY <1>7, <2>1, <3>1, <3>2
  <2> QED
    BY <2>2, <2>3 DEF AttemptsInv
<1>8. CASE Tick
  <2>1. Same /\ UNCHANGED faults /\ \A w \in Worker : worker[w].pc = "idle"
    BY <1>3, <1>8 DEF Tick, Settled
  <2>2. \A c \in Case, w \in Worker : ~Reviewing(w, c)
    BY <2>1 DEF Reviewing
  <2> QED
    BY <1>7, <2>1, <2>2
<1>9. ASSUME NEW c \in Case, CaseLapses(c) PROVE AttemptsInv'
  <2>1. CASE Fault
    BY <1>1, <1>4, <1>9, <2>1, AttemptsFail
  <2>2. CASE ~CaseInUse(c) /\ UNCHANGED faults
    <3>1. \A w \in Worker : ~Reviewing(w, c)
      BY <2>2 DEF CaseInUse, Reviewing
    <3>2. \A b \in Case : b \notin {c} => kase'[b] = kase[b]
      BY <1>9 DEF CaseLapses, IInv, CasesOK
    <3> DEFINE D == {c}
    <3>3. /\ D \subseteq Case /\ \A b \in Case : b \notin D => kase'[b] = kase[b]
          /\ \A b \in D, w \in Worker : ~Reviewing(w, b)
      BY <3>1, <3>2
    <3>4. Same
      BY <1>4, <1>9
    <3> HIDE DEF D, Same
    <3> QED
      BY <1>7, <2>2, <3>3, <3>4
  <2> QED
    BY <1>9, <2>1, <2>2 DEF CaseLapses
<1> QED
  BY <1>5, <1>6, <1>8, <1>9

LEMMA EvidenceAttempts ==
  ASSUME IInv, IInv', AttemptsInv, NEW c \in Case, NEW s \in Snapshot, ChangeEvidence(c, s) \/ PlaceEvidence(c, s)
  PROVE  AttemptsInv'
<1>1. UNCHANGED worker /\ UNCHANGED faults
  BY DEF ChangeEvidence, PlaceEvidence
<1>2. CASE UNCHANGED kase
  BY <1>1, <1>2, ClaimsStay
<1>3. CASE kase' = [kase EXCEPT ![c] = Bumped(@, s)]
  <2> DEFINE r == Bumped(kase[c], s)
  <2>1. kase[c] \in CaseRecord /\ NoPosition \in Position \cup {NoPosition} /\ 0 \in Nat
    BY DEF IInv, CasesOK
  <2>2. r.lease = NoWorker /\ r.attempts = 0
    BY <2>1, GivenUp
  <2>3. kase' = [kase EXCEPT ![c] = r]
    BY <1>3
  <2> HIDE DEF r
  <2> QED
    BY <1>1, <2>2, <2>3, AttemptsReset
<1> QED
  BY <1>2, <1>3 DEF ChangeEvidence, PlaceEvidence

LEMMA NextAttempts == ASSUME IInv, IInv', AttemptsInv, [Next]_vars PROVE AttemptsInv'
<1>1. CASE UNCHANGED vars
  BY <1>1, ClaimsStay DEF vars
<1>2. ASSUME NEW w \in Worker, Step(w) \/ Error(w) \/ Crash(w) PROVE AttemptsInv'
  BY <1>2, ClaimAttempts, ReviewAttempts, PlanAttempts, CommitAttempts, OtherAttempts, FailAttempts DEF Step
<1> QED
  BY <1>1, <1>2, ClockAttempts, EvidenceAttempts DEF Next

(* Reviews that go through give their attempt back: a case has no more     *)
(* attempts than there were errors, crashes and lost leases, and reviews   *)
(* of it under way.                                                        *)
THEOREM OnlyFaultsCount == Spec => []AttemptsAreFaults
<1>1. Init => AttemptsInv
  <2> SUFFICES ASSUME Init PROVE AttemptsInv
    OBVIOUS
  <2>1. \A c \in Case : kase[c].attempts = 0
    BY DEF Init
  <2>2. \A w \in Worker : worker[w].pc = "idle"
    BY DEF Init, Idle
  <2>3. faults = 0
    BY DEF Init
  <2> QED
    BY <2>1, <2>2, <2>3 DEF AttemptsInv, Reviewing
<1>2. IInv /\ AttemptsInv /\ [Next]_vars => AttemptsInv'
  BY NextStep, NextAttempts
<1>3. ASSUME IInv, AttemptsInv PROVE AttemptsAreFaults
  <2> SUFFICES ASSUME NEW c \in Case, kase[c].status \in Live
               PROVE  kase[c].attempts <= faults + Cardinality({w \in Worker : worker[w].pc = "review" /\ worker[w].case = c})
    BY DEF AttemptsAreFaults
  <2> DEFINE S == {w \in Worker : worker[w].pc = "review" /\ worker[w].case = c}
  <2>1. IsFiniteSet(S)
    BY WorkerAssumption, FS_Subset
  <2>2. (\E w \in Worker : Reviewing(w, c)) => S # {}
    BY DEF Reviewing
  <2>3. faults \in Nat /\ kase[c].attempts \in Nat
    BY <1>3, SizeAssumption DEF IInv, ClockOK, CasesOK, CaseRecord
  <2> HIDE DEF S
  <2>4. Cardinality(S) \in Nat /\ (S # {} => Cardinality(S) # 0)
    BY <2>1, FS_CardinalityType, FS_EmptySet
  <2>5. kase[c].attempts > faults => kase[c].attempts = faults + 1 /\ S # {}
    BY <1>3, <2>2 DEF AttemptsInv
  <2>6. kase[c].attempts <= faults + Cardinality(S)
    BY <2>3, <2>4, <2>5
  <2> QED
    BY <2>6 DEF S
<1> QED
  BY <1>1, <1>2, <1>3, Inductive, PTL DEF Spec
=============================================================================
