# TLA+ models of dense-mem

dense-mem is a multi-tenant memory service: clients submit evidence and
relationship proposals with *Remember*, a model assesses them, accepted content
goes to a PostgreSQL ledger with search projections, and *Recall*, *Trace* and
the graph read it back.  Several server replicas share one PostgreSQL database
and, optionally, one Redis.  This directory models the parts whose correctness
depends on the order in which those replicas, their goroutines and their
failures interleave.

## Inventory

| Component | State | Operations | What is hard |
|---|---|---|---|
| Remember idempotency (`remember/service/processor`, `knowledge/postgres/remember_*`) | `remember_attempts` rows per (team, owner, key); session advisory lock; in-process map of lock entries; admission slots | lookup, lock, prepare, commit, record failure, replay | several replicas and requests for one key, lost locks, ambiguous COMMIT, withdrawn access, panics and crashes |
| SSE stream limiter (`sse`, `storage/inmem`, `storage/redis`) | one counter with an expiry per team | Acquire, release, expiry | lost answers, dead replicas, expiry under open streams |
| Operation log service (`operations`) | bounded queue, retained batch, gap counter and marker, `operation_logs` | WriteLog, flush, CheckReadiness, Shutdown | many flushers, ambiguous writes, shutdown racing admission |
| Conflict review (`conflict/review`, `knowledge/postgres/conflict_*`) | review runs and cases with leases and attempts, assessment attempts, resolution plans | reserve run, claim case, review, mark overdue, reserve assessment, record answer, plan, commit, defer, complete | leases that pass or are given up while work goes on; evidence that changes under an assessment; days that overlap |
| Derived evidence tasks (`knowledge/postgres/conflict_derived_*`) | tasks with a lease, ingested fragments, derivations | enqueue, claim, ingest, record, fail | two transactions that look at no lease |
| Private memory erasure (`privacy`) | operations with status, lease, fence; generation of a space; holds | request, claim, erase, retry, complete | a lost claim must not write |
| Ontology maintenance (`ontology`) | markers with sequence and cursor, revisions | expand, claim, assess, publish | paging over changing data |
| Session ingest (`session`, `knowledge/postgres/session_*`) | submissions, events with their owner, checkpoints per window and of the linking | stage, extract, link, commit, fail, replay | resumption after failures, overlapping requests, a lost lock |
| Search reconciliation (`search`) | runs with a lease, document batches | claim, embed, apply, complete | documents change while being embedded |
| Application settings (`settings`) | cached snapshot, refresh gate, `app_config` | read, refresh, update, invalidate | refreshes that began before an update, failed re-reads, other replicas |
| Credential activity, usage metrics | in-process buffers | record, flush | loss at shutdown |
| Evidence lifecycle, ledger, corrections | evidence, observations, relationships and their supports | place, supersede, retract, correct | SQL within one serialised transaction |
| Access, SSO, rate limits, audit | credentials, sessions, windows, rows | single transactions | external identity provider |
| Recall, trace, graph, community, dream | none of their own, or projections | queries | ranking, not interleaving |
| HTTP, MCP, tools, portal, providers, config, migrations, evaluation | none shared | I/O | not a matter for a model checker |

The components meet in PostgreSQL: Remember, session ingest, conflict review and
corrections write the same ledger, each under its own lock or lease; erasure and
withdrawn access are seen by all of them through `AuthorizeMemoryMutationTx` and
the generation of the space.  The advisory-lock admission is shared by every
user of such a lock in a process.  The operation log takes entries from all.

What makes each part correct: a Remember key has one outcome, whoever executes
it and however often it is retried, and nothing is stored without access at the
time of the commit; the limiter admits at most the configured number of streams
and slots come back; accepted log entries reach the table or are counted as
lost; leased work is done by one worker at a time or its late effects are
refused; a conflict is decided once, on evidence that was looked at; what a
resumed session commits is what its attempts saved; a reader never sees
settings older than it was promised.

PROJECT.json lists every component with its status and, under `hazards`, the
places where those promises are hard to test.

## Plan

Modules are written in the order in which a mistake would hurt most.

1. `RememberIdempotency` (done): the write path every client depends on, with
   the abstract `RememberOnce`.
2. `StreamSlots`, `MemoryStreamSlots`, `RedisStreamSlots` (done): one promise,
   two implementations.
3. `OperationLog` (done): the queue, its flushers and its shutdown.
4. `PrivateMemory` (done): erasure operations with lease, fence and attempts,
   legal holds, retention, the generation of a space.
5. `ConflictReview` (done): the review run lease, case claims and attempts,
   overdue assessments, plans and their commit.
6. `DerivedEvidence` (done): the tasks that a committed resolution leaves.
7. `SessionIngest` (done): the lock of the session, checkpoints, commit.
8. `SettingsCache` (done): the snapshot, its refresh gate and invalidation.
9. `OntologyMaintenance`: markers, cursors and published revisions.
10. `SearchReconciliation`: run lease and document versions.
11. Credential activity and usage metrics: bounded buffers flushed at shutdown.

Every safety property and refinement that a run checks is now a theorem.  An
abstract specification of an erasure (sealed, erased once, reopened or retired)
is worth stating beside `PrivateMemory`, and the lineage copies of the ownership
migration are the part of it still to be added.

## Modules and code

### RememberIdempotency

A `Call` is one run of `ProcessRemember`.  `pc` follows it through
`withRememberLock` (`remember_attempt_lock.go`) and `processRememberUnlocked`
(`remember_processor.go`).

| Model | Code |
|---|---|
| `local`, `entry`, `waitsOn` | `rememberIdempotencyLocks`, its entries and their `ready` channels |
| `slots` | `lockadmission`, `Limit` slots per process |
| `session`, `lost` | the session advisory lock and connections that died holding it |
| `xact` | `pg_advisory_xact_lock` around each insert, with the row to be inserted |
| `clock`, `began` | `now()` of a transaction, which is `created_at` of its row |
| `attempt` | `remember_attempts`: outcome and `created_at` |
| `writable` | what `AuthorizeMemoryMutationTx` finds |
| `Register`, `JoinWaiters`, `Wake`, `Admit`, `TryLock`, `PollError` | `withRememberLock` up to the callback |
| `Lookup`, `Prepare`, `BeginCommit` ... `ApplyCommit`, `BeginRecord` ... `InsertFailure`, `Replay` | the callback |
| `Unlock`, `Finish`, `Drop` | the deferred releases, in their order |
| `Panic`, `LoseSession`, `Crash`, `Revoke`, `DetachCommit`, `DetachRecord`, `LandDetached` | faults, chosen by `Faults` |

`RememberOnce` is the promise: a key decides once, and whoever is told
"completed" is told of that decision.

Notes on the abstraction:

- A `Key` stands for (team, owner, idempotency key).
- The unique indexes of the table and `ON CONFLICT` are left out on purpose: the
  properties must follow from the locks and the reads under them.
- The end of a request's context is an error action enabled wherever the code
  consults the context.
- A COMMIT whose answer is lost (`Detach*`) keeps the transaction lock until the
  server commits it or rolls it back (`LandDetached`).
- Rows of older releases (rejected, quarantined, incompatible contract) have
  outcome "retired" and are chosen by `Init`, at most one per key.
- The diagnostic hold of a degraded commit is a recorded failure.
- A failure that could not be recorded is answered all the same, with
  `processing_state` failed, every evidence `not_stored` and the reason
  `failure_retention` (`Unrecorded`).  No row is behind it, and after a COMMIT whose
  answer was lost the key may be stored when it is told.  A caller that
  cannot read the row, or gets no lock, is told of a failure as well.  Such an
  answer promises nothing about the key; the client learns the outcome by asking
  again.  What is promised is about answers that come from the ledger: recorded
  outcomes are durable (`AnswersAreDurable`), and once a request is stored its
  callers get no recorded failure and no idempotency conflict
  (`LedgerNeverDenies`).
- Database time is strictly increasing over transaction starts; two starts in
  the same microsecond on one key would need two owners of its session lock.
- What preparation computes (security decision, assessment, embeddings) is
  reduced to success or a failure of one of the two retryability classes.

### StreamSlots, MemoryStreamSlots, RedisStreamSlots

`StreamSlots` is what `ConcurrencyLimiter` promises: at most `Max` holders, or, of a
limiter that is `forgetful`, `Max` more each time it forgets the ones it has, until
none is left.

`MemoryStreamSlots` is `storage/inmem/sse_concurrency.go` (one mutex, so
`Acquire` and release are atomic) with the maximum duration of the stream
lifecycle.  The entry lives for an hour after the last `Acquire`
(`backends.go`), while any positive `SSE_MAX_DURATION_SECONDS` is accepted: the
duration is a variable chosen from `Durations`, on both sides of the TTL.  The
limiter is forgetful exactly when the duration is above the TTL.  `excess` is by
how much the streams may then exceed the limit, `Max` for each entry that expired
under them.

`RedisStreamSlots` is the limiter of `sse/lifecycle.go` over
`storage/redis/client.go`: INCR, EXPIRE and DECR are separate calls, each may
fail, be executed without an answer, or be cut off by the death of a replica.  The
client is built with its library's default retries, so a call without an answer is
sent again and executed again: for INCR that is a lost call and another one, for
EXPIRE `ResendExpire`, for DECR `ResendDecr`, after which the counter has a slot
too few.  `excess` counts the slots the counter has forgotten, by repeated DECRs
and by the expiry of the key under streams it counted.  The duration has no
relation to the TTL.  A call that the server executes only after its caller gave up
on it is executed in the model before that.

One team's counter is modelled, since counters of teams never meet.  The drain
of the event channel after release changes no slot and is left out.

### OperationLog

`OperationLogServiceImpl`: `WriteLog` is split where another goroutine can get
in between (`BeginAdmission`, the three arms of the `select`, `Return`).
`flush` is the run of the function that holds `flushMu`: retained batch, batch,
gap marker, and again after a full batch.  `caller` are users of `Flush`:
readers and `CheckReadiness` with its probe.  `down` is `Shutdown`.
The queue, batches and the table are sets, because no property speaks about
order and `AppendBatch` inserts by id with `ON CONFLICT DO NOTHING`.  A failed
write may leave its batch in `limbo`, from which it may be committed at any
later time.  `lastError` and `Prune` are left out; `Start` has happened.

### PrivateMemory

| Model | Code |
|---|---|
| `space` | `memory_spaces`: `lifecycle_state`, `generation` |
| `content` | the generations under which the rows of a space were written |
| `age` | `private_content_at`, relative to the retention cutoff |
| `held` | active rows of the legal holds |
| `retiring` | spaces whose credential was disabled to retire them |
| `op` | `private_memory_erasure_operations`; `cred` says `target_credential_id` is set |
| `idem` | `private_memory_erasure_idempotency_keys` and the keys of retention runs |
| `claim` | what `processOne` carries from `ClaimNext` to `ExecuteClaim` and `ReleaseClaim` |
| `write` | a writer between its authentication and its commit |
| `Request`, `Retire`, `Enqueue`, `Supersede` | the four entry points and `queuePrivateMemorySpaceTx` |
| `RunRetention`, `PlaceLegalHold`, `ReleaseLegalHold` | the operations of the same name |
| `ClaimNext`, `ExecuteClaim`, `LoseClaim`, `FailClaim`, `ReleaseClaim`, `Abandon` | a worker's round and its end |

Notes on the abstraction:

- Each action is one transaction.  Those that touch a space lock its row, then
  the operation's row, and check again under the locks what they read before, so
  that each takes effect at one point.
- A lease and a backoff are booleans which time ends at any moment: a worker may
  always be slower than its lease.  `SKIP LOCKED` means any candidate may be
  claimed, whatever the ordering of the query.
- An answer of `ExecuteClaim` that is lost after the commit sends the worker to
  `ReleaseClaim`, where its claim is no longer held.
- `DisableSSOCredential` and `RetireCredential` are both `Retire`.  A retirement
  over an operation that names no credential is refused and rolled back, so the
  credential stays enabled: no action.
- A writer's other conditions (identity, grants) are those of
  `RememberIdempotency`; here only the lifecycle and the generation count.
- `completed_at` orders failed operations.  It is the local time of a replica;
  the model takes these clocks to agree on the order of two failures of one
  space, which lie at least one claim apart.
- An erasure deletes all tables of the manifest or none.  Lineage copies of the
  ownership migration and operations that name no space are left out.

### ConflictReview

One team.  A `Worker` is a worker id of the scheduler (host, pid and index: a
restarted process has the same one), at work in `ProcessTeamConflictReview`.

| Model | Code |
|---|---|
| `kase` | `relationship_conflict_cases`: status, version, snapshot, lease, attempts, `next_review_at` |
| `runs` | `relationship_conflict_review_runs` by `local_run_date` |
| `assessed`, `plans` | the assessment attempts and the resolution plans |
| `evidence` | what the ledger supports now: a `Snapshot` with its majority, if any, and its last writer |
| `verdict` | history: how a case was decided and on which evidence |
| `Start`, `Renew`, `Finish` | the run of a day and its lease |
| `Claim`, `Review` (`Dismiss`, `Evaluate`) | `ClaimRelationshipConflictCases` and the transaction that dismisses a case, leaves it waiting, resolves it by majority or marks it overdue |
| `Resume`, `ReserveAssessment`, `Assess` | a pending plan is taken up, or the attempt of the day reserved and the provider's answer recorded (`conflict_overdue_assessment_repository.go`) |
| `Plan`, `Commit`, `Defer` | the plan and its commit (`conflict_overdue_resolution_repository.go`) |
| `Error`, `Crash`, lapsing leases, changing evidence, the clock | faults and environment |

Notes on the abstraction:

- Every action is one transaction.  Those that change a case or plan for it lock
  its row first; recording an answer locks only the row of its attempt.  From the
  overdue marking on no lease is held: version and snapshot are the only guards.
- A lease is a boolean that time ends.  A tick of the clock is longer than a lease
  (30 to 1800 seconds); days pass only while a case is live.
- Evidence that changes and changes back between the reservation and the commit
  is not told apart, in the code (which compares a digest) as in the model.
- `next_review_at` moves by 24 hours from each review, so it drifts against the
  date of the run; the model keeps both.
- A resolution by majority leaves a pending plan of an older version behind, which
  nothing reads again.  Unusable answers of the required provider may end in the
  last write winning as failures of the optional one do.
- The branch that plans and releases a deterministic claim is not reached by any
  caller and is left out; a deferral looks at no lease, as in the code.  Whether a
  plan exceeds the bound on documents is data, so a deferral may happen at any plan
  or commit and is not counted as a fault.
- The provider is part of the settings and may change between the runs of two days:
  `Configured` says which providers the run of a day may come to use.

### DerivedEvidence

What a committed resolution leaves: a task for every retracted fragment.  The
worker that committed stages them at once without a claim (`Enqueue`); what it
leaves is claimed in batches (`Claim`).  Staging a task is `Ingest` (under an
idempotency key, `insertKnowledgeIngest`) and `Record` (the derivation and the
completion).  Neither, nor `RecordFailure`, looks at the lease.  A task that fails
stops the rest of its batch; a task that fails for ever would stop those behind
it in every batch, so `TasksComplete` assumes that failures end.  The path of
`StageConflictDerivedEvidence` that refuses a derivation with another fragment
is never taken: that is `OneReplacement`.  Failure events are inserted with
`DO NOTHING` and left out.

### SessionIngest

`Ingest` of `session/service/service.go` (`src/adr/0009-private-session-ingestion.md`).
`Begin` is `WithSessionLock`, then lookup and staging in one step, since the lock
and the rows they lock keep others of the session out; windows are extracted in
any order, each saved in a transaction of its own that keeps an answer already
there; then the linking, the assessment and `CommitSession`.  `Text` and `Core`
say which events a request has and which windows they fall into.

Notes on the abstraction:

- Each caller is at a replica of its own.  The advisory lock is held by a
  connection; `LoseLock` ends it while its caller goes on.
- A checkpoint whose answer is lost is `Extract` followed by `Error`.
- Scanning, windowing and validation of the text are data.  A mismatch of the
  extraction version, receipts and diagnostics are left out; the fence of an erased
  space is in `PrivateMemory`.
- The events of a submission that failed for good stay unfinished: a request under
  another key that has one of them is refused, and sending the original again
  only repeats the failure.  The code means it so (`ErrOriginalRequestRequired`).
- After a lost lock a final failure may be overturned by an attempt that was under
  way; hence the restriction in `FinalFailureStands`.

### SettingsCache

One replica of `AppConfigServiceImpl` in detail; of the others only their updates
of the table are seen (`Elsewhere`).  Settings are their version, since an update
that changes a value changes `update_time` in the same transaction.
`currentCache` is cut where another goroutine or replica can act: `Look` and
`Enter` (the two looks at the snapshot, without and within the gate), `Check`
(`GetUpdateTime`), `Compare`, `List`, `Install`, and `RefreshError` for
`cachedOrError`.  An update reads, writes, waits for the gate to invalidate, and
reads again.  Three kinds of sections differ in what they do: "general" stands for
all that ignore the error of the first read and never look at the refresh error,
"decision" refuses a stale snapshot, "ontology" reads the table itself.
Normalisation of the values and the best-effort audit entries are left out.

`Peek` is `CachedTelemetryPricingRuntimeConfig`: the rate card that telemetry reads
from the snapshot there is, whatever its age, its refresh error and its validity.
Its answers may be of any age; they have all that was in the table when the
snapshot was last verified (`verified`, which a failed refresh leaves alone).

The service takes the time as `time.Now().UTC()`, without the monotonic part, so
`checked` and the interval are compared on the clock of the replica (`wall`),
which `ClockSet` sets forward or back.  The properties speak of the time that
passed (`now`); a clock that was set back lengthens the life of a snapshot by as
much (`back`), one that was set forward only shortens it.

What holds is conditional on the refresh having worked.  After a committed update
whose re-read fails, `cachedOrError` makes the old snapshot valid again for an
interval, and every section but the decisions returns it as the updated settings
(`UpdatesShowThemselves` names this case).

## Runs, bounds and what they show

| Run | Instance | Distinct states | Shows |
|---|---|---|---|
| `remember_replicas` | 3 calls, 1 key, 2 hashes, 2 replicas, 2 slots, late COMMITs | 1.33 M | final failures stand; the ledger never denies what it has stored |
| `remember_faults` | 2 calls, 2 hashes, every fault | 469 k | one terminal row and one request per key, durable answers, historical keys stay closed, nothing stored without authority, nothing leaks, `RememberOnce` is implemented |
| `remember_liveness` | 2 calls, 2 keys, 1 slot, crash and late COMMIT | 456 k | every call returns |
| `memory_streams` | 5 streams, limit 2, TTL 2, durations 2 and 5 | 2.0 k | `StreamSlots` is implemented |
| `redis_faults` | 3 streams, limit 2, all faults, resent calls | 357 k | the limit is exceeded only by slots the counter has forgotten; leaked slots come back |
| `redis_limit` | 3 streams, no fault | violation | the limit does not hold past the expiry |
| `operation_log` | 2 entries, 1 reader, queue 1, batch 1, 2 errors | 180 k | entries are stored, queued, retained or counted, never lost or counted twice; accepted entries settle, gaps are reported |
| `private_memory` | 1 space, 2 operations of 2 attempts, 2 workers, 1 writer, 2 keys | 283 k | held rows are kept, late workers and writers have no effect, failures can be recovered, a retirement sticks, every operation settles unless its space is held |
| `conflict_review` | 1 case, 2 workers, 4 days, 2 providers, 4 snapshots, 1 fault, 1 change of evidence | 2.61 M | a case is decided once, by one plan, on current evidence; the last write wins only when earned; providers are asked once a day; only faults use up attempts; decided cases and completed runs stand |
| `session_ingest` | 2 callers, 3 requests over 2 keys and 2 events, 2 windows, 2 faults | 83 k | commits are the checkpoints, rejected text is never applied, resent requests settle |
| `derived_evidence` | 2 workers, 2 tasks, 4 faults | 14 k | overlapping attempts come to one fragment; every task is completed |
| `settings_cache` | 2 callers, interval 2, 2 ticks, 2 updates, 1 fault or setting of the clock | 8.0 M | settings are older than an interval only by as much as the clock was set back, cached rate cards as old as their last verification; an update shows itself |

Larger instances were checked once and held as well: Remember with three calls and
lost locks (1.24 M states) and with late COMMITs besides (5.8 M); the operation log
with 3 entries, queue 2 and batch 2 (740 k, safety); three erasure operations over
three keys (451 k, safety); three derived evidence tasks (254 k).

Why the bounds are enough.  Remember: a key needs an owner, a second owner (on
another replica, or after a lost lock) and a third party that waits, polls or
retries; three calls on two replicas give every combination.  Two owners, of the
same or of different requests, are enough for what a fault can do to the fence,
so the run with every fault has two calls.  Streams: Redis with one more than the
limit, and a TTL that passes under an overlap although no stream is that long; in
memory with one more than twice the limit, so that an entry which expires under two
streams lets in two more, and a duration equal to the TTL and one that spans two
of them.  Log: one entry more than the queue holds, so that
an entry is refused while a batch and a marker are under way; two errors let the
retry of a failure fail as well.  Erasure: spaces never meet, except
in the batch of a retention run, so one space suffices (the proofs cover any
number); two operations let an erase fail and a retirement recover it, or the
other way round; two attempts separate the last from the
others; two workers are a late one and its successor.  Conflict review: cases
meet only in the run, whose order of cases no property depends on; two workers are
one that gave up its lease and its successor, of the same or of the next day; four
days hold a due date, the two failed days after which the last write wins, and
one more.  Session: three requests are one that is resent, one of the same key
with other text and one of another key that shares an event.  Settings: one caller
refreshes while the other updates, and the table changes once more elsewhere; two
ticks are the interval, so that a snapshot ages to its end, and the clock may be
set to either end of it (the proofs cover any interval and any setting).

`redis_limit` records a disagreement with `sse/lifecycle.go:19` ("the maximum
number of concurrent streams per team"): the expiry is set only when the counter
goes from 0 to 1.  Renewing it on every acquire would restore the limit, and
would let a leaked slot live for as long as new streams keep coming: the
definition `AdmissionRenews` violates `LeaksEnd`.  The choice between the two is
the design's.

## Fairness

- Remember: weak fairness of the ordinary steps of each call, since every phase
  has a deadline and nothing else holds a goroutine back, and of the server
  finishing an abandoned transaction.  That includes a call's first step, on
  which nothing depends: `EveryCallReturns` speaks of calls under way.
- Redis streams: weak fairness of answers, of the end of a stream at its maximum
  duration, of time and of key expiry.
- Operation log: writers do not block; a flush goes on until it returns; the
  worker's ticker fires for ever and `flushMu` is a Go mutex, which hands over to
  a starving waiter, hence strong fairness of `BeginRun` and `BeginExit`;
  likewise of the steps of `Shutdown`.  `MaxErrors` bounds the outage: nothing
  is promised while the sink fails for ever.
- Private memory: a worker polls for ever and finishes its round (`runWorker`),
  and leases and backoffs pass.  Workers may die in every round: attempts bound
  how often.  Holds are not assumed to be released.
- Derived evidence: a worker that stages goes on, leases pass, and later runs claim
  what is claimable, oldest first; `MaxFaults` bounds the failures.
- Session: a caller goes on (its provider calls have deadlines), and clients send a
  request again until it is answered, which is strong fairness because the lock of
  the session may be taken in between.  Nothing is promised without resending: no
  worker of the server resumes a session.

## Proofs

All theorems hold for every value of the constants under the named assumptions
of the modules (finite sets of calls, entries, streams, workers or tasks, positive
sizes, absent values outside their sets).

**`RememberIdempotency_proofs`** — `IInv == TypeOK /\ SlotCount /\ LedgerInv`.
`TypeOK` is not inductive, because releasing a slot subtracts one: `SlotCount`
says the counter is the number of calls past admission.  `LedgerInv` ties the
table to the transaction that holds a key's fence: `FailureInv` says that a
call about to record a failure has one, `SectionInv` that a call inside its
fenced section holds the fence, `FenceInv` that the holder of a fence is about to
insert its first row while its key has no terminal row and only failed rows of
the same request, `RowInv` that a call with a row is past its last insert.
Together with `OneTerminalRow` and
`OneRequestPerKey` they are inductive.  From it follow `KeyDecidedOnce`,
`KeyBoundToRequest` and, as an action property, `LedgerAppendOnly`.  None of
them uses the session lock: the transaction fence alone carries them, which is
why they survive lost locks.

What else is proved of Remember rests on `IInv` and one more invariant each:

- `EverythingIsGivenBack` (`NothingLeaks`) on `HoldInv`: the holder of a session
  lock or of a map entry is a call of that key, and process, in a phase from which
  it is released.
- `StoresAreAuthorized` on `AuthorityInv`: a commit transaction past its
  authorization, also an abandoned one, keeps the authority from being revoked.
- `AnswersHold`, `HistoryIsNeverReused` and `StoresAreNotDenied` on a description
  of every step that fills in a reply: it comes from a row that was loaded
  (`AnswerFrom`) or from the caller's own transaction that has just landed
  (`AnswerOwn`), and `HistoryInv` says that a historical row is alone.
  `StoresAreNotDenied` (`LedgerNeverDenies`) needs `IInv` besides: a conflict is
  told where a row of another request was met (`LoadedConflict`, `FencedConflict`),
  and `OneRequestPerKey` lets no such row stand beside a stored one.
- `RemembersOnce` (`ImplementsOnce`): a key is decided where its terminal row is
  inserted, which `OneTerminalRow` makes one step at most, and a call is told where
  it returns; every other step is a stutter of `RememberOnce`.
- `FinalFailureIsFinal` (`FinalFailureStands`) on `OrderInv`, the only one that needs
  the session lock, and so `lost = {}`: a transaction that is open or behind a fence
  started after every row of its key (`OpenTxInv`, `HeldTxInv`), a final failure is
  the latest of its key, which is not stored (`FinalInv`), and what may still land
  has found no final failure (`LandingInv`).

**`Process_proofs`** — the state that a process keeps in memory.  Streams: `IInv == TypeOK /\ Refreshed /\ CountUpToExcess`.
`Refreshed` relates the age of every open stream to the time left: every
admission renews the entry, so it outlives the youngest by at least the TTL.  Hence
an entry expires under a stream only if the duration is above the TTL
(`LapsedUnderStream`), and then what is open exceeds the counter by `excess` at
most: `CounterUpToExcess`, and with it the refinement `MemoryImplementsSlots`.

Settings: `SettingsInv` says of the refresh that only the caller in the gate reads,
and that what it read has every update the table had when it started
(`RefreshInv`); of the snapshot the same for the time it was verified, which unless
it is marked with an error is the time it was checked (`SnapshotInv`); and of an
update past its invalidation that
every valid snapshot and every refresh under way has its change (`ShownInv`).  The
last is why `invalidate` must wait for the gate: a refresh that read before the
update would make its snapshot valid again.  `Shown` ties a reading of the clock to
the time it was taken: since then the clock went on by all that passed, less what
it was set back.  From it follow
`StalenessIsBounded` and `UpdatesAreShown`.  (The definitions of `SettingsCache` are
called `SettingsInit`, `SettingsNext` and so on so that one module can extend both.)

**`OperationLog_proofs`** — `IInv` is the conjunction of `TypeOK`,
`NothingVanishes` and five supporting parts.  `FlushInv` says in which
phases a batch is in hand and a retained one is left.  `GapInv` adds to
`GapsAccounted` that a marker under way is bounded by the pending count and is
stored with one count, also from limbo.  `DurableInv` adds to `FlushIsDurable`
who owns the flush and what is still to be written for a reader, phase by phase.
`SettleInv` says that once `Shutdown` drains, nobody can add to the queue.
`CountInv` adds to `DroppedIsExact` that an entry is in one place.  The theorems
are `TypeCorrect`, `EntriesKept`, `GapsReportedOnce`, `FlushDurable`,
`ShutdownLeavesNothing` and `DroppedExact`.

**`PrivateMemory_proofs`** — `IInv == TypeOK /\ SpaceInv /\ NoStaleContent /\
KeyInv`.  `SpaceInv` adds to `SealedIsRecoverable` and `RetirementSticks` the two
facts that make them inductive: `StampInv`, a failure is stamped later than all
before it, so the last failed operation is the one that failed last; and
`RetireInv`, what is under way for a space whose credential is disabled, and what
a recovery of it would find, retires it.  `KeyInv` ties an operation to the scope
that queued it.  Two lemmas carry the argument: `SettleKeeps` for every change of
rows while the spaces stay as they are, `QueueKeeps` for new operations, one or
many.  The theorems are `TypeCorrect`, `FailureRecoverable`, `RevocationStands`,
`ErasedForGood`, `QueuedOnce`, and the action properties `HoldsRespected` and
`ClaimsExclusive`: every safety property of the module.

**`RedisStreamSlots_proofs`** — `LimitUpToExcess` is about open streams,
and is not inductive: the first stream is let in before its EXPIRE is answered, and
the counter also has refused acquisitions and slots that were leaked.
`CountSuffices` says that the counter and `excess` together are at least the number
of streams counted, and that the streams let in (`Admitted`) are within `Max` and
`excess`.  The theorems are `TypeCorrect` and `LimitKeptUpToExcess`.

**`ConflictReview_proofs`** — `IInv` is the conjunction of `ClockOK`, `CasesOK` (a
decided case is under no lease), `RunsOK` (only the lease of a running run lapses),
`TablesOK`, `WorkersOK` (what a worker carries in each phase) and `DoneOK`: the
worker that a completed run names is no longer at work on it.  The last is why
`CompleteRun` needs no look at the lease: a worker that lost the run finds another
name in it, or the same name only before it was completed.  From it follow
`TypeCorrect`, `ClosedStands` and `CompletedStands`.  `DecisionIsCurrent` needs
`Frozen` besides: an assessment attempt of the version that a case has is of the
snapshot that it has, since every change of the snapshot raises the version.

The rest is about what workers without a lease leave for each other:

- `AskedOnceADay` (`OneAttemptADay`): the attempts are finitely many and one for each
  case, version, provider and day (`RowsInv`).
- `FreshStaysBacked`, `OnePlanIsApplied` and `LastWriteEarned` on `PlansInv` and
  `TaskInv`: a plan on record, and a worker that plans or commits, have an attempt
  that backs them, and keep it, since an answered attempt is not changed and failures
  of a version only grow; there is one plan per version; a plan that is not pending
  is of a version that is over, and the one that was applied made the version after it.
- `OnlyFaultsCount` (`AttemptsAreFaults`) on `AttemptsInv`: a live case has at most as
  many attempts as there were faults, or one more, whose worker holds the lease.

The first attempt to prove `OneAttemptADay` failed, and the reason was in the model:
`ReserveAssessment` lacked the branch in which the insert of
`ReserveOverdueConflictAssessment` gives way to a row of the same version, date and
provider, whatever became of it.  That branch was added, and the property now says
what the counting of failed days needs: one row for each of them.

**`DerivedEvidence_proofs`** — `IInv` adds to `OneReplacement` and
`CompletedIsRecorded` that the fragments ingested were drawn before
(`DrawnBefore`), which keeps the next one apart from them.  The theorems are `TypeCorrect`,
`ReplacementIsUnique` and `CompletionIsRecorded`.

**`SessionIngest_proofs`** — `CopyOK` says that what a caller carries agrees with
the checkpoints, also after it lost the lock: a checkpoint is never replaced.
`SavedOK` that a rejected submission has a saved signal, which every later attempt
meets again; `Owners` ties events to submissions; `Locked` that while no lock was
lost a caller at work holds it.  The theorems are `TypeCorrect`,
`CommitsCheckpoints`, `RejectionStands`, `CompletionIsWhole`, `DuplicatesFinished`
and, as an action property, `FinalStands`.

Only model-checked: liveness (`EveryCallReturns`, `LeaksEnd`, `AcceptedSettles`,
`GapsReported`, `ErasureSettles`, `SubmissionsSettle`, `TasksComplete`), which needs
fairness and `ENABLED`, out of the prover's reach; and the violation of `redis_limit`,
which is a counterexample.

## Not modelled

Parts whose difficulty is not interleaving (ranking and retrieval, prompts and
providers, formatting, HTTP and MCP plumbing, the web portal, migrations,
evaluation) are left to tests.  Single-transaction administration (teams,
credentials, audit rows) has no intermediate state to observe.  The evidence
ledger's rules are SQL within one transaction under the locks modelled here.
Ontology maintenance, search reconciliation, credential activity and usage metrics
have state worth modelling and are the rest of the plan.
