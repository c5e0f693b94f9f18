---------------------------- MODULE OperationLog ----------------------------
(***************************************************************************)
(* OperationLogServiceImpl: the bounded, non-blocking queue between the    *)
(* process logger and the operation_logs table.  Every entry is one call   *)
(* of WriteLog.  Flushes are serialised by flushMu and run on behalf of    *)
(* the background worker, of readers (ListOperationLogs, CheckReadiness)   *)
(* and of Shutdown.  A batch that cannot be written is retained; entries   *)
(* that are refused are counted and reported by a gap marker.              *)
(*                                                                         *)
(* The order of entries is abstracted: the queue, a batch and the table    *)
(* are sets.  An AppendBatch that fails may have been executed, or may be  *)
(* executed later by the database: it goes to limbo.                       *)
(***************************************************************************)
EXTENDS Integers, FiniteSets

CONSTANTS Entry,      \* calls of WriteLog
          Caller,     \* concurrent callers of Flush
          QueueSize,  \* operationLogQueueSize
          BatchSize,  \* operationLogBatchSize
          MaxErrors   \* bound on the failures of the sink

ASSUME EntryAssumption == IsFiniteSet(Entry)
ASSUME SizeAssumption  == /\ QueueSize \in Nat \ {0} /\ BatchSize \in Nat \ {0}
                          /\ MaxErrors \in Nat
ASSUME CallerAssumption == Caller \cap {"run", "exit", "shutdown"} = {}

VARIABLES
  call,        \* progress of each WriteLog
  queue,       \* the channel
  failed,      \* the retained batch
  flush,       \* the flush that holds flushMu: owner, phase, batch, more
  caller,      \* idle, waiting for flushMu or flushing, probing
  run,         \* the worker: loop or done
  down,        \* progress of Shutdown; stop is closed unless it is "up"
  retry,       \* whether flushes are deferred (retryAfter)
  gapPending,  \* refused entries no stored marker reports
  marker,      \* gapMarker and gapMarkerCount; count 0 without a marker
  dropped,     \* DroppedEvents
  stored,      \* entries in operation_logs
  markers,     \* ids of the gap markers in operation_logs
  reported,    \* sum of their dropped_events
  limbo,       \* failed batches the database may still commit
  errors,      \* failures of the sink so far
  seen,        \* history: what each caller's flush has to make durable
  discarded    \* history: entries discarded by Shutdown

logVars  == <<stored, markers, reported, limbo>>
gapVars  == <<gapPending, marker, dropped>>
procVars == <<caller, run, down, seen>>
vars == <<call, queue, failed, flush, procVars, retry, gapVars, logVars, errors, discarded>>

Owner == Caller \cup {"run", "exit", "shutdown"}
NoFlush == [owner |-> "run", phase |-> "idle", batch |-> {}, more |-> FALSE]
NoMarker == [id |-> 0, count |-> 0]

Init ==
  /\ call = [e \in Entry |-> "new"]
  /\ queue = {} /\ failed = {}
  /\ flush = NoFlush
  /\ caller = [c \in Caller |-> "idle"]
  /\ seen = [c \in Caller |-> {}]
  /\ run = "loop" /\ down = "up"
  /\ retry = FALSE
  /\ gapPending = 0 /\ dropped = 0 /\ marker = NoMarker
  /\ stored = {} /\ markers = {} /\ reported = 0 /\ limbo = {}
  /\ errors = 0
  /\ discarded = {}

-----------------------------------------------------------------------------
(* WriteLog *)

Step(e, from, to) ==
  /\ call[e] = from
  /\ call' = [call EXCEPT ![e] = to]

(* beginAdmission: refused once Shutdown has begun. *)
BeginAdmission(e) ==
  /\ Step(e, "new", IF down = "up" THEN "admitted" ELSE "refused")
  /\ UNCHANGED <<queue, failed, flush, procVars, retry, gapVars, logVars, errors, discarded>>

(* The select finds the channel closed. *)
Stopped(e) ==
  /\ down # "up"
  /\ Step(e, "admitted", "refused")
  /\ UNCHANGED <<queue, failed, flush, procVars, retry, gapVars, logVars, errors, discarded>>

Enqueue(e) ==
  /\ Cardinality(queue) < QueueSize
  /\ Step(e, "admitted", "queued")
  /\ queue' = queue \cup {e}
  /\ UNCHANGED <<failed, flush, procVars, retry, gapVars, logVars, errors, discarded>>

MarkGap(n) ==
  /\ gapPending' = gapPending + n
  /\ dropped' = dropped + n
  /\ UNCHANGED marker

(* The queue is full, or the context of the caller is done. *)
Drop(e) ==
  /\ Step(e, "admitted", "dropped")
  /\ MarkGap(1)
  /\ UNCHANGED <<queue, failed, flush, procVars, retry, logVars, errors, discarded>>

(* After the send: shutdownRequested decides what the caller is told. *)
Return(e) ==
  /\ Step(e, "queued", IF down = "up" THEN "ok" ELSE "late")
  /\ UNCHANGED <<queue, failed, flush, procVars, retry, gapVars, logVars, errors, discarded>>

-----------------------------------------------------------------------------
(* flush *)

(* flushMu is taken; retained entries are written first. *)
Begin(o) ==
  /\ flush.phase = "idle"
  /\ flush' = [owner |-> o, phase |-> IF failed = {} THEN "take" ELSE "failed",
               batch |-> {}, more |-> FALSE]

(* Variant: the worker wakes for queued entries only. *)
BeginRunQueued ==
  /\ run = "loop"
  /\ ~retry /\ queue # {}
  /\ Begin("run")
  /\ UNCHANGED <<call, queue, failed, procVars, retry, gapVars, logVars, errors, discarded>>

BeginRun ==
  /\ run = "loop"
  /\ ~retry
  /\ Begin("run")
  /\ UNCHANGED <<call, queue, failed, procVars, retry, gapVars, logVars, errors, discarded>>

(* The worker's context is cancelled: a last, forced flush. *)
BeginExit ==
  /\ run = "loop" /\ down # "up"
  /\ Begin("exit")
  /\ UNCHANGED <<call, queue, failed, procVars, retry, gapVars, logVars, errors, discarded>>

CallFlush(c) ==
  /\ caller[c] = "idle"
  /\ caller' = [caller EXCEPT ![c] = "waiting"]
  /\ seen' = [seen EXCEPT ![c] = {e \in Entry : call[e] = "ok"} \ discarded]
  /\ UNCHANGED <<call, queue, failed, flush, run, down, retry, gapVars, logVars, errors, discarded>>

BeginCaller(c) ==
  /\ caller[c] = "waiting"
  /\ ~retry
  /\ Begin(c)
  /\ caller' = [caller EXCEPT ![c] = "flushing"]
  /\ UNCHANGED <<call, queue, failed, run, down, seen, retry, gapVars, logVars, errors, discarded>>

(* retryDeferredError: the flush fails without an attempt. *)
Deferred(c) ==
  /\ caller[c] = "waiting"
  /\ retry
  /\ caller' = [caller EXCEPT ![c] = "idle"]
  /\ UNCHANGED <<call, queue, failed, flush, run, down, seen, retry, gapVars, logVars, errors, discarded>>

Receive(e) ==
  /\ flush.phase = "take"
  /\ Cardinality(flush.batch) < BatchSize
  /\ e \in queue
  /\ queue' = queue \ {e}
  /\ flush' = [flush EXCEPT !.batch = @ \cup {e}]
  /\ UNCHANGED <<call, failed, procVars, retry, gapVars, logVars, errors, discarded>>

(* The end of a flush releases flushMu and returns to its owner. *)
Finish(ok) ==
  /\ flush' = NoFlush
  /\ caller' = [c \in Caller |->
       IF c # flush.owner THEN caller[c] ELSE IF ok THEN "done" ELSE "idle"]
  /\ run' = IF flush.owner = "exit" THEN "done" ELSE run
  /\ down' = IF flush.owner # "shutdown" THEN down ELSE IF ok THEN "ended" ELSE "discard"
  /\ UNCHANGED seen

(* Variant: an idle flush leaves a pending gap alone. *)
CollectedSkipsGap ==
  /\ flush.phase = "take"
  /\ Cardinality(flush.batch) = BatchSize \/ queue = {}
  /\ IF flush.batch = {}
     THEN Finish(TRUE)
     ELSE /\ flush' = [flush EXCEPT !.phase = "persist",
                                    !.more = (Cardinality(flush.batch) = BatchSize)]
          /\ UNCHANGED procVars
  /\ UNCHANGED <<call, queue, failed, retry, gapVars, logVars, errors, discarded>>

(* The batch is full or the queue is empty.  After a full batch the loop   *)
(* goes on once the gap marker is written.                                 *)
Collected ==
  /\ flush.phase = "take"
  /\ Cardinality(flush.batch) = BatchSize \/ queue = {}
  /\ flush' = [flush EXCEPT !.phase = IF flush.batch = {} THEN "gap" ELSE "persist",
                            !.more = (Cardinality(flush.batch) = BatchSize)]
  /\ UNCHANGED <<call, queue, failed, procVars, retry, gapVars, logVars, errors, discarded>>

Goto(p) == flush' = [flush EXCEPT !.phase = p, !.batch = {}] /\ UNCHANGED procVars

(* flushGap is over: loop or return. *)
AfterGap == IF flush.more THEN Goto("take") ELSE Finish(TRUE)

PersistFailed ==
  /\ flush.phase = "failed"
  /\ stored' = stored \cup failed
  /\ failed' = {}
  /\ retry' = FALSE
  /\ Goto("take")
  /\ UNCHANGED <<call, queue, gapVars, markers, reported, limbo, errors, discarded>>

PersistBatch ==
  /\ flush.phase = "persist"
  /\ stored' = stored \cup flush.batch
  /\ retry' = FALSE
  /\ Goto("gap")
  /\ UNCHANGED <<call, queue, failed, gapVars, markers, reported, limbo, errors, discarded>>

NoGap ==
  /\ flush.phase = "gap"
  /\ gapPending = 0
  /\ AfterGap
  /\ UNCHANGED <<call, queue, failed, retry, gapVars, logVars, errors, discarded>>

\* Variant: every attempt is a new marker with the current count.
FreshMarker == [id |-> marker.id + 1, count |-> gapPending]
\* A marker keeps its id and its count until it is known to be stored.
GapMarker == IF marker.count > 0 THEN marker ELSE [id |-> marker.id + 1, count |-> gapPending]

PrepareMarker ==
  /\ flush.phase = "gap"
  /\ gapPending > 0
  /\ marker' = GapMarker
  /\ Goto("marker")
  /\ UNCHANGED <<call, queue, failed, retry, gapPending, dropped, logVars, errors, discarded>>

(* INSERT ... ON CONFLICT (id) DO NOTHING of a marker. *)
StoreMarker(m) ==
  /\ markers' = markers \cup {m.id}
  /\ reported' = IF m.id \in markers THEN reported ELSE reported + m.count

\* Entries refused while the marker was written wait for the next one.
Remaining == IF gapPending <= marker.count THEN 0 ELSE gapPending - marker.count

PersistMarker ==
  /\ flush.phase = "marker"
  /\ StoreMarker(marker)
  /\ gapPending' = Remaining
  /\ marker' = [marker EXCEPT !.count = 0]
  /\ AfterGap
  /\ UNCHANGED <<call, queue, failed, retry, dropped, stored, limbo, errors, discarded>>

Writing == flush.phase \in {"failed", "persist", "marker"}
InFlight ==
  [entries |-> IF flush.phase = "failed" THEN failed ELSE flush.batch,
   marker  |-> IF flush.phase = "marker" THEN marker ELSE NoMarker]

\* Variant: a batch that could not be written is given up.
RetainedNothing == failed
\* appendOrRetain keeps the batch; flushFailed and flushGap have none.
Retained == IF flush.phase = "persist" THEN flush.batch ELSE failed

(* AppendBatch returns an error, executed or not; markFailure. *)
PersistError ==
  /\ Writing
  /\ errors < MaxErrors
  /\ errors' = errors + 1
  /\ failed' = Retained
  /\ limbo' \in {limbo, limbo \cup {InFlight}}
  /\ retry' = TRUE
  /\ Finish(FALSE)
  /\ UNCHANGED <<call, queue, gapVars, stored, markers, reported, discarded>>

(* The database commits a batch whose writer saw an error. *)
Land(b) ==
  /\ b \in limbo
  /\ limbo' = limbo \ {b}
  /\ stored' = stored \cup b.entries
  /\ IF b.marker.count > 0 THEN StoreMarker(b.marker) ELSE UNCHANGED <<markers, reported>>
  /\ UNCHANGED <<call, queue, failed, flush, procVars, retry, gapVars, errors, discarded>>

RetryExpires ==
  /\ retry
  /\ retry' = FALSE
  /\ UNCHANGED <<call, queue, failed, flush, procVars, gapVars, logVars, errors, discarded>>

(* ListOperationLogs and Flush return to their caller. *)
CallerReturns(c) ==
  /\ caller[c] = "done"
  /\ caller' = [caller EXCEPT ![c] = "idle"]
  /\ UNCHANGED <<call, queue, failed, flush, run, down, seen, retry, gapVars, logVars, errors, discarded>>

(* CheckReadiness goes on with a write of its own, outside flushMu. *)
Probe(c) ==
  /\ caller[c] = "done"
  /\ caller' = [caller EXCEPT ![c] = "idle"]
  /\ \/ retry' = FALSE /\ UNCHANGED errors
     \/ errors < MaxErrors /\ errors' = errors + 1 /\ retry' = TRUE
  /\ UNCHANGED <<call, queue, failed, flush, run, down, seen, gapVars, logVars, discarded>>

-----------------------------------------------------------------------------
(* Shutdown *)

RequestShutdown ==
  /\ down = "up"
  /\ down' = "stopping"
  /\ UNCHANGED <<call, queue, failed, flush, caller, run, seen, retry, gapVars, logVars, errors, discarded>>

WorkerDone ==
  /\ down = "stopping" /\ run = "done"
  /\ down' = "drain"
  /\ UNCHANGED <<call, queue, failed, flush, caller, run, seen, retry, gapVars, logVars, errors, discarded>>

(* Shutdown's own deadline passes while the worker is still flushing. *)
Abandon ==
  /\ down = "stopping"
  /\ down' = "abandoned"
  /\ UNCHANGED <<call, queue, failed, flush, caller, run, seen, retry, gapVars, logVars, errors, discarded>>

\* admissionWG.Wait
AdmissionsOver == \A e \in Entry : call[e] \notin {"admitted", "queued"}

BeginShutdown ==
  /\ down = "drain"
  /\ AdmissionsOver
  /\ Begin("shutdown")
  /\ down' = "final"
  /\ UNCHANGED <<call, queue, failed, caller, run, seen, retry, gapVars, logVars, errors, discarded>>

(* Variant: what is left in the queue is not counted. *)
DiscardUncounted ==
  /\ down = "discard"
  /\ flush.phase = "idle"
  /\ discarded' = discarded \cup failed \cup queue
  /\ MarkGap(Cardinality(failed))
  /\ failed' = {} /\ queue' = {}
  /\ down' = "ended"
  /\ UNCHANGED <<call, flush, caller, run, seen, retry, logVars, errors>>

(* discardRetainedAfterShutdownFailure *)
Discard ==
  /\ down = "discard"
  /\ flush.phase = "idle"
  /\ discarded' = discarded \cup failed \cup queue
  /\ MarkGap(Cardinality(failed) + Cardinality(queue))
  /\ failed' = {} /\ queue' = {}
  /\ down' = "ended"
  /\ UNCHANGED <<call, flush, caller, run, seen, retry, logVars, errors>>

-----------------------------------------------------------------------------
WriteLog(e) ==
  BeginAdmission(e) \/ Stopped(e) \/ Enqueue(e) \/ Drop(e) \/ Return(e)

FlushStep ==
  \/ \E e \in Entry : Receive(e)
  \/ Collected \/ NoGap \/ PrepareMarker
  \/ PersistFailed \/ PersistBatch \/ PersistMarker

Reader(c) == BeginCaller(c) \/ Deferred(c) \/ CallerReturns(c) \/ Probe(c)

Shutdown == WorkerDone \/ Abandon \/ BeginShutdown \/ Discard

Next ==
  \/ \E e \in Entry : WriteLog(e)
  \/ FlushStep \/ PersistError
  \/ BeginRun \/ BeginExit
  \/ \E c \in Caller : CallFlush(c) \/ Reader(c)
  \/ \E b \in limbo : Land(b)
  \/ RetryExpires
  \/ RequestShutdown \/ Shutdown

Spec == Init /\ [][Next]_vars

(* The worker's tickers fire and flushMu is fair; a flush goes on until it *)
(* returns; writers do not block.  MaxErrors bounds the outage.            *)
Fairness ==
  /\ \A e \in Entry : WF_vars(call[e] # "new" /\ WriteLog(e))
  /\ WF_vars(FlushStep \/ PersistError)
  /\ SF_vars(BeginRun) /\ SF_vars(BeginExit)
  /\ \A c \in Caller : WF_vars(Reader(c))
  /\ WF_vars(RetryExpires)
  /\ SF_vars(Shutdown)

FairSpec == Spec /\ Fairness

-----------------------------------------------------------------------------
Status == {"new", "admitted", "queued", "ok", "late", "refused", "dropped"}

\* Every variable has its type.
TypeOK ==
  /\ call \in [Entry -> Status]
  /\ queue \subseteq Entry /\ failed \subseteq Entry
  /\ flush \in [owner : Owner, batch : SUBSET Entry, more : BOOLEAN,
                phase : {"idle", "failed", "take", "persist", "gap", "marker"}]
  /\ caller \in [Caller -> {"idle", "waiting", "flushing", "done"}]
  /\ seen \in [Caller -> SUBSET Entry]
  /\ run \in {"loop", "done"}
  /\ down \in {"up", "stopping", "drain", "final", "discard", "ended", "abandoned"}
  /\ retry \in BOOLEAN
  /\ gapPending \in Nat /\ dropped \in Nat /\ reported \in Nat
  /\ marker \in [id : Nat, count : Nat]
  /\ stored \subseteq Entry /\ discarded \subseteq Entry
  /\ markers \subseteq Nat
  /\ \A b \in limbo : b \in [entries : SUBSET Entry, marker : [id : Nat, count : Nat]]
  /\ errors \in 0..MaxErrors

\* An entry that entered the queue is in the queue, in the batch under way, in
\* the retained batch, in the table, or was discarded by Shutdown: no failed
\* write, retry or race with Shutdown makes it vanish.
NothingVanishes ==
  \A e \in Entry : call[e] \in {"queued", "ok", "late"} =>
    e \in queue \cup flush.batch \cup failed \cup stored \cup discarded

\* Refused and discarded entries are reported exactly once: what the stored
\* markers add up to and what is pending make up DroppedEvents.  A marker whose
\* write was ambiguous is pending and may already be stored.
GapsAccounted ==
  dropped = reported + gapPending - (IF marker.id \in markers THEN marker.count ELSE 0)

\* DroppedEvents counts the entries refused by admission and those discarded
\* after a failed final flush, and nothing else.
DroppedIsExact ==
  dropped = Cardinality({e \in Entry : call[e] = "dropped"}) + Cardinality(discarded)

\* A Flush that returned nil, and so a ListOperationLogs or a CheckReadiness,
\* has made every entry accepted before the call durable, also those retained
\* by somebody else's failed flush.
FlushIsDurable == \A c \in Caller : caller[c] = "done" => seen[c] \subseteq stored \cup discarded

\* When Shutdown has returned with its final flush, nothing is left behind.
ShutdownSettles == down = "ended" => queue = {} /\ failed = {} /\ flush.batch = {}

\* An accepted entry is eventually in the table or discarded by Shutdown, unless
\* Shutdown ran into its own deadline.
AcceptedSettles ==
  \A e \in Entry : call[e] = "ok" ~> e \in stored \cup discarded \/ down = "abandoned"

\* A gap is eventually reported without further traffic.
GapsReported == gapPending > 0 ~> gapPending = 0 \/ down # "up"

=============================================================================
