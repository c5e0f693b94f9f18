------------------------ MODULE RememberIdempotency ------------------------
(***************************************************************************)
(* Synchronous Remember under one idempotency key: the in-process map that *)
(* coalesces callers, the bounded admission to session advisory locks, the *)
(* PostgreSQL session lock polled across replicas, the owner's lookup /    *)
(* prepare / commit / record-failure sequence, and the transaction-level   *)
(* fence (pg_advisory_xact_lock) around every insert in remember_attempts. *)
(*                                                                         *)
(* One Call is one ProcessRemember invocation.  Its attempt row, if it     *)
(* ever writes one, has the invocation's ingest id as primary key, so the  *)
(* table is a function from calls to rows.  A Key stands for the triple    *)
(* (team, owner, idempotency_key); a Hash for the canonical request hash.  *)
(***************************************************************************)
EXTENDS Naturals, FiniteSets

CONSTANTS Proc,      \* server replicas
          Key,       \* idempotency keys
          Hash,      \* request hashes
          Call,      \* Remember invocations
          NoCall,    \* "no call": free lock, empty map slot
          Limit,     \* session-lock admission slots per process
          Faults     \* which environment faults the instance explores

ASSUME CallAssumption    == NoCall \notin Call /\ IsFiniteSet(Call)
ASSUME LimitAssumption   == Limit \in Nat
ASSUME FaultAssumption   == Faults \subseteq {"crash", "lose", "panic", "revoke", "detach"}

VARIABLES
  req,       \* the request each call carries: process, key and hash
  pc,        \* where each invocation is
  local,     \* rememberIdempotencyLocks of each process: key -> owning call
  entry,     \* the lock entry each call registered (survives its removal)
  waitsOn,   \* the call whose entry a local waiter waits for
  slots,     \* occupied admission slots of each process
  session,   \* holder of the PostgreSQL session advisory lock of each key
  lost,      \* calls whose lock connection died under them
  xact,      \* the transaction that holds each key's xact advisory lock
  clock,     \* database time, advanced by every transaction start
  began,     \* now() of the transaction each call has open
  failure,   \* retryability of the failure an owner is about to record
  attempt,   \* remember_attempts
  reply,     \* what ProcessRemember returned
  writable   \* keys whose owner still holds write authority over the space

vars == <<req, pc, local, entry, waitsOn, slots, session, lost, xact, clock,
          began, failure, attempt, reply, writable>>

Request == [proc : Proc, key : Key, hash : Hash]

\* Outcomes of an attempt row.  "retryable" and "final" are outcome='failed'
\* with the retryable column true or false; "retired" stands for historical
\* rejected or quarantined rows and for incompatible contract versions.
Outcomes == {"completed", "retryable", "final", "retired"}
NoRow    == [outcome |-> "none", created |-> 0]
Row      == [outcome : Outcomes, created : Nat]

NoTx     == [call |-> NoCall, outcome |-> "none", created |-> 0, attached |-> FALSE]
Tx       == [call : Call, outcome : {"completed", "retryable", "final"},
             created : Nat, attached : BOOLEAN]

(* Replies.  A caller that gets a lock error, a conflict or a failure is   *)
(* told the same: processing_state failed and every evidence not_stored;   *)
(* they differ in the error they name.                                     *)
LockErrors == {"busy", "cancelled", "unavailable"}
NoReply    == [kind |-> "none", of |-> NoCall]
Answer(kind, c) == [kind |-> kind, of |-> c]
Bare(kind)      == [kind |-> kind, of |-> NoCall]

(* rememberFailurePersistenceProcessError (failure_retention): failed, and *)
(* no row says so.                                                         *)
Unrecorded  == Bare("failed")
(* An answer that rests on a row. *)
Recorded(r) == r.kind \in {"completed", "failed"} /\ r # Unrecorded

P(c) == req[c].proc
K(c) == req[c].key
H(c) == req[c].hash

-----------------------------------------------------------------------------
(* Reading remember_attempts.                                              *)

Rows(k)     == {c \in Call : attempt[c].outcome # "none" /\ K(c) = k}

\* Variant: the terminal outcomes without 'completed'.
TerminalHistorical(k) == {c \in Rows(k) : attempt[c].outcome = "retired"}
\* Variant: the terminal outcomes without the historical ones.
TerminalCurrent(k) == {c \in Rows(k) : attempt[c].outcome = "completed"}
Terminal(k) == {c \in Rows(k) : attempt[c].outcome \in {"completed", "retired"}}
Failed(k)   == {c \in Rows(k) : attempt[c].outcome \in {"retryable", "final"}}

\* ORDER BY created_at DESC LIMIT 1 over the failed rows.
LatestFailed(k) ==
  {c \in Failed(k) : \A d \in Failed(k) : attempt[d].created <= attempt[c].created}

\* Variant: the outcome classes sorted the other way round.
LoadedFailedFirst(k) == IF Failed(k) # {} THEN LatestFailed(k) ELSE Terminal(k)
\* The row LoadRememberAttempt returns: terminal outcomes sort first.
Loaded(k) == IF Terminal(k) # {} THEN Terminal(k) ELSE LatestFailed(k)

\* Variant: the request hash is not compared.
AnyRequest(c, d) == TRUE
\* rememberAttemptMatchesRequest: the stored hash is the caller's.
SameRequest(c, d) == H(d) = H(c)

\* Variant: only non-retryable failures bind the key to their request.
HashMismatchFinal(c) ==
  \E d \in Failed(K(c)) : attempt[d].outcome = "final" /\ H(d) # H(c)
\* validateRememberFailureRetryInTx: any failed row with another hash.
HashMismatch(c) == \E d \in Failed(K(c)) : H(d) # H(c)

\* loadTerminalRememberAttemptInTx / loadRememberAttemptInTx: a terminal row
\* is a conflict for another request, or when it is historical ...
TerminalConflict(c) ==
  \E d \in Terminal(K(c)) : ~SameRequest(c, d) \/ attempt[d].outcome = "retired"
\* ... and otherwise the answer to replay.
TerminalReplay(c) == Terminal(K(c)) # {} /\ ~TerminalConflict(c)

\* Variant: ORDER BY created_at ASC.
FinallyFailedOldest(k) ==
  \E d \in Failed(k) : /\ attempt[d].outcome = "final"
                       /\ \E e \in Failed(k) : attempt[e].created > attempt[d].created
\* insertRememberAttemptInTx: the latest failed row forbids another attempt.
FinallyFailed(k) == \E d \in LatestFailed(k) : attempt[d].outcome = "final"

-----------------------------------------------------------------------------
(* Some calls were made by an older release and left a historical row. *)
Init ==
  /\ req \in [Call -> Request]
  /\ local = [p \in Proc |-> [k \in Key |-> NoCall]]
  /\ entry = [c \in Call |-> "none"]
  /\ waitsOn = [c \in Call |-> NoCall]
  /\ slots = [p \in Proc |-> 0]
  /\ session = [k \in Key |-> NoCall]
  /\ lost = {}
  /\ xact = [k \in Key |-> NoTx]
  /\ clock = 0
  /\ began = [c \in Call |-> 0]
  /\ failure = [c \in Call |-> "none"]
  /\ \E old \in SUBSET Call :
       /\ \A c, d \in old : K(c) = K(d) => c = d
       /\ pc = [c \in Call |-> IF c \in old THEN "done" ELSE "idle"]
       /\ attempt = [c \in Call |-> IF c \in old THEN [outcome |-> "retired", created |-> 0]
                                                 ELSE NoRow]
  /\ reply = [c \in Call |-> NoReply]
  /\ writable = Key

Goto(c, l) == pc' = [pc EXCEPT ![c] = l]
Reply(c, r) == reply' = [reply EXCEPT ![c] = r]

(* finish(err) of withRememberLock: publish the entry's result, forget it. *)
FinishEntry(c, result) ==
  /\ entry' = [entry EXCEPT ![c] = result]
  /\ local' = [local EXCEPT ![P(c)][K(c)] = NoCall]

-----------------------------------------------------------------------------
(* withRememberLock, before the callback.                                  *)

(* Register a new entry, or find another call's entry and wait for it. *)
Register(c) ==
  /\ pc[c] = "idle"
  /\ local[P(c)][K(c)] = NoCall
  /\ local' = [local EXCEPT ![P(c)][K(c)] = c]
  /\ entry' = [entry EXCEPT ![c] = "open"]
  /\ Goto(c, "admit")
  /\ UNCHANGED <<req, waitsOn, slots, session, lost, xact, clock, began,
                 failure, attempt, reply, writable>>

JoinWaiters(c) ==
  /\ pc[c] = "idle"
  /\ local[P(c)][K(c)] # NoCall
  /\ waitsOn' = [waitsOn EXCEPT ![c] = local[P(c)][K(c)]]
  /\ Goto(c, "wait")
  /\ UNCHANGED <<req, local, entry, slots, session, lost, xact, clock, began,
                 failure, attempt, reply, writable>>

(* The awaited entry is ready.  Its owner ran the callback: replay what it *)
(* left.  It never got that far: return the owner's error.                 *)
Wake(c) ==
  /\ pc[c] = "wait"
  /\ LET result == entry[waitsOn[c]]
     IN  \/ /\ result = "returned"
            /\ Goto(c, "replay")
            /\ UNCHANGED reply
         \/ /\ result \in LockErrors
            /\ Goto(c, "done")
            /\ Reply(c, Bare(result))
  /\ waitsOn' = [waitsOn EXCEPT ![c] = NoCall]
  /\ UNCHANGED <<req, local, entry, slots, session, lost, xact, clock, began,
                 failure, attempt, writable>>

CancelWait(c) ==
  /\ pc[c] = "wait"
  /\ Goto(c, "done")
  /\ Reply(c, Bare("cancelled"))
  /\ waitsOn' = [waitsOn EXCEPT ![c] = NoCall]
  /\ UNCHANGED <<req, local, entry, slots, session, lost, xact, clock, began,
                 failure, attempt, writable>>

(* lockadmission.Acquire: take a slot, or fail at once with ErrBusy. *)
Admit(c) ==
  /\ pc[c] = "admit"
  /\ \/ /\ slots[P(c)] < Limit
        /\ slots' = [slots EXCEPT ![P(c)] = @ + 1]
        /\ Goto(c, "poll")
        /\ UNCHANGED <<local, entry, reply>>
     \/ /\ slots[P(c)] >= Limit
        /\ FinishEntry(c, "busy")
        /\ Reply(c, Bare("busy"))
        /\ Goto(c, "done")
        /\ UNCHANGED slots
  /\ UNCHANGED <<req, waitsOn, session, lost, xact, clock, began, failure,
                 attempt, writable>>

(* The request's context ends before admission. *)
CancelAdmit(c) ==
  /\ pc[c] = "admit"
  /\ FinishEntry(c, "cancelled")
  /\ Reply(c, Bare("cancelled"))
  /\ Goto(c, "done")
  /\ UNCHANGED <<req, waitsOn, slots, session, lost, xact, clock, began,
                 failure, attempt, writable>>

(* acquireRememberSessionAdvisoryLock.  A call that got the lock at its    *)
(* first pg_try_advisory_lock executes; one that had to poll only releases *)
(* the lock again and replays.                                             *)
TryLock(c) ==
  /\ pc[c] \in {"poll", "repoll"}
  /\ \/ /\ session[K(c)] = NoCall
        /\ session' = [session EXCEPT ![K(c)] = c]
        /\ entry' = [entry EXCEPT ![c] = "started"]
        /\ Goto(c, IF pc[c] = "poll" THEN "lookup" ELSE "unlock")
     \/ /\ session[K(c)] # NoCall
        /\ pc[c] = "poll"
        /\ Goto(c, "repoll")
        /\ UNCHANGED <<session, entry>>
  /\ UNCHANGED <<req, local, waitsOn, slots, lost, xact, clock, began,
                 failure, attempt, reply, writable>>

(* Variant: the error path returns without releasing its admission slot. *)
PollErrorKeepsSlot(c) ==
  /\ pc[c] \in {"poll", "repoll"}
  /\ \E err \in {"cancelled", "unavailable"} :
       FinishEntry(c, err) /\ Reply(c, Bare(err))
  /\ Goto(c, "done")
  /\ UNCHANGED <<req, waitsOn, slots, session, lost, xact, clock, began,
                 failure, attempt, writable>>

(* No connection, a failed query, or the end of the context while polling. *)
PollError(c) ==
  /\ pc[c] \in {"poll", "repoll"}
  /\ \E err \in {"cancelled", "unavailable"} :
       FinishEntry(c, err) /\ Reply(c, Bare(err))
  /\ Goto(c, "drop")
  /\ UNCHANGED <<req, waitsOn, slots, session, lost, xact, clock, began,
                 failure, attempt, writable>>

-----------------------------------------------------------------------------
(* processRememberUnlocked, the callback of the lock's owner.              *)

(* LoadRememberAttempt and the decision on what it returned. *)
Lookup(c) ==
  /\ pc[c] = "lookup"
  /\ \/ /\ K(c) \notin writable
        /\ Reply(c, Bare("denied"))
        /\ Goto(c, "unlock")
     \/ /\ K(c) \in writable
        /\ Loaded(K(c)) = {}
        /\ Goto(c, "prepare")
        /\ UNCHANGED reply
     \/ /\ K(c) \in writable
        /\ \E d \in Loaded(K(c)) :
             \/ /\ ~SameRequest(c, d) \/ attempt[d].outcome = "retired"
                /\ Reply(c, Bare("conflict"))
                /\ Goto(c, "unlock")
             \/ /\ SameRequest(c, d) /\ attempt[d].outcome = "completed"
                /\ Reply(c, Answer("completed", d))
                /\ Goto(c, "unlock")
             \/ /\ SameRequest(c, d) /\ attempt[d].outcome = "final"
                /\ Reply(c, Answer("failed", d))
                /\ Goto(c, "unlock")
             \/ /\ SameRequest(c, d) /\ attempt[d].outcome = "retryable"
                /\ Goto(c, "prepare")
                /\ UNCHANGED reply
  /\ UNCHANGED <<req, local, entry, waitsOn, slots, session, lost, xact,
                 clock, began, failure, attempt, writable>>

(* fail(err, phase): the owner goes on to record a failure of that class. *)
Fail(c, class) ==
  /\ failure' = [failure EXCEPT ![c] = class]
  /\ Goto(c, "record")

(* The lookup query failed: a database, timeout or cancellation error, all *)
(* of them retryable.                                                      *)
LookupError(c) ==
  /\ pc[c] = "lookup"
  /\ Fail(c, "retryable")
  /\ UNCHANGED <<req, local, entry, waitsOn, slots, session, lost, xact,
                 clock, began, attempt, reply, writable>>

(* Security decision, assessment and embeddings: success, or a failure     *)
(* whose error code is retryable or not.                                   *)
Prepare(c) ==
  /\ pc[c] = "prepare"
  /\ \/ Goto(c, "commit") /\ UNCHANGED failure
     \/ \E class \in {"retryable", "final"} : Fail(c, class)
  /\ UNCHANGED <<req, local, entry, waitsOn, slots, session, lost, xact,
                 clock, began, attempt, reply, writable>>

(* A transaction starts; now() is fixed for all its rows. *)
StartTx(c) ==
  /\ clock' = clock + 1
  /\ began' = [began EXCEPT ![c] = clock + 1]

(* Variant: the commit transaction trusts the authorization of the lookup. *)
BeginCommitUnchecked(c) ==
  /\ pc[c] = "commit"
  /\ StartTx(c)
  /\ Goto(c, "fence")
  /\ UNCHANGED <<req, local, entry, waitsOn, slots, session, lost, xact,
                 failure, attempt, reply, writable>>

(* CommitRememberWithEmbeddings, up to AuthorizeMemoryMutationTx, which    *)
(* holds the space row FOR SHARE until the transaction ends.               *)
BeginCommit(c) ==
  /\ pc[c] = "commit"
  /\ \/ /\ K(c) \in writable
        /\ StartTx(c)
        /\ Goto(c, "fence")
        /\ UNCHANGED reply
     \/ /\ K(c) \notin writable
        /\ Reply(c, Bare("denied"))
        /\ Goto(c, "unlock")
        /\ UNCHANGED <<clock, began>>
  /\ UNCHANGED <<req, local, entry, waitsOn, slots, session, lost, xact,
                 failure, attempt, writable>>

Hold(c, outcome) ==
  xact' = [xact EXCEPT ![K(c)] =
             [call |-> c, outcome |-> outcome, created |-> began[c], attached |-> TRUE]]
Release(k) == xact' = [xact EXCEPT ![k] = NoTx]
Detach(k)  == xact' = [xact EXCEPT ![k].attached = FALSE]
EndTx(c)   == began' = [began EXCEPT ![c] = 0]

(* The idempotency fence of commitRememberInTx. *)
FenceCommit(c) ==
  /\ pc[c] = "fence"
  /\ xact[K(c)] = NoTx
  /\ \/ /\ HashMismatch(c) \/ TerminalConflict(c)
        /\ Reply(c, Bare("conflict"))
        /\ Goto(c, "unlock")
        /\ EndTx(c)
        /\ UNCHANGED xact
     \/ /\ ~HashMismatch(c) /\ TerminalReplay(c)
        /\ Goto(c, "ownreplay")
        /\ EndTx(c)
        /\ UNCHANGED <<xact, reply>>
     \/ /\ ~HashMismatch(c) /\ Terminal(K(c)) = {}
        /\ Hold(c, "completed")
        /\ Goto(c, "apply")
        /\ UNCHANGED <<reply, began>>
  /\ UNCHANGED <<req, local, entry, waitsOn, slots, session, lost, clock,
                 failure, attempt, writable>>

Insert(c, row) ==
  attempt' = [attempt EXCEPT ![c] = [outcome |-> row.outcome, created |-> row.created]]

(* The writes of commitRememberInTx, ending in insertRememberAttemptInTx   *)
(* and COMMIT.  A final failure found there rolls everything back.  The    *)
(* unique indexes behind the fence (ON CONFLICT on knowledge_ingests, the  *)
(* canonical key of remember_attempts) are left out: they can only refuse  *)
(* what the fence already refuses, and the properties hold without them.   *)
ApplyCommit(c) ==
  /\ pc[c] = "apply"
  /\ Release(K(c))
  /\ EndTx(c)
  /\ \/ /\ FinallyFailed(K(c))
        /\ Goto(c, "ownreplay")
        /\ UNCHANGED <<attempt, reply>>
     \/ /\ ~FinallyFailed(K(c))
        /\ Insert(c, xact[K(c)])
        /\ Reply(c, Answer("completed", c))
        /\ Goto(c, "unlock")
  /\ UNCHANGED <<req, local, entry, waitsOn, slots, session, lost, clock,
                 failure, writable>>

(* The commit transaction fails at any stage and rolls back. *)
CommitError(c) ==
  /\ pc[c] \in {"commit", "fence", "apply"}
  /\ \E class \in {"retryable", "final"} : Fail(c, class)
  /\ EndTx(c)
  /\ IF pc[c] = "apply" THEN Release(K(c)) ELSE UNCHANGED xact
  /\ UNCHANGED <<req, local, entry, waitsOn, slots, session, lost, clock,
                 attempt, reply, writable>>

(* COMMIT was sent, the answer never arrived: the owner sees an error, the *)
(* transaction lives on in the server and keeps the fence.                 *)
DetachCommit(c) ==
  /\ "detach" \in Faults
  /\ pc[c] = "apply"
  /\ ~FinallyFailed(K(c))
  /\ Detach(K(c))
  /\ Fail(c, "retryable")
  /\ EndTx(c)
  /\ UNCHANGED <<req, local, entry, waitsOn, slots, session, lost, clock,
                 attempt, reply, writable>>

(* RecordRememberFailure on a context that outlives the request's. *)
BeginRecord(c) ==
  /\ pc[c] = "record"
  /\ StartTx(c)
  /\ Goto(c, "recfence")
  /\ UNCHANGED <<req, local, entry, waitsOn, slots, session, lost, xact,
                 failure, attempt, reply, writable>>

(* insertRememberAttemptInTx for a failed attempt: fence and checks. *)
FenceRecord(c) ==
  /\ pc[c] = "recfence"
  /\ xact[K(c)] = NoTx
  /\ \/ /\ HashMismatch(c)
        /\ Reply(c, Bare("conflict"))
        /\ Goto(c, "unlock")
        /\ EndTx(c)
        /\ UNCHANGED xact
     \/ /\ ~HashMismatch(c) /\ FinallyFailed(K(c))
        /\ Goto(c, "ownreplay")
        /\ EndTx(c)
        /\ UNCHANGED <<xact, reply>>
     \/ /\ ~HashMismatch(c) /\ ~FinallyFailed(K(c)) /\ TerminalConflict(c)
        /\ Reply(c, Bare("conflict"))
        /\ Goto(c, "unlock")
        /\ EndTx(c)
        /\ UNCHANGED xact
     \/ /\ ~HashMismatch(c) /\ ~FinallyFailed(K(c)) /\ TerminalReplay(c)
        /\ Goto(c, "ownreplay")
        /\ EndTx(c)
        /\ UNCHANGED <<xact, reply>>
     \/ /\ ~HashMismatch(c) /\ ~FinallyFailed(K(c)) /\ Terminal(K(c)) = {}
        /\ Hold(c, failure[c])
        /\ Goto(c, "insert")
        /\ UNCHANGED <<reply, began>>
  /\ UNCHANGED <<req, local, entry, waitsOn, slots, session, lost, clock,
                 failure, attempt, writable>>

InsertFailure(c) ==
  /\ pc[c] = "insert"
  /\ Insert(c, xact[K(c)])
  /\ Release(K(c))
  /\ EndTx(c)
  /\ Reply(c, Answer("failed", c))
  /\ Goto(c, "unlock")
  /\ UNCHANGED <<req, local, entry, waitsOn, slots, session, lost, clock,
                 failure, writable>>

(* Variant: the failure is reported as recorded although it is not. *)
RecordErrorIgnored(c) ==
  /\ pc[c] \in {"record", "recfence", "insert"}
  /\ IF pc[c] = "insert" THEN Release(K(c)) ELSE UNCHANGED xact
  /\ EndTx(c)
  /\ Reply(c, Answer("failed", c))
  /\ Goto(c, "unlock")
  /\ UNCHANGED <<req, local, entry, waitsOn, slots, session, lost, clock,
                 failure, attempt, writable>>

(* The record transaction fails: the caller is told of a failure that is   *)
(* not in the ledger.  After DetachCommit the Remember may be stored by    *)
(* then, or be stored later.                                               *)
RecordError(c) ==
  /\ pc[c] \in {"record", "recfence", "insert"}
  /\ IF pc[c] = "insert" THEN Release(K(c)) ELSE UNCHANGED xact
  /\ EndTx(c)
  /\ Reply(c, Unrecorded)
  /\ Goto(c, "unlock")
  /\ UNCHANGED <<req, local, entry, waitsOn, slots, session, lost, clock,
                 failure, attempt, writable>>

(* COMMIT of the failure was sent and its answer lost: told the same. *)
DetachRecord(c) ==
  /\ "detach" \in Faults
  /\ pc[c] = "insert"
  /\ Detach(K(c))
  /\ EndTx(c)
  /\ Reply(c, Unrecorded)
  /\ Goto(c, "unlock")
  /\ UNCHANGED <<req, local, entry, waitsOn, slots, session, lost, clock,
                 failure, attempt, writable>>

(* The server finishes a transaction nobody waits for any more. *)
LandDetached(k) ==
  /\ xact[k] # NoTx /\ ~xact[k].attached
  /\ \/ Insert(xact[k].call, xact[k])
     \/ UNCHANGED attempt
  /\ Release(k)
  /\ UNCHANGED <<req, pc, local, entry, waitsOn, slots, session, lost, clock,
                 began, failure, reply, writable>>

-----------------------------------------------------------------------------
(* loadRememberReplay / rememberAttemptReplay: answer with the durable     *)
(* row.  Without access to it, or without a row, the answer is a failure   *)
(* (rememberReplayLoadFailure); an owner on its way to record one returns  *)
(* the error of the read itself.                                           *)
ReplayAnswer(c) ==
  \/ /\ K(c) \notin writable \/ Loaded(K(c)) = {}
     /\ Reply(c, Unrecorded)
  \/ /\ K(c) \in writable
     /\ \E d \in Loaded(K(c)) :
          \/ /\ ~SameRequest(c, d) \/ attempt[d].outcome = "retired"
             /\ Reply(c, Bare("conflict"))
          \/ /\ SameRequest(c, d) /\ attempt[d].outcome = "completed"
             /\ Reply(c, Answer("completed", d))
          \/ /\ SameRequest(c, d) /\ attempt[d].outcome \in {"retryable", "final"}
             /\ Reply(c, Answer("failed", d))

(* A waiter replays after everything was released, an owner that lost the  *)
(* race for the row replays inside its callback.                           *)
Replay(c) ==
  /\ \/ pc[c] = "replay" /\ Goto(c, "done")
     \/ pc[c] = "ownreplay" /\ Goto(c, "unlock")
  /\ ReplayAnswer(c)
  /\ UNCHANGED <<req, local, entry, waitsOn, slots, session, lost, xact,
                 clock, began, failure, attempt, writable>>

(* The row cannot be read: a failure too, although the row may be one that *)
(* was stored.                                                             *)
ReplayError(c) ==
  /\ \/ pc[c] = "replay" /\ Goto(c, "done")
     \/ pc[c] = "ownreplay" /\ Goto(c, "unlock")
  /\ Reply(c, Unrecorded)
  /\ UNCHANGED <<req, local, entry, waitsOn, slots, session, lost, xact,
                 clock, began, failure, attempt, writable>>

-----------------------------------------------------------------------------
(* withRememberLock, after the callback.                                   *)

(* Variant: the connection goes back to the pool still holding its lock. *)
KeepSession(c) == UNCHANGED session

(* pg_advisory_unlock, or discarding a connection that is gone. *)
FreeSession(c) ==
  session' = IF session[K(c)] = c THEN [session EXCEPT ![K(c)] = NoCall] ELSE session

Unlock(c) ==
  /\ pc[c] = "unlock"
  /\ FreeSession(c)
  /\ Goto(c, "finish")
  /\ UNCHANGED <<req, local, entry, waitsOn, slots, lost, xact, clock, began,
                 failure, attempt, reply, writable>>

Finish(c) ==
  /\ pc[c] = "finish"
  /\ FinishEntry(c, "returned")
  /\ Goto(c, "drop")
  /\ UNCHANGED <<req, waitsOn, slots, session, lost, xact, clock, began,
                 failure, attempt, reply, writable>>

ReleaseAdmission(c) == slots' = [slots EXCEPT ![P(c)] = @ - 1]

(* The deferred releaseAdmission.  A call that had waited for the session  *)
(* lock has no answer yet and replays now.                                 *)
Drop(c) ==
  /\ pc[c] = "drop"
  /\ ReleaseAdmission(c)
  /\ Goto(c, IF reply[c] = NoReply THEN "replay" ELSE "done")
  /\ UNCHANGED <<req, local, entry, waitsOn, session, lost, xact, clock,
                 began, failure, attempt, reply, writable>>

-----------------------------------------------------------------------------
(* Faults.                                                                 *)

Callback == {"lookup", "prepare", "commit", "fence", "apply", "record",
             "recfence", "insert", "ownreplay"}

(* A panic in the callback: open transactions roll back, the connection is *)
(* discarded, the entry is finished, the panic goes on to the caller.      *)
Panic(c) ==
  /\ "panic" \in Faults
  /\ pc[c] \in Callback
  /\ FreeSession(c)
  /\ EndTx(c)
  /\ IF pc[c] \in {"apply", "insert"} THEN Release(K(c)) ELSE UNCHANGED xact
  /\ Reply(c, Bare("panic"))
  /\ Goto(c, "finish")
  /\ UNCHANGED <<req, local, entry, waitsOn, slots, lost, clock, failure,
                 attempt, writable>>

(* The backend of a lock connection dies; its owner does not notice until  *)
(* it unlocks.                                                             *)
LoseSession(k) ==
  /\ "lose" \in Faults
  /\ session[k] # NoCall
  /\ lost' = lost \cup {session[k]}
  /\ session' = [session EXCEPT ![k] = NoCall]
  /\ UNCHANGED <<req, pc, local, entry, waitsOn, slots, xact, clock, began,
                 failure, attempt, reply, writable>>

(* A replica dies and restarts: its memory and its connections are gone.   *)
(* A transaction whose COMMIT was already on its way may still be executed. *)
Crash(p) ==
  LET dead    == {c \in Call : P(c) = p /\ pc[c] \notin {"idle", "done"}}
      open    == {k \in Key : xact[k].attached /\ xact[k].call \in dead}
      sending == {k \in open : pc[xact[k].call] = "insert" \/ ~FinallyFailed(k)}
  IN  /\ "crash" \in Faults
      /\ dead # {}
      /\ pc' = [c \in Call |-> IF c \in dead THEN "done" ELSE pc[c]]
      /\ reply' = [c \in Call |-> IF c \in dead THEN Bare("crashed") ELSE reply[c]]
      /\ began' = [c \in Call |-> IF c \in dead THEN 0 ELSE began[c]]
      /\ local' = [local EXCEPT ![p] = [k \in Key |-> NoCall]]
      /\ slots' = [slots EXCEPT ![p] = 0]
      /\ session' = [k \in Key |-> IF session[k] \in dead THEN NoCall ELSE session[k]]
      /\ \E sent \in SUBSET sending :
           xact' = [k \in Key |-> IF k \notin open THEN xact[k]
                                  ELSE IF k \in sent THEN [xact[k] EXCEPT !.attached = FALSE]
                                  ELSE NoTx]
      /\ UNCHANGED <<req, entry, waitsOn, lost, clock, failure, attempt, writable>>

(* The owner's write authority ends (credential, membership or grant       *)
(* revoked, space sealed or its generation advanced).  It waits for        *)
(* commit transactions, which hold those rows FOR SHARE.                   *)
Revoke(k) ==
  /\ "revoke" \in Faults
  /\ k \in writable
  /\ \A c \in Call : K(c) = k => pc[c] \notin {"fence", "apply"}
  /\ ~(xact[k].outcome = "completed")
  /\ writable' = writable \ {k}
  /\ UNCHANGED <<req, pc, local, entry, waitsOn, slots, session, lost, xact,
                 clock, began, failure, attempt, reply>>

-----------------------------------------------------------------------------
Progress(c) ==
  \/ Register(c) \/ JoinWaiters(c) \/ Wake(c) \/ Admit(c) \/ TryLock(c)
  \/ Lookup(c) \/ Prepare(c) \/ BeginCommit(c) \/ FenceCommit(c) \/ ApplyCommit(c)
  \/ BeginRecord(c) \/ FenceRecord(c) \/ InsertFailure(c)
  \/ Replay(c) \/ Unlock(c) \/ Finish(c) \/ Drop(c)

Trouble(c) ==
  \/ CancelWait(c) \/ CancelAdmit(c) \/ PollError(c) \/ LookupError(c)
  \/ CommitError(c) \/ DetachCommit(c) \/ RecordError(c) \/ DetachRecord(c)
  \/ ReplayError(c) \/ Panic(c)

Next ==
  \/ \E c \in Call : Progress(c) \/ Trouble(c)
  \/ \E k \in Key : LandDetached(k) \/ LoseSession(k) \/ Revoke(k)
  \/ \E p \in Proc : Crash(p)
  \/ (\A c \in Call : pc[c] = "done") /\ UNCHANGED vars

Spec == Init /\ [][Next]_vars

Fairness ==
  /\ \A c \in Call : WF_vars(Progress(c))
  /\ \A k \in Key : WF_vars(LandDetached(k))

FairSpec == Spec /\ Fairness

-----------------------------------------------------------------------------
(* Correctness.                                                            *)

HasEntry == {"admit", "poll", "repoll", "unlock", "finish"} \cup Callback
HasSlot  == {"poll", "repoll", "unlock", "finish", "drop"} \cup Callback
Pcs      == {"idle", "wait", "replay", "drop", "done"} \cup HasEntry

Replies  == [kind : {"none", "completed", "failed", "conflict", "denied",
                     "panic", "crashed"} \cup LockErrors,
             of : Call \cup {NoCall}]
EntryStates == {"none", "open", "started", "returned"} \cup LockErrors

\* Every variable has its type.
TypeOK ==
  /\ req \in [Call -> Request]
  /\ pc \in [Call -> Pcs]
  /\ local \in [Proc -> [Key -> Call \cup {NoCall}]]
  /\ entry \in [Call -> EntryStates]
  /\ waitsOn \in [Call -> Call \cup {NoCall}]
  /\ slots \in [Proc -> Nat]
  /\ session \in [Key -> Call \cup {NoCall}]
  /\ lost \subseteq Call
  /\ xact \in [Key -> Tx \cup {NoTx}]
  /\ clock \in Nat
  /\ began \in [Call -> Nat]
  /\ failure \in [Call -> {"none", "retryable", "final"}]
  /\ attempt \in [Call -> Row \cup {NoRow}]
  /\ reply \in [Call -> Replies]
  /\ writable \subseteq Key

\* An idempotency key never has two terminal rows: whatever replicas crash,
\* lock connections die or COMMITs land late, one key stores one Remember.
OneTerminalRow ==
  \A c, d \in Call :
    /\ K(c) = K(d)
    /\ {attempt[c].outcome, attempt[d].outcome} \subseteq {"completed", "retired"}
    => c = d

\* All rows of a key, failed or terminal, carry one request hash: the first
\* durable row binds the key to its request (ErrIdempotencyConflict).
OneRequestPerKey ==
  \A k \in Key : \A c, d \in Rows(k) : H(c) = H(d)

\* A non-retryable failure is the last word on its key, as long as no lock
\* connection died under its owner: the failed row is found by created_at,
\* which is transaction start, and only the session lock orders the starts.
FinalFailureStands ==
  lost = {} => \A k \in Key :
    (\E c \in Rows(k) : attempt[c].outcome = "final") => Terminal(k) = {}

\* What a caller is told about a stored or failed Remember is in the ledger,
\* under the caller's own key and request hash, unless it is the failure that
\* could not be recorded or read.
AnswersAreDurable ==
  \A c \in Call : Recorded(reply[c]) =>
    LET d == reply[c].of
    IN  /\ d \in Rows(K(c))
        /\ H(d) = H(c)
        /\ attempt[d].outcome \in (IF reply[c].kind = "completed"
                                   THEN {"completed"} ELSE {"retryable", "final"})

\* Historical rows "must never be replayed or used to authorize a retry": a
\* key with one gets no further row and no answer that rests on a row.
HistoryStaysClosed ==
  \A r \in {r \in Call : attempt[r].outcome = "retired"} :
    /\ \A c \in Call : K(c) = K(r) /\ attempt[c] # NoRow => c = r
    /\ \A c \in Call : K(c) = K(r) => ~Recorded(reply[c])

\* Every lock, fence, map entry and admission slot belongs to an invocation
\* still on its way to giving it back.
NothingLeaks ==
  /\ \A k \in Key : session[k] # NoCall =>
       K(session[k]) = k /\ pc[session[k]] \in Callback \cup {"unlock"}
  /\ \A p \in Proc, k \in Key : local[p][k] # NoCall =>
       /\ P(local[p][k]) = p /\ K(local[p][k]) = k
       /\ pc[local[p][k]] \in HasEntry
  /\ \A k \in Key : xact[k].attached =>
       pc[xact[k].call] = (IF xact[k].outcome = "completed" THEN "apply" ELSE "insert")
  /\ \A p \in Proc : slots[p] = Cardinality({c \in Call : P(c) = p /\ pc[c] \in HasSlot})

\* remember_attempts is append-only: also an owner whose COMMIT landed after
\* it saw an error does not write over its own row.
AttemptsAppendOnly ==
  [][\A c \in Call : attempt[c] # NoRow => attempt'[c] = attempt[c]]_vars

\* No Remember is stored for an owner without write authority at that moment,
\* also when its COMMIT lands late.
StoredWithAuthority ==
  [][\A c \in Call : attempt'[c].outcome = "completed" /\ attempt[c] = NoRow
                     => K(c) \in writable /\ K(c) \in writable']_vars

\* The ledger never denies what it has stored: once a Remember is stored, no
\* caller with its key and request is answered with a recorded failure or
\* refused for an idempotency conflict, whichever executor wrote which row
\* and whenever its COMMIT landed.  A caller that the ledger does not answer
\* (RecordError after a lost COMMIT, ReplayError, no lock) is told that
\* nothing was stored, true or not, and learns the outcome when it asks again.
LedgerNeverDenies ==
  [][\A c \in Call :
       /\ reply[c] = NoReply
       /\ reply'[c] = Bare("conflict") \/ (Recorded(reply'[c]) /\ reply'[c].kind = "failed")
       => ~\E d \in Rows(K(c)) : attempt[d].outcome = "completed" /\ H(d) = H(c)]_vars

\* Every submitted Remember returns: no waiter, poller or fence waits forever.
EveryCallReturns ==
  \A c \in Call : pc[c] # "idle" ~> pc[c] = "done"

-----------------------------------------------------------------------------
(* The promise of RememberOnce, implemented.                               *)
Once == INSTANCE RememberOnce WITH
  decided <- [k \in Key |-> IF Terminal(k) = {} THEN NoCall
                            ELSE CHOOSE c \in Terminal(k) : TRUE],
  told    <- [c \in Call |-> IF pc[c] = "done" /\ reply[c].kind = "completed"
                             THEN reply[c].of ELSE NoCall]

\* Every replica, retry and replay of a key answers with the one Remember
\* that the key stored.
ImplementsOnce == Once!Spec

=============================================================================
