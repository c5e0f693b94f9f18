---------------------------- MODULE PrivateMemory ----------------------------
(***************************************************************************)
(* Erasure of private memory: requests and retention runs seal a space and *)
(* queue an operation, workers on several replicas claim operations under  *)
(* a lease, erase the space and reopen or retire it, legal holds forbid    *)
(* it, and writers of the space race with all of them.                     *)
(*                                                                         *)
(* Every action is one transaction.  Those that touch a space take its row *)
(* FOR UPDATE first and the operation's row next, so each is atomic from   *)
(* its last lock on; what a worker read before is checked again under the  *)
(* locks.  The clock that orders completed_at is taken to be monotonic.    *)
(* A space is its own lineage: copies made by the ownership migration are  *)
(* left out.                                                               *)
(***************************************************************************)
EXTENDS Naturals, FiniteSets

CONSTANTS Space,        \* private memory spaces
          Op,           \* identities for erasure operations
          Worker,       \* worker ids (host and pid: kept by a restart)
          Writer,       \* requests that write to a space
          Key,          \* idempotency scopes
          NoKey,        \* the scope of an operation queued by a retention run
          NoWorker,     \* worker_id = ''
          MaxAttempts,  \* MaximumAttempts
          BatchSize     \* spaces a retention run may queue

ASSUME NoneAssumption == NoKey \notin Key /\ NoWorker \notin Worker
ASSUME SizeAssumption == MaxAttempts \in Nat \ {0} /\ BatchSize \in Nat
ASSUME OpAssumption   == Op \cap {"free", "run"} = {}

VARIABLES
  space,     \* memory_spaces: lifecycle_state and generation
  content,   \* the generations under which rows of each space were written
  age,       \* private_content_at: none, fresh, or old (before the cutoff)
  held,      \* spaces with an active legal hold
  retiring,  \* spaces whose credential was disabled in order to retire them
  op,        \* private_memory_erasure_operations
  idem,      \* idempotency scopes: free, or what they were used for
  clock,     \* stamps completed_at of failed operations
  claim,     \* the claim each worker believes it holds
  write      \* the authorisation each writer carries

vars == <<space, content, age, held, retiring, op, idem, clock, claim, write>>

NoClaim == [phase |-> "none", fence |-> 0]
NoWrite == [phase |-> "none"]
NoOp    == [status |-> "none", completed |-> 0]

Live == {"queued", "processing"}

(* Content older than the column private_content_at may have no age yet. *)
Init ==
  /\ space = [s \in Space |-> [state |-> "active", gen |-> 1]]
  /\ content \in [Space -> {{}, {1}}]
  /\ age = [s \in Space |-> "none"]
  /\ held = {} /\ retiring = {}
  /\ op = [o \in Op |-> NoOp]
  /\ idem = [k \in Key |-> "free"]
  /\ clock = 0
  /\ claim = [w \in Worker |-> NoClaim]
  /\ write = [x \in Writer |-> NoWrite]

-----------------------------------------------------------------------------
(* queuePrivateMemorySpaceTx                                               *)

LiveOps(s) == {o \in Op : op[o].status \in Live /\ op[o].space = s}

\* Variant: the generation of the space is the one the operation was to erase.
FailedOfGeneration(s) == {o \in Op : /\ op[o].status = "failed" /\ op[o].space = s
                                    /\ op[o].target = space[s].gen}
Failed(s) == {o \in Op : /\ op[o].status = "failed" /\ op[o].space = s
                         /\ op[o].target + 1 = space[s].gen}

\* failedPrivateMemoryOperationForRecoveryTx: the last one of the generation.
LastFailed(s) == {o \in Failed(s) : \A p \in Failed(s) : op[p].completed <= op[o].completed}

Queued(s, k, target, cred, retire) ==
  [status |-> "queued", space |-> s, key |-> k, target |-> target, cred |-> cred,
   retire |-> retire, attempts |-> 0, fence |-> 0, worker |-> NoWorker,
   expired |-> FALSE, wait |-> FALSE, completed |-> 0]

Sealed(s) == [state |-> "sealed", gen |-> space[s].gen + 1]

(* An active space is sealed; its next generation keeps late writers out. *)
Seal(o, s, k, cred, retire) ==
  /\ space[s].state = "active"
  /\ space' = [space EXCEPT ![s] = Sealed(s)]
  /\ op' = [op EXCEPT ![o] = Queued(s, k, space[s].gen, cred, retire)]

(* Variant: the new request decides whether the space is retired. *)
RecoverAsRequested(o, s, k, cred, retire) ==
  /\ space[s].state = "sealed"
  /\ \E f \in LastFailed(s) : op' = [op EXCEPT ![o] = Queued(s, k, op[f].target, cred, retire)]
  /\ UNCHANGED space

(* A sealed space whose last operation failed: the new operation takes over *)
(* its target, and a retirement is never weakened.                          *)
Recover(o, s, k, cred, retire) ==
  /\ space[s].state = "sealed"
  /\ \E f \in LastFailed(s) :
       op' = [op EXCEPT ![o] =
         Queued(s, k, op[f].target,
                IF retire /\ ~op[f].retire THEN cred ELSE op[f].cred,
                retire \/ op[f].retire)]
  /\ UNCHANGED space

NothingLive(s) == LiveOps(s) = {}

Enqueue(s, k, cred, retire) ==
  /\ NothingLive(s)
  /\ \E o \in Op :
       /\ op[o] = NoOp
       /\ Seal(o, s, k, cred, retire) \/ Recover(o, s, k, cred, retire)
       /\ idem' = [idem EXCEPT ![k] = o]

(* A retirement takes over the active erase of its credential's space,     *)
(* which keeps its target and its fence.                                   *)
Supersede(s, k) ==
  \E o \in LiveOps(s) :
    /\ op[o].cred
    /\ op' = [op EXCEPT ![o].retire = TRUE]
    /\ idem' = [idem EXCEPT ![k] = o]
    /\ UNCHANGED space

\* Variant: an erasure is queued however often it is requested.
FreshAlways(k) == TRUE
\* existingPrivateMemoryOperationTx under the lock of the scope: a used scope
\* is replayed or refused.
Fresh(k) == idem[k] = "free"

(* RequestProfileErasure and RequestControlErasure name no credential,     *)
(* RequestCredentialErasure is made with the space's active credential.    *)
Request(s, k, cred) ==
  /\ Fresh(k)
  /\ cred => s \notin retiring
  /\ s \notin held
  /\ Enqueue(s, k, cred, FALSE)
  /\ UNCHANGED <<content, age, held, retiring, clock, claim, write>>

(* DisableSSOCredential and RetireCredential: the credential is disabled   *)
(* in the transaction that queues the retirement, also while held.         *)
Retire(s, k) ==
  /\ Fresh(k)
  /\ s \notin retiring
  /\ Enqueue(s, k, TRUE, TRUE) \/ Supersede(s, k)
  /\ retiring' = retiring \cup {s}
  /\ UNCHANGED <<content, age, held, clock, claim, write>>

-----------------------------------------------------------------------------
(* RunRetention                                                            *)

Unaged == {s \in Space : age[s] = "none" /\ content[s] # {}}

\* Active, past the cutoff, not held, and nothing under way.
Due(ages) ==
  {s \in Space : /\ space[s].state = "active" /\ ages[s] = "old"
                 /\ s \notin held /\ LiveOps(s) = {}}

(* backfillPrivateContentAgeTx, then the spaces due, up to the batch and   *)
(* but for those locked by others, are sealed and queued, all in one       *)
(* transaction.                                                            *)
RunRetention(k) ==
  /\ Fresh(k)
  /\ \E batch \in SUBSET Unaged, filled \in [Space -> {"fresh", "old"}] :
       LET ages == [s \in Space |-> IF s \in batch THEN filled[s] ELSE age[s]]
       IN  \E due \in SUBSET Due(ages), id \in [Space -> Op] :
             /\ Cardinality(batch) <= BatchSize /\ Cardinality(due) <= BatchSize
             /\ \A s \in due : op[id[s]] = NoOp
             /\ \A s, t \in due : id[s] = id[t] => s = t
             /\ age' = ages
             /\ space' = [s \in Space |-> IF s \in due THEN Sealed(s) ELSE space[s]]
             /\ op' = [o \in Op |-> IF \E s \in due : id[s] = o
                         THEN LET s == CHOOSE t \in due : id[t] = o
                              IN  Queued(s, NoKey, space[s].gen, FALSE, FALSE)
                         ELSE op[o]]
  /\ idem' = [idem EXCEPT ![k] = "run"]
  /\ UNCHANGED <<content, held, retiring, clock, claim, write>>

(* Time passes the retention cutoff of a space. *)
Age(s) ==
  /\ age[s] = "fresh"
  /\ age' = [age EXCEPT ![s] = "old"]
  /\ UNCHANGED <<space, content, held, retiring, op, idem, clock, claim, write>>

-----------------------------------------------------------------------------
(* Legal holds                                                             *)

PlaceLegalHold(s) ==
  /\ s \notin held
  /\ held' = held \cup {s}
  /\ UNCHANGED <<space, content, age, retiring, op, idem, clock, claim, write>>

ReleaseLegalHold(s) ==
  /\ s \in held
  /\ held' = held \ {s}
  /\ UNCHANGED <<space, content, age, retiring, op, idem, clock, claim, write>>

-----------------------------------------------------------------------------
(* Writers                                                                 *)

(* A request is authenticated and carries the space's generation. *)
BeginWrite(x, s) ==
  /\ write[x] = NoWrite
  /\ space[s].state = "active"
  /\ write' = [write EXCEPT ![x] = [phase |-> "open", space |-> s, gen |-> space[s].gen]]
  /\ UNCHANGED <<space, content, age, held, retiring, op, idem, clock, claim>>

\* Variant: any active space will do.
CurrentAnyGeneration(x) == space[write[x].space].state = "active"
\* authorizeMemoryMutationTx, with the space locked against a seal.
Current(x) == space[write[x].space] = [state |-> "active", gen |-> write[x].gen]

(* The write's transaction commits, or is denied. *)
CommitWrite(x) ==
  /\ write[x] # NoWrite
  /\ LET s == write[x].space
     IN  \/ /\ Current(x)
            /\ content' = [content EXCEPT ![s] = @ \cup {write[x].gen}]
            /\ age' = [age EXCEPT ![s] = "fresh"]
         \/ /\ ~Current(x)
            /\ UNCHANGED <<content, age>>
  /\ write' = [write EXCEPT ![x] = NoWrite]
  /\ UNCHANGED <<space, held, retiring, op, idem, clock, claim>>

-----------------------------------------------------------------------------
(* The worker: processOne                                                  *)

\* Variant: an expired operation without attempts left is nobody's.
ExhaustedNone == {}
Exhausted == {o \in Op : /\ op[o].status = "processing" /\ op[o].expired
                         /\ op[o].attempts >= MaxAttempts}

Candidates ==
  {o \in Op : /\ \/ op[o].status = "queued" /\ ~op[o].wait
                 \/ op[o].status = "processing" /\ op[o].expired
              /\ op[o].attempts < MaxAttempts
              /\ op[o].space \notin held}

FailedOp(o) == [op[o] EXCEPT !.status = "failed", !.worker = NoWorker,
                             !.expired = FALSE, !.completed = clock + 1]
ClaimedOp(o, w) == [op[o] EXCEPT !.status = "processing", !.attempts = @ + 1, !.fence = @ + 1,
                                 !.worker = w, !.expired = FALSE]

(* ClaimNext is one statement: expired operations without attempts left    *)
(* fail, and some candidate that nobody has locked is claimed.             *)
ClaimNext(w) ==
  /\ claim[w] = NoClaim
  /\ Exhausted \cup Candidates # {}
  /\ \E taken \in IF Candidates = {} THEN {{}} ELSE {{o} : o \in Candidates} :
       /\ op' = [o \in Op |-> IF o \in taken THEN ClaimedOp(o, w)
                              ELSE IF o \in Exhausted THEN FailedOp(o) ELSE op[o]]
       /\ claim' = [claim EXCEPT ![w] =
            IF taken = {} THEN NoClaim
            ELSE LET o == CHOOSE o \in taken : TRUE
                 IN  [phase |-> "execute", op |-> o, fence |-> op[o].fence + 1]]
  /\ clock' = clock + (IF Exhausted = {} THEN 0 ELSE 1)
  /\ UNCHANGED <<space, content, age, held, retiring, idem, write>>

\* Variant: the status is enough.
ClaimHeldByAnyone(w) == op[claim[w].op].status = "processing"
\* The claim is still the worker's: status, worker_id and fence.
ClaimHeld(w) ==
  LET o == op[claim[w].op]
  IN  o.status = "processing" /\ o.worker = w /\ o.fence = claim[w].fence

\* The space is still the one that the operation sealed, and a retirement
\* still has its disabled credential.
Targeted(o) ==
  /\ space[op[o].space] = [state |-> "sealed", gen |-> op[o].target + 1]
  /\ op[o].retire => op[o].space \in retiring

Forget(w) == claim' = [claim EXCEPT ![w] = NoClaim]
Releasing(w) == claim' = [claim EXCEPT ![w].phase = "release"]

\* Variant: the hold was checked by the claim.
ErasableUnchecked(w) == ClaimHeld(w) /\ Targeted(claim[w].op)
\* What ExecuteClaim requires under the locks of space and operation.
Erasable(w) ==
  /\ ClaimHeld(w) /\ Targeted(claim[w].op)
  /\ op[claim[w].op].space \notin held

(* All rows of the space are deleted, the space is reopened or retired and *)
(* the operation completed, in one transaction.                            *)
Erase(o) ==
  LET s == op[o].space
  IN  /\ content' = [content EXCEPT ![s] = {}]
      /\ age' = [age EXCEPT ![s] = "none"]
      /\ space' = [space EXCEPT ![s].state = IF op[o].retire THEN "retired" ELSE "active"]
      /\ op' = [op EXCEPT ![o].status = "completed", ![o].worker = NoWorker,
                          ![o].expired = FALSE]

(* The transaction commits; its answer arrives, or is lost and the worker  *)
(* takes the claim for one to be released.                                 *)
ExecuteClaim(w) ==
  /\ claim[w].phase = "execute"
  /\ Erasable(w)
  /\ Erase(claim[w].op)
  /\ Forget(w) \/ Releasing(w)
  /\ UNCHANGED <<held, retiring, idem, clock, write>>

(* ErrPrivateMemoryClaimLost: somebody else has the operation now. *)
LoseClaim(w) ==
  /\ claim[w].phase = "execute"
  /\ ~(ClaimHeld(w) /\ Targeted(claim[w].op))
  /\ Forget(w)
  /\ UNCHANGED <<space, content, age, held, retiring, op, idem, clock, write>>

(* A hold, a manifest mismatch or a failed statement: nothing is erased.   *)
FailClaim(w) ==
  /\ claim[w].phase = "execute"
  /\ Releasing(w)
  /\ UNCHANGED <<space, content, age, held, retiring, op, idem, clock, write>>

(* ReleaseClaim with DecideRetry: the operation fails after its last       *)
(* attempt and is queued with a backoff before.                            *)
ReleaseClaim(w) ==
  /\ claim[w].phase = "release"
  /\ LET o == claim[w].op
     IN  \/ /\ ClaimHeld(w) /\ op[o].attempts >= MaxAttempts
            /\ op' = [op EXCEPT ![o] = FailedOp(o)]
            /\ clock' = clock + 1
         \/ /\ ClaimHeld(w) /\ op[o].attempts < MaxAttempts
            /\ op' = [op EXCEPT ![o] = [@ EXCEPT !.status = "queued", !.worker = NoWorker,
                                                 !.expired = FALSE, !.wait = TRUE]]
            /\ UNCHANGED clock
         \/ ~ClaimHeld(w) /\ UNCHANGED <<op, clock>>
  /\ Forget(w)
  /\ UNCHANGED <<space, content, age, held, retiring, idem, write>>

(* The worker dies or is shut down, or its release fails. *)
Abandon(w) ==
  /\ claim[w] # NoClaim
  /\ Forget(w)
  /\ UNCHANGED <<space, content, age, held, retiring, op, idem, clock, write>>

(* lease_until and next_attempt_at pass. *)
LeaseExpires(o) ==
  /\ op[o].status = "processing" /\ ~op[o].expired
  /\ op' = [op EXCEPT ![o].expired = TRUE]
  /\ UNCHANGED <<space, content, age, held, retiring, idem, clock, claim, write>>

BackoffEnds(o) ==
  /\ op[o].status = "queued" /\ op[o].wait
  /\ op' = [op EXCEPT ![o].wait = FALSE]
  /\ UNCHANGED <<space, content, age, held, retiring, idem, clock, claim, write>>

-----------------------------------------------------------------------------
Step(w) == ClaimNext(w) \/ ExecuteClaim(w) \/ LoseClaim(w) \/ FailClaim(w) \/ ReleaseClaim(w)

Next ==
  \/ \E s \in Space, k \in Key :
       (\E cred \in BOOLEAN : Request(s, k, cred)) \/ Retire(s, k)
  \/ \E k \in Key : RunRetention(k)
  \/ \E s \in Space : Age(s) \/ PlaceLegalHold(s) \/ ReleaseLegalHold(s)
  \/ \E x \in Writer : CommitWrite(x) \/ \E s \in Space : BeginWrite(x, s)
  \/ \E w \in Worker : Step(w) \/ Abandon(w)
  \/ \E o \in Op : LeaseExpires(o) \/ BackoffEnds(o)

Spec == Init /\ [][Next]_vars

(* Each worker polls forever; leases and backoffs pass. *)
Fairness ==
  /\ \A w \in Worker : WF_vars(Step(w))
  /\ \A o \in Op : WF_vars(LeaseExpires(o)) /\ WF_vars(BackoffEnds(o))

FairSpec == Spec /\ Fairness

-----------------------------------------------------------------------------
OpRow == [status : {"queued", "processing", "completed", "failed"}, space : Space,
          key : Key \cup {NoKey}, target : Nat, cred : BOOLEAN, retire : BOOLEAN,
          attempts : 0..MaxAttempts, fence : Nat, worker : Worker \cup {NoWorker},
          expired : BOOLEAN, wait : BOOLEAN, completed : Nat]

\* Every variable has its type.
TypeOK ==
  /\ space \in [Space -> [state : {"active", "sealed", "retired"}, gen : Nat \ {0}]]
  /\ content \in [Space -> SUBSET Nat]
  /\ age \in [Space -> {"none", "fresh", "old"}]
  /\ held \subseteq Space /\ retiring \subseteq Space
  /\ op \in [Op -> OpRow \cup {NoOp}]
  /\ idem \in [Key -> Op \cup {"free", "run"}]
  /\ clock \in Nat
  /\ claim \in [Worker -> {NoClaim} \cup [phase : {"execute", "release"}, op : Op, fence : Nat]]
  /\ write \in [Writer -> {NoWrite} \cup [phase : {"open"}, space : Space, gen : Nat]]

\* A space has at most one operation under way, which targets the generation
\* it sealed; and a sealed space is never stuck: an operation is under way, or
\* a failed one is there for a new request to recover.
SealedIsRecoverable ==
  \A s \in Space :
    /\ \A o, p \in LiveOps(s) : o = p
    /\ \A o \in LiveOps(s) : Targeted(o)
    /\ space[s].state = "sealed" => LiveOps(s) \cup LastFailed(s) # {}

\* "so revocation cannot be rolled back": once a credential was disabled to
\* retire its space, no failed, superseded or recovered operation reopens it.
RetirementSticks ==
  \A s \in retiring : space[s].state # "active"

\* Nothing written before an erasure was requested is found in the space after
\* it: an open space holds rows of its own generation, a retired one none.
NoStaleContent ==
  \A s \in Space :
    /\ space[s].state = "active" => content[s] \subseteq {space[s].gen}
    /\ space[s].state = "retired" => content[s] = {}

\* A retried request never starts a second erasure.
OneOperationPerRequest ==
  \A o, p \in Op :
    op[o] # NoOp /\ op[p] # NoOp /\ op[o].key = op[p].key /\ op[o].key # NoKey => o = p

\* No step deletes content of a space under legal hold, also when the hold was
\* placed after the erasure was requested or claimed.
HeldContentKept ==
  [][\A s \in held : content[s] \subseteq content'[s]]_vars

\* While its lease runs, an operation is settled or requeued only by the worker
\* that holds the current fence: the late steps of others have no effect.
ClaimIsExclusive ==
  [][\A o \in Op :
       op[o].status = "processing" /\ ~op[o].expired /\ op'[o].status # "processing"
       => \E w \in Worker : /\ claim[w] # NoClaim /\ claim[w].op = o
                            /\ claim[w].fence = op[o].fence /\ claim'[w] # claim[w]]_vars

\* Every operation under way is completed or fails in the end, unless its space
\* is put under a hold: dead workers and lost answers use up its attempts.
ErasureSettles ==
  \A o \in Op, s \in Space :
    o \in LiveOps(s) ~> op[o].status \in {"completed", "failed"} \/ s \in held

=============================================================================
