----------------------------- MODULE SessionIngest -----------------------------
(***************************************************************************)
(* Ingesting the events of one session.  Under the lock of the session a   *)
(* request is staged under its key together with the events that are new,  *)
(* its windows are extracted by a provider, in parallel and with a         *)
(* checkpoint after each, the entities of all windows are linked (one more *)
(* checkpoint), the result is assessed and committed in one transaction.   *)
(* A failure is recorded with its class: a retry of the request resumes    *)
(* from the checkpoints, or is given the failure again when it is final.   *)
(* The lock is held by a connection to the database: when that is lost the *)
(* request goes on without it.                                             *)
(***************************************************************************)
EXTENDS Naturals

CONSTANTS
  Caller,      \* requests at work, each at a replica of its own
  Request, Key, Event, Window,
  KeyOf,       \* the idempotency key of each request
  Text,        \* for each request the text of each of its events
  Core,        \* for each request and window the events of its core
  Answer,      \* what the extraction of a window may return
  Facts,       \* the answers with relationships
  Signals,     \* the answers with a security signal
  Linking,     \* what the linking may return
  NoAnswer, NoCaller, NoKey, NoRequest,
  MaxFaults    \* bound of errors, crashes and lost locks

ASSUME RequestAssumption ==
  /\ KeyOf \in [Request -> Key]
  /\ \A r \in Request : DOMAIN Text[r] \subseteq Event
  /\ Core \in [Request -> [Window -> SUBSET Event]]
  /\ NoRequest \notin Request /\ NoKey \notin Key /\ NoCaller \notin Caller
ASSUME AnswerAssumption ==
  Facts \subseteq Answer /\ Signals \subseteq Answer /\ NoAnswer \notin Answer \cup Linking
ASSUME BoundAssumption == MaxFaults \in Nat

VARIABLES
  sub,      \* session_submissions: request, new events and the last result by key
  owner,    \* the submission each session event belongs to
  done,     \* the session events with a result
  ckpt,     \* session_extraction_checkpoints by key and window
  linked,   \* the checkpoint of the linking by key
  applied,  \* what was committed to the knowledge ledger by key
  lock,     \* who holds the advisory lock of the session
  caller,   \* what each caller is doing
  rejected, \* history: keys whose client was told of a security rejection
  lost,     \* history: a lock was lost
  faults

vars == <<sub, owner, done, ckpt, linked, applied, lock, caller, rejected, lost, faults>>
store == <<sub, owner, done, ckpt, linked, applied>>

NoSub == [req |-> NoRequest, new |-> {}, state |-> "none"]
Idle == [pc |-> "idle"]
Nothing == [w \in Window |-> NoAnswer]
Failure == {"retry", "final", "security"}

Init ==
  /\ sub = [k \in Key |-> NoSub]
  /\ owner = [e \in Event |-> NoKey] /\ done = {}
  /\ ckpt = [k \in Key |-> Nothing] /\ linked = [k \in Key |-> NoAnswer]
  /\ applied = [k \in Key |-> [answers |-> Nothing, link |-> NoAnswer]]
  /\ lock = NoCaller
  /\ caller = [c \in Caller |-> Idle]
  /\ rejected = {} /\ lost = FALSE
  /\ faults = 0

Put(c, r) == caller' = [caller EXCEPT ![c] = r]
Fault == faults < MaxFaults /\ faults' = faults + 1
K(c) == KeyOf[caller[c].req]

(* The end of Ingest: the lock is released if it is still held. *)
Return(c, outcome) ==
  /\ Put(c, Idle)
  /\ lock' = IF lock = c THEN NoCaller ELSE lock
  /\ rejected' = IF outcome = "security" THEN rejected \cup {K(c)} ELSE rejected

-----------------------------------------------------------------------------
(* WithSessionLock *)
Begin(c, r) ==
  /\ caller[c].pc = "idle" /\ lock = NoCaller
  /\ lock' = c
  /\ Put(c, [pc |-> "open", req |-> r])
  /\ UNCHANGED <<store, rejected, lost, faults>>

\* Variant: whatever failed is not tried again.
ReplayedAny(k) == sub[k].state # "open"
(* A completed or finally failed submission is answered from the record. *)
Replayed(k) == sub[k].state \in {"completed", "final", "security"}

(* filterSessionWindows *)
Filtered(r, new) == {w \in Window : Core[r][w] \cap new # {}}
Windows(k) == Filtered(sub[k].req, sub[k].new)

(* What was extracted so far for the key is loaded, windows are left. *)
Load(c, k, windows) ==
  Put(c, [pc |-> "extract", req |-> caller[c].req, got |-> ckpt[k], link |-> linked[k],
          left |-> {w \in windows : ckpt[k][w] = NoAnswer}, err |-> "none"])

(* LookupSession, or StageSession, finds the submission of the key. *)
OpenExisting(c) ==
  LET k == K(c) IN
  /\ caller[c].pc = "open" /\ sub[k] # NoSub
  /\ \/ sub[k].req # caller[c].req /\ Return(c, "conflict")
     \/ sub[k].req = caller[c].req /\ Replayed(k) /\ Return(c, sub[k].state)
     \/ /\ sub[k].req = caller[c].req /\ ~Replayed(k)
        /\ Load(c, k, Windows(k)) /\ UNCHANGED <<lock, rejected>>
  /\ UNCHANGED <<store, lost, faults>>

Events(r) == DOMAIN Text[r]
NewEvents(r) == {e \in Events(r) : owner[e] = NoKey}
Stored(e) == Text[sub[owner[e]].req][e]

(* No ErrEventConflict and no ErrOriginalRequestRequired *)
Admissible(r) ==
  \A e \in Events(r) \ NewEvents(r) : Stored(e) = Text[r][e] /\ e \in done

(* StageSession of a new key: the submission and its new events at once. *)
Stage(c) ==
  LET r == caller[c].req k == K(c) IN
  /\ caller[c].pc = "open" /\ sub[k] = NoSub
  /\ IF Admissible(r)
     THEN /\ sub' = [sub EXCEPT ![k] = [req |-> r, new |-> NewEvents(r), state |-> "open"]]
          /\ owner' = [e \in Event |-> IF e \in NewEvents(r) THEN k ELSE owner[e]]
          /\ Load(c, k, Filtered(r, NewEvents(r))) /\ UNCHANGED <<lock, rejected>>
     ELSE Return(c, "refused") /\ UNCHANGED <<sub, owner>>
  /\ UNCHANGED <<done, ckpt, linked, applied, lost, faults>>

-----------------------------------------------------------------------------
(* The first error stays. *)
Failing(c, class) == [caller[c] EXCEPT !.err = IF @ = "none" THEN class ELSE @]

Unfinished(k) == sub[k].state # "completed"

\* Variant: an answer is used whatever the checkpoint says.
SavedAny(k, saved, a) == TRUE
(* saveSessionCheckpoint succeeds: inserted, or the same as what is there. *)
Saved(k, saved, a) == saved = a \/ (saved = NoAnswer /\ Unfinished(k))

\* Variant: a security signal is noticed before the checkpoint is saved.
CheckpointUnsignalled(saved, a) == IF saved = NoAnswer /\ a \notin Signals THEN a ELSE saved
(* ON CONFLICT DO NOTHING *)
Checkpoint(saved, a) == IF saved = NoAnswer THEN a ELSE saved

(* extractWindow without a loaded checkpoint; other windows may be on      *)
(* their way when one has failed already.                                  *)
Extract(c, w, a) ==
  LET k == K(c) IN
  /\ caller[c].pc = "extract" /\ w \in caller[c].left
  /\ IF Saved(k, ckpt[k][w], a)
     THEN /\ ckpt' = [ckpt EXCEPT ![k][w] = Checkpoint(@, a)]
          /\ Put(c, [caller[c] EXCEPT !.got[w] = a, !.left = @ \ {w}])
     ELSE Put(c, [Failing(c, "retry") EXCEPT !.left = @ \ {w}]) /\ UNCHANGED ckpt
  /\ UNCHANGED <<sub, owner, done, linked, applied, lock, rejected, lost, faults>>

(* The answer of a window, new or loaded, has a security signal. *)
Signal(c) ==
  /\ caller[c].pc = "extract" /\ caller[c].err = "none"
  /\ \E w \in Window : caller[c].got[w] \in Signals
  /\ Put(c, Failing(c, "security"))
  /\ UNCHANGED <<store, lock, rejected, lost, faults>>

(* extractWindows is through with every window. *)
Extracted(c) ==
  /\ caller[c].pc = "extract" /\ caller[c].err = "none"
  /\ caller[c].left = {} /\ \A w \in Window : caller[c].got[w] \notin Signals

HasFacts(c) == \E w \in Window : caller[c].got[w] \in Facts

(* linkEntities *)
Link(c, a) ==
  LET k == K(c) IN
  /\ Extracted(c) /\ HasFacts(c) /\ caller[c].link = NoAnswer
  /\ IF Saved(k, linked[k], a)
     THEN linked' = [linked EXCEPT ![k] = Checkpoint(@, a)] /\ Put(c, [caller[c] EXCEPT !.link = a])
     ELSE Put(c, Failing(c, "retry")) /\ UNCHANGED linked
  /\ UNCHANGED <<sub, owner, done, ckpt, applied, lock, rejected, lost, faults>>

(* PrepareSession, when there is a relationship to assess. *)
Prepare(c) ==
  /\ Extracted(c) /\ (HasFacts(c) => caller[c].link # NoAnswer)
  /\ Put(c, [caller[c] EXCEPT !.pc = "commit"])
  /\ UNCHANGED <<store, lock, rejected, lost, faults>>

(* CommitSession, which insists on complete checkpoints; its answer may be *)
(* lost.                                                                   *)
Commit(c) ==
  LET k == K(c) IN
  /\ caller[c].pc = "commit" /\ caller[c].err = "none"
  /\ IF Unfinished(k)
     THEN /\ \A w \in Windows(k) : ckpt[k][w] # NoAnswer
          /\ HasFacts(c) => linked[k] # NoAnswer
          /\ applied' = [applied EXCEPT ![k] = [answers |-> caller[c].got, link |-> caller[c].link]]
          /\ done' = done \cup sub[k].new
          /\ sub' = [sub EXCEPT ![k].state = "completed"]
     ELSE UNCHANGED <<applied, done, sub>>
  /\ \/ Return(c, "completed") /\ UNCHANGED faults
     \/ Put(c, Failing(c, "retry")) /\ Fault /\ UNCHANGED <<lock, rejected>>
  /\ UNCHANGED <<owner, ckpt, linked, lost>>

(* insertSessionReceipt of a failure *)
Recordable(k) == Unfinished(k)

(* fail: RecordSessionFailure and the end of the request *)
Fail(c) ==
  LET k == K(c) IN
  /\ caller[c].pc \in {"extract", "commit"} /\ caller[c].err # "none"
  /\ sub' = IF Recordable(k) THEN [sub EXCEPT ![k].state = caller[c].err] ELSE sub
  /\ Return(c, caller[c].err)
  /\ UNCHANGED <<owner, done, ckpt, linked, applied, lost, faults>>

-----------------------------------------------------------------------------
(* A provider, a transaction or a deadline fails, with or without the      *)
(* effect of the step before; an error of the context comes before any     *)
(* other.                                                                  *)
Error(c, class) ==
  /\ caller[c].pc \in {"extract", "commit"} /\ class \in {"retry", "final"}
  /\ \/ caller[c].err = "none"
     \/ class = "retry"
  /\ caller[c].err # class
  /\ Fault
  /\ Put(c, [caller[c] EXCEPT !.err = class])
  /\ UNCHANGED <<store, lock, rejected, lost>>

(* The failure cannot be recorded. *)
FailUnrecorded(c) ==
  /\ caller[c].pc \in {"extract", "commit"} /\ caller[c].err # "none"
  /\ Fault
  /\ Return(c, caller[c].err)
  /\ UNCHANGED <<store, lost>>

(* The process ends, and its connections with it; or the request fails     *)
(* before it has a submission to record that in.                           *)
Crash(c) ==
  /\ caller[c].pc # "idle"
  /\ Fault
  /\ Put(c, Idle) /\ lock' = IF lock = c THEN NoCaller ELSE lock
  /\ UNCHANGED <<store, rejected, lost>>

(* The connection that holds the lock is lost. *)
LoseLock(c) ==
  /\ lock = c
  /\ Fault
  /\ lock' = NoCaller /\ lost' = TRUE
  /\ UNCHANGED <<store, caller, rejected>>

-----------------------------------------------------------------------------
Step(c) ==
  \/ OpenExisting(c) \/ Stage(c)
  \/ \E w \in Window, a \in Answer : Extract(c, w, a)
  \/ Signal(c) \/ \E a \in Linking : Link(c, a)
  \/ Prepare(c) \/ Commit(c) \/ Fail(c)

Next ==
  \E c \in Caller :
    \/ \E r \in Request : Begin(c, r)
    \/ Step(c)
    \/ \E class \in Failure : Error(c, class)
    \/ FailUnrecorded(c) \/ Crash(c) \/ LoseLock(c)

Spec == Init /\ [][Next]_vars

(* A caller goes on, and clients resend a request until it is answered.    *)
Fairness ==
  /\ \A c \in Caller : WF_vars(Step(c))
  /\ \A r \in Request : SF_vars(\E c \in Caller : Begin(c, r))

FairSpec == Spec /\ Fairness

-----------------------------------------------------------------------------
Answers == [Window -> Answer \cup {NoAnswer}]
State == {"none", "open", "completed"} \cup Failure

\* Every variable has its type.
TypeOK ==
  /\ sub \in [Key -> [req : Request \cup {NoRequest}, new : SUBSET Event, state : State]]
  /\ owner \in [Event -> Key \cup {NoKey}] /\ done \subseteq Event
  /\ ckpt \in [Key -> Answers] /\ linked \in [Key -> Linking \cup {NoAnswer}]
  /\ applied \in [Key -> [answers : Answers, link : Linking \cup {NoAnswer}]]
  /\ lock \in Caller \cup {NoCaller}
  /\ caller \in [Caller -> {Idle} \cup [pc : {"open"}, req : Request]
                   \cup [pc : {"extract", "commit"}, req : Request, got : Answers,
                         link : Linking \cup {NoAnswer}, left : SUBSET Window, err : Failure \cup {"none"}]]
  /\ rejected \subseteq Key /\ lost \in BOOLEAN /\ faults \in 0..MaxFaults

(* What is committed is what was checkpointed, window by window and with   *)
(* its linking, whichever attempts extracted the windows and however many  *)
(* were at work.                                                           *)
CommittedIsCheckpointed ==
  \A k \in Key : sub[k].state = "completed" =>
    applied[k] = [answers |-> ckpt[k], link |-> linked[k]]

(* Extracted text that raised a security signal never reaches the ledger:  *)
(* no attempt completes a request that was rejected for it, whether or not *)
(* the rejection was recorded.                                             *)
RejectedIsNeverApplied ==
  \A k \in Key : k \in rejected => sub[k].state # "completed"

(* An event has a result exactly when the submission it belongs to is      *)
(* completed, also after a commit whose answer was lost.                   *)
CompletedIsWhole ==
  \A e \in Event : e \in done <=> owner[e] # NoKey /\ sub[owner[e]].state = "completed"

(* A different key cannot claim an unfinished event: what a submission     *)
(* takes for a duplicate has its result.                                   *)
DuplicatesAreFinished ==
  \A k \in Key : sub[k] # NoSub => Events(sub[k].req) \ sub[k].new \subseteq done

(* As long as no lock was lost a final failure is never overturned: the    *)
(* client that was told to give up is not contradicted by a later retry.   *)
FinalFailureStands ==
  [][\A k \in Key : sub[k].state = "final" /\ ~lost' => sub'[k].state = "final"]_vars

(* A staged request that its client resends comes to an end. *)
SubmissionsSettle ==
  \A k \in Key : sub[k].state = "open" ~> sub[k].state \in {"completed", "final", "security"}
=============================================================================
