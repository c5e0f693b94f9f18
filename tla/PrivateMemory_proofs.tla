------------------------ MODULE PrivateMemory_proofs ------------------------
(***************************************************************************)
(* Proofs about private memory erasure, for any number of spaces,          *)
(* operations, workers and writers.                                        *)
(***************************************************************************)
EXTENDS PrivateMemory, TLAPS

-----------------------------------------------------------------------------
(* Type correctness                                                        *)

\* A row that is not the missing one is a full row, whatever tells it apart.
LEMMA RowType ==
  ASSUME TypeOK, NEW o \in Op
  PROVE  /\ op[o] # NoOp => op[o] \in OpRow
         /\ op[o].status # "none" => op[o] \in OpRow
         /\ op[o] \in OpRow <=> op[o].status # "none"
         /\ op[o] = NoOp => op[o].status = "none" /\ op[o].completed = 0
         /\ op[o].completed \in Nat
<1>1. op[o] \in OpRow \cup {NoOp}
  BY DEF TypeOK
<1>2. CASE op[o] \in OpRow
  BY <1>2 DEF OpRow, NoOp
<1>3. CASE op[o] = NoOp
  BY <1>3 DEF OpRow, NoOp
<1> QED
  BY <1>1, <1>2, <1>3

\* What queuePrivateMemorySpaceTx inserts is a row.
LEMMA QueuedType ==
  ASSUME NEW s \in Space, NEW k \in Key \cup {NoKey}, NEW t \in Nat,
         NEW c \in BOOLEAN, NEW r \in BOOLEAN
  PROVE  Queued(s, k, t, c, r) \in OpRow
BY SizeAssumption DEF Queued, OpRow

\* A claim is missing, or names an operation.
LEMMA ClaimType ==
  ASSUME TypeOK, NEW w \in Worker, claim[w].phase # "none"
  PROVE  /\ claim[w] \in [phase : {"execute", "release"}, op : Op, fence : Nat]
         /\ claim[w].op \in Op
BY DEF TypeOK, NoClaim

\* A space and its generation.
LEMMA SpaceType ==
  ASSUME TypeOK, NEW s \in Space
  PROVE  /\ space[s] \in [state : {"active", "sealed", "retired"}, gen : Nat \ {0}]
         /\ space[s].gen \in Nat /\ space[s].gen > 0
         /\ space[s].state \in {"active", "sealed", "retired"}
BY DEF TypeOK

\* Sealing and recovering write rows, spaces and scopes of the right type.
LEMMA EnqueueType ==
  ASSUME TypeOK, NEW s \in Space, NEW k \in Key, NEW c \in BOOLEAN, NEW r \in BOOLEAN,
         Enqueue(s, k, c, r)
  PROVE  /\ space' \in [Space -> [state : {"active", "sealed", "retired"}, gen : Nat \ {0}]]
         /\ op' \in [Op -> OpRow \cup {NoOp}]
         /\ idem' \in [Key -> Op \cup {"free", "run"}]
<1>1. PICK o \in Op : /\ op[o] = NoOp
                      /\ Seal(o, s, k, c, r) \/ Recover(o, s, k, c, r)
                      /\ idem' = [idem EXCEPT ![k] = o]
  BY DEF Enqueue
<1>2. idem' \in [Key -> Op \cup {"free", "run"}]
  BY <1>1 DEF TypeOK
<1>3. CASE Seal(o, s, k, c, r)
  <2>1. Queued(s, k, space[s].gen, c, r) \in OpRow
    BY SpaceType, QueuedType
  <2>2. op' \in [Op -> OpRow \cup {NoOp}]
    BY <1>3, <2>1 DEF Seal, TypeOK
  <2>3. Sealed(s) \in [state : {"active", "sealed", "retired"}, gen : Nat \ {0}]
    BY SpaceType DEF Sealed
  <2>4. space' \in [Space -> [state : {"active", "sealed", "retired"}, gen : Nat \ {0}]]
    BY <1>3, <2>3 DEF Seal, TypeOK
  <2> QED
    BY <1>2, <2>2, <2>4
<1>4. CASE Recover(o, s, k, c, r)
  <2>1. PICK f \in LastFailed(s) :
          op' = [op EXCEPT ![o] = Queued(s, k, op[f].target,
                                         IF r /\ ~op[f].retire THEN c ELSE op[f].cred,
                                         r \/ op[f].retire)]
    BY <1>4 DEF Recover
  <2>2. f \in Op /\ op[f].status = "failed"
    BY DEF LastFailed, Failed
  <2>3. op[f].target \in Nat /\ op[f].cred \in BOOLEAN /\ op[f].retire \in BOOLEAN
    BY <2>2, RowType DEF OpRow
  <2>4. Queued(s, k, op[f].target, IF r /\ ~op[f].retire THEN c ELSE op[f].cred,
               r \/ op[f].retire) \in OpRow
    BY <2>3, QueuedType
  <2>5. op' \in [Op -> OpRow \cup {NoOp}]
    BY <2>1, <2>4 DEF TypeOK
  <2> QED
    BY <1>2, <1>4, <2>5 DEF Recover, TypeOK
<1> QED
  BY <1>1, <1>3, <1>4

\* A failed row is a row.
LEMMA FailedType ==
  ASSUME TypeOK, NEW o \in Op, op[o] \in OpRow
  PROVE  FailedOp(o) \in OpRow
<1>1. clock + 1 \in Nat
  BY DEF TypeOK
<1> QED
  BY <1>1 DEF FailedOp, OpRow

\* The guard on attempt_count keeps it within MaximumAttempts.
LEMMA ClaimedType ==
  ASSUME TypeOK, NEW o \in Candidates, NEW w \in Worker
  PROVE  ClaimedOp(o, w) \in OpRow /\ op[o].fence + 1 \in Nat /\ op[o].status \in Live
<1>1. o \in Op /\ op[o].status \in Live /\ op[o].attempts < MaxAttempts
  BY DEF Candidates, Live
<1>2. op[o] \in OpRow
  BY <1>1, RowType DEF Live
<1>3. op[o].attempts + 1 \in 0..MaxAttempts /\ op[o].fence + 1 \in Nat
  BY <1>1, <1>2, SizeAssumption DEF OpRow
<1> QED
  BY <1>1, <1>2, <1>3 DEF ClaimedOp, OpRow

\* A request keeps the types.
LEMMA RequestType ==
  ASSUME TypeOK, NEW s \in Space, NEW k \in Key, NEW c \in BOOLEAN, Request(s, k, c)
  PROVE  TypeOK'
<1>1. Enqueue(s, k, c, FALSE)
  BY DEF Request
<1>2. /\ space' \in [Space -> [state : {"active", "sealed", "retired"}, gen : Nat \ {0}]]
      /\ op' \in [Op -> OpRow \cup {NoOp}]
      /\ idem' \in [Key -> Op \cup {"free", "run"}]
  BY <1>1, EnqueueType
<1> QED
  BY <1>2 DEF Request, TypeOK

\* So does a retirement, also over an operation under way.
LEMMA RetireType ==
  ASSUME TypeOK, NEW s \in Space, NEW k \in Key, Retire(s, k)
  PROVE  TypeOK'
<1>1. CASE Enqueue(s, k, TRUE, TRUE)
  BY <1>1, EnqueueType DEF Retire, TypeOK
<1>2. CASE Supersede(s, k)
  <2>1. PICK o \in LiveOps(s) : /\ op' = [op EXCEPT ![o].retire = TRUE]
                                /\ idem' = [idem EXCEPT ![k] = o]
                                /\ UNCHANGED space
    BY <1>2 DEF Supersede
  <2>2. o \in Op /\ op[o] \in OpRow
    BY RowType DEF LiveOps, Live
  <2>3. op' \in [Op -> OpRow \cup {NoOp}]
    BY <2>1, <2>2 DEF TypeOK, OpRow
  <2> QED
    BY <2>1, <2>2, <2>3 DEF Retire, TypeOK
<1> QED
  BY <1>1, <1>2 DEF Retire

\* So does a retention run, for any number of spaces at once.
LEMMA RunRetentionType ==
  ASSUME TypeOK, NEW k \in Key, RunRetention(k)
  PROVE  TypeOK'
<1>1. PICK batch \in SUBSET Unaged, filled \in [Space -> {"fresh", "old"}] :
        LET ages == [s \in Space |-> IF s \in batch THEN filled[s] ELSE age[s]]
        IN  \E due \in SUBSET Due(ages), id \in [Space -> Op] :
             /\ Cardinality(batch) <= BatchSize /\ Cardinality(due) <= BatchSize
             /\ \A s \in due : op[id[s]] = NoOp
             /\ \A s, t \in due : id[s] = id[t] => s = t
             /\ age' = ages
             /\ space' = [s \in Space |-> IF s \in due THEN Sealed(s) ELSE space[s]]
             /\ op' = [o \in Op |-> IF \E s \in due : id[s] = o
                         THEN LET s == CHOOSE t \in due : id[t] = o
                              IN  Queued(s, NoKey, space[s].gen, FALSE, FALSE)
                         ELSE op[o]]
  BY DEF RunRetention
<1> DEFINE ages == [s \in Space |-> IF s \in batch THEN filled[s] ELSE age[s]]
<1>2. PICK due \in SUBSET Due(ages), id \in [Space -> Op] :
             /\ age' = ages
             /\ space' = [s \in Space |-> IF s \in due THEN Sealed(s) ELSE space[s]]
             /\ op' = [o \in Op |-> IF \E s \in due : id[s] = o
                         THEN LET s == CHOOSE t \in due : id[t] = o
                              IN  Queued(s, NoKey, space[s].gen, FALSE, FALSE)
                         ELSE op[o]]
  BY <1>1
<1>3. due \subseteq Space
  BY DEF Due
<1>4. ages \in [Space -> {"none", "fresh", "old"}]
  BY DEF TypeOK
<1>5. \A s \in Space : Sealed(s) \in [state : {"active", "sealed", "retired"}, gen : Nat \ {0}]
  BY SpaceType DEF Sealed
<1>6. space' \in [Space -> [state : {"active", "sealed", "retired"}, gen : Nat \ {0}]]
  BY <1>2, <1>5 DEF TypeOK
<1>7. ASSUME NEW o \in Op
      PROVE  op'[o] \in OpRow \cup {NoOp}
  <2>1. CASE \E s \in due : id[s] = o
    <3> DEFINE s == CHOOSE t \in due : id[t] = o
    <3>1. s \in Space
      BY <2>1, <1>3
    <3>2. Queued(s, NoKey, space[s].gen, FALSE, FALSE) \in OpRow
      BY <3>1, SpaceType, QueuedType
    <3>3. op'[o] = Queued(s, NoKey, space[s].gen, FALSE, FALSE)
      BY <2>1, <1>2
    <3> QED
      BY <3>2, <3>3
  <2>2. CASE ~\E s \in due : id[s] = o
    BY <2>2, <1>2 DEF TypeOK
  <2> QED
    BY <2>1, <2>2
<1>8. op' \in [Op -> OpRow \cup {NoOp}]
  <2>1. op' = [o \in Op |-> op'[o]]
    BY <1>2
  <2> QED
    BY <2>1, <1>7
<1> HIDE DEF ages
<1> QED
  BY <1>2, <1>4, <1>6, <1>8 DEF RunRetention, TypeOK

\* So does a writer that commits or is denied,
LEMMA CommitWriteType ==
  ASSUME TypeOK, NEW x \in Writer, CommitWrite(x)
  PROVE  TypeOK'
<1>1. write[x] \in [phase : {"open"}, space : Space, gen : Nat]
  BY DEF CommitWrite, TypeOK
<1>2. write[x].space \in Space /\ write[x].gen \in Nat
  BY <1>1
<1>3. write' \in [Writer -> {NoWrite} \cup [phase : {"open"}, space : Space, gen : Nat]]
  BY DEF CommitWrite, TypeOK
<1>4. content' \in [Space -> SUBSET Nat]
  <2>1. content[write[x].space] \cup {write[x].gen} \in SUBSET Nat
    BY <1>2 DEF TypeOK
  <2>2. content \in [Space -> SUBSET Nat]
    BY DEF TypeOK
  <2>3. \/ content' = [content EXCEPT ![write[x].space] = content[write[x].space] \cup {write[x].gen}]
        \/ content' = content
    BY DEF CommitWrite
  <2> QED
    BY <1>2, <2>1, <2>2, <2>3
<1>5. age' \in [Space -> {"none", "fresh", "old"}]
  BY <1>2 DEF CommitWrite, TypeOK
<1> QED
  BY <1>3, <1>4, <1>5 DEF CommitWrite, TypeOK

\* and one that is authorised.
LEMMA BeginWriteType ==
  ASSUME TypeOK, NEW x \in Writer, NEW s \in Space, BeginWrite(x, s)
  PROVE  TypeOK'
<1>1. [phase |-> "open", space |-> s, gen |-> space[s].gen]
        \in [phase : {"open"}, space : Space, gen : Nat]
  BY SpaceType
<1>2. write' \in [Writer -> {NoWrite} \cup [phase : {"open"}, space : Space, gen : Nat]]
  BY <1>1 DEF BeginWrite, TypeOK
<1> QED
  BY <1>2 DEF BeginWrite, TypeOK

\* What a claim becomes after a step of its worker.
LEMMA ClaimEndsType ==
  ASSUME TypeOK, NEW w \in Worker, Forget(w) \/ (claim[w].phase = "execute" /\ Releasing(w))
  PROVE  claim' \in [Worker -> {NoClaim} \cup [phase : {"execute", "release"}, op : Op, fence : Nat]]
<1>1. CASE Forget(w)
  BY <1>1 DEF Forget, TypeOK
<1>2. CASE claim[w].phase = "execute" /\ Releasing(w)
  <2>1. claim[w] \in [phase : {"execute", "release"}, op : Op, fence : Nat]
    BY <1>2, ClaimType
  <2>2. [claim[w] EXCEPT !.phase = "release"]
          \in [phase : {"execute", "release"}, op : Op, fence : Nat]
    BY <2>1
  <2> QED
    BY <1>2, <2>2 DEF Releasing, TypeOK
<1> QED
  BY <1>1, <1>2

\* Claiming counts an attempt below the limit, or fails the operation.
LEMMA ClaimNextType ==
  ASSUME TypeOK, NEW w \in Worker, ClaimNext(w)
  PROVE  TypeOK'
<1>1. PICK taken \in IF Candidates = {} THEN {{}} ELSE {{o} : o \in Candidates} :
       /\ op' = [o \in Op |-> IF o \in taken THEN ClaimedOp(o, w)
                              ELSE IF o \in Exhausted THEN FailedOp(o) ELSE op[o]]
       /\ claim' = [claim EXCEPT ![w] =
            IF taken = {} THEN NoClaim
            ELSE LET o == CHOOSE o \in taken : TRUE
                 IN  [phase |-> "execute", op |-> o, fence |-> op[o].fence + 1]]
  BY DEF ClaimNext
<1>2. taken \subseteq Candidates /\ taken \subseteq Op
  BY DEF Candidates
<1>3. ASSUME NEW o \in Op
      PROVE  op'[o] \in OpRow \cup {NoOp}
  <2>1. CASE o \in taken
    BY <2>1, <1>1, <1>2, ClaimedType
  <2>2. CASE o \notin taken /\ o \in Exhausted
    <3>1. op[o] \in OpRow
      BY <2>2, RowType DEF Exhausted
    <3> QED
      BY <2>2, <3>1, <1>1, FailedType
  <2>3. CASE o \notin taken /\ o \notin Exhausted
    BY <2>3, <1>1 DEF TypeOK
  <2> QED
    BY <2>1, <2>2, <2>3
<1>4. op' \in [Op -> OpRow \cup {NoOp}]
  <2>1. op' = [o \in Op |-> op'[o]]
    BY <1>1
  <2> QED
    BY <2>1, <1>3
<1>5. claim' \in [Worker -> {NoClaim} \cup [phase : {"execute", "release"}, op : Op, fence : Nat]]
  <2>1. CASE taken = {}
    BY <2>1, <1>1 DEF TypeOK
  <2>2. CASE taken # {}
    <3> DEFINE o == CHOOSE o \in taken : TRUE
    <3>1. o \in Candidates /\ o \in Op
      BY <2>2, <1>2
    <3>2. [phase |-> "execute", op |-> o, fence |-> op[o].fence + 1]
            \in [phase : {"execute", "release"}, op : Op, fence : Nat]
      BY <3>1, ClaimedType
    <3>3. claim' = [claim EXCEPT ![w] = [phase |-> "execute", op |-> o, fence |-> op[o].fence + 1]]
      BY <1>1, <2>2
    <3> QED
      BY <3>2, <3>3 DEF TypeOK
  <2> QED
    BY <2>1, <2>2
<1>6. clock' \in Nat
  BY DEF ClaimNext, TypeOK
<1> QED
  BY <1>4, <1>5, <1>6 DEF ClaimNext, TypeOK

\* The erasing transaction keeps the types.
LEMMA ExecuteClaimType ==
  ASSUME TypeOK, NEW w \in Worker, ExecuteClaim(w)
  PROVE  TypeOK'
<1> DEFINE o == claim[w].op
           s == op[o].space
<1>1. o \in Op /\ op[o].status = "processing"
  BY ClaimType DEF ExecuteClaim, Erasable, ClaimHeld
<1>2. op[o] \in OpRow /\ s \in Space
  BY <1>1, RowType DEF OpRow
<1>3. content' \in [Space -> SUBSET Nat] /\ age' \in [Space -> {"none", "fresh", "old"}]
  BY <1>2 DEF ExecuteClaim, Erase, TypeOK
<1>4. [space[s] EXCEPT !.state = IF op[o].retire THEN "retired" ELSE "active"]
        \in [state : {"active", "sealed", "retired"}, gen : Nat \ {0}]
  BY <1>2, SpaceType
<1>5. space' \in [Space -> [state : {"active", "sealed", "retired"}, gen : Nat \ {0}]]
  BY <1>4 DEF ExecuteClaim, Erase, TypeOK
<1>6. [op[o] EXCEPT !.status = "completed", !.worker = NoWorker, !.expired = FALSE] \in OpRow
  BY <1>2 DEF OpRow
<1>7. op' \in [Op -> OpRow \cup {NoOp}]
  BY <1>6 DEF ExecuteClaim, Erase, TypeOK
<1>8. claim' \in [Worker -> {NoClaim} \cup [phase : {"execute", "release"}, op : Op, fence : Nat]]
  BY ClaimEndsType DEF ExecuteClaim
<1> QED
  BY <1>3, <1>5, <1>7, <1>8 DEF ExecuteClaim, TypeOK

\* So does a release.
LEMMA ReleaseClaimType ==
  ASSUME TypeOK, NEW w \in Worker, ReleaseClaim(w)
  PROVE  TypeOK'
<1> DEFINE o == claim[w].op
<1>1. o \in Op
  BY ClaimType DEF ReleaseClaim
<1>2. ClaimHeld(w) => op[o] \in OpRow
  BY <1>1, RowType DEF ClaimHeld
<1>3. ASSUME ClaimHeld(w)
      PROVE  /\ FailedOp(o) \in OpRow
             /\ [op[o] EXCEPT !.status = "queued", !.worker = NoWorker,
                             !.expired = FALSE, !.wait = TRUE] \in OpRow
  <2>1. FailedOp(o) \in OpRow
    BY <1>1, <1>2, <1>3, FailedType
  <2> QED
    BY <1>2, <1>3, <2>1 DEF OpRow
<1>4. op' \in [Op -> OpRow \cup {NoOp}] /\ clock' \in Nat
  BY <1>3 DEF ReleaseClaim, TypeOK
<1>5. claim' \in [Worker -> {NoClaim} \cup [phase : {"execute", "release"}, op : Op, fence : Nat]]
  BY ClaimEndsType DEF ReleaseClaim
<1> QED
  BY <1>4, <1>5 DEF ReleaseClaim, TypeOK

\* So do the timers.
LEMMA TimerType ==
  ASSUME TypeOK, NEW o \in Op, LeaseExpires(o) \/ BackoffEnds(o)
  PROVE  TypeOK'
<1>1. op[o] \in OpRow
  BY RowType DEF LeaseExpires, BackoffEnds
<1>2. [op[o] EXCEPT !.expired = TRUE] \in OpRow /\ [op[o] EXCEPT !.wait = FALSE] \in OpRow
  BY <1>1 DEF OpRow
<1>3. op' \in [Op -> OpRow \cup {NoOp}]
  BY <1>2 DEF LeaseExpires, BackoffEnds, TypeOK
<1> QED
  BY <1>3 DEF LeaseExpires, BackoffEnds, TypeOK

\* The initial state has the types.
LEMMA InitType == Init => TypeOK
BY DEF Init, TypeOK

\* Every step keeps the types.
LEMMA NextType == TypeOK /\ [Next]_vars => TypeOK'
<1> SUFFICES ASSUME TypeOK, [Next]_vars PROVE TypeOK'
  OBVIOUS
<1>1. CASE UNCHANGED vars
  BY <1>1 DEF vars, TypeOK
<1>2. ASSUME NEW s \in Space, NEW k \in Key, NEW c \in BOOLEAN, Request(s, k, c)
      PROVE  TypeOK'
  BY <1>2, RequestType
<1>3. ASSUME NEW s \in Space, NEW k \in Key, Retire(s, k)
      PROVE  TypeOK'
  BY <1>3, RetireType
<1>4. ASSUME NEW k \in Key, RunRetention(k)
      PROVE  TypeOK'
  BY <1>4, RunRetentionType
<1>5. ASSUME NEW s \in Space, Age(s) \/ PlaceLegalHold(s) \/ ReleaseLegalHold(s)
      PROVE  TypeOK'
  BY <1>5 DEF Age, PlaceLegalHold, ReleaseLegalHold, TypeOK
<1>6. ASSUME NEW x \in Writer, CommitWrite(x) \/ \E s \in Space : BeginWrite(x, s)
      PROVE  TypeOK'
  BY <1>6, CommitWriteType, BeginWriteType
<1>7. ASSUME NEW w \in Worker, LoseClaim(w) \/ FailClaim(w) \/ Abandon(w)
      PROVE  TypeOK'
  <2>1. claim' \in [Worker -> {NoClaim} \cup [phase : {"execute", "release"}, op : Op, fence : Nat]]
    BY <1>7, ClaimEndsType DEF LoseClaim, FailClaim, Abandon
  <2> QED
    BY <1>7, <2>1 DEF LoseClaim, FailClaim, Abandon, TypeOK
<1>8. ASSUME NEW w \in Worker, ClaimNext(w) \/ ExecuteClaim(w) \/ ReleaseClaim(w)
      PROVE  TypeOK'
  BY <1>8, ClaimNextType, ExecuteClaimType, ReleaseClaimType
<1>9. ASSUME NEW o \in Op, LeaseExpires(o) \/ BackoffEnds(o)
      PROVE  TypeOK'
  BY <1>9, TimerType
<1> QED
  BY <1>1, <1>2, <1>3, <1>4, <1>5, <1>6, <1>7, <1>8, <1>9 DEF Next, Step

\* Every variable keeps its type, and no operation is attempted more than
\* MaximumAttempts times.
THEOREM TypeCorrect == Spec => []TypeOK
BY InitType, NextType, PTL DEF Spec

-----------------------------------------------------------------------------
(* The life of a space                                                     *)

\* A failure is stamped later than all before it.
StampInv == \A o \in Op : op[o].completed <= clock

\* Whoever retires a space has disabled its credential; and what is under way
\* for such a space, or would be recovered, retires it.
RetireInv ==
  /\ \A o \in Op : op[o].status # "none" /\ op[o].retire => op[o].space \in retiring
  /\ \A s \in retiring :
       /\ \A o \in LiveOps(s) : op[o].retire
       /\ space[s].state = "sealed" /\ LiveOps(s) = {}
          => \A f \in LastFailed(s) : op[f].retire

SpaceInv == StampInv /\ SealedIsRecoverable /\ RetireInv /\ RetirementSticks

\* Live rows are rows of the space's own, and all of them the same one.
LEMMA LiveFacts ==
  ASSUME TypeOK, SpaceInv, NEW o \in Op, op[o].status \in Live
  PROVE  /\ op[o] \in OpRow
         /\ op[o].space \in Space
         /\ op[o].target \in Nat
         /\ op[o].retire \in BOOLEAN
         /\ LiveOps(op[o].space) = {o}
         /\ Targeted(o)
<1>1. op[o] \in OpRow
  BY RowType DEF Live
<1>2. op[o].space \in Space /\ op[o].target \in Nat /\ op[o].retire \in BOOLEAN
  BY <1>1 DEF OpRow
<1>3. o \in LiveOps(op[o].space)
  BY DEF LiveOps
<1> QED
  BY <1>1, <1>2, <1>3 DEF SpaceInv, SealedIsRecoverable

\* What the rows of one space say, and so what a recovery would find, depends
\* on few columns.
LEMMA SameRows ==
  ASSUME TypeOK, NEW s \in Space,
         \A o \in Op : op[o].status = "none" => op'[o] = op[o],
         \A o \in Op : op[o].status # "none" /\ op[o].space = s =>
           /\ op'[o].space = s /\ op'[o].target = op[o].target
           /\ op'[o].completed = op[o].completed
           /\ op'[o].status = op[o].status \/ {op'[o].status, op[o].status} \subseteq Live,
         \A o \in Op : op[o].status # "none" /\ op[o].space # s => op'[o].space # s,
         space'[s] = space[s]
  PROVE  LiveOps(s)' = LiveOps(s) /\ Failed(s)' = Failed(s) /\ LastFailed(s)' = LastFailed(s)
<1>1. ASSUME NEW o \in Op
      PROVE  /\ (op[o].status \in Live /\ op[o].space = s)
                <=> (op'[o].status \in Live /\ op'[o].space = s)
             /\ (op[o].status = "failed" /\ op[o].space = s /\ op[o].target + 1 = space[s].gen)
                <=> (op'[o].status = "failed" /\ op'[o].space = s /\ op'[o].target + 1 = space'[s].gen)
  <2>1. CASE op[o].status = "none"
    BY <2>1 DEF Live
  <2>2. CASE op[o].status # "none" /\ op[o].space = s
    BY <2>2 DEF Live
  <2>3. CASE op[o].status # "none" /\ op[o].space # s
    BY <2>3 DEF Live
  <2> QED
    BY <2>1, <2>2, <2>3
<1>2. LiveOps(s)' = LiveOps(s)
  BY <1>1 DEF LiveOps
<1>3. Failed(s)' = Failed(s)
  BY <1>1 DEF Failed
<1>4. \A o \in Failed(s) : o \in Op /\ op'[o].completed = op[o].completed
  BY DEF Failed
<1> QED
  BY <1>2, <1>3, <1>4 DEF LastFailed

\* Operations under way fail (F), are claimed, requeued or timed; the spaces
\* and the credentials stay as they are.
LEMMA SettleKeeps ==
  ASSUME TypeOK, TypeOK', SpaceInv, NEW F \in SUBSET Op,
         UNCHANGED <<space, retiring>>, clock' >= clock,
         \A o \in F : /\ op[o].status \in Live /\ op'[o].status = "failed"
                      /\ op'[o].completed = clock + 1 /\ clock' = clock + 1,
         \A o \in Op : op[o].status = "none" => op'[o] = op[o],
         \A o \in Op : op[o].status # "none" =>
           /\ op'[o].space = op[o].space /\ op'[o].target = op[o].target
           /\ op'[o].retire = op[o].retire,
         \A o \in Op \ F :
           /\ op'[o].completed = op[o].completed
           /\ op'[o].status = op[o].status \/ {op'[o].status, op[o].status} \subseteq Live
  PROVE  SpaceInv'
<1> USE DEF SpaceInv
<1>0. clock \in Nat /\ clock' \in Nat
  BY DEF TypeOK
<1>1. StampInv'
  <2> SUFFICES ASSUME NEW o \in Op PROVE op'[o].completed <= clock'
    BY DEF StampInv
  <2>1. op[o].completed \in Nat
    BY RowType
  <2> QED
    BY <1>0, <2>1 DEF StampInv
<1>2. RetirementSticks'
  BY DEF RetirementSticks
<1>3. ASSUME NEW s \in Space, \A o \in F : op[o].space # s
      PROVE  LiveOps(s)' = LiveOps(s) /\ LastFailed(s)' = LastFailed(s)
  <2>1. \A o \in Op : op[o].status # "none" /\ op[o].space = s => o \notin F
    BY <1>3
  <2> QED
    BY <2>1, SameRows
<1>4. ASSUME NEW o \in F, NEW s \in Space, op[o].space = s
      PROVE  LiveOps(s)' = {} /\ LastFailed(s)' = {o}
  <2>1. o \in Op /\ LiveOps(s) = {o} /\ Targeted(o) /\ op[o].target \in Nat
    BY <1>4, LiveFacts
  <2>2. ASSUME NEW p \in Op, op'[p].space = s
        PROVE  op'[p].status \notin Live
    <3>1. CASE p = o
      BY <3>1 DEF Live
    <3>2. CASE p # o /\ op[p].status = "none"
      BY <3>2 DEF Live
    <3>3. CASE p # o /\ op[p].status # "none"
      <4>1. op[p].status \notin Live
        BY <2>1, <2>2, <3>3 DEF LiveOps
      <4>2. p \notin F /\ op'[p].status = op[p].status
        BY <4>1
      <4> QED
        BY <4>1, <4>2
    <3> QED
      BY <3>1, <3>2, <3>3
  <2>3. LiveOps(s)' = {}
    BY <2>2 DEF LiveOps
  <2>4. o \in Failed(s)'
    BY <1>4, <2>1 DEF Failed, Targeted, Live
  <2>5. ASSUME NEW p \in Op, p # o, p \in Failed(s)'
        PROVE  op'[p].completed <= clock /\ op'[p].completed \in Nat
    <3>1. op'[p].status = "failed" /\ op'[p].space = s
      BY <2>5 DEF Failed
    <3>2. op[p].status # "none"
      BY <3>1
    <3>3. p \notin F
      BY <3>1, <3>2, <2>1, <2>5 DEF LiveOps
    <3> QED
      BY <3>3, RowType DEF StampInv
  <2>6. o \in LastFailed(s)'
    <3> SUFFICES ASSUME NEW p \in Failed(s)' PROVE op'[p].completed <= op'[o].completed
      BY <2>4 DEF LastFailed
    <3>1. p \in Op
      BY DEF Failed
    <3> QED
      BY <3>1, <2>5, <1>0
  <2>7. ASSUME NEW p \in LastFailed(s)', p # o PROVE FALSE
    <3>1. p \in Op /\ p \in Failed(s)' /\ op'[o].completed <= op'[p].completed
      BY <2>4, <2>7 DEF LastFailed, Failed
    <3> QED
      BY <3>1, <2>5, <2>7, <1>0
  <2> QED
    BY <2>3, <2>6, <2>7
<1>5. \A o \in Op : op'[o].status \in Live => op[o].status \in Live /\ o \notin F
  BY DEF Live
<1>6. \A o \in Op : op[o].status # "none" => op[o] \in OpRow /\ op[o].space \in Space
  BY RowType DEF OpRow
<1>7. SealedIsRecoverable'
  <2> SUFFICES ASSUME NEW s \in Space
               PROVE  /\ \A o, p \in LiveOps(s)' : o = p
                      /\ \A o \in LiveOps(s)' : Targeted(o)'
                      /\ space'[s].state = "sealed" => LiveOps(s)' \cup LastFailed(s)' # {}
    BY DEF SealedIsRecoverable
  <2>1. ASSUME NEW o \in LiveOps(s)'
        PROVE  o \in LiveOps(s) /\ Targeted(o)'
    <3>1. o \in Op /\ op[o].status \in Live /\ op'[o].space = s
      BY <1>5, <2>1 DEF LiveOps
    <3>2. op[o].space = s /\ Targeted(o)
      BY <3>1, LiveFacts DEF Live
    <3> QED
      BY <3>1, <3>2 DEF LiveOps, Targeted, Live
  <2>2. space'[s].state = "sealed" => LiveOps(s)' \cup LastFailed(s)' # {}
    <3>1. CASE \E o \in F : op[o].space = s
      BY <3>1, <1>4
    <3>2. CASE \A o \in F : op[o].space # s
      BY <3>2, <1>3 DEF SealedIsRecoverable
    <3> QED
      BY <3>1, <3>2
  <2> QED
    BY <2>1, <2>2 DEF SealedIsRecoverable
<1>8. RetireInv'
  <2>1. ASSUME NEW o \in Op, op'[o].status # "none", op'[o].retire
        PROVE  op'[o].space \in retiring'
    BY <2>1 DEF RetireInv
  <2>2. ASSUME NEW s \in retiring', NEW o \in LiveOps(s)'
        PROVE  op'[o].retire
    <3>1. o \in Op /\ op[o].status \in Live /\ op'[o].space = s
      BY <1>5 DEF LiveOps
    <3>2. op[o].space = s /\ op'[o].retire = op[o].retire
      BY <3>1 DEF Live
    <3> QED
      BY <3>1, <3>2 DEF RetireInv, LiveOps
  <2>3. ASSUME NEW s \in retiring', space'[s].state = "sealed", LiveOps(s)' = {},
               NEW f \in LastFailed(s)'
        PROVE  op'[f].retire
    <3>1. s \in Space
      BY DEF TypeOK
    <3>2. CASE \E o \in F : op[o].space = s
      <4>1. f \in F /\ op[f].space = s
        BY <3>1, <3>2, <1>4
      <4>2. f \in LiveOps(s) /\ op'[f].retire = op[f].retire
        BY <4>1 DEF LiveOps, Live
      <4> QED
        BY <4>2 DEF RetireInv
    <3>3. CASE \A o \in F : op[o].space # s
      <4>1. LiveOps(s) = {} /\ f \in LastFailed(s)
        BY <3>1, <3>3, <2>3, <1>3
      <4>2. f \in Op /\ op[f].status = "failed"
        BY <4>1 DEF LastFailed, Failed
      <4> QED
        BY <4>1, <4>2, <2>3 DEF RetireInv
    <3> QED
      BY <3>2, <3>3
  <2> QED
    BY <2>1, <2>2, <2>3 DEF RetireInv
<1> QED
  BY <1>1, <1>2, <1>7, <1>8

\* The same where no operation fails.
LEMMA QuietKeeps ==
  ASSUME TypeOK, TypeOK', SpaceInv, UNCHANGED <<space, retiring, clock>>,
         \A o \in Op : op[o].status = "none" => op'[o] = op[o],
         \A o \in Op : op[o].status # "none" =>
           /\ op'[o].space = op[o].space /\ op'[o].target = op[o].target
           /\ op'[o].retire = op[o].retire /\ op'[o].completed = op[o].completed
           /\ op'[o].status = op[o].status \/ {op'[o].status, op[o].status} \subseteq Live
  PROVE  SpaceInv'
<1> DEFINE F == {}
<1>1. /\ F \in SUBSET Op /\ clock' >= clock
      /\ \A o \in F : /\ op[o].status \in Live /\ op'[o].status = "failed"
                      /\ op'[o].completed = clock + 1 /\ clock' = clock + 1
      /\ \A o \in Op \ F :
           /\ op'[o].completed = op[o].completed
           /\ op'[o].status = op[o].status \/ {op'[o].status, op[o].status} \subseteq Live
  BY DEF TypeOK
<1> HIDE DEF F
<1> QED
  BY <1>1, SettleKeeps

\* Operations (N) are queued for spaces without one, which are sealed by then;
\* a credential may be disabled with the retirement of its space.
LEMMA QueueKeeps ==
  ASSUME TypeOK, TypeOK', SpaceInv, NEW N \in SUBSET Op, clock' = clock,
         \A o \in N : /\ op[o] = NoOp
                      /\ op'[o].status = "queued" /\ op'[o].completed = 0
                      /\ op'[o].space \in Space /\ LiveOps(op'[o].space) = {}
                      /\ Targeted(o)'
                      /\ op'[o].space \in retiring' => op'[o].retire,
         \A o, p \in N : op'[o].space = op'[p].space => o = p,
         \A o \in Op \ N : op'[o] = op[o],
         \A s \in Space : (\A o \in N : op'[o].space # s) => space'[s] = space[s],
         retiring \subseteq retiring',
         \A s \in retiring' \ retiring : \E o \in N : op'[o].space = s
  PROVE  SpaceInv'
<1> USE DEF SpaceInv
<1>0. clock \in Nat
  BY DEF TypeOK
<1>1. StampInv'
  BY <1>0 DEF StampInv
<1>2. ASSUME NEW o \in N, NEW s \in Space, op'[o].space = s
      PROVE  LiveOps(s)' = {o}
  <2>1. o \in LiveOps(s)'
    BY <1>2 DEF LiveOps, Live
  <2>2. ASSUME NEW p \in LiveOps(s)' PROVE p = o
    <3>1. p \in Op /\ op'[p].status \in Live /\ op'[p].space = s
      BY DEF LiveOps
    <3>2. CASE p \in N
      BY <1>2, <3>1, <3>2
    <3>3. CASE p \notin N
      <4>1. p \in LiveOps(s)
        BY <3>1, <3>3 DEF LiveOps
      <4> QED
        BY <1>2, <4>1
    <3> QED
      BY <3>2, <3>3
  <2> QED
    BY <2>1, <2>2
<1>3. ASSUME NEW s \in Space, \A o \in N : op'[o].space # s
      PROVE  /\ LiveOps(s)' = LiveOps(s) /\ LastFailed(s)' = LastFailed(s)
             /\ space'[s] = space[s]
             /\ \A o \in LiveOps(s) \cup LastFailed(s) : o \notin N /\ op'[o] = op[o]
  <2>1. \A o \in N : op[o].status = "none"
    BY DEF NoOp
  <2>2. \A o \in LiveOps(s) \cup LastFailed(s) : o \in Op /\ op[o].status # "none"
    BY DEF LiveOps, Live, LastFailed, Failed
  <2>3. LiveOps(s)' = LiveOps(s)
    BY <1>3, <2>1 DEF LiveOps, Live
  <2>4. Failed(s)' = Failed(s)
    BY <1>3, <2>1 DEF Failed
  <2>5. \A o \in Failed(s) : o \in Op \ N
    BY <2>1 DEF Failed
  <2>6. LastFailed(s)' = LastFailed(s)
    BY <2>4, <2>5 DEF LastFailed
  <2> QED
    BY <1>3, <2>1, <2>2, <2>3, <2>6
<1>4. RetirementSticks'
  <2> SUFFICES ASSUME NEW s \in retiring' PROVE space'[s].state # "active"
    BY DEF RetirementSticks
  <2>1. s \in Space
    BY DEF TypeOK
  <2>2. CASE \E o \in N : op'[o].space = s
    <3>1. PICK o \in N : op'[o].space = s
      BY <2>2
    <3>2. Targeted(o)'
      BY <3>1
    <3> QED
      BY <3>1, <3>2 DEF Targeted
  <2>3. CASE \A o \in N : op'[o].space # s
    BY <2>1, <2>3, <1>3 DEF RetirementSticks
  <2> QED
    BY <2>2, <2>3
<1>5. SealedIsRecoverable'
  <2> SUFFICES ASSUME NEW s \in Space
               PROVE  /\ \A o, p \in LiveOps(s)' : o = p
                      /\ \A o \in LiveOps(s)' : Targeted(o)'
                      /\ space'[s].state = "sealed" => LiveOps(s)' \cup LastFailed(s)' # {}
    BY DEF SealedIsRecoverable
  <2>1. CASE \E o \in N : op'[o].space = s
    BY <2>1, <1>2
  <2>2. CASE \A o \in N : op'[o].space # s
    <3>1. ASSUME NEW o \in LiveOps(s) PROVE Targeted(o)'
      <4>1. Targeted(o) /\ op[o].space = s
        BY DEF SealedIsRecoverable, LiveOps
      <4> QED
        BY <2>2, <1>3, <4>1 DEF Targeted
    <3> QED
      BY <2>2, <1>3, <3>1 DEF SealedIsRecoverable
  <2> QED
    BY <2>1, <2>2
<1>6. RetireInv'
  <2>1. ASSUME NEW o \in Op, op'[o].status # "none", op'[o].retire
        PROVE  op'[o].space \in retiring'
    BY <2>1 DEF RetireInv, Targeted
  <2>2. ASSUME NEW s \in retiring'
        PROVE  /\ \A o \in LiveOps(s)' : op'[o].retire
               /\ space'[s].state = "sealed" /\ LiveOps(s)' = {}
                  => \A f \in LastFailed(s)' : op'[f].retire
    <3>1. s \in Space
      BY DEF TypeOK
    <3>2. CASE \E o \in N : op'[o].space = s
      BY <3>2, <1>2
    <3>3. CASE \A o \in N : op'[o].space # s
      BY <3>1, <3>3, <1>3 DEF RetireInv
    <3> QED
      BY <3>2, <3>3
  <2> QED
    BY <2>1, <2>2 DEF RetireInv
<1> QED
  BY <1>1, <1>4, <1>5, <1>6

\* A retirement takes over the operation under way.
LEMMA SupersedeKeeps ==
  ASSUME TypeOK, TypeOK', SpaceInv, NEW s \in Space, NEW k \in Key,
         Supersede(s, k), retiring' = retiring \cup {s}, clock' = clock
  PROVE  SpaceInv'
<1> USE DEF SpaceInv
<1>1. PICK o \in LiveOps(s) : op' = [op EXCEPT ![o].retire = TRUE] /\ UNCHANGED space
  BY DEF Supersede
<1>2. o \in Op /\ op[o].status \in Live /\ op[o].space = s
  BY DEF LiveOps
<1>3. op[o] \in OpRow /\ LiveOps(s) = {o} /\ Targeted(o)
  BY <1>2, LiveFacts
<1>4. op'[o] = [op[o] EXCEPT !.retire = TRUE] /\ \A p \in Op \ {o} : op'[p] = op[p]
  BY <1>1, <1>2 DEF TypeOK
<1>5. /\ op'[o].status = op[o].status /\ op'[o].space = s /\ op'[o].target = op[o].target
      /\ op'[o].completed = op[o].completed /\ op'[o].retire = TRUE
  BY <1>2, <1>3, <1>4 DEF OpRow
<1>6. \A t \in Space : LiveOps(t)' = LiveOps(t) /\ LastFailed(t)' = LastFailed(t)
  <2> SUFFICES ASSUME NEW t \in Space
               PROVE  LiveOps(t)' = LiveOps(t) /\ LastFailed(t)' = LastFailed(t)
    OBVIOUS
  <2>1. \A p \in Op : /\ op[p].status = "none" => op'[p] = op[p]
                      /\ op'[p].status = op[p].status /\ op'[p].completed = op[p].completed
                      /\ op'[p].space = op[p].space /\ op'[p].target = op[p].target
    BY <1>2, <1>4, <1>5 DEF Live
  <2> QED
    BY <2>1, <1>1, SameRows
<1>7. StampInv'
  BY <1>4, <1>5 DEF StampInv
<1>8. RetirementSticks'
  BY <1>1, <1>2, <1>3 DEF RetirementSticks, Targeted
<1>9. SealedIsRecoverable'
  <2>1. ASSUME NEW t \in Space, NEW p \in LiveOps(t) PROVE Targeted(p)'
    <3>1. p \in Op /\ Targeted(p)
      BY DEF SealedIsRecoverable, LiveOps
    <3> QED
      BY <3>1, <1>1, <1>2, <1>3, <1>4, <1>5 DEF Targeted
  <2> QED
    BY <2>1, <1>1, <1>6 DEF SealedIsRecoverable
<1>10. RetireInv'
  <2>1. ASSUME NEW p \in Op, op'[p].status # "none", op'[p].retire
        PROVE  op'[p].space \in retiring'
    BY <2>1, <1>4, <1>5 DEF RetireInv
  <2>2. ASSUME NEW t \in retiring'
        PROVE  /\ \A p \in LiveOps(t)' : op'[p].retire
               /\ space'[t].state = "sealed" /\ LiveOps(t)' = {}
                  => \A f \in LastFailed(t)' : op'[f].retire
    <3>1. t \in Space
      BY DEF TypeOK
    <3>2. CASE t = s
      BY <3>2, <1>3, <1>5, <1>6
    <3>3. CASE t # s
      <4>1. \A p \in LiveOps(t) \cup LastFailed(t) : p \in Op /\ op[p].space = t
        BY DEF LiveOps, LastFailed, Failed
      <4>2. \A p \in LiveOps(t) \cup LastFailed(t) : op'[p] = op[p]
        BY <4>1, <3>3, <1>2, <1>4
      <4> QED
        BY <3>1, <3>3, <4>2, <1>1, <1>6 DEF RetireInv
    <3> QED
      BY <3>2, <3>3
  <2> QED
    BY <2>1, <2>2 DEF RetireInv
<1> QED
  BY <1>7, <1>8, <1>9, <1>10

\* An erasure ends the only operation of its space, and a space whose
\* credential is disabled is retired by it.
LEMMA ExecuteKeeps ==
  ASSUME TypeOK, TypeOK', SpaceInv, NEW w \in Worker, ExecuteClaim(w)
  PROVE  SpaceInv'
<1> USE DEF SpaceInv
<1>0. PICK o \in Op, s \in Space : /\ o = claim[w].op /\ s = op[o].space
                                   /\ op[o].status = "processing"
  <2>1. claim[w].op \in Op /\ op[claim[w].op].status = "processing"
    BY ClaimType DEF ExecuteClaim, Erasable, ClaimHeld
  <2>2. op[claim[w].op].space \in Space
    BY <2>1, RowType DEF OpRow
  <2> QED
    BY <2>1, <2>2
<1>1. o \in Op /\ op[o].status = "processing" /\ op[o].space = s
  BY <1>0
<1>2. op[o] \in OpRow /\ LiveOps(s) = {o} /\ op[o].retire \in BOOLEAN
  BY <1>1, LiveFacts DEF Live
<1>3. /\ op'[o] = [op[o] EXCEPT !.status = "completed", !.worker = NoWorker, !.expired = FALSE]
      /\ \A p \in Op \ {o} : op'[p] = op[p]
  <2>1. op' = [op EXCEPT ![o].status = "completed", ![o].worker = NoWorker, ![o].expired = FALSE]
    BY <1>0 DEF ExecuteClaim, Erase
  <2>2. op \in [Op -> OpRow \cup {NoOp}]
    BY DEF TypeOK
  <2> QED
    BY <1>1, <2>1, <2>2
<1>4. /\ op'[o].status = "completed" /\ op'[o].space = s
      /\ op'[o].completed = op[o].completed /\ op'[o].retire = op[o].retire
  BY <1>1, <1>2, <1>3 DEF OpRow
<1>5. /\ space'[s].state = IF op[o].retire THEN "retired" ELSE "active"
      /\ \A t \in Space \ {s} : space'[t] = space[t]
      /\ clock' = clock /\ retiring' = retiring
  <2>1. /\ space' = [space EXCEPT ![s].state = IF op[o].retire THEN "retired" ELSE "active"]
        /\ clock' = clock /\ retiring' = retiring
    BY <1>0 DEF ExecuteClaim, Erase
  <2>2. space \in [Space -> [state : {"active", "sealed", "retired"}, gen : Nat \ {0}]]
    BY DEF TypeOK
  <2> QED
    BY <1>0, <2>1, <2>2
<1>6. LiveOps(s)' = {}
  <2>1. \A p \in Op \ {o} : ~(op[p].status \in Live /\ op[p].space = s)
    BY <1>2 DEF LiveOps
  <2>2. ASSUME NEW p \in Op, op'[p].status \in Live, op'[p].space = s
        PROVE  FALSE
    <3>1. p # o
      BY <1>4, <2>2 DEF Live
    <3>2. op'[p] = op[p]
      BY <1>3, <3>1
    <3> QED
      BY <2>1, <2>2, <3>1, <3>2
  <2> QED
    BY <2>2 DEF LiveOps
<1>7. ASSUME NEW t \in Space, t # s
      PROVE  LiveOps(t)' = LiveOps(t) /\ LastFailed(t)' = LastFailed(t)
  <2>1. \A p \in Op : /\ op[p].status = "none" => op'[p] = op[p]
                      /\ op[p].status # "none" /\ op[p].space = t => p # o /\ op'[p] = op[p]
                      /\ op[p].status # "none" /\ op[p].space # t => op'[p].space # t
    BY <1>1, <1>3, <1>4, <1>7
  <2> QED
    BY <2>1, <1>5, <1>7, SameRows
<1>8. StampInv'
  BY <1>3, <1>4, <1>5 DEF StampInv
<1>9. RetirementSticks'
  <2> SUFFICES ASSUME NEW t \in retiring PROVE space'[t].state # "active"
    BY <1>5 DEF RetirementSticks
  <2>1. t \in Space
    BY DEF TypeOK
  <2>2. CASE t = s
    BY <2>2, <1>2, <1>5 DEF RetireInv
  <2>3. CASE t # s
    BY <2>1, <2>3, <1>5 DEF RetirementSticks
  <2> QED
    BY <2>2, <2>3
<1>10. SealedIsRecoverable'
  <2> SUFFICES ASSUME NEW t \in Space
               PROVE  /\ \A p, q \in LiveOps(t)' : p = q
                      /\ \A p \in LiveOps(t)' : Targeted(p)'
                      /\ space'[t].state = "sealed" => LiveOps(t)' \cup LastFailed(t)' # {}
    BY DEF SealedIsRecoverable
  <2>1. CASE t = s
    BY <2>1, <1>5, <1>6
  <2>2. CASE t # s
    <3>1. ASSUME NEW p \in LiveOps(t) PROVE Targeted(p)'
      <4>1. p \in Op /\ op[p].space = t /\ Targeted(p)
        BY DEF SealedIsRecoverable, LiveOps
      <4>2. op'[p] = op[p]
        BY <4>1, <2>2, <1>1, <1>3
      <4> QED
        BY <4>1, <4>2, <2>2, <1>5 DEF Targeted
    <3> QED
      BY <2>2, <3>1, <1>5, <1>7 DEF SealedIsRecoverable
  <2> QED
    BY <2>1, <2>2
<1>11. RetireInv'
  <2>1. ASSUME NEW p \in Op, op'[p].status # "none", op'[p].retire
        PROVE  op'[p].space \in retiring'
    BY <2>1, <1>1, <1>3, <1>4, <1>5 DEF RetireInv
  <2>2. ASSUME NEW t \in retiring'
        PROVE  /\ \A p \in LiveOps(t)' : op'[p].retire
               /\ space'[t].state = "sealed" /\ LiveOps(t)' = {}
                  => \A f \in LastFailed(t)' : op'[f].retire
    <3>1. t \in Space
      BY DEF TypeOK
    <3>2. CASE t = s
      BY <3>2, <1>5, <1>6
    <3>3. CASE t # s
      <4>1. \A p \in LiveOps(t) \cup LastFailed(t) : p \in Op /\ op[p].space = t
        BY DEF LiveOps, LastFailed, Failed
      <4>2. \A p \in LiveOps(t) \cup LastFailed(t) : op'[p] = op[p]
        BY <4>1, <3>3, <1>1, <1>3
      <4> QED
        BY <3>1, <3>3, <4>2, <1>5, <1>7 DEF RetireInv
    <3> QED
      BY <3>2, <3>3
  <2> QED
    BY <2>1, <2>2 DEF RetireInv
<1> QED
  BY <1>8, <1>9, <1>10, <1>11

\* One new operation, for a space with nothing under way.
LEMMA EnqueueKeeps ==
  ASSUME TypeOK, TypeOK', SpaceInv, NEW s \in Space, NEW k \in Key,
         NEW c \in BOOLEAN, NEW r \in BOOLEAN, Enqueue(s, k, c, r), clock' = clock,
         retiring' = IF r THEN retiring \cup {s} ELSE retiring
  PROVE  SpaceInv'
<1>1. PICK o \in Op : /\ op[o] = NoOp
                      /\ Seal(o, s, k, c, r) \/ Recover(o, s, k, c, r)
  BY DEF Enqueue
<1>2. LiveOps(s) = {}
  BY DEF Enqueue, NothingLive
<1>4. \E t \in Nat, d, q \in BOOLEAN :
        /\ op' = [op EXCEPT ![o] = Queued(s, k, t, d, q)]
        /\ space'[s] = [state |-> "sealed", gen |-> t + 1]
        /\ \A u \in Space \ {s} : space'[u] = space[u]
        /\ q => s \in retiring'
        /\ s \in retiring' => q
  <2>1. CASE Seal(o, s, k, c, r)
    <3>1. space[s].gen \in Nat
      BY SpaceType
    <3>2. op' = [op EXCEPT ![o] = Queued(s, k, space[s].gen, c, r)]
      BY <2>1 DEF Seal
    <3>3. space' = [space EXCEPT ![s] = Sealed(s)] /\ space[s].state = "active"
      BY <2>1 DEF Seal
    <3>4. s \notin retiring
      BY <3>3 DEF SpaceInv, RetirementSticks
    <3>5. space'[s] = [state |-> "sealed", gen |-> space[s].gen + 1]
      BY <3>3 DEF Sealed, TypeOK
    <3>6. \A u \in Space \ {s} : space'[u] = space[u]
      BY <3>3 DEF TypeOK
    <3> QED
      BY <3>1, <3>2, <3>4, <3>5, <3>6
  <2>2. CASE Recover(o, s, k, c, r)
    <3>1. PICK f \in LastFailed(s) :
            op' = [op EXCEPT ![o] = Queued(s, k, op[f].target,
                                           IF r /\ ~op[f].retire THEN c ELSE op[f].cred,
                                           r \/ op[f].retire)]
      BY <2>2 DEF Recover
    <3>2. /\ f \in Op /\ op[f].status = "failed" /\ op[f].space = s
          /\ op[f].target + 1 = space[s].gen
      BY DEF LastFailed, Failed
    <3>3. op[f].target \in Nat /\ op[f].cred \in BOOLEAN /\ op[f].retire \in BOOLEAN
      BY <3>2, RowType DEF OpRow
    <3>4. space' = space /\ space[s].state = "sealed"
      BY <2>2 DEF Recover
    <3>5. space'[s] = [state |-> "sealed", gen |-> op[f].target + 1]
      BY <3>2, <3>4, SpaceType
    <3>6. op[f].retire => s \in retiring
      BY <3>2 DEF SpaceInv, RetireInv
    <3>7. s \in retiring => op[f].retire
      BY <3>4, <1>2 DEF SpaceInv, RetireInv
    <3> DEFINE d == IF r /\ ~op[f].retire THEN c ELSE op[f].cred
               q == r \/ op[f].retire
    <3>8. d \in BOOLEAN /\ q \in BOOLEAN /\ (q <=> s \in retiring')
      BY <3>3, <3>6, <3>7
    <3>9. op' = [op EXCEPT ![o] = Queued(s, k, op[f].target, d, q)]
      BY <3>1
    <3> HIDE DEF d, q
    <3> QED
      BY <3>3, <3>4, <3>5, <3>8, <3>9
  <2> QED
    BY <1>1, <2>1, <2>2
<1>5. PICK t \in Nat, d \in BOOLEAN, q \in BOOLEAN :
        /\ op' = [op EXCEPT ![o] = Queued(s, k, t, d, q)]
        /\ space'[s] = [state |-> "sealed", gen |-> t + 1]
        /\ \A u \in Space \ {s} : space'[u] = space[u]
        /\ q <=> s \in retiring'
  BY <1>4
<1>6. op'[o] = Queued(s, k, t, d, q) /\ \A p \in Op \ {o} : op'[p] = op[p]
  BY <1>5 DEF TypeOK
<1>7. /\ op'[o].status = "queued" /\ op'[o].completed = 0 /\ op'[o].space = s
      /\ op'[o].target = t /\ op'[o].retire = q
  BY <1>6 DEF Queued
<1>8. Targeted(o)'
  BY <1>5, <1>7 DEF Targeted
<1> DEFINE N == {o}
<1>9. /\ N \in SUBSET Op
      /\ \A p \in N : /\ op[p] = NoOp
                      /\ op'[p].status = "queued" /\ op'[p].completed = 0
                      /\ op'[p].space \in Space /\ LiveOps(op'[p].space) = {}
                      /\ Targeted(p)'
                      /\ op'[p].space \in retiring' => op'[p].retire
      /\ \A p, u \in N : op'[p].space = op'[u].space => p = u
      /\ \A p \in Op \ N : op'[p] = op[p]
      /\ \A u \in Space : (\A p \in N : op'[p].space # u) => space'[u] = space[u]
      /\ retiring \subseteq retiring'
      /\ \A u \in retiring' \ retiring : \E p \in N : op'[p].space = u
  BY <1>1, <1>2, <1>5, <1>6, <1>7, <1>8
<1> HIDE DEF N
<1> QED
  BY <1>9, QueueKeeps

\* A retention run queues an operation for each space it seals.
LEMMA RunRetentionKeeps ==
  ASSUME TypeOK, TypeOK', SpaceInv, NEW k \in Key, RunRetention(k)
  PROVE  SpaceInv'
<1>0. PICK batch \in SUBSET Unaged, filled \in [Space -> {"fresh", "old"}] :
        LET ages == [s \in Space |-> IF s \in batch THEN filled[s] ELSE age[s]]
        IN  \E due \in SUBSET Due(ages), id \in [Space -> Op] :
             /\ Cardinality(batch) <= BatchSize /\ Cardinality(due) <= BatchSize
             /\ \A s \in due : op[id[s]] = NoOp
             /\ \A s, t \in due : id[s] = id[t] => s = t
             /\ age' = ages
             /\ space' = [s \in Space |-> IF s \in due THEN Sealed(s) ELSE space[s]]
             /\ op' = [o \in Op |-> IF \E s \in due : id[s] = o
                         THEN LET s == CHOOSE t \in due : id[t] = o
                              IN  Queued(s, NoKey, space[s].gen, FALSE, FALSE)
                         ELSE op[o]]
  BY DEF RunRetention
<1> DEFINE ages == [s \in Space |-> IF s \in batch THEN filled[s] ELSE age[s]]
<1>1. PICK due \in SUBSET Due(ages), id \in [Space -> Op] :
             /\ \A s \in due : op[id[s]] = NoOp
             /\ \A s, t \in due : id[s] = id[t] => s = t
             /\ space' = [s \in Space |-> IF s \in due THEN Sealed(s) ELSE space[s]]
             /\ op' = [o \in Op |-> IF \E s \in due : id[s] = o
                         THEN LET s == CHOOSE t \in due : id[t] = o
                              IN  Queued(s, NoKey, space[s].gen, FALSE, FALSE)
                         ELSE op[o]]
  BY <1>0
<1>2. \A s \in due : s \in Space /\ space[s].state = "active" /\ LiveOps(s) = {}
  BY DEF Due
<1>3. \A s \in due : s \notin retiring
  BY <1>2 DEF SpaceInv, RetirementSticks
<1>4. ASSUME NEW s \in due
      PROVE  /\ id[s] \in Op
             /\ op'[id[s]] = Queued(s, NoKey, space[s].gen, FALSE, FALSE)
             /\ space'[s] = [state |-> "sealed", gen |-> space[s].gen + 1]
  <2>1. s = CHOOSE t \in due : id[t] = id[s]
    BY <1>1
  <2>2. id[s] \in Op
    BY <1>2
  <2>3. op'[id[s]] = Queued(s, NoKey, space[s].gen, FALSE, FALSE)
    BY <1>1, <2>1, <2>2
  <2>4. space'[s] = Sealed(s)
    BY <1>1, <1>2
  <2> QED
    BY <2>2, <2>3, <2>4 DEF Sealed
<1>5. ASSUME NEW s \in due
      PROVE  /\ op'[id[s]].status = "queued" /\ op'[id[s]].completed = 0
             /\ op'[id[s]].space = s /\ op'[id[s]].target = space[s].gen
             /\ op'[id[s]].retire = FALSE
  <2>1. op'[id[s]] = Queued(s, NoKey, space[s].gen, FALSE, FALSE)
    BY <1>4
  <2> QED
    BY <2>1 DEF Queued
<1>6. ASSUME NEW s \in due PROVE Targeted(id[s])'
  BY <1>4, <1>5 DEF Targeted
<1> DEFINE N == {id[s] : s \in due}
<1>7. \A o \in Op \ N : op'[o] = op[o]
  BY <1>1
<1>8. retiring' = retiring /\ clock' = clock
  BY DEF RunRetention
<1>9. ASSUME NEW o \in N
      PROVE  /\ o \in Op /\ op[o] = NoOp
             /\ op'[o].status = "queued" /\ op'[o].completed = 0
             /\ op'[o].space \in Space /\ LiveOps(op'[o].space) = {}
             /\ Targeted(o)'
             /\ op'[o].space \in retiring' => op'[o].retire
             /\ op'[o].space \in due /\ o = id[op'[o].space]
  <2>1. PICK s \in due : o = id[s]
    OBVIOUS
  <2>2. o \in Op /\ op[o] = NoOp
    BY <2>1, <1>1, <1>4
  <2>3. op'[o].status = "queued" /\ op'[o].completed = 0 /\ op'[o].space = s
    BY <2>1, <1>5
  <2>4. Targeted(o)'
    BY <2>1, <1>6
  <2> QED
    BY <2>1, <2>2, <2>3, <2>4, <1>2, <1>3, <1>8
<1>10. \A s \in Space : (\A o \in N : op'[o].space # s) => space'[s] = space[s]
  <2> SUFFICES ASSUME NEW s \in Space, \A o \in N : op'[o].space # s
               PROVE  space'[s] = space[s]
    OBVIOUS
  <2>1. s \notin due
    BY <1>5
  <2> QED
    BY <2>1, <1>1
<1>11. \A o, p \in N : op'[o].space = op'[p].space => o = p
  BY <1>9
<1>12. N \in SUBSET Op
  BY <1>9
<1> HIDE DEF N
<1>13. /\ \A o \in N : /\ op[o] = NoOp
                       /\ op'[o].status = "queued" /\ op'[o].completed = 0
                       /\ op'[o].space \in Space /\ LiveOps(op'[o].space) = {}
                       /\ Targeted(o)'
                       /\ op'[o].space \in retiring' => op'[o].retire
       /\ retiring \subseteq retiring'
       /\ \A s \in retiring' \ retiring : \E o \in N : op'[o].space = s
  BY <1>8, <1>9
<1> QED
  BY <1>7, <1>8, <1>10, <1>11, <1>12, <1>13, QueueKeeps

-----------------------------------------------------------------------------
(* The invariant                                                           *)

\* A scope that queued an operation is recorded with it.
KeyInv == \A o \in Op : op[o].status # "none" /\ op[o].key # NoKey => idem[op[o].key] = o

IInv == TypeOK /\ SpaceInv /\ NoStaleContent /\ KeyInv

\* Claims and attempts.
LEMMA ClaimNextKeeps ==
  ASSUME TypeOK, TypeOK', SpaceInv, NEW w \in Worker, ClaimNext(w)
  PROVE  /\ SpaceInv'
         /\ \A o \in Op : op[o].status # "none" => op'[o].status # "none" /\ op'[o].key = op[o].key
         /\ \A o \in Op : op[o].status = "none" => op'[o] = op[o]
         /\ \A o \in Op : op[o].status = "processing" /\ ~op[o].expired
                          => op'[o].status = "processing"
<1>1. PICK taken \in IF Candidates = {} THEN {{}} ELSE {{o} : o \in Candidates} :
       op' = [o \in Op |-> IF o \in taken THEN ClaimedOp(o, w)
                          ELSE IF o \in Exhausted THEN FailedOp(o) ELSE op[o]]
  BY DEF ClaimNext
<1>2. taken \subseteq Candidates /\ taken \subseteq Op
  BY DEF Candidates
<1> DEFINE F == Exhausted \ taken
<1>3. ASSUME NEW o \in taken
      PROVE  /\ op'[o] = ClaimedOp(o, w) /\ op[o].status \in Live /\ op'[o].status = "processing"
             /\ op'[o].space = op[o].space /\ op'[o].target = op[o].target
             /\ op'[o].retire = op[o].retire /\ op'[o].key = op[o].key
             /\ op'[o].completed = op[o].completed
  <2>1. o \in Op /\ o \in Candidates /\ op'[o] = ClaimedOp(o, w) /\ op[o].status \in Live
    BY <1>1, <1>2, ClaimedType
  <2>2. op[o] \in OpRow
    BY <2>1, RowType DEF Live
  <2> QED
    BY <2>1, <2>2 DEF ClaimedOp, OpRow
<1>4. ASSUME NEW o \in F
      PROVE  /\ o \in Op /\ op[o].status \in Live /\ op'[o].status = "failed" /\ op[o].expired
             /\ op'[o].space = op[o].space /\ op'[o].target = op[o].target
             /\ op'[o].retire = op[o].retire /\ op'[o].key = op[o].key
             /\ op'[o].completed = clock + 1 /\ clock' = clock + 1
  <2>1. o \in Op /\ op[o].status = "processing" /\ op[o].expired /\ op'[o] = FailedOp(o)
    BY <1>1 DEF Exhausted
  <2>2. op[o] \in OpRow
    BY <2>1, RowType
  <2>3. clock' = clock + 1
    BY DEF ClaimNext
  <2> QED
    BY <2>1, <2>2, <2>3 DEF FailedOp, OpRow, Live
<1>5. \A o \in Op : o \notin taken /\ o \notin F => op'[o] = op[o]
  BY <1>1
<1>6. clock' >= clock /\ UNCHANGED <<space, retiring>> /\ F \in SUBSET Op
  BY DEF ClaimNext, TypeOK, Exhausted
<1> HIDE DEF F
<1>7. /\ \A o \in F : /\ op[o].status \in Live /\ op'[o].status = "failed"
                      /\ op'[o].completed = clock + 1 /\ clock' = clock + 1
      /\ \A o \in Op : op[o].status = "none" => op'[o] = op[o]
      /\ \A o \in Op : op[o].status # "none" =>
           /\ op'[o].space = op[o].space /\ op'[o].target = op[o].target
           /\ op'[o].retire = op[o].retire
      /\ \A o \in Op \ F :
           /\ op'[o].completed = op[o].completed
           /\ op'[o].status = op[o].status \/ {op'[o].status, op[o].status} \subseteq Live
  BY <1>3, <1>4, <1>5 DEF Live
<1>8. SpaceInv'
  BY <1>6, <1>7, SettleKeeps
<1> QED
  BY <1>3, <1>4, <1>5, <1>7, <1>8

\* The release of a claim that is still held fails or requeues its operation.
LEMMA ReleaseClaimKeeps ==
  ASSUME TypeOK, TypeOK', SpaceInv, NEW w \in Worker, ReleaseClaim(w)
  PROVE  /\ SpaceInv'
         /\ \A o \in Op : op[o].status # "none" => op'[o].status # "none" /\ op'[o].key = op[o].key
         /\ \A o \in Op : op[o].status = "none" => op'[o] = op[o]
         /\ \A o \in Op : op'[o] # op[o] => ClaimHeld(w) /\ o = claim[w].op
<1>1. PICK o \in Op : o = claim[w].op
  BY ClaimType DEF ReleaseClaim
<1>2. ClaimHeld(w) => op[o] \in OpRow /\ op[o].status = "processing"
  BY <1>1, RowType DEF ClaimHeld
<1>3. UNCHANGED <<space, retiring>> /\ clock \in Nat /\ op \in [Op -> OpRow \cup {NoOp}]
  BY DEF ReleaseClaim, TypeOK
<1>4. CASE ClaimHeld(w) /\ op' = [op EXCEPT ![o] = FailedOp(o)] /\ clock' = clock + 1
  <2>1. /\ op'[o].status = "failed" /\ op'[o].completed = clock + 1
        /\ op'[o].space = op[o].space /\ op'[o].target = op[o].target
        /\ op'[o].retire = op[o].retire /\ op'[o].key = op[o].key
    BY <1>2, <1>3, <1>4 DEF FailedOp, OpRow
  <2>2. \A p \in Op \ {o} : op'[p] = op[p]
    BY <1>3, <1>4
  <2>3. /\ \A p \in {o} : /\ op[p].status \in Live /\ op'[p].status = "failed"
                          /\ op'[p].completed = clock + 1 /\ clock' = clock + 1
        /\ \A p \in Op : op[p].status = "none" => op'[p] = op[p]
        /\ \A p \in Op : op[p].status # "none" =>
             /\ op'[p].space = op[p].space /\ op'[p].target = op[p].target
             /\ op'[p].retire = op[p].retire
        /\ \A p \in Op \ {o} :
             /\ op'[p].completed = op[p].completed
             /\ op'[p].status = op[p].status \/ {op'[p].status, op[p].status} \subseteq Live
    BY <1>2, <1>4, <2>1, <2>2 DEF Live
  <2>4. clock' >= clock /\ {o} \in SUBSET Op
    BY <1>3, <1>4
  <2>5. SpaceInv'
    BY <1>3, <2>3, <2>4, SettleKeeps
  <2> QED
    BY <1>1, <1>2, <1>4, <2>1, <2>2, <2>3, <2>5
<1>5. CASE /\ ClaimHeld(w) /\ clock' = clock
           /\ op' = [op EXCEPT ![o] = [@ EXCEPT !.status = "queued", !.worker = NoWorker,
                                                !.expired = FALSE, !.wait = TRUE]]
  <2>1. /\ op'[o].status = "queued" /\ op'[o].completed = op[o].completed
        /\ op'[o].space = op[o].space /\ op'[o].target = op[o].target
        /\ op'[o].retire = op[o].retire /\ op'[o].key = op[o].key
    BY <1>2, <1>3, <1>5 DEF OpRow
  <2>2. \A p \in Op \ {o} : op'[p] = op[p]
    BY <1>3, <1>5
  <2>3. /\ \A p \in Op : op[p].status = "none" => op'[p] = op[p]
        /\ \A p \in Op : op[p].status # "none" =>
             /\ op'[p].space = op[p].space /\ op'[p].target = op[p].target
             /\ op'[p].retire = op[p].retire /\ op'[p].completed = op[p].completed
             /\ op'[p].status = op[p].status \/ {op'[p].status, op[p].status} \subseteq Live
    BY <1>2, <1>5, <2>1, <2>2 DEF Live
  <2>4. SpaceInv'
    BY <1>3, <1>5, <2>3, QuietKeeps
  <2> QED
    BY <1>1, <1>2, <1>5, <2>1, <2>2, <2>3, <2>4
<1>6. CASE UNCHANGED <<op, clock>>
  <2>1. SpaceInv'
    BY <1>3, <1>6, QuietKeeps
  <2> QED
    BY <1>6, <2>1
<1> QED
  BY <1>1, <1>4, <1>5, <1>6 DEF ReleaseClaim

\* An idempotency scope that was free has queued no operation.
LEMMA KeyKeeps ==
  ASSUME TypeOK, KeyInv, NEW k \in Key, idem[k] = "free",
         NEW v \in Op \cup {"run"}, idem' = [idem EXCEPT ![k] = v],
         \A o \in Op : op'[o].status # "none" /\ op'[o].key # NoKey =>
           \/ op[o].status # "none" /\ op[o].key = op'[o].key
           \/ op'[o].key = k /\ o = v
  PROVE  KeyInv'
<1> SUFFICES ASSUME NEW o \in Op, op'[o].status # "none", op'[o].key # NoKey
             PROVE  idem'[op'[o].key] = o
  BY DEF KeyInv
<1>1. CASE op'[o].key = k /\ o = v
  BY <1>1 DEF TypeOK
<1>2. CASE op[o].status # "none" /\ op[o].key = op'[o].key
  <2>1. op[o].key \in Key /\ idem[op[o].key] = o
    BY <1>2, RowType DEF KeyInv, OpRow
  <2>2. op[o].key # k
    BY <2>1, OpAssumption
  <2> QED
    BY <1>2, <2>1, <2>2 DEF TypeOK
<1> QED
  BY <1>1, <1>2

\* A queued request keeps the invariant and touches no existing row.
LEMMA RequestKeeps ==
  ASSUME IInv, TypeOK', NEW s \in Space, NEW k \in Key, NEW c \in BOOLEAN, NEW r \in BOOLEAN,
         idem[k] = "free", Enqueue(s, k, c, r), UNCHANGED <<content, clock>>,
         retiring' = IF r THEN retiring \cup {s} ELSE retiring
  PROVE  /\ IInv'
         /\ \A o \in Op : op'[o] # op[o] => op[o].status = "none"
<1> USE DEF IInv
<1>1. SpaceInv'
  BY EnqueueKeeps
<1>2. PICK o \in Op : /\ op[o] = NoOp
                      /\ Seal(o, s, k, c, r) \/ Recover(o, s, k, c, r)
                      /\ idem' = [idem EXCEPT ![k] = o]
  BY DEF Enqueue
<1>3. /\ \A p \in Op \ {o} : op'[p] = op[p]
      /\ op'[o].key = k
  <2>1. op \in [Op -> OpRow \cup {NoOp}]
    BY DEF TypeOK
  <2>2. CASE Seal(o, s, k, c, r)
    BY <2>1, <2>2 DEF Seal, Queued
  <2>3. CASE Recover(o, s, k, c, r)
    BY <2>1, <2>3 DEF Recover, Queued
  <2> QED
    BY <1>2, <2>2, <2>3
<1>4. KeyInv'
  <2>1. \A p \in Op : op'[p].status # "none" /\ op'[p].key # NoKey =>
           \/ op[p].status # "none" /\ op[p].key = op'[p].key
           \/ op'[p].key = k /\ p = o
    BY <1>3
  <2>2. o \in Op \cup {"run"}
    OBVIOUS
  <2> QED
    BY <1>2, <2>1, <2>2, KeyKeeps
<1>5. NoStaleContent'
  <2> SUFFICES ASSUME NEW t \in Space, space'[t].state # "sealed"
               PROVE  space'[t] = space[t]
    BY DEF NoStaleContent
  <2>1. CASE Seal(o, s, k, c, r)
    BY <2>1 DEF Seal, Sealed, TypeOK
  <2>2. CASE Recover(o, s, k, c, r)
    BY <2>2 DEF Recover
  <2> QED
    BY <1>2, <2>1, <2>2
<1>6. \A p \in Op : op'[p] # op[p] => op[p].status = "none"
  BY <1>2, <1>3 DEF NoOp
<1> QED
  BY <1>1, <1>4, <1>5, <1>6

\* A retirement over an operation under way keeps the invariant.
LEMMA SupersedeAll ==
  ASSUME IInv, TypeOK', NEW s \in Space, NEW k \in Key, Supersede(s, k), idem[k] = "free",
         retiring' = retiring \cup {s}, UNCHANGED <<content, clock>>
  PROVE  /\ IInv'
         /\ \A o \in Op : op'[o].status = op[o].status
<1> USE DEF IInv
<1>1. SpaceInv'
  BY SupersedeKeeps
<1>2. PICK o \in LiveOps(s) : /\ op' = [op EXCEPT ![o].retire = TRUE] /\ UNCHANGED space
                              /\ idem' = [idem EXCEPT ![k] = o]
  BY DEF Supersede
<1>3. o \in Op /\ op[o] \in OpRow /\ op \in [Op -> OpRow \cup {NoOp}]
  BY RowType DEF LiveOps, Live, TypeOK
<1>4. \A p \in Op : op'[p].status = op[p].status /\ (op[p].status # "none" => op'[p].key = op[p].key)
  BY <1>2, <1>3 DEF OpRow
<1>5. KeyInv'
  <2>1. \A p \in Op : op'[p].status # "none" /\ op'[p].key # NoKey =>
           \/ op[p].status # "none" /\ op[p].key = op'[p].key
           \/ op'[p].key = k /\ p = o
    BY <1>4
  <2>2. o \in Op \cup {"run"}
    BY <1>3
  <2> QED
    BY <1>2, <2>1, <2>2, KeyKeeps
<1>6. NoStaleContent'
  BY <1>2 DEF NoStaleContent
<1> QED
  BY <1>1, <1>4, <1>5, <1>6

\* A retention run keeps the invariant and touches no existing row.
LEMMA RunRetentionAll ==
  ASSUME IInv, TypeOK', NEW k \in Key, RunRetention(k)
  PROVE  /\ IInv'
         /\ \A o \in Op : op'[o] # op[o] => op[o].status = "none"
<1> USE DEF IInv
<1>0. PICK batch \in SUBSET Unaged, filled \in [Space -> {"fresh", "old"}] :
        LET ages == [s \in Space |-> IF s \in batch THEN filled[s] ELSE age[s]]
        IN  \E due \in SUBSET Due(ages), id \in [Space -> Op] :
             /\ Cardinality(batch) <= BatchSize /\ Cardinality(due) <= BatchSize
             /\ \A s \in due : op[id[s]] = NoOp
             /\ \A s, t \in due : id[s] = id[t] => s = t
             /\ age' = ages
             /\ space' = [s \in Space |-> IF s \in due THEN Sealed(s) ELSE space[s]]
             /\ op' = [o \in Op |-> IF \E s \in due : id[s] = o
                         THEN LET s == CHOOSE t \in due : id[t] = o
                              IN  Queued(s, NoKey, space[s].gen, FALSE, FALSE)
                         ELSE op[o]]
  BY DEF RunRetention
<1> DEFINE ages == [s \in Space |-> IF s \in batch THEN filled[s] ELSE age[s]]
<1>1. PICK due \in SUBSET Due(ages), id \in [Space -> Op] :
             /\ \A s \in due : op[id[s]] = NoOp
             /\ space' = [s \in Space |-> IF s \in due THEN Sealed(s) ELSE space[s]]
             /\ op' = [o \in Op |-> IF \E s \in due : id[s] = o
                         THEN LET s == CHOOSE t \in due : id[t] = o
                              IN  Queued(s, NoKey, space[s].gen, FALSE, FALSE)
                         ELSE op[o]]
  BY <1>0
<1>2. SpaceInv'
  BY RunRetentionKeeps
<1>3. ASSUME NEW o \in Op
      PROVE  op'[o] = op[o] \/ (op[o].status = "none" /\ op'[o].key = NoKey)
  <2>1. CASE \E s \in due : id[s] = o
    <3> DEFINE s == CHOOSE t \in due : id[t] = o
    <3>1. op'[o] = Queued(s, NoKey, space[s].gen, FALSE, FALSE)
      BY <1>1, <2>1
    <3>2. op[o] = NoOp
      BY <1>1, <2>1
    <3> HIDE DEF s
    <3> QED
      BY <3>1, <3>2 DEF Queued, NoOp
  <2>2. CASE ~\E s \in due : id[s] = o
    BY <1>1, <2>2
  <2> QED
    BY <2>1, <2>2
<1>4. KeyInv'
  <2> DEFINE v == "run"
  <2>1. idem[k] = "free" /\ idem' = [idem EXCEPT ![k] = v]
    BY DEF RunRetention, Fresh
  <2>2. \A p \in Op : op'[p].status # "none" /\ op'[p].key # NoKey =>
           \/ op[p].status # "none" /\ op[p].key = op'[p].key
           \/ op'[p].key = k /\ p = v
    BY <1>3
  <2>3. v \in Op \cup {"run"}
    OBVIOUS
  <2> HIDE DEF v
  <2> QED
    BY <2>1, <2>2, <2>3, KeyKeeps
<1>5. NoStaleContent'
  <2> SUFFICES ASSUME NEW t \in Space, space'[t].state # "sealed"
               PROVE  space'[t] = space[t] /\ content' = content
    BY DEF NoStaleContent
  <2> QED
    BY <1>1 DEF Sealed, RunRetention
<1> QED
  BY <1>2, <1>3, <1>4, <1>5

\* A writer that is still authorised writes under the space's generation.
LEMMA CommitWriteAll ==
  ASSUME IInv, TypeOK', NEW x \in Writer, CommitWrite(x)
  PROVE  IInv'
<1> USE DEF IInv
<1>1. UNCHANGED <<space, retiring, clock, op, idem>>
  BY DEF CommitWrite
<1>2. SpaceInv'
  BY <1>1, QuietKeeps
<1>3. KeyInv'
  BY <1>1 DEF KeyInv
<1>4. PICK s \in Space : s = write[x].space
  BY DEF CommitWrite, TypeOK, NoWrite
<1>5. NoStaleContent'
  <2>1. CASE content' = content
    BY <1>1, <2>1 DEF NoStaleContent
  <2>2. CASE Current(x) /\ content' = [content EXCEPT ![s] = content[s] \cup {write[x].gen}]
    <3>1. space[s].state = "active" /\ space[s].gen = write[x].gen
      BY <1>4, <2>2 DEF Current
    <3>2. content'[s] = content[s] \cup {write[x].gen} /\ \A t \in Space \ {s} : content'[t] = content[t]
      BY <2>2 DEF TypeOK
    <3> QED
      BY <1>1, <3>1, <3>2 DEF NoStaleContent
  <2> QED
    BY <1>4, <2>1, <2>2 DEF CommitWrite
<1> QED
  BY <1>2, <1>3, <1>5

\* An erasure keeps the invariant, changes only the row of a claim that is held,
\* and deletes nothing that is held.
LEMMA ExecuteAll ==
  ASSUME IInv, TypeOK', NEW w \in Worker, ExecuteClaim(w)
  PROVE  /\ IInv'
         /\ \A o \in Op : op'[o] # op[o] => ClaimHeld(w) /\ o = claim[w].op
         /\ \A s \in held : content'[s] = content[s]
<1> USE DEF IInv
<1>1. SpaceInv'
  BY ExecuteKeeps
<1>2. PICK o \in Op, s \in Space : /\ o = claim[w].op /\ s = op[o].space /\ s \notin held
                                   /\ op[o] \in OpRow /\ ClaimHeld(w)
  <2>1. claim[w].op \in Op /\ op[claim[w].op].status = "processing"
    BY ClaimType DEF ExecuteClaim, Erasable, ClaimHeld
  <2>2. op[claim[w].op] \in OpRow /\ op[claim[w].op].space \in Space
    BY <2>1, RowType DEF OpRow
  <2> QED
    BY <2>1, <2>2 DEF ExecuteClaim, Erasable
<1>3. /\ op' = [op EXCEPT ![o].status = "completed", ![o].worker = NoWorker, ![o].expired = FALSE]
      /\ content' = [content EXCEPT ![s] = {}]
      /\ space' = [space EXCEPT ![s].state = IF op[o].retire THEN "retired" ELSE "active"]
      /\ idem' = idem
  BY <1>2 DEF ExecuteClaim, Erase
<1>4. op \in [Op -> OpRow \cup {NoOp}] /\ op[o] \in OpRow
  BY <1>2 DEF TypeOK
<1>5. op'[o].key = op[o].key /\ \A p \in Op \ {o} : op'[p] = op[p]
  BY <1>3, <1>4 DEF OpRow
<1>6. op[o].status # "none"
  BY <1>4 DEF OpRow
<1>7. KeyInv'
  BY <1>3, <1>5, <1>6 DEF KeyInv
<1>8. /\ content'[s] = {} /\ \A t \in Space \ {s} : content'[t] = content[t] /\ space'[t] = space[t]
  BY <1>3 DEF TypeOK
<1>9. NoStaleContent'
  BY <1>8 DEF NoStaleContent
<1>10. \A t \in held : content'[t] = content[t]
  BY <1>2, <1>8 DEF TypeOK
<1> QED
  BY <1>1, <1>2, <1>5, <1>7, <1>9, <1>10

-----------------------------------------------------------------------------
(* One step                                                                *)

\* What the timers do to a row concerns nothing but the timers.
LEMMA TimerKeeps ==
  ASSUME IInv, TypeOK', NEW o \in Op, LeaseExpires(o) \/ BackoffEnds(o)
  PROVE  /\ IInv'
         /\ \A p \in Op : op'[p].status = op[p].status
<1> USE DEF IInv
<1>1. op[o] \in OpRow /\ op \in [Op -> OpRow \cup {NoOp}]
  BY RowType DEF LeaseExpires, BackoffEnds, TypeOK
<1>2. op' = [op EXCEPT ![o].expired = TRUE] \/ op' = [op EXCEPT ![o].wait = FALSE]
  BY DEF LeaseExpires, BackoffEnds
<1>3. /\ op'[o].status = op[o].status /\ op'[o].space = op[o].space /\ op'[o].key = op[o].key
      /\ op'[o].target = op[o].target /\ op'[o].retire = op[o].retire
      /\ op'[o].completed = op[o].completed
      /\ \A p \in Op \ {o} : op'[p] = op[p]
  BY <1>1, <1>2 DEF OpRow
<1>4. op[o].status # "none"
  BY <1>1 DEF OpRow
<1>5. UNCHANGED <<space, content, retiring, idem, clock>>
  BY DEF LeaseExpires, BackoffEnds
<1>6. SpaceInv'
  <2>1. /\ \A p \in Op : op[p].status = "none" => op'[p] = op[p]
        /\ \A p \in Op : op[p].status # "none" =>
             /\ op'[p].space = op[p].space /\ op'[p].target = op[p].target
             /\ op'[p].retire = op[p].retire /\ op'[p].completed = op[p].completed
             /\ op'[p].status = op[p].status \/ {op'[p].status, op[p].status} \subseteq Live
    BY <1>3, <1>4
  <2> QED
    BY <1>5, <2>1, QuietKeeps
<1>7. KeyInv'
  BY <1>3, <1>4, <1>5 DEF KeyInv
<1>8. NoStaleContent'
  BY <1>5 DEF NoStaleContent
<1> QED
  BY <1>3, <1>6, <1>7, <1>8

\* Steps that leave spaces, operations and scopes alone.
LEMMA FrameKeeps ==
  ASSUME IInv, TypeOK', UNCHANGED <<space, content, retiring, op, idem, clock>>
  PROVE  IInv'
<1>1. SpaceInv'
  BY QuietKeeps DEF IInv
<1> QED
  BY <1>1 DEF IInv, KeyInv, NoStaleContent

\* The initial state satisfies the invariant.
LEMMA InitIInv == Init => IInv
<1> SUFFICES ASSUME Init PROVE IInv
  OBVIOUS
<1>1. \A o \in Op : op[o] = NoOp /\ op[o].status = "none" /\ op[o].completed = 0
  BY DEF Init, NoOp
<1>2. \A s \in Space : LiveOps(s) = {} /\ space[s].state = "active" /\ space[s].gen = 1
  BY <1>1 DEF Init, LiveOps, Live
<1>3. retiring = {} /\ clock = 0 /\ \A s \in Space : content[s] \subseteq {1}
  BY DEF Init
<1>4. TypeOK
  BY InitType
<1>5. SpaceInv
  BY <1>1, <1>2, <1>3 DEF SpaceInv, StampInv, SealedIsRecoverable, RetireInv, RetirementSticks
<1>6. NoStaleContent
  BY <1>2, <1>3 DEF NoStaleContent
<1>7. KeyInv
  BY <1>1 DEF KeyInv
<1> QED
  BY <1>4, <1>5, <1>6, <1>7 DEF IInv

\* Every step keeps the invariant.
LEMMA NextIInv == IInv /\ [Next]_vars => IInv'
<1> SUFFICES ASSUME IInv, [Next]_vars PROVE IInv'
  OBVIOUS
<1>0. TypeOK'
  BY NextType DEF IInv
<1>1. CASE UNCHANGED vars
  BY <1>0, <1>1, FrameKeeps DEF vars
<1>2. ASSUME NEW s \in Space, NEW k \in Key, NEW c \in BOOLEAN, Request(s, k, c)
      PROVE  IInv'
  <2> DEFINE r == FALSE
  <2>1. /\ r \in BOOLEAN /\ idem[k] = "free" /\ Enqueue(s, k, c, r)
        /\ UNCHANGED <<content, clock>>
        /\ retiring' = IF r THEN retiring \cup {s} ELSE retiring
    BY <1>2 DEF Request, Fresh
  <2> HIDE DEF r
  <2> QED
    BY <1>0, <2>1, RequestKeeps
<1>3. ASSUME NEW s \in Space, NEW k \in Key, Retire(s, k)
      PROVE  IInv'
  <2> DEFINE r == TRUE
  <2>1. /\ r \in BOOLEAN /\ idem[k] = "free" /\ UNCHANGED <<content, clock>>
        /\ retiring' = retiring \cup {s}
        /\ retiring' = IF r THEN retiring \cup {s} ELSE retiring
        /\ Enqueue(s, k, r, r) \/ Supersede(s, k)
    BY <1>3 DEF Retire, Fresh
  <2> HIDE DEF r
  <2> QED
    BY <1>0, <2>1, RequestKeeps, SupersedeAll
<1>4. ASSUME NEW k \in Key, RunRetention(k)
      PROVE  IInv'
  BY <1>0, <1>4, RunRetentionAll
<1>5. ASSUME NEW s \in Space, Age(s) \/ PlaceLegalHold(s) \/ ReleaseLegalHold(s)
      PROVE  IInv'
  BY <1>0, <1>5, FrameKeeps DEF Age, PlaceLegalHold, ReleaseLegalHold
<1>6. ASSUME NEW x \in Writer, CommitWrite(x)
      PROVE  IInv'
  BY <1>0, <1>6, CommitWriteAll
<1>7. ASSUME NEW x \in Writer, NEW s \in Space, BeginWrite(x, s)
      PROVE  IInv'
  BY <1>0, <1>7, FrameKeeps DEF BeginWrite
<1>8. ASSUME NEW w \in Worker, LoseClaim(w) \/ FailClaim(w) \/ Abandon(w)
      PROVE  IInv'
  BY <1>0, <1>8, FrameKeeps DEF LoseClaim, FailClaim, Abandon
<1>9. ASSUME NEW w \in Worker, ClaimNext(w) \/ ReleaseClaim(w)
      PROVE  IInv'
  <2>1. /\ SpaceInv'
        /\ \A o \in Op : op[o].status # "none" => op'[o].status # "none" /\ op'[o].key = op[o].key
        /\ \A o \in Op : op[o].status = "none" => op'[o] = op[o]
    BY <1>0, <1>9, ClaimNextKeeps, ReleaseClaimKeeps DEF IInv
  <2>2. UNCHANGED <<space, content, idem>>
    BY <1>9 DEF ClaimNext, ReleaseClaim
  <2> QED
    BY <1>0, <2>1, <2>2 DEF IInv, KeyInv, NoStaleContent
<1>10. ASSUME NEW w \in Worker, ExecuteClaim(w)
       PROVE  IInv'
  BY <1>0, <1>10, ExecuteAll
<1>11. ASSUME NEW o \in Op, LeaseExpires(o) \/ BackoffEnds(o)
       PROVE  IInv'
  BY <1>0, <1>11, TimerKeeps
<1> QED
  BY <1>1, <1>2, <1>3, <1>4, <1>5, <1>6, <1>7, <1>8, <1>9, <1>10, <1>11 DEF Next, Step

\* The invariant holds throughout.
LEMMA Invariance == Spec => []IInv
BY InitIInv, NextIInv, PTL DEF Spec

-----------------------------------------------------------------------------
(* Theorems                                                                *)

\* Whatever fails, a sealed space has one operation under way, for the
\* generation that it sealed, or a failed one for a new request to recover.
THEOREM FailureRecoverable == Spec => []SealedIsRecoverable
<1>1. IInv => SealedIsRecoverable
  BY DEF IInv, SpaceInv
<1> QED
  BY <1>1, Invariance, PTL

\* A space whose credential was disabled in order to retire it is never open
\* again, through failures, superseded operations and recoveries.
THEOREM RevocationStands == Spec => []RetirementSticks
<1>1. IInv => RetirementSticks
  BY DEF IInv, SpaceInv
<1> QED
  BY <1>1, Invariance, PTL

\* No row written before an erasure is in the space after it, however late
\* its writer commits.
THEOREM ErasedForGood == Spec => []NoStaleContent
<1>1. IInv => NoStaleContent
  BY DEF IInv
<1> QED
  BY <1>1, Invariance, PTL

\* One idempotency scope queues one operation.
THEOREM QueuedOnce == Spec => []OneOperationPerRequest
<1>1. IInv => OneOperationPerRequest
  <2> SUFFICES ASSUME IInv, NEW o \in Op, NEW p \in Op, op[o] # NoOp, op[p] # NoOp,
                      op[o].key = op[p].key, op[o].key # NoKey
               PROVE  o = p
    BY DEF OneOperationPerRequest
  <2>1. op[o].status # "none" /\ op[p].status # "none"
    BY RowType DEF IInv
  <2> QED
    BY <2>1 DEF IInv, KeyInv
<1> QED
  BY <1>1, Invariance, PTL

\* Content under a legal hold is never deleted: ExecuteClaim looks at the holds
\* in the transaction that deletes, not only when the operation is claimed.
THEOREM HoldsRespected == Spec => HeldContentKept
<1>1. IInv /\ [Next]_vars => [\A s \in held : content[s] \subseteq content'[s]]_vars
  <2> SUFFICES ASSUME IInv, Next PROVE \A s \in held : content[s] \subseteq content'[s]
    OBVIOUS
  <2>1. ASSUME NEW w \in Worker, ExecuteClaim(w)
        PROVE  \A s \in held : content[s] \subseteq content'[s]
    <3>1. TypeOK'
      BY NextType DEF IInv
    <3> QED
      BY <2>1, <3>1, ExecuteAll
  <2>2. ASSUME NEW x \in Writer, CommitWrite(x)
        PROVE  \A s \in held : content[s] \subseteq content'[s]
    BY <2>2 DEF CommitWrite, IInv, TypeOK
  <2>3. ASSUME \A w \in Worker : ~ExecuteClaim(w), \A x \in Writer : ~CommitWrite(x)
        PROVE  content' = content
    BY <2>3 DEF Next, Step, Request, Retire, RunRetention, Age, PlaceLegalHold, ReleaseLegalHold,
                BeginWrite, ClaimNext, LoseClaim, FailClaim, ReleaseClaim, Abandon,
                LeaseExpires, BackoffEnds
  <2> QED
    BY <2>1, <2>2, <2>3
<1> QED
  BY <1>1, Invariance, PTL DEF Spec, HeldContentKept

\* Until its lease passes, only the worker with the current fence ends or
\* requeues an operation.
THEOREM ClaimsExclusive == Spec => ClaimIsExclusive
<1> DEFINE Excl == \A o \in Op :
              op[o].status = "processing" /\ ~op[o].expired /\ op'[o].status # "processing"
              => \E w \in Worker : /\ claim[w] # NoClaim /\ claim[w].op = o
                                   /\ claim[w].fence = op[o].fence /\ claim'[w] # claim[w]
<1>1. IInv /\ [Next]_vars => [Excl]_vars
  <2> SUFFICES ASSUME IInv, Next, NEW o \in Op, op[o].status = "processing", ~op[o].expired,
                      op'[o].status # "processing"
               PROVE  \E w \in Worker : /\ claim[w] # NoClaim /\ claim[w].op = o
                                        /\ claim[w].fence = op[o].fence /\ claim'[w] # claim[w]
    OBVIOUS
  <2>0. TypeOK /\ TypeOK' /\ SpaceInv
    BY NextType DEF IInv
  <2>1. ASSUME NEW w \in Worker, ExecuteClaim(w) \/ ReleaseClaim(w)
        PROVE  /\ claim[w] # NoClaim /\ claim[w].op = o
               /\ claim[w].fence = op[o].fence /\ claim'[w] # claim[w]
    <3>1. op'[o] # op[o]
      OBVIOUS
    <3>2. ClaimHeld(w) /\ o = claim[w].op
      BY <2>0, <2>1, <3>1, ExecuteAll, ReleaseClaimKeeps
    <3>3. claim[w].phase \in {"execute", "release"} /\ claim \in [Worker -> {NoClaim} \cup
             [phase : {"execute", "release"}, op : Op, fence : Nat]]
      BY <2>0, <2>1 DEF ExecuteClaim, ReleaseClaim, TypeOK
    <3>4. claim'[w] = NoClaim \/ (claim[w].phase = "execute" /\ claim'[w].phase = "release")
      <4>1. claim[w] \in [phase : {"execute", "release"}, op : Op, fence : Nat]
        BY <2>0, <3>3, ClaimType
      <4>2. \/ claim' = [claim EXCEPT ![w] = NoClaim]
            \/ claim[w].phase = "execute" /\ claim' = [claim EXCEPT ![w].phase = "release"]
        BY <2>1 DEF ExecuteClaim, ReleaseClaim, Forget, Releasing
      <4> QED
        BY <3>3, <4>1, <4>2
    <3> QED
      BY <3>2, <3>3, <3>4 DEF ClaimHeld, NoClaim
  <2>2. ASSUME NEW w \in Worker, ClaimNext(w)
        PROVE  FALSE
    BY <2>0, <2>2, ClaimNextKeeps
  <2>3. ASSUME NEW s \in Space, NEW k \in Key, NEW c \in BOOLEAN, Request(s, k, c)
        PROVE  FALSE
    <3> DEFINE r == FALSE
    <3>1. /\ r \in BOOLEAN /\ idem[k] = "free" /\ Enqueue(s, k, c, r)
          /\ UNCHANGED <<content, clock>>
          /\ retiring' = IF r THEN retiring \cup {s} ELSE retiring
      BY <2>3 DEF Request, Fresh
    <3> HIDE DEF r
    <3> QED
      BY <2>0, <3>1, RequestKeeps
  <2>4. ASSUME NEW s \in Space, NEW k \in Key, Retire(s, k)
        PROVE  FALSE
    <3> DEFINE r == TRUE
    <3>1. /\ r \in BOOLEAN /\ idem[k] = "free" /\ UNCHANGED <<content, clock>>
          /\ retiring' = retiring \cup {s}
          /\ retiring' = IF r THEN retiring \cup {s} ELSE retiring
          /\ Enqueue(s, k, r, r) \/ Supersede(s, k)
      BY <2>4 DEF Retire, Fresh
    <3> HIDE DEF r
    <3> QED
      BY <2>0, <3>1, RequestKeeps, SupersedeAll
  <2>5. ASSUME NEW k \in Key, RunRetention(k)
        PROVE  FALSE
    BY <2>0, <2>5, RunRetentionAll
  <2>6. ASSUME NEW p \in Op, LeaseExpires(p) \/ BackoffEnds(p)
        PROVE  FALSE
    BY <2>0, <2>6, TimerKeeps
  <2>7. op' # op
    OBVIOUS
  <2> QED
    BY <2>1, <2>2, <2>3, <2>4, <2>5, <2>6, <2>7
    DEF Next, Step, Age, PlaceLegalHold, ReleaseLegalHold, BeginWrite, CommitWrite,
        LoseClaim, FailClaim, Abandon
<1> QED
  BY <1>1, Invariance, PTL DEF Spec, ClaimIsExclusive
=============================================================================
