--------------------- MODULE RememberIdempotency_proofs ---------------------
(***************************************************************************)
(* Theorems about RememberIdempotency, for every number of replicas, keys, *)
(* requests and calls, and for every set of faults.                        *)
(***************************************************************************)
EXTENDS RememberIdempotency, FiniteSetTheorems, TLAPS

Holders(p) == {c \in Call : P(c) = p /\ pc[c] \in HasSlot}

\* The admission counter is the number of invocations that hold a slot.
SlotCount == \A p \in Proc : slots[p] = Cardinality(Holders(p))

Settled  == {"unlock", "finish", "drop", "replay", "done"}
Settling == {"record", "recfence", "ownreplay"} \cup Settled

\* Who holds a key's transaction fence, and what it has already checked.
FenceInv ==
  \A k \in Key : xact[k] # NoTx =>
    /\ K(xact[k].call) = k
    /\ attempt[xact[k].call] = NoRow
    /\ Terminal(k) = {}
    /\ \A d \in Failed(k) : H(d) = H(xact[k].call)
    /\ xact[k].attached =>
         pc[xact[k].call] = (IF xact[k].outcome = "completed" THEN "apply" ELSE "insert")
    /\ ~xact[k].attached =>
         pc[xact[k].call] \in (IF xact[k].outcome = "completed" THEN Settling ELSE Settled)

\* A call inside its fenced section is the fence's attached holder.
SectionInv ==
  \A c \in Call : pc[c] \in {"apply", "insert"} =>
    /\ xact[K(c)].call = c
    /\ xact[K(c)].attached
    /\ xact[K(c)].outcome \in (IF pc[c] = "apply" THEN {"completed"} ELSE {"retryable", "final"})

\* A call with a row is past its last insert; only a completed row, landed
\* after its COMMIT was given up, may find its call about to record.
RowInv ==
  \A c \in Call : attempt[c] # NoRow =>
    pc[c] \in (IF attempt[c].outcome = "completed" THEN Settling ELSE Settled)

\* A call on its way to record a failure knows which.
FailureInv == \A c \in Call : pc[c] \in {"record", "recfence", "insert"} => failure[c] # "none"

\* What the calls, the fences and the ledger know of each other.
LedgerInv == /\ FailureInv /\ SectionInv /\ FenceInv /\ RowInv
             /\ OneTerminalRow /\ OneRequestPerKey

IInv == TypeOK /\ SlotCount /\ LedgerInv

-----------------------------------------------------------------------------
(* Types.                                                                  *)

LEMMA TypeInit == Init => TypeOK
BY DEF Init, TypeOK, Request, Row, NoRow, Outcomes, Tx, NoTx, NoReply, Pcs, HasEntry,
       Callback, LockErrors, Replies, EntryStates, K

\* Labels, answers and rows that the actions write are of their type.
LEMMA TypeFacts ==
  /\ {"idle", "wait", "admit", "poll", "repoll", "lookup", "prepare", "commit", "fence",
      "apply", "record", "recfence", "insert", "ownreplay", "unlock", "finish", "drop",
      "replay", "done"} \subseteq Pcs
  /\ {"none", "open", "started", "returned", "busy", "cancelled", "unavailable"}
       \subseteq EntryStates
  /\ \A kind \in {"conflict", "denied", "failed", "panic", "crashed"} \cup LockErrors :
       Bare(kind) \in Replies
  /\ \A d \in Call : Answer("completed", d) \in Replies /\ Answer("failed", d) \in Replies
BY DEF Pcs, HasEntry, Callback, EntryStates, LockErrors, Bare, Answer, Replies

\* A call's process, key and hash.
LEMMA RequestFacts ==
  ASSUME TypeOK, NEW c \in Call
  PROVE  P(c) \in Proc /\ K(c) \in Key /\ H(c) \in Hash
BY DEF TypeOK, Request, P, K, H

\* finish(err) publishes a result of the right type.
LEMMA FinishEntryType ==
  ASSUME TypeOK, NEW c \in Call, NEW r \in EntryStates, FinishEntry(c, r)
  PROVE  /\ local' \in [Proc -> [Key -> Call \cup {NoCall}]]
         /\ entry' \in [Call -> EntryStates]
BY RequestFacts DEF TypeOK, FinishEntry

LEMMA FreeSessionType ==
  ASSUME TypeOK, NEW c \in Call, FreeSession(c)
  PROVE  session' \in [Key -> Call \cup {NoCall}]
BY DEF TypeOK, FreeSession

LEMMA EndTxType ==
  ASSUME TypeOK, NEW c \in Call, EndTx(c)
  PROVE  began' \in [Call -> Nat]
BY DEF TypeOK, EndTx

LEMMA ReleaseType ==
  ASSUME TypeOK, NEW k \in Key, Release(k)
  PROVE  xact' \in [Key -> Tx \cup {NoTx}]
BY DEF TypeOK, Release

LEMMA HoldType ==
  ASSUME TypeOK, NEW c \in Call, NEW o \in {"completed", "retryable", "final"}, Hold(c, o)
  PROVE  xact' \in [Key -> Tx \cup {NoTx}]
<1>1. [call |-> c, outcome |-> o, created |-> began[c], attached |-> TRUE] \in Tx
  BY DEF TypeOK, Tx
<1> QED BY <1>1, RequestFacts DEF TypeOK, Hold

LEMMA DetachType ==
  ASSUME TypeOK, NEW k \in Key, xact[k] \in Tx, Detach(k)
  PROVE  xact' \in [Key -> Tx \cup {NoTx}]
<1>1. [xact[k] EXCEPT !.attached = FALSE] \in Tx  BY DEF Tx
<1> QED BY <1>1 DEF TypeOK, Detach

LEMMA InsertType ==
  ASSUME TypeOK, NEW c \in Call, NEW t \in Tx, Insert(c, t)
  PROVE  attempt' \in [Call -> Row \cup {NoRow}]
<1>1. [outcome |-> t.outcome, created |-> t.created] \in Row  BY DEF Tx, Row, Outcomes
<1> QED BY <1>1 DEF TypeOK, Insert

\* The transaction a call inside its fenced section holds.
LEMMA SectionTx ==
  ASSUME TypeOK, SectionInv, NEW c \in Call, pc[c] \in {"apply", "insert"}
  PROVE  xact[K(c)] \in Tx
BY RequestFacts DEF TypeOK, SectionInv, NoTx

\* A call about to release its slot is counted.
LEMMA SlotHeld ==
  ASSUME TypeOK, SlotCount, NEW c \in Call, pc[c] = "drop"
  PROVE  slots[P(c)] - 1 \in Nat
<1>1. IsFiniteSet(Holders(P(c)))
  BY CallAssumption, FS_Subset DEF Holders
<1>2. c \in Holders(P(c))
  BY DEF Holders, HasSlot
<1>3. Cardinality(Holders(P(c))) # 0
  BY <1>1, <1>2, FS_EmptySet
<1> QED BY <1>1, <1>3, FS_CardinalityType, RequestFacts DEF SlotCount

LEMMA LoadedIsCall == \A k \in Key : Loaded(k) \subseteq Call
BY DEF Loaded, Terminal, LatestFailed, Failed, Rows

LEMMA TypeStep == IInv /\ Next => TypeOK'
<1> SUFFICES ASSUME IInv, Next PROVE TypeOK'  OBVIOUS
<1> TypeOK /\ SlotCount /\ SectionInv /\ FailureInv  BY DEF IInv, LedgerInv
<1> USE TypeFacts DEF TypeOK, Goto, Reply
<1>1. ASSUME NEW c \in Call, Register(c) PROVE TypeOK'
  BY <1>1, RequestFacts DEF Register
<1>2. ASSUME NEW c \in Call, JoinWaiters(c) PROVE TypeOK'
  BY <1>2, RequestFacts DEF JoinWaiters
<1>3. ASSUME NEW c \in Call, Wake(c) PROVE TypeOK'
  <2>1. pc' \in [Call -> Pcs] /\ reply' \in [Call -> Replies]
    <3>1. CASE entry[waitsOn[c]] = "returned" /\ Goto(c, "replay") /\ UNCHANGED reply
      BY <3>1
    <3>2. CASE /\ entry[waitsOn[c]] \in LockErrors /\ Goto(c, "done")
               /\ Reply(c, Bare(entry[waitsOn[c]]))
      BY <3>2
    <3> QED BY <1>3, <3>1, <3>2 DEF Wake
  <2> QED BY <1>3, <2>1 DEF Wake
<1>4. ASSUME NEW c \in Call, CancelWait(c) PROVE TypeOK'
  BY <1>4 DEF CancelWait, LockErrors
<1>5. ASSUME NEW c \in Call, Admit(c) PROVE TypeOK'
  <2>1. CASE slots[P(c)] < Limit
    <3>1. ~(slots[P(c)] >= Limit)
      BY <2>1, RequestFacts, LimitAssumption
    <3>2. slots' = [slots EXCEPT ![P(c)] = @ + 1] /\ Goto(c, "poll") /\ UNCHANGED <<local, entry, reply>>
      BY <1>5, <3>1 DEF Admit
    <3> QED BY <1>5, <3>2, RequestFacts DEF Admit
  <2>2. CASE slots[P(c)] >= Limit
    <3>1. FinishEntry(c, "busy") /\ Reply(c, Bare("busy")) /\ Goto(c, "done") /\ UNCHANGED slots
      BY <1>5, <2>2, RequestFacts, LimitAssumption DEF Admit
    <3> QED BY <1>5, <3>1, FinishEntryType DEF Admit, LockErrors
  <2> QED BY <2>1, <2>2, RequestFacts, LimitAssumption
<1>6. ASSUME NEW c \in Call, CancelAdmit(c) PROVE TypeOK'
  BY <1>6, FinishEntryType DEF CancelAdmit, LockErrors
<1>7. ASSUME NEW c \in Call, TryLock(c) PROVE TypeOK'
  <2>1. CASE session[K(c)] = NoCall
    <3>1. (IF pc[c] = "poll" THEN "lookup" ELSE "unlock") \in Pcs  OBVIOUS
    <3>2. session' = [session EXCEPT ![K(c)] = c] /\ entry' = [entry EXCEPT ![c] = "started"]
      BY <1>7, <2>1 DEF TryLock
    <3>3. Goto(c, IF pc[c] = "poll" THEN "lookup" ELSE "unlock")
      BY <1>7, <2>1 DEF TryLock
    <3>4. pc' \in [Call -> Pcs]
      BY <3>1, <3>3
    <3> QED BY <1>7, <3>2, <3>4, RequestFacts DEF TryLock
  <2>2. CASE session[K(c)] # NoCall
    BY <1>7, <2>2 DEF TryLock
  <2> QED BY <2>1, <2>2
<1>8. ASSUME NEW c \in Call, PollError(c) PROVE TypeOK'
  BY <1>8, FinishEntryType DEF PollError, LockErrors
<1>9. ASSUME NEW c \in Call, Lookup(c) PROVE TypeOK'
  <2>1. pc' \in [Call -> Pcs]
    BY <1>9 DEF Lookup
  <2>2. reply' \in [Call -> Replies]
    BY <1>9, LoadedIsCall DEF Lookup
  <2> QED BY <1>9, <2>1, <2>2 DEF Lookup
<1>10. ASSUME NEW c \in Call, LookupError(c) PROVE TypeOK'
  BY <1>10 DEF LookupError, Fail
<1>11. ASSUME NEW c \in Call, Prepare(c) PROVE TypeOK'
  BY <1>11 DEF Prepare, Fail
<1>12. ASSUME NEW c \in Call, BeginCommit(c) PROVE TypeOK'
  <2>1. CASE K(c) \in writable
    BY <1>12, <2>1 DEF BeginCommit, StartTx
  <2>2. CASE K(c) \notin writable
    <3>1. Reply(c, Bare("denied")) /\ Goto(c, "unlock") /\ UNCHANGED <<clock, began>>
      BY <1>12, <2>2 DEF BeginCommit
    <3> QED BY <1>12, <3>1 DEF BeginCommit
  <2> QED BY <2>1, <2>2
<1>13. ASSUME NEW c \in Call, FenceCommit(c) PROVE TypeOK'
  BY <1>13, HoldType, EndTxType DEF FenceCommit
<1>14. ASSUME NEW c \in Call, ApplyCommit(c) PROVE TypeOK'
  <2>1. xact' \in [Key -> Tx \cup {NoTx}] /\ began' \in [Call -> Nat]
    BY <1>14, ReleaseType, EndTxType, RequestFacts DEF ApplyCommit
  <2>2. CASE FinallyFailed(K(c))
    BY <1>14, <2>1, <2>2 DEF ApplyCommit
  <2>3. CASE ~FinallyFailed(K(c))
    <3>1. Insert(c, xact[K(c)]) /\ Reply(c, Answer("completed", c)) /\ Goto(c, "unlock")
      BY <1>14, <2>3 DEF ApplyCommit
    <3>2. attempt' \in [Call -> Row \cup {NoRow}]
      BY <1>14, <3>1, InsertType, SectionTx DEF ApplyCommit
    <3> QED BY <1>14, <2>1, <3>1, <3>2 DEF ApplyCommit
  <2> QED BY <2>2, <2>3
<1>15. ASSUME NEW c \in Call, CommitError(c) PROVE TypeOK'
  BY <1>15, ReleaseType, EndTxType, RequestFacts DEF CommitError, Fail
<1>16. ASSUME NEW c \in Call, DetachCommit(c) PROVE TypeOK'
  BY <1>16, DetachType, EndTxType, SectionTx, RequestFacts DEF DetachCommit, Fail
<1>17. ASSUME NEW c \in Call, BeginRecord(c) PROVE TypeOK'
  BY <1>17 DEF BeginRecord, StartTx
<1>18. ASSUME NEW c \in Call, FenceRecord(c) PROVE TypeOK'
  BY <1>18, HoldType, EndTxType DEF FenceRecord, FailureInv
<1>19. ASSUME NEW c \in Call, InsertFailure(c) PROVE TypeOK'
  BY <1>19, ReleaseType, EndTxType, InsertType, SectionTx, RequestFacts DEF InsertFailure
<1>20. ASSUME NEW c \in Call, RecordError(c) PROVE TypeOK'
  BY <1>20, ReleaseType, EndTxType, RequestFacts DEF RecordError, Unrecorded
<1>21. ASSUME NEW c \in Call, DetachRecord(c) PROVE TypeOK'
  BY <1>21, DetachType, EndTxType, SectionTx, RequestFacts DEF DetachRecord, Unrecorded
<1>22. ASSUME NEW c \in Call, Replay(c) PROVE TypeOK'
  <2>1. reply' \in [Call -> Replies]
    <3>1. ReplayAnswer(c)  BY <1>22 DEF Replay
    <3>2. CASE K(c) \notin writable \/ Loaded(K(c)) = {}
      BY <3>1, <3>2 DEF ReplayAnswer, Unrecorded
    <3>3. ASSUME NEW d \in Loaded(K(c)), Reply(c, Bare("conflict")) \/ \E kind \in {"completed", "failed"} : Reply(c, Answer(kind, d))
          PROVE  reply' \in [Call -> Replies]
      <4>1. d \in Call  BY LoadedIsCall, RequestFacts
      <4>2. Bare("conflict") \in Replies /\ \A kind \in {"completed", "failed"} : Answer(kind, d) \in Replies
        BY <4>1
      <4> QED BY <3>3, <4>2
    <3> QED BY <3>1, <3>2, <3>3 DEF ReplayAnswer
  <2> QED BY <1>22, <2>1 DEF Replay
<1>23. ASSUME NEW c \in Call, ReplayError(c) PROVE TypeOK'
  BY <1>23 DEF ReplayError, Unrecorded
<1>24. ASSUME NEW c \in Call, Unlock(c) PROVE TypeOK'
  BY <1>24, FreeSessionType DEF Unlock
<1>25. ASSUME NEW c \in Call, Finish(c) PROVE TypeOK'
  BY <1>25, FinishEntryType DEF Finish
<1>26. ASSUME NEW c \in Call, Drop(c) PROVE TypeOK'
  BY <1>26, SlotHeld, RequestFacts DEF Drop, ReleaseAdmission
<1>27. ASSUME NEW c \in Call, Panic(c) PROVE TypeOK'
  BY <1>27, FreeSessionType, EndTxType, ReleaseType, RequestFacts DEF Panic
<1>28. ASSUME NEW k \in Key, LandDetached(k) PROVE TypeOK'
  BY <1>28, ReleaseType, InsertType DEF LandDetached, Tx
<1>29. ASSUME NEW k \in Key, LoseSession(k) PROVE TypeOK'
  BY <1>29 DEF LoseSession
<1>30. ASSUME NEW k \in Key, Revoke(k) PROVE TypeOK'
  BY <1>30 DEF Revoke
<1>31. ASSUME NEW p \in Proc, Crash(p) PROVE TypeOK'
  <2> DEFINE dead == {c \in Call : P(c) = p /\ pc[c] \notin {"idle", "done"}}
             open == {k \in Key : xact[k].attached /\ xact[k].call \in dead}
  <2>1. xact' \in [Key -> Tx \cup {NoTx}]
    <3>1. PICK sent \in SUBSET open :
             xact' = [k \in Key |-> IF k \notin open THEN xact[k]
                                    ELSE IF k \in sent THEN [xact[k] EXCEPT !.attached = FALSE]
                                    ELSE NoTx]
      BY <1>31 DEF Crash
    <3>2. \A k \in open : [xact[k] EXCEPT !.attached = FALSE] \in Tx
      <4> TAKE k \in open
      <4>1. xact[k] \in Tx  BY DEF NoTx
      <4> QED BY <4>1 DEF Tx
    <3> QED BY <3>1, <3>2
  <2>2. pc' \in [Call -> Pcs]
    BY <1>31 DEF Crash
  <2>3. reply' \in [Call -> Replies]
    BY <1>31 DEF Crash
  <2>4. local' \in [Proc -> [Key -> Call \cup {NoCall}]] /\ slots' \in [Proc -> Nat]
    BY <1>31 DEF Crash
  <2>5. session' \in [Key -> Call \cup {NoCall}]
    BY <1>31 DEF Crash
  <2>6. began' \in [Call -> Nat]
    BY <1>31 DEF Crash
  <2> QED BY <1>31, <2>1, <2>2, <2>3, <2>4, <2>5, <2>6 DEF Crash
<1>32. ASSUME UNCHANGED vars PROVE TypeOK'
  BY <1>32 DEF vars
<1> QED
  BY <1>1, <1>2, <1>3, <1>4, <1>5, <1>6, <1>7, <1>8, <1>9, <1>10, <1>11, <1>12, <1>13, <1>14, <1>15, <1>16, <1>17, <1>18, <1>19, <1>20, <1>21, <1>22, <1>23, <1>24, <1>25, <1>26, <1>27, <1>28, <1>29, <1>30, <1>31, <1>32 DEF Next, Progress, Trouble
-----------------------------------------------------------------------------
(* The admission counter.                                                  *)

\* A step of one call that neither gains nor loses a slot.
LEMMA SlotKept ==
  ASSUME TypeOK, SlotCount, NEW c \in Call, NEW l, Goto(c, l), UNCHANGED <<req, slots>>,
         pc[c] \in HasSlot <=> l \in HasSlot
  PROVE  SlotCount'
<1>1. \A p \in Proc : Holders(p)' = Holders(p)
  BY DEF Holders, TypeOK, Goto, P
<1> QED BY <1>1 DEF SlotCount

LEMMA HoldersFinite == \A p \in Proc : IsFiniteSet(Holders(p))
BY CallAssumption, FS_Subset DEF Holders

LEMMA SlotGained ==
  ASSUME TypeOK, SlotCount, NEW c \in Call, NEW l \in HasSlot, Goto(c, l), UNCHANGED req,
         pc[c] \notin HasSlot, slots' = [slots EXCEPT ![P(c)] = @ + 1]
  PROVE  SlotCount'
<1> SUFFICES ASSUME NEW p \in Proc PROVE slots'[p] = Cardinality(Holders(p)')
  BY DEF SlotCount
<1>1. CASE p = P(c)
  <2>1. Holders(p)' = Holders(p) \cup {c} /\ c \notin Holders(p)
    BY <1>1 DEF Holders, TypeOK, Goto, P
  <2>2. Cardinality(Holders(p)') = Cardinality(Holders(p)) + 1
    BY <2>1, HoldersFinite, FS_AddElement
  <2> QED BY <1>1, <2>2 DEF SlotCount, TypeOK
<1>2. CASE p # P(c)
  <2>1. Holders(p)' = Holders(p)
    BY <1>2 DEF Holders, TypeOK, Goto, P
  <2> QED BY <1>2, <2>1 DEF SlotCount, TypeOK
<1> QED BY <1>1, <1>2

LEMMA SlotLost ==
  ASSUME TypeOK, SlotCount, NEW c \in Call, NEW l, l \notin HasSlot, Goto(c, l), UNCHANGED req,
         pc[c] \in HasSlot, slots' = [slots EXCEPT ![P(c)] = @ - 1]
  PROVE  SlotCount'
<1> SUFFICES ASSUME NEW p \in Proc PROVE slots'[p] = Cardinality(Holders(p)')
  BY DEF SlotCount
<1>1. CASE p = P(c)
  <2>1. Holders(p)' = Holders(p) \ {c} /\ c \in Holders(p)
    BY <1>1 DEF Holders, TypeOK, Goto, P
  <2>2. Cardinality(Holders(p)') = Cardinality(Holders(p)) - 1
    BY <2>1, HoldersFinite, FS_RemoveElement
  <2> QED BY <1>1, <2>2 DEF SlotCount, TypeOK
<1>2. CASE p # P(c)
  <2>1. Holders(p)' = Holders(p)
    BY <1>2 DEF Holders, TypeOK, Goto, P
  <2> QED BY <1>2, <2>1 DEF SlotCount, TypeOK
<1> QED BY <1>1, <1>2

LEMMA SlotStep == IInv /\ Next => SlotCount'
<1> SUFFICES ASSUME IInv, Next PROVE SlotCount'  OBVIOUS
<1> TypeOK /\ SlotCount  BY DEF IInv
<1> USE DEF HasSlot, Callback
<1>1. ASSUME NEW c \in Call, Register(c) PROVE SlotCount'
  BY <1>1, SlotKept DEF Register
<1>2. ASSUME NEW c \in Call, JoinWaiters(c) PROVE SlotCount'
  BY <1>2, SlotKept DEF JoinWaiters
<1>3. ASSUME NEW c \in Call, Wake(c) PROVE SlotCount'
  BY <1>3, SlotKept DEF Wake
<1>4. ASSUME NEW c \in Call, CancelWait(c) PROVE SlotCount'
  BY <1>4, SlotKept DEF CancelWait
<1>5. ASSUME NEW c \in Call, CancelAdmit(c) PROVE SlotCount'
  BY <1>5, SlotKept DEF CancelAdmit
<1>6. ASSUME NEW c \in Call, PollError(c) PROVE SlotCount'
  BY <1>6, SlotKept DEF PollError
<1>7. ASSUME NEW c \in Call, Lookup(c) PROVE SlotCount'
  BY <1>7, SlotKept DEF Lookup
<1>8. ASSUME NEW c \in Call, LookupError(c) PROVE SlotCount'
  BY <1>8, SlotKept DEF LookupError, Fail
<1>9. ASSUME NEW c \in Call, Prepare(c) PROVE SlotCount'
  BY <1>9, SlotKept DEF Prepare, Fail
<1>10. ASSUME NEW c \in Call, BeginCommit(c) PROVE SlotCount'
  BY <1>10, SlotKept DEF BeginCommit
<1>11. ASSUME NEW c \in Call, FenceCommit(c) PROVE SlotCount'
  BY <1>11, SlotKept DEF FenceCommit
<1>12. ASSUME NEW c \in Call, ApplyCommit(c) PROVE SlotCount'
  BY <1>12, SlotKept DEF ApplyCommit
<1>13. ASSUME NEW c \in Call, CommitError(c) PROVE SlotCount'
  BY <1>13, SlotKept DEF CommitError, Fail
<1>14. ASSUME NEW c \in Call, DetachCommit(c) PROVE SlotCount'
  BY <1>14, SlotKept DEF DetachCommit, Fail
<1>15. ASSUME NEW c \in Call, BeginRecord(c) PROVE SlotCount'
  BY <1>15, SlotKept DEF BeginRecord
<1>16. ASSUME NEW c \in Call, FenceRecord(c) PROVE SlotCount'
  BY <1>16, SlotKept DEF FenceRecord
<1>17. ASSUME NEW c \in Call, InsertFailure(c) PROVE SlotCount'
  BY <1>17, SlotKept DEF InsertFailure
<1>18. ASSUME NEW c \in Call, RecordError(c) PROVE SlotCount'
  BY <1>18, SlotKept DEF RecordError
<1>19. ASSUME NEW c \in Call, DetachRecord(c) PROVE SlotCount'
  BY <1>19, SlotKept DEF DetachRecord
<1>20. ASSUME NEW c \in Call, Replay(c) PROVE SlotCount'
  BY <1>20, SlotKept DEF Replay
<1>21. ASSUME NEW c \in Call, ReplayError(c) PROVE SlotCount'
  BY <1>21, SlotKept DEF ReplayError
<1>22. ASSUME NEW c \in Call, Unlock(c) PROVE SlotCount'
  BY <1>22, SlotKept DEF Unlock
<1>23. ASSUME NEW c \in Call, Finish(c) PROVE SlotCount'
  BY <1>23, SlotKept DEF Finish
<1>24. ASSUME NEW c \in Call, Panic(c) PROVE SlotCount'
  BY <1>24, SlotKept DEF Panic
<1>25. ASSUME NEW c \in Call, Admit(c) PROVE SlotCount'
  BY <1>25, SlotKept, SlotGained DEF Admit
<1>26. ASSUME NEW c \in Call, TryLock(c) PROVE SlotCount'
  BY <1>26, SlotKept DEF TryLock
<1>27. ASSUME NEW c \in Call, Drop(c) PROVE SlotCount'
  BY <1>27, SlotLost DEF Drop, ReleaseAdmission
<1>28. ASSUME UNCHANGED <<req, pc, slots>> PROVE SlotCount'
  BY <1>28 DEF SlotCount, Holders, P
<1>29. ASSUME NEW p \in Proc, Crash(p) PROVE SlotCount'
  <2> SUFFICES ASSUME NEW q \in Proc PROVE slots'[q] = Cardinality(Holders(q)')
    BY DEF SlotCount
  <2>1. CASE q = p
    <3>1. Holders(q)' = {}
      BY <1>29, <2>1 DEF Crash, Holders, P, TypeOK
    <3> QED BY <1>29, <2>1, <3>1, FS_EmptySet DEF Crash, TypeOK
  <2>2. CASE q # p
    <3>1. Holders(q)' = Holders(q)
      BY <1>29, <2>2 DEF Crash, Holders, P, TypeOK
    <3> QED BY <1>29, <2>2, <3>1 DEF Crash, TypeOK, SlotCount
  <2> QED BY <2>1, <2>2
<1> QED
  BY <1>1, <1>2, <1>3, <1>4, <1>5, <1>6, <1>7, <1>8, <1>9, <1>10, <1>11, <1>12, <1>13, <1>14, <1>15, <1>16, <1>17, <1>18, <1>19, <1>20, <1>21, <1>22, <1>23, <1>24, <1>25, <1>26, <1>27, <1>28, <1>29
     DEF Next, Progress, Trouble, LandDetached, LoseSession, Revoke, vars

-----------------------------------------------------------------------------
(* The ledger.  Each action is one of six effects on fences and rows.      *)

LEMMA LedgerKept ==
  ASSUME UNCHANGED <<req, attempt>>
  PROVE  /\ \A c : K(c)' = K(c) /\ H(c)' = H(c)
         /\ \A k : Terminal(k)' = Terminal(k) /\ Failed(k)' = Failed(k)
         /\ OneTerminalRow => OneTerminalRow'
         /\ OneRequestPerKey => OneRequestPerKey'
BY DEF K, H, Rows, Terminal, Failed, OneTerminalRow, OneRequestPerKey

\* The holder of a fence is a call of that key.
LEMMA FenceHolder ==
  ASSUME TypeOK, FenceInv, NEW k \in Key, xact[k] # NoTx
  PROVE  /\ xact[k] \in Tx
         /\ xact[k].call \in Call
         /\ K(xact[k].call) = k
BY DEF TypeOK, FenceInv, Tx

\* A call moves outside the fenced sections; nothing else changes.
LEMMA QuietStep ==
  ASSUME TypeOK, LedgerInv, NEW c \in Call, NEW l, Goto(c, l), UNCHANGED <<req, xact, attempt>>,
         pc[c] \notin {"apply", "insert"}, l \notin {"apply", "insert"},
         pc[c] \in Settled => l \in Settled,
         pc[c] \in Settling => l \in Settling,
         \A d \in Call : d # c => failure'[d] = failure[d],
         l \in {"record", "recfence"} => failure'[c] # "none"
  PROVE  LedgerInv'
<1>1. FailureInv'
  BY DEF LedgerInv, FailureInv, Goto, TypeOK
<1>2. SectionInv'
  BY LedgerKept DEF LedgerInv, SectionInv, Goto, TypeOK
<1>3. FenceInv'
  <2> SUFFICES ASSUME NEW k \in Key, xact[k] # NoTx
               PROVE  /\ xact[k].attached => pc'[xact[k].call] = pc[xact[k].call]
                      /\ pc[xact[k].call] \in Settled => pc'[xact[k].call] \in Settled
                      /\ pc[xact[k].call] \in Settling => pc'[xact[k].call] \in Settling
    BY LedgerKept DEF LedgerInv, FenceInv
  <2>1. xact[k].call \in Call
    BY FenceHolder DEF LedgerInv
  <2>2. xact[k].attached => pc[xact[k].call] \in {"apply", "insert"}
    BY DEF LedgerInv, FenceInv
  <2> QED BY <2>1, <2>2 DEF Goto, TypeOK
<1>4. RowInv'
  BY DEF LedgerInv, RowInv, Goto, TypeOK
<1> QED BY <1>1, <1>2, <1>3, <1>4, LedgerKept DEF LedgerInv

\* A call that found its key open takes the fence.
LEMMA HoldStep ==
  ASSUME TypeOK, LedgerInv, NEW c \in Call, NEW o \in {"completed", "retryable", "final"},
         UNCHANGED <<req, attempt, failure>>, Hold(c, o),
         Goto(c, IF o = "completed" THEN "apply" ELSE "insert"),
         pc[c] \in {"fence", "recfence"},
         o # "completed" => failure[c] # "none",
         xact[K(c)] = NoTx, Terminal(K(c)) = {}, ~HashMismatch(c)
  PROVE  LedgerInv'
<1> DEFINE l == IF o = "completed" THEN "apply" ELSE "insert"
<1>k. K(c) \in Key  BY RequestFacts
<1>r. attempt[c] = NoRow
  <2>1. attempt[c] # NoRow => pc[c] = "recfence" /\ attempt[c].outcome = "completed"
    BY DEF LedgerInv, RowInv, Settling, Settled
  <2>2. attempt[c].outcome = "completed" => c \in Terminal(K(c))
    BY DEF Terminal, Rows
  <2> QED BY <2>1, <2>2
<1>p. pc' = [pc EXCEPT ![c] = l] /\ pc'[c] = l
  BY DEF Goto, TypeOK
<1>x. /\ xact'[K(c)] = [call |-> c, outcome |-> o, created |-> began[c], attached |-> TRUE]
      /\ \A k \in Key : k # K(c) => xact'[k] = xact[k]
  BY <1>k DEF Hold, TypeOK
<1>1. FailureInv'
  BY <1>p DEF LedgerInv, FailureInv, TypeOK
<1>2. SectionInv'
  <2> SUFFICES ASSUME NEW d \in Call, pc'[d] \in {"apply", "insert"}
               PROVE  /\ xact'[K(d)].call = d
                      /\ xact'[K(d)].attached
                      /\ xact'[K(d)].outcome \in (IF pc'[d] = "apply" THEN {"completed"}
                                                 ELSE {"retryable", "final"})
    BY LedgerKept DEF SectionInv
  <2>1. CASE d = c
    BY <1>p, <1>x, <2>1
  <2>2. CASE d # c
    <3>1. pc'[d] = pc[d]  BY <1>p, <2>2 DEF TypeOK
    <3>2. xact[K(d)].call = d  BY <3>1 DEF LedgerInv, SectionInv
    <3>3. K(d) # K(c)  BY <3>2, CallAssumption DEF NoTx
    <3> QED BY <3>1, <3>3, <1>x, RequestFacts DEF LedgerInv, SectionInv
  <2> QED BY <2>1, <2>2
<1>3. FenceInv'
  <2> SUFFICES ASSUME NEW k \in Key, xact'[k] # NoTx
               PROVE  /\ K(xact'[k].call) = k
                      /\ attempt[xact'[k].call] = NoRow
                      /\ Terminal(k) = {}
                      /\ \A d \in Failed(k) : H(d) = H(xact'[k].call)
                      /\ xact'[k].attached => pc'[xact'[k].call] =
                           (IF xact'[k].outcome = "completed" THEN "apply" ELSE "insert")
                      /\ ~xact'[k].attached => pc'[xact'[k].call] \in
                           (IF xact'[k].outcome = "completed" THEN Settling ELSE Settled)
    BY LedgerKept DEF FenceInv
  <2>1. CASE k = K(c)
    BY <1>p, <1>x, <1>r, <2>1 DEF HashMismatch
  <2>2. CASE k # K(c)
    <3>1. xact'[k] = xact[k]  BY <1>x, <2>2
    <3>2. xact[k].call \in Call /\ xact[k].call # c
      BY <2>2, <3>1, FenceHolder DEF LedgerInv
    <3>3. pc'[xact[k].call] = pc[xact[k].call]
      BY <1>p, <3>2 DEF TypeOK
    <3> QED BY <3>1, <3>3 DEF LedgerInv, FenceInv
  <2> QED BY <2>1, <2>2
<1>4. RowInv'
  BY <1>p, <1>r DEF LedgerInv, RowInv, TypeOK
<1> QED BY <1>1, <1>2, <1>3, <1>4, LedgerKept DEF LedgerInv

\* The fence goes away without a row, and its holder leaves its section.
LEMMA AbortStep ==
  ASSUME TypeOK, LedgerInv, NEW k \in Key, NEW l,
         xact[k] # NoTx, Release(k), UNCHANGED <<req, attempt>>, Goto(xact[k].call, l),
         l \notin {"apply", "insert"},
         \A d \in Call : d # xact[k].call => failure'[d] = failure[d],
         l \in {"record", "recfence"} => failure'[xact[k].call] # "none"
  PROVE  LedgerInv'
<1> DEFINE c == xact[k].call
<1>c. c \in Call /\ K(c) = k /\ attempt[c] = NoRow
  BY FenceHolder DEF LedgerInv, FenceInv
<1>p. pc' = [pc EXCEPT ![c] = l] /\ pc'[c] = l
  BY <1>c DEF Goto, TypeOK
<1>x. xact'[k] = NoTx /\ \A j \in Key : j # k => xact'[j] = xact[j]
  BY DEF Release, TypeOK
<1> HIDE DEF c
<1>1. FailureInv'
  BY <1>p, <1>c DEF LedgerInv, FailureInv, TypeOK, c
<1>2. SectionInv'
  <2> SUFFICES ASSUME NEW d \in Call, pc'[d] \in {"apply", "insert"}
               PROVE  pc'[d] = pc[d] /\ xact'[K(d)] = xact[K(d)]
    BY LedgerKept DEF LedgerInv, SectionInv
  <2>1. d # c  BY <1>p
  <2>2. pc'[d] = pc[d]  BY <1>p, <2>1 DEF TypeOK
  <2>3. K(d) # k  BY <2>1, <2>2 DEF LedgerInv, SectionInv, c
  <2> QED BY <2>2, <2>3, <1>x, RequestFacts
<1>3. FenceInv'
  <2> SUFFICES ASSUME NEW j \in Key, xact'[j] # NoTx
               PROVE  xact'[j] = xact[j] /\ pc'[xact[j].call] = pc[xact[j].call]
    BY LedgerKept DEF LedgerInv, FenceInv
  <2>1. j # k /\ xact'[j] = xact[j]  BY <1>x
  <2>2. xact[j].call \in Call /\ xact[j].call # c
    BY <2>1, <1>c, FenceHolder DEF LedgerInv
  <2> QED BY <2>1, <2>2, <1>p DEF TypeOK
<1>4. RowInv'
  BY <1>p, <1>c DEF LedgerInv, RowInv, TypeOK
<1> QED BY <1>1, <1>2, <1>3, <1>4, LedgerKept DEF LedgerInv

\* The transaction behind the fence commits its row.
LEMMA LandStep ==
  ASSUME TypeOK, LedgerInv, NEW k \in Key, NEW l,
         xact[k] # NoTx, Release(k), Insert(xact[k].call, xact[k]),
         UNCHANGED <<req, failure>>, Goto(xact[k].call, l),
         l \in (IF xact[k].outcome = "completed" THEN Settling ELSE Settled),
         l \in {"record", "recfence"} => failure[xact[k].call] # "none"
  PROVE  LedgerInv'
<1> DEFINE c == xact[k].call
           row == [outcome |-> xact[k].outcome, created |-> xact[k].created]
<1>c. /\ c \in Call /\ K(c) = k /\ attempt[c] = NoRow
      /\ Terminal(k) = {} /\ \A d \in Failed(k) : H(d) = H(c)
  BY FenceHolder DEF LedgerInv, FenceInv
<1>p. pc' = [pc EXCEPT ![c] = l] /\ pc'[c] = l
  BY <1>c DEF Goto, TypeOK
<1>x. xact'[k] = NoTx /\ \A j \in Key : j # k => xact'[j] = xact[j]
  BY DEF Release, TypeOK
<1>a. attempt'[c] = row /\ \A d \in Call : d # c => attempt'[d] = attempt[d]
  BY <1>c DEF Insert, TypeOK
<1>o. row.outcome \in {"completed", "retryable", "final"} /\ row.outcome = xact[k].outcome
  BY FenceHolder DEF LedgerInv, Tx
<1>q. \A d : K(d)' = K(d) /\ H(d)' = H(d)
  BY DEF K, H
<1>t. \A d \in Call : attempt[d].outcome \in {"none"} \cup Outcomes
  BY DEF TypeOK, Row, NoRow
<1> HIDE DEF c, row
<1>1. FailureInv'
  BY <1>p, <1>c DEF LedgerInv, FailureInv, TypeOK, c, Settled, Settling
<1>2. SectionInv'
  <2> SUFFICES ASSUME NEW d \in Call, pc'[d] \in {"apply", "insert"}
               PROVE  pc'[d] = pc[d] /\ xact'[K(d)] = xact[K(d)]
    BY <1>q DEF LedgerInv, SectionInv
  <2>1. d # c  BY <1>p DEF Settled, Settling
  <2>2. pc'[d] = pc[d]  BY <1>p, <2>1 DEF TypeOK
  <2>3. K(d) # k  BY <2>1, <2>2 DEF LedgerInv, SectionInv, c
  <2> QED BY <2>2, <2>3, <1>x, RequestFacts
<1>3. FenceInv'
  <2> SUFFICES ASSUME NEW j \in Key, xact'[j] # NoTx
               PROVE  /\ xact'[j] = xact[j]
                      /\ pc'[xact[j].call] = pc[xact[j].call]
                      /\ attempt'[xact[j].call] = attempt[xact[j].call]
                      /\ Terminal(j)' = Terminal(j)
                      /\ Failed(j)' = Failed(j)
    BY <1>q DEF LedgerInv, FenceInv
  <2>1. j # k /\ xact'[j] = xact[j]  BY <1>x
  <2>2. xact[j].call \in Call /\ xact[j].call # c
    BY <2>1, <1>c, FenceHolder DEF LedgerInv
  <2>3. Terminal(j)' = Terminal(j) /\ Failed(j)' = Failed(j)
    BY <2>1, <1>a, <1>c, <1>q DEF Terminal, Failed, Rows
  <2> QED BY <2>1, <2>2, <2>3, <1>p, <1>a DEF TypeOK
<1>4. RowInv'
  <2> SUFFICES ASSUME NEW d \in Call, attempt'[d] # NoRow
               PROVE  pc'[d] \in (IF attempt'[d].outcome = "completed" THEN Settling ELSE Settled)
    BY DEF RowInv
  <2>1. CASE d = c
    BY <2>1, <1>a, <1>p, <1>o
  <2>2. CASE d # c
    BY <2>2, <1>a, <1>p DEF LedgerInv, RowInv, TypeOK
  <2> QED BY <2>1, <2>2
<1>5. OneTerminalRow'
  <2>1. \A d \in Call : d # c /\ K(d) = k => attempt[d].outcome \notin {"completed", "retired"}
    BY <1>c DEF Terminal, Rows
  <2> SUFFICES ASSUME NEW d \in Call, NEW e \in Call, K(d) = K(e),
                      attempt'[d].outcome \in {"completed", "retired"},
                      attempt'[e].outcome \in {"completed", "retired"}
               PROVE  d = e
    BY <1>q DEF OneTerminalRow
  <2>2. CASE d = c \/ e = c
    BY <2>1, <2>2, <1>a, <1>c
  <2>3. CASE d # c /\ e # c
    BY <2>3, <1>a DEF LedgerInv, OneTerminalRow
  <2> QED BY <2>2, <2>3
<1>6. OneRequestPerKey'
  <2>1. \A d \in Rows(k) : H(d) = H(c)
    BY <1>c, <1>t DEF Terminal, Failed, Rows, Outcomes
  <2> SUFFICES ASSUME NEW j \in Key, NEW d \in Rows(j)', NEW e \in Rows(j)'
               PROVE  H(d) = H(e)
    BY <1>q DEF OneRequestPerKey
  <2>2. /\ d \in Call /\ e \in Call /\ K(d) = j /\ K(e) = j
        /\ d # c => d \in Rows(j)
        /\ e # c => e \in Rows(j)
    BY <1>a, <1>q DEF Rows
  <2>3. CASE j = k
    BY <2>1, <2>2, <2>3
  <2>4. CASE j # k
    BY <2>2, <2>4, <1>c DEF LedgerInv, OneRequestPerKey
  <2> QED BY <2>3, <2>4
<1> QED BY <1>1, <1>2, <1>3, <1>4, <1>5, <1>6 DEF LedgerInv

\* The holder of a fence gives up on its COMMIT and moves on.
LEMMA DetachStep ==
  ASSUME TypeOK, LedgerInv, NEW k \in Key, NEW l,
         xact[k] # NoTx, Detach(k), UNCHANGED <<req, attempt>>, Goto(xact[k].call, l),
         l \in (IF xact[k].outcome = "completed" THEN Settling ELSE Settled),
         \A d \in Call : d # xact[k].call => failure'[d] = failure[d],
         l \in {"record", "recfence"} => failure'[xact[k].call] # "none"
  PROVE  LedgerInv'
<1> DEFINE c == xact[k].call
<1>c. c \in Call /\ K(c) = k /\ attempt[c] = NoRow /\ xact[k] \in Tx
  BY FenceHolder DEF LedgerInv, FenceInv
<1>p. pc' = [pc EXCEPT ![c] = l] /\ pc'[c] = l
  BY <1>c DEF Goto, TypeOK
<1>x. /\ xact'[k] = [xact[k] EXCEPT !.attached = FALSE]
      /\ \A j \in Key : j # k => xact'[j] = xact[j]
  BY DEF Detach, TypeOK
<1>f. xact'[k].call = c /\ xact'[k].outcome = xact[k].outcome /\ xact'[k].attached = FALSE
  BY <1>x, <1>c DEF Tx
<1> HIDE DEF c
<1>1. FailureInv'
  BY <1>p, <1>c DEF LedgerInv, FailureInv, TypeOK, c, Settled, Settling
<1>2. SectionInv'
  <2> SUFFICES ASSUME NEW d \in Call, pc'[d] \in {"apply", "insert"}
               PROVE  pc'[d] = pc[d] /\ xact'[K(d)] = xact[K(d)]
    BY LedgerKept DEF LedgerInv, SectionInv
  <2>1. d # c  BY <1>p DEF Settled, Settling
  <2>2. pc'[d] = pc[d]  BY <1>p, <2>1 DEF TypeOK
  <2>3. K(d) # k  BY <2>1, <2>2 DEF LedgerInv, SectionInv, c
  <2> QED BY <2>2, <2>3, <1>x, RequestFacts
<1>3. FenceInv'
  <2> SUFFICES ASSUME NEW j \in Key, xact'[j] # NoTx
               PROVE  /\ K(xact'[j].call) = j
                      /\ attempt[xact'[j].call] = NoRow
                      /\ Terminal(j) = {}
                      /\ \A d \in Failed(j) : H(d) = H(xact'[j].call)
                      /\ xact'[j].attached => pc'[xact'[j].call] =
                           (IF xact'[j].outcome = "completed" THEN "apply" ELSE "insert")
                      /\ ~xact'[j].attached => pc'[xact'[j].call] \in
                           (IF xact'[j].outcome = "completed" THEN Settling ELSE Settled)
    BY LedgerKept DEF FenceInv
  <2>1. CASE j = k
    BY <2>1, <1>c, <1>p, <1>f DEF LedgerInv, FenceInv, c
  <2>2. CASE j # k
    <3>1. xact'[j] = xact[j]  BY <1>x, <2>2
    <3>2. xact[j].call \in Call /\ xact[j].call # c
      BY <2>2, <3>1, <1>c, FenceHolder DEF LedgerInv
    <3>3. pc'[xact[j].call] = pc[xact[j].call]
      BY <1>p, <3>2 DEF TypeOK
    <3> QED BY <3>1, <3>3 DEF LedgerInv, FenceInv
  <2> QED BY <2>1, <2>2
<1>4. RowInv'
  BY <1>p, <1>c DEF LedgerInv, RowInv, TypeOK
<1> QED BY <1>1, <1>2, <1>3, <1>4, LedgerKept DEF LedgerInv

\* A replica dies: its calls are over, their open transactions roll back or
\* are left to the server.
LEMMA CrashStep ==
  ASSUME TypeOK, LedgerInv, NEW p \in Proc, Crash(p)
  PROVE  LedgerInv'
<1> DEFINE dead == {c \in Call : P(c) = p /\ pc[c] \notin {"idle", "done"}}
           open == {k \in Key : xact[k].attached /\ xact[k].call \in dead}
<1>1. UNCHANGED <<req, attempt, failure>>
  BY DEF Crash
<1>2. \A c \in Call : pc'[c] = IF c \in dead THEN "done" ELSE pc[c]
  BY DEF Crash
<1>3. \A k \in Key : \/ xact'[k] = xact[k] /\ k \notin open
                     \/ xact'[k] = [xact[k] EXCEPT !.attached = FALSE] /\ k \in open
                     \/ xact'[k] = NoTx /\ k \in open
  BY DEF Crash
<1> HIDE DEF dead, open
<1>4. FailureInv'
  BY <1>1, <1>2 DEF LedgerInv, FailureInv
<1>5. SectionInv'
  <2> SUFFICES ASSUME NEW d \in Call, pc'[d] \in {"apply", "insert"}
               PROVE  pc'[d] = pc[d] /\ xact'[K(d)] = xact[K(d)]
    BY <1>1, LedgerKept DEF LedgerInv, SectionInv
  <2>1. pc'[d] = pc[d] /\ d \notin dead  BY <1>2
  <2>2. xact[K(d)].call = d  BY <2>1 DEF LedgerInv, SectionInv
  <2>3. K(d) \notin open  BY <2>1, <2>2 DEF open
  <2> QED BY <2>1, <2>3, <1>3, RequestFacts
<1>6. FenceInv'
  <2> SUFFICES ASSUME NEW k \in Key, xact'[k] # NoTx
               PROVE  /\ K(xact'[k].call) = k
                      /\ attempt[xact'[k].call] = NoRow
                      /\ Terminal(k) = {}
                      /\ \A d \in Failed(k) : H(d) = H(xact'[k].call)
                      /\ xact'[k].attached => pc'[xact'[k].call] =
                           (IF xact'[k].outcome = "completed" THEN "apply" ELSE "insert")
                      /\ ~xact'[k].attached => pc'[xact'[k].call] \in
                           (IF xact'[k].outcome = "completed" THEN Settling ELSE Settled)
    BY <1>1, LedgerKept DEF FenceInv
  <2>1. CASE xact'[k] = xact[k] /\ k \notin open
    <3>1. xact[k].call \in Call  BY <2>1, FenceHolder DEF LedgerInv
    <3>2. xact[k].attached => xact[k].call \notin dead  BY <2>1 DEF open
    <3>3. "done" \in Settled /\ "done" \in Settling  BY DEF Settled, Settling
    <3> QED BY <2>1, <3>1, <3>2, <3>3, <1>2 DEF LedgerInv, FenceInv
  <2>2. CASE xact'[k] = [xact[k] EXCEPT !.attached = FALSE] /\ k \in open
    <3>1. xact[k] # NoTx /\ xact[k].call \in dead  BY <2>2 DEF open, NoTx
    <3>2. xact[k] \in Tx /\ xact[k].call \in Call  BY <3>1, FenceHolder DEF LedgerInv
    <3>3. /\ xact'[k].call = xact[k].call /\ xact'[k].outcome = xact[k].outcome
          /\ xact'[k].attached = FALSE
      BY <2>2, <3>2 DEF Tx
    <3>4. pc'[xact[k].call] = "done"  BY <3>1, <3>2, <1>2
    <3> QED BY <3>1, <3>3, <3>4 DEF LedgerInv, FenceInv, Settled, Settling
  <2> QED BY <2>1, <2>2, <1>3
<1>7. RowInv'
  BY <1>1, <1>2 DEF LedgerInv, RowInv, Settled, Settling
<1> QED BY <1>1, <1>4, <1>5, <1>6, <1>7, LedgerKept DEF LedgerInv

\* A call inside its section is the holder of its key's fence.
LEMMA SectionHolder ==
  ASSUME TypeOK, SectionInv, NEW c \in Call, pc[c] \in {"apply", "insert"}
  PROVE  /\ K(c) \in Key /\ xact[K(c)] # NoTx /\ xact[K(c)].call = c
         /\ pc[c] = "apply" => xact[K(c)].outcome = "completed"
         /\ pc[c] = "insert" => xact[K(c)].outcome # "completed"
BY RequestFacts DEF TypeOK, SectionInv, NoTx

LEMMA LedgerStep == IInv /\ Next => LedgerInv'
<1> SUFFICES ASSUME IInv, Next PROVE LedgerInv'  OBVIOUS
<1> TypeOK /\ LedgerInv /\ SectionInv /\ FailureInv /\ FenceInv  BY DEF IInv, LedgerInv
<1> USE DEF Settled, Settling
<1>1. ASSUME NEW c \in Call, Register(c) PROVE LedgerInv'
  BY <1>1, QuietStep DEF Register
<1>2. ASSUME NEW c \in Call, JoinWaiters(c) PROVE LedgerInv'
  BY <1>2, QuietStep DEF JoinWaiters
<1>3. ASSUME NEW c \in Call, Wake(c) PROVE LedgerInv'
  BY <1>3, QuietStep DEF Wake
<1>4. ASSUME NEW c \in Call, CancelWait(c) PROVE LedgerInv'
  BY <1>4, QuietStep DEF CancelWait
<1>5. ASSUME NEW c \in Call, Admit(c) PROVE LedgerInv'
  BY <1>5, QuietStep DEF Admit
<1>6. ASSUME NEW c \in Call, CancelAdmit(c) PROVE LedgerInv'
  BY <1>6, QuietStep DEF CancelAdmit
<1>7. ASSUME NEW c \in Call, TryLock(c) PROVE LedgerInv'
  BY <1>7, QuietStep DEF TryLock
<1>8. ASSUME NEW c \in Call, PollError(c) PROVE LedgerInv'
  BY <1>8, QuietStep DEF PollError
<1>9. ASSUME NEW c \in Call, Lookup(c) PROVE LedgerInv'
  BY <1>9, QuietStep DEF Lookup
<1>10. ASSUME NEW c \in Call, BeginCommit(c) PROVE LedgerInv'
  BY <1>10, QuietStep DEF BeginCommit
<1>11. ASSUME NEW c \in Call, Replay(c) PROVE LedgerInv'
  BY <1>11, QuietStep DEF Replay
<1>12. ASSUME NEW c \in Call, ReplayError(c) PROVE LedgerInv'
  BY <1>12, QuietStep DEF ReplayError
<1>13. ASSUME NEW c \in Call, Unlock(c) PROVE LedgerInv'
  BY <1>13, QuietStep DEF Unlock
<1>14. ASSUME NEW c \in Call, Finish(c) PROVE LedgerInv'
  BY <1>14, QuietStep DEF Finish
<1>15. ASSUME NEW c \in Call, Drop(c) PROVE LedgerInv'
  BY <1>15, QuietStep DEF Drop
<1>16. ASSUME NEW c \in Call, LookupError(c) PROVE LedgerInv'
  BY <1>16, QuietStep DEF LookupError, Fail, TypeOK
<1>17. ASSUME NEW c \in Call, Prepare(c) PROVE LedgerInv'
  BY <1>17, QuietStep DEF Prepare, Fail, TypeOK
<1>18. ASSUME NEW c \in Call, BeginRecord(c) PROVE LedgerInv'
  BY <1>18, QuietStep DEF BeginRecord, FailureInv
<1>19. ASSUME NEW c \in Call, FenceCommit(c) PROVE LedgerInv'
  BY <1>19, QuietStep, HoldStep DEF FenceCommit
<1>20. ASSUME NEW c \in Call, FenceRecord(c) PROVE LedgerInv'
  BY <1>20, QuietStep, HoldStep DEF FenceRecord, FailureInv, TypeOK
<1>21. ASSUME NEW c \in Call, ApplyCommit(c) PROVE LedgerInv'
  BY <1>21, SectionHolder, AbortStep, LandStep DEF ApplyCommit
<1>22. ASSUME NEW c \in Call, InsertFailure(c) PROVE LedgerInv'
  BY <1>22, SectionHolder, LandStep DEF InsertFailure
<1>23. ASSUME NEW c \in Call, CommitError(c) PROVE LedgerInv'
  <2>1. /\ Goto(c, "record") /\ failure'[c] # "none"
        /\ \A d \in Call : d # c => failure'[d] = failure[d]
    BY <1>23 DEF CommitError, Fail, TypeOK
  <2>2. CASE pc[c] = "apply"
    <3>1. Release(K(c)) /\ UNCHANGED <<req, attempt>>
      BY <1>23, <2>2 DEF CommitError
    <3>2. K(c) \in Key /\ xact[K(c)] # NoTx /\ xact[K(c)].call = c
      BY <2>2, SectionHolder
    <3>3. /\ Goto(xact[K(c)].call, "record") /\ failure'[xact[K(c)].call] # "none"
          /\ \A d \in Call : d # xact[K(c)].call => failure'[d] = failure[d]
      BY <2>1, <3>2
    <3> QED BY <3>1, <3>2, <3>3, AbortStep
  <2>3. CASE pc[c] # "apply"
    BY <1>23, <2>1, <2>3, QuietStep DEF CommitError
  <2> QED BY <2>2, <2>3
<1>24. ASSUME NEW c \in Call, RecordError(c) PROVE LedgerInv'
  BY <1>24, SectionHolder, AbortStep, QuietStep DEF RecordError
<1>25. ASSUME NEW c \in Call, DetachCommit(c) PROVE LedgerInv'
  <2>1. /\ Goto(c, "record") /\ failure'[c] # "none"
        /\ \A d \in Call : d # c => failure'[d] = failure[d]
    BY <1>25 DEF DetachCommit, Fail, TypeOK
  <2> QED BY <1>25, <2>1, SectionHolder, DetachStep DEF DetachCommit
<1>26. ASSUME NEW c \in Call, DetachRecord(c) PROVE LedgerInv'
  BY <1>26, SectionHolder, DetachStep DEF DetachRecord
<1>27. ASSUME NEW c \in Call, Panic(c) PROVE LedgerInv'
  BY <1>27, SectionHolder, AbortStep, QuietStep DEF Panic, Callback
<1>28. ASSUME NEW k \in Key, LandDetached(k) PROVE LedgerInv'
  <2>1. Goto(xact[k].call, pc[xact[k].call])
    BY <1>28 DEF LandDetached, Goto, TypeOK
  <2>2. pc[xact[k].call] \in (IF xact[k].outcome = "completed" THEN Settling ELSE Settled)
    BY <1>28 DEF LandDetached, FenceInv
  <2>3. pc[xact[k].call] \in {"record", "recfence"} => failure[xact[k].call] # "none"
    BY <1>28, FenceHolder DEF LandDetached, FailureInv
  <2>4. CASE Insert(xact[k].call, xact[k])
    BY <1>28, <2>1, <2>2, <2>3, <2>4, LandStep DEF LandDetached
  <2>5. CASE UNCHANGED attempt
    BY <1>28, <2>1, <2>2, <2>3, <2>5, AbortStep DEF LandDetached
  <2> QED BY <1>28, <2>4, <2>5 DEF LandDetached
<1>29. ASSUME UNCHANGED <<req, pc, xact, failure, attempt>> PROVE LedgerInv'
  BY <1>29, LedgerKept DEF LedgerInv, FailureInv, SectionInv, FenceInv, RowInv
<1> QED
  BY <1>1, <1>2, <1>3, <1>4, <1>5, <1>6, <1>7, <1>8, <1>9, <1>10, <1>11, <1>12, <1>13, <1>14, <1>15, <1>16, <1>17, <1>18, <1>19, <1>20, <1>21, <1>22, <1>23, <1>24, <1>25, <1>26, <1>27, <1>28, <1>29, CrashStep
     DEF Next, Progress, Trouble, LoseSession, Revoke, vars

-----------------------------------------------------------------------------
LEMMA LedgerInit == Init => SlotCount /\ LedgerInv
<1> SUFFICES ASSUME Init PROVE SlotCount /\ LedgerInv  OBVIOUS
<1>1. SlotCount
  <2>1. \A p \in Proc : Holders(p) = {}
    BY DEF Init, Holders, HasSlot, Callback
  <2> QED BY <2>1, FS_EmptySet DEF Init, SlotCount
<1>2. \A c, d \in Call : attempt[c].outcome # "none" /\ attempt[d].outcome # "none"
                         /\ K(c) = K(d) => c = d
  BY DEF Init, NoRow
<1>3. OneTerminalRow
  BY <1>2 DEF Init, OneTerminalRow
<1>4. OneRequestPerKey
  BY <1>2 DEF Init, OneRequestPerKey, Rows
<1>5. FailureInv /\ SectionInv
  BY DEF Init, FailureInv, SectionInv
<1>6. FenceInv
  BY DEF Init, FenceInv
<1>7. RowInv
  BY DEF Init, RowInv, Settled, Settling, NoRow
<1> QED BY <1>1, <1>3, <1>4, <1>5, <1>6, <1>7 DEF LedgerInv

LEMMA Inductive == Spec => []IInv
<1>1. Init => IInv
  BY TypeInit, LedgerInit DEF IInv
<1>2. IInv /\ [Next]_vars => IInv'
  <2>1. IInv /\ Next => IInv'
    BY TypeStep, SlotStep, LedgerStep DEF IInv
  <2>2. IInv /\ UNCHANGED vars => IInv'
    <3> SUFFICES ASSUME IInv, UNCHANGED vars PROVE IInv'  OBVIOUS
    <3>1. TypeOK'  BY DEF IInv, TypeOK, vars
    <3>2. SlotCount'  BY DEF IInv, SlotCount, Holders, P, vars
    <3>3. LedgerInv'
      BY LedgerKept DEF IInv, LedgerInv, FailureInv, SectionInv, FenceInv, RowInv, vars
    <3> QED BY <3>1, <3>2, <3>3 DEF IInv
  <2> QED BY <2>1, <2>2
<1> QED BY <1>1, <1>2, PTL DEF Spec

\* Every variable keeps its type in every behaviour of the service.
THEOREM TypeCorrect == Spec => []TypeOK
BY Inductive, PTL DEF IInv

\* A key never gets a second completed (or historical) row, for any number
\* of replicas and calls and under every fault: no lock, entry or slot is
\* needed for it, only the transaction fence and the checks behind it.
THEOREM KeyDecidedOnce == Spec => []OneTerminalRow
<1>1. IInv => OneTerminalRow  BY DEF IInv, LedgerInv
<1> QED BY Inductive, <1>1, PTL

\* All rows of a key carry one request hash.
THEOREM KeyBoundToRequest == Spec => []OneRequestPerKey
<1>1. IInv => OneRequestPerKey  BY DEF IInv, LedgerInv
<1> QED BY Inductive, <1>1, PTL

-----------------------------------------------------------------------------
(* Locks and entries.                                                      *)

\* The program points at which a call may hold its key's session lock.
Owning == Callback \cup {"unlock"}

\* A session lock belongs to an owner of that key that will unlock it.
SessionInv ==
  \A k \in Key : session[k] # NoCall =>
    K(session[k]) = k /\ pc[session[k]] \in Owning

\* A map entry belongs to a call of that process and key that will finish it.
EntryInv ==
  \A p \in Proc, k \in Key : local[p][k] # NoCall =>
    P(local[p][k]) = p /\ K(local[p][k]) = k /\ pc[local[p][k]] \in HasEntry

HoldInv == SessionInv /\ EntryInv

\* A step of one call that keeps the session locks.
LEMMA SessionKept ==
  ASSUME TypeOK, SessionInv, NEW c \in Call, NEW l, Goto(c, l), UNCHANGED <<req, session>>,
         pc[c] \in Owning => l \in Owning
  PROVE  SessionInv'
BY DEF SessionInv, TypeOK, Goto, K

LEMMA SessionTaken ==
  ASSUME TypeOK, SessionInv, NEW c \in Call, NEW l \in Owning, Goto(c, l), UNCHANGED req,
         session' = [session EXCEPT ![K(c)] = c]
  PROVE  SessionInv'
BY RequestFacts DEF SessionInv, TypeOK, Goto, K

LEMMA SessionFreed ==
  ASSUME TypeOK, SessionInv, NEW c \in Call, NEW l, Goto(c, l), UNCHANGED req, FreeSession(c)
  PROVE  SessionInv'
BY RequestFacts DEF SessionInv, TypeOK, Goto, K, FreeSession

\* A step of one call that keeps the map.
LEMMA EntryKept ==
  ASSUME TypeOK, EntryInv, NEW c \in Call, NEW l, Goto(c, l), UNCHANGED <<req, local>>,
         pc[c] \in HasEntry => l \in HasEntry
  PROVE  EntryInv'
BY DEF EntryInv, TypeOK, Goto, K, P

LEMMA EntryTaken ==
  ASSUME TypeOK, EntryInv, NEW c \in Call, NEW l \in HasEntry, Goto(c, l), UNCHANGED req,
         local' = [local EXCEPT ![P(c)][K(c)] = c]
  PROVE  EntryInv'
BY RequestFacts DEF EntryInv, TypeOK, Goto, K, P

LEMMA EntryFreed ==
  ASSUME TypeOK, EntryInv, NEW c \in Call, NEW l, NEW r, Goto(c, l), UNCHANGED req,
         FinishEntry(c, r)
  PROVE  EntryInv'
<1> SUFFICES ASSUME NEW p \in Proc, NEW k \in Key, local'[p][k] # NoCall
             PROVE  /\ P(local'[p][k]) = p /\ K(local'[p][k]) = k
                    /\ pc'[local'[p][k]] \in HasEntry
  BY DEF EntryInv, P, K
<1>1. /\ P(c) \in Proc /\ K(c) \in Key
      /\ local' = [local EXCEPT ![P(c)][K(c)] = NoCall]
  BY RequestFacts DEF FinishEntry
<1>2. ~(p = P(c) /\ k = K(c)) /\ local'[p][k] = local[p][k]
  BY <1>1 DEF TypeOK
<1>3. local[p][k] \in Call /\ local[p][k] # c
  BY <1>2 DEF EntryInv, TypeOK
<1> QED BY <1>2, <1>3 DEF EntryInv, Goto, TypeOK

LEMMA SessionStep == IInv /\ SessionInv /\ Next => SessionInv'
<1> SUFFICES ASSUME IInv, SessionInv, Next PROVE SessionInv'  OBVIOUS
<1> TypeOK  BY DEF IInv
<1> USE DEF Owning, Callback
<1>1. ASSUME NEW c \in Call, \/ Register(c) \/ JoinWaiters(c) \/ Wake(c) \/ CancelWait(c)
                             \/ Admit(c) \/ CancelAdmit(c) \/ PollError(c) \/ Finish(c) \/ Drop(c)
      PROVE  SessionInv'
  BY <1>1, SessionKept DEF Register, JoinWaiters, Wake, CancelWait, Admit, CancelAdmit, PollError,
       Finish, Drop
<1>2. ASSUME NEW c \in Call, \/ Lookup(c) \/ LookupError(c) \/ Prepare(c) \/ BeginCommit(c)
                             \/ Replay(c) \/ ReplayError(c)
      PROVE  SessionInv'
  BY <1>2, SessionKept DEF Lookup, LookupError, Prepare, BeginCommit, Replay, ReplayError, Fail
<1>3. ASSUME NEW c \in Call, \/ FenceCommit(c) \/ ApplyCommit(c) \/ CommitError(c) \/ DetachCommit(c)
      PROVE  SessionInv'
  BY <1>3, SessionKept DEF FenceCommit, ApplyCommit, CommitError, DetachCommit, Fail
<1>4. ASSUME NEW c \in Call, \/ BeginRecord(c) \/ FenceRecord(c) \/ InsertFailure(c) \/ RecordError(c)
                             \/ DetachRecord(c)
      PROVE  SessionInv'
  BY <1>4, SessionKept DEF BeginRecord, FenceRecord, InsertFailure, RecordError, DetachRecord
<1>5. ASSUME NEW c \in Call, TryLock(c) PROVE SessionInv'
  BY <1>5, SessionKept, SessionTaken DEF TryLock
<1>6. ASSUME NEW c \in Call, Unlock(c) \/ Panic(c) PROVE SessionInv'
  BY <1>6, SessionFreed DEF Unlock, Panic
<1>7. ASSUME NEW k \in Key, LoseSession(k) PROVE SessionInv'
  BY <1>7 DEF LoseSession, SessionInv, TypeOK, K
<1>8. ASSUME NEW p \in Proc, Crash(p) PROVE SessionInv'
  <2> DEFINE dead == {c \in Call : P(c) = p /\ pc[c] \notin {"idle", "done"}}
  <2>1. /\ \A k \in Key : session'[k] = IF session[k] \in dead THEN NoCall ELSE session[k]
        /\ \A c \in Call : pc'[c] = IF c \in dead THEN "done" ELSE pc[c]
        /\ UNCHANGED req
    BY <1>8 DEF Crash
  <2> HIDE DEF dead
  <2> QED BY <2>1 DEF SessionInv, TypeOK, K
<1>9. ASSUME UNCHANGED <<req, pc, session>> PROVE SessionInv'
  BY <1>9 DEF SessionInv, K
<1> QED
  BY <1>1, <1>2, <1>3, <1>4, <1>5, <1>6, <1>7, <1>8, <1>9
     DEF Next, Progress, Trouble, LandDetached, Revoke, vars

LEMMA EntryStep == IInv /\ EntryInv /\ Next => EntryInv'
<1> SUFFICES ASSUME IInv, EntryInv, Next PROVE EntryInv'  OBVIOUS
<1> TypeOK  BY DEF IInv
<1> USE DEF HasEntry, Callback
<1>1. ASSUME NEW c \in Call, \/ JoinWaiters(c) \/ Wake(c) \/ CancelWait(c) \/ TryLock(c) \/ Drop(c)
      PROVE  EntryInv'
  BY <1>1, EntryKept DEF JoinWaiters, Wake, CancelWait, TryLock, Drop
<1>2. ASSUME NEW c \in Call, \/ Lookup(c) \/ LookupError(c) \/ Prepare(c) \/ BeginCommit(c)
                             \/ Replay(c) \/ ReplayError(c) \/ Unlock(c) \/ Panic(c)
      PROVE  EntryInv'
  BY <1>2, EntryKept DEF Lookup, LookupError, Prepare, BeginCommit, Replay, ReplayError, Unlock,
       Panic, Fail
<1>3. ASSUME NEW c \in Call, \/ FenceCommit(c) \/ ApplyCommit(c) \/ CommitError(c) \/ DetachCommit(c)
      PROVE  EntryInv'
  BY <1>3, EntryKept DEF FenceCommit, ApplyCommit, CommitError, DetachCommit, Fail
<1>4. ASSUME NEW c \in Call, \/ BeginRecord(c) \/ FenceRecord(c) \/ InsertFailure(c) \/ RecordError(c)
                             \/ DetachRecord(c)
      PROVE  EntryInv'
  BY <1>4, EntryKept DEF BeginRecord, FenceRecord, InsertFailure, RecordError, DetachRecord
<1>5. ASSUME NEW c \in Call, Register(c) PROVE EntryInv'
  BY <1>5, EntryTaken DEF Register
<1>6. ASSUME NEW c \in Call, Admit(c) PROVE EntryInv'
  BY <1>6, EntryKept, EntryFreed DEF Admit
<1>7. ASSUME NEW c \in Call, CancelAdmit(c) \/ PollError(c) \/ Finish(c) PROVE EntryInv'
  BY <1>7, EntryFreed DEF CancelAdmit, PollError, Finish
<1>8. ASSUME NEW p \in Proc, Crash(p) PROVE EntryInv'
  <2> DEFINE dead == {c \in Call : P(c) = p /\ pc[c] \notin {"idle", "done"}}
  <2>1. /\ local' = [local EXCEPT ![p] = [k \in Key |-> NoCall]]
        /\ \A c \in Call : pc'[c] = IF c \in dead THEN "done" ELSE pc[c]
        /\ UNCHANGED req
    BY <1>8 DEF Crash
  <2>2. \A c \in dead : P(c) = p  OBVIOUS
  <2> HIDE DEF dead
  <2> SUFFICES ASSUME NEW q \in Proc, NEW k \in Key, local'[q][k] # NoCall
               PROVE  /\ P(local'[q][k]) = q /\ K(local'[q][k]) = k
                      /\ pc'[local'[q][k]] \in HasEntry
    BY <2>1 DEF EntryInv, P, K
  <2>3. q # p /\ local'[q][k] = local[q][k]
    BY <2>1 DEF TypeOK
  <2>4. local[q][k] \in Call /\ local[q][k] \notin dead
    BY <2>2, <2>3 DEF EntryInv, TypeOK
  <2> QED BY <2>1, <2>3, <2>4 DEF EntryInv
<1>9. ASSUME UNCHANGED <<req, pc, local>> PROVE EntryInv'
  BY <1>9 DEF EntryInv, K, P
<1> QED
  BY <1>1, <1>2, <1>3, <1>4, <1>5, <1>6, <1>7, <1>8, <1>9
     DEF Next, Progress, Trouble, LandDetached, LoseSession, Revoke, vars

LEMMA HoldInductive == Spec => []HoldInv
<1>1. Init => HoldInv
  BY DEF Init, HoldInv, SessionInv, EntryInv
<1>2. IInv /\ HoldInv /\ [Next]_vars => HoldInv'
  <2>1. IInv /\ HoldInv /\ Next => HoldInv'
    BY SessionStep, EntryStep DEF HoldInv
  <2>2. HoldInv /\ UNCHANGED vars => HoldInv'
    BY DEF HoldInv, SessionInv, EntryInv, K, P, vars
  <2> QED BY <2>1, <2>2
<1> QED BY <1>1, <1>2, Inductive, PTL DEF Spec

\* No lock, fence, entry or admission slot outlives the invocation that has
\* to give it back, whatever fails on the way.
THEOREM EverythingIsGivenBack == Spec => []NothingLeaks
<1>1. IInv /\ HoldInv => NothingLeaks
  <2> SUFFICES ASSUME IInv, HoldInv PROVE NothingLeaks  OBVIOUS
  <2>1. \A k \in Key : xact[k].attached =>
          pc[xact[k].call] = (IF xact[k].outcome = "completed" THEN "apply" ELSE "insert")
    BY DEF IInv, LedgerInv, FenceInv, NoTx
  <2>2. \A p \in Proc : slots[p] = Cardinality({c \in Call : P(c) = p /\ pc[c] \in HasSlot})
    BY DEF IInv, SlotCount, Holders
  <2> QED BY <2>1, <2>2 DEF HoldInv, SessionInv, EntryInv, Owning, NothingLeaks
<1> QED BY <1>1, Inductive, HoldInductive, PTL

-----------------------------------------------------------------------------
(* Write authority.                                                        *)

\* A commit transaction past its authorization, also one whose COMMIT was
\* given up, keeps the authority of its key from being revoked.
AuthorityInv ==
  /\ \A c \in Call : pc[c] \in {"fence", "apply"} => K(c) \in writable
  /\ \A k \in Key : xact[k].outcome = "completed" => k \in writable

\* A step of one call that takes no fence and starts no commit.
LEMMA AuthorityKept ==
  ASSUME TypeOK, AuthorityInv, NEW c \in Call, NEW l, Goto(c, l), UNCHANGED <<req, writable>>,
         l \notin {"fence", "apply"},
         \A k \in Key : xact'[k].outcome = "completed" => xact[k].outcome = "completed"
  PROVE  AuthorityInv'
BY DEF AuthorityInv, TypeOK, Goto, K

LEMMA ReleaseOutcome ==
  ASSUME TypeOK, NEW k \in Key, Release(k) \/ UNCHANGED xact
  PROVE  \A j \in Key : xact'[j].outcome = "completed" => xact[j].outcome = "completed"
BY DEF Release, TypeOK, NoTx

LEMMA DetachOutcome ==
  ASSUME TypeOK, NEW k \in Key, xact[k] \in Tx, Detach(k)
  PROVE  \A j \in Key : xact'[j].outcome = "completed" => xact[j].outcome = "completed"
<1>1. [xact[k] EXCEPT !.attached = FALSE].outcome = xact[k].outcome  BY DEF Tx
<1> QED BY <1>1 DEF Detach, TypeOK

LEMMA HoldOutcome ==
  ASSUME TypeOK, NEW c \in Call, NEW o, Hold(c, o)
  PROVE  \A j \in Key : xact'[j].outcome = "completed" =>
           xact[j].outcome = "completed" \/ (j = K(c) /\ o = "completed")
BY RequestFacts DEF Hold, TypeOK

LEMMA AuthorityStep == IInv /\ AuthorityInv /\ Next => AuthorityInv'
<1> SUFFICES ASSUME IInv, AuthorityInv, Next PROVE AuthorityInv'  OBVIOUS
<1> TypeOK /\ SectionInv  BY DEF IInv, LedgerInv
<1>1. ASSUME NEW c \in Call, \/ Register(c) \/ JoinWaiters(c) \/ Wake(c) \/ CancelWait(c)
                             \/ Admit(c) \/ CancelAdmit(c) \/ TryLock(c) \/ PollError(c)
                             \/ Unlock(c) \/ Finish(c) \/ Drop(c)
      PROVE  AuthorityInv'
  BY <1>1, AuthorityKept DEF Register, JoinWaiters, Wake, CancelWait, Admit, CancelAdmit, TryLock,
       PollError, Unlock, Finish, Drop
<1>2. ASSUME NEW c \in Call, \/ Lookup(c) \/ LookupError(c) \/ Prepare(c)
                             \/ BeginRecord(c) \/ Replay(c) \/ ReplayError(c)
      PROVE  AuthorityInv'
  BY <1>2, AuthorityKept DEF Lookup, LookupError, Prepare, BeginRecord, Replay, ReplayError, Fail
<1>3. ASSUME NEW c \in Call, \/ ApplyCommit(c) \/ CommitError(c) \/ InsertFailure(c)
                             \/ RecordError(c) \/ Panic(c)
      PROVE  AuthorityInv'
  <2>1. K(c) \in Key /\ (Release(K(c)) \/ UNCHANGED xact) /\ UNCHANGED <<req, writable>>
    BY <1>3, RequestFacts DEF ApplyCommit, CommitError, InsertFailure, RecordError, Panic
  <2>2. \E l \in {"ownreplay", "unlock", "record", "finish"} : Goto(c, l)
    BY <1>3 DEF ApplyCommit, CommitError, InsertFailure, RecordError, Panic, Fail
  <2> QED BY <2>1, <2>2, ReleaseOutcome, AuthorityKept
<1>4. ASSUME NEW c \in Call, DetachCommit(c) \/ DetachRecord(c) PROVE AuthorityInv'
  <2>1. K(c) \in Key /\ xact[K(c)] \in Tx /\ Detach(K(c)) /\ UNCHANGED <<req, writable>>
    BY <1>4, RequestFacts, SectionTx DEF DetachCommit, DetachRecord
  <2> QED BY <1>4, <2>1, DetachOutcome, AuthorityKept DEF DetachCommit, DetachRecord, Fail
<1>5. ASSUME NEW c \in Call, FenceRecord(c) PROVE AuthorityInv'
  <2>1. failure[c] # "completed"  BY DEF TypeOK
  <2> QED BY <1>5, <2>1, HoldOutcome, AuthorityKept DEF FenceRecord
<1>6. ASSUME NEW c \in Call, BeginCommit(c) PROVE AuthorityInv'
  BY <1>6 DEF BeginCommit, AuthorityInv, Goto, TypeOK, K
<1>7. ASSUME NEW c \in Call, FenceCommit(c) PROVE AuthorityInv'
  <2>1. K(c) \in writable  BY <1>7 DEF FenceCommit, AuthorityInv
  <2>2. CASE UNCHANGED xact
    BY <1>7, <2>1, <2>2 DEF FenceCommit, AuthorityInv, Goto, TypeOK, K
  <2>3. CASE Hold(c, "completed")
    BY <1>7, <2>1, <2>3, HoldOutcome DEF FenceCommit, AuthorityInv, Goto, TypeOK, K
  <2> QED BY <1>7, <2>2, <2>3 DEF FenceCommit
<1>8. ASSUME NEW k \in Key, LandDetached(k) PROVE AuthorityInv'
  BY <1>8, ReleaseOutcome DEF LandDetached, AuthorityInv, K
<1>9. ASSUME NEW k \in Key, Revoke(k) PROVE AuthorityInv'
  BY <1>9 DEF Revoke, AuthorityInv, K
<1>10. ASSUME NEW p \in Proc, Crash(p) PROVE AuthorityInv'
  <2>1. \A k \in Key : \/ xact'[k] = xact[k]
                       \/ xact'[k] = [xact[k] EXCEPT !.attached = FALSE] /\ xact[k].attached
                       \/ xact'[k] = NoTx
    BY <1>10 DEF Crash
  <2>2. \A k \in Key : xact'[k].outcome = "completed" => xact[k].outcome = "completed"
    <3> TAKE k \in Key
    <3>1. CASE xact'[k] = [xact[k] EXCEPT !.attached = FALSE] /\ xact[k].attached
      <4>1. xact[k] \in Tx  BY <3>1 DEF TypeOK, NoTx
      <4> QED BY <3>1, <4>1 DEF Tx
    <3> QED BY <2>1, <3>1 DEF NoTx
  <2>3. /\ \A c \in Call : pc'[c] = "done" \/ pc'[c] = pc[c]
        /\ UNCHANGED <<req, writable>>
    BY <1>10 DEF Crash
  <2> QED BY <2>2, <2>3 DEF AuthorityInv, K
<1>11. ASSUME UNCHANGED <<req, pc, xact, writable>> PROVE AuthorityInv'
  BY <1>11 DEF AuthorityInv, K
<1> QED
  BY <1>1, <1>2, <1>3, <1>4, <1>5, <1>6, <1>7, <1>8, <1>9, <1>10, <1>11
     DEF Next, Progress, Trouble, LoseSession, vars

LEMMA AuthorityInductive == Spec => []AuthorityInv
<1>1. Init => AuthorityInv
  BY DEF Init, AuthorityInv, NoTx, K
<1>2. IInv /\ AuthorityInv /\ [Next]_vars => AuthorityInv'
  <2>1. AuthorityInv /\ UNCHANGED vars => AuthorityInv'
    BY DEF AuthorityInv, K, vars
  <2> QED BY <2>1, AuthorityStep
<1> QED BY <1>1, <1>2, Inductive, PTL DEF Spec

-----------------------------------------------------------------------------
(* What a step does to the ledger.                                         *)

\* Every step leaves the ledger alone, or is the landing of the transaction
\* behind one key's fence: its call had no row and gets that transaction's.
Lands(k) ==
  /\ xact[k] # NoTx
  /\ Insert(xact[k].call, xact[k])
  /\ Release(k)
  /\ \/ pc[xact[k].call] = "insert"
     \/ pc[xact[k].call] = "apply" /\ ~FinallyFailed(k)
     \/ ~xact[k].attached

LEMMA LedgerSteps ==
  ASSUME IInv, Next
  PROVE  /\ UNCHANGED req
         /\ UNCHANGED attempt \/ \E k \in Key : Lands(k) /\ UNCHANGED writable
<1> TypeOK /\ SectionInv  BY DEF IInv, LedgerInv
<1>1. ASSUME NEW c \in Call, ApplyCommit(c) \/ InsertFailure(c)
      PROVE  UNCHANGED attempt \/ \E k \in Key : Lands(k) /\ UNCHANGED writable
  <2>1. K(c) \in Key /\ xact[K(c)] # NoTx /\ xact[K(c)].call = c
    BY <1>1, SectionHolder DEF ApplyCommit, InsertFailure
  <2>2. UNCHANGED attempt \/ (Lands(K(c)) /\ UNCHANGED writable)
    BY <1>1, <2>1 DEF ApplyCommit, InsertFailure, Lands
  <2> QED BY <2>1, <2>2
<1>2. ASSUME NEW k \in Key, LandDetached(k)
      PROVE  UNCHANGED attempt \/ (Lands(k) /\ UNCHANGED writable)
  BY <1>2 DEF LandDetached, Lands
<1>3. /\ UNCHANGED req
      /\ \/ \E c \in Call : ApplyCommit(c) \/ InsertFailure(c)
         \/ \E k \in Key : LandDetached(k)
         \/ UNCHANGED attempt
  BY DEF Next, Progress, Trouble, vars, Register, JoinWaiters, Wake, CancelWait, Admit, CancelAdmit,
       TryLock, PollError, Lookup, LookupError, Prepare, BeginCommit, FenceCommit, ApplyCommit,
       CommitError, DetachCommit, BeginRecord, FenceRecord, InsertFailure, RecordError,
       DetachRecord, Replay, ReplayError, Unlock, Finish, Drop, LandDetached,
       Panic, LoseSession, Revoke, Crash
<1> QED BY <1>1, <1>2, <1>3

\* The row that lands, and the rows that stay.
LEMMA LandedRow ==
  ASSUME IInv, NEW k \in Key, Lands(k)
  PROVE  LET c == xact[k].call
         IN  /\ c \in Call /\ K(c) = k /\ attempt[c] = NoRow /\ Terminal(k) = {}
             /\ xact[k].outcome \in {"completed", "retryable", "final"}
             /\ attempt'[c].outcome = xact[k].outcome
             /\ attempt'[c].created = xact[k].created
             /\ \A d \in Call : d # c => attempt'[d] = attempt[d]
<1>1. TypeOK /\ FenceInv /\ xact[k] # NoTx /\ Insert(xact[k].call, xact[k])
  BY DEF IInv, LedgerInv, Lands
<1>2. xact[k] \in Tx /\ xact[k].call \in Call /\ K(xact[k].call) = k
  BY <1>1, FenceHolder
<1> QED BY <1>1, <1>2 DEF FenceInv, Insert, TypeOK, Tx

\* A row stays as it is; a landing adds one row.
LEMMA RowsKept ==
  ASSUME IInv, Next
  PROVE  \A d \in Call : attempt[d] # NoRow => attempt'[d] = attempt[d]
BY LedgerSteps, LandedRow

\* No step rewrites or removes a row of remember_attempts: the holder of a
\* fence has no row yet, also when its abandoned COMMIT lands late.
THEOREM LedgerAppendOnly == Spec => AttemptsAppendOnly
<1>1. IInv /\ [Next]_vars =>
        [\A c \in Call : attempt[c] # NoRow => attempt'[c] = attempt[c]]_vars
  BY RowsKept
<1> QED BY <1>1, Inductive, PTL DEF Spec, AttemptsAppendOnly

\* No Remember is stored without write authority over its space, also when
\* its COMMIT lands after the caller gave up: the revocation waits for it.
THEOREM StoresAreAuthorized == Spec => StoredWithAuthority
<1> DEFINE Authorized == \A c \in Call : attempt'[c].outcome = "completed" /\ attempt[c] = NoRow
                            => K(c) \in writable /\ K(c) \in writable'
<1>1. ASSUME IInv, AuthorityInv, Next PROVE Authorized
  <2>1. CASE UNCHANGED attempt
    BY <2>1 DEF NoRow
  <2>2. ASSUME NEW k \in Key, Lands(k), UNCHANGED writable PROVE Authorized
    <3> SUFFICES ASSUME NEW c \in Call, attempt'[c].outcome = "completed", attempt[c] = NoRow
                 PROVE  K(c) \in writable /\ K(c) \in writable'
      OBVIOUS
    <3>1. c = xact[k].call /\ K(c) = k /\ xact[k].outcome = "completed"
      BY <1>1, <2>2, LandedRow DEF NoRow
    <3> QED BY <1>1, <2>2, <3>1 DEF AuthorityInv
  <2> QED BY <1>1, <2>1, <2>2, LedgerSteps
<1>2. IInv /\ AuthorityInv /\ [Next]_vars => [Authorized]_vars
  BY <1>1
<1> QED BY <1>2, Inductive, AuthorityInductive, PTL DEF Spec, StoredWithAuthority

-----------------------------------------------------------------------------
(* Answers.                                                                *)

\* The answer that a row of the ledger justifies.
AnswerFrom(c, d) ==
  /\ SameRequest(c, d)
  /\ \/ attempt[d].outcome = "completed" /\ reply'[c] = Answer("completed", d)
     \/ attempt[d].outcome \in {"retryable", "final"} /\ reply'[c] = Answer("failed", d)

\* The answer of an owner whose own transaction has just landed.
AnswerOwn(c, k) ==
  /\ xact[k].call = c
  /\ reply'[c] = Answer(IF xact[k].outcome = "completed" THEN "completed" ELSE "failed", c)

\* What rests on a row, by the kind of the reply.
LEMMA RecordedForms ==
  /\ ~Recorded(Unrecorded)
  /\ \A r : r.kind \notin {"completed", "failed"} => ~Recorded(r)
  /\ \A r : r.kind = "completed" => Recorded(r)
BY DEF Recorded, Unrecorded, Bare

\* One call may move and be answered: with an error, with the row it loaded,
\* or with the row it has just written.
LEMMA CallSteps ==
  ASSUME IInv, NEW c \in Call, Progress(c) \/ Trouble(c)
  PROVE  /\ pc[c] # "done"
         /\ \A d \in Call : d # c => pc'[d] = pc[d] /\ reply'[d] = reply[d]
         /\ \/ reply'[c] = reply[c]
            \/ ~Recorded(reply'[c])
            \/ UNCHANGED attempt /\ \E d \in Loaded(K(c)) : AnswerFrom(c, d)
            \/ Lands(K(c)) /\ AnswerOwn(c, K(c))
         /\ ~UNCHANGED attempt => pc'[c] = "unlock"
<1> DEFINE Told == \/ reply'[c] = reply[c]
                   \/ ~Recorded(reply'[c])
                   \/ UNCHANGED attempt /\ \E d \in Loaded(K(c)) : AnswerFrom(c, d)
                   \/ Lands(K(c)) /\ AnswerOwn(c, K(c))
           Alone == /\ pc[c] # "done"
                    /\ \A d \in Call : d # c => pc'[d] = pc[d] /\ reply'[d] = reply[d]
           Moves == ~UNCHANGED attempt => pc'[c] = "unlock"
<1> TypeOK /\ SectionInv  BY DEF IInv, LedgerInv
<1> USE DEF Goto, Reply, TypeOK
<1>1. ASSUME \/ Register(c) \/ JoinWaiters(c) \/ Wake(c) \/ CancelWait(c)
             \/ Admit(c) \/ CancelAdmit(c) \/ TryLock(c) \/ PollError(c)
             \/ Unlock(c) \/ Finish(c) \/ Drop(c)
      PROVE  Told /\ Alone /\ Moves
  BY <1>1, RecordedForms DEF Register, JoinWaiters, Wake, CancelWait, Admit, CancelAdmit, TryLock,
       PollError, Unlock, Finish, Drop, Bare, LockErrors
<1>2. ASSUME \/ LookupError(c) \/ Prepare(c) \/ BeginCommit(c) \/ FenceCommit(c) \/ CommitError(c)
             \/ DetachCommit(c)
      PROVE  Told /\ Alone /\ Moves
  BY <1>2, RecordedForms DEF LookupError, Prepare, BeginCommit, FenceCommit, CommitError, DetachCommit, Fail, Bare
<1>3. ASSUME \/ BeginRecord(c) \/ FenceRecord(c) \/ RecordError(c) \/ DetachRecord(c)
             \/ ReplayError(c) \/ Panic(c)
      PROVE  Told /\ Alone /\ Moves
  BY <1>3, RecordedForms DEF BeginRecord, FenceRecord, RecordError, DetachRecord, ReplayError, Panic, Callback, Bare
<1>4. ASSUME Lookup(c) PROVE Told /\ Alone /\ Moves
  <2>1. Alone /\ Moves /\ UNCHANGED attempt  BY <1>4 DEF Lookup
  <2>2. Told  BY <1>4, RecordedForms DEF Lookup, AnswerFrom, Bare
  <2> QED BY <2>1, <2>2
<1>5. ASSUME Replay(c) PROVE Told /\ Alone /\ Moves
  <2>1. Alone /\ Moves /\ UNCHANGED attempt  BY <1>5 DEF Replay, ReplayAnswer
  <2>2. Told  BY <1>5, RecordedForms DEF Replay, ReplayAnswer, AnswerFrom, Bare
  <2> QED BY <2>1, <2>2
<1>6. ASSUME ApplyCommit(c) \/ InsertFailure(c) PROVE Told /\ Alone /\ Moves
  <2>1. /\ xact[K(c)] # NoTx /\ xact[K(c)].call = c
        /\ pc[c] = "apply" => xact[K(c)].outcome = "completed"
        /\ pc[c] = "insert" => xact[K(c)].outcome # "completed"
    BY <1>6, SectionHolder DEF ApplyCommit, InsertFailure
  <2>2. Told  BY <1>6, <2>1 DEF ApplyCommit, InsertFailure, Lands, AnswerOwn
  <2>3. Alone /\ Moves  BY <1>6 DEF ApplyCommit, InsertFailure
  <2> QED BY <2>2, <2>3
<1> QED BY <1>1, <1>2, <1>3, <1>4, <1>5, <1>6 DEF Progress, Trouble

\* What every step does to the answers: one call moves, a transaction lands
\* on its own, or a replica dies.
LEMMA AnswerSteps ==
  ASSUME IInv, Next
  PROVE  \/ \E c \in Call : Progress(c) \/ Trouble(c)
         \/ UNCHANGED <<pc, reply>>
         \/ /\ UNCHANGED attempt
            /\ \A c \in Call : \/ pc'[c] = pc[c] /\ reply'[c] = reply[c]
                               \/ pc[c] # "done" /\ reply'[c].kind = "crashed"
<1>1. ASSUME NEW p \in Proc, Crash(p)
      PROVE  /\ UNCHANGED attempt
             /\ \A c \in Call : \/ pc'[c] = pc[c] /\ reply'[c] = reply[c]
                                \/ pc[c] # "done" /\ reply'[c].kind = "crashed"
  BY <1>1 DEF Crash, Bare
<1> QED BY <1>1 DEF Next, vars, LandDetached, LoseSession, Revoke

LEMMA NoRowOutcome ==
  ASSUME TypeOK
  PROVE  \A c \in Call : attempt[c].outcome = "none" <=> attempt[c] = NoRow
BY DEF TypeOK, Row, NoRow, Outcomes

\* A loaded row is a row of the key.
LEMMA LoadedRows ==
  ASSUME NEW k, NEW d \in Loaded(k)
  PROVE  d \in Rows(k) /\ d \in Call
BY DEF Loaded, Terminal, LatestFailed, Failed, Rows

LEMMA AnswersStep == IInv /\ AnswersAreDurable /\ Next => AnswersAreDurable'
<1> SUFFICES ASSUME IInv, AnswersAreDurable, Next PROVE AnswersAreDurable'  OBVIOUS
<1> TypeOK  BY DEF IInv
<1> DEFINE Backed(c, d) ==
      /\ d \in Call /\ K(d) = K(c) /\ H(d) = H(c)
      /\ attempt'[d].outcome \in (IF reply'[c].kind = "completed"
                                  THEN {"completed"} ELSE {"retryable", "final"})
<1>1. UNCHANGED req  BY LedgerSteps
<1>2. SUFFICES ASSUME NEW c \in Call, Recorded(reply'[c])
               PROVE  Backed(c, reply'[c].of)
  BY <1>1 DEF AnswersAreDurable, Rows, K, H
<1>3. ASSUME NEW e \in Rows(K(c)) PROVE e \in Call /\ K(e) = K(c) /\ attempt'[e] = attempt[e]
  BY <1>3, RowsKept, NoRowOutcome DEF Rows
<1>4. CASE reply'[c] = reply[c]
  BY <1>2, <1>3, <1>4 DEF AnswersAreDurable
<1>5. ASSUME NEW e \in Loaded(K(c)), AnswerFrom(c, e) PROVE Backed(c, reply'[c].of)
  <2>1. reply'[c].of = e /\ e \in Rows(K(c))  BY <1>5, LoadedRows DEF AnswerFrom, Answer
  <2>2. e \in Call /\ K(e) = K(c) /\ attempt'[e] = attempt[e]  BY <1>3, <2>1
  <2> QED BY <1>5, <2>1, <2>2 DEF AnswerFrom, Answer, SameRequest
<1>6. ASSUME Lands(K(c)), AnswerOwn(c, K(c)) PROVE Backed(c, reply'[c].of)
  <2>1. reply'[c].of = c /\ xact[K(c)].call = c  BY <1>6 DEF AnswerOwn, Answer
  <2>2. /\ attempt'[c].outcome = xact[K(c)].outcome
        /\ xact[K(c)].outcome \in {"completed", "retryable", "final"}
    BY <1>6, <2>1, LandedRow, RequestFacts
  <2> QED BY <1>6, <2>1, <2>2 DEF AnswerOwn, Answer
<1>7. ASSUME NEW e \in Call, Progress(e) \/ Trouble(e)
      PROVE  \/ reply'[c] = reply[c]
             \/ \E f \in Loaded(K(c)) : AnswerFrom(c, f)
             \/ Lands(K(c)) /\ AnswerOwn(c, K(c))
  BY <1>2, <1>7, CallSteps
<1> QED BY <1>2, <1>4, <1>5, <1>6, <1>7, AnswerSteps, RecordedForms

\* A historical row is alone under its key.
HistoryInv ==
  \A r, c \in Call : attempt[r].outcome = "retired" /\ attempt[c] # NoRow /\ K(c) = K(r) => c = r

LEMMA HistoryStep == IInv /\ HistoryInv /\ Next => HistoryInv'
<1> SUFFICES ASSUME IInv, HistoryInv, Next, NEW r \in Call, NEW c \in Call,
                    attempt'[r].outcome = "retired", attempt'[c] # NoRow, K(c)' = K(r)'
             PROVE  c = r
  BY DEF HistoryInv
<1>1. K(c) = K(r)  BY LedgerSteps DEF K
<1>2. CASE UNCHANGED attempt
  BY <1>1, <1>2 DEF HistoryInv
<1>3. ASSUME NEW k \in Key, Lands(k) PROVE c = r
  <2>1. attempt[r].outcome = "retired" /\ attempt'[r] = attempt[r]
    BY <1>3, LandedRow
  <2>2. r \notin Terminal(k)  BY <1>3, LandedRow
  <2>3. K(r) # k  BY <2>1, <2>2 DEF Terminal, Rows
  <2>4. attempt'[c] = attempt[c]  BY <1>1, <1>3, <2>3, LandedRow
  <2> QED BY <1>1, <2>1, <2>4 DEF HistoryInv
<1> QED BY <1>2, <1>3, LedgerSteps

LEMMA AnswersInductive == Spec => [](AnswersAreDurable /\ HistoryInv)
<1>1. Init => AnswersAreDurable /\ HistoryInv
  BY RecordedForms DEF Init, AnswersAreDurable, HistoryInv, NoReply, NoRow, K
<1>2. IInv /\ AnswersAreDurable /\ HistoryInv /\ [Next]_vars => (AnswersAreDurable /\ HistoryInv)'
  <2>1. AnswersAreDurable /\ HistoryInv /\ UNCHANGED vars => (AnswersAreDurable /\ HistoryInv)'
    BY DEF AnswersAreDurable, HistoryInv, Rows, K, H, vars
  <2> QED BY <2>1, AnswersStep, HistoryStep
<1> QED BY <1>1, <1>2, Inductive, PTL DEF Spec

\* Whatever a caller is told of a stored or failed Remember, the ledger
\* holds, and keeps holding: replies and replays rest on rows that are never
\* rewritten.
THEOREM AnswersHold == Spec => []AnswersAreDurable
BY AnswersInductive, PTL

\* A key with a historical row gets no other row and no durable answer.
THEOREM HistoryIsNeverReused == Spec => []HistoryStaysClosed
<1>1. IInv /\ AnswersAreDurable /\ HistoryInv => HistoryStaysClosed
  <2> SUFFICES ASSUME IInv, AnswersAreDurable, HistoryInv,
                      NEW r \in Call, attempt[r].outcome = "retired",
                      NEW c \in Call, K(c) = K(r), Recorded(reply[c])
               PROVE  FALSE
    BY DEF HistoryStaysClosed, HistoryInv
  <2> DEFINE d == reply[c].of
  <2>1. /\ d \in Rows(K(c))
        /\ attempt[d].outcome \in {"completed", "retryable", "final"}
    BY DEF AnswersAreDurable
  <2>2. d \in Call /\ K(d) = K(r) /\ attempt[d] # NoRow
    BY <2>1 DEF Rows, NoRow
  <2>3. d = r  BY <2>2 DEF HistoryInv
  <2> QED BY <2>1, <2>3
<1> QED BY <1>1, Inductive, AnswersInductive, PTL

\* A loaded row that is of another request, or historical, is not beside a
\* stored Remember of this one: it would be a second terminal row.
LEMMA LoadedConflict ==
  ASSUME OneTerminalRow, NEW c \in Call, NEW d \in Loaded(K(c)), ~SameRequest(c, d) \/ attempt[d].outcome = "retired",
         NEW e \in Rows(K(c)), attempt[e].outcome = "completed", H(e) = H(c)
  PROVE  FALSE
<1>1. e \in Terminal(K(c))  BY DEF Terminal
<1>2. d \in Terminal(K(c))  BY <1>1 DEF Loaded
<1>3. d = e  BY <1>1, <1>2 DEF OneTerminalRow, Terminal, Rows
<1> QED BY <1>3 DEF SameRequest

\* The same of the rows that the two fences find.
LEMMA FencedConflict ==
  ASSUME OneTerminalRow, OneRequestPerKey, NEW c \in Call, K(c) \in Key, HashMismatch(c) \/ TerminalConflict(c),
         NEW e \in Rows(K(c)), attempt[e].outcome = "completed", H(e) = H(c)
  PROVE  FALSE
<1>1. CASE HashMismatch(c)
  BY <1>1 DEF HashMismatch, Failed, OneRequestPerKey
<1>2. CASE TerminalConflict(c)
  <2>1. PICK d \in Terminal(K(c)) : ~SameRequest(c, d) \/ attempt[d].outcome = "retired"
    BY <1>2 DEF TerminalConflict
  <2>2. d = e  BY DEF OneTerminalRow, Terminal, Rows
  <2> QED BY <2>1, <2>2 DEF SameRequest
<1> QED BY <1>1, <1>2

\* Where a call is refused for a conflict.
LEMMA ConflictSteps ==
  ASSUME IInv, NEW c \in Call, Progress(c) \/ Trouble(c), reply[c] = NoReply, reply'[c] = Bare("conflict")
  PROVE  \/ \E d \in Loaded(K(c)) : ~SameRequest(c, d) \/ attempt[d].outcome = "retired"
         \/ HashMismatch(c) \/ TerminalConflict(c)
<1> DEFINE Found == \/ \E d \in Loaded(K(c)) : ~SameRequest(c, d) \/ attempt[d].outcome = "retired"
                    \/ HashMismatch(c) \/ TerminalConflict(c)
<1> TypeOK  BY DEF IInv
<1> USE DEF Goto, Reply, TypeOK, Bare, Answer, NoReply, Unrecorded
<1>1. ASSUME \/ Register(c) \/ JoinWaiters(c) \/ Wake(c) \/ CancelWait(c)
             \/ Admit(c) \/ CancelAdmit(c) \/ TryLock(c) \/ PollError(c)
             \/ Unlock(c) \/ Finish(c) \/ Drop(c)
      PROVE  FALSE
  BY <1>1 DEF Register, JoinWaiters, Wake, CancelWait, Admit, CancelAdmit, TryLock,
       PollError, Unlock, Finish, Drop, LockErrors
<1>2. ASSUME LookupError(c) \/ Prepare(c) \/ BeginCommit(c) \/ CommitError(c) \/ DetachCommit(c) \/ ApplyCommit(c)
      PROVE  FALSE
  BY <1>2 DEF LookupError, Prepare, BeginCommit, CommitError, DetachCommit, ApplyCommit, Fail
<1>3. ASSUME \/ BeginRecord(c) \/ RecordError(c) \/ DetachRecord(c) \/ InsertFailure(c)
             \/ ReplayError(c) \/ Panic(c)
      PROVE  FALSE
  BY <1>3 DEF BeginRecord, RecordError, DetachRecord, InsertFailure, ReplayError, Panic
<1>4. ASSUME Lookup(c) PROVE Found
  BY <1>4 DEF Lookup
<1>5. ASSUME Replay(c) PROVE Found
  BY <1>5 DEF Replay, ReplayAnswer
<1>6. ASSUME FenceCommit(c) \/ FenceRecord(c) PROVE Found
  BY <1>6 DEF FenceCommit, FenceRecord
<1> QED BY <1>1, <1>2, <1>3, <1>4, <1>5, <1>6 DEF Progress, Trouble

\* Once a Remember is stored, no caller with its key and request is answered
\* with a recorded failure or a conflict: a failed row is loaded only when no
\* terminal row is there, a new one is written only behind a fence that found
\* none, and the rows of a key carry one request.
THEOREM StoresAreNotDenied == Spec => LedgerNeverDenies
<1> DEFINE Stored(c) == \E d \in Rows(K(c)) : attempt[d].outcome = "completed" /\ H(d) = H(c)
           Denied(c) == /\ reply[c] = NoReply
                        /\ reply'[c] = Bare("conflict") \/ (Recorded(reply'[c]) /\ reply'[c].kind = "failed")
           Sound == \A c \in Call : Denied(c) => ~Stored(c)
<1>1. ASSUME IInv, OneTerminalRow, OneRequestPerKey, Next PROVE Sound
  <2> SUFFICES ASSUME NEW c \in Call, Denied(c), Stored(c) PROVE FALSE
    OBVIOUS
  <2>1. reply'[c] # reply[c] /\ reply'[c].kind # "crashed"  BY DEF NoReply, Bare
  <2>2. PICK e \in Call : Progress(e) \/ Trouble(e)
    BY <1>1, <2>1, AnswerSteps
  <2>3. e = c
    BY <1>1, <2>1, <2>2, CallSteps
  <2>4. K(c) \in Key  BY <1>1, RequestFacts DEF IInv
  <2>5. PICK x \in Rows(K(c)) : attempt[x].outcome = "completed" /\ H(x) = H(c)
    OBVIOUS
  <2>6. Terminal(K(c)) # {}
    BY <2>5 DEF Terminal
  <2>7. CASE reply'[c] = Bare("conflict")
    <3>1. \/ \E d \in Loaded(K(c)) : ~SameRequest(c, d) \/ attempt[d].outcome = "retired"
          \/ HashMismatch(c) \/ TerminalConflict(c)
      BY <1>1, <2>2, <2>3, <2>7, ConflictSteps
    <3> QED BY <1>1, <2>4, <2>5, <3>1, LoadedConflict, FencedConflict
  <2>8. CASE Recorded(reply'[c]) /\ reply'[c].kind = "failed"
    <3>1. ASSUME NEW d \in Loaded(K(c)), AnswerFrom(c, d) PROVE FALSE
      <4>1. attempt[d].outcome \in {"retryable", "final"}
        BY <2>8, <3>1 DEF AnswerFrom, Answer
      <4> QED BY <2>6, <4>1 DEF Loaded, Terminal
    <3>2. ASSUME Lands(K(c)) PROVE FALSE
      BY <1>1, <2>4, <2>6, <3>2, LandedRow
    <3> QED BY <1>1, <2>1, <2>2, <2>3, <2>8, <3>1, <3>2, CallSteps
  <2> QED BY <2>7, <2>8
<1>2. IInv /\ OneTerminalRow /\ OneRequestPerKey /\ [Next]_vars => [Sound]_vars
  BY <1>1
<1> QED BY <1>2, Inductive, KeyDecidedOnce, KeyBoundToRequest, PTL DEF Spec, LedgerNeverDenies

-----------------------------------------------------------------------------
(* The refinement of RememberOnce.                                         *)

\* The refinement mapping of Once.
Decided(k) == IF Terminal(k) = {} THEN NoCall ELSE CHOOSE c \in Terminal(k) : TRUE
Told(c) == IF pc[c] = "done" /\ reply[c].kind = "completed" THEN reply[c].of ELSE NoCall

\* A stored row is what its key decided.
LEMMA DecidedIs ==
  ASSUME OneTerminalRow, NEW c \in Call,
         attempt[c].outcome \in {"completed", "retired"}
  PROVE  Decided(K(c)) = c
<1>1. c \in Terminal(K(c))  BY DEF Terminal, Rows
<1>2. \A d \in Terminal(K(c)) : d = c  BY DEF OneTerminalRow, Terminal, Rows
<1>3. (CHOOSE d \in Terminal(K(c)) : TRUE) \in Terminal(K(c))  BY <1>1
<1> QED BY <1>1, <1>2, <1>3 DEF Decided

\* The choice depends only on the set.
LEMMA ChoiceKept ==
  ASSUME NEW S, NEW T, S = T
  PROVE  (CHOOSE c \in S : TRUE) = (CHOOSE c \in T : TRUE)
BY Zenon

LEMMA DecidedKept ==
  ASSUME NEW k \in Key, Terminal(k)' = Terminal(k)
  PROVE  Decided(k)' = Decided(k)
<1>1. (CHOOSE c \in Terminal(k)' : TRUE) = (CHOOSE c \in Terminal(k) : TRUE)
  BY ChoiceKept
<1>2. Decided(k)' = IF Terminal(k)' = {} THEN NoCall ELSE CHOOSE c \in Terminal(k)' : TRUE
  BY Zenon DEF Decided
<1>3. Decided(k) = IF Terminal(k) = {} THEN NoCall ELSE CHOOSE c \in Terminal(k) : TRUE
  BY Zenon DEF Decided
<1> QED BY <1>1, <1>2, <1>3, Zenon

\* While the ledger stays, the decisions stay, and a step tells at most one
\* call, with the decision of its own key.
LEMMA TellStep ==
  ASSUME IInv, AnswersAreDurable', OneTerminalRow', Next, UNCHANGED attempt,
         NEW c \in Call, Told(c)' # Told(c)
  PROVE  /\ pc[c] # "done" /\ reply'[c].kind = "completed"
         /\ \E e \in Call : Progress(e) \/ Trouble(e)
         /\ LET d == Decided(K(c))
            IN  d \in Call /\ H(d) = H(c) /\ Told(c)' = d
<1>1. UNCHANGED req  BY LedgerSteps
<1>2. /\ pc[c] # "done" /\ pc'[c] = "done" /\ reply'[c].kind = "completed"
      /\ \E e \in Call : Progress(e) \/ Trouble(e)
  BY AnswerSteps, CallSteps DEF Told
<1> DEFINE d == reply'[c].of
<1>3. d \in Call /\ K(d) = K(c) /\ H(d) = H(c) /\ attempt'[d].outcome = "completed"
  BY <1>1, <1>2, RecordedForms DEF AnswersAreDurable, Rows, K, H
<1>4. OneTerminalRow /\ attempt[d].outcome = "completed"
  BY <1>1, <1>3 DEF OneTerminalRow, K
<1>5. Decided(K(c)) = d
  BY <1>3, <1>4, DecidedIs
<1>6. Told(c)' = d  BY <1>2 DEF Told
<1> QED BY <1>2, <1>3, <1>5, <1>6

\* The variables of RememberOnce under the mapping.
LEMMA OnceMapping ==
  Once!Init <=> /\ [k \in Key |-> Decided(k)] \in [Key -> Call \cup {NoCall}]
                /\ [c \in Call |-> Told(c)] = [c \in Call |-> NoCall]
BY DEF Once!Init, Decided, Told

\* The detailed service implements the promise of an idempotency key.
LEMMA OnceInit == Init => Once!Init
<1> SUFFICES ASSUME Init PROVE Once!Init  OBVIOUS
<1>1. \A k \in Key : Decided(k) \in Call \cup {NoCall}
  <2> TAKE k \in Key
  <2>1. Terminal(k) # {} => (CHOOSE c \in Terminal(k) : TRUE) \in Terminal(k)  OBVIOUS
  <2> QED BY <2>1 DEF Decided, Terminal, Rows
<1>2. \A c \in Call : Told(c) = NoCall
  BY DEF Init, Told, NoReply
<1> QED BY <1>1, <1>2, OnceMapping

LEMMA OnceStep ==
  IInv /\ AnswersAreDurable' /\ OneTerminalRow' /\ [Next]_vars => [Once!Next]_(Once!onceVars)
<1> SUFFICES ASSUME IInv, AnswersAreDurable', OneTerminalRow', [Next]_vars
             PROVE  [Once!Next]_(Once!onceVars)
  OBVIOUS
<1> DEFINE dec == [k \in Key |-> Decided(k)]
           tld == [c \in Call |-> Told(c)]
<1> TypeOK  BY DEF IInv
<1>1. CASE UNCHANGED vars
  <2>1. UNCHANGED <<req, pc, reply, attempt>>  BY <1>1 DEF vars
  <2>2. dec' = dec /\ tld' = tld
    BY <2>1 DEF Decided, Told, Terminal, Rows, K
  <2> QED BY <2>1, <2>2 DEF Once!onceVars, Decided, Told
<1>2. ASSUME Next, UNCHANGED attempt PROVE [Once!Next]_(Once!onceVars)
  <2>1. UNCHANGED req  BY <1>2, LedgerSteps
  <2>2. dec' = dec
    BY <1>2, <2>1 DEF Decided, Terminal, Rows, K
  <2>3. CASE tld' = tld
    BY <2>1, <2>2, <2>3 DEF Once!onceVars, Decided, Told
  <2>4. CASE tld' # tld
    <3>1. PICK c \in Call : Told(c)' # Told(c)
      BY <2>4
    <3>2. /\ \E e \in Call : Progress(e) \/ Trouble(e)
          /\ Decided(K(c)) \in Call
          /\ H(Decided(K(c))) = H(c) /\ Told(c)' = Decided(K(c))
      BY <1>2, <3>1, TellStep
    <3>3. PICK e \in Call : Progress(e) \/ Trouble(e)  BY <3>2
    <3>4. \A b \in Call : b # e => Told(b)' = Told(b)
      BY <3>3, CallSteps DEF Told
    <3>5. \A b \in Call : b # c => Told(b)' = Told(b)
      BY <3>1, <3>4
    <3>6. K(c) \in Key  BY RequestFacts
    <3>7. dec[req[c].key] = Decided(K(c))  BY <3>6 DEF K
    <3>8. /\ dec[req[c].key] # NoCall
          /\ req[dec[req[c].key]].hash = req[c].hash
      BY <3>2, <3>7, CallAssumption DEF H
    <3>9. tld' = [tld EXCEPT ![c] = dec[req[c].key]]
      BY <3>2, <3>5, <3>7
    <3>10. Once!Tell(c)
      BY <2>1, <2>2, <3>8, <3>9 DEF Once!Tell, Decided, Told
    <3> QED BY <3>10 DEF Once!Next
  <2> QED BY <2>3, <2>4
<1>3. ASSUME Next, NEW k \in Key, Lands(k), ~UNCHANGED attempt
      PROVE  [Once!Next]_(Once!onceVars)
  <2> DEFINE c == xact[k].call
  <2>1. UNCHANGED req /\ \A d : K(d)' = K(d)  BY <1>3, LedgerSteps DEF K
  <2>2. /\ c \in Call /\ K(c) = k /\ attempt[c] = NoRow /\ Terminal(k) = {}
        /\ xact[k].outcome \in {"completed", "retryable", "final"}
        /\ attempt'[c].outcome = xact[k].outcome
        /\ \A d \in Call : d # c => attempt'[d] = attempt[d]
    BY <1>3, LandedRow
  <2> HIDE DEF c
  <2>3. tld' = tld
    <3>1. \A e \in Call : Progress(e) \/ Trouble(e) => \A d \in Call : Told(d)' = Told(d)
      BY <1>3, CallSteps DEF Told
    <3>2. \A d \in Call : Told(d)' = Told(d)
      BY <1>3, <3>1, AnswerSteps DEF Told
    <3> QED BY <3>2
  <2>4. \A j \in Key : j # k => Terminal(j)' = Terminal(j)
    BY <2>1, <2>2 DEF Terminal, Rows
  <2>5. CASE xact[k].outcome # "completed"
    <3>1. Terminal(k)' = Terminal(k)
      BY <2>1, <2>2, <2>5 DEF Terminal, Rows
    <3>2. dec' = dec  BY <2>4, <3>1, DecidedKept
    <3> QED BY <2>1, <2>3, <3>2 DEF Once!onceVars, Decided, Told
  <2>6. CASE xact[k].outcome = "completed"
    <3>1. Decided(k)' = c
      <4>1. Terminal(k)' = {c}
        BY <2>1, <2>2, <2>6 DEF Terminal, Rows
      <4>2. (CHOOSE d \in {c} : TRUE) = c  OBVIOUS
      <4> QED BY <4>1, <4>2 DEF Decided
    <3>2. \A j \in Key : j # k => Decided(j)' = Decided(j)
      BY <2>4, DecidedKept
    <3>3. req[c].key = k /\ dec[k] = NoCall
      BY <2>2 DEF Decided, K
    <3>4. dec' = [dec EXCEPT ![k] = c]
      BY <3>1, <3>2
    <3>5. Once!Decide(c)
      BY <2>1, <2>3, <3>3, <3>4 DEF Once!Decide, Decided, Told
    <3> QED BY <2>2, <3>5 DEF Once!Next
  <2> QED BY <2>5, <2>6
<1> QED BY <1>1, <1>2, <1>3, LedgerSteps

\* Every step of the service, whatever fails, is a step of RememberOnce or
\* leaves it alone: a landing commit decides its key, an answer tells what
\* the key decided, and nothing else is visible.
THEOREM RemembersOnce == Spec => ImplementsOnce
<1>1. IInv => OneTerminalRow  BY DEF IInv, LedgerInv
<1> QED BY <1>1, OnceInit, OnceStep, Inductive, AnswersInductive, PTL DEF Spec, ImplementsOnce, Once!Spec

-----------------------------------------------------------------------------
(* The order of transactions.                                              *)

\* As long as no lock connection died, every owner holds its session lock.
Exclusive == lost = {} => \A c \in Call : pc[c] \in Owning => session[K(c)] = c

\* Nothing starts in the future of the database clock.
ClockInv ==
  /\ \A c \in Call : began[c] <= clock /\ attempt[c].created <= clock
  /\ \A k \in Key : xact[k].created <= clock

Finals(k) == {c \in Rows(k) : attempt[c].outcome = "final"}

\* The transaction a call has open started after everything its key holds.
OpenTxInv ==
  \A c \in Call : pc[c] \in {"fence", "recfence"} =>
    /\ xact[K(c)].created <= began[c]
    /\ \A d \in Rows(K(c)) : attempt[d].created <= began[c]

\* So did the transaction behind a fence.
HeldTxInv ==
  \A k \in Key : xact[k] # NoTx => \A d \in Rows(k) : attempt[d].created <= xact[k].created

\* A final failure is its key's latest, and its key is not stored.
FinalInv ==
  \A k \in Key : \A f \in Finals(k) :
    /\ Terminal(k) = {}
    /\ \A d \in Failed(k) : attempt[d].created <= attempt[f].created

\* What may still land behind a fence has found no final failure.
LandingInv ==
  \A k \in Key :
    xact[k] # NoTx /\ (xact[k].outcome # "completed" \/ ~xact[k].attached) => Finals(k) = {}

OrderInv == lost = {} => OpenTxInv /\ HeldTxInv /\ FinalInv /\ LandingInv

LEMMA ExclusiveStep == IInv /\ Exclusive /\ Next => Exclusive'
<1> SUFFICES ASSUME IInv, Exclusive, Next PROVE Exclusive'  OBVIOUS
<1>r. UNCHANGED req  BY LedgerSteps
<1> SUFFICES ASSUME lost' = {}
             PROVE  \A d \in Call : pc'[d] \in Owning => session'[K(d)] = d
  BY <1>r DEF Exclusive, K
<1> TypeOK  BY DEF IInv
<1>1. ASSUME NEW k \in Key, LoseSession(k) PROVE FALSE
  BY <1>1 DEF LoseSession
<1>2. UNCHANGED lost
  BY <1>1 DEF Next, Progress, Trouble, vars, Register, JoinWaiters, Wake, CancelWait, Admit, CancelAdmit,
       TryLock, PollError, Lookup, LookupError, Prepare, BeginCommit, FenceCommit, ApplyCommit,
       CommitError, DetachCommit, BeginRecord, FenceRecord, InsertFailure, RecordError,
       DetachRecord, Replay, ReplayError, Unlock, Finish, Drop, LandDetached,
       Panic, Revoke, Crash
<1>3. \A d \in Call : pc[d] \in Owning => session[K(d)] = d
  BY <1>2 DEF Exclusive
<1> DEFINE Good == \A d \in Call : pc'[d] \in Owning => session'[K(d)] = d
<1>4. ASSUME NEW c \in Call, NEW l, Goto(c, l), UNCHANGED session, l \in Owning => pc[c] \in Owning
      PROVE  Good
  BY <1>3, <1>4 DEF Goto, TypeOK
<1>5. ASSUME NEW c \in Call, NEW l, Goto(c, l), FreeSession(c), l \notin Owning PROVE Good
  BY <1>3, <1>5, RequestFacts DEF Goto, TypeOK, FreeSession
<1>6. ASSUME NEW c \in Call, NEW l, Goto(c, l), session[K(c)] = NoCall,
             session' = [session EXCEPT ![K(c)] = c]
      PROVE  Good
  BY <1>3, <1>6, RequestFacts, CallAssumption DEF Goto, TypeOK
<1> HIDE DEF Good
<1>7. ASSUME NEW c \in Call, \/ Register(c) \/ JoinWaiters(c) \/ Wake(c) \/ CancelWait(c)
                             \/ Admit(c) \/ CancelAdmit(c) \/ PollError(c) \/ Finish(c) \/ Drop(c)
      PROVE  Good
  BY <1>4, <1>7 DEF Register, JoinWaiters, Wake, CancelWait, Admit, CancelAdmit, PollError,
       Finish, Drop, Owning, Callback
<1>8. ASSUME NEW c \in Call, \/ Lookup(c) \/ LookupError(c) \/ Prepare(c) \/ BeginCommit(c)
                             \/ Replay(c) \/ ReplayError(c)
      PROVE  Good
  BY <1>4, <1>8 DEF Lookup, LookupError, Prepare, BeginCommit, Replay, ReplayError, Fail, Owning, Callback
<1>9. ASSUME NEW c \in Call, \/ FenceCommit(c) \/ ApplyCommit(c) \/ CommitError(c) \/ DetachCommit(c)
      PROVE  Good
  BY <1>4, <1>9 DEF FenceCommit, ApplyCommit, CommitError, DetachCommit, Fail, Owning, Callback
<1>10. ASSUME NEW c \in Call, \/ BeginRecord(c) \/ FenceRecord(c) \/ InsertFailure(c) \/ RecordError(c)
                              \/ DetachRecord(c)
      PROVE  Good
  BY <1>4, <1>10 DEF BeginRecord, FenceRecord, InsertFailure, RecordError, DetachRecord, Owning, Callback
<1>11. ASSUME NEW c \in Call, TryLock(c) PROVE Good
  BY <1>4, <1>6, <1>11 DEF TryLock, Owning, Callback
<1>12. ASSUME NEW c \in Call, Unlock(c) \/ Panic(c) PROVE Good
  BY <1>5, <1>12 DEF Unlock, Panic, Owning, Callback
<1>13. ASSUME NEW p \in Proc, Crash(p) PROVE Good
  <2> DEFINE dead == {c \in Call : P(c) = p /\ pc[c] \notin {"idle", "done"}}
  <2>1. /\ \A k \in Key : session'[k] = IF session[k] \in dead THEN NoCall ELSE session[k]
        /\ \A c \in Call : pc'[c] = IF c \in dead THEN "done" ELSE pc[c]
    BY <1>13 DEF Crash
  <2> HIDE DEF dead
  <2> QED BY <2>1, <1>3, RequestFacts DEF Good, Owning, Callback
<1>14. ASSUME UNCHANGED <<pc, session>> PROVE Good
  BY <1>3, <1>14 DEF Good
<1>15. Good
  BY <1>1, <1>7, <1>8, <1>9, <1>10, <1>11, <1>12, <1>13, <1>14
     DEF Next, Progress, Trouble, LandDetached, Revoke, vars
<1> QED BY <1>15 DEF Good

-----------------------------------------------------------------------------
\* What a step does to the transaction behind a key's fence: nothing, end
\* it, lose its client, or let a call that waits for the fence have it.
Ends(k)     == xact'[k] = NoTx
Loses(k)    == /\ xact[k] # NoTx /\ UNCHANGED attempt
               /\ xact'[k] = [xact[k] EXCEPT !.attached = FALSE]
               /\ xact[k].outcome # "completed" \/ ~FinallyFailed(k)
Takes(k, c) == /\ pc[c] \in {"fence", "recfence"} /\ pc'[c] \in {"apply", "insert"}
               /\ K(c) = k /\ UNCHANGED attempt
               /\ xact'[k].created = began[c] /\ xact'[k].attached
               /\ xact'[k].outcome = "completed" \/ ~FinallyFailed(k)

LEMMA FenceSteps ==
  ASSUME IInv, Next, NEW k \in Key
  PROVE  xact'[k] = xact[k] \/ Ends(k) \/ Loses(k) \/ \E c \in Call : Takes(k, c)
<1> DEFINE Fenced == xact'[k] = xact[k] \/ Ends(k) \/ Loses(k) \/ \E c \in Call : Takes(k, c)
<1> TypeOK /\ SectionInv /\ FenceInv  BY DEF IInv, LedgerInv
<1>1. ASSUME NEW j \in Key, Release(j) PROVE Fenced
  BY <1>1 DEF Release, TypeOK, Ends
<1>2. ASSUME NEW c \in Call, DetachCommit(c) \/ DetachRecord(c) PROVE Fenced
  <2>1. /\ K(c) \in Key /\ xact[K(c)] # NoTx
        /\ pc[c] = "insert" => xact[K(c)].outcome # "completed"
    BY <1>2, SectionHolder DEF DetachCommit, DetachRecord
  <2>2. /\ xact' = [xact EXCEPT ![K(c)].attached = FALSE] /\ UNCHANGED attempt
        /\ xact[K(c)].outcome # "completed" \/ ~FinallyFailed(K(c))
    BY <1>2, <2>1 DEF DetachCommit, DetachRecord, Detach
  <2> QED BY <2>1, <2>2 DEF TypeOK, Loses
<1>3. ASSUME NEW c \in Call, FenceCommit(c) \/ FenceRecord(c), ~UNCHANGED xact PROVE Fenced
  <2>1. PICK o : Hold(c, o) /\ (o = "completed" \/ ~FinallyFailed(K(c)))
    BY <1>3 DEF FenceCommit, FenceRecord
  <2>2. /\ pc[c] \in {"fence", "recfence"} /\ pc'[c] \in {"apply", "insert"}
        /\ UNCHANGED attempt
    BY <1>3 DEF FenceCommit, FenceRecord, Goto, TypeOK
  <2>3. CASE k = K(c)
    BY <2>1, <2>2, <2>3 DEF Hold, TypeOK, Takes
  <2>4. CASE k # K(c)
    BY <2>1, <2>4 DEF Hold, TypeOK
  <2> QED BY <2>3, <2>4
<1>4. ASSUME NEW p \in Proc, Crash(p) PROVE Fenced
  <2> DEFINE dead == {c \in Call : P(c) = p /\ pc[c] \notin {"idle", "done"}}
             open == {j \in Key : xact[j].attached /\ xact[j].call \in dead}
             sending == {j \in open : pc[xact[j].call] = "insert" \/ ~FinallyFailed(j)}
  <2>1. PICK sent \in SUBSET sending :
          xact' = [j \in Key |-> IF j \notin open THEN xact[j]
                                 ELSE IF j \in sent THEN [xact[j] EXCEPT !.attached = FALSE]
                                 ELSE NoTx]
    BY <1>4 DEF Crash
  <2>2. UNCHANGED attempt  BY <1>4 DEF Crash
  <2>3. CASE k \in sent
    <3>1. /\ xact[k].attached /\ xact'[k] = [xact[k] EXCEPT !.attached = FALSE]
          /\ pc[xact[k].call] = "insert" \/ ~FinallyFailed(k)
      BY <2>1, <2>3
    <3>2. xact[k] # NoTx  BY <3>1 DEF NoTx
    <3>3. xact[k].outcome # "completed" \/ ~FinallyFailed(k)
      BY <3>1, <3>2 DEF FenceInv
    <3> QED BY <2>2, <3>1, <3>2, <3>3 DEF Loses
  <2>4. CASE k \notin sent
    BY <2>1, <2>4 DEF Ends
  <2> QED BY <2>3, <2>4
<1>5. \/ \E c \in Call : DetachCommit(c) \/ DetachRecord(c)
      \/ \E c \in Call : FenceCommit(c) \/ FenceRecord(c)
      \/ \E p \in Proc : Crash(p)
      \/ \E j \in Key : Release(j)
      \/ UNCHANGED xact
  BY RequestFacts DEF Next, Progress, Trouble, vars, Register, JoinWaiters, Wake, CancelWait, Admit, CancelAdmit,
       TryLock, PollError, Lookup, LookupError, Prepare, BeginCommit, ApplyCommit,
       CommitError, BeginRecord, InsertFailure, RecordError,
       Replay, ReplayError, Unlock, Finish, Drop, LandDetached, Panic, LoseSession, Revoke
<1> QED BY <1>1, <1>2, <1>3, <1>4, <1>5

\* A call that waits for a fence started its transaction in this step, or
\* has it from before; the clock and the start times move only forwards.
LEMMA StartSteps ==
  ASSUME IInv, Next
  PROVE  /\ clock' \in {clock, clock + 1}
         /\ \A c \in Call : began'[c] \in {began[c], 0, clock'}
         /\ \A c \in Call : pc'[c] \in {"fence", "recfence"} =>
              \/ pc'[c] = pc[c] /\ began'[c] = began[c]
              \/ began'[c] = clock + 1 /\ UNCHANGED <<xact, attempt>>
<1> DEFINE Started == /\ clock' \in {clock, clock + 1}
                      /\ \A c \in Call : began'[c] \in {began[c], 0, clock'}
                      /\ \A c \in Call : pc'[c] \in {"fence", "recfence"} =>
                           \/ pc'[c] = pc[c] /\ began'[c] = began[c]
                           \/ began'[c] = clock + 1 /\ UNCHANGED <<xact, attempt>>
<1> TypeOK  BY DEF IInv
<1> USE DEF TypeOK, Goto
<1>1. ASSUME NEW c \in Call, \/ Register(c) \/ JoinWaiters(c) \/ Wake(c) \/ CancelWait(c)
                             \/ Admit(c) \/ CancelAdmit(c) \/ TryLock(c) \/ PollError(c)
                             \/ Unlock(c) \/ Finish(c) \/ Drop(c)
      PROVE  Started
  BY <1>1 DEF Register, JoinWaiters, Wake, CancelWait, Admit, CancelAdmit, TryLock,
       PollError, Unlock, Finish, Drop
<1>2. ASSUME NEW c \in Call, \/ Lookup(c) \/ LookupError(c) \/ Prepare(c) \/ Replay(c) \/ ReplayError(c)
      PROVE  Started
  BY <1>2 DEF Lookup, LookupError, Prepare, Replay, ReplayError, Fail
<1>3. ASSUME NEW c \in Call, \/ FenceCommit(c) \/ ApplyCommit(c) \/ CommitError(c) \/ DetachCommit(c)
      PROVE  Started
  BY <1>3 DEF FenceCommit, ApplyCommit, CommitError, DetachCommit, Fail, EndTx
<1>4. ASSUME NEW c \in Call, \/ FenceRecord(c) \/ InsertFailure(c) \/ RecordError(c)
                             \/ DetachRecord(c) \/ Panic(c)
      PROVE  Started
  BY <1>4 DEF FenceRecord, InsertFailure, RecordError, DetachRecord, Panic, EndTx
<1>5. ASSUME NEW c \in Call, BeginCommit(c) \/ BeginRecord(c) PROVE Started
  BY <1>5 DEF BeginCommit, BeginRecord, StartTx
<1>6. ASSUME NEW p \in Proc, Crash(p) PROVE Started
  BY <1>6 DEF Crash
<1>7. ASSUME UNCHANGED <<pc, clock, began>> PROVE Started
  BY <1>7
<1> QED BY <1>1, <1>2, <1>3, <1>4, <1>5, <1>6, <1>7
     DEF Next, Progress, Trouble, LandDetached, LoseSession, Revoke, vars

LEMMA ClockStep == IInv /\ ClockInv /\ Next => ClockInv'
<1> SUFFICES ASSUME IInv, ClockInv, Next PROVE ClockInv'  OBVIOUS
<1> TypeOK  BY DEF IInv
<1>1. clock' \in Nat /\ clock <= clock'
  BY StartSteps DEF TypeOK
<1>2. \A c \in Call : began'[c] <= clock'
  BY <1>1, StartSteps DEF ClockInv, TypeOK
<1>3. \A k \in Key : xact[k].created \in Nat
  BY DEF TypeOK, Tx, NoTx
<1>4. \A c \in Call : attempt'[c].created <= clock'
  <2>1. \A c \in Call : attempt[c].created \in Nat /\ attempt[c].created <= clock'
    BY <1>1 DEF ClockInv, TypeOK, Row, NoRow
  <2>2. ASSUME NEW k \in Key, Lands(k) PROVE \A c \in Call : attempt'[c].created <= clock'
    BY <1>1, <1>3, <2>1, <2>2, LandedRow DEF ClockInv, TypeOK
  <2> QED BY <2>1, <2>2, LedgerSteps
<1>5. ASSUME NEW k \in Key PROVE xact'[k].created <= clock'
  <2>1. xact[k].created <= clock'  BY <1>1, <1>3 DEF ClockInv, TypeOK
  <2>2. CASE Ends(k)  BY <1>1, <2>2 DEF Ends, NoTx
  <2>3. CASE Loses(k)
    <3>1. xact[k] \in Tx  BY <2>3 DEF Loses, TypeOK
    <3> QED BY <2>1, <2>3, <3>1 DEF Loses, Tx
  <2>4. ASSUME NEW c \in Call, Takes(k, c) PROVE xact'[k].created <= clock'
    BY <1>1, <2>4 DEF Takes, ClockInv, TypeOK
  <2> QED BY <2>1, <2>2, <2>3, <2>4, FenceSteps
<1> QED BY <1>2, <1>4, <1>5 DEF ClockInv

\* Where the ledger of a key stays, so do its rows of every kind.
LEMMA KeyKept ==
  ASSUME IInv, Next, NEW k \in Key, ~Lands(k)
  PROVE  /\ \A d \in Rows(k) \cup Rows(k)' : attempt'[d] = attempt[d]
         /\ Rows(k)' = Rows(k) /\ Terminal(k)' = Terminal(k) /\ Failed(k)' = Failed(k)
         /\ Finals(k)' = Finals(k)
<1>1. \A d \in Call : K(d)' = K(d)  BY LedgerSteps DEF K
<1>2. \A d \in Call : K(d) = k => attempt'[d] = attempt[d]
  BY LedgerSteps, LandedRow
<1> QED BY <1>1, <1>2 DEF Rows, Terminal, Failed, Finals

\* A landing adds one row to its key.
LEMMA KeyLanded ==
  ASSUME IInv, Next, NEW k \in Key, Lands(k)
  PROVE  LET c == xact[k].call
         IN  /\ Rows(k)' = Rows(k) \cup {c}
             /\ \A d \in Rows(k) : d # c /\ attempt'[d] = attempt[d]
             /\ c \in Call /\ attempt'[c].outcome = xact[k].outcome
             /\ attempt'[c].created = xact[k].created
             /\ Terminal(k) = {}
             /\ xact[k].outcome \in {"completed", "retryable", "final"}
<1> DEFINE c == xact[k].call
<1>1. \A d \in Call : K(d)' = K(d)  BY LedgerSteps DEF K
<1>2. /\ c \in Call /\ K(c) = k /\ attempt[c] = NoRow /\ Terminal(k) = {}
      /\ xact[k].outcome \in {"completed", "retryable", "final"}
      /\ attempt'[c].outcome = xact[k].outcome
      /\ attempt'[c].created = xact[k].created
      /\ \A d \in Call : d # c => attempt'[d] = attempt[d]
  BY LandedRow
<1> HIDE DEF c
<1>3. \A d \in Rows(k) : d # c /\ attempt'[d] = attempt[d]
  BY <1>2 DEF Rows, NoRow
<1>4. Rows(k)' = Rows(k) \cup {c}
  BY <1>1, <1>2 DEF Rows
<1> QED BY <1>2, <1>3, <1>4 DEF c

\* A final failure that is its key's latest is found.
LEMMA FinalIsFound ==
  ASSUME FinalInv, NEW k \in Key, ~FinallyFailed(k)
  PROVE  Finals(k) = {}
BY DEF FinalInv, FinallyFailed, LatestFailed, Failed, Finals

LEMMA OrderStep == IInv /\ Exclusive /\ ClockInv /\ OrderInv /\ Next => OrderInv'
<1> SUFFICES ASSUME IInv, Exclusive, ClockInv, OrderInv, Next, lost' = {}
             PROVE  OpenTxInv' /\ HeldTxInv' /\ FinalInv' /\ LandingInv'
  BY DEF OrderInv
<1> TypeOK /\ FenceInv  BY DEF IInv, LedgerInv
<1>1. lost = {}
  BY DEF Next, Progress, Trouble, vars, Register, JoinWaiters, Wake, CancelWait, Admit, CancelAdmit,
       TryLock, PollError, Lookup, LookupError, Prepare, BeginCommit, FenceCommit, ApplyCommit,
       CommitError, DetachCommit, BeginRecord, FenceRecord, InsertFailure, RecordError,
       DetachRecord, Replay, ReplayError, Unlock, Finish, Drop, LandDetached,
       Panic, Revoke, Crash, LoseSession
<1>2. OpenTxInv /\ HeldTxInv /\ FinalInv /\ LandingInv  BY <1>1 DEF OrderInv
<1>3. \A c, d \in Call : pc[c] \in Owning /\ pc[d] \in Owning /\ K(c) = K(d) => c = d
  BY <1>1 DEF Exclusive
<1>r. \A c : K(c)' = K(c)  BY LedgerSteps DEF K
<1>n. /\ \A k \in Key : xact[k].created \in Nat
      /\ \A c \in Call : attempt[c].created \in Nat /\ began[c] \in Nat
  BY DEF TypeOK, Tx, NoTx, Row, NoRow
<1>l. \A k \in Key : Loses(k) => /\ xact'[k].created = xact[k].created
                                 /\ xact'[k].outcome = xact[k].outcome
                                 /\ ~xact'[k].attached
  BY DEF Loses, TypeOK, Tx
<1>e. \A k \in Key : Lands(k) => Ends(k)
  BY DEF Lands, Release, Ends, TypeOK
<1>4. OpenTxInv'
  <2> SUFFICES ASSUME NEW c \in Call, NEW k \in Key, K(c) = k, pc'[c] \in {"fence", "recfence"}
               PROVE  /\ xact'[k].created <= began'[c]
                      /\ \A d \in Rows(k)' : attempt'[d].created <= began'[c]
    BY <1>r, RequestFacts DEF OpenTxInv
  <2>1. CASE began'[c] = clock + 1 /\ UNCHANGED <<xact, attempt>>
    BY <2>1, <1>n, <1>r DEF ClockInv, TypeOK, Rows
  <2>2. CASE pc'[c] = pc[c] /\ began'[c] = began[c]
    <3>1. /\ xact[k].created <= began[c]
          /\ \A d \in Rows(k) : attempt[d].created <= began[c]
      BY <1>2, <2>2 DEF OpenTxInv
    <3>2. \A e \in Call : ~Takes(k, e)
      BY <1>3, <2>2 DEF Takes, Owning, Callback
    <3>3. xact'[k].created <= began'[c]
      BY <2>2, <3>1, <3>2, <1>l, <1>n, FenceSteps DEF Ends, NoTx
    <3>4. CASE ~Lands(k)
      BY <2>2, <3>1, <3>3, <3>4, KeyKept
    <3>5. CASE Lands(k)
      BY <2>2, <3>1, <3>3, <3>5, KeyLanded
    <3> QED BY <3>4, <3>5
  <2> QED BY <2>1, <2>2, StartSteps
<1>5. HeldTxInv'
  <2> SUFFICES ASSUME NEW k \in Key, xact'[k] # NoTx
               PROVE  \A d \in Rows(k)' : attempt'[d].created <= xact'[k].created
    BY DEF HeldTxInv
  <2>1. ~Ends(k) /\ ~Lands(k)  BY <1>e DEF Ends
  <2>2. CASE xact'[k] = xact[k]
    BY <2>1, <2>2, <1>2, KeyKept DEF HeldTxInv
  <2>3. CASE Loses(k)
    BY <2>1, <2>3, <1>2, <1>l, KeyKept DEF HeldTxInv, Loses
  <2>4. ASSUME NEW c \in Call, Takes(k, c)
        PROVE  \A d \in Rows(k)' : attempt'[d].created <= xact'[k].created
    BY <2>1, <2>4, <1>2, KeyKept DEF OpenTxInv, Takes
  <2> QED BY <2>1, <2>2, <2>3, <2>4, FenceSteps
<1>6. FinalInv'
  <2> SUFFICES ASSUME NEW k \in Key, NEW f \in Finals(k)'
               PROVE  /\ Terminal(k)' = {}
                      /\ \A d \in Failed(k)' : attempt'[d].created <= attempt'[f].created
    BY DEF FinalInv
  <2>1. CASE ~Lands(k)
    <3>1. f \in Finals(k) /\ f \in Rows(k)
      BY <2>1, KeyKept DEF Finals
    <3> QED BY <2>1, <3>1, <1>2, KeyKept DEF FinalInv, Failed
  <2>2. CASE Lands(k)
    <3> DEFINE c == xact[k].call
    <3>1. /\ Rows(k)' = Rows(k) \cup {c}
          /\ \A d \in Rows(k) : d # c /\ attempt'[d] = attempt[d]
          /\ attempt'[c].outcome = xact[k].outcome /\ attempt'[c].created = xact[k].created
          /\ Terminal(k) = {}
      BY <2>2, KeyLanded
    <3>2. Finals(k) = {}
      <4>1. CASE xact[k].outcome = "completed" /\ xact[k].attached
        <5>1. pc[c] = "apply"  BY <2>2, <4>1 DEF FenceInv, Lands
        <5> QED BY <2>2, <4>1, <5>1, <1>2, FinalIsFound DEF Lands
      <4> QED BY <2>2, <4>1, <1>2 DEF LandingInv, Lands
    <3>3. f = c /\ xact[k].outcome = "final"
      BY <3>1, <3>2 DEF Finals
    <3>4. \A d \in Rows(k) : attempt[d].created <= xact[k].created
      BY <2>2, <1>2 DEF HeldTxInv, Lands
    <3>5. Terminal(k)' = {}
      BY <3>1, <3>3 DEF Terminal
    <3>6. \A d \in Failed(k)' : attempt'[d].created <= attempt'[f].created
      <4>1. Failed(k)' \subseteq Rows(k)'  BY DEF Failed
      <4> QED BY <4>1, <3>1, <3>3, <3>4, <1>n
    <3> QED BY <3>5, <3>6
  <2> QED BY <2>1, <2>2
<1>7. LandingInv'
  <2> SUFFICES ASSUME NEW k \in Key, xact'[k] # NoTx,
                      xact'[k].outcome # "completed" \/ ~xact'[k].attached
               PROVE  Finals(k)' = {}
    BY DEF LandingInv
  <2>1. ~Ends(k) /\ Finals(k)' = Finals(k)  BY <1>e, KeyKept DEF Ends
  <2>2. CASE xact'[k] = xact[k]
    BY <2>1, <2>2, <1>2 DEF LandingInv
  <2>3. CASE Loses(k)
    BY <2>1, <2>3, <1>2, <1>l, FinalIsFound DEF LandingInv, Loses
  <2>4. ASSUME NEW c \in Call, Takes(k, c) PROVE Finals(k)' = {}
    BY <2>1, <2>4, <1>2, FinalIsFound DEF Takes
  <2> QED BY <2>1, <2>2, <2>3, <2>4, FenceSteps
<1> QED BY <1>4, <1>5, <1>6, <1>7

LEMMA OrderInductive == Spec => [](Exclusive /\ ClockInv /\ OrderInv)
<1>1. Init => Exclusive /\ ClockInv /\ OrderInv
  <2> SUFFICES ASSUME Init PROVE Exclusive /\ ClockInv /\ OrderInv  OBVIOUS
  <2>1. Exclusive  BY DEF Init, Exclusive, Owning, Callback
  <2>2. ClockInv  BY DEF Init, ClockInv, NoRow, NoTx
  <2>3. \A k \in Key : Finals(k) = {} /\ xact[k] = NoTx
    <3>1. \A c \in Call : attempt[c].outcome # "final"  BY DEF Init, NoRow
    <3> QED BY <3>1 DEF Init, Finals, Rows
  <2>4. \A c \in Call : pc[c] \notin {"fence", "recfence"}  BY DEF Init
  <2>5. OrderInv
    BY <2>3, <2>4 DEF OrderInv, OpenTxInv, HeldTxInv, FinalInv, LandingInv
  <2> QED BY <2>1, <2>2, <2>5
<1>2. ASSUME IInv, Exclusive, ClockInv, OrderInv, [Next]_vars
      PROVE  (Exclusive /\ ClockInv /\ OrderInv)'
  <2>1. CASE Next
    BY <1>2, <2>1, ExclusiveStep, ClockStep, OrderStep
  <2>2. CASE UNCHANGED vars
    <3>1. Exclusive' /\ ClockInv'  BY <1>2, <2>2 DEF Exclusive, ClockInv, K, vars
    <3>2. OrderInv'
      BY <1>2, <2>2 DEF OrderInv, OpenTxInv, HeldTxInv, FinalInv, LandingInv, Finals, Failed,
           Terminal, Rows, K, vars
    <3> QED BY <3>1, <3>2
  <2> QED BY <1>2, <2>1, <2>2
<1> QED BY <1>1, <1>2, Inductive, PTL DEF Spec

\* While no lock connection dies, a non-retryable failure is the last word on
\* its key: the session lock orders the transactions of a key by their start,
\* so the latest failed row is the one written last, and every later insert
\* finds it, also one whose client has gone.
THEOREM FinalFailureIsFinal == Spec => []FinalFailureStands
<1>1. OrderInv => FinalFailureStands
  BY DEF OrderInv, FinalInv, Finals, FinalFailureStands
<1> QED BY <1>1, OrderInductive, PTL

=============================================================================
