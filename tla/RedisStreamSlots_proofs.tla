----------------------- MODULE RedisStreamSlots_proofs -----------------------
(***************************************************************************)
(* Proofs about the streams that share a Redis counter, for any finite set *)
(* of requests, any limit, durations and faults.                           *)
(***************************************************************************)
EXTENDS RedisStreamSlots, FiniteSetTheorems, TLAPS

(* Acquire has let these in: LimitHolds alone is not inductive, as the     *)
(* first stream is admitted before its EXPIRE is answered.                 *)
Admitted == {s \in Stream : pc[s] \in {"expire", "open"}}

CountSuffices ==
  /\ count + excess >= Cardinality(Counted)
  /\ Cardinality(Admitted) <= Max + excess

IInv == TypeOK /\ CountSuffices

Phase == {"idle", "expire", "undo", "open", "release", "again"}

-----------------------------------------------------------------------------
\* Moving a stream to another phase keeps the types.
LEMMA GotoType ==
  ASSUME TypeOK, NEW s \in Stream, NEW l \in Phase, Goto(s, l)
  PROVE  /\ pc' \in [Stream -> Phase]
         /\ age' \in [Stream -> Nat]
         /\ \A t \in Stream : age'[t] <= Deadline(pc'[t])
         /\ pc'[s] = l /\ \A t \in Stream : t # s => pc'[t] = pc[t]
BY DurationAssumption DEF TypeOK, Goto, Deadline, Phase

\* The sets of streams are finite, and the open ones are admitted ones.
LEMMA Sizes ==
  /\ IsFiniteSet(Counted) /\ IsFiniteSet(Admitted) /\ IsFiniteSet(Open)
  /\ Cardinality(Counted) \in Nat /\ Cardinality(Admitted) \in Nat /\ Cardinality(Open) \in Nat
  /\ Cardinality(Open) <= Cardinality(Admitted)
  /\ Cardinality(Admitted) <= Cardinality(Counted)
<1>1. Counted \subseteq Stream /\ Admitted \subseteq Counted /\ Open \subseteq Admitted
  BY DEF Counted, Admitted, Open
<1>2. IsFiniteSet(Counted) /\ Cardinality(Counted) \in Nat
  BY <1>1, StreamAssumption, FS_Subset, FS_CardinalityType
<1>3. /\ IsFiniteSet(Admitted) /\ Cardinality(Admitted) \in Nat
      /\ Cardinality(Admitted) <= Cardinality(Counted)
  BY <1>1, <1>2, FS_Subset, FS_CardinalityType
<1>4. /\ IsFiniteSet(Open) /\ Cardinality(Open) \in Nat
      /\ Cardinality(Open) <= Cardinality(Admitted)
  BY <1>1, <1>3, FS_Subset, FS_CardinalityType
<1> QED
  BY <1>2, <1>3, <1>4

\* The same of the next state.
LEMMA SizesNext ==
  /\ IsFiniteSet(Counted') /\ IsFiniteSet(Admitted')
  /\ Cardinality(Counted') \in Nat /\ Cardinality(Admitted') \in Nat
  /\ Cardinality(Admitted') <= Cardinality(Counted')
<1>1. Counted' \subseteq Stream /\ Admitted' \subseteq Counted'
  BY DEF Counted, Admitted
<1>2. IsFiniteSet(Counted') /\ Cardinality(Counted') \in Nat
  BY <1>1, StreamAssumption, FS_Subset, FS_CardinalityType
<1> QED
  BY <1>1, <1>2, FS_Subset, FS_CardinalityType

LEMMA InitIInv == Init => IInv
<1> SUFFICES ASSUME Init PROVE IInv
  OBVIOUS
<1>1. TypeOK
  <2>1. exists \in BOOLEAN /\ unset \in BOOLEAN
    BY DEF Init
  <2> QED
    BY <2>1, MaxAssumption, DurationAssumption DEF Init, TypeOK, NoTTL, Deadline
<1>2. Counted = {} /\ Admitted = {}
  BY DEF Init, Counted, Admitted
<1>3. CountSuffices
  BY <1>2, FS_EmptySet, MaxAssumption DEF CountSuffices, Init
<1> QED
  BY <1>1, <1>3 DEF IInv

\* A stream that goes on without being admitted: the sets do not grow, and
\* the counter and its excess together do not fall, unless the stream is
\* given back.
LEMMA LeaveStep ==
  ASSUME IInv, NEW s \in Stream, NEW l \in Phase,
         pc'[s] = l, \A t \in Stream : t # s => pc'[t] = pc[t],
         pc[s] # "idle", l # "expire",
         l = "open" => pc[s] = "expire",
         s \notin Counted => l \in {"idle", "again"},
         count' \in Int, excess' \in Nat, excess' >= excess,
         count' + excess' >= count + excess - 1,
         (s \in Counted /\ l \in {"idle", "again"}) \/ count' + excess' >= count + excess
  PROVE  CountSuffices'
<1>1. pc \in [Stream -> Phase] /\ count \in Int /\ excess \in Nat
  BY DEF IInv, TypeOK, Phase
<1>2. Admitted' \subseteq Admitted
  BY DEF Admitted
<1>3. Cardinality(Admitted') <= Cardinality(Admitted)
  BY <1>2, Sizes, FS_Subset
<1>4. /\ count + excess >= Cardinality(Counted) /\ Cardinality(Admitted) <= Max + excess
      /\ Cardinality(Counted) \in Nat /\ Cardinality(Admitted) \in Nat /\ Cardinality(Admitted') \in Nat
      /\ Max \in Nat
  BY Sizes, SizesNext, MaxAssumption DEF IInv, CountSuffices
<1>5. Cardinality(Admitted') <= Max + excess'
  BY <1>1, <1>3, <1>4
<1>6. CASE s \in Counted /\ l \in {"idle", "again"}
  <2>1. Counted' = Counted \ {s}
    BY <1>6 DEF Counted
  <2>2. Cardinality(Counted') = Cardinality(Counted) - 1
    BY <1>6, <2>1, Sizes, FS_RemoveElement
  <2>3. count + excess - 1 >= Cardinality(Counted')
    BY <2>2, <1>1, <1>4
  <2>4. count' + excess' \in Int /\ count + excess - 1 \in Int /\ Cardinality(Counted') \in Int
    BY <2>2, <1>1, <1>4
  <2>5. count' + excess' >= Cardinality(Counted')
    BY <2>3, <2>4
  <2> QED
    BY <2>5, <1>5 DEF CountSuffices
<1>7. CASE ~(s \in Counted /\ l \in {"idle", "again"})
  <2>1. Counted' = Counted
    BY <1>7 DEF Counted
  <2>2. count' + excess' >= count + excess
    BY <1>7
  <2>3. count + excess >= Cardinality(Counted')
    BY <2>1, <1>4
  <2>4. count' + excess' \in Int /\ count + excess \in Int /\ Cardinality(Counted') \in Int
    BY <2>1, <1>1, <1>4
  <2>5. count' + excess' >= Cardinality(Counted')
    BY <2>2, <2>3, <2>4
  <2> QED
    BY <2>5, <1>5 DEF CountSuffices
<1> QED
  BY <1>6, <1>7

LEMMA IncrIInv == ASSUME IInv, NEW s \in Stream, Incr(s) PROVE IInv'
<1> DEFINE l == Admission(count + 1)
<1>1. /\ pc[s] = "idle" /\ count' = count + 1 /\ exists' = TRUE /\ Goto(s, l)
      /\ UNCHANGED <<left, excess, unset>> /\ count \in Int /\ excess \in Nat
  BY DEF Incr, Add, IInv, TypeOK
<1>2. /\ l \in {"expire", "undo", "open"}
      /\ l = "expire" => count + 1 = 1
      /\ l = "open" => count + 1 <= Max
  BY <1>1, MaxAssumption DEF Admission
<1> HIDE DEF l
<1>3. /\ pc' \in [Stream -> Phase]
      /\ age' \in [Stream -> Nat]
      /\ \A t \in Stream : age'[t] <= Deadline(pc'[t])
      /\ pc'[s] = l /\ \A t \in Stream : t # s => pc'[t] = pc[t]
  BY <1>1, <1>2, GotoType DEF IInv, Phase
<1>4. TypeOK'
  BY <1>1, <1>3 DEF IInv, TypeOK, Phase
<1>5. CountSuffices'
  <2>1. Counted' = Counted \cup {s} /\ s \notin Counted
    BY <1>1, <1>2, <1>3 DEF Counted
  <2>2. Cardinality(Counted') = Cardinality(Counted) + 1
    BY <2>1, Sizes, FS_AddElement
  <2>3. count' + excess' >= Cardinality(Counted')
    BY <2>2, <1>1, Sizes DEF IInv, CountSuffices
  <2>4. CASE l = "undo"
    <3>1. Admitted' = Admitted
      BY <2>4, <1>1, <1>3 DEF Admitted
    <3> QED
      BY <3>1, <2>3, <1>1 DEF IInv, CountSuffices
  <2>5. CASE l # "undo"
    BY <2>3, <2>5, <1>1, <1>2, SizesNext, MaxAssumption DEF CountSuffices
  <2> QED
    BY <2>4, <2>5
<1> QED
  BY <1>4, <1>5 DEF IInv

LEMMA IncrLostIInv == ASSUME IInv, NEW s \in Stream, IncrLost(s) PROVE IInv'
<1>1. /\ count' = count + 1 /\ exists' = TRUE /\ count \in Int
      /\ UNCHANGED <<pc, age, left, excess>>
  BY DEF IncrLost, Add, IInv, TypeOK
<1>2. unset' \in BOOLEAN
  BY DEF IncrLost, IInv, TypeOK
<1>3. TypeOK'
  BY <1>1, <1>2 DEF IInv, TypeOK
<1>4. Counted' = Counted /\ Admitted' = Admitted
  BY <1>1 DEF Counted, Admitted
<1>5. CountSuffices'
  BY <1>1, <1>4, Sizes, MaxAssumption DEF IInv, CountSuffices, TypeOK
<1> QED
  BY <1>3, <1>5 DEF IInv

\* Every other step of a stream goes on to a later phase of its call.
LEMMA LeavingIInv ==
  ASSUME IInv, NEW s \in Stream, Answer(s) \/ ResendDecr(s) \/ ResendExpire(s) \/ End(s) \/ Crash(s)
  PROVE  IInv'
<1> DEFINE Onward(l) ==
      /\ pc[s] # "idle" /\ l # "expire" /\ (l = "open" => pc[s] = "expire")
      /\ s \notin Counted => l \in {"idle", "again"}
      /\ count' \in Int /\ excess' \in Nat /\ excess' >= excess
      /\ count' + excess' >= count + excess - 1
      /\ (s \in Counted /\ l \in {"idle", "again"}) \/ count' + excess' >= count + excess
<1>1. /\ left \in 0..NoTTL /\ count \in Int /\ exists \in BOOLEAN
      /\ excess \in Nat /\ unset \in BOOLEAN
  BY DEF IInv, TypeOK
<1>2. Expire \in 0..NoTTL
  BY <1>1, DurationAssumption DEF Expire, NoTTL
<1>3. left' \in 0..NoTTL /\ exists' \in BOOLEAN
  <2>1. left' \in {left, Expire} /\ exists' \in {exists, TRUE}
    BY DEF Answer, SetTTL, SetTTLError, End, Decr, DecrError, Crash, ResendDecr, ResendExpire, Decrement, Add
  <2> QED
    BY <1>1, <1>2, <2>1
<1>4. unset' \in BOOLEAN
  <2>1. CASE SetTTLError(s)
    BY <2>1, <1>1 DEF SetTTLError
  <2>2. CASE Crash(s)
    BY <2>2, <1>1 DEF Crash
  <2>3. CASE SetTTL(s) \/ Decr(s) \/ DecrError(s) \/ End(s) \/ ResendDecr(s) \/ ResendExpire(s)
    BY <2>3, <1>1 DEF SetTTL, Decr, DecrError, End, ResendDecr, ResendExpire
  <2> QED
    BY <2>1, <2>2, <2>3 DEF Answer
<1>5. CASE ResendExpire(s)
  <2>1. UNCHANGED <<pc, age, count, excess>>
    BY <1>5 DEF ResendExpire
  <2>2. Counted' = Counted /\ Admitted' = Admitted
    BY <2>1 DEF Counted, Admitted
  <2>3. CountSuffices'
    BY <2>1, <2>2 DEF IInv, CountSuffices
  <2>4. TypeOK'
    BY <2>1, <1>3, <1>4 DEF IInv, TypeOK
  <2> QED
    BY <2>3, <2>4 DEF IInv
<1>6. CASE ResendDecr(s)
  <2>1. pc[s] \in {"undo", "release", "again"} /\ pc \in [Stream -> Phase]
    BY <1>6 DEF ResendDecr, Decrement, IInv, TypeOK, Phase
  <2>2. /\ pc' \in [Stream -> Phase] /\ pc'[s] = "again"
        /\ \A t \in Stream : t # s => pc'[t] = pc[t]
    BY <1>6, <2>1 DEF ResendDecr, Phase
  <2>3. Onward("again")
    BY <1>6, <1>1, <2>1 DEF ResendDecr, Decrement, Add, Counted
  <2>4. CountSuffices'
    BY <2>2, <2>3, LeaveStep DEF Phase
  <2>5. age' = age /\ \A t \in Stream : Deadline(pc'[t]) = Deadline(pc[t])
    BY <1>6, <2>1, <2>2 DEF ResendDecr, Deadline
  <2>6. TypeOK'
    BY <1>3, <1>4, <2>2, <2>3, <2>5 DEF IInv, TypeOK, Phase
  <2> QED
    BY <2>4, <2>6 DEF IInv
<1>7. CASE Answer(s) \/ End(s) \/ Crash(s)
  <2>1. \E l \in Phase : Goto(s, l) /\ Onward(l)
    <3>1. CASE SetTTL(s)
      BY <3>1, <1>1 DEF SetTTL, Counted, Phase
    <3>2. CASE SetTTLError(s)
      BY <3>2, <1>1 DEF SetTTLError, Counted, Phase
    <3>3. CASE End(s)
      BY <3>3, <1>1 DEF End, Counted, Phase
    <3>4. CASE Decr(s)
      BY <3>4, <1>1 DEF Decr, Decrement, Add, Counted, Phase
    <3>5. CASE DecrError(s)
      BY <3>5, <1>1 DEF DecrError, Phase
    <3>6. CASE Crash(s)
      BY <3>6, <1>1 DEF Crash, Phase
    <3> QED
      BY <1>7, <3>1, <3>2, <3>3, <3>4, <3>5, <3>6 DEF Answer
  <2>2. PICK l \in Phase : Goto(s, l) /\ Onward(l)
    BY <2>1
  <2>3. /\ pc' \in [Stream -> Phase]
        /\ age' \in [Stream -> Nat]
        /\ \A t \in Stream : age'[t] <= Deadline(pc'[t])
        /\ pc'[s] = l /\ \A t \in Stream : t # s => pc'[t] = pc[t]
    BY <2>2, GotoType DEF IInv
  <2>4. CountSuffices'
    BY <2>2, <2>3, LeaveStep
  <2>5. TypeOK'
    BY <1>3, <1>4, <2>2, <2>3 DEF TypeOK, Phase
  <2> QED
    BY <2>4, <2>5 DEF IInv
<1> QED
  BY <1>5, <1>6, <1>7

LEMMA TickIInv == ASSUME IInv, Tick PROVE IInv'
<1>1. TypeOK'
  BY DurationAssumption DEF IInv, TypeOK, Tick, Aged, Deadline, Counted, NoTTL
<1>2. Counted' = Counted /\ Admitted' = Admitted
  BY DEF Tick, Counted, Admitted
<1> QED
  BY <1>1, <1>2 DEF IInv, CountSuffices, Tick

LEMMA KeyExpiresIInv == ASSUME IInv, KeyExpires PROVE IInv'
<1>1. exists' \in BOOLEAN /\ unset' \in BOOLEAN /\ excess' = Cardinality(Counted) /\ count' = 0
  BY DEF KeyExpires, IInv, TypeOK
<1>2. TypeOK'
  BY <1>1, Sizes, DurationAssumption DEF IInv, TypeOK, KeyExpires, NoTTL
<1>3. Counted' = Counted /\ Admitted' = Admitted
  BY DEF KeyExpires, Counted, Admitted
<1> QED
  BY <1>1, <1>2, <1>3, Sizes, MaxAssumption DEF IInv, CountSuffices

LEMMA NextIInv == ASSUME IInv, [Next]_vars PROVE IInv'
<1>1. CASE UNCHANGED vars
  BY <1>1 DEF vars, IInv, TypeOK, CountSuffices, Counted, Admitted
<1> QED
  BY <1>1, IncrIInv, IncrLostIInv, LeavingIInv, TickIInv, KeyExpiresIInv DEF Next

LEMMA Inductive == Spec => []IInv
BY InitIInv, NextIInv, PTL DEF Spec

-----------------------------------------------------------------------------
(* The variables keep their types; no call or stream outlives its deadline. *)
THEOREM TypeCorrect == Spec => []TypeOK
BY Inductive, PTL DEF IInv

(* Whatever answers are lost, calls repeated and replicas dead, Acquire    *)
(* lets no more streams in than the maximum and the slots its counter has  *)
(* forgotten, by an expiry under a stream or by a DECR executed again.     *)
THEOREM LimitKeptUpToExcess == Spec => []LimitUpToExcess
<1>1. IInv => LimitUpToExcess
  BY Sizes, MaxAssumption DEF IInv, CountSuffices, LimitUpToExcess, TypeOK
<1> QED
  BY <1>1, Inductive, PTL
=============================================================================
