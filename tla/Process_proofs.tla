--------------------------- MODULE Process_proofs ---------------------------
(***************************************************************************)
(* Proofs about the state that a process keeps in memory: the counter of   *)
(* its streams (MemoryStreamSlots), for every set of streams, limit, TTL   *)
(* and maximum duration, and its snapshot of the settings (SettingsCache), *)
(* for every set of callers, interval and number of updates and faults.    *)
(***************************************************************************)
EXTENDS MemoryStreamSlots, SettingsCache, FiniteSetTheorems, TLAPS

-----------------------------------------------------------------------------
(* The streams                                                             *)

\* An open stream was admitted within the last age[s] ticks, and the entry
\* was refreshed then: it has at least TTL - age[s] ticks left.
Refreshed == \A s \in open : left >= TTL - age[s]

IInv == TypeOK /\ Refreshed /\ CountUpToExcess

\* Streams are finite in number, so the slots held can be counted.
LEMMA OpenFinite == TypeOK => IsFiniteSet(open) /\ Cardinality(open) \in Nat
  BY StreamAssumption, FS_Subset, FS_CardinalityType DEF TypeOK

\* Init establishes the inductive invariant: no streams, no entry.
LEMMA InitIInv == Init => IInv
<1> SUFFICES ASSUME Init PROVE IInv
  OBVIOUS
<1>1. TypeOK
  BY DurationAssumption, MaxAssumption DEF Init, TypeOK
<1>2. Cardinality(open) = 0
  BY FS_EmptySet DEF Init
<1>. QED BY <1>1, <1>2 DEF Init, IInv, Refreshed, CountUpToExcess

\* An entry lapses only under an open stream, and only when a stream may last
\* longer than the entry.
LEMMA LapsedUnderStream == IInv /\ Lapsed => open # {} /\ duration > TTL
<1>. SUFFICES ASSUME IInv, Lapsed PROVE open # {} /\ duration > TTL
  OBVIOUS
<1>1. open # {}
  BY FS_EmptySet DEF IInv, TypeOK, CountUpToExcess, Lapsed
<1>2. PICK s \in open : left >= TTL - age[s]
  BY <1>1 DEF IInv, Refreshed
<1>3. age[s] \in 0..duration /\ duration \in Nat /\ TTL \in Nat /\ left \in Int
  BY <1>2, DurationAssumption DEF IInv, TypeOK
<1>. QED BY <1>1, <1>2, <1>3 DEF Lapsed

\* Acquire of a free stream below the limit keeps the invariant.
LEMMA AcquireKeeps ==
  ASSUME IInv, NEW s \in Stream, Acquire(s)
  PROVE  IInv'
<1>1. Cardinality(open') = Cardinality(open) + 1 /\ Cardinality(open) \in Nat
  BY OpenFinite, FS_AddElement DEF Acquire, IInv
<1>2. /\ count \in 0..Max /\ left \in -1..TTL /\ excess \in Nat /\ duration \in Nat
      /\ Max \in Nat \ {0} /\ TTL \in Nat
  BY MaxAssumption, DurationAssumption DEF IInv, TypeOK
<1>3. count' \in 1..Max /\ excess' \in Nat
  BY <1>2 DEF Acquire, LiveCount
<1>4. TypeOK'
  BY <1>2, <1>3 DEF Acquire, IInv, TypeOK
<1>5. Refreshed'
  BY <1>2 DEF Acquire, IInv, TypeOK, Refreshed
<1>6. count' <= Cardinality(open')
  BY <1>1, <1>2 DEF Acquire, LiveCount, IInv, CountUpToExcess
<1>7. Cardinality(open') <= count' + excess'
  <2>1. Cardinality(open) <= count + excess
    BY DEF IInv, CountUpToExcess
  <2>2. CASE Lapsed
    <3>1. count' = 1 /\ excess' = excess + Max
      BY <2>2, <1>2 DEF Acquire, LiveCount, Lapsed
    <3>. QED BY <3>1, <2>1, <1>1, <1>2
  <2>3. CASE ~Lapsed
    <3>1. count' = count + 1 /\ excess' = excess
      BY <2>3, <1>2 DEF Acquire, LiveCount, Lapsed
    <3>. QED BY <3>1, <2>1, <1>1, <1>2
  <2>. QED BY <2>2, <2>3
<1>8. duration' <= TTL => excess' = 0
  BY <1>2, LapsedUnderStream DEF Acquire, IInv, CountUpToExcess
<1>. QED BY <1>4, <1>5, <1>6, <1>7, <1>8 DEF IInv, CountUpToExcess

\* The release of an open stream takes one slot at most, and none is left
\* when no stream is.
LEMMA ReleaseKeeps ==
  ASSUME IInv, NEW s \in Stream, Release(s)
  PROVE  IInv'
<1>1. /\ s \in open /\ Cardinality(open') = Cardinality(open) - 1
      /\ Cardinality(open) \in Nat /\ Cardinality(open') \in Nat /\ IsFiniteSet(open')
  BY OpenFinite, FS_RemoveElement, FS_CardinalityType DEF Release, IInv
<1>2. /\ count \in 0..Max /\ excess \in Nat /\ duration \in Nat
      /\ Max \in Nat /\ TTL \in Nat
  BY MaxAssumption, DurationAssumption DEF IInv, TypeOK
<1>3. count' \in 0..Max /\ excess' \in Nat
  BY <1>2 DEF Release
<1>4. TypeOK'
  BY <1>2, <1>3 DEF Release, IInv, TypeOK
<1>5. Refreshed'
  BY DEF Release, IInv, TypeOK, Refreshed
<1>6. count' <= Cardinality(open')
  BY <1>1, <1>2 DEF Release, IInv, CountUpToExcess
<1>7. Cardinality(open') <= count' + excess'
  <2>1. CASE open' = {}
    BY <2>1, <1>1, <1>2, <1>3, FS_EmptySet
  <2>2. CASE open' # {}
    <3>1. excess' = excess /\ count' >= count - 1
      BY <2>2, <1>2 DEF Release
    <3>. QED BY <3>1, <1>1, <1>2, <1>3 DEF IInv, CountUpToExcess
  <2>. QED BY <2>1, <2>2
<1>8. duration' <= TTL => excess' = 0
  BY <1>2 DEF Release, IInv, CountUpToExcess
<1>. QED BY <1>4, <1>5, <1>6, <1>7, <1>8 DEF IInv, CountUpToExcess

\* Time ages streams and entry alike, and no stream outlives its duration.
LEMMA TickKeeps ==
  ASSUME IInv, Tick
  PROVE  IInv'
<1>1. /\ duration \in Nat /\ TTL \in Nat /\ left \in -1..TTL
      /\ \A s \in open : s \in Stream /\ age[s] \in 0..duration /\ age[s] < duration
  BY DurationAssumption DEF Tick, IInv, TypeOK
<1>2. age' \in [Stream -> 0..duration]
  BY <1>1 DEF Tick, IInv, TypeOK
<1>3. TypeOK'
  BY <1>1, <1>2 DEF Tick, IInv, TypeOK
<1>4. \A s \in open : age'[s] = age[s] + 1
  BY <1>1 DEF Tick
<1>5. Refreshed'
  <2>. SUFFICES ASSUME NEW s \in open' PROVE left' >= TTL - age'[s]
    BY DEF Refreshed
  <2>1. s \in open /\ age'[s] = age[s] + 1 /\ left >= TTL - age[s] /\ age[s] \in Nat
    BY <1>1, <1>4 DEF Tick, IInv, Refreshed
  <2>2. left' >= left - 1 /\ left' \in Int
    BY <1>1 DEF Tick
  <2>. QED BY <2>1, <2>2, <1>1
<1>6. CountUpToExcess'
  BY DEF Tick, IInv, CountUpToExcess
<1>. QED BY <1>3, <1>5, <1>6 DEF IInv

\* A restart loses streams and entry together.
LEMMA RestartKeeps ==
  ASSUME IInv, Restart
  PROVE  IInv'
<1>1. TypeOK'
  BY DurationAssumption, MaxAssumption DEF Restart, IInv, TypeOK
<1>2. Cardinality(open') = 0
  BY FS_EmptySet DEF Restart
<1>. QED BY <1>1, <1>2 DEF Restart, IInv, Refreshed, CountUpToExcess

\* Every step keeps the inductive invariant.
LEMMA NextKeeps == IInv /\ [Next]_vars => IInv'
<1>. SUFFICES ASSUME IInv, [Next]_vars PROVE IInv'
  OBVIOUS
<1>1. CASE UNCHANGED vars
  BY <1>1 DEF vars, IInv, TypeOK, Refreshed, CountUpToExcess
<1>2. ASSUME NEW s \in Stream, Acquire(s) PROVE IInv'
  BY <1>2, AcquireKeeps
<1>3. ASSUME NEW s \in Stream, Refuse(s) PROVE IInv'
  BY <1>3, <1>1 DEF Refuse
<1>4. ASSUME NEW s \in Stream, Release(s) PROVE IInv'
  BY <1>4, ReleaseKeeps
<1>5. CASE Tick
  BY <1>5, TickKeeps
<1>6. CASE Restart
  BY <1>6, RestartKeeps
<1>. QED BY <1>1, <1>2, <1>3, <1>4, <1>5, <1>6 DEF Next

\* The inductive invariant holds throughout.
LEMMA Invariance == Spec => []IInv
  BY InitIInv, NextKeeps, PTL DEF Spec

(* Type correctness of the in-memory limiter: no stream outlives its       *)
(* maximum duration.                                                       *)
THEOREM TypeCorrect == Spec => []TypeOK
<1>1. IInv => TypeOK  BY DEF IInv
<1>2. QED  BY <1>1, Invariance, PTL

\* Acquire and its release function never count more streams than are open,
\* and fewer only by what entries that expired under open streams let out; the
\* counter is exact when no stream may last longer than its entry.
THEOREM CounterUpToExcess == Spec => []CountUpToExcess
<1>1. IInv => CountUpToExcess
  BY DEF IInv
<1>. QED BY <1>1, Invariance, PTL

\* The in-memory limiter implements the abstract one, for every configured
\* duration: Acquire takes a slot below the maximum, or has forgotten the
\* holders of an entry that expired under them; the last release and a restart
\* leave the whole limit.
THEOREM MemoryImplementsSlots == Spec => ImplementsSlots
<1>0. /\ \A S : Slots!Cardinality(S) = Cardinality(S)
      /\ (duration > TTL) \in BOOLEAN /\ (duration' > TTL) \in BOOLEAN
  BY DEF Slots!Cardinality, Cardinality
<1>1. Init => Slots!Init
  <2>. SUFFICES ASSUME Init PROVE Slots!Init
    OBVIOUS
  <2>1. open = {} /\ Max + excess = Max
    BY MaxAssumption DEF Init
  <2>. QED BY <2>1, <1>0 DEF Slots!Init
<1>2. IInv /\ [Next]_vars => [Slots!Next]_(Slots!slots)
  <2>. SUFFICES ASSUME IInv, [Next]_vars PROVE Slots!Next \/ UNCHANGED Slots!slots
    OBVIOUS
  <2>0. Max \in Nat /\ excess \in Nat /\ Cardinality(open) \in Nat /\ Cardinality(open) <= count + excess
        /\ count \in 0..Max
    BY MaxAssumption, OpenFinite DEF IInv, TypeOK, CountUpToExcess
  <2>1. ASSUME NEW s \in Stream, Acquire(s) PROVE Slots!Next
    <3>1. CASE Lapsed
      <4>1. /\ Max + excess' = Max + excess + Max /\ open # {} /\ duration > TTL
            /\ Cardinality(open) < Max + excess'
        BY <2>0, <2>1, <3>1, LapsedUnderStream, MaxAssumption DEF Acquire
      <4>2. Slots!Take(s)
        BY <2>1, <4>1, <1>0 DEF Acquire, Slots!Take
      <4>. QED BY <4>2 DEF Slots!Next
    <3>2. CASE ~Lapsed
      <4>1. excess' = excess /\ count < Max
        BY <2>0, <2>1, <3>2, MaxAssumption DEF Acquire, Lapsed, LiveCount, IInv, TypeOK
      <4>2. Max + excess' = Max + excess /\ Cardinality(open) < Max + excess'
        BY <4>1, <2>0
      <4>3. Slots!Take(s)
        BY <2>1, <4>2, <1>0 DEF Acquire, Slots!Take
      <4>. QED BY <4>3 DEF Slots!Next
    <3>. QED BY <3>1, <3>2
  <2>2. ASSUME NEW s \in Stream, Release(s) PROVE Slots!Next
    <3>1. Max + excess' = IF open' = {} THEN Max ELSE Max + excess
      BY <2>0, <2>2 DEF Release
    <3>2. Slots!Give(s)
      BY <2>2, <3>1 DEF Release, Slots!Give
    <3>. QED BY <3>2 DEF Slots!Next
  <2>3. CASE Restart
    <3>1. open' = {} /\ Max + excess' = Max
      BY <2>0, <2>3 DEF Restart
    <3>2. Slots!Restart
      BY <3>1, <1>0 DEF Slots!Restart
    <3>. QED BY <3>2 DEF Slots!Next
  <2>4. CASE Tick \/ UNCHANGED vars
    BY <2>4 DEF Tick, vars, Slots!slots
  <2>5. ASSUME NEW s \in Stream, Refuse(s) PROVE UNCHANGED Slots!slots
    BY <2>5 DEF Refuse, vars, Slots!slots
  <2>. QED BY <2>1, <2>2, <2>3, <2>4, <2>5 DEF Next
<1>. QED BY <1>1, <1>2, Invariance, PTL DEF Spec, ImplementsSlots, Slots!Spec

-----------------------------------------------------------------------------
(* The settings                                                            *)

USE DEF clock

CacheRecord == [version : Nat, checked : Nat, verified : Nat, failed : BOOLEAN, invalid : BOOLEAN]

(* A caller that is in a call. *)
CallRecord ==
  [pc : {"look", "gate", "check", "compare", "list", "install", "table", "write", "invalidate"},
   section : Section, stage : {"read", "before", "after"}, at : Nat, from : Nat, got : Nat, wrote : Nat, changed : BOOLEAN]

SettingsType ==
  /\ now \in Nat /\ wall \in Nat /\ back \in Nat /\ db \in Nat
  /\ since \in [0..now -> Nat]
  /\ cache \in CacheRecord \cup {NoCache}
  /\ gate \in Caller \cup {NoCaller}
  /\ call \in [Caller -> CallRecord \cup {Idle}]

(* An update made its write number; a mere read made none. *)
WrittenInv == \A c \in Caller : call[c] # Idle => call[c].wrote <= db /\ (call[c].stage # "after" => call[c].wrote = 0)

(* A version of the table from a moment at or after t. *)
Covers(version, t) == \A u \in 0..t : version >= since[u]

Refreshing(c) == call[c].pc \in {"check", "compare", "list", "install"}
Answered(c) == call[c].pc \in {"compare", "install"}

(* The clock showed w at the time t, and has since moved with the time but *)
(* for the amounts it was set back.                                        *)
Shown(w, t) == w + now <= t + wall + back

(* What a refresh read is from after it started, and only one is under way. *)
RefreshInv ==
  /\ \A t \in 0..now : since[t] <= db
  /\ \A c \in Caller : Refreshing(c) => gate = c /\ call[c].from <= now /\ Shown(call[c].at, call[c].from)
  /\ \A c \in Caller : Answered(c) => Covers(call[c].got, call[c].from)

(* A snapshot was in the table when it was verified; without an error that *)
(* is when it was checked.                                                 *)
SnapshotInv ==
  cache # NoCache => /\ cache.verified <= now
                     /\ Covers(cache.version, cache.verified)
                     /\ ~cache.failed => Shown(cache.checked, cache.verified)

(* Past its invalidation an update finds its change in every snapshot that *)
(* is valid, and in every refresh under way.                               *)
Settled(c) == call[c] # Idle /\ call[c].pc \notin {"write", "invalidate"}
ShownInv ==
  \A c \in Caller : Settled(c) =>
    /\ cache # NoCache /\ ~cache.invalid /\ ~cache.failed => cache.version >= call[c].wrote
    /\ \A d \in Caller : Answered(d) => call[d].got >= call[c].wrote

SettingsInv == SettingsType /\ WrittenInv /\ RefreshInv /\ SnapshotInv /\ ShownInv

-----------------------------------------------------------------------------
LEMMA CallForms ==
  ASSUME SettingsType, NEW c \in Caller, call[c].pc # "idle"
  PROVE  call[c] \in CallRecord /\ call[c] # Idle
BY DEF SettingsType, Idle

LEMMA BusyForms == \A r \in CallRecord : r # Idle /\ r.pc # "idle"
<1>1. Idle.pc = "idle"
  BY DEF Idle
<1> QED
  BY <1>1 DEF CallRecord

(* A call ends, or goes on to write. *)
Quits(c) ==
  /\ \A d \in Caller : d # c => call'[d] = call[d]
  /\ call' \in [Caller -> CallRecord \cup {Idle}]
  /\ \/ call'[c] = Idle
     \/ /\ call'[c] \in CallRecord /\ call'[c].pc = "write"
        /\ call'[c].stage = call[c].stage /\ call'[c].wrote = call[c].wrote

LEMMA ReturnQuits == ASSUME SettingsType, NEW c \in Caller, NEW a, Return(c, a) PROVE Quits(c) /\ answer' = a
BY DEF Return, Quits, SettingsType

LEMMA WriteQuits == ASSUME SettingsType, NEW c \in Caller, call[c] \in CallRecord, GotoWrite(c) PROVE Quits(c)
<1> DEFINE r == [call[c] EXCEPT !.pc = "write", !.at = 0, !.from = 0, !.got = 0]
<1>1. r \in CallRecord /\ r.pc = "write" /\ r.stage = call[c].stage /\ r.wrote = call[c].wrote
  BY DEF CallRecord
<1>2. call' = [call EXCEPT ![c] = r]
  BY DEF GotoWrite, SettingsType
<1> HIDE DEF r
<1> QED
  BY <1>1, <1>2 DEF Quits, SettingsType

(* An answer is the snapshot it was given, which is not a stale one where  *)
(* the call refuses that.                                                  *)
LEMMA ServeQuits ==
  ASSUME SettingsType, NEW c \in Caller, call[c] \in CallRecord, NEW v, NEW s, NEW a, Serve(c, v, s, a)
  PROVE  Quits(c) /\ (answer' = NoAnswer \/ (answer' = Told(c, v, s, a) /\ ~Refuses(c, s)))
<1>1. CASE Return(c, NoAnswer)
  BY <1>1, ReturnQuits
<1>2. CASE GotoWrite(c) /\ Silent
  BY <1>2, WriteQuits DEF Silent
<1>3. CASE ~Refuses(c, s) /\ Return(c, Told(c, v, s, a))
  BY <1>3, ReturnQuits
<1> QED
  BY <1>1, <1>2, <1>3 DEF Serve

LEMMA FailQuits ==
  ASSUME SettingsType, NEW c \in Caller, call[c] \in CallRecord, Fail(c)
  PROVE  Quits(c) /\ answer' = NoAnswer
BY ReturnQuits, WriteQuits DEF Fail, Silent

-----------------------------------------------------------------------------
\* The end of a call that leaves a good snapshot.
LEMMA QuitKeeps ==
  ASSUME SettingsInv, NEW c \in Caller, call[c] \in CallRecord, Quits(c), UNCHANGED <<clock>>, db' \in Nat, db' >= db,
         (gate' = gate /\ ~Refreshing(c)) \/ (gate = c /\ gate' = NoCaller),
         cache' \in CacheRecord \cup {NoCache},
         cache' # NoCache => /\ cache'.verified <= now
                             /\ Covers(cache'.version, cache'.verified)
                             /\ ~cache'.failed => Shown(cache'.checked, cache'.verified)
                             /\ ~cache'.failed /\ ~cache'.invalid =>
                                  \A d \in Caller : Settled(d) => cache'.version >= call[d].wrote
  PROVE  SettingsInv'
<1> USE DEF SettingsInv
<1>1. \A d \in Caller : call'[d] = call[d] \/ (d = c /\ (call'[d] = Idle \/ (call'[d] \in CallRecord /\ call'[d].pc = "write")))
  BY DEF Quits
<1>2. Idle.pc = "idle"
  BY DEF Idle
<1>3. SettingsType'
  BY DEF SettingsType, Quits
<1>4. WrittenInv'
  <2> SUFFICES ASSUME NEW d \in Caller, call'[d] # Idle
               PROVE  call'[d].wrote <= db' /\ (call'[d].stage # "after" => call'[d].wrote = 0)
    BY DEF WrittenInv
  <2>1. call[d] # Idle /\ call'[d].wrote = call[d].wrote /\ call'[d].stage = call[d].stage
    BY BusyForms DEF Quits
  <2>2. call[d].wrote \in Nat /\ db \in Nat
    BY <2>1 DEF SettingsType, CallRecord
  <2> QED
    BY <2>1, <2>2 DEF WrittenInv
<1>5. \A d \in Caller : Refreshing(d)' => Refreshing(d) /\ call'[d] = call[d] /\ gate' = gate
  <2> SUFFICES ASSUME NEW d \in Caller, Refreshing(d)' PROVE Refreshing(d) /\ call'[d] = call[d] /\ gate' = gate
    OBVIOUS
  <2>1. call'[d] = call[d] /\ Refreshing(d)
    BY <1>1, <1>2 DEF Refreshing
  <2>2. gate = d
    BY <2>1 DEF RefreshInv
  <2>3. d # c
    BY <1>2 DEF Refreshing, Quits
  <2> QED
    BY <2>1, <2>2, <2>3
<1>6. \A d \in Caller : Answered(d)' => Answered(d) /\ call'[d] = call[d]
  BY <1>1, <1>2 DEF Answered
<1>7. \A v, t : Covers(v, t) => \A u \in 0..t : v >= since'[u]
  BY DEF Covers
<1>8. RefreshInv'
  <2>1. \A t \in 0..now' : since'[t] <= db'
    BY DEF RefreshInv, SettingsType
  <2>2. \A d \in Caller : Refreshing(d)' => gate' = d /\ call'[d].from <= now' /\ Shown(call[d].at, call[d].from)'
    BY <1>5 DEF RefreshInv, Shown
  <2>3. \A d \in Caller : Answered(d)' => Covers(call[d].got, call[d].from)' /\ call'[d] = call[d]
    BY <1>6 DEF RefreshInv, Covers
  <2> QED
    BY <2>1, <2>2, <2>3 DEF RefreshInv, Covers
<1>9. SnapshotInv'
  BY DEF SnapshotInv, Covers, Shown
<1>10. \A d \in Caller : Settled(d)' => Settled(d) /\ call'[d] = call[d]
  BY <1>1, <1>2 DEF Settled
<1>11. ShownInv'
  BY <1>6, <1>10 DEF ShownInv
<1> QED
  BY <1>3, <1>4, <1>8, <1>9, <1>11

(* A call goes on in the phase and with the values of r, which are such    *)
(* that the invariant still holds of it.                                   *)
Moves(c, r) ==
  /\ call' = [call EXCEPT ![c] = r]
  /\ UNCHANGED <<clock>>
  /\ db' \in Nat /\ db' >= db
  /\ gate' \in Caller \cup {NoCaller} /\ (gate' = gate \/ gate = NoCaller)
  /\ cache' = cache \/ cache' = Invalidated
  /\ r.wrote <= db' /\ (r.stage # "after" => r.wrote = 0)
  /\ r.pc \in {"check", "compare", "list", "install"} => gate' = c /\ r.from <= now /\ Shown(r.at, r.from)
  /\ r.pc \in {"compare", "install"} =>
       /\ Covers(r.got, r.from)
       /\ r.wrote = 0 \/ (Settled(c) /\ r.wrote = call[c].wrote)
       /\ \A d \in Caller : Settled(d) => r.got >= call[d].wrote
  /\ \/ r.pc \in {"write", "invalidate"}
     \/ r.wrote = 0
     \/ Settled(c) /\ r.wrote = call[c].wrote
     \/ gate = NoCaller /\ (cache' = NoCache \/ cache'.invalid)

LEMMA MoveKeeps == ASSUME SettingsInv, NEW c \in Caller, NEW r \in CallRecord, Moves(c, r) PROVE SettingsInv'
<1> USE DEF SettingsInv, Moves
<1>1. call'[c] = r /\ \A d \in Caller : d # c => call'[d] = call[d]
  BY DEF SettingsType
<1>2. cache' \in CacheRecord \cup {NoCache}
      /\ (cache' # NoCache => /\ cache # NoCache /\ cache'.version = cache.version /\ cache'.checked = cache.checked /\ cache'.verified = cache.verified
                              /\ cache'.failed = cache.failed /\ (cache.invalid => cache'.invalid))
  BY DEF Invalidated, SettingsType, CacheRecord
<1>3. SettingsType'
  BY <1>2 DEF SettingsType
<1>4. WrittenInv'
  <2> SUFFICES ASSUME NEW d \in Caller, call'[d] # Idle
               PROVE  call'[d].wrote <= db' /\ (call'[d].stage # "after" => call'[d].wrote = 0)
    BY DEF WrittenInv
  <2>1. CASE d = c
    BY <1>1, <2>1
  <2>2. CASE d # c
    <3>1. call[d].wrote \in Nat /\ db \in Nat /\ call'[d] = call[d]
      BY <1>1, <2>2 DEF SettingsType, CallRecord
    <3> QED
      BY <3>1 DEF WrittenInv
  <2> QED
    BY <2>1, <2>2
<1>5. RefreshInv'
  <2>1. \A t \in 0..now' : since'[t] <= db'
    BY DEF RefreshInv, SettingsType
  <2>2. ASSUME NEW d \in Caller, Refreshing(d)' PROVE gate' = d /\ call'[d].from <= now' /\ Shown(call[d].at, call[d].from)'
    <3>1. CASE d = c
      BY <1>1, <2>2, <3>1 DEF Refreshing, Shown
    <3>2. CASE d # c
      <4>1. Refreshing(d) /\ call'[d] = call[d]
        BY <1>1, <2>2, <3>2 DEF Refreshing
      <4>2. gate = d /\ gate # NoCaller
        BY <4>1, NoneAssumption DEF RefreshInv
      <4> QED
        BY <4>1, <4>2 DEF RefreshInv, Shown
    <3> QED
      BY <3>1, <3>2
  <2>3. ASSUME NEW d \in Caller, Answered(d)' PROVE \A u \in 0..call'[d].from : call'[d].got >= since'[u]
    <3>1. CASE d = c
      BY <1>1, <2>3, <3>1 DEF Answered, Covers
    <3>2. CASE d # c
      BY <1>1, <2>3, <3>2 DEF Answered, Covers, RefreshInv
    <3> QED
      BY <3>1, <3>2
  <2> QED
    BY <2>1, <2>2, <2>3 DEF RefreshInv, Covers
<1>6. SnapshotInv'
  BY <1>2 DEF SnapshotInv, Covers, Shown
<1>7. ShownInv'
  <2> SUFFICES ASSUME NEW d \in Caller, Settled(d)'
               PROVE  /\ cache' # NoCache /\ ~cache'.invalid /\ ~cache'.failed => cache'.version >= call'[d].wrote
                      /\ \A e \in Caller : Answered(e)' => call'[e].got >= call'[d].wrote
    BY DEF ShownInv
  <2>1. \/ Settled(d) /\ call'[d].wrote = call[d].wrote
        \/ call'[d].wrote = 0
        \/ (d = c /\ gate = NoCaller /\ (cache' = NoCache \/ cache'.invalid))
    BY <1>1 DEF Settled
  <2>2. cache' # NoCache => cache'.version \in Nat
    BY <1>2 DEF CacheRecord
  <2>3. cache' # NoCache /\ ~cache'.invalid /\ ~cache'.failed => cache'.version >= call'[d].wrote
    BY <1>2, <2>1, <2>2 DEF ShownInv
  <2>4. ASSUME NEW e \in Caller, Answered(e)' PROVE call'[e].got >= call'[d].wrote
    <3>1. call'[e].got \in Nat
      BY <1>1, <1>3, <2>4 DEF SettingsType, Answered, CallRecord, Idle
    <3>2. CASE call'[d].wrote = 0
      BY <3>1, <3>2
    <3>3. CASE Settled(d) /\ call'[d].wrote = call[d].wrote
      <4>1. CASE e = c
        BY <1>1, <2>4, <3>3, <4>1 DEF Answered
      <4>2. CASE e # c
        BY <1>1, <2>4, <3>3, <4>2 DEF Answered, ShownInv
      <4> QED
        BY <4>1, <4>2
    <3>4. CASE d = c /\ gate = NoCaller /\ call'[d].wrote # 0 /\ ~(Settled(d) /\ call'[d].wrote = call[d].wrote)
      <4>1. e # c
        BY <1>1, <2>4, <3>4 DEF Answered
      <4>2. Refreshing(e)
        BY <1>1, <2>4, <4>1 DEF Answered, Refreshing
      <4> QED
        BY <3>4, <4>2, NoneAssumption DEF RefreshInv
    <3> QED
      BY <2>1, <3>2, <3>3, <3>4
  <2> QED
    BY <2>3, <2>4
<1> QED
  BY <1>3, <1>4, <1>5, <1>6, <1>7

-----------------------------------------------------------------------------
\* What is told from a version that has every update up to the time asked.
Good == BoundedStaleness /\ UpdatesShowThemselves

LEMMA SilenceIsGood == answer' = NoAnswer => Good'
BY DEF Good, BoundedStaleness, UpdatesShowThemselves, NoAnswer, Section

LEMMA AnswerIsGood ==
  ASSUME SettingsInv, NEW c \in Caller, call[c] \in CallRecord, NEW v \in Nat, NEW s \in BOOLEAN, NEW a \in Nat,
         answer' = Told(c, v, s, a), ~Refuses(c, s), UNCHANGED <<since, back>>,
         ~s => /\ \A t \in 0..now : t + Interval + back <= a + 1 => v >= since[t]
               /\ v >= call[c].wrote
  PROVE  Good'
<1>1. /\ answer'.kind = call[c].section /\ answer'.version = v /\ answer'.stale = s
      /\ answer'.asked = a /\ answer'.wrote = call[c].wrote /\ answer'.kind # "cached"
  BY DEF Told, CallRecord, Section
<1>2. DOMAIN since = 0..now
  BY DEF SettingsInv, SettingsType
<1>3. s /\ call[c].section = "decision" => call[c].wrote = 0
  BY BusyForms DEF Refuses, SettingsInv, WrittenInv
<1>4. BoundedStaleness'
  BY <1>1, <1>2 DEF BoundedStaleness
<1>5. UpdatesShowThemselves'
  BY <1>1, <1>3 DEF UpdatesShowThemselves
<1> QED
  BY <1>4, <1>5 DEF Good

LEMMA Phase ==
  ASSUME SettingsInv, NEW c \in Caller, call[c].pc # "idle"
  PROVE  /\ call[c] \in CallRecord /\ call[c] # Idle
         /\ call[c].at \in Nat /\ call[c].from \in Nat /\ call[c].got \in Nat /\ call[c].wrote \in Nat
         /\ call[c].pc \notin {"write", "invalidate"} => Settled(c)
         /\ call[c].wrote <= db /\ (call[c].stage # "after" => call[c].wrote = 0)
<1>1. call[c] \in CallRecord /\ call[c] # Idle
  BY CallForms DEF SettingsInv
<1> QED
  BY <1>1 DEF CallRecord, Settled, SettingsInv, WrittenInv

\* A fresh snapshot was checked less than an interval ago.
LEMMA FreshKeeps ==
  ASSUME SettingsInv, NEW c \in Caller, call[c].pc \in {"look", "gate"}, Fresh, ServeCache(c),
         UNCHANGED <<clock, db, cache, gate, faults>>
  PROVE  SettingsInv' /\ Good'
<1>1. call[c] \in CallRecord /\ Settled(c) /\ ~Refreshing(c)
  BY Phase DEF Refreshing
<1>2. cache \in CacheRecord /\ cache # NoCache /\ now \in Nat /\ wall \in Nat /\ back \in Nat /\ db \in Nat
  BY DEF Fresh, SettingsInv, SettingsType
<1>3. cache.version \in Nat /\ cache.failed \in BOOLEAN /\ cache.checked \in Nat /\ cache.verified \in Nat
  BY <1>2 DEF CacheRecord
<1>4. Quits(c) /\ (answer' = NoAnswer \/ (answer' = Told(c, cache.version, cache.failed, now) /\ ~Refuses(c, cache.failed)))
  BY <1>1, ServeQuits DEF ServeCache, SettingsInv
<1>5. SettingsInv'
  BY <1>1, <1>2, <1>4, QuitKeeps DEF SettingsInv, SnapshotInv, ShownInv
<1>6. ASSUME ~cache.failed PROVE cache.version >= call[c].wrote /\ \A t \in 0..now : t + Interval + back <= now + 1 => cache.version >= since[t]
  <2>1. cache.version >= call[c].wrote
    BY <1>1, <1>2, <1>6 DEF Fresh, SettingsInv, ShownInv
  <2>2. \A u \in 0..cache.verified : cache.version >= since[u]
    BY <1>2, <1>6 DEF SettingsInv, SnapshotInv, Covers
  <2>3. cache.checked + now <= cache.verified + wall + back /\ wall < cache.checked + Interval
    BY <1>2, <1>6 DEF Fresh, SettingsInv, SnapshotInv, Shown
  <2>4. \A t \in 0..now : t + Interval + back <= now + 1 => t \in 0..cache.verified
    BY <1>2, <1>3, <2>3, SizeAssumption
  <2> QED
    BY <2>1, <2>2, <2>4
<1>7. Good'
  BY <1>1, <1>2, <1>3, <1>4, <1>6, AnswerIsGood, SilenceIsGood
<1> QED
  BY <1>5, <1>7

\* A refresh that read the table and leaves the gate.
LEMMA RefreshedKeeps ==
  ASSUME SettingsInv, NEW c \in Caller, Answered(c), UNCHANGED <<clock, db, faults>>, Leave,
         cache' = Installed(c),
         Serve(c, call[c].got, FALSE, call[c].from)
  PROVE  SettingsInv' /\ Good'
<1> DEFINE g == call[c].got
           a == call[c].from
           w == call[c].at
<1>1. call[c].pc # "idle" /\ call[c].pc \notin {"write", "invalidate"} /\ Refreshing(c)
  BY DEF Answered, Refreshing
<1>2. call[c] \in CallRecord /\ Settled(c) /\ g \in Nat /\ a \in Nat /\ w \in Nat
  BY <1>1, Phase
<1>3. Quits(c) /\ (answer' = NoAnswer \/ (answer' = Told(c, g, FALSE, a) /\ ~Refuses(c, FALSE)))
  BY <1>2, ServeQuits DEF SettingsInv
<1>4. Covers(g, a) /\ gate = c /\ a <= now /\ Shown(w, a) /\ back \in Nat /\ now \in Nat /\ db \in Nat
  BY <1>1 DEF SettingsInv, SettingsType, RefreshInv
<1>5. \A d \in Caller : Settled(d) => g >= call[d].wrote
  BY DEF SettingsInv, ShownInv
<1>6. /\ cache' \in CacheRecord /\ cache'.version = g /\ cache'.checked = w /\ cache'.verified = a
      /\ cache'.failed = FALSE /\ cache'.invalid = FALSE
  BY <1>2 DEF CacheRecord, Installed
<1> HIDE DEF g, a, w
<1>7. SettingsInv'
  <2>1. gate' = NoCaller /\ db' \in Nat /\ db' >= db
    BY <1>4 DEF Leave
  <2> QED
    BY <1>2, <1>3, <1>4, <1>5, <1>6, <2>1, QuitKeeps
<1>8. \A t \in 0..now : t + Interval + back <= a + 1 => g >= since[t]
  BY <1>2, <1>4, SizeAssumption DEF Covers
<1>9. Good'
  BY <1>2, <1>3, <1>5, <1>8, AnswerIsGood, SilenceIsGood
<1> QED
  BY <1>7, <1>9

LEMMA LookKeeps == ASSUME SettingsInv, NEW c \in Caller, Look(c) \/ Enter(c) PROVE SettingsInv' /\ Good'
<1>1. call[c].pc \in {"look", "gate"} /\ call[c] \in CallRecord /\ Settled(c)
  BY Phase DEF Look, Enter
<1>2. UNCHANGED <<clock, db, cache, faults>>
  BY DEF Look, Enter
<1>3. CASE Fresh
  BY <1>1, <1>3, FreshKeeps DEF Look, Enter
<1>4. CASE ~Fresh /\ Look(c)
  <2> DEFINE r == [call[c] EXCEPT !.pc = "gate"]
  <2>1. r \in CallRecord /\ r.pc = "gate" /\ r.wrote = call[c].wrote /\ r.stage = call[c].stage
    BY <1>1 DEF CallRecord
  <2>2. call' = [call EXCEPT ![c] = r] /\ Silent /\ UNCHANGED gate
    BY <1>4 DEF Look, Goto, SettingsInv, SettingsType
  <2> HIDE DEF r
  <2>3. SettingsInv'
    <3>1. Moves(c, r)
      BY <1>1, <1>2, <2>1, <2>2, Phase DEF Moves, SettingsInv, SettingsType
    <3> QED
      BY <2>1, <3>1, MoveKeeps
  <2> QED
    BY <2>2, <2>3, SilenceIsGood DEF Silent
<1>5. CASE ~Fresh /\ Enter(c)
  <2> DEFINE r == [call[c] EXCEPT !.pc = "check", !.at = wall, !.from = now]
  <2>1. r \in CallRecord /\ r.pc = "check" /\ r.wrote = call[c].wrote /\ r.stage = call[c].stage /\ r.at = wall /\ r.from = now
    BY <1>1 DEF CallRecord, SettingsInv, SettingsType
  <2>2. call' = [call EXCEPT ![c] = r] /\ Silent /\ gate = NoCaller /\ gate' = c
    BY <1>5 DEF Enter, SettingsInv, SettingsType
  <2> HIDE DEF r
  <2>3. SettingsInv'
    <3>0. Shown(r.at, r.from)
      BY <2>1 DEF Shown, SettingsInv, SettingsType
    <3>1. Moves(c, r)
      BY <1>1, <1>2, <2>1, <2>2, <3>0, Phase DEF Moves, SettingsInv, SettingsType
    <3> QED
      BY <2>1, <3>1, MoveKeeps
  <2> QED
    BY <2>2, <2>3, SilenceIsGood DEF Silent
<1> QED
  BY <1>3, <1>4, <1>5

\* The two reads of a refresh: the table has every update until now.
LEMMA ReadKeeps == ASSUME SettingsInv, NEW c \in Caller, Check(c) \/ List(c) PROVE SettingsInv' /\ Good'
<1>1. call[c].pc \in {"check", "list"} /\ call[c] \in CallRecord /\ Settled(c) /\ Refreshing(c) /\ call[c].from \in Nat
  BY Phase DEF Check, List, Refreshing
<1>2. UNCHANGED <<clock, db, cache, gate, faults>> /\ Silent
  BY DEF Check, List
<1>3. gate = c /\ call[c].from <= now /\ Shown(call[c].at, call[c].from) /\ now \in Nat /\ db \in Nat /\ gate \in Caller \cup {NoCaller}
  BY <1>1 DEF SettingsInv, SettingsType, RefreshInv
<1>4. Covers(db, call[c].from)
  BY <1>1, <1>3 DEF SettingsInv, SettingsType, RefreshInv, Covers
<1>5. \A d \in Caller : Settled(d) => db >= call[d].wrote
  <2> SUFFICES ASSUME NEW d \in Caller, Settled(d) PROVE db >= call[d].wrote
    OBVIOUS
  <2>1. call[d].wrote <= db /\ call[d] \in CallRecord
    BY DEF Settled, SettingsInv, SettingsType, WrittenInv
  <2> QED
    BY <1>3, <2>1 DEF CallRecord
<1>6. ASSUME NEW p \in {"compare", "install"}, call' = [call EXCEPT ![c].pc = p, ![c].got = db] PROVE SettingsInv'
  <2> DEFINE r == [call[c] EXCEPT !.pc = p, !.got = db]
  <2>1. r \in CallRecord /\ r.pc = p /\ r.got = db /\ r.wrote = call[c].wrote /\ r.stage = call[c].stage /\ r.at = call[c].at /\ r.from = call[c].from
    BY <1>1, <1>3 DEF CallRecord
  <2>2. call' = [call EXCEPT ![c] = r]
    BY <1>6 DEF SettingsInv, SettingsType
  <2> HIDE DEF r
  <2> QED
    <3>1. Moves(c, r)
      BY <1>1, <1>2, <1>3, <1>4, <1>5, <2>1, <2>2, Phase DEF Moves, SettingsInv, SettingsType
    <3> QED
      BY <2>1, <3>1, MoveKeeps
<1>7. SettingsInv'
  BY <1>6 DEF Check, List
<1> QED
  BY <1>2, <1>7, SilenceIsGood DEF Silent

LEMMA CompareKeeps == ASSUME SettingsInv, NEW c \in Caller, Compare(c) PROVE SettingsInv' /\ Good'
<1>1. call[c].pc = "compare" /\ call[c] \in CallRecord /\ Settled(c) /\ Refreshing(c) /\ Answered(c) /\ call[c].from \in Nat
  BY Phase DEF Compare, Refreshing, Answered
<1>2. UNCHANGED <<clock, db, faults>>
  BY DEF Compare
<1>3. CASE Unchanged(c)
  <2>1. cache \in CacheRecord /\ ~cache.invalid /\ call[c].got = cache.version
    BY <1>3 DEF Unchanged, SettingsInv, SettingsType
  <2>2. cache' = [cache EXCEPT !.checked = call[c].at, !.verified = call[c].from, !.failed = FALSE]
        /\ Leave /\ Serve(c, call[c].got, FALSE, call[c].from)
    BY <1>3 DEF Compare
  <2>3. cache' = Installed(c)
    BY <2>1, <2>2 DEF CacheRecord, Installed
  <2> QED
    BY <1>1, <1>2, <2>2, <2>3, RefreshedKeeps
<1>4. CASE ~Unchanged(c)
  <2> DEFINE r == [call[c] EXCEPT !.pc = "list"]
  <2>1. r \in CallRecord /\ r.pc = "list" /\ r.wrote = call[c].wrote /\ r.stage = call[c].stage /\ r.at = call[c].at /\ r.from = call[c].from
    BY <1>1 DEF CallRecord
  <2>2. call' = [call EXCEPT ![c] = r] /\ Silent /\ UNCHANGED <<cache, gate>>
    BY <1>4 DEF Compare, Goto, SettingsInv, SettingsType
  <2>3. gate = c /\ call[c].from <= now /\ Shown(call[c].at, call[c].from) /\ db \in Nat
    BY <1>1 DEF SettingsInv, SettingsType, RefreshInv
  <2> HIDE DEF r
  <2>4. SettingsInv'
    <3>1. Moves(c, r)
      BY <1>1, <1>2, <2>1, <2>2, <2>3, Phase DEF Moves, SettingsInv, SettingsType
    <3> QED
      BY <2>1, <3>1, MoveKeeps
  <2> QED
    BY <2>2, <2>4, SilenceIsGood DEF Silent
<1> QED
  BY <1>3, <1>4

LEMMA InstallKeeps == ASSUME SettingsInv, NEW c \in Caller, Install(c) PROVE SettingsInv' /\ Good'
<1>1. Answered(c)
  BY DEF Install, Answered
<1> QED
  BY <1>1, RefreshedKeeps DEF Install

\* A refresh that fails marks the snapshot: it is no longer promised anything of.
LEMMA ErrorKeeps == ASSUME SettingsInv, NEW c \in Caller, RefreshError(c) PROVE SettingsInv' /\ Good'
<1>1. call[c] \in CallRecord /\ Settled(c) /\ Refreshing(c) /\ call[c].from \in Nat
  BY Phase DEF RefreshError, Refreshing
<1>2. UNCHANGED <<clock, db>> /\ gate' = NoCaller
  BY DEF RefreshError, Leave
<1>3. gate = c /\ call[c].from <= now /\ call[c].at \in Nat /\ db \in Nat
  BY <1>1, Phase DEF SettingsInv, SettingsType, RefreshInv, RefreshError
<1>4. CASE cache = NoCache /\ Fail(c) /\ UNCHANGED cache
  <2>1. Quits(c) /\ answer' = NoAnswer
    BY <1>1, <1>4, FailQuits DEF SettingsInv
  <2>2. SettingsInv'
    BY <1>1, <1>2, <1>3, <1>4, <2>1, QuitKeeps
  <2> QED
    BY <2>1, <2>2, SilenceIsGood
<1>5. CASE /\ cache # NoCache
           /\ cache' = [cache EXCEPT !.checked = call[c].at, !.failed = TRUE, !.invalid = FALSE]
           /\ Serve(c, cache.version, TRUE, call[c].from) \/ (call[c].section = "decision" /\ Fail(c))
  <2>1. cache \in CacheRecord /\ cache.version \in Nat
    BY <1>5 DEF SettingsInv, SettingsType, CacheRecord
  <2>2. /\ cache' \in CacheRecord /\ cache'.failed /\ cache'.version = cache.version
        /\ cache'.verified = cache.verified /\ cache.verified <= now /\ Covers(cache.version, cache.verified)
    BY <1>1, <1>3, <1>5, <2>1 DEF CacheRecord, SettingsInv, SnapshotInv
  <2>3. Quits(c) /\ (answer' = NoAnswer \/ (answer' = Told(c, cache.version, TRUE, call[c].from) /\ ~Refuses(c, TRUE)))
    BY <1>1, <1>5, FailQuits, ServeQuits DEF SettingsInv
  <2>4. SettingsInv'
    BY <1>1, <1>2, <1>3, <2>2, <2>3, QuitKeeps
  <2>5. Good'
    BY <1>1, <1>2, <2>1, <2>3, AnswerIsGood, SilenceIsGood
  <2> QED
    BY <2>4, <2>5
<1> QED
  BY <1>4, <1>5 DEF RefreshError

\* A call that returns an error before it enters the gate, or without it.
LEMMA ReturnKeeps ==
  ASSUME SettingsInv, NEW c \in Caller, call[c].pc \in {"look", "gate", "table", "write", "invalidate"}, Return(c, NoAnswer),
         UNCHANGED <<clock, gate>>, db' \in Nat, db' >= db, cache' = cache \/ cache' = Invalidated
  PROVE  SettingsInv' /\ Good'
<1>1. call[c] \in CallRecord /\ ~Refreshing(c)
  BY Phase DEF Refreshing
<1>2. Quits(c) /\ answer' = NoAnswer
  BY ReturnQuits DEF SettingsInv
<1>3. cache' \in CacheRecord \cup {NoCache}
      /\ (cache' # NoCache => /\ cache # NoCache /\ cache'.version = cache.version /\ cache'.checked = cache.checked /\ cache'.verified = cache.verified
                              /\ cache'.failed = cache.failed /\ (cache.invalid => cache'.invalid))
  BY DEF Invalidated, SettingsInv, SettingsType, CacheRecord
<1>4. SettingsInv'
  BY <1>1, <1>2, <1>3, QuitKeeps DEF SettingsInv, SnapshotInv, ShownInv
<1> QED
  BY <1>2, <1>4, SilenceIsGood

LEMMA CancelKeeps == ASSUME SettingsInv, NEW c \in Caller, Cancel(c) \/ WriteError(c) PROVE SettingsInv' /\ Good'
<1>1. db \in Nat /\ db' \in Nat /\ db' >= db
  BY DEF Cancel, WriteError, SettingsInv, SettingsType
<1> QED
  BY <1>1, ReturnKeeps DEF Cancel, WriteError

LEMMA TableKeeps == ASSUME SettingsInv, NEW c \in Caller, Table(c) PROVE SettingsInv' /\ Good'
<1>1. call[c].pc = "table" /\ call[c] \in CallRecord /\ Settled(c) /\ ~Refreshing(c)
      /\ call[c].wrote <= db /\ call[c].wrote \in Nat
  BY Phase DEF Table, Refreshing
<1>2. UNCHANGED <<clock, db, cache, gate>> /\ db \in Nat /\ now \in Nat
  BY DEF Table, SettingsInv, SettingsType
<1>3. CASE Return(c, NoAnswer)
  BY <1>1, <1>2, <1>3, ReturnKeeps
<1>4. CASE Serve(c, db, FALSE, now)
  <2>1. Quits(c) /\ (answer' = NoAnswer \/ (answer' = Told(c, db, FALSE, now) /\ ~Refuses(c, FALSE)))
    BY <1>1, <1>4, ServeQuits DEF SettingsInv
  <2>2. SettingsInv'
    BY <1>1, <1>2, <2>1, QuitKeeps DEF SettingsInv, SettingsType, SnapshotInv, ShownInv
  <2>3. \A t \in 0..now : db >= since[t]
    BY <1>2 DEF SettingsInv, SettingsType, RefreshInv
  <2>4. Good'
    BY <1>1, <1>2, <2>1, <2>3, AnswerIsGood, SilenceIsGood
  <2> QED
    BY <2>2, <2>4
<1> QED
  BY <1>3, <1>4 DEF Table

LEMMA BeginKeeps ==
  ASSUME SettingsInv, NEW c \in Caller, NEW s \in Section, Get(c, s) \/ Update(c, s)
  PROVE  SettingsInv' /\ Good'
<1>1. UNCHANGED <<clock, db, cache, gate>> /\ Silent /\ db \in Nat
  BY DEF Get, Update, SettingsInv, SettingsType
<1>2. ASSUME NEW p \in {"read", "before"} PROVE New(s, p) \in CallRecord /\ New(s, p).wrote = 0 /\ New(s, p).stage = p /\ New(s, p).pc \in {"table", "look"}
  BY DEF New, CallRecord, Source
<1>3. \E p \in {"read", "before"} : call' = [call EXCEPT ![c] = New(s, p)]
  BY DEF Get, Update
<1>4. PICK p \in {"read", "before"} : call' = [call EXCEPT ![c] = New(s, p)]
  BY <1>3
<1> DEFINE r == New(s, p)
<1>5. r \in CallRecord /\ r.wrote = 0 /\ r.stage = p /\ r.pc \in {"table", "look"} /\ call' = [call EXCEPT ![c] = r]
  BY <1>2, <1>4
<1> HIDE DEF r
<1>6. SettingsInv'
  <2>1. Moves(c, r)
    BY <1>1, <1>5 DEF Moves, SettingsInv, SettingsType
  <2> QED
    BY <1>5, <2>1, MoveKeeps
<1> QED
  BY <1>1, <1>6, SilenceIsGood DEF Silent

LEMMA WriteKeeps == ASSUME SettingsInv, NEW c \in Caller, Write(c) PROVE SettingsInv' /\ Good'
<1>1. call[c].pc = "write" /\ call[c] \in CallRecord
  BY Phase DEF Write
<1>2. UNCHANGED <<clock, cache, gate>> /\ Silent /\ db \in Nat /\ db' \in Nat /\ db' >= db
  BY DEF Write, SettingsInv, SettingsType
<1> DEFINE b == db' # db
           r == [call[c] EXCEPT !.pc = "invalidate", !.stage = "after", !.wrote = db', !.changed = b]
<1>3. r \in CallRecord /\ r.pc = "invalidate" /\ r.stage = "after" /\ r.wrote = db'
  <2>1. b \in BOOLEAN
    OBVIOUS
  <2> HIDE DEF b
  <2> QED
    BY <1>1, <1>2, <2>1 DEF CallRecord
<1>4. call' = [call EXCEPT ![c] = r]
  BY DEF Write, SettingsInv, SettingsType
<1> HIDE DEF r
<1>5. SettingsInv'
  <2>1. Moves(c, r)
    BY <1>2, <1>3, <1>4 DEF Moves, SettingsInv, SettingsType
  <2> QED
    BY <1>3, <2>1, MoveKeeps
<1> QED
  BY <1>2, <1>5, SilenceIsGood DEF Silent

\* No refresh is under way when a snapshot is invalidated, so that all that
\* are made valid later are read after the update.
LEMMA InvalidateKeeps == ASSUME SettingsInv, NEW c \in Caller, Invalidate(c) PROVE SettingsInv' /\ Good'
<1>1. call[c].pc = "invalidate" /\ call[c] \in CallRecord /\ gate = NoCaller /\ cache' = Invalidated
      /\ call[c].wrote <= db /\ (call[c].stage # "after" => call[c].wrote = 0)
  BY Phase DEF Invalidate, MayInvalidate
<1>2. UNCHANGED <<clock, db, gate>> /\ db \in Nat
  BY DEF Invalidate, SettingsInv, SettingsType
<1>3. CASE Return(c, NoAnswer)
  BY <1>1, <1>2, <1>3, ReturnKeeps
<1>4. CASE call' = [call EXCEPT ![c].pc = Source(call[c].section), ![c].changed = FALSE] /\ Silent
  <2> DEFINE q == Source(call[c].section)
             r == [call[c] EXCEPT !.pc = q, !.changed = FALSE]
  <2>1. q \in {"table", "look"}
    BY DEF Source
  <2>2. call' = [call EXCEPT ![c] = r]
    BY <1>4 DEF SettingsInv, SettingsType
  <2> HIDE DEF q
  <2>3. r \in CallRecord /\ r.pc \in {"table", "look"} /\ r.wrote = call[c].wrote /\ r.stage = call[c].stage
    BY <1>1, <2>1 DEF CallRecord
  <2>4. cache' = NoCache \/ cache'.invalid
    BY <1>1 DEF Invalidated, SettingsInv, SettingsType, CacheRecord
  <2> HIDE DEF r
  <2>5. SettingsInv'
    <3>1. Moves(c, r)
      BY <1>1, <1>2, <2>2, <2>3, <2>4, Phase DEF Moves, SettingsInv, SettingsType
    <3> QED
      BY <2>3, <3>1, MoveKeeps
  <2> QED
    BY <1>4, <2>5, SilenceIsGood DEF Silent
<1> QED
  BY <1>3, <1>4 DEF Invalidate

LEMMA ElsewhereKeeps == ASSUME SettingsInv, Elsewhere PROVE SettingsInv' /\ Good'
<1>1. UNCHANGED <<clock, cache, gate, call>> /\ Silent /\ db \in Nat /\ db' = db + 1
  BY DEF Elsewhere, SettingsInv, SettingsType
<1>2. SettingsType' /\ SnapshotInv' /\ ShownInv'
  BY <1>1 DEF SettingsInv, SettingsType, SnapshotInv, ShownInv, Covers, Shown, Settled, Answered
<1>3. WrittenInv'
  BY <1>1 DEF SettingsInv, SettingsType, WrittenInv, CallRecord
<1>4. RefreshInv'
  BY <1>1 DEF SettingsInv, SettingsType, RefreshInv, Covers, Shown, Answered, Refreshing
<1> QED
  BY <1>1, <1>2, <1>3, <1>4, SilenceIsGood DEF SettingsInv, Silent

LEMMA CrashKeeps == ASSUME SettingsInv, Crash PROVE SettingsInv' /\ Good'
<1>1. UNCHANGED <<clock, db>> /\ Silent /\ cache' = NoCache /\ gate' = NoCaller /\ call' = [c \in Caller |-> Idle]
  BY DEF Crash
<1>2. Idle.pc = "idle" /\ \A c \in Caller : call'[c] = Idle
  BY <1>1 DEF Idle
<1>3. SettingsType'
  BY <1>1 DEF SettingsInv, SettingsType
<1>4. WrittenInv' /\ SnapshotInv' /\ ShownInv'
  BY <1>1, <1>2 DEF WrittenInv, SnapshotInv, ShownInv, Settled
<1>5. RefreshInv'
  BY <1>1, <1>2 DEF SettingsInv, RefreshInv, Refreshing, Answered
<1> QED
  BY <1>1, <1>3, <1>4, <1>5, SilenceIsGood DEF SettingsInv, Silent

\* Time passes: the table is as it is at the new time, and what was read
\* before covers the times until it was asked for.
LEMMA ClockKeeps == ASSUME SettingsInv, ClockTick PROVE SettingsInv' /\ Good'
<1>1. /\ UNCHANGED <<back, db, cache, gate, call>> /\ Silent /\ db \in Nat /\ back \in Nat
      /\ now \in Nat /\ now' = now + 1 /\ wall \in Nat /\ wall' = wall + 1
  BY DEF ClockTick, SettingsInv, SettingsType
<1>2. since \in [0..now -> Nat] /\ since' = [t \in 0..now' |-> IF t = now' THEN db ELSE since[t]]
  BY DEF ClockTick, SettingsInv, SettingsType
<1>3. \A t \in 0..now : since'[t] = since[t]
  BY <1>1, <1>2
<1>4. since' \in [0..now' -> Nat] /\ \A t \in 0..now' : since'[t] <= db
  BY <1>1, <1>2 DEF SettingsInv, RefreshInv
<1>5. ASSUME NEW v, NEW t \in Nat, t <= now, Covers(v, t) PROVE \A u \in 0..t : v >= since'[u]
  BY <1>1, <1>3, <1>5 DEF Covers
<1>6. SettingsType'
  BY <1>1, <1>4 DEF SettingsInv, SettingsType
<1>7. WrittenInv' /\ ShownInv'
  BY <1>1 DEF SettingsInv, WrittenInv, ShownInv, Settled, Answered
<1>10. \A w, t \in Nat : Shown(w, t) => w + now' <= t + wall' + back'
  BY <1>1 DEF Shown
<1>8. RefreshInv'
  <2>1. ASSUME NEW c \in Caller, Refreshing(c)
        PROVE  /\ gate = c /\ call[c].from <= now' /\ call[c].from \in Nat /\ call[c].from <= now
               /\ call[c].at + now' <= call[c].from + wall' + back'
    <3>1. call[c].at \in Nat /\ call[c].from \in Nat
      BY <2>1, Phase DEF Refreshing
    <3>2. gate = c /\ call[c].from <= now /\ Shown(call[c].at, call[c].from)
      BY <2>1 DEF SettingsInv, RefreshInv
    <3> QED
      BY <1>1, <1>10, <3>1, <3>2
  <2>2. ASSUME NEW c \in Caller, Answered(c) PROVE \A u \in 0..call[c].from : call[c].got >= since'[u]
    BY <1>5, <2>1, <2>2 DEF SettingsInv, RefreshInv, Answered, Refreshing
  <2> QED
    BY <1>1, <1>4, <2>1, <2>2 DEF RefreshInv, Covers, Shown, Refreshing, Answered
<1>9. SnapshotInv'
  <2> SUFFICES ASSUME cache # NoCache
               PROVE  /\ cache.verified <= now' /\ \A u \in 0..cache.verified : cache.version >= since'[u]
                      /\ ~cache.failed => cache.checked + now' <= cache.verified + wall' + back'
    BY <1>1 DEF SnapshotInv, Covers, Shown
  <2>1. cache.checked \in Nat /\ cache.verified \in Nat /\ cache.verified <= now
        /\ (~cache.failed => Shown(cache.checked, cache.verified)) /\ Covers(cache.version, cache.verified)
    BY DEF SettingsInv, SettingsType, CacheRecord, SnapshotInv
  <2> QED
    BY <1>1, <1>5, <1>10, <2>1
<1> QED
  BY <1>1, <1>6, <1>7, <1>8, <1>9, SilenceIsGood DEF SettingsInv, Silent

\* The clock is set: by as much as it goes back, snapshots last longer.
LEMMA SetKeeps == ASSUME SettingsInv, ClockSet PROVE SettingsInv' /\ Good'
<1>1. UNCHANGED <<now, since, db, cache, gate, call>> /\ Silent /\ now \in Nat /\ wall \in Nat /\ back \in Nat
  BY DEF ClockSet, SettingsInv, SettingsType
<1> DEFINE w0 == wall'
           b0 == back'
<1>2. w0 \in Nat /\ b0 = IF w0 < wall THEN back + (wall - w0) ELSE back
  BY SizeAssumption DEF ClockSet
<1> HIDE DEF w0, b0
<1>3. b0 \in Nat /\ w0 + b0 >= wall + back
  BY <1>1, <1>2
<1>4. \A w, t \in Nat : Shown(w, t) => w + now <= t + w0 + b0
  BY <1>1, <1>2, <1>3 DEF Shown
<1> USE DEF w0, b0
<1>5. SettingsType'
  BY <1>1, <1>2, <1>3 DEF SettingsInv, SettingsType
<1>6. WrittenInv' /\ ShownInv'
  BY <1>1 DEF SettingsInv, WrittenInv, ShownInv, Settled, Answered
<1>7. RefreshInv'
  <2>1. ASSUME NEW c \in Caller, Refreshing(c)
        PROVE  gate = c /\ call[c].from <= now /\ call[c].at + now <= call[c].from + wall' + back'
    <3>1. call[c].at \in Nat /\ call[c].from \in Nat
      BY <2>1, Phase DEF Refreshing
    <3> QED
      BY <1>4, <2>1, <3>1 DEF SettingsInv, RefreshInv
  <2> QED
    BY <1>1, <2>1 DEF SettingsInv, RefreshInv, Covers, Shown, Refreshing, Answered
<1>8. SnapshotInv'
  <2>1. cache # NoCache => cache.checked \in Nat /\ cache.verified \in Nat
    BY DEF SettingsInv, SettingsType, CacheRecord
  <2> QED
    BY <1>1, <1>4, <2>1 DEF SettingsInv, SnapshotInv, Covers, Shown
<1> QED
  BY <1>1, <1>5, <1>6, <1>7, <1>8, SilenceIsGood DEF SettingsInv, Silent

\* The snapshot is read at any age: it has what was in the table when it was verified.
LEMMA PeekKeeps == ASSUME SettingsInv, Peek PROVE SettingsInv' /\ Good'
<1>1. UNCHANGED <<clock, db, cache, gate, call>> /\ cache # NoCache
  BY DEF Peek
<1>2. SettingsInv'
  BY <1>1 DEF SettingsInv, SettingsType, WrittenInv, RefreshInv, SnapshotInv, ShownInv, Covers, Shown,
              Settled, Answered, Refreshing
<1>3. /\ answer'.kind = "cached" /\ answer'.version = cache.version /\ answer'.asked = cache.verified
      /\ answer'.wrote = 0 /\ answer'.stale = FALSE
  BY DEF Peek
<1>4. cache.version \in Nat /\ cache.verified \in Nat /\ Covers(cache.version, cache.verified)
      /\ since \in [0..now -> Nat] /\ now \in Nat
  BY <1>1 DEF SettingsInv, SettingsType, CacheRecord, SnapshotInv
<1>5. \A t \in DOMAIN since : t <= cache.verified => cache.version >= since[t]
  BY <1>4 DEF Covers
<1>6. BoundedStaleness'
  BY <1>1, <1>3, <1>5 DEF BoundedStaleness, Section
<1>7. UpdatesShowThemselves'
  BY <1>3, <1>4 DEF UpdatesShowThemselves
<1> QED
  BY <1>2, <1>6, <1>7 DEF Good

\* Every step keeps the invariant, and tells what may be told.
LEMMA SettingsStep == SettingsInv /\ Good /\ [SettingsNext]_settings => SettingsInv' /\ Good'
<1> SUFFICES ASSUME SettingsInv, Good, [SettingsNext]_settings PROVE SettingsInv' /\ Good'
  OBVIOUS
<1>1. CASE UNCHANGED settings
  BY <1>1 DEF settings, SettingsInv, SettingsType, WrittenInv, RefreshInv, SnapshotInv, ShownInv, Covers, Shown,
              Settled, Answered, Refreshing, Good, BoundedStaleness, UpdatesShowThemselves
<1>2. ASSUME NEW c \in Caller, \E s \in Section : Get(c, s) \/ Update(c, s) PROVE SettingsInv' /\ Good'
  BY <1>2, BeginKeeps
<1>3. ASSUME NEW c \in Caller, Look(c) \/ Enter(c) \/ Check(c) \/ Compare(c) \/ List(c) \/ Install(c)
      PROVE  SettingsInv' /\ Good'
  BY <1>3, LookKeeps, ReadKeeps, CompareKeeps, InstallKeeps
<1>4. ASSUME NEW c \in Caller, RefreshError(c) \/ Cancel(c) \/ Table(c) \/ Write(c) \/ WriteError(c) \/ Invalidate(c)
      PROVE  SettingsInv' /\ Good'
  BY <1>4, ErrorKeeps, CancelKeeps, TableKeeps, WriteKeeps, InvalidateKeeps
<1> QED
  BY <1>1, <1>2, <1>3, <1>4, PeekKeeps, ElsewhereKeeps, CrashKeeps, ClockKeeps, SetKeeps DEF SettingsNext

LEMMA SettingsStart == SettingsInit => SettingsInv /\ Good
<1> SUFFICES ASSUME SettingsInit PROVE SettingsInv /\ Good
  OBVIOUS
<1>1. Idle.pc = "idle" /\ \A c \in Caller : call[c] = Idle
  BY DEF SettingsInit, Idle
<1>2. SettingsType
  BY DEF SettingsInit, SettingsType
<1>3. WrittenInv /\ SnapshotInv /\ ShownInv
  BY <1>1 DEF SettingsInit, WrittenInv, SnapshotInv, ShownInv, Settled
<1>4. RefreshInv
  BY <1>1 DEF SettingsInit, RefreshInv, Refreshing, Answered
<1>5. Good
  BY DEF SettingsInit, Good, BoundedStaleness, UpdatesShowThemselves, NoAnswer, Section
<1> QED
  BY <1>2, <1>3, <1>4, <1>5 DEF SettingsInv

LEMMA SettingsHold == SettingsSpec => [](SettingsInv /\ Good)
<1>1. SettingsInit => SettingsInv /\ Good
  BY SettingsStart
<1>2. (SettingsInv /\ Good) /\ [SettingsNext]_settings => (SettingsInv /\ Good)'
  BY SettingsStep
<1> QED
  BY <1>1, <1>2, PTL DEF SettingsSpec

(* Settings that currentCache returns without a refresh error have every   *)
(* update that the table had an interval, and what the clock was set back, *)
(* before they were asked for: it counts the interval from before its      *)
(* reads.  The rate card read from the snapshot has every update that the  *)
(* table had when the snapshot was last verified.                          *)
THEOREM StalenessIsBounded == SettingsSpec => []BoundedStaleness
<1>1. SettingsInv /\ Good => BoundedStaleness
  BY DEF Good
<1> QED
  BY <1>1, SettingsHold, PTL

(* The settings an update returns have its change unless its re-read       *)
(* failed, and a decision update whose re-read failed returns an error.    *)
THEOREM UpdatesAreShown == SettingsSpec => []UpdatesShowThemselves
<1>1. SettingsInv /\ Good => UpdatesShowThemselves
  BY DEF Good
<1> QED
  BY <1>1, SettingsHold, PTL

=============================================================================
