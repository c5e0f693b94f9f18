-------------------------- MODULE RedisStreamSlots --------------------------
(***************************************************************************)
(* SSE streams of one team on several replicas that share a Redis counter: *)
(* redisConcurrencyLimiter under StreamLifecycle.Start.  INCR, EXPIRE and  *)
(* DECR are separate round trips, EXPIRE is sent only by the caller whose  *)
(* INCR returned 1, errors of DECR are ignored, and DECR on a missing key  *)
(* creates it at -1 without an expiry.  The client keeps the retries of    *)
(* its library: a call whose answer is lost is sent again, and executed    *)
(* again.                                                                  *)
(***************************************************************************)
EXTENDS Integers, FiniteSets

CONSTANTS Stream,    \* requests for a stream, each one repeated at will
          Max,       \* maxStreams
          TTL,       \* counterTTL, in ticks
          Duration,  \* SSE_MAX_DURATION_SECONDS, in ticks
          CallTime,  \* bound on the time a Redis call is under way, in ticks
          MaxCount,  \* bound on the counter, so that leaked slots stay finite
          MaxExcess, \* bound on excess, so that repeated DECRs stay finite
          Faults     \* which environment faults the instance explores

ASSUME MaxAssumption      == Max \in Nat \ {0} /\ {MaxCount, MaxExcess} \subseteq Nat
ASSUME DurationAssumption == {TTL, Duration, CallTime} \subseteq Nat
ASSUME StreamAssumption   == IsFiniteSet(Stream)
ASSUME FaultAssumption    == Faults \subseteq {"crash", "crash_acquiring", "error"}

VARIABLES
  pc,       \* idle, expire, undo, open, release or again: DECR sent again after it was executed
  age,      \* how long each stream has been in its phase
  count,    \* value of the counter key, 0 without a key
  exists,   \* whether the key exists
  left,     \* its remaining time to live
  excess,   \* history: slots the counter has forgotten: of the streams it was
            \* counting when the key last expired, and of DECRs executed again since
  unset     \* history: a counter was left without the expiry it was due

vars == <<pc, age, count, exists, left, excess, unset>>

NoTTL == TTL + 1
\* Streams whose INCR was executed and whose DECR was not yet.
Counted == {s \in Stream : pc[s] \notin {"idle", "again"}}
Open == {s \in Stream : pc[s] = "open"}

Init ==
  /\ pc = [s \in Stream |-> "idle"]
  /\ age = [s \in Stream |-> 0]
  /\ count = 0
  /\ exists = FALSE
  /\ left = NoTTL
  /\ excess = 0
  /\ unset = FALSE

Goto(s, l) ==
  /\ pc' = [pc EXCEPT ![s] = l]
  /\ age' = [age EXCEPT ![s] = 0]

(* INCR and DECR on the server: a missing key counts as 0, without expiry. *)
Add(n) ==
  /\ count' = count + n
  /\ exists' = TRUE
  /\ UNCHANGED left

\* Variant: the limit is exclusive of the caller.
AdmissionOffByOne(n) == IF n = 1 THEN "expire" ELSE IF n > Max + 1 THEN "undo" ELSE "open"
\* Variant: every admitted caller renews the expiry.
AdmissionRenews(n) == IF n > Max THEN "undo" ELSE "expire"
\* What Acquire does with the count that INCR returned.
Admission(n) == IF n = 1 THEN "expire" ELSE IF n > Max THEN "undo" ELSE "open"

Incr(s) ==
  /\ pc[s] = "idle"
  /\ count < MaxCount
  /\ Add(1)
  /\ Goto(s, Admission(count + 1))
  /\ UNCHANGED <<excess, unset>>

(* INCR was executed but its answer is lost: Acquire returns an error, or  *)
(* the client sends it again, which is one more Incr.                      *)
IncrLost(s) ==
  /\ "error" \in Faults
  /\ pc[s] = "idle"
  /\ count < MaxCount
  /\ Add(1)
  /\ unset' = (unset \/ (Admission(count + 1) = "expire" /\ left = NoTTL))
  /\ UNCHANGED <<pc, age, excess>>

\* EXPIRE on a missing key does nothing.
Expire == IF exists THEN TTL ELSE left

SetTTL(s) ==
  /\ pc[s] = "expire"
  /\ left' = Expire
  /\ Goto(s, "open")
  /\ UNCHANGED <<count, exists, excess, unset>>

(* EXPIRE failed, executed or not: decrement and return the error. *)
SetTTLError(s) ==
  /\ "error" \in Faults
  /\ pc[s] = "expire"
  /\ left' \in {left, Expire}
  /\ unset' = (unset \/ left' = NoTTL)
  /\ Goto(s, "undo")
  /\ UNCHANGED <<count, exists, excess>>

(* The work returned, the client disconnected, or the timer fired. *)
End(s) ==
  /\ pc[s] = "open"
  /\ Goto(s, "release")
  /\ UNCHANGED <<count, exists, left, excess, unset>>

(* DECR on the server, the first time or again. *)
Decrement(s) ==
  /\ Add(-1)
  /\ \/ pc[s] \in {"undo", "release"} /\ UNCHANGED excess
     \/ pc[s] = "again" /\ excess < MaxExcess /\ excess' = excess + 1

(* decrement: of a refused Acquire, or by the release function. *)
Decr(s) ==
  /\ Decrement(s)
  /\ Goto(s, "idle")
  /\ UNCHANGED unset

(* DECR failed and was not executed, or not again; its error is dropped. *)
DecrError(s) ==
  /\ "error" \in Faults
  /\ pc[s] \in {"undo", "release", "again"}
  /\ Goto(s, "idle")
  /\ UNCHANGED <<count, exists, left, excess, unset>>

(* DECR or EXPIRE was executed, its answer is lost, and the client, which  *)
(* was built without MaxRetries, sends it again.                           *)
ResendDecr(s) ==
  /\ "error" \in Faults
  /\ Decrement(s)
  /\ pc' = [pc EXCEPT ![s] = "again"]
  /\ UNCHANGED <<age, unset>>

ResendExpire(s) ==
  /\ "error" \in Faults
  /\ pc[s] = "expire"
  /\ left' = Expire
  /\ UNCHANGED <<pc, age, count, exists, excess, unset>>

\* Deadline of a phase: of the Redis call under way, of the open stream.
Deadline(l) == IF l = "open" THEN Duration ELSE CallTime
Aged == [s \in Stream |-> IF pc[s] = "idle" THEN 0 ELSE age[s] + 1]

(* Time passes.  A phase at its deadline ends first, a key at the end of   *)
(* its life expires first.                                                 *)
Tick ==
  /\ \A s \in Stream : pc[s] # "idle" => age[s] < Deadline(pc[s])
  /\ left # 0
  /\ age' = Aged
  /\ left' = IF left = NoTTL THEN left ELSE left - 1
  /\ UNCHANGED <<pc, count, exists, excess, unset>>

KeyExpires ==
  /\ left = 0
  /\ count' = 0
  /\ exists' = FALSE
  /\ left' = NoTTL
  /\ excess' = Cardinality(Counted)
  /\ UNCHANGED <<pc, age, unset>>

(* The replica of a stream dies; nobody decrements for it. *)
Crash(s) ==
  /\ \/ "crash" \in Faults /\ pc[s] \in {"open", "undo", "release", "again"}
     \/ "crash_acquiring" \in Faults /\ pc[s] = "expire"
  /\ unset' = (unset \/ (pc[s] = "expire" /\ left = NoTTL))
  /\ Goto(s, "idle")
  /\ UNCHANGED <<count, exists, left, excess>>

Answer(s) == SetTTL(s) \/ SetTTLError(s) \/ Decr(s) \/ DecrError(s)

Next ==
  \/ \E s \in Stream :
       \/ Incr(s) \/ IncrLost(s) \/ Answer(s) \/ ResendDecr(s) \/ ResendExpire(s)
       \/ End(s) \/ Crash(s)
  \/ Tick
  \/ KeyExpires

Spec == Init /\ [][Next]_vars

(* Every call is answered or times out, a stream's timer fires, time goes  *)
(* on and Redis drops expired keys.                                        *)
Fairness ==
  /\ \A s \in Stream : WF_vars(Answer(s)) /\ WF_vars(End(s) /\ age[s] = Duration)
  /\ WF_vars(Tick)
  /\ WF_vars(KeyExpires)

FairSpec == Spec /\ Fairness

-----------------------------------------------------------------------------
\* Every variable has its type.
TypeOK ==
  /\ pc \in [Stream -> {"idle", "expire", "undo", "open", "release", "again"}]
  /\ age \in [Stream -> Nat]
  /\ \A s \in Stream : age[s] <= Deadline(pc[s])
  /\ count \in Int
  /\ exists \in BOOLEAN
  /\ left \in 0..NoTTL
  /\ excess \in Nat
  /\ unset \in BOOLEAN

\* "MaxConcurrentStreams is the maximum number of concurrent streams per team."
LimitHolds == Cardinality(Open) <= Max

\* What a team can have open beyond the maximum is what its counter has
\* forgotten: the streams it was counting when the key last expired, and the
\* DECRs executed again since.  Lost answers, ignored errors and dead replicas
\* make the count too high, never too low, and a key that expires under no
\* stream makes it exact again.
LimitUpToExcess ==
  /\ count + excess >= Cardinality(Counted)
  /\ Cardinality(Open) <= Max + excess

\* A slot leaked by a dead replica, a lost answer or a failed DECR comes back:
\* the count is not above the number of streams forever, unless a counter was
\* left without its expiry.
LeaksEnd == []<>(unset \/ count <= Cardinality(Counted))

=============================================================================
