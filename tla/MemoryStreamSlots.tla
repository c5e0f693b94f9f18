------------------------- MODULE MemoryStreamSlots -------------------------
(***************************************************************************)
(* SSE streams of one team in one process: StreamLifecycle.Start on the    *)
(* in-memory ConcurrencyLimiter, whose counter entry expires TTL after the *)
(* last successful Acquire.  A stream ends when its work returns, when its *)
(* client disconnects, or when its maximum duration is over.  The TTL is   *)
(* fixed at an hour; the maximum duration is configured, and may be more.  *)
(***************************************************************************)
EXTENDS Integers, FiniteSets

CONSTANTS Stream,     \* requests for a stream, each one repeated at will
          Max,        \* maxStreams
          TTL,        \* lifetime of the counter entry, in ticks
          Durations,  \* values of SSE_MAX_DURATION_SECONDS, in ticks
          MaxExcess   \* bound on excess

ASSUME StreamAssumption   == IsFiniteSet(Stream)
ASSUME MaxAssumption      == Max \in Nat \ {0} /\ MaxExcess \in Nat
ASSUME DurationAssumption == TTL \in Nat /\ Durations \subseteq Nat \ {0}

VARIABLES
  duration,  \* the configured maximum duration
  open,      \* streams between Acquire and release
  age,       \* how long each open stream has been running
  count,     \* teamCounterEntry.count; an entry at 0 is deleted
  left,      \* time to expiresAt; -1 once it has passed
  excess     \* history: Max for every entry that expired under streams still
             \* open, until none is open

vars == <<duration, open, age, count, left, excess>>

Init ==
  /\ duration \in Durations
  /\ open = {}
  /\ age = [s \in Stream |-> 0]
  /\ count = 0
  /\ left = -1
  /\ excess = 0

\* The count an Acquire starts from: an expired entry is treated as absent.
LiveCount == IF left >= 0 THEN count ELSE 0

\* An entry that is deleted by an Acquire although streams count on it.
Lapsed == left < 0 /\ count > 0

(* Variant: the limit is compared before the increment. *)
AcquireOverLimit(s) ==
  /\ s \notin open
  /\ LiveCount <= Max
  /\ Lapsed => excess < MaxExcess
  /\ count' = LiveCount + 1
  /\ left' = TTL
  /\ open' = open \cup {s}
  /\ age' = [age EXCEPT ![s] = 0]
  /\ excess' = IF Lapsed THEN excess + Max ELSE excess
  /\ UNCHANGED duration

(* Acquire below the limit: count, refresh the expiry, start the stream. *)
Acquire(s) ==
  /\ s \notin open
  /\ LiveCount < Max
  /\ Lapsed => excess < MaxExcess
  /\ count' = LiveCount + 1
  /\ left' = TTL
  /\ open' = open \cup {s}
  /\ age' = [age EXCEPT ![s] = 0]
  /\ excess' = IF Lapsed THEN excess + Max ELSE excess
  /\ UNCHANGED duration

(* Acquire at the limit: the increment is rolled back.  Max is positive, so *)
(* an expired or missing entry is never refused.                            *)
Refuse(s) ==
  /\ s \notin open
  /\ LiveCount >= Max
  /\ UNCHANGED vars

(* The release function, run once however the stream ends; it finds the    *)
(* entry of its own Acquire, a newer one, or none.                         *)
Release(s) ==
  /\ s \in open
  /\ open' = open \ {s}
  /\ count' = IF count > 0 THEN count - 1 ELSE 0
  /\ age' = [age EXCEPT ![s] = 0]
  /\ excess' = IF open' = {} THEN 0 ELSE excess
  /\ UNCHANGED <<duration, left>>

(* Time passes; the timer of a stream at its maximum duration fires first. *)
Tick ==
  /\ \A s \in open : age[s] < duration
  /\ age' = [s \in Stream |-> IF s \in open THEN age[s] + 1 ELSE age[s]]
  /\ left' = IF left >= 0 THEN left - 1 ELSE left
  /\ UNCHANGED <<duration, open, count, excess>>

(* The process restarts: streams and counters go together. *)
Restart ==
  /\ duration' \in Durations
  /\ open' = {}
  /\ count' = 0
  /\ age' = [s \in Stream |-> 0]
  /\ excess' = 0
  /\ UNCHANGED left

Next ==
  \/ \E s \in Stream : Acquire(s) \/ Refuse(s) \/ Release(s)
  \/ Tick
  \/ Restart

Spec == Init /\ [][Next]_vars

-----------------------------------------------------------------------------
\* Every variable has its type.
TypeOK ==
  /\ duration \in Durations
  /\ open \subseteq Stream
  /\ age \in [Stream -> 0..duration]
  /\ count \in 0..Max
  /\ left \in -1..TTL
  /\ excess \in Nat

\* The counter is never above the number of open streams, so that no slot is
\* ever lost, and below it by no more than what expired entries have let out:
\* it is exact while the maximum duration is not above the TTL.
CountUpToExcess ==
  /\ count <= Cardinality(open)
  /\ Cardinality(open) <= count + excess
  /\ duration <= TTL => excess = 0

Slots == INSTANCE StreamSlots WITH
  holders   <- open,
  limit     <- Max + excess,
  forgetful <- duration > TTL

\* The in-memory limiter implements the promise of a ConcurrencyLimiter: the
\* whole one if the configured duration is not above the TTL, and otherwise
\* that an entry which expires under open streams lets in Max more, until all
\* streams have ended.
ImplementsSlots == Slots!Spec

=============================================================================
