---------------------------- MODULE StreamSlots ----------------------------
(***************************************************************************)
(* What a ConcurrencyLimiter promises for one team: at most Max streams    *)
(* hold a slot at a time.  A limiter that may forget its holders promises  *)
(* less: each time it forgets them, Max more, until none is left.          *)
(***************************************************************************)
EXTENDS Naturals, FiniteSets

CONSTANTS Stream, Max

VARIABLES holders,
          limit,      \* how many may hold a slot now
          forgetful   \* whether the limiter, as configured, may forget holders

slots == <<holders, limit, forgetful>>

Init ==
  /\ holders = {}
  /\ limit = Max
  /\ forgetful \in BOOLEAN

Take(s) ==
  /\ s \notin holders
  /\ \/ limit' = limit
     \/ forgetful /\ holders # {} /\ limit' = limit + Max
  /\ Cardinality(holders) < limit'
  /\ holders' = holders \cup {s}
  /\ UNCHANGED forgetful

(* The last one to give its slot back leaves the whole limit. *)
Give(s) ==
  /\ s \in holders
  /\ holders' = holders \ {s}
  /\ limit' = IF holders' = {} THEN Max ELSE limit
  /\ UNCHANGED forgetful

(* All slots go with their process; its configuration is read again. *)
Restart ==
  /\ holders' = {}
  /\ limit' = Max
  /\ forgetful' \in BOOLEAN

Next == (\E s \in Stream : Take(s) \/ Give(s)) \/ Restart

Spec == Init /\ [][Next]_slots

=============================================================================
