---------------------------- MODULE RememberOnce ----------------------------
(***************************************************************************)
(* What an idempotency key promises, with every lock, replica, retry and   *)
(* failure left out: a key is decided at most once, by one call, and a     *)
(* call that is told its Remember is stored is told the deciding call of   *)
(* its own key, which carried the same request.                            *)
(***************************************************************************)
CONSTANTS Key, Call, NoCall

VARIABLES req,      \* the request of each call: its key and its hash
          decided,  \* the call whose Remember the key stores
          told      \* the stored Remember each call was answered with

onceVars == <<req, decided, told>>

Init ==
  /\ decided \in [Key -> Call \cup {NoCall}]
  /\ told = [c \in Call |-> NoCall]

(* A call stores its Remember under an undecided key. *)
Decide(c) ==
  /\ decided[req[c].key] = NoCall
  /\ decided' = [decided EXCEPT ![req[c].key] = c]
  /\ UNCHANGED <<req, told>>

(* A call returns the stored Remember of its key. *)
Tell(c) ==
  /\ decided[req[c].key] # NoCall
  /\ req[decided[req[c].key]].hash = req[c].hash
  /\ told' = [told EXCEPT ![c] = decided[req[c].key]]
  /\ UNCHANGED <<req, decided>>

Next == \E c \in Call : Decide(c) \/ Tell(c)

Spec == Init /\ [][Next]_onceVars

=============================================================================
