---------------------------- MODULE MCSessionIngest ----------------------------
(* Three requests of one session: one of two windows, one that overlaps it *)
(* under another key, and one that reuses that key and changes an event.   *)
EXTENDS SessionIngest, TLC

CONSTANTS r1, r2, r3, ka, kb, e1, e2, w1, w2

MCKeyOf == r1 :> ka @@ r2 :> kb @@ r3 :> kb
MCText == r1 :> (e1 :> "s" @@ e2 :> "s") @@ r2 :> (e2 :> "s") @@ r3 :> (e1 :> "t")
MCCore == r1 :> (w1 :> {e1} @@ w2 :> {e2}) @@ r2 :> (w1 :> {e2} @@ w2 :> {})
          @@ r3 :> (w1 :> {e1} @@ w2 :> {})
=============================================================================
