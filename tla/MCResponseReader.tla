-------------------------- MODULE MCResponseReader --------------------------
(* An instance of ResponseReader: a request with two tasks beside one with *)
(* a single task, which sends a partial result before its final one.  The  *)
(* .cfg gives them one slot.                                               *)
EXTENDS ResponseReader, TLC

CONSTANTS r1, r2, i1, i2, i3

TwoAndOne == (i1 :> r1) @@ (i2 :> r1) @@ (i3 :> r2)
OnePartial == [i \in Ids |-> IF i = i3 THEN 1 ELSE 0]
=============================================================================
