----------------------------- MODULE MCKvCache -----------------------------
(***************************************************************************)
(* Two sequences: of up to three positions in a shared stream that is too  *)
(* small for both and in a stream each, of up to four in a shared stream   *)
(* with a window of three, which has the cells for two windows and a token.*)
(***************************************************************************)
EXTENDS KvCache

MCSeqs == {0, 1}
MCPos == 0..MaxPos

One      == [unified |-> TRUE,  cells |-> 3, window |-> 0, ubatch |-> 2, batch |-> 2, saves |-> 0, length |-> 3]
Several  == [unified |-> FALSE, cells |-> 2, window |-> 0, ubatch |-> 2, batch |-> 1, saves |-> 1, length |-> 3]
Windowed == [unified |-> TRUE,  cells |-> 5, window |-> 3, ubatch |-> 1, batch |-> 2, saves |-> 0, length |-> 4]

MCLayouts == {One, Several, Windowed}
============================================================================
