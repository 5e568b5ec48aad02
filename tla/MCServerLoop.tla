---------------------------- MODULE MCServerLoop ----------------------------
(* An instance of ServerLoop: three requests for one slot, and a signal    *)
(* that may come before the loop starts, on another thread, or on the main *)
(* thread.                                                                 *)
EXTENDS ServerLoop

AnySignal == {"early", "other", "main"}
=============================================================================
