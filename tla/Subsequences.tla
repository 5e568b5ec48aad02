---------------------------- MODULE Subsequences ----------------------------
(***************************************************************************)
(* What the queues do when they erase entries (std::remove_if).  The same  *)
(* as SelectSeq, without recursion: the entries to keep are given by their *)
(* positions, so that facts about the result can be proved.                *)
(***************************************************************************)
EXTENDS Naturals, FiniteSets

\* The subsequence of s at the positions in keep.
Kept(s, keep) ==
    [k \in 1..Cardinality(keep) |->
        s[CHOOSE j \in keep : Cardinality({l \in keep : l <= j}) = k]]

\* s without the entry e.
Erased(s, e) == Kept(s, {k \in DOMAIN s : s[k] # e})
=============================================================================
