------------------------ MODULE MCForegroundSession ------------------------
(***************************************************************************)
(* An instance of ForegroundSession: the four policies, an instruction     *)
(* with a media marker in it, and a PI batch that is full after one image, *)
(* so that the limit is reached.                                           *)
(***************************************************************************)
EXTENDS ForegroundSession, TLC

CONSTANTS i1, i2, s1, s2, e1, e2, pick, forged

Every == {"text", "pi0", "pi05", "gr00t"}

\* Images, states and embodiments only ever flow from a request to an answer.
Alike == Permutations(Images) \cup Permutations(States) \cup Permutations(Embodiments)
=============================================================================
