---------------------------- MODULE ComputeGraph ----------------------------
(***************************************************************************)
(* A computation graph of ggml as the threads that compute it see it: a    *)
(* sequence of nodes, numbered from 0, and the shares of work in a node.   *)
(*                                                                         *)
(*   "empty"   nothing to compute (ggml_op_is_empty, no COMPUTE flag)      *)
(*   "op"      every thread computes its own part                          *)
(*   "fused"   as "op", together with the node after it                    *)
(*   "matmul"  every thread converts its part of one factor; the product   *)
(*             is cut in chunks that the threads take as they get to them  *)
(***************************************************************************)
EXTENDS Integers, Sequences

CONSTANTS
    Graphs,     \* the graphs that may be computed
    NChunks,    \* nchunk0 * nchunk1 before the chunking is corrected
    PerThread   \* chunks each thread should have at least (4 in the code)

Kinds == {"empty", "op", "fused", "matmul"}

ASSUME GraphsAssumption ==
    /\ Graphs \subseteq Seq(Kinds)
    /\ \A g \in Graphs : \A i \in 1..Len(g) :
           g[i] = "fused" => i < Len(g) /\ g[i + 1] = "op"
ASSUME ChunksAssumption == NChunks \in Nat /\ PerThread \in Nat \ {0}

Kind(g, n) == g[n + 1]

nchunk(nth) == IF NChunks < nth * PerThread THEN nth ELSE NChunks

\* A fused node leaves nothing of the node after it.
FusedAway(g, n) == n > 0 /\ Kind(g, n - 1) = "fused"

\* The shares of a node <<node, part, unit>>.
Shares(g, n, nth) ==
    IF Kind(g, n) = "empty" \/ FusedAway(g, n) THEN {}
    ELSE IF Kind(g, n) = "matmul"
         THEN {<<n, "convert", u>> : u \in 0..nth - 1} \cup
              {<<n, "chunk", u>> : u \in 0..nchunk(nth) - 1}
         ELSE {<<n, "part", u>> : u \in 0..nth - 1}

Work(g, nth, limit) == UNION {Shares(g, n, nth) : n \in 0..limit - 1}

\* What v computes is what w may read.
Before(v, w) == \/ v[1] < w[1]
                \/ v[1] = w[1] /\ v[2] = "convert" /\ w[2] = "chunk"
=============================================================================
