---------------------------- MODULE MCThreadPool ----------------------------
(* Graphs in which a node of every kind meets a barrier, a skipped node and *)
(* the end of the graph.                                                    *)
EXTENDS ThreadPool

Mixed == {<<"fused", "op", "matmul", "matmul">>, <<"empty", "op">>}
=============================================================================
