------------------------------ MODULE GraphRun ------------------------------
(***************************************************************************)
(* What ggml_graph_compute promises its caller: each share of each node is *)
(* computed once, after everything it may read; a computation that is not  *)
(* aborted is whole, an aborted one is whole up to a node.                 *)
(***************************************************************************)
EXTENDS ComputeGraph

CONSTANT MaxThreads

VARIABLES running, job, did, limit, ec
vars == <<running, job, did, limit, ec>>

Init == /\ ~running /\ did = {} /\ limit = 0 /\ ec = "success"
        /\ job = [graph |-> <<>>, nth |-> 0]

Begin(g, nth) ==
    /\ ~running
    /\ running' = TRUE
    /\ job' = [graph |-> g, nth |-> nth]
    /\ did' = {} /\ limit' = Len(g) /\ ec' = "success"

Compute(w) ==
    /\ running
    /\ w \notin did
    /\ \A v \in Work(job.graph, job.nth, limit) : Before(v, w) => v \in did
    /\ did' = did \cup {w}
    /\ UNCHANGED <<running, job, limit, ec>>

\* "the abort callback returns true": the nodes after the one at work are
\* left out, if there are any.
Abort(n) ==
    /\ running
    /\ n <= limit /\ \A w \in did : w[1] < n
    /\ \E w \in did : \A m \in w[1] + 1..n - 1 : FusedAway(job.graph, m)
    /\ limit' = n /\ ec' = "aborted"
    /\ UNCHANGED <<running, job, did>>

Return ==
    /\ running
    /\ did = Work(job.graph, job.nth, limit)
    /\ limit < Len(job.graph) => ec = "aborted"
    /\ running' = FALSE
    /\ UNCHANGED <<job, did, limit, ec>>

Next ==
    \/ \E g \in Graphs, nth \in 1..MaxThreads : Begin(g, nth)
    \/ \E w \in Work(job.graph, job.nth, limit) : Compute(w)
    \/ \E n \in 1..Len(job.graph) : Abort(n)
    \/ Return

Spec == Init /\ [][Next]_vars
=============================================================================
