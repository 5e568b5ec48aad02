----------------------------- MODULE ThreadPool -----------------------------
(***************************************************************************)
(* The thread pool of the CPU backend (ggml-cpu.c, built without OpenMP):  *)
(* thread 0, the caller of ggml_graph_compute, hands graphs to the worker  *)
(* threads 1..N-1 and computes with them; all of them meet at barriers     *)
(* that spin on two counters.                                              *)
(*                                                                         *)
(* Interleavings are sequentially consistent; a thread's local n_threads   *)
(* and n_passed are read in one step, as n_graph does not change while a   *)
(* thread is inside a graph (QuietPool).                                   *)
(***************************************************************************)
EXTENDS ComputeGraph, FiniteSets

CONSTANTS
    N,           \* threadpool->n_threads
    MaxThreads,  \* cplan->n_threads is in 1..MaxThreads
    MaxGraphs,   \* bound on the graphs handed out
    GraphWrap,   \* values of the graph number: 2^16 in the code
    PassedWrap,  \* values of n_barrier_passed: 2^32 in the code
    NoThread

ASSUME PoolAssumption ==
    /\ N \in Nat \ {0} /\ MaxThreads \in Nat \ {0}
    /\ MaxGraphs \in Nat /\ GraphWrap \in Nat /\ MaxGraphs < GraphWrap
    /\ PassedWrap \in Nat \ {0, 1}
    /\ NoThread \notin Int

Threads == 0..N - 1
Workers == 1..N - 1

VARIABLES
    cgraph,            \* the graph at work
    n_graph,           \* [count |-> graph number, n |-> its threads]
    n_barrier, n_barrier_passed,
    current_chunk,
    stop, pause, abort, ec,
    mutex,             \* the thread that holds it
    waiting,           \* the threads in ggml_cond_wait
    pc,
    last_graph,        \* [Workers -> what the worker saw in n_graph]
    run,               \* [Threads -> its cgraph and params.nth]
    node, unit,        \* [Threads -> node_n, current_chunk or ith]
    bar,               \* [Threads -> n_threads and n_passed of ggml_barrier]
    did,               \* the shares of the graph that are computed (history)
    kicked             \* graphs handed out, up to MaxGraphs

caller  == <<cgraph, current_chunk, abort, ec>>
control == <<n_graph, stop, pause, kicked>>
lock    == <<mutex, waiting>>
barrier == <<n_barrier, n_barrier_passed>>
locals  == <<run, node, unit, bar>>
vars == <<caller, control, lock, barrier, locals, last_graph, pc, did>>

At(t, p) == pc[t] = p
Goto(t, p) == pc' = [pc EXCEPT ![t] = p]

Init ==
    /\ cgraph = <<>> /\ n_graph = [count |-> 0, n |-> 0]
    /\ n_barrier = 0 /\ n_barrier_passed = 0 /\ current_chunk = 0
    /\ stop = FALSE /\ pause \in BOOLEAN /\ abort = -1 /\ ec = "success"
    /\ mutex = NoThread /\ waiting = {} /\ did = {} /\ kicked = 0
    /\ pc = [t \in Threads |-> IF t = 0 THEN "idle" ELSE "loop"]
    /\ last_graph = [t \in Workers |-> [count |-> 0, n |-> 0]]
    /\ run = [t \in Threads |-> [graph |-> <<>>, nth |-> 0]]
    /\ node = [t \in Threads |-> 0] /\ unit = [t \in Threads |-> 0]
    /\ bar = [t \in Threads |-> [n |-> 0, passed |-> 0, then |-> "end"]]

-----------------------------------------------------------------------------
(* Thread 0: ggml_graph_compute, ggml_threadpool_pause, resume and free.    *)

Compute(g, n_threads) ==
    /\ At(0, "idle") /\ kicked < MaxGraphs
    /\ cgraph' = g /\ current_chunk' = 0 /\ abort' = -1 /\ ec' = "success"
    /\ run' = [run EXCEPT ![0] =
                  [graph |-> g, nth |-> IF n_threads > N THEN N ELSE n_threads]]
    /\ did' = {}
    /\ Goto(0, "kick")
    /\ UNCHANGED <<control, lock, barrier, last_graph, node, unit, bar>>

\* Faulty variant: the graph is handed out without the mutex.
Kickoff_Unlocked ==
    /\ At(0, "kick")
    /\ mutex' = 0
    /\ n_graph' = [count |-> (n_graph.count + 1) % GraphWrap, n |-> run[0].nth]
    /\ kicked' = kicked + 1
    /\ Goto(0, "wake")
    /\ UNCHANGED <<caller, stop, pause, waiting, barrier, locals, last_graph, did>>

\* ggml_graph_compute_kickoff, up to the store of n_graph.
Kickoff ==
    /\ At(0, "kick") /\ mutex = NoThread
    /\ mutex' = 0
    /\ n_graph' = [count |-> (n_graph.count + 1) % GraphWrap, n |-> run[0].nth]
    /\ kicked' = kicked + 1
    /\ Goto(0, "wake")
    /\ UNCHANGED <<caller, stop, pause, waiting, barrier, locals, last_graph, did>>

\* resume_locked or the broadcast, and the unlock.
KickoffWake ==
    /\ At(0, "wake")
    /\ pause' = FALSE /\ waiting' = {} /\ mutex' = NoThread
    /\ Goto(0, "start")
    /\ UNCHANGED <<caller, n_graph, stop, kicked, barrier, locals, last_graph, did>>

\* ggml_threadpool_pause and ggml_threadpool_resume
SetPause(p) ==
    /\ At(0, "idle") /\ mutex = NoThread
    /\ pause # p
    /\ pause' = p /\ waiting' = {}
    /\ UNCHANGED <<caller, n_graph, stop, kicked, mutex, barrier, locals, last_graph, pc, did>>

\* Faulty variant: a paused pool is freed as it is.
Free_Paused ==
    /\ At(0, "idle") /\ mutex = NoThread
    /\ stop' = TRUE /\ waiting' = {}
    /\ Goto(0, "join")
    /\ UNCHANGED <<caller, n_graph, pause, kicked, mutex, barrier, locals, last_graph, did>>

Free ==
    /\ At(0, "idle") /\ mutex = NoThread
    /\ stop' = TRUE /\ pause' = FALSE /\ waiting' = {}
    /\ Goto(0, "join")
    /\ UNCHANGED <<caller, n_graph, kicked, mutex, barrier, locals, last_graph, did>>

Join ==
    /\ At(0, "join") /\ \A t \in Workers : At(t, "exited")
    /\ Goto(0, "freed")
    /\ UNCHANGED <<caller, control, lock, barrier, locals, last_graph, did>>

-----------------------------------------------------------------------------
(* A worker: ggml_graph_compute_secondary_thread.                           *)

Quiet == UNCHANGED <<caller, control, barrier, locals, did>>

\* while (threadpool->pause)
Loop(t) ==
    /\ At(t, "loop")
    /\ Goto(t, IF pause THEN "pause_lock" ELSE "running")
    /\ Quiet /\ UNCHANGED <<lock, last_graph>>

\* if (threadpool->stop) break
Running(t) ==
    /\ At(t, "running")
    /\ Goto(t, IF stop THEN "exited" ELSE "poll")
    /\ Quiet /\ UNCHANGED <<lock, last_graph>>

Locked(t, from, to) ==
    /\ At(t, from) /\ mutex = NoThread /\ t \notin waiting
    /\ mutex' = t /\ Goto(t, to)
    /\ Quiet /\ UNCHANGED <<waiting, last_graph>>
PauseLock(t) == Locked(t, "pause_lock", "paused")
CheckLock(t) == Locked(t, "check_lock", "check")

\* ggml_cond_wait gives the mutex back until the thread is woken.
CondWait(t, to) == mutex' = NoThread /\ waiting' = waiting \cup {t} /\ Goto(t, to)
Unlock(t, to)   == mutex' = NoThread /\ waiting' = waiting /\ Goto(t, to)

Paused(t) ==
    /\ \/ /\ At(t, "paused") /\ pause
          /\ Goto(t, "pause_sleep") /\ UNCHANGED lock
       \/ /\ At(t, "paused") /\ ~pause
          /\ Unlock(t, "loop")
       \/ /\ At(t, "pause_sleep")
          /\ CondWait(t, "pause_woken")
    /\ Quiet /\ UNCHANGED last_graph

\* awake again with the mutex, which is unlocked at once
PauseWoken(t) ==
    /\ At(t, "pause_woken") /\ mutex = NoThread /\ t \notin waiting
    /\ Goto(t, "loop")
    /\ Quiet /\ UNCHANGED <<lock, last_graph>>

\* A wait may end without a broadcast.
Spurious(t) ==
    /\ t \in waiting /\ waiting' = waiting \ {t}
    /\ Quiet /\ UNCHANGED <<mutex, last_graph, pc>>

\* ggml_graph_compute_thread_ready: a new graph is taken note of, and taken
\* part in by the first n_threads threads.
SeesGraph(t, otherwise) ==
    /\ n_graph # last_graph[t]
    /\ last_graph' = [last_graph EXCEPT ![t] = n_graph]
    /\ Goto(t, IF t < n_graph.n THEN "start" ELSE otherwise)

\* ggml_graph_compute_poll_for_work: stop and pause are read before n_graph;
\* a poll ends after any number of rounds.
Poll(t) ==
    /\ At(t, "poll")
    /\ Goto(t, IF stop \/ pause THEN "check_lock" ELSE "look")
    /\ Quiet /\ UNCHANGED <<lock, last_graph>>

Look(t) ==
    /\ At(t, "look")
    /\ \/ SeesGraph(t, "check_lock")
       \/ /\ n_graph = last_graph[t]
          /\ \E next \in {"poll", "check_lock"} : Goto(t, next)
          /\ UNCHANGED last_graph
    /\ Quiet /\ UNCHANGED lock

\* ggml_graph_compute_check_for_work, with the mutex
Check(t) ==
    /\ \/ /\ At(t, "check") /\ (stop \/ pause)
          /\ Unlock(t, "loop") /\ UNCHANGED last_graph
       \/ /\ At(t, "check") /\ ~stop /\ ~pause /\ SeesGraph(t, "loop")
          /\ mutex' = NoThread /\ UNCHANGED waiting
       \/ /\ At(t, "check") /\ ~stop /\ ~pause /\ n_graph = last_graph[t]
          /\ Goto(t, "sleep") /\ UNCHANGED <<lock, last_graph>>
       \/ /\ At(t, "sleep")
          /\ CondWait(t, "check_lock") /\ UNCHANGED last_graph
    /\ Quiet

-----------------------------------------------------------------------------
(* ggml_graph_compute_thread with ggml_compute_forward_mul_mat              *)

Computing == UNCHANGED <<control, lock, last_graph, cgraph, barrier>>

Start(t) ==
    /\ At(t, "start")
    /\ run' = [run EXCEPT ![t] = [graph |-> cgraph, nth |-> n_graph.n]]
    /\ node' = [node EXCEPT ![t] = 0]
    /\ Goto(t, "node")
    /\ Computing /\ UNCHANGED <<current_chunk, abort, ec, unit, bar, did>>

\* ggml_barrier is called, and returns to `then'.
CallBarrier(t, then) ==
    /\ bar' = [bar EXCEPT ![t].then = then]
    /\ Goto(t, "arrive")

Entry(k) == CASE k = "matmul" -> "convert" [] k = "empty" -> "node" [] OTHER -> "part"

\* The head of the loop over the nodes.
Node(t) ==
    /\ At(t, "node")
    /\ \/ /\ node[t] >= Len(run[t].graph) \/ abort = node[t]
          /\ CallBarrier(t, "end") /\ UNCHANGED node
       \/ /\ node[t] < Len(run[t].graph) /\ abort # node[t]
          /\ LET k == Kind(run[t].graph, node[t]) IN
             /\ Goto(t, Entry(k))
             /\ node' = [node EXCEPT ![t] = IF k = "empty" THEN @ + 1 ELSE @]
          /\ UNCHANGED bar
    /\ Computing /\ UNCHANGED <<current_chunk, abort, ec, run, unit, did>>

\* A node in equal parts; a fused one takes the node after it with it.
Part(t) ==
    /\ At(t, "part")
    /\ did' = did \cup {<<node[t], "part", t>>}
    /\ node' = [node EXCEPT ![t] =
                   IF Kind(run[t].graph, @) = "fused" THEN @ + 1 ELSE @]
    /\ Goto(t, "callback")
    /\ Computing /\ UNCHANGED <<current_chunk, abort, ec, run, unit, bar>>

\* "Every thread starts at ith, so the first unprocessed chunk is nth."
Convert(t) ==
    /\ At(t, "convert")
    /\ did' = did \cup {<<node[t], "convert", t>>}
    /\ current_chunk' = IF t = 0 THEN run[t].nth ELSE current_chunk
    /\ unit' = [unit EXCEPT ![t] = t]
    /\ CallBarrier(t, "chunk")
    /\ Computing /\ UNCHANGED <<abort, ec, run, node>>

Chunk(t) ==
    /\ At(t, "chunk")
    /\ did' = did \cup {<<node[t], "chunk", unit[t]>>}
    /\ Goto(t, IF run[t].nth >= nchunk(run[t].nth) THEN "callback" ELSE "fetch")
    /\ Computing /\ UNCHANGED <<current_chunk, abort, ec, locals>>

Fetch(t) ==
    /\ At(t, "fetch")
    /\ unit' = [unit EXCEPT ![t] = current_chunk]
    /\ current_chunk' = current_chunk + 1
    /\ Goto(t, IF current_chunk < nchunk(run[t].nth) THEN "chunk" ELSE "callback")
    /\ Computing /\ UNCHANGED <<abort, ec, run, node, bar, did>>

\* Faulty variant: the abort names the node at work instead of the next.
Callback_ThisNode(t) ==
    /\ At(t, "callback")
    /\ \/ UNCHANGED <<abort, ec>>
       \/ t = 0 /\ abort' = node[t] /\ ec' = "aborted"
    /\ IF node[t] + 1 < Len(run[t].graph)
       THEN CallBarrier(t, "next") /\ UNCHANGED node
       ELSE Goto(t, "node") /\ node' = [node EXCEPT ![t] = @ + 1] /\ UNCHANGED bar
    /\ Computing /\ UNCHANGED <<current_chunk, run, unit, did>>

\* Thread 0 asks whether to go on, and all but the last node end in a barrier.
Callback(t) ==
    /\ At(t, "callback")
    /\ \/ UNCHANGED <<abort, ec>>
       \/ t = 0 /\ abort' = node[t] + 1 /\ ec' = "aborted"
    /\ IF node[t] + 1 < Len(run[t].graph)
       THEN CallBarrier(t, "next") /\ UNCHANGED node
       ELSE Goto(t, "node") /\ node' = [node EXCEPT ![t] = @ + 1] /\ UNCHANGED bar
    /\ Computing /\ UNCHANGED <<current_chunk, run, unit, did>>

-----------------------------------------------------------------------------
(* ggml_barrier                                                             *)

Meeting == UNCHANGED <<caller, control, lock, last_graph, run, unit, did>>

NoBarrier == [n |-> 0, passed |-> 0, then |-> "end"]

\* What follows the call of the barrier.
Return(t) ==
    /\ bar' = [bar EXCEPT ![t] = NoBarrier]
    /\ LET then == bar[t].then IN
       /\ node' = IF then = "next" THEN [node EXCEPT ![t] = @ + 1] ELSE node
       /\ Goto(t, CASE then = "next" -> "node"
                    [] then = "chunk" -> "chunk"
                    [] then = "end" -> IF t = 0 THEN "idle" ELSE "loop")

Arrive(t) ==
    /\ At(t, "arrive")
    /\ IF n_graph.n = 1
       THEN Return(t)
       ELSE /\ bar' = [bar EXCEPT ![t].n = n_graph.n, ![t].passed = n_barrier_passed]
            /\ Goto(t, "enter") /\ UNCHANGED node
    /\ Meeting /\ UNCHANGED barrier

\* Faulty variant: the last but one thread opens the barrier.
Enter_OffByOne(t) ==
    /\ At(t, "enter")
    /\ n_barrier' = n_barrier + 1
    /\ Goto(t, IF n_barrier >= bar[t].n - 2 THEN "last" ELSE "spin")
    /\ Meeting /\ UNCHANGED <<n_barrier_passed, node, bar>>

Enter(t) ==
    /\ At(t, "enter")
    /\ n_barrier' = n_barrier + 1
    /\ Goto(t, IF n_barrier = bar[t].n - 1 THEN "last" ELSE "spin")
    /\ Meeting /\ UNCHANGED <<n_barrier_passed, node, bar>>

LastResets(t) ==
    /\ At(t, "last")
    /\ n_barrier' = 0
    /\ Goto(t, "open")
    /\ Meeting /\ UNCHANGED <<n_barrier_passed, node, bar>>

LastOpens(t) ==
    /\ At(t, "open")
    /\ n_barrier_passed' = (n_barrier_passed + 1) % PassedWrap
    /\ Return(t)
    /\ Meeting /\ UNCHANGED n_barrier

Spin(t) ==
    /\ At(t, "spin") /\ n_barrier_passed # bar[t].passed
    /\ Return(t)
    /\ Meeting /\ UNCHANGED barrier

-----------------------------------------------------------------------------
Caller ==
    \/ \E g \in Graphs, n_threads \in 1..MaxThreads : Compute(g, n_threads)
    \/ Kickoff \/ KickoffWake
    \/ \E p \in BOOLEAN : SetPause(p)
    \/ Free \/ Join

Worker(t) ==
    \/ Loop(t) \/ Running(t) \/ Poll(t) \/ Look(t)
    \/ PauseLock(t) \/ Paused(t) \/ PauseWoken(t)
    \/ CheckLock(t) \/ Check(t)

InGraph(t) ==
    \/ Start(t) \/ Node(t) \/ Part(t) \/ Convert(t) \/ Chunk(t) \/ Fetch(t) \/ Callback(t)
    \/ Arrive(t) \/ Enter(t) \/ LastResets(t) \/ LastOpens(t) \/ Spin(t)

Next ==
    \/ Caller
    \/ \E t \in Workers : Worker(t) \/ Spurious(t)
    \/ \E t \in Threads : InGraph(t)

Spec == Init /\ [][Next]_vars

\* Every thread is scheduled, and a mutex that is free again and again is
\* obtained; nothing is assumed of the callers, of a poll that ends early or of
\* the end of a wait without a broadcast.
Fairness ==
    /\ SF_vars(Kickoff) /\ WF_vars(KickoffWake) /\ WF_vars(Join)
    /\ \A t \in Workers :
           /\ WF_vars(Worker(t))
           /\ SF_vars(PauseLock(t)) /\ SF_vars(PauseWoken(t)) /\ SF_vars(CheckLock(t))
    /\ \A t \in Threads : WF_vars(InGraph(t))
LiveSpec == Spec /\ Fairness

-----------------------------------------------------------------------------
TypeOK ==
    /\ cgraph \in Graphs \cup {<<>>}
    /\ n_graph \in [count : 0..GraphWrap - 1, n : 0..N]
    /\ n_barrier \in 0..N /\ n_barrier_passed \in 0..PassedWrap - 1
    /\ current_chunk \in Nat /\ abort \in Int /\ ec \in {"success", "aborted"}
    /\ stop \in BOOLEAN /\ pause \in BOOLEAN /\ kicked \in 0..MaxGraphs
    /\ mutex \in Threads \cup {NoThread} /\ waiting \subseteq Workers
    /\ DOMAIN pc = Threads
    /\ last_graph \in [Workers -> [count : 0..GraphWrap - 1, n : 0..N]]
    /\ node \in [Threads -> Nat] /\ unit \in [Threads -> Nat]

Inside == {"start", "node", "part", "convert", "chunk", "fetch", "callback",
           "arrive", "enter", "last", "open"}

\* Still in the graph: a thread that waits for the last barrier to open reads
\* and writes nothing of the graph any more.
Uses(t) == pc[t] \in Inside \/ (At(t, "spin") /\ bar[t].then # "end")

\* "No worker threads should be accessing the parameters below at this stage":
\* when the caller sets a graph up, no worker is still in the one before.
QuietPool == pc[0] \in {"idle", "kick", "join", "freed"} => \A t \in Workers : ~Uses(t)

\* No wake-up is lost: a worker that waits for a broadcast has nothing to do
\* and has seen all there is to see, or the broadcast is about to come.
NoMissedWake ==
    \A t \in waiting :
        \/ At(0, "wake")
        \/ At(t, "pause_woken") /\ pause
        \/ At(t, "check_lock") /\ ~stop /\ ~pause /\ last_graph[t] = n_graph

\* The pool computes a graph as GraphRun promises: each share after all that it
\* reads; whole, or aborted and whole up to a node.  (No share is computed
\* twice: ThreadPool_proofs!ComputedOnce.)
Run == INSTANCE GraphRun WITH
    running <- pc[0] \notin {"idle", "join", "freed"},
    job     <- run[0],
    limit   <- IF abort = -1 THEN Len(cgraph) ELSE abort
Implements == Run!Spec

\* A call of the caller ends: a graph that is handed out is computed, for no
\* worker sleeps through it and no barrier waits for a thread that will not
\* come; and ggml_threadpool_free does not wait for ever for a thread to end.
CallsReturn == pc[0] \in {"kick", "join"} ~> pc[0] \in {"idle", "freed"}
=============================================================================
