------------------------- MODULE ThreadPool_proofs -------------------------
(***************************************************************************)
(* The pool for any number of threads, any graphs, any number of chunks.   *)
(*                                                                         *)
(* NoMissedWake follows from who holds the mutex.  QuietPool follows from  *)
(* the barrier: every thread of the graph at work has the same next        *)
(* barrier (Aligned), and the barrier opens when all of them have come     *)
(* (Counted).  GraphRun is implemented because the next barrier names the  *)
(* stage at work (Stage): what is computed is all of the stages before it, *)
(* and of that one what its threads have done (Computed).                  *)
(***************************************************************************)
EXTENDS ThreadPool, TLAPS, FiniteSetTheorems, WellFoundedInduction

BarPcs   == {"arrive", "enter", "last", "open", "spin"}
GraphPcs == Inside \cup {"spin"}
LoopPcs  == {"loop", "pause_lock", "paused", "pause_sleep", "pause_woken", "running",
             "poll", "look", "check_lock", "check", "sleep", "exited"}
CallPcs  == {"idle", "kick", "wake", "join", "freed"}

Numbers == [count : 0..MaxGraphs, n : 0..N]

SharedTypes ==
    /\ cgraph \in Graphs \cup {<<>>}
    /\ n_graph \in Numbers /\ kicked \in 0..MaxGraphs /\ n_graph.count = kicked
    /\ At(0, "kick") => kicked < MaxGraphs
    /\ n_barrier \in Int /\ n_barrier_passed \in 0..PassedWrap - 1
    /\ current_chunk \in Nat /\ abort \in Int /\ ec \in {"success", "aborted"}
    /\ stop \in BOOLEAN /\ pause \in BOOLEAN
    /\ mutex \in Threads \cup {NoThread} /\ waiting \subseteq Workers
PcTypes ==
    /\ DOMAIN pc = Threads
    /\ pc[0] \in GraphPcs \cup CallPcs
    /\ \A t \in Workers : pc[t] \in GraphPcs \cup LoopPcs
SeenTypes ==
    /\ last_graph \in [Workers -> Numbers]
    /\ \A t \in Workers : last_graph[t].count <= kicked
Runs == [graph : Graphs \cup {<<>>}, nth : 0..N]
Bars == [n : 0..N, passed : 0..PassedWrap - 1, then : {"end", "next", "chunk"}]
LocalTypes ==
    /\ node \in [Threads -> Nat] /\ unit \in [Threads -> Nat]
    /\ run \in [Threads -> Runs]
    /\ bar \in [Threads -> Bars]
Types == SharedTypes /\ PcTypes /\ SeenTypes /\ LocalTypes

-----------------------------------------------------------------------------
(* The mutex.                                                               *)

Holding == {"paused", "pause_sleep", "check", "sleep"}

LockInv ==
    /\ At(0, "wake") <=> mutex = 0
    /\ \A t \in Workers : pc[t] \in Holding <=> mutex = t
    /\ \A t \in waiting : pc[t] \in {"pause_woken", "check_lock"}
    /\ \A t \in Workers : At(t, "pause_sleep") => pause
    /\ \A t \in Workers : At(t, "sleep") => ~stop /\ ~pause /\ last_graph[t] = n_graph

-----------------------------------------------------------------------------
(* The nodes of a graph g, from node n on.                                  *)

Full(g, n) == {m \in n..Len(g) - 1 : Kind(g, m) # "empty"}
Least(S) == CHOOSE m \in S : \A k \in S : m <= k
First(g, n) == IF Full(g, n) = {} THEN Len(g) ELSE Least(Full(g, n))

\* The last node that a thread computes together with n.
Own(g, n) == IF Kind(g, n) = "fused" THEN n + 1 ELSE n

\* The barrier that a thread comes to next when it has computed n, and when it
\* is about to look at n: <<where the thread goes on, node>>.
End == <<"end", 0>>
After(g, n) == IF n + 1 < Len(g) THEN <<"next", n>> ELSE End
From(g, stop_at, n) ==
    IF First(g, n) >= stop_at THEN End
    ELSE IF Kind(g, First(g, n)) = "matmul" THEN <<"chunk", First(g, n)>>
    ELSE After(g, Own(g, First(g, n)))

-----------------------------------------------------------------------------
(* The barrier.                                                             *)

\* The graph that was handed out last is at work.
Released(t) == At(t, "spin") /\ bar[t].passed # n_barrier_passed
AtWork == \/ pc[0] \in Inside \cup {"wake"}
          \/ At(0, "spin") /\ ~(Released(0) /\ bar[0].then = "end")

Current(t) == t = 0 \/ last_graph[t] = n_graph
Team == 0..n_graph.n - 1
Member(t) == t \in Team /\ Current(t) /\ pc[t] \in GraphPcs \ {"start"}

\* Where the loop over the nodes stops.
StopAt == IF abort = -1 THEN Len(cgraph) ELSE abort

\* The barrier that thread t comes to next in the graph at work.
Dest(t) ==
    CASE ~Current(t) \/ pc[t] \in {"wake", "start"} -> From(cgraph, StopAt, 0)
      [] Current(t) /\ At(t, "node") -> From(cgraph, StopAt, node[t])
      [] Current(t) /\ At(t, "part") -> After(cgraph, Own(cgraph, node[t]))
      [] Current(t) /\ At(t, "convert") -> <<"chunk", node[t]>>
      [] Current(t) /\ pc[t] \in {"chunk", "fetch", "callback"} -> After(cgraph, node[t])
      [] Current(t) /\ pc[t] \in BarPcs /\ ~Released(t) ->
             IF bar[t].then = "end" THEN End ELSE <<bar[t].then, node[t]>>
      [] Current(t) /\ pc[t] \in BarPcs /\ Released(t) /\ bar[t].then = "chunk" ->
             After(cgraph, node[t])
      [] OTHER -> From(cgraph, StopAt, node[t] + 1)

\* Which threads are in the graph.
PlaceOf(t) ==
    /\ pc[t] \in Inside => t \in Team /\ Current(t) /\ AtWork
    /\ At(t, "spin") /\ ~Current(t) => bar[t].then = "end"
    /\ At(t, "spin") /\ Current(t) =>
           t \in Team /\ (AtWork \/ (bar[t].then = "end" /\ Released(t)))
    /\ At(t, "spin") /\ Current(t) /\ AtWork => ~(Released(t) /\ bar[t].then = "end")
    /\ t \in Team /\ AtWork => ~Current(t) \/ pc[t] \in GraphPcs
    /\ t \in Team /\ ~AtWork => Current(t)
LeadPlace ==
    /\ AtWork => 0 \in Team
    /\ ~AtWork => n_barrier = 0
    /\ pc[0] \in {"kick", "wake"} \cup GraphPcs =>
           run[0].nth \in 1..N /\ run[0].graph = cgraph /\ cgraph \in Graphs
    /\ pc[0] \in {"wake"} \cup GraphPcs => n_graph.n = run[0].nth
    /\ At(0, "kick") => abort = -1
Places == LeadPlace /\ \A t \in Workers : PlaceOf(t)

\* The loop over the nodes stays within the graph, and within what an abort
\* has left of it.
NodeBound(t) ==
    /\ run[t].graph = cgraph /\ run[t].nth = n_graph.n
    /\ At(t, "node") => node[t] <= StopAt
    /\ pc[t] \in {"part", "convert", "chunk", "fetch", "callback"} => node[t] < StopAt
    /\ pc[t] \in {"convert", "chunk", "fetch", "callback"} => Kind(cgraph, node[t]) # "fused"
    /\ pc[t] \in BarPcs /\ bar[t].then # "end" =>
           node[t] < StopAt /\ Kind(cgraph, node[t]) # "fused"
    /\ pc[t] \in BarPcs /\ bar[t].then = "next" => node[t] + 1 < Len(cgraph)
Cut == abort # -1 => abort \in 1..Len(cgraph) /\ Kind(cgraph, abort - 1) # "fused"
LeadBound ==
    /\ pc[0] \in {"wake", "start", "part", "convert", "chunk", "fetch", "callback"} => abort = -1
    /\ At(0, "node") => abort \in {-1, node[0]}
    /\ pc[0] \in BarPcs /\ bar[0].then = "chunk" => abort = -1
    /\ pc[0] \in BarPcs /\ bar[0].then = "next" => abort \in {-1, node[0] + 1}
Bounds == AtWork => Cut /\ LeadBound /\ \A t \in Team : Member(t) => NodeBound(t)

Aligned == AtWork => \A t \in Team : Dest(t) = Dest(0)

Waits(t) == Current(t) /\ (pc[t] \in {"last", "open"} \/ (At(t, "spin") /\ ~Released(t)))
Waiters == {t \in Team : Waits(t)}

Counted ==
    AtWork =>
    /\ \A t \in Team : Waits(t) \/ At(t, "enter") => bar[t].n = n_graph.n
    /\ \A t \in Team : pc[t] \in {"enter", "last", "open"} => bar[t].passed = n_barrier_passed
    /\ (\A t \in Team : ~At(t, "open")) => n_barrier = Cardinality(Waiters)
    /\ \A t \in Team : At(t, "open") => n_barrier = 0
    /\ \A t \in Team : pc[t] \in {"last", "open"} => Waiters = Team
    /\ \A t, u \in Team : pc[t] \in {"last", "open"} /\ pc[u] \in {"last", "open"} => t = u

PoolInv == Places /\ Bounds /\ Aligned /\ Counted

-----------------------------------------------------------------------------
(* Types.                                                                   *)

LEMMA Zero == 0 \in Threads /\ 0 \notin Workers /\ Threads = Workers \cup {0} /\ N \in Nat
BY PoolAssumption DEF Threads, Workers

LEMMA Small == \A k \in Nat : k < GraphWrap => k % GraphWrap = k
BY PoolAssumption, SMT

LEMMA Mods == \A k \in Int : k % PassedWrap \in 0..PassedWrap - 1
BY PoolAssumption, SMT

LEMMA PcSteps ==
  ASSUME PcTypes, NEW t \in Threads, NEW p
  PROVE  /\ t \in Workers /\ p \in GraphPcs \cup LoopPcs /\ Goto(t, p) => PcTypes'
         /\ t = 0 /\ p \in GraphPcs \cup CallPcs /\ Goto(t, p) => PcTypes'
         /\ UNCHANGED pc => PcTypes'
BY Zero DEF PcTypes, Goto

LEMMA TypesInit == Init => Types
<1> SUFFICES ASSUME Init PROVE Types
  OBVIOUS
<1> USE Zero, PoolAssumption DEF Init
<1>1. SharedTypes
  <2>1. n_graph \in Numbers /\ kicked \in 0..MaxGraphs /\ n_graph.count = kicked
    BY DEF Numbers
  <2>2. ~At(0, "kick")
    BY DEF At
  <2>3. stop \in BOOLEAN /\ pause \in BOOLEAN /\ cgraph \in Graphs \cup {<<>>}
    OBVIOUS
  <2>4. n_barrier \in Int /\ n_barrier_passed \in 0..PassedWrap - 1 /\ current_chunk \in Nat
    OBVIOUS
  <2>5. abort \in Int /\ ec \in {"success", "aborted"}
    OBVIOUS
  <2>6. mutex \in Threads \cup {NoThread} /\ waiting \subseteq Workers
    OBVIOUS
  <2> QED BY <2>1, <2>2, <2>3, <2>4, <2>5, <2>6 DEF SharedTypes
<1>2. PcTypes
  BY DEF PcTypes, GraphPcs, LoopPcs, CallPcs, Inside
<1>3. SeenTypes
  BY DEF SeenTypes, Numbers
<1>4. LocalTypes
  BY DEF LocalTypes, Runs, Bars
<1> QED BY <1>1, <1>2, <1>3, <1>4 DEF Types

LEMMA CallerTypes ==
  ASSUME Types, Caller
  PROVE  Types'
<1> USE Zero DEF Types, caller, control, lock, barrier, locals
<1>1. ASSUME NEW g \in Graphs, NEW n_threads \in 1..MaxThreads, Compute(g, n_threads)
      PROVE  Types'
  <2> USE <1>1 DEF Compute
  <2>1. SharedTypes'
    BY DEF SharedTypes, Goto, At, PcTypes
  <2>2. PcTypes'
    BY PcSteps DEF CallPcs
  <2>3. SeenTypes'
    BY DEF SeenTypes
  <2>4. LocalTypes'
    BY PoolAssumption DEF LocalTypes, Runs
  <2> QED BY <2>1, <2>2, <2>3, <2>4
<1>2. CASE Kickoff
  <2> USE <1>2 DEF Kickoff
  <2>1. n_graph' = [count |-> kicked + 1, n |-> run[0].nth] /\ run[0].nth \in 0..N
    BY Small, PoolAssumption DEF SharedTypes, LocalTypes, Runs, At, Numbers
  <2>2. SharedTypes'
    BY <2>1 DEF SharedTypes, Goto, At, PcTypes, Numbers
  <2>3. PcTypes'
    BY PcSteps DEF CallPcs
  <2>4. SeenTypes'
    BY DEF SeenTypes, SharedTypes, Numbers
  <2>5. LocalTypes'
    BY DEF LocalTypes
  <2> QED BY <2>2, <2>3, <2>4, <2>5
<1>3. CASE KickoffWake
  <2> USE <1>3 DEF KickoffWake
  <2>1. SharedTypes'
    BY DEF SharedTypes, Goto, At, PcTypes
  <2>2. PcTypes'
    BY PcSteps DEF GraphPcs, Inside
  <2> QED BY <2>1, <2>2 DEF SeenTypes, LocalTypes
<1>4. ASSUME NEW p \in BOOLEAN, SetPause(p)
      PROVE  Types'
  BY <1>4, PcSteps DEF SetPause, SharedTypes, SeenTypes, LocalTypes, At
<1>5. CASE Free
  <2> USE <1>5 DEF Free
  <2>1. SharedTypes'
    BY DEF SharedTypes, Goto, At, PcTypes
  <2>2. PcTypes'
    BY PcSteps DEF CallPcs
  <2> QED BY <2>1, <2>2 DEF SeenTypes, LocalTypes
<1>6. CASE Join
  <2> USE <1>6 DEF Join
  <2>1. SharedTypes'
    BY DEF SharedTypes, Goto, At, PcTypes
  <2>2. PcTypes'
    BY PcSteps DEF CallPcs
  <2> QED BY <2>1, <2>2 DEF SeenTypes, LocalTypes
<1> QED BY <1>1, <1>2, <1>3, <1>4, <1>5, <1>6 DEF Caller

\* What a worker does outside a graph.
LEMMA QuietTypes ==
  ASSUME Types, Quiet, NEW t \in Workers, NEW p \in GraphPcs \cup LoopPcs,
         Goto(t, p) \/ UNCHANGED pc,
         mutex' \in {mutex, t, NoThread}, waiting' \subseteq waiting \cup {t},
         last_graph' \in {last_graph, [last_graph EXCEPT ![t] = n_graph]}
  PROVE  Types'
<1> USE Zero DEF Types, Quiet, caller, control, barrier, locals
<1>1. PcTypes'
  BY PcSteps
<1>2. SharedTypes'
  BY DEF SharedTypes, At, PcTypes, Goto
<1>3. SeenTypes'
  <2>1. n_graph \in Numbers /\ n_graph.count = kicked /\ kicked \in Nat
    BY DEF SharedTypes
  <2>2. last_graph' \in [Workers -> Numbers] /\ kicked' = kicked
    BY <2>1 DEF SeenTypes
  <2>3. ASSUME NEW u \in Workers PROVE last_graph'[u].count <= kicked
    BY <2>1 DEF SeenTypes
  <2> QED BY <2>2, <2>3 DEF SeenTypes
<1> QED BY <1>1, <1>2, <1>3 DEF LocalTypes

LEMMA WorkerTypes ==
  ASSUME Types, NEW t \in Workers, Worker(t) \/ Spurious(t)
  PROVE  Types'
<1>0. {"start", "loop", "pause_lock", "paused", "pause_sleep", "pause_woken", "running",
       "poll", "look", "check_lock", "check", "sleep", "exited"} \subseteq GraphPcs \cup LoopPcs
  BY DEF GraphPcs, LoopPcs, Inside
<1> USE <1>0 DEF lock
<1>1. CASE Loop(t) \/ Running(t) \/ Poll(t)
  BY <1>1, QuietTypes DEF Loop, Running, Poll
<1>2. CASE Look(t)
  BY <1>2, QuietTypes DEF Look, SeesGraph
<1>3. CASE PauseLock(t) \/ CheckLock(t)
  BY <1>3, QuietTypes DEF PauseLock, CheckLock, Locked
<1>4. CASE Paused(t)
  BY <1>4, QuietTypes DEF Paused, Unlock, CondWait
<1>5. CASE PauseWoken(t) \/ Spurious(t)
  BY <1>5, QuietTypes DEF PauseWoken, Spurious
<1>6. CASE Check(t)
  BY <1>6, QuietTypes DEF Check, Unlock, CondWait, SeesGraph
<1> QED BY <1>1, <1>2, <1>3, <1>4, <1>5, <1>6 DEF Worker

\* What a thread does in a graph.
LEMMA GoSteps ==
  ASSUME Types, NEW t \in Threads,
         NEW p \in {"start", "node", "part", "convert", "chunk", "fetch", "callback", "arrive",
                    "enter", "last", "open", "spin", "idle", "loop"},
         t = 0 => p # "loop", t # 0 => p # "idle",
         Goto(t, p)
  PROVE  PcTypes' /\ (At(0, "kick")' => At(0, "kick"))
<1>1. PcTypes'
  BY PcSteps, Zero DEF Types, CallPcs, LoopPcs, GraphPcs, Inside
<1>2. At(0, "kick")' => At(0, "kick")
  BY Zero DEF Types, PcTypes, At, Goto
<1> QED BY <1>1, <1>2

LEMMA InGraphTypes ==
  ASSUME Types, PcTypes', At(0, "kick")' => At(0, "kick"),
         UNCHANGED <<control, lock, last_graph, cgraph>>,
         n_barrier' \in Int, n_barrier_passed' \in 0..PassedWrap - 1,
         current_chunk' \in Nat, abort' \in Int, ec' \in {"success", "aborted"},
         node' \in [Threads -> Nat], unit' \in [Threads -> Nat],
         run' \in [Threads -> Runs], bar' \in [Threads -> Bars]
  PROVE  Types'
<1> USE DEF Types, control, lock
<1>1. SharedTypes'
  BY DEF SharedTypes
<1>2. SeenTypes'
  BY DEF SeenTypes
<1> QED BY <1>1, <1>2 DEF LocalTypes

LEMMA BarSteps ==
  ASSUME Types, NEW t \in Threads
  PROVE  /\ \A then \in {"end", "next", "chunk"} : [bar EXCEPT ![t].then = then] \in [Threads -> Bars]
         /\ [bar EXCEPT ![t].n = n_graph.n, ![t].passed = n_barrier_passed] \in [Threads -> Bars]
         /\ [bar EXCEPT ![t] = NoBarrier] \in [Threads -> Bars]
         /\ bar[t].then \in {"end", "next", "chunk"}
         /\ [node EXCEPT ![t] = @ + 1] \in [Threads -> Nat]
<1>1. /\ n_graph.n \in 0..N /\ n_barrier_passed \in 0..PassedWrap - 1
      /\ 0 \in 0..N /\ 0 \in 0..PassedWrap - 1
  BY Zero, PoolAssumption DEF Types, SharedTypes, Numbers
<1>2. bar \in [Threads -> Bars] /\ bar[t] \in Bars /\ node \in [Threads -> Nat]
  BY DEF Types, LocalTypes
<1>3. \A then \in {"end", "next", "chunk"} : [bar EXCEPT ![t].then = then] \in [Threads -> Bars]
  BY <1>2 DEF Bars
<1>4. [bar EXCEPT ![t].n = n_graph.n, ![t].passed = n_barrier_passed] \in [Threads -> Bars]
  BY <1>1, <1>2 DEF Bars
<1>5. [bar EXCEPT ![t] = NoBarrier] \in [Threads -> Bars]
  BY <1>1, <1>2 DEF Bars, NoBarrier
<1> QED BY <1>2, <1>3, <1>4, <1>5 DEF Bars

LEMMA ReturnTypes ==
  ASSUME Types, NEW t \in Threads, Return(t), Meeting,
         n_barrier' \in Int, n_barrier_passed' \in 0..PassedWrap - 1
  PROVE  Types'
<1>1. PICK p \in {"node", "chunk", "idle", "loop"} :
          Goto(t, p) /\ (t = 0 => p # "loop") /\ (t # 0 => p # "idle")
  BY BarSteps DEF Return
<1>2. node' \in [Threads -> Nat] /\ bar' \in [Threads -> Bars]
  BY BarSteps DEF Return, Types, LocalTypes
<1>3. PcTypes' /\ (At(0, "kick")' => At(0, "kick"))
  BY <1>1, GoSteps
<1> QED BY <1>2, <1>3, InGraphTypes DEF Meeting, caller, Types, SharedTypes, LocalTypes

LEMMA GraphTypes ==
  ASSUME Types, NEW t \in Threads, InGraph(t)
  PROVE  Types'
<1>1. /\ run[t] \in Runs /\ cgraph \in Graphs \cup {<<>>} /\ n_graph.n \in 0..N
      /\ node \in [Threads -> Nat] /\ unit \in [Threads -> Nat]
      /\ run \in [Threads -> Runs] /\ bar \in [Threads -> Bars]
      /\ n_barrier \in Int /\ n_barrier_passed \in 0..PassedWrap - 1
      /\ current_chunk \in Nat /\ abort \in Int /\ ec \in {"success", "aborted"}
      /\ t \in Nat
  BY Zero DEF Types, SharedTypes, LocalTypes, Numbers, Threads
<1>2. CASE Start(t)
  <2>1. PICK p \in {"node"} : Goto(t, p)
    BY <1>2 DEF Start
  <2>2. PcTypes' /\ (At(0, "kick")' => At(0, "kick"))
    BY <2>1, GoSteps
  <2>3. node' \in [Threads -> Nat] /\ unit' \in [Threads -> Nat] /\ bar' \in [Threads -> Bars]
    BY <1>2, <1>1, BarSteps DEF Start, Computing, Meeting, locals
  <2> QED BY <1>2, <1>1, <2>2, <2>3, InGraphTypes
         DEF Start, Computing, Meeting, barrier, locals, caller, Runs
<1>3. CASE Node(t)
  <2>1. PICK p \in {"arrive", "node", "convert", "part"} : Goto(t, p)
    BY <1>3 DEF Node, Entry, CallBarrier
  <2>2. PcTypes' /\ (At(0, "kick")' => At(0, "kick"))
    BY <2>1, GoSteps
  <2>3. node' \in [Threads -> Nat] /\ unit' \in [Threads -> Nat] /\ bar' \in [Threads -> Bars]
    BY <1>3, <1>1, BarSteps DEF Node, Computing, Meeting, locals, Entry, CallBarrier
  <2> QED BY <1>3, <1>1, <2>2, <2>3, InGraphTypes
         DEF Node, Computing, Meeting, barrier, locals, caller
<1>4. CASE Part(t)
  <2>1. PICK p \in {"callback"} : Goto(t, p)
    BY <1>4 DEF Part
  <2>2. PcTypes' /\ (At(0, "kick")' => At(0, "kick"))
    BY <2>1, GoSteps
  <2>3. node' \in [Threads -> Nat] /\ unit' \in [Threads -> Nat] /\ bar' \in [Threads -> Bars]
    BY <1>4, <1>1, BarSteps DEF Part, Computing, Meeting, locals
  <2> QED BY <1>4, <1>1, <2>2, <2>3, InGraphTypes
         DEF Part, Computing, Meeting, barrier, locals, caller
<1>5. CASE Convert(t)
  <2>1. PICK p \in {"arrive"} : Goto(t, p)
    BY <1>5 DEF Convert, CallBarrier
  <2>2. PcTypes' /\ (At(0, "kick")' => At(0, "kick"))
    BY <2>1, GoSteps
  <2>3. node' \in [Threads -> Nat] /\ unit' \in [Threads -> Nat] /\ bar' \in [Threads -> Bars]
    BY <1>5, <1>1, BarSteps DEF Convert, Computing, Meeting, locals, CallBarrier
  <2> QED BY <1>5, <1>1, <2>2, <2>3, InGraphTypes
         DEF Convert, Computing, Meeting, barrier, locals, caller, Runs
<1>6. CASE Chunk(t)
  <2>1. PICK p \in {"callback", "fetch"} : Goto(t, p)
    BY <1>6 DEF Chunk
  <2>2. PcTypes' /\ (At(0, "kick")' => At(0, "kick"))
    BY <2>1, GoSteps
  <2>3. node' \in [Threads -> Nat] /\ unit' \in [Threads -> Nat] /\ bar' \in [Threads -> Bars]
    BY <1>6, <1>1, BarSteps DEF Chunk, Computing, Meeting, locals
  <2> QED BY <1>6, <1>1, <2>2, <2>3, InGraphTypes
         DEF Chunk, Computing, Meeting, barrier, locals, caller
<1>7. CASE Fetch(t)
  <2>1. PICK p \in {"callback", "chunk"} : Goto(t, p)
    BY <1>7 DEF Fetch
  <2>2. PcTypes' /\ (At(0, "kick")' => At(0, "kick"))
    BY <2>1, GoSteps
  <2>3. node' \in [Threads -> Nat] /\ unit' \in [Threads -> Nat] /\ bar' \in [Threads -> Bars]
    BY <1>7, <1>1, BarSteps DEF Fetch, Computing, Meeting, locals
  <2> QED BY <1>7, <1>1, <2>2, <2>3, InGraphTypes
         DEF Fetch, Computing, Meeting, barrier, locals, caller
<1>8. CASE Callback(t)
  <2>1. PICK p \in {"arrive", "node"} : Goto(t, p)
    BY <1>8 DEF Callback, CallBarrier
  <2>2. PcTypes' /\ (At(0, "kick")' => At(0, "kick"))
    BY <2>1, GoSteps
  <2>3. node' \in [Threads -> Nat] /\ unit' \in [Threads -> Nat] /\ bar' \in [Threads -> Bars]
    BY <1>8, <1>1, BarSteps DEF Callback, Computing, Meeting, locals, CallBarrier
  <2> QED BY <1>8, <1>1, <2>2, <2>3, InGraphTypes
         DEF Callback, Computing, Meeting, barrier, locals, caller
<1>9. CASE Arrive(t)
  <2>1. CASE n_graph.n = 1
    BY <1>1, <1>9, <2>1, ReturnTypes DEF Arrive, barrier
  <2>2. CASE n_graph.n # 1
    <3>1. Goto(t, "enter") /\ Meeting
      BY <1>9, <2>2 DEF Arrive
    <3>2. PcTypes' /\ (At(0, "kick")' => At(0, "kick"))
      BY <3>1, GoSteps
    <3>3. node' \in [Threads -> Nat] /\ bar' \in [Threads -> Bars]
      BY <1>1, <1>9, <2>2, BarSteps DEF Arrive
    <3> QED BY <1>1, <1>9, <3>1, <3>2, <3>3, InGraphTypes DEF Arrive, Meeting, barrier, caller
  <2> QED BY <2>1, <2>2
<1>10. CASE Enter(t)
  <2>1. PICK p \in {"last", "spin"} : Goto(t, p)
    BY <1>10 DEF Enter
  <2>2. PcTypes' /\ (At(0, "kick")' => At(0, "kick"))
    BY <2>1, GoSteps
  <2>3. node' \in [Threads -> Nat] /\ unit' \in [Threads -> Nat] /\ bar' \in [Threads -> Bars]
    BY <1>10, <1>1, BarSteps DEF Enter, Computing, Meeting, locals
  <2> QED BY <1>10, <1>1, <2>2, <2>3, InGraphTypes
         DEF Enter, Computing, Meeting, barrier, locals, caller
<1>11. CASE LastResets(t)
  <2>1. PICK p \in {"open"} : Goto(t, p)
    BY <1>11 DEF LastResets
  <2>2. PcTypes' /\ (At(0, "kick")' => At(0, "kick"))
    BY <2>1, GoSteps
  <2>3. node' \in [Threads -> Nat] /\ unit' \in [Threads -> Nat] /\ bar' \in [Threads -> Bars]
    BY <1>11, <1>1, BarSteps DEF LastResets, Computing, Meeting, locals
  <2> QED BY <1>11, <1>1, <2>2, <2>3, InGraphTypes
         DEF LastResets, Computing, Meeting, barrier, locals, caller
<1>12. CASE LastOpens(t)
  BY <1>1, <1>12, ReturnTypes, Mods DEF LastOpens
<1>13. CASE Spin(t)
  BY <1>1, <1>13, ReturnTypes DEF Spin, barrier
<1> QED BY <1>2, <1>3, <1>4, <1>5, <1>6, <1>7, <1>8, <1>9, <1>10, <1>11, <1>12, <1>13
        DEF InGraph

LEMMA TypesStep == Types /\ [Next]_vars => Types'
<1>1. Types /\ UNCHANGED vars => Types'
  BY DEF Types, SharedTypes, PcTypes, SeenTypes, LocalTypes, vars,
         caller, control, lock, barrier, locals, At
<1> QED BY <1>1, CallerTypes, WorkerTypes, GraphTypes DEF Next
-----------------------------------------------------------------------------
(* The mutex and the broadcasts.                                            *)

WakeInv == LockInv /\ NoMissedWake

LEMMA WakeInit == Init => WakeInv
BY Zero, PoolAssumption DEF Init, WakeInv, LockInv, NoMissedWake, At, Holding, Threads, Workers

\* Steps outside the sections that the mutex protects.
LEMMA FreeStep ==
  ASSUME Types, WakeInv, NEW t \in Threads, NEW p,
         pc[t] \notin Holding \cup {"wake", "pause_woken", "check_lock"},
         p \notin Holding \cup {"wake"}, Goto(t, p),
         UNCHANGED <<n_graph, stop, pause, mutex, waiting>>,
         (t \in Workers /\ last_graph' = [last_graph EXCEPT ![t] = n_graph]) \/ UNCHANGED last_graph
  PROVE  WakeInv'
<1>1. DOMAIN pc = Threads /\ last_graph \in [Workers -> Numbers] /\ waiting \subseteq Workers
  BY DEF Types, PcTypes, SeenTypes, SharedTypes
<1>2. pc'[t] = p /\ \A u \in Threads : u # t => pc'[u] = pc[u]
  BY <1>1 DEF Goto
<1>3. \A u \in Workers : u # t => last_graph'[u] = last_graph[u]
  BY <1>1
<1>4. t \notin waiting
  BY DEF WakeInv, LockInv
<1>5. 0 \in Threads /\ \A u \in Workers : u \in Threads /\ u # 0
  BY Zero
<1>6. LockInv'
  <2>1. At(0, "wake")' <=> mutex' = 0
    BY <1>2, <1>5 DEF WakeInv, LockInv, At
  <2>2. ASSUME NEW u \in Workers
        PROVE  /\ (pc[u] \in Holding <=> mutex = u)'
               /\ (At(u, "pause_sleep") => pause)'
               /\ (At(u, "sleep") => ~stop /\ ~pause /\ last_graph[u] = n_graph)'
    BY <1>2, <1>3, <1>5 DEF WakeInv, LockInv, At, Holding
  <2>3. ASSUME NEW u \in waiting' PROVE pc'[u] \in {"pause_woken", "check_lock"}
    BY <1>1, <1>2, <1>4, <1>5 DEF WakeInv, LockInv
  <2> QED BY <2>1, <2>2, <2>3 DEF LockInv
<1>7. NoMissedWake'
  <2>1. ASSUME NEW u \in waiting
        PROVE  u \in Workers /\ u # t
    BY <1>1, <1>4
  <2> QED BY <1>2, <1>3, <1>5, <2>1 DEF WakeInv, NoMissedWake, At
<1> QED BY <1>6, <1>7 DEF WakeInv

LEMMA CallerWakes ==
  ASSUME Types, WakeInv, Caller
  PROVE  WakeInv'
<1>1. DOMAIN pc = Threads /\ waiting \subseteq Workers /\ 0 \in Threads /\ NoThread \notin Threads
      /\ \A u \in Workers : u \in Threads /\ u # 0 /\ u # NoThread
  BY Zero, PoolAssumption DEF Types, PcTypes, SharedTypes, Threads
<1>2. ASSUME NEW p, Goto(0, p) PROVE pc'[0] = p /\ \A u \in Workers : pc'[u] = pc[u]
  BY <1>1, <1>2 DEF Goto
<1>3. CASE (\E g \in Graphs, n_threads \in 1..MaxThreads : Compute(g, n_threads)) \/ Join
  <2>1. PICK p \in {"kick", "freed"} : Goto(0, p)
    BY <1>3 DEF Compute, Join
  <2>2. pc[0] \in {"idle", "join"} /\ UNCHANGED <<n_graph, stop, pause, mutex, waiting, last_graph>>
    BY <1>3 DEF Compute, Join, control, lock, At
  <2> QED BY <1>1, <2>1, <2>2, FreeStep DEF Holding
<1>4. CASE Kickoff
  <2> USE <1>4 DEF Kickoff
  <2>1. pc'[0] = "wake" /\ \A u \in Workers : pc'[u] = pc[u]
    BY <1>2
  <2>2. \A u \in Workers : pc[u] \notin Holding
    BY <1>1 DEF WakeInv, LockInv
  <2> QED BY <1>1, <2>1, <2>2 DEF WakeInv, LockInv, NoMissedWake, At, Holding
<1>5. CASE KickoffWake
  <2> USE <1>5 DEF KickoffWake
  <2>1. pc'[0] = "start" /\ \A u \in Workers : pc'[u] = pc[u]
    BY <1>2
  <2>2. \A u \in Workers : pc[u] \notin Holding
    BY <1>1 DEF WakeInv, LockInv
  <2> QED BY <1>1, <2>1, <2>2 DEF WakeInv, LockInv, NoMissedWake, At, Holding
<1>6. CASE \E p \in BOOLEAN : SetPause(p)
  <2> USE <1>6 DEF SetPause
  <2>1. \A u \in Workers : pc[u] \notin Holding
    BY <1>1 DEF WakeInv, LockInv
  <2> QED BY <1>1, <2>1 DEF WakeInv, LockInv, NoMissedWake, At, Holding
<1>7. CASE Free
  <2> USE <1>7 DEF Free
  <2>1. pc'[0] = "join" /\ pc[0] = "idle" /\ \A u \in Workers : pc'[u] = pc[u]
    BY <1>2 DEF At
  <2>2. \A u \in Workers : pc[u] \notin Holding
    BY <1>1 DEF WakeInv, LockInv
  <2> QED BY <1>1, <2>1, <2>2 DEF WakeInv, LockInv, NoMissedWake, At, Holding
<1> QED BY <1>3, <1>4, <1>5, <1>6, <1>7 DEF Caller

\* A worker in such a section, or on its way into one or out of it.
LEMMA LockStep ==
  ASSUME Types, WakeInv, NEW t \in Workers, NEW p, Goto(t, p),
         UNCHANGED <<n_graph, stop, pause>>,
         t \notin waiting,
         waiting' \in {waiting, waiting \cup {t}},
         last_graph' = [last_graph EXCEPT ![t] = n_graph] \/ UNCHANGED last_graph,
         mutex \in {t, NoThread}, mutex' \in {t, NoThread},
         p \in Holding <=> mutex' = t,
         p = "pause_sleep" => pause,
         p = "sleep" => ~stop /\ ~pause /\ last_graph'[t] = n_graph,
         waiting' # waiting =>
             \/ p = "pause_woken" /\ pause
             \/ p = "check_lock" /\ ~stop /\ ~pause /\ last_graph'[t] = n_graph
  PROVE  WakeInv'
<1>1. DOMAIN pc = Threads /\ last_graph \in [Workers -> Numbers] /\ waiting \subseteq Workers
  BY DEF Types, PcTypes, SeenTypes, SharedTypes
<1>2. 0 \in Threads /\ \A u \in Workers : u \in Threads /\ u # 0 /\ u # NoThread /\ 0 # NoThread
  BY Zero, PoolAssumption DEF Threads
<1>3. pc'[t] = p /\ \A u \in Threads : u # t => pc'[u] = pc[u]
  BY <1>1, <1>2 DEF Goto
<1>4. \A u \in Workers : u # t => last_graph'[u] = last_graph[u]
  BY <1>1
<1>5. LockInv'
  <2>1. At(0, "wake")' <=> mutex' = 0
    BY <1>2, <1>3 DEF WakeInv, LockInv, At
  <2>2. ASSUME NEW u \in Workers
        PROVE  /\ (pc[u] \in Holding <=> mutex = u)'
               /\ (At(u, "pause_sleep") => pause)'
               /\ (At(u, "sleep") => ~stop /\ ~pause /\ last_graph[u] = n_graph)'
    <3>1. CASE u = t
      BY <1>3, <3>1 DEF At
    <3>2. CASE u # t
      BY <1>2, <1>3, <1>4, <3>2 DEF WakeInv, LockInv, At
    <3> QED BY <3>1, <3>2
  <2>3. ASSUME NEW u \in waiting' PROVE pc'[u] \in {"pause_woken", "check_lock"}
    <3>1. CASE u = t
      BY <1>3, <3>1
    <3>2. CASE u # t
      BY <1>1, <1>2, <1>3, <3>2 DEF WakeInv, LockInv
    <3> QED BY <3>1, <3>2
  <2> QED BY <2>1, <2>2, <2>3 DEF LockInv
<1>6. NoMissedWake'
  <2>1. ASSUME NEW u \in waiting'
        PROVE  \/ At(0, "wake")'
               \/ At(u, "pause_woken")' /\ pause'
               \/ At(u, "check_lock")' /\ ~stop' /\ ~pause' /\ last_graph'[u] = n_graph'
    <3>1. CASE u = t
      BY <1>3, <3>1 DEF At
    <3>2. CASE u # t
      <4>1. u \in waiting /\ u \in Workers
        BY <1>1, <3>2
      <4> QED BY <1>2, <1>3, <1>4, <3>2, <4>1 DEF WakeInv, NoMissedWake, At
    <3> QED BY <3>1, <3>2
  <2> QED BY <2>1 DEF NoMissedWake
<1> QED BY <1>5, <1>6 DEF WakeInv

LEMMA WorkerWakes ==
  ASSUME Types, WakeInv, NEW t \in Workers, Worker(t) \/ Spurious(t)
  PROVE  WakeInv'
<1>1. waiting \subseteq Workers /\ t \in Threads /\ t # NoThread
  BY Zero, PoolAssumption DEF Types, SharedTypes, Threads
<1>2. /\ pc[t] \in Holding => mutex = t /\ t \notin waiting
      /\ t \in waiting => pc[t] \in {"pause_woken", "check_lock"}
      /\ At(t, "sleep") => ~stop /\ ~pause /\ last_graph[t] = n_graph
      /\ At(t, "pause_sleep") => pause
  BY DEF WakeInv, LockInv, Holding
<1>3. CASE Loop(t) \/ Running(t) \/ Poll(t) \/ Look(t)
  <2>1. PICK p \in {"pause_lock", "running", "exited", "poll", "check_lock", "look", "start"} : Goto(t, p)
    BY <1>3 DEF Loop, Running, Poll, Look, SeesGraph
  <2>2. pc[t] \in {"loop", "running", "poll", "look"}
    BY <1>3 DEF Loop, Running, Poll, Look, At
  <2>3. UNCHANGED <<n_graph, stop, pause, mutex, waiting>>
    BY <1>3 DEF Loop, Running, Poll, Look, Quiet, control, lock
  <2>4. last_graph' = [last_graph EXCEPT ![t] = n_graph] \/ UNCHANGED last_graph
    BY <1>3 DEF Loop, Running, Poll, Look, SeesGraph
  <2> QED BY <1>1, <2>1, <2>2, <2>3, <2>4, FreeStep DEF Holding
<1>4. CASE PauseLock(t) \/ CheckLock(t)
  BY <1>1, <1>4, LockStep DEF PauseLock, CheckLock, Locked, Quiet, control, Holding
<1>5. CASE Paused(t)
  <2>1. CASE At(t, "paused") /\ pause /\ Goto(t, "pause_sleep") /\ UNCHANGED lock
    BY <1>1, <1>2, <1>5, <2>1, LockStep DEF Paused, Quiet, control, lock, Holding, At
  <2>2. CASE At(t, "paused") /\ ~pause /\ Unlock(t, "loop")
    BY <1>1, <1>2, <1>5, <2>2, LockStep DEF Paused, Unlock, Quiet, control, Holding, At
  <2>3. CASE At(t, "pause_sleep") /\ CondWait(t, "pause_woken")
    BY <1>1, <1>2, <1>5, <2>3, LockStep DEF Paused, CondWait, Quiet, control, Holding, At
  <2> QED BY <1>5, <2>1, <2>2, <2>3 DEF Paused
<1>6. CASE PauseWoken(t)
  BY <1>1, <1>6, LockStep DEF PauseWoken, Quiet, control, lock, Holding
<1>7. CASE Spurious(t)
  BY <1>7 DEF Spurious, Quiet, control, WakeInv, LockInv, NoMissedWake, At
<1>8. CASE Check(t)
  <2> USE DEF Check, Quiet, control, Holding, At
  <2>1. CASE At(t, "check") /\ Unlock(t, "loop") /\ UNCHANGED last_graph
    BY <1>1, <1>2, <1>8, <2>1, LockStep DEF Unlock
  <2>2. CASE At(t, "check") /\ SeesGraph(t, "loop") /\ mutex' = NoThread /\ UNCHANGED waiting
    BY <1>1, <1>2, <1>8, <2>2, LockStep DEF SeesGraph
  <2>3. CASE /\ At(t, "check") /\ ~stop /\ ~pause /\ n_graph = last_graph[t]
             /\ Goto(t, "sleep") /\ UNCHANGED <<lock, last_graph>>
    BY <1>1, <1>2, <1>8, <2>3, LockStep DEF lock
  <2>4. CASE At(t, "sleep") /\ CondWait(t, "check_lock") /\ UNCHANGED last_graph
    BY <1>1, <1>2, <1>8, <2>4, LockStep DEF CondWait
  <2> QED BY <1>8, <2>1, <2>2, <2>3, <2>4 DEF Check
<1> QED BY <1>3, <1>4, <1>5, <1>6, <1>7, <1>8 DEF Worker

LEMMA GraphWakes ==
  ASSUME Types, WakeInv, NEW t \in Threads, InGraph(t)
  PROVE  WakeInv'
<1>1. UNCHANGED <<n_graph, stop, pause, mutex, waiting, last_graph>>
  BY DEF InGraph, Start, Node, Part, Convert, Chunk, Fetch, Callback, Arrive, Enter, LastResets,
         LastOpens, Spin, Computing, Meeting, control, lock
<1>2. pc[t] \in GraphPcs
  BY DEF InGraph, Start, Node, Part, Convert, Chunk, Fetch, Callback, Arrive, Enter, LastResets,
         LastOpens, Spin, At, GraphPcs, Inside
<1>3. PICK p \in (GraphPcs \cup {"idle", "loop"}) : Goto(t, p)
  <2>1. bar[t].then \in {"end", "next", "chunk"}
    BY BarSteps
  <2>2. Return(t) => \E p \in {"node", "chunk", "idle", "loop"} : Goto(t, p)
    BY <2>1 DEF Return
  <2> QED BY <2>2 DEF InGraph, Start, Node, Part, Convert, Chunk, Fetch, Callback, Arrive, Enter,
             LastResets, LastOpens, Spin, Entry, CallBarrier, GraphPcs, Inside
<1> QED BY <1>1, <1>2, <1>3, FreeStep DEF GraphPcs, Inside, Holding

LEMMA WakeStep == Types /\ WakeInv /\ [Next]_vars => WakeInv'
<1>1. WakeInv /\ UNCHANGED vars => WakeInv'
  BY DEF WakeInv, LockInv, NoMissedWake, vars, control, lock, At
<1> QED BY <1>1, CallerWakes, WorkerWakes, GraphWakes DEF Next

\* No wake-up is lost between a kick-off, a pause or a free and a worker that
\* goes to sleep, for any number of workers, whatever wakes them besides.
THEOREM NoWakeIsMissed == Spec => []NoMissedWake
<1>1. Init => Types /\ WakeInv
  BY TypesInit, WakeInit
<1>2. Types /\ WakeInv /\ [Next]_vars => (Types /\ WakeInv)'
  BY TypesStep, WakeStep
<1>3. Types /\ WakeInv => NoMissedWake
  BY DEF WakeInv
<1> QED BY <1>1, <1>2, <1>3, PTL DEF Spec
-----------------------------------------------------------------------------
(* Nodes.                                                                   *)

LEMMA GraphsAre ==
  ASSUME NEW g \in Graphs \cup {<<>>}
  PROVE  /\ Len(g) \in Nat
         /\ \A n \in 0..Len(g) - 1 : Kind(g, n) \in Kinds
         /\ \A n \in 0..Len(g) - 1 :
                Kind(g, n) = "fused" => n + 1 < Len(g) /\ Kind(g, n + 1) = "op"
<1>1. g \in Seq(Kinds)
  <2>1. Graphs \subseteq Seq(Kinds) /\ <<>> \in Seq(Kinds)
    BY GraphsAssumption
  <2> QED BY <2>1
<1>2. Len(g) \in Nat /\ \A i \in 1..Len(g) : g[i] \in Kinds
  BY <1>1
<1>3. \A i \in 1..Len(g) : g[i] = "fused" => i < Len(g) /\ g[i + 1] = "op"
  <2>1. CASE g \in Graphs
    BY <2>1, GraphsAssumption
  <2>2. CASE g = <<>>
    BY <2>2
  <2> QED BY <2>1, <2>2
<1>4. ASSUME NEW n \in 0..Len(g) - 1
      PROVE  /\ n + 1 \in 1..Len(g) /\ Kind(g, n) = g[n + 1]
             /\ n + 1 < Len(g) => Kind(g, n + 1) = g[(n + 1) + 1]
  BY <1>2 DEF Kind
<1> QED BY <1>2, <1>3, <1>4

LEMMA LeastIs ==
  ASSUME NEW S \in SUBSET Nat, S # {}
  PROVE  Least(S) \in S /\ \A k \in S : Least(S) <= k
<1> DEFINE R == {p \in Nat \X Nat : p[1] < p[2]}
<1>1. IsWellFoundedOn(R, Nat)
  BY NatLessThanWellFounded DEF OpToRel
<1>2. PICK m \in S : \A k \in S : <<k, m>> \notin R
  <2> HIDE DEF R
  <2> QED BY <1>1, WFMin
<1>3. ASSUME NEW k \in S PROVE m <= k
  <2>1. k \in Nat /\ m \in Nat /\ ~(k < m)
    BY <1>2
  <2> QED BY <2>1
<1> QED BY <1>3 DEF Least

LEMMA FirstIs ==
  ASSUME NEW g \in Graphs \cup {<<>>}, NEW n \in Nat
  PROVE  /\ First(g, n) \in Nat
         /\ n <= Len(g) => First(g, n) \in n..Len(g)
         /\ n >= Len(g) => First(g, n) = Len(g)
         /\ n < Len(g) /\ Kind(g, n) = "empty" => First(g, n) = First(g, n + 1)
         /\ n < Len(g) /\ Kind(g, n) # "empty" => First(g, n) = n
         /\ First(g, n) < Len(g) => Kind(g, First(g, n)) # "empty"
<1>1. Len(g) \in Nat
  BY GraphsAre
<1>2. Full(g, n) \in SUBSET Nat /\ Full(g, n) \subseteq n..Len(g) - 1
  BY <1>1 DEF Full
<1>3. Full(g, n) # {} => Least(Full(g, n)) \in Full(g, n)
                        /\ \A k \in Full(g, n) : Least(Full(g, n)) <= k
  BY <1>2, LeastIs
<1>4. First(g, n) \in Nat /\ (n <= Len(g) => First(g, n) \in n..Len(g))
  BY <1>1, <1>2, <1>3 DEF First
<1>5. n >= Len(g) => First(g, n) = Len(g)
  BY <1>1, <1>2 DEF First
<1>6. ASSUME n < Len(g), Kind(g, n) = "empty"
      PROVE  First(g, n) = First(g, n + 1)
  <2>1. Full(g, n) = Full(g, n + 1)
    BY <1>1, <1>6 DEF Full
  <2> QED BY <2>1 DEF First
<1>7. ASSUME n < Len(g), Kind(g, n) # "empty"
      PROVE  First(g, n) = n
  <2>1. n \in Full(g, n)
    BY <1>1, <1>7 DEF Full
  <2> QED BY <1>2, <1>3, <2>1, <1>1 DEF First
<1>8. First(g, n) < Len(g) => Kind(g, First(g, n)) # "empty"
  BY <1>1, <1>3 DEF First, Full
<1> QED BY <1>4, <1>5, <1>6, <1>7, <1>8

\* A thread that is about to look at a node comes to the barrier of the first
\* node at or after it that there is something to do for.
LEMMA FromIs ==
  ASSUME NEW g \in Graphs \cup {<<>>}, NEW s \in 0..Len(g), NEW n \in Nat
  PROVE  /\ n >= s => From(g, s, n) = End
         /\ n < Len(g) /\ Kind(g, n) = "empty" => From(g, s, n) = From(g, s, n + 1)
         /\ n < s /\ Kind(g, n) = "matmul" => From(g, s, n) = <<"chunk", n>>
         /\ n < s /\ Kind(g, n) \notin {"empty", "matmul"} => From(g, s, n) = After(g, Own(g, n))
<1>1. Len(g) \in Nat
  BY GraphsAre
<1>2. First(g, n) \in Nat /\ (n >= s => First(g, n) >= s)
  <2>1. /\ First(g, n) \in Nat /\ (n <= Len(g) => First(g, n) \in n..Len(g))
        /\ n >= Len(g) => First(g, n) = Len(g)
    BY FirstIs
  <2> QED BY <1>1, <2>1
<1>3. n + 1 \in Nat
  OBVIOUS
<1>4. n < Len(g) /\ Kind(g, n) = "empty" => First(g, n) = First(g, n + 1)
  BY FirstIs
<1>5. n < s /\ Kind(g, n) # "empty" => First(g, n) = n
  BY <1>1, FirstIs
<1> QED BY <1>1, <1>2, <1>4, <1>5 DEF From

\* An abort after node m changes nothing for those who come to m's barrier.
LEMMA FromCut ==
  ASSUME NEW g \in Graphs \cup {<<>>}, NEW n \in Nat, NEW m \in Nat,
         m < Len(g), From(g, Len(g), n) = After(g, m)
  PROVE  From(g, m + 1, n) = After(g, m) /\ (m + 1 < Len(g) => n <= m)
<1>1. Len(g) \in Nat /\ First(g, n) \in Nat
  BY GraphsAre, FirstIs
<1>2. CASE m + 1 >= Len(g)
  BY <1>1, <1>2
<1>3. CASE m + 1 < Len(g)
  <2>1. After(g, m) = <<"next", m>>
    BY <1>3 DEF After
  <2>2. First(g, n) < Len(g) /\ Kind(g, First(g, n)) # "matmul"
    BY <1>1, <2>1 DEF From, End
  <2>3. Own(g, First(g, n)) = m
    BY <1>1, <2>1, <2>2 DEF From, After, End
  <2>4. First(g, n) <= m
    BY <1>1, <2>3 DEF Own
  <2>5. n <= First(g, n)
    BY <1>1, <2>2, FirstIs
  <2> QED BY <1>1, <2>1, <2>2, <2>3, <2>4, <2>5 DEF From
<1> QED BY <1>1, <1>2, <1>3

-----------------------------------------------------------------------------
(* A step of one thread.                                                    *)

Same(u) == pc'[u] = pc[u] /\ node'[u] = node[u] /\ bar'[u] = bar[u] /\ run'[u] = run[u]
Only(t) == \A u \in Threads \ {t} : Same(u)

LEMMA ThreadTypes ==
  ASSUME Types, NEW t \in Threads
  PROVE  /\ node[t] \in Nat /\ bar[t].then \in {"end", "next", "chunk"}
         /\ t = 0 => pc[t] \in GraphPcs \cup CallPcs
         /\ t # 0 => t \in Workers /\ pc[t] \in GraphPcs \cup LoopPcs
         /\ Len(cgraph) \in Nat /\ cgraph \in Graphs \cup {<<>>}
         /\ abort \in Int /\ n_graph.n \in 0..N /\ DOMAIN pc = Threads
<1>1. cgraph \in Graphs \cup {<<>>}
  BY DEF Types, SharedTypes
<1>2. Len(cgraph) \in Nat
  BY <1>1, GraphsAre
<1> QED BY <1>1, <1>2, Zero, BarSteps DEF Types, SharedTypes, PcTypes, LocalTypes, Numbers

LEMMA TeamIs == Types => Team \subseteq Threads /\ IsFiniteSet(Team) /\ Cardinality(Team) = n_graph.n
<1> SUFFICES ASSUME Types PROVE Team \subseteq Threads /\ IsFiniteSet(Team) /\ Cardinality(Team) = n_graph.n
  OBVIOUS
<1>1. n_graph.n \in 0..N /\ N \in Nat
  BY Zero DEF Types, SharedTypes, Numbers
<1>2. ASSUME NEW m \in Nat PROVE IsFiniteSet(0..m - 1) /\ Cardinality(0..m - 1) = m
  <2>1. 0 \in Int /\ m - 1 \in Int
    OBVIOUS
  <2>2. /\ IsFiniteSet(0..m - 1)
        /\ Cardinality(0..m - 1) = IF 0 > m - 1 THEN 0 ELSE (m - 1) - 0 + 1
    BY <2>1, FS_Interval
  <2> QED BY <2>2
<1>3. IsFiniteSet(0..n_graph.n - 1) /\ Cardinality(0..n_graph.n - 1) = n_graph.n
  BY <1>1, <1>2
<1> QED BY <1>1, <1>3 DEF Team, Threads

LEMMA Frame ==
  ASSUME NEW u \in Threads, Same(u), UNCHANGED <<cgraph, n_graph, n_barrier_passed>>,
         Current(u)' <=> Current(u)
  PROVE  /\ Released(u)' <=> Released(u)
         /\ Waits(u)' <=> Waits(u)
         /\ Member(u)' <=> Member(u)
         /\ abort' = abort => Dest(u)' = Dest(u) /\ (NodeBound(u)' <=> NodeBound(u))
<1>1. \A p : At(u, p)' <=> At(u, p)
  BY DEF Same, At
<1>2. Released(u)' <=> Released(u)
  BY DEF Same, Released, At
<1>3. Waits(u)' <=> Waits(u)
  BY <1>1, <1>2 DEF Same, Waits
<1>4. Member(u)' <=> Member(u)
  BY DEF Same, Member, Team
<1>5. ASSUME abort' = abort PROVE Dest(u)' = Dest(u)
  <2>1. StopAt' = StopAt
    BY <1>5 DEF StopAt
  <2> QED BY <1>1, <1>2, <2>1 DEF Same, Dest
<1>6. ASSUME abort' = abort PROVE NodeBound(u)' <=> NodeBound(u)
  BY <1>1, <1>6 DEF Same, NodeBound, StopAt
<1> QED BY <1>2, <1>3, <1>4, <1>5, <1>6

\* A thread in the graph that neither waits in a barrier nor counts itself in.
LEMMA InnerStep ==
  ASSUME Types, PoolInv, NEW t \in Threads,
         AtWork, t \in Team, Current(t), pc[t] \in GraphPcs, ~Waits(t), ~At(t, "enter"),
         pc'[t] \in Inside \ {"last", "open"}, Only(t),
         UNCHANGED <<cgraph, n_graph, n_barrier, n_barrier_passed, last_graph>>,
         At(t, "enter")' => bar'[t].n = n_graph.n /\ bar'[t].passed = n_barrier_passed,
         run'[0] = run[0],
         Dest(t)' = Dest(t) \/ Team = {t},
         \A u \in Team \ {t} :
             Dest(u)' = Dest(u) /\ (Member(u) /\ NodeBound(u) => NodeBound(u)'),
         Cut', LeadBound', NodeBound(t)'
  PROVE  PoolInv'
<1>1. Team' = Team /\ Team \subseteq Threads /\ 0 \in Threads /\ \A u \in Workers : u \in Threads /\ u # 0
  BY TeamIs, Zero DEF Team
<1>2. \A u \in Threads : Current(u)' <=> Current(u)
  BY DEF Current
<1>3. \A u \in Threads \ {t} : /\ Same(u) /\ pc'[u] = pc[u] /\ bar'[u] = bar[u]
                               /\ Released(u)' <=> Released(u)
                               /\ Waits(u)' <=> Waits(u)
                               /\ Member(u)' <=> Member(u)
                               /\ \A p : At(u, p)' <=> At(u, p)
  BY <1>2, Frame DEF Only, Same, At
<1>4. ~Waits(t)' /\ ~At(t, "spin")' /\ ~At(t, "last")' /\ ~At(t, "open")' /\ pc'[t] \in GraphPcs
      /\ ~At(t, "last") /\ ~At(t, "open")
  BY DEF Waits, At, Inside, GraphPcs
<1>5. AtWork'
  <2>1. CASE t = 0
    BY <2>1 DEF AtWork
  <2>2. CASE t # 0
    BY <1>1, <1>3, <2>2 DEF AtWork
  <2> QED BY <2>1, <2>2
<1>6. LeadPlace'
  <2>1. pc[0] \in {"kick", "wake"} \cup GraphPcs /\ (pc[0] \in {"kick"} => pc'[0] = pc[0])
    BY DEF AtWork, GraphPcs, Inside, At
  <2>2. pc[0] # "kick" /\ pc'[0] # "kick"
    BY <1>1, <1>3, <1>4 DEF AtWork, At, GraphPcs, Inside
  <2> QED BY <1>1, <1>5, <2>1, <2>2 DEF LeadPlace, PoolInv, Places, At
<1>7. ASSUME NEW u \in Workers PROVE PlaceOf(u)'
  <2>1. CASE u = t
    BY <1>1, <1>2, <1>4, <1>5, <2>1 DEF PlaceOf
  <2>2. CASE u # t
    BY <1>1, <1>2, <1>3, <1>5, <2>2 DEF PlaceOf, PoolInv, Places
  <2> QED BY <2>1, <2>2
<1>8. Bounds'
  <2>1. ASSUME NEW u \in Team, Member(u)' PROVE NodeBound(u)'
    <3>1. CASE u = t
      BY <3>1
    <3>2. CASE u # t
      BY <1>1, <1>3, <2>1, <3>2 DEF PoolInv, Bounds
    <3> QED BY <3>1, <3>2
  <2> QED BY <1>1, <2>1 DEF Bounds
<1>9. Aligned'
  <2>1. 0 \in Team /\ \A u \in Team : Dest(u) = Dest(0)
    BY DEF PoolInv, Places, LeadPlace, Aligned
  <2>2. CASE Team = {t}
    BY <1>1, <2>1, <2>2 DEF Aligned
  <2>3. ASSUME Dest(t)' = Dest(t), NEW u \in Team PROVE Dest(u)' = Dest(0)'
    BY <2>1, <2>3
  <2> QED BY <1>1, <2>2, <2>3 DEF Aligned
<1>10. Counted'
  <2>1. Waiters' = Waiters
    BY <1>1, <1>3, <1>4 DEF Waiters
  <2>2. ASSUME NEW u \in Team PROVE (Waits(u) \/ At(u, "enter") => bar[u].n = n_graph.n)'
    BY <1>1, <1>3, <1>4 DEF PoolInv, Counted
  <2>3. ASSUME NEW u \in Team PROVE (pc[u] \in {"enter", "last", "open"} => bar[u].passed = n_barrier_passed)'
    BY <1>1, <1>3, <1>4 DEF PoolInv, Counted, At
  <2>4. \A u \in Team : At(u, "open")' <=> At(u, "open")
    BY <1>1, <1>3, <1>4
  <2>5. \A u \in Team : pc'[u] \in {"last", "open"} <=> pc[u] \in {"last", "open"}
    BY <1>1, <1>3, <1>4 DEF At
  <2> QED BY <1>1, <2>1, <2>2, <2>3, <2>4, <2>5 DEF PoolInv, Counted
<1> QED BY <1>6, <1>7, <1>8, <1>9, <1>10 DEF PoolInv, Places

-----------------------------------------------------------------------------
(* Steps outside the graph.                                                 *)

LEMMA PoolInit == Init => PoolInv
<1> SUFFICES ASSUME Init PROVE PoolInv
  OBVIOUS
<1> USE Zero DEF Init
<1>1. ~AtWork
  BY DEF AtWork, At, Inside
<1>2. Team = {}
  BY DEF Team
<1>3. \A t \in Workers : pc[t] = "loop"
  OBVIOUS
<1>4. LeadPlace
  BY <1>1 DEF LeadPlace, GraphPcs, Inside, At
<1>5. \A t \in Workers : PlaceOf(t)
  BY <1>2, <1>3 DEF PlaceOf, Inside, At
<1> QED BY <1>1, <1>4, <1>5 DEF PoolInv, Places, Bounds, Aligned, Counted

\* Nothing of the barrier and of the graph changes, and only workers that are
\* not in the graph move.
LEMMA OutsideStep ==
  ASSUME Types, PoolInv, NEW t \in Workers, Only(t),
         pc[t] \in LoopPcs \cup {"spin"}, pc'[t] \in LoopPcs,
         UNCHANGED <<cgraph, n_graph, n_barrier, n_barrier_passed, abort>>,
         \A u \in Workers \ {t} : last_graph'[u] = last_graph[u],
         t \in Team /\ AtWork => ~Current(t) /\ ~Current(t)',
         t \in Team /\ ~AtWork => Current(t)'
  PROVE  PoolInv'
<1>1. Team' = Team /\ Team \subseteq Threads /\ 0 \in Threads /\ \A u \in Workers : u \in Threads /\ u # 0
  BY TeamIs, Zero DEF Team
<1>2. \A u \in Threads \ {t} : Current(u)' <=> Current(u)
  BY Zero DEF Current
<1>3. \A u \in Threads \ {t} : /\ Same(u) /\ pc'[u] = pc[u] /\ bar'[u] = bar[u]
                               /\ Released(u)' <=> Released(u)
                               /\ Waits(u)' <=> Waits(u)
                               /\ Member(u)' <=> Member(u)
                               /\ Dest(u)' = Dest(u)
                               /\ NodeBound(u)' <=> NodeBound(u)
                               /\ \A p : At(u, p)' <=> At(u, p)
  BY <1>2, Frame DEF Only, Same, At
<1>4. AtWork' <=> AtWork
  BY <1>1, <1>3 DEF AtWork
<1>5. pc'[t] \notin GraphPcs /\ pc[t] \notin Inside /\ ~At(t, "spin")'
  BY DEF LoopPcs, GraphPcs, Inside, At
<1>6. StopAt' = StopAt
  BY DEF StopAt
<1>7. LeadPlace'
  BY <1>1, <1>3, <1>4 DEF LeadPlace, PoolInv, Places, Same
<1>8. ASSUME NEW u \in Workers PROVE PlaceOf(u)'
  <2>1. CASE u = t
    BY <1>1, <1>4, <1>5, <2>1 DEF PlaceOf, GraphPcs
  <2>2. CASE u # t
    BY <1>1, <1>2, <1>3, <1>4, <2>2 DEF PlaceOf, PoolInv, Places
  <2> QED BY <2>1, <2>2
<1>9. Bounds'
  <2>1. ASSUME AtWork, NEW u \in Team, Member(u)' PROVE NodeBound(u)'
    <3>1. u # t
      BY <1>5, <2>1 DEF Member
    <3> QED BY <1>1, <1>3, <2>1, <3>1 DEF PoolInv, Bounds
  <2>2. Cut' <=> Cut
    BY DEF Cut
  <2>3. LeadBound' <=> LeadBound
    BY <1>1, <1>3 DEF LeadBound, Same
  <2> QED BY <1>1, <1>4, <2>1, <2>2, <2>3 DEF PoolInv, Bounds
<1>10. Aligned'
  <2>1. ASSUME AtWork, NEW u \in Team PROVE Dest(u)' = Dest(u)
    <3>1. CASE u = t
      BY <1>6, <2>1, <3>1 DEF Dest
    <3>2. CASE u # t
      BY <1>1, <1>3, <3>2
    <3> QED BY <3>1, <3>2
  <2>2. AtWork => 0 \in Team
    BY DEF PoolInv, Places, LeadPlace
  <2> QED BY <1>1, <1>4, <2>1, <2>2 DEF PoolInv, Aligned
<1>11. Counted'
  <2> SUFFICES ASSUME AtWork PROVE Counted'
    BY <1>4 DEF Counted
  <2>1. \A u \in Team : Waits(u)' <=> Waits(u)
    BY <1>1, <1>3 DEF Waits
  <2>2. Waiters' = Waiters
    BY <1>1, <2>1 DEF Waiters
  <2>3. pc'[t] \notin {"enter", "last", "open"} /\ pc[t] \notin {"enter", "last", "open"}
        /\ ~At(t, "enter")' /\ ~At(t, "open")' /\ ~At(t, "open") /\ (t \in Team => ~Waits(t)')
    BY <1>5, <2>1 DEF GraphPcs, LoopPcs, Inside, At, Waits
  <2>4. ASSUME NEW u \in Team PROVE (Waits(u) \/ At(u, "enter") => bar[u].n = n_graph.n)'
    BY <1>1, <1>3, <2>3 DEF PoolInv, Counted
  <2>5. ASSUME NEW u \in Team PROVE (pc[u] \in {"enter", "last", "open"} => bar[u].passed = n_barrier_passed)'
    BY <1>1, <1>3, <2>3 DEF PoolInv, Counted
  <2>6. \A u \in Team : At(u, "open")' <=> At(u, "open")
    BY <1>1, <1>3, <2>3
  <2>7. \A u \in Team : pc'[u] \in {"last", "open"} <=> pc[u] \in {"last", "open"}
    BY <1>1, <1>3, <2>3
  <2> QED BY <1>1, <2>2, <2>4, <2>5, <2>6, <2>7 DEF PoolInv, Counted
<1> QED BY <1>7, <1>8, <1>9, <1>10, <1>11 DEF PoolInv, Places

\* A worker of the team takes note of the graph.
LEMMA JoinStep ==
  ASSUME Types, PoolInv, NEW t \in Workers, Only(t), t \in Team, ~Current(t),
         pc[t] \in LoopPcs, pc'[t] = "start", Current(t)',
         UNCHANGED <<cgraph, n_graph, n_barrier, n_barrier_passed, abort>>,
         \A u \in Workers \ {t} : last_graph'[u] = last_graph[u]
  PROVE  PoolInv'
<1>1. Team' = Team /\ Team \subseteq Threads /\ 0 \in Threads /\ \A u \in Workers : u \in Threads /\ u # 0
  BY TeamIs, Zero DEF Team
<1>2. \A u \in Threads \ {t} : Current(u)' <=> Current(u)
  BY Zero DEF Current
<1>3. \A u \in Threads \ {t} : /\ Same(u) /\ pc'[u] = pc[u] /\ bar'[u] = bar[u]
                               /\ Released(u)' <=> Released(u)
                               /\ Waits(u)' <=> Waits(u)
                               /\ Member(u)' <=> Member(u)
                               /\ Dest(u)' = Dest(u)
                               /\ NodeBound(u)' <=> NodeBound(u)
                               /\ \A p : At(u, p)' <=> At(u, p)
  BY <1>2, Frame DEF Only, Same, At
<1>4. AtWork
  BY DEF PoolInv, Places, PlaceOf
<1>5. AtWork'
  BY <1>1, <1>3, <1>4 DEF AtWork
<1>6. StopAt' = StopAt
  BY DEF StopAt
<1>7. LeadPlace'
  BY <1>1, <1>3, <1>4, <1>5 DEF LeadPlace, PoolInv, Places, Same
<1>8. ASSUME NEW u \in Workers PROVE PlaceOf(u)'
  <2>1. CASE u = t
    BY <1>1, <1>5, <2>1 DEF PlaceOf, At, Inside, GraphPcs
  <2>2. CASE u # t
    BY <1>1, <1>2, <1>3, <1>4, <1>5, <2>2 DEF PlaceOf, PoolInv, Places
  <2> QED BY <2>1, <2>2
<1>9. Bounds'
  <2>1. ASSUME NEW u \in Team, Member(u)' PROVE NodeBound(u)'
    <3>1. u # t
      BY <2>1 DEF Member
    <3> QED BY <1>1, <1>3, <1>4, <2>1, <3>1 DEF PoolInv, Bounds
  <2>2. Cut' <=> Cut
    BY DEF Cut
  <2>3. LeadBound' <=> LeadBound
    BY <1>1, <1>3 DEF LeadBound, Same
  <2> QED BY <1>1, <1>4, <2>1, <2>2, <2>3 DEF PoolInv, Bounds
<1>10. Aligned'
  <2>1. ASSUME NEW u \in Team PROVE Dest(u)' = Dest(u)
    <3>1. CASE u = t
      BY <1>6, <3>1 DEF Dest, At, BarPcs
    <3>2. CASE u # t
      BY <1>1, <1>3, <3>2
    <3> QED BY <3>1, <3>2
  <2>2. 0 \in Team
    BY <1>4 DEF PoolInv, Places, LeadPlace
  <2> QED BY <1>1, <1>4, <2>1, <2>2 DEF PoolInv, Aligned
<1>11. Counted'
  <2>1. ~Waits(t)' /\ ~Waits(t)
    BY DEF Waits, At
  <2>2. Waiters' = Waiters
    BY <1>1, <1>3, <2>1 DEF Waiters
  <2>3. pc'[t] \notin {"enter", "last", "open"} /\ pc[t] \notin {"enter", "last", "open"}
        /\ ~At(t, "enter")' /\ ~At(t, "open")' /\ ~At(t, "open")
    BY DEF LoopPcs, At
  <2>4. ASSUME NEW u \in Team PROVE (Waits(u) \/ At(u, "enter") => bar[u].n = n_graph.n)'
    BY <1>1, <1>3, <1>4, <2>1, <2>3 DEF PoolInv, Counted
  <2>5. ASSUME NEW u \in Team PROVE (pc[u] \in {"enter", "last", "open"} => bar[u].passed = n_barrier_passed)'
    BY <1>1, <1>3, <1>4, <2>3 DEF PoolInv, Counted
  <2>6. \A u \in Team : At(u, "open")' <=> At(u, "open")
    BY <1>1, <1>3, <2>3
  <2>7. \A u \in Team : pc'[u] \in {"last", "open"} <=> pc[u] \in {"last", "open"}
    BY <1>1, <1>3, <2>3
  <2> QED BY <1>1, <1>4, <2>2, <2>4, <2>5, <2>6, <2>7 DEF PoolInv, Counted
<1> QED BY <1>7, <1>8, <1>9, <1>10, <1>11 DEF PoolInv, Places

-----------------------------------------------------------------------------
(* Steps of the caller.                                                     *)

\* No graph is at work: every worker has left the last one.
LEMMA Idle ==
  ASSUME Types, Places, ~AtWork, NEW t \in Workers
  PROVE  pc[t] \notin Inside /\ (At(t, "spin") => bar[t].then = "end")
BY DEF Places, PlaceOf

LEMMA CallerPool ==
  ASSUME Types, PoolInv, Caller
  PROVE  PoolInv'
<1>1. DOMAIN pc = Threads /\ 0 \in Threads /\ \A u \in Workers : u \in Threads /\ u # 0
  BY Zero DEF Types, PcTypes
<1>2. ASSUME NEW p, Goto(0, p) PROVE pc'[0] = p /\ \A u \in Workers : pc'[u] = pc[u]
  BY <1>1, <1>2 DEF Goto
\* between two graphs
<1>3. ASSUME pc[0] \in {"idle", "kick", "join"}, pc'[0] \in {"idle", "kick", "join", "freed"},
             \A u \in Workers : pc'[u] = pc[u],
             UNCHANGED <<n_graph, barrier, bar, last_graph>>,
             At(0, "kick")' => run'[0].nth \in 1..N /\ run'[0].graph = cgraph' /\ cgraph' \in Graphs
                               /\ abort' = -1
      PROVE  PoolInv'
  <2>1. ~AtWork /\ ~AtWork'
    BY <1>3 DEF AtWork, At, Inside
  <2>2. LeadPlace'
    BY <1>3, <2>1 DEF LeadPlace, PoolInv, Places, GraphPcs, Inside, At, barrier
  <2>3. ASSUME NEW u \in Workers PROVE PlaceOf(u)'
    <3>1. pc'[u] = pc[u] /\ (Current(u)' <=> Current(u)) /\ Team' = Team
          /\ (Released(u)' <=> Released(u)) /\ (At(u, "spin")' <=> At(u, "spin"))
      BY <1>3 DEF Current, Team, Released, At, barrier
    <3> QED BY <1>3, <2>1, <3>1 DEF PoolInv, Places, PlaceOf
  <2> QED BY <2>1, <2>2, <2>3 DEF PoolInv, Places, Bounds, Aligned, Counted
<1>4. ASSUME NEW g \in Graphs, NEW n_threads \in 1..MaxThreads, Compute(g, n_threads)
      PROVE  PoolInv'
  <2>1. pc[0] = "idle" /\ pc'[0] = "kick" /\ \A u \in Workers : pc'[u] = pc[u]
    BY <1>2, <1>4 DEF Compute, At
  <2>2. run'[0] = [graph |-> g, nth |-> IF n_threads > N THEN N ELSE n_threads]
    BY <1>1, <1>4 DEF Compute, Types, LocalTypes
  <2>3. run'[0].nth \in 1..N /\ run'[0].graph = g
    BY <2>2, PoolAssumption
  <2> QED BY <1>3, <1>4, <2>1, <2>3 DEF Compute, control, barrier
<1>5. CASE Join
  <2>1. pc[0] = "join" /\ pc'[0] = "freed" /\ \A u \in Workers : pc'[u] = pc[u]
    BY <1>2, <1>5 DEF Join, At
  <2> QED BY <1>3, <1>5, <2>1 DEF Join, control, barrier, locals, At
<1>6. CASE Free
  <2>1. pc[0] = "idle" /\ pc'[0] = "join" /\ \A u \in Workers : pc'[u] = pc[u]
    BY <1>2, <1>6 DEF Free, At
  <2> QED BY <1>3, <1>6, <2>1 DEF Free, barrier, locals, At
<1>7. CASE \E p \in BOOLEAN : SetPause(p)
  <2>1. pc[0] = "idle" /\ pc' = pc
    BY <1>7 DEF SetPause, At
  <2> QED BY <1>3, <1>7, <2>1 DEF SetPause, barrier, locals, At
<1>8. CASE Kickoff
  <2> USE <1>8 DEF Kickoff
  <2>1. pc[0] = "kick" /\ pc'[0] = "wake" /\ \A u \in Workers : pc'[u] = pc[u]
    BY <1>2 DEF At
  <2>2. ~AtWork /\ AtWork'
    BY <2>1 DEF AtWork, At, Inside
  <2>3. run[0].nth \in 1..N /\ run[0].graph = cgraph /\ cgraph \in Graphs /\ abort = -1 /\ n_barrier = 0
    BY <2>1, <2>2 DEF PoolInv, Places, LeadPlace, At
  <2>4. n_graph' = [count |-> kicked + 1, n |-> run[0].nth]
    BY <2>1, Small, PoolAssumption DEF Types, SharedTypes, Numbers, At
  <2>5. UNCHANGED <<cgraph, abort, n_barrier, n_barrier_passed, run, bar, node, last_graph>>
    BY DEF caller, barrier, locals
  <2>6. \A u \in Workers : ~Current(u)'
    <3>1. ASSUME NEW u \in Workers PROVE last_graph[u].count <= kicked /\ kicked \in Nat
      BY DEF Types, SeenTypes, SharedTypes
    <3> QED BY <1>1, <2>4, <2>5, <3>1 DEF Current
  <2>7. LeadPlace'
    BY <2>1, <2>2, <2>3, <2>4, <2>5, Zero DEF LeadPlace, Team, GraphPcs, Inside, At
  <2>8. ASSUME NEW u \in Workers PROVE PlaceOf(u)'
    BY <2>1, <2>2, <2>5, <2>6, Idle DEF PlaceOf, PoolInv, At
  <2>9. \A u \in Threads : ~Member(u)'
    BY <2>1, <2>6, Zero DEF Member, GraphPcs, Inside
  <2>10. Team' \subseteq Threads
    BY <2>3, <2>4, Zero DEF Team, Threads
  <2>11. Bounds'
    BY <2>1, <2>3, <2>5, <2>9, <2>10 DEF Bounds, Cut, LeadBound, BarPcs, At
  <2>12. \A u \in Threads : Dest(u)' = From(cgraph, StopAt', 0)
    <3>1. Dest(0)' = From(cgraph, StopAt', 0)
      BY <2>1, <2>5 DEF Dest, At, BarPcs
    <3>2. ASSUME NEW u \in Workers PROVE Dest(u)' = From(cgraph, StopAt', 0)
      BY <2>5, <2>6 DEF Dest
    <3> QED BY <3>1, <3>2, Zero
  <2>13. Aligned'
    BY <1>1, <2>10, <2>12 DEF Aligned
  <2>14. \A u \in Threads : ~Waits(u)' /\ pc'[u] \notin {"enter", "last", "open"}
         /\ ~At(u, "enter")' /\ ~At(u, "open")'
    <3>1. ~Waits(0)' /\ pc'[0] \notin {"enter", "last", "open"}
          /\ ~At(0, "enter")' /\ ~At(0, "open")'
      BY <2>1 DEF Waits, At
    <3>2. ASSUME NEW u \in Workers
          PROVE  ~Waits(u)' /\ pc'[u] \notin {"enter", "last", "open"}
                 /\ ~At(u, "enter")' /\ ~At(u, "open")'
      BY <2>1, <2>2, <2>6, Idle DEF Waits, PoolInv, Inside, At
    <3> QED BY <3>1, <3>2, Zero
  <2>15. Waiters' = {}
    BY <2>10, <2>14 DEF Waiters
  <2>16. Counted'
    BY <2>3, <2>5, <2>10, <2>14, <2>15, FS_EmptySet DEF Counted
  <2> QED BY <2>7, <2>8, <2>11, <2>13, <2>16 DEF PoolInv, Places
<1>9. CASE KickoffWake
  <2> USE <1>9 DEF KickoffWake
  <2>1. pc[0] = "wake" /\ pc'[0] = "start" /\ \A u \in Workers : pc'[u] = pc[u]
    BY <1>2 DEF At
  <2>2. AtWork /\ AtWork'
    BY <2>1 DEF AtWork, At, Inside
  <2>3. UNCHANGED <<cgraph, abort, n_graph, n_barrier, n_barrier_passed, run, bar, node, last_graph>>
    BY DEF caller, barrier, locals
  <2>4. Team' = Team /\ Team \subseteq Threads /\ 0 \in Team
    BY <2>2, <2>3, TeamIs DEF Team, PoolInv, Places, LeadPlace
  <2>5. \A u \in Workers : /\ Same(u) /\ pc'[u] = pc[u] /\ bar'[u] = bar[u]
                           /\ Current(u)' <=> Current(u)
                           /\ Released(u)' <=> Released(u)
                           /\ Waits(u)' <=> Waits(u)
                           /\ Member(u)' <=> Member(u)
                           /\ Dest(u)' = Dest(u)
                           /\ NodeBound(u)' <=> NodeBound(u)
                           /\ \A p : At(u, p)' <=> At(u, p)
    <3>1. ASSUME NEW u \in Workers PROVE (Current(u)' <=> Current(u)) /\ Same(u)
      BY <2>1, <2>3 DEF Current, Same
    <3> QED BY <1>1, <2>3, <3>1, Frame DEF Same, At
  <2>6. LeadPlace'
    BY <2>1, <2>2, <2>3, <2>4 DEF LeadPlace, PoolInv, Places, At
  <2>7. ASSUME NEW u \in Workers PROVE PlaceOf(u)'
    BY <2>2, <2>4, <2>5 DEF PlaceOf, PoolInv, Places
  <2>8. ~Member(0) /\ ~Member(0)' /\ ~Waits(0) /\ ~Waits(0)' /\ Dest(0)' = Dest(0)
    BY <2>1, <2>3 DEF Member, Waits, GraphPcs, Inside, At, Dest, BarPcs, StopAt
  <2>9. Bounds'
    <3>1. ASSUME NEW u \in Team, Member(u)' PROVE NodeBound(u)'
      BY <2>2, <2>4, <2>5, <2>8, <3>1, Zero DEF PoolInv, Bounds
    <3>2. Cut' <=> Cut
      BY <2>3 DEF Cut
    <3>3. LeadBound'
      BY <2>1, <2>2, <2>3 DEF LeadBound, PoolInv, Bounds, BarPcs, At
    <3> QED BY <2>2, <2>4, <3>1, <3>2, <3>3 DEF PoolInv, Bounds
  <2>10. Aligned'
    BY <2>2, <2>4, <2>5, <2>8, Zero DEF PoolInv, Aligned
  <2>11. Counted'
    <3>1. \A u \in Team : Waits(u)' <=> Waits(u)
      BY <2>4, <2>5, <2>8, Zero
    <3>2. Waiters' = Waiters
      BY <2>4, <3>1 DEF Waiters
    <3>3. \A u \in Team : pc'[u] = pc[u] \/ {pc[u], pc'[u]} \cap {"enter", "last", "open"} = {}
      BY <2>1, <2>4, Zero
    <3>4. \A u \in Team : bar'[u] = bar[u]
      BY <2>3
    <3> QED BY <2>2, <2>3, <2>4, <3>1, <3>2, <3>3, <3>4 DEF PoolInv, Counted, At
  <2> QED BY <2>6, <2>7, <2>9, <2>10, <2>11 DEF PoolInv, Places
<1> QED BY <1>4, <1>5, <1>6, <1>7, <1>8, <1>9 DEF Caller

LEMMA PoolKept ==
  ASSUME PoolInv,
         UNCHANGED <<cgraph, n_graph, n_barrier, n_barrier_passed, abort, run, node, bar, pc, last_graph>>
  PROVE  PoolInv'
<1>1. /\ Team' = Team /\ StopAt' = StopAt /\ (AtWork' <=> AtWork)
      /\ \A t : (Current(t)' <=> Current(t)) /\ (Released(t)' <=> Released(t))
  BY DEF Team, StopAt, AtWork, Current, Released, At
<1>2. \A t : /\ Dest(t)' = Dest(t) /\ (NodeBound(t)' <=> NodeBound(t))
             /\ (Waits(t)' <=> Waits(t)) /\ (Member(t)' <=> Member(t))
  BY <1>1 DEF Dest, NodeBound, Waits, Member, At
<1>3. Waiters' = Waiters
  BY <1>1, <1>2 DEF Waiters
<1>4. Places'
  BY <1>1 DEF PoolInv, Places, LeadPlace, PlaceOf, At
<1>5. Bounds'
  BY <1>1, <1>2 DEF PoolInv, Bounds, Cut, LeadBound, At
<1>6. Aligned'
  BY <1>1, <1>2 DEF PoolInv, Aligned
<1>7. Counted'
  BY <1>1, <1>2, <1>3 DEF PoolInv, Counted, At
<1> QED BY <1>4, <1>5, <1>6, <1>7 DEF PoolInv

LEMMA WorkerPool ==
  ASSUME Types, PoolInv, NEW t \in Workers, Worker(t) \/ Spurious(t)
  PROVE  PoolInv'
<1>1. DOMAIN pc = Threads /\ t \in Threads /\ t # 0 /\ last_graph \in [Workers -> Numbers]
  BY Zero DEF Types, PcTypes, SeenTypes
<1>2. UNCHANGED <<cgraph, n_graph, n_barrier, n_barrier_passed, abort, run, node, bar>>
  BY DEF Worker, Spurious, Loop, Running, Poll, Look, PauseLock, CheckLock, Locked, Paused,
         PauseWoken, Check, Quiet, caller, control, barrier, locals
<1>3. (\E p : Goto(t, p)) \/ UNCHANGED pc
  BY DEF Worker, Spurious, Loop, Running, Poll, Look, PauseLock, CheckLock, Locked, Paused,
         PauseWoken, Check, CondWait, Unlock, SeesGraph
<1>4. \A u \in Threads \ {t} : pc'[u] = pc[u]
  BY <1>1, <1>3 DEF Goto
<1>5. Only(t)
  BY <1>2, <1>4 DEF Only, Same
<1>6. CASE SeesGraph(t, "check_lock") \/ SeesGraph(t, "loop")
  <2>1. n_graph # last_graph[t] /\ last_graph' = [last_graph EXCEPT ![t] = n_graph]
    BY <1>6 DEF SeesGraph
  <2>2. ~Current(t) /\ Current(t)' /\ last_graph' # last_graph /\ \A u \in Workers \ {t} : last_graph'[u] = last_graph[u]
    BY <1>1, <1>2, <2>1 DEF Current
  <2>3. pc[t] \in LoopPcs
    <3>1. ~Spurious(t)
      BY <2>2 DEF Spurious
    <3> QED BY <3>1 DEF Worker, Loop, Running, Poll, Look, PauseLock, CheckLock, Locked, Paused,
               PauseWoken, Check, At, LoopPcs
  <2>4. CASE t < n_graph.n
    <3>1. t \in Team
      BY <2>4, ThreadTypes, Zero DEF Team, Workers
    <3>2. pc'[t] = "start"
      BY <1>1, <1>6, <2>4 DEF SeesGraph, Goto
    <3> QED BY <1>2, <1>5, <2>2, <2>3, <3>1, <3>2, JoinStep
  <2>5. CASE ~(t < n_graph.n)
    <3>1. t \notin Team
      BY <2>5, ThreadTypes, Zero DEF Team, Workers
    <3>2. pc'[t] \in LoopPcs
      BY <1>1, <1>6, <2>5 DEF SeesGraph, Goto, LoopPcs
    <3> QED BY <1>2, <1>5, <2>2, <2>3, <3>1, <3>2, OutsideStep
  <2> QED BY <2>4, <2>5
<1>7. CASE ~(SeesGraph(t, "check_lock") \/ SeesGraph(t, "loop")) /\ pc' # pc
  <2>1. UNCHANGED last_graph
    BY <1>7 DEF Worker, Spurious, Loop, Running, Poll, Look, PauseLock, CheckLock, Locked, Paused,
                PauseWoken, Check, Quiet
  <2>2. pc[t] \in LoopPcs
    BY <1>7 DEF Worker, Spurious, Loop, Running, Poll, Look, PauseLock, CheckLock, Locked, Paused,
                PauseWoken, Check, At, LoopPcs
  <2>3. \E p \in LoopPcs : Goto(t, p)
    BY <1>7 DEF Worker, Spurious, Loop, Running, Poll, Look, PauseLock, CheckLock, Locked, Paused,
                PauseWoken, Check, CondWait, Unlock, LoopPcs
  <2>4. pc'[t] \in LoopPcs
    BY <1>1, <2>3 DEF Goto
  <2>5. pc[t] \notin GraphPcs
    BY <2>2 DEF LoopPcs, GraphPcs, Inside
  <2>6. Current(t)' <=> Current(t)
    BY <1>2, <2>1 DEF Current
  <2>7. /\ t \in Team /\ AtWork => ~Current(t) /\ ~Current(t)'
        /\ t \in Team /\ ~AtWork => Current(t)'
    BY <2>5, <2>6 DEF PoolInv, Places, PlaceOf
  <2> QED BY <1>2, <1>5, <2>1, <2>2, <2>4, <2>7, OutsideStep
<1>8. CASE ~(SeesGraph(t, "check_lock") \/ SeesGraph(t, "loop")) /\ pc' = pc
  <2>1. UNCHANGED last_graph
    BY <1>8 DEF Worker, Spurious, Loop, Running, Poll, Look, PauseLock, CheckLock, Locked, Paused,
                PauseWoken, Check, Quiet
  <2> QED BY <1>2, <1>8, <2>1, PoolKept
<1> QED BY <1>6, <1>7, <1>8

-----------------------------------------------------------------------------
(* Steps in the graph.                                                      *)

\* Who takes such a step.
LEMMA Inner ==
  ASSUME Types, PoolInv, NEW t \in Threads, pc[t] \in Inside
  PROVE  /\ AtWork /\ t \in Team /\ Current(t) /\ pc[t] \in GraphPcs
         /\ pc[t] # "start" => Member(t) /\ NodeBound(t)
         /\ cgraph \in Graphs /\ run[0].graph = cgraph /\ run[0].nth = n_graph.n
<1>1. AtWork
  BY Zero DEF PoolInv, Places, PlaceOf, AtWork
<1>2. t \in Team /\ Current(t)
  BY <1>1, Zero DEF PoolInv, Places, PlaceOf, LeadPlace, Current
<1>3. pc[t] \in GraphPcs
  BY DEF GraphPcs
<1>4. pc[t] # "start" => Member(t) /\ NodeBound(t)
  BY <1>1, <1>2, <1>3 DEF Member, PoolInv, Bounds
<1>5. pc[0] \in {"wake"} \cup GraphPcs
  BY <1>1 DEF AtWork, At, GraphPcs
<1> QED BY <1>1, <1>2, <1>3, <1>4, <1>5 DEF PoolInv, Places, LeadPlace

\* The steps that leave the abort alone.
LEMMA Onward ==
  ASSUME Types, PoolInv, NEW t \in Threads, NEW p \in Inside \ {"last", "open"}, Goto(t, p),
         AtWork, t \in Team, Current(t), pc[t] \in GraphPcs, ~Waits(t), ~At(t, "enter"),
         UNCHANGED <<cgraph, abort, n_graph, n_barrier, n_barrier_passed, last_graph>>,
         \A u \in Threads \ {t} :
             node'[u] = node[u] /\ bar'[u] = bar[u] /\ run'[u] = run[u],
         run'[0] = run[0],
         p = "enter" => bar'[t].n = n_graph.n /\ bar'[t].passed = n_barrier_passed,
         Dest(t)' = Dest(t) \/ Team = {t},
         t = 0 => LeadBound',
         NodeBound(t)'
  PROVE  PoolInv'
<1>1. pc'[t] = p /\ \A u \in Threads \ {t} : pc'[u] = pc[u]
  BY ThreadTypes DEF Goto
<1>2. Only(t)
  BY <1>1 DEF Only, Same
<1>3. Team \subseteq Threads
  BY TeamIs
<1>4. ASSUME NEW u \in Team \ {t}
      PROVE  Dest(u)' = Dest(u) /\ (Member(u) /\ NodeBound(u) => NodeBound(u)')
  <2>1. u \in Threads /\ Same(u) /\ (Current(u)' <=> Current(u))
    BY <1>2, <1>3 DEF Only, Current
  <2> QED BY <2>1, Frame
<1>5. Cut' /\ LeadBound'
  <2>1. Cut /\ LeadBound
    BY DEF PoolInv, Bounds
  <2>2. t # 0 => Same(0)
    BY <1>2, Zero DEF Only
  <2> QED BY <2>1, <2>2 DEF Cut, LeadBound, Same, At
<1> QED BY <1>1, <1>2, <1>4, <1>5, InnerStep DEF At

LEMMA StopIs ==
  ASSUME Types, PoolInv, AtWork
  PROVE  /\ Cut /\ LeadBound
         /\ StopAt \in 0..Len(cgraph)
         /\ \A n \in Nat : n < StopAt => n < Len(cgraph)
                                      /\ Own(cgraph, n) \in Nat
                                      /\ Own(cgraph, n) < StopAt
                                      /\ Kind(cgraph, Own(cgraph, n)) # "fused"
<1>1. Cut /\ LeadBound
  BY DEF PoolInv, Bounds
<1>2. Len(cgraph) \in Nat /\ cgraph \in Graphs \cup {<<>>} /\ abort \in Int
  BY ThreadTypes, Zero
<1>3. StopAt \in 0..Len(cgraph)
  BY <1>1, <1>2 DEF StopAt, Cut
<1>4. ASSUME NEW n \in Nat, n < StopAt
      PROVE  /\ n < Len(cgraph) /\ Own(cgraph, n) \in Nat /\ Own(cgraph, n) < StopAt
             /\ Kind(cgraph, Own(cgraph, n)) # "fused"
  <2>1. n \in 0..Len(cgraph) - 1
    BY <1>2, <1>3, <1>4
  <2>2. Kind(cgraph, n) = "fused" => n + 1 < Len(cgraph) /\ Kind(cgraph, n + 1) = "op"
    BY <1>2, <2>1, GraphsAre
  <2>3. Kind(cgraph, n) = "fused" => n + 1 < StopAt
    BY <1>1, <1>2, <1>3, <1>4, <2>2 DEF StopAt, Cut
  <2> QED BY <2>1, <2>2, <2>3, <1>4 DEF Own
<1> QED BY <1>1, <1>3, <1>4

LEMMA StartPool ==
  ASSUME Types, PoolInv, NEW t \in Threads, Start(t)
  PROVE  PoolInv' /\ Dest(t)' = Dest(t)
<1> USE DEF Start, Computing, control, lock, barrier
<1>1. pc[t] = "start" /\ pc[t] \in Inside
  BY DEF At, Inside
<1>2. /\ AtWork /\ t \in Team /\ Current(t) /\ pc[t] \in GraphPcs
      /\ run[0].graph = cgraph /\ run[0].nth = n_graph.n
  BY <1>1, Inner
<1>3. pc'[t] = "node" /\ node'[t] = 0 /\ run'[t] = [graph |-> cgraph, nth |-> n_graph.n]
  BY ThreadTypes DEF Goto, Types, LocalTypes
<1>4. run'[0] = run[0]
  <2>1. run[0] \in Runs /\ run \in [Threads -> Runs]
    BY Zero DEF Types, LocalTypes
  <2>2. run[0] = [graph |-> cgraph, nth |-> n_graph.n]
    BY <1>2, <2>1 DEF Runs
  <2> QED BY <1>3, <2>1, <2>2, Zero
<1>5. StopAt' = StopAt /\ StopAt \in Nat /\ abort \in Int /\ Current(t)'
  BY <1>2, StopIs, ThreadTypes DEF StopAt, Current
<1>6. Dest(t) = From(cgraph, StopAt, 0)
  BY <1>1 DEF Dest, At, BarPcs
<1>7. Dest(t)' = From(cgraph, StopAt, 0)
  BY <1>3, <1>5 DEF Dest, At, BarPcs
<1>8. NodeBound(t)'
  BY <1>3, <1>5 DEF NodeBound, At, BarPcs
<1>9. t = 0 => LeadBound'
  BY <1>1, <1>2, <1>3, StopIs DEF LeadBound, At, BarPcs
<1>10. ~Waits(t) /\ ~At(t, "enter")
  BY <1>1 DEF Waits, At
<1>11. \A u \in Threads \ {t} : node'[u] = node[u] /\ bar'[u] = bar[u] /\ run'[u] = run[u]
  BY DEF Types, LocalTypes
<1> QED BY <1>2, <1>4, <1>6, <1>7, <1>8, <1>9, <1>10, <1>11, Onward DEF Inside

LEMMA NodePool ==
  ASSUME Types, PoolInv, NEW t \in Threads, Node(t)
  PROVE  PoolInv' /\ Dest(t)' = Dest(t)
<1> USE DEF Node, Computing, control, lock, barrier
<1>1. pc[t] = "node" /\ pc[t] \in Inside
  BY DEF At, Inside
<1>2. /\ AtWork /\ t \in Team /\ Current(t) /\ pc[t] \in GraphPcs /\ NodeBound(t)
      /\ run[t].graph = cgraph /\ run[t].nth = n_graph.n
  BY <1>1, Inner DEF NodeBound
<1>3. StopAt' = StopAt /\ StopAt \in 0..Len(cgraph) /\ Cut /\ LeadBound
      /\ node[t] \in Nat /\ node[t] <= StopAt
      /\ cgraph \in Graphs \cup {<<>>} /\ Len(cgraph) \in Nat /\ abort \in Int
      /\ (Current(t)' <=> Current(t))
  BY <1>1, <1>2, StopIs, ThreadTypes DEF StopAt, NodeBound, At, Current
<1>4. Dest(t) = From(cgraph, StopAt, node[t])
  BY <1>1, <1>2 DEF Dest, At, BarPcs
<1>5. ~Waits(t) /\ ~At(t, "enter")
  BY <1>1 DEF Waits, At
<1>6. CASE /\ node[t] >= Len(cgraph) \/ abort = node[t]
           /\ CallBarrier(t, "end") /\ UNCHANGED node
  <2>1. pc'[t] = "arrive" /\ bar'[t].then = "end" /\ node'[t] = node[t] /\ run'[t] = run[t]
    BY <1>6, ThreadTypes DEF CallBarrier, Goto, Types, LocalTypes, Bars
  <2>2. node[t] >= StopAt
    BY <1>3, <1>6 DEF StopAt
  <2>3. Dest(t) = End
    BY <1>3, <1>4, <2>2, FromIs
  <2>4. Dest(t)' = End
    BY <1>2, <1>3, <2>1 DEF Dest, At, BarPcs, Released
  <2>5. NodeBound(t)'
    BY <1>2, <2>1 DEF NodeBound, At, BarPcs
  <2>6. t = 0 => LeadBound'
    BY <2>1 DEF LeadBound, At
  <2>7. \A u \in Threads \ {t} : node'[u] = node[u] /\ bar'[u] = bar[u] /\ run'[u] = run[u]
    BY <1>6 DEF CallBarrier, Types, LocalTypes
  <2>8. Goto(t, "arrive")
    BY <1>6 DEF CallBarrier
  <2> QED BY <1>2, <1>5, <2>3, <2>4, <2>5, <2>6, <2>7, <2>8, Onward DEF Inside
<1>7. CASE /\ node[t] < Len(cgraph) /\ abort # node[t] /\ UNCHANGED bar
           /\ LET k == Kind(cgraph, node[t]) IN
              /\ Goto(t, Entry(k))
              /\ node' = [node EXCEPT ![t] = IF k = "empty" THEN @ + 1 ELSE @]
  <2> DEFINE k == Kind(cgraph, node[t])
  <2>1. node[t] < StopAt
    BY <1>3, <1>7 DEF StopAt
  <2>2. t = 0 => abort = -1
    BY <1>1, <1>3, <1>7 DEF LeadBound, At
  <2>3. \A u \in Threads \ {t} : node'[u] = node[u] /\ bar'[u] = bar[u] /\ run'[u] = run[u]
    BY <1>7 DEF Types, LocalTypes
  <2>4. run'[t] = run[t] /\ bar'[t] = bar[t] /\ pc'[t] = Entry(k)
    BY <1>7, ThreadTypes DEF Goto
  <2>5. node'[t] = IF k = "empty" THEN node[t] + 1 ELSE node[t]
    BY <1>7 DEF Types, LocalTypes
  <2>6. k \in Kinds
    BY <1>3, <1>7, GraphsAre
  <2>7. CASE k = "empty"
    <3>1. pc'[t] = "node" /\ node'[t] = node[t] + 1
      BY <2>4, <2>5, <2>7 DEF Entry
    <3>2. Dest(t)' = From(cgraph, StopAt, node[t] + 1)
      BY <1>2, <1>3, <3>1 DEF Dest, At, BarPcs
    <3>3. Dest(t)' = Dest(t)
      BY <1>3, <1>4, <1>7, <2>7, <3>2, FromIs
    <3>4. NodeBound(t)'
      BY <1>2, <1>3, <2>1, <2>4, <3>1 DEF NodeBound, At, BarPcs
    <3>5. t = 0 => LeadBound'
      BY <2>2, <3>1 DEF LeadBound, At, BarPcs
    <3>6. Goto(t, "node")
      BY <1>7, <2>7 DEF Entry
    <3> QED BY <1>2, <1>5, <2>3, <2>4, <3>3, <3>4, <3>5, <3>6, Onward, Zero DEF Inside
  <2>8. CASE k = "matmul"
    <3>1. pc'[t] = "convert" /\ node'[t] = node[t]
      BY <2>4, <2>5, <2>8 DEF Entry
    <3>2. Dest(t)' = <<"chunk", node[t]>>
      BY <1>2, <1>3, <3>1 DEF Dest, At, BarPcs
    <3>3. Dest(t)' = Dest(t)
      BY <1>3, <1>4, <2>1, <2>8, <3>2, FromIs
    <3>4. NodeBound(t)'
      BY <1>2, <1>3, <2>1, <2>4, <2>8, <3>1 DEF NodeBound, At, BarPcs
    <3>5. t = 0 => LeadBound'
      BY <2>2, <3>1 DEF LeadBound, At, BarPcs
    <3>6. Goto(t, "convert")
      BY <1>7, <2>8 DEF Entry
    <3> QED BY <1>2, <1>5, <2>3, <2>4, <3>3, <3>4, <3>5, <3>6, Onward, Zero DEF Inside
  <2>9. CASE k \notin {"empty", "matmul"}
    <3>1. pc'[t] = "part" /\ node'[t] = node[t]
      BY <2>4, <2>5, <2>9 DEF Entry
    <3>2. Dest(t)' = After(cgraph, Own(cgraph, node[t]))
      BY <1>2, <1>3, <3>1 DEF Dest, At, BarPcs
    <3>3. Dest(t)' = Dest(t)
      BY <1>3, <1>4, <2>1, <2>9, <3>2, FromIs
    <3>4. NodeBound(t)'
      BY <1>2, <1>3, <2>1, <2>4, <3>1 DEF NodeBound, At, BarPcs
    <3>5. t = 0 => LeadBound'
      BY <2>2, <3>1 DEF LeadBound, At, BarPcs
    <3>6. Goto(t, "part")
      BY <1>7, <2>9 DEF Entry
    <3> QED BY <1>2, <1>5, <2>3, <2>4, <3>3, <3>4, <3>5, <3>6, Onward, Zero DEF Inside
  <2> QED BY <2>7, <2>8, <2>9
<1> QED BY <1>2, <1>6, <1>7

LEMMA WorkPool ==
  ASSUME Types, PoolInv, NEW t \in Threads, Part(t) \/ Convert(t) \/ Chunk(t) \/ Fetch(t)
  PROVE  PoolInv' /\ Dest(t)' = Dest(t)
<1> USE DEF Computing, control, lock, barrier, locals
<1>1. pc[t] \in {"part", "convert", "chunk", "fetch"} /\ pc[t] \in Inside
  BY DEF Part, Convert, Chunk, Fetch, At, Inside
<1>2. /\ AtWork /\ t \in Team /\ Current(t) /\ pc[t] \in GraphPcs /\ NodeBound(t)
      /\ run[t].graph = cgraph /\ run[t].nth = n_graph.n
  BY <1>1, Inner DEF NodeBound
<1>3. UNCHANGED <<cgraph, abort, n_graph, n_barrier, n_barrier_passed, last_graph, run>>
  BY DEF Part, Convert, Chunk, Fetch
<1>4. StopAt' = StopAt /\ StopAt \in 0..Len(cgraph) /\ LeadBound /\ node[t] \in Nat
      /\ node[t] < StopAt /\ (Current(t)' <=> Current(t))
  BY <1>1, <1>2, <1>3, StopIs, ThreadTypes DEF StopAt, NodeBound, At, Current
<1>5. ~Waits(t) /\ ~At(t, "enter") /\ (t = 0 => abort = -1)
  BY <1>1, <1>4 DEF Waits, At, LeadBound
<1>6. \A u \in Threads \ {t} : node'[u] = node[u] /\ bar'[u] = bar[u] /\ run'[u] = run[u]
  BY <1>3 DEF Part, Convert, Chunk, Fetch, CallBarrier, Types, LocalTypes
<1>7. CASE Part(t)
  <2>1. pc'[t] = "callback" /\ Goto(t, "callback") /\ bar'[t] = bar[t] /\ pc[t] = "part"
    BY <1>7, ThreadTypes DEF Part, Goto, At
  <2>2. node'[t] = Own(cgraph, node[t])
    BY <1>2, <1>7 DEF Part, Own, Types, LocalTypes
  <2>3. Own(cgraph, node[t]) < StopAt /\ Kind(cgraph, Own(cgraph, node[t])) # "fused"
    BY <1>2, <1>4, StopIs
  <2>4. Dest(t)' = After(cgraph, Own(cgraph, node[t])) /\ Dest(t) = After(cgraph, Own(cgraph, node[t]))
    BY <1>2, <1>3, <1>4, <2>1, <2>2 DEF Dest, At, BarPcs
  <2>5. NodeBound(t)'
    BY <1>2, <1>3, <1>4, <2>1, <2>2, <2>3 DEF NodeBound, At, BarPcs
  <2>6. t = 0 => LeadBound'
    BY <1>3, <1>5, <2>1 DEF LeadBound, At, BarPcs
  <2> QED BY <1>2, <1>3, <1>5, <1>6, <2>1, <2>4, <2>5, <2>6, Onward, Zero DEF Inside
<1>8. CASE Convert(t)
  <2>1. pc'[t] = "arrive" /\ Goto(t, "arrive") /\ bar'[t].then = "chunk" /\ pc[t] = "convert"
        /\ node'[t] = node[t]
    BY <1>8, ThreadTypes DEF Convert, CallBarrier, Goto, At, Types, LocalTypes, Bars
  <2>2. Dest(t)' = <<"chunk", node[t]>> /\ Dest(t) = <<"chunk", node[t]>>
    BY <1>2, <1>3, <1>4, <2>1 DEF Dest, At, BarPcs, Released
  <2>3. NodeBound(t)'
    BY <1>2, <1>3, <1>4, <2>1 DEF NodeBound, At, BarPcs
  <2>4. t = 0 => LeadBound'
    BY <1>3, <1>5, <2>1 DEF LeadBound, At, BarPcs
  <2> QED BY <1>2, <1>3, <1>5, <1>6, <2>1, <2>2, <2>3, <2>4, Onward, Zero DEF Inside
<1>9. CASE Chunk(t) \/ Fetch(t)
  <2>1. PICK p \in {"chunk", "fetch", "callback"} : Goto(t, p)
    BY <1>9 DEF Chunk, Fetch
  <2>2. pc'[t] = p /\ bar'[t] = bar[t] /\ node'[t] = node[t] /\ pc[t] \in {"chunk", "fetch"}
    BY <1>9, <2>1, ThreadTypes DEF Chunk, Fetch, Goto, At
  <2>3. Dest(t)' = After(cgraph, node[t]) /\ Dest(t) = After(cgraph, node[t])
    BY <1>2, <1>3, <1>4, <2>2 DEF Dest, At, BarPcs
  <2>4. NodeBound(t)'
    BY <1>2, <1>3, <1>4, <2>2 DEF NodeBound, At, BarPcs
  <2>5. t = 0 => LeadBound'
    BY <1>3, <1>5, <2>2 DEF LeadBound, At, BarPcs
  <2>6. p \in Inside \ {"last", "open"} /\ p # "enter"
    BY DEF Inside
  <2> QED BY <1>2, <1>3, <1>5, <1>6, <2>1, <2>3, <2>4, <2>5, <2>6, Onward, Zero
<1> QED BY <1>7, <1>8, <1>9

\* Thread 0 cuts the graph off behind its node: no thread of the team has gone
\* further, and none has another barrier to come to.
LEMMA CutKeeps ==
  ASSUME Types, PoolInv, AtWork, NEW m \in Nat, m < Len(cgraph), Dest(0) = After(cgraph, m),
         abort = -1, abort' = m + 1,
         NEW u \in Team \ {0}, Same(u), UNCHANGED <<cgraph, n_graph, n_barrier_passed, last_graph>>
  PROVE  /\ Dest(u)' = Dest(u)
         /\ Member(u) /\ NodeBound(u) => NodeBound(u)'
<1>1. u \in Threads /\ u \in Workers /\ cgraph \in Graphs \cup {<<>>} /\ Len(cgraph) \in Nat
      /\ node[u] \in Nat /\ bar[u].then \in {"end", "next", "chunk"}
      /\ pc[u] \in GraphPcs \cup LoopPcs
  BY TeamIs, ThreadTypes, Zero
<1>2. Dest(u) = After(cgraph, m) /\ Dest(u) = Dest(0)
  BY <1>1 DEF PoolInv, Aligned
<1>3. StopAt = Len(cgraph) /\ StopAt' = m + 1
  BY DEF StopAt
<1>4. (Current(u)' <=> Current(u)) /\ (Released(u)' <=> Released(u)) /\ \A p : At(u, p)' <=> At(u, p)
  BY DEF Current, Same, Released, At
<1>5. \A n \in Nat : From(cgraph, StopAt, n) = After(cgraph, m) =>
          From(cgraph, StopAt', n) = After(cgraph, m) /\ (m + 1 < Len(cgraph) => n <= m)
  BY <1>1, <1>3, FromCut
<1>6. node[u] + 1 \in Nat /\ 0 \in Nat
  BY <1>1
<1>7. ~(At(u, "spin") /\ Current(u) /\ Released(u) /\ bar[u].then = "end")
  BY <1>1 DEF PoolInv, Places, PlaceOf
<1>8. CASE ~Current(u) \/ pc[u] \in {"wake", "start"}
  <2>1. Dest(u) = From(cgraph, StopAt, 0)
    BY <1>8 DEF Dest, At, BarPcs
  <2>2. Dest(u)' = From(cgraph, StopAt', 0)
    BY <1>4, <1>8 DEF Dest, At, BarPcs, Same
  <2>3. ~Member(u)
    BY <1>8 DEF Member, GraphPcs, Inside
  <2> QED BY <1>2, <1>5, <1>6, <2>1, <2>2, <2>3
<1> DEFINE C == Current(u) /\ pc[u] \notin {"wake", "start"}
<1>9. CASE C /\ pc[u] = "node"
  <2>1. Dest(u) = From(cgraph, StopAt, node[u])
    BY <1>9 DEF Dest, At, BarPcs
  <2>2. Dest(u)' = From(cgraph, StopAt', node[u])
    BY <1>4, <1>9 DEF Dest, At, BarPcs, Same
  <2>3. Dest(u)' = Dest(u) /\ (m + 1 < Len(cgraph) => node[u] <= m)
    BY <1>1, <1>2, <1>5, <2>1, <2>2
  <2> QED BY <1>1, <1>3, <1>9, <2>3 DEF NodeBound, Same, At, BarPcs
<1>10. CASE C /\ pc[u] = "part"
  <2>1. Dest(u) = After(cgraph, Own(cgraph, node[u])) /\ Dest(u)' = Dest(u)
    BY <1>4, <1>10 DEF Dest, At, BarPcs, Same
  <2>2. m + 1 < Len(cgraph) => Own(cgraph, node[u]) = m
    BY <1>1, <1>2, <2>1 DEF After, End, Own
  <2>3. m + 1 < Len(cgraph) => node[u] <= m
    BY <1>1, <2>2 DEF Own
  <2> QED BY <1>1, <1>3, <1>10, <2>1, <2>3 DEF NodeBound, Same, At, BarPcs
<1>11. CASE C /\ pc[u] = "convert"
  <2>1. Dest(u) = <<"chunk", node[u]>>
    BY <1>11 DEF Dest, At, BarPcs
  <2>2. FALSE
    BY <1>1, <1>2, <2>1 DEF After, End
  <2> QED BY <2>2
<1>12. CASE C /\ pc[u] \in {"chunk", "fetch", "callback"}
  <2>1. Dest(u) = After(cgraph, node[u]) /\ Dest(u)' = Dest(u)
    BY <1>4, <1>12 DEF Dest, At, BarPcs, Same
  <2>2. m + 1 < Len(cgraph) => node[u] = m
    BY <1>1, <1>2, <2>1 DEF After, End
  <2> QED BY <1>1, <1>3, <1>12, <2>1, <2>2 DEF NodeBound, Same, At, BarPcs
<1>13. CASE C /\ pc[u] \in BarPcs /\ ~Released(u)
  <2>1. Dest(u) = (IF bar[u].then = "end" THEN End ELSE <<bar[u].then, node[u]>>) /\ Dest(u)' = Dest(u)
    BY <1>4, <1>13 DEF Dest, At, BarPcs, Same
  <2>2. m + 1 < Len(cgraph) => bar[u].then = "next" /\ node[u] = m
    BY <1>1, <1>2, <2>1 DEF After, End
  <2> QED BY <1>1, <1>3, <1>13, <2>1, <2>2 DEF NodeBound, Same, At, BarPcs
<1>14. CASE C /\ pc[u] \in BarPcs /\ Released(u) /\ bar[u].then = "chunk"
  <2>1. Dest(u) = After(cgraph, node[u]) /\ Dest(u)' = Dest(u)
    BY <1>4, <1>14 DEF Dest, At, BarPcs, Same
  <2>2. m + 1 < Len(cgraph) => node[u] = m
    BY <1>1, <1>2, <2>1 DEF After, End
  <2> QED BY <1>1, <1>3, <1>14, <2>1, <2>2 DEF NodeBound, Same, At, BarPcs
<1>15. CASE C /\ pc[u] \in BarPcs /\ Released(u) /\ bar[u].then = "next"
  <2>1. Dest(u) = From(cgraph, StopAt, node[u] + 1)
    BY <1>15 DEF Dest, At, BarPcs
  <2>2. Dest(u)' = From(cgraph, StopAt', node[u] + 1)
    BY <1>4, <1>15 DEF Dest, At, BarPcs, Same
  <2>3. Dest(u)' = Dest(u) /\ (m + 1 < Len(cgraph) => node[u] + 1 <= m)
    BY <1>2, <1>5, <1>6, <2>1, <2>2
  <2> QED BY <1>1, <1>3, <1>15, <2>3 DEF NodeBound, Same, At, BarPcs
<1>16. CASE C /\ pc[u] \notin GraphPcs
  <2>1. u \in Team /\ ~(Current(u) /\ AtWork)
    BY <1>1, <1>16 DEF PoolInv, Places, PlaceOf
  <2> QED BY <1>16, <2>1
<1>17. C /\ pc[u] \in BarPcs /\ Released(u) => bar[u].then # "end"
  BY <1>7 DEF Released
<1> QED BY <1>1, <1>8, <1>9, <1>10, <1>11, <1>12, <1>13, <1>14, <1>15, <1>16, <1>17
        DEF GraphPcs, Inside, BarPcs

LEMMA CallbackPool ==
  ASSUME Types, PoolInv, NEW t \in Threads, Callback(t)
  PROVE  PoolInv' /\ Dest(t)' = Dest(t)
<1> USE DEF Callback, Computing, control, lock, barrier
<1>1. pc[t] = "callback" /\ pc[t] \in Inside
  BY DEF At, Inside
<1>2. /\ AtWork /\ t \in Team /\ Current(t) /\ pc[t] \in GraphPcs /\ NodeBound(t)
      /\ run[t].graph = cgraph /\ run[t].nth = n_graph.n
  BY <1>1, Inner DEF NodeBound
<1>3. StopAt \in 0..Len(cgraph) /\ LeadBound /\ Cut /\ node[t] \in Nat
      /\ node[t] < StopAt /\ node[t] < Len(cgraph) /\ Kind(cgraph, node[t]) # "fused"
      /\ (Current(t)' <=> Current(t)) /\ cgraph \in Graphs \cup {<<>>} /\ Len(cgraph) \in Nat
  BY <1>1, <1>2, StopIs, ThreadTypes DEF NodeBound, At, Current
<1>4. ~Waits(t) /\ ~At(t, "enter") /\ (t = 0 => abort = -1)
  BY <1>1, <1>3 DEF Waits, At, LeadBound
<1>5. \A u \in Threads \ {t} : node'[u] = node[u] /\ bar'[u] = bar[u] /\ run'[u] = run[u]
  BY DEF CallBarrier, Types, LocalTypes
<1>6. PICK p \in {"arrive", "node"} : Goto(t, p)
  BY DEF CallBarrier
<1>7. pc'[t] = p /\ \A u \in Threads \ {t} : pc'[u] = pc[u]
  BY <1>6, ThreadTypes DEF Goto
<1>8. Only(t)
  BY <1>5, <1>7 DEF Only, Same
<1>9. abort' = abort \/ (t = 0 /\ abort' = node[t] + 1)
  OBVIOUS
<1>10. StopAt' \in 0..Len(cgraph) /\ node[t] < StopAt' /\ Cut'
  <2>1. CASE abort' = abort
    BY <1>3, <2>1 DEF StopAt, Cut
  <2>2. CASE abort' = node[t] + 1
    BY <1>3, <2>2 DEF StopAt, Cut
  <2> QED BY <1>9, <2>1, <2>2
<1>11. Dest(t) = After(cgraph, node[t])
  BY <1>1, <1>2 DEF Dest, At, BarPcs
<1>12. \/ /\ pc'[t] = "arrive" /\ node'[t] = node[t] /\ bar'[t].then = "next"
          /\ node[t] + 1 < Len(cgraph)
       \/ /\ pc'[t] = "node" /\ node'[t] = node[t] + 1 /\ bar'[t] = bar[t]
          /\ node[t] + 1 >= Len(cgraph)
  BY <1>2, <1>3, ThreadTypes DEF CallBarrier, Goto, Types, LocalTypes, Bars
<1>13. Dest(t)' = Dest(t)
  <2>1. CASE pc'[t] = "arrive"
    <3>1. Dest(t)' = <<"next", node[t]>>
      BY <1>2, <1>3, <1>12, <2>1 DEF Dest, At, BarPcs, Released
    <3> QED BY <1>11, <1>12, <2>1, <3>1 DEF After
  <2>2. CASE pc'[t] = "node"
    <3>1. Dest(t)' = From(cgraph, StopAt', node[t] + 1)
      BY <1>2, <1>3, <1>12, <2>2 DEF Dest, At, BarPcs
    <3>2. node[t] + 1 \in Nat /\ node[t] + 1 >= StopAt'
      BY <1>3, <1>10, <1>12, <2>2
    <3>3. From(cgraph, StopAt', node[t] + 1) = End
      BY <1>3, <1>10, <3>2, FromIs
    <3> QED BY <1>3, <1>11, <1>12, <2>2, <3>1, <3>3 DEF After
  <2> QED BY <1>7, <2>1, <2>2
<1>14. NodeBound(t)'
  BY <1>2, <1>3, <1>10, <1>12 DEF NodeBound, At, BarPcs
<1>15. LeadBound'
  <2>1. CASE t = 0
    BY <1>3, <1>4, <1>9, <1>12, <2>1 DEF LeadBound, At, BarPcs
  <2>2. CASE t # 0
    BY <1>3, <1>8, <1>9, <2>2, Zero DEF LeadBound, Only, Same, At
  <2> QED BY <2>1, <2>2
<1>16. ASSUME NEW u \in Team \ {t}
       PROVE  Dest(u)' = Dest(u) /\ (Member(u) /\ NodeBound(u) => NodeBound(u)')
  <2>1. u \in Threads /\ Same(u) /\ (Current(u)' <=> Current(u))
    BY <1>8, TeamIs DEF Only, Current
  <2>2. CASE abort' = abort
    BY <2>1, <2>2, Frame
  <2>3. CASE t = 0 /\ abort' = node[t] + 1
    BY <1>2, <1>3, <1>4, <1>11, <2>1, <2>3, CutKeeps
  <2> QED BY <1>9, <2>2, <2>3
<1>17. pc'[t] \in Inside \ {"last", "open"} /\ ~At(t, "enter")'
  BY <1>12 DEF Inside, At
<1> QED BY <1>2, <1>4, <1>8, <1>10, <1>13, <1>14, <1>15, <1>16, <1>17, InnerStep

-----------------------------------------------------------------------------
(* Steps in the barrier.                                                    *)

LEMMA ReturnIs ==
  ASSUME Types, NEW t \in Threads, Return(t), Meeting
  PROVE  /\ bar[t].then = "next" => Goto(t, "node") /\ pc'[t] = "node" /\ node'[t] = node[t] + 1
         /\ bar[t].then = "chunk" => Goto(t, "chunk") /\ pc'[t] = "chunk" /\ node'[t] = node[t]
         /\ bar[t].then = "end" => pc'[t] = (IF t = 0 THEN "idle" ELSE "loop") /\ node'[t] = node[t]
         /\ run'[t] = run[t] /\ run'[0] = run[0] /\ Only(t)
         /\ \A u \in Threads \ {t} : node'[u] = node[u] /\ bar'[u] = bar[u] /\ run'[u] = run[u]
         /\ UNCHANGED <<cgraph, abort, n_graph, last_graph>>
<1>1. \A p : Goto(t, p) => pc'[t] = p /\ \A u \in Threads \ {t} : pc'[u] = pc[u]
  BY ThreadTypes DEF Goto
<1>2. UNCHANGED <<cgraph, abort, n_graph, last_graph, run>>
  BY DEF Meeting, caller, control
<1>3. PICK p : Goto(t, p)
  BY DEF Return
<1>4. \A u \in Threads \ {t} : node'[u] = node[u] /\ bar'[u] = bar[u] /\ run'[u] = run[u]
  BY <1>2 DEF Return, Types, LocalTypes
<1>5. Only(t)
  BY <1>1, <1>2, <1>3, <1>4 DEF Only, Same
<1> QED BY <1>1, <1>2, <1>4, <1>5 DEF Return, Types, LocalTypes

\* No graph is at work any more.
LEMMA Ended ==
  ASSUME Types, Places, ~AtWork', n_barrier' = 0,
         UNCHANGED <<n_graph, last_graph, cgraph, abort>>, run'[0] = run[0],
         pc'[0] \notin {"kick", "wake"}, pc'[0] \in GraphPcs => pc[0] \in GraphPcs,
         \A u \in Workers :
             /\ pc'[u] \notin Inside
             /\ u \in Team => Current(u)
             /\ At(u, "spin")' => /\ bar'[u].then = "end"
                                  /\ Current(u) => u \in Team /\ Released(u)'
  PROVE  PoolInv'
<1>1. Team' = Team /\ \A u \in Workers : Current(u)' <=> Current(u)
  BY DEF Team, Current
<1>2. LeadPlace'
  BY DEF Places, LeadPlace, At
<1>3. ASSUME NEW u \in Workers PROVE PlaceOf(u)'
  BY <1>1 DEF PlaceOf
<1> QED BY <1>2, <1>3 DEF PoolInv, Places, Bounds, Aligned, Counted

LEMMA ArrivePool ==
  ASSUME Types, PoolInv, NEW t \in Threads, Arrive(t)
  PROVE  PoolInv' /\ (n_graph.n # 1 => Dest(t)' = Dest(t))
<1> USE DEF Arrive, barrier
<1>1. pc[t] = "arrive" /\ pc[t] \in Inside /\ Meeting
  BY DEF At, Inside
<1>2. /\ AtWork /\ t \in Team /\ Current(t) /\ pc[t] \in GraphPcs /\ NodeBound(t)
      /\ run[t].graph = cgraph /\ run[t].nth = n_graph.n
  BY <1>1, Inner DEF NodeBound
<1>3. ~Waits(t) /\ ~At(t, "enter") /\ ~Released(t) /\ pc[t] \in BarPcs
  BY <1>1 DEF Waits, At, Released, BarPcs
<1>4. bar[t].then \in {"end", "next", "chunk"} /\ node[t] \in Nat /\ (Current(t)' <=> Current(t))
      /\ UNCHANGED <<cgraph, abort, n_graph, last_graph, run>> /\ n_graph.n \in 0..N
  BY <1>1, ThreadTypes DEF Meeting, caller, control, Current
<1>5. Cut /\ LeadBound /\ StopAt' = StopAt /\ StopAt \in 0..Len(cgraph) /\ Len(cgraph) \in Nat
  BY <1>2, <1>4, StopIs, ThreadTypes DEF StopAt
<1>6. CASE n_graph.n = 1
  <2>1. t = 0 /\ Team = {0} /\ Return(t)
    BY <1>2, <1>6 DEF Team
  <2>2. CASE bar[t].then = "end"
    <3>1. pc'[0] = "idle" /\ Only(0) /\ run'[0] = run[0]
      BY <1>1, <2>1, <2>2, ReturnIs
    <3>2. Waiters = {}
      BY <1>3, <2>1 DEF Waiters
    <3>3. n_barrier = 0
      BY <1>1, <1>2, <2>1, <3>2, FS_EmptySet DEF PoolInv, Counted, At
    <3>4. ASSUME NEW u \in Workers
          PROVE  /\ pc'[u] \notin Inside /\ u \notin Team
                 /\ At(u, "spin")' => bar'[u].then = "end" /\ ~Current(u)
      <4>1. u \in Threads /\ u # 0 /\ u \notin Team
        BY <2>1, Zero
      <4> QED BY <3>1, <4>1 DEF Only, Same, PoolInv, Places, PlaceOf, At
    <3>5. ~AtWork'
      BY <3>1 DEF AtWork, At, Inside
    <3>6. Places
      BY DEF PoolInv
    <3> QED BY <1>4, <1>6, <3>1, <3>3, <3>4, <3>5, <3>6, Ended DEF GraphPcs, Inside
  <2>3. CASE bar[t].then = "next"
    <3>1. Goto(t, "node") /\ pc'[t] = "node" /\ node'[t] = node[t] + 1 /\ run'[0] = run[0]
          /\ \A u \in Threads \ {t} : node'[u] = node[u] /\ bar'[u] = bar[u] /\ run'[u] = run[u]
      BY <1>1, <2>1, <2>3, ReturnIs
    <3>2. NodeBound(t)'
      BY <1>1, <1>2, <1>3, <1>4, <1>5, <2>3, <3>1 DEF NodeBound, At, BarPcs
    <3>3. LeadBound'
      BY <1>3, <1>4, <1>5, <2>1, <2>3, <3>1 DEF LeadBound, At, BarPcs
    <3> QED BY <1>2, <1>3, <1>4, <1>6, <2>1, <3>1, <3>2, <3>3, Onward DEF Inside
  <2>4. CASE bar[t].then = "chunk"
    <3>1. Goto(t, "chunk") /\ pc'[t] = "chunk" /\ node'[t] = node[t] /\ run'[0] = run[0]
          /\ \A u \in Threads \ {t} : node'[u] = node[u] /\ bar'[u] = bar[u] /\ run'[u] = run[u]
      BY <1>1, <2>1, <2>4, ReturnIs
    <3>2. NodeBound(t)'
      BY <1>1, <1>2, <1>3, <1>4, <1>5, <2>4, <3>1 DEF NodeBound, At, BarPcs
    <3>3. LeadBound'
      BY <1>3, <1>4, <1>5, <2>1, <2>4, <3>1 DEF LeadBound, At, BarPcs
    <3> QED BY <1>2, <1>3, <1>4, <1>6, <2>1, <3>1, <3>2, <3>3, Onward DEF Inside
  <2> QED BY <1>4, <2>2, <2>3, <2>4
<1>7. CASE n_graph.n # 1
  <2>1. Goto(t, "enter") /\ pc'[t] = "enter" /\ UNCHANGED node
    BY <1>7, ThreadTypes DEF Goto
  <2>2. bar' = [bar EXCEPT ![t].n = n_graph.n, ![t].passed = n_barrier_passed]
    BY <1>7
  <2>3. bar'[t].n = n_graph.n /\ bar'[t].passed = n_barrier_passed /\ bar'[t].then = bar[t].then
    BY <2>2 DEF Types, LocalTypes, Bars
  <2>4. \A u \in Threads \ {t} : node'[u] = node[u] /\ bar'[u] = bar[u] /\ run'[u] = run[u]
    BY <1>4, <2>1, <2>2 DEF Types, LocalTypes
  <2>5. Dest(t)' = Dest(t)
    BY <1>1, <1>2, <1>3, <1>4, <1>5, <2>1, <2>3 DEF Dest, At, BarPcs, Released
  <2>6. NodeBound(t)'
    BY <1>1, <1>2, <1>4, <1>5, <2>1, <2>3 DEF NodeBound, At, BarPcs
  <2>7. t = 0 => LeadBound'
    BY <1>1, <1>3, <1>4, <1>5, <2>1, <2>3 DEF LeadBound, At, BarPcs
  <2>8. run'[0] = run[0] /\ UNCHANGED <<n_barrier, n_barrier_passed>>
    BY <1>4
  <2> QED BY <1>2, <1>3, <1>4, <2>1, <2>3, <2>4, <2>5, <2>6, <2>7, <2>8, Onward DEF Inside
<1> QED BY <1>6, <1>7

LEMMA SpinPool ==
  ASSUME Types, PoolInv, NEW t \in Threads, Spin(t)
  PROVE  PoolInv' /\ (Current(t) /\ AtWork => Dest(t)' = Dest(t))
<1> USE DEF Spin, barrier
<1>1. pc[t] = "spin" /\ Released(t) /\ Meeting /\ Return(t) /\ pc[t] \in GraphPcs /\ pc[t] \in BarPcs
      /\ pc[t] \notin Inside
  BY DEF At, Released, GraphPcs, BarPcs, Inside
<1>2. bar[t].then \in {"end", "next", "chunk"} /\ node[t] \in Nat
  BY ThreadTypes
<1>3. /\ bar[t].then = "next" => Goto(t, "node") /\ pc'[t] = "node" /\ node'[t] = node[t] + 1
      /\ bar[t].then = "chunk" => Goto(t, "chunk") /\ pc'[t] = "chunk" /\ node'[t] = node[t]
      /\ bar[t].then = "end" => pc'[t] = (IF t = 0 THEN "idle" ELSE "loop")
      /\ run'[t] = run[t] /\ run'[0] = run[0] /\ Only(t)
      /\ \A u \in Threads \ {t} : node'[u] = node[u] /\ bar'[u] = bar[u] /\ run'[u] = run[u]
      /\ UNCHANGED <<cgraph, abort, n_graph, last_graph, n_barrier, n_barrier_passed>>
  BY <1>1, ReturnIs
<1>4. Current(t)' <=> Current(t)
  BY <1>3 DEF Current
<1>5. t # 0 => t \in Workers
  BY Zero
<1>6. CASE t # 0 /\ ~(Current(t) /\ AtWork)
  <2>1. bar[t].then = "end"
    BY <1>1, <1>5, <1>6 DEF PoolInv, Places, PlaceOf, At
  <2>2. pc'[t] \in LoopPcs
    BY <1>3, <1>6, <2>1 DEF LoopPcs
  <2>3. /\ t \in Team /\ AtWork => ~Current(t) /\ ~Current(t)'
        /\ t \in Team /\ ~AtWork => Current(t)'
    BY <1>4, <1>5, <1>6 DEF PoolInv, Places, PlaceOf
  <2> QED BY <1>1, <1>3, <1>5, <1>6, <2>2, <2>3, OutsideStep
<1>7. CASE t = 0 /\ ~AtWork
  <2>1. bar[0].then = "end" /\ pc'[0] = "idle"
    BY <1>1, <1>3, <1>7 DEF AtWork, At
  <2>2. ~AtWork'
    BY <2>1 DEF AtWork, At, Inside
  <2>3. ASSUME NEW u \in Workers
        PROVE  /\ pc'[u] \notin Inside
               /\ u \in Team => Current(u)
               /\ At(u, "spin")' => /\ bar'[u].then = "end"
                                    /\ Current(u) => u \in Team /\ Released(u)'
    <3>1. u \in Threads \ {0} /\ pc'[u] = pc[u] /\ bar'[u] = bar[u]
      BY <1>3, <1>7, Zero DEF Only, Same
    <3> QED BY <1>3, <1>7, <3>1 DEF PoolInv, Places, PlaceOf, At, Released
  <2>4. n_barrier' = 0 /\ Places
    BY <1>3, <1>7 DEF PoolInv, Places, LeadPlace
  <2> QED BY <1>3, <1>7, <2>1, <2>2, <2>3, <2>4, Ended DEF GraphPcs, Inside
<1>8. CASE Current(t) /\ AtWork
  <2>1. t \in Team
    BY <1>1, <1>5, <1>8 DEF PoolInv, Places, PlaceOf, LeadPlace, At
  <2>2. Member(t) /\ NodeBound(t)
    BY <1>1, <1>8, <2>1 DEF Member, PoolInv, Bounds
  <2>3. bar[t].then # "end"
    BY <1>1, <1>5, <1>8 DEF PoolInv, Places, PlaceOf, AtWork, At, Inside
  <2>4. ~Waits(t) /\ ~At(t, "enter")
    BY <1>1 DEF Waits, At
  <2>5. Cut /\ LeadBound /\ StopAt' = StopAt /\ StopAt \in 0..Len(cgraph) /\ Len(cgraph) \in Nat
    BY <1>3, <1>8, StopIs, ThreadTypes DEF StopAt
  <2>6. CASE bar[t].then = "next"
    <3>1. Dest(t) = From(cgraph, StopAt, node[t] + 1)
      BY <1>1, <1>8, <2>6 DEF Dest, At, BarPcs
    <3>2. Dest(t)' = From(cgraph, StopAt, node[t] + 1)
      BY <1>3, <1>4, <1>8, <2>5, <2>6 DEF Dest, At, BarPcs
    <3>3. NodeBound(t)'
      BY <1>1, <1>2, <1>3, <2>2, <2>5, <2>6 DEF NodeBound, At, BarPcs
    <3>4. t = 0 => LeadBound'
      BY <1>1, <1>2, <1>3, <2>5, <2>6 DEF LeadBound, At, BarPcs
    <3> QED BY <1>1, <1>3, <1>8, <2>1, <2>4, <2>6, <3>1, <3>2, <3>3, <3>4, Onward DEF Inside
  <2>7. CASE bar[t].then = "chunk"
    <3>1. Dest(t) = After(cgraph, node[t])
      BY <1>1, <1>8, <2>7 DEF Dest, At, BarPcs
    <3>2. Dest(t)' = After(cgraph, node[t])
      BY <1>3, <1>4, <1>8, <2>5, <2>7 DEF Dest, At, BarPcs
    <3>3. NodeBound(t)'
      BY <1>1, <1>2, <1>3, <2>2, <2>5, <2>7 DEF NodeBound, At, BarPcs
    <3>4. t = 0 => LeadBound'
      BY <1>1, <1>2, <1>3, <2>5, <2>7 DEF LeadBound, At, BarPcs
    <3> QED BY <1>1, <1>3, <1>8, <2>1, <2>4, <2>7, <3>1, <3>2, <3>3, <3>4, Onward DEF Inside
  <2> QED BY <1>2, <2>3, <2>6, <2>7
<1> QED BY <1>6, <1>7, <1>8 DEF Current

\* A step within the barrier that lets nobody go leaves all but the count as it was.
LEMMA Staying ==
  ASSUME Types, PoolInv, NEW t \in Threads,
         pc[t] \in {"enter", "last"}, pc'[t] \in {"last", "open", "spin"}, ~Released(t)', Only(t),
         UNCHANGED <<node, bar, run, cgraph, abort, n_graph, last_graph, n_barrier_passed>>
  PROVE  /\ AtWork /\ t \in Team /\ Current(t)
         /\ Places' /\ Bounds' /\ Aligned' /\ Dest(t)' = Dest(t)
<1>1. pc[t] \in Inside /\ pc[t] \in BarPcs /\ pc'[t] \in BarPcs /\ ~Released(t) /\ pc'[t] \in GraphPcs
      /\ pc[t] # "kick" /\ pc'[t] # "kick"
  BY DEF Inside, BarPcs, GraphPcs, Released, At
<1>2. AtWork /\ t \in Team /\ Current(t) /\ Member(t) /\ NodeBound(t)
  BY <1>1, Inner
<1>3. \A u \in Threads : Current(u)' <=> Current(u)
  BY DEF Current
<1>4. Team' = Team /\ Team \subseteq Threads /\ 0 \in Threads /\ \A u \in Workers : u \in Threads /\ u # 0
  BY TeamIs, Zero DEF Team
<1>5. \A u \in Threads \ {t} : /\ pc'[u] = pc[u]
                               /\ Released(u)' <=> Released(u)
                               /\ Member(u)' <=> Member(u)
                               /\ Dest(u)' = Dest(u) /\ (NodeBound(u)' <=> NodeBound(u))
                               /\ \A p : At(u, p)' <=> At(u, p)
  BY <1>3, Frame DEF Only, Same, At
<1>6. AtWork'
  <2>1. CASE t = 0
    BY <2>1 DEF AtWork, At, Inside
  <2>2. CASE t # 0
    BY <1>2, <1>4, <1>5, <2>2 DEF AtWork
  <2> QED BY <2>1, <2>2
<1>7. LeadPlace'
  <2>1. pc'[0] \in GraphPcs => pc[0] \in GraphPcs
    BY <1>1, <1>4, <1>5 DEF GraphPcs
  <2>2. At(0, "kick")' => At(0, "kick")
    BY <1>1, <1>4, <1>5 DEF At
  <2>3. pc'[0] \in {"kick", "wake"} => pc'[0] = pc[0]
    BY <1>1, <1>4, <1>5
  <2> QED BY <1>4, <1>6, <2>1, <2>2, <2>3, <1>2 DEF LeadPlace, PoolInv, Places
<1>8. ASSUME NEW u \in Workers PROVE PlaceOf(u)'
  <2>1. CASE u = t
    BY <1>1, <1>2, <1>3, <1>4, <1>6, <2>1 DEF PlaceOf
  <2>2. CASE u # t
    BY <1>2, <1>3, <1>4, <1>5, <1>6, <2>2 DEF PlaceOf, PoolInv, Places
  <2> QED BY <2>1, <2>2
<1>9. Bounds'
  <2>1. ASSUME NEW u \in Team, Member(u)' PROVE NodeBound(u)'
    <3>1. CASE u = t
      BY <1>1, <1>2, <3>1 DEF NodeBound, At, BarPcs, StopAt
    <3>2. CASE u # t
      BY <1>2, <1>4, <1>5, <2>1, <3>2 DEF PoolInv, Bounds
    <3> QED BY <3>1, <3>2
  <2>2. Cut'
    BY <1>2 DEF Cut, PoolInv, Bounds
  <2>3. LeadBound'
    <3>1. LeadBound
      BY <1>2 DEF PoolInv, Bounds
    <3>2. CASE t = 0
      BY <1>1, <3>1, <3>2 DEF LeadBound, At, BarPcs
    <3>3. CASE t # 0
      BY <1>4, <1>5, <3>1, <3>3 DEF LeadBound, At, BarPcs
    <3> QED BY <3>2, <3>3
  <2> QED BY <1>4, <2>1, <2>2, <2>3 DEF Bounds
<1>10. Aligned' /\ Dest(t)' = Dest(t)
  <2>1. Dest(t)' = Dest(t)
    BY <1>1, <1>2, <1>3 DEF Dest, At, BarPcs
  <2>2. 0 \in Team /\ \A u \in Team : Dest(u) = Dest(0)
    BY <1>2 DEF PoolInv, Places, LeadPlace, Aligned
  <2>3. \A u \in Team : Dest(u)' = Dest(u)
    BY <1>4, <1>5, <2>1
  <2> QED BY <1>4, <2>1, <2>2, <2>3 DEF Aligned
<1> QED BY <1>2, <1>7, <1>8, <1>9, <1>10 DEF Places

LEMMA WaitersAre ==
  Types => /\ Waiters \subseteq Team /\ IsFiniteSet(Waiters) /\ Cardinality(Waiters) \in 0..n_graph.n
           /\ Cardinality(Waiters) = n_graph.n => Waiters = Team
<1> SUFFICES ASSUME Types
             PROVE  /\ Waiters \subseteq Team /\ IsFiniteSet(Waiters)
                    /\ Cardinality(Waiters) \in 0..n_graph.n
                    /\ Cardinality(Waiters) = n_graph.n => Waiters = Team
  OBVIOUS
<1>1. Waiters \subseteq Team
  BY DEF Waiters
<1>2. IsFiniteSet(Team) /\ Cardinality(Team) = n_graph.n
  BY TeamIs
<1>3. /\ IsFiniteSet(Waiters) /\ Cardinality(Waiters) <= Cardinality(Team)
      /\ Cardinality(Waiters) = Cardinality(Team) => Waiters = Team
  BY <1>1, <1>2, FS_Subset
<1>4. Cardinality(Waiters) \in Nat /\ n_graph.n \in Nat
  BY <1>3, Zero, FS_CardinalityType DEF Types, SharedTypes, Numbers
<1> QED BY <1>1, <1>2, <1>3, <1>4

LEMMA EnterPool ==
  ASSUME Types, PoolInv, NEW t \in Threads, Enter(t)
  PROVE  PoolInv' /\ Dest(t)' = Dest(t)
<1> USE DEF Enter
<1>1. pc[t] = "enter" /\ pc[t] \in Inside /\ Meeting
  BY DEF At, Inside
<1>2. UNCHANGED <<node, bar, run, cgraph, abort, n_graph, last_graph, n_barrier_passed>>
  BY DEF Meeting, caller, control
<1>3. AtWork /\ t \in Team /\ Current(t) /\ pc[t] # "last"
  BY <1>1, Inner
<1>4. bar[t].n = n_graph.n /\ bar[t].passed = n_barrier_passed
  BY <1>1, <1>3 DEF PoolInv, Counted, At
<1>5. /\ pc'[t] = IF n_barrier = n_graph.n - 1 THEN "last" ELSE "spin"
      /\ Only(t)
  BY <1>2, <1>4, ThreadTypes DEF Goto, Only, Same
<1>6. ~Released(t)'
  BY <1>2, <1>4 DEF Released
<1>7. Places' /\ Bounds' /\ Aligned' /\ Dest(t)' = Dest(t)
  BY <1>1, <1>2, <1>5, <1>6, Staying
<1>8. Team' = Team /\ Team \subseteq Threads /\ \A u \in Threads : Current(u)' <=> Current(u)
  BY <1>2, TeamIs DEF Team, Current
<1>9. t \notin Waiters /\ \A u \in Team : ~At(u, "last") /\ ~At(u, "open")
  <2>1. ~Waits(t)
    BY <1>1 DEF Waits, At
  <2> QED BY <1>3, <2>1 DEF Waiters, PoolInv, Counted, At
<1>10. \A u \in Team \ {t} : /\ Waits(u)' <=> Waits(u)
                             /\ pc'[u] = pc[u] /\ \A p : At(u, p)' <=> At(u, p)
  BY <1>2, <1>5, <1>8, Frame DEF Only, Same, At
<1>11. Waits(t)' /\ ~At(t, "open")' /\ ~At(t, "enter")'
  BY <1>3, <1>5, <1>6, <1>8 DEF Waits, At
<1>12. Waiters' = Waiters \cup {t}
  BY <1>3, <1>8, <1>10, <1>11 DEF Waiters
<1>13. n_barrier = Cardinality(Waiters) /\ n_barrier \in Nat /\ n_graph.n \in Nat
  <2>1. n_barrier = Cardinality(Waiters)
    BY <1>3, <1>9 DEF PoolInv, Counted
  <2> QED BY <2>1, WaitersAre, Zero DEF Types, SharedTypes, Numbers
<1>14. n_barrier' = Cardinality(Waiters')
  BY <1>9, <1>12, <1>13, WaitersAre, FS_AddElement
<1>15. pc'[t] = "last" => Waiters' = Team
  <2>1. ASSUME pc'[t] = "last" PROVE Cardinality(Waiters') = Cardinality(Team)
    BY <1>5, <1>13, <1>14, <2>1, TeamIs
  <2>2. Waiters' \subseteq Team
    BY <1>3, <1>12, WaitersAre
  <2> QED BY <2>1, <2>2, TeamIs, FS_Subset
<1>16. Counted'
  <2>1. \A u \in Team : (Waits(u) \/ At(u, "enter") => bar[u].n = n_graph.n)'
    BY <1>2, <1>3, <1>4, <1>10 DEF PoolInv, Counted
  <2>2. \A u \in Team : (pc[u] \in {"enter", "last", "open"} => bar[u].passed = n_barrier_passed)'
    BY <1>2, <1>3, <1>4, <1>10 DEF PoolInv, Counted
  <2>3. \A u \in Team : ~At(u, "open")'
    BY <1>9, <1>10, <1>11
  <2>4. \A u \in Team : pc'[u] \in {"last", "open"} => u = t /\ pc'[t] = "last"
    BY <1>9, <1>10, <1>11 DEF At
  <2> QED BY <1>8, <1>14, <1>15, <2>1, <2>2, <2>3, <2>4 DEF Counted
<1> QED BY <1>7, <1>16 DEF PoolInv

LEMMA ResetPool ==
  ASSUME Types, PoolInv, NEW t \in Threads, LastResets(t)
  PROVE  PoolInv' /\ Dest(t)' = Dest(t)
<1> USE DEF LastResets
<1>1. pc[t] = "last" /\ pc[t] \in Inside /\ Meeting /\ n_barrier' = 0
  BY DEF At, Inside
<1>2. UNCHANGED <<node, bar, run, cgraph, abort, n_graph, last_graph, n_barrier_passed>>
  BY DEF Meeting, caller, control
<1>3. AtWork /\ t \in Team /\ Current(t)
  BY <1>1, Inner
<1>4. pc'[t] = "open" /\ Only(t)
  BY <1>2, ThreadTypes DEF Goto, Only, Same
<1>5. ~Released(t)'
  BY <1>4 DEF Released, At
<1>6. Places' /\ Bounds' /\ Aligned' /\ Dest(t)' = Dest(t)
  BY <1>1, <1>2, <1>4, <1>5, Staying
<1>7. Team' = Team /\ Team \subseteq Threads /\ \A u \in Threads : Current(u)' <=> Current(u)
  BY <1>2, TeamIs DEF Team, Current
<1>8. \A u \in Team \ {t} : /\ Waits(u)' <=> Waits(u)
                            /\ pc'[u] = pc[u] /\ \A p : At(u, p)' <=> At(u, p)
  BY <1>2, <1>4, <1>7, Frame DEF Only, Same, At
<1>9. Waits(t) /\ Waits(t)' /\ At(t, "open")' /\ ~At(t, "enter")'
  BY <1>1, <1>3, <1>4, <1>7 DEF Waits, At
<1>10. Waiters = Team /\ Waiters' = Waiters
       /\ \A u \in Team : pc[u] \in {"last", "open"} => u = t
  BY <1>1, <1>3, <1>7, <1>8, <1>9 DEF Waiters, PoolInv, Counted
<1>11. Counted'
  <2>1. \A u \in Team : (Waits(u) \/ At(u, "enter") => bar[u].n = n_graph.n)'
    BY <1>2, <1>3, <1>8, <1>9 DEF PoolInv, Counted
  <2>2. \A u \in Team : (pc[u] \in {"enter", "last", "open"} => bar[u].passed = n_barrier_passed)'
    BY <1>1, <1>2, <1>3, <1>8 DEF PoolInv, Counted
  <2>3. \A u \in Team : pc'[u] \in {"last", "open"} => u = t
    BY <1>8, <1>10
  <2> QED BY <1>1, <1>3, <1>7, <1>9, <1>10, <2>1, <2>2, <2>3 DEF Counted
<1> QED BY <1>6, <1>11 DEF PoolInv
\* The last thread lets the others go, which all wait for the same.
LEMMA OpenPool ==
  ASSUME Types, PoolInv, NEW t \in Threads, LastOpens(t)
  PROVE  PoolInv'
<1> USE DEF LastOpens
<1>1. /\ pc[t] = "open" /\ pc[t] \in Inside /\ pc[t] \in BarPcs /\ Meeting /\ Return(t)
      /\ ~Released(t) /\ n_barrier' = n_barrier
  BY DEF At, Inside, BarPcs, Released
<1>2. /\ AtWork /\ t \in Team /\ Current(t) /\ Member(t) /\ NodeBound(t)
      /\ run[0].graph = cgraph /\ run[0].nth = n_graph.n
  BY <1>1, Inner
<1>3. /\ bar[t].then = "next" => pc'[t] = "node" /\ node'[t] = node[t] + 1
      /\ bar[t].then = "chunk" => pc'[t] = "chunk" /\ node'[t] = node[t]
      /\ bar[t].then = "end" => pc'[t] = (IF t = 0 THEN "idle" ELSE "loop")
      /\ run'[t] = run[t] /\ run'[0] = run[0] /\ Only(t)
      /\ UNCHANGED <<cgraph, abort, n_graph, last_graph>>
  BY <1>1, ReturnIs
<1>4. /\ Team' = Team /\ Team \subseteq Threads /\ 0 \in Threads /\ 0 \in Team
      /\ \A u \in Workers : u \in Threads /\ u # 0
      /\ \A u \in Threads : Current(u)' <=> Current(u)
  BY <1>2, <1>3, TeamIs, Zero DEF Team, Current, PoolInv, Places, LeadPlace
<1>5. n_barrier_passed' # n_barrier_passed
  <2>1. \A a \in 0..PassedWrap - 1 : (a + 1) % PassedWrap # a
    BY PoolAssumption
  <2> QED BY <2>1 DEF Types, SharedTypes
<1>6. n_barrier = 0 /\ Waiters = Team /\ \A u \in Team \ {t} : pc[u] \notin {"last", "open"}
  BY <1>1, <1>2 DEF PoolInv, Counted, At
<1>7. ASSUME NEW u \in Team \ {t}
      PROVE  /\ pc[u] = "spin" /\ ~Released(u) /\ Current(u) /\ pc[u] \in BarPcs
             /\ Same(u) /\ pc'[u] = "spin" /\ Released(u)'
  <2>1. Waits(u) /\ u \in Threads /\ u # t
    BY <1>4, <1>6 DEF Waiters
  <2>2. pc[u] = "spin" /\ ~Released(u) /\ Current(u)
    BY <1>6, <2>1 DEF Waits, At
  <2> QED BY <1>3, <1>5, <2>1, <2>2 DEF Only, Same, Released, At, BarPcs
<1>8. ASSUME NEW u \in Team
      PROVE  Dest(u) = IF bar[u].then = "end" THEN End ELSE <<bar[u].then, node[u]>>
  <2>1. pc[u] \in BarPcs /\ ~Released(u) /\ Current(u)
    BY <1>1, <1>2, <1>7
  <2> QED BY <2>1 DEF Dest, At, BarPcs
<1>9. ASSUME NEW u \in Team
      PROVE  bar[u].then = bar[t].then /\ (bar[t].then # "end" => node[u] = node[t])
  <2>1. Dest(u) = Dest(t)
    BY <1>2 DEF PoolInv, Aligned
  <2>2. bar[u].then \in {"end", "next", "chunk"} /\ bar[t].then \in {"end", "next", "chunk"}
    BY <1>4, ThreadTypes
  <2> QED BY <1>2, <1>8, <2>1, <2>2 DEF End
<1>10. ASSUME NEW u \in Workers, u \notin Team
       PROVE  /\ pc'[u] = pc[u] /\ bar'[u] = bar[u] /\ pc[u] \notin Inside
              /\ At(u, "spin") => ~Current(u) /\ bar[u].then = "end"
  <2>1. u \in Threads \ {t} /\ Same(u)
    BY <1>2, <1>3, <1>4, <1>10 DEF Only
  <2>2. PlaceOf(u)
    BY DEF PoolInv, Places
  <2> QED BY <1>2, <1>10, <2>1, <2>2 DEF PlaceOf, Same, At
<1>11. bar[t].then \in {"end", "next", "chunk"} /\ node[t] \in Nat /\ Len(cgraph) \in Nat
  BY ThreadTypes
<1>12. CASE bar[t].then = "end"
  <2>1. pc'[0] = "idle" \/ (pc'[0] = "spin" /\ Released(0)' /\ bar'[0].then = "end")
    <3>1. CASE t = 0
      BY <1>3, <1>12, <3>1
    <3>2. CASE t # 0
      BY <1>4, <1>7, <1>9, <1>12, <3>2 DEF Same
    <3> QED BY <3>1, <3>2
  <2>2. ~AtWork'
    BY <2>1 DEF AtWork, At, Inside
  <2>3. pc[0] \in GraphPcs
    <3>1. pc[0] \in {"open", "spin"}
      BY <1>1, <1>4, <1>7
    <3> QED BY <3>1 DEF GraphPcs, Inside
  <2>4. ASSUME NEW u \in Workers
        PROVE  /\ pc'[u] \notin Inside
               /\ u \in Team => Current(u)
               /\ At(u, "spin")' => /\ bar'[u].then = "end"
                                    /\ Current(u) => u \in Team /\ Released(u)'
    <3>1. CASE u = t
      BY <1>2, <1>3, <1>4, <1>12, <3>1 DEF At, Inside
    <3>2. CASE u # t /\ u \in Team
      BY <1>7, <1>9, <1>12, <3>2 DEF Same, Inside
    <3>3. CASE u \notin Team
      BY <1>10, <3>3 DEF At
    <3> QED BY <3>1, <3>2, <3>3
  <2>5. pc'[0] \notin {"kick", "wake"} /\ Places
    BY <2>1 DEF PoolInv
  <2> QED BY <1>1, <1>3, <1>6, <2>2, <2>3, <2>4, <2>5, Ended
<1>13. CASE bar[t].then # "end"
  <2>1. pc'[t] \in {"node", "chunk"} /\ pc'[t] \in Inside /\ pc'[t] \in GraphPcs
    BY <1>3, <1>11, <1>13 DEF Inside, GraphPcs
  <2>2. AtWork'
    <3>1. CASE t = 0
      BY <2>1, <3>1 DEF AtWork
    <3>2. CASE t # 0
      BY <1>4, <1>7, <1>9, <1>13, <3>2 DEF AtWork, Same, At
    <3> QED BY <3>1, <3>2
  <2>3. LeadPlace'
    <3>1. pc[0] \in GraphPcs /\ pc'[0] \in GraphPcs /\ pc'[0] \notin {"kick", "wake"}
      <4>1. CASE t = 0
        BY <1>1, <2>1, <4>1 DEF GraphPcs
      <4>2. CASE t # 0
        BY <1>4, <1>7, <4>2 DEF GraphPcs
      <4> QED BY <4>1, <4>2
    <3> QED BY <1>3, <1>4, <2>2, <3>1 DEF LeadPlace, PoolInv, Places, At
  <2>4. ASSUME NEW u \in Workers PROVE PlaceOf(u)'
    <3>1. CASE u = t
      BY <1>2, <1>4, <2>1, <2>2, <3>1 DEF PlaceOf, At
    <3>2. CASE u # t /\ u \in Team
      <4>1. u \in Team' /\ Current(u)' /\ At(u, "spin")' /\ bar'[u].then # "end"
            /\ pc'[u] \notin Inside /\ pc'[u] \in GraphPcs
        BY <1>4, <1>7, <1>9, <1>13, <3>2 DEF Same, At, Inside, GraphPcs
      <4> QED BY <2>2, <4>1 DEF PlaceOf
    <3>3. CASE u \notin Team
      BY <1>4, <1>10, <3>3 DEF PlaceOf, At
    <3> QED BY <3>1, <3>2, <3>3
  <2>5. Bounds'
    <3>1. Cut /\ LeadBound /\ \A u \in Team : Member(u) => NodeBound(u)
      BY <1>2 DEF PoolInv, Bounds
    <3>2. NodeBound(t)'
      BY <1>1, <1>2, <1>3, <1>11, <1>13, <2>1, <3>1, StopIs DEF NodeBound, At, BarPcs, StopAt
    <3>3. ASSUME NEW u \in Team \ {t} PROVE NodeBound(u)'
      <4>1. Member(u)
        BY <1>7 DEF Member, GraphPcs
      <4> QED BY <1>3, <1>7, <3>1, <4>1 DEF NodeBound, Same, At, StopAt
    <3>4. LeadBound'
      <4>1. CASE t = 0
        BY <1>1, <1>3, <1>11, <1>13, <3>1, <4>1 DEF LeadBound, At, BarPcs
      <4>2. CASE t # 0
        BY <1>3, <1>4, <1>7, <3>1, <4>2 DEF LeadBound, At, Same
      <4> QED BY <4>1, <4>2
    <3> QED BY <1>3, <1>4, <3>1, <3>2, <3>3, <3>4 DEF Bounds, Cut
  <2>6. Aligned'
    <3> DEFINE D == IF bar[t].then = "next" THEN From(cgraph, StopAt, node[t] + 1)
                    ELSE After(cgraph, node[t])
    <3>1. StopAt' = StopAt
      BY <1>3 DEF StopAt
    <3>2. Dest(t)' = D
      BY <1>2, <1>3, <1>4, <1>11, <1>13, <2>1, <3>1 DEF Dest, At, BarPcs
    <3>3. ASSUME NEW u \in Team \ {t} PROVE Dest(u)' = D
      <4>1. /\ Current(u)' /\ pc'[u] = "spin" /\ Released(u)'
            /\ bar'[u].then = bar[t].then /\ node'[u] = node[t]
        BY <1>4, <1>7, <1>9, <1>13 DEF Same
      <4> QED BY <1>3, <1>11, <1>13, <3>1, <4>1 DEF Dest, At, BarPcs
    <3>4. \A u \in Team : Dest(u)' = D
      BY <3>2, <3>3
    <3> QED BY <1>4, <3>4 DEF Aligned
  <2>7. Counted'
    <3>1. ASSUME NEW u \in Team
          PROVE  ~Waits(u)' /\ pc'[u] \notin {"enter", "last", "open"}
                 /\ ~At(u, "enter")' /\ ~At(u, "open")'
      <4>1. CASE u = t
        BY <2>1, <4>1 DEF Waits, At
      <4>2. CASE u # t
        BY <1>7, <4>2 DEF Waits, At
      <4> QED BY <4>1, <4>2
    <3>2. Waiters' = {}
      BY <1>4, <3>1 DEF Waiters
    <3> QED BY <1>1, <1>4, <1>6, <3>1, <3>2, FS_EmptySet DEF Counted
  <2> QED BY <2>3, <2>4, <2>5, <2>6, <2>7 DEF PoolInv, Places
<1> QED BY <1>12, <1>13

LEMMA GraphPool ==
  ASSUME Types, PoolInv, NEW t \in Threads, InGraph(t)
  PROVE  PoolInv'
BY StartPool, NodePool, WorkPool, CallbackPool, ArrivePool, EnterPool, ResetPool, OpenPool,
   SpinPool DEF InGraph

LEMMA PoolStep == Types /\ PoolInv /\ [Next]_vars => PoolInv'
<1> SUFFICES ASSUME Types, PoolInv, [Next]_vars PROVE PoolInv'
  OBVIOUS
<1>1. CASE UNCHANGED vars
  BY <1>1, PoolKept DEF vars, caller, control, barrier, locals
<1>2. CASE Caller
  BY <1>2, CallerPool
<1>3. ASSUME NEW t \in Workers, Worker(t) \/ Spurious(t) PROVE PoolInv'
  BY <1>3, WorkerPool
<1>4. ASSUME NEW t \in Threads, InGraph(t) PROVE PoolInv'
  BY <1>4, GraphPool
<1> QED BY <1>1, <1>2, <1>3, <1>4 DEF Next

\* The inductive invariant: the threads of a graph are in it, within it, on the
\* way to one barrier, and counted there.
THEOREM PoolIsAligned == Spec => [](Types /\ PoolInv)
<1>1. Init => Types /\ PoolInv
  BY TypesInit, PoolInit
<1>2. Types /\ PoolInv /\ [Next]_vars => (Types /\ PoolInv)'
  BY TypesStep, PoolStep
<1> QED BY <1>1, <1>2, PTL DEF Spec

\* No worker is still in the last graph when the caller sets the next one up.
THEOREM PoolIsQuiet == Spec => []QuietPool
<1>1. Types /\ PoolInv => QuietPool
  <2> SUFFICES ASSUME Types, PoolInv, pc[0] \in {"idle", "kick", "join", "freed"},
                      NEW t \in Workers
               PROVE  ~Uses(t)
    BY DEF QuietPool
  <2>1. ~AtWork
    BY DEF AtWork, At, Inside
  <2>2. pc[t] \notin Inside /\ (At(t, "spin") => bar[t].then = "end")
    BY <2>1, Idle DEF PoolInv
  <2> QED BY <2>2 DEF Uses
<1> QED BY <1>1, PoolIsAligned, PTL

\* The variables keep their types; the count of the barrier is that of the
\* threads of the graph that wait in it.
THEOREM PoolTypes == Spec => []TypeOK
<1>1. Types /\ PoolInv => TypeOK
  <2> SUFFICES ASSUME Types, PoolInv PROVE TypeOK
    OBVIOUS
  <2>1. n_barrier \in 0..N
    <3>1. n_graph.n \in 0..N /\ N \in Nat
      BY Zero DEF Types, SharedTypes, Numbers
    <3>2. CASE ~AtWork \/ \E u \in Team : At(u, "open")
      BY <3>1, <3>2 DEF PoolInv, Places, LeadPlace, Counted
    <3>3. CASE AtWork /\ \A u \in Team : ~At(u, "open")
      BY <3>1, <3>3, WaitersAre DEF PoolInv, Counted
    <3> QED BY <3>2, <3>3
  <2>2. Numbers \subseteq [count : 0..GraphWrap - 1, n : 0..N]
    BY PoolAssumption DEF Numbers
  <2> QED BY <2>1, <2>2 DEF TypeOK, Types, SharedTypes, PcTypes, SeenTypes, LocalTypes
<1> QED BY <1>1, PoolIsAligned, PTL

-----------------------------------------------------------------------------
(* What is computed.  Between two barriers the threads share the work of one *)
(* node at most: the stage.                                                  *)

\* The stage that ends with the barrier after node k, and the one that ends
\* with barrier d.
Ends(g, k) ==
    IF Kind(g, k) = "matmul" THEN [node |-> k, kind |-> "chunk"]
    ELSE [node |-> IF FusedAway(g, k) THEN k - 1 ELSE k, kind |-> "part"]
Stage(g, stop_at, d) ==
    CASE d[1] = "chunk" -> [node |-> d[2], kind |-> "convert"]
      [] d[1] = "next"  -> Ends(g, d[2])
      [] OTHER -> IF stop_at = Len(g) /\ stop_at > 0 /\ Kind(g, stop_at - 1) # "empty"
                  THEN Ends(g, stop_at - 1)
                  ELSE [node |-> stop_at, kind |-> "none"]

\* What is computed before a stage.
Converts(k, nth) == {<<k, "convert", u>> : u \in 0..nth - 1}
Base(g, nth, s) == Work(g, nth, s.node) \cup IF s.kind = "chunk" THEN Converts(s.node, nth) ELSE {}

Now == Stage(cgraph, StopAt, Dest(0))
Nth == n_graph.n

\* A thread has done its parts of the nodes before DoneTo.
DoneTo(t) ==
    IF ~Current(t) \/ pc[t] \in {"wake", "start"} THEN 0
    ELSE IF pc[t] \in {"node", "part", "convert"} \/ (pc[t] \in BarPcs /\ bar[t].then = "end")
         THEN node[t]
         ELSE node[t] + 1

\* It holds a chunk, or has left the chunks of the node.
Holds(t) == Current(t) /\ (At(t, "chunk") \/ (Released(t) /\ bar[t].then = "chunk"))
Left(t)  == ~Holds(t) /\ ~At(t, "fetch")
Held     == {unit[t] : t \in {u \in Team : Holds(u)}}
Taken    == {u \in 0..nchunk(Nth) - 1 : u < current_chunk}

\* What is computed in the stage at work.
Done ==
    CASE Now.kind \in {"part", "convert"} ->
             {<<Now.node, Now.kind, t>> : t \in {u \in Team : DoneTo(u) > Now.node}}
      [] Now.kind = "chunk" -> {<<Now.node, "chunk", u>> : u \in Taken \ Held}
      [] OTHER -> {}

KindBound(t) ==
    /\ At(t, "node") => ~FusedAway(cgraph, node[t])
    /\ At(t, "part") => Kind(cgraph, node[t]) \in {"op", "fused"} /\ ~FusedAway(cgraph, node[t])
    /\ pc[t] \in {"convert", "chunk", "fetch"} => Kind(cgraph, node[t]) = "matmul"
    /\ At(t, "callback") => Kind(cgraph, node[t]) \in {"op", "matmul"}
    /\ pc[t] \in BarPcs /\ bar[t].then = "chunk" => Kind(cgraph, node[t]) = "matmul"
    /\ pc[t] \in BarPcs /\ bar[t].then = "next" => Kind(cgraph, node[t]) \in {"op", "matmul"}
    /\ pc[t] \in BarPcs /\ bar[t].then = "end" => node[t] = StopAt
Kinded == AtWork => \A t \in Team : Member(t) => KindBound(t)

\* The chunks of a product.
Converted ==
    AtWork /\ Now.kind = "convert" =>
    /\ \A t \in Team : DoneTo(t) > Now.node => unit[t] = t
    /\ DoneTo(0) > Now.node => current_chunk = Nth
Chunked ==
    AtWork /\ Now.kind = "chunk" =>
    /\ current_chunk >= Nth
    /\ \A t \in Team : Holds(t) => unit[t] \in Taken
    /\ \A t, u \in Team : Holds(t) /\ Holds(u) /\ unit[t] = unit[u] => t = u
    /\ \A t \in Team : Left(t) => current_chunk >= nchunk(Nth)

Computed == AtWork => did = Base(cgraph, Nth, Now) \cup Done
Whole ==
    /\ At(0, "kick") => did = {}
    /\ Released(0) /\ bar[0].then = "end" => did = Work(cgraph, run[0].nth, StopAt)
    /\ abort # -1 => ec = "aborted"
DidInv == Kinded /\ Converted /\ Chunked /\ Computed /\ Whole

-----------------------------------------------------------------------------
(* Stages of a graph.                                                       *)

LEMMA SharesAre ==
  ASSUME NEW g, NEW nth, NEW n, NEW w \in Shares(g, n, nth)
  PROVE  w[1] = n /\ Kind(g, n) # "empty" /\ ~FusedAway(g, n)
<1>1. CASE Kind(g, n) = "empty" \/ FusedAway(g, n)
  BY <1>1 DEF Shares
<1>2. CASE ~(Kind(g, n) = "empty" \/ FusedAway(g, n))
  <2>1. CASE Kind(g, n) = "matmul"
    <3>1. Shares(g, n, nth) = {<<n, "convert", u>> : u \in 0..nth - 1} \cup
                              {<<n, "chunk", u>> : u \in 0..nchunk(nth) - 1}
      BY <1>2, <2>1 DEF Shares
    <3> QED BY <1>2, <3>1
  <2>2. CASE Kind(g, n) # "matmul"
    <3>1. Shares(g, n, nth) = {<<n, "part", u>> : u \in 0..nth - 1}
      BY <1>2, <2>2 DEF Shares
    <3> QED BY <1>2, <3>1
  <2> QED BY <2>1, <2>2
<1> QED BY <1>1, <1>2

LEMMA WorkIs ==
  ASSUME NEW g, NEW nth, NEW n \in Int, NEW w
  PROVE  w \in Work(g, nth, n) <=> w[1] \in 0..n - 1 /\ w \in Shares(g, w[1], nth)
<1>1. w \in Work(g, nth, n) <=> \E k \in 0..n - 1 : w \in Shares(g, k, nth)
  BY DEF Work
<1>2. \A k \in 0..n - 1 : w \in Shares(g, k, nth) => w[1] = k
  BY SharesAre
<1> QED BY <1>1, <1>2

LEMMA WorkNext ==
  ASSUME NEW g, NEW nth, NEW n \in Nat
  PROVE  Work(g, nth, n + 1) = Work(g, nth, n) \cup Shares(g, n, nth)
<1>1. 0..(n + 1) - 1 = (0..n - 1) \cup {n}
  OBVIOUS
<1> QED BY <1>1 DEF Work

\* Nodes of which nothing is to be computed.
LEMMA WorkSkips ==
  ASSUME NEW g, NEW nth, NEW n \in Nat, NEW m \in Nat, n <= m,
         \A k \in n..m - 1 : Kind(g, k) = "empty"
  PROVE  Work(g, nth, m) = Work(g, nth, n)
<1>1. \A k \in n..m - 1 : Shares(g, k, nth) = {}
  BY DEF Shares
<1>2. 0..m - 1 = (0..n - 1) \cup (n..m - 1)
  OBVIOUS
<1>3. \A w : w \in Work(g, nth, m) <=> \E k \in 0..m - 1 : w \in Shares(g, k, nth)
  BY DEF Work
<1>4. \A w : w \in Work(g, nth, n) <=> \E k \in 0..n - 1 : w \in Shares(g, k, nth)
  BY DEF Work
<1> QED BY <1>1, <1>2, <1>3, <1>4

LEMMA FirstSkips ==
  ASSUME NEW g \in Graphs \cup {<<>>}, NEW n \in Nat
  PROVE  \A k \in n..Len(g) - 1 : k < First(g, n) => Kind(g, k) = "empty"
<1> SUFFICES ASSUME NEW k \in n..Len(g) - 1, k < First(g, n), Kind(g, k) # "empty" PROVE FALSE
  OBVIOUS
<1>1. Len(g) \in Nat
  BY GraphsAre
<1>2. Full(g, n) \in SUBSET Nat /\ k \in Full(g, n)
  BY <1>1 DEF Full
<1>3. First(g, n) <= k
  BY <1>2, LeastIs DEF First
<1>4. First(g, n) \in Nat
  BY FirstIs
<1> QED BY <1>1, <1>3, <1>4

\* Where a graph may be cut off.
Cuts(g, stop_at) == stop_at \in 0..Len(g) /\ (stop_at > 0 => Kind(g, stop_at - 1) # "fused")

LEMMA StageIs ==
  ASSUME NEW g \in Graphs \cup {<<>>}, NEW s, Cuts(g, s), NEW k \in Nat, k < s
  PROVE  /\ Stage(g, s, <<"chunk", k>>) = [node |-> k, kind |-> "convert"]
         /\ Kind(g, k) # "empty" => Stage(g, s, After(g, k)) = Ends(g, k)
         /\ Kind(g, k) \in {"op", "fused"} /\ ~FusedAway(g, k) =>
                Stage(g, s, After(g, Own(g, k))) = [node |-> k, kind |-> "part"]
<1>1. Len(g) \in Nat /\ s \in 0..Len(g) /\ k \in 0..Len(g) - 1
  BY GraphsAre DEF Cuts
<1>2. Stage(g, s, <<"chunk", k>>) = [node |-> k, kind |-> "convert"]
  BY DEF Stage
<1>3. ASSUME NEW j \in Nat, j < s, Kind(g, j) # "empty" PROVE Stage(g, s, After(g, j)) = Ends(g, j)
  <2>1. CASE j + 1 < Len(g)
    BY <2>1 DEF After, Stage
  <2>2. CASE j + 1 >= Len(g)
    <3>1. s = Len(g) /\ s > 0 /\ s - 1 = j
      BY <1>1, <1>3, <2>2
    <3>2. After(g, j) = End
      BY <1>1, <1>3, <2>2 DEF After
    <3>3. Kind(g, s - 1) # "empty"
      BY <1>3, <3>1
    <3> QED BY <1>3, <3>1, <3>2, <3>3 DEF Stage, End
  <2> QED BY <1>1, <1>3, <2>1, <2>2
<1>4. ASSUME Kind(g, k) \in {"op", "fused"}, ~FusedAway(g, k)
      PROVE  Stage(g, s, After(g, Own(g, k))) = [node |-> k, kind |-> "part"]
  <2>1. CASE Kind(g, k) = "op"
    <3>1. Own(g, k) = k /\ Ends(g, k) = [node |-> k, kind |-> "part"]
      BY <1>4, <2>1 DEF Own, Ends
    <3> QED BY <1>3, <2>1, <3>1
  <2>2. CASE Kind(g, k) = "fused"
    <3>1. Own(g, k) = k + 1 /\ k + 1 < Len(g) /\ Kind(g, k + 1) = "op"
      BY <1>1, <2>2, GraphsAre DEF Own
    <3>2. k + 1 < s
      BY <1>1, <2>2, <3>1 DEF Cuts
    <3>3. FusedAway(g, k + 1) /\ (k + 1) - 1 = k
      BY <2>2 DEF FusedAway
    <3>4. Ends(g, k + 1) = [node |-> k, kind |-> "part"]
      BY <3>1, <3>3 DEF Ends
    <3>5. k + 1 \in Nat
      OBVIOUS
    <3> QED BY <1>3, <3>1, <3>2, <3>4, <3>5
  <2> QED BY <1>4, <2>1, <2>2
<1> QED BY <1>2, <1>3, <1>4

\* The stage that begins at node n.
LEMMA FirstStage ==
  ASSUME NEW g \in Graphs \cup {<<>>}, NEW s, Cuts(g, s), NEW n \in Nat, n <= s,
         n < Len(g) \/ n = 0, ~FusedAway(g, n), NEW nth, NEW b, b = Stage(g, s, From(g, s, n))
  PROVE  /\ b.node \in n..s /\ b.kind \in {"part", "convert", "none"}
         /\ Base(g, nth, b) = Work(g, nth, n)
         /\ b.kind # "none" => Kind(g, b.node) # "empty"
<1> DEFINE f == First(g, n)
<1>1. Len(g) \in Nat /\ s \in 0..Len(g) /\ f \in n..Len(g)
  <2>1. Len(g) \in Nat /\ s \in 0..Len(g)
    BY GraphsAre DEF Cuts
  <2> QED BY <2>1, FirstIs
<1>2. \A k \in n..Len(g) - 1 : k < f => Kind(g, k) = "empty"
  BY FirstSkips
<1>3. CASE f >= s
  <2>1. From(g, s, n) = End
    BY <1>3 DEF From
  <2>2. ~(s = Len(g) /\ s > 0 /\ Kind(g, s - 1) # "empty")
    <3> SUFFICES ASSUME s = Len(g), s > 0 PROVE Kind(g, s - 1) = "empty"
      OBVIOUS
    <3>1. s - 1 \in n..Len(g) - 1 /\ s - 1 < f
      BY <1>1, <1>3
    <3> QED BY <1>2, <3>1
  <2>3. b = [node |-> s, kind |-> "none"]
    BY <2>1, <2>2 DEF Stage, End
  <2>4. s \in Nat /\ \A k \in n..s - 1 : Kind(g, k) = "empty"
    BY <1>1, <1>2, <1>3
  <2>5. Work(g, nth, s) = Work(g, nth, n)
    BY <2>4, WorkSkips
  <2>6. b.node = s /\ b.kind = "none"
    BY <2>3
  <2> QED BY <1>1, <2>5, <2>6 DEF Base
<1>4. CASE f < s
  <2>1. Kind(g, f) # "empty" /\ f \in Nat /\ f \in 0..Len(g) - 1
    BY <1>1, <1>4, FirstIs
  <2>2. ~FusedAway(g, f)
    <3>1. CASE f = n
      BY <3>1
    <3>2. CASE f # n
      <4>1. f - 1 \in n..Len(g) - 1 /\ f - 1 < f
        BY <1>1, <2>1, <3>2
      <4>2. Kind(g, f - 1) = "empty"
        BY <1>2, <4>1
      <4> QED BY <4>2 DEF FusedAway
    <3> QED BY <3>1, <3>2
  <2>3. Kind(g, f) \in Kinds
    BY <2>1, GraphsAre
  <2>4. b.node = f /\ b.kind \in {"part", "convert"}
    <3>1. CASE Kind(g, f) = "matmul"
      <4>1. From(g, s, n) = <<"chunk", f>>
        BY <1>1, <1>4, <3>1 DEF From
      <4>2. b = [node |-> f, kind |-> "convert"]
        BY <1>4, <2>1, <4>1, StageIs
      <4> QED BY <4>2
    <3>2. CASE Kind(g, f) # "matmul"
      <4>1. From(g, s, n) = After(g, Own(g, f)) /\ Kind(g, f) \in {"op", "fused"}
        BY <1>1, <1>4, <2>1, <2>3, <3>2 DEF From, Kinds
      <4>2. b = [node |-> f, kind |-> "part"]
        BY <1>4, <2>1, <2>2, <4>1, StageIs
      <4> QED BY <4>2
    <3> QED BY <3>1, <3>2
  <2>5. \A k \in n..f - 1 : Kind(g, k) = "empty"
    BY <1>1, <1>2
  <2>6. Work(g, nth, f) = Work(g, nth, n)
    BY <1>1, <2>1, <2>5, WorkSkips
  <2> QED BY <1>1, <1>4, <2>1, <2>4, <2>6 DEF Base
<1> QED BY <1>1, <1>3, <1>4

\* All that is computed when the stage before the barrier after k is done.
Parts(k, nth) == {<<k, "part", u>> : u \in 0..nth - 1}
Chunks(k, nth) == {<<k, "chunk", u>> : u \in 0..nchunk(nth) - 1}
All(s, nth) == CASE s.kind = "part"    -> Parts(s.node, nth)
                 [] s.kind = "convert" -> Converts(s.node, nth)
                 [] s.kind = "chunk"   -> Chunks(s.node, nth)
                 [] OTHER -> {}

LEMMA StageDone ==
  ASSUME NEW g \in Graphs \cup {<<>>}, NEW nth, NEW k \in 0..Len(g) - 1,
         Kind(g, k) \in {"op", "matmul"}
  PROVE  /\ Base(g, nth, Ends(g, k)) \cup All(Ends(g, k), nth) = Work(g, nth, k + 1)
         /\ Ends(g, k).node <= k /\ Ends(g, k).kind \in {"part", "chunk"}
<1>1. Len(g) \in Nat /\ k \in Nat
  BY GraphsAre
<1>2. Work(g, nth, k + 1) = Work(g, nth, k) \cup Shares(g, k, nth)
  BY <1>1, WorkNext
<1>3. CASE Kind(g, k) = "matmul"
  <2>1. ~FusedAway(g, k)
    <3>1. ASSUME k > 0, Kind(g, k - 1) = "fused" PROVE FALSE
      <4>1. k - 1 \in 0..Len(g) - 1 /\ (k - 1) + 1 = k
        BY <1>1, <3>1
      <4>2. Kind(g, (k - 1) + 1) = "op"
        BY <3>1, <4>1, GraphsAre
      <4> QED BY <1>3, <4>1, <4>2
    <3> QED BY <3>1 DEF FusedAway
  <2>2. Shares(g, k, nth) = Converts(k, nth) \cup Chunks(k, nth)
    BY <1>3, <2>1 DEF Shares, Converts, Chunks
  <2>3. Ends(g, k) = [node |-> k, kind |-> "chunk"]
    BY <1>3 DEF Ends
  <2> QED BY <1>1, <1>2, <2>2, <2>3 DEF Base, All
<1>4. CASE Kind(g, k) = "op" /\ ~FusedAway(g, k)
  <2>1. Shares(g, k, nth) = Parts(k, nth)
    BY <1>4 DEF Shares, Parts
  <2>2. Ends(g, k) = [node |-> k, kind |-> "part"]
    BY <1>4 DEF Ends
  <2> QED BY <1>1, <1>2, <2>1, <2>2 DEF Base, All
<1>5. CASE Kind(g, k) = "op" /\ FusedAway(g, k)
  <2>1. k > 0 /\ Kind(g, k - 1) = "fused" /\ k - 1 \in Nat
    BY <1>1, <1>5 DEF FusedAway
  <2>2. Shares(g, k, nth) = {}
    BY <1>5 DEF Shares
  <2>3. ~FusedAway(g, k - 1)
    <3>1. ASSUME k - 1 > 0, Kind(g, (k - 1) - 1) = "fused" PROVE FALSE
      <4>1. (k - 1) - 1 \in 0..Len(g) - 1 /\ ((k - 1) - 1) + 1 = k - 1
        BY <1>1, <2>1, <3>1
      <4>2. Kind(g, ((k - 1) - 1) + 1) = "op"
        BY <3>1, <4>1, GraphsAre
      <4> QED BY <2>1, <4>1, <4>2
    <3> QED BY <3>1 DEF FusedAway
  <2>4. Shares(g, k - 1, nth) = Parts(k - 1, nth)
    BY <2>1, <2>3 DEF Shares, Parts
  <2>5. (k - 1) + 1 = k
    BY <1>1
  <2>6. Work(g, nth, k) = Work(g, nth, k - 1) \cup Shares(g, k - 1, nth)
    BY <2>1, <2>5, WorkNext
  <2>7. Ends(g, k) = [node |-> k - 1, kind |-> "part"]
    BY <1>5 DEF Ends
  <2> QED BY <1>1, <1>2, <2>2, <2>4, <2>6, <2>7 DEF Base, All
<1> QED BY <1>3, <1>4, <1>5

\* Everything that a share of a stage may read is computed before the stage.
LEMMA StageReady ==
  ASSUME NEW g, NEW nth, NEW limit \in Int, NEW s, s.node \in Int, NEW w, w[1] = s.node,
         w[2] = s.kind, NEW v \in Work(g, nth, limit), Before(v, w)
  PROVE  v \in Base(g, nth, s)
<1>1. v[1] \in 0..limit - 1 /\ v \in Shares(g, v[1], nth)
  BY WorkIs
<1>2. CASE v[1] < w[1]
  BY <1>1, <1>2, WorkIs DEF Base
<1>3. CASE v[1] = w[1] /\ v[2] = "convert" /\ w[2] = "chunk"
  <2>1. v \in Converts(v[1], nth)
    <3>1. Kind(g, v[1]) # "empty" /\ ~FusedAway(g, v[1])
      BY <1>1, SharesAre
    <3> QED BY <1>1, <1>3, <3>1 DEF Shares, Converts
  <2> QED BY <1>3, <2>1 DEF Base
<1> QED BY <1>2, <1>3 DEF Before

-----------------------------------------------------------------------------
(* What a step does to the stage at work.                                   *)

LEMMA CutsHere ==
  ASSUME Types, PoolInv, AtWork
  PROVE  /\ Cuts(cgraph, StopAt) /\ StopAt \in Nat /\ Len(cgraph) \in Nat
         /\ \A n \in Nat : n < StopAt => n \in 0..Len(cgraph) - 1
<1>1. Cut /\ StopAt \in 0..Len(cgraph)
  BY StopIs
<1>2. Len(cgraph) \in Nat /\ cgraph \in Graphs \cup {<<>>} /\ abort \in Int
  BY ThreadTypes, Zero
<1>3. ASSUME StopAt > 0 PROVE Kind(cgraph, StopAt - 1) # "fused"
  <2>1. CASE abort = -1
    <3>1. Len(cgraph) - 1 \in 0..Len(cgraph) - 1 /\ StopAt = Len(cgraph)
      BY <1>2, <1>3, <2>1 DEF StopAt
    <3>2. Kind(cgraph, Len(cgraph) - 1) = "fused" => (Len(cgraph) - 1) + 1 < Len(cgraph)
      BY <1>2, <3>1, GraphsAre
    <3> QED BY <1>2, <3>1, <3>2
  <2>2. CASE abort # -1
    BY <1>1, <2>2 DEF Cut, StopAt
  <2> QED BY <2>1, <2>2
<1> QED BY <1>1, <1>2, <1>3 DEF Cuts

\* The stage of a thread that computes.
LEMMA NowIs ==
  ASSUME Types, PoolInv, Kinded, NEW t \in Threads,
         pc[t] \in {"part", "convert", "chunk", "fetch", "callback"}
  PROVE  /\ AtWork /\ t \in Team /\ Current(t) /\ Cuts(cgraph, StopAt) /\ KindBound(t)
         /\ cgraph \in Graphs /\ run[t].nth = Nth /\ run[t].graph = cgraph
         /\ node[t] \in 0..Len(cgraph) - 1 /\ node[t] < StopAt /\ node[t] \in Nat
         /\ At(t, "part") => Now = [node |-> node[t], kind |-> "part"]
         /\ At(t, "convert") => Now = [node |-> node[t], kind |-> "convert"]
         /\ pc[t] \in {"chunk", "fetch"} => Now = [node |-> node[t], kind |-> "chunk"]
         /\ At(t, "callback") => Now = Ends(cgraph, node[t])
         /\ pc[t] \in {"chunk", "fetch", "callback"} => Kind(cgraph, node[t]) \in {"op", "matmul"}
<1>1. pc[t] \in Inside /\ pc[t] # "start"
  BY DEF Inside
<1>2. /\ AtWork /\ t \in Team /\ Current(t) /\ Member(t) /\ NodeBound(t) /\ cgraph \in Graphs
  BY <1>1, Inner
<1>3. KindBound(t)
  BY <1>2 DEF Kinded
<1>4. node[t] \in Nat /\ node[t] < StopAt /\ run[t].nth = Nth /\ run[t].graph = cgraph
  BY <1>2, ThreadTypes DEF NodeBound, Nth
<1>5. Cuts(cgraph, StopAt) /\ node[t] \in 0..Len(cgraph) - 1 /\ Len(cgraph) \in Nat
  BY <1>2, <1>4, CutsHere
<1>6. Now = Stage(cgraph, StopAt, Dest(t))
  BY <1>2 DEF PoolInv, Aligned, Now
<1>7. ASSUME At(t, "part") PROVE Now = [node |-> node[t], kind |-> "part"]
  <2>1. Dest(t) = After(cgraph, Own(cgraph, node[t]))
    BY <1>2, <1>7 DEF Dest, At, BarPcs
  <2>2. Kind(cgraph, node[t]) \in {"op", "fused"} /\ ~FusedAway(cgraph, node[t])
    BY <1>3, <1>7 DEF KindBound
  <2> QED BY <1>2, <1>4, <1>5, <1>6, <2>1, <2>2, StageIs
<1>8. At(t, "convert") => Now = [node |-> node[t], kind |-> "convert"]
  <2>1. At(t, "convert") => Dest(t) = <<"chunk", node[t]>>
    BY <1>2 DEF Dest, At, BarPcs
  <2> QED BY <1>2, <1>4, <1>5, <1>6, <2>1, StageIs
<1>9. ASSUME pc[t] \in {"chunk", "fetch", "callback"}
      PROVE  Now = Ends(cgraph, node[t]) /\ Kind(cgraph, node[t]) \in {"op", "matmul"}
  <2>1. Dest(t) = After(cgraph, node[t])
    BY <1>2, <1>9 DEF Dest, At, BarPcs
  <2>2. Kind(cgraph, node[t]) \in {"op", "matmul"}
    BY <1>3, <1>9 DEF KindBound, At
  <2> QED BY <1>2, <1>4, <1>5, <1>6, <2>1, <2>2, StageIs
<1>10. pc[t] \in {"chunk", "fetch"} => Now = [node |-> node[t], kind |-> "chunk"]
  BY <1>3, <1>9 DEF KindBound, Ends
<1> QED BY <1>2, <1>3, <1>4, <1>5, <1>7, <1>8, <1>9, <1>10 DEF At

\* The steps of other threads leave a thread's part of the stage as it is.
LEMMA PartFrame ==
  ASSUME NEW u \in Threads, Same(u), Current(u)' <=> Current(u),
         UNCHANGED <<cgraph, n_graph, n_barrier_passed>>
  PROVE  /\ DoneTo(u)' = DoneTo(u)
         /\ Holds(u)' <=> Holds(u)
         /\ Left(u)' <=> Left(u)
         /\ Member(u)' <=> Member(u)
         /\ (StopAt' = StopAt \/ ~(pc[u] \in BarPcs /\ bar[u].then = "end"))
                => (KindBound(u)' <=> KindBound(u))
<1>1. \A p : At(u, p)' <=> At(u, p)
  BY DEF Same, At
<1>2. (Released(u)' <=> Released(u)) /\ (Member(u)' <=> Member(u))
  BY Frame
<1>3. DoneTo(u)' = DoneTo(u)
  BY DEF Same, DoneTo
<1>4. Holds(u)' <=> Holds(u)
  BY <1>1, <1>2 DEF Same, Holds
<1>5. Left(u)' <=> Left(u)
  BY <1>1, <1>4 DEF Left
<1>6. ASSUME \/ StopAt' = StopAt
             \/ ~(pc[u] \in BarPcs /\ bar[u].then = "end")
      PROVE  KindBound(u)' <=> KindBound(u)
  BY <1>1, <1>6 DEF Same, KindBound
<1> QED BY <1>2, <1>3, <1>4, <1>5, <1>6

\* A step that computes nothing and opens no barrier.
LEMMA Kept ==
  ASSUME Types, PoolInv, DidInv, NEW t \in Threads, AtWork, AtWork', Only(t), Now' = Now,
         \A u \in Team \ {t} : Current(u)' <=> Current(u),
         UNCHANGED <<cgraph, n_graph, n_barrier_passed, did, current_chunk, unit>>,
         \/ StopAt' = StopAt
         \/ \A u \in Team \ {t} : Member(u) => ~(pc[u] \in BarPcs /\ bar[u].then = "end"),
         abort' # -1 => ec' = "aborted",
         t \in Team => /\ Now.kind \in {"part", "convert"} =>
                              (DoneTo(t)' > Now.node <=> DoneTo(t) > Now.node)
                       /\ Holds(t)' <=> Holds(t)
                       /\ Left(t)' <=> Left(t)
                       /\ Member(t)' => KindBound(t)'
  PROVE  DidInv'
<1>1. Team' = Team /\ Nth' = Nth /\ Team \subseteq Threads
  BY TeamIs DEF Team, Nth
<1>2. ASSUME NEW u \in Team
      PROVE  /\ Now.kind \in {"part", "convert"} => (DoneTo(u)' > Now.node <=> DoneTo(u) > Now.node)
             /\ Holds(u)' <=> Holds(u)
             /\ Left(u)' <=> Left(u)
             /\ Member(u)' => KindBound(u)'
  <2>1. CASE u = t
    BY <2>1
  <2>2. CASE u # t
    <3>1. u \in Threads /\ Same(u) /\ (Current(u)' <=> Current(u))
      BY <1>1, <2>2 DEF Only
    <3>2. Member(u) => KindBound(u)
      BY DEF DidInv, Kinded
    <3> QED BY <2>2, <3>1, <3>2, PartFrame
  <2> QED BY <2>1, <2>2
<1>3. Kinded'
  BY <1>1, <1>2 DEF Kinded
<1>4. 0 \in Team
  BY DEF PoolInv, Places, LeadPlace
<1>5. Converted'
  BY <1>1, <1>2, <1>4 DEF Converted, DidInv
<1>6. Chunked'
  <2>1. Taken' = Taken
    BY <1>1 DEF Taken
  <2> QED BY <1>1, <1>2, <2>1 DEF Chunked, DidInv
<1>7. Done' = Done
  <2>1. Taken' = Taken /\ Held' = Held
    BY <1>1, <1>2 DEF Taken, Held
  <2>2. Now.kind \in {"part", "convert"} =>
            {u \in Team' : DoneTo(u)' > Now'.node} = {u \in Team : DoneTo(u) > Now.node}
    BY <1>1, <1>2
  <2> QED BY <2>1, <2>2 DEF Done
<1>8. Computed'
  BY <1>1, <1>7 DEF Computed, DidInv
<1>9. Whole'
  BY DEF Whole, AtWork, Released, At, Inside
<1> QED BY <1>3, <1>5, <1>6, <1>8, <1>9 DEF DidInv

\* No graph is at work, before and after.
LEMMA Rested ==
  ASSUME DidInv, ~AtWork', UNCHANGED <<did, abort, ec>>, pc'[0] # "kick",
         \/ pc'[0] # "spin"
         \/ pc'[0] = pc[0] /\ ~AtWork /\ UNCHANGED <<n_barrier_passed, bar, cgraph, run>>
  PROVE  DidInv'
<1>1. Kinded' /\ Converted' /\ Chunked' /\ Computed'
  BY DEF Kinded, Converted, Chunked, Computed
<1>2. Whole'
  BY DEF DidInv, Whole, Released, At, StopAt
<1> QED BY <1>1, <1>2 DEF DidInv

\* A step on the way to the same barrier.
LEMMA NowKept ==
  ASSUME Types, PoolInv, NEW t \in Threads, AtWork, Only(t), Dest(t)' = Dest(t),
         pc'[t] \in Inside \/ (pc'[t] = "spin" /\ ~Released(t)'),
         UNCHANGED <<cgraph, n_graph, n_barrier_passed, last_graph, abort>>
  PROVE  /\ AtWork' /\ Now' = Now /\ StopAt' = StopAt /\ Nth' = Nth
         /\ \A u \in Threads : Current(u)' <=> Current(u)
<1>1. StopAt' = StopAt /\ Nth' = Nth /\ \A u \in Threads : Current(u)' <=> Current(u)
  BY DEF StopAt, Current, Nth
<1>2. CASE t = 0
  BY <1>1, <1>2 DEF AtWork, At, Now
<1>3. CASE t # 0
  <2>1. 0 \in Threads /\ Same(0)
    BY <1>3, Zero DEF Only
  <2>2. Dest(0)' = Dest(0) /\ (Released(0)' <=> Released(0))
    BY <1>1, <2>1, Frame
  <2> QED BY <1>1, <2>1, <2>2 DEF AtWork, At, Same, Now
<1> QED BY <1>1, <1>2, <1>3

LEMMA StartDid ==
  ASSUME Types, PoolInv, DidInv, NEW t \in Threads, Start(t)
  PROVE  DidInv'
<1> USE DEF Start, Computing, control, lock, barrier
<1>1. pc[t] = "start" /\ pc[t] \in Inside
  BY DEF At, Inside
<1>2. AtWork /\ t \in Team /\ Current(t)
  BY <1>1, Inner
<1>3. pc'[t] = "node" /\ node'[t] = 0 /\ pc'[t] \in Inside
  BY ThreadTypes DEF Goto, Types, LocalTypes, Inside
<1>4. Only(t)
  BY ThreadTypes DEF Goto, Only, Same, Types, LocalTypes
<1>5. Dest(t)' = Dest(t)
  BY StartPool
<1>6. /\ AtWork' /\ Now' = Now /\ StopAt' = StopAt
      /\ \A u \in Threads : Current(u)' <=> Current(u)
  BY <1>2, <1>3, <1>4, <1>5, NowKept
<1>7. DoneTo(t) = 0 /\ DoneTo(t)' = 0
  BY <1>1, <1>3 DEF DoneTo
<1>8. ~Holds(t) /\ ~Holds(t)' /\ Left(t) /\ Left(t)'
  BY <1>1, <1>3 DEF Holds, Left, Released, At
<1>9. KindBound(t)'
  BY <1>3 DEF KindBound, At, BarPcs, FusedAway
<1>10. \A u \in Team : u \in Threads
  BY TeamIs
<1>11. abort' # -1 => ec' = "aborted"
  BY DEF DidInv, Whole
<1> QED BY <1>2, <1>4, <1>6, <1>7, <1>8, <1>9, <1>10, <1>11, Kept

LEMMA NodeDid ==
  ASSUME Types, PoolInv, DidInv, NEW t \in Threads, Node(t)
  PROVE  DidInv'
<1> USE DEF Node, Computing, control, lock, barrier
<1>1. pc[t] = "node" /\ pc[t] \in Inside
  BY DEF At, Inside
<1>2. /\ AtWork /\ t \in Team /\ Current(t) /\ Member(t) /\ NodeBound(t)
      /\ run[t].graph = cgraph /\ cgraph \in Graphs
  BY <1>1, Inner DEF NodeBound
<1>3. ~FusedAway(cgraph, node[t])
  BY <1>1, <1>2 DEF DidInv, Kinded, KindBound, At
<1>4. /\ Cuts(cgraph, StopAt) /\ StopAt \in Nat /\ Len(cgraph) \in Nat
      /\ node[t] \in Nat /\ node[t] <= StopAt
  BY <1>1, <1>2, CutsHere, ThreadTypes DEF NodeBound, At
<1>5. Only(t)
  BY ThreadTypes DEF CallBarrier, Goto, Only, Same, Types, LocalTypes
<1>6. Dest(t)' = Dest(t)
  BY NodePool
<1>7. abort' # -1 => ec' = "aborted"
  BY DEF DidInv, Whole
<1>8. \A u \in Team : u \in Threads
  BY TeamIs
<1>9. ~Holds(t) /\ Left(t) /\ DoneTo(t) = node[t]
  BY <1>1, <1>2 DEF Holds, Left, Released, At, DoneTo
<1>10. ASSUME pc'[t] \in Inside \ {"chunk", "fetch", "spin"}, KindBound(t)' \/ StopAt' # StopAt,
              Now.kind \in {"part", "convert"} => (DoneTo(t)' > Now.node <=> DoneTo(t) > Now.node)
       PROVE  DidInv'
  <2>1. /\ AtWork' /\ Now' = Now /\ StopAt' = StopAt
        /\ \A u \in Threads : Current(u)' <=> Current(u)
    BY <1>2, <1>5, <1>6, <1>10, NowKept
  <2>2. ~Holds(t)' /\ Left(t)'
    BY <1>10 DEF Holds, Left, Released, At, Inside
  <2> QED BY <1>2, <1>5, <1>7, <1>8, <1>9, <1>10, <2>1, <2>2, Kept
<1>11. Current(t)' /\ StopAt' = StopAt
  BY <1>2 DEF Current, StopAt
<1>12. CASE /\ node[t] >= Len(cgraph) \/ abort = node[t]
            /\ CallBarrier(t, "end") /\ UNCHANGED node
  <2>1. pc'[t] = "arrive" /\ bar'[t].then = "end" /\ node'[t] = node[t] /\ pc'[t] \in Inside
    BY <1>12, ThreadTypes DEF CallBarrier, Goto, Types, LocalTypes, Bars, Inside
  <2>2. DoneTo(t)' = node[t]
    BY <1>11, <2>1 DEF DoneTo, BarPcs
  <2>3. node[t] = StopAt
    <3>1. node[t] >= Len(cgraph) => node[t] = StopAt
      BY <1>4 DEF Cuts
    <3>2. abort = node[t] => node[t] = StopAt
      BY <1>4 DEF StopAt
    <3> QED BY <1>12, <3>1, <3>2
  <2>4. KindBound(t)'
    BY <1>11, <2>1, <2>3 DEF KindBound, At, BarPcs
  <2> QED BY <1>9, <1>10, <2>1, <2>2, <2>4
<1>13. CASE /\ node[t] < Len(cgraph) /\ abort # node[t] /\ UNCHANGED bar
            /\ LET k == Kind(cgraph, node[t]) IN
               /\ Goto(t, Entry(k))
               /\ node' = [node EXCEPT ![t] = IF k = "empty" THEN @ + 1 ELSE @]
  <2> DEFINE k == Kind(cgraph, node[t])
  <2>1. pc'[t] = Entry(k) /\ node'[t] = IF k = "empty" THEN node[t] + 1 ELSE node[t]
    BY <1>13, ThreadTypes DEF Goto, Types, LocalTypes
  <2>2. k \in Kinds
    BY <1>2, <1>4, <1>13, GraphsAre
  <2>3. CASE k = "empty"
    <3>1. pc'[t] = "node" /\ node'[t] = node[t] + 1
      BY <2>1, <2>3 DEF Entry
    <3>2. ~FusedAway(cgraph, node[t] + 1)
      <4>1. (node[t] + 1) - 1 = node[t]
        BY <1>4
      <4> QED BY <2>3, <4>1 DEF FusedAway
    <3>3. KindBound(t)'
      BY <3>1, <3>2 DEF KindBound, At, BarPcs
    <3>4. Now = Stage(cgraph, StopAt, From(cgraph, StopAt, node[t]))
      <4>1. Dest(t) = From(cgraph, StopAt, node[t])
        BY <1>1, <1>2 DEF Dest, At, BarPcs
      <4> QED BY <1>2, <4>1 DEF PoolInv, Aligned, Now
    <3>5. cgraph \in Graphs \cup {<<>>} /\ (node[t] < Len(cgraph) \/ node[t] = 0)
      BY <1>2, <1>13
    <3>6. Now.node \in node[t]..StopAt /\ (Now.kind # "none" => Kind(cgraph, Now.node) # "empty")
      BY <1>3, <1>4, <3>4, <3>5, FirstStage
    <3>7. DoneTo(t)' = node[t] + 1
      BY <1>11, <3>1 DEF DoneTo
    <3>8. Now.kind # "none" => ~(DoneTo(t)' > Now.node) /\ ~(DoneTo(t) > Now.node)
      BY <1>4, <1>9, <2>3, <3>6, <3>7
    <3> QED BY <1>10, <3>1, <3>3, <3>8 DEF Inside
  <2>4. CASE k = "matmul"
    <3>1. pc'[t] = "convert" /\ node'[t] = node[t]
      BY <2>1, <2>4 DEF Entry
    <3>2. KindBound(t)'
      BY <2>4, <3>1 DEF KindBound, At, BarPcs
    <3>3. DoneTo(t)' = node[t]
      BY <1>11, <3>1 DEF DoneTo
    <3> QED BY <1>9, <1>10, <3>1, <3>2, <3>3 DEF Inside
  <2>5. CASE k \notin {"empty", "matmul"}
    <3>1. pc'[t] = "part" /\ node'[t] = node[t] /\ k \in {"op", "fused"}
      BY <2>1, <2>2, <2>5 DEF Entry, Kinds
    <3>2. KindBound(t)'
      BY <1>3, <3>1 DEF KindBound, At, BarPcs
    <3>3. DoneTo(t)' = node[t]
      BY <1>11, <3>1 DEF DoneTo
    <3> QED BY <1>9, <1>10, <3>1, <3>2, <3>3 DEF Inside
  <2> QED BY <2>3, <2>4, <2>5
<1> QED BY <1>2, <1>12, <1>13

LEMMA CallbackDid ==
  ASSUME Types, PoolInv, DidInv, NEW t \in Threads, Callback(t)
  PROVE  DidInv'
<1> USE DEF Callback, Computing, control, lock, barrier
<1>1. pc[t] = "callback" /\ pc[t] \in Inside /\ Kinded
  BY DEF At, Inside, DidInv
<1>2. /\ AtWork /\ t \in Team /\ Current(t) /\ KindBound(t) /\ Cuts(cgraph, StopAt)
      /\ run[t].graph = cgraph /\ node[t] \in Nat /\ node[t] < StopAt
      /\ Kind(cgraph, node[t]) \in {"op", "matmul"}
  BY <1>1, NowIs
<1>3. Only(t)
  BY ThreadTypes DEF CallBarrier, Goto, Only, Same, Types, LocalTypes
<1>4. Dest(t)' = Dest(t)
  BY CallbackPool
<1>5. Len(cgraph) \in Nat /\ StopAt \in Nat /\ LeadBound
  BY <1>2, CutsHere DEF PoolInv, Bounds
<1>6. \/ /\ pc'[t] = "arrive" /\ node'[t] = node[t] /\ bar'[t].then = "next"
         /\ node[t] + 1 < Len(cgraph)
      \/ /\ pc'[t] = "node" /\ node'[t] = node[t] + 1 /\ bar'[t] = bar[t]
         /\ node[t] + 1 >= Len(cgraph)
  BY <1>2, <1>5, ThreadTypes DEF CallBarrier, Goto, Types, LocalTypes, Bars
<1>7. Current(t)' /\ pc'[t] \in Inside /\ \A u \in Team : u \in Threads /\ (Current(u)' <=> Current(u))
  BY <1>2, <1>6, TeamIs DEF Current, Inside
<1>8. Dest(t) = After(cgraph, node[t])
  BY <1>1, <1>2 DEF Dest, At, BarPcs
<1>9. AtWork' /\ Now' = Now
      /\ \/ StopAt' = StopAt
         \/ \A u \in Team \ {t} : Member(u) => ~(pc[u] \in BarPcs /\ bar[u].then = "end")
  <2>1. CASE UNCHANGED <<abort, ec>>
    BY <1>2, <1>3, <1>4, <1>7, <2>1, NowKept
  <2>2. CASE t = 0 /\ abort' = node[t] + 1
    <3>1. AtWork' /\ abort = -1 /\ StopAt = Len(cgraph) /\ StopAt' = node[t] + 1
      BY <1>1, <1>2, <1>5, <1>7, <2>2 DEF AtWork, LeadBound, StopAt
    <3>2. CASE node[t] + 1 >= Len(cgraph)
      <4>1. StopAt' = StopAt
        BY <1>2, <1>5, <3>1, <3>2
      <4> QED BY <1>4, <2>2, <3>1, <4>1 DEF Now
    <3>3. CASE node[t] + 1 < Len(cgraph)
      <4>1. Dest(0) = <<"next", node[t]>> /\ Dest(0)' = <<"next", node[t]>>
        BY <1>4, <1>8, <2>2, <3>3 DEF After
      <4>2. Now' = Now
        BY <4>1 DEF Now, Stage
      <4>3. ASSUME NEW u \in Team \ {t}, Member(u), pc[u] \in BarPcs, bar[u].then = "end"
            PROVE  FALSE
        <5>1. Current(u) /\ u \in Workers
          BY <1>7, <2>2, <4>3, Zero DEF Member
        <5>2. ~Released(u)
          BY <1>2, <4>3, <5>1 DEF PoolInv, Places, PlaceOf, Released, At
        <5>3. Dest(u) = End
          BY <4>3, <5>1, <5>2 DEF Dest, At, BarPcs
        <5>4. Dest(u) = Dest(0)
          BY <1>2 DEF PoolInv, Aligned
        <5> QED BY <4>1, <5>3, <5>4 DEF End
      <4> QED BY <3>1, <4>2, <4>3
    <3> QED BY <1>5, <3>2, <3>3, <1>2
  <2> QED BY <2>1, <2>2
<1>10. DoneTo(t) = node[t] + 1 /\ DoneTo(t)' = node[t] + 1
  BY <1>1, <1>2, <1>6, <1>7 DEF DoneTo, BarPcs
<1>11. ~Holds(t) /\ ~Holds(t)' /\ Left(t) /\ Left(t)'
  BY <1>1, <1>6 DEF Holds, Left, Released, At
<1>12. KindBound(t)'
  <2>1. (node[t] + 1) - 1 = node[t]
    BY <1>2
  <2> QED BY <1>2, <1>6, <2>1 DEF KindBound, At, BarPcs, FusedAway
<1>13. abort' # -1 => ec' = "aborted"
  BY DEF DidInv, Whole
<1>14. UNCHANGED <<cgraph, n_graph, n_barrier_passed, did, current_chunk, unit>>
  OBVIOUS
<1> QED BY <1>2, <1>3, <1>7, <1>9, <1>10, <1>11, <1>12, <1>13, <1>14, Kept

\* Steps into and within a barrier.
LEMMA BarDid ==
  ASSUME Types, PoolInv, DidInv, NEW t \in Threads,
         Enter(t) \/ LastResets(t) \/ (Arrive(t) /\ n_graph.n # 1)
  PROVE  DidInv'
<1>1. pc[t] \in {"enter", "last", "arrive"} /\ pc[t] \in Inside /\ pc[t] \in BarPcs /\ Meeting
  BY DEF Enter, LastResets, Arrive, At, Inside, BarPcs
<1>2. AtWork /\ t \in Team /\ Current(t) /\ Member(t)
  BY <1>1, Inner
<1>3. Dest(t)' = Dest(t)
  BY EnterPool, ResetPool, ArrivePool
<1>4. UNCHANGED <<cgraph, abort, ec, current_chunk, n_graph, last_graph, run, unit, did, node,
                  n_barrier_passed>>
  BY <1>1 DEF Meeting, Enter, LastResets, Arrive, caller, control, barrier
<1>5. pc'[t] \in {"enter", "last", "open", "spin"} /\ Only(t) /\ bar'[t].then = bar[t].then
      /\ (pc'[t] = "spin" => bar'[t] = bar[t] /\ pc[t] = "enter")
  <2>1. CASE Enter(t) \/ LastResets(t)
    BY <1>4, <2>1, ThreadTypes DEF Enter, LastResets, Goto, Only, Same, At
  <2>2. CASE Arrive(t) /\ n_graph.n # 1
    <3>1. Goto(t, "enter")
          /\ bar' = [bar EXCEPT ![t].n = n_graph.n, ![t].passed = n_barrier_passed]
      BY <2>2 DEF Arrive
    <3> QED BY <1>4, <3>1, ThreadTypes DEF Goto, Only, Same, Types, LocalTypes, Bars
  <2> QED BY <2>1, <2>2
<1>6. ~Released(t) /\ ~Released(t)'
  <2>1. pc[t] = "enter" => bar[t].passed = n_barrier_passed
    BY <1>2 DEF PoolInv, Counted
  <2> QED BY <1>1, <1>4, <1>5, <2>1 DEF Released, At
<1>7. /\ AtWork' /\ Now' = Now /\ StopAt' = StopAt
      /\ \A u \in Threads : Current(u)' <=> Current(u)
  BY <1>2, <1>3, <1>4, <1>5, <1>6, NowKept DEF Inside
<1>8. pc'[t] \in BarPcs /\ Current(t)' /\ \A u \in Team : u \in Threads
  BY <1>2, <1>5, <1>7, TeamIs DEF BarPcs
<1>9. DoneTo(t)' = DoneTo(t)
  BY <1>1, <1>2, <1>4, <1>5, <1>8 DEF DoneTo, BarPcs
<1>10. ~Holds(t) /\ ~Holds(t)' /\ Left(t) /\ Left(t)'
  BY <1>1, <1>5, <1>6 DEF Holds, Left, At
<1>11. KindBound(t)'
  <2>1. KindBound(t)
    BY <1>2 DEF DidInv, Kinded
  <2> QED BY <1>1, <1>4, <1>5, <1>7, <1>8, <2>1 DEF KindBound, At
<1>12. abort' # -1 => ec' = "aborted"
  BY <1>4 DEF DidInv, Whole
<1> QED BY <1>2, <1>4, <1>5, <1>7, <1>8, <1>9, <1>10, <1>11, <1>12, Kept

\* A thread that is let go.
LEMMA SpinDid ==
  ASSUME Types, PoolInv, DidInv, NEW t \in Threads, Spin(t)
  PROVE  DidInv'
<1>1. /\ pc[t] = "spin" /\ Released(t) /\ Meeting /\ Return(t) /\ pc[t] \in GraphPcs \ {"start"}
      /\ pc[t] \in BarPcs
  BY DEF Spin, barrier, At, Released, GraphPcs, Inside, BarPcs
<1>2. UNCHANGED <<cgraph, abort, ec, current_chunk, n_graph, last_graph, run, unit, did,
                  n_barrier_passed>>
  BY <1>1 DEF Spin, Meeting, caller, control, barrier
<1>3. /\ bar[t].then = "next" => pc'[t] = "node" /\ node'[t] = node[t] + 1
      /\ bar[t].then = "chunk" => pc'[t] = "chunk" /\ node'[t] = node[t]
      /\ bar[t].then = "end" => pc'[t] = (IF t = 0 THEN "idle" ELSE "loop")
      /\ Only(t) /\ bar[t].then \in {"next", "chunk", "end"} /\ node[t] \in Nat
  BY <1>1, ReturnIs, ThreadTypes
<1>4. \A u \in Threads : (Current(u)' <=> Current(u)) /\ (u # 0 => u \in Workers)
  BY <1>2, Zero DEF Current
<1>5. abort' # -1 => ec' = "aborted"
  BY <1>2 DEF DidInv, Whole
<1>6. \A u \in Team : u \in Threads
  BY TeamIs
<1>7. CASE ~AtWork
  <2>1. CASE t = 0
    <3>1. pc'[0] = "idle"
      BY <1>1, <1>3, <1>7, <2>1 DEF AtWork, At
    <3> QED BY <1>2, <3>1, Rested DEF AtWork, At, Inside
  <2>2. CASE t # 0
    <3>1. pc'[0] = pc[0] /\ bar'[0] = bar[0]
      BY <1>3, <2>2, Zero DEF Only, Same
    <3>2. ~AtWork'
      BY <1>2, <1>7, <3>1 DEF AtWork, At, Released
    <3>3. CASE pc[0] = "spin"
      <4>1. Whole'
        BY <1>2, <1>5, <3>1, <3>3 DEF DidInv, Whole, Released, At, StopAt
      <4> QED BY <3>2, <4>1 DEF DidInv, Kinded, Converted, Chunked, Computed
    <3>4. CASE pc[0] # "spin"
      <4>1. Whole'
        BY <1>2, <1>5, <3>1, <3>4 DEF DidInv, Whole, Released, At
      <4> QED BY <3>2, <4>1 DEF DidInv, Kinded, Converted, Chunked, Computed
    <3> QED BY <3>3, <3>4
  <2> QED BY <2>1, <2>2
<1>8. CASE AtWork /\ ~Current(t)
  <2>1. t # 0 /\ pc'[0] = pc[0] /\ bar'[0] = bar[0] /\ Same(0) /\ 0 \in Threads
    BY <1>3, <1>8, Zero DEF Current, Only, Same
  <2>2. AtWork' /\ StopAt' = StopAt
    BY <1>2, <1>8, <2>1 DEF AtWork, At, Released, StopAt
  <2>3. Now' = Now
    <3>1. Dest(0)' = Dest(0)
      BY <1>2, <1>4, <2>1, Frame
    <3> QED BY <1>2, <2>2, <3>1 DEF Now
  <2>4. ~Member(t)' /\ DoneTo(t)' = DoneTo(t)
    BY <1>4, <1>8 DEF Member, DoneTo
  <2>5. ~Holds(t) /\ ~Holds(t)'
    BY <1>4, <1>8 DEF Holds
  <2>6. pc'[t] \in {"loop", "node", "chunk"} /\ Left(t) /\ Left(t)'
    BY <1>1, <1>3, <2>1, <2>5 DEF Left, At
  <2> QED BY <1>2, <1>3, <1>4, <1>5, <1>6, <1>8, <2>2, <2>3, <2>4, <2>5, <2>6, Kept
<1>9. CASE AtWork /\ Current(t)
  <2>1. t \in Team /\ bar[t].then # "end"
    BY <1>1, <1>4, <1>9 DEF PoolInv, Places, PlaceOf, LeadPlace, AtWork, At, Inside
  <2>2. Member(t)
    BY <1>1, <1>9, <2>1 DEF Member
  <2>3. KindBound(t)
    BY <1>9, <2>1, <2>2 DEF DidInv, Kinded
  <2>4. Dest(t)' = Dest(t)
    BY <1>9, SpinPool
  <2>5. pc'[t] \in {"node", "chunk"} /\ pc'[t] \in Inside
    BY <1>3, <2>1 DEF Inside
  <2>6. /\ AtWork' /\ Now' = Now /\ StopAt' = StopAt
    BY <1>2, <1>3, <1>9, <2>4, <2>5, NowKept
  <2>7. Current(t)'
    BY <1>4, <1>9
  <2>8. CASE bar[t].then = "next"
    <3>1. pc'[t] = "node" /\ node'[t] = node[t] + 1
      BY <1>3, <2>8
    <3>2. DoneTo(t) = node[t] + 1 /\ DoneTo(t)' = node[t] + 1
      BY <1>1, <1>9, <2>7, <2>8, <3>1 DEF DoneTo
    <3>3. ~Holds(t) /\ ~Holds(t)' /\ Left(t) /\ Left(t)'
      BY <1>1, <2>8, <3>1 DEF Holds, Left, Released, At
    <3>4. KindBound(t)'
      <4>1. Kind(cgraph, node[t]) \in {"op", "matmul"} /\ (node[t] + 1) - 1 = node[t]
        BY <1>1, <1>3, <2>3, <2>8 DEF KindBound
      <4> QED BY <1>2, <3>1, <4>1 DEF KindBound, At, BarPcs, FusedAway
    <3> QED BY <1>2, <1>3, <1>4, <1>5, <1>6, <1>9, <2>6, <3>2, <3>3, <3>4, Kept
  <2>9. CASE bar[t].then = "chunk"
    <3>1. pc'[t] = "chunk" /\ node'[t] = node[t]
      BY <1>3, <2>9
    <3>2. DoneTo(t) = node[t] + 1 /\ DoneTo(t)' = node[t] + 1
      BY <1>1, <1>9, <2>7, <2>9, <3>1 DEF DoneTo, BarPcs
    <3>3. Holds(t) /\ Holds(t)' /\ ~Left(t) /\ ~Left(t)'
      BY <1>1, <1>9, <2>7, <2>9, <3>1 DEF Holds, Left, At
    <3>4. KindBound(t)'
      BY <1>1, <1>2, <2>3, <2>9, <3>1 DEF KindBound, At, BarPcs
    <3> QED BY <1>2, <1>3, <1>4, <1>5, <1>6, <1>9, <2>6, <3>2, <3>3, <3>4, Kept
  <2> QED BY <1>3, <2>1, <2>8, <2>9
<1> QED BY <1>7, <1>8, <1>9

\* Steps that compute.
LEMMA WorkFrame ==
  ASSUME Types, PoolInv, DidInv, NEW t \in Threads, Part(t) \/ Convert(t) \/ Chunk(t) \/ Fetch(t)
  PROVE  /\ AtWork /\ AtWork' /\ Now' = Now /\ StopAt' = StopAt /\ Nth' = Nth /\ Team' = Team
         /\ t \in Team /\ 0 \in Team /\ Team \subseteq Threads /\ Current(t) /\ Current(t)'
         /\ UNCHANGED <<cgraph, n_graph, abort, ec>>
         /\ \A u \in Team \ {t} : /\ DoneTo(u)' = DoneTo(u) /\ unit'[u] = unit[u]
                                  /\ Holds(u)' <=> Holds(u)
                                  /\ Left(u)' <=> Left(u)
         /\ KindBound(t)' => Kinded'
         /\ Whole'
<1> USE DEF Computing, control, lock, barrier, locals
<1>1. pc[t] \in {"part", "convert", "chunk", "fetch"} /\ Kinded
  BY DEF Part, Convert, Chunk, Fetch, At, DidInv
<1>2. AtWork /\ t \in Team /\ Current(t)
  BY <1>1, NowIs
<1>3. UNCHANGED <<cgraph, abort, ec, n_graph, n_barrier_passed, last_graph, run>>
  BY DEF Part, Convert, Chunk, Fetch
<1>4. \A u \in Threads \ {t} : node'[u] = node[u] /\ bar'[u] = bar[u] /\ unit'[u] = unit[u]
  BY DEF Part, Convert, Chunk, Fetch, CallBarrier, Types, LocalTypes
<1>5. PICK p \in {"callback", "arrive", "chunk", "fetch"} : Goto(t, p)
  BY DEF Part, Convert, Chunk, Fetch, CallBarrier
<1>6. pc'[t] = p /\ p \in Inside /\ Only(t)
  BY <1>3, <1>4, <1>5, ThreadTypes DEF Goto, Only, Same, Inside
<1>7. Dest(t)' = Dest(t)
  BY WorkPool
<1>8. /\ AtWork' /\ Now' = Now /\ StopAt' = StopAt /\ Nth' = Nth
      /\ \A u \in Threads : Current(u)' <=> Current(u)
  BY <1>2, <1>3, <1>6, <1>7, NowKept
<1>9. Team' = Team /\ Team \subseteq Threads /\ 0 \in Team
  BY <1>2, <1>3, TeamIs DEF Team, PoolInv, Places, LeadPlace
<1>10. ASSUME NEW u \in Team \ {t}
       PROVE  /\ DoneTo(u)' = DoneTo(u) /\ unit'[u] = unit[u]
              /\ Holds(u)' <=> Holds(u)
              /\ Left(u)' <=> Left(u)
              /\ Member(u)' => KindBound(u)'
  <2>1. u \in Threads /\ u # t /\ Same(u) /\ (Current(u)' <=> Current(u))
    BY <1>6, <1>8, <1>9 DEF Only
  <2>2. Member(u) => KindBound(u)
    BY <1>1, <1>2 DEF Kinded
  <2> QED BY <1>3, <1>4, <1>8, <2>1, <2>2, PartFrame
<1>11. KindBound(t)' => Kinded'
  BY <1>9, <1>10 DEF Kinded
<1>12. Whole'
  BY <1>3, <1>8 DEF DidInv, Whole, AtWork, Released, At, Inside
<1> QED BY <1>2, <1>3, <1>8, <1>9, <1>10, <1>11, <1>12

LEMMA PartDid ==
  ASSUME Types, PoolInv, DidInv, NEW t \in Threads, Part(t)
  PROVE  DidInv'
<1> USE DEF Part, Computing
<1>1. pc[t] = "part" /\ At(t, "part") /\ Kinded
  BY DEF At, DidInv
<1>2. /\ AtWork /\ t \in Team /\ Current(t) /\ KindBound(t) /\ run[t].graph = cgraph
      /\ cgraph \in Graphs /\ node[t] \in 0..Len(cgraph) - 1 /\ node[t] \in Nat
      /\ Now = [node |-> node[t], kind |-> "part"]
  BY <1>1, NowIs
<1>3. /\ AtWork' /\ Now' = Now /\ StopAt' = StopAt /\ Nth' = Nth /\ Team' = Team
      /\ Current(t)' /\ UNCHANGED <<cgraph, n_graph>>
      /\ \A u \in Team \ {t} : DoneTo(u)' = DoneTo(u)
      /\ KindBound(t)' => Kinded'
      /\ Whole'
  BY WorkFrame
<1>4. pc'[t] = "callback" /\ node'[t] = Own(cgraph, node[t])
  BY <1>2, ThreadTypes DEF Goto, Own, Types, LocalTypes
<1>5. DoneTo(t) = node[t] /\ DoneTo(t)' = Own(cgraph, node[t]) + 1
  BY <1>1, <1>2, <1>3, <1>4 DEF DoneTo, BarPcs
<1>6. DoneTo(t)' > node[t] /\ ~(DoneTo(t) > node[t])
  BY <1>2, <1>5 DEF Own
<1>7. Now.node = node[t] /\ Now.kind = "part"
  BY <1>2
<1>8. {u \in Team' : DoneTo(u)' > Now'.node} = {u \in Team : DoneTo(u) > Now.node} \cup {t}
  BY <1>2, <1>3, <1>6, <1>7
<1>9. Done' = Done \cup {<<node[t], "part", t>>}
  BY <1>3, <1>7, <1>8 DEF Done
<1>10. Computed'
  BY <1>2, <1>3, <1>9 DEF Computed, DidInv
<1>11. KindBound(t)'
  <2>1. Kind(cgraph, node[t]) \in {"op", "fused"}
    BY <1>1, <1>2 DEF KindBound
  <2>2. Kind(cgraph, node[t]) = "fused" => Kind(cgraph, node[t] + 1) = "op"
    BY <1>2, GraphsAre
  <2> QED BY <1>3, <1>4, <2>1, <2>2 DEF KindBound, At, BarPcs, Own
<1> QED BY <1>3, <1>7, <1>10, <1>11 DEF DidInv, Converted, Chunked

LEMMA ConvertDid ==
  ASSUME Types, PoolInv, DidInv, NEW t \in Threads, Convert(t)
  PROVE  DidInv'
<1> USE DEF Convert, CallBarrier, Computing
<1>1. pc[t] = "convert" /\ At(t, "convert") /\ Kinded
  BY DEF At, DidInv
<1>2. /\ AtWork /\ t \in Team /\ Current(t) /\ KindBound(t) /\ run[t].nth = Nth
      /\ node[t] \in Nat /\ Now = [node |-> node[t], kind |-> "convert"]
  BY <1>1, NowIs
<1>3. /\ AtWork' /\ Now' = Now /\ StopAt' = StopAt /\ Nth' = Nth /\ Team' = Team
      /\ Current(t)' /\ UNCHANGED <<cgraph, n_graph>> /\ 0 \in Team
      /\ \A u \in Team \ {t} : DoneTo(u)' = DoneTo(u) /\ unit'[u] = unit[u]
      /\ KindBound(t)' => Kinded'
      /\ Whole'
  BY WorkFrame
<1>4. pc'[t] = "arrive" /\ node'[t] = node[t] /\ bar'[t].then = "chunk" /\ unit'[t] = t
  BY ThreadTypes DEF Goto, Types, LocalTypes, Bars
<1>5. DoneTo(t) = node[t] /\ DoneTo(t)' = node[t] + 1
  BY <1>1, <1>2, <1>3, <1>4 DEF DoneTo, BarPcs
<1>6. DoneTo(t)' > node[t] /\ ~(DoneTo(t) > node[t])
  BY <1>2, <1>5
<1>7. Now.node = node[t] /\ Now.kind = "convert"
  BY <1>2
<1>8. {u \in Team' : DoneTo(u)' > Now'.node} = {u \in Team : DoneTo(u) > Now.node} \cup {t}
  BY <1>2, <1>3, <1>6, <1>7
<1>9. Done' = Done \cup {<<node[t], "convert", t>>}
  BY <1>3, <1>7, <1>8 DEF Done
<1>10. Computed'
  BY <1>2, <1>3, <1>9 DEF Computed, DidInv
<1>11. KindBound(t)'
  BY <1>1, <1>2, <1>3, <1>4 DEF KindBound, At, BarPcs
<1>12. Converted'
  <2>1. (\A u \in Team : DoneTo(u) > Now.node => unit[u] = u)
        /\ (DoneTo(0) > Now.node => current_chunk = Nth)
    BY <1>2, <1>7 DEF Converted, DidInv
  <2>2. \A u \in Team : DoneTo(u)' > Now.node => unit'[u] = u
    BY <1>3, <1>4, <2>1
  <2>3. DoneTo(0)' > Now.node => current_chunk' = Nth
    <3>1. CASE t = 0
      BY <1>2, <3>1
    <3>2. CASE t # 0
      BY <1>3, <2>1, <3>2
    <3> QED BY <3>1, <3>2
  <2> QED BY <1>3, <2>2, <2>3 DEF Converted
<1> QED BY <1>3, <1>7, <1>10, <1>11, <1>12 DEF DidInv, Chunked

LEMMA NthIs ==
  ASSUME Types
  PROVE  Nth \in 0..N /\ Nth \in Nat /\ nchunk(Nth) \in Nat /\ nchunk(Nth) >= Nth
         /\ current_chunk \in Nat
<1>1. Nth \in 0..N /\ Nth \in Nat /\ current_chunk \in Nat
  BY Zero DEF Types, SharedTypes, Numbers, Nth
<1>2. \A a \in Nat, b \in Nat \ {0} : a * b >= a
  OBVIOUS
<1>3. NChunks \in Nat /\ PerThread \in Nat \ {0} /\ Nth * PerThread \in Nat /\ Nth * PerThread >= Nth
  BY <1>1, <1>2, ChunksAssumption
<1> QED BY <1>1, <1>3 DEF nchunk

LEMMA ChunkDid ==
  ASSUME Types, PoolInv, DidInv, NEW t \in Threads, Chunk(t)
  PROVE  DidInv'
<1> USE DEF Chunk, Computing, locals
<1>1. pc[t] = "chunk" /\ At(t, "chunk") /\ Kinded
  BY DEF At, DidInv
<1>2. /\ AtWork /\ t \in Team /\ Current(t) /\ KindBound(t) /\ run[t].nth = Nth
      /\ node[t] \in Nat /\ Now = [node |-> node[t], kind |-> "chunk"]
  BY <1>1, NowIs
<1>3. /\ AtWork' /\ Now' = Now /\ StopAt' = StopAt /\ Nth' = Nth /\ Team' = Team
      /\ Current(t)' /\ UNCHANGED <<cgraph, n_graph>>
      /\ \A u \in Team \ {t} : (Holds(u)' <=> Holds(u)) /\ (Left(u)' <=> Left(u))
      /\ KindBound(t)' => Kinded'
      /\ Whole'
  BY WorkFrame
<1>4. pc'[t] = (IF Nth >= nchunk(Nth) THEN "callback" ELSE "fetch") /\ UNCHANGED <<node, unit, bar>>
  BY <1>2, ThreadTypes DEF Goto
<1>5. Holds(t) /\ ~Holds(t)'
  BY <1>1, <1>2, <1>4 DEF Holds, Released, At
<1>6. Now.node = node[t] /\ Now.kind = "chunk"
  BY <1>2
<1>7. /\ current_chunk >= Nth
      /\ \A u \in Team : Holds(u) => unit[u] \in Taken
      /\ \A u, w \in Team : Holds(u) /\ Holds(w) /\ unit[u] = unit[w] => u = w
      /\ \A u \in Team : Left(u) => current_chunk >= nchunk(Nth)
  BY <1>2, <1>6 DEF Chunked, DidInv
<1>8. Taken' = Taken /\ unit[t] \in Taken
  BY <1>2, <1>3, <1>5, <1>7 DEF Taken
<1>9. Held' = Held \ {unit[t]}
  <2>1. Held' = {unit[u] : u \in {w \in Team \ {t} : Holds(w)}}
    BY <1>3, <1>4, <1>5 DEF Held
  <2> QED BY <1>2, <1>5, <1>7, <2>1 DEF Held
<1>10. Done' = Done \cup {<<node[t], "chunk", unit[t]>>}
  <2>1. Taken' \ Held' = (Taken \ Held) \cup {unit[t]}
    BY <1>8, <1>9
  <2> QED BY <1>3, <1>6, <2>1 DEF Done
<1>11. Computed'
  BY <1>2, <1>3, <1>10 DEF Computed, DidInv
<1>12. KindBound(t)'
  BY <1>1, <1>2, <1>3, <1>4 DEF KindBound, At, BarPcs
<1>13. Chunked'
  <2>1. Left(t)' => current_chunk >= nchunk(Nth)
    <3>1. Left(t)' => Nth >= nchunk(Nth)
      BY <1>4, <1>5 DEF Left, At
    <3> QED BY <1>7, <3>1, NthIs
  <2>2. \A u \in Team : Left(u)' => current_chunk' >= nchunk(Nth)
    BY <1>3, <1>7, <2>1
  <2>3. \A u \in Team : Holds(u)' => Holds(u)
    BY <1>3, <1>5
  <2> QED BY <1>3, <1>4, <1>7, <1>8, <2>2, <2>3 DEF Chunked
<1> QED BY <1>3, <1>6, <1>11, <1>12, <1>13 DEF DidInv, Converted

LEMMA FetchDid ==
  ASSUME Types, PoolInv, DidInv, NEW t \in Threads, Fetch(t)
  PROVE  DidInv'
<1> USE DEF Fetch, Computing
<1>1. pc[t] = "fetch" /\ At(t, "fetch") /\ Kinded
  BY DEF At, DidInv
<1>2. /\ AtWork /\ t \in Team /\ Current(t) /\ KindBound(t) /\ run[t].nth = Nth
      /\ node[t] \in Nat /\ Now = [node |-> node[t], kind |-> "chunk"]
  BY <1>1, NowIs
<1>3. /\ AtWork' /\ Now' = Now /\ StopAt' = StopAt /\ Nth' = Nth /\ Team' = Team
      /\ Current(t)' /\ UNCHANGED <<cgraph, n_graph>>
      /\ \A u \in Team \ {t} : (Holds(u)' <=> Holds(u)) /\ (Left(u)' <=> Left(u)) /\ unit'[u] = unit[u]
      /\ KindBound(t)' => Kinded'
      /\ Whole'
  BY WorkFrame
<1>4. /\ pc'[t] = (IF current_chunk < nchunk(Nth) THEN "chunk" ELSE "callback")
      /\ UNCHANGED <<node, bar>> /\ unit'[t] = current_chunk /\ current_chunk' = current_chunk + 1
  BY <1>2, ThreadTypes DEF Goto, Types, LocalTypes
<1>5. ~Holds(t) /\ ~Left(t) /\ (Holds(t)' <=> current_chunk < nchunk(Nth))
      /\ (Left(t)' => current_chunk >= nchunk(Nth))
  BY <1>1, <1>3, <1>4, NthIs DEF Holds, Left, Released, At
<1>6. Now.node = node[t] /\ Now.kind = "chunk"
  BY <1>2
<1>7. /\ current_chunk >= Nth
      /\ \A u \in Team : Holds(u) => unit[u] \in Taken
      /\ \A u, w \in Team : Holds(u) /\ Holds(w) /\ unit[u] = unit[w] => u = w
      /\ \A u \in Team : Left(u) => current_chunk >= nchunk(Nth)
  BY <1>2, <1>6 DEF Chunked, DidInv
<1>8. Taken' = Taken \cup (IF current_chunk < nchunk(Nth) THEN {current_chunk} ELSE {})
  BY <1>3, <1>4, NthIs DEF Taken
<1>9. current_chunk \notin Taken
  BY NthIs DEF Taken
<1>10. Held' = Held \cup (IF current_chunk < nchunk(Nth) THEN {current_chunk} ELSE {})
  <2>1. {u \in Team' : Holds(u)'} =
            {u \in Team : Holds(u)} \cup (IF current_chunk < nchunk(Nth) THEN {t} ELSE {})
    BY <1>2, <1>3, <1>5
  <2>2. \A u \in Team : Holds(u) => unit'[u] = unit[u]
    BY <1>3, <1>5
  <2> QED BY <1>2, <1>4, <2>1, <2>2 DEF Held
<1>11. Taken' \ Held' = Taken \ Held
  BY <1>8, <1>9, <1>10
<1>12. Done' = Done
  BY <1>3, <1>6, <1>11 DEF Done
<1>13. Computed'
  BY <1>2, <1>3, <1>12 DEF Computed, DidInv
<1>14. KindBound(t)'
  BY <1>1, <1>2, <1>3, <1>4 DEF KindBound, At, BarPcs
<1>15. Chunked'
  <2>1. current_chunk' >= Nth
    BY <1>4, <1>7, NthIs
  <2>2. \A u \in Team : Holds(u)' => unit'[u] \in Taken'
    BY <1>3, <1>4, <1>5, <1>7, <1>8
  <2>3. \A u, w \in Team : Holds(u)' /\ Holds(w)' /\ unit'[u] = unit'[w] => u = w
    BY <1>3, <1>4, <1>7, <1>9
  <2>4. \A u \in Team : Left(u)' => current_chunk' >= nchunk(Nth)
    BY <1>3, <1>4, <1>5, <1>7, NthIs
  <2> QED BY <1>3, <2>1, <2>2, <2>3, <2>4 DEF Chunked
<1> QED BY <1>3, <1>6, <1>13, <1>14, <1>15 DEF DidInv, Converted

\* The barrier opens: all threads have come to the same one.
Opens(t) == LastOpens(t) \/ (Arrive(t) /\ n_graph.n = 1)

LEMMA Opening ==
  ASSUME Types, PoolInv, NEW t \in Threads, Opens(t)
  PROVE  /\ AtWork /\ t \in Team /\ 0 \in Team /\ Member(t) /\ Return(t) /\ Meeting
         /\ Team \subseteq Threads
         /\ \A u \in Team : /\ pc[u] \in BarPcs /\ ~Released(u) /\ Current(u) /\ Member(u)
                            /\ bar[u].then = bar[t].then
                            /\ bar[t].then # "end" => node[u] = node[t]
         /\ \A u \in Team \ {t} : Same(u) /\ pc'[u] = "spin" /\ Released(u)'
<1>1. /\ pc[t] \in {"open", "arrive"} /\ pc[t] \in Inside /\ pc[t] \in BarPcs /\ Meeting /\ Return(t)
      /\ ~Released(t)
  BY DEF Opens, LastOpens, Arrive, At, Inside, BarPcs, Released
<1>2. AtWork /\ t \in Team /\ Current(t) /\ Member(t)
  BY <1>1, Inner
<1>3. Team \subseteq Threads /\ 0 \in Team /\ Only(t)
  BY <1>1, <1>2, TeamIs, ReturnIs DEF PoolInv, Places, LeadPlace
<1>4. ASSUME NEW u \in Team \ {t}
      PROVE  pc[u] = "spin" /\ ~Released(u) /\ Current(u) /\ Same(u) /\ pc'[u] = "spin" /\ Released(u)'
  <2>1. pc[t] = "open"
    <3>1. CASE Arrive(t) /\ n_graph.n = 1
      <4>1. t = 0 /\ u = 0
        BY <1>2, <3>1 DEF Team
      <4> QED BY <4>1
    <3> QED BY <3>1 DEF Opens, LastOpens, At
  <2>2. Waiters = Team /\ pc[u] \notin {"last", "open"}
    BY <1>2, <2>1 DEF PoolInv, Counted, At
  <2>3. pc[u] = "spin" /\ ~Released(u) /\ Current(u)
    BY <2>2 DEF Waiters, Waits, At
  <2>4. n_barrier_passed' # n_barrier_passed
    <3>1. \A a \in 0..PassedWrap - 1 : (a + 1) % PassedWrap # a
      BY PoolAssumption
    <3>2. n_barrier_passed' = (n_barrier_passed + 1) % PassedWrap
      BY <2>1 DEF Opens, LastOpens, Arrive, At
    <3> QED BY <3>1, <3>2 DEF Types, SharedTypes
  <2>5. Same(u)
    BY <1>3 DEF Only
  <2> QED BY <2>3, <2>4, <2>5 DEF Same, Released, At
<1>5. ASSUME NEW u \in Team PROVE pc[u] \in BarPcs /\ ~Released(u) /\ Current(u) /\ Member(u)
  BY <1>1, <1>2, <1>4 DEF BarPcs, Member, GraphPcs, Inside
<1>6. \A u \in Team : Dest(u) = IF bar[u].then = "end" THEN End ELSE <<bar[u].then, node[u]>>
  BY <1>5 DEF Dest, At, BarPcs
<1>7. ASSUME NEW u \in Team
      PROVE  bar[u].then = bar[t].then /\ (bar[t].then # "end" => node[u] = node[t])
  <2>1. Dest(u) = Dest(t)
    BY <1>2 DEF PoolInv, Aligned
  <2>2. bar[u].then \in {"end", "next", "chunk"} /\ bar[t].then \in {"end", "next", "chunk"}
    BY <1>3, ThreadTypes
  <2> QED BY <1>2, <1>6, <2>1, <2>2 DEF End
<1> QED BY <1>1, <1>2, <1>3, <1>4, <1>5, <1>7

\* All of the stage is done when all threads have come to its barrier.
LEMMA StageWhole ==
  ASSUME Types, PoolInv, DidInv, AtWork, 0 \in Team,
         Now.kind \in {"part", "convert"} => \A u \in Team : DoneTo(u) > Now.node,
         \A u \in Team : Left(u),
         Now.kind \in {"part", "convert", "chunk", "none"}
  PROVE  did = Base(cgraph, Nth, Now) \cup All(Now, Nth)
<1>1. Team = 0..Nth - 1 /\ did = Base(cgraph, Nth, Now) \cup Done
  BY DEF Team, Nth, DidInv, Computed
<1>2. CASE Now.kind \in {"part", "convert"}
  <2>1. {u \in Team : DoneTo(u) > Now.node} = 0..Nth - 1
    BY <1>1, <1>2
  <2>2. Done = {<<Now.node, Now.kind, u>> : u \in 0..Nth - 1}
    BY <1>2, <2>1 DEF Done
  <2> QED BY <1>1, <1>2, <2>2 DEF All, Parts, Converts
<1>3. CASE Now.kind = "chunk"
  <2>1. current_chunk >= nchunk(Nth)
    BY <1>3 DEF DidInv, Chunked
  <2>2. Taken = 0..nchunk(Nth) - 1
    BY <2>1, NthIs DEF Taken
  <2>3. Held = {}
    BY DEF Held, Left
  <2>4. Done = {<<Now.node, "chunk", u>> : u \in 0..nchunk(Nth) - 1}
    BY <1>3, <2>2, <2>3 DEF Done
  <2> QED BY <1>1, <1>3, <2>4 DEF All, Chunks
<1>4. CASE Now.kind = "none"
  BY <1>1, <1>4 DEF Done, All
<1> QED BY <1>2, <1>3, <1>4

\* What is computed when the barrier opens.
LEMMA StageEnds ==
  ASSUME Types, PoolInv, DidInv, NEW t \in Threads, Opens(t)
  PROVE  /\ bar[t].then = "end" => did = Work(cgraph, Nth, StopAt)
         /\ bar[t].then = "next" =>
                /\ did = Work(cgraph, Nth, node[t] + 1)
                /\ Kind(cgraph, node[t]) \in {"op", "matmul"}
         /\ bar[t].then = "chunk" =>
                /\ did = Work(cgraph, Nth, node[t]) \cup Converts(node[t], Nth)
                /\ current_chunk = Nth /\ (\A u \in Team : unit[u] = u)
                /\ Kind(cgraph, node[t]) = "matmul"
<1>1. /\ AtWork /\ t \in Team /\ 0 \in Team /\ Team \subseteq Threads
      /\ \A u \in Team : /\ pc[u] \in BarPcs /\ ~Released(u) /\ Current(u) /\ Member(u)
                         /\ bar[u].then = bar[t].then
                         /\ bar[t].then # "end" => node[u] = node[t]
  BY Opening
<1>2. /\ Cuts(cgraph, StopAt) /\ StopAt \in Nat /\ Len(cgraph) \in Nat
      /\ \A n \in Nat : n < StopAt => n \in 0..Len(cgraph) - 1
  BY <1>1, CutsHere
<1>3. cgraph \in Graphs \cup {<<>>} /\ node[t] \in Nat
  BY ThreadTypes
<1>4. \A u \in Team : Left(u)
  BY <1>1 DEF Left, Holds, At, BarPcs
<1>5. \A u \in Team : KindBound(u) /\ NodeBound(u)
  BY <1>1 DEF DidInv, Kinded, PoolInv, Bounds
<1>6. Now = Stage(cgraph, StopAt, Dest(t))
  BY <1>1 DEF PoolInv, Aligned, Now
<1>7. Dest(t) = IF bar[t].then = "end" THEN End ELSE <<bar[t].then, node[t]>>
  BY <1>1 DEF Dest, At, BarPcs
<1>8. ASSUME bar[t].then = "end" PROVE did = Work(cgraph, Nth, StopAt)
  <2>1. \A u \in Team : DoneTo(u) = StopAt
    BY <1>1, <1>5, <1>8 DEF DoneTo, KindBound, BarPcs
  <2>2. CASE StopAt = Len(cgraph) /\ StopAt > 0 /\ Kind(cgraph, StopAt - 1) # "empty"
    <3>1. Now = Ends(cgraph, StopAt - 1)
      BY <1>6, <1>7, <1>8, <2>2 DEF Stage, End
    <3>2. StopAt - 1 \in 0..Len(cgraph) - 1 /\ (StopAt - 1) + 1 = StopAt
      BY <1>2, <2>2
    <3>3. Kind(cgraph, StopAt - 1) \in {"op", "matmul"}
      BY <1>2, <1>3, <2>2, <3>2, GraphsAre DEF Kinds, Cuts
    <3>4. /\ Base(cgraph, Nth, Now) \cup All(Now, Nth) = Work(cgraph, Nth, StopAt)
          /\ Now.node <= StopAt - 1 /\ Now.kind \in {"part", "chunk"}
      BY <1>3, <3>1, <3>2, <3>3, StageDone
    <3>5. Now.node \in Int
      BY <1>2, <3>1 DEF Ends
    <3>6. \A u \in Team : DoneTo(u) > Now.node
      BY <1>2, <2>1, <3>4, <3>5
    <3>7. did = Base(cgraph, Nth, Now) \cup All(Now, Nth)
      BY <1>1, <1>4, <3>4, <3>6, StageWhole
    <3> QED BY <3>4, <3>7
  <2>3. CASE ~(StopAt = Len(cgraph) /\ StopAt > 0 /\ Kind(cgraph, StopAt - 1) # "empty")
    <3>1. Now = [node |-> StopAt, kind |-> "none"]
      BY <1>6, <1>7, <1>8, <2>3 DEF Stage, End
    <3>2. Now.kind = "none" /\ Now.node = StopAt
      BY <3>1
    <3>3. did = Base(cgraph, Nth, Now) \cup All(Now, Nth)
      BY <1>1, <1>4, <3>2, StageWhole
    <3> QED BY <3>2, <3>3 DEF Base, All
  <2> QED BY <2>2, <2>3
<1>9. ASSUME bar[t].then = "next"
      PROVE  did = Work(cgraph, Nth, node[t] + 1) /\ Kind(cgraph, node[t]) \in {"op", "matmul"}
  <2>1. Now = Ends(cgraph, node[t])
    BY <1>6, <1>7, <1>9 DEF Stage
  <2>2. Kind(cgraph, node[t]) \in {"op", "matmul"} /\ node[t] \in 0..Len(cgraph) - 1
    BY <1>1, <1>2, <1>3, <1>5, <1>9 DEF KindBound, NodeBound
  <2>3. /\ Base(cgraph, Nth, Now) \cup All(Now, Nth) = Work(cgraph, Nth, node[t] + 1)
        /\ Now.node <= node[t] /\ Now.kind \in {"part", "chunk"}
    BY <1>3, <2>1, <2>2, StageDone
  <2>4. Now.node \in Int
    BY <1>3, <2>1 DEF Ends
  <2>5. \A u \in Team : DoneTo(u) = node[t] + 1
    BY <1>1, <1>9 DEF DoneTo, BarPcs
  <2>6. \A u \in Team : DoneTo(u) > Now.node
    BY <1>3, <2>3, <2>4, <2>5
  <2>7. did = Base(cgraph, Nth, Now) \cup All(Now, Nth)
    BY <1>1, <1>4, <2>3, <2>6, StageWhole
  <2> QED BY <2>2, <2>3, <2>7
<1>10. ASSUME bar[t].then = "chunk"
       PROVE  /\ did = Work(cgraph, Nth, node[t]) \cup Converts(node[t], Nth)
              /\ current_chunk = Nth /\ (\A u \in Team : unit[u] = u)
              /\ Kind(cgraph, node[t]) = "matmul"
  <2>1. Now = [node |-> node[t], kind |-> "convert"]
    BY <1>6, <1>7, <1>10 DEF Stage
  <2>2. Now.node = node[t] /\ Now.kind = "convert"
    BY <2>1
  <2>3. \A u \in Team : DoneTo(u) = node[t] + 1
    BY <1>1, <1>10 DEF DoneTo, BarPcs
  <2>4. \A u \in Team : DoneTo(u) > Now.node
    BY <1>3, <2>2, <2>3
  <2>5. did = Base(cgraph, Nth, Now) \cup All(Now, Nth)
    BY <1>1, <1>4, <2>2, <2>4, StageWhole
  <2>6. current_chunk = Nth /\ (\A u \in Team : unit[u] = u)
    BY <1>1, <2>2, <2>4 DEF DidInv, Converted
  <2>7. Kind(cgraph, node[t]) = "matmul"
    BY <1>1, <1>5, <1>10 DEF KindBound
  <2> QED BY <2>2, <2>5, <2>6, <2>7 DEF Base, All
<1> QED BY <1>8, <1>9, <1>10

\* The stage that begins when a barrier opens.
LEMMA OpenDid ==
  ASSUME Types, PoolInv, DidInv, NEW t \in Threads, Opens(t)
  PROVE  DidInv'
<1>1. /\ AtWork /\ t \in Team /\ 0 \in Team /\ Team \subseteq Threads /\ Member(t) /\ Meeting
      /\ \A u \in Team : /\ pc[u] \in BarPcs /\ ~Released(u) /\ Current(u) /\ Member(u)
                         /\ bar[u].then = bar[t].then
                         /\ bar[t].then # "end" => node[u] = node[t]
      /\ \A u \in Team \ {t} : Same(u) /\ pc'[u] = "spin" /\ Released(u)'
  BY Opening
<1>2. /\ bar[t].then = "next" => pc'[t] = "node" /\ node'[t] = node[t] + 1
      /\ bar[t].then = "chunk" => pc'[t] = "chunk" /\ node'[t] = node[t]
      /\ bar[t].then = "end" => pc'[t] = (IF t = 0 THEN "idle" ELSE "loop")
      /\ bar[t].then \in {"next", "chunk", "end"} /\ node[t] \in Nat
  BY <1>1, Opening, ReturnIs, ThreadTypes
<1>3. UNCHANGED <<cgraph, current_chunk, abort, ec, n_graph, last_graph, run, unit, did>>
  BY <1>1 DEF Meeting, caller, control
<1>4. /\ Team' = Team /\ Nth' = Nth /\ StopAt' = StopAt
      /\ \A u \in Team : Current(u)'
  BY <1>1, <1>3 DEF Team, Nth, StopAt, Current
<1>5. /\ Cuts(cgraph, StopAt) /\ StopAt \in Nat /\ Len(cgraph) \in Nat
      /\ \A n \in Nat : n < StopAt => n \in 0..Len(cgraph) - 1
      /\ cgraph \in Graphs \cup {<<>>}
  BY <1>1, CutsHere, ThreadTypes
<1>6. \A u \in Team : KindBound(u) /\ NodeBound(u)
  BY <1>1 DEF DidInv, Kinded, PoolInv, Bounds
<1>7. abort' # -1 => ec' = "aborted"
  BY <1>3 DEF DidInv, Whole
<1>8. CASE bar[t].then = "end"
  <2>1. did = Work(cgraph, Nth, StopAt)
    BY <1>8, StageEnds
  <2>2. pc'[0] = "idle" \/ (pc'[0] = "spin" /\ Released(0)' /\ bar'[0].then = "end")
    <3>1. CASE t = 0
      BY <1>2, <1>8, <3>1
    <3>2. CASE t # 0
      BY <1>1, <1>8, <3>2 DEF Same
    <3> QED BY <3>1, <3>2
  <2>3. ~AtWork'
    BY <2>2 DEF AtWork, At, Inside
  <2>4. run'[0].nth = Nth
    <3>1. pc[0] \in GraphPcs
      BY <1>1 DEF BarPcs, GraphPcs, Inside
    <3> QED BY <1>3, <3>1 DEF PoolInv, Places, LeadPlace, Nth
  <2>5. Whole'
    BY <1>3, <1>4, <1>7, <2>1, <2>2, <2>4 DEF Whole, At
  <2> QED BY <2>3, <2>5 DEF DidInv, Kinded, Converted, Chunked, Computed
<1> DEFINE n == node[t] + 1
<1>9. ASSUME bar[t].then # "end" PROVE AtWork' /\ Whole'
  <2>1. CASE t = 0
    BY <1>2, <1>7, <1>9, <2>1 DEF AtWork, Whole, At, Inside, Released
  <2>2. CASE t # 0
    <3>1. pc'[0] = "spin" /\ bar'[0].then # "end"
      BY <1>1, <1>9, <2>2 DEF Same
    <3> QED BY <1>7, <3>1 DEF AtWork, Whole, At
  <2> QED BY <2>1, <2>2
<1>10. ASSUME bar[t].then # "end", KindBound(t)' PROVE Kinded'
  <2>1. ASSUME NEW u \in Team \ {t} PROVE KindBound(u)'
    BY <1>1, <1>3, <1>4, <1>6 DEF KindBound, Same, At
  <2> QED BY <1>4, <1>10, <2>1 DEF Kinded
<1>11. CASE bar[t].then = "next"
  <2>1. did = Work(cgraph, Nth, n) /\ Kind(cgraph, node[t]) \in {"op", "matmul"}
    BY <1>11, StageEnds
  <2>2. ~FusedAway(cgraph, n)
    <3>1. n - 1 = node[t]
      BY <1>2
    <3> QED BY <2>1, <3>1 DEF FusedAway
  <2>3. n \in Nat /\ n <= StopAt /\ n < Len(cgraph)
    BY <1>1, <1>2, <1>5, <1>6, <1>11 DEF NodeBound
  <2>4. Now' = Stage(cgraph, StopAt, From(cgraph, StopAt, n))
    <3>1. Dest(0)' = From(cgraph, StopAt, n)
      <4>1. CASE t = 0
        BY <1>2, <1>3, <1>4, <1>11, <1>1, <4>1 DEF Dest, At, BarPcs
      <4>2. CASE t # 0
        BY <1>1, <1>3, <1>4, <1>11, <4>2 DEF Dest, At, BarPcs, Same
      <4> QED BY <4>1, <4>2
    <3> QED BY <1>3, <1>4, <3>1 DEF Now
  <2>5. /\ Now'.node \in n..StopAt /\ Now'.kind \in {"part", "convert", "none"}
        /\ Base(cgraph, Nth, Now') = Work(cgraph, Nth, n)
    BY <1>5, <2>2, <2>3, <2>4, FirstStage
  <2>6. \A u \in Team : DoneTo(u)' = n
    <3>1. DoneTo(t)' = n
      BY <1>1, <1>2, <1>4, <1>11 DEF DoneTo
    <3>2. ASSUME NEW u \in Team \ {t} PROVE DoneTo(u)' = n
      <4>1. pc'[u] = "spin" /\ bar'[u].then = "next" /\ node'[u] = node[t]
        BY <1>1, <1>11 DEF Same
      <4> QED BY <1>4, <4>1 DEF DoneTo
    <3> QED BY <3>1, <3>2
  <2>7. \A u \in Team : ~(DoneTo(u)' > Now'.node)
    BY <1>5, <2>3, <2>5, <2>6
  <2>8. Done' = {}
    BY <1>4, <2>5, <2>7 DEF Done
  <2>9. Computed'
    BY <1>3, <1>4, <2>1, <2>5, <2>8 DEF Computed
  <2>10. KindBound(t)'
    BY <1>2, <1>3, <1>11, <2>2 DEF KindBound, At, BarPcs
  <2>11. Converted' /\ Chunked'
    <3>1. 0 \in Team'
      BY <1>1, <1>4
    <3> QED BY <1>4, <2>5, <2>7, <3>1 DEF Converted, Chunked
  <2> QED BY <1>9, <1>10, <1>11, <2>9, <2>10, <2>11 DEF DidInv
<1>12. CASE bar[t].then = "chunk"
  <2>1. /\ did = Work(cgraph, Nth, node[t]) \cup Converts(node[t], Nth)
        /\ current_chunk = Nth /\ (\A u \in Team : unit[u] = u)
        /\ Kind(cgraph, node[t]) = "matmul"
    BY <1>12, StageEnds
  <2>2. node[t] < StopAt
    BY <1>1, <1>6, <1>12 DEF NodeBound
  <2>3. Now' = Stage(cgraph, StopAt, After(cgraph, node[t]))
    <3>1. Dest(0)' = After(cgraph, node[t])
      <4>1. CASE t = 0
        BY <1>1, <1>2, <1>3, <1>4, <1>12, <4>1 DEF Dest, At, BarPcs
      <4>2. CASE t # 0
        BY <1>1, <1>3, <1>4, <1>12, <4>2 DEF Dest, At, BarPcs, Same
      <4> QED BY <4>1, <4>2
    <3> QED BY <1>3, <1>4, <3>1 DEF Now
  <2>4. Now' = [node |-> node[t], kind |-> "chunk"]
    <3>1. Now' = Ends(cgraph, node[t])
      BY <1>2, <1>5, <2>1, <2>2, <2>3, StageIs
    <3> QED BY <2>1, <3>1 DEF Ends
  <2>5. Now'.node = node[t] /\ Now'.kind = "chunk"
    BY <2>4
  <2>6. \A u \in Team : Holds(u)'
    <3>1. Holds(t)'
      BY <1>1, <1>2, <1>4, <1>12 DEF Holds, At
    <3>2. ASSUME NEW u \in Team \ {t} PROVE Holds(u)'
      <4>1. Released(u)' /\ bar'[u].then = "chunk"
        BY <1>1, <1>12 DEF Same
      <4> QED BY <1>4, <4>1 DEF Holds
    <3> QED BY <3>1, <3>2
  <2>7. Team = 0..Nth - 1
    BY DEF Team, Nth
  <2>8. Held' = Team
    BY <1>3, <1>4, <2>1, <2>6 DEF Held
  <2>9. Taken' = Team
    BY <1>3, <1>4, <2>1, <2>7, NthIs DEF Taken
  <2>10. Done' = {}
    BY <2>5, <2>8, <2>9 DEF Done
  <2>11. Computed'
    BY <1>3, <1>4, <2>1, <2>5, <2>10 DEF Computed, Base
  <2>12. KindBound(t)'
    BY <1>2, <1>3, <1>12, <2>1 DEF KindBound, At, BarPcs
  <2>13. Converted'
    BY <2>5 DEF Converted
  <2>14. Chunked'
    <3>1. current_chunk' >= Nth' /\ \A u \in Team' : unit'[u] = u /\ u \in Taken' /\ ~Left(u)'
      BY <1>3, <1>4, <2>1, <2>6, <2>9, NthIs DEF Left
    <3> QED BY <3>1 DEF Chunked
  <2> QED BY <1>9, <1>10, <1>12, <2>11, <2>12, <2>13, <2>14 DEF DidInv
<1> QED BY <1>2, <1>8, <1>11, <1>12

-----------------------------------------------------------------------------
(* What is computed, step by step.                                          *)

LEMMA DidInit == Init => DidInv
<1> SUFFICES ASSUME Init PROVE DidInv
  OBVIOUS
<1>1. pc[0] = "idle" /\ abort = -1
  BY Zero DEF Init
<1>2. ~AtWork
  BY <1>1 DEF AtWork, At, Inside
<1> QED BY <1>1, <1>2 DEF DidInv, Kinded, Converted, Chunked, Computed, Whole, Released, At

LEMMA DidKept ==
  ASSUME DidInv, UNCHANGED <<caller, n_graph, n_barrier_passed, locals, pc, did, last_graph>>
  PROVE  DidInv'
<1> USE DEF caller, locals
<1>1. /\ Team' = Team /\ StopAt' = StopAt /\ Nth' = Nth /\ (AtWork' <=> AtWork) /\ Taken' = Taken
      /\ \A t : (Current(t)' <=> Current(t)) /\ (Released(t)' <=> Released(t))
  BY DEF Team, StopAt, Nth, AtWork, Current, Released, At, Taken
<1>2. \A t : /\ Dest(t)' = Dest(t) /\ DoneTo(t)' = DoneTo(t) /\ (Member(t)' <=> Member(t))
             /\ (Holds(t)' <=> Holds(t)) /\ (KindBound(t)' <=> KindBound(t))
             /\ (Left(t)' <=> Left(t))
  BY <1>1 DEF Dest, DoneTo, Member, Holds, KindBound, Left, At
<1>3. Now' = Now /\ Held' = Held
  BY <1>1, <1>2 DEF Now, Held
<1>4. Done' = Done
  BY <1>1, <1>2, <1>3 DEF Done
<1>5. Kinded' /\ Converted' /\ Chunked'
  BY <1>1, <1>2, <1>3 DEF DidInv, Kinded, Converted, Chunked
<1>6. Computed' /\ Whole'
  BY <1>1, <1>3, <1>4 DEF DidInv, Computed, Whole, At
<1> QED BY <1>5, <1>6 DEF DidInv

LEMMA CallerDid ==
  ASSUME Types, PoolInv, DidInv, Caller
  PROVE  DidInv'
<1>1. DOMAIN pc = Threads /\ 0 \in Threads /\ \A u \in Workers : u \in Threads /\ u # 0
  BY Zero DEF Types, PcTypes
<1>2. ASSUME NEW p, Goto(0, p) PROVE pc'[0] = p /\ \A u \in Workers : pc'[u] = pc[u]
  BY <1>1, <1>2 DEF Goto
<1>3. ASSUME NEW g \in Graphs, NEW n_threads \in 1..MaxThreads, Compute(g, n_threads)
      PROVE  DidInv'
  <2>1. pc'[0] = "kick" /\ did' = {} /\ abort' = -1
    BY <1>2, <1>3 DEF Compute
  <2>2. ~AtWork'
    BY <2>1 DEF AtWork, At, Inside
  <2> QED BY <2>1, <2>2 DEF DidInv, Kinded, Converted, Chunked, Computed, Whole, Released, At
<1>4. CASE Join
  <2>1. pc'[0] = "freed" /\ UNCHANGED <<did, abort, ec>>
    BY <1>2, <1>4 DEF Join, caller
  <2> QED BY <2>1, Rested DEF AtWork, At, Inside
<1>5. CASE Free
  <2>1. pc'[0] = "join" /\ UNCHANGED <<did, abort, ec>>
    BY <1>2, <1>5 DEF Free, caller
  <2> QED BY <2>1, Rested DEF AtWork, At, Inside
<1>6. CASE \E p \in BOOLEAN : SetPause(p)
  <2>1. pc'[0] = "idle" /\ UNCHANGED <<did, abort, ec>>
    BY <1>6 DEF SetPause, At, caller
  <2> QED BY <2>1, Rested DEF AtWork, At, Inside
<1>7. CASE Kickoff
  <2> USE <1>7 DEF Kickoff
  <2>1. pc[0] = "kick" /\ pc'[0] = "wake" /\ \A u \in Workers : pc'[u] = pc[u]
    BY <1>2 DEF At
  <2>2. ~AtWork /\ AtWork'
    BY <2>1 DEF AtWork, At, Inside
  <2>3. run[0].nth \in 1..N /\ cgraph \in Graphs /\ abort = -1 /\ did = {}
    BY <2>1, <2>2 DEF PoolInv, Places, LeadPlace, DidInv, Whole, At
  <2>4. n_graph' = [count |-> kicked + 1, n |-> run[0].nth]
    BY <2>1, Small, PoolAssumption DEF Types, SharedTypes, Numbers, At
  <2>5. UNCHANGED <<cgraph, abort, ec, n_barrier_passed, run, bar, node, unit, did, current_chunk, last_graph>>
    BY DEF caller, barrier, locals
  <2>6. \A u \in Workers : ~Current(u)'
    <3>1. ASSUME NEW u \in Workers PROVE last_graph[u].count <= kicked /\ kicked \in Nat
      BY DEF Types, SeenTypes, SharedTypes
    <3> QED BY <1>1, <2>4, <2>5, <3>1 DEF Current
  <2>7. Team' \subseteq Threads /\ 0 \in Team'
    BY <2>3, <2>4, Zero DEF Team, Threads
  <2>8. \A u \in Threads : DoneTo(u)' = 0 /\ ~Member(u)' /\ ~Holds(u)'
    <3>1. DoneTo(0)' = 0 /\ ~Member(0)' /\ ~Holds(0)'
      BY <2>1 DEF DoneTo, Member, Holds, GraphPcs, Inside, Released, At
    <3>2. ASSUME NEW u \in Workers PROVE DoneTo(u)' = 0 /\ ~Member(u)' /\ ~Holds(u)'
      BY <2>6 DEF DoneTo, Member, Holds
    <3> QED BY <3>1, <3>2, Zero
  <2> DEFINE s == StopAt'
  <2>9. s = Len(cgraph) /\ Len(cgraph) \in Nat /\ cgraph \in Graphs \cup {<<>>}
    BY <2>3, <2>5, GraphsAre DEF StopAt
  <2>10. Cuts(cgraph, s)
    <3>1. ASSUME s > 0 PROVE Kind(cgraph, s - 1) # "fused"
      <4>1. s - 1 \in 0..Len(cgraph) - 1 /\ (s - 1) + 1 = Len(cgraph)
        BY <2>9, <3>1
      <4> QED BY <2>9, <4>1, GraphsAre
    <3> QED BY <2>9, <3>1 DEF Cuts
  <2>11. Now' = Stage(cgraph, s, From(cgraph, s, 0))
    <3>1. Dest(0)' = From(cgraph, s, 0)
      BY <2>1, <2>5 DEF Dest, At, BarPcs
    <3> QED BY <2>5, <3>1 DEF Now
  <2>12. /\ Now'.node \in 0..s /\ Now'.kind \in {"part", "convert", "none"}
         /\ Base(cgraph, Nth', Now') = Work(cgraph, Nth', 0)
    <3>1. 0 \in Nat /\ 0 <= s /\ ~FusedAway(cgraph, 0)
      BY <2>9 DEF FusedAway
    <3> HIDE DEF s
    <3> QED BY <2>9, <2>10, <2>11, <3>1, FirstStage
  <2>13. Work(cgraph, Nth', 0) = {}
    <3>1. 0..0 - 1 = {}
      OBVIOUS
    <3> QED BY <3>1 DEF Work
  <2>14. \A u \in Team' : ~(DoneTo(u)' > Now'.node)
    BY <2>7, <2>8, <2>9, <2>12
  <2>15. Done' = {}
    BY <2>12, <2>14 DEF Done
  <2>16. Computed'
    BY <2>3, <2>5, <2>12, <2>13, <2>15 DEF Computed
  <2>17. Kinded'
    BY <2>7, <2>8 DEF Kinded
  <2>18. Converted' /\ Chunked'
    BY <2>7, <2>12, <2>14 DEF Converted, Chunked
  <2>19. Whole'
    BY <2>1, <2>3, <2>5 DEF Whole, Released, At
  <2> QED BY <2>16, <2>17, <2>18, <2>19 DEF DidInv
<1>8. CASE KickoffWake
  <2> USE <1>8 DEF KickoffWake
  <2>1. pc[0] = "wake" /\ pc'[0] = "start" /\ \A u \in Workers : pc'[u] = pc[u]
    BY <1>2 DEF At
  <2>2. AtWork /\ AtWork'
    BY <2>1 DEF AtWork, At, Inside
  <2>3. UNCHANGED <<cgraph, abort, ec, n_graph, n_barrier_passed, run, bar, node, unit, did,
                    current_chunk, last_graph>>
    BY DEF caller, barrier, locals
  <2>4. Only(0) /\ \A u \in Team \ {0} : Current(u)' <=> Current(u)
    BY <1>1, <2>1, <2>3, Zero DEF Only, Same, Current
  <2>5. StopAt' = StopAt /\ Dest(0)' = Dest(0)
    BY <2>1, <2>3 DEF StopAt, Dest, At, BarPcs
  <2>6. Now' = Now
    BY <2>3, <2>5 DEF Now
  <2>7. DoneTo(0)' = 0 /\ DoneTo(0) = 0 /\ ~Holds(0) /\ ~Holds(0)' /\ Left(0) /\ Left(0)' /\ ~Member(0)'
    BY <2>1 DEF DoneTo, Holds, Left, Member, GraphPcs, Inside, Released, At
  <2>8. abort' # -1 => ec' = "aborted"
    BY <2>3 DEF DidInv, Whole
  <2> QED BY <1>1, <2>2, <2>3, <2>4, <2>5, <2>6, <2>7, <2>8, Kept
<1> QED BY <1>3, <1>4, <1>5, <1>6, <1>7, <1>8 DEF Caller

LEMMA WorkerDid ==
  ASSUME Types, PoolInv, DidInv, NEW t \in Workers, Worker(t) \/ Spurious(t)
  PROVE  DidInv'
<1>1. DOMAIN pc = Threads /\ t \in Threads /\ t # 0 /\ 0 \in Threads
      /\ last_graph \in [Workers -> Numbers]
  BY Zero DEF Types, PcTypes, SeenTypes
<1>2. UNCHANGED <<cgraph, n_graph, n_barrier_passed, current_chunk, abort, ec, run, node, bar,
                  unit, did>>
  BY DEF Worker, Spurious, Loop, Running, Poll, Look, PauseLock, CheckLock, Locked, Paused,
         PauseWoken, Check, Quiet, caller, control, barrier, locals
<1>3. CASE pc' = pc /\ last_graph' = last_graph
  BY <1>2, <1>3, DidKept DEF caller, locals
<1>4. CASE ~(pc' = pc /\ last_graph' = last_graph)
  <2>1. ~Spurious(t)
    BY <1>4 DEF Spurious
  <2>2. pc[t] \in LoopPcs
    BY <2>1 DEF Worker, Loop, Running, Poll, Look, PauseLock, CheckLock, Locked, Paused,
                PauseWoken, Check, At, LoopPcs
  <2>3. PICK p \in LoopPcs \cup {"start"} : Goto(t, p)
    BY <2>1 DEF Worker, Loop, Running, Poll, Look, PauseLock, CheckLock, Locked, Paused,
                PauseWoken, Check, CondWait, Unlock, SeesGraph, LoopPcs
  <2>4. pc'[t] \in LoopPcs \cup {"start"} /\ \A u \in Threads \ {t} : pc'[u] = pc[u]
    BY <1>1, <2>3 DEF Goto
  <2>5. \A u \in Workers \ {t} : last_graph'[u] = last_graph[u]
    BY <1>1, <2>1 DEF Worker, Loop, Running, Poll, Look, PauseLock, CheckLock, Locked, Paused,
                      PauseWoken, Check, Quiet, SeesGraph
  <2>6. Only(t)
    BY <1>2, <2>4 DEF Only, Same
  <2>7. pc[t] \notin GraphPcs
    BY <2>2 DEF LoopPcs, GraphPcs, Inside
  <2>8. pc'[0] = pc[0] /\ bar'[0] = bar[0] /\ Same(0)
    BY <1>1, <2>6 DEF Only, Same
  <2>9. (AtWork' <=> AtWork) /\ StopAt' = StopAt /\ (Released(0)' <=> Released(0))
    BY <1>2, <2>8 DEF AtWork, Released, At, StopAt
  <2>10. CASE ~AtWork
    <3>1. Whole'
      BY <1>2, <2>8, <2>9 DEF DidInv, Whole, At
    <3> QED BY <2>9, <2>10, <3>1 DEF DidInv, Kinded, Converted, Chunked, Computed
  <2>11. CASE AtWork
    <3>1. t \in Team => ~Current(t)
      BY <2>7, <2>11 DEF PoolInv, Places, PlaceOf
    <3>2. Now' = Now
      <4>1. Current(0)' <=> Current(0)
        BY DEF Current
      <4>2. Dest(0)' = Dest(0)
        BY <1>1, <1>2, <2>8, <4>1, Frame
      <4> QED BY <1>2, <2>9, <4>2 DEF Now
    <3>3. ASSUME t \in Team
          PROVE  /\ DoneTo(t) = 0 /\ DoneTo(t)' = 0 /\ ~Holds(t) /\ ~Holds(t)'
                 /\ Left(t) /\ Left(t)' /\ ~Member(t)'
      <4>1. DoneTo(t) = 0 /\ ~Holds(t)
        BY <3>1, <3>3 DEF DoneTo, Holds
      <4>2. pc[t] # "fetch" /\ pc'[t] # "fetch"
        BY <2>2, <2>4 DEF LoopPcs
      <4>3. ~Holds(t)' /\ ~Member(t)'
        BY <2>4 DEF Holds, Member, Released, At, LoopPcs, GraphPcs, Inside
      <4>4. DoneTo(t)' = 0
        <5>1. CASE pc'[t] = "start"
          BY <5>1 DEF DoneTo
        <5>2. CASE pc'[t] # "start"
          <6>1. ~SeesGraph(t, "check_lock") /\ ~SeesGraph(t, "loop")
            <7>1. t < n_graph.n
              BY <3>3, ThreadTypes, Zero DEF Team
            <7> QED BY <1>1, <5>2, <7>1 DEF SeesGraph, Goto
          <6>2. last_graph' = last_graph
            BY <2>1, <6>1 DEF Worker, Loop, Running, Poll, Look, PauseLock, CheckLock, Locked,
                              Paused, PauseWoken, Check, Quiet
          <6> QED BY <1>2, <3>1, <3>3, <6>2 DEF DoneTo, Current
        <5> QED BY <5>1, <5>2
      <4> QED BY <4>1, <4>2, <4>3, <4>4 DEF Left, At
    <3>4. \A u \in Team \ {t} : Current(u)' <=> Current(u)
      <4>1. \A u \in Team : u = 0 \/ u \in Workers
        BY TeamIs, Zero
      <4> QED BY <1>2, <2>5, <4>1 DEF Current
    <3>5. abort' # -1 => ec' = "aborted"
      BY <1>2 DEF DidInv, Whole
    <3> QED BY <1>1, <1>2, <2>6, <2>9, <2>11, <3>2, <3>3, <3>4, <3>5, Kept
  <2> QED BY <2>10, <2>11
<1> QED BY <1>3, <1>4

LEMMA GraphDid ==
  ASSUME Types, PoolInv, DidInv, NEW t \in Threads, InGraph(t)
  PROVE  DidInv'
BY StartDid, NodeDid, PartDid, ConvertDid, ChunkDid, FetchDid, CallbackDid, BarDid, SpinDid,
   OpenDid DEF InGraph, Opens

LEMMA DidStep == Types /\ PoolInv /\ DidInv /\ [Next]_vars => DidInv'
<1> SUFFICES ASSUME Types, PoolInv, DidInv, [Next]_vars PROVE DidInv'
  OBVIOUS
<1>1. CASE UNCHANGED vars
  BY <1>1, DidKept DEF vars, control, barrier
<1>2. CASE Caller
  BY <1>2, CallerDid
<1>3. ASSUME NEW t \in Workers, Worker(t) \/ Spurious(t) PROVE DidInv'
  BY <1>3, WorkerDid
<1>4. ASSUME NEW t \in Threads, InGraph(t) PROVE DidInv'
  BY <1>4, GraphDid
<1> QED BY <1>1, <1>2, <1>3, <1>4 DEF Next

\* What is computed of a graph, at every moment of its computation: all the
\* stages before the one at work, and of that one what the threads have done.
THEOREM WorkIsStaged == Spec => [](Types /\ PoolInv /\ DidInv)
<1>1. Init => Types /\ PoolInv /\ DidInv
  BY TypesInit, PoolInit, DidInit
<1>2. Types /\ PoolInv /\ DidInv /\ [Next]_vars => (Types /\ PoolInv /\ DidInv)'
  BY TypesStep, PoolStep, DidStep
<1> QED BY <1>1, <1>2, PTL DEF Spec

-----------------------------------------------------------------------------
(* The pool implements GraphRun.                                            *)

LEMMA RunShares ==
  /\ \A g, n : Run!FusedAway(g, n) <=> FusedAway(g, n)
  /\ \A g, nth, n : Run!Shares(g, n, nth) = Shares(g, n, nth)
<1>1. \A g, n : Run!Kind(g, n) = Kind(g, n)
  BY DEF Run!Kind, Kind
<1>2. \A g, n : Run!FusedAway(g, n) <=> FusedAway(g, n)
  BY <1>1 DEF Run!FusedAway, FusedAway
<1>3. \A nth : Run!nchunk(nth) = nchunk(nth)
  BY DEF Run!nchunk, nchunk
<1> QED BY <1>1, <1>2, <1>3 DEF Run!Shares, Shares

LEMMA RunWork ==
  /\ \A g, nth, n : Run!Work(g, nth, n) = Work(g, nth, n)
  /\ \A v, w : Run!Before(v, w) <=> Before(v, w)
<1>1. \A g, nth, n : Run!Work(g, nth, n) = Work(g, nth, n)
  BY RunShares DEF Run!Work, Work
<1>2. \A v, w : Run!Before(v, w) <=> Before(v, w)
  BY DEF Run!Before, Before
<1> QED BY <1>1, <1>2

Busy == pc[0] \notin {"idle", "join", "freed"}

LEMMA RunInit == Init => Run!Init
<1> SUFFICES ASSUME Init PROVE Run!Init
  OBVIOUS
<1>1. pc[0] = "idle" /\ abort = -1 /\ cgraph = <<>> /\ run[0] = [graph |-> <<>>, nth |-> 0]
  BY Zero DEF Init
<1> QED BY <1>1 DEF Run!Init, Init

LEMMA Stutters ==
  ASSUME UNCHANGED <<did, ec>>, StopAt' = StopAt, run'[0] = run[0], Busy' <=> Busy
  PROVE  UNCHANGED Run!vars
BY DEF Run!vars, StopAt, Busy

LEMMA CallerRuns ==
  ASSUME Types, Caller
  PROVE  Run!Next \/ UNCHANGED Run!vars
<1>1. DOMAIN pc = Threads /\ 0 \in Threads
  BY Zero DEF Types, PcTypes
<1>2. ASSUME NEW p, Goto(0, p) PROVE pc'[0] = p
  BY <1>1, <1>2 DEF Goto
<1>3. ASSUME NEW g \in Graphs, NEW n_threads \in 1..MaxThreads, Compute(g, n_threads)
      PROVE  Run!Next
  <2> DEFINE nth == IF n_threads > N THEN N ELSE n_threads
  <2>1. pc[0] = "idle" /\ pc'[0] = "kick"
    BY <1>2, <1>3 DEF Compute, At
  <2>2. run'[0] = [graph |-> g, nth |-> nth]
    BY <1>1, <1>3 DEF Compute, Types, LocalTypes
  <2>3. nth \in 1..MaxThreads
    BY PoolAssumption
  <2>4. Run!Begin(g, nth)
    BY <1>3, <2>1, <2>2 DEF Compute, Run!Begin
  <2> HIDE DEF nth
  <2> QED BY <2>3, <2>4 DEF Run!Next
<1>4. CASE Kickoff
  <2>1. pc[0] = "kick" /\ pc'[0] = "wake"
    BY <1>2, <1>4 DEF Kickoff, At
  <2> QED BY <1>4, <2>1, Stutters DEF Kickoff, caller, locals, StopAt, Busy
<1>5. CASE KickoffWake
  <2>1. pc[0] = "wake" /\ pc'[0] = "start"
    BY <1>2, <1>5 DEF KickoffWake, At
  <2> QED BY <1>5, <2>1, Stutters DEF KickoffWake, caller, locals, StopAt, Busy
<1>6. CASE \E p \in BOOLEAN : SetPause(p)
  BY <1>6, Stutters DEF SetPause, caller, locals, StopAt, Busy
<1>7. CASE Free
  <2>1. pc[0] = "idle" /\ pc'[0] = "join"
    BY <1>2, <1>7 DEF Free, At
  <2> QED BY <1>7, <2>1, Stutters DEF Free, caller, locals, StopAt, Busy
<1>8. CASE Join
  <2>1. pc[0] = "join" /\ pc'[0] = "freed"
    BY <1>2, <1>8 DEF Join, At
  <2> QED BY <1>8, <2>1, Stutters DEF Join, caller, locals, StopAt, Busy
<1> QED BY <1>3, <1>4, <1>5, <1>6, <1>7, <1>8 DEF Caller

LEMMA WorkerRuns ==
  ASSUME Types, NEW t \in Workers, Worker(t) \/ Spurious(t)
  PROVE  UNCHANGED Run!vars
<1>1. UNCHANGED <<cgraph, abort, ec, run, did>>
  BY DEF Worker, Spurious, Loop, Running, Poll, Look, PauseLock, CheckLock, Locked, Paused,
         PauseWoken, Check, Quiet, caller, locals
<1>2. (\E p : Goto(t, p)) \/ UNCHANGED pc
  BY DEF Worker, Spurious, Loop, Running, Poll, Look, PauseLock, CheckLock, Locked, Paused,
         PauseWoken, Check, CondWait, Unlock, SeesGraph
<1>3. pc'[0] = pc[0]
  BY <1>2, Zero DEF Goto, Types, PcTypes
<1> QED BY <1>1, <1>3, Stutters DEF StopAt, Busy

\* The graph and the threads that thread 0 has in hand.
LEMMA JobIs ==
  ASSUME Types, PoolInv, AtWork
  PROVE  run[0].graph = cgraph /\ run[0].nth = Nth /\ Busy /\ pc[0] # "kick"
<1>1. pc[0] \in {"wake"} \cup GraphPcs
  BY DEF AtWork, At, GraphPcs
<1> QED BY <1>1 DEF PoolInv, Places, LeadPlace, Nth, Busy, GraphPcs, Inside

\* What a thread is about to compute: its share of the stage at work.
Share(t) ==
    CASE At(t, "part")    -> <<node[t], "part", t>>
      [] At(t, "convert") -> <<node[t], "convert", t>>
      [] OTHER            -> <<node[t], "chunk", unit[t]>>

LEMMA ShareIs ==
  ASSUME Types, PoolInv, DidInv, NEW t \in Threads, pc[t] \in {"part", "convert", "chunk"}
  PROVE  /\ Share(t) \in Shares(cgraph, node[t], Nth) /\ Share(t) \notin did
         /\ Share(t)[1] = Now.node /\ Share(t)[2] = Now.kind /\ Now.node = node[t]
         /\ AtWork /\ node[t] \in Nat /\ node[t] < StopAt
<1>1. /\ AtWork /\ t \in Team /\ Current(t) /\ KindBound(t)
      /\ node[t] \in Nat /\ node[t] < StopAt /\ node[t] \in 0..Len(cgraph) - 1
      /\ At(t, "part") => Now = [node |-> node[t], kind |-> "part"]
      /\ At(t, "convert") => Now = [node |-> node[t], kind |-> "convert"]
      /\ At(t, "chunk") => Now = [node |-> node[t], kind |-> "chunk"]
  BY NowIs DEF DidInv, At
<1>2. did = Base(cgraph, Nth, Now) \cup Done /\ Team = 0..Nth - 1
  BY <1>1 DEF DidInv, Computed, Team, Nth
<1>3. ASSUME NEW w, w[1] = node[t] PROVE w \notin Work(cgraph, Nth, node[t])
  BY <1>1, <1>3, WorkIs
<1>4. ASSUME Kind(cgraph, node[t]) = "matmul"
      PROVE  Shares(cgraph, node[t], Nth) = Converts(node[t], Nth) \cup Chunks(node[t], Nth)
  <2>1. ~FusedAway(cgraph, node[t])
    <3>1. ASSUME node[t] > 0, Kind(cgraph, node[t] - 1) = "fused" PROVE FALSE
      <4>1. node[t] - 1 \in 0..Len(cgraph) - 1 /\ (node[t] - 1) + 1 = node[t]
        BY <1>1, <3>1, ThreadTypes
      <4>2. Kind(cgraph, (node[t] - 1) + 1) = "op"
        BY <3>1, <4>1, ThreadTypes, GraphsAre
      <4> QED BY <1>4, <4>1, <4>2
    <3> QED BY <3>1 DEF FusedAway
  <2> QED BY <1>4, <2>1 DEF Shares, Converts, Chunks
<1>5. CASE pc[t] = "part"
  <2>1. Share(t) = <<node[t], "part", t>> /\ Now.node = node[t] /\ Now.kind = "part"
    BY <1>1, <1>5 DEF Share, At
  <2>2. Shares(cgraph, node[t], Nth) = Parts(node[t], Nth)
    BY <1>1, <1>5 DEF KindBound, Shares, Parts, At
  <2>3. DoneTo(t) = node[t]
    BY <1>1, <1>5 DEF DoneTo
  <2>4. Share(t) \notin Done
    BY <1>1, <2>1, <2>3 DEF Done
  <2>5. Base(cgraph, Nth, Now) = Work(cgraph, Nth, node[t])
    BY <2>1 DEF Base
  <2> QED BY <1>1, <1>2, <1>3, <2>1, <2>2, <2>4, <2>5 DEF Parts
<1>6. CASE pc[t] = "convert"
  <2>1. Share(t) = <<node[t], "convert", t>> /\ Now.node = node[t] /\ Now.kind = "convert"
    BY <1>1, <1>6 DEF Share, At
  <2>2. Kind(cgraph, node[t]) = "matmul"
    BY <1>1, <1>6 DEF KindBound
  <2>3. DoneTo(t) = node[t]
    BY <1>1, <1>6 DEF DoneTo
  <2>4. Share(t) \notin Done
    BY <1>1, <2>1, <2>3 DEF Done
  <2>5. Base(cgraph, Nth, Now) = Work(cgraph, Nth, node[t])
    BY <2>1 DEF Base
  <2> QED BY <1>1, <1>2, <1>3, <1>4, <2>1, <2>2, <2>4, <2>5 DEF Converts
<1>7. CASE pc[t] = "chunk"
  <2>1. Share(t) = <<node[t], "chunk", unit[t]>> /\ Now.node = node[t] /\ Now.kind = "chunk"
    BY <1>1, <1>7 DEF Share, At
  <2>2. Kind(cgraph, node[t]) = "matmul"
    BY <1>1, <1>7 DEF KindBound
  <2>3. Holds(t)
    BY <1>1, <1>7 DEF Holds, At
  <2>4. unit[t] \in Taken /\ unit[t] \in Held
    BY <1>1, <2>1, <2>3 DEF DidInv, Chunked, Held
  <2>5. Share(t) \notin Done
    BY <2>1, <2>4 DEF Done
  <2>6. Share(t) \in Chunks(node[t], Nth)
    BY <2>1, <2>4 DEF Taken, Chunks
  <2>7. Share(t) \notin Converts(node[t], Nth)
    BY <2>1 DEF Converts
  <2>8. Base(cgraph, Nth, Now) = Work(cgraph, Nth, node[t]) \cup Converts(node[t], Nth)
    BY <2>1 DEF Base
  <2> QED BY <1>1, <1>2, <1>3, <1>4, <2>1, <2>2, <2>5, <2>6, <2>7, <2>8
<1> QED BY <1>5, <1>6, <1>7

LEMMA ComputeRuns ==
  ASSUME Types, PoolInv, DidInv, NEW t \in Threads, Part(t) \/ Convert(t) \/ Chunk(t)
  PROVE  Run!Next
<1> DEFINE w == Share(t)
<1>1. pc[t] \in {"part", "convert", "chunk"} /\ did' = did \cup {w}
  BY DEF Part, Convert, Chunk, Share, At
<1>2. UNCHANGED <<cgraph, abort, ec, run>>
  BY DEF Part, Convert, Chunk, Computing, locals
<1>3. /\ w \in Shares(cgraph, node[t], Nth) /\ w \notin did
      /\ w[1] = Now.node /\ w[2] = Now.kind /\ Now.node = node[t]
      /\ AtWork /\ node[t] \in Nat /\ node[t] < StopAt /\ StopAt \in Nat
  BY <1>1, ShareIs, CutsHere
<1> HIDE DEF w
<1>4. run[0].graph = cgraph /\ run[0].nth = Nth /\ Busy
  BY <1>3, JobIs
<1>5. Busy'
  <2>1. pc'[t] \in {"callback", "arrive", "fetch"} /\ (t # 0 => pc'[0] = pc[0])
    BY ThreadTypes, Zero DEF Part, Convert, Chunk, CallBarrier, Goto
  <2> QED BY <1>4, <2>1 DEF Busy
<1>6. w \in Work(cgraph, Nth, StopAt)
  BY <1>3, WorkIs
<1>7. \A v \in Work(cgraph, Nth, StopAt) : Before(v, w) => v \in did
  BY <1>3, StageReady DEF DidInv, Computed
<1>8. Run!Compute(w)
  BY <1>1, <1>2, <1>3, <1>4, <1>5, <1>7, RunWork DEF Run!Compute, StopAt, Busy
<1>9. w \in Run!Work(run[0].graph, run[0].nth, StopAt)
  BY <1>4, <1>6, RunWork
<1> QED BY <1>8, <1>9 DEF Run!Next, StopAt

\* "the abort callback returns true"
LEMMA CallbackRuns ==
  ASSUME Types, PoolInv, DidInv, NEW t \in Threads, Callback(t)
  PROVE  Run!Next \/ UNCHANGED Run!vars
<1>1. pc[t] = "callback" /\ UNCHANGED <<cgraph, run, did>>
  BY DEF Callback, Computing, At
<1>2. /\ AtWork /\ t \in Team /\ Current(t) /\ Team = 0..Nth - 1 /\ cgraph \in Graphs \cup {<<>>}
      /\ node[t] \in Nat /\ node[t] < StopAt /\ node[t] \in 0..Len(cgraph) - 1 /\ Len(cgraph) \in Nat
      /\ Now = Ends(cgraph, node[t]) /\ Kind(cgraph, node[t]) \in {"op", "matmul"} /\ StopAt \in Nat
  BY <1>1, NowIs, CutsHere, ThreadTypes DEF DidInv, At, Team, Nth
<1>3. run[0].graph = cgraph /\ run[0].nth = Nth /\ Busy
  BY <1>2, JobIs
<1>4. Busy'
  <2>1. pc'[t] \in {"node", "arrive"} /\ (t # 0 => pc'[0] = pc[0])
    BY ThreadTypes, Zero DEF Callback, CallBarrier, Goto
  <2> QED BY <1>3, <2>1 DEF Busy
<1>5. CASE UNCHANGED <<abort, ec>>
  BY <1>1, <1>3, <1>4, <1>5, Stutters DEF StopAt
<1>6. CASE t = 0 /\ abort' = node[t] + 1 /\ ec' = "aborted"
  <2> DEFINE n == node[t] + 1
  <2>1. did = Base(cgraph, Nth, Now) \cup Done
    BY <1>2 DEF DidInv, Computed
  <2>2. Now.node \in 0..node[t] /\ Now.kind \in {"part", "chunk"}
    BY <1>2 DEF Ends, FusedAway
  <2>3. ASSUME NEW w \in did PROVE w[1] < n
    <3>1. CASE w \in Work(cgraph, Nth, Now.node)
      BY <1>2, <2>2, <3>1, WorkIs
    <3>2. CASE w \in Converts(Now.node, Nth)
      BY <1>2, <2>2, <3>2 DEF Converts
    <3>3. CASE w \in Done
      BY <1>2, <2>2, <3>3 DEF Done
    <3> QED BY <2>1, <3>1, <3>2, <3>3 DEF Base
  <2>4. \E w \in did : \A m \in w[1] + 1..n - 1 : FusedAway(cgraph, m)
    <3>1. CASE Kind(cgraph, node[t]) = "matmul"
      <4>1. Now.node = node[t] /\ Now.kind = "chunk"
        BY <1>2, <3>1 DEF Ends
      <4>2. <<node[t], "convert", 0>> \in did
        BY <1>2, <1>6, <2>1, <4>1 DEF Base, Converts
      <4>3. node[t] + 1..n - 1 = {}
        BY <1>2
      <4> QED BY <4>2, <4>3
    <3>2. CASE Kind(cgraph, node[t]) = "op"
      <4>1. Now.kind = "part"
        BY <1>2, <3>2 DEF Ends
      <4>2. DoneTo(0) = n /\ n > Now.node
        BY <1>1, <1>2, <1>6, <2>2 DEF DoneTo, BarPcs
      <4>3. <<Now.node, "part", 0>> \in did
        BY <1>2, <1>6, <2>1, <4>1, <4>2 DEF Done
      <4>4. \A m \in Now.node + 1..n - 1 : FusedAway(cgraph, m)
        <5>1. CASE FusedAway(cgraph, node[t])
          <6>1. Now.node = node[t] - 1
            BY <1>2, <3>2, <5>1 DEF Ends
          <6> QED BY <1>2, <5>1, <6>1
        <5>2. CASE ~FusedAway(cgraph, node[t])
          <6>1. Now.node = node[t]
            BY <1>2, <3>2, <5>2 DEF Ends
          <6> QED BY <1>2, <6>1
        <5> QED BY <5>1, <5>2
      <4> QED BY <4>3, <4>4
    <3> QED BY <1>2, <3>1, <3>2
  <2>5. n \in 1..Len(cgraph) /\ n <= StopAt /\ abort' # -1
    BY <1>2, <1>6
  <2>6. Run!Abort(n)
    BY <1>1, <1>3, <1>4, <1>6, <2>3, <2>4, <2>5, RunShares DEF Run!Abort, StopAt, Busy
  <2> HIDE DEF n
  <2> QED BY <1>3, <2>5, <2>6 DEF Run!Next
<1> QED BY <1>5, <1>6 DEF Callback

\* Thread 0 leaves the graph.
LEMMA ReturnRuns ==
  ASSUME Types, PoolInv, DidInv, Spin(0) \/ Opens(0), bar[0].then = "end"
  PROVE  Run!Next
<1>1. 0 \in Threads /\ Meeting /\ Return(0) /\ pc[0] \in GraphPcs
  BY Zero DEF Spin, Opens, LastOpens, Arrive, At, GraphPcs, Inside
<1>2. pc'[0] = "idle" /\ run'[0] = run[0] /\ UNCHANGED <<cgraph, abort, ec, did>>
  BY <1>1, ReturnIs DEF Meeting, caller
<1>3. run[0].graph = cgraph /\ run[0].nth = Nth /\ Busy
  BY <1>1 DEF PoolInv, Places, LeadPlace, Nth, Busy, GraphPcs, Inside
<1>4. did = Work(cgraph, Nth, StopAt)
  <2>1. CASE Spin(0)
    BY <1>3, <2>1 DEF Spin, Released, DidInv, Whole
  <2>2. CASE Opens(0)
    BY <1>1, <2>2, StageEnds
  <2> QED BY <2>1, <2>2
<1>5. StopAt < Len(cgraph) => ec = "aborted"
  <2>1. Len(cgraph) \in Nat
    BY <1>1, ThreadTypes
  <2> QED BY <2>1 DEF StopAt, DidInv, Whole
<1> QED BY <1>2, <1>3, <1>4, <1>5, RunWork DEF Run!Next, Run!Return, StopAt, Busy

LEMMA GraphRuns ==
  ASSUME Types, PoolInv, DidInv, NEW t \in Threads, InGraph(t)
  PROVE  Run!Next \/ UNCHANGED Run!vars
<1>1. CASE Part(t) \/ Convert(t) \/ Chunk(t)
  BY <1>1, ComputeRuns
<1>2. CASE Callback(t)
  BY <1>2, CallbackRuns
<1>3. CASE Start(t)
  <2>1. pc[t] = "start" /\ pc[t] \in Inside /\ UNCHANGED <<cgraph, abort, ec, did>>
    BY <1>3 DEF Start, Computing, At, Inside
  <2>2. run[0].graph = cgraph /\ run[0].nth = n_graph.n
    BY <2>1, Inner
  <2>3. run[0] = [graph |-> cgraph, nth |-> n_graph.n]
    BY <2>2, Zero DEF Types, LocalTypes, Runs
  <2>4. run'[0] = run[0]
    BY <1>3, <2>3, Zero DEF Start, Types, LocalTypes
  <2>5. Busy' <=> Busy
    BY <1>3, <2>1, ThreadTypes, Zero DEF Start, Goto, Busy
  <2> QED BY <2>1, <2>4, <2>5, Stutters DEF StopAt
<1>4. CASE Node(t) \/ Fetch(t) \/ Enter(t) \/ LastResets(t) \/ (Arrive(t) /\ n_graph.n # 1)
  <2>1. UNCHANGED <<cgraph, abort, ec, run, did>>
    BY <1>4 DEF Node, Fetch, Enter, LastResets, Arrive, Computing, Meeting, caller
  <2>2. pc[t] \in GraphPcs /\ \E p \in GraphPcs : Goto(t, p)
    BY <1>4 DEF Node, Fetch, Enter, LastResets, Arrive, CallBarrier, Entry, At, GraphPcs, Inside
  <2>3. Busy' <=> Busy
    BY <2>2, ThreadTypes, Zero DEF Goto, Busy, GraphPcs, Inside
  <2> QED BY <2>1, <2>3, Stutters DEF StopAt
<1>5. CASE Spin(t) \/ Opens(t)
  <2>1. Return(t) /\ Meeting /\ pc[t] \in GraphPcs
    BY <1>5 DEF Spin, Opens, LastOpens, Arrive, At, GraphPcs, Inside
  <2>2. CASE t = 0 /\ bar[0].then = "end"
    BY <1>5, <2>2, ReturnRuns
  <2>3. CASE t # 0 \/ bar[0].then # "end"
    <3>1. UNCHANGED <<cgraph, abort, ec, run, did>>
      BY <2>1 DEF Meeting, caller
    <3>2. Busy' <=> Busy
      <4>1. CASE t = 0
        <5>1. pc'[0] \in {"node", "chunk"}
          BY <2>1, <2>3, <4>1, ReturnIs, ThreadTypes
        <5> QED BY <2>1, <4>1, <5>1 DEF Busy, GraphPcs, Inside
      <4>2. CASE t # 0
        BY <2>1, <4>2, ReturnIs, Zero DEF Only, Same, Busy
      <4> QED BY <4>1, <4>2
    <3> QED BY <3>1, <3>2, Stutters DEF StopAt
  <2> QED BY <2>2, <2>3
<1> QED BY <1>1, <1>2, <1>3, <1>4, <1>5 DEF InGraph, Opens

LEMMA RunStep == Types /\ PoolInv /\ DidInv /\ [Next]_vars => [Run!Next]_Run!vars
<1> SUFFICES ASSUME Types, PoolInv, DidInv, [Next]_vars PROVE Run!Next \/ UNCHANGED Run!vars
  OBVIOUS
<1>1. CASE UNCHANGED vars
  BY <1>1, Stutters DEF vars, caller, locals, StopAt, Busy
<1>2. CASE Caller
  BY <1>2, CallerRuns
<1>3. ASSUME NEW t \in Workers, Worker(t) \/ Spurious(t) PROVE UNCHANGED Run!vars
  BY <1>3, WorkerRuns
<1>4. ASSUME NEW t \in Threads, InGraph(t) PROVE Run!Next \/ UNCHANGED Run!vars
  BY <1>4, GraphRuns
<1> QED BY <1>1, <1>2, <1>3, <1>4 DEF Next

\* ggml_graph_compute keeps its promise, for any number of threads, any graphs
\* and any number of chunks: a share is computed after all that it reads, the
\* graph is whole when the call returns, and an aborted one whole up to a node.
THEOREM PoolImplements == Spec => Implements
<1>1. Init => Run!Init
  BY RunInit
<1>2. Types /\ PoolInv /\ DidInv /\ [Next]_vars => [Run!Next]_Run!vars
  BY RunStep
<1> QED BY <1>1, <1>2, WorkIsStaged, PTL DEF Spec, Implements, Run!Spec

\* No share is computed twice: no two threads take the same chunk, and none
\* comes back to a node.
ComputesOnce ==
    \A t \in Threads : /\ Part(t)    => <<node[t], "part", t>> \notin did
                       /\ Convert(t) => <<node[t], "convert", t>> \notin did
                       /\ Chunk(t)   => <<node[t], "chunk", unit[t]>> \notin did

\* Each step that computes a share computes it for the first time, which the
\* set of GraphRun, where doing a share again would be a step of nothing,
\* does not tell.
THEOREM ComputedOnce == Spec => [][ComputesOnce]_vars
<1>1. Types /\ PoolInv /\ DidInv => ComputesOnce
  <2> SUFFICES ASSUME Types, PoolInv, DidInv, NEW t \in Threads
               PROVE  /\ Part(t)    => <<node[t], "part", t>> \notin did
                      /\ Convert(t) => <<node[t], "convert", t>> \notin did
                      /\ Chunk(t)   => <<node[t], "chunk", unit[t]>> \notin did
    BY DEF ComputesOnce
  <2>1. pc[t] \in {"part", "convert", "chunk"} => Share(t) \notin did
    BY ShareIs
  <2> QED BY <2>1 DEF Part, Convert, Chunk, Share, At
<1> QED BY <1>1, WorkIsStaged, PTL
=============================================================================
