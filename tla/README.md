# Verification of the Jetson-PI-Edge server

Jetson-PI-Edge is a fork of llama.cpp that serves vision-language-action
policies (PI0, PI0.5, GR00T) next to text models.  What is its own, beside
kernels and model graphs, is the server: one main loop that owns the model, a
pool of HTTP threads around it, streams that outlive their connection, a router
that runs such servers as child processes, and the foreground session through
which a robot uploads images and state and asks for an action.  Under all of
them lie the KV cache and, on the CPU, the thread pool that computes the graphs.
This directory holds TLA+ models of these parts, their
TLC configurations, and theorems with proofs checked by TLAPS.

All paths below are relative to `src/`; `server-*.cpp` is in `tools/server/`,
`ggml-cpu.c` in `ggml/src/ggml-cpu/`.

## 1. Inventory

### The system in one picture

    HTTP thread                    main thread                    others
    -----------                    -----------                    ------
    create_response                server_queue::start_loop       signal handler
      wait_until_no_sleep  <--cv-->  drain queue_tasks             terminate()
      tokenize                        process_single_task
      server_response_reader          launch / defer / cancel    stream GC thread
        post_tasks  --queue_tasks-->  update_slots                 evict, stop_gc
        next()      <-queue_results-    batch, decode, sample
        stop()      --CANCEL------->    slot.release
      stream_pipe_producer            sleep / reload the model   GET / DELETE of
        write, close, cleanup                                      a stream session
    foreground handlers
      foreground.mutex; call ctx_tgt directly, without a task

### Components, their state, and what makes them correct

| component | state | operations | interacts with | correct when |
|---|---|---|---|---|
| main loop (`server-queue.cpp`, `server.cpp`) | `running`, `sleeping`, `req_stop_sleeping`, `time_last_task`, `queue_tasks`, one condition variable, the model | post, drain, update, sleep, reload, terminate, `wait_until_no_sleep` | every HTTP thread by one mutex and one condition variable | no work on an unloaded model; no wake-up lost; posted work answered; a signal ends it |
| results and readers (`server_response`, `server_response_reader`) | `waiting_task_ids`, `queue_results`, per reader a counter and a cancel flag | add ids, post, send, receive with time-out, stop | slots send, all readers wait on one condition variable | results in order and exactly once; nothing left behind; an abandoned task stops |
| slots (`server-context.cpp`) | per slot state, task and KV prompt; deferred queue; prompt cache | launch, defer, cancel, slot actions, the phases of `update_slots`, release | queue (deferral), readers (results) | a task is in one place; one result per task; a slot keeps its own prompt; no deferred task or child forgotten |
| stream sessions (`server-stream.cpp`) | map of sessions; per session a bounded buffer, flags, stop hook | create or replace, attach, write, drain on close, cancel, finalize, GET, DELETE, GC, shutdown | HTTP provider, reader's `stop()` | a replay is exact; one live session; a drop loses nothing; cancel stops; no reader hangs |
| foreground session (`server-context.cpp` 1247-1615 and the handlers `post_foreground_*`) | pending images and text, history, state, embodiment, `n_past`, last action, sequence 0 of the KV cache, the cross state of the context | POST image, PUT state, POST infer, reset; wiped by reload | the model directly; the main loop's sleep | an action is computed from the latest inputs; a tick is fresh; a failure keeps what it must |
| router (`server-models.cpp`) | map of models, statuses, child processes, `stopping_models` | load, unload, LRU eviction, reload, status reports, proxying | child servers by pipes and HTTP | at most `models_max` children alive; mapping and processes agree; requests and the router end |
| prompt cache (`server-task.cpp`) | saved prompts with sizes | save, load, update | slots | limits kept; best prefix chosen |
| KV cells and caches (`src/llama-kv-*.{h,cpp}`) | cells with position, shift and sequences; heads; copies not yet done | find_slot, apply_ubatch, seq_rm, seq_cp, seq_add, seq_keep, prepare and rollback, update, saved states | llama_context, slots | indexes agree with cells; a sequence has no gaps, holds what was computed for it, at the rotation of its position |
| batch allocator (`src/llama-batch.cpp`) | one batch | init, splits | llama_context | positions consecutive; each token in one ubatch |
| thread pool (`ggml-cpu.c`) | `n_graph`, `stop`, `pause`, `abort`, a mutex and a condition variable, the two counters of the barrier, `current_chunk`; per worker `last_graph` | `ggml_graph_compute`, pause, resume, free; per worker poll, sleep, compute, barrier | llama_context decodes through it; the abort callback | every share computed once and after what it reads; nobody in a graph when the next is set up; no worker sleeps through a graph |
| jetson_pi C interfaces (`src/jetson_pi_*.cpp`) | a session per handle | the foreground tick as C calls | llama_context, mtmd | the same tick as the server's |
| reasoning budget, speculative decoding, n-gram caches (`common/`) | small automata | accept, draft, update | sampling | budget respected |

The complete list, with the parts left out and why, is under "components" in
`PROJECT.json`.

### What is hard here

`PROJECT.json` lists the hazards line by line.  By kind:

- **One condition variable, two kinds of waiters.**  The main thread and the
  HTTP threads in `wait_until_no_sleep` wait on `condition_tasks`; posts and
  wake requests use `notify_one`.
- **State read before an unlock and used after it.**  A handler that has seen
  the server awake tokenizes with the model's vocabulary later, without a lock
  and without being counted as activity.  The foreground handlers do the same
  with the whole model.
- **Deferral.**  One release lets one deferred task back; everything depends on
  that task ending in a slot.
- **Failures in the middle.**  A batch fails for several slots; a prompt fails
  after its images were taken; a message fails after it joined the history.
- **Cancellation.**  A reader stops while its task is queued, popped, deferred,
  in a slot, or answered but not received.
- **Children that do not obey.**  The router learns of a child by a pipe, asks
  it to stop by another, and joins threads that need the mutex it may hold.
- **Bookkeeping and data apart.**  A KV cache moves cells at once, keys and
  values at the next update; a batch is placed on trial and taken back.
- **Threads of a graph.**  They share a graph by position only: which barrier a
  thread comes to next must be the same for all of them, also when a node is
  fused or empty, when a product is cut in chunks, and when an abort is stored
  while they compute.  Between graphs the workers poll without the mutex, sleep
  with it, and may still spin in the last barrier.
- **Streams.**  The session outlives the request, the hook outlives neither; a
  DELETE, a replacement, the GC and the shutdown meet at any point.

## 2. Modules

| module | models | uses |
|---|---|---|
| `ServerLoop` | `start_loop`, the HTTP side of the sleep, signals, exit | |
| `RequestLifecycle` | abstract: what a request is promised | |
| `Subsequences` | erasing entries from the queues | |
| `ResponseReader` | `server_response` and its readers | extends `Subsequences`, implements `RequestLifecycle` |
| `ServerSlots` | `process_single_task`, `update_slots`, deferral | extends `Subsequences` |
| `StreamSession` | `server-stream.cpp` and its use | |
| `ForegroundSession` | the foreground handlers and the idle sleep | |
| `ServerModels` | the router and its children | |
| `KvCells` | `llama_kv_cells`, as pure operators on one table | |
| `SequenceStore` | abstract: what `llama.h` promises of the memory | |
| `KvCache` | `llama_kv_cache`, the splits of a batch, the memory side of `decode` | extends `KvCells`, implements `SequenceStore` |
| `ComputeGraph` | a graph as its threads see it: kinds of nodes, shares of work | |
| `GraphRun` | abstract: what `ggml_graph_compute` promises | extends `ComputeGraph` |
| `ThreadPool` | the thread pool, the loop over the nodes, the chunks of a product, `ggml_barrier` | extends `ComputeGraph`, implements `GraphRun` |
| `*_proofs` | theorems about the module of that name | |
| `MC*` | the instances TLC checks | |

Every definition that stands for code is mapped to its lines under "map" in
`PROJECT.json`.  Definitions with an underscore and a suffix (`Reset_KeepsText`)
are **faulty variants**: the code with a plausible bug.  No specification uses
them; they stand beside the action they vary, and document which bug each
property would catch ("mutants" in `PROJECT.json`).

### ServerLoop

`mpc` is the program counter of `start_loop`; each step is what the loop does
between two points at which another thread may take `mutex_tasks`.  The
condition variable is the set `cv` of blocked threads: notifying takes one, or
all, out of it, and a thread outside `cv` must still get the mutex and evaluate
its predicate.  The mutex is held over a step in three situations only (going
to sleep, reloading, and a signal delivered to the main thread while it holds
the mutex), which `MutexFree` expresses.  HTTP threads: `Arrive` is
`create_response`, `Post` is `post()`, `Reject` a request that ends without a
task, `Leave` the `stop()` of a reader whose client has gone, with the CANCEL it
posts.  `elapsed` counts ticks of one second since `time_last_task`, saturating
at the idle time-out, which is all that `should_sleep` can see.

`PromptWake` says whether a woken thread gets the mutex within a tick.  Without
it the signal of a wake request can be swallowed by a thread of the previous
sleep that has not run for a whole idle time-out; the code comment "only main
thread is waiting on this" is right only under this assumption, and the theorem
`WakeReachesMain` states it so.

A task leaves `queue_tasks` under the mutex (`PopTask`) and is processed after the
unlock: it takes an idle slot (`Launch`), goes to `queue_tasks_deferred` (`Defer`),
or is answered at once (`AnswerAtOnce`: metrics, control, slot actions, LoRA, and
launches that fail).  `Release` is `slot.release()` with `pop_deferred_task`: it
lets the first deferred task back in and refreshes `time_last_task`.  A slot is
released when its generation ends (`EndSlot`) and by a CANCEL.  `stranded` is a
history variable that no guard reads: with every slot idle, the last task in the
queue has been answered without a slot, or cancelled, while others were deferred.
From then until the next launch nothing lets them in; `Stranded(t)` names such a
task.  `SleepsOnlyWhenIdle` and `AwakeTaskIsAnswered` except it, because the code
does leave it behind, against `DeferUntilSlot` (section 4).

### ResponseReader

One reader per request, any number of tasks per reader.  `recv_with_timeout`
is `Receive`, `Block`, `Woken` and `Timeout`; `next()` adds `ShouldStop`;
`stop()` is three steps (`StopWaiting`, `DropResults`, `PostCancel`), because it
takes three locks.  The main thread's side is `PopTask`, which takes a task out of
the queue, and then, after the unlock, `Launch`, `Defer` or `AnswerAtOnce`; a slot
sends results (`Generate`), and its last one releases it; `ProcessCancel` releases
the slot of a task.  Readers take their steps in between, so that a CANCEL may be
posted while its target is in neither queue.  `slipped` is a history variable: the
tasks that were deferred after their CANCEL had been posted.  `CancelOnItsWay`
and `NoZombieTask` except them by name, `CancelReachesTask` does not (section 4).
`stranded` is as in `ServerLoop`, for `EveryReaderCloses`.

`RequestLifecycle` has no queues and no threads: a task produces results, its
client sees them in that order, the last is final or an error, and a request
ends as complete, failed or left.  `ResponseReader` implements it with
`produced <- emitted` (what `send` put in the vector for a waiting id),
`delivered <- got` (what `next` returned) and an outcome that is open until
`stop()` has looked at the counters.  `KeepsPromise` is that refinement, checked
by TLC and proved.

### ServerSlots

The main thread alternates between popping a task and `update_slots`, whose
phases (`pre`, `decode`, `post`, `abort`) visit the slots in order with `cur`.
`Launch` is the whole of `launch_slots_with_parent_task` including
`get_available_slot` (similarity, LRU, the prompt cache) and the clearing of
idle slots; `EndSlot` is the result, `release` and the pop of a deferred task,
which the code does in one call.  HTTP threads post and stop between any two of
these steps.

### StreamSession

A request's control points follow `handle_completions_impl` and the provider in
`server-http.cpp`: create the session, attach the hook, loop over `next`, write
to the session and to the wire, and, when the client drops, drain in `close()`;
then `cleanup`, unhook, finalize.  A cancellation is five steps because the
code tests a flag, copies a hook, tests another flag and calls it, holding
nothing in between.  Bytes are their own numbers, so that "the replay is exact"
is a statement about sequences of numbers.

### ForegroundSession

A handler holds `foreground.mutex` from its first to its last statement, so an
upload, a PUT, a reset are one step; an inference is several, because the main
thread, which does not take that mutex, may unload the model between its calls.
`infer` is the inference in progress.  A chunk is an image, an instruction or a
token, at one position each; what an action was computed from is recorded in
`result`.  `kv` is sequence 0, `cross` what `set_state` has left in the context.
`put`, `uploaded` and `clean` are history variables: no guard reads them.

Each policy is an initial state (`policy_kind` never changes).  The PI branch of
`llama_context::decode` stores nothing in sequence 0, which `EvalPi` and `Store`
follow.

### ServerModels

An entry of the mapping is `status`, `owner` (the child it belongs to),
`joinable` and `preset`.  A child is named after the request, or the model loaded
at startup, that it was made for; it has a monitoring thread (`mon`: reads the
child's reports, marks the entry, reaps) and a stopping thread (`stopper`).
Pipes hold at most one unread report (`line`) and one exit command (`cmd`).  A
request is a sequence of steps, one for each stretch under the mutex: `pc` and
the return point `ret`, as `ensure_model_ready`, `unload_lru` and `unload` call
each other.  `held` is the mutex where the code keeps it over a blocking call:
the join of the old thread in `load` and of the thread in `remove`.

Abstractions: the victim of `unload_lru` is any running model (the code takes
the least recently used), ports, arguments, aliases, events and exit codes are
left out, a child serves one model, and stretches that take no lock are fused
(`StopperAsks`, `StopperEnds`, `ChildGone`).

### KvCells and KvCache

`KvCells` is one table: `pos`, `shift` and `seq` of each cell, the indexes `used`
and `seq_pos` kept beside them, and `has_shift`.  `seq_pos` counts, because a
position may be held by two cells of a sequence for a moment.  `Consistent` says
that the indexes are what the cells say.

`KvCache` holds a table and a head per stream, the buffers, and the queue
`sc_info` of copies between streams.  A buffer cell holds the sequence whose
token was computed there and the position to which its key is rotated, so data
of another sequence, of another position, or rotated twice can be told apart.
`Decode` is `llama_context::decode`: the pending update (`Copied`, then
`Rotated`), the split, the trial placement of every ubatch and its rollback
(`prepare`), then each ubatch placed and computed, or a failure in the middle.
The other actions are the calls of the server: `Truncate`, `CopyState`,
`ContextShift`, `CacheReuse`, `SeqKeepOne`, `Clear`, `Save`, `Load`.

`SequenceStore` is the cache as `llama.h` describes it: a set of entries per
sequence, each a position and the sequence it was computed for.
`KeepsSequences` maps the cells of a sequence to its entries, with the data they
will have once pending copies and shifts are done.  A wrong rotation, a
copy from the wrong stream or a cell taken from another sequence is a step the
store does not have.  With a window, a sequence may lose entries that no coming
token sees; `Loses` states exactly that.

`Allowed` names the calls that break the promise and that the passing run leaves
out; section 4 describes each.

### ThreadPool

The pool of `ggml-cpu.c` as it is built without OpenMP (the default build has
`GGML_OPENMP` on, and then uses OpenMP's threads and barriers; the pool below is
what runs without it).  Thread 0 is the caller: `Compute` sets a graph up,
`Kickoff` and `KickoffWake` hand it out in two steps around the broadcast, and
thread 0 then computes like any other.  A worker is in its waiting loop (`Loop`
to `Check`) or in a graph.  `SeesGraph` is `ggml_graph_compute_thread_ready`: the
graph number and the number of threads in one word, `n_graph`.  A wait on the
condition variable may end for no reason (`Spurious`), and a poll after any
number of rounds.

In a graph, `Node` is the head of the loop, `Part` an operation cut in equal parts
(with the node fused to it), `Convert`, `Chunk` and `Fetch` are
`ggml_compute_forward_mul_mat` with its inner barrier, `Callback` is the abort
callback of thread 0.  `ggml_barrier` is `Arrive`, `Enter`, `LastResets`,
`LastOpens` and `Spin`, one step for each access to `n_barrier` and
`n_barrier_passed`; `bar[t].then` is where the call returns to.

Each step is one access to shared memory; interleavings are sequentially
consistent.  Two locals are read together (`n_threads` and `n_passed` in the
barrier; `cgraph` and `n_graph` at the start), as neither changes while a thread
is inside a graph, which `QuietPool` checks.

`GraphRun` has no threads: a graph begins, each share is computed after all that
it may read (a product's chunks after all of its converted factor, a node after
all nodes before it), an abort cuts the rest off at the next node, and the call
returns when the work up to the limit is done.  `Implements` maps it to the pool:
`running` is thread 0 being in a call, `limit` where the loop over the nodes
stops.

## 3. Runs

| run | instance | asks |
|---|---|---|
| `loop` | 3 HTTP threads, one slot, clients that leave, time-out of 2 ticks, signals at any time | no work without a model, sleep only when idle, no waiter forgotten, posted to an awake server is answered, a wake is served, a signal ends the loop |
| `reader` | one request with 2 tasks, one with a partial result, one slot | refinement of `RequestLifecycle`, nothing lost, a CANCEL is still to come, termination, no zombie task |
| `slots_safety` | 2 slots; a completion, a parent with a child whose launch may fail, a slot action; prompt cache on; clients leave | one place, one result, own prompt, no orphan |
| `slots_live` | 2 slots, completions, one empty prompt | everybody is answered; nobody is left deferred |
| `stream_safety` | 2 POSTs of one conversation, a GET, a DELETE, shutdown, a buffer of 1 byte and chunks of 1 or 2 | exact and complete replay, whole generation, one live session |
| `stream_live` | one POST, GET, DELETE, shutdown, a silent model | a cancel stops the producer; readers are released |
| `foreground` | 4 policies, 2 images, 2 states, 2 embodiments, an instruction with a marker in it, PI batch of 1 image | markers match images, actions are fresh, ticks are fresh, text conversation and context agree |
| `foreground_sleep` (violated) | as `foreground` | is the model only used while awake? No |
| `router` | 2 models, one of them downloadable and edited on disk, room for 1 child, 3 HTTP threads with a choice of requests, a child that sleeps, crashes, ignores the exit | limit on processes, no ghost entry, no orphan process, requests and router end |
| `router_join` (violated) | as `router` | may the thread that `remove` joins under the mutex still need it? Yes |
| `kv` | 2 sequences; one stream of 3 cells, a stream of 2 cells each, one stream of 5 cells with a window of 3 | indexes agree, no gaps, window whole, refused only when full, refinement of `SequenceStore` |
| `pool` | 2 threads, graphs with nodes of every kind, 1 to 3 threads asked for, 3 graphs, pauses and a free | refinement of `GraphRun`, quiet between graphs, no wake-up missed, calls return |

Not listed in the runs are the types, and what `ClosedLeavesNothing`, `ReleasedWithModel`,
`OnlyMainWaits` and `FailureKeepsImages` say: they are theorems (section 5).

### Bounds, and why they suffice

- Three HTTP threads: one that is still waking from the previous sleep, one
  that asks for the next wake, one that posts; two ticks of idle time separate
  "just idle" from "asleep".  `elapsed` saturates, so the clock adds no bound.
- One slot in `loop` and `reader`: a task is then deferred exactly when another
  one runs.  With it three requests are what a stranded task needs: one that
  runs, one that is let back in and takes no slot, one that stays.  A thread posts
  again after an answer, but not after its client has left.  The proofs are for
  any number of slots.
- Two readers with three tasks: one result of another's, one of one's own, one
  that comes after `stop()`.  One partial result is enough to order it before
  the final one.
- Two slots and a parent with one child: a parent that fits only when both are
  free, with a third request that competes.
- A buffer of one byte with chunks of up to two: a chunk that does not fit, a
  front that is dropped, an offset that is lost, all within two bytes.
- `MaxHistory` = 3, `MaxImages` = 2, `MaxTokens` = 1 bound the foreground
  session by guards: two messages and a reply, two images (one more than the
  PI batch takes in this instance), one decoded token.  The limit of images in
  the code is 3; the model makes it the constant `PiImages`.  Symmetry over
  images, states and embodiments is sound because no action compares them with
  a constant and the run has no liveness property.

- Two models and room for one: every load evicts.  Each of the three HTTP
  threads takes one request out of two or three, so that each pair of
  operations on one model meets (load and remove, download and remove, unload and
  reload, eviction and load).  One edit of the disk separates before and after.
- KV: two sequences are enough for sharing, copying and overwriting.  Three
  cells do not hold two full sequences, so batches are refused, and a batch of
  two tokens is one or two ubatches.  In the windowed layout a window of three
  leaves two cached tokens visible to the next; five cells are two windows and a
  token, which is less than the code reserves (`n_swa * n_seq + n_ubatch`) and
  still never refuses a batch.  A queue of one copy, a saved state of one
  position and positions up to 3 (`MaxPos`) let each operation follow each other.
  Three layouts are initial states of one run.
- Pool: one worker, so each worker's race is with thread 0; what three and more
  threads do to each other is proved (section 5).  A request for three threads is
  cut to two, one for one thread leaves the worker out.  Three graphs: one that is
  computed, one that reuses the barrier at once, one after a pause.
  `MaxGraphs` < `GraphWrap`, so the graph number does not come round (in the code
  it does after 2^16 graphs, and a worker that saw none of them would take the
  last for one it knows).  `PassedWrap` = 2 makes `n_barrier_passed` come round
  all the time, where the code needs 2^32 barriers.  With three threads that is
  too little for `CallsReturn`: a worker that spins may miss a whole turn of the
  counter, and nothing but the size of the counter keeps the code from it.

Deadlock is not checked where the system really stops (after a signal, after all
requests, after an abort, or asleep with no request).  In `kv` it is checked.

### Fairness

- `ServerLoop`: the main thread runs; a handler that has begun to resume or
  post goes on; a generation ends (`n_predict`, the context size), which is strong
  fairness of `EndSlot`, as it is possible only inside `update_slots`.  And
  `[]<>(mpc # "drain")`: **the drain loop reaches an empty queue again and
  again**.  Nothing in the code bounds that loop: clients that post faster than
  the loop takes tasks starve `update_slots`, so this is an assumption about the
  load.  Requests, signals and the clock are not fair.
- `ResponseReader`: threads run; only `EveryReaderCloses` assumes that a
  generation ends, and says so in its premise.
- `ServerSlots`: the main thread runs; a prompt that is offered the batch again
  and again gets in, a generation ends, and a reader that has received an error
  stops (its destructor).
- `StreamSession`: threads run; the model may be silent for ever, which is why
  `CancelStops` is worth checking.
- `ServerModels`: threads of the router run; a loading child reports or dies
  (`LoadingEnds`), and a download that was told to exit does.  A child that serves
  need never obey: the stopping thread kills it after the time-out.
- `ThreadPool`: every thread runs, and a mutex that is free again and again is
  obtained.  Nothing is assumed of the callers, of a poll that ends, or of a wait
  that ends without a broadcast.

## 4. Findings

Two runs show the code doing what one of its comments or documents rules out;
`PROJECT.json` quotes both.

1. `foreground_sleep`, `UsedOnlyAwake`: a foreground inference is not counted as
   activity; the idle sleep frees the model under it.
2. `router_join`, `RemovedThreadIsDone`: `remove()` of a model that is being
   downloaded joins its monitoring thread with the mutex held, and the thread
   still has to take that mutex twice.  The router is then stuck for good.

Behaviour that the models contain and the passing properties exclude by name:

- **Main loop.**  `post()` does not ask a sleeping loop to wake: a request that
  passed `wait_until_no_sleep` just before the loop fell asleep posts into a
  sleeping server and waits until another request arrives
  (`tools/server/README.md`:1993: "Any new incoming task will automatically
  trigger the model to reload").  `AwakeTaskIsAnswered` is stated for tasks posted
  to an awake server; without that condition it is violated with
  `Signals = {}` and two HTTP threads.
- **Deferral: a task left behind.**  One release lets one deferred task back in.
  `h1` runs, `h2` and `h3` are deferred; `h1` ends, `h2` is let back in and takes no
  slot (its launch fails, it is a slot action, or its client leaves first).  Nothing
  is released after that: `h3` stays deferred while every slot is idle, until a
  later request has run and ended.  Neither the waits nor `should_sleep` look at
  the deferred queue, so the server goes to sleep over it (`server-queue.h`:40:
  "Add a new task, but defer until one slot is available").  `DeferUntilSlot` says
  that this cannot be; checked as an invariant of `Spec` with the constants of
  `Loop.cfg` and `Signals = {}`, it is violated in seconds.  `SleepsOnlyWhenIdle`,
  `AwakeTaskIsAnswered` and `EveryReaderCloses` except a task that is `Stranded`,
  and nothing else.  In `ServerSlots`, `NoTaskLeftBehind` is checked with
  completions whose clients stay; it is violated with `N = 1`,
  `Kind <- EraseThird`, no children.
- **Deferral: a CANCEL that comes too early.**  The main thread has popped a task
  and not yet processed it when `stop()` posts the CANCEL, which finds it in
  neither queue ("if this is cancel task make sure to clean up pending tasks",
  `server-queue.cpp`:25).  The task is deferred, the CANCEL is processed and finds
  no slot, the next release lets the task back in, and it generates for a closed
  reader ("if tasks is not finished yet, cancel them", `server-queue.cpp`:444).
  `CancelReachesTask` says that this cannot be; checked as an invariant of `Spec`
  with the constants of `Reader.cfg`, it is violated.  `CancelOnItsWay` and
  `NoZombieTask` except a task that has `slipped`, and nothing else.
- **Children.**  A parent with an empty prompt is answered before anything is
  decoded, and nobody wakes its children: they hold their slots until a CANCEL.
  `NoOrphan` is violated when `t2`, the parent, has `NoPrompt`; the theorem
  `ChildrenHaveParents` says that this is the only way.
- **Prompt cache.**  `get_available_slot` saves and loads the prompt of a slot
  requested by `id_slot` before anyone asks whether it is busy.  `KeepsOwnPrompt`
  is violated with `Kind <- Completions`, `IdSlot <- ThirdWantsZero` and
  `PromptCache = TRUE`.
- **Stop hook.**  The hook of a stream tests its guard and calls `stop()` in two
  steps; `cleanup()` fits between ("the alive guard ensures stop() is not called
  after cleanup() has run", `server-stream.h`).  In `StreamSession` it is the state
  `tpc[t] = "stop" /\ ~alive[victim[t]]`.
- **Router.**  Two loads of one name wedge in `JoinOld` as `remove` does
  (`Wedged`).  A reload asserts that a finished download has been joined, which
  fails when the download finishes between collection and erasure, or with two
  reloads at once (`aborted`).  An eviction or a removal waits for the status
  UNLOADED, which a new load of the model may skip past (`Overtaken`).  A finished
  download whose entry was erased before it was told to exit never exits, and
  the next reload or the shutdown joins it (`Forgotten`).  `RouterEnds` excludes
  these three by name.  Besides: an unload between the end of a child and the
  marking of its entry leaves the name in `stopping_models` and stops the next
  child; `operator[]` creates entries without a status; a download child that
  crashes leaves its entry DOWNLOADING (`DownloadsCrash`); `models_max = 0` means
  unlimited, yet the first load with a startup model throws.
- **KV cache** (`Allowed`).  `"queued_state"`: a state saved between the copy of a
  stream and the next decode has the positions of the copy and none of its data
  ("Copy the state of a single sequence into the specified buffer", `llama.h`).
  `"shared_shift"`: `seq_add` moves cells shared with
  another sequence under it; the server avoids it only for parents and children
  that are running.  `"window_copy"`, `"window_failure"`: placing a token over a
  cell that has left the window removes older positions of that sequence in
  other cells, which `prepare` does not restore ("restore the cells to their
  original state"); after a refused batch, or a computation that fails in a later
  ubatch, a sequence then has gaps, against "all positions in the range
  [pos_min, pos_max] are guaranteed to be present" (`llama.h`).
  `seq_keep` clears the other sequences of its own stream only, though
  `llama.h` says that it "removes all tokens that do not belong" to it (`Keep`
  says what the code does).  `pos_div` records its shift with the sign opposite to
  `pos_add`'s: `PosDivMovesKey` proves the key ends twice the distance off.  A
  K-shift that fails is ignored by `update`, and `prepare` restores heads by slot
  number instead of stream.
- **Foreground session.**  A wake wipes it without `foreground.mutex` and without
  telling the client, although the usage document says that `state_flag` stays
  until a reset.  A PI or text inference that fails in the evaluation has consumed
  its images, although the document says that they are consumed by a success
  (`FailureKeepsImages` is therefore stated for GR00T).  After a successful PI0.5
  inference `latest_state` is cleared and `state_flag` is not: the next
  instruction is written with an empty state, about which `FreshAction` says
  nothing.  An instruction with a media marker makes every later inference fail
  until a reset, because the text stays pending.  A PI inference without images
  and instruction answers 200 without an action.  A fourth image aborts the
  process.

## 5. Theorems

Each proof is of the form `Init => I`, `I /\ [Next]_vars => I'`, `I => property`,
for every value of the constants that the named assumptions admit.

**ServerLoop_proofs** (assumption `LoopAssumption`; any set of HTTP threads, any
number of slots, any time-out, any signals).  `TypeOK` and `NoForgottenWaiter` are
not inductive: `LoopInv` adds which control points go with which values of
`sleeping` and `loaded` (`SleepControl`), who may be blocked where (`BlockedWait`),
that `NEXT_RESPONSE` keeps the queue from running dry while a slot generates
(`WorkIsQueued`), that an awaited request is queued, in the hands of the main
thread, deferred or in a slot (`AwaitedIsHeld`), that only a task whose client has
left is cancelled (`CancelledIsLeft`: the release by a CANCEL loses no awaited
request), and that a deferred task has a busy slot, a task on its way to one, or
has been left behind (`DeferredHasHope`: what `SleepsOnlyWhenIdle` needs of the
deferred queue, which the code does not look at).  `AppendIs`, `PushIs`, `TailIs`
and `ErasedIs` say what a queue holds after each operation on it, `ReleaseIs` and
`CancelIs` what a release does to both queues.  From the invariant: `LoopTypes`, `ModelForWork`,
`NoWaiterForgotten`, `SleepOnlyWhenIdle`, `ReleaseWithModel`.  `WakeReachesMain`
also assumes `PromptWake`, and adds that no thread of an earlier sleep is left
once the clock has moved (`PromptInv`).  The first five do not need `PromptWake`,
so they also cover the systems that the run, which sets it, does not.

**ServerSlots_proofs** (`SlotsAssumption`, `FamilyAssumption`; any number of
slots, requests and children).
`PromptsStayOwn` proves `KeepsOwnPrompt` if `QuietCache`: the prompt cache is off,
or no completion asks for a slot by id.  Section 4 shows why the hypothesis is
needed.  The invariant adds that prompts are read only for the
first task of a family.
`DeferredIsNotLeftBehind` proves `NoTaskLeftBehind` if `Patient` (completions
whose launch does not fail) and no client leaves (`NoStop`).  Without
the first half a slot action strands the rest (section 4); with `Cancels = TRUE`,
`Kind <- Completions` and `IdSlot <- AnySlot` a cancellation does.

The module also proves `OnePlace`, `OneResult` and `NoOrphan`.  None is
inductive.  `PlacesInv` adds: a queue holds a task once,
and the popped task is in no queue (`Once`); as long as a task waits for a slot,
nothing of its family runs or is answered, and what runs is not answered yet
(`Unanswered`), so that the end of a slot answers nobody twice and a launch takes
no id that runs; a CANCEL in the queue is for a request that is stopped
(`Stopped`), so that a slot it releases leaves nobody waiting (`Held`).  The steps
on queues are described by what the queues hold (`Has`, `Single`; lemmas say what
appending, erasing and removing do to it), each end of a
slot by one lemma (`EndStep`).  `OrphanInv` adds that a parent whose prompt is done
has not been decoded yet; it needs `ParentsHavePrompts`, for the reason given in
section 4.

**ResponseReader_proofs** (`ReaderAssumption`; any readers, tasks and numbers of
partial results).  `TypeCorrect`, `NothingIsLost` and `ClosedReaderIsGone` follow
from `IInv`.  `Fresh` and `HeldOnce`: until its reader has posted it nothing is known
of a task, and then it is in one place only: queued, popped, deferred, or in a
slot.  `CancelComes`: a task that outlives its reader is in the hands of the main
thread or in a slot, with its CANCEL still in the queue, unless it has `slipped`;
the first step that could break it is `Defer`, and that is where `slipped` grows.
`CancelIsOnItsWay` follows, which is the safety half of `NoZombieTask`.  `Stamped`: a result carries
its place in what its task has sent, which ends with the first that is not
partial.  `Prefix`: a client has seen a prefix of that.  `Stored`, `Ordered`,
`Present`: the vector holds the rest, in order, as long as the id waits.
`Counted` and `Control`: the counter counts final results, and a reader leaves the
loop of `next` for one of three reasons.  None of these is inductive alone.  The
vector is a sequence from which `recv` removes from the middle;
`Kept` is that removal; `KeptRank`, `KeptIs` and `PendingIsRest` say which element a position of the result was.  `ReaderKeepsPromise` is the refinement: `Send` is
`Produce` when the id waits, `Receive` is `Deliver`, the end of `next` and
`StopWaiting` are `End`, and every other step is a stutter.

**StreamSession_proofs** (`StreamAssumption`; any requests, readers and DELETEs of
a conversation, chunks of any size, any capacity).  `Placed(s, off, B)` says that
the bytes of `s`, which follow byte number `off`, are among the numbered bytes
`B`; `Right` is the set of those that are true of a generation.  `SuffixIs`,
`PlacedSuffix` and `PlacedConcat` show that taking a suffix and appending keep bytes
in place, `Appended` that `append` does so with what it drops.  The invariant `Inv`:
the buffer and the chunk under way are placed, and as long as the session is open
they end where the generation does (`Held`); what a reader has is placed from its
offset on (`Received`); an ended or cancelled producer is the only one that leaves
its loop, and a hook is looked at only after the flag is set (`Control`).  The proof
separates the three actions that make or move bytes from those that are `Quiet`;
readers need only that the bytes of a session grow and that a finalized session
stays as it is (`Grown`).  From `Inv`: `Types`, `Replays`, `Whole`, `AtMostOneLive`.

**KvCache_proofs** (`PosAssumption`, `LayoutAssumption`, `BoundAssumption`,
`SeqAssumption`; any layout, any number of cells, sequences, positions and calls,
and every fault of `Allowed`).  An operation on cells changes one cell.
`LocalChange` says what it must then do to the indexes: the cell joins or leaves
`used`, and the count of each sequence changes by the weight the cell gains or
loses there.  `LocalChangeKeeps` proves that this keeps `Consistent`; each
operation is then shown to be a local change (`SeqRmConsistent` and the others)
and to make of the cell what its comment says (`Becomes`).  `LimitsExact`: in a
consistent table the minimum and maximum over `seq_pos` are those over the cells,
which is what `seq_pos_min` and `seq_pos_max` return.  `PosAddKeepsKey` and
`PosDivMovesKey` relate the shift an operation records to the rotation the K-shift
will make.

`IndexesStayExact` is `IndexesAgree` for the whole cache.  Four things make the step
from one cell to a call:

- `Rooted`: the position of a used cell, less its shift, is a position of the cache.
  A copy between streams enters cells at the position before their shift and shifts
  them again, so without it the copy could enter a cell below zero.
- A call changes many cells with a fold over a set or a sequence.  `FoldExists` and
  `FoldKeeps` turn a fold into the function of the set folded so far; each fold is
  then shown to keep the tables consistent, together with what it has done to the
  cells up to there (`Left`, `KeptIn`, `ShiftedIn`, `JoinedIn`, `EnteredIn`, `BackIn`):
  `seq_rm` of a cell needs that the cell still has the sequence, `seq_add` that it
  has not yet, which is why `seq_cp` has to empty its destination first
  (`GoneEverywhere`).
- `Still`: while a batch is placed on trial no cell has a shift, as the pending update
  has reset it.  `set`, which gives back what a cell held, asserts that.
- A slot has as many cells as the ubatch has tokens (`Fits` of a batch becomes
  `InBounds` of what is left of it; `Fitting` of the slots found so far), so that
  no token goes to a cell outside the cache or to a position beyond it.

`StepsExist` and `StepsKeep` are the same as the fold lemmas for the two recursive
functions, the cutting of a batch and the trial placement.  `RankHeld` says that in
a finite set with different keys every rank is held by a member: it makes the
k-th free cell, and the k-th token of an ubatch, exist.

Without a window the three other invariants of the run are theorems too, each as
`Spec => [](layout.window = 0 => ...)`.  The invariant is `Prefixed`: the tables are
rooted, every sequence is a `Run` (the positions from zero to its next one, each in
one cell), and so is the saved state (`SavedRun`).  `NoGaps` by itself says nothing
of the saved state, from which `Load` could bring a gap, and `WindowWhole` needs to
know that nothing is missing at the low end.

- `Holds(c, s, X)` says that the cells of `s` in a table map one to one to the
  positions `X`.  Each operation is shown to change `X` as it should (`HoldsLeft`,
  `HoldsMoved`, `EnteredRun`, `JoinedRun`, `FilledHolds`) and to leave the other
  sequences alone (`LeftSame`, `MovedSame`, ...).  `ChunkMoves` is the arithmetic of
  a chunk that moves down to the end of the part before it.
- A batch is followed along two functions: `Plans(nx, ...)`, the next position of
  every sequence before and after each ubatch, and `Leads(w, ...)`, the caches that
  the trial and then the real placement pass through.  `LeadsRuns` shows that the
  `k`-th cache holds runs up to `nx[k]`, so that a failed computation, which removes
  what is from `nx[k - 1]` on, leaves runs again (`RemovedRuns`).  Nothing is purged:
  without a window only free cells are taken.
- `RefusedOnlyForWantOfCells` counts along the same way.  An ubatch takes from a
  stream the tokens `Between` two plans (`SegmentsBetween`) and as many free cells
  (`FreeAfter`), so the tokens placed and the free cells left of a stream stay
  `Balanced`; the ubatch that finds too few cells then shows that the whole batch
  asks for more than there were (`RefusedAsksMore`).

`NoGapsWithoutWindow` and `WholeWithoutWindow` assume that `"shared_shift"` is not in
`Allowed`: shifting a cell moves it in every sequence that shares it, which opens a
gap in the others (section 4).  `RefusedOnlyForWantOfCells` needs no such
assumption.

`KeepsSequencesWithoutWindow` is the refinement: `Spec /\ layout.window = 0 =>
KeepsSequences`.  It also assumes that `"queued_state"` is not in `Allowed`, because
`Save` reads the buffers and would miss what a queued copy is still to bring.

- `Content` is the substitution of `content` in the INSTANCE.  `ContentIs` puts it as
  `Views(v, Seen)`: what the tables show of the buffers `Seen` once the queued copies
  are done, an entry being its own only where the rotation of the key plus the
  pending shift is its position (`Shown`).
- Every call ends in `Become`, and `BecomeContent` says what the content is then.  It
  needs `ForgetViews`: the buffer cells that are forgotten when their cell is freed
  are not seen, even through copies that are still queued.
- A table operation is then a lemma about what a stream shows: `ViewLeft` and
  `ViewMoved` for `seq_rm` and `seq_add` (the chunk is removed up to, then moved with its
  keys), `JoinedView` and `EnteredView` for the two `seq_cp`, each with its
  counterpart for the sequences it is not about (`KeepsOthers`).
- A batch is followed along `Plans`, `Leads` and the buffers `Writes` passes through.
  `Along` says that after `j` ubatches a sequence shows what it showed at first and
  what it has `Grown` by.  An ubatch that was placed and whose computation fails
  adds nothing below the place where it begins (`StepUnwritten`), so what
  `DropAllViews` leaves is what there was before it.
- The `...Stores` lemmas match each result with an operation of the store.  A batch is
  `Append` of what was computed, which is nothing when it is refused.

**ForegroundSession_proofs** (`ForegroundAssumption`; any images, states,
instructions and policies, and, as the bounds are only guards of the model,
histories of any length).
`MarkersStayMatched` proves `MarkersMatchImages` with the types of the pending
inputs and the fact that a message has taken its images before it is evaluated
(`TakenFirst`: otherwise the reply, which clears the text, would leave images
without markers).
`SessionTypes` proves `TypeOK`.  Its core is `TokenizedType`: with as many
markers as bitmaps, the k-th marker never reads past the bitmaps.
`TicksStartFresh` follows from `Gr00tInv`: between two steps of a tick the pending
images are exactly those uploaded, the chunks are these and one instruction, and
the context carries the state of the last PUT.
`ActionsAreFresh` proves `FreshAction` with `MessageInv`: the images of a message
under way are those uploaded for it.  `TokenizedImages` is the reason: when the
counts agree every piece that counts as a marker is one, so the k-th bitmap comes
to stand where the k-th marker was.
`ContextIsConversation` proves `OneConversation` with `TextInv`: while a message is
evaluated the transcript is what the context holds and the message, while a reply
is generated the context is the transcript and what is generated so far, and an
empty context is at position 0.  What a transcript gains with a message needs
induction over the history (`FlattenAppend`).  The library's induction theorems
cannot be used (their hypotheses are about an operator), but `Least` and `Induct`
get induction over the naturals from the theorem that inclusion of finite sets is
well founded, which is about sets only.
`FailuresKeepImages` proves the action property `FailureKeepsImages`.

**ThreadPool_proofs** (`PoolAssumption`, `GraphsAssumption`, `ChunksAssumption`; any
number of threads, any graphs in which a fused node is followed by an ordinary
one, any number of chunks, and a `PassedWrap` of at least 2).
`NoWakeIsMissed` needs only who holds the mutex (`LockInv`).  The other theorems
rest on `PoolInv`, which says where every thread is:

- `Places`: a worker in a graph is one of the first `n_graph.n` (`Team`) and has
  seen the graph at work, or it spins in the last barrier of the graph before.
- `Bounds`: a thread stays within the nodes, and an abort is stored only at the
  node after the one that thread 0 is in, so no thread has passed it.
- `Aligned`: all threads of the graph at work come to the same barrier next.
  `Dest(t)` computes it from where a thread is: from the list of nodes if it has
  yet to look (`From`), from the node if it computes (`After`), from the barrier if
  it is there.  A thread that has not even woken up has a `Dest`, the first one.
- `Counted`: `n_barrier` is the number of threads that wait, and the last of them
  finds all of them there.

`Aligned` and `Counted` need each other: a barrier opens for all only because all
are counted in the same one, and they are in the same one only because the last
one opened for all.  `PoolIsQuiet` proves `QuietPool`, `PoolTypes` `TypeOK`.

For the refinement, the next barrier names the stage that ends there (`Stage`): the
parts of a node, the conversion of a product, or its chunks.  `DidInv` says that
what is computed is all of the work before the stage (`Base`) and, of the stage,
what its threads have done (`Done`): the parts of the threads that are past the
node, or the chunks that are taken and no longer held.  `Chunked` says that two
threads never hold the same chunk, and that none leaves while there are chunks to
take; `Converted` that the counter is reset before the first is taken.
`StageEnds`: when a barrier opens, its stage is done.  `StageReady`: everything a
share of the stage may read is in `Base`.  `PoolImplements` is the refinement;
`ComputedOnce` adds that a step never computes a share again, which a set of
shares alone would not show.

**ServerModels_proofs** (`RouterAssumption`; any models, clients, requests and
presets, any limit, and children that load, crash or hang as they like).  None of
the three invariants is inductive.  `RouterInv` looks at the mapping from three
sides:

- `EntryOK`: a running entry belongs to a child that is watched, and keeps its
  thread as long as requests are served; only a download makes an entry
  DOWNLOADING.
- `ProcOK`: as long as a child is watched the entry of its name is its own, so
  that a monitoring thread that ends late never marks the entry of its
  successor; a download that still has something to say finds its entry.
- `ClientOK`: between two stretches under the mutex a request remembers what it
  still may do; it starts one child at most, and only a download (for the thread
  it replaces) or a removal waits for a thread with the mutex held.

`Limit` counts entries, not processes: `unload_lru` picks its victim under one lock
and `load` counts again under the next.  `NoChildIsLost` and `NoEntryIsLost` are
`NoOrphan` and `NoGhost`; `LimitHolds` is `LimitOnProcesses`, since the children
that serve map one to one into the running entries.  `JoinsDoNotBlock` proves
`RemovedThreadIsDone`, and that `load` never keeps the mutex over a join, if no
request is a download (`Serving`).  Section 4 shows why the hypothesis is needed:
the monitoring thread of a download announces its end before it takes the mutex
for the last time.

### Only model-checked

- Liveness (all `~>` and `<>` properties) and everything under fairness: out of
  reach for the provers used here.
- `NoGaps`, `WindowWhole` and `RefusedOnlyWhenFull` with a window.  They then depend on
  which cells of its own a sequence overwrites and what is purged for it, and
  `RefusedOnlyWhenFull` on the number of cells that the server gives such a cache.
- The refinement of `SequenceStore` with a window: what a sequence may lose then
  depends on the same purge.

## 6. What is not modelled

- Inside `update_slots`: token positions, batches cut in several views,
  checkpoints, speculative drafts, sampling.  `ServerSlots` treats a prompt as a
  value and a decode as success, retry or failure.
- In the thread pool: memory orders (the model is sequentially consistent), the
  OpenMP build, barriers inside other operations than the product, the chunk
  counters that `mul_mat_id` keeps in its work buffer, NUMA and priorities, the
  graph number coming round, and the scheduler above (`ggml-backend.cpp`).
- The composition of the foreground session with the slots.  Both use sequence 0
  and the target context, from two threads without a common lock.
- In the KV cache: `seq_div` of the cache, the state of the whole cache, removal
  from all sequences at once, two-dimensional positions, a K-shift that fails,
  the caches made of two (iswa, dsa, dsv4) and the recurrent and hybrid
  memories.
- In the router: ports, arguments, aliases, events, exit codes, `last_used`,
  startup loads in a reload, the stream routes that follow a conversation.
- A PUT of state to a text model, which the handler accepts and which then takes
  the PI path: `PutState` excludes it.
- What freed memory does: the models stop at the state in which it is used.
- Failure of a model reload, which aborts the process.
- The limits of the prompt cache, the C interfaces, the reasoning budget.
- Kernels, graphs, model loading, conversion, parsers, templates, samplers, the
  web interface, examples and vendored code: sequential, numeric or third-party.

## 7. What would come next

1. **Foreground x slots** over `KvCache`: sequence 0 used from two threads.
2. `ServerSlots` and `ResponseReader` composed under `RequestLifecycle`: results of
   parents and children, and slots requested by id, up to the client.
3. **Abstract tick**: what a robot client may rely on, implemented by
   `ForegroundSession` and by a model of the C interfaces.
4. The two-cache compositions and the recurrent memory under `SequenceStore`.
5. **Prompt cache limits, reasoning budget** as small modules.

## 8. Running

    tlc -workers 2 -config Loop.cfg MCServerLoop
    tlapm ServerLoop_proofs.tla

The module and configuration of every run are in `PROJECT.json`.  A run listed
as "violation" ends with a counterexample: the behaviour described in section 4.
