----------------------------- MODULE ServerLoop -----------------------------
(***************************************************************************)
(* The main loop of llama-server and its idle sleep.                       *)
(*                                                                         *)
(* server_queue::start_loop runs on the main thread: it drains             *)
(* queue_tasks, runs update_slots, and waits on condition_tasks.  After    *)
(* IdleSleep ticks without a task it unloads the model while it holds      *)
(* mutex_tasks and waits for req_stop_sleeping.  HTTP threads first call   *)
(* wait_until_no_sleep (create_response), then tokenize with the model's   *)
(* vocabulary, and only then post their task.  A signal terminates the     *)
(* loop.  (tools/server/server-queue.cpp, server-context.cpp, server.cpp)  *)
(*                                                                         *)
(* The condition variable is the set cv of blocked threads; a thread that  *)
(* has been woken is outside cv and still has to take mutex_tasks and      *)
(* evaluate its predicate.  The mutex is held across a step only while the *)
(* main thread runs callback_sleeping_state ("entering", "loading") or has *)
(* locked itself out ("selflocked").                                       *)
(*                                                                         *)
(* A popped task is launched into a slot, answered at once, or deferred;   *)
(* the release of a slot lets one deferred task back to the front of the   *)
(* queue.  Neither the wait nor should_sleep looks at the deferred queue.  *)
(* Left to ServerSlots: which slot, children (a task takes one slot here), *)
(* and requests for a slot by id (a release takes the first deferred).     *)
(***************************************************************************)
EXTENDS Integers, FiniteSets, Sequences, SequencesExt, Subsequences

CONSTANTS
    Http,           \* the HTTP worker threads; each has one request at a time
                    \* and, once its client has left, no further one
    Main,           \* the main thread, as a member of cv
    NoTask,
    N,              \* number of slots (n_parallel)
    IdleSleep,      \* idle_sleep_ms in ticks of max_wait_time, -1 = disabled
    PromptWake,     \* TRUE: a woken thread gets the mutex within a tick
    Signals         \* when a SIGINT/SIGTERM may come: "early" = before
                    \* start_loop, "other" = its handler runs on another
                    \* thread, "main" = the kernel picks the main thread

ASSUME LoopAssumption ==
    /\ Main \notin Http
    /\ NoTask \notin Http
    /\ N \in Nat \ {0}
    /\ IdleSleep \in Int /\ IdleSleep >= -1 /\ IdleSleep # 0
    /\ PromptWake \in BOOLEAN
    /\ Signals \subseteq {"early", "other", "main"}

VARIABLES
    running, sleeping, req_stop_sleeping,
    is_terminating, \* the signal handler has been entered
    elapsed,        \* now - time_last_task, in ticks, capped at IdleSleep
    queue_tasks,    \* entries [type, id] for the main thread; a task is named
                    \* by the thread that posts it
    queue_tasks_deferred,  \* tasks waiting for a slot
    popped,         \* the task the main thread has popped and not yet processed
    active,         \* tasks launched into a slot and still generating
    stranded,       \* history: with every slot idle, the last task in the queue
                    \* took no slot, while others were deferred
    loaded,         \* the model, its vocabulary and its context exist
    mpc,            \* control point of start_loop
    tpc,            \* control point of each HTTP thread
    cv              \* threads blocked in condition_tasks

flags == <<running, sleeping, req_stop_sleeping, is_terminating>>
tasks == <<queue_tasks, queue_tasks_deferred, popped, active, stranded>>
vars  == <<flags, elapsed, tasks, loaded, mpc, tpc, cv>>

Entry(type, id) == [type |-> type, id |-> id]
TaskEntries == {Entry("task", t) : t \in Http}
QueueEntries == TaskEntries \cup {Entry("cancel", t) : t \in Http} \cup {Entry("next", NoTask)}
HasTask(queue) == \E t \in Http : Contains(queue, Entry("task", t))

SleepEnabled == IdleSleep > 0

\* mutex_tasks is held by the main thread for the whole callback.
MutexFree == mpc \notin {"entering", "loading", "selflocked"}

\* Threads outside cv that are still inside a wait have been notified.
WokenHttp == {t \in Http : tpc[t] = "sleepwait" /\ t \notin cv}

\* The states of start_loop, in program order, and those of an HTTP handler.
MainStates == {"start", "drain", "update", "decode", "touch", "check", "entering",
               "asleep", "loading", "waiting", "done", "selflocked"}
HttpStates == {"out", "sleepwait", "ready", "await", "left"}

TypeOK ==
    /\ running \in BOOLEAN /\ sleeping \in BOOLEAN
    /\ req_stop_sleeping \in BOOLEAN /\ is_terminating \in BOOLEAN
    /\ loaded \in BOOLEAN
    /\ elapsed \in Nat
    /\ queue_tasks \in Seq(QueueEntries)
    /\ queue_tasks_deferred \in Seq(Http)
    /\ popped \in Http \cup {NoTask}
    /\ active \subseteq Http
    /\ stranded \in BOOLEAN
    /\ mpc \in MainStates
    /\ tpc \in [Http -> HttpStates]
    /\ cv \subseteq Http \cup {Main}

\* server.cpp loads the model before the signal handler is installed and
\* before start_loop; the HTTP server already accepts requests.
Init ==
    /\ running = FALSE /\ sleeping = FALSE /\ req_stop_sleeping = FALSE
    /\ is_terminating = FALSE
    /\ elapsed = 0
    /\ queue_tasks = <<>> /\ queue_tasks_deferred = <<>>
    /\ popped = NoTask
    /\ active = {} /\ stranded = FALSE
    /\ loaded = TRUE
    /\ mpc = "start"
    /\ tpc = [t \in Http |-> "out"]
    /\ cv = {}

-----------------------------------------------------------------------------
(* notify_one wakes one blocked thread, whichever; notify_all wakes all.   *)
NotifyOne == IF cv = {} THEN cv' = cv ELSE \E w \in cv : cv' = cv \ {w}
\* Faulty variant: notify_one where every waiter must be told.
NotifyAll_OneOnly == NotifyOne

NotifyAll == cv' = {}

(* One tick of the clock.  elapsed saturates at IdleSleep: only the        *)
(* comparison in should_sleep reads it.                                    *)
Tick ==
    /\ SleepEnabled /\ elapsed < IdleSleep
    /\ PromptWake => WokenHttp = {}
    /\ elapsed' = elapsed + 1
    /\ UNCHANGED <<flags, tasks, loaded, mpc, tpc, cv>>

-----------------------------------------------------------------------------
(* HTTP threads.                                                           *)

\* Nothing is left that would let a deferred task back in.
LeftBehind(queue, deferred) ==
    /\ deferred # <<>>
    /\ active = {} /\ popped = NoTask /\ ~HasTask(queue)

\* Faulty variant: the request sets the flag and blocks without notifying.
Arrive_NoNotify(t) ==
    /\ tpc[t] = "out" /\ MutexFree
    /\ tpc' = [tpc EXCEPT ![t] = IF sleeping THEN "sleepwait" ELSE "ready"]
    /\ req_stop_sleeping' = (sleeping \/ req_stop_sleeping)
    /\ cv' = IF sleeping THEN cv \cup {t} ELSE cv
    /\ UNCHANGED <<running, sleeping, is_terminating, elapsed, tasks, loaded, mpc>>

\* create_response: wait_until_no_sleep, skipped when sleeping is disabled.
Arrive(t) ==
    /\ tpc[t] = "out" /\ MutexFree
    /\ \/ /\ ~(SleepEnabled /\ sleeping)
          /\ tpc' = [tpc EXCEPT ![t] = "ready"]
          /\ UNCHANGED <<req_stop_sleeping, cv>>
       \/ /\ SleepEnabled /\ sleeping
          /\ tpc' = [tpc EXCEPT ![t] = "sleepwait"]
          /\ req_stop_sleeping' = TRUE
          /\ IF req_stop_sleeping
             THEN cv' = cv \cup {t}
             ELSE IF cv = {} THEN cv' = {t}
                  ELSE \E w \in cv : cv' = (cv \ {w}) \cup {t}
    /\ UNCHANGED <<running, sleeping, is_terminating, elapsed, tasks, loaded, mpc>>

\* The woken thread re-evaluates the predicate of condition_tasks.wait.
Resume(t) ==
    /\ t \in WokenHttp /\ MutexFree
    /\ IF sleeping THEN cv' = cv \cup {t} /\ UNCHANGED tpc
                   ELSE tpc' = [tpc EXCEPT ![t] = "ready"] /\ UNCHANGED cv
    /\ UNCHANGED <<flags, elapsed, tasks, loaded, mpc>>

\* tokenization done: post(task) pushes to the back and notifies one thread.
Post(t) ==
    /\ tpc[t] = "ready" /\ MutexFree
    /\ tpc' = [tpc EXCEPT ![t] = "await"]
    /\ queue_tasks' = Append(queue_tasks, Entry("task", t))
    /\ elapsed' = 0
    /\ NotifyOne
    /\ UNCHANGED <<flags, queue_tasks_deferred, popped, active, stranded, loaded, mpc>>

\* The client has left: stop() posts a CANCEL to the front, which first drops
\* the task from both queues.
Leave(t) ==
    /\ tpc[t] = "await" /\ MutexFree
    /\ tpc' = [tpc EXCEPT ![t] = "left"]
    /\ LET rest == Erased(queue_tasks, Entry("task", t))
           deferred == Erased(queue_tasks_deferred, t)
       IN /\ queue_tasks' = <<Entry("cancel", t)>> \o rest
          /\ queue_tasks_deferred' = deferred
          /\ stranded' = (stranded \/ LeftBehind(rest, deferred))
    /\ elapsed' = 0
    /\ NotifyOne
    /\ UNCHANGED <<flags, popped, active, loaded, mpc>>

\* The request is rejected before it is posted (a parse or tokenize error).
Reject(t) ==
    /\ tpc[t] = "ready"
    /\ tpc' = [tpc EXCEPT ![t] = "out"]
    /\ UNCHANGED <<flags, elapsed, tasks, loaded, mpc, cv>>

\* Faulty variant: terminate without notify_all.
Terminate_NoNotify ==
    /\ ~is_terminating /\ MutexFree /\ "other" \in Signals /\ mpc # "start"
    /\ is_terminating' = TRUE /\ running' = FALSE
    /\ UNCHANGED <<sleeping, req_stop_sleeping, elapsed, tasks, loaded, mpc, tpc, cv>>

\* signal_handler (once: a second signal exits the process) calls
\* shutdown_handler and through it server_queue::terminate.
Terminate ==
    /\ ~is_terminating /\ MutexFree
    /\ IF mpc = "start" THEN "early" \in Signals
                        ELSE Signals \cap {"other", "main"} # {}
    /\ is_terminating' = TRUE
    /\ running' = FALSE
    /\ NotifyAll
    /\ UNCHANGED <<sleeping, req_stop_sleeping, elapsed, tasks, loaded, mpc, tpc>>

\* The handler interrupts the main thread while it owns mutex_tasks: the
\* non-recursive lock() in terminate waits for its own thread.
SignalSelfLock ==
    /\ ~is_terminating /\ mpc \in {"entering", "loading"} /\ "main" \in Signals
    /\ is_terminating' = TRUE
    /\ mpc' = "selflocked"
    /\ UNCHANGED <<running, sleeping, req_stop_sleeping, elapsed, tasks, loaded, tpc, cv>>

-----------------------------------------------------------------------------
(* The main thread: start_loop.                                            *)

StartLoop ==
    /\ mpc = "start"
    /\ running' = TRUE /\ elapsed' = 0
    /\ mpc' = "drain"
    /\ UNCHANGED <<sleeping, req_stop_sleeping, is_terminating, tasks, loaded, tpc, cv>>

Draining == mpc = "drain" /\ running /\ popped = NoTask

Quit ==
    /\ mpc = "drain" /\ ~running /\ popped = NoTask
    /\ mpc' = "done"
    /\ UNCHANGED <<flags, elapsed, tasks, loaded, tpc, cv>>

Drained ==
    /\ Draining /\ queue_tasks = <<>>
    /\ mpc' = "update"
    /\ UNCHANGED <<flags, elapsed, tasks, loaded, tpc, cv>>

\* pop_front under the lock; the task is processed after the unlock.
PopTask ==
    /\ Draining /\ queue_tasks # <<>> /\ Head(queue_tasks).type = "task"
    /\ popped' = Head(queue_tasks).id
    /\ queue_tasks' = Tail(queue_tasks)
    /\ UNCHANGED <<flags, elapsed, queue_tasks_deferred, active, stranded,
                   loaded, mpc, tpc, cv>>

\* NEXT_RESPONSE does nothing.
SkipNext ==
    /\ Draining /\ queue_tasks # <<>> /\ Head(queue_tasks).type = "next"
    /\ queue_tasks' = Tail(queue_tasks)
    /\ UNCHANGED <<flags, elapsed, queue_tasks_deferred, popped, active, stranded,
                   loaded, mpc, tpc, cv>>

\* Faulty variant: release does not call callback_on_release.
Release_Silent(t, queue) ==
    /\ active' = active \ {t}
    /\ queue_tasks' = queue
    /\ UNCHANGED <<queue_tasks_deferred, elapsed, cv>>

\* slot.release() of the slot that runs t, with queue_tasks = queue before it:
\* pop_deferred_task lets the first deferred task back in.
Release(t, queue) ==
    /\ active' = active \ {t}
    /\ IF queue_tasks_deferred = <<>>
       THEN queue_tasks' = queue /\ UNCHANGED queue_tasks_deferred
       ELSE /\ queue_tasks' = <<Entry("task", Head(queue_tasks_deferred))>> \o queue
            /\ queue_tasks_deferred' = Tail(queue_tasks_deferred)
    /\ elapsed' = 0 /\ NotifyOne

\* CANCEL: the slot that runs the target is released.
ProcessCancel ==
    /\ Draining /\ queue_tasks # <<>> /\ Head(queue_tasks).type = "cancel"
    /\ LET t == Head(queue_tasks).id IN
       IF t \in active THEN Release(t, Tail(queue_tasks))
       ELSE /\ queue_tasks' = Tail(queue_tasks)
            /\ UNCHANGED <<queue_tasks_deferred, active, elapsed, cv>>
    /\ UNCHANGED <<flags, popped, stranded, loaded, mpc, tpc>>

\* launch_slot_with_task: the task takes an idle slot.
Launch ==
    /\ popped # NoTask /\ Cardinality(active) < N
    /\ active' = active \cup {popped}
    /\ popped' = NoTask
    /\ stranded' = FALSE
    /\ UNCHANGED <<flags, elapsed, queue_tasks, queue_tasks_deferred, loaded, mpc, tpc, cv>>

\* No slot is free, or the one a slot action names is busy.
Defer ==
    /\ popped # NoTask /\ active # {}
    /\ queue_tasks_deferred' = Append(queue_tasks_deferred, popped)
    /\ popped' = NoTask
    /\ elapsed' = 0 /\ NotifyOne
    /\ UNCHANGED <<flags, queue_tasks, active, stranded, loaded, mpc, tpc>>

\* The thread of an answered request; a client that has left takes no answer.
Answered(t) == [tpc EXCEPT ![t] = IF @ = "await" THEN "out" ELSE @]

\* METRICS, CONTROL, slot actions, LoRA, and a launch that fails.
AnswerAtOnce ==
    /\ popped # NoTask
    /\ tpc' = Answered(popped)
    /\ popped' = NoTask
    /\ stranded' = (stranded \/ /\ active = {} /\ queue_tasks_deferred # <<>>
                                /\ ~HasTask(queue_tasks))
    /\ UNCHANGED <<flags, elapsed, queue_tasks, queue_tasks_deferred, active,
                   loaded, mpc, cv>>

ProcessTask == Launch \/ Defer \/ AnswerAtOnce

\* callback_update_slots: with every slot idle it returns at once, otherwise
\* it posts NEXT_RESPONSE first.
UpdateIdle ==
    /\ mpc = "update" /\ active = {}
    /\ mpc' = "touch"
    /\ UNCHANGED <<flags, elapsed, tasks, loaded, tpc, cv>>

\* Faulty variant: update_slots does not post NEXT_RESPONSE.
UpdateSlots_NoNext ==
    /\ mpc = "update" /\ active # {}
    /\ mpc' = "decode"
    /\ UNCHANGED <<flags, elapsed, tasks, loaded, tpc, cv>>

UpdateSlots ==
    /\ mpc = "update" /\ active # {}
    /\ queue_tasks' = Append(queue_tasks, Entry("next", NoTask))
    /\ elapsed' = 0 /\ NotifyOne
    /\ mpc' = "decode"
    /\ UNCHANGED <<flags, queue_tasks_deferred, popped, active, stranded, loaded, tpc>>

\* A slot ends with its result, or with an error, and is released.
EndSlot(t) ==
    /\ mpc = "decode" /\ t \in active
    /\ tpc' = Answered(t)
    /\ Release(t, queue_tasks)
    /\ UNCHANGED <<flags, popped, stranded, loaded, mpc>>

SlotsUpdated ==
    /\ mpc = "decode"
    /\ mpc' = "touch"
    /\ UNCHANGED <<flags, elapsed, tasks, loaded, tpc, cv>>

\* "update_slots() may take a while ... not counted as idle"
Touch ==
    /\ mpc = "touch"
    /\ elapsed' = 0 /\ mpc' = "check"
    /\ UNCHANGED <<flags, tasks, loaded, tpc, cv>>

\* The wait loop takes the lock: work or termination, sleep, or wait_for.
CheckWork ==
    /\ mpc = "check" /\ (~running \/ queue_tasks # <<>>)
    /\ mpc' = "drain"
    /\ UNCHANGED <<flags, elapsed, tasks, loaded, tpc, cv>>

ShouldSleep == SleepEnabled /\ elapsed >= IdleSleep

EnterSleep ==
    /\ mpc = "check" /\ running /\ queue_tasks = <<>> /\ ShouldSleep
    /\ sleeping' = TRUE
    /\ mpc' = "entering"
    /\ UNCHANGED <<running, req_stop_sleeping, is_terminating, elapsed,
                   tasks, loaded, tpc, cv>>

\* callback_sleeping_state(true) has destroyed the model; the wait's
\* predicate is evaluated once before the thread blocks.
FallAsleep ==
    /\ mpc = "entering"
    /\ loaded' = FALSE
    /\ req_stop_sleeping' = FALSE
    /\ mpc' = "asleep"
    /\ cv' = IF running THEN cv \cup {Main} ELSE cv
    /\ UNCHANGED <<running, sleeping, is_terminating, elapsed, tasks, tpc>>

\* Faulty variant: the sleep is left on any notification, without a reload.
WakeSleeper_NoPredicate ==
    /\ mpc = "asleep" /\ Main \notin cv
    /\ mpc' = "drain"
    /\ UNCHANGED <<flags, elapsed, tasks, loaded, tpc, cv>>

\* A woken main thread re-evaluates !running || req_stop_sleeping.
WakeSleeper ==
    /\ mpc = "asleep" /\ Main \notin cv
    /\ \/ /\ ~running
          /\ mpc' = "drain" /\ UNCHANGED <<req_stop_sleeping, cv>>
       \/ /\ running /\ req_stop_sleeping
          /\ req_stop_sleeping' = FALSE
          /\ mpc' = "loading" /\ UNCHANGED cv
       \/ /\ running /\ ~req_stop_sleeping
          /\ cv' = cv \cup {Main} /\ UNCHANGED <<req_stop_sleeping, mpc>>
    /\ UNCHANGED <<running, sleeping, is_terminating, elapsed, tasks, loaded, tpc>>

\* callback_sleeping_state(false) has reloaded the model.
Reloaded ==
    /\ mpc = "loading"
    /\ loaded' = TRUE
    /\ sleeping' = FALSE
    /\ elapsed' = 0
    /\ NotifyAll
    /\ mpc' = "drain"
    /\ UNCHANGED <<running, req_stop_sleeping, is_terminating, tasks, tpc>>

\* wait_for(lock, 1s, pred): pred already holds only if CheckWork applies.
BeginWait ==
    /\ mpc = "check" /\ running /\ queue_tasks = <<>> /\ ~ShouldSleep
    /\ cv' = cv \cup {Main}
    /\ mpc' = "waiting"
    /\ UNCHANGED <<flags, elapsed, tasks, loaded, tpc>>

\* Notified or timed out: with work to do it drains, after a timeout it
\* checks should_sleep again, after a notification without work it waits on.
WaitWoken ==
    /\ mpc = "waiting" /\ Main \notin cv
    /\ IF queue_tasks # <<>> \/ ~running
       THEN mpc' = "drain" /\ UNCHANGED cv
       ELSE cv' = cv \cup {Main} /\ UNCHANGED mpc
    /\ UNCHANGED <<flags, elapsed, tasks, loaded, tpc>>

WaitTimeout ==
    /\ mpc = "waiting"
    /\ mpc' = IF queue_tasks # <<>> \/ ~running THEN "drain" ELSE "check"
    /\ cv' = cv \ {Main}
    /\ UNCHANGED <<flags, elapsed, tasks, loaded, tpc>>

-----------------------------------------------------------------------------
MainNext ==
    \/ StartLoop \/ Quit \/ Drained \/ PopTask \/ SkipNext \/ ProcessCancel
    \/ ProcessTask \/ UpdateIdle \/ UpdateSlots \/ SlotsUpdated
    \/ \E t \in active : EndSlot(t)
    \/ Touch \/ CheckWork \/ EnterSleep \/ FallAsleep \/ WakeSleeper
    \/ Reloaded \/ BeginWait \/ WaitWoken \/ WaitTimeout

HttpNext(t) == Arrive(t) \/ Resume(t) \/ Post(t) \/ Reject(t) \/ Leave(t)

Next == MainNext \/ (\E t \in Http : HttpNext(t)) \/ Terminate
        \/ SignalSelfLock \/ Tick

Spec == Init /\ [][Next]_vars

(* Fairness.  The main thread and a handler that has started keep running  *)
(* (the OS schedules them), a wait_for times out, and a generation ends:   *)
(* update_slots runs again and again and n_predict or the context bounds   *)
(* it.  Clients do not outrun the drain loop for ever: it reaches an empty *)
(* queue again and again (nothing in the code bounds the loop, see the     *)
(* README).  Requests, signals and the clock may stop.                     *)
Fairness ==
    /\ WF_vars(MainNext) /\ []<>(mpc # "drain")
    /\ \A t \in Http : WF_vars(Resume(t)) /\ WF_vars(Post(t)) /\ SF_vars(EndSlot(t))
FairSpec == Spec /\ Fairness

-----------------------------------------------------------------------------
(* Properties.                                                             *)

\* The model is gone exactly while the server is in the sleeping state: no
\* task is run and no slot is stepped without a model, and the sleeping flag
\* is published before the model is freed and withdrawn after it is back
\* (server-queue.h: "called AFTER sleeping is set", "BEFORE ... to false").
ModelOutlivesWork ==
    /\ ~loaded => sleeping
    /\ mpc \in {"update", "decode", "touch", "check", "waiting"} => loaded
    /\ (mpc = "drain" /\ running) \/ popped # NoTask => loaded

\* No thread is left blocked in wait_until_no_sleep once the loop is awake:
\* the notify_all after the reload reaches every waiter.
NoForgottenWaiter == ~sleeping => cv \cap Http = {}

\* A deferred task left behind: the task let back in before it was answered
\* without a slot or cancelled, and no slot is busy that would be released.
Stranded(t) == Contains(queue_tasks_deferred, t) /\ stranded

\* Sleep is entered only between requests: nothing is queued, no slot is
\* generating, and every request that was posted has been answered, unless it
\* was left behind in the deferred queue, which should_sleep does not look at.
SleepsOnlyWhenIdle ==
    [][~sleeping /\ sleeping' =>
         /\ queue_tasks = <<>> /\ active = {}
         /\ \A t \in Http : tpc[t] = "await" => Stranded(t)]_vars

\* "defer until one slot is available": a server that sleeps has every slot
\* available, and no task is still deferred.  The code breaks it, which is why
\* the others except a task left behind (README, section 4).
DeferUntilSlot == sleeping => queue_tasks_deferred = <<>>

\* A thread leaves wait_until_no_sleep only with the model loaded.
ReleasedWithModel ==
    [][\A t \in Http : tpc[t] \in {"out", "sleepwait"} /\ tpc'[t] = "ready" => loaded]_vars

\* "only main thread is waiting on this": the notify_one of a wake request
\* cannot be swallowed by another waiter of the same condition variable.
OnlyMainWaits ==
    [][\A t \in Http :
         tpc[t] = "out" /\ tpc'[t] = "sleepwait" /\ ~req_stop_sleeping
           => cv \subseteq {Main}]_vars

\* A task that is posted while the server is awake is answered, whatever the
\* clock does meanwhile and however often it is deferred, unless its client
\* leaves, the server is told to stop, or it is left behind ("defer until one
\* slot is available").
AwakeTaskIsAnswered ==
    \A t \in Http : (tpc[t] = "await" /\ ~sleeping) ~>
        (tpc[t] \in {"out", "left"} \/ Stranded(t) \/ is_terminating)

\* wait_until_no_sleep returns ("request exiting sleep state and wait until
\* it is done"), unless the server is told to stop: terminate() leaves
\* sleeping set, and a thread that waits then waits for ever.
WakeIsServed ==
    \A t \in Http : (tpc[t] = "sleepwait") ~> (tpc[t] # "sleepwait" \/ is_terminating)

\* terminate() ends a loop that has started, asleep or awake ("this will
\* unblock start_loop()"), unless the handler has locked the main thread out.
SignalEndsLoop ==
    (is_terminating /\ ~running /\ mpc \notin {"start", "selflocked"}) ~> (mpc = "done")
=============================================================================
