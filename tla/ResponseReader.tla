--------------------------- MODULE ResponseReader ---------------------------
(***************************************************************************)
(* server_response (the result queue) and server_response_reader, the RAII *)
(* object through which an HTTP thread posts tasks and receives results.   *)
(*                                                                         *)
(* One reader per request: it registers its ids as waiting, posts its      *)
(* tasks, loops next() over recv_with_timeout until every task has sent    *)
(* its final result, an error arrives or the client is gone, and its       *)
(* destructor runs stop().  The main thread pops a task under the lock and *)
(* launches, defers or answers it after the unlock; the end of a           *)
(* generation lets one deferred task back, and a CANCEL task ends one.     *)
(* (tools/server/server-queue.cpp, server-context.cpp)                     *)
(*                                                                         *)
(* Left to other modules: which slot, children, and requests for a slot by *)
(* id (ServerSlots), the sleep of the main loop (ServerLoop), and recv()   *)
(* and terminate(), which nothing calls.  The interval of wait_for is not  *)
(* measured: it may end at once.                                           *)
(***************************************************************************)
EXTENDS Naturals, FiniteSets, Sequences, SequencesExt, Subsequences

CONSTANTS
    Readers,      \* the readers, one per HTTP request
    Ids,          \* task ids
    Owner,        \* [Ids -> Readers]: the reader that posts a task
    MaxPartials,  \* [Ids -> Nat]: bound on the partial results of a task
    NoTask,
    N             \* number of slots (n_parallel)

ASSUME ReaderAssumption ==
    /\ IsFiniteSet(Ids) /\ NoTask \notin Ids
    /\ N \in Nat \ {0}
    /\ Owner \in [Ids -> Readers]
    /\ MaxPartials \in [Ids -> Nat]

VARIABLES
    waiting_task_ids,
    queue_results,   \* results sent and not yet received
    cv,              \* readers blocked in condition_results.wait_for
    queue_tasks,     \* TASK and CANCEL entries for the main thread
    queue_tasks_deferred,  \* ids that wait for a slot
    popped,          \* the id popped and not yet launched, deferred or answered
    generating,      \* ids that have a slot
    pc,              \* control point of each reader
    received_count, cancelled,
    gone,            \* readers whose client has disconnected
    emitted,         \* history: results sent for an id while it was waiting
    got,             \* history: results received for an id
    stranded,        \* history: with every slot idle, the last task in the queue
                     \* took no slot, while others were deferred
    slipped          \* history: ids deferred after their CANCEL was posted

resp  == <<waiting_task_ids, queue_results, cv>>
main  == <<queue_tasks, queue_tasks_deferred, popped, generating, stranded, slipped>>
rdv   == <<received_count, cancelled>>
hist  == <<emitted, got>>
vars  == <<resp, main, pc, rdv, gone, hist>>

id_tasks(r) == {i \in Ids : Owner[i] = r}
Kinds == {"partial", "final", "error"}
Steps == {"add", "post", "next", "recv", "blocked", "should_stop",
          "stop", "cancel", "post_cancel", "closed"}

\* has_next(): the reader still expects results.
has_next(r) == ~cancelled[r] /\ received_count[r] < Cardinality(id_tasks(r))

\* The queued results of one task, oldest first.
Pending(i) ==
    Kept(queue_results, {k \in DOMAIN queue_results : queue_results[k].id = i})

TypeOK ==
    /\ waiting_task_ids \subseteq Ids
    /\ queue_results \in Seq([id : Ids, kind : Kinds, n : Nat])
    /\ cv \subseteq {r \in Readers : pc[r] = "blocked"}
    /\ queue_tasks \in Seq([type : {"task", "cancel"}, id : Ids])
    /\ queue_tasks_deferred \in Seq(Ids)
    /\ popped \in Ids \cup {NoTask}
    /\ generating \subseteq Ids /\ slipped \subseteq Ids
    /\ stranded \in BOOLEAN
    /\ pc \in [Readers -> Steps]
    /\ received_count \in [Readers -> 0..Cardinality(Ids)]
    /\ cancelled \in [Readers -> BOOLEAN]
    /\ gone \subseteq Readers

Init ==
    /\ waiting_task_ids = {} /\ queue_results = <<>> /\ cv = {}
    /\ queue_tasks = <<>> /\ queue_tasks_deferred = <<>>
    /\ popped = NoTask /\ generating = {}
    /\ stranded = FALSE /\ slipped = {}
    /\ pc = [r \in Readers |-> "add"]
    /\ received_count = [r \in Readers |-> 0]
    /\ cancelled = [r \in Readers |-> FALSE]
    /\ gone = {}
    /\ emitted = [i \in Ids |-> <<>>] /\ got = [i \in Ids |-> <<>>]

Goto(r, step) == pc' = [pc EXCEPT ![r] = step]

Entry(type, i) == [type |-> type, id |-> i]
HasTask(queue) == \E i \in Ids : Contains(queue, Entry("task", i))

-----------------------------------------------------------------------------
(* The HTTP thread.                                                        *)

\* post_tasks, first half: add_waiting_task_ids.
AddWaiting(r) ==
    /\ pc[r] = "add"
    /\ waiting_task_ids' = waiting_task_ids \cup id_tasks(r)
    /\ Goto(r, "post")
    /\ UNCHANGED <<queue_results, cv, main, rdv, gone, hist>>

\* One entry of queue_tasks for each task of the reader.
Entries(type, r) ==
    [k \in 1..Cardinality(id_tasks(r)) |-> Entry(type, SetToSeq(id_tasks(r))[k])]

\* post_tasks, second half: the tasks go to the back of queue_tasks,
\* in the order of the vector.
PostTasks(r) ==
    /\ pc[r] = "post"
    /\ queue_tasks' = queue_tasks \o Entries("task", r)
    /\ Goto(r, "next")
    /\ UNCHANGED <<resp, queue_tasks_deferred, popped, generating, stranded, slipped,
                   rdv, gone, hist>>

\* The request handler: another next() while has_next(), then the destructor.
NextOrLeave(r) ==
    /\ pc[r] = "next"
    /\ Goto(r, IF has_next(r) THEN "recv" ELSE "stop")
    /\ UNCHANGED <<resp, main, rdv, gone, hist>>

Mine(r) == {k \in DOMAIN queue_results : queue_results[k].id \in id_tasks(r)}

\* Faulty variants: the newest result first; partial results counted too;
\* final results not counted.
Receive_Newest(r) ==
    /\ pc[r] = "recv" /\ Mine(r) # {}
    /\ LET k   == CHOOSE k \in Mine(r) : \A j \in Mine(r) : k >= j
           res == queue_results[k]
       IN /\ queue_results' = RemoveAt(queue_results, k)
          /\ got' = [got EXCEPT ![res.id] = Append(@, res)]
          /\ received_count' = [received_count EXCEPT
                                  ![r] = IF res.kind = "final" THEN @ + 1 ELSE @]
          /\ Goto(r, IF res.kind = "error" THEN "stop" ELSE "next")
    /\ UNCHANGED <<waiting_task_ids, cv, main, cancelled, gone, emitted>>

Receive_Counting(r, kinds) ==
    /\ pc[r] = "recv" /\ Mine(r) # {}
    /\ LET k   == CHOOSE k \in Mine(r) : \A j \in Mine(r) : k <= j
           res == queue_results[k]
       IN /\ queue_results' = RemoveAt(queue_results, k)
          /\ got' = [got EXCEPT ![res.id] = Append(@, res)]
          /\ received_count' = [received_count EXCEPT
                                  ![r] = IF res.kind \in kinds THEN @ + 1 ELSE @]
          /\ Goto(r, IF res.kind = "error" THEN "stop" ELSE "next")
    /\ UNCHANGED <<waiting_task_ids, cv, main, cancelled, gone, emitted>>
Receive_CountAll(r)  == Receive_Counting(r, {"partial", "final"})
Receive_CountNone(r) == Receive_Counting(r, {})

\* recv_with_timeout takes the first queued result of one of its tasks, and
\* next() acts on it: an error stops the reader, a final result is counted.
Receive(r) ==
    /\ pc[r] = "recv" /\ Mine(r) # {}
    /\ LET k   == CHOOSE k \in Mine(r) : \A j \in Mine(r) : k <= j
           res == queue_results[k]
       IN /\ queue_results' = RemoveAt(queue_results, k)
          /\ got' = [got EXCEPT ![res.id] = Append(@, res)]
          /\ received_count' = [received_count EXCEPT
                                  ![r] = IF res.kind = "final" THEN @ + 1 ELSE @]
          /\ Goto(r, IF res.kind = "error" THEN "stop" ELSE "next")
    /\ UNCHANGED <<waiting_task_ids, cv, main, cancelled, gone, emitted>>

\* Nothing for this reader: wait_for blocks for at most one polling interval.
Block(r) ==
    /\ pc[r] = "recv" /\ Mine(r) = {}
    /\ cv' = cv \cup {r}
    /\ Goto(r, "blocked")
    /\ UNCHANGED <<waiting_task_ids, queue_results, main, rdv, gone, hist>>

\* Woken by notify_all: look at the results again.
Woken(r) ==
    /\ pc[r] = "blocked" /\ r \notin cv
    /\ Goto(r, "recv")
    /\ UNCHANGED <<resp, main, rdv, gone, hist>>

\* Faulty variant: should_stop is not called after a timeout.
Timeout_NoPoll(r) ==
    /\ pc[r] = "blocked"
    /\ cv' = cv \ {r}
    /\ Goto(r, "recv")
    /\ UNCHANGED <<waiting_task_ids, queue_results, main, rdv, gone, hist>>

\* cv_status::timeout: recv_with_timeout returns nullptr without looking at
\* the results, and next() calls should_stop().
Timeout(r) ==
    /\ pc[r] = "blocked"
    /\ cv' = cv \ {r}
    /\ Goto(r, "should_stop")
    /\ UNCHANGED <<waiting_task_ids, queue_results, main, rdv, gone, hist>>

ShouldStop(r) ==
    /\ pc[r] = "should_stop"
    /\ Goto(r, IF r \in gone THEN "stop" ELSE "recv")
    /\ UNCHANGED <<resp, main, rdv, gone, hist>>

\* stop(), first call: remove_waiting_task_ids, which keeps queued results.
StopWaiting(r) ==
    /\ pc[r] = "stop"
    /\ waiting_task_ids' = waiting_task_ids \ id_tasks(r)
    /\ Goto(r, IF has_next(r) THEN "cancel" ELSE "closed")
    /\ cancelled' = [cancelled EXCEPT ![r] = @ \/ has_next(r)]
    /\ UNCHANGED <<queue_results, cv, main, received_count, gone, hist>>

\* stop(), unfinished tasks: remove_waiting_task_id for each of them.
DropResults(r) ==
    /\ pc[r] = "cancel"
    /\ queue_results' = Kept(queue_results,
           {k \in DOMAIN queue_results : queue_results[k].id \notin id_tasks(r)})
    /\ Goto(r, "post_cancel")
    /\ UNCHANGED <<waiting_task_ids, cv, main, rdv, gone, hist>>

\* What cleanup_pending_task leaves of the two queues.
OtherEntries(r) == Kept(queue_tasks,
    {k \in DOMAIN queue_tasks :
       ~(queue_tasks[k].type = "task" /\ queue_tasks[k].id \in id_tasks(r))})
OtherDeferred(r) == Kept(queue_tasks_deferred,
    {k \in DOMAIN queue_tasks_deferred : queue_tasks_deferred[k] \notin id_tasks(r)})

\* Nothing is left that would let a deferred task back in.
LeftBehind(queue, deferred) ==
    /\ deferred # <<>>
    /\ generating = {} /\ popped = NoTask /\ ~HasTask(queue)

CancelWith(r, queue, deferred) ==
    /\ pc[r] = "post_cancel"
    /\ queue_tasks' = queue
    /\ queue_tasks_deferred' = deferred
    /\ stranded' = (stranded \/ LeftBehind(queue, deferred))
    /\ Goto(r, "closed")
    /\ UNCHANGED <<resp, popped, generating, slipped, rdv, gone, hist>>

\* Faulty variants: tasks that have left the queues get no CANCEL; the
\* deferred queue is not cleaned up.
PostCancel_QueueOnly(r) == CancelWith(r, OtherEntries(r), OtherDeferred(r))
PostCancel_NotDeferred(r) ==
    CancelWith(r, Entries("cancel", r) \o OtherEntries(r), queue_tasks_deferred)

\* ... and one CANCEL per task at the front of the queue, which first drops
\* a target that is still queued or deferred.
PostCancel(r) == CancelWith(r, Entries("cancel", r) \o OtherEntries(r), OtherDeferred(r))

\* The client closes its connection.
Disconnect(r) ==
    /\ r \notin gone /\ pc[r] # "closed"
    /\ gone' = gone \cup {r}
    /\ UNCHANGED <<resp, main, pc, rdv, hist>>

-----------------------------------------------------------------------------
(* The main thread.                                                        *)

\* pop_front under the lock; the task is processed after the unlock.
PopTask ==
    /\ popped = NoTask /\ queue_tasks # <<>> /\ Head(queue_tasks).type = "task"
    /\ popped' = Head(queue_tasks).id
    /\ queue_tasks' = Tail(queue_tasks)
    /\ UNCHANGED <<resp, queue_tasks_deferred, generating, stranded, slipped,
                   pc, rdv, gone, hist>>

\* slot.release() of the slot that runs i, with queue_tasks = queue before it:
\* pop_deferred_task lets the first deferred task back in.
Release(i, queue) ==
    /\ generating' = generating \ {i}
    /\ IF queue_tasks_deferred = <<>>
       THEN queue_tasks' = queue /\ UNCHANGED queue_tasks_deferred
       ELSE /\ queue_tasks' = <<Entry("task", Head(queue_tasks_deferred))>> \o queue
            /\ queue_tasks_deferred' = Tail(queue_tasks_deferred)

\* CANCEL: the slot that runs the target is released.
ProcessCancel ==
    /\ popped = NoTask /\ queue_tasks # <<>> /\ Head(queue_tasks).type = "cancel"
    /\ LET i == Head(queue_tasks).id IN
       IF i \in generating THEN Release(i, Tail(queue_tasks))
       ELSE queue_tasks' = Tail(queue_tasks) /\ UNCHANGED <<queue_tasks_deferred, generating>>
    /\ UNCHANGED <<resp, popped, stranded, slipped, pc, rdv, gone, hist>>

\* launch_slot_with_task: the task takes an idle slot.
Launch ==
    /\ popped # NoTask /\ Cardinality(generating) < N
    /\ generating' = generating \cup {popped}
    /\ popped' = NoTask
    /\ stranded' = FALSE
    /\ UNCHANGED <<resp, queue_tasks, queue_tasks_deferred, slipped, pc, rdv, gone, hist>>

\* No slot is free, or the one a slot action names is busy.
Defer ==
    /\ popped # NoTask /\ generating # {}
    /\ queue_tasks_deferred' = Append(queue_tasks_deferred, popped)
    /\ popped' = NoTask
    /\ slipped' = IF pc[Owner[popped]] = "closed" THEN slipped \cup {popped} ELSE slipped
    /\ UNCHANGED <<resp, queue_tasks, generating, stranded, pc, rdv, gone, hist>>

\* server_response::send: queued and announced to every blocked reader if the
\* id is waiting, dropped otherwise.
Send(i, kind) ==
    LET res == [id |-> i, kind |-> kind, n |-> Len(emitted[i])] IN
    IF i \in waiting_task_ids
    THEN /\ queue_results' = Append(queue_results, res)
         /\ emitted' = [emitted EXCEPT ![i] = Append(@, res)]
         /\ cv' = {}
    ELSE UNCHANGED <<queue_results, emitted, cv>>

\* METRICS, CONTROL, slot actions, LoRA, and a launch that fails.
AnswerAtOnce ==
    /\ popped # NoTask
    /\ \E kind \in {"final", "error"} : Send(popped, kind)
    /\ popped' = NoTask
    /\ stranded' = (stranded \/ /\ generating = {} /\ queue_tasks_deferred # <<>>
                                /\ ~HasTask(queue_tasks))
    /\ UNCHANGED <<waiting_task_ids, queue_tasks, queue_tasks_deferred, generating,
                   slipped, pc, rdv, gone, got>>

ProcessTask == Launch \/ Defer \/ AnswerAtOnce

\* A slot sends a result; the last one releases it.
Generate(i, kind) ==
    /\ i \in generating /\ popped = NoTask
    /\ kind = "partial" => Len(emitted[i]) < MaxPartials[i]
    /\ Send(i, kind)
    /\ IF kind = "partial" THEN UNCHANGED <<queue_tasks, queue_tasks_deferred, generating>>
                           ELSE Release(i, queue_tasks)
    /\ UNCHANGED <<waiting_task_ids, popped, stranded, slipped, pc, rdv, gone, got>>

-----------------------------------------------------------------------------
ReaderNext(r) ==
    \/ AddWaiting(r) \/ PostTasks(r) \/ NextOrLeave(r) \/ Receive(r) \/ Block(r)
    \/ Woken(r) \/ Timeout(r) \/ ShouldStop(r) \/ StopWaiting(r)
    \/ DropResults(r) \/ PostCancel(r)

QueueNext == PopTask \/ ProcessCancel \/ ProcessTask

Next ==
    \/ \E r \in Readers : ReaderNext(r) \/ Disconnect(r)
    \/ QueueNext
    \/ \E i \in Ids, kind \in Kinds : Generate(i, kind)

Spec == Init /\ [][Next]_vars

\* Every thread keeps running.  GenerationEnds is the assumption that a
\* generation does too (n_predict, the context size, a stop token bound it).
Fairness == (\A r \in Readers : WF_vars(ReaderNext(r))) /\ WF_vars(QueueNext)
FairSpec == Spec /\ Fairness
GenerationEnds == \A i \in Ids : WF_vars(Generate(i, "final"))

-----------------------------------------------------------------------------
(* Properties.                                                             *)

\* Results of a waiting task are neither lost, duplicated nor reordered on
\* their way through the shared vector, whatever other readers take from it.
NothingLost == \A i \in waiting_task_ids : emitted[i] = got[i] \o Pending(i)

\* A destroyed reader leaves nothing behind in the shared queues: no waiting
\* id and no result that nobody will ever take.
ClosedLeavesNothing ==
    \A r \in Readers : pc[r] = "closed" =>
        /\ waiting_task_ids \cap id_tasks(r) = {}
        /\ \A i \in id_tasks(r) : Pending(i) = <<>>

\* How the request of a reader has ended, once stop() has looked at it.
Failed(r) == \E i \in id_tasks(r) : got[i] # <<>> /\ got[i][Len(got[i])].kind = "error"
Outcome(r) ==
    IF pc[r] \notin {"cancel", "post_cancel", "closed"} THEN "open"
    ELSE IF ~cancelled[r] THEN "complete"
    ELSE IF Failed(r) THEN "failed" ELSE "left"

Lifecycle == INSTANCE RequestLifecycle WITH
    produced <- emitted, delivered <- got, outcome <- [r \in Readers |-> Outcome(r)]

\* With its queues, wake-ups, time-outs and cancellations the reader gives a
\* request what RequestLifecycle promises: every result in order, one end per
\* task, and "complete" only with the final result of every task.
KeepsPromise == Lifecycle!Spec

\* A deferred task left behind: the task let back in before it was answered
\* without a slot or cancelled, and no slot is busy that would be released.
Stranded(i) == Contains(queue_tasks_deferred, i) /\ stranded

\* Every request ends, whether or not its client stays and however often its
\* tasks are deferred, unless one of them is left behind.
EveryReaderCloses ==
    GenerationEnds => \A r \in Readers :
        <>(pc[r] = "closed" \/ \E i \in id_tasks(r) : Stranded(i))

\* A request whose client has left ends even if its generation never does:
\* the timeout of wait_for polls the connection.
GoneReaderCloses == \A r \in Readers : (r \in gone) ~> (pc[r] = "closed")

\* Where a task is that may still cost compute.
Alive(i) ==
    \/ Contains(queue_tasks, Entry("task", i)) \/ Contains(queue_tasks_deferred, i)
    \/ popped = i \/ i \in generating

\* "if tasks is not finished yet, cancel them": the CANCEL of a task that
\* outlives its reader is still to come, wherever the task was when stop()
\* posted it, unless it was in the hands of the main thread and deferred.
CancelOnItsWay ==
    \A i \in Ids : pc[Owner[i]] = "closed" /\ Alive(i) =>
        Contains(queue_tasks, Entry("cancel", i)) \/ i \in slipped

\* What those comments say, without the exception: a task that generates for
\* a closed reader will meet its CANCEL.  The code breaks it (README, section 4).
CancelReachesTask ==
    \A i \in generating : pc[Owner[i]] = "closed" => Contains(queue_tasks, Entry("cancel", i))

\* A request that is over stops costing compute: none of its tasks stays in a
\* queue or keeps generating, but for those deferred after their CANCEL.
NoZombieTask ==
    \A i \in Ids : (pc[Owner[i]] = "closed") ~> [](i \in slipped \/ ~Alive(i))
=============================================================================
