---------------------------- MODULE ServerSlots ----------------------------
(***************************************************************************)
(* The scheduler of llama-server: tasks, slots, deferral and the prompt    *)
(* each slot holds.                                                        *)
(*                                                                         *)
(* HTTP threads post tasks and, when a request is abandoned, CANCEL tasks. *)
(* The main thread pops a task and launches it into a slot, or defers it   *)
(* when the slots it needs are taken; slot.release() moves one deferred    *)
(* task back to the front of the queue.  When the queue is empty it runs   *)
(* update_slots: prompts are batched slot by slot, the batch is decoded,   *)
(* the children of a finished prompt get a copy of it, and each slot is    *)
(* sampled; HTTP threads post in between.                                  *)
(* (tools/server/server-context.cpp, server-queue.cpp)                     *)
(*                                                                         *)
(* A prompt is a value: two prompts are equal or have nothing in common.   *)
(* Left out: the idle sleep (ServerLoop), the way of the results to the    *)
(* HTTP thread (ResponseReader), how tokens are cut into batches, and the  *)
(* tasks that are answered at once and touch no slot (METRICS, CONTROL,    *)
(* GET_LORA, SET_LORA).                                                    *)
(***************************************************************************)
EXTENDS Integers, FiniteSets, Sequences, SequencesExt, Subsequences

CONSTANTS
    N,            \* number of slots (n_parallel)
    Tasks,        \* tasks posted by HTTP threads, one per request
    Subtasks,     \* ids of child tasks (n_cmpl > 1)
    NoTask,
    Prompts, NoPrompt,
    Kind,         \* [Tasks -> {"completion", "slot_action"}]
    IdSlot,       \* [Tasks -> Int]: requested slot, -1 = any
    Children,     \* [Tasks -> SUBSET Subtasks]
    Prompt,       \* [Tasks -> Prompts or NoPrompt (an empty prompt)]
    MayFail,      \* tasks whose launch may fail (tokens, sampler, LoRA)
    PromptCache,  \* TRUE: --cache-ram is not 0
    KvUnified,    \* TRUE: idle slots are cleared when a task is launched
    Cancels       \* TRUE: clients may leave

Slots == 0..N-1
Ids   == Tasks \cup Subtasks
Family(t) == {t} \cup Children[t]

ASSUME SlotsAssumption ==
    /\ N \in Nat \ {0}
    /\ NoTask \notin Ids /\ Tasks \cap Subtasks = {}
    /\ NoPrompt \notin Prompts
    /\ Kind \in [Tasks -> {"completion", "slot_action"}]
    /\ IdSlot \in [Tasks -> Int]
    /\ Children \in [Tasks -> SUBSET Subtasks]
    /\ Prompt \in [Tasks -> Prompts \cup {NoPrompt}]
    /\ MayFail \subseteq Tasks
    /\ {PromptCache, KvUnified, Cancels} \subseteq BOOLEAN
    /\ \A t \in Tasks :
         /\ IdSlot[t] >= -1
         /\ IsFiniteSet(Children[t]) /\ Cardinality(Children[t]) < N
         /\ Children[t] # {} => Kind[t] = "completion"
         /\ Kind[t] = "slot_action" => IdSlot[t] >= 0

\* n_cmpl is at most n_parallel, and a child belongs to one request.
ASSUME FamilyAssumption ==
    \A t, u \in Tasks : t # u => Children[t] \cap Children[u] = {}

VARIABLES
    queue_tasks,           \* entries [type, id] for the main thread
    queue_tasks_deferred,  \* tasks waiting for a slot
    popped,                \* the task the main thread is about to process
    mpc,                   \* control point of the main thread
    cur,                   \* next slot of the loop over the slots
    state, task, prompt,   \* of each slot; prompt: what its KV cells hold
    cache,                 \* prompts saved in the prompt cache
    sent,                  \* [Ids -> result sent: "none", "final", "error"]
    posted, stopped        \* requests posted, requests whose reader stopped

queues == <<queue_tasks, queue_tasks_deferred>>
slots  == <<state, task, prompt>>
client == <<posted, stopped>>
vars   == <<queues, popped, mpc, cur, slots, cache, sent, client>>

Request(i) == CHOOSE t \in Tasks : i \in Family(t)
is_child(i) == i \in Subtasks

SlotStates == {"idle", "wait_other", "started", "processing", "done", "generating"}
MainStates == {"pop", "pre", "decode", "post", "abort", "wait"}
is_processing(s) == state[s] # "idle"
Free == {s \in Slots : ~is_processing(s)}

TypeOK ==
    /\ queue_tasks \in Seq([type : {"task", "cancel", "next"}, id : Ids \cup {NoTask}])
    /\ queue_tasks_deferred \in Seq(Tasks)
    /\ popped \in Tasks \cup {NoTask}
    /\ mpc \in MainStates
    /\ cur \in 0..N
    /\ state \in [Slots -> SlotStates]
    /\ task \in [Slots -> Ids \cup {NoTask}]
    /\ prompt \in [Slots -> Prompts \cup {NoPrompt}]
    /\ cache \subseteq Prompts
    /\ sent \in [Ids -> {"none", "final", "error"}]
    /\ posted \subseteq Tasks /\ stopped \subseteq posted

Init ==
    /\ queue_tasks = <<>> /\ queue_tasks_deferred = <<>>
    /\ popped = NoTask
    /\ mpc = "wait" /\ cur = 0
    /\ state = [s \in Slots |-> "idle"]
    /\ task = [s \in Slots |-> NoTask]
    /\ prompt = [s \in Slots |-> NoPrompt]
    /\ cache = {}
    /\ sent = [i \in Ids |-> "none"]
    /\ posted = {} /\ stopped = {}

Entry(type, id) == [type |-> type, id |-> id]
Entries == {queue_tasks[k] : k \in DOMAIN queue_tasks}

-----------------------------------------------------------------------------
(* HTTP threads.                                                           *)

\* server_response_reader::post_tasks.
Post(t) ==
    /\ t \notin posted
    /\ posted' = posted \cup {t}
    /\ queue_tasks' = Append(queue_tasks, Entry("task", t))
    /\ UNCHANGED <<queue_tasks_deferred, popped, mpc, cur, slots, cache, sent, stopped>>

Failed(t)   == \E i \in Family(t) : sent[i] = "error"
Finished(t) == \A i \in Family(t) : sent[i] = "final"

\* server_response_reader::stop, after an error or when the client has left:
\* a task still in one of the queues is removed, and one CANCEL for each id
\* goes to the front.  (A client may leave with its final result unread.)
Stop(t) ==
    /\ t \in posted \ stopped
    /\ Cancels \/ Failed(t)
    /\ stopped' = stopped \cup {t}
    /\ LET cancels == [k \in 1..Cardinality(Family(t)) |->
                         Entry("cancel", SetToSeq(Family(t))[k])]
       IN queue_tasks' = cancels \o Erased(queue_tasks, Entry("task", t))
    /\ queue_tasks_deferred' = Erased(queue_tasks_deferred, t)
    /\ UNCHANGED <<popped, mpc, cur, slots, cache, sent, posted>>

-----------------------------------------------------------------------------
(* Slots.                                                                  *)

\* pop_deferred_task compares the task's own id_slot: a slot action keeps its
\* slot elsewhere, and an id_slot beyond the last slot is not wrapped here.
Prefers(t, s) == Kind[t] = "completion" /\ IdSlot[t] = s

\* The deferred task that slot s lets back in: the first that asked for s,
\* else the first.
NextDeferred(s) ==
    LET asking == {k \in DOMAIN queue_tasks_deferred : Prefers(queue_tasks_deferred[k], s)}
    IN IF asking = {} THEN 1 ELSE CHOOSE k \in asking : \A j \in asking : k <= j

\* Faulty variant: the tasks that asked for another slot are passed over and
\* nothing is taken.
PopDeferred_OwnOnly(s, queue) ==
    LET k == NextDeferred(s) IN
    IF queue_tasks_deferred = <<>> \/ ~Prefers(queue_tasks_deferred[k], s)
    THEN queue_tasks' = queue /\ UNCHANGED queue_tasks_deferred
    ELSE /\ queue_tasks' = <<Entry("task", queue_tasks_deferred[k])>> \o queue
         /\ queue_tasks_deferred' = RemoveAt(queue_tasks_deferred, k)
\* Faulty variant: the task is copied to the queue and stays deferred.
PopDeferred_Copy(s, queue) ==
    /\ queue_tasks' = IF queue_tasks_deferred = <<>> THEN queue
                      ELSE <<Entry("task", queue_tasks_deferred[NextDeferred(s)])>> \o queue
    /\ UNCHANGED queue_tasks_deferred

\* pop_deferred_task(s), with queue_tasks = queue before it.
PopDeferred(s, queue) ==
    LET k == NextDeferred(s) IN
    IF queue_tasks_deferred = <<>>
    THEN queue_tasks' = queue /\ UNCHANGED queue_tasks_deferred
    ELSE /\ queue_tasks' = <<Entry("task", queue_tasks_deferred[k])>> \o queue
         /\ queue_tasks_deferred' = RemoveAt(queue_tasks_deferred, k)

\* slot.release(): a child gives up its copy of the prompt, and the callback
\* lets one deferred task back in.
Release(s, queue) ==
    /\ state' = [state EXCEPT ![s] = "idle"]
    /\ task' = [task EXCEPT ![s] = NoTask]
    /\ prompt' = [prompt EXCEPT ![s] = IF is_child(task[s]) THEN NoPrompt ELSE @]
    /\ PopDeferred(s, queue)

\* get_available_slot for a slot requested by id, for the slot with the most
\* similar prompt, and for the least recently used idle slot.
Wanted(t)  == IdSlot[t] % N
Similar(t) == {s \in Free : Prompt[t] # NoPrompt /\ prompt[s] = Prompt[t]}

Candidates(t) ==
    IF IdSlot[t] # -1 THEN {Wanted(t)}
    ELSE IF Similar(t) # {} THEN Similar(t)
    ELSE Free

\* update_cache: a slot that was not chosen for its prompt saves it to the
\* cache and loads the task's prompt when the cache has it.  This comes before
\* the test that the slot is idle.
UpdatesCache(t, s) ==
    PromptCache /\ s \notin Similar(t) /\ (IdSlot[t] # -1 => prompt[s] # NoPrompt)
Saved(P) == cache \cup (P \ {NoPrompt})

\* The prompts and the cache after get_available_slot(t) has returned s.
PromptsFor(t, s) ==
    IF UpdatesCache(t, s) /\ Prompt[t] \in Saved({prompt[s]})
    THEN [prompt EXCEPT ![s] = Prompt[t]] ELSE prompt
CacheFor(t, s) ==
    IF ~UpdatesCache(t, s) THEN cache
    ELSE IF prompt[s] # Prompt[t] THEN Saved({prompt[s]}) \ {Prompt[t]}
    ELSE Saved({prompt[s]})

-----------------------------------------------------------------------------
(* The main thread: the queue.                                             *)

\* start_loop takes the first entry; the lock is released before it is
\* processed.  NEXT_RESPONSE does nothing.
PopTask ==
    /\ mpc \in {"pop", "wait"} /\ popped = NoTask
    /\ queue_tasks # <<>> /\ Head(queue_tasks).type # "cancel"
    /\ mpc' = "pop"
    /\ queue_tasks' = Tail(queue_tasks)
    /\ popped' = Head(queue_tasks).id
    /\ UNCHANGED <<queue_tasks_deferred, cur, slots, cache, sent, client>>

\* CANCEL: the slot that runs the target is released.
ProcessCancel ==
    /\ mpc \in {"pop", "wait"} /\ popped = NoTask
    /\ queue_tasks # <<>> /\ Head(queue_tasks).type = "cancel"
    /\ mpc' = "pop"
    /\ LET running == {s \in Slots : is_processing(s) /\ task[s] = Head(queue_tasks).id} IN
       IF running = {}
       THEN queue_tasks' = Tail(queue_tasks) /\ UNCHANGED <<queue_tasks_deferred, slots>>
       ELSE \E s \in running : Release(s, Tail(queue_tasks))
    /\ UNCHANGED <<popped, cur, cache, sent, client>>

\* SLOT_SAVE keeps the slot's prompt, SLOT_ERASE clears it and SLOT_RESTORE
\* replaces it.
SlotAction(t) ==
    /\ popped = t /\ Kind[t] = "slot_action" /\ ~is_processing(Wanted(t))
    /\ \E p \in Prompts \cup {NoPrompt} : prompt' = [prompt EXCEPT ![Wanted(t)] = p]
    /\ \E answer \in {"final", "error"} : sent' = [sent EXCEPT ![t] = answer]
    /\ popped' = NoTask
    /\ UNCHANGED <<queues, mpc, cur, state, task, cache, client>>

Defer(t) ==
    /\ queue_tasks_deferred' = Append(queue_tasks_deferred, t)
    /\ popped' = NoTask
    /\ UNCHANGED <<queue_tasks, mpc, cur, state, task, sent, client>>

DeferSlotAction(t) ==
    /\ popped = t /\ Kind[t] = "slot_action" /\ is_processing(Wanted(t))
    /\ Defer(t)
    /\ UNCHANGED <<prompt, cache>>

\* No slot at all, the requested slot is busy, or too few for the children.
DeferCompletion(t) ==
    /\ popped = t /\ Kind[t] = "completion"
    /\ \/ Candidates(t) = {} /\ UNCHANGED <<prompt, cache>>
       \/ \E s \in Candidates(t) :
            /\ \/ is_processing(s)
               \/ Cardinality(Free \ {s}) < Cardinality(Children[t])
            /\ prompt' = PromptsFor(t, s) /\ cache' = CacheFor(t, s)
    /\ Defer(t)

\* launch_slot_with_task fails for the first task of the family: an error is
\* sent, nothing is launched and the task is dropped.
LaunchFails(t) ==
    /\ popped = t /\ Kind[t] = "completion" /\ t \in MayFail
    /\ \E s \in Candidates(t) :
         /\ ~is_processing(s) /\ Cardinality(Free \ {s}) >= Cardinality(Children[t])
         /\ prompt' = PromptsFor(t, s) /\ cache' = CacheFor(t, s)
    /\ \E i \in Family(t) : /\ i = t <=> Children[t] = {}
                            /\ sent' = [sent EXCEPT ![i] = "error"]
    /\ popped' = NoTask
    /\ UNCHANGED <<queues, mpc, cur, state, task, client>>

\* cache_idle_slots: after a launch the slots that are still idle are saved to
\* the prompt cache and, with a unified KV cache, cleared.
CacheIdleSlots(held, saved, idle) ==
    /\ cache' = IF PromptCache THEN saved \cup ({held[x] : x \in idle} \ {NoPrompt}) ELSE saved
    /\ prompt' = [x \in Slots |-> IF PromptCache /\ KvUnified /\ x \in idle
                                  THEN NoPrompt ELSE held[x]]

\* The task and its children are launched; the children wait for the parent.
Launch(t) ==
    /\ popped = t /\ Kind[t] = "completion"
    /\ \E s \in Candidates(t) :
         /\ ~is_processing(s)
         /\ \E kids \in SUBSET (Free \ {s}) :
              /\ Cardinality(kids) = Cardinality(Children[t])
              /\ \E child \in Bijection(kids, Children[t]) :
                   task' = [x \in Slots |-> IF x = s THEN t ELSE
                                            IF x \in kids THEN child[x] ELSE task[x]]
              /\ state' = [x \in Slots |-> IF x = s THEN "started" ELSE
                                           IF x \in kids THEN "wait_other" ELSE state[x]]
              /\ CacheIdleSlots(PromptsFor(t, s), CacheFor(t, s), Free \ (kids \cup {s}))
    /\ popped' = NoTask
    /\ UNCHANGED <<queues, mpc, cur, sent, client>>

-----------------------------------------------------------------------------
(* The main thread: update_slots.                                          *)

\* Faulty variant: NEXT_RESPONSE is not posted.
UpdateSlots_NoNext ==
    /\ mpc = "pop" /\ popped = NoTask /\ queue_tasks = <<>>
    /\ mpc' = (IF Free = Slots THEN "wait" ELSE "pre") /\ cur' = 0
    /\ UNCHANGED <<queues, popped, slots, cache, sent, client>>

\* The queue is empty.  With all slots idle update_slots returns and the loop
\* waits; otherwise NEXT_RESPONSE is posted and pre_decode begins.
UpdateSlots ==
    /\ mpc = "pop" /\ popped = NoTask /\ queue_tasks = <<>>
    /\ IF Free = Slots
       THEN mpc' = "wait" /\ UNCHANGED <<queue_tasks, cur>>
       ELSE mpc' = "pre" /\ cur' = 0 /\ queue_tasks' = <<Entry("next", NoTask)>>
    /\ UNCHANGED <<queue_tasks_deferred, popped, slots, cache, sent, client>>

\* A slot ends with a result and is released.
EndSlot(s, answer) ==
    /\ sent' = [sent EXCEPT ![task[s]] = answer]
    /\ Release(s, queue_tasks)

SlotTo(s, st) ==
    /\ state' = [state EXCEPT ![s] = st]
    /\ prompt' = [prompt EXCEPT ![s] = Prompt[task[s]]]
    /\ UNCHANGED <<queues, task, sent>>

AtSlot(phase) ==
    /\ mpc = phase /\ cur < N
    /\ cur' = cur + 1
    /\ UNCHANGED <<popped, mpc, cache, client>>

\* A slot is left as it is: nothing to do in this phase, the batch is full,
\* or the slot cannot be batched with those already in it.
MaySkip(phase) == IF phase = "abort" THEN {"idle"} ELSE SlotStates \ {"done"}
SkipSlot(phase) ==
    /\ AtSlot(phase) /\ state[cur] \in MaySkip(phase)
    /\ UNCHANGED <<queues, slots, sent>>

\* An empty prompt is answered at once.
PreEmpty ==
    /\ AtSlot("pre") /\ state[cur] = "started" /\ Prompt[task[cur]] = NoPrompt
    /\ EndSlot(cur, "final")

\* The prompt is too long, the context cannot shift, or an exception.
PreError ==
    /\ AtSlot("pre") /\ state[cur] \in {"started", "processing", "generating"}
    /\ EndSlot(cur, "error")

\* Some or all of the prompt goes into the batch; from now on the slot's
\* cells hold this prompt.
PreBatch(st) ==
    /\ AtSlot("pre") /\ state[cur] \in {"started", "processing"}
    /\ Prompt[task[cur]] # NoPrompt
    /\ st \in {"processing", "done"}
    /\ SlotTo(cur, st)

PreDone == mpc = "pre" /\ cur = N /\ mpc' = "decode" /\ cur' = 0
           /\ UNCHANGED <<queues, popped, slots, cache, sent, client>>

\* Faulty variant: the children start without a copy of the parent's prompt.
DecodeOk_NoCopy ==
    /\ mpc = "decode" /\ mpc' = "post"
    /\ state' = [s \in Slots |->
         IF state[s] = "wait_other" /\ \E d \in Slots :
              state[d] = "done" /\ task[d] \in Tasks /\ task[s] \in Children[task[d]]
         THEN "done" ELSE state[s]]
    /\ UNCHANGED <<queues, popped, cur, task, prompt, cache, sent, client>>

\* Faulty variant: the children are looked for once the parent generates.
DecodeOk_LateChildren ==
    /\ mpc = "decode" /\ mpc' = "post"
    /\ LET parent(s) == {d \in Slots : state[d] = "generating" /\ task[d] \in Tasks
                                         /\ task[s] \in Children[task[d]]}
           starts(s) == state[s] = "wait_other" /\ parent(s) # {}
       IN /\ state'  = [s \in Slots |-> IF starts(s) THEN "done" ELSE state[s]]
          /\ prompt' = [s \in Slots |-> IF starts(s)
                                        THEN prompt[CHOOSE d \in parent(s) : TRUE]
                                        ELSE prompt[s]]
    /\ UNCHANGED <<queues, popped, cur, task, cache, sent, client>>

\* llama_decode succeeds, and the children of a finished prompt get its copy.
DecodeOk ==
    /\ mpc = "decode" /\ mpc' = "post"
    /\ LET parent(s) == {d \in Slots : state[d] = "done" /\ task[d] \in Tasks
                                         /\ task[s] \in Children[task[d]]}
           starts(s) == state[s] = "wait_other" /\ parent(s) # {}
       IN /\ state'  = [s \in Slots |-> IF starts(s) THEN "done" ELSE state[s]]
          /\ prompt' = [s \in Slots |-> IF starts(s)
                                        THEN prompt[CHOOSE d \in parent(s) : TRUE]
                                        ELSE prompt[s]]
    /\ UNCHANGED <<queues, popped, cur, task, cache, sent, client>>

\* llama_decode fails for good, or an exception: every busy slot is aborted.
DecodeFails ==
    /\ mpc = "decode" /\ mpc' = "abort"
    /\ \E s \in Slots : state[s] \in {"processing", "done", "generating"}
    /\ UNCHANGED <<queues, popped, cur, slots, cache, sent, client>>

\* A decode error also clears the slot's cells, an exception does not.
Abort ==
    /\ AtSlot("abort") /\ is_processing(cur)
    /\ sent' = [sent EXCEPT ![task[cur]] = "error"]
    /\ state' = [state EXCEPT ![cur] = "idle"]
    /\ task' = [task EXCEPT ![cur] = NoTask]
    /\ \/ prompt' = [prompt EXCEPT ![cur] = NoPrompt]
       \/ ~is_child(task[cur]) /\ UNCHANGED prompt
    /\ PopDeferred(cur, queue_tasks)

\* post_decode: a prompt that is done yields its first token or its
\* embedding; a generating slot goes on or stops.
PostToken ==
    /\ AtSlot("post") /\ state[cur] \in {"done", "generating"}
    /\ state' = [state EXCEPT ![cur] = "generating"]
    /\ UNCHANGED <<queues, task, prompt, sent>>

\* Faulty variant: the slot sends its final result and is not released.
PostEnd_KeepSlot(answer) ==
    /\ AtSlot("post") /\ state[cur] \in {"done", "generating"}
    /\ answer \in {"final", "error"}
    /\ sent' = [sent EXCEPT ![task[cur]] = answer]
    /\ UNCHANGED <<queues, slots>>
PostEnd(answer) ==
    /\ AtSlot("post") /\ state[cur] \in {"done", "generating"}
    /\ answer \in {"final", "error"}
    /\ EndSlot(cur, answer)

\* start_loop looks at the queue again, which holds at least NEXT_RESPONSE.
LoopDone == mpc \in {"post", "abort"} /\ cur = N /\ mpc' = "wait" /\ cur' = 0
            /\ UNCHANGED <<queues, popped, slots, cache, sent, client>>

-----------------------------------------------------------------------------
ProcessTask(t) ==
    \/ SlotAction(t) \/ DeferSlotAction(t)
    \/ DeferCompletion(t) \/ LaunchFails(t) \/ Launch(t)

PreNext   == PreEmpty \/ PreError \/ PreBatch("processing") \/ PreBatch("done")
PostNext  == PostToken \/ PostEnd("final") \/ PostEnd("error")
SlotsNext == \/ UpdateSlots \/ PreNext \/ PreDone \/ DecodeOk \/ DecodeFails
             \/ Abort \/ PostNext \/ LoopDone
             \/ \E phase \in {"pre", "post", "abort"} : SkipSlot(phase)
MainNext  == \/ PopTask \/ ProcessCancel \/ SlotsNext
             \/ \E t \in Tasks : ProcessTask(t)

Next == MainNext \/ \E t \in Tasks : Post(t) \/ Stop(t)

Spec == Init /\ [][Next]_vars

(* Fairness.  The main thread runs; a reader that has received an error    *)
(* stops; a slot that is offered the batch again and again gets its prompt *)
(* into it (the first slot in line always does, and a slot that blocks it  *)
(* ends), and a generation ends (n_predict, the context size, stop token). *)
Fairness ==
    /\ WF_vars(MainNext)
    /\ \A t \in Tasks : WF_vars(Failed(t) /\ Stop(t))
    /\ \A s \in Slots : SF_vars(cur = s /\ (PreBatch("done") \/ PreEmpty))
                       /\ SF_vars(cur = s /\ PostEnd("final"))
FairSpec == Spec /\ Fairness

-----------------------------------------------------------------------------
(* Properties.                                                             *)

\* The places a task of a request can be in between post and its result.
Places(t) ==
    {<<"queue", k>> : k \in {j \in DOMAIN queue_tasks : queue_tasks[j] = Entry("task", t)}}
    \cup {<<"deferred", k>> : k \in {j \in DOMAIN queue_tasks_deferred : queue_tasks_deferred[j] = t}}
    \cup {<<"slot", s>> : s \in {x \in Slots : task[x] = t}}
    \cup (IF popped = t THEN {<<"main", 0>>} ELSE {})

\* Tasks are moved between the queues, the main thread and the slots without
\* being lost or duplicated: a task is in at most one place, in exactly one
\* while its request waits for it, in none once it is answered; a child has
\* at most one slot, and none after its result.  The variables keep their types.
OnePlace ==
    /\ TypeOK
    /\ \A t \in Tasks :
         /\ Cardinality(Places(t)) <= 1
         /\ sent[t] # "none" => Places(t) = {}
         /\ t \in posted \ stopped /\ sent[t] = "none" /\ ~Failed(t) => Places(t) # {}
    /\ \A i \in Ids : LET on == {s \in Slots : task[s] = i} IN
         Cardinality(on) <= 1 /\ (sent[i] # "none" => on = {})

\* No task is answered twice, whatever fails on the way ("duplicate result
\* received").
OneResult == [][\A i \in Ids : sent'[i] # sent[i] => sent[i] = "none"]_vars

\* A slot that is processing a prompt or generating from it holds the prompt
\* of its own task: the prompt cache, slot actions, the clearing of idle slots
\* and other requests do not touch it.
KeepsOwnPrompt ==
    \A s \in Slots : state[s] \in {"processing", "done", "generating"} =>
        prompt[s] = Prompt[Request(task[s])]

\* A child slot waits only for a parent that will still wake it, or for a
\* CANCEL ("wait for the parent to process prompt").
NoOrphan ==
    \A s \in Slots : state[s] = "wait_other" =>
        LET t == Request(task[s]) IN
        \/ \E d \in Slots : task[d] = t /\ state[d] \in {"started", "processing", "done"}
        \/ Failed(t) \/ t \in stopped

\* "defer until one slot is available": a deferred task is not left behind
\* with every slot idle and nothing in the queue that would let it back in.
NoTaskLeftBehind ==
    queue_tasks_deferred # <<>> =>
        \/ \E s \in Slots : is_processing(s)
        \/ \E t \in Tasks : Entry("task", t) \in Entries \/ popped = t

\* Every request is answered or given up.
Answered == \A t \in Tasks : (t \in posted) ~> (Finished(t) \/ t \in stopped)
=============================================================================
