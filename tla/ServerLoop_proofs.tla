-------------------------- MODULE ServerLoop_proofs --------------------------
(***************************************************************************)
(* Theorems about the main loop, for any number of HTTP threads and slots, *)
(* any idle timeout and any signals.  LoopInv is the inductive invariant:  *)
(* what the control point of the main thread says of the sleeping flag,    *)
(* the model, the waiters and the queue, where a request is until it is    *)
(* answered, and what will let a deferred task back in.                    *)
(***************************************************************************)
EXTENDS ServerLoop, TLAPS, FiniteSetTheorems, SequenceTheorems, WellFoundedInduction

-----------------------------------------------------------------------------
(* What a queue holds after each operation on it.                          *)

LEMMA EmptyIs == \A x : ~Contains(<<>>, x)
BY DEF Contains

LEMMA AppendIs ==
  ASSUME NEW S, NEW q \in Seq(S), NEW e \in S
  PROVE  /\ Append(q, e) \in Seq(S) /\ Append(q, e) # <<>>
         /\ \A x : Contains(Append(q, e), x) <=> Contains(q, x) \/ x = e
<1> DEFINE a == Append(q, e)  n == Len(q)
<1>1. /\ n \in Nat /\ DOMAIN q = 1..n /\ DOMAIN a = 1..(n + 1)
      /\ \A k \in 1..n : a[k] = q[k]
      /\ a[n + 1] = e /\ a \in Seq(S) /\ a # <<>>
  BY AppendProperties, LenProperties
<1> HIDE DEF a, n
<1>2. \A k \in DOMAIN a : k \in DOMAIN q \/ k = n + 1
  BY <1>1
<1>3. n + 1 \in DOMAIN a /\ \A k \in DOMAIN q : k \in DOMAIN a
  BY <1>1
<1>4. \A x : Contains(a, x) <=> Contains(q, x) \/ x = e
  BY <1>1, <1>2, <1>3 DEF Contains
<1> QED BY <1>1, <1>4 DEF a

LEMMA PushIs ==
  ASSUME NEW S, NEW q \in Seq(S), NEW e \in S
  PROVE  /\ <<e>> \o q \in Seq(S) /\ <<e>> \o q # <<>>
         /\ \A x : Contains(<<e>> \o q, x) <=> Contains(q, x) \/ x = e
<1> DEFINE a == <<e>> \o q  n == Len(q)
<1>0. <<e>> \in Seq(S) /\ Len(<<e>>) = 1 /\ <<e>>[1] = e
  OBVIOUS
<1>1. /\ n \in Nat /\ DOMAIN q = 1..n /\ a \in Seq(S) /\ Len(a) = 1 + n
      /\ \A k \in 1..(1 + n) : a[k] = IF k <= 1 THEN <<e>>[k] ELSE q[k - 1]
  BY <1>0, ConcatProperties, LenProperties
<1>2. DOMAIN a = 1..(1 + n) /\ a # <<>>
  BY <1>1, LenProperties
<1> HIDE DEF a, n
<1>3. 1 \in DOMAIN a /\ a[1] = e
  BY <1>0, <1>1, <1>2
<1>4. \A k \in DOMAIN a : k = 1 \/ (k - 1 \in DOMAIN q /\ a[k] = q[k - 1])
  BY <1>1, <1>2
<1>5. \A k \in DOMAIN q : k + 1 \in DOMAIN a /\ a[k + 1] = q[k]
  <2> TAKE k \in DOMAIN q
  <2>1. k + 1 \in 1..(1 + n) /\ ~(k + 1 <= 1) /\ (k + 1) - 1 = k
    BY <1>1
  <2> QED BY <1>1, <1>2, <2>1
<1>6. \A x : Contains(a, x) <=> Contains(q, x) \/ x = e
  BY <1>3, <1>4, <1>5 DEF Contains
<1> QED BY <1>1, <1>2, <1>6 DEF a

LEMMA TailIs ==
  ASSUME NEW S, NEW q \in Seq(S), q # <<>>
  PROVE  /\ Tail(q) \in Seq(S) /\ Head(q) \in S
         /\ \A x : Contains(q, x) <=> Contains(Tail(q), x) \/ x = Head(q)
<1> DEFINE t == Tail(q)  n == Len(q)
<1>1. /\ n \in Nat /\ n # 0 /\ DOMAIN q = 1..n /\ DOMAIN t = 1..(n - 1)
      /\ \A k \in 1..(n - 1) : t[k] = q[k + 1]
      /\ q[1] = Head(q) /\ t \in Seq(S) /\ Head(q) \in S
  BY HeadTailProperties, LenProperties, EmptySeq
<1> HIDE DEF t, n
<1>2. \A k \in DOMAIN t : k + 1 \in DOMAIN q /\ t[k] = q[k + 1]
  BY <1>1
<1>3. \A k \in DOMAIN q : k = 1 \/ (k - 1 \in DOMAIN t /\ t[k - 1] = q[k])
  <2> SUFFICES ASSUME NEW k \in DOMAIN q, k # 1
               PROVE  k - 1 \in DOMAIN t /\ t[k - 1] = q[k]
    OBVIOUS
  <2>1. k - 1 \in 1..(n - 1) /\ (k - 1) + 1 = k
    BY <1>1
  <2> QED BY <1>1, <2>1
<1>4. 1 \in DOMAIN q
  BY <1>1
<1>5. ASSUME NEW x PROVE Contains(q, x) <=> Contains(t, x) \/ x = Head(q)
  <2>1. ASSUME Contains(q, x) PROVE Contains(t, x) \/ x = Head(q)
    <3>1. PICK k \in DOMAIN q : q[k] = x
      BY <2>1 DEF Contains
    <3>2. CASE k = 1
      BY <1>1, <3>1, <3>2
    <3>3. CASE k # 1
      <4>1. k - 1 \in DOMAIN t /\ t[k - 1] = x
        BY <1>3, <3>1, <3>3
      <4> QED BY <4>1 DEF Contains
    <3> QED BY <3>2, <3>3
  <2>2. x = Head(q) => Contains(q, x)
    BY <1>1, <1>4 DEF Contains
  <2>3. Contains(t, x) => Contains(q, x)
    BY <1>2 DEF Contains
  <2> QED BY <2>1, <2>2, <2>3
<1> QED BY <1>1, <1>5 DEF t

\* Every position of the result comes from one of the positions kept.
LEMMA KeptRank ==
  ASSUME NEW n \in Nat, NEW keep \in SUBSET (1..n), NEW k \in 1..Cardinality(keep)
  PROVE  \E j \in keep : Cardinality({l \in keep : l <= j}) = k
<1> DEFINE below(j) == {l \in keep : l <= j}
           f == [j \in keep |-> Cardinality(below(j))]
           c == Cardinality(keep)
<1>0. n \in Int /\ 1 \in Int /\ IsFiniteSet(1..n)
  BY FS_Interval
<1>1. IsFiniteSet(keep) /\ c \in Nat
  BY <1>0, FS_Subset, FS_CardinalityType
<1>2. ASSUME NEW j \in keep
      PROVE  f[j] \in 1..c
  <2>1. IsFiniteSet(below(j)) /\ Cardinality(below(j)) <= c
    BY <1>1, FS_Subset
  <2>2. Cardinality(below(j)) \in Nat /\ Cardinality(below(j)) # 0
    BY <2>1, FS_CardinalityType, FS_EmptySet
  <2> QED BY <1>1, <2>1, <2>2
<1>3. ASSUME NEW i \in keep, NEW j \in keep, i < j
      PROVE  f[i] # f[j]
  <2>1. IsFiniteSet(below(j)) /\ below(i) \in SUBSET below(j)
    <3>1. below(j) \in SUBSET keep
      OBVIOUS
    <3>2. \A l \in keep : l <= i => l <= j
      <4>1. keep \in SUBSET Nat
        OBVIOUS
      <4> QED BY <1>3, <4>1
    <3>3. below(i) \in SUBSET below(j)
      BY <3>2
    <3> QED BY <1>1, <3>1, <3>3, FS_Subset
  <2>2. j \in below(j) /\ j \notin below(i)
    BY <1>3
  <2>3. Cardinality(below(i)) # Cardinality(below(j))
    <3> HIDE DEF below
    <3> QED BY <2>1, <2>2, FS_Subset
  <2> QED BY <2>3
<1>4. f \in Injection(keep, 1..c)
  <2>1. f \in [keep -> 1..c]
    BY <1>2
  <2>2. ASSUME NEW i \in keep, NEW j \in keep, f[i] = f[j] PROVE i = j
    <3>1. i \in Nat /\ j \in Nat
      OBVIOUS
    <3>2. ~(i < j) /\ ~(j < i)
      BY <1>3, <2>2
    <3> QED BY <3>1, <3>2
  <2> HIDE DEF f
  <2> QED BY <2>1, <2>2 DEF Injection, IsInjective
<1>5. IsFiniteSet(1..c) /\ Cardinality(1..c) = c
  BY <1>1, FS_Interval
<1>6. f \in Surjection(keep, 1..c)
  <2> HIDE DEF f
  <2> QED BY <1>1, <1>4, <1>5, FS_Injection
<1>7. \E j \in keep : f[j] = k
  <2> HIDE DEF f
  <2> QED BY <1>6 DEF Surjection
<1> QED BY <1>7

\* Kept takes every position to keep, and none twice; the order plays no part
\* in what a queue holds.
LEMMA KeptFrom ==
  ASSUME NEW S, NEW s \in Seq(S), NEW keep \in SUBSET DOMAIN s
  PROVE  /\ Kept(s, keep) \in Seq(S)
         /\ \E f \in Bijection(DOMAIN Kept(s, keep), keep) :
              \A k \in DOMAIN Kept(s, keep) : Kept(s, keep)[k] = s[f[k]]
<1> DEFINE rank(j) == Cardinality({l \in keep : l <= j})
           c == Cardinality(keep)
           f == [k \in 1..c |-> CHOOSE j \in keep : rank(j) = k]
<1>1. Len(s) \in Nat /\ DOMAIN s = 1..Len(s) /\ keep \in SUBSET (1..Len(s))
  OBVIOUS
<1>2. IsFiniteSet(keep) /\ c \in Nat
  <2>1. IsFiniteSet(1..Len(s))
    BY <1>1, FS_Interval
  <2> QED BY <1>1, <2>1, FS_Subset, FS_CardinalityType
<1>3. \A k \in 1..c : f[k] \in keep /\ rank(f[k]) = k
  <2> TAKE k \in 1..c
  <2>1. \E j \in keep : rank(j) = k
    BY <1>1, KeptRank
  <2> HIDE DEF rank
  <2> QED BY <2>1
<1>4. Kept(s, keep) = [k \in 1..c |-> s[f[k]]]
  BY DEF Kept
<1>5. f \in [1..c -> keep]
  BY <1>3
<1>6. \A j, k \in 1..c : f[j] = f[k] => j = k
  <2> HIDE DEF f, rank
  <2> QED BY <1>3
<1> HIDE DEF f, c
<1>7. f \in Bijection(1..c, keep)
  <2>1. f \in Injection(1..c, keep)
    BY <1>5, <1>6 DEF Injection, IsInjective
  <2>2. Cardinality(1..c) = c
    BY <1>2, FS_Interval
  <2>3. f \in Surjection(1..c, keep)
    BY <1>2, <2>1, <2>2, FS_Injection DEF c
  <2> QED BY <2>1, <2>3 DEF Bijection
<1>8. Kept(s, keep) \in Seq(S) /\ DOMAIN Kept(s, keep) = 1..c
  <2>1. \A k \in 1..c : s[f[k]] \in S
    BY <1>1, <1>5
  <2> QED BY <1>2, <1>4, <2>1
<1>9. \A k \in 1..c : Kept(s, keep)[k] = s[f[k]]
  BY <1>4
<1> QED BY <1>7, <1>8, <1>9

\* Erasing e leaves the other entries.
LEMMA ErasedIs ==
  ASSUME NEW S, NEW q \in Seq(S), NEW e
  PROVE  /\ Erased(q, e) \in Seq(S)
         /\ \A x : Contains(Erased(q, e), x) <=> Contains(q, x) /\ x # e
<1> DEFINE keep == {k \in DOMAIN q : q[k] # e}  t == Erased(q, e)
<1>1. t \in Seq(S) /\ \E f \in Bijection(DOMAIN t, keep) : \A k \in DOMAIN t : t[k] = q[f[k]]
  <2>1. keep \in SUBSET DOMAIN q /\ t = Kept(q, keep)
    BY DEF Erased
  <2> HIDE DEF keep, t
  <2> QED BY <2>1, KeptFrom
<1>2. PICK f \in Bijection(DOMAIN t, keep) : \A k \in DOMAIN t : t[k] = q[f[k]]
  BY <1>1
<1> HIDE DEF t
<1>3. /\ \A k \in DOMAIN t : f[k] \in DOMAIN q /\ q[f[k]] # e
      /\ \A j \in DOMAIN q : q[j] # e => \E k \in DOMAIN t : f[k] = j
  BY <1>2 DEF Bijection, Injection, Surjection
<1> HIDE DEF keep
<1>4. \A x : Contains(t, x) <=> Contains(q, x) /\ x # e
  BY <1>2, <1>3 DEF Contains
<1> QED BY <1>1, <1>4 DEF t

\* The entries of queue_tasks.
LEMMA EntriesAre ==
  /\ \A t, u : Entry("task", t) = Entry("task", u) => t = u
  /\ \A t, u : Entry("task", t) # Entry("cancel", u) /\ Entry("task", t) # Entry("next", u)
  /\ \A t \in Http : /\ Entry("task", t) \in QueueEntries
                     /\ Entry("cancel", t) \in QueueEntries
  /\ Entry("next", NoTask) \in QueueEntries
  /\ \A e \in QueueEntries :
       /\ e.type = "task" => e.id \in Http /\ e = Entry("task", e.id)
       /\ e.type = "cancel" => e.id \in Http /\ e = Entry("cancel", e.id)
       /\ e.type = "next" => e = Entry("next", NoTask)
<1>1. \A t, u : /\ Entry("task", t) = Entry("task", u) => t = u
               /\ Entry("task", t) # Entry("cancel", u)
               /\ Entry("task", t) # Entry("next", u)
  <2> TAKE t, u
  <2>1. /\ Entry("task", t).type = "task" /\ Entry("task", t).id = t
        /\ Entry("task", u).id = u
        /\ Entry("cancel", u).type = "cancel" /\ Entry("next", u).type = "next"
    BY DEF Entry
  <2> QED BY <2>1
<1>2. Entry("next", NoTask) \in QueueEntries
  BY DEF QueueEntries
<1>3. \A t \in Http : Entry("task", t) \in QueueEntries /\ Entry("cancel", t) \in QueueEntries
  BY DEF QueueEntries, TaskEntries
<1>4. ASSUME NEW e \in QueueEntries
      PROVE  \/ \E t \in Http : e = Entry("task", t)
             \/ \E t \in Http : e = Entry("cancel", t)
             \/ e = Entry("next", NoTask)
  BY <1>4 DEF QueueEntries, TaskEntries
<1>5. \A e \in QueueEntries :
        /\ e.type = "task" => e.id \in Http /\ e = Entry("task", e.id)
        /\ e.type = "cancel" => e.id \in Http /\ e = Entry("cancel", e.id)
        /\ e.type = "next" => e = Entry("next", NoTask)
  <2> TAKE e \in QueueEntries
  <2>1. CASE \E t \in Http : e = Entry("task", t)
    BY <2>1 DEF Entry
  <2>2. CASE \E t \in Http : e = Entry("cancel", t)
    BY <2>2 DEF Entry
  <2>3. CASE e = Entry("next", NoTask)
    BY <2>3 DEF Entry
  <2> QED BY <1>4, <2>1, <2>2, <2>3
<1> QED BY <1>1, <1>2, <1>3, <1>5

-----------------------------------------------------------------------------
(* The inductive invariant.                                                *)

Asleep == {"entering", "asleep", "loading"}
Awake  == {"start", "update", "decode", "touch", "check", "waiting"}

\* The sleeping flag and the model follow the control point; a drain loop
\* that is still running, or still has a task in hand, is awake.
SleepControl ==
    /\ mpc \in Asleep => sleeping
    /\ mpc \in Awake => ~sleeping
    /\ mpc = "drain" /\ running => ~sleeping
    /\ popped # NoTask => mpc = "drain" /\ ~sleeping
    /\ ~loaded => sleeping
    /\ sleeping => SleepEnabled

\* While a slot generates, NEXT_RESPONSE keeps the queue from running dry
\* between update_slots and the next drain.
WorkIsQueued ==
    mpc \in {"decode", "touch", "check", "waiting"} /\ active # {} => queue_tasks # <<>>

\* A request that waits for its answer is queued, in the hands of the main
\* thread, deferred or in a slot.
AwaitedIsHeld ==
    \A t \in Http : tpc[t] = "await" =>
        \/ t \in active \/ popped = t
        \/ Contains(queue_tasks, Entry("task", t)) \/ Contains(queue_tasks_deferred, t)

\* A deferred task has a busy slot whose release will let it back in, a task
\* before it on its way to a slot, or has been left behind.
DeferredHasHope ==
    queue_tasks_deferred # <<>> =>
        active # {} \/ popped # NoTask \/ HasTask(queue_tasks) \/ stranded

\* Only a thread inside wait_until_no_sleep is blocked beside the main thread.
BlockedWait == \A t \in cv \cap Http : tpc[t] = "sleepwait"

\* Only the task of a client that has left is cancelled.
CancelledIsLeft == \A t \in Http : Contains(queue_tasks, Entry("cancel", t)) => tpc[t] = "left"

LoopInv == /\ TypeOK /\ SleepControl /\ NoForgottenWaiter /\ BlockedWait
           /\ WorkIsQueued /\ AwaitedIsHeld /\ CancelledIsLeft /\ DeferredHasHope

-----------------------------------------------------------------------------
\* The initial state satisfies the invariant.
LEMMA LoopInit == Init => LoopInv
<1> SUFFICES ASSUME Init PROVE LoopInv
  OBVIOUS
<1> USE DEF Init
<1>1. TypeOK
  <2>1. tpc \in [Http -> HttpStates] /\ mpc \in MainStates
    BY DEF HttpStates, MainStates
  <2>2. /\ queue_tasks \in Seq(QueueEntries) /\ queue_tasks_deferred \in Seq(Http)
        /\ elapsed \in Nat
    OBVIOUS
  <2> QED BY <2>1, <2>2 DEF TypeOK
<1>2. SleepControl /\ WorkIsQueued /\ NoForgottenWaiter /\ BlockedWait
  BY DEF SleepControl, Asleep, Awake, WorkIsQueued, NoForgottenWaiter, BlockedWait
<1>3. AwaitedIsHeld /\ CancelledIsLeft /\ DeferredHasHope
  BY EmptyIs DEF AwaitedIsHeld, CancelledIsLeft, DeferredHasHope
<1> QED BY <1>1, <1>2, <1>3 DEF LoopInv

-----------------------------------------------------------------------------
(* Release, as the steps use it: what it does to the two queues.           *)

LEMMA ReleaseIs ==
  ASSUME TypeOK, NEW t, NEW q \in Seq(QueueEntries), Release(t, q)
  PROVE  /\ active' = active \ {t} /\ elapsed' = 0
         /\ cv' \subseteq cv
         /\ queue_tasks' \in Seq(QueueEntries) /\ queue_tasks_deferred' \in Seq(Http)
         /\ q # <<>> => queue_tasks' # <<>>
         /\ \A x : Contains(q, x) => Contains(queue_tasks', x)
         /\ \A u : Contains(queue_tasks', Entry("cancel", u)) => Contains(q, Entry("cancel", u))
         /\ \A u : Contains(queue_tasks_deferred, u) =>
                     Contains(queue_tasks_deferred', u) \/ Contains(queue_tasks', Entry("task", u))
         /\ queue_tasks_deferred' # <<>> => HasTask(queue_tasks')
<1> DEFINE d == queue_tasks_deferred
<1>1. d \in Seq(Http)
  BY DEF TypeOK
<1>2. CASE d = <<>>
  BY <1>1, <1>2 DEF Release, NotifyOne
<1>3. CASE d # <<>>
  <2>1. /\ Tail(d) \in Seq(Http) /\ Head(d) \in Http
        /\ \A x : Contains(d, x) <=> Contains(Tail(d), x) \/ x = Head(d)
    BY <1>1, <1>3, TailIs
  <2> DEFINE e == Entry("task", Head(d))  q2 == <<e>> \o q
  <2>2. e \in QueueEntries
    BY <2>1, EntriesAre
  <2> HIDE DEF e
  <2>3. q2 \in Seq(QueueEntries) /\ q2 # <<>> /\ \A x : Contains(q2, x) <=> Contains(q, x) \/ x = e
    BY <2>2, PushIs
  <2>4. queue_tasks' = q2 /\ queue_tasks_deferred' = Tail(d)
    BY <1>3 DEF Release, e
  <2>5. /\ Contains(q2, Entry("task", Head(d)))
        /\ \A u : Entry("cancel", u) # e
    BY <2>3, EntriesAre DEF e
  <2>6. HasTask(queue_tasks')
    BY <2>1, <2>4, <2>5 DEF HasTask
  <2>7. active' = active \ {t} /\ elapsed' = 0 /\ cv' \subseteq cv
    BY DEF Release, NotifyOne
  <2> HIDE DEF q2
  <2> QED BY <2>1, <2>3, <2>4, <2>5, <2>6, <2>7
<1> QED BY <1>2, <1>3

\* A CANCEL is a release of the slot of its target, or nothing.
LEMMA CancelIs ==
  ASSUME TypeOK, ProcessCancel
  PROVE  /\ active' \subseteq active /\ cv' \subseteq cv /\ elapsed' \in Nat
         /\ elapsed' > 0 => elapsed' = elapsed
         /\ queue_tasks' \in Seq(QueueEntries) /\ queue_tasks_deferred' \in Seq(Http)
         /\ \A u : Contains(queue_tasks, Entry("task", u)) => Contains(queue_tasks', Entry("task", u))
         /\ \A u : Contains(queue_tasks', Entry("cancel", u)) => Contains(queue_tasks, Entry("cancel", u))
         /\ \A u : Contains(queue_tasks_deferred, u) =>
                     Contains(queue_tasks_deferred', u) \/ Contains(queue_tasks', Entry("task", u))
         /\ \/ queue_tasks_deferred' # <<>> => HasTask(queue_tasks')
            \/ active' = active /\ queue_tasks_deferred' = queue_tasks_deferred
         /\ \A u \in active : u \in active' \/ u = Head(queue_tasks).id
         /\ Head(queue_tasks).id \in Http
         /\ Contains(queue_tasks, Entry("cancel", Head(queue_tasks).id))
<1> DEFINE q == queue_tasks  h == Head(queue_tasks)
<1>1. /\ q \in Seq(QueueEntries) /\ q # <<>> /\ h.type = "cancel"
      /\ elapsed \in Nat /\ queue_tasks_deferred \in Seq(Http)
  BY DEF TypeOK, ProcessCancel
<1>2. /\ Tail(q) \in Seq(QueueEntries) /\ h \in QueueEntries
      /\ \A x : Contains(q, x) <=> Contains(Tail(q), x) \/ x = h
  BY <1>1, TailIs
<1>3. h.id \in Http /\ h = Entry("cancel", h.id)
  BY <1>1, <1>2, EntriesAre
<1>4. ASSUME NEW u, Contains(q, Entry("task", u)) PROVE Contains(Tail(q), Entry("task", u))
  <2>1. Entry("task", u) # Entry("cancel", h.id)
    BY EntriesAre
  <2> QED BY <1>2, <1>3, <1>4, <2>1
<1>5. CASE h.id \in active
  <2>1. Release(h.id, Tail(q))
    BY <1>5 DEF ProcessCancel
  <2>2. /\ active' = active \ {h.id} /\ elapsed' = 0 /\ cv' \subseteq cv
        /\ queue_tasks' \in Seq(QueueEntries) /\ queue_tasks_deferred' \in Seq(Http)
        /\ \A x : Contains(Tail(q), x) => Contains(queue_tasks', x)
        /\ \A u : Contains(queue_tasks', Entry("cancel", u)) => Contains(Tail(q), Entry("cancel", u))
        /\ \A u : Contains(queue_tasks_deferred, u) =>
                    Contains(queue_tasks_deferred', u) \/ Contains(queue_tasks', Entry("task", u))
        /\ queue_tasks_deferred' # <<>> => HasTask(queue_tasks')
    BY <1>2, <2>1, ReleaseIs
  <2> QED BY <1>2, <1>3, <1>4, <2>2
<1>6. CASE h.id \notin active
  <2>1. /\ queue_tasks' = Tail(q)
        /\ UNCHANGED <<queue_tasks_deferred, active, elapsed, cv>>
    BY <1>6 DEF ProcessCancel
  <2> QED BY <1>1, <1>2, <1>3, <1>4, <2>1
<1> QED BY <1>5, <1>6

-----------------------------------------------------------------------------
\* Every step keeps the types.
LEMMA TypeStep == TypeOK /\ [Next]_vars => TypeOK'
<1> SUFFICES ASSUME TypeOK, [Next]_vars PROVE TypeOK'
  OBVIOUS
<1> USE DEF TypeOK, flags, tasks
<1>1. CASE Tick
  BY <1>1 DEF Tick
<1>2. ASSUME NEW t \in Http, HttpNext(t) PROVE TypeOK'
  <2>0. Entry("task", t) \in QueueEntries /\ Entry("cancel", t) \in QueueEntries
    BY EntriesAre
  <2>1. CASE Arrive(t)
    <3>1. tpc' \in [Http -> HttpStates] /\ req_stop_sleeping' \in BOOLEAN
      BY <2>1 DEF Arrive, HttpStates
    <3>2. cv' \subseteq Http \cup {Main}
      BY <2>1 DEF Arrive
    <3> QED BY <2>1, <3>1, <3>2 DEF Arrive
  <2>2. CASE Resume(t)
    BY <2>2 DEF Resume, HttpStates
  <2>3. CASE Post(t)
    <3>1. queue_tasks' \in Seq(QueueEntries)
      BY <2>0, <2>3, AppendIs DEF Post
    <3> QED BY <2>3, <3>1 DEF Post, NotifyOne, HttpStates
  <2>4. CASE Reject(t)
    BY <2>4 DEF Reject, HttpStates
  <2>5. CASE Leave(t)
    <3>1. /\ Erased(queue_tasks, Entry("task", t)) \in Seq(QueueEntries)
          /\ Erased(queue_tasks_deferred, t) \in Seq(Http)
      BY ErasedIs
    <3>2. queue_tasks' \in Seq(QueueEntries) /\ queue_tasks_deferred' \in Seq(Http)
      BY <2>0, <2>5, <3>1, PushIs DEF Leave
    <3>3. stranded' \in BOOLEAN
      BY <2>5 DEF Leave, LeftBehind
    <3>4. tpc' \in [Http -> HttpStates] /\ cv' \subseteq Http \cup {Main} /\ elapsed' \in Nat
      BY <2>5 DEF Leave, NotifyOne, HttpStates
    <3> QED BY <2>5, <3>2, <3>3, <3>4 DEF Leave
  <2> QED BY <1>2, <2>1, <2>2, <2>3, <2>4, <2>5 DEF HttpNext
<1>3. CASE Terminate
  BY <1>3 DEF Terminate, NotifyAll
<1>4. CASE SignalSelfLock
  BY <1>4 DEF SignalSelfLock, MainStates
<1>5. CASE StartLoop
  BY <1>5 DEF StartLoop, MainStates
<1>6. CASE Quit \/ Drained \/ UpdateIdle \/ SlotsUpdated
  BY <1>6 DEF Quit, Drained, UpdateIdle, SlotsUpdated, MainStates
<1>7. CASE Touch \/ CheckWork
  BY <1>7 DEF Touch, CheckWork, MainStates
<1>8. CASE PopTask \/ SkipNext
  <2>1. /\ Tail(queue_tasks) \in Seq(QueueEntries)
        /\ Head(queue_tasks).type = "task" => Head(queue_tasks).id \in Http
    BY <1>8, TailIs, EntriesAre DEF PopTask, SkipNext
  <2> QED BY <1>8, <2>1 DEF PopTask, SkipNext
<1>9. CASE ProcessCancel
  <2>1. /\ active' \subseteq active /\ cv' \subseteq cv /\ elapsed' \in Nat
        /\ queue_tasks' \in Seq(QueueEntries) /\ queue_tasks_deferred' \in Seq(Http)
    BY <1>9, CancelIs
  <2> QED BY <1>9, <2>1 DEF ProcessCancel
<1>10. CASE Launch
  BY <1>10 DEF Launch
<1>11. CASE Defer
  BY <1>11, AppendIs DEF Defer, NotifyOne
<1>12. CASE AnswerAtOnce
  <2>1. tpc' \in [Http -> HttpStates]
    BY <1>12 DEF AnswerAtOnce, Answered, HttpStates
  <2>2. stranded' \in BOOLEAN
    BY <1>12 DEF AnswerAtOnce
  <2> QED BY <1>12, <2>1, <2>2 DEF AnswerAtOnce
<1>13. CASE UpdateSlots
  BY <1>13, AppendIs, EntriesAre DEF UpdateSlots, NotifyOne, MainStates
<1>14. CASE \E t \in active : EndSlot(t)
  <2> PICK t \in active : EndSlot(t)
    BY <1>14
  <2>1. /\ active' = active \ {t} /\ elapsed' = 0 /\ cv' \subseteq cv
        /\ queue_tasks' \in Seq(QueueEntries) /\ queue_tasks_deferred' \in Seq(Http)
    BY ReleaseIs DEF EndSlot
  <2>2. tpc' \in [Http -> HttpStates]
    BY DEF EndSlot, Answered, HttpStates
  <2> QED BY <2>1, <2>2 DEF EndSlot
<1>15. CASE EnterSleep
  BY <1>15 DEF EnterSleep, MainStates
<1>16. CASE FallAsleep
  BY <1>16 DEF FallAsleep, MainStates
<1>17. CASE WakeSleeper
  BY <1>17 DEF WakeSleeper, MainStates
<1>18. CASE Reloaded
  BY <1>18 DEF Reloaded, NotifyAll, MainStates
<1>19. CASE BeginWait \/ WaitWoken \/ WaitTimeout
  BY <1>19 DEF BeginWait, WaitWoken, WaitTimeout, MainStates
<1>20. CASE UNCHANGED vars
  BY <1>20 DEF vars
<1> QED BY <1>1, <1>2, <1>3, <1>4, <1>5, <1>6, <1>7, <1>8, <1>9, <1>10, <1>11, <1>12,
           <1>13, <1>14, <1>15, <1>16, <1>17, <1>18, <1>19, <1>20
        DEF Next, MainNext, ProcessTask

\* The steps of the main thread that touch a task or a slot.
TaskStep == \/ PopTask \/ SkipNext \/ ProcessCancel \/ ProcessTask
            \/ UpdateSlots \/ SlotsUpdated \/ \E t \in active : EndSlot(t)

\* What those steps leave alone.
LEMMA TaskSteps ==
  ASSUME TypeOK, TaskStep
  PROVE  /\ UNCHANGED <<running, sleeping, req_stop_sleeping, is_terminating, loaded>>
         /\ cv' \subseteq cv
         /\ elapsed' = elapsed \/ elapsed' = 0
         /\ \A t \in Http : tpc'[t] = tpc[t] \/ (tpc[t] = "await" /\ tpc'[t] = "out")
         /\ \/ mpc = "drain" /\ mpc' = "drain" /\ (popped' # NoTask => running \/ popped # NoTask)
            \/ mpc = "drain" /\ mpc' = "drain" /\ popped' = NoTask
            \/ popped # NoTask /\ popped' = NoTask /\ mpc' = mpc
            \/ mpc \in {"update", "decode"} /\ mpc' \in {"decode", "touch"} /\ popped' = popped
<1> USE DEF TypeOK, flags, tasks
<1>1. CASE PopTask \/ SkipNext
  BY <1>1 DEF PopTask, SkipNext, Draining
<1>2. CASE ProcessCancel
  <2>1. cv' \subseteq cv /\ elapsed' \in Nat /\ (elapsed' > 0 => elapsed' = elapsed)
    BY <1>2, CancelIs
  <2>2. elapsed' = elapsed \/ elapsed' = 0
    BY <2>1
  <2> QED BY <1>2, <2>1, <2>2 DEF ProcessCancel, Draining
<1>3. CASE ProcessTask
  BY <1>3 DEF ProcessTask, Launch, Defer, AnswerAtOnce, Answered, NotifyOne
<1>4. CASE UpdateSlots \/ SlotsUpdated
  BY <1>4 DEF UpdateSlots, SlotsUpdated, NotifyOne
<1>5. CASE \E t \in active : EndSlot(t)
  <2> PICK t \in active : EndSlot(t)
    BY <1>5
  <2>1. elapsed' = 0 /\ cv' \subseteq cv
    BY ReleaseIs DEF EndSlot
  <2> QED BY <2>1 DEF EndSlot, Answered
<1> QED BY <1>1, <1>2, <1>3, <1>4, <1>5 DEF TaskStep

\* The sleeping flag and the model follow the control point, and the waiters
\* are gone whenever the flag is down.
LEMMA SleepStep ==
  LoopInv /\ [Next]_vars => SleepControl' /\ NoForgottenWaiter'
<1> SUFFICES ASSUME LoopInv, [Next]_vars
             PROVE  SleepControl' /\ NoForgottenWaiter'
  OBVIOUS
<1> USE DEF LoopInv, TypeOK, SleepControl, NoForgottenWaiter, Asleep, Awake, flags, tasks
<1>1. CASE Tick \/ UNCHANGED vars
  BY <1>1 DEF Tick, vars
<1>2. CASE \E t \in Http : HttpNext(t)
  BY <1>2 DEF HttpNext, Arrive, Resume, Post, Reject, Leave, NotifyOne, WokenHttp
<1>3. CASE Terminate \/ SignalSelfLock
  BY <1>3 DEF Terminate, SignalSelfLock, NotifyAll
<1>4. CASE StartLoop \/ Quit \/ Drained \/ UpdateIdle \/ Touch \/ CheckWork
  BY <1>4 DEF StartLoop, Quit, Drained, Draining, UpdateIdle, Touch, CheckWork
<1>5. CASE TaskStep
  <2>1. TypeOK
    OBVIOUS
  <2> QED BY <1>5, <2>1, TaskSteps
<1>6. CASE EnterSleep \/ FallAsleep \/ WakeSleeper \/ Reloaded
  BY <1>6, LoopAssumption DEF EnterSleep, FallAsleep, WakeSleeper, Reloaded,
         NotifyAll, LoopAssumption, ShouldSleep, SleepEnabled
<1>7. CASE BeginWait \/ WaitWoken \/ WaitTimeout
  BY <1>7, LoopAssumption
     DEF BeginWait, WaitWoken, WaitTimeout, LoopAssumption
<1> QED BY <1>1, <1>2, <1>3, <1>4, <1>5, <1>6, <1>7 DEF Next, MainNext, TaskStep

\* A thread blocks only inside wait_until_no_sleep and leaves it awake.
LEMMA BlockedStep == LoopInv /\ [Next]_vars => BlockedWait'
<1> SUFFICES ASSUME LoopInv, [Next]_vars PROVE BlockedWait'
  OBVIOUS
<1> USE DEF LoopInv, TypeOK, BlockedWait, flags, tasks
<1>1. CASE Tick \/ Terminate \/ SignalSelfLock \/ UNCHANGED vars
  BY <1>1 DEF Tick, Terminate, SignalSelfLock, NotifyAll, vars
<1>2. CASE \E t \in Http : HttpNext(t)
  BY <1>2 DEF HttpNext, Arrive, Resume, Post, Reject, Leave, NotifyOne, WokenHttp
<1>3. CASE StartLoop \/ Quit \/ Drained \/ UpdateIdle \/ Touch \/ CheckWork
  BY <1>3 DEF StartLoop, Quit, Drained, UpdateIdle, Touch, CheckWork
<1>4. CASE TaskStep
  <2>1. TypeOK
    OBVIOUS
  <2>2. /\ cv' \subseteq cv
        /\ \A t \in Http : tpc'[t] = tpc[t] \/ (tpc[t] = "await" /\ tpc'[t] = "out")
    BY <1>4, <2>1, TaskSteps
  <2> QED BY <2>2
<1>5. CASE EnterSleep \/ FallAsleep \/ WakeSleeper \/ Reloaded
  BY <1>5, LoopAssumption
     DEF EnterSleep, FallAsleep, WakeSleeper, Reloaded, NotifyAll, LoopAssumption
<1>6. CASE BeginWait \/ WaitWoken \/ WaitTimeout
  BY <1>6, LoopAssumption DEF BeginWait, WaitWoken, WaitTimeout, LoopAssumption
<1> QED BY <1>1, <1>2, <1>3, <1>4, <1>5, <1>6 DEF Next, MainNext, TaskStep

\* NEXT_RESPONSE is posted before a slot can be left generating, and a slot
\* that ends takes nothing out of the queue.
LEMMA WorkStep == LoopInv /\ [Next]_vars => WorkIsQueued'
<1> SUFFICES ASSUME LoopInv, [Next]_vars PROVE WorkIsQueued'
  OBVIOUS
<1> USE DEF WorkIsQueued, flags, tasks
<1>0. TypeOK /\ WorkIsQueued /\ (popped # NoTask => mpc = "drain")
  BY DEF LoopInv, SleepControl
<1>1. CASE Tick \/ Terminate \/ SignalSelfLock \/ UNCHANGED vars
  BY <1>0, <1>1 DEF Tick, Terminate, SignalSelfLock, vars
<1>2. CASE \E t \in Http : Arrive(t) \/ Resume(t) \/ Reject(t)
  BY <1>0, <1>2 DEF Arrive, Resume, Reject
<1>3. CASE \E t \in Http : Post(t)
  <2> PICK t \in Http : Post(t)
    BY <1>3
  <2>1. Append(queue_tasks, Entry("task", t)) # <<>>
    BY <1>0, AppendIs, EntriesAre DEF TypeOK
  <2> QED BY <2>1 DEF Post
<1>4. CASE \E t \in Http : Leave(t)
  <2> PICK t \in Http : Leave(t)
    BY <1>4
  <2>1. Erased(queue_tasks, Entry("task", t)) \in Seq(QueueEntries)
    BY <1>0, ErasedIs DEF TypeOK
  <2>2. queue_tasks' # <<>>
    BY <2>1, PushIs, EntriesAre DEF Leave
  <2> QED BY <2>2
<1>5. CASE PopTask \/ SkipNext \/ ProcessCancel \/ ProcessTask
  BY <1>0, <1>5 DEF PopTask, SkipNext, ProcessCancel, ProcessTask, Launch, Defer,
                    AnswerAtOnce, Draining
<1>6. CASE UpdateSlots
  <2>1. Append(queue_tasks, Entry("next", NoTask)) # <<>>
    BY <1>0, AppendIs, EntriesAre DEF TypeOK
  <2> QED BY <1>6, <2>1 DEF UpdateSlots
<1>7. CASE \E t \in active : EndSlot(t)
  <2> PICK t \in active : EndSlot(t)
    BY <1>7
  <2>1. queue_tasks # <<>>
    BY <1>0 DEF EndSlot
  <2>2. queue_tasks' # <<>>
    BY <1>0, <2>1, ReleaseIs DEF EndSlot, TypeOK
  <2> QED BY <2>2
<1>8. CASE StartLoop \/ Quit \/ Drained \/ UpdateIdle \/ SlotsUpdated \/ Touch \/ CheckWork
  BY <1>0, <1>8 DEF StartLoop, Quit, Drained, UpdateIdle, SlotsUpdated, Touch, CheckWork
<1>9. CASE EnterSleep \/ FallAsleep \/ WakeSleeper \/ Reloaded
  BY <1>0, <1>9 DEF EnterSleep, FallAsleep, WakeSleeper, Reloaded
<1>10. CASE BeginWait \/ WaitWoken \/ WaitTimeout
  BY <1>0, <1>10 DEF BeginWait, WaitWoken, WaitTimeout
<1> QED BY <1>1, <1>2, <1>3, <1>4, <1>5, <1>6, <1>7, <1>8, <1>9, <1>10
        DEF Next, MainNext, HttpNext

\* The steps that touch neither a task nor a slot, nor what is posted.
OtherStep ==
    \/ Tick \/ Terminate \/ SignalSelfLock
    \/ \E t \in Http : Arrive(t) \/ Resume(t) \/ Reject(t)
    \/ StartLoop \/ Quit \/ Drained \/ UpdateIdle \/ SlotsUpdated \/ Touch \/ CheckWork
    \/ EnterSleep \/ FallAsleep \/ WakeSleeper \/ Reloaded
    \/ BeginWait \/ WaitWoken \/ WaitTimeout \/ UNCHANGED vars

LEMMA OtherSteps ==
  ASSUME TypeOK, OtherStep
  PROVE  UNCHANGED tasks /\ \A t \in Http : tpc'[t] = "await" => tpc[t] = "await"
<1> USE DEF TypeOK, flags
<1>1. CASE Tick \/ Terminate \/ SignalSelfLock \/ UNCHANGED vars
  BY <1>1 DEF Tick, Terminate, SignalSelfLock, vars
<1>2. CASE \E t \in Http : Arrive(t) \/ Resume(t) \/ Reject(t)
  BY <1>2 DEF Arrive, Resume, Reject
<1>3. CASE StartLoop \/ Quit \/ Drained \/ UpdateIdle \/ SlotsUpdated \/ Touch \/ CheckWork
  BY <1>3 DEF StartLoop, Quit, Drained, UpdateIdle, SlotsUpdated, Touch, CheckWork
<1>4. CASE EnterSleep \/ FallAsleep \/ WakeSleeper \/ Reloaded
  BY <1>4 DEF EnterSleep, FallAsleep, WakeSleeper, Reloaded
<1>5. CASE BeginWait \/ WaitWoken \/ WaitTimeout
  BY <1>5 DEF BeginWait, WaitWoken, WaitTimeout
<1> QED BY <1>1, <1>2, <1>3, <1>4, <1>5 DEF OtherStep

LEMMA StepKinds ==
  ASSUME [Next]_vars
  PROVE  \/ OtherStep \/ \E t \in Http : Post(t) \/ Leave(t)
         \/ PopTask \/ SkipNext \/ ProcessCancel \/ Launch \/ Defer \/ AnswerAtOnce
         \/ UpdateSlots \/ \E t \in active : EndSlot(t)
BY DEF Next, MainNext, HttpNext, ProcessTask, OtherStep

\* A request leaves the queue only into the hands of the main thread, and
\* from there into a slot, into the deferred queue or with its answer.
LEMMA HeldStep == LoopInv /\ [Next]_vars => AwaitedIsHeld'
<1> DEFINE Held(t) == \/ t \in active \/ popped = t
                      \/ Contains(queue_tasks, Entry("task", t)) \/ Contains(queue_tasks_deferred, t)
<1> SUFFICES ASSUME LoopInv, [Next]_vars, NEW t \in Http, tpc'[t] = "await"
             PROVE  Held(t)'
  BY DEF AwaitedIsHeld
<1>0. TypeOK /\ (tpc[t] = "await" => Held(t)) /\ t # NoTask
  BY LoopAssumption DEF LoopInv, AwaitedIsHeld, LoopAssumption
<1> USE DEF flags, tasks
<1>1. CASE OtherStep
  BY <1>0, <1>1, OtherSteps
<1>2. CASE \E u \in Http : Post(u)
  <2> PICK u \in Http : Post(u)
    BY <1>2
  <2>1. /\ \A x : Contains(queue_tasks', x) <=> Contains(queue_tasks, x) \/ x = Entry("task", u)
        /\ UNCHANGED <<queue_tasks_deferred, popped, active>>
    BY <1>0, AppendIs, EntriesAre DEF TypeOK, Post
  <2>2. u = t \/ tpc[t] = "await"
    BY <1>0 DEF TypeOK, Post
  <2> QED BY <1>0, <2>1, <2>2
<1>3. CASE \E u \in Http : Leave(u)
  <2> PICK u \in Http : Leave(u)
    BY <1>3
  <2>1. u # t /\ tpc[t] = "await" /\ UNCHANGED <<popped, active>>
    BY <1>0 DEF TypeOK, Leave
  <2>2. /\ Erased(queue_tasks, Entry("task", u)) \in Seq(QueueEntries)
        /\ \A x : Contains(Erased(queue_tasks, Entry("task", u)), x)
                    <=> Contains(queue_tasks, x) /\ x # Entry("task", u)
        /\ \A x : Contains(Erased(queue_tasks_deferred, u), x)
                    <=> Contains(queue_tasks_deferred, x) /\ x # u
    BY <1>0, ErasedIs DEF TypeOK
  <2>3. \A x : Contains(queue_tasks', x) <=> Contains(Erased(queue_tasks, Entry("task", u)), x)
                                        \/ x = Entry("cancel", u)
    BY <2>2, PushIs, EntriesAre DEF Leave
  <2>4. queue_tasks_deferred' = Erased(queue_tasks_deferred, u)
    BY DEF Leave
  <2>5. Entry("task", t) # Entry("task", u)
    BY <2>1, EntriesAre
  <2> QED BY <1>0, <2>1, <2>2, <2>3, <2>4, <2>5
<1>4. CASE PopTask \/ SkipNext
  <2> DEFINE h == Head(queue_tasks)
  <2>1. /\ h \in QueueEntries /\ queue_tasks' = Tail(queue_tasks)
        /\ \A x : Contains(queue_tasks, x) <=> Contains(Tail(queue_tasks), x) \/ x = h
    BY <1>0, <1>4, TailIs DEF TypeOK, PopTask, SkipNext
  <2>2. tpc[t] = "await" /\ UNCHANGED <<active, queue_tasks_deferred>>
    BY <1>4 DEF PopTask, SkipNext
  <2>3. CASE PopTask
    <3>1. h.type = "task" /\ popped' = h.id /\ popped = NoTask
      BY <2>3 DEF PopTask, Draining
    <3>2. h = Entry("task", h.id)
      BY <2>1, <3>1, EntriesAre
    <3>3. h = Entry("task", t) => popped' = t
      BY <3>1, <3>2, EntriesAre
    <3> QED BY <1>0, <2>1, <2>2, <3>1, <3>3
  <2>4. CASE SkipNext
    <3>1. h.type = "next" /\ popped' = popped
      BY <2>4 DEF SkipNext
    <3>2. h # Entry("task", t)
      BY <2>1, <3>1, EntriesAre
    <3> QED BY <1>0, <2>1, <2>2, <3>1, <3>2
  <2> QED BY <1>4, <2>3, <2>4
<1>5. CASE ProcessCancel
  <2> DEFINE g == Head(queue_tasks).id
  <2>1. tpc[t] = "await" /\ popped' = popped
    BY <1>5 DEF ProcessCancel
  <2>2. /\ \A u : Contains(queue_tasks, Entry("task", u)) => Contains(queue_tasks', Entry("task", u))
        /\ \A u : Contains(queue_tasks_deferred, u) =>
                    Contains(queue_tasks_deferred', u) \/ Contains(queue_tasks', Entry("task", u))
        /\ \A u \in active : u \in active' \/ u = g
        /\ g \in Http /\ Contains(queue_tasks, Entry("cancel", g))
    BY <1>0, <1>5, CancelIs
  <2>3. g # t
    BY <2>1, <2>2 DEF LoopInv, CancelledIsLeft
  <2> HIDE DEF g
  <2> QED BY <1>0, <2>1, <2>2, <2>3
<1>6. CASE Launch
  BY <1>0, <1>6 DEF Launch
<1>7. CASE Defer
  <2>1. \A x : Contains(queue_tasks_deferred', x) <=> Contains(queue_tasks_deferred, x) \/ x = popped
    BY <1>0, <1>7, AppendIs DEF TypeOK, Defer
  <2> QED BY <1>0, <1>7, <2>1 DEF Defer
<1>8. CASE AnswerAtOnce
  <2>1. tpc[t] = "await" /\ popped # t
    BY <1>0, <1>8 DEF TypeOK, AnswerAtOnce, Answered
  <2> QED BY <1>0, <1>8, <2>1 DEF AnswerAtOnce
<1>9. CASE UpdateSlots
  <2>1. \A x : Contains(queue_tasks', x) <=> Contains(queue_tasks, x) \/ x = Entry("next", NoTask)
    BY <1>0, <1>9, AppendIs, EntriesAre DEF TypeOK, UpdateSlots
  <2> QED BY <1>0, <1>9, <2>1 DEF UpdateSlots
<1>10. CASE \E u \in active : EndSlot(u)
  <2> PICK u \in active : EndSlot(u)
    BY <1>10
  <2>1. tpc[t] = "await" /\ u # t /\ popped' = popped
    BY <1>0 DEF TypeOK, EndSlot, Answered
  <2>2. /\ active' = active \ {u}
        /\ \A x : Contains(queue_tasks, x) => Contains(queue_tasks', x)
        /\ \A v : Contains(queue_tasks_deferred, v) =>
                    Contains(queue_tasks_deferred', v) \/ Contains(queue_tasks', Entry("task", v))
    BY <1>0, ReleaseIs DEF EndSlot, TypeOK
  <2> QED BY <1>0, <2>1, <2>2
<1> QED BY <1>1, <1>2, <1>3, <1>4, <1>5, <1>6, <1>7, <1>8, <1>9, <1>10, StepKinds

\* A CANCEL is posted as its client leaves, and no client comes back.
LEMMA CancelStep == LoopInv /\ [Next]_vars => CancelledIsLeft'
<1> SUFFICES ASSUME LoopInv, [Next]_vars, NEW t \in Http,
                    Contains(queue_tasks, Entry("cancel", t))'
             PROVE  tpc'[t] = "left"
  BY DEF CancelledIsLeft
<1>0. TypeOK /\ CancelledIsLeft
  BY DEF LoopInv
<1>1. ASSUME ~\E u \in Http : Leave(u)
      PROVE  Contains(queue_tasks, Entry("cancel", t))
  <2> USE DEF tasks
  <2>1. CASE OtherStep
    BY <1>0, <2>1, OtherSteps
  <2>2. CASE \E u \in Http : Post(u)
    <3> PICK u \in Http : Post(u)
      BY <2>2
    <3>1. \A x : Contains(queue_tasks', x) <=> Contains(queue_tasks, x) \/ x = Entry("task", u)
      BY <1>0, AppendIs, EntriesAre DEF TypeOK, Post
    <3>2. Entry("cancel", t) # Entry("task", u)
      BY EntriesAre
    <3> QED BY <3>1, <3>2
  <2>3. CASE PopTask \/ SkipNext
    BY <1>0, <2>3, TailIs DEF TypeOK, PopTask, SkipNext
  <2>4. CASE ProcessCancel
    BY <1>0, <2>4, CancelIs
  <2>5. CASE Launch \/ Defer \/ AnswerAtOnce
    BY <2>5 DEF Launch, Defer, AnswerAtOnce
  <2>6. CASE UpdateSlots
    <3>1. \A x : Contains(queue_tasks', x) <=> Contains(queue_tasks, x) \/ x = Entry("next", NoTask)
      BY <1>0, <2>6, AppendIs, EntriesAre DEF TypeOK, UpdateSlots
    <3>2. Entry("cancel", t) # Entry("next", NoTask)
      BY DEF Entry
    <3> QED BY <3>1, <3>2
  <2>7. CASE \E u \in active : EndSlot(u)
    BY <1>0, <2>7, ReleaseIs DEF EndSlot, TypeOK
  <2> QED BY <1>1, <2>1, <2>2, <2>3, <2>4, <2>5, <2>6, <2>7, StepKinds
<1>2. CASE \E u \in Http : Leave(u)
  <2> PICK u \in Http : Leave(u)
    BY <1>2
  <2>1. /\ Erased(queue_tasks, Entry("task", u)) \in Seq(QueueEntries)
        /\ \A x : Contains(Erased(queue_tasks, Entry("task", u)), x) => Contains(queue_tasks, x)
    BY <1>0, ErasedIs DEF TypeOK
  <2>2. \A x : Contains(queue_tasks', x) => Contains(queue_tasks, x) \/ x = Entry("cancel", u)
    BY <2>1, PushIs, EntriesAre DEF Leave
  <2>3. Entry("cancel", t) = Entry("cancel", u) => t = u
    BY DEF Entry
  <2>4. tpc' = [tpc EXCEPT ![u] = "left"]
    BY DEF Leave
  <2> QED BY <1>0, <2>2, <2>3, <2>4 DEF CancelledIsLeft, TypeOK
<1>3. ASSUME ~\E u \in Http : Leave(u), tpc[t] = "left"
      PROVE  tpc'[t] = "left"
  <2> USE <1>0, <1>3 DEF TypeOK, flags, tasks
  <2>1. CASE Tick \/ Terminate \/ SignalSelfLock \/ UNCHANGED vars
    BY <2>1 DEF Tick, Terminate, SignalSelfLock, vars
  <2>2. CASE \E u \in Http : HttpNext(u)
    BY <2>2 DEF HttpNext, Arrive, Resume, Post, Reject, WokenHttp
  <2>3. CASE TaskStep
    BY <2>3, TaskSteps
  <2>4. CASE StartLoop \/ Quit \/ Drained \/ UpdateIdle \/ Touch \/ CheckWork
    BY <2>4 DEF StartLoop, Quit, Drained, UpdateIdle, Touch, CheckWork
  <2>5. CASE EnterSleep \/ FallAsleep \/ WakeSleeper \/ Reloaded
    BY <2>5 DEF EnterSleep, FallAsleep, WakeSleeper, Reloaded
  <2>6. CASE BeginWait \/ WaitWoken \/ WaitTimeout
    BY <2>6 DEF BeginWait, WaitWoken, WaitTimeout
  <2> QED BY <2>1, <2>2, <2>3, <2>4, <2>5, <2>6 DEF Next, MainNext, TaskStep
<1> QED BY <1>0, <1>1, <1>2, <1>3 DEF CancelledIsLeft

\* A deferred task keeps its hope: a release lets one back in, and only a task
\* that is answered without a slot or cancelled leaves it behind.
LEMMA HopeStep == LoopInv /\ [Next]_vars => DeferredHasHope'
<1> SUFFICES ASSUME LoopInv, [Next]_vars, queue_tasks_deferred' # <<>>
             PROVE  active' # {} \/ popped' # NoTask \/ HasTask(queue_tasks') \/ stranded'
  BY DEF DeferredHasHope, HasTask
<1>0. TypeOK /\ DeferredHasHope /\ NoTask \notin Http
  BY LoopAssumption DEF LoopInv, LoopAssumption
<1> USE DEF tasks
<1>1. CASE OtherStep
  BY <1>0, <1>1, OtherSteps DEF DeferredHasHope
<1>2. CASE \E t \in Http : Post(t)
  <2> PICK t \in Http : Post(t)
    BY <1>2
  <2>1. Contains(queue_tasks', Entry("task", t))
    BY <1>0, AppendIs, EntriesAre DEF TypeOK, Post
  <2> QED BY <2>1 DEF HasTask
<1>3. CASE \E t \in Http : Leave(t)
  <2> PICK t \in Http : Leave(t)
    BY <1>3
  <2> DEFINE rest == Erased(queue_tasks, Entry("task", t))
  <2>1. rest \in Seq(QueueEntries)
    BY <1>0, ErasedIs DEF TypeOK
  <2>2. HasTask(rest) => HasTask(queue_tasks')
    <3>1. queue_tasks' = <<Entry("cancel", t)>> \o rest
      BY DEF Leave
    <3> HIDE DEF rest
    <3>2. \A x : Contains(rest, x) => Contains(queue_tasks', x)
      BY <2>1, <3>1, PushIs, EntriesAre
    <3> QED BY <3>2 DEF HasTask
  <2>3. stranded' = (stranded \/ LeftBehind(rest, queue_tasks_deferred'))
    BY DEF Leave
  <2>4. active' = active /\ popped' = popped
    BY DEF Leave
  <2> HIDE DEF rest
  <2> QED BY <2>2, <2>3, <2>4 DEF LeftBehind
<1>4. CASE PopTask
  <2>1. popped' \in Http
    BY <1>0, <1>4, TailIs, EntriesAre DEF TypeOK, PopTask
  <2> QED BY <1>0, <2>1
<1>5. CASE SkipNext
  <2>1. /\ Head(queue_tasks) \in QueueEntries /\ Head(queue_tasks).type = "next"
        /\ \A x : Contains(queue_tasks, x) => Contains(queue_tasks', x) \/ x = Head(queue_tasks)
    BY <1>0, <1>5, TailIs DEF TypeOK, SkipNext
  <2>2. \A t : Entry("task", t) # Head(queue_tasks)
    BY <2>1, EntriesAre
  <2>3. HasTask(queue_tasks) => HasTask(queue_tasks')
    BY <2>1, <2>2 DEF HasTask
  <2> QED BY <1>0, <1>5, <2>3 DEF SkipNext, DeferredHasHope
<1>6. CASE ProcessCancel
  <2>1. /\ \A u : Contains(queue_tasks, Entry("task", u)) => Contains(queue_tasks', Entry("task", u))
        /\ \/ HasTask(queue_tasks')
           \/ active' = active /\ queue_tasks_deferred' = queue_tasks_deferred
    BY <1>0, <1>6, CancelIs
  <2>2. HasTask(queue_tasks) => HasTask(queue_tasks')
    BY <2>1 DEF HasTask
  <2>3. UNCHANGED <<popped, stranded>>
    BY <1>6 DEF ProcessCancel
  <2> QED BY <1>0, <2>1, <2>2, <2>3 DEF DeferredHasHope
<1>7. CASE Launch
  BY <1>7 DEF Launch
<1>8. CASE Defer
  BY <1>8 DEF Defer
<1>9. CASE AnswerAtOnce
  BY <1>9 DEF AnswerAtOnce
<1>10. CASE UpdateSlots
  <2>1. \A x : Contains(queue_tasks, x) => Contains(queue_tasks', x)
    BY <1>0, <1>10, AppendIs, EntriesAre DEF TypeOK, UpdateSlots
  <2>2. HasTask(queue_tasks) => HasTask(queue_tasks')
    BY <2>1 DEF HasTask
  <2> QED BY <1>0, <1>10, <2>2 DEF UpdateSlots, DeferredHasHope
<1>11. CASE \E t \in active : EndSlot(t)
  <2> PICK t \in active : EndSlot(t)
    BY <1>11
  <2>1. HasTask(queue_tasks')
    BY <1>0, ReleaseIs DEF EndSlot, TypeOK
  <2> QED BY <2>1
<1> QED BY <1>1, <1>2, <1>3, <1>4, <1>5, <1>6, <1>7, <1>8, <1>9, <1>10, <1>11, StepKinds

\* When a woken thread gets the mutex within a tick, nobody is still inside
\* wait_until_no_sleep once the idle clock has moved, so nobody is when the
\* next sleep begins.
PromptInv ==
    PromptWake =>
      /\ ~sleeping /\ elapsed > 0 => \A t \in Http : tpc[t] # "sleepwait"
      /\ mpc = "entering" => \A t \in Http : tpc[t] # "sleepwait"
      /\ sleeping /\ ~req_stop_sleeping /\ mpc \notin {"loading", "selflocked"}
           => \A t \in Http : tpc[t] # "sleepwait"

LEMMA PromptStep == LoopInv /\ PromptInv /\ [Next]_vars => PromptInv'
<1> SUFFICES ASSUME LoopInv, PromptInv, [Next]_vars, PromptWake PROVE PromptInv'
  BY DEF PromptInv
<1> USE DEF LoopInv, TypeOK, SleepControl, NoForgottenWaiter, PromptInv, Asleep, Awake,
            flags, tasks
<1>1. CASE Tick
  BY <1>1 DEF Tick, WokenHttp
<1>2. CASE \E t \in Http : HttpNext(t)
  BY <1>2 DEF HttpNext, Arrive, Resume, Post, Reject, Leave, WokenHttp, MutexFree
<1>3. CASE Terminate \/ SignalSelfLock \/ UNCHANGED vars
  BY <1>3 DEF Terminate, SignalSelfLock, vars
<1>4. CASE StartLoop \/ Quit \/ Drained \/ UpdateIdle \/ Touch \/ CheckWork
  BY <1>4 DEF StartLoop, Quit, Drained, Draining, UpdateIdle, Touch, CheckWork
<1>5. CASE TaskStep
  <2>1. TypeOK
    OBVIOUS
  <2>2. /\ UNCHANGED <<sleeping, req_stop_sleeping>>
        /\ elapsed' = elapsed \/ elapsed' = 0
        /\ \A t \in Http : tpc'[t] = tpc[t] \/ tpc'[t] = "out"
        /\ mpc' = mpc \/ mpc' \in {"drain", "decode", "touch"}
        /\ mpc' = mpc \/ ~sleeping
    BY <1>5, <2>1, TaskSteps
  <2> QED BY <2>2
<1>6. CASE EnterSleep
  BY <1>6, LoopAssumption DEF EnterSleep, ShouldSleep, SleepEnabled, LoopAssumption
<1>7. CASE FallAsleep \/ WakeSleeper \/ Reloaded
  BY <1>7 DEF FallAsleep, WakeSleeper, Reloaded
<1>8. CASE BeginWait \/ WaitWoken \/ WaitTimeout
  BY <1>8 DEF BeginWait, WaitWoken, WaitTimeout
<1> QED BY <1>1, <1>2, <1>3, <1>4, <1>5, <1>6, <1>7, <1>8 DEF Next, MainNext, TaskStep

\* The steps of the main thread that are not task steps.
OtherMain ==
    \/ StartLoop \/ Quit \/ Drained \/ UpdateIdle \/ Touch \/ CheckWork
    \/ FallAsleep \/ WakeSleeper \/ Reloaded \/ BeginWait \/ WaitWoken \/ WaitTimeout

LEMMA OtherMainSteps ==
  ASSUME OtherMain
  PROVE  UNCHANGED tpc /\ (sleeping' => sleeping)
BY DEF OtherMain, StartLoop, Quit, Drained, UpdateIdle, Touch, CheckWork, FallAsleep,
       WakeSleeper, Reloaded, BeginWait, WaitWoken, WaitTimeout, flags

-----------------------------------------------------------------------------
\* The invariant of the main loop (server_queue::start_loop, the queues of
\* post, defer, pop_deferred_task and cleanup_pending_task, and the HTTP
\* threads around them) holds in every reachable state.
THEOREM LoopInvariant == Spec => []LoopInv
<1>1. LoopInv /\ [Next]_vars => LoopInv'
  BY TypeStep, SleepStep, BlockedStep, WorkStep, HeldStep, CancelStep, HopeStep DEF LoopInv
<1> QED BY LoopInit, <1>1, PTL DEF Spec

\* Type correctness of the main loop's state.
THEOREM LoopTypes == Spec => []TypeOK
<1>1. LoopInv => TypeOK
  BY DEF LoopInv
<1> QED BY LoopInvariant, <1>1, PTL

\* No task is run, and no slot is stepped, without a loaded model
\* (handle_sleeping_state is called only around the sleep).
THEOREM ModelForWork == Spec => []ModelOutlivesWork
<1>1. LoopInv => ModelOutlivesWork
  BY DEF LoopInv, SleepControl, ModelOutlivesWork, Awake
<1> QED BY LoopInvariant, <1>1, PTL

\* The notify_all after a reload leaves no thread in wait_until_no_sleep.
THEOREM NoWaiterForgotten == Spec => []NoForgottenWaiter
<1>1. LoopInv => NoForgottenWaiter
  BY DEF LoopInv
<1> QED BY LoopInvariant, <1>1, PTL

\* The server falls asleep only when every posted request has its answer, but
\* for those left behind in queue_tasks_deferred.
THEOREM SleepOnlyWhenIdle == Spec => SleepsOnlyWhenIdle
<1> DEFINE IdleStep == ~sleeping /\ sleeping' =>
                         /\ queue_tasks = <<>> /\ active = {}
                         /\ \A t \in Http : tpc[t] = "await" => Stranded(t)
<1>1. LoopInv /\ [Next]_vars => [IdleStep]_vars
  <2> SUFFICES ASSUME LoopInv, Next, ~sleeping, sleeping' PROVE IdleStep
    OBVIOUS
  <2>1. EnterSleep
    <3>1. ~TaskStep
      BY TaskSteps DEF LoopInv
    <3>2. ~OtherMain
      BY OtherMainSteps
    <3> QED BY <3>1, <3>2 DEF Next, MainNext, HttpNext, TaskStep, OtherMain, Arrive, Resume,
               Post, Reject, Leave, Terminate, SignalSelfLock, Tick, flags
  <2>2. mpc = "check" /\ queue_tasks = <<>>
    BY <2>1 DEF EnterSleep
  <2>3. active = {} /\ popped = NoTask
    BY <2>2 DEF LoopInv, WorkIsQueued, SleepControl
  <2>4. ASSUME NEW t \in Http, tpc[t] = "await" PROVE Stranded(t)
    <3>1. t # NoTask
      BY LoopAssumption DEF LoopAssumption
    <3>2. Contains(queue_tasks_deferred, t)
      BY <2>2, <2>3, <2>4, <3>1, EmptyIs DEF LoopInv, AwaitedIsHeld
    <3>3. queue_tasks_deferred # <<>> /\ ~HasTask(queue_tasks)
      BY <2>2, <3>2, EmptyIs DEF HasTask
    <3> QED BY <2>3, <3>2, <3>3 DEF LoopInv, DeferredHasHope, Stranded
  <2> QED BY <2>2, <2>3, <2>4
<1> QED BY LoopInvariant, <1>1, PTL DEF Spec, SleepsOnlyWhenIdle

\* wait_until_no_sleep returns only with the model loaded.
THEOREM ReleaseWithModel == Spec => ReleasedWithModel
<1> DEFINE ReleaseStep == \A t \in Http :
             tpc[t] \in {"out", "sleepwait"} /\ tpc'[t] = "ready" => loaded
<1>1. LoopInv /\ [Next]_vars => [ReleaseStep]_vars
  <2> SUFFICES ASSUME LoopInv, Next, NEW t \in Http,
                      tpc[t] \in {"out", "sleepwait"}, tpc'[t] = "ready"
               PROVE  loaded
    OBVIOUS
  <2>1. CASE Arrive(t) \/ Resume(t)
    BY <2>1 DEF Arrive, Resume, SleepEnabled, LoopInv, TypeOK, SleepControl, flags
  <2>2. Arrive(t) \/ Resume(t)
    <3>1. ~TaskStep
      BY TaskSteps DEF LoopInv
    <3>2. ~OtherMain
      BY OtherMainSteps
    <3> QED BY <3>1, <3>2 DEF Next, MainNext, HttpNext, TaskStep, OtherMain, EnterSleep, Arrive,
               Resume, Post, Reject, Leave, Terminate, SignalSelfLock, Tick, flags, LoopInv, TypeOK
  <2> QED BY <2>1, <2>2
<1> QED BY LoopInvariant, <1>1, PTL DEF Spec, ReleasedWithModel

\* "only main thread is waiting on this" is true of a system that schedules a
\* woken thread within a tick: no other waiter can take the notify_one.
THEOREM WakeReachesMain == ASSUME PromptWake PROVE Spec => OnlyMainWaits
<1> DEFINE Wake == \A t \in Http :
             tpc[t] = "out" /\ tpc'[t] = "sleepwait" /\ ~req_stop_sleeping
               => cv \subseteq {Main}
<1>1. Init => PromptInv
  BY DEF Init, PromptInv
<1>2. LoopInv /\ PromptInv /\ [Next]_vars => [Wake]_vars
  <2> SUFFICES ASSUME LoopInv, PromptInv, Next, NEW t \in Http,
                      tpc[t] = "out", tpc'[t] = "sleepwait", ~req_stop_sleeping
               PROVE  cv \subseteq {Main}
    OBVIOUS
  <2>1. Arrive(t)
    <3>1. ~TaskStep
      BY TaskSteps DEF LoopInv
    <3>2. ~OtherMain
      BY OtherMainSteps
    <3> QED BY <3>1, <3>2 DEF Next, MainNext, HttpNext, TaskStep, OtherMain, EnterSleep, Arrive,
               Resume, Post, Reject, Leave, Terminate, SignalSelfLock, Tick, flags, LoopInv, TypeOK
  <2>2. \A u \in Http : tpc[u] # "sleepwait"
    BY <2>1 DEF Arrive, MutexFree, PromptInv, LoopInv, TypeOK
  <2>3. cv \cap Http = {}
    BY <2>2 DEF LoopInv, BlockedWait
  <2> QED BY <2>3 DEF LoopInv, TypeOK
<1> QED BY LoopInvariant, PromptStep, <1>1, <1>2, PTL DEF Spec, OnlyMainWaits
=============================================================================
