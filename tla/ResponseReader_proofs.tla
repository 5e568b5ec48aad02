------------------------ MODULE ResponseReader_proofs ------------------------
(***************************************************************************)
(* Proofs about ResponseReader, for any number of readers, tasks, slots:   *)
(* its types, that no result is lost on its way through the shared vector, *)
(* that a closed reader leaves nothing behind, that the CANCEL of a task   *)
(* which outlives its reader is on its way, and that every step of the     *)
(* reader is a step of RequestLifecycle or a stutter.                      *)
(***************************************************************************)
EXTENDS ResponseReader, TLAPS, FiniteSetTheorems, SequenceTheorems, WellFoundedInduction

-----------------------------------------------------------------------------
(* What Kept and RemoveAt return, for any sequence.                        *)

\* Every position of the result comes from one of the positions kept.
LEMMA KeptRank ==
  ASSUME NEW n \in Nat, NEW keep \in SUBSET (1..n), NEW k \in 1..Cardinality(keep)
  PROVE  \E j \in keep : Cardinality({l \in keep : l <= j}) = k
<1> DEFINE below(j) == {l \in keep : l <= j}
           f == [j \in keep |-> Cardinality(below(j))]
           c == Cardinality(keep)
<1>0. n \in Int /\ 1 \in Int /\ IsFiniteSet(1..n)
  BY FS_Interval
<1>1. IsFiniteSet(keep) /\ c \in Nat
  BY <1>0, FS_Subset, FS_CardinalityType
<1>2. ASSUME NEW j \in keep
      PROVE  f[j] \in 1..c
  <2>1. IsFiniteSet(below(j)) /\ Cardinality(below(j)) <= c
    BY <1>1, FS_Subset
  <2>2. Cardinality(below(j)) \in Nat /\ Cardinality(below(j)) # 0
    BY <2>1, FS_CardinalityType, FS_EmptySet
  <2> QED BY <1>1, <2>1, <2>2
<1>3. ASSUME NEW i \in keep, NEW j \in keep, i < j
      PROVE  f[i] # f[j]
  <2>1. IsFiniteSet(below(j)) /\ below(i) \in SUBSET below(j)
    <3>1. below(j) \in SUBSET keep
      OBVIOUS
    <3>2. \A l \in keep : l <= i => l <= j
      <4>1. keep \in SUBSET Nat
        OBVIOUS
      <4> QED BY <1>3, <4>1
    <3>3. below(i) \in SUBSET below(j)
      BY <3>2
    <3> QED BY <1>1, <3>1, <3>3, FS_Subset
  <2>2. j \in below(j) /\ j \notin below(i)
    BY <1>3
  <2>3. Cardinality(below(i)) # Cardinality(below(j))
    <3> HIDE DEF below
    <3> QED BY <2>1, <2>2, FS_Subset
  <2> QED BY <2>3
<1>4. f \in Injection(keep, 1..c)
  <2>1. f \in [keep -> 1..c]
    BY <1>2
  <2>2. ASSUME NEW i \in keep, NEW j \in keep, f[i] = f[j] PROVE i = j
    <3>1. i \in Nat /\ j \in Nat
      OBVIOUS
    <3>2. ~(i < j) /\ ~(j < i)
      BY <1>3, <2>2
    <3> QED BY <3>1, <3>2
  <2> HIDE DEF f
  <2> QED BY <2>1, <2>2 DEF Injection, IsInjective
<1>5. IsFiniteSet(1..c) /\ Cardinality(1..c) = c
  BY <1>1, FS_Interval
<1>6. f \in Surjection(keep, 1..c)
  <2> HIDE DEF f
  <2> QED BY <1>1, <1>4, <1>5, FS_Injection
<1>7. \E j \in keep : f[j] = k
  <2> HIDE DEF f
  <2> QED BY <1>6 DEF Surjection
<1> QED BY <1>7

\* t is s read through a strictly increasing function onto keep.
Through(t, s, keep) ==
    \E f \in [DOMAIN t -> keep] :
        /\ \A k \in DOMAIN t : t[k] = s[f[k]]
        /\ \A j, k \in DOMAIN t : j < k => f[j] < f[k]
        /\ \A j \in keep : \E k \in DOMAIN t : f[k] = j

LEMMA KeptIs ==
  ASSUME NEW S, NEW s \in Seq(S), NEW keep \in SUBSET DOMAIN s
  PROVE  Kept(s, keep) \in Seq(S) /\ Through(Kept(s, keep), s, keep)
<1> DEFINE rank(j) == Cardinality({l \in keep : l <= j})
           c == Cardinality(keep)
           f == [k \in 1..c |-> CHOOSE j \in keep : rank(j) = k]
<1>1. Len(s) \in Nat /\ DOMAIN s = 1..Len(s) /\ keep \in SUBSET (1..Len(s))
  OBVIOUS
<1>2. IsFiniteSet(keep) /\ c \in Nat
  <2>1. IsFiniteSet(1..Len(s))
    BY <1>1, FS_Interval
  <2> QED BY <1>1, <2>1, FS_Subset, FS_CardinalityType
<1>3. \A k \in 1..c : f[k] \in keep /\ rank(f[k]) = k
  <2> TAKE k \in 1..c
  <2>1. \E j \in keep : rank(j) = k
    BY <1>1, KeptRank
  <2> HIDE DEF rank
  <2> QED BY <2>1
<1>4. Kept(s, keep) = [k \in 1..c |-> s[f[k]]]
  BY DEF Kept
<1>5. f \in [1..c -> keep]
  BY <1>3
<1>6. \A k \in 1..c : s[f[k]] \in S
  <2> HIDE DEF f
  <2> QED BY <1>1, <1>5
<1>7. Kept(s, keep) \in Seq(S)
  <2> HIDE DEF c, f
  <2> QED BY <1>2, <1>4, <1>6
<1>8. DOMAIN Kept(s, keep) = 1..c
  BY <1>4
<1>9. ASSUME NEW j \in 1..c, NEW k \in 1..c, j < k
      PROVE  f[j] < f[k]
  <2>1. f[j] \in keep /\ f[k] \in keep /\ rank(f[j]) = j /\ rank(f[k]) = k
    BY <1>3
  <2>2. CASE f[k] <= f[j]
    <3> DEFINE a == f[j]  b == f[k]
    <3>1. a \in keep /\ b \in keep /\ b <= a
      BY <2>1, <2>2
    <3> HIDE DEF a, b
    <3>2. {l \in keep : l <= b} \in SUBSET {l \in keep : l <= a}
      BY <3>1, <1>1
    <3>3. IsFiniteSet({l \in keep : l <= a})
      BY <1>2, FS_Subset
    <3>4. rank(b) <= rank(a)
      BY <3>2, <3>3, FS_Subset
    <3>5. k <= j
      BY <3>4, <2>1 DEF a, b
    <3> QED BY <3>5, <1>9, <1>2
  <2> QED BY <2>1, <2>2, <1>1
<1>10. ASSUME NEW j \in keep
       PROVE  \E k \in 1..c : f[k] = j
  <2> DEFINE k == rank(j)
  <2>1. IsFiniteSet({l \in keep : l <= j}) /\ k <= c
    BY <1>2, FS_Subset
  <2>2. k \in Nat /\ k # 0
    BY <2>1, FS_CardinalityType, FS_EmptySet
  <2>3. k \in 1..c
    BY <2>1, <2>2, <1>2
  <2>4. f[k] \in keep /\ rank(f[k]) = k
    BY <1>3, <2>3
  <2>5. f[k] = j
    <3> DEFINE i == f[k]
    <3>1. i \in keep /\ rank(i) = rank(j)
      BY <2>4
    <3> HIDE DEF i
    <3>2. {l \in keep : l <= i} = {l \in keep : l <= j}
      <4>1. {l \in keep : l <= i} \in SUBSET {l \in keep : l <= j}
            \/ {l \in keep : l <= j} \in SUBSET {l \in keep : l <= i}
        BY <3>1, <1>1
      <4>2. IsFiniteSet({l \in keep : l <= i})
        BY <1>2, FS_Subset
      <4> QED BY <4>1, <4>2, <2>1, <3>1, FS_Subset
    <3>3. i <= j /\ j <= i
      BY <3>1, <3>2, <1>1
    <3> QED BY <3>1, <3>3, <1>1 DEF i
  <2> QED BY <2>3, <2>5
<1> HIDE DEF f, c
<1>11. /\ \A k \in 1..c : Kept(s, keep)[k] = s[f[k]]
       /\ \A j, k \in 1..c : j < k => f[j] < f[k]
       /\ \A j \in keep : \E k \in 1..c : f[k] = j
  BY <1>4, <1>9, <1>10
<1>12. \E g \in [1..c -> keep] :
         /\ \A k \in 1..c : Kept(s, keep)[k] = s[g[k]]
         /\ \A j, k \in 1..c : j < k => g[j] < g[k]
         /\ \A j \in keep : \E k \in 1..c : g[k] = j
  BY <1>5, <1>11
<1> DEFINE K == Kept(s, keep)  D == DOMAIN K
<1>13. K \in Seq(S) /\ D = 1..c
  BY <1>7, <1>8
<1>14. \E g \in [D -> keep] :
         /\ \A k \in D : K[k] = s[g[k]]
         /\ \A j, k \in D : j < k => g[j] < g[k]
         /\ \A j \in keep : \E k \in D : g[k] = j
  <2> HIDE DEF D
  <2> QED BY <1>12, <1>13
<1>15. Through(K, s, keep)
  BY <1>14 DEF Through
<1> QED BY <1>13, <1>15

\* RemoveAt likewise.
LEMMA RemovedIs ==
  ASSUME NEW S, NEW s \in Seq(S), NEW m \in DOMAIN s
  PROVE  /\ RemoveAt(s, m) \in Seq(S)
         /\ DOMAIN RemoveAt(s, m) = 1..(Len(s) - 1)
         /\ \A k \in 1..(Len(s) - 1) :
              RemoveAt(s, m)[k] = s[IF k < m THEN k ELSE k + 1]
<1>1. Len(s) \in Nat /\ m \in 1..Len(s)
  OBVIOUS
<1>2. /\ SubSeq(s, 1, m - 1) \in Seq(S) /\ Len(SubSeq(s, 1, m - 1)) = m - 1
      /\ \A k \in 1..(m - 1) : SubSeq(s, 1, m - 1)[k] = s[k]
  BY <1>1
<1>3. /\ SubSeq(s, m + 1, Len(s)) \in Seq(S) /\ Len(SubSeq(s, m + 1, Len(s))) = Len(s) - m
      /\ \A k \in 1..(Len(s) - m) : SubSeq(s, m + 1, Len(s))[k] = s[k + m]
  BY <1>1
<1> DEFINE a == SubSeq(s, 1, m - 1)  b == SubSeq(s, m + 1, Len(s))
<1>4. RemoveAt(s, m) = a \o b
  BY DEF RemoveAt
<1>5. /\ a \in Seq(S) /\ Len(a) = m - 1 /\ \A k \in 1..(m - 1) : a[k] = s[k]
      /\ b \in Seq(S) /\ Len(b) = Len(s) - m /\ \A k \in 1..(Len(s) - m) : b[k] = s[k + m]
  BY <1>2, <1>3
<1> HIDE DEF a, b
<1>6. a \o b \in Seq(S) /\ Len(a \o b) = Len(s) - 1 /\ DOMAIN (a \o b) = 1..(Len(s) - 1)
  BY <1>1, <1>5
<1>7. ASSUME NEW k \in 1..(Len(s) - 1)
      PROVE  (a \o b)[k] = s[IF k < m THEN k ELSE k + 1]
  <2>1. CASE k < m
    BY <2>1, <1>1, <1>5
  <2>2. CASE ~(k < m)
    <3>1. (a \o b)[k] = b[k - (m - 1)]
      <4>1. Len(a) = m - 1 /\ k \in 1..(Len(a) + Len(b)) /\ ~(k <= Len(a))
        BY <2>2, <1>1, <1>5
      <4>2. (a \o b)[k] = b[k - Len(a)]
        BY <4>1, <1>5, ConcatProperties
      <4> QED BY <4>1, <4>2
    <3>2. k - (m - 1) \in 1..(Len(s) - m)
      BY <2>2, <1>1
    <3>3. b[k - (m - 1)] = s[(k - (m - 1)) + m]
      BY <3>2, <1>5
    <3>4. (k - (m - 1)) + m = k + 1
      BY <1>1
    <3> QED BY <2>2, <3>1, <3>3, <3>4
  <2> QED BY <2>1, <2>2
<1> QED BY <1>4, <1>6, <1>7

-----------------------------------------------------------------------------
(* What a queue holds after each operation on it.                          *)

\* x stands in s at one position at most.
Once(s, x) == \A j, k \in DOMAIN s : s[j] = x /\ s[k] = x => j = k

LEMMA ConcatIs ==
  ASSUME NEW S, NEW s \in Seq(S), NEW t \in Seq(S)
  PROVE  /\ s \o t \in Seq(S)
         /\ \A x : Contains(s \o t, x) <=> Contains(s, x) \/ Contains(t, x)
         /\ \A x : Once(s, x) /\ Once(t, x) /\ ~(Contains(s, x) /\ Contains(t, x))
                     => Once(s \o t, x)
<1> DEFINE a == s \o t  m == Len(s)  n == Len(t)
<1>1. /\ m \in Nat /\ n \in Nat /\ DOMAIN s = 1..m /\ DOMAIN t = 1..n
      /\ a \in Seq(S) /\ DOMAIN a = 1..(m + n)
      /\ \A k \in 1..(m + n) : a[k] = IF k <= m THEN s[k] ELSE t[k - m]
  BY ConcatProperties, LenProperties
<1> HIDE DEF a, m, n
<1>2. \A k \in DOMAIN a : \/ k \in DOMAIN s /\ a[k] = s[k]
                          \/ k \notin DOMAIN s /\ k - m \in DOMAIN t /\ a[k] = t[k - m]
  BY <1>1
<1>3. \A k \in DOMAIN s : k \in DOMAIN a /\ a[k] = s[k]
  BY <1>1
<1>4. \A k \in DOMAIN t : k + m \in DOMAIN a /\ a[k + m] = t[k]
  <2> TAKE k \in DOMAIN t
  <2>1. k + m \in 1..(m + n) /\ ~(k + m <= m) /\ (k + m) - m = k
    BY <1>1
  <2> QED BY <1>1, <2>1
<1>5. \A x : Contains(a, x) <=> Contains(s, x) \/ Contains(t, x)
  BY <1>2, <1>3, <1>4 DEF Contains
<1>6. ASSUME NEW x, Once(s, x), Once(t, x), ~(Contains(s, x) /\ Contains(t, x)),
             NEW j \in DOMAIN a, NEW k \in DOMAIN a, a[j] = x, a[k] = x
      PROVE  j = k
  <2>1. CASE Contains(s, x)
    <3>1. j \in DOMAIN s /\ k \in DOMAIN s /\ s[j] = x /\ s[k] = x
      BY <1>2, <1>6, <2>1 DEF Contains
    <3> QED BY <1>6, <3>1 DEF Once
  <2>2. CASE ~Contains(s, x)
    <3>1. /\ j - m \in DOMAIN t /\ k - m \in DOMAIN t /\ t[j - m] = x /\ t[k - m] = x
      BY <1>2, <1>6, <2>2 DEF Contains
    <3>2. j - m = k - m
      BY <1>6, <3>1 DEF Once
    <3> QED BY <1>1, <3>2
  <2> QED BY <2>1, <2>2
<1>7. \A x : Once(s, x) /\ Once(t, x) /\ ~(Contains(s, x) /\ Contains(t, x)) => Once(a, x)
  BY <1>6 DEF Once
<1> QED BY <1>1, <1>5, <1>7 DEF a

LEMMA SingleIs ==
  ASSUME NEW S, NEW e \in S
  PROVE  /\ <<e>> \in Seq(S)
         /\ \A x : (Contains(<<e>>, x) <=> x = e) /\ Once(<<e>>, x)
<1>1. <<e>> \in Seq(S) /\ DOMAIN <<e>> = {1} /\ <<e>>[1] = e
  OBVIOUS
<1> QED BY <1>1 DEF Contains, Once

LEMMA TailIs ==
  ASSUME NEW S, NEW q \in Seq(S), q # <<>>
  PROVE  /\ Tail(q) \in Seq(S) /\ Head(q) \in S
         /\ \A x : Contains(q, x) <=> Contains(Tail(q), x) \/ x = Head(q)
         /\ \A x : Once(q, x) => Once(Tail(q), x)
         /\ Once(q, Head(q)) => ~Contains(Tail(q), Head(q))
<1> DEFINE t == Tail(q)  n == Len(q)
<1>1. /\ n \in Nat /\ n # 0 /\ DOMAIN q = 1..n /\ DOMAIN t = 1..(n - 1)
      /\ \A k \in 1..(n - 1) : t[k] = q[k + 1]
      /\ q[1] = Head(q) /\ t \in Seq(S) /\ Head(q) \in S
  BY HeadTailProperties, LenProperties, EmptySeq
<1> HIDE DEF t, n
<1>2. \A k \in DOMAIN t : k + 1 \in DOMAIN q /\ t[k] = q[k + 1] /\ k + 1 # 1
  BY <1>1
<1>3. \A k \in DOMAIN q : k = 1 \/ (k - 1 \in DOMAIN t /\ t[k - 1] = q[k])
  <2> SUFFICES ASSUME NEW k \in DOMAIN q, k # 1
               PROVE  k - 1 \in DOMAIN t /\ t[k - 1] = q[k]
    OBVIOUS
  <2>1. k - 1 \in 1..(n - 1) /\ (k - 1) + 1 = k
    BY <1>1
  <2> QED BY <1>1, <2>1
<1>4. 1 \in DOMAIN q
  BY <1>1
<1>5. ASSUME NEW x PROVE Contains(q, x) <=> Contains(t, x) \/ x = Head(q)
  <2>1. ASSUME Contains(q, x) PROVE Contains(t, x) \/ x = Head(q)
    <3>1. PICK k \in DOMAIN q : q[k] = x
      BY <2>1 DEF Contains
    <3>2. CASE k = 1
      BY <1>1, <3>1, <3>2
    <3>3. CASE k # 1
      <4>1. k - 1 \in DOMAIN t /\ t[k - 1] = x
        BY <1>3, <3>1, <3>3
      <4> QED BY <4>1 DEF Contains
    <3> QED BY <3>2, <3>3
  <2>2. x = Head(q) => Contains(q, x)
    BY <1>1, <1>4 DEF Contains
  <2>3. Contains(t, x) => Contains(q, x)
    BY <1>2 DEF Contains
  <2> QED BY <2>1, <2>2, <2>3
<1>6. ASSUME NEW x, Once(q, x), NEW j \in DOMAIN t, NEW k \in DOMAIN t, t[j] = x, t[k] = x
      PROVE  j = k
  <2>1. j + 1 = k + 1
    BY <1>2, <1>6 DEF Once
  <2> QED BY <1>1, <2>1
<1>7. \A x : Once(q, x) => Once(t, x)
  BY <1>6 DEF Once
<1>8. Once(q, Head(q)) => ~Contains(t, Head(q))
  BY <1>1, <1>2, <1>4 DEF Contains, Once
<1> QED BY <1>1, <1>5, <1>7, <1>8 DEF t

LEMMA KeptHas ==
  ASSUME NEW S, NEW s \in Seq(S), NEW keep \in SUBSET DOMAIN s
  PROVE  /\ Kept(s, keep) \in Seq(S)
         /\ \A x : Contains(Kept(s, keep), x) <=> \E k \in keep : s[k] = x
         /\ \A x : Once(s, x) => Once(Kept(s, keep), x)
<1> DEFINE t == Kept(s, keep)
<1>1. t \in Seq(S) /\ Through(t, s, keep)
  BY KeptIs
<1> HIDE DEF t
<1>2. PICK f \in [DOMAIN t -> keep] :
        /\ \A k \in DOMAIN t : t[k] = s[f[k]]
        /\ \A j, k \in DOMAIN t : j < k => f[j] < f[k]
        /\ \A j \in keep : \E k \in DOMAIN t : f[k] = j
  BY <1>1 DEF Through
<1>3. \A x : Contains(t, x) <=> \E k \in keep : s[k] = x
  BY <1>2 DEF Contains
<1>4. ASSUME NEW x, Once(s, x), NEW j \in DOMAIN t, NEW k \in DOMAIN t, t[j] = x, t[k] = x
      PROVE  j = k
  <2>1. f[j] = f[k] /\ f[j] \in DOMAIN s /\ f[k] \in DOMAIN s
    BY <1>2, <1>4 DEF Once
  <2>2. DOMAIN t \in SUBSET Nat /\ DOMAIN s \in SUBSET Nat
    BY <1>1
  <2>3. j \in Nat /\ k \in Nat /\ f[j] \in Nat
    BY <2>1, <2>2
  <2>4. ~(j < k) /\ ~(k < j)
    BY <1>2, <2>1, <2>3
  <2> QED BY <2>3, <2>4
<1>5. \A x : Once(s, x) => Once(t, x)
  BY <1>4 DEF Once
<1> QED BY <1>1, <1>3, <1>5 DEF t

-----------------------------------------------------------------------------
(* The inductive invariant.                                                *)

Result == [id : Ids, kind : Kinds, n : Nat]
Task   == [type : {"task", "cancel"}, id : Ids]
Histories == emitted \in [Ids -> Seq(Result)] /\ got \in [Ids -> Seq(Result)]

\* An id is waited for from the first half of post_tasks() to stop().
Open == {"post", "next", "recv", "blocked", "should_stop", "stop"}
Waiting == \A i \in Ids : i \in waiting_task_ids <=> pc[Owner[i]] \in Open

\* Before it has a slot a task is in one of three places.
Idle(i)     == emitted[i] = <<>> /\ i \notin generating
Queued(i)   == Contains(queue_tasks, Entry("task", i))
Deferred(i) == Contains(queue_tasks_deferred, i)
Held(i)     == Queued(i) \/ Deferred(i) \/ popped = i

\* It is in none until its reader has posted it, and then once in one of them.
Fresh == \A i \in Ids : pc[Owner[i]] \in {"add", "post"} => Idle(i) /\ ~Held(i)
HeldOnce ==
    \A i \in Ids : Held(i) =>
        /\ Idle(i)
        /\ Once(queue_tasks, Entry("task", i)) /\ Once(queue_tasks_deferred, i)
        /\ ~(Queued(i) /\ Deferred(i))
        /\ popped = i => ~Queued(i) /\ ~Deferred(i)

\* stop() takes a task out of both queues; in a slot or in the hands of the
\* main thread it is ahead of its CANCEL, until it is deferred.
CancelComes ==
    \A i \in Ids : pc[Owner[i]] = "closed" /\ i \notin slipped =>
        /\ ~Queued(i) /\ ~Deferred(i)
        /\ popped = i \/ i \in generating => Contains(queue_tasks, Entry("cancel", i))

\* A result carries its place in what its task has sent, which ends with the
\* first that is not partial; a client has seen a prefix of it.
Stamped ==
    \A i \in Ids : \A k \in DOMAIN emitted[i] :
        /\ emitted[i][k].id = i /\ emitted[i][k].n = k - 1
        /\ emitted[i][k].kind # "partial" => k = Len(emitted[i]) /\ i \notin generating
Prefix ==
    \A i \in Ids : /\ Len(got[i]) <= Len(emitted[i])
                   /\ \A k \in DOMAIN got[i] : got[i][k] = emitted[i][k]

\* Between the two, queue_results holds the rest, in order.
Stored ==
    \A k \in DOMAIN queue_results : LET x == queue_results[k] IN
        /\ pc[Owner[x.id]] \in Open \cup {"cancel"}
        /\ Len(got[x.id]) <= x.n /\ x.n < Len(emitted[x.id])
        /\ x = emitted[x.id][x.n + 1]
Ordered ==
    \A j, k \in DOMAIN queue_results :
        queue_results[j].id = queue_results[k].id /\ j < k
            => queue_results[j].n < queue_results[k].n
Present ==
    \A i \in Ids : pc[Owner[i]] \in Open =>
        \A n \in Len(got[i])..(Len(emitted[i]) - 1) :
            \E k \in DOMAIN queue_results :
                queue_results[k].id = i /\ queue_results[k].n = n

\* The counter counts final results, and a reader leaves the loop of next()
\* for one of three reasons.
Finals(r) == {i \in id_tasks(r) : got[i] # <<>> /\ got[i][Len(got[i])].kind = "final"}
Counted == \A r \in Readers : received_count[r] = Cardinality(Finals(r))
Control ==
    \A r \in Readers :
        /\ pc[r] \in {"recv", "blocked", "should_stop"} => has_next(r)
        /\ pc[r] \in {"add", "post", "next", "recv", "blocked", "should_stop"} => ~Failed(r)
        /\ pc[r] \in {"cancel", "post_cancel"} => cancelled[r]
        /\ cancelled[r] => pc[r] \in {"cancel", "post_cancel", "closed"}
        /\ pc[r] = "stop" => ~has_next(r) \/ Failed(r) \/ r \in gone
        /\ pc[r] = "closed" /\ ~cancelled[r] => received_count[r] = Cardinality(id_tasks(r))

Tasks   == Fresh /\ HeldOnce /\ CancelComes
Results == Stored /\ Ordered /\ Present
IInv ==
    /\ TypeOK /\ Histories /\ Waiting /\ Tasks /\ Stamped /\ Prefix /\ Results
    /\ Counted /\ Control

LEMMA ResultIds ==
  ASSUME TypeOK
  PROVE  /\ queue_results \in Seq(Result)
         /\ \A k \in DOMAIN queue_results :
              /\ queue_results[k] \in Result
              /\ queue_results[k].id \in Ids /\ queue_results[k].n \in Nat
<1>1. queue_results \in Seq(Result)
  BY DEF TypeOK, Result
<1>2. \A k \in DOMAIN queue_results : queue_results[k] \in Result
  BY <1>1
<1> QED BY <1>1, <1>2 DEF Result

\* The entries of queue_tasks tell tasks and kinds apart.
LEMMA EntryIs ==
  /\ \A i, j : Entry("task", i) = Entry("task", j) => i = j
  /\ \A i, j : Entry("cancel", i) = Entry("cancel", j) => i = j
  /\ \A i, j : Entry("task", i) # Entry("cancel", j)
  /\ \A i \in Ids : Entry("task", i) \in Task /\ Entry("cancel", i) \in Task
  /\ \A e \in Task : /\ e.id \in Ids
                     /\ e.type = "task" => e = Entry("task", e.id)
                     /\ e.type = "cancel" => e = Entry("cancel", e.id)
                     /\ e.type = "task" \/ e.type = "cancel"
<1>1. \A i : /\ Entry("task", i).type = "task" /\ Entry("task", i).id = i
             /\ Entry("cancel", i).type = "cancel" /\ Entry("cancel", i).id = i
  BY DEF Entry
<1>2. \A i, j : Entry("task", i) = Entry("task", j) => i = j
  <2> TAKE i, j
  <2> QED BY <1>1
<1>3. \A i, j : Entry("cancel", i) = Entry("cancel", j) => i = j
  <2> TAKE i, j
  <2> QED BY <1>1
<1>4. \A i, j : Entry("task", i) # Entry("cancel", j)
  <2> TAKE i, j
  <2> QED BY <1>1
<1>5. \A i \in Ids : Entry("task", i) \in Task /\ Entry("cancel", i) \in Task
  BY DEF Entry, Task
<1>6. \A e \in Task : /\ e.id \in Ids
                      /\ e.type = "task" => e = Entry("task", e.id)
                      /\ e.type = "cancel" => e = Entry("cancel", e.id)
                      /\ e.type = "task" \/ e.type = "cancel"
  BY DEF Entry, Task
<1> QED BY <1>2, <1>3, <1>4, <1>5, <1>6

LEMMA QueueTypes ==
  ASSUME TypeOK
  PROVE  /\ queue_tasks \in Seq(Task) /\ queue_tasks_deferred \in Seq(Ids)
         /\ popped # NoTask => popped \in Ids
BY DEF TypeOK, Task

LEMMA InitIInv == Init => IInv
<1> SUFFICES ASSUME Init PROVE IInv
  OBVIOUS
<1> USE ReaderAssumption DEF ReaderAssumption, Init
<1>1. IsFiniteSet(Ids) /\ Cardinality(Ids) \in Nat
  BY FS_CardinalityType
<1>2. TypeOK /\ Histories
  <2>1. /\ queue_results \in Seq([id : Ids, kind : Kinds, n : Nat])
        /\ queue_tasks \in Seq([type : {"task", "cancel"}, id : Ids])
        /\ queue_tasks_deferred \in Seq(Ids)
    OBVIOUS
  <2>2. /\ pc \in [Readers -> Steps] /\ cancelled \in [Readers -> BOOLEAN]
        /\ received_count \in [Readers -> 0..Cardinality(Ids)]
    BY <1>1 DEF Steps
  <2>3. TypeOK
    BY <2>1, <2>2 DEF TypeOK
  <2>4. Histories
    BY DEF Histories
  <2> QED BY <2>3, <2>4
<1>3. Waiting /\ Stamped /\ Prefix /\ Results
  BY DEF Waiting, Open, Stamped, Prefix, Results, Stored, Ordered, Present
<1>4. Tasks
  <2>1. \A x : ~Contains(<<>>, x)
    BY DEF Contains
  <2>2. \A i \in Ids : Idle(i) /\ ~Held(i) /\ ~Queued(i) /\ ~Deferred(i)
    BY <2>1 DEF Held, Idle, Queued, Deferred
  <2> QED BY <2>2 DEF Tasks, Fresh, HeldOnce, CancelComes
<1>5. Counted
  <2>1. \A r \in Readers : Finals(r) = {}
    BY DEF Finals, id_tasks
  <2> QED BY <2>1, FS_EmptySet DEF Counted
<1>6. Control
  BY DEF Control, Failed, id_tasks
<1> QED BY <1>2, <1>3, <1>4, <1>5, <1>6 DEF IInv

\* Readers that move disturb no task, if they post none and close over none.
LEMMA TasksKept ==
  ASSUME IInv, UNCHANGED <<main, emitted>>,
         \A i \in Ids : pc'[Owner[i]] \in {"add", "post"} => pc[Owner[i]] \in {"add", "post"},
         \A i \in Ids : pc'[Owner[i]] = "closed" => pc[Owner[i]] = "closed" \/ ~Alive(i)
  PROVE  Tasks'
<1>1. UNCHANGED <<queue_tasks, queue_tasks_deferred, popped, generating, slipped, emitted>>
  BY DEF main
<1>2. \A i : (Held(i)' <=> Held(i)) /\ (Idle(i)' <=> Idle(i))
             /\ (Queued(i)' <=> Queued(i)) /\ (Deferred(i)' <=> Deferred(i))
  BY <1>1 DEF Held, Idle, Queued, Deferred
<1>3. Fresh'
  BY <1>2 DEF IInv, Tasks, Fresh
<1>4. HeldOnce'
  BY <1>1, <1>2 DEF IInv, Tasks, HeldOnce
<1>5. CancelComes'
  BY <1>1, <1>2 DEF IInv, Tasks, CancelComes, Alive, Queued, Deferred
<1> QED BY <1>3, <1>4, <1>5 DEF Tasks

\* Steps that move a reader without touching queues, counters or histories.
LEMMA QuietSteps ==
  ASSUME IInv, NEW r \in Readers,
         NextOrLeave(r) \/ Block(r) \/ Woken(r) \/ Timeout(r) \/ ShouldStop(r) \/ Disconnect(r)
  PROVE  IInv'
<1> USE ReaderAssumption DEF ReaderAssumption
<1>a. /\ UNCHANGED <<waiting_task_ids, queue_results, main, rdv, emitted, got>>
      /\ \/ pc' = pc
         \/ /\ pc[r] \in {"next", "recv", "blocked", "should_stop"}
            /\ \E s \in {"stop", "recv", "blocked", "should_stop"} : pc' = [pc EXCEPT ![r] = s]
  BY DEF NextOrLeave, Block, Woken, Timeout, ShouldStop, Disconnect, Goto, resp, hist
<1>0. /\ UNCHANGED <<waiting_task_ids, queue_results, main, rdv, emitted, got>>
      /\ \A i \in Ids : pc'[Owner[i]] \in Open <=> pc[Owner[i]] \in Open
      /\ \A i \in Ids : pc'[Owner[i]] \in {"add", "post"} => pc[Owner[i]] \in {"add", "post"}
      /\ \A i \in Ids : pc'[Owner[i]] = "cancel" <=> pc[Owner[i]] = "cancel"
      /\ \A i \in Ids : pc'[Owner[i]] = "closed" => pc[Owner[i]] = "closed"
  BY <1>a DEF IInv, TypeOK, Open
<1>1. TypeOK'
  BY DEF IInv, TypeOK, NextOrLeave, Block, Woken, Timeout, ShouldStop, Disconnect, Goto, Steps,
         resp, main, hist, rdv
<1>2. Histories' /\ Stamped' /\ Prefix'
  BY <1>0 DEF IInv, Histories, Stamped, Prefix, main
<1>3. Waiting' /\ Tasks'
  <2>1. Waiting'
    BY <1>0 DEF IInv, Waiting
  <2>2. Tasks'
    BY <1>0, TasksKept
  <2> QED BY <2>1, <2>2
<1>4. Results'
  <2>1. Stored'
    <3>1. \A k \in DOMAIN queue_results : queue_results[k].id \in Ids
      BY ResultIds DEF IInv
    <3> QED BY <1>0, <3>1 DEF IInv, Results, Stored
  <2>2. Ordered' /\ Present'
    BY <1>0 DEF IInv, Results, Ordered, Present
  <2> QED BY <2>1, <2>2 DEF Results
<1>5. Counted'
  BY <1>0 DEF IInv, Counted, Finals, id_tasks, rdv
<1>6. Control'
  <2> USE DEF IInv, Control
  <2>1. \A q \in Readers : (has_next(q)' <=> has_next(q)) /\ (Failed(q)' <=> Failed(q))
    BY <1>0 DEF has_next, Failed, id_tasks, rdv
  <2>2. received_count' = received_count /\ cancelled' = cancelled
    BY <1>0 DEF rdv
  <2>3. \A q \in Readers : q # r => pc'[q] = pc[q]
    BY DEF NextOrLeave, Block, Woken, Timeout, ShouldStop, Disconnect, Goto, TypeOK
  <2>4. gone \subseteq gone'
    BY DEF NextOrLeave, Block, Woken, Timeout, ShouldStop, Disconnect
  <2>5. CASE NextOrLeave(r)
    BY <2>1, <2>2, <2>3, <2>4, <2>5 DEF NextOrLeave, Goto, TypeOK
  <2>6. CASE Block(r)
    BY <2>1, <2>2, <2>3, <2>4, <2>6 DEF Block, Goto, TypeOK
  <2>7. CASE Woken(r)
    BY <2>1, <2>2, <2>3, <2>4, <2>7 DEF Woken, Goto, TypeOK
  <2>8. CASE Timeout(r)
    BY <2>1, <2>2, <2>3, <2>4, <2>8 DEF Timeout, Goto, TypeOK
  <2>9. CASE ShouldStop(r)
    BY <2>1, <2>2, <2>3, <2>4, <2>9 DEF ShouldStop, Goto, TypeOK
  <2>10. CASE Disconnect(r)
    BY <2>1, <2>2, <2>4, <2>10 DEF Disconnect, TypeOK
  <2> QED BY <2>5, <2>6, <2>7, <2>8, <2>9, <2>10
<1> QED BY <1>1, <1>2, <1>3, <1>4, <1>5, <1>6 DEF IInv

LEMMA AddWaitingStep ==
  ASSUME IInv, NEW r \in Readers, AddWaiting(r)
  PROVE  IInv'
<1> USE ReaderAssumption DEF ReaderAssumption
<1>0. /\ pc[r] = "add" /\ pc' = [pc EXCEPT ![r] = "post"]
      /\ waiting_task_ids' = waiting_task_ids \cup id_tasks(r)
      /\ UNCHANGED <<queue_results, cv, main, received_count, cancelled, gone, emitted, got>>
  BY DEF AddWaiting, Goto, rdv, hist
<1>1. TypeOK'
  BY <1>0 DEF IInv, TypeOK, Steps, id_tasks, main
<1>2. Histories' /\ Stamped' /\ Prefix'
  BY <1>0 DEF IInv, Histories, Stamped, Prefix, main
<1>3. Waiting' /\ Tasks'
  <2>1. Waiting'
    BY <1>0 DEF IInv, TypeOK, Waiting, Open, id_tasks
  <2>2. Tasks'
    BY <1>0, TasksKept DEF IInv, TypeOK
  <2> QED BY <2>1, <2>2
<1>4. Stored'
  <2>1. \A k \in DOMAIN queue_results : queue_results[k].id \in Ids
    BY ResultIds DEF IInv
  <2> QED BY <1>0, <2>1 DEF IInv, TypeOK, Results, Stored, Open
<1>5. Ordered'
  BY <1>0 DEF IInv, Results, Ordered
<1>6. Present'
  <2> SUFFICES ASSUME NEW i \in Ids, pc'[Owner[i]] \in Open,
                      NEW n \in Len(got'[i])..(Len(emitted'[i]) - 1)
               PROVE  \E k \in DOMAIN queue_results' :
                         queue_results'[k].id = i /\ queue_results'[k].n = n
    BY DEF Present
  <2>1. CASE Owner[i] = r
    <3>1. emitted[i] = <<>> /\ got[i] \in Seq(Result) /\ Len(got[i]) <= Len(emitted[i])
      BY <1>0, <2>1 DEF IInv, Tasks, Fresh, Idle, Prefix, Histories
    <3>2. Len(emitted[i]) = 0 /\ Len(got[i]) = 0
      BY <3>1
    <3> QED BY <1>0, <3>2
  <2>2. CASE Owner[i] # r
    <3>1. pc'[Owner[i]] = pc[Owner[i]]
      BY <1>0, <2>2 DEF IInv, TypeOK
    <3>2. pc[Owner[i]] \in Open /\ n \in Len(got[i])..(Len(emitted[i]) - 1)
      BY <1>0, <3>1
    <3> QED BY <1>0, <3>2 DEF IInv, Results, Present
  <2> QED BY <2>1, <2>2
<1>7. Counted'
  BY <1>0 DEF IInv, Counted, Finals, id_tasks
<1>8. Control'
  BY <1>0 DEF IInv, TypeOK, Control, has_next, Failed, id_tasks
<1> QED BY <1>1, <1>2, <1>3, <1>4, <1>5, <1>6, <1>7, <1>8 DEF IInv, Results

\* SetToSeq lists every task of a reader once.
LEMMA EntriesAre ==
  ASSUME NEW r \in Readers, NEW type \in {"task", "cancel"}
  PROVE  /\ Entries(type, r) \in Seq(Task)
         /\ \A e : Contains(Entries(type, r), e) <=> \E i \in id_tasks(r) : e = Entry(type, i)
         /\ \A e : Once(Entries(type, r), e)
<1> DEFINE ids == id_tasks(r)  c == Cardinality(ids)  s == SetToSeq(ids)  E == Entries(type, r)
<1>1. IsFiniteSet(ids) /\ ids \subseteq Ids
  BY ReaderAssumption, FS_Subset DEF ReaderAssumption, id_tasks
<1>2. c \in Nat /\ ExistsBijection(1..c, ids)
  BY <1>1, FS_CardinalityType
<1>3. \E f \in [1..c -> ids] : IsInjective(f)
  BY <1>2 DEF ExistsBijection, Bijection, Injection, IsInjective
<1>4. s \in [1..c -> ids] /\ IsInjective(s)
  BY <1>3 DEF SetToSeq
<1>5. \A j, k \in 1..c : s[j] = s[k] => j = k
  BY <1>4 DEF IsInjective
<1>6. s \in Injection(1..c, ids)
  BY <1>4 DEF Injection
<1>7. IsFiniteSet(1..c) /\ Cardinality(1..c) = c
  BY <1>2, FS_Interval
<1> HIDE DEF s
<1>8. \A i \in ids : \E k \in 1..c : s[k] = i
  <2>1. s \in Surjection(1..c, ids)
    BY <1>1, <1>6, <1>7, FS_Injection
  <2> QED BY <2>1 DEF Surjection
<1>9. E = [k \in 1..c |-> Entry(type, s[k])]
  BY DEF Entries, s
<1> HIDE DEF c, E
<1>10. \A k \in 1..c : s[k] \in ids /\ E[k] = Entry(type, s[k]) /\ E[k] \in Task
  BY <1>1, <1>4, <1>9, EntryIs
<1>11. E \in Seq(Task) /\ DOMAIN E = 1..c /\ Len(E) = c
  BY <1>2, <1>9, <1>10
<1>12. \A e : Contains(E, e) <=> \E i \in ids : e = Entry(type, i)
  BY <1>8, <1>10, <1>11 DEF Contains
<1>13. \A j, k \in 1..c : E[j] = E[k] => j = k
  BY <1>5, <1>10, EntryIs
<1>14. \A e : Once(E, e)
  BY <1>11, <1>13 DEF Once
<1> QED BY <1>11, <1>12, <1>14 DEF E

LEMMA PostTasksStep ==
  ASSUME IInv, NEW r \in Readers, PostTasks(r)
  PROVE  IInv'
<1> USE ReaderAssumption DEF ReaderAssumption
<1> DEFINE new == Entries("task", r)
<1>0. /\ pc[r] = "post" /\ pc' = [pc EXCEPT ![r] = "next"]
      /\ queue_tasks' = queue_tasks \o new
      /\ UNCHANGED <<waiting_task_ids, queue_results, cv, queue_tasks_deferred, popped, generating,
                     stranded, slipped, received_count, cancelled, gone, emitted, got>>
  BY DEF PostTasks, Goto, resp, rdv, hist
<1>1. /\ new \in Seq(Task)
      /\ \A e : Contains(new, e) <=> \E i \in id_tasks(r) : e = Entry("task", i)
      /\ \A e : Once(new, e)
  BY EntriesAre
<1>2. queue_tasks \in Seq(Task)
  BY QueueTypes DEF IInv
<1> HIDE DEF new
<1>3. /\ queue_tasks' \in Seq(Task)
      /\ \A e : Contains(queue_tasks', e) <=> Contains(queue_tasks, e) \/ Contains(new, e)
      /\ \A e : Once(queue_tasks, e) /\ ~(Contains(queue_tasks, e) /\ Contains(new, e))
                 => Once(queue_tasks', e)
  BY <1>0, <1>1, <1>2, ConcatIs
<1>4. TypeOK'
  BY <1>0, <1>3 DEF IInv, TypeOK, Steps, Task
<1>5. Histories' /\ Stamped' /\ Prefix'
  BY <1>0 DEF IInv, Histories, Stamped, Prefix
<1>6. Waiting'
  BY <1>0 DEF IInv, TypeOK, Waiting, Open
<1>7. Results'
  <2>1. \A k \in DOMAIN queue_results : queue_results[k].id \in Ids
    BY ResultIds DEF IInv
  <2>2. Stored' /\ Ordered'
    BY <1>0, <2>1 DEF IInv, TypeOK, Results, Stored, Ordered, Open
  <2>3. Present'
    BY <1>0 DEF IInv, TypeOK, Results, Present, Open
  <2> QED BY <2>2, <2>3 DEF Results
<1>8. Counted'
  BY <1>0 DEF IInv, Counted, Finals, id_tasks
<1>9. Control'
  BY <1>0 DEF IInv, TypeOK, Control, has_next, Failed, id_tasks
<1>10. \A i \in Ids : /\ Queued(i)' <=> Queued(i) \/ i \in id_tasks(r)
                      /\ Deferred(i)' <=> Deferred(i)
                      /\ Held(i)' <=> Held(i) \/ i \in id_tasks(r)
                      /\ Idle(i)' <=> Idle(i)
                      /\ Contains(queue_tasks, Entry("cancel", i))
                           => Contains(queue_tasks', Entry("cancel", i))
  BY <1>0, <1>1, <1>3, EntryIs DEF Queued, Deferred, Held, Idle
<1>11. \A i \in id_tasks(r) : i \in Ids /\ Owner[i] = r /\ Idle(i) /\ ~Held(i)
  BY <1>0 DEF IInv, Tasks, Fresh, id_tasks
<1>12. Fresh'
  <2> SUFFICES ASSUME NEW i \in Ids, pc'[Owner[i]] \in {"add", "post"}
               PROVE  Idle(i)' /\ ~Held(i)'
    BY DEF Fresh
  <2>1. pc[Owner[i]] \in {"add", "post"} /\ i \notin id_tasks(r)
    BY <1>0 DEF IInv, TypeOK, id_tasks
  <2> QED BY <1>10, <2>1 DEF IInv, Tasks, Fresh
<1>13. HeldOnce'
  <2> SUFFICES ASSUME NEW i \in Ids, Held(i)'
               PROVE  /\ Idle(i)'
                      /\ Once(queue_tasks', Entry("task", i))
                      /\ Once(queue_tasks_deferred', i)
                      /\ ~(Queued(i)' /\ Deferred(i)')
                      /\ popped' = i => ~Queued(i)' /\ ~Deferred(i)'
    BY DEF HeldOnce
  <2>1. CASE i \in id_tasks(r)
    <3>1. ~Queued(i) /\ ~Deferred(i) /\ popped # i /\ Idle(i)
      BY <1>11, <2>1 DEF Held
    <3>2. Once(queue_tasks, Entry("task", i)) /\ Once(queue_tasks_deferred, i)
      <4>1. queue_tasks_deferred \in Seq(Ids)
        BY QueueTypes DEF IInv
      <4> QED BY <1>2, <3>1, <4>1 DEF Queued, Deferred, Contains, Once
    <3> QED BY <1>0, <1>3, <1>10, <3>1, <3>2 DEF Queued
  <2>2. CASE i \notin id_tasks(r)
    <3>1. ~Contains(new, Entry("task", i)) /\ Held(i)
      BY <1>1, <1>10, <2>2, EntryIs
    <3> QED BY <1>0, <1>3, <1>10, <2>2, <3>1 DEF IInv, Tasks, HeldOnce
  <2> QED BY <2>1, <2>2
<1>14. CancelComes'
  <2> SUFFICES ASSUME NEW i \in Ids, pc'[Owner[i]] = "closed", i \notin slipped'
               PROVE  /\ ~Queued(i)' /\ ~Deferred(i)'
                      /\ popped' = i \/ i \in generating'
                           => Contains(queue_tasks', Entry("cancel", i))
    BY DEF CancelComes
  <2>1. pc[Owner[i]] = "closed" /\ i \notin id_tasks(r)
    BY <1>0 DEF IInv, TypeOK, id_tasks
  <2> QED BY <1>0, <1>10, <2>1 DEF IInv, Tasks, CancelComes
<1> QED BY <1>4, <1>5, <1>6, <1>7, <1>8, <1>9, <1>12, <1>13, <1>14 DEF IInv, Tasks

\* A set of positions has a least one.
LEMMA LeastPosition ==
  ASSUME NEW A \in SUBSET Nat, A # {}
  PROVE  \E k \in A : \A j \in A : k <= j
<1> DEFINE R == {p \in Nat \X Nat : p[1] < p[2]}
<1>1. IsWellFoundedOn(R, Nat)
  BY NatLessThanWellFounded DEF OpToRel
<1>2. PICK k \in A : \A j \in A : <<j, k>> \notin R
  <2> HIDE DEF R
  <2> QED BY <1>1, WFMin
<1>3. ASSUME NEW j \in A PROVE k <= j
  <2>1. j \in Nat /\ k \in Nat /\ ~(j < k)
    BY <1>2
  <2> QED BY <2>1
<1> QED BY <1>3

\* What Receive does: it takes the oldest result stored for the reader, which
\* is the next one of its task.
LEMMA ReceiveTakes ==
  ASSUME IInv, NEW r \in Readers, Receive(r)
  PROVE  \E k \in DOMAIN queue_results : LET x == queue_results[k] IN
           /\ pc[r] = "recv" /\ x \in Result /\ x.id \in Ids /\ Owner[x.id] = r
           /\ \A j \in DOMAIN queue_results : queue_results[j].id \in id_tasks(r) => k <= j
           /\ x.n = Len(got[x.id]) /\ x.n < Len(emitted[x.id]) /\ x = emitted[x.id][x.n + 1]
           /\ queue_results' = RemoveAt(queue_results, k)
           /\ got' = [got EXCEPT ![x.id] = Append(@, x)]
           /\ received_count' = [received_count EXCEPT
                                   ![r] = IF x.kind = "final" THEN @ + 1 ELSE @]
           /\ pc' = [pc EXCEPT ![r] = IF x.kind = "error" THEN "stop" ELSE "next"]
           /\ UNCHANGED <<waiting_task_ids, cv, main, cancelled, gone, emitted>>
<1> DEFINE q == queue_results
           k == CHOOSE k \in Mine(r) : \A j \in Mine(r) : k <= j
<1>1. Mine(r) # {} /\ Mine(r) \in SUBSET Nat
  <2>1. DOMAIN queue_results \in SUBSET Nat
    <3>1. queue_results \in Seq(Result)
      BY ResultIds DEF IInv
    <3> QED BY <3>1
  <2>2. Mine(r) # {}
    BY DEF Receive
  <2>3. Mine(r) \in SUBSET DOMAIN queue_results
    BY DEF Mine
  <2> QED BY <2>1, <2>2, <2>3
<1>2. k \in Mine(r) /\ \A j \in Mine(r) : k <= j
  BY <1>1, LeastPosition
<1> HIDE DEF k
<1>3. k \in DOMAIN q /\ q[k].id \in id_tasks(r)
      /\ \A j \in DOMAIN q : q[j].id \in id_tasks(r) => k <= j
  BY <1>2 DEF Mine
<1> DEFINE i == q[k].id
<1>4. q[k] \in Result /\ i \in Ids /\ q[k].n \in Nat /\ Owner[i] = r
  BY <1>3, ResultIds DEF IInv, id_tasks
<1>5. pc[r] = "recv"
  BY DEF Receive
<1>6. /\ Len(got[i]) \in Nat /\ Len(emitted[i]) \in Nat
      /\ Len(got[i]) <= q[k].n /\ q[k].n < Len(emitted[i]) /\ q[k] = emitted[i][q[k].n + 1]
  BY <1>3, <1>4 DEF IInv, Results, Stored, Histories
<1>7. q[k].n = Len(got[i])
  <2>1. Len(got[i]) \in Len(got[i])..(Len(emitted[i]) - 1)
    BY <1>4, <1>6
  <2>2. PICK j \in DOMAIN q : q[j].id = i /\ q[j].n = Len(got[i])
    BY <1>4, <1>5, <2>1 DEF IInv, Results, Present, Open
  <2>3. k <= j
    BY <1>3, <1>4, <2>2 DEF id_tasks
  <2>4. CASE k = j
    BY <2>2, <2>4
  <2>5. CASE k # j
    <3>1. k \in Nat /\ j \in Nat /\ k < j
      BY <1>1, <1>2, <2>3, <2>5, ResultIds DEF IInv
    <3>2. q[k].n < q[j].n
      BY <1>3, <2>2, <3>1 DEF IInv, Results, Ordered
    <3> QED BY <1>4, <1>6, <2>2, <3>2
  <2> QED BY <2>4, <2>5
<1>8. /\ queue_results' = RemoveAt(q, k)
      /\ got' = [got EXCEPT ![i] = Append(@, q[k])]
      /\ received_count' = [received_count EXCEPT ![r] = IF q[k].kind = "final" THEN @ + 1 ELSE @]
      /\ pc' = [pc EXCEPT ![r] = IF q[k].kind = "error" THEN "stop" ELSE "next"]
      /\ UNCHANGED <<waiting_task_ids, cv, main, cancelled, gone, emitted>>
  BY DEF Receive, Goto, k
<1> QED BY <1>3, <1>4, <1>5, <1>6, <1>7, <1>8

LEMMA ReceiveStep ==
  ASSUME IInv, NEW r \in Readers, Receive(r)
  PROVE  IInv'
<1> USE ReaderAssumption DEF ReaderAssumption
<1> DEFINE q == queue_results
<1>1. PICK k \in DOMAIN q :
        /\ pc[r] = "recv" /\ q[k] \in Result /\ q[k].id \in Ids /\ Owner[q[k].id] = r
        /\ \A j \in DOMAIN q : q[j].id \in id_tasks(r) => k <= j
        /\ q[k].n = Len(got[q[k].id]) /\ q[k].n < Len(emitted[q[k].id])
        /\ q[k] = emitted[q[k].id][q[k].n + 1]
        /\ queue_results' = RemoveAt(q, k)
        /\ got' = [got EXCEPT ![q[k].id] = Append(@, q[k])]
        /\ received_count' = [received_count EXCEPT
                                ![r] = IF q[k].kind = "final" THEN @ + 1 ELSE @]
        /\ pc' = [pc EXCEPT ![r] = IF q[k].kind = "error" THEN "stop" ELSE "next"]
        /\ UNCHANGED <<waiting_task_ids, cv, main, cancelled, gone, emitted>>
  BY ReceiveTakes
<1> DEFINE x == q[k]  i == x.id
<1>2. /\ q \in Seq(Result) /\ Len(q) \in Nat /\ DOMAIN q = 1..Len(q)
      /\ \A j \in DOMAIN q : q[j] \in Result /\ q[j].id \in Ids /\ q[j].n \in Nat
  BY ResultIds DEF IInv
<1>3. /\ queue_results' \in Seq(Result) /\ DOMAIN queue_results' = 1..(Len(q) - 1)
      /\ \A m \in 1..(Len(q) - 1) : queue_results'[m] = q[IF m < k THEN m ELSE m + 1]
  <2>1. q \in Seq(Result) /\ k \in 1..Len(q)
    BY <1>1, <1>2
  <2>2. queue_results' = RemoveAt(q, k)
    BY <1>1
  <2> HIDE DEF q
  <2> QED BY <2>1, <2>2, RemovedIs, Zenon
<1>4. /\ got \in [Ids -> Seq(Result)] /\ got[i] \in Seq(Result) /\ Len(got[i]) \in Nat
      /\ got'[i] = Append(got[i], x) /\ Len(got'[i]) = Len(got[i]) + 1
      /\ got'[i][Len(got[i]) + 1] = x /\ \A j \in 1..Len(got[i]) : got'[i][j] = got[i][j]
      /\ \A j \in Ids : j # i => got'[j] = got[j]
      /\ got' \in [Ids -> Seq(Result)] /\ got'[i] # <<>>
  <2>1. got \in [Ids -> Seq(Result)] /\ x \in Result /\ i \in Ids
    BY <1>1 DEF IInv, Histories
  <2>2. got' = [got EXCEPT ![i] = Append(@, x)]
    BY <1>1
  <2> HIDE DEF i, x
  <2> QED BY <2>1, <2>2
<1>5. emitted \in [Ids -> Seq(Result)] /\ Len(emitted[i]) \in Nat
  BY <1>1 DEF IInv, Histories
<1>6. i \notin Finals(r) /\ (got[i] = <<>> \/ got[i][Len(got[i])].kind # "final")
  <2>1. CASE got[i] = <<>>
    BY <2>1 DEF Finals
  <2>2. CASE got[i] # <<>>
    <3>1. Len(got[i]) \in DOMAIN got[i] /\ Len(got[i]) \in DOMAIN emitted[i]
          /\ Len(got[i]) # Len(emitted[i])
      BY <1>1, <1>4, <1>5, <2>2
    <3>2. got[i][Len(got[i])] = emitted[i][Len(got[i])]
      BY <1>1, <3>1 DEF IInv, Prefix
    <3>3. emitted[i][Len(got[i])].kind = "partial"
      BY <1>1, <3>1 DEF IInv, Stamped
    <3> QED BY <3>2, <3>3 DEF Finals
  <2> QED BY <2>1, <2>2
<1>7. TypeOK'
  <2>1. received_count[r] + 1 \in 0..Cardinality(Ids)
    <3>1. received_count[r] \in Nat /\ received_count[r] < Cardinality(id_tasks(r))
      BY <1>1 DEF IInv, TypeOK, Control, has_next
    <3>2. id_tasks(r) \in SUBSET Ids
      BY DEF id_tasks
    <3>3. Cardinality(id_tasks(r)) \in Nat /\ Cardinality(Ids) \in Nat
          /\ Cardinality(id_tasks(r)) <= Cardinality(Ids)
      BY <3>2, FS_Subset, FS_CardinalityType
    <3> QED BY <3>1, <3>3
  <2>2. received_count' \in [Readers -> 0..Cardinality(Ids)]
    BY <1>1, <2>1 DEF IInv, TypeOK
  <2>3. cv' \subseteq {s \in Readers : pc'[s] = "blocked"}
    BY <1>1 DEF IInv, TypeOK
  <2>4. pc' \in [Readers -> Steps]
    BY <1>1 DEF IInv, TypeOK, Steps
  <2> QED BY <1>1, <1>3, <2>2, <2>3, <2>4 DEF IInv, TypeOK, Result, main
<1>8. Histories'
  BY <1>1, <1>4, <1>5 DEF Histories
<1>9. Waiting' /\ Tasks'
  <2>1. Waiting'
    BY <1>1 DEF IInv, TypeOK, Waiting, Open
  <2>2. Tasks'
    <3>1. pc'[r] \in {"stop", "next"} /\ \A s \in Readers : s # r => pc'[s] = pc[s]
      BY <1>1 DEF IInv, TypeOK
    <3> QED BY <1>1, <3>1, TasksKept
  <2> QED BY <2>1, <2>2
<1>10. Stamped'
  BY <1>1 DEF IInv, Stamped, main
<1>11. Prefix'
  <2>1. \A j \in Ids : j # i => Len(got'[j]) <= Len(emitted'[j])
                                /\ \A m \in DOMAIN got'[j] : got'[j][m] = emitted'[j][m]
    BY <1>1, <1>4 DEF IInv, Prefix
  <2>2. Len(got'[i]) <= Len(emitted'[i])
    BY <1>1, <1>4, <1>5
  <2>3. DOMAIN got[i] = 1..Len(got[i]) /\ DOMAIN got'[i] = 1..(Len(got[i]) + 1)
    BY <1>4
  <2>4. \A m \in DOMAIN got'[i] : got'[i][m] = emitted'[i][m]
    BY <1>1, <1>4, <2>3 DEF IInv, Prefix
  <2> QED BY <2>1, <2>2, <2>4 DEF Prefix
<1>12. Stored'
  <2> SUFFICES ASSUME NEW m \in DOMAIN queue_results'
               PROVE  LET y == queue_results'[m] IN
                        /\ pc'[Owner[y.id]] \in Open \cup {"cancel"}
                        /\ Len(got'[y.id]) <= y.n /\ y.n < Len(emitted'[y.id])
                        /\ y = emitted'[y.id][y.n + 1]
    BY DEF Stored
  <2> DEFINE j == IF m < k THEN m ELSE m + 1
             y == q[j]
  <2>1. j \in DOMAIN q /\ j # k /\ queue_results'[m] = y
    BY <1>2, <1>3
  <2> HIDE DEF j
  <2>2. /\ pc[Owner[y.id]] \in Open \cup {"cancel"}
        /\ Len(got[y.id]) <= y.n /\ y.n < Len(emitted[y.id]) /\ y = emitted[y.id][y.n + 1]
        /\ y.id \in Ids /\ y.n \in Nat
    BY <1>2, <2>1 DEF IInv, Results, Stored
  <2>3. pc'[Owner[y.id]] \in Open \cup {"cancel"}
    BY <1>1, <2>2 DEF IInv, TypeOK, Open
  <2>4. Len(got'[y.id]) <= y.n
    <3>1. CASE y.id # i
      BY <1>4, <2>2, <3>1
    <3>2. CASE y.id = i
      <4>1. k <= j
        BY <1>1, <2>1, <3>2 DEF id_tasks
      <4>2. x.n < y.n
        BY <1>2, <2>1, <3>2, <4>1 DEF IInv, Results, Ordered
      <4> QED BY <1>1, <1>2, <1>4, <2>2, <3>2, <4>2
    <3> QED BY <3>1, <3>2
  <2> QED BY <1>1, <2>1, <2>2, <2>3, <2>4
<1>13. Ordered'
  <2> SUFFICES ASSUME NEW a \in DOMAIN queue_results', NEW b \in DOMAIN queue_results',
                      queue_results'[a].id = queue_results'[b].id, a < b
               PROVE  queue_results'[a].n < queue_results'[b].n
    BY DEF Ordered
  <2> DEFINE a1 == IF a < k THEN a ELSE a + 1
             b1 == IF b < k THEN b ELSE b + 1
  <2>1. /\ a1 \in DOMAIN q /\ b1 \in DOMAIN q /\ a1 < b1
        /\ queue_results'[a] = q[a1] /\ queue_results'[b] = q[b1]
    BY <1>2, <1>3
  <2> HIDE DEF a1, b1
  <2> QED BY <2>1 DEF IInv, Results, Ordered
<1>14. Present'
  <2> SUFFICES ASSUME NEW l \in Ids, pc'[Owner[l]] \in Open,
                      NEW n \in Len(got'[l])..(Len(emitted'[l]) - 1)
               PROVE  \E m \in DOMAIN queue_results' :
                         queue_results'[m].id = l /\ queue_results'[m].n = n
    BY DEF Present
  <2>1. pc[Owner[l]] \in Open /\ Len(got[l]) \in Nat /\ Len(emitted[l]) \in Nat
    <3>1. pc[Owner[l]] \in Open
      BY <1>1 DEF IInv, TypeOK, Open
    <3>2. got[l] \in Seq(Result) /\ emitted[l] \in Seq(Result)
      BY <1>4, <1>5
    <3> QED BY <3>1, <3>2
  <2>2. n \in Len(got[l])..(Len(emitted[l]) - 1) /\ (l = i => n # x.n)
    BY <1>1, <1>4, <2>1
  <2>3. PICK j \in DOMAIN q : q[j].id = l /\ q[j].n = n
    BY <2>1, <2>2 DEF IInv, Results, Present
  <2>4. j # k
    BY <2>2, <2>3
  <2> DEFINE m == IF j < k THEN j ELSE j - 1
  <2>5. m \in DOMAIN queue_results' /\ queue_results'[m] = q[j]
    BY <1>2, <1>3, <2>4
  <2> HIDE DEF m
  <2> QED BY <2>3, <2>5
<1>15. \A s \in Readers : Finals(s)' = IF s = r /\ x.kind = "final" THEN Finals(s) \cup {i} ELSE Finals(s)
  <2>1. \A j \in Ids : j # i => (j \in Finals(Owner[j])' <=> j \in Finals(Owner[j]))
    BY <1>4 DEF Finals, id_tasks
  <2>2. i \in Finals(r)' <=> x.kind = "final"
    BY <1>1, <1>4 DEF Finals, id_tasks
  <2>3. i \notin Finals(r)
    BY <1>6 DEF Finals
  <2> QED BY <1>1, <2>1, <2>2, <2>3 DEF Finals, id_tasks
<1>16. Counted'
  <2> SUFFICES ASSUME NEW s \in Readers
               PROVE  received_count'[s] = Cardinality(Finals(s)')
    BY DEF Counted
  <2>1. IsFiniteSet(Finals(s)) /\ Cardinality(Finals(s)) \in Nat
    <3>1. Finals(s) \in SUBSET Ids
      BY DEF Finals, id_tasks
    <3> QED BY <3>1, FS_Subset, FS_CardinalityType
  <2>2. Cardinality(Finals(r) \cup {i}) = Cardinality(Finals(r)) + 1
        \/ s # r
    <3>1. i \notin Finals(r)
      BY <1>6 DEF Finals
    <3> QED BY <3>1, <2>1, FS_AddElement
  <2>3. received_count[s] = Cardinality(Finals(s))
    BY DEF IInv, Counted
  <2> QED BY <1>1, <1>15, <2>2, <2>3 DEF IInv, TypeOK
<1>17. \A s \in Readers : Failed(s)' <=> (Failed(s) \/ (s = r /\ x.kind = "error"))
  <2>1. ~Failed(r)
    BY <1>1 DEF IInv, Control
  <2>2. \A j \in Ids : j # i => got'[j] = got[j]
    BY <1>4
  <2>3. got'[i] # <<>> /\ got'[i][Len(got'[i])] = x /\ Owner[i] = r /\ i \in Ids
    BY <1>1, <1>4
  <2> HIDE DEF x
  <2> QED BY <2>1, <2>2, <2>3 DEF Failed, id_tasks
<1>18. Control'
  <2>1. \A s \in Readers : s # r => (has_next(s)' <=> has_next(s)) /\ pc'[s] = pc[s]
                                    /\ received_count'[s] = received_count[s]
    BY <1>1 DEF has_next, id_tasks, IInv, TypeOK
  <2>2. cancelled' = cancelled /\ gone' = gone /\ id_tasks(r)' = id_tasks(r) /\ ~cancelled[r]
    BY <1>1 DEF IInv, Control, id_tasks
  <2>3. pc'[r] = IF x.kind = "error" THEN "stop" ELSE "next"
    BY <1>1 DEF IInv, TypeOK
  <2>4. ~Failed(r)
    BY <1>1 DEF IInv, Control
  <2> HIDE DEF x
  <2> QED BY <1>17, <2>1, <2>2, <2>3, <2>4 DEF IInv, Control, id_tasks
<1> QED BY <1>7, <1>8, <1>9, <1>10, <1>11, <1>12, <1>13, <1>14, <1>16, <1>18 DEF IInv, Results

\* A reader that expects nothing more has received all that was sent to it.
LEMMA WholeIsDone ==
  ASSUME IInv, NEW r \in Readers, ~has_next(r), ~cancelled[r]
  PROVE  /\ Finals(r) = id_tasks(r) /\ received_count[r] = Cardinality(id_tasks(r))
         /\ \A i \in id_tasks(r) : Len(got[i]) = Len(emitted[i])
<1>1. id_tasks(r) \in SUBSET Ids /\ Finals(r) \in SUBSET id_tasks(r)
  BY DEF id_tasks, Finals
<1>2. IsFiniteSet(id_tasks(r)) /\ Cardinality(id_tasks(r)) \in Nat
  BY <1>1, ReaderAssumption, FS_Subset, FS_CardinalityType DEF ReaderAssumption
<1>3. Cardinality(Finals(r)) \in Nat /\ Cardinality(Finals(r)) <= Cardinality(id_tasks(r))
  BY <1>1, <1>2, FS_Subset, FS_CardinalityType
<1>4. received_count[r] = Cardinality(Finals(r)) /\ ~(received_count[r] < Cardinality(id_tasks(r)))
  BY DEF has_next, IInv, Counted
<1>5. Cardinality(Finals(r)) = Cardinality(id_tasks(r))
  BY <1>2, <1>3, <1>4
<1>6. Finals(r) = id_tasks(r)
  BY <1>1, <1>2, <1>5, FS_Subset
<1>7. ASSUME NEW i \in id_tasks(r) PROVE Len(got[i]) = Len(emitted[i])
  <2>1. i \in Ids /\ got[i] # <<>> /\ got[i][Len(got[i])].kind = "final"
    BY <1>6 DEF Finals, id_tasks
  <2>2. got[i] \in Seq(Result) /\ emitted[i] \in Seq(Result)
    BY <2>1 DEF IInv, Histories
  <2>3. Len(got[i]) <= Len(emitted[i]) /\ \A k \in DOMAIN got[i] : got[i][k] = emitted[i][k]
    BY <2>1 DEF IInv, Prefix
  <2>4. Len(got[i]) \in DOMAIN got[i] /\ Len(got[i]) \in DOMAIN emitted[i]
    BY <2>1, <2>2, <2>3
  <2>5. emitted[i][Len(got[i])].kind = "final"
    BY <2>1, <2>3, <2>4
  <2> QED BY <2>1, <2>4, <2>5 DEF IInv, Stamped
<1> QED BY <1>4, <1>5, <1>6, <1>7

\* ... and none of its tasks is anywhere any more.
LEMMA WholeIsOver ==
  ASSUME IInv, NEW r \in Readers, ~has_next(r), ~cancelled[r], NEW i \in id_tasks(r)
  PROVE  ~Alive(i)
<1>1. i \in Ids /\ got[i] # <<>> /\ got[i][Len(got[i])].kind = "final"
      /\ Len(got[i]) = Len(emitted[i])
  BY WholeIsDone DEF Finals, id_tasks
<1>2. got[i] \in Seq(Result) /\ emitted[i] \in Seq(Result)
  BY <1>1 DEF IInv, Histories
<1>3. Len(got[i]) \in DOMAIN got[i] /\ Len(got[i]) \in DOMAIN emitted[i]
  BY <1>1, <1>2
<1>4. emitted[i][Len(got[i])].kind = "final" /\ emitted[i] # <<>>
  BY <1>1, <1>2, <1>3 DEF IInv, Prefix
<1>5. i \notin generating
  BY <1>1, <1>3, <1>4 DEF IInv, Stamped
<1>6. ~Held(i)
  BY <1>1, <1>4 DEF IInv, Tasks, HeldOnce, Idle
<1> QED BY <1>5, <1>6 DEF Alive, Held, Queued, Deferred

LEMMA StopWaitingStep ==
  ASSUME IInv, NEW r \in Readers, StopWaiting(r)
  PROVE  IInv'
<1> USE ReaderAssumption DEF ReaderAssumption
<1>0. /\ pc[r] = "stop" /\ pc' = [pc EXCEPT ![r] = IF has_next(r) THEN "cancel" ELSE "closed"]
      /\ waiting_task_ids' = waiting_task_ids \ id_tasks(r)
      /\ cancelled' = [cancelled EXCEPT ![r] = @ \/ has_next(r)]
      /\ UNCHANGED <<queue_results, cv, main, received_count, gone, emitted, got>>
  BY DEF StopWaiting, Goto, hist
<1>a. has_next(r) \in BOOLEAN /\ ~cancelled[r]
  BY <1>0 DEF has_next, IInv, Control
<1>1. TypeOK'
  <2>1. cancelled' \in [Readers -> BOOLEAN]
    BY <1>0, <1>a DEF IInv, TypeOK
  <2>2. pc' \in [Readers -> Steps]
    BY <1>0 DEF IInv, TypeOK, Steps
  <2>3. cv' \subseteq {s \in Readers : pc'[s] = "blocked"}
    BY <1>0 DEF IInv, TypeOK
  <2> QED BY <1>0, <2>1, <2>2, <2>3 DEF IInv, TypeOK, main
<1>2. Histories' /\ Stamped' /\ Prefix'
  BY <1>0 DEF IInv, Histories, Stamped, Prefix, main
<1>3. Waiting' /\ Tasks'
  <2>1. Waiting'
    BY <1>0 DEF IInv, TypeOK, Waiting, Open, id_tasks
  <2>2. ASSUME NEW i \in Ids, pc'[Owner[i]] = "closed"
        PROVE  pc[Owner[i]] = "closed" \/ ~Alive(i)
    <3>1. CASE Owner[i] = r
      <4>1. ~has_next(r) /\ i \in id_tasks(r)
        BY <1>0, <2>2, <3>1 DEF IInv, TypeOK, id_tasks
      <4> QED BY <1>a, <4>1, WholeIsOver
    <3>2. CASE Owner[i] # r
      BY <1>0, <2>2, <3>2 DEF IInv, TypeOK
    <3> QED BY <3>1, <3>2
  <2>3. \A i \in Ids : pc'[Owner[i]] \in {"add", "post"} => pc[Owner[i]] \in {"add", "post"}
    BY <1>0 DEF IInv, TypeOK
  <2>4. Tasks'
    BY <1>0, <2>2, <2>3, TasksKept
  <2> QED BY <2>1, <2>4
<1>4. Stored'
  <2> SUFFICES ASSUME NEW k \in DOMAIN queue_results
               PROVE  pc'[Owner[queue_results[k].id]] \in Open \cup {"cancel"}
    BY <1>0 DEF IInv, Results, Stored
  <2> DEFINE x == queue_results[k]  i == x.id
  <2>1. /\ i \in Ids /\ x.n \in Nat
        /\ Len(got[i]) <= x.n /\ x.n < Len(emitted[i]) /\ pc[Owner[i]] \in Open \cup {"cancel"}
    BY ResultIds DEF IInv, Results, Stored
  <2>2. Len(got[i]) \in Nat /\ Len(emitted[i]) \in Nat
    BY <2>1 DEF IInv, Histories
  <2>3. CASE Owner[i] = r
    <3>1. has_next(r)
      <4> SUFFICES ASSUME ~has_next(r) PROVE FALSE
        OBVIOUS
      <4>1. \A l \in id_tasks(r) : Len(got[l]) = Len(emitted[l])
        BY <1>a, WholeIsDone
      <4>2. i \in id_tasks(r)
        BY <2>1, <2>3 DEF id_tasks
      <4> QED BY <2>1, <2>2, <4>1, <4>2
    <3> QED BY <1>0, <2>3, <3>1 DEF IInv, TypeOK
  <2>4. CASE Owner[i] # r
    BY <1>0, <2>1, <2>4 DEF IInv, TypeOK
  <2> QED BY <2>3, <2>4
<1>5. Ordered' /\ Present'
  BY <1>0 DEF IInv, TypeOK, Results, Ordered, Present, Open
<1>6. Counted'
  BY <1>0 DEF IInv, Counted, Finals, id_tasks
<1>7. Control'
  <2>1. \A s \in Readers : (Failed(s)' <=> Failed(s)) /\ id_tasks(s)' = id_tasks(s)
    BY <1>0 DEF Failed, id_tasks
  <2>2. \A s \in Readers : s # r => (has_next(s)' <=> has_next(s)) /\ pc'[s] = pc[s]
                                    /\ cancelled'[s] = cancelled[s]
    BY <1>0 DEF has_next, id_tasks, IInv, TypeOK
  <2>3. pc'[r] = (IF has_next(r) THEN "cancel" ELSE "closed") /\ (cancelled'[r] <=> has_next(r))
    BY <1>0, <1>a DEF IInv, TypeOK
  <2>4. ~has_next(r) => received_count[r] = Cardinality(id_tasks(r))
    BY <1>a, WholeIsDone
  <2>5. received_count' = received_count /\ gone' = gone
    BY <1>0
  <2> QED BY <1>a, <2>1, <2>2, <2>3, <2>4, <2>5 DEF IInv, Control
<1> QED BY <1>1, <1>2, <1>3, <1>4, <1>5, <1>6, <1>7 DEF IInv, Results

LEMMA DropResultsStep ==
  ASSUME IInv, NEW r \in Readers, DropResults(r)
  PROVE  IInv'
<1> USE ReaderAssumption DEF ReaderAssumption
<1> DEFINE q == queue_results  keep == {k \in DOMAIN q : q[k].id \notin id_tasks(r)}
           q1 == Kept(q, keep)
<1>0. /\ pc[r] = "cancel" /\ pc' = [pc EXCEPT ![r] = "post_cancel"] /\ queue_results' = q1
      /\ UNCHANGED <<waiting_task_ids, cv, main, received_count, cancelled, gone, emitted, got>>
  BY DEF DropResults, Goto, rdv, hist
<1>1. /\ q \in Seq(Result)
      /\ \A k \in DOMAIN q : q[k].id \in Ids /\ q[k].n \in Nat
  BY ResultIds DEF IInv
<1>2. q1 \in Seq(Result)
  <2> HIDE DEF q
  <2> QED BY <1>1, KeptIs
<1>3. PICK f \in [DOMAIN q1 -> keep] :
        /\ \A k \in DOMAIN q1 : q1[k] = q[f[k]]
        /\ \A j, k \in DOMAIN q1 : j < k => f[j] < f[k]
        /\ \A j \in keep : \E k \in DOMAIN q1 : f[k] = j
  <2>1. Through(q1, q, keep)
    BY <1>1, KeptIs
  <2> HIDE DEF q, keep, q1
  <2> QED BY <2>1 DEF Through
<1> HIDE DEF q1
<1>4. TypeOK'
  BY <1>0, <1>2 DEF IInv, TypeOK, Steps, Result, main
<1>5. Histories' /\ Stamped' /\ Prefix'
  BY <1>0 DEF IInv, Histories, Stamped, Prefix, main
<1>6. Waiting' /\ Tasks'
  <2>1. Waiting'
    BY <1>0 DEF IInv, TypeOK, Waiting, Open
  <2>2. Tasks'
    BY <1>0, TasksKept DEF IInv, TypeOK
  <2> QED BY <2>1, <2>2
<1>7. Stored'
  <2> SUFFICES ASSUME NEW k \in DOMAIN q1
               PROVE  LET y == q1[k] IN
                        /\ pc'[Owner[y.id]] \in Open \cup {"cancel"}
                        /\ Len(got[y.id]) <= y.n /\ y.n < Len(emitted[y.id])
                        /\ y = emitted[y.id][y.n + 1]
    BY <1>0 DEF Stored
  <2>1. f[k] \in DOMAIN q /\ q1[k] = q[f[k]] /\ q[f[k]].id \notin id_tasks(r)
    BY <1>3
  <2>2. q1[k].id \in Ids /\ Owner[q1[k].id] # r
    BY <1>1, <2>1 DEF id_tasks
  <2>3. LET y == q1[k] IN
          /\ pc[Owner[y.id]] \in Open \cup {"cancel"}
          /\ Len(got[y.id]) <= y.n /\ y.n < Len(emitted[y.id])
          /\ y = emitted[y.id][y.n + 1]
    BY <2>1 DEF IInv, Results, Stored
  <2> QED BY <1>0, <2>2, <2>3 DEF IInv, TypeOK
<1>8. Ordered'
  <2> SUFFICES ASSUME NEW a \in DOMAIN q1, NEW b \in DOMAIN q1, q1[a].id = q1[b].id, a < b
               PROVE  q1[a].n < q1[b].n
    BY <1>0 DEF Ordered
  <2>1. f[a] \in DOMAIN q /\ f[b] \in DOMAIN q /\ f[a] < f[b]
        /\ q1[a] = q[f[a]] /\ q1[b] = q[f[b]]
    BY <1>3
  <2> QED BY <2>1 DEF IInv, Results, Ordered
<1>9. Present'
  <2> SUFFICES ASSUME NEW l \in Ids, pc'[Owner[l]] \in Open,
                      NEW n \in Len(got[l])..(Len(emitted[l]) - 1)
               PROVE  \E m \in DOMAIN q1 : q1[m].id = l /\ q1[m].n = n
    BY <1>0 DEF Present
  <2>1. pc[Owner[l]] \in Open /\ l \notin id_tasks(r)
    BY <1>0 DEF IInv, TypeOK, Open, id_tasks
  <2>2. PICK j \in DOMAIN q : q[j].id = l /\ q[j].n = n
    BY <2>1 DEF IInv, Results, Present
  <2>3. j \in keep
    BY <2>1, <2>2
  <2> QED BY <1>3, <2>2, <2>3
<1>10. Counted'
  BY <1>0 DEF IInv, Counted, Finals, id_tasks
<1>11. Control'
  BY <1>0 DEF IInv, TypeOK, Control, has_next, Failed, id_tasks
<1> QED BY <1>4, <1>5, <1>6, <1>7, <1>8, <1>9, <1>10, <1>11 DEF IInv, Results

LEMMA PostCancelStep ==
  ASSUME IInv, NEW r \in Readers, PostCancel(r)
  PROVE  IInv'
<1> USE ReaderAssumption DEF ReaderAssumption
<1> DEFINE q == queue_tasks  E == Entries("cancel", r)  K == OtherEntries(r)  D == OtherDeferred(r)
<1>0. /\ pc[r] = "post_cancel" /\ pc' = [pc EXCEPT ![r] = "closed"]
      /\ queue_tasks' = E \o K /\ queue_tasks_deferred' = D
      /\ stranded' = (stranded \/ LeftBehind(E \o K, D))
      /\ UNCHANGED <<waiting_task_ids, queue_results, cv, popped, generating, slipped,
                     received_count, cancelled, gone, emitted, got>>
  BY DEF PostCancel, CancelWith, Goto, resp, rdv, hist
<1>1. q \in Seq(Task) /\ queue_tasks_deferred \in Seq(Ids)
  BY QueueTypes DEF IInv
<1>2. /\ E \in Seq(Task)
      /\ \A e : Contains(E, e) <=> \E i \in id_tasks(r) : e = Entry("cancel", i)
      /\ \A e : Once(E, e)
  BY EntriesAre
<1>3. /\ K \in Seq(Task)
      /\ \A e : Contains(K, e) <=>
           \E k \in DOMAIN q : ~(q[k].type = "task" /\ q[k].id \in id_tasks(r)) /\ q[k] = e
      /\ \A e : Once(q, e) => Once(K, e)
  <2> DEFINE keep == {k \in DOMAIN q : ~(q[k].type = "task" /\ q[k].id \in id_tasks(r))}
  <2>1. keep \in SUBSET DOMAIN q /\ K = Kept(q, keep)
    BY DEF OtherEntries
  <2>2. \A e : (\E k \in keep : q[k] = e) <=>
           \E k \in DOMAIN q : ~(q[k].type = "task" /\ q[k].id \in id_tasks(r)) /\ q[k] = e
    OBVIOUS
  <2> HIDE DEF keep, K
  <2>3. /\ K \in Seq(Task) /\ \A e : Once(q, e) => Once(K, e)
        /\ \A e : Contains(K, e) <=> \E k \in keep : q[k] = e
    BY <1>1, <2>1, KeptHas
  <2> QED BY <2>2, <2>3, Zenon
<1>4. /\ D \in Seq(Ids)
      /\ \A i : Contains(D, i) <=> Deferred(i) /\ i \notin id_tasks(r)
      /\ \A i : Once(queue_tasks_deferred, i) => Once(D, i)
  <2> DEFINE d == queue_tasks_deferred
             keep == {k \in DOMAIN d : d[k] \notin id_tasks(r)}
  <2>1. keep \in SUBSET DOMAIN d /\ D = Kept(d, keep)
    BY DEF OtherDeferred
  <2>2. \A i : (\E k \in keep : d[k] = i) <=> Deferred(i) /\ i \notin id_tasks(r)
    BY <1>1 DEF Deferred, Contains
  <2> HIDE DEF keep, D
  <2>3. /\ D \in Seq(Ids) /\ \A i : Once(d, i) => Once(D, i)
        /\ \A i : Contains(D, i) <=> \E k \in keep : d[k] = i
    BY <1>1, <2>1, KeptHas
  <2> QED BY <2>2, <2>3
<1>5. \A i : /\ Contains(K, Entry("task", i)) <=> Queued(i) /\ i \notin id_tasks(r)
             /\ Contains(q, Entry("cancel", i)) => Contains(K, Entry("cancel", i))
  <2> TAKE i
  <2> DEFINE e == Entry("task", i)  x == Entry("cancel", i)
  <2>1. e.type = "task" /\ e.id = i /\ x.type = "cancel"
    BY DEF Entry
  <2> HIDE DEF e, x, K
  <2>2. \A y : Contains(q, y) <=> \E k \in DOMAIN q : q[k] = y
    BY <1>1 DEF Contains
  <2>3. Contains(K, e) <=> Contains(q, e) /\ i \notin id_tasks(r)
    BY <1>3, <2>1, <2>2
  <2>4. Contains(q, x) => Contains(K, x)
    BY <1>3, <2>1, <2>2
  <2> QED BY <2>3, <2>4 DEF Queued, e, x
<1> HIDE DEF E, K, D
<1>6. /\ E \o K \in Seq(Task)
      /\ \A e : Contains(E \o K, e) <=> Contains(E, e) \/ Contains(K, e)
      /\ \A e : Once(K, e) /\ ~Contains(E, e) => Once(E \o K, e)
  BY <1>2, <1>3, ConcatIs
<1>7. TypeOK'
  <2>1. stranded' \in BOOLEAN
    BY <1>0 DEF IInv, TypeOK, LeftBehind
  <2> QED BY <1>0, <1>4, <1>6, <2>1 DEF IInv, TypeOK, Steps, Task
<1>8. Histories' /\ Stamped' /\ Prefix'
  BY <1>0 DEF IInv, Histories, Stamped, Prefix
<1>9. Waiting'
  BY <1>0 DEF IInv, TypeOK, Waiting, Open
<1>10. Results'
  <2>1. \A k \in DOMAIN queue_results : queue_results[k].id \in Ids
    BY ResultIds DEF IInv
  <2>2. Stored' /\ Ordered'
    BY <1>0, <2>1 DEF IInv, TypeOK, Results, Stored, Ordered, Open
  <2>3. Present'
    BY <1>0 DEF IInv, TypeOK, Results, Present, Open
  <2> QED BY <2>2, <2>3 DEF Results
<1>11. Counted'
  BY <1>0 DEF IInv, Counted, Finals, id_tasks
<1>12. Control'
  BY <1>0 DEF IInv, TypeOK, Control, has_next, Failed, id_tasks
<1>13. \A i \in Ids : /\ Queued(i)' <=> Queued(i) /\ i \notin id_tasks(r)
                      /\ Deferred(i)' <=> Deferred(i) /\ i \notin id_tasks(r)
                      /\ Idle(i)' <=> Idle(i)
                      /\ Held(i)' => Held(i)
                      /\ i \in id_tasks(r) \/ Contains(q, Entry("cancel", i))
                           => Contains(queue_tasks', Entry("cancel", i))
                      /\ Once(q, Entry("task", i)) => Once(queue_tasks', Entry("task", i))
                      /\ Once(queue_tasks_deferred, i) => Once(queue_tasks_deferred', i)
  <2> TAKE i \in Ids
  <2>1. ~Contains(E, Entry("task", i))
    BY <1>2, EntryIs
  <2>2. Queued(i)' <=> Queued(i) /\ i \notin id_tasks(r)
    BY <1>0, <1>5, <1>6, <2>1 DEF Queued
  <2>3. Deferred(i)' <=> Deferred(i) /\ i \notin id_tasks(r)
    BY <1>0, <1>4 DEF Deferred
  <2> QED BY <1>0, <1>2, <1>3, <1>4, <1>5, <1>6, <2>1, <2>2, <2>3 DEF Held, Idle
<1>14. Fresh'
  <2>1. \A i \in Ids : pc'[Owner[i]] \in {"add", "post"} => pc[Owner[i]] \in {"add", "post"}
    BY <1>0 DEF IInv, TypeOK
  <2> QED BY <1>13, <2>1 DEF IInv, Tasks, Fresh
<1>15. HeldOnce'
  BY <1>0, <1>13 DEF IInv, Tasks, HeldOnce
<1>16. CancelComes'
  <2> SUFFICES ASSUME NEW i \in Ids, pc'[Owner[i]] = "closed", i \notin slipped'
               PROVE  /\ ~Queued(i)' /\ ~Deferred(i)'
                      /\ popped' = i \/ i \in generating'
                           => Contains(queue_tasks', Entry("cancel", i))
    BY DEF CancelComes
  <2>1. i \in id_tasks(r) \/ pc[Owner[i]] = "closed"
    BY <1>0 DEF IInv, TypeOK, id_tasks
  <2> QED BY <1>0, <1>13, <2>1 DEF IInv, Tasks, CancelComes
<1> QED BY <1>7, <1>8, <1>9, <1>10, <1>11, <1>12, <1>14, <1>15, <1>16 DEF IInv, Tasks

\* What a step leaves true that moves no reader, no result and no history.
LEMMA Untouched ==
  ASSUME IInv,
         UNCHANGED <<waiting_task_ids, queue_results, pc, received_count, cancelled, gone,
                     emitted, got>>
  PROVE  Histories' /\ Prefix' /\ Waiting' /\ Results' /\ Counted' /\ Control'
<1>1. Histories' /\ Prefix' /\ Waiting'
  BY DEF IInv, Histories, Prefix, Waiting
<1>2. Stored'
  BY DEF IInv, Results, Stored
<1>3. Ordered' /\ Present'
  BY DEF IInv, Results, Ordered, Present
<1>4. Counted'
  BY DEF IInv, Counted, Finals, id_tasks
<1>5. \A r \in Readers : (has_next(r)' <=> has_next(r)) /\ (Failed(r)' <=> Failed(r))
  BY DEF has_next, Failed, id_tasks
<1>6. Control'
  <2>1. \A r \in Readers : Cardinality(id_tasks(r))' = Cardinality(id_tasks(r))
    BY DEF id_tasks
  <2> QED BY <1>5, <2>1 DEF IInv, Control
<1> QED BY <1>1, <1>2, <1>3, <1>4, <1>6 DEF Results

LEMMA PopTaskStep ==
  ASSUME IInv, PopTask
  PROVE  IInv'
<1> USE ReaderAssumption DEF ReaderAssumption
<1> DEFINE p == Head(queue_tasks).id
<1>1. /\ queue_tasks # <<>> /\ Head(queue_tasks).type = "task"
      /\ popped = NoTask /\ popped' = p /\ queue_tasks' = Tail(queue_tasks)
      /\ UNCHANGED <<waiting_task_ids, queue_results, cv, queue_tasks_deferred, generating, stranded,
                     slipped, pc, received_count, cancelled, gone, emitted, got>>
  BY DEF PopTask, resp, rdv, hist
<1>2. queue_tasks \in Seq(Task) /\ queue_tasks_deferred \in Seq(Ids)
  BY QueueTypes DEF IInv
<1>3. /\ Tail(queue_tasks) \in Seq(Task) /\ Head(queue_tasks) \in Task
      /\ \A x : Contains(queue_tasks, x) <=> Contains(Tail(queue_tasks), x) \/ x = Head(queue_tasks)
      /\ \A x : Once(queue_tasks, x) => Once(Tail(queue_tasks), x)
      /\ Once(queue_tasks, Head(queue_tasks)) => ~Contains(Tail(queue_tasks), Head(queue_tasks))
  BY <1>1, <1>2, TailIs
<1>4. p \in Ids /\ Head(queue_tasks) = Entry("task", p)
  BY <1>1, <1>3, EntryIs
<1> HIDE DEF p
<1>5. Queued(p) /\ Held(p) /\ ~Deferred(p) /\ Once(queue_tasks, Entry("task", p))
  BY <1>3, <1>4 DEF Held, Queued, IInv, Tasks, HeldOnce
<1>6. \A i \in Ids : /\ Queued(i)' <=> Queued(i) /\ i # p
                     /\ Deferred(i)' <=> Deferred(i)
                     /\ Held(i)' <=> Held(i)
                     /\ Idle(i)' <=> Idle(i)
                     /\ Contains(queue_tasks, Entry("cancel", i))
                          => Contains(queue_tasks', Entry("cancel", i))
  <2> TAKE i \in Ids
  <2>1. Queued(i)' <=> Queued(i) /\ i # p
    BY <1>1, <1>3, <1>4, <1>5, EntryIs DEF Queued
  <2>2. Deferred(i)' <=> Deferred(i)
    BY <1>1 DEF Deferred
  <2>3. Held(i)' <=> Held(i)
    BY <1>1, <1>5, <2>1, <2>2 DEF Held
  <2>4. Contains(queue_tasks, Entry("cancel", i)) => Contains(queue_tasks', Entry("cancel", i))
    BY <1>1, <1>3, <1>4, EntryIs
  <2> QED BY <1>1, <2>1, <2>2, <2>3, <2>4 DEF Idle
<1>7. TypeOK'
  BY <1>1, <1>3, <1>4 DEF IInv, TypeOK, Task
<1>8. Histories' /\ Prefix' /\ Waiting' /\ Results' /\ Counted' /\ Control'
  BY <1>1, Untouched
<1>9. Stamped'
  BY <1>1 DEF IInv, Stamped
<1>10. Fresh'
  BY <1>1, <1>6 DEF IInv, Tasks, Fresh
<1>11. HeldOnce'
  <2> SUFFICES ASSUME NEW i \in Ids, Held(i)'
               PROVE  /\ Idle(i)'
                      /\ Once(queue_tasks', Entry("task", i))
                      /\ Once(queue_tasks_deferred', i)
                      /\ ~(Queued(i)' /\ Deferred(i)')
                      /\ popped' = i => ~Queued(i)' /\ ~Deferred(i)'
    BY DEF HeldOnce
  <2> QED BY <1>1, <1>3, <1>5, <1>6 DEF IInv, Tasks, HeldOnce
<1>12. CancelComes'
  BY <1>1, <1>5, <1>6 DEF IInv, Tasks, CancelComes
<1> QED BY <1>7, <1>8, <1>9, <1>10, <1>11, <1>12 DEF IInv, Tasks

\* A release of the slot of c, with q what queue_tasks held before it.
LEMMA ReleaseIs ==
  ASSUME IInv, NEW c \in generating, NEW q \in Seq(Task), Release(c, q), popped = NoTask,
         \A i \in Ids : /\ Contains(q, Entry("task", i)) <=> Queued(i)
                        /\ Once(queue_tasks, Entry("task", i)) => Once(q, Entry("task", i))
                        /\ i # c /\ Contains(queue_tasks, Entry("cancel", i))
                             => Contains(q, Entry("cancel", i)),
         \A i \in Ids : i # c => emitted'[i] = emitted[i],
         UNCHANGED <<popped, slipped, pc>>
  PROVE  /\ Tasks' /\ generating' = generating \ {c}
         /\ queue_tasks' \in Seq(Task) /\ queue_tasks_deferred' \in Seq(Ids)
<1> USE ReaderAssumption DEF ReaderAssumption
<1> DEFINE d == queue_tasks_deferred  h == Head(d)
<1>1. d \in Seq(Ids) /\ generating' = generating \ {c} /\ c \in Ids
  BY QueueTypes DEF IInv, Release, TypeOK
<1>2. \A i \in Ids : Held(i) => i # c /\ Idle(i)'
  BY <1>1 DEF IInv, Tasks, HeldOnce, Idle
<1>3. \A i \in Ids : Idle(i) => i # c /\ Idle(i)'
  BY <1>1 DEF Idle
<1>4. /\ queue_tasks' \in Seq(Task) /\ queue_tasks_deferred' \in Seq(Ids)
      /\ \A i \in Ids :
           /\ Held(i)' <=> Held(i)
           /\ Queued(i)' \/ Deferred(i)' <=> Queued(i) \/ Deferred(i)
           /\ i # c /\ Contains(queue_tasks, Entry("cancel", i))
                => Contains(queue_tasks', Entry("cancel", i))
           /\ Held(i) => /\ Once(queue_tasks', Entry("task", i))
                         /\ Once(queue_tasks_deferred', i)
                         /\ ~(Queued(i)' /\ Deferred(i)')
  <2>1. CASE d = <<>>
    <3>1. queue_tasks' = q /\ queue_tasks_deferred' = d
      BY <2>1 DEF Release
    <3>2. \A i \in Ids : /\ Queued(i)' <=> Queued(i)
                         /\ Deferred(i)' <=> Deferred(i)
                         /\ Held(i)' <=> Held(i)
      BY <3>1 DEF Queued, Deferred, Held
    <3> QED BY <1>1, <3>1, <3>2 DEF IInv, Tasks, HeldOnce
  <2>2. CASE d # <<>>
    <3>1. /\ Tail(d) \in Seq(Ids) /\ h \in Ids
          /\ \A x : Contains(d, x) <=> Contains(Tail(d), x) \/ x = h
          /\ \A x : Once(d, x) => Once(Tail(d), x)
          /\ Once(d, h) => ~Contains(Tail(d), h)
      BY <1>1, <2>2, TailIs
    <3> HIDE DEF h
    <3>2. Deferred(h) /\ ~Queued(h) /\ ~Contains(Tail(d), h)
      BY <3>1 DEF Deferred, Held, IInv, Tasks, HeldOnce
    <3> DEFINE e == Entry("task", h)
    <3>3. e \in Task /\ <<e>> \in Seq(Task)
          /\ \A x : (Contains(<<e>>, x) <=> x = e) /\ Once(<<e>>, x)
      BY <3>1, EntryIs, SingleIs
    <3>4. queue_tasks' = <<e>> \o q /\ queue_tasks_deferred' = Tail(d)
      BY <2>2 DEF Release, h
    <3> HIDE DEF e
    <3>5. /\ queue_tasks' \in Seq(Task)
          /\ \A x : Contains(queue_tasks', x) <=> Contains(q, x) \/ x = e
          /\ \A x : Once(q, x) /\ ~(x = e /\ Contains(q, x)) => Once(queue_tasks', x)
      BY <3>3, <3>4, ConcatIs
    <3>6. \A i : Entry("task", i) = e <=> i = h
      BY EntryIs DEF e
    <3>7. \A i : Entry("cancel", i) # e
      BY EntryIs DEF e
    <3>8. \A i \in Ids : /\ Queued(i)' <=> Queued(i) \/ i = h
                         /\ Deferred(i)' <=> Deferred(i) /\ i # h
                         /\ Held(i)' <=> Held(i)
      <4> TAKE i \in Ids
      <4>1. Queued(i)' <=> Queued(i) \/ i = h
        BY <3>5, <3>6 DEF Queued
      <4>2. Deferred(i)' <=> Deferred(i) /\ i # h
        BY <3>1, <3>2, <3>4 DEF Deferred
      <4> QED BY <3>2, <4>1, <4>2 DEF Held
    <3>9. ASSUME NEW i \in Ids, Held(i)
          PROVE  /\ Once(queue_tasks', Entry("task", i)) /\ Once(queue_tasks_deferred', i)
                 /\ ~(Queued(i)' /\ Deferred(i)')
      <4>1. /\ Once(queue_tasks, Entry("task", i)) /\ Once(d, i)
            /\ ~(Queued(i) /\ Deferred(i))
        BY <3>9 DEF IInv, Tasks, HeldOnce
      <4>2. ~(Entry("task", i) = e /\ Contains(q, Entry("task", i)))
        BY <3>2, <3>6
      <4> QED BY <3>1, <3>2, <3>4, <3>5, <3>8, <4>1, <4>2
    <3>10. \A i \in Ids : i # c /\ Contains(queue_tasks, Entry("cancel", i))
                            => Contains(queue_tasks', Entry("cancel", i))
      BY <3>5
    <3> QED BY <3>1, <3>2, <3>4, <3>5, <3>8, <3>9, <3>10
  <2> QED BY <2>1, <2>2
<1>5. Fresh'
  BY <1>3, <1>4 DEF IInv, Tasks, Fresh
<1>6. HeldOnce'
  <2> SUFFICES ASSUME NEW i \in Ids, Held(i)'
               PROVE  /\ Idle(i)'
                      /\ Once(queue_tasks', Entry("task", i))
                      /\ Once(queue_tasks_deferred', i)
                      /\ ~(Queued(i)' /\ Deferred(i)')
                      /\ popped' = i => ~Queued(i)' /\ ~Deferred(i)'
    BY DEF HeldOnce
  <2> QED BY <1>2, <1>4
<1>7. CancelComes'
  BY <1>1, <1>4 DEF IInv, Tasks, CancelComes
<1> QED BY <1>1, <1>4, <1>5, <1>6, <1>7 DEF Tasks

LEMMA ProcessCancelStep ==
  ASSUME IInv, ProcessCancel
  PROVE  IInv'
<1> USE ReaderAssumption DEF ReaderAssumption
<1> DEFINE c == Head(queue_tasks).id  t == Tail(queue_tasks)
<1>1. /\ queue_tasks # <<>> /\ Head(queue_tasks).type = "cancel" /\ popped = NoTask
      /\ UNCHANGED <<waiting_task_ids, queue_results, cv, popped, stranded, slipped,
                     pc, received_count, cancelled, gone, emitted, got>>
  BY DEF ProcessCancel, resp, rdv, hist
<1>2. queue_tasks \in Seq(Task) /\ queue_tasks_deferred \in Seq(Ids)
  BY QueueTypes DEF IInv
<1>3. /\ t \in Seq(Task) /\ Head(queue_tasks) \in Task
      /\ \A x : Contains(queue_tasks, x) <=> Contains(t, x) \/ x = Head(queue_tasks)
      /\ \A x : Once(queue_tasks, x) => Once(t, x)
  BY <1>1, <1>2, TailIs
<1>4. c \in Ids /\ Head(queue_tasks) = Entry("cancel", c)
  BY <1>1, <1>3, EntryIs
<1>5. \/ c \in generating /\ Release(c, t)
      \/ /\ c \notin generating /\ queue_tasks' = t
         /\ UNCHANGED <<queue_tasks_deferred, generating>>
  BY DEF ProcessCancel
<1> HIDE DEF c, t
<1>6. \A i \in Ids : /\ Contains(t, Entry("task", i)) <=> Queued(i)
                     /\ Once(queue_tasks, Entry("task", i)) => Once(t, Entry("task", i))
                     /\ i # c /\ Contains(queue_tasks, Entry("cancel", i))
                          => Contains(t, Entry("cancel", i))
  BY <1>3, <1>4, EntryIs DEF Queued
<1>7. /\ Tasks' /\ generating' \in SUBSET generating
      /\ queue_tasks' \in Seq(Task) /\ queue_tasks_deferred' \in Seq(Ids)
  <2>1. CASE c \in generating
    <3>1. \A i \in Ids : i # c => emitted'[i] = emitted[i]
      BY <1>1
    <3>2. Release(c, t)
      BY <1>5, <2>1
    <3>3. UNCHANGED <<popped, slipped, pc>>
      BY <1>1
    <3>4. /\ Tasks' /\ generating' = generating \ {c}
          /\ queue_tasks' \in Seq(Task) /\ queue_tasks_deferred' \in Seq(Ids)
      BY <1>1, <1>3, <1>6, <2>1, <3>1, <3>2, <3>3, ReleaseIs
    <3> QED BY <3>4
  <2>2. CASE c \notin generating
    <3>1. queue_tasks' = t /\ UNCHANGED <<queue_tasks_deferred, generating>>
      BY <1>5, <2>2
    <3>2. \A i \in Ids : /\ Queued(i)' <=> Queued(i)
                         /\ Deferred(i)' <=> Deferred(i)
                         /\ Held(i)' <=> Held(i)
                         /\ Idle(i)' <=> Idle(i)
      BY <1>1, <1>6, <3>1 DEF Queued, Deferred, Held, Idle
    <3>3. Fresh'
      BY <1>1, <3>2 DEF IInv, Tasks, Fresh
    <3>4. HeldOnce'
      BY <1>1, <1>6, <3>1, <3>2 DEF IInv, Tasks, HeldOnce
    <3>5. CancelComes'
      <4>1. \A i \in Ids : popped = i \/ i \in generating => i # c
        BY <1>1, <2>2
      <4> QED BY <1>1, <1>6, <3>1, <3>2, <4>1 DEF IInv, Tasks, CancelComes
    <3> QED BY <1>2, <1>3, <3>1, <3>3, <3>4, <3>5 DEF Tasks
  <2> QED BY <2>1, <2>2
<1>8. TypeOK'
  BY <1>1, <1>7 DEF IInv, TypeOK, Task
<1>9. Histories' /\ Prefix' /\ Waiting' /\ Results' /\ Counted' /\ Control'
  BY <1>1, Untouched
<1>10. Stamped'
  BY <1>1, <1>7 DEF IInv, Stamped
<1> QED BY <1>7, <1>8, <1>9, <1>10 DEF IInv

LEMMA LaunchStep ==
  ASSUME IInv, Launch
  PROVE  IInv'
<1> USE ReaderAssumption DEF ReaderAssumption
<1> DEFINE p == popped
<1>1. /\ p # NoTask /\ popped' = NoTask /\ generating' = generating \cup {p} /\ stranded' = FALSE
      /\ UNCHANGED <<waiting_task_ids, queue_results, cv, queue_tasks, queue_tasks_deferred,
                     slipped, pc, received_count, cancelled, gone, emitted, got>>
  BY DEF Launch, resp, rdv, hist
<1>2. p \in Ids /\ Held(p) /\ Idle(p) /\ ~Queued(p) /\ ~Deferred(p)
  BY <1>1, QueueTypes DEF IInv, Tasks, HeldOnce, Held
<1>3. \A i \in Ids : /\ Queued(i)' <=> Queued(i)
                     /\ Deferred(i)' <=> Deferred(i)
                     /\ Held(i)' <=> Held(i) /\ i # p
                     /\ i # p => (Idle(i)' <=> Idle(i))
  BY <1>1, <1>2 DEF Queued, Deferred, Held, Idle
<1>4. TypeOK'
  BY <1>1, <1>2 DEF IInv, TypeOK
<1>5. Histories' /\ Prefix' /\ Waiting' /\ Results' /\ Counted' /\ Control'
  BY <1>1, Untouched
<1>6. Stamped'
  BY <1>1, <1>2 DEF IInv, Stamped, Idle
<1>7. Fresh'
  BY <1>1, <1>2, <1>3 DEF IInv, Tasks, Fresh
<1>8. HeldOnce'
  BY <1>1, <1>3 DEF IInv, Tasks, HeldOnce
<1>9. CancelComes'
  BY <1>1, <1>3 DEF IInv, Tasks, CancelComes
<1> QED BY <1>4, <1>5, <1>6, <1>7, <1>8, <1>9 DEF IInv, Tasks

LEMMA DeferStep ==
  ASSUME IInv, Defer
  PROVE  IInv'
<1> USE ReaderAssumption DEF ReaderAssumption
<1> DEFINE p == popped  d == queue_tasks_deferred
<1>1. /\ p # NoTask /\ popped' = NoTask /\ queue_tasks_deferred' = Append(d, p)
      /\ slipped' = IF pc[Owner[p]] = "closed" THEN slipped \cup {p} ELSE slipped
      /\ UNCHANGED <<waiting_task_ids, queue_results, cv, queue_tasks, generating, stranded,
                     pc, received_count, cancelled, gone, emitted, got>>
  BY DEF Defer, resp, rdv, hist
<1>2. p \in Ids /\ Held(p) /\ Idle(p) /\ ~Queued(p) /\ ~Deferred(p) /\ d \in Seq(Ids)
  BY <1>1, QueueTypes DEF IInv, Tasks, HeldOnce, Held
<1>3. /\ Append(d, p) \in Seq(Ids)
      /\ \A x : Contains(Append(d, p), x) <=> Contains(d, x) \/ x = p
      /\ \A x : Once(d, x) /\ ~(Contains(d, x) /\ x = p) => Once(Append(d, p), x)
  <2>1. <<p>> \in Seq(Ids) /\ \A x : (Contains(<<p>>, x) <=> x = p) /\ Once(<<p>>, x)
    BY <1>2, SingleIs
  <2>2. Append(d, p) = d \o <<p>>
    BY <1>2, AppendIsConcat
  <2> DEFINE s == <<p>>
  <2> HIDE DEF d, p, s
  <2>3. /\ d \o s \in Seq(Ids)
        /\ \A x : Contains(d \o s, x) <=> Contains(d, x) \/ Contains(s, x)
        /\ \A x : Once(d, x) /\ Once(s, x) /\ ~(Contains(d, x) /\ Contains(s, x)) => Once(d \o s, x)
    BY <1>2, <2>1, ConcatIs DEF s
  <2>4. Append(d, p) = d \o s /\ \A x : (Contains(s, x) <=> x = p) /\ Once(s, x)
    BY <2>1, <2>2 DEF s
  <2> QED BY <2>3, <2>4
<1>4. \A i \in Ids : /\ Queued(i)' <=> Queued(i)
                     /\ Deferred(i)' <=> Deferred(i) \/ i = p
                     /\ Held(i)' <=> Held(i)
                     /\ Idle(i)' <=> Idle(i)
  <2> HIDE DEF d
  <2>1. \A i : Deferred(i)' <=> Contains(Append(d, p), i)
    BY <1>1 DEF Deferred
  <2> QED BY <1>1, <1>2, <1>3, <2>1 DEF Queued, Deferred, Held, Idle, d
<1>5. TypeOK'
  BY <1>1, <1>2, <1>3 DEF IInv, TypeOK
<1>6. Histories' /\ Prefix' /\ Waiting' /\ Results' /\ Counted' /\ Control'
  BY <1>1, Untouched
<1>7. Stamped'
  BY <1>1 DEF IInv, Stamped
<1>8. Fresh'
  BY <1>1, <1>4 DEF IInv, Tasks, Fresh
<1>9. HeldOnce'
  <2> SUFFICES ASSUME NEW i \in Ids, Held(i)'
               PROVE  /\ Idle(i)'
                      /\ Once(queue_tasks', Entry("task", i))
                      /\ Once(queue_tasks_deferred', i)
                      /\ ~(Queued(i)' /\ Deferred(i)')
                      /\ popped' = i => ~Queued(i)' /\ ~Deferred(i)'
    BY DEF HeldOnce
  <2>1. Once(queue_tasks_deferred', i)
    <3>1. Once(d, i) /\ ~(Contains(d, i) /\ i = p)
      BY <1>2, <1>4 DEF IInv, Tasks, HeldOnce, Deferred
    <3> QED BY <1>1, <1>3, <3>1
  <2> QED BY <1>1, <1>2, <1>4, <2>1 DEF IInv, Tasks, HeldOnce
<1>10. CancelComes'
  BY <1>1, <1>4 DEF IInv, Tasks, CancelComes
<1> QED BY <1>5, <1>6, <1>7, <1>8, <1>9, <1>10 DEF IInv, Tasks

\* What send() leaves true of results and histories, for a task that has not
\* ended, whether its id is waiting or not.
LEMMA SendKeeps ==
  ASSUME IInv, NEW i \in Ids, NEW kind \in Kinds, Send(i, kind),
         \A k \in DOMAIN emitted[i] : emitted[i][k].kind = "partial",
         generating' \in SUBSET generating,
         kind # "partial" => i \notin generating',
         UNCHANGED <<waiting_task_ids, pc, received_count, cancelled, gone, got>>
  PROVE  /\ queue_results' \in Seq(Result) /\ cv' \in SUBSET cv
         /\ \A j \in Ids : j # i => emitted'[j] = emitted[j]
         /\ Histories' /\ Waiting' /\ Stamped' /\ Prefix' /\ Results' /\ Counted' /\ Control'
<1> USE ReaderAssumption DEF ReaderAssumption
<1> DEFINE q == queue_results  res == [id |-> i, kind |-> kind, n |-> Len(emitted[i])]
<1>a. /\ emitted \in [Ids -> Seq(Result)] /\ got \in [Ids -> Seq(Result)]
      /\ emitted[i] \in Seq(Result) /\ got[i] \in Seq(Result)
  BY DEF IInv, Histories
<1>b. Len(emitted[i]) \in Nat /\ Len(got[i]) \in Nat /\ res \in Result
  BY <1>a DEF Result
<1>1. CASE i \notin waiting_task_ids
  <2>1. UNCHANGED <<queue_results, emitted, cv>>
    BY <1>1 DEF Send
  <2>2. queue_results' \in Seq(Result)
    BY <2>1, ResultIds DEF IInv
  <2>3. Histories' /\ Waiting' /\ Prefix' /\ Results' /\ Counted' /\ Control'
    BY <2>1, Untouched
  <2>4. Stamped'
    BY <2>1 DEF IInv, Stamped
  <2> QED BY <2>1, <2>2, <2>3, <2>4
<1>2. CASE i \in waiting_task_ids
  <2>1. /\ queue_results' = Append(q, res) /\ cv' = {}
        /\ emitted' = [emitted EXCEPT ![i] = Append(@, res)]
    BY <1>2 DEF Send
  <2>2. /\ q \in Seq(Result) /\ Len(q) \in Nat /\ DOMAIN q = 1..Len(q)
        /\ \A k \in DOMAIN q : q[k].id \in Ids /\ q[k].n \in Nat
    BY ResultIds DEF IInv
  <2> HIDE DEF res
  <2>3. /\ queue_results' \in Seq(Result) /\ DOMAIN queue_results' = 1..(Len(q) + 1)
        /\ \A k \in 1..Len(q) : queue_results'[k] = q[k]
        /\ queue_results'[Len(q) + 1] = res
    BY <1>b, <2>1, <2>2
  <2>4. /\ emitted' \in [Ids -> Seq(Result)]
        /\ \A j \in Ids : j # i => emitted'[j] = emitted[j]
        /\ Len(emitted'[i]) = Len(emitted[i]) + 1 /\ DOMAIN emitted'[i] = 1..(Len(emitted[i]) + 1)
        /\ DOMAIN emitted[i] = 1..Len(emitted[i])
        /\ \A k \in 1..Len(emitted[i]) : emitted'[i][k] = emitted[i][k]
        /\ emitted'[i][Len(emitted[i]) + 1] = res
    BY <1>a, <1>b, <2>1
  <2>5. res.id = i /\ res.kind = kind /\ res.n = Len(emitted[i])
    BY DEF res
  <2>6. pc[Owner[i]] \in Open
    BY <1>2 DEF IInv, Waiting
  <2>7. cv' \in SUBSET cv
    BY <2>1
  <2>8. Histories'
    BY <1>a, <2>4 DEF Histories
  <2>9. Waiting' /\ Counted' /\ Control'
    BY DEF IInv, Waiting, Counted, Finals, Control, has_next, Failed, id_tasks
  <2>11. Stamped'
    <3> SUFFICES ASSUME NEW j \in Ids, NEW k \in DOMAIN emitted'[j]
                 PROVE  /\ emitted'[j][k].id = j /\ emitted'[j][k].n = k - 1
                        /\ emitted'[j][k].kind # "partial"
                             => k = Len(emitted'[j]) /\ j \notin generating'
      BY DEF Stamped
    <3>1. CASE j # i
      BY <2>4, <3>1 DEF IInv, Stamped
    <3>2. CASE j = i /\ k \in 1..Len(emitted[i])
      BY <2>4, <3>2 DEF IInv, Stamped
    <3>3. CASE j = i /\ k = Len(emitted[i]) + 1
      BY <1>b, <2>4, <2>5, <3>3
    <3> QED BY <1>b, <2>4, <3>1, <3>2, <3>3
  <2>12. Prefix'
    <3>1. \A j \in Ids : j # i => emitted'[j] = emitted[j]
      BY <2>4
    <3>2. Len(got[i]) <= Len(emitted[i]) /\ \A k \in DOMAIN got[i] : got[i][k] = emitted[i][k]
      BY DEF IInv, Prefix
    <3>3. DOMAIN got[i] = 1..Len(got[i])
      BY <1>a
    <3>4. Len(got[i]) <= Len(emitted'[i])
      BY <1>b, <2>4, <3>2
    <3>5. ASSUME NEW k \in DOMAIN got[i] PROVE got[i][k] = emitted'[i][k]
      <4>1. k \in 1..Len(emitted[i])
        BY <1>b, <3>2, <3>3
      <4> QED BY <2>4, <3>2, <4>1
    <3> QED BY <3>1, <3>4, <3>5 DEF IInv, Prefix
  <2>13. Stored'
    <3> SUFFICES ASSUME NEW k \in DOMAIN queue_results'
                 PROVE  LET y == queue_results'[k] IN
                          /\ pc[Owner[y.id]] \in Open \cup {"cancel"}
                          /\ Len(got[y.id]) <= y.n /\ y.n < Len(emitted'[y.id])
                          /\ y = emitted'[y.id][y.n + 1]
      BY DEF Stored
    <3>1. CASE k \in 1..Len(q)
      <4> DEFINE y == q[k]
      <4>1. /\ pc[Owner[y.id]] \in Open \cup {"cancel"} /\ y.id \in Ids /\ y.n \in Nat
            /\ Len(got[y.id]) <= y.n /\ y.n < Len(emitted[y.id])
            /\ y = emitted[y.id][y.n + 1] /\ queue_results'[k] = y
        BY <2>2, <2>3, <3>1 DEF IInv, Results, Stored
      <4> HIDE DEF y
      <4>2. CASE y.id = i
        <5>1. y.n + 1 \in 1..Len(emitted[i])
          BY <1>b, <4>1, <4>2
        <5>2. emitted'[i][y.n + 1] = emitted[i][y.n + 1] /\ y.n < Len(emitted'[i])
          BY <1>b, <2>4, <4>1, <4>2, <5>1
        <5> QED BY <4>1, <4>2, <5>2
      <4>3. CASE y.id # i
        BY <2>4, <4>1, <4>3
      <4> QED BY <4>2, <4>3
    <3>2. CASE k = Len(q) + 1
      <4>1. Len(got[i]) <= Len(emitted[i])
        BY DEF IInv, Prefix
      <4> QED BY <1>b, <2>3, <2>4, <2>5, <2>6, <3>2, <4>1, SMTT(30)
    <3> QED BY <2>2, <2>3, <3>1, <3>2
  <2>14. Ordered'
    <3> SUFFICES ASSUME NEW a \in DOMAIN queue_results', NEW b \in DOMAIN queue_results',
                        queue_results'[a].id = queue_results'[b].id, a < b
                 PROVE  queue_results'[a].n < queue_results'[b].n
      BY DEF Ordered
    <3>1. a \in 1..Len(q) /\ queue_results'[a] = q[a]
      BY <2>2, <2>3
    <3>2. CASE b \in 1..Len(q)
      BY <2>2, <2>3, <3>1, <3>2 DEF IInv, Results, Ordered
    <3>3. CASE b = Len(q) + 1
      <4>1. queue_results'[b].n = Len(emitted[i]) /\ q[a].id = i
        BY <2>3, <2>5, <3>1, <3>3
      <4>2. q[a].n < Len(emitted[i])
        BY <2>2, <3>1, <4>1 DEF IInv, Results, Stored
      <4> QED BY <3>1, <4>1, <4>2
    <3> QED BY <2>2, <2>3, <3>2, <3>3
  <2>15. Present'
    <3> SUFFICES ASSUME NEW l \in Ids, pc[Owner[l]] \in Open,
                        NEW n \in Len(got[l])..(Len(emitted'[l]) - 1)
                 PROVE  \E m \in DOMAIN queue_results' :
                           queue_results'[m].id = l /\ queue_results'[m].n = n
      BY DEF Present
    <3>1. CASE l = i /\ n = Len(emitted[i])
      BY <2>2, <2>3, <2>5, <3>1
    <3>2. CASE l # i \/ n # Len(emitted[i])
      <4>1. n \in Len(got[l])..(Len(emitted[l]) - 1)
        BY <1>b, <2>4, <3>2
      <4>2. PICK j \in DOMAIN q : q[j].id = l /\ q[j].n = n
        BY <4>1 DEF IInv, Results, Present
      <4> QED BY <2>2, <2>3, <4>2
    <3> QED BY <3>1, <3>2
  <2> QED BY <2>3, <2>4, <2>7, <2>8, <2>9, <2>11, <2>12, <2>13, <2>14, <2>15 DEF Results
<1> QED BY <1>1, <1>2

LEMMA AnswerStep ==
  ASSUME IInv, AnswerAtOnce
  PROVE  IInv'
<1> USE ReaderAssumption DEF ReaderAssumption
<1> DEFINE p == popped
<1>1. /\ p # NoTask /\ popped' = NoTask
      /\ stranded' = (stranded \/ /\ generating = {} /\ queue_tasks_deferred # <<>>
                                  /\ ~HasTask(queue_tasks))
      /\ UNCHANGED <<waiting_task_ids, queue_tasks, queue_tasks_deferred, generating, slipped, pc,
                     received_count, cancelled, gone, got>>
  BY DEF AnswerAtOnce, rdv
<1>2. PICK kind \in {"final", "error"} : Send(p, kind)
  BY DEF AnswerAtOnce
<1>3. p \in Ids /\ Held(p) /\ Idle(p) /\ ~Queued(p) /\ ~Deferred(p) /\ kind \in Kinds
  BY <1>1, QueueTypes DEF IInv, Tasks, HeldOnce, Held, Kinds
<1>4. /\ queue_results' \in Seq(Result) /\ cv' \in SUBSET cv
      /\ \A j \in Ids : j # p => emitted'[j] = emitted[j]
      /\ Histories' /\ Waiting' /\ Stamped' /\ Prefix' /\ Results' /\ Counted' /\ Control'
  <2>1. \A k \in DOMAIN emitted[p] : emitted[p][k].kind = "partial"
    BY <1>3 DEF Idle
  <2>2. generating' \in SUBSET generating /\ p \notin generating'
    BY <1>1, <1>3 DEF Idle
  <2> HIDE DEF p
  <2> QED BY <1>1, <1>2, <1>3, <2>1, <2>2, SendKeeps
<1>5. TypeOK'
  <2>1. stranded' \in BOOLEAN
    BY <1>1 DEF IInv, TypeOK
  <2> QED BY <1>1, <1>4, <2>1 DEF IInv, TypeOK, Result
<1>6. \A i \in Ids : /\ Queued(i)' <=> Queued(i)
                     /\ Deferred(i)' <=> Deferred(i)
                     /\ Held(i)' <=> Held(i) /\ i # p
                     /\ i # p => (Idle(i)' <=> Idle(i))
  BY <1>1, <1>3, <1>4 DEF Queued, Deferred, Held, Idle
<1>7. Fresh'
  BY <1>1, <1>3, <1>6 DEF IInv, Tasks, Fresh
<1>8. HeldOnce'
  BY <1>1, <1>6 DEF IInv, Tasks, HeldOnce
<1>9. CancelComes'
  BY <1>1, <1>6 DEF IInv, Tasks, CancelComes
<1> QED BY <1>4, <1>5, <1>7, <1>8, <1>9 DEF IInv, Tasks

LEMMA GenerateStep ==
  ASSUME IInv, NEW i \in Ids, NEW kind \in Kinds, Generate(i, kind)
  PROVE  IInv'
<1> USE ReaderAssumption DEF ReaderAssumption
<1>1. /\ i \in generating /\ popped = NoTask /\ Send(i, kind)
      /\ UNCHANGED <<waiting_task_ids, popped, stranded, slipped, pc, received_count, cancelled,
                     gone, got>>
  BY DEF Generate, rdv
<1>2. \/ kind = "partial" /\ UNCHANGED <<queue_tasks, queue_tasks_deferred, generating>>
      \/ kind # "partial" /\ Release(i, queue_tasks)
  BY DEF Generate
<1>3. /\ generating' \in SUBSET generating
      /\ kind # "partial" => i \notin generating'
      /\ \A k \in DOMAIN emitted[i] : emitted[i][k].kind = "partial"
  BY <1>1, <1>2 DEF Release, IInv, Stamped
<1>4. /\ queue_results' \in Seq(Result) /\ cv' \in SUBSET cv
      /\ \A j \in Ids : j # i => emitted'[j] = emitted[j]
      /\ Histories' /\ Waiting' /\ Stamped' /\ Prefix' /\ Results' /\ Counted' /\ Control'
  BY <1>1, <1>3, SendKeeps
<1>5. /\ Tasks'
      /\ queue_tasks' \in Seq(Task) /\ queue_tasks_deferred' \in Seq(Ids)
  <2>1. CASE kind = "partial"
    <3>1. UNCHANGED <<queue_tasks, queue_tasks_deferred, generating, popped, slipped, pc>>
      BY <1>1, <1>2, <2>1
    <3>2. \A j \in Ids : /\ Queued(j)' <=> Queued(j)
                         /\ Deferred(j)' <=> Deferred(j)
                         /\ Held(j)' <=> Held(j)
                         /\ Idle(j) => Idle(j)'
      BY <1>1, <1>4, <3>1 DEF Queued, Deferred, Held, Idle
    <3>3. Fresh'
      BY <3>1, <3>2 DEF IInv, Tasks, Fresh
    <3>4. HeldOnce'
      BY <3>1, <3>2 DEF IInv, Tasks, HeldOnce
    <3>5. CancelComes'
      BY <3>1, <3>2 DEF IInv, Tasks, CancelComes
    <3> QED BY <3>1, <3>3, <3>4, <3>5, QueueTypes DEF IInv, Tasks
  <2>2. CASE kind # "partial"
    <3>1. Release(i, queue_tasks) /\ queue_tasks \in Seq(Task)
      BY <1>2, <2>2, QueueTypes DEF IInv
    <3>2. \A j : Contains(queue_tasks, Entry("task", j)) <=> Queued(j)
      BY DEF Queued
    <3> QED BY <1>1, <1>4, <3>1, <3>2, ReleaseIs
  <2> QED BY <2>1, <2>2
<1>6. TypeOK'
  BY <1>1, <1>3, <1>4, <1>5 DEF IInv, TypeOK, Result, Task
<1> QED BY <1>4, <1>5, <1>6 DEF IInv

LEMMA IInvStep == IInv /\ [Next]_vars => IInv'
<1> SUFFICES ASSUME IInv, [Next]_vars PROVE IInv'
  OBVIOUS
<1>1. ASSUME NEW r \in Readers, ReaderNext(r) \/ Disconnect(r)
      PROVE  IInv'
  BY <1>1, QuietSteps, AddWaitingStep, PostTasksStep, ReceiveStep, StopWaitingStep,
     DropResultsStep, PostCancelStep DEF ReaderNext
<1>2. ASSUME NEW i \in Ids, NEW kind \in Kinds, Generate(i, kind)
      PROVE  IInv'
  BY <1>2, GenerateStep
<1>3. CASE QueueNext
  BY <1>3, PopTaskStep, ProcessCancelStep, LaunchStep, DeferStep, AnswerStep
     DEF QueueNext, ProcessTask
<1>4. CASE UNCHANGED vars
  <2>1. UNCHANGED <<waiting_task_ids, queue_results, cv, main, pc, received_count, cancelled,
                    gone, emitted, got>>
    BY <1>4 DEF vars, resp, rdv, hist
  <2>2. TypeOK' /\ Stamped'
    BY <2>1 DEF IInv, TypeOK, Stamped, main
  <2>3. Tasks'
    BY <2>1, TasksKept
  <2> QED BY <2>1, <2>2, <2>3, Untouched DEF IInv
<1> QED BY <1>1, <1>2, <1>3, <1>4 DEF Next

LEMMA Invariance == Spec => []IInv
BY InitIInv, IInvStep, PTL DEF Spec
-----------------------------------------------------------------------------
(* What queue_results holds for a waiting task is all that is missing.     *)

\* f counts the numbers of T upwards, from f[1] to f[a].
Enumerates(f, a, T) ==
    /\ f \in [1..a -> T]
    /\ \A x \in T : \E j \in 1..a : f[j] = x
    /\ \A j, k \in 1..a : j < k => f[j] < f[k]

LEMMA SameSize ==
  ASSUME NEW a \in Nat, NEW b \in Nat, NEW lo \in Int, NEW f,
         Enumerates(f, a, lo..(lo + b - 1))
  PROVE  a = b
<1> USE DEF Enumerates
<1>1. IsFiniteSet(1..a) /\ Cardinality(1..a) = a /\ Cardinality(lo..(lo + b - 1)) = b
  <2>1. 1 \in Int /\ a \in Int /\ lo + b - 1 \in Int
    OBVIOUS
  <2> QED BY <2>1, FS_Interval
<1>2. f \in Surjection(1..a, lo..(lo + b - 1))
  BY DEF Surjection
<1>3. f \in Injection(1..a, lo..(lo + b - 1))
  <2> SUFFICES ASSUME NEW j \in 1..a, NEW k \in 1..a, f[j] = f[k]
               PROVE  j = k
    BY DEF Injection, IsInjective
  <2>1. f[j] \in Int /\ f[k] \in Int
    OBVIOUS
  <2>2. ~(j < k) /\ ~(k < j)
    BY <2>1
  <2> QED BY <2>2
<1> QED BY <1>1, <1>2, <1>3, FS_Surjection

LEMMA IncreasingOnto ==
  ASSUME NEW c \in Nat, NEW m \in Nat, NEW n \in Nat, m <= n,
         NEW g, Enumerates(g, c, m..(n - 1))
  PROVE  c = n - m /\ \A k \in 1..c : g[k] = m + k - 1
<1>0. /\ g \in [1..c -> m..(n - 1)]
      /\ \A x \in m..(n - 1) : \E j \in 1..c : g[j] = x
      /\ \A j, k \in 1..c : j < k => g[j] < g[k]
  BY DEF Enumerates
<1>1. c = n - m
  <2> DEFINE b == n - m
  <2>1. b \in Nat /\ m + b - 1 = n - 1 /\ m \in Int
    OBVIOUS
  <2> HIDE DEF b
  <2>2. Enumerates(g, c, m..(m + b - 1))
    BY <2>1
  <2>3. c = b
    BY <2>1, <2>2, SameSize
  <2> QED BY <2>3 DEF b
<1>2. ASSUME NEW k \in 1..c PROVE g[k] = m + k - 1
  <2> DEFINE h == [j \in 1..k |-> g[j]]
             b == g[k] - m + 1
  <2>1. k \in Nat /\ g[k] \in m..(n - 1) /\ b \in Nat /\ m + b - 1 = g[k]
    BY <1>0
  <2>2. \A j \in 1..k : j \in 1..c /\ g[j] \in m..(n - 1)
    BY <1>0
  <2>3. \A j \in 1..k : g[j] <= g[k]
    <3> TAKE j \in 1..k
    <3>1. CASE j = k
      BY <2>1, <3>1
    <3>2. CASE j # k
      <4>1. j < k /\ j \in 1..c
        BY <2>1, <3>2
      <4>2. g[j] < g[k] /\ g[j] \in Int /\ g[k] \in Int
        BY <1>0, <4>1
      <4> QED BY <4>2
    <3> QED BY <3>1, <3>2
  <2>4. h \in [1..k -> m..(m + b - 1)]
    BY <2>1, <2>2, <2>3
  <2>5. ASSUME NEW x \in m..(m + b - 1) PROVE \E j \in 1..k : h[j] = x
    <3>1. x \in m..(n - 1) /\ x <= g[k]
      BY <2>1
    <3>2. PICK j \in 1..c : g[j] = x
      BY <1>0, <3>1
    <3>3. ~(k < j)
      BY <1>0, <2>1, <3>1, <3>2
    <3>4. j \in 1..k
      BY <3>3
    <3> QED BY <3>2, <3>4
  <2>6. \A i, j \in 1..k : i < j => h[i] < h[j]
    BY <1>0, <2>2
  <2>7. m \in Int
    OBVIOUS
  <2> HIDE DEF h, b
  <2>8. Enumerates(h, k, m..(m + b - 1))
    BY <2>4, <2>5, <2>6 DEF Enumerates
  <2>9. k = b
    BY <2>1, <2>7, <2>8, SameSize
  <2> QED BY <2>1, <2>9
<1> QED BY <1>1, <1>2

LEMMA PendingIsRest ==
  ASSUME IInv, NEW i \in Ids, pc[Owner[i]] \in Open
  PROVE  /\ Pending(i) \in Seq(Result) /\ Len(Pending(i)) = Len(emitted[i]) - Len(got[i])
         /\ \A k \in 1..Len(Pending(i)) : Pending(i)[k] = emitted[i][Len(got[i]) + k]
<1> DEFINE q == queue_results
           keep == {k \in DOMAIN q : q[k].id = i}
           P == Pending(i)
           m == Len(got[i])
           n == Len(emitted[i])
<1>1. q \in Seq(Result) /\ \A k \in DOMAIN q : q[k] \in Result /\ q[k].n \in Nat
  BY ResultIds DEF IInv
<1>2. m \in Nat /\ n \in Nat /\ m <= n
  BY DEF IInv, Histories, Prefix
<1>3. P \in Seq(Result) /\ Through(P, q, keep)
  <2>1. keep \in SUBSET DOMAIN q
    OBVIOUS
  <2>2. P = Kept(q, keep)
    BY DEF Pending
  <2> HIDE DEF keep, P
  <2> QED BY <1>1, <2>1, <2>2, KeptIs
<1> HIDE DEF P
<1>4. PICK f \in [DOMAIN P -> keep] :
        /\ \A k \in DOMAIN P : P[k] = q[f[k]]
        /\ \A j, k \in DOMAIN P : j < k => f[j] < f[k]
        /\ \A j \in keep : \E k \in DOMAIN P : f[k] = j
  BY <1>3 DEF Through
<1>5. Len(P) \in Nat /\ DOMAIN P = 1..Len(P)
  BY <1>3
<1> DEFINE g == [k \in 1..Len(P) |-> q[f[k]].n]
<1>6. \A k \in 1..Len(P) : f[k] \in DOMAIN q /\ q[f[k]].id = i /\ P[k] = q[f[k]]
  BY <1>4, <1>5
<1>7. \A k \in 1..Len(P) : /\ q[f[k]].n \in m..(n - 1)
                            /\ q[f[k]] = emitted[i][q[f[k]].n + 1]
  <2> TAKE k \in 1..Len(P)
  <2>1. /\ m <= q[f[k]].n /\ q[f[k]].n < n /\ q[f[k]].n \in Nat
        /\ q[f[k]] = emitted[i][q[f[k]].n + 1]
    BY <1>1, <1>6 DEF IInv, Results, Stored
  <2> QED BY <1>2, <2>1
<1>8. ASSUME NEW x \in m..(n - 1) PROVE \E k \in 1..Len(P) : g[k] = x
  <2>1. PICK j \in DOMAIN q : q[j].id = i /\ q[j].n = x
    BY DEF IInv, Results, Present
  <2>2. j \in keep
    BY <2>1
  <2>3. PICK k \in 1..Len(P) : f[k] = j
    BY <1>4, <1>5, <2>2
  <2> QED BY <2>1, <2>3
<1>9. ASSUME NEW j \in 1..Len(P), NEW k \in 1..Len(P), j < k
      PROVE  g[j] < g[k]
  <2>1. f[j] < f[k]
    BY <1>4, <1>5, <1>9
  <2> QED BY <1>6, <2>1 DEF IInv, Results, Ordered
<1>10. g \in [1..Len(P) -> m..(n - 1)]
  BY <1>7
<1>11. Len(P) = n - m /\ \A k \in 1..Len(P) : g[k] = m + k - 1
  <2> HIDE DEF g, m, n
  <2>1. Enumerates(g, Len(P), m..(n - 1))
    BY <1>8, <1>9, <1>10 DEF Enumerates
  <2>2. \A c \in Nat : Enumerates(g, c, m..(n - 1)) =>
                           c = n - m /\ \A k \in 1..c : g[k] = m + k - 1
    BY <1>2, IncreasingOnto
  <2> QED BY <1>5, <2>1, <2>2
<1>12. ASSUME NEW k \in 1..Len(P) PROVE P[k] = emitted[i][m + k]
  <2>1. q[f[k]].n = m + k - 1
    BY <1>11
  <2>2. q[f[k]].n + 1 = m + k
    BY <1>2, <2>1
  <2> QED BY <1>6, <1>7, <2>2
<1> QED BY <1>3, <1>11, <1>12 DEF P

LEMMA InvNothingLost == IInv => NothingLost
<1> SUFFICES ASSUME IInv, NEW i \in waiting_task_ids
             PROVE  emitted[i] = got[i] \o Pending(i)
  BY DEF NothingLost
<1>1. i \in Ids /\ pc[Owner[i]] \in Open
  BY DEF IInv, TypeOK, Waiting
<1> DEFINE g == got[i]  e == emitted[i]  P == Pending(i)
<1>2. P \in Seq(Result) /\ Len(P) = Len(e) - Len(g) /\ \A k \in 1..Len(P) : P[k] = e[Len(g) + k]
  BY <1>1, PendingIsRest
<1>3. g \in Seq(Result) /\ e \in Seq(Result) /\ Len(g) <= Len(e)
      /\ \A k \in DOMAIN g : g[k] = e[k]
  BY <1>1 DEF IInv, Histories, Prefix
<1> HIDE DEF g, e, P
<1>4. Len(g) \in Nat /\ Len(e) \in Nat /\ Len(P) \in Nat /\ DOMAIN g = 1..Len(g)
  BY <1>2, <1>3
<1>5. g \o P \in Seq(Result) /\ Len(g \o P) = Len(e)
  BY <1>2, <1>3, <1>4
<1>6. ASSUME NEW k \in 1..Len(e) PROVE (g \o P)[k] = e[k]
  <2>1. CASE k <= Len(g)
    BY <1>2, <1>3, <1>4, <2>1
  <2>2. CASE ~(k <= Len(g))
    <3>1. k - Len(g) \in 1..Len(P) /\ Len(g) + (k - Len(g)) = k
      BY <1>2, <1>4, <2>2
    <3>2. (g \o P)[k] = P[k - Len(g)]
      BY <1>2, <1>3, <1>4, <2>2
    <3>3. P[k - Len(g)] = e[Len(g) + (k - Len(g))]
      BY <1>2, <3>1
    <3> QED BY <3>1, <3>2, <3>3
  <2> QED BY <2>1, <2>2
<1>7. e = g \o P
  <2> DEFINE s == g \o P
  <2>1. s \in Seq(Result) /\ Len(s) = Len(e) /\ \A k \in 1..Len(e) : s[k] = e[k]
    BY <1>5, <1>6
  <2> HIDE DEF s
  <2>2. s = e
    BY <1>3, <2>1, SeqEqual
  <2> QED BY <2>2 DEF s
<1> QED BY <1>7 DEF g, e, P

LEMMA InvClosed == IInv => ClosedLeavesNothing
<1> SUFFICES ASSUME IInv, NEW r \in Readers, pc[r] = "closed"
             PROVE  /\ waiting_task_ids \cap id_tasks(r) = {}
                    /\ \A i \in id_tasks(r) : Pending(i) = <<>>
  BY DEF ClosedLeavesNothing
<1>1. waiting_task_ids \cap id_tasks(r) = {}
  BY DEF IInv, Waiting, TypeOK, Open, id_tasks
<1>2. ASSUME NEW i \in id_tasks(r) PROVE Pending(i) = <<>>
  <2> DEFINE keep == {k \in DOMAIN queue_results : queue_results[k].id = i}
  <2>1. i \in Ids /\ Owner[i] = r
    BY DEF id_tasks
  <2>2. keep = {}
    BY <2>1 DEF IInv, Results, Stored, Open
  <2>3. Cardinality(keep) = 0
    BY <2>2, FS_EmptySet
  <2> HIDE DEF keep
  <2>4. Pending(i) = Kept(queue_results, keep)
    BY DEF Pending, keep
  <2> QED BY <2>3, <2>4 DEF Kept
<1> QED BY <1>1, <1>2

LEMMA InvCancel == IInv => CancelOnItsWay
BY DEF IInv, Tasks, CancelComes, CancelOnItsWay, Alive, Queued, Deferred

\* The shared queues keep their types.
THEOREM TypeCorrect == Spec => []TypeOK
<1>1. IInv => TypeOK
  BY DEF IInv
<1> QED BY <1>1, Invariance, PTL

\* Nothing a task sends to a waiting reader is lost, duplicated or reordered
\* in the shared vector of server_response, however many readers and tasks
\* use it and however often they time out.
THEOREM NothingIsLost == Spec => []NothingLost
BY Invariance, InvNothingLost, PTL

\* stop() leaves no waiting id and no result behind, on every path to it.
THEOREM ClosedReaderIsGone == Spec => []ClosedLeavesNothing
BY Invariance, InvClosed, PTL
\* stop() misses no task, wherever it is: the CANCEL of one that outlives its
\* reader is still in the queue.  The one exception is a task that was in the
\* hands of the main thread when its CANCEL was posted, and was then deferred.
THEOREM CancelIsOnItsWay == Spec => []CancelOnItsWay
BY Invariance, InvCancel, PTL
-----------------------------------------------------------------------------
(* The refinement: outcomes change only in stop(), histories only in send() *)
(* and in next().                                                          *)

outcome == [r \in Readers |-> Outcome(r)]

LEMMA InitMaps == Init => Lifecycle!Init
BY DEF Init, Lifecycle!Init, Outcome

\* A step that moves one reader inside stop(), or none at all, ends nothing.
LEMMA SameOutcome ==
  ASSUME NEW r \in Readers, got' = got, cancelled' = cancelled,
         pc \in [Readers -> Steps], NEW s, pc' = [pc EXCEPT ![r] = s],
         s \in {"cancel", "post_cancel", "closed"}
           <=> pc[r] \in {"cancel", "post_cancel", "closed"}
  PROVE  outcome' = outcome
<1>1. ASSUME NEW q \in Readers PROVE Outcome(q)' = Outcome(q)
  <2>1. Failed(q)' <=> Failed(q)
    BY DEF Failed, id_tasks
  <2>2. pc'[q] \in {"cancel", "post_cancel", "closed"}
          <=> pc[q] \in {"cancel", "post_cancel", "closed"}
    OBVIOUS
  <2> QED BY <2>1, <2>2 DEF Outcome
<1> QED BY <1>1 DEF outcome

LEMMA ReceiveDelivers ==
  ASSUME IInv, NEW r \in Readers, Receive(r)
  PROVE  Lifecycle!Next
<1>1. PICK k \in DOMAIN queue_results : LET x == queue_results[k] IN
        /\ pc[r] = "recv" /\ x \in Result /\ x.id \in Ids /\ Owner[x.id] = r
        /\ x.n = Len(got[x.id]) /\ x.n < Len(emitted[x.id]) /\ x = emitted[x.id][x.n + 1]
        /\ got' = [got EXCEPT ![x.id] = Append(@, x)]
        /\ pc' = [pc EXCEPT ![r] = IF x.kind = "error" THEN "stop" ELSE "next"]
        /\ UNCHANGED <<cancelled, gone, emitted>>
  BY ReceiveTakes
<1> DEFINE x == queue_results[k]  i == x.id
<1>2. i \in Ids /\ Owner[i] = r /\ pc[r] = "recv"
  BY <1>1
<1>3. outcome' = outcome
  <2> SUFFICES ASSUME NEW q \in Readers PROVE Outcome(q)' = Outcome(q)
    BY DEF outcome
  <2>1. CASE q = r
    <3>1. pc'[r] \in {"stop", "next"}
      BY <1>1 DEF IInv, TypeOK
    <3> QED BY <1>2, <2>1, <3>1 DEF Outcome
  <2>2. CASE q # r
    <3>1. pc'[q] = pc[q] /\ cancelled' = cancelled
      BY <1>1, <2>2 DEF IInv, TypeOK
    <3>2. \A j \in id_tasks(q) : got'[j] = got[j]
      BY <1>1, <2>2 DEF IInv, Histories, id_tasks
    <3>3. Failed(q)' <=> Failed(q)
      BY <3>2 DEF Failed, id_tasks
    <3> QED BY <3>1, <3>3 DEF Outcome
  <2> QED BY <2>1, <2>2
<1>4. outcome[r] = "open"
  BY <1>2 DEF outcome, Outcome
<1>5. ~Lifecycle!Broken(r)
  BY <1>2 DEF IInv, Control, Failed, id_tasks, Lifecycle!Broken, Lifecycle!Ended,
              Lifecycle!id_tasks
<1>6. Lifecycle!Deliver(i)
  BY <1>1, <1>2, <1>3, <1>4, <1>5 DEF Lifecycle!Deliver, outcome
<1> QED BY <1>2, <1>6 DEF Lifecycle!Next

\* Only a task that has not ended sends, from a slot or on its way to one.
LEMMA SendProduces ==
  ASSUME IInv, NEW i \in Ids, NEW kind \in Kinds, Send(i, kind),
         \A k \in DOMAIN emitted[i] : emitted[i][k].kind = "partial",
         UNCHANGED <<pc, cancelled, gone, got>>
  PROVE  Lifecycle!Next \/ UNCHANGED Lifecycle!vars
<1>1. outcome' = outcome
  BY DEF outcome, Outcome, Failed, id_tasks
<1>2. CASE i \notin waiting_task_ids
  BY <1>1, <1>2 DEF Send, Lifecycle!vars, outcome
<1>3. CASE i \in waiting_task_ids
  <2>1. emitted' = [emitted EXCEPT ![i] =
                      Append(@, [id |-> i, kind |-> kind, n |-> Len(@)])]
    BY <1>3 DEF Send
  <2>2. Owner[i] \in Readers /\ outcome[Owner[i]] = "open"
    BY <1>3, ReaderAssumption DEF IInv, Waiting, Open, Outcome, outcome, ReaderAssumption
  <2>3. ~Lifecycle!Ended(emitted[i], "final") /\ ~Lifecycle!Ended(emitted[i], "error")
    <3> SUFFICES ASSUME emitted[i] # <<>>
                 PROVE  emitted[i][Len(emitted[i])].kind = "partial"
      BY DEF Lifecycle!Ended
    <3>1. emitted[i] \in Seq(Result)
      BY DEF IInv, Histories
    <3>2. Len(emitted[i]) \in DOMAIN emitted[i]
      BY <3>1
    <3> QED BY <3>2
  <2>4. Lifecycle!Produce(i, kind)
    BY <1>1, <2>1, <2>2, <2>3 DEF Lifecycle!Produce, outcome
  <2> QED BY <2>4 DEF Lifecycle!Next, Kinds
<1> QED BY <1>2, <1>3

LEMMA GenerateProduces ==
  ASSUME IInv, NEW i \in Ids, NEW kind \in Kinds, Generate(i, kind)
  PROVE  Lifecycle!Next \/ UNCHANGED Lifecycle!vars
<1>1. Send(i, kind) /\ UNCHANGED <<pc, cancelled, gone, got>> /\ i \in generating
  BY DEF Generate, rdv
<1>2. \A k \in DOMAIN emitted[i] : emitted[i][k].kind = "partial"
  BY <1>1 DEF IInv, Stamped
<1> QED BY <1>1, <1>2, SendProduces

LEMMA AnswerProduces ==
  ASSUME IInv, AnswerAtOnce
  PROVE  Lifecycle!Next \/ UNCHANGED Lifecycle!vars
<1>1. popped \in Ids /\ emitted[popped] = <<>>
  BY QueueTypes DEF AnswerAtOnce, IInv, Tasks, HeldOnce, Held, Idle
<1>2. PICK kind \in Kinds : Send(popped, kind)
  BY DEF AnswerAtOnce, Kinds
<1>3. UNCHANGED <<pc, cancelled, gone, got>>
  BY DEF AnswerAtOnce, rdv
<1>4. \A k \in DOMAIN emitted[popped] : emitted[popped][k].kind = "partial"
  BY <1>1
<1> QED BY <1>1, <1>2, <1>3, <1>4, SendProduces

LEMMA StopEnds ==
  ASSUME IInv, NEW r \in Readers, StopWaiting(r)
  PROVE  Lifecycle!Next
<1>1. /\ pc[r] = "stop" /\ pc' = [pc EXCEPT ![r] = IF has_next(r) THEN "cancel" ELSE "closed"]
      /\ cancelled' = [cancelled EXCEPT ![r] = @ \/ has_next(r)]
      /\ UNCHANGED <<received_count, gone, emitted, got>>
  BY DEF StopWaiting, Goto, hist
<1>2. ~cancelled[r] /\ pc \in [Readers -> Steps] /\ cancelled \in [Readers -> BOOLEAN]
  BY <1>1 DEF IInv, Control, TypeOK
<1>3. (Failed(r)' <=> Failed(r)) /\ (Lifecycle!Broken(r) <=> Failed(r))
  BY <1>1 DEF Failed, id_tasks, Lifecycle!Broken, Lifecycle!Ended, Lifecycle!id_tasks
<1>4. \A q \in Readers : q # r => Outcome(q)' = Outcome(q)
  BY <1>1, <1>2 DEF Outcome, Failed, id_tasks
<1>5. outcome[r] = "open"
  BY <1>1 DEF outcome, Outcome
<1>6. \A v : Outcome(r)' = v => outcome' = [outcome EXCEPT ![r] = v]
  BY <1>4 DEF outcome
<1>7. ~has_next(r) => Lifecycle!Whole(r)
  BY <1>2, WholeIsDone DEF Finals, Lifecycle!Whole, Lifecycle!Ended, Lifecycle!id_tasks, id_tasks
<1>8. Lifecycle!Whole(r) => ~has_next(r)
  <2> SUFFICES ASSUME Lifecycle!Whole(r) PROVE ~has_next(r)
    OBVIOUS
  <2>1. Finals(r) = id_tasks(r)
    BY DEF Finals, Lifecycle!Whole, Lifecycle!Ended, Lifecycle!id_tasks, id_tasks
  <2>2. received_count[r] = Cardinality(id_tasks(r)) /\ received_count[r] \in Nat
    <3>1. IsFiniteSet(Ids) /\ Cardinality(Ids) \in Nat
      BY ReaderAssumption, FS_CardinalityType DEF ReaderAssumption
    <3> QED BY <2>1, <3>1 DEF IInv, Counted, TypeOK
  <2> QED BY <2>2 DEF has_next
<1>9. CASE ~has_next(r)
  <2>1. Outcome(r)' = "complete"
    BY <1>1, <1>2, <1>9 DEF Outcome
  <2>2. Lifecycle!End(r)
    BY <1>1, <1>5, <1>6, <1>7, <1>9, <2>1 DEF Lifecycle!End, outcome
  <2> QED BY <2>2 DEF Lifecycle!Next
<1>10. CASE has_next(r)
  <2>1. cancelled'[r] /\ pc'[r] = "cancel"
    BY <1>1, <1>2, <1>10
  <2>2. CASE Failed(r)
    <3>1. Outcome(r)' = "failed"
      BY <1>3, <2>1, <2>2 DEF Outcome
    <3>2. Lifecycle!End(r)
      BY <1>1, <1>3, <1>5, <1>6, <2>2, <3>1 DEF Lifecycle!End, outcome
    <3> QED BY <3>2 DEF Lifecycle!Next
  <2>3. CASE ~Failed(r)
    <3>1. Outcome(r)' = "left"
      BY <1>3, <2>1, <2>3 DEF Outcome
    <3>2. r \in gone
      BY <1>1, <1>10, <2>3 DEF IInv, Control
    <3>3. Lifecycle!End(r)
      BY <1>1, <1>3, <1>5, <1>6, <1>8, <1>10, <2>3, <3>1, <3>2 DEF Lifecycle!End, outcome
    <3> QED BY <3>3 DEF Lifecycle!Next
  <2> QED BY <2>2, <2>3
<1> QED BY <1>9, <1>10

LEMMA StepMaps == IInv /\ [Next]_vars => [Lifecycle!Next]_Lifecycle!vars
<1> SUFFICES ASSUME IInv, [Next]_vars
             PROVE  Lifecycle!Next \/ UNCHANGED Lifecycle!vars
  OBVIOUS
<1>0. pc \in [Readers -> Steps]
  BY DEF IInv, TypeOK
<1>1. UNCHANGED <<emitted, got, gone, outcome>> => UNCHANGED Lifecycle!vars
  BY DEF Lifecycle!vars, outcome
<1>2. ASSUME NEW r \in Readers, ReaderNext(r)
      PROVE  Lifecycle!Next \/ UNCHANGED Lifecycle!vars
  <2> DEFINE Moves(s) ==
        /\ pc' = [pc EXCEPT ![r] = s] /\ UNCHANGED <<emitted, got, gone, cancelled>>
        /\ s \in {"cancel", "post_cancel", "closed"}
             <=> pc[r] \in {"cancel", "post_cancel", "closed"}
  <2>1. ASSUME NEW s, Moves(s) PROVE UNCHANGED Lifecycle!vars
    BY <1>0, <1>1, <2>1, SameOutcome
  <2> USE DEF Goto, rdv, hist
  <2>2. CASE AddWaiting(r)
    <3>1. Moves("post")
      BY <2>2 DEF AddWaiting
    <3> QED BY <2>1, <3>1
  <2>3. CASE PostTasks(r)
    <3>1. Moves("next")
      BY <2>3 DEF PostTasks
    <3> QED BY <2>1, <3>1
  <2>4. CASE NextOrLeave(r)
    <3>1. Moves(IF has_next(r) THEN "recv" ELSE "stop")
      BY <2>4 DEF NextOrLeave
    <3> QED BY <2>1, <3>1
  <2>5. CASE Block(r)
    <3>1. Moves("blocked")
      BY <2>5 DEF Block
    <3> QED BY <2>1, <3>1
  <2>6. CASE Woken(r)
    <3>1. Moves("recv")
      BY <2>6 DEF Woken
    <3> QED BY <2>1, <3>1
  <2>7. CASE Timeout(r)
    <3>1. Moves("should_stop")
      BY <2>7 DEF Timeout
    <3> QED BY <2>1, <3>1
  <2>8. CASE ShouldStop(r)
    <3>1. Moves(IF r \in gone THEN "stop" ELSE "recv")
      BY <2>8 DEF ShouldStop
    <3> QED BY <2>1, <3>1
  <2>9. CASE DropResults(r)
    <3>1. Moves("post_cancel")
      BY <2>9 DEF DropResults
    <3> QED BY <2>1, <3>1
  <2>10. CASE PostCancel(r)
    <3>1. Moves("closed")
      BY <2>10 DEF PostCancel, CancelWith
    <3> QED BY <2>1, <3>1
  <2> HIDE DEF Moves
  <2> QED BY <1>2, <2>2, <2>3, <2>4, <2>5, <2>6, <2>7, <2>8, <2>9, <2>10, ReceiveDelivers, StopEnds
          DEF ReaderNext
<1>3. ASSUME NEW r \in Readers, Disconnect(r)
      PROVE  Lifecycle!Next \/ UNCHANGED Lifecycle!vars
  <2>1. gone' = gone \cup {r} /\ UNCHANGED <<emitted, got, pc, cancelled>>
    BY <1>3 DEF Disconnect, hist, rdv
  <2>2. outcome' = outcome
    BY <2>1 DEF outcome, Outcome, Failed, id_tasks
  <2>3. Lifecycle!Disconnect(r)
    BY <2>1, <2>2 DEF Lifecycle!Disconnect, outcome
  <2> QED BY <2>3 DEF Lifecycle!Next
<1>4. ASSUME UNCHANGED <<emitted, got, gone, pc, cancelled>>
      PROVE  UNCHANGED Lifecycle!vars
  <2>1. outcome' = outcome
    BY <1>4 DEF outcome, Outcome, Failed, id_tasks
  <2> QED BY <1>1, <1>4, <2>1
<1>5. CASE PopTask \/ ProcessCancel \/ Launch \/ Defer
  BY <1>4, <1>5 DEF PopTask, ProcessCancel, Launch, Defer, rdv, hist
<1>6. CASE QueueNext
  BY <1>5, <1>6, AnswerProduces DEF QueueNext, ProcessTask
<1>7. CASE UNCHANGED vars
  BY <1>4, <1>7 DEF vars, rdv, hist
<1> QED BY <1>2, <1>3, <1>6, <1>7, GenerateProduces DEF Next

\* Every execution of the readers, the main thread and their shared queues is
\* one of RequestLifecycle: results come in order and whole, nothing follows an
\* error, a request is complete only with the final result of every task, and
\* is given up only for a client that has left.
THEOREM ReaderKeepsPromise == Spec => KeepsPromise
<1>1. IInv /\ [Next]_vars => [Lifecycle!Next]_Lifecycle!vars
  BY StepMaps
<1> QED BY <1>1, InitMaps, Invariance, PTL DEF Spec, KeepsPromise, Lifecycle!Spec
=============================================================================
