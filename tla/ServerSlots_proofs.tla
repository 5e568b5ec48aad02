------------------------- MODULE ServerSlots_proofs -------------------------
(***************************************************************************)
(* Theorems about the scheduler, for any number of slots, any requests and *)
(* any cancellations and failures.                                         *)
(*                                                                         *)
(* A working slot keeps the prompt of its task as long as the prompt cache *)
(* cannot touch a slot requested by id (KeepsOwnPrompt), and no deferred   *)
(* task is left behind as long as every task that leaves the queue takes   *)
(* a slot (NoTaskLeftBehind).  A task is in one place and is answered once *)
(* (OnePlace, OneResult), and a child slot that waits has a parent or a    *)
(* CANCEL (NoOrphan).                                                      *)
(***************************************************************************)
EXTENDS ServerSlots, TLAPS, FiniteSetTheorems, SequenceTheorems, WellFoundedInduction

-----------------------------------------------------------------------------
(* What the queues hold, and what Kept, RemoveAt, Append, Tail and \o do    *)
(* to it, for any sequence.                                                *)

Has(s, e)    == \E k \in DOMAIN s : s[k] = e
Single(s, e) == \A j, k \in DOMAIN s : s[j] = e /\ s[k] = e => j = k

LEMMA EmptyHas == \A e : ~Has(<<>>, e) /\ Single(<<>>, e)
BY DEF Has, Single

LEMMA AppendHas ==
  ASSUME NEW S, NEW s \in Seq(S), NEW e \in S, NEW x
  PROVE  /\ Has(Append(s, e), x) <=> Has(s, x) \/ x = e
         /\ Single(s, x) /\ (x = e => ~Has(s, x)) => Single(Append(s, e), x)
<1> DEFINE a == Append(s, e)  n == Len(s)
<1>1. /\ n \in Nat /\ DOMAIN s = 1..n /\ DOMAIN a = 1..(n + 1)
      /\ \A k \in 1..n : a[k] = s[k]
      /\ a[n + 1] = e
  BY AppendProperties, LenProperties
<1> HIDE DEF a, n
<1>2. \A k \in DOMAIN a : k \in DOMAIN s \/ k = n + 1
  BY <1>1
<1>3. \A k \in DOMAIN s : k \in DOMAIN a /\ k # n + 1
  BY <1>1
<1> QED BY <1>1, <1>2, <1>3 DEF Has, Single, a

LEMMA ConcatHas ==
  ASSUME NEW S, NEW s \in Seq(S), NEW t \in Seq(S), NEW x
  PROVE  /\ Has(s \o t, x) <=> Has(s, x) \/ Has(t, x)
         /\ Single(s, x) /\ Single(t, x) /\ ~(Has(s, x) /\ Has(t, x)) => Single(s \o t, x)
<1> DEFINE a == s \o t  n == Len(s)  m == Len(t)
<1>1. /\ n \in Nat /\ m \in Nat /\ DOMAIN s = 1..n /\ DOMAIN t = 1..m /\ DOMAIN a = 1..(n + m)
      /\ \A k \in 1..(n + m) : a[k] = IF k <= n THEN s[k] ELSE t[k - n]
  BY ConcatProperties, LenProperties
<1> HIDE DEF a, n, m
<1>2. \A k \in DOMAIN a : \/ k \in DOMAIN s /\ a[k] = s[k]
                          \/ k - n \in DOMAIN t /\ a[k] = t[k - n]
  BY <1>1
<1>3. \A k \in DOMAIN s : k \in DOMAIN a /\ a[k] = s[k]
  BY <1>1
<1>4. \A k \in DOMAIN t : k + n \in DOMAIN a /\ a[k + n] = t[k]
  <2> TAKE k \in DOMAIN t
  <2>1. k + n \in 1..(n + m) /\ ~(k + n <= n) /\ (k + n) - n = k
    BY <1>1
  <2> QED BY <1>1, <2>1
<1>5. Has(a, x) <=> Has(s, x) \/ Has(t, x)
  BY <1>2, <1>3, <1>4 DEF Has
<1>6. ASSUME Single(s, x), Single(t, x), ~(Has(s, x) /\ Has(t, x)),
             NEW j \in DOMAIN a, NEW k \in DOMAIN a, a[j] = x, a[k] = x
      PROVE  j = k
  <2>1. CASE Has(s, x)
    <3>1. j \in DOMAIN s /\ k \in DOMAIN s /\ s[j] = x /\ s[k] = x
      BY <1>2, <1>6, <2>1 DEF Has
    <3> QED BY <1>6, <3>1 DEF Single
  <2>2. CASE ~Has(s, x)
    <3>1. j - n \in DOMAIN t /\ k - n \in DOMAIN t /\ t[j - n] = x /\ t[k - n] = x
      BY <1>2, <1>6, <2>2 DEF Has
    <3>2. j - n = k - n
      BY <1>6, <3>1 DEF Single
    <3> QED BY <1>1, <1>6, <3>2
  <2> QED BY <2>1, <2>2
<1>7. Single(s, x) /\ Single(t, x) /\ ~(Has(s, x) /\ Has(t, x)) => Single(a, x)
  BY <1>6 DEF Single
<1> QED BY <1>5, <1>7 DEF a

LEMMA TailHas ==
  ASSUME NEW S, NEW s \in Seq(S), s # <<>>, NEW x
  PROVE  /\ Has(s, x) <=> x = Head(s) \/ Has(Tail(s), x)
         /\ Single(s, x) => Single(Tail(s), x)
         /\ Single(s, x) /\ x = Head(s) => ~Has(Tail(s), x)
<1> DEFINE t == Tail(s)  n == Len(s)
<1>1. /\ n \in Nat /\ n # 0 /\ DOMAIN s = 1..n /\ DOMAIN t = 1..(n - 1)
      /\ \A k \in 1..(n - 1) : t[k] = s[k + 1]
      /\ s[1] = Head(s)
  BY HeadTailProperties, LenProperties, EmptySeq
<1> HIDE DEF t, n
<1>2. \A k \in DOMAIN t : k + 1 \in DOMAIN s /\ t[k] = s[k + 1] /\ k + 1 # 1
  BY <1>1
<1>3. \A k \in DOMAIN s : k = 1 \/ (k - 1 \in DOMAIN t /\ t[k - 1] = s[k])
  <2> SUFFICES ASSUME NEW k \in DOMAIN s, k # 1
               PROVE  k - 1 \in DOMAIN t /\ t[k - 1] = s[k]
    OBVIOUS
  <2>1. k - 1 \in 1..(n - 1) /\ (k - 1) + 1 = k
    BY <1>1
  <2> QED BY <1>1, <2>1
<1>4. 1 \in DOMAIN s
  BY <1>1
<1>5. Has(s, x) <=> x = Head(s) \/ Has(t, x)
  <2>1. ASSUME Has(s, x) PROVE x = Head(s) \/ Has(t, x)
    <3>1. PICK k \in DOMAIN s : s[k] = x
      BY <2>1 DEF Has
    <3>2. CASE k = 1
      BY <1>1, <3>1, <3>2
    <3>3. CASE k # 1
      <4>1. k - 1 \in DOMAIN t /\ t[k - 1] = x
        BY <1>3, <3>1, <3>3
      <4> QED BY <4>1 DEF Has
    <3> QED BY <3>2, <3>3
  <2>2. x = Head(s) => Has(s, x)
    BY <1>1, <1>4 DEF Has
  <2>3. Has(t, x) => Has(s, x)
    BY <1>2 DEF Has
  <2> QED BY <2>1, <2>2, <2>3
<1>6. ASSUME Single(s, x) PROVE Single(t, x)
  <2> SUFFICES ASSUME NEW j \in DOMAIN t, NEW k \in DOMAIN t, t[j] = x, t[k] = x
               PROVE  j = k
    BY DEF Single
  <2>1. j + 1 = k + 1
    BY <1>2, <1>6 DEF Single
  <2> QED BY <1>1, <2>1
<1>7. Single(s, x) /\ x = Head(s) => ~Has(t, x)
  BY <1>1, <1>2, <1>4 DEF Has, Single
<1> QED BY <1>5, <1>6, <1>7 DEF t

\* Every position of the result comes from one of the positions kept.
LEMMA KeptRank ==
  ASSUME NEW n \in Nat, NEW keep \in SUBSET (1..n), NEW k \in 1..Cardinality(keep)
  PROVE  \E j \in keep : Cardinality({l \in keep : l <= j}) = k
<1> DEFINE below(j) == {l \in keep : l <= j}
           f == [j \in keep |-> Cardinality(below(j))]
           c == Cardinality(keep)
<1>0. n \in Int /\ 1 \in Int /\ IsFiniteSet(1..n)
  BY FS_Interval
<1>1. IsFiniteSet(keep) /\ c \in Nat
  BY <1>0, FS_Subset, FS_CardinalityType
<1>2. ASSUME NEW j \in keep
      PROVE  f[j] \in 1..c
  <2>1. IsFiniteSet(below(j)) /\ Cardinality(below(j)) <= c
    BY <1>1, FS_Subset
  <2>2. Cardinality(below(j)) \in Nat /\ Cardinality(below(j)) # 0
    BY <2>1, FS_CardinalityType, FS_EmptySet
  <2> QED BY <1>1, <2>1, <2>2
<1>3. ASSUME NEW i \in keep, NEW j \in keep, i < j
      PROVE  f[i] # f[j]
  <2>1. IsFiniteSet(below(j)) /\ below(i) \in SUBSET below(j)
    <3>1. below(j) \in SUBSET keep
      OBVIOUS
    <3>2. \A l \in keep : l <= i => l <= j
      <4>1. keep \in SUBSET Nat
        OBVIOUS
      <4> QED BY <1>3, <4>1
    <3>3. below(i) \in SUBSET below(j)
      BY <3>2
    <3> QED BY <1>1, <3>1, <3>3, FS_Subset
  <2>2. j \in below(j) /\ j \notin below(i)
    BY <1>3
  <2>3. Cardinality(below(i)) # Cardinality(below(j))
    <3> HIDE DEF below
    <3> QED BY <2>1, <2>2, FS_Subset
  <2> QED BY <2>3
<1>4. f \in Injection(keep, 1..c)
  <2>1. f \in [keep -> 1..c]
    BY <1>2
  <2>2. ASSUME NEW i \in keep, NEW j \in keep, f[i] = f[j] PROVE i = j
    <3>1. i \in Nat /\ j \in Nat
      OBVIOUS
    <3>2. ~(i < j) /\ ~(j < i)
      BY <1>3, <2>2
    <3> QED BY <3>1, <3>2
  <2> HIDE DEF f
  <2> QED BY <2>1, <2>2 DEF Injection, IsInjective
<1>5. IsFiniteSet(1..c) /\ Cardinality(1..c) = c
  BY <1>1, FS_Interval
<1>6. f \in Surjection(keep, 1..c)
  <2> HIDE DEF f
  <2> QED BY <1>1, <1>4, <1>5, FS_Injection
<1>7. \E j \in keep : f[j] = k
  <2> HIDE DEF f
  <2> QED BY <1>6 DEF Surjection
<1> QED BY <1>7

\* Kept takes every position to keep, and none twice; the order plays no part
\* in what a queue holds.
LEMMA KeptFrom ==
  ASSUME NEW S, NEW s \in Seq(S), NEW keep \in SUBSET DOMAIN s
  PROVE  /\ Kept(s, keep) \in Seq(S)
         /\ \E f \in Bijection(DOMAIN Kept(s, keep), keep) :
              \A k \in DOMAIN Kept(s, keep) : Kept(s, keep)[k] = s[f[k]]
<1> DEFINE rank(j) == Cardinality({l \in keep : l <= j})
           c == Cardinality(keep)
           f == [k \in 1..c |-> CHOOSE j \in keep : rank(j) = k]
<1>1. Len(s) \in Nat /\ DOMAIN s = 1..Len(s) /\ keep \in SUBSET (1..Len(s))
  OBVIOUS
<1>2. IsFiniteSet(keep) /\ c \in Nat
  <2>1. IsFiniteSet(1..Len(s))
    BY <1>1, FS_Interval
  <2> QED BY <1>1, <2>1, FS_Subset, FS_CardinalityType
<1>3. \A k \in 1..c : f[k] \in keep /\ rank(f[k]) = k
  <2> TAKE k \in 1..c
  <2>1. \E j \in keep : rank(j) = k
    BY <1>1, KeptRank
  <2> HIDE DEF rank
  <2> QED BY <2>1
<1>4. Kept(s, keep) = [k \in 1..c |-> s[f[k]]]
  BY DEF Kept
<1>5. f \in [1..c -> keep]
  BY <1>3
<1>6. \A j, k \in 1..c : f[j] = f[k] => j = k
  <2> HIDE DEF f, rank
  <2> QED BY <1>3
<1> HIDE DEF f, c
<1>7. f \in Bijection(1..c, keep)
  <2>1. f \in Injection(1..c, keep)
    BY <1>5, <1>6 DEF Injection, IsInjective
  <2>2. Cardinality(1..c) = c
    BY <1>2, FS_Interval
  <2>3. f \in Surjection(1..c, keep)
    BY <1>2, <2>1, <2>2, FS_Injection DEF c
  <2> QED BY <2>1, <2>3 DEF Bijection
<1>8. Kept(s, keep) \in Seq(S) /\ DOMAIN Kept(s, keep) = 1..c
  <2>1. \A k \in 1..c : s[f[k]] \in S
    BY <1>1, <1>5
  <2> QED BY <1>2, <1>4, <2>1
<1>9. \A k \in 1..c : Kept(s, keep)[k] = s[f[k]]
  BY <1>4
<1> QED BY <1>7, <1>8, <1>9

\* Erasing e leaves the other entries.
LEMMA ErasedHas ==
  ASSUME NEW S, NEW s \in Seq(S), NEW e, NEW x
  PROVE  /\ Erased(s, e) \in Seq(S)
         /\ Has(Erased(s, e), x) <=> Has(s, x) /\ x # e
         /\ Single(s, x) => Single(Erased(s, e), x)
<1> DEFINE keep == {k \in DOMAIN s : s[k] # e}  t == Erased(s, e)
<1>1. t \in Seq(S) /\ \E f \in Bijection(DOMAIN t, keep) : \A k \in DOMAIN t : t[k] = s[f[k]]
  <2>1. keep \in SUBSET DOMAIN s /\ t = Kept(s, keep)
    BY DEF Erased
  <2> HIDE DEF keep, t
  <2> QED BY <2>1, KeptFrom
<1>2. PICK f \in Bijection(DOMAIN t, keep) : \A k \in DOMAIN t : t[k] = s[f[k]]
  BY <1>1
<1> HIDE DEF t
<1>3. /\ \A k \in DOMAIN t : f[k] \in DOMAIN s /\ s[f[k]] # e
      /\ \A j, k \in DOMAIN t : f[j] = f[k] => j = k
      /\ \A j \in DOMAIN s : s[j] # e => \E k \in DOMAIN t : f[k] = j
  BY <1>2 DEF Bijection, Injection, IsInjective, Surjection
<1> HIDE DEF keep
<1>4. Has(t, x) <=> Has(s, x) /\ x # e
  BY <1>2, <1>3 DEF Has
<1>5. Single(s, x) => Single(t, x)
  BY <1>2, <1>3 DEF Single
<1> QED BY <1>1, <1>4, <1>5 DEF t

\* RemoveAt takes out one position.
LEMMA RemovedIs ==
  ASSUME NEW S, NEW s \in Seq(S), NEW m \in DOMAIN s
  PROVE  /\ RemoveAt(s, m) \in Seq(S)
         /\ DOMAIN RemoveAt(s, m) = 1..(Len(s) - 1)
         /\ \A k \in 1..(Len(s) - 1) :
              RemoveAt(s, m)[k] = s[IF k < m THEN k ELSE k + 1]
<1>1. Len(s) \in Nat /\ m \in 1..Len(s)
  OBVIOUS
<1>2. /\ SubSeq(s, 1, m - 1) \in Seq(S) /\ Len(SubSeq(s, 1, m - 1)) = m - 1
      /\ \A k \in 1..(m - 1) : SubSeq(s, 1, m - 1)[k] = s[k]
  BY <1>1
<1>3. /\ SubSeq(s, m + 1, Len(s)) \in Seq(S) /\ Len(SubSeq(s, m + 1, Len(s))) = Len(s) - m
      /\ \A k \in 1..(Len(s) - m) : SubSeq(s, m + 1, Len(s))[k] = s[k + m]
  BY <1>1
<1> DEFINE a == SubSeq(s, 1, m - 1)  b == SubSeq(s, m + 1, Len(s))
<1>4. RemoveAt(s, m) = a \o b
  BY DEF RemoveAt
<1>5. /\ a \in Seq(S) /\ Len(a) = m - 1 /\ \A k \in 1..(m - 1) : a[k] = s[k]
      /\ b \in Seq(S) /\ Len(b) = Len(s) - m /\ \A k \in 1..(Len(s) - m) : b[k] = s[k + m]
  BY <1>2, <1>3
<1> HIDE DEF a, b
<1>6. a \o b \in Seq(S) /\ Len(a \o b) = Len(s) - 1 /\ DOMAIN (a \o b) = 1..(Len(s) - 1)
  BY <1>1, <1>5
<1>7. ASSUME NEW k \in 1..(Len(s) - 1)
      PROVE  (a \o b)[k] = s[IF k < m THEN k ELSE k + 1]
  <2>1. CASE k < m
    BY <2>1, <1>1, <1>5
  <2>2. CASE ~(k < m)
    <3>1. (a \o b)[k] = b[k - (m - 1)]
      <4>1. Len(a) = m - 1 /\ k \in 1..(Len(a) + Len(b)) /\ ~(k <= Len(a))
        BY <2>2, <1>1, <1>5
      <4>2. (a \o b)[k] = b[k - Len(a)]
        BY <4>1, <1>5, ConcatProperties
      <4> QED BY <4>1, <4>2
    <3>2. k - (m - 1) \in 1..(Len(s) - m)
      BY <2>2, <1>1
    <3>3. b[k - (m - 1)] = s[(k - (m - 1)) + m]
      BY <3>2, <1>5
    <3>4. (k - (m - 1)) + m = k + 1
      BY <1>1
    <3> QED BY <2>2, <3>1, <3>3, <3>4
  <2> QED BY <2>1, <2>2
<1> QED BY <1>4, <1>6, <1>7

LEMMA RemovedHas ==
  ASSUME NEW S, NEW s \in Seq(S), NEW m \in DOMAIN s, NEW x
  PROVE  /\ Has(s, x) <=> x = s[m] \/ Has(RemoveAt(s, m), x)
         /\ Single(s, x) => Single(RemoveAt(s, m), x)
         /\ Single(s, x) /\ x = s[m] => ~Has(RemoveAt(s, m), x)
<1> DEFINE t == RemoveAt(s, m)  n == Len(s)  f(k) == IF k < m THEN k ELSE k + 1
<1>1. /\ n \in Nat /\ DOMAIN s = 1..n /\ m \in 1..n /\ DOMAIN t = 1..(n - 1)
      /\ \A k \in 1..(n - 1) : t[k] = s[IF k < m THEN k ELSE k + 1]
  BY RemovedIs, LenProperties
<1> HIDE DEF t, n
<1>2. \A k \in DOMAIN t : f(k) \in DOMAIN s /\ f(k) # m /\ t[k] = s[f(k)]
  BY <1>1
<1>3. \A j \in DOMAIN s : j = m \/ \E k \in DOMAIN t : t[k] = s[j]
  <2> TAKE j \in DOMAIN s
  <2>1. CASE j < m
    <3>1. j \in DOMAIN t /\ t[j] = s[j]
      BY <1>1, <2>1
    <3> QED BY <3>1
  <2>2. CASE j > m
    <3>1. j - 1 \in DOMAIN t /\ ~(j - 1 < m) /\ (j - 1) + 1 = j
      BY <1>1, <2>2
    <3>2. t[j - 1] = s[j]
      BY <1>1, <3>1
    <3> QED BY <3>1, <3>2
  <2> QED BY <1>1, <2>1, <2>2
<1>4. \A j, k \in DOMAIN t : f(j) = f(k) => j = k
  BY <1>1
<1> HIDE DEF f
<1>5. Has(s, x) <=> x = s[m] \/ Has(t, x)
  BY <1>2, <1>3 DEF Has
<1>6. Single(s, x) => Single(t, x)
  BY <1>2, <1>4 DEF Single
<1>7. Single(s, x) /\ x = s[m] => ~Has(t, x)
  BY <1>2 DEF Has, Single
<1> QED BY <1>5, <1>6, <1>7 DEF t

-----------------------------------------------------------------------------
(* Facts about slots and families.                                         *)

LEMMA SlotZero == N \in Nat /\ 0 \in Slots /\ \A i \in Int : i % N \in Slots
<1>1. N \in Nat \ {0}
  BY SlotsAssumption DEF SlotsAssumption
<1>2. \A i \in Int : i % N \in 0..N-1
  BY <1>1
<1> QED BY <1>1, <1>2 DEF Slots

\* A task is the first of its own family, and a child has one parent.
LEMMA RequestOfFamily ==
  ASSUME NEW t \in Tasks, NEW i \in Family(t)
  PROVE  Request(i) = t
<1>1. Tasks \cap Subtasks = {} /\ \A u \in Tasks : Children[u] \subseteq Subtasks
  BY SlotsAssumption DEF SlotsAssumption
<1>2. \A u \in Tasks : i \in Family(u) => u = t
  BY <1>1, FamilyAssumption DEF Family, FamilyAssumption
<1> QED BY <1>2 DEF Request

\* Only a slot asked for by its id can be busy when it is chosen.
LEMMA CandidateSlots ==
  ASSUME NEW t \in Tasks, NEW s \in Candidates(t)
  PROVE  s \in Slots /\ (s \in Free \/ IdSlot[t] # -1)
<1>1. IdSlot[t] \in Int
  BY SlotsAssumption DEF SlotsAssumption
<1> QED BY <1>1, SlotZero DEF Candidates, Similar, Free, Wanted

-----------------------------------------------------------------------------
(* KeepsOwnPrompt.                                                         *)

Working == {"processing", "done", "generating"}

\* The types the argument needs; prompts are read through the tasks.
SlotTypes ==
    /\ cur \in 0..N
    /\ state \in [Slots -> SlotStates]
    /\ task \in [Slots -> Ids \cup {NoTask}]
    /\ prompt \in [Slots -> Prompts \cup {NoPrompt}]

\* A prompt is only read in for the first task of a family: the children are
\* given theirs.
StartedIsParent ==
    \A s \in Slots : state[s] \in {"started", "processing"} => task[s] \in Tasks

PromptInv == SlotTypes /\ StartedIsParent /\ KeepsOwnPrompt

LEMMA PromptInit == Init => PromptInv
<1> SUFFICES ASSUME Init PROVE PromptInv
  OBVIOUS
<1>1. SlotTypes
  BY SlotZero DEF Init, SlotTypes, SlotStates
<1> QED BY <1>1 DEF PromptInv, Init, StartedIsParent, KeepsOwnPrompt

\* A slot that has ended, waits, has just been launched, or stays with its
\* task and its prompt disturbs nothing.
LEMMA Undisturbed ==
  ASSUME PromptInv, SlotTypes',
         \A x \in Slots :
           \/ state'[x] \in {"idle", "wait_other"}
           \/ state'[x] = "started" /\ task'[x] \in Tasks
           \/ state'[x] = state[x] /\ task'[x] = task[x] /\ prompt'[x] = prompt[x]
  PROVE  PromptInv'
<1>1. StartedIsParent'
  BY DEF PromptInv, StartedIsParent
<1>2. KeepsOwnPrompt'
  BY DEF PromptInv, KeepsOwnPrompt
<1> QED BY <1>1, <1>2 DEF PromptInv

\* slot.release() ends a slot and leaves the others alone.
LEMMA ReleaseKeeps ==
  ASSUME PromptInv, NEW s \in Slots, NEW queue, Release(s, queue), cur' \in 0..N
  PROVE  PromptInv'
<1>1. SlotTypes'
  BY DEF PromptInv, SlotTypes, Release, SlotStates
<1>2. \A x \in Slots : \/ state'[x] = "idle"
                       \/ /\ state'[x] = state[x] /\ task'[x] = task[x]
                          /\ prompt'[x] = prompt[x]
  BY DEF PromptInv, SlotTypes, Release
<1> QED BY <1>1, <1>2, Undisturbed

\* The prompt cache gives a prompt only to the slot that was chosen.
LEMMA CachedPrompts ==
  ASSUME PromptInv, NEW t \in Tasks, NEW s \in Slots
  PROVE  /\ PromptsFor(t, s) \in [Slots -> Prompts \cup {NoPrompt}]
         /\ \A x \in Slots : x # s => PromptsFor(t, s)[x] = prompt[x]
         /\ ~PromptCache => PromptsFor(t, s) = prompt
<1>1. Prompt[t] \in Prompts \cup {NoPrompt}
  BY SlotsAssumption DEF SlotsAssumption
<1> QED BY <1>1 DEF PromptInv, SlotTypes, PromptsFor, UpdatesCache

\* Choosing a slot is harmless when the cache is off or no slot is requested.
LEMMA ChoiceKeeps ==
  ASSUME PromptInv, NEW t \in Tasks, NEW s \in Candidates(t),
         ~PromptCache \/ IdSlot[t] = -1 \/ ~is_processing(s),
         prompt' = PromptsFor(t, s), UNCHANGED <<cur, state, task>>
  PROVE  PromptInv'
<1>1. s \in Slots /\ (s \in Free \/ ~PromptCache)
  BY CandidateSlots DEF Free
<1>2. SlotTypes'
  BY <1>1, CachedPrompts DEF PromptInv, SlotTypes
<1>3. \A x \in Slots : state'[x] = "idle" \/ prompt'[x] = prompt[x]
  BY <1>1, CachedPrompts DEF Free, is_processing
<1> QED BY <1>2, <1>3, Undisturbed

\* A launch takes idle slots, and clears idle slots at most.
LEMMA LaunchKeeps ==
  ASSUME PromptInv, NEW t \in Tasks, Launch(t)
  PROVE  PromptInv'
<1>1. PICK s \in Candidates(t) :
        /\ ~is_processing(s)
        /\ \E kids \in SUBSET (Free \ {s}) :
              /\ Cardinality(kids) = Cardinality(Children[t])
              /\ \E child \in Bijection(kids, Children[t]) :
                   task' = [x \in Slots |-> IF x = s THEN t ELSE
                                            IF x \in kids THEN child[x] ELSE task[x]]
              /\ state' = [x \in Slots |-> IF x = s THEN "started" ELSE
                                           IF x \in kids THEN "wait_other" ELSE state[x]]
              /\ CacheIdleSlots(PromptsFor(t, s), CacheFor(t, s), Free \ (kids \cup {s}))
  BY DEF Launch
<1>2. PICK kids \in SUBSET (Free \ {s}) :
              /\ \E child \in Bijection(kids, Children[t]) :
                   task' = [x \in Slots |-> IF x = s THEN t ELSE
                                            IF x \in kids THEN child[x] ELSE task[x]]
              /\ state' = [x \in Slots |-> IF x = s THEN "started" ELSE
                                           IF x \in kids THEN "wait_other" ELSE state[x]]
              /\ CacheIdleSlots(PromptsFor(t, s), CacheFor(t, s), Free \ (kids \cup {s}))
  BY <1>1
<1>3. PICK child \in Bijection(kids, Children[t]) :
        task' = [x \in Slots |-> IF x = s THEN t ELSE
                                 IF x \in kids THEN child[x] ELSE task[x]]
  BY <1>2
<1>4. \A x \in kids : child[x] \in Ids
  BY <1>3, SlotsAssumption DEF SlotsAssumption, Bijection, Injection, Ids
<1>5. s \in Slots
  BY CandidateSlots
<1>6. prompt' = [x \in Slots |-> IF PromptCache /\ KvUnified /\ x \in Free \ (kids \cup {s})
                                 THEN NoPrompt ELSE PromptsFor(t, s)[x]]
  BY <1>2 DEF CacheIdleSlots
<1>7. SlotTypes'
  <2>1. task' \in [Slots -> Ids \cup {NoTask}]
    BY <1>3, <1>4 DEF PromptInv, SlotTypes, Ids
  <2>2. state' \in [Slots -> SlotStates]
    BY <1>2 DEF PromptInv, SlotTypes, SlotStates
  <2>3. prompt' \in [Slots -> Prompts \cup {NoPrompt}]
    BY <1>5, <1>6, CachedPrompts
  <2>4. cur' = cur
    BY DEF Launch
  <2> QED BY <2>1, <2>2, <2>3, <2>4 DEF PromptInv, SlotTypes
<1>8. ASSUME NEW x \in Slots
      PROVE  \/ state'[x] \in {"idle", "wait_other"}
             \/ state'[x] = "started" /\ task'[x] \in Tasks
             \/ state'[x] = state[x] /\ task'[x] = task[x] /\ prompt'[x] = prompt[x]
  <2>1. CASE x = s
    BY <2>1, <1>2, <1>3
  <2>2. CASE x # s /\ x \in kids
    BY <2>2, <1>2
  <2>3. CASE x # s /\ x \notin kids
    <3>1. state'[x] = state[x] /\ task'[x] = task[x]
      BY <2>3, <1>2, <1>3
    <3>2. x \in Free => state[x] = "idle"
      BY DEF Free, is_processing
    <3>3. x \notin Free => prompt'[x] = prompt[x]
      BY <2>3, <1>5, <1>6, CachedPrompts
    <3> QED BY <3>1, <3>2, <3>3
  <2> QED BY <2>1, <2>2, <2>3
<1> QED BY <1>7, <1>8, Undisturbed

\* The children that start have the parent's prompt, which is their own.
LEMMA DecodeKeeps ==
  ASSUME PromptInv, DecodeOk
  PROVE  PromptInv'
<1> DEFINE parent(s) == {d \in Slots : state[d] = "done" /\ task[d] \in Tasks
                                         /\ task[s] \in Children[task[d]]}
           starts(s) == state[s] = "wait_other" /\ parent(s) # {}
           from(s) == CHOOSE d \in parent(s) : TRUE
<1>1. /\ state'  = [s \in Slots |-> IF starts(s) THEN "done" ELSE state[s]]
      /\ prompt' = [s \in Slots |-> IF starts(s) THEN prompt[from(s)] ELSE prompt[s]]
      /\ UNCHANGED <<cur, task>>
  BY DEF DecodeOk
<1>2. \A s \in Slots : starts(s) => from(s) \in parent(s)
  OBVIOUS
<1>3. SlotTypes'
  <2>1. state' \in [Slots -> SlotStates]
    BY <1>1 DEF PromptInv, SlotTypes, SlotStates
  <2>2. prompt' \in [Slots -> Prompts \cup {NoPrompt}]
    BY <1>1, <1>2 DEF PromptInv, SlotTypes
  <2> QED BY <1>1, <2>1, <2>2 DEF PromptInv, SlotTypes
<1>4. StartedIsParent'
  BY <1>1 DEF PromptInv, StartedIsParent
<1>5. ASSUME NEW s \in Slots, state'[s] \in Working
      PROVE  prompt'[s] = Prompt[Request(task'[s])]
  <2>1. CASE starts(s)
    <3>1. from(s) \in Slots /\ state[from(s)] = "done" /\ task[from(s)] \in Tasks
          /\ task[s] \in Children[task[from(s)]]
      BY <2>1, <1>2
    <3>2. Request(task[s]) = task[from(s)] /\ Request(task[from(s)]) = task[from(s)]
      <4> HIDE DEF from
      <4> QED BY <3>1, RequestOfFamily DEF Family
    <3>3. prompt[from(s)] = Prompt[task[from(s)]]
      <4> HIDE DEF from
      <4> QED BY <3>1, <3>2 DEF PromptInv, KeepsOwnPrompt
    <3> QED BY <2>1, <1>1, <3>2, <3>3
  <2>2. CASE ~starts(s)
    BY <2>2, <1>1, <1>5 DEF PromptInv, KeepsOwnPrompt, Working
  <2> QED BY <2>1, <2>2
<1> QED BY <1>3, <1>4, <1>5 DEF PromptInv, KeepsOwnPrompt, Working

\* A prompt is read in for the task of its slot.
LEMMA BatchKeeps ==
  ASSUME PromptInv, NEW st, PreBatch(st)
  PROVE  PromptInv'
<1>1. cur \in Slots /\ cur' \in 0..N
  BY SlotZero DEF PromptInv, SlotTypes, PreBatch, AtSlot, Slots
<1>2. task[cur] \in Tasks
  BY <1>1 DEF PromptInv, StartedIsParent, PreBatch
<1>3. Request(task[cur]) = task[cur] /\ Prompt[task[cur]] \in Prompts \cup {NoPrompt}
  BY <1>2, RequestOfFamily, SlotsAssumption DEF Family, SlotsAssumption
<1>4. /\ state' = [state EXCEPT ![cur] = st]
      /\ prompt' = [prompt EXCEPT ![cur] = Prompt[task[cur]]]
      /\ task' = task /\ st \in {"processing", "done"}
  BY DEF PreBatch, SlotTo
<1>5. SlotTypes'
  BY <1>1, <1>3, <1>4 DEF PromptInv, SlotTypes, SlotStates
<1>6. StartedIsParent'
  BY <1>1, <1>2, <1>4 DEF PromptInv, SlotTypes, StartedIsParent
<1>7. KeepsOwnPrompt'
  BY <1>1, <1>3, <1>4 DEF PromptInv, SlotTypes, KeepsOwnPrompt
<1> QED BY <1>5, <1>6, <1>7 DEF PromptInv

\* The prompt cache is off, or no completion requests its slot by id.
QuietCache == ~PromptCache \/ \A t \in Tasks : Kind[t] = "completion" => IdSlot[t] = -1

\* With a quiet cache every step keeps the invariant.
LEMMA PromptStep ==
  ASSUME PromptInv, [Next]_vars, QuietCache
  PROVE  PromptInv'
<1>1. CASE UNCHANGED <<cur, slots>>
  BY <1>1 DEF PromptInv, SlotTypes, StartedIsParent, KeepsOwnPrompt, slots
<1>2. CASE vars' = vars
  BY <1>1, <1>2 DEF vars
<1>3. ASSUME NEW t \in Tasks, Post(t) \/ Stop(t) PROVE PromptInv'
  BY <1>1, <1>3 DEF Post, Stop
<1>4. CASE PopTask
  BY <1>1, <1>4 DEF PopTask
<1>5. CASE ProcessCancel
  <2>1. cur' \in 0..N
    BY <1>5 DEF ProcessCancel, PromptInv, SlotTypes
  <2>2. UNCHANGED slots \/ \E s \in Slots : \E queue \in {Tail(queue_tasks)} : Release(s, queue)
    BY <1>5 DEF ProcessCancel
  <2> QED BY <1>1, <1>5, <2>1, <2>2, ReleaseKeeps DEF ProcessCancel
<1>6. ASSUME NEW t \in Tasks, ProcessTask(t) PROVE PromptInv'
  <2>1. CASE SlotAction(t)
    <3>1. Wanted(t) \in Slots
      BY SlotZero, SlotsAssumption DEF Wanted, SlotsAssumption
    <3>2. state[Wanted(t)] = "idle" /\ UNCHANGED <<cur, state, task>>
      BY <2>1 DEF SlotAction, is_processing
    <3>3. PICK p \in Prompts \cup {NoPrompt} : prompt' = [prompt EXCEPT ![Wanted(t)] = p]
      BY <2>1 DEF SlotAction
    <3>4. SlotTypes'
      BY <3>1, <3>2, <3>3 DEF PromptInv, SlotTypes
    <3> QED BY <3>1, <3>2, <3>3, <3>4, Undisturbed DEF PromptInv, SlotTypes
  <2>2. CASE DeferSlotAction(t)
    BY <1>1, <2>2 DEF DeferSlotAction, Defer, slots
  <2>3. CASE DeferCompletion(t)
    <3>1. UNCHANGED <<cur, state, task>>
      BY <2>3 DEF DeferCompletion, Defer
    <3>2. CASE UNCHANGED prompt
      BY <1>1, <3>1, <3>2 DEF slots
    <3>3. ASSUME NEW s \in Candidates(t), prompt' = PromptsFor(t, s) PROVE PromptInv'
      BY <2>3, <3>1, <3>3, ChoiceKeeps DEF DeferCompletion, QuietCache
    <3> QED BY <2>3, <3>2, <3>3 DEF DeferCompletion
  <2>4. CASE LaunchFails(t)
    BY <2>4, ChoiceKeeps DEF LaunchFails
  <2>5. CASE Launch(t)
    BY <2>5, LaunchKeeps
  <2> QED BY <1>6, <2>1, <2>2, <2>3, <2>4, <2>5 DEF ProcessTask
<1>7. CASE UpdateSlots \/ PreDone \/ DecodeFails \/ LoopDone
  <2>1. UNCHANGED slots /\ cur' \in {cur, 0}
    BY <1>7 DEF UpdateSlots, PreDone, DecodeFails, LoopDone
  <2>2. cur' \in 0..N
    BY <2>1, SlotZero DEF PromptInv, SlotTypes
  <2> QED BY <2>1, <2>2 DEF PromptInv, SlotTypes, StartedIsParent, KeepsOwnPrompt, slots
<1>8. ASSUME NEW phase, AtSlot(phase)
      PROVE  cur \in Slots /\ cur' \in 0..N
  BY <1>8, SlotZero DEF AtSlot, PromptInv, SlotTypes, Slots
<1>9. CASE \E phase \in {"pre", "post", "abort"} : SkipSlot(phase)
  <2>1. UNCHANGED slots /\ cur' \in 0..N
    BY <1>8, <1>9 DEF SkipSlot
  <2> QED BY <2>1 DEF PromptInv, SlotTypes, StartedIsParent, KeepsOwnPrompt, slots
<1>10. CASE PreEmpty \/ PreError \/ PostEnd("final") \/ PostEnd("error")
  BY <1>8, <1>10, ReleaseKeeps DEF PreEmpty, PreError, PostEnd, EndSlot
<1>11. CASE PreBatch("processing") \/ PreBatch("done")
  BY <1>11, BatchKeeps
<1>12. CASE DecodeOk
  BY <1>12, DecodeKeeps
<1>13. CASE Abort
  <2>1. cur \in Slots /\ cur' \in 0..N
    BY <1>8, <1>13 DEF Abort
  <2>2. /\ state' = [state EXCEPT ![cur] = "idle"]
        /\ task' = [task EXCEPT ![cur] = NoTask]
        /\ prompt' \in {prompt, [prompt EXCEPT ![cur] = NoPrompt]}
    BY <1>13 DEF Abort
  <2>3. SlotTypes'
    BY <2>1, <2>2 DEF PromptInv, SlotTypes, SlotStates
  <2> QED BY <2>1, <2>2, <2>3, Undisturbed DEF PromptInv, SlotTypes
<1>14. CASE PostToken
  <2>1. cur \in Slots /\ cur' \in 0..N
    BY <1>8, <1>14 DEF PostToken
  <2>2. /\ state[cur] \in {"done", "generating"}
        /\ state' = [state EXCEPT ![cur] = "generating"]
        /\ UNCHANGED <<task, prompt>>
    BY <1>14 DEF PostToken
  <2> QED BY <2>1, <2>2 DEF PromptInv, SlotTypes, SlotStates, StartedIsParent, KeepsOwnPrompt
<1> QED
  BY <1>2, <1>3, <1>4, <1>5, <1>6, <1>7, <1>9, <1>10, <1>11, <1>12, <1>13, <1>14
  DEF Next, MainNext, SlotsNext, PreNext, PostNext

\* A slot that processes a prompt or generates from it holds the prompt of its
\* own task, whatever is posted, cancelled, restored or cleared next to it, as
\* long as get_available_slot has no prompt cache to load into a slot that was
\* requested by id.
THEOREM PromptsStayOwn ==
  ASSUME QuietCache
  PROVE  Spec => []KeepsOwnPrompt
<1>1. PromptInv /\ [Next]_vars => PromptInv'
  BY PromptStep
<1>2. PromptInv => KeepsOwnPrompt
  BY DEF PromptInv
<1> QED BY PromptInit, <1>1, <1>2, PTL DEF Spec

-----------------------------------------------------------------------------
(* NoTaskLeftBehind.                                                       *)

TaskEntries == {Entry("task", t) : t \in Tasks} \cup {Entry("next", NoTask)}

\* Without CANCEL the queues hold tasks and NEXT_RESPONSE.
QueueTypes ==
    /\ queue_tasks \in Seq(TaskEntries)
    /\ queue_tasks_deferred \in Seq(Tasks)
    /\ popped \in Tasks \cup {NoTask}
    /\ state \in [Slots -> SlotStates]

\* A deferred task has something that will let it back in: a busy slot whose
\* release does, or a task on its way to a slot.
DeferInv == QueueTypes /\ NoTaskLeftBehind

\* A set of positions has a least one.
LEMMA LeastPosition ==
  ASSUME NEW A \in SUBSET Nat, A # {}
  PROVE  \E k \in A : \A j \in A : k <= j
<1> DEFINE R == {p \in Nat \X Nat : p[1] < p[2]}
<1>1. IsWellFoundedOn(R, Nat)
  BY NatLessThanWellFounded DEF OpToRel
<1>2. PICK k \in A : \A j \in A : <<j, k>> \notin R
  <2> HIDE DEF R
  <2> QED BY <1>1, WFMin
<1>3. ASSUME NEW j \in A PROVE k <= j
  <2>1. j \in Nat /\ k \in Nat /\ ~(j < k)
    BY <1>2
  <2> QED BY <2>1
<1> QED BY <1>3

\* The position NextDeferred finds is one of the deferred queue.
LEMMA NextDeferredIs ==
  ASSUME queue_tasks_deferred \in Seq(Tasks), queue_tasks_deferred # <<>>, NEW s \in Slots
  PROVE  NextDeferred(s) \in DOMAIN queue_tasks_deferred
<1> DEFINE deferred == queue_tasks_deferred
           asking == {j \in DOMAIN deferred : Prefers(deferred[j], s)}
           k == NextDeferred(s)
<1>1. k = IF asking = {} THEN 1 ELSE CHOOSE i \in asking : \A j \in asking : i <= j
  BY DEF NextDeferred
<1>2. 1 \in DOMAIN deferred /\ asking \in SUBSET Nat
  BY EmptySeq, LenProperties
<1>3. CASE asking = {}
  BY <1>1, <1>2, <1>3
<1>4. CASE asking # {}
  <2>1. \E i \in asking : \A j \in asking : i <= j
    <3> HIDE DEF asking
    <3> QED BY <1>2, <1>4, LeastPosition
  <2>2. k \in asking
    <3> HIDE DEF asking
    <3> QED BY <1>1, <1>4, <2>1
  <2> QED BY <2>2
<1> QED BY <1>3, <1>4

\* When a slot is released, a deferred task, if there is one, gets in.
LEMMA PopDeferredWakes ==
  ASSUME QueueTypes, NEW s \in Slots, PopDeferred(s, queue_tasks)
  PROVE  /\ queue_tasks' \in Seq(TaskEntries)
         /\ queue_tasks_deferred' \in Seq(Tasks)
         /\ queue_tasks_deferred' # <<>> => \E t \in Tasks : Entry("task", t) \in Entries'
<1> DEFINE deferred == queue_tasks_deferred
           k == NextDeferred(s)
<1> USE DEF QueueTypes
<1>1. CASE deferred = <<>>
  BY <1>1 DEF PopDeferred
<1>2. CASE deferred # <<>>
  <2>1. k \in 1..Len(deferred)
    BY <1>2, NextDeferredIs, LenProperties
  <2> DEFINE t == deferred[k]
  <2>2. /\ queue_tasks' = <<Entry("task", t)>> \o queue_tasks
        /\ queue_tasks_deferred' = SubSeq(deferred, 1, k-1) \o SubSeq(deferred, k+1, Len(deferred))
    BY <1>2 DEF PopDeferred, RemoveAt
  <2>3. t \in Tasks /\ Entry("task", t) \in TaskEntries
    BY <2>1, ElementOfSeq DEF TaskEntries
  <2> HIDE DEF k, t, deferred
  <2>4. <<Entry("task", t)>> \in Seq(TaskEntries)
    BY <2>3
  <2>5. /\ queue_tasks' \in Seq(TaskEntries)
        /\ Len(queue_tasks') = 1 + Len(queue_tasks)
        /\ queue_tasks'[1] = Entry("task", t)
    BY <2>2, <2>4, ConcatProperties
  <2>6. Entry("task", t) \in Entries'
    <3>1. 1 \in DOMAIN queue_tasks'
      BY <2>5, LenProperties
    <3> QED BY <2>5, <3>1 DEF Entries
  <2>7. queue_tasks_deferred' \in Seq(Tasks)
    <3>1. Len(deferred) \in Nat /\ \A i \in 1..Len(deferred) : deferred[i] \in Tasks
      BY LenProperties, ElementOfSeq DEF deferred
    <3>2. SubSeq(deferred, 1, k-1) \in Seq(Tasks)
      BY <2>1, <3>1, SubSeqProperties
    <3>3. SubSeq(deferred, k+1, Len(deferred)) \in Seq(Tasks)
      BY <2>1, <3>1, SubSeqProperties
    <3> QED BY <2>2, <3>2, <3>3, ConcatProperties
  <2> QED BY <2>3, <2>5, <2>6, <2>7
<1> QED BY <1>1, <1>2

\* A task is deferred only while some slot is busy.
LEMMA DeferredBehindBusy ==
  ASSUME NEW t \in Tasks, DeferCompletion(t)
  PROVE  \E s \in Slots : is_processing(s)
<1> SUFFICES ASSUME \A s \in Slots : ~is_processing(s) PROVE FALSE
  OBVIOUS
<1>1. Free = Slots
  BY DEF Free
<1>2. Candidates(t) # {}
  BY <1>1, SlotZero DEF Candidates
<1>3. PICK s \in Candidates(t) :
        is_processing(s) \/ Cardinality(Free \ {s}) < Cardinality(Children[t])
  BY <1>2 DEF DeferCompletion
<1>4. s \in Slots
  BY CandidateSlots
<1>5. Cardinality(Slots) = N /\ IsFiniteSet(Slots)
  BY FS_Interval, SlotZero DEF Slots
<1>6. Cardinality(Slots \ {s}) = N - 1
  BY <1>4, <1>5, FS_RemoveElement
<1>7. Cardinality(Children[t]) \in Nat /\ Cardinality(Children[t]) < N
  BY SlotsAssumption, FS_CardinalityType DEF SlotsAssumption
<1> QED BY <1>1, <1>3, <1>4, <1>6, <1>7, SlotZero

\* While clients stay, no launch fails and no slot is acted on, every step
\* leaves a deferred task with something that lets it back in.
Patient == MayFail = {} /\ \A t \in Tasks : Kind[t] = "completion"
NoStop  == \A t \in Tasks : ~Stop(t)

LEMMA DeferInit == Init => DeferInv
<1> SUFFICES ASSUME Init PROVE DeferInv
  OBVIOUS
<1>1. queue_tasks \in Seq(TaskEntries) /\ queue_tasks_deferred \in Seq(Tasks)
  BY EmptySeq DEF Init
<1>2. state \in [Slots -> SlotStates]
  BY DEF Init, SlotStates
<1> QED BY <1>1, <1>2 DEF Init, DeferInv, QueueTypes, NoTaskLeftBehind

\* A step that ends in pop_deferred_task.
LEMMA WakeKeeps ==
  ASSUME DeferInv, NEW s \in Slots, PopDeferred(s, queue_tasks),
         state' \in [Slots -> SlotStates], popped' = popped
  PROVE  DeferInv'
<1>1. QueueTypes'
  BY PopDeferredWakes DEF DeferInv, QueueTypes
<1>2. NoTaskLeftBehind'
  BY PopDeferredWakes DEF DeferInv, NoTaskLeftBehind
<1> QED BY <1>1, <1>2 DEF DeferInv

\* A step that leaves the queues alone and keeps busy slots busy.
LEMMA BusyKeeps ==
  ASSUME DeferInv, UNCHANGED <<queues, popped>>, state' \in [Slots -> SlotStates],
         \A s \in Slots : is_processing(s) => is_processing(s)'
  PROVE  DeferInv'
<1>1. QueueTypes'
  BY DEF DeferInv, QueueTypes, queues
<1>2. Entries' = Entries
  BY DEF Entries, queues
<1>3. NoTaskLeftBehind'
  BY <1>2 DEF DeferInv, NoTaskLeftBehind, queues
<1> QED BY <1>1, <1>3 DEF DeferInv

LEMMA PostKeeps ==
  ASSUME DeferInv, NEW t \in Tasks, Post(t)
  PROVE  DeferInv'
<1> USE DEF DeferInv, QueueTypes
<1>1. Entry("task", t) \in TaskEntries
  BY DEF TaskEntries
<1>2. queue_tasks' = Append(queue_tasks, Entry("task", t))
      /\ UNCHANGED <<queue_tasks_deferred, popped, state>>
  BY DEF Post, slots
<1>3. queue_tasks' \in Seq(TaskEntries)
  BY <1>1, <1>2
<1>4. \E u \in Tasks : Entry("task", u) \in Entries'
  <2>1. Len(queue_tasks') = Len(queue_tasks) + 1 /\ Len(queue_tasks) \in Nat
        /\ queue_tasks'[Len(queue_tasks) + 1] = Entry("task", t)
    BY <1>1, <1>2
  <2>2. Len(queue_tasks) + 1 \in DOMAIN queue_tasks'
    BY <1>3, <2>1, LenProperties
  <2> QED BY <2>1, <2>2 DEF Entries
<1> QED BY <1>2, <1>3, <1>4 DEF NoTaskLeftBehind

\* The popped task is on its way; NEXT_RESPONSE leaves the tasks behind it.
LEMMA PopKeeps ==
  ASSUME DeferInv, PopTask
  PROVE  DeferInv'
<1> USE DEF DeferInv, QueueTypes
<1>1. /\ queue_tasks # <<>> /\ queue_tasks' = Tail(queue_tasks)
      /\ popped' = Head(queue_tasks).id /\ popped = NoTask
      /\ UNCHANGED <<queue_tasks_deferred, state>>
  BY DEF PopTask, slots
<1>2. Head(queue_tasks) \in TaskEntries /\ queue_tasks' \in Seq(TaskEntries)
  BY <1>1, HeadTailProperties
<1>3. CASE \E t \in Tasks : Head(queue_tasks) = Entry("task", t)
  <2>1. popped' \in Tasks
    BY <1>1, <1>3 DEF Entry
  <2> QED BY <1>1, <1>2, <2>1 DEF NoTaskLeftBehind
<1>4. CASE Head(queue_tasks) = Entry("next", NoTask)
  <2>1. popped' = NoTask
    BY <1>1, <1>4 DEF Entry
  <2>2. ASSUME NEW t \in Tasks, Entry("task", t) \in Entries
        PROVE  Entry("task", t) \in Entries'
    <3>1. PICK i \in DOMAIN queue_tasks : queue_tasks[i] = Entry("task", t)
      BY <2>2 DEF Entries
    <3>2. i \in 1..Len(queue_tasks) /\ Len(queue_tasks) \in Nat
      BY <3>1, LenProperties
    <3>3. queue_tasks[1] # Entry("task", t)
      BY <1>1, <1>4 DEF Entry
    <3>4. i - 1 \in 1..Len(Tail(queue_tasks)) /\ Tail(queue_tasks)[i - 1] = queue_tasks[i]
      BY <1>1, <3>1, <3>2, <3>3, HeadTailProperties
    <3>5. i - 1 \in DOMAIN queue_tasks'
      BY <1>1, <1>2, <3>4, LenProperties
    <3> QED BY <1>1, <3>1, <3>4, <3>5 DEF Entries
  <2>3. NoTask \notin Tasks
    BY SlotsAssumption DEF SlotsAssumption, Ids
  <2>4. NoTaskLeftBehind'
    BY <1>1, <2>1, <2>2, <2>3 DEF NoTaskLeftBehind, is_processing
  <2> QED BY <1>1, <1>2, <2>1, <2>4
<1> QED BY <1>2, <1>3, <1>4 DEF TaskEntries

\* A completion is deferred behind a busy slot or launched into one.
LEMMA TaskKeeps ==
  ASSUME DeferInv, Patient, NEW t \in Tasks, ProcessTask(t)
  PROVE  DeferInv'
<1> USE DEF DeferInv, QueueTypes
<1>1. CASE DeferCompletion(t)
  <2>1. /\ queue_tasks_deferred' = Append(queue_tasks_deferred, t)
        /\ popped' = NoTask /\ UNCHANGED <<queue_tasks, state>>
    BY <1>1 DEF DeferCompletion, Defer
  <2>2. \E s \in Slots : is_processing(s)'
    BY <1>1, <2>1, DeferredBehindBusy DEF is_processing
  <2>3. queue_tasks_deferred' \in Seq(Tasks)
    BY <2>1
  <2> QED BY <2>1, <2>2, <2>3 DEF NoTaskLeftBehind
<1>2. CASE Launch(t)
  <2>1. /\ popped' = NoTask /\ UNCHANGED queues
        /\ \E s \in Candidates(t) : \E kids \in SUBSET (Free \ {s}) :
              state' = [x \in Slots |-> IF x = s THEN "started" ELSE
                                        IF x \in kids THEN "wait_other" ELSE state[x]]
    BY <1>2 DEF Launch
  <2>2. PICK s \in Candidates(t) : \E kids \in SUBSET (Free \ {s}) :
              state' = [x \in Slots |-> IF x = s THEN "started" ELSE
                                        IF x \in kids THEN "wait_other" ELSE state[x]]
    BY <2>1
  <2>3. s \in Slots /\ is_processing(s)' /\ state' \in [Slots -> SlotStates]
    BY <2>2, CandidateSlots DEF is_processing, SlotStates
  <2> QED BY <2>1, <2>3 DEF NoTaskLeftBehind, queues
<1>3. ~(SlotAction(t) \/ DeferSlotAction(t) \/ LaunchFails(t))
  BY DEF Patient, SlotAction, DeferSlotAction, LaunchFails
<1> QED BY <1>1, <1>2, <1>3 DEF ProcessTask

\* A slot that ends lets a deferred task in; the others stay busy.
LEMMA SlotKeeps ==
  ASSUME DeferInv, cur \in 0..N, SlotsNext
  PROVE  DeferInv'
<1> USE DEF DeferInv, QueueTypes
<1>1. ASSUME NEW phase, AtSlot(phase) PROVE cur \in Slots /\ popped' = popped
  BY <1>1, SlotZero DEF AtSlot, Slots
<1>2. CASE UpdateSlots
  <2>1. CASE queue_tasks' = queue_tasks
    BY <1>2, <2>1, BusyKeeps DEF UpdateSlots, slots, queues, is_processing
  <2>2. CASE Free # Slots
    <3>1. queue_tasks' = <<Entry("next", NoTask)>>
          /\ UNCHANGED <<queue_tasks_deferred, popped, state>>
      BY <1>2, <2>2 DEF UpdateSlots, slots
    <3>2. queue_tasks' \in Seq(TaskEntries)
      BY <3>1 DEF TaskEntries
    <3>3. \E s \in Slots : is_processing(s)'
      BY <2>2, <3>1 DEF Free, is_processing
    <3> QED BY <3>1, <3>2, <3>3 DEF NoTaskLeftBehind
  <2> QED BY <1>2, <2>1, <2>2 DEF UpdateSlots
<1>3. CASE PreDone \/ DecodeFails \/ LoopDone
  BY <1>3, BusyKeeps DEF PreDone, DecodeFails, LoopDone, slots, is_processing
<1>4. CASE \E phase \in {"pre", "post", "abort"} : SkipSlot(phase)
  BY <1>1, <1>4, BusyKeeps DEF SkipSlot, slots, is_processing
<1>5. CASE PreEmpty \/ PreError \/ PostEnd("final") \/ PostEnd("error")
  <2>1. cur \in Slots /\ popped' = popped /\ Release(cur, queue_tasks)
    BY <1>1, <1>5 DEF PreEmpty, PreError, PostEnd, EndSlot
  <2>2. PopDeferred(cur, queue_tasks) /\ state' \in [Slots -> SlotStates]
    BY <2>1 DEF Release, SlotStates
  <2> QED BY <2>1, <2>2, WakeKeeps
<1>6. CASE Abort
  <2>1. cur \in Slots /\ popped' = popped /\ PopDeferred(cur, queue_tasks)
        /\ state' = [state EXCEPT ![cur] = "idle"]
    BY <1>1, <1>6 DEF Abort
  <2>2. state' \in [Slots -> SlotStates]
    BY <2>1 DEF SlotStates
  <2> QED BY <2>1, <2>2, WakeKeeps
<1>7. CASE PreBatch("processing") \/ PreBatch("done") \/ PostToken
  <2>1. /\ cur \in Slots /\ UNCHANGED <<queues, popped>>
        /\ \E st \in {"processing", "done", "generating"} : state' = [state EXCEPT ![cur] = st]
    BY <1>1, <1>7 DEF PreBatch, SlotTo, PostToken
  <2>2. /\ state' \in [Slots -> SlotStates]
        /\ \A s \in Slots : is_processing(s) => is_processing(s)'
    BY <2>1 DEF SlotStates, is_processing
  <2> QED BY <2>1, <2>2, BusyKeeps
<1>8. CASE DecodeOk
  <2>1. /\ UNCHANGED <<queues, popped>>
        /\ DOMAIN state' = Slots /\ state' = [s \in Slots |-> state'[s]]
        /\ \A s \in Slots : state'[s] \in {"done", state[s]}
    BY <1>8 DEF DecodeOk
  <2>2. /\ state' \in [Slots -> SlotStates]
        /\ \A s \in Slots : is_processing(s) => is_processing(s)'
    BY <2>1 DEF SlotStates, is_processing
  <2> QED BY <2>1, <2>2, BusyKeeps
<1> QED BY <1>2, <1>3, <1>4, <1>5, <1>6, <1>7, <1>8 DEF SlotsNext, PreNext, PostNext

\* No CANCEL is ever in the queue of patient clients.
LEMMA NoCancel == ASSUME DeferInv PROVE ~ProcessCancel
<1> SUFFICES ASSUME ProcessCancel PROVE FALSE
  OBVIOUS
<1>1. Head(queue_tasks) \in TaskEntries /\ Head(queue_tasks).type = "cancel"
  BY HeadTailProperties DEF ProcessCancel, DeferInv, QueueTypes
<1> QED BY <1>1 DEF TaskEntries, Entry

LEMMA DeferStep ==
  ASSUME DeferInv, cur \in 0..N, Patient, [Next /\ NoStop]_vars
  PROVE  DeferInv'
<1>1. CASE vars' = vars
  BY <1>1, BusyKeeps DEF vars, queues, slots, is_processing, DeferInv, QueueTypes
<1>2. CASE PopTask
  BY <1>2, PopKeeps
<1>3. CASE SlotsNext
  BY <1>3, SlotKeeps
<1>4. ASSUME NEW t \in Tasks, Post(t) \/ ProcessTask(t) PROVE DeferInv'
  BY <1>4, PostKeeps, TaskKeeps
<1> QED BY <1>1, <1>2, <1>3, <1>4, NoCancel DEF Next, MainNext, NoStop

\* The loop over the slots stays within them.
LEMMA CurStep == ASSUME cur \in 0..N, [Next]_vars PROVE cur' \in 0..N
<1>1. ASSUME NEW phase, AtSlot(phase) PROVE cur' \in 0..N
  BY <1>1, SlotZero DEF AtSlot
<1>2. CASE SlotsNext
  <2>1. CASE UpdateSlots \/ PreDone \/ DecodeOk \/ DecodeFails \/ LoopDone
    BY <2>1, SlotZero DEF UpdateSlots, PreDone, DecodeOk, DecodeFails, LoopDone
  <2> QED BY <1>1, <1>2, <2>1 DEF SlotsNext, PreNext, PostNext, PreEmpty, PreError,
             PreBatch, Abort, PostToken, PostEnd, SkipSlot
<1>3. CASE UNCHANGED cur
  BY <1>3
<1> QED BY <1>2, <1>3 DEF Next, MainNext, vars, PopTask, ProcessCancel, Post, Stop,
           ProcessTask, SlotAction, DeferSlotAction, DeferCompletion, Defer, LaunchFails, Launch

\* "defer until one slot is available": with completions only, whose launch
\* does not fail and whose clients stay, a deferred task always has a busy slot
\* or a task on its way to one before it, so a release will let it back in.
THEOREM DeferredIsNotLeftBehind ==
  ASSUME Patient
  PROVE  Spec /\ [][NoStop]_vars => []NoTaskLeftBehind
<1> DEFINE Inv == DeferInv /\ cur \in 0..N
<1>1. Init => Inv
  BY DeferInit, SlotZero DEF Init
<1>2. Inv /\ [Next]_vars /\ [NoStop]_vars => Inv'
  <2> SUFFICES ASSUME Inv, [Next]_vars, [NoStop]_vars PROVE Inv'
    OBVIOUS
  <2>1. [Next /\ NoStop]_vars
    OBVIOUS
  <2> QED BY <2>1, DeferStep, CurStep
<1>3. Inv => NoTaskLeftBehind
  BY DEF DeferInv
<1> QED BY <1>1, <1>2, <1>3, PTL DEF Spec

-----------------------------------------------------------------------------
(* The inductive invariant.                                                *)

Items == TaskEntries \cup {Entry("cancel", i) : i \in Ids}

\* Where a task waits for a slot, and the slots that run an id.
Queued(t)  == Has(queue_tasks, Entry("task", t))
Waits(t)   == Queued(t) \/ Has(queue_tasks_deferred, t) \/ popped = t
Runs(i)    == \E s \in Slots : task[s] = i

Types ==
    /\ TypeOK
    /\ queue_tasks \in Seq(Items)
    /\ \A s \in Slots : state[s] = "idle" <=> task[s] = NoTask
    /\ StartedIsParent

\* No task is twice in the queues q and d, nor in both, ...
OnceIn(q, d) ==
    \A t \in Tasks : /\ Single(q, Entry("task", t)) /\ Single(d, t)
                     /\ ~(Has(q, Entry("task", t)) /\ Has(d, t))

\* ... nor in a queue and popped, nor in two slots.
Once ==
    /\ OnceIn(queue_tasks, queue_tasks_deferred)
    /\ \A t \in Tasks : popped = t => ~Queued(t) /\ ~Has(queue_tasks_deferred, t)
    /\ \A s, x \in Slots : task[s] = task[x] /\ task[s] # NoTask => s = x

\* As long as a task waits for a slot, nothing of its family runs or is
\* answered; a slot runs what is not answered yet; and all this comes from a
\* request.
Unanswered ==
    /\ \A t \in Tasks : Waits(t) =>
         t \in posted /\ \A i \in Family(t) : ~Runs(i) /\ sent[i] = "none"
    /\ \A i \in Ids : Runs(i) => sent[i] = "none"
    /\ \A t \in Tasks : \A i \in Family(t) : Runs(i) \/ sent[i] # "none" => t \in posted

\* A request that waits for its result has its task somewhere.
Held ==
    \A t \in posted \ stopped : sent[t] = "none" /\ ~Failed(t) => Waits(t) \/ Runs(t)

\* CANCELs are posted by readers that stop.
Stopped ==
    \A i \in Ids : Has(queue_tasks, Entry("cancel", i)) => \E t \in stopped : i \in Family(t)

PlacesInv == Types /\ Once /\ Unanswered /\ Held /\ Stopped

-----------------------------------------------------------------------------
(* Entries and families.                                                   *)

LEMMA EntryIs ==
  /\ \A a, b, i, j : Entry(a, i) = Entry(b, j) <=> a = b /\ i = j
  /\ \A a, i : Entry(a, i).type = a /\ Entry(a, i).id = i
BY DEF Entry

\* The families of the tasks are disjoint, and finite.
LEMMA Families ==
  /\ NoTask \notin Ids /\ Tasks \subseteq Ids
  /\ \A t \in Tasks : t \in Family(t) /\ Family(t) \subseteq Ids
  /\ \A t, u \in Tasks : \A i \in Family(t) : i \in Family(u) => t = u
  /\ \A t \in Tasks : IsFiniteSet(Family(t))
<1> USE SlotsAssumption, FamilyAssumption DEF SlotsAssumption, FamilyAssumption, Ids
<1>1. \A t \in Tasks : t \in Family(t) /\ Family(t) \subseteq Ids
  BY DEF Family
<1>2. \A t, u \in Tasks : \A i \in Family(t) : i \in Family(u) => t = u
  BY DEF Family
<1>3. ASSUME NEW t \in Tasks PROVE IsFiniteSet(Family(t))
  <2>1. Family(t) = Children[t] \cup {t} /\ IsFiniteSet(Children[t])
    BY DEF Family
  <2> QED BY <2>1, FS_AddElement
<1> QED BY <1>1, <1>2, <1>3

LEMMA ItemsAre ==
  /\ \A t \in Tasks : Entry("task", t) \in Items
  /\ \A i \in Ids : Entry("cancel", i) \in Items
  /\ Entry("next", NoTask) \in Items
  /\ Items \subseteq [type : {"task", "cancel", "next"}, id : Ids \cup {NoTask}]
<1>1. /\ \A t \in Tasks : Entry("task", t) \in Items
      /\ \A i \in Ids : Entry("cancel", i) \in Items
      /\ Entry("next", NoTask) \in Items
  BY DEF Items, TaskEntries
<1>2. \A e \in Items : \E a \in {"task", "cancel", "next"}, i \in Ids \cup {NoTask} :
        e = Entry(a, i)
  BY Families DEF Items, TaskEntries
<1>3. \A a \in {"task", "cancel", "next"}, i \in Ids \cup {NoTask} :
        Entry(a, i) \in [type : {"task", "cancel", "next"}, id : Ids \cup {NoTask}]
  BY DEF Entry
<1> QED BY <1>1, <1>2, <1>3

-----------------------------------------------------------------------------
(* What the steps do to the queues.                                        *)

\* pop_deferred_task moves one task from the deferred queue to the other.
LEMMA PopDeferredMoves ==
  ASSUME NEW q \in Seq(Items), queue_tasks_deferred \in Seq(Tasks),
         OnceIn(q, queue_tasks_deferred), NEW s \in Slots, PopDeferred(s, q)
  PROVE  /\ queue_tasks' \in Seq(Items) /\ queue_tasks_deferred' \in Seq(Tasks)
         /\ OnceIn(queue_tasks', queue_tasks_deferred')
         /\ \A t \in Tasks : Queued(t)' \/ Has(queue_tasks_deferred', t)
                               <=> Has(q, Entry("task", t)) \/ Has(queue_tasks_deferred, t)
         /\ \A i \in Ids : Has(queue_tasks', Entry("cancel", i)) <=> Has(q, Entry("cancel", i))
<1> DEFINE d == queue_tasks_deferred  k == NextDeferred(s)  u == d[k]
<1>1. CASE d = <<>>
  BY <1>1 DEF PopDeferred, Queued
<1>2. CASE d # <<>>
  <2>1. k \in DOMAIN d
    BY <1>2, NextDeferredIs
  <2>2. queue_tasks' = <<Entry("task", u)>> \o q /\ queue_tasks_deferred' = RemoveAt(d, k)
    BY <1>2 DEF PopDeferred
  <2> HIDE DEF k
  <2>3. u \in Tasks
    BY <2>1
  <2> HIDE DEF u
  <2>4. <<Entry("task", u)>> \in Seq(Items)
    BY <2>3, ItemsAre
  <2>5. ASSUME NEW x
        PROVE  Has(<<Entry("task", u)>>, x) <=> x = Entry("task", u)
    BY DEF Has
  <2>6. ASSUME NEW x PROVE Single(<<Entry("task", u)>>, x)
    BY DEF Single
  <2>7. ASSUME NEW x
        PROVE  /\ Has(queue_tasks', x) <=> x = Entry("task", u) \/ Has(q, x)
               /\ Single(q, x) /\ ~(x = Entry("task", u) /\ Has(q, x)) => Single(queue_tasks', x)
    BY <2>2, <2>4, <2>5, <2>6, ConcatHas
  <2>8. ASSUME NEW t
        PROVE  /\ Has(d, t) <=> t = u \/ Has(queue_tasks_deferred', t)
               /\ Single(d, t) => Single(queue_tasks_deferred', t)
               /\ Single(d, t) /\ t = u => ~Has(queue_tasks_deferred', t)
    BY <2>1, <2>2, RemovedHas DEF u
  <2>9. queue_tasks' \in Seq(Items) /\ queue_tasks_deferred' \in Seq(Tasks)
    BY <2>1, <2>2, <2>4, ConcatProperties, RemovedIs
  <2>10. ASSUME NEW t \in Tasks
         PROVE  /\ Queued(t)' <=> t = u \/ Has(q, Entry("task", t))
                /\ Has(d, t) <=> t = u \/ Has(queue_tasks_deferred', t)
                /\ t = u => ~Has(queue_tasks_deferred', t) /\ ~Has(q, Entry("task", t))
                /\ Single(queue_tasks', Entry("task", t)) /\ Single(queue_tasks_deferred', t)
                /\ ~(Has(q, Entry("task", t)) /\ Has(d, t))
    BY <2>3, <2>7, <2>8, EntryIs DEF OnceIn, Queued
  <2>11. OnceIn(queue_tasks', queue_tasks_deferred')
    BY <2>10 DEF OnceIn, Queued
  <2>12. \A i \in Ids : Has(queue_tasks', Entry("cancel", i)) <=> Has(q, Entry("cancel", i))
    BY <2>7, EntryIs
  <2> QED BY <2>9, <2>10, <2>11, <2>12
<1> QED BY <1>1, <1>2

\* server_response_reader::stop erases the task and posts CANCELs.
LEMMA StopMoves ==
  ASSUME PlacesInv, NEW t \in Tasks, Stop(t)
  PROVE  /\ queue_tasks' \in Seq(Items) /\ queue_tasks_deferred' \in Seq(Tasks)
         /\ OnceIn(queue_tasks', queue_tasks_deferred')
         /\ \A u \in Tasks : Queued(u)' <=> Queued(u) /\ u # t
         /\ \A u \in Tasks : Has(queue_tasks_deferred', u)
                               <=> Has(queue_tasks_deferred, u) /\ u # t
         /\ \A i \in Ids : Has(queue_tasks', Entry("cancel", i))
                             => Has(queue_tasks, Entry("cancel", i)) \/ i \in Family(t)
<1> DEFINE q == queue_tasks  d == queue_tasks_deferred
           c == Cardinality(Family(t))  s == SetToSeq(Family(t))
           cancels == [k \in 1..c |-> Entry("cancel", s[k])]
           kept == Erased(q, Entry("task", t))
           others == Erased(d, t)
<1>1. queue_tasks' = cancels \o kept /\ queue_tasks_deferred' = others
  BY DEF Stop
<1>2. q \in Seq(Items) /\ d \in Seq(Tasks) /\ OnceIn(q, d)
  BY DEF PlacesInv, Types, TypeOK, Once
<1>3. s \in [1..c -> Family(t)] /\ c \in Nat
  <2>1. c \in Nat /\ ExistsBijection(1..c, Family(t))
    BY Families, FS_CardinalityType
  <2>2. \E f \in [1..c -> Family(t)] : IsInjective(f)
    BY <2>1 DEF ExistsBijection, Bijection, Injection, IsInjective
  <2> QED BY <2>1, <2>2 DEF SetToSeq
<1> HIDE DEF s, c
<1>4. cancels \in Seq(Items) /\ DOMAIN cancels = 1..c
  BY <1>3, ItemsAre, Families
<1>5. \A k \in 1..c : \E i \in Family(t) : cancels[k] = Entry("cancel", i)
  BY <1>3
<1> HIDE DEF cancels
<1>6. /\ \A x : Has(cancels, x) => \E i \in Family(t) : x = Entry("cancel", i)
      /\ \A u : ~Has(cancels, Entry("task", u)) /\ Single(cancels, Entry("task", u))
  BY <1>4, <1>5, EntryIs DEF Has, Single
<1>7. /\ kept \in Seq(Items) /\ others \in Seq(Tasks)
      /\ \A x : /\ Has(kept, x) <=> Has(q, x) /\ x # Entry("task", t)
                /\ Single(q, x) => Single(kept, x)
      /\ \A u : /\ Has(others, u) <=> Has(d, u) /\ u # t
                /\ Single(d, u) => Single(others, u)
  <2>1. ASSUME NEW x
        PROVE  kept \in Seq(Items) /\ (Has(kept, x) <=> Has(q, x) /\ x # Entry("task", t))
               /\ (Single(q, x) => Single(kept, x))
    BY <1>2, ErasedHas
  <2>2. ASSUME NEW u
        PROVE  others \in Seq(Tasks) /\ (Has(others, u) <=> Has(d, u) /\ u # t)
               /\ (Single(d, u) => Single(others, u))
    BY <1>2, ErasedHas
  <2> HIDE DEF kept, others
  <2> QED BY <2>1, <2>2
<1> HIDE DEF kept, others
<1>8. /\ queue_tasks' \in Seq(Items)
      /\ \A x : /\ Has(queue_tasks', x) <=> Has(cancels, x) \/ Has(kept, x)
                /\ Single(cancels, x) /\ Single(kept, x) /\ ~(Has(cancels, x) /\ Has(kept, x))
                     => Single(queue_tasks', x)
  BY <1>1, <1>4, <1>7, ConcatHas, ConcatProperties
<1>9. /\ \A u \in Tasks : Queued(u)' <=> Queued(u) /\ u # t
      /\ \A u \in Tasks : Has(queue_tasks_deferred', u) <=> Has(d, u) /\ u # t
  BY <1>1, <1>6, <1>7, <1>8, EntryIs DEF Queued
<1>10. OnceIn(queue_tasks', queue_tasks_deferred')
  <2> SUFFICES ASSUME NEW u \in Tasks
               PROVE  /\ Single(queue_tasks', Entry("task", u))
                      /\ Single(queue_tasks_deferred', u)
                      /\ ~(Has(queue_tasks', Entry("task", u)) /\ Has(queue_tasks_deferred', u))
    BY DEF OnceIn
  <2>1. /\ Single(queue_tasks', Entry("task", u)) /\ Single(queue_tasks_deferred', u)
    BY <1>1, <1>2, <1>6, <1>7, <1>8 DEF OnceIn
  <2>2. ~(Has(queue_tasks', Entry("task", u)) /\ Has(queue_tasks_deferred', u))
    BY <1>2, <1>9 DEF OnceIn, Queued
  <2> QED BY <2>1, <2>2
<1>11. ASSUME NEW i \in Ids, Has(queue_tasks', Entry("cancel", i))
       PROVE  Has(q, Entry("cancel", i)) \/ i \in Family(t)
  BY <1>6, <1>7, <1>8, <1>11, EntryIs
<1> QED BY <1>1, <1>7, <1>8, <1>9, <1>10, <1>11

-----------------------------------------------------------------------------
(* The invariant holds initially, and every step keeps it.                 *)

LEMMA PlacesInit == Init => PlacesInv
<1> SUFFICES ASSUME Init PROVE PlacesInv
  OBVIOUS
<1>1. /\ queue_tasks = <<>> /\ queue_tasks_deferred = <<>> /\ popped = NoTask
      /\ task = [s \in Slots |-> NoTask] /\ sent = [i \in Ids |-> "none"]
      /\ posted = {} /\ stopped = {}
  BY DEF Init
<1>2. queue_tasks \in Seq(Items) /\ queue_tasks_deferred \in Seq(Tasks)
      /\ queue_tasks \in Seq([type : {"task", "cancel", "next"}, id : Ids \cup {NoTask}])
  BY <1>1, EmptySeq
<1>3. Types
  BY <1>1, <1>2, SlotZero DEF Init, Types, TypeOK, MainStates, SlotStates, StartedIsParent
<1>4. ~\E t \in Tasks : Waits(t)
  BY <1>1, EmptyHas, Families DEF Waits, Queued
<1>5. ~\E i \in Ids : Runs(i)
  BY <1>1, Families DEF Runs
<1>6. Once
  BY <1>1, EmptyHas, Families DEF Once, OnceIn
<1>7. Unanswered
  BY <1>1, <1>4, <1>5, Families DEF Unanswered
<1>8. Held /\ Stopped
  BY <1>1, EmptyHas DEF Held, Stopped
<1> QED BY <1>3, <1>6, <1>7, <1>8 DEF PlacesInv

\* The queue holds items.
LEMMA ItemTypes ==
  ASSUME NEW q \in Seq(Items)
  PROVE  q \in Seq([type : {"task", "cancel", "next"}, id : Ids \cup {NoTask}])
<1> DEFINE E == [type : {"task", "cancel", "next"}, id : Ids \cup {NoTask}]
<1>1. Items \subseteq E
  BY ItemsAre
<1> HIDE DEF E
<1>2. q \in Seq(E)
  BY <1>1, SeqMonotonic
<1> QED BY <1>2 DEF E

\* A step that moves no task and answers none.
LEMMA StillStep ==
  ASSUME PlacesInv, Types', UNCHANGED <<queues, popped, task, sent, client>>
  PROVE  PlacesInv'
<1>1. \A i : Runs(i)' <=> Runs(i)
  BY DEF Runs
<1>2. \A t : (Queued(t)' <=> Queued(t)) /\ (Waits(t)' <=> Waits(t)) /\ (Failed(t)' <=> Failed(t))
  BY DEF Queued, Waits, Failed, queues
<1>3. Once'
  BY <1>2 DEF PlacesInv, Once, queues
<1>4. Unanswered'
  BY <1>1, <1>2 DEF PlacesInv, Unanswered, client
<1>5. Held' /\ Stopped'
  BY <1>1, <1>2 DEF PlacesInv, Held, Stopped, queues, client
<1> QED BY <1>3, <1>4, <1>5 DEF PlacesInv

\* A slot ends its task: with a result, or because its request is stopped.
LEMMA EndStep ==
  ASSUME PlacesInv, NEW s \in Slots, state[s] # "idle",
         NEW q \in Seq(Items), PopDeferred(s, q),
         \A e : Single(queue_tasks, e) => Single(q, e),
         \A t \in Tasks : Has(q, Entry("task", t)) <=> Queued(t),
         \A i \in Ids : Has(q, Entry("cancel", i)) => Has(queue_tasks, Entry("cancel", i)),
         state' = [state EXCEPT ![s] = "idle"], task' = [task EXCEPT ![s] = NoTask],
         prompt' \in [Slots -> Prompts \cup {NoPrompt}], mpc' \in MainStates, cur' \in 0..N,
         UNCHANGED <<popped, cache, client>>,
         sent' \in [Ids -> {"none", "final", "error"}],
         \A i \in Ids : i # task[s] => sent'[i] = sent[i],
         sent'[task[s]] # "none" \/ \E t \in stopped : task[s] \in Family(t)
  PROVE  PlacesInv'
<1> DEFINE d == queue_tasks_deferred  z == task[s]
<1>1. d \in Seq(Tasks) /\ OnceIn(q, d)
  BY DEF PlacesInv, Types, TypeOK, Once, OnceIn, Queued
<1>2. /\ queue_tasks' \in Seq(Items) /\ queue_tasks_deferred' \in Seq(Tasks)
      /\ OnceIn(queue_tasks', queue_tasks_deferred')
      /\ \A t \in Tasks : Queued(t)' \/ Has(queue_tasks_deferred', t)
                            <=> Queued(t) \/ Has(d, t)
      /\ \A i \in Ids : Has(queue_tasks', Entry("cancel", i))
                          => Has(queue_tasks, Entry("cancel", i))
  BY <1>1, PopDeferredMoves
<1>3. task \in [Slots -> Ids \cup {NoTask}] /\ NoTask \notin Ids /\ z \in Ids
  BY Families DEF PlacesInv, Types, TypeOK
<1>4. Types'
  <2>1. /\ queue_tasks' \in Seq([type : {"task", "cancel", "next"}, id : Ids \cup {NoTask}])
    BY <1>2, ItemTypes
  <2>2. state' \in [Slots -> SlotStates] /\ task' \in [Slots -> Ids \cup {NoTask}]
        /\ \A x \in Slots : state'[x] = "idle" <=> task'[x] = NoTask
        /\ StartedIsParent'
    BY <1>3 DEF PlacesInv, Types, TypeOK, SlotStates, StartedIsParent
  <2> QED BY <1>2, <2>1, <2>2 DEF PlacesInv, Types, TypeOK, client
<1>5. \A i \in Ids : Runs(i)' <=> Runs(i) /\ i # z
  BY <1>3 DEF PlacesInv, Once, Runs
<1>6. Runs(z)
  BY DEF Runs
<1>7. \A t \in Tasks : Waits(t)' <=> Waits(t)
  BY <1>2 DEF Waits
<1>8. Once'
  <2>1. \A t \in Tasks : popped' = t => ~Queued(t)' /\ ~Has(queue_tasks_deferred', t)
    BY <1>2 DEF PlacesInv, Once
  <2>2. \A y, x \in Slots : task'[y] = task'[x] /\ task'[y] # NoTask => y = x
    BY <1>3 DEF PlacesInv, Once
  <2> QED BY <1>2, <2>1, <2>2 DEF Once
<1>9. sent[z] = "none"
  BY <1>3, <1>6 DEF PlacesInv, Unanswered
<1>10. Unanswered'
  <2>1. ASSUME NEW t \in Tasks, Waits(t)'
        PROVE  t \in posted' /\ \A i \in Family(t) : ~Runs(i)' /\ sent'[i] = "none"
    <3>1. t \in posted /\ \A i \in Family(t) : i \in Ids /\ ~Runs(i) /\ sent[i] = "none"
      BY <1>7, <2>1, Families DEF PlacesInv, Unanswered
    <3>2. z \notin Family(t)
      BY <1>6, <3>1
    <3> QED BY <1>5, <3>1, <3>2 DEF client
  <2>2. \A i \in Ids : Runs(i)' => sent'[i] = "none"
    BY <1>5 DEF PlacesInv, Unanswered
  <2>3. \A t \in Tasks : \A i \in Family(t) : Runs(i)' \/ sent'[i] # "none" => t \in posted'
    BY <1>3, <1>5, <1>6, Families DEF PlacesInv, Unanswered, client
  <2> QED BY <2>1, <2>2, <2>3 DEF Unanswered
<1>11. Held'
  <2> SUFFICES ASSUME NEW t \in posted \ stopped, sent'[t] = "none", ~Failed(t)'
               PROVE  Waits(t)' \/ Runs(t)'
    BY DEF Held, client
  <2>1. t \in Tasks /\ t \in Ids /\ t \in Family(t) /\ stopped \subseteq Tasks
    BY Families DEF PlacesInv, Types, TypeOK
  <2>2. t # z
    BY <2>1, Families
  <2>3. \A i \in Family(t) : i \in Ids /\ sent'[i] # "error"
    BY <2>1, Families DEF Failed
  <2>4. ~Failed(t)
    BY <1>9, <2>3 DEF Failed
  <2> QED BY <1>5, <1>7, <2>1, <2>2, <2>4 DEF PlacesInv, Held
<1>12. Stopped'
  BY <1>2 DEF PlacesInv, Stopped, client
<1> QED BY <1>4, <1>8, <1>10, <1>11, <1>12 DEF PlacesInv

\* slot.release() after a result, and the abort of a slot.
LEMMA ReleaseStep ==
  ASSUME PlacesInv, NEW phase, AtSlot(phase), state[cur] # "idle",
         NEW answer \in {"final", "error"}, sent' = [sent EXCEPT ![task[cur]] = answer],
         state' = [state EXCEPT ![cur] = "idle"], task' = [task EXCEPT ![cur] = NoTask],
         NEW p \in {NoPrompt, prompt[cur]}, prompt' = [prompt EXCEPT ![cur] = p],
         PopDeferred(cur, queue_tasks)
  PROVE  PlacesInv'
<1>1. cur \in Slots /\ cur' \in 0..N
  BY SlotZero DEF PlacesInv, Types, TypeOK, AtSlot, Slots
<1>2. task[cur] \in Ids /\ queue_tasks \in Seq(Items) /\ mpc' \in MainStates
      /\ UNCHANGED <<popped, cache, client>>
  BY <1>1 DEF PlacesInv, Types, TypeOK, AtSlot
<1>3. /\ prompt' \in [Slots -> Prompts \cup {NoPrompt}]
      /\ sent' \in [Ids -> {"none", "final", "error"}] /\ sent'[task[cur]] # "none"
      /\ \A i \in Ids : i # task[cur] => sent'[i] = sent[i]
  BY <1>1, <1>2 DEF PlacesInv, Types, TypeOK
<1>4. \A t \in Tasks : Has(queue_tasks, Entry("task", t)) <=> Queued(t)
  BY DEF Queued
<1> QED BY <1>1, <1>2, <1>3, <1>4, EndStep

LEMMA CancelStep ==
  ASSUME PlacesInv, ProcessCancel
  PROVE  PlacesInv'
<1> DEFINE i == Head(queue_tasks).id  q == Tail(queue_tasks)
<1>1. /\ queue_tasks # <<>> /\ Head(queue_tasks).type = "cancel"
      /\ mpc' = "pop" /\ UNCHANGED <<popped, cur, cache, sent, client>>
  BY DEF ProcessCancel
<1>2. queue_tasks \in Seq(Items) /\ q \in Seq(Items) /\ Head(queue_tasks) \in Items
  BY <1>1, HeadTailProperties DEF PlacesInv, Types
<1>3. i \in Ids /\ Head(queue_tasks) = Entry("cancel", i)
  BY <1>1, <1>2, EntryIs DEF Items, TaskEntries
<1>4. \E t \in stopped : i \in Family(t)
  BY <1>1, <1>2, <1>3, TailHas DEF PlacesInv, Stopped
<1>5. /\ \A e : Single(queue_tasks, e) => Single(q, e)
      /\ \A t \in Tasks : Has(q, Entry("task", t)) <=> Queued(t)
      /\ \A j \in Ids : Has(q, Entry("cancel", j)) => Has(queue_tasks, Entry("cancel", j))
  BY <1>1, <1>2, <1>3, TailHas, EntryIs DEF Queued
<1>6. CASE queue_tasks' = q /\ UNCHANGED <<queue_tasks_deferred, slots>>
  <2>1. Types'
    <3>1. queue_tasks' \in Seq([type : {"task", "cancel", "next"}, id : Ids \cup {NoTask}])
      BY <1>2, <1>6, ItemTypes
    <3> QED
      BY <1>1, <1>2, <1>6, <3>1
      DEF PlacesInv, Types, TypeOK, MainStates, client, slots, StartedIsParent
  <2>2. \A j : Runs(j)' <=> Runs(j)
    BY <1>6 DEF Runs, slots
  <2>3. \A t \in Tasks : (Queued(t)' <=> Queued(t)) /\ (Waits(t)' <=> Waits(t))
    BY <1>1, <1>5, <1>6 DEF Queued, Waits
  <2>4. \A t : Failed(t)' <=> Failed(t)
    BY <1>1 DEF Failed
  <2>5. Once'
    BY <1>1, <1>5, <1>6, <2>3 DEF PlacesInv, Once, OnceIn, Queued, slots
  <2>6. Unanswered'
    BY <1>1, <2>2, <2>3 DEF PlacesInv, Unanswered, client
  <2>7. Held'
    <3> SUFFICES ASSUME NEW t \in posted \ stopped, sent[t] = "none", ~Failed(t)
                 PROVE  Waits(t)' \/ Runs(t)'
      BY <1>1, <2>4 DEF Held, client
    <3>1. t \in Tasks
      BY DEF PlacesInv, Types, TypeOK
    <3> QED BY <2>2, <2>3, <3>1 DEF PlacesInv, Held
  <2>8. Stopped'
    BY <1>1, <1>5, <1>6 DEF PlacesInv, Stopped, client
  <2> QED BY <2>1, <2>5, <2>6, <2>7, <2>8 DEF PlacesInv
<1>7. ASSUME NEW s \in Slots, state[s] # "idle", task[s] = i, Release(s, q)
      PROVE  PlacesInv'
  <2>1. /\ state' = [state EXCEPT ![s] = "idle"] /\ task' = [task EXCEPT ![s] = NoTask]
        /\ prompt' \in [Slots -> Prompts \cup {NoPrompt}] /\ PopDeferred(s, q)
    BY <1>7 DEF PlacesInv, Types, TypeOK, Release
  <2>2. /\ mpc' \in MainStates /\ cur' \in 0..N /\ sent' \in [Ids -> {"none", "final", "error"}]
        /\ \A j \in Ids : sent'[j] = sent[j]
    BY <1>1 DEF PlacesInv, Types, TypeOK, MainStates
  <2> HIDE DEF i, q
  <2> QED BY <1>1, <1>2, <1>4, <1>5, <1>7, <2>1, <2>2, EndStep
<1>8. \/ queue_tasks' = q /\ UNCHANGED <<queue_tasks_deferred, slots>>
      \/ \E s \in Slots : state[s] # "idle" /\ task[s] = i /\ Release(s, q)
  BY DEF ProcessCancel, is_processing
<1> QED BY <1>6, <1>7, <1>8

LEMMA PostStep ==
  ASSUME PlacesInv, NEW t \in Tasks, Post(t)
  PROVE  PlacesInv'
<1>1. /\ t \notin posted /\ posted' = posted \cup {t} /\ stopped' = stopped
      /\ queue_tasks' = Append(queue_tasks, Entry("task", t))
      /\ UNCHANGED <<queue_tasks_deferred, popped, mpc, cur, state, task, prompt, cache, sent>>
  BY DEF Post, slots
<1>2. queue_tasks \in Seq(Items) /\ Entry("task", t) \in Items
  BY ItemsAre DEF PlacesInv, Types
<1>3. queue_tasks' \in Seq(Items)
  BY <1>1, <1>2, AppendProperties
<1>4. Types'
  <2>1. queue_tasks' \in Seq([type : {"task", "cancel", "next"}, id : Ids \cup {NoTask}])
    BY <1>3, ItemTypes
  <2> QED BY <1>1, <1>3, <2>1 DEF PlacesInv, Types, TypeOK, StartedIsParent
<1>5. ~Waits(t) /\ \A i \in Family(t) : ~Runs(i) /\ sent[i] = "none"
  BY <1>1 DEF PlacesInv, Unanswered
<1>6. ASSUME NEW x
      PROVE  /\ Has(queue_tasks', x) <=> Has(queue_tasks, x) \/ x = Entry("task", t)
             /\ Single(queue_tasks, x) /\ (x = Entry("task", t) => ~Has(queue_tasks, x))
                  => Single(queue_tasks', x)
  BY <1>1, <1>2, AppendHas
<1>7. \A u \in Tasks : (Queued(u)' <=> Queued(u) \/ u = t) /\ (Waits(u)' <=> Waits(u) \/ u = t)
  BY <1>1, <1>6, EntryIs DEF Queued, Waits
<1>8. (\A i : Runs(i)' <=> Runs(i)) /\ (\A u : Failed(u)' <=> Failed(u))
  BY <1>1 DEF Runs, Failed
<1>9. Once'
  <2>1. ASSUME NEW u \in Tasks
        PROVE  /\ Single(queue_tasks', Entry("task", u)) /\ Single(queue_tasks_deferred', u)
               /\ ~(Has(queue_tasks', Entry("task", u)) /\ Has(queue_tasks_deferred', u))
               /\ popped' = u => ~Queued(u)' /\ ~Has(queue_tasks_deferred', u)
    BY <1>1, <1>5, <1>6, EntryIs DEF PlacesInv, Once, OnceIn, Queued, Waits
  <2> QED BY <1>1, <2>1 DEF PlacesInv, Once, OnceIn
<1>10. Unanswered'
  BY <1>1, <1>5, <1>7, <1>8 DEF PlacesInv, Unanswered
<1>11. Held'
  <2> SUFFICES ASSUME NEW u \in posted' \ stopped, sent[u] = "none", ~Failed(u)
               PROVE  Waits(u)' \/ Runs(u)'
    BY <1>1, <1>8 DEF Held
  <2>1. u \in Tasks /\ (u = t \/ u \in posted)
    BY <1>1 DEF PlacesInv, Types, TypeOK
  <2> QED BY <1>7, <1>8, <2>1 DEF PlacesInv, Held
<1>12. Stopped'
  BY <1>1, <1>6, EntryIs DEF PlacesInv, Stopped
<1> QED BY <1>4, <1>9, <1>10, <1>11, <1>12 DEF PlacesInv

LEMMA StopStep ==
  ASSUME PlacesInv, NEW t \in Tasks, Stop(t)
  PROVE  PlacesInv'
<1>1. /\ t \in posted /\ stopped' = stopped \cup {t} /\ posted' = posted
      /\ UNCHANGED <<popped, mpc, cur, state, task, prompt, cache, sent>>
  BY DEF Stop, slots
<1>2. /\ queue_tasks' \in Seq(Items) /\ queue_tasks_deferred' \in Seq(Tasks)
      /\ OnceIn(queue_tasks', queue_tasks_deferred')
      /\ \A u \in Tasks : Queued(u)' <=> Queued(u) /\ u # t
      /\ \A u \in Tasks : Has(queue_tasks_deferred', u) <=> Has(queue_tasks_deferred, u) /\ u # t
      /\ \A i \in Ids : Has(queue_tasks', Entry("cancel", i))
                          => Has(queue_tasks, Entry("cancel", i)) \/ i \in Family(t)
  BY StopMoves
<1>3. Types'
  <2>1. queue_tasks' \in Seq([type : {"task", "cancel", "next"}, id : Ids \cup {NoTask}])
    BY <1>2, ItemTypes
  <2> QED BY <1>1, <1>2, <2>1 DEF PlacesInv, Types, TypeOK, StartedIsParent
<1>4. \A u \in Tasks : (Waits(u)' => Waits(u)) /\ (u # t => (Waits(u)' <=> Waits(u)))
  BY <1>1, <1>2 DEF Waits
<1>5. (\A i : Runs(i)' <=> Runs(i)) /\ (\A u : Failed(u)' <=> Failed(u))
  BY <1>1 DEF Runs, Failed
<1>6. Once'
  BY <1>1, <1>2 DEF PlacesInv, Once
<1>7. Unanswered'
  BY <1>1, <1>4, <1>5 DEF PlacesInv, Unanswered
<1>8. Held'
  <2> SUFFICES ASSUME NEW u \in posted \ (stopped \cup {t}), sent[u] = "none", ~Failed(u)
               PROVE  Waits(u)' \/ Runs(u)'
    BY <1>1, <1>5 DEF Held
  <2>1. u \in Tasks
    BY DEF PlacesInv, Types, TypeOK
  <2> QED BY <1>4, <1>5, <2>1 DEF PlacesInv, Held
<1>9. Stopped'
  BY <1>1, <1>2 DEF PlacesInv, Stopped
<1> QED BY <1>3, <1>6, <1>7, <1>8, <1>9 DEF PlacesInv

\* A task goes from the head of the queue to the main thread.
LEMMA PopStep ==
  ASSUME PlacesInv, PopTask
  PROVE  PlacesInv'
<1> DEFINE h == Head(queue_tasks)
<1>1. /\ popped = NoTask /\ queue_tasks # <<>> /\ h.type # "cancel" /\ mpc' = "pop"
      /\ queue_tasks' = Tail(queue_tasks) /\ popped' = h.id
      /\ UNCHANGED <<queue_tasks_deferred, cur, state, task, prompt, cache, sent, posted, stopped>>
  BY DEF PopTask, slots, client
<1>2. queue_tasks \in Seq(Items) /\ h \in Items /\ queue_tasks' \in Seq(Items)
  BY <1>1, HeadTailProperties DEF PlacesInv, Types
<1>3. \/ popped' \in Tasks /\ h = Entry("task", popped')
      \/ popped' = NoTask /\ h = Entry("next", NoTask)
  BY <1>1, <1>2, EntryIs DEF Items, TaskEntries
<1>4. ASSUME NEW x
      PROVE  /\ Has(queue_tasks, x) <=> x = h \/ Has(queue_tasks', x)
             /\ Single(queue_tasks, x) => Single(queue_tasks', x)
             /\ Single(queue_tasks, x) /\ x = h => ~Has(queue_tasks', x)
  BY <1>1, <1>2, TailHas
<1> HIDE DEF h
<1>5. NoTask \notin Tasks
  BY Families
<1>6. ASSUME NEW t \in Tasks
      PROVE  /\ Queued(t) <=> popped' = t \/ Queued(t)'
             /\ popped' = t => ~Queued(t)' /\ ~Has(queue_tasks_deferred, t)
             /\ Waits(t)' <=> Waits(t)
  <2>1. /\ Single(queue_tasks, Entry("task", t))
        /\ ~(Queued(t) /\ Has(queue_tasks_deferred, t))
    BY DEF PlacesInv, Once, OnceIn, Queued
  <2>2. Entry("task", t) = h <=> popped' = t
    BY <1>3, <1>5, EntryIs
  <2>3. /\ Queued(t) <=> popped' = t \/ Queued(t)'
        /\ popped' = t => ~Queued(t)'
    BY <1>4, <2>1, <2>2 DEF Queued
  <2>4. Waits(t)' <=> Waits(t)
    BY <1>1, <1>5, <2>3 DEF Waits
  <2> QED BY <2>1, <2>3, <2>4
<1>7. Types'
  <2>1. queue_tasks' \in Seq([type : {"task", "cancel", "next"}, id : Ids \cup {NoTask}])
    BY <1>2, ItemTypes
  <2>2. popped' \in Tasks \cup {NoTask} /\ mpc' \in MainStates
    BY <1>1, <1>3 DEF MainStates
  <2> QED BY <1>1, <1>2, <2>1, <2>2 DEF PlacesInv, Types, TypeOK, StartedIsParent
<1>8. (\A i : Runs(i)' <=> Runs(i)) /\ (\A u : Failed(u)' <=> Failed(u))
  BY <1>1 DEF Runs, Failed
<1>9. Once'
  <2>1. OnceIn(queue_tasks', queue_tasks_deferred')
    BY <1>1, <1>4, <1>6 DEF PlacesInv, Once, OnceIn, Queued
  <2> QED BY <1>1, <1>6, <2>1 DEF PlacesInv, Once
<1>10. Unanswered'
  BY <1>1, <1>6, <1>8 DEF PlacesInv, Unanswered
<1>11. Held'
  <2> SUFFICES ASSUME NEW u \in posted \ stopped, sent[u] = "none", ~Failed(u)
               PROVE  Waits(u)' \/ Runs(u)'
    BY <1>1, <1>8 DEF Held
  <2>1. u \in Tasks
    BY DEF PlacesInv, Types, TypeOK
  <2> QED BY <1>6, <1>8, <2>1 DEF PlacesInv, Held
<1>12. Stopped'
  BY <1>1, <1>4 DEF PlacesInv, Stopped
<1> QED BY <1>7, <1>9, <1>10, <1>11, <1>12 DEF PlacesInv

\* The popped task is deferred.
LEMMA DeferTaskStep ==
  ASSUME PlacesInv, NEW t \in Tasks, popped = t, Defer(t),
         prompt' \in [Slots -> Prompts \cup {NoPrompt}], cache' \subseteq Prompts
  PROVE  PlacesInv'
<1>1. /\ queue_tasks_deferred' = Append(queue_tasks_deferred, t) /\ popped' = NoTask
      /\ UNCHANGED <<queue_tasks, mpc, cur, state, task, sent, posted, stopped>>
  BY DEF Defer, client
<1>2. queue_tasks_deferred \in Seq(Tasks) /\ queue_tasks_deferred' \in Seq(Tasks)
  BY <1>1, AppendProperties DEF PlacesInv, Types, TypeOK
<1>3. NoTask \notin Tasks
  BY Families
<1>4. ~Queued(t) /\ ~Has(queue_tasks_deferred, t)
  BY DEF PlacesInv, Once
<1>5. ASSUME NEW u
      PROVE  /\ Has(queue_tasks_deferred', u) <=> Has(queue_tasks_deferred, u) \/ u = t
             /\ Single(queue_tasks_deferred, u) /\ (u = t => ~Has(queue_tasks_deferred, u))
                  => Single(queue_tasks_deferred', u)
  BY <1>1, <1>2, AppendHas
<1>6. Types'
  BY <1>1, <1>2 DEF PlacesInv, Types, TypeOK, StartedIsParent
<1>7. \A u \in Tasks : (Queued(u)' <=> Queued(u)) /\ (Waits(u)' <=> Waits(u))
  BY <1>1, <1>3, <1>5 DEF Queued, Waits
<1>8. (\A i : Runs(i)' <=> Runs(i)) /\ (\A u : Failed(u)' <=> Failed(u))
  BY <1>1 DEF Runs, Failed
<1>9. Once'
  <2>1. OnceIn(queue_tasks', queue_tasks_deferred')
    BY <1>1, <1>4, <1>5 DEF PlacesInv, Once, OnceIn, Queued
  <2> QED BY <1>1, <1>3, <2>1 DEF PlacesInv, Once
<1>10. Unanswered'
  BY <1>1, <1>7, <1>8 DEF PlacesInv, Unanswered
<1>11. Held'
  <2> SUFFICES ASSUME NEW u \in posted \ stopped, sent[u] = "none", ~Failed(u)
               PROVE  Waits(u)' \/ Runs(u)'
    BY <1>1, <1>8 DEF Held
  <2>1. u \in Tasks
    BY DEF PlacesInv, Types, TypeOK
  <2> QED BY <1>7, <1>8, <2>1 DEF PlacesInv, Held
<1>12. Stopped'
  BY <1>1 DEF PlacesInv, Stopped
<1> QED BY <1>6, <1>9, <1>10, <1>11, <1>12 DEF PlacesInv

\* The popped task is answered without a slot.
LEMMA AnswerStep ==
  ASSUME PlacesInv, NEW t \in Tasks, popped = t, popped' = NoTask,
         NEW i \in Family(t), NEW answer \in {"final", "error"},
         i = t \/ answer = "error", sent' = [sent EXCEPT ![i] = answer],
         prompt' \in [Slots -> Prompts \cup {NoPrompt}], cache' \subseteq Prompts,
         UNCHANGED <<queues, mpc, cur, state, task, client>>
  PROVE  PlacesInv'
<1>1. Types'
  <2>1. i \in Ids
    BY Families
  <2> QED BY <2>1 DEF PlacesInv, Types, TypeOK, queues, client, StartedIsParent
<1>2. NoTask \notin Tasks
  BY Families
<1>3. ~Queued(t) /\ ~Has(queue_tasks_deferred, t) /\ Waits(t)
  BY DEF PlacesInv, Once, Waits
<1>4. t \in posted /\ \A j \in Family(t) : ~Runs(j) /\ sent[j] = "none"
  BY <1>3 DEF PlacesInv, Unanswered
<1>5. \A u \in Tasks : (Queued(u)' <=> Queued(u)) /\ (Waits(u)' <=> Waits(u) /\ u # t)
  BY <1>2, <1>3 DEF Queued, Waits, queues
<1>6. \A j : Runs(j)' <=> Runs(j)
  BY DEF Runs
<1>7. /\ sent \in [Ids -> {"none", "final", "error"}] /\ i \in Ids
      /\ \A j \in Ids : sent'[j] = IF j = i THEN answer ELSE sent[j]
  BY Families DEF PlacesInv, Types, TypeOK
<1>8. Once'
  BY <1>2 DEF PlacesInv, Once, Queued, queues
<1>9. Unanswered'
  <2>1. ASSUME NEW u \in Tasks, Waits(u)'
        PROVE  u \in posted' /\ \A j \in Family(u) : ~Runs(j)' /\ sent'[j] = "none"
    <3>1. u # t /\ u \in posted /\ \A j \in Family(u) : ~Runs(j) /\ sent[j] = "none"
      BY <1>5, <2>1 DEF PlacesInv, Unanswered
    <3>2. \A j \in Family(u) : j \in Ids /\ j # i
      BY <3>1, Families
    <3> QED BY <1>6, <1>7, <3>1, <3>2 DEF client
  <2>2. \A j \in Ids : Runs(j)' => sent'[j] = "none"
    BY <1>4, <1>6, <1>7 DEF PlacesInv, Unanswered
  <2>3. \A u \in Tasks : \A j \in Family(u) : Runs(j)' \/ sent'[j] # "none" => u \in posted'
    BY <1>4, <1>6, <1>7, Families DEF PlacesInv, Unanswered, client
  <2> QED BY <2>1, <2>2, <2>3 DEF Unanswered
<1>10. Held'
  <2> SUFFICES ASSUME NEW u \in posted \ stopped, sent'[u] = "none", ~Failed(u)'
               PROVE  Waits(u)' \/ Runs(u)'
    BY DEF Held, client
  <2>1. u \in Tasks /\ u \in Ids
    BY Families DEF PlacesInv, Types, TypeOK
  <2>2. u # t
    BY <1>7 DEF Failed
  <2>3. i \notin Family(u) /\ \A j \in Family(u) : j \in Ids
    BY <2>1, <2>2, Families
  <2>4. sent[u] = "none" /\ ~Failed(u)
    BY <1>7, <2>1, <2>3, Families DEF Failed
  <2> QED BY <1>5, <1>6, <2>1, <2>2, <2>4 DEF PlacesInv, Held
<1>11. Stopped'
  BY DEF PlacesInv, Stopped, queues, client
<1> QED BY <1>1, <1>8, <1>9, <1>10, <1>11 DEF PlacesInv

\* NEXT_RESPONSE is no task and no CANCEL.
LEMMA UpdateStep ==
  ASSUME PlacesInv, UpdateSlots
  PROVE  PlacesInv'
<1>1. /\ queue_tasks = <<>>
      /\ UNCHANGED <<queue_tasks_deferred, popped, slots, cache, sent, client>>
      /\ mpc' \in {"wait", "pre"} /\ cur' \in {cur, 0}
      /\ queue_tasks' = queue_tasks \/ queue_tasks' = <<Entry("next", NoTask)>>
  BY DEF UpdateSlots
<1>2. mpc' \in MainStates /\ cur' \in 0..N
  <2>1. N \in Nat
    BY SlotZero
  <2> QED BY <1>1, <2>1 DEF PlacesInv, Types, TypeOK, MainStates
<1>3. CASE queue_tasks' = queue_tasks
  <2>1. Types'
    BY <1>1, <1>2, <1>3 DEF PlacesInv, Types, TypeOK, slots, client, StartedIsParent
  <2> QED BY <1>1, <1>3, <2>1, StillStep DEF queues, slots
<1>4. CASE queue_tasks' = <<Entry("next", NoTask)>>
  <2>1. queue_tasks' \in Seq(Items)
    BY <1>4, ItemsAre
  <2>2. Types'
    <3>1. queue_tasks' \in Seq([type : {"task", "cancel", "next"}, id : Ids \cup {NoTask}])
      BY <2>1, ItemTypes
    <3> QED BY <1>1, <1>2, <2>1, <3>1 DEF PlacesInv, Types, TypeOK, slots, client, StartedIsParent
  <2>3. /\ \A x : Has(queue_tasks', x) => x = Entry("next", NoTask)
        /\ \A x : Single(queue_tasks', x)
    BY <1>4 DEF Has, Single
  <2>4. /\ \A t \in Tasks : ~Has(queue_tasks', Entry("task", t)) /\ ~Queued(t)
        /\ \A i \in Ids : ~Has(queue_tasks', Entry("cancel", i))
    BY <1>1, <2>3, EmptyHas, EntryIs DEF Queued
  <2>5. \A t \in Tasks : (Queued(t)' <=> Queued(t)) /\ (Waits(t)' <=> Waits(t))
    BY <1>1, <2>4 DEF Queued, Waits
  <2>6. (\A i : Runs(i)' <=> Runs(i)) /\ (\A u : Failed(u)' <=> Failed(u))
    BY <1>1 DEF Runs, Failed, slots
  <2>7. Once'
    BY <1>1, <2>3, <2>4, <2>5 DEF PlacesInv, Once, OnceIn, slots
  <2>8. Unanswered'
    BY <1>1, <2>5, <2>6 DEF PlacesInv, Unanswered, client
  <2>9. Held'
    <3> SUFFICES ASSUME NEW u \in posted \ stopped, sent[u] = "none", ~Failed(u)
                 PROVE  Waits(u)' \/ Runs(u)'
      BY <1>1, <2>6 DEF Held, client
    <3>1. u \in Tasks
      BY DEF PlacesInv, Types, TypeOK
    <3> QED BY <2>5, <2>6, <3>1 DEF PlacesInv, Held
  <2>10. Stopped'
    BY <2>4 DEF Stopped
  <2> QED BY <2>2, <2>7, <2>8, <2>9, <2>10 DEF PlacesInv
<1> QED BY <1>1, <1>3, <1>4

\* What get_available_slot leaves behind.
LEMMA ChoiceTypes ==
  ASSUME PlacesInv, NEW t \in Tasks, NEW s \in Candidates(t)
  PROVE  /\ PromptsFor(t, s) \in [Slots -> Prompts \cup {NoPrompt}]
         /\ CacheFor(t, s) \subseteq Prompts
<1>1. s \in Slots /\ Prompt[t] \in Prompts \cup {NoPrompt}
  BY CandidateSlots, SlotsAssumption DEF SlotsAssumption
<1>2. prompt \in [Slots -> Prompts \cup {NoPrompt}] /\ cache \subseteq Prompts
  BY DEF PlacesInv, Types, TypeOK
<1>3. prompt[s] \in Prompts \cup {NoPrompt}
  BY <1>1, <1>2
<1> QED BY <1>1, <1>2, <1>3 DEF PromptsFor, CacheFor, Saved

\* A family takes idle slots, one each.
LEMMA LaunchStep ==
  ASSUME PlacesInv, NEW t \in Tasks, Launch(t)
  PROVE  PlacesInv'
<1>1. popped = t /\ popped' = NoTask /\ UNCHANGED <<queues, mpc, cur, sent, client>>
  BY DEF Launch
<1>2. PICK s \in Candidates(t) :
        /\ ~is_processing(s)
        /\ \E kids \in SUBSET (Free \ {s}) :
              /\ \E child \in Bijection(kids, Children[t]) :
                   task' = [x \in Slots |-> IF x = s THEN t ELSE
                                            IF x \in kids THEN child[x] ELSE task[x]]
              /\ state' = [x \in Slots |-> IF x = s THEN "started" ELSE
                                           IF x \in kids THEN "wait_other" ELSE state[x]]
              /\ CacheIdleSlots(PromptsFor(t, s), CacheFor(t, s), Free \ (kids \cup {s}))
  BY DEF Launch
<1>3. PICK kids \in SUBSET (Free \ {s}) :
        /\ \E child \in Bijection(kids, Children[t]) :
             task' = [x \in Slots |-> IF x = s THEN t ELSE
                                      IF x \in kids THEN child[x] ELSE task[x]]
        /\ state' = [x \in Slots |-> IF x = s THEN "started" ELSE
                                     IF x \in kids THEN "wait_other" ELSE state[x]]
        /\ CacheIdleSlots(PromptsFor(t, s), CacheFor(t, s), Free \ (kids \cup {s}))
  BY <1>2
<1>4. PICK child \in Bijection(kids, Children[t]) :
        task' = [x \in Slots |-> IF x = s THEN t ELSE
                                 IF x \in kids THEN child[x] ELSE task[x]]
  BY <1>3
<1>5. s \in Slots /\ kids \subseteq Slots /\ s \notin kids
      /\ \A x \in kids \cup {s} : task[x] = NoTask
  BY <1>2, CandidateSlots DEF Free, is_processing, PlacesInv, Types
<1>6. /\ \A x \in kids : child[x] \in Children[t]
      /\ \A x, y \in kids : child[x] = child[y] => x = y
      /\ \A i \in Children[t] : \E x \in kids : child[x] = i
  BY <1>4 DEF Bijection, Injection, Surjection, IsInjective
<1>7. /\ Family(t) = {t} \cup Children[t] /\ t \notin Children[t] /\ Family(t) \subseteq Ids
      /\ NoTask \notin Ids
  BY SlotsAssumption, Families DEF SlotsAssumption, Family
<1>8. task \in [Slots -> Ids \cup {NoTask}] /\ state \in [Slots -> SlotStates]
  BY DEF PlacesInv, Types, TypeOK
<1>9. \A x \in Slots : task'[x] = IF x = s THEN t ELSE IF x \in kids THEN child[x] ELSE task[x]
  BY <1>4
<1>10. Types'
  <2>1. task' \in [Slots -> Ids \cup {NoTask}]
    BY <1>4, <1>6, <1>7, <1>8
  <2>2. state' \in [Slots -> SlotStates]
    BY <1>3, <1>8 DEF SlotStates
  <2>3. /\ \A x \in Slots : state'[x] = "idle" <=> task'[x] = NoTask
        /\ StartedIsParent'
    BY <1>3, <1>6, <1>7, <1>9 DEF PlacesInv, Types, StartedIsParent
  <2>4. prompt' \in [Slots -> Prompts \cup {NoPrompt}] /\ cache' \subseteq Prompts
    <3>1. /\ PromptsFor(t, s) \in [Slots -> Prompts \cup {NoPrompt}]
          /\ CacheFor(t, s) \subseteq Prompts
      BY ChoiceTypes
    <3>2. Free \subseteq Slots
      BY DEF Free
    <3> QED BY <1>3, <3>1, <3>2 DEF CacheIdleSlots
  <2> QED
    BY <1>1, <2>1, <2>2, <2>3, <2>4 DEF PlacesInv, Types, TypeOK, queues, client, StartedIsParent
<1>11. t \in posted /\ \A i \in Family(t) : ~Runs(i) /\ sent[i] = "none"
  BY <1>1 DEF PlacesInv, Unanswered, Waits
<1>12. \A i \in Ids : Runs(i)' <=> Runs(i) \/ i \in Family(t)
  <2> TAKE i \in Ids
  <2>1. ASSUME Runs(i)' PROVE Runs(i) \/ i \in Family(t)
    BY <1>6, <1>7, <1>9, <2>1 DEF Runs
  <2>2. ASSUME Runs(i) PROVE Runs(i)'
    <3>1. PICK x \in Slots : task[x] = i
      BY <2>2 DEF Runs
    <3>2. x # s /\ x \notin kids
      BY <1>5, <1>7, <3>1
    <3> QED BY <1>9, <3>1, <3>2 DEF Runs
  <2>3. ASSUME i \in Family(t) PROVE Runs(i)'
    <3>1. CASE i = t
      BY <1>5, <1>9, <3>1 DEF Runs
    <3>2. CASE i # t
      <4>1. PICK x \in kids : child[x] = i
        BY <1>6, <1>7, <2>3, <3>2
      <4> QED BY <1>5, <1>9, <4>1 DEF Runs
    <3> QED BY <3>1, <3>2
  <2> QED BY <2>1, <2>2, <2>3
<1>13. NoTask \notin Tasks /\ ~Queued(t) /\ ~Has(queue_tasks_deferred, t)
  BY <1>1, Families DEF PlacesInv, Once
<1>14. \A u \in Tasks : (Queued(u)' <=> Queued(u)) /\ (Waits(u)' <=> Waits(u) /\ u # t)
  BY <1>1, <1>13 DEF Queued, Waits, queues
<1>15. \A u : Failed(u)' <=> Failed(u)
  BY <1>1 DEF Failed
<1>16. Once'
  <2>1. ASSUME NEW x \in Slots, NEW y \in Slots, task'[x] = task'[y], task'[x] # NoTask
        PROVE  x = y
    <3>1. CASE x \in kids \cup {s} /\ y \in kids \cup {s}
      BY <1>6, <1>7, <1>9, <2>1, <3>1
    <3>2. CASE x \notin kids \cup {s} /\ y \notin kids \cup {s}
      BY <1>9, <2>1, <3>2 DEF PlacesInv, Once
    <3>3. ASSUME NEW v \in kids \cup {s}, NEW w \in Slots, w \notin kids \cup {s}
          PROVE  task'[v] # task'[w]
      <4>1. task'[v] \in Family(t)
        BY <1>5, <1>6, <1>7, <1>9
      <4>2. task'[w] = task[w]
        BY <1>9, <3>3
      <4> QED BY <1>11, <4>1, <4>2 DEF Runs
    <3> QED BY <2>1, <3>1, <3>2, <3>3
  <2> QED BY <1>1, <1>13, <1>14, <2>1 DEF PlacesInv, Once, queues
<1>17. Unanswered'
  <2>1. ASSUME NEW u \in Tasks, Waits(u)'
        PROVE  u \in posted' /\ \A i \in Family(u) : ~Runs(i)' /\ sent'[i] = "none"
    <3>1. u # t /\ u \in posted /\ \A i \in Family(u) : i \in Ids /\ ~Runs(i) /\ sent[i] = "none"
      BY <1>14, <2>1, Families DEF PlacesInv, Unanswered
    <3>2. \A i \in Family(u) : i \notin Family(t)
      BY <3>1, Families
    <3> QED BY <1>1, <1>12, <3>1, <3>2 DEF client
  <2>2. \A i \in Ids : Runs(i)' => sent'[i] = "none"
    BY <1>1, <1>11, <1>12 DEF PlacesInv, Unanswered
  <2>3. ASSUME NEW u \in Tasks, NEW i \in Family(u), Runs(i)' \/ sent'[i] # "none"
        PROVE  u \in posted'
    <3>1. i \in Ids /\ (i \in Family(t) => u = t)
      BY Families
    <3> QED BY <1>1, <1>11, <1>12, <2>3, <3>1 DEF PlacesInv, Unanswered, client
  <2> QED BY <2>1, <2>2, <2>3 DEF Unanswered
<1>18. Held'
  <2> SUFFICES ASSUME NEW u \in posted \ stopped, sent[u] = "none", ~Failed(u)
               PROVE  Waits(u)' \/ Runs(u)'
    BY <1>1, <1>15 DEF Held, client
  <2>1. u \in Tasks /\ u \in Ids /\ u \in Family(u)
    BY Families DEF PlacesInv, Types, TypeOK
  <2> QED BY <1>12, <1>14, <2>1 DEF PlacesInv, Held
<1>19. Stopped'
  BY <1>1 DEF PlacesInv, Stopped, queues, client
<1> QED BY <1>10, <1>16, <1>17, <1>18, <1>19 DEF PlacesInv

\* Slots that change neither their task nor the queues.
LEMMA WorkStep ==
  ASSUME PlacesInv, \/ PreDone \/ DecodeOk \/ DecodeFails \/ PostToken \/ LoopDone
                    \/ PreBatch("processing") \/ PreBatch("done")
                    \/ \E phase \in {"pre", "post", "abort"} : SkipSlot(phase)
  PROVE  PlacesInv'
<1> USE DEF PlacesInv, Types, TypeOK, StartedIsParent
<1>1. ASSUME NEW phase, AtSlot(phase)
      PROVE  /\ cur \in Slots /\ cur' \in 0..N
             /\ UNCHANGED <<popped, mpc, cache, client>>
  BY <1>1, SlotZero DEF AtSlot, Slots
<1>2. ASSUME UNCHANGED <<queues, popped, task, cache, sent, client>>, cur' \in 0..N,
             mpc' \in MainStates, state' \in [Slots -> SlotStates],
             prompt' \in [Slots -> Prompts \cup {NoPrompt}],
             \A s \in Slots : /\ state'[s] = "idle" <=> state[s] = "idle"
                              /\ state'[s] \in {"started", "processing"} =>
                                   state[s] \in {"started", "processing"}
      PROVE  PlacesInv'
  <2>1. /\ \A s \in Slots : state'[s] = "idle" <=> task'[s] = NoTask
        /\ StartedIsParent'
    BY <1>2
  <2>2. TypeOK' /\ queue_tasks' \in Seq(Items)
    BY <1>2 DEF queues, client
  <2>3. Types'
    BY <2>1, <2>2
  <2> QED BY <1>2, <2>3, StillStep
<1>3. CASE PreDone \/ DecodeFails \/ LoopDone
  <2>1. /\ cur' \in {cur, 0} /\ mpc' \in MainStates
        /\ UNCHANGED <<queues, popped, slots, cache, sent, client>>
    BY <1>3 DEF PreDone, DecodeFails, LoopDone, MainStates
  <2>2. N \in Nat
    BY SlotZero
  <2>3. cur' \in 0..N
    BY <2>1, <2>2
  <2> QED BY <1>2, <2>1, <2>3 DEF slots
<1>4. CASE \E phase \in {"pre", "post", "abort"} : SkipSlot(phase)
  BY <1>1, <1>2, <1>4 DEF SkipSlot, slots
<1>5. CASE DecodeOk
  <2>1. UNCHANGED <<queues, popped, cur, task, cache, sent, client>> /\ mpc' \in MainStates
    BY <1>5 DEF DecodeOk, MainStates
  <2>3. \E K \in SUBSET Slots : \E f \in [Slots -> Slots] :
          /\ \A s \in K : state[s] = "wait_other"
          /\ state' = [s \in Slots |-> IF s \in K THEN "done" ELSE state[s]]
          /\ prompt' = [s \in Slots |-> IF s \in K THEN prompt[f[s]] ELSE prompt[s]]
    <3> DEFINE parent(s) == {d \in Slots : state[d] = "done" /\ task[d] \in Tasks
                                             /\ task[s] \in Children[task[d]]}
               kids == {s \in Slots : state[s] = "wait_other" /\ parent(s) # {}}
               from == [s \in Slots |-> IF parent(s) # {} THEN CHOOSE d \in parent(s) : TRUE ELSE s]
    <3>1. from \in [Slots -> Slots] /\ kids \in SUBSET Slots
      OBVIOUS
    <3>2. /\ state' = [s \in Slots |-> IF s \in kids THEN "done" ELSE state[s]]
          /\ prompt' = [s \in Slots |-> IF s \in kids THEN prompt[from[s]] ELSE prompt[s]]
      BY <1>5 DEF DecodeOk
    <3>3. \A s \in kids : state[s] = "wait_other"
      OBVIOUS
    <3> HIDE DEF from, kids
    <3> QED BY <3>1, <3>2, <3>3
  <2>2. /\ state' \in [Slots -> SlotStates] /\ prompt' \in [Slots -> Prompts \cup {NoPrompt}]
        /\ \A s \in Slots : /\ state'[s] = "idle" <=> state[s] = "idle"
                            /\ state'[s] \in {"started", "processing"} =>
                                 state[s] \in {"started", "processing"}
    BY <2>3 DEF SlotStates
  <2> QED BY <1>2, <2>1, <2>2
<1>6. CASE PreBatch("processing") \/ PreBatch("done")
  <2>1. /\ cur \in Slots /\ cur' \in 0..N
        /\ UNCHANGED <<queues, popped, mpc, task, cache, sent, client>>
        /\ state[cur] # "idle"
        /\ \E st \in {"processing", "done"} : state' = [state EXCEPT ![cur] = st]
        /\ prompt' = [prompt EXCEPT ![cur] = Prompt[task[cur]]]
        /\ state[cur] \in {"started", "processing"}
    BY <1>1, <1>6 DEF PreBatch, SlotTo
  <2>2. /\ state' \in [Slots -> SlotStates]
        /\ \A s \in Slots : /\ state'[s] = "idle" <=> state[s] = "idle"
                            /\ state'[s] \in {"started", "processing"} =>
                                 state[s] \in {"started", "processing"}
    BY <2>1 DEF SlotStates
  <2>3. prompt' \in [Slots -> Prompts \cup {NoPrompt}]
    BY <2>1, SlotsAssumption DEF SlotsAssumption
  <2> QED BY <1>2, <2>1, <2>2, <2>3
<1>7. CASE PostToken
  <2>1. /\ cur \in Slots /\ cur' \in 0..N /\ state' = [state EXCEPT ![cur] = "generating"]
        /\ state[cur] # "idle"
        /\ UNCHANGED <<queues, popped, mpc, task, prompt, cache, sent, client>>
    BY <1>1, <1>7 DEF PostToken
  <2>2. /\ state' \in [Slots -> SlotStates]
        /\ \A s \in Slots : /\ state'[s] = "idle" <=> state[s] = "idle"
                            /\ state'[s] \in {"started", "processing"} =>
                                 state[s] \in {"started", "processing"}
    BY <2>1 DEF SlotStates
  <2> QED BY <1>2, <2>1, <2>2
<1> QED BY <1>3, <1>4, <1>5, <1>6, <1>7

\* What is common to the ends of a slot.
Ends(phase, answer, p) ==
    /\ AtSlot(phase) /\ state[cur] # "idle"
    /\ sent' = [sent EXCEPT ![task[cur]] = answer]
    /\ state' = [state EXCEPT ![cur] = "idle"]
    /\ task' = [task EXCEPT ![cur] = NoTask]
    /\ prompt' = [prompt EXCEPT ![cur] = p]
    /\ PopDeferred(cur, queue_tasks)

LEMMA EndsAre ==
  ASSUME PlacesInv
  PROVE  /\ PreEmpty => \E p \in {NoPrompt, prompt[cur]} : Ends("pre", "final", p)
         /\ PreError => \E p \in {NoPrompt, prompt[cur]} : Ends("pre", "error", p)
         /\ Abort => \E p \in {NoPrompt, prompt[cur]} : Ends("abort", "error", p)
         /\ \A answer \in {"final", "error"} :
              PostEnd(answer) => \E p \in {NoPrompt, prompt[cur]} : Ends("post", answer, p)
<1>1. prompt \in [Slots -> Prompts \cup {NoPrompt}]
  BY DEF PlacesInv, Types, TypeOK
<1>2. ASSUME NEW phase, NEW answer, AtSlot(phase), state[cur] # "idle", EndSlot(cur, answer)
      PROVE  \E p \in {NoPrompt, prompt[cur]} : Ends(phase, answer, p)
  BY <1>2 DEF EndSlot, Release, Ends
<1>3. ASSUME Abort PROVE \E p \in {NoPrompt, prompt[cur]} : Ends("abort", "error", p)
  <2>1. /\ AtSlot("abort") /\ state[cur] # "idle"
        /\ sent' = [sent EXCEPT ![task[cur]] = "error"]
        /\ state' = [state EXCEPT ![cur] = "idle"]
        /\ task' = [task EXCEPT ![cur] = NoTask]
        /\ PopDeferred(cur, queue_tasks)
    BY <1>3 DEF Abort, is_processing
  <2>2. \E p \in {NoPrompt, prompt[cur]} : prompt' = [prompt EXCEPT ![cur] = p]
    <3>1. prompt' = [prompt EXCEPT ![cur] = NoPrompt] \/ prompt' = prompt
      BY <1>3 DEF Abort
    <3>2. prompt = [prompt EXCEPT ![cur] = prompt[cur]]
      BY <1>1
    <3> QED BY <3>1, <3>2
  <2> QED BY <2>1, <2>2 DEF Ends
<1> QED BY <1>2, <1>3 DEF PreEmpty, PreError, PostEnd

\* The answer to the popped task, for an id of its family.
Answers(t, i, answer) ==
    /\ popped = t /\ popped' = NoTask
    /\ i = t \/ answer = "error"
    /\ sent' = [sent EXCEPT ![i] = answer]
    /\ UNCHANGED <<queues, mpc, cur, state, task, client>>

LEMMA AnswersAre ==
  ASSUME PlacesInv, NEW t \in Tasks, SlotAction(t) \/ LaunchFails(t)
  PROVE  /\ \E i \in Family(t), answer \in {"final", "error"} : Answers(t, i, answer)
         /\ prompt' \in [Slots -> Prompts \cup {NoPrompt}] /\ cache' \subseteq Prompts
<1>1. CASE SlotAction(t)
  <2>1. t \in Family(t) /\ \E answer \in {"final", "error"} : Answers(t, t, answer)
    BY <1>1, Families DEF SlotAction, Answers
  <2>2. prompt' \in [Slots -> Prompts \cup {NoPrompt}] /\ cache' \subseteq Prompts
    BY <1>1 DEF SlotAction, PlacesInv, Types, TypeOK
  <2> QED BY <2>1, <2>2
<1>2. CASE LaunchFails(t)
  <2>1. \E i \in Family(t) : Answers(t, i, "error")
    BY <1>2 DEF LaunchFails, Answers
  <2>2. prompt' \in [Slots -> Prompts \cup {NoPrompt}] /\ cache' \subseteq Prompts
    BY <1>2, ChoiceTypes DEF LaunchFails
  <2> QED BY <2>1, <2>2
<1> QED BY <1>1, <1>2

LEMMA DefersAre ==
  ASSUME PlacesInv, NEW t \in Tasks, DeferSlotAction(t) \/ DeferCompletion(t)
  PROVE  /\ popped = t /\ Defer(t)
         /\ prompt' \in [Slots -> Prompts \cup {NoPrompt}] /\ cache' \subseteq Prompts
<1>1. CASE DeferSlotAction(t)
  BY <1>1 DEF DeferSlotAction, PlacesInv, Types, TypeOK
<1>2. CASE DeferCompletion(t)
  <2>1. \/ UNCHANGED <<prompt, cache>>
        \/ \E s \in Candidates(t) : prompt' = PromptsFor(t, s) /\ cache' = CacheFor(t, s)
    BY <1>2 DEF DeferCompletion
  <2>2. prompt' \in [Slots -> Prompts \cup {NoPrompt}] /\ cache' \subseteq Prompts
    BY <2>1, ChoiceTypes DEF PlacesInv, Types, TypeOK
  <2> QED BY <1>2, <2>2 DEF DeferCompletion
<1> QED BY <1>1, <1>2

\* A result is sent for an id that has none.
NewResult == \A i \in Ids : sent'[i] # sent[i] => sent[i] = "none"

LEMMA PlacesStep ==
  ASSUME PlacesInv, [Next]_vars
  PROVE  PlacesInv' /\ NewResult
<1>1. CASE vars' = vars
  <2>1. Types'
    BY <1>1 DEF PlacesInv, Types, TypeOK, StartedIsParent, vars, queues, slots, client
  <2> QED BY <1>1, <2>1, StillStep DEF vars, slots, NewResult
<1>2. ASSUME NEW t \in Tasks, Post(t) PROVE PlacesInv' /\ NewResult
  BY <1>2, PostStep DEF Post, NewResult
<1>3. ASSUME NEW t \in Tasks, Stop(t) PROVE PlacesInv' /\ NewResult
  BY <1>3, StopStep DEF Stop, NewResult
<1>4. CASE PopTask
  BY <1>4, PopStep DEF PopTask, NewResult
<1>5. CASE ProcessCancel
  BY <1>5, CancelStep DEF ProcessCancel, NewResult
<1>6. CASE UpdateSlots
  BY <1>6, UpdateStep DEF UpdateSlots, NewResult
<1>7. ASSUME NEW t \in Tasks, SlotAction(t) \/ LaunchFails(t) PROVE PlacesInv' /\ NewResult
  <2>1. PICK i \in Family(t), answer \in {"final", "error"} : Answers(t, i, answer)
    BY <1>7, AnswersAre
  <2>2. PlacesInv'
    BY <1>7, <2>1, AnswersAre, AnswerStep DEF Answers
  <2>3. sent[i] = "none"
    BY <2>1 DEF Answers, PlacesInv, Unanswered, Waits
  <2>4. NewResult
    BY <2>1, <2>3 DEF Answers, NewResult, PlacesInv, Types, TypeOK
  <2> QED BY <2>2, <2>4
<1>8. ASSUME NEW t \in Tasks, DeferSlotAction(t) \/ DeferCompletion(t)
      PROVE  PlacesInv' /\ NewResult
  BY <1>8, DefersAre, DeferTaskStep DEF Defer, NewResult
<1>9. ASSUME NEW t \in Tasks, Launch(t) PROVE PlacesInv' /\ NewResult
  BY <1>9, LaunchStep DEF Launch, NewResult
<1>10. CASE PreEmpty \/ PreError \/ PostEnd("final") \/ PostEnd("error") \/ Abort
  <2>1. PICK phase \in {"pre", "post", "abort"}, answer \in {"final", "error"},
             p \in {NoPrompt, prompt[cur]} : Ends(phase, answer, p)
    BY <1>10, EndsAre
  <2>2. PlacesInv'
    BY <2>1, ReleaseStep DEF Ends
  <2>3. cur \in Slots /\ task[cur] \in Ids
    BY <2>1, SlotZero DEF Ends, AtSlot, PlacesInv, Types, TypeOK, Slots
  <2>4. sent[task[cur]] = "none"
    BY <2>3 DEF PlacesInv, Unanswered, Runs
  <2>5. NewResult
    BY <2>1, <2>4 DEF Ends, NewResult, PlacesInv, Types, TypeOK
  <2> QED BY <2>2, <2>5
<1>11. CASE \/ PreDone \/ DecodeOk \/ DecodeFails \/ PostToken \/ LoopDone
            \/ PreBatch("processing") \/ PreBatch("done")
            \/ \E phase \in {"pre", "post", "abort"} : SkipSlot(phase)
  <2>1. sent' = sent
    BY <1>11 DEF PreDone, DecodeOk, DecodeFails, PostToken, LoopDone, PreBatch, SlotTo, SkipSlot
  <2> QED BY <1>11, <2>1, WorkStep DEF NewResult
<1> QED
  BY <1>1, <1>2, <1>3, <1>4, <1>5, <1>6, <1>7, <1>8, <1>9, <1>10, <1>11
  DEF Next, MainNext, SlotsNext, PreNext, PostNext, ProcessTask

-----------------------------------------------------------------------------
(* The theorems.                                                           *)

LEMMA AtMostOne ==
  ASSUME NEW X, \A x, y \in X : x = y
  PROVE  Cardinality(X) <= 1
<1>1. CASE X = {}
  <2>1. Cardinality(X) = 0
    BY <1>1, FS_EmptySet
  <2> QED BY <2>1
<1>2. CASE X # {}
  <2>1. PICK x \in X : TRUE
    BY <1>2
  <2>2. X = {x}
    BY <2>1
  <2>3. Cardinality(X) = 1
    BY <2>2, FS_Singleton
  <2> QED BY <2>3
<1> QED BY <1>1, <1>2

LEMMA PlacesFollow == PlacesInv => OnePlace
<1> SUFFICES ASSUME PlacesInv PROVE OnePlace
  OBVIOUS
<1>1. ASSUME NEW t \in Tasks, NEW a \in Places(t)
      PROVE  \/ Queued(t) /\ \E k \in DOMAIN queue_tasks :
                               queue_tasks[k] = Entry("task", t) /\ a = <<"queue", k>>
             \/ Has(queue_tasks_deferred, t) /\ \E k \in DOMAIN queue_tasks_deferred :
                               queue_tasks_deferred[k] = t /\ a = <<"deferred", k>>
             \/ Runs(t) /\ \E s \in Slots : task[s] = t /\ a = <<"slot", s>>
             \/ popped = t /\ a = <<"main", 0>>
  BY <1>1 DEF Places, Queued, Has, Runs
<1>2. ASSUME NEW t \in Tasks
      PROVE  Places(t) = {} <=> ~(Waits(t) \/ Runs(t))
  BY DEF Places, Waits, Queued, Has, Runs
<1>3. ASSUME NEW t \in Tasks
      PROVE  /\ Waits(t) => ~Runs(t)
             /\ Waits(t) \/ Runs(t) => sent[t] = "none"
  BY Families DEF PlacesInv, Unanswered
<1>4. ASSUME NEW t \in Tasks, NEW a \in Places(t), NEW b \in Places(t)
      PROVE  a = b
  <2>1. /\ Queued(t) => ~Has(queue_tasks_deferred, t) /\ popped # t
        /\ Has(queue_tasks_deferred, t) => popped # t
        /\ Single(queue_tasks, Entry("task", t)) /\ Single(queue_tasks_deferred, t)
        /\ \A s, x \in Slots : task[s] = t /\ task[x] = t => s = x
    BY Families DEF PlacesInv, Once, OnceIn, Queued
  <2>2. CASE Queued(t)
    BY <1>1, <1>3, <1>4, <2>1, <2>2 DEF Waits, Single
  <2>3. CASE Has(queue_tasks_deferred, t)
    BY <1>1, <1>3, <1>4, <2>1, <2>3 DEF Waits, Single
  <2>4. CASE popped = t
    BY <1>1, <1>3, <1>4, <2>1, <2>4 DEF Waits
  <2>5. CASE ~Waits(t)
    BY <1>1, <1>4, <2>1, <2>5 DEF Waits
  <2> QED BY <2>2, <2>3, <2>4, <2>5 DEF Waits
<1>5. ASSUME NEW t \in Tasks
      PROVE  /\ Cardinality(Places(t)) <= 1
             /\ sent[t] # "none" => Places(t) = {}
             /\ t \in posted \ stopped /\ sent[t] = "none" /\ ~Failed(t) => Places(t) # {}
  <2>1. Cardinality(Places(t)) <= 1
    BY <1>4, AtMostOne
  <2>2. sent[t] # "none" => Places(t) = {}
    BY <1>2, <1>3
  <2>3. t \in posted \ stopped /\ sent[t] = "none" /\ ~Failed(t) => Places(t) # {}
    BY <1>2 DEF PlacesInv, Held
  <2> QED BY <2>1, <2>2, <2>3
<1>6. ASSUME NEW i \in Ids
      PROVE  LET on == {s \in Slots : task[s] = i} IN
             Cardinality(on) <= 1 /\ (sent[i] # "none" => on = {})
  <2> DEFINE on == {s \in Slots : task[s] = i}
  <2>1. \A s, x \in on : s = x
    BY Families DEF PlacesInv, Once
  <2>2. sent[i] # "none" => on = {}
    BY DEF PlacesInv, Unanswered, Runs
  <2>3. Cardinality(on) <= 1
    <3> HIDE DEF on
    <3> QED BY <2>1, AtMostOne
  <2> QED BY <2>2, <2>3
<1>7. TypeOK
  BY DEF PlacesInv, Types
<1> QED BY <1>5, <1>6, <1>7 DEF OnePlace

\* Whatever is cancelled, fails or is aborted, a task is in at most one of the
\* queue, the deferred queue, the main thread and the slots, in one of them as
\* long as its request waits for it, and in none once it is answered; and the
\* variables keep their types.
THEOREM TasksAreInOnePlace == Spec => []OnePlace
<1>1. PlacesInv /\ [Next]_vars => PlacesInv'
  BY PlacesStep
<1> QED BY PlacesInit, PlacesFollow, <1>1, PTL DEF Spec

\* No task and no child gets a second result.
THEOREM AnsweredOnce == Spec => OneResult
<1>1. PlacesInv /\ [Next]_vars => PlacesInv'
  BY PlacesStep
<1>2. PlacesInv /\ [Next]_vars => [\A i \in Ids : sent'[i] # sent[i] => sent[i] = "none"]_vars
  BY PlacesStep DEF NewResult
<1> QED BY PlacesInit, <1>1, <1>2, PTL DEF Spec, OneResult

-----------------------------------------------------------------------------
(* NoOrphan.                                                               *)

\* A slot that will wake the children of t: its prompt is not done, or is and
\* has not been decoded yet.
Leads(d, t) ==
    /\ task[d] = t
    /\ state[d] \in {"started", "processing"} \/ (state[d] = "done" /\ mpc # "post")

OrphanInv ==
    \A s \in Slots : state[s] = "wait_other" =>
        \E t \in Tasks : /\ task[s] \in Children[t]
                         /\ (\E d \in Slots : Leads(d, t)) \/ Failed(t) \/ t \in stopped

\* An empty prompt is answered before it is decoded, and wakes no children.
ParentsHavePrompts == \A t \in Tasks : Children[t] # {} => Prompt[t] # NoPrompt

\* No child is new, and every parent leads on, has failed or is stopped.
LEMMA WaitKeeps ==
  ASSUME PlacesInv, PlacesInv', NewResult, OrphanInv, stopped \subseteq stopped',
         \A s \in Slots : state'[s] = "wait_other" => state[s] = "wait_other" /\ task'[s] = task[s],
         \A t \in Tasks : \A d \in Slots : Leads(d, t) /\ Children[t] # {} =>
            Leads(d, t)' \/ Failed(t)' \/ t \in stopped'
  PROVE  OrphanInv'
<1> SUFFICES ASSUME NEW s \in Slots, state'[s] = "wait_other"
             PROVE  \E t \in Tasks :
                      /\ task'[s] \in Children[t]
                      /\ (\E d \in Slots : Leads(d, t)') \/ Failed(t)' \/ t \in stopped'
  BY DEF OrphanInv
<1>1. PICK t \in Tasks : /\ task[s] \in Children[t]
                         /\ (\E d \in Slots : Leads(d, t)) \/ Failed(t) \/ t \in stopped
  BY DEF OrphanInv
<1>2. task'[s] \in Children[t] /\ Children[t] # {}
  BY <1>1
<1>3. Failed(t) => Failed(t)'
  BY Families DEF Failed, NewResult
<1> QED BY <1>1, <1>2, <1>3

\* A CANCEL is for the family of a request whose reader has stopped.
LEMMA CancelledIsStopped ==
  ASSUME PlacesInv, ProcessCancel
  PROVE  \E t \in stopped : Head(queue_tasks).id \in Family(t)
<1> DEFINE i == Head(queue_tasks).id
<1>1. queue_tasks # <<>> /\ Head(queue_tasks).type = "cancel"
  BY DEF ProcessCancel
<1>2. queue_tasks \in Seq(Items) /\ Head(queue_tasks) \in Items
  BY <1>1, HeadTailProperties DEF PlacesInv, Types
<1>3. i \in Ids /\ Head(queue_tasks) = Entry("cancel", i)
  BY <1>1, <1>2, EntryIs DEF Items, TaskEntries
<1> QED BY <1>1, <1>2, <1>3, TailHas DEF PlacesInv, Stopped

\* What a launch does to the slots.
LEMMA LaunchIs ==
  ASSUME PlacesInv, NEW t \in Tasks, Launch(t)
  PROVE  /\ UNCHANGED <<mpc, sent, client>>
         /\ \E s \in Slots : \E kids \in SUBSET Slots :
              /\ s \notin kids /\ \A x \in kids \cup {s} : state[x] = "idle"
              /\ task'[s] = t /\ state'[s] = "started"
              /\ \A x \in kids : task'[x] \in Children[t]
              /\ \A x \in Slots \ (kids \cup {s}) : task'[x] = task[x] /\ state'[x] = state[x]
<1>1. PICK s \in Candidates(t) :
        /\ ~is_processing(s)
        /\ \E kids \in SUBSET (Free \ {s}) :
              /\ \E child \in Bijection(kids, Children[t]) :
                   task' = [x \in Slots |-> IF x = s THEN t ELSE
                                            IF x \in kids THEN child[x] ELSE task[x]]
              /\ state' = [x \in Slots |-> IF x = s THEN "started" ELSE
                                           IF x \in kids THEN "wait_other" ELSE state[x]]
  BY DEF Launch
<1>2. PICK kids \in SUBSET (Free \ {s}) :
        /\ \E child \in Bijection(kids, Children[t]) :
             task' = [x \in Slots |-> IF x = s THEN t ELSE
                                      IF x \in kids THEN child[x] ELSE task[x]]
        /\ state' = [x \in Slots |-> IF x = s THEN "started" ELSE
                                     IF x \in kids THEN "wait_other" ELSE state[x]]
  BY <1>1
<1>3. PICK child \in Bijection(kids, Children[t]) :
        task' = [x \in Slots |-> IF x = s THEN t ELSE
                                 IF x \in kids THEN child[x] ELSE task[x]]
  BY <1>2
<1>4. s \in Slots /\ kids \in SUBSET Slots /\ s \notin kids
      /\ \A x \in kids \cup {s} : state[x] = "idle"
  BY <1>1, CandidateSlots DEF Free, is_processing
<1>5. \A x \in kids : child[x] \in Children[t]
  BY DEF Bijection, Injection
<1>6. /\ task'[s] = t /\ state'[s] = "started"
      /\ \A x \in kids : task'[x] \in Children[t]
      /\ \A x \in Slots \ (kids \cup {s}) : task'[x] = task[x] /\ state'[x] = state[x]
  BY <1>2, <1>3, <1>4, <1>5
<1>7. UNCHANGED <<mpc, sent, client>>
  BY DEF Launch
<1> QED BY <1>4, <1>6, <1>7

\* Every step keeps the children behind their parents.
LEMMA OrphanStep ==
  ASSUME ParentsHavePrompts, PlacesInv, OrphanInv, [Next]_vars
  PROVE  OrphanInv'
<1> USE PlacesStep
<1>1. CASE UNCHANGED <<state, task, mpc>> /\ stopped \subseteq stopped'
  BY <1>1, WaitKeeps DEF Leads
<1>2. CASE vars' = vars
  BY <1>1, <1>2 DEF vars, slots, client
<1>3. ASSUME NEW t \in Tasks, Post(t) \/ Stop(t) PROVE OrphanInv'
  BY <1>1, <1>3 DEF Post, Stop, slots
<1>4. CASE UNCHANGED <<state, task, stopped>> /\ mpc' # "post"
  BY <1>4, WaitKeeps DEF Leads
<1>5. CASE PopTask \/ UpdateSlots \/ PreDone \/ DecodeFails \/ LoopDone
  BY <1>4, <1>5 DEF PopTask, UpdateSlots, PreDone, DecodeFails, LoopDone, slots, client
<1>6. ASSUME NEW t \in Tasks,
             SlotAction(t) \/ LaunchFails(t) \/ DeferSlotAction(t) \/ DeferCompletion(t)
      PROVE  OrphanInv'
  <2>1. UNCHANGED <<state, task, mpc, stopped>>
    BY <1>6 DEF SlotAction, LaunchFails, DeferSlotAction, DeferCompletion, Defer, client
  <2> QED BY <1>1, <2>1
<1>7. CASE \E phase \in {"pre", "post", "abort"} : SkipSlot(phase)
  BY <1>1, <1>7 DEF SkipSlot, AtSlot, slots, client
<1>8. ASSUME NEW s \in Slots, state[s] # "idle",
             state' = [state EXCEPT ![s] = "idle"], task' = [task EXCEPT ![s] = NoTask],
             UNCHANGED stopped, mpc' = mpc \/ mpc' # "post",
             \A t \in Tasks : Leads(s, t) /\ Children[t] # {} => Failed(t)' \/ t \in stopped
      PROVE  OrphanInv'
  <2>1. state \in [Slots -> SlotStates] /\ task \in [Slots -> Ids \cup {NoTask}]
    BY DEF PlacesInv, Types, TypeOK
  <2>2. \A x \in Slots : state'[x] = "wait_other" => state[x] = "wait_other" /\ task'[x] = task[x]
    BY <1>8, <2>1
  <2>3. ASSUME NEW t \in Tasks, NEW d \in Slots, Leads(d, t), Children[t] # {}
        PROVE  Leads(d, t)' \/ Failed(t)' \/ t \in stopped'
    <3>1. CASE d = s
      BY <1>8, <2>3, <3>1
    <3>2. CASE d # s
      <4>1. state'[d] = state[d] /\ task'[d] = task[d]
        BY <1>8, <2>1, <3>2
      <4> QED BY <1>8, <2>3, <4>1 DEF Leads
    <3> QED BY <3>1, <3>2
  <2> QED BY <1>8, <2>2, <2>3, WaitKeeps
<1>9. CASE ProcessCancel
  <2> DEFINE i == Head(queue_tasks).id
  <2>1. /\ mpc' = "pop" /\ UNCHANGED <<sent, client>>
        /\ \/ UNCHANGED slots
           \/ \E s \in Slots : state[s] # "idle" /\ task[s] = i /\ Release(s, Tail(queue_tasks))
    BY <1>9 DEF ProcessCancel, is_processing
  <2>2. CASE UNCHANGED slots
    BY <1>4, <2>1, <2>2 DEF slots, client
  <2>3. ASSUME NEW s \in Slots, state[s] # "idle", task[s] = i, Release(s, Tail(queue_tasks))
        PROVE  OrphanInv'
    <3>1. \E t \in stopped : i \in Family(t)
      BY <1>9, CancelledIsStopped
    <3> HIDE DEF i
    <3>2. ASSUME NEW t \in Tasks, Leads(s, t) PROVE t \in stopped
      <4>1. i = t /\ t \in Family(t) /\ stopped \subseteq Tasks
        BY <2>3, <3>2, Families DEF Leads, PlacesInv, Types, TypeOK
      <4> QED BY <3>1, <4>1, Families
    <3> QED BY <1>8, <2>1, <2>3, <3>2 DEF Release, client
  <2> QED BY <2>1, <2>2, <2>3
<1>10. CASE PreEmpty \/ PreError \/ PostEnd("final") \/ PostEnd("error") \/ Abort
  <2>1. PICK phase \in {"pre", "post", "abort"}, answer \in {"final", "error"},
             p \in {NoPrompt, prompt[cur]} :
          /\ Ends(phase, answer, p)
          /\ \/ answer = "error"
             \/ phase = "pre" /\ Prompt[task[cur]] = NoPrompt
             \/ phase = "post" /\ state[cur] \in {"done", "generating"}
    BY <1>10, EndsAre DEF PreEmpty, PostEnd
  <2>2. cur \in Slots /\ mpc' = mpc /\ mpc = phase /\ UNCHANGED client
    BY <2>1, SlotZero DEF Ends, AtSlot, PlacesInv, Types, TypeOK, Slots
  <2>3. ASSUME NEW t \in Tasks, Leads(cur, t), Children[t] # {}
        PROVE  Failed(t)'
    <3>1. task[cur] = t /\ answer = "error"
      BY <2>1, <2>2, <2>3 DEF Leads, ParentsHavePrompts
    <3>2. sent'[t] = "error" /\ t \in Family(t)
      BY <2>1, <3>1, Families DEF Ends, PlacesInv, Types, TypeOK
    <3> QED BY <3>2 DEF Failed
  <2> QED BY <1>8, <2>1, <2>2, <2>3 DEF Ends, client
<1>11. CASE PreBatch("processing") \/ PreBatch("done") \/ PostToken
  <2>1. /\ cur \in Slots /\ mpc' = mpc /\ UNCHANGED <<task, client>>
        /\ \/ /\ mpc = "pre" /\ state[cur] \in {"started", "processing"}
              /\ \E st \in {"processing", "done"} : state' = [state EXCEPT ![cur] = st]
           \/ /\ mpc = "post" /\ state[cur] \in {"done", "generating"}
              /\ state' = [state EXCEPT ![cur] = "generating"]
    BY <1>11, SlotZero DEF PreBatch, SlotTo, PostToken, AtSlot, PlacesInv, Types, TypeOK, Slots
  <2>2. state \in [Slots -> SlotStates]
    BY DEF PlacesInv, Types, TypeOK
  <2>3. \A x \in Slots : state'[x] = "wait_other" => state[x] = "wait_other"
    BY <2>1, <2>2
  <2>4. \A t \in Tasks : \A d \in Slots : Leads(d, t) => Leads(d, t)'
    BY <2>1, <2>2 DEF Leads
  <2> QED BY <2>1, <2>3, <2>4, WaitKeeps DEF client
<1>12. CASE DecodeOk
  <2>1. /\ mpc' = "post" /\ UNCHANGED <<task, sent, client>>
        /\ \A s \in Slots : state'[s] = IF /\ state[s] = "wait_other"
                                           /\ \E d \in Slots :
                                                state[d] = "done" /\ task[d] \in Tasks
                                                /\ task[s] \in Children[task[d]]
                                        THEN "done" ELSE state[s]
    BY <1>12 DEF DecodeOk
  <2> SUFFICES ASSUME NEW s \in Slots, state'[s] = "wait_other"
               PROVE  \E t \in Tasks :
                        /\ task[s] \in Children[t]
                        /\ (\E d \in Slots : Leads(d, t)') \/ Failed(t) \/ t \in stopped
    BY <2>1 DEF OrphanInv, Failed, client
  <2>2. state[s] = "wait_other"
    BY <2>1
  <2>3. PICK t \in Tasks : /\ task[s] \in Children[t]
                           /\ (\E d \in Slots : Leads(d, t)) \/ Failed(t) \/ t \in stopped
    BY <2>2 DEF OrphanInv
  <2>4. ASSUME NEW d \in Slots, Leads(d, t) PROVE Leads(d, t)'
    <3>1. task[d] = t /\ state[d] # "done"
      BY <2>1, <2>2, <2>3, <2>4 DEF Leads
    <3>2. state[d] \in {"started", "processing"}
      BY <2>4, <3>1 DEF Leads
    <3> QED BY <2>1, <3>1, <3>2 DEF Leads
  <2> QED BY <2>3, <2>4
<1>13. ASSUME NEW t \in Tasks, Launch(t) PROVE OrphanInv'
  <2>1. /\ UNCHANGED <<mpc, sent, client>>
        /\ \E s \in Slots : \E kids \in SUBSET Slots :
             /\ s \notin kids /\ \A x \in kids \cup {s} : state[x] = "idle"
             /\ task'[s] = t /\ state'[s] = "started"
             /\ \A x \in kids : task'[x] \in Children[t]
             /\ \A x \in Slots \ (kids \cup {s}) : task'[x] = task[x] /\ state'[x] = state[x]
    BY <1>13, LaunchIs
  <2>2. PICK s \in Slots, kids \in SUBSET Slots :
          /\ s \notin kids /\ \A x \in kids \cup {s} : state[x] = "idle"
          /\ task'[s] = t /\ state'[s] = "started"
          /\ \A x \in kids : task'[x] \in Children[t]
          /\ \A x \in Slots \ (kids \cup {s}) : task'[x] = task[x] /\ state'[x] = state[x]
    BY <2>1
  <2> SUFFICES ASSUME NEW x \in Slots, state'[x] = "wait_other"
               PROVE  \E u \in Tasks :
                        /\ task'[x] \in Children[u]
                        /\ (\E d \in Slots : Leads(d, u)') \/ Failed(u) \/ u \in stopped
    BY <2>1 DEF OrphanInv, Failed, client
  <2>3. CASE x \in kids
    <3>1. Leads(s, t)'
      BY <2>2 DEF Leads
    <3> QED BY <2>2, <2>3, <3>1
  <2>4. CASE x \notin kids
    <3>1. task'[x] = task[x] /\ state[x] = "wait_other"
      BY <2>2, <2>4
    <3>2. PICK u \in Tasks : /\ task[x] \in Children[u]
                             /\ (\E d \in Slots : Leads(d, u)) \/ Failed(u) \/ u \in stopped
      BY <3>1 DEF OrphanInv
    <3>3. ASSUME NEW d \in Slots, Leads(d, u) PROVE Leads(d, u)'
      <4>1. d \notin kids \cup {s}
        BY <2>2, <3>3 DEF Leads
      <4> QED BY <2>1, <2>2, <3>3, <4>1 DEF Leads
    <3> QED BY <3>1, <3>2, <3>3
  <2> QED BY <2>3, <2>4
<1> QED
  BY <1>2, <1>3, <1>5, <1>6, <1>7, <1>9, <1>10, <1>11, <1>12, <1>13
  DEF Next, MainNext, SlotsNext, PreNext, PostNext, ProcessTask

\* A child slot waits only as long as a parent will wake it or a CANCEL is due,
\* unless a parent with an empty prompt has been posted.
THEOREM ChildrenHaveParents ==
  ASSUME ParentsHavePrompts
  PROVE  Spec => []NoOrphan
<1>1. Init => OrphanInv
  BY DEF Init, OrphanInv
<1>2. PlacesInv /\ OrphanInv /\ [Next]_vars => PlacesInv' /\ OrphanInv'
  BY PlacesStep, OrphanStep
<1>3. OrphanInv => NoOrphan
  <2> SUFFICES ASSUME OrphanInv, NEW s \in Slots, state[s] = "wait_other"
               PROVE  LET t == Request(task[s]) IN
                      \/ \E d \in Slots : /\ task[d] = t
                                          /\ state[d] \in {"started", "processing", "done"}
                      \/ Failed(t) \/ t \in stopped
    BY DEF NoOrphan
  <2>1. PICK t \in Tasks : /\ task[s] \in Children[t]
                           /\ (\E d \in Slots : Leads(d, t)) \/ Failed(t) \/ t \in stopped
    BY DEF OrphanInv
  <2>2. Request(task[s]) = t
    BY <2>1, RequestOfFamily DEF Family
  <2> QED BY <2>1, <2>2 DEF Leads
<1> QED BY PlacesInit, <1>1, <1>2, <1>3, PTL DEF Spec
=============================================================================
