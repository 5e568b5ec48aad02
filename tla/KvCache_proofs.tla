--------------------------- MODULE KvCache_proofs ---------------------------
(***************************************************************************)
(* The indexes that the search for free cells and the limits of a sequence *)
(* are read from cannot drift away from the cells: an operation changes    *)
(* one cell and does to the indexes what LocalChange says, the operations  *)
(* of the cache are folds of such changes, and every call ends with tables *)
(* that are Consistent, whatever was refused or failed on the way.         *)
(*                                                                         *)
(* Without a window more holds: a sequence is a Run, the positions from    *)
(* zero up to its next one, each in one cell.  Every operation is shown to *)
(* make runs of runs, a batch along the places nx where its ubatches leave *)
(* each sequence (Plans) and the caches w they lead through (Leads), and   *)
(* a batch that is refused by counting the cells along the same way.       *)
(*                                                                         *)
(* What a sequence holds is read from its cells and from the data they get *)
(* once the queued copies and the shifts are done (View, Content).  Each   *)
(* call makes of the content what an operation of SequenceStore makes of   *)
(* it, so that without a window the cache implements the store.            *)
(*                                                                         *)
(* A fold is reasoned about as the function of the subset folded so far:   *)
(* FoldExists says there is one, FoldKeeps that what each step keeps holds *)
(* of its value.  StepsExist and StepsKeep say the same of the recursive   *)
(* functions that cut a batch and place it on trial.                       *)
(***************************************************************************)
EXTENDS KvCache, FiniteSetTheorems, FunctionTheorems, WellFoundedInduction, SequenceTheorems, TLAPS

-----------------------------------------------------------------------------
(* Induction, over the naturals and along a recursive function.            *)

LEMMA Least ==
  ASSUME NEW A \in SUBSET Nat, A # {}
  PROVE  \E k \in A : \A j \in A : k <= j
<1> DEFINE R == {p \in Nat \X Nat : p[1] < p[2]}
<1>1. IsWellFoundedOn(R, Nat)
  BY NatLessThanWellFounded DEF OpToRel
<1>2. PICK k \in A : \A j \in A : <<j, k>> \notin R
  <2> HIDE DEF R
  <2> QED BY <1>1, WFMin, Zenon
<1>3. ASSUME NEW j \in A PROVE k <= j
  <2>1. j \in Nat /\ k \in Nat /\ ~(j < k)
    BY <1>2, Zenon
  <2> QED BY <2>1
<1> QED BY <1>3

LEMMA Induct ==
  ASSUME NEW T, 0 \in T, \A n \in Nat : n \in T => n + 1 \in T
  PROVE  \A n \in Nat : n \in T
<1> SUFFICES ASSUME Nat \ T # {} PROVE FALSE
  OBVIOUS
<1>1. PICK n \in Nat \ T : \A m \in Nat \ T : n <= m
  BY Least, Zenon
<1> QED BY <1>1

\* A finite set of naturals has a greatest member.
LEMMA Greatest ==
  ASSUME NEW A \in SUBSET Nat, IsFiniteSet(A), A # {}
  PROVE  \E k \in A : \A j \in A : j <= k
<1> DEFINE above(k) == {j \in A : k < j}
           N == {Cardinality(above(k)) : k \in A}
<1>1. \A k \in A : IsFiniteSet(above(k)) /\ Cardinality(above(k)) \in Nat
  BY FS_Subset, FS_CardinalityType
<1>2. PICK n \in N : \A m \in N : n <= m
  <2>1. N \in SUBSET Nat /\ N # {}
    BY <1>1, Zenon
  <2> HIDE DEF N
  <2> QED BY <2>1, Least
<1>3. PICK k \in A : Cardinality(above(k)) = n
  OBVIOUS
<1>4. ASSUME NEW j \in A, k < j PROVE FALSE
  <2>1. above(j) \subseteq above(k) /\ j \in above(k) /\ j \notin above(j)
    <3>1. j \in Nat /\ k \in Nat /\ \A x \in A : x \in Nat
      OBVIOUS
    <3>2. \A x \in A : j < x => k < x
      BY <1>4, <3>1
    <3>3. above(j) \subseteq above(k)
      BY <3>2, Zenon
    <3>4. j \in above(k)
      BY <1>4
    <3>5. j \notin above(j)
      BY <3>1
    <3> QED BY <3>3, <3>4, <3>5
  <2>2. Cardinality(above(j)) <= Cardinality(above(k)) /\ Cardinality(above(j)) # Cardinality(above(k))
    <3> HIDE DEF above
    <3>1. IsFiniteSet(above(k))
      BY <1>1
    <3>2. above(j) \in SUBSET above(k) /\ above(j) # above(k)
      BY <2>1
    <3> QED BY <3>1, <3>2, FS_Subset, ZenonT(60)
  <2>3. Cardinality(above(j)) \in Nat /\ Cardinality(above(k)) \in Nat /\ Cardinality(above(j)) \in N
    BY <1>1, Zenon
  <2> HIDE DEF above, N
  <2> QED BY <1>2, <1>3, <2>2, <2>3
<1> QED BY <1>4

\* The values of a recursive function over 0..n: where each step leads from
\* P[k - 1] to P[k], there is a function that takes these steps.
StepsIn(n, P, base, step) ==
  n \in Nat /\ base \in P[0] /\ \A k \in 1..n : \A x \in P[k - 1] : step[<<k, x>>] \in P[k]
TakesSteps(n, P, base, step, f) ==
  /\ f = [k \in 0..n |-> f[k]] /\ f[0] = base
  /\ \A k \in 1..n : f[k - 1] \in P[k - 1] /\ f[k] = step[<<k, f[k - 1]>>]
KeepsIn(n, P, f) ==
  n \in Nat /\ f[0] \in P[0] /\ \A k \in 1..n : f[k - 1] \in P[k - 1] => f[k] \in P[k]

LEMMA StepsExist ==
  ASSUME NEW n, NEW P, NEW base, NEW step, StepsIn(n, P, base, step)
  PROVE  \E f : TakesSteps(n, P, base, step, f)
<1> DEFINE upto(f, m) == /\ f = [k \in 0..n |-> f[k]] /\ f[0] = base
                         /\ \A k \in 0..n : k <= m => f[k] \in P[k]
                         /\ \A k \in 1..n : k <= m => f[k] = step[<<k, f[k - 1]>>]
           T == {m \in Nat : \E f : upto(f, m)}
<1> USE DEF StepsIn
<1>1. 0 \in T
  <2> DEFINE f == [k \in 0..n |-> base]
  <2>1. upto(f, 0)
    OBVIOUS
  <2> QED BY <2>1
<1>2. ASSUME NEW m \in Nat, m \in T PROVE m + 1 \in T
  <2>1. PICK f : upto(f, m)
    BY <1>2
  <2> DEFINE g == [k \in 0..n |-> IF k = m + 1 THEN step[<<k, f[k - 1]>>] ELSE f[k]]
  <2>2. g = [k \in 0..n |-> g[k]] /\ g[0] = base
    BY <2>1
  <2>3. \A k \in 0..n : k <= m => g[k] = f[k]
    OBVIOUS
  <2>4. \A k \in 0..n : k = m + 1 => g[k] = step[<<k, f[k - 1]>>]
    OBVIOUS
  <2> HIDE DEF g
  <2>5. \A k \in 0..n : k <= m + 1 => k <= m \/ k = m + 1
    OBVIOUS
  <2>6. \A k \in 0..n : k = m + 1 => k \in 1..n /\ k - 1 \in 0..n /\ k - 1 <= m
    OBVIOUS
  <2>7. \A k \in 0..n : k <= m + 1 => g[k] \in P[k]
    BY <2>1, <2>3, <2>4, <2>5, <2>6, Zenon
  <2>8. ASSUME NEW k \in 1..n, k <= m + 1 PROVE g[k] = step[<<k, g[k - 1]>>]
    <3>1. k \in 0..n /\ k - 1 \in 0..n /\ k - 1 <= m
      BY <2>8
    <3>2. g[k - 1] = f[k - 1]
      BY <2>3, <3>1
    <3>3. CASE k <= m
      BY <2>1, <2>3, <3>1, <3>2, <3>3, Zenon
    <3>4. CASE k = m + 1
      BY <2>4, <3>1, <3>2, <3>4
    <3> QED BY <2>5, <2>8, <3>1, <3>3, <3>4
  <2>9. upto(g, m + 1)
    BY <2>2, <2>7, <2>8, Zenon
  <2> HIDE DEF upto
  <2> QED BY <2>9
<1>3. n \in T
  <2> HIDE DEF T
  <2> QED BY <1>1, <1>2, Induct
<1>4. PICK f : upto(f, n)
  BY <1>3
<1>5. TakesSteps(n, P, base, step, f)
  <2>1. \A k \in 0..n : f[k] \in P[k]
    BY <1>4
  <2>2. \A k \in 1..n : k <= n /\ k - 1 \in 0..n
    OBVIOUS
  <2>3. \A k \in 1..n : f[k - 1] \in P[k - 1]
    BY <2>1, <2>2
  <2>4. \A k \in 1..n : f[k] = step[<<k, f[k - 1]>>]
    BY <1>4, <2>2, Zenon
  <2> QED BY <1>4, <2>3, <2>4, Zenon DEF TakesSteps
<1> QED BY <1>5

\* What its steps keep, every value has.
LEMMA StepsKeep ==
  ASSUME NEW n, NEW P, NEW f, KeepsIn(n, P, f)
  PROVE  \A k \in 0..n : f[k] \in P[k]
<1> USE DEF KeepsIn
<1> DEFINE T == {m \in Nat : m \in 0..n => f[m] \in P[m]}
<1>1. 0 \in T
  OBVIOUS
<1>2. ASSUME NEW m \in Nat, m \in T PROVE m + 1 \in T
  <2>1. m + 1 \in 0..n => m \in 0..n /\ m + 1 \in 1..n /\ (m + 1) - 1 = m
    OBVIOUS
  <2> QED BY <1>2, <2>1
<1>3. \A m \in Nat : m \in T
  <2> HIDE DEF T
  <2> QED BY <1>1, <1>2, Induct
<1> QED BY <1>3

\* A fold over a finite set takes ch[u] last of the members u.  The same.
FoldsIn(S, ch, P, base, step) ==
  /\ IsFiniteSet(S) /\ base \in P[{}]
  /\ \A u \in SUBSET S : u # {} =>
       ch[u] \in u /\ \A x \in P[u \ {ch[u]}] : step[<<ch[u], x>>] \in P[u]
TakesFold(S, ch, P, base, step, f) ==
  /\ f = [u \in SUBSET S |-> f[u]] /\ f[{}] = base
  /\ \A u \in SUBSET S : u # {} => /\ f[u \ {ch[u]}] \in P[u \ {ch[u]}]
                                /\ f[u] = step[<<ch[u], f[u \ {ch[u]}]>>]
KeepsFold(S, ch, P, f) ==
  /\ IsFiniteSet(S) /\ f[{}] \in P[{}]
  /\ \A u \in SUBSET S : u # {} =>
       ch[u] \in u /\ (f[u \ {ch[u]}] \in P[u \ {ch[u]}] => f[u] \in P[u])

LEMMA FoldExists ==
  ASSUME NEW S, NEW ch, NEW P, NEW base, NEW step, FoldsIn(S, ch, P, base, step)
  PROVE  \E f : TakesFold(S, ch, P, base, step, f)
<1> DEFINE upto(f, m) == /\ f = [u \in SUBSET S |-> f[u]] /\ f[{}] = base
                         /\ \A u \in SUBSET S : Cardinality(u) <= m => f[u] \in P[u]
                         /\ \A u \in SUBSET S : Cardinality(u) <= m /\ u # {} =>
                              f[u] = step[<<ch[u], f[u \ {ch[u]}]>>]
           T == {m \in Nat : \E f : upto(f, m)}
<1> USE DEF FoldsIn
<1>0. \A u \in SUBSET S : /\ IsFiniteSet(u) /\ Cardinality(u) \in Nat
                          /\ Cardinality(u) <= Cardinality(S)
                          /\ (Cardinality(u) = 0 <=> u = {})
                          /\ u # {} => Cardinality(u \ {ch[u]}) = Cardinality(u) - 1
  <2> SUFFICES ASSUME NEW u \in SUBSET S
               PROVE  /\ IsFiniteSet(u) /\ Cardinality(u) \in Nat
                      /\ Cardinality(u) <= Cardinality(S)
                      /\ (Cardinality(u) = 0 <=> u = {})
                      /\ u # {} => Cardinality(u \ {ch[u]}) = Cardinality(u) - 1
    BY Zenon
  <2>1. IsFiniteSet(u) /\ Cardinality(u) <= Cardinality(S)
    BY FS_Subset
  <2> QED BY <2>1, FS_CardinalityType, FS_EmptySet, FS_RemoveElement, Zenon
<1>1. 0 \in T
  <2> DEFINE f == [u \in SUBSET S |-> base]
  <2>1. ASSUME NEW u \in SUBSET S, Cardinality(u) <= 0 PROVE u = {}
    <3>1. Cardinality(u) \in Nat /\ (Cardinality(u) = 0 <=> u = {})
      BY <1>0, Zenon
    <3> QED BY <2>1, <3>1
  <2>2. f = [u \in SUBSET S |-> f[u]] /\ f[{}] = base
    OBVIOUS
  <2> HIDE DEF f
  <2>3. upto(f, 0)
    BY <2>1, <2>2, Zenon
  <2> QED BY <2>3, Zenon
<1>2. ASSUME NEW m \in Nat, m \in T PROVE m + 1 \in T
  <2>1. PICK f : upto(f, m)
    BY <1>2, Zenon
  <2> DEFINE g == [u \in SUBSET S |-> IF Cardinality(u) = m + 1 THEN step[<<ch[u], f[u \ {ch[u]}]>>] ELSE f[u]]
  <2>2. g = [u \in SUBSET S |-> g[u]]
    OBVIOUS
  <2>3. \A u \in SUBSET S : Cardinality(u) # m + 1 => g[u] = f[u]
    OBVIOUS
  <2>4. \A u \in SUBSET S : Cardinality(u) = m + 1 => g[u] = step[<<ch[u], f[u \ {ch[u]}]>>]
    OBVIOUS
  <2> HIDE DEF g
  <2>5. ASSUME NEW u \in SUBSET S, Cardinality(u) <= m + 1
        PROVE  g[u] \in P[u] /\ (u # {} => g[u] = step[<<ch[u], g[u \ {ch[u]}]>>])
    <3> DEFINE w == u \ {ch[u]}
    <3>1. w \in SUBSET S /\ Cardinality(u) \in Nat
      BY <1>0, Zenon
    <3>2. u # {} => Cardinality(w) = Cardinality(u) - 1 /\ g[w] = f[w] /\ f[w] \in P[w]
      <4>1. u # {} => Cardinality(w) = Cardinality(u) - 1
        BY <1>0, Zenon
      <4>2. u # {} => Cardinality(w) <= m /\ Cardinality(w) # m + 1
        <5> HIDE DEF w
        <5> QED BY <2>5, <3>1, <4>1
      <4>3. Cardinality(w) <= m => f[w] \in P[w]
        BY <2>1, <3>1, Zenon
      <4>4. Cardinality(w) # m + 1 => g[w] = f[w]
        BY <2>3, <3>1
      <4> QED BY <4>1, <4>2, <4>3, <4>4
    <3>3. CASE Cardinality(u) = m + 1
      <4>1. u # {}
        <5>1. m + 1 # 0
          OBVIOUS
        <5> QED BY <1>0, <3>3, <5>1, Zenon
      <4>2. g[u] = step[<<ch[u], f[w]>>]
        BY <2>4, <3>3
      <4>3. step[<<ch[u], f[w]>>] \in P[u]
        BY <3>2, <4>1, Zenon
      <4> QED BY <3>2, <4>1, <4>2, <4>3, Zenon
    <3>4. CASE Cardinality(u) <= m
      <4>1. g[u] = f[u]
        BY <2>3, <3>1, <3>4
      <4>2. f[u] \in P[u] /\ (u # {} => f[u] = step[<<ch[u], f[w]>>])
        BY <2>1, <3>4, Zenon
      <4> QED BY <3>2, <4>1, <4>2, Zenon
    <3> QED BY <2>5, <3>1, <3>3, <3>4
  <2>6. g[{}] = base
    <3>1. {} \in SUBSET S /\ Cardinality({}) # m + 1
      BY FS_EmptySet
    <3> QED BY <2>1, <2>3, <3>1, Zenon
  <2>7. upto(g, m + 1)
    <3>1. \A u \in SUBSET S : Cardinality(u) <= m + 1 => g[u] \in P[u]
      BY <2>5, Zenon
    <3>2. \A u \in SUBSET S : Cardinality(u) <= m + 1 /\ u # {} => g[u] = step[<<ch[u], g[u \ {ch[u]}]>>]
      BY <2>5
    <3> QED BY <2>2, <2>6, <3>1, <3>2, Zenon
  <2> HIDE DEF upto
  <2> QED BY <2>7
<1>3. Cardinality(S) \in T
  <2>1. Cardinality(S) \in Nat
    BY <1>0, Zenon
  <2> HIDE DEF T
  <2> QED BY <1>1, <1>2, <2>1, Induct
<1>4. PICK f : upto(f, Cardinality(S))
  BY <1>3, Zenon
<1>5. TakesFold(S, ch, P, base, step, f)
  <2>1. ASSUME NEW u \in SUBSET S, u # {}
        PROVE  /\ f[u \ {ch[u]}] \in P[u \ {ch[u]}]
               /\ f[u] = step[<<ch[u], f[u \ {ch[u]}]>>]
    <3>1. u \ {ch[u]} \in SUBSET S
      OBVIOUS
    <3> QED BY <1>0, <1>4, <2>1, <3>1, Zenon
  <2> QED BY <1>4, <2>1, Zenon DEF TakesFold
<1> QED BY <1>5

LEMMA FoldKeeps ==
  ASSUME NEW S, NEW ch, NEW P, NEW f, KeepsFold(S, ch, P, f)
  PROVE  f[S] \in P[S]
<1> USE DEF KeepsFold
<1> DEFINE T == {m \in Nat : \A u \in SUBSET S : Cardinality(u) = m => f[u] \in P[u]}
<1>0. \A u \in SUBSET S : IsFiniteSet(u) /\ Cardinality(u) \in Nat
  BY FS_Subset, FS_CardinalityType
<1>1. 0 \in T
  <2>1. \A u \in SUBSET S : Cardinality(u) = 0 => u = {}
    BY <1>0, FS_EmptySet
  <2> QED BY <2>1, Zenon
<1>2. ASSUME NEW m \in Nat, m \in T PROVE m + 1 \in T
  <2> SUFFICES ASSUME NEW u \in SUBSET S, Cardinality(u) = m + 1 PROVE f[u] \in P[u]
    OBVIOUS
  <2>0. Cardinality(u) = m + 1
    OBVIOUS
  <2>1. u # {}
    <3>1. Cardinality({}) # m + 1
      BY FS_EmptySet
    <3> QED BY <3>1, Zenon
  <2>2. ch[u] \in u
    BY <2>1
  <2>3. Cardinality(u \ {ch[u]}) = m
    <3>1. IsFiniteSet(u) /\ Cardinality(u) \in Nat
      BY <1>0
    <3>2. Cardinality(u \ {ch[u]}) = Cardinality(u) - 1
      BY <2>2, <3>1, FS_RemoveElement, Zenon
    <3> QED BY <1>2, <2>0, <3>2
  <2>4. f[u \ {ch[u]}] \in P[u \ {ch[u]}]
    BY <1>2, <2>3
  <2> QED BY <2>1, <2>4, Zenon
<1>3. Cardinality(S) \in T
  <2> HIDE DEF T
  <2> QED BY <1>0, <1>1, <1>2, Induct
<1> QED BY <1>3

\* A fold over the numbers 1..n that takes the greatest last is a row of steps.
FoldAlong(n, T, ch, base, step, f) ==
  /\ n \in Nat /\ base \in T /\ f[{}] = base
  /\ \A k \in 1..n : ch[1..k] = k
  /\ \A k \in 1..n : \A x \in T : step[<<k, x>>] \in T
  /\ \A u \in SUBSET (1..n) : u # {} /\ f[u \ {ch[u]}] \in T => f[u] = step[<<ch[u], f[u \ {ch[u]}]>>]
Row(n, T, base, step, g) ==
  g[0] = base /\ \A k \in 1..n : g[k - 1] \in T /\ g[k] = step[<<k, g[k - 1]>>]

LEMMA FoldIsRow ==
  ASSUME NEW n, NEW T, NEW ch, NEW base, NEW step, NEW f, FoldAlong(n, T, ch, base, step, f)
  PROVE  \E g : Row(n, T, base, step, g) /\ g[n] = f[1..n] /\ g[n] \in T
<1> DEFINE g == [k \in 0..n |-> f[1..k]]
           P == [k \in 0..n |-> T]
<1>0. n \in Nat
  BY DEF FoldAlong
<1>1. \A k \in 0..n : g[k] = f[1..k]
  OBVIOUS
<1>2. g[0] = base
  <2>1. 1..0 = {} /\ 0 \in 0..n
    BY <1>0
  <2> HIDE DEF g
  <2> QED BY <1>1, <2>1 DEF FoldAlong
<1>3. ASSUME NEW k \in 1..n, g[k - 1] \in T PROVE g[k] = step[<<k, g[k - 1]>>]
  <2>1. k \in 0..n /\ k - 1 \in 0..n /\ 1..k \in SUBSET (1..n) /\ 1..k # {}
    BY <1>0
  <2>2. ch[1..k] = k /\ (1..k) \ {k} = 1..(k - 1)
    BY <1>0 DEF FoldAlong
  <2> DEFINE u == 1..k
             w == 1..(k - 1)
  <2>3. u \in SUBSET (1..n) /\ u # {} /\ ch[u] = k /\ u \ {k} = w /\ g[k] = f[u] /\ g[k - 1] = f[w]
    <3> HIDE DEF g
    <3> QED BY <1>1, <2>1, <2>2
  <2> HIDE DEF u, w, g
  <2>4. f[u \ {ch[u]}] \in T
    BY <1>3, <2>3
  <2> QED BY <2>3, <2>4, Zenon DEF FoldAlong
<1> HIDE DEF g
<1>4. KeepsIn(n, P, g)
  <2>1. \A k \in 1..n : k \in 0..n /\ k - 1 \in 0..n
    BY <1>0
  <2>2. \A k \in 0..n : P[k] = T
    OBVIOUS
  <2>3. 0 \in 0..n /\ base \in T
    BY <1>0 DEF FoldAlong
  <2>4. \A k \in 1..n : g[k - 1] \in T => g[k] \in T
    BY <1>3, Zenon DEF FoldAlong
  <2> HIDE DEF P
  <2> QED BY <1>0, <1>2, <2>1, <2>2, <2>3, <2>4 DEF KeepsIn
<1>5. \A k \in 0..n : g[k] \in T
  <2>1. \A k \in 0..n : P[k] = T
    OBVIOUS
  <2> HIDE DEF P
  <2> QED BY <1>4, <2>1, StepsKeep
<1>6. n \in 0..n /\ \A k \in 1..n : k - 1 \in 0..n
  BY <1>0
<1>7. Row(n, T, base, step, g)
  BY <1>2, <1>3, <1>5, <1>6 DEF Row
<1> QED BY <1>1, <1>5, <1>6, <1>7

\* Of a finite set whose members have different keys, each rank is held.
Keyed(S, key) == IsFiniteSet(S) /\ key \in [S -> Nat] /\ \A x, y \in S : key[x] = key[y] => x = y
RankIsHeld(S, key, k) == \E x \in S : Cardinality({y \in S : key[y] < key[x]}) = k - 1

LEMMA RankHeld ==
  ASSUME NEW S, NEW key, Keyed(S, key), NEW k \in 1..Cardinality(S)
  PROVE  RankIsHeld(S, key, k)
<1> USE DEF Keyed
<1> DEFINE below(x) == {y \in S : key[y] < key[x]}
           N == 0 .. Cardinality(S) - 1
           rank == [x \in S |-> Cardinality(below(x))]
<1>0. Cardinality(S) \in Nat
  BY FS_CardinalityType
<1>1. \A x \in S : IsFiniteSet(below(x)) /\ Cardinality(below(x)) \in Nat
  BY FS_Subset, FS_CardinalityType
<1>2. ASSUME NEW x \in S PROVE Cardinality(below(x)) \in N
  <2>1. below(x) \in SUBSET S /\ below(x) # S
    BY DEF below
  <2> HIDE DEF below
  <2>2. Cardinality(below(x)) <= Cardinality(S) /\ Cardinality(below(x)) # Cardinality(S)
    BY <2>1, FS_Subset, ZenonT(60)
  <2> QED BY <1>0, <1>1, <2>2
<1>3. ASSUME NEW x \in S, NEW y \in S, key[x] < key[y] PROVE Cardinality(below(x)) # Cardinality(below(y))
  <2>1. below(x) \in SUBSET below(y) /\ below(x) # below(y)
    BY <1>3 DEF below
  <2>2. IsFiniteSet(below(y))
    BY <1>1
  <2> HIDE DEF below
  <2> QED BY <2>1, <2>2, FS_Subset, ZenonT(60)
<1> HIDE DEF below
<1>4. rank \in [S -> N]
  BY <1>2
<1>5. \A x, y \in S : rank[x] = rank[y] => x = y
  <2> SUFFICES ASSUME NEW x \in S, NEW y \in S, rank[x] = rank[y] PROVE x = y
    OBVIOUS
  <2>1. rank[x] = Cardinality(below(x)) /\ rank[y] = Cardinality(below(y))
    OBVIOUS
  <2>2. ~(key[x] < key[y]) /\ ~(key[y] < key[x])
    BY <1>3, <2>1
  <2> QED BY <2>2
<1>6. IsFiniteSet(N) /\ Cardinality(N) = Cardinality(S)
  <2>1. \A b \in Int : IsFiniteSet(0..b) /\ Cardinality(0..b) = IF 0 > b THEN 0 ELSE b - 0 + 1
    BY FS_Interval
  <2>2. Cardinality(S) - 1 \in Int
    BY <1>0
  <2> QED BY <1>0, <2>1, <2>2
<1> HIDE DEF N
<1>7. rank \in Injection(S, N)
  <2> HIDE DEF rank
  <2> QED BY <1>4, <1>5 DEF Injection, IsInjective
<1>8. rank \in Surjection(S, N)
  <2> HIDE DEF rank
  <2> QED BY <1>6, <1>7, FS_Injection
<1>9. k - 1 \in N
  BY <1>0 DEF N
<1>10. PICK x \in S : rank[x] = k - 1
  <2> HIDE DEF rank
  <2> QED BY <1>8, <1>9 DEF Surjection
<1> QED BY <1>10, Zenon DEF below, RankIsHeld

\* The members in the order of their keys: each of them comes once.
Ranked(f, S, key) ==
  /\ f = [k \in 1..Cardinality(S) |-> f[k]]
  /\ \A k \in 1..Cardinality(S) : f[k] \in S /\ Cardinality({y \in S : key[y] < key[f[k]]}) = k - 1
Distinct(f) == \A j, k \in DOMAIN f : f[j] = f[k] => j = k
Enumerates(f, S) ==
  f \in [1..Cardinality(S) -> S] /\ Distinct(f) /\ \A x \in S : \E k \in DOMAIN f : f[k] = x

LEMMA RankUnique ==
  ASSUME NEW S, NEW key, Keyed(S, key), NEW x \in S, NEW y \in S,
         Cardinality({z \in S : key[z] < key[x]}) = Cardinality({z \in S : key[z] < key[y]})
  PROVE  x = y
<1> DEFINE B(a) == {z \in S : key[z] < key[a]}
<1>0. \A a \in S : key[a] \in Nat
  BY DEF Keyed
<1>1. ASSUME NEW a \in S, NEW b \in S, key[a] < key[b] PROVE Cardinality(B(a)) # Cardinality(B(b))
  <2>1. B(a) \subseteq B(b) /\ a \in B(b) /\ a \notin B(a)
    BY <1>0, <1>1
  <2>2. IsFiniteSet(B(b))
    <3>1. B(b) \subseteq S
      OBVIOUS
    <3> HIDE DEF B
    <3> QED BY <3>1, FS_Subset DEF Keyed
  <2> HIDE DEF B
  <2>3. B(a) \in SUBSET B(b) /\ B(a) # B(b)
    BY <2>1
  <2> QED BY <2>2, <2>3, FS_Subset, ZenonT(60)
<1>2. ~(key[x] < key[y]) /\ ~(key[y] < key[x])
  <2>1. Cardinality(B(x)) = Cardinality(B(y))
    OBVIOUS
  <2> HIDE DEF B
  <2> QED BY <1>1, <2>1
<1>3. key[x] = key[y]
  BY <1>0, <1>2
<1> QED BY <1>3 DEF Keyed

LEMMA RankedEnumerates ==
  ASSUME NEW S, NEW key, Keyed(S, key), NEW f, Ranked(f, S, key)
  PROVE  Enumerates(f, S)
<1> DEFINE n == Cardinality(S)
           below(x) == {y \in S : key[y] < key[x]}
<1>1. n \in Nat /\ IsFiniteSet(S)
  BY FS_CardinalityType DEF Keyed
<1>2. DOMAIN f = 1..n
  BY DEF Ranked
<1>3. \A k \in 1..n : f[k] \in S /\ Cardinality(below(f[k])) = k - 1
  BY DEF Ranked
<1>4. f \in [1..n -> S]
  BY <1>3, Zenon DEF Ranked
<1>5. ASSUME NEW j \in 1..n, NEW k \in 1..n, f[j] = f[k] PROVE j = k
  <2>1. j - 1 = k - 1
    <3> HIDE DEF below
    <3> QED BY <1>3, <1>5
  <2> QED BY <1>1, <2>1
<1>6. ASSUME NEW x \in S PROVE \E k \in 1..n : f[k] = x
  <2> DEFINE k == Cardinality(below(x)) + 1
  <2>1. k \in 1..n
    <3>1. below(x) \in SUBSET S /\ x \in S /\ x \notin below(x)
      <4>1. key[x] \in Nat
        BY DEF Keyed
      <4> QED BY <4>1
    <3> HIDE DEF below
    <3>2. below(x) # S
      BY <3>1
    <3>3. IsFiniteSet(below(x)) /\ Cardinality(below(x)) <= Cardinality(S) /\ Cardinality(below(x)) # Cardinality(S)
      BY <1>1, <3>1, <3>2, FS_Subset, ZenonT(60)
    <3>4. Cardinality(below(x)) \in Nat
      BY <3>3, FS_CardinalityType
    <3> QED BY <1>1, <3>3, <3>4
  <2>2. f[k] \in S /\ Cardinality(below(f[k])) = k - 1
    BY <1>3, <2>1
  <2>3. Cardinality(below(x)) \in Nat
    <3>1. below(x) \in SUBSET S
      OBVIOUS
    <3> HIDE DEF below
    <3> QED BY <1>1, <3>1, FS_Subset, FS_CardinalityType
  <2>4. Cardinality(below(f[k])) = Cardinality(below(x))
    <3> HIDE DEF below
    <3> QED BY <2>2, <2>3
  <2> HIDE DEF k
  <2>5. f[k] = x
    BY <2>2, <2>4, RankUnique
  <2> QED BY <2>1, <2>5
<1> QED BY <1>2, <1>4, <1>5, <1>6 DEF Enumerates, Distinct

\* What a cell at position q of the sequences S counts for at position p of
\* sequence s, and what cell i does.
Hit(q, S, s, p) == IF q = p /\ s \in S THEN 1 ELSE 0
Weight(c, i, s, p) == Hit(c.pos[i], c.seq[i], s, p)

\* A table whose counters may have gone below zero.
LooseTable(C) == [pos       : [C -> Pos \cup {Empty}],
                  shift     : [C -> Int],
                  seq       : [C -> SUBSET Seqs],
                  used      : SUBSET C,
                  seq_pos   : [Seqs -> [Pos -> Int]],
                  has_shift : BOOLEAN]

SameElsewhere(c, e, C, i) ==
  \A j \in C \ {i} : e.pos[j] = c.pos[j] /\ e.seq[j] = c.seq[j] /\ e.shift[j] = c.shift[j]

Recounted(c, e, i) ==
  \A s \in Seqs, p \in Pos :
    e.seq_pos[s][p] = c.seq_pos[s][p] - Weight(c, i, s, p) + Weight(e, i, s, p)

LocalChange(c, e, C, i) ==
  /\ e \in LooseTable(C)
  /\ SameElsewhere(c, e, C, i)
  /\ e.used = IF e.pos[i] = Empty THEN c.used \ {i} ELSE c.used \cup {i}
  /\ e.pos[i] = Empty => e.seq[i] = {} /\ e.shift[i] = 0
  /\ e.shift[i] # 0 => e.has_shift
  /\ c.has_shift => e.has_shift
  /\ Recounted(c, e, i)

\* What an operation makes of cell i; the other cells stay.
Becomes(c, e, C, i, q, S, h) ==
  /\ SameElsewhere(c, e, C, i)
  /\ e.pos[i] = q /\ e.seq[i] = S /\ e.shift[i] = h

\* The cells that hold a position are the others and perhaps cell i.
LEMMA HoldersSplit ==
  ASSUME NEW C, IsFiniteSet(C), NEW c, NEW i \in C, NEW s, NEW p
  PROVE  /\ IsFiniteSet(Holders(c, C, s, p))
         /\ Cardinality(Holders(c, C, s, p))
              = Cardinality(Holders(c, C, s, p) \ {i}) + Weight(c, i, s, p)
         /\ Cardinality(Holders(c, C, s, p) \ {i}) \in Nat
<1> DEFINE H == Holders(c, C, s, p)
<1>1. IsFiniteSet(H)
  <2>1. H \subseteq C
    BY DEF Holders
  <2> QED BY <2>1, FS_Subset
<1>2. IsFiniteSet(H \ {i}) /\ Cardinality(H \ {i}) \in Nat
  BY <1>1, FS_RemoveElement, FS_CardinalityType
<1>3. Cardinality(H) = Cardinality(H \ {i}) + Weight(c, i, s, p)
  <2>1. CASE i \in H
    <3>1. Cardinality(H \ {i}) = Cardinality(H) - 1
      BY <1>1, <2>1, FS_RemoveElement, Zenon
    <3>2. Weight(c, i, s, p) = 1
      BY <2>1 DEF Weight, Hit, Holders
    <3>3. Cardinality(H) \in Nat
      BY <1>1, FS_CardinalityType
    <3> HIDE DEF H
    <3> QED BY <3>1, <3>2, <3>3
  <2>2. CASE i \notin H
    <3>1. H \ {i} = H
      BY <2>2
    <3>2. Weight(c, i, s, p) = 0
      BY <2>2 DEF Weight, Hit, Holders
    <3> HIDE DEF H
    <3> QED BY <3>1, <3>2, <1>2
  <2> QED BY <2>1, <2>2
<1> QED BY <1>1, <1>2, <1>3

\* An operation that changes one cell and recounts it keeps the table
\* Consistent.
LEMMA LocalChangeKeeps ==
  ASSUME NEW C, IsFiniteSet(C), NEW c, Consistent(c, C), NEW i \in C,
         NEW e, LocalChange(c, e, C, i)
  PROVE  Consistent(e, C)
<1>1. CountExact(e, C) /\ \A s \in Seqs, p \in Pos : e.seq_pos[s][p] \in Nat
  <2> SUFFICES ASSUME NEW s \in Seqs, NEW p \in Pos
               PROVE  /\ e.seq_pos[s][p] = Cardinality(Holders(e, C, s, p))
                      /\ e.seq_pos[s][p] \in Nat
    BY DEF CountExact
  <2>1. Holders(e, C, s, p) \ {i} = Holders(c, C, s, p) \ {i}
    BY DEF Holders, LocalChange, SameElsewhere
  <2>2. c.seq_pos[s][p] = Cardinality(Holders(c, C, s, p) \ {i}) + Weight(c, i, s, p)
    BY HoldersSplit DEF Consistent, CountExact
  <2>3. Cardinality(Holders(e, C, s, p))
          = Cardinality(Holders(c, C, s, p) \ {i}) + Weight(e, i, s, p)
    BY <2>1, HoldersSplit
  <2>4. e.seq_pos[s][p] = c.seq_pos[s][p] - Weight(c, i, s, p) + Weight(e, i, s, p)
    BY DEF LocalChange, Recounted
  <2>5. Weight(c, i, s, p) \in {0, 1} /\ Weight(e, i, s, p) \in {0, 1}
    BY DEF Weight, Hit
  <2>6. Cardinality(Holders(c, C, s, p) \ {i}) \in Nat
    BY HoldersSplit, Zenon
  <2> QED BY <2>2, <2>3, <2>4, <2>5, <2>6
<1>2. e \in Table(C)
  <2>1. e.seq_pos \in [Seqs -> [Pos -> Nat]]
    BY <1>1 DEF LocalChange, LooseTable
  <2> QED BY <2>1 DEF LocalChange, LooseTable, Table
<1>3. UsedExact(e, C)
  BY DEF LocalChange, SameElsewhere, Consistent, UsedExact
<1>4. FreeIsClean(e, C)
  BY DEF LocalChange, SameElsewhere, Consistent, FreeIsClean
<1>5. ShiftKnown(e, C)
  BY DEF LocalChange, SameElsewhere, Consistent, ShiftKnown
<1> QED BY <1>1, <1>2, <1>3, <1>4, <1>5 DEF Consistent

\* An empty table is Consistent.
THEOREM ResetConsistent ==
  ASSUME NEW C, IsFiniteSet(C)
  PROVE  /\ Consistent(cells_reset(C), C)
         /\ \A i \in C : /\ cells_reset(C).pos[i] = Empty /\ cells_reset(C).seq[i] = {}
                        /\ cells_reset(C).shift[i] = 0
<1> DEFINE c == cells_reset(C)
<1>1. c \in Table(C) /\ UsedExact(c, C) /\ FreeIsClean(c, C) /\ ShiftKnown(c, C)
  BY DEF cells_reset, Table, UsedExact, FreeIsClean, ShiftKnown
<1>2. CountExact(c, C)
  <2> SUFFICES ASSUME NEW s \in Seqs, NEW p \in Pos
               PROVE  c.seq_pos[s][p] = Cardinality(Holders(c, C, s, p))
    BY DEF CountExact
  <2>1. Holders(c, C, s, p) = {}
    BY DEF Holders, cells_reset
  <2> QED BY <2>1, FS_EmptySet, Zenon DEF cells_reset
<1>3. \A i \in C : c.pos[i] = Empty /\ c.seq[i] = {} /\ c.shift[i] = 0
  BY DEF cells_reset
<1> QED BY <1>1, <1>2, <1>3 DEF Consistent

\* Forgetting the shifts, once they are applied, keeps a table Consistent.
THEOREM ResetShiftConsistent ==
  ASSUME NEW C, NEW c, Consistent(c, C)
  PROVE  /\ Consistent(reset_shift(c), C)
         /\ reset_shift(c).pos = c.pos /\ reset_shift(c).seq = c.seq
         /\ \A i \in C : reset_shift(c).shift[i] = 0
<1> DEFINE e == reset_shift(c)
<1>0. c \in Table(C)
  BY DEF Consistent
<1>1. DOMAIN c.shift = C /\ c.shift \in [C -> Int]
  BY <1>0 DEF Table
<1>2. e = [c EXCEPT !.has_shift = FALSE, !.shift = [i \in C |-> 0]]
  BY <1>1 DEF reset_shift
<1>3. e \in Table(C)
  <2>1. e = [pos |-> c.pos, shift |-> [i \in C |-> 0], seq |-> c.seq, used |-> c.used,
             seq_pos |-> c.seq_pos, has_shift |-> FALSE]
    BY <1>0, <1>2, Zenon DEF Table
  <2>2. [i \in C |-> 0] \in [C -> Int]
    OBVIOUS
  <2> QED BY <1>0, <2>1, <2>2 DEF Table
<1>4. /\ e.has_shift = FALSE
      /\ e.pos = c.pos /\ e.seq = c.seq /\ e.used = c.used /\ e.seq_pos = c.seq_pos
      /\ \A i \in C : e.shift[i] = 0
  BY <1>0, <1>2 DEF Table
<1>5. CountExact(e, C)
  BY <1>4 DEF Consistent, CountExact, Holders
<1>6. UsedExact(e, C) /\ FreeIsClean(e, C) /\ ShiftKnown(e, C)
  BY <1>4 DEF Consistent, UsedExact, FreeIsClean, ShiftKnown
<1> QED BY <1>3, <1>4, <1>5, <1>6 DEF Consistent

\* A Consistent table is a loose one, and its used cells hold positions that
\* are natural numbers.
LEMMA Fields ==
  ASSUME NEW C, NEW c, Consistent(c, C)
  PROVE  /\ c \in LooseTable(C)
         /\ c.pos \in [C -> Pos \cup {Empty}] /\ c.shift \in [C -> Int]
         /\ c.seq \in [C -> SUBSET Seqs] /\ c.used \in SUBSET C
         /\ c.seq_pos \in [Seqs -> [Pos -> Int]] /\ c.has_shift \in BOOLEAN
         /\ \A i \in C : c.pos[i] # Empty => c.pos[i] \in Pos
         /\ Pos \subseteq Nat /\ Empty \notin Pos
<1>1. c \in Table(C)
  BY DEF Consistent
<1>2. c.seq_pos \in [Seqs -> [Pos -> Int]]
  <2>1. c.seq_pos \in [Seqs -> [Pos -> Nat]]
    BY <1>1 DEF Table
  <2> QED BY <2>1
<1>3. Pos \subseteq Nat /\ Empty \notin Pos
  BY PosAssumption DEF Empty
<1>4. c \in LooseTable(C)
  BY <1>1, <1>2 DEF Table, LooseTable
<1> QED BY <1>1, <1>2, <1>3, <1>4 DEF Table

\* The fields of a loose table.
Has(c, C, P, H, S, U, N, F) ==
  /\ c \in LooseTable(C)
  /\ c.pos = P /\ c.shift = H /\ c.seq = S
  /\ c.used = U /\ c.seq_pos = N /\ c.has_shift = F

\* Replacing one field leaves the others.
LEMMA SetPos ==
  ASSUME NEW C, NEW c, NEW P, NEW H, NEW S, NEW U, NEW N, NEW F,
         Has(c, C, P, H, S, U, N, F), NEW X \in [C -> Pos \cup {Empty}]
  PROVE  Has([c EXCEPT !.pos = X], C, X, H, S, U, N, F)
BY DEF LooseTable, Has

LEMMA SetShift ==
  ASSUME NEW C, NEW c, NEW P, NEW H, NEW S, NEW U, NEW N, NEW F,
         Has(c, C, P, H, S, U, N, F), NEW X \in [C -> Int]
  PROVE  Has([c EXCEPT !.shift = X], C, P, X, S, U, N, F)
BY DEF LooseTable, Has

LEMMA SetSeq ==
  ASSUME NEW C, NEW c, NEW P, NEW H, NEW S, NEW U, NEW N, NEW F,
         Has(c, C, P, H, S, U, N, F), NEW X \in [C -> SUBSET Seqs]
  PROVE  Has([c EXCEPT !.seq = X], C, P, H, X, U, N, F)
BY DEF LooseTable, Has

LEMMA SetUsed ==
  ASSUME NEW C, NEW c, NEW P, NEW H, NEW S, NEW U, NEW N, NEW F,
         Has(c, C, P, H, S, U, N, F), NEW X \in SUBSET C
  PROVE  Has([c EXCEPT !.used = X], C, P, H, S, X, N, F)
BY DEF LooseTable, Has

LEMMA SetSeqPos ==
  ASSUME NEW C, NEW c, NEW P, NEW H, NEW S, NEW U, NEW N, NEW F,
         Has(c, C, P, H, S, U, N, F), NEW X \in [Seqs -> [Pos -> Int]]
  PROVE  Has([c EXCEPT !.seq_pos = X], C, P, H, S, U, X, F)
BY DEF LooseTable, Has

LEMMA SetHasShift ==
  ASSUME NEW C, NEW c, NEW P, NEW H, NEW S, NEW U, NEW N, NEW F,
         Has(c, C, P, H, S, U, N, F), NEW X \in BOOLEAN
  PROVE  Has([c EXCEPT !.has_shift = X], C, P, H, S, U, N, X)
BY DEF LooseTable, Has

\* What taking a cell out of some sequences, or into them, does to the
\* counters.
LEMMA UncountCounts ==
  ASSUME NEW m \in [Seqs -> [Pos -> Int]], NEW S \in SUBSET Seqs, NEW q \in Pos
  PROVE  /\ Uncount(m, S, q) \in [Seqs -> [Pos -> Int]]
         /\ \A s \in Seqs, p \in Pos :
              Uncount(m, S, q)[s][p] = m[s][p] - Hit(q, S, s, p)
<1>1. ASSUME NEW s \in Seqs, NEW p \in Pos
      PROVE  Uncount(m, S, q)[s][p] = m[s][p] - (IF q = p /\ s \in S THEN 1 ELSE 0)
  <2> DEFINE f == m[s]
  <2>1. f \in [Pos -> Int]
    OBVIOUS
  <2>2. Uncount(m, S, q)[s] = IF s \in S THEN [f EXCEPT ![q] = @ - 1] ELSE f
    BY DEF Uncount
  <2> HIDE DEF f
  <2>3. CASE s \in S
    <3>1. [f EXCEPT ![q] = f[q] - 1][p] = f[p] - (IF q = p THEN 1 ELSE 0)
      BY <2>1
    <3> QED BY <3>1, <2>2, <2>3 DEF f
  <2>4. CASE s \notin S
    <3>1. f[p] \in Int
      BY <2>1
    <3>2. Uncount(m, S, q)[s][p] = f[p]
      BY <2>2, <2>4
    <3> QED BY <3>1, <3>2, <2>4 DEF f
  <2> QED BY <2>3, <2>4
<1>2. Uncount(m, S, q) \in [Seqs -> [Pos -> Int]]
  <2>1. \A s \in Seqs : [m[s] EXCEPT ![q] = @ - 1] \in [Pos -> Int]
    OBVIOUS
  <2> QED BY <2>1 DEF Uncount
<1> QED BY <1>1, <1>2 DEF Hit

LEMMA CountCounts ==
  ASSUME NEW m \in [Seqs -> [Pos -> Int]], NEW S \in SUBSET Seqs, NEW q \in Pos
  PROVE  /\ Count(m, S, q) \in [Seqs -> [Pos -> Int]]
         /\ \A s \in Seqs, p \in Pos :
              Count(m, S, q)[s][p] = m[s][p] + Hit(q, S, s, p)
<1>1. ASSUME NEW s \in Seqs, NEW p \in Pos
      PROVE  Count(m, S, q)[s][p] = m[s][p] + (IF q = p /\ s \in S THEN 1 ELSE 0)
  <2> DEFINE f == m[s]
  <2>1. f \in [Pos -> Int]
    OBVIOUS
  <2>2. Count(m, S, q)[s] = IF s \in S THEN [f EXCEPT ![q] = @ + 1] ELSE f
    BY DEF Count
  <2> HIDE DEF f
  <2>3. CASE s \in S
    <3>1. [f EXCEPT ![q] = f[q] + 1][p] = f[p] + (IF q = p THEN 1 ELSE 0)
      BY <2>1
    <3> QED BY <3>1, <2>2, <2>3 DEF f
  <2>4. CASE s \notin S
    <3>1. f[p] \in Int
      BY <2>1
    <3>2. Count(m, S, q)[s][p] = f[p]
      BY <2>2, <2>4
    <3> QED BY <3>1, <3>2, <2>4 DEF f
  <2> QED BY <2>3, <2>4
<1>2. Count(m, S, q) \in [Seqs -> [Pos -> Int]]
  <2>1. \A s \in Seqs : [m[s] EXCEPT ![q] = @ + 1] \in [Pos -> Int]
    OBVIOUS
  <2> QED BY <2>1 DEF Count
<1> QED BY <1>1, <1>2 DEF Hit

LEMMA UncountWeight ==
  ASSUME NEW c, NEW i, c.seq_pos \in [Seqs -> [Pos -> Int]], c.seq[i] \in SUBSET Seqs, c.pos[i] \in Pos
  PROVE  /\ Uncount(c.seq_pos, c.seq[i], c.pos[i]) \in [Seqs -> [Pos -> Int]]
         /\ \A s \in Seqs, p \in Pos :
              Uncount(c.seq_pos, c.seq[i], c.pos[i])[s][p] = c.seq_pos[s][p] - Weight(c, i, s, p)
BY UncountCounts, ZenonT(60) DEF Weight

LEMMA CountWeight ==
  ASSUME NEW n, NEW e, NEW i, n \in [Seqs -> [Pos -> Int]], e.seq[i] \in SUBSET Seqs, e.pos[i] \in Pos
  PROVE  /\ Count(n, e.seq[i], e.pos[i]) \in [Seqs -> [Pos -> Int]]
         /\ \A s \in Seqs, p \in Pos :
              Count(n, e.seq[i], e.pos[i])[s][p] = n[s][p] + Weight(e, i, s, p)
BY CountCounts, ZenonT(60) DEF Weight

\* Freeing a used cell.
THEOREM RmConsistent ==
  ASSUME NEW C, IsFiniteSet(C), NEW c, Consistent(c, C), NEW i \in C, c.pos[i] # Empty
  PROVE  Consistent(rm(c, i), C) /\ Becomes(c, rm(c, i), C, i, Empty, {}, 0)
<1> DEFINE P  == [c.pos EXCEPT ![i] = Empty]
           H  == [c.shift EXCEPT ![i] = 0]
           S  == [c.seq EXCEPT ![i] = {}]
           U  == c.used \ {i}
           N  == Uncount(c.seq_pos, c.seq[i], c.pos[i])
           c1 == [c EXCEPT !.pos = P]
           c2 == [c1 EXCEPT !.shift = [c1.shift EXCEPT ![i] = 0]]
           c3 == [c2 EXCEPT !.seq = [c2.seq EXCEPT ![i] = {}]]
           c4 == [c3 EXCEPT !.used = c3.used \ {i}]
           e  == [c4 EXCEPT !.seq_pos = N]
<1>1. rm(c, i) = e
  BY DEF rm
<1>2. /\ P \in [C -> Pos \cup {Empty}] /\ H \in [C -> Int] /\ S \in [C -> SUBSET Seqs] /\ U \in SUBSET C
      /\ P[i] = Empty /\ H[i] = 0 /\ S[i] = {}
      /\ \A j \in C \ {i} : P[j] = c.pos[j] /\ H[j] = c.shift[j] /\ S[j] = c.seq[j]
  BY Fields
<1>3. /\ N \in [Seqs -> [Pos -> Int]]
      /\ \A s \in Seqs, p \in Pos : N[s][p] = c.seq_pos[s][p] - Weight(c, i, s, p)
  <2>1. c.seq_pos \in [Seqs -> [Pos -> Int]] /\ c.seq[i] \in SUBSET Seqs /\ c.pos[i] \in Pos
    BY Fields
  <2> QED BY <2>1, UncountWeight
<1>4. Has(c, C, c.pos, c.shift, c.seq, c.used, c.seq_pos, c.has_shift)
  BY Fields DEF Has
<1>5. c1.shift = c.shift /\ c2.seq = c.seq /\ c3.used = c.used
  BY Fields DEF LooseTable
<1> HIDE DEF P, H, S, U, N
<1>6. Has(c1, C, P, c.shift, c.seq, c.used, c.seq_pos, c.has_shift)
  BY <1>2, <1>4, SetPos
<1> HIDE DEF c1
<1>7. Has(c2, C, P, H, c.seq, c.used, c.seq_pos, c.has_shift)
  BY <1>2, <1>5, <1>6, SetShift DEF H
<1> HIDE DEF c2
<1>8. Has(c3, C, P, H, S, c.used, c.seq_pos, c.has_shift)
  BY <1>2, <1>5, <1>7, SetSeq, Zenon DEF S
<1> HIDE DEF c3
<1>9. Has(c4, C, P, H, S, U, c.seq_pos, c.has_shift)
  BY <1>2, <1>5, <1>8, SetUsed, Zenon DEF U
<1> HIDE DEF c4
<1>10. Has(e, C, P, H, S, U, N, c.has_shift)
  BY <1>3, <1>9, SetSeqPos
<1> HIDE DEF e
<1>11. Recounted(c, e, i)
  <2>1. \A s \in Seqs, p \in Pos : Weight(e, i, s, p) = 0
    BY <1>2, <1>10 DEF Weight, Hit, Has
  <2>2. \A s \in Seqs, p \in Pos : c.seq_pos[s][p] \in Int /\ Weight(c, i, s, p) \in Int
    BY Fields DEF Weight, Hit
  <2> QED BY <1>3, <1>10, <2>1, <2>2 DEF Recounted, Has
<1>12. LocalChange(c, e, C, i)
  BY <1>2, <1>10, <1>11 DEF LocalChange, SameElsewhere, Has, U
<1>13. Becomes(c, e, C, i, Empty, {}, 0)
  BY <1>2, <1>10 DEF Becomes, SameElsewhere, Has
<1> QED BY <1>1, <1>12, <1>13, LocalChangeKeeps

\* Cell i gets the sequences T, and the counters N follow.
Resequenced(c, i, T, N) == [c EXCEPT !.seq[i] = T, !.seq_pos = N]
Follows(c, i, T, N) ==
  /\ N \in [Seqs -> [Pos -> Int]]
  /\ \A s \in Seqs, p \in Pos :
       N[s][p] = c.seq_pos[s][p] - Weight(c, i, s, p) + Hit(c.pos[i], T, s, p)

\* A used cell gets other sequences, and the counters follow.
LEMMA SeqChange ==
  ASSUME NEW C, IsFiniteSet(C), NEW c, Consistent(c, C), NEW i \in C, c.pos[i] # Empty,
         NEW T \in SUBSET Seqs, NEW N, Follows(c, i, T, N)
  PROVE  /\ Consistent(Resequenced(c, i, T, N), C)
         /\ Becomes(c, Resequenced(c, i, T, N), C, i, c.pos[i], T, c.shift[i])
<1> DEFINE S  == [c.seq EXCEPT ![i] = T]
           c1 == [c EXCEPT !.seq = S]
           e  == [c1 EXCEPT !.seq_pos = N]
<1>1. /\ S \in [C -> SUBSET Seqs] /\ S[i] = T
      /\ \A j \in C \ {i} : S[j] = c.seq[j]
  BY Fields
<1>2. Has(c, C, c.pos, c.shift, c.seq, c.used, c.seq_pos, c.has_shift)
  BY Fields DEF Has
<1> HIDE DEF S
<1>3. Has(c1, C, c.pos, c.shift, S, c.used, c.seq_pos, c.has_shift)
  BY <1>1, <1>2, SetSeq
<1> HIDE DEF c1
<1>4. Has(e, C, c.pos, c.shift, S, c.used, N, c.has_shift)
  BY <1>3, SetSeqPos DEF Follows
<1> HIDE DEF e
<1>5. Recounted(c, e, i)
  BY <1>1, <1>4 DEF Recounted, Has, Weight, Follows
<1>6. i \in c.used /\ c.used \cup {i} = c.used
  BY DEF Consistent, UsedExact
<1>7. c.shift[i] # 0 => c.has_shift
  BY DEF Consistent, ShiftKnown
<1>8. LocalChange(c, e, C, i)
  BY <1>1, <1>4, <1>5, <1>6, <1>7 DEF LocalChange, SameElsewhere, Has
<1>9. Consistent(e, C)
  BY <1>8, LocalChangeKeeps
<1>10. Becomes(c, e, C, i, c.pos[i], T, c.shift[i])
  BY <1>1, <1>4 DEF Becomes, SameElsewhere, Has
<1> QED BY <1>9, <1>10 DEF Resequenced, e, c1, S

\* A cell in use leaves one of its sequences.
THEOREM SeqRmConsistent ==
  ASSUME NEW C, IsFiniteSet(C), NEW c, Consistent(c, C), NEW i \in C, NEW s \in Seqs, seq_has(c, i, s)
  PROVE  /\ Consistent(cell_seq_rm(c, i, s), C)
         /\ Becomes(c, cell_seq_rm(c, i, s), C, i, IF c.seq[i] = {s} THEN Empty ELSE c.pos[i],
                    c.seq[i] \ {s}, IF c.seq[i] = {s} THEN 0 ELSE c.shift[i])
<1>1. s \in c.seq[i] /\ c.pos[i] # Empty
  BY DEF seq_has, Consistent, FreeIsClean
<1>2. CASE c.seq[i] = {s}
  <2>1. cell_seq_rm(c, i, s) = rm(c, i) /\ c.seq[i] \ {s} = {}
    BY <1>2 DEF cell_seq_rm
  <2> QED BY <1>1, <1>2, <2>1, RmConsistent
<1>3. CASE c.seq[i] # {s}
  <2> DEFINE T == c.seq[i] \ {s}
             N == [c.seq_pos EXCEPT ![s][c.pos[i]] = @ - 1]
  <2>1. cell_seq_rm(c, i, s) = Resequenced(c, i, T, N)
    BY <1>3 DEF cell_seq_rm, Resequenced
  <2>2. c.seq_pos \in [Seqs -> [Pos -> Int]] /\ c.pos[i] \in Pos /\ T \in SUBSET Seqs
    BY <1>1, Fields
  <2>3. /\ N \in [Seqs -> [Pos -> Int]]
        /\ \A r \in Seqs, p \in Pos :
             N[r][p] = IF r = s /\ p = c.pos[i] THEN c.seq_pos[r][p] - 1 ELSE c.seq_pos[r][p]
    BY <2>2
  <2>4. \A r \in Seqs, p \in Pos : c.seq_pos[r][p] \in Int
    BY <2>2
  <2> HIDE DEF N
  <2>5. Follows(c, i, T, N)
    BY <1>1, <2>3, <2>4 DEF Follows, Weight, Hit
  <2> HIDE DEF T
  <2>6. /\ Consistent(cell_seq_rm(c, i, s), C)
        /\ Becomes(c, cell_seq_rm(c, i, s), C, i, c.pos[i], T, c.shift[i])
    BY <1>1, <2>1, <2>2, <2>5, SeqChange
  <2> QED BY <1>3, <2>6 DEF T
<1> QED BY <1>2, <1>3

\* A cell in use joins a sequence it is not in.
THEOREM SeqAddConsistent ==
  ASSUME NEW C, IsFiniteSet(C), NEW c, Consistent(c, C), NEW i \in C, NEW s \in Seqs,
         c.pos[i] # Empty, ~seq_has(c, i, s)
  PROVE  /\ Consistent(cell_seq_add(c, i, s), C)
         /\ Becomes(c, cell_seq_add(c, i, s), C, i, c.pos[i], c.seq[i] \cup {s}, c.shift[i])
<1> DEFINE T == c.seq[i] \cup {s}
           N == [c.seq_pos EXCEPT ![s][c.pos[i]] = @ + 1]
<1>1. cell_seq_add(c, i, s) = Resequenced(c, i, T, N)
  BY DEF cell_seq_add, Resequenced
<1>2. c.seq_pos \in [Seqs -> [Pos -> Int]] /\ c.pos[i] \in Pos /\ T \in SUBSET Seqs
  BY Fields
<1>3. /\ N \in [Seqs -> [Pos -> Int]]
      /\ \A r \in Seqs, p \in Pos :
           N[r][p] = IF r = s /\ p = c.pos[i] THEN c.seq_pos[r][p] + 1 ELSE c.seq_pos[r][p]
  BY <1>2
<1>4. \A r \in Seqs, p \in Pos : c.seq_pos[r][p] \in Int
  BY <1>2
<1> HIDE DEF N
<1>5. Follows(c, i, T, N)
  BY <1>3, <1>4 DEF Follows, Weight, Hit, seq_has
<1> HIDE DEF T
<1>6. /\ Consistent(cell_seq_add(c, i, s), C)
      /\ Becomes(c, cell_seq_add(c, i, s), C, i, c.pos[i], T, c.shift[i])
  BY <1>1, <1>2, <1>5, SeqChange
<1> QED BY <1>6 DEF T

\* A cell stays in one sequence only, or is freed.
THEOREM SeqKeepConsistent ==
  ASSUME NEW C, IsFiniteSet(C), NEW c, Consistent(c, C), NEW i \in C, NEW s \in Seqs
  PROVE  /\ Consistent(cell_seq_keep(c, i, s), C)
         /\ LET stays == s \in c.seq[i] \/ c.seq[i] = {}
            IN Becomes(c, cell_seq_keep(c, i, s), C, i, IF stays THEN c.pos[i] ELSE Empty,
                       c.seq[i] \cap {s}, IF stays THEN c.shift[i] ELSE 0)
<1>1. c.seq[i] # {} => c.pos[i] # Empty
  BY DEF Consistent, FreeIsClean
<1>2. CASE s \in c.seq[i]
  <2> DEFINE R == c.seq[i] \ {s}
             N == Uncount(c.seq_pos, R, c.pos[i])
  <2>1. cell_seq_keep(c, i, s) = Resequenced(c, i, {s}, N)
    BY <1>2 DEF cell_seq_keep, Resequenced
  <2>2. c.seq_pos \in [Seqs -> [Pos -> Int]] /\ c.pos[i] \in Pos /\ R \in SUBSET Seqs /\ {s} \in SUBSET Seqs
    BY <1>1, <1>2, Fields
  <2>3. /\ N \in [Seqs -> [Pos -> Int]]
        /\ \A r \in Seqs, p \in Pos : N[r][p] = c.seq_pos[r][p] - Hit(c.pos[i], R, r, p)
    <3> HIDE DEF R
    <3> QED BY <2>2, UncountCounts, ZenonT(60)
  <2>4. \A r \in Seqs, p \in Pos : c.seq_pos[r][p] \in Int
    BY <2>2
  <2> HIDE DEF N
  <2>5. Follows(c, i, {s}, N)
    BY <1>2, <2>3, <2>4 DEF Follows, Weight, Hit
  <2>6. /\ Consistent(cell_seq_keep(c, i, s), C)
        /\ Becomes(c, cell_seq_keep(c, i, s), C, i, c.pos[i], {s}, c.shift[i])
    BY <1>1, <1>2, <2>1, <2>2, <2>5, SeqChange
  <2>7. c.seq[i] \cap {s} = {s}
    BY <1>2
  <2> QED BY <1>2, <2>6, <2>7
<1>3. CASE s \notin c.seq[i] /\ c.seq[i] # {}
  <2>1. cell_seq_keep(c, i, s) = rm(c, i) /\ c.seq[i] \cap {s} = {}
    BY <1>3 DEF cell_seq_keep
  <2> QED BY <1>1, <1>3, <2>1, RmConsistent, Zenon
<1>4. CASE s \notin c.seq[i] /\ c.seq[i] = {}
  <2>1. cell_seq_keep(c, i, s) = c /\ c.seq[i] \cap {s} = c.seq[i]
    BY <1>4 DEF cell_seq_keep
  <2> QED BY <1>4, <2>1 DEF Becomes, SameElsewhere
<1> QED BY <1>2, <1>3, <1>4

\* A free cell takes a position; no sequence holds it yet.
THEOREM PosSetConsistent ==
  ASSUME NEW C, IsFiniteSet(C), NEW c, Consistent(c, C), NEW i \in C, is_empty(c, i), NEW q \in Pos
  PROVE  Consistent(pos_set(c, i, q), C) /\ Becomes(c, pos_set(c, i, q), C, i, q, {}, 0)
<1> DEFINE P  == [c.pos EXCEPT ![i] = q]
           U  == c.used \cup {i}
           c1 == [c EXCEPT !.pos = P]
           e  == [c1 EXCEPT !.used = c1.used \cup {i}]
<1>1. pos_set(c, i, q) = e
  BY DEF pos_set
<1>2. /\ P \in [C -> Pos \cup {Empty}] /\ P[i] = q /\ q # Empty /\ U \in SUBSET C
      /\ \A j \in C \ {i} : P[j] = c.pos[j]
  BY Fields
<1>3. Has(c, C, c.pos, c.shift, c.seq, c.used, c.seq_pos, c.has_shift)
  BY Fields DEF Has
<1> HIDE DEF P
<1>4. Has(c1, C, P, c.shift, c.seq, c.used, c.seq_pos, c.has_shift)
  BY <1>2, <1>3, SetPos
<1> HIDE DEF c1
<1>5. Has(e, C, P, c.shift, c.seq, U, c.seq_pos, c.has_shift)
  <2>1. c1.used \cup {i} = U
    BY <1>4 DEF Has
  <2> QED BY <1>2, <1>4, <2>1, SetUsed
<1> HIDE DEF e
<1>6. c.seq[i] = {} /\ c.shift[i] = 0
  BY DEF is_empty, Consistent, FreeIsClean
<1>7. Recounted(c, e, i)
  <2>1. \A s \in Seqs, p \in Pos : Weight(c, i, s, p) = 0 /\ Weight(e, i, s, p) = 0
    BY <1>5, <1>6 DEF Weight, Hit, Has
  <2>2. \A s \in Seqs, p \in Pos : c.seq_pos[s][p] \in Int
    BY Fields
  <2> QED BY <1>5, <2>1, <2>2 DEF Recounted, Has
<1>8. LocalChange(c, e, C, i)
  BY <1>2, <1>5, <1>6, <1>7 DEF LocalChange, SameElsewhere, Has
<1>9. Becomes(c, e, C, i, q, {}, 0)
  BY <1>2, <1>5, <1>6 DEF Becomes, SameElsewhere, Has
<1> QED BY <1>1, <1>8, <1>9, LocalChangeKeeps

\* Cell i moves to q, with shift h.
Moved(c, i, q, h) ==
  [c EXCEPT !.pos[i] = q, !.shift[i] = h, !.has_shift = TRUE,
            !.seq_pos = Count(Uncount(@, c.seq[i], c.pos[i]), c.seq[i], q)]

\* A used cell moves, and a shift is announced.
LEMMA MovedConsistent ==
  ASSUME NEW C, IsFiniteSet(C), NEW c, Consistent(c, C), NEW i \in C, c.pos[i] # Empty,
         NEW q \in Pos, NEW h \in Int
  PROVE  /\ Consistent(Moved(c, i, q, h), C)
         /\ Becomes(c, Moved(c, i, q, h), C, i, q, c.seq[i], h)
<1> DEFINE P  == [c.pos EXCEPT ![i] = q]
           H  == [c.shift EXCEPT ![i] = h]
           M  == Uncount(c.seq_pos, c.seq[i], c.pos[i])
           N  == Count(M, c.seq[i], q)
           c1 == [c EXCEPT !.pos = P]
           c2 == [c1 EXCEPT !.shift = [c1.shift EXCEPT ![i] = h]]
           c3 == [c2 EXCEPT !.has_shift = TRUE]
           e  == [c3 EXCEPT !.seq_pos = N]
<1>1. Moved(c, i, q, h) = e
  BY DEF Moved
<1>2. /\ P \in [C -> Pos \cup {Empty}] /\ H \in [C -> Int]
      /\ P[i] = q /\ q # Empty /\ H[i] = h
      /\ \A j \in C \ {i} : P[j] = c.pos[j] /\ H[j] = c.shift[j]
  BY Fields
<1>3. c.seq_pos \in [Seqs -> [Pos -> Int]] /\ c.seq[i] \in SUBSET Seqs /\ c.pos[i] \in Pos
  BY Fields
<1>4. /\ M \in [Seqs -> [Pos -> Int]]
      /\ \A s \in Seqs, p \in Pos : M[s][p] = c.seq_pos[s][p] - Weight(c, i, s, p)
  BY <1>3, UncountWeight
<1> HIDE DEF M
<1>5. /\ N \in [Seqs -> [Pos -> Int]]
      /\ \A s \in Seqs, p \in Pos : N[s][p] = M[s][p] + Hit(q, c.seq[i], s, p)
  BY <1>3, <1>4, CountCounts, Zenon
<1>6. Has(c, C, c.pos, c.shift, c.seq, c.used, c.seq_pos, c.has_shift) /\ c1.shift = c.shift
  BY Fields DEF Has, LooseTable
<1> HIDE DEF P, H, N
<1>7. Has(c1, C, P, c.shift, c.seq, c.used, c.seq_pos, c.has_shift)
  BY <1>2, <1>6, SetPos
<1> HIDE DEF c1
<1>8. Has(c2, C, P, H, c.seq, c.used, c.seq_pos, c.has_shift)
  BY <1>2, <1>6, <1>7, SetShift DEF H
<1> HIDE DEF c2
<1>9. Has(c3, C, P, H, c.seq, c.used, c.seq_pos, TRUE)
  BY <1>8, SetHasShift, Zenon
<1> HIDE DEF c3
<1>10. Has(e, C, P, H, c.seq, c.used, N, TRUE)
  BY <1>5, <1>9, SetSeqPos, Zenon
<1> HIDE DEF e
<1>11. Recounted(c, e, i)
  <2>1. \A s \in Seqs, p \in Pos : Weight(e, i, s, p) = Hit(q, c.seq[i], s, p)
    BY <1>2, <1>10 DEF Weight, Has
  <2> QED BY <1>4, <1>5, <1>10, <2>1 DEF Recounted, Has
<1>12. c.used \cup {i} = c.used
  BY DEF Consistent, UsedExact
<1>13. LocalChange(c, e, C, i)
  BY <1>2, <1>10, <1>11, <1>12 DEF LocalChange, SameElsewhere, Has
<1>14. Becomes(c, e, C, i, q, c.seq[i], h)
  BY <1>2, <1>10 DEF Becomes, SameElsewhere, Has
<1> QED BY <1>1, <1>13, <1>14, LocalChangeKeeps

\* Announcing a shift.
LEMMA AnnouncedConsistent ==
  ASSUME NEW C, NEW c, Consistent(c, C)
  PROVE  /\ Consistent([c EXCEPT !.has_shift = TRUE], C)
         /\ [c EXCEPT !.has_shift = TRUE].pos = c.pos
         /\ [c EXCEPT !.has_shift = TRUE].seq = c.seq
         /\ [c EXCEPT !.has_shift = TRUE].shift = c.shift
<1> DEFINE e == [c EXCEPT !.has_shift = TRUE]
<1>1. Has(c, C, c.pos, c.shift, c.seq, c.used, c.seq_pos, c.has_shift)
  BY Fields DEF Has
<1>2. Has(e, C, c.pos, c.shift, c.seq, c.used, c.seq_pos, TRUE)
  BY <1>1, SetHasShift, Zenon
<1> HIDE DEF e
<1>3. e \in Table(C)
  BY <1>2 DEF Has, LooseTable, Table, Consistent
<1>4. CountExact(e, C)
  BY <1>2 DEF Has, Consistent, CountExact, Holders
<1>5. UsedExact(e, C) /\ FreeIsClean(e, C) /\ ShiftKnown(e, C)
  BY <1>2 DEF Has, Consistent, UsedExact, FreeIsClean, ShiftKnown
<1>6. Consistent(e, C)
  BY <1>3, <1>4, <1>5 DEF Consistent
<1>7. e.pos = c.pos /\ e.seq = c.seq /\ e.shift = c.shift
  BY <1>2 DEF Has
<1> QED BY <1>6, <1>7 DEF e

\* A cell that is shifted stays at a position the cache has, or is freed.
THEOREM PosAddConsistent ==
  ASSUME NEW C, IsFiniteSet(C), NEW c, Consistent(c, C), NEW i \in C, c.pos[i] # Empty,
         NEW d \in Int, c.pos[i] + d < 0 \/ c.pos[i] + d \in Pos
  PROVE  /\ Consistent(pos_add(c, i, d), C)
         /\ LET freed == c.pos[i] + d < 0
            IN Becomes(c, pos_add(c, i, d), C, i, IF freed THEN Empty ELSE c.pos[i] + d,
                       IF freed THEN {} ELSE c.seq[i], IF freed THEN 0 ELSE c.shift[i] + d)
<1>1. CASE c.pos[i] + d < 0
  <2>1. Consistent(rm(c, i), C) /\ Becomes(c, rm(c, i), C, i, Empty, {}, 0)
    BY RmConsistent
  <2>2. pos_add(c, i, d) = [rm(c, i) EXCEPT !.has_shift = TRUE]
    BY <1>1 DEF pos_add
  <2>3. Consistent(pos_add(c, i, d), C) /\ Becomes(c, pos_add(c, i, d), C, i, Empty, {}, 0)
    BY <2>1, <2>2, AnnouncedConsistent DEF Becomes, SameElsewhere
  <2> QED BY <1>1, <2>3
<1>2. CASE ~(c.pos[i] + d < 0)
  <2>1. pos_add(c, i, d) = Moved(c, i, c.pos[i] + d, c.shift[i] + d)
    BY <1>2 DEF pos_add, Moved
  <2>2. c.shift[i] + d \in Int
    BY Fields
  <2>3. c.pos[i] + d \in Pos
    BY <1>2
  <2>4. /\ Consistent(pos_add(c, i, d), C)
        /\ Becomes(c, pos_add(c, i, d), C, i, c.pos[i] + d, c.seq[i], c.shift[i] + d)
    BY <2>1, <2>2, <2>3, MovedConsistent
  <2> QED BY <1>2, <2>4
<1> QED BY <1>1, <1>2

\* So does a cell whose position is divided.
THEOREM PosDivConsistent ==
  ASSUME NEW C, IsFiniteSet(C), NEW c, Consistent(c, C), NEW i \in C, c.pos[i] # Empty,
         NEW d \in Nat \ {0}, c.pos[i] \div d \in Pos
  PROVE  Consistent(pos_div(c, i, d), C)
<1> DEFINE q == c.pos[i] \div d
<1>1. pos_div(c, i, d) = Moved(c, i, q, c.shift[i] + (c.pos[i] - q))
  BY DEF pos_div, Moved
<1>2. c.shift[i] + (c.pos[i] - q) \in Int
  <2>1. c.shift[i] \in Int /\ c.pos[i] \in Nat /\ q \in Nat
    BY Fields
  <2> HIDE DEF q
  <2> QED BY <2>1
<1> HIDE DEF q
<1> QED BY <1>1, <1>2, MovedConsistent DEF q

\* A cell takes back what it held in a table over the same cells.  set()
\* asserts that the cell has no shift, and so has what it takes back.
THEOREM SetConsistent ==
  ASSUME NEW C, IsFiniteSet(C), NEW c, Consistent(c, C), NEW old, Consistent(old, C),
         NEW i \in C, c.shift[i] = 0
  PROVE  /\ Consistent(cell_set(c, i, old), C)
         /\ Becomes(c, cell_set(c, i, old), C, i, old.pos[i], old.seq[i], 0)
<1> DEFINE gone == IF is_empty(c, i) THEN c.seq_pos ELSE Uncount(c.seq_pos, c.seq[i], c.pos[i])
           N    == IF is_empty(old, i) THEN gone ELSE Count(gone, old.seq[i], old.pos[i])
           P    == [c.pos EXCEPT ![i] = old.pos[i]]
           S    == [c.seq EXCEPT ![i] = old.seq[i]]
           U    == IF is_empty(old, i) THEN c.used \ {i} ELSE c.used \cup {i}
           c1   == [c EXCEPT !.pos = P]
           c2   == [c1 EXCEPT !.seq = [c1.seq EXCEPT ![i] = old.seq[i]]]
           c3   == [c2 EXCEPT !.seq_pos = N]
           e    == [c3 EXCEPT !.used = IF is_empty(old, i) THEN c3.used \ {i} ELSE c3.used \cup {i}]
<1>1. cell_set(c, i, old) = e
  BY DEF cell_set
<1>2. /\ P \in [C -> Pos \cup {Empty}] /\ S \in [C -> SUBSET Seqs] /\ U \in SUBSET C
      /\ P[i] = old.pos[i] /\ S[i] = old.seq[i]
      /\ \A j \in C \ {i} : P[j] = c.pos[j] /\ S[j] = c.seq[j]
  BY Fields
<1>3. /\ gone \in [Seqs -> [Pos -> Int]]
      /\ \A s \in Seqs, p \in Pos : gone[s][p] = c.seq_pos[s][p] - Weight(c, i, s, p)
  <2>1. CASE is_empty(c, i)
    <3>1. gone = c.seq_pos
      BY <2>1
    <3>2. \A s \in Seqs, p \in Pos : Weight(c, i, s, p) = 0
      BY <2>1, Fields DEF Weight, Hit, is_empty
    <3>3. c.seq_pos \in [Seqs -> [Pos -> Int]] /\ \A s \in Seqs, p \in Pos : c.seq_pos[s][p] \in Int
      BY Fields
    <3> HIDE DEF gone
    <3> QED BY <3>1, <3>2, <3>3
  <2>2. CASE ~is_empty(c, i)
    <3>1. gone = Uncount(c.seq_pos, c.seq[i], c.pos[i])
      BY <2>2
    <3>2. c.seq_pos \in [Seqs -> [Pos -> Int]] /\ c.seq[i] \in SUBSET Seqs /\ c.pos[i] \in Pos
      BY <2>2, Fields DEF is_empty
    <3> HIDE DEF gone
    <3> QED BY <3>1, <3>2, UncountWeight
  <2> QED BY <2>1, <2>2
<1>4. /\ N \in [Seqs -> [Pos -> Int]]
      /\ \A s \in Seqs, p \in Pos : N[s][p] = gone[s][p] + Weight(old, i, s, p)
  <2> HIDE DEF gone
  <2>1. CASE is_empty(old, i)
    <3>1. N = gone
      BY <2>1
    <3>2. \A s \in Seqs, p \in Pos : Weight(old, i, s, p) = 0
      BY <2>1, Fields DEF Weight, Hit, is_empty
    <3>3. \A s \in Seqs, p \in Pos : gone[s][p] \in Int
      BY <1>3
    <3> HIDE DEF N
    <3> QED BY <1>3, <3>1, <3>2, <3>3
  <2>2. CASE ~is_empty(old, i)
    <3>1. N = Count(gone, old.seq[i], old.pos[i])
      BY <2>2
    <3>2. old.seq[i] \in SUBSET Seqs /\ old.pos[i] \in Pos
      BY <2>2, Fields DEF is_empty
    <3>3. gone \in [Seqs -> [Pos -> Int]]
      BY <1>3
    <3> HIDE DEF N
    <3> QED BY <3>1, <3>2, <3>3, CountWeight
  <2> HIDE DEF N
  <2> QED BY <2>1, <2>2
<1>5. Has(c, C, c.pos, c.shift, c.seq, c.used, c.seq_pos, c.has_shift) /\ c1.seq = c.seq
  BY Fields DEF Has, LooseTable
<1> HIDE DEF P, S, U, N, gone
<1>6. Has(c1, C, P, c.shift, c.seq, c.used, c.seq_pos, c.has_shift)
  BY <1>2, <1>5, SetPos
<1> HIDE DEF c1
<1>7. Has(c2, C, P, c.shift, S, c.used, c.seq_pos, c.has_shift)
  BY <1>2, <1>5, <1>6, SetSeq DEF S
<1> HIDE DEF c2
<1>8. Has(c3, C, P, c.shift, S, c.used, N, c.has_shift)
  BY <1>4, <1>7, SetSeqPos
<1> HIDE DEF c3
<1>9. Has(e, C, P, c.shift, S, U, N, c.has_shift)
  <2>1. (IF is_empty(old, i) THEN c3.used \ {i} ELSE c3.used \cup {i}) = U
    BY <1>8 DEF Has, U
  <2> QED BY <1>2, <1>8, <2>1, SetUsed, Zenon
<1> HIDE DEF e
<1>10. Recounted(c, e, i)
  <2>1. \A s \in Seqs, p \in Pos : Weight(e, i, s, p) = Weight(old, i, s, p)
    BY <1>2, <1>9 DEF Weight, Has
  <2> QED BY <1>3, <1>4, <1>9, <2>1 DEF Recounted, Has
<1>11. e.pos[i] = Empty => e.seq[i] = {}
  BY <1>2, <1>9, Zenon DEF Has, Consistent, FreeIsClean
<1>12. e.used = IF e.pos[i] = Empty THEN c.used \ {i} ELSE c.used \cup {i}
  BY <1>2, <1>9 DEF Has, U, is_empty
<1>13. LocalChange(c, e, C, i)
  BY <1>2, <1>9, <1>10, <1>11, <1>12 DEF LocalChange, SameElsewhere, Has
<1>14. Becomes(c, e, C, i, old.pos[i], old.seq[i], 0)
  BY <1>2, <1>9 DEF Becomes, SameElsewhere, Has
<1> QED BY <1>1, <1>13, <1>14, LocalChangeKeeps

\* The positions a sequence is said to have are those of its cells, so that
\* its limits are the limits of its cells.
THEOREM LimitsExact ==
  ASSUME NEW C, IsFiniteSet(C), NEW c, Consistent(c, C), NEW s \in Seqs
  PROVE  PosOf(c, s) = {c.pos[i] : i \in {j \in C : seq_has(c, j, s)}}
<1>1. ASSUME NEW p \in Pos
      PROVE  p \in PosOf(c, s) <=> \E i \in C : seq_has(c, i, s) /\ c.pos[i] = p
  <2>1. IsFiniteSet(Holders(c, C, s, p))
    <3>1. Holders(c, C, s, p) \subseteq C
      BY DEF Holders
    <3> QED BY <3>1, FS_Subset
  <2>2. Cardinality(Holders(c, C, s, p)) \in Nat
        /\ (Cardinality(Holders(c, C, s, p)) = 0 <=> Holders(c, C, s, p) = {})
    BY <2>1, FS_CardinalityType, FS_EmptySet
  <2>3. c.seq_pos[s][p] = Cardinality(Holders(c, C, s, p))
    BY DEF Consistent, CountExact
  <2>4. p \in PosOf(c, s) <=> Holders(c, C, s, p) # {}
    BY <2>2, <2>3 DEF PosOf
  <2> QED BY <2>4 DEF Holders, seq_has
<1>2. \A i \in C : seq_has(c, i, s) => c.pos[i] \in Pos
  BY Fields DEF seq_has, Consistent, FreeIsClean
<1>3. PosOf(c, s) \subseteq Pos
  BY DEF PosOf
<1> QED BY <1>1, <1>2, <1>3

\* seq_add: the key of a cell was rotated to pos - shift, and still is when
\* its position moves; the K-shift rotates it to the new position.
THEOREM PosAddKeepsKey ==
  ASSUME NEW C, IsFiniteSet(C), NEW c, Consistent(c, C), NEW i \in C, c.pos[i] # Empty,
         NEW d \in Int, c.pos[i] + d \in Pos
  PROVE  pos_add(c, i, d).pos[i] - pos_add(c, i, d).shift[i] = c.pos[i] - c.shift[i]
<1>1. c.pos[i] \in Int /\ c.shift[i] \in Int /\ c.pos[i] + d >= 0
  BY Fields
<1>2. pos_add(c, i, d) = Moved(c, i, c.pos[i] + d, c.shift[i] + d)
  BY <1>1 DEF pos_add, Moved
<1>3. /\ pos_add(c, i, d).pos[i] = c.pos[i] + d
      /\ pos_add(c, i, d).shift[i] = c.shift[i] + d
  BY <1>1, <1>2, MovedConsistent DEF Becomes
<1> QED BY <1>1, <1>3

\* seq_div: the difference goes into shift with the other sign, so that the
\* K-shift moves the key away from the new position, by twice what the
\* position fell.
THEOREM PosDivMovesKey ==
  ASSUME NEW C, IsFiniteSet(C), NEW c, Consistent(c, C), NEW i \in C, c.pos[i] # Empty,
         NEW d \in Nat \ {0}, c.pos[i] \div d \in Pos
  PROVE  pos_div(c, i, d).pos[i] - pos_div(c, i, d).shift[i]
           = c.pos[i] - c.shift[i] - 2 * (c.pos[i] - (c.pos[i] \div d))
<1> DEFINE q == c.pos[i] \div d
<1>1. c.pos[i] \in Int /\ c.shift[i] \in Int /\ q \in Int
  BY Fields
<1>2. pos_div(c, i, d) = Moved(c, i, q, c.shift[i] + (c.pos[i] - q))
  BY DEF pos_div, Moved
<1> HIDE DEF q
<1>3. c.shift[i] + (c.pos[i] - q) \in Int
  BY <1>1
<1>4. q \in Pos
  BY DEF q
<1>5. /\ pos_div(c, i, d).pos[i] = q
      /\ pos_div(c, i, d).shift[i] = c.shift[i] + (c.pos[i] - q)
  BY <1>2, <1>3, <1>4, MovedConsistent DEF Becomes
<1>6. pos_div(c, i, d).pos[i] - pos_div(c, i, d).shift[i]
        = c.pos[i] - c.shift[i] - 2 * (c.pos[i] - q)
  BY <1>1, <1>5
<1> QED BY <1>6 DEF q

-----------------------------------------------------------------------------
(* Tables in the cache.                                                    *)

\* The key of a used cell was rotated to a position the cache has.
Rooted(c) == \A i \in Size : c.pos[i] # Empty => c.pos[i] - c.shift[i] \in Pos

Tables == {c \in Table(Size) : Consistent(c, Size) /\ Rooted(c)}
TStream == [cells : Tables, head : 0..layout.cells]

LEMMA LayoutFacts ==
  ASSUME layout \in Layouts
  PROVE  /\ layout.cells \in Nat \ {0} /\ IsFiniteSet(Size) /\ Size \in SUBSET Nat
         /\ IsFiniteSet(Seqs) /\ Seqs \in SUBSET Nat /\ Seqs # {}
         /\ IsFiniteSet(Streams) /\ Streams \in SUBSET Nat
         /\ \A s \in Seqs : stream(s) \in Streams
         /\ MaxPos \in Nat /\ Pos = 0..MaxPos /\ Empty \notin Pos
<1>1. layout.cells \in Nat \ {0} /\ MaxPos \in Nat /\ Pos = 0..MaxPos
  BY LayoutAssumption, BoundAssumption
<1>2. IsFiniteSet(Size) /\ Size \in SUBSET Nat
  <2>1. layout.cells - 1 \in Int
    BY <1>1
  <2> QED BY <2>1, FS_Interval DEF Size
<1>3. IsFiniteSet(Seqs) /\ Seqs \in SUBSET Nat /\ Seqs # {}
  BY SeqAssumption, FS_CardinalityType
<1>4. IsFiniteSet(Streams) /\ Streams \in SUBSET Nat /\ \A s \in Seqs : stream(s) \in Streams
  BY <1>3, FS_Singleton DEF Streams, stream
<1> QED BY <1>1, <1>2, <1>3, <1>4 DEF Empty

LEMMA InTables ==
  ASSUME NEW c \in Tables, NEW i \in Size, NEW e, NEW q, NEW S, NEW h,
         Consistent(e, Size), Becomes(c, e, Size, i, q, S, h), q # Empty => q - h \in Pos
  PROVE  e \in Tables
BY DEF Tables, Rooted, Becomes, SameElsewhere, Consistent

\* The cells of u have left sequence s.
Left(c, e, u, s) ==
  \A i \in Size :
    LET freed == i \in u /\ c.seq[i] = {s}
    IN /\ e.pos[i] = IF freed THEN Empty ELSE c.pos[i]
       /\ e.seq[i] = IF i \in u THEN c.seq[i] \ {s} ELSE c.seq[i]
       /\ e.shift[i] = IF freed THEN 0 ELSE c.shift[i]

LeaveAll(c, hit, s) == FoldSet(LAMBDA i, x : cell_seq_rm(x, i, s), c, hit)

LEMMA LeaveFold ==
  ASSUME layout \in Layouts, NEW c \in Tables, NEW s \in Seqs,
         NEW hit \in SUBSET Size, \A i \in hit : seq_has(c, i, s)
  PROVE  LeaveAll(c, hit, s) \in Tables /\ Left(c, LeaveAll(c, hit, s), hit, s)
<1> DEFINE pick(u) == CHOOSE y \in u : TRUE
           does(i, x) == cell_seq_rm(x, i, s)
           ch == [u \in SUBSET hit |-> pick(u)]
           P == [u \in SUBSET hit |-> {e \in Tables : Left(c, e, u, s)}]
           step == [z \in hit \X Tables |-> does(z[1], z[2])]
           value(u, f) == IF u = {} THEN c ELSE does(pick(u), f[u \ {pick(u)}])
           Solves(f) == f = [u \in SUBSET hit |-> value(u, f)]
           iter == CHOOSE f : Solves(f)
<1>1. LeaveAll(c, hit, s) = iter[hit]
  BY DEF LeaveAll, FoldSet, MapThenFoldSet
<1>2. IsFiniteSet(hit) /\ \A u \in SUBSET hit : u # {} => pick(u) \in u
  BY LayoutFacts, FS_Subset
<1>3. c \in P[{}]
  BY DEF Left
<1>4. ASSUME NEW u \in SUBSET hit, u # {}, NEW x \in P[u \ {pick(u)}]
      PROVE  does(pick(u), x) \in P[u] /\ pick(u) \in hit /\ x \in Tables
  <2> DEFINE i == pick(u)
             e == cell_seq_rm(x, i, s)
  <2>1. i \in u /\ i \in hit /\ i \in Size /\ u \ {i} \in SUBSET hit
    BY <1>2, <1>4
  <2>2. x \in Tables /\ Left(c, x, u \ {i}, s)
    BY <2>1
  <2> HIDE DEF i, P, ch
  <2>3. x.seq[i] = c.seq[i] /\ x.pos[i] = c.pos[i] /\ x.shift[i] = c.shift[i] /\ seq_has(x, i, s)
    BY <2>1, <2>2, Zenon DEF Left, seq_has
  <2>4. /\ Consistent(e, Size)
        /\ Becomes(x, e, Size, i, IF x.seq[i] = {s} THEN Empty ELSE x.pos[i],
                   x.seq[i] \ {s}, IF x.seq[i] = {s} THEN 0 ELSE x.shift[i])
    BY <2>1, <2>2, <2>3, LayoutFacts, SeqRmConsistent, Zenon DEF Tables
  <2>5. e \in Tables
    <3>1. x.pos[i] # Empty => x.pos[i] - x.shift[i] \in Pos
      BY <2>1, <2>2 DEF Tables, Rooted
    <3> QED BY <2>1, <2>2, <2>4, <3>1, InTables
  <2>6. Left(c, e, u, s)
    BY <2>1, <2>2, <2>3, <2>4, Zenon DEF Left, Becomes, SameElsewhere
  <2> QED BY <2>1, <2>2, <2>5, <2>6 DEF P, i
<1> HIDE DEF pick, does, P
<1>5. \E f : Solves(f)
  <2>1. FoldsIn(hit, ch, P, c, step)
    BY <1>2, <1>3, <1>4, Zenon DEF FoldsIn
  <2>2. PICK f : TakesFold(hit, ch, P, c, step, f)
    BY <2>1, FoldExists, Zenon
  <2>3. ASSUME NEW u \in SUBSET hit PROVE f[u] = value(u, f)
    BY <1>4, <2>2, Zenon DEF TakesFold
  <2>4. f = [u \in SUBSET hit |-> f[u]]
    BY <2>2 DEF TakesFold
  <2> HIDE DEF value
  <2> QED BY <2>3, <2>4, Zenon
<1>6. iter[hit] \in P[hit]
  <2>1. Solves(iter)
    <3> HIDE DEF Solves
    <3> QED BY <1>5
  <2> HIDE DEF iter
  <2>2. \A u \in SUBSET hit : iter[u] = value(u, iter)
    <3> HIDE DEF value
    <3> QED BY <2>1
  <2>3. KeepsFold(hit, ch, P, iter)
    BY <1>2, <1>3, <1>4, <2>2, Zenon DEF KeepsFold
  <2> QED BY <2>3, FoldKeeps
<1> QED BY <1>1, <1>6 DEF P

LEMMA LowerHeadType ==
  ASSUME layout \in Layouts, NEW t \in TStream, NEW freed \in SUBSET Size
  PROVE  LowerHead(t, freed) \in 0..layout.cells
<1>1. CASE freed = {}
  BY <1>1 DEF LowerHead, TStream
<1>2. CASE freed # {}
  <2>1. \E k \in freed : \A j \in freed : k <= j
    BY <1>2, LayoutFacts, Least, Zenon
  <2>2. Min(freed) \in freed
    BY <2>1 DEF Min
  <2>3. Min(freed) \in 0..layout.cells
    <3>1. Min(freed) \in Size /\ layout.cells \in Nat
      BY <2>2, LayoutFacts
    <3> QED BY <3>1 DEF Size
  <2> QED BY <2>3 DEF LowerHead, TStream
<1> QED BY <1>1, <1>2

\* seq_rm on a stream.
LEMMA SeqRmKeeps ==
  ASSUME layout \in Layouts, NEW t \in TStream, NEW s \in Seqs, NEW p0, NEW p1
  PROVE  /\ SeqRm(t, s, p0, p1) \in TStream
         /\ Left(t.cells, SeqRm(t, s, p0, p1).cells, In(t.cells, s, p0, p1), s)
<1> DEFINE hit == In(t.cells, s, p0, p1)
           freed == {i \in hit : t.cells.seq[i] = {s}}
<1>1. t.cells \in Tables /\ hit \in SUBSET Size /\ freed \in SUBSET Size /\ \A i \in hit : seq_has(t.cells, i, s)
  BY DEF TStream, In
<1>2. SeqRm(t, s, p0, p1) = [cells |-> LeaveAll(t.cells, hit, s), head |-> LowerHead(t, freed)]
  BY DEF SeqRm, LeaveAll, FoldSet, MapThenFoldSet
<1> HIDE DEF hit, freed
<1>3. LeaveAll(t.cells, hit, s) \in Tables /\ Left(t.cells, LeaveAll(t.cells, hit, s), hit, s)
  BY <1>1, LeaveFold
<1>4. LowerHead(t, freed) \in 0..layout.cells
  BY <1>1, LowerHeadType
<1> QED BY <1>2, <1>3, <1>4 DEF TStream, hit

\* The cells of u have left every sequence but s.
KeptIn(c, e, u, s) ==
  \A i \in Size :
    LET stays == i \notin u \/ s \in c.seq[i] \/ c.seq[i] = {}
    IN /\ e.pos[i] = IF stays THEN c.pos[i] ELSE Empty
       /\ e.seq[i] = IF i \in u THEN c.seq[i] \cap {s} ELSE c.seq[i]
       /\ e.shift[i] = IF stays THEN c.shift[i] ELSE 0

KeepAll(c, s) == FoldSet(LAMBDA i, x : cell_seq_keep(x, i, s), c, Size)

LEMMA KeepAllKeeps ==
  ASSUME layout \in Layouts, NEW c \in Tables, NEW s \in Seqs
  PROVE  KeepAll(c, s) \in Tables /\ KeptIn(c, KeepAll(c, s), Size, s)
<1> DEFINE pick(u) == CHOOSE y \in u : TRUE
           S == Size
           base == c
           does(i, x) == cell_seq_keep(x, i, s)
           ch == [u \in SUBSET S |-> pick(u)]
           P == [u \in SUBSET S |-> {e \in Tables : KeptIn(c, e, u, s)}]
           step == [z \in S \X Tables |-> does(z[1], z[2])]
           value(u, f) == IF u = {} THEN base ELSE does(pick(u), f[u \ {pick(u)}])
           Solves(f) == f = [u \in SUBSET S |-> value(u, f)]
           iter == CHOOSE f : Solves(f)
<1>1. KeepAll(c, s) = iter[S]
  BY DEF KeepAll, FoldSet, MapThenFoldSet
<1>2. IsFiniteSet(S) /\ \A u \in SUBSET S : u # {} => pick(u) \in u
  BY LayoutFacts, FS_Subset
<1>3. base \in P[{}]
  BY DEF KeptIn
<1>4. ASSUME NEW u \in SUBSET S, u # {}, NEW x \in P[u \ {pick(u)}]
      PROVE  does(pick(u), x) \in P[u] /\ pick(u) \in S /\ x \in Tables
  <2> DEFINE i == pick(u)
             e == does(i, x)
  <2>1. i \in u /\ i \in S /\ u \in SUBSET S /\ u \ {i} \in SUBSET S
    BY <1>2, <1>4
  <2>2. x \in Tables /\ KeptIn(c, x, u \ {i}, s)
    BY <2>1
  <2> HIDE DEF i, P, ch, pick, S, base
  <2>3. x.seq[i] = c.seq[i] /\ x.pos[i] = c.pos[i] /\ x.shift[i] = c.shift[i]
    BY <2>1, <2>2, Zenon DEF KeptIn, S
  <2>4. Consistent(e, Size) /\ LET stays == s \in x.seq[i] \/ x.seq[i] = {}
        IN Becomes(x, e, Size, i, IF stays THEN x.pos[i] ELSE Empty,
                   x.seq[i] \cap {s}, IF stays THEN x.shift[i] ELSE 0)
    BY <2>1, <2>2, <2>3, LayoutFacts, SeqKeepConsistent, Zenon DEF Tables, S
  <2>5. e \in Tables
    <3>1. x.pos[i] # Empty => x.pos[i] - x.shift[i] \in Pos
      BY <2>1, <2>2 DEF Tables, Rooted, S
    <3> QED BY <2>1, <2>2, <2>4, <3>1, InTables DEF S
  <2>6. KeptIn(c, e, u, s)
    BY <2>1, <2>2, <2>3, <2>4, Zenon DEF KeptIn, S, Becomes, SameElsewhere, S
  <2> QED BY <2>1, <2>2, <2>5, <2>6 DEF P, i
<1> HIDE DEF pick, does, P, S, base
<1>5. \E f : Solves(f)
  <2>1. FoldsIn(S, ch, P, base, step)
    BY <1>2, <1>3, <1>4, Zenon DEF FoldsIn
  <2>2. PICK f : TakesFold(S, ch, P, base, step, f)
    BY <2>1, FoldExists
  <2>3. ASSUME NEW u \in SUBSET S PROVE f[u] = value(u, f)
    BY <1>4, <2>2, Zenon DEF TakesFold
  <2>4. f = [u \in SUBSET S |-> f[u]]
    BY <2>2 DEF TakesFold
  <2> HIDE DEF value
  <2> QED BY <2>3, <2>4, Zenon
<1>6. iter[S] \in P[S]
  <2>1. Solves(iter)
    <3> HIDE DEF Solves
    <3> QED BY <1>5
  <2> HIDE DEF iter
  <2>2. \A u \in SUBSET S : iter[u] = value(u, iter)
    <3> HIDE DEF value
    <3> QED BY <2>1
  <2>3. KeepsFold(S, ch, P, iter)
    BY <1>2, <1>3, <1>4, <2>2, Zenon DEF KeepsFold
  <2> QED BY <2>3, FoldKeeps
<1> QED BY <1>1, <1>6 DEF P, S

\* The cells of u have moved by d.
ShiftedIn(c, e, u, d) ==
  \A i \in Size :
    LET freed == i \in u /\ c.pos[i] + d < 0
    IN /\ e.pos[i] = IF freed THEN Empty ELSE IF i \in u THEN c.pos[i] + d ELSE c.pos[i]
       /\ e.seq[i] = IF freed THEN {} ELSE c.seq[i]
       /\ e.shift[i] = IF freed THEN 0 ELSE IF i \in u THEN c.shift[i] + d ELSE c.shift[i]

MoveAll(c, hit, d) == FoldSet(LAMBDA i, x : pos_add(x, i, d), c, hit)

LEMMA MoveAllKeeps ==
  ASSUME layout \in Layouts, NEW c \in Tables, NEW d \in Int, d <= 0,
         NEW hit \in SUBSET Size, \A i \in hit : c.pos[i] # Empty
  PROVE  MoveAll(c, hit, d) \in Tables /\ ShiftedIn(c, MoveAll(c, hit, d), hit, d)
<1> DEFINE pick(u) == CHOOSE y \in u : TRUE
           S == hit
           base == c
           does(i, x) == pos_add(x, i, d)
           ch == [u \in SUBSET S |-> pick(u)]
           P == [u \in SUBSET S |-> {e \in Tables : ShiftedIn(c, e, u, d)}]
           step == [z \in S \X Tables |-> does(z[1], z[2])]
           value(u, f) == IF u = {} THEN base ELSE does(pick(u), f[u \ {pick(u)}])
           Solves(f) == f = [u \in SUBSET S |-> value(u, f)]
           iter == CHOOSE f : Solves(f)
<1>1. MoveAll(c, hit, d) = iter[S]
  BY DEF MoveAll, FoldSet, MapThenFoldSet
<1>2. IsFiniteSet(S) /\ \A u \in SUBSET S : u # {} => pick(u) \in u
  BY LayoutFacts, FS_Subset
<1>3. base \in P[{}]
  BY DEF ShiftedIn
<1>4. ASSUME NEW u \in SUBSET S, u # {}, NEW x \in P[u \ {pick(u)}]
      PROVE  does(pick(u), x) \in P[u] /\ pick(u) \in S /\ x \in Tables
  <2> DEFINE i == pick(u)
             e == does(i, x)
  <2>1. i \in u /\ i \in S /\ u \in SUBSET S /\ u \ {i} \in SUBSET S
    BY <1>2, <1>4
  <2>2. x \in Tables /\ ShiftedIn(c, x, u \ {i}, d)
    BY <2>1
  <2> HIDE DEF i, P, ch, pick, S, base
  <2>3. x.seq[i] = c.seq[i] /\ x.pos[i] = c.pos[i] /\ x.shift[i] = c.shift[i] /\ x.pos[i] # Empty
    BY <2>1, <2>2 DEF ShiftedIn, S
  <2>7. x.pos[i] + d < 0 \/ x.pos[i] + d \in Pos
    <3>1. x.pos[i] \in Pos
      BY <2>1, <2>2, <2>3, Fields DEF Tables, S
    <3> QED BY <3>1, LayoutFacts
  <2>4. Consistent(e, Size) /\ LET freed == x.pos[i] + d < 0
        IN Becomes(x, e, Size, i, IF freed THEN Empty ELSE x.pos[i] + d,
                   IF freed THEN {} ELSE x.seq[i], IF freed THEN 0 ELSE x.shift[i] + d)
    BY <2>1, <2>2, <2>3, <2>7, LayoutFacts, PosAddConsistent DEF Tables, S
  <2>5. e \in Tables
    <3>1. x.pos[i] # Empty => x.pos[i] - x.shift[i] \in Pos
      BY <2>1, <2>2 DEF Tables, Rooted, S
    <3>2. x.pos[i] \in Int /\ x.shift[i] \in Int
      BY <2>1, <2>2, <2>3, Fields, LayoutFacts DEF Tables, S
    <3>3. (x.pos[i] + d) - (x.shift[i] + d) = x.pos[i] - x.shift[i]
      BY <3>2
    <3> QED BY <2>1, <2>2, <2>3, <2>4, <3>1, <3>3, InTables DEF S
  <2>6. ShiftedIn(c, e, u, d)
    BY <2>1, <2>2, <2>3, <2>4 DEF ShiftedIn, S, Becomes, SameElsewhere, S
  <2> QED BY <2>1, <2>2, <2>5, <2>6 DEF P, i
<1> HIDE DEF pick, does, P, S, base
<1>5. \E f : Solves(f)
  <2>1. FoldsIn(S, ch, P, base, step)
    BY <1>2, <1>3, <1>4, Zenon DEF FoldsIn
  <2>2. PICK f : TakesFold(S, ch, P, base, step, f)
    BY <2>1, FoldExists
  <2>3. ASSUME NEW u \in SUBSET S PROVE f[u] = value(u, f)
    BY <1>4, <2>2, Zenon DEF TakesFold
  <2>4. f = [u \in SUBSET S |-> f[u]]
    BY <2>2 DEF TakesFold
  <2> HIDE DEF value
  <2> QED BY <2>3, <2>4, Zenon
<1>6. iter[S] \in P[S]
  <2>1. Solves(iter)
    <3> HIDE DEF Solves
    <3> QED BY <1>5
  <2> HIDE DEF iter
  <2>2. \A u \in SUBSET S : iter[u] = value(u, iter)
    <3> HIDE DEF value
    <3> QED BY <2>1
  <2>3. KeepsFold(S, ch, P, iter)
    BY <1>2, <1>3, <1>4, <2>2, Zenon DEF KeepsFold
  <2> QED BY <2>3, FoldKeeps
<1> QED BY <1>1, <1>6 DEF P, S

\* The cells of u have joined sequence s.
JoinedIn(c, e, u, s) ==
  \A i \in Size : /\ e.pos[i] = c.pos[i] /\ e.shift[i] = c.shift[i]
                  /\ e.seq[i] = IF i \in u THEN c.seq[i] \cup {s} ELSE c.seq[i]

JoinAll(c, hit, s) == FoldSet(LAMBDA i, x : cell_seq_add(x, i, s), c, hit)

LEMMA JoinAllKeeps ==
  ASSUME layout \in Layouts, NEW c \in Tables, NEW s \in Seqs,
         NEW hit \in SUBSET Size, \A i \in hit : c.pos[i] # Empty /\ s \notin c.seq[i]
  PROVE  JoinAll(c, hit, s) \in Tables /\ JoinedIn(c, JoinAll(c, hit, s), hit, s)
<1> DEFINE pick(u) == CHOOSE y \in u : TRUE
           S == hit
           base == c
           does(i, x) == cell_seq_add(x, i, s)
           ch == [u \in SUBSET S |-> pick(u)]
           P == [u \in SUBSET S |-> {e \in Tables : JoinedIn(c, e, u, s)}]
           step == [z \in S \X Tables |-> does(z[1], z[2])]
           value(u, f) == IF u = {} THEN base ELSE does(pick(u), f[u \ {pick(u)}])
           Solves(f) == f = [u \in SUBSET S |-> value(u, f)]
           iter == CHOOSE f : Solves(f)
<1>1. JoinAll(c, hit, s) = iter[S]
  BY DEF JoinAll, FoldSet, MapThenFoldSet
<1>2. IsFiniteSet(S) /\ \A u \in SUBSET S : u # {} => pick(u) \in u
  BY LayoutFacts, FS_Subset
<1>3. base \in P[{}]
  BY DEF JoinedIn
<1>4. ASSUME NEW u \in SUBSET S, u # {}, NEW x \in P[u \ {pick(u)}]
      PROVE  does(pick(u), x) \in P[u] /\ pick(u) \in S /\ x \in Tables
  <2> DEFINE i == pick(u)
             e == does(i, x)
  <2>1. i \in u /\ i \in S /\ u \in SUBSET S /\ u \ {i} \in SUBSET S
    BY <1>2, <1>4
  <2>2. x \in Tables /\ JoinedIn(c, x, u \ {i}, s)
    BY <2>1
  <2> HIDE DEF i, P, ch, pick, S, base
  <2>3. x.seq[i] = c.seq[i] /\ x.pos[i] = c.pos[i] /\ x.shift[i] = c.shift[i] /\ x.pos[i] # Empty /\ ~seq_has(x, i, s)
    BY <2>1, <2>2, Zenon DEF JoinedIn, seq_has, S
  <2>4. Consistent(e, Size) /\ Becomes(x, e, Size, i, x.pos[i], x.seq[i] \cup {s}, x.shift[i])
    BY <2>1, <2>2, <2>3, LayoutFacts, SeqAddConsistent, Zenon DEF Tables, S
  <2>5. e \in Tables
    <3>1. x.pos[i] # Empty => x.pos[i] - x.shift[i] \in Pos
      BY <2>1, <2>2 DEF Tables, Rooted, S
    <3> QED BY <2>1, <2>2, <2>4, <3>1, InTables DEF S
  <2>6. JoinedIn(c, e, u, s)
    BY <2>1, <2>2, <2>3, <2>4, Zenon DEF JoinedIn, seq_has, S, Becomes, SameElsewhere, S
  <2> QED BY <2>1, <2>2, <2>5, <2>6 DEF P, i
<1> HIDE DEF pick, does, P, S, base
<1>5. \E f : Solves(f)
  <2>1. FoldsIn(S, ch, P, base, step)
    BY <1>2, <1>3, <1>4, Zenon DEF FoldsIn
  <2>2. PICK f : TakesFold(S, ch, P, base, step, f)
    BY <2>1, FoldExists, Zenon
  <2>3. ASSUME NEW u \in SUBSET S PROVE f[u] = value(u, f)
    BY <1>4, <2>2, Zenon DEF TakesFold
  <2>4. f = [u \in SUBSET S |-> f[u]]
    BY <2>2 DEF TakesFold
  <2> HIDE DEF value
  <2> QED BY <2>3, <2>4, Zenon
<1>6. iter[S] \in P[S]
  <2>1. Solves(iter)
    <3> HIDE DEF Solves
    <3> QED BY <1>5
  <2> HIDE DEF iter
  <2>2. \A u \in SUBSET S : iter[u] = value(u, iter)
    <3> HIDE DEF value
    <3> QED BY <2>1
  <2>3. KeepsFold(S, ch, P, iter)
    BY <1>2, <1>3, <1>4, <2>2, Zenon DEF KeepsFold
  <2> QED BY <2>3, FoldKeeps
<1> QED BY <1>1, <1>6 DEF P, S

\* The cells of u have been entered, for sequence s, in an empty table.
EnteredIn(from, e, u, s) ==
  \A i \in Size : /\ e.pos[i] = IF i \in u THEN from.pos[i] ELSE Empty
                  /\ e.seq[i] = IF i \in u THEN {s} ELSE {}
                  /\ e.shift[i] = IF i \in u THEN from.shift[i] ELSE 0
EnterOne(from, s, i, x) ==
  LET sh == from.shift[i]
      at == cell_seq_add(pos_set(x, i, from.pos[i] - sh), i, s)
  IN IF sh # 0 THEN pos_add(at, i, sh) ELSE at

EnterAll(from, hit, s) == FoldSet(LAMBDA i, x : EnterOne(from, s, i, x), cells_reset(Size), hit)

LEMMA EnterAllKeeps ==
  ASSUME layout \in Layouts, NEW from \in Tables, NEW s \in Seqs,
         NEW hit \in SUBSET Size, \A i \in hit : from.seq[i] # {}
  PROVE  EnterAll(from, hit, s) \in Tables /\ EnteredIn(from, EnterAll(from, hit, s), hit, s)
<1> DEFINE pick(u) == CHOOSE y \in u : TRUE
           S == hit
           base == cells_reset(Size)
           does(i, x) == EnterOne(from, s, i, x)
           ch == [u \in SUBSET S |-> pick(u)]
           P == [u \in SUBSET S |-> {e \in Tables : EnteredIn(from, e, u, s)}]
           step == [z \in S \X Tables |-> does(z[1], z[2])]
           value(u, f) == IF u = {} THEN base ELSE does(pick(u), f[u \ {pick(u)}])
           Solves(f) == f = [u \in SUBSET S |-> value(u, f)]
           iter == CHOOSE f : Solves(f)
<1>1. EnterAll(from, hit, s) = iter[S]
  BY DEF EnterAll, FoldSet, MapThenFoldSet
<1>2. IsFiniteSet(S) /\ \A u \in SUBSET S : u # {} => pick(u) \in u
  BY LayoutFacts, FS_Subset
<1>3. base \in P[{}]
  BY LayoutFacts, ResetConsistent DEF EnteredIn, Tables, Rooted, Consistent
<1>4. ASSUME NEW u \in SUBSET S, u # {}, NEW x \in P[u \ {pick(u)}]
      PROVE  does(pick(u), x) \in P[u] /\ pick(u) \in S /\ x \in Tables
  <2> DEFINE i == pick(u)
             e == does(i, x)
  <2>1. i \in u /\ i \in S /\ u \in SUBSET S /\ u \ {i} \in SUBSET S
    BY <1>2, <1>4
  <2>2. x \in Tables /\ EnteredIn(from, x, u \ {i}, s)
    BY <2>1
  <2> HIDE DEF i, P, ch, pick, S, base
  <2> DEFINE sh == from.shift[i]
             q == from.pos[i] - sh
             x1 == pos_set(x, i, q)
             x2 == cell_seq_add(x1, i, s)
             x3 == pos_add(x2, i, sh)
  <2>3. i \in Size /\ from.pos[i] \in Pos /\ sh \in Int /\ q \in Pos /\ q + sh = from.pos[i]
    <3>1. i \in Size /\ from.pos[i] # Empty
      BY <2>1 DEF S, Tables, Consistent, FreeIsClean, seq_has
    <3>2. from.pos[i] \in Pos /\ from.shift[i] \in Int /\ from.pos[i] - from.shift[i] \in Pos
      BY <3>1, Fields DEF Tables, Rooted
    <3> QED BY <3>1, <3>2, LayoutFacts
  <2> HIDE DEF sh, q
  <2>4. is_empty(x, i) /\ x.seq[i] = {} /\ x.shift[i] = 0
    BY <2>1, <2>2, <2>3 DEF EnteredIn, is_empty
  <2>5. Consistent(x1, Size) /\ Becomes(x, x1, Size, i, q, {}, 0)
    BY <2>2, <2>3, <2>4, LayoutFacts, PosSetConsistent DEF Tables
  <2> HIDE DEF x1
  <2>6. x1.pos[i] = q /\ x1.seq[i] = {} /\ x1.shift[i] = 0 /\ q # Empty
    BY <2>3, <2>5, LayoutFacts DEF Becomes
  <2>7. Consistent(x2, Size) /\ Becomes(x1, x2, Size, i, q, {s}, 0)
    <3>1. ~seq_has(x1, i, s) /\ x1.seq[i] \cup {s} = {s}
      BY <2>6 DEF seq_has
    <3>2. Consistent(x2, Size) /\ Becomes(x1, x2, Size, i, x1.pos[i], x1.seq[i] \cup {s}, x1.shift[i])
      BY <2>3, <2>5, <2>6, <3>1, LayoutFacts, SeqAddConsistent, Zenon
    <3> HIDE DEF x2
    <3> QED BY <2>6, <3>1, <3>2
  <2> HIDE DEF x2
  <2>8. x2.pos[i] = q /\ x2.seq[i] = {s} /\ x2.shift[i] = 0
    BY <2>7 DEF Becomes
  <2>9. Consistent(x3, Size) /\ Becomes(x2, x3, Size, i, from.pos[i], {s}, sh)
    <3>1. x2.pos[i] + sh \in Pos /\ ~(x2.pos[i] + sh < 0) /\ x2.pos[i] + sh = from.pos[i] /\ x2.shift[i] + sh = sh
      <4>1. Pos \in SUBSET Nat
        BY LayoutFacts
      <4> QED BY <2>3, <2>8, <4>1
    <3>2. x2.pos[i] # Empty /\ (x2.pos[i] + sh < 0 \/ x2.pos[i] + sh \in Pos)
      BY <2>6, <2>8, <3>1
    <3>3. /\ Consistent(x3, Size)
          /\ LET freed == x2.pos[i] + sh < 0
             IN Becomes(x2, x3, Size, i, IF freed THEN Empty ELSE x2.pos[i] + sh,
                        IF freed THEN {} ELSE x2.seq[i], IF freed THEN 0 ELSE x2.shift[i] + sh)
      BY <2>3, <2>7, <3>2, LayoutFacts, PosAddConsistent, Zenon
    <3> HIDE DEF x3
    <3> QED BY <2>8, <3>1, <3>3
  <2>10. e = IF sh # 0 THEN x3 ELSE x2
    BY DEF EnterOne, x1, x2, sh, q
  <2>11. Consistent(e, Size) /\ Becomes(x, e, Size, i, from.pos[i], {s}, sh)
    <3> HIDE DEF x3, e
    <3>1. CASE sh # 0
      BY <2>5, <2>7, <2>9, <2>10, <3>1 DEF Becomes, SameElsewhere
    <3>2. CASE sh = 0
      <4>1. q = from.pos[i]
        BY <2>3, <3>2, LayoutFacts
      <4> QED BY <2>5, <2>7, <2>10, <3>2, <4>1 DEF Becomes, SameElsewhere
    <3> QED BY <3>1, <3>2
  <2>12. e \in Tables
    <3>1. from.pos[i] - sh \in Pos
      BY <2>3 DEF q
    <3> HIDE DEF e
    <3> QED BY <2>2, <2>3, <2>11, <3>1, InTables
  <2>13. EnteredIn(from, e, u, s)
    <3> HIDE DEF e
    <3>1. sh = from.shift[i]
      BY DEF sh
    <3>2. \A j \in Size \ {i} : j \in u <=> j \in u \ {i}
      OBVIOUS
    <3>3. \A j \in Size \ {i} : e.pos[j] = x.pos[j] /\ e.seq[j] = x.seq[j] /\ e.shift[j] = x.shift[j]
      BY <2>11 DEF Becomes, SameElsewhere
    <3>4. e.pos[i] = from.pos[i] /\ e.seq[i] = {s} /\ e.shift[i] = from.shift[i]
      BY <2>11, <3>1 DEF Becomes
    <3> QED BY <2>1, <2>2, <3>2, <3>3, <3>4, Zenon DEF EnteredIn
  <2> QED BY <2>1, <2>2, <2>12, <2>13 DEF P, i
<1> HIDE DEF pick, does, P, S, base
<1>5. \E f : Solves(f)
  <2>1. FoldsIn(S, ch, P, base, step)
    BY <1>2, <1>3, <1>4, Zenon DEF FoldsIn
  <2>2. PICK f : TakesFold(S, ch, P, base, step, f)
    BY <2>1, FoldExists, Zenon
  <2>3. ASSUME NEW u \in SUBSET S PROVE f[u] = value(u, f)
    BY <1>4, <2>2, Zenon DEF TakesFold
  <2>4. f = [u \in SUBSET S |-> f[u]]
    BY <2>2 DEF TakesFold
  <2> HIDE DEF value
  <2> QED BY <2>3, <2>4, Zenon
<1>6. iter[S] \in P[S]
  <2>1. Solves(iter)
    <3> HIDE DEF Solves
    <3> QED BY <1>5
  <2> HIDE DEF iter
  <2>2. \A u \in SUBSET S : iter[u] = value(u, iter)
    <3> HIDE DEF value
    <3> QED BY <2>1
  <2>3. KeepsFold(S, ch, P, iter)
    BY <1>2, <1>3, <1>4, <2>2, Zenon DEF KeepsFold
  <2> QED BY <2>3, FoldKeeps
<1> QED BY <1>1, <1>6 DEF P, S

\* The cells of u have taken back what they held in old.
BackIn(c, old, e, u) ==
  \A i \in Size : /\ e.pos[i] = IF i \in u THEN old.pos[i] ELSE c.pos[i]
                  /\ e.seq[i] = IF i \in u THEN old.seq[i] ELSE c.seq[i]
                  /\ e.shift[i] = 0

SetAll(c, hit, old) == FoldSet(LAMBDA i, x : cell_set(x, i, old), c, hit)

LEMMA SetAllKeeps ==
  ASSUME layout \in Layouts, NEW c \in Tables, NEW old \in Tables, NEW hit \in SUBSET Size,
         \A i \in Size : c.shift[i] = 0 /\ old.shift[i] = 0
  PROVE  SetAll(c, hit, old) \in Tables /\ BackIn(c, old, SetAll(c, hit, old), hit)
<1> DEFINE pick(u) == CHOOSE y \in u : TRUE
           S == hit
           base == c
           does(i, x) == cell_set(x, i, old)
           ch == [u \in SUBSET S |-> pick(u)]
           P == [u \in SUBSET S |-> {e \in Tables : BackIn(c, old, e, u)}]
           step == [z \in S \X Tables |-> does(z[1], z[2])]
           value(u, f) == IF u = {} THEN base ELSE does(pick(u), f[u \ {pick(u)}])
           Solves(f) == f = [u \in SUBSET S |-> value(u, f)]
           iter == CHOOSE f : Solves(f)
<1>1. SetAll(c, hit, old) = iter[S]
  BY DEF SetAll, FoldSet, MapThenFoldSet
<1>2. IsFiniteSet(S) /\ \A u \in SUBSET S : u # {} => pick(u) \in u
  BY LayoutFacts, FS_Subset
<1>3. base \in P[{}]
  BY DEF BackIn
<1>4. ASSUME NEW u \in SUBSET S, u # {}, NEW x \in P[u \ {pick(u)}]
      PROVE  does(pick(u), x) \in P[u] /\ pick(u) \in S /\ x \in Tables
  <2> DEFINE i == pick(u)
             e == does(i, x)
  <2>1. i \in u /\ i \in S /\ u \in SUBSET S /\ u \ {i} \in SUBSET S
    BY <1>2, <1>4
  <2>2. x \in Tables /\ BackIn(c, old, x, u \ {i})
    BY <2>1
  <2> HIDE DEF i, P, ch, pick, S, base
  <2>3. i \in Size /\ x.shift[i] = 0 /\ (old.pos[i] # Empty => old.pos[i] - 0 \in Pos)
    <3>1. i \in Size
      BY <2>1 DEF S
    <3>2. old.pos[i] # Empty => old.pos[i] - old.shift[i] \in Pos
      BY <3>1 DEF Tables, Rooted
    <3> QED BY <2>2, <3>1, <3>2 DEF BackIn
  <2>4. Consistent(e, Size) /\ Becomes(x, e, Size, i, old.pos[i], old.seq[i], 0)
    BY <2>2, <2>3, LayoutFacts, SetConsistent DEF Tables
  <2>5. e \in Tables
    <3> HIDE DEF e
    <3> QED BY <2>2, <2>3, <2>4, InTables
  <2>6. BackIn(c, old, e, u)
    <3> HIDE DEF e
    <3> QED BY <2>1, <2>2, <2>4 DEF BackIn, Becomes, SameElsewhere
  <2> QED BY <2>1, <2>2, <2>5, <2>6 DEF P, i
<1> HIDE DEF pick, does, P, S, base
<1>5. \E f : Solves(f)
  <2>1. FoldsIn(S, ch, P, base, step)
    BY <1>2, <1>3, <1>4, Zenon DEF FoldsIn
  <2>2. PICK f : TakesFold(S, ch, P, base, step, f)
    BY <2>1, FoldExists
  <2>3. ASSUME NEW u \in SUBSET S PROVE f[u] = value(u, f)
    BY <1>4, <2>2, Zenon DEF TakesFold
  <2>4. f = [u \in SUBSET S |-> f[u]]
    BY <2>2 DEF TakesFold
  <2> HIDE DEF value
  <2> QED BY <2>3, <2>4, Zenon
<1>6. iter[S] \in P[S]
  <2>1. Solves(iter)
    <3> HIDE DEF Solves
    <3> QED BY <1>5
  <2> HIDE DEF iter
  <2>2. \A u \in SUBSET S : iter[u] = value(u, iter)
    <3> HIDE DEF value
    <3> QED BY <2>1
  <2>3. KeepsFold(S, ch, P, iter)
    BY <1>2, <1>3, <1>4, <2>2, Zenon DEF KeepsFold
  <2> QED BY <2>3, FoldKeeps
<1> QED BY <1>1, <1>6 DEF P, S

-----------------------------------------------------------------------------
(* What the operations on a stream make of it.                             *)

LEMMA SeqKeepKeeps ==
  ASSUME layout \in Layouts, NEW t \in TStream, NEW s \in Seqs
  PROVE  /\ SeqKeep(t, s) \in TStream
         /\ KeptIn(t.cells, SeqKeep(t, s).cells, Size, s)
<1> DEFINE freed == {i \in Size : t.cells.seq[i] # {} /\ s \notin t.cells.seq[i]}
<1>1. t.cells \in Tables /\ freed \in SUBSET Size
  BY DEF TStream
<1>2. SeqKeep(t, s) = [cells |-> KeepAll(t.cells, s), head |-> LowerHead(t, freed)]
  BY DEF SeqKeep, KeepAll, FoldSet, MapThenFoldSet
<1> HIDE DEF freed
<1>3. KeepAll(t.cells, s) \in Tables /\ KeptIn(t.cells, KeepAll(t.cells, s), Size, s)
  BY <1>1, KeepAllKeeps
<1>4. LowerHead(t, freed) \in 0..layout.cells
  BY <1>1, LowerHeadType
<1> QED BY <1>2, <1>3, <1>4 DEF TStream

LEMMA SeqAddKeeps ==
  ASSUME layout \in Layouts, NEW t \in TStream, NEW s \in Seqs, NEW p0, NEW p1, NEW d \in Int, d < 0, p0 # p1
  PROVE  /\ SeqAdd(t, s, p0, p1, d) \in TStream
         /\ ShiftedIn(t.cells, SeqAdd(t, s, p0, p1, d).cells, In(t.cells, s, p0, p1), d)
<1> DEFINE hit == In(t.cells, s, p0, p1)
           freed == {i \in hit : t.cells.pos[i] + d < 0}
<1>1. t.cells \in Tables /\ hit \in SUBSET Size /\ freed \in SUBSET Size
  BY DEF TStream, In
<1>2. \A i \in hit : t.cells.pos[i] # Empty
  BY <1>1 DEF Tables, Consistent, FreeIsClean, In, seq_has
<1>3. SeqAdd(t, s, p0, p1, d) = [cells |-> MoveAll(t.cells, hit, d), head |-> IF freed # {} THEN Min(freed) ELSE 0]
  BY DEF SeqAdd, MoveAll, FoldSet, MapThenFoldSet
<1> HIDE DEF hit
<1>4. MoveAll(t.cells, hit, d) \in Tables /\ ShiftedIn(t.cells, MoveAll(t.cells, hit, d), hit, d)
  BY <1>1, <1>2, MoveAllKeeps
<1> HIDE DEF freed
<1>5. (IF freed # {} THEN Min(freed) ELSE 0) \in 0..layout.cells
  <2>1. CASE freed # {}
    <3>1. \E k \in freed : \A j \in freed : k <= j
      BY <1>1, <2>1, LayoutFacts, Least, Zenon
    <3>2. Min(freed) \in Size
      BY <1>1, <3>1 DEF Min
    <3>3. layout.cells \in Nat
      BY LayoutFacts
    <3> QED BY <2>1, <3>2, <3>3 DEF Size
  <2>2. CASE freed = {}
    BY <2>2, LayoutFacts
  <2> QED BY <2>1, <2>2
<1> QED BY <1>3, <1>4, <1>5 DEF TStream, hit

LEMMA SeqShareKeeps ==
  ASSUME layout \in Layouts, NEW t \in TStream, NEW src \in Seqs, NEW dst \in Seqs,
         \A i \in Size : dst \notin t.cells.seq[i]
  PROVE  /\ SeqShare(t, src, dst) \in TStream
         /\ JoinedIn(t.cells, SeqShare(t, src, dst).cells, In(t.cells, src, 0, MaxPos + 1), dst)
<1> DEFINE hit == In(t.cells, src, 0, MaxPos + 1)
<1>1. t.cells \in Tables /\ hit \in SUBSET Size /\ t = [cells |-> t.cells, head |-> t.head]
  BY DEF TStream, In
<1>2. \A i \in hit : t.cells.pos[i] # Empty /\ dst \notin t.cells.seq[i]
  BY <1>1 DEF Tables, Consistent, FreeIsClean, In, seq_has
<1>3. SeqShare(t, src, dst) = [t EXCEPT !.cells = JoinAll(t.cells, hit, dst)]
  BY DEF SeqShare, JoinAll, FoldSet, MapThenFoldSet
<1> HIDE DEF hit
<1>4. JoinAll(t.cells, hit, dst) \in Tables /\ JoinedIn(t.cells, JoinAll(t.cells, hit, dst), hit, dst)
  BY <1>1, <1>2, JoinAllKeeps
<1>5. SeqShare(t, src, dst) = [cells |-> JoinAll(t.cells, hit, dst), head |-> t.head]
  BY <1>1, <1>3
<1> QED BY <1>4, <1>5 DEF TStream, hit

LEMMA SeqEnterKeeps ==
  ASSUME layout \in Layouts, NEW from \in TStream, NEW src \in Seqs, NEW dst \in Seqs
  PROVE  /\ SeqEnter(from, src, dst) \in TStream
         /\ EnteredIn(from.cells, SeqEnter(from, src, dst).cells,
                      {i \in Size : seq_has(from.cells, i, src)}, dst)
<1> DEFINE hit == {i \in Size : seq_has(from.cells, i, src)}
<1>1. from.cells \in Tables /\ hit \in SUBSET Size /\ \A i \in hit : from.cells.seq[i] # {}
  BY DEF TStream, seq_has
<1>2. SeqEnter(from, src, dst) = [cells |-> EnterAll(from.cells, hit, dst), head |-> from.head]
  BY DEF SeqEnter, EnterAll, EnterOne, FoldSet, MapThenFoldSet
<1> HIDE DEF hit
<1>3. EnterAll(from.cells, hit, dst) \in Tables /\ EnteredIn(from.cells, EnterAll(from.cells, hit, dst), hit, dst)
  BY <1>1, EnterAllKeeps, Zenon
<1> QED BY <1>2, <1>3 DEF TStream, hit

-----------------------------------------------------------------------------
(* The search for cells, and tokens entering them.                         *)

\* What InOrder makes of naturals that are their own keys.
Ascending(S) == [k \in 1..Cardinality(S) |-> CHOOSE x \in S : Cardinality({y \in S : y < x}) = k - 1]

LEMMA AscendingIs ==
  ASSUME NEW S \in SUBSET Nat, IsFiniteSet(S)
  PROVE  /\ Enumerates(Ascending(S), S)
         /\ Ascending(S) \in Seq(S) /\ Len(Ascending(S)) = Cardinality(S)
<1> DEFINE key == [x \in S |-> x]
           f == Ascending(S)
<1>1. Cardinality(S) \in Nat
  BY FS_CardinalityType
<1>2. Keyed(S, key)
  BY DEF Keyed
<1>3. \A x \in S : {y \in S : key[y] < key[x]} = {y \in S : y < x}
  OBVIOUS
<1> HIDE DEF key
<1>4. ASSUME NEW k \in 1..Cardinality(S)
      PROVE  f[k] \in S /\ Cardinality({y \in S : y < f[k]}) = k - 1
  <2>1. \E x \in S : Cardinality({y \in S : y < x}) = k - 1
    <3>1. RankIsHeld(S, key, k)
      BY <1>2, RankHeld
    <3> QED BY <1>3, <3>1, Zenon DEF RankIsHeld
  <2>2. f[k] = CHOOSE x \in S : Cardinality({y \in S : y < x}) = k - 1
    BY Zenon DEF Ascending
  <2> HIDE DEF f
  <2> QED BY <2>1, <2>2, Zenon
<1>5. f = [k \in 1..Cardinality(S) |-> f[k]]
  <2> DEFINE g(k) == CHOOSE x \in S : Cardinality({y \in S : y < x}) = k - 1
  <2>1. f = [k \in 1..Cardinality(S) |-> g(k)]
    BY DEF Ascending
  <2> HIDE DEF f, g
  <2> QED BY <2>1
<1> HIDE DEF f
<1>6. Ranked(f, S, key)
  BY <1>3, <1>4, <1>5, Zenon DEF Ranked
<1>7. Enumerates(f, S)
  BY <1>2, <1>6, RankedEnumerates
<1>8. f \in Seq(S) /\ Len(f) = Cardinality(S)
  BY <1>1, <1>7 DEF Enumerates
<1> QED BY <1>7, <1>8 DEF f

LEMMA Remainder ==
  ASSUME NEW a \in Nat, NEW b \in Nat \ {0}
  PROVE  a % b \in 0 .. b - 1
OBVIOUS

\* Once around from anywhere, no cell is visited twice.
LEMMA OnceAround ==
  ASSUME NEW a \in Nat, NEW b \in Nat \ {0}, NEW j \in 0 .. b - 1, NEW k \in 0 .. b - 1, (a + j) % b = (a + k) % b
  PROVE  j = k
<1> DEFINE q == (a + j) \div b
           r == (a + k) \div b
<1>1. q \in Int /\ r \in Int /\ a + j = b * q + ((a + j) % b) /\ a + k = b * r + ((a + k) % b)
  OBVIOUS
<1> HIDE DEF q, r
<1>2. (a + j) % b \in Int
  OBVIOUS
<1>3. j - k = b * q - b * r
  <2>1. b * q \in Int /\ b * r \in Int
    BY <1>1
  <2> QED BY <1>1, <1>2, <2>1
<1>4. ASSUME NEW c \in Int, NEW d \in Int, c > d PROVE b * c - b * d >= b
  <2>1. c - d - 1 \in Nat
    BY <1>4
  <2>2. b * (c - d - 1) \in Nat
    BY <2>1
  <2>3. b * (c - d - 1) = b * c - b * d - b
    OBVIOUS
  <2> QED BY <2>2, <2>3
<1>5. ~(q > r)
  <2>1. ASSUME q > r PROVE FALSE
    <3>1. b * q - b * r >= b
      BY <1>1, <1>4, <2>1
    <3> QED BY <1>3, <3>1
  <2> QED BY <2>1
<1>6. ~(r > q)
  <2>1. ASSUME r > q PROVE FALSE
    <3>1. b * r - b * q >= b
      BY <1>1, <1>4, <2>1
    <3>2. b * q \in Int /\ b * r \in Int
      BY <1>1
    <3> QED BY <1>3, <3>1, <3>2
  <2> QED BY <2>1
<1>7. q = r
  BY <1>1, <1>5, <1>6
<1>8. b * q = b * r /\ b * q \in Int
  BY <1>1, <1>7
<1> QED BY <1>3, <1>8

FreeCells(c) == {i \in Size : c.pos[i] = Empty}

\* The search finds different cells, without a window free ones, unless
\* there are too few of them.
LEMMA FindSlotType ==
  ASSUME layout \in Layouts, NEW t \in TStream, NEW n \in Nat
  PROVE  /\ find_slot(t, n) \in Seq(Size)
         /\ find_slot(t, n) # <<>> => Len(find_slot(t, n)) = n
         /\ Distinct(find_slot(t, n))
         /\ layout.window = 0 => ToSet(find_slot(t, n)) \subseteq FreeCells(t.cells)
         /\ layout.window = 0 /\ n # 0 /\ find_slot(t, n) = <<>> => Cardinality(FreeCells(t.cells)) < n
<1> DEFINE start == IF t.head > Cardinality(t.cells.used) + 2 * n THEN 0 ELSE t.head
           cell(k) == (start + k) % layout.cells
           free == {k \in Size : CanUse(t.cells, cell(k))}
           usable == Ascending(free)
           found == [k \in 1..n |-> cell(usable[k])]
<1>1. find_slot(t, n) = IF Len(usable) < n THEN <<>> ELSE found
  BY DEF find_slot, InOrder, Ascending
<1>2. start \in Nat /\ layout.cells \in Nat \ {0} /\ Size \in SUBSET Nat
  BY LayoutFacts DEF TStream
<1> HIDE DEF start
<1>3. \A k \in Size : cell(k) \in Size
  <2> SUFFICES ASSUME NEW k \in Size PROVE cell(k) \in Size
    OBVIOUS
  <2>1. start + k \in Nat
    BY <1>2
  <2> QED BY <1>2, <2>1, Remainder DEF Size
<1>8. \A j, k \in Size : cell(j) = cell(k) => j = k
  <2> SUFFICES ASSUME NEW j \in Size, NEW k \in Size, cell(j) = cell(k) PROVE j = k
    OBVIOUS
  <2>1. j \in 0 .. layout.cells - 1 /\ k \in 0 .. layout.cells - 1
    BY DEF Size
  <2> QED BY <1>2, <2>1, OnceAround
<1>4. free \in SUBSET Size /\ free \in SUBSET Nat /\ IsFiniteSet(free)
  BY LayoutFacts, FS_Subset
<1>9. layout.window = 0 => \A k \in Size : k \in free <=> cell(k) \in FreeCells(t.cells)
  BY <1>3 DEF CanUse, is_empty, is_masked_swa, FreeCells
<1> HIDE DEF cell, free
<1>5. /\ usable \in Seq(free) /\ Len(usable) \in Nat /\ Len(usable) = Cardinality(free)
      /\ DOMAIN usable = 1..Len(usable) /\ Distinct(usable)
  BY <1>4, AscendingIs, LenProperties DEF Enumerates
<1> HIDE DEF usable
<1>6. CASE Len(usable) < n
  <2>1. find_slot(t, n) = <<>>
    BY <1>1, <1>6
  <2>2. ToSet(<<>>) = {} /\ Distinct(<<>>)
    BY DEF ToSet, Distinct
  <2>3. ASSUME layout.window = 0 PROVE Cardinality(FreeCells(t.cells)) < n
    <3> DEFINE g == [k \in free |-> cell(k)]
    <3>1. FreeCells(t.cells) \subseteq Size
      BY DEF FreeCells
    <3>2. \A i \in FreeCells(t.cells) : \E k \in free : cell(k) = i
      <4> DEFINE h == [k \in Size |-> cell(k)]
      <4>1. h \in Injection(Size, Size)
        BY <1>3, <1>8 DEF Injection, IsInjective
      <4> HIDE DEF h
      <4>2. h \in Surjection(Size, Size)
        BY <4>1, LayoutFacts, FS_Injection
      <4>3. \A i \in Size : \E k \in Size : h[k] = i
        BY <4>2 DEF Surjection
      <4>4. \A k \in Size : h[k] = cell(k)
        BY DEF h
      <4>5. \A i \in Size : \E k \in Size : cell(k) = i
        BY <4>3, <4>4
      <4> QED BY <1>9, <2>3, <3>1, <4>5
    <3>3. \A k \in free : cell(k) \in FreeCells(t.cells)
      BY <1>4, <1>9, <2>3
    <3>4. g \in Bijection(free, FreeCells(t.cells))
      <4>1. g \in [free -> FreeCells(t.cells)]
        BY <3>3
      <4>2. \A j, k \in free : g[j] = g[k] => j = k
        BY <1>4, <1>8
      <4>3. \A i \in FreeCells(t.cells) : \E k \in free : g[k] = i
        BY <3>2
      <4> HIDE DEF g
      <4> QED BY <4>1, <4>2, <4>3 DEF Bijection, Injection, IsInjective, Surjection
    <3> HIDE DEF g
    <3>5. Cardinality(FreeCells(t.cells)) = Cardinality(free)
      BY <1>4, <3>4, FS_Bijection DEF ExistsBijection
    <3> QED BY <1>5, <1>6, <3>5
  <2> HIDE DEF found
  <2> QED BY <2>1, <2>2, <2>3, EmptySeq
<1>7. CASE ~(Len(usable) < n)
  <2>1. \A k \in 1..n : k \in 1..Len(usable)
    BY <1>5, <1>7
  <2>2. \A k \in 1..n : usable[k] \in Size /\ usable[k] \in free
    BY <1>4, <1>5, <2>1, ElementOfSeq, Zenon
  <2>3. found \in [1..n -> Size]
    BY <1>3, <2>2
  <2>4. \A k \in 1..n : found[k] = cell(usable[k])
    OBVIOUS
  <2>5. find_slot(t, n) = found
    BY <1>1, <1>7
  <2> HIDE DEF found
  <2>6. found \in Seq(Size) /\ Len(found) = n /\ DOMAIN found = 1..n
    BY <2>3
  <2>7. Distinct(found)
    <3> SUFFICES ASSUME NEW j \in 1..n, NEW k \in 1..n, found[j] = found[k] PROVE j = k
      BY <2>6 DEF Distinct
    <3>1. usable[j] = usable[k]
      BY <1>8, <2>2, <2>4
    <3> QED BY <1>5, <2>1, <3>1 DEF Distinct
  <2>8. layout.window = 0 => ToSet(found) \subseteq FreeCells(t.cells)
    <3>1. ASSUME layout.window = 0, NEW k \in 1..n PROVE found[k] \in FreeCells(t.cells)
      BY <1>9, <2>2, <2>4, <3>1
    <3> QED BY <2>6, <3>1 DEF ToSet
  <2>9. n # 0 => found # <<>>
    <3>1. Len(<<>>) = 0
      BY EmptySeq
    <3> QED BY <2>6, <3>1
  <2> QED BY <2>5, <2>6, <2>7, <2>8, <2>9
<1> QED BY <1>6, <1>7

Token == [seq : Seqs, pos : Pos]
Still(c) == \A i \in Size : c.shift[i] = 0

\* A token enters a cell, whatever the cell held.
PutOne(tokens, idxs, c, k) ==
  LET i == idxs[k]
      free == IF is_empty(c, i) THEN c ELSE rm(c, i)
  IN cell_seq_add(pos_set(free, i, tokens[k].pos), i, tokens[k].seq)

LEMMA PutOneKeeps ==
  ASSUME layout \in Layouts, NEW x \in Tables, NEW tokens, NEW idxs, NEW k,
         idxs[k] \in Size, tokens[k] \in Token
  PROVE  /\ PutOne(tokens, idxs, x, k) \in Tables
         /\ Becomes(x, PutOne(tokens, idxs, x, k), Size, idxs[k], tokens[k].pos, {tokens[k].seq}, 0)
<1> DEFINE i == idxs[k]
           p == tokens[k].pos
           s == tokens[k].seq
           x1 == IF is_empty(x, i) THEN x ELSE rm(x, i)
           x2 == pos_set(x1, i, p)
           x3 == cell_seq_add(x2, i, s)
<1>1. i \in Size /\ p \in Pos /\ s \in Seqs /\ IsFiniteSet(Size) /\ Consistent(x, Size) /\ p # Empty
  BY LayoutFacts DEF Token, Tables
<1>2. PutOne(tokens, idxs, x, k) = x3
  BY DEF PutOne
<1> HIDE DEF i, p, s
<1>3. Consistent(x1, Size) /\ Becomes(x, x1, Size, i, Empty, {}, 0)
  <2>1. CASE is_empty(x, i)
    BY <1>1, <2>1 DEF is_empty, Consistent, FreeIsClean, Becomes, SameElsewhere
  <2>2. CASE ~is_empty(x, i)
    BY <1>1, <2>2, RmConsistent DEF is_empty
  <2> QED BY <2>1, <2>2
<1> HIDE DEF x1
<1>4. Consistent(x2, Size) /\ Becomes(x1, x2, Size, i, p, {}, 0)
  BY <1>1, <1>3, PosSetConsistent DEF Becomes, is_empty
<1> HIDE DEF x2
<1>5. Consistent(x3, Size) /\ Becomes(x2, x3, Size, i, p, {s}, 0)
  <2>1. x2.pos[i] = p /\ x2.seq[i] = {} /\ x2.shift[i] = 0 /\ ~seq_has(x2, i, s) /\ x2.seq[i] \cup {s} = {s}
    BY <1>4 DEF Becomes, seq_has
  <2>2. Consistent(x3, Size) /\ Becomes(x2, x3, Size, i, x2.pos[i], x2.seq[i] \cup {s}, x2.shift[i])
    BY <1>1, <1>4, <2>1, SeqAddConsistent
  <2> HIDE DEF x3
  <2> QED BY <2>1, <2>2
<1> HIDE DEF x3
<1>6. Becomes(x, x3, Size, i, p, {s}, 0)
  BY <1>3, <1>4, <1>5 DEF Becomes, SameElsewhere
<1>7. p - 0 \in Pos
  BY <1>1, LayoutFacts
<1> QED BY <1>1, <1>2, <1>5, <1>6, <1>7, InTables DEF i, p, s

\* The cells idxs[k], k in u, hold the tokens, the others what they held.
Filled(c, e, tokens, idxs, u) ==
  /\ \A k \in u : e.pos[idxs[k]] = tokens[k].pos /\ e.seq[idxs[k]] = {tokens[k].seq}
  /\ \A i \in Size : (\A k \in u : idxs[k] # i) => e.pos[i] = c.pos[i] /\ e.seq[i] = c.seq[i]
Entering(c, e, tokens, idxs, u) ==
  (Still(c) => Still(e)) /\ (Distinct(idxs) => Filled(c, e, tokens, idxs, u))

PutAll(c, tokens, idxs) == FoldLeftDomain(LAMBDA x, k : PutOne(tokens, idxs, x, k), c, idxs)

LEMMA PutAllKeeps ==
  ASSUME layout \in Layouts, NEW c \in Tables, NEW idxs \in Seq(Size), NEW tokens \in Seq(Token),
         Len(idxs) <= Len(tokens)
  PROVE  PutAll(c, tokens, idxs) \in Tables /\ Entering(c, PutAll(c, tokens, idxs), tokens, idxs, DOMAIN idxs)
<1> DEFINE D == [i \in DOMAIN idxs |-> i]
           pick(u) == Max(u)
           S == DOMAIN D
           base == c
           does(i, x) == PutOne(tokens, idxs, x, D[i])
           ch == [u \in SUBSET S |-> pick(u)]
           P == [u \in SUBSET S |-> {e \in Tables : Entering(c, e, tokens, idxs, u)}]
           step == [z \in S \X Tables |-> does(z[1], z[2])]
           value(u, f) == IF u = {} THEN base ELSE does(pick(u), f[u \ {pick(u)}])
           Solves(f) == f = [u \in SUBSET S |-> value(u, f)]
           iter == CHOOSE f : Solves(f)
<1>1. PutAll(c, tokens, idxs) = iter[S]
  BY DEF PutAll, FoldLeftDomain, FoldLeft, MapThenFoldSet
<1>2. IsFiniteSet(S) /\ \A u \in SUBSET S : u # {} => pick(u) \in u
  <2>1. S = 1..Len(idxs) /\ Len(idxs) \in Nat
    BY LenProperties
  <2>2. IsFiniteSet(S) /\ S \in SUBSET Nat
    BY <2>1, FS_Interval
  <2> HIDE DEF S
  <2>3. ASSUME NEW u \in SUBSET S, u # {} PROVE Max(u) \in u
    <3>1. u \in SUBSET Nat /\ IsFiniteSet(u)
      BY <2>2, FS_Subset, Zenon
    <3>2. \E k \in u : \A j \in u : j <= k
      BY <2>3, <3>1, Greatest
    <3>3. \E k \in u : \A j \in u : k >= j
      BY <3>1, <3>2
    <3> QED BY <3>3 DEF Max
  <2> QED BY <2>2, <2>3
<1>3. base \in P[{}]
  BY DEF Entering, Filled
<1>4. ASSUME NEW u \in SUBSET S, u # {}, NEW x \in P[u \ {pick(u)}]
      PROVE  does(pick(u), x) \in P[u] /\ pick(u) \in S /\ x \in Tables
  <2> DEFINE i == pick(u)
             e == does(i, x)
  <2>1. i \in u /\ i \in S /\ u \in SUBSET S /\ u \ {i} \in SUBSET S
    BY <1>2, <1>4
  <2>2. x \in Tables /\ Entering(c, x, tokens, idxs, u \ {i})
    BY <2>1
  <2> HIDE DEF i, P, ch, pick, S, base
  <2>3. D[i] = i /\ idxs[i] \in Size /\ tokens[i] \in Token
    <3>1. i \in 1..Len(idxs) /\ Len(idxs) \in Nat /\ Len(tokens) \in Nat /\ D[i] = i
      BY <2>1, LenProperties DEF S
    <3> QED BY <3>1, ElementOfSeq
  <2>4. e \in Tables /\ Entering(c, e, tokens, idxs, u)
    <3>1. e \in Tables /\ Becomes(x, e, Size, idxs[i], tokens[i].pos, {tokens[i].seq}, 0)
      BY <2>2, <2>3, PutOneKeeps, Zenon
    <3> HIDE DEF e
    <3>2. Still(c) => Still(e)
      BY <2>2, <3>1 DEF Entering, Still, Becomes, SameElsewhere
    <3>3. ASSUME Distinct(idxs) PROVE Filled(c, e, tokens, idxs, u)
      <4>1. Filled(c, x, tokens, idxs, u \ {i}) /\ \A k \in u \ {i} : idxs[k] # idxs[i] /\ idxs[k] \in Size
        <5>1. \A k \in u : k \in DOMAIN idxs
          BY <2>1 DEF S
        <5>2. \A k \in u \ {i} : idxs[k] # idxs[i]
          BY <2>1, <3>3, <5>1 DEF Distinct
        <5>3. \A k \in u : idxs[k] \in Size
          BY <5>1, ElementOfSeq, LenProperties
        <5> QED BY <2>2, <3>3, <5>2, <5>3 DEF Entering
      <4>2. \A j \in Size : j # idxs[i] => e.pos[j] = x.pos[j] /\ e.seq[j] = x.seq[j]
        BY <3>1 DEF Becomes, SameElsewhere
      <4>3. e.pos[idxs[i]] = tokens[i].pos /\ e.seq[idxs[i]] = {tokens[i].seq}
        BY <3>1 DEF Becomes
      <4>4. \A k \in u : e.pos[idxs[k]] = tokens[k].pos /\ e.seq[idxs[k]] = {tokens[k].seq}
        BY <4>1, <4>2, <4>3, Zenon DEF Filled
      <4>5. ASSUME NEW j \in Size, \A k \in u : idxs[k] # j PROVE e.pos[j] = c.pos[j] /\ e.seq[j] = c.seq[j]
        <5>1. j # idxs[i] /\ \A k \in u \ {i} : idxs[k] # j
          BY <2>1, <4>5
        <5> QED BY <4>1, <4>2, <5>1 DEF Filled
      <4> QED BY <4>4, <4>5 DEF Filled
    <3> QED BY <3>1, <3>2, <3>3 DEF Entering
  <2> QED BY <2>1, <2>2, <2>4 DEF P, i
<1> HIDE DEF pick, does, P, S, base
<1>5. \E f : Solves(f)
  <2>1. FoldsIn(S, ch, P, base, step)
    BY <1>2, <1>3, <1>4, Zenon DEF FoldsIn
  <2>2. PICK f : TakesFold(S, ch, P, base, step, f)
    BY <2>1, FoldExists, Zenon
  <2>3. ASSUME NEW u \in SUBSET S PROVE f[u] = value(u, f)
    BY <1>4, <2>2, Zenon DEF TakesFold
  <2>4. f = [u \in SUBSET S |-> f[u]]
    BY <2>2 DEF TakesFold
  <2> HIDE DEF value
  <2> QED BY <2>3, <2>4, Zenon
<1>6. iter[S] \in P[S]
  <2>1. Solves(iter)
    <3> HIDE DEF Solves
    <3> QED BY <1>5
  <2> HIDE DEF iter
  <2>2. \A u \in SUBSET S : iter[u] = value(u, iter)
    <3> HIDE DEF value
    <3> QED BY <2>1
  <2>3. KeepsFold(S, ch, P, iter)
    BY <1>2, <1>3, <1>4, <2>2, Zenon DEF KeepsFold
  <2> QED BY <2>3, FoldKeeps
<1> QED BY <1>1, <1>6 DEF P, S

LEMMA EnteredKeeps ==
  ASSUME layout \in Layouts, NEW t \in TStream, NEW idxs \in Seq(Size), NEW tokens \in Seq(Token),
         Len(idxs) <= Len(tokens)
  PROVE  /\ Entered(t, tokens, idxs) \in TStream
         /\ Entering(t.cells, Entered(t, tokens, idxs).cells, tokens, idxs, DOMAIN idxs)
<1>1. Entered(t, tokens, idxs) = [t EXCEPT !.cells = PutAll(t.cells, tokens, idxs)]
  BY DEF Entered, PutAll, PutOne, FoldLeftDomain, FoldLeft, MapThenFoldSet
<1>2. t = [cells |-> t.cells, head |-> t.head] /\ t.cells \in Tables /\ t.head \in 0..layout.cells
  BY DEF TStream
<1>3. Entered(t, tokens, idxs) = [cells |-> PutAll(t.cells, tokens, idxs), head |-> t.head]
  BY <1>1, <1>2
<1> QED BY <1>2, <1>3, PutAllKeeps DEF TStream

LEMMA SeqRmStill ==
  ASSUME layout \in Layouts, NEW t \in TStream, NEW s \in Seqs, NEW p0, NEW p1, Still(t.cells)
  PROVE  Still(SeqRm(t, s, p0, p1).cells)
<1> DEFINE e == SeqRm(t, s, p0, p1)
           hit == In(t.cells, s, p0, p1)
<1>1. Left(t.cells, e.cells, hit, s)
  BY SeqRmKeeps
<1> HIDE DEF e, hit
<1>2. Still(e.cells)
  BY <1>1, Zenon DEF Left, Still
<1> QED BY <1>2 DEF e

\* What the positions below the overwritten ones leave in one sequence.
PurgeOne(old, idxs, s, u) ==
  LET over == {old.pos[i] : i \in {j \in ToSet(idxs) : old.seq[j] = {s}}}
  IN IF over = {} \/ seq_pos_min(u.cells, s) > Max(over) THEN u
     ELSE SeqRm(u, s, seq_pos_min(u.cells, s), Max(over) + 1)

\* Nothing is left to purge where the cells were free.
Purging(t, u, old, idxs) ==
  (Still(t.cells) => Still(u.cells)) /\ ((\A j \in ToSet(idxs) : old.seq[j] = {}) => u = t)

PurgeAll(t, old, idxs) == FoldSet(LAMBDA s, u : PurgeOne(old, idxs, s, u), t, Seqs)

LEMMA PurgeAllKeeps ==
  ASSUME layout \in Layouts, NEW t \in TStream, NEW old, NEW idxs
  PROVE  PurgeAll(t, old, idxs) \in TStream /\ Purging(t, PurgeAll(t, old, idxs), old, idxs)
<1> DEFINE pick(u) == CHOOSE y \in u : TRUE
           S == Seqs
           base == t
           does(i, x) == PurgeOne(old, idxs, i, x)
           ch == [u \in SUBSET S |-> pick(u)]
           P == [u \in SUBSET S |-> {e \in TStream : Purging(t, e, old, idxs)}]
           step == [z \in S \X TStream |-> does(z[1], z[2])]
           value(u, f) == IF u = {} THEN base ELSE does(pick(u), f[u \ {pick(u)}])
           Solves(f) == f = [u \in SUBSET S |-> value(u, f)]
           iter == CHOOSE f : Solves(f)
<1>1. PurgeAll(t, old, idxs) = iter[S]
  BY DEF PurgeAll, FoldSet, MapThenFoldSet
<1>2. IsFiniteSet(S) /\ \A u \in SUBSET S : u # {} => pick(u) \in u
  BY LayoutFacts, FS_Subset
<1>3. base \in P[{}]
  BY DEF Purging
<1>4. ASSUME NEW u \in SUBSET S, u # {}, NEW x \in P[u \ {pick(u)}]
      PROVE  does(pick(u), x) \in P[u] /\ pick(u) \in S /\ x \in TStream
  <2> DEFINE i == pick(u)
             e == does(i, x)
  <2>1. i \in u /\ i \in S /\ u \in SUBSET S /\ u \ {i} \in SUBSET S
    BY <1>2, <1>4
  <2>2. x \in TStream /\ Purging(t, x, old, idxs)
    BY <2>1
  <2> HIDE DEF i, P, ch, pick, S, base
  <2>3. i \in Seqs
    BY <2>1 DEF S
  <2>4. e \in TStream /\ Purging(t, e, old, idxs)
    <3> DEFINE over == {old.pos[j] : j \in {j \in ToSet(idxs) : old.seq[j] = {i}}}
               q == SeqRm(x, i, seq_pos_min(x.cells, i), Max(over) + 1)
    <3>1. q \in TStream /\ (Still(x.cells) => Still(q.cells))
      BY <2>2, <2>3, SeqRmKeeps, SeqRmStill
    <3>2. e = x \/ e = q
      BY DEF PurgeOne
    <3>3. (\A j \in ToSet(idxs) : old.seq[j] = {}) => e = x
      BY DEF PurgeOne
    <3> HIDE DEF q, e
    <3> QED BY <2>2, <3>1, <3>2, <3>3 DEF Purging
  <2> QED BY <2>1, <2>2, <2>4 DEF P, i
<1> HIDE DEF pick, does, P, S, base
<1>5. \E f : Solves(f)
  <2>1. FoldsIn(S, ch, P, base, step)
    BY <1>2, <1>3, <1>4, Zenon DEF FoldsIn
  <2>2. PICK f : TakesFold(S, ch, P, base, step, f)
    BY <2>1, FoldExists
  <2>3. ASSUME NEW u \in SUBSET S PROVE f[u] = value(u, f)
    BY <1>4, <2>2, Zenon DEF TakesFold
  <2>4. f = [u \in SUBSET S |-> f[u]]
    BY <2>2 DEF TakesFold
  <2> HIDE DEF value
  <2> QED BY <2>3, <2>4, Zenon
<1>6. iter[S] \in P[S]
  <2>1. Solves(iter)
    <3> HIDE DEF Solves
    <3> QED BY <1>5
  <2> HIDE DEF iter
  <2>2. \A u \in SUBSET S : iter[u] = value(u, iter)
    <3> HIDE DEF value
    <3> QED BY <2>1
  <2>3. KeepsFold(S, ch, P, iter)
    BY <1>2, <1>3, <1>4, <2>2, Zenon DEF KeepsFold
  <2> QED BY <2>3, FoldKeeps
<1> QED BY <1>1, <1>6 DEF P, S

LEMMA PurgedKeeps ==
  ASSUME layout \in Layouts, NEW t \in TStream, NEW old, NEW idxs
  PROVE  Purged(t, old, idxs) \in TStream /\ Purging(t, Purged(t, old, idxs), old, idxs)
<1>1. Purged(t, old, idxs) = PurgeAll(t, old, idxs)
  BY DEF Purged, PurgeAll, PurgeOne, FoldSet, MapThenFoldSet
<1> QED BY <1>1, PurgeAllKeeps

\* apply_ubatch on a stream, with a cell for each token.
LEMMA ApplyUbatchKeeps ==
  ASSUME layout \in Layouts, NEW t \in TStream, NEW idxs \in Seq(Size), NEW tokens \in Seq(Token),
         idxs # <<>>, Len(idxs) <= Len(tokens)
  PROVE  /\ apply_ubatch(t, tokens, idxs) \in TStream
         /\ Still(t.cells) => Still(apply_ubatch(t, tokens, idxs).cells)
         /\ Distinct(idxs) /\ ToSet(idxs) \subseteq FreeCells(t.cells) =>
              Filled(t.cells, apply_ubatch(t, tokens, idxs).cells, tokens, idxs, DOMAIN idxs)
<1> DEFINE u == Purged(Entered(t, tokens, idxs), t.cells, idxs)
<1>1. /\ u \in TStream /\ (Still(t.cells) => Still(u.cells))
      /\ Distinct(idxs) /\ ToSet(idxs) \subseteq FreeCells(t.cells) => Filled(t.cells, u.cells, tokens, idxs, DOMAIN idxs)
  <2> DEFINE e == Entered(t, tokens, idxs)
  <2>1. e \in TStream /\ Entering(t.cells, e.cells, tokens, idxs, DOMAIN idxs)
    BY EnteredKeeps
  <2> HIDE DEF e
  <2>2. Purged(e, t.cells, idxs) \in TStream /\ Purging(e, Purged(e, t.cells, idxs), t.cells, idxs)
    BY <2>1, PurgedKeeps
  <2>3. \A j \in FreeCells(t.cells) : t.cells.seq[j] = {}
    BY DEF TStream, Tables, Consistent, FreeIsClean, FreeCells
  <2>4. ToSet(idxs) \subseteq FreeCells(t.cells) => \A j \in ToSet(idxs) : t.cells.seq[j] = {}
    BY <2>3
  <2>5. u = Purged(e, t.cells, idxs)
    BY DEF e
  <2> HIDE DEF u
  <2> QED BY <2>1, <2>2, <2>4, <2>5 DEF Entering, Purging
<1>2. Last(idxs) + 1 \in 0..layout.cells
  <2>1. Len(idxs) \in Nat /\ Len(idxs) \in 1..Len(idxs)
    BY LenProperties, EmptySeq
  <2>2. idxs[Len(idxs)] \in Size /\ layout.cells \in Nat
    BY <2>1, ElementOfSeq, LayoutFacts
  <2> QED BY <2>2 DEF Last, Size
<1>3. apply_ubatch(t, tokens, idxs) = [u EXCEPT !.head = Last(idxs) + 1]
  BY DEF apply_ubatch
<1> HIDE DEF u
<1>4. u = [cells |-> u.cells, head |-> u.head] /\ u.cells \in Tables
  BY <1>1 DEF TStream
<1>5. apply_ubatch(t, tokens, idxs) = [cells |-> u.cells, head |-> Last(idxs) + 1]
  BY <1>3, <1>4
<1> QED BY <1>1, <1>2, <1>4, <1>5 DEF TStream

-----------------------------------------------------------------------------
(* Ubatches in the streams of the cache.                                   *)

Still1(vs) == \A d \in Streams : Still(vs[d].cells)
Caches == [Streams -> TStream]
Stills == {vs \in Caches : Still1(vs)}
Ubatch == [Streams -> Seq(Token)]
SlotMaps == [Streams -> Seq(Size)]
\* A cell for each token.
Fills(slot, ub) == \A d \in Streams : Len(slot[d]) = Len(ub[d])
\* The same where cells were found.
Serves(slot, ub) ==
  \A d \in Streams : /\ slot[d] = <<>> \/ Len(slot[d]) = Len(ub[d])
                     /\ d \notin Asked(ub) => slot[d] = <<>>

FindAll(vs, ub) ==
  FoldSet(LAMBDA d, f : [f EXCEPT ![d] = find_slot(vs[d], Len(ub[d]))], [d \in Streams |-> <<>>], Asked(ub))

\* The streams in u have been searched.
Searched(slot, vs, ub, u) == \A d \in u : slot[d] = find_slot(vs[d], Len(ub[d]))

LEMMA FindAllKeeps ==
  ASSUME layout \in Layouts, NEW vs \in Caches, NEW ub \in Ubatch
  PROVE  /\ FindAll(vs, ub) \in SlotMaps /\ Serves(FindAll(vs, ub), ub)
         /\ Searched(FindAll(vs, ub), vs, ub, Asked(ub))
<1> DEFINE pick(u) == CHOOSE y \in u : TRUE
           S == Asked(ub)
           base == [d \in Streams |-> <<>>]
           does(i, x) == [x EXCEPT ![i] = find_slot(vs[i], Len(ub[i]))]
           ch == [u \in SUBSET S |-> pick(u)]
           P == [u \in SUBSET S |-> {e \in SlotMaps : Serves(e, ub) /\ Searched(e, vs, ub, u)}]
           step == [z \in S \X SlotMaps |-> does(z[1], z[2])]
           value(u, f) == IF u = {} THEN base ELSE does(pick(u), f[u \ {pick(u)}])
           Solves(f) == f = [u \in SUBSET S |-> value(u, f)]
           iter == CHOOSE f : Solves(f)
<1>1. FindAll(vs, ub) = iter[S]
  BY DEF FindAll, FoldSet, MapThenFoldSet
<1>2. IsFiniteSet(S) /\ \A u \in SUBSET S : u # {} => pick(u) \in u
  BY LayoutFacts, FS_Subset DEF Asked
<1>3. base \in P[{}]
  BY EmptySeq DEF SlotMaps, Serves, Searched
<1>4. ASSUME NEW u \in SUBSET S, u # {}, NEW x \in P[u \ {pick(u)}]
      PROVE  does(pick(u), x) \in P[u] /\ pick(u) \in S /\ x \in SlotMaps
  <2> DEFINE i == pick(u)
             e == does(i, x)
  <2>1. i \in u /\ i \in S /\ u \in SUBSET S /\ u \ {i} \in SUBSET S
    BY <1>2, <1>4
  <2>2. x \in SlotMaps /\ Serves(x, ub) /\ Searched(x, vs, ub, u \ {i})
    BY <2>1
  <2> HIDE DEF i, P, ch, pick, S, base
  <2>3. i \in Streams /\ i \in Asked(ub)
    BY <2>1 DEF S, Asked
  <2>4. e \in SlotMaps /\ Serves(e, ub) /\ Searched(e, vs, ub, u)
    <3> DEFINE q == find_slot(vs[i], Len(ub[i]))
    <3>1. vs[i] \in TStream /\ ub[i] \in Seq(Token)
      BY <2>3 DEF Caches, Ubatch
    <3>2. q \in Seq(Size) /\ (q # <<>> => Len(q) = Len(ub[i]))
      BY <3>1, LenProperties, FindSlotType, Zenon
    <3> HIDE DEF q
    <3>3. e = [x EXCEPT ![i] = q]
      BY DEF q
    <3> HIDE DEF e
    <3>4. x \in [Streams -> Seq(Size)]
      BY <2>2 DEF SlotMaps
    <3>5. e \in SlotMaps
      BY <2>3, <3>2, <3>3, <3>4 DEF SlotMaps
    <3>6. \A d \in Streams : e[d] = IF d = i THEN q ELSE x[d]
      BY <3>3, <3>4
    <3>7. Searched(e, vs, ub, u)
      <4>1. \A d \in u : d \in Streams
        BY <2>1 DEF S, Asked
      <4> QED BY <2>2, <3>6, <4>1 DEF Searched, q
    <3> QED BY <2>2, <2>3, <3>2, <3>5, <3>6, <3>7 DEF Serves
  <2> QED BY <2>1, <2>2, <2>4 DEF P, i
<1> HIDE DEF pick, does, P, S, base
<1>5. \E f : Solves(f)
  <2>1. FoldsIn(S, ch, P, base, step)
    BY <1>2, <1>3, <1>4, Zenon DEF FoldsIn
  <2>2. PICK f : TakesFold(S, ch, P, base, step, f)
    BY <2>1, FoldExists, Zenon
  <2>3. ASSUME NEW u \in SUBSET S PROVE f[u] = value(u, f)
    BY <1>4, <2>2, Zenon DEF TakesFold
  <2>4. f = [u \in SUBSET S |-> f[u]]
    BY <2>2 DEF TakesFold
  <2> HIDE DEF value
  <2> QED BY <2>3, <2>4, Zenon
<1>6. iter[S] \in P[S]
  <2>1. Solves(iter)
    <3> HIDE DEF Solves
    <3> QED BY <1>5
  <2> HIDE DEF iter
  <2>2. \A u \in SUBSET S : iter[u] = value(u, iter)
    <3> HIDE DEF value
    <3> QED BY <2>1
  <2>3. KeepsFold(S, ch, P, iter)
    BY <1>2, <1>3, <1>4, <2>2, Zenon DEF KeepsFold
  <2> QED BY <2>3, FoldKeeps
<1> QED BY <1>1, <1>6 DEF P, S

\* Different and free cells in every stream.
FreeSlot(vs, slot) == \A d \in Streams : Distinct(slot[d]) /\ ToSet(slot[d]) \subseteq FreeCells(vs[d].cells)
\* A stream has too few cells for an ubatch.
TooFew(vs, ub) == \E d \in Streams : Cardinality(FreeCells(vs[d].cells)) < Len(ub[d])

LEMMA SlotsType ==
  ASSUME layout \in Layouts, NEW vs \in Caches, NEW ub \in Ubatch
  PROVE  /\ Slots(vs, ub) \in SlotMaps
         /\ (\A d \in Asked(ub) : Slots(vs, ub)[d] # <<>>) => Fills(Slots(vs, ub), ub)
         /\ layout.window = 0 => FreeSlot(vs, Slots(vs, ub))
         /\ layout.window = 0 /\ (\E d \in Asked(ub) : Slots(vs, ub)[d] = <<>>) => TooFew(vs, ub)
<1>1. Slots(vs, ub) = FindAll(vs, ub)
  BY DEF Slots, FindAll, FoldSet, MapThenFoldSet
<1> DEFINE f == FindAll(vs, ub)
<1>2. f \in SlotMaps /\ Serves(f, ub) /\ Searched(f, vs, ub, Asked(ub))
  BY FindAllKeeps
<1> HIDE DEF f
<1>3. \A d \in Streams : d \notin Asked(ub) => ub[d] = <<>>
  BY DEF Asked
<1>4. Slots(vs, ub) = f
  BY <1>1 DEF f
<1>5. ASSUME \A d \in Asked(ub) : f[d] # <<>>, NEW d \in Streams PROVE Len(f[d]) = Len(ub[d])
  BY <1>2, <1>3, <1>5 DEF Serves
<1>6. \A d \in Streams : vs[d] \in TStream /\ Len(ub[d]) \in Nat /\ (d \in Asked(ub) => Len(ub[d]) # 0)
  BY EmptySeq, LenProperties DEF Caches, Ubatch, Asked
<1>7. ASSUME layout.window = 0, NEW d \in Streams
      PROVE  Distinct(f[d]) /\ ToSet(f[d]) \subseteq FreeCells(vs[d].cells)
  <2>1. CASE d \in Asked(ub)
    BY <1>2, <1>6, <1>7, <2>1, FindSlotType DEF Searched
  <2>2. CASE d \notin Asked(ub)
    <3>1. f[d] = <<>>
      BY <1>2, <2>2 DEF Serves
    <3>2. ToSet(<<>>) = {} /\ Distinct(<<>>)
      BY DEF ToSet, Distinct
    <3> QED BY <3>1, <3>2
  <2> QED BY <2>1, <2>2
<1>8. ASSUME layout.window = 0, NEW d \in Asked(ub), f[d] = <<>> PROVE Cardinality(FreeCells(vs[d].cells)) < Len(ub[d])
  <2>1. d \in Streams
    BY DEF Asked
  <2> QED BY <1>2, <1>6, <1>8, <2>1, FindSlotType DEF Searched
<1>9. \A d \in Asked(ub) : d \in Streams
  BY DEF Asked
<1> QED BY <1>2, <1>4, <1>5, <1>7, <1>8, <1>9 DEF Fills, FreeSlot, TooFew

AllFilled(vs, ws, ub, slot) ==
  \A d \in Streams : Filled(vs[d].cells, ws[d].cells, ub[d], slot[d], DOMAIN slot[d])

LEMMA ApplyKeeps ==
  ASSUME layout \in Layouts, NEW vs \in Caches, NEW ub \in Ubatch, NEW slot \in SlotMaps, Fills(slot, ub)
  PROVE  /\ Apply(vs, ub, slot) \in Caches /\ (Still1(vs) => Still1(Apply(vs, ub, slot)))
         /\ FreeSlot(vs, slot) => AllFilled(vs, Apply(vs, ub, slot), ub, slot)
<1> SUFFICES ASSUME NEW d \in Streams
             PROVE  /\ Apply(vs, ub, slot)[d] \in TStream
                    /\ Still(vs[d].cells) => Still(Apply(vs, ub, slot)[d].cells)
                    /\ FreeSlot(vs, slot) => Filled(vs[d].cells, Apply(vs, ub, slot)[d].cells, ub[d], slot[d], DOMAIN slot[d])
  BY DEF Caches, Still1, Apply, AllFilled
<1>1. vs[d] \in TStream /\ ub[d] \in Seq(Token) /\ slot[d] \in Seq(Size) /\ Len(slot[d]) = Len(ub[d])
  BY DEF Caches, Ubatch, SlotMaps, Fills
<1>2. CASE d \in Asked(ub)
  <2>1. ub[d] # <<>>
    BY <1>2 DEF Asked
  <2>2. slot[d] # <<>>
    BY <1>1, <2>1, EmptySeq, LenProperties
  <2>3. Len(slot[d]) <= Len(ub[d])
    BY <1>1, LenProperties
  <2>4. Apply(vs, ub, slot)[d] = apply_ubatch(vs[d], ub[d], slot[d])
    BY <1>2 DEF Apply
  <2>5. FreeSlot(vs, slot) => Distinct(slot[d]) /\ ToSet(slot[d]) \subseteq FreeCells(vs[d].cells)
    BY DEF FreeSlot
  <2> QED BY <1>1, <2>2, <2>3, <2>4, <2>5, ApplyUbatchKeeps
<1>3. CASE d \notin Asked(ub)
  <2>1. ub[d] = <<>> /\ Apply(vs, ub, slot)[d] = vs[d]
    BY <1>3 DEF Asked, Apply
  <2>2. DOMAIN slot[d] = {}
    BY <1>1, <2>1, EmptySeq, LenProperties
  <2> QED BY <1>1, <2>1, <2>2 DEF Filled
<1> QED BY <1>2, <1>3

\* The cells of a slot are those of old again, the others those of vs.
GivenBack(vs, old, slot, xs) ==
  \A d \in Streams : BackIn(vs[d].cells, old[d].cells, xs[d].cells, ToSet(slot[d]))

LEMMA RestoredKeeps ==
  ASSUME layout \in Layouts, NEW vs \in Stills, NEW old \in Stills, NEW slot \in SlotMaps
  PROVE  Restored(vs, old, slot) \in Stills /\ GivenBack(vs, old, slot, Restored(vs, old, slot))
<1> DEFINE strm == {d \in Streams : slot[d] # <<>>}
           kth(d) == Cardinality({e \in strm : e < d})
           cells(d) == SetAll(vs[d].cells, ToSet(slot[d]), old[d].cells)
           new == [d \in Streams |-> IF d \in strm THEN [cells |-> cells(d), head |-> old[kth(d)].head] ELSE vs[d]]
<1>1. Restored(vs, old, slot) = new
  BY DEF Restored, SetAll, FoldSet, MapThenFoldSet
<1>2. ASSUME NEW d \in Streams
      PROVE  /\ cells(d) \in Tables /\ Still(cells(d))
             /\ BackIn(vs[d].cells, old[d].cells, cells(d), ToSet(slot[d]))
  <2>1. vs[d].cells \in Tables /\ old[d].cells \in Tables /\ Still(vs[d].cells) /\ Still(old[d].cells)
    BY DEF Stills, Caches, Still1, TStream
  <2>2. ToSet(slot[d]) \in SUBSET Size
    <3>1. slot[d] \in Seq(Size)
      BY DEF SlotMaps
    <3> QED BY <3>1, ElementOfSeq, LenProperties DEF ToSet
  <2>3. cells(d) \in Tables /\ BackIn(vs[d].cells, old[d].cells, cells(d), ToSet(slot[d]))
    BY <2>1, <2>2, SetAllKeeps DEF Still
  <2> HIDE DEF cells
  <2> QED BY <2>3 DEF BackIn, Still
<1>3. ASSUME NEW d \in Streams PROVE kth(d) \in Streams
  <2> DEFINE B == {e \in strm : e < d}
  <2>1. IsFiniteSet(B) /\ Cardinality(B) \in Nat /\ B \in SUBSET 0 .. d - 1 /\ d \in Nat
    <3>1. Streams \in SUBSET Nat /\ IsFiniteSet(Streams)
      BY LayoutFacts
    <3>2. B \in SUBSET Streams /\ d \in Nat
      BY <3>1
    <3>3. \A e \in B : e \in Nat /\ e < d
      BY <3>1
    <3> HIDE DEF B
    <3>4. B \in SUBSET 0 .. d - 1
      BY <3>2, <3>3
    <3>5. IsFiniteSet(B)
      BY <3>1, <3>2, FS_Subset, Zenon
    <3> QED BY <3>2, <3>4, <3>5, FS_CardinalityType
  <2> HIDE DEF B
  <2>2. Cardinality(B) <= d
    <3>1. d - 1 \in Int /\ IF 0 > d - 1 THEN d = 0 ELSE d = d - 1 - 0 + 1
      BY <2>1
    <3>2. IsFiniteSet(0 .. d - 1) /\ Cardinality(0 .. d - 1) = IF 0 > d - 1 THEN 0 ELSE (d - 1) - 0 + 1
      BY <3>1, FS_Interval
    <3>3. Cardinality(B) <= Cardinality(0 .. d - 1)
      BY <2>1, <3>2, FS_Subset, Zenon
    <3> QED BY <2>1, <3>1, <3>2, <3>3
  <2>3. \A k \in 0..d : k \in Streams
    <3>1. CASE layout.unified
      BY <3>1 DEF Streams
    <3>2. CASE ~layout.unified
      <4>1. Streams = 0 .. Cardinality(Seqs) - 1 /\ Cardinality(Seqs) \in Nat
        BY <3>2, SeqAssumption, FS_CardinalityType DEF Streams
      <4> QED BY <4>1
    <3> QED BY <3>1, <3>2
  <2> QED BY <2>1, <2>2, <2>3 DEF B
<1>6. ASSUME NEW d \in Streams, d \notin strm
      PROVE  BackIn(vs[d].cells, old[d].cells, vs[d].cells, ToSet(slot[d]))
  <2>1. ToSet(<<>>) = {} /\ slot[d] = <<>>
    BY <1>6 DEF ToSet
  <2>2. Still(vs[d].cells)
    BY DEF Stills, Still1
  <2> QED BY <2>1, <2>2 DEF BackIn, Still
<1> HIDE DEF cells, kth, strm
<1>4. ASSUME NEW d \in Streams
      PROVE  /\ new[d] \in TStream /\ Still(new[d].cells)
             /\ BackIn(vs[d].cells, old[d].cells, new[d].cells, ToSet(slot[d]))
  <2>1. vs[d] \in TStream /\ Still(vs[d].cells) /\ old[kth(d)].head \in 0..layout.cells
    BY <1>3 DEF Stills, Caches, Still1, TStream
  <2>2. CASE d \in strm
    <3>1. new[d].cells = cells(d) /\ new[d].head = old[kth(d)].head /\ new[d] = [cells |-> cells(d), head |-> old[kth(d)].head]
      BY <2>2
    <3> HIDE DEF new
    <3> QED BY <1>2, <2>1, <3>1 DEF TStream
  <2>3. CASE d \notin strm
    <3>1. new[d] = vs[d]
      BY <2>3
    <3> QED BY <1>6, <2>1, <2>3, <3>1
  <2> QED BY <2>2, <2>3
<1> HIDE DEF new
<1>5. new = [d \in Streams |-> new[d]]
  BY DEF new
<1>7. new \in Caches
  BY <1>4, <1>5 DEF Caches
<1> QED BY <1>1, <1>4, <1>7 DEF Stills, Still1, GivenBack

\* What the cells hold, without the indexes.
SameContent(vs, ws) ==
  \A d \in Streams, i \in Size : vs[d].cells.pos[i] = ws[d].cells.pos[i] /\ vs[d].cells.seq[i] = ws[d].cells.seq[i]

LEMMA FreeSlotSame ==
  ASSUME NEW vs, NEW ws, SameContent(vs, ws), NEW slot, FreeSlot(vs, slot)
  PROVE  FreeSlot(ws, slot)
<1>1. \A d \in Streams : FreeCells(vs[d].cells) = FreeCells(ws[d].cells)
  BY DEF SameContent, FreeCells
<1> QED BY <1>1 DEF FreeSlot

\* The same tokens in the same cells.
LEMMA FilledSame ==
  ASSUME NEW vs, NEW ws, SameContent(vs, ws), NEW xs, NEW ys, NEW ub, NEW slot,
         AllFilled(vs, xs, ub, slot), AllFilled(ws, ys, ub, slot)
  PROVE  SameContent(xs, ys)
<1> SUFFICES ASSUME NEW d \in Streams, NEW i \in Size
             PROVE  xs[d].cells.pos[i] = ys[d].cells.pos[i] /\ xs[d].cells.seq[i] = ys[d].cells.seq[i]
  BY DEF SameContent
<1>1. /\ Filled(vs[d].cells, xs[d].cells, ub[d], slot[d], DOMAIN slot[d])
      /\ Filled(ws[d].cells, ys[d].cells, ub[d], slot[d], DOMAIN slot[d])
  BY DEF AllFilled
<1>2. CASE \E k \in DOMAIN slot[d] : slot[d][k] = i
  <2>1. PICK k \in DOMAIN slot[d] : slot[d][k] = i
    BY <1>2
  <2>2. xs[d].cells.pos[i] = ub[d][k].pos /\ xs[d].cells.seq[i] = {ub[d][k].seq}
    BY <1>1, <2>1, Zenon DEF Filled
  <2>3. ys[d].cells.pos[i] = ub[d][k].pos /\ ys[d].cells.seq[i] = {ub[d][k].seq}
    BY <1>1, <2>1, Zenon DEF Filled
  <2> QED BY <2>2, <2>3
<1>3. CASE \A k \in DOMAIN slot[d] : slot[d][k] # i
  <2>1. vs[d].cells.pos[i] = ws[d].cells.pos[i] /\ vs[d].cells.seq[i] = ws[d].cells.seq[i]
    BY DEF SameContent
  <2> QED BY <1>1, <1>3, <2>1 DEF Filled
<1> QED BY <1>2, <1>3

\* What was placed and is given back leaves the cells as they were.
LEMMA RestoredSame ==
  ASSUME NEW vs, NEW ws, SameContent(vs, ws), NEW old, NEW ub, NEW slot, AllFilled(old, ws, ub, slot),
         NEW xs, GivenBack(vs, old, slot, xs)
  PROVE  SameContent(xs, old)
<1> SUFFICES ASSUME NEW d \in Streams, NEW i \in Size
             PROVE  xs[d].cells.pos[i] = old[d].cells.pos[i] /\ xs[d].cells.seq[i] = old[d].cells.seq[i]
  BY DEF SameContent
<1>1. /\ Filled(old[d].cells, ws[d].cells, ub[d], slot[d], DOMAIN slot[d])
      /\ BackIn(vs[d].cells, old[d].cells, xs[d].cells, ToSet(slot[d]))
      /\ vs[d].cells.pos[i] = ws[d].cells.pos[i] /\ vs[d].cells.seq[i] = ws[d].cells.seq[i]
  BY DEF AllFilled, GivenBack, SameContent
<1>2. CASE i \in ToSet(slot[d])
  BY <1>1, <1>2 DEF BackIn
<1>3. CASE i \notin ToSet(slot[d])
  <2>1. \A k \in DOMAIN slot[d] : slot[d][k] # i
    BY <1>3 DEF ToSet
  <2> QED BY <1>1, <1>3, <2>1 DEF BackIn, Filled
<1> QED BY <1>2, <1>3

-----------------------------------------------------------------------------
(* Cutting a batch into ubatches.                                          *)

LEMMA MinPair ==
  ASSUME NEW a \in Int, NEW b \in Int
  PROVE  Min({a, b}) \in Int /\ Min({a, b}) \in {a, b} /\ Min({a, b}) <= a /\ Min({a, b}) <= b
<1>1. \E x \in {a, b} : \A y \in {a, b} : x <= y
  OBVIOUS
<1>2. Min({a, b}) \in {a, b} /\ \A y \in {a, b} : Min({a, b}) <= y
  BY <1>1 DEF Min
<1> QED BY <1>2

LEMMA MaxPair ==
  ASSUME NEW a \in Int, NEW b \in Int
  PROVE  Max({a, b}) \in {a, b} /\ Max({a, b}) >= a /\ Max({a, b}) >= b
<1>1. \E x \in {a, b} : \A y \in {a, b} : x >= y
  OBVIOUS
<1>2. Max({a, b}) \in {a, b} /\ \A y \in {a, b} : Max({a, b}) >= y
  BY <1>1 DEF Max
<1> QED BY <1>2

LEMMA MinNat ==
  ASSUME NEW S \in SUBSET Nat, S # {}
  PROVE  Min(S) \in S /\ \A y \in S : Min(S) <= y
<1>1. \E x \in S : \A y \in S : x <= y
  BY Least
<1> QED BY <1>1, Zenon DEF Min

LEMMA Quotient ==
  ASSUME NEW a \in Nat, NEW b \in Nat \ {0}
  PROVE  a \div b \in Nat
OBVIOUS

LEMMA Product ==
  ASSUME NEW a \in Nat, NEW b \in Nat
  PROVE  a * b \in Nat
OBVIOUS

Amounts == [Seqs -> Nat]
SumOf(n, S) == MapThenSumSet(LAMBDA r : n[r], S)

LEMMA SumOfKeeps ==
  ASSUME layout \in Layouts, NEW n \in Amounts, NEW S0 \in SUBSET Seqs
  PROVE  SumOf(n, S0) \in Nat
<1> DEFINE pick(u) == CHOOSE y \in u : TRUE
           S == S0
           base == 0
           does(i, x) == n[i] + x
           ch == [u \in SUBSET S |-> pick(u)]
           P == [u \in SUBSET S |-> Nat]
           step == [z \in S \X Nat |-> does(z[1], z[2])]
           value(u, f) == IF u = {} THEN base ELSE does(pick(u), f[u \ {pick(u)}])
           Solves(f) == f = [u \in SUBSET S |-> value(u, f)]
           iter == CHOOSE f : Solves(f)
<1>1. SumOf(n, S0) = iter[S]
  BY DEF SumOf, FoldSet, MapThenFoldSet, MapThenSumSet
<1>2. IsFiniteSet(S) /\ \A u \in SUBSET S : u # {} => pick(u) \in u
  BY LayoutFacts, FS_Subset
<1>3. base \in P[{}]
  OBVIOUS
<1>4. ASSUME NEW u \in SUBSET S, u # {}, NEW x \in P[u \ {pick(u)}]
      PROVE  does(pick(u), x) \in P[u] /\ pick(u) \in S /\ x \in Nat
  <2> DEFINE i == pick(u)
             e == does(i, x)
  <2>1. i \in u /\ i \in S /\ u \in SUBSET S /\ u \ {i} \in SUBSET S
    BY <1>2, <1>4
  <2>2. x \in Nat
    BY <2>1
  <2> HIDE DEF i, P, ch, pick, S, base
  <2>3. e \in Nat
    <3>1. n[i] \in Nat
      BY <2>1 DEF S, Amounts
    <3> QED BY <2>2, <3>1
  <2> QED BY <2>1, <2>2, <2>3 DEF P, i
<1> HIDE DEF pick, does, P, S, base
<1>5. \E f : Solves(f)
  <2>1. FoldsIn(S, ch, P, base, step)
    BY <1>2, <1>3, <1>4, Zenon DEF FoldsIn
  <2>2. PICK f : TakesFold(S, ch, P, base, step, f)
    BY <2>1, FoldExists, Zenon
  <2>3. ASSUME NEW u \in SUBSET S PROVE f[u] = value(u, f)
    BY <1>4, <2>2, Zenon DEF TakesFold
  <2>4. f = [u \in SUBSET S |-> f[u]]
    BY <2>2 DEF TakesFold
  <2> HIDE DEF value
  <2> QED BY <2>3, <2>4, Zenon
<1>6. iter[S] \in P[S]
  <2>1. Solves(iter)
    <3> HIDE DEF Solves
    <3> QED BY <1>5
  <2> HIDE DEF iter
  <2>2. \A u \in SUBSET S : iter[u] = value(u, iter)
    <3> HIDE DEF value
    <3> QED BY <2>1
  <2>3. KeepsFold(S, ch, P, iter)
    BY <1>2, <1>3, <1>4, <2>2, Zenon DEF KeepsFold
  <2> QED BY <2>3, FoldKeeps
<1> QED BY <1>1, <1>6 DEF P, S

LEMMA SplitSimple ==
  ASSUME layout \in Layouts, NEW n \in Amounts
  PROVE  split_simple(n) \in Amounts /\ \A s \in Seqs : split_simple(n)[s] <= n[s]
<1> SUFFICES ASSUME NEW s \in Seqs
             PROVE  split_simple(n)[s] \in Nat /\ split_simple(n)[s] <= n[s]
  BY Zenon DEF split_simple, Amounts
<1> DEFINE sum == SumOf(n, {r \in Seqs : r < s})
           a == Min({n[s], layout.ubatch - sum})
<1>1. sum \in Nat /\ layout.ubatch \in Nat /\ n[s] \in Nat
  BY SumOfKeeps, LayoutAssumption DEF Amounts
<1>2. split_simple(n)[s] = Max({0, a})
  BY DEF split_simple, SumOf, MapThenSumSet, MapThenFoldSet
<1> HIDE DEF sum
<1>3. a \in Int /\ a <= n[s]
  <2>1. layout.ubatch - sum \in Int /\ n[s] \in Int
    BY <1>1
  <2> QED BY <2>1, MinPair, Zenon
<1> HIDE DEF a
<1>4. Max({0, a}) \in {0, a} /\ Max({0, a}) >= 0
  <2>1. 0 \in Int /\ a \in Int
    BY <1>3
  <2> QED BY <2>1, MaxPair, Zenon
<1> QED BY <1>1, <1>2, <1>3, <1>4

LEMMA SplitEqual ==
  ASSUME layout \in Layouts, NEW n \in Amounts, ~\A s \in Seqs : n[s] = 0
  PROVE  split_equal(n) \in Amounts /\ \A s \in Seqs : split_equal(n)[s] <= n[s]
<1> DEFINE some0 == {s \in Seqs : n[s] > 0}
           first == Min(some0)
           some == {s \in Seqs : s >= first /\ \A r \in first..s : r \in Seqs /\ n[r] > 0}
           all == {layout.ubatch \div Cardinality(some)} \cup {n[s] : s \in some}
           most == Min(all)
<1>1. split_equal(n) = [s \in Seqs |-> IF s \in some THEN most ELSE 0]
  BY DEF split_equal
<1>2. Seqs \in SUBSET Nat /\ IsFiniteSet(Seqs) /\ \A s \in Seqs : n[s] \in Nat
  BY LayoutFacts DEF Amounts
<1>3. first \in some0
  <2>1. some0 \in SUBSET Nat
    BY <1>2, Zenon
  <2>2. some0 # {}
    <3>1. PICK s \in Seqs : n[s] # 0
      OBVIOUS
    <3>2. n[s] > 0
      BY <1>2, <3>1
    <3> QED BY <3>2
  <2> HIDE DEF some0
  <2> QED BY <2>1, <2>2, MinNat
<1>4. first \in some
  <2>1. first \in Nat /\ first \in Seqs /\ n[first] > 0
    BY <1>2, <1>3, Zenon
  <2> HIDE DEF first
  <2>2. \A r \in first..first : r = first
    BY <2>1
  <2> QED BY <2>1, <2>2
<1>5. some \in SUBSET Seqs
  OBVIOUS
<1> HIDE DEF first, some0, some
<1>6. Cardinality(some) \in Nat \ {0}
  BY <1>2, <1>4, <1>5, FS_Subset, FS_CardinalityType, FS_EmptySet, Zenon
<1>7. all \in SUBSET Nat /\ all # {}
  <2>1. layout.ubatch \in Nat
    BY LayoutAssumption
  <2>2. layout.ubatch \div Cardinality(some) \in Nat
    BY <1>6, <2>1, Quotient
  <2> QED BY <1>2, <1>5, <2>2
<1>8. most \in Nat /\ \A s \in some : most <= n[s]
  <2>1. \A s \in some : n[s] \in all
    OBVIOUS
  <2> HIDE DEF all
  <2> QED BY <1>7, <2>1, MinNat, Zenon
<1> HIDE DEF most
<1> QED BY <1>1, <1>2, <1>5, <1>8 DEF Amounts

TokenKey(x) == x.seq * (MaxPos + 1) + x.pos
ByKey(S) == [k \in 1..Cardinality(S) |-> CHOOSE x \in S : Cardinality({y \in S : TokenKey(y) < TokenKey(x)}) = k - 1]

LEMMA KeysDiffer ==
  ASSUME NEW M \in Nat, NEW a \in Nat, NEW b \in Nat, NEW p \in 0..M, NEW q \in 0..M, a < b
  PROVE  a * (M + 1) + p < b * (M + 1) + q
<1> DEFINE c == b - (a + 1)
<1>1. c \in Nat /\ b = a + 1 + c
  OBVIOUS
<1> HIDE DEF c
<1>2. b * (M + 1) = a * (M + 1) + (M + 1) + c * (M + 1)
  BY <1>1
<1>3. c * (M + 1) \in Nat /\ a * (M + 1) \in Nat /\ b * (M + 1) \in Nat
  BY <1>1, Product
<1> QED BY <1>2, <1>3

LEMMA TokenKeys ==
  ASSUME layout \in Layouts, NEW x \in Token, NEW y \in Token
  PROVE  TokenKey(x) \in Nat /\ (TokenKey(x) = TokenKey(y) => x = y)
<1>1. MaxPos \in Nat /\ Pos = 0..MaxPos /\ Seqs \in SUBSET Nat
  BY LayoutFacts
<1>2. x.seq \in Nat /\ y.seq \in Nat /\ x.pos \in 0..MaxPos /\ y.pos \in 0..MaxPos
  BY <1>1, Zenon DEF Token
<1>3. x.seq * (MaxPos + 1) \in Nat /\ y.seq * (MaxPos + 1) \in Nat
  BY <1>1, <1>2, Product
<1>4. TokenKey(x) \in Nat /\ TokenKey(y) \in Nat
  BY <1>2, <1>3 DEF TokenKey
<1>5. x.seq < y.seq => TokenKey(x) < TokenKey(y)
  BY <1>1, <1>2, KeysDiffer, Zenon DEF TokenKey
<1>6. y.seq < x.seq => TokenKey(y) < TokenKey(x)
  BY <1>1, <1>2, KeysDiffer, Zenon DEF TokenKey
<1>7. ASSUME TokenKey(x) = TokenKey(y) PROVE x = y
  <2>1. x.seq = y.seq
    BY <1>2, <1>4, <1>5, <1>6, <1>7
  <2>2. x.pos = y.pos
    BY <1>2, <1>3, <1>7, <2>1 DEF TokenKey
  <2> QED BY <2>1, <2>2 DEF Token
<1> QED BY <1>4, <1>7

LEMMA TokensFinite ==
  ASSUME layout \in Layouts
  PROVE  IsFiniteSet(Token)
<1> DEFINE D == Seqs \X Pos
           img == {[seq |-> z[1], pos |-> z[2]] : z \in D}
<1>1. IsFiniteSet(Seqs) /\ IsFiniteSet(Pos)
  <2>1. MaxPos \in Int /\ Pos = 0..MaxPos
    BY LayoutFacts
  <2> QED BY <2>1, LayoutFacts, FS_Interval
<1>2. IsFiniteSet(D)
  BY <1>1, FS_Product
<1>3. IsFiniteSet(img)
  <2> DEFINE f == [z \in D |-> [seq |-> z[1], pos |-> z[2]]]
  <2>1. img = {f[z] : z \in D}
    OBVIOUS
  <2>2. f \in Surjection(D, img)
    BY Zenon DEF Surjection
  <2> HIDE DEF f, D, img
  <2> QED BY <1>2, <2>2, FS_Surjection
<1>4. Token \subseteq img
  <2> SUFFICES ASSUME NEW x \in Token PROVE x \in img
    OBVIOUS
  <2>1. <<x.seq, x.pos>> \in D /\ x = [seq |-> x.seq, pos |-> x.pos]
    BY DEF Token
  <2> QED BY <2>1
<1> HIDE DEF img
<1> QED BY <1>3, <1>4, FS_Subset

\* Each token comes once in the order of the keys.
LEMMA ByKeyType ==
  ASSUME layout \in Layouts, NEW S \in SUBSET Token
  PROVE  ByKey(S) \in Seq(Token) /\ Enumerates(ByKey(S), S)
<1> DEFINE key == [x \in S |-> TokenKey(x)]
           f == ByKey(S)
<1>1. IsFiniteSet(S) /\ Cardinality(S) \in Nat
  BY TokensFinite, FS_Subset, FS_CardinalityType
<1>2. Keyed(S, key)
  BY <1>1, TokenKeys DEF Keyed
<1>3. \A x \in S : {y \in S : key[y] < key[x]} = {y \in S : TokenKey(y) < TokenKey(x)}
  OBVIOUS
<1> HIDE DEF key
<1>4. ASSUME NEW k \in 1..Cardinality(S)
      PROVE  f[k] \in S /\ Cardinality({y \in S : key[y] < key[f[k]]}) = k - 1
  <2>1. \E x \in S : Cardinality({y \in S : TokenKey(y) < TokenKey(x)}) = k - 1
    <3>1. RankIsHeld(S, key, k)
      BY <1>2, RankHeld
    <3>2. PICK x \in S : Cardinality({y \in S : key[y] < key[x]}) = k - 1
      BY <3>1, Zenon DEF RankIsHeld
    <3> QED BY <1>3, <3>2, Zenon
  <2>2. f[k] = CHOOSE x \in S : Cardinality({y \in S : TokenKey(y) < TokenKey(x)}) = k - 1
    BY Zenon DEF ByKey
  <2> HIDE DEF f
  <2>3. f[k] \in S /\ Cardinality({y \in S : TokenKey(y) < TokenKey(f[k])}) = k - 1
    BY <2>1, <2>2, Zenon
  <2> QED BY <1>3, <2>3
<1>5. f = [k \in 1..Cardinality(S) |-> f[k]]
  <2> DEFINE g(k) == CHOOSE x \in S : Cardinality({y \in S : TokenKey(y) < TokenKey(x)}) = k - 1
  <2>1. f = [k \in 1..Cardinality(S) |-> g(k)]
    BY DEF ByKey
  <2> HIDE DEF f, g
  <2> QED BY <2>1
<1> HIDE DEF f
<1>6. Ranked(f, S, key)
  BY <1>4, <1>5 DEF Ranked
<1>7. Enumerates(f, S)
  BY <1>2, <1>6, RankedEnumerates
<1>8. f \in Seq(Token)
  BY <1>1, <1>7 DEF Enumerates
<1> QED BY <1>7, <1>8 DEF f

\* The tokens of a stream in an ubatch, and how a batch is cut on.
TokensOf(next, m, d) ==
  ByKey(UNION {{[seq |-> s, pos |-> next[s] + k - 1] : k \in 1..m[s]} : s \in {s \in Seqs : stream(s) = d}})

Share(left) == IF layout.unified THEN split_simple(left) ELSE split_equal(left)

CutOn(c) ==
  IF \A s \in Seqs : c.left[s] = 0 THEN c
  ELSE [next |-> [s \in Seqs |-> c.next[s] + Share(c.left)[s]],
        left |-> [s \in Seqs |-> c.left[s] - Share(c.left)[s]],
        ubs  |-> Append(c.ubs, [d \in Streams |-> TokensOf(c.next, Share(c.left), d)])]

\* What is left of a batch goes to positions the cache has.
InBounds(next, left) == \A s \in Seqs : left[s] = 0 \/ next[s] + left[s] <= MaxPos + 1
Cuttings == {c \in [next : Amounts, left : Amounts, ubs : Seq(Ubatch)] : InBounds(c.next, c.left)}

\* The tokens m[s] of each sequence s of stream d.
Segment(next, m, s) == {[seq |-> s, pos |-> next[s] + k - 1] : k \in 1..m[s]}
Segments(next, m, d) == UNION {Segment(next, m, s) : s \in {s \in Seqs : stream(s) = d}}

LEMMA TokensOfType ==
  ASSUME layout \in Layouts, NEW next \in Amounts, NEW m \in Amounts, InBounds(next, m), NEW d
  PROVE  /\ Segments(next, m, d) \in SUBSET Token
         /\ TokensOf(next, m, d) \in Seq(Token)
         /\ Enumerates(TokensOf(next, m, d), Segments(next, m, d))
<1> DEFINE S == UNION {{[seq |-> s, pos |-> next[s] + k - 1] : k \in 1..m[s]} : s \in {s \in Seqs : stream(s) = d}}
<1>1. S \in SUBSET Token
  <2> SUFFICES ASSUME NEW s \in Seqs, NEW k \in 1..m[s] PROVE [seq |-> s, pos |-> next[s] + k - 1] \in Token
    OBVIOUS
  <2>1. next[s] \in Nat /\ m[s] \in Nat /\ next[s] + m[s] <= MaxPos + 1 /\ MaxPos \in Nat /\ Pos = 0..MaxPos
    BY LayoutFacts DEF Amounts, InBounds
  <2>2. next[s] + k - 1 \in Pos
    BY <2>1
  <2> QED BY <2>2 DEF Token
<1> HIDE DEF S
<1>2. ByKey(S) \in Seq(Token) /\ Enumerates(ByKey(S), S)
  BY <1>1, ByKeyType
<1>3. TokensOf(next, m, d) = ByKey(S) /\ Segments(next, m, d) = S
  BY DEF TokensOf, Segments, Segment, S
<1> QED BY <1>1, <1>2, <1>3

\* Where each sequence stands before and after the ubatches of a batch.
Onward(next, m) == [s \in Seqs |-> next[s] + m[s]]
IsCut(x, y, ub) ==
  \E m \in Amounts : /\ InBounds(x, m) /\ y = Onward(x, m)
                     /\ ub = [d \in Streams |-> TokensOf(x, m, d)]
Plans(nx, ubs, first, n) ==
  /\ nx \in [0..Len(ubs) -> Amounts] /\ nx[0] = first
  /\ \A j \in 1..Len(ubs) : IsCut(nx[j - 1], nx[j], ubs[j])
  /\ \A j \in 0..Len(ubs) : \A s \in Seqs : nx[j][s] <= first[s] + n[s]
Planned(ubs, first, n) == \E nx : Plans(nx, ubs, first, n)
Planning(c, first, n) ==
  /\ \A s \in Seqs : c.next[s] + c.left[s] = first[s] + n[s]
  /\ \E nx : Plans(nx, c.ubs, first, n) /\ nx[Len(c.ubs)] = c.next

\* One more ubatch.
LEMMA PlanOn ==
  ASSUME NEW ubs \in Seq(Ubatch), NEW first, NEW n, NEW nx, Plans(nx, ubs, first, n),
         NEW ub \in Ubatch, NEW y \in Amounts, IsCut(nx[Len(ubs)], y, ub),
         \A s \in Seqs : y[s] <= first[s] + n[s]
  PROVE  \E ny : Plans(ny, Append(ubs, ub), first, n) /\ ny[Len(Append(ubs, ub))] = y
<1> DEFINE K == Len(ubs)
           vbs == Append(ubs, ub)
           ny == [j \in 0 .. K + 1 |-> IF j = K + 1 THEN y ELSE nx[j]]
<1>1. K \in Nat /\ Len(vbs) = K + 1 /\ (\A j \in 1..K : vbs[j] = ubs[j]) /\ vbs[K + 1] = ub
  BY LenProperties, AppendProperties
<1>2. nx \in [0..K -> Amounts] /\ nx[0] = first
  BY DEF Plans
<1> HIDE DEF vbs
<1>3. \A j \in 0..K + 1 : j = K + 1 \/ j \in 0..K
  BY <1>1
<1>4. ny \in [0..K + 1 -> Amounts]
  BY <1>2, <1>3
<1>5. ny[K + 1] = y /\ \A j \in 0..K : ny[j] = nx[j]
  BY <1>1
<1> HIDE DEF ny
<1>6. ASSUME NEW j \in 1..K + 1 PROVE IsCut(ny[j - 1], ny[j], vbs[j])
  <2>1. CASE j = K + 1
    <3>1. j - 1 = K /\ K \in 0..K
      BY <1>1, <2>1
    <3> QED BY <1>1, <1>5, <2>1, <3>1
  <2>2. CASE j # K + 1
    <3>1. j \in 1..K /\ j \in 0..K /\ j - 1 \in 0..K
      BY <1>1, <2>2
    <3>2. IsCut(nx[j - 1], nx[j], ubs[j])
      BY <3>1 DEF Plans
    <3> QED BY <1>1, <1>5, <3>1, <3>2
  <2> QED BY <2>1, <2>2
<1>7. ASSUME NEW j \in 0..K + 1, NEW s \in Seqs PROVE ny[j][s] <= first[s] + n[s]
  <2>1. CASE j = K + 1
    BY <1>5, <2>1
  <2>2. CASE j \in 0..K
    BY <1>5, <2>2 DEF Plans
  <2> QED BY <1>3, <2>1, <2>2
<1>8. ny[0] = first
  BY <1>1, <1>2, <1>5
<1>9. Plans(ny, vbs, first, n)
  BY <1>1, <1>4, <1>6, <1>7, <1>8 DEF Plans
<1>10. ny[Len(vbs)] = y
  BY <1>1, <1>5
<1> QED BY <1>9, <1>10 DEF vbs

LEMMA CutOnKeeps ==
  ASSUME layout \in Layouts, NEW c \in Cuttings, NEW first \in Amounts, NEW n \in Amounts, Planning(c, first, n)
  PROVE  CutOn(c) \in Cuttings /\ Planning(CutOn(c), first, n)
<1>1. c.next \in Amounts /\ c.left \in Amounts /\ c.ubs \in Seq(Ubatch) /\ InBounds(c.next, c.left)
  BY DEF Cuttings
<1>2. CASE \A s \in Seqs : c.left[s] = 0
  BY <1>2 DEF CutOn
<1>3. CASE ~\A s \in Seqs : c.left[s] = 0
  <2> DEFINE m == Share(c.left)
             next == [s \in Seqs |-> c.next[s] + m[s]]
             left == [s \in Seqs |-> c.left[s] - m[s]]
             ub == [d \in Streams |-> TokensOf(c.next, m, d)]
  <2>1. m \in Amounts /\ \A s \in Seqs : m[s] <= c.left[s]
    BY <1>1, <1>3, SplitSimple, SplitEqual DEF Share
  <2>2. CutOn(c) = [next |-> next, left |-> left, ubs |-> Append(c.ubs, ub)]
    BY <1>3 DEF CutOn
  <2> HIDE DEF m
  <2>3. \A s \in Seqs : c.next[s] \in Nat /\ c.left[s] \in Nat /\ m[s] \in Nat
    BY <1>1, <2>1 DEF Amounts
  <2>4. next \in Amounts /\ left \in Amounts
    BY <2>1, <2>3 DEF Amounts
  <2>5. InBounds(next, left)
    BY <1>1, <2>1, <2>3 DEF InBounds
  <2>6. InBounds(c.next, m)
    <3>1. MaxPos \in Nat
      BY LayoutFacts
    <3> QED BY <1>1, <2>1, <2>3, <3>1 DEF InBounds
  <2>7. ub \in Ubatch
    BY <1>1, <2>1, <2>6, TokensOfType DEF Ubatch
  <2>8. IsCut(c.next, next, ub)
    BY <2>1, <2>6 DEF IsCut, Onward
  <2>9. \A s \in Seqs : next[s] + left[s] = first[s] + n[s] /\ next[s] <= first[s] + n[s]
    <3> SUFFICES ASSUME NEW s \in Seqs
                 PROVE  next[s] + left[s] = first[s] + n[s] /\ next[s] <= first[s] + n[s]
      OBVIOUS
    <3>1. c.next[s] + c.left[s] = first[s] + n[s] /\ first[s] \in Nat /\ n[s] \in Nat
      BY DEF Planning, Amounts
    <3> QED BY <2>1, <2>3, <3>1
  <2> HIDE DEF next, left, ub
  <2>10. Append(c.ubs, ub) \in Seq(Ubatch)
    BY <1>1, <2>7, AppendProperties
  <2>11. PICK nx : Plans(nx, c.ubs, first, n) /\ nx[Len(c.ubs)] = c.next
    BY DEF Planning
  <2>12. \E ny : Plans(ny, Append(c.ubs, ub), first, n) /\ ny[Len(Append(c.ubs, ub))] = next
    BY <1>1, <2>4, <2>7, <2>8, <2>9, <2>11, PlanOn
  <2>13. Planning([next |-> next, left |-> left, ubs |-> Append(c.ubs, ub)], first, n)
    BY <2>9, <2>12 DEF Planning
  <2>14. [next |-> next, left |-> left, ubs |-> Append(c.ubs, ub)] \in Cuttings
    BY <2>4, <2>5, <2>10 DEF Cuttings
  <2> QED BY <2>2, <2>13, <2>14
<1> QED BY <1>2, <1>3

LEMMA UbatchesKeeps ==
  ASSUME layout \in Layouts, NEW first \in Amounts, NEW n \in Amounts, InBounds(first, n)
  PROVE  Ubatches(first, n) \in Seq(Ubatch) /\ Planned(Ubatches(first, n), first, n)
<1> DEFINE N == layout.batch * Cardinality(Seqs)
           base == [next |-> first, left |-> n, ubs |-> <<>>]
           does(k, x) == CutOn(x)
           P == [k \in 0..N |-> {e \in Cuttings : Planning(e, first, n)}]
           step == [z \in (1..N) \X Cuttings |-> does(z[1], z[2])]
           value(k, f) == IF k = 0 THEN base ELSE does(k, f[k - 1])
           Solves(f) == f = [k \in 0..N |-> value(k, f)]
           iter == CHOOSE f : Solves(f)
<1>1. Ubatches(first, n) = iter[N].ubs
  BY DEF Ubatches, CutOn, Share, TokensOf, ByKey, TokenKey, InOrder
<1>2. N \in Nat
  <2>1. layout.batch \in Nat /\ Cardinality(Seqs) \in Nat
    BY LayoutAssumption, SeqAssumption, FS_CardinalityType
  <2> QED BY <2>1, Product
<1>3. base \in P[0]
  <2>1. base \in Cuttings
    BY EmptySeq DEF Cuttings
  <2>2. Planning(base, first, n)
    <3> DEFINE nx == [j \in 0..0 |-> first]
    <3>1. Len(<<>>) = 0
      BY EmptySeq
    <3>2. \A s \in Seqs : first[s] \in Nat /\ n[s] \in Nat
      BY DEF Amounts
    <3>3. \A s \in Seqs : first[s] <= first[s] + n[s]
      BY <3>2
    <3>4. nx \in [0..0 -> Amounts] /\ \A j \in 0..0 : nx[j] = first
      OBVIOUS
    <3> HIDE DEF nx
    <3>5. Plans(nx, <<>>, first, n) /\ nx[Len(<<>>)] = first
      BY <3>1, <3>3, <3>4 DEF Plans
    <3> QED BY <3>5 DEF Planning
  <2> QED BY <1>2, <2>1, <2>2
<1>4. ASSUME NEW k \in 1..N, NEW x \in P[k - 1] PROVE does(k, x) \in P[k] /\ x \in Cuttings
  <2> DEFINE e == does(k, x)
  <2>1. k \in 1..N /\ k - 1 \in 0..N /\ k \in 0..N
    BY <1>2
  <2>2. x \in Cuttings /\ Planning(x, first, n)
    BY <2>1
  <2> HIDE DEF P, base
  <2>3. e \in Cuttings /\ Planning(e, first, n)
    BY <2>2, CutOnKeeps
  <2> QED BY <2>1, <2>2, <2>3 DEF P
<1> HIDE DEF does, P, N, base
<1>5. \E f : Solves(f)
  <2>1. StepsIn(N, P, base, step)
    BY <1>2, <1>3, <1>4 DEF StepsIn
  <2>2. PICK f : TakesSteps(N, P, base, step, f)
    BY <2>1, StepsExist
  <2>3. ASSUME NEW k \in 0..N PROVE f[k] = value(k, f)
    <3>1. CASE k = 0
      BY <2>2, <3>1 DEF TakesSteps
    <3>2. CASE k # 0
      <4>1. k \in 1..N
        BY <1>2, <3>2
      <4>2. f[k - 1] \in P[k - 1] /\ f[k] = step[<<k, f[k - 1]>>]
        BY <2>2, <4>1, Zenon DEF TakesSteps
      <4>3. f[k - 1] \in Cuttings
        BY <1>4, <4>1, <4>2
      <4> QED BY <3>2, <4>1, <4>2, <4>3
    <3> QED BY <3>1, <3>2
  <2>4. f = [k \in 0..N |-> f[k]]
    BY <2>2 DEF TakesSteps
  <2> HIDE DEF value
  <2> QED BY <2>3, <2>4
<1>6. \A k \in 0..N : iter[k] \in P[k]
  <2>1. Solves(iter)
    <3> HIDE DEF Solves
    <3> QED BY <1>5
  <2> HIDE DEF iter
  <2>2. \A k \in 0..N : iter[k] = value(k, iter)
    <3> HIDE DEF value
    <3> QED BY <2>1, Zenon
  <2>3. 0 \in 0..N /\ \A k \in 1..N : k \in 0..N /\ k # 0
    BY <1>2
  <2>4. iter[0] = base /\ \A k \in 1..N : iter[k] = does(k, iter[k - 1])
    BY <2>2, <2>3
  <2>5. KeepsIn(N, P, iter)
    BY <1>2, <1>3, <1>4, <2>4 DEF KeepsIn
  <2> QED BY <2>5, StepsKeep
<1>7. iter[N] \in P[N] /\ N \in 0..N
  BY <1>2, <1>6
<1> HIDE DEF iter
<1>8. iter[N] \in Cuttings /\ Planning(iter[N], first, n)
  BY <1>7 DEF P
<1>9. iter[N].ubs \in Seq(Ubatch) /\ Planned(iter[N].ubs, first, n)
  BY <1>8 DEF Cuttings, Planning, Planned
<1> QED BY <1>1, <1>9

-----------------------------------------------------------------------------
(* Placing the ubatches, on trial and for good.                            *)

Trials == [ok : BOOLEAN, v : Stills, past : Seq(Stills), slots : Seq(SlotMaps)]

\* Slots are found for ubatches in their order, for all of them if ok.
Fitting(ubs, slots) ==
  Len(slots) <= Len(ubs) /\ \A j \in 1..Len(slots) : Fills(slots[j], ubs[j])
Tried(t, ubs, k) ==
  /\ Len(t.past) = Len(t.slots) /\ Len(t.slots) <= k
  /\ t.ok => Len(t.slots) = k
  /\ Fitting(ubs, t.slots)

TryOn(t, ub) ==
  LET slot == Slots(t.v, ub)
  IN IF ~t.ok \/ \E d \in Asked(ub) : slot[d] = <<>>
     THEN [t EXCEPT !.ok = FALSE]
     ELSE [ok |-> TRUE, v |-> Apply(t.v, ub, slot), past |-> Append(t.past, t.v), slots |-> Append(t.slots, slot)]

LEMMA TryOnKeeps ==
  ASSUME layout \in Layouts, NEW ubs \in Seq(Ubatch), NEW k \in 1..Len(ubs),
         NEW t \in Trials, Tried(t, ubs, k - 1)
  PROVE  TryOn(t, ubs[k]) \in Trials /\ Tried(TryOn(t, ubs[k]), ubs, k)
<1> DEFINE ub == ubs[k]
           slot == Slots(t.v, ub)
           e == TryOn(t, ub)
<1>1. ub \in Ubatch /\ t.v \in Stills /\ t.v \in Caches /\ k \in Nat /\ Len(ubs) \in Nat
  BY ElementOfSeq, LenProperties DEF Trials, Stills
<1>2. t.past \in Seq(Stills) /\ t.slots \in Seq(SlotMaps) /\ Len(t.slots) \in Nat /\ t.ok \in BOOLEAN
  BY LenProperties DEF Trials
<1>3. slot \in SlotMaps /\ ((\A d \in Asked(ub) : slot[d] # <<>>) => Fills(slot, ub))
  BY <1>1, SlotsType
<1> HIDE DEF slot, ub
<1>4. CASE ~t.ok \/ \E d \in Asked(ub) : slot[d] = <<>>
  <2>1. e = [t EXCEPT !.ok = FALSE]
    BY <1>4 DEF TryOn, slot
  <2> HIDE DEF e
  <2>2. t = [ok |-> t.ok, v |-> t.v, past |-> t.past, slots |-> t.slots]
    BY DEF Trials
  <2>3. e = [ok |-> FALSE, v |-> t.v, past |-> t.past, slots |-> t.slots]
    BY <2>1, <2>2, Zenon
  <2>4. e \in Trials
    BY <1>1, <1>2, <2>3 DEF Trials
  <2>5. Tried(e, ubs, k)
    BY <1>1, <1>2, <2>3 DEF Tried
  <2> QED BY <2>4, <2>5 DEF e, ub
<1>5. CASE ~(~t.ok \/ \E d \in Asked(ub) : slot[d] = <<>>)
  <2> DEFINE w == Apply(t.v, ub, slot)
             past == Append(t.past, t.v)
             slots == Append(t.slots, slot)
  <2>1. e = [ok |-> TRUE, v |-> w, past |-> past, slots |-> slots]
    BY <1>5 DEF TryOn, slot
  <2>2. Fills(slot, ub)
    BY <1>3, <1>5
  <2>3. w \in Caches /\ (Still1(t.v) => Still1(w))
    BY <1>1, <1>3, <2>2, ApplyKeeps
  <2>4. past \in Seq(Stills) /\ Len(past) = Len(t.past) + 1
    BY <1>1, <1>2, AppendProperties
  <2>5. /\ slots \in Seq(SlotMaps) /\ Len(slots) = Len(t.slots) + 1
        /\ \A j \in 1..Len(t.slots) : slots[j] = t.slots[j]
        /\ slots[Len(t.slots) + 1] = slot
    BY <1>2, <1>3, AppendProperties
  <2> HIDE DEF w, past, slots, e
  <2>6. w \in Stills
    BY <1>1, <2>3 DEF Stills
  <2>7. e \in Trials
    BY <2>1, <2>4, <2>5, <2>6 DEF Trials
  <2>8. Len(t.slots) = k - 1
    BY <1>5 DEF Tried
  <2>9. Fitting(ubs, slots)
    <3>1. Len(slots) = k /\ slots[k] = slot /\ Fills(slots[k], ubs[k])
      BY <1>1, <2>2, <2>5, <2>8 DEF ub
    <3>2. \A j \in 1..Len(slots) : j = k \/ j \in 1..Len(t.slots)
      BY <1>1, <2>8, <3>1
    <3> QED BY <1>1, <2>5, <3>1, <3>2 DEF Fitting, Tried
  <2>10. Tried(e, ubs, k)
    BY <1>1, <2>1, <2>4, <2>5, <2>8, <2>9 DEF Tried
  <2> QED BY <2>7, <2>10 DEF e, ub
<1> QED BY <1>4, <1>5

\* From w[0] on, each ubatch goes to free cells of its slot.
Leads(w, ubs, slots, k) ==
  \A j \in 1..k : FreeSlot(w[j - 1], slots[j]) /\ AllFilled(w[j - 1], w[j], ubs[j], slots[j])
\* What a trial went through, and where it stopped.
Path(t) == [j \in 0..Len(t.past) |-> IF j = Len(t.past) THEN t.v ELSE t.past[j + 1]]
StopsAt(x, ubs, k) == k < Len(ubs) /\ TooFew(x, ubs[k + 1])
Traced(t, vs, ubs) ==
  /\ Path(t)[0] = vs
  /\ Leads(Path(t), ubs, t.slots, Len(t.slots))
  /\ ~t.ok => StopsAt(t.v, ubs, Len(t.slots))

LEMMA TryOnTraces ==
  ASSUME layout \in Layouts, layout.window = 0, NEW vs, NEW ubs \in Seq(Ubatch), NEW k \in 1..Len(ubs),
         NEW t \in Trials, Tried(t, ubs, k - 1), Traced(t, vs, ubs)
  PROVE  Traced(TryOn(t, ubs[k]), vs, ubs)
<1> DEFINE ub == ubs[k]
           slot == Slots(t.v, ub)
           e == TryOn(t, ub)
           K == Len(t.slots)
<1>1. ub \in Ubatch /\ t.v \in Caches /\ k \in Nat /\ Len(ubs) \in Nat /\ K \in Nat /\ Len(t.past) = K
  BY ElementOfSeq, LenProperties DEF Trials, Stills, Tried
<1>2. t.past \in Seq(Stills) /\ t.slots \in Seq(SlotMaps) /\ t.ok \in BOOLEAN
  BY DEF Trials
<1>3. /\ slot \in SlotMaps /\ FreeSlot(t.v, slot)
      /\ (\A d \in Asked(ub) : slot[d] # <<>>) => Fills(slot, ub)
      /\ (\E d \in Asked(ub) : slot[d] = <<>>) => TooFew(t.v, ub)
  BY <1>1, SlotsType
<1>4. t.ok => K = k - 1
  BY DEF Tried
<1> HIDE DEF slot
<1>5. CASE ~t.ok \/ \E d \in Asked(ub) : slot[d] = <<>>
  <2>1. e = [t EXCEPT !.ok = FALSE]
    BY <1>5 DEF TryOn, slot
  <2> HIDE DEF e
  <2>2. t = [ok |-> t.ok, v |-> t.v, past |-> t.past, slots |-> t.slots]
    BY DEF Trials
  <2>3. e = [ok |-> FALSE, v |-> t.v, past |-> t.past, slots |-> t.slots]
    BY <2>1, <2>2, Zenon
  <2>4. Path(e) = Path(t)
    BY <2>3 DEF Path
  <2>5. StopsAt(t.v, ubs, K)
    <3>1. CASE ~t.ok
      BY <3>1 DEF Traced
    <3>2. CASE t.ok
      <4>1. K < Len(ubs) /\ K + 1 = k
        BY <1>1, <1>4, <3>2
      <4>2. TooFew(t.v, ub)
        BY <1>3, <1>5, <3>2
      <4> QED BY <4>1, <4>2 DEF StopsAt
    <3> QED BY <1>2, <3>1, <3>2
  <2>6. e.slots = t.slots /\ e.v = t.v
    BY <2>3
  <2>7. Traced(e, vs, ubs)
    BY <2>4, <2>5, <2>6 DEF Traced
  <2> QED BY <2>7 DEF e
<1>6. CASE ~(~t.ok \/ \E d \in Asked(ub) : slot[d] = <<>>)
  <2> DEFINE w == Apply(t.v, ub, slot)
             past == Append(t.past, t.v)
             slots == Append(t.slots, slot)
  <2>1. e = [ok |-> TRUE, v |-> w, past |-> past, slots |-> slots]
    BY <1>6 DEF TryOn, slot
  <2>2. Fills(slot, ub)
    BY <1>3, <1>6
  <2>3. AllFilled(t.v, w, ub, slot)
    BY <1>1, <1>3, <2>2, ApplyKeeps
  <2>4. /\ Len(past) = K + 1 /\ past[K + 1] = t.v
        /\ \A j \in 1..K : past[j] = t.past[j]
    <3>1. t.v \in Stills
      BY DEF Trials
    <3> QED BY <1>1, <1>2, <3>1, AppendProperties
  <2>5. /\ Len(slots) = K + 1 /\ slots[K + 1] = slot
        /\ \A j \in 1..K : slots[j] = t.slots[j]
    BY <1>2, <1>3, AppendProperties
  <2> HIDE DEF w, past, slots, e
  <2>6. e.slots = slots /\ e.past = past /\ e.v = w /\ e.ok = TRUE
    BY <2>1
  <2> DEFINE f == Path(t)
             g == Path(e)
  <2>7. g[K + 1] = w
    <3>1. K + 1 \in 0..Len(e.past) /\ K + 1 = Len(e.past)
      BY <1>1, <2>4, <2>6
    <3> QED BY <2>6, <3>1 DEF Path
  <2>8. ASSUME NEW j \in 0..K PROVE g[j] = f[j]
    <3>1. j \in 0..Len(e.past) /\ j # Len(e.past) /\ j \in 0..Len(t.past)
      BY <1>1, <2>4, <2>6
    <3>2. g[j] = past[j + 1]
      BY <2>6, <3>1 DEF Path
    <3>3. CASE j = K
      <4>1. f[j] = t.v
        BY <1>1, <3>1, <3>3 DEF Path
      <4> QED BY <2>4, <3>2, <3>3, <4>1
    <3>4. CASE j # K
      <4>1. j + 1 \in 1..K
        BY <1>1, <3>4
      <4>2. f[j] = t.past[j + 1]
        BY <1>1, <3>1, <3>4 DEF Path
      <4> QED BY <2>4, <3>2, <4>1, <4>2
    <3> QED BY <3>3, <3>4
  <2>9. f[K] = t.v
    <3>1. K \in 0..Len(t.past) /\ K = Len(t.past)
      BY <1>1
    <3> QED BY <3>1 DEF Path
  <2>10. f[0] = vs /\ Leads(f, ubs, t.slots, K)
    BY DEF Traced
  <2> HIDE DEF f, g
  <2>11. K + 1 = k
    BY <1>1, <1>4, <1>6
  <2>12. ASSUME NEW j \in 1..K + 1
         PROVE  FreeSlot(g[j - 1], slots[j]) /\ AllFilled(g[j - 1], g[j], ubs[j], slots[j])
    <3>1. CASE j = K + 1
      <4>1. j - 1 = K /\ K \in 0..K
        BY <1>1, <3>1
      <4> QED BY <1>3, <2>3, <2>5, <2>7, <2>8, <2>9, <2>11, <3>1, <4>1, Zenon
    <3>2. CASE j # K + 1
      <4>1. j \in 1..K /\ j \in 0..K /\ j - 1 \in 0..K
        BY <1>1, <3>2
      <4>2. FreeSlot(f[j - 1], t.slots[j]) /\ AllFilled(f[j - 1], f[j], ubs[j], t.slots[j])
        BY <2>10, <4>1 DEF Leads
      <4> QED BY <2>5, <2>8, <4>1, <4>2, Zenon
    <3> QED BY <3>1, <3>2
  <2>13. Leads(g, ubs, slots, Len(slots))
    BY <2>5, <2>12 DEF Leads
  <2>14. g[0] = vs
    BY <1>1, <2>8, <2>10
  <2>15. Traced(e, vs, ubs)
    BY <2>6, <2>13, <2>14 DEF Traced, g
  <2> QED BY <2>15 DEF e
<1> QED BY <1>5, <1>6

LEMMA TrialKeeps ==
  ASSUME layout \in Layouts, NEW vs \in Stills, NEW ubs \in Seq(Ubatch)
  PROVE  /\ Trial(vs, ubs) \in Trials /\ Tried(Trial(vs, ubs), ubs, Len(ubs))
         /\ layout.window = 0 => Traced(Trial(vs, ubs), vs, ubs)
<1> DEFINE N == Len(ubs)
           base == [ok |-> TRUE, v |-> vs, past |-> <<>>, slots |-> <<>>]
           does(k, x) == TryOn(x, ubs[k])
           P == [k \in 0..N |-> {e \in Trials : Tried(e, ubs, k) /\ (layout.window = 0 => Traced(e, vs, ubs))}]
           step == [z \in (1..N) \X Trials |-> does(z[1], z[2])]
           value(k, f) == IF k = 0 THEN base ELSE does(k, f[k - 1])
           Solves(f) == f = [k \in 0..N |-> value(k, f)]
           iter == CHOOSE f : Solves(f)
<1>1. Trial(vs, ubs) = iter[N]
  BY DEF Trial, TryOn
<1>2. N \in Nat
  BY LenProperties
<1>3. base \in P[0]
  <2>1. base \in Trials
    BY EmptySeq DEF Trials
  <2>2. Tried(base, ubs, 0)
    <3>1. Len(base.past) = 0 /\ Len(base.slots) = 0 /\ Len(ubs) \in Nat
      BY EmptySeq, LenProperties
    <3> HIDE DEF base
    <3> QED BY <3>1 DEF Tried, Fitting
  <2>3. Traced(base, vs, ubs)
    <3>1. base.past = <<>> /\ base.slots = <<>> /\ base.v = vs /\ base.ok /\ Len(<<>>) = 0
      BY EmptySeq
    <3> HIDE DEF base
    <3>2. Path(base)[0] = vs
      BY <3>1 DEF Path
    <3> QED BY <3>1, <3>2 DEF Traced, Leads
  <2> QED BY <1>2, <2>1, <2>2, <2>3
<1>4. ASSUME NEW k \in 1..N, NEW x \in P[k - 1] PROVE does(k, x) \in P[k] /\ x \in Trials
  <2> DEFINE e == does(k, x)
  <2>1. k \in 1..N /\ k - 1 \in 0..N /\ k \in 0..N
    BY <1>2
  <2>2. x \in Trials /\ Tried(x, ubs, k - 1) /\ (layout.window = 0 => Traced(x, vs, ubs))
    BY <2>1
  <2> HIDE DEF P, base
  <2>3. e \in Trials /\ Tried(e, ubs, k) /\ (layout.window = 0 => Traced(e, vs, ubs))
    BY <2>1, <2>2, TryOnKeeps, TryOnTraces
  <2> QED BY <2>1, <2>2, <2>3 DEF P
<1> HIDE DEF does, P, N, base
<1>5. \E f : Solves(f)
  <2>1. StepsIn(N, P, base, step)
    BY <1>2, <1>3, <1>4 DEF StepsIn
  <2>2. PICK f : TakesSteps(N, P, base, step, f)
    BY <2>1, StepsExist, Zenon
  <2>3. ASSUME NEW k \in 0..N PROVE f[k] = value(k, f)
    <3>1. CASE k = 0
      BY <2>2, <3>1 DEF TakesSteps
    <3>2. CASE k # 0
      <4>1. k \in 1..N
        BY <1>2, <3>2
      <4>2. f[k - 1] \in P[k - 1] /\ f[k] = step[<<k, f[k - 1]>>]
        BY <2>2, <4>1, Zenon DEF TakesSteps
      <4>3. f[k - 1] \in Trials
        BY <1>4, <4>1, <4>2
      <4> QED BY <3>2, <4>1, <4>2, <4>3
    <3> QED BY <3>1, <3>2
  <2>4. f = [k \in 0..N |-> f[k]]
    BY <2>2 DEF TakesSteps
  <2> HIDE DEF value
  <2> QED BY <2>3, <2>4
<1>6. \A k \in 0..N : iter[k] \in P[k]
  <2>1. Solves(iter)
    <3> HIDE DEF Solves
    <3> QED BY <1>5
  <2> HIDE DEF iter
  <2>2. \A k \in 0..N : iter[k] = value(k, iter)
    <3> HIDE DEF value
    <3> QED BY <2>1, Zenon
  <2>3. 0 \in 0..N /\ \A k \in 1..N : k \in 0..N /\ k # 0
    BY <1>2
  <2>4. iter[0] = base /\ \A k \in 1..N : iter[k] = does(k, iter[k - 1])
    BY <2>2, <2>3
  <2>5. KeepsIn(N, P, iter)
    BY <1>2, <1>3, <1>4, <2>4 DEF KeepsIn
  <2> QED BY <2>5, StepsKeep
<1>7. iter[N] \in P[N] /\ N \in 0..N
  BY <1>2, <1>6
<1> HIDE DEF iter
<1> QED BY <1>1, <1>7 DEF P, N

GiveBack(t) ==
  LET back[k \in 0..Len(t.slots)] ==
        IF k = 0 THEN t.v
        ELSE Restored(back[k - 1], t.past[Len(t.slots) + 1 - k], t.slots[Len(t.slots) + 1 - k])
  IN back[Len(t.slots)]

LEMMA GiveBackKeeps ==
  ASSUME layout \in Layouts, NEW t \in Trials, Len(t.past) = Len(t.slots)
  PROVE  /\ GiveBack(t) \in Stills
         /\ \A vs, ubs : Traced(t, vs, ubs) => SameContent(GiveBack(t), vs)
<1> DEFINE N == Len(t.slots)
           base == t.v
           does(k, x) == Restored(x, t.past[Len(t.slots) + 1 - k], t.slots[Len(t.slots) + 1 - k])
           Gone(k, e) == \A vs, ubs : Traced(t, vs, ubs) => SameContent(e, Path(t)[N - k])
           P == [k \in 0..N |-> {e \in Stills : Gone(k, e)}]
           step == [z \in (1..N) \X Stills |-> does(z[1], z[2])]
           value(k, f) == IF k = 0 THEN base ELSE does(k, f[k - 1])
           Solves(f) == f = [k \in 0..N |-> value(k, f)]
           iter == CHOOSE f : Solves(f)
<1>1. GiveBack(t) = iter[N]
  BY DEF GiveBack
<1>2. N \in Nat
  BY LenProperties DEF Trials
<1>3. base \in P[0]
  <2>1. N - 0 \in 0..Len(t.past) /\ N - 0 = Len(t.past)
    BY <1>2
  <2>2. Path(t)[N - 0] = t.v
    BY <2>1 DEF Path
  <2>3. Gone(0, base)
    BY <2>2 DEF SameContent
  <2> HIDE DEF Gone
  <2> QED BY <1>2, <2>3 DEF Trials
<1>4. ASSUME NEW k \in 1..N, NEW x \in P[k - 1] PROVE does(k, x) \in P[k] /\ x \in Stills
  <2> DEFINE e == does(k, x)
  <2>1. k \in 1..N /\ k - 1 \in 0..N /\ k \in 0..N
    BY <1>2
  <2>2. x \in Stills /\ Gone(k - 1, x)
    BY <2>1
  <2> HIDE DEF P, base
  <2>3. e \in Stills /\ Gone(k, e)
    <3> DEFINE j == Len(t.slots) + 1 - k
    <3>1. j \in 1..Len(t.slots) /\ N - (k - 1) = j /\ N - k = j - 1
      BY <1>2, <2>1
    <3>5. Path(t)[j - 1] = t.past[j]
      <4>1. j - 1 \in 0..Len(t.past) /\ j - 1 # Len(t.past) /\ j - 1 + 1 = j
        BY <1>2, <3>1
      <4> QED BY <4>1 DEF Path
    <3>6. e = Restored(x, t.past[j], t.slots[j])
      OBVIOUS
    <3> HIDE DEF j, e
    <3>2. t.past[j] \in Stills /\ t.slots[j] \in SlotMaps
      BY <3>1, ElementOfSeq DEF Trials
    <3>3. e \in Stills /\ GivenBack(x, t.past[j], t.slots[j], e)
      BY <2>2, <3>2, <3>6, RestoredKeeps
    <3>4. ASSUME NEW vs, NEW ubs, Traced(t, vs, ubs) PROVE SameContent(e, Path(t)[N - k])
      <4>1. SameContent(x, Path(t)[j])
        BY <2>2, <3>1, <3>4
      <4>2. AllFilled(t.past[j], Path(t)[j], ubs[j], t.slots[j])
        BY <3>1, <3>4, <3>5 DEF Traced, Leads
      <4> QED BY <3>1, <3>3, <3>5, <4>1, <4>2, RestoredSame, Zenon
    <3> QED BY <3>3, <3>4
  <2> HIDE DEF Gone
  <2> QED BY <2>1, <2>2, <2>3 DEF P
<1> HIDE DEF does, P, N, base
<1>5. \E f : Solves(f)
  <2>1. StepsIn(N, P, base, step)
    BY <1>2, <1>3, <1>4 DEF StepsIn
  <2>2. PICK f : TakesSteps(N, P, base, step, f)
    BY <2>1, StepsExist
  <2>3. ASSUME NEW k \in 0..N PROVE f[k] = value(k, f)
    <3>1. CASE k = 0
      BY <2>2, <3>1 DEF TakesSteps
    <3>2. CASE k # 0
      <4>1. k \in 1..N
        BY <1>2, <3>2
      <4>2. f[k - 1] \in P[k - 1] /\ f[k] = step[<<k, f[k - 1]>>]
        BY <2>2, <4>1, Zenon DEF TakesSteps
      <4>3. f[k - 1] \in Stills
        BY <1>4, <4>1, <4>2
      <4> QED BY <3>2, <4>1, <4>2, <4>3
    <3> QED BY <3>1, <3>2
  <2>4. f = [k \in 0..N |-> f[k]]
    BY <2>2 DEF TakesSteps
  <2> HIDE DEF value
  <2> QED BY <2>3, <2>4
<1>6. \A k \in 0..N : iter[k] \in P[k]
  <2>1. Solves(iter)
    <3> HIDE DEF Solves
    <3> QED BY <1>5
  <2> HIDE DEF iter
  <2>2. \A k \in 0..N : iter[k] = value(k, iter)
    <3> HIDE DEF value
    <3> QED BY <2>1, Zenon
  <2>3. 0 \in 0..N /\ \A k \in 1..N : k \in 0..N /\ k # 0
    BY <1>2
  <2>4. iter[0] = base /\ \A k \in 1..N : iter[k] = does(k, iter[k - 1])
    BY <2>2, <2>3
  <2>5. KeepsIn(N, P, iter)
    BY <1>2, <1>3, <1>4, <2>4 DEF KeepsIn
  <2> QED BY <2>5, StepsKeep
<1>7. iter[N] \in P[N] /\ N \in 0..N
  BY <1>2, <1>6
<1> HIDE DEF iter
<1>8. iter[N] \in Stills /\ Gone(N, iter[N]) /\ N - N = 0
  BY <1>2, <1>7 DEF P
<1>9. \A vs, ubs : Traced(t, vs, ubs) => SameContent(iter[N], vs)
  BY <1>8 DEF Traced
<1> QED BY <1>1, <1>8, <1>9

\* A preparation that is undone leaves the cells as they were, and fails
\* only where a stream has too few.
Prepared(p, vs, ubs) ==
  /\ SameContent(p.v, vs)
  /\ \E w : /\ w[0] = vs /\ Leads(w, ubs, p.slots, Len(p.slots))
            /\ ~p.ok => StopsAt(w[Len(p.slots)], ubs, Len(p.slots))

LEMMA PrepareKeeps ==
  ASSUME layout \in Layouts, NEW vs \in Stills, NEW ubs \in Seq(Ubatch)
  PROVE  LET p == prepare(vs, ubs)
         IN /\ p.v \in Stills /\ p.slots \in Seq(SlotMaps) /\ Fitting(ubs, p.slots)
            /\ p.ok => Len(p.slots) = Len(ubs)
            /\ layout.window = 0 => Prepared(p, vs, ubs)
<1> DEFINE t == Trial(vs, ubs)
<1>1. prepare(vs, ubs) = [ok |-> t.ok, v |-> GiveBack(t), slots |-> t.slots]
  BY DEF prepare, GiveBack
<1>2. t \in Trials /\ Tried(t, ubs, Len(ubs)) /\ (layout.window = 0 => Traced(t, vs, ubs))
  BY TrialKeeps
<1> HIDE DEF t
<1>3. GiveBack(t) \in Stills /\ (layout.window = 0 => SameContent(GiveBack(t), vs))
  BY <1>2, GiveBackKeeps DEF Tried
<1>4. Path(t)[Len(t.slots)] = t.v
  <2>1. Len(t.slots) \in 0..Len(t.past) /\ Len(t.slots) = Len(t.past)
    BY <1>2, LenProperties DEF Trials, Tried
  <2> QED BY <2>1 DEF Path
<1>5. layout.window = 0 => Prepared([ok |-> t.ok, v |-> GiveBack(t), slots |-> t.slots], vs, ubs)
  BY <1>2, <1>3, <1>4 DEF Prepared, Traced
<1> QED BY <1>1, <1>2, <1>3, <1>5 DEF Trials, Tried

LEMMA PlacedKeeps ==
  ASSUME layout \in Layouts, NEW vs \in Caches, NEW ubs \in Seq(Ubatch), NEW slots \in Seq(SlotMaps),
         Fitting(ubs, slots), NEW k \in 0..Len(ubs), k <= Len(slots)
  PROVE  /\ Placed(vs, ubs, slots, k) \in Caches /\ (Still1(vs) => Still1(Placed(vs, ubs, slots, k)))
         /\ \A w : SameContent(vs, w[0]) /\ Leads(w, ubs, slots, k) => SameContent(Placed(vs, ubs, slots, k), w[k])
<1> DEFINE D == [i \in DOMAIN SubSeq(ubs, 1, k) |-> i]
           pick(u) == Max(u)
           S == DOMAIN D
           base == vs
           does(i, x) == Apply(x, ubs[D[i]], slots[D[i]])
           ch == [u \in SUBSET S |-> pick(u)]
           Along(u, e) == \A w : SameContent(vs, w[0]) /\ Leads(w, ubs, slots, k)
                           => \A m \in 0..k : u = 1..m => SameContent(e, w[m])
           P == [u \in SUBSET S |-> {e \in Caches : (Still1(vs) => Still1(e)) /\ Along(u, e)}]
           step == [z \in S \X Caches |-> does(z[1], z[2])]
           value(u, f) == IF u = {} THEN base ELSE does(pick(u), f[u \ {pick(u)}])
           Solves(f) == f = [u \in SUBSET S |-> value(u, f)]
           iter == CHOOSE f : Solves(f)
<1>1. Placed(vs, ubs, slots, k) = iter[S]
  BY DEF Placed, FoldLeftDomain, FoldLeft, MapThenFoldSet
<1>2. IsFiniteSet(S) /\ \A u \in SUBSET S : u # {} => pick(u) \in u /\ \A j \in u : j <= pick(u)
  <2>1. S = 1..k /\ k \in Nat
    BY LenProperties, SubSeqProperties
  <2>2. IsFiniteSet(S) /\ S \in SUBSET Nat
    BY <2>1, FS_Interval
  <2> HIDE DEF S
  <2>3. ASSUME NEW u \in SUBSET S, u # {} PROVE Max(u) \in u /\ \A j \in u : j <= Max(u)
    <3>1. u \in SUBSET Nat /\ IsFiniteSet(u)
      BY <2>2, FS_Subset, Zenon
    <3>2. \E k0 \in u : \A j \in u : j <= k0
      BY <2>3, <3>1, Greatest
    <3>3. \E k0 \in u : \A j \in u : k0 >= j
      BY <3>1, <3>2
    <3>4. Max(u) \in u /\ \A j \in u : Max(u) >= j
      BY <3>3 DEF Max
    <3> HIDE DEF Max
    <3> QED BY <3>1, <3>4
  <2> QED BY <2>2, <2>3
<1>3. base \in P[{}]
  <2>1. ASSUME NEW m \in 0..k, {} = 1..m PROVE m = 0
    <3>1. m # 0 => 1 \in 1..m
      BY <2>1
    <3> QED BY <2>1, <3>1
  <2>2. Along({}, base)
    BY <2>1
  <2> HIDE DEF Along
  <2> QED BY <2>2
<1>8. S = 1..k /\ k \in Nat
  BY LenProperties, SubSeqProperties
<1>4. ASSUME NEW u \in SUBSET S, u # {}, NEW x \in P[u \ {pick(u)}]
      PROVE  does(pick(u), x) \in P[u] /\ pick(u) \in S /\ x \in Caches
  <2> DEFINE i == pick(u)
             e == does(i, x)
  <2>1. i \in u /\ i \in S /\ u \in SUBSET S /\ u \ {i} \in SUBSET S
    BY <1>2, <1>4
  <2>2. x \in Caches /\ (Still1(vs) => Still1(x)) /\ Along(u \ {i}, x)
    BY <2>1
  <2>5. \A j \in u : j <= i
    BY <1>2, <1>4
  <2> HIDE DEF i, P, ch, pick, base
  <2>3. D[i] = i /\ ubs[i] \in Ubatch /\ slots[i] \in SlotMaps /\ Fills(slots[i], ubs[i])
    <3>1. D[i] = i /\ i \in 1..k
      BY <1>8, <2>1
    <3>2. i \in 1..Len(ubs) /\ i \in 1..Len(slots)
      BY <3>1, LenProperties
    <3> QED BY <3>1, <3>2, ElementOfSeq DEF Fitting
  <2>4. e \in Caches /\ (Still1(x) => Still1(e)) /\ (FreeSlot(x, slots[i]) => AllFilled(x, e, ubs[i], slots[i]))
    BY <2>2, <2>3, ApplyKeeps
  <2> HIDE DEF e, S
  <2>6. ASSUME NEW w, SameContent(vs, w[0]), Leads(w, ubs, slots, k), NEW m \in 0..k, u = 1..m
        PROVE  SameContent(e, w[m])
    <3>1. i = m /\ m \in 1..k /\ m - 1 \in 0..k /\ u \ {i} = 1..(m - 1)
      <4>1. m \in Nat /\ i \in 1..m
        BY <1>8, <2>1, <2>6
      <4>2. m \in 1..m
        BY <4>1
      <4>3. m <= i
        BY <2>5, <2>6, <4>2
      <4>4. i = m
        BY <4>1, <4>3
      <4>5. m \in 1..k /\ m - 1 \in 0..k
        BY <1>8, <4>1, <4>2, <2>6
      <4>6. (1..m) \ {m} = 1..(m - 1)
        BY <4>1
      <4> QED BY <2>6, <4>4, <4>5, <4>6
    <3>2. SameContent(x, w[m - 1])
      BY <2>2, <2>6, <3>1
    <3>3. FreeSlot(w[m - 1], slots[m]) /\ AllFilled(w[m - 1], w[m], ubs[m], slots[m])
      BY <2>6, <3>1 DEF Leads
    <3>4. SameContent(w[m - 1], x)
      BY <3>2 DEF SameContent
    <3>5. FreeSlot(x, slots[m])
      BY <3>3, <3>4, FreeSlotSame
    <3>6. AllFilled(x, e, ubs[m], slots[m])
      BY <2>4, <3>1, <3>5
    <3> QED BY <3>2, <3>3, <3>6, FilledSame
  <2>7. Along(u, e)
    BY <2>6
  <2> HIDE DEF Along
  <2> QED BY <2>1, <2>2, <2>4, <2>7 DEF P, i, e
<1> HIDE DEF pick, does, P, S, base
<1>5. \E f : Solves(f)
  <2>1. FoldsIn(S, ch, P, base, step)
    BY <1>2, <1>3, <1>4, Zenon DEF FoldsIn
  <2>2. PICK f : TakesFold(S, ch, P, base, step, f)
    BY <2>1, FoldExists, Zenon
  <2>3. ASSUME NEW u \in SUBSET S PROVE f[u] = value(u, f)
    BY <1>4, <2>2, Zenon DEF TakesFold
  <2>4. f = [u \in SUBSET S |-> f[u]]
    BY <2>2 DEF TakesFold
  <2> HIDE DEF value
  <2> QED BY <2>3, <2>4, Zenon
<1>6. iter[S] \in P[S]
  <2>1. Solves(iter)
    <3> HIDE DEF Solves
    <3> QED BY <1>5
  <2> HIDE DEF iter
  <2>2. \A u \in SUBSET S : iter[u] = value(u, iter)
    <3> HIDE DEF value
    <3> QED BY <2>1
  <2>3. KeepsFold(S, ch, P, iter)
    BY <1>2, <1>3, <1>4, <2>2, Zenon DEF KeepsFold
  <2> QED BY <2>3, FoldKeeps
<1>7. iter[S] \in Caches /\ (Still1(vs) => Still1(iter[S])) /\ Along(S, iter[S])
  <2> HIDE DEF iter, S, Along
  <2> QED BY <1>6 DEF P
<1>9. \A w : SameContent(vs, w[0]) /\ Leads(w, ubs, slots, k) => SameContent(iter[S], w[k])
  <2> HIDE DEF S, iter
  <2>1. k \in 0..k
    BY <1>8
  <2> QED BY <1>7, <1>8, <2>1
<1> QED BY <1>1, <1>7, <1>9, Zenon

Buffers == [Streams -> [Size -> Data]]

\* An ubatch is computed into the cells of its slot.
Write(c, ub, slot) ==
  [d \in Streams |-> [i \in Size |->
     IF i \in ToSet(slot[d])
     THEN LET x == ub[d][CHOOSE y \in DOMAIN slot[d] : slot[d][y] = i]
          IN [of |-> x.seq, rot |-> x.pos]
     ELSE c[d][i]]]

LEMMA WriteType ==
  ASSUME layout \in Layouts, NEW c \in Buffers, NEW ub \in Ubatch, NEW slot \in SlotMaps, Fills(slot, ub)
  PROVE  Write(c, ub, slot) \in Buffers
<1> SUFFICES ASSUME NEW d \in Streams, NEW i \in Size
             PROVE  Write(c, ub, slot)[d][i] \in Data
  BY Zenon DEF Write, Buffers
<1>1. ub[d] \in Seq(Token) /\ slot[d] \in Seq(Size) /\ Len(slot[d]) = Len(ub[d]) /\ c[d][i] \in Data
  BY DEF Ubatch, SlotMaps, Fills, Buffers
<1>2. CASE i \in ToSet(slot[d])
  <2> DEFINE y == CHOOSE y \in DOMAIN slot[d] : slot[d][y] = i
             x == ub[d][y]
  <2>1. \E y0 \in DOMAIN slot[d] : slot[d][y0] = i
    BY <1>2 DEF ToSet
  <2>2. y \in DOMAIN slot[d]
    BY <2>1
  <2> HIDE DEF y
  <2>3. y \in 1..Len(ub[d])
    BY <1>1, <2>2, LenProperties
  <2>4. x \in Token
    BY <1>1, <2>3, ElementOfSeq
  <2>5. Write(c, ub, slot)[d][i] = [of |-> x.seq, rot |-> x.pos]
    BY <1>2 DEF Write, y
  <2> HIDE DEF x
  <2>6. x.seq \in Seqs /\ x.pos \in Int
    BY <2>4, LayoutFacts DEF Token
  <2> QED BY <2>5, <2>6 DEF Data
<1>3. CASE i \notin ToSet(slot[d])
  BY <1>1, <1>3 DEF Write
<1> QED BY <1>2, <1>3

\* The buffers after each ubatch.
Writes(g, b, ubs, slots, k) ==
  g[0] = b /\ \A j \in 1..k : g[j - 1] \in Buffers /\ g[j] = Write(g[j - 1], ubs[j], slots[j])

LEMMA ComputedRow ==
  ASSUME layout \in Layouts, NEW b \in Buffers, NEW ubs \in Seq(Ubatch), NEW slots \in Seq(SlotMaps),
         Fitting(ubs, slots), NEW k \in 0..Len(ubs), k <= Len(slots)
  PROVE  \E g : Writes(g, b, ubs, slots, k) /\ g[k] \in Buffers /\ Computed(b, ubs, slots, k) = g[k]
<1> DEFINE D == [i \in DOMAIN SubSeq(ubs, 1, k) |-> i]
           S == DOMAIN D
           pick(u) == Max(u)
           base == b
           does(i, x) == Write(x, ubs[D[i]], slots[D[i]])
           ch == [u \in SUBSET S |-> pick(u)]
           P == [u \in SUBSET S |-> Buffers]
           step == [z \in S \X Buffers |-> does(z[1], z[2])]
           value(u, f) == IF u = {} THEN base ELSE does(pick(u), f[u \ {pick(u)}])
           Solves(f) == f = [u \in SUBSET S |-> value(u, f)]
           iter == CHOOSE f : Solves(f)
<1>1. Computed(b, ubs, slots, k) = iter[S]
  BY DEF Computed, FoldLeftDomain, FoldLeft, MapThenFoldSet, Write
<1>2. S = 1..k /\ k \in Nat
  BY LenProperties, SubSeqProperties
<1>3. IsFiniteSet(S) /\ \A u \in SUBSET S : u # {} => pick(u) \in u /\ \A j \in u : j <= pick(u)
  <2>1. IsFiniteSet(S) /\ S \in SUBSET Nat
    BY <1>2, FS_Interval
  <2> HIDE DEF S
  <2>2. ASSUME NEW u \in SUBSET S, u # {} PROVE Max(u) \in u /\ \A j \in u : j <= Max(u)
    <3>1. u \in SUBSET Nat /\ IsFiniteSet(u)
      BY <2>1, FS_Subset, Zenon
    <3>2. \E k0 \in u : \A j \in u : j <= k0
      BY <2>2, <3>1, Greatest
    <3>3. \E k0 \in u : \A j \in u : k0 >= j
      BY <3>1, <3>2
    <3>4. Max(u) \in u /\ \A j \in u : Max(u) >= j
      BY <3>3 DEF Max
    <3> HIDE DEF Max
    <3> QED BY <3>1, <3>4
  <2> QED BY <2>1, <2>2
<1>4. ASSUME NEW i \in S, NEW x \in Buffers PROVE does(i, x) \in Buffers
  <2>1. D[i] = i /\ i \in 1..k
    BY <1>2
  <2>2. i \in 1..Len(ubs) /\ i \in 1..Len(slots)
    BY <2>1, LenProperties
  <2>3. ubs[i] \in Ubatch /\ slots[i] \in SlotMaps /\ Fills(slots[i], ubs[i])
    BY <2>2, ElementOfSeq DEF Fitting
  <2> QED BY <2>1, <2>3, WriteType
<1> HIDE DEF pick, does, S, base
<1>5. \A u \in SUBSET S : u # {} => ch[u] = pick(u) /\ pick(u) \in S /\ pick(u) \in u /\ u \ {pick(u)} \in SUBSET S
  BY <1>3
<1>6. \A i \in S : \A x \in Buffers : step[<<i, x>>] = does(i, x) /\ step[<<i, x>>] \in Buffers
  BY <1>4
<1>7. \A u \in SUBSET S : P[u] = Buffers
  OBVIOUS
<1> HIDE DEF ch, step, P
<1>8. base \in Buffers
  BY DEF base
<1>9. \E f : Solves(f)
  <2>1. FoldsIn(S, ch, P, base, step)
    <3>1. base \in P[{}]
      BY <1>7, <1>8
    <3>2. ASSUME NEW u \in SUBSET S, u # {}
          PROVE  ch[u] \in u /\ \A x \in P[u \ {ch[u]}] : step[<<ch[u], x>>] \in P[u]
      BY <1>5, <1>6, <1>7, <3>2
    <3> QED BY <1>3, <3>1, <3>2, Zenon DEF FoldsIn
  <2>2. PICK f : TakesFold(S, ch, P, base, step, f)
    BY <2>1, FoldExists
  <2>3. ASSUME NEW u \in SUBSET S PROVE f[u] = value(u, f)
    <3>1. CASE u = {}
      BY <2>2, <3>1 DEF TakesFold
    <3>2. CASE u # {}
      <4>1. f[u \ {ch[u]}] \in P[u \ {ch[u]}] /\ f[u] = step[<<ch[u], f[u \ {ch[u]}]>>]
        BY <2>2, <3>2, Zenon DEF TakesFold
      <4>2. f[u \ {pick(u)}] \in Buffers /\ f[u] = step[<<pick(u), f[u \ {pick(u)}]>>]
        BY <1>5, <1>7, <3>2, <4>1, Zenon
      <4>3. f[u] = does(pick(u), f[u \ {pick(u)}])
        BY <1>5, <1>6, <3>2, <4>2, Zenon
      <4> QED BY <3>2, <4>3
    <3> QED BY <3>1, <3>2
  <2>4. f = [u \in SUBSET S |-> f[u]]
    BY <2>2 DEF TakesFold
  <2> HIDE DEF value
  <2> QED BY <2>3, <2>4, Zenon
<1>10. \A u \in SUBSET S : iter[u] = value(u, iter)
  <2>1. Solves(iter)
    <3> HIDE DEF Solves
    <3> QED BY <1>9
  <2> HIDE DEF iter, value
  <2> QED BY <2>1
<1> HIDE DEF iter
<1>11. FoldAlong(k, Buffers, ch, base, step, iter)
  <2>1. iter[{}] = base
    BY <1>10, Zenon
  <2>2. ASSUME NEW m \in 1..k PROVE ch[1..m] = m
    <3> DEFINE u == 1..m
    <3>1. u \in SUBSET S /\ m \in u /\ \A j \in u : j <= m /\ j \in Nat
      BY <1>2
    <3> HIDE DEF u
    <3>2. pick(u) \in u /\ m <= pick(u) /\ ch[u] = pick(u)
      BY <1>3, <1>5, <3>1
    <3>3. pick(u) <= m /\ pick(u) \in Nat /\ m \in Nat
      BY <3>1, <3>2, Zenon
    <3>4. ch[u] = m
      BY <3>2, <3>3
    <3> QED BY <3>4 DEF u
  <2>3. ASSUME NEW u \in SUBSET S, u # {}, iter[u \ {ch[u]}] \in Buffers
        PROVE  iter[u] = step[<<ch[u], iter[u \ {ch[u]}]>>]
    <3>1. iter[u] = does(pick(u), iter[u \ {pick(u)}])
      BY <1>10, <2>3, Zenon
    <3> QED BY <1>5, <1>6, <2>3, <3>1, Zenon
  <2> QED BY <1>2, <1>6, <1>8, <2>1, <2>2, <2>3, Zenon DEF FoldAlong
<1>12. PICK g : Row(k, Buffers, base, step, g) /\ g[k] = iter[1..k] /\ g[k] \in Buffers
  BY <1>11, FoldIsRow
<1>13. ASSUME NEW j \in 1..k PROVE g[j - 1] \in Buffers /\ g[j] = does(j, g[j - 1])
  BY <1>2, <1>6, <1>12, Zenon DEF Row
<1>14. g[0] = b /\ g[k] = iter[S]
  BY <1>2, <1>12 DEF Row, base
<1>15. \A j \in 1..k : does(j, g[j - 1]) = Write(g[j - 1], ubs[j], slots[j])
  <2>1. \A j \in 1..k : j \in S /\ D[j] = j
    BY <1>2 DEF S
  <2> HIDE DEF D
  <2> QED BY <2>1 DEF does
<1> QED BY <1>1, <1>12, <1>13, <1>14, <1>15, Zenon DEF Writes

LEMMA ComputedKeeps ==
  ASSUME layout \in Layouts, NEW b \in Buffers, NEW ubs \in Seq(Ubatch), NEW slots \in Seq(SlotMaps),
         Fitting(ubs, slots), NEW k \in 0..Len(ubs), k <= Len(slots)
  PROVE  Computed(b, ubs, slots, k) \in Buffers
BY ComputedRow

\* The copies that are queued, one after the other.
CopiedBy(copies, b) == FoldLeft(LAMBDA c, q : [c EXCEPT ![q[2]] = c[q[1]]], b, copies)
Copies(g, b, copies) ==
  /\ g[0] = b
  /\ \A j \in 1..Len(copies) :
       g[j - 1] \in Buffers /\ g[j] = [g[j - 1] EXCEPT ![copies[j][2]] = g[j - 1][copies[j][1]]]

LEMMA CopiedRow ==
  ASSUME layout \in Layouts, NEW copies \in Seq(Streams \X Streams), NEW b \in Buffers
  PROVE  \E g : Copies(g, b, copies) /\ g[Len(copies)] \in Buffers /\ CopiedBy(copies, b) = g[Len(copies)]
<1> DEFINE S == DOMAIN copies
           pick(u) == Max(u)
           base == b
           does(i, x) == [x EXCEPT ![copies[i][2]] = x[copies[i][1]]]
           ch == [u \in SUBSET S |-> pick(u)]
           P == [u \in SUBSET S |-> Buffers]
           step == [z \in S \X Buffers |-> does(z[1], z[2])]
           value(u, f) == IF u = {} THEN base ELSE does(pick(u), f[u \ {pick(u)}])
           Solves(f) == f = [u \in SUBSET S |-> value(u, f)]
           iter == CHOOSE f : Solves(f)
<1>1. CopiedBy(copies, b) = iter[S]
  BY DEF CopiedBy, FoldLeft, MapThenFoldSet
<1>2. S = 1..Len(copies) /\ Len(copies) \in Nat
  BY LenProperties, SubSeqProperties
<1>3. IsFiniteSet(S) /\ \A u \in SUBSET S : u # {} => pick(u) \in u /\ \A j \in u : j <= pick(u)
  <2>1. IsFiniteSet(S) /\ S \in SUBSET Nat
    BY <1>2, FS_Interval
  <2> HIDE DEF S
  <2>2. ASSUME NEW u \in SUBSET S, u # {} PROVE Max(u) \in u /\ \A j \in u : j <= Max(u)
    <3>1. u \in SUBSET Nat /\ IsFiniteSet(u)
      BY <2>1, FS_Subset, Zenon
    <3>2. \E k0 \in u : \A j \in u : j <= k0
      BY <2>2, <3>1, Greatest
    <3>3. \E k0 \in u : \A j \in u : k0 >= j
      BY <3>1, <3>2
    <3>4. Max(u) \in u /\ \A j \in u : Max(u) >= j
      BY <3>3 DEF Max
    <3> HIDE DEF Max
    <3> QED BY <3>1, <3>4
  <2> QED BY <2>1, <2>2
<1>4. ASSUME NEW i \in S, NEW x \in Buffers PROVE does(i, x) \in Buffers
  <2>1. copies[i] \in Streams \X Streams
    BY <1>2, ElementOfSeq
  <2> QED BY <2>1 DEF Buffers
<1> HIDE DEF pick, does, S, base
<1>5. \A u \in SUBSET S : u # {} => ch[u] = pick(u) /\ pick(u) \in S /\ pick(u) \in u /\ u \ {pick(u)} \in SUBSET S
  BY <1>3
<1>6. \A i \in S : \A x \in Buffers : step[<<i, x>>] = does(i, x) /\ step[<<i, x>>] \in Buffers
  BY <1>4
<1>7. \A u \in SUBSET S : P[u] = Buffers
  OBVIOUS
<1> HIDE DEF ch, step, P
<1>8. base \in Buffers
  BY DEF base
<1>9. \E f : Solves(f)
  <2>1. FoldsIn(S, ch, P, base, step)
    <3>1. base \in P[{}]
      BY <1>7, <1>8
    <3>2. ASSUME NEW u \in SUBSET S, u # {}
          PROVE  ch[u] \in u /\ \A x \in P[u \ {ch[u]}] : step[<<ch[u], x>>] \in P[u]
      BY <1>5, <1>6, <1>7, <3>2
    <3> QED BY <1>3, <3>1, <3>2, Zenon DEF FoldsIn
  <2>2. PICK f : TakesFold(S, ch, P, base, step, f)
    BY <2>1, FoldExists
  <2>3. ASSUME NEW u \in SUBSET S PROVE f[u] = value(u, f)
    <3>1. CASE u = {}
      BY <2>2, <3>1 DEF TakesFold
    <3>2. CASE u # {}
      <4>1. f[u \ {ch[u]}] \in P[u \ {ch[u]}] /\ f[u] = step[<<ch[u], f[u \ {ch[u]}]>>]
        BY <2>2, <3>2, Zenon DEF TakesFold
      <4>2. f[u \ {pick(u)}] \in Buffers /\ f[u] = step[<<pick(u), f[u \ {pick(u)}]>>]
        BY <1>5, <1>7, <3>2, <4>1, Zenon
      <4>3. f[u] = does(pick(u), f[u \ {pick(u)}])
        BY <1>5, <1>6, <3>2, <4>2
      <4> QED BY <3>2, <4>3
    <3> QED BY <3>1, <3>2
  <2>4. f = [u \in SUBSET S |-> f[u]]
    BY <2>2 DEF TakesFold
  <2> HIDE DEF value
  <2> QED BY <2>3, <2>4, Zenon
<1>10. \A u \in SUBSET S : iter[u] = value(u, iter)
  <2>1. Solves(iter)
    <3> HIDE DEF Solves
    <3> QED BY <1>9
  <2> HIDE DEF iter, value
  <2> QED BY <2>1
<1> HIDE DEF iter
<1>11. FoldAlong(Len(copies), Buffers, ch, base, step, iter)
  <2>1. iter[{}] = base
    BY <1>10, Zenon
  <2>2. ASSUME NEW m \in 1..Len(copies) PROVE ch[1..m] = m
    <3> DEFINE u == 1..m
    <3>1. u \in SUBSET S /\ m \in u /\ \A j \in u : j <= m /\ j \in Nat
      BY <1>2
    <3> HIDE DEF u
    <3>2. pick(u) \in u /\ m <= pick(u) /\ ch[u] = pick(u)
      BY <1>3, <1>5, <3>1, Zenon
    <3>3. pick(u) <= m /\ pick(u) \in Nat /\ m \in Nat
      BY <3>1, <3>2, Zenon
    <3>4. ch[u] = m
      BY <3>2, <3>3
    <3> QED BY <3>4 DEF u
  <2>3. ASSUME NEW u \in SUBSET S, u # {}, iter[u \ {ch[u]}] \in Buffers
        PROVE  iter[u] = step[<<ch[u], iter[u \ {ch[u]}]>>]
    <3>1. iter[u] = does(pick(u), iter[u \ {pick(u)}])
      BY <1>10, <2>3, Zenon
    <3> QED BY <1>5, <1>6, <2>3, <3>1, Zenon
  <2> QED BY <1>2, <1>6, <1>8, <2>1, <2>2, <2>3, Zenon DEF FoldAlong
<1>12. PICK g : Row(Len(copies), Buffers, base, step, g) /\ g[Len(copies)] = iter[1..Len(copies)] /\ g[Len(copies)] \in Buffers
  BY <1>11, FoldIsRow
<1>13. ASSUME NEW j \in 1..Len(copies) PROVE g[j - 1] \in Buffers /\ g[j] = does(j, g[j - 1])
  BY <1>2, <1>6, <1>12, Zenon DEF Row
<1>14. g[0] = b /\ g[Len(copies)] = iter[S]
  BY <1>2, <1>12 DEF Row, base
<1>15. \A j \in 1..Len(copies) : g[j] = [g[j - 1] EXCEPT ![copies[j][2]] = g[j - 1][copies[j][1]]]
  BY <1>13, Zenon DEF does
<1> QED BY <1>1, <1>12, <1>13, <1>14, <1>15, Zenon DEF Copies

LEMMA CopiedIs == \A b : Copied(b) = CopiedBy(sc_info, b)
BY DEF Copied, CopiedBy, FoldLeft, MapThenFoldSet

LEMMA CopiedKeeps ==
  ASSUME layout \in Layouts, sc_info \in Seq(Streams \X Streams), NEW b \in Buffers
  PROVE  Copied(b) \in Buffers
BY CopiedIs, CopiedRow

-----------------------------------------------------------------------------
(* Without a window, a sequence holds the positions from zero up to its    *)
(* next one, each in one cell.                                             *)

\* The positions of sequence s are those of X, each in one cell.
Holds(c, s, X) ==
  /\ \A i \in Size : s \in c.seq[i] => c.pos[i] \in X
  /\ \A p \in X : \E i \in Size : s \in c.seq[i] /\ c.pos[i] = p
  /\ \A i, j \in Size : s \in c.seq[i] /\ s \in c.seq[j] /\ c.pos[i] = c.pos[j] => i = j

Ends == 0 .. MaxPos + 1
Run(c, s, m) == m \in Ends /\ Holds(c, s, 0 .. m - 1)
HasRun(c, s) == \E m \in Ends : Run(c, s, m)
\* nx[s] is where s stands.
RunsTo(vs, nx) == \A s \in Seqs : Run(vs[stream(s)].cells, s, nx[s])
AllRun(vs) == \A s \in Seqs : HasRun(vs[stream(s)].cells, s)

\* Nothing changes for sequence s.
SameFor(c, e, s) ==
  \A i \in Size : (s \in e.seq[i] <=> s \in c.seq[i]) /\ (s \in c.seq[i] => e.pos[i] = c.pos[i])

LEMMA HoldsSame ==
  ASSUME NEW c, NEW e, NEW s, SameFor(c, e, s), NEW X, Holds(c, s, X)
  PROVE  Holds(e, s, X)
<1>1. \A i \in Size : s \in e.seq[i] => e.pos[i] \in X
  BY DEF SameFor, Holds
<1>2. ASSUME NEW p \in X PROVE \E i \in Size : s \in e.seq[i] /\ e.pos[i] = p
  <2>1. PICK i \in Size : s \in c.seq[i] /\ c.pos[i] = p
    BY DEF Holds
  <2> QED BY <2>1 DEF SameFor
<1>3. \A i, j \in Size : s \in e.seq[i] /\ s \in e.seq[j] /\ e.pos[i] = e.pos[j] => i = j
  BY DEF SameFor, Holds
<1> QED BY <1>1, <1>2, <1>3 DEF Holds

LEMMA RunSame ==
  ASSUME NEW c, NEW e, NEW s, SameFor(c, e, s), HasRun(c, s)
  PROVE  HasRun(e, s)
<1>1. PICK m \in Ends : Holds(c, s, 0 .. m - 1)
  BY DEF HasRun, Run
<1>2. Holds(e, s, 0 .. m - 1)
  BY <1>1, HoldsSame
<1> QED BY <1>2 DEF HasRun, Run

LEMMA ContentRuns ==
  ASSUME layout \in Layouts, NEW vs, NEW ws, SameContent(vs, ws), AllRun(vs)
  PROVE  AllRun(ws)
<1> SUFFICES ASSUME NEW s \in Seqs PROVE HasRun(ws[stream(s)].cells, s)
  BY DEF AllRun
<1>1. HasRun(vs[stream(s)].cells, s) /\ stream(s) \in Streams
  BY LayoutFacts DEF AllRun
<1>2. SameFor(vs[stream(s)].cells, ws[stream(s)].cells, s)
  BY <1>1 DEF SameContent, SameFor
<1> QED BY <1>1, <1>2, RunSame

\* A sequence nobody holds stands at zero.
LEMMA NothingRuns ==
  ASSUME layout \in Layouts, NEW c, NEW s, \A i \in Size : s \notin c.seq[i]
  PROVE  Run(c, s, 0)
<1>1. 0 \in Ends /\ 0 .. 0 - 1 = {}
  BY LayoutFacts DEF Ends
<1>2. Holds(c, s, {})
  BY DEF Holds
<1> QED BY <1>1, <1>2 DEF Run

\* The limits that the index gives are those of the run.
LEMMA RunLimit ==
  ASSUME layout \in Layouts, NEW c \in Tables, NEW s \in Seqs, NEW m, Run(c, s, m)
  PROVE  seq_pos_max(c, s) = m - 1
<1> DEFINE A == PosOf(c, s)
<1>1. m \in Nat
  BY LayoutFacts DEF Run, Ends
<1>2. A = {c.pos[i] : i \in {j \in Size : seq_has(c, j, s)}}
  BY LayoutFacts, LimitsExact DEF Tables
<1> HIDE DEF A
<1>3. A = 0 .. m - 1
  <2>1. \A p \in A : p \in 0 .. m - 1
    BY <1>2 DEF Run, Holds, seq_has
  <2>2. ASSUME NEW p \in 0 .. m - 1 PROVE p \in A
    <3>1. PICK i \in Size : s \in c.seq[i] /\ c.pos[i] = p
      BY DEF Run, Holds
    <3> QED BY <1>2, <3>1 DEF seq_has
  <2> QED BY <2>1, <2>2, Zenon
<1>4. seq_pos_max(c, s) = IF A = {} THEN -1 ELSE CHOOSE p \in A : \A q \in A : q <= p
  BY DEF seq_pos_max, A
<1>5. CASE m = 0
  <2>1. A = {}
    BY <1>3, <1>5
  <2> QED BY <1>4, <1>5, <2>1
<1>6. CASE m # 0
  <2>1. m - 1 \in A /\ \A q \in A : q <= m - 1
    BY <1>1, <1>3, <1>6
  <2>2. \A p \in A : p \in Int
    BY <1>1, <1>3
  <2> DEFINE k == CHOOSE p \in A : \A q \in A : q <= p
  <2>3. k \in A /\ \A q \in A : q <= k
    BY <2>1
  <2>4. seq_pos_max(c, s) = k
    BY <1>4, <2>1
  <2> HIDE DEF k
  <2>5. m - 1 <= k /\ k <= m - 1 /\ k \in Int
    BY <2>1, <2>2, <2>3
  <2> QED BY <1>1, <2>4, <2>5
<1> QED BY <1>5, <1>6

LEMMA RunNext ==
  ASSUME layout \in Layouts, NEW vs \in Caches, AllRun(vs), NEW s \in Seqs
  PROVE  Run(vs[stream(s)].cells, s, next_pos(vs, s))
<1>1. PICK m \in Ends : Run(vs[stream(s)].cells, s, m)
  BY DEF AllRun, HasRun
<1>2. vs[stream(s)].cells \in Tables /\ m \in Nat
  BY LayoutFacts DEF Caches, TStream, Ends
<1>3. seq_pos_max(vs[stream(s)].cells, s) = m - 1
  BY <1>1, <1>2, RunLimit
<1>4. next_pos(vs, s) = m
  BY <1>2, <1>3 DEF next_pos
<1> QED BY <1>1, <1>4

-----------------------------------------------------------------------------
(* What the operations make of the positions a sequence holds.             *)

\* A position leaves with its cell; the other sequences notice nothing.
LEMMA HoldsLeft ==
  ASSUME NEW c, NEW e, NEW s, NEW p0, NEW p1, Left(c, e, In(c, s, p0, p1), s), NEW X, Holds(c, s, X)
  PROVE  Holds(e, s, {p \in X : ~(p0 <= p /\ p < p1)})
<1>1. \A i \in Size : s \in e.seq[i] <=> s \in c.seq[i] /\ ~(p0 <= c.pos[i] /\ c.pos[i] < p1)
  BY Zenon DEF Left, In, pos_in, seq_has
<1>2. \A i \in Size : s \in e.seq[i] => e.pos[i] = c.pos[i]
  BY Zenon DEF Left
<1>3. ASSUME NEW p \in X, ~(p0 <= p /\ p < p1) PROVE \E i \in Size : s \in e.seq[i] /\ e.pos[i] = p
  <2>1. PICK i \in Size : s \in c.seq[i] /\ c.pos[i] = p
    BY DEF Holds
  <2> QED BY <1>1, <1>2, <1>3, <2>1
<1>4. \A i \in Size : s \in e.seq[i] => e.pos[i] \in X /\ ~(p0 <= e.pos[i] /\ e.pos[i] < p1)
  BY <1>1, <1>2 DEF Holds
<1>5. \A i, j \in Size : s \in e.seq[i] /\ s \in e.seq[j] /\ e.pos[i] = e.pos[j] => i = j
  BY <1>1, <1>2 DEF Holds
<1> QED BY <1>3, <1>4, <1>5 DEF Holds

LEMMA LeftSame ==
  ASSUME NEW c, NEW e, NEW s, NEW u, Left(c, e, u, s), NEW r, r # s
  PROVE  SameFor(c, e, r)
BY Zenon DEF Left, SameFor

\* What lies behind p is removed.
LEMMA CutRun ==
  ASSUME layout \in Layouts, NEW c, NEW e, NEW s, NEW p \in Nat, Left(c, e, In(c, s, p, MaxPos + 1), s),
         HasRun(c, s)
  PROVE  HasRun(e, s)
<1>1. PICK m \in Ends : Holds(c, s, 0 .. m - 1)
  BY DEF HasRun, Run
<1> DEFINE X == {q \in 0 .. m - 1 : ~(p <= q /\ q < MaxPos + 1)}
           k == IF p < m THEN p ELSE m
<1>2. Holds(e, s, X)
  <2> DEFINE Z == 0 .. m - 1
             p1 == MaxPos + 1
  <2>1. Holds(c, s, Z) /\ Left(c, e, In(c, s, p, p1), s)
    BY <1>1
  <2> HIDE DEF Z, p1
  <2>2. Holds(e, s, {q \in Z : ~(p <= q /\ q < p1)})
    BY <2>1, HoldsLeft
  <2> QED BY <2>2 DEF Z, p1
<1>3. MaxPos \in Nat /\ m \in 0 .. MaxPos + 1
  BY LayoutFacts DEF Ends
<1>4. k \in Ends
  BY <1>3 DEF Ends
<1>5. X = 0 .. k - 1
  BY <1>3
<1> HIDE DEF X, k
<1> QED BY <1>2, <1>4, <1>5 DEF HasRun, Run

LEMMA KeptSame ==
  ASSUME NEW c, NEW e, NEW s, KeptIn(c, e, Size, s)
  PROVE  SameFor(c, e, s)
BY DEF KeptIn, SameFor

\* Cells of s alone move to positions that it does not hold.
Shiftable(c, s, p0, p1) == \A i \in In(c, s, p0, p1) : c.seq[i] = {s}

LEMMA HoldsMoved ==
  ASSUME NEW c, NEW e, NEW s, NEW p0 \in Int, NEW p1 \in Int, NEW d \in Int, p0 + d >= 0,
         ShiftedIn(c, e, In(c, s, p0, p1), d),
         NEW X \in SUBSET Int, Holds(c, s, X),
         \A p \in X : p0 + d <= p /\ p < p1 + d => p0 <= p /\ p < p1
  PROVE  Holds(e, s, {p \in X : ~(p0 <= p /\ p < p1)} \cup {p + d : p \in {q \in X : p0 <= q /\ q < p1}})
<1> DEFINE Y == {p \in X : ~(p0 <= p /\ p < p1)} \cup {p + d : p \in {q \in X : p0 <= q /\ q < p1}}
           hit == In(c, s, p0, p1)
<1>0. \A i \in Size : i \in hit <=> s \in c.seq[i] /\ p0 <= c.pos[i] /\ c.pos[i] < p1
  BY DEF In, pos_in, seq_has
<1>1. \A i \in Size : s \in c.seq[i] => c.pos[i] \in X /\ c.pos[i] \in Int
  BY Zenon DEF Holds
<1>2. \A i \in hit : i \in Size /\ ~(c.pos[i] + d < 0)
  <2>1. \A i \in hit : i \in Size
    BY DEF In
  <2> HIDE DEF hit
  <2> QED BY <1>0, <1>1, <2>1
<1>3. ShiftedIn(c, e, hit, d)
  OBVIOUS
<1> HIDE DEF hit
<1>4. \A i \in Size : e.seq[i] = c.seq[i] /\ e.pos[i] = IF i \in hit THEN c.pos[i] + d ELSE c.pos[i]
  BY <1>2, <1>3 DEF ShiftedIn
<1>5. ASSUME NEW i \in Size, s \in e.seq[i] PROVE e.pos[i] \in Y
  <2>1. s \in c.seq[i] /\ c.pos[i] \in X
    BY <1>1, <1>4, <1>5
  <2>2. CASE i \in hit
    BY <1>0, <1>4, <2>1, <2>2, Zenon
  <2>3. CASE i \notin hit
    BY <1>0, <1>4, <2>1, <2>3
  <2> QED BY <2>2, <2>3, Zenon
<1>6. ASSUME NEW p \in Y PROVE \E i \in Size : s \in e.seq[i] /\ e.pos[i] = p
  <2>1. CASE p \in X /\ ~(p0 <= p /\ p < p1)
    <3>1. PICK i \in Size : s \in c.seq[i] /\ c.pos[i] = p
      BY <2>1 DEF Holds
    <3>2. i \notin hit
      BY <1>0, <2>1, <3>1
    <3> QED BY <1>4, <3>1, <3>2
  <2>2. CASE \E q \in X : p0 <= q /\ q < p1 /\ p = q + d
    <3>1. PICK q \in X : p0 <= q /\ q < p1 /\ p = q + d
      BY <2>2
    <3>2. PICK i \in Size : s \in c.seq[i] /\ c.pos[i] = q
      BY <3>1 DEF Holds
    <3>3. i \in hit
      BY <1>0, <3>1, <3>2
    <3> QED BY <1>4, <3>1, <3>2, <3>3
  <2> QED BY <2>1, <2>2
<1>7. ASSUME NEW i \in Size, NEW j \in Size, s \in e.seq[i], s \in e.seq[j], e.pos[i] = e.pos[j] PROVE i = j
  <2>1. s \in c.seq[i] /\ s \in c.seq[j] /\ c.pos[i] \in X /\ c.pos[j] \in X /\ c.pos[i] \in Int /\ c.pos[j] \in Int
    BY <1>1, <1>4, <1>7
  <2>2. c.pos[i] = c.pos[j] => i = j
    BY <2>1 DEF Holds
  <2>3. CASE i \in hit /\ j \in hit
    BY <1>4, <1>7, <2>1, <2>2, <2>3
  <2>4. CASE i \in hit /\ j \notin hit
    <3>1. c.pos[j] = c.pos[i] + d /\ p0 <= c.pos[i] /\ c.pos[i] < p1
      BY <1>0, <1>4, <1>7, <2>4
    <3>2. p0 + d <= c.pos[j] /\ c.pos[j] < p1 + d
      BY <2>1, <3>1
    <3>3. p0 <= c.pos[j] /\ c.pos[j] < p1
      BY <2>1, <3>2
    <3> QED BY <1>0, <2>1, <2>4, <3>3
  <2>5. CASE i \notin hit /\ j \in hit
    <3>1. c.pos[i] = c.pos[j] + d /\ p0 <= c.pos[j] /\ c.pos[j] < p1
      BY <1>0, <1>4, <1>7, <2>5
    <3>2. p0 + d <= c.pos[i] /\ c.pos[i] < p1 + d
      BY <2>1, <3>1
    <3>3. p0 <= c.pos[i] /\ c.pos[i] < p1
      BY <2>1, <3>2
    <3> QED BY <1>0, <2>1, <2>5, <3>3
  <2>6. CASE i \notin hit /\ j \notin hit
    BY <1>4, <1>7, <2>2, <2>6
  <2> QED BY <2>3, <2>4, <2>5, <2>6
<1> HIDE DEF Y
<1>8. Holds(e, s, Y)
  BY <1>5, <1>6, <1>7 DEF Holds
<1> QED BY <1>8 DEF Y

LEMMA MovedSame ==
  ASSUME NEW c, NEW e, NEW s, NEW p0 \in Int, NEW p1, NEW d \in Int, p0 + d >= 0, c \in Tables,
         ShiftedIn(c, e, In(c, s, p0, p1), d), Shiftable(c, s, p0, p1), NEW r, r # s
  PROVE  SameFor(c, e, r)
<1> DEFINE hit == In(c, s, p0, p1)
<1>1. \A i \in hit : i \in Size /\ c.seq[i] = {s} /\ ~(c.pos[i] + d < 0)
  <2> SUFFICES ASSUME NEW i \in hit PROVE i \in Size /\ c.seq[i] = {s} /\ ~(c.pos[i] + d < 0)
    OBVIOUS
  <2>1. i \in Size /\ c.seq[i] = {s} /\ p0 <= c.pos[i]
    BY DEF Shiftable, In, pos_in
  <2>2. c.pos[i] \in Int
    <3>1. c.pos[i] # Empty => c.pos[i] \in Pos /\ c.pos[i] \in Nat
      BY <2>1, Fields DEF Tables
    <3>2. c.pos[i] = Empty => c.pos[i] = -1
      BY DEF Empty
    <3> QED BY <3>1, <3>2
  <2> QED BY <2>1, <2>2
<1>2. ShiftedIn(c, e, hit, d)
  OBVIOUS
<1> HIDE DEF hit
<1> QED BY <1>1, <1>2 DEF ShiftedIn, SameFor

\* What lies in a .. b - 1 is removed, and what lies in b .. x - 1 moves up to a.
LEMMA ChunkMoves ==
  ASSUME layout \in Layouts, NEW c, NEW e, NEW g, NEW s, NEW m \in Nat, Holds(c, s, 0 .. m - 1),
         NEW a \in Nat, NEW b \in Nat, NEW x \in Nat, a < b, b < x, x <= m,
         Left(c, e, In(c, s, a, b), s), ShiftedIn(e, g, In(e, s, b, x), a - b)
  PROVE  Holds(g, s, (0 .. a + x - b - 1) \cup (x .. m - 1))
<1> DEFINE W == 0 .. m - 1
           X == {p \in W : ~(a <= p /\ p < b)}
           d == a - b
           Y == {p \in X : ~(b <= p /\ p < x)} \cup {p + d : p \in {q \in X : b <= q /\ q < x}}
<1>1. Holds(e, s, X)
  <2>1. Holds(c, s, W)
    OBVIOUS
  <2> HIDE DEF W
  <2> QED BY <2>1, HoldsLeft
<1>2. X \in SUBSET Int /\ \A p \in X : b + d <= p /\ p < x + d => b <= p /\ p < x
  OBVIOUS
<1>3. d \in Int /\ b + d >= 0 /\ b \in Int /\ x \in Int
  OBVIOUS
<1>4. Holds(g, s, Y)
  <2>1. ShiftedIn(e, g, In(e, s, b, x), d)
    OBVIOUS
  <2> HIDE DEF X, d
  <2> QED BY <1>1, <1>2, <1>3, <2>1, HoldsMoved
<1>5. Y = (0 .. a + x - b - 1) \cup (x .. m - 1)
  <2>1. ASSUME NEW p \in Y PROVE p \in (0 .. a + x - b - 1) \cup (x .. m - 1)
    OBVIOUS
  <2>2. ASSUME NEW p \in 0 .. a - 1 PROVE p \in Y
    OBVIOUS
  <2>3. ASSUME NEW p \in x .. m - 1 PROVE p \in Y
    OBVIOUS
  <2>4. ASSUME NEW p \in a .. a + x - b - 1 PROVE p \in Y
    <3>1. p - d \in X /\ b <= p - d /\ p - d < x /\ p = (p - d) + d
      OBVIOUS
    <3> HIDE DEF X
    <3> QED BY <3>1
  <2>5. \A p \in (0 .. a + x - b - 1) \cup (x .. m - 1) :
          p \in 0 .. a - 1 \/ p \in a .. a + x - b - 1 \/ p \in x .. m - 1
    OBVIOUS
  <2> HIDE DEF Y
  <2> QED BY <2>1, <2>2, <2>3, <2>4, <2>5
<1> HIDE DEF Y
<1> QED BY <1>4, <1>5

\* What may be shifted still may when other positions have left.
LEMMA ShiftableLeft ==
  ASSUME NEW c, NEW e, NEW s, NEW u, Left(c, e, u, s), NEW p0, NEW p1, Shiftable(c, s, p0, p1)
  PROVE  Shiftable(e, s, p0, p1)
<1> SUFFICES ASSUME NEW i \in In(e, s, p0, p1) PROVE e.seq[i] = {s}
  BY DEF Shiftable
<1>1. i \in Size /\ s \in e.seq[i] /\ p0 <= e.pos[i] /\ e.pos[i] < p1
  BY DEF In, pos_in, seq_has
<1>2. i \notin u
  BY <1>1, Zenon DEF Left
<1>3. e.seq[i] = c.seq[i] /\ e.pos[i] = c.pos[i]
  BY <1>1, <1>2, Zenon DEF Left
<1>4. i \in In(c, s, p0, p1)
  BY <1>1, <1>3 DEF In, pos_in, seq_has
<1> QED BY <1>3, <1>4 DEF Shiftable

\* Sequence dst shares the cells of src.
LEMMA JoinedRun ==
  ASSUME layout \in Layouts, NEW c, NEW e, NEW src, NEW dst,
         JoinedIn(c, e, In(c, src, 0, MaxPos + 1), dst), HasRun(c, src), \A i \in Size : dst \notin c.seq[i]
  PROVE  HasRun(e, dst)
<1>1. PICK m \in Ends : Holds(c, src, 0 .. m - 1)
  BY DEF HasRun, Run
<1>2. m \in 0 .. MaxPos + 1 /\ MaxPos \in Nat
  BY LayoutFacts DEF Ends
<1>3. \A i \in Size : i \in In(c, src, 0, MaxPos + 1) <=> src \in c.seq[i]
  <2> SUFFICES ASSUME NEW i \in Size, src \in c.seq[i] PROVE 0 <= c.pos[i] /\ c.pos[i] < MaxPos + 1
    BY DEF In, pos_in, seq_has
  <2>1. c.pos[i] \in 0 .. m - 1
    BY <1>1 DEF Holds
  <2> QED BY <1>2, <2>1
<1>4. \A i \in Size : (dst \in e.seq[i] <=> src \in c.seq[i]) /\ e.pos[i] = c.pos[i]
  BY <1>3, Zenon DEF JoinedIn
<1>5. Holds(e, dst, 0 .. m - 1)
  BY <1>1, <1>4 DEF Holds
<1> QED BY <1>5 DEF HasRun, Run

LEMMA JoinedSame ==
  ASSUME NEW c, NEW e, NEW u, NEW dst, JoinedIn(c, e, u, dst), NEW r, r # dst
  PROVE  SameFor(c, e, r)
BY Zenon DEF JoinedIn, SameFor

\* The cells of src are entered for dst in a table of its own.
LEMMA EnteredRun ==
  ASSUME NEW c, NEW e, NEW src, NEW dst, EnteredIn(c, e, {i \in Size : seq_has(c, i, src)}, dst), HasRun(c, src)
  PROVE  HasRun(e, dst)
<1>1. PICK m \in Ends : Holds(c, src, 0 .. m - 1)
  BY DEF HasRun, Run
<1>2. \A i \in Size : (dst \in e.seq[i] <=> src \in c.seq[i]) /\ (src \in c.seq[i] => e.pos[i] = c.pos[i])
  BY DEF EnteredIn, seq_has
<1>3. Holds(e, dst, 0 .. m - 1)
  BY <1>1, <1>2 DEF Holds
<1> QED BY <1>3 DEF HasRun, Run

\* The tokens of sequence s stand at the positions of Y, each once.
Brings(tokens, s, Y) ==
  /\ \A k \in DOMAIN tokens : tokens[k].seq = s => tokens[k].pos \in Y
  /\ \A p \in Y : \E k \in DOMAIN tokens : tokens[k].seq = s /\ tokens[k].pos = p
  /\ \A j, k \in DOMAIN tokens :
       tokens[j].seq = s /\ tokens[k].seq = s /\ tokens[j].pos = tokens[k].pos => j = k

LEMMA FilledHolds ==
  ASSUME NEW c, NEW e, NEW tokens, NEW idxs \in Seq(Size), Filled(c, e, tokens, idxs, DOMAIN idxs),
         Distinct(idxs), ToSet(idxs) \subseteq FreeCells(c), DOMAIN idxs = DOMAIN tokens,
         NEW s, NEW X \in SUBSET Nat, Holds(c, s, X), NEW Y, Brings(tokens, s, Y), X \cap Y = {}
  PROVE  Holds(e, s, X \cup Y)
<1> DEFINE N == DOMAIN idxs
           old(i) == \A k \in N : idxs[k] # i
<1>1. \A k \in N : idxs[k] \in Size /\ c.pos[idxs[k]] = Empty
  <2>1. \A k \in N : idxs[k] \in Size /\ idxs[k] \in FreeCells(c)
    BY ElementOfSeq, LenProperties DEF ToSet
  <2> QED BY <2>1 DEF FreeCells
<1>2. \A k \in N : e.pos[idxs[k]] = tokens[k].pos /\ e.seq[idxs[k]] = {tokens[k].seq}
  BY DEF Filled
<1>3. \A i \in Size : old(i) => e.pos[i] = c.pos[i] /\ e.seq[i] = c.seq[i]
  BY DEF Filled
<1>4. \A j, k \in N : idxs[j] = idxs[k] => j = k
  BY DEF Distinct
<1>5. \A k \in N : tokens[k].seq = s => tokens[k].pos \in Y
  BY DEF Brings
<1>6. \A j, k \in N : tokens[j].seq = s /\ tokens[k].seq = s /\ tokens[j].pos = tokens[k].pos => j = k
  BY DEF Brings
<1>7. Empty \notin X
  BY DEF Empty
<1> HIDE DEF N
<1>8. ASSUME NEW i \in Size, s \in e.seq[i], ~old(i)
      PROVE  \E k \in N : idxs[k] = i /\ tokens[k].seq = s /\ e.pos[i] = tokens[k].pos /\ e.pos[i] \in Y
  <2>1. PICK k \in N : idxs[k] = i
    BY <1>8
  <2>2. tokens[k].seq = s /\ e.pos[i] = tokens[k].pos
    BY <1>2, <1>8, <2>1
  <2> QED BY <1>5, <2>1, <2>2
<1>9. ASSUME NEW i \in Size, s \in e.seq[i], old(i) PROVE s \in c.seq[i] /\ e.pos[i] = c.pos[i] /\ e.pos[i] \in X
  BY <1>3, <1>9 DEF Holds
<1> HIDE DEF old
<1>10. \A i \in Size : s \in e.seq[i] => e.pos[i] \in X \cup Y
  BY <1>8, <1>9
<1>11. ASSUME NEW p \in X PROVE \E i \in Size : s \in e.seq[i] /\ e.pos[i] = p
  <2>1. PICK i \in Size : s \in c.seq[i] /\ c.pos[i] = p
    BY DEF Holds
  <2>2. old(i)
    BY <1>1, <1>7, <2>1 DEF old
  <2> QED BY <1>3, <2>1, <2>2
<1>12. ASSUME NEW p \in Y PROVE \E i \in Size : s \in e.seq[i] /\ e.pos[i] = p
  <2>1. PICK k \in N : tokens[k].seq = s /\ tokens[k].pos = p
    BY DEF Brings, N
  <2> QED BY <1>1, <1>2, <2>1, Zenon
<1>13. ASSUME NEW i \in Size, NEW j \in Size, s \in e.seq[i], s \in e.seq[j], e.pos[i] = e.pos[j] PROVE i = j
  <2>1. CASE old(i) /\ old(j)
    BY <1>9, <1>13, <2>1 DEF Holds
  <2>2. CASE old(i) /\ ~old(j)
    <3>1. e.pos[i] \in X /\ e.pos[j] \in Y
      BY <1>8, <1>9, <1>13, <2>2
    <3> QED BY <1>13, <3>1
  <2>3. CASE ~old(i) /\ old(j)
    <3>1. e.pos[j] \in X /\ e.pos[i] \in Y
      BY <1>8, <1>9, <1>13, <2>3
    <3> QED BY <1>13, <3>1
  <2>4. CASE ~old(i) /\ ~old(j)
    <3>1. PICK k \in N : idxs[k] = i /\ tokens[k].seq = s /\ e.pos[i] = tokens[k].pos
      BY <1>8, <1>13, <2>4
    <3>2. PICK l \in N : idxs[l] = j /\ tokens[l].seq = s /\ e.pos[j] = tokens[l].pos
      BY <1>8, <1>13, <2>4
    <3>3. k = l
      BY <1>6, <1>13, <3>1, <3>2, Zenon
    <3> QED BY <3>1, <3>2, <3>3
  <2> QED BY <2>1, <2>2, <2>3, <2>4
<1> QED BY <1>10, <1>11, <1>12, <1>13, Zenon DEF Holds

\* An ubatch has the next tokens of each sequence.
LEMMA SegmentBrings ==
  ASSUME layout \in Layouts, NEW x \in Amounts, NEW m \in Amounts, InBounds(x, m), NEW s \in Seqs
  PROVE  Brings(TokensOf(x, m, stream(s)), s, x[s] .. x[s] + m[s] - 1)
<1> DEFINE S == Segments(x, m, stream(s))
           f == TokensOf(x, m, stream(s))
           Y == x[s] .. x[s] + m[s] - 1
<1>1. Enumerates(f, S) /\ S \in SUBSET Token
  BY TokensOfType
<1>2. x[s] \in Nat /\ m[s] \in Nat
  BY DEF Amounts
<1>3. \A z \in S : z.seq = s => z.pos \in Y
  <2> SUFFICES ASSUME NEW r \in Seqs, stream(r) = stream(s), NEW z \in Segment(x, m, r), z.seq = s PROVE z.pos \in Y
    BY DEF Segments
  <2>1. PICK k \in 1..m[r] : z = [seq |-> r, pos |-> x[r] + k - 1]
    BY DEF Segment
  <2>2. r = s /\ z.pos = x[s] + k - 1
    BY <2>1
  <2> QED BY <1>2, <2>1, <2>2
<1>4. ASSUME NEW p \in Y PROVE \E z \in S : z.seq = s /\ z.pos = p
  <2> DEFINE k == p - x[s] + 1
             z == [seq |-> s, pos |-> x[s] + k - 1]
  <2>1. k \in 1..m[s] /\ x[s] + k - 1 = p
    BY <1>2
  <2>2. z \in Segment(x, m, s)
    BY <2>1 DEF Segment
  <2>3. z \in S
    BY <2>2 DEF Segments
  <2>4. z.seq = s /\ z.pos = p
    BY <2>1
  <2> HIDE DEF S, z
  <2> QED BY <2>3, <2>4
<1>5. \A y, z \in Token : y.seq = z.seq /\ y.pos = z.pos => y = z
  BY DEF Token
<1> HIDE DEF S, f, Y
<1>6. \A k \in DOMAIN f : f[k] \in S
  BY <1>1 DEF Enumerates
<1>7. \A z \in S : \E k \in DOMAIN f : f[k] = z
  BY <1>1 DEF Enumerates
<1>8. \A j, k \in DOMAIN f : f[j] = f[k] => j = k
  BY <1>1 DEF Enumerates, Distinct
<1>9. \A p \in Y : \E k \in DOMAIN f : f[k].seq = s /\ f[k].pos = p
  BY <1>4, <1>7
<1>10. Brings(f, s, Y)
  BY <1>1, <1>3, <1>5, <1>6, <1>8, <1>9 DEF Brings
<1> QED BY <1>10 DEF f, Y

\* Each sequence advances by its tokens of an ubatch.
LEMMA CutRuns ==
  ASSUME layout \in Layouts, NEW vs, NEW ws, NEW ub \in Ubatch, NEW slot \in SlotMaps, Fills(slot, ub),
         FreeSlot(vs, slot), AllFilled(vs, ws, ub, slot),
         NEW x \in Amounts, NEW y \in Amounts, IsCut(x, y, ub), RunsTo(vs, x)
  PROVE  RunsTo(ws, y)
<1> SUFFICES ASSUME NEW s \in Seqs PROVE Run(ws[stream(s)].cells, s, y[s])
  BY DEF RunsTo
<1> DEFINE d == stream(s)
           c == vs[d].cells
           e == ws[d].cells
<1>1. PICK m \in Amounts : InBounds(x, m) /\ y = Onward(x, m) /\ ub = [b \in Streams |-> TokensOf(x, m, b)]
  BY DEF IsCut
<1>2. d \in Streams /\ x[s] \in Nat /\ m[s] \in Nat /\ y[s] = x[s] + m[s] /\ MaxPos \in Nat
  BY <1>1, LayoutFacts DEF Amounts, Onward
<1>3. Brings(ub[d], s, x[s] .. x[s] + m[s] - 1)
  BY <1>1, <1>2, SegmentBrings
<1>4. Run(c, s, x[s])
  BY DEF RunsTo
<1>5. slot[d] \in Seq(Size) /\ ub[d] \in Seq(Token) /\ Len(slot[d]) = Len(ub[d])
  BY <1>2 DEF SlotMaps, Ubatch, Fills
<1>6. DOMAIN slot[d] = DOMAIN ub[d]
  BY <1>5, LenProperties
<1>7. Filled(c, e, ub[d], slot[d], DOMAIN slot[d]) /\ Distinct(slot[d]) /\ ToSet(slot[d]) \subseteq FreeCells(c)
  BY <1>2 DEF AllFilled, FreeSlot
<1> HIDE DEF c, e, d
<1> DEFINE X == 0 .. x[s] - 1
           Y == x[s] .. x[s] + m[s] - 1
<1>8. Holds(c, s, X) /\ Brings(ub[d], s, Y) /\ X \in SUBSET Nat /\ X \cap Y = {}
  BY <1>2, <1>3, <1>4 DEF Run
<1>9. X \cup Y = 0 .. y[s] - 1
  BY <1>2
<1> HIDE DEF X, Y
<1>10. Holds(e, s, X \cup Y)
  BY <1>5, <1>6, <1>7, <1>8, FilledHolds
<1>11. y[s] \in Ends
  <2>1. x[s] \in Ends
    BY <1>4 DEF Run
  <2>2. m[s] = 0 \/ x[s] + m[s] <= MaxPos + 1
    BY <1>1 DEF InBounds
  <2> QED BY <1>2, <2>1, <2>2 DEF Ends
<1> QED BY <1>9, <1>10, <1>11, Zenon DEF Run, e, d

\* So does it along all the ubatches of a batch.
LEMMA LeadsRuns ==
  ASSUME layout \in Layouts, NEW ubs \in Seq(Ubatch), NEW slots \in Seq(SlotMaps), Fitting(ubs, slots),
         NEW k \in Nat, k <= Len(slots), NEW w, Leads(w, ubs, slots, k),
         NEW nx, NEW first, NEW n, Plans(nx, ubs, first, n), RunsTo(w[0], first)
  PROVE  \A j \in 0..k : RunsTo(w[j], nx[j])
<1> DEFINE f == [j \in 0..k |-> j]
           P == [j \in 0..k |-> {i \in 0..k : RunsTo(w[i], nx[i])}]
<1>1. Len(ubs) \in Nat /\ Len(slots) \in Nat /\ k <= Len(ubs)
  <2>1. Len(ubs) \in Nat /\ Len(slots) \in Nat /\ Len(slots) <= Len(ubs)
    BY LenProperties DEF Fitting
  <2> QED BY <2>1
<1>2. RunsTo(w[0], nx[0])
  BY DEF Plans
<1>3. ASSUME NEW j \in 1..k, RunsTo(w[j - 1], nx[j - 1]) PROVE RunsTo(w[j], nx[j])
  <2>1. j \in 1..Len(ubs) /\ j \in 1..Len(slots) /\ j - 1 \in 0..Len(ubs) /\ j \in 0..Len(ubs)
    BY <1>1
  <2>2. ubs[j] \in Ubatch /\ slots[j] \in SlotMaps /\ Fills(slots[j], ubs[j])
    BY <2>1, ElementOfSeq DEF Fitting
  <2>3. FreeSlot(w[j - 1], slots[j]) /\ AllFilled(w[j - 1], w[j], ubs[j], slots[j])
    BY DEF Leads
  <2>4. nx[j - 1] \in Amounts /\ nx[j] \in Amounts /\ IsCut(nx[j - 1], nx[j], ubs[j])
    BY <2>1, Zenon DEF Plans
  <2> QED BY <1>3, <2>2, <2>3, <2>4, CutRuns
<1>4. KeepsIn(k, P, f)
  <2>1. 0 \in 0..k /\ \A j \in 1..k : j \in 0..k /\ j - 1 \in 0..k
    OBVIOUS
  <2> QED BY <1>2, <1>3, <2>1, Zenon DEF KeepsIn
<1>5. \A j \in 0..k : f[j] \in P[j]
  <2> HIDE DEF f, P
  <2> QED BY <1>4, StepsKeep
<1> QED BY <1>5

-----------------------------------------------------------------------------
(* The sequences when one stream changes.                                  *)

LEMMA StreamRuns ==
  ASSUME layout \in Layouts, NEW vs \in Caches, AllRun(vs), NEW s \in Seqs, NEW t,
         \A r \in Seqs : stream(r) = stream(s) => HasRun(t.cells, r)
  PROVE  AllRun([vs EXCEPT ![stream(s)] = t])
<1> DEFINE ws == [vs EXCEPT ![stream(s)] = t]
<1>1. \A d \in Streams : ws[d] = IF d = stream(s) THEN t ELSE vs[d]
  BY DEF Caches
<1> HIDE DEF ws
<1>2. ASSUME NEW r \in Seqs PROVE HasRun(ws[stream(r)].cells, r)
  <2>1. stream(r) \in Streams /\ HasRun(vs[stream(r)].cells, r)
    BY LayoutFacts DEF AllRun
  <2>2. CASE stream(r) = stream(s)
    BY <1>1, <2>1, <2>2
  <2>3. CASE stream(r) # stream(s)
    BY <1>1, <2>1, <2>3
  <2> QED BY <2>2, <2>3
<1> QED BY <1>2 DEF AllRun, ws

\* seq_rm to the end leaves a shorter run.
LEMMA RemovedRuns ==
  ASSUME layout \in Layouts, NEW vs \in Caches, AllRun(vs), NEW s \in Seqs, NEW p \in Nat
  PROVE  AllRun([vs EXCEPT ![stream(s)] = SeqRm(vs[stream(s)], s, p, MaxPos + 1)])
<1> DEFINE t == vs[stream(s)]
           u == SeqRm(t, s, p, MaxPos + 1)
<1>1. t \in TStream
  BY LayoutFacts DEF Caches
<1>2. Left(t.cells, u.cells, In(t.cells, s, p, MaxPos + 1), s)
  BY <1>1, SeqRmKeeps
<1> HIDE DEF u
<1>3. ASSUME NEW r \in Seqs, stream(r) = stream(s) PROVE HasRun(u.cells, r)
  <2>1. HasRun(t.cells, r)
    BY <1>3 DEF AllRun
  <2> HIDE DEF t
  <2>2. CASE r = s
    BY <1>2, <2>1, <2>2, CutRun
  <2>3. CASE r # s
    BY <1>2, <2>1, <2>3, LeftSame, RunSame
  <2> QED BY <2>2, <2>3
<1>4. AllRun([vs EXCEPT ![stream(s)] = u])
  BY <1>3, StreamRuns
<1> QED BY <1>4 DEF u, t

-----------------------------------------------------------------------------
(* The positions of a sequence, and the failure of a computation.          *)

LEMMA SeqPosMaxType ==
  ASSUME layout \in Layouts, NEW c, NEW s \in Seqs
  PROVE  seq_pos_max(c, s) \in -1..MaxPos
<1> DEFINE A == PosOf(c, s)
<1>1. A \in SUBSET Pos /\ Pos = 0..MaxPos /\ MaxPos \in Nat
  BY LayoutFacts DEF PosOf
<1>2. A \in SUBSET Nat /\ IsFiniteSet(A)
  <2>1. IsFiniteSet(Pos)
    BY <1>1, FS_Interval
  <2> HIDE DEF A
  <2>2. IsFiniteSet(A)
    BY <1>1, <2>1, FS_Subset, Zenon
  <2> QED BY <1>1, <2>2
<1> DEFINE m == CHOOSE p \in A : \A q \in A : q <= p
<1>3. seq_pos_max(c, s) = IF A = {} THEN -1 ELSE m
  BY DEF seq_pos_max
<1> HIDE DEF A
<1>4. A # {} => \E p \in A : \A q \in A : q <= p
  BY <1>2, Greatest
<1>5. A # {} => m \in A
  BY <1>4
<1> HIDE DEF m
<1>6. A = {} => seq_pos_max(c, s) = -1
  BY <1>3
<1>7. A # {} => seq_pos_max(c, s) \in 0..MaxPos
  BY <1>1, <1>3, <1>5, Zenon
<1> QED BY <1>1, <1>6, <1>7

LEMMA NextPosType ==
  ASSUME layout \in Layouts, NEW vs, NEW s \in Seqs
  PROVE  next_pos(vs, s) \in 0 .. MaxPos + 1
BY SeqPosMaxType, LayoutFacts DEF next_pos

\* The tokens of s in an ubatch that failed are removed.
DropOne(ub, s, u) ==
  LET from == {x.pos : x \in {y \in ToSet(ub[stream(s)]) : y.seq = s}}
  IN IF from = {} THEN u ELSE [u EXCEPT ![stream(s)] = SeqRm(@, s, Min(from), MaxPos + 1)]

DropAll(vs, ub) == FoldSet(LAMBDA s, u : DropOne(ub, s, u), vs, Seqs)

LEMMA DropAllKeeps ==
  ASSUME layout \in Layouts, NEW vs \in Caches, NEW ub \in Ubatch
  PROVE  DropAll(vs, ub) \in Caches /\ (AllRun(vs) => AllRun(DropAll(vs, ub)))
<1> DEFINE pick(u) == CHOOSE y \in u : TRUE
           S == Seqs
           base == vs
           does(i, x) == DropOne(ub, i, x)
           ch == [u \in SUBSET S |-> pick(u)]
           P == [u \in SUBSET S |-> {e \in Caches : AllRun(vs) => AllRun(e)}]
           step == [z \in S \X Caches |-> does(z[1], z[2])]
           value(u, f) == IF u = {} THEN base ELSE does(pick(u), f[u \ {pick(u)}])
           Solves(f) == f = [u \in SUBSET S |-> value(u, f)]
           iter == CHOOSE f : Solves(f)
<1>1. DropAll(vs, ub) = iter[S]
  BY DEF DropAll, FoldSet, MapThenFoldSet
<1>2. IsFiniteSet(S) /\ \A u \in SUBSET S : u # {} => pick(u) \in u
  BY LayoutFacts, FS_Subset
<1>3. base \in P[{}]
  OBVIOUS
<1>4. ASSUME NEW u \in SUBSET S, u # {}, NEW x \in P[u \ {pick(u)}]
      PROVE  does(pick(u), x) \in P[u] /\ pick(u) \in S /\ x \in Caches
  <2> DEFINE i == pick(u)
             e == does(i, x)
  <2>1. i \in u /\ i \in S /\ u \in SUBSET S /\ u \ {i} \in SUBSET S
    BY <1>2, <1>4
  <2>2. x \in Caches /\ (AllRun(vs) => AllRun(x))
    BY <2>1
  <2> HIDE DEF i, P, ch, pick, S, base
  <2>3. i \in Seqs /\ stream(i) \in Streams
    BY <2>1, LayoutFacts DEF S
  <2>4. e \in Caches /\ (AllRun(vs) => AllRun(e))
    <3> DEFINE from == {y.pos : y \in {y \in ToSet(ub[stream(i)]) : y.seq = i}}
               q == SeqRm(x[stream(i)], i, Min(from), MaxPos + 1)
    <3>1. q \in TStream
      BY <2>2, <2>3, SeqRmKeeps DEF Caches
    <3>2. e = IF from = {} THEN x ELSE [x EXCEPT ![stream(i)] = q]
      BY DEF DropOne
    <3>3. from # {} => Min(from) \in Nat
      <4>1. ub[stream(i)] \in Seq(Token)
        BY <2>3 DEF Ubatch
      <4>2. \A y \in ToSet(ub[stream(i)]) : y.pos \in Nat
        <5>1. \A y \in ToSet(ub[stream(i)]) : y \in Token
          BY <4>1, ElementOfSeq, LenProperties DEF ToSet
        <5>2. \A y \in Token : y.pos \in Nat
          BY LayoutFacts DEF Token
        <5> QED BY <5>1, <5>2
      <4>3. from \in SUBSET Nat
        BY <4>2
      <4> HIDE DEF from
      <4> QED BY <4>3, MinNat, Zenon
    <3> HIDE DEF from
    <3>4. from # {} /\ AllRun(x) => AllRun([x EXCEPT ![stream(i)] = q])
      BY <2>2, <2>3, <3>3, RemovedRuns
    <3> HIDE DEF q, e
    <3>5. [x EXCEPT ![stream(i)] = q] \in Caches
      BY <2>2, <2>3, <3>1 DEF Caches
    <3>6. CASE from = {}
      BY <2>2, <3>2, <3>6
    <3>7. CASE from # {}
      <4>1. e = [x EXCEPT ![stream(i)] = q]
        BY <3>2, <3>7
      <4> QED BY <2>2, <3>4, <3>5, <3>7, <4>1
    <3> QED BY <3>6, <3>7
  <2> QED BY <2>1, <2>2, <2>4 DEF P, i
<1> HIDE DEF pick, does, P, S, base
<1>5. \E f : Solves(f)
  <2>1. FoldsIn(S, ch, P, base, step)
    BY <1>2, <1>3, <1>4, Zenon DEF FoldsIn
  <2>2. PICK f : TakesFold(S, ch, P, base, step, f)
    BY <2>1, FoldExists, Zenon
  <2>3. ASSUME NEW u \in SUBSET S PROVE f[u] = value(u, f)
    BY <1>4, <2>2, Zenon DEF TakesFold
  <2>4. f = [u \in SUBSET S |-> f[u]]
    BY <2>2 DEF TakesFold
  <2> HIDE DEF value
  <2> QED BY <2>3, <2>4, Zenon
<1>6. iter[S] \in P[S]
  <2>1. Solves(iter)
    <3> HIDE DEF Solves
    <3> QED BY <1>5
  <2> HIDE DEF iter
  <2>2. \A u \in SUBSET S : iter[u] = value(u, iter)
    <3> HIDE DEF value
    <3> QED BY <2>1
  <2>3. KeepsFold(S, ch, P, iter)
    BY <1>2, <1>3, <1>4, <2>2, Zenon DEF KeepsFold
  <2> QED BY <2>3, FoldKeeps
<1> QED BY <1>1, <1>6 DEF P, S

-----------------------------------------------------------------------------
(* The buffers.                                                            *)

LEMMA NoDataType == NoData \in Data
BY DEF NoData, Data, Nobody

LEMMA ForgetType ==
  ASSUME NEW vs, NEW b \in Buffers, NEW copies
  PROVE  Forget(vs, b, copies) \in Buffers
<1> SUFFICES ASSUME NEW d \in Streams, NEW i \in Size
             PROVE  Forget(vs, b, copies)[d][i] \in Data
  BY DEF Forget, Buffers
<1>1. b[d][i] \in Data
  BY DEF Buffers
<1>2. Forget(vs, b, copies)[d][i] = NoData \/ Forget(vs, b, copies)[d][i] = b[d][i]
  BY DEF Forget
<1> QED BY <1>1, <1>2, NoDataType

LEMMA RotatedType ==
  ASSUME v \in Caches, NEW b \in Buffers
  PROVE  Rotated(b) \in Buffers
<1> SUFFICES ASSUME NEW d \in Streams, NEW i \in Size
             PROVE  [b[d][i] EXCEPT !.rot = @ + v[d].cells.shift[i]] \in Data
  BY DEF Rotated, Buffers
<1>1. b[d][i] \in Data /\ v[d].cells.shift[i] \in Int
  <2>1. v[d].cells \in Table(Size)
    BY DEF Caches, TStream, Tables
  <2> QED BY <2>1 DEF Buffers, Table
<1> QED BY <1>1 DEF Data

LEMMA UpdatedBufType ==
  ASSUME layout \in Layouts, v \in Caches, buf \in Buffers, sc_info \in Seq(Streams \X Streams)
  PROVE  UpdatedBuf \in Buffers
BY CopiedKeeps, RotatedType DEF UpdatedBuf

LEMMA UpdatedVType ==
  ASSUME layout \in Layouts, v \in Caches
  PROVE  UpdatedV \in Stills
<1>1. ASSUME NEW d \in Streams
      PROVE  reset_shift(v[d].cells) \in Tables /\ Still(reset_shift(v[d].cells))
  <2> DEFINE c == v[d].cells
             e == reset_shift(c)
  <2>1. c \in Tables
    BY DEF Caches, TStream
  <2> HIDE DEF c
  <2>2. Consistent(e, Size) /\ e.pos = c.pos /\ \A i \in Size : e.shift[i] = 0
    BY <2>1, ResetShiftConsistent, Zenon DEF Tables
  <2> HIDE DEF e
  <2>3. \A i \in Size : e.pos[i] # Empty => e.pos[i] - e.shift[i] \in Pos
    <3>1. \A i \in Size : e.pos[i] # Empty => e.pos[i] \in Pos
      BY <2>2, Fields
    <3> QED BY <2>2, <3>1, LayoutFacts
  <2> QED BY <2>2, <2>3 DEF Tables, Rooted, Consistent, Still, e, c
<1>2. ASSUME NEW d \in Streams
      PROVE  UpdatedV[d] = [cells |-> reset_shift(v[d].cells), head |-> v[d].head]
  <2>1. v[d] = [cells |-> v[d].cells, head |-> v[d].head]
    BY DEF Caches, TStream
  <2>2. UpdatedV[d] = [v[d] EXCEPT !.cells = reset_shift(@)]
    BY DEF UpdatedV
  <2> QED BY <2>1, <2>2
<1>3. \A d \in Streams : v[d].head \in 0..layout.cells
  BY DEF Caches, TStream
<1>4. \A d \in Streams : UpdatedV[d] \in TStream /\ Still(UpdatedV[d].cells)
  <2> SUFFICES ASSUME NEW d \in Streams PROVE UpdatedV[d] \in TStream /\ Still(UpdatedV[d].cells)
    OBVIOUS
  <2> DEFINE e == reset_shift(v[d].cells)
  <2>1. e \in Tables /\ Still(e) /\ v[d].head \in 0..layout.cells
    BY <1>1, <1>3
  <2>2. UpdatedV[d] = [cells |-> e, head |-> v[d].head]
    BY <1>2
  <2> HIDE DEF e
  <2> QED BY <2>1, <2>2 DEF TStream
<1>5. UpdatedV = [d \in Streams |-> UpdatedV[d]]
  BY DEF UpdatedV
<1> QED BY <1>4, <1>5 DEF Stills, Caches, Still1

-----------------------------------------------------------------------------
(* The invariant.                                                          *)

States == [pos : Pos, data : Data]

\* Every table is consistent, and every key was rotated to a position.
TablesRooted ==
  /\ layout \in Layouts
  /\ v \in Caches
  /\ buf \in Buffers
  /\ sc_info \in Seq(Streams \X Streams)
  /\ saved \in Seq(States)

LEMMA TablesStay ==
  ASSUME TablesRooted, layout' = layout, v' \in Caches, buf' \in Buffers,
         sc_info' \in Seq(Streams \X Streams), saved' \in Seq(States)
  PROVE  TablesRooted'
<1>1. Streams' = Streams /\ Size' = Size
  BY DEF Streams, Size
<1>2. Tables' = Tables
  BY <1>1 DEF Tables, Rooted
<1>3. Caches' = Caches /\ Buffers' = Buffers
  BY <1>1, <1>2 DEF Caches, TStream, Buffers
<1> QED BY <1>1, <1>3 DEF TablesRooted, States

LEMMA BecomeKeeps ==
  ASSUME TablesRooted, NEW vs \in Caches, NEW b \in Buffers, NEW copies \in Seq(Streams \X Streams),
         Become(vs, b, copies), layout' = layout, saved' \in Seq(States)
  PROVE  TablesRooted'
BY TablesStay, ForgetType DEF Become

LEMMA FreshType ==
  ASSUME layout \in Layouts
  PROVE  /\ [d \in Streams |-> [cells |-> cells_reset(Size), head |-> 0]] \in Caches
         /\ [d \in Streams |-> [i \in Size |-> NoData]] \in Buffers
<1>1. cells_reset(Size) \in Tables
  BY LayoutFacts, ResetConsistent DEF Tables, Rooted, Consistent
<1>2. 0 \in 0..layout.cells
  BY LayoutFacts
<1> QED BY <1>1, <1>2, NoDataType DEF Caches, TStream, Buffers

LEMMA InitTables == Init => TablesRooted
BY FreshType, EmptySeq DEF Init, TablesRooted

\* One stream takes another table.
LEMMA OneStream ==
  ASSUME layout \in Layouts, v \in Caches, NEW s \in Seqs, NEW t \in TStream
  PROVE  [v EXCEPT ![stream(s)] = t] \in Caches
BY LayoutFacts DEF Caches

LEMMA ClearKeeps == TablesRooted /\ Clear => TablesRooted'
BY FreshType, BecomeKeeps DEF TablesRooted, Clear

LEMMA TruncateKeeps ==
  ASSUME TablesRooted, NEW s \in Seqs, NEW p, Truncate(s, p)
  PROVE  TablesRooted'
<1> DEFINE t == SeqRm(v[stream(s)], s, p, MaxPos + 1)
           w == [v EXCEPT ![stream(s)] = t]
<1>1. t \in TStream
  BY LayoutFacts, SeqRmKeeps DEF TablesRooted, Caches
<1>2. w \in Caches
  <2> HIDE DEF t
  <2> QED BY <1>1, OneStream DEF TablesRooted
<1>3. Become(w, buf, sc_info) /\ layout' = layout /\ saved' = saved
  BY DEF Truncate
<1> HIDE DEF w
<1> QED BY <1>2, <1>3, BecomeKeeps DEF TablesRooted

LEMMA SeqKeepOneKeeps ==
  ASSUME TablesRooted, NEW s \in Seqs, SeqKeepOne(s)
  PROVE  TablesRooted'
<1> DEFINE t == SeqKeep(v[stream(s)], s)
           w == [v EXCEPT ![stream(s)] = t]
<1>1. t \in TStream
  BY LayoutFacts, SeqKeepKeeps DEF TablesRooted, Caches
<1>2. w \in Caches
  <2> HIDE DEF t
  <2> QED BY <1>1, OneStream DEF TablesRooted
<1>3. Become(w, buf, sc_info) /\ layout' = layout /\ saved' = saved
  BY DEF SeqKeepOne
<1> HIDE DEF w
<1> QED BY <1>2, <1>3, BecomeKeeps DEF TablesRooted

LEMMA ContextShiftKeeps ==
  ASSUME TablesRooted, NEW s \in Seqs, NEW n_keep \in Pos, NEW n_discard \in Pos,
         ContextShift(s, n_keep, n_discard)
  PROVE  TablesRooted'
<1> DEFINE past == next_pos(v, s)
           p == n_keep + n_discard
           u == SeqRm(v[stream(s)], s, n_keep, p)
           t == SeqAdd(u, s, p, past, -n_discard)
           w == [v EXCEPT ![stream(s)] = t]
<1>1. u \in TStream
  BY LayoutFacts, SeqRmKeeps DEF TablesRooted, Caches
<1>2. -n_discard \in Int /\ -n_discard < 0
  BY LayoutFacts DEF ContextShift, TablesRooted
<1>3. Become(w, buf, sc_info) /\ layout' = layout /\ saved' = saved
  BY DEF ContextShift
<1> HIDE DEF u, past, p
<1>4. t \in TStream
  <2>1. CASE p = past
    BY <1>1, <2>1 DEF SeqAdd
  <2>2. CASE p # past
    BY <1>1, <1>2, <2>2, SeqAddKeeps DEF TablesRooted
  <2> QED BY <2>1, <2>2
<1> HIDE DEF t
<1>5. w \in Caches
  BY <1>4, OneStream DEF TablesRooted
<1> HIDE DEF w
<1> QED BY <1>3, <1>5, BecomeKeeps DEF TablesRooted

LEMMA CacheReuseKeeps ==
  ASSUME TablesRooted, NEW s \in Seqs, NEW head_p \in Pos, NEW head_c \in Pos, NEW n_match \in Pos,
         CacheReuse(s, head_p, head_c, n_match)
  PROVE  TablesRooted'
<1> DEFINE u == SeqRm(v[stream(s)], s, head_p, head_c)
           moved == SeqAdd(u, s, head_c, head_c + n_match, head_p - head_c)
           t == SeqRm(moved, s, head_p + n_match, MaxPos + 1)
           w == [v EXCEPT ![stream(s)] = t]
<1>1. u \in TStream
  BY LayoutFacts, SeqRmKeeps DEF TablesRooted, Caches
<1>2. head_p - head_c \in Int /\ head_p - head_c < 0 /\ head_c # head_c + n_match
  BY LayoutFacts DEF CacheReuse, TablesRooted
<1>3. Become(w, buf, sc_info) /\ layout' = layout /\ saved' = saved
  BY DEF CacheReuse
<1> HIDE DEF u
<1>4. moved \in TStream
  BY <1>1, <1>2, SeqAddKeeps DEF TablesRooted
<1> HIDE DEF moved
<1>5. t \in TStream
  BY <1>4, SeqRmKeeps DEF TablesRooted
<1> HIDE DEF t
<1>6. w \in Caches
  BY <1>5, OneStream DEF TablesRooted
<1> HIDE DEF w
<1> QED BY <1>3, <1>6, BecomeKeeps DEF TablesRooted

\* A sequence that was removed is in no cell.
LEMMA GoneEverywhere ==
  ASSUME layout \in Layouts, NEW t \in TStream, NEW s \in Seqs
  PROVE  \A i \in Size : s \notin SeqRm(t, s, 0, MaxPos + 1).cells.seq[i]
<1> DEFINE e == SeqRm(t, s, 0, MaxPos + 1).cells
           hit == In(t.cells, s, 0, MaxPos + 1)
<1>1. Left(t.cells, e, hit, s)
  BY SeqRmKeeps
<1>2. ASSUME NEW i \in Size, i \notin hit PROVE s \notin t.cells.seq[i]
  <2>1. t.cells \in Tables
    BY DEF TStream
  <2>2. t.cells.pos[i] # Empty => 0 <= t.cells.pos[i] /\ t.cells.pos[i] < MaxPos + 1
    <3>1. t.cells.pos[i] # Empty => t.cells.pos[i] \in Pos
      BY <2>1, Fields DEF Tables
    <3> QED BY <3>1, LayoutFacts
  <2>3. t.cells.pos[i] = Empty => t.cells.seq[i] = {}
    BY <2>1 DEF Tables, Consistent, FreeIsClean
  <2> QED BY <1>2, <2>2, <2>3 DEF In, pos_in, seq_has
<1> HIDE DEF e, hit
<1>3. \A i \in Size : s \notin e.seq[i]
  BY <1>1, <1>2, Zenon DEF Left
<1> QED BY <1>3 DEF e

LEMMA CopyStateKeeps ==
  ASSUME TablesRooted, NEW src \in Seqs, NEW dst \in Seqs, CopyState(src, dst)
  PROVE  TablesRooted'
<1> DEFINE u == SeqRm(v[stream(dst)], dst, 0, MaxPos + 1)
           emptied == [v EXCEPT ![stream(dst)] = u]
           shared == [emptied EXCEPT ![0] = SeqShare(emptied[0], src, dst)]
           entered == [emptied EXCEPT ![dst] = SeqEnter(emptied[src], src, dst)]
           copies == Append(sc_info, <<src, dst>>)
<1>0. layout \in Layouts /\ v \in Caches
  BY DEF TablesRooted
<1>1. u \in TStream /\ \A i \in Size : dst \notin u.cells.seq[i]
  <2>1. v[stream(dst)] \in TStream
    BY <1>0, LayoutFacts DEF Caches
  <2> QED BY <1>0, <2>1, SeqRmKeeps, GoneEverywhere
<1>2. /\ layout.unified => Become(shared, buf, sc_info)
      /\ ~layout.unified => Become(entered, buf, copies)
      /\ layout' = layout /\ saved' = saved
  BY DEF CopyState
<1> HIDE DEF u
<1>3. emptied \in Caches
  BY <1>0, <1>1, OneStream
<1>4. CASE layout.unified
  <2>1. stream(dst) = 0 /\ Streams = {0}
    BY <1>4 DEF stream, Streams
  <2>2. emptied[0] = u
    BY <1>0, <2>1 DEF Caches
  <2> HIDE DEF emptied
  <2>3. SeqShare(emptied[0], src, dst) \in TStream
    BY <1>0, <1>1, <2>2, SeqShareKeeps
  <2>4. shared \in Caches
    BY <1>3, <2>1, <2>3 DEF Caches
  <2> HIDE DEF shared
  <2> QED BY <1>2, <1>4, <2>4, BecomeKeeps DEF TablesRooted
<1>5. CASE ~layout.unified
  <2>1. Streams = Seqs
    BY <1>5 DEF Streams
  <2> HIDE DEF emptied
  <2>2. SeqEnter(emptied[src], src, dst) \in TStream
    BY <1>0, <1>3, <2>1, SeqEnterKeeps, Zenon DEF Caches
  <2>3. entered \in Caches
    BY <1>3, <2>1, <2>2 DEF Caches
  <2>4. copies \in Seq(Streams \X Streams)
    BY <2>1, AppendProperties DEF TablesRooted
  <2> HIDE DEF entered, copies
  <2> QED BY <1>2, <1>5, <2>3, <2>4, BecomeKeeps DEF TablesRooted
<1> QED BY <1>4, <1>5

LEMMA SaveKeeps ==
  ASSUME TablesRooted, NEW s \in Seqs, Save(s)
  PROVE  TablesRooted'
<1> DEFINE d == stream(s)
<1>0. layout \in Layouts /\ v \in Caches /\ buf \in Buffers /\ d \in Streams
  BY LayoutFacts DEF TablesRooted
<1> DEFINE c == v[d].cells
           kept == {i \in Size : seq_has(c, i, s) /\ ~is_masked_swa(c.pos[i], seq_pos_max(c, s))}
           order == Ascending(kept)
<1>1. saved' = [k \in DOMAIN order |-> [pos |-> c.pos[order[k]], data |-> buf[d][order[k]]]]
  BY DEF Save, InOrder, Ascending
<1>2. UNCHANGED <<layout, v, buf, sc_info>>
  BY DEF Save
<1>3. c \in Tables
  BY <1>0 DEF Caches, TStream
<1>4. kept \in SUBSET Size /\ kept \in SUBSET Nat /\ IsFiniteSet(kept)
  BY <1>0, LayoutFacts, FS_Subset
<1>5. \A i \in kept : c.pos[i] \in Pos
  BY <1>3, Fields DEF Tables, Consistent, FreeIsClean, seq_has
<1> HIDE DEF kept, c, d
<1>6. order \in Seq(kept) /\ DOMAIN order = 1..Len(order) /\ Len(order) \in Nat
  BY <1>4, AscendingIs, LenProperties
<1> HIDE DEF order
<1>7. \A k \in 1..Len(order) : [pos |-> c.pos[order[k]], data |-> buf[d][order[k]]] \in States
  <2> SUFFICES ASSUME NEW k \in 1..Len(order)
               PROVE  [pos |-> c.pos[order[k]], data |-> buf[d][order[k]]] \in States
    OBVIOUS
  <2>1. order[k] \in kept /\ order[k] \in Size
    BY <1>4, <1>6, ElementOfSeq, Zenon
  <2>2. buf[d][order[k]] \in Data
    BY <1>0, <2>1 DEF Buffers
  <2> QED BY <1>5, <2>1, <2>2 DEF States
<1>8. saved' \in Seq(States)
  BY <1>1, <1>6, <1>7
<1> QED BY <1>0, <1>2, <1>8, TablesStay DEF TablesRooted

LEMMA LoadKeeps ==
  ASSUME TablesRooted, NEW s \in Seqs, Load(s)
  PROVE  TablesRooted'
<1> DEFINE d == stream(s)
           t == SeqRm(v[d], s, 0, MaxPos + 1)
           idxs == find_slot(t, Len(saved))
           tokens == [k \in DOMAIN saved |-> [seq |-> s, pos |-> saved[k].pos]]
           written == [i \in Size |-> IF i \in ToSet(idxs)
                                      THEN saved[CHOOSE k \in DOMAIN idxs : idxs[k] = i].data
                                      ELSE buf[d][i]]
           w == apply_ubatch(t, tokens, idxs)
           without == [v EXCEPT ![d] = t]
           with == [v EXCEPT ![d] = w]
           held == [buf EXCEPT ![d] = written]
<1>0. /\ layout \in Layouts /\ v \in Caches /\ buf \in Buffers /\ d \in Streams
      /\ saved \in Seq(States) /\ Len(saved) \in Nat /\ DOMAIN saved = 1..Len(saved)
      /\ sc_info \in Seq(Streams \X Streams)
  BY LayoutFacts, LenProperties DEF TablesRooted
<1>1. t \in TStream
  BY <1>0, SeqRmKeeps DEF Caches
<1>2. /\ idxs = <<>> => Become(without, buf, sc_info)
      /\ idxs # <<>> => Become(with, held, sc_info)
      /\ layout' = layout /\ saved' \in {saved, <<>>}
  BY DEF Load
<1> HIDE DEF d, t
<1>3. saved' \in Seq(States)
  BY <1>0, <1>2, EmptySeq, Zenon
<1>4. without \in Caches
  BY <1>0, <1>1 DEF Caches
<1>5. CASE idxs = <<>>
  <2> HIDE DEF without, idxs
  <2> QED BY <1>0, <1>2, <1>3, <1>4, <1>5, BecomeKeeps
<1>6. CASE idxs # <<>>
  <2>1. idxs \in Seq(Size) /\ Len(idxs) = Len(saved) /\ DOMAIN idxs = 1..Len(saved)
    BY <1>0, <1>1, <1>6, FindSlotType, LenProperties
  <2>2. \A k \in 1..Len(saved) : saved[k] \in States
    BY <1>0, ElementOfSeq
  <2>3. tokens \in Seq(Token) /\ Len(tokens) = Len(saved)
    <3>1. \A k \in 1..Len(saved) : [seq |-> s, pos |-> saved[k].pos] \in Token
      BY <2>2 DEF States, Token
    <3> QED BY <1>0, <3>1
  <2> HIDE DEF idxs, tokens
  <2>4. Len(idxs) <= Len(tokens)
    BY <1>0, <2>1, <2>3
  <2>5. w \in TStream
    BY <1>0, <1>1, <1>6, <2>1, <2>3, <2>4, ApplyUbatchKeeps
  <2> HIDE DEF w
  <2>6. with \in Caches
    BY <1>0, <2>5 DEF Caches
  <2>7. written \in [Size -> Data]
    <3> SUFFICES ASSUME NEW i \in Size PROVE written[i] \in Data
      OBVIOUS
    <3>1. CASE i \in ToSet(idxs)
      <4> DEFINE k == CHOOSE k \in DOMAIN idxs : idxs[k] = i
      <4>1. \E k0 \in DOMAIN idxs : idxs[k0] = i
        BY <3>1 DEF ToSet
      <4>2. k \in DOMAIN idxs
        BY <4>1
      <4>3. written[i] = saved[k].data
        BY <3>1
      <4> HIDE DEF k
      <4> QED BY <2>1, <2>2, <4>2, <4>3 DEF States
    <3>2. CASE i \notin ToSet(idxs)
      BY <1>0, <3>2 DEF Buffers
    <3> QED BY <3>1, <3>2
  <2> HIDE DEF written
  <2>8. held \in Buffers
    BY <1>0, <2>7 DEF Buffers
  <2> HIDE DEF with, held
  <2> QED BY <1>0, <1>2, <1>3, <1>6, <2>6, <2>8, BecomeKeeps
<1> QED BY <1>5, <1>6

\* What the ubatches of a batch are.
LEMMA BatchCut ==
  ASSUME layout \in Layouts, NEW n \in Batches, Fits(n)
  PROVE  /\ n \in Amounts /\ First \in Amounts
         /\ Ubatches(First, n) \in Seq(Ubatch) /\ Planned(Ubatches(First, n), First, n)
<1>1. n \in Amounts
  <2>1. layout.batch \in Nat
    BY LayoutAssumption
  <2> QED BY <2>1 DEF Batches, Amounts
<1>2. First \in Amounts /\ \A s \in Seqs : First[s] \in Nat
  <2>1. \A s \in Seqs : next_pos(v, s) \in Nat
    BY NextPosType, LayoutFacts
  <2> QED BY <2>1 DEF First, Amounts
<1>3. InBounds(First, n)
  <2>1. layout.length \in Nat /\ layout.length <= MaxPos + 1 /\ MaxPos \in Nat
    BY LayoutAssumption, LayoutFacts
  <2>2. \A s \in Seqs : n[s] \in Nat /\ First[s] \in Nat /\ (n[s] > 0 => First[s] + n[s] <= layout.length)
    BY <1>1, <1>2 DEF Fits, Amounts
  <2> QED BY <2>1, <2>2 DEF InBounds
<1> HIDE DEF First
<1> QED BY <1>1, <1>2, <1>3, UbatchesKeeps

LEMMA DecodeKeeps ==
  ASSUME TablesRooted, NEW n \in Batches, Decode(n)
  PROVE  TablesRooted'
<1> DEFINE ubs == Ubatches(First, n)
           p == prepare(UpdatedV, ubs)
<1>0. /\ layout \in Layouts /\ v \in Caches /\ buf \in Buffers
      /\ saved \in Seq(States) /\ sc_info \in Seq(Streams \X Streams)
  BY DEF TablesRooted
<1>1. NoSlot(p) \/ AllComputed(ubs, p) \/ \E k \in DOMAIN ubs : ComputeFails(ubs, p, k)
  BY DEF Decode
<1>2. layout' = layout /\ saved' \in Seq(States) /\ Fits(n)
  BY <1>0 DEF Decode
<1>3. ubs \in Seq(Ubatch)
  BY <1>0, <1>2, BatchCut
<1> HIDE DEF ubs
<1>4. UpdatedV \in Stills /\ UpdatedBuf \in Buffers
  BY <1>0, UpdatedVType, UpdatedBufType
<1>5. /\ p.v \in Stills /\ p.slots \in Seq(SlotMaps) /\ Fitting(ubs, p.slots)
      /\ p.ok => Len(p.slots) = Len(ubs)
  BY <1>0, <1>3, <1>4, PrepareKeeps
<1>6. p.v \in Caches /\ Len(ubs) \in Nat /\ <<>> \in Seq(Streams \X Streams) /\ DOMAIN ubs = 1..Len(ubs)
  BY <1>3, <1>5, EmptySeq, LenProperties DEF Stills
<1> HIDE DEF p
<1>7. ASSUME p.ok, NEW k \in 0..Len(ubs)
      PROVE  /\ Placed(p.v, ubs, p.slots, k) \in Caches
             /\ Computed(UpdatedBuf, ubs, p.slots, k) \in Buffers
  <2>1. k <= Len(p.slots)
    BY <1>5, <1>6, <1>7
  <2> QED BY <1>0, <1>3, <1>4, <1>5, <1>6, <2>1, PlacedKeeps, ComputedKeeps
<1>8. CASE NoSlot(p)
  BY <1>0, <1>2, <1>4, <1>6, <1>8, BecomeKeeps, Zenon DEF NoSlot
<1>9. CASE AllComputed(ubs, p)
  <2>1. p.ok /\ Len(ubs) \in 0..Len(ubs)
    BY <1>6, <1>9 DEF AllComputed
  <2>2. Placed(p.v, ubs, p.slots, Len(ubs)) \in Caches /\ Computed(UpdatedBuf, ubs, p.slots, Len(ubs)) \in Buffers
    BY <1>7, <2>1
  <2>3. Become(Placed(p.v, ubs, p.slots, Len(ubs)), Computed(UpdatedBuf, ubs, p.slots, Len(ubs)), <<>>)
    BY <1>9 DEF AllComputed
  <2> QED BY <1>2, <1>6, <2>2, <2>3, BecomeKeeps, Zenon
<1>10. CASE \E k \in DOMAIN ubs : ComputeFails(ubs, p, k)
  <2>1. PICK k \in DOMAIN ubs : ComputeFails(ubs, p, k)
    BY <1>10
  <2>2. k \in 0..Len(ubs) /\ k - 1 \in 0..Len(ubs)
    BY <1>6, <2>1
  <2> DEFINE placed == Placed(p.v, ubs, p.slots, k)
             b == Computed(UpdatedBuf, ubs, p.slots, k - 1)
             u == DropAll(placed, ubs[k])
  <2>3. p.ok /\ Become(u, b, <<>>)
    BY <2>1 DEF ComputeFails, DropAll, DropOne, FoldSet, MapThenFoldSet
  <2>4. placed \in Caches /\ b \in Buffers /\ ubs[k] \in Ubatch
    <3>1. k \in 1..Len(ubs)
      BY <1>6
    <3> QED BY <1>3, <1>7, <2>2, <2>3, <3>1, ElementOfSeq
  <2> HIDE DEF placed, b
  <2>5. u \in Caches
    BY <1>0, <2>4, DropAllKeeps
  <2> HIDE DEF u
  <2> QED BY <1>2, <1>6, <2>3, <2>4, <2>5, BecomeKeeps, Zenon
<1> QED BY <1>1, <1>8, <1>9, <1>10

LEMMA NextTables == TablesRooted /\ [Next]_vars => TablesRooted'
<1> SUFFICES ASSUME TablesRooted, [Next]_vars PROVE TablesRooted'
  OBVIOUS
<1>1. CASE Clear
  BY <1>1, ClearKeeps
<1>2. CASE \E s \in Seqs :
             \/ SeqKeepOne(s) \/ Save(s) \/ Load(s)
             \/ \E r \in Seqs : CopyState(s, r)
             \/ \E p \in Pos : Truncate(s, p)
             \/ \E n_keep, n_discard \in Pos : ContextShift(s, n_keep, n_discard)
             \/ \E head_p, head_c, n_match \in Pos : CacheReuse(s, head_p, head_c, n_match)
  BY <1>2, SeqKeepOneKeeps, SaveKeeps, LoadKeeps, CopyStateKeeps, TruncateKeeps,
     ContextShiftKeeps, CacheReuseKeeps
<1>3. CASE \E n \in Batches : Decode(n)
  BY <1>3, DecodeKeeps
<1>4. CASE UNCHANGED vars
  BY <1>4, TablesStay DEF vars, TablesRooted
<1> QED BY <1>1, <1>2, <1>3, <1>4 DEF Next

LEMMA TablesExact == TablesRooted => IndexesAgree
<1> SUFFICES ASSUME TablesRooted PROVE IndexesAgree
  OBVIOUS
<1>1. \A d \in Streams : v[d] \in TStream /\ v[d].head \in 0..layout.cells /\ Consistent(v[d].cells, Size)
  BY DEF TablesRooted, Caches, TStream, Tables
<1>2. \A d \in Streams : DOMAIN v[d] = {"cells", "head"}
  BY <1>1 DEF TStream
<1>3. \A k \in DOMAIN sc_info : sc_info[k] \in Streams \X Streams
  BY ElementOfSeq, LenProperties DEF TablesRooted
<1>4. \A k \in DOMAIN saved : saved[k] \in States
  BY ElementOfSeq, LenProperties DEF TablesRooted
<1>5. TypeOK
  BY <1>1, <1>2, <1>3, <1>4 DEF TablesRooted, Caches, Buffers, States, TypeOK
<1> QED BY <1>1, <1>5 DEF IndexesAgree

\* Whatever calls, refused batches and failed computations led there, the
\* indexes used and seq_pos of every stream agree with its cells, a free
\* cell is clean and a shift is announced (llama_kv_cells under
\* llama_kv_cache).
THEOREM IndexesStayExact == Spec => []IndexesAgree
<1>1. TablesRooted /\ [Next]_vars => TablesRooted'
  BY NextTables
<1> QED BY InitTables, <1>1, TablesExact, PTL DEF Spec

-----------------------------------------------------------------------------
(* Without a window every call keeps the runs.                             *)

\* The saved positions are those of a run, each once.
Numbers(sv, m) ==
  /\ \A k \in DOMAIN sv : sv[k].pos \in 0 .. m - 1
  /\ \A p \in 0 .. m - 1 : \E k \in DOMAIN sv : sv[k].pos = p
  /\ \A j, k \in DOMAIN sv : sv[j].pos = sv[k].pos => j = k
SavedRun(sv) == \E m \in Ends : Numbers(sv, m)

Windowless == TablesRooted /\ layout.window = 0 /\ AllRun(v) /\ SavedRun(saved)

LEMMA WindowlessFacts ==
  ASSUME Windowless
  PROVE  /\ layout \in Layouts /\ layout.window = 0 /\ v \in Caches /\ AllRun(v) /\ SavedRun(saved)
         /\ \A s \in Seqs : stream(s) \in Streams /\ v[stream(s)] \in TStream /\ HasRun(v[stream(s)].cells, s)
<1>1. layout \in Layouts /\ v \in Caches
  BY DEF Windowless, TablesRooted
<1>2. \A s \in Seqs : stream(s) \in Streams
  BY <1>1, LayoutFacts
<1> QED BY <1>1, <1>2 DEF Windowless, Caches, AllRun

LEMMA NoneRun ==
  ASSUME layout \in Layouts, NEW c, NEW s, \A i \in Size : s \notin c.seq[i]
  PROVE  HasRun(c, s)
BY NothingRuns DEF HasRun, Run

LEMMA ClearRuns ==
  ASSUME Windowless
  PROVE  AllRun([d \in Streams |-> [cells |-> cells_reset(Size), head |-> 0]])
<1>1. layout \in Layouts /\ IsFiniteSet(Size) /\ \A s \in Seqs : stream(s) \in Streams
  BY WindowlessFacts, LayoutFacts
<1>2. \A s \in Seqs : HasRun(cells_reset(Size), s)
  <2>1. \A i \in Size : cells_reset(Size).seq[i] = {}
    BY <1>1, ResetConsistent
  <2> QED BY <1>1, <2>1, NoneRun
<1> QED BY <1>1, <1>2 DEF AllRun

LEMMA SeqKeepRuns ==
  ASSUME Windowless, NEW s \in Seqs
  PROVE  AllRun([v EXCEPT ![stream(s)] = SeqKeep(v[stream(s)], s)])
<1> DEFINE c == v[stream(s)].cells
           t == SeqKeep(v[stream(s)], s)
<1>1. KeptIn(c, t.cells, Size, s) /\ layout \in Layouts /\ v \in Caches /\ AllRun(v)
  BY WindowlessFacts, SeqKeepKeeps
<1> HIDE DEF t
<1>2. ASSUME NEW r \in Seqs, stream(r) = stream(s) PROVE HasRun(t.cells, r)
  <2>1. HasRun(c, r)
    BY <1>1, <1>2 DEF AllRun
  <2> HIDE DEF c
  <2>2. CASE r = s
    BY <1>1, <2>1, <2>2, KeptSame, RunSame
  <2>3. CASE r # s
    <3>1. \A i \in Size : r \notin t.cells.seq[i]
      BY <1>1, <2>3 DEF KeptIn
    <3> QED BY <1>1, <3>1, NoneRun
  <2> QED BY <2>2, <2>3
<1>3. AllRun([v EXCEPT ![stream(s)] = t])
  BY <1>1, <1>2, StreamRuns
<1> QED BY <1>3 DEF t

LEMMA ContextShiftRuns ==
  ASSUME Windowless, NEW s \in Seqs, NEW a \in Nat, NEW k \in Nat, NEW past, past = next_pos(v, s),
         0 < k, a + k <= past, Shiftable(v[stream(s)].cells, s, a + k, past)
  PROVE  AllRun([v EXCEPT ![stream(s)] = SeqAdd(SeqRm(v[stream(s)], s, a, a + k), s, a + k, past, -k)])
<1> DEFINE t0 == v[stream(s)]
           u == SeqRm(t0, s, a, a + k)
           t == SeqAdd(u, s, a + k, past, -k)
           c == t0.cells
           b == a + k
<1>0. layout \in Layouts /\ v \in Caches /\ AllRun(v) /\ t0 \in TStream /\ MaxPos \in Nat
  BY WindowlessFacts, LayoutFacts
<1>1. Run(c, s, past) /\ past \in Nat /\ past \in Ends /\ Holds(c, s, 0 .. past - 1)
  <2>1. Run(c, s, past) /\ past \in Nat
    BY <1>0, RunNext, NextPosType
  <2> QED BY <2>1 DEF Run
<1>2. u \in TStream /\ Left(c, u.cells, In(c, s, a, b), s) /\ u.cells \in Tables
  <2>1. u \in TStream /\ Left(c, u.cells, In(c, s, a, b), s)
    BY <1>0, SeqRmKeeps
  <2> HIDE DEF u
  <2> QED BY <2>1 DEF TStream
<1>3. \A r \in Seqs : stream(r) = stream(s) => HasRun(c, r)
  BY <1>0 DEF AllRun
<1>4. ASSUME b < past
      PROVE  ShiftedIn(u.cells, t.cells, In(u.cells, s, b, past), -k)
  <2>1. -k \in Int /\ -k < 0 /\ b # past
    BY <1>1, <1>4
  <2>2. a + k \in Nat /\ past \in Nat
    BY <1>1
  <2> HIDE DEF u
  <2>3. ShiftedIn(u.cells, SeqAdd(u, s, a + k, past, -k).cells, In(u.cells, s, a + k, past), -k)
    BY <1>0, <1>2, <2>1, <2>2, SeqAddKeeps
  <2> QED BY <2>3
<1>5. ~(b < past) => t = u /\ b = past
  <2>1. ~(b < past) => b = past
    BY <1>1
  <2> HIDE DEF u
  <2>2. b = past => t = u
    BY DEF SeqAdd
  <2> QED BY <2>1, <2>2
<1>6. Shiftable(c, s, b, past)
  OBVIOUS
<1>7. b \in Nat /\ a < b /\ b <= past /\ -k = a - b /\ -k \in Int /\ b + (-k) >= 0
  OBVIOUS
<1> HIDE DEF t, u, c, b
<1>8. HasRun(t.cells, s)
  <2>1. CASE b < past
    <3>1. ShiftedIn(u.cells, t.cells, In(u.cells, s, b, past), a - b)
      BY <1>4, <1>7, <2>1
    <3>2. past <= past
      BY <1>1
    <3>3. Holds(t.cells, s, (0 .. a + past - b - 1) \cup (past .. past - 1))
      BY <1>0, <1>1, <1>2, <1>7, <2>1, <3>1, <3>2, ChunkMoves, Zenon
    <3>4. a + past - b \in Ends /\ (0 .. a + past - b - 1) \cup (past .. past - 1) = 0 .. (a + past - b) - 1
      BY <1>0, <1>1, <1>7 DEF Ends
    <3> QED BY <3>3, <3>4, Zenon DEF HasRun, Run
  <2>2. CASE ~(b < past)
    <3> DEFINE W == 0 .. past - 1
    <3>1. Holds(u.cells, s, {p \in W : ~(a <= p /\ p < b)})
      <4>1. Holds(c, s, W)
        BY <1>1
      <4> HIDE DEF W
      <4> QED BY <1>2, <4>1, HoldsLeft
    <3>2. {p \in W : ~(a <= p /\ p < b)} = 0 .. a - 1
      BY <1>1, <1>5, <1>7, <2>2
    <3>3. a \in Ends
      BY <1>0, <1>1, <1>7 DEF Ends
    <3>4. Holds(u.cells, s, 0 .. a - 1)
      BY <3>1, <3>2, Zenon
    <3> QED BY <1>5, <2>2, <3>3, <3>4 DEF HasRun, Run
  <2> QED BY <2>1, <2>2
<1>9. ASSUME NEW r \in Seqs, stream(r) = stream(s), r # s PROVE HasRun(t.cells, r)
  <2>1. HasRun(u.cells, r)
    BY <1>2, <1>3, <1>9, LeftSame, RunSame
  <2>2. CASE b < past
    <3>1. Shiftable(u.cells, s, b, past)
      BY <1>2, <1>6, ShiftableLeft
    <3>2. SameFor(u.cells, t.cells, r)
      BY <1>2, <1>4, <1>7, <1>9, <2>2, <3>1, MovedSame
    <3> QED BY <2>1, <3>2, RunSame
  <2>3. CASE ~(b < past)
    BY <1>5, <2>1, <2>3
  <2> QED BY <2>2, <2>3
<1>10. AllRun([v EXCEPT ![stream(s)] = t])
  BY <1>0, <1>8, <1>9, StreamRuns
<1> QED BY <1>10 DEF t, u, b, t0

LEMMA CacheReuseRuns ==
  ASSUME Windowless, NEW s \in Seqs, NEW a \in Nat, NEW b \in Nat, NEW k \in Nat,
         a < b, 0 < k, b + k <= next_pos(v, s), Shiftable(v[stream(s)].cells, s, b, b + k)
  PROVE  AllRun([v EXCEPT ![stream(s)] =
                   SeqRm(SeqAdd(SeqRm(v[stream(s)], s, a, b), s, b, b + k, a - b), s, a + k, MaxPos + 1)])
<1> DEFINE t0 == v[stream(s)]
           c == t0.cells
           u == SeqRm(t0, s, a, b)
           x == b + k
           g == SeqAdd(u, s, b, x, a - b)
           q == a + k
           t == SeqRm(g, s, q, MaxPos + 1)
           m == next_pos(v, s)
<1>0. layout \in Layouts /\ v \in Caches /\ AllRun(v) /\ t0 \in TStream /\ MaxPos \in Nat
  BY WindowlessFacts, LayoutFacts
<1>1. Run(c, s, m) /\ m \in Nat /\ m \in Ends /\ Holds(c, s, 0 .. m - 1)
  <2>1. Run(c, s, m) /\ m \in Nat
    BY <1>0, RunNext, NextPosType
  <2> HIDE DEF m
  <2> QED BY <2>1 DEF Run
<1>2. u \in TStream /\ Left(c, u.cells, In(c, s, a, b), s) /\ u.cells \in Tables
  <2>1. u \in TStream /\ Left(c, u.cells, In(c, s, a, b), s)
    BY <1>0, SeqRmKeeps
  <2> HIDE DEF u
  <2> QED BY <2>1 DEF TStream
<1>3. \A r \in Seqs : stream(r) = stream(s) => HasRun(c, r)
  BY <1>0 DEF AllRun
<1>4. /\ x \in Nat /\ q \in Nat /\ b < x /\ x <= m /\ a - b \in Int /\ a - b < 0 /\ b # x /\ b + (a - b) >= 0
      /\ q = a + x - b
  BY <1>1
<1>5. Shiftable(c, s, b, x)
  OBVIOUS
<1> HIDE DEF x, q, m, u, c
<1>6. g \in TStream /\ ShiftedIn(u.cells, g.cells, In(u.cells, s, b, x), a - b)
  BY <1>0, <1>2, <1>4, SeqAddKeeps
<1> HIDE DEF g
<1>7. Left(g.cells, t.cells, In(g.cells, s, q, MaxPos + 1), s)
  BY <1>0, <1>6, SeqRmKeeps
<1> HIDE DEF t
<1>8. HasRun(t.cells, s)
  <2> DEFINE W == (0 .. a + x - b - 1) \cup (x .. m - 1)
  <2>1. Holds(g.cells, s, W)
    BY <1>0, <1>1, <1>2, <1>4, <1>6, ChunkMoves, Zenon
  <2>2. Holds(t.cells, s, {p \in W : ~(q <= p /\ p < MaxPos + 1)})
    <3> HIDE DEF W
    <3> QED BY <1>7, <2>1, HoldsLeft
  <2>3. {p \in W : ~(q <= p /\ p < MaxPos + 1)} = 0 .. q - 1
    <3>1. m <= MaxPos + 1
      BY <1>0, <1>1 DEF Ends
    <3> QED BY <1>0, <1>1, <1>4, <3>1
  <2>4. q \in Ends
    BY <1>0, <1>1, <1>4 DEF Ends
  <2>5. Holds(t.cells, s, 0 .. q - 1)
    BY <2>2, <2>3, Zenon
  <2> QED BY <2>4, <2>5 DEF HasRun, Run
<1>9. ASSUME NEW r \in Seqs, stream(r) = stream(s), r # s PROVE HasRun(t.cells, r)
  <2>1. HasRun(u.cells, r)
    BY <1>2, <1>3, <1>9, LeftSame, RunSame
  <2>2. Shiftable(u.cells, s, b, x)
    BY <1>2, <1>5, ShiftableLeft
  <2>3. HasRun(g.cells, r)
    <3>1. SameFor(u.cells, g.cells, r)
      BY <1>2, <1>4, <1>6, <1>9, <2>2, MovedSame
    <3> QED BY <2>1, <3>1, RunSame
  <2> QED BY <1>7, <1>9, <2>3, LeftSame, RunSame
<1>10. AllRun([v EXCEPT ![stream(s)] = t])
  BY <1>0, <1>8, <1>9, StreamRuns
<1> QED BY <1>10 DEF t, g, u, x, q, t0

LEMMA CopyStateRuns ==
  ASSUME Windowless, NEW src \in Seqs, NEW dst \in Seqs, CopyState(src, dst)
  PROVE  AllRun(v')
<1> DEFINE u == SeqRm(v[stream(dst)], dst, 0, MaxPos + 1)
           emptied == [v EXCEPT ![stream(dst)] = u]
           h == SeqShare(u, src, dst)
           g == SeqEnter(emptied[src], src, dst)
<1>0. layout \in Layouts /\ v \in Caches /\ AllRun(v) /\ stream(dst) \in Streams /\ stream(src) \in Streams
  BY WindowlessFacts
<1>1. u \in TStream /\ \A i \in Size : dst \notin u.cells.seq[i]
  <2>1. v[stream(dst)] \in TStream
    BY <1>0 DEF Caches
  <2> QED BY <1>0, <2>1, SeqRmKeeps, GoneEverywhere
<1>2. AllRun(emptied)
  <2>1. 0 \in Nat
    OBVIOUS
  <2> QED BY <1>0, <2>1, RemovedRuns
<1>3. src # dst /\ (layout.unified => v' = [emptied EXCEPT ![0] = SeqShare(emptied[0], src, dst)])
      /\ (~layout.unified => v' = [emptied EXCEPT ![dst] = g])
  BY DEF CopyState, Become
<1> HIDE DEF u
<1>4. emptied \in Caches /\ emptied[stream(dst)] = u
  BY <1>0, <1>1, OneStream DEF Caches
<1> HIDE DEF emptied
<1>5. ASSUME NEW r \in Seqs, stream(r) = stream(dst) PROVE HasRun(u.cells, r)
  BY <1>2, <1>4, <1>5 DEF AllRun
<1>6. CASE layout.unified
  <2>1. stream(dst) = 0 /\ stream(src) = 0
    BY <1>6 DEF stream
  <2>2. JoinedIn(u.cells, h.cells, In(u.cells, src, 0, MaxPos + 1), dst)
    BY <1>0, <1>1, SeqShareKeeps
  <2>3. v' = [emptied EXCEPT ![stream(dst)] = h]
    BY <1>3, <1>4, <1>6, <2>1
  <2> HIDE DEF h
  <2>4. ASSUME NEW r \in Seqs, stream(r) = stream(dst) PROVE HasRun(h.cells, r)
    <3>1. HasRun(u.cells, r) /\ HasRun(u.cells, src)
      BY <1>5, <2>1, <2>4
    <3>2. CASE r = dst
      BY <1>0, <1>1, <2>2, <3>1, <3>2, JoinedRun
    <3>3. CASE r # dst
      BY <2>2, <3>1, <3>3, JoinedSame, RunSame
    <3> QED BY <3>2, <3>3
  <2>5. AllRun([emptied EXCEPT ![stream(dst)] = h])
    BY <1>0, <1>2, <1>4, <2>4, StreamRuns
  <2> QED BY <2>3, <2>5
<1>7. CASE ~layout.unified
  <2>1. \A r \in Seqs : stream(r) = r
    BY <1>7 DEF stream
  <2>2. emptied[src] \in TStream /\ HasRun(emptied[src].cells, src)
    BY <1>0, <1>2, <1>4, <2>1 DEF Caches, AllRun
  <2>3. EnteredIn(emptied[src].cells, g.cells, {i \in Size : seq_has(emptied[src].cells, i, src)}, dst)
    BY <1>0, <2>2, SeqEnterKeeps, Zenon
  <2> HIDE DEF g
  <2>4. HasRun(g.cells, dst)
    BY <2>2, <2>3, EnteredRun
  <2>5. AllRun([emptied EXCEPT ![stream(dst)] = g])
    BY <1>0, <1>2, <1>4, <2>1, <2>4, StreamRuns
  <2> QED BY <1>3, <1>7, <2>1, <2>5
<1> QED BY <1>6, <1>7

\* The cells of a sequence, in their order, give its positions.
LEMMA SaveRuns ==
  ASSUME Windowless, NEW s \in Seqs, Save(s)
  PROVE  SavedRun(saved')
<1> DEFINE d == stream(s)
           c == v[d].cells
           kept == {i \in Size : seq_has(c, i, s) /\ ~is_masked_swa(c.pos[i], seq_pos_max(c, s))}
           order == Ascending(kept)
<1>0. layout \in Layouts /\ layout.window = 0 /\ HasRun(c, s)
  BY WindowlessFacts
<1>1. saved' = [k \in DOMAIN order |-> [pos |-> c.pos[order[k]], data |-> buf[d][order[k]]]]
  BY DEF Save, InOrder, Ascending
<1>2. kept \in SUBSET Size /\ \A i \in Size : i \in kept <=> s \in c.seq[i]
  BY <1>0 DEF seq_has, is_masked_swa
<1>3. kept \in SUBSET Nat /\ IsFiniteSet(kept)
  BY <1>0, <1>2, LayoutFacts, FS_Subset
<1> HIDE DEF kept, c, d
<1>4. Enumerates(order, kept)
  BY <1>3, AscendingIs
<1> HIDE DEF order
<1>5. PICK m \in Ends : Holds(c, s, 0 .. m - 1)
  BY <1>0 DEF HasRun, Run
<1>6. \A k \in DOMAIN order : order[k] \in kept
  BY <1>4 DEF Enumerates
<1>7. \A i \in kept : \E k \in DOMAIN order : order[k] = i
  BY <1>4 DEF Enumerates
<1>8. \A j, k \in DOMAIN order : order[j] = order[k] => j = k
  BY <1>4 DEF Enumerates, Distinct
<1>9. DOMAIN saved' = DOMAIN order /\ \A k \in DOMAIN order : saved'[k].pos = c.pos[order[k]]
  BY <1>1
<1>10. \A k \in DOMAIN order : c.pos[order[k]] \in 0 .. m - 1
  BY <1>2, <1>5, <1>6 DEF Holds
<1>11. ASSUME NEW p \in 0 .. m - 1 PROVE \E k \in DOMAIN order : c.pos[order[k]] = p
  <2>1. PICK i \in Size : s \in c.seq[i] /\ c.pos[i] = p
    BY <1>5 DEF Holds
  <2>2. PICK k \in DOMAIN order : order[k] = i
    BY <1>2, <1>7, <2>1
  <2> QED BY <2>1, <2>2
<1>12. ASSUME NEW j \in DOMAIN order, NEW k \in DOMAIN order, c.pos[order[j]] = c.pos[order[k]] PROVE j = k
  <2>1. order[j] \in Size /\ order[k] \in Size /\ s \in c.seq[order[j]] /\ s \in c.seq[order[k]]
    BY <1>2, <1>6
  <2>2. order[j] = order[k]
    BY <1>5, <1>12, <2>1 DEF Holds
  <2> QED BY <1>8, <2>2
<1>13. Numbers(saved', m)
  BY <1>9, <1>10, <1>11, <1>12 DEF Numbers
<1> QED BY <1>5, <1>13 DEF SavedRun

\* A state that is read back is the run that was saved, or nothing.
LEMMA LoadRuns ==
  ASSUME Windowless, NEW s \in Seqs, Load(s)
  PROVE  AllRun(v') /\ SavedRun(saved')
<1> DEFINE d == stream(s)
           t == SeqRm(v[d], s, 0, MaxPos + 1)
           idxs == find_slot(t, Len(saved))
           tokens == [k \in DOMAIN saved |-> [seq |-> s, pos |-> saved[k].pos]]
           w == apply_ubatch(t, tokens, idxs)
           without == [v EXCEPT ![d] = t]
<1>0. /\ layout \in Layouts /\ layout.window = 0 /\ v \in Caches /\ AllRun(v) /\ SavedRun(saved) /\ d \in Streams
      /\ saved \in Seq(States) /\ Len(saved) \in Nat /\ DOMAIN saved = 1..Len(saved)
  <2>1. saved \in Seq(States)
    BY DEF Windowless, TablesRooted
  <2> QED BY <2>1, WindowlessFacts, LenProperties
<1>1. t \in TStream /\ \A i \in Size : s \notin t.cells.seq[i]
  <2>1. v[d] \in TStream
    BY <1>0 DEF Caches
  <2> QED BY <1>0, <2>1, SeqRmKeeps, GoneEverywhere
<1>2. /\ idxs = <<>> => v' = without
      /\ idxs # <<>> => v' = [v EXCEPT ![d] = w]
      /\ saved' \in {saved, <<>>}
  BY DEF Load, Become
<1>3. AllRun(without)
  <2>1. 0 \in Nat
    OBVIOUS
  <2> QED BY <1>0, <2>1, RemovedRuns
<1>4. SavedRun(saved')
  <2>1. SavedRun(<<>>)
    <3>1. 0 \in Ends /\ 0 .. 0 - 1 = {}
      BY <1>0, LayoutFacts DEF Ends
    <3>2. Numbers(<<>>, 0)
      BY <3>1 DEF Numbers
    <3> QED BY <3>1, <3>2 DEF SavedRun
  <2> QED BY <1>0, <1>2, <2>1
<1> HIDE DEF t
<1>5. without[d] = t
  BY <1>0 DEF Caches
<1>6. \A r \in Seqs : stream(r) = d => HasRun(t.cells, r)
  <2> HIDE DEF without
  <2> QED BY <1>3, <1>5 DEF AllRun
<1>7. CASE idxs = <<>>
  <2> HIDE DEF without, idxs
  <2> QED BY <1>2, <1>3, <1>4, <1>7
<1>8. CASE idxs # <<>>
  <2>1. idxs \in Seq(Size) /\ Len(idxs) = Len(saved) /\ DOMAIN idxs = 1..Len(saved)
    BY <1>0, <1>1, <1>8, FindSlotType, LenProperties
  <2>2. Distinct(idxs) /\ ToSet(idxs) \subseteq FreeCells(t.cells)
    BY <1>0, <1>1, FindSlotType
  <2>3. \A k \in 1..Len(saved) : saved[k] \in States
    BY <1>0, ElementOfSeq
  <2>4. tokens \in Seq(Token) /\ Len(tokens) = Len(saved) /\ DOMAIN tokens = DOMAIN saved
    <3>1. \A k \in 1..Len(saved) : [seq |-> s, pos |-> saved[k].pos] \in Token
      BY <2>3 DEF States, Token
    <3> QED BY <1>0, <3>1
  <2>5. \A k \in DOMAIN saved : tokens[k].seq = s /\ tokens[k].pos = saved[k].pos
    OBVIOUS
  <2> HIDE DEF idxs, tokens
  <2>6. Len(idxs) <= Len(tokens)
    BY <1>0, <2>1, <2>4
  <2>7. Filled(t.cells, w.cells, tokens, idxs, DOMAIN idxs)
    BY <1>0, <1>1, <1>8, <2>1, <2>2, <2>4, <2>6, ApplyUbatchKeeps
  <2>8. v' = [v EXCEPT ![d] = w]
    BY <1>2, <1>8
  <2> HIDE DEF w
  <2>9. PICK m \in Ends : Numbers(saved, m)
    BY <1>0 DEF SavedRun
  <2>10. DOMAIN idxs = DOMAIN tokens
    BY <1>0, <2>1, <2>4
  <2>11. HasRun(w.cells, s)
    <3> DEFINE Y == 0 .. m - 1
    <3>1. Holds(t.cells, s, {}) /\ {} \in SUBSET Nat /\ {} \cap Y = {} /\ {} \cup Y = Y
      BY <1>1 DEF Holds
    <3>2. Brings(tokens, s, Y)
      BY <2>4, <2>5, <2>9 DEF Numbers, Brings
    <3> HIDE DEF Y
    <3>3. Holds(w.cells, s, {} \cup Y)
      BY <2>1, <2>2, <2>7, <2>10, <3>1, <3>2, FilledHolds
    <3>4. Holds(w.cells, s, Y)
      BY <3>1, <3>3
    <3> QED BY <2>9, <3>4 DEF HasRun, Run, Y
  <2>12. ASSUME NEW r \in Seqs, stream(r) = d, r # s PROVE HasRun(w.cells, r)
    <3>1. PICK n \in Ends : Holds(t.cells, r, 0 .. n - 1)
      BY <1>6, <2>12 DEF HasRun, Run
    <3> DEFINE X == 0 .. n - 1
    <3>2. n \in Nat
      BY <1>0, LayoutFacts DEF Ends
    <3>3. X \in SUBSET Nat /\ X \cap {} = {} /\ X \cup {} = X /\ Holds(t.cells, r, X)
      BY <3>1, <3>2
    <3>4. Brings(tokens, r, {})
      BY <2>4, <2>5, <2>12 DEF Brings
    <3> HIDE DEF X
    <3>5. Holds(w.cells, r, X \cup {})
      BY <2>1, <2>2, <2>7, <2>10, <3>3, <3>4, FilledHolds
    <3>6. Holds(w.cells, r, X)
      BY <3>3, <3>5
    <3> QED BY <3>1, <3>6 DEF HasRun, Run, X
  <2>13. AllRun([v EXCEPT ![d] = w])
    BY <1>0, <2>11, <2>12, StreamRuns
  <2> QED BY <1>4, <2>8, <2>13
<1> QED BY <1>7, <1>8

\* The cells are the same before and after an update.
LEMMA UpdatedSame ==
  ASSUME TablesRooted
  PROVE  SameContent(v, UpdatedV) /\ SameContent(UpdatedV, v)
<1> SUFFICES ASSUME NEW d \in Streams
             PROVE  UpdatedV[d].cells.pos = v[d].cells.pos /\ UpdatedV[d].cells.seq = v[d].cells.seq
  BY DEF SameContent
<1>1. v[d] = [cells |-> v[d].cells, head |-> v[d].head] /\ v[d].cells \in Tables
  BY DEF TablesRooted, Caches, TStream
<1>2. UpdatedV[d] = [v[d] EXCEPT !.cells = reset_shift(@)]
  BY DEF UpdatedV
<1>3. UpdatedV[d].cells = reset_shift(v[d].cells)
  BY <1>1, <1>2
<1>4. reset_shift(v[d].cells).pos = v[d].cells.pos /\ reset_shift(v[d].cells).seq = v[d].cells.seq
  <2> DEFINE c == v[d].cells
  <2>1. c \in Tables
    BY <1>1
  <2> HIDE DEF c
  <2>2. reset_shift(c).pos = c.pos /\ reset_shift(c).seq = c.seq
    BY <2>1, ResetShiftConsistent, Zenon DEF Tables
  <2> QED BY <2>2 DEF c
<1> QED BY <1>3, <1>4

LEMMA SameBack ==
  ASSUME NEW vs, NEW ws, SameContent(vs, ws)
  PROVE  SameContent(ws, vs)
BY DEF SameContent

\* A batch that is decoded: its ubatches, where they leave the sequences,
\* what was prepared for them, and the caches that were gone through.
Decoding(ubs, p, nx, w, n) ==
  /\ ubs \in Seq(Ubatch) /\ Plans(nx, ubs, First, n)
  /\ p.v \in Stills /\ p.slots \in Seq(SlotMaps) /\ Fitting(ubs, p.slots) /\ (p.ok => Len(p.slots) = Len(ubs))
  /\ SameContent(p.v, UpdatedV) /\ w[0] = UpdatedV /\ Leads(w, ubs, p.slots, Len(p.slots)) /\ RunsTo(w[0], First)

LEMMA DecodingIs ==
  ASSUME Windowless, NEW n \in Batches, Fits(n)
  PROVE  LET ubs == Ubatches(First, n)
         IN \E nx, w : Decoding(ubs, prepare(UpdatedV, ubs), nx, w, n)
<1> DEFINE ubs == Ubatches(First, n)
           p == prepare(UpdatedV, ubs)
<1>0. layout \in Layouts /\ layout.window = 0 /\ v \in Caches /\ AllRun(v) /\ TablesRooted
  BY WindowlessFacts DEF Windowless
<1>1. ubs \in Seq(Ubatch) /\ Planned(ubs, First, n)
  BY <1>0, BatchCut
<1> HIDE DEF ubs
<1>2. PICK nx : Plans(nx, ubs, First, n)
  BY <1>1 DEF Planned
<1>3. UpdatedV \in Stills
  BY <1>0, UpdatedVType
<1>4. /\ p.v \in Stills /\ p.slots \in Seq(SlotMaps) /\ Fitting(ubs, p.slots)
      /\ p.ok => Len(p.slots) = Len(ubs)
      /\ Prepared(p, UpdatedV, ubs)
  BY <1>0, <1>1, <1>3, PrepareKeeps
<1> HIDE DEF p
<1>5. SameContent(p.v, UpdatedV)
  BY <1>4 DEF Prepared
<1>6. PICK w : w[0] = UpdatedV /\ Leads(w, ubs, p.slots, Len(p.slots))
  BY <1>4 DEF Prepared
<1>7. RunsTo(w[0], First)
  <2>1. \A s \in Seqs : Run(v[stream(s)].cells, s, next_pos(v, s))
    BY <1>0, RunNext
  <2>2. \A s \in Seqs : First[s] = next_pos(v, s)
    BY DEF First
  <2>3. ASSUME NEW s \in Seqs PROVE Run(UpdatedV[stream(s)].cells, s, First[s])
    <3>1. SameFor(v[stream(s)].cells, UpdatedV[stream(s)].cells, s)
      <4>1. stream(s) \in Streams
        BY <1>0, LayoutFacts
      <4> QED BY <1>0, <4>1, UpdatedSame DEF SameContent, SameFor
    <3>2. Run(v[stream(s)].cells, s, First[s])
      BY <2>1, <2>2
    <3> HIDE DEF First
    <3> QED BY <3>1, <3>2, HoldsSame DEF Run
  <2> QED BY <1>6, <2>3 DEF RunsTo
<1>8. Decoding(ubs, p, nx, w, n)
  <2> HIDE DEF First
  <2> QED BY <1>1, <1>2, <1>4, <1>5, <1>6, <1>7 DEF Decoding
<1> QED BY <1>8 DEF ubs, p

LEMMA DecodeRuns ==
  ASSUME Windowless, NEW n \in Batches, Decode(n)
  PROVE  AllRun(v')
<1> DEFINE ubs == Ubatches(First, n)
           p == prepare(UpdatedV, ubs)
<1>0. layout \in Layouts /\ layout.window = 0 /\ v \in Caches /\ AllRun(v) /\ TablesRooted
  BY WindowlessFacts DEF Windowless
<1>1. NoSlot(p) \/ AllComputed(ubs, p) \/ \E k \in DOMAIN ubs : ComputeFails(ubs, p, k)
  BY DEF Decode
<1>2. Fits(n)
  BY DEF Decode
<1>3. PICK nx, w : Decoding(ubs, p, nx, w, n)
  BY <1>0, <1>2, DecodingIs DEF Windowless
<1> HIDE DEF ubs, p
<1>4. /\ ubs \in Seq(Ubatch) /\ Plans(nx, ubs, First, n)
      /\ p.v \in Stills /\ p.slots \in Seq(SlotMaps) /\ Fitting(ubs, p.slots)
      /\ (p.ok => Len(p.slots) = Len(ubs)) /\ SameContent(p.v, UpdatedV)
  BY <1>3 DEF Decoding
<1>5. w[0] = UpdatedV /\ Leads(w, ubs, p.slots, Len(p.slots)) /\ RunsTo(w[0], First)
  BY <1>3 DEF Decoding
<1>6. p.v \in Caches /\ Len(ubs) \in Nat /\ DOMAIN ubs = 1..Len(ubs)
  BY <1>4, LenProperties DEF Stills
<1>7. AllRun(p.v)
  <2>1. AllRun(UpdatedV)
    BY <1>0, UpdatedSame, ContentRuns
  <2> QED BY <1>0, <1>4, <2>1, SameBack, ContentRuns
<1>8. ASSUME p.ok, NEW k \in 0..Len(ubs)
      PROVE  Placed(p.v, ubs, p.slots, k) \in Caches /\ AllRun(Placed(p.v, ubs, p.slots, k))
  <2>1. k <= Len(p.slots) /\ k \in Nat /\ Len(p.slots) = Len(ubs)
    BY <1>4, <1>6, <1>8
  <2>2. Leads(w, ubs, p.slots, k)
    BY <1>5, <1>6, <2>1 DEF Leads
  <2>3. /\ Placed(p.v, ubs, p.slots, k) \in Caches
        /\ SameContent(Placed(p.v, ubs, p.slots, k), w[k])
    BY <1>0, <1>4, <1>5, <1>6, <2>1, <2>2, PlacedKeeps
  <2>4. RunsTo(w[k], nx[k])
    <3>1. \A j \in 0..k : RunsTo(w[j], nx[j])
      <4> HIDE DEF First
      <4> QED BY <1>0, <1>4, <1>5, <2>1, <2>2, LeadsRuns
    <3>2. k \in 0..k
      BY <2>1
    <3> QED BY <3>1, <3>2
  <2>5. AllRun(w[k])
    BY <2>4 DEF RunsTo, AllRun, HasRun, Run
  <2> QED BY <1>0, <2>3, <2>5, SameBack, ContentRuns
<1>9. CASE NoSlot(p)
  BY <1>7, <1>9 DEF NoSlot, Become
<1>10. CASE AllComputed(ubs, p)
  <2>1. p.ok /\ Len(ubs) \in 0..Len(ubs) /\ v' = Placed(p.v, ubs, p.slots, Len(ubs))
    BY <1>6, <1>10 DEF AllComputed, Become
  <2>2. AllRun(Placed(p.v, ubs, p.slots, Len(ubs)))
    BY <1>8, <2>1
  <2> QED BY <2>1, <2>2
<1>11. CASE \E k \in DOMAIN ubs : ComputeFails(ubs, p, k)
  <2>1. PICK k \in DOMAIN ubs : ComputeFails(ubs, p, k)
    BY <1>11
  <2>2. k \in 0..Len(ubs) /\ k \in 1..Len(ubs)
    BY <1>6
  <2> DEFINE placed == Placed(p.v, ubs, p.slots, k)
             u == DropAll(placed, ubs[k])
             b == Computed(UpdatedBuf, ubs, p.slots, k - 1)
  <2>3. p.ok /\ Become(u, b, <<>>)
    BY <2>1 DEF ComputeFails, DropAll, DropOne, FoldSet, MapThenFoldSet
  <2>4. placed \in Caches /\ AllRun(placed) /\ ubs[k] \in Ubatch
    BY <1>4, <1>8, <2>2, <2>3, ElementOfSeq
  <2> HIDE DEF placed, b
  <2>5. AllRun(u)
    BY <1>0, <2>4, DropAllKeeps
  <2> HIDE DEF u
  <2> QED BY <2>3, <2>5 DEF Become
<1> QED BY <1>1, <1>9, <1>10, <1>11

\* Without a window every sequence, and the saved state, is a run.
Prefixed == TablesRooted /\ (layout.window = 0 => AllRun(v) /\ SavedRun(saved))

LEMMA PrefixedHas == Prefixed /\ layout.window = 0 => Windowless
BY DEF Prefixed, Windowless

LEMMA RunsStay ==
  ASSUME layout' = layout, AllRun(v'), SavedRun(saved')
  PROVE  AllRun(v)' /\ SavedRun(saved)'
<1>1. Size' = Size /\ \A s \in Seqs : stream(s)' = stream(s)
  BY DEF Size, stream
<1>2. ASSUME NEW s \in Seqs, HasRun(v'[stream(s)].cells, s) PROVE HasRun(v[stream(s)].cells, s)'
  BY <1>1, <1>2 DEF HasRun, Run, Holds
<1>3. AllRun(v)'
  BY <1>1, <1>2 DEF AllRun
<1>4. SavedRun(saved)'
  BY DEF SavedRun, Numbers
<1> QED BY <1>3, <1>4

LEMMA InitPrefixed == Init => Prefixed
<1> SUFFICES ASSUME Init PROVE Prefixed
  OBVIOUS
<1>1. TablesRooted
  BY InitTables
<1>2. layout \in Layouts /\ v = [d \in Streams |-> [cells |-> cells_reset(Size), head |-> 0]] /\ saved = <<>>
  BY DEF Init
<1>3. \A s \in Seqs : stream(s) \in Streams
  BY <1>2, LayoutFacts
<1>4. \A s \in Seqs : HasRun(cells_reset(Size), s)
  <2>1. \A i \in Size : cells_reset(Size).seq[i] = {}
    BY <1>2, LayoutFacts, ResetConsistent
  <2> QED BY <1>2, <2>1, NoneRun
<1>5. AllRun(v)
  BY <1>2, <1>3, <1>4 DEF AllRun
<1>6. SavedRun(<<>>)
  <2>1. 0 \in Ends /\ 0 .. 0 - 1 = {}
    BY <1>2, LayoutFacts DEF Ends
  <2>2. Numbers(<<>>, 0)
    BY <2>1 DEF Numbers
  <2> QED BY <2>1, <2>2 DEF SavedRun
<1> QED BY <1>1, <1>2, <1>5, <1>6 DEF Prefixed

LEMMA MayShiftOwn ==
  ASSUME "shared_shift" \notin Allowed, NEW s, NEW p0, NEW p1, MayShift(s, p0, p1)
  PROVE  Shiftable(v[stream(s)].cells, s, p0, p1)
BY DEF MayShift, Shiftable

\* A call of the cache without a window.
LEMMA WindowlessCall ==
  ASSUME "shared_shift" \notin Allowed, Windowless, Next
  PROVE  AllRun(v') /\ SavedRun(saved')
<1>0. layout \in Layouts /\ v \in Caches /\ AllRun(v) /\ SavedRun(saved) /\ MaxPos \in Nat /\ Pos = 0..MaxPos
  BY WindowlessFacts, LayoutFacts
<1>1. CASE Clear
  <2>1. v' = [d \in Streams |-> [cells |-> cells_reset(Size), head |-> 0]] /\ saved' = saved
    BY <1>1 DEF Clear, Become
  <2> QED BY <1>0, <2>1, ClearRuns
<1>2. ASSUME NEW s \in Seqs, SeqKeepOne(s) PROVE AllRun(v') /\ SavedRun(saved')
  <2>1. v' = [v EXCEPT ![stream(s)] = SeqKeep(v[stream(s)], s)] /\ saved' = saved
    BY <1>2 DEF SeqKeepOne, Become
  <2> QED BY <1>0, <2>1, SeqKeepRuns, Zenon
<1>3. ASSUME NEW s \in Seqs, Save(s) PROVE AllRun(v') /\ SavedRun(saved')
  <2>1. v' = v
    BY <1>3 DEF Save
  <2> QED BY <1>0, <1>3, <2>1, SaveRuns
<1>4. ASSUME NEW s \in Seqs, Load(s) PROVE AllRun(v') /\ SavedRun(saved')
  BY <1>4, LoadRuns
<1>5. ASSUME NEW s \in Seqs, NEW r \in Seqs, CopyState(s, r) PROVE AllRun(v') /\ SavedRun(saved')
  <2>1. saved' = saved
    BY <1>5 DEF CopyState
  <2> QED BY <1>0, <1>5, <2>1, CopyStateRuns
<1>6. ASSUME NEW s \in Seqs, NEW p \in Pos, Truncate(s, p) PROVE AllRun(v') /\ SavedRun(saved')
  <2>1. v' = [v EXCEPT ![stream(s)] = SeqRm(v[stream(s)], s, p, MaxPos + 1)] /\ saved' = saved
    BY <1>6 DEF Truncate, Become
  <2>2. p \in Nat
    BY <1>0
  <2> QED BY <1>0, <2>1, <2>2, RemovedRuns, Zenon
<1>7. ASSUME NEW s \in Seqs, NEW a \in Pos, NEW k \in Pos, ContextShift(s, a, k)
      PROVE  AllRun(v') /\ SavedRun(saved')
  <2> DEFINE past == next_pos(v, s)
             t == SeqAdd(SeqRm(v[stream(s)], s, a, a + k), s, a + k, past, -k)
  <2>1. /\ 0 < k /\ a + k <= past /\ MayShift(s, a + k, past)
        /\ v' = [v EXCEPT ![stream(s)] = t] /\ saved' = saved
    BY <1>7 DEF ContextShift, Become
  <2>2. Shiftable(v[stream(s)].cells, s, a + k, past) /\ a \in Nat /\ k \in Nat
    BY <1>0, <2>1, MayShiftOwn
  <2>3. AllRun([v EXCEPT ![stream(s)] = t])
    BY <2>1, <2>2, ContextShiftRuns, Zenon
  <2> QED BY <1>0, <2>1, <2>3
<1>8. ASSUME NEW s \in Seqs, NEW a \in Pos, NEW b \in Pos, NEW k \in Pos, CacheReuse(s, a, b, k)
      PROVE  AllRun(v') /\ SavedRun(saved')
  <2> DEFINE t == SeqRm(SeqAdd(SeqRm(v[stream(s)], s, a, b), s, b, b + k, a - b), s, a + k, MaxPos + 1)
  <2>1. /\ a < b /\ 0 < k /\ b + k <= next_pos(v, s) /\ MayShift(s, b, b + k)
        /\ v' = [v EXCEPT ![stream(s)] = t] /\ saved' = saved
    BY <1>8 DEF CacheReuse, Become
  <2>2. Shiftable(v[stream(s)].cells, s, b, b + k) /\ a \in Nat /\ b \in Nat /\ k \in Nat
    BY <1>0, <2>1, MayShiftOwn
  <2>3. AllRun([v EXCEPT ![stream(s)] = t])
    BY <2>1, <2>2, CacheReuseRuns, Zenon
  <2> QED BY <1>0, <2>1, <2>3
<1>9. ASSUME NEW n \in Batches, Decode(n) PROVE AllRun(v') /\ SavedRun(saved')
  <2>1. saved' = saved
    BY <1>9 DEF Decode
  <2> QED BY <1>0, <1>9, <2>1, DecodeRuns
<1>10. CASE \E s \in Seqs :
             \/ SeqKeepOne(s) \/ Save(s) \/ Load(s)
             \/ \E r \in Seqs : CopyState(s, r)
             \/ \E p \in Pos : Truncate(s, p)
             \/ \E n_keep, n_discard \in Pos : ContextShift(s, n_keep, n_discard)
             \/ \E head_p, head_c, n_match \in Pos : CacheReuse(s, head_p, head_c, n_match)
  BY <1>2, <1>3, <1>4, <1>5, <1>6, <1>7, <1>8, <1>10
<1> QED BY <1>1, <1>9, <1>10 DEF Next

LEMMA LayoutFixed == Next => layout' = layout
BY Zenon DEF Next, Clear, SeqKeepOne, Save, Load, CopyState, Truncate, ContextShift, CacheReuse, Decode

LEMMA NextPrefixed ==
  ASSUME "shared_shift" \notin Allowed
  PROVE  Prefixed /\ [Next]_vars => Prefixed'
<1> SUFFICES ASSUME Prefixed, [Next]_vars PROVE Prefixed'
  OBVIOUS
<1>1. TablesRooted'
  BY NextTables DEF Prefixed
<1>2. CASE Next
  <2>1. layout' = layout
    BY <1>2, LayoutFixed
  <2>2. layout.window = 0 => AllRun(v') /\ SavedRun(saved')
    BY <1>2, PrefixedHas, WindowlessCall
  <2>3. layout.window = 0 => AllRun(v)' /\ SavedRun(saved)'
    BY <2>1, <2>2, RunsStay
  <2> QED BY <1>1, <2>1, <2>3 DEF Prefixed
<1>3. CASE UNCHANGED vars
  <2>1. layout' = layout /\ v' = v /\ saved' = saved
    BY <1>3 DEF vars
  <2>2. layout.window = 0 => AllRun(v)' /\ SavedRun(saved)'
    BY <2>1, RunsStay DEF Prefixed
  <2> QED BY <1>1, <2>1, <2>2 DEF Prefixed
<1> QED BY <1>2, <1>3

LEMMA RunPositions ==
  ASSUME Windowless, NEW s \in Seqs
  PROVE  \E m \in Nat : /\ next_pos(v, s) = m /\ SeqPositions(s) = 0 .. m - 1
                        /\ Cardinality(SeqCells(s)) = Cardinality(SeqPositions(s))
<1> DEFINE c == v[stream(s)].cells
           m == next_pos(v, s)
           C == SeqCells(s)
           P == SeqPositions(s)
<1>1. Run(c, s, m) /\ m \in Nat
  BY WindowlessFacts, RunNext, NextPosType
<1> HIDE DEF m
<1>2. C \in SUBSET Size /\ (\A i \in Size : i \in C <=> s \in c.seq[i]) /\ P = {c.pos[i] : i \in C}
  BY DEF SeqCells, SeqPositions, seq_has
<1> HIDE DEF C, P, c
<1>3. P = 0 .. m - 1
  <2>1. \A p \in P : p \in 0 .. m - 1
    BY <1>1, <1>2 DEF Run, Holds
  <2>2. ASSUME NEW p \in 0 .. m - 1 PROVE p \in P
    <3>1. PICK i \in Size : s \in c.seq[i] /\ c.pos[i] = p
      BY <1>1 DEF Run, Holds
    <3> QED BY <1>2, <3>1
  <2> QED BY <2>1, <2>2, Zenon
<1>4. IsFiniteSet(C)
  BY <1>2, WindowlessFacts, LayoutFacts, FS_Subset
<1>5. Cardinality(C) = Cardinality(P)
  <2> DEFINE f == [i \in C |-> c.pos[i]]
  <2>1. \A i \in C : c.pos[i] \in P
    BY <1>2
  <2>2. \A p \in P : \E i \in C : c.pos[i] = p
    BY <1>2
  <2>3. \A i, j \in C : c.pos[i] = c.pos[j] => i = j
    BY <1>1, <1>2 DEF Run, Holds
  <2>4. f \in Bijection(C, P)
    BY <2>1, <2>2, <2>3, Fun_IsBij
  <2>5. ExistsBijection(C, P)
    BY <2>4 DEF ExistsBijection
  <2> QED BY <1>4, <2>5, FS_Bijection
<1> QED BY <1>1, <1>3, <1>5 DEF m, P, C

\* "all positions in the range [pos_min, pos_max] are guaranteed to be
\* present in the memory": without a window, and when no cell that two
\* sequences share is shifted, a sequence never has a gap, and no position
\* twice, whatever is truncated, shifted, reused, copied, saved, read back,
\* refused or fails (the operations of llama_kv_cache).
THEOREM NoGapsWithoutWindow ==
  ASSUME "shared_shift" \notin Allowed
  PROVE  Spec => [](layout.window = 0 => NoGaps)
<1>1. ASSUME Prefixed, layout.window = 0 PROVE NoGaps
  <2> SUFFICES ASSUME NEW s \in Seqs
               PROVE  /\ SeqPositions(s) # {} => SeqPositions(s) = Min(SeqPositions(s)) .. Max(SeqPositions(s))
                      /\ Cardinality(SeqCells(s)) = Cardinality(SeqPositions(s))
    BY DEF NoGaps
  <2>1. PICK m \in Nat : SeqPositions(s) = 0 .. m - 1 /\ Cardinality(SeqCells(s)) = Cardinality(SeqPositions(s))
    BY <1>1, PrefixedHas, RunPositions
  <2>2. ASSUME m # 0 PROVE Min(0 .. m - 1) = 0 /\ Max(0 .. m - 1) = m - 1
    <3> DEFINE A == 0 .. m - 1
    <3>1. 0 \in A /\ (\A p \in A : 0 <= p) /\ m - 1 \in A /\ (\A p \in A : p <= m - 1) /\ A \in SUBSET Int
      BY <2>2
    <3> HIDE DEF A
    <3>2. Min(A) \in A /\ \A p \in A : Min(A) <= p
      BY <3>1, Zenon DEF Min
    <3>3. Max(A) \in A /\ \A p \in A : p <= Max(A)
      BY <3>1, Zenon DEF Max
    <3>4. Min(A) <= 0 /\ 0 <= Min(A) /\ Min(A) \in Int /\ Max(A) <= m - 1 /\ m - 1 <= Max(A) /\ Max(A) \in Int
      BY <3>1, <3>2, <3>3, Zenon
    <3>5. Min(A) = 0 /\ Max(A) = m - 1
      BY <3>4
    <3> QED BY <3>5 DEF A
  <2>3. m = 0 => 0 .. m - 1 = {}
    OBVIOUS
  <2> QED BY <2>1, <2>2, <2>3
<1> QED BY <1>1, InitPrefixed, NextPrefixed, PTL DEF Spec

\* Without a window, and when no cell that two sequences share is shifted,
\* the next token of a sequence finds every earlier position in the cache:
\* the limits that next_pos is read from say what the cells hold
\* (llama_kv_cache and the decoder that trusts it).
THEOREM WholeWithoutWindow ==
  ASSUME "shared_shift" \notin Allowed
  PROVE  Spec => [](layout.window = 0 => WindowWhole)
<1>1. ASSUME Prefixed, layout.window = 0 PROVE WindowWhole
  <2> SUFFICES ASSUME NEW s \in Seqs, NEW p \in 0 .. next_pos(v, s) - 1 PROVE p \in SeqPositions(s)
    BY DEF WindowWhole
  <2> QED BY <1>1, PrefixedHas, RunPositions
<1> QED BY <1>1, InitPrefixed, NextPrefixed, PTL DEF Spec

-----------------------------------------------------------------------------
(* How many cells a batch asks for.                                        *)

\* The tokens of a stream from the places x up to the places y.
Between(x, y, d) == {z \in Token : stream(z.seq) = d /\ x[z.seq] <= z.pos /\ z.pos < y[z.seq]}

LEMMA SegmentsBetween ==
  ASSUME layout \in Layouts, NEW x \in Amounts, NEW m \in Amounts, InBounds(x, m), NEW d
  PROVE  Segments(x, m, d) = Between(x, Onward(x, m), d)
<1> DEFINE A == Segments(x, m, d)
           B == Between(x, Onward(x, m), d)
<1>1. A \in SUBSET Token
  BY TokensOfType
<1>2. \A s \in Seqs : x[s] \in Nat /\ m[s] \in Nat /\ Onward(x, m)[s] = x[s] + m[s]
  BY DEF Amounts, Onward
<1>3. ASSUME NEW z \in A PROVE z \in B
  <2>1. PICK s \in Seqs : stream(s) = d /\ z \in Segment(x, m, s)
    BY DEF Segments
  <2>2. PICK k \in 1..m[s] : z = [seq |-> s, pos |-> x[s] + k - 1]
    BY <2>1 DEF Segment
  <2>3. z.seq = s /\ z.pos = x[s] + k - 1 /\ z \in Token
    BY <1>1, <2>2
  <2>4. x[s] <= z.pos /\ z.pos < x[s] + m[s]
    BY <1>2, <2>3
  <2> QED BY <1>2, <2>1, <2>3, <2>4 DEF Between
<1>4. ASSUME NEW z \in B PROVE z \in A
  <2>1. z \in Token /\ stream(z.seq) = d /\ x[z.seq] <= z.pos /\ z.pos < Onward(x, m)[z.seq]
    BY DEF Between
  <2> DEFINE s == z.seq
             p == z.pos
             k == p - x[s] + 1
  <2>2. s \in Seqs /\ p \in Int /\ z = [seq |-> s, pos |-> p]
    BY <2>1, LayoutFacts DEF Token
  <2>3. p < x[s] + m[s] /\ x[s] <= p /\ stream(s) = d
    BY <1>2, <2>1, <2>2
  <2> HIDE DEF s, p
  <2>4. k \in 1..m[s] /\ x[s] + k - 1 = p
    BY <1>2, <2>2, <2>3
  <2>5. z = [seq |-> s, pos |-> x[s] + k - 1]
    BY <2>2, <2>4
  <2> HIDE DEF k
  <2>6. z \in Segment(x, m, s)
    BY <2>4, <2>5 DEF Segment
  <2> QED BY <2>2, <2>3, <2>6 DEF Segments
<1> QED BY <1>3, <1>4

LEMMA UpToCount ==
  ASSUME NEW n \in Nat
  PROVE  IsFiniteSet(1..n) /\ Cardinality(1..n) = n
<1>1. 1 \in Int /\ n \in Int
  OBVIOUS
<1>2. IsFiniteSet(1..n) /\ Cardinality(1..n) = IF 1 > n THEN 0 ELSE n - 1 + 1
  BY <1>1, FS_Interval
<1>3. (IF 1 > n THEN 0 ELSE n - 1 + 1) = n
  OBVIOUS
<1> QED BY <1>2, <1>3

LEMMA SegmentCount ==
  ASSUME NEW x \in Amounts, NEW m \in Amounts, NEW s \in Seqs
  PROVE  IsFiniteSet(Segment(x, m, s)) /\ Cardinality(Segment(x, m, s)) = m[s]
<1> DEFINE K == 1..m[s]
           S == Segment(x, m, s)
           f == [k \in K |-> [seq |-> s, pos |-> x[s] + k - 1]]
<1>1. x[s] \in Nat /\ m[s] \in Nat
  BY DEF Amounts
<1>2. \A k \in K : f[k] \in S
  BY DEF Segment
<1>3. \A z \in S : \E k \in K : f[k] = z
  BY DEF Segment
<1>4. ASSUME NEW j \in K, NEW k \in K, f[j] = f[k] PROVE j = k
  <2>1. f[j] = [seq |-> s, pos |-> x[s] + j - 1] /\ f[k] = [seq |-> s, pos |-> x[s] + k - 1]
    OBVIOUS
  <2> HIDE DEF f
  <2>2. x[s] + j - 1 = x[s] + k - 1
    <3> DEFINE a == x[s] + j - 1
               b == x[s] + k - 1
    <3>1. [seq |-> s, pos |-> a] = [seq |-> s, pos |-> b]
      BY <1>4, <2>1, Zenon
    <3> HIDE DEF a, b
    <3>2. a = b
      BY <3>1
    <3> QED BY <3>2 DEF a, b
  <2>3. j \in Int /\ k \in Int
    OBVIOUS
  <2> QED BY <1>1, <2>2, <2>3
<1>5. f \in [K -> S]
  BY <1>2, Zenon
<1>6. IsFiniteSet(K) /\ Cardinality(K) = m[s]
  BY <1>1, UpToCount
<1> HIDE DEF f, S, K
<1>7. f \in Bijection(K, S)
  BY <1>3, <1>4, <1>5, Fun_IsBij
<1>8. ExistsBijection(K, S)
  BY <1>7 DEF ExistsBijection
<1>9. IsFiniteSet(S) /\ Cardinality(S) = Cardinality(K)
  BY <1>6, <1>8, FS_Bijection
<1> QED BY <1>6, <1>9 DEF S

\* The sum of the tokens of some sequences counts these tokens.
Tokens(x, m, u) == UNION {Segment(x, m, s) : s \in u}

LEMMA TokensGrow ==
  ASSUME layout \in Layouts, NEW x \in Amounts, NEW m \in Amounts, NEW u \in SUBSET Seqs, NEW i \in u,
         IsFiniteSet(Tokens(x, m, u \ {i}))
  PROVE  /\ IsFiniteSet(Tokens(x, m, u))
         /\ Cardinality(Tokens(x, m, u)) = m[i] + Cardinality(Tokens(x, m, u \ {i}))
<1> DEFINE A == Segment(x, m, i)
           B == Tokens(x, m, u \ {i})
           C == Tokens(x, m, u)
<1>1. C = A \cup B
  BY DEF Tokens
<1>2. A \cap B = {}
  <2> SUFFICES ASSUME NEW z \in A, NEW s \in u \ {i}, z \in Segment(x, m, s) PROVE FALSE
    BY DEF Tokens
  <2>1. z.seq = i /\ z.seq = s
    BY DEF Segment
  <2> QED BY <2>1
<1>3. IsFiniteSet(A) /\ Cardinality(A) = m[i] /\ m[i] \in Nat
  BY SegmentCount DEF Amounts
<1>4. IsFiniteSet(B) /\ Cardinality(B) \in Nat
  BY FS_CardinalityType
<1> HIDE DEF A, B, C
<1>5. IsFiniteSet(C) /\ Cardinality(C) = Cardinality(A) + Cardinality(B) - Cardinality({})
  BY <1>1, <1>2, <1>3, <1>4, FS_Union
<1>6. Cardinality(C) = m[i] + Cardinality(B)
  BY <1>3, <1>4, <1>5, FS_EmptySet
<1> QED BY <1>5, <1>6 DEF B, C

LEMMA SumCounts ==
  ASSUME layout \in Layouts, NEW x0 \in Amounts, NEW n \in Amounts, NEW S0 \in SUBSET Seqs
  PROVE  IsFiniteSet(Tokens(x0, n, S0)) /\ SumOf(n, S0) = Cardinality(Tokens(x0, n, S0))
<1> DEFINE pick(u) == CHOOSE y \in u : TRUE
           S == S0
           base == 0
           does(i, x) == n[i] + x
           ch == [u \in SUBSET S |-> pick(u)]
           P == [u \in SUBSET S |->
                   {k \in Nat : IsFiniteSet(Tokens(x0, n, u)) /\ k = Cardinality(Tokens(x0, n, u))}]
           step == [z \in S \X Nat |-> does(z[1], z[2])]
           value(u, f) == IF u = {} THEN base ELSE does(pick(u), f[u \ {pick(u)}])
           Solves(f) == f = [u \in SUBSET S |-> value(u, f)]
           iter == CHOOSE f : Solves(f)
<1>1. SumOf(n, S0) = iter[S]
  BY DEF SumOf, FoldSet, MapThenFoldSet, MapThenSumSet
<1>2. IsFiniteSet(S) /\ \A u \in SUBSET S : u # {} => pick(u) \in u
  BY LayoutFacts, FS_Subset
<1>3. base \in P[{}]
  <2>1. Tokens(x0, n, {}) = {}
    BY DEF Tokens
  <2> QED BY <2>1, FS_EmptySet
<1>4. ASSUME NEW u \in SUBSET S, u # {}, NEW x \in P[u \ {pick(u)}]
      PROVE  does(pick(u), x) \in P[u] /\ pick(u) \in S /\ x \in Nat
  <2> DEFINE i == pick(u)
             e == does(i, x)
  <2>1. i \in u /\ i \in S /\ u \in SUBSET S /\ u \ {i} \in SUBSET S
    BY <1>2, <1>4
  <2>2. x \in Nat /\ IsFiniteSet(Tokens(x0, n, u \ {i})) /\ x = Cardinality(Tokens(x0, n, u \ {i}))
    BY <2>1
  <2> HIDE DEF i, P, ch, pick, S, base
  <2>3. e \in Nat /\ u \in SUBSET Seqs
    <3>1. n[i] \in Nat
      BY <2>1 DEF S, Amounts
    <3> QED BY <2>1, <2>2, <3>1 DEF S
  <2>4. IsFiniteSet(Tokens(x0, n, u)) /\ Cardinality(Tokens(x0, n, u)) = n[i] + Cardinality(Tokens(x0, n, u \ {i}))
    BY <2>1, <2>2, <2>3, TokensGrow
  <2>5. e = Cardinality(Tokens(x0, n, u))
    BY <2>2, <2>4
  <2> QED BY <2>1, <2>2, <2>3, <2>4, <2>5 DEF P, i
<1> HIDE DEF pick, does, P, S, base
<1>5. \E f : Solves(f)
  <2>1. FoldsIn(S, ch, P, base, step)
    BY <1>2, <1>3, <1>4, Zenon DEF FoldsIn
  <2>2. PICK f : TakesFold(S, ch, P, base, step, f)
    BY <2>1, FoldExists, Zenon
  <2>3. ASSUME NEW u \in SUBSET S PROVE f[u] = value(u, f)
    BY <1>4, <2>2, Zenon DEF TakesFold
  <2>4. f = [u \in SUBSET S |-> f[u]]
    BY <2>2 DEF TakesFold
  <2> HIDE DEF value
  <2> QED BY <2>3, <2>4, Zenon
<1>6. iter[S] \in P[S]
  <2>1. Solves(iter)
    <3> HIDE DEF Solves
    <3> QED BY <1>5
  <2> HIDE DEF iter
  <2>2. \A u \in SUBSET S : iter[u] = value(u, iter)
    <3> HIDE DEF value
    <3> QED BY <2>1
  <2>3. KeepsFold(S, ch, P, iter)
    BY <1>2, <1>3, <1>4, <2>2, Zenon DEF KeepsFold
  <2> QED BY <2>3, FoldKeeps
<1> QED BY <1>1, <1>6 DEF P, S

\* So the tokens of a batch for stream d are those up to its last places.
LEMMA AskedOf ==
  ASSUME layout \in Layouts, NEW x \in Amounts, NEW n \in Amounts, InBounds(x, n), NEW d
  PROVE  /\ IsFiniteSet(Between(x, Onward(x, n), d))
         /\ SumOf(n, {s \in Seqs : stream(s) = d}) = Cardinality(Between(x, Onward(x, n), d))
<1>1. Tokens(x, n, {s \in Seqs : stream(s) = d}) = Segments(x, n, d)
  BY DEF Tokens, Segments
<1>2. {s \in Seqs : stream(s) = d} \in SUBSET Seqs
  OBVIOUS
<1> QED BY <1>1, <1>2, SumCounts, SegmentsBetween

LEMMA DistinctCount ==
  ASSUME NEW S, NEW f \in Seq(S), Distinct(f)
  PROVE  IsFiniteSet(ToSet(f)) /\ Cardinality(ToSet(f)) = Len(f)
<1> DEFINE K == 1..Len(f)
           T == ToSet(f)
<1>1. DOMAIN f = K /\ Len(f) \in Nat /\ f = [k \in K |-> f[k]]
  BY LenProperties
<1>2. T = {f[k] : k \in K}
  BY <1>1 DEF ToSet
<1>3. IsFiniteSet(K) /\ Cardinality(K) = Len(f)
  BY <1>1, UpToCount
<1>4. \A j, k \in K : f[j] = f[k] => j = k
  BY <1>1 DEF Distinct
<1> HIDE DEF K, T
<1>5. f \in [K -> T] /\ \A t \in T : \E k \in K : f[k] = t
  BY <1>1, <1>2
<1>6. f \in Bijection(K, T)
  BY <1>4, <1>5, Fun_IsBij
<1>7. ExistsBijection(K, T)
  BY <1>6 DEF ExistsBijection
<1> QED BY <1>3, <1>7, FS_Bijection DEF T

\* An ubatch takes as many cells as it has tokens.
LEMMA FreeAfter ==
  ASSUME layout \in Layouts, NEW c, NEW e, NEW tokens \in Seq(Token), NEW idxs \in Seq(Size),
         Len(idxs) = Len(tokens), Filled(c, e, tokens, idxs, DOMAIN idxs),
         Distinct(idxs), ToSet(idxs) \subseteq FreeCells(c)
  PROVE  /\ IsFiniteSet(FreeCells(c)) /\ IsFiniteSet(FreeCells(e))
         /\ Cardinality(FreeCells(e)) + Len(tokens) = Cardinality(FreeCells(c))
<1> DEFINE A == FreeCells(c)
           B == FreeCells(e)
           T == ToSet(idxs)
<1>1. IsFiniteSet(A) /\ IsFiniteSet(B) /\ A \in SUBSET Size /\ B \in SUBSET Size
  <2>1. A \in SUBSET Size /\ B \in SUBSET Size
    BY DEF FreeCells
  <2> HIDE DEF A, B
  <2> QED BY <2>1, LayoutFacts, FS_Subset
<1>2. DOMAIN idxs = 1..Len(tokens) /\ DOMAIN tokens = 1..Len(tokens) /\ Len(tokens) \in Nat
  BY LenProperties
<1>3. \A k \in DOMAIN idxs : tokens[k].pos # Empty /\ idxs[k] \in Size
  <2>1. \A k \in DOMAIN idxs : tokens[k] \in Token /\ idxs[k] \in Size
    BY <1>2, ElementOfSeq
  <2>2. \A z \in Token : z.pos # Empty
    BY LayoutFacts DEF Token
  <2> QED BY <2>1, <2>2
<1>4. \A i \in Size : i \in T <=> \E k \in DOMAIN idxs : idxs[k] = i
  BY DEF ToSet
<1>5. \A i \in Size : i \in A <=> c.pos[i] = Empty
  BY DEF FreeCells
<1>6. \A i \in Size : i \in B <=> e.pos[i] = Empty
  BY DEF FreeCells
<1>7. T \in SUBSET A
  OBVIOUS
<1> HIDE DEF A, B, T
<1>8. ASSUME NEW i \in Size PROVE i \in B <=> i \in A \ T
  <2>1. CASE i \in T
    <3>1. PICK k \in DOMAIN idxs : idxs[k] = i
      BY <1>4, <2>1
    <3>2. e.pos[i] = tokens[k].pos
      BY <3>1 DEF Filled
    <3> QED BY <1>3, <1>6, <2>1, <3>2
  <2>2. CASE i \notin T
    <3>1. e.pos[i] = c.pos[i]
      BY <1>4, <2>2 DEF Filled
    <3> QED BY <1>5, <1>6, <2>2, <3>1
  <2> QED BY <2>1, <2>2
<1>9. B = A \ T /\ A \cap T = T
  BY <1>1, <1>7, <1>8
<1>10. IsFiniteSet(T) /\ Cardinality(T) = Len(tokens)
  BY DistinctCount DEF T
<1>11. Cardinality(B) = Cardinality(A) - Cardinality(T)
  <2>1. Cardinality(A \ T) = Cardinality(A) - Cardinality(A \cap T)
    BY <1>1, FS_Difference, Zenon
  <2> QED BY <1>9, <2>1, Zenon
<1>12. Cardinality(A) \in Nat /\ Cardinality(B) \in Nat
  BY <1>1, FS_CardinalityType
<1>13. Cardinality(B) + Len(tokens) = Cardinality(A)
  BY <1>2, <1>10, <1>11, <1>12
<1> QED BY <1>1, <1>13 DEF A, B

LEMMA BetweenFinite ==
  ASSUME layout \in Layouts, NEW x, NEW y, NEW d
  PROVE  IsFiniteSet(Between(x, y, d)) /\ Cardinality(Between(x, y, d)) \in Nat
<1>1. Between(x, y, d) \in SUBSET Token
  BY DEF Between
<1>2. IsFiniteSet(Between(x, y, d))
  BY <1>1, TokensFinite, FS_Subset
<1> QED BY <1>2, FS_CardinalityType

Below(x, y) == \A s \in Seqs : x[s] <= y[s]

\* A cut advances by the tokens of its ubatch.
LEMMA CutCounts ==
  ASSUME layout \in Layouts, NEW first \in Amounts, NEW x \in Amounts, NEW y \in Amounts, NEW ub, IsCut(x, y, ub),
         Below(first, x), NEW d \in Streams
  PROVE  /\ Below(first, y)
         /\ Cardinality(Between(first, y, d)) = Cardinality(Between(first, x, d)) + Len(ub[d])
<1> DEFINE A == Between(first, x, d)
           B == Between(x, y, d)
           C == Between(first, y, d)
<1>1. PICK m \in Amounts : InBounds(x, m) /\ y = Onward(x, m) /\ ub = [b \in Streams |-> TokensOf(x, m, b)]
  BY DEF IsCut
<1>2. \A s \in Seqs : first[s] \in Nat /\ x[s] \in Nat /\ y[s] \in Nat /\ first[s] <= x[s] /\ x[s] <= y[s]
  <2>1. \A s \in Seqs : y[s] = x[s] + m[s] /\ x[s] \in Nat /\ m[s] \in Nat /\ first[s] \in Nat
    BY <1>1 DEF Onward, Amounts
  <2>2. \A s \in Seqs : first[s] <= x[s]
    BY DEF Below
  <2> QED BY <2>1, <2>2
<1>3. C = A \cup B /\ A \cap B = {}
  <2>1. \A z \in Token : z.seq \in Seqs /\ z.pos \in Nat
    BY LayoutFacts DEF Token
  <2>2. \A z \in Token : first[z.seq] \in Nat /\ x[z.seq] \in Nat /\ y[z.seq] \in Nat
                         /\ first[z.seq] <= x[z.seq] /\ x[z.seq] <= y[z.seq]
    BY <1>2, <2>1
  <2>3. \A z \in Token : /\ first[z.seq] <= z.pos /\ z.pos < y[z.seq]
                            <=> (first[z.seq] <= z.pos /\ z.pos < x[z.seq]) \/ (x[z.seq] <= z.pos /\ z.pos < y[z.seq])
                         /\ ~((first[z.seq] <= z.pos /\ z.pos < x[z.seq]) /\ (x[z.seq] <= z.pos /\ z.pos < y[z.seq]))
    BY <2>1, <2>2
  <2> QED BY <2>3 DEF Between
<1>4. Len(ub[d]) = Cardinality(B)
  <2> DEFINE f == TokensOf(x, m, d)
             S == Segments(x, m, d)
  <2>1. f \in Seq(Token) /\ Enumerates(f, S) /\ S = B
    BY <1>1, TokensOfType, SegmentsBetween
  <2>2. ub[d] = f
    BY <1>1
  <2> HIDE DEF f, S, B
  <2>3. ToSet(f) = S /\ Distinct(f)
    <3>1. \A k \in DOMAIN f : f[k] \in S
      BY <2>1 DEF Enumerates
    <3>2. \A z \in S : \E k \in DOMAIN f : f[k] = z
      BY <2>1 DEF Enumerates
    <3>3. ToSet(f) = {f[k] : k \in DOMAIN f}
      BY DEF ToSet
    <3> QED BY <2>1, <3>1, <3>2, <3>3 DEF Enumerates
  <2>4. Cardinality(ToSet(f)) = Len(f)
    BY <2>1, <2>3, DistinctCount
  <2> QED BY <2>1, <2>2, <2>3, <2>4
<1>5. Below(first, y)
  <2>1. \A a, b, c \in Nat : a <= b /\ b <= c => a <= c
    OBVIOUS
  <2> QED BY <1>2, <2>1 DEF Below
<1>6. IsFiniteSet(A) /\ IsFiniteSet(B) /\ Cardinality(A) \in Nat /\ Cardinality(B) \in Nat
  BY BetweenFinite
<1> HIDE DEF A, B, C
<1>7. Cardinality(C) = Cardinality(A) + Cardinality(B) - Cardinality({})
  BY <1>3, <1>6, FS_Union
<1>8. Cardinality(C) = Cardinality(A) + Cardinality(B)
  BY <1>6, <1>7, FS_EmptySet
<1> QED BY <1>4, <1>5, <1>8 DEF A, C

\* The cells that are free and those that were taken make what was free.
Balanced(a, w, nx, first, d) ==
  /\ Below(first, nx)
  /\ IsFiniteSet(FreeCells(w[d].cells))
  /\ Cardinality(FreeCells(w[d].cells)) + Cardinality(Between(first, nx, d)) = a

LEMMA LeadsCounts ==
  ASSUME layout \in Layouts, NEW ubs \in Seq(Ubatch), NEW slots \in Seq(SlotMaps), Fitting(ubs, slots),
         NEW w, Leads(w, ubs, slots, Len(slots)),
         NEW nx, NEW first \in Amounts, NEW n, Plans(nx, ubs, first, n), NEW d \in Streams
  PROVE  Balanced(Cardinality(FreeCells(w[0][d].cells)), w[Len(slots)], nx[Len(slots)], first, d)
<1> DEFINE k == Len(slots)
           a == Cardinality(FreeCells(w[0][d].cells))
           f == [j \in 0..k |-> j]
           P == [j \in 0..k |-> {i \in 0..k : Balanced(a, w[i], nx[i], first, d)}]
<1>1. Len(ubs) \in Nat /\ k \in Nat /\ k <= Len(ubs)
  BY LenProperties DEF Fitting
<1>2. Balanced(a, w[0], nx[0], first, d)
  <2>1. nx[0] = first /\ Below(first, first)
    BY DEF Plans, Below, Amounts
  <2>2. Between(first, first, d) = {}
    <3>1. \A z \in Token : first[z.seq] \in Nat /\ z.pos \in Nat
      BY LayoutFacts DEF Token, Amounts
    <3> QED BY <3>1 DEF Between
  <2>3. FreeCells(w[0][d].cells) \in SUBSET Size
    BY DEF FreeCells
  <2>4. IsFiniteSet(FreeCells(w[0][d].cells)) /\ a \in Nat
    BY <2>3, LayoutFacts, FS_Subset, FS_CardinalityType
  <2>5. Cardinality(Between(first, first, d)) = 0
    BY <2>2, FS_EmptySet
  <2>6. a + Cardinality(Between(first, first, d)) = a
    BY <2>4, <2>5
  <2> QED BY <2>1, <2>4, <2>6 DEF Balanced
<1>3. ASSUME NEW j \in 1..k, Balanced(a, w[j - 1], nx[j - 1], first, d) PROVE Balanced(a, w[j], nx[j], first, d)
  <2>1. j \in 1..Len(ubs) /\ j \in 1..Len(slots) /\ j - 1 \in 0..Len(ubs) /\ j \in 0..Len(ubs)
    BY <1>1
  <2>2. ubs[j] \in Ubatch /\ slots[j] \in SlotMaps /\ Fills(slots[j], ubs[j])
    BY <2>1, ElementOfSeq DEF Fitting
  <2>3. FreeSlot(w[j - 1], slots[j]) /\ AllFilled(w[j - 1], w[j], ubs[j], slots[j])
    BY DEF Leads
  <2>4. nx[j - 1] \in Amounts /\ nx[j] \in Amounts /\ IsCut(nx[j - 1], nx[j], ubs[j])
    BY <2>1, Zenon DEF Plans
  <2> DEFINE c == w[j - 1][d].cells
             e == w[j][d].cells
             x == nx[j - 1]
             y == nx[j]
             ub == ubs[j]
             slot == slots[j]
  <2>5. ub[d] \in Seq(Token) /\ slot[d] \in Seq(Size) /\ Len(slot[d]) = Len(ub[d]) /\ Len(ub[d]) \in Nat
    BY <2>2, LenProperties DEF Ubatch, SlotMaps, Fills
  <2>6. Filled(c, e, ub[d], slot[d], DOMAIN slot[d]) /\ Distinct(slot[d]) /\ ToSet(slot[d]) \subseteq FreeCells(c)
    BY <2>3 DEF AllFilled, FreeSlot
  <2>7. Below(first, x) /\ Cardinality(FreeCells(c)) + Cardinality(Between(first, x, d)) = a
    BY <1>3 DEF Balanced
  <2>8. x \in Amounts /\ y \in Amounts /\ IsCut(x, y, ub)
    BY <2>4
  <2> HIDE DEF c, e, x, y, ub, slot, a, P, k
  <2>9. IsFiniteSet(FreeCells(c)) /\ IsFiniteSet(FreeCells(e)) /\ Cardinality(FreeCells(e)) + Len(ub[d]) = Cardinality(FreeCells(c))
    BY <2>5, <2>6, FreeAfter
  <2>10. Below(first, y) /\ Cardinality(Between(first, y, d)) = Cardinality(Between(first, x, d)) + Len(ub[d])
    BY <2>7, <2>8, CutCounts
  <2>11. /\ Cardinality(FreeCells(e)) \in Nat /\ Cardinality(FreeCells(c)) \in Nat
         /\ Cardinality(Between(first, x, d)) \in Nat /\ Cardinality(Between(first, y, d)) \in Nat
    BY <2>9, BetweenFinite, FS_CardinalityType
  <2>12. Cardinality(FreeCells(e)) + Cardinality(Between(first, y, d)) = a
    BY <2>5, <2>7, <2>9, <2>10, <2>11
  <2> QED BY <2>9, <2>10, <2>12 DEF Balanced, e, y
<1> HIDE DEF a
<1>4. KeepsIn(k, P, f)
  <2>1. 0 \in 0..k /\ \A j \in 1..k : j \in 0..k /\ j - 1 \in 0..k
    BY <1>1
  <2> HIDE DEF k
  <2> QED BY <1>1, <1>2, <1>3, <2>1, Zenon DEF KeepsIn
<1>5. \A j \in 0..k : f[j] \in P[j]
  <2> HIDE DEF f, P
  <2> QED BY <1>4, StepsKeep
<1>6. k \in 0..k
  BY <1>1
<1>7. Balanced(a, w[k], nx[k], first, d)
  <2> HIDE DEF k
  <2> QED BY <1>5, <1>6
<1> QED BY <1>7 DEF a

\* A batch that is refused asks a stream for more cells than are free.
LEMMA RefusedAsksMore ==
  ASSUME TablesRooted, layout.window = 0, NEW n \in Batches, Fits(n), ~prepare(UpdatedV, Ubatches(First, n)).ok
  PROVE  \E d \in Streams :
           SumOf(n, {s \in Seqs : stream(s) = d}) > layout.cells - Cardinality({i \in Size : v[d].cells.pos[i] # Empty})
<1> DEFINE ubs == Ubatches(First, n)
           p == prepare(UpdatedV, ubs)
           first == First
<1>1. layout \in Layouts /\ v \in Caches
  BY DEF TablesRooted
<1>2. n \in Amounts /\ first \in Amounts /\ ubs \in Seq(Ubatch) /\ Planned(ubs, first, n)
  BY <1>1, BatchCut
<1>3. InBounds(first, n)
  <2>1. layout.length \in Nat /\ layout.length <= MaxPos + 1 /\ MaxPos \in Nat
    BY <1>1, LayoutAssumption, LayoutFacts
  <2>2. \A s \in Seqs : n[s] \in Nat /\ first[s] \in Nat /\ (n[s] > 0 => first[s] + n[s] <= layout.length)
    BY <1>2 DEF Fits, Amounts
  <2> HIDE DEF first
  <2> QED BY <2>1, <2>2 DEF InBounds
<1>4. ~p.ok
  OBVIOUS
<1> HIDE DEF ubs, first
<1>5. UpdatedV \in Stills
  BY <1>1, UpdatedVType
<1>6. p.slots \in Seq(SlotMaps) /\ Fitting(ubs, p.slots) /\ Prepared(p, UpdatedV, ubs)
  BY <1>1, <1>2, <1>5, PrepareKeeps
<1> HIDE DEF p
<1> DEFINE k == Len(p.slots)
<1>7. PICK w : w[0] = UpdatedV /\ Leads(w, ubs, p.slots, k) /\ StopsAt(w[k], ubs, k)
  BY <1>4, <1>6 DEF Prepared
<1>8. PICK nx : Plans(nx, ubs, first, n)
  BY <1>2 DEF Planned
<1>9. k \in Nat /\ k < Len(ubs) /\ Len(ubs) \in Nat
  BY <1>2, <1>6, <1>7, LenProperties DEF StopsAt
<1>10. PICK d \in Streams : Cardinality(FreeCells(w[k][d].cells)) < Len(ubs[k + 1][d])
  BY <1>7 DEF StopsAt, TooFew
<1>11. Balanced(Cardinality(FreeCells(w[0][d].cells)), w[k], nx[k], first, d)
  BY <1>1, <1>2, <1>6, <1>7, <1>8, LeadsCounts
<1> DEFINE x == nx[k]
           y == nx[k + 1]
           A == FreeCells(w[k][d].cells)
           all == Between(first, Onward(first, n), d)
           a == Cardinality(FreeCells(w[0][d].cells))
<1>12. x \in Amounts /\ y \in Amounts /\ IsCut(x, y, ubs[k + 1]) /\ \A s \in Seqs : y[s] <= first[s] + n[s]
  <2>1. k \in 0..Len(ubs) /\ k + 1 \in 0..Len(ubs) /\ k + 1 \in 1..Len(ubs) /\ (k + 1) - 1 = k
    BY <1>9
  <2> QED BY <1>8, <2>1 DEF Plans
<1>13. Below(first, x) /\ IsFiniteSet(A) /\ Cardinality(A) + Cardinality(Between(first, x, d)) = a
  BY <1>11 DEF Balanced
<1>14. ubs[k + 1][d] \in Seq(Token) /\ Len(ubs[k + 1][d]) \in Nat
  <2>1. k + 1 \in 1..Len(ubs)
    BY <1>9
  <2>2. ubs[k + 1] \in Ubatch
    BY <1>2, <2>1, ElementOfSeq
  <2> QED BY <2>2, LenProperties DEF Ubatch
<1> HIDE DEF x, y, k
<1>15. Cardinality(Between(first, y, d)) = Cardinality(Between(first, x, d)) + Len(ubs[k + 1][d])
  BY <1>1, <1>2, <1>12, <1>13, CutCounts
<1>16. Between(first, y, d) \in SUBSET all
  <2>1. \A z \in Token : z.seq \in Seqs /\ z.pos \in Nat
    BY <1>1, LayoutFacts DEF Token
  <2>2. \A z \in Token : y[z.seq] <= first[z.seq] + n[z.seq] /\ Onward(first, n)[z.seq] = first[z.seq] + n[z.seq]
    BY <1>12, <2>1 DEF Onward
  <2>3. \A z \in Token : y[z.seq] \in Nat /\ first[z.seq] + n[z.seq] \in Nat
    BY <1>2, <1>12, <2>1 DEF Amounts
  <2>4. \A z \in Token : z.pos < y[z.seq] => z.pos < Onward(first, n)[z.seq]
    BY <2>1, <2>2, <2>3
  <2> QED BY <2>4 DEF Between
<1>17. Cardinality(all) \in Nat /\ Cardinality(Between(first, y, d)) <= Cardinality(all)
  <2>1. IsFiniteSet(all) /\ Cardinality(all) \in Nat
    BY <1>1, BetweenFinite
  <2> HIDE DEF all
  <2> QED BY <1>16, <2>1, FS_Subset
<1>18. SumOf(n, {s \in Seqs : stream(s) = d}) = Cardinality(all)
  BY <1>1, <1>2, <1>3, AskedOf
<1>19. a = layout.cells - Cardinality({i \in Size : v[d].cells.pos[i] # Empty})
  <2> DEFINE U == {i \in Size : v[d].cells.pos[i] # Empty}
             F == FreeCells(w[0][d].cells)
  <2>1. F = Size \ U
    <3>1. \A i \in Size : UpdatedV[d].cells.pos[i] = v[d].cells.pos[i]
      BY UpdatedSame DEF SameContent
    <3> QED BY <1>7, <3>1 DEF FreeCells
  <2>2. U \in SUBSET Size
    OBVIOUS
  <2>3. IsFiniteSet(Size) /\ Cardinality(Size) = layout.cells
    <3>1. layout.cells \in Nat \ {0} /\ 0 \in Int /\ layout.cells - 1 \in Int
      BY <1>1, LayoutFacts
    <3>2. IsFiniteSet(Size) /\ Cardinality(Size) = IF 0 > layout.cells - 1 THEN 0 ELSE layout.cells - 1 - 0 + 1
      BY <3>1, FS_Interval, Zenon DEF Size
    <3>3. (IF 0 > layout.cells - 1 THEN 0 ELSE layout.cells - 1 - 0 + 1) = layout.cells
      BY <3>1
    <3> QED BY <3>2, <3>3
  <2> HIDE DEF U, F
  <2>4. Size \cap U = U
    BY <2>2
  <2>5. Cardinality(F) = Cardinality(Size) - Cardinality(U)
    <3>1. Cardinality(Size \ U) = Cardinality(Size) - Cardinality(Size \cap U)
      BY <2>3, FS_Difference, Zenon
    <3> QED BY <2>1, <2>4, <3>1, Zenon
  <2> QED BY <2>3, <2>5 DEF U, F
<1> HIDE DEF all, a, A
<1>20. Cardinality(A) \in Nat /\ Cardinality(Between(first, x, d)) \in Nat
  BY <1>1, <1>13, BetweenFinite, FS_CardinalityType
<1>21. Cardinality(A) < Len(ubs[k + 1][d])
  BY <1>10 DEF A, k
<1>22. Cardinality(all) > a
  BY <1>13, <1>14, <1>15, <1>17, <1>20, <1>21
<1> QED BY <1>18, <1>19, <1>22, Zenon

\* Without a window a batch is refused only for want of cells: some stream
\* is asked for more cells than it has free, although the ubatches are
\* placed one after the other, each searched from where the head stands,
\* and given back again (llama_kv_cache::prepare, find_slot).
THEOREM RefusedOnlyForWantOfCells == Spec => [](layout.window = 0 => RefusedOnlyWhenFull)
<1>1. TablesRooted /\ layout.window = 0 => RefusedOnlyWhenFull
  <2> SUFFICES ASSUME TablesRooted, layout.window = 0, NEW n \in Batches, Fits(n),
                      ~prepare(UpdatedV, Ubatches(First, n)).ok
               PROVE  \E d \in Streams :
                        MapThenSumSet(LAMBDA s : n[s], {s \in Seqs : stream(s) = d})
                          > layout.cells - Cardinality({i \in Size : v[d].cells.pos[i] # Empty})
    BY Zenon DEF RefusedOnlyWhenFull
  <2>1. \A d : SumOf(n, {s \in Seqs : stream(s) = d}) = MapThenSumSet(LAMBDA s : n[s], {s \in Seqs : stream(s) = d})
    BY DEF SumOf
  <2> QED BY <2>1, RefusedAsksMore, Zenon
<1>2. TablesRooted /\ [Next]_vars => TablesRooted'
  BY NextTables
<1> QED BY InitTables, <1>1, <1>2, PTL DEF Spec

-----------------------------------------------------------------------------
(* What a sequence holds, seen from outside.                               *)

\* The entry of cell i, with the data it has in bd.
Shown(c, bd, i) == [pos |-> c.pos[i], of |-> IF bd[i].rot + c.shift[i] = c.pos[i] THEN bd[i].of ELSE Nobody]
View(c, bd, s) == {Shown(c, bd, i) : i \in {j \in Size : s \in c.seq[j]}}
Views(vs, b) == [s \in Seqs |-> View(vs[stream(s)].cells, b[stream(s)], s)]

Content == [s \in Seqs |-> {EntryAt(stream(s), i) : i \in SeqCells(s)}]
SavedContent == {SavedEntry(saved[k]) : k \in DOMAIN saved}

\* Nothing changes for sequence s, nor in the data of its cells.
SameShown(c, bd, e, be, s) ==
  \A i \in Size : (s \in e.seq[i] <=> s \in c.seq[i]) /\ (s \in c.seq[i] => Shown(e, be, i) = Shown(c, bd, i))

LEMMA ShownIn ==
  ASSUME NEW c, NEW bd, NEW s, NEW x
  PROVE  x \in View(c, bd, s) <=> \E i \in Size : s \in c.seq[i] /\ x = Shown(c, bd, i)
BY DEF View

LEMMA ViewSame ==
  ASSUME NEW c, NEW bd, NEW e, NEW be, NEW s, SameShown(c, bd, e, be, s)
  PROVE  View(e, be, s) = View(c, bd, s)
<1>1. \A x : x \in View(c, bd, s) <=> \E i \in Size : s \in c.seq[i] /\ x = Shown(c, bd, i)
  BY ShownIn
<1>2. \A x : x \in View(e, be, s) <=> \E i \in Size : s \in e.seq[i] /\ x = Shown(e, be, i)
  BY ShownIn
<1>3. \A i \in Size : (s \in e.seq[i] <=> s \in c.seq[i]) /\ (s \in c.seq[i] => Shown(e, be, i) = Shown(c, bd, i))
  BY DEF SameShown
<1> QED BY <1>1, <1>2, <1>3, Zenon

LEMMA NoView ==
  ASSUME NEW c, NEW bd, NEW s, \A i \in Size : s \notin c.seq[i]
  PROVE  View(c, bd, s) = {}
BY DEF View

LEMMA ShownPos == \A c, bd, i : Shown(c, bd, i).pos = c.pos[i]
BY DEF Shown

\* The same position, shift and data.
LEMMA ShownSame ==
  ASSUME NEW c, NEW bd, NEW e, NEW be, NEW i, e.pos[i] = c.pos[i], e.shift[i] = c.shift[i], be[i] = bd[i]
  PROVE  Shown(e, be, i) = Shown(c, bd, i)
BY DEF Shown

\* Positions leave the sequence, and nothing else changes.
LEMMA ViewLeft ==
  ASSUME NEW c, NEW e, NEW bd, NEW s, NEW p0, NEW p1, Left(c, e, In(c, s, p0, p1), s)
  PROVE  View(e, bd, s) = {x \in View(c, bd, s) : ~(p0 <= x.pos /\ x.pos < p1)}
<1> DEFINE hit == In(c, s, p0, p1)
<1>1. \A i \in Size : i \in hit <=> s \in c.seq[i] /\ p0 <= c.pos[i] /\ c.pos[i] < p1
  BY DEF In, pos_in, seq_has
<1>2. Left(c, e, hit, s)
  OBVIOUS
<1> HIDE DEF hit
<1>3. \A i \in Size : s \in e.seq[i] <=> s \in c.seq[i] /\ ~(p0 <= c.pos[i] /\ c.pos[i] < p1)
  BY <1>1, <1>2, Zenon DEF Left
<1>4. ASSUME NEW i \in Size, s \in e.seq[i] PROVE Shown(e, bd, i) = Shown(c, bd, i)
  <2>1. i \notin hit
    BY <1>1, <1>3, <1>4
  <2>2. e.pos[i] = c.pos[i] /\ e.shift[i] = c.shift[i]
    BY <1>2, <2>1, Zenon DEF Left
  <2> QED BY <2>2, ShownSame
<1>5. \A x : x \in View(c, bd, s) <=> \E i \in Size : s \in c.seq[i] /\ x = Shown(c, bd, i)
  BY ShownIn
<1>6. \A x : x \in View(e, bd, s) <=> \E i \in Size : s \in e.seq[i] /\ x = Shown(e, bd, i)
  BY ShownIn
<1>7. \A i : Shown(c, bd, i).pos = c.pos[i]
  BY ShownPos
<1> QED BY <1>3, <1>4, <1>5, <1>6, <1>7

LEMMA ViewLeftOther ==
  ASSUME NEW c, NEW e, NEW bd, NEW s, NEW u, Left(c, e, u, s), NEW r, r # s
  PROVE  View(e, bd, r) = View(c, bd, r)
<1>1. \A i \in Size : r \in e.seq[i] <=> r \in c.seq[i]
  BY Zenon DEF Left
<1>2. \A i \in Size : r \in c.seq[i] => e.pos[i] = c.pos[i] /\ e.shift[i] = c.shift[i]
  BY Zenon DEF Left
<1>3. SameShown(c, bd, e, bd, r)
  BY <1>1, <1>2, ShownSame DEF SameShown
<1> QED BY <1>3, ViewSame

\* The cells of s from p0 to p1 move by d, their keys with them.
Slid(x, d) == [x EXCEPT !.pos = @ + d]

LEMMA ViewMoved ==
  ASSUME NEW c \in Tables, NEW e, NEW bd \in [Size -> Data], NEW s, NEW p0 \in Int, NEW p1 \in Int, NEW d \in Int,
         p0 + d >= 0, ShiftedIn(c, e, In(c, s, p0, p1), d)
  PROVE  View(e, bd, s) = {x \in View(c, bd, s) : ~(p0 <= x.pos /\ x.pos < p1)}
                          \cup {Slid(x, d) : x \in {y \in View(c, bd, s) : p0 <= y.pos /\ y.pos < p1}}
<1> DEFINE hit == In(c, s, p0, p1)
           within(x) == p0 <= x.pos /\ x.pos < p1
<1>1. \A i \in Size : i \in hit <=> s \in c.seq[i] /\ p0 <= c.pos[i] /\ c.pos[i] < p1
  BY DEF In, pos_in, seq_has
<1>2. ShiftedIn(c, e, hit, d)
  OBVIOUS
<1>3. \A i \in Size : c.pos[i] \in Int /\ c.shift[i] \in Int /\ bd[i].rot \in Int
  <2> SUFFICES ASSUME NEW i \in Size PROVE c.pos[i] \in Int /\ c.shift[i] \in Int /\ bd[i].rot \in Int
    OBVIOUS
  <2>1. c.pos[i] \in Pos \cup {Empty} /\ c.shift[i] \in Int
    BY DEF Tables, Table
  <2>2. bd[i] \in Data
    OBVIOUS
  <2>3. \A p \in Pos : p \in Int
    BY PosAssumption
  <2> QED BY <2>1, <2>2, <2>3 DEF Data, Empty
<1> HIDE DEF hit
<1>4. \A i \in hit : i \in Size => ~(c.pos[i] + d < 0)
  BY <1>1, <1>3
<1>5. \A i \in Size : /\ e.seq[i] = c.seq[i]
                      /\ e.pos[i] = IF i \in hit THEN c.pos[i] + d ELSE c.pos[i]
                      /\ e.shift[i] = IF i \in hit THEN c.shift[i] + d ELSE c.shift[i]
  BY <1>2, <1>4 DEF ShiftedIn
<1>6. ASSUME NEW i \in Size, s \in c.seq[i], ~within(Shown(c, bd, i)) PROVE Shown(e, bd, i) = Shown(c, bd, i)
  <2>1. i \notin hit
    BY <1>1, <1>6, ShownPos
  <2>2. e.pos[i] = c.pos[i] /\ e.shift[i] = c.shift[i]
    BY <1>5, <2>1
  <2> QED BY <2>2, ShownSame
<1>7. ASSUME NEW i \in Size, s \in c.seq[i], within(Shown(c, bd, i)) PROVE Shown(e, bd, i) = Slid(Shown(c, bd, i), d)
  <2>1. i \in hit
    BY <1>1, <1>7, ShownPos
  <2>2. e.pos[i] = c.pos[i] + d /\ e.shift[i] = c.shift[i] + d
    BY <1>5, <2>1
  <2>3. bd[i].rot + e.shift[i] = e.pos[i] <=> bd[i].rot + c.shift[i] = c.pos[i]
    BY <1>3, <2>2
  <2> QED BY <2>2, <2>3 DEF Shown, Slid
<1>8. \A x : x \in View(c, bd, s) <=> \E i \in Size : s \in c.seq[i] /\ x = Shown(c, bd, i)
  BY ShownIn
<1>9. \A x : x \in View(e, bd, s) <=> \E i \in Size : s \in c.seq[i] /\ x = Shown(e, bd, i)
  BY <1>5, ShownIn
<1> DEFINE A == {x \in View(c, bd, s) : ~within(x)}
           B == {Slid(x, d) : x \in {y \in View(c, bd, s) : within(y)}}
<1>10. \A x \in View(e, bd, s) : x \in A \cup B
  <2> HIDE DEF within
  <2> QED BY <1>6, <1>7, <1>8, <1>9
<1>11. \A x \in A : x \in View(e, bd, s)
  <2> HIDE DEF within
  <2> QED BY <1>6, <1>8, <1>9
<1>12. \A x \in B : x \in View(e, bd, s)
  <2> HIDE DEF within
  <2> QED BY <1>7, <1>8, <1>9
<1> QED BY <1>10, <1>11, <1>12

LEMMA ViewMovedOther ==
  ASSUME NEW c \in Tables, NEW e, NEW bd, NEW s, NEW p0 \in Int, NEW p1, NEW d \in Int, p0 + d >= 0,
         ShiftedIn(c, e, In(c, s, p0, p1), d), Shiftable(c, s, p0, p1), NEW r, r # s
  PROVE  View(e, bd, r) = View(c, bd, r)
<1> DEFINE hit == In(c, s, p0, p1)
<1>1. \A i \in hit : i \in Size /\ c.seq[i] = {s} /\ ~(c.pos[i] + d < 0)
  <2> SUFFICES ASSUME NEW i \in hit PROVE i \in Size /\ c.seq[i] = {s} /\ ~(c.pos[i] + d < 0)
    OBVIOUS
  <2>1. i \in Size /\ c.seq[i] = {s} /\ p0 <= c.pos[i]
    BY DEF Shiftable, In, pos_in
  <2>2. c.pos[i] \in Int
    <3>1. c.pos[i] # Empty => c.pos[i] \in Pos /\ c.pos[i] \in Nat
      BY <2>1, Fields DEF Tables
    <3>2. c.pos[i] = Empty => c.pos[i] = -1
      BY DEF Empty
    <3> QED BY <3>1, <3>2
  <2> QED BY <2>1, <2>2
<1>2. ShiftedIn(c, e, hit, d)
  OBVIOUS
<1> HIDE DEF hit
<1>3. \A i \in Size : r \in e.seq[i] <=> r \in c.seq[i]
  BY <1>1, <1>2 DEF ShiftedIn
<1>4. \A i \in Size : r \in c.seq[i] => e.pos[i] = c.pos[i] /\ e.shift[i] = c.shift[i]
  BY <1>1, <1>2 DEF ShiftedIn
<1>5. SameShown(c, bd, e, bd, r)
  BY <1>3, <1>4, ShownSame DEF SameShown
<1> QED BY <1>5, ViewSame

\* Where the cells of a sequence are those of a run, so are its entries.
LEMMA ViewRun ==
  ASSUME NEW c, NEW bd, NEW s, NEW X, Holds(c, s, X)
  PROVE  \A x \in View(c, bd, s) : x.pos \in X
BY ShownIn, ShownPos DEF Holds

-----------------------------------------------------------------------------
(* What the buffers forget is not seen.                                    *)

LEMMA ForgetAgrees ==
  ASSUME layout \in Layouts, NEW vs \in Caches, NEW b \in Buffers, NEW copies \in Seq(Streams \X Streams),
         NEW d \in Streams, NEW i \in Size, ~is_empty(vs[d].cells, i)
  PROVE  CopiedBy(copies, Forget(vs, b, copies))[d][i] = CopiedBy(copies, b)[d][i]
<1> DEFINE n == Len(copies)
           Q == UNION {{copies[k][1], copies[k][2]} : k \in DOMAIN copies}
           e == Forget(vs, b, copies)
           kept(x, j) == x \in Q \/ ~is_empty(vs[x].cells, j)
<1>1. e \in Buffers /\ n \in Nat /\ DOMAIN copies = 1..n
  BY ForgetType, LenProperties
<1>2. \A x \in Streams, j \in Size : kept(x, j) => e[x][j] = b[x][j]
  BY DEF Forget
<1> HIDE DEF e
<1>3. \A k \in 1..n : /\ copies[k][1] \in Q /\ copies[k][1] \in Streams
                      /\ copies[k][2] \in Q /\ copies[k][2] \in Streams
  <2>1. \A k \in 1..n : copies[k] \in Streams \X Streams
    BY ElementOfSeq
  <2>2. \A k \in DOMAIN copies : copies[k][1] \in Q /\ copies[k][2] \in Q
    OBVIOUS
  <2>3. \A z \in Streams \X Streams : z[1] \in Streams /\ z[2] \in Streams
    OBVIOUS
  <2> HIDE DEF Q, n
  <2> QED BY <1>1, <2>1, <2>2, <2>3
<1> HIDE DEF n
<1>4. PICK f : Copies(f, e, copies) /\ CopiedBy(copies, e) = f[n]
  BY <1>1, CopiedRow DEF n
<1>5. PICK g : Copies(g, b, copies) /\ CopiedBy(copies, b) = g[n]
  BY CopiedRow DEF n
<1> HIDE DEF Q
<1> DEFINE agree(k) == \A x \in Streams, j \in Size : kept(x, j) => f[k][x][j] = g[k][x][j]
           own == [k \in 0..n |-> k]
           P == [k \in 0..n |-> {m \in 0..n : agree(m)}]
<1>6. agree(0)
  BY <1>2, <1>4, <1>5 DEF Copies
<1>7. ASSUME NEW k \in 1..n, agree(k - 1) PROVE agree(k)
  <2> DEFINE a == copies[k][1]
             z == copies[k][2]
             x0 == f[k - 1]
             y0 == g[k - 1]
  <2>1. x0 \in Buffers /\ y0 \in Buffers /\ f[k] = [x0 EXCEPT ![z] = x0[a]] /\ g[k] = [y0 EXCEPT ![z] = y0[a]]
    BY <1>4, <1>5, Zenon DEF Copies, n
  <2>2. a \in Q /\ a \in Streams /\ z \in Streams
    BY <1>3
  <2> HIDE DEF a, z
  <2>3. \A x \in Streams : f[k][x] = (IF x = z THEN x0[a] ELSE x0[x]) /\ g[k][x] = (IF x = z THEN y0[a] ELSE y0[x])
    BY <2>1, <2>2 DEF Buffers
  <2>4. \A j \in Size : x0[a][j] = y0[a][j]
    BY <1>7, <2>2
  <2>5. \A x \in Streams, j \in Size : kept(x, j) => x0[x][j] = y0[x][j]
    BY <1>7
  <2> HIDE DEF x0, y0, kept
  <2>6. ASSUME NEW x \in Streams, NEW j \in Size, kept(x, j) PROVE f[k][x][j] = g[k][x][j]
    <3>1. CASE x = z
      BY <2>3, <2>4, <3>1
    <3>2. CASE x # z
      BY <2>3, <2>5, <2>6, <3>2
    <3> QED BY <3>1, <3>2
  <2> QED BY <2>6
<1> HIDE DEF agree
<1>8. KeepsIn(n, P, own)
  <2>1. 0 \in 0..n /\ \A k \in 1..n : k \in 0..n /\ k - 1 \in 0..n
    BY <1>1
  <2> QED BY <1>1, <1>6, <1>7, <2>1, Zenon DEF KeepsIn
<1>9. agree(n)
  <2>1. \A k \in 0..n : own[k] \in P[k]
    <3> HIDE DEF own, P
    <3> QED BY <1>8, StepsKeep
  <2>2. n \in 0..n
    BY <1>1
  <2> QED BY <2>1, <2>2
<1> QED BY <1>4, <1>5, <1>9 DEF agree, e

LEMMA ForgetViews ==
  ASSUME layout \in Layouts, NEW vs \in Caches, NEW b \in Buffers, NEW copies \in Seq(Streams \X Streams)
  PROVE  Views(vs, CopiedBy(copies, Forget(vs, b, copies))) = Views(vs, CopiedBy(copies, b))
<1> DEFINE x == CopiedBy(copies, Forget(vs, b, copies))
           y == CopiedBy(copies, b)
<1>1. \A d \in Streams, i \in Size : ~is_empty(vs[d].cells, i) => x[d][i] = y[d][i]
  BY ForgetAgrees
<1> HIDE DEF x, y
<1>2. ASSUME NEW s \in Seqs
      PROVE  View(vs[stream(s)].cells, x[stream(s)], s) = View(vs[stream(s)].cells, y[stream(s)], s)
  <2> DEFINE c == vs[stream(s)].cells
  <2>1. stream(s) \in Streams /\ c \in Tables
    BY LayoutFacts DEF Caches, TStream
  <2>2. \A i \in Size : s \in c.seq[i] => ~is_empty(c, i)
    BY <2>1 DEF Tables, Consistent, FreeIsClean, is_empty
  <2>3. \A i \in Size : s \in c.seq[i] => x[stream(s)][i] = y[stream(s)][i]
    BY <1>1, <2>1, <2>2
  <2> HIDE DEF c
  <2>4. SameShown(c, y[stream(s)], c, x[stream(s)], s)
    BY <2>3, ShownSame DEF SameShown
  <2>5. View(c, x[stream(s)], s) = View(c, y[stream(s)], s)
    BY <2>4, ViewSame
  <2> QED BY <2>5 DEF c
<1> QED BY <1>2 DEF Views, x, y

\* A copy that is queued comes after those that were.
LEMMA CopiedAppend ==
  ASSUME layout \in Layouts, NEW copies \in Seq(Streams \X Streams), NEW b \in Buffers,
         NEW src \in Streams, NEW dst \in Streams
  PROVE  LET x == CopiedBy(copies, b) IN CopiedBy(Append(copies, <<src, dst>>), b) = [x EXCEPT ![dst] = x[src]]
<1> DEFINE n == Len(copies)
           q == <<src, dst>>
           more == Append(copies, q)
<1>1. /\ n \in Nat /\ more \in Seq(Streams \X Streams) /\ Len(more) = n + 1 /\ more[n + 1] = q
      /\ \A k \in 1..n : more[k] = copies[k]
  <2>1. q \in Streams \X Streams
    OBVIOUS
  <2> HIDE DEF q
  <2> QED BY <2>1, AppendProperties, LenProperties
<1> HIDE DEF more
<1>2. PICK f : Copies(f, b, more) /\ CopiedBy(more, b) = f[n + 1]
  BY <1>1, CopiedRow
<1>3. PICK g : Copies(g, b, copies) /\ CopiedBy(copies, b) = g[n]
  BY CopiedRow
<1> HIDE DEF n
<1> DEFINE own == [k \in 0..n |-> k]
           P == [k \in 0..n |-> {m \in 0..n : f[m] = g[m]}]
<1>4. f[0] = g[0]
  BY <1>2, <1>3 DEF Copies
<1>5. ASSUME NEW k \in 1..n, f[k - 1] = g[k - 1] PROVE f[k] = g[k]
  <2>1. k \in 1..(n + 1)
    BY <1>1
  <2>2. f[k] = [f[k - 1] EXCEPT ![more[k][2]] = f[k - 1][more[k][1]]]
    BY <1>1, <1>2, <2>1, Zenon DEF Copies
  <2>3. g[k] = [g[k - 1] EXCEPT ![copies[k][2]] = g[k - 1][copies[k][1]]]
    BY <1>3, Zenon DEF Copies, n
  <2> QED BY <1>1, <1>5, <2>2, <2>3, Zenon
<1>6. KeepsIn(n, P, own)
  <2>1. 0 \in 0..n /\ \A k \in 1..n : k \in 0..n /\ k - 1 \in 0..n
    BY <1>1
  <2> QED BY <1>1, <1>4, <1>5, <2>1, Zenon DEF KeepsIn
<1>7. f[n] = g[n]
  <2>1. \A k \in 0..n : own[k] \in P[k]
    <3> HIDE DEF own, P
    <3> QED BY <1>6, StepsKeep
  <2>2. n \in 0..n
    BY <1>1
  <2> QED BY <2>1, <2>2
<1>8. f[n + 1] = [f[n] EXCEPT ![dst] = f[n][src]]
  <2>1. n + 1 \in 1..(n + 1) /\ (n + 1) - 1 = n
    BY <1>1
  <2>2. f[n + 1] = [f[n] EXCEPT ![more[n + 1][2]] = f[n][more[n + 1][1]]]
    BY <1>1, <1>2, <2>1, Zenon DEF Copies
  <2> QED BY <1>1, <2>2
<1> QED BY <1>2, <1>3, <1>7, <1>8 DEF more

-----------------------------------------------------------------------------
(* The content of the cache before and after a call.                       *)

LEMMA ContentIs == Content = Views(v, CopiedBy(sc_info, buf))
<1>1. ASSUME NEW s \in Seqs
      PROVE  {EntryAt(stream(s), i) : i \in SeqCells(s)} = View(v[stream(s)].cells, CopiedBy(sc_info, buf)[stream(s)], s)
  <2>1. Copied(buf) = CopiedBy(sc_info, buf)
    BY CopiedIs
  <2>2. \A d, i : EntryAt(d, i) = Shown(v[d].cells, CopiedBy(sc_info, buf)[d], i)
    BY <2>1 DEF EntryAt, Shown
  <2>3. SeqCells(s) = {j \in Size : s \in v[stream(s)].cells.seq[j]}
    BY DEF SeqCells, seq_has
  <2> QED BY <2>2, <2>3 DEF View
<1> QED BY <1>1 DEF Content, Views

LEMMA ContentNext ==
  ASSUME layout' = layout
  PROVE  Content' = Views(v', CopiedBy(sc_info', buf'))
<1>0. Size' = Size /\ \A s \in Seqs : stream(s)' = stream(s)
  BY DEF Size, stream
<1> DEFINE x == CopiedBy(sc_info', buf')
<1>1. Copied(buf)' = x
  BY DEF Copied, CopiedBy, FoldLeft, MapThenFoldSet
<1> HIDE DEF x
<1>2. \A d, i : EntryAt(d, i)' = Shown(v'[d].cells, x[d], i)
  BY <1>1 DEF EntryAt, Shown
<1>3. ASSUME NEW s \in Seqs
      PROVE  {EntryAt(stream(s), i) : i \in SeqCells(s)}' = View(v'[stream(s)].cells, x[stream(s)], s)
  <2>1. SeqCells(s)' = {j \in Size : s \in v'[stream(s)].cells.seq[j]}
    BY <1>0 DEF SeqCells, seq_has
  <2> QED BY <1>0, <1>2, <2>1 DEF View
<1> QED BY <1>3 DEF Content, Views, x

LEMMA BecomeContent ==
  ASSUME layout \in Layouts, layout' = layout, NEW vs \in Caches, NEW b \in Buffers,
         NEW copies \in Seq(Streams \X Streams), Become(vs, b, copies)
  PROVE  Content' = Views(vs, CopiedBy(copies, b))
BY ContentNext, ForgetViews DEF Become

-----------------------------------------------------------------------------
(* What each call makes of the content.                                    *)

\* The buffers once the queued copies are done.
Seen == CopiedBy(sc_info, buf)

LEMMA SeenFacts ==
  ASSUME TablesRooted
  PROVE  /\ layout \in Layouts /\ v \in Caches /\ buf \in Buffers /\ Seen \in Buffers
         /\ sc_info \in Seq(Streams \X Streams) /\ Content = Views(v, Seen)
         /\ \A s \in Seqs : /\ stream(s) \in Streams /\ v[stream(s)] \in TStream /\ v[stream(s)].cells \in Tables
                            /\ Seen[stream(s)] \in [Size -> Data]
                            /\ Content[s] = View(v[stream(s)].cells, Seen[stream(s)], s)
<1>1. /\ layout \in Layouts /\ v \in Caches /\ buf \in Buffers
      /\ sc_info \in Seq(Streams \X Streams) /\ Content = Views(v, Seen)
  BY ContentIs DEF TablesRooted, Seen
<1>2. Seen \in Buffers
  BY <1>1, CopiedRow DEF Seen
<1>3. \A s \in Seqs : stream(s) \in Streams
  BY <1>1, LayoutFacts
<1>4. \A s \in Seqs : v[stream(s)] \in TStream /\ v[stream(s)].cells \in Tables /\ Seen[stream(s)] \in [Size -> Data]
  BY <1>1, <1>2, <1>3 DEF Caches, TStream, Buffers
<1>5. \A s \in Seqs : Content[s] = View(v[stream(s)].cells, Seen[stream(s)], s)
  BY <1>1 DEF Views
<1> QED BY <1>1, <1>2, <1>3, <1>4, <1>5

LEMMA ViewPos ==
  ASSUME layout \in Layouts, NEW c \in Tables, NEW bd, NEW s, NEW x \in View(c, bd, s)
  PROVE  x.pos \in 0 .. MaxPos
<1>1. PICK i \in Size : s \in c.seq[i] /\ x = Shown(c, bd, i)
  BY ShownIn
<1>2. c.pos[i] \in Pos \cup {Empty} /\ c.pos[i] # Empty
  BY <1>1 DEF Tables, Consistent, FreeIsClean, Table
<1>3. Pos = 0 .. MaxPos
  BY LayoutFacts
<1> QED BY <1>1, <1>2, <1>3, ShownPos

\* The other sequences of the stream keep their entries.
KeepsOthers(c, e, bd, s) ==
  \A r \in Seqs : r # s /\ stream(r) = stream(s) => View(e, bd, r) = View(c, bd, r)

LEMMA StreamViews ==
  ASSUME layout \in Layouts, NEW vs \in Caches, NEW b, NEW s \in Seqs, NEW t, NEW V,
         View(t.cells, b[stream(s)], s) = V, KeepsOthers(vs[stream(s)].cells, t.cells, b[stream(s)], s)
  PROVE  Views([vs EXCEPT ![stream(s)] = t], b) = [Views(vs, b) EXCEPT ![s] = V]
<1> DEFINE ws == [vs EXCEPT ![stream(s)] = t]
           x(r) == View(vs[stream(r)].cells, b[stream(r)], r)
           y(r) == View(ws[stream(r)].cells, b[stream(r)], r)
<1>1. \A d \in Streams : ws[d] = IF d = stream(s) THEN t ELSE vs[d]
  BY DEF Caches
<1>2. \A r \in Seqs : stream(r) \in Streams
  BY LayoutFacts
<1> HIDE DEF ws
<1>3. y(s) = V
  BY <1>1, <1>2
<1>4. ASSUME NEW r \in Seqs, r # s PROVE y(r) = x(r)
  <2>1. CASE stream(r) = stream(s)
    BY <1>1, <1>2, <1>4, <2>1 DEF KeepsOthers
  <2>2. CASE stream(r) # stream(s)
    BY <1>1, <1>2, <2>2
  <2> QED BY <2>1, <2>2
<1>5. Views(vs, b) = [r \in Seqs |-> x(r)] /\ Views(ws, b) = [r \in Seqs |-> y(r)]
  BY DEF Views
<1> HIDE DEF x, y
<1> QED BY <1>3, <1>4, <1>5 DEF ws

\* A call that changes one stream, for one sequence.
LEMMA StreamContent ==
  ASSUME TablesRooted, layout' = layout, NEW s \in Seqs, NEW t \in TStream, NEW V,
         Become([v EXCEPT ![stream(s)] = t], buf, sc_info),
         View(t.cells, Seen[stream(s)], s) = V, KeepsOthers(v[stream(s)].cells, t.cells, Seen[stream(s)], s)
  PROVE  Content' = [Content EXCEPT ![s] = V]
<1> DEFINE w == [v EXCEPT ![stream(s)] = t]
<1>1. w \in Caches
  BY SeenFacts, OneStream
<1>2. Views(w, Seen) = [Views(v, Seen) EXCEPT ![s] = V]
  BY SeenFacts, StreamViews
<1>3. Become(w, buf, sc_info)
  OBVIOUS
<1> HIDE DEF w
<1>4. Content' = Views(w, CopiedBy(sc_info, buf))
  BY <1>1, <1>3, SeenFacts, BecomeContent
<1> QED BY <1>2, <1>4, SeenFacts DEF Seen

LEMMA FreshContent ==
  ASSUME layout \in Layouts, NEW b
  PROVE  Views([d \in Streams |-> [cells |-> cells_reset(Size), head |-> 0]], b) = [s \in Seqs |-> {}]
<1>1. \A i \in Size : cells_reset(Size).seq[i] = {}
  BY LayoutFacts, ResetConsistent
<1>2. \A s \in Seqs : stream(s) \in Streams
  BY LayoutFacts
<1>3. \A bd, s : View(cells_reset(Size), bd, s) = {}
  BY <1>1, NoView
<1> QED BY <1>2, <1>3 DEF Views

LEMMA ClearContent ==
  ASSUME TablesRooted, Clear
  PROVE  Content' = [s \in Seqs |-> {}]
<1>1. layout \in Layouts /\ sc_info \in Seq(Streams \X Streams) /\ layout' = layout
  BY SeenFacts DEF Clear
<1> DEFINE w == [d \in Streams |-> [cells |-> cells_reset(Size), head |-> 0]]
           b == [d \in Streams |-> [i \in Size |-> NoData]]
<1>2. w \in Caches /\ b \in Buffers /\ Become(w, b, sc_info)
  BY <1>1, FreshType DEF Clear
<1>3. Views(w, CopiedBy(sc_info, b)) = [s \in Seqs |-> {}]
  BY <1>1, FreshContent, Zenon
<1> HIDE DEF w, b
<1>4. Content' = Views(w, CopiedBy(sc_info, b))
  BY <1>1, <1>2, BecomeContent
<1> QED BY <1>3, <1>4

\* What is from p on leaves the sequence.
LEMMA RmView ==
  ASSUME layout \in Layouts, NEW t \in TStream, NEW s \in Seqs, NEW p, NEW bd
  PROVE  LET u == SeqRm(t, s, p, MaxPos + 1)
         IN /\ u \in TStream /\ KeepsOthers(t.cells, u.cells, bd, s)
            /\ View(u.cells, bd, s) = {x \in View(t.cells, bd, s) : ~(p <= x.pos)}
<1> DEFINE c == t.cells
           u == SeqRm(t, s, p, MaxPos + 1)
           p1 == MaxPos + 1
<1>1. u \in TStream /\ Left(c, u.cells, In(c, s, p, p1), s) /\ c \in Tables
  BY SeqRmKeeps DEF TStream
<1> HIDE DEF u, c
<1>2. KeepsOthers(c, u.cells, bd, s)
  BY <1>1, ViewLeftOther DEF KeepsOthers
<1>3. View(u.cells, bd, s) = {x \in View(c, bd, s) : ~(p <= x.pos /\ x.pos < p1)}
  <2> HIDE DEF p1
  <2> QED BY <1>1, ViewLeft
<1>4. \A x \in View(c, bd, s) : x.pos < p1
  <2>1. \A x \in View(c, bd, s) : x.pos \in 0 .. MaxPos
    BY <1>1, ViewPos
  <2>2. MaxPos \in Nat
    BY LayoutFacts
  <2> QED BY <2>1, <2>2
<1> HIDE DEF p1
<1>5. View(u.cells, bd, s) = {x \in View(c, bd, s) : ~(p <= x.pos)}
  BY <1>3, <1>4
<1> QED BY <1>1, <1>2, <1>5 DEF u, c

LEMMA TruncateContent ==
  ASSUME TablesRooted, NEW s \in Seqs, NEW p \in Nat, layout' = layout,
         Become([v EXCEPT ![stream(s)] = SeqRm(v[stream(s)], s, p, MaxPos + 1)], buf, sc_info)
  PROVE  Content' = [Content EXCEPT ![s] = {x \in Content[s] : x.pos < p}]
<1> DEFINE t == v[stream(s)]
           u == SeqRm(t, s, p, MaxPos + 1)
           bd == Seen[stream(s)]
<1>1. /\ layout \in Layouts /\ t \in TStream /\ t.cells \in Tables
      /\ Content[s] = View(t.cells, bd, s)
  BY SeenFacts
<1>2. Become([v EXCEPT ![stream(s)] = u], buf, sc_info)
  OBVIOUS
<1>3. KeepsOthers(t.cells, u.cells, bd, s) <=> KeepsOthers(v[stream(s)].cells, u.cells, Seen[stream(s)], s)
  OBVIOUS
<1> HIDE DEF t, bd
<1>4. /\ u \in TStream /\ KeepsOthers(t.cells, u.cells, bd, s)
      /\ View(u.cells, bd, s) = {x \in View(t.cells, bd, s) : ~(p <= x.pos)}
  BY <1>1, RmView, Zenon
<1>5. \A x \in View(t.cells, bd, s) : ~(p <= x.pos) <=> x.pos < p
  <2>1. \A x \in View(t.cells, bd, s) : x.pos \in 0 .. MaxPos
    BY <1>1, ViewPos
  <2>2. MaxPos \in Nat
    BY <1>1, LayoutFacts
  <2> QED BY <2>1, <2>2
<1> HIDE DEF u
<1>6. View(u.cells, bd, s) = {x \in Content[s] : x.pos < p}
  BY <1>1, <1>4, <1>5
<1>7. View(u.cells, Seen[stream(s)], s) = {x \in Content[s] : x.pos < p}
  BY <1>6 DEF bd
<1> QED BY <1>2, <1>3, <1>4, <1>7, StreamContent

LEMMA SeqKeepContent ==
  ASSUME TablesRooted, NEW s \in Seqs, SeqKeepOne(s)
  PROVE  Content' = [r \in Seqs |-> IF r # s /\ layout.unified THEN {} ELSE Content[r]]
<1> DEFINE t == SeqKeep(v[stream(s)], s)
           w == [v EXCEPT ![stream(s)] = t]
<1>1. t \in TStream /\ KeptIn(v[stream(s)].cells, t.cells, Size, s)
  BY SeenFacts, SeqKeepKeeps
<1>2. Become(w, buf, sc_info) /\ layout' = layout
  BY DEF SeqKeepOne
<1> HIDE DEF t
<1>3. w \in Caches /\ \A d \in Streams : w[d] = IF d = stream(s) THEN t ELSE v[d]
  BY <1>1, SeenFacts, OneStream DEF Caches
<1> HIDE DEF w
<1>4. Content' = Views(w, Seen)
  BY <1>2, <1>3, SeenFacts, BecomeContent DEF Seen
<1>5. ASSUME NEW r \in Seqs
      PROVE  View(w[stream(r)].cells, Seen[stream(r)], r) = IF r # s /\ layout.unified THEN {} ELSE Content[r]
  <2>1. stream(r) \in Streams /\ Content[r] = View(v[stream(r)].cells, Seen[stream(r)], r)
    BY SeenFacts
  <2>2. CASE r = s
    <3>1. w[stream(r)] = t
      BY <1>3, <2>1, <2>2
    <3>2. SameShown(v[stream(s)].cells, Seen[stream(s)], t.cells, Seen[stream(s)], s)
      <4> DEFINE c == v[stream(s)].cells
                 bd == Seen[stream(s)]
      <4>1. \A i \in Size : s \in t.cells.seq[i] <=> s \in c.seq[i]
        BY <1>1 DEF KeptIn
      <4>2. \A i \in Size : s \in c.seq[i] => t.cells.pos[i] = c.pos[i] /\ t.cells.shift[i] = c.shift[i]
        BY <1>1 DEF KeptIn
      <4> HIDE DEF c, bd
      <4>3. SameShown(c, bd, t.cells, bd, s)
        BY <4>1, <4>2, ShownSame DEF SameShown
      <4> QED BY <4>3 DEF c, bd
    <3>3. View(t.cells, Seen[stream(s)], s) = View(v[stream(s)].cells, Seen[stream(s)], s)
      BY <3>2, ViewSame
    <3> QED BY <2>1, <2>2, <3>1, <3>3
  <2>3. CASE r # s /\ layout.unified
    <3>1. w[stream(r)] = t
      BY <1>3, <2>1, <2>3 DEF stream
    <3>2. \A i \in Size : r \notin t.cells.seq[i]
      BY <1>1, <2>3 DEF KeptIn
    <3> QED BY <2>3, <3>1, <3>2, NoView
  <2>4. CASE r # s /\ ~layout.unified
    <3>1. w[stream(r)] = v[stream(r)]
      BY <1>3, <2>1, <2>4 DEF stream
    <3> QED BY <2>1, <2>4, <3>1
  <2> QED BY <2>2, <2>3, <2>4
<1> QED BY <1>4, <1>5 DEF Views

\* What lies in a .. b - 1 leaves, and what lies in b .. x - 1 moves up to a.
Chunk(V, a, b, x) == {Slid(y, a - b) : y \in {z \in V : b <= z.pos /\ z.pos < x}}

Without(V, a, x) == {y \in V : y.pos < a \/ x <= y.pos}
ChunkMoved(c, e, g, s, a, b, x) ==
  /\ c \in Tables /\ e \in Tables /\ a \in Nat /\ b \in Nat /\ x \in Nat /\ a < b /\ b <= x
  /\ Left(c, e, In(c, s, a, b), s) /\ ShiftedIn(e, g, In(e, s, b, x), a - b)

LEMMA ChunkView ==
  ASSUME layout \in Layouts, NEW c, NEW e, NEW g, NEW bd \in [Size -> Data], NEW s, NEW a, NEW b, NEW x,
         ChunkMoved(c, e, g, s, a, b, x)
  PROVE  View(g, bd, s) = Without(View(c, bd, s), a, x) \cup Chunk(View(c, bd, s), a, b, x)
<1>0. /\ c \in Tables /\ e \in Tables /\ a \in Nat /\ b \in Nat /\ x \in Nat /\ a < b /\ b <= x
      /\ Left(c, e, In(c, s, a, b), s) /\ ShiftedIn(e, g, In(e, s, b, x), a - b)
  BY DEF ChunkMoved
<1> DEFINE V == View(c, bd, s)
           W == View(e, bd, s)
           d == a - b
<1>1. W = {y \in V : ~(a <= y.pos /\ y.pos < b)}
  <2>1. \A p0, p1 : Left(c, e, In(c, s, p0, p1), s) => W = {y \in V : ~(p0 <= y.pos /\ y.pos < p1)}
    <3> HIDE DEF V, W
    <3> QED BY ViewLeft DEF V, W
  <2> HIDE DEF V, W
  <2> QED BY <1>0, <2>1, Zenon
<1>2. View(g, bd, s) = {y \in W : ~(b <= y.pos /\ y.pos < x)} \cup {Slid(y, d) : y \in {z \in W : b <= z.pos /\ z.pos < x}}
  <2>1. d \in Int /\ b + d >= 0 /\ b \in Int /\ x \in Int
    BY <1>0
  <2>2. e \in Tables /\ ShiftedIn(e, g, In(e, s, b, x), d)
    BY <1>0
  <2> HIDE DEF d
  <2> QED BY <2>1, <2>2, ViewMoved
<1>3. \A y \in V : y.pos \in Nat
  <2>1. \A y \in V : y.pos \in 0 .. MaxPos
    BY <1>0, ViewPos
  <2> QED BY <2>1
<1> HIDE DEF V, W
<1>4. {y \in W : ~(b <= y.pos /\ y.pos < x)} = Without(V, a, x)
  BY <1>0, <1>1, <1>3 DEF Without
<1>5. {z \in W : b <= z.pos /\ z.pos < x} = {z \in V : b <= z.pos /\ z.pos < x}
  BY <1>0, <1>1, <1>3
<1>6. {Slid(y, d) : y \in {z \in W : b <= z.pos /\ z.pos < x}} = Chunk(V, a, b, x)
  BY <1>5 DEF Chunk
<1> QED BY <1>2, <1>4, <1>6 DEF V

\* The table of a chunk that moves.
MayMove(t, s, a, b, x) ==
  a \in Nat /\ b \in Nat /\ x \in Nat /\ a < b /\ b < x /\ Shiftable(t.cells, s, b, x)
HasMoved(t, u, bd, s, a, b, x) ==
  /\ u \in TStream /\ KeepsOthers(t.cells, u.cells, bd, s)
  /\ View(u.cells, bd, s) = Without(View(t.cells, bd, s), a, x) \cup Chunk(View(t.cells, bd, s), a, b, x)

LEMMA ChunkTables ==
  ASSUME layout \in Layouts, NEW t \in TStream, NEW bd \in [Size -> Data], NEW s \in Seqs,
         NEW a, NEW b, NEW x, MayMove(t, s, a, b, x)
  PROVE  HasMoved(t, SeqAdd(SeqRm(t, s, a, b), s, b, x, a - b), bd, s, a, b, x)
<1>0. a \in Nat /\ b \in Nat /\ x \in Nat /\ a < b /\ b < x /\ Shiftable(t.cells, s, b, x)
  BY DEF MayMove
<1> DEFINE d == a - b
           r == SeqRm(t, s, a, b)
           u == SeqAdd(r, s, b, x, d)
<1>1. r \in TStream /\ Left(t.cells, r.cells, In(t.cells, s, a, b), s)
  BY SeqRmKeeps
<1> HIDE DEF r
<1>2. d \in Int /\ d < 0 /\ b + d >= 0 /\ b # x /\ b \in Int
  BY <1>0
<1> HIDE DEF d
<1>4. u \in TStream /\ ShiftedIn(r.cells, u.cells, In(r.cells, s, b, x), d)
  BY <1>1, <1>2, SeqAddKeeps
<1> HIDE DEF u
<1>5. t.cells \in Tables /\ r.cells \in Tables
  BY <1>1 DEF TStream
<1>6. Shiftable(r.cells, s, b, x)
  BY <1>0, <1>1, ShiftableLeft
<1>7. ASSUME NEW q, q # s PROVE View(u.cells, bd, q) = View(t.cells, bd, q)
  <2>1. View(r.cells, bd, q) = View(t.cells, bd, q)
    BY <1>1, <1>7, ViewLeftOther
  <2>2. View(u.cells, bd, q) = View(r.cells, bd, q)
    BY <1>2, <1>4, <1>5, <1>6, <1>7, ViewMovedOther
  <2> QED BY <2>1, <2>2
<1>8. KeepsOthers(t.cells, u.cells, bd, s)
  BY <1>7 DEF KeepsOthers
<1>9. ChunkMoved(t.cells, r.cells, u.cells, s, a, b, x)
  <2>1. b <= x /\ a \in Nat /\ b \in Nat /\ x \in Nat /\ a < b
    BY <1>0
  <2>2. ShiftedIn(r.cells, u.cells, In(r.cells, s, b, x), a - b)
    BY <1>4 DEF d
  <2>3. Left(t.cells, r.cells, In(t.cells, s, a, b), s)
    BY <1>1
  <2> QED BY <1>5, <2>1, <2>2, <2>3, Zenon DEF ChunkMoved
<1>10. View(u.cells, bd, s) = Without(View(t.cells, bd, s), a, x) \cup Chunk(View(t.cells, bd, s), a, b, x)
  <2> DEFINE c == t.cells
             e == r.cells
             g == u.cells
  <2>1. ChunkMoved(c, e, g, s, a, b, x)
    BY <1>9
  <2> HIDE DEF c, e, g
  <2>2. View(g, bd, s) = Without(View(c, bd, s), a, x) \cup Chunk(View(c, bd, s), a, b, x)
    BY <2>1, ChunkView
  <2> QED BY <2>2 DEF c, e, g
<1>11. HasMoved(t, u, bd, s, a, b, x)
  BY <1>4, <1>8, <1>10 DEF HasMoved
<1> QED BY <1>11 DEF u, r, d

\* What is from b to e moves to a; the rest from a on is removed.
Slides(V, a, b, e) ==
  {x \in V : x.pos < a} \cup {[x EXCEPT !.pos = @ - (b - a)] : x \in {y \in V : b <= y.pos /\ y.pos <= e}}

LEMMA ChunkSlides ==
  ASSUME NEW V, \A y \in V : y.pos \in Nat, NEW a \in Nat, NEW b \in Nat, NEW x \in Nat
  PROVE  {y \in V : y.pos < a} \cup Chunk(V, a, b, x) = Slides(V, a, b, x - 1)
<1>1. {z \in V : b <= z.pos /\ z.pos < x} = {z \in V : b <= z.pos /\ z.pos <= x - 1}
  OBVIOUS
<1>2. \A y \in V : Slid(y, a - b) = [y EXCEPT !.pos = @ - (b - a)]
  <2>1. \A y \in V : y.pos + (a - b) = y.pos - (b - a)
    OBVIOUS
  <2> QED BY <2>1 DEF Slid
<1> QED BY <1>1, <1>2, Zenon DEF Chunk, Slides

LEMMA ContentPos ==
  ASSUME Windowless, NEW s \in Seqs
  PROVE  /\ next_pos(v, s) \in 0 .. MaxPos + 1 /\ MaxPos \in Nat
         /\ \A x \in View(v[stream(s)].cells, Seen[stream(s)], s) : x.pos \in Nat /\ x.pos < next_pos(v, s)
<1> DEFINE m == next_pos(v, s)
<1>1. layout \in Layouts /\ v \in Caches /\ AllRun(v) /\ MaxPos \in Nat
  BY WindowlessFacts, LayoutFacts
<1>2. m \in 0 .. MaxPos + 1
  BY <1>1, NextPosType
<1>3. Run(v[stream(s)].cells, s, m)
  BY <1>1, RunNext
<1> HIDE DEF m
<1>4. Holds(v[stream(s)].cells, s, 0 .. m - 1)
  BY <1>3 DEF Run
<1>5. \A x \in View(v[stream(s)].cells, Seen[stream(s)], s) : x.pos \in 0 .. m - 1
  BY <1>4, ViewRun, Zenon
<1>6. \A x \in View(v[stream(s)].cells, Seen[stream(s)], s) : x.pos \in Nat /\ x.pos < m
  BY <1>2, <1>5
<1> QED BY <1>1, <1>2, <1>6 DEF m

\* A chunk that moves up to a, when what is behind it leaves.
Sliding(t, s, a, b, x) ==
  LET V == View(v[stream(s)].cells, Seen[stream(s)], s)
  IN /\ a \in Nat /\ b \in Nat /\ x \in Nat /\ t \in TStream
     /\ Become([v EXCEPT ![stream(s)] = t], buf, sc_info)
     /\ KeepsOthers(v[stream(s)].cells, t.cells, Seen[stream(s)], s)
     /\ View(t.cells, Seen[stream(s)], s) = {y \in V : y.pos < a} \cup Chunk(V, a, b, x)

LEMMA SlideContent ==
  ASSUME Windowless, layout' = layout, NEW s \in Seqs, NEW t, NEW a, NEW b, NEW x, Sliding(t, s, a, b, x)
  PROVE  Content' = [Content EXCEPT ![s] = Slides(Content[s], a, b, x - 1)]
<1> DEFINE V == View(v[stream(s)].cells, Seen[stream(s)], s)
<1>0. /\ a \in Nat /\ b \in Nat /\ x \in Nat /\ t \in TStream
      /\ Become([v EXCEPT ![stream(s)] = t], buf, sc_info)
      /\ KeepsOthers(v[stream(s)].cells, t.cells, Seen[stream(s)], s)
      /\ View(t.cells, Seen[stream(s)], s) = {y \in V : y.pos < a} \cup Chunk(V, a, b, x)
  BY DEF Sliding
<1>1. TablesRooted /\ Content[s] = V
  BY SeenFacts DEF Windowless
<1>2. \A y \in V : y.pos \in Nat
  BY ContentPos
<1>3. View(t.cells, Seen[stream(s)], s) = Slides(Content[s], a, b, x - 1)
  <2> HIDE DEF V
  <2> QED BY <1>0, <1>1, <1>2, ChunkSlides
<1> DEFINE W == Slides(Content[s], a, b, x - 1)
<1>4. View(t.cells, Seen[stream(s)], s) = W
  BY <1>3
<1> HIDE DEF W
<1>5. Content' = [Content EXCEPT ![s] = W]
  BY <1>0, <1>1, <1>4, StreamContent
<1> QED BY <1>5 DEF W

\* A full sequence that is shifted slides; without tokens behind the
\* discarded ones it is truncated.
LEMMA ContextShiftContent ==
  ASSUME "shared_shift" \notin Allowed, Windowless, NEW s \in Seqs, NEW n_keep \in Pos, NEW n_discard \in Pos,
         ContextShift(s, n_keep, n_discard)
  PROVE  LET past == next_pos(v, s)
         IN \/ /\ n_keep + n_discard < past
               /\ Content' = [Content EXCEPT ![s] = Slides(Content[s], n_keep, n_keep + n_discard, past - 1)]
            \/ Content' = [Content EXCEPT ![s] = {x \in Content[s] : x.pos < n_keep}]
<1> DEFINE past == next_pos(v, s)
           t == v[stream(s)]
           bd == Seen[stream(s)]
           V == View(t.cells, bd, s)
           a == n_keep
           b == n_keep + n_discard
           u == SeqAdd(SeqRm(t, s, a, b), s, b, past, -n_discard)
<1>1. /\ TablesRooted /\ layout \in Layouts /\ t \in TStream /\ t.cells \in Tables /\ bd \in [Size -> Data]
      /\ Content[s] = V
  BY SeenFacts DEF Windowless
<1>2. a \in Nat /\ n_discard \in Nat
  BY PosAssumption
<1>3. past \in Nat /\ \A x \in V : x.pos \in Nat /\ x.pos < past
  BY ContentPos
<1>4. /\ 0 < n_discard /\ b <= past /\ MayShift(s, b, past) /\ layout' = layout
      /\ Become([v EXCEPT ![stream(s)] = u], buf, sc_info)
  BY DEF ContextShift
<1>5. Shiftable(t.cells, s, b, past)
  BY <1>4, MayShiftOwn
<1>6. b \in Nat /\ a < b /\ a - b = -n_discard
  BY <1>2, <1>4
<1>7. CASE b < past
  <2> DEFINE w == SeqAdd(SeqRm(t, s, a, b), s, b, past, a - b)
  <2>1. w = u
    BY <1>6
  <2> HIDE DEF past, t, bd, a, b
  <2>2. /\ w \in TStream /\ KeepsOthers(t.cells, w.cells, bd, s)
        /\ View(w.cells, bd, s) = Without(V, a, past) \cup Chunk(V, a, b, past)
    <3>1. MayMove(t, s, a, b, past)
      BY <1>2, <1>3, <1>5, <1>6, <1>7 DEF MayMove
    <3>2. HasMoved(t, w, bd, s, a, b, past)
      BY <1>1, <3>1, ChunkTables
    <3> QED BY <3>2 DEF HasMoved
  <2> HIDE DEF w, V, u
  <2>3. Without(V, a, past) = {y \in V : y.pos < a}
    BY <1>2, <1>3 DEF Without
  <2>4. View(w.cells, bd, s) = {y \in V : y.pos < a} \cup Chunk(V, a, b, past)
    BY <2>2, <2>3
  <2>5. Content' = [Content EXCEPT ![s] = Slides(Content[s], a, b, past - 1)]
    <3>1. /\ w \in TStream /\ Become([v EXCEPT ![stream(s)] = w], buf, sc_info) /\ layout' = layout
          /\ KeepsOthers(v[stream(s)].cells, w.cells, Seen[stream(s)], s)
      BY <1>4, <2>1, <2>2 DEF t, bd
    <3>2. V = View(v[stream(s)].cells, Seen[stream(s)], s)
      BY DEF V, t, bd
    <3>3. View(w.cells, Seen[stream(s)], s) = {y \in V : y.pos < a} \cup Chunk(V, a, b, past)
      BY <2>4 DEF bd
    <3>4. Sliding(w, s, a, b, past)
      BY <1>2, <1>3, <1>6, <3>1, <3>2, <3>3 DEF Sliding
    <3> QED BY <3>1, <3>4, SlideContent
  <2> QED BY <1>7, <2>5 DEF past, a, b
<1>8. CASE ~(b < past)
  <2> DEFINE r == SeqRm(t, s, a, b)
  <2>1. b = past
    BY <1>3, <1>4, <1>6, <1>8
  <2>2. u = r
    BY <2>1 DEF SeqAdd
  <2>3. r \in TStream /\ Left(t.cells, r.cells, In(t.cells, s, a, b), s)
    <3> HIDE DEF t, a, b
    <3> QED BY <1>1, SeqRmKeeps
  <2> HIDE DEF r, u
  <2>4. KeepsOthers(t.cells, r.cells, bd, s)
    <3> HIDE DEF t, bd, a, b
    <3> QED BY <2>3, ViewLeftOther DEF KeepsOthers
  <2>5. View(r.cells, bd, s) = {x \in V : ~(a <= x.pos /\ x.pos < b)}
    <3> HIDE DEF t, bd, a, b
    <3> QED BY <2>3, ViewLeft DEF V
  <2>6. {x \in V : ~(a <= x.pos /\ x.pos < b)} = {x \in V : x.pos < a}
    <3> HIDE DEF V, a, b, past
    <3> QED BY <1>2, <1>3, <2>1
  <2>7. View(r.cells, bd, s) = {x \in Content[s] : x.pos < a}
    BY <1>1, <2>5, <2>6
  <2>8. Become([v EXCEPT ![stream(s)] = r], buf, sc_info)
    BY <1>4, <2>2
  <2> QED BY <1>1, <1>4, <2>3, <2>4, <2>7, <2>8, StreamContent
<1> QED BY <1>7, <1>8

Entries == [pos : Nat, of : Seqs \cup {Nobody}]

LEMMA ViewEntries ==
  ASSUME layout \in Layouts, NEW c \in Tables, NEW bd \in [Size -> Data], NEW s
  PROVE  View(c, bd, s) \subseteq Entries
<1> SUFFICES ASSUME NEW x \in View(c, bd, s) PROVE x \in Entries
  OBVIOUS
<1>1. PICK i \in Size : x = Shown(c, bd, i)
  BY ShownIn
<1>2. x.pos \in Nat
  BY ViewPos
<1>3. c.pos[i] \in Nat
  BY <1>1, <1>2, ShownPos
<1>4. bd[i].of \in Seqs \cup {Nobody}
  BY DEF Data
<1> QED BY <1>1, <1>3, <1>4 DEF Shown, Entries

\* What is behind the chunk is removed once it has moved.
CutTo(V, a, b, k) ==
  {y \in Without(V, a, b + k) \cup Chunk(V, a, b, b + k) : ~(a + k <= y.pos)}
    = {y \in V : y.pos < a} \cup Chunk(V, a, b, b + k)

LEMMA CutBehind ==
  ASSUME NEW V \in SUBSET Entries, NEW a \in Nat, NEW b \in Nat, NEW k \in Nat, a < b
  PROVE  CutTo(V, a, b, k)
<1> DEFINE C == Chunk(V, a, b, b + k)
<1>1. ASSUME NEW y \in C PROVE ~(a + k <= y.pos)
  <2>1. PICK z \in V : b <= z.pos /\ z.pos < b + k /\ y = Slid(z, a - b)
    BY <1>1 DEF Chunk
  <2>2. z \in Entries
    OBVIOUS
  <2>3. z.pos \in Nat /\ y.pos = z.pos + (a - b)
    BY <2>1, <2>2 DEF Slid, Entries
  <2> QED BY <2>1, <2>3
<1>2. \A y \in V : y.pos \in Nat
  BY DEF Entries
<1>3. \A y \in V : y.pos < a \/ b + k <= y.pos => (~(a + k <= y.pos) <=> y.pos < a)
  BY <1>2
<1> HIDE DEF C
<1>4. \A y \in Without(V, a, b + k) : ~(a + k <= y.pos) <=> y.pos < a
  BY <1>3 DEF Without
<1>5. \A y : y \in Without(V, a, b + k) /\ y.pos < a <=> y \in V /\ y.pos < a
  BY DEF Without
<1> DEFINE W == Without(V, a, b + k)
<1> HIDE DEF W
<1>6. {y \in W \cup C : ~(a + k <= y.pos)} = {y \in V : y.pos < a} \cup C
  BY <1>1, <1>4, <1>5 DEF W
<1> QED BY <1>6 DEF W, C, CutTo

\* A chunk that is reused slides to the head of the prompt.
LEMMA CacheReuseContent ==
  ASSUME "shared_shift" \notin Allowed, Windowless,
         NEW s \in Seqs, NEW head_p \in Pos, NEW head_c \in Pos, NEW n_match \in Pos,
         CacheReuse(s, head_p, head_c, n_match)
  PROVE  /\ head_p < head_c /\ 0 < n_match /\ head_c + n_match <= next_pos(v, s)
         /\ Content' = [Content EXCEPT ![s] = Slides(Content[s], head_p, head_c, (head_c + n_match) - 1)]
<1> DEFINE t == v[stream(s)]
           bd == Seen[stream(s)]
           V == View(t.cells, bd, s)
           a == head_p
           b == head_c
           k == n_match
           x == head_c + n_match
           m == SeqAdd(SeqRm(t, s, a, b), s, b, x, a - b)
           u == SeqRm(m, s, a + k, MaxPos + 1)
<1>1. /\ TablesRooted /\ layout \in Layouts /\ t \in TStream /\ t.cells \in Tables /\ bd \in [Size -> Data]
  BY SeenFacts DEF Windowless
<1>2. a \in Nat /\ b \in Nat /\ k \in Nat /\ x \in Nat
  BY PosAssumption
<1>3. /\ a < b /\ 0 < k /\ x <= next_pos(v, s) /\ MayShift(s, b, x) /\ layout' = layout
      /\ Become([v EXCEPT ![stream(s)] = u], buf, sc_info)
  BY DEF CacheReuse
<1>4. Shiftable(t.cells, s, b, x) /\ b < x
  BY <1>2, <1>3, MayShiftOwn
<1>5. MayMove(t, s, a, b, x)
  BY <1>2, <1>3, <1>4 DEF MayMove
<1>6. HasMoved(t, m, bd, s, a, b, x)
  <2> HIDE DEF t, bd, a, b, x
  <2> QED BY <1>1, <1>5, ChunkTables
<1> HIDE DEF m
<1>7. /\ m \in TStream /\ KeepsOthers(t.cells, m.cells, bd, s)
      /\ View(m.cells, bd, s) = Without(V, a, x) \cup Chunk(V, a, b, x)
  BY <1>6 DEF HasMoved
<1>8. /\ u \in TStream /\ KeepsOthers(m.cells, u.cells, bd, s)
      /\ View(u.cells, bd, s) = {y \in View(m.cells, bd, s) : ~(a + k <= y.pos)}
  <2> DEFINE p == a + k
  <2> DEFINE q == SeqRm(m, s, p, MaxPos + 1)
  <2>1. s \in Seqs /\ layout \in Layouts /\ m \in TStream
    BY <1>1, <1>7
  <2> HIDE DEF t, bd, p
  <2>2. /\ q \in TStream /\ KeepsOthers(m.cells, q.cells, bd, s)
        /\ View(q.cells, bd, s) = {y \in View(m.cells, bd, s) : ~(p <= y.pos)}
    BY <2>1, RmView, Zenon
  <2> QED BY <2>2 DEF p
<1> HIDE DEF u
<1>9. KeepsOthers(t.cells, u.cells, bd, s)
  <2> HIDE DEF t, bd
  <2> QED BY <1>7, <1>8 DEF KeepsOthers
<1>10. View(u.cells, bd, s) = {y \in V : y.pos < a} \cup Chunk(V, a, b, x)
  <2>1. V \in SUBSET Entries
    <3> HIDE DEF t, bd
    <3> QED BY <1>1, ViewEntries
  <2>2. {y \in Without(V, a, x) \cup Chunk(V, a, b, x) : ~(a + k <= y.pos)} = {y \in V : y.pos < a} \cup Chunk(V, a, b, x)
    <3> HIDE DEF V
    <3>1. CutTo(V, a, b, k)
      <4> HIDE DEF a, b, k, x
      <4> QED BY <1>2, <1>3, <2>1, CutBehind
    <3> QED BY <3>1 DEF CutTo
  <2> QED BY <1>7, <1>8, <2>2
<1>11. Sliding(u, s, a, b, x)
  <2> HIDE DEF a, b, x
  <2> QED BY <1>2, <1>3, <1>8, <1>9, <1>10 DEF Sliding
<1>12. Content' = [Content EXCEPT ![s] = Slides(Content[s], a, b, x - 1)]
  <2> HIDE DEF a, b, x
  <2> QED BY <1>3, <1>11, SlideContent
<1>13. head_p < head_c /\ 0 < n_match /\ head_c + n_match <= next_pos(v, s)
  BY <1>3
<1>14. Content' = [Content EXCEPT ![s] = Slides(Content[s], head_p, head_c, (head_c + n_match) - 1)]
  BY <1>12
<1> HIDE DEF a, b, k, x, t, V, bd
<1> QED BY <1>13, <1>14, Zenon

\* The cells of dst show what those of src showed.
TakesShown(c, bd, e, be, src, dst) ==
  \A i \in Size : (dst \in e.seq[i] <=> src \in c.seq[i]) /\ (src \in c.seq[i] => Shown(e, be, i) = Shown(c, bd, i))

LEMMA ViewTaken ==
  ASSUME NEW c, NEW bd, NEW e, NEW be, NEW src, NEW dst, TakesShown(c, bd, e, be, src, dst)
  PROVE  View(e, be, dst) = View(c, bd, src)
<1>1. \A x : x \in View(c, bd, src) <=> \E i \in Size : src \in c.seq[i] /\ x = Shown(c, bd, i)
  BY ShownIn
<1>2. \A x : x \in View(e, be, dst) <=> \E i \in Size : dst \in e.seq[i] /\ x = Shown(e, be, i)
  BY ShownIn
<1>3. \A i \in Size : (dst \in e.seq[i] <=> src \in c.seq[i]) /\ (src \in c.seq[i] => Shown(e, be, i) = Shown(c, bd, i))
  BY DEF TakesShown
<1> QED BY <1>1, <1>2, <1>3

\* Sequence dst shares the cells of src.
LEMMA JoinedView ==
  ASSUME layout \in Layouts, NEW c \in Tables, NEW e, NEW bd, NEW src, NEW dst,
         JoinedIn(c, e, In(c, src, 0, MaxPos + 1), dst), \A i \in Size : dst \notin c.seq[i]
  PROVE  View(e, bd, dst) = View(c, bd, src)
<1>1. \A i \in Size : i \in In(c, src, 0, MaxPos + 1) <=> src \in c.seq[i]
  <2> SUFFICES ASSUME NEW i \in Size, src \in c.seq[i] PROVE 0 <= c.pos[i] /\ c.pos[i] < MaxPos + 1
    BY DEF In, pos_in, seq_has
  <2>1. c.pos[i] \in Pos
    BY Fields DEF Tables, Consistent, FreeIsClean
  <2>2. c.pos[i] \in 0 .. MaxPos /\ MaxPos \in Nat
    BY <2>1, LayoutFacts
  <2> QED BY <2>2
<1>2. \A i \in Size : e.pos[i] = c.pos[i] /\ e.shift[i] = c.shift[i]
  BY Zenon DEF JoinedIn
<1>3. \A i \in Size : dst \in e.seq[i] <=> src \in c.seq[i]
  BY <1>1, Zenon DEF JoinedIn
<1>4. TakesShown(c, bd, e, bd, src, dst)
  BY <1>2, <1>3, ShownSame DEF TakesShown
<1> QED BY <1>4, ViewTaken

LEMMA JoinedOther ==
  ASSUME NEW c, NEW e, NEW bd, NEW u, NEW dst, JoinedIn(c, e, u, dst), NEW r, r # dst
  PROVE  View(e, bd, r) = View(c, bd, r)
<1>1. \A i \in Size : e.pos[i] = c.pos[i] /\ e.shift[i] = c.shift[i]
  BY Zenon DEF JoinedIn
<1>2. \A i \in Size : r \in e.seq[i] <=> r \in c.seq[i]
  BY Zenon DEF JoinedIn
<1>3. SameShown(c, bd, e, bd, r)
  BY <1>1, <1>2, ShownSame DEF SameShown
<1> QED BY <1>3, ViewSame

\* The cells of src are entered for dst in a table of its own.
LEMMA EnteredView ==
  ASSUME NEW c, NEW e, NEW bd, NEW src, NEW dst, EnteredIn(c, e, {i \in Size : seq_has(c, i, src)}, dst)
  PROVE  View(e, bd, dst) = View(c, bd, src)
<1>1. \A i \in Size : (dst \in e.seq[i] <=> src \in c.seq[i])
                      /\ (src \in c.seq[i] => e.pos[i] = c.pos[i] /\ e.shift[i] = c.shift[i])
  BY DEF EnteredIn, seq_has
<1>2. TakesShown(c, bd, e, bd, src, dst)
  BY <1>1, ShownSame DEF TakesShown
<1> QED BY <1>2, ViewTaken

\* The slot of a child takes what its parent holds.
LEMMA CopyStateContent ==
  ASSUME TablesRooted, NEW src \in Seqs, NEW dst \in Seqs, CopyState(src, dst)
  PROVE  Content' = [Content EXCEPT ![dst] = Content[src]]
<1> DEFINE t == v[stream(dst)]
           bd == Seen[stream(dst)]
           u == SeqRm(t, dst, 0, MaxPos + 1)
           emptied == [v EXCEPT ![stream(dst)] = u]
           copies == Append(sc_info, <<src, dst>>)
<1>0. /\ layout \in Layouts /\ v \in Caches /\ t \in TStream /\ t.cells \in Tables /\ stream(dst) \in Streams
      /\ src # dst /\ layout' = layout
  BY SeenFacts DEF CopyState
<1>1. /\ u \in TStream /\ Left(t.cells, u.cells, In(t.cells, dst, 0, MaxPos + 1), dst)
      /\ \A i \in Size : dst \notin u.cells.seq[i]
  <2> HIDE DEF t
  <2> QED BY <1>0, SeqRmKeeps, GoneEverywhere
<1>2. /\ layout.unified => Become([emptied EXCEPT ![0] = SeqShare(emptied[0], src, dst)], buf, sc_info)
      /\ ~layout.unified => Become([emptied EXCEPT ![dst] = SeqEnter(emptied[src], src, dst)], buf, copies)
  BY DEF CopyState
<1> HIDE DEF u
<1>3. \A d \in Streams : emptied[d] = IF d = stream(dst) THEN u ELSE v[d]
  BY <1>0 DEF Caches
<1>4. \A x : [emptied EXCEPT ![stream(dst)] = x] = [v EXCEPT ![stream(dst)] = x]
  BY <1>0, Zenon DEF Caches
<1> HIDE DEF emptied
<1>5. CASE layout.unified
  <2> DEFINE h == SeqShare(u, src, dst)
  <2>1. stream(dst) = 0 /\ stream(src) = 0
    BY <1>5 DEF stream
  <2>2. h \in TStream /\ JoinedIn(u.cells, h.cells, In(u.cells, src, 0, MaxPos + 1), dst)
    BY <1>0, <1>1, SeqShareKeeps
  <2>3. emptied[0] = u
    BY <1>0, <1>3, <2>1
  <2>4. Become([v EXCEPT ![stream(dst)] = h], buf, sc_info)
    <3>1. Become([emptied EXCEPT ![stream(dst)] = h], buf, sc_info)
      BY <1>2, <1>5, <2>1, <2>3
    <3> QED BY <1>4, <3>1
  <2> HIDE DEF h
  <2>5. u.cells \in Tables
    BY <1>1 DEF TStream
  <2> HIDE DEF t, bd
  <2>6. \A r : r # dst => View(u.cells, bd, r) = View(t.cells, bd, r)
    BY <1>1, ViewLeftOther
  <2>7. /\ View(h.cells, bd, dst) = View(u.cells, bd, src)
        /\ \A r : r # dst => View(h.cells, bd, r) = View(u.cells, bd, r)
    <3> DEFINE c == u.cells
               e == h.cells
    <3>1. /\ layout \in Layouts /\ c \in Tables /\ \A i \in Size : dst \notin c.seq[i]
          /\ JoinedIn(c, e, In(c, src, 0, MaxPos + 1), dst)
      BY <1>0, <1>1, <2>2, <2>5
    <3> HIDE DEF c, e
    <3>2. View(e, bd, dst) = View(c, bd, src)
      BY <3>1, JoinedView
    <3>3. \A r : r # dst => View(e, bd, r) = View(c, bd, r)
      BY <3>1, JoinedOther
    <3> QED BY <3>2, <3>3 DEF c, e
  <2>8. KeepsOthers(t.cells, h.cells, bd, dst)
    BY <2>6, <2>7 DEF KeepsOthers
  <2>9. View(h.cells, bd, dst) = View(t.cells, bd, src)
    BY <1>0, <2>6, <2>7
  <2>10. Content[src] = View(t.cells, bd, src)
    BY <2>1, SeenFacts DEF t, bd
  <2> DEFINE V == Content[src]
  <2>11. V = View(h.cells, bd, dst)
    BY <2>9, <2>10
  <2> HIDE DEF V
  <2>12. Content' = [Content EXCEPT ![dst] = V]
    BY <1>0, <2>2, <2>4, <2>8, <2>11, StreamContent DEF t, bd
  <2> QED BY <2>12 DEF V
<1>6. CASE ~layout.unified
  <2> DEFINE g == SeqEnter(v[src], src, dst)
             w == [v EXCEPT ![dst] = g]
             b == CopiedBy(copies, buf)
  <2>1. Streams = Seqs /\ \A r \in Seqs : stream(r) = r
    BY <1>6 DEF Streams, stream
  <2>2. emptied[src] = v[src] /\ v[src] \in TStream
    BY <1>0, <1>3, <2>1 DEF Caches
  <2>3. g \in TStream /\ EnteredIn(v[src].cells, g.cells, {i \in Size : seq_has(v[src].cells, i, src)}, dst)
    BY <1>0, <2>2, SeqEnterKeeps, Zenon
  <2>4. Become(w, buf, copies)
    <3>1. Become([emptied EXCEPT ![stream(dst)] = g], buf, copies)
      BY <1>2, <1>6, <2>1, <2>2, Zenon
    <3>2. Become([v EXCEPT ![stream(dst)] = g], buf, copies)
      BY <1>4, <3>1, Zenon
    <3> QED BY <2>1, <3>2, Zenon
  <2> HIDE DEF g
  <2>5. w \in Caches /\ \A r \in Seqs : w[r] = IF r = dst THEN g ELSE v[r]
    BY <1>0, <2>1, <2>3 DEF Caches
  <2>6. /\ sc_info \in Seq(Streams \X Streams) /\ buf \in Buffers /\ Seen \in Buffers /\ <<src, dst>> \in Streams \X Streams
        /\ src \in Streams /\ dst \in Streams
    BY <2>1, SeenFacts
  <2>7. copies \in Seq(Streams \X Streams)
    BY <2>6, AppendProperties
  <2>8. b = [Seen EXCEPT ![dst] = Seen[src]]
    BY <1>0, <2>6, CopiedAppend DEF Seen
  <2> HIDE DEF copies, w, b
  <2>9. Content' = Views(w, b)
    BY <1>0, <2>4, <2>5, <2>6, <2>7, BecomeContent DEF b
  <2>10. \A r \in Seqs : b[r] = IF r = dst THEN Seen[src] ELSE Seen[r]
    BY <2>1, <2>6, <2>8 DEF Buffers
  <2>11. \A r \in Seqs : Content[r] = View(v[r].cells, Seen[r], r)
    BY <2>1, SeenFacts
  <2>12. ASSUME NEW r \in Seqs PROVE View(w[r].cells, b[r], r) = IF r = dst THEN Content[src] ELSE Content[r]
    <3>1. CASE r = dst
      BY <2>3, <2>5, <2>10, <2>11, <3>1, EnteredView
    <3>2. CASE r # dst
      BY <2>5, <2>10, <2>11, <3>2
    <3> QED BY <3>1, <3>2
  <2>13. Views(w, b) = [r \in Seqs |-> View(w[r].cells, b[r], r)]
    BY <2>1 DEF Views
  <2>14. Content = [r \in Seqs |-> Content[r]]
    BY DEF Content
  <2> HIDE DEF Content
  <2> QED BY <2>9, <2>12, <2>13, <2>14
<1> QED BY <1>5, <1>6

-----------------------------------------------------------------------------
(* What a sequence holds where no shift is due.                            *)
Plain(c, bd, i) == [pos |-> c.pos[i], of |-> IF bd[i].rot = c.pos[i] THEN bd[i].of ELSE Nobody]
PlainView(c, bd, s) == {Plain(c, bd, i) : i \in {j \in Size : s \in c.seq[j]}}

LEMMA PlainIn ==
  ASSUME NEW c, NEW bd, NEW s, NEW x
  PROVE  x \in PlainView(c, bd, s) <=> \E i \in Size : s \in c.seq[i] /\ x = Plain(c, bd, i)
BY DEF PlainView

LEMMA PlainIs ==
  ASSUME NEW c, Still(c), NEW bd \in [Size -> Data], NEW s
  PROVE  View(c, bd, s) = PlainView(c, bd, s)
<1>1. ASSUME NEW i \in Size PROVE Shown(c, bd, i) = Plain(c, bd, i)
  <2>1. bd[i].rot \in Int
    BY DEF Data
  <2>2. c.shift[i] = 0
    BY DEF Still
  <2>3. bd[i].rot + c.shift[i] = bd[i].rot
    BY <2>1, <2>2
  <2> QED BY <2>3 DEF Shown, Plain
<1>2. \A x : x \in View(c, bd, s) <=> \E i \in Size : s \in c.seq[i] /\ x = Shown(c, bd, i)
  BY ShownIn
<1>3. \A x : x \in PlainView(c, bd, s) <=> \E i \in Size : s \in c.seq[i] /\ x = Plain(c, bd, i)
  BY PlainIn
<1> QED BY <1>1, <1>2, <1>3, Zenon

\* The same cells and data.
LEMMA PlainSame ==
  ASSUME NEW c, NEW bd, NEW e, NEW be, NEW s,
         \A i \in Size : (s \in e.seq[i] <=> s \in c.seq[i])
                         /\ (s \in c.seq[i] => e.pos[i] = c.pos[i] /\ be[i] = bd[i])
  PROVE  PlainView(e, be, s) = PlainView(c, bd, s)
<1>1. \A i \in Size : s \in c.seq[i] => Plain(e, be, i) = Plain(c, bd, i)
  BY DEF Plain
<1>2. \A x : x \in PlainView(c, bd, s) <=> \E i \in Size : s \in c.seq[i] /\ x = Plain(c, bd, i)
  BY PlainIn
<1>3. \A x : x \in PlainView(e, be, s) <=> \E i \in Size : s \in e.seq[i] /\ x = Plain(e, be, i)
  BY PlainIn
<1> QED BY <1>1, <1>2, <1>3, Zenon

\* Tokens go to free cells, and their data with them.
Brought(e, be, tokens, idxs, s) == {Plain(e, be, idxs[k]) : k \in {j \in DOMAIN idxs : tokens[j].seq = s}}
Placing(c, bd, e, be, tokens, idxs) ==
  /\ idxs \in Seq(Size) /\ DOMAIN idxs = DOMAIN tokens /\ Distinct(idxs) /\ ToSet(idxs) \subseteq FreeCells(c)
  /\ Filled(c, e, tokens, idxs, DOMAIN idxs)
  /\ \A i \in Size : i \notin ToSet(idxs) => be[i] = bd[i]

LEMMA PlacingView ==
  ASSUME NEW c, NEW bd, NEW e, NEW be, NEW tokens, NEW idxs, Placing(c, bd, e, be, tokens, idxs),
         NEW s, NEW X \in SUBSET Nat, Holds(c, s, X)
  PROVE  PlainView(e, be, s) = PlainView(c, bd, s) \cup Brought(e, be, tokens, idxs, s)
<1> DEFINE N == DOMAIN idxs
           old(i) == \A k \in N : idxs[k] # i
<1>1. \A k \in N : idxs[k] \in Size /\ c.pos[idxs[k]] = Empty
  <2>1. \A k \in N : idxs[k] \in Size /\ idxs[k] \in FreeCells(c)
    BY ElementOfSeq, LenProperties DEF ToSet, Placing
  <2> QED BY <2>1 DEF FreeCells
<1>2. \A k \in N : e.seq[idxs[k]] = {tokens[k].seq}
  BY DEF Filled, Placing
<1>3. \A i \in Size : old(i) => e.pos[i] = c.pos[i] /\ e.seq[i] = c.seq[i]
  BY DEF Filled, Placing
<1>4. \A i \in Size : old(i) => be[i] = bd[i]
  BY DEF Placing, ToSet
<1>5. \A i \in Size : s \in c.seq[i] => old(i)
  BY <1>1 DEF Holds, Empty
<1> HIDE DEF old
<1>6. \A i \in Size : old(i) => Plain(e, be, i) = Plain(c, bd, i)
  BY <1>3, <1>4 DEF Plain
<1>7. \A x : x \in PlainView(c, bd, s) <=> \E i \in Size : s \in c.seq[i] /\ x = Plain(c, bd, i)
  BY PlainIn
<1>8. \A x : x \in PlainView(e, be, s) <=> \E i \in Size : s \in e.seq[i] /\ x = Plain(e, be, i)
  BY PlainIn
<1>9. \A x : x \in Brought(e, be, tokens, idxs, s) <=> \E k \in N : tokens[k].seq = s /\ x = Plain(e, be, idxs[k])
  BY DEF Brought
<1> HIDE DEF N
<1>10. ASSUME NEW x \in PlainView(e, be, s) PROVE x \in PlainView(c, bd, s) \cup Brought(e, be, tokens, idxs, s)
  <2>1. PICK i \in Size : s \in e.seq[i] /\ x = Plain(e, be, i)
    BY <1>8
  <2>2. CASE old(i)
    BY <1>3, <1>6, <1>7, <2>1, <2>2
  <2>3. CASE ~old(i)
    <3>1. PICK k \in N : idxs[k] = i
      BY <2>3 DEF old
    <3>2. tokens[k].seq = s
      BY <1>2, <2>1, <3>1
    <3> QED BY <1>9, <2>1, <3>1, <3>2
  <2> QED BY <2>2, <2>3
<1>11. ASSUME NEW x \in PlainView(c, bd, s) PROVE x \in PlainView(e, be, s)
  <2>1. PICK i \in Size : s \in c.seq[i] /\ x = Plain(c, bd, i)
    BY <1>7
  <2> QED BY <1>3, <1>5, <1>6, <1>8, <2>1
<1>12. ASSUME NEW x \in Brought(e, be, tokens, idxs, s) PROVE x \in PlainView(e, be, s)
  <2>1. PICK k \in N : tokens[k].seq = s /\ x = Plain(e, be, idxs[k])
    BY <1>9
  <2> QED BY <1>1, <1>2, <1>8, <2>1
<1> QED BY <1>10, <1>11, <1>12

\* A state is saved and restored when nothing is due.
LEMMA NothingDue ==
  ASSUME "queued_state" \notin Allowed, TablesRooted, NoUpdate
  PROVE  sc_info = <<>> /\ Seen = buf /\ Still1(v)
<1>1. sc_info = <<>> /\ \A d \in Streams : ~v[d].cells.has_shift
  BY DEF NoUpdate
<1>2. Seen = buf
  <2>1. layout \in Layouts /\ buf \in Buffers /\ sc_info \in Seq(Streams \X Streams)
    BY DEF TablesRooted
  <2>2. PICK g : Copies(g, buf, sc_info) /\ CopiedBy(sc_info, buf) = g[Len(sc_info)]
    BY <2>1, CopiedRow
  <2>3. Len(sc_info) = 0
    BY <1>1
  <2>4. g[0] = buf
    BY <2>2 DEF Copies
  <2> QED BY <2>2, <2>3, <2>4 DEF Seen
<1>3. ASSUME NEW d \in Streams PROVE Still(v[d].cells)
  <2>1. v[d].cells \in Tables
    BY DEF TablesRooted, Caches, TStream
  <2> QED BY <1>1, <2>1 DEF Tables, Consistent, ShiftKnown, Still
<1> QED BY <1>1, <1>2, <1>3 DEF Still1

LEMMA SavedNext == SavedContent' = {SavedEntry(saved'[k]) : k \in DOMAIN saved'}
BY DEF SavedContent, SavedEntry

LEMMA ContentStays ==
  ASSUME UNCHANGED <<layout, v, buf, sc_info>>
  PROVE  Content' = Content
<1>1. Content' = Views(v', CopiedBy(sc_info', buf'))
  BY ContentNext
<1>2. Views(v', CopiedBy(sc_info', buf')) = Views(v, CopiedBy(sc_info, buf))
  OBVIOUS
<1> QED BY <1>1, <1>2, ContentIs

\* What is saved is all of the sequence.
LEMMA SaveContent ==
  ASSUME "queued_state" \notin Allowed, Windowless, NEW s \in Seqs, Save(s)
  PROVE  SavedContent' = Content[s] /\ Content' = Content
<1> DEFINE d == stream(s)
<1>0. TablesRooted /\ layout \in Layouts /\ layout.window = 0 /\ d \in Streams
  BY WindowlessFacts DEF Windowless
<1> DEFINE c == v[d].cells
           bd == buf[d]
           kept == {i \in Size : seq_has(c, i, s) /\ ~is_masked_swa(c.pos[i], seq_pos_max(c, s))}
           order == Ascending(kept)
<1>1. /\ saved' = [k \in DOMAIN order |-> [pos |-> c.pos[order[k]], data |-> bd[order[k]]]]
      /\ NoUpdate /\ UNCHANGED <<layout, v, buf, sc_info>>
  BY DEF Save, InOrder, Ascending
<1>2. Seen = buf /\ Still(c)
  BY <1>0, <1>1, NothingDue DEF Still1
<1>3. kept \in SUBSET Size /\ \A i \in Size : i \in kept <=> s \in c.seq[i]
  BY <1>0 DEF seq_has, is_masked_swa
<1>4. kept \in SUBSET Nat /\ IsFiniteSet(kept)
  BY <1>0, <1>3, LayoutFacts, FS_Subset
<1>5. Content[s] = PlainView(c, bd, s)
  <2>1. Content[s] = View(c, bd, s) /\ bd \in [Size -> Data]
    BY <1>0, <1>2, SeenFacts
  <2> HIDE DEF c, bd
  <2> QED BY <1>2, <2>1, PlainIs
<1> HIDE DEF kept
<1>6. Enumerates(order, kept)
  BY <1>4, AscendingIs
<1> HIDE DEF order, c, bd, d
<1>7. (\A k \in DOMAIN order : order[k] \in kept) /\ \A i \in kept : \E k \in DOMAIN order : order[k] = i
  BY <1>6 DEF Enumerates
<1>8. DOMAIN saved' = DOMAIN order /\ \A k \in DOMAIN order : SavedEntry(saved'[k]) = Plain(c, bd, order[k])
  BY <1>1 DEF SavedEntry, Plain
<1> DEFINE A == {SavedEntry(saved'[k]) : k \in DOMAIN saved'}
<1>9. \A x : x \in A <=> \E k \in DOMAIN order : x = Plain(c, bd, order[k])
  BY <1>8
<1>10. \A x : x \in PlainView(c, bd, s) <=> \E i \in Size : s \in c.seq[i] /\ x = Plain(c, bd, i)
  BY PlainIn
<1>11. SavedContent' = PlainView(c, bd, s)
  <2>1. \A x : x \in A <=> x \in PlainView(c, bd, s)
    <3> HIDE DEF A
    <3> QED BY <1>3, <1>7, <1>9, <1>10
  <2>2. A = PlainView(c, bd, s)
    BY <2>1
  <2> QED BY <2>2, SavedNext
<1>12. Content' = Content
  BY <1>1, ContentStays
<1> QED BY <1>5, <1>11, <1>12

\* The data of a saved state goes where its tokens go.
Written(bd, idxs) ==
  [i \in Size |-> IF i \in ToSet(idxs) THEN saved[CHOOSE k \in DOMAIN idxs : idxs[k] = i].data ELSE bd[i]]

LEMMA WrittenAt ==
  ASSUME saved \in Seq(States), NEW bd \in [Size -> Data], NEW idxs \in Seq(Size), Distinct(idxs), Len(idxs) = Len(saved)
  PROVE  /\ Written(bd, idxs) \in [Size -> Data]
         /\ \A k \in DOMAIN idxs : Written(bd, idxs)[idxs[k]] = saved[k].data
         /\ \A i \in Size : i \notin ToSet(idxs) => Written(bd, idxs)[i] = bd[i]
<1>1. DOMAIN idxs = 1..Len(saved) /\ \A k \in 1..Len(saved) : saved[k] \in States /\ idxs[k] \in Size
  BY LenProperties, ElementOfSeq
<1> DEFINE at(i) == CHOOSE k \in DOMAIN idxs : idxs[k] = i
<1>2. \A i \in ToSet(idxs) : at(i) \in DOMAIN idxs /\ idxs[at(i)] = i
  BY DEF ToSet
<1>3. \A k \in DOMAIN idxs : idxs[k] \in ToSet(idxs)
  BY DEF ToSet
<1>4. \A j, k \in DOMAIN idxs : idxs[j] = idxs[k] => j = k
  BY DEF Distinct
<1>5. Written(bd, idxs) = [i \in Size |-> IF i \in ToSet(idxs) THEN saved[at(i)].data ELSE bd[i]]
  BY DEF Written
<1> HIDE DEF at
<1>6. \A k \in DOMAIN idxs : at(idxs[k]) = k
  BY <1>2, <1>3, <1>4
<1>7. ASSUME NEW i \in Size PROVE Written(bd, idxs)[i] \in Data
  <2>1. CASE i \in ToSet(idxs)
    <3>1. saved[at(i)] \in States
      BY <1>1, <1>2, <2>1
    <3>2. Written(bd, idxs)[i] = saved[at(i)].data
      BY <1>5, <2>1
    <3> QED BY <3>1, <3>2 DEF States
  <2>2. CASE i \notin ToSet(idxs)
    BY <1>5, <2>2
  <2> QED BY <2>1, <2>2
<1>8. Written(bd, idxs) \in [Size -> Data]
  <2> DEFINE W == Written(bd, idxs)
  <2>1. W = [i \in Size |-> W[i]] /\ \A i \in Size : W[i] \in Data
    BY <1>5, <1>7
  <2> HIDE DEF W
  <2>2. W \in [Size -> Data]
    BY <2>1
  <2> QED BY <2>2 DEF W
<1>9. ASSUME NEW k \in DOMAIN idxs PROVE Written(bd, idxs)[idxs[k]] = saved[k].data
  <2>1. idxs[k] \in ToSet(idxs) /\ idxs[k] \in Size /\ at(idxs[k]) = k
    BY <1>1, <1>3, <1>6
  <2> QED BY <1>5, <2>1
<1>10. \A i \in Size : i \notin ToSet(idxs) => Written(bd, idxs)[i] = bd[i]
  BY <1>5
<1> QED BY <1>8, <1>9, <1>10

\* Seen and content where no copy is queued.
LEMMA NoCopies ==
  ASSUME layout \in Layouts, NEW b \in Buffers
  PROVE  <<>> \in Seq(Streams \X Streams) /\ CopiedBy(<<>>, b) = b
<1>1. <<>> \in Seq(Streams \X Streams) /\ Len(<<>>) = 0
  BY EmptySeq
<1> DEFINE none == <<>>
<1> HIDE DEF none
<1>2. ASSUME none \in Seq(Streams \X Streams), Len(none) = 0 PROVE CopiedBy(none, b) = b
  <2>1. PICK g : Copies(g, b, none) /\ CopiedBy(none, b) = g[Len(none)]
    BY <1>2, CopiedRow, Zenon
  <2> QED BY <1>2, <2>1 DEF Copies
<1> QED BY <1>1, <1>2 DEF none

LEMMA LoadFacts ==
  ASSUME Windowless, NEW s \in Seqs
  PROVE  LET t == SeqRm(v[stream(s)], s, 0, MaxPos + 1)
         IN /\ t \in TStream /\ t.cells \in Tables /\ \A i \in Size : s \notin t.cells.seq[i]
            /\ KeepsOthers(v[stream(s)].cells, t.cells, Seen[stream(s)], s)
            /\ \A r \in Seqs : r # s /\ stream(r) = stream(s) => HasRun(t.cells, r)
            /\ Still1(v) => Still(t.cells)
<1> DEFINE d == stream(s)
           t == SeqRm(v[d], s, 0, MaxPos + 1)
           bd == Seen[d]
<1>0. layout \in Layouts /\ v \in Caches /\ AllRun(v) /\ d \in Streams /\ v[d] \in TStream
  BY WindowlessFacts
<1>1. t \in TStream /\ Left(v[d].cells, t.cells, In(v[d].cells, s, 0, MaxPos + 1), s)
  <2> HIDE DEF d
  <2> QED BY <1>0, SeqRmKeeps
<1>2. \A i \in Size : s \notin t.cells.seq[i]
  <2> HIDE DEF d
  <2> QED BY <1>0, GoneEverywhere
<1>3. Still1(v) => Still(t.cells)
  <2>1. Still1(v) => Still(v[d].cells)
    BY <1>0 DEF Still1
  <2> HIDE DEF d
  <2> QED BY <1>0, <2>1, SeqRmStill
<1> HIDE DEF t, bd
<1>4. KeepsOthers(v[d].cells, t.cells, bd, s)
  <2> HIDE DEF d
  <2>1. \A r : r # s => View(t.cells, bd, r) = View(v[d].cells, bd, r)
    BY <1>1, ViewLeftOther
  <2> QED BY <2>1 DEF KeepsOthers
<1>5. ASSUME NEW r \in Seqs, r # s, stream(r) = d PROVE HasRun(t.cells, r)
  <2>1. HasRun(v[d].cells, r)
    BY <1>0, <1>5 DEF AllRun
  <2> HIDE DEF d
  <2> QED BY <1>1, <1>5, <2>1, LeftSame, RunSame
<1>6. t.cells \in Tables
  BY <1>1 DEF TStream
<1> QED BY <1>1, <1>2, <1>3, <1>4, <1>5, <1>6 DEF t, bd

\* A state that is read back is what was saved, or nothing; the other
\* sequences keep what they hold.
LEMMA LoadContent ==
  ASSUME "queued_state" \notin Allowed, Windowless, NEW s \in Seqs, Load(s)
  PROVE  /\ SavedContent' \in {SavedContent, {}}
         /\ \E V \in {SavedContent, {}} : Content' = [Content EXCEPT ![s] = V]
<1> DEFINE d == stream(s)
           t == SeqRm(v[d], s, 0, MaxPos + 1)
           idxs == find_slot(t, Len(saved))
           tokens == [k \in DOMAIN saved |-> [seq |-> s, pos |-> saved[k].pos]]
           w == apply_ubatch(t, tokens, idxs)
           bd == buf[d]
           be == Written(bd, idxs)
           held == [buf EXCEPT ![d] = be]
<1>0. /\ TablesRooted /\ layout \in Layouts /\ layout.window = 0 /\ v \in Caches /\ buf \in Buffers /\ d \in Streams
      /\ saved \in Seq(States) /\ Len(saved) \in Nat /\ DOMAIN saved = 1..Len(saved) /\ sc_info \in Seq(Streams \X Streams)
  <2>1. TablesRooted /\ saved \in Seq(States) /\ sc_info \in Seq(Streams \X Streams) /\ buf \in Buffers
    BY DEF Windowless, TablesRooted
  <2> QED BY <2>1, WindowlessFacts, LenProperties
<1>1. /\ idxs = <<>> => Become([v EXCEPT ![d] = t], buf, sc_info)
      /\ idxs # <<>> => Become([v EXCEPT ![d] = w], held, sc_info)
      /\ layout' = layout /\ saved' \in {saved, <<>>} /\ NoUpdate
  BY DEF Load, Written
<1>2. /\ t \in TStream /\ t.cells \in Tables /\ \A i \in Size : s \notin t.cells.seq[i]
      /\ KeepsOthers(v[d].cells, t.cells, Seen[d], s)
      /\ \A r \in Seqs : r # s /\ stream(r) = d => HasRun(t.cells, r)
      /\ Still1(v) => Still(t.cells)
  BY LoadFacts
<1>3. sc_info = <<>> /\ Seen = buf /\ Still(t.cells)
  BY <1>0, <1>1, <1>2, NothingDue
<1>4. SavedContent' \in {SavedContent, {}}
  <2>1. CASE saved' = saved
    BY <2>1, SavedNext DEF SavedContent
  <2>2. CASE saved' = <<>>
    BY <2>2, SavedNext
  <2> QED BY <1>1, <2>1, <2>2
<1>5. View(t.cells, Seen[d], s) = {}
  BY <1>2, NoView
<1>6. CASE idxs = <<>>
  <2>1. Become([v EXCEPT ![d] = t], buf, sc_info)
    BY <1>1, <1>6
  <2> HIDE DEF t, idxs
  <2>2. Content' = [Content EXCEPT ![s] = {}]
    BY <1>0, <1>1, <1>2, <1>5, <2>1, StreamContent, Zenon
  <2> QED BY <1>4, <2>2
<1>7. CASE idxs # <<>>
  <2>1. idxs \in Seq(Size) /\ Len(idxs) = Len(saved) /\ DOMAIN idxs = 1..Len(saved)
    BY <1>0, <1>2, <1>7, FindSlotType, LenProperties
  <2>2. Distinct(idxs) /\ ToSet(idxs) \subseteq FreeCells(t.cells)
    BY <1>0, <1>2, FindSlotType
  <2>3. \A k \in 1..Len(saved) : saved[k] \in States
    BY <1>0, ElementOfSeq
  <2>4. tokens \in Seq(Token) /\ Len(tokens) = Len(saved) /\ DOMAIN tokens = DOMAIN saved
    <3>1. \A k \in 1..Len(saved) : [seq |-> s, pos |-> saved[k].pos] \in Token
      BY <2>3 DEF States, Token
    <3> QED BY <1>0, <3>1
  <2>5. \A k \in DOMAIN saved : tokens[k].seq = s /\ tokens[k].pos = saved[k].pos
    OBVIOUS
  <2>6. bd \in [Size -> Data]
    BY <1>0 DEF Buffers
  <2> HIDE DEF idxs, tokens, bd
  <2>7. /\ be \in [Size -> Data] /\ \A k \in DOMAIN idxs : be[idxs[k]] = saved[k].data
        /\ \A i \in Size : i \notin ToSet(idxs) => be[i] = bd[i]
    BY <1>0, <2>1, <2>2, <2>6, WrittenAt, Zenon
  <2> HIDE DEF be
  <2>8. Len(idxs) <= Len(tokens)
    BY <1>0, <2>1, <2>4
  <2>9. w \in TStream /\ Still(w.cells) /\ Filled(t.cells, w.cells, tokens, idxs, DOMAIN idxs)
    <3> HIDE DEF t
    <3> QED BY <1>0, <1>2, <1>3, <1>7, <2>1, <2>2, <2>4, <2>8, ApplyUbatchKeeps
  <2>10. Become([v EXCEPT ![d] = w], held, sc_info)
    BY <1>1, <1>7
  <2> HIDE DEF w, t
  <2>11. Placing(t.cells, bd, w.cells, be, tokens, idxs)
    BY <1>0, <2>1, <2>2, <2>4, <2>7, <2>9 DEF Placing
  <2>12. PlainView(w.cells, be, s) = SavedContent
    <3>1. Holds(t.cells, s, {}) /\ {} \in SUBSET Nat
      BY <1>2 DEF Holds
    <3>2. PlainView(w.cells, be, s) = PlainView(t.cells, bd, s) \cup Brought(w.cells, be, tokens, idxs, s)
      BY <2>11, <3>1, PlacingView
    <3>3. PlainView(t.cells, bd, s) = {}
      BY <1>2 DEF PlainView
    <3>4. DOMAIN idxs = DOMAIN saved /\ \A k \in DOMAIN saved : Plain(w.cells, be, idxs[k]) = SavedEntry(saved[k])
      <4>1. \A k \in DOMAIN saved : be[idxs[k]] = saved[k].data /\ w.cells.pos[idxs[k]] = saved[k].pos
        BY <1>0, <2>1, <2>5, <2>7, <2>9 DEF Filled
      <4> QED BY <1>0, <2>1, <4>1 DEF Plain, SavedEntry
    <3>5. \A x : x \in Brought(w.cells, be, tokens, idxs, s) <=> \E k \in DOMAIN saved : x = SavedEntry(saved[k])
      BY <2>5, <3>4 DEF Brought
    <3> QED BY <3>2, <3>3, <3>5 DEF SavedContent
  <2>13. ASSUME NEW r \in Seqs, r # s, stream(r) = d PROVE View(w.cells, be, r) = View(v[d].cells, bd, r)
    <3>1. PICK n \in Ends : Holds(t.cells, r, 0 .. n - 1)
      BY <1>2, <2>13 DEF HasRun, Run
    <3> DEFINE X == 0 .. n - 1
    <3>2. X \in SUBSET Nat /\ Holds(t.cells, r, X)
      <4>1. n \in Nat
        BY <1>0, LayoutFacts DEF Ends
      <4> QED BY <3>1, <4>1
    <3> HIDE DEF X
    <3>3. PlainView(w.cells, be, r) = PlainView(t.cells, bd, r) \cup Brought(w.cells, be, tokens, idxs, r)
      BY <2>11, <3>2, PlacingView
    <3>4. Brought(w.cells, be, tokens, idxs, r) = {}
      BY <1>0, <2>1, <2>5, <2>13 DEF Brought
    <3>5. View(w.cells, be, r) = PlainView(w.cells, be, r) /\ View(t.cells, bd, r) = PlainView(t.cells, bd, r)
      BY <1>3, <2>6, <2>7, <2>9, PlainIs
    <3>6. View(t.cells, bd, r) = View(v[d].cells, bd, r)
      BY <1>2, <1>3, <2>13 DEF KeepsOthers, bd
    <3> QED BY <3>3, <3>4, <3>5, <3>6
  <2>14. held \in Buffers
    BY <1>0, <2>7 DEF Buffers
  <2>15. [v EXCEPT ![d] = w] \in Caches
    BY <1>0, <2>9, OneStream
  <2>16. Content' = Views([v EXCEPT ![d] = w], held)
    <3> DEFINE x == [v EXCEPT ![d] = w]
    <3>1. Become(x, held, <<>>) /\ x \in Caches
      BY <1>3, <2>10, <2>15
    <3> HIDE DEF x, held, d
    <3>2. CopiedBy(<<>>, held) = held
      BY <1>0, <2>14, NoCopies
    <3>3. Content' = Views(x, CopiedBy(<<>>, held))
      BY <1>0, <1>1, <1>3, <2>14, <3>1, BecomeContent, Zenon
    <3> QED BY <3>2, <3>3 DEF x
  <2>17. \A r \in Seqs : stream(r) \in Streams /\ Content[r] = View(v[stream(r)].cells, buf[stream(r)], r)
    BY <1>0, <1>3, SeenFacts
  <2>18. ASSUME NEW r \in Seqs
         PROVE  View([v EXCEPT ![d] = w][stream(r)].cells, held[stream(r)], r) = IF r = s THEN SavedContent ELSE Content[r]
    <3>1. \A e \in Streams : /\ [v EXCEPT ![d] = w][e] = IF e = d THEN w ELSE v[e]
                             /\ held[e] = IF e = d THEN be ELSE buf[e]
      BY <1>0 DEF Caches, Buffers
    <3> DEFINE x == [v EXCEPT ![d] = w]
    <3> HIDE DEF x, held
    <3>2. \A e \in Streams : x[e] = (IF e = d THEN w ELSE v[e]) /\ held[e] = (IF e = d THEN be ELSE buf[e])
      BY <3>1 DEF x
    <3>3. CASE r = s
      <4>1. View(w.cells, be, s) = SavedContent
        BY <2>7, <2>9, <2>12, PlainIs
      <4>2. x[stream(r)] = w /\ held[stream(r)] = be
        BY <1>0, <3>2, <3>3
      <4> QED BY <3>3, <4>1, <4>2 DEF x
    <3>4. CASE r # s /\ stream(r) = d
      <4>1. x[stream(r)] = w /\ held[stream(r)] = be
        BY <1>0, <3>2, <3>4
      <4>2. Content[r] = View(v[d].cells, bd, r)
        BY <2>17, <3>4 DEF bd
      <4> QED BY <2>13, <3>4, <4>1, <4>2 DEF x
    <3>5. CASE r # s /\ stream(r) # d
      BY <2>17, <3>2, <3>5 DEF x
    <3> QED BY <3>3, <3>4, <3>5
  <2>19. Content' = [Content EXCEPT ![s] = SavedContent]
    <3> DEFINE x == [v EXCEPT ![d] = w]
    <3>1. Views(x, held) = [r \in Seqs |-> View(x[stream(r)].cells, held[stream(r)], r)]
      BY DEF Views
    <3>2. Content = [r \in Seqs |-> Content[r]]
      BY DEF Content
    <3>3. \A r \in Seqs : View(x[stream(r)].cells, held[stream(r)], r) = IF r = s THEN SavedContent ELSE Content[r]
      BY <2>18
    <3>4. Content' = Views(x, held)
      BY <2>16
    <3> HIDE DEF x, held, Content, d
    <3> QED BY <3>1, <3>2, <3>3, <3>4
  <2> QED BY <1>4, <2>19
<1> QED BY <1>6, <1>7

-----------------------------------------------------------------------------
(* What a batch adds.                                                      *)

\* The cells without what is due hold what is seen with it.
LEMMA UpdatedView ==
  ASSUME TablesRooted, NEW s \in Seqs
  PROVE  PlainView(UpdatedV[stream(s)].cells, UpdatedBuf[stream(s)], s) = Content[s]
<1> DEFINE d == stream(s)
           c == v[d].cells
           e == UpdatedV[d].cells
           bd == Seen[d]
           be == UpdatedBuf[d]
<1>1. d \in Streams /\ Content[s] = View(c, bd, s)
  BY SeenFacts
<1>2. \A i \in Size : e.pos[i] = c.pos[i] /\ e.seq[i] = c.seq[i]
  BY <1>1, UpdatedSame DEF SameContent
<1>3. \A i \in Size : be[i] = [bd[i] EXCEPT !.rot = @ + c.shift[i]]
  <2>1. Copied(buf) = Seen
    BY CopiedIs DEF Seen
  <2> QED BY <1>1, <2>1 DEF UpdatedBuf, Rotated
<1>4. \A i \in Size : bd[i] \in Data
  BY SeenFacts
<1> HIDE DEF c, e, bd, be, d
<1>5. \A i \in Size : be[i].rot = bd[i].rot + c.shift[i] /\ be[i].of = bd[i].of
  BY <1>3, <1>4, Zenon DEF Data
<1>6. \A i \in Size : Plain(e, be, i) = Shown(c, bd, i)
  BY <1>2, <1>5 DEF Plain, Shown
<1>7. \A x : x \in View(c, bd, s) <=> \E i \in Size : s \in c.seq[i] /\ x = Shown(c, bd, i)
  BY ShownIn
<1>8. \A x : x \in PlainView(e, be, s) <=> \E i \in Size : s \in e.seq[i] /\ x = Plain(e, be, i)
  BY PlainIn
<1>9. PlainView(e, be, s) = View(c, bd, s)
  BY <1>2, <1>6, <1>7, <1>8, Zenon
<1> QED BY <1>1, <1>9 DEF c, e, bd, be, d

LEMMA PlainContent ==
  ASSUME NEW vs, NEW ws, SameContent(vs, ws), NEW d \in Streams, NEW bd, NEW s
  PROVE  PlainView(vs[d].cells, bd, s) = PlainView(ws[d].cells, bd, s)
<1>1. \A i \in Size : vs[d].cells.pos[i] = ws[d].cells.pos[i] /\ vs[d].cells.seq[i] = ws[d].cells.seq[i]
  BY DEF SameContent
<1> DEFINE c == vs[d].cells
           e == ws[d].cells
<1>2. \A i \in Size : c.pos[i] = e.pos[i] /\ c.seq[i] = e.seq[i]
  BY <1>1
<1> HIDE DEF c, e
<1>3. PlainView(c, bd, s) = PlainView(e, bd, s)
  BY <1>2, PlainSame
<1> QED BY <1>3 DEF c, e

\* The entries of s from the places x up to the places y.
Fresh(Y, s) == {[pos |-> p, of |-> s] : p \in Y}
Grown(x, y, s) == Fresh(x[s] .. y[s] - 1, s)

\* Each token is computed into its cell.
Carries(e, be, tokens, idxs) ==
  \A k \in DOMAIN idxs : /\ e.pos[idxs[k]] = tokens[k].pos
                         /\ be[idxs[k]] = [of |-> tokens[k].seq, rot |-> tokens[k].pos]

LEMMA BroughtIs ==
  ASSUME NEW e, NEW be, NEW tokens, NEW idxs, DOMAIN idxs = DOMAIN tokens, NEW s, NEW Y, Brings(tokens, s, Y),
         Carries(e, be, tokens, idxs)
  PROVE  Brought(e, be, tokens, idxs, s) = Fresh(Y, s)
<1>1. ASSUME NEW k \in DOMAIN idxs PROVE Plain(e, be, idxs[k]) = [pos |-> tokens[k].pos, of |-> tokens[k].seq]
  <2> DEFINE i == idxs[k]
  <2>1. e.pos[i] = tokens[k].pos /\ be[i] = [of |-> tokens[k].seq, rot |-> tokens[k].pos]
    BY DEF Carries
  <2> HIDE DEF i
  <2>2. be[i].rot = tokens[k].pos /\ be[i].of = tokens[k].seq
    BY <2>1
  <2>3. Plain(e, be, i) = [pos |-> tokens[k].pos, of |-> tokens[k].seq]
    BY <2>1, <2>2 DEF Plain
  <2> QED BY <2>3 DEF i
<1>2. \A x : x \in Brought(e, be, tokens, idxs, s) <=> \E k \in DOMAIN tokens : tokens[k].seq = s /\ x = Plain(e, be, idxs[k])
  BY DEF Brought
<1>3. \A x : x \in Fresh(Y, s) <=> \E p \in Y : x = [pos |-> p, of |-> s]
  BY DEF Fresh
<1>4. \A k \in DOMAIN tokens : tokens[k].seq = s => tokens[k].pos \in Y
  BY DEF Brings
<1>5. \A p \in Y : \E k \in DOMAIN tokens : tokens[k].seq = s /\ tokens[k].pos = p
  BY DEF Brings
<1>6. ASSUME NEW x \in Fresh(Y, s) PROVE x \in Brought(e, be, tokens, idxs, s)
  <2>1. PICK p \in Y : x = [pos |-> p, of |-> s]
    BY <1>3
  <2>2. PICK k \in DOMAIN tokens : tokens[k].seq = s /\ tokens[k].pos = p
    BY <1>5
  <2>3. x = Plain(e, be, idxs[k])
    BY <1>1, <2>1, <2>2
  <2> QED BY <1>2, <2>2, <2>3
<1>7. ASSUME NEW x \in Brought(e, be, tokens, idxs, s) PROVE x \in Fresh(Y, s)
  <2>1. PICK k \in DOMAIN tokens : tokens[k].seq = s /\ x = Plain(e, be, idxs[k])
    BY <1>2
  <2>2. x = [pos |-> tokens[k].pos, of |-> s]
    BY <1>1, <2>1
  <2> QED BY <1>3, <1>4, <2>1, <2>2
<1> QED BY <1>6, <1>7

LEMMA WriteAt ==
  ASSUME NEW b \in Buffers, NEW ub \in Ubatch, NEW slot \in SlotMaps, NEW d \in Streams, Distinct(slot[d])
  PROVE  /\ \A k \in DOMAIN slot[d] : Write(b, ub, slot)[d][slot[d][k]] = [of |-> ub[d][k].seq, rot |-> ub[d][k].pos]
         /\ \A i \in Size : i \notin ToSet(slot[d]) => Write(b, ub, slot)[d][i] = b[d][i]
<1> DEFINE f == slot[d]
           at(i) == CHOOSE y \in DOMAIN f : f[y] = i
           W == Write(b, ub, slot)[d]
<1>1. f \in Seq(Size)
  BY DEF SlotMaps
<1>2. \A k \in DOMAIN f : f[k] \in ToSet(f) /\ f[k] \in Size
  BY <1>1, ElementOfSeq, LenProperties DEF ToSet
<1>3. \A i \in ToSet(f) : at(i) \in DOMAIN f /\ f[at(i)] = i
  BY DEF ToSet
<1>4. \A j, k \in DOMAIN f : f[j] = f[k] => j = k
  BY DEF Distinct
<1>5. \A i \in Size : W[i] = IF i \in ToSet(f) THEN [of |-> ub[d][at(i)].seq, rot |-> ub[d][at(i)].pos] ELSE b[d][i]
  BY DEF Write
<1> HIDE DEF at, f, W
<1>6. \A k \in DOMAIN f : at(f[k]) = k
  BY <1>2, <1>3, <1>4
<1>7. \A k \in DOMAIN f : W[f[k]] = [of |-> ub[d][k].seq, rot |-> ub[d][k].pos]
  BY <1>2, <1>5, <1>6
<1>8. \A i \in Size : i \notin ToSet(f) => W[i] = b[d][i]
  BY <1>5, Zenon
<1> QED BY <1>7, <1>8 DEF f, W

\* One ubatch, that goes from the places x to the places y.
Steps(vs, ws, ub, slot, x, y) ==
  /\ ub \in Ubatch /\ slot \in SlotMaps /\ Fills(slot, ub) /\ FreeSlot(vs, slot) /\ AllFilled(vs, ws, ub, slot)
  /\ x \in Amounts /\ y \in Amounts /\ IsCut(x, y, ub) /\ RunsTo(vs, x)

LEMMA StepFacts ==
  ASSUME layout \in Layouts, NEW vs, NEW ws, NEW ub, NEW slot, NEW x, NEW y, Steps(vs, ws, ub, slot, x, y), NEW s \in Seqs
  PROVE  LET d == stream(s)
         IN /\ d \in Streams /\ x[s] \in Nat /\ y[s] \in Nat /\ x[s] <= y[s]
            /\ Brings(ub[d], s, x[s] .. y[s] - 1)
            /\ Holds(vs[d].cells, s, 0 .. x[s] - 1)
            /\ DOMAIN slot[d] = DOMAIN ub[d] /\ slot[d] \in Seq(Size) /\ Distinct(slot[d])
            /\ ToSet(slot[d]) \subseteq FreeCells(vs[d].cells)
            /\ Filled(vs[d].cells, ws[d].cells, ub[d], slot[d], DOMAIN slot[d])
<1> DEFINE d == stream(s)
<1>0. /\ ub \in Ubatch /\ slot \in SlotMaps /\ Fills(slot, ub) /\ FreeSlot(vs, slot) /\ AllFilled(vs, ws, ub, slot)
      /\ x \in Amounts /\ y \in Amounts /\ IsCut(x, y, ub) /\ RunsTo(vs, x)
  BY DEF Steps
<1>1. PICK m \in Amounts : InBounds(x, m) /\ y = Onward(x, m) /\ ub = [b \in Streams |-> TokensOf(x, m, b)]
  BY <1>0 DEF IsCut
<1>2. d \in Streams /\ x[s] \in Nat /\ m[s] \in Nat /\ y[s] = x[s] + m[s]
  BY <1>0, <1>1, LayoutFacts DEF Amounts, Onward
<1>3. Brings(ub[d], s, x[s] .. x[s] + m[s] - 1)
  BY <1>0, <1>1, <1>2, SegmentBrings
<1>4. x[s] .. x[s] + m[s] - 1 = x[s] .. y[s] - 1
  BY <1>2
<1>5. Brings(ub[d], s, x[s] .. y[s] - 1)
  BY <1>3, <1>4
<1>6. Holds(vs[d].cells, s, 0 .. x[s] - 1)
  BY <1>0 DEF RunsTo, Run
<1>7. slot[d] \in Seq(Size) /\ ub[d] \in Seq(Token) /\ Len(slot[d]) = Len(ub[d])
  BY <1>0, <1>2 DEF SlotMaps, Ubatch, Fills
<1>8. DOMAIN slot[d] = DOMAIN ub[d]
  BY <1>7, LenProperties
<1>9. /\ Filled(vs[d].cells, ws[d].cells, ub[d], slot[d], DOMAIN slot[d]) /\ Distinct(slot[d])
      /\ ToSet(slot[d]) \subseteq FreeCells(vs[d].cells)
  BY <1>0, <1>2 DEF AllFilled, FreeSlot
<1>10. y[s] \in Nat /\ x[s] <= y[s]
  BY <1>2
<1> HIDE DEF d
<1>11. /\ d \in Streams /\ x[s] \in Nat
  BY <1>2
<1> QED BY <1>5, <1>6, <1>7, <1>8, <1>9, <1>10, <1>11 DEF d

LEMMA StepPlacing ==
  ASSUME layout \in Layouts, NEW vs, NEW ws, NEW ub, NEW slot, NEW x, NEW y, Steps(vs, ws, ub, slot, x, y),
         NEW s \in Seqs, NEW bd, NEW be, \A i \in Size : i \notin ToSet(slot[stream(s)]) => be[i] = bd[i]
  PROVE  PlainView(ws[stream(s)].cells, be, s) =
           PlainView(vs[stream(s)].cells, bd, s) \cup Brought(ws[stream(s)].cells, be, ub[stream(s)], slot[stream(s)], s)
<1> DEFINE d == stream(s)
           X == 0 .. x[s] - 1
           c == vs[d].cells
           e == ws[d].cells
           f == slot[d]
           g == ub[d]
<1>1. /\ x[s] \in Nat /\ Holds(c, s, X) /\ DOMAIN f = DOMAIN g /\ f \in Seq(Size) /\ Distinct(f)
      /\ ToSet(f) \subseteq FreeCells(c) /\ Filled(c, e, g, f, DOMAIN f)
  BY StepFacts
<1>2. X \in SUBSET Nat
  BY <1>1
<1> HIDE DEF c, e, f, g, X
<1>3. Placing(c, bd, e, be, g, f)
  BY <1>1 DEF Placing, f
<1>4. PlainView(e, be, s) = PlainView(c, bd, s) \cup Brought(e, be, g, f, s)
  BY <1>1, <1>2, <1>3, PlacingView
<1> QED BY <1>4 DEF c, e, f, g

\* The ubatch adds its tokens, computed where they belong.
LEMMA StepView ==
  ASSUME layout \in Layouts, NEW vs, NEW ws, NEW ub, NEW slot, NEW x, NEW y, Steps(vs, ws, ub, slot, x, y),
         NEW s \in Seqs, NEW b \in Buffers
  PROVE  PlainView(ws[stream(s)].cells, Write(b, ub, slot)[stream(s)], s) =
           PlainView(vs[stream(s)].cells, b[stream(s)], s) \cup Grown(x, y, s)
<1> DEFINE d == stream(s)
           e == ws[d].cells
           be == Write(b, ub, slot)[d]
           Y == x[s] .. y[s] - 1
<1>1. /\ d \in Streams /\ Brings(ub[d], s, Y) /\ DOMAIN slot[d] = DOMAIN ub[d] /\ Distinct(slot[d])
      /\ Filled(vs[d].cells, e, ub[d], slot[d], DOMAIN slot[d])
  BY StepFacts
<1>2. ub \in Ubatch /\ slot \in SlotMaps
  BY DEF Steps
<1> HIDE DEF Y
<1>3. /\ \A k \in DOMAIN slot[d] : be[slot[d][k]] = [of |-> ub[d][k].seq, rot |-> ub[d][k].pos]
      /\ \A i \in Size : i \notin ToSet(slot[d]) => be[i] = b[d][i]
  BY <1>1, <1>2, WriteAt
<1> HIDE DEF be
<1>4. PlainView(e, be, s) = PlainView(vs[d].cells, b[d], s) \cup Brought(e, be, ub[d], slot[d], s)
  BY <1>3, StepPlacing
<1>5. \A k \in DOMAIN slot[d] : /\ e.pos[slot[d][k]] = ub[d][k].pos
                                /\ be[slot[d][k]] = [of |-> ub[d][k].seq, rot |-> ub[d][k].pos]
  BY <1>1, <1>3 DEF Filled
<1> HIDE DEF e
<1>6. Brought(e, be, ub[d], slot[d], s) = Fresh(Y, s)
  <2> DEFINE f == slot[d]
             g == ub[d]
  <2>1. DOMAIN f = DOMAIN g /\ Brings(g, s, Y)
    BY <1>1
  <2>2. \A k \in DOMAIN f : e.pos[f[k]] = g[k].pos /\ be[f[k]] = [of |-> g[k].seq, rot |-> g[k].pos]
    BY <1>5
  <2> HIDE DEF f, g
  <2>3. Carries(e, be, g, f)
    BY <2>2 DEF Carries
  <2>4. Brought(e, be, g, f, s) = Fresh(Y, s)
    BY <2>1, <2>3, BroughtIs
  <2> QED BY <2>4 DEF f, g
<1>7. Grown(x, y, s) = Fresh(Y, s)
  BY DEF Grown, Y
<1> QED BY <1>4, <1>6, <1>7 DEF e, be

\* Without its computation it adds nothing that lies before it.
LEMMA StepUnwritten ==
  ASSUME layout \in Layouts, NEW vs, NEW ws, NEW ub, NEW slot, NEW x, NEW y, Steps(vs, ws, ub, slot, x, y),
         NEW s \in Seqs, NEW b
  PROVE  LET V == PlainView(ws[stream(s)].cells, b[stream(s)], s)
         IN /\ \A z \in V : z.pos < y[s]
            /\ {z \in V : z.pos < x[s]} = PlainView(vs[stream(s)].cells, b[stream(s)], s)
<1> DEFINE d == stream(s)
           c == vs[d].cells
           e == ws[d].cells
           f == slot[d]
           g == ub[d]
           bd == b[d]
           m == x[s]
           n == y[s]
           A == PlainView(c, bd, s)
           B == Brought(e, bd, g, f, s)
<1>1. /\ m \in Nat /\ n \in Nat /\ m <= n /\ Holds(c, s, 0 .. m - 1) /\ DOMAIN f = DOMAIN g
      /\ Brings(g, s, m .. n - 1) /\ Filled(c, e, g, f, DOMAIN f)
  BY StepFacts
<1>2. PlainView(e, bd, s) = A \cup B
  BY StepPlacing
<1> HIDE DEF c, e, f, g, bd, m, n
<1>3. \A z \in A : z.pos \in Int /\ z.pos < m
  <2>1. \A z \in A : \E i \in Size : s \in c.seq[i] /\ z = Plain(c, bd, i)
    BY PlainIn
  <2>2. \A i : Plain(c, bd, i).pos = c.pos[i]
    BY DEF Plain
  <2>3. \A i \in Size : s \in c.seq[i] => c.pos[i] \in 0 .. m - 1
    BY <1>1 DEF Holds
  <2> HIDE DEF A
  <2>4. \A z \in A : z.pos \in 0 .. m - 1
    BY <2>1, <2>2, <2>3
  <2> QED BY <1>1, <2>4
<1>4. \A z \in B : z.pos \in Int /\ m <= z.pos /\ z.pos < n
  <2>1. \A z \in B : \E k \in DOMAIN f : g[k].seq = s /\ z = Plain(e, bd, f[k])
    BY DEF Brought
  <2>2. \A i : Plain(e, bd, i).pos = e.pos[i]
    BY DEF Plain
  <2>3. \A k \in DOMAIN f : e.pos[f[k]] = g[k].pos
    BY <1>1 DEF Filled
  <2>4. \A k \in DOMAIN f : g[k].seq = s => g[k].pos \in m .. n - 1
    BY <1>1 DEF Brings
  <2> HIDE DEF B
  <2>5. \A z \in B : z.pos \in m .. n - 1
    BY <2>1, <2>2, <2>3, <2>4
  <2> QED BY <1>1, <2>5
<1> HIDE DEF A, B
<1>5. \A z \in A \cup B : z.pos < n
  BY <1>1, <1>3, <1>4
<1>6. {z \in A \cup B : z.pos < m} = A
  BY <1>1, <1>3, <1>4
<1> QED BY <1>2, <1>5, <1>6 DEF A, c, e, bd, m, n

LEMMA GrownNone == \A x, s : x[s] \in Nat => Grown(x, x, s) = {}
<1> SUFFICES ASSUME NEW x, NEW s, x[s] \in Nat PROVE Grown(x, x, s) = {}
  OBVIOUS
<1>1. x[s] .. x[s] - 1 = {}
  OBVIOUS
<1> QED BY <1>1 DEF Grown, Fresh

LEMMA GrownOn ==
  ASSUME NEW x, NEW y, NEW z, NEW s, x[s] \in Nat, y[s] \in Nat, z[s] \in Nat, x[s] <= y[s], y[s] <= z[s]
  PROVE  Grown(x, y, s) \cup Grown(y, z, s) = Grown(x, z, s)
<1> DEFINE A == x[s] .. y[s] - 1
           B == y[s] .. z[s] - 1
           C == x[s] .. z[s] - 1
<1>1. C = A \cup B
  OBVIOUS
<1> HIDE DEF A, B, C
<1>2. Fresh(A, s) \cup Fresh(B, s) = Fresh(C, s)
  BY <1>1 DEF Fresh
<1> QED BY <1>2 DEF Grown, A, B, C

\* The ubatches of a batch, one after the other.
LEMMA LeadsSteps ==
  ASSUME layout \in Layouts, NEW ubs \in Seq(Ubatch), NEW slots \in Seq(SlotMaps), Fitting(ubs, slots),
         NEW k \in Nat, k <= Len(slots), NEW w, Leads(w, ubs, slots, k),
         NEW nx, NEW first, NEW n, Plans(nx, ubs, first, n), RunsTo(w[0], first)
  PROVE  \A j \in 1..k : Steps(w[j - 1], w[j], ubs[j], slots[j], nx[j - 1], nx[j])
<1>1. Len(ubs) \in Nat /\ Len(slots) \in Nat /\ k <= Len(ubs)
  <2>1. Len(ubs) \in Nat /\ Len(slots) \in Nat /\ Len(slots) <= Len(ubs)
    BY LenProperties DEF Fitting
  <2> QED BY <2>1
<1>2. \A j \in 0..k : RunsTo(w[j], nx[j])
  BY LeadsRuns
<1> SUFFICES ASSUME NEW j \in 1..k PROVE Steps(w[j - 1], w[j], ubs[j], slots[j], nx[j - 1], nx[j])
  OBVIOUS
<1>3. j \in 1..Len(ubs) /\ j \in 1..Len(slots) /\ j - 1 \in 0..Len(ubs) /\ j \in 0..Len(ubs) /\ j - 1 \in 0..k
  BY <1>1
<1>4. ubs[j] \in Ubatch /\ slots[j] \in SlotMaps /\ Fills(slots[j], ubs[j])
  BY <1>3, ElementOfSeq DEF Fitting
<1>5. FreeSlot(w[j - 1], slots[j]) /\ AllFilled(w[j - 1], w[j], ubs[j], slots[j])
  BY DEF Leads
<1>6. nx[j - 1] \in Amounts /\ nx[j] \in Amounts /\ IsCut(nx[j - 1], nx[j], ubs[j])
  BY <1>3, Zenon DEF Plans
<1> QED BY <1>2, <1>3, <1>4, <1>5, <1>6 DEF Steps

\* What the sequences hold after j ubatches.
ViewOf(vs, b, s) == PlainView(vs[stream(s)].cells, b[stream(s)], s)
Along(w, g, nx, j) ==
  \A s \in Seqs : /\ nx[j][s] \in Nat /\ nx[0][s] <= nx[j][s]
                  /\ ViewOf(w[j], g[j], s) = ViewOf(w[0], g[0], s) \cup Grown(nx[0], nx[j], s)

LEMMA StepAlong ==
  ASSUME layout \in Layouts, NEW w, NEW g, NEW nx, NEW j \in Nat \ {0}, NEW ub, NEW slot, nx[0] \in Amounts,
         Steps(w[j - 1], w[j], ub, slot, nx[j - 1], nx[j]), g[j - 1] \in Buffers, g[j] = Write(g[j - 1], ub, slot),
         Along(w, g, nx, j - 1)
  PROVE  Along(w, g, nx, j)
<1> DEFINE vs == w[j - 1]
           ws == w[j]
           x == nx[j - 1]
           y == nx[j]
           b == g[j - 1]
           first == nx[0]
<1>1. Steps(vs, ws, ub, slot, x, y) /\ b \in Buffers /\ g[j] = Write(b, ub, slot)
  OBVIOUS
<1>2. \A s \in Seqs : /\ x[s] \in Nat /\ first[s] <= x[s]
                      /\ ViewOf(vs, b, s) = ViewOf(w[0], g[0], s) \cup Grown(first, x, s)
  BY DEF Along
<1> SUFFICES ASSUME NEW s \in Seqs
             PROVE  /\ y[s] \in Nat /\ first[s] <= y[s]
                    /\ ViewOf(ws, g[j], s) = ViewOf(w[0], g[0], s) \cup Grown(first, y, s)
  BY DEF Along
<1>3. first[s] \in Nat
  BY DEF Amounts
<1> HIDE DEF vs, ws, x, y, b, first
<1>4. x[s] \in Nat /\ y[s] \in Nat /\ x[s] <= y[s]
  BY <1>1, StepFacts
<1>5. ViewOf(ws, g[j], s) = ViewOf(vs, b, s) \cup Grown(x, y, s)
  BY <1>1, StepView DEF ViewOf
<1>6. Grown(first, x, s) \cup Grown(x, y, s) = Grown(first, y, s)
  BY <1>2, <1>3, <1>4, GrownOn
<1>7. first[s] <= y[s]
  BY <1>2, <1>3, <1>4
<1> QED BY <1>2, <1>4, <1>5, <1>6, <1>7

LEMMA LeadsView ==
  ASSUME layout \in Layouts, NEW ubs \in Seq(Ubatch), NEW slots \in Seq(SlotMaps), Fitting(ubs, slots),
         NEW k \in Nat, k <= Len(slots), NEW w, Leads(w, ubs, slots, k), NEW b, NEW g, Writes(g, b, ubs, slots, k),
         NEW nx, NEW first, NEW n, Plans(nx, ubs, first, n), RunsTo(w[0], first)
  PROVE  \A j \in 0..k : Along(w, g, nx, j)
<1> DEFINE f == [j \in 0..k |-> j]
           P == [j \in 0..k |-> {i \in 0..k : Along(w, g, nx, i)}]
<1>1. nx[0] \in Amounts
  <2>1. 0 \in 0..Len(ubs)
    BY LenProperties
  <2> QED BY <2>1 DEF Plans
<1>2. Along(w, g, nx, 0)
  <2> SUFFICES ASSUME NEW s \in Seqs
               PROVE  /\ nx[0][s] \in Nat /\ nx[0][s] <= nx[0][s]
                      /\ ViewOf(w[0], g[0], s) = ViewOf(w[0], g[0], s) \cup Grown(nx[0], nx[0], s)
    BY DEF Along
  <2>1. nx[0][s] \in Nat
    BY <1>1 DEF Amounts
  <2>2. Grown(nx[0], nx[0], s) = {}
    BY <2>1, GrownNone
  <2> QED BY <2>1, <2>2
<1>3. ASSUME NEW j \in 1..k, Along(w, g, nx, j - 1) PROVE Along(w, g, nx, j)
  <2>1. Steps(w[j - 1], w[j], ubs[j], slots[j], nx[j - 1], nx[j])
    BY LeadsSteps
  <2>2. g[j - 1] \in Buffers /\ g[j] = Write(g[j - 1], ubs[j], slots[j])
    BY DEF Writes
  <2>3. j \in Nat \ {0}
    OBVIOUS
  <2> QED BY <1>1, <1>3, <2>1, <2>2, <2>3, StepAlong, Zenon
<1>4. KeepsIn(k, P, f)
  <2>1. 0 \in 0..k /\ \A j \in 1..k : j \in 0..k /\ j - 1 \in 0..k
    OBVIOUS
  <2> QED BY <1>2, <1>3, <2>1, Zenon DEF KeepsIn
<1>5. \A j \in 0..k : f[j] \in P[j]
  <2> HIDE DEF f, P
  <2> QED BY <1>4, StepsKeep
<1> QED BY <1>5

-----------------------------------------------------------------------------
(* What is left after a failure.                                           *)

\* The ubatch goes, for each sequence, from the place x to the place y, and
\* nothing is held from y on.
CutOff(V, ub, x, y) ==
  \A s \in Seqs : /\ x[s] \in Nat /\ y[s] \in Nat /\ Brings(ub[stream(s)], s, x[s] .. y[s] - 1)
                  /\ \A z \in V[s] : z.pos \in Nat /\ z.pos < y[s]
EntriesBelow(V, x) == {z \in V : z.pos < x}

LosesOne(u, b, ub, s, x, W) ==
  /\ DropOne(ub, s, u) \in Caches
  /\ Views(DropOne(ub, s, u), b) = [Views(u, b) EXCEPT ![s] = EntriesBelow(W[s], x[s])]

LEMMA DropOneViews ==
  ASSUME layout \in Layouts, NEW u \in Caches, NEW b, NEW ub \in Ubatch, NEW s \in Seqs, NEW x, NEW y, NEW W,
         CutOff(W, ub, x, y), Views(u, b)[s] = W[s]
  PROVE  LosesOne(u, b, ub, s, x, W)
<1> DEFINE d == stream(s)
           from == {z.pos : z \in {z \in ToSet(ub[d]) : z.seq = s}}
           Y == x[s] .. y[s] - 1
           p == Min(from)
           t == SeqRm(u[d], s, p, MaxPos + 1)
           m == x[s]
           n == y[s]
           V == W[s]
<1>1. d \in Streams /\ u[d] \in TStream
  BY LayoutFacts DEF Caches
<1>2. m \in Nat /\ n \in Nat /\ Brings(ub[d], s, Y) /\ \A z \in V : z.pos \in Nat /\ z.pos < n
  BY DEF CutOff
<1>3. from = Y
  <2>1. \A z \in ToSet(ub[d]) : \E k \in DOMAIN ub[d] : ub[d][k] = z
    BY DEF ToSet
  <2>2. \A k \in DOMAIN ub[d] : ub[d][k] \in ToSet(ub[d])
    BY DEF ToSet
  <2> HIDE DEF Y
  <2>3. \A q \in from : q \in Y
    BY <1>2, <2>1 DEF Brings
  <2>4. \A q \in Y : q \in from
    BY <1>2, <2>2 DEF Brings
  <2> QED BY <2>3, <2>4
<1>4. DropOne(ub, s, u) = IF from = {} THEN u ELSE [u EXCEPT ![d] = t]
  BY DEF DropOne
<1>5. V = View(u[d].cells, b[d], s) /\ Views(u, b) = [Views(u, b) EXCEPT ![s] = V]
  BY DEF Views
<1> HIDE DEF from, V
<1>6. CASE from = {}
  <2>1. n <= m
    BY <1>2, <1>3, <1>6
  <2>2. EntriesBelow(V, m) = V
    BY <1>2, <2>1 DEF EntriesBelow
  <2> QED BY <1>4, <1>5, <1>6, <2>2 DEF V, LosesOne
<1>7. CASE from # {}
  <2>1. p = m
    <3>1. from \in SUBSET Nat /\ m \in from /\ \A q \in from : m <= q
      BY <1>2, <1>3, <1>7
    <3>2. p \in from /\ \A q \in from : p <= q
      BY <3>1, MinNat
    <3> HIDE DEF m, p
    <3> QED BY <3>1, <3>2
  <2> HIDE DEF p, t, m
  <2>2. /\ t \in TStream /\ KeepsOthers(u[d].cells, t.cells, b[d], s)
        /\ View(t.cells, b[d], s) = {z \in View(u[d].cells, b[d], s) : ~(p <= z.pos)}
    BY <1>1, RmView, Zenon DEF t
  <2>3. View(t.cells, b[d], s) = EntriesBelow(V, m)
    <3>1. \A z \in V : ~(m <= z.pos) <=> z.pos < m
      BY <1>2
    <3> QED BY <1>5, <2>1, <2>2, <3>1 DEF EntriesBelow
  <2>4. Views([u EXCEPT ![d] = t], b) = [Views(u, b) EXCEPT ![s] = EntriesBelow(V, m)]
    BY <2>2, <2>3, StreamViews
  <2>5. [u EXCEPT ![d] = t] \in Caches
    BY <1>1, <2>2 DEF Caches
  <2> QED BY <1>4, <1>7, <2>4, <2>5 DEF V, m, LosesOne
<1> QED BY <1>6, <1>7

\* Every sequence is cut at its place.
Kept(W, x, u) == [s \in Seqs |-> IF s \in u THEN EntriesBelow(W[s], x[s]) ELSE W[s]]

LEMMA DropAllViews ==
  ASSUME layout \in Layouts, NEW vs \in Caches, NEW b, NEW ub \in Ubatch, NEW x, NEW y, CutOff(Views(vs, b), ub, x, y)
  PROVE  /\ DropAll(vs, ub) \in Caches
         /\ Views(DropAll(vs, ub), b) = [s \in Seqs |-> EntriesBelow(Views(vs, b)[s], x[s])]
<1> DEFINE pick(u) == CHOOSE z \in u : TRUE
           S == Seqs
           base == vs
           W == Views(vs, b)
           does(i, z) == DropOne(ub, i, z)
           ch == [u \in SUBSET S |-> pick(u)]
           P == [u \in SUBSET S |-> {e \in Caches : Views(e, b) = Kept(W, x, u)}]
           step == [z \in S \X Caches |-> does(z[1], z[2])]
           value(u, f) == IF u = {} THEN base ELSE does(pick(u), f[u \ {pick(u)}])
           Solves(f) == f = [u \in SUBSET S |-> value(u, f)]
           iter == CHOOSE f : Solves(f)
<1>1. DropAll(vs, ub) = iter[S]
  BY DEF DropAll, FoldSet, MapThenFoldSet
<1>2. IsFiniteSet(S) /\ \A u \in SUBSET S : u # {} => pick(u) \in u
  BY LayoutFacts, FS_Subset
<1>3. base \in P[{}]
  <2>1. W = Kept(W, x, {})
    BY DEF Views, Kept
  <2> HIDE DEF W
  <2>2. Views(base, b) = W
    BY DEF W
  <2> QED BY <2>1, <2>2
<1>4. ASSUME NEW u \in SUBSET S, u # {}, NEW z \in P[u \ {pick(u)}]
      PROVE  does(pick(u), z) \in P[u] /\ pick(u) \in S /\ z \in Caches
  <2> DEFINE i == pick(u)
             e == does(i, z)
             u0 == u \ {i}
  <2>1. i \in u /\ i \in S /\ u \in SUBSET S /\ u0 \in SUBSET S
    BY <1>2, <1>4
  <2>2. z \in Caches /\ Views(z, b) = Kept(W, x, u0)
    BY <2>1
  <2> HIDE DEF i, P, ch, pick, W
  <2>3. i \in Seqs /\ i \notin u0 /\ CutOff(W, ub, x, y)
    BY <2>1 DEF S, W
  <2>4. Views(z, b)[i] = W[i]
    BY <2>2, <2>3 DEF Kept
  <2>5. e \in Caches /\ Views(e, b) = [Views(z, b) EXCEPT ![i] = EntriesBelow(W[i], x[i])]
    <3>1. LosesOne(z, b, ub, i, x, W)
      <4> HIDE DEF does
      <4> QED BY <2>2, <2>3, <2>4, DropOneViews
    <3> QED BY <3>1 DEF LosesOne
  <2>6. [Kept(W, x, u0) EXCEPT ![i] = EntriesBelow(W[i], x[i])] = Kept(W, x, u)
    <3>1. \A s \in Seqs : s \in u <=> s = i \/ s \in u0
      BY <2>1
    <3> HIDE DEF u0
    <3> QED BY <2>3, <3>1, Zenon DEF Kept
  <2> HIDE DEF e
  <2> QED BY <2>1, <2>2, <2>5, <2>6, Zenon DEF P, i, e
<1> HIDE DEF pick, does, P, S, base
<1>5. \E f : Solves(f)
  <2>1. FoldsIn(S, ch, P, base, step)
    BY <1>2, <1>3, <1>4, Zenon DEF FoldsIn
  <2>2. PICK f : TakesFold(S, ch, P, base, step, f)
    BY <2>1, FoldExists
  <2>3. ASSUME NEW u \in SUBSET S PROVE f[u] = value(u, f)
    BY <1>4, <2>2, Zenon DEF TakesFold
  <2>4. f = [u \in SUBSET S |-> f[u]]
    BY <2>2 DEF TakesFold
  <2> HIDE DEF value
  <2> QED BY <2>3, <2>4, Zenon
<1>6. iter[S] \in P[S]
  <2>1. Solves(iter)
    <3> HIDE DEF Solves
    <3> QED BY <1>5
  <2> HIDE DEF iter
  <2>2. \A u \in SUBSET S : iter[u] = value(u, iter)
    <3> HIDE DEF value
    <3> QED BY <2>1
  <2>3. KeepsFold(S, ch, P, iter)
    BY <1>2, <1>3, <1>4, <2>2, Zenon DEF KeepsFold
  <2> QED BY <2>3, FoldKeeps
<1>7. iter[S] \in Caches /\ Views(iter[S], b) = Kept(W, x, S)
  <2> HIDE DEF iter
  <2> QED BY <1>6 DEF P
<1>8. Kept(W, x, S) = [s \in Seqs |-> EntriesBelow(W[s], x[s])]
  BY DEF Kept, S
<1> QED BY <1>1, <1>7, <1>8 DEF W

-----------------------------------------------------------------------------
(* What a batch makes of the content.                                      *)

LEMMA StillViews ==
  ASSUME layout \in Layouts, NEW vs \in Stills, NEW b \in Buffers
  PROVE  Views(vs, b) = [s \in Seqs |-> ViewOf(vs, b, s)]
<1>1. ASSUME NEW s \in Seqs PROVE View(vs[stream(s)].cells, b[stream(s)], s) = ViewOf(vs, b, s)
  <2>1. stream(s) \in Streams
    BY LayoutFacts
  <2>2. b[stream(s)] \in [Size -> Data] /\ Still(vs[stream(s)].cells)
    BY <2>1 DEF Stills, Still1, Buffers
  <2> QED BY <2>2, PlainIs DEF ViewOf
<1> QED BY <1>1 DEF Views

LEMMA ViewOfSame ==
  ASSUME layout \in Layouts, NEW vs, NEW ws, SameContent(vs, ws), NEW b, NEW s \in Seqs
  PROVE  ViewOf(vs, b, s) = ViewOf(ws, b, s)
<1>1. stream(s) \in Streams
  BY LayoutFacts
<1> QED BY <1>1, PlainContent DEF ViewOf

\* The sequences have grown up to the places y.
GrownTo(y, n) ==
  /\ y \in Amounts
  /\ \A s \in Seqs : First[s] \in Nat /\ First[s] <= y[s] /\ y[s] <= First[s] + n[s]
Longer(y) == [s \in Seqs |-> Content[s] \cup Grown(First, y, s)]

LEMMA StartViews ==
  ASSUME Windowless
  PROVE  \A s \in Seqs : ViewOf(UpdatedV, UpdatedBuf, s) = Content[s]
BY UpdatedView DEF Windowless, ViewOf

\* After k ubatches.
LEMMA LedViews ==
  ASSUME Windowless, NEW ubs, NEW p, NEW nx, NEW w, NEW n, Decoding(ubs, p, nx, w, n),
         NEW k \in 0..Len(ubs), k <= Len(p.slots)
  PROVE  /\ GrownTo(nx[k], n) /\ Computed(UpdatedBuf, ubs, p.slots, k) \in Buffers
         /\ \A s \in Seqs : ViewOf(w[k], Computed(UpdatedBuf, ubs, p.slots, k), s) = Longer(nx[k])[s]
<1>0. layout \in Layouts /\ UpdatedBuf \in Buffers
  BY SeenFacts, WindowlessFacts, UpdatedBufType DEF Windowless, TablesRooted
<1>1. /\ ubs \in Seq(Ubatch) /\ Plans(nx, ubs, First, n) /\ p.slots \in Seq(SlotMaps) /\ Fitting(ubs, p.slots)
      /\ w[0] = UpdatedV /\ Leads(w, ubs, p.slots, Len(p.slots)) /\ RunsTo(w[0], First)
  BY DEF Decoding
<1>2. k \in Nat /\ k \in 0..k /\ Len(p.slots) \in Nat
  BY <1>1, LenProperties
<1>3. Leads(w, ubs, p.slots, k)
  BY <1>1, <1>2 DEF Leads
<1>4. PICK g : /\ Writes(g, UpdatedBuf, ubs, p.slots, k) /\ g[k] \in Buffers
               /\ Computed(UpdatedBuf, ubs, p.slots, k) = g[k]
  BY <1>0, <1>1, ComputedRow
<1> HIDE DEF First
<1>5. Along(w, g, nx, k)
  BY <1>0, <1>1, <1>2, <1>3, <1>4, LeadsView
<1>6. g[0] = UpdatedBuf
  BY <1>4 DEF Writes
<1>7. nx[0] = First /\ nx[k] \in Amounts /\ \A s \in Seqs : nx[k][s] <= First[s] + n[s]
  BY <1>1 DEF Plans
<1>8. nx[0] \in Amounts
  BY <1>1, <1>2 DEF Plans
<1>9. GrownTo(nx[k], n)
  BY <1>5, <1>7, <1>8 DEF GrownTo, Along, Amounts
<1>10. \A s \in Seqs : ViewOf(w[k], g[k], s) = Content[s] \cup Grown(First, nx[k], s)
  BY <1>1, <1>5, <1>6, <1>7, StartViews DEF Along
<1> QED BY <1>4, <1>9, <1>10 DEF Longer

LEMMA LedTo ==
  ASSUME Windowless, NEW ubs, NEW p, NEW nx, NEW w, NEW n, Decoding(ubs, p, nx, w, n), p.ok, NEW k \in 0..Len(ubs)
  PROVE  /\ k <= Len(p.slots) /\ Placed(p.v, ubs, p.slots, k) \in Stills
         /\ SameContent(Placed(p.v, ubs, p.slots, k), w[k])
<1>0. layout \in Layouts
  BY WindowlessFacts
<1>1. /\ ubs \in Seq(Ubatch) /\ p.v \in Stills /\ p.slots \in Seq(SlotMaps) /\ Fitting(ubs, p.slots)
      /\ Len(p.slots) = Len(ubs) /\ SameContent(p.v, UpdatedV) /\ w[0] = UpdatedV
      /\ Leads(w, ubs, p.slots, Len(p.slots))
  BY DEF Decoding
<1>2. Len(ubs) \in Nat /\ k \in Nat /\ k <= Len(p.slots)
  BY <1>1, LenProperties
<1>3. Leads(w, ubs, p.slots, k)
  BY <1>1, <1>2 DEF Leads
<1>4. p.v \in Caches /\ Still1(p.v)
  BY <1>1 DEF Stills
<1>5. /\ Placed(p.v, ubs, p.slots, k) \in Caches /\ Still1(Placed(p.v, ubs, p.slots, k))
      /\ SameContent(Placed(p.v, ubs, p.slots, k), w[k])
  BY <1>0, <1>1, <1>2, <1>3, <1>4, PlacedKeeps
<1> QED BY <1>2, <1>5 DEF Stills

\* A call that leaves nothing due.
LEMMA PlainBecome ==
  ASSUME layout \in Layouts, layout' = layout, NEW vs \in Stills, NEW b \in Buffers, Become(vs, b, <<>>)
  PROVE  Content' = [s \in Seqs |-> ViewOf(vs, b, s)]
<1>1. vs \in Caches
  BY DEF Stills
<1>2. Content' = Views(vs, CopiedBy(<<>>, b))
  BY <1>1, NoCopies, BecomeContent, Zenon
<1> QED BY <1>2, NoCopies, StillViews

LEMMA RefusedContent ==
  ASSUME Windowless, layout' = layout, NEW ubs, NEW p, NEW nx, NEW w, NEW n, Decoding(ubs, p, nx, w, n), NoSlot(p)
  PROVE  GrownTo(nx[0], n) /\ Content' = Longer(nx[0])
<1>0. layout \in Layouts /\ UpdatedBuf \in Buffers
  BY SeenFacts, WindowlessFacts, UpdatedBufType DEF Windowless, TablesRooted
<1>1. p.v \in Stills /\ SameContent(p.v, UpdatedV) /\ ubs \in Seq(Ubatch) /\ p.slots \in Seq(SlotMaps)
  BY DEF Decoding
<1>2. 0 \in 0..Len(ubs) /\ 0 <= Len(p.slots)
  BY <1>1, LenProperties
<1>3. GrownTo(nx[0], n)
  BY <1>2, LedViews
<1>4. Become(p.v, UpdatedBuf, <<>>)
  BY DEF NoSlot
<1>5. Content' = [s \in Seqs |-> ViewOf(p.v, UpdatedBuf, s)]
  BY <1>0, <1>1, <1>4, PlainBecome
<1>6. nx[0] = First
  BY DEF Decoding, Plans
<1>7. ASSUME NEW s \in Seqs PROVE ViewOf(p.v, UpdatedBuf, s) = Content[s] \cup Grown(First, nx[0], s)
  <2>1. ViewOf(p.v, UpdatedBuf, s) = ViewOf(UpdatedV, UpdatedBuf, s)
    BY <1>0, <1>1, ViewOfSame
  <2>2. Grown(First, First, s) = {}
    BY <1>3, GrownNone DEF GrownTo
  <2> QED BY <1>6, <2>1, <2>2, StartViews
<1> QED BY <1>3, <1>5, <1>7 DEF Longer

LEMMA ComputedContent ==
  ASSUME Windowless, layout' = layout, NEW ubs, NEW p, NEW nx, NEW w, NEW n, Decoding(ubs, p, nx, w, n),
         AllComputed(ubs, p)
  PROVE  GrownTo(nx[Len(ubs)], n) /\ Content' = Longer(nx[Len(ubs)])
<1> DEFINE k == Len(ubs)
           vs == Placed(p.v, ubs, p.slots, k)
           b == Computed(UpdatedBuf, ubs, p.slots, k)
<1>0. layout \in Layouts
  BY WindowlessFacts
<1>1. p.ok /\ Become(vs, b, <<>>)
  BY DEF AllComputed
<1>2. k \in 0..Len(ubs)
  BY LenProperties DEF Decoding
<1>3. k <= Len(p.slots) /\ vs \in Stills /\ SameContent(vs, w[k])
  BY <1>1, <1>2, LedTo
<1>4. /\ GrownTo(nx[k], n) /\ b \in Buffers
      /\ \A s \in Seqs : ViewOf(w[k], b, s) = Longer(nx[k])[s]
  BY <1>2, <1>3, LedViews
<1> HIDE DEF vs, b, k
<1>5. Content' = [s \in Seqs |-> ViewOf(vs, b, s)]
  BY <1>0, <1>1, <1>3, <1>4, PlainBecome
<1>6. \A s \in Seqs : ViewOf(vs, b, s) = Longer(nx[k])[s]
  BY <1>0, <1>3, <1>4, ViewOfSame
<1> QED BY <1>4, <1>5, <1>6 DEF Longer, k

\* What failed is removed, and all before it stays.
LEMMA FailedContent ==
  ASSUME Windowless, layout' = layout, NEW ubs, NEW p, NEW nx, NEW w, NEW n, Decoding(ubs, p, nx, w, n),
         NEW k \in 1..Len(ubs), ComputeFails(ubs, p, k)
  PROVE  GrownTo(nx[k - 1], n) /\ Content' = Longer(nx[k - 1])
<1> DEFINE j == k - 1
           vs == Placed(p.v, ubs, p.slots, k)
           b == Computed(UpdatedBuf, ubs, p.slots, j)
           u == DropAll(vs, ubs[k])
           x == nx[j]
           y == nx[k]
<1>0. layout \in Layouts
  BY WindowlessFacts
<1>1. p.ok /\ Become(u, b, <<>>)
  BY DEF ComputeFails, DropAll, DropOne, FoldSet, MapThenFoldSet
<1>2. ubs \in Seq(Ubatch) /\ Len(ubs) \in Nat /\ k \in 0..Len(ubs) /\ j \in 0..Len(ubs) /\ ubs[k] \in Ubatch
  BY LenProperties, ElementOfSeq DEF Decoding
<1>3. k <= Len(p.slots) /\ vs \in Stills /\ SameContent(vs, w[k])
  BY <1>1, <1>2, LedTo
<1>4. j <= Len(p.slots)
  BY <1>1, <1>2, LedTo
<1>5. /\ GrownTo(x, n) /\ b \in Buffers
      /\ \A s \in Seqs : ViewOf(w[j], b, s) = Longer(x)[s]
  BY <1>2, <1>4, LedViews
<1>6. Steps(w[j], w[k], ubs[k], p.slots[k], x, y)
  <2>1. /\ p.slots \in Seq(SlotMaps) /\ Fitting(ubs, p.slots) /\ Leads(w, ubs, p.slots, Len(p.slots))
        /\ Plans(nx, ubs, First, n) /\ RunsTo(w[0], First)
    BY DEF Decoding
  <2>2. k \in Nat /\ k \in 1..k /\ Len(p.slots) \in Nat
    BY <2>1, LenProperties
  <2>3. Leads(w, ubs, p.slots, k)
    BY <1>3, <2>1, <2>2 DEF Leads
  <2> HIDE DEF First, x, y, j
  <2>4. \A i \in 1..k : Steps(w[i - 1], w[i], ubs[i], p.slots[i], nx[i - 1], nx[i])
    BY <1>0, <1>2, <1>3, <2>1, <2>2, <2>3, LeadsSteps
  <2> QED BY <2>2, <2>4 DEF j, x, y
<1> HIDE DEF vs, b, u, j, x, y
<1>7. Views(vs, b) = [s \in Seqs |-> ViewOf(vs, b, s)]
  BY <1>0, <1>3, <1>5, StillViews
<1>8. \A s \in Seqs : ViewOf(vs, b, s) = ViewOf(w[k], b, s)
  BY <1>0, <1>3, ViewOfSame
<1>9. ASSUME NEW s \in Seqs
      PROVE  /\ x[s] \in Nat /\ y[s] \in Nat /\ Brings(ubs[k][stream(s)], s, x[s] .. y[s] - 1)
             /\ \A z \in ViewOf(w[k], b, s) : z.pos < y[s]
             /\ EntriesBelow(ViewOf(w[k], b, s), x[s]) = ViewOf(w[j], b, s)
  <2>1. x[s] \in Nat /\ y[s] \in Nat /\ Brings(ubs[k][stream(s)], s, x[s] .. y[s] - 1)
    BY <1>0, <1>6, StepFacts
  <2>2. \A z \in ViewOf(w[k], b, s) : z.pos < y[s]
    BY <1>0, <1>6, StepUnwritten DEF ViewOf
  <2>3. EntriesBelow(ViewOf(w[k], b, s), x[s]) = ViewOf(w[j], b, s)
    BY <1>0, <1>6, StepUnwritten DEF ViewOf, EntriesBelow
  <2> QED BY <2>1, <2>2, <2>3
<1>10. ASSUME NEW s \in Seqs PROVE \A z \in ViewOf(vs, b, s) : z.pos \in Nat
  <2>1. stream(s) \in Streams
    BY <1>0, LayoutFacts
  <2>2. vs[stream(s)].cells \in Tables
    BY <1>3, <2>1 DEF Stills, Caches, TStream
  <2>3. View(vs[stream(s)].cells, b[stream(s)], s) = ViewOf(vs, b, s)
    BY <1>7 DEF Views
  <2> QED BY <1>0, <2>2, <2>3, ViewPos
<1>11. CutOff(Views(vs, b), ubs[k], x, y)
  BY <1>7, <1>8, <1>9, <1>10 DEF CutOff
<1>12. u \in Caches /\ Views(u, b) = [s \in Seqs |-> EntriesBelow(Views(vs, b)[s], x[s])]
  BY <1>0, <1>2, <1>3, <1>11, DropAllViews DEF u, Stills
<1>13. Views(u, b) = Longer(x)
  <2>1. \A s \in Seqs : EntriesBelow(Views(vs, b)[s], x[s]) = Longer(x)[s]
    BY <1>5, <1>7, <1>8, <1>9
  <2> QED BY <1>12, <2>1 DEF Longer
<1>14. Content' = Views(u, CopiedBy(<<>>, b))
  BY <1>0, <1>1, <1>5, <1>12, NoCopies, BecomeContent, Zenon
<1>15. Content' = Longer(x)
  BY <1>0, <1>5, <1>13, <1>14, NoCopies
<1> QED BY <1>5, <1>15 DEF x, j

\* A batch adds the tokens of some of its ubatches, the first ones.
LEMMA DecodeContent ==
  ASSUME Windowless, NEW n \in Batches, Decode(n)
  PROVE  \E y : GrownTo(y, n) /\ Content' = Longer(y)
<1> DEFINE ubs == Ubatches(First, n)
           p == prepare(UpdatedV, ubs)
<1>1. NoSlot(p) \/ AllComputed(ubs, p) \/ \E k \in DOMAIN ubs : ComputeFails(ubs, p, k)
  BY DEF Decode
<1>2. Fits(n) /\ layout' = layout
  BY DEF Decode
<1>3. PICK nx, w : Decoding(ubs, p, nx, w, n)
  BY <1>2, DecodingIs
<1> HIDE DEF ubs, p
<1>4. DOMAIN ubs = 1..Len(ubs)
  BY <1>3, LenProperties DEF Decoding
<1> QED BY <1>1, <1>2, <1>3, <1>4, RefusedContent, ComputedContent, FailedContent

-----------------------------------------------------------------------------
(* Every call is an operation of the store.                                *)

LEMMA NextPosIs ==
  ASSUME Windowless, NEW s \in Seqs
  PROVE  Store!Next_pos(Content[s]) = next_pos(v, s)
<1> DEFINE S == Content[s]
           m == next_pos(v, s)
           top == CHOOSE e \in S : \A x \in S : x.pos <= e.pos
<1>0. layout \in Layouts /\ TablesRooted
  BY WindowlessFacts DEF Windowless
<1>1. S = View(v[stream(s)].cells, Seen[stream(s)], s)
  BY <1>0, SeenFacts
<1>2. m \in Nat /\ Run(v[stream(s)].cells, s, m)
  BY WindowlessFacts, RunNext, NextPosType
<1>3. \A x \in S : x.pos \in 0 .. m - 1
  BY <1>1, <1>2, ViewRun DEF Run
<1>4. \A p \in 0 .. m - 1 : \E x \in S : x.pos = p
  BY <1>1, <1>2, ShownIn, ShownPos DEF Run, Holds
<1>5. Store!Next_pos(S) = IF S = {} THEN 0 ELSE top.pos + 1
  BY DEF Store!Next_pos
<1> HIDE DEF S, m
<1>6. CASE S = {}
  <2>1. ~(1 <= m)
    <3>1. 1 <= m => 0 \in 0 .. m - 1
      BY <1>2
    <3> QED BY <1>4, <1>6, <3>1
  <2> QED BY <1>2, <1>5, <1>6, <2>1 DEF S, m
<1>7. CASE S # {}
  <2>1. 1 <= m
    <3>1. 0 .. m - 1 # {}
      BY <1>3, <1>7
    <3> QED BY <1>2, <3>1
  <2>2. m - 1 \in 0 .. m - 1
    BY <1>2, <2>1
  <2>3. PICK e \in S : e.pos = m - 1
    BY <1>4, <2>2
  <2>4. \A x \in S : x.pos \in Int /\ x.pos <= m - 1
    BY <1>2, <1>3
  <2>5. \A x \in S : x.pos <= e.pos
    BY <2>3, <2>4
  <2>6. top \in S /\ \A x \in S : x.pos <= top.pos
    BY <2>5
  <2> HIDE DEF top
  <2>7. top.pos = m - 1
    <3>1. m - 1 <= top.pos /\ top.pos \in Int /\ top.pos <= m - 1
      BY <2>3, <2>4, <2>6
    <3> QED BY <1>2, <3>1
  <2>8. top.pos + 1 = m
    BY <1>2, <2>7
  <2> QED BY <1>5, <1>7, <2>8 DEF S, m
<1> QED BY <1>6, <1>7

\* Without a window nothing is lost.
LEMMA NothingLost ==
  ASSUME layout.window = 0, NEW S, NEW T
  PROVE  S = T => Store!Loses(S, T)
BY DEF Store!Loses, Store!Masked

LEMMA ContentDef == Content = [s \in Seqs |-> {EntryAt(stream(s), i) : i \in SeqCells(s)}]
BY DEF Content

LEMMA SavedStays == saved' = saved => SavedContent' = SavedContent
BY SavedNext DEF SavedContent

LEMMA ClearStores ==
  ASSUME Content' = [s \in Seqs |-> {}]
  PROVE  Store!Clear
BY DEF Store!Clear, Content

LEMMA TruncateStores ==
  ASSUME NEW s, NEW p, Content' = [Content EXCEPT ![s] = {x \in Content[s] : x.pos < p}]
  PROVE  Store!Truncate(s, p)
BY DEF Store!Truncate, Content

LEMMA CopyStores ==
  ASSUME NEW src, NEW dst, Content' = [Content EXCEPT ![dst] = Content[src]]
  PROVE  Store!Copy(src, dst)
BY DEF Store!Copy, Content

LEMMA KeepStores ==
  ASSUME NEW s, Content' = [r \in Seqs |-> IF r # s /\ layout.unified THEN {} ELSE Content[r]]
  PROVE  Store!Keep(s)
BY DEF Store!Keep, Content

LEMMA SlideStores ==
  ASSUME NEW s, NEW a, NEW b, NEW e, Content' = [Content EXCEPT ![s] = Slides(Content[s], a, b, e)]
  PROVE  Store!Slide(s, a, b, e)
BY DEF Store!Slide, Content, Slides

LEMMA SaveStores ==
  ASSUME layout.window = 0, NEW s \in Seqs, SavedContent' = Content[s], Content' = Content
  PROVE  Store!Save(s)
<1>1. Store!Recent(Content[s]) = Content[s]
  BY DEF Store!Recent, Store!Masked
<1> QED BY <1>1 DEF Store!Save, Content, SavedContent

LEMMA LoadStores ==
  ASSUME layout.window = 0, NEW s \in Seqs, SavedContent' \in {SavedContent, {}}, NEW V \in {SavedContent, {}},
         Content' = [Content EXCEPT ![s] = V]
  PROVE  Store!Load(s)
<1>1. Content'[s] = V
  BY DEF Content
<1>2. ASSUME NEW r \in Seqs \ {s} PROVE Store!Loses(Content[r], Content'[r])
  <2>1. Content'[r] = Content[r]
    BY Zenon DEF Content
  <2> QED BY <2>1, NothingLost
<1> QED BY <1>1, <1>2, Zenon DEF Store!Load, Content, SavedContent

\* The tokens of a batch that were added, counted.
LEMMA GrownIs ==
  ASSUME NEW x, NEW y, NEW s, x[s] \in Nat, y[s] \in Nat, x[s] <= y[s]
  PROVE  Grown(x, y, s) = {[pos |-> x[s] + k - 1, of |-> s] : k \in 1 .. y[s] - x[s]}
<1> DEFINE a == x[s]
           b == y[s]
           A == a .. b - 1
           C == 1 .. b - a
<1>1. a \in Nat /\ b \in Nat /\ a <= b
  OBVIOUS
<1> HIDE DEF a, b
<1>2. \A p \in A : \E k \in C : p = a + k - 1
  <2> SUFFICES ASSUME NEW p \in A PROVE \E k \in C : p = a + k - 1
    OBVIOUS
  <2>1. p - a + 1 \in C /\ p = a + (p - a + 1) - 1
    BY <1>1
  <2> QED BY <2>1, BoundAssumption
<1>3. \A k \in C : a + k - 1 \in A
  BY <1>1
<1> HIDE DEF A, C
<1>4. \A z : z \in Fresh(A, s) <=> \E p \in A : z = [pos |-> p, of |-> s]
  BY DEF Fresh
<1>5. \A z : z \in Fresh(A, s) <=> \E k \in C : z = [pos |-> a + k - 1, of |-> s]
  BY <1>2, <1>3, <1>4
<1>6. Fresh(A, s) = {[pos |-> a + k - 1, of |-> s] : k \in C}
  BY <1>5
<1> QED BY <1>6 DEF Grown, A, C, a, b

LEMMA DecodeStores ==
  ASSUME Windowless, NEW n \in Batches, NEW y, GrownTo(y, n), Content' = Longer(y)
  PROVE  \E m \in [Seqs -> 0..MaxBatch] : Store!Append(m)
<1> DEFINE m == [s \in Seqs |-> y[s] - First[s]]
<1>0. layout \in Layouts /\ layout.window = 0
  BY WindowlessFacts
<1>1. layout.batch \in Nat /\ MaxBatch \in Int /\ layout.batch <= MaxBatch
  <2>1. layout.batch \in 1..MaxBatch
    BY <1>0, LayoutAssumption
  <2> QED BY <2>1, BoundAssumption
<1>2. ASSUME NEW s \in Seqs
      PROVE  /\ First[s] \in Nat /\ y[s] \in Nat /\ First[s] <= y[s] /\ y[s] - First[s] \in 0..MaxBatch
             /\ First[s] = Store!Next_pos(Content[s])
  <2>1. First[s] \in Nat /\ y[s] \in Nat /\ First[s] <= y[s] /\ y[s] <= First[s] + n[s]
    BY DEF GrownTo, Amounts
  <2>2. n[s] \in 0..layout.batch
    BY DEF Batches
  <2>3. First[s] = Store!Next_pos(Content[s])
    BY NextPosIs DEF First
  <2> HIDE DEF First
  <2>4. y[s] - First[s] \in 0..MaxBatch
    BY <1>1, <2>1, <2>2
  <2> QED BY <2>1, <2>3, <2>4
<1> HIDE DEF First
<1>3. m \in [Seqs -> 0..MaxBatch]
  BY <1>2
<1>4. ASSUME NEW s \in Seqs
      PROVE  Store!Loses(Content[s] \cup {[pos |-> Store!Next_pos(Content[s]) + k - 1, of |-> s] : k \in 1..m[s]},
                         Content'[s])
  <2>1. Content'[s] = Content[s] \cup Grown(First, y, s)
    BY DEF Longer
  <2>2. Grown(First, y, s) = {[pos |-> First[s] + k - 1, of |-> s] : k \in 1 .. y[s] - First[s]}
    BY <1>2, GrownIs
  <2>3. m[s] = y[s] - First[s]
    OBVIOUS
  <2> HIDE DEF m
  <2>4. Content[s] \cup {[pos |-> Store!Next_pos(Content[s]) + k - 1, of |-> s] : k \in 1..m[s]} = Content'[s]
    BY <1>2, <2>1, <2>2, <2>3
  <2> QED BY <1>0, <2>4, NothingLost, Zenon
<1> HIDE DEF m
<1>5. Store!Append(m)
  BY <1>4, Zenon DEF Store!Append, Content
<1> QED BY <1>3, <1>5

\* A call is one operation of the store.
LEMMA CallStores ==
  ASSUME "shared_shift" \notin Allowed, "queued_state" \notin Allowed, Windowless, Next
  PROVE  Store!Next
<1>0. layout \in Layouts /\ layout.window = 0 /\ TablesRooted /\ layout' = layout
  BY WindowlessFacts, LayoutFixed DEF Windowless
<1> DEFINE fixed == layout'.window = layout.window /\ layout'.unified = layout.unified
           stays == SavedContent' = SavedContent
<1>1. fixed
  BY <1>0
<1>2. saved' = saved => stays
  BY SavedStays
<1>3. ASSUME fixed, stays,
             \/ Store!Clear \/ \E m \in [Seqs -> 0..MaxBatch] : Store!Append(m)
             \/ \E s \in Seqs, p \in Pos : Store!Truncate(s, p)
             \/ \E s, r \in Seqs : Store!Copy(s, r)
             \/ \E s \in Seqs : Store!Keep(s)
             \/ \E s \in Seqs : \E a, b, e \in Pos : a < b /\ b <= e /\ Store!Slide(s, a, b, e)
      PROVE  Store!Next
  BY <1>3 DEF Store!Next, SavedContent
<1>4. ASSUME fixed, NEW s \in Seqs, Store!Load(s) \/ Store!Save(s) PROVE Store!Next
  BY <1>4 DEF Store!Next
<1> HIDE DEF fixed, stays
<1>5. CASE Clear
  <2>1. Store!Clear
    BY <1>0, <1>5, ClearContent, ClearStores
  <2>2. saved' = saved
    BY <1>5 DEF Clear
  <2> QED BY <1>1, <1>2, <1>3, <2>1, <2>2
<1>6. ASSUME NEW s \in Seqs, SeqKeepOne(s) PROVE Store!Next
  <2>1. Store!Keep(s)
    BY <1>0, <1>6, SeqKeepContent, KeepStores
  <2>2. saved' = saved
    BY <1>6 DEF SeqKeepOne
  <2> QED BY <1>1, <1>2, <1>3, <2>1, <2>2
<1>7. ASSUME NEW s \in Seqs, Save(s) PROVE Store!Next
  <2>1. Store!Save(s)
    BY <1>0, <1>7, SaveContent, SaveStores
  <2> QED BY <1>1, <1>4, <2>1
<1>8. ASSUME NEW s \in Seqs, Load(s) PROVE Store!Next
  <2>1. Store!Load(s)
    BY <1>0, <1>8, LoadContent, LoadStores
  <2> QED BY <1>1, <1>4, <2>1
<1>9. ASSUME NEW s \in Seqs, NEW r \in Seqs, CopyState(s, r) PROVE Store!Next
  <2>1. Store!Copy(s, r)
    BY <1>0, <1>9, CopyStateContent, CopyStores
  <2>2. saved' = saved
    BY <1>9 DEF CopyState
  <2> QED BY <1>1, <1>2, <1>3, <2>1, <2>2
<1>10. ASSUME NEW s \in Seqs, NEW p \in Pos, Truncate(s, p) PROVE Store!Next
  <2>1. p \in Nat
    BY <1>0, LayoutFacts
  <2>2. Become([v EXCEPT ![stream(s)] = SeqRm(v[stream(s)], s, p, MaxPos + 1)], buf, sc_info) /\ saved' = saved
    BY <1>10 DEF Truncate
  <2>3. Store!Truncate(s, p)
    BY <1>0, <2>1, <2>2, TruncateContent, TruncateStores
  <2> QED BY <1>1, <1>2, <1>3, <2>2, <2>3
<1>11. ASSUME NEW s \in Seqs, NEW n_keep \in Pos, NEW n_discard \in Pos, ContextShift(s, n_keep, n_discard)
       PROVE  Store!Next
  <2> DEFINE b == n_keep + n_discard
             e == next_pos(v, s) - 1
             shifts == Content' = [Content EXCEPT ![s] = Slides(Content[s], n_keep, b, e)]
             cuts == Content' = [Content EXCEPT ![s] = {x \in Content[s] : x.pos < n_keep}]
  <2>1. saved' = saved /\ 0 < n_discard
    BY <1>11 DEF ContextShift
  <2>2. (b < next_pos(v, s) /\ shifts) \/ cuts
    BY <1>11, ContextShiftContent
  <2>3. /\ next_pos(v, s) \in 0 .. MaxPos + 1 /\ MaxPos \in Nat
        /\ Pos = 0 .. MaxPos /\ n_keep \in Nat /\ n_discard \in Nat
    BY <1>0, NextPosType, LayoutFacts
  <2> HIDE DEF shifts, cuts
  <2>4. b < next_pos(v, s) => b \in Pos /\ e \in Pos /\ n_keep < b /\ b <= e
    BY <2>1, <2>3
  <2> HIDE DEF b, e
  <2>5. shifts => Store!Slide(s, n_keep, b, e)
    BY SlideStores, Zenon DEF shifts
  <2>6. cuts => Store!Truncate(s, n_keep)
    BY TruncateStores, Zenon DEF cuts
  <2> QED BY <1>1, <1>2, <1>3, <2>1, <2>2, <2>4, <2>5, <2>6
<1>12. ASSUME NEW s \in Seqs, NEW head_p \in Pos, NEW head_c \in Pos, NEW n_match \in Pos,
              CacheReuse(s, head_p, head_c, n_match)
       PROVE  Store!Next
  <2> DEFINE e == (head_c + n_match) - 1
             shifts == Content' = [Content EXCEPT ![s] = Slides(Content[s], head_p, head_c, e)]
  <2>1. saved' = saved
    BY <1>12 DEF CacheReuse
  <2>2. head_p < head_c /\ 0 < n_match /\ head_c + n_match <= next_pos(v, s) /\ shifts
    BY <1>12, CacheReuseContent
  <2>3. /\ next_pos(v, s) \in 0 .. MaxPos + 1 /\ MaxPos \in Nat
        /\ Pos = 0 .. MaxPos /\ head_c \in Nat /\ n_match \in Nat
    BY <1>0, NextPosType, LayoutFacts
  <2> HIDE DEF shifts
  <2>4. e \in Pos /\ head_c <= e
    BY <2>2, <2>3
  <2> HIDE DEF e
  <2>5. Store!Slide(s, head_p, head_c, e)
    BY <2>2, SlideStores, Zenon DEF shifts
  <2> QED BY <1>1, <1>2, <1>3, <2>1, <2>2, <2>4, <2>5
<1>13. ASSUME NEW n \in Batches, Decode(n) PROVE Store!Next
  <2>1. PICK y : GrownTo(y, n) /\ Content' = Longer(y)
    BY <1>13, DecodeContent
  <2>2. \E m \in [Seqs -> 0..MaxBatch] : Store!Append(m)
    BY <2>1, DecodeStores
  <2>3. saved' = saved
    BY <1>13 DEF Decode
  <2> QED BY <1>1, <1>2, <1>3, <2>2, <2>3
<1> QED BY <1>5, <1>6, <1>7, <1>8, <1>9, <1>10, <1>11, <1>12, <1>13 DEF Next

LEMMA InitStores == Init => Store!Init
<1> SUFFICES ASSUME Init PROVE Store!Init
  OBVIOUS
<1>1. /\ layout \in Layouts /\ sc_info = <<>> /\ saved = <<>>
      /\ v = [d \in Streams |-> [cells |-> cells_reset(Size), head |-> 0]]
  BY DEF Init
<1>2. layout.window \in Nat /\ layout.unified \in BOOLEAN
  BY <1>1, LayoutAssumption
<1>3. Content = [s \in Seqs |-> {}]
  BY <1>1, FreshContent, ContentIs, Zenon
<1>4. SavedContent = {}
  <2>1. DOMAIN saved = {}
    BY <1>1
  <2> QED BY <2>1 DEF SavedContent
<1> QED BY <1>2, <1>3, <1>4 DEF Store!Init, Content, SavedContent

\* "Memory" of llama.h: without a window, when no cell that two sequences
\* share is shifted and no state is saved or read back while copies are
\* queued, the cache is a store of sequences.  Whatever cells, streams, copies
\* and shifts a call goes through, each sequence holds the entries it was
\* given, each at its position and computed for that sequence, and a call
\* about one sequence leaves the others alone; a batch that fails on the way
\* leaves a prefix of what it was to add (llama_kv_cache, llama_context::decode).
THEOREM KeepsSequencesWithoutWindow ==
  ASSUME "shared_shift" \notin Allowed, "queued_state" \notin Allowed
  PROVE  Spec /\ layout.window = 0 => KeepsSequences
<1> DEFINE IInv == Prefixed /\ layout.window = 0
<1>1. Init /\ layout.window = 0 => IInv
  BY InitPrefixed
<1>2. IInv /\ [Next]_vars => IInv'
  <2>1. [Next]_vars => layout' = layout
    BY LayoutFixed DEF vars
  <2> QED BY <2>1, NextPrefixed
<1>3. IInv /\ [Next]_vars => [Store!Next]_(Store!vars)
  <2> SUFFICES ASSUME IInv, [Next]_vars PROVE [Store!Next]_(Store!vars)
    OBVIOUS
  <2>1. Windowless
    BY PrefixedHas
  <2>2. CASE Next
    BY <2>1, <2>2, CallStores
  <2>3. CASE UNCHANGED vars
    <3>1. layout' = layout /\ v' = v /\ buf' = buf /\ sc_info' = sc_info /\ saved' = saved
      BY <2>3 DEF vars
    <3>2. Content' = Content /\ SavedContent' = SavedContent
      BY <3>1, ContentStays, SavedStays
    <3> QED BY <3>1, <3>2 DEF Store!vars, Content, SavedContent
  <2> QED BY <2>2, <2>3
<1> QED BY <1>1, <1>2, <1>3, InitStores, PTL DEF Spec, KeepsSequences, Store!Spec
=============================================================================
