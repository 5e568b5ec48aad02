------------------------------ MODULE KvCache ------------------------------
(***************************************************************************)
(* llama_kv_cache (src/src/llama-kv-cache.cpp) as the server uses it: the  *)
(* cells of each stream, the head where the search for free cells starts,  *)
(* the key and value buffers, and the copies between streams that are      *)
(* queued until the next update.  One action is one call of the server or  *)
(* of the decoder: truncation, copying the state of a parent slot, context *)
(* shift, reuse of a chunk, saving and restoring one sequence, decoding a  *)
(* batch.  A layout says whether the sequences share one stream, how many  *)
(* cells a stream has and how far the sliding window reaches.              *)
(*                                                                         *)
(* A buffer cell holds the sequence whose token was computed there and the *)
(* position its key is rotated to, so that data of another sequence, of    *)
(* another position or rotated twice can be told apart.  What a free cell  *)
(* holds is never read, and is forgotten unless a queued copy may read it. *)
(***************************************************************************)
EXTENDS KvCells, Sequences, SequencesExt

CONSTANTS Layouts,       \* [unified, cells, window, ubatch, batch, saves,
                         \* length]: the cache there may be, and the bounds of
                         \* its use: tokens of a sequence in a batch, in a saved
                         \* state, and in all
          MaxBatch,      \* tokens of one sequence in a batch, in any layout
          MaxPos,        \* bound of the positions
          MaxQueued,     \* bound of the queued copies
          Allowed        \* calls that break what the cache promises, see below

ASSUME LayoutAssumption ==
  \A l \in Layouts :
    /\ l.unified \in BOOLEAN /\ l.cells \in Nat \ {0} /\ l.window \in Nat
    /\ l.ubatch \in Nat \ {0} /\ (l.unified \/ l.ubatch >= Cardinality(Seqs))
    /\ l.batch \in 1..MaxBatch /\ l.saves \in Nat /\ l.length \in 1..MaxPos + 1

ASSUME BoundAssumption == MaxBatch \in Nat /\ MaxPos \in Nat /\ Pos = 0..MaxPos

\* Sequence ids are given from zero on, and there is a stream for each.
ASSUME SeqAssumption == IsFiniteSet(Seqs) /\ Seqs # {} /\ Seqs = 0 .. Cardinality(Seqs) - 1

\* The calls left out unless Allowed has them:
\*   "queued_state"   a state is saved or restored while copies are queued
\*   "shared_shift"   cells that two sequences share are shifted
\*   "window_copy"    sequences share the cells of a stream with a window
\*   "window_failure" with a window, a batch of several ubatches fails
Faults == {"queued_state", "shared_shift", "window_copy", "window_failure"}
ASSUME FaultAssumption == Allowed \subseteq Faults

VARIABLES layout,   \* fixed when the context is built
          v,        \* of each stream: cells (v_cells) and head (v_heads)
          buf,      \* what the key and value buffers of each stream hold
          sc_info,  \* copies between streams, queued: <<source, destination>>
          saved     \* the state of a sequence: cells with position and data

vars == <<layout, v, buf, sc_info, saved>>

Streams == IF layout.unified THEN {0} ELSE Seqs
stream(s) == IF layout.unified THEN 0 ELSE s      \* seq_to_stream
Size == 0 .. layout.cells - 1

\* The members of S, the one with the least key first.
InOrder(S, key(_)) ==
  [k \in 1..Cardinality(S) |-> CHOOSE x \in S : Cardinality({y \in S : key(y) < key(x)}) = k - 1]

Nobody == -1
NoData == [of |-> Nobody, rot |-> 0]
Data == [of : Seqs \cup {Nobody}, rot : Int]

\* Data of free cells is forgotten where no queued copy reads or writes.
Forget(vs, b, copies) ==
  LET queued == UNION {{copies[k][1], copies[k][2]} : k \in DOMAIN copies}
  IN [d \in Streams |-> [i \in Size |->
        IF is_empty(vs[d].cells, i) /\ d \notin queued THEN NoData ELSE b[d][i]]]

---------------------------------------------------------------------------
(* Operations on the metadata of one stream t = [cells, head]. *)

LowerHead(t, freed) ==
  IF freed # {} /\ Min(freed) < t.head THEN Min(freed) ELSE t.head

In(c, s, p0, p1) == {i \in Size : pos_in(c, i, p0, p1) /\ seq_has(c, i, s)}

SeqRm(t, s, p0, p1) ==
  LET hit == In(t.cells, s, p0, p1)
  IN [cells |-> FoldSet(LAMBDA i, c : cell_seq_rm(c, i, s), t.cells, hit),
      head  |-> LowerHead(t, {i \in hit : t.cells.seq[i] = {s}})]

SeqKeep(t, s) ==
  [cells |-> FoldSet(LAMBDA i, c : cell_seq_keep(c, i, s), t.cells, Size),
   head  |-> LowerHead(t, {i \in Size : t.cells.seq[i] # {} /\ s \notin t.cells.seq[i]})]

SeqAdd(t, s, p0, p1, d) ==
  LET hit == In(t.cells, s, p0, p1)
      freed == {i \in hit : t.cells.pos[i] + d < 0}
  IN IF d = 0 \/ p0 = p1
     THEN t
     ELSE [cells |-> FoldSet(LAMBDA i, c : pos_add(c, i, d), t.cells, hit),
           head  |-> IF freed # {} THEN Min(freed) ELSE 0]

\* seq_cp within a stream: the cells are shared.
SeqShare(t, src, dst) ==
  [t EXCEPT !.cells =
     FoldSet(LAMBDA i, c : cell_seq_add(c, i, dst), @, In(@, src, 0, MaxPos + 1))]

\* seq_cp between streams: the cells of src are entered in a fresh table,
\* at the positions they had before the shift that is still to come.
SeqEnter(from, src, dst) ==
  LET enter(i, c) ==
        LET sh == from.cells.shift[i]
            at == cell_seq_add(pos_set(c, i, from.cells.pos[i] - sh), i, dst)
        IN IF sh # 0 THEN pos_add(at, i, sh) ELSE at
  IN [cells |-> FoldSet(enter, cells_reset(Size), {i \in Size : seq_has(from.cells, i, src)}),
      head  |-> from.head]

is_masked_swa_Early(p0, p1) == layout.window > 0 /\ p1 - p0 >= layout.window - 1
is_masked_swa(p0, p1) == layout.window > 0 /\ p1 - p0 >= layout.window

CanUse(c, i) ==
  \/ is_empty(c, i)
  \/ \E s \in Seqs : c.seq[i] = {s} /\ is_masked_swa(c.pos[i], seq_pos_max(c, s) + 1)

find_slot_NoWrap(t, n) ==
  LET start == IF t.head > Cardinality(t.cells.used) + 2 * n THEN 0 ELSE t.head
      usable == InOrder({i \in Size : i >= start /\ CanUse(t.cells, i)}, LAMBDA i : i)
  IN IF Len(usable) < n THEN <<>> ELSE SubSeq(usable, 1, n)

\* Cells for n tokens, searched once around from the head; <<>> if too few.
find_slot(t, n) ==
  LET start == IF t.head > Cardinality(t.cells.used) + 2 * n THEN 0 ELSE t.head
      cell(k) == (start + k) % layout.cells
      usable == InOrder({k \in Size : CanUse(t.cells, cell(k))}, LAMBDA k : k)
  IN IF Len(usable) < n THEN <<>> ELSE [k \in 1..n |-> cell(usable[k])]

\* The tokens [seq, pos] go to the cells idxs.  What a cell held is lost,
\* and with it every lower position of that sequence.
Entered(t, tokens, idxs) ==
  LET put(c, k) ==
        LET i == idxs[k]
            free == IF is_empty(c, i) THEN c ELSE rm(c, i)
        IN cell_seq_add(pos_set(free, i, tokens[k].pos), i, tokens[k].seq)
  IN [t EXCEPT !.cells = FoldLeftDomain(put, @, idxs)]

Purged(t, old, idxs) ==
  LET over(s) == {old.pos[i] : i \in {j \in ToSet(idxs) : old.seq[j] = {s}}}
      purge(s, u) ==
        IF over(s) = {} \/ seq_pos_min(u.cells, s) > Max(over(s)) THEN u
        ELSE SeqRm(u, s, seq_pos_min(u.cells, s), Max(over(s)) + 1)
  IN FoldSet(purge, t, Seqs)

\* Faulty variant: the positions below the overwritten ones stay.
apply_ubatch_NoPurge(t, tokens, idxs) == [Entered(t, tokens, idxs) EXCEPT !.head = Last(idxs) + 1]

\* apply_ubatch on one stream.
apply_ubatch(t, tokens, idxs) ==
  [Purged(Entered(t, tokens, idxs), t.cells, idxs) EXCEPT !.head = Last(idxs) + 1]

---------------------------------------------------------------------------
(* A batch gives n[s] tokens to each sequence s, at the positions after    *)
(* its last one.  It is cut into ubatches; an ubatch is, for each stream,  *)
(* the tokens [seq, pos] that go there.                                    *)

Batches == {n \in [Seqs -> 0..layout.batch] : \E s \in Seqs : n[s] > 0}

next_pos(vs, s) == seq_pos_max(vs[stream(s)].cells, s) + 1

\* split_simple: the next layout.ubatch tokens, sequence after sequence.
split_simple(n) ==
  [s \in Seqs |-> Max({0, Min({n[s], layout.ubatch - MapThenSumSet(LAMBDA r : n[r], {r \in Seqs : r < s})})})]

\* split_equal: as many tokens of the first sequence that has some left
\* and of those with the ids that follow.
split_equal(n) ==
  LET first == Min({s \in Seqs : n[s] > 0})
      some == {s \in Seqs : s >= first /\ \A r \in first..s : r \in Seqs /\ n[r] > 0}
      most == Min({layout.ubatch \div Cardinality(some)} \cup {n[s] : s \in some})
  IN [s \in Seqs |-> IF s \in some THEN most ELSE 0]

\* Ubatches are cut until nothing is left of the batch.
Ubatches(first, n) ==
  LET tokens(next, m, d) ==
        InOrder(UNION {{[seq |-> s, pos |-> next[s] + k - 1] : k \in 1..m[s]} : s \in {s \in Seqs : stream(s) = d}},
                LAMBDA x : x.seq * (MaxPos + 1) + x.pos)
      cut[k \in 0 .. layout.batch * Cardinality(Seqs)] ==
        IF k = 0 THEN [next |-> first, left |-> n, ubs |-> <<>>]
        ELSE LET c == cut[k - 1]
                 m == IF layout.unified THEN split_simple(c.left) ELSE split_equal(c.left)
             IN IF \A s \in Seqs : c.left[s] = 0
                THEN c
                ELSE [next |-> [s \in Seqs |-> c.next[s] + m[s]],
                      left |-> [s \in Seqs |-> c.left[s] - m[s]],
                      ubs  |-> Append(c.ubs, [d \in Streams |-> tokens(c.next, m, d)])]
  IN cut[layout.batch * Cardinality(Seqs)].ubs

Asked(ub) == {d \in Streams : ub[d] # <<>>}

Slots(vs, ub) ==
  FoldSet(LAMBDA d, f : [f EXCEPT ![d] = find_slot(vs[d], Len(ub[d]))], [d \in Streams |-> <<>>], Asked(ub))

Apply(vs, ub, slot) ==
  [d \in Streams |-> IF d \in Asked(ub) THEN apply_ubatch(vs[d], ub[d], slot[d]) ELSE vs[d]]

\* The end of prepare: the cells of a slot take back what they held.  The
\* k-th stream of the slot takes back the head of the k-th stream of all.
Restored(vs, old, slot) ==
  LET strm == {d \in Streams : slot[d] # <<>>}
      kth(d) == Cardinality({e \in strm : e < d})
      back(c, d) == FoldSet(LAMBDA i, x : cell_set(x, i, old[d].cells), c, ToSet(slot[d]))
  IN [d \in Streams |-> IF d \in strm THEN [cells |-> back(vs[d].cells, d), head |-> old[kth(d)].head] ELSE vs[d]]

\* Ubatches are placed on trial, one after the other, until one finds no cells.
Trial(vs, ubs) ==
  LET trial[k \in 0..Len(ubs)] ==
        IF k = 0 THEN [ok |-> TRUE, v |-> vs, past |-> <<>>, slots |-> <<>>]
        ELSE LET t == trial[k - 1]
                 slot == Slots(t.v, ubs[k])
             IN IF ~t.ok \/ \E d \in Asked(ubs[k]) : slot[d] = <<>>
                THEN [t EXCEPT !.ok = FALSE]
                ELSE [ok |-> TRUE, v |-> Apply(t.v, ubs[k], slot),
                      past |-> Append(t.past, t.v), slots |-> Append(t.slots, slot)]
  IN trial[Len(ubs)]

\* prepare: after the trial every slot is given back, the last one first.
prepare(vs, ubs) ==
  LET t == Trial(vs, ubs)
      back[k \in 0..Len(t.slots)] ==
        IF k = 0 THEN t.v
        ELSE LET j == Len(t.slots) + 1 - k IN Restored(back[k - 1], t.past[j], t.slots[j])
  IN [ok |-> t.ok, v |-> back[Len(t.slots)], slots |-> t.slots]

\* Ubatches 1 to k take their cells and are computed there.
Placed(vs, ubs, slots, k) ==
  FoldLeftDomain(LAMBDA u, j : Apply(u, ubs[j], slots[j]), vs, SubSeq(ubs, 1, k))

Computed(b, ubs, slots, k) ==
  FoldLeftDomain(LAMBDA c, j :
      [d \in Streams |-> [i \in Size |->
         IF i \in ToSet(slots[j][d])
         THEN LET x == ubs[j][d][CHOOSE y \in DOMAIN slots[j][d] : slots[j][d][y] = i]
              IN [of |-> x.seq, rot |-> x.pos]
         ELSE c[d][i]]],
    b, SubSeq(ubs, 1, k))

\* update: the queued copies in their order, then the K-shift.
Copied(b) == FoldLeft(LAMBDA c, q : [c EXCEPT ![q[2]] = c[q[1]]], b, sc_info)
Rotated(b) ==
  [d \in Streams |-> [i \in Size |-> [b[d][i] EXCEPT !.rot = @ + v[d].cells.shift[i]]]]

UpdatedBuf_ShiftFirst == Copied(Rotated(buf))
UpdatedBuf == Rotated(Copied(buf))

UpdatedV == [d \in Streams |-> [v[d] EXCEPT !.cells = reset_shift(@)]]

---------------------------------------------------------------------------

Init ==
  /\ layout \in Layouts
  /\ v = [d \in Streams |-> [cells |-> cells_reset(Size), head |-> 0]]
  /\ buf = [d \in Streams |-> [i \in Size |-> NoData]]
  /\ sc_info = <<>>
  /\ saved = <<>>

Become(vs, b, copies) == v' = vs /\ buf' = Forget(vs, b, copies) /\ sc_info' = copies

\* llama_memory_clear, when the foreground server starts a conversation.
Clear ==
  /\ Become([d \in Streams |-> [cells |-> cells_reset(Size), head |-> 0]],
            [d \in Streams |-> [i \in Size |-> NoData]], sc_info)
  /\ UNCHANGED <<layout, saved>>

\* seq_rm(s, p, -1): a prompt keeps p tokens of the slot.  With a window the
\* server keeps them only when all the next token sees is still there.
Truncate(s, p) ==
  /\ p < next_pos(v, s)
  /\ p = 0 \/ layout.window = 0 \/ seq_pos_min(v[stream(s)].cells, s) < p - layout.window
  /\ Become([v EXCEPT ![stream(s)] = SeqRm(@, s, p, MaxPos + 1)], buf, sc_info)
  /\ UNCHANGED <<layout, saved>>

\* copy_state_to: the slot of a child takes the sequence of its parent.
CopyState(src, dst) ==
  /\ src # dst
  /\ layout.unified /\ layout.window > 0 => "window_copy" \in Allowed
  /\ LET emptied == [v EXCEPT ![stream(dst)] = SeqRm(@, dst, 0, MaxPos + 1)]
     IN IF layout.unified
        THEN Become([emptied EXCEPT ![0] = SeqShare(@, src, dst)], buf, sc_info)
        ELSE /\ Len(sc_info) < MaxQueued
             /\ Become([emptied EXCEPT ![dst] = SeqEnter(emptied[src], src, dst)], buf,
                       Append(sc_info, <<src, dst>>))
  /\ UNCHANGED <<layout, saved>>

SeqKeepOne(s) ==
  /\ Become([v EXCEPT ![stream(s)] = SeqKeep(@, s)], buf, sc_info)
  /\ UNCHANGED <<layout, saved>>

\* Cells of [p0, p1) may be shifted: there is no window, and the server
\* does not shift cells that two sequences share.
MayShift(s, p0, p1) ==
  /\ layout.window = 0
  /\ \/ "shared_shift" \in Allowed
     \/ \A i \in In(v[stream(s)].cells, s, p0, p1) : v[stream(s)].cells.seq[i] = {s}

\* A full slot discards tokens after the n_keep first ones.
ContextShift(s, n_keep, n_discard) ==
  LET past == next_pos(v, s)
  IN /\ 0 < n_discard /\ n_keep + n_discard <= past
     /\ MayShift(s, n_keep + n_discard, past)
     /\ Become([v EXCEPT ![stream(s)] =
                  SeqAdd(SeqRm(@, s, n_keep, n_keep + n_discard), s, n_keep + n_discard, past, -n_discard)],
               buf, sc_info)
     /\ UNCHANGED <<layout, saved>>

\* A chunk of the old prompt moves up to the part the new prompt shares, and
\* what follows it is removed.
CacheReuse(s, head_p, head_c, n_match) ==
  LET moved(t) == SeqAdd(SeqRm(t, s, head_p, head_c), s, head_c, head_c + n_match, head_p - head_c)
  IN /\ head_p < head_c /\ 0 < n_match /\ head_c + n_match <= next_pos(v, s)
     /\ MayShift(s, head_c, head_c + n_match)
     /\ Become([v EXCEPT ![stream(s)] = SeqRm(moved(@), s, head_p + n_match, MaxPos + 1)], buf, sc_info)
     /\ UNCHANGED <<layout, saved>>

\* The server decodes in the pass in which it shifts.
NoUpdate ==
  /\ \A d \in Streams : ~v[d].cells.has_shift
  /\ "queued_state" \in Allowed \/ sc_info = <<>>

\* state_write of one sequence: its cells that the window still reaches.
Save(s) ==
  /\ NoUpdate
  /\ saved = <<>>
  /\ LET c == v[stream(s)].cells
         kept == {i \in Size : seq_has(c, i, s) /\ ~is_masked_swa(c.pos[i], seq_pos_max(c, s))}
         order == InOrder(kept, LAMBDA i : i)
     IN /\ kept # {} /\ Cardinality(kept) = layout.saves
        /\ saved' = [k \in DOMAIN order |-> [pos |-> c.pos[order[k]], data |-> buf[stream(s)][order[k]]]]
  /\ UNCHANGED <<layout, v, buf, sc_info>>

\* state_read into one sequence, which is emptied first; without cells for
\* all of it the sequence stays empty.
Load(s) ==
  /\ NoUpdate
  /\ saved # <<>>
  /\ LET d == stream(s)
         t == SeqRm(v[d], s, 0, MaxPos + 1)
         idxs == find_slot(t, Len(saved))
         tokens == [k \in DOMAIN saved |-> [seq |-> s, pos |-> saved[k].pos]]
         written == [i \in Size |-> IF i \in ToSet(idxs)
                                    THEN saved[CHOOSE k \in DOMAIN idxs : idxs[k] = i].data
                                    ELSE buf[d][i]]
     IN IF idxs = <<>>
        THEN Become([v EXCEPT ![d] = t], buf, sc_info)
        ELSE Become([v EXCEPT ![d] = apply_ubatch(t, tokens, idxs)], [buf EXCEPT ![d] = written], sc_info)
  /\ saved' \in {saved, <<>>}
  /\ UNCHANGED layout

\* llama_context::decode of a batch.
First == [s \in Seqs |-> next_pos(v, s)]
Fits(n) == \A s \in Seqs : n[s] > 0 => First[s] + n[s] <= layout.length

\* No cells for some ubatch: the batch is refused.
NoSlot(p) == ~p.ok /\ Become(p.v, UpdatedBuf, <<>>)

AllComputed(ubs, p) ==
  /\ p.ok
  /\ Become(Placed(p.v, ubs, p.slots, Len(ubs)), Computed(UpdatedBuf, ubs, p.slots, Len(ubs)), <<>>)

\* The computation of ubatch k fails: its positions are removed.
ComputeFails(ubs, p, k) ==
  LET from(s) == {x.pos : x \in {y \in ToSet(ubs[k][stream(s)]) : y.seq = s}}
      drop(s, u) == IF from(s) = {} THEN u
                    ELSE [u EXCEPT ![stream(s)] = SeqRm(@, s, Min(from(s)), MaxPos + 1)]
  IN /\ p.ok
     /\ layout.window > 0 /\ Len(ubs) > 1 => "window_failure" \in Allowed
     /\ Become(FoldSet(drop, Placed(p.v, ubs, p.slots, k), Seqs),
               Computed(UpdatedBuf, ubs, p.slots, k - 1), <<>>)

Decode(n) ==
  /\ Fits(n)
  /\ LET ubs == Ubatches(First, n)
         p == prepare(UpdatedV, ubs)
     IN NoSlot(p) \/ AllComputed(ubs, p) \/ \E k \in DOMAIN ubs : ComputeFails(ubs, p, k)
  /\ UNCHANGED <<layout, saved>>

Next ==
  \/ Clear
  \/ \E s \in Seqs :
       \/ SeqKeepOne(s) \/ Save(s) \/ Load(s)
       \/ \E r \in Seqs : CopyState(s, r)
       \/ \E p \in Pos : Truncate(s, p)
       \/ \E n_keep, n_discard \in Pos : ContextShift(s, n_keep, n_discard)
       \/ \E head_p, head_c, n_match \in Pos : CacheReuse(s, head_p, head_c, n_match)
  \/ \E n \in Batches : Decode(n)

Spec == Init /\ [][Next]_vars

---------------------------------------------------------------------------
(* Properties. *)

TypeOK ==
  /\ layout \in Layouts
  /\ DOMAIN v = Streams
  /\ \A d \in Streams : DOMAIN v[d] = {"cells", "head"} /\ v[d].head \in 0..layout.cells
  /\ buf \in [Streams -> [Size -> Data]]
  /\ \A k \in DOMAIN sc_info : sc_info[k] \in Streams \X Streams
  /\ \A k \in DOMAIN saved : saved[k].pos \in Pos /\ saved[k].data \in Data

\* The indexes of every table agree with its cells, whatever sequence of
\* calls, refused batches and failed computations led there; the variables
\* keep their types.
IndexesAgree == TypeOK /\ \A d \in Streams : Consistent(v[d].cells, Size)

SeqCells(s) == {i \in Size : seq_has(v[stream(s)].cells, i, s)}
SeqPositions(s) == {v[stream(s)].cells.pos[i] : i \in SeqCells(s)}

\* "all positions in the range [pos_min, pos_max] are guaranteed to be
\* present in the memory" (llama.h), each in one cell.
NoGaps ==
  \A s \in Seqs :
    /\ SeqPositions(s) # {} => SeqPositions(s) = Min(SeqPositions(s)) .. Max(SeqPositions(s))
    /\ Cardinality(SeqCells(s)) = Cardinality(SeqPositions(s))

\* Everything the next token of a sequence sees is in the cache.
WindowWhole ==
  \A s \in Seqs : \A p \in 0 .. next_pos(v, s) - 1 :
    layout.window = 0 \/ next_pos(v, s) - p < layout.window => p \in SeqPositions(s)

\* A batch is refused only for want of cells: with the cells the server
\* gives a windowed cache never, otherwise when the free cells are too few.
RefusedOnlyWhenFull ==
  \A n \in Batches :
    \/ ~Fits(n)
    \/ prepare(UpdatedV, Ubatches(First, n)).ok
    \/ /\ layout.window = 0
       /\ \E d \in Streams :
            MapThenSumSet(LAMBDA s : n[s], {s \in Seqs : stream(s) = d})
              > layout.cells - Cardinality({i \in Size : v[d].cells.pos[i] # Empty})

\* What the cache holds, seen from outside: the entries of each sequence
\* once the queued copies and the K-shift are done.
EntryAt(d, i) ==
  LET b == Copied(buf)[d][i]
      p == v[d].cells.pos[i]
  IN [pos |-> p, of |-> IF b.rot + v[d].cells.shift[i] = p THEN b.of ELSE Nobody]

SavedEntry(e) == [pos |-> e.pos, of |-> IF e.data.rot = e.pos THEN e.data.of ELSE Nobody]

Store == INSTANCE SequenceStore WITH
  content  <- [s \in Seqs |-> {EntryAt(stream(s), i) : i \in SeqCells(s)}],
  saved    <- {SavedEntry(saved[k]) : k \in DOMAIN saved},
  window   <- layout.window,
  together <- layout.unified

KeepsSequences == Store!Spec
============================================================================
