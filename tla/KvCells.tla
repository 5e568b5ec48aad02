------------------------------ MODULE KvCells ------------------------------
(***************************************************************************)
(* llama_kv_cells (src/src/llama-kv-cells.h): the table of cells of one    *)
(* stream of the KV cache.  A table is a record                            *)
(*   pos        the position each cell holds, Empty for a free cell        *)
(*   shift      what was added to pos since the last K-shift               *)
(*   seq        the sequences that share the cell                          *)
(*   used       the cells in use                                           *)
(*   seq_pos    how many cells of a sequence hold a position               *)
(*   has_shift  whether some shift has to be applied to the keys           *)
(* used and seq_pos are indexes kept beside pos and seq: every operation   *)
(* updates them by hand, and the search for free cells, the limits of a    *)
(* sequence and the sliding window are read from them alone.  The 2D       *)
(* positions (ext) are left out: no operation reads them.                  *)
(***************************************************************************)
EXTENDS Integers, FiniteSets

CONSTANTS Seqs,   \* sequence ids, below LLAMA_MAX_SEQ
          Pos     \* positions a cell may hold

ASSUME PosAssumption == Pos \subseteq Nat

Empty == -1

Table(C) == [pos       : [C -> Pos \cup {Empty}],
             shift     : [C -> Int],
             seq       : [C -> SUBSET Seqs],
             used      : SUBSET C,
             seq_pos   : [Seqs -> [Pos -> Nat]],
             has_shift : BOOLEAN]

cells_reset(C) == [pos       |-> [i \in C |-> Empty],
                   shift     |-> [i \in C |-> 0],
                   seq       |-> [i \in C |-> {}],
                   used      |-> {},
                   seq_pos   |-> [s \in Seqs |-> [p \in Pos |-> 0]],
                   has_shift |-> FALSE]

reset_shift(c) == [c EXCEPT !.has_shift = FALSE, !.shift = [i \in DOMAIN @ |-> 0]]

---------------------------------------------------------------------------
(* Queries. *)

is_empty(c, i) == c.pos[i] = Empty
pos_in(c, i, p0, p1) == p0 <= c.pos[i] /\ c.pos[i] < p1
seq_has(c, i, s) == s \in c.seq[i]

PosOf(c, s) == {p \in Pos : c.seq_pos[s][p] > 0}
seq_pos_min(c, s) ==
  LET P == PosOf(c, s) IN IF P = {} THEN -1 ELSE CHOOSE p \in P : \A q \in P : p <= q
seq_pos_max(c, s) ==
  LET P == PosOf(c, s) IN IF P = {} THEN -1 ELSE CHOOSE p \in P : \A q \in P : q <= p

---------------------------------------------------------------------------
(* The index seq_pos when a cell leaves or joins the sequences S at p. *)

Uncount(m, S, p) == [s \in Seqs |-> IF s \in S THEN [m[s] EXCEPT ![p] = @ - 1] ELSE m[s]]
Count(m, S, p)   == [s \in Seqs |-> IF s \in S THEN [m[s] EXCEPT ![p] = @ + 1] ELSE m[s]]

rm(c, i) ==
  [c EXCEPT !.pos[i] = Empty, !.shift[i] = 0, !.seq[i] = {},
            !.used = @ \ {i},
            !.seq_pos = Uncount(@, c.seq[i], c.pos[i])]

\* seq_rm: the cell leaves one sequence, and is freed with its last one.
cell_seq_rm(c, i, s) ==
  IF c.seq[i] = {s}
  THEN rm(c, i)
  ELSE [c EXCEPT !.seq[i] = @ \ {s}, !.seq_pos[s][c.pos[i]] = @ - 1]

\* seq_keep: the cell leaves every sequence but s.
cell_seq_keep(c, i, s) ==
  IF s \in c.seq[i]
  THEN [c EXCEPT !.seq[i] = {s}, !.seq_pos = Uncount(@, c.seq[i] \ {s}, c.pos[i])]
  ELSE IF c.seq[i] # {} THEN rm(c, i) ELSE c

\* seq_add: a used cell joins a sequence it is not in.
cell_seq_add(c, i, s) ==
  [c EXCEPT !.seq[i] = @ \cup {s}, !.seq_pos[s][c.pos[i]] = @ + 1]

\* pos_set: a free cell takes a position; no sequence holds it yet.
pos_set(c, i, p) == [c EXCEPT !.pos[i] = p, !.used = @ \cup {i}]

\* pos_add: the cell moves by d, and is freed when it falls below zero.
pos_add(c, i, d) ==
  IF c.pos[i] + d < 0
  THEN [rm(c, i) EXCEPT !.has_shift = TRUE]
  ELSE [c EXCEPT !.pos[i] = @ + d, !.shift[i] = @ + d, !.has_shift = TRUE,
                 !.seq_pos = Count(Uncount(@, c.seq[i], c.pos[i]), c.seq[i], c.pos[i] + d)]

\* pos_div: the position is divided, and the difference goes into shift.
pos_div(c, i, d) ==
  LET p == c.pos[i] \div d
  IN [c EXCEPT !.pos[i] = p, !.shift[i] = @ + (c.pos[i] - p), !.has_shift = TRUE,
               !.seq_pos = Count(Uncount(@, c.seq[i], c.pos[i]), c.seq[i], p)]

\* A slip that IndexesAgree must tell: a cell given back stays a used one.
cell_set_StaysUsed(c, i, old) ==
  LET gone == IF is_empty(c, i) THEN c.seq_pos ELSE Uncount(c.seq_pos, c.seq[i], c.pos[i])
      back == IF is_empty(old, i) THEN gone ELSE Count(gone, old.seq[i], old.pos[i])
  IN [c EXCEPT !.pos[i] = old.pos[i], !.seq[i] = old.seq[i], !.seq_pos = back, !.used = @ \cup {i}]

\* set: a cell takes back the position and the sequences it had in old.
cell_set(c, i, old) ==
  LET gone == IF is_empty(c, i) THEN c.seq_pos ELSE Uncount(c.seq_pos, c.seq[i], c.pos[i])
      back == IF is_empty(old, i) THEN gone ELSE Count(gone, old.seq[i], old.pos[i])
  IN [c EXCEPT !.pos[i] = old.pos[i], !.seq[i] = old.seq[i], !.seq_pos = back,
               !.used = IF is_empty(old, i) THEN @ \ {i} ELSE @ \cup {i}]

---------------------------------------------------------------------------
(* What every operation must keep of a table over the cells C: the indexes *)
(* say what the cells say, a free cell is clean, and a shift is announced. *)

Holders(c, C, s, p) == {i \in C : c.pos[i] = p /\ s \in c.seq[i]}

UsedExact(c, C)   == c.used = {i \in C : c.pos[i] # Empty}
CountExact(c, C)  == \A s \in Seqs, p \in Pos : c.seq_pos[s][p] = Cardinality(Holders(c, C, s, p))
FreeIsClean(c, C) == \A i \in C : c.pos[i] = Empty => c.seq[i] = {} /\ c.shift[i] = 0
ShiftKnown(c, C)  == (\E i \in C : c.shift[i] # 0) => c.has_shift

Consistent(c, C) ==
  /\ c \in Table(C)
  /\ UsedExact(c, C)
  /\ CountExact(c, C)
  /\ FreeIsClean(c, C)
  /\ ShiftKnown(c, C)
============================================================================
