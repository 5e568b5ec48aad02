--------------------------- MODULE SequenceStore ---------------------------
(***************************************************************************)
(* What the KV cache promises to a program (src/include/llama.h, memory):  *)
(* a store of sequences.  A sequence is a set of entries, a position and   *)
(* the sequence it was computed for; an operation on one sequence leaves   *)
(* the others as they are.  A model with a sliding window may lose the     *)
(* entries the window no longer reaches, and no other.  Cells, streams,    *)
(* heads, buffers and delayed updates do not appear.                       *)
(***************************************************************************)
EXTENDS Integers, FiniteSets

CONSTANTS Seqs, Pos,
          MaxBatch      \* tokens of one sequence in a batch, at most

VARIABLES content,      \* the entries of each sequence
          saved,        \* the entries of the state that was saved
          window,       \* reach of the attention, 0 without a limit
          together      \* whether the sequences are kept in one stream

vars == <<content, saved, window, together>>

Next_pos(S) == IF S = {} THEN 0 ELSE (CHOOSE e \in S : \A x \in S : x.pos <= e.pos).pos + 1

\* The entries the token at position p does not see.
Masked(S, p) == IF window = 0 THEN {} ELSE {e \in S : p - e.pos >= window}

\* A sequence after an operation on the store that was not about it.
Loses(S, T) == T \subseteq S /\ S \ T \subseteq Masked(S, Next_pos(S))

Truncate(s, p) == content' = [content EXCEPT ![s] = {e \in @ : e.pos < p}]

Clear == content' = [s \in Seqs |-> {}]

Copy(src, dst) == content' = [content EXCEPT ![dst] = content[src]]

\* Only the sequences of the same stream are given up.
Keep(s) == content' = [r \in Seqs |-> IF r # s /\ together THEN {} ELSE content[r]]

\* What is from b to e moves to a; what was from a to b or after e is removed.
Slide(s, a, b, e) ==
  content' = [content EXCEPT ![s] =
    {x \in @ : x.pos < a} \cup {[x EXCEPT !.pos = @ - (b - a)] : x \in {y \in @ : b <= y.pos /\ y.pos <= e}}]

\* The first n[s] tokens of a batch are added to each sequence s.
Append(n) ==
  \A s \in Seqs :
    Loses(content[s] \cup {[pos |-> Next_pos(content[s]) + k - 1, of |-> s] : k \in 1..n[s]}, content'[s])

Recent(S) == S \ Masked(S, Next_pos(S) - 1)

Save(s) == saved' = Recent(content[s]) /\ UNCHANGED content

\* The state may be used up by loading it.
Load(s) ==
  /\ saved' \in {saved, {}}
  /\ content'[s] \in {saved, {}}
  /\ \A r \in Seqs \ {s} : Loses(content[r], content'[r])

Init ==
  /\ content = [s \in Seqs |-> {}]
  /\ saved = {}
  /\ window \in Nat
  /\ together \in BOOLEAN

Next ==
  /\ UNCHANGED <<window, together>>
  /\ \/ /\ UNCHANGED saved
        /\ \/ Clear
           \/ \E n \in [Seqs -> 0..MaxBatch] : Append(n)
           \/ \E s \in Seqs, p \in Pos : Truncate(s, p)
           \/ \E s, r \in Seqs : Copy(s, r)
           \/ \E s \in Seqs : Keep(s)
           \/ \E s \in Seqs : \E a, b, e \in Pos : a < b /\ b <= e /\ Slide(s, a, b, e)
     \/ \E s \in Seqs : Load(s) \/ Save(s)

Spec == Init /\ [][Next]_vars
============================================================================
