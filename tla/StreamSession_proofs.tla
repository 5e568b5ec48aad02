------------------------ MODULE StreamSession_proofs ------------------------
(***************************************************************************)
(* Proofs about StreamSession, for any requests, readers and DELETEs of a  *)
(* conversation, chunks and offsets of any size and any capacity of the    *)
(* buffer: its types, that a replay is exact, that a session which nobody  *)
(* cancels ends with the whole generation, and that one session is live.   *)
(***************************************************************************)
EXTENDS StreamSession, TLAPS, SequenceTheorems

-----------------------------------------------------------------------------
(* The buffer.                                                             *)

\* The bytes of s, which follow byte number off, are among those of B.
Placed(s, off, B) == \A k \in 1..Len(s) : <<off + k, s[k]>> \in B

LEMMA SuffixIs ==
  ASSUME NEW s \in Seq(Nat), NEW n \in Nat, n <= Len(s)
  PROVE  /\ Suffix(s, n) \in Seq(Nat) /\ Len(Suffix(s, n)) = n
         /\ \A k \in 1..n : Suffix(s, n)[k] = s[Len(s) - n + k]
<1> DEFINE a == Len(s) - n + 1
           z == Len(s)
<1>1. z \in Nat /\ a \in Int /\ a <= z + 1 /\ z - a + 1 = n /\ a >= 1
  OBVIOUS
<1>2. \A i \in a..z : s[i] \in Nat
  BY <1>1
<1>3. /\ SubSeq(s, a, z) \in Seq(Nat)
      /\ Len(SubSeq(s, a, z)) = IF a <= z THEN z - a + 1 ELSE 0
      /\ \A i \in 1..(z - a + 1) : SubSeq(s, a, z)[i] = s[a + i - 1]
  <2> HIDE DEF a, z
  <2> QED BY <1>1, <1>2, SubSeqProperties
<1>4. \A k \in 1..n : a + k - 1 = Len(s) - n + k
  BY <1>1
<1>5. Len(SubSeq(s, a, z)) = n
  BY <1>1, <1>3
<1> QED BY <1>1, <1>3, <1>4, <1>5 DEF Suffix

LEMMA PlacedSuffix ==
  ASSUME NEW B, NEW off \in Nat, NEW s \in Seq(Nat), NEW n \in Nat, n <= Len(s), Placed(s, off, B)
  PROVE  Placed(Suffix(s, n), off + Len(s) - n, B)
<1>1. Len(Suffix(s, n)) = n /\ \A k \in 1..n : Suffix(s, n)[k] = s[Len(s) - n + k]
  BY SuffixIs
<1> SUFFICES ASSUME NEW k \in 1..n
             PROVE  <<off + Len(s) - n + k, Suffix(s, n)[k]>> \in B
  BY <1>1 DEF Placed
<1>2. Len(s) - n + k \in 1..Len(s) /\ off + (Len(s) - n + k) = off + Len(s) - n + k
  OBVIOUS
<1>3. <<off + (Len(s) - n + k), s[Len(s) - n + k]>> \in B
  BY <1>2 DEF Placed
<1> QED BY <1>1, <1>2, <1>3

LEMMA PlacedConcat ==
  ASSUME NEW B, NEW off \in Nat, NEW s \in Seq(Nat), NEW t \in Seq(Nat),
         Placed(s, off, B), Placed(t, off + Len(s), B)
  PROVE  Placed(s \o t, off, B)
<1>1. Len(s \o t) = Len(s) + Len(t) /\ Len(s) \in Nat /\ Len(t) \in Nat
  BY ConcatProperties
<1> SUFFICES ASSUME NEW k \in 1..(Len(s) + Len(t))
             PROVE  <<off + k, (s \o t)[k]>> \in B
  BY <1>1 DEF Placed
<1>2. (s \o t)[k] = IF k <= Len(s) THEN s[k] ELSE t[k - Len(s)]
  BY ConcatProperties
<1>3. CASE k <= Len(s)
  <2>1. k \in 1..Len(s) /\ (s \o t)[k] = s[k]
    BY <1>1, <1>2, <1>3
  <2> QED BY <2>1 DEF Placed
<1>4. CASE ~(k <= Len(s))
  <2>1. k - Len(s) \in 1..Len(t) /\ (s \o t)[k] = t[k - Len(s)]
    BY <1>1, <1>2, <1>4
  <2>2. off + Len(s) + (k - Len(s)) = off + k
    BY <1>1
  <2> QED BY <2>1, <2>2 DEF Placed
<1> QED BY <1>3, <1>4

LEMMA PlacedAnywhere ==
  ASSUME NEW s \in Seq(Nat), NEW off \in Nat
  PROVE  Placed(s, off, Nat \X Nat)
BY DEF Placed

\* append() keeps the numbers of the bytes it keeps, within its capacity.
LEMMA Appended ==
  ASSUME TypeOK, NEW r \in Requests, NEW data \in Seq(Nat), AppendData(r, data), NEW B,
         Placed(buffer[r], prefix_dropped[r], B), ~done[r] => Placed(data, End(r), B)
  PROVE  /\ buffer' \in [Requests -> Seq(Nat)] /\ prefix_dropped' \in [Requests -> Nat]
         /\ \A q \in Requests : Len(buffer'[q]) <= Cap
         /\ \A q \in Requests \ {r} : buffer'[q] = buffer[q] /\ prefix_dropped'[q] = prefix_dropped[q]
         /\ Placed(buffer'[r], prefix_dropped'[r], B)
         /\ prefix_dropped'[r] + Len(buffer'[r])
              = prefix_dropped[r] + Len(buffer[r]) + IF done[r] THEN 0 ELSE Len(data)
<1>0. buffer \in [Requests -> Seq(Nat)] /\ prefix_dropped \in [Requests -> Nat] /\ Cap \in Nat
      /\ \A q \in Requests : Len(buffer[q]) <= Cap
  BY StreamAssumption DEF TypeOK
<1>1. CASE data = <<>> \/ done[r]
  <2>1. buffer' = buffer /\ prefix_dropped' = prefix_dropped
    BY <1>1 DEF AppendData
  <2>2. prefix_dropped[r] + Len(buffer[r])
          = prefix_dropped[r] + Len(buffer[r]) + IF done[r] THEN 0 ELSE Len(data)
    BY <1>0, <1>1
  <2> QED BY <1>0, <2>1, <2>2
<1>2. CASE ~(data = <<>> \/ done[r])
  <2> DEFINE b == buffer[r]
             p == prefix_dropped[r]
             all == b \o data
             kept == IF Len(all) > Cap THEN Suffix(all, Cap) ELSE all
             m == Len(all) - Len(kept)
  <2>1. b \in Seq(Nat) /\ p \in Nat /\ all \in Seq(Nat) /\ Len(all) = Len(b) + Len(data)
        /\ Len(b) \in Nat /\ Len(data) \in Nat
    BY <1>0
  <2>2. Placed(all, p, B)
    <3>1. Placed(b, p, B) /\ Placed(data, p + Len(b), B)
      BY <1>2 DEF End
    <3> HIDE DEF b, p
    <3> QED BY <2>1, <3>1, PlacedConcat
  <2>3. /\ kept \in Seq(Nat) /\ Len(kept) <= Cap /\ m \in Nat /\ p + m + Len(kept) = p + Len(all)
        /\ Placed(kept, p + m, B)
    <3>1. CASE Len(all) > Cap
      <4> HIDE DEF all, p
      <4>1. Cap <= Len(all) /\ Len(all) \in Nat
        BY <1>0, <2>1, <3>1
      <4>2. Suffix(all, Cap) \in Seq(Nat) /\ Len(Suffix(all, Cap)) = Cap
        BY <1>0, <2>1, <4>1, SuffixIs
      <4>3. Placed(Suffix(all, Cap), p + Len(all) - Cap, B)
        BY <1>0, <2>1, <2>2, <4>1, PlacedSuffix
      <4>4. p + Len(all) - Cap = p + (Len(all) - Cap) /\ Len(all) - Cap \in Nat
            /\ p + (Len(all) - Cap) + Cap = p + Len(all)
        BY <1>0, <2>1, <4>1
      <4> QED BY <1>0, <3>1, <4>2, <4>3, <4>4
    <3>2. CASE ~(Len(all) > Cap)
      <4> HIDE DEF all, p
      <4>1. kept = all /\ Len(all) \in Nat /\ p \in Nat /\ Len(all) <= Cap
        BY <1>0, <2>1, <3>2
      <4>2. m = Len(all) - Len(all)
        BY <4>1
      <4> HIDE DEF m
      <4>3. m = 0 /\ p + m = p
        BY <4>1, <4>2
      <4> QED BY <2>1, <2>2, <4>1, <4>3
    <3> QED BY <3>1, <3>2
  <2>4. buffer' = [buffer EXCEPT ![r] = kept]
        /\ prefix_dropped' = [prefix_dropped EXCEPT ![r] = p + Len(all) - Len(kept)]
    BY <1>2 DEF AppendData
  <2> HIDE DEF kept
  <2>5. p + Len(all) - Len(kept) = p + m /\ p + m \in Nat
    BY <2>1, <2>3
  <2> HIDE DEF m, all
  <2>6. buffer'[r] = kept /\ prefix_dropped'[r] = p + m
    BY <1>0, <2>4, <2>5
  <2>7. p + m + Len(kept) = p + Len(b) + Len(data)
    BY <2>1, <2>3, SMTT(30)
  <2> QED BY <1>0, <1>2, <2>3, <2>4, <2>5, <2>6, <2>7
<1> QED BY <1>1, <1>2

-----------------------------------------------------------------------------
(* The inductive invariant.                                                *)

\* Byte number j of the generation of r is j; behind the bytes made there are
\* end markers only, and only once the generation is over.
Right(r) == {b \in Nat \X Nat : IF b[1] <= made[r] THEN b[2] = b[1] ELSE b[2] = 0 /\ ended[r]}

\* Where the producer of r is, and what ends it or its session.
Flow(r) ==
    /\ rpc[r] # "write" => output[r] = <<>> /\ ~last[r]
    /\ rpc[r] \in {"handler", "attach"} => ~ended[r]
    /\ rpc[r] = "handler" => tpc[r] = "idle"
    /\ last[r] \/ done_[r] => ended[r] \/ cancelled[r]
    /\ rpc[r] \in {"cleanup", "unhook", "finalize", "gone"} => ended[r] \/ cancelled[r]
    /\ done[r] => cancelled[r] \/ r \in taken \/ rpc[r] = "gone"
\* Who cancels has a session, flagged before its hook is looked at.
Cancelling(t) ==
    /\ tpc[t] # "idle" => victim[t] \in Requests
    /\ tpc[t] \in {"hook", "alive", "stop", "finalize"} => cancelled[victim[t]]
Control ==
    /\ \A r \in Requests : Flow(r)
    /\ \A t \in Threads : Cancelling(t)
    /\ shutdown = "no" => taken = {}

\* The bytes in the buffer, and the chunk on its way into it, are right; until
\* the session is cut off nothing that was generated is missing.
Open(r) == ~done[r] \/ (~cancelled[r] /\ r \notin taken)
Held(r) ==
    /\ Placed(buffer[r], prefix_dropped[r], Right(r))
    /\ ~done[r] => Placed(output[r], End(r), Right(r))
    /\ Open(r) => /\ made[r] <= End(r) + Len(output[r])
                  /\ ended[r] \/ made[r] = End(r) + Len(output[r])
Received(g) ==
    IF gpc[g] \in {"check", "reading", "complete"}
    THEN /\ session[g] \in Requests /\ Placed(got[g], from[g], Right(session[g]))
         /\ gpc[g] = "complete" => done[session[g]] /\ Offset(g) >= End(session[g])
    ELSE got[g] = <<>>

Inv ==
    /\ TypeOK /\ Control /\ OneLive
    /\ \A r \in Requests : Held(r)
    /\ \A g \in Readers : Received(g)

-----------------------------------------------------------------------------
(* Types.                                                                  *)

LEMMA InitTypes == Init => TypeOK
BY StreamAssumption DEF Init, TypeOK, Flags, Threads, RequestStates, CancelStates, ReaderStates

\* What next() may return.
LEMMA Chunk ==
  ASSUME NEW n \in Nat, NEW m \in Nat
  PROVE  /\ [k \in 1..n |-> m + k] \in Seq(Nat) /\ Len([k \in 1..n |-> m + k]) = n
         /\ \A k \in 1..n : [j \in 1..n |-> m + j][k] = m + k
OBVIOUS
LEMMA MarkerIs ==
  /\ Marker \in Seq(Nat) /\ Len(Marker) \in Nat
  /\ \A k \in 1..Len(Marker) : Marker[k] = 0
<1>1. CASE Marker = <<>>
  BY <1>1
<1>2. CASE Marker = <<0>>
  BY <1>2
<1> QED BY <1>1, <1>2, StreamAssumption

LEMMA NextTypes ==
  ASSUME TypeOK, Next, \A g \in Readers : Received(g)
  PROVE  TypeOK'
<1> USE DEF TypeOK, Flags, RequestStates, CancelStates, ReaderStates, sessions, producer,
       cancels, readers, manager
<1>1. ASSUME NEW r \in Requests, Create(r) PROVE TypeOK'
  BY <1>1, ZenonT(40) DEF Create, Threads
<1>2. ASSUME NEW r \in Requests, Attach(r) PROVE TypeOK'
  BY <1>2 DEF Attach
<1>3. ASSUME NEW r \in Requests, NextChunk(r) PROVE TypeOK'
  <2>1. PICK n \in Sizes : /\ made' = [made EXCEPT ![r] = @ + n]
                           /\ Returns(r, [k \in 1..n |-> made[r] + k], FALSE)
    BY <1>3 DEF NextChunk
  <2> DEFINE c == [k \in 1..n |-> made[r] + k]
  <2>2. n \in Nat /\ made[r] \in Nat
    BY StreamAssumption
  <2>3. c \in Seq(Nat)
    BY <2>2, Chunk
  <2>4. Returns(r, c, FALSE) /\ UNCHANGED ended
    BY <1>3, <2>1 DEF NextChunk
  <2> HIDE DEF c
  <2>5. made' \in [Requests -> Nat]
    BY <2>1, <2>2
  <2> QED BY <2>3, <2>4, <2>5 DEF Returns
<1>4. ASSUME NEW r \in Requests, NextEnd(r) PROVE TypeOK'
  BY <1>4, MarkerIs DEF NextEnd, Returns
<1>5. ASSUME NEW r \in Requests, NextStopped(r) PROVE TypeOK'
  BY <1>5, SMTT(30) DEF NextStopped, Returns
<1>6. ASSUME NEW r \in Requests, Write(r) PROVE TypeOK'
  <2>1. /\ buffer' \in [Requests -> Seq(Nat)] /\ prefix_dropped' \in [Requests -> Nat]
        /\ \A q \in Requests : Len(buffer'[q]) <= Cap
    <3> DEFINE B == Nat \X Nat
    <3>1. buffer[r] \in Seq(Nat) /\ output[r] \in Seq(Nat) /\ prefix_dropped[r] \in Nat /\ End(r) \in Nat
      BY DEF End
    <3>3. AppendData(r, output[r])
      BY <1>6 DEF Write
    <3> HIDE DEF TypeOK
    <3>2. Placed(buffer[r], prefix_dropped[r], B) /\ Placed(output[r], End(r), B)
      BY <3>1, PlacedAnywhere
    <3> HIDE DEF B
    <3> QED BY <3>1, <3>2, <3>3, Appended
  <2>2. output' \in [Requests -> Seq(Nat)] /\ last' \in Flags /\ done_' \in Flags
    BY <1>6 DEF Write
  <2>3. rpc' \in [Requests -> RequestStates]
    BY <1>6 DEF Write
  <2> QED BY <1>6, <2>1, <2>2, <2>3 DEF Write
<1>7. ASSUME NEW r \in Requests, LosePeer(r) PROVE TypeOK'
  BY <1>7 DEF LosePeer
<1>8. ASSUME NEW r \in Requests, StopWire(r) PROVE TypeOK'
  BY <1>8 DEF StopWire
<1>9. ASSUME NEW r \in Requests, Close(r) PROVE TypeOK'
  BY <1>9, ZenonT(40) DEF Close
<1>10. ASSUME NEW r \in Requests, Cleanup(r) PROVE TypeOK'
  BY <1>10 DEF Cleanup
<1>11. ASSUME NEW r \in Requests, Unhook(r) PROVE TypeOK'
  BY <1>11 DEF Unhook
<1>12. ASSUME NEW r \in Requests, Finalize(r) PROVE TypeOK'
  BY <1>12 DEF Finalize
<1>13. ASSUME NEW d \in Deletes, Delete(d) PROVE TypeOK'
  BY <1>13 DEF Delete, Threads
<1>14. ASSUME NEW t \in Threads, SetCancelled(t) PROVE TypeOK'
  BY <1>14 DEF SetCancelled, CancelTo
<1>15. ASSUME NEW t \in Threads, CopyHook(t) PROVE TypeOK'
  BY <1>15 DEF CopyHook, CancelTo
<1>16. ASSUME NEW t \in Threads, TestAlive(t) PROVE TypeOK'
  BY <1>16 DEF TestAlive, CancelTo
<1>17. ASSUME NEW t \in Threads, CallStop(t) PROVE TypeOK'
  BY <1>17 DEF CallStop, CancelTo
<1>18. ASSUME NEW t \in Threads, FinalizeVictim(t) PROVE TypeOK'
  BY <1>18 DEF FinalizeVictim, CancelTo
<1>19. ASSUME Expire PROVE TypeOK'
  BY <1>19 DEF Expire
<1>20. ASSUME StopGc PROVE TypeOK'
  BY <1>20 DEF StopGc
<1>21. ASSUME FinalizeTaken PROVE TypeOK'
  BY <1>21 DEF FinalizeTaken
<1>22. ASSUME NEW g \in Readers, Check(g) PROVE TypeOK'
  BY <1>22 DEF Check, ReaderTo
<1>23. ASSUME NEW g \in Readers, CheckLost(g) PROVE TypeOK'
  BY <1>23, SMTT(30) DEF CheckLost, ReaderTo, ReaderEnds
<1>24. ASSUME NEW g \in Readers, ReadLost(g) PROVE TypeOK'
  BY <1>24, SMTT(30) DEF ReadLost, ReaderTo, ReaderEnds
<1>25. ASSUME NEW g \in Readers, ReadChunk(g) PROVE TypeOK'
  <2> DEFINE s == session[g]
             m == End(s) - Offset(g)
  <2>1. s \in Requests
    BY <1>25 DEF ReadChunk, ReaderTo, Received
  <2>2. got[g] \in Seq(Nat) /\ from[g] \in Nat /\ Offset(g) \in Nat /\ End(s) \in Nat
        /\ prefix_dropped[s] \in Nat /\ buffer[s] \in Seq(Nat)
    BY <2>1, SMTT(30) DEF Offset, End
  <2> HIDE DEF TypeOK
  <2>3. m \in Nat /\ m <= Len(buffer[s])
    <3>1. Offset(g) >= prefix_dropped[s] /\ Offset(g) < End(s) /\ Len(buffer[s]) \in Nat
      BY <1>25, <2>2 DEF ReadChunk
    <3> QED BY <2>2, <3>1 DEF End
  <2>4. Suffix(buffer[s], m) \in Seq(Nat)
    <3> HIDE DEF m
    <3> QED BY <2>2, <2>3, SuffixIs
  <2> HIDE DEF m
  <2>5. got[g] \o Suffix(buffer[s], m) \in Seq(Nat)
    BY <2>2, <2>4
  <2>6. got' = [got EXCEPT ![g] = got[g] \o Suffix(buffer[s], m)]
    BY <1>25 DEF ReadChunk, m
  <2> USE DEF TypeOK
  <2> QED BY <1>25, <2>5, <2>6, ZenonT(40) DEF ReadChunk, ReaderTo
<1>26. ASSUME NEW g \in Readers, ReadDone(g) PROVE TypeOK'
  BY <1>26 DEF ReadDone, ReaderTo
<1>27. ASSUME NEW g \in Readers, LeaveReader(g) PROVE TypeOK'
  BY <1>27, SMTT(30) DEF LeaveReader, ReaderTo, ReaderEnds
<1>28. ASSUME NEW g \in Readers, GetUnknown(g) PROVE TypeOK'
  BY <1>28 DEF GetUnknown, ReaderTo, ReaderEnds
<1>29. ASSUME NEW g \in Readers, NEW offset \in Offsets, Get(g, offset) PROVE TypeOK'
  BY <1>29, StreamAssumption, SMTT(30) DEF Get, ReaderTo
<1> QED BY <1>1, <1>2, <1>3, <1>4, <1>5, <1>6, <1>7, <1>8, <1>9, <1>10, <1>11, <1>12, <1>13,
       <1>14, <1>15, <1>16, <1>17, <1>18, <1>19, <1>20, <1>21, <1>22, <1>23, <1>24, <1>25, <1>26,
       <1>27, <1>28, <1>29 DEF Next, RequestNext, RunNext, CancelNext, ReaderNext, ReadNext,
       ManagerNext

-----------------------------------------------------------------------------
(* Control, and the session in the map.                                    *)

LEMMA NextControl ==
  ASSUME TypeOK, Control, Next
  PROVE  Control'
<1> USE DEF Control, Flow, Cancelling, sessions, producer, cancels, readers, manager, TypeOK,
       Flags, Threads
<1>1. ASSUME NEW r \in Requests, Create(r) PROVE Control'
  <2>1. \A q \in Requests : Flow(q)'
    BY <1>1, StreamAssumption DEF Create
  <2>2. \A t \in Threads : Cancelling(t)'
    <3>1. CASE live = NoSession
      BY <1>1, <3>1 DEF Create
    <3>2. CASE live # NoSession
      <4>1. tpc' = [tpc EXCEPT ![r] = "flag"] /\ victim' = [victim EXCEPT ![r] = live]
            /\ cancelled' = cancelled /\ live \in Requests /\ r \in Threads
        BY <1>1, <3>2 DEF Create
      <4>2. ASSUME NEW t \in Threads, t # r PROVE Cancelling(t)'
        BY <4>1, <4>2
      <4>3. Cancelling(r)'
        BY <4>1
      <4> QED BY <4>2, <4>3
    <3> QED BY <3>1, <3>2
  <2>3. (shutdown = "no" => taken = {})'
    BY <1>1 DEF Create
  <2> QED BY <2>1, <2>2, <2>3
<1>2. ASSUME NEW r \in Requests, Attach(r) PROVE Control'
  BY <1>2, ZenonT(40) DEF Attach
<1>3. ASSUME NEW r \in Requests, NextChunk(r) PROVE Control'
  BY <1>3 DEF NextChunk, Returns
<1>4. ASSUME NEW r \in Requests, NextEnd(r) PROVE Control'
  BY <1>4, SMTT(30) DEF NextEnd, Returns
<1>5. ASSUME NEW r \in Requests, NextStopped(r) PROVE Control'
  BY <1>5, SMTT(30) DEF NextStopped, Returns
<1>6. ASSUME NEW r \in Requests, Write(r) PROVE Control'
  BY <1>6, SMTT(30) DEF Write
<1>7. ASSUME NEW r \in Requests, LosePeer(r) PROVE Control'
  BY <1>7 DEF LosePeer
<1>8. ASSUME NEW r \in Requests, StopWire(r) PROVE Control'
  BY <1>8, SMTT(30) DEF StopWire
<1>9. ASSUME NEW r \in Requests, Close(r) PROVE Control'
  BY <1>9, SMTT(30) DEF Close
<1>10. ASSUME NEW r \in Requests, Cleanup(r) PROVE Control'
  BY <1>10, SMTT(30) DEF Cleanup
<1>11. ASSUME NEW r \in Requests, Unhook(r) PROVE Control'
  BY <1>11, SMTT(30) DEF Unhook
<1>12. ASSUME NEW r \in Requests, Finalize(r) PROVE Control'
  BY <1>12, SMTT(30) DEF Finalize
<1>13. ASSUME NEW d \in Deletes, Delete(d) PROVE Control'
  BY <1>13, StreamAssumption DEF Delete
<1>14. ASSUME NEW t \in Threads, SetCancelled(t) PROVE Control'
  BY <1>14, SMTT(30) DEF SetCancelled, CancelTo
<1>15. ASSUME NEW t \in Threads, CopyHook(t) PROVE Control'
  BY <1>15 DEF CopyHook, CancelTo
<1>16. ASSUME NEW t \in Threads, TestAlive(t) PROVE Control'
  BY <1>16 DEF TestAlive, CancelTo
<1>17. ASSUME NEW t \in Threads, CallStop(t) PROVE Control'
  BY <1>17 DEF CallStop, CancelTo
<1>18. ASSUME NEW t \in Threads, FinalizeVictim(t) PROVE Control'
  BY <1>18, SMTT(30) DEF FinalizeVictim, CancelTo
<1>19. ASSUME Expire PROVE Control'
  BY <1>19 DEF Expire
<1>20. ASSUME StopGc PROVE Control'
  BY <1>20 DEF StopGc
<1>21. ASSUME FinalizeTaken PROVE Control'
  BY <1>21 DEF FinalizeTaken
<1>22. ASSUME NEW g \in Readers, Check(g) PROVE Control'
  BY <1>22 DEF Check, ReaderTo
<1>23. ASSUME NEW g \in Readers, CheckLost(g) PROVE Control'
  BY <1>23 DEF CheckLost, ReaderTo, ReaderEnds
<1>24. ASSUME NEW g \in Readers, ReadLost(g) PROVE Control'
  BY <1>24 DEF ReadLost, ReaderTo, ReaderEnds
<1>25. ASSUME NEW g \in Readers, ReadChunk(g) PROVE Control'
  BY <1>25 DEF ReadChunk, ReaderTo
<1>26. ASSUME NEW g \in Readers, ReadDone(g) PROVE Control'
  BY <1>26 DEF ReadDone, ReaderTo
<1>27. ASSUME NEW g \in Readers, LeaveReader(g) PROVE Control'
  BY <1>27 DEF LeaveReader, ReaderTo, ReaderEnds
<1>28. ASSUME NEW g \in Readers, GetUnknown(g) PROVE Control'
  BY <1>28 DEF GetUnknown, ReaderTo, ReaderEnds
<1>29. ASSUME NEW g \in Readers, NEW offset \in Offsets, Get(g, offset) PROVE Control'
  BY <1>29 DEF Get, ReaderTo
<1> QED BY <1>1, <1>2, <1>3, <1>4, <1>5, <1>6, <1>7, <1>8, <1>9, <1>10, <1>11, <1>12, <1>13,
       <1>14, <1>15, <1>16, <1>17, <1>18, <1>19, <1>20, <1>21, <1>22, <1>23, <1>24, <1>25, <1>26,
       <1>27, <1>28, <1>29
     DEF Next, RequestNext, RunNext, CancelNext, ReaderNext, ReadNext, ManagerNext

LEMMA NextOneLive ==
  ASSUME TypeOK, Control, OneLive, Next
  PROVE  OneLive'
<1> USE DEF OneLive, TypeOK, Flags, Threads, sessions, producer, cancels, readers, manager
<1>1. ASSUME NEW r \in Requests, Create(r) PROVE OneLive'
  <2> SUFFICES ASSUME NEW q \in Requests, rpc'[q] # "handler", ~done'[q], ~cancelled'[q]
               PROVE  \/ live' = q \/ q \in taken'
                      \/ \E t \in Threads : victim'[t] = q /\ tpc'[t] = "flag"
    OBVIOUS
  <2>1. live' = r /\ UNCHANGED <<done, cancelled, taken>> /\ rpc' = [rpc EXCEPT ![r] = "attach"]
    BY <1>1 DEF Create
  <2>2. CASE q = r
    BY <2>1, <2>2
  <2>3. CASE q # r /\ live = q
    <3>1. tpc' = [tpc EXCEPT ![r] = "flag"] /\ victim' = [victim EXCEPT ![r] = q] /\ r \in Threads
      BY <1>1, <2>3, StreamAssumption DEF Create
    <3>2. victim'[r] = q /\ tpc'[r] = "flag"
      BY <3>1
    <3> QED BY <3>1, <3>2
  <2>4. CASE q # r /\ live # q
    <3>1. q \in taken \/ \E t \in Threads : victim[t] = q /\ tpc[t] = "flag"
      BY <2>1, <2>4
    <3>2. tpc[r] = "idle"
      BY <1>1 DEF Control, Flow, Create
    <3>3. ASSUME NEW t \in Threads, victim[t] = q, tpc[t] = "flag"
          PROVE  victim'[t] = q /\ tpc'[t] = "flag"
      BY <1>1, <3>2, <3>3, ZenonT(40) DEF Create
    <3> QED BY <2>1, <3>1, <3>3
  <2> QED BY <2>2, <2>3, <2>4
<1>2. ASSUME NEW r \in Requests, Attach(r) PROVE OneLive'
  <2>1. /\ UNCHANGED <<live, taken, tpc, victim, done, cancelled>>
        /\ \A q \in Requests : rpc'[q] # "handler" => rpc[q] # "handler"
    BY <1>2 DEF Attach
  <2> QED BY <2>1
<1>3. ASSUME NEW r \in Requests, NextChunk(r) PROVE OneLive'
  <2>1. /\ UNCHANGED <<live, taken, tpc, victim, done, cancelled>>
        /\ \A q \in Requests : rpc'[q] # "handler" => rpc[q] # "handler"
    BY <1>3 DEF NextChunk, Returns
  <2> QED BY <2>1
<1>4. ASSUME NEW r \in Requests, NextEnd(r) PROVE OneLive'
  <2>1. /\ UNCHANGED <<live, taken, tpc, victim, done, cancelled>>
        /\ \A q \in Requests : rpc'[q] # "handler" => rpc[q] # "handler"
    BY <1>4 DEF NextEnd, Returns
  <2> QED BY <2>1
<1>5. ASSUME NEW r \in Requests, NextStopped(r) PROVE OneLive'
  <2>1. /\ UNCHANGED <<live, taken, tpc, victim, done, cancelled>>
        /\ \A q \in Requests : rpc'[q] # "handler" => rpc[q] # "handler"
    BY <1>5 DEF NextStopped, Returns
  <2> QED BY <2>1
<1>6. ASSUME NEW r \in Requests, Write(r) PROVE OneLive'
  <2>1. /\ UNCHANGED <<live, taken, tpc, victim, done, cancelled>>
        /\ \A q \in Requests : rpc'[q] # "handler" => rpc[q] # "handler"
    BY <1>6 DEF Write
  <2> QED BY <2>1
<1>7. ASSUME NEW r \in Requests, LosePeer(r) PROVE OneLive'
  <2>1. /\ UNCHANGED <<live, taken, tpc, victim, done, cancelled>>
        /\ \A q \in Requests : rpc'[q] # "handler" => rpc[q] # "handler"
    BY <1>7 DEF LosePeer
  <2> QED BY <2>1
<1>8. ASSUME NEW r \in Requests, StopWire(r) PROVE OneLive'
  <2>1. /\ UNCHANGED <<live, taken, tpc, victim, done, cancelled>>
        /\ \A q \in Requests : rpc'[q] # "handler" => rpc[q] # "handler"
    BY <1>8 DEF StopWire
  <2> QED BY <2>1
<1>9. ASSUME NEW r \in Requests, Close(r) PROVE OneLive'
  <2>1. /\ UNCHANGED <<live, taken, tpc, victim, done, cancelled>>
        /\ \A q \in Requests : rpc'[q] # "handler" => rpc[q] # "handler"
    BY <1>9 DEF Close
  <2> QED BY <2>1
<1>10. ASSUME NEW r \in Requests, Cleanup(r) PROVE OneLive'
  <2>1. /\ UNCHANGED <<live, taken, tpc, victim, done, cancelled>>
        /\ \A q \in Requests : rpc'[q] # "handler" => rpc[q] # "handler"
    BY <1>10 DEF Cleanup
  <2> QED BY <2>1
<1>11. ASSUME NEW r \in Requests, Unhook(r) PROVE OneLive'
  <2>1. /\ UNCHANGED <<live, taken, tpc, victim, done, cancelled>>
        /\ \A q \in Requests : rpc'[q] # "handler" => rpc[q] # "handler"
    BY <1>11 DEF Unhook
  <2> QED BY <2>1
<1>12. ASSUME NEW r \in Requests, Finalize(r) PROVE OneLive'
  BY <1>12, ZenonT(40) DEF Finalize
<1>13. ASSUME NEW d \in Deletes, Delete(d) PROVE OneLive'
  BY <1>13, StreamAssumption DEF Delete
<1>14. ASSUME NEW t \in Threads, SetCancelled(t) PROVE OneLive'
  BY <1>14, ZenonT(40) DEF SetCancelled, CancelTo
<1>15. ASSUME NEW t \in Threads, CopyHook(t) PROVE OneLive'
  BY <1>15 DEF CopyHook, CancelTo
<1>16. ASSUME NEW t \in Threads, TestAlive(t) PROVE OneLive'
  BY <1>16 DEF TestAlive, CancelTo
<1>17. ASSUME NEW t \in Threads, CallStop(t) PROVE OneLive'
  BY <1>17 DEF CallStop, CancelTo
<1>18. ASSUME NEW t \in Threads, FinalizeVictim(t) PROVE OneLive'
  BY <1>18 DEF FinalizeVictim, CancelTo
<1>19. ASSUME Expire PROVE OneLive'
  BY <1>19 DEF Expire
<1>20. ASSUME StopGc PROVE OneLive'
  <2>1. /\ UNCHANGED <<rpc, tpc, victim, done, cancelled>>
        /\ taken' = {live} \ {NoSession} /\ taken = {}
    BY <1>20 DEF StopGc, Control
  <2>2. \A q \in Requests : live = q => q \in taken'
    BY <2>1, StreamAssumption
  <2> QED BY <2>1, <2>2
<1>21. ASSUME FinalizeTaken PROVE OneLive'
  BY <1>21 DEF FinalizeTaken
<1>22. ASSUME NEW g \in Readers, Check(g) PROVE OneLive'
  BY <1>22 DEF Check, ReaderTo
<1>23. ASSUME NEW g \in Readers, CheckLost(g) PROVE OneLive'
  BY <1>23 DEF CheckLost, ReaderTo, ReaderEnds
<1>24. ASSUME NEW g \in Readers, ReadLost(g) PROVE OneLive'
  BY <1>24 DEF ReadLost, ReaderTo, ReaderEnds
<1>25. ASSUME NEW g \in Readers, ReadChunk(g) PROVE OneLive'
  BY <1>25 DEF ReadChunk, ReaderTo
<1>26. ASSUME NEW g \in Readers, ReadDone(g) PROVE OneLive'
  BY <1>26 DEF ReadDone, ReaderTo
<1>27. ASSUME NEW g \in Readers, LeaveReader(g) PROVE OneLive'
  BY <1>27 DEF LeaveReader, ReaderTo, ReaderEnds
<1>28. ASSUME NEW g \in Readers, GetUnknown(g) PROVE OneLive'
  BY <1>28 DEF GetUnknown, ReaderTo, ReaderEnds
<1>29. ASSUME NEW g \in Readers, NEW offset \in Offsets, Get(g, offset) PROVE OneLive'
  BY <1>29 DEF Get, ReaderTo
<1> QED BY <1>1, <1>2, <1>3, <1>4, <1>5, <1>6, <1>7, <1>8, <1>9, <1>10, <1>11, <1>12, <1>13,
       <1>14, <1>15, <1>16, <1>17, <1>18, <1>19, <1>20, <1>21, <1>22, <1>23, <1>24, <1>25, <1>26,
       <1>27, <1>28, <1>29
     DEF Next, RequestNext, RunNext, CancelNext, ReaderNext, ReadNext, ManagerNext

-----------------------------------------------------------------------------
(* The bytes of a generation.                                              *)

\* A step that neither makes bytes nor moves them, as far as q is concerned.
Quiet(q) ==
    /\ buffer'[q] = buffer[q] /\ prefix_dropped'[q] = prefix_dropped[q]
    /\ output'[q] = output[q] /\ made'[q] = made[q]
    /\ ended[q] => ended'[q]
    /\ done[q] => done'[q]
    /\ cancelled[q] => cancelled'[q]
    /\ q \in taken => q \in taken'
\* What every step does to q.
Grown(q) ==
    /\ made[q] <= made'[q] /\ (ended[q] => ended'[q] /\ made'[q] = made[q])
    /\ done[q] => done'[q] /\ End(q)' = End(q)

LEMMA QuietSteps ==
  ASSUME TypeOK, Control, ~ \E r \in Requests : NextChunk(r) \/ NextEnd(r) \/ Write(r), Next
  PROVE  \A q \in Requests : Quiet(q)
<1> USE DEF Quiet, TypeOK, Flags, sessions, producer, cancels, readers, manager
<1>1. ASSUME NEW r \in Requests, Create(r) PROVE \A q \in Requests : Quiet(q)
  BY <1>1 DEF Create
<1>2. ASSUME NEW r \in Requests, Attach(r) PROVE \A q \in Requests : Quiet(q)
  <2>1. ~ended[r]
    BY <1>2 DEF Attach, Control, Flow
  <2> QED BY <1>2, <2>1 DEF Attach
<1>3. ASSUME NEW r \in Requests, NextChunk(r) PROVE \A q \in Requests : Quiet(q)
  BY <1>3
<1>4. ASSUME NEW r \in Requests, NextEnd(r) PROVE \A q \in Requests : Quiet(q)
  BY <1>4
<1>5. ASSUME NEW r \in Requests, NextStopped(r) PROVE \A q \in Requests : Quiet(q)
  <2>1. output' = [output EXCEPT ![r] = <<>>] /\ output[r] = <<>>
    BY <1>5 DEF NextStopped, Returns, Control, Flow
  <2> QED BY <1>5, <2>1 DEF NextStopped, Returns
<1>6. ASSUME NEW r \in Requests, Write(r) PROVE \A q \in Requests : Quiet(q)
  BY <1>6
<1>7. ASSUME NEW r \in Requests, LosePeer(r) PROVE \A q \in Requests : Quiet(q)
  BY <1>7 DEF LosePeer
<1>8. ASSUME NEW r \in Requests, StopWire(r) PROVE \A q \in Requests : Quiet(q)
  BY <1>8 DEF StopWire
<1>9. ASSUME NEW r \in Requests, Close(r) PROVE \A q \in Requests : Quiet(q)
  BY <1>9 DEF Close
<1>10. ASSUME NEW r \in Requests, Cleanup(r) PROVE \A q \in Requests : Quiet(q)
  BY <1>10 DEF Cleanup
<1>11. ASSUME NEW r \in Requests, Unhook(r) PROVE \A q \in Requests : Quiet(q)
  BY <1>11 DEF Unhook
<1>12. ASSUME NEW r \in Requests, Finalize(r) PROVE \A q \in Requests : Quiet(q)
  BY <1>12 DEF Finalize
<1>13. ASSUME NEW d \in Deletes, Delete(d) PROVE \A q \in Requests : Quiet(q)
  BY <1>13 DEF Delete
<1>14. ASSUME NEW t \in Threads, SetCancelled(t) PROVE \A q \in Requests : Quiet(q)
  BY <1>14 DEF SetCancelled, CancelTo
<1>15. ASSUME NEW t \in Threads, CopyHook(t) PROVE \A q \in Requests : Quiet(q)
  BY <1>15 DEF CopyHook, CancelTo
<1>16. ASSUME NEW t \in Threads, TestAlive(t) PROVE \A q \in Requests : Quiet(q)
  BY <1>16 DEF TestAlive, CancelTo
<1>17. ASSUME NEW t \in Threads, CallStop(t) PROVE \A q \in Requests : Quiet(q)
  BY <1>17 DEF CallStop, CancelTo
<1>18. ASSUME NEW t \in Threads, FinalizeVictim(t) PROVE \A q \in Requests : Quiet(q)
  BY <1>18 DEF FinalizeVictim, CancelTo
<1>19. ASSUME Expire PROVE \A q \in Requests : Quiet(q)
  BY <1>19 DEF Expire
<1>20. ASSUME StopGc PROVE \A q \in Requests : Quiet(q)
  <2>1. taken = {}
    BY <1>20 DEF StopGc, Control
  <2> QED BY <1>20, <2>1 DEF StopGc
<1>21. ASSUME FinalizeTaken PROVE \A q \in Requests : Quiet(q)
  BY <1>21 DEF FinalizeTaken
<1>22. ASSUME NEW g \in Readers, Check(g) PROVE \A q \in Requests : Quiet(q)
  BY <1>22 DEF Check, ReaderTo
<1>23. ASSUME NEW g \in Readers, CheckLost(g) PROVE \A q \in Requests : Quiet(q)
  BY <1>23 DEF CheckLost, ReaderTo, ReaderEnds
<1>24. ASSUME NEW g \in Readers, ReadLost(g) PROVE \A q \in Requests : Quiet(q)
  BY <1>24 DEF ReadLost, ReaderTo, ReaderEnds
<1>25. ASSUME NEW g \in Readers, ReadChunk(g) PROVE \A q \in Requests : Quiet(q)
  BY <1>25 DEF ReadChunk, ReaderTo
<1>26. ASSUME NEW g \in Readers, ReadDone(g) PROVE \A q \in Requests : Quiet(q)
  BY <1>26 DEF ReadDone, ReaderTo
<1>27. ASSUME NEW g \in Readers, LeaveReader(g) PROVE \A q \in Requests : Quiet(q)
  BY <1>27 DEF LeaveReader, ReaderTo, ReaderEnds
<1>28. ASSUME NEW g \in Readers, GetUnknown(g) PROVE \A q \in Requests : Quiet(q)
  BY <1>28 DEF GetUnknown, ReaderTo, ReaderEnds
<1>29. ASSUME NEW g \in Readers, NEW offset \in Offsets, Get(g, offset)
       PROVE \A q \in Requests : Quiet(q)
  BY <1>29 DEF Get, ReaderTo
<1> QED BY <1>1, <1>2, <1>3, <1>4, <1>5, <1>6, <1>7, <1>8, <1>9, <1>10, <1>11, <1>12, <1>13,
       <1>14, <1>15, <1>16, <1>17, <1>18, <1>19, <1>20, <1>21, <1>22, <1>23, <1>24, <1>25, <1>26,
       <1>27, <1>28, <1>29
     DEF Next, RequestNext, RunNext, CancelNext, ReaderNext, ReadNext, ManagerNext

LEMMA RightGrows ==
  ASSUME TypeOK, TypeOK', NEW q \in Requests, Grown(q)
  PROVE  Right(q) \subseteq Right(q)'
BY DEF Grown, Right, TypeOK

LEMMA Lengths ==
  ASSUME TypeOK, NEW r \in Requests
  PROVE  /\ buffer[r] \in Seq(Nat) /\ prefix_dropped[r] \in Nat /\ output[r] \in Seq(Nat)
         /\ made[r] \in Nat /\ End(r) \in Nat
<1>1. /\ buffer[r] \in Seq(Nat) /\ prefix_dropped[r] \in Nat /\ output[r] \in Seq(Nat)
      /\ made[r] \in Nat
  BY DEF TypeOK
<1> QED BY <1>1 DEF End

LEMMA PlacedMore ==
  ASSUME NEW s, NEW off, NEW B, NEW C, B \subseteq C, Placed(s, off, B)
  PROVE  Placed(s, off, C)
BY DEF Placed

\* next() continues where the bytes made so far end.
LEMMA HeldNextChunk ==
  ASSUME TypeOK, TypeOK', Control, NEW r \in Requests, NextChunk(r), Held(r)
  PROVE  Held(r)' /\ Grown(r)
<1>1. PICK n \in Sizes : /\ made' = [made EXCEPT ![r] = @ + n]
                         /\ Returns(r, [k \in 1..n |-> made[r] + k], FALSE)
  BY DEF NextChunk
<1> DEFINE c == [k \in 1..n |-> made[r] + k]
           m == made[r]
<1>2. n \in Nat /\ m \in Nat /\ c \in Seq(Nat) /\ Len(c) = n /\ \A k \in 1..n : c[k] = m + k
  <2>1. n \in Nat /\ m \in Nat
    BY StreamAssumption DEF TypeOK
  <2> QED BY <2>1, Chunk
<1>3. ~ended[r] /\ ~ended'[r] /\ rpc[r] = "next" /\ output[r] = <<>>
  BY DEF NextChunk, Returns, Control, Flow
<1>4. made'[r] = m + n /\ output'[r] = c
  BY <1>1 DEF Returns, TypeOK
<1>5. UNCHANGED <<buffer, prefix_dropped, done, cancelled, taken>>
  BY <1>1 DEF Returns, sessions, manager
<1> HIDE DEF c
<1>6. Grown(r)
  BY <1>2, <1>3, <1>4, <1>5 DEF Grown, End
<1>7. Placed(buffer[r], prefix_dropped[r], Right(r)')
  BY <1>6, RightGrows, PlacedMore DEF Held
<1>8. End(r) \in Nat
  BY Lengths
<1>9. ASSUME Open(r) PROVE m = End(r)
  BY <1>2, <1>3, <1>8, <1>9 DEF Held
<1>10. ASSUME ~done[r] PROVE Placed(c, End(r), Right(r)')
  <2>1. m = End(r)
    BY <1>9, <1>10 DEF Open
  <2>2. \A k \in 1..n : m + k \in Nat /\ m + k <= m + n
    BY <1>2
  <2> QED BY <1>2, <1>4, <2>1, <2>2 DEF Placed, Right
<1>11. End(r)' = End(r) /\ done'[r] = done[r] /\ (Open(r)' <=> Open(r))
  BY <1>5 DEF End, Open
<1> HIDE DEF m
<1>12. (Open(r))' => /\ (made[r] <= End(r) + Len(output[r]))'
                     /\ (ended[r] \/ made[r] = End(r) + Len(output[r]))'
  BY <1>2, <1>4, <1>8, <1>9, <1>11
<1> QED BY <1>4, <1>5, <1>6, <1>7, <1>10, <1>11, <1>12 DEF Held

\* The end marker comes behind every byte made.
LEMMA HeldNextEnd ==
  ASSUME TypeOK, TypeOK', Control, NEW r \in Requests, NextEnd(r), Held(r)
  PROVE  Held(r)' /\ Grown(r)
<1>1. /\ ended'[r] = TRUE /\ output'[r] = Marker /\ rpc[r] = "next" /\ output[r] = <<>>
      /\ UNCHANGED <<made, buffer, prefix_dropped, done, cancelled, taken>>
  BY DEF NextEnd, Returns, sessions, manager, TypeOK, Flags, Control, Flow
<1>2. Grown(r) /\ End(r)' = End(r) /\ (Open(r)' <=> Open(r)) /\ End(r) \in Nat /\ made[r] \in Nat
  <2>1. End(r)' = End(r) /\ (Open(r)' <=> Open(r)) /\ done'[r] = done[r] /\ made'[r] = made[r]
    BY <1>1 DEF End, Open
  <2> QED BY <1>1, <2>1, Lengths DEF Grown
<1>3. Placed(buffer[r], prefix_dropped[r], Right(r)')
  BY <1>2, RightGrows, PlacedMore DEF Held
<1>4. ASSUME Open(r) PROVE made[r] <= End(r)
  BY <1>1, <1>2, <1>4 DEF Held
<1>5. ASSUME ~done[r] PROVE Placed(Marker, End(r), Right(r)')
  <2>1. made[r] <= End(r)
    BY <1>4, <1>5 DEF Open
  <2>2. \A k \in 1..Len(Marker) : End(r) + k \in Nat /\ ~(End(r) + k <= made[r])
    BY <1>2, <2>1, MarkerIs
  <2> QED BY <1>1, <2>2, MarkerIs DEF Placed, Right
<1>6. Open(r) => made[r] <= End(r) + Len(Marker)
  BY <1>2, <1>4, MarkerIs
<1> QED BY <1>1, <1>2, <1>3, <1>5, <1>6 DEF Held

\* A chunk goes behind the bytes that the session has.
LEMMA HeldWrite ==
  ASSUME TypeOK, TypeOK', Control, NEW r \in Requests, Write(r), Held(r)
  PROVE  Held(r)' /\ Grown(r)
<1>1. /\ AppendData(r, output[r]) /\ output'[r] = <<>> /\ rpc[r] = "write"
      /\ UNCHANGED <<made, ended, done, cancelled, taken>>
  BY DEF Write, manager, TypeOK
<1>2. output[r] \in Seq(Nat) /\ buffer[r] \in Seq(Nat) /\ prefix_dropped[r] \in Nat /\ made[r] \in Nat
      /\ End(r) \in Nat
  BY Lengths
<1>3. Placed(buffer[r], prefix_dropped[r], Right(r)) /\ (~done[r] => Placed(output[r], End(r), Right(r)))
  BY DEF Held
<1>4. /\ Placed(buffer'[r], prefix_dropped'[r], Right(r))
      /\ End(r)' = End(r) + IF done[r] THEN 0 ELSE Len(output[r])
  BY <1>1, <1>2, <1>3, Appended DEF End
<1>5. Right(r)' = Right(r) /\ (Open(r)' <=> Open(r)) /\ Grown(r)
  BY <1>1, <1>2, <1>4 DEF Right, Open, Grown
<1>6. ~done[r] => Placed(output'[r], End(r)', Right(r)')
  BY <1>1 DEF Placed
<1>7. Open(r) => ~done[r]
  BY <1>1 DEF Open, Control, Flow
<1>8. ASSUME Open(r) PROVE made[r] <= End(r)' + 0 /\ (ended[r] \/ made[r] = End(r)' + 0)
  BY <1>2, <1>4, <1>7, <1>8 DEF Held
<1> QED BY <1>1, <1>4, <1>5, <1>6, <1>8 DEF Held

LEMMA HeldQuiet ==
  ASSUME TypeOK, TypeOK', NEW r \in Requests, Quiet(r), Held(r)
  PROVE  Held(r)' /\ Grown(r)
<1>1. Grown(r) /\ End(r)' = End(r) /\ (Open(r)' => Open(r))
  <2>1. End(r)' = End(r) /\ (Open(r)' => Open(r))
    BY DEF Quiet, End, Open
  <2>2. made[r] <= made'[r]
    BY Lengths DEF Quiet
  <2> QED BY <2>1, <2>2 DEF Grown, Quiet
<1>2. Placed(buffer'[r], prefix_dropped'[r], Right(r)')
  BY <1>1, RightGrows, PlacedMore DEF Held, Quiet
<1>3. ~done'[r] => Placed(output'[r], End(r)', Right(r)')
  BY <1>1, RightGrows, PlacedMore DEF Held, Quiet
<1> QED BY <1>1, <1>2, <1>3 DEF Held, Quiet

LEMMA NextHeld ==
  ASSUME TypeOK, TypeOK', Control, \A q \in Requests : Held(q), Next
  PROVE  \A q \in Requests : Held(q)' /\ Grown(q)
<1>1. ASSUME NEW r \in Requests, NextChunk(r) \/ NextEnd(r) \/ Write(r)
      PROVE  \A q \in Requests : Held(q)' /\ Grown(q)
  <2>1. Held(r)' /\ Grown(r)
    BY <1>1, HeldNextChunk, HeldNextEnd, HeldWrite
  <2>2. ASSUME NEW q \in Requests, q # r PROVE Quiet(q)
    <3>1. CASE NextChunk(r)
      <4>1. made'[q] = made[q] /\ UNCHANGED ended
        BY <2>2, <3>1 DEF NextChunk, TypeOK
      <4>2. output'[q] = output[q] /\ UNCHANGED <<sessions, manager>>
        BY <2>2, <3>1 DEF NextChunk, Returns, TypeOK
      <4> QED BY <4>1, <4>2 DEF Quiet, sessions, manager
    <3>2. CASE NextEnd(r)
      <4>1. ended'[q] = ended[q] /\ UNCHANGED made
        BY <2>2, <3>2 DEF NextEnd, TypeOK, Flags
      <4>2. output'[q] = output[q] /\ UNCHANGED <<sessions, manager>>
        BY <2>2, <3>2 DEF NextEnd, Returns, TypeOK
      <4> QED BY <4>1, <4>2 DEF Quiet, sessions, manager
    <3>3. CASE Write(r)
      <4>1. output'[q] = output[q] /\ UNCHANGED <<made, ended, done, cancelled, taken>>
        BY <2>2, <3>3 DEF Write, TypeOK, manager
      <4>2. AppendData(r, output[r])
        BY <3>3 DEF Write
      <4>3. buffer'[q] = buffer[q] /\ prefix_dropped'[q] = prefix_dropped[q]
        <5>1. CASE output[r] = <<>> \/ done[r]
          BY <4>2, <5>1 DEF AppendData
        <5>2. CASE ~(output[r] = <<>> \/ done[r])
          BY <2>2, <4>2, <5>2 DEF AppendData, TypeOK
        <5> QED BY <5>1, <5>2
      <4> QED BY <4>1, <4>3 DEF Quiet
    <3> QED BY <1>1, <3>1, <3>2, <3>3
  <2>3. \A q \in Requests \ {r} : Held(q)' /\ Grown(q)
    BY <2>2, HeldQuiet
  <2> QED BY <2>1, <2>3
<1>2. CASE ~ \E r \in Requests : NextChunk(r) \/ NextEnd(r) \/ Write(r)
  BY <1>2, QuietSteps, HeldQuiet
<1> QED BY <1>1, <1>2

-----------------------------------------------------------------------------
(* Readers.                                                                *)

\* A reader that does not move keeps what it has.
LEMMA StaysReceived ==
  ASSUME TypeOK, TypeOK', \A q \in Requests : Grown(q), NEW g \in Readers, Received(g),
         gpc'[g] = gpc[g], session'[g] = session[g], from'[g] = from[g], got'[g] = got[g]
  PROVE  Received(g)'
<1>1. CASE gpc[g] \in {"check", "reading", "complete"}
  <2> DEFINE s == session[g]
  <2>1. s \in Requests /\ Placed(got[g], from[g], Right(s))
    BY <1>1 DEF Received
  <2>2. Placed(got[g], from[g], Right(s)')
    <3>1. Right(s) \subseteq Right(s)'
      BY <2>1, RightGrows
    <3> HIDE DEF s
    <3> QED BY <2>1, <3>1, PlacedMore
  <2>3. gpc[g] = "complete" => done'[s] /\ End(s)' = End(s) /\ Offset(g)' >= End(s)
    BY <1>1, <2>1 DEF Received, Grown, Offset
  <2>4. Right(session[g])' = Right(s)' /\ End(session[g])' = End(s)'
    BY DEF Right, End
  <2> QED BY <1>1, <2>1, <2>2, <2>3, <2>4 DEF Received
<1>2. CASE gpc[g] \notin {"check", "reading", "complete"}
  BY <1>2 DEF Received
<1> QED BY <1>1, <1>2

\* A response that ended has nothing.
LEMMA EndedReceived ==
  ASSUME TypeOK, NEW g \in Readers, NEW there, NEW how \in {"refused", "lost", "left"},
         ReaderEnds(g, there, how)
  PROVE  Received(g)'
BY DEF ReaderEnds, ReaderTo, Received, TypeOK

\* read_from() continues behind the bytes the reader has.
LEMMA ChunkReceived ==
  ASSUME TypeOK, NEW g \in Readers, ReadChunk(g), Received(g), \A q \in Requests : Held(q)
  PROVE  Received(g)'
<1> DEFINE s == session[g]
           b == buffer[s]
           p == prefix_dropped[s]
           m == End(s) - Offset(g)
<1>1. s \in Requests /\ Placed(got[g], from[g], Right(s)) /\ gpc'[g] = "reading"
      /\ got'[g] = got[g] \o Suffix(b, m)
      /\ UNCHANGED <<session, from, buffer, prefix_dropped, made, ended, done>>
  BY DEF ReadChunk, ReaderTo, Received, TypeOK, sessions, producer
<1>2. b \in Seq(Nat) /\ p \in Nat /\ got[g] \in Seq(Nat) /\ from[g] \in Nat /\ Placed(b, p, Right(s))
  BY <1>1 DEF TypeOK, Held
<1>3. Len(b) \in Nat /\ Len(got[g]) \in Nat /\ End(s) = p + Len(b) /\ Offset(g) = from[g] + Len(got[g])
      /\ Offset(g) >= p /\ Offset(g) < End(s)
  BY <1>2 DEF End, Offset, ReadChunk
<1>4. Right(session[g])' = Right(s)
  BY <1>1 DEF Right
<1> HIDE DEF b, p, s
<1>5. m \in Nat /\ m <= Len(b) /\ p + Len(b) - m = from[g] + Len(got[g])
  BY <1>2, <1>3, SMTT(30)
<1> HIDE DEF m
<1>6. Suffix(b, m) \in Seq(Nat) /\ Placed(Suffix(b, m), p + Len(b) - m, Right(s))
  BY <1>2, <1>5, SuffixIs, PlacedSuffix
<1>7. Placed(got[g] \o Suffix(b, m), from[g], Right(s))
  BY <1>1, <1>2, <1>5, <1>6, PlacedConcat
<1>8. session'[g] \in Requests /\ from'[g] = from[g]
  BY <1>1 DEF s
<1> QED BY <1>1, <1>4, <1>7, <1>8 DEF Received

LEMMA NextReceived ==
  ASSUME TypeOK, TypeOK', Control, Next, \A q \in Requests : Held(q), \A g \in Readers : Received(g)
  PROVE  \A g \in Readers : Received(g)'
<1>1. \A q \in Requests : Grown(q)
  BY NextHeld
<1>2. ASSUME UNCHANGED readers
      PROVE  \A g \in Readers : Received(g)'
  BY <1>1, <1>2, StaysReceived DEF readers
<1>3. ASSUME NEW g \in Readers, ReaderNext(g)
      PROVE  \A h \in Readers : Received(h)'
  <2>1. ASSUME NEW h \in Readers, h # g
        PROVE  Received(h)'
    <3>1. gpc'[h] = gpc[h] /\ session'[h] = session[h] /\ from'[h] = from[h] /\ got'[h] = got[h]
      BY <1>3, <2>1, ZenonT(40)
         DEF ReaderNext, ReadNext, Check, CheckLost, ReadLost, ReadChunk, ReadDone, LeaveReader,
             GetUnknown, Get, ReaderTo, ReaderEnds, TypeOK
    <3> QED BY <1>1, <3>1, StaysReceived
  <2>2. ASSUME CheckLost(g) \/ ReadLost(g) \/ LeaveReader(g) \/ GetUnknown(g) PROVE Received(g)'
    BY <2>2, EndedReceived DEF CheckLost, ReadLost, LeaveReader, GetUnknown
  <2>3. ASSUME ReadChunk(g) PROVE Received(g)'
    BY <2>3, ChunkReceived
  <2>4. ASSUME Check(g) PROVE Received(g)'
    <3>1. /\ gpc[g] = "check" /\ gpc'[g] = "reading" /\ UNCHANGED <<session, from, got, made, ended>>
      BY <2>4 DEF Check, ReaderTo, producer, TypeOK
    <3>2. Right(session[g])' = Right(session[g])
      BY <3>1 DEF Right
    <3> QED BY <3>1, <3>2 DEF Received
  <2>5. ASSUME ReadDone(g) PROVE Received(g)'
    <3>1. /\ gpc[g] = "reading" /\ gpc'[g] = "complete"
          /\ UNCHANGED <<session, from, got, made, ended, done, buffer, prefix_dropped>>
          /\ Offset(g) >= End(session[g]) /\ done[session[g]]
      BY <2>5 DEF ReadDone, ReaderTo, sessions, producer, TypeOK
    <3>2. /\ Right(session[g])' = Right(session[g]) /\ End(session[g])' = End(session[g])
          /\ Offset(g)' = Offset(g)
      BY <3>1 DEF Right, End, Offset
    <3> QED BY <3>1, <3>2 DEF Received
  <2>6. ASSUME NEW offset \in Offsets, Get(g, offset)
        PROVE  Received(g)'
    <3>1. /\ gpc'[g] = "check" /\ gpc[g] = "new" /\ session'[g] = live /\ live \in Requests
          /\ got' = got
      BY <2>6 DEF Get, ReaderTo, TypeOK
    <3>2. got'[g] = <<>>
      BY <3>1 DEF Received
    <3>3. Placed(got'[g], from'[g], Right(session[g])')
      BY <3>2 DEF Placed
    <3> QED BY <3>1, <3>3 DEF Received
  <2>7. Received(g)'
    BY <1>3, <2>2, <2>3, <2>4, <2>5, <2>6 DEF ReaderNext, ReadNext
  <2> QED BY <2>1, <2>7
<1>4. ASSUME NEW r \in Requests, RequestNext(r) PROVE UNCHANGED readers
  BY <1>4 DEF RequestNext, RunNext, Create, Attach, NextChunk, NextEnd, NextStopped, Returns, Write,
              LosePeer, StopWire, Close, Cleanup, Unhook, Finalize
<1>5. ASSUME NEW d \in Deletes, Delete(d) PROVE UNCHANGED readers
  BY <1>5 DEF Delete
<1>6. ASSUME NEW t \in Threads, CancelNext(t) PROVE UNCHANGED readers
  BY <1>6 DEF CancelNext, SetCancelled, CopyHook, TestAlive, CallStop, FinalizeVictim, CancelTo
<1>7. ASSUME ManagerNext PROVE UNCHANGED readers
  BY <1>7 DEF ManagerNext, Expire, StopGc, FinalizeTaken
<1> QED BY <1>2, <1>3, <1>4, <1>5, <1>6, <1>7 DEF Next

-----------------------------------------------------------------------------
(* The invariant holds.                                                    *)

LEMMA InitInv == Init => Inv
<1> SUFFICES ASSUME Init PROVE Inv
  OBVIOUS
<1>1. TypeOK
  BY InitTypes
<1>2. Control /\ OneLive
  BY DEF Init, Control, Flow, Cancelling, OneLive, Threads
<1>3. ASSUME NEW r \in Requests PROVE Held(r)
  <2>1. buffer[r] = <<>> /\ output[r] = <<>> /\ made[r] = 0 /\ End(r) = 0
    BY DEF Init, End
  <2> QED BY <2>1 DEF Held, Placed
<1>4. ASSUME NEW g \in Readers PROVE Received(g)
  BY DEF Init, Received
<1> QED BY <1>1, <1>2, <1>3, <1>4 DEF Inv

LEMMA StutterInv ==
  ASSUME Inv, UNCHANGED vars
  PROVE  Inv'
<1> USE DEF vars, sessions, producer, cancels, readers, manager
<1>1. TypeOK'
  BY DEF Inv, TypeOK
<1>2. Control' /\ OneLive'
  BY DEF Inv, Control, Flow, Cancelling, OneLive
<1>3. ASSUME NEW r \in Requests PROVE Held(r)'
  BY DEF Inv, Held, Placed, Right, End, Open
<1>4. ASSUME NEW g \in Readers PROVE Received(g)'
  BY DEF Inv, Received, Placed, Right, End, Offset
<1> QED BY <1>1, <1>2, <1>3, <1>4 DEF Inv

LEMMA NextInv ==
  ASSUME Inv, Next
  PROVE  Inv'
<1>1. TypeOK /\ Control /\ OneLive /\ (\A r \in Requests : Held(r)) /\ \A g \in Readers : Received(g)
  BY DEF Inv
<1>2. TypeOK'
  BY <1>1, NextTypes
<1>3. Control'
  BY <1>1, NextControl
<1>4. OneLive'
  BY <1>1, NextOneLive
<1>5. \A r \in Requests : Held(r)'
  BY <1>1, <1>2, NextHeld
<1>6. \A g \in Readers : Received(g)'
  BY <1>1, <1>2, NextReceived
<1> QED BY <1>2, <1>3, <1>4, <1>5, <1>6 DEF Inv

\* The invariant of every reachable state: types, control, one live session,
\* and every byte in its place.
THEOREM Invariant == Spec => []Inv
<1>1. Inv /\ [Next]_vars => Inv'
  BY NextInv, StutterInv
<1> QED BY InitInv, <1>1, PTL DEF Spec

\* The variables keep their types and the buffer never outgrows its cap.
THEOREM Types == Spec => []TypeOK
<1>1. Inv => TypeOK
  BY DEF Inv
<1> QED BY Invariant, <1>1, PTL

LEMMA ReplayFollows == Inv => ReplayExact
<1> SUFFICES ASSUME Inv, NEW g \in Readers
             PROVE  /\ \A k \in DOMAIN got[g] :
                         IF from[g] + k <= made[session[g]] THEN got[g][k] = from[g] + k
                         ELSE got[g][k] = 0 /\ ended[session[g]]
                    /\ gpc[g] = "complete" => Offset(g) >= End(session[g])
  BY DEF ReplayExact
<1>1. Received(g) /\ got[g] \in Seq(Nat)
  BY DEF Inv, TypeOK
<1>2. CASE gpc[g] \in {"check", "reading", "complete"}
  <2>1. \A k \in 1..Len(got[g]) : <<from[g] + k, got[g][k]>> \in Right(session[g])
    BY <1>1, <1>2 DEF Received, Placed
  <2>2. DOMAIN got[g] = 1..Len(got[g])
    BY <1>1
  <2> QED BY <1>1, <1>2, <2>1, <2>2 DEF Right, Received
<1>3. CASE gpc[g] \notin {"check", "reading", "complete"}
  <2>1. DOMAIN got[g] = {}
    BY <1>1, <1>3 DEF Received
  <2> QED BY <1>3, <2>1
<1> QED BY <1>2, <1>3

\* "replays buffered SSE bytes": whatever is dropped, cancelled or finalized in
\* the meantime, a reader receives the bytes of one generation from its offset
\* on, without a gap or a repetition, and a complete response has them all.
THEOREM Replays == Spec => []ReplayExact
BY Invariant, ReplayFollows, PTL

LEMMA WholeFollows == Inv => WholeGeneration
<1> SUFFICES ASSUME Inv, NEW r \in Requests, done[r], ~cancelled[r], r \notin taken
             PROVE  ended[r] /\ End(r) >= made[r]
  BY DEF WholeGeneration
<1>1. TypeOK /\ Flow(r) /\ Held(r)
  BY DEF Inv, Control
<1>2. rpc[r] = "gone" /\ ended[r] /\ output[r] = <<>>
  BY <1>1 DEF Flow
<1>3. made[r] <= End(r) + 0
  BY <1>1, <1>2 DEF Held, Open
<1> QED BY <1>1, <1>2, <1>3, Lengths

\* "survives HTTP disconnect": a session nobody cancelled ends with the whole
\* generation in it, wherever the client left.
THEOREM Whole == Spec => []WholeGeneration
BY Invariant, WholeFollows, PTL

\* "one conv = at most one live session".
THEOREM AtMostOneLive == Spec => []OneLive
<1>1. Inv => OneLive
  BY DEF Inv
<1> QED BY Invariant, <1>1, PTL
=============================================================================
