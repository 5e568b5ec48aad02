---------------------------- MODULE StreamSession ----------------------------
(***************************************************************************)
(* Resumable streams of llama-server: one conversation.                    *)
(*                                                                         *)
(* A streaming request with an X-Conversation-Id mirrors its output into a *)
(* session, a byte buffer of bounded size that survives the connection.    *)
(* GET replays a session from an offset and follows it; DELETE, or a new   *)
(* request of the same conversation, takes it out of the map, cancels its  *)
(* producer and finalizes it.  When the client drops, the producer drains  *)
(* the rest of the generation into the session.                            *)
(* (tools/server/server-stream.cpp, its use in server-http.cpp and         *)
(* server-context.cpp)                                                     *)
(*                                                                         *)
(* Byte number k of a generation is k, and 0 is the end marker ([DONE]).   *)
(* A session is named by the request that created it.  Left out: the       *)
(* lookup of sessions, which only reads, and the reader's own timeout.     *)
(***************************************************************************)
EXTENDS Integers, Sequences

CONSTANTS
    Requests,   \* POSTs of the conversation
    Streamed,   \* those with "stream": true
    Readers,    \* GETs of the conversation
    Deletes,    \* DELETEs of the conversation
    NoSession,
    Sizes,      \* bytes in a chunk
    Marker,     \* what ends a generation: <<0>> or <<>>, by response format
    MaxBytes,   \* bound on the bytes of one generation
    Offsets,    \* offsets a GET asks for
    Cap         \* STREAM_SESSION_MAX_BYTES

Threads == Requests \cup Deletes  \* those that cancel a session

ASSUME StreamAssumption ==
    /\ NoSession \notin Requests /\ Requests \cap Deletes = {}
    /\ Streamed \subseteq Requests /\ Marker \in {<<>>, <<0>>}
    /\ Sizes \subseteq Nat \ {0}
    /\ Offsets \subseteq Nat /\ MaxBytes \in Nat /\ Cap \in Nat \ {0}

VARIABLES
    live,            \* the session in the map
    buffer, prefix_dropped, done, cancelled,
    stop_producer,   \* [session -> its stop hook is set]
    alive,           \* [request -> the flag the hook tests]
    rpc,             \* [request -> control point]
    made, ended,     \* [request -> bytes generated, generation over]
    output, last,    \* [request -> what next() returned: a chunk, no more]
    peer,            \* [request -> client connected]
    closing, done_,  \* [request -> drains in close(), ended on the wire]
    tpc, victim,     \* [thread -> control point in cancel, the session]
    gpc, session, from, got,  \* [reader -> ...; from: offset, got: bytes]
    shutdown, taken  \* stop_gc, the sessions it finalizes

sessions == <<buffer, prefix_dropped, done, cancelled, stop_producer>>
producer == <<alive, rpc, made, ended, output, last, peer, closing, done_>>
cancels  == <<tpc, victim>>
readers  == <<gpc, session, from, got>>
manager  == <<live, shutdown, taken>>
vars     == <<sessions, producer, cancels, readers, manager>>

RequestStates == {"handler", "attach", "next", "write", "close",
                  "cleanup", "unhook", "finalize", "gone"}
CancelStates  == {"idle", "flag", "hook", "alive", "stop", "finalize"}
ReaderStates  == {"new", "check", "reading", "refused", "lost", "complete", "left"}

Flags == [Requests -> BOOLEAN]
TypeOK ==
    /\ live \in Requests \cup {NoSession}
    /\ buffer \in [Requests -> Seq(Nat)] /\ \A r \in Requests : Len(buffer[r]) <= Cap
    /\ prefix_dropped \in [Requests -> Nat] /\ made \in [Requests -> Nat]
    /\ output \in [Requests -> Seq(Nat)]
    /\ done \in Flags /\ cancelled \in Flags /\ stop_producer \in Flags /\ alive \in Flags
    /\ ended \in Flags /\ last \in Flags /\ peer \in Flags /\ closing \in Flags /\ done_ \in Flags
    /\ rpc \in [Requests -> RequestStates]
    /\ tpc \in [Threads -> CancelStates]
    /\ victim \in [Threads -> Requests \cup {NoSession}]
    /\ gpc \in [Readers -> ReaderStates]
    /\ session \in [Readers -> Requests \cup {NoSession}]
    /\ from \in [Readers -> Nat] /\ got \in [Readers -> Seq(Nat)]
    /\ shutdown \in {"no", "clear", "over"} /\ taken \subseteq Requests

Init ==
    /\ live = NoSession /\ shutdown = "no" /\ taken = {}
    /\ buffer = [r \in Requests |-> <<>>]
    /\ prefix_dropped = [r \in Requests |-> 0]
    /\ done = [r \in Requests |-> FALSE] /\ cancelled = done
    /\ stop_producer = done /\ alive = done
    /\ rpc = [r \in Requests |-> "handler"]
    /\ made = [r \in Requests |-> 0]
    /\ output = [r \in Requests |-> <<>>]
    /\ ended = done /\ last = done /\ closing = done /\ done_ = done
    /\ peer = [r \in Requests |-> TRUE]
    /\ tpc = [t \in Threads |-> "idle"]
    /\ victim = [t \in Threads |-> NoSession]
    /\ gpc = [g \in Readers |-> "new"]
    /\ session = [g \in Readers |-> NoSession]
    /\ from = [g \in Readers |-> 0]
    /\ got = [g \in Readers |-> <<>>]

-----------------------------------------------------------------------------
(* The session buffer.                                                     *)

End(r) == prefix_dropped[r] + Len(buffer[r])
Suffix(s, n) == SubSeq(s, Len(s) - n + 1, Len(s))

\* Faulty variant: the bytes dropped from the front are not counted.
Append_Uncounted(r, data) ==
    IF data = <<>> \/ done[r] THEN UNCHANGED <<buffer, prefix_dropped>>
    ELSE LET all  == buffer[r] \o data
             kept == IF Len(all) > Cap THEN Suffix(all, Cap) ELSE all
         IN buffer' = [buffer EXCEPT ![r] = kept] /\ UNCHANGED prefix_dropped
\* append: a finalized session takes nothing; otherwise the last Cap bytes are
\* kept and the others counted as dropped.
AppendData(r, data) ==
    IF data = <<>> \/ done[r] THEN UNCHANGED <<buffer, prefix_dropped>>
    ELSE LET all  == buffer[r] \o data
             kept == IF Len(all) > Cap THEN Suffix(all, Cap) ELSE all
         IN /\ buffer' = [buffer EXCEPT ![r] = kept]
            /\ prefix_dropped' = [prefix_dropped EXCEPT ![r] = @ + Len(all) - Len(kept)]

-----------------------------------------------------------------------------
(* The producer: the HTTP thread of a request.                             *)

\* Faulty variant: the previous session is forgotten.
Create_Forget(r) ==
    /\ rpc[r] = "handler"
    /\ live' = r
    /\ rpc' = [rpc EXCEPT ![r] = "attach"]
    /\ UNCHANGED <<sessions, alive, made, ended, output, last, peer, closing, done_,
                   cancels, readers, shutdown, taken>>

\* create_or_replace: the new session takes the place of the previous one,
\* which this thread then cancels and finalizes outside the lock.
Create(r) ==
    /\ rpc[r] = "handler"
    /\ live' = r
    /\ rpc' = [rpc EXCEPT ![r] = "attach"]
    /\ IF live = NoSession THEN UNCHANGED cancels
       ELSE tpc' = [tpc EXCEPT ![r] = "flag"] /\ victim' = [victim EXCEPT ![r] = live]
    /\ UNCHANGED <<sessions, alive, made, ended, output, last, peer, closing, done_,
                   readers, shutdown, taken>>

\* stream_pipe_producer::create sets the stop hook.  A response that is not
\* streamed has nothing to write and is destroyed.
Attach(r) ==
    /\ rpc[r] = "attach" /\ tpc[r] = "idle"
    /\ alive' = [alive EXCEPT ![r] = TRUE]
    /\ stop_producer' = [stop_producer EXCEPT ![r] = TRUE]
    /\ rpc' = [rpc EXCEPT ![r] = IF r \in Streamed THEN "next" ELSE "cleanup"]
    /\ ended' = [ended EXCEPT ![r] = r \notin Streamed]
    /\ UNCHANGED <<buffer, prefix_dropped, done, cancelled, made, output, last, peer,
                   closing, done_, cancels, readers, manager>>

Returns(r, chunk, over) ==
    /\ rpc[r] = "next"
    /\ output' = [output EXCEPT ![r] = chunk]
    /\ last' = [last EXCEPT ![r] = over]
    /\ rpc' = [rpc EXCEPT ![r] = "write"]
    /\ UNCHANGED <<sessions, alive, peer, closing, done_, cancels, readers, manager>>

\* next() returns the next chunk.
NextChunk(r) ==
    /\ ~cancelled[r] /\ ~ended[r]
    /\ \E n \in Sizes :
         /\ made[r] + n <= MaxBytes
         /\ made' = [made EXCEPT ![r] = @ + n]
         /\ Returns(r, [k \in 1..n |-> made[r] + k], FALSE)
    /\ UNCHANGED ended

\* The generation is over; most formats send an end marker.  Asked again,
\* next() says so again.
NextEnd(r) ==
    /\ ~cancelled[r]
    /\ ended' = [ended EXCEPT ![r] = TRUE]
    /\ Returns(r, Marker, TRUE)
    /\ UNCHANGED made

\* Faulty variant: only the client's leaving stops the producer.
NextStopped_PeerOnly(r) ==
    ~peer[r] /\ Returns(r, <<>>, TRUE) /\ UNCHANGED <<made, ended>>
\* server_stream_aware_should_stop: cancelled.
NextStopped(r) ==
    cancelled[r] /\ Returns(r, <<>>, TRUE) /\ UNCHANGED <<made, ended>>

\* The chunk goes into the session first, then onto the wire; a failed write
\* ends the wire path before done() is reached.
Write(r) ==
    /\ rpc[r] = "write"
    /\ AppendData(r, output[r])
    /\ LET failed == ~closing[r] /\ ~peer[r] /\ output[r] # <<>> IN
       /\ rpc' = [rpc EXCEPT ![r] = IF failed THEN "close" ELSE
                                    IF ~last[r] THEN "next" ELSE
                                    IF closing[r] THEN "cleanup" ELSE "close"]
       /\ done_' = [done_ EXCEPT ![r] = @ \/ (last[r] /\ ~closing[r] /\ ~failed)]
    /\ output' = [output EXCEPT ![r] = <<>>] /\ last' = [last EXCEPT ![r] = FALSE]
    /\ UNCHANGED <<done, cancelled, stop_producer, alive, made, ended, peer, closing,
                   cancels, readers, manager>>

\* The client drops the connection; httplib notices before it calls next().
LosePeer(r) ==
    /\ peer[r] /\ rpc[r] \in {"attach", "next", "write"} /\ ~closing[r]
    /\ peer' = [peer EXCEPT ![r] = FALSE]
    /\ UNCHANGED <<sessions, alive, rpc, made, ended, output, last, closing, done_,
                   cancels, readers, manager>>
StopWire(r) ==
    /\ rpc[r] = "next" /\ ~closing[r] /\ ~peer[r]
    /\ rpc' = [rpc EXCEPT ![r] = "close"]
    /\ UNCHANGED <<sessions, alive, made, ended, output, last, peer, closing, done_,
                   cancels, readers, manager>>

\* Faulty variant: the rest of the generation is not drained.
Close_NoDrain(r) ==
    /\ rpc[r] = "close"
    /\ rpc' = [rpc EXCEPT ![r] = "cleanup"]
    /\ UNCHANGED <<sessions, alive, made, ended, output, last, peer, closing, done_,
                   cancels, readers, manager>>

\* on_complete: close() drains next() into the session, unless the end was
\* reached on the wire or the session is cancelled.
Close(r) ==
    /\ rpc[r] = "close"
    /\ IF done_[r] \/ cancelled[r]
       THEN rpc' = [rpc EXCEPT ![r] = "cleanup"] /\ UNCHANGED closing
       ELSE rpc' = [rpc EXCEPT ![r] = "next"] /\ closing' = [closing EXCEPT ![r] = TRUE]
    /\ UNCHANGED <<sessions, alive, made, ended, output, last, peer, done_,
                   cancels, readers, manager>>

\* The response is destroyed: cleanup() drops the guard and then the hook; last
\* of all the pipe finalizes the session.
Cleanup(r) ==
    /\ rpc[r] = "cleanup"
    /\ alive' = [alive EXCEPT ![r] = FALSE]
    /\ rpc' = [rpc EXCEPT ![r] = "unhook"]
    /\ UNCHANGED <<sessions, made, ended, output, last, peer, closing, done_,
                   cancels, readers, manager>>
Unhook(r) ==
    /\ rpc[r] = "unhook"
    /\ stop_producer' = [stop_producer EXCEPT ![r] = FALSE]
    /\ rpc' = [rpc EXCEPT ![r] = "finalize"]
    /\ UNCHANGED <<buffer, prefix_dropped, done, cancelled, alive, made, ended, output,
                   last, peer, closing, done_, cancels, readers, manager>>
\* Faulty variant: the pipe leaves the session open.
Finalize_Open(r) ==
    /\ rpc[r] = "finalize"
    /\ rpc' = [rpc EXCEPT ![r] = "gone"]
    /\ UNCHANGED <<sessions, alive, made, ended, output, last, peer, closing, done_,
                   cancels, readers, manager>>
Finalize(r) ==
    /\ rpc[r] = "finalize"
    /\ done' = [done EXCEPT ![r] = TRUE]
    /\ rpc' = [rpc EXCEPT ![r] = "gone"]
    /\ peer' = [peer EXCEPT ![r] = FALSE]
    /\ closing' = [closing EXCEPT ![r] = FALSE] /\ done_' = [done_ EXCEPT ![r] = FALSE]
    /\ UNCHANGED <<buffer, prefix_dropped, cancelled, stop_producer, alive, made, ended,
                   output, last, cancels, readers, manager>>

-----------------------------------------------------------------------------
(* Cancelling a session: DELETE, or the request that replaced it.          *)

\* evict_and_cancel.
Delete(d) ==
    /\ victim[d] = NoSession /\ live # NoSession
    /\ live' = NoSession
    /\ tpc' = [tpc EXCEPT ![d] = "flag"] /\ victim' = [victim EXCEPT ![d] = live]
    /\ UNCHANGED <<sessions, producer, readers, shutdown, taken>>

CancelTo(t, there, next) ==
    /\ tpc[t] = there
    /\ tpc' = [tpc EXCEPT ![t] = next]
    /\ UNCHANGED <<victim, buffer, prefix_dropped, stop_producer, producer, readers, manager>>

\* cancel(): the flag; the hook is copied under the lock; the hook is called,
\* it tests the guard, and only then calls stop() on the response.
SetCancelled(t) ==
    /\ CancelTo(t, "flag", "hook")
    /\ cancelled' = [cancelled EXCEPT ![victim[t]] = TRUE] /\ UNCHANGED done
CopyHook(t) ==
    /\ CancelTo(t, "hook", IF stop_producer[victim[t]] THEN "alive" ELSE "finalize")
    /\ UNCHANGED <<done, cancelled>>
TestAlive(t) ==
    /\ CancelTo(t, "alive", IF alive[victim[t]] THEN "stop" ELSE "finalize")
    /\ UNCHANGED <<done, cancelled>>
CallStop(t) ==
    CancelTo(t, "stop", "finalize") /\ UNCHANGED <<done, cancelled>>
FinalizeVictim(t) ==
    /\ CancelTo(t, "finalize", "idle")
    /\ done' = [done EXCEPT ![victim[t]] = TRUE] /\ UNCHANGED cancelled

CancelNext(t) == SetCancelled(t) \/ CopyHook(t) \/ TestAlive(t) \/ CallStop(t) \/ FinalizeVictim(t)

\* gc_loop drops a session some time after it was finalized.
Expire ==
    /\ shutdown = "no" /\ live # NoSession /\ done[live]
    /\ live' = NoSession
    /\ UNCHANGED <<sessions, producer, cancels, readers, shutdown, taken>>

\* stop_gc empties the map and then finalizes the sessions it took out.
StopGc ==
    /\ shutdown = "no" /\ shutdown' = "clear"
    /\ taken' = {live} \ {NoSession} /\ live' = NoSession
    /\ UNCHANGED <<sessions, producer, cancels, readers>>
FinalizeTaken ==
    /\ shutdown = "clear" /\ shutdown' = "over"
    /\ done' = [r \in Requests |-> done[r] \/ r \in taken]
    /\ UNCHANGED <<buffer, prefix_dropped, cancelled, stop_producer, producer, cancels,
                   readers, live, taken>>

-----------------------------------------------------------------------------
(* Readers: GET /v1/stream/<conv_id>?from=N.                               *)

ReaderTo(g, there, next) ==
    /\ gpc[g] = there
    /\ gpc' = [gpc EXCEPT ![g] = next]
    /\ UNCHANGED <<sessions, producer, cancels, manager>>

\* The response ends with nothing more to read.
ReaderEnds(g, there, how) ==
    /\ ReaderTo(g, there, how)
    /\ session' = [session EXCEPT ![g] = NoSession]
    /\ from' = [from EXCEPT ![g] = 0] /\ got' = [got EXCEPT ![g] = <<>>]

Get(g, offset) ==
    /\ live # NoSession /\ ReaderTo(g, "new", "check")
    /\ session' = [session EXCEPT ![g] = live] /\ from' = [from EXCEPT ![g] = offset]
    /\ UNCHANGED got
GetUnknown(g) == live = NoSession /\ ReaderEnds(g, "new", "refused")

Check(g) ==
    /\ ReaderTo(g, "check", "reading") /\ from[g] >= prefix_dropped[session[g]]
    /\ UNCHANGED <<session, from, got>>
CheckLost(g) ==
    ReaderEnds(g, "check", "refused") /\ from[g] < prefix_dropped[session[g]]

\* read_from: the offset was dropped, some bytes are there, or the session is
\* finalized; otherwise the reader waits.
Offset(g) == from[g] + Len(got[g])
ReadLost(g) ==
    ReaderEnds(g, "reading", "lost") /\ Offset(g) < prefix_dropped[session[g]]
ReadChunk(g) ==
    LET s == session[g] IN
    /\ ReaderTo(g, "reading", "reading")
    /\ Offset(g) >= prefix_dropped[s] /\ Offset(g) < End(s)
    /\ got' = [got EXCEPT ![g] = @ \o Suffix(buffer[s], End(s) - Offset(g))]
    /\ UNCHANGED <<session, from>>
ReadDone(g) ==
    /\ ReaderTo(g, "reading", "complete") /\ UNCHANGED <<session, from, got>>
    /\ Offset(g) >= End(session[g]) /\ done[session[g]]
\* The client of the GET leaves.
LeaveReader(g) == ReaderEnds(g, "reading", "left")

ReadNext(g) == Check(g) \/ CheckLost(g) \/ ReadLost(g) \/ ReadChunk(g) \/ ReadDone(g)

-----------------------------------------------------------------------------
\* What a producer does without waiting for the model.
RunNext(r) ==
    \/ Attach(r) \/ NextStopped(r) \/ Write(r) \/ StopWire(r)
    \/ Close(r) \/ Cleanup(r) \/ Unhook(r) \/ Finalize(r)
RequestNext(r) == Create(r) \/ NextChunk(r) \/ NextEnd(r) \/ LosePeer(r) \/ RunNext(r)
ReaderNext(g)  == ReadNext(g) \/ LeaveReader(g) \/ GetUnknown(g) \/ \E offset \in Offsets : Get(g, offset)
ManagerNext    == Expire \/ StopGc \/ FinalizeTaken

Next ==
    \/ \E r \in Requests : RequestNext(r)
    \/ \E d \in Deletes : Delete(d)
    \/ \E t \in Threads : CancelNext(t)
    \/ \E g \in Readers : ReaderNext(g)
    \/ ManagerNext

Spec == Init /\ [][Next]_vars

(* Fairness: every thread runs, but the model may be silent for ever and    *)
(* nobody has to send a request.                                            *)
FairSpec ==
    /\ Spec
    /\ \A r \in Requests : WF_vars(RunNext(r))
    /\ \A t \in Threads : WF_vars(CancelNext(t))
    /\ \A g \in Readers : WF_vars(ReadNext(g))
    /\ WF_vars(FinalizeTaken)

-----------------------------------------------------------------------------
(* Properties.                                                             *)

\* "replays buffered SSE bytes": a reader receives the bytes of one generation
\* from its offset on, each once and in order, with no gap where the buffer
\* dropped its front, and end markers only behind them; a response that ends
\* with the session has everything the session will ever hold.
ReplayExact ==
    \A g \in Readers :
        /\ \A k \in DOMAIN got[g] :
             IF from[g] + k <= made[session[g]] THEN got[g][k] = from[g] + k
             ELSE got[g][k] = 0 /\ ended[session[g]]
        /\ gpc[g] = "complete" => Offset(g) >= End(session[g])

\* "survives HTTP disconnect": a session that was neither cancelled nor
\* finalized by the shutdown ends with the whole generation in it, whether or
\* not its client stayed.
WholeGeneration ==
    \A r \in Requests : done[r] /\ ~cancelled[r] /\ r \notin taken =>
        ended[r] /\ End(r) >= made[r]

\* "one conv = at most one live session": of the sessions that still take
\* bytes, all but the one in the map are cancelled, or about to be.
OneLive ==
    \A r \in Requests : rpc[r] # "handler" /\ ~done[r] /\ ~cancelled[r] =>
        \/ live = r \/ r \in taken
        \/ \E t \in Threads : victim[t] = r /\ tpc[t] = "flag"

\* "only an explicit DELETE stops the producer": and it does, even when the
\* model is silent and the hook was not yet set.
CancelStops == \A r \in Requests : cancelled[r] ~> rpc[r] = "gone"

\* What ends a session.
Over(r) == cancelled[r] \/ r \in taken \/ rpc[r] = "gone"

\* "no reader ever hangs": a reader is released when its session is cancelled
\* or taken by the shutdown, or its producer is gone.
ReadersReleased ==
    \A g \in Readers : (gpc[g] = "reading" /\ Over(session[g])) ~> gpc[g] # "reading"
=============================================================================
