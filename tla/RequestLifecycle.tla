-------------------------- MODULE RequestLifecycle --------------------------
(***************************************************************************)
(* What a server promises to each of its requests, without queues,         *)
(* threads or time-outs: the results of a task come in the order in which  *)
(* they were produced, the last one is a final result or an error, and the *)
(* request ends for one of three reasons.  ResponseReader implements it.   *)
(* (the comments of server_response_reader in tools/server/server-queue.h, *)
(* and the way next() and stop() are used)                                 *)
(***************************************************************************)
EXTENDS Naturals, Sequences

CONSTANTS
    Readers,   \* requests
    Ids,       \* tasks
    Owner      \* [Ids -> Readers]

VARIABLES
    produced,   \* per task: the results produced for a client that waits
    delivered,  \* per task: those the client has seen
    gone,       \* requests whose client has left
    outcome     \* per request: open, or how it ended

vars == <<produced, delivered, gone, outcome>>

id_tasks(r) == {i \in Ids : Owner[i] = r}
Ended(results, kind) == results # <<>> /\ results[Len(results)].kind = kind
Whole(r)  == \A i \in id_tasks(r) : Ended(delivered[i], "final")
Broken(r) == \E i \in id_tasks(r) : Ended(delivered[i], "error")

Init ==
    /\ produced = [i \in Ids |-> <<>>] /\ delivered = [i \in Ids |-> <<>>]
    /\ gone = {} /\ outcome = [r \in Readers |-> "open"]

\* A task that has ended produces nothing more, nor does one nobody waits for.
Produce(i, kind) ==
    /\ outcome[Owner[i]] = "open"
    /\ ~Ended(produced[i], "final") /\ ~Ended(produced[i], "error")
    /\ produced' = [produced EXCEPT ![i] =
                      Append(@, [id |-> i, kind |-> kind, n |-> Len(@)])]
    /\ UNCHANGED <<delivered, gone, outcome>>

\* An error is the last thing a client sees.
Deliver(i) ==
    /\ outcome[Owner[i]] = "open" /\ ~Broken(Owner[i])
    /\ Len(delivered[i]) < Len(produced[i])
    /\ delivered' = [delivered EXCEPT ![i] = Append(@, produced[i][Len(@) + 1])]
    /\ UNCHANGED <<produced, gone, outcome>>

Disconnect(r) ==
    /\ gone' = gone \cup {r}
    /\ UNCHANGED <<produced, delivered, outcome>>

\* The request is complete, has failed, or is given up for a client that left.
End(r) ==
    /\ outcome[r] = "open"
    /\ \/ Whole(r) /\ outcome' = [outcome EXCEPT ![r] = "complete"]
       \/ Broken(r) /\ outcome' = [outcome EXCEPT ![r] = "failed"]
       \/ /\ r \in gone /\ ~Whole(r) /\ ~Broken(r)
          /\ outcome' = [outcome EXCEPT ![r] = "left"]
    /\ UNCHANGED <<produced, delivered, gone>>

Next ==
    \/ \E i \in Ids : Deliver(i) \/ \E k \in {"partial", "final", "error"} : Produce(i, k)
    \/ \E r \in Readers : Disconnect(r) \/ End(r)

Spec == Init /\ [][Next]_vars
=============================================================================
