--------------------------- MODULE SessionContract ---------------------------
(***************************************************************************)
(* The contract every session store promises its callers (spec 4.2), as   *)
(* one process sees it: a set of live sessions, each with a bounded event *)
(* queue.                                                                  *)
(*                                                                         *)
(*   Register   is idempotent: re-registering a live id keeps its          *)
(*              connection and does not reset its queue;                   *)
(*   Unregister closes the queue and removes the entry;                    *)
(*   Push       (an event reaching the session) appends to the queue       *)
(*              without blocking, drops the event when the queue is full  *)
(*              and discards it when the session is not live here.        *)
(*                                                                         *)
(* Dropping and discarding leave the state unchanged, so they are          *)
(* stuttering steps of this specification.                                 *)
(***************************************************************************)
EXTENDS Naturals, Sequences

CONSTANTS Ids, Msgs, QueueCap

VARIABLES live, queue

cvars == <<live, queue>>

Init ==
    /\ live = {}
    /\ queue = [id \in Ids |-> <<>>]

Register(id) ==
    /\ id \notin live
    /\ live' = live \cup {id}
    /\ queue' = [queue EXCEPT ![id] = <<>>]

Unregister(id) ==
    /\ id \in live
    /\ live' = live \ {id}
    /\ queue' = [queue EXCEPT ![id] = <<>>]

Push(id, n) ==
    /\ id \in live
    /\ Len(queue[id]) < QueueCap
    /\ queue' = [queue EXCEPT ![id] = Append(@, n)]
    /\ UNCHANGED live

Next ==
    \E id \in Ids : Register(id) \/ Unregister(id) \/ \E n \in Msgs : Push(id, n)

Spec == Init /\ [][Next]_cvars

=============================================================================
