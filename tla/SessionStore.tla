---------------------------- MODULE SessionStore ----------------------------
(***************************************************************************)
(* The Redis-backed session store of internal/mcp/session/redis.go.        *)
(*                                                                         *)
(* Durable state lives in Redis: the key session:<id> (kvKeys) and the set *)
(* session:ids (kvIds).  Every replica of the gateway subscribes to one    *)
(* pub/sub topic (inbox[r] is what replica r's subscription has buffered)  *)
(* and keeps a local map id -> connection (conns[r]).  Each store call is  *)
(* a sequence of Redis round trips made by the HTTP handler goroutine that *)
(* called it; between two round trips any other goroutine may run, so      *)
(* every round trip is an action of its own.  A Redis call that fails      *)
(* (RedisFaults) makes the store call return its error at that point,      *)
(* leaving the earlier round trips applied.                                *)
(*                                                                         *)
(* Connections: 1..MaxRegs are the connections that Register puts into    *)
(* the local map, numbered in the order the Register calls start; 0 is    *)
(* any connection that Get builds: it wraps a channel created inside Get   *)
(* that no map and no subscriber ever references, so its queue is empty   *)
(* forever.                                                                *)
(*                                                                         *)
(* The callers (HTTP handlers) are the Workers; their request-level steps *)
(* are in Streamable.tla, which EXTENDS this module.                       *)
(***************************************************************************)
EXTENDS Naturals, Sequences, FiniteSets

CONSTANTS
    Replicas,     \* gateway processes sharing one Redis
    Workers,      \* HTTP handler goroutines (one request at a time each)
    Ids,          \* session ids (uuid strings, abstracted)
    QueueCap,     \* capacity of a connection channel: make(chan *Message, 100)
    MaxRegs,      \* bound on Register calls started
    MaxSends,     \* bound on events published with Connection.Send
    RedisFaults,  \* whether a Redis round trip may fail
    TopicLoss     \* whether a replica's subscription may lose a message

ASSUME
    /\ Replicas # {} /\ Workers # {} /\ Ids # {}
    /\ QueueCap \in Nat \ {0}
    /\ MaxRegs \in Nat /\ MaxSends \in Nat
    /\ RedisFaults \in BOOLEAN /\ TopicLoss \in BOOLEAN

VARIABLES
    kvKeys,   \* ids with a key session:<id>
    kvIds,    \* members of the set session:ids
    inbox,    \* inbox[r]: topic messages published but not yet read by r's handleUpdates
    conns,    \* conns[r][id]: connection in r's connections map, 0 if none
    queue,    \* queue[c]: messages buffered in connection c's channel
    hist,     \* hist[c]: every message ever pushed into c's channel (history)
    dropped,  \* <<c, n>> for every message n dropped because c's channel was full
    sent,     \* sent[n]: the session id event n was published for
    nRegs,    \* Register calls started so far
    wk        \* wk[w]: the request handler goroutine w

storeVars == <<kvKeys, kvIds, inbox, conns, queue, hist, dropped, sent, nRegs>>
vars == <<storeVars, wk>>

ConnRefs == 0..MaxRegs
RegConns == 1..MaxRegs
Msgs == 1..MaxSends

\* The JSON update struct of handleUpdates/publishUpdate.  handleUpdates
\* only logs "create" and "delete" updates, so the topic keeps just the
\* "event" updates; publishing the others is a round trip that can fail.
Update == [id : Ids, msg : Msgs]

\* Program counters of a handler: idle, inside a store call, or holding
\* a connection ("post": answering a POST; "sse": in the SSE loop).
RegPCs   == {"reg_set", "reg_sadd", "reg_map", "reg_pub"}
GetPCs   == {"get_ismember", "get_key"}
UnregPCs == {"unreg_map", "unreg_ismember", "unreg_del", "unreg_srem", "unreg_pub"}
PCs == {"idle", "post", "sse"} \cup RegPCs \cup GetPCs \cup UnregPCs

Worker == [pc : PCs, rep : Replicas, id : Ids, conn : ConnRefs, next : {"post", "sse"}]

StoreInit ==
    /\ kvKeys = {}
    /\ kvIds = {}
    /\ inbox = [r \in Replicas |-> <<>>]
    /\ conns = [r \in Replicas |-> [i \in Ids |-> 0]]
    /\ queue = [c \in ConnRefs |-> <<>>]
    /\ hist = [c \in ConnRefs |-> <<>>]
    /\ dropped = {}
    /\ sent = <<>>
    /\ nRegs = 0

-----------------------------------------------------------------------------
\* Helpers.

Goto(w, pc) == wk' = [wk EXCEPT ![w].pc = pc]

\* A handler between requests keeps nothing of the last one.
IdleWorker == [pc |-> "idle", rep |-> CHOOSE r \in Replicas : TRUE,
               id |-> CHOOSE i \in Ids : TRUE, conn |-> 0, next |-> "post"]

\* Handler w has written its response and returns.
Finish(w) == wk' = [wk EXCEPT ![w] = IdleWorker]

\* The Redis round trip of handler w returned an error: the store call
\* returns it, and the handler answers with a protocol error.
Fail(w) ==
    /\ RedisFaults
    /\ Finish(w)
    /\ UNCHANGED storeVars

\* client.Publish: Redis hands the message to every subscribed replica,
\* in publish order.
Publish(u) == inbox' = [r \in Replicas |-> Append(inbox[r], u)]

-----------------------------------------------------------------------------
\* Register (redis.go 130-165): Set key, SAdd id, put a new connection
\* into the local map, publish "create".

RegSet(w) ==
    /\ wk[w].pc = "reg_set"
    /\ \/ /\ kvKeys' = kvKeys \cup {wk[w].id}
          /\ Goto(w, "reg_sadd")
          /\ UNCHANGED <<kvIds, inbox, conns, queue, hist, dropped, sent, nRegs>>
       \/ Fail(w)

RegSAdd(w) ==
    /\ wk[w].pc = "reg_sadd"
    /\ \/ /\ kvIds' = kvIds \cup {wk[w].id}
          /\ Goto(w, "reg_map")
          /\ UNCHANGED <<kvKeys, inbox, conns, queue, hist, dropped, sent, nRegs>>
       \/ Fail(w)

\* s.connections[meta.ID] = conn, replacing any connection of that id.
RegMap(w) ==
    LET r == wk[w].rep IN
    /\ wk[w].pc = "reg_map"
    /\ conns' = [conns EXCEPT ![r][wk[w].id] = wk[w].conn]
    /\ Goto(w, "reg_pub")
    /\ UNCHANGED <<kvKeys, kvIds, inbox, queue, hist, dropped, sent, nRegs>>

\* A failed publish makes Register return an error although the session
\* is stored in Redis and in the map.
RegPub(w) ==
    /\ wk[w].pc = "reg_pub"
    /\ \/ /\ Goto(w, "post")
          /\ UNCHANGED storeVars
       \/ Fail(w)

-----------------------------------------------------------------------------
\* Get (redis.go 168-197): SIsMember, then Get key; on success a new
\* RedisConnection with a channel of its own (connection 0).

GetIsMember(w) ==
    /\ wk[w].pc = "get_ismember"
    /\ \/ /\ wk[w].id \notin kvIds          \* ErrSessionNotFound
          /\ Finish(w)
       \/ /\ wk[w].id \in kvIds
          /\ Goto(w, "get_key")
       \/ Fail(w)
    /\ UNCHANGED storeVars

GetKey(w) ==
    /\ wk[w].pc = "get_key"
    /\ \/ /\ wk[w].id \notin kvKeys         \* redis.Nil: ErrSessionNotFound
          /\ Finish(w)
       \/ /\ wk[w].id \in kvKeys
          /\ wk' = [wk EXCEPT ![w].pc = wk[w].next, ![w].conn = 0]
       \/ Fail(w)
    /\ UNCHANGED storeVars

-----------------------------------------------------------------------------
\* Unregister (redis.go 200-228): delete from the local map first, then
\* SIsMember, Del key, SRem id, publish "delete".

UnregMap(w) ==
    /\ wk[w].pc = "unreg_map"
    /\ conns' = [conns EXCEPT ![wk[w].rep][wk[w].id] = 0]
    /\ Goto(w, "unreg_ismember")
    /\ UNCHANGED <<kvKeys, kvIds, inbox, queue, hist, dropped, sent, nRegs>>

UnregIsMember(w) ==
    /\ wk[w].pc = "unreg_ismember"
    /\ \/ /\ wk[w].id \notin kvIds
          /\ Finish(w)
       \/ /\ wk[w].id \in kvIds
          /\ Goto(w, "unreg_del")
       \/ Fail(w)
    /\ UNCHANGED storeVars

UnregDel(w) ==
    /\ wk[w].pc = "unreg_del"
    /\ \/ /\ kvKeys' = kvKeys \ {wk[w].id}
          /\ Goto(w, "unreg_srem")
          /\ UNCHANGED <<kvIds, inbox, conns, queue, hist, dropped, sent, nRegs>>
       \/ Fail(w)

UnregSRem(w) ==
    /\ wk[w].pc = "unreg_srem"
    /\ \/ /\ kvIds' = kvIds \ {wk[w].id}
          /\ Goto(w, "unreg_pub")
          /\ UNCHANGED <<kvKeys, inbox, conns, queue, hist, dropped, sent, nRegs>>
       \/ Fail(w)

UnregPub(w) ==
    /\ wk[w].pc = "unreg_pub"
    /\ \/ /\ Finish(w)
          /\ UNCHANGED storeVars
       \/ Fail(w)

-----------------------------------------------------------------------------
\* RedisConnection.Send (redis.go 292-294): publish an "event" update
\* carrying the connection's meta; message n is the n-th event published.
\* The handler then finishes its response.

Send(w) ==
    LET n == Len(sent) + 1 IN
    /\ wk[w].pc = "post"
    /\ Len(sent) < MaxSends
    /\ \/ /\ Publish([id |-> wk[w].id, msg |-> n])
          /\ sent' = Append(sent, wk[w].id)
          /\ Finish(w)
          /\ UNCHANGED <<kvKeys, kvIds, conns, queue, hist, dropped, nRegs>>
       \/ Fail(w)

-----------------------------------------------------------------------------
\* handleUpdates (redis.go 57-107), one loop iteration of replica r's
\* subscriber goroutine: take the next topic message; "create" and
\* "delete" are only logged; an "event" goes to the connection of the
\* local map with a non-blocking channel send, dropped when the channel
\* is full, and discarded when this replica has no connection for it.

\* The subscription loses the topic message it is handing over
\* (TopicLoss): go-redis's pubsub.Channel(), read at redis.go 58-59,
\* drops a message it cannot hand over within 30 s, and after a
\* reconnect Redis pub/sub does not resend what was published meanwhile.
\* The messages behind it keep their order.
LoseUpdate(r) ==
    /\ TopicLoss
    /\ inbox[r] # <<>>
    /\ inbox' = [inbox EXCEPT ![r] = Tail(@)]
    /\ UNCHANGED <<kvKeys, kvIds, conns, queue, hist, dropped, sent, nRegs, wk>>

\* Mutants of HandleUpdate, each a plausible bug in redis.go 85-104.
\* A blocking channel send instead of select/default: a full channel
\* holds the subscriber until a reader drains it.
HandleUpdateBlocking(r) ==
    LET u == Head(inbox[r])
        c == conns[r][u.id]
    IN
    /\ inbox[r] # <<>>
    /\ \/ /\ c # 0
          /\ Len(queue[c]) < QueueCap
          /\ queue' = [queue EXCEPT ![c] = Append(@, u.msg)]
          /\ hist' = [hist EXCEPT ![c] = Append(@, u.msg)]
       \/ /\ c = 0
          /\ UNCHANGED <<queue, hist>>
    /\ inbox' = [inbox EXCEPT ![r] = Tail(@)]
    /\ UNCHANGED <<dropped, kvKeys, kvIds, conns, sent, nRegs, wk>>

\* Each topic message handed to a goroutine of its own: messages reach
\* the channels in any order.
HandleUpdateAnyOrder(r) ==
    \E i \in 1..Len(inbox[r]) :
        LET u == inbox[r][i]
            c == conns[r][u.id]
        IN
        /\ inbox' = [inbox EXCEPT ![r] = SubSeq(@, 1, i - 1) \o SubSeq(@, i + 1, Len(@))]
        /\ \/ /\ c # 0 /\ Len(queue[c]) < QueueCap
              /\ queue' = [queue EXCEPT ![c] = Append(@, u.msg)]
              /\ hist' = [hist EXCEPT ![c] = Append(@, u.msg)]
              /\ UNCHANGED dropped
           \/ /\ c # 0 /\ Len(queue[c]) = QueueCap
              /\ dropped' = dropped \cup {<<c, u.msg>>}
              /\ UNCHANGED <<queue, hist>>
           \/ /\ c = 0
              /\ UNCHANGED <<queue, hist, dropped>>
        /\ UNCHANGED <<kvKeys, kvIds, conns, sent, nRegs, wk>>

\* An unbounded per-connection queue (a slice) instead of a buffered
\* channel: nothing is ever dropped.
HandleUpdateUnbounded(r) ==
    LET u == Head(inbox[r])
        c == conns[r][u.id]
    IN
    /\ inbox[r] # <<>>
    /\ inbox' = [inbox EXCEPT ![r] = Tail(@)]
    /\ \/ /\ c # 0
          /\ queue' = [queue EXCEPT ![c] = Append(@, u.msg)]
          /\ hist' = [hist EXCEPT ![c] = Append(@, u.msg)]
       \/ /\ c = 0
          /\ UNCHANGED <<queue, hist>>
    /\ UNCHANGED <<dropped, kvKeys, kvIds, conns, sent, nRegs, wk>>

HandleUpdate(r) ==
    LET u == Head(inbox[r])
        c == conns[r][u.id]
    IN
    /\ inbox[r] # <<>>
    /\ inbox' = [inbox EXCEPT ![r] = Tail(@)]
    /\ \/ /\ c # 0
          /\ Len(queue[c]) < QueueCap
          /\ queue' = [queue EXCEPT ![c] = Append(@, u.msg)]
          /\ hist' = [hist EXCEPT ![c] = Append(@, u.msg)]
          /\ UNCHANGED dropped
       \/ /\ c # 0
          /\ Len(queue[c]) = QueueCap
          /\ dropped' = dropped \cup {<<c, u.msg>>}
          /\ UNCHANGED <<queue, hist>>
       \/ /\ c = 0
          /\ UNCHANGED <<queue, hist, dropped>>
    /\ UNCHANGED <<kvKeys, kvIds, conns, sent, nRegs, wk>>

=============================================================================
