----------------------------- MODULE Streamable -----------------------------
(***************************************************************************)
(* The MCP streaming plane of internal/core/streamable.go on top of the    *)
(* Redis session store: handleMCP's POST (initialize -> Register, any     *)
(* other method -> Get), DELETE (-> Unregister) and GET (-> Get, then the *)
(* SSE loop of handleGet), run by the HTTP handler goroutines Workers on  *)
(* any replica, together with every replica's handleUpdates subscriber.   *)
(*                                                                         *)
(* Requests that change no state (OPTIONS, 405, JSON parse errors, a GET  *)
(* without text/event-stream) are left out.  The branch of the SSE loop   *)
(* that writes a message is not an action: with this store the loop reads *)
(* the channel of the connection Get built, which nothing ever writes     *)
(* (see SseDelivery).                                                      *)
(***************************************************************************)
EXTENDS SessionStore

CONSTANTS
    Sticky,   \* the load balancer sends every request to one replica
    Reinit    \* clients may send initialize with the id of a session in use

ASSUME Sticky \in BOOLEAN /\ Reinit \in BOOLEAN

\* Replicas a request may reach.
Routes == IF Sticky THEN {CHOOSE r \in Replicas : TRUE} ELSE Replicas

Init ==
    /\ StoreInit
    /\ wk = [w \in Workers |-> IdleWorker]

\* Handler w starts a request for session id on replica r.
Start(w, r, id, pc, conn, next) ==
    wk' = [wk EXCEPT ![w] = [pc |-> pc, rep |-> r, id |-> id, conn |-> conn,
                             next |-> next]]

-----------------------------------------------------------------------------
\* No trace of session id is left in Redis, in a connections map or in a
\* store call: a fresh uuid is indistinguishable from it.
Unused(id) ==
    /\ id \notin kvKeys \cup kvIds
    /\ \A r \in Replicas : conns[r][id] = 0
    /\ \A x \in Workers : wk[x].pc \in RegPCs \cup UnregPCs => wk[x].id # id

\* handleMCP, POST with method initialize (streamable.go 28-61): the
\* session id is the client's Mcp-Session-Id header, or a fresh uuid.
\* Register is called with a new meta.
PostInitialize(w) ==
    /\ wk[w].pc = "idle"
    /\ nRegs < MaxRegs
    /\ \E r \in Routes, id \in Ids :
          /\ Reinit \/ Unused(id)
          /\ Start(w, r, id, "reg_set", nRegs + 1, "post")
    /\ nRegs' = nRegs + 1
    /\ UNCHANGED <<kvKeys, kvIds, inbox, conns, queue, hist, dropped, sent>>

\* handleMCP, POST with any other method (streamable.go 62-68): Get the
\* session named by the header; a failure answers "Invalid or expired
\* session".
PostRequest(w) ==
    /\ wk[w].pc = "idle"
    /\ \E r \in Routes, id \in Ids : Start(w, r, id, "get_ismember", 0, "post")
    /\ UNCHANGED storeVars

\* handleMCP calls handleMCPRequest and returns (streamable.go 70-74); every
\* answer of handleMCPRequest goes in the POST body (its sendSuccessResponse
\* calls all pass false), so the connection is not used.
Respond(w) ==
    /\ wk[w].pc = "post"
    /\ Finish(w)
    /\ UNCHANGED storeVars

\* handleMCP, DELETE (streamable.go 75-87): Unregister the session.
Delete(w) ==
    /\ wk[w].pc = "idle"
    /\ \E r \in Routes, id \in Ids : Start(w, r, id, "unreg_map", 0, "post")
    /\ UNCHANGED storeVars

\* handleGet (streamable.go 97-123): Get the session, write the SSE
\* headers, enter the loop.
GetStream(w) ==
    /\ wk[w].pc = "idle"
    /\ \E r \in Routes, id \in Ids : Start(w, r, id, "get_ismember", 0, "sse")
    /\ UNCHANGED storeVars

\* The SSE loop returns when the request context is done: the client went
\* away (streamable.go 134-135).
Disconnect(w) ==
    /\ wk[w].pc = "sse"
    /\ Finish(w)
    /\ UNCHANGED storeVars

-----------------------------------------------------------------------------
\* A step of a store call in progress.
StoreStep(w) ==
    \/ RegSet(w) \/ RegSAdd(w) \/ RegMap(w) \/ RegPub(w)
    \/ GetIsMember(w) \/ GetKey(w)
    \/ UnregMap(w) \/ UnregIsMember(w) \/ UnregDel(w) \/ UnregSRem(w) \/ UnregPub(w)

\* The server's own steps of handler w: Redis round trips and the answer.
ServerStep(w) == StoreStep(w) \/ Send(w) \/ Respond(w)

\* Steps a client chooses to take.
ClientStep(w) ==
    \/ PostInitialize(w) \/ PostRequest(w) \/ Delete(w) \/ GetStream(w)
    \/ Disconnect(w)

Next ==
    \/ \E w \in Workers : ServerStep(w) \/ ClientStep(w)
    \/ \E r \in Replicas : HandleUpdate(r) \/ LoseUpdate(r)

\* A Redis round trip always returns (a result or an error), a handler
\* that holds an answer sends it, and handleUpdates loops while its
\* channel has messages.  Clients are not fair: they may never send
\* another request and may keep an SSE stream open forever.
Fairness ==
    /\ \A w \in Workers : WF_vars(ServerStep(w))
    /\ \A r \in Replicas : WF_vars(HandleUpdate(r))

Spec == Init /\ [][Next]_vars /\ Fairness

-----------------------------------------------------------------------------
TypeOK ==
    /\ kvKeys \subseteq Ids /\ kvIds \subseteq Ids
    /\ inbox \in [Replicas -> Seq(Update)]
    /\ conns \in [Replicas -> [Ids -> ConnRefs]]
    /\ queue \in [ConnRefs -> Seq(Msgs)]
    /\ \A c \in ConnRefs : Len(queue[c]) <= QueueCap
    /\ hist \in [ConnRefs -> Seq(Msgs)]
    /\ dropped \subseteq RegConns \X Msgs
    /\ sent \in Seq(Ids) /\ Len(sent) <= MaxSends
    /\ nRegs \in 0..MaxRegs
    /\ wk \in [Workers -> Worker]

\* Per-session FIFO of the delivery path (spec section 5): the messages
\* handleUpdates puts into a connection's channel are events published for
\* that connection's session, in the order Connection.Send published
\* them, whichever replica published them.
EventOrder ==
    \A c \in RegConns : \A i \in 1..Len(hist[c]) :
        /\ sent[hist[c][i]] = sent[hist[c][1]]
        /\ i > 1 => hist[c][i - 1] < hist[c][i]

\* handleUpdates never stalls: whatever the sessions' channels hold, every
\* replica's subscriber keeps reading the topic, so its buffer of
\* unread updates empties again and again (the non-blocking send of
\* redis.go 90-99; spec section 9 forbids a blocking push).
SubscriberNeverStalls == \A r \in Replicas : []<>(inbox[r] = <<>>)

-----------------------------------------------------------------------------
\* Event delivery to an open SSE stream (spec 4.6 and scenario S4): an
\* event published for the session of a stream open on replica r, and not
\* yet read by r's subscriber, eventually reaches the channel the stream
\* reads, or is dropped because that channel is full, unless the client
\* goes away first.
Streaming(x) == wk[x].pc = "sse"

Unread(r, n) == \E i \in 1..Len(inbox[r]) : inbox[r][i].msg = n

Reached(x, n) ==
    \/ \E i \in 1..Len(hist[wk[x].conn]) : hist[wk[x].conn][i] = n
    \/ <<wk[x].conn, n>> \in dropped

SseDelivery ==
    \A x \in Workers, n \in Msgs :
        (Streaming(x) /\ n <= Len(sent) /\ sent[n] = wk[x].id /\ Unread(wk[x].rep, n))
            ~> (Reached(x, n) \/ ~Streaming(x))

\* The local connections map agrees with Redis (spec 4.2: Unregister
\* removes the entry; one connection per live session): on a replica where
\* no Register or Unregister of a session is in progress, a connection in
\* the map belongs to a session stored in Redis.
InFlight(r, id) ==
    \E x \in Workers : /\ wk[x].rep = r /\ wk[x].id = id
                       /\ wk[x].pc \in RegPCs \cup UnregPCs

StoreAgreement ==
    \A r \in Replicas, id \in Ids :
        (~InFlight(r, id) /\ conns[r][id] # 0) => id \in kvIds \cap kvKeys

\* Each replica's connections map, with the channels it refers to, behaves
\* as the session store contract (spec 4.2) promises: a connection appears
\* with an empty queue, keeps its queue until Unregister removes it (a
\* Register of a live id, redis.go 147-157, must keep it too), and
\* handleUpdates pushes to it without ever exceeding its capacity.
Contract(r) == INSTANCE SessionContract
                   WITH live <- {id \in Ids : conns[r][id] # 0},
                        queue <- [id \in Ids |-> queue[conns[r][id]]]

\* Contract(r)!Spec for every replica r (TLC takes [][A]_v only outside a
\* quantifier, so the quantifier goes inside).
ImplementsContract ==
    /\ \A r \in Replicas : Contract(r)!Init
    /\ [][\A r \in Replicas : [Contract(r)!Next]_(Contract(r)!cvars)]_vars

\* A Register or Unregister of session id is in progress somewhere.
Busy(id) == \E r \in Replicas : InFlight(r, id)

\* Unregister closes the session's queue, so the SSE loop reading it sees
\* the end of the stream and returns (spec 4.2 "closes the queue
\* (subsequent reads observe end-of-stream)"): a stream whose session has
\* been unregistered, with no call on it in progress, eventually ends.
\* handleGet's loop (streamable.go 125-139) returns only on the client's
\* disconnect or on shutdownCh.
DeleteEndsStream ==
    \A x \in Workers :
        (Streaming(x) /\ wk[x].id \notin kvIds /\ ~Busy(wk[x].id)) ~> ~Streaming(x)

\* An open SSE stream behaves as spec 4.2 promises of a session queue:
\* every event published for its session reaches the stream's channel
\* (SseDelivery), and once the session is unregistered the stream ends
\* (DeleteEndsStream).  handleGet reads the channel that Get returns and
\* leaves its loop only on the client's disconnect or shutdown.
SseStreamContract == SseDelivery /\ DeleteEndsStream

\* The two Redis records of a session agree (spec 4.2: session:<id> holds
\* the meta of every id in session:ids): once no Register or Unregister of
\* a session is in progress on any replica, it has both its key and its
\* set member, or neither.  Register writes the key before the member and
\* Unregister deletes them in the same order (redis.go 138-145, 216-223),
\* and either call may stop half way.
KeysMatchIds == \A id \in Ids : ~Busy(id) => (id \in kvKeys <=> id \in kvIds)

\* The session store's state is consistent once no call on a session is in
\* progress: the local maps agree with Redis (StoreAgreement) and the two
\* Redis records agree with each other (KeysMatchIds), whatever order the
\* round trips of Register and Unregister ran in and wherever they failed.
StoreConsistent == StoreAgreement /\ KeysMatchIds

=============================================================================
