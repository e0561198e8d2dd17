-------------------------------- MODULE Proxy --------------------------------
(***************************************************************************)
(* The streamable-HTTP backend transport of internal/core/mcpproxy/        *)
(* streamable.go: InvokeStreamableTool and FetchStreamableToolList, each   *)
(* run by a request goroutine of Callers against one backend MCP server.  *)
(*                                                                         *)
(* Both are one-shot (spec 4.4): a fresh transport and client per call,   *)
(* Initialize (which makes the backend open a session of its own), one    *)
(* request, then the deferred Close, which terminates that session.  Any  *)
(* step may return an error (ProxyFaults); every return after NewClient   *)
(* runs the deferred Close.                                                *)
(*                                                                         *)
(* InvokeStreamableTool forwards the client's request headers, among them *)
(* the gateway's own Mcp-Session-Id, as fixed transport headers.  The     *)
(* transport also sends the session id the backend issued at Initialize.  *)
(* Which of the two a request carries depends on the order in which the   *)
(* mcp-go transport applies them (not part of this repository):           *)
(* ForwardedLast says the fixed headers are applied last.                 *)
(*                                                                         *)
(* Template rendering, header copying and the conversion of the tool      *)
(* schemas are data transformations; only whether they fail is kept.     *)
(***************************************************************************)
EXTENDS Naturals, FiniteSets

CONSTANTS
    Callers,        \* request goroutines calling into mcpproxy
    MaxSessions,    \* bound on backend sessions opened (Initialize calls)
    ProxyFaults,    \* whether a step may fail (bad input, network, backend)
    ForwardedLast   \* the forwarded headers override the transport's own

\* room for one backend session per caller
ASSUME /\ MaxSessions \in Nat /\ MaxSessions >= Cardinality(Callers)
       /\ ProxyFaults \in BOOLEAN /\ ForwardedLast \in BOOLEAN

Sids == 1..MaxSessions

NoSid == 0

\* The gateway's own session id, which names no backend session.
GwSid == MaxSessions + 1

VARIABLES
    call,     \* call[w]: the mcpproxy call goroutine w is running
    open      \* backend sessions open on the backend

vars == <<call, open>>

PCs == {"idle", "args", "tmpl", "env", "new", "start", "init", "call", "list"}

\* op: which function; gw: the inbound request carries Mcp-Session-Id;
\* sid: the backend session this call's client holds; client: NewClient
\* has run, so Close is deferred; res: how the last backend request ended.
Call == [pc : PCs, op : {"invoke", "list"}, gw : BOOLEAN, sid : Sids \cup {NoSid},
         client : BOOLEAN, res : {"none", "ok", "error", "unknown_session"}]

IdleCall == [pc |-> "idle", op |-> "invoke", gw |-> FALSE, sid |-> NoSid,
             client |-> FALSE, res |-> "none"]

Init ==
    /\ call = [w \in Callers |-> IdleCall]
    /\ open = {}

Goto(w, pc) == call' = [call EXCEPT ![w].pc = pc]

\* Return from the function.  The deferred mcpClient.Close() /
\* c.Close() (lines 150, 33) closes the transport, which terminates the
\* backend session the client holds.
Return(w, res) ==
    /\ call' = [call EXCEPT ![w] = [IdleCall EXCEPT !.res = res]]
    /\ open' = IF call[w].client THEN open \ {call[w].sid} ELSE open

\* Mutant of Fail: Close called explicitly at the end of the success path
\* instead of deferred, so an error return leaves the client open.
FailWithoutClose(w) ==
    /\ ProxyFaults
    /\ call' = [call EXCEPT ![w] = [IdleCall EXCEPT !.res = "error"]]
    /\ UNCHANGED open

\* A step that fails: return its error.
Fail(w) ==
    /\ ProxyFaults
    /\ Return(w, "error")

-----------------------------------------------------------------------------
\* InvokeStreamableTool (98-183), called for a tools/call.  gw: the
\* inbound request carries an Mcp-Session-Id (always so for a POST that
\* passed Get, not so for other callers).
Invoke(w) ==
    /\ call[w].pc = "idle"
    /\ \E gw \in BOOLEAN :
          call' = [call EXCEPT ![w] = [IdleCall EXCEPT !.pc = "args", !.gw = gw]]
    /\ UNCHANGED open

\* FetchStreamableToolList (19-95), called to build a server's tool list.
FetchList(w) ==
    /\ call[w].pc = "idle"
    /\ call' = [call EXCEPT ![w] = [IdleCall EXCEPT !.pc = "new", !.op = "list"]]
    /\ UNCHANGED open

\* json.Unmarshal of the arguments (100-103).
Args(w) ==
    /\ call[w].pc = "args"
    /\ \/ Goto(w, "tmpl") /\ UNCHANGED open
       \/ Fail(w)

\* template.PrepareTemplateContext (105-109).
Template(w) ==
    /\ call[w].pc = "tmpl"
    /\ \/ Goto(w, "env") /\ UNCHANGED open
       \/ Fail(w)

\* Render every env template of the server config (111-119); the
\* rendered map is not used afterwards, but a failure aborts the call.
\* Then copy the first value of every request header and the session id
\* header (121-132).
RenderEnv(w) ==
    /\ call[w].pc = "env"
    /\ \/ Goto(w, "new") /\ UNCHANGED open
       \/ Fail(w)

\* transport.NewStreamableHTTP (134-141; 20-24).
NewTransport(w) ==
    /\ call[w].pc = "new"
    /\ \/ Goto(w, "start") /\ UNCHANGED open
       \/ Fail(w)

\* Start (143-146; 26-29); on success NewClient and defer Close
\* (148-150; 31-33).
StartTransport(w) ==
    /\ call[w].pc = "start"
    /\ \/ /\ call' = [call EXCEPT ![w].pc = "init", ![w].client = TRUE]
          /\ UNCHANGED open
       \/ Fail(w)

\* Backend session ids no call holds: the backend's fresh uuids, of which
\* the model reuses those nothing refers to any more.
FreeSids == Sids \ (open \cup {call[w].sid : w \in Callers})

\* Mutant of Initialize: the transport keeps the forwarded Mcp-Session-Id
\* header as its session instead of the id the backend returned.
InitializeKeepsForwardedId(w) ==
    /\ call[w].pc = "init"
    /\ \/ \E s \in FreeSids :
             /\ open' = open \cup {s}
             /\ call' = [call EXCEPT ![w].pc = IF call[w].op = "invoke" THEN "call" ELSE "list",
                                     ![w].sid = IF call[w].gw THEN GwSid ELSE s]
       \/ Fail(w)

\* Mutant of Initialize: clients pooled per backend only (spec 9 warns
\* against it): a call may reuse a session another call holds open.
InitializePooled(w) ==
    /\ call[w].pc = "init"
    /\ \/ \E s \in FreeSids \cup open :
             /\ open' = open \cup {s}
             /\ call' = [call EXCEPT ![w].pc = IF call[w].op = "invoke" THEN "call" ELSE "list",
                                     ![w].sid = s]
       \/ Fail(w)

\* Initialize (152-163; 35-46): the backend opens a session and the
\* transport keeps the id it returns; or the request fails.
Initialize(w) ==
    /\ call[w].pc = "init"
    /\ \/ \E s \in FreeSids :
             /\ open' = open \cup {s}
             /\ call' = [call EXCEPT ![w].pc = IF call[w].op = "invoke" THEN "call" ELSE "list",
                                     ![w].sid = s]
       \/ Fail(w)

\* The session id a request of call w carries to the backend.
SidSent(w) == IF ForwardedLast /\ call[w].gw THEN GwSid ELSE call[w].sid

\* Backend side of a request of call w: served in the session named by
\* its Mcp-Session-Id when that session is open, rejected (HTTP 404) as
\* an unknown session otherwise.
Serve(w, res) ==
    LET s == SidSent(w) IN
    Return(w, IF s \in open THEN res ELSE "unknown_session")

\* Unmarshal the arguments again and CallTool (165-182).
CallTool(w) ==
    /\ call[w].pc = "call"
    /\ \/ Serve(w, "ok")
       \/ Fail(w)

\* ListTools and the conversion of every tool schema (48-94).
ListTools(w) ==
    /\ call[w].pc = "list"
    /\ \/ Serve(w, "ok")
       \/ Fail(w)

Step(w) ==
    \/ Args(w) \/ Template(w) \/ RenderEnv(w) \/ NewTransport(w)
    \/ StartTransport(w) \/ Initialize(w) \/ CallTool(w) \/ ListTools(w)

Next == \E w \in Callers : Invoke(w) \/ FetchList(w) \/ Step(w)

\* A started call keeps running: every step is a local computation or a
\* request that returns a response or an error (the request context
\* cancels it when the client goes away).  New calls are not fair.
Spec == Init /\ [][Next]_vars /\ \A w \in Callers : WF_vars(Step(w))

-----------------------------------------------------------------------------
TypeOK ==
    /\ call \in [Callers -> Call]
    /\ open \subseteq Sids

\* One-shot backend sessions (spec 4.4: a fresh client per invocation,
\* Initialize + CallTool + Close, "semantic isolation"): every backend
\* session still open belongs to a call in progress, on every path
\* through the function, failing ones included (no leak); and the session
\* of a call about to send its request is still open: no other call's
\* deferred Close has terminated it.
OneShotSessions ==
    /\ \A s \in open : \E w \in Callers : call[w].pc # "idle" /\ call[w].sid = s
    /\ \A w \in Callers : call[w].pc \in {"call", "list"} => call[w].sid \in open

\* A tools/call forwarded to a healthy backend is served in the session
\* the backend opened for it (MCP streamable HTTP: after initialize the
\* client sends the id the server issued); spec 4.4 asks to forward the
\* client's Mcp-Session-Id verbatim.
NoForeignSession == \A w \in Callers : call[w].res # "unknown_session"

=============================================================================
