------------------------------- MODULE Reload -------------------------------
(***************************************************************************)
(* The reload controller and supervisor of cmd/mcp-gateway/main.go: the   *)
(* main loop of run(), which selects on the quit signal, the notifier's   *)
(* update channel and the internal /_reload endpoint's unbuffered         *)
(* channel, and handleReload, which re-reads the config store, updates    *)
(* the core.Server tables, shuts the public HTTP server down with a 5 s   *)
(* deadline and starts a new one on the same port.                        *)
(*                                                                         *)
(* Around it: clients that hold SSE streams open on a server (handleGet   *)
(* returns only when the client goes away or shutdownCh is closed, which  *)
(* nothing in handleReload does), and tools/call requests, which read the *)
(* server's tool map and its prefix -> server-config map at two different *)
(* points (streamable.go 194 and 207).                                     *)
(*                                                                         *)
(* A config is a version number 1..MaxVersions; an http.Server is one of  *)
(* MaxServers slots, 1 being the one run() starts; a slot is reused for a *)
(* new server once nothing refers to the old one.                          *)
(***************************************************************************)
EXTENDS Naturals, Functions

CONSTANTS
    MaxVersions,   \* config versions the store goes through
    MaxServers,    \* bound on http.Server values alive at once
    MaxStreams,    \* bound on SSE streams open at once
    StoreFaults,   \* store.List or MergeConfigs may fail during a reload
    ApplyFaults,   \* RegisterRoutes or UpdateConfig may fail during a reload
    HupSignals     \* operators run `mcp-gateway reload`

ASSUME
    /\ MaxVersions \in Nat \ {0} /\ MaxStreams \in Nat
    \* room for the serving server, the new one and one per open stream
    /\ MaxServers \in Nat /\ MaxServers >= MaxStreams + 2
    /\ StoreFaults \in BOOLEAN /\ ApplyFaults \in BOOLEAN /\ HupSignals \in BOOLEAN

Gens == 1..MaxServers
Versions == 1..MaxVersions

VARIABLES
    storeVer,    \* latest config version in the config store
    storeOk,     \* whether the store's documents merge without conflict
    tick,        \* an update notification is waiting in updateCh
    reloadPost,  \* a POST /_reload handler is blocked sending on reloadChan
    quit,        \* SIGINT/SIGTERM waiting in the quit channel
    main,        \* the main goroutine: its pc and handleReload's locals
    srvVer,      \* config version of the core.Server tables (UpdateConfig)
    httpServer,  \* generation the global httpServer points to
    bound,       \* the generation whose listener holds the port, 0 if none
    starting,    \* generation whose ListenAndServe goroutine has not bound yet, 0 if none
    streams,     \* streams[g]: SSE streams open on server g
    call,        \* the tools/call request in progress
    first,       \* the initial ListenAndServe goroutine: "alone" (pending, no reload
                 \* goroutine yet), "racing" (pending beside one), "ran"
    rejected     \* history: the version of the last reload whose apply failed, 0 if none

vars == <<storeVer, storeOk, tick, reloadPost, quit, main, srvVer, httpServer,
          bound, starting, streams, call, first, rejected>>

MainPCs == {"loop", "list", "merge", "apply", "shutdown", "exited"}
CallPCs == {"none", "tool", "config", "execute"}

\* run() (main.go 188-242): store read, merge, RegisterRoutes with config 1,
\* the first httpServer built, reloadChan made and the initial
\* ListenAndServe goroutine started.
Init ==
    /\ storeVer = 1
    /\ storeOk = TRUE
    /\ tick = FALSE
    /\ reloadPost = FALSE
    /\ quit = FALSE
    /\ main = [pc |-> "loop", ver |-> 1, ok |-> TRUE, new |-> 1]
    /\ srvVer = 1
    /\ httpServer = 1
    /\ bound = 0
    /\ starting = 1
    /\ streams = [g \in Gens |-> 0]
    /\ call = [pc |-> "none", tv |-> 1, sv |-> 1]
    /\ first = "alone"
    /\ rejected = 0

Running == main.pc # "exited"

OpenStreams == SumFunction(streams)

\* Server slots that no variable and no open stream refers to.
Free == {g \in Gens : /\ streams[g] = 0 /\ g \notin {httpServer, bound, starting}
                      /\ ~(main.pc = "shutdown" /\ g = main.new)}

-----------------------------------------------------------------------------
\* The main loop's select (main.go 255-277).

\* SIGINT/SIGTERM: shut both servers down with a 5 s deadline and return;
\* the process exits whatever Shutdown returns.
RecvQuit ==
    /\ main.pc = "loop" /\ quit
    /\ main' = [main EXCEPT !.pc = "exited"]
    /\ bound' = 0
    /\ starting' = 0
    /\ UNCHANGED <<first, rejected, storeVer, storeOk, tick, reloadPost, quit, srvVer, httpServer,
                   streams, call>>

\* A notification on updateCh, or the /_reload handler's send on the
\* unbuffered reloadChan (which lets that handler answer 200): call
\* handleReload.
RecvUpdate ==
    /\ main.pc = "loop" /\ tick
    /\ tick' = FALSE
    /\ main' = [main EXCEPT !.pc = "list"]
    /\ UNCHANGED <<first, rejected, storeVer, storeOk, reloadPost, quit, srvVer, httpServer,
                   bound, starting, streams, call>>

RecvReload ==
    /\ main.pc = "loop" /\ reloadPost
    /\ reloadPost' = FALSE
    /\ main' = [main EXCEPT !.pc = "list"]
    /\ UNCHANGED <<first, rejected, storeVer, storeOk, tick, quit, srvVer, httpServer,
                   bound, starting, streams, call>>

-----------------------------------------------------------------------------
\* handleReload (main.go 93-144).

\* The process dies: logger.Fatal exits with status 1.
Fatal ==
    /\ main' = [main EXCEPT !.pc = "exited"]
    /\ bound' = 0
    /\ starting' = 0

\* store.List (96-100): a failure is fatal.
List ==
    /\ main.pc = "list"
    /\ \/ /\ main' = [main EXCEPT !.pc = "merge", !.ver = storeVer, !.ok = storeOk]
          /\ UNCHANGED <<bound, starting>>
       \/ StoreFaults /\ Fatal
    /\ UNCHANGED <<first, rejected, storeVer, storeOk, tick, reloadPost, quit, srvVer, httpServer,
                   streams, call>>

\* helper.MergeConfigs (101-105): conflicting documents are fatal.
Merge ==
    /\ main.pc = "merge"
    /\ \/ /\ main.ok
          /\ main' = [main EXCEPT !.pc = "apply"]
          /\ UNCHANGED <<bound, starting>>
       \/ ~main.ok /\ Fatal
    /\ UNCHANGED <<first, rejected, storeVer, storeOk, tick, reloadPost, quit, srvVer, httpServer,
                   streams, call>>

\* Mutants of Apply: the new router is registered but UpdateConfig is
\* never called.
ApplyWithoutUpdateConfig ==
    /\ main.pc = "apply"
    /\ \/ /\ main' = [main EXCEPT !.pc = "shutdown", !.new = CHOOSE g \in Free : TRUE]
          /\ bound' = IF bound = httpServer THEN 0 ELSE bound
          /\ starting' = IF starting = httpServer THEN 0 ELSE starting
          /\ UNCHANGED rejected
       \/ /\ ApplyFaults
          /\ main' = [main EXCEPT !.pc = "loop"]
          /\ rejected' = main.ver
          /\ UNCHANGED <<bound, starting>>
    /\ UNCHANGED <<first, storeVer, storeOk, tick, reloadPost, quit, httpServer, srvVer,
                   streams, call>>

\* Under serverLock: build the new router, RegisterRoutes and UpdateConfig
\* (107-122), either failing returns; then the new http.Server (124-127)
\* and httpServer.Shutdown, whose first act is to close the old listener;
\* a server whose ListenAndServe has not run yet then never serves
\* (ListenAndServe returns ErrServerClosed after Shutdown).
Apply ==
    /\ main.pc = "apply"
    /\ \/ /\ srvVer' = main.ver
          /\ main' = [main EXCEPT !.pc = "shutdown", !.new = CHOOSE g \in Free : TRUE]
          /\ bound' = IF bound = httpServer THEN 0 ELSE bound
          /\ starting' = IF starting = httpServer THEN 0 ELSE starting
          /\ UNCHANGED rejected
       \/ /\ ApplyFaults
          /\ main' = [main EXCEPT !.pc = "loop"]
          /\ rejected' = main.ver
          /\ UNCHANGED <<srvVer, bound, starting>>
    /\ UNCHANGED <<first, storeVer, storeOk, tick, reloadPost, quit, httpServer,
                   streams, call>>

\* Mutant of ShutdownDone: the global httpServer is cleared after the old
\* server's Shutdown and only set by the goroutine that starts the new
\* one, so until then it is nil (0).
ShutdownDoneNilServer ==
    /\ main.pc = "shutdown"
    /\ streams[httpServer] = 0
    /\ httpServer' = 0
    /\ starting' = main.new
    /\ main' = [main EXCEPT !.pc = "loop"]
    /\ first' = IF first = "alone" THEN "racing" ELSE first
    /\ UNCHANGED <<rejected, storeVer, storeOk, tick, reloadPost, quit, srvVer, bound,
                   streams, call>>

\* Shutdown returns nil once no connection of the old server is active;
\* then httpServer = newServer and its ListenAndServe goroutine starts
\* (131-143).
ShutdownDone ==
    /\ main.pc = "shutdown"
    /\ streams[httpServer] = 0
    /\ httpServer' = main.new
    /\ starting' = main.new
    /\ main' = [main EXCEPT !.pc = "loop"]
    /\ first' = IF first = "alone" THEN "racing" ELSE first
    /\ UNCHANGED <<rejected, storeVer, storeOk, tick, reloadPost, quit, srvVer, bound,
                   streams, call>>

\* Mutant of ShutdownTimeout: Shutdown called with context.Background(),
\* which has no deadline.
ShutdownWithoutDeadline == FALSE

\* The 5 s deadline passes with streams still open: Shutdown returns the
\* context error and handleReload returns (131-135).
ShutdownTimeout ==
    /\ main.pc = "shutdown"
    /\ streams[httpServer] > 0
    /\ main' = [main EXCEPT !.pc = "loop"]
    /\ UNCHANGED <<first, rejected, storeVer, storeOk, tick, reloadPost, quit, srvVer, httpServer,
                   bound, starting, streams, call>>

\* A pending ListenAndServe goroutine binds the port (138-143, 236-242).
\* The closure reads the global httpServer when it runs: if a later
\* reload has already replaced it, it starts that later server (the one
\* in `starting`), and if the server it reads has been shut down it gets
\* ErrServerClosed (Apply then cleared `starting`).  While the initial
\* goroutine races a reload's, either may be the one that binds.
Listen ==
    /\ Running /\ starting # 0
    /\ bound' = starting
    /\ starting' = 0
    /\ first' \in CASE first = "alone"  -> {"ran"}
                  [] first = "racing" -> {"racing", "ran"}
                  [] OTHER            -> {first}
    /\ UNCHANGED <<rejected, storeVer, storeOk, tick, reloadPost, quit, main, srvVer,
                   httpServer, streams, call>>

\* The initial goroutine runs after no server is left to start
\* (236-242): the httpServer it reads either was shut down
\* (ErrServerClosed, it returns) or already holds the port, bound by a
\* reload's goroutine, and its ListenAndServe fails with "address in use",
\* on which this goroutine, unlike the reload's, calls logger.Fatal.
ListenLate ==
    /\ Running /\ first # "ran" /\ starting = 0
    /\ first' = "ran"
    /\ IF bound # 0 /\ bound = httpServer THEN Fatal ELSE UNCHANGED <<main, bound, starting>>
    /\ UNCHANGED <<rejected, storeVer, storeOk, tick, reloadPost, quit, srvVer,
                   httpServer, streams, call>>

-----------------------------------------------------------------------------
\* The environment: operators, signals and clients.

\* An operator changes the configuration; the notifier signals it.
ConfigChange ==
    /\ Running /\ storeVer < MaxVersions
    /\ storeVer' = storeVer + 1
    /\ storeOk' \in IF StoreFaults THEN BOOLEAN ELSE {TRUE}
    /\ tick' = TRUE
    /\ UNCHANGED <<first, rejected, reloadPost, quit, main, srvVer, httpServer, bound,
                   starting, streams, call>>

\* POST /_reload on the inner port (226-229).
PostReload ==
    /\ Running /\ ~reloadPost
    /\ reloadPost' = TRUE
    /\ UNCHANGED <<first, rejected, storeVer, storeOk, tick, quit, main, srvVer, httpServer,
                   bound, starting, streams, call>>

\* SIGINT or SIGTERM, which run() has asked to be notified of.
Signal ==
    /\ Running /\ ~quit
    /\ quit' = TRUE
    /\ UNCHANGED <<first, rejected, storeVer, storeOk, tick, reloadPost, main, srvVer, httpServer,
                   bound, starting, streams, call>>

\* `mcp-gateway reload` (reloadCmd, main.go 46-75) reads the PID file and
\* sends SIGHUP.  run() registers only SIGINT and SIGTERM with
\* signal.Notify (252-253), so the Go runtime applies SIGHUP's default
\* action: the process terminates.
ReloadCommand ==
    /\ Running /\ HupSignals
    /\ main' = [main EXCEPT !.pc = "exited"]
    /\ bound' = 0
    /\ starting' = 0
    /\ UNCHANGED <<first, rejected, storeVer, storeOk, tick, reloadPost, quit, srvVer, httpServer,
                   streams, call>>

\* A client opens an SSE stream on the server that holds the port.
OpenStream ==
    /\ Running /\ bound # 0
    /\ OpenStreams < MaxStreams
    /\ streams' = [streams EXCEPT ![bound] = @ + 1]
    /\ UNCHANGED <<first, rejected, storeVer, storeOk, tick, reloadPost, quit, main, srvVer,
                   httpServer, bound, starting, call>>

\* A client closes its stream; handleGet returns.
CloseStream ==
    /\ Running
    /\ \E g \in Gens :
          /\ streams[g] > 0
          /\ streams' = [streams EXCEPT ![g] = @ - 1]
    /\ UNCHANGED <<first, rejected, storeVer, storeOk, tick, reloadPost, quit, main, srvVer,
                   httpServer, bound, starting, call>>

-----------------------------------------------------------------------------
\* tools/call in handleMCPRequest (streamable.go 185-231), on a request
\* accepted by the server that holds the port.

\* s.toolMap[params.Name] (194).
CallTool ==
    /\ Running /\ bound # 0 /\ call.pc = "none"
    /\ call' = [pc |-> "tool", tv |-> srvVer, sv |-> srvVer]
    /\ UNCHANGED <<first, rejected, storeVer, storeOk, tick, reloadPost, quit, main, srvVer,
                   httpServer, bound, starting, streams>>

\* s.prefixToServerConfig[conn.Meta().Prefix] (207).
CallConfig ==
    /\ Running /\ call.pc = "tool"
    /\ call' = [call EXCEPT !.pc = "execute", !.sv = srvVer]
    /\ UNCHANGED <<first, rejected, storeVer, storeOk, tick, reloadPost, quit, main, srvVer,
                   httpServer, bound, starting, streams>>

\* executeTool with the tool and the server config read, then the answer.
CallExecute ==
    /\ Running /\ call.pc = "execute"
    /\ call' = [call EXCEPT !.pc = "none"]
    /\ UNCHANGED <<first, rejected, storeVer, storeOk, tick, reloadPost, quit, main, srvVer,
                   httpServer, bound, starting, streams>>

-----------------------------------------------------------------------------
MainStep ==
    \/ RecvQuit \/ RecvUpdate \/ RecvReload
    \/ List \/ Merge \/ Apply \/ ShutdownDone \/ ShutdownTimeout

Environment ==
    \/ ConfigChange \/ PostReload \/ Signal \/ ReloadCommand
    \/ OpenStream \/ CloseStream
    \/ CallTool

Next ==
    \/ MainStep \/ Listen \/ ListenLate \/ CallConfig \/ CallExecute
    \/ Environment

\* The main goroutine, the ListenAndServe goroutine and a request handler
\* run whenever they can (the Shutdown deadline is a timer that fires);
\* operators, signals and clients act only if they choose to.
Fairness ==
    /\ WF_vars(MainStep)
    /\ WF_vars(Listen) /\ WF_vars(ListenLate)
    /\ WF_vars(CallConfig \/ CallExecute)

Spec == Init /\ [][Next]_vars /\ Fairness

-----------------------------------------------------------------------------
TypeOK ==
    /\ storeVer \in Versions /\ storeOk \in BOOLEAN
    /\ tick \in BOOLEAN /\ reloadPost \in BOOLEAN /\ quit \in BOOLEAN
    /\ main \in [pc : MainPCs, ver : Versions, ok : BOOLEAN, new : Gens]
    /\ srvVer \in Versions
    /\ httpServer \in Gens
    /\ bound \in Gens \cup {0} /\ starting \in Gens \cup {0}
    /\ streams \in [Gens -> 0..MaxStreams]
    /\ call \in [pc : CallPCs, tv : Versions, sv : Versions]
    /\ first \in {"alone", "racing", "ran"}
    /\ rejected \in Versions \cup {0}

\* A POST /_reload is always answered (or the process ends): its handler
\* blocks sending on the unbuffered reloadChan (main.go 224-229) until the
\* main loop receives, and the main goroutine may be inside handleReload,
\* waiting in httpServer.Shutdown for SSE clients that never disconnect;
\* the 5 s deadline (129-135) bounds that wait.
ReloadAnswered == reloadPost ~> (~reloadPost \/ ~Running)

\* A configuration the operator stores is eventually the one the gateway
\* serves, unless a reload that read it failed to apply it (RegisterRoutes
\* or UpdateConfig returned an error and the old tables stay) or the
\* process has ended: a change that lands while a reload is already past
\* store.List leaves its notification waiting, so a further reload picks
\* it up (main.go 96-122, 271-273).
ConfigConverges ==
    \A v \in Versions : (storeVer = v) ~> (srvVer >= v \/ rejected >= v \/ ~Running)

-----------------------------------------------------------------------------
\* The gateway stays available until SIGINT/SIGTERM: a reload, whether
\* triggered by the notifier, POST /_reload or SIGHUP, and even one whose
\* store read or merge fails, leaves the process running (spec 4.7 step 3,
\* 4.8 "SIGHUP => reload", section 7 "Config errors at reload -- logged;
\* old snapshot remains active"), and whenever the main loop waits for the
\* next event the public port is served or about to be (spec 4.7 step 5
\* "after shutdown (or timeout), start the new server", scenario S5).
GatewayAvailable ==
    ~quit => (Running /\ (main.pc = "loop" => bound # 0 \/ starting # 0))

\* A tools/call runs a tool with the server config of the same snapshot
\* (spec section 5: "a dispatcher observes either the old snapshot or the
\* new, never a half-merged state").
SnapshotConsistency == call.pc = "execute" => call.tv = call.sv

=============================================================================
