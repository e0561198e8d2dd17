---------------------------- MODULE GatewayManager ----------------------------
(***************************************************************************)
(* The GatewayManager page of the web UI (src/unnamed/part_002 68-540):   *)
(* its mount effect and its click handlers are async functions that the  *)
(* browser runs concurrently.  Each awaits one or two calls of the admin *)
(* REST API and then replaces the displayed server list (mcpservers) by  *)
(* the list its own getMCPServers returned.                              *)
(*                                                                         *)
(* A running handler is a task.  Its awaits are separate steps: the admin *)
(* API serves the call (reading or writing the stored servers), and later *)
(* the promise resolves and the continuation runs up to the next await.  *)
(* The answers of different tasks may arrive in any order.               *)
(*                                                                         *)
(* The admin API is not part of this repository (spec section 1 leaves   *)
(* it out of scope): a call either does what its name says to the stored *)
(* servers or, with ApiFaults, rejects.  YAML validation failures, toasts *)
(* and the modals' open state change neither the list nor the spinner and *)
(* are left out; parseConfigs only derives a view of mcpservers.          *)
(***************************************************************************)
EXTENDS Naturals, FiniteSets

CONSTANTS
    Names,      \* server names
    Configs,    \* configuration texts a server may have
    Tasks,      \* slots for concurrently running handlers
    MaxClicks,  \* bound on the handlers the operator starts
    ApiFaults,  \* whether an admin API call may reject
    None        \* no server of that name / no reply yet

ASSUME /\ MaxClicks \in Nat /\ ApiFaults \in BOOLEAN
       /\ None \notin Configs

\* A server list: each name's config, or None when it is not in the list.
Lists == [Names -> Configs \cup {None}]

VARIABLES
    backend,     \* the servers the admin API stores
    mcpservers,  \* the list the page displays (React state)
    isLoading,   \* the spinner (React state)
    current,     \* currentMCPServer: the server the editor was opened on
    task,        \* task[t]: the handler running in slot t
    clicks       \* handlers started by the operator so far

vars == <<backend, mcpservers, isLoading, current, task, clicks>>

Ops == {"idle", "fetch", "save", "delete", "sync", "create", "import"}

\* pc: the API call the task awaits ("got": getMCPServers has answered
\* and the continuation is ready to run); reply: that answer.
PCs == {"idle", "update", "delete", "sync", "create", "get", "got"}

Task == [op : Ops, pc : PCs, name : Names \cup {None},
         cfg : Configs \cup {None}, reply : Lists \cup {None}]

Idle == [op |-> "idle", pc |-> "idle", name |-> None, cfg |-> None, reply |-> None]

EmptyList == [n \in Names |-> None]

\* The page mounts with an empty list and the spinner on, and the mount
\* effect's fetchMCPServers awaits getMCPServers in some slot.
Init ==
    /\ backend \in Lists
    /\ mcpservers = EmptyList
    /\ isLoading = TRUE
    /\ current = None
    /\ \E t0 \in Tasks :
          task = [t \in Tasks |-> IF t = t0 THEN [Idle EXCEPT !.op = "fetch", !.pc = "get"]
                                            ELSE Idle]
    /\ clicks = 0

\* The operator starts handler op in a free slot; it runs synchronously up
\* to its first await, which is on the API call pc.
Start(t, op, n, c, pc) ==
    /\ clicks < MaxClicks
    /\ task[t].op = "idle"
    /\ task' = [task EXCEPT ![t] = [op |-> op, pc |-> pc, name |-> n, cfg |-> c, reply |-> None]]
    /\ clicks' = clicks + 1

\* The server cards are rendered only while the spinner is off.
Shown(n) == ~isLoading /\ mcpservers[n] # None

\* handleEdit on a server's card: the editor opens on that server.
HandleEdit(n) ==
    /\ Shown(n)
    /\ current' = n
    /\ UNCHANGED <<backend, mcpservers, isLoading, task, clicks>>

\* handleSave in the editor (its editConfig parses as YAML) awaits
\* updateMCPServer for currentMCPServer, however the list has changed
\* since the editor was opened.
HandleSave(t, c) ==
    /\ current # None
    /\ Start(t, "save", current, c, "update")
    /\ UNCHANGED <<backend, mcpservers, isLoading, current>>

\* handleDelete on a server's card awaits deleteMCPServer.
HandleDelete(t, n) ==
    /\ Shown(n)
    /\ Start(t, "delete", n, None, "delete")
    /\ UNCHANGED <<backend, mcpservers, isLoading, current>>

\* handleSync turns the spinner on and awaits syncMCPServers.
HandleSync(t) ==
    /\ Start(t, "sync", None, None, "sync")
    /\ isLoading' = TRUE
    /\ UNCHANGED <<backend, mcpservers, current>>

\* handleCreate, the new config parsing as YAML, awaits createMCPServer;
\* the server's name is the one inside that config.
HandleCreate(t, n, c) ==
    /\ Start(t, "create", n, c, "create")
    /\ UNCHANGED <<backend, mcpservers, isLoading, current>>

\* OpenAPIImport reports success: handleImportSuccess awaits
\* getMCPServers.
HandleImportSuccess(t) ==
    /\ Start(t, "import", None, None, "get")
    /\ UNCHANGED <<backend, mcpservers, isLoading, current>>

\* What the admin API does to the stored servers for the call t awaits.
ApiEffect(t) ==
    CASE task[t].pc \in {"update", "create"} -> [backend EXCEPT ![task[t].name] = task[t].cfg]
      [] task[t].pc = "delete"               -> [backend EXCEPT ![task[t].name] = None]
      [] OTHER                               -> backend

\* The admin API serves a mutating call, which resolves; the handler then
\* awaits getMCPServers.
Mutate(t) ==
    /\ task[t].pc \in {"update", "delete", "sync", "create"}
    /\ backend' = ApiEffect(t)
    /\ task' = [task EXCEPT ![t].pc = "get"]
    /\ UNCHANGED <<mcpservers, isLoading, current, clicks>>

\* The admin API answers getMCPServers with the servers stored now.
GetMCPServers(t) ==
    /\ task[t].pc = "get"
    /\ task' = [task EXCEPT ![t].pc = "got", ![t].reply = backend]
    /\ UNCHANGED <<backend, mcpservers, isLoading, current, clicks>>

\* The finally clause: fetchMCPServers and handleSync turn the spinner off
\* on every return; the other handlers leave it alone.
Finally(t) ==
    isLoading' = IF task[t].op \in {"fetch", "sync"} THEN FALSE ELSE isLoading

\* getMCPServers' promise resolves: setMCPServers(servers), the success
\* toast (and closing the modal), then the finally clause.
Resolve(t) ==
    /\ task[t].pc = "got"
    /\ mcpservers' = task[t].reply
    /\ Finally(t)
    /\ task' = [task EXCEPT ![t] = Idle]
    /\ UNCHANGED <<backend, current, clicks>>

\* Mutant of Reject: handleSync's spinner reset in the try block instead
\* of finally, so a rejected call leaves the spinner on.
RejectWithoutFinally(t) ==
    /\ ApiFaults
    /\ task[t].pc \in {"update", "delete", "sync", "create", "get"}
    /\ isLoading' = IF task[t].op = "fetch" THEN FALSE ELSE isLoading
    /\ task' = [task EXCEPT ![t] = Idle]
    /\ UNCHANGED <<backend, mcpservers, current, clicks>>

\* An awaited API call rejects (ApiFaults): the catch clause's error toast,
\* then the finally clause; the list stays as it is.
Reject(t) ==
    /\ ApiFaults
    /\ task[t].pc \in {"update", "delete", "sync", "create", "get"}
    /\ Finally(t)
    /\ task' = [task EXCEPT ![t] = Idle]
    /\ UNCHANGED <<backend, mcpservers, current, clicks>>

Next ==
    \/ \E n \in Names : HandleEdit(n)
    \/ \E t \in Tasks :
        \/ \E c \in Configs : HandleSave(t, c)
        \/ \E n \in Names, c \in Configs : HandleCreate(t, n, c)
        \/ \E n \in Names : HandleDelete(t, n)
        \/ HandleSync(t)
        \/ HandleImportSuccess(t)
        \/ Mutate(t)
        \/ GetMCPServers(t)
        \/ Resolve(t)
        \/ Reject(t)

\* The admin API answers every call (or the request fails), and the
\* browser runs a continuation once its promise settles.  The operator
\* is not fair.
Spec ==
    /\ Init /\ [][Next]_vars
    /\ \A t \in Tasks : WF_vars(Mutate(t)) /\ WF_vars(GetMCPServers(t)) /\ WF_vars(Resolve(t))

TypeOK ==
    /\ backend \in Lists /\ mcpservers \in Lists
    /\ isLoading \in BOOLEAN
    /\ current \in Names \cup {None}
    /\ task \in [Tasks -> Task]
    /\ clicks \in 0..MaxClicks

\* The spinner always goes away: whenever isLoading is on, it is later
\* off, because fetchMCPServers and handleSync reset it in finally on
\* success and on a rejected getMCPServers or syncMCPServers alike, and
\* only these two turn it on.
SpinnerClears == isLoading ~> ~isLoading

\* Once no handler is running, the page shows the servers the admin API
\* stores: every handler that changes them refreshes the list afterwards
\* (handleSave, handleDelete, handleSync, handleCreate).
ListCurrent ==
    (\A t \in Tasks : task[t].op = "idle") => mcpservers = backend

\* While handleSync is running the spinner is on (it sets isLoading
\* before awaiting syncMCPServers and clears it only in finally).
SpinnerWhileSyncing ==
    (\E t \in Tasks : task[t].op = "sync") => isLoading
=============================================================================
