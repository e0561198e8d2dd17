# TLA+ models of the MCP gateway

This directory holds TLA+ models of the concurrent parts of the gateway in
`src/`, together with the TLC configurations that check them. Every action is
translated from the Go source. `PROJECT.json` maps each definition to the
lines it models.

## The system

| Part | Source | State | Operations |
|---|---|---|---|
| Redis session store | `internal/mcp/session/redis.go` 1-303 | Redis key `session:<id>`, set `session:ids`, pub/sub topic; per replica a map id -> connection, each with a 100-slot channel | Register, Get, Unregister, List, Close, Connection.Send, the `handleUpdates` subscriber goroutine |
| Streamable HTTP transport | `internal/core/streamable.go` 19-139 | none of its own | POST initialize -> Register; other POST -> Get; DELETE -> Unregister; GET -> Get, then the SSE loop |
| Dispatcher | `internal/core/streamable.go` 142-237 | reads `toolMap` and `prefixToServerConfig` | initialize, tools/list, tools/call |
| Reload controller / supervisor | `cmd/mcp-gateway/main.go` | global `httpServer`, `reloadChan`, quit channel | main-loop select, `handleReload`, `/_reload`, signals, the `reload` command |
| MCP proxy | `internal/core/mcpproxy/streamable.go` | a client per call, its backend session | InvokeStreamableTool, FetchStreamableToolList |
| MySQL chat database | `redis.go` 305-466 | GORM tables | CRUD, GetInitState (read, then create if missing) |
| Web UI: GatewayManager | `unnamed/part_002` 68-540 | the displayed server list, the spinner, the server the editor is open on | mount fetch; edit, save, delete, sync, create, import success, each an async handler over the admin REST API |
| Web UI: chat, i18n; build | `unnamed/part_*`, Dockerfile, scripts | browser state | rendering; calls into services not in the repository |

How the parts interact:

- Several gateway replicas share one Redis.
- An event sent on a session is published on the topic, and every replica's
  subscriber pushes it, without blocking, into the local connection of that
  session.
- The SSE loop of `handleGet` reads the channel of the connection that Get
  returned.
- Reloads are triggered by the notifier, by `POST /_reload`, or, according to
  the spec, by SIGHUP. A reload swaps the server tables and replaces the
  public `http.Server` while requests and SSE streams are in flight.

## Modules

- **SessionStore.tla** models the Redis store.
  - Each Redis round trip of Register (Set, SAdd, map insert, publish), Get
    (SIsMember, Get) and Unregister (map delete, SIsMember, Del, SRem,
    publish) is an action of the calling handler `wk[w]`. Another goroutine
    may run between any two of them.
  - With `RedisFaults`, any round trip may fail (`Fail`). The call then
    returns with the earlier writes still applied.
  - `inbox[r]` is replica r's subscription buffer.
  - With `TopicLoss`, the subscription may lose the message it is handing
    over (`LoseUpdate`). go-redis drops a message that its channel cannot
    take within 30 s, and Redis does not resend what was published while
    the subscriber was reconnecting.
  - `HandleUpdate(r)` is one iteration of `handleUpdates`:
    - push when the channel has room;
    - drop when it is full;
    - discard when the id has no local connection.
  - Connection 0 stands for every connection that Get builds. Its channel is
    created inside Get and nothing ever writes to it.
  - `hist`, `dropped` and `sent` are history variables for the properties.
- **Streamable.tla** (EXTENDS SessionStore) models the HTTP handlers that
  drive the store, on any replica or, with `Sticky`, on one.
  - `Reinit` says whether a client may send initialize with the id of a
    session in use. Otherwise `Unused(id)` stands for the fresh
    `uuid.New()`.
- **SessionContract.tla** is the abstract store of spec 4.2, as one process
  sees it: a set of live ids and a bounded queue per id.
  - Register is idempotent and keeps the queue.
  - Unregister closes and removes.
  - Push appends; drops and discards are stuttering steps.

  `Streamable!ImplementsContract` instantiates it once per replica with the
  refinement mapping `live <- {id : conns[r][id] # 0}`,
  `queue <- [id |-> queue[conns[r][id]]]`. TLC rejects `\A r : C(r)!Spec`, so
  the property is written as `Init` plus a boxed quantified `Next`. With
  fresh ids (`Reinit = FALSE`) the mapping holds by the shape of the model,
  so the refinement is only checked where it says something: with `Reinit`,
  in run streamable_reinit, where it fails.
- `Send` (RedisConnection.Send) has no caller in `src/`: every
  `sendSuccessResponse` in `handleMCPRequest` passes `false`. It is kept as
  the environment's way of publishing an event for a session, standing for
  the event sources of spec 4.2.
- **Reload.tla** models the main loop and `handleReload`:
  - List (fatal on error);
  - Merge (fatal on conflict);
  - Apply: RegisterRoutes and UpdateConfig under `serverLock`, then the new
    server. Shutdown first closes the old listener;
  - Shutdown finishes (no active connection) or times out (open SSE
    streams);
  - the ListenAndServe goroutines. The initial one (main.go 236-242) is
    tracked apart (`first`), because it reads the global `httpServer` when
    it runs, like a reload's, but calls `logger.Fatal` on any error other
    than ErrServerClosed: scheduled after a reload's goroutine has bound the
    port, it fails with "address in use" and ends the process
    (`ListenLate`). A bind failure for other reasons (the port taken by
    another process) is not modelled;
  - SIGINT/SIGTERM, `/_reload`, the `reload` command's SIGHUP;
  - SSE streams held on a server;
  - the two table reads of tools/call.

  A config is a version number. An `http.Server` is a reusable slot of
  `1..MaxServers`. `ConfigChange`, the notifier, is modelled from the spec
  because the notifier is not in `src/`. `rejected` is a history variable,
  the version of the last reload whose apply failed.
- **Proxy.tla** models `mcpproxy/streamable.go`.
  - InvokeStreamableTool and FetchStreamableToolList are run by concurrent
    callers, one action per step: Args, Template, RenderEnv, NewTransport,
    StartTransport (NewClient, deferred Close), Initialize, CallTool or
    ListTools.
  - Any step may fail (`ProxyFaults`). `Return` runs the deferred Close
    once the client exists, which ends the backend session that Initialize
    opened.
  - Backend session ids are reusable slots `1..MaxSessions`. `GwSid` is the
    gateway's own session id, which names no backend session.
  - `SidSent` is the id a backend request carries. Whether the forwarded
    headers override the transport's own is decided by mcp-go, which is not
    in this repository; the constant `ForwardedLast` stands for that choice.
- **Database.tla** models the MySQL part of `redis.go` (package `database`)
  as SQL statements of concurrent callers:
  - GetInitState: First, then Create;
  - SetInitState (Save);
  - SaveMessage;
  - GetMessagesWithPagination: the set of pages the query may return;
    `Ordered` is every order that `ORDER BY timestamp` may return,
    `PageOffset`/`Page` are the offset and limit. `BeginPaging` and
    `ReadNextPage` are a caller that reads a conversation page after page
    and stops at a short page; no such caller is in `src/`, so these two
    actions are not mapped to code;
  - the users table: CreateUser, GetUserByUsername, UpdateUser (Save),
    DeleteUser;
  - the sessions table: CreateSession (Create, so a repeated call fails on
    the duplicate key) and UpdateSessionTitle (an UPDATE that matches no
    row for an id not yet created, and returns nil).

  None of these functions has a caller in `src/`; the package is a
  library, and the model lets any number of concurrent callers use it.

  A statement that fails and changes nothing is a stuttering step. `Ties`
  allows equal timestamps.
- **GatewayManager.tla** models the GatewayManager page of the web UI.
  - Its mount effect and each click handler is a task in one of the slots
    `Tasks`. Each `await` is two steps: the admin API serves the call
    (`Mutate` for update, delete, sync or create, then `GetMCPServers`,
    which reads the stored servers), and later the continuation runs
    (`Resolve`: `setMCPServers` with that answer, then `finally`).
    Answers of different tasks land in any order.
  - With `ApiFaults`, an awaited call may reject (`Reject`): the catch
    clause's toast, then `finally`.
  - `HandleEdit` records `currentMCPServer`; `HandleSave` uses it however
    the list has changed since. Cards, and so Edit and Delete, exist only
    while the spinner is off.
  - The admin API is not in the repository. `ApiEffect` says only that a
    call does what its name says to the stored servers. YAML validation
    failures, toasts and modal state change neither the list nor the
    spinner, and are left out.
- **MCStreamable.tla**, **MCReload.tla**, **MCGatewayManager.tla**, **MCProxy.tla** and
  **MCDatabase.tla** add symmetry sets for the TLC instantiation. Symmetry is
  used only in cfgs that check no liveness property.

## Runs

| Run | Checks | Result |
|---|---|---|
| streamable_order | TypeOK (no channel holds more than its capacity); EventOrder: each channel receives only its session's events, in publish order, with Redis faults and a lossy topic | pass (1,054,406 states, 30 s) |
| streamable_full | SubscriberNeverStalls: with full channels every subscriber keeps draining the topic | pass (442,211 states, 1 min) |
| streamable_reinit | ImplementsContract: every replica's map refines SessionContract | **violated**: a client re-initializes its live id, Register replaces the connection, and the queued event is lost; spec 4.2 makes Register idempotent |
| sse_stream | SseStreamContract: an event for a session with an open stream reaches the stream's channel (SseDelivery), and after DELETE the stream ends (DeleteEndsStream) | **violated**: the stream reads Get's fresh channel; and nothing closes the channel |
| store_consistency | StoreConsistent: with no call in progress, a map entry implies both Redis records, and key and set member agree | **violated**: a Set whose SAdd fails; without faults, a DELETE between Register's SAdd and its map insert, or a re-initialize racing a DELETE |
| reload | TypeOK; ReloadAnswered: a POST /_reload blocked on the unbuffered reloadChan is always answered, although the main goroutine may be inside handleReload waiting on SSE clients; ConfigConverges: every stored version is eventually served unless a reload that read it failed to apply it, or the process ended. With store, merge and apply failures | pass (160,664 states, 48 s) |
| reload_available | GatewayAvailable: until SIGINT/SIGTERM the process runs, and when the main loop waits the port is served | **violated**: SIGHUP is not in `signal.Notify` and kills the gateway; `logger.Fatal` on List/Merge errors ends it; with faults and SIGHUP off, Shutdown times out on an open SSE stream, the old listener is already closed, and the new server is never started; and a late initial ListenAndServe goroutine calls `logger.Fatal` |
| reload_snapshot | SnapshotConsistency: tools/call uses one config snapshot | **violated**: toolMap and prefixToServerConfig are read at different moments |
| proxy | TypeOK; OneShotSessions: no backend session outlives its call, and no call loses its session to another call's Close | pass (3,192 states) |
| db_init_race | GetInitStateSucceeds: on a healthy database GetInitState returns the state | **violated**: GetInitState's First misses the row, another caller inserts it (in TLC's 3-step trace SetInitState's Save; two first GetInitState calls race the same way), and GetInitState's Create fails with a duplicate key |
| gateway_ui | SpinnerClears: the GatewayManager spinner always goes off, with three tasks at once and rejecting API calls | pass (145,269 states, 12 s) |
| db | InitStateKept: GetInitState never overwrites a saved state; PagesPartition: paging a quiet conversation returns each message once | pass (705,360 states, 66 s) |

Every property of a passing run has a mutant in `PROJECT.json`: a plausible
bug of the mapped code that TLC finds.

- An unbounded push or an out-of-order take in `handleUpdates`.
- A blocking send.
- A nil `httpServer` after Shutdown.
- No Shutdown deadline.
- A reload that skips UpdateConfig.
- An error return that skips Close.
- A transport that adopts the forwarded session header.
- GetInitState creating with Save.
- Pages counted from zero.
- A spinner reset outside `finally`.

Further configurations reproduce divergences that are recorded as hazards
rather than runs:

- **MCProxyForward.cfg**: NoForeignSession fails if forwarded headers win.
  The backend sees the gateway's session id.
- **MCStreamableDelete.cfg**: DeleteEndsStream alone, on one replica with
  no events, shows the stream of a deleted session staying open.
- **MCGatewayManagerStale.cfg**: ListCurrent fails. The mount fetch reads
  the list, a Create adds a server and refreshes, and the mount fetch's
  older answer lands last: at rest the page does not show the new server.
- **MCGatewayManagerSpinner.cfg**: SpinnerWhileSyncing fails if the Sync
  button can be pressed while it shows the spinner (HeroUI's behaviour is
  outside the repository): the mount fetch's `finally` turns the spinner
  off while the sync runs.
- **MCDatabaseTies.cfg**: PagesPartition fails with equal timestamps.
- **MCDatabaseUser.cfg**: NoResurrection fails. UpdateUser's Save re-inserts
  a user that was deleted after it was read.

### Bounds

- Streamable uses:
  - two replicas, so cross-replica publish is possible;
  - two handlers, so Register, Unregister and Get can interleave;
  - one session;
  - two Register calls (a re-initialize, or a register after a delete);
  - three events, one more than the channel capacity of 2 in
    streamable_order, so both "fits" and "would overflow" happen;
  - capacity 1 in streamable_full, so the drop branch fires.

  Two sessions with faults exceed TLC's budget. The cross-session clause of
  EventOrder is therefore checked only trivially.
- Reload uses:
  - three config versions, so a change can land during a reload, and a
    later version can still follow one whose apply failed;
  - one SSE stream;
  - three server slots (the serving server, the new one, and one held by a
    stream).
- Proxy uses three callers and three backend sessions. Every caller can
  hold a session at once, and one call's Close can race another's request.
- GatewayManager uses two servers and two config texts (so a save changes
  something), three slots and two clicks besides the mount fetch, so three
  handlers run at once.
- Database uses:
  - two clients;
  - three messages over three timestamps with pages of two, so a
    conversation spans a full and a short page;
  - one session id and one title, besides the empty title of a new row;
  - one user value in the passing run (two in MCDatabaseUser.cfg, where a
    change of value matters).

### Fairness

- Server-side steps are weakly fair. These are Redis round trips (which
  return a result or an error), the handler answering, `handleUpdates`, the
  main goroutine (whose Shutdown deadline is a timer), the ListenAndServe
  goroutine, a running request, and the steps of a proxied call (each is
  local or a request bounded by the request context).
- Clients, operators and signals are not fair: a client may keep an SSE
  stream open forever, and that is exactly the case the Shutdown deadline is
  for.
- In GatewayManager the admin API's answers and the browser's
  continuations are weakly fair: a request is answered or fails, and the
  event loop runs a settled promise's continuation. The operator is not.
- The Database module checks only safety and assumes no fairness.
- ReloadAnswered rests on the weak fairness of the main goroutine alone:
  nothing else takes from `reloadChan`. Without the Shutdown deadline, a
  stream that a client never closes keeps the main goroutine in Shutdown,
  and the POST /_reload handler waits forever.

## Not modelled, and the plan

- The chat UI (`ChatMessage.handleRunTool`, `ChatHistory`) only calls
  `mcpService` and `wsService`, which are not in the repository. The
  components keep no state that these calls change besides toasts.
- Not modelled because nothing in `src/` calls it:
  - `RedisStore.List` and `RedisStore.Close` (redis.go 231-275); `main.go`
    never closes the session store;
- The sessions table's CreateSession and UpdateSessionTitle are actions of
  Database.tla, but no property is stated about them: neither has a caller
  in `src/`, so nothing says what a caller expects of a repeated create or
  of a title update for a missing id.
- Read-only database queries (SessionExists, GetSessions, GetMessages)
  and `MySQL.Close`: a read is one statement that changes nothing, and
  Close has no caller.
- Abstracted:
  - `handleUpdates` looks the connection up under RLock and pushes after
    RUnlock (redis.go 85-91). The model takes both as one step: a push into
    a connection removed just before is indistinguishable from a push just
    before its removal, because nothing reads a removed connection's
    channel.
- `cobra` command setup in `main.go` (flags, help) has no runtime state.
- Left out for good:
  - formatting, JSON and logging;
  - PID-file I/O;
  - build scripts;
  - template rendering and schema conversion in mcpproxy, kept only as steps
    that may fail;
  - the memory store and `core.Server` internals, which are not in `src/`.
