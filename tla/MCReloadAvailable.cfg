\* Reloads with an SSE stream open, store read failures and the reload
\* command's SIGHUP.
CONSTANTS
    MaxVersions = 2
    MaxServers = 3
    MaxStreams = 1
    StoreFaults = TRUE
    ApplyFaults = FALSE
    HupSignals = TRUE
SPECIFICATION Spec
\* The process stops for good on SIGINT/SIGTERM or a fatal log.
CHECK_DEADLOCK FALSE
INVARIANT GatewayAvailable
