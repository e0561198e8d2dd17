\* Three config versions, one SSE stream at a time, store, merge and apply
\* failures during a reload, SIGHUP from the reload command.
CONSTANTS
    MaxVersions = 3
    MaxServers = 3
    MaxStreams = 1
    StoreFaults = TRUE
    ApplyFaults = TRUE
    HupSignals = TRUE
SPECIFICATION Spec
\* The process stops for good on SIGINT/SIGTERM or a fatal log.
CHECK_DEADLOCK FALSE
INVARIANT TypeOK
PROPERTY ReloadAnswered ConfigConverges
