\* A tools/call racing a reload.
CONSTANTS
    MaxVersions = 2
    MaxServers = 3
    MaxStreams = 1
    StoreFaults = FALSE
    ApplyFaults = FALSE
    HupSignals = FALSE
SPECIFICATION Spec
\* The process stops for good on SIGINT/SIGTERM or a fatal log.
CHECK_DEADLOCK FALSE
INVARIANT SnapshotConsistency
