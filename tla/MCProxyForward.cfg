\* A tools/call from a client with a gateway session, with the forwarded
\* headers applied after the transport's own; no failures.
CONSTANTS
    Callers = {c1, c2}
    MaxSessions = 2
    ProxyFaults = FALSE
    ForwardedLast = TRUE
SPECIFICATION Spec
SYMMETRY CallerSymmetry
INVARIANT NoForeignSession
