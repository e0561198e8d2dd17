\* Three concurrent calls, failures at every step, the transport's own
\* session header applied last.
CONSTANTS
    Callers = {c1, c2, c3}
    MaxSessions = 3
    ProxyFaults = TRUE
    ForwardedLast = FALSE
SPECIFICATION Spec
SYMMETRY CallerSymmetry
INVARIANT TypeOK OneShotSessions
