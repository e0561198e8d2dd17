\* Two replicas, two handlers, one session initialized with fresh ids,
\* three events, room for two per channel, Redis faults, a lossy topic, no
\* sticky routing.
CONSTANTS
    Replicas = {r1, r2}
    Workers = {w1, w2}
    Ids = {s1}
    QueueCap = 2
    MaxRegs = 2
    MaxSends = 3
    RedisFaults = TRUE
    TopicLoss = TRUE
    Sticky = FALSE
    Reinit = FALSE
SPECIFICATION Spec
SYMMETRY WorkerSymmetry
INVARIANT TypeOK EventOrder
