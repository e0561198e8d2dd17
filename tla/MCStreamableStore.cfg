\* Register, re-initialize and Unregister of one session on one replica,
\* racing and failing at any Redis round trip.
CONSTANTS
    Replicas = {r1}
    Workers = {w1, w2}
    Ids = {s1}
    QueueCap = 1
    MaxRegs = 2
    MaxSends = 0
    RedisFaults = TRUE
    TopicLoss = FALSE
    Sticky = TRUE
    Reinit = TRUE
SPECIFICATION Spec
SYMMETRY WorkerSymmetry
INVARIANT StoreConsistent
