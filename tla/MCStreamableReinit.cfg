\* A client re-sends initialize with its live session's id after an event
\* was queued for it; one replica.
CONSTANTS
    Replicas = {r1}
    Workers = {w1, w2}
    Ids = {s1}
    QueueCap = 1
    MaxRegs = 2
    MaxSends = 1
    RedisFaults = FALSE
    TopicLoss = FALSE
    Sticky = TRUE
    Reinit = TRUE
SPECIFICATION Spec
SYMMETRY WorkerSymmetry
PROPERTY ImplementsContract
