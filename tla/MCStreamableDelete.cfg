\* An SSE stream open on a session that a DELETE then removes.
CONSTANTS
    Replicas = {r1}
    Workers = {w1, w2}
    Ids = {s1}
    QueueCap = 1
    MaxRegs = 1
    MaxSends = 0
    RedisFaults = FALSE
    TopicLoss = FALSE
    Sticky = TRUE
    Reinit = TRUE
SPECIFICATION Spec
PROPERTY DeleteEndsStream
