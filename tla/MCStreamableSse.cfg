\* An SSE stream open on the replica that registered the session, one event, and a DELETE.
CONSTANTS
    Replicas = {r1, r2}
    Workers = {w1, w2}
    Ids = {s1}
    QueueCap = 1
    MaxRegs = 1
    MaxSends = 1
    RedisFaults = FALSE
    TopicLoss = FALSE
    Sticky = TRUE
    Reinit = TRUE
SPECIFICATION Spec
PROPERTY SseStreamContract
