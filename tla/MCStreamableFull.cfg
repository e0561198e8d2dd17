\* Channels of capacity one that nobody drains: the second event for a
\* session overflows.  Two replicas, two handlers, one session.
CONSTANTS
    Replicas = {r1, r2}
    Workers = {w1, w2}
    Ids = {s1}
    QueueCap = 1
    MaxRegs = 2
    MaxSends = 2
    RedisFaults = TRUE
    TopicLoss = FALSE
    Sticky = FALSE
    Reinit = FALSE
SPECIFICATION Spec
PROPERTY SubscriberNeverStalls
