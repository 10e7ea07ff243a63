CONSTANTS
    Events = {e1, e2}
    WithUrl = {e1, e2}
    Workers = {w1, w2}
    MaxAttempts = 2
    Backoff <- OneDelay
    BatchSize = 1
    MaxFaults = 1
    None = None
SPECIFICATION FairSpec
PROPERTIES
    ImplementsDelivery
    EventuallyProcessed
CHECK_DEADLOCK FALSE
