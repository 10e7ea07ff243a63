CONSTANTS
    Events = {e1}
    WithUrl = {e1}
    Workers = {w1}
    MaxAttempts = 3
    Backoff <- ShortBackoff
    BatchSize = 1
    MaxFaults = 0
    None = None
SPECIFICATION Spec
PROPERTIES
    DocumentedSchedule
CHECK_DEADLOCK FALSE
