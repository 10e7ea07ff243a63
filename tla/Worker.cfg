CONSTANTS
    Events = {e1, e2, e3}
    WithUrl = {e1, e2}
    Workers = {w1}
    MaxAttempts = 3
    Backoff <- ShortBackoff
    BatchSize = 2
    MaxFaults = 1
    None = None
SPECIFICATION Spec
INVARIANTS
    FailedWasExhausted
    AttemptsCounted
PROPERTIES
    PostOnlyDue
    TerminalIsFinal
CHECK_DEADLOCK FALSE
