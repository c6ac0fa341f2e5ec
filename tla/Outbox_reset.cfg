SPECIFICATION Spec
CONSTANTS
    Events = {e1}
    Poison = {}
    Dispatchers = {d1}
    MaxAttempts = 5
    BatchSize = 2
    CallsFail = FALSE
    MaxFaults = 5
    NoEvent = NoEvent
INVARIANT ResetKeepsRetryPolicy
