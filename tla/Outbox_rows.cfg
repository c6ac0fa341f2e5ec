SPECIFICATION FairSpec
CONSTANTS
    Events = {e1, e2}
    Poison = {e2}
    Dispatchers = {d1, d2}
    MaxAttempts = 2
    BatchSize = 2
    CallsFail = TRUE
    MaxFaults = 2
    NoEvent = NoEvent
INVARIANT TypeOK
INVARIANT SentIsConfirmed
INVARIANT CopiesArePaidFor
INVARIANT RetryBudget
PROPERTY SettledStaysSettled
PROPERTY EventuallySettled
PROPERTY ImplementsRelay
