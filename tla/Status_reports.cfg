SPECIFICATION FairSpec
CONSTANTS
    Deployments = {d1}
    Unknown = {x}
    Servers = {s1, s2}
    Prefetch = 2
    MaxApplyAttempts = 2
    MaxReports = 2
    MaxFaults = 2
INVARIANTS
    TypeOK
    NothingIsLost
    DeadLettersAreUnfit
PROPERTIES
    OutcomeIsFinal
    ImplementsLifecycle
    EventuallyHandled
CHECK_DEADLOCK FALSE
