SPECIFICATION FairSpec
CONSTANTS
    Deployments = {d1}
    Workers = {w1, w2}
    MaxRetries = 2
    MaxCopies = 1
    MaxFaults = 2
INVARIANTS
    TypeOK
    JobsAreKept
    OutcomeIsEarned
    DeadJobsAreReported
PROPERTIES
    ImplementsService
    JobsConclude
