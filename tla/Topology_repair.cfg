SPECIFICATION FairSpec
CONSTANTS
    Servers = {s1}
    Workers = {w1}
    Jobs = Jobs
    Status = Status
    Queues <- TwoQueues
    MaxStops = 2
INVARIANTS
    WorkersFindRoutes
PROPERTIES
    RoutesAppear
CHECK_DEADLOCK FALSE
