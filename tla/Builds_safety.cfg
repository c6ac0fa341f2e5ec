SPECIFICATION Spec
CONSTANTS
    Projects = {p1, p2}
    Deliveries = {dl1, dl2}
    Keys = {k1}
    Hooks = {h1, h2}
    Clicks = {c1}
    MaxChanges = 1
    MaxFaults = 1
    None = None
SYMMETRY Symmetry
INVARIANTS
    TypeOK
    OneBuildPerRequest
    NumbersAreContiguous
    GenerationsCountPushes
    NumbersFollowGenerations
    AcceptedIsComplete
PROPERTIES
    ImplementsLedger
