SPECIFICATION Spec
CONSTANTS
    Projects = {p1}
    Deliveries = {dl1}
    Keys = {k1}
    Hooks = {h1}
    Clicks = {c1}
    MaxChanges = 0
    MaxFaults = 0
    None = None
INVARIANTS
    NumbersStartAtOne
