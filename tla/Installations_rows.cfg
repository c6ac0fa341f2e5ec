SPECIFICATION Spec
CONSTANTS
    Users = {u1, u2}
    Installations = {i1, i2}
    Repositories = {r1}
    Actions = {"created", "suspend", "unsuspend", "other"}
    Handlers = {h1, h2}
    ProjectIds = {p1, p2}
    None = None
SYMMETRY Symmetry
INVARIANTS
    TypeOK
    ProjectsOnOwnInstallation
    UnavailableWasRemoved
PROPERTIES
    ImplementsConnections
    SwitchIsAtomic
