SPECIFICATION Spec
CONSTANTS
    Accounts = {a1, a2}
    Browsers = {b1, b2}
    Handlers = {h1, h2}
    MaxTime = 2
    None = None
SYMMETRY Symmetry
INVARIANTS
    InStep
PROPERTIES
    LoggedOutStaysOut
