SPECIFICATION ListsSpec
CONSTANTS
    Pages = {k1, k2}
    Handlers = {h1, h2, h3}
    MaxVersion = 1
    None = None
INVARIANTS
    ListsTypeOK
    NothingOlderReturns
PROPERTIES
    Answered
    StaleListsGo
