SPECIFICATION Spec
CONSTANTS
    i1 = i1
    h1 = h1
    h2 = h2
    Clients = {i1}
    Handlers = {h1, h2}
    maxRequests = 2
    Window = 3
    Unknown = Unknown
    None = None
INVARIANTS
    TypeOK
    BurstBound
PROPERTIES
    NoLockout
    TrackedAreRecent
    ImplementsFixedWindow
