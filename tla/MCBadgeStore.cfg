SPECIFICATION FairSpec
CONSTANTS
    c1 = c1
    c2 = c2
    o1 = o1
    Tags <- MCTags
    Counts = {1, 2}
    ServerRuns = {c1, c2}
    OneShots = {}
    PageSize = 2
    MaxDisturbances = 2
    None = None
    Torn = Torn
    Invisible = Invisible
INVARIANTS
    TypeOK
    OrdersAgree
PROPERTIES
    LastGoodKept
    ReleasesConverge
    TelemetryConverges
