CONSTANTS
    c1 = c1
    c2 = c2
    c3 = c3
    r1 = r1
    r2 = r2
    None = None
    Collectors = {c1}
    Readers = {r1}
    Names <- MCNames
    Shapes <- MCShapes
    Items <- SnapshotItems
    MaxPass = 3
    MaxGroups = 2
SPECIFICATION Spec
INVARIANTS
    TypeOK
    CacheHoldsOnePass
PROPERTIES
    ImplementsSnapshots
    DeliveriesNeverGoBack
