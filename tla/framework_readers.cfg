CONSTANTS
    c1 = c1
    c2 = c2
    c3 = c3
    r1 = r1
    r2 = r2
    None = None
    Collectors = {c1}
    Readers = {r1, r2}
    Names <- MCNames
    Shapes <- LoadShape
    Items <- LoadItems
    MaxPass = 2
    MaxGroups = 1
SPECIFICATION FairSpec
INVARIANTS
    ScanIsOfOneSnapshot
PROPERTIES
    PassesArePublished
    ShutdownTerminates
