CONSTANTS
    c1 = c1
    c2 = c2
    None = None
    Collectors = {c1, c2}
    Readers = {}
    Names <- MCNames
    Shapes <- MCShapes
    Items <- MCItems
    MaxPass = 2
    MaxGroups = 1
    Interval <- MCInterval
    MaxCollect = 3
    MaxLag = 1
SPECIFICATION FairTimedSpec
INVARIANTS
    ClocksTypeOK
    ShutdownTakesOnePeriod
PROPERTIES
    PassesKeepTheInterval
    ShutdownTerminates
