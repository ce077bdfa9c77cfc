CONSTANTS
    c1 = c1
    c2 = c2
    c3 = c3
    r1 = r1
    r2 = r2
    None = None
    Collectors = {c1, c2, c3}
    Readers = {r1}
    Names <- MCNames
    Shapes <- LoadShape
    Items <- RegistryItems
    MaxPass = 2
    MaxGroups = 1
SPECIFICATION Spec
INVARIANTS
    ThreadsAreOwned
    
PROPERTIES
    ShutdownLeavesNoThread
    NoPassBeginsWhileJoining
