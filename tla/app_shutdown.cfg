CONSTANTS
    Host = Host
    Reader = Reader
    None = None
    Collectors = {Host}
    Readers = {Reader}
    Names <- MCNames
    Shapes <- MCShapes
    Items <- MCItems
    WorkerThreads = {0, 2}
    Cores = {0, 1, 4}
    MaxPass = 2
    MaxGroups = 1
SPECIFICATION FairAppSpec
CHECK_DEADLOCK FALSE
INVARIANTS
    AppTypeOK
    FlushSendsFinalSnapshot
    ExportsHaveRuntime
    ExitIsClean
PROPERTIES
    SignalEndsProcess
