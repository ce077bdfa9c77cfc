CONSTANTS
    Names <- MCNames
    Shapes <- MCShapes
    Cpus <- MCCpus
    Ifaces <- MCIfaces
    Disks <- MCDisks
    Rows <- MCRows
SPECIFICATION Spec
INVARIANTS
    EveryValueIsReported
    EveryItemIsSampled
    OneValuePerSeries
