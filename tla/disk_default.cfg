CONSTANTS
    Names <- MCNames
    Shapes <- MCShapes
    Cpus <- MCCpus
    Ifaces <- MCIfaces
    Disks <- MCDisksAndPartition
    Rows <- MCRows
SPECIFICATION Spec
INVARIANTS
    WholeDisksByDefault
