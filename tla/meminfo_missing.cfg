CONSTANTS
    Malformed = Malformed
    Absent = Absent
    Close = Close
    CpuNames = {"cpu", "cpu0"}
    Snapshots <- MCSnapshots
    MaxFaults = 1
    MaxRows = 1
    Kb = 4
    Modulus = 64
SPECIFICATION Spec
CHECK_DEADLOCK FALSE
INVARIANTS
    MissingCoreFails
