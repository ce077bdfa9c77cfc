CONSTANTS
    Malformed = Malformed
    Absent = Absent
    Close = Close
    CpuNames = {"cpu", "cpu0"}
    Snapshots <- MCSnapshots
    MaxFaults = 2
    MaxRows = 3
    Kb = 4
    Modulus = 64
SPECIFICATION Spec
CHECK_DEADLOCK FALSE
INVARIANTS
    TypeOK
    FieldsAreTheLastValues
    CoreComesFromTheFile
    OnlyCoreFails
    CommCannotForgeTimes
    SoundLinesHaveRows
    RowsAreCopiesOfLines
    PartsFitTheWhole
