CONSTANTS
    Tasks = {t1}
    Keys = {1}
    Names <- SpacedFiles
    Own <- SpacedOwn
    Absent = Absent
    None = None
    Bindings <- SpacedBound
    Keeps = {}
    Adoptable = {}
    KeyFor <- SpacedSwept
    Outside = {"data file"}
    PageSize = 1
    Ops = {"set"}
    MaxStamp = 2
    MaxFaults = 1
    FaultKinds = {"crash"}
SPECIFICATION Spec
PROPERTIES
    SweepKeepsSidecars
CHECK_DEADLOCK FALSE
