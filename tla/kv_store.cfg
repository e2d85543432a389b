CONSTANTS
    Tasks = {t1, t2}
    Keys <- TwoKeys
    Names <- ThreeFiles
    Own <- OwnNames
    Absent = Absent
    None = None
    Bindings <- InputBound
    Keeps <- KeepInput
    Adoptable <- InputFiles
    KeyFor <- SweptNames
    Outside = {"input.json", "data.json"}
    PageSize = 1
    Ops = {"set", "delete", "read", "list", "purge", "drop"}
    MaxStamp = 3
    MaxFaults = 1
    FaultKinds = {"crash", "write", "remove"}
SYMMETRY TaskSymmetry
SPECIFICATION Spec
INVARIANTS
    TypeOK
    AcknowledgedKept
    ReadExact
    ListingExact
