CONSTANTS
    Clients = {c1}
    Absent = Absent
    NoLimit = NoLimit
    Batches <- WithEmpty
    Readings <- PagedReadings
    Ops = {"push", "purge", "drop", "read"}
    MaxItem = 3
    MaxStamp = 4
    MaxFaults = 2
    FaultKinds = {"crash", "write", "remove", "read"}
SPECIFICATION FairSpec
INVARIANTS
    TypeOK
    AcknowledgedKept
    IterationExact
PROPERTIES
    OverwritesOnlyBeyond
    IterationEnds
    ImplementsItemLog
