CONSTANTS
    None = None
    Absent = Absent
    Keys = {1}
    Clients = {c1, c2}
    Adds <- OneAdd
    Producers = {c1, c2}
    Ops = {"fetch", "mark", "reclaim", "raise"}
    AccessModes = {TRUE, FALSE}
    LegacyKeys = {}
    ReclaimStamped = {FALSE}
    Late = {"mark", "reclaim"}
    Overlap = TRUE
    LockMillis = 1
    Raises <- LongerLock
    Extensions <- NoDurations
    MaxTime = 2
    MaxSeq = 1
    MaxCount = 1
    MaxFaults = 1
    FaultsUntil = 3
    FaultKinds = {"crash", "write", "read"}
SPECIFICATION Spec
INVARIANTS
    FilesCoherent
    StallBounded
SYMMETRY ClientSymmetry
