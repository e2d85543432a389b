CONSTANTS
    None = None
    Absent = Absent
    Keys = {1}
    Clients = {c1, c2}
    Adds <- OneAdd
    Producers = {c1}
    Ops = {"fetch", "mark", "purge", "drop"}
    AccessModes = {FALSE}
    LegacyKeys = {}
    ReclaimStamped = {FALSE}
    Late = {"mark", "reclaim"}
    Overlap = TRUE
    LockMillis = 1
    Raises <- NoDurations
    Extensions <- NoDurations
    MaxTime = 1
    MaxSeq = 1
    MaxCount = 1
    MaxFaults = 1
    FaultsUntil = 3
    FaultKinds = {"remove"}
SPECIFICATION RunningSpec
INVARIANTS
    TypeOK
PROPERTIES
    CallsEnd
