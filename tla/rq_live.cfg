CONSTANTS
    None = None
    Absent = Absent
    Keys = {1}
    Clients = {c1, c2}
    Adds <- OneAdd
    Producers = {c1}
    Ops = {"fetch", "mark"}
    AccessModes = {FALSE}
    LegacyKeys = {}
    ReclaimStamped = {FALSE}
    Late = {"mark", "reclaim"}
    Overlap = TRUE
    LockMillis = 1
    Raises <- NoDurations
    Extensions <- NoDurations
    MaxTime = 4
    MaxSeq = 2
    MaxCount = 4
    MaxFaults = 1
    FaultsUntil = 2
    FaultKinds = {"crash"}
SPECIFICATION FairSpec
PROPERTIES
    EventuallyHandled
