CONSTANTS
    None = None
    Absent = Absent
    Keys = {1}
    Clients = {c1, c2}
    Adds <- OneAdd
    Producers = {c1}
    Ops = {"fetch", "mark", "reclaim", "prolong", "raise"}
    AccessModes = {FALSE}
    LegacyKeys = {}
    ReclaimStamped = {FALSE}
    Late = {"mark"}
    Overlap = FALSE
    LockMillis = 1
    Raises <- LongerLock
    Extensions <- OneExtension
    MaxTime = 3
    MaxSeq = 2
    MaxCount = 2
    MaxFaults = 1
    FaultsUntil = 3
    FaultKinds = {"crash"}
SPECIFICATION Spec
INVARIANTS
    MutualExclusion
    LiveLockOnDisk
PROPERTIES
    NoRedelivery
