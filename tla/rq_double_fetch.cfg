CONSTANTS
    None = None
    Absent = Absent
    Keys = {1}
    Clients = {c1, c2}
    Adds <- OneAdd
    Producers = {c1}
    Ops = {"fetch"}
    AccessModes = {FALSE}
    LegacyKeys = {}
    ReclaimStamped = {FALSE}
    Late = {"mark"}
    Overlap = TRUE
    LockMillis = 1
    Raises <- NoDurations
    Extensions <- NoDurations
    MaxTime = 3
    MaxSeq = 2
    MaxCount = 2
    MaxFaults = 0
    FaultsUntil = 3
    FaultKinds = {}
SPECIFICATION Spec
INVARIANTS
    MutualExclusion
