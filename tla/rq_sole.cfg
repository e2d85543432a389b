CONSTANTS
    None = None
    Absent = Absent
    Keys = {1, 2}
    Clients = {c1}
    Adds <- SoleAdds
    Producers = {c1}
    Ops = {"fetch", "mark", "reclaim", "prolong", "touch", "purge"}
    AccessModes = {TRUE, FALSE}
    LegacyKeys = {}
    ReclaimStamped = {FALSE}
    Late = {"mark", "reclaim"}
    Overlap = FALSE
    LockMillis = 1
    Raises <- NoDurations
    Extensions <- OneExtension
    MaxTime = 3
    MaxSeq = 4
    MaxCount = 2
    MaxFaults = 1
    FaultsUntil = 3
    FaultKinds = {"crash", "write"}
SPECIFICATION Spec
INVARIANTS
    IndexAgreesWithFiles
    FetchableIsCandidate
PROPERTIES
    PersistedCountsExact
    HandledIsFinal
    ForefrontFirst
