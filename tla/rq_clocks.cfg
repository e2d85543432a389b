CONSTANTS
    None = None
    Absent = Absent
    Closed = Closed
    c1 = c1
    c2 = c2
    Clients = {c1, c2}
    Testing = {c1}
    LockMillis = 1
    Windows <- SomeWindows
    Extensions <- SomeExtensions
    Skews <- SomeSkews
    Advances <- SomeAdvances
    StartTime = 2
    MaxTime = 4
    MaxOffset = 1
    MaxOrder = 6
SPECIFICATION Spec
INVARIANTS
    TypeOK
    OverlapWithinSkew
    FreeWithinSkew
PROPERTIES
    ProlongOnlyOwn
