CONSTANTS
    Clients = {c1, c2}
    None = None
    Base <- DatasetsBase
    Names <- SomeNames
    Aliases <- DefaultAlias
    DefaultName = "default"
    Dirs = {"a", "default"}
    MaxId = 3
    MaxFaults = 1
    FaultKinds = {"crash", "write"}
SPECIFICATION Spec
INVARIANTS
    TypeOK
    NamesStayBelow
    IdsNameOneDirectory
    ClientsAgreeWithDisk
    SearchMissesNothing
SYMMETRY ClientSymmetry
