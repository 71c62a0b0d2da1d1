SPECIFICATION Spec
CONSTANTS
    b = b
    c0 = c0
    c1 = c1
    r1 = r1
    r2 = r2
    tr = tr
    ts = ts
    s1 = s1
    s2 = s2
    e1 = e1
    e2 = e2
    Off = Off
    BadText = BadText
    Order <- MCOrder
    Kind <- MCKind
    Fragile = {b, r2, tr}
    MaxDepth = 4
    MaxObjects = 6
    MaxEdges = 8
    MaxReferenceBytes = 24
    MemoBudget = 4
    Tips = {c0, c1}
    MaxKills = 2
    Exporters = {e1, e2}
    Putting = {c1, r1}
    Foreign = {r1}
    MaxArchiveObjects = 4
    MaxLog = 2
    MaxFaults = 1
    Pages = {1, 2, 3}
    Names = {"a", "b"}
    PageLimit = 2
    MaxVersions = 3
    MaxEvents = 5
INVARIANTS
    ReportIsTrue
    RepairIsExact
    ArchivesHold
    ReadsAreConsistent
PROPERTIES
    MaintenanceIsSafe
SYMMETRY Sym
CHECK_DEADLOCK FALSE
