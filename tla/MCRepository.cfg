SPECIFICATION SuiteSpec
CONSTANTS
    k1 = k1
    blob = blob
    Objects = {k1, blob}
    Commits = {k1}
    Closure <- ShortClosure
    Refs = {main}
    NoHead = NoHead
    NoClient = NoClient
    Clients = {a, b}
    NoObject = NoObject
    CrashCanHappen = TRUE
    Fragile = {blob}
SYMMETRY Symmetry
INVARIANTS
    RefsStayClosed
    StoredIsDurable
    ClosureFreshAtCommit
PROPERTIES
    IntactNeverTouched
