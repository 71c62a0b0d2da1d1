SPECIFICATION FairSpec
CONSTANTS
    main = main
    side = side
    m1 = m1
    m2 = m2
    Refs = {main, side}
    Commits = {m1, m2}
    Clients = {a, b}
    NoHead = NoHead
    NoClient = NoClient
    MaxEventId = 2
    Preconditions <- MCPreconditions
    Archives <- MCArchives
INVARIANTS
    ReflogExplainsRefs
    OnlyValidatedHeads
PROPERTIES
    UpdateIsCompareAndSwap
    ImplementsRefHistory
    CallsReturn
