SPECIFICATION Spec
CONSTANTS
    img = img
    c0 = c0
    c1 = c1
    tr = tr
    o1 = o1
    a1 = a1
    x1 = x1
    ts = ts
    x = x
    y = y
    z = z
    e1 = e1
    e2 = e2
    k1 = k1
    k2 = k2
    p1 = p1
    p2 = p2
    r1 = r1
    w1 = w1
    w2 = w2
    BadText = BadText
    Nothing = Nothing
    Refused = Refused
    Junk = Junk
    Absent = Absent
    Off = Off
    Order <- MCOrder
    Kind <- MCKind
INVARIANTS
    ProjectionIsTrue
    ExportsAreSafe
    VerifierIsExact
    ReportsAreReliable
    ComparisonsAreExact
    InboxIsConsistent
    MetadataIsDecided
    ManifestsReadBack
    DecisionsStayProvable
PROPERTIES
    VisibleIsWhole
SYMMETRY Symmetry
CHECK_DEADLOCK FALSE
