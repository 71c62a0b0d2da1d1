SPECIFICATION Spec
CONSTANTS
    Clients = {w1, w2}
    Reconcilers = {w1, w2}
    Proposals = {p1, p2}
    Dispositions = {adopted, rejected}
    Keys = {k1, k2}
    Foreign = {d1, d2}
    Kinds = {"next", "sibling", "stray", "return", "propose"}
    MaxFaults = 1
    MaxMoves = 2
    Base = Base
    None = None
SYMMETRY Symmetry
CHECK_DEADLOCK FALSE
INVARIANTS
    JournalIsTrue
PROPERTIES
    RecordedFactsStay
