SPECIFICATION Spec
CONSTANTS
    Clients = {w1}
    Reconcilers = {r1}
    Proposals = {p1}
    Dispositions = {adopted}
    Keys = {k1}
    Foreign = {}
    Kinds = {}
    MaxFaults = 2
    MaxMoves = 0
    Base = Base
    None = None
CHECK_DEADLOCK FALSE
INVARIANT RetryableIsUncommitted
