SPECIFICATION ProgressSpec
CONSTANTS
    t1 = t1
    t2 = t2
    w1 = w1
    r1 = r1
    p1 = p1
    k1 = k1
    k2 = k2
    d1 = d1
    d2 = d2
    Base = Base
    None = None
    Threads = {t1, t2, t3}
    NoThread = NoThread
    MaxTicket = 6
PROPERTIES
    ImplementsFifoLock
    NobodyWaitsForEver
    UnknownIsReconciled
