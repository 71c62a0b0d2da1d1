SPECIFICATION FairSpec
CONSTANTS
    Projects = {p1}
    Sessions = {s1}
    Threads = {t1, t2}
    Reviews = {r1}
    MAX_PENDING_CREATOR_SESSIONS = 1
    MAX_PENDING_CREATOR_SESSIONS_PER_PROJECT = 1
    MaxForeign = 0
    MaxRestarts = 0
    None = None
PROPERTY ReadyIsLostOnlyToRefChange
