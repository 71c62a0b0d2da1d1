SPECIFICATION FairSpec
CONSTANTS
    Projects = {p1}
    Sessions = {s1}
    Threads = {t1, t2}
    Reviews = {r1, r2}
    MAX_PENDING_CREATOR_SESSIONS = 2
    MAX_PENDING_CREATOR_SESSIONS_PER_PROJECT = 1
    MaxForeign = 2
    MaxRestarts = 1
    None = None
INVARIANTS
    RegistryIsTrue
PROPERTIES
    InFlightEntriesSettle
