SPECIFICATION FairSpec
CONSTANTS
    c1 = c1
    c2 = c2
    e1 = e1
    None = None
    Calls = {c1, c2}
    Events = {e1}
    MAX_FETCHES = 2
    MAX_REFRESHES = 1
    MAX_PRUNES = 1
INVARIANTS
    TypeOK
    InflightIsRunning
    OneFetchUntilPruned
PROPERTIES
    CallsAnswered
CHECK_DEADLOCK FALSE
