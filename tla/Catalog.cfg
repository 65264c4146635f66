SPECIFICATION FairSpecLoops
CONSTANTS
    Scheduler = scheduler
    superadmin = superadmin
    w1 = w1
    None = None
    Callers = {scheduler, superadmin}
    Writers = {w1}
    MAX_TIME = 2
INVARIANTS
    TypeOK
    OneRefresh
PROPERTIES
    RefreshEnds
    PruneNeedsList
    StaleGoes
    LoopsKeepPromise
