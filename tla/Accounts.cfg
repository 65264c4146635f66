SPECIFICATION Spec
CONSTANTS
    Ids = {u1, u2}
    Emails = {e1}
    Steam = {s1}
    Names = {n1, n2}
    Servers = {v1, v2}
    Tasks = {t1, t2}
    None = None
    Absent = Absent
    Removed = Removed
    MAX_PINNED = 1
    MAX_SUFFIX = 1
    MAX_BEGUN = 2
SYMMETRY Symmetry
INVARIANTS
    TypeOK
    PinLimit
    UniqueAccounts
    ChosenNameKept
    RemovedPinsStay
CHECK_DEADLOCK FALSE
