SPECIFICATION Spec
CONSTANTS
    c1 = c1
    c2 = c2
    r1 = r1
    None = None
    Connections <- MCConnections
    Requests <- MCRequests
    MAX_SECRETS = 3
SYMMETRY MCSymmetry
INVARIANTS
    TypeOK
    RetiredStaysRetired
    OneLiveSession
    HeldWasStored
