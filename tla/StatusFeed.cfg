SPECIFICATION SpecBoth
CONSTANTS
    c1 = c1
    w1 = w1
    w2 = w2
    a1 = a1
    a2 = a2
    a3 = a3
    k1 = k1
    k2 = k2
    None = None
    Clients = {c1}
    Writers <- MCWriters
    Data <- MCData
    Players <- MCPlayers
    LivePlayers <- MCLivePlayers
    Empty = "nobody"
    Errors <- MCErrors
    Records <- MCRecords
    Watched <- MCWatched
    Calls <- MCCalls
    Credentials <- MCCredentials
    MAX_FRAMES = 1
    MAX_REQUESTS = 2
    MAX_CHANGES = 2
INVARIANTS
    TypeOK
    FramesLeadToSnapshot
PROPERTIES
    ShowsRealStatuses
    StatusArrives
    AccessComesBack
CHECK_DEADLOCK FALSE
