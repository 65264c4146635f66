SPECIFICATION FairSpec
CONSTANTS
    s1 = s1
    s2 = s2
    srv1 = srv1
    o1 = o1
    o2 = o2
    e1 = e1
    g1 = g1
    v1 = v1
    None = None
    Sockets = {s1}
    Servers <- MCServers
    Objects = {o1}
    Entities <- MCEntities
    GlobalOffers <- MCGlobalOffers
    Versions = {v1}
    MAX_SEQUENCE = 2
    MAX_CHANGES = 2
PROPERTY
    RefreshOnlyWithSubscribers
CHECK_DEADLOCK FALSE
