SPECIFICATION SpecData
CONSTANTS
    s1 = s1
    s2 = s2
    srv1 = srv1
    o1 = o1
    o2 = o2
    e1 = e1
    g1 = g1
    v1 = v1
    r1 = r1
    r2 = r2
    None = None
    Junk = Junk
    Sockets <- MCSockets
    Servers <- MCServers
    Objects <- MCObjects
    Entities <- MCEntities
    GlobalOffers <- MCGlobalOffers
    Versions = {v1}
    MAX_SEQUENCE = 2
    MAX_CHANGES = 2
    Refreshes <- MCRefreshes
    Areas <- MCAreas
    Listings <- MCListings
    RenewZones <- MCRenewZones
    Zones <- MCZones
    Settings <- MCSettings
    PlayerItems <- MCPlayerItems
    Dates <- MCDates
    PluginVersions <- MCVersions
    MinVersion <- MCMinVersion
    Chunk = 2
    Threshold = 2
    MAX_ITEMS = 2
    MAX_PAYLOADS = 3
INVARIANTS
    TypeOK
    OneLoopPerServer
    LoopsMatchSubscribers
    ClaimsAsPromised
    LayersAgree
PROPERTIES
    ClientStaysInSync
    ChangesArrive
    CacheCatchesUp
CHECK_DEADLOCK FALSE
