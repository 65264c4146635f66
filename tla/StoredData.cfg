SPECIFICATION SpecStored
CONSTANTS
    s1 = s1
    s2 = s2
    b1 = b1
    b2 = b2
    Ids <- MCIds
    Statistics <- MCStatistics
    LegacyIds <- MCLegacyIds
    Legacy <- MCLegacy
    Values <- MCValues
    Clashes <- MCClashes
    NoRecord = NoRecord
    MAX_FAULTS = 2
    ada = ada
    bob = bob
    w1 = w1
    None = None
    Invalid = Invalid
    Servers <- MCServers
    Samples <- MCSamples
    Cached <- MCCached
    Known <- MCKnown
    Hour = 2
    LastInstant = 4
    Bounds <- MCBounds
    MAX_SAMPLES = 3
    Uids <- MCUids
    NoUid = NoUid
    ById = ById
    Others <- MCOthers
    Loop = Loop
INVARIANTS
    TypeOK
    ImportedFaithfully
    BucketsRight
PROPERTIES
    ArchivedOnlyWhenComplete
    ExistingPreserved
    BackupNeverOverwritten
    MigrationCompletes
    PlayersKept
