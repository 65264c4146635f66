SPECIFICATION Spec
CONSTANTS
    s1 = s1
    s2 = s2
    b1 = b1
    b2 = b2
    Ids <- MCIds
    Statistics <- MCStatistics
    LegacyIds <- MCLegacyIds
    Legacy <- MCLegacy
    Values <- MCValues
    Clashes <- MCClashes
    NoRecord = NoRecord
    MAX_FAULTS = 2
INVARIANT
    MarkedSourceNotRefused
