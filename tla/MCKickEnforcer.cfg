SPECIFICATION FairSpec
CONSTANTS
    Guids = {g1, g2}
    Suspects = {g1}
    Cars = {c1}
    None = None
    MaxThreads = 4
    USER_BAN_DEFER_ATTEMPTS = 1
    MaxJoins = 2
    MaxMarks = 1
INVARIANTS
    OneKickPerConnection
PROPERTIES
    BannedLeaves
CHECK_DEADLOCK FALSE
