SPECIFICATION FairHudSpec
CONSTANTS
    Cars = {c1, c2}
    MaxBusy = 2
    None = None
    MaxOps = 1
INVARIANTS
    WaitsForARefresh
PROPERTIES
    OverlayCatchesUp
    MarksFollowUser
