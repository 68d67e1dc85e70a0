SPECIFICATION FairSpec
CONSTANTS
    Edges = {e1}
    Kinds = {"lap", "poison"}
    LIVE_INGEST_CONVEX = FALSE
    INGEST_MAX_BATCH_SIZE = 2
    PENDING_RECLAIM_BATCH = 2
    MaxEvents = 2
    MaxFaults = 0
    MaxBuffer = 4
PROPERTIES
    FailureBlocksNobody
