SPECIFICATION FairSpec
CONSTANTS
    Edges = {e1, e2}
    Kinds = {"lap", "status"}
    LIVE_INGEST_CONVEX = FALSE
    INGEST_MAX_BATCH_SIZE = 2
    PENDING_RECLAIM_BATCH = 2
    MaxEvents = 2
    MaxFaults = 1
    MaxBuffer = 3
INVARIANTS
    AckedAreHandled
PROPERTIES
    EventuallyAcked
