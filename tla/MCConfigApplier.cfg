SPECIFICATION Spec
CONSTANTS
    Rows = {"run", "stop", "idle", "lost"}
    IsActive <- MCIsActive
    Unrecoverable = {"lost"}
    Present = {"stop", "idle"}
    RESTART_ON_BOOT = TRUE
    PoolMode = TRUE
    PENDING_MAX_ATTEMPTS = 4
    MaxFailures = 2
    Retries = {r1}
    MaxMessages = 2
    MaxEvents = 1
    MaxPids = 2
CHECK_DEADLOCK FALSE
INVARIANTS
    PendingHasWaker
    AckedWereHandled
    PhaseSettles
PROPERTIES
    SnapshotsSettle
    RetriesEnd
