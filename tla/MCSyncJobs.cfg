SPECIFICATION Spec
CONSTANTS
    Artifacts = {promoted, sole}
    EdgeFolder = {promoted, sole}
    InBucket = {promoted}
    OnPeer = {}
    PeerPull = TRUE
    Required = {promoted, sole}
    MAX_ATTEMPTS = 2
    RunCap = 1
    MaxOps = 1
    MaxFaults = 1
    MaxJobs = 5
INVARIANTS
    SyncingHasRun
    ReadyHasFolder
PROPERTIES
    RequiredBecomesReady
    JobsEnd
