SPECIFICATION HubModsSpec
CONSTANTS
    u1 = u1
    u2 = u2
    a = a
    b = b
    Paths = {a, b}
    v1 = v1
    Versions = {v1}
    Uploads = {u1, u2}
    Requests <- MCRequests
    MaxSuffix = 1
    Commits = {1, 2}
    Promotes = {p1}
    MaxOps = 1
    MaxIds = 2
    known = known
    barred = barred
    byIni = byIni
    byRow = byRow
    Keys <- MCKeys
    Content = {known, barred}
    Catalogued = {known, barred}
    Refused = {barred}
    EdgeOwned = {known}
    Lists = {{known}, {barred}, {known, barred}}
    MaxGateOps = 2
    MaxGateFaults = 1
SYMMETRY Alike
INVARIANTS
    AvailableMeansStored
    AckedIsServed
PROPERTIES
    JudgedByOwnContent
CHECK_DEADLOCK FALSE
