SPECIFICATION GateSpec
CONSTANTS
    known = known
    local = local
    barred = barred
    byIni = byIni
    byRow = byRow
    Keys <- MCKeys
    Content = {known, local, barred}
    Catalogued = {known, barred}
    Refused = {barred}
    EdgeOwned = {known}
    Lists = {{known}, {local}, {known, barred}}
    MaxGateOps = 3
    MaxGateFaults = 0
PROPERTIES
    PurgeSparesRunning
SYMMETRY Symmetry
CHECK_DEADLOCK FALSE
