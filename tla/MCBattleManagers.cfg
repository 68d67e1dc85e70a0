SPECIFICATION ManagersSpec
CONSTANTS
    Drivers = {d1, d2, d3}
    None = None
    BATTLE_REQUIRE_HUD = TRUE
    MATCH_FRESH = 0
    INACTIVE = 1
    FINISHED_COOLDOWN = 1
    HUD_BATTLE_CLEAR_DELAY = 1
    MaxBattles = 2
    MaxRemovals = 2
SYMMETRY Symmetry
INVARIANTS
    LockConsistent
    OwnPairShown
    LocksAgree
    LockedArePresent
