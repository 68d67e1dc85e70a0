SPECIFICATION FairSpec
CONSTANTS
    car1 = car1
    car2 = car2
    None = None
    Gaps = {12, 32, 100}
    Speeds = {10, 60}
    BATTLE_ARM_MAX_GAP = 30
    BATTLE_ARM_ABORT_GAP = 33
    MAX_BATTLE_GAP = 80
    DISAPPEAR_GAP = 250
    OVERTAKE_MIN_GAP = 10
    OVERTAKE_MAX_GAP = 15
    OVERTAKE_MAX_GAP_FALLBACK = 20
    FINISH_POINT_MIN_GAP = 20
    BATTLE_ARM_MIN_SPEED = 20
    BATTLE_ARM_CANCEL_SPEED = 20
    GAP_ABORT_MIN_BOTH_SPEED = 20
    ARM_SUSTAINED_PROXIMITY = 2
    BATTLE_ARM_ABORT_GRACE = 1
    PAIR_IDLE_SEPARATED_RELEASE = 3
    PAIR_MAX_PREACTIVE_LOCK = 8
    PRESTART_GAP_ABORT_GRACE = 1
    ROLE_ASSIGN_WAIT = 5
    POSITION_ROLE_ASSIGN_WAIT = 1
    LAUNCH_TIMEOUT = 3
    OVERTAKE_ACTIVE_GRACE = 1
    OVERTAKE_POINT_COOLDOWN = 1
    ABANDON_STALL = 1
    HUD_BATTLE_CLEAR_DELAY = 2
    BATTLE_REQUIRE_HUD = TRUE
    MaxPoints = 1
PROPERTIES
    PairSettles
