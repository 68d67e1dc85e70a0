----------------------------- MODULE PairBattle -----------------------------
(***************************************************************************)
(* One touge battle between two locked drivers: the PairBattleManager of   *)
(* telemetry-data/engines/battlesystem, from the moment the matchmaker     *)
(* locks the pair until the lock is released.                              *)
(*                                                                         *)
(* The orchestrator calls the manager once per telemetry packet of either  *)
(* driver (Update), and from other paths when a driver leaves (Disconnect),*)
(* a lap line is crossed (LapCompleted), the overlay gate closes           *)
(* (HudDisconnected) or the server leaves battle mode (ModeOff).  Between  *)
(* two packets any amount of time may pass (Tick).                         *)
(*                                                                         *)
(* Abstractions: positions are the 3D gap between the cars, and which car  *)
(* is clearly ahead (None when neither is); every "since" timestamp is an  *)
(* age in ticks that saturates once no comparison can tell it apart;       *)
(* chat, log lines and the layout of a HUD snapshot are left out.          *)
(***************************************************************************)
EXTENDS Integers, Sequences

CONSTANTS
    car1, car2,                 \* the two drivers (guids)
    None,                       \* Python's None
    Gaps,                       \* gaps in metres a packet may show
    Speeds,                     \* speeds in km/h a packet may show
    BATTLE_ARM_MAX_GAP, BATTLE_ARM_ABORT_GAP, MAX_BATTLE_GAP, DISAPPEAR_GAP,
    OVERTAKE_MIN_GAP, OVERTAKE_MAX_GAP, OVERTAKE_MAX_GAP_FALLBACK,
    FINISH_POINT_MIN_GAP,
    BATTLE_ARM_MIN_SPEED, BATTLE_ARM_CANCEL_SPEED, GAP_ABORT_MIN_BOTH_SPEED,
    ARM_SUSTAINED_PROXIMITY, BATTLE_ARM_ABORT_GRACE,
    PAIR_IDLE_SEPARATED_RELEASE, PAIR_MAX_PREACTIVE_LOCK,
    PRESTART_GAP_ABORT_GRACE, ROLE_ASSIGN_WAIT, POSITION_ROLE_ASSIGN_WAIT,
    LAUNCH_TIMEOUT, OVERTAKE_ACTIVE_GRACE, OVERTAKE_POINT_COOLDOWN,
    ABANDON_STALL, HUD_BATTLE_CLEAR_DELAY,
    BATTLE_REQUIRE_HUD,         \* the overlay gate is on
    MaxPoints                   \* bound: points scored in one battle

Players == {car1, car2}
Opponent(p) == IF p = car1 THEN car2 ELSE car1

(* Thresholds of core/settings.py, each compared with an age.              *)
Threshold == [pair_locked_at         |-> PAIR_MAX_PREACTIVE_LOCK,
              arm_proximity_since    |-> ARM_SUSTAINED_PROXIMITY,
              arming_violation_since |-> BATTLE_ARM_ABORT_GRACE,
              separated_since        |-> PAIR_IDLE_SEPARATED_RELEASE,
              condition_start_time   |-> PRESTART_GAP_ABORT_GRACE,
              launch_trigger_time    |-> LAUNCH_TIMEOUT + ROLE_ASSIGN_WAIT
                                           + POSITION_ROLE_ASSIGN_WAIT,
              active_start_time      |-> OVERTAKE_ACTIVE_GRACE,
              last_overtake_point_ts |-> OVERTAKE_POINT_COOLDOWN,
              hud_cancel_hold        |-> HUD_BATTLE_CLEAR_DELAY]

Timers == DOMAIN Threshold
Off == -1                       \* a timestamp of 0.0: not running

ASSUME PairAssumption ==
    /\ car1 # car2 /\ None \notin Players
    /\ Gaps \subseteq Nat /\ Speeds \subseteq Nat
    /\ \A t \in Timers : Threshold[t] \in Nat
    /\ ABANDON_STALL \in Nat /\ MaxPoints \in Nat
    /\ BATTLE_ARM_MAX_GAP \in Nat /\ BATTLE_ARM_ABORT_GAP \in Nat
    /\ BATTLE_ARM_MAX_GAP < BATTLE_ARM_ABORT_GAP   \* forced by settings.py
    /\ BATTLE_REQUIRE_HUD \in BOOLEAN

VARIABLES
    locked,                     \* the orchestrator still holds this manager
    state,                      \* manager.state
    age,                        \* [Timers -> age or Off]
    stall,                      \* [Players -> age of stall_since or Off]
    lead,                       \* battle.lead_guid; the other one chases
    position_fallback,          \* manager._position_fallback
    overtake_chase_scored,      \* manager._overtake_chase_scored
    score,                      \* battle.car1_score, battle.car2_score
    farLap,                     \* drivers past ABANDON_MIN_PROGRESS_FOR_WIN
    farMetres,                  \* drivers past ABANDON_MIN_PROGRESS_METERS
    lead_lap_completed,         \* the lead's run_lap_completed
    battle_id,                  \* an id was given by on_battle_start
    winner,                     \* battle.winner
    dispatched,                 \* outcomes sent by on_score_update, in order
    hud,                        \* state of the last published HUD snapshot
    hud_label,                  \* its endLabel, None before the end
    hud_clear,                  \* schedule_clear was requested for its keys
    rematch_cooldown            \* the release applied the rematch cooldown

runVars == <<lead, position_fallback, overtake_chase_scored, score, farLap,
             farMetres, lead_lap_completed, stall>>
endVars == <<winner, dispatched>>
hudVars == <<hud, hud_label>>
lockVars == <<locked, hud_clear, rematch_cooldown>>
vars == <<state, age, battle_id, runVars, endVars, hudVars, lockVars>>

PreActive == {"IDLE", "ARMED", "LAUNCHING"}
States == PreActive \cup {"ACTIVE", "FINISHED"}
HudStates == {"pairing", "arming", "armed", "launching", "active",
              "finished", "cancelled"}
Outcomes == [status : {"finished", "draw"}, winner : Players \cup {None},
             by : {"abandon", "finish"}]

-----------------------------------------------------------------------------
(* Timers *)

Start(t, a) == [a EXCEPT ![t] = 0]
Stop(ts, a) == [t \in Timers |-> IF t \in ts THEN Off ELSE a[t]]
Running(t) == age[t] # Off
Reached(t, n) == age[t] # Off /\ age[t] >= n
Exceeded(t, n) == age[t] # Off /\ age[t] > n
Older(n, cap) == IF n = Off \/ n > cap THEN n ELSE n + 1

ArmTimers == {"arm_proximity_since", "arming_violation_since"}
RunTimers == ArmTimers \cup {"condition_start_time", "launch_trigger_time"}

(* _publish_hud without force: dropped while the cancel hold lasts.        *)
HudHeld == Running("hud_cancel_hold")
             /\ age["hud_cancel_hold"] < HUD_BATTLE_CLEAR_DELAY
PublishUnforced(h) == hud' = (IF HudHeld THEN hud ELSE h)

-----------------------------------------------------------------------------
(* The lock: the matchmaker has just built the manager and published       *)
(* "pairing" (_build_pair_manager, _try_matchmake).                        *)
Init ==
    /\ locked = TRUE /\ hud_clear = FALSE /\ rematch_cooldown = FALSE
    /\ state = "IDLE"
    /\ age = Start("pair_locked_at", [t \in Timers |-> Off])
    /\ stall = [p \in Players |-> Off]
    /\ lead = None
    /\ position_fallback = FALSE /\ overtake_chase_scored = FALSE
    /\ score = [p \in Players |-> 0]
    /\ farLap = {} /\ farMetres = {} /\ lead_lap_completed = FALSE
    /\ battle_id = FALSE
    /\ winner = None /\ dispatched = <<>>
    /\ hud = "pairing" /\ hud_label = None

(* _release_pair: the manager is dropped from pair_managers.               *)
Release(cooldown) == locked' = FALSE /\ rematch_cooldown' = cooldown

(* _dissolve_pair: cancelled snapshot, full reset, clear, release without  *)
(* cooldown.                                                               *)
Dissolve ==
    /\ state' = "IDLE" /\ battle_id' = FALSE
    /\ age' = Stop(RunTimers \cup {"separated_since"}, age)
    /\ lead_lap_completed' = FALSE
    /\ hud' = "cancelled" /\ hud_label' = "cancel" /\ hud_clear' = TRUE
    /\ Release(FALSE)
    /\ UNCHANGED <<lead, position_fallback, overtake_chase_scored, score,
                   farLap, farMetres, stall, endVars>>

-----------------------------------------------------------------------------
(* IDLE: the arming countdown (_handle_idle) *)

BothAtLeast(sp, v) == \A p \in Players : sp[p] >= v
CanArm(gap, sp) == gap <= BATTLE_ARM_MAX_GAP
                     /\ BothAtLeast(sp, BATTLE_ARM_CANCEL_SPEED)
Violated(gap, sp) == gap > BATTLE_ARM_ABORT_GAP
                       \/ ~BothAtLeast(sp, BATTLE_ARM_CANCEL_SPEED)
InCountdown == Running("arm_proximity_since")

(* _maybe_dissolve_separated_idle, on timers a already changed by the      *)
(* caller; publish says what the caller left on the HUD when the pair      *)
(* stays locked.                                                           *)
MaybeDissolveSeparated(a, publish) ==
    IF Reached("separated_since", PAIR_IDLE_SEPARATED_RELEASE)
    THEN Dissolve
    ELSE /\ age' = IF Running("separated_since") THEN a
                   ELSE Start("separated_since", a)
         /\ publish
         /\ UNCHANGED <<state, battle_id, runVars, endVars, hud_label, lockVars>>

(* Gap or speed outside the hysteresis for the whole grace: the countdown  *)
(* is cancelled, shown as such, and the pair counts as separated.          *)
ArmingAborted(gap, sp) ==
    /\ InCountdown /\ Violated(gap, sp)
    /\ Reached("arming_violation_since", BATTLE_ARM_ABORT_GRACE)
    /\ MaybeDissolveSeparated(Start("hud_cancel_hold", Stop(ArmTimers, age)),
                              hud' = "cancelled")

(* Not armable and no countdown: the pair counts as separated.             *)
NotArmable(gap, sp) ==
    /\ ~InCountdown /\ ~CanArm(gap, sp)
    /\ MaybeDissolveSeparated(Stop(ArmTimers, age), PublishUnforced("pairing"))

(* The countdown runs on although the pair could not start it now: inside  *)
(* the violation grace, or in the hysteresis band of the gap.              *)
ArmingTolerated(gap, sp) ==
    /\ InCountdown /\ ~CanArm(gap, sp)
    /\ ~Reached("arming_violation_since", BATTLE_ARM_ABORT_GRACE)
         \/ ~Violated(gap, sp)
    /\ age' = IF ~Violated(gap, sp) THEN Stop({"arming_violation_since"}, age)
              ELSE IF Running("arming_violation_since") THEN age
              ELSE Start("arming_violation_since", age)
    /\ hud' = "arming"
    /\ UNCHANGED <<state, battle_id, runVars, endVars, hud_label, lockVars>>

(* Armable: the countdown starts or runs on.                               *)
ArmingCountdown(gap, sp) ==
    /\ CanArm(gap, sp)
    /\ ~Reached("arm_proximity_since", ARM_SUSTAINED_PROXIMITY)
    /\ LET a == Stop({"arming_violation_since", "separated_since"}, age)
       IN  age' = IF InCountdown THEN a ELSE Start("arm_proximity_since", a)
    /\ hud' = "arming"
    /\ UNCHANGED <<state, battle_id, runVars, endVars, hud_label, lockVars>>

(* The countdown is over: ARMED, with a battle id.                         *)
Arm(gap, sp) ==
    /\ CanArm(gap, sp)
    /\ Reached("arm_proximity_since", ARM_SUSTAINED_PROXIMITY)
    /\ state' = "ARMED" /\ battle_id' = TRUE
    /\ age' = Start("condition_start_time",
                    Stop(ArmTimers \cup {"separated_since"}, age))
    /\ hud' = "armed"
    /\ UNCHANGED <<runVars, endVars, hud_label, lockVars>>

HandleIdle(gap, sp) ==
    /\ state = "IDLE"
    /\ \/ ArmingAborted(gap, sp) \/ NotArmable(gap, sp)
       \/ ArmingTolerated(gap, sp) \/ ArmingCountdown(gap, sp) \/ Arm(gap, sp)

-----------------------------------------------------------------------------
(* ARMED (_handle_armed).  Its launch-timeout branch needs a running       *)
(* launch_trigger_time, which LaunchClockStopped shows ARMED never has.    *)

PrestartAbort(gap, sp) ==
    /\ gap > MAX_BATTLE_GAP /\ BothAtLeast(sp, GAP_ABORT_MIN_BOTH_SPEED)
    /\ Reached("condition_start_time", PRESTART_GAP_ABORT_GRACE)

(* Mutant: the abort is not shown.                                         *)
AbortPrestartSilently(gap, sp) ==
    /\ PrestartAbort(gap, sp)
    /\ state' = "IDLE"
    /\ age' = Start("hud_cancel_hold", Stop(ArmTimers, age))
    /\ UNCHANGED <<battle_id, runVars, endVars, hudVars, lockVars>>

(* _abort_run_no_point keeps the battle id and the pair.                   *)
AbortPrestart(gap, sp) ==
    /\ PrestartAbort(gap, sp)
    /\ state' = "IDLE"
    /\ age' = Start("hud_cancel_hold", Stop(ArmTimers, age))
    /\ hud' = "cancelled"
    /\ UNCHANGED <<battle_id, runVars, endVars, hud_label, lockVars>>

Launch(gap, sp) ==
    /\ ~PrestartAbort(gap, sp) /\ BothAtLeast(sp, BATTLE_ARM_MIN_SPEED)
    /\ state' = "LAUNCHING" /\ battle_id' = TRUE
    /\ age' = Start("launch_trigger_time", age)
    /\ hud' = "launching"
    /\ UNCHANGED <<runVars, endVars, hud_label, lockVars>>

StayArmed(gap, sp) ==
    /\ ~PrestartAbort(gap, sp) /\ ~BothAtLeast(sp, BATTLE_ARM_MIN_SPEED)
    /\ battle_id' = TRUE
    /\ PublishUnforced("armed")
    /\ UNCHANGED <<state, age, runVars, endVars, hud_label, lockVars>>

HandleArmed(gap, sp) ==
    /\ state = "ARMED"
    /\ AbortPrestart(gap, sp) \/ Launch(gap, sp) \/ StayArmed(gap, sp)

-----------------------------------------------------------------------------
(* LAUNCHING (_handle_launching).  unusable: a spline is missing or frozen,*)
(* so the cars are compared by position.                                   *)

CanAssignRoles(ahead, unusable) ==
    \/ ahead # None
    \/ unusable /\ Reached("launch_trigger_time", POSITION_ROLE_ASSIGN_WAIT)
    \/ ~unusable /\ Exceeded("launch_trigger_time", ROLE_ASSIGN_WAIT)

(* setup_active_run: the roles, and a fresh run for both cars.  The timers *)
(* that only PreActive states read are dropped with it.                    *)
Go(ahead, unusable) ==
    /\ CanAssignRoles(ahead, unusable)
    /\ lead' \in IF ahead = None THEN Players ELSE {ahead}
    /\ position_fallback' = unusable
    /\ overtake_chase_scored' = FALSE
    /\ farLap' = {} /\ farMetres' = {} /\ lead_lap_completed' = FALSE
    /\ stall' = [p \in Players |-> Off]
    /\ state' = "ACTIVE"
    /\ age' = [t \in Timers |-> IF t = "active_start_time" THEN 0 ELSE Off]
    /\ hud' = "active"
    /\ UNCHANGED <<score, battle_id, endVars, hud_label, lockVars>>

AwaitRoles(ahead, unusable) ==
    /\ ~CanAssignRoles(ahead, unusable)
    /\ ~Exceeded("launch_trigger_time", LAUNCH_TIMEOUT)
    /\ hud' = "launching"
    /\ UNCHANGED <<state, age, battle_id, runVars, endVars, hud_label, lockVars>>

(* The non-full reset keeps the pair and its battle id.                    *)
LaunchTimeout(ahead, unusable) ==
    /\ ~CanAssignRoles(ahead, unusable)
    /\ Exceeded("launch_trigger_time", LAUNCH_TIMEOUT)
    /\ state' = "IDLE" /\ age' = Stop(RunTimers, age)
    /\ PublishUnforced("pairing")
    /\ UNCHANGED <<battle_id, runVars, endVars, hud_label, lockVars>>

HandleLaunching(ahead, unusable) ==
    /\ state = "LAUNCHING"
    /\ \/ Go(ahead, unusable) \/ AwaitRoles(ahead, unusable)
       \/ LaunchTimeout(ahead, unusable)

-----------------------------------------------------------------------------
(* The end of a battle (scoring.py) *)

HasPoints == \E p \in Players : score[p] > 0
Points == score[car1] + score[car2]

(* _dispatch_session_outcome; handle_battle_score drops it without an id.  *)
Dispatch(o) == dispatched' = IF battle_id THEN Append(dispatched, o) ELSE dispatched

(* finalize_abandon: a win for w with points on the board or, at 0-0, with *)
(* enough progress by either car still known; else cancelled.              *)
FinalizeAbandon(w, byPosition, lap, metres) ==
    LET awarded == HasPoints \/ IF byPosition THEN metres # {} ELSE lap # {}
    IN  /\ state' = "FINISHED"
        /\ winner' = IF awarded THEN w ELSE None
        /\ IF awarded
           THEN Dispatch([status |-> "finished", winner |-> w, by |-> "abandon"])
           ELSE UNCHANGED dispatched
        /\ hud' = IF awarded THEN "finished" ELSE "cancelled"
        /\ hud_label' = IF awarded THEN "win" ELSE "cancel"

Leader(sc) == IF sc[car1] > sc[car2] THEN car1
              ELSE IF sc[car2] > sc[car1] THEN car2 ELSE None

(* Mutant: the battle is not marked as over.                               *)
SessionLeftActive(sc, isDraw) ==
    /\ UNCHANGED state
    /\ score' = sc /\ winner' = Leader(sc)
    /\ Dispatch([status |-> IF Leader(sc) = None THEN "draw" ELSE "finished",
                 winner |-> Leader(sc), by |-> "finish"])
    /\ hud' = "finished" /\ hud_label' = IF isDraw THEN "draw" ELSE "win"

(* Mutant: the outcome follows the finish gap, as the HUD label does.      *)
SessionByGap(sc, isDraw) ==
    /\ state' = "FINISHED"
    /\ score' = sc /\ winner' = IF isDraw THEN None ELSE Leader(sc)
    /\ Dispatch([status |-> IF isDraw THEN "draw" ELSE "finished",
                 winner |-> IF isDraw THEN None ELSE Leader(sc), by |-> "finish"])
    /\ hud' = "finished" /\ hud_label' = IF isDraw THEN "draw" ELSE "win"

(* finalize_single_session_result: the outcome follows the score, the HUD  *)
(* label follows the finish gap.                                           *)
FinalizeSession(sc, isDraw) ==
    /\ state' = "FINISHED"
    /\ score' = sc /\ winner' = Leader(sc)
    /\ Dispatch([status |-> IF Leader(sc) = None THEN "draw" ELSE "finished",
                 winner |-> Leader(sc), by |-> "finish"])
    /\ hud' = "finished" /\ hud_label' = IF isDraw THEN "draw" ELSE "win"

AddPoint(p) == [score EXCEPT ![p] = @ + 1]

-----------------------------------------------------------------------------
(* ACTIVE (_handle_active), for a packet in which both cars have been      *)
(* mirrored with speeds sp (CarState.update).                              *)

(* _update_stall_timer.                                                    *)
Stalled(sp) == [p \in Players |-> IF sp[p] >= GAP_ABORT_MIN_BOTH_SPEED THEN Off
                                  ELSE IF stall[p] = Off THEN 0 ELSE stall[p]]

(* check_abandon_by_stall: the driver who still moves.                     *)
StallWinners(sp) ==
    {p \in Players : /\ Stalled(sp)[Opponent(p)] >= ABANDON_STALL
                     /\ sp[p] >= GAP_ABORT_MIN_BOTH_SPEED}

(* check_abandon_by_gap: the one that moves, else the one ahead; which of  *)
(* two level cars has driven further is left open.                         *)
GapWinners(sp, ahead) ==
    LET moving == {p \in Players : sp[p] >= GAP_ABORT_MIN_BOTH_SPEED}
    IN  IF moving # {} /\ moving # Players THEN moving
        ELSE IF ahead # None THEN {ahead} ELSE Players

(* try_score_active_points: time and gap allow a point.                    *)
ScoringOpen(gap, byPosition) ==
    /\ Exceeded("active_start_time", OVERTAKE_ACTIVE_GRACE)
    /\ ~Running("last_overtake_point_ts")
         \/ Reached("last_overtake_point_ts", OVERTAKE_POINT_COOLDOWN)
    /\ gap >= OVERTAKE_MIN_GAP
    /\ \/ gap <= OVERTAKE_MAX_GAP
       \/ /\ byPosition
          /\ gap <= OVERTAKE_MAX_GAP_FALLBACK \/ gap <= BATTLE_ARM_MAX_GAP

(* Mutant: the chase scores whenever it is ahead.                          *)
ChaseAlwaysScores == Opponent(lead)

(* The chase scores an overtake; after it the lead scores a recovery.      *)
NextScorer == IF overtake_chase_scored THEN lead ELSE Opponent(lead)

Score(gap, ahead, byPosition) ==
    /\ ScoringOpen(gap, byPosition) /\ ahead = NextScorer
    /\ Points < MaxPoints
    /\ score' = AddPoint(ahead)
    /\ overtake_chase_scored' = ~overtake_chase_scored
    /\ age' = Start("last_overtake_point_ts", age)
    /\ hud' = "active"
    /\ UNCHANGED <<state, endVars, hud_label>>

(* check_run_finish: the finish point goes to the car clearly ahead unless *)
(* the gap is below FINISH_POINT_MIN_GAP.                                  *)
Finish(gap, ahead, byPosition) ==
    /\ ~(ScoringOpen(gap, byPosition) /\ ahead = NextScorer)
    /\ lead_lap_completed
    /\ LET isDraw == gap < FINISH_POINT_MIN_GAP \/ ahead = None
       IN  FinalizeSession(IF isDraw THEN score ELSE AddPoint(ahead), isDraw)
    /\ UNCHANGED <<age, overtake_chase_scored>>

RaceOn(gap, ahead, byPosition) ==
    /\ ~(ScoringOpen(gap, byPosition) /\ ahead = NextScorer)
    /\ ~lead_lap_completed
    /\ PublishUnforced("active")
    /\ UNCHANGED <<state, age, score, overtake_chase_scored, endVars, hud_label>>

(* moved: the car whose distance passes the abandon threshold with this    *)
(* packet, in laps or, without a usable spline, in metres.                 *)
HandleActive(sp, unusable, moved) ==
    LET byPosition == position_fallback \/ unusable
        lap == IF byPosition THEN farLap ELSE farLap \cup moved
        metres == IF byPosition THEN farMetres \cup moved ELSE farMetres
        Abandon(w) == /\ FinalizeAbandon(w, byPosition, lap, metres)
                      /\ UNCHANGED <<age, score, overtake_chase_scored>>
    IN  /\ state = "ACTIVE"
        /\ stall' = Stalled(sp) /\ farLap' = lap /\ farMetres' = metres
        /\ \/ \E w \in StallWinners(sp) : Abandon(w)
           \/ /\ StallWinners(sp) = {}
              /\ \E gap \in Gaps, ahead \in Players \cup {None} :
                   IF gap >= DISAPPEAR_GAP
                   THEN \E w \in GapWinners(sp, ahead) : Abandon(w)
                   ELSE \/ Score(gap, ahead, byPosition)
                        \/ Finish(gap, ahead, byPosition)
                        \/ RaceOn(gap, ahead, byPosition)
        /\ UNCHANGED <<lead, position_fallback, lead_lap_completed, battle_id,
                       lockVars>>

-----------------------------------------------------------------------------
(* The calls the orchestrator makes *)

(* The first packet after the end: reset, clear, release with the cooldown *)
(* (_handle_finished_state).                                               *)
HandleFinished ==
    /\ state = "FINISHED"
    /\ state' = "IDLE" /\ battle_id' = FALSE
    /\ age' = Stop(RunTimers \cup {"separated_since"}, age)
    /\ lead_lap_completed' = FALSE
    /\ hud_clear' = TRUE /\ Release(TRUE)
    /\ UNCHANGED <<lead, position_fallback, overtake_chase_scored, score,
                   farLap, farMetres, stall, endVars, hudVars>>

(* Mutant: the lock never expires.                                         *)
LockNeverExpires == FALSE

LockExpired == Reached("pair_locked_at", PAIR_MAX_PREACTIVE_LOCK)

PreActiveTimeout == state \in PreActive /\ LockExpired /\ Dissolve

(* process_pair_logic, called by update() with both cars just mirrored, so *)
(* that neither is stale or inactive (see the orchestrator's module).      *)
Update ==
    /\ locked
    /\ \/ HandleFinished
       \/ PreActiveTimeout
       \/ /\ ~LockExpired
          /\ \E gap \in Gaps, sp \in [Players -> Speeds] :
               HandleIdle(gap, sp) \/ HandleArmed(gap, sp)
       \/ /\ ~LockExpired
          /\ \E ahead \in Players \cup {None}, unusable \in BOOLEAN :
               HandleLaunching(ahead, unusable)
       \/ \E sp \in [Players -> Speeds], unusable \in BOOLEAN,
             moved \in {{}, {car1}, {car2}} : HandleActive(sp, unusable, moved)

(* Mutant: the gate is taken for on.                                       *)
HudDisconnectedUngated == locked /\ Dissolve

(* update() with the overlay gate on and an overlay gone: dissolved in any *)
(* state.                                                                  *)
HudDisconnected == locked /\ BATTLE_REQUIRE_HUD /\ Dissolve

(* remove_car: the car is deleted first, so its distance no longer counts  *)
(* and the pair no longer compares by position; then the abandon, then a   *)
(* release without cooldown.                                               *)
Disconnect(p) ==
    /\ locked
    /\ IF state = "ACTIVE"
       THEN FinalizeAbandon(Opponent(p), FALSE, farLap \ {p}, farMetres \ {p})
       ELSE UNCHANGED <<state, endVars, hudVars>>
    /\ Release(FALSE)
    /\ UNCHANGED <<age, battle_id, runVars, hud_clear>>

(* handle_lap_completed for the lead, or its spline crossing the line.     *)
LapCompleted ==
    /\ locked /\ state = "ACTIVE"
    /\ lead_lap_completed' = TRUE
    /\ UNCHANGED <<state, age, battle_id, lead, position_fallback,
                   overtake_chase_scored, score, farLap, farMetres, stall,
                   endVars, hudVars, lockVars>>

(* set_server_mode(False): every manager is dropped as it is.              *)
ModeOff ==
    /\ locked /\ locked' = FALSE
    /\ UNCHANGED <<state, age, battle_id, runVars, endVars, hudVars, hud_clear,
                   rematch_cooldown>>

Tick ==
    /\ age' = [t \in Timers |-> Older(age[t], Threshold[t])]
    /\ stall' = [p \in Players |-> Older(stall[p], ABANDON_STALL)]
    /\ UNCHANGED <<state, battle_id, lead, position_fallback,
                   overtake_chase_scored, score, farLap, farMetres,
                   lead_lap_completed, endVars, hudVars, lockVars>>

Next ==
    \/ Update \/ HudDisconnected \/ LapCompleted \/ ModeOff \/ Tick
    \/ \E p \in Players : Disconnect(p)

Spec == Init /\ [][Next]_vars

(* Time passes, and while a driver of the pair is connected the AC server  *)
(* keeps sending its position; a driver gone silent is purged (Disconnect).*)
FairSpec == Spec /\ WF_vars(Tick) /\ WF_vars(Update)

-----------------------------------------------------------------------------
(* Properties *)

TypeOK ==
    /\ locked \in BOOLEAN /\ hud_clear \in BOOLEAN /\ rematch_cooldown \in BOOLEAN
    /\ state \in States
    /\ age \in [Timers -> Int] /\ \A t \in Timers : age[t] \in Off .. Threshold[t] + 1
    /\ stall \in [Players -> Off .. ABANDON_STALL + 1]
    /\ lead \in Players \cup {None}
    /\ position_fallback \in BOOLEAN /\ overtake_chase_scored \in BOOLEAN
    /\ score \in [Players -> Nat]
    /\ farLap \subseteq Players /\ farMetres \subseteq Players
    /\ lead_lap_completed \in BOOLEAN /\ battle_id \in BOOLEAN
    /\ winner \in Players \cup {None} /\ dispatched \in Seq(Outcomes)
    /\ hud \in HudStates /\ hud_label \in {None, "win", "draw", "cancel"}

(* Overtakes and recoveries alternate whatever the packets, the cooldown   *)
(* and the roles: while racing, the chase is level with the lead, or one   *)
(* ahead when the last point was its overtake.                             *)
ScoreAlternates ==
    state = "ACTIVE" =>
        /\ lead \in Players
        /\ score[Opponent(lead)] = score[lead] + (IF overtake_chase_scored THEN 1 ELSE 0)

(* A battle decided on the line is decided by the score, by at most two    *)
(* points for the chase and one for the lead, and is a draw exactly when   *)
(* the scores are level.                                                   *)
FinishMargin ==
    \A i \in 1 .. Len(dispatched) : dispatched[i].by = "finish" =>
        LET margin == score[Opponent(lead)] - score[lead]
        IN  /\ margin \in -1 .. 2
            /\ (dispatched[i].status = "draw") <=> (margin = 0)
            /\ margin # 0 => score[dispatched[i].winner] > score[Opponent(dispatched[i].winner)]

(* From ARMED to the end the battle has the id without which its outcome   *)
(* would be dropped, through aborts, launch timeouts and re-arming.        *)
IdFromArmedOn == state \in {"ARMED", "LAUNCHING", "ACTIVE", "FINISHED"} => battle_id

(* An outcome is sent at most once, and it is the one the battle keeps.    *)
OutcomeOnce ==
    /\ Len(dispatched) <= 1
    /\ \A i \in 1 .. Len(dispatched) : dispatched[i].winner = winner

(* Nobody wins a battle in which nobody scored or drove far enough.        *)
WinNeedsRace == winner # None => HasPoints \/ farLap \cup farMetres # {}

(* ARMED and IDLE are never left with the launch clock running: the launch *)
(* timeout of _handle_armed cannot fire, and a new LAUNCHING phase starts  *)
(* from a fresh clock.                                                     *)
LaunchClockStopped == state \in {"IDLE", "ARMED"} => ~Running("launch_trigger_time")

(* The clock of the separated release never runs during a countdown or     *)
(* after IDLE, so a pair that is arming or racing is never dissolved as    *)
(* separated.                                                              *)
SeparatedOnlyWhenIdle ==
    Running("separated_since") => state = "IDLE" /\ ~InCountdown

(* What the overlays show is what the pair is doing, in spite of the       *)
(* non-forced publishes the cancel hold drops.                             *)
HudTracksState ==
    locked => hud \in CASE state = "IDLE" /\ InCountdown -> {"arming"}
                        [] state = "IDLE" /\ ~InCountdown -> {"pairing", "cancelled"}
                        [] state = "ARMED" -> {"armed"}
                        [] state = "LAUNCHING" -> {"launching"}
                        [] state = "ACTIVE" -> {"active"}
                        [] state = "FINISHED" -> {"finished", "cancelled"}

(* The overlays show a result exactly when one was sent to the event       *)
(* stream (without the overlay gate).                                      *)
ResultShown == hud = "finished" <=> dispatched # <<>>

(* After the end nothing changes the result, whatever packets, lap lines   *)
(* or disconnects still arrive.                                            *)
ResultFrozen == [][state = "FINISHED" => UNCHANGED <<score, winner, dispatched>>]_vars

(* Points on the board are never lost silently: whichever way a race ends, *)
(* and unless the mode is switched off, the pair is released with a result *)
(* sent (without the overlay gate).                                        *)
PointsDecided ==
    [][locked /\ ~locked' /\ ~ModeOff /\ HasPoints => dispatched' # <<>>]_vars

(* Every lock ends or becomes a race, and every race that ended is         *)
(* released: a pair cannot hold its drivers before the start for ever.     *)
PairSettles == locked ~> (~locked \/ state = "ACTIVE")

(* The lifecycle the manager implements: before the race, racing, over, or *)
(* released; and the one outcome sent, or none.                            *)
LifecyclePhase == IF ~locked THEN "released"
                  ELSE IF state = "ACTIVE" THEN "racing"
                  ELSE IF state = "FINISHED" THEN "over" ELSE "matched"
LifecycleOutcome == IF dispatched = <<>> THEN None
                    ELSE IF dispatched[1].status = "draw" THEN "draw"
                    ELSE dispatched[1].winner
Lifecycle == INSTANCE PairLifecycle
                 WITH phase <- LifecyclePhase, outcome <- LifecycleOutcome

(* Whatever packets, timers and calls do to its eighteen variables, a pair *)
(* goes once through its lifecycle: no second race, and no outcome before   *)
(* or after the race.                                                      *)
ImplementsLifecycle == Lifecycle!Spec

-----------------------------------------------------------------------------
(* What the documents say, and the code does not do *)

(* docs/BATTLE_MODE.md: in position mode an abandon at 0-0 is won once one *)
(* of the two drove the minimum distance.  remove_car forgets the leaver   *)
(* and the position mode first.                                            *)
PositionAbandonWins ==
    [][/\ state = "ACTIVE" /\ state' = "FINISHED" /\ lead_lap_completed = FALSE
       /\ position_fallback /\ farMetres # {}
       => dispatched' # dispatched]_vars
=============================================================================
