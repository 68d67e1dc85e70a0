--------------------------- MODULE PairBattleProofs ---------------------------
(***************************************************************************)
(* Proofs about PairBattle, for every choice of thresholds, gaps, speeds   *)
(* and bounds that PairAssumption admits: type correctness, and the        *)
(* invariants of the scoring, of the outcome and of the clocks.            *)
(***************************************************************************)
EXTENDS PairBattle, TLAPS

(* The type of the clocks, the part of TypeOK that every action touches.   *)
AgeOK(a) == a \in [Timers -> Int] /\ \A t \in Timers : a[t] \in Off .. Threshold[t] + 1

(* Every clock has a natural threshold.                                    *)
LEMMA ThresholdType == Threshold \in [Timers -> Nat]
BY PairAssumption DEF PairAssumption, Timers, Threshold

(* The clocks of settings.py by name.                                      *)
LEMMA TimerNames ==
    Timers = {"pair_locked_at", "arm_proximity_since", "arming_violation_since",
              "separated_since", "condition_start_time", "launch_trigger_time",
              "active_start_time", "last_overtake_point_ts", "hud_cancel_hold"}
BY DEF Timers, Threshold

(* Starting a clock keeps the type.                                        *)
LEMMA StartOK ==
    ASSUME NEW a, AgeOK(a), NEW t \in Timers
    PROVE  AgeOK(Start(t, a))
BY ThresholdType DEF AgeOK, Start, Off

(* Stopping clocks keeps the type.                                         *)
LEMMA StopOK ==
    ASSUME NEW a, AgeOK(a), NEW ts
    PROVE  AgeOK(Stop(ts, a))
BY ThresholdType DEF AgeOK, Stop, Off

(* Time keeps the type: a clock stops one past its threshold.              *)
LEMMA TickOK ==
    ASSUME AgeOK(age)
    PROVE  AgeOK([t \in Timers |-> Older(age[t], Threshold[t])])
BY ThresholdType DEF AgeOK, Older, Off

(* TypeOK with its clocks named.                                           *)
LEMMA TypeOfAge == TypeOK => AgeOK(age)
BY DEF TypeOK, AgeOK

-----------------------------------------------------------------------------
(* Type correctness, one lemma per handler *)

(* The manager as the matchmaker builds it.                                *)
LEMMA InitTypeOK == Init => TypeOK
<1> SUFFICES ASSUME Init PROVE TypeOK
    OBVIOUS
<1>1. AgeOK(age)
    <2>1. AgeOK([t \in Timers |-> Off])
        BY ThresholdType DEF AgeOK, Off
    <2>2. "pair_locked_at" \in Timers
        BY TimerNames
    <2>3. age = Start("pair_locked_at", [t \in Timers |-> Off])
        BY DEF Init
    <2> QED
        BY <2>1, <2>2, <2>3, StartOK
<1>2. stall \in [Players -> Off .. ABANDON_STALL + 1]
    BY PairAssumption DEF Init, PairAssumption, Off
<1>3. dispatched \in Seq(Outcomes) /\ score \in [Players -> Nat]
    BY DEF Init
<1>4. state \in States /\ hud \in HudStates /\ hud_label \in {None, "win", "draw", "cancel"}
    BY DEF Init, States, PreActive, HudStates
<1>5. /\ {locked, hud_clear, rematch_cooldown, position_fallback} \subseteq BOOLEAN
      /\ {overtake_chase_scored, lead_lap_completed, battle_id} \subseteq BOOLEAN
      /\ {lead, winner} \subseteq Players \cup {None}
      /\ farLap \subseteq Players /\ farMetres \subseteq Players
    BY DEF Init
<1> QED
    BY <1>1, <1>2, <1>3, <1>4, <1>5 DEF TypeOK, AgeOK

(* The full reset and the release.                                         *)
LEMMA DissolveTypeOK == TypeOK /\ Dissolve => TypeOK'
<1> SUFFICES ASSUME TypeOK, Dissolve PROVE TypeOK'
    OBVIOUS
<1>1. AgeOK(age')
    BY TypeOfAge, StopOK DEF Dissolve
<1> QED
    BY <1>1 DEF Dissolve, Release, TypeOK, AgeOK, States, PreActive, HudStates,
                runVars, endVars, hudVars, lockVars

(* A handler that only moves the clocks, the phase, the id and the HUD.    *)
LEMMA PhaseStepTypeOK ==
    ASSUME TypeOK, AgeOK(age'), state' \in States, battle_id' \in BOOLEAN,
           hud' \in HudStates, UNCHANGED <<runVars, endVars, hud_label, lockVars>>
    PROVE  TypeOK'
BY DEF TypeOK, AgeOK, runVars, endVars, lockVars

(* The separated clock, on clocks the caller has already changed.          *)
LEMMA SeparatedTypeOK ==
    ASSUME TypeOK, NEW a, AgeOK(a), NEW P,
           MaybeDissolveSeparated(a, P), P => hud' \in HudStates
    PROVE  TypeOK'
<1>1. CASE Reached("separated_since", PAIR_IDLE_SEPARATED_RELEASE)
    BY <1>1, DissolveTypeOK DEF MaybeDissolveSeparated
<1>2. CASE ~Reached("separated_since", PAIR_IDLE_SEPARATED_RELEASE)
    <2>1. AgeOK(age')
        BY <1>2, StartOK, TimerNames DEF MaybeDissolveSeparated
    <2> QED
        BY <1>2, <2>1, PhaseStepTypeOK DEF MaybeDissolveSeparated, TypeOK
<1> QED
    BY <1>1, <1>2

(* What a publish without force leaves on the HUD.                         *)
LEMMA PublishTypeOK ==
    ASSUME TypeOK, NEW h \in HudStates, PublishUnforced(h)
    PROVE  hud' \in HudStates
BY DEF PublishUnforced, TypeOK

(* Arming.                                                                 *)
LEMMA IdleTypeOK ==
    ASSUME TypeOK, NEW gap, NEW sp, HandleIdle(gap, sp)
    PROVE  TypeOK'
<1> USE TypeOfAge, StartOK, StopOK, TimerNames
<1>1. CASE ArmingAborted(gap, sp)
    <2>1. AgeOK(Start("hud_cancel_hold", Stop(ArmTimers, age)))
        OBVIOUS
    <2> QED
        BY <1>1, <2>1, SeparatedTypeOK DEF ArmingAborted, HudStates
<1>2. CASE NotArmable(gap, sp)
    <2>1. AgeOK(Stop(ArmTimers, age))
        OBVIOUS
    <2>2. PublishUnforced("pairing") => hud' \in HudStates
        BY PublishTypeOK DEF HudStates
    <2> QED
        BY <1>2, <2>1, <2>2, SeparatedTypeOK DEF NotArmable
<1>3. CASE ArmingTolerated(gap, sp)
    <2>1. AgeOK(age')
        BY <1>3 DEF ArmingTolerated
    <2> QED
        BY <1>3, <2>1, PhaseStepTypeOK DEF ArmingTolerated, TypeOK, HudStates
<1>4. CASE ArmingCountdown(gap, sp)
    <2>1. AgeOK(age')
        BY <1>4 DEF ArmingCountdown
    <2> QED
        BY <1>4, <2>1, PhaseStepTypeOK DEF ArmingCountdown, TypeOK, HudStates
<1>5. CASE Arm(gap, sp)
    <2>1. AgeOK(age')
        BY <1>5 DEF Arm
    <2> QED
        BY <1>5, <2>1, PhaseStepTypeOK DEF Arm, States, PreActive, HudStates
<1> QED
    BY <1>1, <1>2, <1>3, <1>4, <1>5 DEF HandleIdle

(* Waiting for the launch.                                                 *)
LEMMA ArmedTypeOK ==
    ASSUME TypeOK, NEW gap, NEW sp, HandleArmed(gap, sp)
    PROVE  TypeOK'
<1> USE TypeOfAge, StartOK, StopOK, TimerNames
<1>1. CASE AbortPrestart(gap, sp)
    <2>1. AgeOK(age')
        BY <1>1 DEF AbortPrestart
    <2> QED
        BY <1>1, <2>1, PhaseStepTypeOK
        DEF AbortPrestart, TypeOK, States, PreActive, HudStates
<1>2. CASE Launch(gap, sp)
    <2>1. AgeOK(age')
        BY <1>2 DEF Launch
    <2> QED
        BY <1>2, <2>1, PhaseStepTypeOK DEF Launch, States, PreActive, HudStates
<1>3. CASE StayArmed(gap, sp)
    <2>1. AgeOK(age') /\ hud' \in HudStates
        BY <1>3, PublishTypeOK DEF StayArmed, HudStates
    <2> QED
        BY <1>3, <2>1, PhaseStepTypeOK DEF StayArmed, TypeOK
<1> QED
    BY <1>1, <1>2, <1>3 DEF HandleArmed

(* Assigning the roles.                                                    *)
LEMMA LaunchingTypeOK ==
    ASSUME TypeOK, NEW ahead \in Players \cup {None}, NEW unusable \in BOOLEAN,
           HandleLaunching(ahead, unusable)
    PROVE  TypeOK'
<1>1. CASE Go(ahead, unusable)
    <2>1. AgeOK(age')
        BY <1>1, ThresholdType DEF Go, AgeOK, Off
    <2>2. lead' \in Players \cup {None}
        BY <1>1 DEF Go
    <2>3. stall' \in [Players -> Off .. ABANDON_STALL + 1]
        BY <1>1, PairAssumption DEF Go, PairAssumption, Off
    <2> QED
        BY <1>1, <2>1, <2>2, <2>3
        DEF Go, TypeOK, AgeOK, States, HudStates, endVars, lockVars
<1>2. CASE AwaitRoles(ahead, unusable)
    BY <1>2, TypeOfAge, PhaseStepTypeOK DEF AwaitRoles, TypeOK, HudStates
<1>3. CASE LaunchTimeout(ahead, unusable)
    <2>1. AgeOK(age') /\ hud' \in HudStates
        BY <1>3, TypeOfAge, StopOK, PublishTypeOK DEF LaunchTimeout, HudStates
    <2> QED
        BY <1>3, <2>1, PhaseStepTypeOK DEF LaunchTimeout, TypeOK, States, PreActive
<1> QED
    BY <1>1, <1>2, <1>3 DEF HandleLaunching

(* The end by an abandon: what finalize_abandon assigns.                   *)
EndTypeOK == /\ state' \in States /\ hud' \in HudStates
             /\ winner' \in Players \cup {None} /\ dispatched' \in Seq(Outcomes)
             /\ hud_label' \in {None, "win", "draw", "cancel"}

LEMMA DispatchTypeOK ==
    ASSUME TypeOK, NEW o \in Outcomes, Dispatch(o)
    PROVE  dispatched' \in Seq(Outcomes)
BY DEF Dispatch, TypeOK

LEMMA AbandonTypeOK ==
    ASSUME TypeOK, NEW w \in Players, NEW byPosition, NEW lap, NEW metres,
           FinalizeAbandon(w, byPosition, lap, metres)
    PROVE  EndTypeOK
<1>1. [status |-> "finished", winner |-> w, by |-> "abandon"] \in Outcomes
    BY DEF Outcomes
<1>2. dispatched' \in Seq(Outcomes)
    BY <1>1, DispatchTypeOK DEF FinalizeAbandon, TypeOK
<1> QED
    BY <1>2 DEF EndTypeOK, FinalizeAbandon, States, HudStates

(* The end on the line.                                                    *)
LEMMA SessionTypeOK ==
    ASSUME TypeOK, NEW sc, NEW isDraw, FinalizeSession(sc, isDraw)
    PROVE  EndTypeOK /\ score' = sc
<1>1. Leader(sc) \in Players \cup {None}
    BY DEF Leader, Players
<1>2. [status |-> IF Leader(sc) = None THEN "draw" ELSE "finished",
       winner |-> Leader(sc), by |-> "finish"] \in Outcomes
    BY <1>1 DEF Outcomes
<1>3. dispatched' \in Seq(Outcomes)
    BY <1>2, DispatchTypeOK DEF FinalizeSession
<1> QED
    BY <1>1, <1>3 DEF EndTypeOK, FinalizeSession, States, HudStates

(* A point is added to a natural.                                          *)
LEMMA AddPointType ==
    ASSUME score \in [Players -> Nat], NEW p
    PROVE  AddPoint(p) \in [Players -> Nat]
<1>1. CASE p \in Players
    BY <1>1 DEF AddPoint
<1>2. CASE p \notin Players
    <2>1. \A q \in Players : AddPoint(p)[q] = score[q]
        BY <1>2 DEF AddPoint
    <2> QED
        BY <2>1 DEF AddPoint
<1> QED
    BY <1>1, <1>2

(* The chase and the lead are drivers.                                     *)
LEMMA OpponentType == ASSUME NEW p \in Players PROVE Opponent(p) \in Players /\ Opponent(p) # p
BY PairAssumption DEF Opponent, Players, PairAssumption

(* What a packet of a race makes of the position mode and the distances.   *)
ByPosition(unusable) == position_fallback \/ unusable
NewLap(unusable, moved) == IF ByPosition(unusable) THEN farLap ELSE farLap \cup moved
NewMetres(unusable, moved) ==
    IF ByPosition(unusable) THEN farMetres \cup moved ELSE farMetres

(* A packet of a race ends it by an abandon, scores, finishes or goes on.  *)
LEMMA ActiveShape ==
    ASSUME NEW sp, NEW unusable, NEW moved, HandleActive(sp, unusable, moved)
    PROVE  /\ state = "ACTIVE"
           /\ farLap' = NewLap(unusable, moved) /\ farMetres' = NewMetres(unusable, moved)
           /\ UNCHANGED <<lead, position_fallback, lead_lap_completed,
                          battle_id, lockVars>>
           /\ \/ \E w \in Players :
                   /\ FinalizeAbandon(w, ByPosition(unusable), NewLap(unusable, moved),
                                      NewMetres(unusable, moved))
                   /\ UNCHANGED <<age, score, overtake_chase_scored>>
              \/ \E gap \in Gaps, ahead \in Players \cup {None} :
                   \/ Score(gap, ahead, ByPosition(unusable))
                   \/ Finish(gap, ahead, ByPosition(unusable))
                   \/ RaceOn(gap, ahead, ByPosition(unusable))
<1>1. StallWinners(sp) \subseteq Players
    BY DEF StallWinners
<1>2. ASSUME NEW ahead \in Players \cup {None}
      PROVE  GapWinners(sp, ahead) \subseteq Players
    BY DEF GapWinners
<1> QED
    BY <1>1, <1>2 DEF HandleActive, ByPosition, NewLap, NewMetres

(* Racing.                                                                 *)
LEMMA ActiveTypeOK ==
    ASSUME TypeOK, NEW sp, NEW unusable \in BOOLEAN,
           NEW moved \in {{}, {car1}, {car2}}, HandleActive(sp, unusable, moved)
    PROVE  TypeOK'
<1> DEFINE Rest == AgeOK(age') /\ score' \in [Players -> Nat]
                     /\ overtake_chase_scored' \in BOOLEAN /\ EndTypeOK
<1>1. stall' \in [Players -> Off .. ABANDON_STALL + 1]
    BY PairAssumption DEF HandleActive, Stalled, TypeOK, PairAssumption, Off
<1>2. farLap' \subseteq Players /\ farMetres' \subseteq Players
    BY DEF HandleActive, TypeOK, Players
<1>3. ASSUME Rest PROVE TypeOK'
    BY <1>1, <1>2, <1>3 DEF HandleActive, TypeOK, AgeOK, EndTypeOK, lockVars
<1>4. ASSUME NEW w \in Players, NEW byPosition, NEW lap, NEW metres,
             FinalizeAbandon(w, byPosition, lap, metres),
             UNCHANGED <<age, score, overtake_chase_scored>>
      PROVE  Rest
    BY <1>4, AbandonTypeOK, TypeOfAge DEF TypeOK
<1>5. ASSUME NEW gap \in Gaps, NEW ahead \in Players \cup {None}, NEW byPosition,
             Score(gap, ahead, byPosition) \/ Finish(gap, ahead, byPosition)
               \/ RaceOn(gap, ahead, byPosition)
      PROVE  Rest
    <2>1. CASE Score(gap, ahead, byPosition)
        BY <2>1, AddPointType, TypeOfAge, StartOK, TimerNames
        DEF Score, TypeOK, EndTypeOK, endVars, HudStates
    <2>2. CASE Finish(gap, ahead, byPosition)
        <3> DEFINE isDraw == gap < FINISH_POINT_MIN_GAP \/ ahead = None
                   sc == IF isDraw THEN score ELSE AddPoint(ahead)
        <3>1. sc \in [Players -> Nat]
            BY AddPointType DEF TypeOK
        <3>2. FinalizeSession(sc, isDraw) /\ UNCHANGED <<age, overtake_chase_scored>>
            BY <2>2 DEF Finish
        <3> HIDE DEF isDraw, sc
        <3> QED
            BY <3>1, <3>2, SessionTypeOK, TypeOfAge DEF TypeOK
    <2>3. CASE RaceOn(gap, ahead, byPosition)
        BY <2>3, PublishTypeOK, TypeOfAge
        DEF RaceOn, TypeOK, EndTypeOK, endVars, HudStates
    <2> QED
        BY <1>5, <2>1, <2>2, <2>3
<1> HIDE DEF Rest
<1> QED
    BY <1>3, <1>4, <1>5, ActiveShape

(* Every step keeps the type.                                              *)
LEMMA NextTypeOK == TypeOK /\ [Next]_vars => TypeOK'
<1> SUFFICES ASSUME TypeOK, [Next]_vars PROVE TypeOK'
    OBVIOUS
<1>1. CASE Update
    <2>1. CASE HandleFinished
        <3>1. AgeOK(age')
            BY <2>1, TypeOfAge, StopOK DEF HandleFinished
        <3> QED
            BY <2>1, <3>1 DEF HandleFinished, Release, TypeOK, AgeOK, States,
                              PreActive, endVars, hudVars
    <2>2. CASE PreActiveTimeout
        BY <2>2, DissolveTypeOK DEF PreActiveTimeout
    <2> QED
        BY <1>1, <2>1, <2>2, IdleTypeOK, ArmedTypeOK, LaunchingTypeOK, ActiveTypeOK
        DEF Update
<1>2. CASE HudDisconnected
    BY <1>2, DissolveTypeOK DEF HudDisconnected
<1>3. ASSUME NEW p \in Players, Disconnect(p) PROVE TypeOK'
    <2>1. EndTypeOK
        <3>1. CASE state = "ACTIVE"
            BY <1>3, <3>1, AbandonTypeOK, OpponentType DEF Disconnect
        <3>2. CASE state # "ACTIVE"
            BY <1>3, <3>2 DEF Disconnect, EndTypeOK, TypeOK, endVars, hudVars
        <3> QED
            BY <3>1, <3>2
    <2> QED
        BY <1>3, <2>1 DEF Disconnect, Release, TypeOK, EndTypeOK, runVars
<1>4. CASE LapCompleted
    BY <1>4 DEF LapCompleted, TypeOK, endVars, hudVars, lockVars
<1>5. CASE ModeOff
    BY <1>5 DEF ModeOff, TypeOK, runVars, endVars, hudVars
<1>6. CASE Tick
    <2>1. AgeOK(age')
        BY <1>6, TypeOfAge, TickOK DEF Tick
    <2>2. stall' \in [Players -> Off .. ABANDON_STALL + 1]
        BY <1>6, PairAssumption DEF Tick, TypeOK, Older, PairAssumption, Off
    <2> QED
        BY <1>6, <2>1, <2>2 DEF Tick, TypeOK, AgeOK, endVars, hudVars, lockVars
<1>7. CASE UNCHANGED vars
    BY <1>7 DEF vars, TypeOK, runVars, endVars, hudVars, lockVars
<1> QED
    BY <1>1, <1>2, <1>3, <1>4, <1>5, <1>6, <1>7 DEF Next

(* Scores, clocks, outcomes and HUD states never leave their types: no     *)
(* handler of the state machine loses a driver, subtracts a point or lets  *)
(* a clock run backwards.                                                  *)
THEOREM TypeCorrect == Spec => []TypeOK
BY InitTypeOK, NextTypeOK, PTL DEF Spec

-----------------------------------------------------------------------------
(* The clocks *)

ClockInv == LaunchClockStopped /\ SeparatedOnlyWhenIdle

(* A step of IDLE, from clocks that satisfy the invariant.                 *)
LEMMA IdleClocks ==
    ASSUME TypeOK, ClockInv, NEW gap, NEW sp, HandleIdle(gap, sp)
    PROVE  ClockInv'
<1> USE TimerNames DEF ClockInv, LaunchClockStopped, SeparatedOnlyWhenIdle,
                       InCountdown, Running, Start, Stop, ArmTimers, RunTimers,
                       MaybeDissolveSeparated, Dissolve, Off
<1>0. state = "IDLE"
    BY DEF HandleIdle
<1>1. CASE ArmingAborted(gap, sp)
    BY <1>0, <1>1 DEF ArmingAborted
<1>2. CASE NotArmable(gap, sp)
    BY <1>0, <1>2 DEF NotArmable
<1>3. CASE ArmingTolerated(gap, sp)
    BY <1>0, <1>3 DEF ArmingTolerated
<1>4. CASE ArmingCountdown(gap, sp)
    BY <1>0, <1>4 DEF ArmingCountdown
<1>5. CASE Arm(gap, sp)
    BY <1>0, <1>5 DEF Arm
<1> QED
    BY <1>1, <1>2, <1>3, <1>4, <1>5 DEF HandleIdle

(* Every step keeps the clock invariant.                                   *)
LEMMA NextClocks == TypeOK /\ ClockInv /\ [Next]_vars => ClockInv'
<1> SUFFICES ASSUME TypeOK, ClockInv, [Next]_vars PROVE ClockInv'
    OBVIOUS
<1> USE TimerNames DEF ClockInv, LaunchClockStopped, SeparatedOnlyWhenIdle,
                       InCountdown, Running, Start, Stop, ArmTimers, RunTimers, Off
<1>0. age \in [Timers -> Int] /\ \A t \in Timers : age[t] \in -1 .. Threshold[t] + 1
    BY DEF TypeOK
<1>1. CASE Update
    <2>1. CASE HandleFinished
        BY <2>1 DEF HandleFinished
    <2>2. CASE PreActiveTimeout
        BY <2>2 DEF PreActiveTimeout, Dissolve
    <2>3. ASSUME NEW gap, NEW sp, HandleArmed(gap, sp) PROVE ClockInv'
        <3>1. CASE AbortPrestart(gap, sp)
            BY <2>3, <3>1 DEF HandleArmed, AbortPrestart
        <3>2. CASE Launch(gap, sp)
            BY <2>3, <3>2, <1>0 DEF HandleArmed, Launch
        <3>3. CASE StayArmed(gap, sp)
            BY <2>3, <3>3 DEF HandleArmed, StayArmed
        <3> QED
            BY <2>3, <3>1, <3>2, <3>3 DEF HandleArmed
    <2>4. ASSUME NEW ahead, NEW unusable, HandleLaunching(ahead, unusable)
          PROVE  ClockInv'
        BY <2>4 DEF HandleLaunching, Go, AwaitRoles, LaunchTimeout
    <2>5. ASSUME NEW sp, NEW unusable, NEW moved, HandleActive(sp, unusable, moved)
          PROVE  ClockInv'
        <3>1. state = "ACTIVE" /\ state' \in {"ACTIVE", "FINISHED"}
            BY <2>5, ActiveShape DEF FinalizeAbandon, Score, Finish,
                                     FinalizeSession, RaceOn
        <3>2. age' = age \/ age' = Start("last_overtake_point_ts", age)
            BY <2>5, ActiveShape DEF Score, Finish, RaceOn
        <3> QED
            BY <3>1, <3>2, <1>0
    <2> QED
        BY <1>1, <2>1, <2>2, <2>3, <2>4, <2>5, IdleClocks DEF Update
<1>2. CASE HudDisconnected
    BY <1>2 DEF HudDisconnected, Dissolve
<1>3. ASSUME NEW p \in Players, Disconnect(p) PROVE ClockInv'
    BY <1>3 DEF Disconnect, FinalizeAbandon
<1>4. CASE LapCompleted \/ ModeOff \/ UNCHANGED vars
    BY <1>4 DEF LapCompleted, ModeOff, vars
<1>5. CASE Tick
    <2>1. \A t \in Timers : age'[t] # Off <=> age[t] # Off
        BY <1>0, <1>5, ThresholdType DEF Tick, Older
    <2> QED
        BY <1>5, <2>1 DEF Tick
<1> QED
    BY <1>1, <1>2, <1>3, <1>4, <1>5 DEF Next

(* No phase before LAUNCHING is entered or left with the launch clock      *)
(* running, through aborts, launch timeouts and dissolutions: the launch   *)
(* timeout of _handle_armed can never fire.                                *)
THEOREM LaunchClock == Spec => []LaunchClockStopped
<1>1. Init => ClockInv
    BY TimerNames DEF Init, ClockInv, LaunchClockStopped, SeparatedOnlyWhenIdle,
                      Running, Start, Off
<1> QED
    BY <1>1, TypeCorrect, NextClocks, PTL DEF Spec, ClockInv

(* A pair that is arming or racing is never dissolved as separated: the    *)
(* clock of _maybe_dissolve_separated_idle runs only in an idle pair.      *)
THEOREM SeparatedClock == Spec => []SeparatedOnlyWhenIdle
<1>1. Init => ClockInv
    BY TimerNames DEF Init, ClockInv, LaunchClockStopped, SeparatedOnlyWhenIdle,
                      Running, Start, Off
<1> QED
    BY <1>1, TypeCorrect, NextClocks, PTL DEF Spec, ClockInv

-----------------------------------------------------------------------------
(* The score and the outcome.  The invariants of PairBattle are not        *)
(* inductive alone: Go enters ACTIVE with whatever is on the board, so it  *)
(* must be known that nothing was scored or sent while the pair is locked  *)
(* and the race has not begun.                                             *)

FreshBoard == locked /\ state \in PreActive => \A p \in Players : score[p] = 0
Undecided == locked /\ state # "FINISHED" => winner = None /\ dispatched = <<>>

ScoreInv == /\ FreshBoard /\ Undecided /\ ScoreAlternates /\ IdFromArmedOn
            /\ OutcomeOnce /\ FinishMargin /\ WinNeedsRace

(* A step that leaves the board, the roles and the outcome alone keeps the *)
(* invariant unless it enters ACTIVE, takes up a released pair, or forgets *)
(* the id of a battle.                                                     *)
LEMMA BoardUntouched ==
    ASSUME ScoreInv,
           UNCHANGED <<lead, overtake_chase_scored, score, farLap, farMetres, endVars>>,
           locked' => locked,
           \/ state' = state
           \/ state' \in PreActive /\ (locked' => state \in PreActive),
           IdFromArmedOn'
    PROVE  ScoreInv'
<1>1. FreshBoard' /\ Undecided'
    BY DEF ScoreInv, FreshBoard, Undecided, endVars, PreActive
<1>2. ScoreAlternates'
    BY DEF ScoreInv, ScoreAlternates, endVars, PreActive, Opponent
<1>3. OutcomeOnce' /\ WinNeedsRace'
    BY DEF ScoreInv, OutcomeOnce, WinNeedsRace, HasPoints, endVars
<1>4. FinishMargin'
    BY DEF ScoreInv, FinishMargin, endVars, Opponent
<1> QED
    BY <1>1, <1>2, <1>3, <1>4 DEF ScoreInv

(* The steps before the race.                                              *)
LEMMA PreActiveScores ==
    ASSUME ScoreInv, locked, NEW gap, NEW sp,
           HandleIdle(gap, sp) \/ HandleArmed(gap, sp)
    PROVE  ScoreInv'
<1>1. UNCHANGED <<lead, overtake_chase_scored, score, farLap, farMetres, endVars>>
    BY DEF HandleIdle, ArmingAborted, NotArmable, ArmingTolerated, ArmingCountdown,
           Arm, MaybeDissolveSeparated, Dissolve, HandleArmed, AbortPrestart,
           Launch, StayArmed, runVars
<1>2. state \in PreActive /\ state' \in PreActive
    BY DEF HandleIdle, ArmingAborted, NotArmable, ArmingTolerated, ArmingCountdown,
           Arm, MaybeDissolveSeparated, Dissolve, HandleArmed, AbortPrestart,
           Launch, StayArmed, PreActive
<1>3. state' \in {"ARMED", "LAUNCHING"} => battle_id'
    BY DEF ScoreInv, IdFromArmedOn, HandleIdle, ArmingAborted, NotArmable, ArmingTolerated, ArmingCountdown,
           Arm, MaybeDissolveSeparated, Dissolve, HandleArmed, AbortPrestart,
           Launch, StayArmed
<1>4. IdFromArmedOn'
    BY <1>2, <1>3 DEF IdFromArmedOn, PreActive
<1> QED
    BY <1>1, <1>2, <1>4, BoardUntouched

(* The board right after GO is 0-0 and nobody has overtaken.               *)
LEMMA LaunchScores ==
    ASSUME TypeOK, ScoreInv, locked, NEW ahead \in Players \cup {None}, NEW unusable,
           HandleLaunching(ahead, unusable)
    PROVE  ScoreInv'
<1>1. CASE Go(ahead, unusable)
    <2>1. /\ lead' \in Players /\ score' = score /\ overtake_chase_scored' = FALSE
          /\ state' = "ACTIVE" /\ locked' /\ winner' = None /\ dispatched' = <<>>
          /\ \A p \in Players : score[p] = 0
        BY <1>1 DEF Go, ScoreInv, Undecided, FreshBoard, HandleLaunching, PreActive,
                    endVars, lockVars
    <2>2. FreshBoard' /\ Undecided' /\ WinNeedsRace' /\ OutcomeOnce' /\ FinishMargin'
        BY <2>1 DEF FreshBoard, Undecided, WinNeedsRace, OutcomeOnce, FinishMargin,
                    PreActive
    <2>3. ScoreAlternates'
        BY <2>1, OpponentType DEF ScoreAlternates, Opponent
    <2>4. IdFromArmedOn'
        BY <1>1 DEF Go, HandleLaunching, ScoreInv, IdFromArmedOn
    <2> QED
        BY <2>2, <2>3, <2>4 DEF ScoreInv
<1>2. CASE AwaitRoles(ahead, unusable) \/ LaunchTimeout(ahead, unusable)
    <2>1. /\ UNCHANGED <<lead, overtake_chase_scored, score, farLap, farMetres, endVars>>
          /\ state \in PreActive /\ state' \in PreActive
          /\ UNCHANGED <<battle_id, locked>>
          /\ state' \in {"ARMED", "LAUNCHING"} => state = "LAUNCHING"
        BY <1>2 DEF AwaitRoles, LaunchTimeout, HandleLaunching, runVars, lockVars,
                    PreActive
    <2>2. IdFromArmedOn'
        BY <2>1 DEF PreActive, ScoreInv, IdFromArmedOn
    <2> QED
        BY <2>1, <2>2, BoardUntouched
<1> QED
    BY <1>1, <1>2 DEF HandleLaunching

(* An abandon sends at most its own outcome, which names the winner, and   *)
(* only with points or distance on the board.                              *)
LEMMA AbandonScores ==
    ASSUME NEW w \in Players, NEW byPosition \in BOOLEAN, NEW lap, NEW metres,
           lap \subseteq farLap', metres \subseteq farMetres',
           dispatched = <<>>, FinalizeAbandon(w, byPosition, lap, metres),
           UNCHANGED <<score, battle_id>>, battle_id
    PROVE  ScoreInv'
<1>1. /\ state' = "FINISHED"
      /\ \/ winner' = None /\ dispatched' = <<>>
         \/ /\ winner' = w
            /\ dispatched' = <<[status |-> "finished", winner |-> w, by |-> "abandon"]>>
            /\ HasPoints \/ lap \cup metres # {}
    BY DEF FinalizeAbandon, Dispatch
<1>2. FreshBoard' /\ Undecided' /\ ScoreAlternates' /\ IdFromArmedOn'
    BY <1>1 DEF FreshBoard, Undecided, ScoreAlternates, IdFromArmedOn, PreActive
<1>3. OutcomeOnce' /\ FinishMargin'
    <2>1. CASE dispatched' = <<>>
        BY <2>1 DEF OutcomeOnce, FinishMargin
    <2>2. CASE dispatched' # <<>>
        <3> DEFINE out == [status |-> "finished", winner |-> w, by |-> "abandon"]
        <3>1. out.winner = w /\ out.by = "abandon"
            OBVIOUS
        <3>2. winner' = w /\ dispatched' = <<out>>
            BY <1>1, <2>2
        <3> HIDE DEF out
        <3>3. Len(dispatched') = 1 /\ \A i \in 1 .. 1 : dispatched'[i] = out
            BY <3>2
        <3> QED
            BY <3>1, <3>2, <3>3 DEF OutcomeOnce, FinishMargin
    <2> QED
        BY <2>1, <2>2
<1>4. WinNeedsRace'
    BY <1>1 DEF WinNeedsRace, HasPoints
<1> QED
    BY <1>2, <1>3, <1>4 DEF ScoreInv

(* Adding a point to one driver.                                           *)
LEMMA AddPointValue ==
    ASSUME TypeOK, NEW p \in Players
    PROVE  /\ AddPoint(p)[p] = score[p] + 1
           /\ AddPoint(p)[Opponent(p)] = score[Opponent(p)]
BY OpponentType DEF AddPoint, TypeOK

(* The opponent's opponent.                                                *)
LEMMA OpponentTwice ==
    ASSUME NEW p \in Players PROVE Opponent(Opponent(p)) = p
BY PairAssumption DEF Opponent, Players, PairAssumption

(* An overtake by the chase, or a recovery by the lead.                    *)
LEMMA PointScores ==
    ASSUME TypeOK, ScoreInv, state = "ACTIVE", locked,
           NEW gap, NEW ahead, NEW byPosition, Score(gap, ahead, byPosition),
           UNCHANGED <<lead, battle_id, lockVars>>
    PROVE  ScoreInv'
<1>0. lead \in Players /\ state' = "ACTIVE" /\ winner' = None /\ dispatched' = <<>>
    BY DEF ScoreInv, ScoreAlternates, Undecided, Score, endVars
<1>1. FreshBoard' /\ Undecided' /\ OutcomeOnce' /\ FinishMargin' /\ WinNeedsRace'
    BY <1>0 DEF FreshBoard, Undecided, OutcomeOnce, FinishMargin, WinNeedsRace, PreActive
<1>2. IdFromArmedOn'
    BY DEF ScoreInv, IdFromArmedOn
<1>3. ScoreAlternates'
    <2>1. ahead = NextScorer /\ score' = AddPoint(ahead)
          /\ overtake_chase_scored' = ~overtake_chase_scored
        BY DEF Score
    <2>2. score[lead] \in Nat /\ score[Opponent(lead)] = score[lead] + (IF overtake_chase_scored THEN 1 ELSE 0)
        BY <1>0, OpponentType DEF ScoreInv, ScoreAlternates, TypeOK
    <2>3. CASE overtake_chase_scored
        <3>1. score'[lead] = score[lead] + 1 /\ score'[Opponent(lead)] = score[Opponent(lead)]
            BY <1>0, <2>1, <2>3, AddPointValue DEF NextScorer
        <3>2. overtake_chase_scored' = FALSE /\ lead' = lead
            BY <2>1, <2>3
        <3> QED
            BY <1>0, <2>2, <2>3, <3>1, <3>2 DEF ScoreAlternates
    <2>4. CASE ~overtake_chase_scored
        <3>1. /\ score'[Opponent(lead)] = score[Opponent(lead)] + 1
              /\ score'[lead] = score[lead]
            BY <1>0, <2>1, <2>4, AddPointValue, OpponentType, OpponentTwice DEF NextScorer
        <3>2. overtake_chase_scored' = TRUE /\ lead' = lead
            BY <2>1, <2>4
        <3> QED
            BY <1>0, <2>2, <2>4, <3>1, <3>2 DEF ScoreAlternates
    <2> QED
        BY <2>3, <2>4
<1> QED
    BY <1>1, <1>2, <1>3 DEF ScoreInv

(* The finish: the board is level or one ahead for the chase, the finish   *)
(* point moves it by one, and the outcome follows the board.               *)
LEMMA FinishScores ==
    ASSUME TypeOK, ScoreInv, state = "ACTIVE", locked,
           NEW gap, NEW ahead \in Players \cup {None}, NEW byPosition,
           Finish(gap, ahead, byPosition), UNCHANGED <<lead, battle_id, lockVars>>
    PROVE  ScoreInv'
<1> DEFINE isDraw == gap < FINISH_POINT_MIN_GAP \/ ahead = None
           sc == IF isDraw THEN score ELSE AddPoint(ahead)
           out == [status |-> IF Leader(sc) = None THEN "draw" ELSE "finished",
                   winner |-> Leader(sc), by |-> "finish"]
<1>0. /\ lead \in Players /\ winner = None /\ dispatched = <<>> /\ battle_id
      /\ score[lead] \in Nat /\ score[Opponent(lead)] \in Nat
      /\ score[Opponent(lead)] - score[lead] \in {0, 1}
    BY OpponentType DEF ScoreInv, ScoreAlternates, Undecided, IdFromArmedOn, TypeOK
<1>1. /\ state' = "FINISHED" /\ score' = sc /\ winner' = Leader(sc)
      /\ dispatched' = <<out>> /\ UNCHANGED overtake_chase_scored
    <2>1. FinalizeSession(sc, isDraw) /\ UNCHANGED overtake_chase_scored
        BY DEF Finish
    <2> HIDE DEF sc, isDraw
    <2> QED
        BY <1>0, <2>1 DEF FinalizeSession, Dispatch
<1>2. FreshBoard' /\ Undecided' /\ ScoreAlternates' /\ IdFromArmedOn'
    BY <1>1, <1>0 DEF FreshBoard, Undecided, ScoreAlternates, IdFromArmedOn, PreActive
<1>3. OutcomeOnce'
    BY <1>1 DEF OutcomeOnce
<1>4. /\ sc \in [Players -> Nat]
      /\ sc[Opponent(lead)] - sc[lead] \in -1 .. 2
      /\ \A p \in Players : sc[p] >= score[p]
    <2>1. CASE isDraw
        BY <1>0, <2>1 DEF TypeOK
    <2>2. CASE ~isDraw
        <3>1. ahead \in Players /\ (ahead = lead \/ ahead = Opponent(lead))
            BY <1>0, <2>2, PairAssumption DEF Opponent, Players, PairAssumption
        <3>2. sc = AddPoint(ahead)
            BY <2>2
        <3>3. sc \in [Players -> Nat]
            BY <3>2, AddPointType DEF TypeOK
        <3>4. CASE ahead = lead
            <4>1. sc[lead] = score[lead] + 1 /\ sc[Opponent(lead)] = score[Opponent(lead)]
                BY <3>1, <3>2, <3>4, AddPointValue
            <4> HIDE DEF sc
            <4> QED
                BY <1>0, <3>3, <4>1, OpponentType, PairAssumption
                DEF Opponent, Players, TypeOK
        <3>5. CASE ahead = Opponent(lead)
            <4>1. sc[Opponent(lead)] = score[Opponent(lead)] + 1 /\ sc[lead] = score[lead]
                BY <1>0, <3>1, <3>2, <3>5, AddPointValue, OpponentTwice
            <4> HIDE DEF sc
            <4> QED
                BY <1>0, <3>3, <4>1, OpponentType, PairAssumption
                DEF Opponent, Players, TypeOK
        <3> QED
            BY <3>1, <3>4, <3>5
    <2> QED
        BY <2>1, <2>2
<1>5. /\ Leader(sc) = None <=> sc[car1] = sc[car2]
      /\ Leader(sc) # None => Leader(sc) \in Players /\ sc[Leader(sc)] > sc[Opponent(Leader(sc))]
    <2> HIDE DEF sc
    <2> QED
        BY <1>4, PairAssumption DEF Leader, Players, Opponent, PairAssumption
<1>6. FinishMargin'
    <2> HIDE DEF sc, isDraw
    <2>1. (sc[Opponent(lead)] - sc[lead] = 0) <=> sc[car1] = sc[car2]
        BY <1>0, <1>4 DEF Players, Opponent
    <2> QED
        BY <1>1, <1>4, <1>5, <2>1 DEF FinishMargin, Opponent
<1>7. WinNeedsRace'
    <2> HIDE DEF sc, isDraw
    <2>1. Leader(sc) # None => \E p \in Players : sc[p] > 0
        BY <1>4, <1>5, OpponentType
    <2> QED
        BY <1>1, <2>1 DEF WinNeedsRace, HasPoints
<1> QED
    BY <1>2, <1>3, <1>6, <1>7 DEF ScoreInv

(* Every packet of a race.                                                 *)
LEMMA ActiveScores ==
    ASSUME TypeOK, ScoreInv, locked, NEW sp, NEW unusable \in BOOLEAN, NEW moved,
           HandleActive(sp, unusable, moved)
    PROVE  ScoreInv'
<1>1. /\ state = "ACTIVE"
      /\ farLap' = NewLap(unusable, moved) /\ farMetres' = NewMetres(unusable, moved)
      /\ UNCHANGED <<lead, battle_id, lockVars>>
      /\ dispatched = <<>> /\ winner = None /\ battle_id
    BY ActiveShape DEF ScoreInv, Undecided, IdFromArmedOn
<1>2. ASSUME NEW w \in Players,
             FinalizeAbandon(w, ByPosition(unusable), NewLap(unusable, moved),
                             NewMetres(unusable, moved)),
             UNCHANGED <<age, score, overtake_chase_scored>>
      PROVE  ScoreInv'
    <2>1. ByPosition(unusable) \in BOOLEAN
        BY DEF TypeOK, ByPosition
    <2> QED
        BY <1>1, <1>2, <2>1, AbandonScores
<1>3. ASSUME NEW gap, NEW ahead \in Players \cup {None}, NEW byPosition,
             Score(gap, ahead, byPosition) \/ Finish(gap, ahead, byPosition)
               \/ RaceOn(gap, ahead, byPosition)
      PROVE  ScoreInv'
    <2>1. CASE RaceOn(gap, ahead, byPosition)
        <3>1. /\ UNCHANGED <<state, locked, lead, battle_id, score, winner, dispatched,
                             overtake_chase_scored>>
            BY <1>1, <2>1 DEF RaceOn, endVars, lockVars
        <3> QED
            BY <1>1, <3>1 DEF ScoreInv, FreshBoard, Undecided, ScoreAlternates,
                IdFromArmedOn, OutcomeOnce, FinishMargin, WinNeedsRace, HasPoints,
                PreActive
    <2> QED
        BY <1>1, <1>3, <2>1, PointScores, FinishScores
<1> QED
    BY <1>2, <1>3, ActiveShape

(* Every step keeps the invariant of the score and the outcome.            *)
LEMMA NextScores == TypeOK /\ ScoreInv /\ [Next]_vars => ScoreInv'
<1> SUFFICES ASSUME TypeOK, ScoreInv, [Next]_vars PROVE ScoreInv'
    OBVIOUS
<1>1. CASE Update
    <2>0. locked
        BY <1>1 DEF Update
    <2>1. CASE HandleFinished \/ PreActiveTimeout
        <3>1. /\ UNCHANGED <<lead, overtake_chase_scored, score, farLap, farMetres, endVars>>
              /\ state' = "IDLE" /\ ~locked'
            BY <2>1 DEF HandleFinished, PreActiveTimeout, Dissolve, Release
        <3>2. IdFromArmedOn'
            BY <3>1 DEF IdFromArmedOn
        <3> QED
            BY <3>1, <3>2, BoardUntouched DEF PreActive
    <2> QED
        BY <1>1, <2>0, <2>1, PreActiveScores, LaunchScores, ActiveScores DEF Update
<1>2. CASE HudDisconnected
    <2>1. /\ UNCHANGED <<lead, overtake_chase_scored, score, farLap, farMetres, endVars>>
          /\ state' = "IDLE" /\ ~locked' /\ locked
        BY <1>2 DEF HudDisconnected, Dissolve, Release
    <2>2. IdFromArmedOn'
        BY <2>1 DEF IdFromArmedOn
    <2> QED
        BY <2>1, <2>2, BoardUntouched DEF PreActive
<1>3. ASSUME NEW p \in Players, Disconnect(p) PROVE ScoreInv'
    <2>1. CASE state = "ACTIVE"
        <3>1. /\ dispatched = <<>> /\ battle_id
              /\ FinalizeAbandon(Opponent(p), FALSE, farLap \ {p}, farMetres \ {p})
              /\ UNCHANGED <<score, battle_id, farLap, farMetres>>
            BY <1>3, <2>1 DEF Disconnect, ScoreInv, Undecided, IdFromArmedOn, runVars
        <3>2. farLap \ {p} \subseteq farLap' /\ farMetres \ {p} \subseteq farMetres'
            BY <3>1
        <3> QED
            BY <3>1, <3>2, OpponentType, AbandonScores
    <2>2. CASE state # "ACTIVE"
        <3>1. /\ UNCHANGED <<lead, overtake_chase_scored, score, farLap, farMetres, endVars>>
              /\ state' = state /\ battle_id' = battle_id /\ locked
            BY <1>3, <2>2 DEF Disconnect, runVars
        <3>2. IdFromArmedOn'
            BY <3>1 DEF ScoreInv, IdFromArmedOn
        <3> QED
            BY <3>1, <3>2, BoardUntouched
    <2> QED
        BY <2>1, <2>2
<1>4. CASE LapCompleted \/ ModeOff \/ Tick \/ UNCHANGED vars
    <2>1. /\ UNCHANGED <<lead, overtake_chase_scored, score, farLap, farMetres, endVars>>
          /\ state' = state /\ battle_id' = battle_id /\ (locked' => locked)
        BY <1>4 DEF LapCompleted, ModeOff, Tick, vars, runVars, lockVars
    <2>2. IdFromArmedOn'
        BY <2>1 DEF ScoreInv, IdFromArmedOn
    <2> QED
        BY <2>1, <2>2, BoardUntouched
<1> QED
    BY <1>1, <1>2, <1>3, <1>4 DEF Next

(* The board of a new pair.                                                *)
LEMMA InitScores == Init => ScoreInv
BY DEF Init, ScoreInv, FreshBoard, Undecided, ScoreAlternates, IdFromArmedOn,
       OutcomeOnce, FinishMargin, WinNeedsRace, PreActive

(* In a race the chase is level with the lead or one ahead, whatever the   *)
(* packets, gaps and cooldowns: overtakes and recoveries alternate.        *)
THEOREM Alternation == Spec => []ScoreAlternates
BY InitScores, NextScores, TypeCorrect, PTL DEF Spec, ScoreInv

(* A battle decided on the line follows the board, within two points for   *)
(* the chase and one for the lead.                                         *)
THEOREM Margin == Spec => []FinishMargin
BY InitScores, NextScores, TypeCorrect, PTL DEF Spec, ScoreInv

(* At most one outcome of a battle is sent, and the battle keeps it.       *)
THEOREM SingleOutcome == Spec => []OutcomeOnce
BY InitScores, NextScores, TypeCorrect, PTL DEF Spec, ScoreInv

(* No handler loses the id without which the outcome would be dropped.     *)
THEOREM IdKept == Spec => []IdFromArmedOn
BY InitScores, NextScores, TypeCorrect, PTL DEF Spec, ScoreInv

(* Nobody wins a battle without points on the board or distance driven.    *)
THEOREM NoWalkover == Spec => []WinNeedsRace
BY InitScores, NextScores, TypeCorrect, PTL DEF Spec, ScoreInv

-----------------------------------------------------------------------------
(* The overlays.  A publish without force is dropped while the cancel hold *)
(* lasts, and the launch timeout publishes without force: it needs the     *)
(* hold to be over, which it is because the countdown that led to the      *)
(* launch began after the cancellation and lasts longer than the hold.     *)

HoldInv ==
    /\ state = "IDLE" /\ InCountdown /\ Running("hud_cancel_hold") =>
         \/ age["hud_cancel_hold"] >= HUD_BATTLE_CLEAR_DELAY
         \/ age["hud_cancel_hold"] >= age["arm_proximity_since"]
    /\ state \in {"ARMED", "LAUNCHING"} => ~HudHeld

(* HudTracksState with its cases as implications.                          *)
HudByState ==
    locked => /\ state = "IDLE" /\ InCountdown => hud = "arming"
              /\ state = "IDLE" /\ ~InCountdown => hud \in {"pairing", "cancelled"}
              /\ state = "ARMED" => hud = "armed"
              /\ state = "LAUNCHING" => hud = "launching"
              /\ state = "ACTIVE" => hud = "active"
              /\ state = "FINISHED" => hud \in {"finished", "cancelled"}

LEMMA HudCases == state \in States => (HudTracksState <=> HudByState)
BY DEF HudTracksState, HudByState, States, PreActive

(* The hold in terms of the clock.                                         *)
LEMMA DelayType ==
    /\ HUD_BATTLE_CLEAR_DELAY \in Nat /\ ARM_SUSTAINED_PROXIMITY \in Nat
    /\ Threshold["hud_cancel_hold"] = HUD_BATTLE_CLEAR_DELAY
    /\ Threshold["arm_proximity_since"] = ARM_SUSTAINED_PROXIMITY
BY ThresholdType, TimerNames DEF Threshold

(* Arming: the HUD and the hold.                                           *)
LEMMA IdleHud ==
    ASSUME TypeOK, HoldInv, HudByState, locked,
           HUD_BATTLE_CLEAR_DELAY <= ARM_SUSTAINED_PROXIMITY,
           NEW gap, NEW sp, HandleIdle(gap, sp)
    PROVE  HoldInv' /\ HudByState'
<1>0. age \in [Timers -> Int] /\ state = "IDLE"
    BY DEF TypeOK, HandleIdle
<1> USE <1>0, TimerNames, DelayType
    DEF HoldInv, HudByState, InCountdown, Running, Start, Stop, ArmTimers,
        RunTimers, MaybeDissolveSeparated, Dissolve, Release, lockVars, HudHeld, Off
<1>1. CASE ArmingAborted(gap, sp)
    BY <1>1 DEF ArmingAborted
<1>2. CASE NotArmable(gap, sp)
    BY <1>2 DEF NotArmable, PublishUnforced
<1>3. CASE ArmingTolerated(gap, sp)
    BY <1>3 DEF ArmingTolerated
<1>4. CASE ArmingCountdown(gap, sp)
    <2>1. state' = "IDLE" /\ hud' = "arming" /\ age'["arm_proximity_since"] # Off
        BY <1>4 DEF ArmingCountdown
    <2>2. age'["hud_cancel_hold"] = age["hud_cancel_hold"]
        BY <1>4 DEF ArmingCountdown
    <2>3. \/ age'["arm_proximity_since"] = 0
          \/ InCountdown /\ age'["arm_proximity_since"] = age["arm_proximity_since"]
        BY <1>4 DEF ArmingCountdown
    <2>4. age["hud_cancel_hold"] \in -1 .. HUD_BATTLE_CLEAR_DELAY + 1
        BY DEF TypeOK
    <2> QED
        BY <2>1, <2>2, <2>3, <2>4
<1>5. CASE Arm(gap, sp)
    <2>1. /\ InCountdown /\ age["arm_proximity_since"] >= ARM_SUSTAINED_PROXIMITY
          /\ state' = "ARMED" /\ hud' = "armed"
          /\ age'["hud_cancel_hold"] = age["hud_cancel_hold"]
        BY <1>5 DEF Arm, Reached
    <2>2. age["hud_cancel_hold"] \in Int /\ age["arm_proximity_since"] \in Int
        OBVIOUS
    <2> QED
        BY <2>1, <2>2
<1> QED
    BY <1>1, <1>2, <1>3, <1>4, <1>5 DEF HandleIdle

(* Every step keeps the HUD in line with the state.                        *)
LEMMA NextHud ==
    ASSUME HUD_BATTLE_CLEAR_DELAY <= ARM_SUSTAINED_PROXIMITY
    PROVE  TypeOK /\ HoldInv /\ HudByState /\ [Next]_vars => HoldInv' /\ HudByState'
<1> SUFFICES ASSUME TypeOK, HoldInv, HudByState, [Next]_vars
             PROVE  HoldInv' /\ HudByState'
    OBVIOUS
<1>0. age \in [Timers -> Int] /\ \A t \in Timers : age[t] \in -1 .. Threshold[t] + 1
    BY DEF TypeOK, Off
<1> USE <1>0, TimerNames DEF HoldInv, HudByState, InCountdown, Running, Start, Stop,
                             ArmTimers, RunTimers, HudHeld, Off
<1>1. CASE Update
    <2>0. locked
        BY <1>1 DEF Update
    <2>1. CASE HandleFinished \/ PreActiveTimeout
        BY <2>1 DEF HandleFinished, PreActiveTimeout, Dissolve, Release
    <2>2. ASSUME NEW gap, NEW sp, HandleArmed(gap, sp) PROVE HoldInv' /\ HudByState'
        <3>1. CASE AbortPrestart(gap, sp)
            BY <2>2, <3>1 DEF HandleArmed, AbortPrestart
        <3>2. CASE Launch(gap, sp)
            BY <2>2, <3>2 DEF HandleArmed, Launch
        <3>3. CASE StayArmed(gap, sp)
            BY <2>2, <3>3, <2>0 DEF HandleArmed, StayArmed, PublishUnforced
        <3> QED
            BY <2>2, <3>1, <3>2, <3>3 DEF HandleArmed
    <2>3. ASSUME NEW ahead, NEW unusable, HandleLaunching(ahead, unusable)
          PROVE  HoldInv' /\ HudByState'
        <3>1. CASE Go(ahead, unusable)
            BY <3>1 DEF Go
        <3>2. CASE AwaitRoles(ahead, unusable)
            BY <2>3, <3>2 DEF HandleLaunching, AwaitRoles
        <3>3. CASE LaunchTimeout(ahead, unusable)
            BY <2>3, <3>3 DEF HandleLaunching, LaunchTimeout, PublishUnforced
        <3> QED
            BY <2>3, <3>1, <3>2, <3>3 DEF HandleLaunching
    <2>4. ASSUME NEW sp, NEW unusable, NEW moved, HandleActive(sp, unusable, moved)
          PROVE  HoldInv' /\ HudByState'
        <3>1. state = "ACTIVE" /\ \/ state' = "ACTIVE" /\ hud' \in {"active", hud}
                                  \/ state' = "FINISHED" /\ hud' \in {"finished", "cancelled"}
            BY <2>4, ActiveShape DEF FinalizeAbandon, Score, Finish, FinalizeSession,
                                     RaceOn, PublishUnforced
        <3> QED
            BY <2>0, <3>1
    <2> QED
        BY <1>1, <2>0, <2>1, <2>2, <2>3, <2>4, IdleHud DEF Update
<1>2. CASE HudDisconnected
    BY <1>2 DEF HudDisconnected, Dissolve, Release
<1>3. ASSUME NEW p \in Players, Disconnect(p) PROVE HoldInv' /\ HudByState'
    BY <1>3 DEF Disconnect, FinalizeAbandon, Release
<1>4. CASE LapCompleted \/ ModeOff \/ UNCHANGED vars
    BY <1>4 DEF LapCompleted, ModeOff, vars, hudVars, lockVars
<1>5. CASE Tick
    <2>1. \A t \in Timers : (age'[t] # -1 <=> age[t] # -1) /\ age'[t] >= age[t]
                              /\ (age'[t] <= age[t] + 1)
                              /\ (age[t] # -1 /\ age[t] <= Threshold[t] => age'[t] = age[t] + 1)
        BY <1>5, ThresholdType DEF Tick, Older
    <2>2. UNCHANGED <<state, locked, hud>>
        BY <1>5 DEF Tick, hudVars, lockVars
    <2>3. age'["hud_cancel_hold"] \in Int /\ age'["arm_proximity_since"] \in Int
        BY <1>5, ThresholdType DEF Tick, Older
    <2> QED
        BY <2>1, <2>2, <2>3, DelayType
<1> QED
    BY <1>1, <1>2, <1>3, <1>4, <1>5 DEF Next

(* While the clear delay is not longer than the arming countdown (both are *)
(* 5 s by default) the overlays of a locked pair always show its phase: no *)
(* publish that the cancel hold drops leaves a stale phase behind.         *)
THEOREM HudFollows ==
    ASSUME HUD_BATTLE_CLEAR_DELAY <= ARM_SUSTAINED_PROXIMITY
    PROVE  Spec => []HudTracksState
<1>1. Init => HoldInv /\ HudByState
    BY TimerNames DEF Init, HoldInv, HudByState, InCountdown, Running, Start, Off
<1>2. TypeOK /\ HudByState => HudTracksState
    BY HudCases DEF TypeOK
<1>3. TypeOK /\ HoldInv /\ HudByState /\ [Next]_vars => HoldInv' /\ HudByState'
    BY NextHud
<1> QED
    BY <1>1, <1>2, <1>3, TypeCorrect, PTL DEF Spec

-----------------------------------------------------------------------------
(* The result *)

(* Every step keeps the overlays' result and the stream's in agreement.    *)
LEMMA NextResult ==
    ASSUME ~BATTLE_REQUIRE_HUD
    PROVE  TypeOK /\ ScoreInv /\ ResultShown /\ [Next]_vars => ResultShown'
<1> SUFFICES ASSUME TypeOK, ScoreInv, ResultShown, [Next]_vars PROVE ResultShown'
    OBVIOUS
<1> USE DEF ResultShown
<1>1. CASE Update
    <2>0. locked /\ (state # "FINISHED" => dispatched = <<>> /\ hud # "finished")
        BY <1>1 DEF Update, ScoreInv, Undecided
    <2>1. CASE HandleFinished
        BY <2>1 DEF HandleFinished, endVars, hudVars
    <2>2. CASE PreActiveTimeout
        BY <2>0, <2>2 DEF PreActiveTimeout, Dissolve, endVars, PreActive
    <2>3. ASSUME NEW gap, NEW sp, HandleIdle(gap, sp) \/ HandleArmed(gap, sp)
          PROVE  ResultShown'
        BY <2>0, <2>3 DEF HandleIdle, ArmingAborted, NotArmable, ArmingTolerated,
            ArmingCountdown, Arm, MaybeDissolveSeparated, Dissolve, HandleArmed,
            AbortPrestart, Launch, StayArmed, PublishUnforced, endVars, hudVars
    <2>4. ASSUME NEW ahead, NEW unusable, HandleLaunching(ahead, unusable)
          PROVE  ResultShown'
        BY <2>0, <2>4 DEF HandleLaunching, Go, AwaitRoles, LaunchTimeout,
                          PublishUnforced, endVars
    <2>5. ASSUME NEW sp, NEW unusable, NEW moved, HandleActive(sp, unusable, moved)
          PROVE  ResultShown'
        <3>1. state = "ACTIVE" /\ battle_id /\ battle_id' = battle_id
            BY <2>5, ActiveShape DEF ScoreInv, IdFromArmedOn
        <3>2. \A o : Append(<<>>, o) # <<>>
            OBVIOUS
        <3>3. ASSUME NEW w, NEW byPosition, NEW lap, NEW metres,
                     FinalizeAbandon(w, byPosition, lap, metres)
              PROVE  ResultShown'
            BY <2>0, <3>1, <3>2, <3>3 DEF FinalizeAbandon, Dispatch
        <3>4. ASSUME NEW gap, NEW ahead, NEW byPosition,
                     Score(gap, ahead, byPosition) \/ RaceOn(gap, ahead, byPosition)
              PROVE  ResultShown'
            BY <2>0, <3>1, <3>4 DEF Score, RaceOn, PublishUnforced, endVars
        <3>5. ASSUME NEW gap, NEW ahead, NEW byPosition, Finish(gap, ahead, byPosition)
              PROVE  ResultShown'
            BY <2>0, <3>1, <3>2, <3>5 DEF Finish, FinalizeSession, Dispatch
        <3> QED
            BY <2>5, <3>3, <3>4, <3>5, ActiveShape
    <2> QED
        BY <1>1, <2>1, <2>2, <2>3, <2>4, <2>5 DEF Update
<1>2. CASE HudDisconnected
    BY <1>2 DEF HudDisconnected
<1>3. ASSUME NEW p \in Players, Disconnect(p) PROVE ResultShown'
    <2>1. \A o : Append(<<>>, o) # <<>>
        OBVIOUS
    <2>2. state = "ACTIVE" => battle_id /\ dispatched = <<>>
        BY <1>3 DEF Disconnect, ScoreInv, IdFromArmedOn, Undecided
    <2> QED
        BY <1>3, <2>1, <2>2 DEF Disconnect, FinalizeAbandon, Dispatch, endVars, hudVars
<1>4. CASE LapCompleted \/ ModeOff \/ Tick \/ UNCHANGED vars
    BY <1>4 DEF LapCompleted, ModeOff, Tick, vars, endVars, hudVars
<1> QED
    BY <1>1, <1>2, <1>3, <1>4 DEF Next

(* Without the overlay gate the overlays show a result exactly when one    *)
(* was sent to the event stream.                                           *)
THEOREM ShownIsSent == ASSUME ~BATTLE_REQUIRE_HUD PROVE Spec => []ResultShown
<1>1. Init => ResultShown
    BY DEF Init, ResultShown
<1>2. TypeOK /\ ScoreInv /\ ResultShown /\ [Next]_vars => ResultShown'
    BY NextResult
<1> QED
    BY <1>1, <1>2, InitScores, NextScores, TypeCorrect, PTL DEF Spec

(* Once a battle is over no packet, lap line or disconnect changes its     *)
(* score, winner or outcome.                                               *)
THEOREM FrozenResult == Spec => ResultFrozen
<1>1. ASSUME [Next]_vars, state = "FINISHED"
      PROVE  UNCHANGED <<score, winner, dispatched>>
    <2>1. CASE Update
        BY <1>1, <2>1, ActiveShape DEF Update, HandleFinished, PreActiveTimeout, PreActive,
            HandleIdle, HandleArmed, HandleLaunching, endVars
    <2>2. CASE HudDisconnected
        BY <2>2 DEF HudDisconnected, Dissolve, endVars
    <2>3. ASSUME NEW p \in Players, Disconnect(p)
          PROVE  UNCHANGED <<score, winner, dispatched>>
        BY <1>1, <2>3 DEF Disconnect, runVars, endVars
    <2>4. CASE LapCompleted \/ ModeOff \/ Tick \/ UNCHANGED vars
        BY <2>4 DEF LapCompleted, ModeOff, Tick, vars, runVars, endVars
    <2> QED
        BY <1>1, <2>1, <2>2, <2>3, <2>4 DEF Next
<1>2. [Next]_vars => [state = "FINISHED" => UNCHANGED <<score, winner, dispatched>>]_vars
    BY <1>1
<1> QED
    BY <1>2, PTL DEF Spec, ResultFrozen

(* A race that ended with points has its outcome.                          *)
EndDecided == locked /\ state = "FINISHED" /\ HasPoints => dispatched # <<>>

(* Every step keeps that, and the step that releases a pair with points    *)
(* leaves an outcome.                                                      *)
LEMMA NextDecided ==
    ASSUME ~BATTLE_REQUIRE_HUD, TypeOK, ScoreInv, EndDecided, [Next]_vars
    PROVE  /\ EndDecided'
           /\ locked /\ ~locked' /\ ~ModeOff /\ HasPoints => dispatched' # <<>>
<1> DEFINE Goal == /\ EndDecided'
                   /\ locked /\ ~locked' /\ HasPoints => dispatched' # <<>>
<1> USE DEF EndDecided
<1>1. \A o : Append(<<>>, o) # <<>>
    OBVIOUS
<1>2. locked /\ state \in PreActive => ~HasPoints
    BY DEF ScoreInv, FreshBoard, HasPoints
<1>3. locked /\ state = "ACTIVE" => battle_id /\ dispatched = <<>>
    BY DEF ScoreInv, IdFromArmedOn, Undecided
<1>4. ASSUME NEW w, NEW byPosition, NEW lap, NEW metres, locked, state = "ACTIVE",
             FinalizeAbandon(w, byPosition, lap, metres), UNCHANGED score
      PROVE  Goal
    <2>1. HasPoints' <=> HasPoints
        BY <1>4 DEF HasPoints
    <2>2. HasPoints => dispatched' # <<>>
        BY <1>1, <1>3, <1>4 DEF FinalizeAbandon, Dispatch
    <2> QED
        BY <2>1, <2>2
<1>5. CASE Update
    <2>0. locked
        BY <1>5 DEF Update
    <2>1. CASE HandleFinished
        BY <2>0, <2>1 DEF HandleFinished, Release, endVars
    <2>2. CASE PreActiveTimeout
        BY <1>2, <2>0, <2>2 DEF PreActiveTimeout, Dissolve, Release
    <2>3. ASSUME NEW gap, NEW sp, HandleIdle(gap, sp) \/ HandleArmed(gap, sp)
          PROVE  Goal
        <3>1. state \in PreActive
            BY <2>3 DEF HandleIdle, HandleArmed, PreActive
        <3>2. state' # "FINISHED"
            BY <2>3 DEF HandleIdle, ArmingAborted, NotArmable, ArmingTolerated,
                ArmingCountdown, Arm, MaybeDissolveSeparated, Dissolve, HandleArmed,
                AbortPrestart, Launch, StayArmed
        <3> QED
            BY <1>2, <2>0, <3>1, <3>2
    <2>4. ASSUME NEW ahead, NEW unusable, HandleLaunching(ahead, unusable)
          PROVE  Goal
        <3>1. state \in PreActive
            BY <2>4 DEF HandleLaunching, PreActive
        <3>2. state' # "FINISHED"
            BY <2>4 DEF HandleLaunching, Go, AwaitRoles, LaunchTimeout
        <3> QED
            BY <1>2, <2>0, <3>1, <3>2
    <2>5. ASSUME NEW sp, NEW unusable, NEW moved, HandleActive(sp, unusable, moved)
          PROVE  Goal
        <3>1. state = "ACTIVE" /\ (locked' <=> locked)
            BY <2>5 DEF HandleActive, lockVars
        <3>2. ASSUME NEW gap, NEW ahead, NEW byPosition,
                     Score(gap, ahead, byPosition) \/ RaceOn(gap, ahead, byPosition)
              PROVE  Goal
            BY <2>0, <3>1, <3>2 DEF Score, RaceOn
        <3>3. ASSUME NEW gap, NEW ahead, NEW byPosition, Finish(gap, ahead, byPosition)
              PROVE  Goal
            BY <1>1, <1>3, <2>0, <3>1, <3>3 DEF Finish, FinalizeSession, Dispatch
        <3> QED
            BY <1>4, <2>0, <2>5, <3>1, <3>2, <3>3, ActiveShape
    <2> QED
        BY <1>5, <2>1, <2>2, <2>3, <2>4, <2>5 DEF Update
<1>6. CASE HudDisconnected
    BY <1>6 DEF HudDisconnected
<1>7. ASSUME NEW p \in Players, Disconnect(p) PROVE Goal
    <2>1. locked /\ ~locked'
        BY <1>7 DEF Disconnect, Release
    <2>2. CASE state = "ACTIVE"
        BY <1>4, <1>7, <2>1, <2>2 DEF Disconnect, runVars
    <2>3. CASE state # "ACTIVE"
        BY <1>2, <1>7, <2>1, <2>3 DEF Disconnect, endVars, TypeOK, States
    <2> QED
        BY <2>2, <2>3
<1>8. CASE LapCompleted \/ ModeOff \/ Tick \/ UNCHANGED vars
    <2>1. UNCHANGED <<state, score, dispatched>> /\ (locked' => locked)
        BY <1>8 DEF LapCompleted, ModeOff, Tick, vars, runVars, endVars, lockVars
    <2>2. ~ModeOff => locked' = locked
        BY <1>8 DEF LapCompleted, Tick, vars, lockVars
    <2> QED
        BY <2>1, <2>2 DEF HasPoints
<1> QED
    BY <1>5, <1>6, <1>7, <1>8 DEF Next

(* Without the overlay gate, and unless the mode is switched off, points   *)
(* on the board are never lost: the pair is released with a result sent.   *)
THEOREM NoPointsLost == ASSUME ~BATTLE_REQUIRE_HUD PROVE Spec => PointsDecided
<1>1. Init => EndDecided
    BY DEF Init, EndDecided
<1>2. TypeOK /\ ScoreInv /\ EndDecided /\ [Next]_vars => EndDecided'
    BY NextDecided
<1>3. TypeOK /\ ScoreInv /\ EndDecided /\ [Next]_vars =>
        [locked /\ ~locked' /\ ~ModeOff /\ HasPoints => dispatched' # <<>>]_vars
    BY NextDecided
<1> QED
    BY <1>1, <1>2, <1>3, InitScores, NextScores, TypeCorrect, PTL DEF Spec, PointsDecided

-----------------------------------------------------------------------------
(* The lifecycle *)

(* What a step of the manager may do to the phase and the outcome of a     *)
(* pair: a race is only entered from a phase before it and never left for  *)
(* one, and only the step that leaves it decides.                          *)
PhaseStep ==
    /\ locked' => locked
    /\ locked /\ state \in PreActive =>
         UNCHANGED dispatched /\ (locked' => state' \in PreActive \cup {"ACTIVE"})
    /\ locked /\ state = "ACTIVE" /\ locked' =>
         \/ state' = "ACTIVE" /\ UNCHANGED dispatched
         \/ state' = "FINISHED"
    /\ ~locked \/ state = "FINISHED" =>
         UNCHANGED dispatched /\ (locked' => state' = state)

(* Every step of the manager is of that kind.                              *)
LEMMA NextPhase == TypeOK /\ [Next]_vars => PhaseStep
<1> SUFFICES ASSUME TypeOK, [Next]_vars PROVE PhaseStep
    OBVIOUS
<1>0. state \in States /\ locked \in BOOLEAN
    BY DEF TypeOK
<1>1. CASE Update
    <2>0. locked
        BY <1>1 DEF Update
    <2>1. CASE HandleFinished
        BY <2>0, <2>1 DEF HandleFinished, Release, endVars, PhaseStep, PreActive
    <2>2. CASE PreActiveTimeout
        BY <2>0, <2>2 DEF PreActiveTimeout, Dissolve, Release, endVars, PreActive, PhaseStep
    <2>3. ASSUME NEW gap, NEW sp, HandleIdle(gap, sp) \/ HandleArmed(gap, sp)
          PROVE  PhaseStep
        BY <2>0, <2>3 DEF HandleIdle, ArmingAborted, NotArmable, ArmingTolerated,
            ArmingCountdown, Arm, MaybeDissolveSeparated, Dissolve, HandleArmed, Release,
            AbortPrestart, Launch, StayArmed, endVars, PhaseStep, PreActive
    <2>4. ASSUME NEW ahead, NEW unusable, HandleLaunching(ahead, unusable)
          PROVE  PhaseStep
        BY <2>0, <2>4 DEF HandleLaunching, Go, AwaitRoles, LaunchTimeout, endVars,
            PhaseStep, PreActive
    <2>5. ASSUME NEW sp, NEW unusable, NEW moved, HandleActive(sp, unusable, moved)
          PROVE  PhaseStep
        <3>1. state = "ACTIVE" /\ locked' = locked
            BY <2>5, ActiveShape DEF lockVars
        <3>2. state' = "FINISHED" \/ (state' = "ACTIVE" /\ UNCHANGED dispatched)
            BY <2>5, <3>1, ActiveShape DEF FinalizeAbandon, FinalizeSession, Score, Finish,
                RaceOn, endVars
        <3> QED
            BY <2>0, <3>1, <3>2 DEF PhaseStep, PreActive
    <2> QED
        BY <1>1, <2>1, <2>2, <2>3, <2>4, <2>5 DEF Update
<1>2. CASE HudDisconnected
    BY <1>0, <1>2 DEF HudDisconnected, Dissolve, Release, endVars, PhaseStep
<1>3. ASSUME NEW p \in Players, Disconnect(p) PROVE PhaseStep
    BY <1>0, <1>3 DEF Disconnect, Release, endVars, PhaseStep, PreActive
<1>4. CASE LapCompleted \/ ModeOff \/ Tick \/ UNCHANGED vars
    BY <1>0, <1>4 DEF LapCompleted, ModeOff, Tick, vars, endVars, lockVars, PhaseStep, PreActive
<1> QED
    BY <1>1, <1>2, <1>3, <1>4 DEF Next

(* PairBattle implements PairLifecycle: for all thresholds and packets a   *)
(* pair is matched, races at most once and is released, and its outcome is *)
(* decided by the step that ends the race and by no other.                 *)
THEOREM LifecycleImplemented == Spec => ImplementsLifecycle
<1>1. Init => Lifecycle!Init
    BY DEF Init, Lifecycle!Init, LifecyclePhase, LifecycleOutcome
<1>2. TypeOK /\ TypeOK' /\ [Next]_vars
        => [Lifecycle!Next]_<<LifecyclePhase, LifecycleOutcome>>
    <2> SUFFICES ASSUME TypeOK, TypeOK', [Next]_vars
                 PROVE  [Lifecycle!Next]_<<LifecyclePhase, LifecycleOutcome>>
        OBVIOUS
    <2>1. PhaseStep
        BY NextPhase
    <2>2. /\ state \in States /\ locked \in BOOLEAN
          /\ state' \in States /\ locked' \in BOOLEAN
        BY DEF TypeOK
    <2>3. UNCHANGED dispatched => LifecycleOutcome' = LifecycleOutcome
        BY DEF LifecycleOutcome
    <2>4. LifecycleOutcome' \in Players \cup {"draw", None}
        <3>1. dispatched' \in Seq(Outcomes)
            BY DEF TypeOK
        <3>2. dispatched' # <<>> => dispatched'[1] \in Outcomes
            BY <3>1
        <3> QED
            BY <3>2 DEF LifecycleOutcome, Outcomes
    <2>5. CASE locked /\ state \in PreActive
        BY <2>1, <2>2, <2>3, <2>5 DEF PhaseStep, LifecyclePhase, PreActive, Lifecycle!Next,
            Lifecycle!Start, Lifecycle!Release
    <2>6. CASE locked /\ state = "ACTIVE"
        BY <2>1, <2>2, <2>3, <2>4, <2>6 DEF PhaseStep, LifecyclePhase, Lifecycle!Next,
            Lifecycle!End
    <2>7. CASE ~locked \/ state = "FINISHED"
        BY <2>1, <2>2, <2>3, <2>7 DEF PhaseStep, LifecyclePhase, Lifecycle!Next,
            Lifecycle!Release
    <2> QED
        BY <2>2, <2>5, <2>6, <2>7 DEF States
<1> QED
    BY <1>1, <1>2, TypeCorrect, PTL DEF Spec, ImplementsLifecycle, Lifecycle!Spec
=============================================================================
