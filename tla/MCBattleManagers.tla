-------------------------- MODULE MCBattleManagers --------------------------
(***************************************************************************)
(* Instances for TLC of the BattleManager at its two grains: handlers that *)
(* run to their end, with the cooldowns and the overlay keys               *)
(* (BattleOrchestrator), and two threads that take turns at every blocking *)
(* call (BattleTeardown).  The grain is chosen with the initial state; the *)
(* state of the other one rests.  No step names a driver.                  *)
(***************************************************************************)
EXTENDS BattleOrchestrator, BattleTeardown, TLC

VARIABLE grain

ManagersInit == grain \in {"handlers", "threads"} /\ Init /\ ThreadsInit

ManagersNext ==
    \/ grain = "handlers" /\ Next /\ UNCHANGED <<grain, threadsVars>>
    \/ grain = "threads" /\ ThreadsNext /\ UNCHANGED <<grain, vars>>

ManagersSpec == ManagersInit /\ [][ManagersNext]_<<grain, vars, threadsVars>>

Symmetry == Permutations(Drivers)
=============================================================================
