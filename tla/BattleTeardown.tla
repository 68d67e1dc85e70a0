--------------------------- MODULE BattleTeardown ---------------------------
(***************************************************************************)
(* The two threads that work on the battles of one server without a lock:  *)
(* the UDP listener (BattleManager.update for every car packet) and a      *)
(* remover (BattleManager.remove_car, called by the status loop's ghost    *)
(* purge or by a kick thread), which takes a driver out while its packets  *)
(* may still arrive.                                                       *)
(*                                                                         *)
(* Granularity: a step is what a thread does between two calls that block  *)
(* and let the other one run, which are logging, chat, the overlay gate's  *)
(* and the publisher's Redis calls, and the event queue.  A switch in the  *)
(* middle of the few dictionary operations of one step is left out.  The   *)
(* phases before the race are one ("pre").                                 *)
(***************************************************************************)
EXTENDS BattlePairs, Integers, Sequences, FiniteSets

CONSTANTS
    MaxBattles,                 \* bound: managers built
    MaxRemovals                 \* bound: calls of remove_car

ASSUME TeardownAssumption == None \notin Keys /\ MaxBattles \in Nat /\ MaxRemovals \in Nat

VARIABLES
    present,                    \* BattleManager.cars
    pairOf,                     \* guid_to_pair: [Drivers -> key or None]
    managerOf,                  \* pair_managers: [Keys -> index into managers,
                                \* 0 for none]
    cooling,                    \* keys in their rematch cooldown
    managers,                   \* every PairBattleManager built, in order
    udp,                        \* the listener: pc, packet's driver, pair, manager
    remover,                    \* the remover: the same, and whether the driver
                                \* left a race with points on the board
    removals                    \* calls of remove_car so far

tableVars == <<pairOf, managerOf, cooling>>
threadsVars == <<present, tableVars, managers, udp, remover, removals>>

(* PairBattleManager: cars are those mirrored into it, id says whether it  *)
(* has a battle_id, sent are the outcomes it sent to the event stream.     *)
Managers == [pair : Keys, state : {"pre", "ACTIVE", "FINISHED"},
             cars : SUBSET Drivers, id : BOOLEAN, points : BOOLEAN,
             sent : Seq({"finish", "abandon"})]
Idle == [pc |-> "idle", g |-> None, k |-> None, m |-> 0]
NotRemoving == [pc |-> "idle", g |-> None, k |-> None, m |-> 0]
Threads(pcs) == [pc : pcs, g : Drivers \cup {None}, k : Keys \cup {None},
                 m : 0 .. MaxBattles]

ThreadsInit ==
    /\ present = {} /\ pairOf = [g \in Drivers |-> None]
    /\ managerOf = [k \in Keys |-> 0] /\ cooling = {}
    /\ managers = <<>>
    /\ udp = Idle /\ remover = NotRemoving /\ removals = 0

-----------------------------------------------------------------------------
(* What both threads do *)

(* Mutant: mappings are dropped whatever pair they name by now.            *)
ReleaseUnguarded(k) ==
    /\ managerOf' = [managerOf EXCEPT ![k] = 0]
    /\ pairOf' = [g \in Drivers |-> IF g \in k THEN None ELSE pairOf[g]]

(* _release_pair(key): only mappings that still name the pair are dropped. *)
Release(k) ==
    /\ managerOf' = [managerOf EXCEPT ![k] = 0]
    /\ pairOf' = [g \in Drivers |-> IF pairOf[g] = k THEN None
                                          ELSE pairOf[g]]

(* _dispatch_session_outcome: handle_battle_score drops it without an id.  *)
Dispatch(m, how) ==
    managers' = IF managers[m].id THEN [managers EXCEPT ![m].sent = Append(@, how)]
                ELSE managers

(* _reset_to_idle(full_reset=True).                                        *)
Reset(m) == managers' = [managers EXCEPT ![m].state = "pre", ![m].id = FALSE]

-----------------------------------------------------------------------------
(* The listener *)

UdpAt(pc) == udp.pc = pc
UdpGoto(pc) == udp' = [udp EXCEPT !.pc = pc]
UdpDone == udp' = Idle

(* A car packet of g; the matchmaker picks its candidates, then asks for   *)
(* their overlays and preferences.                                         *)
UdpPacket(g) ==
    /\ UdpAt("idle")
    /\ present' = present \cup {g}
    /\ \E k \in {None} \cup {l \in Keys \ cooling :
                               \A h \in l : h \in present' /\ pairOf[h] = None} :
          udp' = [pc |-> "match", g |-> g, k |-> k, m |-> 0]
    /\ UNCHANGED <<tableVars, managers, remover, removals>>

(* _build_pair_manager, and the registration of the pair.                  *)
Locks(k) ==
    /\ managers' = Append(managers, [pair |-> k, state |-> "pre", cars |-> {},
                                     id |-> FALSE, points |-> FALSE, sent |-> <<>>])
    /\ managerOf' = [managerOf EXCEPT ![k] = Len(managers) + 1]
    /\ pairOf' = [h \in Drivers |-> IF h \in k THEN k ELSE pairOf[h]]

(* Mutant: a candidate that has been removed since is locked all the same. *)
UdpMatchUnchecked ==
    /\ UdpAt("match")
    /\ IF udp.k # None /\ managerOf[udp.k] = 0 /\ Len(managers) < MaxBattles
       THEN Locks(udp.k) ELSE UNCHANGED <<managers, managerOf, pairOf>>
    /\ UdpGoto("lookup")
    /\ UNCHANGED <<present, cooling, remover, removals>>

(* The candidates that still have a car are locked.                        *)
UdpMatch ==
    /\ UdpAt("match")
    /\ IF /\ udp.k # None /\ udp.k \subseteq present
          /\ managerOf[udp.k] = 0 /\ Len(managers) < MaxBattles
       THEN Locks(udp.k) ELSE UNCHANGED <<managers, managerOf, pairOf>>
    /\ UdpGoto("lookup")
    /\ UNCHANGED <<present, cooling, remover, removals>>

(* The pair of g and its manager; a mapping without a manager is dropped.  *)
UdpLookup ==
    /\ UdpAt("lookup")
    /\ LET k == pairOf[udp.g]
       IN  IF k # None /\ managerOf[k] # 0
           THEN /\ udp' = [udp EXCEPT !.pc = "work", !.k = k, !.m = managerOf[k]]
                /\ UNCHANGED pairOf
           ELSE UdpDone /\ pairOf' = [pairOf EXCEPT ![udp.g] = None]
    /\ UNCHANGED <<present, managerOf, cooling, managers, remover, removals>>

(* Both cars that BattleManager still knows are mirrored, then             *)
(* process_pair_logic: with a car missing it resets whatever is not IDLE   *)
(* or FINISHED; else by state.  A race without points may be cancelled at  *)
(* once; any other end is announced first.                                 *)
UdpWork ==
    /\ UdpAt("work")
    /\ LET m == udp.m
           mgr == managers[m]
           seen == mgr.cars \cup (mgr.pair \cap present)
           With(state, id, points) ==
             managers' = [managers EXCEPT ![m] =
               [@ EXCEPT !.cars = seen, !.state = state, !.id = id, !.points = points]]
           Same == With(mgr.state, mgr.id, mgr.points)
       IN  \/ /\ Cardinality(seen) < 2 /\ UdpGoto("cleanup")
              /\ IF mgr.state = "ACTIVE" THEN With("pre", FALSE, mgr.points) ELSE Same
              /\ UNCHANGED tableVars
           \/ /\ Cardinality(seen) = 2 /\ mgr.state = "FINISHED"
              /\ With("pre", FALSE, mgr.points) /\ UdpDone
              /\ Release(udp.k) /\ cooling' = cooling \cup {udp.k}
           \/ /\ Cardinality(seen) = 2 /\ mgr.state = "pre"
              /\ \/ Same /\ UdpGoto("cleanup")
                 \/ With("ACTIVE", TRUE, FALSE) /\ UdpGoto("cleanup")
                 \/ Same /\ UdpGoto("dissolve")
              /\ UNCHANGED tableVars
           \/ /\ Cardinality(seen) = 2 /\ mgr.state = "ACTIVE"
              /\ \/ \E points \in {TRUE, mgr.points} :
                      With(mgr.state, mgr.id, points) /\ UdpGoto("cleanup")
                 \/ Same /\ UdpGoto("dispatch")
                 \/ /\ ~mgr.points /\ With("FINISHED", mgr.id, FALSE)
                    /\ UdpGoto("cleanup")
              /\ UNCHANGED tableVars
    /\ UNCHANGED <<present, remover, removals>>

(* _dissolve_pair after its cancelled snapshot.                            *)
UdpDissolve ==
    /\ UdpAt("dissolve")
    /\ Reset(udp.m) /\ Release(udp.k) /\ UdpDone
    /\ UNCHANGED <<present, cooling, remover, removals>>

(* finalize_single_session_result or finalize_default_win after the chat;  *)
(* then the snapshot is published, and only then is the state FINISHED.    *)
UdpDispatch ==
    /\ UdpAt("dispatch") /\ Dispatch(udp.m, "finish") /\ UdpGoto("finish")
    /\ UNCHANGED <<present, tableVars, remover, removals>>
UdpFinish ==
    /\ UdpAt("finish") /\ UdpGoto("cleanup")
    /\ managers' = [managers EXCEPT ![udp.m].state = "FINISHED"]
    /\ UNCHANGED <<present, tableVars, remover, removals>>

(* _cleanup_pair_if_done: a pair that has lost a car is released.          *)
UdpCleanup ==
    /\ UdpAt("cleanup") /\ UdpDone
    /\ LET m == managerOf[udp.k]
       IN  IF m # 0 /\ managers[m].cars # udp.k
           THEN Release(udp.k) ELSE UNCHANGED <<managerOf, pairOf>>
    /\ UNCHANGED <<present, cooling, managers, remover, removals>>

-----------------------------------------------------------------------------
(* The remover *)

RemoverAt(pc) == remover.pc = pc
RemoverGoto(pc) == remover' = [remover EXCEPT !.pc = pc]

(* finalize_abandon is called when the battle is ARMED, LAUNCHING or       *)
(* ACTIVE; the first two, and IDLE, are "pre" here.                        *)
AfterRemoval(state) ==
    CASE state = "ACTIVE"   -> {"abandon"}
      [] state = "pre"      -> {"abandon", "release"}
      [] state = "FINISHED" -> {"release"}

(* remove_car(g) up to the first log line of a running battle.             *)
remove_car(g) ==
    /\ RemoverAt("idle") /\ g \in present /\ removals < MaxRemovals
    /\ present' = present \ {g} /\ removals' = removals + 1
    /\ LET k == pairOf[g]
           m == IF k = None THEN 0 ELSE managerOf[k]
       IN  IF k = None
           THEN UNCHANGED <<managers, remover>>
           ELSE /\ managers' = IF m = 0 THEN managers
                               ELSE [managers EXCEPT ![m].cars = @ \ {g}]
                /\ \E pc \in IF m = 0 THEN {"release"} ELSE AfterRemoval(managers[m].state) :
                     remover' = [g |-> g, k |-> k, m |-> m, pc |-> pc]
    /\ UNCHANGED <<tableVars, udp>>

(* finalize_abandon: with points, or with progress enough, a win.          *)
RemoverAbandon ==
    /\ RemoverAt("abandon")
    /\ LET m == remover.m
       IN  IF managers[m].state # "ACTIVE"
           THEN RemoverGoto("release") /\ UNCHANGED managers
           ELSE \E awarded \in {TRUE, managers[m].points} :
                  IF awarded
                  THEN RemoverGoto("dispatch") /\ UNCHANGED managers
                  ELSE /\ RemoverGoto("release")
                       /\ managers' = [managers EXCEPT ![m].state = "FINISHED"]
    /\ UNCHANGED <<present, tableVars, udp, removals>>

RemoverDispatch ==
    /\ RemoverAt("dispatch") /\ Dispatch(remover.m, "abandon") /\ RemoverGoto("finish")
    /\ UNCHANGED <<present, tableVars, udp, removals>>
RemoverFinish ==
    /\ RemoverAt("finish") /\ RemoverGoto("release")
    /\ managers' = [managers EXCEPT ![remover.m].state = "FINISHED"]
    /\ UNCHANGED <<present, tableVars, udp, removals>>

(* The pair it read at first is released.                                  *)
RemoverRelease ==
    /\ RemoverAt("release") /\ Release(remover.k)
    /\ remover' = NotRemoving
    /\ UNCHANGED <<present, cooling, managers, udp, removals>>

-----------------------------------------------------------------------------

(* A cooldown outlasts any removal.                                        *)
CooldownOver ==
    /\ RemoverAt("idle")
    /\ \E k \in cooling : cooling' = cooling \ {k}
    /\ UNCHANGED <<present, pairOf, managerOf, managers, udp, remover, removals>>

Udp ==
    \/ \E g \in Drivers : UdpPacket(g)
    \/ UdpMatch \/ UdpLookup \/ UdpWork \/ UdpDissolve
    \/ UdpDispatch \/ UdpFinish \/ UdpCleanup
Remover ==
    \/ \E g \in Drivers : remove_car(g)
    \/ RemoverAbandon \/ RemoverDispatch \/ RemoverFinish \/ RemoverRelease

ThreadsNext == Udp \/ Remover \/ CooldownOver

ThreadsSpec == ThreadsInit /\ [][ThreadsNext]_threadsVars

-----------------------------------------------------------------------------
(* Properties *)

ThreadsTypeOK ==
    /\ present \subseteq Drivers
    /\ pairOf \in [Drivers -> Keys \cup {None}]
    /\ managerOf \in [Keys -> 0 .. Len(managers)]
    /\ cooling \subseteq Keys
    /\ managers \in Seq(Managers) /\ Len(managers) <= MaxBattles
    /\ udp \in Threads({"idle", "match", "lookup", "work", "dissolve", "dispatch",
                        "finish", "cleanup"})
    /\ remover \in Threads({"idle", "abandon", "dispatch", "finish", "release"})
    /\ removals \in 0 .. MaxRemovals

(* However the two threads interleave, and although the remover releases a *)
(* pair it looked up long ago, a pair has a manager exactly when both its  *)
(* drivers are mapped to it: a driver who has found another opponent since *)
(* is not torn out of the new battle.                                      *)
LocksAgree ==
    \A k \in Keys : \A g \in k : managerOf[k] # 0 <=> pairOf[g] = k

(* Nobody stays locked to a driver who has been removed: whichever thread  *)
(* is first, once the remover is done the pair is released.                *)
LockedArePresent ==
    RemoverAt("idle") => \A g \in Drivers : pairOf[g] # None => g \in present

-----------------------------------------------------------------------------
(* What the documents say, and the code does not do *)

(* REDIS_CONTRACT.md: battle_update is produced once when the series       *)
(* finishes.  Both threads see ACTIVE until one has sent and published.    *)
ProducedOnce == \A m \in 1 .. Len(managers) : Len(managers[m].sent) <= 1
=============================================================================
