------------------------- MODULE BattleOrchestrator -------------------------
(***************************************************************************)
(* Matchmaking, pair locks and overlay keys of one battle server: the      *)
(* BattleManager of engines/battlesystem/orchestrator.py with the Redis    *)
(* side of network/battle_hud_publisher.py.                                *)
(*                                                                         *)
(* Every car packet refreshes the driver, runs the matchmaker over all the *)
(* free drivers, and hands the driver's pair to its PairBattleManager      *)
(* (module PairBattle), of which only the phase is kept here: before the   *)
(* race, racing, or over with the result on the overlays.  Handlers are    *)
(* atomic: the UDP thread of a server runs them one after the other; what  *)
(* the status loop's thread may do in between is module BattleTeardown.    *)
(***************************************************************************)
EXTENDS BattlePairs, Integers, FiniteSets

CONSTANTS
    BATTLE_REQUIRE_HUD,         \* the overlay gate is on
    MATCH_FRESH,                \* ticks a driver stays matchable (3 s)
    INACTIVE,                   \* ticks after which a driver is inactive (5 s)
    FINISHED_COOLDOWN,          \* ticks between two battles of a pair
    HUD_BATTLE_CLEAR_DELAY      \* ticks a terminal snapshot is kept

Phases == {"pre", "racing", "over"}

ASSUME OrchestratorAssumption ==
    /\ None \notin Drivers /\ None \notin Keys /\ None \notin Phases
    /\ BATTLE_REQUIRE_HUD \in BOOLEAN
    /\ MATCH_FRESH \in Nat /\ INACTIVE \in Nat /\ MATCH_FRESH <= INACTIVE
    /\ FINISHED_COOLDOWN \in Nat \ {0} /\ HUD_BATTLE_CLEAR_DELAY \in Nat \ {0}

(* A snapshot "left" is one its pair was released without a clear for.     *)
Snapshots == [pair : Keys, kind : {"live", "terminal", "left"},
              age : 0 .. HUD_BATTLE_CLEAR_DELAY]
(* The running timers that delete the keys of ids; owner None when the     *)
(* publisher's table _clear_timers no longer names the timer.              *)
ClearTimers == [owner : Drivers \cup {None}, ids : Keys,
                age : 0 .. HUD_BATTLE_CLEAR_DELAY]

VARIABLES
    is_battle_server,
    cars,                       \* drivers with a CarState
    silent,                     \* [Drivers -> ticks since the last own packet]
    pair_managers,              \* [Keys -> phase, None without a manager]
    guid_to_pair,               \* [Drivers -> key or None]
    recent_pair_cooldowns,      \* [Keys -> ticks left]
    hudKey,                     \* [Drivers -> ac:hud:battle snapshot or None]
    clearTimers                 \* running threading.Timers

lockVars == <<pair_managers, guid_to_pair, recent_pair_cooldowns>>
hudVars == <<hudKey, clearTimers>>
vars == <<is_battle_server, cars, silent, lockVars, hudVars>>

Init ==
    /\ is_battle_server = TRUE
    /\ cars = {} /\ silent = [g \in Drivers |-> 0]
    /\ pair_managers = [k \in Keys |-> None]
    /\ guid_to_pair = [g \in Drivers |-> None]
    /\ recent_pair_cooldowns = [k \in Keys |-> 0]
    /\ hudKey = [g \in Drivers |-> None] /\ clearTimers = {}

-----------------------------------------------------------------------------
(* Overlay keys *)

(* publish_battle_hud writes one key per driver of the pair.               *)
Published(keys, k, kind) ==
    [g \in Drivers |-> IF g \in k THEN [pair |-> k, kind |-> kind, age |-> 0]
                       ELSE keys[g]]

(* The keys of k when it is released without a clear; their age, which     *)
(* only the clear delay looks at, is not kept.                             *)
Left(keys, k) ==
    [g \in Drivers |-> IF g \in k /\ keys[g] # None
                       THEN [pair |-> keys[g].pair, kind |-> "left", age |-> 0]
                       ELSE keys[g]]

(* schedule_clear_battle_hud: per driver, the registered timer is replaced *)
(* by one that will delete the keys of the whole pair.                     *)
Scheduled(k) ==
    {t \in clearTimers : t.owner \notin k}
      \cup {[owner |-> g, ids |-> k, age |-> 0] : g \in k}

(* clear_battle_hud, run by timer t: it deletes the keys and forgets, but  *)
(* does not cancel, the timers registered for these drivers.               *)
ClearHud(t) ==
    /\ t.age = HUD_BATTLE_CLEAR_DELAY
    /\ hudKey' = [g \in Drivers |-> IF g \in t.ids THEN None ELSE hudKey[g]]
    /\ clearTimers' = {IF u.owner \in t.ids THEN [u EXCEPT !.owner = None] ELSE u
                         : u \in clearTimers \ {t}}
    /\ UNCHANGED <<is_battle_server, cars, silent, lockVars>>

(* The TTL of a key, longer than the clear delay; the age of a live key,   *)
(* which every publish resets, is not kept.                                *)
KeyExpires(g) ==
    /\ hudKey[g] # None
    /\ hudKey[g].kind # "terminal" \/ hudKey[g].age = HUD_BATTLE_CLEAR_DELAY
    /\ hudKey' = [hudKey EXCEPT ![g] = None]
    /\ UNCHANGED <<is_battle_server, cars, silent, lockVars, clearTimers>>

-----------------------------------------------------------------------------
(* Matchmaking (_try_matchmake) *)

(* Overlays come and go outside the server.  A packet finds at most one    *)
(* disconnected: with more of them missing it may match fewer drivers and  *)
(* dissolve the same pair.                                                 *)
Overlays == {Drivers} \cup {Drivers \ {g} : g \in Drivers}

(* seen and ages are cars and silent as this packet leaves them, overlay   *)
(* the drivers whose overlay is found connected.                           *)
Free(seen, ages, overlay) ==
    {g \in seen : /\ ages[g] <= MATCH_FRESH /\ guid_to_pair[g] = None
                  /\ BATTLE_REQUIRE_HUD => g \in overlay}

(* Which free drivers accept battles, are fast and near enough is up to    *)
(* their preferences and packets, so the greedy nearest-first matching may *)
(* be any set of disjoint pairs out of their cooldown.                     *)
Matchings(free) ==
    {m \in SUBSET {k \in Keys : k \subseteq free /\ recent_pair_cooldowns[k] = 0} :
        \A k, l \in m : k = l \/ k \cap l = {}}

(* The state of locks and overlays once the pairs m are locked and shown   *)
(* as "pairing".                                                           *)
LockedGuids(m) ==
    [g \in Drivers |-> IF g \in UNION m THEN CHOOSE k \in m : g \in k
                       ELSE guid_to_pair[g]]
LockedManagers(m) == [k \in Keys |-> IF k \in m THEN "pre" ELSE pair_managers[k]]

(* Mutant: a new pair is not shown until its first phase.                  *)
PairingNotShown(m) == hudKey

PairingShown(m) ==
    [g \in Drivers |-> IF g \in UNION m
                       THEN [pair |-> CHOOSE k \in m : g \in k, kind |-> "live",
                             age |-> 0]
                       ELSE hudKey[g]]

-----------------------------------------------------------------------------
(* What the pair's manager does with a packet (process_pair_logic), from   *)
(* locks and keys this packet has already changed *)

(* Mutant: the drivers stay mapped to the released pair.                   *)
ReleasedButMapped(managers, guids, k) ==
    /\ pair_managers' = [managers EXCEPT ![k] = None]
    /\ guid_to_pair' = guids

(* _release_pair: only mappings that still name the pair are dropped.      *)
Released(managers, guids, k) ==
    /\ pair_managers' = [managers EXCEPT ![k] = None]
    /\ guid_to_pair' = [g \in Drivers |-> IF guids[g] = k THEN None ELSE guids[g]]

(* _dissolve_pair: cancelled snapshot, clear, release without cooldown.    *)
Dissolve(managers, guids, keys, k) ==
    /\ Released(managers, guids, k)
    /\ hudKey' = Published(keys, k, "terminal") /\ clearTimers' = Scheduled(k)
    /\ UNCHANGED recent_pair_cooldowns

(* The pair stays locked: before the race it may be left, or dissolved for *)
(* being separated or locked too long; a race may end in a result or a     *)
(* cancellation, shown at once.  The snapshot is refreshed in between, but *)
(* for the publishes that debounce and cancel hold drop.                   *)
StayLocked(managers, guids, keys, k) ==
    /\ guid_to_pair' = guids
    /\ \/ /\ managers[k] = "pre"
          /\ \E phase \in {"pre", "racing"} :
               pair_managers' = [managers EXCEPT ![k] = phase]
          /\ hudKey' \in {keys, Published(keys, k, "live")}
       \/ /\ managers[k] = "racing" /\ pair_managers' = managers
          /\ hudKey' \in {keys, Published(keys, k, "live")}
       \/ /\ managers[k] = "racing"
          /\ pair_managers' = [managers EXCEPT ![k] = "over"]
          /\ hudKey' = Published(keys, k, "terminal")
    /\ UNCHANGED <<recent_pair_cooldowns, clearTimers>>

(* The packet after the end (_handle_finished_state).                      *)
Finished(managers, guids, keys, k) ==
    /\ managers[k] = "over"
    /\ Released(managers, guids, k)
    /\ recent_pair_cooldowns' = [recent_pair_cooldowns EXCEPT ![k] = FINISHED_COOLDOWN]
    /\ hudKey' = keys /\ clearTimers' = Scheduled(k)

ProcessPair(managers, guids, keys, k) ==
    \/ StayLocked(managers, guids, keys, k)
    \/ managers[k] = "pre" /\ Dissolve(managers, guids, keys, k)
    \/ Finished(managers, guids, keys, k)

-----------------------------------------------------------------------------
(* The calls of the packet handlers *)

(* update: a packet of driver g.  A pair whose overlay gate is closed is   *)
(* dissolved; otherwise both participants are mirrored into the manager,   *)
(* each as if it had just been heard of, so that process_pair_logic finds  *)
(* none of them stale or inactive however long it has been silent.         *)
Update(g, overlay) ==
    /\ is_battle_server
    /\ LET seen == cars \cup {g}
           ages == [silent EXCEPT ![g] = 0]
       IN  /\ cars' = seen /\ silent' = ages
           /\ \E m \in Matchings(Free(seen, ages, overlay)) :
                LET managers == LockedManagers(m)
                    guids == LockedGuids(m)
                    keys == PairingShown(m)
                    k == guids[g]
                IN  \/ /\ k = None
                       /\ pair_managers' = managers /\ guid_to_pair' = guids
                       /\ hudKey' = keys
                       /\ UNCHANGED <<recent_pair_cooldowns, clearTimers>>
                    \/ /\ k # None /\ BATTLE_REQUIRE_HUD /\ ~(k \subseteq overlay)
                       /\ Dissolve(managers, guids, keys, k)
                    \/ /\ k # None /\ (BATTLE_REQUIRE_HUD => k \subseteq overlay)
                       /\ ProcessPair(managers, guids, keys, k)
    /\ UNCHANGED is_battle_server

(* remove_car, called when a driver disconnects, is kicked or is purged: a *)
(* race ends on the overlays, and the pair is released without cooldown    *)
(* and without a clear.                                                    *)
RemoveCar(g) ==
    /\ g \in cars /\ cars' = cars \ {g} /\ silent' = [silent EXCEPT ![g] = 0]
    /\ LET k == guid_to_pair[g]
           shown == IF pair_managers[k] = "racing"
                    THEN Published(hudKey, k, "terminal") ELSE hudKey
       IN  IF k = None
           THEN UNCHANGED <<lockVars, hudVars>>
           ELSE /\ Released(pair_managers, guid_to_pair, k)
                /\ hudKey' = Left(shown, k)
                /\ UNCHANGED <<recent_pair_cooldowns, clearTimers>>
    /\ UNCHANGED is_battle_server

Locked == {g \in Drivers : guid_to_pair[g] # None}

(* set_server_mode: leaving battle mode drops locks and cooldowns as they  *)
(* are.                                                                    *)
SetServerMode ==
    /\ is_battle_server' = ~is_battle_server
    /\ IF is_battle_server
       THEN /\ pair_managers' = [k \in Keys |-> None]
            /\ guid_to_pair' = [g \in Drivers |-> None]
            /\ recent_pair_cooldowns' = [k \in Keys |-> 0]
            /\ hudKey' = Left(hudKey, UNION {guid_to_pair[g] : g \in Locked})
       ELSE UNCHANGED <<lockVars, hudKey>>
    /\ UNCHANGED <<cars, silent, clearTimers>>

(* Time.  A clear timer that is due runs before more time passes.          *)
Tick ==
    /\ \A t \in clearTimers : t.age < HUD_BATTLE_CLEAR_DELAY
    /\ silent' = [g \in Drivers |-> IF g \in cars /\ silent[g] < INACTIVE
                                    THEN silent[g] + 1 ELSE silent[g]]
    /\ recent_pair_cooldowns' =
         [k \in Keys |-> IF recent_pair_cooldowns[k] > 0
                         THEN recent_pair_cooldowns[k] - 1 ELSE 0]
    /\ clearTimers' = {[t EXCEPT !.age = @ + 1] : t \in clearTimers}
    /\ hudKey' = [g \in Drivers |->
                    IF /\ hudKey[g] # None /\ hudKey[g].kind = "terminal"
                       /\ hudKey[g].age < HUD_BATTLE_CLEAR_DELAY
                    THEN [hudKey[g] EXCEPT !.age = @ + 1] ELSE hudKey[g]]
    /\ UNCHANGED <<is_battle_server, cars, pair_managers, guid_to_pair>>

Next ==
    \/ SetServerMode \/ Tick
    \/ \E g \in Drivers : \E overlay \in Overlays : Update(g, overlay)
    \/ \E g \in Drivers : RemoveCar(g) \/ KeyExpires(g)
    \/ \E t \in clearTimers : ClearHud(t)

Spec == Init /\ [][Next]_vars

-----------------------------------------------------------------------------
(* Properties *)

TypeOK ==
    /\ is_battle_server \in BOOLEAN
    /\ cars \subseteq Drivers /\ silent \in [Drivers -> 0 .. INACTIVE]
    /\ pair_managers \in [Keys -> Phases \cup {None}]
    /\ guid_to_pair \in [Drivers -> Keys \cup {None}]
    /\ recent_pair_cooldowns \in [Keys -> 0 .. FINISHED_COOLDOWN]
    /\ hudKey \in [Drivers -> Snapshots \cup {None}]
    /\ clearTimers \subseteq ClearTimers

(* The two dictionaries of locks agree: a pair has a manager exactly when  *)
(* both its drivers are mapped to it, so that nobody drives in two battles *)
(* and nobody is locked to a battle that does not exist.                   *)
LockConsistent ==
    \A k \in Keys : \A g \in k : pair_managers[k] # None <=> guid_to_pair[g] = k

(* The overlay of a locked driver never shows another pair's battle, not   *)
(* even the result of the one that has just ended.                         *)
OwnPairShown ==
    \A g \in Drivers : guid_to_pair[g] # None /\ hudKey[g] # None
                         => hudKey[g].pair = guid_to_pair[g]

(* Every result or cancellation left on an overlay by a release has a      *)
(* timer that will delete it, however the timers of the two drivers and of *)
(* their former and next partners replace and forget each other (the       *)
(* releases of RemoveCar and SetServerMode schedule none).                 *)
TerminalHasTimer ==
    \A g \in Drivers :
        /\ hudKey[g] # None /\ hudKey[g].kind = "terminal"
        /\ guid_to_pair[g] = None
        => \E t \in clearTimers : g \in t.ids

-----------------------------------------------------------------------------
(* What the documents say, and the code does not do *)

(* docs/BATTLE_MODE.md: a driver inactive for 5 s ends the race or cancels *)
(* it.  Mirroring refreshes the inactive driver with every packet of the   *)
(* other.                                                                  *)
InactiveDriverEndsRace ==
    [][\A g, h \in Drivers :
         /\ \E overlay \in Overlays : Update(g, overlay)
         /\ h # g /\ silent[h] >= INACTIVE
         /\ guid_to_pair[g] # None /\ guid_to_pair[g] = guid_to_pair[h]
         => pair_managers'[guid_to_pair[g]] # "racing"]_vars
=============================================================================
