------------------------ MODULE BattleManagersProofs ------------------------
(***************************************************************************)
(* Proofs about the battle manager at both its grains, for any set of      *)
(* drivers and any lengths of the freshness, cooldown and clear delays.    *)
(*                                                                         *)
(* Whole handlers (BattleOrchestrator): LockConsistent and OwnPairShown    *)
(* are inductive together (LockInv); every handler first locks the pairs   *)
(* of a matching and then treats the pair of the packet's driver, so both  *)
(* halves are lemmas about the intermediate dictionaries.                  *)
(*                                                                         *)
(* Two threads (BattleTeardown): a thread works with a pair and a manager  *)
(* it looked up before its last blocking calls.  What makes that harmless  *)
(* is in TeardownInv: a release tears out only mappings that still name    *)
(* the pair, the listener's candidates are still free when it locks them,  *)
(* as only the listener locks, and a driver locked but gone is the one     *)
(* being removed, by the pair the remover will release.                    *)
(***************************************************************************)
EXTENDS BattleOrchestrator, BattleTeardown, TLAPS

-----------------------------------------------------------------------------
(* Whole handlers *)

(* LockConsistent and OwnPairShown of the dictionaries a handler is at;    *)
(* what LockConsistent leaves unsaid is that the pair a driver is mapped   *)
(* to is one of its own.                                                   *)
Consistent(phases, guids) ==
    /\ \A k \in Keys : \A g \in k : phases[k] # None <=> guids[g] = k
    /\ \A g \in Drivers : guids[g] # None => g \in guids[g]
Shown(guids, keys) ==
    \A g \in Drivers : guids[g] # None /\ keys[g] # None
                         => keys[g].pair = guids[g]
(* A terminal snapshot without a lock is the business of a timer that is   *)
(* registered for its driver.                                              *)
Timed(guids, keys, timers) ==
    \A g \in Drivers :
        keys[g] # None /\ keys[g].kind = "terminal" /\ guids[g] = None
          => \E t \in timers : t.owner = g /\ g \in t.ids

OverlayKeys == [Drivers -> Snapshots \cup {None}]

(* The inductive invariant.                                                *)
LockInv ==
    /\ pair_managers \in [Keys -> Phases \cup {None}]
    /\ guid_to_pair \in [Drivers -> Keys \cup {None}]
    /\ hudKey \in OverlayKeys /\ clearTimers \subseteq ClearTimers
    /\ Consistent(pair_managers, guid_to_pair)
    /\ Shown(guid_to_pair, hudKey)
    /\ Timed(guid_to_pair, hudKey, clearTimers)

-----------------------------------------------------------------------------
(* A pair is a set of drivers, and has some.                               *)
LEMMA KeyMembers ==
    ASSUME NEW k \in Keys
    PROVE  k \subseteq Drivers /\ \E g \in Drivers : g \in k
  BY DEF Keys

(* Locking the pairs of a matching of free drivers keeps the dictionaries  *)
(* consistent, the overlays right and the timers sufficient.               *)
LEMMA MatchingLocks ==
    ASSUME LockInv, NEW seen, NEW ages, NEW overlay,
           NEW m \in Matchings(Free(seen, ages, overlay))
    PROVE  /\ LockedManagers(m) \in [Keys -> Phases \cup {None}]
           /\ LockedGuids(m) \in [Drivers -> Keys \cup {None}]
           /\ PairingShown(m) \in OverlayKeys
           /\ Consistent(LockedManagers(m), LockedGuids(m))
           /\ Shown(LockedGuids(m), PairingShown(m))
           /\ Timed(LockedGuids(m), PairingShown(m), clearTimers)
<1> DEFINE ofDriver(g) == CHOOSE k \in m : g \in k
<1>1. /\ m \subseteq Keys
      /\ \A k \in m : \A g \in k : g \in Drivers /\ guid_to_pair[g] = None
      /\ \A k, l \in m : k = l \/ k \cap l = {}
  BY KeyMembers DEF Matchings, Free
<1>2. \A g \in UNION m : ofDriver(g) \in m /\ g \in ofDriver(g)
  OBVIOUS
<1>3. \A k \in m : \A g \in k : g \in UNION m /\ ofDriver(g) = k
  BY <1>1, <1>2
<1>4. "pre" \in Phases /\ "pre" # None /\ None \notin Keys
  BY OrchestratorAssumption DEF Phases
<1>5. LockedManagers(m) \in [Keys -> Phases \cup {None}]
  BY <1>4 DEF LockedManagers, LockInv
<1>6. LockedGuids(m) \in [Drivers -> Keys \cup {None}]
  BY <1>1, <1>2 DEF LockedGuids, LockInv
<1>7. Consistent(LockedManagers(m), LockedGuids(m))
  <2>0. \A g \in Drivers : LockedGuids(m)[g] # None => g \in LockedGuids(m)[g]
    BY <1>2 DEF LockedGuids, LockInv, Consistent
  <2> SUFFICES ASSUME NEW k \in Keys, NEW g \in k
               PROVE  LockedManagers(m)[k] # None <=> LockedGuids(m)[g] = k
    BY <2>0 DEF Consistent
  <2>1. g \in Drivers
    BY KeyMembers
  <2>2. CASE k \in m
    BY <2>1, <2>2, <1>3, <1>4 DEF LockedManagers, LockedGuids
  <2>3. CASE k \notin m /\ g \in UNION m
    <3>1. guid_to_pair[g] = None
      BY <2>3, <1>1
    <3>2. pair_managers[k] = None
      BY <3>1, <1>4 DEF LockInv, Consistent
    <3>3. LockedGuids(m)[g] # k
      BY <2>1, <2>3, <1>2 DEF LockedGuids
    <3> QED BY <2>3, <3>2, <3>3 DEF LockedManagers
  <2>4. CASE k \notin m /\ g \notin UNION m
    BY <2>1, <2>4 DEF LockedManagers, LockedGuids, LockInv, Consistent
  <2> QED BY <2>2, <2>3, <2>4
<1>8. Shown(LockedGuids(m), PairingShown(m))
  BY DEF Shown, LockedGuids, PairingShown, LockInv
<1>9. Timed(LockedGuids(m), PairingShown(m), clearTimers)
  BY <1>1, <1>2, <1>4 DEF Timed, LockedGuids, PairingShown, LockInv
<1>10. PairingShown(m) \in OverlayKeys
  BY <1>1, <1>2, OrchestratorAssumption DEF PairingShown, OverlayKeys, Snapshots, LockInv
<1> QED BY <1>5, <1>6, <1>7, <1>8, <1>9, <1>10

(* Releasing a locked pair keeps the two dictionaries consistent: the      *)
(* mappings it drops are those of its drivers, and no others.              *)
LEMMA ReleaseConsistent ==
    ASSUME NEW phases \in [Keys -> Phases \cup {None}],
           NEW guids \in [Drivers -> Keys \cup {None}],
           NEW k \in Keys,
           Consistent(phases, guids), Released(phases, guids, k)
    PROVE  /\ pair_managers' \in [Keys -> Phases \cup {None}]
           /\ guid_to_pair' \in [Drivers -> Keys \cup {None}]
           /\ Consistent(pair_managers', guid_to_pair')
           /\ \A g \in k : guid_to_pair'[g] = None \/ guid_to_pair'[g] = guids[g]
           /\ \A g \in Drivers \ k : guid_to_pair'[g] = guids[g]
<1>1. None \notin Keys
  BY OrchestratorAssumption
<1>2. \A l \in Keys : l \subseteq Drivers
  BY KeyMembers
<1>3. pair_managers' = [phases EXCEPT ![k] = None]
      /\ guid_to_pair' = [g \in Drivers |-> IF guids[g] = k THEN None ELSE guids[g]]
  BY DEF Released
<1>4. Consistent(pair_managers', guid_to_pair')
  BY <1>1, <1>2, <1>3 DEF Consistent
<1>5. \A g \in Drivers \ k : guids[g] # k
  <2> SUFFICES ASSUME NEW g \in Drivers, g \notin k, guids[g] = k PROVE FALSE
    OBVIOUS
  <2>1. guids[g] # None
    BY <1>1
  <2> QED BY <2>1 DEF Consistent
<1>6. \A g \in Drivers : g \in k => guid_to_pair'[g] = None \/ guid_to_pair'[g] = guids[g]
  BY <1>3
<1> QED BY <1>2, <1>3, <1>4, <1>5, <1>6

(* publish_battle_hud for a locked pair.                                   *)
LEMMA PublishShown ==
    ASSUME NEW guids \in [Drivers -> Keys \cup {None}], NEW keys, NEW kind,
           NEW k \in Keys, \A g \in k : guids[g] = k, Shown(guids, keys)
    PROVE  Shown(guids, Published(keys, k, kind))
  BY DEF Shown, Published

(* publish_battle_hud writes snapshots.                                    *)
LEMMA PublishTyped ==
    ASSUME NEW keys \in OverlayKeys, NEW k \in Keys, NEW kind \in {"live", "terminal"}
    PROVE  Published(keys, k, kind) \in OverlayKeys
  BY OrchestratorAssumption DEF OverlayKeys, Published, Snapshots

(* A release without a clear keeps the snapshots as they are, marked left. *)
LEMMA LeftTyped ==
    ASSUME NEW keys \in OverlayKeys, NEW k
    PROVE  Left(keys, k) \in OverlayKeys
  BY OrchestratorAssumption DEF OverlayKeys, Left, Snapshots

(* schedule_clear_battle_hud keeps the timers the others depend on.        *)
LEMMA ScheduleTimed ==
    ASSUME NEW guids, NEW keys, NEW k \in Keys, Timed(guids, keys, clearTimers)
    PROVE  /\ \A g \in k : \E t \in Scheduled(k) : t.owner = g /\ g \in t.ids
           /\ Timed(guids, keys, Scheduled(k))
           /\ clearTimers \subseteq ClearTimers => Scheduled(k) \subseteq ClearTimers
<1>1. \A g \in k : \E t \in Scheduled(k) : t.owner = g /\ g \in t.ids
  <2> SUFFICES ASSUME NEW g \in k
               PROVE  \E t \in Scheduled(k) : t.owner = g /\ g \in t.ids
    OBVIOUS
  <2> DEFINE t == [owner |-> g, ids |-> k, age |-> 0]
  <2>1. t \in Scheduled(k)
    BY DEF Scheduled
  <2>2. t.owner = g /\ g \in t.ids
    OBVIOUS
  <2> QED BY <2>1, <2>2
<1>2. \A g \in Drivers : \A t \in clearTimers :
        g \notin k /\ t.owner = g => t \in Scheduled(k)
  BY DEF Scheduled
<1>3. clearTimers \subseteq ClearTimers => Scheduled(k) \subseteq ClearTimers
  BY OrchestratorAssumption, KeyMembers DEF Scheduled, ClearTimers
<1> QED BY <1>1, <1>2, <1>3 DEF Timed

(* The packet's pair, whatever it does.                                    *)
LEMMA PairKeepsLocks ==
    ASSUME NEW phases \in [Keys -> Phases \cup {None}],
           NEW guids \in [Drivers -> Keys \cup {None}],
           NEW keys \in OverlayKeys, clearTimers \subseteq ClearTimers,
           NEW g \in Drivers, NEW k \in Keys, guids[g] = k, g \in k,
           Consistent(phases, guids), Shown(guids, keys),
           Timed(guids, keys, clearTimers),
           ProcessPair(phases, guids, keys, k) \/ Dissolve(phases, guids, keys, k)
    PROVE  LockInv'
<1>1. /\ None \notin Keys /\ None \notin Phases
      /\ \A l \in Keys : l \subseteq Drivers
      /\ phases[k] # None /\ \A h \in k : guids[h] = k
  BY OrchestratorAssumption, KeyMembers DEF Consistent
<1>2. CASE StayLocked(phases, guids, keys, k)
  <2>1. /\ guid_to_pair' = guids /\ clearTimers' = clearTimers
        /\ \E phase \in Phases : pair_managers' = [phases EXCEPT ![k] = phase]
        /\ hudKey' = keys \/ \E kind \in {"live", "terminal"} : hudKey' = Published(keys, k, kind)
    BY <1>2 DEF StayLocked, Phases
  <2>2. pair_managers' \in [Keys -> Phases \cup {None}] /\ Consistent(pair_managers', guid_to_pair')
    BY <2>1, <1>1 DEF Consistent
  <2>3. Shown(guid_to_pair', hudKey')
    BY <2>1, <1>1, PublishShown
  <2>4. Timed(guid_to_pair', hudKey', clearTimers')
    BY <2>1, <1>1 DEF Timed, Published
  <2>5. hudKey' \in OverlayKeys
    BY <2>1, PublishTyped
  <2> QED BY <2>1, <2>2, <2>3, <2>4, <2>5 DEF LockInv
<1>3. CASE Dissolve(phases, guids, keys, k)
  <2>1. /\ Released(phases, guids, k)
        /\ hudKey' = Published(keys, k, "terminal") /\ clearTimers' = Scheduled(k)
    BY <1>3 DEF Dissolve
  <2>2. Shown(guid_to_pair', hudKey')
    BY <2>1, <1>1, ReleaseConsistent, PublishShown DEF Shown
  <2>3. Timed(guid_to_pair', hudKey', clearTimers')
    <3>1. \A h \in Drivers \ k : guid_to_pair'[h] = guids[h] /\ hudKey'[h] = keys[h]
      BY <2>1, ReleaseConsistent DEF Published
    <3>2. Timed(guids, keys, clearTimers')
          /\ \A h \in k : \E t \in clearTimers' : t.owner = h /\ h \in t.ids
      BY <2>1, ScheduleTimed
    <3> QED BY <3>1, <3>2 DEF Timed
  <2>4. hudKey' \in OverlayKeys /\ clearTimers' \subseteq ClearTimers
    BY <2>1, PublishTyped, ScheduleTimed
  <2> QED BY <2>1, <2>2, <2>3, <2>4, ReleaseConsistent DEF LockInv
<1>4. CASE Finished(phases, guids, keys, k)
  <2>1. Released(phases, guids, k) /\ hudKey' = keys /\ clearTimers' = Scheduled(k)
    BY <1>4 DEF Finished
  <2>2. Shown(guid_to_pair', hudKey')
    BY <2>1, <1>1, ReleaseConsistent DEF Shown
  <2>3. Timed(guid_to_pair', hudKey', clearTimers')
    <3>1. \A h \in Drivers \ k : guid_to_pair'[h] = guids[h]
      BY <2>1, ReleaseConsistent
    <3>2. Timed(guids, keys, clearTimers')
          /\ \A h \in k : \E t \in clearTimers' : t.owner = h /\ h \in t.ids
      BY <2>1, ScheduleTimed
    <3> QED BY <2>1, <3>1, <3>2 DEF Timed
  <2>4. hudKey' \in OverlayKeys /\ clearTimers' \subseteq ClearTimers
    BY <2>1, ScheduleTimed
  <2> QED BY <2>1, <2>2, <2>3, <2>4, ReleaseConsistent DEF LockInv
<1> QED BY <1>2, <1>3, <1>4 DEF ProcessPair

-----------------------------------------------------------------------------
(* The handlers *)

(* Nobody is locked at first.                                             *)
LEMMA LockInit == Init => LockInv
<1> SUFFICES ASSUME Init PROVE LockInv
  OBVIOUS
<1>1. None \notin Keys
  BY OrchestratorAssumption
<1>2. \A k \in Keys : k \subseteq Drivers
  BY KeyMembers
<1> QED BY <1>1, <1>2 DEF Init, LockInv, Consistent, Shown, Timed, OverlayKeys

(* A car packet: a matching is locked, then the driver's pair is treated.   *)
LEMMA UpdateKeepsLocks ==
    ASSUME LockInv, NEW g \in Drivers, NEW overlay, Update(g, overlay)
    PROVE  LockInv'
<1> DEFINE seen == cars \cup {g}
           ages == [silent EXCEPT ![g] = 0]
<1>1. PICK m \in Matchings(Free(seen, ages, overlay)) :
        LET phases == LockedManagers(m)
            guids == LockedGuids(m)
            keys == PairingShown(m)
            k == guids[g]
        IN  \/ /\ k = None
               /\ pair_managers' = phases /\ guid_to_pair' = guids
               /\ hudKey' = keys
               /\ UNCHANGED <<recent_pair_cooldowns, clearTimers>>
            \/ k # None /\ Dissolve(phases, guids, keys, k)
            \/ k # None /\ ProcessPair(phases, guids, keys, k)
  BY DEF Update
<1> DEFINE phases == LockedManagers(m)
           guids == LockedGuids(m)
           keys == PairingShown(m)
           k == guids[g]
<1>2. /\ phases \in [Keys -> Phases \cup {None}]
      /\ guids \in [Drivers -> Keys \cup {None}]
      /\ keys \in OverlayKeys
      /\ Consistent(phases, guids) /\ Shown(guids, keys)
      /\ Timed(guids, keys, clearTimers)
  BY MatchingLocks
<1>3. CASE k = None
  <2>1. pair_managers' = phases /\ guid_to_pair' = guids /\ hudKey' = keys
        /\ clearTimers' = clearTimers
    BY <1>1, <1>3 DEF ProcessPair
  <2> HIDE DEF phases, guids, keys
  <2> QED BY <1>2, <2>1 DEF LockInv
<1>4. CASE k # None
  <2>1. k \in Keys /\ g \in k
    BY <1>2, <1>4 DEF Consistent
  <2>2. Dissolve(phases, guids, keys, k) \/ ProcessPair(phases, guids, keys, k)
    BY <1>1, <1>4
  <2> HIDE DEF phases, guids, keys
  <2> QED BY <1>2, <2>1, <2>2, PairKeepsLocks DEF LockInv
<1> QED BY <1>3, <1>4

(* A driver leaves: its pair is released, its keys stay without a timer.   *)
LEMMA RemoveCarKeepsLocks ==
    ASSUME LockInv, NEW g \in Drivers, RemoveCar(g)
    PROVE  LockInv'
<1> DEFINE k == guid_to_pair[g]
           shown == IF pair_managers[k] = "racing"
                    THEN Published(hudKey, k, "terminal") ELSE hudKey
<1>1. CASE k = None
  BY <1>1 DEF RemoveCar, lockVars, hudVars, LockInv
<1>2. CASE k # None
  <2>1. k \in Keys
    BY <1>2 DEF LockInv
  <2>2. /\ Released(pair_managers, guid_to_pair, k)
        /\ hudKey' = Left(shown, k) /\ clearTimers' = clearTimers
    BY <1>2 DEF RemoveCar
  <2>3. /\ \A h \in Drivers \ k : hudKey'[h] = hudKey[h] /\ guid_to_pair'[h] = guid_to_pair[h]
        /\ \A h \in k : hudKey'[h] # None => hudKey'[h].kind # "terminal"
        /\ \A h \in k : guid_to_pair'[h] = None
    <3>1. \A h \in Drivers \ k : hudKey'[h] = hudKey[h]
      BY <2>2 DEF Left, Published
    <3>2. \A h \in k : hudKey'[h] # None => hudKey'[h].kind # "terminal"
      BY <2>1, <2>2, KeyMembers DEF Left
    <3>3. \A h \in k : guid_to_pair[h] = k
      BY <1>2, <2>1 DEF LockInv, Consistent
    <3>4. \A h \in k : guid_to_pair'[h] = None
      BY <2>1, <2>2, <3>3, KeyMembers DEF Released
    <3> QED BY <2>1, <2>2, <3>1, <3>2, <3>4, ReleaseConsistent DEF LockInv
  <2>4. hudKey' \in OverlayKeys
    <3>1. shown \in OverlayKeys
      BY <2>1, PublishTyped DEF LockInv
    <3> HIDE DEF shown
    <3>2. Left(shown, k) \in OverlayKeys
      BY <3>1, LeftTyped
    <3> QED BY <2>2, <3>2
  <2> QED BY <2>1, <2>2, <2>3, <2>4, ReleaseConsistent DEF LockInv, Shown, Timed
<1> QED BY <1>1, <1>2

(* Leaving battle mode drops every lock, and marks the keys left.          *)
LEMMA ModeKeepsLocks == LockInv /\ SetServerMode => LockInv'
<1> SUFFICES ASSUME LockInv, SetServerMode PROVE LockInv'
  OBVIOUS
<1>1. CASE is_battle_server
  <2>1. /\ pair_managers' = [l \in Keys |-> None]
        /\ guid_to_pair' = [h \in Drivers |-> None]
        /\ clearTimers' = clearTimers
        /\ hudKey' = Left(hudKey, UNION {guid_to_pair[h] : h \in Locked})
    BY <1>1 DEF SetServerMode
  <2>2. None \notin Keys /\ \A l \in Keys : l \subseteq Drivers
    BY OrchestratorAssumption, KeyMembers
  <2>3. Consistent(pair_managers', guid_to_pair') /\ Shown(guid_to_pair', hudKey')
    BY <2>1, <2>2 DEF Consistent, Shown
  <2>4. \A g \in Drivers : guid_to_pair[g] # None
                             => g \in UNION {guid_to_pair[h] : h \in Locked}
    BY DEF LockInv, Consistent, Locked
  <2>5. Timed(guid_to_pair', hudKey', clearTimers')
    BY <2>1, <2>4 DEF Timed, Left, LockInv
  <2> QED BY <2>1, <2>3, <2>5, LeftTyped DEF LockInv
<1>2. CASE ~is_battle_server
  BY <1>2 DEF SetServerMode, lockVars, LockInv
<1> QED BY <1>1, <1>2

(* The deletions and the clock leave the locks alone.                      *)
LEMMA OverlayKeepsLocks ==
    ASSUME LockInv,
           Tick \/ (\E g \in Drivers : KeyExpires(g)) \/ (\E t \in clearTimers : ClearHud(t))
    PROVE  LockInv'
<1>1. CASE Tick
  <2>1. pair_managers' = pair_managers /\ guid_to_pair' = guid_to_pair
    BY <1>1 DEF Tick
  <2>2. ASSUME NEW g \in Drivers
        PROVE  /\ hudKey'[g] \in Snapshots \cup {None}
               /\ hudKey'[g] # None => /\ hudKey[g] # None
                                       /\ hudKey'[g].pair = hudKey[g].pair
                                       /\ hudKey'[g].kind = hudKey[g].kind
    <3>1. hudKey[g] \in Snapshots \cup {None}
      BY DEF LockInv, OverlayKeys
    <3> QED BY <1>1, <3>1, OrchestratorAssumption DEF Tick, Snapshots
  <2>3. hudKey' \in OverlayKeys
    BY <1>1, <2>2 DEF Tick, OverlayKeys
  <2>4. ASSUME NEW t \in clearTimers
        PROVE  LET u == [t EXCEPT !.age = @ + 1]
               IN  u \in clearTimers' /\ u \in ClearTimers /\ u.owner = t.owner /\ u.ids = t.ids
    <3>1. t \in ClearTimers /\ t.age < HUD_BATTLE_CLEAR_DELAY
      BY <1>1 DEF Tick, LockInv
    <3>2. [t EXCEPT !.age = @ + 1] \in clearTimers'
      BY <1>1 DEF Tick
    <3> QED BY <3>1, <3>2, OrchestratorAssumption DEF ClearTimers
  <2>5. clearTimers' \subseteq ClearTimers
    BY <1>1, <2>4 DEF Tick
  <2>6. \A t \in clearTimers : \E u \in clearTimers' : u.owner = t.owner /\ u.ids = t.ids
    BY <2>4
  <2> QED BY <2>1, <2>2, <2>3, <2>5, <2>6 DEF LockInv, Shown, Timed
<1>2. CASE \E g \in Drivers : KeyExpires(g)
  BY <1>2 DEF KeyExpires, lockVars, LockInv, OverlayKeys, Shown, Timed
<1>3. ASSUME NEW t \in clearTimers, ClearHud(t) PROVE LockInv'
  <2>1. /\ pair_managers' = pair_managers /\ guid_to_pair' = guid_to_pair
        /\ \A g \in Drivers : hudKey'[g] = None \/ (hudKey'[g] = hudKey[g] /\ g \notin t.ids)
    BY <1>3 DEF ClearHud, lockVars
  <2>2. \A u \in clearTimers : u.owner \notin t.ids /\ u # t => u \in clearTimers'
    BY <1>3 DEF ClearHud
  <2>3. \A g \in Drivers \ t.ids : \A u \in clearTimers :
          u.owner = g /\ g \in u.ids => u \in clearTimers'
    BY <2>2
  <2>4. hudKey' \in OverlayKeys /\ clearTimers' \subseteq ClearTimers
    BY <1>3 DEF ClearHud, LockInv, OverlayKeys, ClearTimers
  <2> QED BY <2>1, <2>3, <2>4 DEF LockInv, Shown, Timed
<1> QED BY <1>1, <1>2, <1>3

(* The inductive step.                                                     *)
LEMMA LockStep == LockInv /\ [Next]_vars => LockInv'
<1> SUFFICES ASSUME LockInv, [Next]_vars PROVE LockInv'
  OBVIOUS
<1>1. CASE Next
  BY <1>1, UpdateKeepsLocks, RemoveCarKeepsLocks, ModeKeepsLocks, OverlayKeepsLocks
     DEF Next
<1>2. CASE UNCHANGED vars
  BY <1>2 DEF vars, lockVars, hudVars, LockInv
<1> QED BY <1>1, <1>2

(* The inductive invariant holds throughout.                               *)
LEMMA LocksInvariant == Spec => []LockInv
  BY LockInit, LockStep, PTL DEF Spec

-----------------------------------------------------------------------------
(* What TypeOK says of the variables no lock depends on.                   *)
RestOK ==
    /\ is_battle_server \in BOOLEAN
    /\ cars \subseteq Drivers /\ silent \in [Drivers -> 0 .. INACTIVE]
    /\ recent_pair_cooldowns \in [Keys -> 0 .. FINISHED_COOLDOWN]

(* Every step keeps them in range.                                         *)
LEMMA RestStep == RestOK /\ [Next]_vars => RestOK'
<1> SUFFICES ASSUME RestOK, [Next]_vars PROVE RestOK'
  OBVIOUS
<1>1. ASSUME NEW g \in Drivers, NEW overlay, Update(g, overlay) PROVE RestOK'
  <2>1. /\ is_battle_server' = is_battle_server /\ cars' = cars \cup {g}
        /\ silent' = [silent EXCEPT ![g] = 0]
        /\ \/ recent_pair_cooldowns' = recent_pair_cooldowns
           \/ \E k : recent_pair_cooldowns' = [recent_pair_cooldowns EXCEPT ![k] = FINISHED_COOLDOWN]
    BY <1>1 DEF Update, Dissolve, ProcessPair, StayLocked, Finished
  <2> QED BY <2>1, OrchestratorAssumption DEF RestOK
<1>2. ASSUME NEW g \in Drivers, RemoveCar(g) PROVE RestOK'
  BY <1>2, OrchestratorAssumption DEF RemoveCar, lockVars, RestOK
<1>3. CASE SetServerMode
  BY <1>3, OrchestratorAssumption DEF SetServerMode, lockVars, RestOK
<1>4. CASE Tick
  BY <1>4, OrchestratorAssumption DEF Tick, RestOK
<1>5. CASE \E g \in Drivers : KeyExpires(g)
  BY <1>5 DEF KeyExpires, lockVars, RestOK
<1>6. CASE \E t \in clearTimers : ClearHud(t)
  BY <1>6 DEF ClearHud, lockVars, RestOK
<1>7. CASE UNCHANGED vars
  BY <1>7 DEF vars, lockVars, RestOK
<1> QED BY <1>1, <1>2, <1>3, <1>4, <1>5, <1>6, <1>7 DEF Next

(* Locks, keys, timers and cooldowns keep their types through every packet *)
(* handler, timer and clock tick.                                          *)
THEOREM OrchestratorTypes == Spec => []TypeOK
<1>1. Init => RestOK
  BY OrchestratorAssumption DEF Init, RestOK
<1>2. Spec => []RestOK
  BY <1>1, RestStep, PTL DEF Spec
<1>3. RestOK /\ LockInv => TypeOK
  BY DEF RestOK, LockInv, OverlayKeys, TypeOK
<1> QED BY <1>2, <1>3, LocksInvariant, PTL

(* The dictionaries of BattleManager agree after every handler: a pair has *)
(* a manager exactly when both its drivers are mapped to it.               *)
THEOREM DictionariesAgree == Spec => []LockConsistent
<1>1. LockInv => LockConsistent
  BY DEF LockInv, Consistent, LockConsistent
<1> QED BY <1>1, LocksInvariant, PTL

(* A locked driver's overlay shows its own battle: a new lock overwrites   *)
(* whatever the last one left.                                             *)
THEOREM OverlayOfOwnPair == Spec => []OwnPairShown
<1>1. LockInv => OwnPairShown
  BY DEF LockInv, Shown, OwnPairShown
<1> QED BY <1>1, LocksInvariant, PTL

(* Whatever timers the drivers' next pairs replace and deletions forget, a *)
(* result that a release leaves on an overlay has a timer to delete it.    *)
THEOREM TerminalsAreCleared == Spec => []TerminalHasTimer
<1>1. LockInv => TerminalHasTimer
  BY DEF LockInv, Timed, TerminalHasTimer
<1> QED BY <1>1, LocksInvariant, PTL

-----------------------------------------------------------------------------
(* Two threads *)

UdpPcs == {"idle", "match", "lookup", "work", "dissolve", "dispatch", "finish", "cleanup"}
RemoverPcs == {"idle", "abandon", "dispatch", "finish", "release"}

TypeInv ==
    /\ present \subseteq Drivers
    /\ pairOf \in [Drivers -> Keys \cup {None}]
    /\ managerOf \in [Keys -> 0 .. Len(managers)]
    /\ cooling \subseteq Keys
    /\ managers \in Seq(Managers) /\ Len(managers) <= MaxBattles
    /\ udp \in Threads(UdpPcs) /\ remover \in Threads(RemoverPcs)
    /\ removals \in 0 .. MaxRemovals

(* What a thread holds while it works on a pair.                           *)
UdpHolds ==
    /\ udp.pc # "idle" => udp.g \in Drivers
    /\ udp.pc \notin {"idle", "match", "lookup"} =>
         udp.k \in Keys /\ udp.m \in 1 .. Len(managers)
RemoverHolds ==
    /\ remover.pc # "idle" => remover.k \in Keys
    /\ remover.pc \notin {"idle", "release"} => remover.m \in 1 .. Len(managers)

(* A driver's pair contains the driver.                                    *)
OwnPair == \A g \in Drivers : pairOf[g] # None => g \in pairOf[g]

(* The candidates of the matchmaker are free until they are locked.        *)
CandidatesFree ==
    udp.pc = "match" /\ udp.k # None => \A h \in udp.k : pairOf[h] = None

(* A locked driver without a car is the one the remover is taking out.     *)
GoneAreReleased ==
    \A g \in Drivers : pairOf[g] # None /\ g \notin present =>
        remover.pc # "idle" /\ pairOf[g] = remover.k

TeardownInv ==
    /\ TypeInv /\ UdpHolds /\ RemoverHolds
    /\ OwnPair /\ CandidatesFree /\ LocksAgree /\ GoneAreReleased

LockPart == OwnPair /\ CandidatesFree /\ LocksAgree /\ GoneAreReleased

(* A key is a pair of two drivers.                                         *)
LEMMA KeysArePairs == \A k \in Keys : k \subseteq Drivers
BY DEF Keys

(* The managers built so far keep their number and their types when one of *)
(* them is changed.                                                        *)
LEMMA ManagerChanged ==
    ASSUME managers \in Seq(Managers), NEW m \in 1 .. Len(managers),
           NEW mgr \in Managers, managers' = [managers EXCEPT ![m] = mgr]
    PROVE  managers' \in Seq(Managers) /\ Len(managers') = Len(managers)
BY DEF Managers

(* _release_pair, by whichever thread.                                     *)
LEMMA ReleaseKeeps ==
    ASSUME NEW k \in Keys, Release(k), TypeInv, LockPart,
           Len(managers') = Len(managers), present \subseteq present',
           udp'.pc = "match" => udp' = udp,
           remover' = remover \/ k = remover.k
    PROVE  /\ pairOf' \in [Drivers -> Keys \cup {None}]
           /\ managerOf' \in [Keys -> 0 .. Len(managers')]
           /\ LockPart'
<1>1. /\ \A g \in Drivers : pairOf'[g] = IF pairOf[g] = k THEN None ELSE pairOf[g]
      /\ \A l \in Keys : managerOf'[l] = IF l = k THEN 0 ELSE managerOf[l]
  BY DEF Release, TypeInv
<1>2. /\ pairOf' \in [Drivers -> Keys \cup {None}]
      /\ managerOf' \in [Keys -> 0 .. Len(managers')]
  <2>1. Len(managers) \in Nat
    BY DEF TypeInv
  <2> QED BY <2>1 DEF Release, TypeInv
<1>3. OwnPair'
  BY <1>1 DEF LockPart, OwnPair
<1>4. CandidatesFree'
  BY <1>1, KeysArePairs DEF LockPart, CandidatesFree, TypeInv, Threads
<1>5. LocksAgree'
  BY TeardownAssumption, <1>1, KeysArePairs DEF LockPart, LocksAgree
<1>6. GoneAreReleased'
  BY <1>1 DEF LockPart, GoneAreReleased
<1> QED BY <1>2, <1>3, <1>4, <1>5, <1>6 DEF LockPart
(* A step of either thread that works on a manager and leaves the tables.  *)
LEMMA WorkKeeps ==
    ASSUME TeardownInv,
           managers' \in Seq(Managers), Len(managers') = Len(managers),
           UNCHANGED <<present, pairOf, managerOf, removals>>, cooling' \subseteq Keys,
           udp' \in Threads(UdpPcs), UdpHolds', udp'.pc = "match" => udp' = udp,
           remover' \in Threads(RemoverPcs), RemoverHolds',
           \/ remover' = remover
           \/ remover.pc # "idle" /\ remover'.pc # "idle" /\ remover'.k = remover.k
    PROVE  TeardownInv'
BY DEF TeardownInv, TypeInv, OwnPair, CandidatesFree, LocksAgree, GoneAreReleased

(* A step of either thread that releases a pair.                           *)
LEMMA ReleaseStep ==
    ASSUME TeardownInv, NEW k \in Keys, Release(k),
           managers' \in Seq(Managers), Len(managers') = Len(managers),
           UNCHANGED <<present, removals>>, cooling' \subseteq Keys,
           udp' \in Threads(UdpPcs), UdpHolds', udp'.pc = "match" => udp' = udp,
           remover' \in Threads(RemoverPcs), RemoverHolds',
           remover' = remover \/ k = remover.k
    PROVE  TeardownInv'
<1>1. /\ pairOf' \in [Drivers -> Keys \cup {None}]
      /\ managerOf' \in [Keys -> 0 .. Len(managers')]
      /\ LockPart'
  BY ReleaseKeeps DEF TeardownInv, LockPart
<1> QED BY <1>1 DEF TeardownInv, TypeInv, LockPart

-----------------------------------------------------------------------------
(* The listener's steps.                                                   *)

LEMMA UdpPacketKeeps ==
    ASSUME TeardownInv, NEW g \in Drivers, UdpPacket(g)
    PROVE  TeardownInv'
<1>1. PICK k \in {None} \cup {l \in Keys \ cooling :
                                 \A h \in l : h \in present' /\ pairOf[h] = None} :
        udp' = [pc |-> "match", g |-> g, k |-> k, m |-> 0]
  BY DEF UdpPacket
<1>2. /\ present' = present \cup {g} /\ UNCHANGED <<tableVars, managers, remover, removals>>
      /\ udp'.pc = "match" /\ udp'.g = g /\ udp'.k = k
      /\ udp' \in Threads(UdpPcs)
  BY TeardownAssumption, <1>1 DEF UdpPacket, Threads, UdpPcs
<1> QED BY <1>1, <1>2 DEF TeardownInv, TypeInv, UdpHolds, RemoverHolds, OwnPair,
        CandidatesFree, LocksAgree, GoneAreReleased, tableVars

LEMMA UdpMatchKeeps ==
    ASSUME TeardownInv, UdpMatch PROVE TeardownInv'
<1>1. /\ present' = present /\ cooling' = cooling /\ remover' = remover /\ removals' = removals
      /\ udp.pc = "match" /\ udp' = [udp EXCEPT !.pc = "lookup"]
  BY DEF UdpMatch, UdpAt, UdpGoto
<1>2. udp' \in Threads(UdpPcs) /\ udp'.pc = "lookup" /\ udp'.g \in Drivers
  BY <1>1 DEF TeardownInv, TypeInv, Threads, UdpPcs, UdpHolds
<1>3. CASE UNCHANGED <<managers, managerOf, pairOf>>
  BY <1>1, <1>2, <1>3 DEF TeardownInv, TypeInv, UdpHolds, RemoverHolds, OwnPair,
     CandidatesFree, LocksAgree, GoneAreReleased
<1>4. CASE /\ udp.k # None /\ udp.k \subseteq present /\ managerOf[udp.k] = 0
           /\ Len(managers) < MaxBattles /\ Locks(udp.k)
  <2> DEFINE k == udp.k
             new == [pair |-> k, state |-> "pre", cars |-> {}, id |-> FALSE,
                     points |-> FALSE, sent |-> <<>>]
  <2>1. k \in Keys /\ k \subseteq Drivers
    BY <1>4, KeysArePairs DEF TeardownInv, TypeInv, Threads
  <2>2. new \in Managers
    BY <2>1 DEF Managers
  <2>3. /\ managers' \in Seq(Managers) /\ Len(managers') = Len(managers) + 1
        /\ Len(managers) \in Nat
    BY <1>4, <2>2 DEF Locks, TeardownInv, TypeInv
  <2>4. /\ \A l \in Keys : managerOf'[l] = IF l = k THEN Len(managers) + 1 ELSE managerOf[l]
        /\ \A h \in Drivers : pairOf'[h] = IF h \in k THEN k ELSE pairOf[h]
        /\ pairOf' \in [Drivers -> Keys \cup {None}]
        /\ managerOf' \in [Keys -> 0 .. Len(managers')]
    <3>1. pairOf' = [h \in Drivers |-> IF h \in k THEN k ELSE pairOf[h]]
      BY <1>4 DEF Locks
    <3>2. managerOf' = [managerOf EXCEPT ![k] = Len(managers) + 1]
      BY <1>4 DEF Locks
    <3> HIDE DEF k
    <3> QED BY <3>1, <3>2, <2>1, <2>3 DEF TeardownInv, TypeInv
  <2>5. \A h \in k : pairOf[h] = None
    BY <1>1, <1>4 DEF TeardownInv, CandidatesFree
  <2>6. TypeInv'
    BY TeardownAssumption, <1>1, <1>2, <1>4, <2>3, <2>4 DEF TeardownInv, TypeInv
  <2>7. UdpHolds' /\ RemoverHolds'
    BY <1>1, <1>2, <2>3 DEF TeardownInv, UdpHolds, RemoverHolds
  <2>8. OwnPair' /\ GoneAreReleased' /\ CandidatesFree'
    BY <1>1, <1>2, <1>4, <2>1, <2>4 DEF TeardownInv, OwnPair, GoneAreReleased, CandidatesFree
  <2>9. LocksAgree'
    BY TeardownAssumption, <1>4, <2>1, <2>3, <2>4, <2>5, KeysArePairs DEF TeardownInv, LocksAgree
  <2> QED BY <2>6, <2>7, <2>8, <2>9 DEF TeardownInv
<1> QED BY <1>3, <1>4 DEF UdpMatch

(* A mapping without a manager is dropped: there is none.                  *)
LEMMA UdpLookupKeeps ==
    ASSUME TeardownInv, UdpLookup PROVE TeardownInv'
<1> DEFINE k == pairOf[udp.g]
<1>1. udp.g \in Drivers /\ udp.pc = "lookup"
      /\ UNCHANGED <<present, managerOf, cooling, managers, remover, removals>>
  BY DEF UdpLookup, UdpAt, TeardownInv, UdpHolds
<1>2. CASE k # None /\ managerOf[k] # 0
  <2>1. /\ udp' = [udp EXCEPT !.pc = "work", !.k = k, !.m = managerOf[k]]
        /\ pairOf' = pairOf
    BY <1>2 DEF UdpLookup
  <2>2. k \in Keys /\ managerOf[k] \in 1 .. Len(managers) /\ Len(managers) \in Nat
        /\ Len(managers) <= MaxBattles
    BY <1>1, <1>2 DEF TeardownInv, TypeInv
  <2>3. /\ udp'.pc = "work" /\ udp'.k = k /\ udp'.m = managerOf[k] /\ udp'.g = udp.g
        /\ udp' \in Threads(UdpPcs)
    <3>1. udp \in Threads(UdpPcs) /\ managerOf[k] \in 0 .. MaxBattles
      BY TeardownAssumption, <2>2 DEF TeardownInv, TypeInv
    <3> HIDE DEF k
    <3> QED BY <2>1, <2>2, <3>1 DEF Threads, UdpPcs
  <2> QED BY <1>1, <2>1, <2>2, <2>3 DEF TeardownInv, TypeInv, UdpHolds, RemoverHolds, OwnPair,
          CandidatesFree, LocksAgree, GoneAreReleased
<1>3. CASE ~(k # None /\ managerOf[k] # 0)
  <2>1. udp' = Idle /\ pairOf' = [pairOf EXCEPT ![udp.g] = None]
    BY <1>3 DEF UdpLookup, UdpDone
  <2>2. k = None
    <3>1. k \in Keys \cup {None} /\ (k # None => udp.g \in k)
      BY <1>1 DEF TeardownInv, TypeInv, OwnPair
    <3>2. k \in Keys => k = None
      BY <1>3, <3>1, <1>1 DEF TeardownInv, LocksAgree
    <3> QED BY <3>1, <3>2
  <2>3. pairOf' = pairOf
    BY <2>1, <2>2, <1>1 DEF TeardownInv, TypeInv
  <2>4. udp'.pc = "idle" /\ udp' \in Threads(UdpPcs)
    BY TeardownAssumption, <2>1 DEF Idle, Threads, UdpPcs
  <2> QED BY <1>1, <2>3, <2>4 DEF TeardownInv, TypeInv, UdpHolds, RemoverHolds, OwnPair,
          CandidatesFree, LocksAgree, GoneAreReleased
<1> QED BY <1>2, <1>3
(* The listener's record when only its pc changes, and when it is done.    *)
LEMMA UdpGoes ==
    ASSUME TeardownInv, NEW pc \in UdpPcs \ {"match"}, UdpGoto(pc), udp.pc \notin {"idle", "match", "lookup"},
           Len(managers') = Len(managers)
    PROVE  udp' \in Threads(UdpPcs) /\ UdpHolds' /\ udp'.pc # "match"
<1>1. /\ udp' \in Threads(UdpPcs) /\ udp'.pc = pc /\ udp'.g = udp.g /\ udp'.k = udp.k
      /\ udp'.m = udp.m
  BY DEF UdpGoto, TeardownInv, TypeInv, Threads
<1> QED BY <1>1 DEF TeardownInv, UdpHolds

LEMMA UdpIdles ==
    ASSUME UdpDone
    PROVE  udp' \in Threads(UdpPcs) /\ UdpHolds' /\ udp'.pc # "match"
<1>1. udp' \in Threads(UdpPcs) /\ udp'.pc = "idle"
  BY TeardownAssumption DEF UdpDone, Idle, Threads, UdpPcs
<1> QED BY <1>1 DEF UdpHolds

LEMMA UdpWorkKeeps ==
    ASSUME TeardownInv, UdpWork PROVE TeardownInv'
<1> DEFINE m == udp.m
           mgr == managers[m]
           seen == mgr.cars \cup (mgr.pair \cap present)
           With(state, id, points) ==
             managers' = [managers EXCEPT ![m] =
               [@ EXCEPT !.cars = seen, !.state = state, !.id = id, !.points = points]]
<1>1. /\ UNCHANGED <<present, remover, removals>> /\ udp.pc = "work"
      /\ m \in 1 .. Len(managers) /\ udp.k \in Keys /\ mgr \in Managers
  BY DEF UdpWork, UdpAt, TeardownInv, TypeInv, UdpHolds
<1>2. ASSUME NEW state \in {"pre", "ACTIVE", "FINISHED"}, NEW id \in BOOLEAN,
             NEW points \in BOOLEAN, With(state, id, points)
      PROVE  managers' \in Seq(Managers) /\ Len(managers') = Len(managers)
  <2> DEFINE new == [mgr EXCEPT !.cars = seen, !.state = state, !.id = id, !.points = points]
  <2>1. seen \subseteq Drivers
    BY <1>1 DEF TeardownInv, TypeInv, Managers
  <2>2. new \in Managers
    <3> HIDE DEF mgr, seen
    <3> QED BY <1>1, <2>1 DEF Managers
  <2>3. managers' = [managers EXCEPT ![m] = new]
    BY <1>2
  <2> HIDE DEF new, m
  <2> QED BY <1>1, <2>2, <2>3, ManagerChanged DEF TeardownInv, TypeInv
<1>3. mgr.state \in {"pre", "ACTIVE", "FINISHED"} /\ mgr.id \in BOOLEAN /\ mgr.points \in BOOLEAN
  BY <1>1 DEF Managers
<1>4. \/ /\ \E state \in {"pre", "ACTIVE", "FINISHED"}, id \in BOOLEAN, points \in BOOLEAN :
              With(state, id, points)
         /\ \E pc \in UdpPcs \ {"match"} : UdpGoto(pc)
         /\ UNCHANGED tableVars
      \/ /\ With("pre", FALSE, mgr.points) /\ UdpDone
         /\ Release(udp.k) /\ cooling' = cooling \cup {udp.k}
  <2> HIDE DEF With, mgr, m
  <2> QED BY <1>3 DEF UdpWork, UdpPcs, With, mgr, m
<1>5. RemoverHolds' /\ remover' \in Threads(RemoverPcs)
      /\ managers' \in Seq(Managers) /\ Len(managers') = Len(managers)
  <2> HIDE DEF With
  <2>1. managers' \in Seq(Managers) /\ Len(managers') = Len(managers)
    BY <1>2, <1>3, <1>4
  <2> QED BY <1>1, <2>1 DEF TeardownInv, TypeInv, RemoverHolds
<1> HIDE DEF With, mgr, m
<1>6. CASE UNCHANGED tableVars /\ \E pc \in UdpPcs \ {"match"} : UdpGoto(pc)
  BY <1>1, <1>5, <1>6, UdpGoes, WorkKeeps DEF tableVars, TeardownInv, TypeInv
<1>7. CASE UdpDone /\ Release(udp.k) /\ cooling' = cooling \cup {udp.k}
  BY <1>1, <1>5, <1>7, UdpIdles, ReleaseStep DEF TeardownInv, TypeInv
<1> QED BY <1>4, <1>6, <1>7

(* A manager gets another state, id or outcome.                            *)
LEMMA ManagerTouched ==
    ASSUME TeardownInv, NEW m \in 1 .. Len(managers),
           \/ \E state \in {"pre", "ACTIVE", "FINISHED"} :
                managers' = [managers EXCEPT ![m].state = state]
           \/ Reset(m)
           \/ \E how \in {"finish", "abandon"} : Dispatch(m, how)
           \/ \E g : managers' = [managers EXCEPT ![m].cars = @ \ {g}]
    PROVE  managers' \in Seq(Managers) /\ Len(managers') = Len(managers)
<1>1. managers[m] \in Managers /\ managers \in Seq(Managers)
  BY DEF TeardownInv, TypeInv
<1>2. PICK mgr \in Managers : managers' = [managers EXCEPT ![m] = mgr]
  <2>1. ASSUME NEW state \in {"pre", "ACTIVE", "FINISHED"},
               managers' = [managers EXCEPT ![m].state = state]
        PROVE  \E mgr \in Managers : managers' = [managers EXCEPT ![m] = mgr]
    <3>1. [managers[m] EXCEPT !.state = state] \in Managers
      BY <1>1 DEF Managers
    <3> QED BY <2>1, <3>1
  <2>2. ASSUME Reset(m)
        PROVE  \E mgr \in Managers : managers' = [managers EXCEPT ![m] = mgr]
    <3>1. [managers[m] EXCEPT !.state = "pre", !.id = FALSE] \in Managers
      BY <1>1 DEF Managers
    <3>2. managers' = [managers EXCEPT ![m] = [managers[m] EXCEPT !.state = "pre", !.id = FALSE]]
      BY <2>2, <1>1 DEF Reset, Managers
    <3> QED BY <3>1, <3>2
  <2>3. ASSUME NEW how \in {"finish", "abandon"}, Dispatch(m, how)
        PROVE  \E mgr \in Managers : managers' = [managers EXCEPT ![m] = mgr]
    <3>0. Append(managers[m].sent, how) \in Seq({"finish", "abandon"})
      <4>1. managers[m].sent \in Seq({"finish", "abandon"})
        BY <1>1 DEF Managers
      <4> QED BY <4>1
    <3>1. [managers[m] EXCEPT !.sent = Append(@, how)] \in Managers
      BY <1>1, <3>0 DEF Managers
    <3>2. CASE managers[m].id
      BY <2>3, <3>1, <3>2 DEF Dispatch
    <3>3. CASE ~managers[m].id
      <4>1. managers' = [managers EXCEPT ![m] = managers[m]]
        BY <2>3, <3>3, <1>1 DEF Dispatch
      <4> QED BY <4>1, <1>1
    <3> QED BY <3>2, <3>3
  <2>4. ASSUME NEW g, managers' = [managers EXCEPT ![m].cars = @ \ {g}]
        PROVE  \E mgr \in Managers : managers' = [managers EXCEPT ![m] = mgr]
    <3>1. [managers[m] EXCEPT !.cars = @ \ {g}] \in Managers
      BY <1>1 DEF Managers
    <3> QED BY <2>4, <3>1
  <2> QED BY <2>1, <2>2, <2>3, <2>4
<1> QED BY <1>1, <1>2, ManagerChanged

(* The rest of the listener: after the snapshot of a dissolved pair, after *)
(* chat and outcome of a finished one, and the last look at the pair.      *)
LEMMA UdpEndKeeps ==
    ASSUME TeardownInv, UdpDissolve \/ UdpDispatch \/ UdpFinish \/ UdpCleanup
    PROVE  TeardownInv'
<1>1. /\ UNCHANGED <<present, remover, removals, cooling>>
      /\ udp.pc \in {"dissolve", "dispatch", "finish", "cleanup"}
      /\ udp.m \in 1 .. Len(managers) /\ udp.k \in Keys
  BY DEF UdpDissolve, UdpDispatch, UdpFinish, UdpCleanup, UdpAt, tableVars, TeardownInv, UdpHolds
<1>2. managers' \in Seq(Managers) /\ Len(managers') = Len(managers)
  BY <1>1, ManagerTouched DEF UdpDissolve, UdpDispatch, UdpFinish, UdpCleanup, TeardownInv, TypeInv
<1>3. RemoverHolds' /\ remover' \in Threads(RemoverPcs)
  BY <1>1, <1>2 DEF TeardownInv, TypeInv, RemoverHolds
<1>4. \/ UdpDone
      \/ \E pc \in UdpPcs \ {"match"} : UdpGoto(pc)
  BY DEF UdpDissolve, UdpDispatch, UdpFinish, UdpCleanup, UdpPcs
<1>5. udp' \in Threads(UdpPcs) /\ UdpHolds' /\ udp'.pc # "match"
  BY <1>1, <1>2, <1>4, UdpGoes, UdpIdles
<1>6. \/ Release(udp.k)
      \/ UNCHANGED <<pairOf, managerOf>>
  BY DEF UdpDissolve, UdpDispatch, UdpFinish, UdpCleanup, tableVars
<1>7. cooling' \subseteq Keys
  BY <1>1 DEF TeardownInv, TypeInv
<1> QED BY <1>1, <1>2, <1>3, <1>5, <1>6, <1>7, WorkKeeps, ReleaseStep

-----------------------------------------------------------------------------
(* The remover's steps.                                                    *)

LEMMA RemovalKeeps ==
    ASSUME TeardownInv, NEW g \in Drivers, remove_car(g)
    PROVE  TeardownInv'
<1> DEFINE k == pairOf[g]
           m == IF k = None THEN 0 ELSE managerOf[k]
<1>1. /\ present' = present \ {g} /\ removals' \in 0 .. MaxRemovals
      /\ UNCHANGED <<pairOf, managerOf, cooling, udp>>
      /\ remover.pc = "idle" /\ k \in Keys \cup {None}
  BY TeardownAssumption DEF remove_car, RemoverAt, tableVars, TeardownInv, TypeInv
<1>2. CASE k = None
  <2>1. managers' = managers /\ remover' = remover
    BY <1>2 DEF remove_car
  <2> QED BY <1>1, <1>2, <2>1 DEF TeardownInv, TypeInv, UdpHolds, RemoverHolds, OwnPair,
          CandidatesFree, LocksAgree, GoneAreReleased
<1>3. CASE k # None
  <2>1. m \in 0 .. Len(managers) /\ k \in Keys /\ Len(managers) \in Nat /\ Len(managers) <= MaxBattles
    BY <1>1, <1>3 DEF TeardownInv, TypeInv
  <2>2. managers' \in Seq(Managers) /\ Len(managers') = Len(managers)
    <3>1. managers' = IF m = 0 THEN managers ELSE [managers EXCEPT ![m].cars = @ \ {g}]
      BY <1>3 DEF remove_car
    <3>2. m = 0 => managers' = managers
      BY <3>1
    <3>3. m # 0 => m \in 1 .. Len(managers) /\ managers' = [managers EXCEPT ![m].cars = @ \ {g}]
      BY <3>1, <2>1
    <3> HIDE DEF m, k
    <3>4. CASE m = 0
      BY <3>2, <3>4 DEF TeardownInv, TypeInv
    <3>5. CASE m # 0
      BY <3>3, <3>5, ManagerTouched
    <3> QED BY <3>4, <3>5
  <2>3. PICK pc \in RemoverPcs \ {"idle"} :
          /\ m = 0 => pc = "release"
          /\ remover' = [g |-> g, k |-> k, m |-> m, pc |-> pc]
    <3>1. \E pc \in IF m = 0 THEN {"release"} ELSE AfterRemoval(managers[m].state) :
            remover' = [g |-> g, k |-> k, m |-> m, pc |-> pc]
      BY <1>3 DEF remove_car
    <3> HIDE DEF m, k
    <3>2. m # 0 => managers[m].state \in {"pre", "ACTIVE", "FINISHED"}
      <4>1. m # 0 => m \in 1 .. Len(managers)
        BY <2>1
      <4>2. m # 0 => managers[m] \in Managers
        BY <4>1 DEF TeardownInv, TypeInv
      <4> QED BY <4>2 DEF Managers
    <3> QED BY <3>1, <3>2 DEF AfterRemoval, RemoverPcs
  <2>4. /\ remover'.pc = pc /\ remover'.k = k /\ remover'.m = m
        /\ remover' \in Threads(RemoverPcs)
    <3> HIDE DEF m, k
    <3> QED BY TeardownAssumption, <2>1, <2>3 DEF Threads
  <2>5. RemoverHolds' /\ UdpHolds'
    <3> HIDE DEF m, k
    <3> QED BY <1>1, <2>1, <2>2, <2>3, <2>4 DEF RemoverHolds, UdpHolds, TeardownInv
  <2>6. TypeInv'
    BY <1>1, <2>2, <2>4 DEF TeardownInv, TypeInv
  <2>7. OwnPair' /\ CandidatesFree' /\ LocksAgree'
    BY <1>1 DEF TeardownInv, OwnPair, CandidatesFree, LocksAgree
  <2>8. GoneAreReleased'
    BY <1>1, <2>3, <2>4 DEF TeardownInv, GoneAreReleased
  <2> QED BY <2>5, <2>6, <2>7, <2>8 DEF TeardownInv
<1> QED BY <1>2, <1>3

LEMMA RemoverGoes ==
    ASSUME TeardownInv, NEW pc \in RemoverPcs \ {"idle"}, RemoverGoto(pc),
           remover.pc \notin {"idle", "release"}, Len(managers') = Len(managers)
    PROVE  /\ remover' \in Threads(RemoverPcs) /\ RemoverHolds'
           /\ remover'.pc # "idle" /\ remover'.k = remover.k
<1>1. /\ remover' \in Threads(RemoverPcs) /\ remover'.pc = pc /\ remover'.k = remover.k
      /\ remover'.m = remover.m
  BY DEF RemoverGoto, TeardownInv, TypeInv, Threads
<1> QED BY <1>1 DEF TeardownInv, RemoverHolds

LEMMA RemoverWorkKeeps ==
    ASSUME TeardownInv, RemoverAbandon \/ RemoverDispatch \/ RemoverFinish
    PROVE  TeardownInv'
<1>1. /\ UNCHANGED <<present, tableVars, udp, removals>>
      /\ remover.pc \in {"abandon", "dispatch", "finish"} /\ remover.m \in 1 .. Len(managers)
  BY DEF RemoverAbandon, RemoverDispatch, RemoverFinish, RemoverAt, TeardownInv, RemoverHolds
<1>2. managers' \in Seq(Managers) /\ Len(managers') = Len(managers)
  BY <1>1, ManagerTouched DEF RemoverAbandon, RemoverDispatch, RemoverFinish, TeardownInv, TypeInv
<1>3. \E pc \in RemoverPcs \ {"idle"} : RemoverGoto(pc)
  BY DEF RemoverAbandon, RemoverDispatch, RemoverFinish, RemoverPcs
<1>4. UdpHolds' /\ udp' \in Threads(UdpPcs)
  BY <1>1, <1>2 DEF TeardownInv, TypeInv, UdpHolds
<1> QED BY <1>1, <1>2, <1>3, <1>4, RemoverGoes, WorkKeeps DEF tableVars, TeardownInv, TypeInv

(* The pair the remover read at first is released.                         *)
LEMMA RemoverReleaseKeeps ==
    ASSUME TeardownInv, RemoverRelease PROVE TeardownInv'
<1>1. /\ UNCHANGED <<present, cooling, managers, udp, removals>> /\ Release(remover.k)
      /\ remover.k \in Keys /\ remover' = NotRemoving
  BY DEF RemoverRelease, RemoverAt, TeardownInv, RemoverHolds
<1>2. remover' \in Threads(RemoverPcs) /\ remover'.pc = "idle"
  BY TeardownAssumption, <1>1 DEF NotRemoving, Threads, RemoverPcs
<1>3. /\ pairOf' \in [Drivers -> Keys \cup {None}]
      /\ managerOf' \in [Keys -> 0 .. Len(managers')]
      /\ LockPart'
  BY <1>1, ReleaseKeeps DEF TeardownInv, LockPart
<1> QED BY <1>1, <1>2, <1>3 DEF TeardownInv, TypeInv, LockPart, UdpHolds, RemoverHolds
-----------------------------------------------------------------------------
LEMMA TeardownInit == ThreadsInit => TeardownInv
<1> SUFFICES ASSUME ThreadsInit PROVE TeardownInv
  OBVIOUS
<1>1. udp \in Threads(UdpPcs) /\ udp.pc = "idle" /\ remover \in Threads(RemoverPcs)
      /\ remover.pc = "idle"
  BY TeardownAssumption DEF ThreadsInit, Idle, NotRemoving, Threads, UdpPcs, RemoverPcs
<1>2. TypeInv
  BY TeardownAssumption, <1>1 DEF ThreadsInit, TypeInv
<1> QED BY TeardownAssumption, <1>1, <1>2, KeysArePairs DEF ThreadsInit, TeardownInv, UdpHolds, RemoverHolds, OwnPair,
        CandidatesFree, LocksAgree, GoneAreReleased

LEMMA TeardownStep == TeardownInv /\ [ThreadsNext]_threadsVars => TeardownInv'
<1> SUFFICES ASSUME TeardownInv, [ThreadsNext]_threadsVars PROVE TeardownInv'
  OBVIOUS
<1>1. CASE Udp
  BY <1>1, UdpPacketKeeps, UdpMatchKeeps, UdpLookupKeeps, UdpWorkKeeps, UdpEndKeeps DEF Udp
<1>2. CASE Remover
  BY <1>2, RemovalKeeps, RemoverWorkKeeps, RemoverReleaseKeeps DEF Remover
<1>3. CASE CooldownOver \/ UNCHANGED threadsVars
  BY <1>3 DEF CooldownOver, threadsVars, tableVars, TeardownInv, TypeInv, UdpHolds, RemoverHolds, OwnPair,
     CandidatesFree, LocksAgree, GoneAreReleased
<1> QED BY <1>1, <1>2, <1>3 DEF ThreadsNext

LEMMA TeardownInvariant ==
    ThreadsSpec => []TeardownInv
<1>1. ThreadsInit => TeardownInv
  BY TeardownInit
<1>2. TeardownInv /\ [ThreadsNext]_threadsVars => TeardownInv'
  BY TeardownStep
<1> QED BY <1>1, <1>2, PTL DEF ThreadsSpec

(* Locks, managers and what both threads hold keep their types: a thread   *)
(* never works on a manager that was not built.                            *)
THEOREM TeardownTypes ==
    ThreadsSpec => []ThreadsTypeOK
<1>1. TeardownInv => ThreadsTypeOK
  BY DEF TeardownInv, TypeInv, ThreadsTypeOK, UdpPcs, RemoverPcs
<1> QED BY <1>1, TeardownInvariant, PTL

(* Between any two blocking calls of listener and remover, a pair has a    *)
(* manager exactly when both its drivers are mapped to it.                 *)
THEOREM TablesAgree ==
    ThreadsSpec => []LocksAgree
<1>1. TeardownInv => LocksAgree
  BY DEF TeardownInv
<1> QED BY <1>1, TeardownInvariant, PTL

(* Once the remover is done, nobody is locked to the driver it removed,    *)
(* whatever the listener locked, raced or released meanwhile.              *)
THEOREM NobodyLockedToTheGone ==
    ThreadsSpec => []LockedArePresent
<1>1. TeardownInv => LockedArePresent
  BY DEF TeardownInv, GoneAreReleased, LockedArePresent, RemoverAt
<1> QED BY <1>1, TeardownInvariant, PTL
=============================================================================
