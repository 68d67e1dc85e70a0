---------------------------- MODULE KickEnforcer ----------------------------
(***************************************************************************)
(* Removal of banned and unregistered players from one AC server: the      *)
(* driver registry the packet handlers keep, the deferred checks after a   *)
(* join, the mid-session checks, the pub/sub subscribers and the threads   *)
(* that warn and then kick.                                                *)
(*                                                                         *)
(* One action per packet handler, deferral poll, subscriber message and    *)
(* step of a kick thread between two of its waits.  UDP packets of the AC  *)
(* server may be lost.  Redis (written by ac-data) and the AC server's     *)
(* seats are external.  The address commands are sent to is fixed before   *)
(* the first packet (main.py), so the wait for it returns at once; waiting *)
(* for CLIENT_LOADED only delays a step.  Both enforcers are on, as by     *)
(* default, and reading Redis does not fail.  The battle manager's         *)
(* remove_car is the subject of BattleOrchestrator and BattleTeardown.     *)
(***************************************************************************)
EXTENDS Naturals, FiniteSets

CONSTANTS
    Guids,                      \* steam ids of the players
    Suspects,                   \* those ac-data may ban or find unregistered
    Cars,                       \* car slots of the AC server
    None,
    MaxThreads,                 \* bound: threads running at once
    USER_BAN_DEFER_ATTEMPTS,
    MaxJoins,                   \* bound: connections
    MaxMarks                    \* bound: writes of ac-data

Drivers == [guid : Guids, car : Cars \cup {None}]
(* Running threads; twin tells threads apart that are alike otherwise.     *)
Twins == 1 .. MaxThreads
Deferrals == [kind : {"ban", "reg"}, guid : Guids, twin : Twins,
              polls : 0 .. USER_BAN_DEFER_ATTEMPTS, saw_banned : BOOLEAN]
Kicks == [kind : {"kick"}, guid : Guids, twin : Twins, car : Cars,
          at : {"begun", "warned", "sent"}]

ASSUME KickAssumption ==
    /\ Suspects \subseteq Guids /\ IsFiniteSet(Guids)
    /\ None \notin Guids /\ None \notin Cars /\ None \notin Drivers
    /\ None \notin BOOLEAN
    /\ Cars \cap Drivers = {}
    /\ USER_BAN_DEFER_ATTEMPTS \in Nat \ {0}
    /\ MaxJoins \in Nat /\ MaxMarks \in Nat /\ MaxThreads \in Nat

VARIABLES
    seat, closing,              \* who sits where; CONNECTION_CLOSED to read
    active_drivers,             \* a DriverInfo per car slot
    guid_to_driver,             \* a car: the DriverInfo of that slot; else
                                \* a DriverInfo no slot holds any more
    last_known_by_car_id,
    banned, unregistered,       \* the Redis keys
    banMsg, regMsg,             \* published, not yet received
    banCache, regCache,         \* user_status_cache
    deferBan, deferReg,         \* _defer_*_kick_scheduled
    in_progress, done,          \* _in_progress and _done
    threads,
    kicked,                     \* history: kicks sent since the last clear
    outlived,                   \* history: a thread of theirs outlived one
    joins, marks                \* what the bounds count

seats == <<seat, closing, joins>>
registry == <<active_drivers, guid_to_driver, last_known_by_car_id>>
redis == <<banned, unregistered, banMsg, regMsg, marks>>
caches == <<banCache, regCache>>
deferrals == <<deferBan, deferReg>>
claims == <<in_progress, done>>
history == <<kicked, outlived>>
vars == <<seats, registry, redis, caches, deferrals, claims, threads, history>>

TypeOK ==
    /\ seat \in [Cars -> Guids \cup {None}] /\ closing \subseteq Cars
    /\ active_drivers \in [Cars -> Drivers \cup {None}]
    /\ guid_to_driver \in [Guids -> Cars \cup Drivers \cup {None}]
    /\ \A g \in Guids : guid_to_driver[g] \in Cars =>
                           active_drivers[guid_to_driver[g]] # None
    /\ last_known_by_car_id \in [Cars -> Guids \cup {None}]
    /\ banned \subseteq Suspects /\ unregistered \subseteq Suspects
    /\ banMsg \subseteq Suspects /\ regMsg \subseteq Suspects
    /\ banCache \in [Suspects -> BOOLEAN \cup {None}]
    /\ regCache \in [Suspects -> BOOLEAN \cup {None}]
    /\ deferBan \subseteq Guids /\ deferReg \subseteq Guids
    /\ in_progress \subseteq Guids /\ done \subseteq Guids
    /\ threads \subseteq Deferrals \cup Kicks
    /\ kicked \in [Guids -> Nat] /\ outlived \subseteq Guids
    /\ joins \in 0 .. MaxJoins /\ marks \in 0 .. MaxMarks

Init ==
    /\ seat = [c \in Cars |-> None] /\ closing = {}
    /\ active_drivers = [c \in Cars |-> None]
    /\ guid_to_driver = [g \in Guids |-> None]
    /\ last_known_by_car_id = [c \in Cars |-> None]
    /\ banned \in SUBSET Suspects /\ unregistered \in SUBSET Suspects
    /\ banMsg = {} /\ regMsg = {}
    /\ banCache = [g \in Suspects |-> None] /\ regCache = [g \in Suspects |-> None]
    /\ deferBan = {} /\ deferReg = {} /\ in_progress = {} /\ done = {}
    /\ threads = {}
    /\ kicked = [g \in Guids |-> 0] /\ outlived = {}
    /\ joins = 0 /\ marks = 0

-----------------------------------------------------------------------------
(* The registry.                                                           *)

Driver(c, g) == [guid |-> g, car |-> c]

(* guid_to_driver once the DriverInfo of slot c has left the slot.         *)
Detached(c) == [g \in Guids |-> IF guid_to_driver[g] = c THEN active_drivers[c]
                                ELSE guid_to_driver[g]]

Seen(g) == IF guid_to_driver[g] \in Cars THEN active_drivers[guid_to_driver[g]]
           ELSE guid_to_driver[g]

(* find_driver_on_server: the drivers it may return, none when gone.       *)
Found(g) ==
    LET playing == {active_drivers[c] : c \in
                       {d \in Cars : /\ active_drivers[d] # None
                                     /\ active_drivers[d].guid = g}}
        former == {Driver(c, g) : c \in {d \in Cars :
                                          last_known_by_car_id[d] = g}}
    IN  IF Seen(g) # None THEN {Seen(g)}
        ELSE IF playing # {} THEN playing ELSE former

(* find_driver_by_steam_id: every match, not the first one.                *)
Matches(g) ==
    LET indexed == {Seen(g)} \ {None}
        playing == {active_drivers[c] : c \in
                       {d \in Cars : /\ active_drivers[d] # None
                                     /\ active_drivers[d].guid = g
                                     /\ \A i \in indexed :
                                           i.car # active_drivers[d].car}}
        seen == {d.car : d \in indexed \cup playing}
    IN  indexed \cup playing \cup
            {Driver(c, g) : c \in {d \in Cars \ seen :
                                     last_known_by_car_id[d] = g}}

remove_driver(c) ==
    /\ active_drivers' = [active_drivers EXCEPT ![c] = None]
    /\ guid_to_driver' = [Detached(c) EXCEPT ![active_drivers[c].guid] = None]
    /\ UNCHANGED last_known_by_car_id

-----------------------------------------------------------------------------
(* Threads.                                                                *)

(* The first twin of the thread r not in th.                               *)
Twinned(r, th) ==
    [r EXCEPT !.twin = CHOOSE n \in Twins :
                  /\ [r EXCEPT !.twin = n] \notin th
                  /\ \A m \in 1 .. n - 1 : [r EXCEPT !.twin = m] \in th]
Start(r, th) == th \cup {Twinned(r, th)}
StartIf(b, r, th) == IF b THEN Start(r, th) ELSE th
Stop(t) == threads \ {t}
Step(t, r) == Start(r, Stop(t))
Running(kind, g) == {t \in threads : t.kind = kind /\ t.guid = g}
(* Bound: a step that may start n threads waits until there is room.       *)
Room(n) == Cardinality(threads) + n <= MaxThreads

Deferral(kind, g) == [kind |-> kind, guid |-> g, twin |-> 1,
                      polls |-> USER_BAN_DEFER_ATTEMPTS, saw_banned |-> FALSE]
Kick(d) == [kind |-> "kick", guid |-> d.guid, twin |-> 1, car |-> d.car,
            at |-> "begun"]

(* Mutant: a guid is free to claim again once its kick is done.            *)
ClaimableWhenDone(g) == g \notin in_progress

(* _try_begin_kick lets one through.                                       *)
Claimable(g) == g \notin in_progress \cup done

(* kick_driver, kick_unregistered_driver for the drivers ds in some order, *)
(* from threads th: skipped without a car_id or without the claim.         *)
KickAll(ds, th) ==
    LET begun == {d \in ds : d.car # None /\ Claimable(d.guid)}
        guids == {d.guid : d \in begun}
    IN  /\ in_progress' = in_progress \cup guids /\ UNCHANGED done
        /\ \E pick \in [guids -> begun] :
             /\ \A g \in guids : pick[g].guid = g
             /\ threads' = th \cup {Twinned(Kick(pick[g]), th) : g \in guids}

-----------------------------------------------------------------------------
(* user_status_cache and the checks.                                       *)

(* Of a player ac-data never marks the cache can only repeat that.         *)
Cached(cache, g, keys) ==
    g \in Suspects /\ IF cache[g] = None THEN g \in keys ELSE cache[g]
Refreshed(cache, g, value) ==
    IF g \in Suspects THEN [cache EXCEPT ![g] = value] ELSE cache

(* is_steam_id_banned, cached and forced; is_steam_id_not_registered, which*)
(* looks at the ban first.  Mutant: a cache miss is taken for "no".        *)
IsBannedCacheOnly(g) == g \in Suspects /\ banCache[g] = TRUE
IsBanned(g) == Cached(banCache, g, banned)
IsNotRegistered(g) == ~IsBanned(g) /\ Cached(regCache, g, unregistered)
BanChecked(g) == banCache' = Refreshed(banCache, g, IsBanned(g))
BanReread(g) == banCache' = Refreshed(banCache, g, g \in banned)
RegChecked(g) ==
    regCache' = IF IsBanned(g) THEN regCache
                ELSE Refreshed(regCache, g, Cached(regCache, g, unregistered))

-----------------------------------------------------------------------------
(* Players come and go.  A packet may be lost, so that a handler never     *)
(* runs; what the AC server does happens all the same.                     *)

Sits(g, c) ==
    /\ seat[c] = None /\ c \notin closing /\ \A d \in Cars : seat[d] # g
    /\ joins < MaxJoins /\ joins' = joins + 1
    /\ seat' = [seat EXCEPT ![c] = g]
    /\ UNCHANGED closing

(* handle_new_connection.                                                  *)
NewConnection(g, c) ==
    /\ Sits(g, c) /\ Room(2)
    /\ active_drivers' = [active_drivers EXCEPT ![c] = Driver(c, g)]
    /\ guid_to_driver' = [Detached(c) EXCEPT ![g] = c]
    /\ last_known_by_car_id' = [last_known_by_car_id EXCEPT ![c] = g]
    /\ banCache' = Refreshed(banCache, g, None)
    /\ deferBan' = deferBan \cup {g} /\ deferReg' = deferReg \cup {g}
    /\ threads' = StartIf(g \notin deferReg, Deferral("reg", g),
                     StartIf(g \notin deferBan, Deferral("ban", g), threads))
    /\ UNCHANGED <<redis, regCache, claims, history>>

NewConnectionLost(g, c) ==
    Sits(g, c) /\ UNCHANGED <<registry, redis, caches, deferrals, claims, threads, history>>

Vacated(c) ==
    /\ seat[c] # None
    /\ seat' = [seat EXCEPT ![c] = None] /\ closing' = closing \cup {c}
    /\ UNCHANGED joins

Leave(c) == Vacated(c) /\ UNCHANGED <<registry, redis, caches, deferrals, claims,
                                      threads, history>>

(* clear_kick_state: the claims go, the threads stay.                      *)
clear_kick_state(g) ==
    /\ in_progress' = in_progress \ {g} /\ done' = done \ {g}
    /\ kicked' = [kicked EXCEPT ![g] = 0]
    /\ outlived' = IF Running("kick", g) = {} THEN outlived ELSE outlived \cup {g}
    /\ UNCHANGED threads

(* handle_connection_closed: whoever the registry has in that slot.        *)
ConnectionClosed(c) ==
    /\ c \in closing /\ closing' = closing \ {c}
    /\ IF active_drivers[c] = None
       THEN UNCHANGED <<registry, caches, claims, threads, history>>
       ELSE /\ clear_kick_state(active_drivers[c].guid)
            /\ banCache' = Refreshed(banCache, active_drivers[c].guid, None)
            /\ remove_driver(c)
            /\ UNCHANGED regCache
    /\ UNCHANGED <<seat, joins, redis, deferrals>>

ConnectionClosedLost(c) ==
    /\ c \in closing /\ closing' = closing \ {c}
    /\ UNCHANGED <<seat, joins, registry, redis, caches, deferrals, claims, threads, history>>

(* The ghost purges (status loop, CAR_INFO of an empty slot, NEW_SESSION): *)
(* no packet of the slot for GHOST_DRIVER_TIMEOUT_MS.                      *)
Purge(c) ==
    /\ active_drivers[c] # None /\ seat[c] = None /\ c \notin closing
    /\ remove_driver(c)
    /\ UNCHANGED <<seats, redis, caches, deferrals, claims, threads, history>>

-----------------------------------------------------------------------------
(* The other packets of a player at c.                                     *)

(* handle_car_info: the DriverInfo of the slot takes the name it is told.  *)
CarInfo(c) ==
    /\ seat[c] # None /\ Room(1)
    /\ LET g == seat[c]
           d == [guid |-> g, car |-> IF active_drivers[c] = None THEN None
                                     ELSE active_drivers[c].car]
       IN  /\ active_drivers' = [active_drivers EXCEPT ![c] = d]
           /\ guid_to_driver' = [guid_to_driver EXCEPT ![g] = c]
           /\ last_known_by_car_id' = [last_known_by_car_id EXCEPT ![c] = g]
           /\ BanChecked(g) /\ UNCHANGED regCache
           /\ KickAll(IF IsBanned(g) THEN {d} ELSE {}, threads)
    /\ UNCHANGED <<seats, redis, deferrals, history>>

(* handle_car_update: the ban check, then the registration check.          *)
CarUpdate(c) ==
    /\ seat[c] # None /\ active_drivers[c] # None /\ Room(1)
    /\ LET g == active_drivers[c].guid
       IN  /\ active_drivers' = [active_drivers EXCEPT ![c].car = c]
           /\ BanChecked(g) /\ RegChecked(g)
           /\ KickAll(IF IsBanned(g) \/ IsNotRegistered(g) THEN {Driver(c, g)} ELSE {},
                      threads)
    /\ UNCHANGED <<seats, guid_to_driver, last_known_by_car_id, redis, deferrals, history>>

(* handle_client_loaded: never a kick, only a deferral.                    *)
ClientLoaded(c) ==
    /\ seat[c] # None /\ Room(1)
    /\ active_drivers[c] # None \/ last_known_by_car_id[c] # None
    /\ LET known == active_drivers[c] # None
           g == IF known THEN active_drivers[c].guid ELSE last_known_by_car_id[c]
           missing == g \notin banned /\ Cached(regCache, g, unregistered)
       IN  /\ active_drivers' = IF known THEN [active_drivers EXCEPT ![c].car = c]
                                ELSE active_drivers
           /\ BanReread(g)
           /\ regCache' = IF g \in banned THEN regCache
                          ELSE Refreshed(regCache, g, missing)
           /\ deferBan' = IF g \in banned THEN deferBan \cup {g} ELSE deferBan
           /\ deferReg' = IF missing THEN deferReg \cup {g} ELSE deferReg
           /\ threads' = StartIf(missing /\ g \notin deferReg, Deferral("reg", g),
                            StartIf(g \in banned \ deferBan, Deferral("ban", g), threads))
    /\ UNCHANGED <<seats, guid_to_driver, last_known_by_car_id, redis, claims, history>>

(* handle_lap_completed brings back the last driver known at the slot.     *)
LapCompleted(c) ==
    /\ seat[c] # None /\ active_drivers[c] = None /\ last_known_by_car_id[c] # None
    /\ LET g == last_known_by_car_id[c]
       IN  /\ active_drivers' = [active_drivers EXCEPT ![c] = Driver(c, g)]
           /\ guid_to_driver' = [guid_to_driver EXCEPT ![g] = c]
    /\ UNCHANGED <<seats, last_known_by_car_id, redis, caches, deferrals, claims,
                   threads, history>>

-----------------------------------------------------------------------------
(* ac-data (external): marks set the key and publish, clears delete it.    *)

Mark == marks < MaxMarks /\ marks' = marks + 1
notRedis == <<seats, registry, deferrals, claims, threads, history>>

Ban(g) ==
    /\ Mark /\ g \notin banned
    /\ banned' = banned \cup {g} /\ banMsg' = banMsg \cup {g}
    /\ UNCHANGED <<notRedis, unregistered, regMsg, caches>>
ClearBan(g) ==
    /\ Mark /\ g \in banned /\ banned' = banned \ {g}
    /\ UNCHANGED <<notRedis, unregistered, banMsg, regMsg, caches>>
MarkUnregistered(g) ==
    /\ Mark /\ g \notin unregistered
    /\ unregistered' = unregistered \cup {g} /\ regMsg' = regMsg \cup {g}
    /\ UNCHANGED <<notRedis, banned, banMsg, caches>>
ClearUnregistered(g) ==
    /\ Mark /\ g \in unregistered /\ unregistered' = unregistered \ {g}
    /\ UNCHANGED <<notRedis, banned, banMsg, regMsg, caches>>

(* Two seconds after it was written an entry no longer counts.             *)
BanCacheExpires(g) ==
    /\ banCache[g] # None /\ banCache' = Refreshed(banCache, g, None)
    /\ UNCHANGED <<notRedis, redis, regCache>>
RegCacheExpires(g) ==
    /\ regCache[g] # None /\ regCache' = Refreshed(regCache, g, None)
    /\ UNCHANGED <<notRedis, redis, banCache>>

(* Pub/sub delivers at most once.                                          *)
MessageLost(g) ==
    /\ g \in banMsg \cup regMsg
    /\ \/ banMsg' = banMsg \ {g} /\ UNCHANGED regMsg
       \/ regMsg' = regMsg \ {g} /\ UNCHANGED banMsg
    /\ UNCHANGED <<notRedis, banned, unregistered, marks, caches>>

(* _handle_invalidation_message.                                           *)
BanMessage(g) ==
    /\ g \in banMsg /\ banMsg' = banMsg \ {g} /\ Room(2)
    /\ banCache' = Refreshed(banCache, g, TRUE)
    /\ KickAll(Matches(g), threads)
    /\ UNCHANGED <<seats, registry, banned, unregistered, regMsg, marks, regCache,
                   deferrals, history>>

(* _handle_not_registered_message.                                         *)
RegMessage(g) ==
    /\ g \in regMsg /\ regMsg' = regMsg \ {g} /\ Room(2)
    /\ BanChecked(g)
    /\ KickAll(IF IsBanned(g) THEN {} ELSE Matches(g), threads)
    /\ UNCHANGED <<seats, registry, banned, unregistered, banMsg, marks, regCache,
                   deferrals, history>>

-----------------------------------------------------------------------------
(* The deferral threads.                                                   *)

notDeferral == <<seats, registry, redis, history>>

(* A poll of schedule_deferred_ban_kick; after the last one the kick.  Once*)
(* a poll saw the ban, later polls no longer end the deferral.             *)
BanPoll(t) ==
    /\ t.kind = "ban"
    /\ LET g == t.guid
           saw == t.saw_banned \/ g \in banned
           over == ~saw \/ t.polls = 1
       IN  /\ BanReread(g)
           /\ IF ~over
              THEN /\ threads' = Step(t, [t EXCEPT !.polls = @ - 1, !.saw_banned = saw])
                   /\ UNCHANGED <<deferrals, claims>>
              ELSE /\ deferBan' = deferBan \ {g} /\ UNCHANGED deferReg
                   /\ IF saw /\ Found(g) # {}
                      THEN \E d \in Found(g) : KickAll({d}, Stop(t))
                      ELSE threads' = Stop(t) /\ UNCHANGED claims
    /\ UNCHANGED <<notDeferral, regCache>>

(* schedule_deferred_ban_kick from the thread t that ends with it.         *)
HandOff(t, g) ==
    /\ deferBan' = deferBan \cup {g} /\ deferReg' = deferReg \ {t.guid}
    /\ threads' = StartIf(g \notin deferBan, Deferral("ban", g), Stop(t))
    /\ UNCHANGED claims

(* A poll of schedule_deferred_registration_kick.                          *)
RegPoll(t) ==
    /\ t.kind = "reg" /\ t.polls > 0
    /\ LET g == t.guid
           missing == Cached(regCache, g, unregistered)
       IN  /\ BanReread(g)
           /\ IF g \in banned THEN HandOff(t, g) /\ UNCHANGED regCache
              ELSE /\ regCache' = Refreshed(regCache, g, missing)
                   /\ IF missing
                      THEN /\ threads' = Step(t, [t EXCEPT !.polls = @ - 1])
                           /\ UNCHANGED <<deferrals, claims>>
                      ELSE /\ threads' = Stop(t)
                           /\ deferReg' = deferReg \ {g}
                           /\ UNCHANGED <<deferBan, claims>>
    /\ UNCHANGED notDeferral

(* After the last poll: the player is looked up and the ban read again.    *)
RegDecide(t) ==
    /\ t.kind = "reg" /\ t.polls = 0
    /\ LET g == t.guid
       IN  IF Found(g) = {}
           THEN /\ threads' = Stop(t) /\ deferReg' = deferReg \ {g}
                /\ UNCHANGED <<deferBan, claims, banCache>>
           ELSE /\ BanReread(g)
                /\ \E d \in Found(g) :
                     IF g \in banned THEN HandOff(t, d.guid)
                     ELSE /\ deferReg' = deferReg \ {g} /\ UNCHANGED deferBan
                          /\ KickAll({d}, Stop(t))
    /\ UNCHANGED <<notDeferral, regCache>>

-----------------------------------------------------------------------------
(* The kick threads (_execute_warn_then_kick_body).                        *)

notKick == <<registry, redis, caches, deferrals>>
IsKick(t, at) == t.kind = "kick" /\ t.at = at

(* The player is looked up once more and warned, or is gone.               *)
Warn(t) ==
    /\ IsKick(t, "begun")
    /\ LET g == t.guid
       IN  IF Found(g) = {}
           THEN /\ threads' = Stop(t)                         \* _abort_kick
                /\ in_progress' = in_progress \ {g} /\ done' = done \ {g}
           ELSE /\ \E d \in Found(g) :
                     threads' = Step(t, [t EXCEPT !.at = "warned",
                                             !.car = IF d.car = None THEN @ ELSE d.car])
                /\ UNCHANGED claims
    /\ UNCHANGED <<notKick, seats, history>>

(* USER_KICK_WARN_DELAY_SEC later KICK_USER goes to the same slot; like    *)
(* every packet it may be lost.                                            *)
SendKick(t) ==
    /\ IsKick(t, "warned")
    /\ threads' = Step(t, [t EXCEPT !.at = "sent"])
    /\ kicked' = [kicked EXCEPT ![t.guid] = @ + 1] /\ UNCHANGED outlived
    /\ Vacated(t.car) \/ UNCHANGED seats
    /\ UNCHANGED <<notKick, claims>>

(* _finish_kick.                                                           *)
FinishKick(t) ==
    /\ IsKick(t, "sent")
    /\ threads' = Stop(t)
    /\ in_progress' = in_progress \ {t.guid}
    /\ done' = done \cup {t.guid}
    /\ UNCHANGED <<notKick, seats, history>>

Worker(t) == BanPoll(t) \/ RegPoll(t) \/ RegDecide(t)
               \/ Warn(t) \/ SendKick(t) \/ FinishKick(t)

Next ==
    \/ \E g \in Guids, c \in Cars : NewConnection(g, c) \/ NewConnectionLost(g, c)
    \/ \E c \in Cars : \/ Leave(c) \/ ConnectionClosed(c) \/ ConnectionClosedLost(c)
                       \/ Purge(c) \/ CarInfo(c) \/ CarUpdate(c) \/ ClientLoaded(c)
                       \/ LapCompleted(c)
    \/ \E g \in Suspects : \/ Ban(g) \/ ClearBan(g) \/ MarkUnregistered(g)
                           \/ ClearUnregistered(g) \/ MessageLost(g)
                           \/ BanMessage(g) \/ RegMessage(g)
                           \/ BanCacheExpires(g) \/ RegCacheExpires(g)
    \/ \E t \in threads : Worker(t)

Spec == Init /\ [][Next]_vars

(* Threads run, a sitting player keeps sending, the status loop asks for   *)
(* CAR_INFO and the cache's clock goes on; of the threads those of the     *)
(* suspects are enough.                                                    *)
FairSpec ==
    /\ Spec
    /\ \A g \in Suspects, kind \in {"ban", "reg", "kick"} :
           WF_vars(\E t \in Running(kind, g) : Worker(t))
    /\ \A c \in Cars : WF_vars(CarInfo(c)) /\ WF_vars(CarUpdate(c))
    /\ \A g \in Suspects : WF_vars(BanCacheExpires(g)) /\ WF_vars(RegCacheExpires(g))

-----------------------------------------------------------------------------
(* Properties *)

(* A player is marked as deferred exactly while one thread will decide:    *)
(* never two deferrals of the same kind, and never a mark no thread is     *)
(* left to remove, which would let the player in unchecked for ever.       *)
DeferralsMarked ==
    \A g \in Guids :
        /\ Cardinality(Running("ban", g)) = IF g \in deferBan THEN 1 ELSE 0
        /\ Cardinality(Running("reg", g)) = IF g \in deferReg THEN 1 ELSE 0

(* A kick in progress has its thread, whatever disconnects and reconnects  *)
(* clear in between: no claim is left that blocks the next kick for ever.  *)
ClaimHeld == \A g \in in_progress : Running("kick", g) # {}

(* REDIS_CONTRACT.md: one warning, then one KICK_USER per connection; the  *)
(* deferrals, the packets and the subscribers do not kick twice, unless a  *)
(* thread is still at work when its connection is cleared.                 *)
OneKickPerConnection == \A g \in Guids \ outlived : kicked[g] <= 1


(* A banned player on the server leaves in the end, or the ban ends, or its*)
(* one kick counts as done, even when its NEW_CONNECTION or the pub/sub    *)
(* message was lost.                                                       *)
BannedLeaves ==
    \A g \in Suspects : \A c \in Cars :
        (seat[c] = g /\ g \in banned)
            ~> (seat[c] # g \/ g \notin banned \/ g \in done)

-----------------------------------------------------------------------------
(* What the documents say, and the code does not do *)

(* clear_kick_state: "Allow a future kick after reconnect": for a player   *)
(* who sits, a kick is done only if one was sent since the last clear.     *)
DoneAfterKick == \A c \in Cars : seat[c] \in done => kicked[seat[c]] > 0
=============================================================================
