---------------------------- MODULE ModInventory ----------------------------
(***************************************************************************)
(* What the hub knows of an edge's content pool, and the check of a desired *)
(* configuration against it (src/packages: ac-data-edge                    *)
(* modInventoryScan.ts; ac-data-backend controlApi/modsInventory.ts,       *)
(* controlApi/desiredConfig.ts and their handlers in                       *)
(* controlApiController.ts).                                               *)
(*                                                                         *)
(* The edge scans the pool every MOD_INVENTORY_SCAN_MS, cars first, and     *)
(* posts what it found if that differs from what the hub last acknowledged. *)
(* The hub stores the report under each name of the edge, one key at a      *)
(* time; every key lives a day.  A desired configuration is pushed to the  *)
(* edge when all its content is in the inventory, or READY in the central  *)
(* library's database.                                                     *)
(***************************************************************************)
EXTENDS Integers, FiniteSets, Sequences

CONSTANTS
    Cars, Tracks,      \* content that may be in the pool
    Aliases,           \* the names the inventory is stored under, in order
    MaxPoolOps,        \* bound: content installed and removed, configurations
    MaxInventoryFaults \* bound: posts cut short, restarts and expired keys

ASSUME ModInventoryAssumption ==
    /\ MaxPoolOps \in Nat /\ MaxInventoryFaults \in Nat
    /\ IsFiniteSet(Cars) /\ IsFiniteSet(Tracks)
    /\ Aliases \in Seq({Aliases[i] : i \in DOMAIN Aliases}) /\ Aliases # <<>>

VARIABLES
    pool,              \* content on the edge's disk
    had,               \* content that has ever been there
    lastEtag,          \* what the hub last acknowledged, in the edge's memory
    scan,              \* the edge's tick
    inventory,         \* [aliases -> what the hub has stored]
    request,           \* a desired configuration being checked
    pushed,            \* content of the active servers last pushed
    poolOps, inventoryFaults,
    reverted, expired  \* reasons the inventory may stay wrong have occurred

inventoryVars == <<pool, had, lastEtag, scan, inventory, request, pushed,
                   poolOps, inventoryFaults, reverted, expired>>

Content == Cars \cup Tracks
Keys == {Aliases[i] : i \in DOMAIN Aliases}

NoEtag == [known |-> FALSE, of |-> {}]
Etag(content) == [known |-> TRUE, of |-> content]

NoScan == [at |-> "idle", found |-> {}, stored |-> 0]
NoRequest == [at |-> "idle", wanted |-> {}, known |-> {}]
NotStored == [cars |-> {}, tracks |-> {}, meta |-> FALSE]

InventoryInit ==
    /\ pool \in SUBSET Content /\ had = pool
    /\ lastEtag = NoEtag /\ scan = NoScan
    /\ inventory = [k \in Keys |-> NotStored]
    /\ request = NoRequest /\ pushed = {}
    /\ poolOps = 0 /\ inventoryFaults = 0
    /\ reverted = FALSE /\ expired = FALSE

InventoryFault ==
    /\ inventoryFaults < MaxInventoryFaults /\ inventoryFaults' = inventoryFaults + 1

PoolOp == poolOps < MaxPoolOps /\ poolOps' = poolOps + 1

-----------------------------------------------------------------------------
(* The edge *)

(* The mod agent, or an operator, installs or removes something.  When a    *)
(* post is under way or was cut short, and the pool goes back to what was   *)
(* acknowledged before it, no scan will tell.                               *)
ChangePool(c) ==
    /\ PoolOp
    /\ pool' = IF c \in pool THEN pool \ {c} ELSE pool \cup {c}
    /\ had' = had \cup pool'
    /\ reverted' = (reverted \/ (lastEtag = Etag(pool') /\ inventoryFaults > 0))
    /\ UNCHANGED <<lastEtag, scan, inventory, request, pushed,
                   inventoryFaults, expired>>

(* scanLocalModInventory, up to the end of scanCars.                        *)
ScanCars ==
    /\ scan.at = "idle"
    /\ scan' = [NoScan EXCEPT !.at = "cars", !.found = pool \cap Cars]
    /\ UNCHANGED <<pool, had, lastEtag, inventory, request, pushed,
                   poolOps, inventoryFaults, reverted, expired>>

(* The decision of runScanTick: an empty pool is not reported before         *)
(* anything else was, nor one that has not changed.                         *)
Unreported(found) == (found # {} \/ lastEtag.known) /\ lastEtag # Etag(found)

\* MUTANT: the report is remembered when it is sent
ScanRemembers ==
    /\ scan.at = "cars"
    /\ LET found == scan.found \cup (pool \cap Tracks)
       IN  IF Unreported(found)
           THEN /\ scan' = [scan EXCEPT !.at = "posted", !.found = found]
                /\ lastEtag' = Etag(found)
           ELSE scan' = NoScan /\ UNCHANGED lastEtag
    /\ UNCHANGED <<pool, had, inventory, request, pushed,
                   poolOps, inventoryFaults, reverted, expired>>

(* scanTracks, and the rest of runScanTick.                                 *)
ScanTracks ==
    /\ scan.at = "cars"
    /\ LET found == scan.found \cup (pool \cap Tracks)
       IN  scan' = IF Unreported(found)
                   THEN [scan EXCEPT !.at = "posted", !.found = found]
                   ELSE NoScan
    /\ UNCHANGED <<pool, had, lastEtag, inventory, request, pushed,
                   poolOps, inventoryFaults, reverted, expired>>

(* postModInventoryToHub gets its answer.                                   *)
Acknowledged ==
    /\ scan.at = "posted" /\ scan.stored = 2 * Len(Aliases)
    /\ lastEtag' = Etag(scan.found) /\ scan' = NoScan
    /\ UNCHANGED <<pool, had, inventory, request, pushed,
                   poolOps, inventoryFaults, reverted, expired>>

(* It does not: the post or its answer is lost, or the hub stops before,    *)
(* between or after its writes.                                             *)
PostCutShort ==
    /\ InventoryFault /\ scan.at = "posted" /\ scan' = NoScan
    /\ reverted' = (reverted \/ (scan.found # pool /\ lastEtag = Etag(pool)))
    /\ UNCHANGED <<pool, had, lastEtag, inventory, request, pushed,
                   poolOps, expired>>

(* The edge restarts; a post it had sent is not carried out further.        *)
EdgeRestarts ==
    /\ InventoryFault /\ scan' = NoScan /\ lastEtag' = NoEtag
    /\ UNCHANGED <<pool, had, inventory, request, pushed, poolOps,
                   reverted, expired>>

-----------------------------------------------------------------------------
(* The hub's inventory *)

(* storeModsInventory: the next key.  The meta key, written after the       *)
(* tracks, only says that there was a report.                               *)
StoreKey ==
    /\ scan.at = "posted" /\ scan.stored < 2 * Len(Aliases)
    /\ LET alias == Aliases[1 + scan.stored \div 2]
       IN  inventory' = [inventory EXCEPT ![alias] =
             IF scan.stored % 2 = 0 THEN [@ EXCEPT !.cars = scan.found \cap Cars]
             ELSE [@ EXCEPT !.tracks = scan.found \cap Tracks, !.meta = TRUE]]
    /\ scan' = [scan EXCEPT !.stored = @ + 1]
    /\ UNCHANGED <<pool, had, lastEtag, request, pushed, poolOps,
                   inventoryFaults, reverted, expired>>

(* MODS_INVENTORY_TTL_SEC after its last write a key is gone.               *)
KeysExpire(k) ==
    /\ InventoryFault /\ inventory[k] # NotStored
    /\ inventory' = [inventory EXCEPT ![k] = NotStored]
    /\ expired' = TRUE
    /\ UNCHANGED <<pool, had, lastEtag, scan, request, pushed, poolOps, reverted>>

(* getModsCars and getModsTracks: the longest list under any of the names.  *)
KnownCars ==
    CHOOSE cars \in {inventory[k].cars : k \in Keys} :
      \A k \in Keys : Cardinality(inventory[k].cars) <= Cardinality(cars)

KnownTracks ==
    CHOOSE tracks \in {inventory[k].tracks : k \in Keys} :
      \A k \in Keys : Cardinality(inventory[k].tracks) <= Cardinality(tracks)

-----------------------------------------------------------------------------
(* The desired configuration *)

(* applyDesiredConfig, up to the cars loadModsSnapshotForValidation reads:  *)
(* the content the active servers of the request need.                      *)
DesiredConfig(wanted) ==
    /\ PoolOp /\ request.at = "idle"
    /\ request' = [at |-> "cars", wanted |-> wanted, known |-> KnownCars]
    /\ UNCHANGED <<pool, had, lastEtag, scan, inventory, pushed,
                   inventoryFaults, reverted, expired>>

(* The tracks, read after the cars.                                         *)
ReadTracks ==
    /\ request.at = "cars"
    /\ request' = [request EXCEPT !.at = "read", !.known = @ \cup KnownTracks]
    /\ UNCHANGED <<pool, had, lastEtag, scan, inventory, pushed, poolOps,
                   inventoryFaults, reverted, expired>>

(* validateConfigAgainstMods: without an inventory everything is missing.   *)
Missing == request.wanted \ request.known

(* filterErrorsWithCentralInventory with isSlugReadyOnEdge, one look at the *)
(* database per missing item, and the push or the refusal; a push may fail. *)
(* What the library calls READY here, of whatever age, its agent has        *)
(* reported as installed.                                                   *)
CheckAndPush ==
    /\ request.at = "read" /\ request' = NoRequest
    /\ \E central \in SUBSET had :
         pushed' \in IF Missing \subseteq central THEN {request.wanted, pushed} ELSE {pushed}
    /\ UNCHANGED <<pool, had, lastEtag, scan, inventory, poolOps,
                   inventoryFaults, reverted, expired>>

-----------------------------------------------------------------------------
InventoryNext ==
    \/ ScanCars \/ ScanTracks \/ Acknowledged \/ PostCutShort \/ EdgeRestarts
    \/ StoreKey \/ ReadTracks \/ CheckAndPush
    \/ \E c \in Content : ChangePool(c)
    \/ \E k \in Keys : KeysExpire(k)
    \/ \E wanted \in SUBSET Content \ {{}} : DesiredConfig(wanted)

InventoryTypeOK ==
    /\ pool \subseteq Content /\ had \subseteq Content
    /\ lastEtag \in [known : BOOLEAN, of : SUBSET Content]
    /\ scan \in [at : {"idle", "cars", "posted"}, found : SUBSET Content,
                 stored : 0 .. 2 * Len(Aliases)]
    /\ inventory \in [Keys -> [cars : SUBSET Cars, tracks : SUBSET Tracks, meta : BOOLEAN]]
    /\ request \in [at : {"idle", "cars", "read"}, wanted : SUBSET Content,
                    known : SUBSET Content]
    /\ pushed \subseteq Content
    /\ poolOps \in 0 .. MaxPoolOps /\ inventoryFaults \in 0 .. MaxInventoryFaults
    /\ reverted \in BOOLEAN /\ expired \in BOOLEAN

(* The edge is never told to run content it never had, whatever half of a   *)
(* report, of whatever age, and whatever state of the database the request  *)
(* was checked against (applyDesiredConfig).                                *)
PushedWasInstalled == pushed \subseteq had

(* A scan that caught the pool between two changes, a post cut short after  *)
(* any of its writes and a restart of the edge do not keep the hub from     *)
(* knowing the pool in the end: the next scan reports again, under every    *)
(* name (runScanTick, storeModsInventory).  Unless the pool goes back to    *)
(* what was acknowledged last after a post was cut short, a key expires,    *)
(* since nothing unchanged is ever reported again, or a restarted edge      *)
(* finds its pool empty.                                                    *)
InventoryCatchesUp ==
    <>[](\/ reverted \/ expired
         \/ pool = {} /\ ~lastEtag.known
         \/ KnownCars \cup KnownTracks = pool)
=============================================================================
