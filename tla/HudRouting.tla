----------------------------- MODULE HudRouting -----------------------------
(***************************************************************************)
(* How the hub finds the edge of a player's overlay (src/packages:         *)
(* ac-data-backend hud/hudDynamicRegistry.ts, hud/hudPlayerRouting.ts,     *)
(* hud/hudGateway.ts; ac-data-shared hud/hudEdgeRegistry.ts,               *)
(* hud/hudRegistrySyncApply.ts, fleet/fleetRegistry.ts; ac-data-edge       *)
(* hud/hudManagedServers.ts, hud/edgeHudRegistryPublish.ts).               *)
(*                                                                         *)
(* An edge sends the hub the names of its servers when it starts and at    *)
(* every configuration sync.  The hub replaces that edge's rows in a map in *)
(* memory, saves the map in Redis and reads it back when it starts, or when *)
(* the map is empty.  A row is found by the edge's own key of the folder,  *)
(* or by a name, which two edges may share: every edge has a folder called  *)
(* like another's, and two lobbies may have one name.                      *)
(*                                                                         *)
(* Each edge has one server.                                               *)
(***************************************************************************)
EXTENDS Integers, FiniteSets, Sequences

CONSTANTS
    Edges, NoEdge,
    Lobbies,           \* names a lobby may have
    Folder,            \* the name of every edge's folder
    EnvFleet, DbFleet, \* edges of the fleet by environment and by database
    SyncSlots,         \* registry syncs under way at once
    MaxRoutingOps      \* bound: renamings, failures and restarts

ASSUME HudRoutingAssumption ==
    /\ EnvFleet \subseteq DbFleet /\ DbFleet \subseteq Edges
    /\ NoEdge \notin Edges /\ Folder \notin Lobbies /\ MaxRoutingOps \in Nat

VARIABLES
    lobby,             \* [Edges -> the name of its server]
    sync,              \* [SyncSlots -> a sync under way]
    registry,          \* [row keys -> edge]: the hub's map in memory
    saved,             \* what Redis has of it
    stale,             \* it was saved more than HUD_REGISTRY_STALE_MS ago
    loads,             \* reads of the saved map not answered yet, in order
    fleet,             \* the edges of the fleet the hub knows
    routingOps,
    acked,             \* edges with a sync done since the hub started
    overlapped         \* two reads of the saved map were under way at once

routingVars == <<lobby, sync, registry, saved, stale, loads, fleet,
                 routingOps, acked, overlapped>>

Rows == [by : {"folder"}, of : Edges] \cup [by : {"name"}, of : Lobbies \cup {Folder}]
FolderRow(e) == [by |-> "folder", of |-> e]
NameRow(name) == [by |-> "name", of |-> name]

NoRows == [row \in Rows |-> NoEdge]
NoSync == [at |-> "idle", edge |-> NoEdge, name |-> Folder]

(* What the edge writes down of a player who joins.                         *)
Records == [edge : Edges, name : Lobbies, slug : BOOLEAN]

RoutingInit ==
    /\ lobby \in [Edges -> Lobbies]
    /\ sync = [s \in SyncSlots |-> NoSync]
    /\ registry = NoRows /\ saved = NoRows /\ stale = FALSE /\ loads = <<>>
    /\ fleet = EnvFleet
    /\ routingOps = 0 /\ acked = {} /\ overlapped = FALSE

RoutingOp == routingOps < MaxRoutingOps /\ routingOps' = routingOps + 1

-----------------------------------------------------------------------------
(* The edges *)

(* updateManagedServersFromSnapshot: the server has another name now.  The  *)
(* sync that follows is PublishRegistry.                                    *)
Rename(e) ==
    /\ RoutingOp
    /\ \E name \in Lobbies \ {lobby[e]} : lobby' = [lobby EXCEPT ![e] = name]
    /\ UNCHANGED <<sync, registry, saved, stale, loads, fleet, acked, overlapped>>

(* publishHudRegistryToHubIfConfigured: at the start and after a            *)
(* configuration sync; nothing waits for the one before.                    *)
PublishRegistry(e, s) ==
    /\ sync[s].at = "idle"
    /\ sync' = [sync EXCEPT ![s] = [at |-> "sent", edge |-> e, name |-> lobby[e]]]
    /\ UNCHANGED <<lobby, registry, saved, stale, loads, fleet,
                   routingOps, acked, overlapped>>

(* A sync that fails is logged.                                             *)
SyncLost(s) ==
    /\ RoutingOp /\ sync[s].at = "sent" /\ sync' = [sync EXCEPT ![s] = NoSync]
    /\ UNCHANGED <<lobby, registry, saved, stale, loads, fleet, acked, overlapped>>

-----------------------------------------------------------------------------
(* The hub's registry *)

(* buildDynamicEntriesForSync: the lobby and the folder by name, and the    *)
(* folder by the edge's own key.                                            *)
EntriesOf(e, name) == {NameRow(name), NameRow(Folder), FolderRow(e)}

(* mergeDynamicRegistryMaps: the edge's rows go, its new ones come, taking  *)
(* a name from whoever had it.                                              *)
Merged(map, e, name) ==
    [row \in Rows |-> IF row \in EntriesOf(e, name) THEN e
                      ELSE IF map[row] = e THEN NoEdge ELSE map[row]]

(* applyHudRegistrySync, from the map it finds: merged, set and saved.      *)
Apply(s, map) ==
    LET merged == Merged(map, sync[s].edge, sync[s].name)
    IN  /\ registry' = merged /\ saved' = merged /\ stale' = FALSE
        /\ acked' = acked \cup {sync[s].edge}
        /\ sync' = [sync EXCEPT ![s] = NoSync]

HandleSync(s) ==
    /\ sync[s].at = "sent" /\ registry # NoRows
    /\ Apply(s, registry)
    /\ UNCHANGED <<lobby, loads, fleet, routingOps, overlapped>>

(* A read of the saved map under way: by whom, and what Redis answers.      *)
Load(s, boot, old) ==
    [for |-> s, boot |-> boot, null |-> saved = NoRows,
     found |-> IF old THEN NoRows ELSE saved]

(* With an empty map the sync first has the saved one read.                 *)
HandleSyncLoads(s) ==
    /\ sync[s].at = "sent" /\ registry = NoRows
    /\ sync' = [sync EXCEPT ![s].at = "loading"]
    /\ loads' = Append(loads, Load(s, FALSE, stale))
    /\ overlapped' = (overlapped \/ loads # <<>>)
    /\ UNCHANGED <<lobby, registry, saved, stale, fleet, routingOps, acked>>

(* loadHudDynamicRegistryFromRedis: the next answer, in the order of the    *)
(* requests.  Rows older than HUD_REGISTRY_STALE_MS are dropped, and all    *)
(* are as old as the last sync; a map that was never saved sets nothing.    *)
LoadAnswered ==
    /\ loads # <<>> /\ loads' = Tail(loads)
    /\ LET load == Head(loads)
           map  == IF load.null THEN registry ELSE load.found
       IN  IF load.boot
           THEN registry' = map /\ UNCHANGED <<saved, stale, acked, sync>>
           ELSE Apply(load.for, map)
    /\ UNCHANGED <<lobby, fleet, routingOps, overlapped>>

(* The hub restarts, perhaps long after the last sync: syncs it was         *)
(* handling fail, and the start reads the saved map.                        *)
HubStarts ==
    /\ RoutingOp
    /\ registry' = NoRows /\ fleet' = EnvFleet /\ acked' = {}
    /\ sync' = [s \in SyncSlots |-> NoSync]
    /\ stale' \in {stale, saved # NoRows}
    /\ loads' = <<Load(CHOOSE s \in SyncSlots : TRUE, TRUE, stale')>>
    /\ overlapped' = FALSE
    /\ UNCHANGED <<lobby, saved>>

(* loadFleetRegistryFromDb, after the migrations: setRuntimeFleetEdgesFromDb. *)
FleetLoaded ==
    /\ fleet # DbFleet /\ fleet' = DbFleet
    /\ UNCHANGED <<lobby, sync, registry, saved, stale, loads,
                   routingOps, acked, overlapped>>

-----------------------------------------------------------------------------
(* The gateway *)

Registered(e) == \E row \in Rows : registry[row] = e

(* lookupHudEdgeByInstanceId, after the fleet.                              *)
ByInstance(e) == IF e \in fleet \/ Registered(e) THEN e ELSE NoEdge

(* lookupSingleHudEdgeEntry: the only edge of the map.                      *)
Single ==
    IF Cardinality({registry[row] : row \in Rows} \ {NoEdge}) = 1
    THEN CHOOSE e \in Edges : Registered(e)
    ELSE NoEdge

SingleOfFleet == IF Cardinality(fleet) = 1 THEN CHOOSE e \in fleet : TRUE ELSE NoEdge

FirstOf(lookups) ==
    LET hits == {i \in DOMAIN lookups : lookups[i] # NoEdge}
    IN  IF hits = {} THEN NoEdge ELSE lookups[CHOOSE i \in hits : \A j \in hits : i <= j]

\* MUTANT: the name of the server is looked up before the edge's own rows
ResolveByName(p) ==
    FirstOf(<<registry[NameRow(p.name)], ByInstance(p.edge), Single, SingleOfFleet>>)

(* resolveEdgeFromPresence: by the folder's own row, by the edge, by the    *)
(* server's name, and by there being only one edge to choose from.          *)
Resolve(p) ==
    FirstOf(<<IF p.slug THEN registry[FolderRow(p.edge)] ELSE NoEdge,
              ByInstance(p.edge), registry[NameRow(p.name)], Single, SingleOfFleet>>)

(* resolveHudEdgeForSteamId, for a player with this record of a join: the    *)
(* server's name then, and the folder if lookupManagedServer knew the name.  *)
Routing(p) == [ok |-> Resolve(p) # NoEdge, edge |-> Resolve(p)]

(* decideHudGatewayWsUpgrade, and likewise resolveHudGatewayEdge: the       *)
(* overlay is connected through to the edge, or refused when none is found. *)
Route(p) ==
    IF Routing(p).ok THEN [action |-> "proxy", to |-> Routing(p).edge]
    ELSE [action |-> "reject", to |-> NoEdge]

-----------------------------------------------------------------------------
RoutingNext ==
    \/ \E e \in Edges : Rename(e) \/ \E s \in SyncSlots : PublishRegistry(e, s)
    \/ \E s \in SyncSlots : SyncLost(s) \/ HandleSync(s) \/ HandleSyncLoads(s)
    \/ LoadAnswered \/ HubStarts \/ FleetLoaded

RoutingTypeOK ==
    /\ lobby \in [Edges -> Lobbies]
    /\ sync \in [SyncSlots -> [at : {"idle", "sent", "loading"},
                               edge : Edges \cup {NoEdge}, name : Lobbies \cup {Folder}]]
    /\ registry \in [Rows -> Edges \cup {NoEdge}] /\ saved \in [Rows -> Edges \cup {NoEdge}]
    /\ stale \in BOOLEAN
    /\ Len(loads) <= 1 + Cardinality(SyncSlots)
    /\ fleet \in {EnvFleet, DbFleet}
    /\ routingOps \in 0 .. MaxRoutingOps
    /\ acked \subseteq Edges /\ overlapped \in BOOLEAN

(* An edge whose sync was acknowledged stays in the map until the hub       *)
(* restarts, under the key that is its own, whatever names it and the other *)
(* edges have or take: their syncs touch their own rows and names, and the  *)
(* answer to the start's read of the saved map comes before that sync       *)
(* (applyHudRegistrySync).  Unless two syncs found the map empty at once:   *)
(* the second to be answered puts back what was saved before the first.     *)
EdgesStayRegistered ==
    overlapped \/ \A e \in acked : registry[FolderRow(e)] = e

(* The overlay of a player is never sent to an edge other than the          *)
(* player's, though lobbies and folders share names, as long as the hub     *)
(* knows that edge at all (resolveEdgeFromPresence).                        *)
RoutedToOwnEdge ==
    \A p \in Records :
      (p.edge \in fleet \/ Registered(p.edge)) => Route(p) = [action |-> "proxy", to |-> p.edge]
=============================================================================
