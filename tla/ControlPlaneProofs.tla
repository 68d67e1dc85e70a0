------------------------- MODULE ControlPlaneProofs -------------------------
(***************************************************************************)
(* Proofs about the parts of the control plane: an edge does not stop a    *)
(* busy server for idleness, an overlay is not sent to another edge, a     *)
(* branding that reports success is on every server, the activity page has *)
(* no gaps, and an edge is not told to run content it never had.  Each part *)
(* has an invariant of its own, which its own steps preserve; the steps of  *)
(* the other parts leave its variables alone.                              *)
(***************************************************************************)
EXTENDS ControlPlane, FiniteSetTheorems, WellFoundedInduction, TLAPS

-----------------------------------------------------------------------------
(* The pool *)

(* A server boarded under the ini's name is reported under it, and a map   *)
(* rebuilt in this heartbeat knows it, so that its drivers are noted once   *)
(* every heartbeat.                                                        *)
BoardedIsKnown ==
    boardedFor > 0 =>
      /\ aboard /\ running /\ statusName = iniName
      /\ mapFresh => mapName = iniName
      /\ told => lastActivity = 0
      /\ boardedFor = Settled => lastActivity \in {0, 1}

PoolFlags ==
    /\ mapFresh \in BOOLEAN /\ running \in BOOLEAN /\ aboard \in BOOLEAN /\ told \in BOOLEAN
    /\ aboard => running

PoolCounts ==
    /\ lastActivity \in Never .. IdleShutdown
    /\ boardedFor \in 0 .. Settled /\ serverOps \in 0 .. MaxServerOps

PoolInv == PoolFlags /\ PoolCounts /\ BoardedIsKnown

LEMMA PoolInvInit == Init => PoolInv
<1> SUFFICES ASSUME ServerPoolInit
             PROVE  PoolInv
  BY DEF Init, PoolRests
<1>1. PoolFlags
  BY DEF ServerPoolInit, PoolFlags
<1>2. PoolCounts
  BY ServerPoolAssumption DEF ServerPoolInit, PoolCounts, Never, Settled
<1>3. BoardedIsKnown
  BY DEF ServerPoolInit, BoardedIsKnown
<1> QED BY <1>1, <1>2, <1>3 DEF PoolInv

LEMMA PoolFlagsStep == PoolFlags /\ ServerPoolNext => PoolFlags'
<1> SUFFICES ASSUME PoolFlags, ServerPoolNext
             PROVE  PoolFlags'
  OBVIOUS
<1> USE DEF PoolFlags
<1>1. CASE StartServer
  BY <1>1 DEF StartServer, ServerOp
<1>2. CASE StopServer
  BY <1>2 DEF StopServer, ServerOp
<1>3. ASSUME NEW name \in DisplayNames, RenameServer(name)
      PROVE  PoolFlags'
  BY <1>3 DEF RenameServer, ServerOp
<1>4. CASE NewSession
  BY <1>4 DEF NewSession
<1>5. CASE Board
  BY <1>5 DEF Board
<1>6. CASE LastLeaves
  BY <1>6 DEF LastLeaves
<1>7. CASE NoteServerStatus
  BY <1>7 DEF NoteServerStatus, RebuildNameMap
<1>8. CASE Grace
  BY <1>8 DEF Grace
<1>9. CASE IdleStop
  BY <1>9 DEF IdleStop
<1>10. CASE Heartbeat
  BY <1>10 DEF Heartbeat, AtMost
<1> QED
  BY <1>1, <1>2, <1>3, <1>4, <1>5, <1>6, <1>7, <1>8, <1>9, <1>10 DEF ServerPoolNext

LEMMA PoolCountsStep == PoolCounts /\ ServerPoolNext => PoolCounts'
<1> SUFFICES ASSUME PoolCounts, ServerPoolNext
             PROVE  PoolCounts'
  OBVIOUS
<1> USE ServerPoolAssumption DEF PoolCounts, Never, Settled
<1>1. CASE StartServer
  BY <1>1 DEF StartServer, ServerOp
<1>2. CASE StopServer
  BY <1>2 DEF StopServer, ServerOp
<1>3. ASSUME NEW name \in DisplayNames, RenameServer(name)
      PROVE  PoolCounts'
  BY <1>3 DEF RenameServer, ServerOp
<1>4. CASE NewSession
  BY <1>4 DEF NewSession
<1>5. CASE Board
  BY <1>5 DEF Board
<1>6. CASE LastLeaves
  BY <1>6 DEF LastLeaves
<1>7. CASE NoteServerStatus
  BY <1>7 DEF NoteServerStatus, RebuildNameMap
<1>8. CASE Grace
  BY <1>8 DEF Grace
<1>9. CASE IdleStop
  BY <1>9 DEF IdleStop
<1>10. CASE Heartbeat
  BY <1>10 DEF Heartbeat, AtMost
<1> QED
  BY <1>1, <1>2, <1>3, <1>4, <1>5, <1>6, <1>7, <1>8, <1>9, <1>10 DEF ServerPoolNext

LEMMA BoardedStep == PoolInv /\ IdleShutdown > 1 /\ ServerPoolNext => BoardedIsKnown'
<1> SUFFICES ASSUME PoolInv, IdleShutdown > 1, ServerPoolNext
             PROVE  BoardedIsKnown'
  OBVIOUS
<1> USE ServerPoolAssumption DEF PoolInv, PoolFlags, PoolCounts, BoardedIsKnown, Never, Settled
<1>1. CASE StartServer
  BY <1>1 DEF StartServer, ServerOp
<1>2. CASE StopServer
  BY <1>2 DEF StopServer, ServerOp
<1>3. ASSUME NEW name \in DisplayNames, RenameServer(name)
      PROVE  BoardedIsKnown'
  BY <1>3 DEF RenameServer, ServerOp
<1>4. CASE NewSession
  BY <1>4 DEF NewSession
<1>5. CASE Board
  BY <1>5 DEF Board
<1>6. CASE LastLeaves
  BY <1>6 DEF LastLeaves
<1>7. CASE NoteServerStatus
  BY <1>7 DEF NoteServerStatus, RebuildNameMap
<1>8. CASE Grace
  BY <1>8 DEF Grace
<1>9. CASE IdleStop
  BY <1>9 DEF IdleStop
<1>10. CASE Heartbeat
  BY <1>10 DEF Heartbeat, AtMost
<1> QED
  BY <1>1, <1>2, <1>3, <1>4, <1>5, <1>6, <1>7, <1>8, <1>9, <1>10 DEF ServerPoolNext

LEMMA OthersLeavePool == [Next]_vars => OfPool(ServerPoolNext) \/ UNCHANGED poolVars
BY DEF Next, OfPresence, OfInventory, OfRouting, OfOverlay, OfActivity, OfPage, vars

(* If a server may be idle for more than a heartbeat at all, one that has  *)
(* had drivers on board for two heartbeats under the name in its ini is not *)
(* stopped for idleness (idleShutdownTick, noteServerStatus), whatever was  *)
(* started, stopped or renamed before.                                     *)
THEOREM BusyIsNotIdle == ASSUME IdleShutdown > 1 PROVE Spec => BusyServersStay
<1>1. Init => PoolInv
  BY PoolInvInit
<1>2. PoolInv /\ [Next]_vars => PoolInv'
  <2> SUFFICES ASSUME PoolInv, [Next]_vars
               PROVE  PoolInv'
    OBVIOUS
  <2>1. CASE OfPool(ServerPoolNext)
    BY <2>1, PoolFlagsStep, PoolCountsStep, BoardedStep DEF OfPool, PoolInv
  <2>2. CASE UNCHANGED poolVars
    BY <2>2 DEF PoolInv, PoolFlags, PoolCounts, BoardedIsKnown, poolVars
  <2> QED BY <2>1, <2>2, OthersLeavePool
<1>3. PoolInv /\ [Next]_vars => [IdleStop => boardedFor < Settled]_poolVars
  BY ServerPoolAssumption
     DEF PoolInv, PoolFlags, PoolCounts, BoardedIsKnown, IdleStop, Settled
<1> QED BY <1>1, <1>2, <1>3, PTL DEF Spec, BusyServersStay

-----------------------------------------------------------------------------
(* The routing of overlays *)

(* No map, in memory, saved or on its way, gives the key that is an edge's *)
(* own to another.                                                         *)
OwnMaps ==
    {map \in [Rows -> Edges \cup {NoEdge}] : \A e \in Edges : map[FolderRow(e)] \in {e, NoEdge}}

Loaded == [for : SyncSlots, boot : {FALSE}, null : BOOLEAN, found : OwnMaps]
BootLoaded == [for : {CHOOSE s \in SyncSlots : TRUE}, boot : {TRUE}, null : BOOLEAN, found : OwnMaps]

Syncs == [at : {"idle", "sent", "loading"}, edge : Edges \cup {NoEdge}, name : Lobbies \cup {Folder}]

RegistryInv ==
    /\ lobby \in [Edges -> Lobbies] /\ fleet \subseteq Edges /\ stale \in BOOLEAN
    /\ sync \in [SyncSlots -> Syncs]
    /\ registry \in OwnMaps /\ saved \in OwnMaps
    /\ loads \in Seq(Loaded \cup BootLoaded)

LEMMA OwnRows ==
    /\ \A e \in Edges : FolderRow(e) \in Rows
    /\ \A e, x \in Edges \cup {NoEdge}, name \in Lobbies \cup {Folder} :
         FolderRow(e) \in EntriesOf(x, name) => e = x
    /\ \A e, name : FolderRow(e) \in EntriesOf(e, name)
    /\ NoRows \in OwnMaps
BY HudRoutingAssumption DEF FolderRow, NameRow, Rows, EntriesOf, NoRows, OwnMaps

(* mergeDynamicRegistryMaps touches its own edge's key only.               *)
LEMMA MergedIsOwn ==
    ASSUME NEW map \in OwnMaps, NEW e \in Edges \cup {NoEdge}, NEW name \in Lobbies \cup {Folder}
    PROVE  /\ Merged(map, e, name) \in OwnMaps
           /\ \A x \in Edges \ {e} : Merged(map, e, name)[FolderRow(x)] = map[FolderRow(x)]
           /\ e \in Edges => Merged(map, e, name)[FolderRow(e)] = e
BY OwnRows, HudRoutingAssumption DEF Merged, OwnMaps

LEMMA LoadIsLoaded ==
    ASSUME saved \in OwnMaps, NEW old \in BOOLEAN
    PROVE  /\ \A s \in SyncSlots : Load(s, FALSE, old) \in Loaded
           /\ Load(CHOOSE s \in SyncSlots : TRUE, TRUE, old) \in BootLoaded
<1>1. PICK map \in OwnMaps : map = IF old THEN NoRows ELSE saved
  BY OwnRows
<1>2. PICK null \in BOOLEAN : null = (saved = NoRows)
  OBVIOUS
<1>3. \A s, boot : Load(s, boot, old) = [for |-> s, boot |-> boot, null |-> null, found |-> map]
  BY <1>1, <1>2 DEF Load
<1>4. \A s \in SyncSlots : [for |-> s, boot |-> FALSE, null |-> null, found |-> map] \in Loaded
  BY DEF Loaded
<1>5. [for |-> CHOOSE s \in SyncSlots : TRUE, boot |-> TRUE, null |-> null, found |-> map]
        \in BootLoaded
  BY DEF BootLoaded
<1> QED BY <1>3, <1>4, <1>5, Zenon

LEMMA RegistryInvInit == Init => RegistryInv
<1> SUFFICES ASSUME RoutingInit
             PROVE  RegistryInv
  BY DEF Init, RoutingRests
<1>1. NoSync \in Syncs
  BY DEF NoSync, Syncs
<1>2. fleet \subseteq Edges /\ stale \in BOOLEAN
  BY HudRoutingAssumption DEF RoutingInit
<1>3. loads \in Seq(Loaded \cup BootLoaded)
  BY DEF RoutingInit
<1> QED BY <1>1, <1>2, <1>3, OwnRows DEF RoutingInit, RegistryInv

LEMMA RegistryInvStep == RegistryInv /\ RoutingNext => RegistryInv'
<1> SUFFICES ASSUME RegistryInv, RoutingNext
             PROVE  RegistryInv'
  OBVIOUS
<1> USE DEF RegistryInv
<1>0. NoSync \in Syncs
  BY DEF NoSync, Syncs
<1>1. ASSUME NEW e \in Edges, Rename(e)
      PROVE  RegistryInv'
  BY <1>1 DEF Rename
<1>2. ASSUME NEW e \in Edges, NEW s \in SyncSlots, PublishRegistry(e, s)
      PROVE  RegistryInv'
  BY <1>2 DEF PublishRegistry, Syncs
<1>3. ASSUME NEW s \in SyncSlots, SyncLost(s)
      PROVE  RegistryInv'
  BY <1>3, <1>0 DEF SyncLost
<1>4. ASSUME NEW s \in SyncSlots, NEW map \in OwnMaps, Apply(s, map)
      PROVE  /\ registry' \in OwnMaps /\ saved' \in OwnMaps
             /\ sync' \in [SyncSlots -> Syncs] /\ stale' \in BOOLEAN
  <2>1. sync[s].edge \in Edges \cup {NoEdge} /\ sync[s].name \in Lobbies \cup {Folder}
    BY DEF Syncs
  <2> QED BY <1>4, <2>1, <1>0, MergedIsOwn DEF Apply
<1>5. ASSUME NEW s \in SyncSlots, HandleSync(s)
      PROVE  RegistryInv'
  BY <1>5, <1>4 DEF HandleSync
<1>6. ASSUME NEW s \in SyncSlots, HandleSyncLoads(s)
      PROVE  RegistryInv'
  <2>1. sync' \in [SyncSlots -> Syncs]
    BY <1>6 DEF HandleSyncLoads, Syncs
  <2>2. Load(s, FALSE, stale) \in Loaded \cup BootLoaded
    BY LoadIsLoaded
  <2>3. \E fetch \in Loaded \cup BootLoaded : loads' = Append(loads, fetch)
    BY <1>6, <2>2, Zenon DEF HandleSyncLoads
  <2>4. loads' \in Seq(Loaded \cup BootLoaded)
    BY <2>3
  <2> QED BY <1>6, <2>1, <2>4 DEF HandleSyncLoads
<1>7. CASE LoadAnswered
  <2>1. loads' \in Seq(Loaded \cup BootLoaded) /\ Head(loads) \in Loaded \cup BootLoaded
    BY <1>7 DEF LoadAnswered
  <2> DEFINE map == IF Head(loads).null THEN registry ELSE Head(loads).found
  <2>2. map \in OwnMaps
    BY <2>1 DEF Loaded, BootLoaded
  <2>3. ~Head(loads).boot => Head(loads).for \in SyncSlots
    BY <2>1 DEF Loaded, BootLoaded
  <2>4. CASE Head(loads).boot
    BY <1>7, <2>1, <2>2, <2>4 DEF LoadAnswered
  <2>5. CASE ~Head(loads).boot
    <3>1. Apply(Head(loads).for, map) /\ UNCHANGED <<lobby, fleet>>
      BY <1>7, <2>5 DEF LoadAnswered
    <3> HIDE DEF map
    <3> QED BY <2>1, <2>2, <2>3, <2>5, <3>1, <1>4
  <2> QED BY <2>4, <2>5
<1>8. CASE HubStarts
  <2>1. stale' \in BOOLEAN
    BY <1>8 DEF HubStarts
  <2>2. Load(CHOOSE s \in SyncSlots : TRUE, TRUE, stale') \in Loaded \cup BootLoaded
    BY <2>1, LoadIsLoaded
  <2>3. \E fetch \in Loaded \cup BootLoaded : loads' = <<fetch>>
    BY <1>8, <2>2, Zenon DEF HubStarts
  <2>4. loads' \in Seq(Loaded \cup BootLoaded)
    BY <2>3
  <2> QED BY <1>8, <1>0, <2>1, <2>4, OwnRows, HudRoutingAssumption DEF HubStarts
<1>9. CASE FleetLoaded
  BY <1>9, HudRoutingAssumption DEF FleetLoaded
<1> QED
  BY <1>1, <1>2, <1>3, <1>5, <1>6, <1>7, <1>8, <1>9 DEF RoutingNext

LEMMA OthersLeaveRouting == [Next]_vars => OfRouting(RoutingNext) \/ UNCHANGED routingVars
BY DEF Next, OfPresence, OfInventory, OfOverlay, OfActivity, OfPool, OfPage, vars

LEMMA RegistryInvariant == Spec => []RegistryInv
<1>1. Init => RegistryInv
  BY RegistryInvInit
<1>2. RegistryInv /\ [Next]_vars => RegistryInv'
  <2> SUFFICES ASSUME RegistryInv, [Next]_vars
               PROVE  RegistryInv'
    OBVIOUS
  <2>1. CASE OfRouting(RoutingNext)
    BY <2>1, RegistryInvStep DEF OfRouting
  <2>2. CASE UNCHANGED routingVars
    BY <2>2 DEF RegistryInv, routingVars
  <2> QED BY <2>1, <2>2, OthersLeaveRouting
<1> QED BY <1>1, <1>2, PTL DEF Spec

LEMMA FirstHit ==
    ASSUME NEW a, NEW b, NEW c, NEW d, NEW e
    PROVE  /\ a # NoEdge => FirstOf(<<a, b, c, d, e>>) = a
           /\ a = NoEdge /\ b # NoEdge => FirstOf(<<a, b, c, d, e>>) = b
<1> DEFINE lookups == <<a, b, c, d, e>>
           hits == {i \in DOMAIN lookups : lookups[i] # NoEdge}
           first == CHOOSE i \in hits : \A j \in hits : i <= j
<1>1. DOMAIN lookups = 1 .. 5 /\ lookups[1] = a /\ lookups[2] = b
  OBVIOUS
<1>2. ASSUME NEW n \in hits, \A j \in hits : n <= j
      PROVE  FirstOf(lookups) = lookups[n]
  <2>1. first \in hits /\ \A j \in hits : first <= j
    BY <1>2, Zenon
  <2>2. hits \subseteq Int
    BY <1>1
  <2> HIDE DEF hits, first
  <2>3. first <= n /\ n <= first /\ first \in Int /\ n \in Int
    BY <1>2, <2>1, <2>2
  <2>4. first = n
    BY <2>3
  <2> QED BY <1>2, <2>4 DEF FirstOf, hits, first
<1>3. a # NoEdge => 1 \in hits /\ \A j \in hits : 1 <= j
  BY <1>1
<1>4. a = NoEdge /\ b # NoEdge => 2 \in hits /\ \A j \in hits : 2 <= j
  <2>1. ASSUME a = NoEdge, NEW j \in hits
        PROVE  2 <= j
    BY <1>1, <2>1
  <2> QED BY <1>1, <2>1
<1> HIDE DEF hits, lookups
<1>5. (a # NoEdge => FirstOf(lookups) = a) /\ (a = NoEdge /\ b # NoEdge => FirstOf(lookups) = b)
  BY <1>1, <1>2, <1>3, <1>4
<1> QED BY <1>5 DEF lookups

(* The overlay of a player is not sent to an edge other than the player's,  *)
(* as long as the hub knows that edge at all (resolveEdgeFromPresence): the *)
(* first key looked up is the edge's own, which no sync, late or repeated,  *)
(* and no map saved before gives to another.                               *)
THEOREM OverlaysFindTheirEdge == Spec => []RoutedToOwnEdge
<1>1. RegistryInv => RoutedToOwnEdge
  <2> SUFFICES ASSUME RegistryInv, NEW p \in Records, p.edge \in fleet \/ Registered(p.edge)
               PROVE  Resolve(p) = p.edge
    BY HudRoutingAssumption DEF RoutedToOwnEdge, Route, Routing, Records
  <2>1. p.edge \in Edges /\ p.edge # NoEdge
    BY HudRoutingAssumption DEF Records
  <2>2. registry[FolderRow(p.edge)] \in {p.edge, NoEdge}
    BY <2>1 DEF RegistryInv, OwnMaps
  <2>3. ByInstance(p.edge) = p.edge
    BY DEF ByInstance
  <2> DEFINE own == IF p.slug THEN registry[FolderRow(p.edge)] ELSE NoEdge
  <2>4. own \in {p.edge, NoEdge}
    BY <2>2
  <2>5. Resolve(p) = FirstOf(<<own, ByInstance(p.edge), registry[NameRow(p.name)],
                               Single, SingleOfFleet>>)
    BY DEF Resolve
  <2> HIDE DEF own
  <2> QED BY <2>1, <2>3, <2>4, <2>5, FirstHit
<1> QED BY <1>1, RegistryInvariant, PTL

(* While no two reads of the saved map overlap, one is under way only as    *)
(* long as the map is empty, and the sync it is for still waits.            *)
OneRead ==
    overlapped \/
      /\ acked \subseteq Edges /\ \A e \in acked : registry[FolderRow(e)] = e
      /\ loads # <<>> =>
           /\ registry = NoRows /\ Len(loads) = 1
           /\ Head(loads).boot \/ sync[Head(loads).for].at = "loading"

AckedInv ==
    /\ RegistryInv /\ OneRead /\ overlapped \in BOOLEAN
    /\ \A s \in SyncSlots : sync[s].at # "idle" => sync[s].edge \in Edges

LEMMA SyncIsOfAnEdge ==
    ASSUME RegistryInv, NEW s \in SyncSlots, NEW map \in OwnMaps, Apply(s, map),
           sync[s].edge \in Edges, acked \subseteq Edges,
           \A e \in acked : map[FolderRow(e)] = e,
           \A q \in SyncSlots : sync[q].at # "idle" => sync[q].edge \in Edges
    PROVE  /\ \A e \in acked' : registry'[FolderRow(e)] = e
           /\ acked' \subseteq Edges
           /\ \A q \in SyncSlots : sync'[q].at # "idle" => sync'[q].edge \in Edges
<1>1. sync[s].name \in Lobbies \cup {Folder}
  BY DEF RegistryInv, Syncs
<1>2. sync' = [sync EXCEPT ![s] = NoSync] /\ acked' = acked \cup {sync[s].edge}
  BY DEF Apply
<1>3. registry' = Merged(map, sync[s].edge, sync[s].name)
  BY DEF Apply
<1>4. \A e \in acked' : registry'[FolderRow(e)] = e
  BY <1>1, <1>2, <1>3, MergedIsOwn
<1>5. NoSync.at = "idle"
  BY DEF NoSync
<1> QED BY <1>2, <1>4, <1>5 DEF RegistryInv

LEMMA AckedInvStep == AckedInv /\ RoutingNext => AckedInv'
<1> SUFFICES ASSUME AckedInv, RoutingNext
             PROVE  AckedInv'
  OBVIOUS
<1>0. RegistryInv'
  BY RegistryInvStep DEF AckedInv
<1> USE DEF AckedInv, OneRead
<1>1. ASSUME NEW e \in Edges, Rename(e)
      PROVE  AckedInv'
  BY <1>0, <1>1 DEF Rename
<1>2. ASSUME NEW e \in Edges, NEW s \in SyncSlots, PublishRegistry(e, s)
      PROVE  AckedInv'
  BY <1>0, <1>2 DEF PublishRegistry, RegistryInv, Loaded, BootLoaded
<1>3. ASSUME NEW s \in SyncSlots, SyncLost(s)
      PROVE  AckedInv'
  BY <1>0, <1>3 DEF SyncLost, NoSync, RegistryInv
<1>5. ASSUME NEW s \in SyncSlots, HandleSync(s)
      PROVE  AckedInv'
  <2>1. registry # NoRows /\ Apply(s, registry) /\ UNCHANGED <<loads, overlapped>>
        /\ sync[s].at = "sent"
    BY <1>5 DEF HandleSync
  <2>2. CASE overlapped
    BY <1>0, <2>1, <2>2 DEF Apply, NoSync, RegistryInv
  <2>3. CASE ~overlapped
    BY <1>0, <2>1, <2>3, SyncIsOfAnEdge DEF RegistryInv
  <2> QED BY <2>2, <2>3
<1>6. ASSUME NEW s \in SyncSlots, HandleSyncLoads(s)
      PROVE  AckedInv'
  <2> DEFINE fetch == Load(s, FALSE, stale)
  <2>1. /\ loads' = Append(loads, fetch) /\ overlapped' = (overlapped \/ loads # <<>>)
        /\ registry' = registry /\ acked' = acked
        /\ sync[s].at = "sent" /\ sync' = [sync EXCEPT ![s].at = "loading"] /\ registry = NoRows
    BY <1>6 DEF HandleSyncLoads
  <2>2. fetch.for = s
    BY DEF Load
  <2>3. \A q \in SyncSlots : sync'[q].at # "idle" => sync'[q].edge \in Edges
    BY <2>1 DEF RegistryInv, Syncs
  <2>4. sync'[s].at = "loading"
    BY <2>1 DEF RegistryInv, Syncs
  <2> HIDE DEF fetch
  <2>5. CASE overlapped'
    BY <1>0, <2>1, <2>3, <2>5
  <2>6. CASE ~overlapped'
    <3>0. loads = <<>> /\ ~overlapped
      BY <2>1, <2>6
    <3>1. loads' = <<fetch>> /\ ~overlapped
      BY <2>1, <3>0
    <3>2. loads' # <<>> /\ Len(loads') = 1 /\ Head(loads') = fetch
      BY <3>1
    <3> QED BY <1>0, <2>1, <2>2, <2>3, <2>4, <3>1, <3>2
  <2> QED BY <2>1, <2>5, <2>6
<1>7. CASE LoadAnswered
  <2> DEFINE fetch == Head(loads)
             map == IF fetch.null THEN registry ELSE fetch.found
  <2>1. fetch \in Loaded \cup BootLoaded /\ loads' = Tail(loads) /\ loads # <<>>
        /\ overlapped' = overlapped
    BY <1>7 DEF LoadAnswered, RegistryInv
  <2>2. ~overlapped => loads' = <<>>
    BY <2>1 DEF RegistryInv
  <2>3. CASE fetch.boot
    <3>1. registry' = map /\ UNCHANGED <<acked, sync>>
      BY <1>7, <2>3 DEF LoadAnswered
    <3>2. ~overlapped => acked = {}
      BY <2>1, OwnRows, HudRoutingAssumption DEF NoRows
    <3> QED BY <1>0, <2>1, <2>2, <3>1, <3>2
  <2>4. CASE ~fetch.boot
    <3>1. Apply(fetch.for, map) /\ fetch.for \in SyncSlots /\ map \in OwnMaps
      BY <1>7, <2>1, <2>4 DEF LoadAnswered, Loaded, BootLoaded, RegistryInv
    <3> HIDE DEF fetch, map
    <3>2. sync' = [sync EXCEPT ![fetch.for] = NoSync]
      BY <3>1 DEF Apply
    <3>3. CASE overlapped
      BY <1>0, <2>1, <3>2, <3>3 DEF NoSync, RegistryInv
    <3>4. CASE ~overlapped
      <4>1. acked = {}
        BY <2>1, <3>4, OwnRows, HudRoutingAssumption DEF NoRows
      <4>2. sync[fetch.for].at = "loading"
        BY <2>1, <2>4, <3>4 DEF fetch
      <4>3. sync[fetch.for].edge \in Edges
        BY <3>1, <4>2
      <4> QED BY <1>0, <2>1, <2>2, <3>1, <4>1, <4>3, SyncIsOfAnEdge
    <3> QED BY <3>3, <3>4
  <2> QED BY <2>3, <2>4
<1>8. CASE HubStarts
  <2>1. /\ acked' = {} /\ registry' = NoRows /\ overlapped' = FALSE
        /\ \A s \in SyncSlots : sync'[s].at = "idle"
    BY <1>8 DEF HubStarts, NoSync
  <2> DEFINE fetch == Load(CHOOSE s \in SyncSlots : TRUE, TRUE, stale')
  <2>2. loads' = <<fetch>>
    BY <1>8 DEF HubStarts
  <2>3. fetch.boot
    BY DEF Load
  <2> HIDE DEF fetch
  <2>4. Len(loads') = 1 /\ Head(loads') = fetch
    BY <2>2
  <2> QED BY <1>0, <2>1, <2>3, <2>4
<1>9. CASE FleetLoaded
  BY <1>0, <1>9 DEF FleetLoaded
<1> QED
  BY <1>1, <1>2, <1>3, <1>5, <1>6, <1>7, <1>8, <1>9 DEF RoutingNext

(* An edge whose sync was acknowledged stays in the map under its own key   *)
(* until the hub restarts (applyHudRegistrySync), unless two reads of the   *)
(* saved map were under way at once.                                       *)
THEOREM AckedStayRegistered == Spec => []EdgesStayRegistered
<1>1. Init => AckedInv
  <2>1. \A s \in SyncSlots : RoutingInit => sync[s].at = "idle"
    BY DEF RoutingInit, NoSync
  <2> QED BY <2>1, RegistryInvInit DEF Init, RoutingRests, RoutingInit, AckedInv, OneRead
<1>2. AckedInv /\ [Next]_vars => AckedInv'
  <2> SUFFICES ASSUME AckedInv, [Next]_vars
               PROVE  AckedInv'
    OBVIOUS
  <2>1. CASE OfRouting(RoutingNext)
    BY <2>1, AckedInvStep DEF OfRouting
  <2>2. CASE UNCHANGED routingVars
    BY <2>2 DEF AckedInv, RegistryInv, OneRead, routingVars
  <2> QED BY <2>1, <2>2, OthersLeaveRouting
<1>3. AckedInv => EdgesStayRegistered
  BY DEF AckedInv, OneRead, EdgesStayRegistered
<1> QED BY <1>1, <1>2, <1>3, PTL DEF Spec

-----------------------------------------------------------------------------
(* The servers page *)

Names == Titles \cup {NoTitle, FirstTitle}
FolderStates == [there : BOOLEAN, title : Names, brand : {"plain", "style", "branding"}]
Disks == [Hosts -> [Indices -> FolderStates]]
ServersOf == Hosts \X Indices

(* A request under way; a branding save is sent and served, or waits for   *)
(* its next edge.                                                          *)
Requests ==
    {req \in [kind : {"idle", "provision", "remove", "lobby", "style", "branding"},
              at : {"idle", "next", "sent", "stopping", "served"},
              host : Hosts \cup {NoHost}, targets : SUBSET ServersOf,
              title : Names, ok : BOOLEAN, todo : SUBSET Hosts,
              last : BOOLEAN, changed : SUBSET ServersOf] :
       req.kind = "idle" => req.at = "idle"}

PageRows == [host : Hosts, index : Indices, title : Names]
PageLoads == [at : {"idle", "reading"}, last : BOOLEAN, waits : SUBSET Hosts, rows : SUBSET PageRows]

PageShapes ==
    /\ disk \in Disks /\ rows \subseteq PageRows
    /\ load \in [Loads -> PageLoads] /\ call \in [Calls -> Requests]

(* A server meant by a branding save without an error so far is on an edge *)
(* still to be asked or being asked, or carries the branding, or was        *)
(* written by another request since, or has gone.                          *)
Carries(d, t) == d[t[1]][t[2]].there => d[t[1]][t[2]].brand = "branding"

AppliedOrPending(d, req) ==
    req.kind = "branding" /\ req.ok =>
      \A t \in req.targets \ req.changed :
        \/ t[1] \in req.todo
        \/ req.at = "sent" /\ req.host = t[1]
        \/ Carries(d, t)

PageInv == PageShapes /\ \A r \in Calls : AppliedOrPending(disk, call[r])

(* The numbers that are taken are no concern of what a save has done.       *)
LEMMA OutnumberedCalls ==
    ASSUME PageShapes
    PROVE  /\ Outnumbered(call) \in [Calls -> Requests] /\ Outnumbered(load) \in [Loads -> PageLoads]
           /\ \A r \in Calls : AppliedOrPending(disk, call[r]) =>
                               AppliedOrPending(disk, Outnumbered(call)[r])
<1>1. /\ Outnumbered(call) = [r \in Calls |-> [call[r] EXCEPT !.last = FALSE]]
      /\ Outnumbered(load) = [l \in Loads |-> [load[l] EXCEPT !.last = FALSE]]
  BY DEF PageShapes, Outnumbered
<1>2. ASSUME NEW r \in Calls
      PROVE  /\ [call[r] EXCEPT !.last = FALSE] \in Requests
             /\ AppliedOrPending(disk, call[r]) =>
                  AppliedOrPending(disk, [call[r] EXCEPT !.last = FALSE])
  <2> DEFINE old == call[r]  new == [old EXCEPT !.last = FALSE]
  <2>1. old \in Requests
    BY DEF PageShapes
  <2> HIDE DEF old
  <2>2. new \in Requests
    BY <2>1 DEF Requests
  <2>3. AppliedOrPending(disk, old) => AppliedOrPending(disk, new)
    BY <2>1 DEF Requests, AppliedOrPending
  <2> QED BY <2>2, <2>3 DEF old
<1>3. ASSUME NEW l \in Loads
      PROVE  [load[l] EXCEPT !.last = FALSE] \in PageLoads
  BY DEF PageShapes, PageLoads
<1> QED BY <1>1, <1>2, <1>3

LEMMA StartsLoadShape == PageShapes /\ StartsLoad => load' \in [Loads -> PageLoads]
BY OutnumberedCalls DEF PageShapes, StartsLoad, NewLoad, PageLoads, FirstIdle

LEMMA NewRequests ==
    /\ NoCall \in Requests
    /\ \A h \in Hosts : \A kind \in {"provision", "remove", "lobby", "style"} :
         NewCall(kind, h) \in Requests /\ NewCall(kind, h).kind = kind
    /\ \A row \in PageRows : \A kind \in {"remove", "lobby", "style"} :
         OnRow(kind, row) \in Requests /\ OnRow(kind, row).kind = kind
<1>1. NoCall \in Requests
  BY DEF NoCall, Requests, Names
<1>2. ASSUME NEW h \in Hosts, NEW kind \in {"provision", "remove", "lobby", "style"}
      PROVE  NewCall(kind, h) \in Requests /\ NewCall(kind, h).kind = kind
  <2> DEFINE one == [NoCall EXCEPT !.kind = kind]
             two == [one EXCEPT !.at = "sent"]
             three == [two EXCEPT !.host = h]
  <2>1. one \in Requests /\ one.kind = kind
    BY <1>1 DEF Requests
  <2>2. NewCall(kind, h) = three
    BY Zenon DEF NewCall, NoCall
  <2> HIDE DEF one
  <2>3. two \in Requests /\ two.kind = kind
    BY <2>1 DEF Requests
  <2> HIDE DEF two
  <2>4. three \in Requests /\ three.kind = kind
    BY <2>3 DEF Requests
  <2> QED BY <2>2, <2>4
<1>3. ASSUME NEW row \in PageRows, NEW kind \in {"remove", "lobby", "style"}
      PROVE  OnRow(kind, row) \in Requests /\ OnRow(kind, row).kind = kind
  <2>1. row.host \in Hosts /\ <<row.host, row.index>> \in ServersOf
    BY DEF PageRows, ServersOf
  <2> QED BY <2>1, <1>2 DEF OnRow, Requests
<1> QED BY <1>1, <1>2, <1>3

(* An edge that has answered has its servers as the request asks for.      *)
LEMMA ServedShape ==
    ASSUME PageShapes, NEW r \in Calls, NEW h \in Hosts, call[r].kind # "idle"
    PROVE  Served(call[r], h) \in [Indices -> FolderStates]
<1> DEFINE req == call[r]  was == disk[h]
<1>1. was \in [Indices -> FolderStates] /\ req \in Requests
  BY DEF PageShapes, Disks
<1> HIDE DEF req, was
<1>2. Absent \in FolderStates /\ \A t \in Names : Instance(t, "plain") \in FolderStates
  BY DEF Absent, Instance, FolderStates, Names
<1>3. Provisioned(req, h) \in [Indices -> FolderStates]
  BY <1>1, <1>2 DEF Provisioned, was, Requests
<1>4. Removed(req, h) \in [Indices -> FolderStates]
  BY <1>1, <1>2 DEF Removed, was
<1>5. ASSUME NEW i \in Indices
      PROVE  /\ [was[i] EXCEPT !.title = req.title] \in FolderStates
             /\ [was[i] EXCEPT !.brand = "style"] \in FolderStates
             /\ [was[i] EXCEPT !.brand = "branding"] \in FolderStates
  BY <1>1 DEF FolderStates, Requests
<1>6. Configured(req, h) \in [Indices -> FolderStates] /\ Branded(req, h) \in [Indices -> FolderStates]
  BY <1>1, <1>5 DEF Configured, Branded, was
<1>7. req.kind \in {"provision", "remove", "lobby", "style", "branding"}
  BY <1>1 DEF req, Requests
<1>8. Served(req, h) \in {Provisioned(req, h), Removed(req, h), Configured(req, h), Branded(req, h)}
  BY <1>7 DEF Served
<1> QED BY <1>3, <1>4, <1>6, <1>8 DEF req

(* applyBrandingToServers leaves no folder it is asked for without it.     *)
LEMMA BrandedCarry ==
    ASSUME PageShapes, NEW r \in Calls, call[r].kind = "branding", NEW h \in Hosts
    PROVE  \A t \in call[r].targets : t[1] = h =>
             LET now == Served(call[r], h)[t[2]] IN now.there => now.brand = "branding"
<1> SUFFICES ASSUME NEW t \in call[r].targets, t[1] = h
             PROVE  LET now == Branded(call[r], h)[t[2]] IN now.there => now.brand = "branding"
  BY DEF Served
<1>1. t[2] \in Indices /\ t = <<h, t[2]>> /\ disk[h][t[2]] \in FolderStates
  BY DEF PageShapes, Requests, ServersOf, Disks
<1>2. CASE disk[h][t[2]].there
  BY <1>1, <1>2 DEF Branded, Named, FolderStates
<1>3. CASE ~disk[h][t[2]].there
  BY <1>1, <1>3 DEF Branded, Named, FolderStates
<1> QED BY <1>2, <1>3

LEMMA RowsShape ==
    ASSUME PageShapes, NEW h \in Hosts
    PROVE  RowsOf(h) \subseteq PageRows
BY DEF PageShapes, Disks, FolderStates, RowsOf, Row, PageRows

(* What saveGlobalBranding sets out with.                                  *)
NewSave(chosen) ==
    [NoCall EXCEPT !.kind = "branding", !.at = "next", !.last = TRUE,
                   !.todo = {row.host : row \in chosen},
                   !.targets = {<<row.host, row.index>> : row \in chosen}]

LEMMA NewBranding ==
    ASSUME NEW chosen, chosen \subseteq PageRows
    PROVE  /\ NewSave(chosen) \in Requests
           /\ AppliedOrPending(disk, NewSave(chosen))
<1> DEFINE hosts == {row.host : row \in chosen}
           servers == {<<row.host, row.index>> : row \in chosen}
           one == [NoCall EXCEPT !.kind = "branding"]
           two == [one EXCEPT !.at = "next"]
           three == [two EXCEPT !.last = TRUE]
           four == [three EXCEPT !.todo = hosts]
           five == [four EXCEPT !.targets = servers]
<1>1. hosts \subseteq Hosts /\ servers \subseteq ServersOf /\ \A t \in servers : t[1] \in hosts
  BY DEF PageRows, ServersOf
<1>2. NewSave(chosen) = five
  BY Zenon DEF NewSave, NoCall
<1> HIDE DEF hosts, servers
<1>3. one \in Requests /\ one.kind = "branding"
  BY NewRequests DEF Requests
<1> HIDE DEF one
<1>4. two \in Requests
  BY <1>3 DEF Requests
<1> HIDE DEF two
<1>5. three \in Requests
  BY <1>4 DEF Requests
<1> HIDE DEF three
<1>6. four \in Requests /\ four.todo = hosts
  BY <1>1, <1>5 DEF Requests
<1> HIDE DEF four
<1>7. five \in Requests /\ five.todo = hosts /\ five.targets = servers
  BY <1>1, <1>6 DEF Requests
<1> HIDE DEF five
<1> QED BY <1>1, <1>2, <1>7 DEF AppliedOrPending

(* A call that was answered, or was given up.                              *)
AfterServing(req, ok) == [req EXCEPT !.at = "served", !.ok = ok]
AfterFailing(req, rest) == [req EXCEPT !.at = "served", !.todo = rest, !.ok = FALSE]

LEMMA AfterwardsRequests ==
    ASSUME NEW req \in Requests, req.kind # "idle"
    PROVE  /\ \A ok \in BOOLEAN :
                /\ AfterServing(req, ok) \in Requests
                /\ AfterServing(req, ok).kind = req.kind /\ AfterServing(req, ok).ok = ok
                /\ AfterServing(req, ok).targets = req.targets
                /\ AfterServing(req, ok).changed = req.changed
                /\ AfterServing(req, ok).todo = req.todo
           /\ \A rest \in SUBSET Hosts :
                AfterFailing(req, rest) \in Requests /\ ~AfterFailing(req, rest).ok
<1> DEFINE one == [req EXCEPT !.at = "served"]
<1>1. /\ one \in Requests /\ one.kind = req.kind /\ one.targets = req.targets
      /\ one.changed = req.changed /\ one.todo = req.todo /\ one.kind # "idle"
  BY DEF Requests
<1>2. \A ok : AfterServing(req, ok) = [one EXCEPT !.ok = ok]
  BY DEF AfterServing, Requests
<1>3. \A rest : AfterFailing(req, rest) = [[one EXCEPT !.todo = rest] EXCEPT !.ok = FALSE]
  BY DEF AfterFailing, Requests
<1> HIDE DEF one
<1>4. ASSUME NEW ok \in BOOLEAN
      PROVE  LET two == [one EXCEPT !.ok = ok]
             IN  /\ two \in Requests /\ two.kind = req.kind /\ two.ok = ok
                 /\ two.targets = req.targets /\ two.changed = req.changed
                 /\ two.todo = req.todo
  BY <1>1 DEF Requests
<1>5. ASSUME NEW rest \in SUBSET Hosts
      PROVE  /\ [[one EXCEPT !.todo = rest] EXCEPT !.ok = FALSE] \in Requests
             /\ ~[[one EXCEPT !.todo = rest] EXCEPT !.ok = FALSE].ok
  <2> DEFINE two == [one EXCEPT !.todo = rest]
  <2>1. two \in Requests /\ two.kind # "idle"
    BY <1>1 DEF Requests
  <2> HIDE DEF two
  <2>2. [two EXCEPT !.ok = FALSE] \in Requests /\ ~[two EXCEPT !.ok = FALSE].ok
    BY <2>1 DEF Requests
  <2> QED BY <2>2 DEF two
<1> QED BY <1>2, <1>3, <1>4, <1>5

LEMMA FailedCall ==
    ASSUME PageShapes, NEW r \in Calls, CallFails(r)
    PROVE  /\ UNCHANGED <<disk, rows, load>> /\ call[r].kind # "idle"
           /\ \E rest \in SUBSET Hosts : call' = [call EXCEPT ![r] = AfterFailing(call[r], rest)]
<1>1. call[r].todo \in SUBSET Hosts
  BY DEF PageShapes, Requests
<1>2. \E rest \in {call[r].todo, {}} : call' = [call EXCEPT ![r] = AfterFailing(call[r], rest)]
  BY DEF CallFails, Outcome, AfterFailing, PageShapes
<1> QED BY <1>1, <1>2 DEF CallFails, PageShapes, Requests

LEMMA PageShapesStep == PageShapes /\ PageNext => PageShapes'
<1> SUFFICES ASSUME PageShapes, PageNext
             PROVE  PageShapes'
  OBVIOUS
<1> USE DEF PageShapes
<1>1. CASE Reload
  BY <1>1, OutnumberedCalls, StartsLoadShape DEF Reload
<1>2. ASSUME NEW req \in Requests, Asks(req)
      PROVE  PageShapes'
  BY <1>2 DEF Asks, FirstIdle
<1>3. ASSUME NEW req \in Requests, NEW t \in Titles
      PROVE  [req EXCEPT !.title = t] \in Requests
  BY DEF Requests, Names
<1>4. ASSUME NEW h \in Hosts, NEW t \in Titles, AskProvision(h, t)
      PROVE  PageShapes'
  BY <1>2, <1>3, <1>4, NewRequests DEF AskProvision
<1>5. ASSUME NEW row \in rows, AskRemove(row) \/ AskStyle(row)
      PROVE  PageShapes'
  BY <1>2, <1>5, NewRequests DEF AskRemove, AskStyle
<1>6. ASSUME NEW row \in rows, NEW t \in Titles, AskLobby(row, t)
      PROVE  PageShapes'
  BY <1>2, <1>3, <1>6, NewRequests DEF AskLobby
<1>7. ASSUME NEW chosen \in SUBSET rows, AskBranding(chosen)
      PROVE  PageShapes'
  <2>1. \E r \in FirstIdle(call) : call' = [call EXCEPT ![r] = NewSave(chosen)]
    BY <1>7, Zenon DEF AskBranding, NewSave
  <2>2. NewSave(chosen) \in Requests
    BY NewBranding
  <2>3. call' \in [Calls -> Requests]
    BY <2>1, <2>2 DEF FirstIdle
  <2> QED BY <1>7, <2>3, OutnumberedCalls DEF AskBranding
<1>8. ASSUME NEW l \in Loads, LoadShown(l) \/ LoadFails(l)
      PROVE  PageShapes'
  <2>1. NoLoad \in PageLoads
    BY DEF NoLoad, PageLoads
  <2>2. load[l].rows \subseteq PageRows
    BY DEF PageLoads
  <2> QED BY <1>8, <2>1, <2>2 DEF LoadShown, Show, LoadFails
<1>9. ASSUME NEW l \in Loads, NEW h \in Hosts, ReadHost(l, h)
      PROVE  PageShapes'
  BY <1>9, RowsShape DEF ReadHost, PageLoads
<1>10. ASSUME NEW r \in Calls, SendNext(r)
       PROVE  PageShapes'
  BY <1>10 DEF SendNext, Requests
<1>11. ASSUME NEW r \in Calls, EdgeStopsServer(r)
       PROVE  PageShapes'
  BY <1>11 DEF EdgeStopsServer, Requests
<1>12. ASSUME NEW r \in Calls, EdgeServes(r)
       PROVE  PageShapes'
  <2> DEFINE h == call[r].host
             refused == Refused(call[r], h)
             written == {<<h, i>> : i \in {j \in Indices : disk'[h][j] # disk[h][j]}}
  <2>1. /\ call[r].kind # "idle"
        /\ disk' = IF refused THEN disk ELSE [disk EXCEPT ![h] = Served(call[r], h)]
        /\ call' = [q \in Calls |->
             IF q = r
             THEN AfterServing(call[r], Outcome(call[r], ~refused))
             ELSE IF call[q].kind = "branding"
             THEN [call[q] EXCEPT !.changed = @ \cup written]
             ELSE call[q]]
        /\ UNCHANGED <<rows, load>>
    BY <1>12 DEF EdgeServes, AfterServing, Requests
  <2> HIDE DEF refused
  <2>2. disk' \in Disks
    <3>1. CASE h \in Hosts
      BY <2>1, <3>1, ServedShape DEF Disks
    <3>2. CASE h \notin Hosts
      BY <2>1, <3>2 DEF Disks
    <3> QED BY <3>1, <3>2
  <2>3. written \subseteq ServersOf
    <3>1. CASE h \in Hosts
      BY <3>1 DEF ServersOf
    <3>2. CASE h \notin Hosts
      BY <2>1, <3>2 DEF Disks
    <3> QED BY <3>1, <3>2
  <2> HIDE DEF written, h
  <2>4. ASSUME NEW q \in Calls
        PROVE  [call[q] EXCEPT !.changed = @ \cup written] \in Requests
    BY <2>3 DEF Requests
  <2>5. ASSUME NEW ok \in BOOLEAN
        PROVE  AfterServing(call[r], ok) \in Requests
    BY <2>1, AfterwardsRequests
  <2>6. Outcome(call[r], ~refused) \in BOOLEAN
    BY DEF Outcome
  <2> QED BY <2>1, <2>2, <2>4, <2>5, <2>6
<1>13. ASSUME NEW r \in Calls, CallFails(r)
       PROVE  PageShapes'
  BY <1>13, FailedCall, AfterwardsRequests
<1>14. ASSUME NEW r \in Calls, Answered(r)
       PROVE  PageShapes'
  <2>1. CASE call[r].todo # {}
    BY <1>14, <2>1 DEF Answered, Requests
  <2>2. CASE call[r].todo = {}
    BY <1>14, <2>2, OutnumberedCalls, NewRequests, StartsLoadShape DEF Answered
  <2> QED BY <2>1, <2>2
<1> QED
  BY <1>1, <1>4, <1>5, <1>6, <1>7, <1>8, <1>9, <1>10, <1>11, <1>12, <1>13, <1>14 DEF PageNext

(* What a request of another kind, or one under way, does to the others.    *)
LEMMA AskedApplied ==
    ASSUME PageInv, NEW req, Asks(req), req.kind # "branding"
    PROVE  \A r \in Calls : AppliedOrPending(disk', call'[r])
BY DEF PageInv, PageShapes, Asks, FirstIdle, AppliedOrPending

(* Answers change the servers named, and a save is told of what others did. *)
LEMMA ServedApplied ==
    ASSUME PageInv, NEW r \in Calls, EdgeServes(r)
    PROVE  \A q \in Calls : AppliedOrPending(disk', call'[q])
<1> DEFINE h == call[r].host
           refused == Refused(call[r], h)
           written == {<<h, i>> : i \in {j \in Indices : disk'[h][j] # disk[h][j]}}
<1>1. /\ call[r].kind # "idle" /\ call[r] \in Requests /\ refused \in BOOLEAN
      /\ disk' = IF refused THEN disk ELSE [disk EXCEPT ![h] = Served(call[r], h)]
      /\ call'[r] = AfterServing(call[r], Outcome(call[r], ~refused))
      /\ \A q \in Calls \ {r} :
           call'[q] = IF call[q].kind = "branding" THEN [call[q] EXCEPT !.changed = @ \cup written]
                      ELSE call[q]
  BY DEF EdgeServes, AfterServing, Requests, PageInv, PageShapes, Refused
<1>2. ASSUME NEW q \in Calls \ {r}, call'[q].kind = "branding", call'[q].ok,
             NEW t \in call'[q].targets \ call'[q].changed
      PROVE  \/ t[1] \in call'[q].todo
             \/ call'[q].at = "sent" /\ call'[q].host = t[1]
             \/ Carries(disk', t)
  <2> DEFINE req == call[q]
  <2>1. req \in Requests
    BY DEF PageInv, PageShapes
  <2>2. AppliedOrPending(disk, req)
    BY DEF PageInv
  <2> HIDE DEF req, written
  <2>3. req.kind = "branding" /\ call'[q] = [req EXCEPT !.changed = @ \cup written]
    BY <1>1, <1>2, <2>1 DEF req
  <2>4. /\ req.ok /\ t \in req.targets \ req.changed /\ t \notin written
        /\ call'[q].todo = req.todo /\ call'[q].at = req.at /\ call'[q].host = req.host
    BY <1>2, <2>1, <2>3 DEF Requests
  <2>5. \/ t[1] \in req.todo
        \/ req.at = "sent" /\ req.host = t[1]
        \/ Carries(disk, t)
    BY <2>2, <2>3, <2>4 DEF AppliedOrPending
  <2>6. t[2] \in Indices /\ t[1] \in Hosts /\ t = <<t[1], t[2]>>
    BY <2>1, <2>4 DEF Requests, ServersOf
  <2>7. disk'[t[1]][t[2]] = disk[t[1]][t[2]]
    <3>1. CASE t[1] = h
      BY <2>4, <2>6, <3>1 DEF written
    <3>2. CASE t[1] # h
      BY <1>1, <2>6, <3>2 DEF PageInv, PageShapes, Disks
    <3> QED BY <3>1, <3>2
  <2> QED BY <2>4, <2>5, <2>7 DEF Carries
<1>3. ASSUME call'[r].kind = "branding", call'[r].ok,
             NEW t \in call'[r].targets \ call'[r].changed
      PROVE  \/ t[1] \in call'[r].todo
             \/ call'[r].at = "sent" /\ call'[r].host = t[1]
             \/ Carries(disk', t)
  <2> DEFINE req == call[r]
  <2>1. AppliedOrPending(disk, req) /\ Outcome(req, ~refused) \in BOOLEAN
    BY DEF PageInv, Outcome
  <2>2. /\ req.kind = "branding" /\ Outcome(req, ~refused) /\ t \in req.targets \ req.changed
        /\ call'[r].todo = req.todo
    BY <1>1, <1>3, <2>1, AfterwardsRequests
  <2>3. req.ok /\ ~refused
    BY <2>2 DEF Outcome
  <2>4. t[1] \in Hosts /\ t[2] \in Indices
    BY <1>1, <2>2 DEF Requests, ServersOf
  <2>5. CASE t[1] = h
    <3>1. disk'[h] = Served(call[r], h)
      BY <1>1, <2>3, <2>4, <2>5 DEF PageInv, PageShapes, Disks
    <3>2. LET now == Served(call[r], h)[t[2]] IN now.there => now.brand = "branding"
      BY <2>2, <2>4, <2>5, BrandedCarry DEF PageInv
    <3> QED BY <3>1, <3>2, <2>5 DEF Carries
  <2>6. CASE t[1] # h
    <3>1. disk'[t[1]] = disk[t[1]]
      BY <1>1, <2>4, <2>6 DEF PageInv, PageShapes, Disks
    <3>2. t[1] \in req.todo \/ Carries(disk, t)
      BY <2>1, <2>2, <2>3, <2>6 DEF AppliedOrPending
    <3> QED BY <2>2, <3>1, <3>2 DEF Carries
  <2> QED BY <2>5, <2>6
<1> HIDE DEF h, refused, written
<1> QED BY <1>2, <1>3 DEF AppliedOrPending

LEMMA AppliedStep == PageInv /\ PageNext => \A r \in Calls : AppliedOrPending(disk', call'[r])
<1> SUFFICES ASSUME PageInv, PageNext
             PROVE  \A r \in Calls : AppliedOrPending(disk', call'[r])
  OBVIOUS
<1> USE DEF PageInv, PageShapes
<1>0. ASSUME UNCHANGED <<disk, call>>
      PROVE  \A r \in Calls : AppliedOrPending(disk', call'[r])
  BY <1>0
<1>1. CASE Reload
  BY <1>1, OutnumberedCalls DEF Reload
<1>2. ASSUME NEW req \in Requests, NEW t
      PROVE  [req EXCEPT !.title = t].kind = req.kind
  BY DEF Requests
<1>4. ASSUME NEW h \in Hosts, NEW t \in Titles, AskProvision(h, t)
      PROVE  \A r \in Calls : AppliedOrPending(disk', call'[r])
  BY <1>2, <1>4, NewRequests, AskedApplied DEF AskProvision
<1>5. ASSUME NEW row \in rows, AskRemove(row) \/ AskStyle(row)
      PROVE  \A r \in Calls : AppliedOrPending(disk', call'[r])
  BY <1>5, NewRequests, AskedApplied DEF AskRemove, AskStyle
<1>6. ASSUME NEW row \in rows, NEW t \in Titles, AskLobby(row, t)
      PROVE  \A r \in Calls : AppliedOrPending(disk', call'[r])
  <2>1. OnRow("lobby", row) \in Requests /\ OnRow("lobby", row).kind = "lobby"
    BY NewRequests
  <2>2. Asks([OnRow("lobby", row) EXCEPT !.title = t])
    BY <1>6 DEF AskLobby
  <2> QED BY <1>2, <2>1, <2>2, AskedApplied
<1>7. ASSUME NEW chosen \in SUBSET rows, AskBranding(chosen)
      PROVE  \A r \in Calls : AppliedOrPending(disk', call'[r])
  <2>1. PICK r \in FirstIdle(call) : call' = [call EXCEPT ![r] = NewSave(chosen)]
    BY <1>7, Zenon DEF AskBranding, NewSave
  <2>2. AppliedOrPending(disk, NewSave(chosen)) /\ disk' = disk
    BY <1>7, NewBranding DEF AskBranding
  <2> QED BY <2>1, <2>2 DEF FirstIdle
<1>8. ASSUME NEW l \in Loads, LoadShown(l) \/ LoadFails(l)
      PROVE  \A r \in Calls : AppliedOrPending(disk', call'[r])
  BY <1>0, <1>8 DEF LoadShown, LoadFails
<1>9. ASSUME NEW l \in Loads, NEW h \in Hosts, ReadHost(l, h)
      PROVE  \A r \in Calls : AppliedOrPending(disk', call'[r])
  BY <1>0, <1>9 DEF ReadHost
<1>10. ASSUME NEW r \in Calls, SendNext(r)
       PROVE  \A q \in Calls : AppliedOrPending(disk', call'[q])
  BY <1>10 DEF SendNext, Requests, AppliedOrPending
<1>11. ASSUME NEW r \in Calls, EdgeStopsServer(r)
       PROVE  \A q \in Calls : AppliedOrPending(disk', call'[q])
  BY <1>11 DEF EdgeStopsServer, Requests, AppliedOrPending
<1>12. ASSUME NEW r \in Calls, EdgeServes(r)
       PROVE  \A q \in Calls : AppliedOrPending(disk', call'[q])
  BY <1>12, ServedApplied
<1>13. ASSUME NEW r \in Calls, CallFails(r)
       PROVE  \A q \in Calls : AppliedOrPending(disk', call'[q])
  <2>1. PICK rest \in SUBSET Hosts : call' = [call EXCEPT ![r] = AfterFailing(call[r], rest)]
    BY <1>13, FailedCall
  <2>2. ~AfterFailing(call[r], rest).ok /\ disk' = disk
    BY <1>13, FailedCall, AfterwardsRequests
  <2>3. AppliedOrPending(disk', call'[r])
    BY <2>1, <2>2 DEF AppliedOrPending
  <2> QED BY <2>1, <2>2, <2>3
<1>14. ASSUME NEW r \in Calls, Answered(r)
       PROVE  \A q \in Calls : AppliedOrPending(disk', call'[q])
  <2>1. AppliedOrPending(disk, NoCall)
    BY DEF AppliedOrPending, NoCall
  <2>2. CASE call[r].todo # {}
    BY <1>14, <2>2 DEF Answered, Requests, AppliedOrPending
  <2>3. CASE call[r].todo = {}
    BY <1>14, <2>1, <2>3, OutnumberedCalls DEF Answered
  <2> QED BY <2>2, <2>3
<1> QED
  BY <1>1, <1>4, <1>5, <1>6, <1>7, <1>8, <1>9, <1>10, <1>11, <1>12, <1>13, <1>14 DEF PageNext

LEMMA PageInvInit == Init => PageInv
<1> SUFFICES ASSUME Init
             PROVE  PageInv
  OBVIOUS
<1>1. NoCall \in Requests /\ AppliedOrPending(disk, NoCall)
  BY NewRequests DEF AppliedOrPending, NoCall
<1>2. NoLoad \in PageLoads /\ NewLoad \in PageLoads
  BY DEF NoLoad, NewLoad, PageLoads
<1>3. Absent \in FolderStates /\ Instance(FirstTitle, "plain") \in FolderStates
  BY DEF Absent, Instance, FolderStates, Names
<1>4. CASE PageInit
  BY <1>1, <1>2, <1>3, <1>4 DEF PageInit, PageInv, PageShapes, Disks
<1>5. CASE PageRests
  BY <1>1, <1>2, <1>3, <1>5 DEF PageRests, PageInv, PageShapes, Disks
<1> QED BY <1>4, <1>5 DEF Init

LEMMA OthersLeavePage == [Next]_vars => OfPage(PageNext) \/ UNCHANGED pageVars
BY DEF Next, OfPresence, OfInventory, OfRouting, OfOverlay, OfActivity, OfPool, vars

(* When the branding form reports success, each server it was applied to   *)
(* carries the branding (applyBrandingToTargets, saveGlobalBranding),      *)
(* unless another request has written the server since or it has gone.     *)
THEOREM SuccessIsEverywhere == Spec => []AppliedEverywhere
<1>1. Init => PageInv
  BY PageInvInit
<1>2. PageInv /\ [Next]_vars => PageInv'
  <2> SUFFICES ASSUME PageInv, [Next]_vars
               PROVE  PageInv'
    OBVIOUS
  <2>1. CASE OfPage(PageNext)
    BY <2>1, PageShapesStep, AppliedStep DEF OfPage, PageInv
  <2>2. CASE UNCHANGED pageVars
    BY <2>2 DEF PageInv, PageShapes, pageVars
  <2> QED BY <2>1, <2>2, OthersLeavePage
<1>3. PageInv => AppliedEverywhere
  BY DEF PageInv, PageShapes, Requests, AppliedOrPending, AppliedEverywhere, Succeeds, Carries
<1> QED BY <1>1, <1>2, <1>3, PTL DEF Spec

-----------------------------------------------------------------------------
(* The activity page *)

LEMMA OldestIsLeast ==
    ASSUME NEW ids, ids \subseteq Nat, ids # {}
    PROVE  Oldest(ids) \in ids /\ \A j \in ids : Oldest(ids) <= j
<1> DEFINE less == {p \in Nat \X Nat : p[1] < p[2]}
<1>1. \E i \in ids : \A j \in ids : <<j, i>> \notin less
  <2>1. IsWellFoundedOn(less, Nat)
    BY NatLessThanWellFounded, Zenon DEF OpToRel
  <2> HIDE DEF less
  <2> QED BY <2>1, WFMin
<1>2. PICK i \in ids : \A j \in ids : ~(j < i)
  BY <1>1
<1>3. \A j \in ids : i <= j
  BY <1>2
<1> QED BY <1>3, Zenon DEF Oldest

LEMMA GreatestThere ==
    ASSUME NEW ids, NEW n \in Nat, ids \subseteq 1 .. n, ids # {}
    PROVE  \E i \in ids : \A j \in ids : j <= i
<1> DEFINE depths == {n - i : i \in ids}
<1>0. \A i \in ids : i \in 1 .. n /\ n - i \in Nat
  OBVIOUS
<1>1. depths \subseteq Nat /\ depths # {}
  <2>1. \A d \in depths : d \in Nat
    BY <1>0, Zenon
  <2>2. \E d : d \in depths
    BY Zenon
  <2> HIDE DEF depths
  <2> QED BY <2>1, <2>2, Zenon
<1>2. PICK i \in ids : n - i = Oldest(depths)
  BY <1>1, OldestIsLeast
<1>3. \A j \in ids : n - i <= n - j
  BY <1>1, <1>2, OldestIsLeast
<1> QED BY <1>3

(* What is newer than one of the newest is one of them.                    *)
LEMMA NewestIsTop ==
    ASSUME NEW ids, NEW n \in Nat, IsFiniteSet(ids), ids \subseteq Nat,
           NEW i \in Newest(n, ids), NEW j \in ids, i <= j
    PROVE  j \in Newest(n, ids)
<1> DEFINE above(k) == {l \in ids : l > k}
<1>0. i \in ids /\ i \in Nat /\ j \in Nat
  BY DEF Newest
<1>1. IsFiniteSet(above(i)) /\ IsFiniteSet(above(j)) /\ above(j) \in SUBSET above(i)
  <2>0. \A l \in ids : l \in Nat /\ (l > j => l > i)
    BY <1>0
  <2>1. above(i) \in SUBSET ids /\ above(j) \in SUBSET ids /\ above(j) \in SUBSET above(i)
    BY <2>0
  <2> HIDE DEF above
  <2> QED BY <2>1, FS_Subset
<1>2. Cardinality(above(j)) <= Cardinality(above(i))
  BY <1>1, FS_Subset
<1>3. Cardinality(above(i)) \in Nat /\ Cardinality(above(j)) \in Nat
  BY <1>1, FS_CardinalityType
<1>4. Cardinality(above(i)) < n
  BY DEF Newest
<1>5. Cardinality(above(j)) < n
  <2> HIDE DEF above
  <2> QED BY <1>2, <1>3, <1>4
<1> QED BY <1>5 DEF Newest

(* A page that is not full has everything there is.                        *)
LEMMA NewestIsAll ==
    ASSUME NEW ids, NEW n \in Nat \ {0}, NEW max \in Nat, ids \subseteq 1 .. max,
           Cardinality(Newest(n, ids)) # n
    PROVE  Newest(n, ids) = ids
<1> DEFINE above(k) == {l \in ids : l > k}
<1>0. PICK top : top = Newest(n, ids)
  OBVIOUS
<1>1. /\ IsFiniteSet(ids) /\ IsFiniteSet(top) /\ \A k \in ids : IsFiniteSet(above(k))
      /\ ids \subseteq Nat /\ top \subseteq ids
  <2>1. IsFiniteSet(1 .. max) /\ ids \in SUBSET (1 .. max)
    BY FS_Interval
  <2>2. IsFiniteSet(ids)
    BY <2>1, FS_Subset
  <2>3. top \in SUBSET ids /\ (\A k \in ids : above(k) \in SUBSET ids) /\ ids \subseteq Nat
    BY <1>0 DEF Newest
  <2> HIDE DEF above
  <2>4. IsFiniteSet(top)
    BY <2>2, <2>3, FS_Subset
  <2>5. ASSUME NEW k \in ids
        PROVE  IsFiniteSet(above(k))
    BY <2>2, <2>3, FS_Subset
  <2> QED BY <2>2, <2>3, <2>4, <2>5
<1>2. \A j \in top, k \in ids : j <= k => k \in top
  BY <1>0, <1>1, NewestIsTop
<1>3. \A k \in ids : k \in top <=> Cardinality(above(k)) < n
  BY <1>0 DEF Newest
<1>4. \A k \in ids : Cardinality(above(k)) \in Nat
  BY <1>1, FS_CardinalityType
<1> SUFFICES ASSUME ids \ top # {}
             PROVE  FALSE
  BY <1>0, <1>1
<1>5. PICK i \in ids \ top : \A j \in ids \ top : j <= i
  BY <1>1, GreatestThere
<1>6. top = above(i)
  <2>1. \A j \in top : j > i
    BY <1>1, <1>2, <1>5
  <2>2. \A j \in above(i) : j \in top
    BY <1>1, <1>5
  <2> QED BY <1>1, <2>1, <2>2
<1>7. ~(Cardinality(top) < n) /\ Cardinality(top) \in Nat
  <2> HIDE DEF above
  <2> QED BY <1>3, <1>4, <1>5, <1>6
<1>8. top # {}
  BY <1>7, FS_EmptySet
<1>9. PICK m \in top : \A j \in top : m <= j
  BY <1>1, <1>8, OldestIsLeast
<1>10. top = above(m) \cup {m} /\ m \notin above(m)
  <2>1. \A j \in top : j = m \/ j > m
    BY <1>1, <1>9
  <2>2. \A j \in above(m) : j \in top
    BY <1>1, <1>2, <1>9
  <2>3. m \in Nat /\ m \notin above(m)
    BY <1>1, <1>9
  <2>4. \A j \in top : j \in above(m) \cup {m}
    BY <1>1, <2>1
  <2> HIDE DEF above
  <2> QED BY <1>9, <2>2, <2>3, <2>4
<1> HIDE DEF above
<1>11. Cardinality(top) = Cardinality(above(m)) + 1
  BY <1>1, <1>9, <1>10, FS_AddElement
<1>12. Cardinality(above(m)) < n /\ Cardinality(above(m)) \in Nat
  BY <1>1, <1>3, <1>4, <1>9
<1> QED BY <1>0, <1>7, <1>11, <1>12

Feeds == [category : Categories, day : Days, cursor : Nat, items : SUBSET Nat,
          more : BOOLEAN, context : BOOLEAN, complete : BOOLEAN]
Panels == [category : Categories, day : Days, items : SUBSET Nat, next : Nat, more : BOOLEAN]
Asked == [at : {"asked"}, asked : {"newest", "more"}, top : BOOLEAN, category : Categories,
          day : Days, cursor : Nat]
Responses == [at : {"answered"}, asked : {"newest", "more"}, top : BOOLEAN, feed : Feeds]

ActivityShapes ==
    /\ stream \in Seq(Entries) /\ kept \in Seq(Feeds) /\ panel \in Panels
    /\ asking \in {NotAsked} \cup Asked \cup Responses
    /\ whole \in BOOLEAN

(* Matches, of any stream.                                                 *)
Fits(s, i, category, day) == s[i].day = day /\ s[i].event \in Shows(category)

(* An answer's items are entries below its cursor, and none is left out     *)
(* between two of them, nor below the last unless there is more.            *)
Sound(s, f) ==
    /\ f.items \subseteq DOMAIN s /\ f.cursor \in {0} \cup DOMAIN s
    /\ \A i \in f.items : Fits(s, i, f.category, f.day) /\ (f.cursor = 0 \/ i < f.cursor)
    /\ f.more => f.items # {}
    /\ f.more \/ f.complete =>
         \A i \in DOMAIN s :
           /\ Fits(s, i, f.category, f.day)
           /\ (f.cursor # 0 /\ i < f.cursor) \/ \E j \in f.items : i < j
           /\ f.more => \E j \in f.items : j <= i
           => i \in f.items

(* Of the newest entries it has one as new as any the panel knows.          *)
Covers(f, p) ==
    /\ f.cursor = 0 /\ f.category = p.category /\ f.day = p.day
    /\ f.more \/ f.complete
    => \A j \in p.items \cup ({p.next} \ {0}) : \E i \in f.items : j <= i

(* The panel has no gap above the place where it goes on.                   *)
NoGaps(s, p) ==
    /\ \A i \in p.items \cup ({p.next} \ {0}) : Fits(s, i, p.category, p.day)
    /\ \A i \in DOMAIN s :
         /\ Fits(s, i, p.category, p.day) /\ p.next <= i
         /\ \E j \in p.items : i < j
         => i \in p.items

SameKey(f, g) == f.category = g.category /\ f.day = g.day /\ f.cursor = g.cursor

KeptInv ==
    /\ \A k \in DOMAIN kept :
         /\ Sound(stream, kept[k])
         /\ \A l \in DOMAIN kept : SameKey(kept[k], kept[l]) => kept[k] = kept[l]
         /\ whole => Covers(kept[k], panel)

PanelInv ==
    /\ panel.items \subseteq DOMAIN stream /\ panel.next \in {0} \cup DOMAIN stream
    /\ ~panel.more => panel.next = 0
    /\ whole => NoGaps(stream, panel)

(* While an older page is asked for, the panel stays where it was.          *)
GoesOnFrom(cursor, category, day, p) ==
    cursor # 0 /\ cursor = p.next /\ category = p.category /\ day = p.day

AskedInv ==
    asking.at = "asked" =>
      /\ asking.cursor \in {0} \cup DOMAIN stream
      /\ asking.asked = "newest" => asking.cursor = 0
      /\ asking.asked = "more" /\ whole =>
           GoesOnFrom(asking.cursor, asking.category, asking.day, panel)

AnswerInv ==
    asking.at = "answered" =>
      /\ Sound(stream, asking.feed)
      /\ \A k \in DOMAIN kept : SameKey(kept[k], asking.feed) => kept[k] = asking.feed
      /\ whole => Covers(asking.feed, panel)
      /\ asking.asked = "newest" => asking.feed.cursor = 0
      /\ asking.asked = "more" /\ whole =>
           GoesOnFrom(asking.feed.cursor, asking.feed.category, asking.feed.day, panel)

ActivityInv == ActivityShapes /\ KeptInv /\ PanelInv /\ AskedInv /\ AnswerInv

(* What getActivityFeed puts together from the stream.                      *)
LEMMA FeedIsSound ==
    ASSUME ActivityShapes, NEW category \in Categories, NEW day \in Days,
           NEW cursor \in {0} \cup DOMAIN stream
    PROVE  /\ Feed(category, day, cursor) \in Feeds
           /\ Sound(stream, Feed(category, day, cursor))
           /\ whole /\ PanelInv => Covers(Feed(category, day, cursor), panel)
           /\ Feed(category, day, cursor).category = category
           /\ Feed(category, day, cursor).day = day
           /\ Feed(category, day, cursor).cursor = cursor
<1> DEFINE feed == Feed(category, day, cursor)
           below == Below(cursor)
<1>0. PICK most \in Nat : most = IF Contexts(day) = {} THEN RawScanMax ELSE FetchBatch
  BY ActivityFeedAssumption
<1>1. PICK reach : reach = Newest(most, below)
  OBVIOUS
<1>2. PICK scanned : scanned = {i \in OfDay(day, reach) : Matches(i, category, day)}
  OBVIOUS
<1>3. PICK items : items = Newest(LimitPerPage, scanned)
  OBVIOUS
<1>4. /\ feed.items = items /\ feed.category = category /\ feed.day = day /\ feed.cursor = cursor
      /\ feed.more = (Cardinality(items) = LimitPerPage)
      /\ feed.complete = (OfDay(day, below) \subseteq OfDay(day, reach))
  BY <1>0, <1>1, <1>2, <1>3 DEF Feed, Scanned
<1>5. DOMAIN stream = 1 .. Len(stream) /\ Len(stream) \in Nat
  BY DEF ActivityShapes
<1>6. /\ below \subseteq DOMAIN stream /\ reach \subseteq below
      /\ scanned = {i \in reach : Fits(stream, i, category, day)}
      /\ scanned \subseteq reach /\ items \subseteq scanned
  BY <1>1, <1>2, <1>3 DEF Below, Newest, OfDay, Matches, Fits
<1>7. /\ IsFiniteSet(below) /\ IsFiniteSet(scanned)
      /\ below \subseteq Nat /\ scanned \subseteq Nat /\ scanned \subseteq 1 .. Len(stream)
  <2>1. IsFiniteSet(1 .. Len(stream))
    BY <1>5, FS_Interval
  <2>2. below \in SUBSET (1 .. Len(stream)) /\ scanned \in SUBSET (1 .. Len(stream))
    BY <1>5, <1>6
  <2>3. IsFiniteSet(below) /\ IsFiniteSet(scanned)
    BY <2>1, <2>2, FS_Subset
  <2> HIDE DEF below
  <2> QED BY <1>5, <2>2, <2>3
<1>8. \A i \in reach, j \in below : i <= j => j \in reach
  <2> HIDE DEF below
  <2> QED BY <1>1, <1>7, NewestIsTop
<1>9. \A i \in items, j \in scanned : i <= j => j \in items
  BY <1>3, <1>7, ActivityFeedAssumption, NewestIsTop
<1>10. Cardinality(items) # LimitPerPage => items = scanned
  BY <1>3, <1>5, <1>7, ActivityFeedAssumption, NewestIsAll
<1>11. Cardinality(items) = LimitPerPage => items # {}
  BY ActivityFeedAssumption, FS_EmptySet
<1> DEFINE more == Cardinality(items) = LimitPerPage
           complete == OfDay(day, below) \subseteq OfDay(day, reach)
<1>12. /\ more => items # {}
       /\ ~more => items = scanned
       /\ complete => \A i \in below : Fits(stream, i, category, day) => i \in reach
       /\ \A i \in items, j \in below : i <= j => j \in reach
       /\ \A i \in items : i \in below /\ i \in Nat
  <2>1. complete => \A i \in below : Fits(stream, i, category, day) => i \in reach
    BY DEF OfDay, Fits
  <2> HIDE DEF below
  <2> QED BY <1>6, <1>7, <1>8, <1>10, <1>11, <2>1
<1>13. feed.more = more /\ feed.complete = complete
  BY <1>4
<1>14. \A i \in below : i \in DOMAIN stream /\ (cursor = 0 \/ i < cursor)
  BY DEF Below
<1>15. \A i \in DOMAIN stream : cursor = 0 \/ i < cursor => i \in below
  BY DEF Below
<1>16. feed \in Feeds
  <2>1. items \in SUBSET Nat /\ cursor \in Nat
    BY <1>5, <1>6, <1>7
  <2>2. PICK full \in BOOLEAN : full = (Cardinality(items) = LimitPerPage)
    OBVIOUS
  <2>3. PICK first \in BOOLEAN : first = (Contexts(day) = {})
    OBVIOUS
  <2>4. PICK last \in BOOLEAN : last = (OfDay(day, below) \subseteq OfDay(day, reach))
    OBVIOUS
  <2>5. feed = [category |-> category, day |-> day, cursor |-> cursor, items |-> items,
                more |-> full, context |-> first, complete |-> last]
    BY <1>0, <1>1, <1>2, <1>3, <2>2, <2>3, <2>4 DEF Feed, Scanned
  <2> QED BY <2>1, <2>5 DEF Feeds
<1> HIDE DEF more, complete, below
<1>17. ASSUME more \/ complete, NEW i \in DOMAIN stream, Fits(stream, i, category, day),
              cursor = 0 \/ i < cursor, more => \E j \in items : j <= i
       PROVE  i \in items
  <2>1. i \in below
    BY <1>15, <1>17
  <2>2. i \in reach
    BY <1>12, <1>17, <2>1
  <2>3. i \in scanned
    BY <1>6, <1>17, <2>2
  <2> QED BY <1>9, <1>12, <1>17, <2>3
<1>18. Sound(stream, feed)
  <2>1. items \subseteq DOMAIN stream /\ \A i \in items : Fits(stream, i, category, day)
    BY <1>6, <1>14
  <2>2. ASSUME NEW i \in DOMAIN stream, NEW j \in items, i < j
        PROVE  cursor = 0 \/ i < cursor
    BY <1>5, <1>6, <1>12, <1>14, <2>2
  <2> HIDE DEF feed
  <2> QED BY <1>4, <1>12, <1>13, <1>14, <1>17, <2>1, <2>2 DEF Sound
<1>19. ASSUME whole, PanelInv
       PROVE  Covers(feed, panel)
  <2> SUFFICES ASSUME cursor = 0, category = panel.category, day = panel.day, more \/ complete,
                      NEW j \in panel.items \cup ({panel.next} \ {0})
               PROVE  \E i \in items : j <= i
    <3> HIDE DEF feed
    <3> QED BY <1>4, <1>13 DEF Covers
  <2>1. j \in DOMAIN stream /\ Fits(stream, j, category, day) /\ j \in Nat
    BY <1>5, <1>19 DEF PanelInv, NoGaps
  <2>2. CASE \E i \in items : i <= j
    BY <1>17, <2>1, <2>2
  <2>3. CASE items = {}
    BY <1>12, <1>17, <2>1, <2>3
  <2>4. CASE items # {} /\ \A i \in items : ~(i <= j)
    BY <1>12, <2>1, <2>4
  <2> QED BY <2>2, <2>3, <2>4
<1> QED BY <1>4, <1>16, <1>18, <1>19

(* New entries are newer than all an answer or the panel has.              *)
LEMMA OlderFits ==
    ASSUME NEW s \in Seq(Entries), NEW entry \in Entries
    PROVE  /\ DOMAIN s \subseteq DOMAIN Append(s, entry)
           /\ \A i \in DOMAIN s : \A category, day :
                Fits(Append(s, entry), i, category, day) <=> Fits(s, i, category, day)
           /\ \A i \in DOMAIN Append(s, entry) : i \in DOMAIN s \/ \A j \in DOMAIN s : j < i
BY DEF Fits

LEMMA StillSound ==
    ASSUME NEW s \in Seq(Entries), NEW entry \in Entries, NEW f, Sound(s, f)
    PROVE  Sound(Append(s, entry), f)
<1> DEFINE t == Append(s, entry)
<1>1. /\ DOMAIN s \subseteq DOMAIN t /\ DOMAIN s \subseteq Nat /\ DOMAIN t \subseteq Nat
      /\ \A i \in DOMAIN s : Fits(t, i, f.category, f.day) <=> Fits(s, i, f.category, f.day)
      /\ \A i \in DOMAIN t : i \in DOMAIN s \/ \A j \in DOMAIN s : j < i
  BY OlderFits
<1>2. f.cursor = 0 \/ f.cursor \in DOMAIN s
  BY DEF Sound
<1> HIDE DEF t
<1>3. ASSUME NEW i \in DOMAIN t, (f.cursor # 0 /\ i < f.cursor) \/ \E j \in f.items : i < j
      PROVE  i \in DOMAIN s
  <2>1. \E j \in DOMAIN s : i < j
    BY <1>2, <1>3 DEF Sound
  <2> QED BY <1>1, <2>1
<1>4. Sound(t, f)
  BY <1>1, <1>3 DEF Sound
<1> QED BY <1>4 DEF t

LEMMA StillNoGaps ==
    ASSUME NEW s \in Seq(Entries), NEW entry \in Entries, NEW p, NoGaps(s, p),
           p.items \subseteq DOMAIN s, p.next \in {0} \cup DOMAIN s
    PROVE  NoGaps(Append(s, entry), p)
<1> DEFINE t == Append(s, entry)
<1>1. /\ DOMAIN s \subseteq DOMAIN t /\ DOMAIN s \subseteq Nat /\ DOMAIN t \subseteq Nat
      /\ \A i \in DOMAIN s : Fits(t, i, p.category, p.day) <=> Fits(s, i, p.category, p.day)
      /\ \A i \in DOMAIN t : i \in DOMAIN s \/ \A j \in DOMAIN s : j < i
  BY OlderFits
<1> HIDE DEF t
<1>2. ASSUME NEW i \in DOMAIN t, NEW j \in p.items, i < j
      PROVE  i \in DOMAIN s
  BY <1>1, <1>2
<1>3. NoGaps(t, p)
  BY <1>1, <1>2 DEF NoGaps
<1> QED BY <1>3 DEF t

(* What an answer adds to the panel leaves it without a gap, down to where  *)
(* the answer ends.                                                        *)
PutTogether(s, f, p, q) ==
    /\ Sound(s, f) /\ (f.more \/ f.complete) /\ f.category = p.category /\ f.day = p.day
    /\ q.category = p.category /\ q.day = p.day
    /\ f.more => q.next = Oldest(f.items)
    /\ ~f.more => q.next = 0
    /\ \/ q.items = f.items /\ f.cursor = 0
       \/ /\ q.items = p.items \cup f.items /\ NoGaps(s, p)
          /\ \/ Covers(f, p) /\ f.cursor = 0
             \/ f.cursor # 0 /\ f.cursor = p.next

LEMMA MergedNoGaps ==
    ASSUME NEW s \in Seq(Entries), NEW f \in Feeds, NEW p \in Panels, NEW q \in Panels,
           PutTogether(s, f, p, q)
    PROVE  NoGaps(s, q)
<1>0. /\ Sound(s, f) /\ (f.more \/ f.complete) /\ f.category = p.category /\ f.day = p.day
      /\ q.category = p.category /\ q.day = p.day
      /\ f.more => q.next = Oldest(f.items)
      /\ ~f.more => q.next = 0
      /\ \/ q.items = f.items /\ f.cursor = 0
         \/ /\ q.items = p.items \cup f.items /\ NoGaps(s, p)
            /\ Covers(f, p) /\ f.cursor = 0
         \/ /\ q.items = p.items \cup f.items /\ NoGaps(s, p)
            /\ f.cursor # 0 /\ f.cursor = p.next
  BY DEF PutTogether
<1>1. DOMAIN s \subseteq Nat /\ f.items \subseteq DOMAIN s /\ p.next \in Nat /\ q.next \in Nat
      /\ p.items \subseteq Nat
  BY <1>0 DEF Sound, Panels
<1>2. f.more => q.next \in f.items /\ \A j \in f.items : q.next <= j
  BY <1>0, <1>1, OldestIsLeast DEF Sound
<1>3. \A i \in q.items \cup ({q.next} \ {0}) : Fits(s, i, q.category, q.day)
  BY <1>0, <1>2 DEF Sound, NoGaps
<1>4. ASSUME NEW i \in DOMAIN s, Fits(s, i, q.category, q.day), q.next <= i,
             NEW j \in q.items, i < j
      PROVE  i \in q.items
  <2>1. f.more => \E l \in f.items : l <= i
    BY <1>0, <1>2, <1>4
  <2>2. ASSUME (f.cursor # 0 /\ i < f.cursor) \/ \E l \in f.items : i < l
        PROVE  i \in f.items
    BY <1>0, <1>4, <2>1, <2>2 DEF Sound
  <2>3. CASE j \in f.items
    BY <1>0, <1>4, <2>2, <2>3
  <2>4. CASE j \notin f.items /\ f.cursor = 0
    <3>1. PICK l \in f.items : j <= l
      BY <1>0, <1>4, <2>4 DEF Covers
    <3>2. i < l
      BY <1>0, <1>1, <1>4, <3>1, <2>4
    <3> QED BY <1>0, <1>4, <2>2, <3>2
  <2>5. CASE j \notin f.items /\ f.cursor # 0 /\ i < f.cursor
    BY <1>0, <1>4, <2>2, <2>5
  <2>6. CASE j \notin f.items /\ f.cursor # 0 /\ ~(i < f.cursor)
    BY <1>0, <1>1, <1>4, <2>6 DEF NoGaps
  <2> QED BY <2>3, <2>4, <2>5, <2>6
<1> QED BY <1>2, <1>3, <1>4 DEF NoGaps

LEMMA ArrivalKeeps ==
    ASSUME ActivityInv, NEW entry \in Entries, EventArrives(entry)
    PROVE  ActivityInv'
<1>1. stream' = Append(stream, entry) /\ UNCHANGED <<kept, panel, asking, whole>>
  BY DEF EventArrives
<1>2. stream \in Seq(Entries) /\ DOMAIN stream \subseteq DOMAIN stream'
  BY <1>1, OlderFits DEF ActivityInv, ActivityShapes
<1>3. \A f : Sound(stream, f) => Sound(stream', f)
  BY <1>1, <1>2, StillSound
<1>4. ActivityShapes'
  BY <1>1, <1>2 DEF ActivityInv, ActivityShapes
<1>5. KeptInv'
  BY <1>1, <1>3 DEF ActivityInv, KeptInv
<1>6. PanelInv'
  BY <1>1, <1>2, StillNoGaps DEF ActivityInv, PanelInv
<1>7. AskedInv' /\ AnswerInv'
  BY <1>1, <1>2, <1>3 DEF ActivityInv, AskedInv, AnswerInv
<1> QED BY <1>4, <1>5, <1>6, <1>7 DEF ActivityInv

(* Kept answers go in the order they came.                                 *)
LEMMA ExpiryKeeps ==
    ASSUME ActivityInv, KeptExpires
    PROVE  ActivityInv'
<1>1. kept' = Tail(kept) /\ kept # <<>> /\ UNCHANGED <<stream, panel, asking, whole>>
  BY DEF KeptExpires
<1>2. kept' \in Seq(Feeds) /\ \A k \in DOMAIN kept' : k + 1 \in DOMAIN kept /\ kept'[k] = kept[k + 1]
  BY <1>1 DEF ActivityInv, ActivityShapes
<1>3. KeptInv'
  BY <1>1, <1>2 DEF ActivityInv, KeptInv
<1>4. AnswerInv'
  BY <1>1, <1>2 DEF ActivityInv, AnswerInv
<1> QED BY <1>1, <1>2, <1>3, <1>4 DEF ActivityInv, ActivityShapes, PanelInv, AskedInv

(* The answer is the kept one for the same request, or a new one is kept.   *)
LEMMA AnswerKeeps ==
    ASSUME ActivityInv, HubAnswers
    PROVE  ActivityInv'
<1>0. asking \in Asked
  BY DEF HubAnswers, ActivityInv, ActivityShapes, NotAsked, Responses
<1> DEFINE hits == KeptFeeds(asking.category, asking.day, asking.cursor)
           new == Feed(asking.category, asking.day, asking.cursor)
<1>1. PICK feed : /\ feed = IF hits = {} THEN new ELSE kept[CHOOSE k \in hits : TRUE]
                  /\ kept' = IF hits = {} THEN Append(kept, feed) ELSE kept
                  /\ asking' = [at |-> "answered", top |-> asking.top, asked |-> asking.asked,
                                feed |-> feed]
                  /\ UNCHANGED <<stream, panel, whole>>
  BY DEF HubAnswers
<1>2. /\ asking.at = "asked" /\ asking.category \in Categories /\ asking.day \in Days
      /\ asking.cursor \in {0} \cup DOMAIN stream
  BY <1>0 DEF Asked, ActivityInv, AskedInv
<1>3. /\ feed \in Feeds /\ Sound(stream, feed) /\ (whole => Covers(feed, panel))
      /\ feed.category = asking.category /\ feed.day = asking.day /\ feed.cursor = asking.cursor
  <2>1. CASE hits = {}
    <3>1. feed = new /\ ActivityShapes /\ PanelInv
      BY <1>1, <2>1 DEF ActivityInv
    <3> HIDE DEF hits
    <3>2. PICK category \in Categories : category = asking.category
      BY <1>2
    <3>3. PICK day \in Days : day = asking.day
      BY <1>2
    <3>4. PICK cursor \in {0} \cup DOMAIN stream : cursor = asking.cursor
      BY <1>2
    <3>5. new = Feed(category, day, cursor)
      BY <3>2, <3>3, <3>4
    <3> HIDE DEF new
    <3>6. /\ new \in Feeds /\ Sound(stream, new) /\ (whole /\ PanelInv => Covers(new, panel))
          /\ new.category = category /\ new.day = day /\ new.cursor = cursor
      BY <3>1, <3>5, FeedIsSound
    <3> QED BY <3>1, <3>2, <3>3, <3>4, <3>6
  <2>2. CASE hits # {}
    <3>1. PICK k \in DOMAIN kept : /\ feed = kept[k] /\ kept[k].category = asking.category
                                  /\ kept[k].day = asking.day /\ kept[k].cursor = asking.cursor
      BY <1>1, <2>2 DEF KeptFeeds
    <3>2. kept[k] \in Feeds
      BY DEF ActivityInv, ActivityShapes
    <3> QED BY <3>1, <3>2 DEF ActivityInv, KeptInv
  <2> QED BY <2>1, <2>2
<1>4. \A k \in DOMAIN kept' :
        \/ k \in DOMAIN kept /\ kept'[k] = kept[k]
        \/ hits = {} /\ kept'[k] = feed
  BY <1>1 DEF ActivityInv, ActivityShapes
<1>5. \A k \in DOMAIN kept : SameKey(kept[k], feed) => kept[k] = feed
  <2>1. ASSUME NEW k \in DOMAIN kept, SameKey(kept[k], feed)
        PROVE  kept[k] = feed
    <3>1. k \in hits
      BY <1>3, <2>1 DEF SameKey, KeptFeeds
    <3>2. PICK l \in DOMAIN kept : feed = kept[l]
      BY <1>1, <3>1 DEF KeptFeeds
    <3> QED BY <2>1, <3>2 DEF ActivityInv, KeptInv
  <2> QED BY <2>1
<1>6. \A k \in DOMAIN kept' : SameKey(kept'[k], feed) => kept'[k] = feed
  BY <1>4, <1>5
<1>7. KeptInv'
  <2>1. \A k, l \in DOMAIN kept' : SameKey(kept'[k], kept'[l]) => kept'[k] = kept'[l]
    BY <1>4, <1>5, <1>6 DEF SameKey, ActivityInv, KeptInv
  <2>2. \A k \in DOMAIN kept' : Sound(stream, kept'[k]) /\ (whole => Covers(kept'[k], panel))
    BY <1>3, <1>4 DEF ActivityInv, KeptInv
  <2> QED BY <1>1, <2>1, <2>2 DEF KeptInv
<1>8. ActivityShapes'
  <2>1. asking' \in Responses
    BY <1>0, <1>1, <1>3 DEF Asked, Responses
  <2>2. kept' \in Seq(Feeds)
    BY <1>1, <1>3 DEF ActivityInv, ActivityShapes
  <2> QED BY <1>1, <2>1, <2>2 DEF ActivityInv, ActivityShapes
<1>9. AnswerInv'
  <2>1. /\ asking.asked = "newest" => feed.cursor = 0
        /\ asking.asked = "more" /\ whole => GoesOnFrom(feed.cursor, feed.category, feed.day, panel)
    BY <1>2, <1>3 DEF ActivityInv, AskedInv
  <2>2. asking'.feed = feed /\ asking'.asked = asking.asked
    BY <1>1
  <2> QED BY <1>1, <1>3, <1>6, <2>1, <2>2 DEF AnswerInv
<1>10. AskedInv'
  BY <1>1 DEF AskedInv
<1> QED BY <1>1, <1>7, <1>8, <1>9, <1>10 DEF ActivityInv, PanelInv

(* The page asks, changes its filter, or fails to get an answer.           *)
LEMMA AskKeeps ==
    ASSUME ActivityInv, UNCHANGED <<stream, kept, whole, panel>>, NEW asked, NEW top \in BOOLEAN,
           Ask(asked, top, panel),
           asked = "newest" \/ (asked = "more" /\ panel.next # 0)
    PROVE  ActivityInv'
<1>1. asking' = [at |-> "asked", asked |-> asked, top |-> top, category |-> panel.category,
                 day |-> panel.day, cursor |-> IF asked = "more" THEN panel.next ELSE 0]
  BY DEF Ask
<1>2. panel.category \in Categories /\ panel.day \in Days /\ panel.next \in Nat
  BY DEF ActivityInv, ActivityShapes, Panels
<1>3. asking' \in Asked
  BY <1>1, <1>2 DEF Asked
<1>4. /\ asking'.at = "asked" /\ asking'.cursor = IF asked = "more" THEN panel.next ELSE 0
      /\ asking'.asked = asked /\ asking'.category = panel.category /\ asking'.day = panel.day
  BY <1>1
<1>5. AskedInv' /\ AnswerInv'
  BY <1>4 DEF ActivityInv, PanelInv, AskedInv, AnswerInv, GoesOnFrom
<1> QED BY <1>3, <1>5 DEF ActivityInv, ActivityShapes, KeptInv, PanelInv

LEMMA FilterKeeps ==
    ASSUME ActivityInv, NEW category \in Categories, NEW day \in Days, SetFilter(category, day)
    PROVE  ActivityInv'
<1>1. panel' = [category |-> category, day |-> day, items |-> {}, next |-> 0, more |-> FALSE]
  BY DEF SetFilter, NewPanel
<1>2. panel' \in Panels /\ panel'.items = {} /\ panel'.next = 0 /\ ~panel'.more
  BY <1>1 DEF Panels
<1>3. UNCHANGED <<stream, kept>> /\ whole' = (asking.at = "idle")
  BY DEF SetFilter
<1>4. PanelInv' /\ KeptInv'
  BY <1>2, <1>3 DEF ActivityInv, PanelInv, KeptInv, NoGaps, Covers
<1>5. CASE asking.at = "idle"
  <2>1. asking' = [at |-> "asked", asked |-> "newest", top |-> TRUE, category |-> category,
                   day |-> day, cursor |-> 0]
    BY <1>1, <1>5 DEF SetFilter, Ask
  <2>2. asking' \in Asked
    BY <2>1 DEF Asked
  <2>3. AskedInv' /\ AnswerInv'
    BY <2>1 DEF AskedInv, AnswerInv
  <2> QED BY <1>2, <1>3, <1>4, <2>2, <2>3 DEF ActivityInv, ActivityShapes
<1>6. CASE asking.at # "idle"
  <2>1. asking' = asking /\ ~whole'
    BY <1>3, <1>6 DEF SetFilter
  <2>2. AskedInv' /\ AnswerInv'
    BY <1>3, <2>1 DEF ActivityInv, AskedInv, AnswerInv
  <2> QED BY <1>2, <1>3, <1>4, <2>1, <2>2 DEF ActivityInv, ActivityShapes
<1> QED BY <1>5, <1>6

LEMMA FailureKeeps ==
    ASSUME ActivityInv, RequestFails
    PROVE  ActivityInv'
<1>1. panel' \in {panel, [panel EXCEPT !.items = {}]} /\ asking' = NotAsked
      /\ UNCHANGED <<stream, kept, whole>>
  BY DEF RequestFails
<1>2. panel' \in Panels /\ panel'.items \in {panel.items, {}} /\ panel'.next = panel.next
      /\ panel'.more = panel.more /\ panel'.category = panel.category /\ panel'.day = panel.day
  BY <1>1 DEF ActivityInv, ActivityShapes, Panels
<1>3. PanelInv'
  BY <1>1, <1>2 DEF ActivityInv, PanelInv, NoGaps
<1>4. KeptInv'
  BY <1>1, <1>2 DEF ActivityInv, KeptInv, Covers
<1>5. AskedInv' /\ AnswerInv'
  BY <1>1 DEF AskedInv, AnswerInv, NotAsked
<1> QED BY <1>1, <1>2, <1>3, <1>4, <1>5 DEF ActivityInv, ActivityShapes

(* The answer is put on the page.                                          *)
LEMMA ReceiptKeeps ==
    ASSUME ActivityInv, Receive
    PROVE  ActivityInv'
<1>0. asking \in Responses
  BY DEF Receive, ActivityInv, ActivityShapes, NotAsked, Asked
<1>1. PICK feed : feed = asking.feed
  OBVIOUS
<1>2. /\ asking' = NotAsked /\ UNCHANGED <<stream, kept>>
      /\ panel' = [panel EXCEPT
             !.day = feed.day, !.more = feed.more,
             !.items = IF Replaces(asking) THEN feed.items ELSE @ \cup feed.items,
             !.next = IF feed.more THEN Oldest(feed.items) ELSE 0]
      /\ whole' = /\ feed.category = panel.category /\ feed.day = panel.day
                  /\ feed.more \/ feed.complete
                  /\ whole \/ Replaces(asking)
  BY <1>1 DEF Receive
<1>3. /\ feed \in Feeds /\ Sound(stream, feed)
      /\ \A k \in DOMAIN kept : SameKey(kept[k], feed) => kept[k] = feed
      /\ whole => Covers(feed, panel)
      /\ asking.asked = "newest" => feed.cursor = 0
      /\ asking.asked = "more" /\ whole =>
           GoesOnFrom(feed.cursor, feed.category, feed.day, panel)
      /\ asking.asked \in {"newest", "more"}
  BY <1>0, <1>1 DEF Responses, ActivityInv, AnswerInv
<1>4. /\ panel'.category = panel.category /\ panel'.day = feed.day /\ panel'.more = feed.more
      /\ panel'.items = IF Replaces(asking) THEN feed.items ELSE panel.items \cup feed.items
      /\ panel'.next = IF feed.more THEN Oldest(feed.items) ELSE 0
  BY <1>2 DEF ActivityInv, ActivityShapes, Panels
<1>5. /\ feed.items \subseteq Nat /\ feed.items \subseteq DOMAIN stream
      /\ panel.items \subseteq DOMAIN stream
      /\ feed.more => Oldest(feed.items) \in feed.items
  BY <1>3, OldestIsLeast DEF Feeds, Sound, ActivityInv, PanelInv
<1>6. panel' \in Panels
  BY <1>2, <1>3, <1>5 DEF ActivityInv, ActivityShapes, Panels, Feeds
<1>7. ASSUME whole'
      PROVE  /\ NoGaps(stream, panel')
             /\ \A k \in DOMAIN kept : Covers(kept[k], panel')
  <2>1. /\ feed.category = panel.category /\ feed.day = panel.day
        /\ feed.more \/ feed.complete
        /\ whole \/ Replaces(asking)
    BY <1>2, <1>7
  <2>2. /\ Replaces(asking) => asking.asked = "newest"
        /\ ~Replaces(asking) => whole /\ NoGaps(stream, panel)
    BY <2>1 DEF Replaces, ActivityInv, PanelInv
  <2>3. \/ panel'.items = feed.items /\ feed.cursor = 0
        \/ /\ panel'.items = panel.items \cup feed.items /\ NoGaps(stream, panel)
           /\ Covers(feed, panel) /\ feed.cursor = 0 /\ whole
        \/ /\ panel'.items = panel.items \cup feed.items /\ NoGaps(stream, panel)
           /\ feed.cursor # 0 /\ feed.cursor = panel.next /\ whole
    BY <1>3, <1>4, <2>2 DEF GoesOnFrom
  <2>4. stream \in Seq(Entries) /\ panel \in Panels
    BY DEF ActivityInv, ActivityShapes
  <2>5. NoGaps(stream, panel')
    <3>1. PutTogether(stream, feed, panel, panel')
      <4>1. /\ Sound(stream, feed) /\ panel'.category = panel.category
            /\ panel'.day = panel.day
            /\ feed.more => panel'.next = Oldest(feed.items)
            /\ ~feed.more => panel'.next = 0
        BY <1>3, <1>4, <2>1
      <4>2. \/ panel'.items = feed.items /\ feed.cursor = 0
            \/ /\ panel'.items = panel.items \cup feed.items /\ NoGaps(stream, panel)
               /\ \/ Covers(feed, panel) /\ feed.cursor = 0
                  \/ feed.cursor # 0 /\ feed.cursor = panel.next
        BY <2>3
      <4> QED BY <2>1, <4>1, <4>2 DEF PutTogether
    <3>2. PICK q \in Panels : q = panel'
      BY <1>6
    <3>3. PutTogether(stream, feed, panel, q)
      BY <3>1, <3>2
    <3>4. NoGaps(stream, q)
      BY <1>3, <2>4, <3>3, MergedNoGaps
    <3> QED BY <3>2, <3>4
  <2>6. ASSUME NEW k \in DOMAIN kept, kept[k].cursor = 0, kept[k].category = panel'.category,
               kept[k].day = panel'.day, kept[k].more \/ kept[k].complete,
               NEW j \in panel'.items \cup ({panel'.next} \ {0})
        PROVE  \E i \in kept[k].items : j <= i
    <3>1. j \in feed.items \/ (j \in panel.items /\ whole)
      BY <1>4, <1>5, <2>3, <2>6
    <3>2. ASSUME whole, NEW l \in panel.items \cup ({panel.next} \ {0})
          PROVE  \E i \in kept[k].items : l <= i
      BY <1>4, <2>1, <2>6, <3>2 DEF ActivityInv, KeptInv, Covers
    <3>3. CASE j \in feed.items /\ feed.cursor = 0
      <4>1. kept[k] = feed
        BY <1>3, <1>4, <2>1, <2>6, <3>3 DEF SameKey
      <4>2. j \in Nat
        BY <1>5, <3>3
      <4> QED BY <3>3, <4>1, <4>2
    <3>4. CASE j \in feed.items /\ feed.cursor # 0
      <4>1. j < panel.next /\ panel.next # 0 /\ whole
        BY <1>3, <2>3, <3>4 DEF Sound
      <4>2. PICK i \in kept[k].items : panel.next <= i
        BY <3>2, <4>1
      <4>3. kept[k].items \subseteq Nat
        <5>1. kept[k] \in Feeds
          BY DEF ActivityInv, ActivityShapes
        <5> QED BY <5>1 DEF Feeds
      <4>4. i \in Nat /\ j \in Nat /\ panel.next \in Nat
        BY <1>5, <2>4, <3>4, <4>3 DEF Panels
      <4> QED BY <4>1, <4>2, <4>4
    <3>5. CASE j \notin feed.items
      BY <3>1, <3>2, <3>5
    <3> QED BY <3>3, <3>4, <3>5
  <2> QED BY <2>5, <2>6 DEF Covers
<1>8. PanelInv'
  BY <1>2, <1>4, <1>5, <1>7 DEF ActivityInv, PanelInv
<1>9. KeptInv'
  BY <1>2, <1>7 DEF ActivityInv, KeptInv
<1>10. AskedInv' /\ AnswerInv'
  BY <1>2 DEF AskedInv, AnswerInv, NotAsked
<1>11. whole' \in BOOLEAN
  BY <1>2
<1> QED BY <1>2, <1>6, <1>8, <1>9, <1>10, <1>11 DEF ActivityInv, ActivityShapes

LEMMA ActivityInvStep == ActivityInv /\ ActivityNext => ActivityInv'
<1> SUFFICES ASSUME ActivityInv, ActivityNext
             PROVE  ActivityInv'
  OBVIOUS
<1>1. ASSUME NEW entry \in Entries, EventArrives(entry)
      PROVE  ActivityInv'
  BY <1>1, ArrivalKeeps
<1>2. CASE HubAnswers
  BY <1>2, AnswerKeeps
<1>3. CASE KeptExpires
  BY <1>3, ExpiryKeeps
<1>4. CASE Receive
  BY <1>4, ReceiptKeeps
<1>5. CASE LoadMore
  BY <1>5, AskKeeps DEF LoadMore
<1>6. CASE RequestFails
  BY <1>6, FailureKeeps
<1>7. ASSUME NEW category \in Categories, NEW day \in Days, SetFilter(category, day)
      PROVE  ActivityInv'
  BY <1>7, FilterKeeps
<1>8. ASSUME NEW top \in BOOLEAN, Poll(top)
      PROVE  ActivityInv'
  BY <1>8, AskKeeps DEF Poll
<1> QED BY <1>1, <1>2, <1>3, <1>4, <1>5, <1>6, <1>7, <1>8 DEF ActivityNext

LEMMA ActivityInvInit == Init => ActivityInv
<1> SUFFICES ASSUME Init
             PROVE  ActivityInv
  OBVIOUS
<1>1. stream \in Seq(Entries) /\ kept = <<>> /\ asking = NotAsked /\ panel = NewPanel("all", 2) /\ whole = TRUE
  <2>1. CASE ActivityInit
    <3>1. PICK n \in 0 .. MaxEntries - 1 : stream \in [1 .. n -> Entries]
      BY <2>1 DEF ActivityInit
    <3>2. n \in Nat
      BY ActivityFeedAssumption
    <3> QED BY <2>1, <3>1, <3>2 DEF ActivityInit
  <2>2. CASE ActivityRests
    BY <2>2 DEF ActivityRests, ActivityInit
  <2> QED BY <2>1, <2>2 DEF Init
<1>2. panel \in Panels /\ panel.items = {} /\ panel.next = 0 /\ ~panel.more
  BY <1>1, ActivityFeedAssumption DEF NewPanel, Panels, Days
<1>3. PanelInv
  BY <1>2 DEF PanelInv, NoGaps
<1>4. KeptInv /\ AskedInv /\ AnswerInv
  BY <1>1 DEF KeptInv, AskedInv, AnswerInv, NotAsked
<1> QED BY <1>1, <1>2, <1>3, <1>4 DEF ActivityInv, ActivityShapes

LEMMA OthersLeaveActivity == [Next]_vars => OfActivity(ActivityNext) \/ UNCHANGED activityVars
BY DEF Next, OfPresence, OfInventory, OfRouting, OfOverlay, OfPool, OfPage, vars

(* When the activity page offers no more, no entry older than one it shows  *)
(* is missing (nextCursor of getActivityFeed, the merging of               *)
(* refreshActivity), over polls, pages, answers kept and new entries in any *)
(* order, unless the filter changed under a request, or an answer said there*)
(* is no more with part of the day unread: after one batch of a day whose   *)
(* context is known, or with the budget of its scan spent.                  *)
THEOREM NoEntrySkipped == Spec => []NothingSkipped
<1>1. Init => ActivityInv
  BY ActivityInvInit
<1>2. ActivityInv /\ [Next]_vars => ActivityInv'
  <2> SUFFICES ASSUME ActivityInv, [Next]_vars
               PROVE  ActivityInv'
    OBVIOUS
  <2>1. CASE OfActivity(ActivityNext)
    BY <2>1, ActivityInvStep DEF OfActivity
  <2>2. CASE UNCHANGED activityVars
    BY <2>2 DEF ActivityInv, ActivityShapes, KeptInv, PanelInv, AskedInv, AnswerInv, activityVars
  <2> QED BY <2>1, <2>2, OthersLeaveActivity
<1>3. ActivityInv => NothingSkipped
  <2> SUFFICES ASSUME ActivityInv, ~panel.more, whole
               PROVE  \A i \in DOMAIN stream :
                        (Matches(i, panel.category, panel.day) /\ \E j \in panel.items : i < j)
                          => i \in panel.items
    BY DEF NothingSkipped
  <2>1. panel.next = 0 /\ NoGaps(stream, panel) /\ DOMAIN stream \subseteq Nat
    BY DEF ActivityInv, ActivityShapes, PanelInv
  <2> QED BY <2>1 DEF NoGaps, Fits, Matches
<1> QED BY <1>1, <1>2, <1>3, PTL DEF Spec

-----------------------------------------------------------------------------
(* The content inventory *)

(* Of some subsets of a finite set one has the most members.               *)
LEMMA LongestThere ==
    ASSUME NEW T, IsFiniteSet(T), NEW S, S \subseteq SUBSET T, S # {}
    PROVE  \E x \in S : \A y \in S : Cardinality(y) <= Cardinality(x)
<1> DEFINE sizes == {Cardinality(x) + 1 : x \in S}
<1>1. Cardinality(T) + 1 \in Nat
  BY FS_CardinalityType
<1>2. \A x \in S : Cardinality(x) \in Nat /\ Cardinality(x) <= Cardinality(T)
  <2> SUFFICES ASSUME NEW x \in S
               PROVE  Cardinality(x) \in Nat /\ Cardinality(x) <= Cardinality(T)
    OBVIOUS
  <2>1. x \in SUBSET T
    OBVIOUS
  <2>2. IsFiniteSet(x) /\ Cardinality(x) <= Cardinality(T)
    BY <2>1, FS_Subset
  <2> QED BY <2>2, FS_CardinalityType
<1>3. sizes \subseteq 1 .. (Cardinality(T) + 1) /\ sizes # {}
  <2>1. PICK n \in Nat : n = Cardinality(T)
    BY FS_CardinalityType
  <2>2. \A x \in S : Cardinality(x) + 1 \in 1 .. (n + 1)
    BY <1>2, <2>1
  <2>3. sizes \subseteq 1 .. (n + 1)
    BY <2>2
  <2>4. sizes # {}
    OBVIOUS
  <2> QED BY <2>1, <2>3, <2>4
<1>4. PICK i \in sizes : \A j \in sizes : j <= i
  <2> HIDE DEF sizes
  <2> QED BY <1>1, <1>3, GreatestThere
<1>5. PICK x \in S : i = Cardinality(x) + 1
  BY <1>4
<1>6. \A y \in S : Cardinality(y) + 1 <= Cardinality(x) + 1
  BY <1>4, <1>5
<1> QED BY <1>2, <1>6

(* All that is known, asked for or pushed of the content was once there.   *)
StoredWasThere ==
    /\ inventory \in [Keys -> [cars : SUBSET Cars, tracks : SUBSET Tracks, meta : BOOLEAN]]
    /\ \A k \in Keys : inventory[k].cars \subseteq had /\ inventory[k].tracks \subseteq had

InventoryInv ==
    /\ pool \subseteq had
    /\ scan \in [at : {"idle", "cars", "posted"}, found : SUBSET had, stored : Int]
    /\ StoredWasThere
    /\ request \in [at : {"idle", "cars", "read"}, wanted : SUBSET Content, known : SUBSET had]
    /\ pushed \subseteq had

(* The longest list under any name is one of the lists.                    *)
LEMMA KnownWasThere ==
    ASSUME StoredWasThere
    PROVE  KnownCars \subseteq had /\ KnownTracks \subseteq had
<1>1. Keys # {}
  <2>1. PICK names : Aliases \in Seq(names) /\ Aliases # <<>>
    BY ModInventoryAssumption
  <2>2. 1 \in DOMAIN Aliases
    BY <2>1
  <2> QED BY <2>2 DEF Keys
<1>2. \E cars \in {inventory[k].cars : k \in Keys} :
        \A k \in Keys : Cardinality(inventory[k].cars) <= Cardinality(cars)
  <2> DEFINE lists == {inventory[k].cars : k \in Keys}
  <2>1. lists \subseteq SUBSET Cars /\ lists # {}
    BY <1>1 DEF StoredWasThere
  <2>2. \A k \in Keys : inventory[k].cars \in lists
    OBVIOUS
  <2> HIDE DEF lists
  <2>3. \E x \in lists : \A y \in lists : Cardinality(y) <= Cardinality(x)
    BY <2>1, LongestThere, ModInventoryAssumption
  <2>4. \E x \in lists : \A k \in Keys : Cardinality(inventory[k].cars) <= Cardinality(x)
    BY <2>2, <2>3
  <2> QED BY <2>4 DEF lists
<1>3. \E tracks \in {inventory[k].tracks : k \in Keys} :
        \A k \in Keys : Cardinality(inventory[k].tracks) <= Cardinality(tracks)
  <2> DEFINE lists == {inventory[k].tracks : k \in Keys}
  <2>1. lists \subseteq SUBSET Tracks /\ lists # {}
    BY <1>1 DEF StoredWasThere
  <2>2. \A k \in Keys : inventory[k].tracks \in lists
    OBVIOUS
  <2> HIDE DEF lists
  <2>3. \E x \in lists : \A y \in lists : Cardinality(y) <= Cardinality(x)
    BY <2>1, LongestThere, ModInventoryAssumption
  <2>4. \E x \in lists : \A k \in Keys : Cardinality(inventory[k].tracks) <= Cardinality(x)
    BY <2>2, <2>3
  <2> QED BY <2>4 DEF lists
<1>4. KnownCars \in {inventory[k].cars : k \in Keys}
  BY <1>2 DEF KnownCars
<1>5. KnownTracks \in {inventory[k].tracks : k \in Keys}
  BY <1>3 DEF KnownTracks
<1> QED BY <1>4, <1>5 DEF StoredWasThere

LEMMA InventoryInvStep == InventoryInv /\ InventoryNext => InventoryInv'
<1> SUFFICES ASSUME InventoryInv, InventoryNext
             PROVE  InventoryInv'
  OBVIOUS
<1> USE DEF InventoryInv, StoredWasThere
<1>1. CASE ScanCars
  <2>1. scan' = [at |-> "cars", found |-> pool \cap Cars, stored |-> 0]
        /\ UNCHANGED <<pool, had, inventory, request, pushed>>
    BY <1>1 DEF ScanCars, NoScan
  <2> QED BY <2>1
<1>2. CASE ScanTracks
  <2>1. UNCHANGED <<pool, had, inventory, request, pushed>>
        /\ \E found \in SUBSET had : scan' \in {[scan EXCEPT !.at = "posted", !.found = found], NoScan}
    BY <1>2 DEF ScanTracks
  <2>2. scan' \in [at : {"idle", "cars", "posted"}, found : SUBSET had, stored : Int]
    <3>1. PICK found \in SUBSET had :
            scan' \in {[scan EXCEPT !.at = "posted", !.found = found], NoScan}
      BY <2>1
    <3>2. [scan EXCEPT !.at = "posted", !.found = found] \in
            [at : {"idle", "cars", "posted"}, found : SUBSET had, stored : Int]
      OBVIOUS
    <3>3. NoScan \in [at : {"idle", "cars", "posted"}, found : SUBSET had, stored : Int]
      BY DEF NoScan
    <3> QED BY <3>1, <3>2, <3>3, Zenon
  <2> QED BY <2>1, <2>2
<1>3. CASE Acknowledged
  BY <1>3 DEF Acknowledged, NoScan
<1>4. CASE PostCutShort
  BY <1>4 DEF PostCutShort, NoScan
<1>5. CASE EdgeRestarts
  BY <1>5 DEF EdgeRestarts, NoScan
<1>6. CASE StoreKey
  <2> DEFINE alias == Aliases[1 + scan.stored \div 2]
             new == IF scan.stored % 2 = 0
                    THEN [inventory[alias] EXCEPT !.cars = scan.found \cap Cars]
                    ELSE [inventory[alias] EXCEPT !.tracks = scan.found \cap Tracks, !.meta = TRUE]
  <2>1. inventory' = [inventory EXCEPT ![alias] = new]
    BY <1>6 DEF StoreKey
  <2>2. CASE alias \in Keys
    <3>1. /\ new \in [cars : SUBSET Cars, tracks : SUBSET Tracks, meta : BOOLEAN]
          /\ new.cars \subseteq had /\ new.tracks \subseteq had
      BY <2>2
    <3> HIDE DEF new, alias
    <3>2. UNCHANGED <<pool, had, request, pushed>> /\ scan' = [scan EXCEPT !.stored = @ + 1]
      BY <1>6 DEF StoreKey
    <3>3. inventory' \in [Keys -> [cars : SUBSET Cars, tracks : SUBSET Tracks, meta : BOOLEAN]]
      BY <2>1, <2>2, <3>1
    <3>4. \A k \in Keys : inventory'[k] \in {inventory[k], new}
      BY <2>1
    <3>5. \A k \in Keys : inventory'[k].cars \subseteq had /\ inventory'[k].tracks \subseteq had
      BY <3>1, <3>4
    <3>6. scan' \in [at : {"idle", "cars", "posted"}, found : SUBSET had, stored : Int]
      BY <3>2
    <3> QED BY <3>2, <3>3, <3>5, <3>6
  <2>3. CASE alias \notin Keys
    <3> HIDE DEF new, alias
    <3>1. inventory' = inventory
      BY <2>1, <2>3
    <3>2. UNCHANGED <<pool, had, request, pushed>> /\ scan' = [scan EXCEPT !.stored = @ + 1]
      BY <1>6 DEF StoreKey
    <3>3. scan' \in [at : {"idle", "cars", "posted"}, found : SUBSET had, stored : Int]
      BY <3>2
    <3> QED BY <3>1, <3>2, <3>3
  <2> QED BY <2>2, <2>3
<1>7. CASE ReadTracks
  BY <1>7, KnownWasThere DEF ReadTracks
<1>8. CASE CheckAndPush
  BY <1>8 DEF CheckAndPush, Missing, NoRequest
<1>9. ASSUME NEW c \in Content, ChangePool(c)
      PROVE  InventoryInv'
  <2>1. had \subseteq had' /\ pool' \subseteq had' /\ UNCHANGED <<scan, inventory, request, pushed>>
    BY <1>9 DEF ChangePool
  <2> QED BY <2>1
<1>10. ASSUME NEW k \in Keys, KeysExpire(k)
       PROVE  InventoryInv'
  BY <1>10 DEF KeysExpire, NotStored
<1>11. ASSUME NEW wanted \in SUBSET Content, DesiredConfig(wanted)
       PROVE  InventoryInv'
  BY <1>11, KnownWasThere DEF DesiredConfig
<1> QED
  BY <1>1, <1>2, <1>3, <1>4, <1>5, <1>6, <1>7, <1>8, <1>9, <1>10, <1>11 DEF InventoryNext

LEMMA InventoryInvInit == Init => InventoryInv
<1> SUFFICES ASSUME Init
             PROVE  InventoryInv
  OBVIOUS
<1>1. /\ pool = had /\ scan = NoScan /\ inventory = [k \in Keys |-> NotStored]
      /\ request = NoRequest /\ pushed = {}
  BY DEF Init, InventoryInit, InventoryRests
<1> QED BY <1>1 DEF InventoryInv, StoredWasThere, NoScan, NotStored, NoRequest

LEMMA OthersLeaveInventory == [Next]_vars => OfInventory(InventoryNext) \/ UNCHANGED inventoryVars
BY DEF Next, OfPresence, OfRouting, OfOverlay, OfActivity, OfPool, OfPage, vars

(* The edge is never told to run content it never had, whatever half of a   *)
(* report, of whatever age, the request was checked against                *)
(* (applyDesiredConfig), and whatever the library's database said.         *)
THEOREM PushedWereThere == Spec => []PushedWasInstalled
<1>1. Init => InventoryInv
  BY InventoryInvInit
<1>2. InventoryInv /\ [Next]_vars => InventoryInv'
  <2> SUFFICES ASSUME InventoryInv, [Next]_vars
               PROVE  InventoryInv'
    OBVIOUS
  <2>1. CASE OfInventory(InventoryNext)
    BY <2>1, InventoryInvStep DEF OfInventory
  <2>2. CASE UNCHANGED inventoryVars
    BY <2>2 DEF InventoryInv, StoredWasThere, inventoryVars
  <2> QED BY <2>1, <2>2, OthersLeaveInventory
<1>3. InventoryInv => PushedWasInstalled
  BY DEF InventoryInv, PushedWasInstalled
<1> QED BY <1>1, <1>2, <1>3, PTL DEF Spec
=============================================================================
