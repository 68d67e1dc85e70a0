---------------------------- MODULE ControlPlane ----------------------------
(***************************************************************************)
(* The hub's control plane, the overlay's battle room and an edge's pool:  *)
(* parts that share no state here, one of which runs in each behaviour     *)
(* while the others rest.                                                  *)
(* Side by side they would only multiply each other's states: none reads   *)
(* or writes what another does.                                            *)
(***************************************************************************)
EXTENDS AgentPresence, ModInventory, HudRouting, BattleOverlay, ActivityFeed,
        ServerPool, ServersPage

VARIABLE part

parts == {"presence", "inventory", "routing", "overlay", "activity", "pool", "page"}

vars == <<part, presenceVars, inventoryVars, routingVars, overlayVars, activityVars,
          poolVars, pageVars>>

-----------------------------------------------------------------------------
(* A part at rest is settled: an edge without folders that is known to have *)
(* none, an empty pool, a registry nobody has asked, no battle.             *)
PresenceRests ==
    /\ folders = {} /\ agentUp = TRUE
    /\ post = [p \in Posts |-> Idle]
    /\ agentDoc = Doc({}) /\ catalog = {}
    /\ folderOps = 0 /\ presenceFaults = 0 /\ excused = FALSE

InventoryRests == pool = {} /\ InventoryInit

RoutingRests == lobby = [e \in Edges |-> CHOOSE name \in Lobbies : TRUE] /\ RoutingInit

ActivityRests == stream = <<>> /\ ActivityInit

PoolRests == iniName = (CHOOSE name \in DisplayNames : TRUE) /\ ServerPoolInit

PageRests ==
    /\ disk = [h \in Hosts |-> [i \in Indices |-> Absent]] /\ rows = {}
    /\ call = [r \in Calls |-> NoCall] /\ load = [l \in Loads |-> NoLoad]
    /\ pageRequests = 0 /\ pageFaults = 0 /\ failed = FALSE

Init ==
    /\ part \in parts
    /\ IF part = "presence" THEN PresenceInit ELSE PresenceRests
    /\ IF part = "inventory" THEN InventoryInit ELSE InventoryRests
    /\ IF part = "routing" THEN RoutingInit ELSE RoutingRests
    /\ OverlayInit
    /\ IF part = "activity" THEN ActivityInit ELSE ActivityRests
    /\ IF part = "pool" THEN ServerPoolInit ELSE PoolRests
    /\ IF part = "page" THEN PageInit ELSE PageRests

In(name) == part = name /\ UNCHANGED part

OfPresence(A) ==
    /\ In("presence") /\ A
    /\ UNCHANGED <<inventoryVars, routingVars, overlayVars, activityVars, poolVars, pageVars>>

OfInventory(A) ==
    /\ In("inventory") /\ A
    /\ UNCHANGED <<presenceVars, routingVars, overlayVars, activityVars, poolVars, pageVars>>

OfRouting(A) ==
    /\ In("routing") /\ A
    /\ UNCHANGED <<presenceVars, inventoryVars, overlayVars, activityVars, poolVars, pageVars>>

OfOverlay(A) ==
    /\ In("overlay") /\ A
    /\ UNCHANGED <<presenceVars, inventoryVars, routingVars, activityVars, poolVars, pageVars>>

OfActivity(A) ==
    /\ In("activity") /\ A
    /\ UNCHANGED <<presenceVars, inventoryVars, routingVars, overlayVars, poolVars, pageVars>>

OfPool(A) ==
    /\ In("pool") /\ A
    /\ UNCHANGED <<presenceVars, inventoryVars, routingVars, overlayVars, activityVars, pageVars>>

OfPage(A) ==
    /\ In("page") /\ A
    /\ UNCHANGED <<presenceVars, inventoryVars, routingVars, overlayVars, activityVars, poolVars>>

Next ==
    \/ OfPresence(PresenceNext)
    \/ OfInventory(InventoryNext)
    \/ OfRouting(RoutingNext)
    \/ OfOverlay(OverlayNext)
    \/ OfActivity(ActivityNext)
    \/ OfPool(ServerPoolNext)
    \/ OfPage(PageNext)

-----------------------------------------------------------------------------
(* Timers fire, posts and their answers arrive or fail, Redis answers, the  *)
(* handlers and the pages go on after each await, a stopped edge is started *)
(* again, and                                                               *)
(* polls of the activity page find it at the top of its list now and then.  *)
(* The steps of one handler take turns, so fairness to one of them is        *)
(* fairness to each.                                                        *)
PresenceGoesOn ==
    /\ WF_presenceVars(OfPresence(AgentStarts))
    /\ \A p \in Posts :
         /\ WF_presenceVars(OfPresence(Post(p)))
         /\ WF_presenceVars(OfPresence(ReadPrevious(p) \/ Store(p) \/ Mutate(p)))

InventoryGoesOn ==
    /\ WF_inventoryVars(OfInventory(ScanCars)) /\ WF_inventoryVars(OfInventory(ScanTracks))
    /\ WF_inventoryVars(OfInventory(StoreKey \/ Acknowledged))

OverlayGoesOn ==
    /\ WF_overlayVars(OfOverlay(fighting /\ Publish)) /\ WF_overlayVars(OfOverlay(Clear))
    /\ WF_overlayVars(OfOverlay(Hear)) /\ WF_overlayVars(OfOverlay(TimerFires))
    /\ WF_overlayVars(OfOverlay(BattleFinishedEvent \/ DebounceFires \/ FlushBattle))
    /\ WF_overlayVars(OfOverlay(MarkExpires))
    /\ \A i \in 1 .. MaxReads :
         WF_overlayVars(OfOverlay(i \in DOMAIN reads /\ (Push(i) \/ PushClear(i) \/ PushInitial(i))))
    /\ \A s \in Sockets : WF_overlayVars(OfOverlay(Mark(s) \/ Subscribe(s)))

ActivityGoesOn ==
    /\ WF_activityVars(OfActivity(HubAnswers \/ Receive)) /\ WF_activityVars(OfActivity(KeptExpires))
    /\ SF_activityVars(OfActivity(Poll(TRUE)))

PageGoesOn ==
    /\ \A l \in Loads :
         /\ \A h \in Hosts : WF_pageVars(OfPage(ReadHost(l, h)))
         /\ WF_pageVars(OfPage(LoadShown(l)))
    /\ \A r \in Calls : WF_pageVars(OfPage(SendNext(r) \/ EdgeStopsServer(r) \/ EdgeServes(r) \/ Answered(r)))

Spec ==
    /\ Init /\ [][Next]_vars
    /\ PresenceGoesOn /\ InventoryGoesOn /\ OverlayGoesOn /\ ActivityGoesOn
    /\ PageGoesOn

-----------------------------------------------------------------------------
(* The state of every part has the shape its module declares.               *)
TypeOK ==
    /\ part \in parts
    /\ PresenceTypeOK /\ InventoryTypeOK /\ RoutingTypeOK /\ OverlayTypeOK
    /\ ActivityTypeOK /\ ServerPoolTypeOK /\ PageTypeOK
=============================================================================
