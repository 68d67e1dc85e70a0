---------------------------- MODULE BattleOverlay ----------------------------
(***************************************************************************)
(* A player's battle on the overlay, and the mark that the overlay is      *)
(* connected (src/packages/ac-data-edge/src/services/hud: battleHudPush.ts, *)
(* battleHudReader.ts, hudUpdatesSubscriber.ts, hudRefreshScheduler.ts,    *)
(* hudWs.ts, hudBattleRoomSubscription.ts, hudConnPresence.ts;             *)
(* ac-data-backend/src/services/hud/hudGateway.ts;                         *)
(* src/telemetry-data/network/battle_hud_publisher.py).                    *)
(*                                                                         *)
(* The telemetry writes the battle's snapshot to Redis, publishes a message *)
(* each time, and deletes the final snapshot a while later without one.    *)
(* The edge answers a message by reading the snapshot, players' profiles   *)
(* included, and sending it to the sockets of the battle's room; a final    *)
(* one also starts a timer that reads again.  When the telemetry's          *)
(* battle_finished event arrives, a debounced job reads once more.         *)
(*                                                                         *)
(* One player, one server, one edge.                                       *)
(***************************************************************************)
EXTENDS Integers, FiniteSets, Sequences

CONSTANTS
    MaxReads,          \* bound: reads of the snapshot under way at once
    MaxBattles,
    MaxConnects,       \* bound: connections of the player's overlay
    MaxOverlayFaults   \* bound: lost messages, dropped battles and crashes

ASSUME BattleOverlayAssumption ==
    /\ MaxReads \in Nat /\ MaxBattles \in Nat /\ MaxConnects \in Nat
    /\ MaxOverlayFaults \in Nat

VARIABLES
    fighting,          \* in the telemetry
    snapshot,          \* ac:hud:battle: "none", "on" or "over"
    clearDue,          \* schedule_clear_battle_hud's timer runs
    message,           \* a message of ac:hud:updates is under way
    reads,             \* reads not sent yet, in the order they were made
    clearTimer,        \* clearTimers of the room
    finished,          \* a battle_finished event is under way to the edge
    debounce,          \* debounceTimer, with its job in pendingPlayers
    flushing,          \* flushPromise: waits ("delay") or pushes ("push")
    socket,            \* [Sockets -> the connection]
    connected,         \* ac:hud:conn
    battles, connects, overlayFaults,
    unsettled,         \* a reason the overlay may stay wrong has occurred
    unmarked           \* a reason the mark may stay wrong has occurred

battleVars == <<fighting, snapshot, clearDue, message, finished, battles>>
edgeVars == <<reads, clearTimer, debounce, flushing>>
overlayVars == <<battleVars, edgeVars, socket, connected, connects, overlayFaults,
                 unsettled, unmarked>>

(* at: how far handleHudWsConnection has come; alive: the client's end.     *)
Sockets == 1 .. MaxConnects

Closed == [at |-> "closed", alive |-> FALSE, shown |-> "none"]

OverlayInit ==
    /\ fighting = FALSE /\ snapshot = "none" /\ clearDue = FALSE
    /\ message = FALSE /\ finished = FALSE
    /\ reads = <<>> /\ clearTimer = FALSE
    /\ debounce = FALSE /\ flushing = "no"
    /\ socket = [s \in Sockets |-> Closed] /\ connected = FALSE
    /\ battles = 0 /\ connects = 0 /\ overlayFaults = 0
    /\ unsettled = FALSE /\ unmarked = FALSE

OverlayFault ==
    overlayFaults < MaxOverlayFaults /\ overlayFaults' = overlayFaults + 1

-----------------------------------------------------------------------------
(* The telemetry *)

(* publish_battle_hud: at the start and all through the battle.             *)
Publish ==
    /\ \/ fighting /\ UNCHANGED <<fighting, battles>>
       \/ ~fighting /\ battles < MaxBattles /\ battles' = battles + 1 /\ fighting' = TRUE
    /\ snapshot' = "on" /\ message' = TRUE
    /\ UNCHANGED <<clearDue, finished, edgeVars, socket, connected, connects,
                   overlayFaults, unsettled, unmarked>>

(* The final snapshot, its deletion later and the battle_finished event.    *)
Finish ==
    /\ fighting /\ fighting' = FALSE
    /\ snapshot' = "over" /\ message' = TRUE /\ clearDue' = TRUE /\ finished' = TRUE
    /\ UNCHANGED <<edgeVars, socket, connected, battles, connects, overlayFaults,
                   unsettled, unmarked>>

(* clear_battle_hud when the timer fires, of the next battle's snapshot too, *)
(* or the key's expiry: no message.                                         *)
Clear ==
    /\ clearDue /\ clearDue' = FALSE /\ snapshot' = "none"
    /\ UNCHANGED <<fighting, message, finished, battles, edgeVars, socket, connected,
                   connects, overlayFaults, unsettled, unmarked>>

(* The pair is dissolved, or the telemetry stops, without a final snapshot: *)
(* nothing tells the edge.                                                  *)
DropBattle ==
    /\ OverlayFault /\ fighting /\ fighting' = FALSE /\ snapshot' = "none"
    /\ unsettled' = TRUE
    /\ UNCHANGED <<clearDue, message, finished, battles, edgeVars, socket, connected,
                   connects, unmarked>>

MessageLost ==
    /\ OverlayFault /\ message /\ message' = FALSE
    /\ UNCHANGED <<fighting, snapshot, clearDue, finished, battles, edgeVars, socket,
                   connected, connects, unsettled, unmarked>>

-----------------------------------------------------------------------------
(* The edge's pushes *)

Room == {s \in Sockets : socket[s].at \in {"initial", "ready"}}

(* getBattleCachedFast, up to the answer of Redis; the profiles take longer. *)
ReadFor(s, by) ==
    /\ Len(reads) < MaxReads
    /\ reads' = Append(reads, [by |-> by, socket |-> s, got |-> snapshot])

Read(by) == ReadFor(0, by)

(* routeHudUpdate, and pushBattleToRoom up to its read.                     *)
Hear ==
    /\ message /\ message' = FALSE /\ Read("message")
    /\ UNCHANGED <<fighting, snapshot, clearDue, finished, battles, clearTimer,
                   debounce, flushing, socket, connected, connects, overlayFaults,
                   unsettled, unmarked>>

WithoutRead(i) == SubSeq(reads, 1, i - 1) \o SubSeq(reads, i + 1, Len(reads))

(* A read is sent after a later one was.                                    *)
Overtaken(i) == unsettled \/ i # 1

Showing(s, got) == IF socket[s].alive THEN [socket[s] EXCEPT !.shown = got] ELSE socket[s]

ToRoom(got) ==
    socket' = [s \in Sockets |-> IF s \in Room THEN Showing(s, got) ELSE socket[s]]

\* MUTANT: the timer of a final snapshot is not started
PushNoTimer(i) ==
    /\ reads[i].by \in {"message", "flush"}
    /\ ToRoom(reads[i].got) /\ reads' = WithoutRead(i)
    /\ clearTimer' = (clearTimer /\ reads[i].got # "on")
    /\ flushing' = IF reads[i].by = "flush" THEN "no" ELSE flushing
    /\ unsettled' = Overtaken(i)
    /\ UNCHANGED <<battleVars, debounce, connected, connects, overlayFaults, unmarked>>

(* pushBattleToRoom: whatever was read is sent; a final snapshot starts the *)
(* timer, a battle that goes on stops it.                                   *)
Push(i) ==
    /\ reads[i].by \in {"message", "flush"}
    /\ ToRoom(reads[i].got) /\ reads' = WithoutRead(i)
    /\ clearTimer' = (reads[i].got = "over" \/ (reads[i].got = "none" /\ clearTimer))
    /\ flushing' = IF reads[i].by = "flush" THEN "no" ELSE flushing
    /\ unsettled' = Overtaken(i)
    /\ UNCHANGED <<battleVars, debounce, connected, connects, overlayFaults, unmarked>>

(* scheduleBattleClear's timer fires, and reads.                            *)
TimerFires ==
    /\ clearTimer /\ clearTimer' = FALSE /\ Read("timer")
    /\ UNCHANGED <<battleVars, debounce, flushing, socket, connected, connects,
                   overlayFaults, unsettled, unmarked>>

(* Still final: sent again, and the timer started again.  Otherwise there   *)
(* is no battle for the overlay, even if the next has begun.                *)
PushClear(i) ==
    /\ reads[i].by = "timer"
    /\ ToRoom(IF reads[i].got = "over" THEN "over" ELSE "none")
    /\ reads' = WithoutRead(i)
    /\ clearTimer' = (clearTimer \/ reads[i].got = "over")
    /\ unsettled' = Overtaken(i)
    /\ UNCHANGED <<battleVars, debounce, flushing, connected, connects,
                   overlayFaults, unmarked>>

-----------------------------------------------------------------------------
(* The refresh after battle_finished *)

(* scheduleHudRefreshAfterBattleFinished: the job is queued and the         *)
(* debounce timer starts again.                                             *)
BattleFinishedEvent ==
    /\ finished /\ finished' = FALSE /\ debounce' = TRUE
    /\ UNCHANGED <<fighting, snapshot, clearDue, message, battles, reads, clearTimer,
                   flushing, socket, connected, connects, overlayFaults, unsettled, unmarked>>

(* flushHudRefreshQueue takes the queue, unless a flush is under way: then  *)
(* the job waits for the event of another battle.                           *)
DebounceFires ==
    /\ debounce /\ debounce' = FALSE
    /\ IF flushing = "no"
       THEN flushing' = "delay" /\ UNCHANGED unsettled
       ELSE unsettled' = TRUE /\ UNCHANGED flushing
    /\ UNCHANGED <<battleVars, reads, clearTimer, socket, connected, connects,
                   overlayFaults, unmarked>>

(* After HUD_BATTLE_REFRESH_DELAY_MS: repushBattleHudForPlayers, for a      *)
(* player whose overlay listens (countHudPushListeners).                    *)
FlushBattle ==
    /\ flushing = "delay"
    /\ IF \E s \in Sockets : socket[s].at \in {"marked", "initial", "ready"}
       THEN flushing' = "push" /\ Read("flush") /\ UNCHANGED unsettled
       ELSE flushing' = "no" /\ unsettled' = (unsettled \/ reads # <<>>) /\ UNCHANGED reads
    /\ UNCHANGED <<battleVars, clearTimer, debounce, socket, connected,
                   connects, overlayFaults, unmarked>>

-----------------------------------------------------------------------------
(* Sockets *)

(* continueHudWsUpgrade: the hub accepts the client and connects to the     *)
(* edge, whose attachHudWs accepts the hub; an edge that cannot be reached  *)
(* closes the client.                                                       *)
Connect(s) ==
    /\ s = connects + 1 /\ connects' = s
    /\ socket' = [socket EXCEPT ![s] = [Closed EXCEPT !.at = "opening", !.alive = TRUE]]
    /\ UNCHANGED <<battleVars, edgeVars, connected, overlayFaults, unsettled, unmarked>>

Unreachable(s) ==
    /\ OverlayFault /\ socket[s].at = "opening"
    /\ socket' = [socket EXCEPT ![s] = Closed]
    /\ UNCHANGED <<battleVars, edgeVars, connected, connects, unsettled, unmarked>>

(* markHudConnConnected, then registerHudPushConnection.                    *)
Mark(s) ==
    /\ socket[s].at = "opening" /\ connected' = TRUE
    /\ socket' = [socket EXCEPT ![s].at = "marked"]
    /\ UNCHANGED <<battleVars, edgeVars, connects, overlayFaults, unsettled, unmarked>>

(* refreshBattleRoomSubscription subscribes the socket, and                 *)
(* sendInitialBattleSnapshot reads for it.                                  *)
Subscribe(s) ==
    /\ socket[s].at = "marked" /\ ReadFor(s, "initial")
    /\ socket' = [socket EXCEPT ![s].at = "initial"]
    /\ UNCHANGED <<battleVars, clearTimer, debounce, flushing, connected,
                   connects, overlayFaults, unsettled, unmarked>>

(* No battle is not sent.  Only now does the handler listen for the close.  *)
PushInitial(i) ==
    /\ reads[i].by = "initial"
    /\ LET s   == reads[i].socket
           got == reads[i].got
       IN  /\ socket' = [socket EXCEPT ![s] =
                [(IF got = "none" THEN socket[s] ELSE Showing(s, got)) EXCEPT !.at = "ready"]]
           /\ clearTimer' = (clearTimer \/ got = "over")
    /\ reads' = WithoutRead(i) /\ unsettled' = Overtaken(i)
    /\ UNCHANGED <<battleVars, debounce, flushing, connected, connects,
                   overlayFaults, unmarked>>

\* MUTANT: the keepalive is not stopped, which renews the mark
CloseKeepsMark(s) ==
    /\ socket[s].at = "ready" /\ socket[s].alive
    /\ socket' = [socket EXCEPT ![s].alive = FALSE]
    /\ UNCHANGED <<battleVars, edgeVars, connects, overlayFaults, unsettled, connected, unmarked>>

(* The close handler: out of the room, the keepalive stopped, the mark      *)
(* deleted, though it is another socket's as well.                          *)
Close(s) ==
    /\ socket[s].at = "ready" /\ socket[s].alive
    /\ socket' = [socket EXCEPT ![s] = Closed]
    /\ connected' = FALSE
    /\ unmarked' = (unmarked \/ \E t \in Sockets \ {s} : socket[t].alive)
    /\ UNCHANGED <<battleVars, edgeVars, connects, overlayFaults, unsettled>>

(* The client goes before the edge's handler listens, or before the hub's   *)
(* connection is open and pipeSockets passes its close on: the socket stays *)
(* in the room and its keepalive renews the mark for ever.                  *)
CloseUnheard(s) ==
    /\ socket[s].at \in {"opening", "marked", "initial"} /\ socket[s].alive
    /\ socket' = [socket EXCEPT ![s].alive = FALSE]
    /\ unmarked' = TRUE
    /\ UNCHANGED <<battleVars, edgeVars, connected, connects, overlayFaults, unsettled>>

(* HUD_CONN_PRESENCE_TTL_SEC without a keepalive.                           *)
MarkExpires ==
    /\ connected /\ \A s \in Sockets : socket[s].at \in {"closed", "opening"}
    /\ connected' = FALSE
    /\ UNCHANGED <<battleVars, edgeVars, socket, connects, overlayFaults, unsettled, unmarked>>

(* The edge stops; messages meanwhile are lost, an event in its memory too. *)
EdgeStops ==
    /\ OverlayFault
    /\ socket' = [s \in Sockets |-> Closed] /\ message' = FALSE
    /\ reads' = <<>> /\ clearTimer' = FALSE
    /\ debounce' = FALSE /\ flushing' = "no"
    /\ UNCHANGED <<fighting, snapshot, clearDue, finished, battles, connected, connects,
                   unsettled, unmarked>>

-----------------------------------------------------------------------------
OverlayNext ==
    \/ Publish \/ Finish \/ Clear \/ DropBattle \/ MessageLost
    \/ Hear \/ TimerFires
    \/ \E i \in DOMAIN reads : Push(i) \/ PushClear(i) \/ PushInitial(i)
    \/ BattleFinishedEvent \/ DebounceFires \/ FlushBattle
    \/ \E s \in Sockets :
         \/ Connect(s) \/ Unreachable(s) \/ Mark(s) \/ Subscribe(s)
         \/ Close(s) \/ CloseUnheard(s)
    \/ MarkExpires \/ EdgeStops

OverlayTypeOK ==
    /\ fighting \in BOOLEAN /\ snapshot \in {"none", "on", "over"}
    /\ clearDue \in BOOLEAN /\ message \in BOOLEAN /\ finished \in BOOLEAN
    /\ Len(reads) <= MaxReads /\ clearTimer \in BOOLEAN
    /\ debounce \in BOOLEAN /\ flushing \in {"no", "delay", "push"}
    /\ socket \in [Sockets -> [at : {"closed", "opening", "marked", "initial", "ready"},
                               alive : BOOLEAN, shown : {"none", "on", "over"}]]
    /\ connected \in BOOLEAN
    /\ battles \in 0 .. MaxBattles /\ connects \in 0 .. MaxConnects
    /\ overlayFaults \in 0 .. MaxOverlayFaults
    /\ unsettled \in BOOLEAN /\ unmarked \in BOOLEAN

(* An open overlay ends up showing the battle that goes on, and none after  *)
(* it: the deletion of the final snapshot is not announced, but the timer   *)
(* reads until it is gone, and a message that is lost is made good by the   *)
(* next or by the push after battle_finished (pushBattleToRoom,             *)
(* scheduleBattleClear, flushHudRefreshQueue).  Unless a read is sent after *)
(* a later one, a battle ends without a final snapshot, the debounce timer  *)
(* fires during a flush, or the push after it finds no listener while reads *)
(* for one are still under way.                                             *)
OverlayShowsBattle ==
    <>[](\/ unsettled
         \/ \A s \in Sockets : (socket[s].at = "ready" /\ socket[s].alive)
                                  => socket[s].shown = snapshot)

(* The mark the telemetry's matchmaking looks at comes and goes with the    *)
(* overlay, over reconnections and crashes of the edge, thanks to its       *)
(* expiry (hudConnPresence.ts).  Unless a socket closes before its handler  *)
(* listens for that, or while another is open.                              *)
MarkFollowsOverlay == <>[](unmarked \/ (connected <=> \E s \in Sockets : socket[s].alive))
=============================================================================
