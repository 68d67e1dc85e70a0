----------------------------- MODULE ServerPool -----------------------------
(***************************************************************************)
(* The idle shutdown of one game server                                    *)
(* (src/packages/ac-data-edge/src: services/serverPool.ts,                 *)
(* services/eventHandlers/serverStatus.ts, controller/controller.ts;       *)
(* src/telemetry-data: main.py, core/ini_config.py).                       *)
(*                                                                         *)
(* The telemetry reports who is on the server when that changes and once a *)
(* heartbeat while somebody is, under the name it read from the server's   *)
(* ini at the last new session.  The edge turns the name into a folder by  *)
(* a map it rebuilds from the ini files when an answer is wanted and the   *)
(* map is old, and remembers when the folder last had drivers.  A timer    *)
(* stops a server nobody was reported on for IdleShutdown heartbeats.      *)
(*                                                                         *)
(* Servers are alike, names differ, and a status of another server can only *)
(* keep this one running, so there is one.  A unit of time is a heartbeat   *)
(* (300 s); timer (60 s) and map (60 s) are faster.                         *)
(***************************************************************************)
EXTENDS Integers

CONSTANTS
    DisplayNames,     \* names the server may be given
    IdleShutdown,     \* SERVER_POOL_IDLE_SHUTDOWN_MINUTES, in heartbeats
    MaxServerOps      \* bound: starts, stops and renamings

ASSUME ServerPoolAssumption ==
    IdleShutdown \in Nat \ {0} /\ MaxServerOps \in Nat

VARIABLES
    iniName,          \* NAME of server_cfg.ini
    statusName,       \* the telemetry's config_server_name
    mapName,          \* the name nameToFolder has for the folder
    mapFresh,         \* built in this heartbeat
    running,          \* the folder is in activeServers
    aboard,           \* drivers are on the server
    told,             \* the heartbeat's status has been handled
    lastActivity,     \* age of lastActivityByFolder's entry, or Never
    boardedFor,       \* heartbeats with drivers, under the ini's name
    serverOps

poolVars == <<iniName, statusName, mapName, mapFresh, running, aboard, told,
              lastActivity, boardedFor, serverOps>>

Never == -1
Settled == 2          \* heartbeats after which boardedFor is not counted on

AtMost(n, bound) == IF n < bound THEN n ELSE bound

ServerPoolInit ==
    /\ iniName \in DisplayNames /\ statusName = iniName
    /\ mapName = iniName /\ mapFresh = FALSE
    /\ running = FALSE /\ aboard = FALSE /\ told = FALSE
    /\ lastActivity = Never /\ boardedFor = 0
    /\ serverOps = 0

ServerOp == serverOps < MaxServerOps /\ serverOps' = serverOps + 1

-----------------------------------------------------------------------------
(* The server *)

(* startServerCore, asked by whoever; the server's new session has the     *)
(* telemetry read the ini.                                                 *)
StartServer ==
    /\ ServerOp /\ ~running
    /\ running' = TRUE /\ statusName' = iniName
    /\ UNCHANGED <<iniName, mapName, mapFresh, aboard, told, lastActivity, boardedFor>>

(* stopServerCore, asked by anyone but the pool, or the process dies.       *)
StopServer ==
    /\ ServerOp /\ running
    /\ running' = FALSE /\ aboard' = FALSE /\ boardedFor' = 0
    /\ UNCHANGED <<iniName, statusName, mapName, mapFresh, told, lastActivity>>

(* The lobby form or a configuration writes another NAME.                   *)
RenameServer(name) ==
    /\ ServerOp /\ name # iniName
    /\ iniName' = name /\ boardedFor' = 0
    /\ UNCHANGED <<statusName, mapName, mapFresh, running, aboard, told,
                   lastActivity>>

NewSession ==
    /\ running /\ statusName # iniName
    /\ statusName' = iniName
    /\ UNCHANGED <<iniName, mapName, mapFresh, running, aboard, told, lastActivity,
                   boardedFor, serverOps>>

Board ==
    /\ running /\ ~aboard
    /\ aboard' = TRUE /\ told' = FALSE /\ boardedFor' = 0
    /\ UNCHANGED <<iniName, statusName, mapName, mapFresh, running, lastActivity,
                   serverOps>>

LastLeaves ==
    /\ aboard
    /\ aboard' = FALSE /\ boardedFor' = 0
    /\ UNCHANGED <<iniName, statusName, mapName, mapFresh, running, told,
                   lastActivity, serverOps>>

-----------------------------------------------------------------------------
(* The edge *)

\* MUTANT: a map once built is kept.
RebuildNameMapOnce == mapFresh' = TRUE /\ UNCHANGED mapName

(* rebuildNameMap: an old map is rebuilt, a young one kept; within one      *)
(* heartbeat it may be either.                                              *)
RebuildNameMap ==
    /\ mapFresh' = TRUE
    /\ \/ mapName' = iniName
       \/ mapFresh /\ UNCHANGED mapName

(* noteServerStatus with resolveServerFolder.                               *)
NoteServerStatus ==
    /\ running
    /\ RebuildNameMap
    /\ lastActivity' = IF aboard /\ mapName' = statusName THEN 0 ELSE lastActivity
    /\ told' = TRUE
    /\ UNCHANGED <<iniName, statusName, running, aboard, boardedFor, serverOps>>

(* idleShutdownTick for a server it has not seen drivers on.                *)
Grace ==
    /\ running /\ lastActivity = Never
    /\ lastActivity' = 0
    /\ UNCHANGED <<iniName, statusName, mapName, mapFresh, running, aboard, told,
                   boardedFor, serverOps>>

(* idleShutdownTick for one that is idle; the entry goes with the process.  *)
IdleStop ==
    /\ running /\ lastActivity >= IdleShutdown
    /\ running' = FALSE /\ aboard' = FALSE /\ boardedFor' = 0
    /\ lastActivity' = Never
    /\ UNCHANGED <<iniName, statusName, mapName, mapFresh, told, serverOps>>

(* A heartbeat passes, its status handled if drivers are aboard.            *)
Heartbeat ==
    /\ aboard => told
    /\ told' = FALSE /\ mapFresh' = FALSE
    /\ lastActivity' = IF lastActivity = Never THEN Never
                       ELSE AtMost(lastActivity + 1, IdleShutdown)
    /\ boardedFor' = IF aboard /\ statusName = iniName
                     THEN AtMost(boardedFor + 1, Settled) ELSE boardedFor
    /\ UNCHANGED <<iniName, statusName, mapName, running, aboard, serverOps>>

ServerPoolNext ==
    \/ StartServer \/ StopServer \/ NewSession \/ Board \/ LastLeaves
    \/ \E name \in DisplayNames : RenameServer(name)
    \/ NoteServerStatus \/ Grace \/ IdleStop \/ Heartbeat

ServerPoolSpec == ServerPoolInit /\ [][ServerPoolNext]_poolVars

-----------------------------------------------------------------------------
ServerPoolTypeOK ==
    /\ {iniName, statusName, mapName} \subseteq DisplayNames
    /\ {mapFresh, running, aboard, told} \subseteq BOOLEAN
    /\ lastActivity \in Never .. IdleShutdown
    /\ boardedFor \in 0 .. Settled
    /\ serverOps \in 0 .. MaxServerOps

(* A server that has had drivers on board for two heartbeats, under the    *)
(* name in its ini, is not stopped for idleness, whatever was started,     *)
(* stopped or renamed before and however old the map of names is.          *)
BusyServersStay == [][IdleStop => boardedFor < Settled]_poolVars
=============================================================================
