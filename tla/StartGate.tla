----------------------------- MODULE StartGate -----------------------------
(***************************************************************************)
(* The start of one game server and the mods it needs                      *)
(* (src/packages/ac-data-edge/src/services: modAgent/startGate.ts,         *)
(* serverLifecycle.ts, controlApiAgentPresence.ts;                         *)
(* src/packages/ac-data-backend/src: services/mods/serverModRequirements.ts,*)
(* controller/modAgentController.ts, controller/modController.ts;          *)
(* src/packages/ac-data-backend/public/js/panels/servers.js).              *)
(*                                                                         *)
(* Before it starts the server an edge tells the hub what the server needs *)
(* and waits until what the hub answers is in its content folder.  The hub *)
(* rewrites the server's rows in server_mod_requirements and then reads    *)
(* them, a statement at a time, for every caller: a start with the         *)
(* server's own ini, a start with the overrides of a configuration, and    *)
(* the panel each time the dialog of the server is opened.  The same rows, *)
(* and the edge's heartbeats, decide whether a mod may be removed.         *)
(*                                                                         *)
(* Jobs are what SyncJobs models in detail; here they end well or badly.   *)
(* MOD_AGENT_ENABLED is true.                                              *)
(***************************************************************************)
EXTENDS Integers, FiniteSets

CONSTANTS
    Content,         \* cars and tracks
    Catalogued,      \* those that have an artifact in the hub's catalog
    Refused,         \* of these, those distributeArtifact refuses: S3 or peer pull is off,
                     \* or there is no validated s3Key
    EdgeOwned,       \* ... and those it copies from an edge that has them READY, if one has,
                     \* or refuses in words isUnrecoverableModBlocker does not know
    Lists,           \* the content a server's ini, form or configuration can name
    Keys,            \* keys of ensureInFlight: a start with the ini, with overrides
    MaxGateOps,      \* bound: starts, stops, dialogs, removals
    MaxGateFaults    \* bound: failed calls and jobs, folders deleted, old presence

ASSUME StartGateAssumption ==
    /\ Catalogued \subseteq Content /\ Lists \subseteq SUBSET Content
    /\ "panel" \notin Keys
    /\ Refused \subseteq Catalogued /\ EdgeOwned \subseteq Catalogued \ Refused
    /\ MaxGateOps \in Nat /\ MaxGateFaults \in Nat

VARIABLES
    present,         \* what CONTENT_PATH holds
    ready,           \* what the hub shows READY for the edge
    required,        \* the server's rows in server_mod_requirements
    queued,          \* content with an install job
    removing,        \* content with a removal under way
    refresh,         \* the hub's handlers, by who called
    gate,            \* ensureModsReadyForServerStart, by key of ensureInFlight
    running, needs,  \* the server's process and the content it uses
    phase,           \* the edge's lifecycle of the server, coarse
    gateOps, gateFaults

gateVars == <<present, ready, required, queued, removing, refresh, gate, running,
              needs, phase, gateOps, gateFaults>>

world == <<present, ready, queued, removing>>
server == <<running, needs, phase>>

Callers == Keys \cup {"panel"}

NoRefresh == [at |-> "none", left |-> {}, install |-> FALSE, items |-> {},
              unknown |-> {}, errors |-> {}, fatal |-> {}, crossed |-> FALSE]

NoGate == [at |-> "idle", wants |-> {}, items |-> {},
           unknown |-> {}, fatal |-> {}, crossed |-> FALSE]

GateInit ==
    /\ present \in SUBSET Content /\ ready = present
    /\ required = {} /\ queued = {} /\ removing = {}
    /\ refresh = [c \in Callers |-> NoRefresh]
    /\ gate = [g \in Keys |-> NoGate]
    /\ running = FALSE /\ needs = {}
    /\ phase = "none"
    /\ gateOps = 0 /\ gateFaults = 0

GateOp == gateOps < MaxGateOps /\ gateOps' = gateOps + 1 /\ UNCHANGED gateFaults
GateFault == gateFaults < MaxGateFaults /\ gateFaults' = gateFaults + 1 /\ UNCHANGED gateOps
Goes == UNCHANGED <<gateOps, gateFaults>>

-----------------------------------------------------------------------------
(* The hub's handlers *)

Rewriting == {c \in Callers : refresh[c].at \in {"insert", "sync", "reread"}}

Asked(wants, install) == [NoRefresh EXCEPT !.at = "delete", !.left = wants, !.install = install]

(* Opening the dialog of the server, or saving it: the values of its form.  *)
PanelRefreshes(wants) ==
    /\ GateOp /\ refresh["panel"].at = "none"
    /\ refresh' = [refresh EXCEPT !["panel"] = Asked(wants, FALSE)]
    /\ UNCHANGED <<world, server, required, gate>>

Missing == required \ ready

(* syncMissingModsForServer: what is not READY gets a job or an error.  The *)
(* errors of Fatal are those isUnrecoverableModBlocker knows by their text; *)
(* a copy no edge has READY at the moment is another one.                   *)
Fatal == Missing \ (Catalogued \ Refused)

Distributed(errors) ==
    /\ Fatal \subseteq errors /\ errors \subseteq Fatal \cup (Missing \cap EdgeOwned)
    /\ queued' = queued \cup (Missing \ errors)

PanelSyncs ==
    /\ GateOp
    /\ \E errors \in SUBSET Missing : Distributed(errors)
    /\ UNCHANGED <<present, ready, removing, server, required, refresh, gate>>

(* The DELETE of refreshServerModRequirements.  A refresh and one it falls  *)
(* into cross: from then on their rows are the other's as well.             *)
DeleteRows(c) ==
    /\ refresh[c].at = "delete" /\ Goes
    /\ required' = {}
    /\ refresh' = [d \in Callers |->
          IF d = c THEN [refresh[c] EXCEPT !.at = "insert", !.crossed = Rewriting # {}]
          ELSE IF d \in Rewriting THEN [refresh[d] EXCEPT !.crossed = TRUE] ELSE refresh[d]]
    /\ UNCHANGED <<world, server, gate>>

Failed(c) == [NoRefresh EXCEPT !.at = IF c = "panel" THEN "none" ELSE "failed"]

(* One INSERT; the primary key refuses a row another refresh inserted.      *)
InsertRow(c) ==
    /\ refresh[c].at = "insert" /\ Goes
    /\ \E slug \in refresh[c].left :
          IF slug \in required
          THEN /\ refresh' = [refresh EXCEPT ![c] = Failed(c)]
               /\ UNCHANGED required
          ELSE /\ refresh' = [refresh EXCEPT ![c].left = @ \ {slug}]
               /\ required' = required \cup {slug}
    /\ UNCHANGED <<world, server, gate>>

Read(r) == [r EXCEPT !.at = "done", !.items = required,
                     !.unknown = required \ (Catalogued \cup ready)]

(* getServerModReadiness, and the end of the handler unless it may install: *)
(* then it reads again, after syncMissingModsForServer.                     *)
ReadReadiness(c) ==
    /\ refresh[c].at = "insert" /\ refresh[c].left = {} /\ Goes
    /\ refresh' = [refresh EXCEPT ![c] =
          IF c = "panel" THEN NoRefresh
          ELSE IF @.install /\ Missing # {} THEN [@ EXCEPT !.at = "sync"] ELSE Read(@)]
    /\ UNCHANGED <<world, server, required, gate>>

SyncMissing(c) ==
    /\ refresh[c].at = "sync" /\ Goes
    /\ \E errors \in SUBSET Missing :
          /\ Distributed(errors)
          /\ refresh' = [refresh EXCEPT ![c] =
                [@ EXCEPT !.at = "reread", !.errors = errors, !.fatal = Fatal]]
    /\ UNCHANGED <<present, ready, removing, server, required, gate>>

ReadAgain(c) ==
    /\ refresh[c].at = "reread" /\ Goes
    /\ refresh' = [refresh EXCEPT ![c] = Read(@)]
    /\ UNCHANGED <<world, server, required, gate>>

(* The hub cannot be reached or its database does not answer.               *)
RefreshFails(c) ==
    /\ refresh[c].at = "delete" /\ GateFault
    /\ refresh' = [refresh EXCEPT ![c] = Failed(c)]
    /\ UNCHANGED <<world, server, required, gate>>

-----------------------------------------------------------------------------
(* The edge *)

(* A start or restart nobody shares: PREPARING, and the first refresh.      *)
AskStart(g, wants) ==
    /\ GateOp
    /\ gate[g].at = "idle"
    /\ gate' = [gate EXCEPT ![g] = [NoGate EXCEPT !.at = "asking", !.wants = wants]]
    /\ refresh' = [refresh EXCEPT ![g] = Asked(wants, TRUE)]
    /\ phase' = "starting"
    /\ UNCHANGED <<world, required, running, needs>>

(* A poll, with a new installation request now and then.                    *)
PollHub(g) ==
    /\ gate[g].at = "waiting" /\ Goes
    /\ gate' = [gate EXCEPT ![g].at = "polling"]
    /\ \E resync \in BOOLEAN :
          refresh' = [refresh EXCEPT ![g] = Asked(gate[g].wants, resync)]
    /\ UNCHANGED <<world, server, required>>

(* What the gate goes by after an answer or a failed call: a first call     *)
(* that fails leaves it the folder, a later one what it knew; errors stand   *)
(* until an answer has others.                                              *)
Known(g) ==
    LET r == refresh[g] IN
    IF r.at = "failed"
    THEN IF gate[g].at = "asking" THEN [gate[g] EXCEPT !.items = gate[g].wants] ELSE gate[g]
    ELSE [gate[g] EXCEPT !.items = r.items, !.unknown = r.unknown, !.crossed = r.crossed,
                         !.fatal = IF r.errors # {} THEN r.fatal ELSE @]

\* MUTANT: content the hub shows READY is taken as there.
UnresolvedOnHub(k) == k.items \ (present \cup ready)

(* unresolvedModItems *)
Unresolved(k) == k.items \ present

(* isUnrecoverableModBlocker *)
Blockers(k) == Unresolved(k) \cap (k.unknown \cup k.fatal)

HubAnswered(g) == gate[g].at \in {"asking", "polling"} /\ refresh[g].at \in {"done", "failed"}

JudgedAs(g, record) ==
    /\ gate' = [gate EXCEPT ![g] = record]
    /\ refresh' = [refresh EXCEPT ![g] = NoRefresh]
    /\ Goes

(* startServerWithMods and restartServerWithMods once the gate is open; it  *)
(* has not mattered before which.  startServerCore refuses a server that    *)
(* runs, and that is a FAILED start.                                        *)
GateOpens(g) ==
    /\ HubAnswered(g) /\ Unresolved(Known(g)) = {}
    /\ JudgedAs(g, NoGate)
    /\ \/ running /\ phase' = "error" /\ UNCHANGED <<running, needs>>
       \/ phase' = "live" /\ running' = TRUE /\ needs' = gate[g].wants
    /\ UNCHANGED <<world, required>>

GateRefuses(g) ==
    /\ HubAnswered(g) /\ Unresolved(Known(g)) # {} /\ Blockers(Known(g)) # {}
    /\ JudgedAs(g, NoGate)
    /\ phase' = "error"
    /\ UNCHANGED <<world, required, running, needs>>

GateWaits(g) ==
    /\ HubAnswered(g) /\ Unresolved(Known(g)) # {} /\ Blockers(Known(g)) = {}
    /\ JudgedAs(g, [Known(g) EXCEPT !.at = "waiting"])
    /\ phase' = "starting"
    /\ UNCHANGED <<world, required, running, needs>>

(* MOD_START_INSTALL_TIMEOUT_MS *)
GateExpires(g) ==
    /\ gate[g].at = "waiting" /\ Goes
    /\ gate' = [gate EXCEPT ![g] = NoGate]
    /\ phase' = "error"
    /\ UNCHANGED <<world, required, refresh, running, needs>>

(* Stopped from the panel, or by a configuration, which clears the phase.   *)
StopsServer ==
    /\ GateOp /\ running
    /\ running' = FALSE /\ needs' = {}
    /\ phase' \in {phase, "none"}
    /\ UNCHANGED <<world, required, refresh, gate>>

InstallEnds(slug) ==
    /\ slug \in queued /\ Goes
    /\ queued' = queued \ {slug}
    /\ present' = present \cup {slug} /\ ready' = ready \cup {slug}
    /\ UNCHANGED <<removing, server, required, refresh, gate>>

InstallBreaks(slug) ==
    /\ slug \in queued /\ GateFault
    /\ queued' = queued \ {slug}
    /\ UNCHANGED <<present, ready, removing, server, required, refresh, gate>>

(* modEdgeDeleteContentHandler: the edge scans its folder again, but the     *)
(* row a job left stays READY.                                              *)
PanelDeletesContent(slug) ==
    /\ GateFault /\ slug \in present
    /\ present' = present \ {slug}
    /\ ready' = ready \ ({slug} \ Catalogued)
    /\ UNCHANGED <<queued, removing, server, required, refresh, gate>>

-----------------------------------------------------------------------------
(* Removal of a package *)

(* listAgentPresenceServers: the phase, if there is one.                    *)
Status == IF phase # "none" THEN phase ELSE IF running THEN "live" ELSE "idle"

(* listPackageUsage and defaultServerPresenceLookup *)
Blocking(slug) == slug \in required /\ Status \notin {"idle", "error"}

(* removePackageFromEdges or forceDeleteModPackage, past its check, with    *)
(* the edge's last heartbeat in the hub.                                    *)
AskRemoval(slug) ==
    /\ GateOp /\ slug \in Catalogued \ removing /\ ~Blocking(slug)
    /\ removing' = removing \cup {slug}
    /\ UNCHANGED <<present, ready, queued, server, required, refresh, gate>>

(* The hub still holds an older status of the server.                       *)
AskRemovalUnaware(slug) ==
    /\ gateOps < MaxGateOps /\ gateOps' = gateOps + 1
    /\ gateFaults < MaxGateFaults /\ gateFaults' = gateFaults + 1
    /\ slug \in Catalogued \ removing /\ Blocking(slug)
    /\ removing' = removing \cup {slug}
    /\ UNCHANGED <<present, ready, queued, server, required, refresh, gate>>

RemovalEnds(slug) ==
    /\ slug \in removing /\ Goes
    /\ removing' = removing \ {slug}
    /\ present' = present \ {slug} /\ ready' = ready \ {slug}
    /\ UNCHANGED <<queued, server, required, refresh, gate>>

GateNext ==
    \/ \E wants \in Lists \ {{}} :
          \/ PanelRefreshes(wants)
          \/ \E g \in Keys : AskStart(g, wants)
    \/ PanelSyncs
    \/ \E c \in Callers : \/ DeleteRows(c) \/ InsertRow(c) \/ ReadReadiness(c)
                          \/ SyncMissing(c) \/ ReadAgain(c) \/ RefreshFails(c)
    \/ \E g \in Keys : \/ PollHub(g) \/ GateOpens(g) \/ GateRefuses(g)
                        \/ GateWaits(g) \/ GateExpires(g)
    \/ StopsServer
    \/ \E slug \in Content : \/ InstallEnds(slug) \/ InstallBreaks(slug)
                             \/ PanelDeletesContent(slug)
                             \/ AskRemoval(slug) \/ AskRemovalUnaware(slug) \/ RemovalEnds(slug)

GateSpec == GateInit /\ [][GateNext]_gateVars

-----------------------------------------------------------------------------
GateTypeOK ==
    /\ {present, ready, required, queued, removing, needs} \subseteq SUBSET Content
    /\ \A c \in Callers :
          /\ refresh[c].at \in {"none", "delete", "insert", "sync", "reread", "done", "failed"}
          /\ refresh[c].items \cup refresh[c].left \subseteq Content
    /\ \A g \in Keys :
          gate[g].at \in {"idle", "asking", "waiting", "polling"}
    /\ running \in BOOLEAN
    /\ phase \in {"none", "starting", "live", "error"}

(* A start goes ahead only with all it asked for in the folder, and is       *)
(* refused only for content it asked for that is not there and that the hub *)
(* has no artifact of or may not distribute - never because no edge has a   *)
(* copy READY just now - whatever other starts and dialogs do meanwhile,    *)
(* which calls fail and what the hub believes of the edge, unless another   *)
(* refresh of the same server crossed the one it goes by.                   *)
JudgedByOwnContent ==
    [][\A g \in Keys :
          ~Known(g).crossed =>
              /\ GateOpens(g) => gate[g].wants \subseteq present
              /\ GateRefuses(g) =>
                     ~(gate[g].wants \subseteq present \cup (Catalogued \ Refused))]_gateVars

(* serverModRequirements.ts on the presence it goes by: "starting = mid-boot *)
(* (treat as live for purge safety); error/FAILED = not running".  So, with *)
(* the server's rows and its last status in place, no content a running     *)
(* server uses is given up for removal.                                     *)
PurgeSparesRunning ==
    [][\A slug \in Content :
          (slug \in (removing' \ removing) \cap required /\ gateFaults' = gateFaults)
              => ~(running /\ slug \in needs)]_gateVars
=============================================================================
