---------------------------- MODULE AgentPresence ----------------------------
(***************************************************************************)
(* One edge's presence on the hub, and the catalog of its servers          *)
(* (src/packages: ac-data-edge controlApiAgentPresence.ts; ac-data-backend *)
(* controlApi/agentPresence.ts, hostCatalog/sync.ts and the handlers of    *)
(* controlApiController.ts).                                               *)
(*                                                                         *)
(* The edge posts the list of its server folders when it starts, every     *)
(* HEARTBEAT_MS and at every phase change of a server, without waiting for *)
(* the post before.  The hub stores the list under the edge's key, which   *)
(* expires, and has Convex's catalog of servers changed by the difference  *)
(* to the list it replaced: one mutation per folder, tried once, after the *)
(* answer to the edge.  An operator may have all folders put there again.  *)
(*                                                                         *)
(* The keys and rows of two edges have nothing in common, so there is one. *)
(***************************************************************************)
EXTENDS Integers, FiniteSets

CONSTANTS
    Folders,          \* names of server folders
    Posts,            \* posts and catalog synchronisations under way at once
    MaxFolderOps,     \* bound: folders created and removed
    MaxPresenceFaults \* bound: failures, restarts and operator's calls

ASSUME AgentPresenceAssumption ==
    MaxFolderOps \in Nat /\ MaxPresenceFaults \in Nat

VARIABLES
    folders,          \* on the edge's disk
    agentUp,          \* the edge runs and reaches the hub
    post,             \* [Posts -> what is under way]
    agentDoc,         \* the presence the hub has stored, if any
    catalog,          \* Convex's servers of this edge
    folderOps, presenceFaults,
    excused           \* a reason the catalog may stay wrong has occurred

presenceVars == <<folders, agentUp, post, agentDoc, catalog, folderOps,
                  presenceFaults, excused>>

Idle == [at |-> "idle", servers |-> {}, previous |-> {}, add |-> {}, del |-> {}]

NoDoc == [stored |-> FALSE, servers |-> {}]
Doc(servers) == [stored |-> TRUE, servers |-> servers]

PresenceInit ==
    /\ folders \in SUBSET Folders /\ agentUp = TRUE
    /\ post = [p \in Posts |-> Idle]
    /\ agentDoc = NoDoc /\ catalog = {}
    /\ folderOps = 0 /\ presenceFaults = 0 /\ excused = FALSE

PresenceFault ==
    /\ presenceFaults < MaxPresenceFaults /\ presenceFaults' = presenceFaults + 1

-----------------------------------------------------------------------------
(* The edge *)

(* A folder is provisioned, or an operator deletes one.  The hub cannot see *)
(* a folder go that is in the catalog, or about to be, but in no list it    *)
(* has: the presence has expired, or only a backfill knew of the folder.    *)
ChangeFolder(f) ==
    /\ folderOps < MaxFolderOps /\ folderOps' = folderOps + 1
    /\ folders' = IF f \in folders THEN folders \ {f} ELSE folders \cup {f}
    /\ excused' = \/ excused
                  \/ /\ f \in folders \ agentDoc.servers
                     /\ f \in catalog \/ \E p \in Posts : f \in post[p].add
    /\ UNCHANGED <<agentUp, post, agentDoc, catalog, presenceFaults>>

(* sendRegister, sendHeartbeat and forceAgentHeartbeat: what is on the disk *)
(* now is sent; a directory that cannot be listed counts as empty.          *)
Post(p) ==
    /\ agentUp /\ post[p].at = "idle"
    /\ \/ /\ post' = [post EXCEPT ![p] = [Idle EXCEPT !.at = "sent", !.servers = folders]]
          /\ UNCHANGED presenceFaults
       \/ /\ PresenceFault /\ folders # {}
          /\ post' = [post EXCEPT ![p] = [Idle EXCEPT !.at = "sent"]]
    /\ UNCHANGED <<folders, agentUp, agentDoc, catalog, folderOps, excused>>

(* A post that does not get through is logged.                              *)
PostLost(p) ==
    /\ PresenceFault /\ post[p].at = "sent"
    /\ post' = [post EXCEPT ![p] = Idle]
    /\ UNCHANGED <<folders, agentUp, agentDoc, catalog, folderOps, excused>>

(* The edge stops, or is cut off, and comes back.                           *)
AgentStops ==
    /\ PresenceFault /\ agentUp /\ agentUp' = FALSE
    /\ UNCHANGED <<folders, post, agentDoc, catalog, folderOps, excused>>

AgentStarts ==
    /\ ~agentUp /\ agentUp' = TRUE
    /\ UNCHANGED <<folders, post, agentDoc, catalog, folderOps, presenceFaults, excused>>

-----------------------------------------------------------------------------
(* The hub *)

(* Another post or synchronisation of this edge is being handled.           *)
Overlapping(p) == \E q \in Posts \ {p} : post[q].at \in {"read", "sync"}

(* storeAgentPresence, up to the answer of its read.                        *)
ReadPrevious(p) ==
    /\ post[p].at = "sent"
    /\ post' = [post EXCEPT ![p] = [@ EXCEPT !.at = "read", !.previous = agentDoc.servers]]
    /\ excused' = (excused \/ Overlapping(p))
    /\ UNCHANGED <<folders, agentUp, agentDoc, catalog, folderOps, presenceFaults>>

(* planServerPresenceSync: with nothing known before, every folder is new.  *)
Planned(previous, current) ==
    LET plan == [Idle EXCEPT !.add = current \ previous, !.del = previous \ current]
    IN  IF plan.add \cup plan.del = {} THEN Idle ELSE [plan EXCEPT !.at = "sync"]

(* The rest of storeAgentPresence, the answer, and the plan of              *)
(* syncHostCatalogServersFromPresence.                                      *)
Store(p) ==
    /\ post[p].at = "read"
    /\ agentDoc' = Doc(post[p].servers)
    /\ post' = [post EXCEPT ![p] = Planned(post[p].previous, post[p].servers)]
    /\ UNCHANGED <<folders, agentUp, catalog, folderOps, presenceFaults, excused>>

(* postHostCatalogSyncServersHandler and backfillHostCatalogServers: the    *)
(* folders of the request, which a script lists on the edge, or those known *)
(* are put into the catalog and none is deleted.                            *)
Backfill(p) ==
    /\ PresenceFault /\ post[p].at = "idle"
    /\ \E current \in {folders, agentDoc.servers} \ {{}} :
         post' = [post EXCEPT ![p] = [Idle EXCEPT !.at = "sync", !.add = current]]
    /\ excused' = (excused \/ Overlapping(p))
    /\ UNCHANGED <<folders, agentUp, agentDoc, catalog, folderOps>>

Without(entry, f) ==
    LET rest == [entry EXCEPT !.add = @ \ {f}, !.del = @ \ {f}]
    IN  IF rest.add \cup rest.del = {} THEN Idle ELSE rest

\* MUTANT: a folder that is gone stays in the catalog
MutateUpserts(p) ==
    /\ post[p].at = "sync"
    /\ \E f \in post[p].add \cup post[p].del :
         /\ f \in post[p].add \/ post[p].add = {}
         /\ catalog' = IF f \in post[p].add THEN catalog \cup {f} ELSE catalog
         /\ post' = [post EXCEPT ![p] = Without(@, f)]
    /\ UNCHANGED <<folders, agentUp, agentDoc, folderOps, presenceFaults, excused>>

(* syncHostCatalogServersFromPresence: the next mutation, deletions last.   *)
Mutate(p) ==
    /\ post[p].at = "sync"
    /\ \E f \in post[p].add \cup post[p].del :
         /\ f \in post[p].add \/ post[p].add = {}
         /\ catalog' = IF f \in post[p].add THEN catalog \cup {f} ELSE catalog \ {f}
         /\ post' = [post EXCEPT ![p] = Without(@, f)]
    /\ UNCHANGED <<folders, agentUp, agentDoc, folderOps, presenceFaults, excused>>

(* A mutation fails: logged, and on to the next.                            *)
MutationFails(p) ==
    /\ PresenceFault /\ post[p].at = "sync"
    /\ \E f \in post[p].add \cup post[p].del :
         /\ f \in post[p].add \/ post[p].add = {}
         /\ post' = [post EXCEPT ![p] = Without(@, f)]
    /\ excused' = TRUE
    /\ UNCHANGED <<folders, agentUp, agentDoc, catalog, folderOps>>

(* AGENT_PRESENCE_TTL_SEC without a heartbeat, several of which fit in.     *)
PresenceExpires ==
    /\ ~agentUp /\ agentDoc.stored /\ agentDoc' = NoDoc
    /\ excused' = (excused \/ ~(agentDoc.servers \subseteq folders))
    /\ UNCHANGED <<folders, agentUp, post, catalog, folderOps, presenceFaults>>

(* The hub restarts: what it was doing is gone.                             *)
HubRestarts ==
    /\ PresenceFault
    /\ excused' = (excused \/ \E p \in Posts : post[p].at = "sync")
    /\ post' = [p \in Posts |-> Idle]
    /\ UNCHANGED <<folders, agentUp, agentDoc, catalog, folderOps>>

-----------------------------------------------------------------------------
PresenceNext ==
    \/ AgentStops \/ AgentStarts \/ PresenceExpires \/ HubRestarts
    \/ \E f \in Folders : ChangeFolder(f)
    \/ \E p \in Posts :
         \/ Post(p) \/ PostLost(p) \/ ReadPrevious(p) \/ Store(p)
         \/ Backfill(p) \/ Mutate(p) \/ MutationFails(p)

PresenceTypeOK ==
    /\ folders \subseteq Folders /\ agentUp \in BOOLEAN
    /\ post \in [Posts -> [at : {"idle", "sent", "read", "sync"},
                           servers : SUBSET Folders, previous : SUBSET Folders,
                           add : SUBSET Folders, del : SUBSET Folders]]
    /\ agentDoc \in [stored : BOOLEAN, servers : SUBSET Folders] /\ catalog \subseteq Folders
    /\ folderOps \in 0 .. MaxFolderOps /\ presenceFaults \in 0 .. MaxPresenceFaults
    /\ excused \in BOOLEAN

(* Only differences reach Convex, each once.  That is enough for the        *)
(* catalog to end up with the edge's folders as long as no mutation fails   *)
(* or is cut off, the posts of the edge are handled one after the other, and *)
(* no folder goes that the hub has not been told of; a lost post, a         *)
(* presence that expired, a list that could not be read and a backfill of   *)
(* what was known do no harm then.                                          *)
CatalogFollowsEdge == <>[](excused \/ catalog = folders)
=============================================================================
