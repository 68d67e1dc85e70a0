------------------------------ MODULE SyncJobs ------------------------------
(***************************************************************************)
(* The mod jobs of the hub and the agent that runs them on one edge        *)
(* (src/packages/ac-data-backend/src/services/mods/orchestrator.ts,        *)
(* catalogRepo.ts, serverModRequirements.ts, gcService.ts, modRedisLocks.ts*)
(* and src/packages/ac-data-edge/src/services/modAgent).                   *)
(*                                                                         *)
(* The hub keeps in its database, for each artifact, the jobs (sync_jobs), *)
(* the status shown for the edge (edge_artifact_inventory) and what is     *)
(* wanted there (edge_artifact_assignments), and in Redis one lock per     *)
(* artifact being installed.  Every handler is a sequence of statements    *)
(* that commit one by one, so handlers of the panel, of a server's start   *)
(* gate and of the agent interleave between statements; only the body of   *)
(* acquireJobForEdge is one transaction.  The agent is one loop: it asks   *)
(* for a job, runs it on the content folder, reports, asks again.          *)
(*                                                                         *)
(* A package has one artifact here, and both have the same name.  The      *)
(* agent's calls reach the hub one after another: a call whose client gave *)
(* up or died ends before the next one starts.                             *)
(***************************************************************************)
EXTENDS Integers, FiniteSets

CONSTANTS
    Artifacts,
    EdgeFolder,      \* those whose storage key names the folder of an edge
    InBucket,        \* those canPullFromS3 allows: uploaded or promoted, and MOD_S3_PULL_ENABLED
    OnPeer,          \* those READY on another edge
    PeerPull,        \* MOD_PEER_PULL_ENABLED
    Required,        \* those a server of the edge asks for at its start
    MAX_ATTEMPTS,    \* MOD_SYNC_MAX_ATTEMPTS
    RunCap,          \* MOD_PEER_PULL_MAX_CONCURRENT
    MaxOps,          \* bound: requests of the panel
    MaxFaults,       \* bound: crashes, lost calls, failed downloads, ...
    MaxJobs          \* bound: active jobs and the agent's, together

ASSUME SyncJobsAssumption ==
    /\ Artifacts # {} /\ {EdgeFolder, InBucket, OnPeer} \subseteq SUBSET Artifacts
    /\ PeerPull \in BOOLEAN /\ Required \subseteq Artifacts
    /\ MAX_ATTEMPTS \in Nat \ {0} /\ RunCap \in Nat
    /\ MaxOps \in Nat /\ MaxFaults \in Nat /\ MaxJobs \in Nat \ {0}

VARIABLES
    jobs,        \* sync_jobs; ended ones nobody will report on are forgotten
    inventory,   \* edge_artifact_inventory.status, "none" without a row
    assigned,    \* edge_artifact_assignments.desired_state, "none" without a row
    catalog,     \* artifacts in mod_artifacts
    locks,       \* artifacts whose mod:lock:<edge>:<sha256> key is set
    disk,        \* the content folder: "none", "part" or "whole"
    purged,      \* folders last removed by hand, outside any job
    agent,       \* the loop of the edge: [at, job]
    call,        \* the hub's handler of the agent's current call
    progress,    \* the handler of a progress report: [at, id]
    handler,     \* the hub's handlers for the panel and for the start gate
    ops, faults

vars == <<jobs, inventory, assigned, catalog, locks, disk, purged, agent,
          call, progress, handler, ops, faults>>

hubTables == <<jobs, inventory, assigned, catalog, locks>>

Operations == {"install", "remove", "verify"}

Status == {"none", "PENDING", "SYNCING", "READY", "ERROR"}

Active == {"queued", "running"}

Callers == {"panel", "gate"}

HandlerSteps == {"none", "assign", "enqueue", "pending", "absent", "cancel", "purge", "delete"}

Requests == {"none", "distribute", "ensure", "resync", "verify", "remove", "delete"}

\* The job a handler hands to the agent; NoJob stands for its absence.
Handed == [id : 0..MaxJobs, art : Artifacts, op : Operations \cup {"none"}, local : BOOLEAN]

NoJob == [id |-> 0, art |-> CHOOSE a \in Artifacts : TRUE, op |-> "none", local |-> FALSE]

NoCall == [at |-> "none", rows |-> {}, row |-> 0]

NoRequest == [at |-> "none", op |-> "none", art |-> NoJob.art]

(***************************************************************************)
(* The job table.  born is a job's place in the order of created_at.       *)
(***************************************************************************)
Jobs == [id : 1..MaxJobs, art : Artifacts, op : Operations,
         state : Active \cup {"done", "failed", "cancelled"},
         attempt : Nat, stale : BOOLEAN, born : Nat]

ActiveOn(js, a) == \E j \in js : j.art = a /\ j.state \in Active

\* The partial unique index of sync_jobs: one active job per edge and artifact.
IndexHolds(js) ==
    \A j, k \in js :
        (j.state \in Active /\ k.state \in Active /\ j.art = k.art) => j = k

Place(js, j) == Cardinality({k \in js : k.born <= j.born})

InOrder(js) == {[j EXCEPT !.born = Place(js, j)] : j \in js}

\* Ended jobs matter only while the agent may still report on them.
Remember(js, id) == InOrder({j \in js : j.state \in Active \/ j.id = id})

Known(id) == \E j \in jobs : j.id = id

\* A statement that sets columns of the row with this id.
Requeued(id) == {IF j.id = id THEN [j EXCEPT !.state = "queued", !.stale = FALSE] ELSE j : j \in jobs}

FreshIds == {n \in 1..MaxJobs :
    /\ n \notin {agent.job.id, progress.id, call.row} \cup call.rows
    /\ ~Known(n)}

NewJob(a, op) ==
    [id |-> CHOOSE n \in FreshIds : TRUE, art |-> a, op |-> op, state |-> "queued",
     attempt |-> 0, stale |-> FALSE, born |-> Cardinality(jobs) + 1]

\* UPDATE edge_artifact_inventory SET status: nothing happens without a row.
SetStatus(inv, a, s) == IF inv[a] = "none" THEN inv ELSE [inv EXCEPT ![a] = s]

\* Some artifacts are here already, adopted from this edge or installed, and
\* among them those that have no other source.
Init ==
    /\ jobs = {}
    /\ \E here \in SUBSET Artifacts :
          /\ EdgeFolder \ (OnPeer \cup InBucket) \subseteq here
          /\ inventory = [a \in Artifacts |-> IF a \in here THEN "READY" ELSE "none"]
          /\ disk = [a \in Artifacts |-> IF a \in here THEN "whole" ELSE "none"]
    /\ assigned = [a \in Artifacts |-> "none"]
    /\ catalog = Artifacts
    /\ locks = {}
    /\ purged = {}
    /\ agent = [at |-> "idle", job |-> NoJob]
    /\ call = NoCall
    /\ progress = [at |-> "none", id |-> 0]
    /\ handler = [c \in Callers |-> NoRequest]
    /\ ops = 0
    /\ faults = 0

Fault == faults < MaxFaults /\ faults' = faults + 1

(***************************************************************************)
(* Requests of the panel and of a server's start gate.                     *)
(***************************************************************************)
FirstStatement ==
    [distribute |-> "assign", resync |-> "enqueue", verify |-> "enqueue",
     remove |-> "absent", delete |-> "cancel"]

\* modDistributeHandler, modResyncHandler, modVerifyHandler,
\* modRemoveFromEdgesHandler, modGcRunHandler, modDeletePackageHandler.  A
\* removal or deletion a live server forbids (listLivePackageUsage) is none.
PanelAsks ==
    /\ handler["panel"].at = "none"
    /\ ops < MaxOps
    /\ ops' = ops + 1
    /\ \E op \in DOMAIN FirstStatement, a \in catalog :
          handler' = [handler EXCEPT !["panel"] = [at |-> FirstStatement[op], op |-> op, art |-> a]]
    /\ UNCHANGED <<hubTables, disk, purged, agent, call, progress, faults>>

\* ensureModsOnInstance, asked for by a client of the Control API: what the
\* catalog has and is not READY is to be ensured on the edge.
ControlEnsures ==
    /\ handler["panel"].at = "none"
    /\ ops < MaxOps
    /\ ops' = ops + 1
    /\ \E a \in catalog :
          /\ inventory[a] # "READY"
          /\ handler' = [handler EXCEPT !["panel"] = [at |-> "assign", op |-> "ensure", art |-> a]]
    /\ UNCHANGED <<hubTables, disk, purged, agent, call, progress, faults>>

\* modEdgeDeleteContentHandler: the folder goes, no table of the hub changes.
PanelDeletesFolder ==
    /\ ops < MaxOps
    /\ ops' = ops + 1
    /\ \E a \in Artifacts :
          /\ disk[a] # "none"
          /\ disk' = [disk EXCEPT ![a] = "none"]
          /\ purged' = purged \cup {a}
    /\ UNCHANGED <<hubTables, agent, call, progress, handler, faults>>

\* MUTANT: an artifact that is PENDING is left to the job it is taken to have.
GateAsksNotPending(a) ==
    /\ handler["gate"].at = "none"
    /\ a \in Required \cap catalog /\ inventory[a] \notin {"READY", "PENDING"}
    /\ handler' = [handler EXCEPT !["gate"] = [at |-> "assign", op |-> "distribute", art |-> a]]
    /\ UNCHANGED <<hubTables, disk, purged, agent, call, progress, ops, faults>>

\* syncMissingModsForServer after getServerModReadiness: what is required and
\* not READY is distributed to this edge, one after another.
GateAsks(a) ==
    /\ handler["gate"].at = "none"
    /\ a \in Required \cap catalog /\ inventory[a] # "READY"
    /\ handler' = [handler EXCEPT !["gate"] = [at |-> "assign", op |-> "distribute", art |-> a]]
    /\ UNCHANGED <<hubTables, disk, purged, agent, call, progress, ops, faults>>

Goes(c, at) == handler' = [handler EXCEPT ![c].at = at]

Ends(c) == handler' = [handler EXCEPT ![c] = NoRequest]

\* findPeerEdgeWithBlob: the row of the edge that owns the folder, or else the
\* one written last; nothing when no row is READY.
Found(a) == (IF inventory[a] = "READY" THEN {"self"} ELSE {})
                \cup (IF a \in OnPeer THEN {"peer"} ELSE {})

\* copyArtifactFromEdge leaves out the edge it would copy from.
ServedBy(op) == IF op = "ensure" THEN {"self", "peer"} ELSE {"peer"}

\* What distributeArtifact and ensureArtifactOnEdge may assign, and what they
\* may refuse or skip.
Accepted(a, op) ==
    \/ a \in InBucket
    \/ PeerPull /\ a \in EdgeFolder /\ Found(a) \cap ServedBy(op) # {}

Declined(a, op) ==
    /\ a \notin InBucket
    /\ ~PeerPull \/ a \notin EdgeFolder \/ Found(a) = {} \/ ~(Found(a) \subseteq ServedBy(op))

\* They end with an error for an artifact that is gone or has no source;
\* otherwise it is assigned, in one transaction (assignArtifactToEdges).
Assign(c) ==
    LET a == handler[c].art IN
    /\ handler[c].at = "assign"
    /\ \/ /\ a \in catalog /\ Accepted(a, handler[c].op)
          /\ assigned' = [assigned EXCEPT ![a] = "present"]
          /\ inventory' = [inventory EXCEPT ![a] = "PENDING"]
          /\ Goes(c, "enqueue") /\ UNCHANGED faults
       \/ /\ a \notin catalog \/ Declined(a, handler[c].op)
          /\ Ends(c) /\ UNCHANGED <<assigned, inventory, faults>>
       \/ Fault /\ Ends(c) /\ UNCHANGED <<assigned, inventory>>
    /\ UNCHANGED <<jobs, catalog, locks, disk, purged, agent, call, progress, ops>>

JobOf(op) == CASE op = "remove" -> "remove" [] op = "verify" -> "verify" [] OTHER -> "install"

\* enqueueJob: INSERT ... ON CONFLICT DO NOTHING; an active job is reused
\* whatever its operation is.
Enqueue(c) ==
    LET a == handler[c].art IN
    /\ handler[c].at = "enqueue"
    /\ IF a \notin catalog \/ ActiveOn(jobs, a)
       THEN Ends(c) /\ UNCHANGED jobs
       ELSE /\ FreshIds # {}
            /\ jobs' = jobs \cup {NewJob(a, JobOf(handler[c].op))}
            /\ Goes(c, "pending")
    /\ UNCHANGED <<inventory, assigned, catalog, locks, disk, purged, agent,
                   call, progress, ops, faults>>

\* enqueueJob: the status that goes with the new job, a statement later.
MarkPending(c) ==
    /\ handler[c].at = "pending"
    /\ inventory' = SetStatus(inventory, handler[c].art, "PENDING")
    /\ Ends(c)
    /\ UNCHANGED <<jobs, assigned, catalog, locks, disk, purged, agent, call,
                   progress, ops, faults>>

\* removeArtifactFromEdges
Unassign(c) ==
    LET a == handler[c].art IN
    /\ handler[c].at = "absent"
    /\ assigned' = IF assigned[a] = "none" THEN assigned ELSE [assigned EXCEPT ![a] = "absent"]
    /\ Goes(c, "enqueue")
    /\ UNCHANGED <<jobs, inventory, catalog, locks, disk, purged, agent, call,
                   progress, ops, faults>>

\* forceDeleteModPackage: active installs and verifications are cancelled.
CancelJobs(c) ==
    /\ handler[c].at = "cancel"
    /\ jobs' = Remember({IF j.art = handler[c].art /\ j.op # "remove" /\ j.state \in Active
                          THEN [j EXCEPT !.state = "cancelled"] ELSE j : j \in jobs},
                        agent.job.id)
    /\ Goes(c, "purge")
    /\ UNCHANGED <<inventory, assigned, catalog, locks, disk, purged, agent,
                   call, progress, ops, faults>>

\* purgeLocalContentOnEdges: an edge that does not answer keeps its folder.
PurgeFolder(c) ==
    LET a == handler[c].art IN
    /\ handler[c].at = "purge"
    /\ \/ disk' = [disk EXCEPT ![a] = "none"] /\ purged' = purged \cup {a} /\ UNCHANGED faults
       \/ Fault /\ UNCHANGED <<disk, purged>>
    /\ Goes(c, "delete")
    /\ UNCHANGED <<hubTables, agent, call, progress, ops>>

\* DELETE FROM mod_packages: artifacts, jobs, status and assignment cascade.
DeletePackage(c) ==
    LET a == handler[c].art IN
    /\ handler[c].at = "delete"
    /\ catalog' = catalog \ {a}
    /\ jobs' = InOrder({j \in jobs : j.art # a})
    /\ inventory' = [inventory EXCEPT ![a] = "none"]
    /\ assigned' = [assigned EXCEPT ![a] = "none"]
    /\ Ends(c)
    /\ UNCHANGED <<locks, disk, purged, agent, call, progress, ops, faults>>

HandlerStep(c) ==
    \/ Assign(c) \/ Enqueue(c) \/ MarkPending(c) \/ Unassign(c)
    \/ CancelJobs(c) \/ PurgeFolder(c) \/ DeletePackage(c)

(***************************************************************************)
(* The agent's calls, on the hub.                                          *)
(***************************************************************************)
Now(at) == call' = [call EXCEPT !.at = at]

\* The agent gets the answer, unless it died meanwhile.
Answer(at, job) ==
    /\ call' = NoCall
    /\ agent' = IF agent.at = "down" THEN agent ELSE [at |-> at, job |-> job]

\* MUTANT: abandoned runs are not looked for.
PollOnly ==
    /\ agent.at = "idle" /\ call.at = "none"
    /\ agent' = [at |-> "calling", job |-> NoJob]
    /\ jobs' = Remember(jobs, 0)
    /\ call' = [NoCall EXCEPT !.at = "reclaim"]
    /\ UNCHANGED <<inventory, assigned, catalog, locks, disk, purged, progress,
                   handler, ops, faults>>

\* acquireModJob, and the first statement of reclaimStaleRunningJobs.
Poll ==
    /\ agent.at = "idle" /\ call.at = "none"
    /\ agent' = [at |-> "calling", job |-> NoJob]
    /\ jobs' = Remember(jobs, 0)
    /\ call' = [NoCall EXCEPT !.at = "reclaim",
                  !.rows = {j.id : j \in {k \in jobs : k.state = "running" /\ k.stale}}]
    /\ UNCHANGED <<inventory, assigned, catalog, locks, disk, purged, progress,
                   handler, ops, faults>>

\* One row of reclaimStaleRunningJobs: the lock is forced open and the row
\* queued again whatever became of it since it was selected; when an active
\* job of the artifact keeps it out of the index the call ends in an error.
Reclaim ==
    /\ call.at = "reclaim"
    /\ \E id \in call.rows :
         /\ locks' = locks \ {j.art : j \in {k \in jobs : k.id = id}}
         /\ IF IndexHolds(Requeued(id))
            THEN /\ jobs' = Requeued(id)
                 /\ call' = [at |-> "reclaimed", rows |-> call.rows \ {id}, row |-> id]
                 /\ UNCHANGED agent
            ELSE Answer("idle", NoJob) /\ UNCHANGED jobs
    /\ UNCHANGED <<inventory, assigned, catalog, disk, purged, progress, handler, ops, faults>>

\* ... and its status, a statement later.
ReclaimStatus ==
    /\ call.at = "reclaimed"
    /\ inventory' = [a \in Artifacts |->
          IF inventory[a] # "none" /\ \E j \in jobs : j.id = call.row /\ j.art = a
          THEN "PENDING" ELSE inventory[a]]
    /\ call' = [call EXCEPT !.at = "reclaim", !.row = 0]
    /\ UNCHANGED <<jobs, assigned, catalog, locks, disk, purged, agent,
                   progress, handler, ops, faults>>

RunningInstalls == Cardinality({j \in jobs : j.state = "running" /\ j.op = "install"})

AtCap == RunCap > 0 /\ RunningInstalls >= RunCap

\* The queued jobs whose lock acquireJobForEdge can take.
Unlocked == {j \in jobs : j.state = "queued" /\ j.art \notin locks}

Oldest(js) == CHOOSE j \in js : \A k \in js : j.born <= k.born

\* Where an install reads from when this edge does not have the content.
Remote(a) ==
    IF a \in InBucket THEN "bucket"
    ELSE IF PeerPull /\ a \in EdgeFolder \cap OnPeer THEN "peer" ELSE "none"

\* ... and with the folder of an edge, when the hub finds the content READY
\* on this very edge, there is nothing to download.
Sources(a) ==
    IF a \notin EdgeFolder THEN {Remote(a)}
    ELSE (Found(a) \cap {"self"}) \cup (IF Found(a) = {"self"} THEN {} ELSE {Remote(a)})

\* No source, or no signed address and no peer to fall back to.
MayFail(j) ==
    /\ j.op = "install"
    /\ \/ "none" \in Sources(j.art)
       \/ "bucket" \in Sources(j.art) /\ ~(PeerPull /\ j.art \in EdgeFolder \cap OnPeer)

MayRun(j, local) ==
    IF j.op = "install" THEN Sources(j.art) \cap (IF local THEN {"self"} ELSE {"bucket", "peer"}) # {}
    ELSE ~local

HandOver(j, local) == [id |-> j.id, art |-> j.art, op |-> j.op, local |-> local]

\* The job taken is running, those without a source have failed.
Acquired(bad, id) ==
    {IF j \in bad THEN [j EXCEPT !.state = "failed"]
     ELSE IF j.id = id THEN [j EXCEPT !.state = "running", !.attempt = @ + 1] ELSE j : j \in jobs}

\* The transaction of acquireJobForEdge: nothing at the cap; the oldest jobs
\* whose content cannot be had fail, each giving its lock back, and the next
\* one is taken and its status becomes SYNCING.
Acquire ==
    /\ call.at = "reclaim" /\ call.rows = {}
    /\ IF AtCap
       THEN Answer("idle", NoJob) /\ UNCHANGED <<jobs, inventory, locks, faults>>
       ELSE \E bad \in SUBSET Unlocked, local \in BOOLEAN :
            LET left == Unlocked \ bad
                taken == IF left = {} THEN NoJob ELSE HandOver(Oldest(left), local)
                unsigned == {j \in bad : "none" \notin Sources(j.art)}
            IN
            /\ \A j \in bad : MayFail(j) /\ \A k \in left : j.born < k.born
            /\ left # {} => MayRun(Oldest(left), local)
            /\ jobs' = Remember(Acquired(bad, taken.id), 0)
            /\ inventory' = [a \in Artifacts |->
                   IF inventory[a] = "none" THEN "none"
                   ELSE IF \E j \in bad : j.art = a THEN "ERROR"
                   ELSE IF left # {} /\ taken.art = a THEN "SYNCING" ELSE inventory[a]]
            /\ locks' = IF left = {} THEN locks ELSE locks \cup {taken.art}
            /\ \/ /\ Answer(IF left = {} THEN "idle" ELSE "job", taken)
                  /\ IF unsigned = {} THEN UNCHANGED faults ELSE Fault
               \/ /\ left # {} /\ unsigned = {}
                  /\ Answer("idle", NoJob) /\ Fault    \* the answer is lost
    /\ UNCHANGED <<assigned, catalog, disk, purged, progress, handler, ops>>

\* A statement of that transaction fails: ROLLBACK, but the lock taken in
\* Redis for the job stays until it expires.
AcquireRollsBack ==
    /\ call.at = "reclaim" /\ call.rows = {}
    /\ ~AtCap
    /\ Unlocked # {}
    /\ Fault
    /\ locks' = locks \cup {Oldest(Unlocked).art}
    /\ Answer("idle", NoJob)
    /\ UNCHANGED <<jobs, inventory, assigned, catalog, disk, purged, progress, handler, ops>>

Completed(id) == {IF j.id = id THEN [j EXCEPT !.state = "done", !.stale = FALSE] ELSE j : j \in jobs}

\* completeJob: the job is done whatever state it was in; an unknown job is
\* answered with success.
CompleteJob ==
    /\ call.at = "complete"
    /\ IF Known(agent.job.id)
       THEN jobs' = Completed(agent.job.id) /\ Now("done") /\ UNCHANGED agent
       ELSE Answer("idle", NoJob) /\ UNCHANGED jobs
    /\ UNCHANGED <<inventory, assigned, catalog, locks, disk, purged, progress,
                   handler, ops, faults>>

\* MUTANT: a removal completes like an install.
AfterAnyCompletion(op) == "READY"

AfterCompletion(op) == IF op = "remove" THEN "none" ELSE "READY"

\* ... its status: no row after a removal, READY otherwise.  The row of an
\* artifact deleted meanwhile cannot be inserted: the call ends in an error.
CompleteStatus ==
    LET a == agent.job.art IN
    /\ call.at = "done"
    /\ IF agent.job.op # "remove" /\ a \notin catalog
       THEN /\ Now(IF agent.at = "down" THEN "none" ELSE "fail")
            /\ UNCHANGED inventory
       ELSE /\ inventory' = [inventory EXCEPT ![a] = AfterCompletion(agent.job.op)]
            /\ Now("unlock")
    /\ UNCHANGED <<jobs, assigned, catalog, locks, disk, purged, agent,
                   progress, handler, ops, faults>>

\* releaseModLock, then the answer; the agent that does not get it reports
\* the job it completed as failed.
CompleteUnlock ==
    /\ call.at = "unlock"
    /\ locks' = locks \ {agent.job.art}
    /\ \/ Answer("idle", NoJob) /\ UNCHANGED faults
       \/ agent.at = "reporting" /\ Fault /\ Now("fail") /\ UNCHANGED agent
    /\ UNCHANGED <<jobs, inventory, assigned, catalog, disk, purged, progress, handler, ops>>

Failed(id) ==
    {IF j.id = id
     THEN [j EXCEPT !.state = IF j.attempt < MAX_ATTEMPTS THEN "queued" ELSE "failed",
                    !.stale = FALSE]
     ELSE j : j \in jobs}

\* failJob (the agent's failures are all retriable): queued again while
\* attempts remain, from whatever state; where an active job of the artifact
\* keeps it out of the index the call ends in an error.
FailJob ==
    /\ call.at = "fail"
    /\ IF Known(agent.job.id) /\ IndexHolds(Failed(agent.job.id))
       THEN jobs' = Failed(agent.job.id) /\ Now("failed") /\ UNCHANGED agent
       ELSE Answer("idle", NoJob) /\ UNCHANGED jobs
    /\ UNCHANGED <<inventory, assigned, catalog, locks, disk, purged, progress,
                   handler, ops, faults>>

\* ... its status.
FailStatus ==
    /\ call.at = "failed"
    /\ inventory' = SetStatus(inventory, agent.job.art, "ERROR")
    /\ Now("release")
    /\ UNCHANGED <<jobs, assigned, catalog, locks, disk, purged, agent,
                   progress, handler, ops, faults>>

\* ... and its lock.
FailUnlock ==
    /\ call.at = "release"
    /\ locks' = locks \ {agent.job.art}
    /\ Answer("idle", NoJob)
    /\ UNCHANGED <<jobs, inventory, assigned, catalog, disk, purged, progress,
                   handler, ops, faults>>

\* reportJobProgress: only of a running job ...
ProgressJob ==
    /\ progress.at = "sent"
    /\ progress' = IF \E j \in jobs : j.id = progress.id /\ j.state = "running"
                   THEN [progress EXCEPT !.at = "running"]
                   ELSE [at |-> "none", id |-> 0]
    /\ UNCHANGED <<hubTables, disk, purged, agent, call, handler, ops, faults>>

\* MUTANT: a report of progress writes its status whatever the status is.
WhileAnything(s) == "SYNCING"

WhileSyncing(s) == IF s = "SYNCING" THEN "SYNCING" ELSE s

\* ... and only while the status still says SYNCING.
ProgressStatus ==
    /\ progress.at = "running"
    /\ inventory' = [a \in Artifacts |->
          IF \E j \in jobs : j.id = progress.id /\ j.art = a
          THEN WhileSyncing(inventory[a]) ELSE inventory[a]]
    /\ progress' = [at |-> "none", id |-> 0]
    /\ UNCHANGED <<jobs, assigned, catalog, locks, disk, purged, agent, call,
                   handler, ops, faults>>

(***************************************************************************)
(* The agent, on the edge.                                                 *)
(***************************************************************************)
Reports(how) ==
    /\ agent' = [agent EXCEPT !.at = "reporting"]
    /\ call' = [NoCall EXCEPT !.at = how]

\* Only existence is looked at by verifyPoolSlug, for a verification and for
\* an install whose content is already on this edge.
Verify ==
    /\ agent.at = "job"
    /\ agent.job.op = "verify" \/ agent.job.local
    /\ Reports(IF disk[agent.job.art] = "none" THEN "fail" ELSE "complete")
    /\ UNCHANGED <<hubTables, disk, purged, progress, handler, ops, faults>>

\* removeFromPool
RemoveFolder ==
    /\ agent.at = "job" /\ agent.job.op = "remove"
    /\ disk' = [disk EXCEPT ![agent.job.art] = "none"]
    /\ purged' = purged \ {agent.job.art}
    /\ Reports("complete")
    /\ UNCHANGED <<hubTables, progress, handler, ops, faults>>

\* createProgressReporter: a report goes out while the download runs.
SendProgress ==
    /\ agent.at = "job" /\ agent.job.op = "install" /\ ~agent.job.local
    /\ progress.at = "none"
    /\ progress' = [at |-> "sent", id |-> agent.job.id]
    /\ UNCHANGED <<hubTables, disk, purged, agent, call, handler, ops, faults>>

\* pullAndInstallContentTree, pullAndInstallS3TarGz: downloaded to a staging
\* folder, checked against the hash and merged; the reports are waited for.
Install ==
    /\ agent.at = "job" /\ agent.job.op = "install" /\ ~agent.job.local
    /\ progress.at = "none"
    /\ disk' = [disk EXCEPT ![agent.job.art] = "whole"]
    /\ purged' = purged \ {agent.job.art}
    /\ Reports("complete")
    /\ UNCHANGED <<hubTables, progress, handler, ops, faults>>

\* The download fails or the merge does, and nobody waits for the reports.
InstallFails ==
    LET a == agent.job.art IN
    /\ agent.at = "job" /\ agent.job.op = "install" /\ ~agent.job.local
    /\ Fault
    /\ \E left \in {disk[a], "part"} : disk' = [disk EXCEPT ![a] = left]
    /\ Reports("fail")
    /\ UNCHANGED <<hubTables, purged, progress, handler, ops>>

\* The report does not reach the hub: a completion is then reported as a
\* failure, a failure is only logged.
ReportLost ==
    /\ agent.at = "reporting" /\ call.at \in {"complete", "fail"}
    /\ Fault
    /\ IF call.at = "complete" THEN Now("fail") /\ UNCHANGED agent
                               ELSE Answer("idle", NoJob)
    /\ UNCHANGED <<hubTables, disk, purged, progress, handler, ops>>

\* The agent dies; a job at work may leave its folder in part.
Crash ==
    LET a == agent.job.art IN
    /\ agent.at # "down"
    /\ Fault
    /\ agent' = [agent EXCEPT !.at = "down"]
    /\ \E left \in {disk[a]} \cup (IF agent.at = "job" /\ agent.job.op # "verify" THEN {"part"} ELSE {}) :
          disk' = [disk EXCEPT ![a] = left]
    /\ UNCHANGED <<hubTables, purged, call, progress, handler, ops>>

Restart ==
    /\ agent.at = "down" /\ call.at = "none"
    /\ agent' = [at |-> "idle", job |-> NoJob]
    /\ UNCHANGED <<hubTables, disk, purged, call, progress, handler, ops, faults>>

\* RUNNING_STALE_MS passes over a job nobody is running any more.
GoesStale ==
    /\ \E j \in jobs :
          /\ j.state = "running" /\ ~j.stale /\ j.id # agent.job.id
          /\ jobs' = (jobs \ {j}) \cup {[j EXCEPT !.stale = TRUE]}
    /\ UNCHANGED <<inventory, assigned, catalog, locks, disk, purged, agent,
                   call, progress, handler, ops, faults>>

\* A lock lives two hours (EX 7200), longer than any job that goes well.
LockExpires(a) ==
    /\ a \in locks
    /\ ~\E j \in jobs : j.art = a /\ j.state = "running"
    /\ locks' = locks \ {a}
    /\ UNCHANGED <<jobs, inventory, assigned, catalog, disk, purged, agent,
                   call, progress, handler, ops, faults>>

CallStep ==
    \/ Reclaim \/ ReclaimStatus \/ Acquire \/ CompleteJob \/ CompleteStatus
    \/ CompleteUnlock \/ FailJob \/ FailStatus \/ FailUnlock

ProgressStep == ProgressJob \/ ProgressStatus

Next ==
    \/ ControlEnsures \/ PanelAsks \/ PanelDeletesFolder
    \/ \E a \in Artifacts : GateAsks(a) \/ LockExpires(a)
    \/ \E c \in Callers : HandlerStep(c)
    \/ Poll \/ CallStep \/ AcquireRollsBack \/ ProgressStep
    \/ Verify \/ RemoveFolder \/ SendProgress \/ Install \/ InstallFails
    \/ ReportLost \/ Crash \/ Restart \/ GoesStale

\* The hub answers, the agent's loop runs on its interval and is restarted
\* by its supervisor, time passes, a download reports at most once per percent
\* and so ends, and the start gate asks again for everything its server requires
\* that is not READY, in turn.
Fairness ==
    /\ WF_vars(Poll) /\ WF_vars(CallStep) /\ WF_vars(ProgressStep)
    /\ \A c \in Callers : WF_vars(HandlerStep(c))
    /\ WF_vars(Verify) /\ WF_vars(RemoveFolder) /\ SF_vars(Install) /\ WF_vars(Restart)
    /\ WF_vars(GoesStale)
    /\ \A a \in Artifacts : SF_vars(GateAsks(a)) /\ WF_vars(LockExpires(a))

Spec == Init /\ [][Next]_vars /\ Fairness

(***************************************************************************)
(* What must hold.                                                         *)
(***************************************************************************)
TypeOK ==
    /\ jobs \in SUBSET Jobs
    /\ inventory \in [Artifacts -> Status]
    /\ assigned \in [Artifacts -> {"none", "present", "absent"}]
    /\ catalog \subseteq Artifacts /\ locks \subseteq Artifacts /\ purged \subseteq Artifacts
    /\ disk \in [Artifacts -> {"none", "part", "whole"}]
    /\ agent \in [at : {"idle", "calling", "job", "reporting", "down"}, job : Handed]
    /\ call \in [at : {"none", "reclaim", "reclaimed", "complete", "done", "unlock",
                        "fail", "failed", "release"},
                  rows : SUBSET (1..MaxJobs), row : 0..MaxJobs]
    /\ progress \in [at : {"none", "sent", "running"}, id : 0..MaxJobs]
    /\ handler \in [Callers -> [at : HandlerSteps, op : Requests, art : Artifacts]]
    /\ ops \in 0..MaxOps /\ faults \in 0..MaxFaults

\* SYNCING is shown only while a job runs, or while the handler that ended
\* the run has not come to its next statement: a report of progress that
\* overtakes the end of its job does not bring SYNCING back.
SyncingHasRun ==
    \A a \in Artifacts : inventory[a] = "SYNCING" =>
        \/ \E j \in jobs : j.art = a /\ j.state = "running"
        \/ agent.job.art = a /\ call.at \in {"done", "failed"}
        \/ call.at = "reclaimed" /\ \E j \in jobs : j.id = call.row /\ j.art = a
        \/ handler["panel"].art = a /\ handler["panel"].at \in {"purge", "delete"}

\* The hub calls an artifact READY only while its folder is on the edge,
\* except for a folder deleted by hand: whatever the order of installs,
\* removals, crashes, lost reports and repeated runs.
ReadyHasFolder ==
    \A a \in Artifacts : inventory[a] = "READY" => (disk[a] # "none" \/ a \in purged)

\* What a server of the edge requires and can be had from the bucket or a peer
\* is READY again and again once faults and requests stop, whatever they left
\* in the tables, and even if something else it requires has no source left:
\* a start gate that keeps looking finds it.  (Not for good: a request of the
\* gate that looked before the job ended makes it PENDING after it.)
RequiredBecomesReady ==
    \A a \in Required :
        Remote(a) # "none" => []<>(a \in catalog => inventory[a] = "READY")

\* Every job ends: none is held back for good by an abandoned run, by the
\* cap on running installs or by a lock nobody holds any more.
JobsEnd == \A a \in Artifacts : []<>~ActiveOn(jobs, a)

=============================================================================
