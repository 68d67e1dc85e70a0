--------------------------- MODULE SyncJobsProofs ---------------------------
(***************************************************************************)
(* Proofs about the mod jobs: the status SYNCING always has a run behind   *)
(* it, and READY always has a folder, whatever the order of the statements *)
(* of the handlers, of the reports of the agent, of its crashes and of the *)
(* requests of the panel.                                                  *)
(***************************************************************************)
EXTENDS SyncJobs, FiniteSetTheorems, WellFoundedInduction, TLAPS

(* Rows of two tables that agree on what the invariants read.              *)
Same(r, j) == r.id = j.id /\ r.art = j.art /\ r.state = j.state

UniqueIds(js) == \A j, k \in js : j.id = k.id => j = k

(* A table made from the present one: rows keep their artifact, a new row  *)
(* has an id nobody refers to.                                             *)
Lineage(js) ==
    /\ js \subseteq Jobs
    /\ UniqueIds(js)
    /\ \A r \in js : r.id \in FreshIds \/ \E j \in jobs : j.id = r.id /\ j.art = r.art

(* The row of the agent's job is about the same artifact as that job.      *)
AgentsRow == \A j \in jobs : j.id = agent.job.id => j.art = agent.job.art

(* The calls of the agent, its work and the handlers that delete.          *)
CallFits ==
    /\ agent.at \in {"idle", "job"} => call.at = "none"
    /\ call.at \in {"reclaim", "reclaimed"} => agent.at \in {"calling", "down"} /\ agent.job.id = 0
    /\ call.at \in {"complete", "done", "unlock", "fail", "failed", "release"} =>
          agent.at \in {"reporting", "down"}
    /\ handler["gate"].at \in {"none", "assign", "enqueue", "pending"}

DeletedHasNoRow == \A a \in Artifacts \ catalog : inventory[a] = "none"

JobsInv == UniqueIds(jobs) /\ AgentsRow /\ CallFits /\ DeletedHasNoRow

(* Why an artifact may be shown as SYNCING; a row just reclaimed is active *)
(* until its status follows.                                               *)
Explained(a) ==
    \/ \E j \in jobs : j.art = a /\ j.state = "running"
    \/ agent.job.art = a /\ call.at \in {"done", "failed"}
    \/ call.at = "reclaimed" /\ \E j \in jobs : j.id = call.row /\ j.art = a /\ j.state \in Active
    \/ handler["panel"].art = a /\ handler["panel"].at \in {"purge", "delete"}

SyncingExplained == \A a \in Artifacts : inventory[a] = "SYNCING" => Explained(a)

(* A folder is removed only while its artifact is not READY, and there is  *)
(* one whenever the agent is about to make the artifact READY.             *)
FolderInv ==
    /\ ReadyHasFolder
    /\ agent.at = "job" /\ agent.job.op = "remove" => inventory[agent.job.art] # "READY"
    /\ call.at \in {"complete", "done"} /\ agent.job.op # "remove" =>
          disk[agent.job.art] # "none" \/ agent.job.art \in purged

IInv == TypeOK /\ JobsInv /\ SyncingExplained /\ FolderInv

-----------------------------------------------------------------------------
(* The job table.                                                          *)

(* Among jobs there is one created first.                                  *)
LEMMA OldestIsOne ==
    ASSUME NEW js, js \subseteq Jobs, js # {}
    PROVE  Oldest(js) \in js
<1> DEFINE births == {j.born : j \in js}
<1>1. births \subseteq Nat /\ births # {}
  BY DEF Jobs
<1> DEFINE less == {p \in Nat \X Nat : p[1] < p[2]}
<1>2. \E b \in births : \A c \in births : <<c, b>> \notin less
  <2>1. IsWellFoundedOn(less, Nat)
    BY NatLessThanWellFounded, Zenon DEF OpToRel
  <2> HIDE DEF births, less
  <2> QED BY <1>1, <2>1, WFMin
<1>3. PICK b \in births : \A c \in births : ~(c < b)
  BY <1>1, <1>2
<1>4. PICK j \in js : j.born = b
  OBVIOUS
<1>5. \A k \in js : k.born \in births /\ k.born \in Nat
  BY DEF Jobs
<1> HIDE DEF births
<1>6. \A k \in js : j.born <= k.born
  BY <1>3, <1>4, <1>5
<1> QED BY <1>4, <1>6 DEF Oldest

LEMMA TableIsFinite ==
    ASSUME NEW js, js \subseteq Jobs, UniqueIds(js)
    PROVE  IsFiniteSet(js)
<1> DEFINE f == [j \in js |-> j.id]
<1>1. f \in Injection(js, 1..MaxJobs)
  BY DEF Injection, IsInjective, UniqueIds, Jobs
<1>2. MaxJobs \in Int
  BY SyncJobsAssumption
<1>3. IsFiniteSet(1..MaxJobs)
  BY <1>2, FS_Interval
<1> HIDE DEF f
<1> QED BY <1>1, <1>3, FS_Injection

(* Renumbering changes nothing but the numbers.                            *)
LEMMA Renumbered ==
    ASSUME NEW js, js \subseteq Jobs, UniqueIds(js)
    PROVE  /\ InOrder(js) \subseteq Jobs /\ UniqueIds(InOrder(js))
           /\ \A r \in InOrder(js) : \E j \in js : Same(r, j)
           /\ \A j \in js : \E r \in InOrder(js) : Same(r, j)
<1>1. \A j \in js : Place(js, j) \in Nat
  <2> SUFFICES ASSUME NEW j \in js PROVE Place(js, j) \in Nat
    OBVIOUS
  <2>1. IsFiniteSet({k \in js : k.born <= j.born})
    BY TableIsFinite, FS_Subset
  <2> QED BY <2>1, FS_CardinalityType DEF Place
<1> DEFINE moved(j) == [j EXCEPT !.born = Place(js, j)]
<1>2. \A j \in js : moved(j) \in Jobs /\ Same(moved(j), j)
  BY <1>1 DEF Jobs, Same
<1>3. \A r : r \in InOrder(js) <=> \E j \in js : r = moved(j)
  BY DEF InOrder
<1> HIDE DEF moved
<1>4. UniqueIds(InOrder(js))
  BY <1>2, <1>3 DEF UniqueIds, Same
<1> QED BY <1>2, <1>3, <1>4

LEMMA Remembered ==
    ASSUME NEW js, js \subseteq Jobs, UniqueIds(js), NEW id
    PROVE  /\ Remember(js, id) \subseteq Jobs /\ UniqueIds(Remember(js, id))
           /\ \A r \in Remember(js, id) : \E j \in js : Same(r, j)
           /\ \A j \in js : j.state \in Active => \E r \in Remember(js, id) : Same(r, j)
<1> DEFINE kept == {j \in js : j.state \in Active \/ j.id = id}
<1>1. kept \subseteq js /\ kept \subseteq Jobs /\ UniqueIds(kept)
  BY DEF UniqueIds
<1>2. Remember(js, id) = InOrder(kept)
  BY DEF Remember
<1>3. \A j \in js : j.state \in Active => j \in kept
  OBVIOUS
<1> HIDE DEF kept
<1> QED BY <1>1, <1>2, <1>3, Renumbered

(* An UPDATE that leaves id and art of every row alone.                    *)
SameRow(r, j) == r.id = j.id /\ r.art = j.art

Edits(js) ==
    /\ js \subseteq Jobs /\ UniqueIds(js)
    /\ \A r \in js : \E j \in jobs : SameRow(r, j)

JobStates == Active \cup {"done", "failed", "cancelled"}

WithState(j, s) == [j EXCEPT !.state = s, !.stale = FALSE]

LEMMA StateSet ==
    ASSUME NEW j \in Jobs, NEW s \in JobStates
    PROVE  /\ WithState(j, s) \in Jobs
           /\ SameRow(WithState(j, s), j)
           /\ WithState(j, s).state = s
<1> DEFINE u == [j EXCEPT !.state = s]
           r == [u EXCEPT !.stale = FALSE]
<1>1. u \in Jobs /\ SameRow(u, j) /\ u.state = s
  BY DEF Jobs, SameRow, JobStates
<1>2. r = WithState(j, s)
  BY Zenon DEF WithState
<1> HIDE DEF u
<1>3. r \in Jobs /\ SameRow(r, j) /\ r.state = s
  BY <1>1 DEF Jobs, SameRow
<1> QED BY <1>2, <1>3, Zenon

LEMMA AttemptCounted ==
    ASSUME NEW j \in Jobs
    PROVE  /\ [j EXCEPT !.state = "running", !.attempt = @ + 1] \in Jobs
           /\ SameRow([j EXCEPT !.state = "running", !.attempt = @ + 1], j)
           /\ [j EXCEPT !.state = "running", !.attempt = @ + 1].state = "running"
<1> DEFINE u == [j EXCEPT !.state = "running"]
           r == [u EXCEPT !.attempt = j.attempt + 1]
<1>1. u \in Jobs /\ SameRow(u, j) /\ u.state = "running" /\ j.attempt + 1 \in Nat
  BY DEF Jobs, SameRow, Active
<1>2. r = [j EXCEPT !.state = "running", !.attempt = @ + 1]
  BY Zenon
<1> HIDE DEF u
<1>3. r \in Jobs /\ SameRow(r, j) /\ r.state = "running"
  BY <1>1 DEF Jobs, SameRow
<1> QED BY <1>2, <1>3, Zenon

LEMMA RequeuedTable ==
    ASSUME TypeOK, UniqueIds(jobs), NEW id
    PROVE  /\ Edits(Requeued(id))
           /\ \A j \in jobs : \E r \in Requeued(id) :
                 SameRow(r, j) /\ (j.id = id => r.state = "queued") /\ (j.id # id => r = j)
<1> DEFINE new(j) == IF j.id = id THEN WithState(j, "queued") ELSE j
<1>1. \A j \in jobs : new(j) \in Jobs /\ SameRow(new(j), j)
                      /\ (j.id = id => new(j).state = "queued") /\ (j.id # id => new(j) = j)
  BY StateSet DEF TypeOK, SameRow, JobStates, Active
<1>2. \A r : r \in Requeued(id) <=> \E j \in jobs : r = new(j)
  BY DEF Requeued, WithState
<1> HIDE DEF new
<1>3. UniqueIds(Requeued(id))
  BY <1>1, <1>2 DEF UniqueIds, SameRow
<1> QED BY <1>1, <1>2, <1>3 DEF Edits

LEMMA CompletedTable ==
    ASSUME TypeOK, UniqueIds(jobs), NEW id
    PROVE  /\ Edits(Completed(id))
           /\ \A j \in jobs : j.id # id => j \in Completed(id)
<1> DEFINE new(j) == IF j.id = id THEN WithState(j, "done") ELSE j
<1>1. \A j \in jobs : new(j) \in Jobs /\ SameRow(new(j), j) /\ (j.id # id => new(j) = j)
  BY StateSet DEF TypeOK, SameRow, JobStates
<1>2. \A r : r \in Completed(id) <=> \E j \in jobs : r = new(j)
  BY DEF Completed, WithState
<1> HIDE DEF new
<1>3. UniqueIds(Completed(id))
  BY <1>1, <1>2 DEF UniqueIds, SameRow
<1>4. \A j \in jobs : j.id # id => j \in Completed(id)
  BY <1>1, <1>2
<1> QED BY <1>1, <1>2, <1>3, <1>4 DEF Edits

LEMMA FailedTable ==
    ASSUME TypeOK, UniqueIds(jobs), NEW id
    PROVE  /\ Edits(Failed(id))
           /\ \A j \in jobs : j.id # id => j \in Failed(id)
<1> DEFINE next(j) == IF j.attempt < MAX_ATTEMPTS THEN "queued" ELSE "failed"
           new(j) == IF j.id = id THEN WithState(j, next(j)) ELSE j
<1>1. \A j \in jobs : next(j) \in {"queued", "failed"}
  OBVIOUS
<1>2. \A r : r \in Failed(id) <=> \E j \in jobs : r = new(j)
  BY DEF Failed, WithState
<1> HIDE DEF next
<1>3. \A j \in jobs : new(j) \in Jobs /\ SameRow(new(j), j) /\ (j.id # id => new(j) = j)
  BY <1>1, StateSet DEF TypeOK, SameRow, JobStates, Active
<1> HIDE DEF new
<1>4. UniqueIds(Failed(id))
  BY <1>2, <1>3 DEF UniqueIds, SameRow
<1>5. \A j \in jobs : j.id # id => j \in Failed(id)
  BY <1>2, <1>3
<1> QED BY <1>2, <1>3, <1>4, <1>5 DEF Edits

(* In acquireJobForEdge a run is neither failed nor taken, and the job     *)
(* taken is left running.                                                  *)
LEMMA AcquiredTable ==
    ASSUME TypeOK, UniqueIds(jobs), NEW bad, bad \subseteq Unlocked, NEW id
    PROVE  /\ Edits(Acquired(bad, id))
           /\ \A j \in jobs : j.state = "running" \/ (j \notin bad /\ j.id = id) =>
                 \E r \in Acquired(bad, id) : SameRow(r, j) /\ r.state = "running"
<1> DEFINE new(j) == IF j \in bad THEN [j EXCEPT !.state = "failed"]
                     ELSE IF j.id = id THEN [j EXCEPT !.state = "running", !.attempt = @ + 1] ELSE j
<1>1. \A j \in bad : j \in jobs /\ j.state = "queued"
  BY DEF Unlocked
<1>2. \A j \in bad : new(j) \in Jobs /\ SameRow(new(j), j)
  BY <1>1 DEF TypeOK, Jobs, SameRow
<1>3. \A j \in jobs \ bad : /\ new(j) \in Jobs /\ SameRow(new(j), j)
                            /\ (j.state = "running" \/ j.id = id) => new(j).state = "running"
  BY AttemptCounted DEF TypeOK, SameRow
<1>4. \A r : r \in Acquired(bad, id) <=> \E j \in jobs : r = new(j)
  BY DEF Acquired
<1> HIDE DEF new
<1>5. \A j \in jobs : new(j) \in Jobs /\ SameRow(new(j), j)
  BY <1>2, <1>3
<1>6. UniqueIds(Acquired(bad, id))
  BY <1>4, <1>5 DEF UniqueIds, SameRow
<1>7. \A j \in jobs : j.state = "running" \/ (j \notin bad /\ j.id = id) =>
          \E r \in Acquired(bad, id) : SameRow(r, j) /\ r.state = "running"
  BY <1>1, <1>3, <1>4
<1> QED BY <1>4, <1>5, <1>6, <1>7 DEF Edits

Cancelled(a) == {IF j.art = a /\ j.op # "remove" /\ j.state \in Active
                 THEN [j EXCEPT !.state = "cancelled"] ELSE j : j \in jobs}

LEMMA CancelledTable ==
    ASSUME TypeOK, UniqueIds(jobs), NEW a
    PROVE  /\ Edits(Cancelled(a))
           /\ \A j \in jobs : j.art # a => j \in Cancelled(a)
<1> DEFINE new(j) == IF j.art = a /\ j.op # "remove" /\ j.state \in Active
                     THEN [j EXCEPT !.state = "cancelled"] ELSE j
<1>1. \A j \in jobs : new(j) \in Jobs /\ SameRow(new(j), j) /\ (j.art # a => new(j) = j)
  BY DEF TypeOK, Jobs, SameRow
<1>2. \A r : r \in Cancelled(a) <=> \E j \in jobs : r = new(j)
  BY DEF Cancelled
<1> HIDE DEF new
<1>3. UniqueIds(Cancelled(a))
  BY <1>1, <1>2 DEF UniqueIds, SameRow
<1>4. \A j \in jobs : j.art # a => j \in Cancelled(a)
  BY <1>1, <1>2
<1> QED BY <1>1, <1>2, <1>3, <1>4 DEF Edits

(* What remains of an edited table once it is renumbered.                  *)
LEMMA EditedThenRemembered ==
    ASSUME NEW js, Edits(js), NEW id
    PROVE  Edits(Remember(js, id))
<1>1. \A r \in Remember(js, id) : \E j \in js : Same(r, j)
  BY Remembered DEF Edits
<1>2. \A r \in Remember(js, id) : \E j \in jobs : SameRow(r, j)
  <2> SUFFICES ASSUME NEW r \in Remember(js, id) PROVE \E j \in jobs : SameRow(r, j)
    OBVIOUS
  <2>1. PICK k \in js : Same(r, k)
    BY <1>1
  <2>2. \A x \in js : \E j \in jobs : SameRow(x, j)
    BY Zenon DEF Edits
  <2>3. PICK j \in jobs : SameRow(k, j)
    BY <2>2
  <2> QED BY <2>1, <2>3 DEF Same, SameRow
<1>3. Remember(js, id) \subseteq Jobs /\ UniqueIds(Remember(js, id))
  <2>1. js \subseteq Jobs /\ UniqueIds(js)
    BY Zenon DEF Edits
  <2> QED BY <2>1, Remembered
<1> QED BY <1>2, <1>3, Zenon DEF Edits

-----------------------------------------------------------------------------
(* The table of jobs                                                       *)

LEMMA NoJobTyped ==
    NoJob \in Handed /\ NoJob.id = 0 /\ NoJob.op = "none" /\ NoRequest.art \in Artifacts /\ MaxJobs \in Nat
<1>1. NoJob.art \in Artifacts
  BY SyncJobsAssumption DEF NoJob
<1> QED BY <1>1, SyncJobsAssumption DEF NoJob, NoRequest, Handed

(* The actions that write sync_jobs.                                       *)
TableActions ==
    \/ \E c \in Callers : Enqueue(c) \/ CancelJobs(c) \/ DeletePackage(c)
    \/ Poll \/ Reclaim \/ Acquire \/ CompleteJob \/ FailJob \/ GoesStale

LEMMA OthersKeepTable == ASSUME Next PROVE TableActions \/ UNCHANGED jobs
BY DEF Next, TableActions, HandlerStep, CallStep, ProgressStep, hubTables,
       ControlEnsures, PanelAsks, PanelDeletesFolder, GateAsks, Assign, MarkPending, Unassign,
       PurgeFolder, ReclaimStatus, CompleteStatus, CompleteUnlock, FailStatus, FailUnlock,
       AcquireRollsBack, ProgressJob, ProgressStatus, Verify, RemoveFolder, SendProgress, Install,
       InstallFails, ReportLost, Crash, Restart, LockExpires

LEMMA EditsAreLineage == ASSUME NEW js, Edits(js) PROVE Lineage(js)
BY DEF Edits, Lineage, SameRow

LEMMA NewJobTyped ==
    ASSUME TypeOK, UniqueIds(jobs), FreshIds # {}, NEW a \in Artifacts, NEW op \in Operations
    PROVE  NewJob(a, op) \in Jobs /\ NewJob(a, op).id \in FreshIds
<1>1. NewJob(a, op).id \in FreshIds
  BY DEF NewJob
<1>2. Cardinality(jobs) \in Nat
  BY TableIsFinite, FS_CardinalityType DEF TypeOK
<1>3. FreshIds \subseteq 1..MaxJobs
  BY DEF FreshIds
<1>4. Cardinality(jobs) + 1 \in Nat
  BY <1>2
<1> DEFINE n == CHOOSE m \in FreshIds : TRUE
<1>5. NewJob(a, op) = [id |-> n, art |-> a, op |-> op, state |-> "queued",
                      attempt |-> 0, stale |-> FALSE, born |-> Cardinality(jobs) + 1]
  BY DEF NewJob
<1>6. n \in 1..MaxJobs
  BY <1>3
<1> HIDE DEF n
<1> QED BY <1>1, <1>4, <1>5, <1>6 DEF Jobs, Active

LEMMA TableStep ==
    ASSUME TypeOK, UniqueIds(jobs), Next
    PROVE  Lineage(jobs')
<1>1. CASE UNCHANGED jobs
  BY <1>1 DEF Lineage, TypeOK
<1>2. ASSUME NEW c \in Callers, Enqueue(c) PROVE Lineage(jobs')
  <2>1. CASE UNCHANGED jobs
    BY <2>1 DEF Lineage, TypeOK
  <2>2. CASE ~UNCHANGED jobs
    <3> DEFINE n == NewJob(handler[c].art, JobOf(handler[c].op))
    <3>1. handler[c].art \in Artifacts /\ JobOf(handler[c].op) \in Operations
      BY DEF TypeOK, JobOf, Operations
    <3>2. jobs' = jobs \cup {n} /\ FreshIds # {}
      BY <1>2, <2>2 DEF Enqueue
    <3>3. n \in Jobs /\ n.id \in FreshIds
      BY <3>1, <3>2, NewJobTyped
    <3>4. \A j \in jobs : j.id \notin FreshIds
      BY DEF FreshIds, Known
    <3> HIDE DEF n
    <3> QED BY <3>2, <3>3, <3>4 DEF Lineage, UniqueIds, TypeOK
  <2> QED BY <2>1, <2>2
<1>3. ASSUME NEW c \in Callers, CancelJobs(c) PROVE Lineage(jobs')
  <2>1. jobs' = Remember(Cancelled(handler[c].art), agent.job.id)
    BY <1>3 DEF CancelJobs, Cancelled
  <2> QED BY <2>1, CancelledTable, EditedThenRemembered, EditsAreLineage
<1>4. ASSUME NEW c \in Callers, DeletePackage(c) PROVE Lineage(jobs')
  <2> DEFINE kept == {j \in jobs : j.art # handler[c].art}
  <2>1. kept \subseteq Jobs /\ UniqueIds(kept) /\ kept \subseteq jobs
    BY DEF TypeOK, UniqueIds
  <2>2. jobs' = InOrder(kept)
    BY <1>4 DEF DeletePackage
  <2> HIDE DEF kept
  <2>3. \A r \in InOrder(kept) : \E j \in jobs : SameRow(r, j)
    BY <2>1, Renumbered DEF Same, SameRow
  <2> QED BY <2>1, <2>2, <2>3, Renumbered, EditsAreLineage DEF Edits
<1>5. Edits(jobs)
  BY DEF Edits, TypeOK, SameRow
<1>6. CASE Poll
  BY <1>5, <1>6, EditedThenRemembered, EditsAreLineage DEF Poll
<1>7. CASE Reclaim
  <2>1. UNCHANGED jobs \/ \E id : jobs' = Requeued(id)
    BY <1>7 DEF Reclaim
  <2> QED BY <2>1, <1>1, RequeuedTable, EditsAreLineage
<1>8. CASE Acquire
  <2>1. UNCHANGED jobs \/ \E bad \in SUBSET Unlocked : \E id : jobs' = Remember(Acquired(bad, id), 0)
    BY <1>8, Zenon DEF Acquire
  <2>2. ASSUME NEW bad \in SUBSET Unlocked, NEW id, jobs' = Remember(Acquired(bad, id), 0)
        PROVE  Lineage(jobs')
    BY <2>2, AcquiredTable, EditedThenRemembered, EditsAreLineage
  <2> QED BY <2>1, <2>2, <1>1
<1>9. CASE CompleteJob
  BY <1>1, <1>9, CompletedTable, EditsAreLineage DEF CompleteJob
<1>10. CASE FailJob
  BY <1>1, <1>10, FailedTable, EditsAreLineage DEF FailJob
<1>11. CASE GoesStale
  <2>1. PICK j \in jobs : jobs' = (jobs \ {j}) \cup {[j EXCEPT !.stale = TRUE]}
    BY <1>11 DEF GoesStale
  <2>2. [j EXCEPT !.stale = TRUE] \in Jobs /\ SameRow([j EXCEPT !.stale = TRUE], j)
    BY DEF TypeOK, Jobs, SameRow
  <2> DEFINE n == [j EXCEPT !.stale = TRUE]
  <2>3. \A r \in jobs' : r = n \/ (r \in jobs /\ r # j)
    BY <2>1
  <2>4. n \in Jobs /\ n.id = j.id /\ n.art = j.art
    BY <2>2 DEF SameRow
  <2> HIDE DEF n
  <2>5. jobs' \subseteq Jobs /\ UniqueIds(jobs')
    BY <2>3, <2>4 DEF UniqueIds, TypeOK
  <2>6. \A r \in jobs' : \E k \in jobs : k.id = r.id /\ k.art = r.art
    BY <2>3, <2>4
  <2> QED BY <2>5, <2>6 DEF Lineage
<1> QED BY <1>1, <1>2, <1>3, <1>4, <1>6, <1>7, <1>8, <1>9, <1>10, <1>11, OthersKeepTable DEF TableActions

-----------------------------------------------------------------------------
(* Types                                                                   *)

LEMMA TypeInit == Init => TypeOK
BY NoJobTyped, SyncJobsAssumption
   DEF Init, TypeOK, NoCall, NoRequest, HandlerSteps, Requests, Callers, Status

(* What the agent is handed.                                               *)
LEMMA HandOverTyped ==
    ASSUME TypeOK, NEW j \in jobs, NEW local \in BOOLEAN
    PROVE  HandOver(j, local) \in Handed
BY DEF HandOver, Handed, TypeOK, Jobs, Operations

(* What acquireJobForEdge leaves behind, of the job it took or of none.    *)
AcquireOutcome(bad, local) ==
    LET left == Unlocked \ bad
        taken == IF left = {} THEN NoJob ELSE HandOver(Oldest(left), local)
    IN  /\ jobs' = Remember(Acquired(bad, taken.id), 0)
        /\ inventory' = [a \in Artifacts |->
               IF inventory[a] = "none" THEN "none"
               ELSE IF \E j \in bad : j.art = a THEN "ERROR"
               ELSE IF left # {} /\ taken.art = a THEN "SYNCING" ELSE inventory[a]]
        /\ locks' = IF left = {} THEN locks ELSE locks \cup {taken.art}
        /\ Answer(IF left = {} THEN "idle" ELSE "job", taken) \/ Answer("idle", NoJob)

LEMMA AcquireCases ==
    ASSUME Acquire
    PROVE  \/ Answer("idle", NoJob) /\ UNCHANGED <<jobs, inventory, locks>>
           \/ \E bad \in SUBSET Unlocked, local \in BOOLEAN : AcquireOutcome(bad, local)
BY Zenon DEF Acquire, AcquireOutcome

LEMMA TypeStep ==
    ASSUME TypeOK, jobs' \subseteq Jobs, Next
    PROVE  TypeOK'
<1> USE NoJobTyped DEF TypeOK, hubTables
<1>f. ASSUME Fault PROVE faults' \in 0..MaxFaults
  BY <1>f, SyncJobsAssumption DEF Fault
<1>1. CASE PanelAsks \/ ControlEnsures \/ (\E a \in Artifacts : GateAsks(a))
  BY <1>1, SyncJobsAssumption
     DEF PanelAsks, ControlEnsures, GateAsks, FirstStatement, HandlerSteps, Requests, Callers
<1>2. CASE PanelDeletesFolder
  BY <1>2, SyncJobsAssumption DEF PanelDeletesFolder
<1>3. ASSUME NEW c \in Callers, HandlerStep(c) PROVE TypeOK'
  <2> USE DEF Goes, Ends, HandlerSteps, NoRequest, Requests, Status, SetStatus
  <2>1. CASE Assign(c)
    BY <2>1, <1>f DEF Assign
  <2>2. CASE Enqueue(c)
    BY <2>2 DEF Enqueue
  <2>3. CASE MarkPending(c)
    BY <2>3 DEF MarkPending
  <2>4. CASE Unassign(c)
    BY <2>4 DEF Unassign
  <2>5. CASE CancelJobs(c)
    <3>1. /\ UNCHANGED <<inventory, assigned, catalog, locks, disk, purged, agent,
                         call, progress, ops, faults>>
          /\ handler' = [handler EXCEPT ![c].at = "purge"]
      BY <2>5, Zenon DEF CancelJobs, Goes
    <3>2. handler' \in [Callers -> [at : HandlerSteps, op : Requests, art : Artifacts]]
      BY <3>1
    <3> QED BY <3>1, <3>2
  <2>6. CASE PurgeFolder(c)
    <3>1. /\ UNCHANGED <<hubTables, agent, call, progress, ops>>
          /\ purged' \subseteq Artifacts /\ faults' \in 0..MaxFaults
      BY <2>6, <1>f, Zenon DEF PurgeFolder, TypeOK
    <3>2. disk' \in [Artifacts -> {"none", "part", "whole"}]
      BY <2>6 DEF PurgeFolder
    <3>3. handler' \in [Callers -> [at : HandlerSteps, op : Requests, art : Artifacts]]
      BY <2>6 DEF PurgeFolder
    <3> QED BY <3>1, <3>2, <3>3
  <2>7. CASE DeletePackage(c)
    BY <2>7 DEF DeletePackage
  <2> QED BY <1>3, <2>1, <2>2, <2>3, <2>4, <2>5, <2>6, <2>7 DEF HandlerStep
<1> USE DEF Answer, Now, NoCall
<1>4. CASE Poll
  <2>1. {j.id : j \in {k \in jobs : k.state = "running" /\ k.stale}} \subseteq 1..MaxJobs
    BY DEF Jobs
  <2>2. call' \in [at : {"none", "reclaim", "reclaimed", "complete", "done", "unlock",
                        "fail", "failed", "release"},
                  rows : SUBSET (1..MaxJobs), row : 0..MaxJobs]
    <3> DEFINE ids == {j.id : j \in {k \in jobs : k.state = "running" /\ k.stale}}
    <3>1. call' = [at |-> "reclaim", rows |-> ids, row |-> 0]
      BY <1>4, Zenon DEF Poll, NoCall
    <3> HIDE DEF ids
    <3> QED BY <2>1, <3>1 DEF ids
  <2>3. agent' \in [at : {"idle", "calling", "job", "reporting", "down"}, job : Handed]
    BY <1>4 DEF Poll
  <2> QED BY <1>4, <2>2, <2>3 DEF Poll
<1>5. CASE Reclaim
  <2>1. {j.art : j \in jobs} \subseteq Artifacts
    BY DEF Jobs
  <2> QED BY <1>5 DEF Reclaim
<1>6. CASE ReclaimStatus
  <2>1. inventory' \in [Artifacts -> Status]
    BY <1>6 DEF ReclaimStatus, Status
  <2>2. call' = [[call EXCEPT !.at = "reclaim"] EXCEPT !.row = 0]
    BY <1>6, Zenon DEF ReclaimStatus
  <2> DEFINE u == [call EXCEPT !.at = "reclaim"]
  <2>3. u \in [at : {"none", "reclaim", "reclaimed", "complete", "done", "unlock",
                    "fail", "failed", "release"},
              rows : SUBSET (1..MaxJobs), row : 0..MaxJobs]
    OBVIOUS
  <2> HIDE DEF u
  <2>4. call' \in [at : {"none", "reclaim", "reclaimed", "complete", "done", "unlock",
                    "fail", "failed", "release"},
              rows : SUBSET (1..MaxJobs), row : 0..MaxJobs]
    <3>1. call' = [u EXCEPT !.row = 0]
      BY <2>2 DEF u
    <3> QED BY <2>3, <3>1
  <2> QED BY <1>6, <2>1, <2>4 DEF ReclaimStatus
<1>7. CASE Acquire
  <2>f. UNCHANGED faults \/ Fault
    BY <1>7, Zenon DEF Acquire
  <2>1. CASE Answer("idle", NoJob) /\ UNCHANGED <<jobs, inventory, locks>>
    BY <1>7, <1>f, <2>1, <2>f DEF Acquire
  <2>2. ASSUME NEW bad \in SUBSET Unlocked, NEW local \in BOOLEAN, AcquireOutcome(bad, local)
        PROVE  TypeOK'
    <3> DEFINE left == Unlocked \ bad
               taken == IF left = {} THEN NoJob ELSE HandOver(Oldest(left), local)
    <3>2. taken \in Handed
      <4>1. left \subseteq jobs /\ jobs \subseteq Jobs
        BY DEF Unlocked
      <4> HIDE DEF left
      <4>2. CASE left = {}
        BY <4>2
      <4>3. CASE left # {}
        <5>1. Oldest(left) \in jobs
          BY <4>1, <4>3, OldestIsOne
        <5>2. HandOver(Oldest(left), local) \in Handed
          BY <4>1, <5>1, HandOverTyped
        <5> QED BY <4>3, <5>2
      <4> QED BY <4>2, <4>3
    <3>3. /\ inventory' \in [Artifacts -> Status]
          /\ locks' \subseteq Artifacts
      <4>1. taken.art \in Artifacts
        BY <3>2 DEF Handed
      <4>2. /\ inventory' = [a \in Artifacts |->
                   IF inventory[a] = "none" THEN "none"
                   ELSE IF \E j \in bad : j.art = a THEN "ERROR"
                   ELSE IF left # {} /\ taken.art = a THEN "SYNCING" ELSE inventory[a]]
            /\ locks' = IF left = {} THEN locks ELSE locks \cup {taken.art}
        BY <2>2 DEF AcquireOutcome
      <4> HIDE DEF taken, left
      <4> QED BY <4>1, <4>2 DEF Status
    <3>4. agent' \in [at : {"idle", "calling", "job", "reporting", "down"}, job : Handed]
          /\ call' = NoCall
      <4>1. agent.at \in {"idle", "calling", "job", "reporting", "down"} /\ agent.job \in Handed
        OBVIOUS
      <4>3. Answer(IF left = {} THEN "idle" ELSE "job", taken) \/ Answer("idle", NoJob)
        BY <2>2 DEF AcquireOutcome
      <4> HIDE DEF taken, left
      <4>2. call' = NoCall /\ (agent' = agent \/ \E at \in {"idle", "job"} :
                agent' = [at |-> at, job |-> taken] \/ agent' = [at |-> at, job |-> NoJob])
        BY <4>3
      <4> QED BY <3>2, <4>1, <4>2
    <3>5. faults' \in 0..MaxFaults
      BY <2>f, <1>f
    <3> QED BY <1>7, <3>3, <3>4, <3>5 DEF Acquire
  <2> QED BY <1>7, <2>1, <2>2, AcquireCases
<1>8. CASE AcquireRollsBack
  <2>1. Oldest(Unlocked).art \in Artifacts
    <3>1. Oldest(Unlocked) \in Unlocked
      BY <1>8, OldestIsOne DEF AcquireRollsBack, Unlocked
    <3> QED BY <3>1 DEF Unlocked, Jobs
  <2> QED BY <1>8, <2>1, <1>f DEF AcquireRollsBack
<1> USE DEF Handed, Status
<1>9. CASE CompleteJob
  BY <1>9 DEF CompleteJob
<1>10. CASE CompleteStatus
  BY <1>10 DEF CompleteStatus, AfterCompletion
<1>11. CASE CompleteUnlock
  BY <1>11, <1>f DEF CompleteUnlock
<1>12. CASE FailJob
  BY <1>12 DEF FailJob
<1>13. CASE FailStatus
  BY <1>13 DEF FailStatus, SetStatus
<1>14. CASE FailUnlock
  BY <1>14 DEF FailUnlock
<1>15. CASE ProgressStep
  BY <1>15 DEF ProgressStep, ProgressJob, ProgressStatus, WhileSyncing
<1> USE DEF Reports
<1>16. CASE Verify
  BY <1>16 DEF Verify
<1>17. CASE RemoveFolder
  BY <1>17 DEF RemoveFolder
<1>18. CASE SendProgress
  BY <1>18 DEF SendProgress
<1>19. CASE Install
  BY <1>19 DEF Install
<1>20. CASE InstallFails
  BY <1>20, <1>f DEF InstallFails
<1>21. CASE ReportLost
  BY <1>21, <1>f DEF ReportLost
<1>22. CASE Crash
  <2>1. \E left : left \in {"none", "part", "whole"} /\ disk' = [disk EXCEPT ![agent.job.art] = left]
    <3>1. disk[agent.job.art] \in {"none", "part", "whole"}
      <4>1. agent.job \in Handed /\ disk \in [Artifacts -> {"none", "part", "whole"}]
        OBVIOUS
      <4> QED BY <4>1 DEF Handed
    <3>2. PICK left \in {disk[agent.job.art]} \cup
                 (IF agent.at = "job" /\ agent.job.op # "verify" THEN {"part"} ELSE {}) :
             disk' = [disk EXCEPT ![agent.job.art] = left]
      BY <1>22, Zenon DEF Crash
    <3> QED BY <3>1, <3>2
  <2>2. disk' \in [Artifacts -> {"none", "part", "whole"}]
    BY <2>1
  <2>3. /\ UNCHANGED <<hubTables, purged, call, progress, handler, ops>>
        /\ agent' = [agent EXCEPT !.at = "down"] /\ faults' \in 0..MaxFaults
    BY <1>22, <1>f, Zenon DEF Crash
  <2> QED BY <2>2, <2>3
<1>23. CASE Restart
  BY <1>23 DEF Restart
<1>24. CASE GoesStale
  BY <1>24 DEF GoesStale
<1>25. ASSUME NEW a \in Artifacts, LockExpires(a) PROVE TypeOK'
  BY <1>25 DEF LockExpires
<1> QED
  BY <1>1, <1>2, <1>3, <1>4, <1>5, <1>6, <1>7, <1>8, <1>9, <1>10, <1>11, <1>12, <1>13, <1>14, <1>15,
     <1>16, <1>17, <1>18, <1>19, <1>20, <1>21, <1>22, <1>23, <1>24, <1>25
  DEF Next, CallStep

-----------------------------------------------------------------------------
(* The agent, its call and the status of what was deleted                  *)

AgentsJobMoves ==
    agent'.job = agent.job \/ agent'.job.id = 0 \/ \E j \in jobs, local \in BOOLEAN : agent'.job = HandOver(j, local)

LEMMA AnswerMoves ==
    ASSUME TypeOK, NEW at, NEW job, Answer(at, job)
    PROVE  agent'.job = agent.job \/ agent'.job = job
BY DEF Answer

LEMMA AgentStep == ASSUME TypeOK, Next PROVE AgentsJobMoves
<1> USE NoJobTyped DEF AgentsJobMoves
<1>1. CASE UNCHANGED agent
  BY <1>1
<1>2. CASE agent'.job = NoJob
  BY <1>2
<1>3. CASE Acquire
  <2>1. ASSUME NEW bad \in SUBSET Unlocked, NEW local \in BOOLEAN, AcquireOutcome(bad, local) PROVE AgentsJobMoves
    <3> DEFINE left == Unlocked \ bad
               taken == IF left = {} THEN NoJob ELSE HandOver(Oldest(left), local)
    <3>1. Answer(IF left = {} THEN "idle" ELSE "job", taken) \/ Answer("idle", NoJob)
      BY <2>1 DEF AcquireOutcome
    <3>2. taken = NoJob \/ \E j \in jobs : taken = HandOver(j, local)
      <4>1. left \subseteq jobs /\ left \subseteq Jobs
        BY DEF Unlocked, TypeOK
      <4> HIDE DEF left
      <4>2. left # {} => Oldest(left) \in jobs
        BY <4>1, OldestIsOne
      <4> QED BY <4>2
    <3> HIDE DEF taken, left
    <3>3. agent'.job = agent.job \/ agent'.job = NoJob \/ agent'.job = taken
      BY <3>1, AnswerMoves
    <3> QED BY <3>2, <3>3
  <2>2. CASE Answer("idle", NoJob)
    BY <2>2, AnswerMoves
  <2> QED BY <1>3, <2>1, <2>2, AcquireCases
<1>4. CASE \E c \in Callers : HandlerStep(c)
  BY <1>1, <1>4 DEF HandlerStep, Assign, Enqueue, MarkPending, Unassign, CancelJobs, PurgeFolder, DeletePackage
<1>5. CASE ControlEnsures \/ PanelAsks \/ PanelDeletesFolder \/ (\E a \in Artifacts : GateAsks(a))
  BY <1>1, <1>5 DEF ControlEnsures, PanelAsks, PanelDeletesFolder, GateAsks
<1>6. CASE Reclaim \/ CompleteJob \/ FailJob \/ AcquireRollsBack \/ CompleteUnlock \/ FailUnlock \/ ReportLost
  <2>1. UNCHANGED agent \/ Answer("idle", NoJob)
    BY <1>6 DEF Reclaim, CompleteJob, FailJob, AcquireRollsBack, CompleteUnlock, FailUnlock, ReportLost
  <2> QED BY <1>1, <2>1, AnswerMoves
<1>7. CASE ReclaimStatus \/ CompleteStatus \/ FailStatus \/ ProgressStep \/ SendProgress \/ GoesStale
           \/ \E a \in Artifacts : LockExpires(a)
  BY <1>1, <1>7 DEF ReclaimStatus, CompleteStatus, FailStatus, ProgressStep, ProgressJob, ProgressStatus,
                    SendProgress, GoesStale, LockExpires
<1>8. CASE Poll \/ Restart
  BY <1>2, <1>8 DEF Poll, Restart
<1>9. CASE Verify \/ RemoveFolder \/ Install \/ InstallFails \/ Crash
  <2>1. \E at : agent' = [agent EXCEPT !.at = at]
    BY <1>9 DEF Verify, RemoveFolder, Install, InstallFails, Crash, Reports
  <2> QED BY <2>1 DEF TypeOK
<1> QED BY <1>3, <1>4, <1>5, <1>6, <1>7, <1>8, <1>9 DEF Next, CallStep

LEMMA AgentsRowStep ==
    ASSUME TypeOK, UniqueIds(jobs), AgentsRow, Lineage(jobs'), AgentsJobMoves
    PROVE  AgentsRow'
<1> SUFFICES ASSUME NEW r \in jobs', r.id = agent'.job.id PROVE r.art = agent'.job.art
  BY DEF AgentsRow
<1>1. r.id \in 1..MaxJobs
  BY DEF Lineage, Jobs
<1>2. CASE agent'.job = agent.job
  BY <1>2 DEF Lineage, AgentsRow, FreshIds
<1>3. CASE agent'.job.id = 0
  BY <1>1, <1>3
<1>4. ASSUME NEW j \in jobs, NEW local \in BOOLEAN, agent'.job = HandOver(j, local) PROVE r.art = agent'.job.art
  <2>1. agent'.job.id = j.id /\ agent'.job.art = j.art
    BY <1>4 DEF HandOver
  <2>2. r.id \notin FreshIds
    BY <2>1 DEF FreshIds, Known
  <2> QED BY <2>1, <2>2 DEF Lineage, UniqueIds
<1> QED BY <1>2, <1>3, <1>4 DEF AgentsJobMoves

LEMMA CallFitsStep == ASSUME TypeOK, CallFits, Next PROVE CallFits'
<1> USE NoJobTyped DEF CallFits
<1>1. ASSUME NEW c \in Callers, HandlerStep(c) PROVE CallFits'
  <2>1. UNCHANGED <<agent, call>>
    BY <1>1 DEF HandlerStep, Assign, Enqueue, MarkPending, Unassign, CancelJobs, PurgeFolder, DeletePackage
  <2>2. c = "gate" => handler'["gate"].at \in {"none", "assign", "enqueue", "pending"}
    BY <1>1 DEF HandlerStep, Assign, Enqueue, MarkPending, Unassign, CancelJobs, PurgeFolder, DeletePackage,
                Goes, Ends, NoRequest, TypeOK, Callers
  <2>3. c # "gate" => handler'["gate"] = handler["gate"]
    BY <1>1 DEF HandlerStep, Assign, Enqueue, MarkPending, Unassign, CancelJobs, PurgeFolder, DeletePackage,
                Goes, Ends, TypeOK, Callers
  <2> QED BY <2>1, <2>2, <2>3
<1>2. CASE ControlEnsures \/ PanelAsks \/ PanelDeletesFolder \/ (\E a \in Artifacts : GateAsks(a))
  BY <1>2 DEF ControlEnsures, PanelAsks, PanelDeletesFolder, GateAsks, TypeOK, Callers
<1>3. CASE Reclaim \/ AcquireRollsBack \/ CompleteUnlock \/ FailUnlock \/ ReportLost \/ CompleteJob \/ FailJob
  BY <1>3 DEF Reclaim, CompleteJob, FailJob, AcquireRollsBack, CompleteUnlock, FailUnlock, ReportLost,
              Answer, Now, NoCall, TypeOK
<1>4. CASE ReclaimStatus \/ CompleteStatus \/ FailStatus
  BY <1>4 DEF ReclaimStatus, CompleteStatus, FailStatus, Now, TypeOK
<1>5. CASE ProgressStep \/ SendProgress \/ GoesStale \/ \E a \in Artifacts : LockExpires(a)
  BY <1>5 DEF ProgressStep, ProgressJob, ProgressStatus, SendProgress, GoesStale, LockExpires
<1>6. CASE Poll
  <2> DEFINE ids == {j.id : j \in {k \in jobs : k.state = "running" /\ k.stale}}
  <2>1. call' = [at |-> "reclaim", rows |-> ids, row |-> 0] /\ UNCHANGED handler
    BY <1>6, Zenon DEF Poll, NoCall
  <2> HIDE DEF ids
  <2>2. agent' = [at |-> "calling", job |-> NoJob]
    BY <1>6 DEF Poll
  <2> QED BY <2>1, <2>2
<1>10. CASE Restart
  BY <1>10 DEF Restart
<1>7. CASE Verify \/ RemoveFolder \/ Install \/ InstallFails
  BY <1>7 DEF Verify, RemoveFolder, Install, InstallFails, Reports, NoCall, TypeOK
<1>8. CASE Crash
  BY <1>8 DEF Crash, TypeOK
<1>9. CASE Acquire
  <2>1. call.at = "reclaim" /\ UNCHANGED handler
    BY <1>9, Zenon DEF Acquire
  <2>2. \E at \in {"idle", "job"} : \E job : Answer(at, job)
    BY <1>9, Zenon DEF Acquire
  <2> QED BY <2>1, <2>2 DEF Answer, NoCall, TypeOK
<1> QED BY <1>1, <1>2, <1>3, <1>4, <1>5, <1>6, <1>7, <1>8, <1>9, <1>10 DEF Next, CallStep

(* The artifacts whose status an action may change.                        *)
LEMMA DeletedStep == ASSUME TypeOK, DeletedHasNoRow, Next PROVE DeletedHasNoRow'
<1> USE DEF DeletedHasNoRow
<1>1. ASSUME NEW c \in Callers, HandlerStep(c) PROVE DeletedHasNoRow'
  <2>1. CASE Assign(c) \/ MarkPending(c)
    BY <2>1 DEF Assign, MarkPending, SetStatus, TypeOK
  <2>2. CASE DeletePackage(c)
    BY <2>2 DEF DeletePackage, TypeOK
  <2>3. CASE Enqueue(c) \/ Unassign(c) \/ CancelJobs(c) \/ PurgeFolder(c)
    BY <2>3 DEF Enqueue, Unassign, CancelJobs, PurgeFolder, hubTables
  <2> QED BY <1>1, <2>1, <2>2, <2>3 DEF HandlerStep
<1>2. CASE ReclaimStatus \/ FailStatus \/ ProgressStatus
  BY <1>2 DEF ReclaimStatus, FailStatus, ProgressStatus, SetStatus, WhileSyncing, TypeOK
<1>3. CASE CompleteStatus
  BY <1>3 DEF CompleteStatus, AfterCompletion, TypeOK, Handed
<1>4. CASE Acquire
  <2>1. UNCHANGED catalog
    BY <1>4, Zenon DEF Acquire
  <2>2. ASSUME NEW bad \in SUBSET Unlocked, NEW local \in BOOLEAN, AcquireOutcome(bad, local) PROVE DeletedHasNoRow'
    <3>1. \A a \in Artifacts : inventory[a] = "none" => inventory'[a] = "none"
      BY <2>2 DEF AcquireOutcome
    <3> QED BY <2>1, <3>1
  <2> QED BY <1>4, <2>1, <2>2, AcquireCases
<1>5. UNCHANGED <<inventory, catalog>> \/ (\E c \in Callers : HandlerStep(c)) \/ ReclaimStatus \/ FailStatus
      \/ ProgressStatus \/ CompleteStatus \/ Acquire
  BY DEF Next, CallStep, ProgressStep, ControlEnsures, PanelAsks, PanelDeletesFolder, GateAsks, Poll, Reclaim,
         CompleteJob, CompleteUnlock, FailJob, FailUnlock, AcquireRollsBack, ProgressJob, Verify, RemoveFolder,
         SendProgress, Install, InstallFails, ReportLost, Crash, Restart, GoesStale, LockExpires, hubTables
<1>6. CASE UNCHANGED <<inventory, catalog>>
  BY <1>6
<1> QED BY <1>1, <1>2, <1>3, <1>4, <1>5, <1>6

LEMMA JobsStep ==
    ASSUME TypeOK, JobsInv, Next
    PROVE  JobsInv'
<1>1. Lineage(jobs')
  BY TableStep DEF JobsInv
<1>2. AgentsRow'
  BY <1>1, AgentStep, AgentsRowStep DEF JobsInv
<1>3. UniqueIds(jobs')
  BY <1>1 DEF Lineage
<1> QED BY <1>2, <1>3, CallFitsStep, DeletedStep DEF JobsInv

-----------------------------------------------------------------------------
(* SYNCING has its run                                                     *)

(* Rows that are still there, running or active.                           *)
LEMMA ActiveKept ==
    ASSUME NEW js, js \subseteq Jobs, UniqueIds(js), NEW id, NEW j \in js, j.state \in Active
    PROVE  \E r \in Remember(js, id) : Same(r, j)
BY Remembered

LEMMA SyncingHandlers ==
    ASSUME TypeOK, JobsInv, SyncingExplained, NEW c \in Callers, HandlerStep(c)
    PROVE  SyncingExplained'
<1> USE DEF SyncingExplained
<1> SUFFICES ASSUME NEW a \in Artifacts, inventory'[a] = "SYNCING" PROVE Explained(a)'
  OBVIOUS
<1>0. UNCHANGED <<agent, call>>
  BY DEF HandlerStep, Assign, Enqueue, MarkPending, Unassign, CancelJobs, PurgeFolder, DeletePackage
<1>1. c = "gate" => UNCHANGED handler["panel"]
  BY DEF HandlerStep, Assign, Enqueue, MarkPending, Unassign, CancelJobs, PurgeFolder, DeletePackage,
         Goes, Ends, TypeOK, Callers
<1>2. inventory[a] = "SYNCING"
  BY DEF HandlerStep, Assign, Enqueue, MarkPending, Unassign, CancelJobs, PurgeFolder, DeletePackage,
         SetStatus, TypeOK, hubTables
<1>3. Explained(a)
  BY <1>2
<1>4. CASE Assign(c) \/ MarkPending(c) \/ Unassign(c)
  <2>1. UNCHANGED jobs /\ handler[c].at \notin {"purge", "delete"}
    BY <1>4 DEF Assign, MarkPending, Unassign
  <2> QED BY <1>0, <1>1, <1>3, <2>1 DEF Explained, Callers
<1>5. CASE Enqueue(c)
  <2>1. jobs \subseteq jobs' /\ handler[c].at = "enqueue"
    BY <1>5 DEF Enqueue
  <2> QED BY <1>0, <1>1, <1>3, <2>1 DEF Explained, Callers
<1>6. CASE CancelJobs(c)
  <2> DEFINE b == handler[c].art
  <2>1. c = "panel"
    BY <1>6 DEF CancelJobs, JobsInv, CallFits, Callers
  <2>2. handler'["panel"].at = "purge" /\ handler'["panel"].art = b
    BY <1>6, <2>1 DEF CancelJobs, Goes, TypeOK, Callers
  <2>3. jobs' = Remember(Cancelled(b), agent.job.id)
    BY <1>6 DEF CancelJobs, Cancelled
  <2>4. ASSUME a # b PROVE Explained(a)'
    <3>1. Cancelled(b) \subseteq Jobs /\ UniqueIds(Cancelled(b))
      BY CancelledTable DEF JobsInv, Edits
    <3>2. \A j \in jobs : j.art = a => j \in Cancelled(b)
      BY <2>4, CancelledTable DEF JobsInv
    <3>3. \A j \in jobs : j.art = a /\ j.state \in Active => \E r \in jobs' : Same(r, j)
      BY <2>3, <3>1, <3>2, ActiveKept
    <3>4. handler["panel"].at = "cancel"
      BY <1>6, <2>1 DEF CancelJobs
    <3> QED BY <1>0, <1>3, <3>3, <3>4 DEF Explained, Same, Active
  <2>5. CASE a = b
    BY <2>2, <2>5 DEF Explained
  <2> QED BY <2>4, <2>5
<1>7. CASE PurgeFolder(c)
  <2>1. c = "panel"
    BY <1>7 DEF PurgeFolder, JobsInv, CallFits, Callers
  <2>2. handler'["panel"].at = "delete" /\ handler'["panel"].art = handler["panel"].art /\ UNCHANGED jobs
    BY <1>7, <2>1 DEF PurgeFolder, Goes, TypeOK, Callers, hubTables
  <2> QED BY <1>0, <1>3, <2>2 DEF Explained
<1>8. CASE DeletePackage(c)
  <2> DEFINE kept == {j \in jobs : j.art # handler[c].art}
  <2>1. c = "panel" /\ a # handler[c].art
    BY <1>8 DEF DeletePackage, JobsInv, CallFits, Callers, TypeOK
  <2>2. jobs' = InOrder(kept)
    BY <1>8 DEF DeletePackage
  <2>3. \A j \in jobs : j.art = a => j \in kept
    BY <2>1
  <2>4. kept \subseteq Jobs /\ UniqueIds(kept)
    BY DEF TypeOK, JobsInv, UniqueIds
  <2> HIDE DEF kept
  <2>5. \A j \in jobs : j.art = a => \E r \in jobs' : Same(r, j)
    BY <2>2, <2>3, <2>4, Renumbered
  <2>6. handler["panel"].art # a
    BY <2>1
  <2> QED BY <1>0, <1>3, <2>5, <2>6 DEF Explained, Same
<1> QED BY <1>4, <1>5, <1>6, <1>7, <1>8 DEF HandlerStep

(* A report of progress leaves SYNCING only where it already is.           *)
LEMMA SyncingElsewhere ==
    ASSUME TypeOK, JobsInv, SyncingExplained, UNCHANGED jobs, UNCHANGED handler["panel"],
           \/ UNCHANGED <<agent, call>>
           \/ call.at \notin {"done", "failed", "reclaimed"},
           \A a \in Artifacts : inventory'[a] = "SYNCING" => inventory[a] = "SYNCING"
    PROVE  SyncingExplained'
BY DEF SyncingExplained, Explained

LEMMA SyncingCalls ==
    ASSUME TypeOK, JobsInv, SyncingExplained, CallStep \/ Poll \/ AcquireRollsBack
    PROVE  SyncingExplained'
<1> USE DEF SyncingExplained
<1> SUFFICES ASSUME NEW a \in Artifacts, inventory'[a] = "SYNCING" PROVE Explained(a)'
  OBVIOUS
<1>0. UNCHANGED handler
  BY Zenon DEF CallStep, Poll, AcquireRollsBack, Reclaim, ReclaimStatus, Acquire, CompleteJob, CompleteStatus,
     CompleteUnlock, FailJob, FailStatus, FailUnlock
<1>a. ASSUME inventory[a] = "SYNCING", UNCHANGED jobs, call.at \notin {"done", "failed", "reclaimed"}
      PROVE  Explained(a)'
  BY <1>0, <1>a DEF Explained
<1>1. CASE Poll
  <2>1. inventory[a] = "SYNCING" /\ call.at = "none" /\ jobs' = Remember(jobs, 0)
    BY <1>1 DEF Poll
  <2>2. Explained(a)
    BY <2>1
  <2>3. jobs \subseteq Jobs /\ UniqueIds(jobs)
    BY DEF TypeOK, JobsInv
  <2>4. \A j \in jobs : j.state \in Active => \E r \in jobs' : Same(r, j)
    BY <2>1, <2>3, ActiveKept
  <2> QED BY <1>0, <2>1, <2>2, <2>4 DEF Explained, Same, Active
<1>2. CASE AcquireRollsBack \/ CompleteUnlock \/ FailUnlock
  BY <1>2, <1>a DEF AcquireRollsBack, CompleteUnlock, FailUnlock
<1>3. CASE Reclaim
  <2>1. inventory[a] = "SYNCING" /\ call.at = "reclaim"
    BY <1>3 DEF Reclaim
  <2>2. CASE UNCHANGED jobs
    BY <1>a, <2>1, <2>2
  <2>3. ASSUME NEW id \in call.rows, jobs' = Requeued(id), call' = [at |-> "reclaimed", rows |-> call.rows \ {id}, row |-> id]
        PROVE  Explained(a)'
    <3>1. Explained(a) /\ UNCHANGED handler
      BY <1>0, <2>1
    <3>2. \A j \in jobs : \E r \in jobs' :
             SameRow(r, j) /\ (j.id = id => r.state = "queued") /\ (j.id # id => r = j)
      BY <2>3, RequeuedTable DEF JobsInv
    <3> QED BY <2>1, <2>3, <3>1, <3>2 DEF Explained, SameRow, Active
  <2> QED BY <1>3, <2>2, <2>3 DEF Reclaim
<1>4. CASE ReclaimStatus
  <2>1. inventory[a] = "SYNCING" /\ call.at = "reclaimed" /\ UNCHANGED jobs
    BY <1>4 DEF ReclaimStatus
  <2>2. ~\E j \in jobs : j.id = call.row /\ j.art = a
    BY <1>4, <2>1 DEF ReclaimStatus
  <2> QED BY <1>0, <2>1, <2>2 DEF Explained
<1>5. CASE Acquire
  <2>1. call.at = "reclaim"
    BY <1>5, Zenon DEF Acquire
  <2>2. CASE UNCHANGED <<jobs, inventory>>
    BY <1>a, <2>1, <2>2
  <2>3. ASSUME NEW bad \in SUBSET Unlocked, NEW local \in BOOLEAN, AcquireOutcome(bad, local) PROVE Explained(a)'
    <3> DEFINE left == Unlocked \ bad
               taken == IF left = {} THEN NoJob ELSE HandOver(Oldest(left), local)
               js == Acquired(bad, taken.id)
    <3>1. js \subseteq Jobs /\ UniqueIds(js)
      BY AcquiredTable DEF JobsInv, Edits
    <3>2. \A j \in jobs : j.state = "running" \/ (j \notin bad /\ j.id = taken.id) =>
              \E r \in js : SameRow(r, j) /\ r.state = "running"
      BY AcquiredTable DEF JobsInv
    <3>3. jobs' = Remember(js, 0)
      BY <2>3 DEF AcquireOutcome
    <3>4. inventory'[a] = IF inventory[a] = "none" THEN "none"
               ELSE IF \E j \in bad : j.art = a THEN "ERROR"
               ELSE IF left # {} /\ taken.art = a THEN "SYNCING" ELSE inventory[a]
      BY <2>3 DEF AcquireOutcome
    <3>5. left # {} => \E j \in jobs : j \notin bad /\ j.id = taken.id /\ j.art = taken.art
      <4>1. left \subseteq jobs /\ left \subseteq Jobs /\ left \cap bad = {}
        BY DEF Unlocked, TypeOK
      <4>2. left # {} => Oldest(left) \in left
        BY <4>1, OldestIsOne
      <4>3. left # {} => taken.id = Oldest(left).id /\ taken.art = Oldest(left).art
        BY DEF HandOver
      <4> HIDE DEF left, taken
      <4> QED BY <4>1, <4>2, <4>3
    <3> HIDE DEF left, taken, js
    <3>6. \A r \in js : r.state = "running" => \E q \in jobs' : Same(q, r)
      BY <3>1, <3>3, ActiveKept DEF Active
    <3>7. CASE left # {} /\ taken.art = a
      BY <3>2, <3>5, <3>6, <3>7 DEF Explained, SameRow, Same
    <3>8. CASE ~(left # {} /\ taken.art = a)
      <4>1. inventory[a] = "SYNCING"
        BY <3>4, <3>8
      <4>2. Explained(a)
        BY <4>1
      <4>3. (\E j \in jobs : j.art = a /\ j.state = "running") => \E q \in jobs' : q.art = a /\ q.state = "running"
        BY <3>2, <3>6 DEF SameRow, Same
      <4> QED BY <1>0, <2>1, <4>2, <4>3 DEF Explained
    <3> QED BY <3>7, <3>8
  <2> QED BY <1>5, <2>2, <2>3, AcquireCases
<1>6. CASE CompleteJob
  <2>1. inventory[a] = "SYNCING" /\ call.at = "complete"
    BY <1>6 DEF CompleteJob
  <2>2. CASE UNCHANGED jobs
    BY <1>a, <2>1, <2>2
  <2>3. ASSUME jobs' = Completed(agent.job.id), Now("done"), UNCHANGED agent PROVE Explained(a)'
    <3>1. \A j \in jobs : j.art # agent.job.art => j \in jobs'
      BY <2>3, CompletedTable DEF JobsInv, AgentsRow
    <3>2. call'.at = "done"
      BY <2>3 DEF Now, TypeOK
    <3> QED BY <1>0, <2>1, <2>3, <3>1, <3>2 DEF Explained
  <2> QED BY <1>6, <2>2, <2>3 DEF CompleteJob
<1>7. CASE CompleteStatus
  <2>1. call.at = "done" /\ UNCHANGED <<jobs, agent>>
    BY <1>7 DEF CompleteStatus
  <2>2. inventory[a] = "SYNCING" /\ a # agent.job.art
    BY <1>7 DEF CompleteStatus, AfterCompletion, TypeOK, JobsInv, DeletedHasNoRow, Handed
  <2> QED BY <1>0, <2>1, <2>2 DEF Explained
<1>8. CASE FailJob
  <2>1. inventory[a] = "SYNCING" /\ call.at = "fail"
    BY <1>8 DEF FailJob
  <2>2. CASE UNCHANGED jobs
    BY <1>a, <2>1, <2>2
  <2>3. ASSUME jobs' = Failed(agent.job.id), Now("failed"), UNCHANGED agent PROVE Explained(a)'
    <3>1. \A j \in jobs : j.art # agent.job.art => j \in jobs'
      BY <2>3, FailedTable DEF JobsInv, AgentsRow
    <3>2. call'.at = "failed"
      BY <2>3 DEF Now, TypeOK
    <3> QED BY <1>0, <2>1, <2>3, <3>1, <3>2 DEF Explained
  <2> QED BY <1>8, <2>2, <2>3 DEF FailJob
<1>9. CASE FailStatus
  <2>1. call.at = "failed" /\ UNCHANGED <<jobs, agent>>
    BY <1>9 DEF FailStatus
  <2>2. inventory[a] = "SYNCING" /\ a # agent.job.art
    BY <1>9 DEF FailStatus, SetStatus, TypeOK, Handed
  <2> QED BY <1>0, <2>1, <2>2 DEF Explained
<1> QED BY <1>1, <1>2, <1>3, <1>4, <1>5, <1>6, <1>7, <1>8, <1>9 DEF CallStep

LEMMA SyncingStep ==
    ASSUME TypeOK, JobsInv, SyncingExplained, Next
    PROVE  SyncingExplained'
<1>1. CASE ControlEnsures \/ PanelAsks \/ PanelDeletesFolder \/ (\E a \in Artifacts : GateAsks(a))
  <2>1. UNCHANGED <<jobs, agent, call, inventory>>
    BY <1>1 DEF ControlEnsures, PanelAsks, PanelDeletesFolder, GateAsks, hubTables
  <2>2. UNCHANGED handler["panel"] \/ handler["panel"].at = "none"
    BY <1>1 DEF ControlEnsures, PanelAsks, PanelDeletesFolder, GateAsks, TypeOK, Callers
  <2> QED BY <2>1, <2>2 DEF SyncingExplained, Explained
<1>2. CASE ProgressStep \/ SendProgress \/ \E a \in Artifacts : LockExpires(a)
  BY <1>2, SyncingElsewhere
  DEF ProgressStep, ProgressJob, ProgressStatus, WhileSyncing, SendProgress, LockExpires, hubTables
<1>3. CASE Verify \/ RemoveFolder \/ Install \/ InstallFails \/ Restart \/ ReportLost
  <2>1. UNCHANGED <<jobs, inventory, handler>>
    BY <1>3 DEF Verify, RemoveFolder, Install, InstallFails, Restart, ReportLost, hubTables
  <2>2. call.at \notin {"done", "failed", "reclaimed"}
    BY <1>3 DEF Verify, RemoveFolder, Install, InstallFails, Restart, ReportLost, JobsInv, CallFits
  <2> QED BY <2>1, <2>2, SyncingElsewhere
<1>4. CASE Crash
  <2>1. UNCHANGED <<jobs, inventory, handler, call>> /\ agent'.job = agent.job
    BY <1>4 DEF Crash, hubTables, TypeOK
  <2> QED BY <2>1 DEF SyncingExplained, Explained
<1>5. CASE GoesStale
  <2>1. PICK j \in jobs : j.state = "running" /\ jobs' = (jobs \ {j}) \cup {[j EXCEPT !.stale = TRUE]}
    BY <1>5 DEF GoesStale
  <2> DEFINE n == [j EXCEPT !.stale = TRUE]
  <2>2. n.id = j.id /\ n.art = j.art /\ n.state = j.state
    BY DEF TypeOK, Jobs
  <2>3. UNCHANGED <<inventory, handler, call, agent>>
    BY <1>5 DEF GoesStale
  <2> HIDE DEF n
  <2>4. \A k \in jobs : \E r \in jobs' : r.id = k.id /\ r.art = k.art /\ r.state = k.state
    BY <2>1, <2>2 DEF n
  <2> QED BY <2>3, <2>4 DEF SyncingExplained, Explained
<1> QED BY <1>1, <1>2, <1>3, <1>4, <1>5, SyncingHandlers, SyncingCalls DEF Next

-----------------------------------------------------------------------------
(* READY has its folder                                                    *)

LEMMA FolderStep ==
    ASSUME TypeOK, JobsInv, FolderInv, Next
    PROVE  FolderInv'
<1> USE NoJobTyped DEF FolderInv, ReadyHasFolder
<1>1. ASSUME NEW c \in Callers, HandlerStep(c) PROVE FolderInv'
  <2>1. UNCHANGED <<agent, call>>
    BY <1>1 DEF HandlerStep, Assign, Enqueue, MarkPending, Unassign, CancelJobs, PurgeFolder, DeletePackage
  <2>2. \A a \in Artifacts : inventory'[a] = "READY" => inventory[a] = "READY"
    BY <1>1 DEF HandlerStep, Assign, Enqueue, MarkPending, Unassign, CancelJobs, PurgeFolder, DeletePackage,
                SetStatus, TypeOK, hubTables
  <2>3. \A a \in Artifacts : disk[a] # "none" \/ a \in purged => disk'[a] # "none" \/ a \in purged'
    BY <1>1 DEF HandlerStep, Assign, Enqueue, MarkPending, Unassign, CancelJobs, PurgeFolder, DeletePackage,
                TypeOK
  <2>4. agent.job.art \in Artifacts
    BY DEF TypeOK, Handed
  <2> QED BY <2>1, <2>2, <2>3, <2>4
<1>2. CASE ControlEnsures \/ PanelAsks \/ PanelDeletesFolder \/ (\E a \in Artifacts : GateAsks(a))
  <2>1. UNCHANGED <<agent, call, inventory>>
    BY <1>2 DEF ControlEnsures, PanelAsks, PanelDeletesFolder, GateAsks, hubTables
  <2>2. \A a \in Artifacts : disk[a] # "none" \/ a \in purged => disk'[a] # "none" \/ a \in purged'
    BY <1>2 DEF ControlEnsures, PanelAsks, PanelDeletesFolder, GateAsks, TypeOK
  <2>3. agent.job.art \in Artifacts
    BY DEF TypeOK, Handed
  <2> QED BY <2>1, <2>2, <2>3
<1>3. CASE ReclaimStatus \/ FailStatus \/ ProgressStep \/ SendProgress \/ GoesStale \/ \E a \in Artifacts : LockExpires(a)
  <2>1. UNCHANGED <<agent, disk, purged>>
    BY <1>3 DEF ReclaimStatus, FailStatus, ProgressStep, ProgressJob, ProgressStatus, SendProgress, GoesStale,
                LockExpires, hubTables
  <2>2. \A a \in Artifacts : inventory'[a] = "READY" => inventory[a] = "READY"
    BY <1>3 DEF ReclaimStatus, FailStatus, ProgressStep, ProgressJob, ProgressStatus, SendProgress, GoesStale,
                LockExpires, hubTables, SetStatus, WhileSyncing, TypeOK
  <2>3. call' = call \/ call'.at \notin {"complete", "done"}
    BY <1>3 DEF ReclaimStatus, FailStatus, ProgressStep, ProgressJob, ProgressStatus, SendProgress, GoesStale,
                LockExpires, hubTables, Now, TypeOK
  <2>4. agent.job.art \in Artifacts
    BY DEF TypeOK, Handed
  <2> QED BY <2>1, <2>2, <2>3, <2>4
<1>4. CASE Reclaim \/ AcquireRollsBack \/ CompleteUnlock \/ FailJob \/ FailUnlock \/ ReportLost \/ Restart
  <2>1. UNCHANGED <<inventory, disk, purged>>
    BY <1>4 DEF Reclaim, AcquireRollsBack, CompleteUnlock, FailJob, FailUnlock, ReportLost, Restart, hubTables
  <2>2. call'.at \notin {"complete", "done"}
    BY <1>4 DEF Reclaim, AcquireRollsBack, CompleteUnlock, FailJob, FailUnlock, ReportLost, Restart,
                Now, Answer, NoCall, TypeOK
  <2>3. agent'.at # "job"
    BY <1>4 DEF Reclaim, AcquireRollsBack, CompleteUnlock, FailJob, FailUnlock, ReportLost, Restart,
                Answer, NoCall, TypeOK, JobsInv, CallFits
  <2> QED BY <2>1, <2>2, <2>3
<1>5. CASE Poll
  <2> DEFINE ids == {j.id : j \in {k \in jobs : k.state = "running" /\ k.stale}}
  <2>1. call' = [at |-> "reclaim", rows |-> ids, row |-> 0] /\ UNCHANGED <<inventory, disk, purged>>
    BY <1>5, Zenon DEF Poll, NoCall
  <2> HIDE DEF ids
  <2>2. agent' = [at |-> "calling", job |-> NoJob]
    BY <1>5 DEF Poll
  <2> QED BY <2>1, <2>2
<1>6. CASE Acquire
  <2>1. UNCHANGED <<disk, purged>>
    BY <1>6, Zenon DEF Acquire
  <2>2. CASE Answer("idle", NoJob) /\ UNCHANGED <<jobs, inventory>>
    BY <2>1, <2>2, <1>6 DEF Answer, NoCall, Acquire, JobsInv, CallFits
  <2>3. ASSUME NEW bad \in SUBSET Unlocked, NEW local \in BOOLEAN, AcquireOutcome(bad, local) PROVE FolderInv'
    <3> DEFINE left == Unlocked \ bad
               taken == IF left = {} THEN NoJob ELSE HandOver(Oldest(left), local)
    <3>1. \A a \in Artifacts : inventory'[a] = IF inventory[a] = "none" THEN "none"
               ELSE IF \E j \in bad : j.art = a THEN "ERROR"
               ELSE IF left # {} /\ taken.art = a THEN "SYNCING" ELSE inventory[a]
      BY <2>3 DEF AcquireOutcome
    <3>2. Answer(IF left = {} THEN "idle" ELSE "job", taken) \/ Answer("idle", NoJob)
      BY <2>3 DEF AcquireOutcome
    <3>3. left # {} => taken.art \in Artifacts
      <4>1. left \subseteq jobs /\ left \subseteq Jobs
        BY DEF Unlocked, TypeOK
      <4>2. left # {} => Oldest(left) \in jobs
        BY <4>1, OldestIsOne
      <4> HIDE DEF left
      <4> QED BY <4>2, HandOverTyped DEF Handed
    <3>4. call.at = "reclaim"
      BY <1>6, Zenon DEF Acquire
    <3> HIDE DEF left, taken
    <3>5. call' = NoCall
      BY <3>2 DEF Answer
    <3>6. agent'.at = "job" => left # {} /\ agent'.job = taken
      BY <3>2, <3>4 DEF Answer, JobsInv, CallFits
    <3>7. \A a \in Artifacts : inventory'[a] = "READY" => inventory[a] = "READY" /\ ~(left # {} /\ taken.art = a)
      BY <3>1
    <3> QED BY <2>1, <3>3, <3>5, <3>6, <3>7 DEF NoCall
  <2> QED BY <1>6, <2>2, <2>3, AcquireCases
<1>7. CASE CompleteJob
  <2>1. UNCHANGED <<inventory, disk, purged>> /\ call.at = "complete"
    BY <1>7 DEF CompleteJob
  <2>2. UNCHANGED agent \/ (call' = NoCall /\ agent'.at # "job")
    BY <1>7 DEF CompleteJob, Answer
  <2>3. UNCHANGED agent => call'.at = "done" \/ call' = NoCall
    BY <1>7 DEF CompleteJob, Answer, Now, TypeOK
  <2> QED BY <2>1, <2>2, <2>3 DEF NoCall, JobsInv, CallFits
<1>8. CASE CompleteStatus
  <2>1. UNCHANGED <<agent, disk, purged>> /\ call.at = "done" /\ agent.at # "job"
    BY <1>8 DEF CompleteStatus, JobsInv, CallFits
  <2>2. call'.at \in {"none", "fail", "unlock"}
    BY <1>8 DEF CompleteStatus, Now, TypeOK
  <2>3. \A a \in Artifacts : inventory'[a] = "READY" =>
            inventory[a] = "READY" \/ (a = agent.job.art /\ agent.job.op # "remove")
    BY <1>8 DEF CompleteStatus, AfterCompletion, TypeOK, Handed
  <2> QED BY <2>1, <2>2, <2>3
<1>9. ASSUME Reports("complete") \/ Reports("fail")
      PROVE  agent'.at = "reporting" /\ agent'.job = agent.job /\ call'.at \in {"complete", "fail"}
             /\ (Reports("fail") => call'.at = "fail")
  BY <1>9 DEF Reports, NoCall, TypeOK
<1>10. CASE Verify
  <2>1. UNCHANGED <<inventory, disk, purged>>
    BY <1>10 DEF Verify, hubTables
  <2>2. disk[agent.job.art] = "none" => Reports("fail")
    BY <1>10 DEF Verify
  <2>3. Reports("complete") \/ Reports("fail")
    BY <1>10 DEF Verify
  <2> QED BY <2>1, <2>2, <2>3, <1>9
<1>11. CASE RemoveFolder
  <2>1. /\ disk' = [disk EXCEPT ![agent.job.art] = "none"] /\ purged' = purged \ {agent.job.art}
        /\ UNCHANGED inventory /\ agent.at = "job" /\ agent.job.op = "remove" /\ Reports("complete")
    BY <1>11 DEF RemoveFolder, hubTables
  <2> QED BY <2>1, <1>9 DEF TypeOK, Handed
<1>12. CASE Install
  <2>1. /\ disk' = [disk EXCEPT ![agent.job.art] = "whole"] /\ purged' = purged \ {agent.job.art}
        /\ UNCHANGED inventory /\ Reports("complete")
    BY <1>12 DEF Install, hubTables
  <2> QED BY <2>1, <1>9 DEF TypeOK, Handed
<1>13. CASE InstallFails
  <2>1. PICK left \in {disk[agent.job.art], "part"} : disk' = [disk EXCEPT ![agent.job.art] = left]
    BY <1>13 DEF InstallFails
  <2>2. UNCHANGED <<inventory, purged>> /\ Reports("fail")
    BY <1>13 DEF InstallFails, hubTables
  <2> QED BY <2>1, <2>2, <1>9 DEF TypeOK, Handed
<1>14. CASE Crash
  <2>1. PICK left \in {disk[agent.job.art], "part"} : disk' = [disk EXCEPT ![agent.job.art] = left]
    BY <1>14 DEF Crash
  <2>2. UNCHANGED <<inventory, purged, call>> /\ agent'.at = "down" /\ agent'.job = agent.job
    BY <1>14 DEF Crash, hubTables, TypeOK
  <2> QED BY <2>1, <2>2 DEF TypeOK, Handed
<1> QED BY <1>1, <1>2, <1>3, <1>4, <1>5, <1>6, <1>7, <1>8, <1>10, <1>11, <1>12, <1>13, <1>14
    DEF Next, CallStep

-----------------------------------------------------------------------------
(* The theorems                                                            *)

LEMMA InitInv == Init => IInv
BY TypeInit, NoJobTyped
   DEF Init, IInv, JobsInv, UniqueIds, AgentsRow, CallFits, DeletedHasNoRow, SyncingExplained, FolderInv,
       ReadyHasFolder, NoCall, NoRequest, Callers

LEMMA StepInv == IInv /\ [Next]_vars => IInv'
<1> SUFFICES ASSUME IInv, [Next]_vars PROVE IInv'
  OBVIOUS
<1>1. CASE Next
  <2>1. jobs' \subseteq Jobs
    BY <1>1, TableStep DEF IInv, JobsInv, Lineage
  <2> QED BY <1>1, <2>1, TypeStep, JobsStep, SyncingStep, FolderStep DEF IInv
<1>2. CASE UNCHANGED vars
  BY <1>2 DEF vars, IInv, TypeOK, JobsInv, UniqueIds, AgentsRow, CallFits, DeletedHasNoRow, SyncingExplained,
              Explained, FolderInv, ReadyHasFolder
<1> QED BY <1>1, <1>2

LEMMA Invariance == Spec => []IInv
BY InitInv, StepInv, PTL DEF Spec

(* The tables, the calls and the folders keep their types.                 *)
THEOREM JobTypes == Spec => []TypeOK
<1>1. IInv => TypeOK
  BY DEF IInv
<1> QED BY <1>1, Invariance, PTL

(* An artifact is shown as SYNCING only while a job of it runs or the next *)
(* statement of the handler that ended the run will correct it.            *)
THEOREM SyncingIsRunning == Spec => []SyncingHasRun
<1>1. IInv => SyncingHasRun
  BY DEF IInv, SyncingExplained, Explained, SyncingHasRun
<1> QED BY <1>1, Invariance, PTL

(* An artifact called READY has its folder on the edge, unless somebody    *)
(* deleted the folder by hand.                                             *)
THEOREM ReadyIsThere == Spec => []ReadyHasFolder
<1>1. IInv => ReadyHasFolder
  BY DEF IInv, FolderInv
<1> QED BY <1>1, Invariance, PTL

=============================================================================
