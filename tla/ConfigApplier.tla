--------------------------- MODULE ConfigApplier ---------------------------
(***************************************************************************)
(* The config applier of an edge (redisConfigApplier.ts) for one of its    *)
(* game servers: snapshots come through the stream ac:config, a row of a   *)
(* snapshot is reconciled with the local game server, and rows whose mods  *)
(* are not installed wait in pendingReconcileByServer for a timer or for   *)
(* the mod agent.  With it: the acknowledgement of snapshots and their     *)
(* dead letters (configApplierAck.ts), the start gate (startGate.ts), the  *)
(* game server's process (controller.ts) and its phase (serverLifecycle).  *)
(*                                                                         *)
(* Reconciles of one server run concurrently: the loop's, those of the     *)
(* timer and of the mod agent, and starts over HTTP.  A step of a task     *)
(* ends at an await.  Only the gate and the pause of a restart let other   *)
(* events in; at the other awaits just the tasks that one gate has woken   *)
(* interleave (Quiet).  Every row has entries, and a row stands for its    *)
(* signature.                                                              *)
(***************************************************************************)
EXTENDS Integers, SequencesExt

CONSTANTS
    Rows,                       \* the rows the hub may publish
    IsActive,                   \* each row's isActive: "on", "off" or "unset"
    Unrecoverable,              \* rows whose mods no library has
    Present,                    \* rows whose mods are installed at the start
    RESTART_ON_BOOT, PoolMode,
    PENDING_MAX_ATTEMPTS, MaxFailures,
    Retries,                    \* retries and HTTP starts at work at once (bound)
    MaxMessages, MaxEvents, MaxPids    \* bounds

ASSUME ApplierAssumption ==
    /\ IsActive \in [Rows -> {"on", "off", "unset"}] 
    /\ Unrecoverable \subseteq Rows /\ Present \subseteq Rows
    /\ RESTART_ON_BOOT \in BOOLEAN /\ PoolMode \in BOOLEAN
    /\ PENDING_MAX_ATTEMPTS \in Nat \ {0} /\ MaxFailures \in Nat \ {0}
    /\ MaxMessages \in Nat /\ MaxEvents \in Nat /\ MaxPids \in Nat
    /\ "loop" \notin Retries /\ {"foreign", "broken", "none"} \cap Rows = {}

VARIABLES
    stream, read,               \* ac:config, and the group's last delivered entry
    pel, acked,                 \* entries delivered and not acknowledged; acknowledged
    fails, seen, dlq,           \* failure counts, dlq-seen keys, the dead letters
    handled,                    \* entries whose handler came to its end
    up, isFirstSnapshot,
    batch, stage,               \* the loop's entries, taken in their order, and
                                \* where it is with the one at hand
    tasks,                      \* reconciles and starts at work
    pending, gaveUp,            \* pendingReconcileByServer; the last retry was dropped
    lastSignature, ini, phase,  \* lastSignatures, server_cfg.ini, lifecycle
    content,                    \* each row's mods on CONTENT_PATH
    active,                     \* activeServers: the pid known for the server
    procs, children, exits,     \* living pids, own ones, exits not yet delivered
    events                      \* crashes, failed Redis calls, HTTP requests so far

redisVars == <<stream, read, pel, acked, fails, seen, dlq>>
loopVars == <<batch, stage, handled, isFirstSnapshot>>
procVars == <<active, procs, children, exits>>
vars == <<redisVars, loopVars, up, tasks, pending, gaveUp, lastSignature, ini,
          phase, content, procVars, events>>

Slots == Retries \cup {"loop"}
Ids == 1 .. MaxMessages
NoPid == 0
Entry == Min(batch)
NoPending == [row |-> "none", attempts |-> 0, armed |-> FALSE]
NoTask == [pc |-> "idle", kind |-> "none", row |-> "none", path |-> "none",
           running |-> FALSE, changed |-> FALSE, res |-> "none"]

Disturbed == events < MaxEvents /\ events' = events + 1

(* No task has anything left to do before the next event.                  *)
Awake(t) ==
    /\ tasks[t].pc \notin {"idle", "respawn"}
    /\ ~(tasks[t].pc \in {"preflight", "gate"} /\ tasks[t].res = "wait")
Quiet == up /\ \A t \in Slots: ~Awake(t)

Init ==
    /\ stream = <<>> /\ read = 0 /\ pel = {} /\ acked = {}
    /\ fails = [m \in Ids |-> 0] /\ seen = {} /\ dlq = {} /\ handled = {}
    /\ up = TRUE /\ isFirstSnapshot = TRUE /\ batch = {} /\ stage = "next"
    /\ tasks = [s \in Slots |-> NoTask] /\ pending = NoPending /\ gaveUp = FALSE
    /\ lastSignature = "none" /\ ini = "none" /\ phase = "none"
    /\ content = [r \in Rows |-> IF r \in Present THEN "ready" ELSE "absent"]
    /\ active = NoPid /\ procs = {} /\ children = {} /\ exits = {}
    /\ events = 0
-----------------------------------------------------------------------------
(* The stream, and what becomes of a snapshot once it was handled.         *)

Publish ==
    /\ Len(stream) < MaxMessages
    /\ \E m \in Rows \cup {"foreign", "broken"}: stream' = Append(stream, m)
    /\ UNCHANGED <<read, pel, acked, fails, seen, dlq, loopVars, up, tasks, pending,
                   gaveUp, lastSignature, ini, phase, content, procVars, events>>

Deliver(ids) ==
    /\ Quiet /\ batch = {} /\ ids # {} /\ batch' = ids
    /\ UNCHANGED <<stream, acked, fails, seen, dlq, stage, handled, isFirstSnapshot, up,
                   tasks, pending, gaveUp, lastSignature, ini, phase, content, procVars,
                   events>>

ReadGroup ==
    LET new == (read + 1) .. Len(stream) IN
    Deliver(new) /\ pel' = pel \cup new /\ read' = Len(stream)

(* Mutant: entries are reclaimed at boot only.                             *)
ReclaimAtBoot ==
    isFirstSnapshot /\ \E ids \in SUBSET pel: Deliver(ids) /\ UNCHANGED <<pel, read>>

(* Entries idle for long enough, at boot or every few minutes.             *)
ReclaimPending == \E ids \in SUBSET pel: Deliver(ids) /\ UNCHANGED <<pel, read>>

(* A row is reconciled; a snapshot of another instance is left alone; one  *)
(* with an unreadable row throws before any row is reconciled.             *)
HandleSnapshot ==
    /\ Quiet /\ stage = "next" /\ batch # {}
    /\ LET m == stream[Entry] IN
       IF m \in Rows
       THEN /\ stage' = "applying"
            /\ tasks' = [tasks EXCEPT !["loop"] =
                           [NoTask EXCEPT !.pc = "begin", !.kind = "reconcile", !.row = m]]
            /\ UNCHANGED <<handled, isFirstSnapshot>>
       ELSE /\ stage' = IF m = "broken" THEN "failed" ELSE "ok"
            /\ handled' = IF m = "broken" THEN handled ELSE handled \cup {Entry}
            /\ isFirstSnapshot' = (isFirstSnapshot /\ m = "broken")
            /\ UNCHANGED tasks
    /\ UNCHANGED <<redisVars, batch, up, pending, gaveUp, lastSignature, ini, phase,
                   content, procVars, events>>

Leave == batch' = batch \ {Entry} /\ stage' = "next"

AckUnchanged == UNCHANGED <<stream, read, handled, isFirstSnapshot, up, tasks, pending,
                            gaveUp, lastSignature, ini, phase, content, procVars>>

XAck ==
    /\ pel' = pel \ {Entry} /\ acked' = acked \cup {Entry}
    /\ fails' = [fails EXCEPT ![Entry] = 0]

AckApplied ==
    /\ Quiet /\ stage \in {"ok", "written"} /\ XAck /\ Leave
    /\ AckUnchanged /\ UNCHANGED <<seen, dlq, events>>

CountFailure ==
    LET m == Entry  count == fails[m] + 1 IN
    /\ Quiet /\ stage = "failed"
    /\ \/ /\ count < MaxFailures
          /\ Leave /\ fails' = [fails EXCEPT ![m] = count]
          /\ UNCHANGED <<pel, acked, seen>>
       \/ /\ count >= MaxFailures /\ m \in seen
          /\ Leave /\ XAck /\ UNCHANGED seen
       \/ /\ count >= MaxFailures /\ m \notin seen
          /\ seen' = seen \cup {m} /\ stage' = "claimed"
          /\ fails' = [fails EXCEPT ![m] = count]
          /\ UNCHANGED <<batch, pel, acked>>
    /\ AckUnchanged /\ UNCHANGED <<dlq, events>>

WriteDeadLetterOrLog ==
    /\ Quiet /\ stage = "claimed" /\ stage' = "written"
    /\ \/ dlq' = dlq \cup {Entry} /\ UNCHANGED <<seen, events>>
       \/ Disturbed /\ seen' = seen \ {Entry} /\ UNCHANGED dlq
    /\ AckUnchanged /\ UNCHANGED <<batch, pel, acked, fails>>

WriteDeadLetter ==
    /\ Quiet /\ stage = "claimed"
    /\ \/ /\ dlq' = dlq \cup {Entry} /\ stage' = "written"
          /\ UNCHANGED <<batch, seen, events>>
       \/ /\ Disturbed
          /\ seen' = seen \ {Entry} /\ Leave /\ UNCHANGED dlq
    /\ AckUnchanged /\ UNCHANGED <<pel, acked, fails>>

(* A call to Redis fails while the outcome is recorded: left unacked.      *)
AckPathFails ==
    /\ Quiet /\ stage \in {"ok", "failed", "written"} /\ Disturbed /\ Leave
    /\ AckUnchanged /\ UNCHANGED <<pel, acked, fails, seen, dlq>>
-----------------------------------------------------------------------------
(* Pending rows, the phase and the process.                                *)

ScheduleOldTimer(pd, r) ==
    IF pd.attempts + 1 > PENDING_MAX_ATTEMPTS THEN NoPending
    ELSE [row |-> r, attempts |-> pd.attempts + 1, armed |-> pd = NoPending \/ pd.armed]

ScheduleUncounted(pd, r) ==
    [row |-> r, attempts |-> IF pd = NoPending THEN 1 ELSE pd.attempts, armed |-> TRUE]

Schedule(pd, r) ==
    LET n == pd.attempts + 1 IN
    IF n > PENDING_MAX_ATTEMPTS THEN NoPending
    ELSE [row |-> r, attempts |-> n, armed |-> TRUE]

ShouldStart(r) == IF PoolMode THEN IsActive[r] = "on" ELSE IsActive[r] # "off"

EndTask(t) ==
    /\ tasks' = [tasks EXCEPT ![t] = NoTask]
    /\ IF t = "loop"
       THEN stage' = "ok" /\ handled' = handled \cup {Entry} /\ isFirstSnapshot' = FALSE
       ELSE UNCHANGED <<stage, handled, isFirstSnapshot>>

(* The reconcile scheduled a retry and returns pending_mods; whoever       *)
(* called it for a retry schedules once more on that answer.               *)
EndPending(t) ==
    /\ EndTask(t)
    /\ pending' = LET once == Schedule(pending, tasks[t].row) IN
                  IF t = "loop" THEN once ELSE Schedule(once, tasks[t].row)
    /\ gaveUp' = (pending' = NoPending)

EndCleared(t) == EndTask(t) /\ pending' = NoPending /\ gaveUp' = FALSE

Goto(t, task) ==
    /\ tasks' = [tasks EXCEPT ![t] = task]
    /\ UNCHANGED <<stage, handled, isFirstSnapshot, pending, gaveUp>>

Kill ==
    /\ active' = NoPid /\ procs' = procs \ {active}
    /\ exits' = exits \cup ({active} \cap children \cap procs)
    /\ UNCHANGED children

(* startServerCore and what afterSpawnLifecycle makes of it.               *)
Spawn ==
    \/ LET free == (1 .. MaxPids) \ (procs \cup exits) IN
       /\ active = NoPid /\ free # {} /\ active' = Min(free)
       /\ procs' = procs \cup {Min(free)} /\ children' = children \cup {Min(free)}
       /\ phase' = "ONLINE" /\ UNCHANGED exits
    \/ phase' = "FAILED" /\ UNCHANGED procVars

MarkNothing == UNCHANGED phase

MarkOnlineIfRunning == phase' = IF active # NoPid THEN "ONLINE" ELSE phase
-----------------------------------------------------------------------------
(* The start gate: callers with the same server and content share a wait.  *)

GateKey(t) == IF tasks[t].kind = "reconcile" THEN tasks[t].row ELSE "none"
Required(key) == IF key = "none" THEN ini ELSE key
Waiting(key) == {t \in Slots: tasks[t].pc \in {"preflight", "gate"}
                              /\ tasks[t].res = "wait" /\ GateKey(t) = key}
Installed(r) == r = "none" \/ content[r] # "absent"

EnterGate(t, task) ==
    /\ Goto(t, [task EXCEPT !.pc = "gate", !.res = "wait"])
    /\ phase' = IF Waiting(GateKey(t)) = {} THEN "PREPARING" ELSE phase

GateUnchanged == UNCHANGED <<redisVars, loopVars, up, pending, gaveUp, lastSignature, ini,
                             content, procVars, events>>

GatePolls ==
    /\ Quiet /\ \E key \in Rows \cup {"none"}: Waiting(key) # {} /\ ~Installed(Required(key))
    /\ phase' = "PREPARING" /\ GateUnchanged /\ UNCHANGED tasks

GateEnds(key) ==
    /\ Quiet /\ Waiting(key) # {}
    /\ \E res \in {"ok", "unrecoverable", "timeout"}:
         /\ (res = "ok") <=> Installed(Required(key))
         /\ res = "unrecoverable" => Required(key) \in Unrecoverable
         /\ tasks' = [t \in Slots |-> IF t \in Waiting(key)
                                      THEN [tasks[t] EXCEPT !.res = res] ELSE tasks[t]]
         /\ phase' = IF res = "ok" THEN phase ELSE "FAILED"
    /\ GateUnchanged
-----------------------------------------------------------------------------
(* reconcileServer, one step per stretch between awaits.                   *)

StepUnchanged == UNCHANGED <<redisVars, batch, up, content, events>>

Preflight(t) ==
    LET task == tasks[t] IN
    /\ task.pc = "begin" /\ StepUnchanged /\ UNCHANGED <<lastSignature, ini, procVars>>
    /\ \/ /\ IsActive[task.row] = "off" \/ content[task.row] = "ready"
          /\ Goto(t, [task EXCEPT !.pc = "body"]) /\ UNCHANGED phase
       \/ /\ IsActive[task.row] # "off" /\ content[task.row] = "extracting"
          /\ phase' = "PREPARING" /\ EndPending(t)
       \/ /\ IsActive[task.row] # "off" /\ content[task.row] = "absent"
          /\ phase' = "PREPARING"
          /\ Goto(t, [task EXCEPT !.pc = "preflight", !.res = "wait"])

PreflightEnds(t) ==
    LET task == tasks[t] IN
    /\ task.pc = "preflight" /\ task.res # "wait"
    /\ StepUnchanged /\ UNCHANGED <<lastSignature, ini, procVars>>
    /\ CASE task.res = "ok" -> Goto(t, [task EXCEPT !.pc = "body"]) /\ UNCHANGED phase
         [] task.res = "unrecoverable" -> EndCleared(t) /\ phase' = "FAILED"
         [] task.res = "timeout" -> EndPending(t) /\ phase' = "PREPARING"

(* server_cfg.ini and entry_list.ini are written, or cannot be.            *)
WriteConfig(r) ==
    \/ ini' = r /\ phase' = "CONFIGURING"
    \/ ini' = ini /\ phase' = "FAILED"

(* What is compared here is acted on after the awaits.                     *)
Compare(t) ==
    LET task == tasks[t]
        running == active # NoPid
        changed == lastSignature # task.row
        same == ~changed /\ ~(t = "loop" /\ isFirstSnapshot)
        path == IF same THEN "same"
                ELSE IF IsActive[task.row] = "off" THEN "off"
                ELSE IF ShouldStart(task.row) THEN "on" ELSE "idle"
        next == [task EXCEPT !.pc = "branding", !.path = path,
                             !.running = running, !.changed = changed]
    IN
    /\ task.pc = "body" /\ StepUnchanged /\ UNCHANGED lastSignature
    /\ \/ /\ content[task.row] # "ready"         \* no valid cars
          /\ EndPending(t) /\ UNCHANGED <<ini, phase, procVars>>
       \/ /\ content[task.row] = "ready" /\ Goto(t, next)
          /\ \/ path = "same" /\ UNCHANGED <<ini, phase, procVars>>
             \/ /\ path = "off" /\ phase' = "none" /\ UNCHANGED ini
                /\ IF running THEN Kill ELSE UNCHANGED procVars
             \/ /\ path \in {"on", "idle"} /\ UNCHANGED procVars
                /\ WriteConfig(task.row)

Applied(t) == lastSignature' = tasks[t].row /\ EndCleared(t)

Branded(t) ==
    LET task == tasks[t]
        skip == t = "loop" /\ isFirstSnapshot /\ ~RESTART_ON_BOOT
        start == [task EXCEPT !.changed = FALSE]
    IN
    /\ task.pc = "branding" /\ StepUnchanged /\ UNCHANGED ini
    /\ \/ /\ task.path = "same" /\ UNCHANGED <<lastSignature, procVars>>
          /\ IF ~task.running /\ ShouldStart(task.row) THEN EnterGate(t, start)
             ELSE /\ EndCleared(t)
                  /\ IF task.running /\ ShouldStart(task.row)
                     THEN MarkOnlineIfRunning ELSE UNCHANGED phase
       \/ task.path = "off" /\ Applied(t) /\ UNCHANGED <<phase, procVars>>
       \/ /\ task.path = "idle" /\ Applied(t) /\ phase' = "none"
          /\ IF task.running /\ active # NoPid THEN Kill ELSE UNCHANGED procVars
       \/ /\ task.path = "on" /\ UNCHANGED procVars
          /\ CASE task.running /\ task.changed ->
                    EnterGate(t, task) /\ UNCHANGED lastSignature
               [] ~task.running /\ ~skip ->
                    EnterGate(t, start) /\ UNCHANGED lastSignature
               [] ~task.running /\ skip -> Applied(t) /\ UNCHANGED phase
               [] task.running /\ ~task.changed -> Applied(t) /\ MarkOnlineIfRunning

(* The end of a start: a failed one is not retried either.                 *)
Started(t) ==
    CASE tasks[t].kind = "http" -> EndTask(t) /\ UNCHANGED <<pending, gaveUp, lastSignature>>
      [] tasks[t].path = "same" -> EndCleared(t) /\ UNCHANGED lastSignature
      [] tasks[t].path = "on" -> Applied(t)

(* startServerWithMods and restartServerWithMods, after the gate.          *)
GatePassed(t) ==
    LET task == tasks[t] IN
    /\ task.pc = "gate" /\ task.res # "wait" /\ StepUnchanged /\ UNCHANGED ini
    /\ \/ /\ task.res = "ok" /\ ~task.changed
          /\ Spawn /\ Started(t)
       \/ /\ task.res = "ok" /\ task.changed
          /\ phase' = "STARTING" /\ Goto(t, [task EXCEPT !.pc = "respawn"])
          /\ IF active # NoPid THEN Kill ELSE UNCHANGED procVars
          /\ UNCHANGED lastSignature
       \/ /\ task.res # "ok" /\ phase' = "FAILED" /\ UNCHANGED <<procVars, lastSignature>>
          /\ IF task.kind = "http" THEN EndTask(t) /\ UNCHANGED <<pending, gaveUp>>
             ELSE EndPending(t)

Respawn(t) ==
    /\ tasks[t].pc = "respawn" /\ Quiet /\ Spawn /\ Started(t)
    /\ StepUnchanged /\ UNCHANGED ini

TaskStep(t) ==
    up /\ (Preflight(t) \/ PreflightEnds(t) \/ Compare(t) \/ Branded(t) \/ GatePassed(t)
           \/ Respawn(t))
-----------------------------------------------------------------------------
(* What starts a task besides the loop, and the world around the edge.     *)

Begin(kind, r, restart) ==
    \E t \in Retries:
      /\ tasks[t] = NoTask
      /\ tasks' = [tasks EXCEPT ![t] =
                     [NoTask EXCEPT !.pc = IF kind = "http" THEN "gate" ELSE "begin",
                                    !.kind = kind, !.row = r, !.changed = restart,
                                    !.res = IF kind = "http" THEN "wait" ELSE "none"]]

RetryFires ==
    /\ Quiet /\ pending.armed /\ Begin("reconcile", pending.row, FALSE)
    /\ pending' = [pending EXCEPT !.armed = FALSE]
    /\ UNCHANGED <<redisVars, loopVars, up, gaveUp, lastSignature, ini, phase, content,
                   procVars, events>>

InstallBegins(r) ==
    /\ Quiet /\ content[r] = "absent" /\ r \notin Unrecoverable
    /\ content' = [content EXCEPT ![r] = "extracting"]
    /\ UNCHANGED <<redisVars, loopVars, up, tasks, pending, gaveUp, lastSignature, ini,
                   phase, procVars, events>>

(* The mod agent reports the content and flushes the row that waits for it. *)
InstallEnds(r) ==
    /\ Quiet /\ content[r] = "extracting"
    /\ content' = [content EXCEPT ![r] = "ready"]
    /\ IF pending.row = r
       THEN /\ Begin("reconcile", r, FALSE)
            /\ pending' = [pending EXCEPT !.armed = FALSE]
       ELSE UNCHANGED <<tasks, pending>>
    /\ UNCHANGED <<redisVars, loopVars, up, gaveUp, lastSignature, ini, phase, procVars,
                   events>>

HttpStart ==
    /\ Quiet /\ Disturbed
    /\ \E restart \in BOOLEAN: Begin("http", "none", restart)
    /\ phase' = IF Waiting("none") = {} THEN "PREPARING" ELSE phase
    /\ UNCHANGED <<redisVars, loopVars, up, pending, gaveUp, lastSignature, ini, content,
                   procVars>>

KillUnchanged == UNCHANGED <<redisVars, loopVars, up, tasks, pending, gaveUp, lastSignature,
                             ini, phase, content>>

HttpStop ==
    /\ Quiet /\ Disturbed /\ active # NoPid
    /\ Kill /\ KillUnchanged

(* Nobody drives there any more (idleShutdownTick of the pool).            *)
IdleShutdown ==
    /\ Quiet /\ PoolMode /\ active # NoPid /\ Kill /\ KillUnchanged /\ UNCHANGED events

ProcessDies(p) ==
    /\ p \in procs /\ procs' = procs \ {p}
    /\ exits' = IF p \in children THEN exits \cup {p} ELSE exits
    /\ UNCHANGED <<active, children>> /\ KillUnchanged /\ UNCHANGED events

(* The exit handler clears the server's entry, whoever is in it by then.   *)
ExitHandler(p) ==
    /\ Quiet /\ p \in exits /\ exits' = exits \ {p} /\ active' = NoPid
    /\ UNCHANGED <<procs, children>> /\ KillUnchanged /\ UNCHANGED events

Crash ==
    /\ up /\ Disturbed
    /\ up' = FALSE /\ isFirstSnapshot' = TRUE /\ batch' = {} /\ stage' = "next"
    /\ tasks' = [s \in Slots |-> NoTask] /\ pending' = NoPending /\ gaveUp' = FALSE
    /\ lastSignature' = "none" /\ phase' = "none"
    /\ active' = NoPid /\ children' = {} /\ exits' = {}
    /\ UNCHANGED <<redisVars, handled, ini, content, procs>>

(* cleanupOrphanProcesses adopts one living process of the server.         *)
Boot ==
    /\ ~up /\ up' = TRUE
    /\ IF procs = {} THEN active' = NoPid ELSE active' \in procs
    /\ UNCHANGED <<redisVars, loopVars, tasks, pending, gaveUp, lastSignature, ini, phase,
                   content, procs, children, exits, events>>
-----------------------------------------------------------------------------
Loop == ReadGroup \/ ReclaimPending \/ HandleSnapshot \/ AckApplied \/ CountFailure
        \/ WriteDeadLetter

Next ==
    \/ Publish \/ Loop \/ AckPathFails
    \/ \E t \in Slots: TaskStep(t)
    \/ GatePolls \/ \E key \in Rows \cup {"none"}: GateEnds(key)
    \/ RetryFires \/ \E r \in Rows: InstallBegins(r) \/ InstallEnds(r)
    \/ HttpStart \/ HttpStop \/ IdleShutdown
    \/ \E p \in 1 .. MaxPids: ProcessDies(p) \/ ExitHandler(p)
    \/ Crash \/ Boot

(* Awaited calls return, timers fire, the gate has a deadline, the loop    *)
(* goes on, and the edge is restarted; nobody has to install anything.     *)
Fairness ==
    /\ WF_vars(Loop) /\ WF_vars(ReclaimPending) /\ WF_vars(RetryFires) /\ WF_vars(Boot)
    /\ \A t \in Slots: WF_vars(TaskStep(t))
    /\ \A key \in Rows \cup {"none"}: WF_vars(GateEnds(key))

Spec == Init /\ [][Next]_vars /\ Fairness
-----------------------------------------------------------------------------
Tasks == [pc: {"idle", "begin", "preflight", "body", "branding", "gate", "respawn"},
          kind: {"none", "reconcile", "http"}, row: Rows \cup {"none"},
          path: {"none", "same", "off", "idle", "on"}, running: BOOLEAN, changed: BOOLEAN,
          res: {"none", "wait", "ok", "unrecoverable", "timeout"}]

TypeOK ==
    /\ stream \in Seq(Rows \cup {"foreign", "broken"}) /\ read \in 0 .. Len(stream)
    /\ batch \subseteq pel /\ pel \cup acked \subseteq 1 .. read
    /\ seen \cup dlq \subseteq 1 .. read /\ fails \in [Ids -> Nat] /\ events \in 0 .. MaxEvents
    /\ stage \in {"next", "applying", "ok", "failed", "claimed", "written"}
    /\ up \in BOOLEAN /\ isFirstSnapshot \in BOOLEAN
    /\ tasks \in [Slots -> Tasks]
    /\ pending = NoPending \/ pending \in [row: Rows, attempts: 1 .. PENDING_MAX_ATTEMPTS,
                                          armed: BOOLEAN]
    /\ lastSignature \in Rows \cup {"none"} /\ ini \in Rows \cup {"none"}
    /\ phase \in {"none", "PREPARING", "CONFIGURING", "STARTING", "ONLINE", "FAILED"}
    /\ content \in [Rows -> {"absent", "extracting", "ready"}]
    /\ active \in 0 .. MaxPids /\ procs \cup children \cup exits \subseteq 1 .. MaxPids

(* A row waiting for its mods is never forgotten with its timer spent: the *)
(* timer runs, or a reconcile is at work that will clear or reschedule it. *)
PendingHasWaker ==
    pending # NoPending /\ ~pending.armed => \E t \in Retries: tasks[t].kind = "reconcile"

(* A snapshot leaves the pending entries only when its handler came to the *)
(* end, or it is a dead letter, or it was claimed as one before a crash.   *)
AckedWereHandled == \A m \in acked: m \in handled \cup dlq \/ (m \in seen /\ events > 0)

(* The phase the host sees is never left in the middle of a start: once no *)
(* task works and no row waits it is final; but for a row given up, for    *)
(* the first snapshot's row where servers are not started at boot, and for *)
(* a stopped server whose row comes again while a row to run waits.        *)
PhaseSettles ==
    (\A t \in Slots: tasks[t] = NoTask) /\ pending = NoPending =>
        \/ phase \in {"none", "ONLINE", "FAILED"}
        \/ (phase = "PREPARING" /\ (gaveUp \/ lastSignature \in {r \in Rows: ~ShouldStart(r)}))
        \/ (phase = "CONFIGURING" /\ ~RESTART_ON_BOOT)

(* A dead child still listed as running has its exit event on the way.     *)
DeathIsNoticed == active \in children \ procs => active \in exits

(* Every snapshot read is acknowledged in the end, whatever was wrong.     *)
SnapshotsSettle == \A m \in Ids: m \in pel ~> m \in acked

(* Retries of a row end, although each of them counts twice and dropping   *)
(* one may start the count anew: so where PENDING_MAX_ATTEMPTS is even, as *)
(* its default is; with an odd limit a row without mods is retried forever. *)
RetriesEnd == pending # NoPending ~> pending = NoPending
=============================================================================
