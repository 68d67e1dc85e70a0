# Verification of the Assetto Corsa platform

TLA+ models of the program in `src/`, the TLC configurations that check them,
and TLAPS proofs. Paths below are relative to `src/`; `battlesystem/` stands for
`telemetry-data/engines/battlesystem/`, `edge/` for
`packages/ac-data-edge/src/services/`, `shared/` for
`packages/ac-data-shared/src/services/` and `hub/` for
`packages/ac-data-backend/src/services/`.

    tlc -workers 2 -config MCPairBattle.cfg MCPairBattle
    tlapm PairBattleProofs.tla

## 1. The system

Telemetry (Python) talks UDP to the Assetto Corsa servers of one machine: it
knows who sits where, matches drivers into touge battles, judges them, removes
banned players and publishes events on the Redis stream `ac:events`. The edge
(TypeScript, one per machine) reads that stream through a shared consumer
group, forwards it to the hub, starts and stops the AC server processes from the
configuration stream `ac:config`, fetches mods and feeds the players' overlays.
The hub (`ac-data-backend`) holds the mod library, the jobs for the edges, the
catalogue of servers and the admin API, in front of an external database
(Convex) and Postgres.

    AC servers --UDP--> telemetry --ac:events--> edges --HTTP--> hub --> database
         ^                ^   |                  |   ^            |
         |     commands   |   +-- ac:hud:* keys -+   +- jobs -----+
         +----------------+<------- ac:config -------+ (snapshots)

### Components

| Component | State | What is hard | What makes it correct | Modules |
|---|---|---|---|---|
| Battle pair (`battlesystem/state_machine.py`, `scoring.py`, `pair_manager.py`, `rules/`) | phase, nine clocks, roles, score, winner, overlay | clocks that several handlers start and reset; five ways a race ends; held overlays | one outcome, which agrees with the board; the overlay shows the phase; no pair stays locked | `PairBattle`, `PairLifecycle` |
| Battle orchestrator (`battlesystem/orchestrator.py`, `telemetry-data/network/battle_hud_publisher.py`) | cars, two lock tables, cooldowns, overlay keys, timers | successive pairs share drivers and overlays | nobody in two battles; the overlay of one's own pair | `BattleOrchestrator`, `BattlePairs` |
| Teardown across threads (the same files) | the same tables, two threads inside them | no lock between listener and removers | tables agree; nobody locked to a driver who is gone | `BattleTeardown`, `BattlePairs` |
| Driver registry, bans, registration (`telemetry-data/core/driver_lifecycle.py`, `user_*.py`) | slot and guid indexes, marks, caches, claims, threads | lost packets and messages, threads of one player overlapping, stale caches | one kick per connection; no claim without its thread; a banned player leaves | `KickEnforcer` |
| Ingest bridge (`edge/redisConvexBridge.ts`, `shared/ingestBatchAck.ts`, `coalesceIngestBatch.ts`, `ingestPrefPartition.ts`) | pending list, buffers, chunk in flight, timers | failure at every await; merging and splitting of chunks; several edges | acknowledged implies handled; everything acknowledged in the end | `IngestBridge` |
| Config applier (`edge/redisConfigApplier.ts`, `configApplierAck.ts`) | last signature, pending retries, running reconciles, attempts | three paths reconcile at once; errors swallowed before the acknowledgement | no retry forgotten; acknowledged implies handled or dead-lettered; the phase shown settles | `ConfigApplier` |
| Mod jobs (`hub/mods/orchestrator.ts`, `modRedisLocks.ts`, `edge/modAgent/modAgentLoop.ts`) | job rows, inventory rows, locks, folders | late reports after a reclaim; statements of two handlers between each other | READY means there; SYNCING means running; every job ends | `SyncJobs` |
| Mod library (`hub/mods/hubLibrarySlimUpload.ts`, `hubLibraryZipUpload.ts`, `promoteArtifactToS3.ts`, `centralModLibrary.ts`) | packages, artifacts, links, objects, sessions, staging | failure between any two writes, two uploads of one slug | what the catalogue offers is stored; an acknowledged upload is served | `ModLibrary`, in `HubMods` |
| Start gate and requirements (`edge/modAgent/startGate.ts`, `hub/mods/serverModRequirements.ts`) | requirement rows, waiting starts, phase | the hub's rows are rewritten under a waiting start | a start is judged by its own content | `StartGate`, in `HubMods` |
| HUD sessions, presence, refresh (`edge/hud/hudSessionCache.ts`, `hudPlayerPresence.ts`, `hudRefreshScheduler.ts`, `hudPushHub.ts`, ...) | cached session, in-flight entry, presence, marks, preferences, timers, socket | ten handlers of one player, between whose awaits any other may run | an overlay ends up with what Convex says; nobody waits for a refresh that is over | `HudSession` |
| Presence and host catalogue (`hub/controlApi/agentPresence.ts`, `hub/hostCatalog/sync.ts`) | presence document, catalogue rows | heartbeats read and write back | the catalogue ends up with the edge's folders | `AgentPresence` |
| Content inventory (`edge/modAgent/modInventoryScan.ts`, `hub/controlApi/modsInventory.ts`, `desiredConfig.ts`) | etag, stored lists, a configuration being checked | lists stored key by key, each with its expiry | nothing pushed that was never there; the hub ends up knowing the pool | `ModInventory` |
| Overlay routing (`hub/hud/hudDynamicRegistry.ts`, `hudPlayerRouting.ts`) | registry, syncs, loads of the saved map | the map is loaded when it is first asked for | the overlay of a player goes to the player's edge | `HudRouting` |
| Overlay battle rooms (`edge/hud/hudBattleRooms.ts`, `hudConnPresence.ts`, `hub/hud/hudGateway.ts`) | sockets, reads in flight, clear timer, debounce, mark | reads overtake each other, sockets close inside handlers | the overlay shows the battle that goes on, and none after it | `BattleOverlay` |
| Activity log (`hub/activity/`, `public/js/panels/activity.js`) | stream, kept answers, panel, request | polls, pages and new entries merge into one list | no entry is skipped; what is shown matches the filter | `ActivityFeed` |
| Idle shutdown (`edge/serverPool.ts`) | names, last activity, map of names | names change while drivers are on board | a busy server is not stopped | `ServerPool` |
| Servers page and provisioning (`edge/serverProvision.ts`, `hub/fleet/edgeAdminProxy.ts`, `public/js/panels/servers.js`) | files on each edge, loads and saves in flight | proxied calls that outlive the hub's patience | success means everywhere; the list ends up right | `ServersPage` |
| Event dispatcher (`telemetry-data/network/event_dispatcher.py`), telemetry's consumer of `ac:config` | bounded queue; tuning values | | | not modelled, see section 7 |
| Time attack, anticheat, packet parsing, preferences and notices | laps, windows, sockets, texts | | | not modelled: sequential arithmetic, bytes, chat |
| Event building, authentication, metrics | none | | | not modelled: conversions, guards, reading `/proc` |

`PROJECT.json` lists the parts with their files (35 components; none is called
modelled in full, as each leaves out something its note names), the hazards of
the code with the line where each bites and the properties that would catch it,
and for every definition the lines it stands for.

## 2. The modules and the code

**PairBattle.** One `PairBattleManager`, from the lock to its release. `Update`
is one call of `process_pair_logic` for a packet of either driver and does all
of it: the checks of the lock's age, the handler of the phase (`HandleIdle` to
`HandleFinished`), publication and release. `Disconnect` is `remove_car` with its
`finalize_abandon`, `LapCompleted` the lap line, `HudDisconnected` the overlay
gate, `ModeOff` the change of server mode. Data are what the handlers compare: a
"since" timestamp is an age in ticks that saturates one above its threshold, so
that every comparison of the code keeps its meaning. Chat, the points log and the
layout of snapshots are left out. `PairLifecycle` is what a pair promises:
matched, at most one race, at most one outcome, released once.

**BattleOrchestrator** and **BattleTeardown** are one `BattleManager` at two
grains and share `BattlePairs`, the vocabulary of pairs. In the first a handler
runs to its end: `Update` refreshes the driver, matches any set of disjoint free
pairs (nearest first in the code; here distances are arbitrary) and processes the
driver's pair; overlay keys, cooldowns and clear timers are modelled, a timer
whose owner was overwritten still fires. In the second two threads, the
listener and one that removes drivers, take turns at each call that blocks.
Python may also switch inside the dictionary operations of `_release_pair`,
which is not explored. `MCBattleManagers` runs both; the grain is chosen with the
initial state.

**KickEnforcer.** One server. Packet handlers run in one listener thread and are
atomic; deferral and kick threads take one step between two waits; Redis, its
messages and the seats of the AC server are the environment. Reading Redis never
fails (in the code a failure lets the player in), and the address for commands
is known. A thread's `twin` only tells equal threads apart.

**IngestBridge.** The pending list is Redis's; `buffer`, `timer`, `pc` and
`flight` are one edge's. The actions follow one iteration of the loop, split at
each await. `Coalesced`, `Forward` and `ToAck` are the pure functions of the
shared files. Timers are choices whose order is kept. Trimming of the stream
and what the handlers write are left out.

**ConfigApplier.** `reconcileServer` is one step per stretch between awaits
(`Preflight`, `Compare`, `Branded`, `GatePassed`, `Respawn`), by the stream loop or
by a retry or content notification; the gate's shared wait, HTTP starts and
stops, installs, the process with its late exit event, and crashes surround it.
One server; the files written are left out.

**SyncJobs.** The job and inventory tables, the Redis locks and the folders of
one edge. A handler of the hub is split between its statements, the agent's
calls are sequential, as in `modAgentLoop.ts`. Where a job gets its files from is
computed as in `acquireJobForEdge`, from the inventory as it is then (`Remote`):
the bucket, the edge's own READY copy, or a peer's. The rows of other edges are the
constant `OnPeer`, and `EdgeFolder`, `InBucket` and `PeerPull` say how an artifact is
stored and what is switched on; adoption is in `ModLibrary`. A crash of the hub,
several edges and garbage collection are left out; `applyInventoryReport` has no
caller in the edge. One artifact per package.

**ModLibrary** and **StartGate**, together in **HubMods** (one of the two runs
per behaviour; they share no state). The library: uploads by file, by ZIP and
through an edge, adoption, promotion to S3, linking and purging; every statement
may fail. The advisory lock of a promotion is granted or refused arbitrarily,
because the code takes it through `pool.query`, on whatever connection. The gate:
two starts of one server under different requirement keys, the dialog of the
panel, stops and removals. What `distributeArtifact` refuses for good (S3 or peer
pull off, no validated `s3Key`) is the constant `Refused`, what it may refuse now
and not later, as a copy that no edge has READY at the moment, is `EdgeOwned`;
`Lists` is the content an ini, a form or a configuration can name.

**HudSession.** One player and ten handlers (join, leave, lap, status, keepalive,
webhooks, socket, retry, init), at most `MaxBusy` of them between awaits, and a join
beside those who wait for a refresh. The TTL of the session is the bit `fresh`: set
with the session, renewed by laps, pushes and battles (`Renew`, `PushAgain`,
`TouchSession`), taken away by time (`TtlPasses`), without which the session does
not expire (`SessionExpires`). Server and track behave like the car; the player
cache is part of the session; rosters and fingerprints of cosmetics are left out,
and of the rival fanout all but its push; Redis never fails.

**ControlPlane** composes seven parts that share no state: `AgentPresence`,
`ModInventory`, `HudRouting`, `BattleOverlay`, `ActivityFeed`, `ServerPool`,
`ServersPage`. One of them runs per behaviour while the others rest (`OfPresence`
and the like), so that one run checks all without multiplying their states.
Fairness names each part's own variables.

The mutated forms of definitions stand beside the originals, marked as mutants
(`ReleaseUnguarded`, `ReclaimUnbuffered`, ...); no action uses them.

## 3. What is checked

| Run | Question | Properties | States |
|---|---|---|---|
| `pair_battle` | one battle through every phase and end | `ScoreAlternates`, `OutcomeOnce`, `HudTracksState`, `PointsDecided`, `FinishMargin`, `ImplementsLifecycle` | 70 thousand |
| `pair_battle_live` | overlay gate on, roles awaited longer than a launch may take | `PairSettles` | 62 thousand |
| `battle_managers` | three drivers, pair after pair, at both grains | `LockConsistent`, `OwnPairShown`; `LocksAgree`, `LockedArePresent` | 1.6 million |
| `ingest` | two edges, one fault at any point | `AckedAreHandled`, `EventuallyAcked` | 289 thousand |
| `kick_enforcer` | two players, one seat, lost packets and messages | `OneKickPerConnection`, `BannedLeaves` | 464 thousand |
| `config_applier` | two snapshots of any rows, one disturbance | `PendingHasWaker`, `AckedWereHandled`, `PhaseSettles`, `SnapshotsSettle`, `RetriesEnd` | 164 thousand |
| `sync_jobs` | two artifacts, one with the edge's own folder as its only source; one request and one fault between any two statements | `SyncingHasRun`, `ReadyHasFolder`, `RequiredBecomesReady`, `JobsEnd` | 312 thousand |
| `hub_mods` | two uploads, a promotion, one other request; two starts, the dialog, a removal | `AvailableMeansStored`, `AckedIsServed`; `JudgedByOwnContent` | 1.5 million |
| `hud_session` | one player, one change or fault, two handlers at once, any number of renewals of the TTL | `WaitsForARefresh`, `OverlayCatchesUp`, `MarksFollowUser` | 241 thousand |
| `control_plane` | each of the seven parts under its lost, late and repeated calls | `CatalogFollowsEdge`; `InventoryCatchesUp`; `RoutedToOwnEdge`; `OverlayShowsBattle`, `MarkFollowsOverlay`; `NothingSkipped`, `ShownMatchesFilter`; `BusyServersStay`; `AppliedEverywhere`, `ListCatchesUp` | 0.6 million |

Two runs show a disagreement between the code and what the repository says:

| Run | The text | What the code does |
|---|---|---|
| `ingest_poison` | `redisConvexBridge.ts:276`, failures do not block the consumer for ever | an edge reclaims entries that wait in its own buffer, and appends copies until they fill every chunk |
| `purge_running` | `serverModRequirements.ts:383`, "error/FAILED = not running" | a second start of a running server marks it FAILED, and content it uses may then be removed |

Each property of a passing run has a mutant in `PROJECT.json`, a plausible slip
in one definition (a guard dropped, a clock not reset, an acknowledgement of too
much) with which TLC finds the property violated. The type invariants of the
modules are proved where section 4 says so and were checked with TLC while the
modules grew; the runs spend their time on the other properties.

### Bounds

- *Pair*: gaps 12, 25, 32, 100, 300 m and speeds 10, 60 km/h put a packet into
  every interval between the thresholds of `core/settings.py`; ages are ticks, with
  the thresholds in the order of the defaults. `MaxPoints = 3` reaches an
  overtake, a recovery and a second overtake. Drivers are symmetric, except in the
  run with liveness, which uses three gaps and one point.
- *Managers*: three drivers are the least in which a released driver is matched
  with another while the former pair's timer still runs. Two battles and two
  removals let a driver who was released be locked again while the other thread
  still works on the first pair.
- *Ingest*: chunks of two are the least that coalesce and split, two edges the
  least that take over; one fault at any point, a restart included; a buffer of
  three leaves room for a copy.
- *Kicks*: one seat is where players succeed each other; two connections, two
  players of whom one is suspect, four threads. With six threads the run has 593
  thousand states and passes, too.
- *Config applier*: a row to run, one to stop, one a pool keeps idle, one without
  mods, and snapshots foreign or unreadable; two snapshots, one retry slot, one
  disturbance (crash, failed call, HTTP request), two process numbers. The invariants
  hold with two retry slots as well (3.3 million states).
- *Jobs*: two artifacts, both required by a server and stored as an edge's folder,
  one of them in the bucket, too, one with this edge's copy as its only source; two
  attempts, so that a retry is the last; one install at a time; one request, one
  fault, five jobs, which are never all used up.
- *Library and gate*: files `a`, `b` make two trees, of which one contains the
  other; the six requests that can meet on one slug. A server needs content the
  hub distributes, content it refuses to, or both; content outside the catalogue,
  which a start is refused for as well, is in the run `purge_running` and in the
  theorem. Two gate operations and one fault; three operations reach the trace of
  `purge_running`.
- *HUD session*: two cars; two handlers at once and a join beside those who wait;
  one operation; renewals without a bound. An entry thrown out under a waiter by
  the end of another refresh takes a third handler: that case is covered by the
  theorem `NobodyWaitsInVain`, for any number of them. A safety instance with two
  operations and one car has 1.7 million states and passes.
- *Control plane*: two folders and overlapping posts; a car and a track under two
  names; two edges, two names, two syncs; two reads in flight, two sockets; a page
  of one entry, batches of one and a scan of two at most, so that three entries use
  the budget up; an idle limit of three heartbeats (the default); two hosts, two
  requests. Larger instances of presence, overlay and
  activity passed alone (172 thousand, 432 thousand, 2.8 million states).

`CHECK_DEADLOCK FALSE` is said where the bounds let a behaviour end: kicks,
config applier, library and gate, control plane. The liveness properties of a
run with symmetry would be unsound; no run combines them.

### Fairness

- Pair: time passes, and while the pair is connected the AC server sends
  positions; a driver gone silent is purged by the status loop. ACTIVE has no
  timeout in the code, so nothing is claimed about the end of a race.
- Ingest: the loop of every edge runs, its timer fires, entries grow stale.
  `SF(Reclaim)`: the reclaim is not enabled in the middle of an iteration, but due
  again at the top of each, where the clock is read.
- Kicks: threads run, a sitting player sends `CAR_UPDATE`, the status loop asks
  for `CAR_INFO`, a cached answer expires. Messages may all be lost.
- Config applier: awaited calls return, timers fire, the gate has its deadline,
  the loop goes on, the edge is started again. Nobody has to install anything.
- Jobs: the hub answers, the agent's loop is started again, stale time passes and
  locks expire for each artifact, the gate asks again (every 15 s up to 5 min).
  `SF(Install)`: progress reports are finitely many and only they disable it.
  `SF(GateAsks)` for each artifact: `syncMissingModsForServer` goes through all that
  is missing, whenever it is asked.
- HUD session: each handler goes on after its awaits; `SF` where a handler is
  disabled while another one of the shared loop runs (join, leave, retry, a bump
  heard, keepalive). A TTL that nobody renews runs out. Nothing makes laps, pushes
  and battles stop: the two properties assume it (`RenewalsEnd`).
- Control plane: timers fire, calls are answered or fail, handlers and pages go
  on, a stopped edge is started again; `SF` for a poll that finds the activity
  page at the top of its list now and then.
- Library, gate and managers: safety only.

## 4. What is proved

Every theorem holds for all constants allowed by the `ASSUME` of its module, and
no bound of a run is assumed: bounds such as `MaxPoints` or `MaxEvents` are
constants of the theorems, too. The assumptions say: two different drivers and
`BATTLE_ARM_MAX_GAP < BATTLE_ARM_ABORT_GAP`, which `settings.py` enforces; a
driver matchable no longer than active, positive durations; finitely many
players; at least one attempt, one artifact, one entry per page and batch;
fleets of known edges; finite sets of content and at least one name to store it
under; at least one car in `HudSession`; and that special values differ from
ordinary ones (`None` from the cars, the panel that asks for a refresh from the
starts that do). Four theorems have a hypothesis of their own, named below.

### PairBattleProofs

1. `TypeCorrect`: one lemma per handler; used mostly for the ranges of the ages.
2. `LaunchClock`, `SeparatedClock`, by `ClockInv`. The two are inductive together:
   IDLE is entered with the launch clock stopped on every path. A consequence: the
   launch timeout tested in `_handle_armed` is never true.
3. `Alternation`, `Margin`, `SingleOutcome`, `IdKept`, `NoWalkover`, by `ScoreInv`,
   which adds that the board is fresh before the race, that nothing is sent before
   the end, and that the id exists from ARMED on. None of the five is inductive:
   that a decision on the line is a draw exactly at a level board needs the
   alternation, and that at most one outcome is sent needs its absence in every
   earlier phase.
4. `HudFollows`, provided `HUD_BATTLE_CLEAR_DELAY <= ARM_SUSTAINED_PROXIMITY` (5 s
   each by default). A cancellation holds the overlay, and the launch timeout
   publishes without force; `HoldInv` says that the hold is over by then, because
   the countdown that led to the launch began after the cancellation. With a
   longer delay the property is false.
5. `ShownIsSent`, `NoPointsLost`: without the overlay gate. With it, an overlay
   lost after the end replaces the result by a cancellation, and one lost during
   the race releases the pair without an outcome, as the code intends.
6. `FrozenResult`: an action property, from the guards of the phases.
7. `LifecycleImplemented`: `PairBattle` implements `PairLifecycle`; every step is
   mapped to `Start`, `End`, `Release` or a stutter.

### BattleManagersProofs

`DictionariesAgree`, `OverlayOfOwnPair`, `TerminalsAreCleared` by `LockInv`, inductive
only together with the types: a release keeps the overlay right because the tables
agree, and schedules timers for exactly the two drivers they name. `MatchingLocks`:
locking a set of disjoint pairs of free drivers keeps the tables consistent.

At the grain of threads, `TeardownTypes`, `TablesAgree` and `NobodyLockedToTheGone`
by `TeardownInv`. The tables agreeing is not inductive by itself: one needs that a
driver's pair contains the driver, that the candidates of the matchmaker are still
free when they are locked (the remover cannot take one away and leave him free and
matched), and that a locked driver without a car is the one whose pair the remover
is releasing.

### KickEnforcerProofs

`OneKick`, `ClaimsAreHeld`, `DeferralsHaveThreads` by `Shapes /\ KickInv /\
DeferInv`. One kick per connection rests on what a claim stands for
(`ClaimsCount`): a player none of whose threads outlived an earlier connection has
at most one kick thread; it holds the claim; before it has sent, no kick was
counted; and who is neither claimed nor done has not been kicked. A deferral mark
stands for exactly one thread of its kind (`Marked`), which a counting invariant
could not express without induction over finite sets.

### EdgeServicesProofs

`AtLeastOnce`: what left the pending list was handled, or was a `server_status` in
whose place one was. `Inv` adds what the chunk of each edge in flight owes: before
the hub's call, statuses kept local have been applied; before the acknowledgement,
everything in `todo` is settled. Other edges cannot spoil it, as `handled` only
grows (`SettledStays`, `OtherEdges`).

`SessionTypes` and `NobodyWaitsInVain`, by `HudInv`. That a waiting task waits for a
refresh under way is not inductive: a task is chosen to wait for because its entry
is in the map, and the map is written by refreshes that do not look at it, by a
change of car and by the end of other refreshes. `HudInv` adds that an entry in the
map is of a task that is still refreshing and takes an entry out at its end
(`EntryRefreshes`), which holds because those that leave the map alone at their end
never make an entry (`Asks`).

### ConfigApplierProofs

`ApplierTypes`, `AcknowledgedWereHandled`, `PendingIsWoken`, `PhaseIsFinal` by
`TypeOK /\ TasksFit /\ LoopInv /\ PendingHasWaker /\ PhaseInv`, and
`DeadChildIsNoticed`. The phase is the hard one: it is shared by all reconciles,
each of which sets it between awaits. `PhaseInv` names, for each phase that is not
final, who will end it (`ConfiguringEnds`, `StartingEnds`, `PreparingEnds`); this
holds because tasks that are awake at once share one row and one verdict of the
gate (`OneRowAwake`, `OneVerdict`, `BeginsAlone`), as a task runs on until its next
await, and one that began to prepare is not left behind by another
(`PreparedByOther`).

### SyncJobsProofs

`JobTypes`, `SyncingIsRunning`, `ReadyIsThere`, by `JobsInv`, `SyncingExplained`
and `FolderInv`. An artifact's READY survives because a removal runs only while the
artifact is not READY, and the agent reports an install only while the folder is
there; SYNCING is explained by a running job, by the handler that ended it and has
one statement to go, or by the row a reclaim holds (`Explained`). Both need that
job ids are unique, that the agent's job is the row it was given, and that a call
fits what the agent is doing.

### HubModsProofs

- `StartsAreJudged`, by `GateInv`. The hub replaces the rows of a server and reads
  them again, one statement at a time, for every start and every look at the dialog. A
  refresh that no other crossed is alone between its DELETE and its last read
  (`Alone`), so the rows are those it has inserted (`RowsAreOwn`), and what it answers
  and the gate goes by is what was asked for (`AnswerIsOwn`). What a start is refused
  for has no artifact that the hub may distribute, `Catalogued \ Refused`
  (`BlamesStrangers`).
- `CatalogIsStored`, `UploadsAreServed`, by `LibraryInv`. Neither is inductive: a row
  is marked as available, and an upload acknowledged, because of what the handler did
  some awaits before. `LibraryInv` says of every request, commit and promotion what it
  holds at the place it has reached: a stored object after the PUT, a package that
  offers the content before the link (`UploadHolds`, `CommitHolds`, `PromoteHolds`). What
  the others do meanwhile is summed up in `Grows`: stored stays stored, offered stays
  offered, listed stays listed, or a purge took the content. Each action is shown to
  be such a step, once, and what the other requests hold follows.

### ControlPlaneProofs

Each part has its invariant, which its own steps preserve, while the steps of
other parts leave its variables alone (`OthersLeavePool` and the like).

- `BusyIsNotIdle`, if `IdleShutdown > 1`: more than one heartbeat (5 min); the
  default is three. `PoolInv` says that a server boarded under the ini's name is
  reported under it, and that a map rebuilt in this heartbeat knows it, so that
  the last activity of its drivers is at most one heartbeat old. With one
  heartbeat the property is false: see section 5.
- `OverlaysFindTheirEdge`: a row under an edge's own key leads to that edge, in the
  map, in the saved map and in every answer under way (`RegistryInv`), and it is
  looked up first (`FirstHit`). `AckedStayRegistered` (by `AckedInv`): an edge whose
  sync was acknowledged stays in the map, unless two reads of the saved map were
  under way at once.
- `SuccessIsEverywhere`: of what a request is for, everything is applied, written
  by another request since, or still to be asked for (`AppliedOrPending`), through
  proxied calls that time out, are served later or never.
- `NoEntrySkipped`, of answers that say "no more" because the day was scanned to its
  end (`whole`; section 5 names the two that say it before): an answer is `Sound`
  for the stream it was put together from and stays so as the stream grows
  (`FeedIsSound`, `StillSound`); it has no gap above its oldest entry, the panel none
  above its cursor (`NoGaps`), and putting an answer on the panel leaves none
  (`MergedNoGaps`). The step that is not obvious is a first page merged under a
  panel that has older pages: it closes up because a kept answer reaches down to
  what the panel shows (`Covers`). That the newest `n` of a set are closed upwards
  (`NewestIsTop`) is shown without induction, from the well-founded order of `Nat`.
- `PushedWereThere`: whatever the hub stored, read or pushed of the content was once
  on the edge (`InventoryInv`); the longest list under any name exists, again by the
  order of `Nat`, and is one of those stored. The property is proved and not run.

### What is only model-checked

Liveness under fairness is out of the prover's reach, as is ENABLED: `PairSettles`,
`EventuallyAcked`, `BannedLeaves`, `SnapshotsSettle`, `RetriesEnd`,
`RequiredBecomesReady`, `JobsEnd`, `OverlayCatchesUp`, `MarksFollowUser`,
`CatalogFollowsEdge`, `InventoryCatchesUp`, `OverlayShowsBattle`,
`MarkFollowsOverlay`, `ShownMatchesFilter`, `ListCatchesUp`. Every
safety property that a passing run checks is proved.

Proved and no longer run: `IdFromArmedOn`, `WinNeedsRace`,
`LaunchClockStopped`, `SeparatedOnlyWhenIdle`, `ResultShown`, `ResultFrozen`,
`TerminalHasTimer`, `ClaimHeld`, `DeathIsNoticed`,
`EdgesStayRegistered`, `PushedWasInstalled` and the type invariants of the modules
with proofs.

## 5. What was met and is not a run

Noticed while translating; true of the models where they go that far. Where a
document says otherwise, it is quoted.

### What the documents say, and the code does not do

Four modules end with a formula that says what a document says; TLC finds each
violated under small constants:

- `PositionAbandonWins` (`PairBattle`): `telemetry-data/docs/BATTLE_MODE.md:185`, an
  abandon at 0-0 in position mode is won after 200 m. `remove_car` deletes the leaver's
  telemetry before the distance is asked for (`pair_manager.py:114`), so the battle is
  cancelled.
- `InactiveDriverEndsRace` (`BattleOrchestrator`): `BATTLE_MODE.md:127`, a silent driver
  ends the battle. A packet of one driver renews the stamps of both
  (`orchestrator.py:294`).
- `ProducedOnce` (`BattleTeardown`): `telemetry-data/REDIS_CONTRACT.md:63`, one
  `battle_update` per battle. A finish and a removal test the state before either
  sets it, and send two (`scoring.py:101`).
- `DoneAfterKick` (`KickEnforcer`): `user_kick_common.py:31`, a future kick is allowed
  after a reconnect. A thread that ends after its claim was cleared marks the next
  connection as done (`:99`).

Also: the comment `edge/serverPool.ts:84` and `docs/VPS_CAPACITY.md:54` give a server
that was just started a grace period; `:82` and `:93` count the idle time from the
last activity noted in an earlier run.

### Battles and kicks

- A release after a disconnect sets no rematch cooldown (`BATTLE_MODE.md:69` promises
  20 s), and its terminal snapshot is left to expire (`REDIS_CONTRACT.md:92`).
- A clear timer of a former pair may delete the next result before its delay is
  over (`battle_hud_publisher.py:462`), since a timer is found by driver only.
- A finish that `rules/finish.py:100-102` calls a draw gives no point for the line,
  but the board still decides: a chase one ahead has won.
- A removal that meets a finish may turn a win into none (`scoring.py:105`).
- A ban message whose player left unheard kicks the next player of the slot
  (`car_info.py:42-50`, `user_ban_enforcer.py:207`); likewise a kick uses the slot found
  before the warning delay (`user_kick_common.py:184-206`).
- When an older kick thread reaches into a connection and the player has come
  back a third time, two kicks are possible; `OneKickPerConnection` excludes that.

### Ingest and configuration

- Two edges can forward the same event, when one takes over what the other still has
  in flight; `docs/RESILIENCE.md:16-20` names only the lost answer. A status
  dropped by coalescing is not acknowledged with the kept one when that one is handled
  locally (`redisConvexBridge.ts:185`), but after a reclaim.
- A pending retry counts twice (`redisConfigApplier.ts:272-303`): an even
  `REDIS_CONFIG_APPLIER_PENDING_MAX_ATTEMPTS` gives up after half the attempts the log
  claims, an odd one retries a row without mods for ever.
- The phase may stay PREPARING or CONFIGURING (`PhaseSettles` names when); an exit or
  the death of an adopted process leaves it ONLINE.
- An older row's reconcile clears a newer row's pending retry; the signature is
  stored after a failed apply; a forced refresh may leave an older snapshot on top.
- An inactive row with cars that are not local goes pending, and the server is not
  stopped. A late exit event deletes the entry of the next process; a deprovision
  then finds it "not running" and deletes its folder while it runs.
- A dead letter that is claimed before a crash is acknowledged without being written
  (`configApplierAck.ts:116`).

### Mods

- `enqueue` reuses an active job whatever its operation is; a lost reply to
  `complete` requeues a finished job and turns READY into ERROR; PENDING may be written
  after a fast job; a reclaim of a stale job counts no attempt.
- `acquire` that rolls back leaves its Redis lock for up to two hours, as does a
  forced deletion before a crash. Verification looks for the folder only; versions of
  a package share it; deleting it by hand leaves READY.
- A gate that looks and then assigns can ask for an install again after it is done,
  which is why `RequiredBecomesReady` says "again and again".
- The READY row of an edge is what lets it use its own folder as the source of an
  artifact (`findPeerEdgeWithBlob`, `orchestrator.ts:96-123`). When the panel
  synchronises the only copy again, the row becomes PENDING, `acquire` finds no
  source and makes it ERROR (`:720-735`), and no later `distributeArtifact`
  succeeds, though the folder is there. `RequiredBecomesReady` is about content that
  the bucket or a peer has; TLC finds it violated without that condition.
- `promoteArtifactToS3.ts` compares no hash, and its advisory lock goes through
  `pool.query`, although `migrate.ts` says that a session lock must use one client.
- A double commit, or an expiry during a commit, can store an incomplete archive. The
  slug is chosen at the plan and used at the commit, so two contents can share a
  package. A purge deletes an object that another package with that hash refers to.
- Refreshes of one server's requirements cross: a start may go by another's answer
  (`JudgedByOwnContent` excludes that), or end as UNRECOVERABLE by a mistyped car in
  the dialog. The configuration is read once per gate, which waits up to 5 minutes.
  A refused restart or an expired gate marks a running server FAILED.
- `kindHint` of `resolveArtifactId` has no effect (`centralModLibrary.ts`, precedence of
  `OR`); `waitUntilModsLocal` is not used.

### Overlays

- Failure to reach Convex, or a player not connected, clears the marks and drops the
  session; a banned user who is then removed keeps the ban mark for 24 h.
- A stale overlay stays for as long as laps (`lapCompleted.ts:50-52`), pushes
  (`hudPushHub.ts:179-186`) or battles (`battleHudReader.ts:89-92`, `:161`) renew the
  cached session: after a lost webhook only its expiry has Convex asked again, and
  the keepalive refreshes only what is not ok (`hudWs.ts:160-169`). So may the marks
  of a user who was banned. Without `RenewalsEnd` TLC finds both properties violated.
- `hudRefreshScheduler.ts:261` can lose a wakeup; `:83` lets a battle job overwrite a
  lap job. The roster is read, changed and written back without a lock
  (`hudPlayerPresence.ts:481`); a leave compares only the car (`:502`).
- The end of one refresh deletes the in-flight entry of the next; an older fetch
  overwrites a newer one; a keepalive rewrites a departed presence.
- A socket that closes during the awaits of its handler stays in the room, and its
  keepalive renews `ac:hud:conn` for ever (`REDIS_CONTRACT.md:113`); closing one of two
  sockets deletes the mark of both. A read that is overtaken leaves "on" shown.
- Two syncs of the registry that find the map empty lose the first edge's rows.

### Hub and pages

- Overlapping posts of presence, a failed mutation and a backfill leave rows missing or
  too many (`docs/HOST_CATALOG_SYNC.md`). An unchanged inventory expires after 24 h and is not
  posted again; a restarted edge with an empty pool never reports.
- `ACTIVITY_RAW_SCAN_MAX`, 150 000 (`activityService.ts:30`, `:347`), is less than
  the 200 000 entries the stream keeps by default (`settings.py:45`,
  `REDIS_CONTRACT.md:22-23`): a scan that uses it up answers `hasMore` false with
  older entries of the day missing. The panel's `whole` says when that happened.
- With a known day context only one batch of the activity stream is read, and
  `hasMore` is false; a change of the filter during a request is dropped; the guard on
  `loadSeq` never matters.
- `SERVER_POOL_IDLE_SHUTDOWN_MINUTES` below the heartbeat of 5 minutes stops busy servers, as do
  an outage of telemetry, a rename with drivers on board, and two lobbies of one name
  (`docs/MULTI_REGION_EDGE.md`).
- The hub gives up a proxied call after 120 s while provisioning's gate waits 5 minutes;
  a failed provisioning leaves half a folder; the branding button is not enabled again
  after its first success; scripts assume `server-1` to `server-19`.

## 6. Left

1. Refinements: an abstract queue of jobs, one lease per artifact, for `SyncJobs`; "once
   acknowledged, handled" as an abstract specification of `IngestBridge`.
2. Finer grains: the dictionary operations of `_release_pair`; several artifacts per
   package; a second player of `HudSession`.

## 7. What is not modelled

- The event dispatcher's bounded queue, which drops events when full, and its
  workers, which may reorder a driver's events; telemetry's consumer of `ac:config`,
  which replays old snapshots at start and does not retry a failed one. Both are
  in the list of hazards with a note.
- Time attack and anticheat: sequential arithmetic on packets.
- Packet parsing, sockets, chat, preferences and notices, metrics, authentication, event
  building: bytes, wording, guards and conversions.
- The other panels of the admin page, ProjectD-HUD, templates, migrations: browser code,
  assets and data.
