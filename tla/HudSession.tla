----------------------------- MODULE HudSession -----------------------------
(***************************************************************************)
(* The HUD session of one player on one edge                               *)
(* (src/packages/ac-data-edge/src/services/hud: playerJoinContext.ts,      *)
(* hudPushHub.ts, hudWs.ts, hudSnapshot.ts, hudUserStatusNotify.ts,        *)
(* hudPlayerPresence.ts, hudSessionPresence.ts, lapCompletedHudRefresh.ts).*)
(*                                                                         *)
(* Convex knows who the player is: registered, banned or missing, and the  *)
(* data of his profile.  The edge mirrors that in Redis: the session the   *)
(* overlay shows, the marks that the telemetry kicks by, his preferences,  *)
(* and his presence, the car he drives.  Joins, leaves, statuses, laps,    *)
(* worker calls, a socket's keepalive and timers all read and write these  *)
(* keys, one await at a time, with nothing but a deduplication of refreshes*)
(* between them.                                                           *)
(*                                                                         *)
(* A handler of each kind runs at a time, and a step of it stands for what *)
(* happens up to an await that others can tell from the next.  The player  *)
(* has one car at a time and changes it by leaving and joining again;      *)
(* server and track behave as the car does.  Redis does not fail.          *)
(***************************************************************************)
EXTENDS Integers, FiniteSets

CONSTANTS
    Cars,
    MaxBusy,       \* bound: handlers at once (Counts)
    None,
    MaxOps         \* bound: changes of the user and his profile, new joins,
                   \* laps, snapshots asked for, failures of Convex, together

ASSUME HudSessionAssumption ==
    /\ None \notin Cars /\ Cars # {}
    /\ MaxBusy \in Nat /\ MaxOps \in Nat

VARIABLES
    user,          \* in Convex: "fine", "banned" or "missing"
    profile,       \* in Convex: the version of the player's profile
    car,           \* the car he drives
    events,        \* joins and leaves that the edge has to handle
    presence,      \* ac:hud:presence: the car, or None
    session,       \* the session cache
    fresh,         \* its TTL was set or renewed less than the TTL ago
    banned,        \* ac:user:invalidated
    unregistered,  \* ac:user:not_registered
    prefs,         \* ac:user:prefs:*: the profile whose preferences are there, 0 the defaults
    open,          \* the overlay's socket is connected
    shown,         \* what it was sent last
    lastSent,      \* lastSessionLeaderboardFingerprint of the connection
    inFlight,      \* joinRefreshInFlight: the task, or None
    recent,        \* joinRefreshCompletedAt is less than JOIN_REFRESH_DEDUPE_MS ago
    retryTimer,    \* joinRetryScheduled
    bumped,        \* a message of ac:hud:updates is under way
    task,          \* the handlers
    ops            \* how many of the bound are used

convex == <<user, profile, car>>
streams == <<events, bumped>>
cache == <<session, fresh>>
marks == <<banned, unregistered>>
dedupe == <<inFlight, recent, retryTimer>>
overlay == <<open, shown, lastSent>>

hudVars == <<convex, streams, presence, cache, marks, prefs, overlay, dedupe,
             task, ops>>

(* A session, in the cache, in a task or on the overlay.                   *)
Reasons == {"user_invalidated", "user_not_found", "player_not_connected",
            "convex_unreachable"}

Miss == [is |-> "miss", car |-> None, profile |-> 0]

Error(reason) == [is |-> reason, car |-> None, profile |-> 0]

Session(c, p) == [is |-> "ok", car |-> c, profile |-> p]

Profiles == 0 .. MaxOps

Sessions ==
    {Miss} \cup {Error(r) : r \in Reasons}
           \cup {Session(c, p) : c \in Cars, p \in Profiles}

Event(type, c) == [type |-> type, car |-> c]

Handlers == {"join", "init", "keepalive", "webhook", "cosmetics", "retry",
             "snapshot", "push", "leave", "lap"}

Idle == [at |-> "idle", got |-> Miss, on |-> None]

(* One loop of the edge reads the stream and handles its events in turn.   *)
Bridge == {"join", "leave", "lap"}

(* A join is handled beside those who wait for a refresh.                  *)
Counts(u, t) == task[u] # Idle /\ (t = "join" => task[u].at # "await")

Free(t) ==
    /\ task[t] = Idle
    /\ t \in Bridge => \A u \in Bridge : task[u] = Idle
    /\ Cardinality({u \in Handlers : Counts(u, t)}) < MaxBusy

Begin(t, at, got) ==
    task' = [task EXCEPT ![t] = [at |-> at, got |-> got, on |-> None]]

Go(t, at) == task' = [task EXCEPT ![t].at = at]

GoWith(t, at, got) == task' = [task EXCEPT ![t].at = at, ![t].got = got]

End(t) == task' = [task EXCEPT ![t] = Idle]

At(t, at) == task[t].at = at

Spend == ops < MaxOps /\ ops' = ops + 1

-----------------------------------------------------------------------------
(* The session cache                                                       *)

(* hudRedisSet with a TTL, and the key's removal                           *)
StoreSession(result) == session' = result /\ fresh' = (result # Miss)

DropSession == StoreSession(Miss)

(* hudRedisTouch                                                           *)
TouchSession == session' = session /\ fresh' = (session # Miss)

-----------------------------------------------------------------------------
(* The world: Convex, the game, the overlay, time.                         *)

HudInit ==
    /\ user = "fine" /\ profile = 0 /\ car = CHOOSE c \in Cars : TRUE
    /\ events = {Event("join", car)} /\ bumped = FALSE
    /\ presence = None /\ session = Miss /\ fresh = FALSE
    /\ banned = FALSE /\ unregistered = FALSE /\ prefs = 0
    /\ open = FALSE /\ shown = Miss /\ lastSent = Miss
    /\ inFlight = None /\ recent = FALSE /\ retryTimer = FALSE
    /\ task = [t \in Handlers |-> Idle]
    /\ ops = 0

(* The user is banned, forgiven, registered or removed, or his profile     *)
(* changes; Convex calls /hud/worker/refresh-user, and the call may be lost.*)
EditUser ==
    /\ Spend
    /\ \/ user' \in {"fine", "banned", "missing"} \ {user} /\ UNCHANGED profile
       \/ profile' = profile + 1 /\ UNCHANGED user
    /\ \/ UNCHANGED task
       \/ \E h \in {"webhook", "cosmetics"} : Free(h) /\ Begin(h, "fetch", Miss)
    /\ UNCHANGED <<car, streams, presence, cache, marks, prefs, overlay,
                   dedupe>>

(* The player leaves and joins again, in the same car or in another.  The  *)
(* join is handled as soon as it is read, the leave and the last statuses  *)
(* of before with their batch.                                             *)
Rejoin ==
    /\ Spend
    /\ \E c \in Cars :
          /\ car' = c
          /\ events' = events \cup {Event("leave", car), Event("join", c)}
    /\ UNCHANGED <<user, profile, bumped, presence, cache, marks,
                   prefs, overlay, dedupe, task>>

CloseSocket ==
    /\ open /\ Spend
    /\ open' = FALSE /\ shown' = Miss /\ lastSent' = Miss
    /\ UNCHANGED <<convex, streams, presence, cache, marks, prefs, dedupe,
                   task>>

(* HUD_SESSION_TTL_SEC passes, for an error the time of its own; then the  *)
(* key expires, unless its TTL is renewed first.  A session lives for      *)
(* minutes, an error for seconds at least: it does not expire before those *)
(* who were told of it, or waited for it, have read it.                    *)
TtlPasses ==
    /\ fresh /\ fresh' = FALSE
    /\ UNCHANGED <<convex, streams, presence, session, marks, prefs, overlay,
                   dedupe, task, ops>>

SessionExpires ==
    /\ session # Miss /\ ~fresh /\ ~bumped /\ DropSession
    /\ \A t \in Handlers : ~At(t, "peek")
    /\ UNCHANGED <<convex, streams, presence, marks, prefs, overlay, dedupe,
                   task, ops>>

WindowPasses ==
    /\ recent /\ recent' = FALSE
    /\ UNCHANGED <<convex, streams, presence, cache, marks, prefs, overlay,
                   inFlight, retryTimer, task, ops>>

-----------------------------------------------------------------------------
(* Reading the session cache                                               *)

(* syncUserInvalidationFromHudResults: a ban marks the player, a session   *)
(* clears the mark.                                                        *)
Mirror(result) ==
    banned' = CASE result.is = "user_invalidated" -> TRUE
                [] result.is = "ok" -> FALSE
                [] OTHER -> banned

(* peekSessionCache: whoever reads the cache mirrors what he finds there.  *)
Peek == Mirror(session)

(* sessionCacheCarMismatch with the presence                               *)
OtherCar ==
    session.is = "ok" /\ presence # None /\ session.car # presence

(* shouldRefreshJoinContextForPresence                                     *)
RefreshWanted == session.is # "ok" \/ OtherCar

-----------------------------------------------------------------------------
(* refreshPlayerJoinFromConvex                                             *)

(* After the refresh a handler has to push or to respond, or is done.      *)
Then(t) ==
    CASE t = "cosmetics" -> "drop"
      [] t = "retry" -> "idle"
      [] OTHER -> "peek"

SkipsDedupe(t) == t \in {"webhook", "cosmetics", "retry"}

(* A refresh under way is waited for; one that has just ended is enough,   *)
(* unless the cached car is not the one he drives; else a new one starts,  *)
(* even if another has started while the cached car was looked at.         *)
JoinInFlight(t) ==
    /\ At(t, "dedupe") /\ inFlight # None
    /\ task' = [task EXCEPT ![t].at = "await", ![t].on = inFlight]
    /\ UNCHANGED <<convex, streams, presence, cache, marks, prefs, overlay,
                   dedupe, ops>>

LookRecent(t) ==
    /\ At(t, "dedupe") /\ inFlight = None /\ recent
    /\ Peek /\ Go(t, IF OtherCar THEN "start" ELSE Then(t))
    /\ UNCHANGED <<convex, streams, presence, cache, unregistered, prefs,
                   overlay, dedupe, ops>>

StartRefresh(t) ==
    /\ At(t, "start") \/ (At(t, "dedupe") /\ inFlight = None /\ ~recent)
    /\ inFlight' = t /\ Go(t, "fetch")
    /\ UNCHANGED <<convex, streams, presence, cache, marks, prefs, overlay,
                   recent, retryTimer, ops>>

(* What Convex says of the player; of one whose presence is unknown, what  *)
(* it knows of the game itself.                                            *)
Answer ==
    CASE user = "banned" -> Error("user_invalidated")
      [] user = "missing" -> Error("user_not_found")
      [] OTHER -> Session(IF presence = None THEN car ELSE presence, profile)

(* fetchPlayerJoinContext and fetchHudSession.  Convex may be out of reach,*)
(* and may not know yet that the player has joined.                        *)
AskConvex(t, next) ==
    \/ GoWith(t, next, Answer) /\ UNCHANGED ops
    \/ /\ Spend
       /\ \/ GoWith(t, next, Error("convex_unreachable"))
          \/ user = "fine" /\ GoWith(t, next, Error("player_not_connected"))

Fetch(t) ==
    /\ At(t, "fetch") /\ AskConvex(t, "apply")
    /\ UNCHANGED <<convex, streams, presence, cache, marks, prefs, overlay,
                   dedupe>>

(* invalidateHudCachesForSteamId and the marks of applyPlayerJoinContext:  *)
(* a ban is marked, an unknown user is marked, and any other answer, a     *)
(* failure included, clears both marks.                                    *)
ApplyMarks(t) ==
    /\ At(t, "apply") /\ DropSession /\ Go(t, "persist")
    /\ CASE task[t].got.is = "user_invalidated" ->
                banned' = TRUE /\ unregistered' = FALSE
         [] task[t].got.is = "user_not_found" ->
                unregistered' = TRUE /\ UNCHANGED banned
         [] OTHER -> banned' = FALSE /\ unregistered' = FALSE
    /\ UNCHANGED <<convex, streams, presence, prefs, overlay, dedupe, ops>>

(* persistSessionCacheResult does not remember that Convex was out of reach.*)
StoreAnswer(got) ==
    IF got.is = "convex_unreachable" THEN UNCHANGED cache ELSE StoreSession(got)

(* A player whom Convex does not know yet is looked for once more.         *)
WantsRetry(t, got) == got.is = "player_not_connected" /\ t # "retry"

\* MUTANT: the entry goes only when the refresh has brought a session.
PersistKeepsEntry(t) ==
    LET got == task[t].got
        waiting == {w \in Handlers : At(w, "await") /\ task[w].on = t}
        over(w) == IF Then(w) = "idle" THEN Idle ELSE [Idle EXCEPT !.at = Then(w)]
    IN
    /\ At(t, "persist")
    /\ StoreAnswer(got)
    /\ bumped' = (bumped \/ got.is = "ok")
    /\ prefs' = got.profile
    /\ retryTimer' = (retryTimer \/ WantsRetry(t, got))
    /\ IF SkipsDedupe(t) \/ got.is # "ok" THEN UNCHANGED <<inFlight, recent>>
       ELSE inFlight' = None /\ recent' = TRUE
    /\ task' = [w \in Handlers |->
                   IF w \in waiting \cup {t} THEN over(w) ELSE task[w]]
    /\ UNCHANGED <<convex, events, presence, marks, overlay, ops>>

\* MUTANT: the preferences are not written.
PersistWithoutPrefs(t) ==
    LET got == task[t].got
        waiting == {w \in Handlers : At(w, "await") /\ task[w].on = t}
        over(w) == IF Then(w) = "idle" THEN Idle ELSE [Idle EXCEPT !.at = Then(w)]
    IN
    /\ At(t, "persist")
    /\ StoreAnswer(got)
    /\ bumped' = (bumped \/ got.is = "ok")
    /\ retryTimer' = (retryTimer \/ WantsRetry(t, got))
    /\ IF SkipsDedupe(t) THEN UNCHANGED <<inFlight, recent>>
       ELSE inFlight' = None /\ recent' = TRUE
    /\ task' = [w \in Handlers |->
                   IF w \in waiting \cup {t} THEN over(w) ELSE task[w]]
    /\ UNCHANGED <<convex, events, presence, marks, prefs, overlay, ops>>

(* The session is stored, bumpPlayerVersion tells of it, the preferences   *)
(* follow the profile.  The refresh is over: those who waited go on.       *)
Persist(t) ==
    LET got == task[t].got
        waiting == {w \in Handlers : At(w, "await") /\ task[w].on = t}
        over(w) == IF Then(w) = "idle" THEN Idle ELSE [Idle EXCEPT !.at = Then(w)]
    IN
    /\ At(t, "persist")
    /\ StoreAnswer(got)
    /\ bumped' = (bumped \/ got.is = "ok")
    /\ prefs' = got.profile
    /\ retryTimer' = (retryTimer \/ WantsRetry(t, got))
    /\ IF SkipsDedupe(t) THEN UNCHANGED <<inFlight, recent>>
       ELSE inFlight' = None /\ recent' = TRUE
    /\ task' = [w \in Handlers |->
                   IF w \in waiting \cup {t} THEN over(w) ELSE task[w]]
    /\ UNCHANGED <<convex, events, presence, marks, overlay, ops>>

RefreshStep(t) ==
    \/ JoinInFlight(t) \/ LookRecent(t) \/ StartRefresh(t)
    \/ Fetch(t) \/ ApplyMarks(t) \/ Persist(t)

-----------------------------------------------------------------------------
(* pushHudUpdateForSteamId                                                 *)

(* Without a listener, or without a session to push, nothing happens.      *)
ReadForPush(t) ==
    /\ At(t, "peek") /\ t # "snapshot"
    /\ IF open THEN Peek ELSE UNCHANGED banned
    /\ IF open /\ session # Miss
       THEN GoWith(t, "emit", session) ELSE End(t)
    /\ UNCHANGED <<convex, streams, presence, cache, unregistered, prefs,
                   overlay, dedupe, ops>>

(* worker_cosmetics: the push drops the cache and asks Convex itself, and  *)
(* shows the answer without storing it.                                    *)
DropForPush ==
    LET t == "cosmetics" IN
    /\ At(t, "drop")
    /\ IF open THEN DropSession /\ Go(t, "live")
       ELSE End(t) /\ UNCHANGED cache
    /\ UNCHANGED <<convex, streams, presence, marks, prefs, overlay, dedupe,
                   ops>>

FetchForPush ==
    /\ At("cosmetics", "live") /\ AskConvex("cosmetics", "emit")
    /\ UNCHANGED <<convex, streams, presence, cache, marks, prefs, overlay,
                   dedupe>>

\* MUTANT: an error ends a push as a missing session does, and is not shown.
EmitSessions(t) ==
    LET got == task[t].got
        same == t = "keepalive" /\ lastSent = got
    IN
    /\ At(t, "emit") /\ End(t)
    /\ banned' = (banned \/ got.is = "user_invalidated")
    /\ IF open /\ got.is = "ok" /\ ~same
       THEN shown' = got /\ lastSent' = got /\ TouchSession
       ELSE UNCHANGED <<shown, lastSent, cache>>
    /\ UNCHANGED <<convex, streams, presence, unregistered, prefs, open,
                   dedupe, ops>>

(* An error is sent as it is, a session unless a keepalive pushes what was *)
(* sent already.  A session that is sent renews the TTL of what is cached. *)
Emit(t) ==
    LET got == task[t].got
        same == t = "keepalive" /\ got.is = "ok" /\ lastSent = got
    IN
    /\ At(t, "emit") /\ End(t)
    /\ banned' = (banned \/ got.is = "user_invalidated")
    /\ IF open /\ ~same
       THEN /\ shown' = got
            /\ lastSent' = IF got.is = "ok" THEN got ELSE lastSent
            /\ IF got.is = "ok" THEN TouchSession ELSE UNCHANGED cache
       ELSE UNCHANGED <<shown, lastSent, cache>>
    /\ UNCHANGED <<convex, streams, presence, unregistered, prefs, open,
                   dedupe, ops>>

-----------------------------------------------------------------------------
(* The handlers of the telemetry's events                                  *)

(* noteHudPlayerJoin: another car drops the cached session and forgets the *)
(* refreshes, under way or just ended.  A join is handled when it is read, *)
(* and again with every batch it is in until the hub has taken it.         *)
HandleJoin ==
    /\ Free("join")
    /\ \E e \in events :
          /\ e.type = "join"
          /\ \/ events' = events \ {e} /\ UNCHANGED ops
             \/ Spend /\ UNCHANGED events
          /\ Begin("join", "arrive", Session(e.car, 0))
          /\ IF presence # None /\ presence # e.car
             THEN DropSession /\ inFlight' = None /\ recent' = FALSE
             ELSE UNCHANGED <<cache, inFlight, recent>>
    /\ UNCHANGED <<convex, bumped, presence, marks, prefs, overlay,
                   retryTimer>>

Arrive ==
    /\ At("join", "arrive")
    /\ presence' = task["join"].got.car /\ GoWith("join", "dedupe", Miss)
    /\ UNCHANGED <<convex, streams, cache, marks, prefs, overlay, dedupe,
                   ops>>

(* noteHudPlayerLeave: the presence goes, unless another car is there by   *)
(* now; then handlePlayerLeaveAfterIngest drops the caches, unless he is   *)
(* present again.                                                          *)
HandleLeave ==
    /\ Free("leave")
    /\ \E e \in events :
          /\ e.type = "leave" /\ events' = events \ {e}
          /\ IF presence \in {None, e.car}
             THEN presence' = None /\ Begin("leave", "gone", Miss)
             ELSE UNCHANGED <<presence, task>>
    /\ UNCHANGED <<convex, bumped, cache, marks, prefs, overlay,
                   dedupe, ops>>

DropCaches ==
    /\ At("leave", "gone") /\ End("leave")
    /\ IF presence = None THEN DropSession ELSE UNCHANGED cache
    /\ UNCHANGED <<convex, streams, presence, marks, prefs, overlay, dedupe,
                   ops>>

(* noteHudServerStatus writes the presence of those on the server; the     *)
(* telemetry sends a status again and again, and the statuses of a batch   *)
(* are handled before the leaves in it.                                    *)
HandleStatus ==
    /\ \A u \in Bridge : task[u] = Idle
    /\ presence' \in {car} \cup {e.car : e \in {e \in events : e.type = "leave"}}
    /\ UNCHANGED <<convex, streams, cache, marks, prefs, overlay, dedupe,
                   task, ops>>

(* handleLapCompletedAfterIngest: the lap is written into the session that *)
(* was read, and a personal best drops it again.                           *)
HandleLap ==
    /\ Free("lap") /\ Spend
    /\ IF session.is = "ok" THEN Begin("lap", "patch", session)
       ELSE Begin("lap", "best", Miss)
    /\ UNCHANGED <<convex, streams, presence, cache, marks, prefs, overlay,
                   dedupe>>

PatchLap ==
    /\ At("lap", "patch") /\ StoreSession(task["lap"].got)
    /\ GoWith("lap", "best", Miss)
    /\ UNCHANGED <<convex, streams, presence, marks, prefs, overlay, dedupe,
                   ops>>

(* repushSessionForPlayers, after a battle, and likewise a push for the     *)
(* record of a rival: the cached session is sent again.                    *)
PushAgain == open /\ shown' = session /\ lastSent' = session

(* What else renews the TTL of a cached session as it is: a battle of his  *)
(* that reads his profile, a lap that meets no other writer, a push.       *)
Renew ==
    /\ session.is = "ok" /\ Peek /\ TouchSession
    /\ PushAgain \/ UNCHANGED <<shown, lastSent>>
    /\ UNCHANGED <<convex, streams, presence, unregistered, prefs, open,
                   dedupe, task, ops>>

BestLap ==
    /\ At("lap", "best") /\ End("lap") /\ (DropSession \/ UNCHANGED cache)
    /\ UNCHANGED <<convex, streams, presence, marks, prefs, overlay, dedupe,
                   ops>>

-----------------------------------------------------------------------------
(* The handlers of the overlay, of the worker's calls and of the edge      *)

(* handleHudWsConnection and sendInitialHudPushSnapshot: only a player who *)
(* is present may connect.                                                 *)
Connect ==
    /\ ~open /\ presence # None /\ Free("init")
    /\ open' = TRUE /\ Peek
    /\ Begin("init", IF RefreshWanted THEN "dedupe" ELSE "peek", Miss)
    /\ UNCHANGED <<convex, streams, presence, cache, unregistered, prefs,
                   shown, lastSent, dedupe, ops>>

(* The keepalive of the socket: a missing session and an error are looked  *)
(* into, a session is not.                                                 *)
Keepalive ==
    /\ open /\ Free("keepalive") /\ session.is # "ok"
    /\ Peek /\ Begin("keepalive", "dedupe", Miss)
    /\ UNCHANGED <<convex, streams, presence, cache, unregistered, prefs,
                   overlay, dedupe, ops>>

(* handleHudSnapshot                                                       *)
AskSnapshot ==
    /\ Free("snapshot") /\ presence # None /\ Spend
    /\ Peek
    /\ Begin("snapshot", IF RefreshWanted THEN "dedupe" ELSE "peek", Miss)
    /\ UNCHANGED <<convex, streams, presence, cache, unregistered, prefs,
                   overlay, dedupe>>

AnswerSnapshot ==
    /\ At("snapshot", "peek") /\ Peek /\ End("snapshot")
    /\ UNCHANGED <<convex, streams, presence, cache, unregistered, prefs,
                   overlay, dedupe, ops>>

(* scheduleJoinContextRetry                                                *)
RetryFires ==
    /\ Free("retry") /\ retryTimer /\ retryTimer' = FALSE
    /\ Begin("retry", "fetch", Miss)
    /\ UNCHANGED <<convex, streams, presence, cache, marks, prefs, overlay,
                   inFlight, recent, ops>>

(* onPlayerUpdate of the hub's subscriber, two messages of which do what   *)
(* one does, or a push that something else asks for.                       *)
HearBump ==
    /\ Free("push") /\ bumped' = FALSE
    /\ (bumped /\ UNCHANGED ops) \/ Spend
    /\ Begin("push", "peek", Miss)
    /\ UNCHANGED <<convex, events, presence, cache, marks, prefs,
                   overlay, dedupe>>

-----------------------------------------------------------------------------

World ==
    EditUser \/ Rejoin \/ CloseSocket \/ TtlPasses \/ SessionExpires \/ WindowPasses

Step(t) == RefreshStep(t) \/ ReadForPush(t) \/ Emit(t)

OwnStep ==
    \/ DropForPush \/ FetchForPush \/ Arrive \/ DropCaches \/ PatchLap \/ BestLap
    \/ AnswerSnapshot

HudNext ==
    \/ World \/ OwnStep \/ Connect \/ AskSnapshot
    \/ HandleStatus \/ HandleJoin \/ HandleLeave \/ HandleLap \/ Renew
    \/ Keepalive \/ RetryFires \/ HearBump
    \/ \E t \in Handlers : Step(t)

HudSpec == HudInit /\ [][HudNext]_hudVars

(* Handlers come to their end, what waits for one gets one, statuses are   *)
(* sent and heard, and time passes: a TTL that nobody renews runs out.     *)
FairHudSpec ==
    /\ HudSpec
    /\ \A t \in Handlers : WF_hudVars(Step(t))
    /\ WF_hudVars(OwnStep)
    /\ SF_hudVars(HandleJoin /\ events' # events) /\ SF_hudVars(HandleLeave)
    /\ SF_hudVars(RetryFires) /\ SF_hudVars(bumped /\ HearBump) /\ SF_hudVars(Keepalive)
    /\ WF_hudVars(HandleStatus) /\ WF_hudVars(WindowPasses)
    /\ WF_hudVars(TtlPasses) /\ WF_hudVars(SessionExpires)

-----------------------------------------------------------------------------
(* Properties *)

Refreshing == {"fetch", "apply", "persist"}

Places == Refreshing \cup {"idle", "dedupe", "start", "await", "peek", "drop", "live",
                           "emit", "arrive", "gone", "patch", "best"}

HudTypeOK ==
    /\ user \in {"fine", "banned", "missing"} /\ profile \in Profiles
    /\ car \in Cars /\ presence \in Cars \cup {None}
    /\ events \subseteq {Event(e, c) : e \in {"join", "leave"},
                                       c \in Cars}
    /\ {session, shown, lastSent} \subseteq Sessions
    /\ {fresh, banned, unregistered, open, recent, retryTimer, bumped} \subseteq BOOLEAN
    /\ prefs \in Profiles /\ inFlight \in Handlers \cup {None}
    /\ task \in [Handlers -> [at : Places, got : Sessions,
                              on : Handlers \cup {None}]]

(* Nobody waits for a refresh that is over: no entry of joinRefreshInFlight*)
(* outlives its refresh, however that ends, and whoever found one waits for*)
(* a task that is still refreshing, even if a change of car has thrown the *)
(* entry out meanwhile.                                                    *)
WaitsForARefresh ==
    \A t \in Handlers : At(t, "await") => task[task[t].on].at \in Refreshing

(* What Convex says of the player.                                         *)
Truth ==
    CASE user = "banned" -> Error("user_invalidated")
      [] user = "missing" -> Error("user_not_found")
      [] OTHER -> Session(car, profile)

(* In the end nothing renews the cached session any more but what follows  *)
(* a refresh.  While something does, a session that a lost call left stale *)
(* stays: nobody but its expiry would have Convex asked again.             *)
RenewalsEnd == <>[][~Renew]_hudVars

(* Whatever calls were lost, whatever failed or overtook what, an overlay  *)
(* that stays connected shows the player as Convex knows him in the end,   *)
(* once laps, battles and pushes no longer keep the cached session alive.  *)
OverlayCatchesUp == <>[]open /\ RenewalsEnd => <>[](shown = Truth)

(* And the marks by which the telemetry kicks him, and his preferences, are*)
(* right in the end.  The mark of a ban stays if the banned user is removed*)
(* altogether.                                                             *)
MarksFollowUser ==
    <>[]open /\ RenewalsEnd =>
        <>[](CASE user = "banned" -> banned
               [] user = "missing" -> unregistered
               [] OTHER -> ~banned /\ ~unregistered /\ prefs = profile)
=============================================================================
