------------------------- MODULE KickEnforcerProofs -------------------------
(***************************************************************************)
(* What KickEnforcer promises for any players, slots and bounds: at most   *)
(* one kick per connection, no claim and no deferral mark without its      *)
(* thread, and never two deferrals of one kind for a player.               *)
(*                                                                         *)
(* The argument follows the claim: as long as no thread of a player has    *)
(* outlived a connection, a kick thread has the player in _in_progress, it *)
(* is the only one, and has not sent before its last step; who is in       *)
(* neither _in_progress nor _done has not been kicked.                     *)
(***************************************************************************)
EXTENDS KickEnforcer, FiniteSetTheorems, TLAPS

(* The two sorts of threads, as records; how many twins there are does not *)
(* matter.                                                                 *)
IsKickThread(t) ==
    \E g, n, c, a: t = [kind |-> "kick", guid |-> g, twin |-> n, car |-> c, at |-> a]
IsDeferral(t) ==
    \E k \in {"ban", "reg"}: \E g, n, p, s:
        t = [kind |-> k, guid |-> g, twin |-> n, polls |-> p, saw_banned |-> s]

Shapes == /\ \A t \in threads: IsKickThread(t) \/ IsDeferral(t)
          /\ kicked \in [Guids -> Nat]

(* A mark in set stands for exactly one thread of its kind.                *)
Marked(kind, set, th) ==
    \A g \in Guids:
        /\ (g \in set) <=> \E t \in th: t.kind = kind /\ t.guid = g
        /\ \A t, u \in th: t.kind = kind /\ t.guid = g /\ u.kind = kind /\ u.guid = g => t = u

(* What a claim stands for, as long as nothing of g outlived a connection. *)
ClaimsCount ==
    \A g \in Guids \ outlived:
        /\ \A t \in threads: t.kind = "kick" /\ t.guid = g => g \in in_progress
        /\ \A t, u \in threads: t.kind = "kick" /\ t.guid = g /\ u.kind = "kick" /\ u.guid = g
                                    => t = u
        /\ \A t \in threads: t.kind = "kick" /\ t.guid = g /\ t.at # "sent" => kicked[g] = 0
        /\ g \notin in_progress \cup done => kicked[g] = 0
        /\ kicked[g] <= 1

KickInv == ClaimHeld /\ ClaimsCount
DeferInv == Marked("ban", deferBan, threads) /\ Marked("reg", deferReg, threads)
IInv == Shapes /\ KickInv /\ DeferInv
-----------------------------------------------------------------------------
(* Threads are told apart by their twin only.                              *)

LEMMA TwinnedKick ==
    ASSUME NEW r, IsKickThread(r), NEW th
    PROVE  LET t == Twinned(r, th) IN
           IsKickThread(t) /\ t.kind = "kick" /\ t.guid = r.guid /\ t.at = r.at
<1> DEFINE n == CHOOSE n \in Twins: /\ [r EXCEPT !.twin = n] \notin th
                                    /\ \A m \in 1 .. n - 1: [r EXCEPT !.twin = m] \in th
<1>1. Twinned(r, th) = [r EXCEPT !.twin = n]
  BY Zenon DEF Twinned
<1> HIDE DEF n
<1>2. PICK g, m, c, a:
        r = [kind |-> "kick", guid |-> g, twin |-> m, car |-> c, at |-> a]
  BY DEF IsKickThread
<1>3. Twinned(r, th) = [kind |-> "kick", guid |-> g, twin |-> n, car |-> c, at |-> a]
  BY <1>1, <1>2
<1>4. IsKickThread(Twinned(r, th))
  BY <1>3, Zenon DEF IsKickThread
<1> QED BY <1>2, <1>3, <1>4

LEMMA TwinnedDeferral ==
    ASSUME NEW r, IsDeferral(r), NEW th
    PROVE  LET t == Twinned(r, th) IN
           IsDeferral(t) /\ t.kind = r.kind /\ t.guid = r.guid
<1> DEFINE n == CHOOSE n \in Twins: /\ [r EXCEPT !.twin = n] \notin th
                                    /\ \A m \in 1 .. n - 1: [r EXCEPT !.twin = m] \in th
<1>1. Twinned(r, th) = [r EXCEPT !.twin = n]
  BY Zenon DEF Twinned
<1> HIDE DEF n
<1>2. PICK k \in {"ban", "reg"}: \E g, m, p, s:
        r = [kind |-> k, guid |-> g, twin |-> m, polls |-> p, saw_banned |-> s]
  BY DEF IsDeferral
<1>3. PICK g, m, p, s:
        r = [kind |-> k, guid |-> g, twin |-> m, polls |-> p, saw_banned |-> s]
  BY <1>2
<1>4. Twinned(r, th) = [kind |-> k, guid |-> g, twin |-> n, polls |-> p, saw_banned |-> s]
  BY <1>1, <1>3
<1>5. IsDeferral(Twinned(r, th))
  BY <1>4, Zenon DEF IsDeferral
<1> QED BY <1>3, <1>4, <1>5

LEMMA RecordedPoll ==
    ASSUME NEW t, IsDeferral(t), NEW q, NEW saw
    PROVE  LET r == [t EXCEPT !.polls = q, !.saw_banned = saw] IN
           IsDeferral(r) /\ r.kind = t.kind /\ r.guid = t.guid
<1>1. PICK k \in {"ban", "reg"}: \E g, n, p, s:
        t = [kind |-> k, guid |-> g, twin |-> n, polls |-> p, saw_banned |-> s]
  BY DEF IsDeferral
<1>2. PICK g, n, p, s:
        t = [kind |-> k, guid |-> g, twin |-> n, polls |-> p, saw_banned |-> s]
  BY <1>1
<1> DEFINE u == [t EXCEPT !.polls = q]
           r == [t EXCEPT !.polls = q, !.saw_banned = saw]
<1>3. u = [kind |-> k, guid |-> g, twin |-> n, polls |-> q, saw_banned |-> s]
  BY <1>2
<1>4. r = [u EXCEPT !.saw_banned = saw]
  BY Zenon
<1> HIDE DEF u, r
<1>5. r = [kind |-> k, guid |-> g, twin |-> n, polls |-> q, saw_banned |-> saw]
  BY <1>3, <1>4
<1>6. IsDeferral(r)
  BY <1>5, Zenon DEF IsDeferral
<1>7. r.kind = t.kind /\ r.guid = t.guid
  BY <1>2, <1>5
<1> QED BY <1>6, <1>7 DEF r

LEMMA RecordedKick ==
    ASSUME NEW t, IsKickThread(t), NEW at, NEW car
    PROVE  LET r == [t EXCEPT !.at = at, !.car = car] IN
           IsKickThread(r) /\ r.kind = "kick" /\ r.guid = t.guid /\ r.at = at
<1>1. PICK g, n, c, a:
        t = [kind |-> "kick", guid |-> g, twin |-> n, car |-> c, at |-> a]
  BY DEF IsKickThread
<1> DEFINE u == [t EXCEPT !.at = at]
           r == [t EXCEPT !.at = at, !.car = car]
<1>2. u = [kind |-> "kick", guid |-> g, twin |-> n, car |-> c, at |-> at]
  BY <1>1
<1>3. r = [u EXCEPT !.car = car]
  BY Zenon
<1> HIDE DEF u, r
<1>4. r = [kind |-> "kick", guid |-> g, twin |-> n, car |-> car, at |-> at]
  BY <1>2, <1>3
<1>5. IsKickThread(r)
  BY <1>4, Zenon DEF IsKickThread
<1>6. r.kind = "kick" /\ r.guid = t.guid /\ r.at = at
  BY <1>1, <1>4
<1> QED BY <1>5, <1>6 DEF r

LEMMA Kinds ==
    /\ \A t: IsKickThread(t) => t.kind = "kick"
    /\ \A t: IsDeferral(t) => t.kind \in {"ban", "reg"}
    /\ \A d: /\ IsKickThread(Kick(d)) /\ Kick(d).guid = d.guid /\ Kick(d).at = "begun"
    /\ \A k \in {"ban", "reg"}: \A g:
         IsDeferral(Deferral(k, g)) /\ Deferral(k, g).kind = k /\ Deferral(k, g).guid = g
<1>1. \A t: IsKickThread(t) => t.kind = "kick"
  BY DEF IsKickThread
<1>2. \A t: IsDeferral(t) => t.kind \in {"ban", "reg"}
  BY DEF IsDeferral
<1>3. ASSUME NEW d
      PROVE  IsKickThread(Kick(d)) /\ Kick(d).guid = d.guid /\ Kick(d).at = "begun"
  <2>1. IsKickThread(Kick(d))
    BY Zenon DEF Kick, IsKickThread
  <2> QED BY <2>1 DEF Kick
<1>4. ASSUME NEW k \in {"ban", "reg"}, NEW g
      PROVE  IsDeferral(Deferral(k, g)) /\ Deferral(k, g).kind = k /\ Deferral(k, g).guid = g
  <2>1. IsDeferral(Deferral(k, g))
    BY Zenon DEF Deferral, IsDeferral
  <2> QED BY <2>1 DEF Deferral
<1> QED BY <1>1, <1>2, <1>3, <1>4
-----------------------------------------------------------------------------
(* Deferrals.                                                              *)

(* Deferrals of kind k have come to th, as many as set has.                *)
Extends(k, set, th, new) ==
    /\ Marked(k, set, new)
    /\ \A t \in new: IsKickThread(t) \/ IsDeferral(t)
    /\ \A t: t.kind # k => ((t \in new) <=> (t \in th))

(* A deferral starts unless one is marked.                                 *)
LEMMA Starts ==
    ASSUME NEW k \in {"ban", "reg"}, NEW g, NEW set, NEW th, Marked(k, set, th),
           \A t \in th: IsKickThread(t) \/ IsDeferral(t)
    PROVE  Extends(k, set \cup {g}, th, StartIf(g \notin set, Deferral(k, g), th))
<1> DEFINE new == StartIf(g \notin set, Deferral(k, g), th)
           r == Deferral(k, g)
           tw == Twinned(r, th)
<1>1. IsDeferral(tw) /\ tw.kind = k /\ tw.guid = g
  BY Kinds, TwinnedDeferral
<1>2. new = IF g \notin set THEN th \cup {tw} ELSE th
  BY DEF StartIf, Start
<1>5. new = StartIf(g \notin set, Deferral(k, g), th)
  OBVIOUS
<1> HIDE DEF r, tw, new
<1>3. Marked(k, set \cup {g}, new)
  BY <1>1, <1>2 DEF Marked
<1>4. (\A t \in new: IsKickThread(t) \/ IsDeferral(t))
      /\ \A t: t.kind # k => ((t \in new) <=> (t \in th))
  BY <1>1, <1>2
<1>6. Extends(k, set \cup {g}, th, new)
  BY <1>3, <1>4 DEF Extends
<1> QED BY <1>5, <1>6

(* Other kinds are left alone.                                             *)
LEMMA MarkedKept ==
    ASSUME NEW k, NEW set, NEW th, NEW new, Marked(k, set, th),
           \A t: t.kind = k => ((t \in new) <=> (t \in th))
    PROVE  Marked(k, set, new)
BY DEF Marked

(* A deferral ends with its mark ...                                       *)
LEMMA MarkedEnds ==
    ASSUME NEW k, NEW set, NEW th, NEW t \in th, t.kind = k, Marked(k, set, th)
    PROVE  Marked(k, set \ {t.guid}, th \ {t})
BY DEF Marked

(* ... or goes on with it.                                                 *)
LEMMA MarkedGoesOn ==
    ASSUME NEW k, NEW set, NEW th, NEW t \in th, t.kind = k, Marked(k, set, th),
           NEW r, r.kind = k, r.guid = t.guid
    PROVE  Marked(k, set, (th \ {t}) \cup {r})
BY DEF Marked

LEMMA MarksMeanThreads == ASSUME DeferInv PROVE DeferralsMarked
<1> SUFFICES ASSUME NEW g \in Guids, NEW kind, NEW set, Marked(kind, set, threads)
             PROVE  Cardinality(Running(kind, g)) = IF g \in set THEN 1 ELSE 0
  BY DEF DeferInv, DeferralsMarked
<1>1. CASE g \in set
  <2>1. PICK t \in threads: t.kind = kind /\ t.guid = g
    BY <1>1 DEF Marked
  <2>2. Running(kind, g) = {t}
    BY <2>1 DEF Marked, Running
  <2> QED BY <1>1, <2>2, FS_Singleton
<1>2. CASE g \notin set
  <2>1. Running(kind, g) = {}
    BY <1>2 DEF Marked, Running
  <2> QED BY <1>2, <2>1, FS_EmptySet
<1> QED BY <1>1, <1>2
-----------------------------------------------------------------------------
(* Kicks.                                                                  *)

(* No kick thread, claim or kick changes.                                  *)
LEMMA KicksKept ==
    ASSUME KickInv, UNCHANGED <<claims, history>>,
           \A t: t.kind = "kick" => ((t \in threads') <=> (t \in threads))
    PROVE  KickInv'
<1>1. ClaimHeld'
  BY DEF KickInv, ClaimHeld, Running, claims
<1>2. ClaimsCount'
  BY DEF KickInv, ClaimsCount, claims, history
<1> QED BY <1>1, <1>2 DEF KickInv

(* Kicks begin for some of those who are free to claim.                    *)
LEMMA KicksBegin ==
    ASSUME Shapes, KickInv, NEW th, NEW ds, KickAll(ds, th), UNCHANGED history,
           th \subseteq threads, \A t \in threads: t.kind = "kick" => t \in th
    PROVE  /\ KickInv'
           /\ \A t \in threads': t \notin th => IsKickThread(t)
           /\ th \subseteq threads'
<1> DEFINE begun == {d \in ds : d.car # None /\ Claimable(d.guid)}
           guids == {d.guid : d \in begun}
<1>1. PICK pick \in [guids -> begun]:
        /\ \A g \in guids: pick[g].guid = g
        /\ threads' = th \cup {Twinned(Kick(pick[g]), th) : g \in guids}
  BY DEF KickAll
<1>2. in_progress' = in_progress \cup guids /\ UNCHANGED <<done, kicked, outlived>>
  BY DEF KickAll, history
<1>3. \A g \in guids: g \notin in_progress \cup done
  BY DEF Claimable
<1> DEFINE new(g) == Twinned(Kick(pick[g]), th)
<1>4. \A g \in guids: /\ IsKickThread(new(g)) /\ new(g).kind = "kick" /\ new(g).guid = g
                      /\ new(g).at = "begun"
  BY <1>1, Kinds, TwinnedKick
<1>5. threads' = th \cup {new(g) : g \in guids}
  BY <1>1
<1> HIDE DEF guids, new
<1>6. \A t \in threads': t.kind = "kick" => \/ t \in threads
                                            \/ t.guid \in guids /\ t = new(t.guid)
  BY <1>4, <1>5
<1>7. \A t \in threads: t.kind = "kick" => t \in threads'
  BY <1>5
<1>8. ClaimHeld'
  <2> SUFFICES ASSUME NEW g \in in_progress'
               PROVE  \E t \in threads': t.kind = "kick" /\ t.guid = g
    BY DEF ClaimHeld, Running
  <2>1. CASE g \in guids
    BY <1>4, <1>5, <2>1
  <2>2. CASE g \in in_progress
    BY <1>7, <2>2 DEF KickInv, ClaimHeld, Running
  <2> QED BY <1>2, <2>1, <2>2
<1>9. ClaimsCount'
  <2> SUFFICES ASSUME NEW g \in Guids, g \notin outlived
               PROVE  /\ \A t \in threads': t.kind = "kick" /\ t.guid = g => g \in in_progress'
                      /\ \A t, u \in threads': t.kind = "kick" /\ t.guid = g /\ u.kind = "kick"
                                                   /\ u.guid = g => t = u
                      /\ \A t \in threads': t.kind = "kick" /\ t.guid = g /\ t.at # "sent"
                                                => kicked[g] = 0
                      /\ g \notin in_progress' \cup done => kicked[g] = 0
                      /\ kicked[g] <= 1
    BY <1>2 DEF ClaimsCount
  <2>1. CASE g \in guids
    <3>1. \A t \in threads: ~(t.kind = "kick" /\ t.guid = g)
      BY <1>3, <2>1 DEF KickInv, ClaimsCount
    <3>2. kicked[g] = 0
      BY <1>3, <2>1 DEF KickInv, ClaimsCount
    <3> QED BY <1>2, <1>6, <2>1, <3>1, <3>2
  <2>2. CASE g \notin guids
    BY <1>2, <1>6, <2>2 DEF KickInv, ClaimsCount
  <2> QED BY <2>1, <2>2
<1> QED BY <1>4, <1>5, <1>8, <1>9 DEF KickInv

(* A packet or message that may begin kicks, whatever else it records.     *)
LEMMA KickersKeep ==
    ASSUME IInv, NEW ds, KickAll(ds, threads), UNCHANGED <<history, deferrals>>
    PROVE  IInv'
<1>1. /\ KickInv' /\ (\A t \in threads': t \notin threads => IsKickThread(t))
      /\ threads \subseteq threads'
  BY KicksBegin DEF IInv
<1>2. Shapes'
  BY <1>1 DEF IInv, Shapes, history
<1>3. DeferInv'
  <2>1. \A k \in {"ban", "reg"}: \A t: t.kind = k => ((t \in threads') <=> (t \in threads))
    BY <1>1, Kinds
  <2> QED BY <2>1, MarkedKept DEF IInv, DeferInv, deferrals
<1> QED BY <1>1, <1>2, <1>3 DEF IInv
-----------------------------------------------------------------------------
(* The steps.                                                              *)

LEMMA OthersKeep ==
    ASSUME IInv, UNCHANGED <<threads, claims, history, deferrals>>
    PROVE  IInv'
<1>1. KickInv'
  BY KicksKept DEF IInv
<1>2. Shapes' /\ DeferInv'
  BY DEF IInv, Shapes, DeferInv, Marked, history, deferrals
<1> QED BY <1>1, <1>2 DEF IInv

(* The deferrals a join schedules, each unless it is scheduled already.    *)
LEMMA DefersKeep ==
    ASSUME IInv, NEW g, NEW ban \in BOOLEAN, NEW reg \in BOOLEAN,
           threads' = StartIf(reg /\ g \notin deferReg, Deferral("reg", g),
                         StartIf(ban /\ g \notin deferBan, Deferral("ban", g), threads)),
           deferBan' = (IF ban THEN deferBan \cup {g} ELSE deferBan),
           deferReg' = (IF reg THEN deferReg \cup {g} ELSE deferReg),
           UNCHANGED <<claims, history>>
    PROVE  IInv'
<1> DEFINE first == StartIf(ban /\ g \notin deferBan, Deferral("ban", g), threads)
<1>1. /\ Marked("ban", deferBan', first)
      /\ \A t \in first: IsKickThread(t) \/ IsDeferral(t)
      /\ \A t: t.kind # "ban" => ((t \in first) <=> (t \in threads))
  <2>1. CASE ban
    <3>1. Extends("ban", deferBan \cup {g}, threads,
                  StartIf(g \notin deferBan, Deferral("ban", g), threads))
      BY Starts DEF IInv, DeferInv, Shapes
    <3> QED BY <2>1, <3>1 DEF Extends
  <2>2. CASE ~ban
    BY <2>2 DEF StartIf, IInv, DeferInv, Shapes
  <2> QED BY <2>1, <2>2
<1> HIDE DEF first
<1>2. threads' = StartIf(reg /\ g \notin deferReg, Deferral("reg", g), first)
  BY DEF first
<1>3. Marked("reg", deferReg, first)
  BY <1>1, MarkedKept DEF IInv, DeferInv
<1>4. /\ Marked("reg", deferReg', threads')
      /\ \A t \in threads': IsKickThread(t) \/ IsDeferral(t)
      /\ \A t: t.kind # "reg" => ((t \in threads') <=> (t \in first))
  <2>1. CASE reg
    <3>1. threads' = StartIf(g \notin deferReg, Deferral("reg", g), first)
          /\ deferReg' = deferReg \cup {g}
      BY <1>2, <2>1
    <3>2. \A t \in first: IsKickThread(t) \/ IsDeferral(t)
      BY <1>1
    <3>3. Extends("reg", deferReg \cup {g}, first,
                  StartIf(g \notin deferReg, Deferral("reg", g), first))
      BY <1>3, <3>2, Starts
    <3> QED BY <3>1, <3>3 DEF Extends
  <2>2. CASE ~reg
    BY <1>1, <1>2, <1>3, <2>2 DEF StartIf
  <2> QED BY <2>1, <2>2
<1>5. Marked("ban", deferBan', threads')
  BY <1>1, <1>4, MarkedKept
<1>6. KickInv'
  BY <1>1, <1>4, KicksKept DEF IInv
<1> QED BY <1>4, <1>5, <1>6 DEF IInv, Shapes, DeferInv, history

LEMMA JoinsKeep ==
    ASSUME IInv, NEW g, NEW c, NewConnection(g, c) \/ ClientLoaded(c)
    PROVE  IInv'
<1>1. CASE NewConnection(g, c)
  BY <1>1, DefersKeep DEF NewConnection
<1>2. CASE ClientLoaded(c)
  <2> DEFINE known == active_drivers[c] # None
             h == IF known THEN active_drivers[c].guid ELSE last_known_by_car_id[c]
             ban == h \in banned
             reg == h \notin banned /\ Cached(regCache, h, unregistered)
  <2>1. /\ deferBan' = IF ban THEN deferBan \cup {h} ELSE deferBan
        /\ deferReg' = IF reg THEN deferReg \cup {h} ELSE deferReg
        /\ threads' = StartIf(reg /\ h \notin deferReg, Deferral("reg", h),
                         StartIf(h \in banned \ deferBan, Deferral("ban", h), threads))
        /\ UNCHANGED <<claims, history>>
    BY <1>2, Zenon DEF ClientLoaded
  <2>2. (h \in banned \ deferBan) = (ban /\ h \notin deferBan)
    OBVIOUS
  <2>3. ban \in BOOLEAN /\ reg \in BOOLEAN
    OBVIOUS
  <2> HIDE DEF h, ban, reg
  <2>4. threads' = StartIf(reg /\ h \notin deferReg, Deferral("reg", h),
                      StartIf(ban /\ h \notin deferBan, Deferral("ban", h), threads))
    BY <2>1, <2>2
  <2> QED BY <2>1, <2>3, <2>4, DefersKeep
<1> QED BY <1>1, <1>2

(* The claims of a player go, the threads stay.                            *)
LEMMA ClearKeeps ==
    ASSUME IInv, NEW g, clear_kick_state(g), UNCHANGED deferrals
    PROVE  IInv'
<1>1. /\ in_progress' = in_progress \ {g} /\ done' = done \ {g} /\ UNCHANGED threads
      /\ kicked' = [kicked EXCEPT ![g] = 0]
      /\ outlived' = IF Running("kick", g) = {} THEN outlived ELSE outlived \cup {g}
  BY DEF clear_kick_state
<1>2. Shapes' /\ DeferInv'
  <2>1. kicked' \in [Guids -> Nat]
    BY <1>1 DEF IInv, Shapes
  <2>2. Shapes'
    BY <1>1, <2>1 DEF IInv, Shapes
  <2>3. DeferInv'
    BY <1>1 DEF IInv, DeferInv, Marked, deferrals
  <2> QED BY <2>2, <2>3
<1>3. ClaimHeld'
  BY <1>1 DEF IInv, KickInv, ClaimHeld, Running
<1>4. ClaimsCount'
  <2> SUFFICES ASSUME NEW h \in Guids, h \notin outlived'
               PROVE  /\ \A t \in threads: t.kind = "kick" /\ t.guid = h => h \in in_progress'
                      /\ \A t, u \in threads: t.kind = "kick" /\ t.guid = h /\ u.kind = "kick"
                                                  /\ u.guid = h => t = u
                      /\ \A t \in threads: t.kind = "kick" /\ t.guid = h /\ t.at # "sent"
                                               => kicked'[h] = 0
                      /\ h \notin in_progress' \cup done' => kicked'[h] = 0
                      /\ kicked'[h] <= 1
    BY <1>1 DEF ClaimsCount
  <2>1. h \notin outlived
    BY <1>1
  <2>2. CASE h = g
    <3>1. \A t \in threads: ~(t.kind = "kick" /\ t.guid = h)
      BY <1>1, <2>2 DEF Running
    <3>2. kicked'[h] = 0
      BY <1>1, <2>2 DEF IInv, Shapes
    <3> QED BY <3>1, <3>2
  <2>3. CASE h # g
    <3>1. kicked'[h] = kicked[h]
      BY <1>1, <2>3 DEF IInv, Shapes
    <3> QED BY <1>1, <2>1, <2>3, <3>1 DEF IInv, KickInv, ClaimsCount
  <2> QED BY <2>2, <2>3
<1> QED BY <1>2, <1>3, <1>4 DEF IInv, KickInv

(* A deferral goes on, ends, hands over to one of the other kind or ends   *)
(* in a kick.                                                              *)
LEMMA DeferralGoesOn ==
    ASSUME IInv, NEW t \in threads, NEW r, IsDeferral(r), r.kind = t.kind, r.guid = t.guid,
           threads' = Step(t, r), UNCHANGED <<deferrals, claims, history>>
    PROVE  IInv'
<1> DEFINE tw == Twinned(r, Stop(t))
<1>1. IsDeferral(tw) /\ tw.kind = t.kind /\ tw.guid = t.guid /\ t.kind \in {"ban", "reg"}
  BY TwinnedDeferral, Kinds
<1>2. threads' = (threads \ {t}) \cup {tw}
  BY DEF Step, Start, Stop
<1> HIDE DEF tw
<1>3. Shapes'
  BY <1>1, <1>2 DEF IInv, Shapes, history
<1>4. KickInv'
  BY <1>1, <1>2, KicksKept DEF IInv
<1>5. DeferInv'
  <2>1. ASSUME NEW k \in {"ban", "reg"}, NEW set, Marked(k, set, threads)
        PROVE  Marked(k, set, threads')
    <3>1. CASE t.kind = k
      BY <1>1, <1>2, <2>1, <3>1, MarkedGoesOn
    <3>2. CASE t.kind # k
      BY <1>1, <1>2, <2>1, <3>2, MarkedKept
    <3> QED BY <3>1, <3>2
  <2> QED BY <2>1 DEF IInv, DeferInv, deferrals
<1> QED BY <1>3, <1>4, <1>5 DEF IInv

LEMMA DeferralStops ==
    ASSUME IInv, NEW t \in threads, IsDeferral(t),
           deferBan' = (IF t.kind = "ban" THEN deferBan \ {t.guid} ELSE deferBan),
           deferReg' = (IF t.kind = "reg" THEN deferReg \ {t.guid} ELSE deferReg),
           UNCHANGED history,
           \/ threads' = Stop(t) /\ UNCHANGED claims
           \/ \E ds: KickAll(ds, Stop(t))
    PROVE  IInv'
<1>1. /\ t.kind \in {"ban", "reg"} /\ Stop(t) = threads \ {t}
      /\ \A u \in threads: u.kind = "kick" => u \in Stop(t)
  BY Kinds DEF Stop
<1>2. /\ KickInv' /\ Stop(t) \subseteq threads'
      /\ \A u \in threads': u \notin Stop(t) => IsKickThread(u)
  <2>1. CASE threads' = Stop(t) /\ UNCHANGED claims
    BY <1>1, <2>1, KicksKept DEF IInv
  <2>2. CASE \E ds: KickAll(ds, Stop(t))
    BY <1>1, <2>2, KicksBegin DEF IInv
  <2> QED BY <2>1, <2>2
<1>3. Shapes'
  BY <1>1, <1>2 DEF IInv, Shapes, history
<1>4. \A k \in {"ban", "reg"}: \A u: u.kind = k => ((u \in threads') <=> (u \in Stop(t)))
  BY <1>2, Kinds
<1>5. DeferInv'
  <2>1. Marked("ban", deferBan', Stop(t)) /\ Marked("reg", deferReg', Stop(t))
    <3>1. CASE t.kind = "ban"
      <4>1. Marked("ban", deferBan', Stop(t))
        BY <1>1, <3>1, MarkedEnds DEF IInv, DeferInv
      <4>2. Marked("reg", deferReg', Stop(t))
        BY <1>1, <3>1, MarkedKept DEF IInv, DeferInv
      <4> QED BY <4>1, <4>2
    <3>2. CASE t.kind = "reg"
      <4>1. Marked("reg", deferReg', Stop(t))
        BY <1>1, <3>2, MarkedEnds DEF IInv, DeferInv
      <4>2. Marked("ban", deferBan', Stop(t))
        BY <1>1, <3>2, MarkedKept DEF IInv, DeferInv
      <4> QED BY <4>1, <4>2
    <3> QED BY <1>1, <3>1, <3>2
  <2> QED BY <1>4, <2>1, MarkedKept DEF DeferInv
<1> QED BY <1>2, <1>3, <1>5 DEF IInv

LEMMA HandOffKeeps ==
    ASSUME IInv, NEW t \in threads, IsDeferral(t), t.kind = "reg", NEW g, HandOff(t, g),
           UNCHANGED history
    PROVE  IInv'
<1>1. /\ deferBan' = deferBan \cup {g} /\ deferReg' = deferReg \ {t.guid}
      /\ threads' = StartIf(g \notin deferBan, Deferral("ban", g), Stop(t))
      /\ UNCHANGED claims /\ Stop(t) = threads \ {t}
  BY DEF HandOff, Stop
<1>2. Marked("reg", deferReg', Stop(t))
  BY <1>1, MarkedEnds DEF IInv, DeferInv
<1>3. Marked("ban", deferBan, Stop(t))
  BY <1>1, MarkedKept DEF IInv, DeferInv
<1>4. /\ Marked("ban", deferBan', threads')
      /\ \A u \in threads': IsKickThread(u) \/ IsDeferral(u)
      /\ \A u: u.kind # "ban" => ((u \in threads') <=> (u \in Stop(t)))
  <2>1. \A u \in Stop(t): IsKickThread(u) \/ IsDeferral(u)
    BY <1>1 DEF IInv, Shapes
  <2>2. Extends("ban", deferBan \cup {g}, Stop(t),
                StartIf(g \notin deferBan, Deferral("ban", g), Stop(t)))
    BY <1>3, <2>1, Starts
  <2> QED BY <1>1, <2>2 DEF Extends
<1>5. Marked("reg", deferReg', threads')
  BY <1>2, <1>4, MarkedKept
<1>6. KickInv'
  BY <1>1, <1>4, KicksKept DEF IInv
<1> QED BY <1>4, <1>5, <1>6 DEF IInv, Shapes, DeferInv, history

LEMMA DeferralKeeps ==
    ASSUME IInv, NEW t \in threads, BanPoll(t) \/ RegPoll(t) \/ RegDecide(t)
    PROVE  IInv'
<1>1. IsDeferral(t)
  BY Kinds DEF IInv, Shapes, BanPoll, RegPoll, RegDecide
<1>2. /\ IsDeferral([t EXCEPT !.polls = @ - 1])
      /\ [t EXCEPT !.polls = @ - 1].kind = t.kind /\ [t EXCEPT !.polls = @ - 1].guid = t.guid
  <2>1. PICK k \in {"ban", "reg"}: \E g, n, p, s:
          t = [kind |-> k, guid |-> g, twin |-> n, polls |-> p, saw_banned |-> s]
    BY <1>1 DEF IsDeferral
  <2>2. PICK g, n, p, s:
          t = [kind |-> k, guid |-> g, twin |-> n, polls |-> p, saw_banned |-> s]
    BY <2>1
  <2>3. [t EXCEPT !.polls = @ - 1]
          = [kind |-> k, guid |-> g, twin |-> n, polls |-> p - 1, saw_banned |-> s]
    BY <2>2
  <2>4. IsDeferral([t EXCEPT !.polls = @ - 1])
    BY <2>3, Zenon DEF IsDeferral
  <2> QED BY <2>2, <2>3, <2>4
<1>3. CASE BanPoll(t)
  <2>1. t.kind = "ban" /\ UNCHANGED history
    BY <1>3 DEF BanPoll, notDeferral
  <2>2. CASE \E saw: /\ threads' = Step(t, [t EXCEPT !.polls = @ - 1, !.saw_banned = saw])
                     /\ UNCHANGED <<deferrals, claims>>
    <3>1. PICK saw: /\ threads' = Step(t, [t EXCEPT !.polls = @ - 1, !.saw_banned = saw])
                    /\ UNCHANGED <<deferrals, claims>>
      BY <2>2
    <3> DEFINE q == t.polls - 1
               r == [t EXCEPT !.polls = q, !.saw_banned = saw]
    <3>2. threads' = Step(t, r)
      BY <3>1
    <3> HIDE DEF q
    <3>3. IsDeferral(r) /\ r.kind = t.kind /\ r.guid = t.guid
      BY <1>1, RecordedPoll
    <3> HIDE DEF r
    <3> QED BY <2>1, <3>1, <3>2, <3>3, DeferralGoesOn
  <2>3. CASE /\ deferBan' = deferBan \ {t.guid} /\ UNCHANGED deferReg
             /\ \/ \E d: KickAll({d}, Stop(t))
                \/ threads' = Stop(t) /\ UNCHANGED claims
    BY <1>1, <2>1, <2>3, DeferralStops
  <2> QED BY <1>3, <2>2, <2>3, Zenon DEF BanPoll
<1>4. CASE RegPoll(t)
  <2>1. t.kind = "reg" /\ UNCHANGED history
    BY <1>4 DEF RegPoll, notDeferral
  <2>2. CASE HandOff(t, t.guid)
    BY <1>1, <2>1, <2>2, HandOffKeeps
  <2>3. CASE threads' = Step(t, [t EXCEPT !.polls = @ - 1]) /\ UNCHANGED <<deferrals, claims>>
    <3> DEFINE r == [t EXCEPT !.polls = @ - 1]
    <3>1. IsDeferral(r) /\ r.kind = t.kind /\ r.guid = t.guid /\ threads' = Step(t, r)
      BY <1>2, <2>3
    <3> HIDE DEF r
    <3> QED BY <2>1, <2>3, <3>1, DeferralGoesOn
  <2>4. CASE /\ threads' = Stop(t) /\ deferReg' = deferReg \ {t.guid}
             /\ UNCHANGED <<deferBan, claims>>
    BY <1>1, <2>1, <2>4, DeferralStops
  <2> QED BY <1>4, <2>2, <2>3, <2>4, Zenon DEF RegPoll
<1>5. CASE RegDecide(t)
  <2>1. t.kind = "reg" /\ UNCHANGED history
    BY <1>5 DEF RegDecide, notDeferral
  <2>2. CASE /\ threads' = Stop(t) /\ deferReg' = deferReg \ {t.guid}
             /\ UNCHANGED <<deferBan, claims>>
    BY <1>1, <2>1, <2>2, DeferralStops
  <2>3. CASE \E d: HandOff(t, d.guid)
    BY <1>1, <2>1, <2>3, HandOffKeeps
  <2>4. CASE /\ deferReg' = deferReg \ {t.guid} /\ UNCHANGED deferBan
             /\ \E d: KickAll({d}, Stop(t))
    BY <1>1, <2>1, <2>4, DeferralStops
  <2> QED BY <1>5, <2>2, <2>3, <2>4, Zenon DEF RegDecide
<1> QED BY <1>3, <1>4, <1>5

(* A kick thread goes on: it has the same player, and sends once.          *)
LEMMA KickGoesOn ==
    ASSUME IInv, NEW t \in threads, t.kind = "kick", NEW r, IsKickThread(r), r.guid = t.guid,
           threads' = Step(t, r), UNCHANGED <<deferrals, claims, outlived>>,
           \/ UNCHANGED kicked /\ t.at # "sent"
           \/ /\ t.at # "sent" /\ r.at = "sent"
              /\ kicked' = [kicked EXCEPT ![t.guid] = @ + 1]
    PROVE  IInv'
<1> DEFINE tw == Twinned(r, Stop(t))
<1>1. IsKickThread(tw) /\ tw.kind = "kick" /\ tw.guid = t.guid /\ tw.at = r.at
  BY TwinnedKick
<1>2. threads' = (threads \ {t}) \cup {tw}
  BY DEF Step, Start, Stop
<1> HIDE DEF tw
<1>3. Shapes'
  BY <1>1, <1>2 DEF IInv, Shapes
<1>4. DeferInv'
  <2>1. \A k \in {"ban", "reg"}: \A u: u.kind = k => ((u \in threads') <=> (u \in threads))
    BY <1>1, <1>2
  <2> QED BY <2>1, MarkedKept DEF IInv, DeferInv, deferrals
<1>5. ClaimHeld'
  BY <1>1, <1>2 DEF IInv, KickInv, ClaimHeld, Running, claims
<1>6. ClaimsCount'
  <2> SUFFICES ASSUME NEW h \in Guids, h \notin outlived
               PROVE  /\ \A u \in threads': u.kind = "kick" /\ u.guid = h => h \in in_progress
                      /\ \A u, v \in threads': u.kind = "kick" /\ u.guid = h /\ v.kind = "kick"
                                                   /\ v.guid = h => u = v
                      /\ \A u \in threads': u.kind = "kick" /\ u.guid = h /\ u.at # "sent"
                                                => kicked'[h] = 0
                      /\ h \notin in_progress \cup done => kicked'[h] = 0
                      /\ kicked'[h] <= 1
    BY DEF ClaimsCount, claims
  <2>1. CASE h = t.guid
    <3>1. h \in in_progress /\ kicked[h] = 0
          /\ \A u \in threads: u.kind = "kick" /\ u.guid = h => u = t
      BY <2>1 DEF IInv, KickInv, ClaimsCount
    <3>2. \A u \in threads': u.kind = "kick" /\ u.guid = h => u = tw
      BY <1>2, <3>1
    <3>3. \/ kicked'[h] = 0
          \/ kicked'[h] = 1 /\ r.at = "sent"
      BY <2>1, <3>1 DEF IInv, Shapes
    <3> QED BY <1>1, <3>1, <3>2, <3>3
  <2>2. CASE h # t.guid
    <3>1. kicked'[h] = kicked[h]
      BY <2>2 DEF IInv, Shapes
    <3>2. \A u \in threads': u.kind = "kick" /\ u.guid = h => u \in threads
      BY <1>1, <1>2, <2>2
    <3> QED BY <3>1, <3>2 DEF IInv, KickInv, ClaimsCount
  <2> QED BY <2>1, <2>2
<1> QED BY <1>3, <1>4, <1>5, <1>6 DEF IInv, KickInv

(* A kick thread ends, with its claim given back or its kick done.         *)
LEMMA KickEnds ==
    ASSUME IInv, NEW t \in threads, t.kind = "kick", threads' = Stop(t),
           UNCHANGED <<deferrals, history>>, in_progress' = in_progress \ {t.guid},
           \/ t.at # "sent" /\ done' = done \ {t.guid}
           \/ done' = done \cup {t.guid}
    PROVE  IInv'
<1>1. threads' = threads \ {t}
  BY DEF Stop
<1>2. Shapes'
  BY <1>1 DEF IInv, Shapes, history
<1>3. DeferInv'
  <2>1. \A k \in {"ban", "reg"}: \A u: u.kind = k => ((u \in threads') <=> (u \in threads))
    BY <1>1
  <2> QED BY <2>1, MarkedKept DEF IInv, DeferInv, deferrals
<1>4. ClaimHeld'
  BY <1>1 DEF IInv, KickInv, ClaimHeld, Running
<1>5. ClaimsCount'
  BY <1>1 DEF IInv, KickInv, ClaimsCount, history
<1> QED BY <1>2, <1>3, <1>4, <1>5 DEF IInv, KickInv

LEMMA KickThreadKeeps ==
    ASSUME IInv, NEW t \in threads, Warn(t) \/ SendKick(t) \/ FinishKick(t)
    PROVE  IInv'
<1>1. t.kind = "kick" /\ IsKickThread(t) /\ UNCHANGED <<deferrals, outlived>>
  BY Kinds DEF IInv, Shapes, Warn, SendKick, FinishKick, IsKick, notKick, history
<1>2. CASE Warn(t)
  <2>1. t.at = "begun" /\ UNCHANGED history
    BY <1>2 DEF Warn, IsKick
  <2>2. CASE /\ threads' = Stop(t)
             /\ in_progress' = in_progress \ {t.guid} /\ done' = done \ {t.guid}
    BY <1>1, <2>1, <2>2, KickEnds
  <2>3. CASE /\ \E d \in Found(t.guid):
                  threads' = Step(t, [t EXCEPT !.at = "warned",
                                               !.car = IF d.car = None THEN @ ELSE d.car])
             /\ UNCHANGED claims
    <3>1. PICK car: threads' = Step(t, [t EXCEPT !.at = "warned", !.car = car])
      BY <2>3
    <3> DEFINE r == [t EXCEPT !.at = "warned", !.car = car]
    <3>2. IsKickThread(r) /\ r.guid = t.guid
      BY <1>1, RecordedKick
    <3>3. threads' = Step(t, r)
      BY <3>1
    <3> HIDE DEF r
    <3> QED BY <1>1, <2>1, <2>3, <3>2, <3>3, KickGoesOn DEF history
  <2> QED BY <1>2, <2>2, <2>3, Zenon DEF Warn
<1>3. CASE SendKick(t)
  <2> DEFINE r == [t EXCEPT !.at = "sent"]
  <2>1. PICK g, n, c, a:
          t = [kind |-> "kick", guid |-> g, twin |-> n, car |-> c, at |-> a]
    BY <1>1 DEF IsKickThread
  <2>2. r = [kind |-> "kick", guid |-> g, twin |-> n, car |-> c, at |-> "sent"]
    BY <2>1
  <2>3. /\ t.at = "warned" /\ threads' = Step(t, r) /\ UNCHANGED claims
        /\ kicked' = [kicked EXCEPT ![t.guid] = @ + 1]
    BY <1>3 DEF SendKick, IsKick
  <2> HIDE DEF r
  <2>4. IsKickThread(r)
    BY <2>2, Zenon DEF IsKickThread
  <2>5. r.guid = t.guid /\ r.at = "sent"
    BY <2>1, <2>2
  <2> QED BY <1>1, <2>3, <2>4, <2>5, KickGoesOn
<1>4. CASE FinishKick(t)
  BY <1>1, <1>4, KickEnds DEF FinishKick
<1> QED BY <1>2, <1>3, <1>4
-----------------------------------------------------------------------------
LEMMA InitHolds == ASSUME Init PROVE IInv
BY DEF Init, IInv, Shapes, KickInv, ClaimHeld, ClaimsCount, DeferInv, Marked

LEMMA StepKeeps == ASSUME IInv, [Next]_vars PROVE IInv'
<1>1. CASE UNCHANGED vars
  BY <1>1, OthersKeep DEF vars
<1>2. ASSUME NEW g \in Guids, NEW c \in Cars, NewConnection(g, c) \/ NewConnectionLost(g, c)
      PROVE  IInv'
  BY <1>2, JoinsKeep, OthersKeep DEF NewConnectionLost
<1>3. ASSUME NEW c \in Cars,
             Leave(c) \/ ConnectionClosedLost(c) \/ Purge(c) \/ LapCompleted(c)
      PROVE  IInv'
  BY <1>3, OthersKeep DEF Leave, ConnectionClosedLost, Purge, LapCompleted
<1>4. ASSUME NEW c \in Cars, ConnectionClosed(c) PROVE IInv'
  <2>1. UNCHANGED deferrals
    BY <1>4 DEF ConnectionClosed
  <2>2. CASE active_drivers[c] = None
    BY <1>4, <2>2, OthersKeep DEF ConnectionClosed
  <2>3. CASE active_drivers[c] # None
    BY <1>4, <2>1, <2>3, ClearKeeps DEF ConnectionClosed
  <2> QED BY <2>2, <2>3
<1>5. ASSUME NEW c \in Cars, CarInfo(c) \/ CarUpdate(c) PROVE IInv'
  BY <1>5, KickersKeep DEF CarInfo, CarUpdate
<1>6. ASSUME NEW c \in Cars, ClientLoaded(c) PROVE IInv'
  BY <1>6, JoinsKeep
<1>7. ASSUME NEW g \in Suspects,
             \/ Ban(g) \/ ClearBan(g) \/ MarkUnregistered(g) \/ ClearUnregistered(g)
             \/ MessageLost(g) \/ BanCacheExpires(g) \/ RegCacheExpires(g)
      PROVE  IInv'
  BY <1>7, OthersKeep DEF Ban, ClearBan, MarkUnregistered, ClearUnregistered, MessageLost,
                          BanCacheExpires, RegCacheExpires, notRedis
<1>8. ASSUME NEW g \in Suspects, BanMessage(g) \/ RegMessage(g) PROVE IInv'
  BY <1>8, KickersKeep DEF BanMessage, RegMessage
<1>9. ASSUME NEW t \in threads, Worker(t) PROVE IInv'
  BY <1>9, DeferralKeeps, KickThreadKeeps DEF Worker
<1> QED BY <1>1, <1>2, <1>3, <1>4, <1>5, <1>6, <1>7, <1>8, <1>9 DEF Next

LEMMA Invariance == Spec => []IInv
<1>1. Init => IInv
  BY InitHolds
<1>2. IInv /\ [Next]_vars => IInv'
  BY StepKeeps
<1> QED BY <1>1, <1>2, PTL DEF Spec

(* However joins, packets, checks, messages and threads interleave, a      *)
(* player is sent at most one KICK_USER per connection, unless a kick      *)
(* thread of theirs outlived an earlier one (_try_begin_kick).             *)
THEOREM OneKick == Spec => []OneKickPerConnection
<1>1. IInv => OneKickPerConnection
  BY DEF IInv, KickInv, ClaimsCount, OneKickPerConnection
<1> QED BY <1>1, Invariance, PTL

(* A player in _in_progress has a kick thread: no claim is left behind     *)
(* that would block every later kick.                                      *)
THEOREM ClaimsAreHeld == Spec => []ClaimHeld
<1>1. IInv => ClaimHeld
  BY DEF IInv, KickInv
<1> QED BY <1>1, Invariance, PTL

(* A player is in _defer_*_kick_scheduled exactly while one thread will    *)
(* decide: never two, and no mark that no thread is left to remove.        *)
THEOREM DeferralsHaveThreads == Spec => []DeferralsMarked
<1>1. IInv => DeferralsMarked
  BY MarksMeanThreads DEF IInv
<1> QED BY <1>1, Invariance, PTL
=============================================================================
