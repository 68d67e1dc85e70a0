------------------------- MODULE EdgeServicesProofs -------------------------
(***************************************************************************)
(* The two services of the edge that race with themselves: the bridge that *)
(* forwards the stream's events to the hub (IngestBridge), and the one     *)
(* that keeps an overlay's session (HudSession).  They share no state, and *)
(* each section below speaks of one of them, for any values of its         *)
(* constants.                                                              *)
(***************************************************************************)
EXTENDS IngestBridge, HudSession, TLAPS

-----------------------------------------------------------------------------
(***************************************************************************)
(* Delivery is at least once (AckedAreHandled of IngestBridge), for any    *)
(* number of edges, events and failures.                                   *)
(*                                                                         *)
(* AckedAreHandled is not inductive: an acknowledgement is right because   *)
(* of the plan the flush made, and the plan is right for the events kept   *)
(* local because their handlers ran when the chunk was taken.  Inv says    *)
(* so of the chunk each edge has in flight.  What is in the buffers, and   *)
(* what a retry puts back, does not matter for it.                         *)
(***************************************************************************)

(* Event i is handled, or is a server_status in whose place one is.        *)
Settled(i) == i \in handled \/ (Status(i) /\ \E j \in handled : Status(j))

LocalApplied(e) ==
    \A i \in Coalesced(flight[e].chunk) \ Forward(flight[e].chunk) :
        Status(i) => i \in handled

Inv ==
    /\ published \in Nat /\ delivered \in Nat /\ delivered <= published
    /\ pc = [e \in Edges |-> pc[e]]
    /\ flight = [e \in Edges |-> [chunk |-> flight[e].chunk, todo |-> flight[e].todo,
                                  retry |-> flight[e].retry]]
    /\ AckedAreHandled
    /\ \A e \in Edges : pc[e] = "forward" => LocalApplied(e)
    /\ \A e \in Edges : pc[e] = "ack" =>
         \A i \in flight[e].todo : stream[i] = "unsaved" \/ Settled(i)

(* What is left of an edge's obligations by a step that does not flush.    *)
Quiet(e) ==
    /\ pc' = [pc EXCEPT ![e] = pc'[e]] /\ pc'[e] \notin {"forward", "ack"}
    /\ flight' = flight \/ flight' = [flight EXCEPT ![e] = NoFlight]

(* Handlers and the hub only ever add to what is handled, and kinds do not *)
(* change, so what is settled stays settled.                               *)
LEMMA SettledStays ==
    ASSUME NEW i, stream' = stream, handled \subseteq handled', Settled(i)
    PROVE  Settled(i)'
BY DEF Settled, Status

(* What a change of the work one edge has in flight does to the others'.   *)
LEMMA FlightChange ==
    ASSUME Inv, NEW e \in Edges, NEW c, NEW t, NEW r,
           flight' = [flight EXCEPT ![e] = [chunk |-> c, todo |-> t, retry |-> r]]
    PROVE  /\ flight' = [f \in Edges |-> [chunk |-> flight'[f].chunk, todo |-> flight'[f].todo,
                                          retry |-> flight'[f].retry]]
           /\ flight'[e].chunk = c /\ flight'[e].todo = t
           /\ \A f \in Edges : f # e => flight'[f] = flight[f]
<1>1. \A f \in Edges : flight'[f] = IF f = e THEN [chunk |-> c, todo |-> t, retry |-> r]
                                    ELSE flight[f]
  BY DEF Inv
<1>2. flight' = [f \in Edges |-> flight'[f]]
  BY DEF Inv
<1>3. \A f \in Edges : flight[f] = [chunk |-> flight[f].chunk, todo |-> flight[f].todo,
                                    retry |-> flight[f].retry]
  BY DEF Inv
<1>4. \A f \in Edges : flight'[f] = [chunk |-> flight'[f].chunk, todo |-> flight'[f].todo,
                                     retry |-> flight'[f].retry]
  BY <1>1, <1>3
<1> QED BY <1>1, <1>2, <1>4

-----------------------------------------------------------------------------
(* The parts of Inv about the other edges, kept by every step of edge e.   *)
LEMMA OtherEdges ==
    ASSUME Inv, NEW e \in Edges, NEW f \in Edges, f # e,
           stream' = stream, handled \subseteq handled',
           pc'[f] = pc[f], flight'[f] = flight[f]
    PROVE  /\ (pc[f] = "forward" => LocalApplied(f))'
           /\ (pc[f] = "ack" => \A i \in flight[f].todo : stream[i] = "unsaved" \/ Settled(i))'
<1>1. (pc[f] = "forward" => LocalApplied(f))'
  BY DEF Inv, LocalApplied, Coalesced, Forward, Status, Local
<1>2. ASSUME pc'[f] = "ack", NEW i \in flight'[f].todo
      PROVE  stream'[i] = "unsaved" \/ Settled(i)'
  BY <1>2, SettledStays DEF Inv
<1> QED BY <1>1, <1>2

(* A step that neither reads, acknowledges nor leaves work in flight.      *)
LEMMA QuietStep ==
    ASSUME Inv, NEW e \in Edges, Quiet(e),
           stream' = stream, published' = published, delivered' = delivered,
           pending \subseteq pending', handled \subseteq handled'
    PROVE  Inv'
<1>1. AckedAreHandled'
  BY SettledStays DEF Inv, AckedAreHandled, Settled, Status
<1>2. /\ pc' = [f \in Edges |-> pc'[f]]
      /\ flight' = [f \in Edges |-> [chunk |-> flight'[f].chunk, todo |-> flight'[f].todo,
                                     retry |-> flight'[f].retry]]
  BY DEF Inv, Quiet, NoFlight
<1>3. \A f \in Edges : f # e => pc'[f] = pc[f] /\ flight'[f] = flight[f]
  BY DEF Inv, Quiet
<1>4. ASSUME NEW f \in Edges
      PROVE  /\ (pc[f] = "forward" => LocalApplied(f))'
             /\ (pc[f] = "ack" => \A i \in flight[f].todo : stream[i] = "unsaved" \/ Settled(i))'
  <2>1. CASE f = e  BY <2>1 DEF Quiet
  <2>2. CASE f # e  BY <2>2, <1>3, OtherEdges
  <2> QED BY <2>1, <2>2
<1> QED BY <1>1, <1>2, <1>4 DEF Inv

-----------------------------------------------------------------------------
(* The chunk is taken: the local handlers have run.                        *)
LEMMA TakeStep ==
    ASSUME Inv, NEW e \in Edges, TakeChunk(e)
    PROVE  Inv'
<1>1. stream' = stream /\ handled \subseteq handled' /\ pending' = pending
      /\ published' = published /\ delivered' = delivered
  BY DEF TakeChunk, redisVars
<1>2. AckedAreHandled'
  BY <1>1, SettledStays DEF Inv, AckedAreHandled, Settled, Status
<1>3. PICK chunk : /\ flight' = [flight EXCEPT ![e] = [chunk |-> chunk, todo |-> {},
                                                       retry |-> <<>>]]
                   /\ handled' = handled \cup {i \in Coalesced(chunk) \ Forward(chunk) : Status(i)}
                   /\ pc' = [pc EXCEPT ![e] = "forward"]
  <2>1. \A chunk : [NoFlight EXCEPT !.chunk = chunk]
                     = [chunk |-> chunk, todo |-> {}, retry |-> <<>>]
    BY DEF NoFlight
  <2> QED BY <2>1 DEF TakeChunk, Goto
<1>4. /\ pc' = [f \in Edges |-> pc'[f]]
      /\ flight' = [f \in Edges |-> [chunk |-> flight'[f].chunk, todo |-> flight'[f].todo,
                                     retry |-> flight'[f].retry]]
      /\ pc'[e] = "forward" /\ flight'[e].chunk = chunk
      /\ \A f \in Edges : f # e => pc'[f] = pc[f] /\ flight'[f] = flight[f]
  BY <1>3, FlightChange DEF Inv
<1>5. LocalApplied(e)'
  BY <1>1, <1>3, <1>4 DEF LocalApplied, Coalesced, Forward, Status, Local
<1>6. ASSUME NEW f \in Edges
      PROVE  /\ (pc[f] = "forward" => LocalApplied(f))'
             /\ (pc[f] = "ack" => \A i \in flight[f].todo : stream[i] = "unsaved" \/ Settled(i))'
  <2>1. CASE f = e  BY <2>1, <1>4, <1>5
  <2>2. CASE f # e  BY <2>2, <1>1, <1>4, OtherEdges
  <2> QED BY <2>1, <2>2
<1> QED BY <1>1, <1>2, <1>4, <1>6 DEF Inv

(* The hub has answered: everything the plan acknowledges is settled, or   *)
(* an event kept local whose handler runs just before the acknowledgement. *)
LEMMA PlanStep ==
    ASSUME Inv, NEW e \in Edges, NEW done, done \subseteq handled', Plan(e, done),
           pc[e] = "forward", handled \subseteq handled', UNCHANGED redisVars
    PROVE  Inv'
<1> DEFINE chunk == flight[e].chunk
           ack == (Coalesced(chunk) \ Forward(chunk)) \cup ToAck(chunk, done)
<1>1. stream' = stream /\ pending' = pending /\ published' = published
      /\ delivered' = delivered
  BY DEF redisVars
<1>2. AckedAreHandled'
  BY <1>1, SettledStays DEF Inv, AckedAreHandled, Settled, Status
<1>a. PICK retry : flight' = [flight EXCEPT ![e] = [chunk |-> chunk, todo |-> ack,
                                                    retry |-> retry]]
  BY DEF Plan
<1>b. pc' = [pc EXCEPT ![e] = "ack"]
  BY DEF Plan, Goto
<1>3. /\ pc' = [f \in Edges |-> pc'[f]]
      /\ flight' = [f \in Edges |-> [chunk |-> flight'[f].chunk, todo |-> flight'[f].todo,
                                     retry |-> flight'[f].retry]]
      /\ pc'[e] = "ack" /\ flight'[e].todo = ack
      /\ \A f \in Edges : f # e => pc'[f] = pc[f] /\ flight'[f] = flight[f]
  <2> HIDE DEF ack
  <2> QED BY <1>a, <1>b, FlightChange DEF Inv
<1>4. ASSUME NEW i \in ack
      PROVE  (stream[i] = "unsaved" \/ Settled(i))'
  <2>1. CASE i \in Coalesced(chunk) \ Forward(chunk)
    <3>1. Local(i)
      BY <2>1 DEF Forward
    <3>2. CASE Status(i)
      BY <3>2, <2>1, <1>1 DEF Inv, LocalApplied, Settled
    <3>3. CASE ~Status(i)
      BY <3>1, <3>3, <1>1 DEF Local, Status
    <3> QED BY <3>2, <3>3
  <2>2. CASE i \in done
    BY <2>2 DEF Settled
  <2>3. CASE i \in ToSet(chunk) \ Coalesced(chunk) /\ \E k \in done : Status(k)
    <3>1. Status(i)
      BY <2>3 DEF ToSet, Coalesced
    <3> QED BY <3>1, <2>3, <1>1 DEF Settled, Status
  <2> QED BY <2>1, <2>2, <2>3 DEF ToAck
<1>5. ASSUME NEW f \in Edges
      PROVE  /\ (pc[f] = "forward" => LocalApplied(f))'
             /\ (pc[f] = "ack" => \A i \in flight[f].todo : stream[i] = "unsaved" \/ Settled(i))'
  <2>1. CASE f = e  BY <2>1, <1>3, <1>4
  <2>2. CASE f # e  BY <2>2, <1>1, <1>3, OtherEdges
  <2> QED BY <2>1, <2>2
<1> QED BY <1>1, <1>2, <1>3, <1>5 DEF Inv

(* An event is acknowledged.                                               *)
LEMMA AckStep ==
    ASSUME Inv, NEW e \in Edges, Ack(e)
    PROVE  Inv'
<1>1. PICK i \in flight[e].todo :
         /\ pending' = pending \ {i}
         /\ handled' = IF stream[i] = "unsaved" THEN handled \cup {i} ELSE handled
         /\ flight' = [flight EXCEPT ![e].todo = @ \ {i}]
  BY DEF Ack
<1>2. pc[e] = "ack" /\ pc' = pc /\ stream' = stream /\ handled \subseteq handled'
      /\ published' = published /\ delivered' = delivered
  BY <1>1 DEF Ack
<1>3. Settled(i)'
  <2>1. CASE stream[i] = "unsaved"  BY <2>1, <1>1 DEF Settled
  <2>2. CASE Settled(i)  BY <2>2, <1>2, SettledStays
  <2> QED BY <2>1, <2>2, <1>2 DEF Inv
<1>4. AckedAreHandled'
  BY <1>1, <1>2, <1>3, SettledStays DEF Inv, AckedAreHandled, Settled, Status
<1>a. flight' = [flight EXCEPT ![e] = [chunk |-> flight[e].chunk, todo |-> flight[e].todo \ {i},
                                       retry |-> flight[e].retry]]
  <2>1. flight[e] = [chunk |-> flight[e].chunk, todo |-> flight[e].todo,
                     retry |-> flight[e].retry]
    BY DEF Inv
  <2>2. [flight[e] EXCEPT !.todo = @ \ {i}]
          = [chunk |-> flight[e].chunk, todo |-> flight[e].todo \ {i}, retry |-> flight[e].retry]
    BY <2>1
  <2> QED BY <1>1, <2>2
<1>5. /\ flight' = [f \in Edges |-> [chunk |-> flight'[f].chunk, todo |-> flight'[f].todo,
                                     retry |-> flight'[f].retry]]
      /\ flight'[e].todo \subseteq flight[e].todo
      /\ \A f \in Edges : f # e => flight'[f] = flight[f]
  BY <1>a, FlightChange DEF Inv
<1>6. ASSUME NEW f \in Edges
      PROVE  /\ (pc[f] = "forward" => LocalApplied(f))'
             /\ (pc[f] = "ack" => \A j \in flight[f].todo : stream[j] = "unsaved" \/ Settled(j))'
  <2>1. CASE f = e  BY <2>1, <1>2, <1>5, SettledStays DEF Inv
  <2>2. CASE f # e  BY <2>2, <1>2, <1>5, OtherEdges
  <2> QED BY <2>1, <2>2
<1> QED BY <1>2, <1>4, <1>5, <1>6 DEF Inv

(* New events are delivered: all but those for nobody become pending.      *)
LEMMA ReadStep ==
    ASSUME Inv, NEW e \in Edges, Read(e) \/ ReadFails(e)
    PROVE  Inv'
<1>1. Delivery \in Nat /\ delivered + Delivery <= published
  BY IngestAssumption DEF Inv, Delivery
<1>2. /\ delivered' = delivered + Delivery /\ stream' = stream
      /\ published' = published /\ handled' = handled /\ flight' = flight
      /\ {i \in delivered + 1 .. delivered + Delivery : stream[i] # "config"} \subseteq pending'
      /\ pending \subseteq pending'
  BY DEF Read, ReadFails
<1>3. Quiet(e)
  BY DEF Inv, Quiet, Read, ReadFails, Goto
<1>4. AckedAreHandled'
  <2> SUFFICES ASSUME NEW i \in 1 .. delivered', i \notin pending'
               PROVE  (stream[i] = "config" \/ Settled(i))'
    BY DEF AckedAreHandled, Settled
  <2>1. CASE i \in 1 .. delivered
    BY <2>1, <1>2 DEF Inv, AckedAreHandled, Settled, Status
  <2>2. CASE i \in delivered + 1 .. delivered + Delivery
    BY <2>2, <1>2
  <2> QED BY <2>1, <2>2, <1>1, <1>2 DEF Inv
<1>5. /\ pc' = [f \in Edges |-> pc'[f]]
      /\ flight' = [f \in Edges |-> [chunk |-> flight'[f].chunk, todo |-> flight'[f].todo,
                                     retry |-> flight'[f].retry]]
      /\ \A f \in Edges : f # e => pc'[f] = pc[f] /\ flight'[f] = flight[f]
  BY <1>2, <1>3 DEF Inv, Quiet
<1>7. published' \in Nat /\ delivered' \in Nat /\ delivered' <= published'
  BY <1>1, <1>2 DEF Inv
<1>6. ASSUME NEW f \in Edges
      PROVE  /\ (pc[f] = "forward" => LocalApplied(f))'
             /\ (pc[f] = "ack" => \A i \in flight[f].todo : stream[i] = "unsaved" \/ Settled(i))'
  <2>1. CASE f = e  BY <2>1, <1>3 DEF Quiet
  <2>2. CASE f # e  BY <2>2, <1>2, <1>5, OtherEdges
  <2> QED BY <2>1, <2>2
<1> QED BY <1>4, <1>5, <1>6, <1>7 DEF Inv

(* Idle entries are claimed: only events for nobody leave the list.        *)
LEMMA ReclaimStep ==
    ASSUME Inv, NEW e \in Edges, Reclaim(e)
    PROVE  Inv'
<1>1. /\ stream' = stream /\ published' = published /\ delivered' = delivered
      /\ handled' = handled /\ flight' = flight /\ pc' = [pc EXCEPT ![e] = "read"]
      /\ \A i \in pending : stream[i] # "config" => i \in pending'
  BY DEF Reclaim, Goto
<1>2. AckedAreHandled'
  BY <1>1 DEF Inv, AckedAreHandled, Status
<1>3. /\ pc' = [f \in Edges |-> pc'[f]] /\ pc'[e] = "read"
      /\ \A f \in Edges : f # e => pc'[f] = pc[f] /\ flight'[f] = flight[f]
  BY <1>1 DEF Inv
<1>4. ASSUME NEW f \in Edges
      PROVE  /\ (pc[f] = "forward" => LocalApplied(f))'
             /\ (pc[f] = "ack" => \A i \in flight[f].todo : stream[i] = "unsaved" \/ Settled(i))'
  <2>1. CASE f = e  BY <2>1, <1>3
  <2>2. CASE f # e  BY <2>2, <1>1, <1>3, OtherEdges
  <2> QED BY <2>1, <2>2
<1> QED BY <1>1, <1>2, <1>3, <1>4 DEF Inv

(* The stream grows, or time passes.                                       *)
LEMMA OutsideStep ==
    ASSUME Inv, UNCHANGED <<stream, delivered, pending, handled, pc, flight>>,
           published' = published \/ published' = published + 1
    PROVE  Inv'
<1>1. AckedAreHandled'
  BY DEF Inv, AckedAreHandled, Status
<1>2. \A f \in Edges : LocalApplied(f)' <=> LocalApplied(f)
  BY DEF LocalApplied, Coalesced, Forward, Status, Local
<1>3. \A i : Settled(i)' <=> Settled(i)
  BY DEF Settled, Status
<1> QED BY <1>1, <1>2, <1>3 DEF Inv

-----------------------------------------------------------------------------
LEMMA InitInv == Init => Inv
BY DEF Init, Inv, AckedAreHandled, NoFlight

LEMMA NextInv == Inv /\ [Next]_vars => Inv'
<1> SUFFICES ASSUME Inv, [Next]_vars PROVE Inv'
  OBVIOUS
<1>1. CASE Publish
  BY <1>1, OutsideStep DEF Publish, edgeVars
<1>2. CASE \E i \in Events : GoStale(i)
  BY <1>2, OutsideStep DEF GoStale
<1>3. CASE \E e \in Edges : FlushDue(e)
  BY <1>3, OutsideStep DEF FlushDue, redisVars
<1>4. CASE \E e \in Edges : Reclaim(e)
  BY <1>4, ReclaimStep
<1>5. ASSUME NEW e \in Edges, Loop(e)
      PROVE  Inv'
  <2>1. CASE Read(e)  BY <2>1, ReadStep
  <2>2. CASE NoFlush(e)
    <3>1. Quiet(e)  BY <2>2 DEF NoFlush, Goto, Quiet, Inv
    <3> QED BY <3>1, <2>2, QuietStep DEF NoFlush, redisVars
  <2>3. CASE TakeChunk(e)  BY <2>3, TakeStep
  <2>4. CASE HubReplies(e)
    <3>1. PICK done : handled' = handled \cup done /\ Plan(e, done)
      BY <2>4 DEF HubReplies
    <3> QED BY <3>1, <2>4, PlanStep DEF HubReplies
  <2>5. CASE Ack(e)  BY <2>5, AckStep
  <2>6. CASE Settle(e)
    <3>1. Quiet(e)  BY <2>6 DEF Settle, Goto, Quiet, Inv
    <3> QED BY <3>1, <2>6, QuietStep DEF Settle, redisVars
  <2> QED BY <1>5, <2>1, <2>2, <2>3, <2>4, <2>5, <2>6 DEF Loop
<1>6. ASSUME NEW e \in Edges, Failure(e)
      PROVE  Inv'
  <2>1. CASE ReadFails(e)  BY <2>1, ReadStep
  <2>2. CASE HubSendsNoRows(e)
    <3>1. handled \subseteq handled'  BY <2>2 DEF HubSendsNoRows
    <3> QED BY <3>1, <2>2, PlanStep DEF HubSendsNoRows
  <2>3. CASE FlushFails(e)
    <3>1. Quiet(e)  BY <2>3 DEF FlushFails, Drop, Goto, Quiet, Inv
    <3>2. handled \subseteq handled'  BY <2>3 DEF FlushFails
    <3> QED BY <3>1, <3>2, <2>3, QuietStep DEF FlushFails, redisVars
  <2>4. CASE AckFails(e)
    <3>1. Quiet(e)  BY <2>4 DEF AckFails, Drop, Goto, Quiet, Inv
    <3> QED BY <3>1, <2>4, QuietStep DEF AckFails, redisVars
  <2>5. CASE Restart(e)
    <3>1. Quiet(e)  BY <2>5 DEF Restart, Drop, Goto, Quiet, Inv
    <3> QED BY <3>1, <2>5, QuietStep DEF Restart, redisVars
  <2> QED BY <1>6, <2>1, <2>2, <2>3, <2>4, <2>5 DEF Failure
<1>7. CASE UNCHANGED vars
  BY <1>7, OutsideStep DEF vars, redisVars, edgeVars
<1> QED BY <1>1, <1>2, <1>3, <1>4, <1>5, <1>6, <1>7 DEF Next

(* At least once: an event leaves the pending list only when the hub has   *)
(* taken or refused it, or when it was handled locally, whatever fails,    *)
(* restarts or is claimed by another edge.                                 *)
THEOREM AtLeastOnce == Spec => []AckedAreHandled
<1>1. Inv => AckedAreHandled
  BY DEF Inv
<1> QED BY InitInv, NextInv, <1>1, PTL DEF Spec

-----------------------------------------------------------------------------
(***************************************************************************)
(* A refresh that waits for another's waits for one that is under way      *)
(* (WaitsForARefresh of HudSession), for any number of cars, handlers and  *)
(* failures.                                                               *)
(*                                                                         *)
(* What it waits for is read from the map of refreshes in flight, whose    *)
(* one entry a refresh may overwrite and another take out.  HudInv says    *)
(* that an entry found there is of a task that is still refreshing and     *)
(* takes out an entry when it is over, because those that leave the map    *)
(* as it is at their end make no entry either.                             *)
(***************************************************************************)

Tasks == [at : Places, got : Sessions, on : Handlers \cup {None}]

(* What the edge and the world keep, but for the handlers; profiles change *)
(* with the operations that are bounded.                                   *)
EdgeTypes ==
    /\ user \in {"fine", "banned", "missing"} /\ profile \in Nat /\ profile <= ops
    /\ ops \in Nat /\ ops <= MaxOps
    /\ car \in Cars /\ presence \in Cars \cup {None}
    /\ \A e \in events : \E type \in {"join", "leave"}, c \in Cars : e = Event(type, c)
    /\ session \in Sessions /\ fresh \in BOOLEAN /\ shown \in Sessions /\ lastSent \in Sessions
    /\ banned \in BOOLEAN /\ unregistered \in BOOLEAN /\ open \in BOOLEAN
    /\ recent \in BOOLEAN /\ retryTimer \in BOOLEAN /\ bumped \in BOOLEAN
    /\ prefs \in Profiles /\ inFlight \in Handlers \cup {None}

HudTypes == EdgeTypes /\ task \in [Handlers -> Tasks]

(* The entry in flight, if it has not been thrown out, names a task that   *)
(* is still refreshing, and one that will take it back when it is over.    *)
EntryRefreshes ==
    inFlight # None => task[inFlight].at \in Refreshing /\ ~SkipsDedupe(inFlight)

(* Only those who look for a refresh of others start one in their place.   *)
Asks == \A t \in Handlers : task[t].at \in {"dedupe", "start"} => ~SkipsDedupe(t)

WaitsForATask == \A t \in Handlers : task[t].at = "await" => task[t].on \in Handlers

HudInv == HudTypes /\ EntryRefreshes /\ Asks /\ WaitsForATask /\ WaitsForARefresh

LEMMA HudTyped ==
    ASSUME HudTypes
    PROVE  /\ task \in [Handlers -> Tasks] /\ session \in Sessions
           /\ \A t \in Handlers : task[t].got \in Sessions /\ task[t].on \in Handlers \cup {None}
           /\ Idle \in Tasks /\ Miss \in Sessions
BY DEF HudTypes, EdgeTypes, Tasks, Idle, Sessions, Places

(* What a handler's step makes of its own task.                            *)
LEMMA TaskMoves ==
    ASSUME HudTypes, NEW t \in Handlers, NEW at \in Places, NEW got \in Sessions,
           \/ Begin(t, at, got) \/ GoWith(t, at, got) \/ Go(t, at)
           \/ End(t) /\ at = "idle"
    PROVE  \E r \in Tasks : r.at = at /\ task' = [task EXCEPT ![t] = r]
<1>1. task \in [Handlers -> Tasks] /\ task[t] \in Tasks /\ Idle \in Tasks
  BY HudTyped
<1> HIDE DEF Places, Sessions
<1>2. CASE Begin(t, at, got)
  <2> DEFINE r == [at |-> at, got |-> got, on |-> None]
  <2>1. r \in Tasks /\ r.at = at /\ task' = [task EXCEPT ![t] = r]
    BY <1>2 DEF Begin, Tasks
  <2> QED BY <2>1
<1>3. CASE GoWith(t, at, got)
  <2> DEFINE r == [task[t] EXCEPT !.at = at, !.got = got]
  <2>1. r \in Tasks /\ r.at = at /\ task' = [task EXCEPT ![t] = r]
    BY <1>1, <1>3 DEF GoWith, Tasks
  <2> QED BY <2>1
<1>4. CASE Go(t, at)
  <2> DEFINE r == [task[t] EXCEPT !.at = at]
  <2>1. r \in Tasks /\ r.at = at /\ task' = [task EXCEPT ![t] = r]
    BY <1>1, <1>4 DEF Go, Tasks
  <2> QED BY <2>1
<1>5. CASE End(t) /\ at = "idle"
  BY <1>1, <1>5 DEF End, Idle
<1> QED BY <1>2, <1>3, <1>4, <1>5

(* A handler that is not refreshing, or still is, may go anywhere but to   *)
(* wait, whether or not the entry in flight is thrown out meanwhile.       *)
LEMMA StepKeeps ==
    ASSUME HudInv, EdgeTypes', NEW t \in Handlers, NEW r \in Tasks,
           task' = [task EXCEPT ![t] = r],
           task[t].at \in Refreshing => r.at \in Refreshing,
           r.at # "await", r.at \in {"dedupe", "start"} => ~SkipsDedupe(t),
           \/ inFlight' \in {inFlight, None}
           \/ inFlight' = t /\ r.at \in Refreshing /\ ~SkipsDedupe(t)
    PROVE  HudInv'
<1>1. /\ task \in [Handlers -> Tasks] /\ task'[t] = r
      /\ \A u \in Handlers : u # t => task'[u] = task[u]
      /\ inFlight \in Handlers \cup {None}
  BY HudTyped DEF HudInv, HudTypes, EdgeTypes
<1>2. EntryRefreshes'
  BY <1>1 DEF HudInv, EntryRefreshes, SkipsDedupe
<1>3. Asks' /\ WaitsForATask'
  BY <1>1 DEF HudInv, Asks, WaitsForATask, SkipsDedupe
<1>4. \A w \in Handlers : task[w].at \in Refreshing => task'[w].at \in Refreshing
  BY <1>1
<1>5. WaitsForARefresh'
  <2> SUFFICES ASSUME NEW w \in Handlers, task'[w].at = "await"
               PROVE  task'[task'[w].on].at \in Refreshing
    BY DEF WaitsForARefresh, At
  <2>1. task'[w] = task[w] /\ task[w].on \in Handlers
    BY <1>1 DEF HudInv, WaitsForATask
  <2>2. task[task[w].on].at \in Refreshing
    BY <2>1 DEF HudInv, WaitsForARefresh, At
  <2> QED BY <1>4, <2>1, <2>2
<1>6. HudTypes'
  BY <1>1 DEF HudTypes
<1> QED BY <1>2, <1>3, <1>5, <1>6 DEF HudInv

LEMMA NobodyMoves ==
    ASSUME HudInv, EdgeTypes', task' = task, inFlight' \in {inFlight, None}
    PROVE  HudInv'
BY DEF HudInv, HudTypes, EntryRefreshes, Asks, WaitsForATask, WaitsForARefresh, At, SkipsDedupe

(* A handler begins when it is idle, wherever it begins.                   *)
LEMMA BeginKeeps ==
    ASSUME HudInv, EdgeTypes', NEW t \in Handlers, Free(t), NEW at \in Places \ {"await", "start"},
           NEW got \in Sessions, Begin(t, at, got), at = "dedupe" => ~SkipsDedupe(t),
           inFlight' \in {inFlight, None}
    PROVE  HudInv'
<1>1. task[t].at \notin Refreshing
  BY DEF Free, Idle, Refreshing
<1>2. PICK r \in Tasks : r.at = at /\ task' = [task EXCEPT ![t] = r]
  BY TaskMoves DEF HudInv
<1> QED BY <1>1, <1>2, StepKeeps

LEMMA GoKeeps ==
    ASSUME HudInv, EdgeTypes', NEW t \in Handlers, NEW at \in Places \ {"await"},
           NEW got \in Sessions,
           GoWith(t, at, got) \/ Go(t, at) \/ (End(t) /\ at = "idle"),
           task[t].at \in Refreshing => at \in Refreshing,
           at \in {"dedupe", "start"} => ~SkipsDedupe(t),
           \/ inFlight' \in {inFlight, None}
           \/ inFlight' = t /\ at \in Refreshing /\ ~SkipsDedupe(t)
    PROVE  HudInv'
<1>1. PICK r \in Tasks : r.at = at /\ task' = [task EXCEPT ![t] = r]
  BY TaskMoves DEF HudInv
<1> QED BY <1>1, StepKeeps

(* What the edge finds in Convex has the shape of a session.               *)
LEMMA AnswerTyped ==
    ASSUME HudTypes
    PROVE  /\ Answer \in Sessions /\ \A r \in Reasons : Error(r) \in Sessions
           /\ \A c \in Cars : Session(c, 0) \in Sessions
           /\ \A s \in Sessions : s.profile \in Profiles /\ s.car \in Cars \cup {None}
<1>1. Profiles = 0..MaxOps /\ 0 \in Profiles /\ profile \in Profiles /\ car \in Cars
  BY HudSessionAssumption DEF HudTypes, EdgeTypes, Profiles
<1>2. /\ \A r \in Reasons : Error(r) \in Sessions
      /\ \A c \in Cars, p \in Profiles : Session(c, p) \in Sessions
  BY DEF Sessions
<1>3. \A s \in Sessions : s.profile \in Profiles /\ s.car \in Cars \cup {None}
  BY <1>1 DEF Sessions, Miss, Error, Session
<1>4. Answer \in Sessions
  <2>1. (IF presence = None THEN car ELSE presence) \in Cars
    BY <1>1 DEF HudTypes, EdgeTypes
  <2> QED BY <1>1, <1>2, <2>1 DEF Answer, Reasons
<1> QED BY <1>1, <1>2, <1>3, <1>4

(* The types of what a step changes besides the tasks.                     *)
LEMMA AskTyped ==
    ASSUME HudTypes, NEW t \in Handlers, NEW next \in Places, AskConvex(t, next)
    PROVE  /\ ops' \in Nat /\ ops' <= MaxOps /\ ops <= ops'
           /\ \E got \in Sessions : GoWith(t, next, got)
BY AnswerTyped, HudSessionAssumption DEF AskConvex, Spend, HudTypes, EdgeTypes, Reasons

LEMMA HudInitInv == HudInit => HudInv
<1> SUFFICES ASSUME HudInit PROVE HudInv
  OBVIOUS
<1>1. car \in Cars
  BY HudSessionAssumption, Zenon DEF HudInit
<1>2. Miss \in Sessions /\ 0 \in Profiles /\ Idle \in Tasks
  BY HudSessionAssumption DEF Sessions, Profiles, Idle, Tasks, Places
<1>3. EdgeTypes
  <2>1. \A e \in events : \E type \in {"join", "leave"}, c \in Cars : e = Event(type, c)
    BY <1>1 DEF HudInit
  <2>2. profile \in Nat /\ profile <= ops /\ ops \in Nat /\ ops <= MaxOps
    BY HudSessionAssumption DEF HudInit
  <2> HIDE DEF Sessions, Profiles, Miss, Handlers
  <2> QED BY <1>1, <1>2, <2>1, <2>2, Zenon DEF HudInit, EdgeTypes
<1>4. task \in [Handlers -> Tasks] /\ \A t \in Handlers : task[t].at = "idle"
  BY <1>2 DEF HudInit, Idle
<1> QED BY <1>3, <1>4
        DEF HudInv, HudTypes, EntryRefreshes, Asks, WaitsForATask, WaitsForARefresh, At, HudInit

(* The world's own steps, and what the edge does without a handler.        *)
LEMMA WorldInv ==
    ASSUME HudInv,
           Rejoin \/ CloseSocket \/ TtlPasses \/ SessionExpires \/ WindowPasses \/ HandleStatus
    PROVE  HudInv'
<1>1. HudTypes /\ EdgeTypes /\ Miss \in Sessions
  BY HudTyped DEF HudInv, HudTypes
<1>2. UNCHANGED <<task, inFlight>>
  BY DEF Rejoin, CloseSocket, TtlPasses, SessionExpires, WindowPasses, HandleStatus, dedupe
<1>3. EdgeTypes'
  <2> HIDE DEF Sessions, Handlers, Miss
  <2>1. CASE Rejoin
    <3>1. PICK c \in Cars : car' = c /\ events' = events \cup {Event("leave", car), Event("join", c)}
      BY <2>1 DEF Rejoin
    <3>2. \A e \in events' : \E type \in {"join", "leave"}, d \in Cars : e = Event(type, d)
      BY <1>1, <3>1 DEF EdgeTypes
    <3> QED BY <1>1, <2>1, <3>1, <3>2, HudSessionAssumption
            DEF Rejoin, Spend, EdgeTypes, cache, marks, overlay, dedupe
  <2>2. CASE CloseSocket
    <3>1. ops' \in Nat /\ ops' <= MaxOps /\ profile <= ops' /\ UNCHANGED convex
      BY <1>1, <2>2, HudSessionAssumption DEF CloseSocket, Spend, EdgeTypes, cache, convex
    <3> QED BY <1>1, <2>2, <3>1
            DEF CloseSocket, EdgeTypes, cache, convex, streams, marks, dedupe
  <2>3. CASE SessionExpires
    BY <1>1, <2>3
    DEF SessionExpires, DropSession, StoreSession, EdgeTypes, cache, convex, streams, marks, overlay, dedupe
  <2>4. CASE WindowPasses
    BY <1>1, <2>4 DEF WindowPasses, EdgeTypes, cache, convex, streams, marks, overlay
  <2>5. CASE HandleStatus
    <3>1. presence' \in Cars
      BY <1>1, <2>5 DEF HandleStatus, EdgeTypes, Event
    <3> QED BY <1>1, <2>5, <3>1
            DEF HandleStatus, EdgeTypes, cache, convex, streams, marks, overlay, dedupe
  <2>6. CASE TtlPasses
    BY <1>1, <2>6 DEF TtlPasses, EdgeTypes, convex, streams, marks, overlay, dedupe
  <2> QED BY <2>1, <2>2, <2>3, <2>4, <2>5, <2>6
<1> QED BY <1>2, <1>3, NobodyMoves

(* A renewal may send the session again, and changes nothing else.         *)
LEMMA RenewInv ==
    ASSUME HudInv, Renew
    PROVE  HudInv'
<1>1. HudTypes /\ EdgeTypes /\ session \in Sessions
  BY HudTyped DEF HudInv, HudTypes
<1>2. UNCHANGED <<task, inFlight>>
  BY DEF Renew, dedupe
<1>3. EdgeTypes'
  <2>1. /\ banned' \in BOOLEAN /\ fresh' \in BOOLEAN /\ session' = session
        /\ shown' \in Sessions /\ lastSent' \in Sessions
    <3> HIDE DEF Sessions, Miss
    <3> QED BY <1>1 DEF Renew, PushAgain, Peek, Mirror, TouchSession, EdgeTypes
  <2> HIDE DEF Sessions, Handlers, Miss
  <2> QED BY <1>1, <2>1 DEF Renew, EdgeTypes, convex, streams, dedupe
<1> QED BY <1>2, <1>3, NobodyMoves

LEMMA EditUserInv ==
    ASSUME HudInv, EditUser
    PROVE  HudInv'
<1>1. EdgeTypes /\ Miss \in Sessions
  BY HudTyped DEF HudInv, HudTypes
<1>2. EdgeTypes' /\ inFlight' = inFlight
  <2> HIDE DEF Sessions, Handlers, Miss
  <2> QED BY <1>1, HudSessionAssumption
          DEF EditUser, Spend, EdgeTypes, cache, streams, marks, overlay, dedupe
<1>3. CASE UNCHANGED task
  BY <1>2, <1>3, NobodyMoves
<1>4. CASE ~UNCHANGED task
  <2>1. PICK h \in {"webhook", "cosmetics"} : Free(h) /\ Begin(h, "fetch", Miss)
    BY <1>4 DEF EditUser
  <2>2. h \in Handlers /\ "fetch" \in Places
    BY DEF Handlers, Places, Refreshing
  <2> QED BY <1>1, <1>2, <2>1, <2>2, BeginKeeps
<1> QED BY <1>3, <1>4

(* The steps of a refresh.                                                 *)
LEMMA JoinInFlightInv ==
    ASSUME HudInv, NEW t \in Handlers, JoinInFlight(t)
    PROVE  HudInv'
<1>1. /\ HudTypes /\ EdgeTypes /\ task \in [Handlers -> Tasks] /\ inFlight \in Handlers
      /\ task[t].at = "dedupe"
  BY DEF HudInv, HudTypes, EdgeTypes, JoinInFlight, At
<1>2. PICK r \in Tasks : r = [task[t] EXCEPT !.at = "await", !.on = inFlight]
  BY <1>1 DEF Tasks, Places
<1>3. r.at = "await" /\ r.on = inFlight
  BY <1>1, <1>2 DEF Tasks
<1>4. task' = [task EXCEPT ![t] = r]
  BY <1>1, <1>2 DEF JoinInFlight
<1>5. /\ task' \in [Handlers -> Tasks] /\ task'[t] = r
      /\ \A w \in Handlers : w # t => task'[w] = task[w]
  BY <1>1, <1>4
<1>6. EdgeTypes' /\ inFlight' = inFlight
  BY <1>1 DEF JoinInFlight, EdgeTypes, cache, convex, streams, marks, overlay, dedupe
<1>7. task[inFlight].at \in Refreshing /\ ~SkipsDedupe(inFlight) /\ inFlight # t
  BY <1>1 DEF HudInv, EntryRefreshes, JoinInFlight, Refreshing
<1>8. EntryRefreshes' /\ Asks' /\ WaitsForATask'
  BY <1>1, <1>3, <1>5, <1>6, <1>7
     DEF HudInv, EntryRefreshes, Asks, WaitsForATask, SkipsDedupe
<1>9. WaitsForARefresh'
  <2> SUFFICES ASSUME NEW w \in Handlers, task'[w].at = "await"
               PROVE  task'[task'[w].on].at \in Refreshing
    BY DEF WaitsForARefresh, At
  <2>1. CASE w = t
    BY <1>1, <1>3, <1>5, <1>7, <2>1
  <2>2. CASE w # t
    <3>1. task'[w] = task[w] /\ task[w].on \in Handlers /\ task[task[w].on].at \in Refreshing
      BY <1>5, <2>2 DEF HudInv, WaitsForATask, WaitsForARefresh, At
    <3>2. task[w].on # t
      BY <1>1, <3>1 DEF Refreshing
    <3> QED BY <1>5, <3>1, <3>2
  <2> QED BY <2>1, <2>2
<1> QED BY <1>5, <1>6, <1>8, <1>9 DEF HudInv, HudTypes

LEMMA BeforeFetchInv ==
    ASSUME HudInv, NEW t \in Handlers, LookRecent(t) \/ StartRefresh(t)
    PROVE  HudInv'
<1>1. /\ HudTypes /\ EdgeTypes /\ Miss \in Sessions
      /\ task[t].at \in {"dedupe", "start"} /\ ~SkipsDedupe(t)
  BY HudTyped DEF HudInv, HudTypes, Asks, LookRecent, StartRefresh, At
<1>2. CASE LookRecent(t)
  <2>1. PICK at \in {"start", "peek"} : Go(t, at)
    BY <1>1, <1>2 DEF LookRecent, Then, SkipsDedupe
  <2>2. EdgeTypes' /\ inFlight' = inFlight
    <3>1. banned' \in BOOLEAN
      BY <1>1, <1>2 DEF LookRecent, Peek, Mirror, EdgeTypes
    <3> HIDE DEF Sessions, Handlers
    <3> QED BY <1>1, <1>2, <3>1
            DEF LookRecent, EdgeTypes, cache, convex, streams, overlay, dedupe
  <2>3. at \in Places \ {"await"}
    BY DEF Places
  <2> QED BY <1>1, <2>1, <2>2, <2>3, GoKeeps DEF Refreshing
<1>3. CASE StartRefresh(t)
  <2>1. Go(t, "fetch") /\ inFlight' = t
    BY <1>3 DEF StartRefresh
  <2>2. EdgeTypes'
    <3> HIDE DEF Sessions, Handlers
    <3> QED BY <1>1, <1>3 DEF StartRefresh, EdgeTypes, cache, convex, streams, marks, overlay
  <2>3. "fetch" \in Places \ {"await"} /\ "fetch" \in Refreshing
    BY DEF Places, Refreshing
  <2> QED BY <1>1, <2>1, <2>2, <2>3, GoKeeps
<1> QED BY <1>2, <1>3

LEMMA FetchInv ==
    ASSUME HudInv, NEW t \in Handlers, Fetch(t) \/ ApplyMarks(t)
    PROVE  HudInv'
<1>1. HudTypes /\ EdgeTypes /\ Miss \in Sessions /\ {"apply", "persist"} \subseteq Places \cap Refreshing
  BY HudTyped DEF HudInv, HudTypes, Places, Refreshing
<1>2. CASE Fetch(t)
  <2>1. /\ ops' \in Nat /\ ops' <= MaxOps /\ ops <= ops'
        /\ \E got \in Sessions : GoWith(t, "apply", got)
    <3>1. AskConvex(t, "apply") /\ "apply" \in Places
      BY <1>1, <1>2 DEF Fetch
    <3> QED BY <1>1, <3>1, AskTyped
  <2>2. EdgeTypes' /\ inFlight' = inFlight
    <3> HIDE DEF Sessions, Handlers
    <3> QED BY <1>1, <1>2, <2>1, HudSessionAssumption
            DEF Fetch, EdgeTypes, cache, convex, streams, marks, overlay, dedupe
  <2>3. PICK got \in Sessions : GoWith(t, "apply", got)
    BY <2>1
  <2> QED BY <1>1, <2>2, <2>3, GoKeeps
<1>3. CASE ApplyMarks(t)
  <2>1. Go(t, "persist")
    BY <1>3 DEF ApplyMarks
  <2>2. EdgeTypes' /\ inFlight' = inFlight
    <3>1. banned' \in BOOLEAN /\ unregistered' \in BOOLEAN
      BY <1>1, <1>3 DEF ApplyMarks, EdgeTypes
    <3> HIDE DEF Sessions, Handlers, Miss
    <3> QED BY <1>1, <1>3, <3>1
            DEF ApplyMarks, DropSession, StoreSession, EdgeTypes, cache, convex, streams, overlay, dedupe
  <2> QED BY <1>1, <2>1, <2>2, GoKeeps
<1> QED BY <1>2, <1>3

(* The refresh that is over takes back the entry in flight, whoever made   *)
(* it, and those who waited for it go on; an entry that stays is another's. *)
LEMMA PersistInv ==
    ASSUME HudInv, NEW t \in Handlers, Persist(t)
    PROVE  HudInv'
<1> DEFINE waiting == {w \in Handlers : At(w, "await") /\ task[w].on = t}
           over(w) == IF Then(w) = "idle" THEN Idle ELSE [Idle EXCEPT !.at = Then(w)]
<1>1. /\ HudTypes /\ EdgeTypes /\ task \in [Handlers -> Tasks] /\ task[t].at = "persist"
      /\ task[t].got \in Sessions /\ task[t].got.profile \in Profiles
  BY HudTyped, AnswerTyped DEF HudInv, HudTypes, Persist, At
<1>2. task' = [w \in Handlers |-> IF w \in waiting \cup {t} THEN over(w) ELSE task[w]]
  BY DEF Persist
<1>3. \A w : over(w) \in Tasks /\ over(w).at \in {"idle", "drop", "peek"}
  BY HudTyped, <1>1 DEF Then, Idle, Tasks, Places, Sessions
<1>4. over(t) \in Tasks /\ waiting \subseteq Handlers
  BY <1>3
<1> HIDE DEF over
<1>5. /\ task' \in [Handlers -> Tasks]
      /\ \A w \in Handlers : w \in waiting \cup {t} => task'[w].at \in {"idle", "drop", "peek"}
      /\ \A w \in Handlers : w \notin waiting \cup {t} => task'[w] = task[w]
  BY <1>1, <1>2, <1>3
<1>6. \A w \in Handlers : task[w].at \in Refreshing /\ w # t => task'[w] = task[w]
  BY <1>5 DEF At, Refreshing
<1>7. inFlight' = None \/ (inFlight' = inFlight /\ SkipsDedupe(t))
  BY DEF Persist
<1>8. EdgeTypes'
  <2> HIDE DEF waiting
  <2>1. /\ session' \in Sessions /\ fresh' \in BOOLEAN /\ prefs' \in Profiles
        /\ bumped' \in BOOLEAN /\ retryTimer' \in BOOLEAN
    <3> HIDE DEF Sessions, Profiles, Handlers
    <3>1. StoreAnswer(task[t].got) /\ prefs' = task[t].got.profile
          /\ bumped' = (bumped \/ task[t].got.is = "ok")
          /\ retryTimer' = (retryTimer \/ WantsRetry(t, task[t].got))
      BY DEF Persist
    <3> QED BY <1>1, <3>1 DEF StoreAnswer, StoreSession, WantsRetry, EdgeTypes, cache
  <2>2. recent' \in BOOLEAN /\ inFlight' \in Handlers \cup {None}
    BY <1>1 DEF Persist, EdgeTypes
  <2>3. UNCHANGED <<user, profile, car, events, presence, banned, unregistered, open, shown,
                    lastSent, ops>>
    BY DEF Persist, convex, marks, overlay
  <2> HIDE DEF Sessions, Handlers
  <2> QED BY <1>1, <2>1, <2>2, <2>3 DEF EdgeTypes
<1>9. EntryRefreshes'
  <2>1. CASE inFlight' = None
    BY <2>1 DEF EntryRefreshes
  <2>2. CASE inFlight' = inFlight /\ SkipsDedupe(t) /\ inFlight # None
    <3>1. inFlight \in Handlers /\ task[inFlight].at \in Refreshing /\ ~SkipsDedupe(inFlight)
      BY <1>1, <2>2 DEF HudInv, EntryRefreshes, EdgeTypes
    <3>2. task'[inFlight] = task[inFlight]
      BY <1>6, <2>2, <3>1
    <3> QED BY <2>2, <3>1, <3>2 DEF EntryRefreshes, SkipsDedupe
  <2> QED BY <1>7, <2>1, <2>2
<1>10. Asks' /\ WaitsForATask'
  BY <1>5 DEF HudInv, Asks, WaitsForATask, SkipsDedupe
<1>11. WaitsForARefresh'
  <2> SUFFICES ASSUME NEW w \in Handlers, task'[w].at = "await"
               PROVE  task'[task'[w].on].at \in Refreshing
    BY DEF WaitsForARefresh, At
  <2>1. w \notin waiting /\ task'[w] = task[w]
    BY <1>5
  <2>2. task[w].on \in Handlers /\ task[task[w].on].at \in Refreshing /\ task[w].on # t
    BY <2>1 DEF HudInv, WaitsForATask, WaitsForARefresh, At
  <2> QED BY <1>6, <2>1, <2>2
<1> QED BY <1>5, <1>8, <1>9, <1>10, <1>11 DEF HudInv, HudTypes

(* The steps of a push.                                                    *)
LEMMA PushInv ==
    ASSUME HudInv, NEW t \in Handlers, ReadForPush(t) \/ Emit(t)
    PROVE  HudInv'
<1>1. /\ HudTypes /\ EdgeTypes /\ Miss \in Sessions /\ {"emit", "idle"} \subseteq Places \ {"await"}
      /\ task[t].got \in Sessions /\ session \in Sessions
  BY HudTyped DEF HudInv, HudTypes, Places
<1>2. CASE ReadForPush(t)
  <2>1. task[t].at \notin Refreshing
    BY <1>2 DEF ReadForPush, At, Refreshing
  <2>2. GoWith(t, "emit", session) \/ End(t)
    BY <1>2 DEF ReadForPush
  <2>3. EdgeTypes' /\ inFlight' = inFlight
    <3>1. banned' \in BOOLEAN
      BY <1>1, <1>2 DEF ReadForPush, Peek, Mirror, EdgeTypes
    <3> HIDE DEF Sessions, Handlers
    <3> QED BY <1>1, <1>2, <3>1
            DEF ReadForPush, EdgeTypes, cache, convex, streams, overlay, dedupe
  <2>4. CASE GoWith(t, "emit", session)
    BY <1>1, <2>1, <2>3, <2>4, GoKeeps
  <2>5. CASE End(t)
    BY <1>1, <2>1, <2>3, <2>5, GoKeeps
  <2> QED BY <2>2, <2>4, <2>5
<1>3. CASE Emit(t)
  <2>1. End(t) /\ task[t].at \notin Refreshing
    BY <1>3 DEF Emit, At, Refreshing
  <2>2. EdgeTypes' /\ inFlight' = inFlight
    <3>1. shown' \in Sessions /\ lastSent' \in Sessions /\ banned' \in BOOLEAN
      <4> HIDE DEF Sessions, Handlers
      <4> QED BY <1>1, <1>3 DEF Emit, EdgeTypes
    <3> HIDE DEF Sessions, Handlers
    <3> QED BY <1>1, <1>3, <3>1
            DEF Emit, TouchSession, EdgeTypes, cache, convex, streams, dedupe
  <2> QED BY <1>1, <2>1, <2>2, GoKeeps
<1> QED BY <1>2, <1>3

LEMMA OwnStepsInv ==
    ASSUME HudInv, OwnStep
    PROVE  HudInv'
<1>1. /\ HudTypes /\ EdgeTypes /\ Miss \in Sessions
      /\ {"emit", "idle", "live", "best", "dedupe"} \subseteq Places \ {"await"}
      /\ {"cosmetics", "join", "leave", "lap", "snapshot"} \subseteq Handlers
      /\ \A t \in Handlers : task[t].got \in Sessions /\ task[t].got.car \in Cars \cup {None}
  BY HudTyped, AnswerTyped DEF HudInv, HudTypes, Places, Handlers
<1>2. CASE DropForPush
  <2>1. task["cosmetics"].at \notin Refreshing /\ (Go("cosmetics", "live") \/ End("cosmetics"))
    BY <1>2 DEF DropForPush, At, Refreshing
  <2>2. EdgeTypes' /\ inFlight' = inFlight
    <3> HIDE DEF Sessions, Handlers, Miss
    <3> QED BY <1>1, <1>2
            DEF DropForPush, DropSession, StoreSession, EdgeTypes, cache, convex, streams, marks, overlay, dedupe
  <2>3. CASE Go("cosmetics", "live")
    BY <1>1, <2>1, <2>2, <2>3, GoKeeps
  <2>4. CASE End("cosmetics")
    BY <1>1, <2>1, <2>2, <2>4, GoKeeps
  <2> QED BY <2>1, <2>3, <2>4
<1>3. CASE FetchForPush
  <2>1. /\ ops' \in Nat /\ ops' <= MaxOps /\ ops <= ops'
        /\ \E got \in Sessions : GoWith("cosmetics", "emit", got)
    <3>1. AskConvex("cosmetics", "emit") /\ "emit" \in Places
      BY <1>1, <1>3 DEF FetchForPush
    <3> QED BY <1>1, <3>1, AskTyped
  <2>2. EdgeTypes' /\ inFlight' = inFlight
    <3> HIDE DEF Sessions, Handlers
    <3> QED BY <1>1, <1>3, <2>1, HudSessionAssumption
            DEF FetchForPush, EdgeTypes, cache, convex, streams, marks, overlay, dedupe
  <2>3. PICK got \in Sessions : GoWith("cosmetics", "emit", got)
    BY <2>1
  <2>4. task["cosmetics"].at \notin Refreshing
    BY <1>3 DEF FetchForPush, At, Refreshing
  <2> QED BY <1>1, <2>2, <2>3, <2>4, GoKeeps
<1>4. CASE Arrive
  <2>1. GoWith("join", "dedupe", Miss) /\ task["join"].at \notin Refreshing
    BY <1>4 DEF Arrive, At, Refreshing
  <2>2. EdgeTypes' /\ inFlight' = inFlight
    <3>1. presence' \in Cars \cup {None}
      BY <1>1, <1>4 DEF Arrive
    <3> HIDE DEF Sessions, Handlers, Miss
    <3> QED BY <1>1, <1>4, <3>1
            DEF Arrive, EdgeTypes, cache, convex, streams, marks, overlay, dedupe
  <2>3. ~SkipsDedupe("join")
    BY DEF SkipsDedupe
  <2> QED BY <1>1, <2>1, <2>2, <2>3, GoKeeps
<1>5. CASE DropCaches
  <2>1. End("leave") /\ task["leave"].at \notin Refreshing
    BY <1>5 DEF DropCaches, At, Refreshing
  <2>2. EdgeTypes' /\ inFlight' = inFlight
    <3> HIDE DEF Sessions, Handlers, Miss
    <3> QED BY <1>1, <1>5
            DEF DropCaches, DropSession, StoreSession, EdgeTypes, cache, convex, streams, marks, overlay, dedupe
  <2> QED BY <1>1, <2>1, <2>2, GoKeeps
<1>6. CASE PatchLap
  <2>1. GoWith("lap", "best", Miss) /\ task["lap"].at \notin Refreshing
    BY <1>6 DEF PatchLap, At, Refreshing
  <2>2. EdgeTypes' /\ inFlight' = inFlight
    <3>1. session' \in Sessions /\ fresh' \in BOOLEAN
      BY <1>1, <1>6 DEF PatchLap, StoreSession
    <3> HIDE DEF Sessions, Handlers, Miss
    <3> QED BY <1>1, <1>6, <3>1
            DEF PatchLap, EdgeTypes, cache, convex, streams, marks, overlay, dedupe
  <2> QED BY <1>1, <2>1, <2>2, GoKeeps
<1>7. CASE BestLap
  <2>1. End("lap") /\ task["lap"].at \notin Refreshing
    BY <1>7 DEF BestLap, At, Refreshing
  <2>2. EdgeTypes' /\ inFlight' = inFlight
    <3> HIDE DEF Sessions, Handlers, Miss
    <3> QED BY <1>1, <1>7
            DEF BestLap, DropSession, StoreSession, EdgeTypes, cache, convex, streams, marks, overlay, dedupe
  <2> QED BY <1>1, <2>1, <2>2, GoKeeps
<1>8. CASE AnswerSnapshot
  <2>1. End("snapshot") /\ task["snapshot"].at \notin Refreshing
    BY <1>8 DEF AnswerSnapshot, At, Refreshing
  <2>2. EdgeTypes' /\ inFlight' = inFlight
    <3>1. banned' \in BOOLEAN
      BY <1>1, <1>8 DEF AnswerSnapshot, Peek, Mirror, EdgeTypes
    <3> HIDE DEF Sessions, Handlers, Miss
    <3> QED BY <1>1, <1>8, <3>1
            DEF AnswerSnapshot, EdgeTypes, cache, convex, streams, overlay, dedupe
  <2> QED BY <1>1, <2>1, <2>2, GoKeeps
<1> QED BY <1>2, <1>3, <1>4, <1>5, <1>6, <1>7, <1>8 DEF OwnStep

(* The handlers of events, of the overlay and of timers begin.             *)
LEMMA EventsInv ==
    ASSUME HudInv, HandleJoin \/ HandleLeave \/ HandleLap
    PROVE  HudInv'
<1>1. /\ HudTypes /\ EdgeTypes /\ Miss \in Sessions /\ session \in Sessions
      /\ {"arrive", "gone", "patch", "best"} \subseteq Places \ {"await", "start"}
      /\ {"join", "leave", "lap"} \subseteq Handlers
      /\ \A c \in Cars : Session(c, 0) \in Sessions
  BY HudTyped, AnswerTyped DEF HudInv, HudTypes, Places, Handlers
<1>2. CASE HandleJoin
  <2>1. PICK e \in events :
           /\ e.type = "join" /\ Begin("join", "arrive", Session(e.car, 0))
           /\ \/ events' = events \ {e} /\ UNCHANGED ops
              \/ Spend /\ UNCHANGED events
           /\ \/ session' = Miss /\ fresh' \in BOOLEAN /\ inFlight' = None /\ recent' = FALSE
              \/ UNCHANGED <<session, fresh, inFlight, recent>>
    BY <1>2 DEF HandleJoin, DropSession, StoreSession, cache
  <2>2. e.car \in Cars
    BY <1>1 DEF EdgeTypes, Event
  <2>3. EdgeTypes'
    <3>1. /\ ops' \in Nat /\ ops' <= MaxOps /\ profile <= ops'
          /\ \A x \in events' : \E type \in {"join", "leave"}, c \in Cars : x = Event(type, c)
      BY <1>1, <2>1, HudSessionAssumption DEF EdgeTypes, Spend
    <3>2. /\ session' \in Sessions /\ fresh' \in BOOLEAN
          /\ inFlight' \in Handlers \cup {None} /\ recent' \in BOOLEAN
      BY <1>1, <2>1 DEF EdgeTypes
    <3> HIDE DEF Sessions, Handlers, Miss
    <3> QED BY <1>1, <1>2, <3>1, <3>2 DEF HandleJoin, EdgeTypes, cache, convex, marks, overlay
  <2>4. inFlight' \in {inFlight, None}
    BY <2>1
  <2>5. Free("join") /\ Session(e.car, 0) \in Sessions
    BY <1>1, <1>2, <2>2 DEF HandleJoin
  <2> QED BY <1>1, <2>1, <2>3, <2>4, <2>5, BeginKeeps
<1>3. CASE HandleLeave
  <2>1. PICK e \in events :
           /\ events' = events \ {e}
           /\ \/ presence' = None /\ Begin("leave", "gone", Miss)
              \/ UNCHANGED <<presence, task>>
    BY <1>3 DEF HandleLeave
  <2>2. EdgeTypes' /\ inFlight' = inFlight
    <3> HIDE DEF Sessions, Handlers, Miss
    <3> QED BY <1>1, <1>3, <2>1
            DEF HandleLeave, EdgeTypes, cache, convex, marks, overlay, dedupe
  <2>3. CASE Begin("leave", "gone", Miss)
    BY <1>1, <1>3, <2>2, <2>3, BeginKeeps DEF HandleLeave
  <2>4. CASE UNCHANGED task
    BY <2>2, <2>4, NobodyMoves
  <2> QED BY <2>1, <2>3, <2>4
<1>4. CASE HandleLap
  <2>1. Free("lap") /\ (Begin("lap", "patch", session) \/ Begin("lap", "best", Miss))
    BY <1>4 DEF HandleLap
  <2>2. EdgeTypes' /\ inFlight' = inFlight
    <3> HIDE DEF Sessions, Handlers, Miss
    <3> QED BY <1>1, <1>4, HudSessionAssumption
            DEF HandleLap, Spend, EdgeTypes, cache, convex, streams, marks, overlay, dedupe
  <2>3. CASE Begin("lap", "patch", session)
    BY <1>1, <2>1, <2>2, <2>3, BeginKeeps
  <2>4. CASE Begin("lap", "best", Miss)
    BY <1>1, <2>1, <2>2, <2>4, BeginKeeps
  <2> QED BY <2>1, <2>3, <2>4
<1> QED BY <1>2, <1>3, <1>4

LEMMA OverlayInv ==
    ASSUME HudInv, Connect \/ Keepalive \/ AskSnapshot \/ RetryFires \/ HearBump
    PROVE  HudInv'
<1>1. /\ HudTypes /\ EdgeTypes /\ Miss \in Sessions
      /\ {"dedupe", "peek", "fetch"} \subseteq Places \ {"await", "start"}
      /\ {"init", "keepalive", "snapshot", "retry", "push"} \subseteq Handlers
  BY HudTyped DEF HudInv, HudTypes, Places, Refreshing, Handlers
<1>2. ~SkipsDedupe("init") /\ ~SkipsDedupe("keepalive") /\ ~SkipsDedupe("snapshot")
  BY DEF SkipsDedupe
<1>3. Peek => banned' \in BOOLEAN
  BY <1>1 DEF Peek, Mirror, EdgeTypes
<1>4. CASE Connect
  <2>1. PICK at \in {"dedupe", "peek"} : Free("init") /\ Begin("init", at, Miss)
    BY <1>4 DEF Connect
  <2>2. EdgeTypes' /\ inFlight' = inFlight
    <3> HIDE DEF Sessions, Handlers, Miss
    <3> QED BY <1>1, <1>3, <1>4 DEF Connect, EdgeTypes, cache, convex, streams, dedupe
  <2> QED BY <1>1, <1>2, <2>1, <2>2, BeginKeeps
<1>5. CASE Keepalive
  <2>1. Free("keepalive") /\ Begin("keepalive", "dedupe", Miss)
    BY <1>5 DEF Keepalive
  <2>2. EdgeTypes' /\ inFlight' = inFlight
    <3> HIDE DEF Sessions, Handlers, Miss
    <3> QED BY <1>1, <1>3, <1>5
            DEF Keepalive, EdgeTypes, cache, convex, streams, overlay, dedupe
  <2> QED BY <1>1, <1>2, <2>1, <2>2, BeginKeeps
<1>6. CASE AskSnapshot
  <2>1. PICK at \in {"dedupe", "peek"} : Free("snapshot") /\ Begin("snapshot", at, Miss)
    BY <1>6 DEF AskSnapshot
  <2>2. EdgeTypes' /\ inFlight' = inFlight
    <3>1. ops' \in Nat /\ ops' <= MaxOps /\ profile <= ops'
      BY <1>1, <1>6, HudSessionAssumption DEF AskSnapshot, Spend, EdgeTypes
    <3> HIDE DEF Sessions, Handlers, Miss
    <3> QED BY <1>1, <1>3, <1>6, <3>1
            DEF AskSnapshot, EdgeTypes, cache, convex, streams, overlay, dedupe
  <2> QED BY <1>1, <1>2, <2>1, <2>2, BeginKeeps
<1>7. CASE RetryFires
  <2>1. Free("retry") /\ Begin("retry", "fetch", Miss)
    BY <1>7 DEF RetryFires
  <2>2. EdgeTypes' /\ inFlight' = inFlight
    <3> HIDE DEF Sessions, Handlers, Miss
    <3> QED BY <1>1, <1>7 DEF RetryFires, EdgeTypes, cache, convex, streams, marks, overlay
  <2> QED BY <1>1, <2>1, <2>2, BeginKeeps
<1>8. CASE HearBump
  <2>1. Free("push") /\ Begin("push", "peek", Miss)
    BY <1>8 DEF HearBump
  <2>2. EdgeTypes' /\ inFlight' = inFlight
    <3>1. ops' \in Nat /\ ops' <= MaxOps /\ profile <= ops'
      BY <1>1, <1>8, HudSessionAssumption DEF HearBump, Spend, EdgeTypes
    <3> HIDE DEF Sessions, Handlers, Miss
    <3> QED BY <1>1, <1>8, <3>1 DEF HearBump, EdgeTypes, cache, convex, marks, overlay, dedupe
  <2> QED BY <1>1, <2>1, <2>2, BeginKeeps
<1> QED BY <1>4, <1>5, <1>6, <1>7, <1>8

LEMMA HudNextInv ==
    ASSUME HudInv, [HudNext]_hudVars
    PROVE  HudInv'
<1>1. CASE World
  BY <1>1, WorldInv, EditUserInv DEF World
<1>2. ASSUME NEW t \in Handlers, Step(t) PROVE HudInv'
  <2>1. CASE RefreshStep(t)
    BY <2>1, JoinInFlightInv, BeforeFetchInv, FetchInv, PersistInv DEF RefreshStep
  <2> QED BY <1>2, <2>1, PushInv DEF Step
<1>3. CASE OwnStep \/ HandleStatus \/ Renew
  BY <1>3, OwnStepsInv, WorldInv, RenewInv
<1>4. CASE Connect \/ AskSnapshot \/ HandleJoin \/ HandleLeave \/ HandleLap \/ Keepalive
           \/ RetryFires \/ HearBump
  BY <1>4, EventsInv, OverlayInv
<1>5. CASE UNCHANGED hudVars
  <2>1. UNCHANGED <<user, profile, car, events, bumped, presence, session, fresh, banned,
                    unregistered, prefs, open, shown, lastSent, inFlight, recent, retryTimer, task, ops>>
    BY <1>5 DEF hudVars, cache, convex, streams, marks, overlay, dedupe
  <2>2. EdgeTypes'
    <3> HIDE DEF Sessions, Handlers
    <3> QED BY <2>1 DEF HudInv, HudTypes, EdgeTypes
  <2> QED BY <2>1, <2>2, NobodyMoves
<1> QED BY <1>1, <1>2, <1>3, <1>4, <1>5 DEF HudNext

(* The state of the player's session, of his tasks and of the dedupe of    *)
(* refreshes keeps its types, with any cars and any number of handlers.    *)
THEOREM SessionTypes == HudSpec => []HudTypeOK
<1>1. HudInv => HudTypeOK
  <2> SUFFICES ASSUME HudInv PROVE HudTypeOK
    OBVIOUS
  <2>1. EdgeTypes /\ task \in [Handlers -> Tasks]
    BY DEF HudInv, HudTypes
  <2>2. profile \in Profiles
    BY <2>1, HudSessionAssumption DEF EdgeTypes, Profiles
  <2>3. events \subseteq {Event(e, c) : e \in {"join", "leave"}, c \in Cars}
    <3> SUFFICES ASSUME NEW x \in events
                 PROVE  \E e \in {"join", "leave"}, c \in Cars : x = Event(e, c)
      OBVIOUS
    <3> QED BY <2>1 DEF EdgeTypes
  <2> HIDE DEF Sessions, Profiles, Handlers
  <2> QED BY <2>1, <2>2, <2>3 DEF EdgeTypes, HudTypeOK, Tasks
<1> QED BY <1>1, HudInitInv, HudNextInv, PTL DEF HudSpec

(* joinRefreshInFlight of playerJoinContext.ts: nobody waits for a refresh *)
(* that is over, though the entry is thrown out by a change of car and     *)
(* taken back by whichever refresh ends first.                             *)
THEOREM NobodyWaitsInVain == HudSpec => []WaitsForARefresh
<1>1. HudInv => WaitsForARefresh
  BY DEF HudInv
<1> QED BY <1>1, HudInitInv, HudNextInv, PTL DEF HudSpec
=============================================================================
