---------------------------- MODULE IngestBridge ----------------------------
(***************************************************************************)
(* The ingest bridge of the edges (redisConvexBridge.ts): each edge reads  *)
(* the stream ac:events through one shared consumer group, keeps what it   *)
(* read in a memory buffer, forwards the buffer to the hub in chunks, and  *)
(* acknowledges in Redis what the hub has taken (ingestBatchAck.ts,        *)
(* coalesceIngestBatch.ts, ingestPrefPartition.ts).  What is delivered but *)
(* not acknowledged stays in the group's pending list, and an edge takes   *)
(* over the entries that have been idle there for long.                    *)
(*                                                                         *)
(* An edge runs one loop: reclaim when due, read, flush.  A step ends      *)
(* where the loop awaits the hub or an acknowledgement; the reading of     *)
(* preferences and the local handlers before the hub's call belong to the  *)
(* step that takes the chunk.  Coalescing keeps the server_status messages *)
(* of different servers apart, so all those here are of one server.        *)
(***************************************************************************)
EXTENDS Integers, SequencesExt

CONSTANTS
    Edges,
    Kinds,                      \* the kinds of event published
    LIVE_INGEST_CONVEX,         \* server_status is forwarded, too
    INGEST_MAX_BATCH_SIZE, PENDING_RECLAIM_BATCH,
    MaxEvents, MaxFaults, MaxBuffer     \* bounds

(* lap: any event for the hub; poison: one it always fails, for a reason   *)
(* worth a retry; unsaved: an event kept local by the driver's preference; *)
(* status, empty: server_status with and without players; config: acked    *)
(* unread.                                                                 *)
AllKinds == {"lap", "poison", "unsaved", "status", "empty", "config"}

ASSUME IngestAssumption ==
    /\ Kinds \subseteq AllKinds /\ LIVE_INGEST_CONVEX \in BOOLEAN
    /\ INGEST_MAX_BATCH_SIZE \in Nat \ {0} /\ PENDING_RECLAIM_BATCH \in Nat \ {0}
    /\ MaxEvents \in Nat /\ MaxFaults \in Nat /\ MaxBuffer \in Nat

VARIABLES
    stream,                     \* the kind of every event, from the start
    published,                  \* events in the stream so far
    delivered,                  \* the group's last delivered event
    pending,                    \* the pending list: delivered, not acknowledged
    stale,                      \* pending and idle for the reclaim's minimum
    handled,                    \* taken or refused by the hub, or handled locally
    buffer, timer, pc,          \* each edge's IngestBufferState and loop
    flight,                     \* each edge's chunk being flushed
    faults                      \* failures so far

redisVars == <<stream, published, delivered, pending, stale>>
edgeVars == <<buffer, timer, pc, flight>>
vars == <<redisVars, handled, edgeVars, faults>>

Events == 1 .. MaxEvents
NoFlight == [chunk |-> <<>>, todo |-> {}, retry |-> <<>>]

Init ==
    /\ stream \in [Events -> Kinds] /\ published = 0
    /\ delivered = 0 /\ pending = {} /\ stale = {}
    /\ handled = {}
    /\ buffer = [e \in Edges |-> <<>>] /\ timer = [e \in Edges |-> "off"]
    /\ pc = [e \in Edges |-> "top"] /\ flight = [e \in Edges |-> NoFlight]
    /\ faults = 0

-----------------------------------------------------------------------------
(* Chunks *)

Status(i) == stream[i] \in {"status", "empty"}
Local(i) == \/ stream[i] \in {"unsaved", "empty"}
            \/ stream[i] = "status" /\ ~LIVE_INGEST_CONVEX

(* coalesceIngestBatch: of the server_status messages the last is kept.    *)
Coalesced(chunk) ==
    {chunk[n] : n \in {m \in DOMAIN chunk :
                         Status(chunk[m]) => \A l \in m + 1 .. Len(chunk) : ~Status(chunk[l])}}

(* partitionCoalescedByIngestPrefs                                         *)
Forward(chunk) == {i \in Coalesced(chunk) : ~Local(i)}

(* resolveChunkAckPlan, called with the forwarded messages only: a dropped *)
(* server_status goes with the kept one if that was forwarded.             *)
ToAck(chunk, done) ==
    done \cup {i \in ToSet(chunk) \ Coalesced(chunk) : \E k \in done : Status(k)}

-----------------------------------------------------------------------------
(* The stream and the passing of time *)

Publish ==
    /\ published < MaxEvents /\ published' = published + 1
    /\ UNCHANGED <<stream, delivered, pending, stale, handled, edgeVars, faults>>

(* The flush interval is over.                                             *)
FlushDue(e) ==
    /\ timer[e] = "running" /\ timer' = [timer EXCEPT ![e] = "elapsed"]
    /\ UNCHANGED <<redisVars, handled, buffer, pc, flight, faults>>

(* A pending event has been idle for the reclaim's minimum, which is       *)
(* longer than the flush interval.                                         *)
GoStale(i) ==
    /\ i \in pending \ stale /\ stale' = stale \cup {i}
    /\ timer' = [e \in Edges |-> IF timer[e] = "running" /\ i \in ToSet(buffer[e])
                                 THEN "elapsed" ELSE timer[e]]
    /\ UNCHANGED <<stream, published, delivered, pending, handled, buffer, pc, flight, faults>>

Fault == faults < MaxFaults /\ faults' = faults + 1

-----------------------------------------------------------------------------
(* One iteration of runEventsConsumerLoop *)

Goto(e, label) == pc' = [pc EXCEPT ![e] = label]

(* appendToIngestBuffer                                                    *)
AppendToBuffer(e, items) ==
    /\ buffer' = [buffer EXCEPT ![e] = @ \o items]
    /\ timer' = [timer EXCEPT ![e] = IF items # <<>> /\ @ = "off" THEN "running" ELSE @]

(* The oldest idle entries, as far as a reclaim goes.                      *)
Reclaimable(room) ==
    {i \in stale : Cardinality({j \in stale : j < i}) < PENDING_RECLAIM_BATCH
                /\ Cardinality({j \in stale : j < i}) < room}

(* Mutant: the entries claimed are not put into the buffer.                *)
ReclaimUnbuffered(e) ==
    LET claimed == Reclaimable(MaxBuffer)
    IN  /\ pc[e] = "top" /\ claimed # {} /\ Goto(e, "read")
        /\ stale' = stale \ claimed
        /\ UNCHANGED <<stream, published, delivered, pending, handled, buffer, timer, flight, faults>>

(* reclaimStalePendingMessages, at the start of an iteration when due: its *)
(* own entries are claimed like those of the other edges.                  *)
Reclaim(e) ==
    LET claimed == Reclaimable(MaxBuffer - Len(buffer[e]))
        config == {i \in claimed : stream[i] = "config"}
    IN  /\ pc[e] = "top" /\ claimed # {} /\ Goto(e, "read")
        /\ stale' = stale \ claimed /\ pending' = pending \ config
        /\ AppendToBuffer(e, SetToSortSeq(claimed \ config, <))
        /\ UNCHANGED <<stream, published, delivered, handled, flight, faults>>

Delivery == LET n == published - delivered
            IN  IF n < INGEST_MAX_BATCH_SIZE THEN n ELSE INGEST_MAX_BATCH_SIZE

(* XREADGROUP of the new messages, none when it times out.                 *)
Read(e) ==
    LET new == delivered + 1 .. delivered + Delivery
        items == {i \in new : stream[i] # "config"}
    IN  /\ pc[e] \in {"top", "read"} /\ Goto(e, "flush")
        /\ delivered' = delivered + Delivery /\ pending' = pending \cup items
        /\ AppendToBuffer(e, SetToSortSeq(items, <))
        /\ UNCHANGED <<stream, published, stale, handled, flight, faults>>

(* The loop fails on the messages just read: none of them is buffered or   *)
(* acknowledged.                                                           *)
ReadFails(e) ==
    /\ pc[e] \in {"top", "read"} /\ Delivery > 0 /\ Fault /\ Goto(e, "top")
    /\ delivered' = delivered + Delivery
    /\ pending' = pending \cup (delivered + 1 .. delivered + Delivery)
    /\ UNCHANGED <<stream, published, stale, handled, buffer, timer, flight>>

(* shouldFlushIngestBuffer                                                 *)
ShouldFlush(e) ==
    /\ buffer[e] # <<>>
    /\ Len(buffer[e]) >= INGEST_MAX_BATCH_SIZE \/ timer[e] = "elapsed"

NoFlush(e) ==
    /\ pc[e] = "flush" /\ ~ShouldFlush(e) /\ Goto(e, "top")
    /\ UNCHANGED <<redisVars, handled, buffer, timer, flight, faults>>

(* flushIngestBuffer takes a chunk out of the buffer; flushIngestChunk     *)
(* coalesces and partitions it and runs the handlers before ingest, which  *)
(* apply a server_status.                                                  *)
TakeChunk(e) ==
    LET size == IF Len(buffer[e]) < INGEST_MAX_BATCH_SIZE
                THEN Len(buffer[e]) ELSE INGEST_MAX_BATCH_SIZE
        chunk == SubSeq(buffer[e], 1, size)
    IN  /\ pc[e] = "flush" /\ ShouldFlush(e) /\ Goto(e, "forward")
        /\ buffer' = [buffer EXCEPT ![e] = SubSeq(@, size + 1, Len(@))]
        /\ flight' = [flight EXCEPT ![e] = [NoFlight EXCEPT !.chunk = chunk]]
        /\ handled' = handled \cup {i \in Coalesced(chunk) \ Forward(chunk) : Status(i)}
        /\ UNCHANGED <<redisVars, timer, faults>>

-----------------------------------------------------------------------------
(* The hub's answer (forwardBatchToConvex) *)

(* External: what the hub does not fail on.                                *)
Good(e) == {i \in Forward(flight[e].chunk) : stream[i] # "poison"}

(* The plan of flushIngestChunk: what is acknowledged, and what goes back  *)
(* to the buffer.                                                          *)
Plan(e, done) ==
    LET chunk == flight[e].chunk
        ack == (Coalesced(chunk) \ Forward(chunk)) \cup ToAck(chunk, done)
        retry == IF Forward(chunk) = {} THEN <<>>
                 ELSE SelectSeq(chunk, LAMBDA i : i \notin ack)
    IN  /\ flight' = [flight EXCEPT ![e] = [chunk |-> chunk, todo |-> ack, retry |-> retry]]
        /\ Goto(e, "ack")

(* A row per event: done, refused for good (user_not_found), or failed.    *)
(* Events the hub merged are all done.  Nothing to forward is done at once.*)
HubReplies(e) ==
    /\ pc[e] = "forward"
    /\ \E done \in SUBSET Good(e) :
         /\ IF done = Good(e) THEN UNCHANGED faults ELSE Fault
         /\ handled' = handled \cup done /\ Plan(e, done)
    /\ UNCHANGED <<redisVars, buffer, timer>>

(* Mutant: an answer without rows counts as success.                       *)
HubRowsAssumed(e) ==
    /\ pc[e] = "forward" /\ Forward(flight[e].chunk) # {} /\ Fault
    /\ \E taken \in SUBSET Good(e) : handled' = handled \cup taken
    /\ Plan(e, Forward(flight[e].chunk))
    /\ UNCHANGED <<redisVars, buffer, timer>>

(* An answer without rows says nothing: all is retried.                    *)
HubSendsNoRows(e) ==
    /\ pc[e] = "forward" /\ Forward(flight[e].chunk) # {} /\ Fault
    /\ \E taken \in SUBSET Good(e) : handled' = handled \cup taken
    /\ Plan(e, {})
    /\ UNCHANGED <<redisVars, buffer, timer>>

Drop(e) == flight' = [flight EXCEPT ![e] = NoFlight] /\ Goto(e, "top")

(* The call times out or fails, or a handler does; the hub may have taken  *)
(* any of the events.  The chunk has left the buffer.                      *)
FlushFails(e) ==
    /\ pc[e] = "forward" /\ Fault /\ Drop(e)
    /\ \E taken \in SUBSET Good(e) : handled' = handled \cup taken
    /\ UNCHANGED <<redisVars, buffer, timer>>

-----------------------------------------------------------------------------
(* Acknowledgement *)

(* In the order of the chunk: the handlers after ingest, then XACK.        *)
Ack(e) ==
    /\ pc[e] = "ack"
    /\ \E n \in DOMAIN flight[e].chunk :
         LET i == flight[e].chunk[n]
         IN  /\ i \in flight[e].todo
             /\ \A m \in 1 .. n - 1 : flight[e].chunk[m] \notin flight[e].todo
             /\ pending' = pending \ {i} /\ stale' = stale \ {i}
             /\ handled' = IF stream[i] = "unsaved" THEN handled \cup {i} ELSE handled
             /\ flight' = [flight EXCEPT ![e].todo = @ \ {i}]
    /\ UNCHANGED <<stream, published, delivered, buffer, timer, pc, faults>>

(* A handler or XACK fails: the retries have left the buffer as well.      *)
AckFails(e) ==
    /\ pc[e] = "ack" /\ Fault /\ Drop(e)
    /\ UNCHANGED <<redisVars, handled, buffer, timer>>

(* The retries go back to the front and end the flush; without any, the    *)
(* next chunk is tried.                                                    *)
Settle(e) ==
    /\ pc[e] = "ack" /\ flight[e].todo = {}
    /\ flight' = [flight EXCEPT ![e] = NoFlight]
    /\ IF flight[e].retry = <<>>
       THEN /\ Goto(e, "flush") /\ UNCHANGED buffer
            /\ timer' = [timer EXCEPT ![e] = IF buffer[e] = <<>> THEN "off" ELSE @]
       ELSE /\ Goto(e, "top")
            /\ buffer' = [buffer EXCEPT ![e] = flight[e].retry \o @]
            /\ timer' = [timer EXCEPT ![e] = IF @ = "off" THEN "running" ELSE @]
    /\ UNCHANGED <<redisVars, handled, faults>>

(* The process restarts under its consumer name.                           *)
Restart(e) ==
    /\ Fault /\ Drop(e)
    /\ buffer' = [buffer EXCEPT ![e] = <<>>] /\ timer' = [timer EXCEPT ![e] = "off"]
    /\ UNCHANGED <<redisVars, handled>>

-----------------------------------------------------------------------------

Loop(e) ==
    \/ Read(e) \/ NoFlush(e) \/ TakeChunk(e)
    \/ HubReplies(e) \/ Ack(e) \/ Settle(e)

Failure(e) ==
    \/ ReadFails(e) \/ HubSendsNoRows(e) \/ FlushFails(e) \/ AckFails(e) \/ Restart(e)

Next ==
    \/ Publish
    \/ \E i \in Events : GoStale(i)
    \/ \E e \in Edges : Loop(e) \/ Reclaim(e) \/ FlushDue(e) \/ Failure(e)

Spec == Init /\ [][Next]_vars

(* The loop runs and time passes.  An iteration finds the reclaim due      *)
(* again and again: the clock is read at the top of each.                  *)
FairSpec ==
    /\ Spec
    /\ \A i \in Events : WF_vars(GoStale(i))
    /\ \A e \in Edges : /\ WF_vars(Loop(e)) /\ WF_vars(FlushDue(e))
                        /\ SF_vars(Reclaim(e))

-----------------------------------------------------------------------------
(* Properties *)

Flights ==
    [chunk : Seq(Events), todo : SUBSET Events, retry : Seq(Events)]

TypeOK ==
    /\ stream \in [Events -> Kinds] /\ published \in 0 .. MaxEvents
    /\ delivered \in 0 .. published
    /\ stale \subseteq pending /\ pending \subseteq 1 .. delivered
    /\ handled \subseteq 1 .. delivered
    /\ \A e \in Edges :
         /\ buffer[e] \in Seq(Events)
         /\ timer[e] \in {"off", "running", "elapsed"}
         /\ pc[e] \in {"top", "read", "flush", "forward", "ack"}
         /\ flight[e] \in Flights /\ Len(flight[e].chunk) <= INGEST_MAX_BATCH_SIZE
    /\ faults \in 0 .. MaxFaults

(* At least once: whatever fails or restarts, and although two edges may   *)
(* hold the same event, an event that leaves the pending list was taken or *)
(* refused by the hub or handled locally; a server_status, perhaps a later *)
(* one instead.                                                            *)
AckedAreHandled ==
    \A i \in 1 .. delivered :
        i \notin pending =>
            \/ stream[i] = "config" \/ i \in handled
            \/ Status(i) /\ \E j \in handled : Status(j)

(* Every event read is acknowledged in the end, once the failures stop.    *)
EventuallyAcked == \A i \in Events : i \in pending ~> i \notin pending

-----------------------------------------------------------------------------
(* What the documents say, and the code does not do *)

(* reclaimStalePendingMessages: failures do not block the consumer for     *)
(* ever.  The copies of one event that keeps failing fill the chunks.      *)
FailureBlocksNobody ==
    \A i \in Events : i \in pending /\ stream[i] # "poison" ~> i \notin pending
=============================================================================
