---------------------------- MODULE ActivityFeed ----------------------------
(***************************************************************************)
(* The activity page (src/packages/ac-data-backend: services/activity,     *)
(* controller/activityController.ts, public/js/panels/activity.js).        *)
(*                                                                         *)
(* The hub reads the event stream backwards, page by page, and counts the  *)
(* day's players on the way; the counts of a day and whole answers are     *)
(* kept for some seconds.  The page in the browser asks for the newest     *)
(* entries when its filter changes and all POLL_MS, and for older ones when *)
(* the administrator wants more, one request at a time.                     *)
(*                                                                         *)
(* The stream is a sequence whose indices are the ids; time stamps follow  *)
(* it, so a day is an interval.  One page, no search, all servers.         *)
(***************************************************************************)
EXTENDS Integers, FiniteSets, Sequences

CONSTANTS
    Categories,        \* filters of the timeline
    LimitPerPage,
    FetchBatch,        \* ACTIVITY_FETCH_BATCH
    RawScanMax,        \* ACTIVITY_RAW_SCAN_MAX
    MaxEntries,
    MaxPageOps,        \* bound: changes of the filter and failed requests
    MaxKept            \* bound: answers kept at once

ASSUME ActivityFeedAssumption ==
    /\ Categories \subseteq {"all", "connections", "battles"} /\ "all" \in Categories
    /\ LimitPerPage \in Nat \ {0} /\ FetchBatch \in Nat \ {0}
    /\ RawScanMax \in Nat /\ FetchBatch <= RawScanMax
    /\ MaxEntries \in Nat /\ MaxPageOps \in Nat
    /\ MaxKept \in Nat \ {0}

VARIABLES
    stream,            \* ac:events
    kept,              \* feedCache and dayContextCache, oldest first
    panel,             \* what the page shows and may ask for next
    asking,           \* of the page, under way
    whole,             \* what is shown was never cut short nor of two filters
    pageOps

activityVars == <<stream, kept, panel, asking, whole, pageOps>>

Days == {1, 2}
Entries == [event : {"player_join", "battle_finished"}, day : Days]
Ids == 1 .. MaxEntries

(* matchesCategory of what normalizeStreamEntry makes of an event, if that  *)
(* is anything.                                                             *)
Shows(category) ==
    CASE category = "all"         -> {"player_join", "battle_finished"}
      [] category = "connections" -> {"player_join"}
      [] category = "battles"     -> {"battle_finished"}

Matches(i, category, day) ==
    stream[i].day = day /\ stream[i].event \in Shows(category)

NotAsked == [at |-> "idle"]
NewPanel(category, day) ==
    [category |-> category, day |-> day, items |-> {}, next |-> 0, more |-> FALSE]

ActivityInit ==
    /\ \E n \in 0 .. MaxEntries - 1 : stream \in [1 .. n -> Entries]
    /\ \A i, j \in DOMAIN stream : i < j => stream[i].day <= stream[j].day
    /\ kept = <<>> /\ asking = NotAsked
    /\ panel = NewPanel("all", 2)
    /\ whole = TRUE
    /\ pageOps = 0

-----------------------------------------------------------------------------
(* The hub *)

EventArrives(entry) ==
    /\ Len(stream) < MaxEntries
    /\ \A i \in DOMAIN stream : stream[i].day <= entry.day
    /\ stream' = Append(stream, entry)
    /\ UNCHANGED <<kept, panel, asking, whole, pageOps>>

(* The day's context, if one is kept.                                       *)
Contexts(day) == {k \in DOMAIN kept : kept[k].context /\ kept[k].day = day}

Newest(n, ids) == {i \in ids : Cardinality({j \in ids : j > i}) < n}

\* MUTANT: the page goes on one entry below the last one sent
BelowSkipping(cursor) == {i \in DOMAIN stream : cursor = 0 \/ i < cursor - 1}

(* fetchStreamBatch: entries older than the cursor, 0 for none.             *)
Below(cursor) == {i \in DOMAIN stream : cursor = 0 \/ i < cursor}

OfDay(day, ids) == {i \in ids : stream[i].day = day}

(* The loop of getActivityFeed: down to the day's first entry, but no more  *)
(* than RawScanMax entries of whatever day, or, if the day's context is     *)
(* known, the next batch only.                                              *)
Scanned(day, cursor) ==
    OfDay(day, Newest(IF Contexts(day) = {} THEN RawScanMax ELSE FetchBatch, Below(cursor)))

(* getActivityFeed after a miss of its cache: a page of items, whether there *)
(* may be more, and whether it counted the day's players, which it keeps as *)
(* the day's context.  A scan that ends before the page is full says there  *)
(* is no more, though it may not be complete: the rest of the day's entries *)
(* were not looked at.                                                      *)
Feed(category, day, cursor) ==
    LET scanned == Scanned(day, cursor)
        items   == Newest(LimitPerPage, {i \in scanned : Matches(i, category, day)})
    IN  [category |-> category, day |-> day, cursor |-> cursor, items |-> items,
         more |-> Cardinality(items) = LimitPerPage,
         context |-> Contexts(day) = {},
         complete |-> OfDay(day, Below(cursor)) \subseteq scanned]

KeptFeeds(category, day, cursor) ==
    {k \in DOMAIN kept :
       kept[k].category = category /\ kept[k].day = day /\ kept[k].cursor = cursor}

(* getActivityFeedHandler and getActivityFeed.                              *)
HubAnswers ==
    /\ asking.at = "asked"
    /\ LET hits == KeptFeeds(asking.category, asking.day, asking.cursor)
           feed == IF hits = {} THEN Feed(asking.category, asking.day, asking.cursor)
                   ELSE kept[CHOOSE k \in hits : TRUE]
       IN  /\ Len(kept) < MaxKept \/ hits # {}
           /\ kept' = IF hits = {} THEN Append(kept, feed) ELSE kept
           /\ asking' = [at |-> "answered", top |-> asking.top, asked |-> asking.asked,
                          feed |-> feed]
    /\ UNCHANGED <<stream, panel, whole, pageOps>>

(* ACTIVITY_CACHE_TTL_MS after it was kept.                                 *)
KeptExpires ==
    /\ kept # <<>> /\ kept' = Tail(kept)
    /\ UNCHANGED <<stream, panel, asking, whole, pageOps>>

-----------------------------------------------------------------------------
(* The page *)

(* refreshActivity up to its request: asked is what for, top whether the    *)
(* list is scrolled to its newest entry.                                    *)
Ask(asked, top, shown) ==
    asking' = [at |-> "asked", asked |-> asked, top |-> top, category |-> shown.category,
                day |-> shown.day, cursor |-> IF asked = "more" THEN shown.next ELSE 0]

(* The handlers of the filters: the timeline is emptied, and asked for      *)
(* unless another request is under way.                                     *)
SetFilter(category, day) ==
    /\ pageOps < MaxPageOps /\ pageOps' = pageOps + 1
    /\ panel' = NewPanel(category, day)
    /\ IF asking.at = "idle" THEN Ask("newest", TRUE, panel') ELSE UNCHANGED asking
    /\ whole' = (asking.at = "idle")
    /\ UNCHANGED <<stream, kept>>

(* The poll's timer, and the button that does the same.                     *)
Poll(top) ==
    /\ asking.at = "idle" /\ Ask("newest", top, panel)
    /\ UNCHANGED <<stream, kept, panel, whole, pageOps>>

LoadMore ==
    /\ asking.at = "idle" /\ panel.more /\ panel.next # 0 /\ Ask("more", FALSE, panel)
    /\ UNCHANGED <<stream, kept, panel, whole, pageOps>>

Oldest(ids) == CHOOSE i \in ids : \A j \in ids : i <= j

\* MUTANT: an answer never replaces what is shown
ReplacesIfEmpty(answer) == panel.items = {}

(* The newest page alone is shown at the top of the list, and together with *)
(* what there was otherwise.                                                *)
Replaces(answer) == answer.asked = "newest" /\ (answer.top \/ panel.items = {})

(* The rest of refreshActivity.  The day shown is the answer's, the         *)
(* category the one chosen last.                                            *)
Receive ==
    /\ asking.at = "answered" /\ asking' = NotAsked
    /\ LET feed == asking.feed
       IN  /\ panel' = [panel EXCEPT
                !.day = feed.day, !.more = feed.more,
                !.items = IF Replaces(asking) THEN feed.items ELSE @ \cup feed.items,
                !.next = IF feed.more THEN Oldest(feed.items) ELSE 0]
           /\ whole' = /\ feed.category = panel.category /\ feed.day = panel.day
                       /\ feed.more \/ feed.complete
                       /\ whole \/ Replaces(asking)
    /\ UNCHANGED <<stream, kept, pageOps>>

(* Redis or the connection fails.  A refusal empties the page.              *)
RequestFails ==
    /\ pageOps < MaxPageOps /\ pageOps' = pageOps + 1
    /\ asking.at = "asked" /\ asking' = NotAsked
    /\ panel' \in IF asking.asked = "newest"
                  THEN {panel, [panel EXCEPT !.items = {}]}
                  ELSE {panel}
    /\ UNCHANGED <<stream, kept, whole>>

-----------------------------------------------------------------------------
ActivityNext ==
    \/ \E entry \in Entries : EventArrives(entry)
    \/ HubAnswers \/ KeptExpires \/ Receive \/ LoadMore \/ RequestFails
    \/ \E category \in Categories, day \in Days : SetFilter(category, day)
    \/ \E top \in BOOLEAN : Poll(top)

ActivityTypeOK ==
    /\ stream \in Seq(Entries) /\ Len(stream) <= MaxEntries
    /\ Len(kept) <= MaxKept
    /\ panel \in [category : Categories, day : Days, items : SUBSET Ids,
                  next : {0} \cup Ids, more : BOOLEAN]
    /\ asking.at \in {"idle", "asked", "answered"}
    /\ whole \in BOOLEAN
    /\ pageOps \in 0 .. MaxPageOps

(* When the page offers no more, no entry older than one it shows is        *)
(* missing, over polls, new entries and pages in any order (nextCursor of   *)
(* getActivityFeed, the merging of refreshActivity).  Unless the filter     *)
(* changed under a request, or an answer said there is no more before the   *)
(* day was scanned to its end: after one batch because the day's context    *)
(* was known, or with its budget spent, which is ACTIVITY_RAW_SCAN_MAX and  *)
(* by default smaller than the stream may become.                           *)
NothingSkipped ==
    (asking.at = "idle" /\ ~panel.more /\ whole)
      => \A i \in DOMAIN stream :
           (Matches(i, panel.category, panel.day) /\ \E j \in panel.items : i < j)
             => i \in panel.items

(* Once the filter is left alone the page comes to show only what matches   *)
(* it, though the answer to a request for another filter may have been put  *)
(* under it and merged with later ones: at the top of the list the next     *)
(* poll replaces it.                                                        *)
ShownMatchesFilter ==
    <>[](\A i \in panel.items : Matches(i, panel.category, panel.day))
=============================================================================
