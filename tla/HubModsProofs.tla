---------------------------- MODULE HubModsProofs ----------------------------
(***************************************************************************)
(* Proofs about HubMods, for any requests, sessions, content and bounds:   *)
(* what the library offers and acknowledges is there, and a start is       *)
(* judged by what it asked for.                                            *)
(***************************************************************************)
EXTENDS HubMods, NaturalsInduction, WellFoundedInduction, TLAPS

-----------------------------------------------------------------------------
(* The start gate *)

Refreshes ==
    [at : {"none", "delete", "insert", "sync", "reread", "done", "failed"},
     left : SUBSET Content, install : BOOLEAN, items : SUBSET Content,
     unknown : SUBSET Content, errors : SUBSET Content, fatal : SUBSET Content,
     crossed : BOOLEAN]

Gates ==
    [at : {"idle", "asking", "waiting", "polling"}, wants : SUBSET Content,
     items : SUBSET Content, unknown : SUBSET Content, fatal : SUBSET Content,
     crossed : BOOLEAN]

GateTypes ==
    /\ present \subseteq Content /\ ready \subseteq Content /\ required \subseteq Content
    /\ refresh \in [Callers -> Refreshes] /\ gate \in [Keys -> Gates]

(* What a refresh or a gate blames is not in the catalog, or refused.       *)
BlamesStrangers(r) == (r.unknown \cup r.fatal) \cap (Catalogued \ Refused) = {}

(* A start's refresh runs while its gate waits for the answer, and with    *)
(* what the start asked for.                                               *)
RefreshOfGate(g) ==
    /\ gate[g].at \in {"idle", "waiting"} => refresh[g].at = "none"
    /\ refresh[g].at = "delete" => refresh[g].left = gate[g].wants

(* A refresh that none has crossed is alone between its DELETE and its last *)
(* read, so that the rows are those it has inserted.                        *)
Alone == \A c, d \in Rewriting : c # d => refresh[c].crossed

RowsAreOwn(g) ==
    g \in Rewriting /\ ~refresh[g].crossed =>
        IF refresh[g].at = "insert"
        THEN required \cup refresh[g].left = gate[g].wants
        ELSE required = gate[g].wants

(* Hence what it answers, and what a gate goes by, is what was asked for.   *)
AnswerIsOwn(g) ==
    /\ refresh[g].at = "done" /\ ~refresh[g].crossed
         => refresh[g].items = gate[g].wants
    /\ gate[g].at \in {"waiting", "polling"} /\ ~gate[g].crossed
         => gate[g].items = gate[g].wants
    /\ gate[g].at = "asking" => gate[g].unknown = {} /\ gate[g].fatal = {}

OfKey(g) ==
    /\ BlamesStrangers(refresh[g]) /\ BlamesStrangers(gate[g])
    /\ RefreshOfGate(g) /\ RowsAreOwn(g) /\ AnswerIsOwn(g)

GateInv == GateTypes /\ Alone /\ \A g \in Keys : OfKey(g)

LEMMA WorldChanges ==
    ASSUME GateInv, UNCHANGED <<required, refresh, gate>>,
           present' \subseteq Content, ready' \subseteq Content
    PROVE  GateInv'
BY DEF GateInv, OfKey, GateTypes, BlamesStrangers, RefreshOfGate, Alone, Rewriting,
       RowsAreOwn, AnswerIsOwn

(* A step that touches the refresh and the gate of one caller, and no rows. *)
LEMMA OneRefresh ==
    ASSUME GateInv, NEW c \in Callers, NEW r \in Refreshes,
           refresh' = [refresh EXCEPT ![c] = r], gate' \in [Keys -> Gates],
           UNCHANGED <<present, ready, required>>,
           r.at \in {"insert", "sync", "reread"} => c \in Rewriting /\ r.crossed = refresh[c].crossed,
           \A g \in Keys : g # c => gate'[g] = gate[g],
           c \in Keys => OfKey(c)'
    PROVE  GateInv'
<1>1. GateTypes'
  BY DEF GateInv, GateTypes
<1>2. /\ Rewriting' \subseteq Rewriting
      /\ \A d \in Rewriting' : d # c => refresh'[d] = refresh[d]
      /\ c \in Rewriting' => refresh'[c].crossed = refresh[c].crossed
  BY DEF GateInv, GateTypes, Rewriting
<1>3. Alone'
  BY <1>2 DEF GateInv, Alone
<1>4. ASSUME NEW g \in Keys PROVE OfKey(g)'
  <2>1. CASE g = c
    BY <2>1
  <2>2. CASE g # c
    <3>1. g \in Callers /\ refresh'[g] = refresh[g] /\ gate'[g] = gate[g]
      BY <2>2 DEF GateInv, GateTypes, Callers
    <3>2. OfKey(g)
      BY DEF GateInv, OfKey
    <3> QED BY <3>1, <3>2
            DEF OfKey, BlamesStrangers, RefreshOfGate, RowsAreOwn, AnswerIsOwn, Rewriting
  <2> QED BY <2>1, <2>2
<1> QED BY <1>1, <1>3, <1>4 DEF GateInv, OfKey


LEMMA RefreshTyped ==
    ASSUME GateInv
    PROVE  /\ \A c \in Callers : refresh[c] \in Refreshes
           /\ \A g \in Keys : g \in Callers /\ g # "panel" /\ gate[g] \in Gates /\ OfKey(g)
           /\ "panel" \in Callers /\ NoRefresh \in Refreshes /\ NoGate \in Gates
           /\ \A wants \in SUBSET Content : \A install \in BOOLEAN :
                 Asked(wants, install) \in Refreshes
BY StartGateAssumption
   DEF GateInv, GateTypes, Callers, NoRefresh, NoGate, Asked, Refreshes, Gates

LEMMA PanelAsksInv ==
    ASSUME GateInv, NEW wants \in SUBSET Content, PanelRefreshes(wants)
    PROVE  GateInv'
<1> DEFINE r == Asked(wants, FALSE)
<1>1. r \in Refreshes /\ r.at = "delete"
  BY RefreshTyped DEF Asked, NoRefresh
<1>2. /\ refresh' = [refresh EXCEPT !["panel"] = r] /\ gate' = gate
      /\ UNCHANGED <<present, ready, required>>
  BY DEF PanelRefreshes, world
<1> HIDE DEF r
<1> QED BY <1>1, <1>2, RefreshTyped, StartGateAssumption, OneRefresh DEF GateInv, GateTypes

LEMMA AskStartInv ==
    ASSUME GateInv, NEW g \in Keys, NEW wants \in SUBSET Content, AskStart(g, wants)
    PROVE  GateInv'
<1> DEFINE r == Asked(wants, TRUE)
           k == [NoGate EXCEPT !.at = "asking", !.wants = wants]
<1>1. /\ r \in Refreshes /\ r.at = "delete" /\ r.left = wants /\ BlamesStrangers(r)
      /\ k \in Gates /\ k.at = "asking" /\ k.wants = wants /\ BlamesStrangers(k)
      /\ k.unknown = {} /\ k.fatal = {}
  BY RefreshTyped DEF Asked, NoRefresh, NoGate, Gates, BlamesStrangers
<1>2. /\ refresh' = [refresh EXCEPT ![g] = r] /\ gate' = [gate EXCEPT ![g] = k]
      /\ UNCHANGED <<present, ready, required>>
  BY DEF AskStart, world
<1> HIDE DEF r, k
<1>3. refresh'[g] = r /\ gate'[g] = k /\ gate' \in [Keys -> Gates]
  BY <1>1, <1>2, RefreshTyped DEF GateInv, GateTypes
<1>4. OfKey(g)'
  BY <1>1, <1>3 DEF OfKey, RefreshOfGate, RowsAreOwn, AnswerIsOwn, Rewriting, BlamesStrangers
<1> QED BY <1>1, <1>2, <1>3, <1>4, RefreshTyped, OneRefresh DEF GateInv, GateTypes

LEMMA PollInv ==
    ASSUME GateInv, NEW g \in Keys, PollHub(g)
    PROVE  GateInv'
<1>0. PICK resync \in BOOLEAN : refresh' = [refresh EXCEPT ![g] = Asked(gate[g].wants, resync)]
  BY DEF PollHub
<1> DEFINE r == Asked(gate[g].wants, resync)
           k == [gate[g] EXCEPT !.at = "polling"]
<1>1. /\ gate[g] \in Gates /\ gate[g].at = "waiting" /\ OfKey(g)
      /\ gate' = [gate EXCEPT ![g] = k]
      /\ refresh' = [refresh EXCEPT ![g] = r]
      /\ UNCHANGED <<present, ready, required>>
  BY <1>0, RefreshTyped DEF PollHub, world
<1>2. /\ r \in Refreshes /\ r.at = "delete" /\ r.left = gate[g].wants /\ BlamesStrangers(r)
  BY <1>1, RefreshTyped DEF Asked, NoRefresh, Gates, BlamesStrangers
<1>3. /\ k \in Gates /\ k.at = "polling" /\ k.wants = gate[g].wants /\ k.items = gate[g].items
      /\ k.crossed = gate[g].crossed /\ BlamesStrangers(k)
  BY <1>1 DEF Gates, OfKey, BlamesStrangers
<1> HIDE DEF r, k
<1>4. refresh'[g] = r /\ gate'[g] = k /\ gate' \in [Keys -> Gates]
  BY <1>1, <1>3, RefreshTyped DEF GateInv, GateTypes
<1>5. OfKey(g)'
  BY <1>1, <1>2, <1>3, <1>4
     DEF OfKey, RefreshOfGate, RowsAreOwn, AnswerIsOwn, Rewriting, BlamesStrangers
<1> QED BY <1>1, <1>2, <1>4, <1>5, RefreshTyped, OneRefresh DEF GateInv, GateTypes


(* A handler of the hub goes on, or ends, on its own.                      *)
LEMMA HandlerGoesOn ==
    ASSUME GateInv, NEW c \in Callers, NEW r \in Refreshes,
           refresh[c].at # "none",
           refresh' = [refresh EXCEPT ![c] = r], UNCHANGED <<present, ready, required, gate>>,
           r.at \notin {"insert", "delete"},
           r.at \in {"sync", "reread"} => refresh[c].at \in {"insert", "sync"},
           r.at \notin {"none", "failed"} => r.crossed = refresh[c].crossed,
           c \in Keys => r.at # "none" /\ BlamesStrangers(r),
           c \in Keys /\ r.at \in {"sync", "reread", "done"} /\ ~r.crossed
             => required = gate[c].wants,
           c \in Keys /\ r.at = "done" /\ ~r.crossed => r.items = required
    PROVE  GateInv'
<1>1. gate' \in [Keys -> Gates] /\ \A g \in Keys : gate'[g] = gate[g]
  BY DEF GateInv, GateTypes
<1>2. refresh'[c] = r
  BY DEF GateInv, GateTypes
<1>3. r.at \in {"insert", "sync", "reread"} => c \in Rewriting /\ r.crossed = refresh[c].crossed
  BY DEF Rewriting
<1>4. ASSUME c \in Keys PROVE OfKey(c)'
  <2>1. OfKey(c)
    BY <1>4, RefreshTyped
  <2> QED BY <1>1, <1>2, <1>4, <2>1
          DEF OfKey, BlamesStrangers, RefreshOfGate, RowsAreOwn, AnswerIsOwn, Rewriting
<1> QED BY <1>1, <1>3, <1>4, OneRefresh

LEMMA FailedTyped ==
    ASSUME GateInv, NEW c \in Callers
    PROVE  /\ Failed(c) \in Refreshes /\ Failed(c).at \in {"none", "failed"}
           /\ c \in Keys => Failed(c).at = "failed" /\ BlamesStrangers(Failed(c))
<1>1. Failed(c) = [NoRefresh EXCEPT !.at = IF c = "panel" THEN "none" ELSE "failed"]
  BY DEF Failed
<1>2. c \in Keys => c # "panel"
  BY StartGateAssumption
<1> QED BY <1>1, <1>2, RefreshTyped DEF NoRefresh, Refreshes, BlamesStrangers

LEMMA RefreshFailsInv ==
    ASSUME GateInv, NEW c \in Callers, RefreshFails(c)
    PROVE  GateInv'
<1>1. /\ refresh' = [refresh EXCEPT ![c] = Failed(c)] /\ refresh[c].at # "none"
      /\ UNCHANGED <<present, ready, required, gate>>
  BY DEF RefreshFails, world
<1> QED BY <1>1, FailedTyped, HandlerGoesOn

(* What a read of the rows makes of the handler.                           *)
LEMMA ReadTyped ==
    ASSUME GateInv, NEW c \in Callers
    PROVE  LET r == Read(refresh[c]) IN
           /\ r \in Refreshes /\ r.at = "done" /\ r.items = required
           /\ r.crossed = refresh[c].crossed
           /\ c \in Keys => BlamesStrangers(r)
<1>1. refresh[c] \in Refreshes /\ (c \in Keys => BlamesStrangers(refresh[c]))
  BY RefreshTyped DEF OfKey
<1>2. required \subseteq Content
  BY DEF GateInv, GateTypes
<1> QED BY <1>1, <1>2 DEF Read, Refreshes, BlamesStrangers

LEMMA ReadReadinessInv ==
    ASSUME GateInv, NEW c \in Callers, ReadReadiness(c)
    PROVE  GateInv'
<1>1. /\ refresh[c].at = "insert" /\ refresh[c].left = {}
      /\ UNCHANGED <<present, ready, required, gate>>
  BY DEF ReadReadiness, world
<1>2. CASE c = "panel"
  <2>1. refresh' = [refresh EXCEPT ![c] = NoRefresh] /\ c \notin Keys
    BY <1>2, StartGateAssumption DEF ReadReadiness
  <2>2. NoRefresh \in Refreshes /\ NoRefresh.at = "none"
    BY RefreshTyped DEF NoRefresh
  <2> HIDE DEF NoRefresh
  <2> QED BY <1>1, <2>1, <2>2, HandlerGoesOn
<1>3. CASE c # "panel"
  <2>1. c \in Keys /\ (~refresh[c].crossed => required = gate[c].wants)
    BY <1>1, <1>3, RefreshTyped DEF OfKey, RowsAreOwn, Rewriting, Callers
  <2>2. CASE refresh' = [refresh EXCEPT ![c] = Read(refresh[c])]
    BY <1>1, <2>1, <2>2, ReadTyped, HandlerGoesOn
  <2>3. CASE refresh' = [refresh EXCEPT ![c] = [refresh[c] EXCEPT !.at = "sync"]]
    <3> DEFINE r == [refresh[c] EXCEPT !.at = "sync"]
    <3>1. refresh[c] \in Refreshes /\ BlamesStrangers(refresh[c])
      BY <2>1, RefreshTyped DEF OfKey
    <3>2. r \in Refreshes /\ r.at = "sync" /\ r.crossed = refresh[c].crossed /\ BlamesStrangers(r)
      BY <3>1 DEF Refreshes, BlamesStrangers
    <3>3. refresh' = [refresh EXCEPT ![c] = r]
      BY <2>3
    <3> HIDE DEF r
    <3> QED BY <1>1, <2>1, <3>2, <3>3, HandlerGoesOn
  <2> QED BY <1>3, <2>2, <2>3 DEF ReadReadiness
<1> QED BY <1>2, <1>3

LEMMA ReadAgainInv ==
    ASSUME GateInv, NEW c \in Callers, ReadAgain(c)
    PROVE  GateInv'
<1>1. /\ refresh[c].at = "reread" /\ UNCHANGED <<present, ready, required, gate>>
      /\ refresh' = [refresh EXCEPT ![c] = Read(refresh[c])]
  BY DEF ReadAgain, world
<1>2. c \in Keys => (~refresh[c].crossed => required = gate[c].wants)
  BY <1>1, RefreshTyped DEF OfKey, RowsAreOwn, Rewriting, Callers
<1> QED BY <1>1, <1>2, ReadTyped, HandlerGoesOn

LEMMA SyncMissingInv ==
    ASSUME GateInv, NEW c \in Callers, SyncMissing(c)
    PROVE  GateInv'
<1>0. PICK errors \in SUBSET Missing :
         refresh' = [refresh EXCEPT ![c] =
                       [refresh[c] EXCEPT !.at = "reread", !.errors = errors, !.fatal = Fatal]]
  BY DEF SyncMissing
<1> DEFINE r == [refresh[c] EXCEPT !.at = "reread", !.errors = errors, !.fatal = Fatal]
<1>1. /\ refresh[c].at = "sync" /\ UNCHANGED <<present, ready, required, gate>>
      /\ refresh' = [refresh EXCEPT ![c] = r]
      /\ refresh[c] \in Refreshes /\ required \subseteq Content
      /\ c \in Keys => BlamesStrangers(refresh[c])
  BY <1>0, RefreshTyped DEF SyncMissing, OfKey, GateInv, GateTypes
<1>2. r \in Refreshes /\ r.at = "reread" /\ r.crossed = refresh[c].crossed
      /\ (c \in Keys => BlamesStrangers(r))
  BY <1>1 DEF Refreshes, BlamesStrangers, Missing, Fatal
<1>3. c \in Keys => (~refresh[c].crossed => required = gate[c].wants)
  BY <1>1, RefreshTyped DEF OfKey, RowsAreOwn, Rewriting, Callers
<1> HIDE DEF r
<1> QED BY <1>1, <1>2, <1>3, HandlerGoesOn


(* The DELETE makes every refresh it falls into a crossed one, so whoever  *)
(* is not crossed afterwards is alone.                                     *)
LEMMA DeleteRowsInv ==
    ASSUME GateInv, NEW c \in Callers, DeleteRows(c)
    PROVE  GateInv'
<1> DEFINE r == [refresh[c] EXCEPT !.at = "insert", !.crossed = Rewriting # {}]
           over(d) == [refresh[d] EXCEPT !.crossed = TRUE]
<1>1. /\ refresh[c].at = "delete" /\ required' = {}
      /\ refresh' = [d \in Callers |-> IF d = c THEN r
                        ELSE IF d \in Rewriting THEN over(d) ELSE refresh[d]]
      /\ UNCHANGED <<present, ready, gate>> /\ c \notin Rewriting
  BY DEF DeleteRows, world, Rewriting
<1>2. /\ r \in Refreshes /\ r.at = "insert" /\ (r.crossed <=> Rewriting # {})
      /\ r.left = refresh[c].left /\ (BlamesStrangers(refresh[c]) => BlamesStrangers(r))
  <2>1. refresh[c] \in Refreshes /\ (Rewriting # {}) \in BOOLEAN
    BY RefreshTyped
  <2> HIDE DEF Rewriting
  <2> QED BY <2>1 DEF Refreshes, BlamesStrangers
<1>3. ASSUME NEW d \in Callers
      PROVE  /\ over(d) \in Refreshes /\ over(d).at = refresh[d].at /\ over(d).crossed
             /\ over(d).left = refresh[d].left
             /\ BlamesStrangers(refresh[d]) => BlamesStrangers(over(d))
  <2>1. refresh[d] \in Refreshes
    BY RefreshTyped
  <2> QED BY <2>1 DEF Refreshes, BlamesStrangers
<1> HIDE DEF r, over
<1>4. refresh' \in [Callers -> Refreshes]
  BY <1>1, <1>2, <1>3, RefreshTyped
<1>5. /\ refresh'[c] = r
      /\ \A d \in Rewriting : refresh'[d] = over(d)
      /\ \A d \in Callers : d \notin Rewriting /\ d # c => refresh'[d] = refresh[d]
      /\ Rewriting' = Rewriting \cup {c}
  <2>1. \A d \in Callers : refresh'[d] = IF d = c THEN r
                        ELSE IF d \in Rewriting THEN over(d) ELSE refresh[d]
    BY <1>1, <1>4
  <2> QED BY <1>1, <1>2, <1>3, <2>1 DEF Rewriting
<1>6. GateTypes'
  BY <1>1, <1>4 DEF GateInv, GateTypes
<1>7. Alone'
  <2>1. Rewriting \subseteq Callers
    BY DEF Rewriting
  <2> QED BY <1>2, <1>3, <1>5, <2>1 DEF Alone
<1>8. ASSUME NEW g \in Keys PROVE OfKey(g)'
  <2>1. OfKey(g) /\ gate'[g] = gate[g] /\ g \in Callers
    BY <1>1, RefreshTyped
  <2>2. CASE g = c
    BY <1>1, <1>2, <1>5, <2>1, <2>2
       DEF OfKey, BlamesStrangers, RefreshOfGate, RowsAreOwn, AnswerIsOwn
  <2>3. CASE g \in Rewriting
    BY <1>1, <1>3, <1>5, <2>1, <2>3
       DEF OfKey, BlamesStrangers, RefreshOfGate, RowsAreOwn, AnswerIsOwn
  <2>4. CASE g # c /\ g \notin Rewriting
    BY <1>1, <1>5, <2>1, <2>4
       DEF OfKey, BlamesStrangers, RefreshOfGate, RowsAreOwn, AnswerIsOwn
  <2> QED BY <2>2, <2>3, <2>4
<1> QED BY <1>6, <1>7, <1>8 DEF GateInv

LEMMA InsertRowInv ==
    ASSUME GateInv, NEW c \in Callers, InsertRow(c)
    PROVE  GateInv'
<1>0. PICK slug \in refresh[c].left :
         IF slug \in required
         THEN refresh' = [refresh EXCEPT ![c] = Failed(c)] /\ UNCHANGED required
         ELSE /\ refresh' = [refresh EXCEPT ![c].left = @ \ {slug}]
              /\ required' = required \cup {slug}
  BY DEF InsertRow
<1>1. refresh[c].at = "insert" /\ UNCHANGED <<present, ready, gate>>
  BY DEF InsertRow, world
<1>2. CASE slug \in required
  <2>1. refresh' = [refresh EXCEPT ![c] = Failed(c)] /\ UNCHANGED required
    BY <1>0, <1>2
  <2> QED BY <1>1, <2>1, FailedTyped, HandlerGoesOn
<1>3. CASE slug \notin required
  <2> DEFINE r == [refresh[c] EXCEPT !.left = refresh[c].left \ {slug}]
  <2>1. /\ refresh' = [refresh EXCEPT ![c] = r] /\ required' = required \cup {slug}
        /\ refresh[c] \in Refreshes
    BY <1>0, <1>3, RefreshTyped
  <2>2. /\ r \in Refreshes /\ r.at = "insert" /\ r.left = refresh[c].left \ {slug}
        /\ r.crossed = refresh[c].crossed /\ r.items = refresh[c].items
        /\ (BlamesStrangers(refresh[c]) => BlamesStrangers(r))
    BY <1>1, <2>1 DEF Refreshes, BlamesStrangers
  <2>3. slug \in Content
    BY <2>1 DEF Refreshes
  <2> HIDE DEF r
  <2>4. /\ refresh'[c] = r /\ \A d \in Callers : d # c => refresh'[d] = refresh[d]
        /\ refresh' \in [Callers -> Refreshes]
    BY <2>1, <2>2 DEF GateInv, GateTypes
  <2>5. GateTypes'
    BY <1>1, <2>1, <2>3, <2>4 DEF GateInv, GateTypes
  <2>6. Rewriting' = Rewriting /\ c \in Rewriting /\ Rewriting \subseteq Callers
    BY <1>1, <2>2, <2>4 DEF Rewriting
  <2>7. Alone'
    BY <2>2, <2>4, <2>6 DEF Alone, GateInv
  <2>8. ASSUME NEW g \in Keys PROVE OfKey(g)'
    <3>1. OfKey(g) /\ gate'[g] = gate[g] /\ g \in Callers
      BY <1>1, RefreshTyped
    <3>2. CASE g = c
      BY <1>1, <2>1, <2>2, <2>4, <2>6, <3>1, <3>2
         DEF OfKey, BlamesStrangers, RefreshOfGate, RowsAreOwn, AnswerIsOwn
    <3>3. CASE g # c
      <4>1. g \in Rewriting => refresh[g].crossed
        BY <2>6, <3>3 DEF GateInv, Alone
      <4> QED BY <1>1, <2>4, <2>6, <3>1, <3>3, <4>1
              DEF OfKey, BlamesStrangers, RefreshOfGate, RowsAreOwn, AnswerIsOwn
    <3> QED BY <3>2, <3>3
  <2> QED BY <2>5, <2>7, <2>8 DEF GateInv
<1> QED BY <1>2, <1>3

(* What a gate goes by, unless it is crossed, is what it asked for.        *)
LEMMA KnownIsOwn ==
    ASSUME GateInv, NEW g \in Keys, HubAnswered(g)
    PROVE  /\ Known(g) \in Gates /\ Known(g).wants = gate[g].wants
           /\ BlamesStrangers(Known(g))
           /\ ~Known(g).crossed => Known(g).items = gate[g].wants
<1>1. /\ gate[g] \in Gates /\ refresh[g] \in Refreshes /\ OfKey(g)
      /\ gate[g].at \in {"asking", "polling"} /\ refresh[g].at \in {"done", "failed"}
  BY RefreshTyped DEF HubAnswered
<1>2. CASE refresh[g].at = "failed" /\ gate[g].at = "asking"
  <2>1. Known(g) = [gate[g] EXCEPT !.items = gate[g].wants]
    BY <1>2 DEF Known
  <2> QED BY <1>1, <1>2, <2>1 DEF Gates, OfKey, BlamesStrangers
<1>3. CASE refresh[g].at = "failed" /\ gate[g].at = "polling"
  <2>1. Known(g) = gate[g]
    BY <1>3 DEF Known
  <2> QED BY <1>1, <1>3, <2>1 DEF OfKey, AnswerIsOwn
<1>4. CASE refresh[g].at = "done"
  <2> DEFINE fatal == IF refresh[g].errors # {} THEN refresh[g].fatal ELSE gate[g].fatal
  <2>1. Known(g) = [gate[g] EXCEPT !.items = refresh[g].items, !.unknown = refresh[g].unknown,
                                   !.crossed = refresh[g].crossed, !.fatal = fatal]
    BY <1>1, <1>4 DEF Known, Gates
  <2>2. /\ fatal \subseteq Content /\ fatal \cap (Catalogued \ Refused) = {}
        /\ refresh[g].items \subseteq Content /\ refresh[g].unknown \subseteq Content
        /\ refresh[g].unknown \cap (Catalogued \ Refused) = {} /\ refresh[g].crossed \in BOOLEAN
        /\ (~refresh[g].crossed => refresh[g].items = gate[g].wants)
    BY <1>1, <1>4 DEF OfKey, BlamesStrangers, AnswerIsOwn, Gates, Refreshes
  <2> HIDE DEF fatal
  <2> QED BY <1>1, <2>1, <2>2 DEF Gates, BlamesStrangers
<1> QED BY <1>1, <1>2, <1>3, <1>4


LEMMA JudgedInv ==
    ASSUME GateInv, NEW g \in Keys, NEW k \in Gates,
           gate' = [gate EXCEPT ![g] = k],
           refresh' = [refresh EXCEPT ![g] = NoRefresh] \/
             (refresh[g].at = "none" /\ UNCHANGED refresh),
           UNCHANGED <<present, ready, required>>,
           k.at \in {"idle", "waiting"}, BlamesStrangers(k),
           k.at = "waiting" /\ ~k.crossed => k.items = k.wants
    PROVE  GateInv'
<1>1. PICK r \in Refreshes : refresh' = [refresh EXCEPT ![g] = r] /\ r.at = "none"
                             /\ BlamesStrangers(r)
  <2>1. CASE refresh' = [refresh EXCEPT ![g] = NoRefresh]
    <3>1. NoRefresh \in Refreshes /\ NoRefresh.at = "none" /\ BlamesStrangers(NoRefresh)
      BY RefreshTyped DEF NoRefresh, BlamesStrangers
    <3> QED BY <2>1, <3>1, Zenon
  <2>2. CASE refresh[g].at = "none" /\ UNCHANGED refresh
    <3>1. refresh' = [refresh EXCEPT ![g] = refresh[g]] /\ refresh[g] \in Refreshes
      BY <2>2, RefreshTyped DEF GateInv, GateTypes
    <3>2. BlamesStrangers(refresh[g])
      BY RefreshTyped DEF OfKey
    <3> QED BY <2>2, <3>1, <3>2, Zenon
  <2> QED BY <2>1, <2>2
<1>2. refresh'[g] = r /\ gate'[g] = k /\ gate' \in [Keys -> Gates]
  BY <1>1, RefreshTyped DEF GateInv, GateTypes
<1>3. OfKey(g)'
  BY <1>1, <1>2 DEF OfKey, BlamesStrangers, RefreshOfGate, RowsAreOwn, AnswerIsOwn, Rewriting
<1> QED BY <1>1, <1>2, <1>3, RefreshTyped, OneRefresh DEF GateInv, GateTypes

LEMMA GateStepsInv ==
    ASSUME GateInv, NEW g \in Keys,
           GateOpens(g) \/ GateRefuses(g) \/ GateWaits(g) \/ GateExpires(g)
    PROVE  GateInv'
<1>1. NoGate \in Gates /\ NoGate.at = "idle" /\ BlamesStrangers(NoGate)
  BY RefreshTyped DEF NoGate, BlamesStrangers
<1>2. CASE GateOpens(g) \/ GateRefuses(g)
  <2>1. /\ gate' = [gate EXCEPT ![g] = NoGate] /\ refresh' = [refresh EXCEPT ![g] = NoRefresh]
        /\ UNCHANGED <<present, ready, required>>
    BY <1>2 DEF GateOpens, GateRefuses, JudgedAs, world
  <2> HIDE DEF NoGate, NoRefresh
  <2> QED BY <1>1, <2>1, JudgedInv
<1>3. CASE GateExpires(g)
  <2>1. /\ gate' = [gate EXCEPT ![g] = NoGate] /\ gate[g].at = "waiting"
        /\ UNCHANGED <<present, ready, required, refresh>>
    BY <1>3 DEF GateExpires, world
  <2>2. refresh[g].at = "none"
    BY <2>1, RefreshTyped DEF OfKey, RefreshOfGate
  <2> HIDE DEF NoGate, NoRefresh
  <2> QED BY <1>1, <2>1, <2>2, JudgedInv
<1>4. CASE GateWaits(g)
  <2> DEFINE k == [Known(g) EXCEPT !.at = "waiting"]
  <2>1. /\ HubAnswered(g) /\ gate' = [gate EXCEPT ![g] = k]
        /\ refresh' = [refresh EXCEPT ![g] = NoRefresh]
        /\ UNCHANGED <<present, ready, required>>
    BY <1>4 DEF GateWaits, JudgedAs, world
  <2>2. /\ k \in Gates /\ k.at = "waiting" /\ BlamesStrangers(k)
        /\ (~k.crossed => k.items = k.wants)
    BY <2>1, KnownIsOwn DEF Gates, BlamesStrangers
  <2> HIDE DEF k, NoRefresh
  <2> QED BY <2>1, <2>2, JudgedInv
<1> QED BY <1>2, <1>3, <1>4

LEMMA GateNextInv ==
    ASSUME GateInv, GateNext
    PROVE  GateInv'
<1>1. CASE \E wants \in Lists \ {{}} :
              PanelRefreshes(wants) \/ \E g \in Keys : AskStart(g, wants)
  BY <1>1, PanelAsksInv, AskStartInv, StartGateAssumption
<1>2. CASE \E c \in Callers : \/ DeleteRows(c) \/ InsertRow(c) \/ ReadReadiness(c)
                              \/ SyncMissing(c) \/ ReadAgain(c) \/ RefreshFails(c)
  BY <1>2, DeleteRowsInv, InsertRowInv, ReadReadinessInv, SyncMissingInv, ReadAgainInv,
     RefreshFailsInv
<1>3. CASE \E g \in Keys : \/ PollHub(g) \/ GateOpens(g) \/ GateRefuses(g)
                            \/ GateWaits(g) \/ GateExpires(g)
  BY <1>3, PollInv, GateStepsInv
<1>4. CASE PanelSyncs \/ StopsServer
  <2>1. UNCHANGED <<required, refresh, gate, present, ready>>
    BY <1>4 DEF PanelSyncs, StopsServer, world
  <2> QED BY <2>1, WorldChanges DEF GateInv, GateTypes
<1>5. CASE \E slug \in Content : \/ InstallEnds(slug) \/ InstallBreaks(slug)
                                 \/ PanelDeletesContent(slug)
                                 \/ AskRemoval(slug) \/ AskRemovalUnaware(slug)
                                 \/ RemovalEnds(slug)
  <2>1. /\ UNCHANGED <<required, refresh, gate>>
        /\ present' \subseteq Content /\ ready' \subseteq Content
    BY <1>5 DEF InstallEnds, InstallBreaks, PanelDeletesContent, AskRemoval,
                AskRemovalUnaware, RemovalEnds, world, server, GateInv, GateTypes
  <2> QED BY <2>1, WorldChanges
<1> QED BY <1>1, <1>2, <1>3, <1>4, <1>5 DEF GateNext

THEOREM GateInvariant == HubModsSpec => []GateInv
<1>1. HubModsInit => GateInv
  <2> SUFFICES ASSUME HubModsInit PROVE GateInv
    OBVIOUS
  <2>1. /\ present \subseteq Content /\ ready = present /\ required = {}
        /\ refresh = [c \in Callers |-> NoRefresh] /\ gate = [g \in Keys |-> NoGate]
    BY DEF HubModsInit, GateInit
  <2>2. /\ NoRefresh \in Refreshes /\ NoRefresh.at = "none" /\ BlamesStrangers(NoRefresh)
        /\ NoGate \in Gates /\ NoGate.at = "idle" /\ BlamesStrangers(NoGate)
    BY DEF NoRefresh, NoGate, Refreshes, Gates, BlamesStrangers
  <2>3. GateTypes /\ Rewriting = {}
    BY <2>1, <2>2 DEF GateTypes, Rewriting
  <2>4. \A g \in Keys : refresh[g] = NoRefresh /\ gate[g] = NoGate
    BY <2>1 DEF Callers
  <2> QED BY <2>2, <2>3, <2>4
          DEF GateInv, Alone, OfKey, RefreshOfGate, RowsAreOwn, AnswerIsOwn
<1>2. GateInv /\ [HubModsNext]_hubModsVars => GateInv'
  <2> SUFFICES ASSUME GateInv, [HubModsNext]_hubModsVars PROVE GateInv'
    OBVIOUS
  <2>1. CASE GateNext
    BY <2>1, GateNextInv
  <2>2. CASE UNCHANGED gateVars
    BY <2>2, WorldChanges DEF gateVars, GateInv, GateTypes
  <2> QED BY <2>1, <2>2 DEF HubModsNext, hubModsVars
<1> QED BY <1>1, <1>2, PTL DEF HubModsSpec

(* ensureModsReadyForServerStart: whatever other starts and dialogs make of *)
(* the rows, a start whose refresh none of them crossed goes ahead only    *)
(* with all it asked for in the folder, and is refused only for what is    *)
(* not there and has no artifact the hub may distribute.                   *)
THEOREM StartsAreJudged == HubModsSpec => JudgedByOwnContent
<1> DEFINE Just(g) == ~Known(g).crossed =>
                        /\ GateOpens(g) => gate[g].wants \subseteq present
                        /\ GateRefuses(g) =>
                             ~(gate[g].wants \subseteq present \cup (Catalogued \ Refused))
<1>1. GateInv => \A g \in Keys : Just(g)
  <2> SUFFICES ASSUME GateInv, NEW g \in Keys, ~Known(g).crossed PROVE Just(g)
    OBVIOUS
  <2>1. CASE HubAnswered(g)
    <3>1. Known(g).items = gate[g].wants /\ BlamesStrangers(Known(g))
      BY <2>1, KnownIsOwn
    <3>2. Unresolved(Known(g)) = gate[g].wants \ present
      BY <3>1 DEF Unresolved
    <3>3. Blockers(Known(g)) \subseteq (gate[g].wants \ present) \ (Catalogued \ Refused)
      BY <3>1, <3>2 DEF Blockers, BlamesStrangers
    <3> HIDE DEF HubAnswered
    <3> QED BY <3>2, <3>3 DEF GateOpens, GateRefuses
  <2>2. CASE ~HubAnswered(g)
    BY <2>2 DEF GateOpens, GateRefuses
  <2> QED BY <2>1, <2>2
<1>2. GateInv /\ [HubModsNext]_hubModsVars => [\A g \in Keys : Just(g)]_gateVars
  BY <1>1
<1> HIDE DEF Just
<1>3. HubModsSpec => [][\A g \in Keys : Just(g)]_gateVars
  BY <1>2, GateInvariant, PTL DEF HubModsSpec
<1> QED BY <1>3, PTL DEF JudgedByOwnContent, Just


-----------------------------------------------------------------------------
(* The library *)

Archives == {NoSha} \cup Shas

Kinds == {"none", "library", "zip", "edge", "adopt"}

(* The places of a request before it has a session, and after.             *)
Before == {"idle", "unpacking", "looking", "linking", "allocating", "planning", "adopting"}
UploadPlaces == Before \cup {"open", "done", "failed"}

UploadRecords ==
    [at : UploadPlaces, kind : Kinds, mode : {"admin", "control"}, tree : Trees,
     slug : Slugs, pkg : Nat, open : BOOLEAN, staged : SUBSET Paths,
     dir : {"none", "building", "whole", "wiped"}, gz : Archives]

CommitPlaces ==
    {"none", "building", "verified", "packed", "exists", "stored", "merging", "linking",
     "marking", "ended"}

CommitRecords == [at : CommitPlaces, sha : Archives, pkg : Nat, rest : SUBSET Paths]

PromoteRecords ==
    [at : {"none", "looking", "pulling", "packed", "exists", "stored"}, pkg : Nat,
     tree : Trees, sha : Archives]

Rows == [pkg : Nat, tree : Trees, s3 : Archives, folder : BOOLEAN, ready : BOOLEAN]

Objects == {NoObject} \cup [bytes : Archives, meta : Archives]

StoreTypes ==
    /\ packages \in [Slugs -> Nat] /\ issued \in Nat /\ folder \in Trees
    /\ arts \subseteq Rows /\ bucket \in [Trees -> Objects] /\ lost \subseteq Trees
    /\ purge \in [at : {"none", "counting", "reading", "folder", "objects", "rows"},
                  pkg : Nat, keys : SUBSET Trees]

RequestTypes ==
    /\ up \in [Uploads -> UploadRecords] /\ com \in [Uploads -> [Commits -> CommitRecords]]
    /\ pr \in [Promotes -> PromoteRecords]

(* A package has one row per tree.                                         *)
OneRow == \A a, b \in arts : a.pkg = b.pkg /\ a.tree = b.tree => a = b

HasHash == \A t \in Trees : Stored(t) => bucket[t].meta # NoSha

(* The object of a tree is the one with this hash, or a purge had it.      *)
IsStored(t, sha) == t \in lost \/ (Stored(t) /\ bucket[t].meta = sha)

(* A package still offers a tree, or a purge had it.                       *)
Offered(pkg, t) == t \in lost \/ \E a \in InLibrary(t) : a.pkg = pkg

(* A request has no commits before it has a session.                       *)
CommitsFollow(u) ==
    up[u].at \in Before => ~up[u].open /\ \A k \in Commits : com[u][k].at = "none"

FromHub(u) == up[u].kind \in {"library", "zip"}

(* Requests of an edge go their own way from the start.                    *)
EdgeOnly(u) == up[u].at \in {"planning", "adopting"} => ~FromHub(u)

CommitHolds(u, k) ==
    /\ com[u][k].at = "packed" => com[u][k].sha # NoSha
    /\ com[u][k].at = "stored" /\ FromHub(u)
         => com[u][k].sha # NoSha /\ IsStored(up[u].tree, com[u][k].sha)
    /\ com[u][k].at = "linking" => Offered(com[u][k].pkg, up[u].tree)
    /\ com[u][k].at \in {"merging", "marking"} => ~FromHub(u)

PromoteHolds(p) ==
    /\ pr[p].at \in {"packed", "exists", "stored"} => pr[p].sha # NoSha
    /\ pr[p].at = "stored" => IsStored(pr[p].tree, pr[p].sha)

(* AckedIsServed, but for the object.                                      *)
Listed(u, t, mode) ==
    \/ t \in lost
    \/ \E a \in InLibrary(t) : mode = "control" => u \in left \/ <<u, a.pkg>> \in links

(* The catalog and the bucket agree.                                       *)
StoreInv ==
    /\ StoreTypes /\ OneRow /\ HasHash
    /\ \A a \in arts : a.s3 # NoSha => IsStored(a.tree, a.s3)

UploadHolds(u) ==
    /\ CommitsFollow(u) /\ EdgeOnly(u)
    /\ up[u].at = "linking" => Offered(up[u].pkg, up[u].tree)
    /\ up[u].at = "done" /\ FromHub(u) => Listed(u, up[u].tree, up[u].mode)
    /\ \A k \in Commits : CommitHolds(u, k)

LibraryInv ==
    /\ RequestTypes /\ StoreInv
    /\ \A u \in Uploads : UploadHolds(u)
    /\ \A p \in Promotes : PromoteHolds(p)

(* What a step leaves to those it does not concern.                        *)
Grows ==
    /\ \A t \in Trees, sha \in Archives : IsStored(t, sha) => IsStored(t, sha)'
    /\ \A pkg \in Nat, t \in Trees : Offered(pkg, t) => Offered(pkg, t)'
    /\ \A u \in Uploads, t \in Trees, mode \in {"admin", "control"} :
          Listed(u, t, mode) => Listed(u, t, mode)'

(* A row may change but keeps its package and tree, and a hash once it has *)
(* one.                                                                    *)
RowsStay ==
    \A a \in arts : \E b \in arts' : b.pkg = a.pkg /\ b.tree = a.tree
                                     /\ (a.s3 # NoSha => b.s3 # NoSha)

LEMMA TablesGrow ==
    ASSUME RowsStay, lost \subseteq lost', left \subseteq left', links \subseteq links',
           \A t \in Trees : \/ t \in lost' \/ bucket'[t] = bucket[t] \/ ~Stored(t)
    PROVE  Grows
<1>1. ASSUME NEW t \in Trees, NEW sha \in Archives, IsStored(t, sha) PROVE IsStored(t, sha)'
  BY <1>1 DEF IsStored, Stored
<1>2. ASSUME NEW t, NEW a \in InLibrary(t) PROVE \E b \in InLibrary(t)' : b.pkg = a.pkg
  BY <1>2, Zenon DEF RowsStay, InLibrary
<1>3. ASSUME NEW pkg \in Nat, NEW t \in Trees, Offered(pkg, t) PROVE Offered(pkg, t)'
  BY <1>2, <1>3 DEF Offered
<1>4. ASSUME NEW u \in Uploads, NEW t \in Trees, NEW mode \in {"admin", "control"},
             Listed(u, t, mode)
      PROVE  Listed(u, t, mode)'
  BY <1>2, <1>4 DEF Listed
<1> QED BY <1>1, <1>3, <1>4 DEF Grows

LEMMA NothingStored ==
    ASSUME UNCHANGED <<arts, bucket, lost, left, links>>
    PROVE  Grows
<1>1. RowsStay
  BY DEF RowsStay
<1> QED BY <1>1, TablesGrow

(* What a step must show: the store, and the requests and promotions it    *)
(* concerns.                                                               *)
LEMMA LibraryStep ==
    ASSUME LibraryInv, RequestTypes', StoreInv', Grows,
           \A v \in Uploads : (up'[v] = up[v] /\ com'[v] = com[v]) \/ UploadHolds(v)',
           \A p \in Promotes : pr'[p] = pr[p] \/ PromoteHolds(p)'
    PROVE  LibraryInv'
<1>1. ASSUME NEW v \in Uploads, up'[v] = up[v], com'[v] = com[v] PROVE UploadHolds(v)'
  <2>1. /\ UploadHolds(v) /\ up'[v] = up[v] /\ com'[v] = com[v]
        /\ up[v] \in UploadRecords /\ com[v] \in [Commits -> CommitRecords]
    BY <1>1 DEF LibraryInv, RequestTypes
  <2>2. /\ up[v].tree \in Trees /\ up[v].pkg \in Nat /\ up[v].mode \in {"admin", "control"}
        /\ \A k \in Commits : com[v][k].pkg \in Nat /\ com[v][k].sha \in Archives
    BY <2>1 DEF UploadRecords, CommitRecords
  <2>3. \A k \in Commits : CommitHolds(v, k)'
    BY <2>1, <2>2, Zenon DEF UploadHolds, CommitHolds, Grows, FromHub
  <2>4. CommitsFollow(v)' /\ EdgeOnly(v)' /\ (up[v].at = "linking" => Offered(up[v].pkg, up[v].tree)')
        /\ (up[v].at = "done" /\ FromHub(v) => Listed(v, up[v].tree, up[v].mode)')
    BY <2>1, <2>2, Zenon DEF UploadHolds, CommitsFollow, Grows, EdgeOnly, FromHub
  <2> QED BY <2>1, <2>3, <2>4, Zenon DEF UploadHolds, FromHub
<1>2. ASSUME NEW p \in Promotes PROVE PromoteHolds(p)'
  <2>1. PromoteHolds(p) /\ pr[p].tree \in Trees /\ pr[p].sha \in Archives
    BY DEF LibraryInv, RequestTypes, PromoteRecords
  <2> QED BY <2>1, Zenon DEF PromoteHolds, Grows
<1> QED BY <1>1, <1>2 DEF LibraryInv

(* The step of a request or of one of its commits.                         *)
LEMMA RequestStep ==
    ASSUME LibraryInv, NEW u \in Uploads, RequestTypes', StoreInv', Grows,
           \A v \in Uploads : v # u => up'[v] = up[v] /\ com'[v] = com[v],
           \A p \in Promotes : pr'[p] = pr[p] \/ PromoteHolds(p)',
           UploadHolds(u)'
    PROVE  LibraryInv'
<1>1. \A v \in Uploads : (up'[v] = up[v] /\ com'[v] = com[v]) \/ UploadHolds(v)'
  OBVIOUS
<1> QED BY <1>1, LibraryStep

LEMMA LibraryConstants ==
    /\ Empty \in Trees /\ NoSha \in Archives /\ 0 \in Slugs
    /\ NoUpload \in UploadRecords /\ NoCommit \in CommitRecords
    /\ NoPromote \in PromoteRecords /\ NoSha.tree = Empty /\ NoSha.by = <<"nobody", 0>>
    /\ 1 \in Commits /\ \A k \in Commits : k \in Nat /\ k # 0
<1>1. Empty \in Trees /\ 0 \in Slugs
  BY ModLibraryAssumption DEF Empty, Trees, Slugs
<1>2. NoSha \in Archives /\ NoSha.tree = Empty /\ NoSha.by = <<"nobody", 0>>
  BY DEF Archives, NoSha
<1> HIDE DEF Empty, NoSha
<1> QED BY <1>1, <1>2, ModLibraryAssumption
        DEF NoUpload, UploadRecords, NoCommit, CommitRecords, NoPromote, PromoteRecords,
            UploadPlaces, Before, Kinds, CommitPlaces

LEMMA LibraryTyped ==
    ASSUME LibraryInv, NEW u \in Uploads
    PROVE  /\ up[u] \in UploadRecords /\ UploadHolds(u)
           /\ com[u] \in [Commits -> CommitRecords]
           /\ \A k \in Commits : com[u][k] \in CommitRecords
BY DEF LibraryInv, RequestTypes

LEMMA StoreSame ==
    ASSUME LibraryInv, UNCHANGED <<packages, issued, arts, bucket, lost, purge>>,
           folder' \in Trees
    PROVE  StoreInv'
<1>1. StoreInv
  BY DEF LibraryInv
<1>2. StoreTypes'
  BY <1>1 DEF StoreInv, StoreTypes
<1>3. OneRow' /\ HasHash' /\ \A a \in arts' : a.s3 # NoSha => IsStored(a.tree, a.s3)'
  BY <1>1 DEF StoreInv, OneRow, HasHash, IsStored, Stored
<1> QED BY <1>2, <1>3 DEF StoreInv

LEMMA AnsweredIs ==
    ASSUME LibraryInv, NEW u \in Uploads, NEW at \in {"done", "failed"}
    PROVE  /\ Answered(u, at) \in UploadRecords /\ Answered(u, at).at = at
           /\ Answered(u, at).kind = up[u].kind /\ Answered(u, at).mode = up[u].mode
           /\ ~Answered(u, at).open
           /\ at = "done" => Answered(u, at).tree = up[u].tree
<1> DEFINE t == IF at = "done" THEN up[u].tree ELSE Empty
<1>1. /\ up[u].kind \in Kinds /\ up[u].mode \in {"admin", "control"} /\ t \in Trees
  BY LibraryTyped, LibraryConstants DEF UploadRecords
<1>2. Answered(u, at) = [NoUpload EXCEPT !.at = at, !.kind = up[u].kind,
                                         !.mode = up[u].mode, !.tree = t]
  BY DEF Answered
<1>3. at = "done" => t = up[u].tree
  OBVIOUS
<1>4. ~NoUpload.open /\ NoUpload \in UploadRecords
  BY LibraryConstants DEF NoUpload
<1> DEFINE kind == up[u].kind  mode == up[u].mode
<1>5. Answered(u, at) = [at |-> at, kind |-> kind, mode |-> mode, tree |-> t, slug |-> 0,
                         pkg |-> 0, open |-> FALSE, staged |-> {}, dir |-> "none", gz |-> NoSha]
  BY <1>2 DEF NoUpload
<1> HIDE DEF t, kind, mode
<1>6. kind \in Kinds /\ mode \in {"admin", "control"}
  BY <1>1 DEF kind, mode
<1> QED BY <1>1, <1>3, <1>5, <1>6, LibraryConstants DEF UploadRecords, UploadPlaces, kind, mode

(* A request goes on before it has a session.                              *)
LEMMA EarlyStep ==
    ASSUME LibraryInv, NEW u \in Uploads, NEW r \in UploadRecords, up[u].at \in Before,
           up' = [up EXCEPT ![u] = r],
           UNCHANGED <<tables, bucket, folder, com, pr, purge, limits>>,
           r.at \in Before => ~r.open,
           r.at \in {"planning", "adopting"} => r.kind \notin {"library", "zip"},
           r.at = "linking" => Offered(r.pkg, r.tree),
           r.at = "done" /\ r.kind \in {"library", "zip"} => Listed(u, r.tree, r.mode)
    PROVE  LibraryInv'
<1>1. /\ Grows /\ StoreInv'
  <2>1. /\ UNCHANGED <<packages, issued, arts, bucket, lost, purge, left, links>>
        /\ folder' \in Trees
    BY DEF tables, limits, LibraryInv, StoreInv, StoreTypes
  <2> QED BY <2>1, NothingStored, StoreSame
<1>2. RequestTypes' /\ up'[u] = r /\ \A v \in Uploads : v # u => up'[v] = up[v]
  BY DEF LibraryInv, RequestTypes
<1>3. UNCHANGED <<com, pr>> /\ \A k \in Commits : com[u][k].at = "none"
  BY LibraryTyped DEF UploadHolds, CommitsFollow
<1>4. r.tree \in Trees /\ r.pkg \in Nat /\ r.mode \in {"admin", "control"}
  BY DEF UploadRecords
<1>5. UploadHolds(u)'
  BY <1>1, <1>2, <1>3, <1>4 DEF UploadHolds, CommitsFollow, EdgeOnly, CommitHolds, FromHub, Grows
<1> QED BY <1>1, <1>2, <1>3, <1>5, RequestStep


LEMMA LeastSlug ==
    ASSUME FreeSlugs # {}
    PROVE  FirstFree \in Slugs
<1> DEFINE less == {p \in Nat \X Nat : p[1] < p[2]}
<1>0. FreeSlugs \subseteq Nat /\ FreeSlugs \subseteq Slugs
  BY ModLibraryAssumption DEF FreeSlugs, Slugs
<1>1. \E s \in FreeSlugs : \A r \in FreeSlugs : <<r, s>> \notin less
  <2>1. IsWellFoundedOn(less, Nat)
    BY NatLessThanWellFounded, Zenon DEF OpToRel
  <2> HIDE DEF less, FreeSlugs
  <2> QED BY <1>0, <2>1, WFMin
<1>2. PICK s \in FreeSlugs : \A r \in FreeSlugs : ~(r < s)
  BY <1>0, <1>1
<1>3. \A r \in FreeSlugs : s <= r
  <2> HIDE DEF less
  <2> QED BY <1>0, <1>2
<1>4. FirstFree \in FreeSlugs
  BY <1>3, Zenon DEF FirstFree
<1> QED BY <1>0, <1>4

LEMMA ArrivesInv ==
    ASSUME LibraryInv, NEW u \in Uploads, NEW kind \in Kinds,
           NEW at \in Before \ {"linking"}, Arrives(u, kind, at),
           at \in {"planning", "adopting"} => kind \notin {"library", "zip"}
    PROVE  LibraryInv'
<1>1. PICK q \in Requests :
         up' = [up EXCEPT ![u] = [NoUpload EXCEPT !.at = at, !.kind = kind,
                                                  !.mode = q.mode, !.tree = q.tree]]
  BY DEF Arrives
<1> DEFINE mode == q.mode  tree == q.tree
           r == [at |-> at, kind |-> kind, mode |-> mode, tree |-> tree, slug |-> 0,
                 pkg |-> 0, open |-> FALSE, staged |-> {}, dir |-> "none", gz |-> NoSha]
<1>0. up' = [up EXCEPT ![u] = [NoUpload EXCEPT !.at = at, !.kind = kind,
                                                 !.mode = mode, !.tree = tree]]
  BY <1>1, Zenon
<1>3. mode \in {"admin", "control"} /\ tree \in Trees
  BY ModLibraryAssumption
<1> HIDE DEF mode, tree
<1>2. up' = [up EXCEPT ![u] = r]
  <2>1. ASSUME NEW x,
               x = [NoUpload EXCEPT !.at = at, !.kind = kind, !.mode = mode, !.tree = tree]
        PROVE  x = r
    BY <2>1 DEF NoUpload
  <2> HIDE DEF r
  <2> QED BY <1>0, <2>1, Zenon
<1>4. r \in UploadRecords /\ r.at = at /\ r.kind = kind /\ ~r.open
  BY <1>3, LibraryConstants DEF UploadRecords, UploadPlaces
<1> HIDE DEF r
<1>5. /\ up[u].at \in Before
      /\ UNCHANGED <<tables, bucket, folder, com, pr, purge, limits>>
  BY DEF Arrives, Before
<1> QED BY <1>2, <1>4, <1>5, EarlyStep DEF Before

LEMMA EarlyStepsInv ==
    ASSUME LibraryInv, NEW u \in Uploads,
           Unpack(u) \/ Look(u) \/ Allocate(u) \/ EdgePlan(u)
    PROVE  LibraryInv'
<1> DEFINE rest == UNCHANGED <<tables, bucket, folder, com, pr, purge, limits>>
<1>1. /\ rest /\ up[u].at \in Before /\ up[u] \in UploadRecords
      /\ ~up[u].open
  BY LibraryTyped DEF Unpack, Look, Allocate, EdgePlan, Before, UploadHolds, CommitsFollow
<1>a. ASSUME NEW at \in {"looking", "allocating"}, up' = [up EXCEPT ![u].at = at]
      PROVE  LibraryInv'
  <2> DEFINE r == [up[u] EXCEPT !.at = at]
  <2>1. up' = [up EXCEPT ![u] = r]
    BY <1>a
  <2>2. r \in UploadRecords /\ r.at = at /\ ~r.open
    BY <1>1 DEF UploadRecords, UploadPlaces, Before
  <2> HIDE DEF r
  <2> QED BY <1>1, <2>1, <2>2, EarlyStep DEF Before
<1>b. ASSUME up' = [up EXCEPT ![u] = Answered(u, "failed")]
      PROVE  LibraryInv'
  <2>1. Answered(u, "failed") \in UploadRecords /\ Answered(u, "failed").at = "failed"
    BY AnsweredIs
  <2> QED BY <1>1, <1>b, <2>1, EarlyStep DEF Before
<1>c. ASSUME NEW slug \in Slugs,
             up' = [up EXCEPT ![u].at = "open", ![u].open = TRUE, ![u].slug = slug]
      PROVE  LibraryInv'
  <2> DEFINE r == [up[u] EXCEPT !.at = "open", !.open = TRUE, !.slug = slug]
  <2>1. up' = [up EXCEPT ![u] = r]
    BY <1>c DEF LibraryInv, RequestTypes
  <2>2. r \in UploadRecords /\ r.at = "open"
    BY <1>1 DEF UploadRecords, UploadPlaces
  <2> HIDE DEF r
  <2> QED BY <1>1, <2>1, <2>2, EarlyStep DEF Before
<1>2. CASE Unpack(u)
  BY <1>2, <1>a, <1>b DEF Unpack, Before
<1>3. CASE Look(u)
  <2>1. CASE up' = [up EXCEPT ![u].at = "allocating"]
    BY <2>1, <1>a DEF Before
  <2>2. CASE up' # [up EXCEPT ![u].at = "allocating"]
    <3>1. PICK a \in InLibrary(up[u].tree) :
             up' = [up EXCEPT ![u].at = "linking", ![u].pkg = a.pkg]
      BY <1>3, <2>2 DEF Look
    <3> DEFINE pkg == a.pkg
               r == [up[u] EXCEPT !.at = "linking", !.pkg = pkg]
    <3>2. up' = [up EXCEPT ![u] = r]
      BY <3>1 DEF LibraryInv, RequestTypes
    <3>3. pkg \in Nat /\ Offered(pkg, up[u].tree)
      BY DEF LibraryInv, StoreInv, StoreTypes, Rows, InLibrary, Offered
    <3> HIDE DEF pkg
    <3>4. r \in UploadRecords /\ r.at = "linking" /\ ~r.open /\ r.pkg = pkg
          /\ r.tree = up[u].tree
      BY <1>1, <3>3 DEF UploadRecords, UploadPlaces, Before
    <3> HIDE DEF r
    <3> QED BY <1>1, <3>2, <3>3, <3>4, EarlyStep
  <2> QED BY <2>1, <2>2
<1>4. CASE Allocate(u)
  BY <1>4, <1>b, <1>c, LeastSlug DEF Allocate
<1>5. CASE EdgePlan(u)
  <2>1. CASE folder = up[u].tree
    <3>1. up' = [up EXCEPT ![u] = Answered(u, "done")]
      BY <1>5, <2>1 DEF EdgePlan
    <3>2. /\ Answered(u, "done") \in UploadRecords /\ Answered(u, "done").at = "done"
          /\ Answered(u, "done").kind = up[u].kind
      BY AnsweredIs
    <3>3. up[u].kind \notin {"library", "zip"}
      BY <1>5, LibraryTyped DEF UploadHolds, EdgeOnly, FromHub, EdgePlan
    <3> QED BY <3>3, <1>1, <3>1, <3>2, EarlyStep DEF Before
  <2>2. CASE folder # up[u].tree
    <3> DEFINE r == [up[u] EXCEPT !.at = "open", !.open = TRUE]
    <3>1. up' = [up EXCEPT ![u] = r]
      BY <1>5, <2>2 DEF EdgePlan, LibraryInv, RequestTypes
    <3>2. r \in UploadRecords /\ r.at = "open"
      BY <1>1 DEF UploadRecords, UploadPlaces
    <3> HIDE DEF r
    <3> QED BY <1>1, <3>1, <3>2, EarlyStep DEF Before
  <2> QED BY <2>1, <2>2
<1> QED BY <1>2, <1>3, <1>4, <1>5


(* A request that has a session goes on, or one of its commits does.  The  *)
(* tree it is for is forgotten only when nothing works on it.              *)
LEMMA LateStep ==
    ASSUME LibraryInv, NEW u \in Uploads, NEW r \in UploadRecords,
           up' = [up EXCEPT ![u] = r], StoreInv', Grows,
           up[u].at \notin Before, r.at \notin Before,
           r.kind = up[u].kind, r.mode = up[u].mode,
           \/ r.tree = up[u].tree
           \/ r.at = "failed" /\ \A k \in Commits : com'[u][k].at \in {"none", "ended"},
           r.at = "done" /\ FromHub(u) =>
             up[u].at = "done" \/ Listed(u, up[u].tree, up[u].mode)',
           com' \in [Uploads -> [Commits -> CommitRecords]],
           \A v \in Uploads : v # u => com'[v] = com[v],
           \A k \in Commits : com'[u][k] = com[u][k] \/ CommitHolds(u, k)',
           pr' \in [Promotes -> PromoteRecords],
           \A p \in Promotes : pr'[p] = pr[p] \/ PromoteHolds(p)'
    PROVE  LibraryInv'
<1>1. RequestTypes' /\ up'[u] = r /\ \A v \in Uploads : v # u => up'[v] = up[v]
  BY DEF LibraryInv, RequestTypes
<1>2. /\ UploadHolds(u) /\ up[u].tree \in Trees /\ up[u].mode \in {"admin", "control"}
      /\ \A k \in Commits : com[u][k].pkg \in Nat /\ com[u][k].sha \in Archives
  BY LibraryTyped DEF UploadRecords, CommitRecords
<1>3. CommitsFollow(u)' /\ EdgeOnly(u)' /\ r.at # "linking"
  BY <1>1 DEF CommitsFollow, EdgeOnly, Before
<1>4. ASSUME NEW k \in Commits PROVE CommitHolds(u, k)'
  <2>1. CASE com'[u][k] = com[u][k] /\ r.tree = up[u].tree
    BY <1>1, <1>2, <2>1, Zenon DEF UploadHolds, CommitHolds, Grows, FromHub
  <2>2. CASE com'[u][k].at \in {"none", "ended"}
    BY <2>2 DEF CommitHolds
  <2> QED BY <2>1, <2>2
<1>5. (up[u].at = "done" /\ FromHub(u) => Listed(u, up[u].tree, up[u].mode))'
  BY <1>1, <1>2, Zenon DEF UploadHolds, Grows, FromHub
<1> QED BY <1>1, <1>3, <1>4, <1>5, RequestStep DEF UploadHolds

LEMMA LinkExistingInv ==
    ASSUME LibraryInv, NEW u \in Uploads, LinkExisting(u)
    PROVE  LibraryInv'
<1>1. /\ up[u].at = "linking" /\ up[u] \in UploadRecords /\ UploadHolds(u)
      /\ UNCHANGED <<packages, arts, issued, bucket, folder, com, pr, purge, lost, left>>
  BY LibraryTyped DEF LinkExisting, limits
<1>2. /\ up[u].mode \in {"admin", "control"} /\ up[u].tree \in Trees /\ up[u].pkg \in Nat
      /\ \A k \in Commits : com[u][k].at = "none"
      /\ Offered(up[u].pkg, up[u].tree)
  BY <1>1 DEF UploadRecords, UploadHolds, CommitsFollow, Before
<1>3. StoreInv'
  <2>1. folder' \in Trees /\ UNCHANGED <<packages, issued, arts, bucket, lost, purge>>
    BY <1>1 DEF LibraryInv, StoreInv, StoreTypes
  <2> QED BY <2>1, StoreSame
<1>4. \E at \in {"done", "failed"} :
        /\ up' = [up EXCEPT ![u] = Answered(u, at)] /\ links \subseteq links'
        /\ at = "done" /\ up[u].mode = "control" => <<u, up[u].pkg>> \in links'
  BY <1>2 DEF LinkExisting
<1>5. PICK at \in {"done", "failed"} :
        /\ up' = [up EXCEPT ![u] = Answered(u, at)] /\ links \subseteq links'
        /\ at = "done" /\ up[u].mode = "control" => <<u, up[u].pkg>> \in links'
  BY <1>4
<1> DEFINE r == Answered(u, at)
<1>6. /\ r \in UploadRecords /\ r.at = at /\ r.kind = up[u].kind /\ r.mode = up[u].mode
      /\ (at = "done" => r.tree = up[u].tree)
  BY AnsweredIs
<1>7. Grows
  <2>1. RowsStay
    BY <1>1 DEF RowsStay
  <2> QED BY <1>1, <1>5, <2>1, TablesGrow
<1> HIDE DEF r
<1>8. RequestTypes' /\ up'[u] = r /\ \A v \in Uploads : v # u => up'[v] = up[v]
  BY <1>1, <1>5, <1>6 DEF LibraryInv, RequestTypes, r
<1>9. at = "done" => Listed(u, up[u].tree, up[u].mode)'
  <2>1. lost' = lost /\ \A t : InLibrary(t)' = InLibrary(t)
    BY <1>1 DEF InLibrary
  <2>2. at = "done" => up'[u].tree = up[u].tree /\ up'[u].mode = up[u].mode
    BY <1>6, <1>8
  <2>3. CASE up[u].tree \in lost
    BY <2>1, <2>2, <2>3, Zenon DEF Listed
  <2>4. CASE \E a \in InLibrary(up[u].tree) : a.pkg = up[u].pkg
    BY <1>5, <2>1, <2>2, <2>4, Zenon DEF Listed
  <2> QED BY <1>2, <2>3, <2>4, Zenon DEF Offered
<1>10. UploadHolds(u)'
  BY <1>1, <1>2, <1>6, <1>8, <1>9
     DEF UploadHolds, CommitsFollow, EdgeOnly, CommitHolds, FromHub, Before
<1> QED BY <1>1, <1>3, <1>7, <1>8, <1>10, RequestStep

(* A request that has got what it asked for in one step, with a commit of  *)
(* its own that is not one of a session.                                   *)
LEMMA OpensWithCommit ==
    ASSUME LibraryInv, NEW u \in Uploads, NEW r \in UploadRecords, NEW at \in {"verified", "stored"},
           up[u].at \in Before, r.at = "open", r.kind = up[u].kind, at = "stored" => ~FromHub(u),
           up' = [up EXCEPT ![u] = r], com' = [com EXCEPT ![u][1].at = at],
           UNCHANGED <<tables, bucket, folder, pr, purge, limits>>
    PROVE  LibraryInv'
<1>1. Grows /\ StoreInv'
  <2>1. /\ UNCHANGED <<packages, issued, arts, bucket, lost, purge, left, links>>
        /\ folder' \in Trees
    BY DEF tables, limits, LibraryInv, StoreInv, StoreTypes
  <2> QED BY <2>1, NothingStored, StoreSame
<1> DEFINE c == [com[u][1] EXCEPT !.at = at]
<1>2. /\ com[u] \in [Commits -> CommitRecords] /\ com[u][1] \in CommitRecords
      /\ \A k \in Commits : com[u][k].at = "none"
  BY LibraryTyped, LibraryConstants DEF UploadHolds, CommitsFollow
<1>3. c \in CommitRecords /\ c.at = at
  BY <1>2 DEF CommitRecords, CommitPlaces
<1>4. com' = [com EXCEPT ![u] = [com[u] EXCEPT ![1] = c]]
  OBVIOUS
<1> HIDE DEF c
<1> DEFINE q == [com[u] EXCEPT ![1] = c]
<1>5. /\ RequestTypes' /\ up'[u] = r
      /\ \A v \in Uploads : v # u => up'[v] = up[v] /\ com'[v] = com[v]
      /\ \A k \in Commits : com'[u][k].at \in {"none", at}
  <2>1. q \in [Commits -> CommitRecords] /\ \A k \in Commits : q[k].at \in {"none", at}
    BY <1>2, <1>3, LibraryConstants
  <2>2. com' = [com EXCEPT ![u] = q]
    BY <1>4
  <2> HIDE DEF q
  <2>3. com' \in [Uploads -> [Commits -> CommitRecords]] /\ com'[u] = q
        /\ \A v \in Uploads : v # u => com'[v] = com[v]
    BY <2>1, <2>2 DEF LibraryInv, RequestTypes
  <2> QED BY <2>1, <2>3 DEF LibraryInv, RequestTypes
<1>6. UploadHolds(u)'
  BY <1>5 DEF UploadHolds, CommitsFollow, EdgeOnly, CommitHolds, FromHub, Before
<1> QED BY <1>1, <1>5, <1>6, RequestStep

LEMMA ZipAllocateInv ==
    ASSUME LibraryInv, NEW u \in Uploads, ZipAllocate(u)
    PROVE  LibraryInv'
<1>1. up[u].at = "allocating" /\ up[u] \in UploadRecords
      /\ UNCHANGED <<tables, bucket, folder, pr, purge, limits>>
  BY LibraryTyped DEF ZipAllocate
<1>2. CASE FreeSlugs = {}
  <2>1. up' = [up EXCEPT ![u] = Answered(u, "failed")] /\ UNCHANGED com
    BY <1>2 DEF ZipAllocate
  <2>2. Answered(u, "failed") \in UploadRecords /\ Answered(u, "failed").at = "failed"
    BY AnsweredIs
  <2> QED BY <1>1, <2>1, <2>2, EarlyStep DEF Before
<1>3. CASE FreeSlugs # {}
  <2> DEFINE slug == FirstFree
             r == [up[u] EXCEPT !.at = "open", !.slug = slug, !.dir = "whole"]
  <2>1. /\ up' = [up EXCEPT ![u] = r] /\ com' = [com EXCEPT ![u][1].at = "verified"]
    BY <1>3 DEF ZipAllocate, LibraryInv, RequestTypes
  <2>2. slug \in Slugs
    BY <1>3, LeastSlug
  <2> HIDE DEF slug
  <2>3. r \in UploadRecords /\ r.at = "open" /\ r.kind = up[u].kind
    BY <1>1, <2>2 DEF UploadRecords, UploadPlaces
  <2> HIDE DEF r
  <2> QED BY <1>1, <2>1, <2>3, OpensWithCommit DEF Before
<1> QED BY <1>2, <1>3

LEMMA AdoptInv ==
    ASSUME LibraryInv, NEW u \in Uploads, Adopt(u)
    PROVE  LibraryInv'
<1>1. up[u].at = "adopting" /\ up[u] \in UploadRecords /\ ~FromHub(u)
      /\ UNCHANGED <<tables, bucket, folder, pr, purge, limits>>
  BY LibraryTyped DEF Adopt, UploadHolds, EdgeOnly
<1>2. CASE folder = Empty
  <2>1. up' = [up EXCEPT ![u] = Answered(u, "failed")] /\ UNCHANGED com
    BY <1>2 DEF Adopt
  <2>2. Answered(u, "failed") \in UploadRecords /\ Answered(u, "failed").at = "failed"
    BY AnsweredIs
  <2> QED BY <1>1, <2>1, <2>2, EarlyStep DEF Before
<1>3. CASE folder # Empty
  <2> DEFINE r == [up[u] EXCEPT !.at = "open", !.tree = folder]
  <2>1. /\ up' = [up EXCEPT ![u] = r] /\ com' = [com EXCEPT ![u][1].at = "stored"]
    BY <1>3 DEF Adopt, LibraryInv, RequestTypes
  <2>2. folder \in Trees
    BY DEF LibraryInv, StoreInv, StoreTypes
  <2>3. r \in UploadRecords /\ r.at = "open" /\ r.kind = up[u].kind
    BY <1>1, <2>2 DEF UploadRecords, UploadPlaces
  <2> HIDE DEF r
  <2> QED BY <1>1, <2>1, <2>3, OpensWithCommit DEF Before
<1> QED BY <1>2, <1>3


LEMMA HasSession ==
    ASSUME LibraryInv, NEW u \in Uploads, NEW k \in Commits,
           up[u].open \/ com[u][k].at # "none"
    PROVE  up[u].at \notin Before
BY LibraryTyped DEF UploadHolds, CommitsFollow

LEMMA CommitBecomes ==
    ASSUME LibraryInv, NEW u \in Uploads, NEW k \in Commits, NEW c \in CommitRecords,
           com' = [com EXCEPT ![u] = [com[u] EXCEPT ![k] = c]]
    PROVE  /\ com' \in [Uploads -> [Commits -> CommitRecords]]
           /\ com'[u][k] = c /\ \A j \in Commits : j # k => com'[u][j] = com[u][j]
           /\ \A v \in Uploads : v # u => com'[v] = com[v]
<1> DEFINE q == [com[u] EXCEPT ![k] = c]
<1>1. q \in [Commits -> CommitRecords] /\ q[k] = c /\ \A j \in Commits : j # k => q[j] = com[u][j]
  BY LibraryTyped
<1>2. com' = [com EXCEPT ![u] = q]
  OBVIOUS
<1> HIDE DEF q
<1> QED BY <1>1, <1>2 DEF LibraryInv, RequestTypes

(* A commit goes on, with what it holds when it has come to its next place. *)
LEMMA CommitGoes ==
    ASSUME LibraryInv, NEW u \in Uploads, NEW k \in Commits, NEW c \in CommitRecords,
           NEW r \in UploadRecords, up' = [up EXCEPT ![u] = r],
           com' = [com EXCEPT ![u] = [com[u] EXCEPT ![k] = c]],
           UNCHANGED pr, StoreInv', Grows, up[u].open \/ com[u][k].at # "none",
           r.at = up[u].at, r.kind = up[u].kind, r.mode = up[u].mode, r.tree = up[u].tree,
           c.at = "packed" => c.sha # NoSha, c.at \in {"merging", "marking"} => ~FromHub(u),
           \A t : t = up[u].tree =>
              /\ c.at = "stored" /\ FromHub(u) => c.sha # NoSha /\ IsStored(t, c.sha)'
              /\ c.at = "linking" => Offered(c.pkg, t)'
    PROVE  LibraryInv'
<1>1. /\ com' \in [Uploads -> [Commits -> CommitRecords]]
      /\ com'[u][k] = c /\ \A j \in Commits : j # k => com'[u][j] = com[u][j]
      /\ \A v \in Uploads : v # u => com'[v] = com[v]
  BY CommitBecomes, Zenon
<1>2. up'[u] = r /\ up[u].at \notin Before
  BY HasSession DEF LibraryInv, RequestTypes
<1>3. CommitHolds(u, k)'
  BY <1>1, <1>2 DEF CommitHolds, FromHub
<1>4. \A j \in Commits : com'[u][j] = com[u][j] \/ CommitHolds(u, j)'
  BY <1>1, <1>3
<1>5. pr' \in [Promotes -> PromoteRecords] /\ \A p \in Promotes : pr'[p] = pr[p]
  BY DEF LibraryInv, RequestTypes
<1>6. /\ r.at \notin Before /\ r.tree = up[u].tree
      /\ r.at = "done" /\ FromHub(u) => up[u].at = "done" \/ Listed(u, up[u].tree, up[u].mode)'
  BY <1>2
<1> QED BY <1>1, <1>2, <1>4, <1>5, <1>6, LateStep

(* A commit ends: with the last of them the request is answered.           *)
LEMMA CommitEnds ==
    ASSUME LibraryInv, NEW u \in Uploads, NEW k \in Commits, NEW outcome \in {"done", "failed"},
           Ended(u, k, outcome), StoreInv', Grows, up[u].open \/ com[u][k].at # "none",
           outcome = "done" /\ FromHub(u) =>
             \A t, m : t = up[u].tree /\ m = up[u].mode => Listed(u, t, m)',
           pr' \in [Promotes -> PromoteRecords],
           \A p \in Promotes : pr'[p] = pr[p] \/ PromoteHolds(p)'
    PROVE  LibraryInv'
<1> DEFINE c == [NoCommit EXCEPT !.at = "ended"]
<1>1. c \in CommitRecords /\ c.at = "ended"
  BY LibraryConstants DEF NoCommit, CommitRecords, CommitPlaces
<1>2. com' = [com EXCEPT ![u] = [com[u] EXCEPT ![k] = c]]
  BY DEF Ended
<1> HIDE DEF c
<1>3. /\ com' \in [Uploads -> [Commits -> CommitRecords]]
      /\ com'[u][k] = c /\ \A j \in Commits : j # k => com'[u][j] = com[u][j]
      /\ \A v \in Uploads : v # u => com'[v] = com[v]
  BY <1>1, <1>2, CommitBecomes, Zenon
<1>4. CommitHolds(u, k)' /\ up[u].at \notin Before
  BY <1>1, <1>3, HasSession DEF CommitHolds
<1> DEFINE at == IF up[u].at = "done" THEN "done" ELSE outcome
<1>5. at \in {"done", "failed"} /\ up[u] \in UploadRecords
  BY LibraryTyped
<1>6. PICK r \in UploadRecords :
         /\ up' = [up EXCEPT ![u] = r] /\ r.at = at
         /\ r.kind = up[u].kind /\ r.mode = up[u].mode
         /\ \/ r.tree = up[u].tree
            \/ r.at = "failed" /\ Others(u, k) = {}
  <2>1. CASE Others(u, k) = {}
    <3>1. up' = [up EXCEPT ![u] = Answered(u, at)]
      BY <2>1 DEF Ended
    <3>2. /\ Answered(u, at) \in UploadRecords /\ Answered(u, at).at = at
          /\ Answered(u, at).kind = up[u].kind /\ Answered(u, at).mode = up[u].mode
          /\ (at = "done" => Answered(u, at).tree = up[u].tree)
      BY <1>5, AnsweredIs
    <3> QED BY <1>5, <2>1, <3>1, <3>2
  <2>2. CASE Others(u, k) # {}
    <3> DEFINE r == [up[u] EXCEPT !.open = FALSE, !.dir = "wiped", !.at = at]
    <3>1. up' = [up EXCEPT ![u] = r]
      BY <2>2 DEF Ended, LibraryInv, RequestTypes
    <3> HIDE DEF at
    <3>2. /\ r \in UploadRecords /\ r.at = at /\ r.kind = up[u].kind /\ r.mode = up[u].mode
          /\ r.tree = up[u].tree
      BY <1>5 DEF UploadRecords, UploadPlaces
    <3> HIDE DEF r
    <3> QED BY <3>1, <3>2
  <2> QED BY <2>1, <2>2
<1>7. up'[u] = r
  BY <1>6 DEF LibraryInv, RequestTypes
<1>8. Others(u, k) = {} => \A j \in Commits : com'[u][j].at \in {"none", "ended"}
  BY <1>1, <1>3 DEF Others
<1>9. r.at = "done" /\ FromHub(u) =>
        up[u].at = "done" \/ Listed(u, up[u].tree, up[u].mode)'
  <2>1. r.at = "done" => r.tree = up[u].tree
    BY <1>6
  <2> QED BY <1>6, <1>7, <2>1
<1>10. \A j \in Commits : com'[u][j] = com[u][j] \/ CommitHolds(u, j)'
  BY <1>3, <1>4
<1>11. r.at \notin Before
  BY <1>5, <1>6 DEF Before
<1> HIDE DEF at
<1> QED BY <1>3, <1>4, <1>6, <1>8, <1>9, <1>10, <1>11, LateStep


LEMMA Quiet ==
    ASSUME LibraryInv, UNCHANGED <<tables, bucket, purge, lost, left>>, folder' \in Trees
    PROVE  StoreInv' /\ Grows
<1>1. UNCHANGED <<packages, issued, arts, links, bucket, purge, lost, left>>
  BY DEF tables
<1> QED BY <1>1, StoreSame, NothingStored

LEMMA FolderTyped == LibraryInv => folder \in Trees /\ pr \in [Promotes -> PromoteRecords]
BY DEF LibraryInv, StoreInv, StoreTypes, RequestTypes

LEMMA StagedInv ==
    ASSUME LibraryInv, NEW u \in Uploads, NEW p \in Paths, Staged(u, p)
    PROVE  LibraryInv'
<1> DEFINE staged == up[u].staged \cup {p}
           r == [up[u] EXCEPT !.staged = staged]
<1>1. /\ up' = [up EXCEPT ![u] = r] /\ up[u].open /\ up[u] \in UploadRecords
      /\ UNCHANGED <<tables, bucket, folder, com, pr, purge, lost, left>>
  BY LibraryTyped DEF Staged, limits
<1>2. staged \in SUBSET Paths
  BY <1>1 DEF UploadRecords
<1> HIDE DEF staged
<1>3. /\ r \in UploadRecords /\ r.at = up[u].at /\ r.kind = up[u].kind /\ r.mode = up[u].mode
      /\ r.tree = up[u].tree
  BY <1>1, <1>2 DEF UploadRecords
<1> HIDE DEF r
<1>4. StoreInv' /\ Grows
  BY <1>1, FolderTyped, Quiet
<1>5. com' \in [Uploads -> [Commits -> CommitRecords]] /\ up[u].at \notin Before
  BY <1>1, HasSession, LibraryConstants DEF LibraryInv, RequestTypes
<1>6. r.at = "done" /\ FromHub(u) => up[u].at = "done" \/ Listed(u, up[u].tree, up[u].mode)'
  BY <1>3
<1> QED BY <1>1, <1>3, <1>4, <1>5, <1>6, FolderTyped, LateStep

LEMMA ExpireInv ==
    ASSUME LibraryInv, NEW u \in Uploads, Expire(u)
    PROVE  LibraryInv'
<1>1. /\ up[u].open /\ up[u] \in UploadRecords
      /\ UNCHANGED <<tables, bucket, folder, com, pr, purge, lost, left>>
  BY LibraryTyped DEF Expire
<1>2. PICK r \in UploadRecords :
         /\ up' = [up EXCEPT ![u] = r] /\ r.at \in {up[u].at, "failed"}
         /\ r.kind = up[u].kind /\ r.mode = up[u].mode
         /\ \/ r.tree = up[u].tree
            \/ r.at = "failed" /\ \A k \in Commits : com[u][k].at \in {"none", "ended"}
  <2>1. CASE \E k \in Commits : com[u][k].at \notin {"none", "ended"}
    <3> DEFINE r == [up[u] EXCEPT !.open = FALSE, !.dir = "wiped"]
    <3>1. up' = [up EXCEPT ![u] = r]
      BY <2>1 DEF Expire
    <3>2. /\ r \in UploadRecords /\ r.at = up[u].at /\ r.kind = up[u].kind
          /\ r.mode = up[u].mode /\ r.tree = up[u].tree
      BY <1>1 DEF UploadRecords
    <3> HIDE DEF r
    <3> QED BY <3>1, <3>2
  <2>2. CASE \A k \in Commits : com[u][k].at \in {"none", "ended"}
    <3>1. up' = [up EXCEPT ![u] = Answered(u, "failed")]
      BY <2>2 DEF Expire
    <3>2. /\ Answered(u, "failed") \in UploadRecords /\ Answered(u, "failed").at = "failed"
          /\ Answered(u, "failed").kind = up[u].kind /\ Answered(u, "failed").mode = up[u].mode
      BY AnsweredIs
    <3> QED BY <2>2, <3>1, <3>2
  <2> QED BY <2>1, <2>2
<1>3. StoreInv' /\ Grows
  BY <1>1, FolderTyped, Quiet
<1>4. com' \in [Uploads -> [Commits -> CommitRecords]] /\ up[u].at \notin Before
  BY <1>1, HasSession, LibraryConstants DEF LibraryInv, RequestTypes
<1>5. /\ r.at \notin Before
      /\ r.at = "done" /\ FromHub(u) => up[u].at = "done" \/ Listed(u, up[u].tree, up[u].mode)'
  BY <1>2, <1>4 DEF Before
<1> QED BY <1>1, <1>2, <1>3, <1>4, <1>5, FolderTyped, LateStep

(* A commit that fails leaves the store alone.                             *)
LEMMA FailsInv ==
    ASSUME LibraryInv, NEW u \in Uploads, NEW k \in Commits, Fails(u, k),
           up[u].open \/ com[u][k].at # "none",
           UNCHANGED <<tables, bucket, folder, pr, purge, lost, left>>
    PROVE  LibraryInv'
<1>1. StoreInv' /\ Grows /\ pr' \in [Promotes -> PromoteRecords]
  BY FolderTyped, Quiet
<1>2. Ended(u, k, "failed")
  BY DEF Fails
<1> QED BY <1>1, <1>2, CommitEnds

(* A commit that goes on without the store.                                *)
LEMMA QuietCommit ==
    ASSUME LibraryInv, NEW u \in Uploads, NEW k \in Commits, NEW c \in CommitRecords,
           NEW r \in UploadRecords, up' = [up EXCEPT ![u] = r],
           com' = [com EXCEPT ![u] = [com[u] EXCEPT ![k] = c]],
           UNCHANGED <<tables, bucket, pr, purge, lost, left>>, folder' \in Trees,
           up[u].open \/ com[u][k].at # "none",
           r.at = up[u].at, r.kind = up[u].kind, r.mode = up[u].mode, r.tree = up[u].tree,
           c.at = "packed" => c.sha # NoSha,
           c.at \in {"stored", "merging", "marking"} => ~FromHub(u), c.at # "linking"
    PROVE  LibraryInv'
<1>1. StoreInv' /\ Grows
  BY Quiet
<1> QED BY <1>1, CommitGoes

LEMMA StartsInv ==
    ASSUME LibraryInv, NEW u \in Uploads, NEW k \in Commits, Starts(u, k)
    PROVE  LibraryInv'
<1>1. /\ up[u].open /\ up[u] \in UploadRecords /\ com[u][k] \in CommitRecords
      /\ UNCHANGED <<tables, bucket, folder, pr, purge, lost, left>>
  BY LibraryTyped DEF Starts
<1>2. CASE Fails(u, k)
  BY <1>1, <1>2, FailsInv
<1>3. CASE ~Fails(u, k)
  <2> DEFINE r == [up[u] EXCEPT !.dir = "building"]
             c == [com[u][k] EXCEPT !.at = "building"]
  <2>1. up' = [up EXCEPT ![u] = r] /\ com' = [com EXCEPT ![u] = [com[u] EXCEPT ![k] = c]]
    BY <1>3 DEF Starts
  <2>2. /\ r \in UploadRecords /\ r.at = up[u].at /\ r.kind = up[u].kind
        /\ r.mode = up[u].mode /\ r.tree = up[u].tree
    BY <1>1 DEF UploadRecords
  <2>3. c \in CommitRecords /\ c.at = "building"
    BY <1>1 DEF CommitRecords, CommitPlaces
  <2> HIDE DEF r, c
  <2> QED BY <1>1, <2>1, <2>2, <2>3, FolderTyped, QuietCommit
<1> QED BY <1>2, <1>3

LEMMA BuiltInv ==
    ASSUME LibraryInv, NEW u \in Uploads, NEW k \in Commits, NEW next \in {"verified", "merging"},
           Built(u, k, next), next = "merging" => ~FromHub(u)
    PROVE  LibraryInv'
<1>1. /\ com[u][k].at = "building" /\ up[u] \in UploadRecords /\ com[u][k] \in CommitRecords
      /\ UNCHANGED <<tables, bucket, folder, pr, purge, lost, left>>
  BY LibraryTyped DEF Built, limits
<1>2. CASE Fails(u, k)
  BY <1>1, <1>2, FailsInv
<1>3. CASE ~Fails(u, k)
  <2>1. PICK dir \in {"whole", "building"} :
           /\ up' = [up EXCEPT ![u].dir = dir]
           /\ com' = [com EXCEPT ![u][k].at = next, ![u][k].rest = Files(up[u].tree)]
    BY <1>3 DEF Built
  <2> DEFINE rest == Files(up[u].tree)
             r == [up[u] EXCEPT !.dir = dir]
             c == [com[u][k] EXCEPT !.at = next, !.rest = rest]
  <2>2. up' = [up EXCEPT ![u] = r] /\ com' = [com EXCEPT ![u] = [com[u] EXCEPT ![k] = c]]
    <3>1. com[u] \in [Commits -> CommitRecords] /\ com \in [Uploads -> [Commits -> CommitRecords]]
      BY LibraryTyped DEF LibraryInv, RequestTypes
    <3> QED BY <2>1, <3>1
  <2>3. /\ r \in UploadRecords /\ r.at = up[u].at /\ r.kind = up[u].kind
        /\ r.mode = up[u].mode /\ r.tree = up[u].tree
    BY <1>1 DEF UploadRecords
  <2>4. rest \in SUBSET Paths
    BY DEF Files
  <2> HIDE DEF rest
  <2>5. c \in CommitRecords /\ c.at = next
    BY <1>1, <2>4 DEF CommitRecords, CommitPlaces
  <2> HIDE DEF r, c
  <2> QED BY <1>1, <2>2, <2>3, <2>5, FolderTyped, QuietCommit
<1> QED BY <1>2, <1>3


LEMMA PackInv ==
    ASSUME LibraryInv, NEW u \in Uploads, NEW k \in Commits, Pack(u, k)
    PROVE  LibraryInv'
<1>1. /\ com[u][k].at = "verified" /\ up[u] \in UploadRecords /\ com[u][k] \in CommitRecords
      /\ UNCHANGED <<tables, bucket, folder, pr, purge, lost, left>>
  BY LibraryTyped DEF Pack, limits
<1>2. CASE Fails(u, k)
  BY <1>1, <1>2, FailsInv
<1>3. CASE ~Fails(u, k)
  <2>1. PICK t \in Trees :
           /\ up' = [up EXCEPT ![u].gz = [by |-> <<u, k>>, tree |-> t]]
           /\ com' = [com EXCEPT ![u][k].at = "packed", ![u][k].sha = [by |-> <<u, k>>, tree |-> t]]
    <3>1. up[u].tree \in Trees /\ Parts(up[u].tree) \subseteq Trees
      BY <1>1 DEF UploadRecords, Parts
    <3>2. (IF up[u].dir = "whole" THEN {up[u].tree} ELSE Parts(up[u].tree)) \subseteq Trees
      BY <3>1
    <3> QED BY <1>3, <3>2 DEF Pack
  <2> DEFINE sha == [by |-> <<u, k>>, tree |-> t]
             r == [up[u] EXCEPT !.gz = sha]
             c == [com[u][k] EXCEPT !.at = "packed", !.sha = sha]
  <2>2. up' = [up EXCEPT ![u] = r] /\ com' = [com EXCEPT ![u] = [com[u] EXCEPT ![k] = c]]
    <3>1. com[u] \in [Commits -> CommitRecords] /\ com \in [Uploads -> [Commits -> CommitRecords]]
      BY LibraryTyped DEF LibraryInv, RequestTypes
    <3> QED BY <2>1, <3>1
  <2>3. sha \in Archives /\ sha # NoSha
    BY LibraryConstants DEF Archives, Shas, NoSha
  <2> HIDE DEF sha
  <2>4. /\ r \in UploadRecords /\ r.at = up[u].at /\ r.kind = up[u].kind
        /\ r.mode = up[u].mode /\ r.tree = up[u].tree
    BY <1>1, <2>3 DEF UploadRecords
  <2>5. c \in CommitRecords /\ c.at = "packed" /\ c.sha = sha
    BY <1>1, <2>3 DEF CommitRecords, CommitPlaces
  <2> HIDE DEF r, c
  <2> QED BY <1>1, <2>2, <2>3, <2>4, <2>5, FolderTyped, QuietCommit
<1> QED BY <1>2, <1>3

(* putCanonicalTarGz: an object that is there stays, a new one is the one  *)
(* under the hash it was put with.                                         *)
LEMMA PutLemma ==
    ASSUME LibraryInv, NEW t \in Trees, NEW bytes \in Archives, NEW meta \in Archives,
           meta # NoSha, PutInto(t, bytes, meta),
           UNCHANGED <<tables, folder, purge, lost, left>>
    PROVE  StoreInv' /\ Grows /\ (~Stored(t) => IsStored(t, meta)')
<1> DEFINE object == [bytes |-> bytes, meta |-> meta]
<1>1. object \in Objects /\ object.meta = meta
  BY DEF Objects
<1>2. object # NoObject
  BY <1>1 DEF NoObject
<1>3. bucket' = IF Stored(t) THEN bucket ELSE [bucket EXCEPT ![t] = object]
  BY DEF PutInto
<1> HIDE DEF object
<1>4. /\ StoreInv /\ bucket \in [Trees -> Objects]
      /\ UNCHANGED <<packages, arts, links, issued, folder, purge, lost, left>>
  BY DEF LibraryInv, StoreInv, StoreTypes, tables
<1>5. /\ bucket' \in [Trees -> Objects]
      /\ \A s \in Trees : Stored(s) => bucket'[s] = bucket[s]
      /\ \A s \in Trees : bucket'[s] = bucket[s] \/ bucket'[s] = object
      /\ ~Stored(t) => bucket'[t] = object
  BY <1>1, <1>3, <1>4 DEF Stored
<1>6. Grows
  <2>1. RowsStay
    BY <1>4 DEF RowsStay
  <2> QED BY <1>4, <1>5, <2>1, TablesGrow
<1>7. StoreTypes' /\ OneRow'
  BY <1>4, <1>5 DEF StoreInv, StoreTypes, OneRow
<1>8. HasHash'
  <2> SUFFICES ASSUME NEW s \in Trees, Stored(s)' PROVE bucket'[s].meta # NoSha
    BY DEF HasHash
  <2> QED BY <1>1, <1>4, <1>5 DEF StoreInv, HasHash, Stored
<1>9. \A a \in arts' : a.s3 # NoSha => IsStored(a.tree, a.s3)'
  <2>1. \A a \in arts : a.tree \in Trees /\ a.s3 \in Archives
    BY <1>4 DEF StoreInv, StoreTypes, Rows
  <2> QED BY <1>4, <1>6, <2>1, Zenon DEF StoreInv, Grows
<1>10. ~Stored(t) => IsStored(t, meta)'
  BY <1>1, <1>2, <1>5 DEF IsStored, Stored
<1> QED BY <1>6, <1>7, <1>8, <1>9, <1>10 DEF StoreInv

LEMMA StoreObjectInv ==
    ASSUME LibraryInv, NEW u \in Uploads, NEW k \in Commits, StoreObject(u, k)
    PROVE  LibraryInv'
<1>1. /\ com[u][k].at = "packed" /\ up[u] \in UploadRecords /\ com[u][k] \in CommitRecords
      /\ com[u][k].sha # NoSha
      /\ UNCHANGED <<tables, folder, pr, purge, lost, left>>
  BY LibraryTyped DEF StoreObject, limits, UploadHolds, CommitHolds
<1>2. CASE Fails(u, k) /\ UNCHANGED bucket
  BY <1>1, <1>2, FailsInv
<1>3. CASE ~(Fails(u, k) /\ UNCHANGED bucket)
  <2>1. PICK at \in {"exists", "stored"} :
           /\ com' = [com EXCEPT ![u][k].at = at] /\ (at = "exists" <=> Stored(up[u].tree))
           /\ PutInto(up[u].tree, up[u].gz, com[u][k].sha) /\ UNCHANGED up
    BY <1>3 DEF StoreObject
  <2>2. /\ up[u].tree \in Trees /\ up[u].gz \in Archives /\ com[u][k].sha \in Archives
    BY <1>1 DEF UploadRecords, CommitRecords
  <2>3. /\ StoreInv' /\ Grows
        /\ \A t, m : t = up[u].tree /\ m = com[u][k].sha /\ ~Stored(t) => IsStored(t, m)'
    <3> DEFINE sha == com[u][k].sha  tree == up[u].tree  gz == up[u].gz
    <3>1. ASSUME NEW t, t = tree, NEW m, m = sha
          PROVE  StoreInv' /\ Grows /\ (~Stored(t) => IsStored(t, m)')
      <4>1. PutInto(t, gz, m) /\ m # NoSha /\ t \in Trees /\ m \in Archives /\ gz \in Archives
        BY <1>1, <2>1, <2>2, <3>1
      <4> HIDE DEF sha, tree, gz
      <4> QED BY <1>1, <4>1, PutLemma
    <3> QED BY <3>1
  <2>4. PICK c \in CommitRecords : c = [com[u][k] EXCEPT !.at = at]
    BY <1>1 DEF CommitRecords, CommitPlaces
  <2>5. /\ c.at = at /\ c.sha = com[u][k].sha
        /\ com' = [com EXCEPT ![u] = [com[u] EXCEPT ![k] = c]]
    BY <1>1, <2>1, <2>4 DEF CommitRecords
  <2>6. PICK r \in UploadRecords : r = up[u] /\ up' = [up EXCEPT ![u] = r]
    BY <1>1, <2>1 DEF LibraryInv, RequestTypes
  <2>7. \A t : t = up[u].tree =>
              /\ c.at = "stored" /\ FromHub(u) => c.sha # NoSha /\ IsStored(t, c.sha)'
              /\ c.at = "linking" => Offered(c.pkg, t)'
    BY <1>1, <2>1, <2>3, <2>5
  <2>8. /\ c.at = "packed" => c.sha # NoSha
        /\ c.at \in {"merging", "marking"} => ~FromHub(u)
        /\ up[u].open \/ com[u][k].at # "none"
        /\ UNCHANGED pr
    BY <1>1, <2>1, <2>5
  <2> QED BY <2>3, <2>5, <2>6, <2>7, <2>8, CommitGoes
<1> QED BY <1>2, <1>3


LEMMA HeadInv ==
    ASSUME LibraryInv, NEW u \in Uploads, NEW k \in Commits, Head(u, k)
    PROVE  LibraryInv'
<1>1. /\ com[u][k].at = "exists" /\ up[u] \in UploadRecords /\ com[u][k] \in CommitRecords
      /\ up[u].tree \in Trees
      /\ UNCHANGED <<tables, bucket, folder, pr, purge, lost, left>>
  BY LibraryTyped DEF Head, limits, UploadRecords
<1>2. CASE ~Stored(up[u].tree)
  <2>1. Fails(u, k)
    BY <1>2 DEF Head
  <2> QED BY <1>1, <2>1, FailsInv
<1>3. CASE Stored(up[u].tree)
  <2>1. PICK sha \in Archives : sha = bucket[up[u].tree].meta /\ sha # NoSha
    BY <1>1, <1>3 DEF LibraryInv, StoreInv, StoreTypes, HasHash, Stored, Objects
  <2>2. PICK c \in CommitRecords : c = [com[u][k] EXCEPT !.at = "stored", !.sha = sha]
    BY <1>1 DEF CommitRecords, CommitPlaces
  <2>3. c.at = "stored" /\ c.sha = sha
    BY <1>1, <2>2 DEF CommitRecords
  <2>4. com' = [com EXCEPT ![u] = [com[u] EXCEPT ![k] = c]]
    <3>1. com[u] \in [Commits -> CommitRecords] /\ com \in [Uploads -> [Commits -> CommitRecords]]
      BY LibraryTyped DEF LibraryInv, RequestTypes
    <3>2. com' = [com EXCEPT ![u][k].at = "stored", ![u][k].sha = sha]
      BY <1>3, <2>1 DEF Head
    <3> QED BY <2>2, <3>1, <3>2
  <2>5. PICK r \in UploadRecords : r = up[u] /\ up' = [up EXCEPT ![u] = r]
    BY <1>1, <1>3 DEF Head, LibraryInv, RequestTypes
  <2>6. StoreInv' /\ Grows
    BY <1>1, FolderTyped, Quiet
  <2>7. \A t : t = up[u].tree =>
              /\ c.at = "stored" /\ FromHub(u) => c.sha # NoSha /\ IsStored(t, c.sha)'
              /\ c.at = "linking" => Offered(c.pkg, t)'
    BY <1>1, <1>3, <2>1, <2>3 DEF IsStored, Stored
  <2>8. /\ c.at = "packed" => c.sha # NoSha
        /\ c.at \in {"merging", "marking"} => ~FromHub(u)
        /\ up[u].open \/ com[u][k].at # "none"
        /\ UNCHANGED pr
    BY <1>1, <2>3
  <2> QED BY <2>4, <2>5, <2>6, <2>7, <2>8, CommitGoes
<1> QED BY <1>2, <1>3

LEMMA MergeFileInv ==
    ASSUME LibraryInv, NEW u \in Uploads, NEW k \in Commits, MergeFile(u, k)
    PROVE  LibraryInv'
<1>1. /\ com[u][k].at = "merging" /\ up[u] \in UploadRecords /\ com[u][k] \in CommitRecords
      /\ up[u].tree \in Trees /\ ~FromHub(u) /\ folder \in Trees
      /\ UNCHANGED <<tables, bucket, pr, purge, lost, left>>
  BY LibraryTyped, FolderTyped DEF MergeFile, limits, UploadRecords, UploadHolds, CommitHolds
<1>2. CASE Fails(u, k) /\ UNCHANGED folder
  BY <1>1, <1>2, FailsInv
<1>3. CASE ~(Fails(u, k) /\ UNCHANGED folder)
  <2>1. PICK r \in UploadRecords : r = up[u] /\ up' = [up EXCEPT ![u] = r]
    BY <1>1, <1>3 DEF MergeFile, LibraryInv, RequestTypes
  <2>2. PICK c \in CommitRecords :
           /\ c.at \in {"stored", "merging"} /\ folder' \in Trees
           /\ com' = [com EXCEPT ![u] = [com[u] EXCEPT ![k] = c]]
    <3>1. CASE com[u][k].rest = {}
      <4>1. com' = [com EXCEPT ![u][k].at = "stored"] /\ folder' = folder
        BY <1>3, <3>1 DEF MergeFile
      <4>2. PICK c \in CommitRecords : c = [com[u][k] EXCEPT !.at = "stored"]
        BY <1>1 DEF CommitRecords, CommitPlaces
      <4>3. c.at = "stored"
        BY <1>1, <4>2 DEF CommitRecords
      <4> QED BY <1>1, <4>1, <4>2, <4>3
    <3>2. CASE com[u][k].rest # {}
      <4>1. PICK p \in com[u][k].rest :
               /\ folder' = [folder EXCEPT ![p] = up[u].tree[p]]
               /\ com' = [com EXCEPT ![u][k].rest = @ \ {p}]
        BY <1>3, <3>2 DEF MergeFile
      <4>2. p \in Paths /\ folder' \in Trees
        BY <1>1, <4>1 DEF CommitRecords, Trees
      <4>3. PICK rest \in SUBSET Paths : rest = com[u][k].rest \ {p}
        BY <1>1 DEF CommitRecords
      <4>4. PICK c \in CommitRecords : c = [com[u][k] EXCEPT !.rest = rest]
        BY <1>1 DEF CommitRecords
      <4>5. c.at = "merging"
        BY <1>1, <4>4 DEF CommitRecords
      <4>6. com' = [com EXCEPT ![u] = [com[u] EXCEPT ![k] = c]]
        BY <4>1, <4>3, <4>4
      <4> QED BY <4>2, <4>5, <4>6
    <3> QED BY <3>1, <3>2
  <2> QED BY <1>1, <2>1, <2>2, QuietCommit
<1> QED BY <1>2, <1>3

LEMMA LinkInv ==
    ASSUME LibraryInv, NEW u \in Uploads, NEW k \in Commits, Link(u, k)
    PROVE  LibraryInv'
<1>1. /\ com[u][k].at = "linking" /\ up[u] \in UploadRecords /\ com[u][k] \in CommitRecords
      /\ up[u].tree \in Trees /\ Offered(com[u][k].pkg, up[u].tree)
      /\ UNCHANGED <<packages, arts, issued, bucket, folder, pr, purge, lost, left>>
  BY LibraryTyped DEF Link, limits, UploadRecords, UploadHolds, CommitHolds
<1>2. CASE ~Live(com[u][k].pkg)
  <2>1. Fails(u, k) /\ UNCHANGED tables
    BY <1>1, <1>2 DEF Link, tables
  <2> QED BY <1>1, <2>1, FailsInv
<1>3. CASE Live(com[u][k].pkg)
  <2>1. Ended(u, k, "done") /\ links' = links \cup {<<u, com[u][k].pkg>>}
    BY <1>3 DEF Link
  <2>2. StoreInv' /\ Grows
    <3>1. RowsStay /\ folder' \in Trees
      BY <1>1, FolderTyped DEF RowsStay
    <3> QED BY <1>1, <2>1, <3>1, StoreSame, TablesGrow
  <2>3. \A t, m : t = up[u].tree /\ m = up[u].mode => Listed(u, t, m)'
    <3> SUFFICES ASSUME NEW t, NEW m, t = up[u].tree PROVE Listed(u, t, m)'
      OBVIOUS
    <3>1. lost' = lost /\ InLibrary(t)' = InLibrary(t)
      BY <1>1 DEF InLibrary
    <3>2. CASE t \in lost
      BY <3>1, <3>2 DEF Listed
    <3>3. CASE \E a \in InLibrary(t) : a.pkg = com[u][k].pkg
      BY <2>1, <3>1, <3>3, Zenon DEF Listed
    <3> QED BY <1>1, <3>2, <3>3, Zenon DEF Offered
  <2>4. pr' \in [Promotes -> PromoteRecords] /\ \A p \in Promotes : pr'[p] = pr[p]
    BY <1>1, FolderTyped
  <2> QED BY <1>1, <2>1, <2>2, <2>3, <2>4, CommitEnds
<1> QED BY <1>2, <1>3


(* What a registration keeps of the row that is there.                     *)
LEMMA KeptIs ==
    ASSUME LibraryInv, NEW pkg, NEW t \in Trees, NEW s3 \in Archives,
           s3 # NoSha => IsStored(t, s3)
    PROVE  LET old == Row(pkg, t) IN
           /\ Kept(old, s3) \in Archives
           /\ Kept(old, s3) # NoSha => IsStored(t, Kept(old, s3))
           /\ s3 # NoSha => Kept(old, s3) # NoSha
           /\ \A a \in old : a.s3 # NoSha => Kept(old, s3) = a.s3
<1> DEFINE old == Row(pkg, t)
<1>1. /\ \A a \in old : a \in arts /\ a.tree = t /\ a.s3 \in Archives
                        /\ (a.s3 # NoSha => IsStored(t, a.s3))
      /\ \A a, b \in old : a = b
  BY DEF LibraryInv, StoreInv, StoreTypes, OneRow, Rows, Row
<1>2. CASE \E a \in old : a.s3 # NoSha
  <2>1. PICK a \in old : a.s3 # NoSha
    BY <1>2
  <2>2. \A b \in old : b = a
    BY <1>1
  <2> HIDE DEF old
  <2>3. (CHOOSE b \in old : TRUE) = a
    <3>1. (CHOOSE b \in old : TRUE) \in old
      BY <2>1, Zenon
    <3> QED BY <2>2, <3>1, Zenon
  <2>4. Kept(old, s3) = a.s3
    BY <1>2, <2>3, Zenon DEF Kept
  <2> QED BY <1>1, <2>1, <2>2, <2>4 DEF old
<1>3. CASE ~\E a \in old : a.s3 # NoSha
  <2> HIDE DEF old
  <2>1. Kept(old, s3) = s3
    BY <1>3, Zenon DEF Kept
  <2> QED BY <1>3, <2>1 DEF old
<1> QED BY <1>2, <1>3

(* A row of one package and tree takes the place of another, and keeps its *)
(* hash.                                                                   *)
LEMMA RowReplaced ==
    ASSUME LibraryInv, NEW new \in Rows,
           arts' = (arts \ Row(new.pkg, new.tree)) \cup {new},
           \A a \in Row(new.pkg, new.tree) : a.s3 # NoSha => new.s3 # NoSha,
           new.s3 # NoSha => IsStored(new.tree, new.s3),
           packages' \in [Slugs -> Nat], issued' \in Nat,
           UNCHANGED <<links, bucket, folder, purge, lost, left>>
    PROVE  StoreInv' /\ Grows
<1>1. StoreInv /\ StoreTypes
  BY DEF LibraryInv, StoreInv
<1>2. RowsStay
  BY DEF RowsStay, Row
<1>3. Grows
  BY <1>2, TablesGrow
<1>4. StoreTypes'
  BY <1>1 DEF StoreTypes
<1>5. OneRow'
  BY <1>1 DEF StoreInv, OneRow, Row
<1>6. HasHash' /\ \A t, sha : IsStored(t, sha) => IsStored(t, sha)'
  BY <1>1 DEF StoreInv, HasHash, Stored, IsStored
<1>7. \A a \in arts' : a.s3 # NoSha => IsStored(a.tree, a.s3)'
  BY <1>1, <1>6, Zenon DEF StoreInv
<1> QED BY <1>3, <1>4, <1>5, <1>6, <1>7 DEF StoreInv

LEMMA InsertLemma ==
    ASSUME LibraryInv, NEW slug \in Slugs, NEW t \in Trees, NEW s3 \in Archives,
           NEW isFolder \in BOOLEAN, Insert(slug, t, s3, isFolder),
           s3 # NoSha => IsStored(t, s3),
           UNCHANGED <<links, bucket, folder, purge, lost, left>>
    PROVE  /\ StoreInv' /\ Grows
           /\ \E pkg \in Nat : pkg = PkgId(slug) /\ (s3 # NoSha => Offered(pkg, t)')
<1>1. PICK pkg \in Nat : pkg = PkgId(slug)
  BY DEF PkgId, LibraryInv, StoreInv, StoreTypes
<1>2. PICK k \in Archives :
         /\ k = Kept(Row(pkg, t), s3) /\ (k # NoSha => IsStored(t, k))
         /\ s3 # NoSha => k # NoSha
         /\ \A a \in Row(pkg, t) : a.s3 # NoSha => k = a.s3
  BY KeptIs
<1>3. PICK isReady \in BOOLEAN : isReady = \E a \in Row(pkg, t) : a.ready
  OBVIOUS
<1>4. PICK new \in Rows :
         new = [pkg |-> pkg, tree |-> t, s3 |-> k, folder |-> isFolder, ready |-> isReady]
  BY DEF Rows
<1>5. /\ packages' = [packages EXCEPT ![slug] = pkg] /\ issued' \in Nat
      /\ arts' = (arts \ Row(pkg, t)) \cup {new}
  BY <1>1, <1>2, <1>3, <1>4 DEF Insert, LibraryInv, StoreInv, StoreTypes
<1>6. new.pkg = pkg /\ new.tree = t /\ new.s3 = k
  BY <1>4
<1>7. packages' \in [Slugs -> Nat]
  BY <1>5 DEF LibraryInv, StoreInv, StoreTypes
<1>8. StoreInv' /\ Grows
  BY <1>2, <1>5, <1>6, <1>7, RowReplaced
<1>9. s3 # NoSha => Offered(pkg, t)'
  BY <1>2, <1>5, <1>6 DEF Offered, InLibrary
<1> QED BY <1>1, <1>8, <1>9


LEMMA RegisterInv ==
    ASSUME LibraryInv, NEW u \in Uploads, NEW k \in Commits, Register(u, k)
    PROVE  LibraryInv'
<1>1. /\ com[u][k].at = "stored" /\ up[u] \in UploadRecords /\ com[u][k] \in CommitRecords
      /\ up[u].tree \in Trees /\ up[u].slug \in Slugs /\ FromHub(u)
      /\ up[u].mode \in {"admin", "control"}
      /\ com[u][k].sha \in Archives /\ com[u][k].sha # NoSha
      /\ IsStored(up[u].tree, com[u][k].sha)
      /\ UNCHANGED <<links, bucket, folder, pr, purge, lost, left>>
  BY LibraryTyped
     DEF Register, limits, UploadRecords, CommitRecords, UploadHolds, CommitHolds, FromHub
<1>2. CASE Fails(u, k) /\ UNCHANGED <<packages, arts, issued>>
  BY <1>1, <1>2, FailsInv DEF tables
<1>3. CASE ~(Fails(u, k) /\ UNCHANGED <<packages, arts, issued>>)
  <2>1. /\ Insert(up[u].slug, up[u].tree, com[u][k].sha, FALSE)
        /\ IF up[u].mode = "control"
           THEN /\ com' = [com EXCEPT ![u][k].at = "linking", ![u][k].pkg = PkgId(up[u].slug)]
                /\ UNCHANGED up
           ELSE Ended(u, k, "done")
    BY <1>3 DEF Register
  <2>2. PICK tree \in Trees : tree = up[u].tree
    BY <1>1
  <2>3. PICK slug \in Slugs : slug = up[u].slug
    BY <1>1
  <2>4. PICK sha \in Archives : sha = com[u][k].sha /\ sha # NoSha
    BY <1>1
  <2>5. /\ StoreInv' /\ Grows
        /\ \E pkg \in Nat : pkg = PkgId(slug) /\ Offered(pkg, tree)'
    <3>1. Insert(slug, tree, sha, FALSE) /\ IsStored(tree, sha)
      BY <1>1, <2>1, <2>2, <2>3, <2>4
    <3> QED BY <1>1, <2>4, <3>1, InsertLemma
  <2>6. PICK pkg \in Nat : pkg = PkgId(slug) /\ Offered(pkg, tree)'
    BY <2>5
  <2>7. CASE up[u].mode = "control"
    <3>1. PICK c \in CommitRecords : c = [com[u][k] EXCEPT !.at = "linking", !.pkg = pkg]
      BY <1>1 DEF CommitRecords, CommitPlaces
    <3>2. c.at = "linking" /\ c.pkg = pkg
      BY <1>1, <3>1 DEF CommitRecords
    <3>3. com' = [com EXCEPT ![u] = [com[u] EXCEPT ![k] = c]]
      <4>1. com[u] \in [Commits -> CommitRecords] /\ com \in [Uploads -> [Commits -> CommitRecords]]
        BY LibraryTyped DEF LibraryInv, RequestTypes
      <4>2. com' = [com EXCEPT ![u][k].at = "linking", ![u][k].pkg = pkg]
        BY <2>1, <2>3, <2>6, <2>7
      <4> QED BY <3>1, <4>1, <4>2
    <3>4. PICK r \in UploadRecords : r = up[u] /\ up' = [up EXCEPT ![u] = r]
      BY <1>1, <2>1, <2>7 DEF LibraryInv, RequestTypes
    <3>5. \A t : t = up[u].tree =>
              /\ c.at = "stored" /\ FromHub(u) => c.sha # NoSha /\ IsStored(t, c.sha)'
              /\ c.at = "linking" => Offered(c.pkg, t)'
      BY <2>2, <2>6, <3>2
    <3>6. /\ c.at = "packed" => c.sha # NoSha
          /\ c.at \in {"merging", "marking"} => ~FromHub(u)
          /\ up[u].open \/ com[u][k].at # "none"
          /\ UNCHANGED pr
      BY <1>1, <3>2
    <3> QED BY <2>5, <3>3, <3>4, <3>5, <3>6, CommitGoes
  <2>8. CASE up[u].mode = "admin"
    <3>1. Ended(u, k, "done")
      BY <2>1, <2>8
    <3>2. \A t, m : t = up[u].tree /\ m = up[u].mode => Listed(u, t, m)'
      BY <2>2, <2>6, <2>8, Zenon DEF Listed, Offered
    <3>3. pr' \in [Promotes -> PromoteRecords] /\ \A p \in Promotes : pr'[p] = pr[p]
      BY <1>1, FolderTyped
    <3> QED BY <1>1, <2>5, <3>1, <3>2, <3>3, CommitEnds
  <2> QED BY <1>1, <2>7, <2>8
<1> QED BY <1>2, <1>3

LEMMA EdgeRegisterInv ==
    ASSUME LibraryInv, NEW u \in Uploads, NEW k \in Commits, EdgeRegister(u, k)
    PROVE  LibraryInv'
<1>1. /\ com[u][k].at = "stored" /\ up[u] \in UploadRecords /\ com[u][k] \in CommitRecords
      /\ up[u].tree \in Trees /\ ~FromHub(u)
      /\ UNCHANGED <<links, bucket, folder, pr, purge, lost, left>>
  BY LibraryTyped DEF EdgeRegister, limits, UploadRecords, FromHub
<1>2. CASE Fails(u, k) /\ UNCHANGED <<packages, arts, issued>>
  BY <1>1, <1>2, FailsInv DEF tables
<1>3. CASE ~(Fails(u, k) /\ UNCHANGED <<packages, arts, issued>>)
  <2>1. /\ Insert(0, up[u].tree, NoSha, TRUE)
        /\ com' = [com EXCEPT ![u][k].at = "marking", ![u][k].pkg = PkgId(0)]
        /\ UNCHANGED up
    BY <1>3 DEF EdgeRegister
  <2>2. PICK tree \in Trees : tree = up[u].tree
    BY <1>1
  <2>3. /\ StoreInv' /\ Grows /\ \E pkg \in Nat : pkg = PkgId(0)
    <3>1. Insert(0, tree, NoSha, TRUE)
      BY <2>1, <2>2
    <3> HIDE DEF NoSha
    <3> QED BY <1>1, <3>1, InsertLemma, LibraryConstants
  <2>4. PICK pkg \in Nat : pkg = PkgId(0)
    BY <2>3
  <2>5. PICK c \in CommitRecords : c = [com[u][k] EXCEPT !.at = "marking", !.pkg = pkg]
    BY <1>1 DEF CommitRecords, CommitPlaces
  <2>6. c.at = "marking"
    BY <1>1, <2>5 DEF CommitRecords
  <2>7. com' = [com EXCEPT ![u] = [com[u] EXCEPT ![k] = c]]
    <3>1. com[u] \in [Commits -> CommitRecords] /\ com \in [Uploads -> [Commits -> CommitRecords]]
      BY LibraryTyped DEF LibraryInv, RequestTypes
    <3>2. com' = [com EXCEPT ![u][k].at = "marking", ![u][k].pkg = pkg]
      BY <2>1, <2>4
    <3> QED BY <2>5, <3>1, <3>2
  <2>8. PICK r \in UploadRecords : r = up[u] /\ up' = [up EXCEPT ![u] = r]
    BY <1>1, <2>1 DEF LibraryInv, RequestTypes
  <2>9. \A t : t = up[u].tree =>
            /\ c.at = "stored" /\ FromHub(u) => c.sha # NoSha /\ IsStored(t, c.sha)'
            /\ c.at = "linking" => Offered(c.pkg, t)'
    BY <2>6
  <2>10. /\ c.at = "packed" => c.sha # NoSha
         /\ c.at \in {"merging", "marking"} => ~FromHub(u)
         /\ up[u].open \/ com[u][k].at # "none"
         /\ UNCHANGED pr
    BY <1>1, <2>6
  <2> QED BY <2>3, <2>7, <2>8, <2>9, <2>10, CommitGoes
<1> QED BY <1>2, <1>3

LEMMA RowIsOne ==
    ASSUME LibraryInv, NEW pkg, NEW t, NEW a \in Row(pkg, t)
    PROVE  Row(pkg, t) = {a} /\ a \in Rows /\ a.pkg = pkg /\ a.tree = t
           /\ (a.s3 # NoSha => IsStored(a.tree, a.s3))
BY DEF Row, LibraryInv, StoreInv, StoreTypes, OneRow

(* A promotion is begun only as a free one, and holds nothing yet.         *)
LEMMA EdgeReadyInv ==
    ASSUME LibraryInv, NEW u \in Uploads, NEW k \in Commits, EdgeReady(u, k)
    PROVE  LibraryInv'
<1>1. /\ com[u][k].at = "marking" /\ up[u] \in UploadRecords /\ com[u][k] \in CommitRecords
      /\ up[u].tree \in Trees /\ ~FromHub(u)
      /\ UNCHANGED <<packages, links, issued, bucket, folder, purge, lost, left>>
  BY LibraryTyped DEF EdgeReady, limits, UploadRecords, UploadHolds, CommitHolds
<1>2. CASE Fails(u, k) /\ UNCHANGED <<arts, pr>>
  BY <1>1, <1>2, FailsInv DEF tables
<1>3. CASE ~(Fails(u, k) /\ UNCHANGED <<arts, pr>>)
  <2>1. PICK t \in Trees : t = up[u].tree
    BY <1>1
  <2>2. PICK pkg \in Nat : pkg = com[u][k].pkg
    BY <1>1 DEF CommitRecords
  <2>3. /\ Row(pkg, t) # {} /\ Ended(u, k, "done")
        /\ arts' = (arts \ Row(pkg, t)) \cup {[a EXCEPT !.ready = TRUE] : a \in Row(pkg, t)}
        /\ \/ UNCHANGED pr
           \/ \E p \in Promotes :
                 pr' = [pr EXCEPT ![p] = [NoPromote EXCEPT !.at = "looking", !.pkg = pkg,
                                                           !.tree = t]]
    BY <1>3, <2>1, <2>2 DEF EdgeReady
  <2>4. PICK a \in Row(pkg, t) : TRUE
    BY <2>3
  <2>5. /\ Row(pkg, t) = {a} /\ a \in Rows /\ a.pkg = pkg /\ a.tree = t
        /\ (a.s3 # NoSha => IsStored(a.tree, a.s3))
    BY RowIsOne
  <2>6. PICK new \in Rows : new = [a EXCEPT !.ready = TRUE]
    BY <2>5 DEF Rows
  <2>7. new.pkg = pkg /\ new.tree = t /\ new.s3 = a.s3
    BY <2>5, <2>6 DEF Rows
  <2>8. arts' = (arts \ Row(pkg, t)) \cup {new}
    BY <2>3, <2>5, <2>6
  <2>9. StoreInv' /\ Grows
    <3>1. packages' \in [Slugs -> Nat] /\ issued' \in Nat
      BY <1>1 DEF LibraryInv, StoreInv, StoreTypes
    <3> QED BY <1>1, <2>5, <2>7, <2>8, <3>1, RowReplaced
  <2>10. pr' \in [Promotes -> PromoteRecords] /\ \A p \in Promotes : pr'[p] = pr[p] \/ PromoteHolds(p)'
    <3>1. CASE UNCHANGED pr
      BY <3>1, FolderTyped
    <3>2. CASE ~UNCHANGED pr
      <4>1. PICK p \in Promotes :
                 pr' = [pr EXCEPT ![p] = [NoPromote EXCEPT !.at = "looking", !.pkg = pkg,
                                                           !.tree = t]]
        BY <2>3, <3>2
      <4>2. PICK q \in PromoteRecords :
               q = [NoPromote EXCEPT !.at = "looking", !.pkg = pkg, !.tree = t]
        BY <2>1, <2>2, LibraryConstants DEF PromoteRecords
      <4>3. pr' = [pr EXCEPT ![p] = q] /\ q.at = "looking"
        BY <4>1, <4>2, LibraryConstants DEF PromoteRecords
      <4> QED BY <4>3, FolderTyped DEF PromoteHolds
    <3> QED BY <3>1, <3>2
  <2> QED BY <1>1, <2>3, <2>9, <2>10, CommitEnds
<1> QED BY <1>2, <1>3

(* A promotion goes on, or ends.                                           *)
LEMMA PromotionGoes ==
    ASSUME LibraryInv, NEW p \in Promotes, NEW q \in PromoteRecords,
           pr' = [pr EXCEPT ![p] = q], UNCHANGED <<up, com>>, StoreInv', Grows,
           q.at \in {"packed", "exists", "stored"} => q.sha # NoSha,
           \A t : t = q.tree /\ q.at = "stored" => IsStored(t, q.sha)'
    PROVE  LibraryInv'
<1>1. /\ RequestTypes' /\ pr'[p] = q /\ \A r \in Promotes : r # p => pr'[r] = pr[r]
  BY DEF LibraryInv, RequestTypes
<1>2. PromoteHolds(p)'
  BY <1>1 DEF PromoteHolds
<1>3. \A r \in Promotes : pr'[r] = pr[r] \/ PromoteHolds(r)'
  BY <1>1, <1>2
<1> QED BY <1>1, <1>3, LibraryStep

LEMMA PromotionEnds ==
    ASSUME LibraryInv, NEW p \in Promotes, pr' = [pr EXCEPT ![p] = NoPromote],
           UNCHANGED <<up, com>>, StoreInv', Grows
    PROVE  LibraryInv'
<1>1. NoPromote \in PromoteRecords /\ NoPromote.at = "none"
  BY LibraryConstants DEF NoPromote
<1> HIDE DEF NoPromote
<1> QED BY <1>1, PromotionGoes

LEMMA PromoteLookInv ==
    ASSUME LibraryInv, NEW p \in Promotes, PromoteLook(p)
    PROVE  LibraryInv'
<1>1. /\ pr[p] \in PromoteRecords
      /\ UNCHANGED <<tables, bucket, folder, up, com, purge, lost, left>>
  BY FolderTyped DEF PromoteLook, limits
<1>2. StoreInv' /\ Grows
  BY <1>1, FolderTyped, Quiet
<1>3. CASE pr' = [pr EXCEPT ![p] = NoPromote]
  BY <1>1, <1>2, <1>3, PromotionEnds
<1>4. CASE To(p, "pulling")
  <2>1. PICK q \in PromoteRecords : q = [pr[p] EXCEPT !.at = "pulling"]
    BY <1>1 DEF PromoteRecords
  <2>2. q.at = "pulling" /\ pr' = [pr EXCEPT ![p] = q]
    BY <1>1, <1>4, <2>1 DEF PromoteRecords, To
  <2> QED BY <1>1, <1>2, <2>2, PromotionGoes
<1> QED BY <1>3, <1>4 DEF PromoteLook

LEMMA PromotePullInv ==
    ASSUME LibraryInv, NEW p \in Promotes, PromotePull(p)
    PROVE  LibraryInv'
<1>1. /\ pr[p] \in PromoteRecords /\ folder \in Trees
      /\ UNCHANGED <<tables, bucket, folder, up, com, purge, lost, left>>
  BY FolderTyped DEF PromotePull, limits
<1>2. StoreInv' /\ Grows
  BY <1>1, Quiet
<1>3. CASE pr' = [pr EXCEPT ![p] = NoPromote]
  BY <1>1, <1>2, <1>3, PromotionEnds
<1>4. CASE pr' # [pr EXCEPT ![p] = NoPromote]
  <2>1. PICK sha \in Archives : sha = [by |-> <<p, 0>>, tree |-> folder]
    BY <1>1, ModLibraryAssumption DEF Archives, Shas
  <2>2. folder # Empty /\ pr' = [pr EXCEPT ![p].at = "packed", ![p].sha = sha]
    BY <1>4, <2>1 DEF PromotePull
  <2>3. sha # NoSha
    BY <2>1, <2>2, LibraryConstants
  <2>4. PICK q \in PromoteRecords : q = [pr[p] EXCEPT !.at = "packed", !.sha = sha]
    BY <1>1 DEF PromoteRecords
  <2>5. q.at = "packed" /\ q.sha = sha
    BY <1>1, <2>4 DEF PromoteRecords
  <2>6. pr' = [pr EXCEPT ![p] = q]
    BY <2>2, <2>4, FolderTyped
  <2> QED BY <1>1, <1>2, <2>3, <2>5, <2>6, PromotionGoes
<1> QED BY <1>3, <1>4

LEMMA PromotePutInv ==
    ASSUME LibraryInv, NEW p \in Promotes, PromotePut(p)
    PROVE  LibraryInv'
<1>1. /\ pr[p] \in PromoteRecords /\ pr[p].at = "packed" /\ pr[p].sha # NoSha
      /\ pr[p].tree \in Trees /\ pr[p].sha \in Archives
      /\ UNCHANGED <<tables, folder, up, com, purge, lost, left>>
  BY FolderTyped DEF PromotePut, limits, LibraryInv, PromoteHolds, PromoteRecords
<1>2. CASE pr' = [pr EXCEPT ![p] = NoPromote] /\ UNCHANGED bucket
  <2>1. StoreInv' /\ Grows
    BY <1>1, <1>2, FolderTyped, Quiet
  <2> QED BY <1>1, <1>2, <2>1, PromotionEnds
<1>3. CASE ~(pr' = [pr EXCEPT ![p] = NoPromote] /\ UNCHANGED bucket)
  <2>1. PICK t \in Trees : t = pr[p].tree
    BY <1>1
  <2>2. PICK sha \in Archives : sha = pr[p].sha /\ sha # NoSha
    BY <1>1
  <2>3. PICK at \in {"exists", "stored"} :
           PutInto(t, sha, sha) /\ To(p, at) /\ (at = "exists" <=> Stored(t))
    BY <1>3, <2>1, <2>2 DEF PromotePut
  <2>4. StoreInv' /\ Grows /\ (~Stored(t) => IsStored(t, sha)')
    BY <1>1, <2>2, <2>3, PutLemma
  <2>5. PICK q \in PromoteRecords : q = [pr[p] EXCEPT !.at = at]
    BY <1>1 DEF PromoteRecords
  <2>6. /\ q.at = at /\ q.sha = sha /\ q.tree = t /\ pr' = [pr EXCEPT ![p] = q]
    BY <1>1, <2>1, <2>2, <2>3, <2>5 DEF PromoteRecords, To
  <2>7. /\ q.at \in {"packed", "exists", "stored"} => q.sha # NoSha
        /\ \A x : x = q.tree /\ q.at = "stored" => IsStored(x, q.sha)'
    BY <2>2, <2>3, <2>4, <2>6
  <2> QED BY <1>1, <2>4, <2>6, <2>7, PromotionGoes
<1> QED BY <1>2, <1>3

LEMMA PromoteHeadInv ==
    ASSUME LibraryInv, NEW p \in Promotes, PromoteHead(p)
    PROVE  LibraryInv'
<1>1. /\ pr[p] \in PromoteRecords /\ pr[p].tree \in Trees
      /\ UNCHANGED <<tables, bucket, folder, up, com, purge, lost, left>>
  BY FolderTyped DEF PromoteHead, limits, PromoteRecords
<1>2. StoreInv' /\ Grows
  BY <1>1, FolderTyped, Quiet
<1>3. CASE ~Stored(pr[p].tree)
  <2>1. pr' = [pr EXCEPT ![p] = NoPromote]
    BY <1>3 DEF PromoteHead
  <2> QED BY <1>1, <1>2, <2>1, PromotionEnds
<1>4. CASE Stored(pr[p].tree)
  <2>1. PICK t \in Trees : t = pr[p].tree
    BY <1>1
  <2>2. PICK sha \in Archives : sha = bucket[t].meta /\ sha # NoSha
    BY <1>4, <2>1 DEF LibraryInv, StoreInv, StoreTypes, HasHash, Stored, Objects
  <2>3. PICK q \in PromoteRecords : q = [pr[p] EXCEPT !.at = "stored", !.sha = sha]
    BY <1>1 DEF PromoteRecords
  <2>4. q.at = "stored" /\ q.sha = sha /\ q.tree = t
    BY <1>1, <2>1, <2>3 DEF PromoteRecords
  <2>5. pr' = [pr EXCEPT ![p] = q]
    <3>1. pr' = [pr EXCEPT ![p].at = "stored", ![p].sha = sha]
      BY <1>4, <2>1, <2>2 DEF PromoteHead
    <3> QED BY <2>3, <3>1, FolderTyped
  <2>6. \A x : x = q.tree /\ q.at = "stored" => IsStored(x, q.sha)'
    BY <1>1, <1>4, <2>1, <2>2, <2>4 DEF IsStored, Stored
  <2> QED BY <1>1, <1>2, <2>2, <2>4, <2>5, <2>6, PromotionGoes
<1> QED BY <1>3, <1>4

LEMMA PromoteMergeInv ==
    ASSUME LibraryInv, NEW p \in Promotes, PromoteMerge(p)
    PROVE  LibraryInv'
<1>1. /\ pr[p] \in PromoteRecords /\ pr[p].sha # NoSha /\ pr[p].sha \in Archives
      /\ pr[p].tree \in Trees /\ pr[p].pkg \in Nat /\ IsStored(pr[p].tree, pr[p].sha)
      /\ pr' = [pr EXCEPT ![p] = NoPromote]
      /\ UNCHANGED <<packages, links, issued, bucket, folder, up, com, purge, lost, left>>
  BY FolderTyped DEF PromoteMerge, limits, LibraryInv, PromoteHolds, PromoteRecords
<1>2. PICK t \in Trees : t = pr[p].tree
  BY <1>1
<1>3. PICK pkg \in Nat : pkg = pr[p].pkg
  BY <1>1
<1>4. PICK sha \in Archives : sha = pr[p].sha /\ sha # NoSha /\ IsStored(t, sha)
  BY <1>1, <1>2
<1>5. arts' = (arts \ Row(pkg, t)) \cup {[a EXCEPT !.s3 = sha] : a \in Row(pkg, t)}
  BY <1>2, <1>3, <1>4 DEF PromoteMerge
<1>6. CASE Row(pkg, t) = {}
  <2>1. arts' = arts
    BY <1>5, <1>6
  <2>2. StoreInv' /\ Grows
    BY <1>1, <2>1, FolderTyped, Quiet DEF tables
  <2> QED BY <1>1, <2>2, PromotionEnds
<1>7. CASE Row(pkg, t) # {}
  <2>1. PICK a \in Row(pkg, t) : TRUE
    BY <1>7
  <2>2. Row(pkg, t) = {a} /\ a \in Rows /\ a.pkg = pkg /\ a.tree = t
    BY RowIsOne
  <2>3. PICK new \in Rows : new = [a EXCEPT !.s3 = sha]
    BY <2>2 DEF Rows
  <2>4. new.pkg = pkg /\ new.tree = t /\ new.s3 = sha
    BY <2>2, <2>3 DEF Rows
  <2>5. arts' = (arts \ Row(pkg, t)) \cup {new}
    BY <1>5, <2>2, <2>3
  <2>6. packages' \in [Slugs -> Nat] /\ issued' \in Nat
    BY <1>1 DEF LibraryInv, StoreInv, StoreTypes
  <2>7. StoreInv' /\ Grows
    BY <1>1, <1>4, <2>4, <2>5, <2>6, RowReplaced
  <2> QED BY <1>1, <2>7, PromotionEnds
<1> QED BY <1>6, <1>7

(* A step of nobody's request and of no promotion.                         *)
LEMMA StoreStep ==
    ASSUME LibraryInv, UNCHANGED <<up, com, pr>>, StoreInv', Grows
    PROVE  LibraryInv'
<1>1. RequestTypes'
  BY DEF LibraryInv, RequestTypes
<1> QED BY <1>1, LibraryStep

(* Where a purge stands does not matter to the store.                      *)
LEMMA PurgeMoves ==
    ASSUME LibraryInv, UNCHANGED <<tables, bucket, up, com, pr, lost, left>>, folder' \in Trees,
           NEW r \in [at : {"none", "counting", "reading", "folder", "objects", "rows"},
                      pkg : Nat, keys : SUBSET Trees],
           purge' = r
    PROVE  LibraryInv'
<1>1. UNCHANGED <<packages, arts, links, issued>>
  BY DEF tables
<1>2. StoreTypes'
  BY <1>1 DEF LibraryInv, StoreInv, StoreTypes
<1>3. OneRow' /\ HasHash' /\ \A a \in arts' : a.s3 # NoSha => IsStored(a.tree, a.s3)'
  BY <1>1 DEF LibraryInv, StoreInv, OneRow, HasHash, IsStored, Stored
<1>4. Grows
  BY <1>1, NothingStored
<1> QED BY <1>2, <1>3, <1>4, StoreStep DEF StoreInv

LEMMA UnlinkInv ==
    ASSUME LibraryInv, NEW u \in Uploads, Unlink(u)
    PROVE  LibraryInv'
<1>1. PICK pkg \in 1..issued :
         /\ links' = links \ {<<u, pkg>>}
         /\ purge' = [NoPurge EXCEPT !.at = "counting", !.pkg = pkg]
  BY DEF Unlink
<1>2. /\ UNCHANGED <<packages, arts, issued, bucket, folder, up, com, pr, lost>>
      /\ left' = left \cup {u} /\ pkg \in Nat /\ StoreInv
  BY DEF Unlink, LibraryInv, StoreInv, StoreTypes
<1>3. StoreInv'
  <2>1. StoreTypes'
    BY <1>1, <1>2 DEF StoreInv, StoreTypes, NoPurge
  <2>2. OneRow' /\ HasHash' /\ \A a \in arts' : a.s3 # NoSha => IsStored(a.tree, a.s3)'
    BY <1>2 DEF StoreInv, OneRow, HasHash, IsStored, Stored
  <2> QED BY <2>1, <2>2 DEF StoreInv
<1>4. Grows
  <2>1. \A t, sha : IsStored(t, sha) => IsStored(t, sha)'
    BY <1>2 DEF IsStored, Stored
  <2>2. \A t : InLibrary(t)' = InLibrary(t)
    BY <1>2 DEF InLibrary
  <2>3. \A n, t : Offered(n, t) => Offered(n, t)'
    BY <1>2, <2>2, Zenon DEF Offered
  <2>4. ASSUME NEW v \in Uploads, NEW t, NEW mode, Listed(v, t, mode)
        PROVE  Listed(v, t, mode)'
    <3>1. \A n : v \in left \/ <<v, n>> \in links => v \in left' \/ <<v, n>> \in links'
      BY <1>1, <1>2
    <3> QED BY <1>2, <2>2, <2>4, <3>1, Zenon DEF Listed
  <2> QED BY <2>1, <2>3, <2>4 DEF Grows
<1> QED BY <1>2, <1>3, <1>4, StoreStep

LEMMA PurgeStepsInv ==
    ASSUME LibraryInv, UnlinkCount \/ AdminDeletes \/ PurgeReads \/ PurgeFolder
    PROVE  LibraryInv'
<1> DEFINE shapes == [at : {"none", "counting", "reading", "folder", "objects", "rows"},
                      pkg : Nat, keys : SUBSET Trees]
<1>1. /\ StoreInv /\ purge \in shapes /\ NoPurge \in shapes
      /\ folder \in Trees /\ packages \in [Slugs -> Nat] /\ arts \subseteq Rows
  BY DEF LibraryInv, StoreInv, StoreTypes, NoPurge
<1>2. UNCHANGED <<tables, bucket, up, com, pr, lost, left>>
  BY DEF UnlinkCount, AdminDeletes, PurgeReads, PurgeFolder, limits
<1>3. folder' \in Trees
  BY <1>1, LibraryConstants DEF UnlinkCount, AdminDeletes, PurgeReads, PurgeFolder
<1>4. purge' \in shapes
  <2>1. CASE UnlinkCount
    BY <1>1, <2>1 DEF UnlinkCount
  <2>2. CASE AdminDeletes
    BY <1>1, <2>2 DEF AdminDeletes, NoPurge
  <2>3. CASE PurgeReads
    <3> DEFINE keys == {a.tree : a \in {b \in arts : b.pkg = purge.pkg /\ b.s3 # NoSha}}
    <3>1. keys \in SUBSET Trees
      BY <1>1 DEF Rows
    <3>2. purge' \in {NoPurge, [purge EXCEPT !.at = "folder", !.keys = keys]}
      BY <2>3 DEF PurgeReads
    <3> HIDE DEF keys, NoPurge
    <3> QED BY <1>1, <3>1, <3>2
  <2>4. CASE PurgeFolder
    BY <1>1, <2>4 DEF PurgeFolder
  <2> QED BY <2>1, <2>2, <2>3, <2>4
<1>5. PICK r \in shapes : purge' = r
  BY <1>4
<1> QED BY <1>2, <1>3, <1>5, PurgeMoves

LEMMA PurgeObjectsInv ==
    ASSUME LibraryInv, PurgeObjects
    PROVE  LibraryInv'
<1>1. PICK gone \in SUBSET purge.keys :
         /\ bucket' = [t \in Trees |-> IF t \in gone THEN NoObject ELSE bucket[t]]
         /\ lost' = lost \cup gone
  BY DEF PurgeObjects
<1>2. /\ StoreInv /\ StoreTypes /\ UNCHANGED <<packages, arts, links, issued, folder, up, com, pr, left>>
      /\ purge' = [purge EXCEPT !.at = "rows"]
  BY DEF PurgeObjects, tables, LibraryInv, StoreInv
<1>3. gone \subseteq Trees
  BY <1>2 DEF StoreTypes
<1>4. /\ bucket' \in [Trees -> Objects]
      /\ \A t \in Trees : t \in gone \/ bucket'[t] = bucket[t]
      /\ \A t \in Trees : t \in gone => bucket'[t] = NoObject
  BY <1>1, <1>2 DEF StoreTypes, Objects
<1>5. Grows
  <2>1. RowsStay
    BY <1>2 DEF RowsStay
  <2> QED BY <1>1, <1>2, <1>4, <2>1, TablesGrow
<1>6. StoreTypes'
  BY <1>1, <1>2, <1>3, <1>4 DEF StoreTypes
<1>7. OneRow' /\ HasHash'
  BY <1>2, <1>4 DEF StoreInv, OneRow, HasHash, Stored
<1>8. \A a \in arts' : a.s3 # NoSha => IsStored(a.tree, a.s3)'
  <2>1. \A a \in arts : a.tree \in Trees /\ a.s3 \in Archives
    BY <1>2 DEF StoreTypes, Rows
  <2> QED BY <1>2, <1>5, <2>1, Zenon DEF StoreInv, Grows
<1> QED BY <1>2, <1>5, <1>6, <1>7, <1>8, StoreStep DEF StoreInv

LEMMA PurgeRowsInv ==
    ASSUME LibraryInv, PurgeRows
    PROVE  LibraryInv'
<1> DEFINE rows == {a \in arts : a.pkg = purge.pkg}
<1>1. /\ packages' = [s \in Slugs |-> IF packages[s] = purge.pkg THEN 0 ELSE packages[s]]
      /\ arts' = arts \ rows /\ links' = {l \in links : l[2] # purge.pkg}
      /\ lost' = lost \cup {a.tree : a \in rows} /\ purge' = NoPurge
      /\ UNCHANGED <<issued, bucket, folder, up, com, pr, left>>
  BY DEF PurgeRows
<1>2. StoreInv /\ StoreTypes
  BY DEF LibraryInv, StoreInv
<1>3. StoreTypes'
  <2>1. \A a \in rows : a.tree \in Trees
    BY <1>2 DEF StoreTypes, Rows
  <2>2. packages' \in [Slugs -> Nat] /\ lost' \subseteq Trees
    BY <1>1, <1>2, <2>1 DEF StoreTypes
  <2> HIDE DEF rows
  <2> QED BY <1>1, <1>2, <2>2 DEF StoreTypes, NoPurge
<1>4. \A t, sha : IsStored(t, sha) => IsStored(t, sha)'
  BY <1>1 DEF IsStored, Stored
<1>5. OneRow' /\ HasHash' /\ \A a \in arts' : a.s3 # NoSha => IsStored(a.tree, a.s3)'
  <2>1. OneRow' /\ HasHash'
    BY <1>1, <1>2 DEF StoreInv, OneRow, HasHash, Stored
  <2> QED BY <1>1, <1>2, <1>4, <2>1, Zenon DEF StoreInv
<1>6. ASSUME NEW t, NEW a \in InLibrary(t)
      PROVE  \/ t \in lost'
             \/ a \in InLibrary(t)' /\ \A u : <<u, a.pkg>> \in links => <<u, a.pkg>> \in links'
  <2>1. a \in arts /\ a.tree = t /\ a.s3 # NoSha
    BY <1>6 DEF InLibrary
  <2>2. CASE a \in rows
    BY <1>1, <2>1, <2>2
  <2>3. CASE a \notin rows
    BY <1>1, <2>1, <2>3 DEF InLibrary
  <2> QED BY <2>2, <2>3
<1>7. Grows
  <2> HIDE DEF rows
  <2>1. \A pkg \in Nat, t \in Trees : Offered(pkg, t) => Offered(pkg, t)'
    BY <1>1, <1>6 DEF Offered
  <2>2. \A u \in Uploads, t \in Trees, mode \in {"admin", "control"} :
          Listed(u, t, mode) => Listed(u, t, mode)'
    BY <1>1, <1>6 DEF Listed
  <2> QED BY <1>4, <2>1, <2>2 DEF Grows
<1> QED BY <1>1, <1>3, <1>5, <1>7, StoreStep DEF StoreInv

(* A restart answers what was under way, with nothing promised.            *)
LEMMA DroppedInv ==
    ASSUME LibraryInv, NEW kinds, Dropped(kinds), UNCHANGED <<tables, bucket, folder, lost, left>>,
           \/ UNCHANGED <<pr, purge>>
           \/ pr' = [p \in Promotes |-> NoPromote] /\ purge' = NoPurge
    PROVE  LibraryInv'
<1>1. UNCHANGED <<packages, arts, links, issued>>
  BY DEF tables
<1>2. StoreInv' /\ Grows
  <2>1. StoreTypes'
    BY <1>1 DEF LibraryInv, StoreInv, StoreTypes, NoPurge
  <2>2. OneRow' /\ HasHash' /\ \A a \in arts' : a.s3 # NoSha => IsStored(a.tree, a.s3)'
    BY <1>1 DEF LibraryInv, StoreInv, OneRow, HasHash, IsStored, Stored
  <2>3. Grows
    BY <1>1, NothingStored
  <2> QED BY <2>1, <2>2, <2>3 DEF StoreInv
<1>3. ASSUME NEW u \in Uploads
      PROVE  /\ up'[u] \in UploadRecords /\ com'[u] \in [Commits -> CommitRecords]
             /\ (up'[u] = up[u] /\ com'[u] = com[u]) \/ UploadHolds(u)'
  <2>1. /\ Answered(u, "failed") \in UploadRecords /\ Answered(u, "failed").at = "failed"
        /\ Answered(u, "failed").kind = up[u].kind
        /\ up[u] \in UploadRecords /\ com[u] \in [Commits -> CommitRecords] /\ UploadHolds(u)
        /\ up[u].tree \in Trees /\ up[u].mode \in {"admin", "control"}
    BY AnsweredIs, LibraryTyped DEF UploadRecords
  <2>2. CASE up[u].kind \notin kinds
    BY <2>1, <2>2 DEF Dropped
  <2>3. CASE up[u].kind \in kinds
    <3>1. com'[u] = [k \in Commits |-> NoCommit]
      BY <2>3 DEF Dropped
    <3>2. com'[u] \in [Commits -> CommitRecords] /\ \A k \in Commits : com'[u][k].at = "none"
      <4>1. NoCommit.at = "none"
        BY DEF NoCommit
      <4> HIDE DEF NoCommit
      <4> QED BY <3>1, <4>1, LibraryConstants
    <3>3. CASE up[u].at \in {"done", "failed"}
      <4>1. up'[u] = up[u]
        BY <2>3, <3>3 DEF Dropped
      <4>2. UploadHolds(u)'
        <5>1. (up[u].at = "done" /\ FromHub(u) => Listed(u, up[u].tree, up[u].mode))'
          BY <1>2, <2>1, <4>1, Zenon DEF UploadHolds, Grows, FromHub
        <5> QED BY <3>2, <3>3, <4>1, <5>1
                DEF UploadHolds, CommitsFollow, EdgeOnly, CommitHolds, Before
      <4> QED BY <2>1, <3>2, <4>1, <4>2
    <3>4. CASE up[u].at \notin {"done", "failed"}
      <4>1. up'[u] = Answered(u, "failed")
        BY <2>3, <3>4 DEF Dropped
      <4>2. UploadHolds(u)'
        BY <2>1, <3>2, <4>1 DEF UploadHolds, CommitsFollow, EdgeOnly, CommitHolds, Before
      <4> QED BY <2>1, <3>2, <4>1, <4>2
    <3> QED BY <3>3, <3>4
  <2> QED BY <2>2, <2>3
<1>4. pr' \in [Promotes -> PromoteRecords] /\ \A p \in Promotes : pr'[p] = pr[p] \/ PromoteHolds(p)'
  <2>1. NoPromote \in PromoteRecords /\ NoPromote.at = "none"
    BY LibraryConstants DEF NoPromote
  <2> HIDE DEF NoPromote
  <2> QED BY <2>1, FolderTyped DEF PromoteHolds
<1>5. RequestTypes'
  <2>1. \E f, g : up' = [u \in Uploads |-> f[u]] /\ com' = [u \in Uploads |-> g[u]]
    BY DEF Dropped
  <2> QED BY <1>3, <1>4, <2>1 DEF RequestTypes
<1> QED BY <1>2, <1>3, <1>4, <1>5, LibraryStep

LEMMA LibraryInitInv == Init => LibraryInv
<1> SUFFICES ASSUME Init PROVE LibraryInv
  OBVIOUS
<1>1. RequestTypes
  <2> HIDE DEF NoUpload, NoCommit, NoPromote
  <2> QED BY LibraryConstants DEF Init, RequestTypes
<1>2. StoreInv
  <2>1. NoObject \in Objects
    BY DEF Objects
  <2>2. StoreTypes
    <3> HIDE DEF NoObject, Empty
    <3> QED BY <2>1, LibraryConstants DEF Init, StoreTypes, NoPurge
  <2>3. OneRow /\ HasHash /\ arts = {}
    BY DEF Init, OneRow, HasHash, Stored
  <2> QED BY <2>2, <2>3 DEF StoreInv
<1>3. ASSUME NEW u \in Uploads PROVE UploadHolds(u)
  <2>1. up[u] = NoUpload /\ \A k \in Commits : com[u][k] = NoCommit
    BY DEF Init
  <2>2. NoUpload.at = "idle" /\ ~NoUpload.open /\ NoCommit.at = "none"
    BY DEF NoUpload, NoCommit
  <2> HIDE DEF NoUpload, NoCommit
  <2> QED BY <2>1, <2>2 DEF UploadHolds, CommitsFollow, EdgeOnly, CommitHolds
<1>4. ASSUME NEW p \in Promotes PROVE PromoteHolds(p)
  BY DEF Init, PromoteHolds, NoPromote
<1> QED BY <1>1, <1>2, <1>3, <1>4 DEF LibraryInv

LEMMA LibraryNextInv ==
    ASSUME LibraryInv, Next
    PROVE  LibraryInv'
<1>1. ASSUME NEW u \in Uploads,
             AskLibrary(u) \/ AskZip(u) \/ AskEdge(u) \/ AskAdopt(u)
      PROVE  LibraryInv'
  BY <1>1, ArrivesInv DEF AskLibrary, AskZip, AskEdge, AskAdopt, Kinds, Before
<1>2. ASSUME NEW u \in Uploads, Unpack(u) \/ Look(u) \/ Allocate(u) \/ EdgePlan(u)
      PROVE  LibraryInv'
  BY <1>2, EarlyStepsInv
<1>3. ASSUME NEW u \in Uploads, PutFile(u) \/ EdgePutFile(u) PROVE LibraryInv'
  BY <1>3, StagedInv DEF PutFile, EdgePutFile, Files, Needed
<1>4. ASSUME NEW u \in Uploads,
             LinkExisting(u) \/ ZipAllocate(u) \/ Adopt(u) \/ Expire(u) \/ Unlink(u)
      PROVE  LibraryInv'
  BY <1>4, LinkExistingInv, ZipAllocateInv, AdoptInv, ExpireInv, UnlinkInv
<1>5. ASSUME NEW u \in Uploads, NEW k \in Commits, CommitStep(u, k) PROVE LibraryInv'
  <2>1. CASE Commit(u, k) \/ EdgeCommit(u, k)
    BY <2>1, StartsInv DEF Commit, EdgeCommit
  <2>2. CASE Build(u, k)
    BY <2>2, BuiltInv DEF Build
  <2>3. CASE EdgeBuild(u, k)
    <3>1. ~FromHub(u) /\ Built(u, k, "merging")
      BY <2>3 DEF EdgeBuild, FromHub
    <3> QED BY <3>1, BuiltInv
  <2>4. CASE Pack(u, k) \/ StoreObject(u, k) \/ Head(u, k) \/ Register(u, k) \/ Link(u, k)
    BY <2>4, PackInv, StoreObjectInv, HeadInv, RegisterInv, LinkInv
  <2>5. CASE MergeFile(u, k) \/ EdgeRegister(u, k) \/ EdgeReady(u, k)
    BY <2>5, MergeFileInv, EdgeRegisterInv, EdgeReadyInv
  <2> QED BY <1>5, <2>1, <2>2, <2>3, <2>4, <2>5 DEF CommitStep
<1>6. ASSUME NEW p \in Promotes, PromoteStep(p) PROVE LibraryInv'
  BY <1>6, PromoteLookInv, PromotePullInv, PromotePutInv, PromoteHeadInv, PromoteMergeInv
     DEF PromoteStep
<1>7. CASE UnlinkCount \/ AdminDeletes \/ PurgeReads \/ PurgeFolder \/ PurgeObjects \/ PurgeRows
  BY <1>7, PurgeStepsInv, PurgeObjectsInv, PurgeRowsInv
<1>8. CASE HubRestarts \/ EdgeRestarts
  BY <1>8, DroppedInv DEF HubRestarts, EdgeRestarts
<1> QED BY <1>1, <1>2, <1>3, <1>4, <1>5, <1>6, <1>7, <1>8 DEF Next

(* What the two properties of the library rest on: the catalog and the     *)
(* bucket agree, and each request, commit and promotion holds what the     *)
(* place it has reached promises, whichever others are under way.          *)
THEOREM LibraryInvariant == HubModsSpec => []LibraryInv
<1>1. HubModsInit => LibraryInv
  BY LibraryInitInv DEF HubModsInit
<1>2. LibraryInv /\ [HubModsNext]_hubModsVars => LibraryInv'
  <2> SUFFICES ASSUME LibraryInv, [HubModsNext]_hubModsVars PROVE LibraryInv'
    OBVIOUS
  <2>1. CASE Next
    BY <2>1, LibraryNextInv
  <2>2. CASE UNCHANGED vars
    <3>1. UNCHANGED <<packages, arts, links, issued, bucket, folder, up, com, pr, purge, lost, left>>
      BY <2>2 DEF vars, tables, limits
    <3>2. folder' \in Trees
      BY <3>1, FolderTyped
    <3>3. StoreInv' /\ Grows
      BY <3>1, <3>2, StoreSame, NothingStored
    <3> QED BY <3>1, <3>3, StoreStep
  <2> QED BY <2>1, <2>2 DEF HubModsNext, hubModsVars
<1> QED BY <1>1, <1>2, PTL DEF HubModsSpec

(* What the catalog offers for download is in the bucket under the hash    *)
(* the catalog says, unless a purge took it: an upload's own archive, one  *)
(* that was there before (Head), or a promotion's (objectStorage.ts,       *)
(* promoteArtifactToS3.ts).                                                *)
THEOREM CatalogIsStored == HubModsSpec => []AvailableMeansStored
<1>1. LibraryInv => AvailableMeansStored
  BY DEF LibraryInv, StoreInv, AvailableMeansStored, IsStored
<1> QED BY <1>1, LibraryInvariant, PTL

(* A client told that its upload succeeded, or was not needed, finds the   *)
(* content in the library and its bucket, and in its own list, until a     *)
(* purge takes it or it unlinks (hubLibrarySlimUpload.ts,                  *)
(* hubLibraryZipUpload.ts).                                                *)
THEOREM UploadsAreServed == HubModsSpec => []AckedIsServed
<1>1. LibraryInv => AckedIsServed
  <2> SUFFICES ASSUME LibraryInv, NEW u \in Uploads, up[u].at = "done", FromHub(u),
                      up[u].tree \notin lost
               PROVE  \E a \in InLibrary(up[u].tree) :
                         /\ Stored(a.tree)
                         /\ up[u].mode = "control" => u \in left \/ <<u, a.pkg>> \in links
    BY DEF AckedIsServed, FromHub
  <2>1. Listed(u, up[u].tree, up[u].mode)
    BY LibraryTyped DEF UploadHolds
  <2>2. PICK a \in InLibrary(up[u].tree) :
           up[u].mode = "control" => u \in left \/ <<u, a.pkg>> \in links
    BY <2>1, Zenon DEF Listed
  <2>3. a \in arts /\ a.tree = up[u].tree /\ a.s3 # NoSha
    BY <2>2 DEF InLibrary
  <2>4. Stored(a.tree)
    BY <2>3 DEF LibraryInv, StoreInv, IsStored
  <2> QED BY <2>2, <2>4
<1> QED BY <1>1, LibraryInvariant, PTL

=============================================================================
