----------------------------- MODULE ServersPage ----------------------------
(***************************************************************************)
(* The hub's page of server instances and the edges that have them         *)
(* (src/packages: ac-data-backend public/js/panels/servers.js,             *)
(* public/js/lib/branding.js, controller/adminController.ts,               *)
(* services/fleet; ac-data-edge controller/adminController.ts,             *)
(* services/serverProvision.ts; ac-data-shared services/serverBranding.ts, *)
(* services/serverInstanceConfig.ts).                                      *)
(*                                                                         *)
(* The page shows the merged list of all edges' server folders.  It has    *)
(* folders made, removed, renamed and branded by requests that the hub      *)
(* passes on to the edge, several at a time if the admin does not wait, and *)
(* loads the list again after each answer.  Loads overtake each other, so   *)
(* each takes a number from brandingLoadSeq, and the answer to any but the  *)
(* last is dropped; a branding save takes a number too.                     *)
(*                                                                         *)
(* One page, fleet mode.  Instances are the numbers of their folder names:  *)
(* 0 for server, n for server-n.                                            *)
(***************************************************************************)
EXTENDS Integers

CONSTANTS
    Hosts,              \* the fleet's edges
    Furnished,          \* those that have a server folder at the start
    Titles,             \* display names
    NoHost, NoTitle,
    MaxIndex,           \* bound: folders of an edge
    MaxLoads, MaxCalls, \* bound: loads and requests under way at once
    MaxPageRequests,    \* bound: requests and reloads the admin asks for
    MaxPageFaults       \* bound: calls that fail or whose answer is lost

ASSUME ServersPageAssumption ==
    /\ MaxIndex \in Nat /\ MaxPageRequests \in Nat /\ MaxPageFaults \in Nat
    /\ MaxLoads \in Nat \ {0} /\ MaxCalls \in Nat /\ Furnished \subseteq Hosts

VARIABLES
    disk,               \* [Hosts -> [0 .. MaxIndex -> folder]]
    rows,               \* serverList: the instances shown
    load,               \* [Loads -> loadServersPanel under way]
    call,            \* [Calls -> request under way]
    pageRequests, pageFaults,
    failed              \* a call has failed: the list may stay as it is

pageVars == <<disk, rows, load, call, pageRequests, pageFaults, failed>>

Indices == 0 .. MaxIndex
Loads == 1 .. MaxLoads
Calls == 1 .. MaxCalls

(* Slots are alike, so the first idle one is taken.                         *)
FirstIdle(f) ==
    {x \in DOMAIN f : f[x].at = "idle" /\ \A y \in 1 .. x - 1 : f[y].at # "idle"}

(* brand: from the template, written by the server's own form, or by the    *)
(* form for all.                                                           *)
Absent == [there |-> FALSE, title |-> NoTitle, brand |-> "plain"]
Instance(title, brand) == [there |-> TRUE, title |-> title, brand |-> brand]

Row(h, i) == [host |-> h, index |-> i, title |-> disk[h][i].title]
RowsOf(h) == {Row(h, i) : i \in {j \in Indices : disk[h][j].there}}

NoLoad == [at |-> "idle", last |-> FALSE, waits |-> {}, rows |-> {}]
NewLoad == [at |-> "reading", last |-> TRUE, waits |-> Hosts, rows |-> {}]

(* host: the edge asked; targets: <<edge, index>> of the servers meant.  Of *)
(* a branding save, todo: edges still to ask; last: nothing has taken a     *)
(* number since; changed: servers another request has written since.        *)
NoCall == [kind |-> "idle", at |-> "idle", host |-> NoHost, targets |-> {},
              title |-> NoTitle, ok |-> TRUE, todo |-> {}, last |-> FALSE,
              changed |-> {}]

FirstTitle == CHOOSE t \in Titles : TRUE

PageInit ==
    /\ disk = [h \in Hosts |-> [i \in Indices |->
                  IF h \in Furnished /\ i = 0 THEN Instance(FirstTitle, "plain")
                  ELSE Absent]]
    /\ rows = {} /\ call = [r \in Calls |-> NoCall]
    /\ load = [l \in Loads |-> IF l = 1 THEN NewLoad ELSE NoLoad]
    /\ pageRequests = 0 /\ pageFaults = 0 /\ failed = FALSE

PageRequest == pageRequests < MaxPageRequests /\ pageRequests' = pageRequests + 1

PageFault ==
    /\ pageFaults < MaxPageFaults /\ pageFaults' = pageFaults + 1
    /\ failed' = TRUE

-----------------------------------------------------------------------------
(* The list *)

(* ++brandingLoadSeq: what is under way is no longer the last.              *)
Outnumbered(f) == [x \in DOMAIN f |-> [f[x] EXCEPT !.last = FALSE]]

(* loadServersPanel, asked by the admin or by the answer to a request.      *)
StartsLoad ==
    \E l \in FirstIdle(load) : load' = [Outnumbered(load) EXCEPT ![l] = NewLoad]

Reload ==
    /\ PageRequest /\ StartsLoad /\ call' = Outnumbered(call)
    /\ UNCHANGED <<disk, rows, pageFaults, failed>>

(* fetchMergedFleetServers asks the edges at once, each answers when it     *)
(* does; one that fails is left out, with a warning.                        *)
ReadHost(l, h) ==
    /\ load[l].at = "reading" /\ h \in load[l].waits
    /\ \/ /\ load' = [load EXCEPT ![l].waits = @ \ {h}, ![l].rows = @ \cup RowsOf(h)]
          /\ UNCHANGED <<pageFaults, failed>>
       \/ /\ PageFault
          /\ load' = [load EXCEPT ![l].waits = @ \ {h}]
    /\ UNCHANGED <<disk, rows, call, pageRequests>>

(* The page does not get the list at all; what it shows stays.              *)
LoadFails(l) ==
    /\ PageFault /\ load[l].at = "reading"
    /\ load' = [load EXCEPT ![l] = NoLoad]
    /\ UNCHANGED <<disk, rows, call, pageRequests>>

\* MUTANT: an answer is shown whenever it comes.
ShowAny(l) == rows' = load[l].rows

Show(l) == rows' = IF load[l].last THEN load[l].rows ELSE rows

LoadShown(l) ==
    /\ load[l].at = "reading" /\ load[l].waits = {}
    /\ Show(l)
    /\ load' = [load EXCEPT ![l] = NoLoad]
    /\ UNCHANGED <<disk, call, pageRequests, pageFaults, failed>>

-----------------------------------------------------------------------------
(* Requests *)

(* A form's button is disabled while its request runs, but opening another  *)
(* server enables that of saveServerConfig again.                           *)
Asks(req) ==
    /\ PageRequest
    /\ req.kind = "style" \/ \A r \in Calls : call[r].kind # req.kind
    /\ \E r \in FirstIdle(call) : call' = [call EXCEPT ![r] = req]
    /\ UNCHANGED <<disk, rows, load, pageFaults, failed>>

NewCall(kind, h) == [NoCall EXCEPT !.kind = kind, !.at = "sent", !.host = h]

OnRow(kind, row) == [NewCall(kind, row.host) EXCEPT !.targets = {<<row.host, row.index>>}]

(* submitServerProvision *)
AskProvision(h, t) == Asks([NewCall("provision", h) EXCEPT !.title = t])

(* deprovisionActiveServer *)
AskRemove(row) == Asks(OnRow("remove", row))

(* saveServerLobby: whatever is in the form is sent for the server that is  *)
(* open now.                                                               *)
AskLobby(row, t) == Asks([OnRow("lobby", row) EXCEPT !.title = t])

(* saveServerConfig: the branding of one server.                            *)
AskStyle(row) == Asks(OnRow("style", row))

(* saveGlobalBranding takes a number, which drops a load under way; its     *)
(* button is disabled while it runs.                                       *)
AskBranding(chosen) ==
    /\ PageRequest /\ chosen # {}
    /\ \A r \in Calls : call[r].kind # "branding"
    /\ \E r \in FirstIdle(call) :
         call' = [call EXCEPT ![r] =
             [NoCall EXCEPT !.kind = "branding", !.at = "next", !.last = TRUE,
                            !.todo = {row.host : row \in chosen},
                            !.targets = {<<row.host, row.index>> : row \in chosen}]]
    /\ load' = Outnumbered(load)
    /\ UNCHANGED <<disk, rows, pageFaults, failed>>

(* applyBrandingToTargets: one edge after the other, each request passed on *)
(* by the hub's updateServerBrandingHandler.                                *)
SendNext(r) ==
    /\ call[r].at = "next"
    /\ \E h \in call[r].todo :
         call' = [call EXCEPT ![r].at = "sent", ![r].host = h, ![r].todo = @ \ {h}]
    /\ UNCHANGED <<disk, rows, load, pageRequests, pageFaults, failed>>

-----------------------------------------------------------------------------
(* The edge: what a request does to its folders, each without giving way to *)
(* another request, but that a removal first stops the server.              *)

(* nextServerFolderName *)
NextIndex(h) ==
    LET taken == {i \in Indices : disk[h][i].there}
    IN  IF taken = {} THEN 0
        ELSE 1 + CHOOSE i \in taken : \A j \in taken : j <= i

Named(req, h) == {i \in Indices : <<h, i>> \in req.targets /\ disk[h][i].there}

(* provisionServerInstance *)
Provisioned(req, h) == [disk[h] EXCEPT ![NextIndex(h)] = Instance(req.title, "plain")]

(* The deletion in deprovisionServerInstance.                               *)
Removed(req, h) == [i \in Indices |-> IF i \in Named(req, h) THEN Absent ELSE disk[h][i]]

(* updateServerInstanceConfig: the name, or what readServerFields sends.    *)
Configured(req, h) ==
    [i \in Indices |-> IF i \notin Named(req, h) THEN disk[h][i]
                       ELSE IF req.kind = "lobby" THEN [disk[h][i] EXCEPT !.title = req.title]
                       ELSE [disk[h][i] EXCEPT !.brand = "style"]]

(* applyBrandingToServers, which passes over folders that have gone.        *)
Branded(req, h) ==
    [i \in Indices |-> IF i \in Named(req, h) THEN [disk[h][i] EXCEPT !.brand = "branding"]
                       ELSE disk[h][i]]

(* The hub passes a request on to the edge it names, where it is one of     *)
(* these.                                                                  *)
Served(req, h) ==
    CASE req.kind = "provision"         -> Provisioned(req, h)
      [] req.kind = "remove"            -> Removed(req, h)
      [] req.kind \in {"lobby", "style"} -> Configured(req, h)
      [] req.kind = "branding"          -> Branded(req, h)

(* A folder that has gone is an error, but not to the branding of all nor   *)
(* to a removal that has found it; a number beyond the bound counts as a    *)
(* failed copy.                                                            *)
Refused(req, h) ==
    \/ req.kind = "provision" /\ NextIndex(h) \notin Indices
    \/ /\ req.kind \in {"remove", "lobby", "style"} /\ req.at = "sent"
       /\ Named(req, h) = {}

(* deprovisionServerInstance has found the folder and awaits the server's   *)
(* end.                                                                    *)
EdgeStopsServer(r) ==
    /\ call[r].kind = "remove" /\ call[r].at = "sent" /\ ~Refused(call[r], call[r].host)
    /\ call' = [call EXCEPT ![r].at = "stopping"]
    /\ UNCHANGED <<disk, rows, load, pageRequests, pageFaults, failed>>

\* MUTANT: the save's success is that of the last edge.
LastOutcome(req, ok) == ok

(* applyBrandingToTargets: an error of one edge is an error of the save.    *)
Outcome(req, ok) == req.ok /\ ok

EdgeServes(r) ==
    LET h == call[r].host
        refused == Refused(call[r], h)
        written == {<<h, i>> : i \in {j \in Indices : disk'[h][j] # disk[h][j]}}
    IN  /\ \/ call[r].at = "stopping"
           \/ call[r].at = "sent" /\ (call[r].kind = "remove" => refused)
        /\ disk' = IF refused THEN disk ELSE [disk EXCEPT ![h] = Served(call[r], h)]
        /\ call' = [q \in Calls |->
             IF q = r
             THEN [call[r] EXCEPT !.at = "served", !.ok = Outcome(call[r], ~refused)]
             ELSE IF call[q].kind = "branding"
             THEN [call[q] EXCEPT !.changed = @ \cup written]
             ELSE call[q]]
        /\ UNCHANGED <<rows, load, pageRequests, pageFaults, failed>>

(* proxyAdminRequestToEdge does not reach the edge, or gives up waiting for *)
(* its answer; or the page does not reach the hub, which also ends the      *)
(* loop over the edges.                                                    *)
CallFails(r) ==
    /\ PageFault /\ call[r].at \in {"sent", "stopping", "served"}
    /\ \E rest \in {call[r].todo, {}} :
         call' = [call EXCEPT ![r].at = "served", ![r].todo = rest,
                              ![r].ok = Outcome(call[r], FALSE)]
    /\ UNCHANGED <<disk, rows, load, pageRequests>>

(* The page has its answer: after a success it loads the list again, unless *)
(* a branding save has been overtaken.                                     *)
Succeeds(r) ==
    /\ call[r].at = "served" /\ call[r].todo = {} /\ call[r].ok
    /\ call[r].kind = "branding" => call[r].last

Answered(r) ==
    /\ call[r].at = "served"
    /\ IF call[r].todo # {}
       THEN call' = [call EXCEPT ![r].at = "next"] /\ UNCHANGED load
       ELSE IF Succeeds(r)
       THEN StartsLoad /\ call' = [Outnumbered(call) EXCEPT ![r] = NoCall]
       ELSE call' = [call EXCEPT ![r] = NoCall] /\ UNCHANGED load
    /\ UNCHANGED <<disk, rows, pageRequests, pageFaults, failed>>

PageNext ==
    \/ Reload
    \/ \E h \in Hosts, t \in Titles : AskProvision(h, t)
    \/ \E row \in rows : AskRemove(row) \/ AskStyle(row)
    \/ \E row \in rows, t \in Titles : AskLobby(row, t)
    \/ \E chosen \in SUBSET rows : AskBranding(chosen)
    \/ \E l \in Loads : LoadShown(l) \/ LoadFails(l) \/ \E h \in Hosts : ReadHost(l, h)
    \/ \E r \in Calls : SendNext(r) \/ EdgeStopsServer(r) \/ EdgeServes(r) \/ CallFails(r)
                         \/ Answered(r)

-----------------------------------------------------------------------------
PageTypeOK ==
    /\ \A h \in Hosts, i \in Indices :
         /\ disk[h][i].title \in Titles \cup {NoTitle}
         /\ disk[h][i].brand \in {"plain", "style", "branding"}
    /\ \A row \in rows : row.host \in Hosts /\ row.index \in Indices
    /\ \A l \in Loads : load[l].waits \subseteq Hosts
    /\ \A r \in Calls :
         /\ call[r].at \in {"idle", "next", "sent", "stopping", "served"}
         /\ call[r].targets \cup call[r].changed \subseteq Hosts \X Indices

(* However loads and requests overtake each other, the page ends with the  *)
(* folders and names the edges have, unless a call has failed: the answer  *)
(* to every request starts a load, and only the last one's rows stay.       *)
ListCatchesUp ==
    <>[](failed \/ rows = UNION {RowsOf(h) : h \in Hosts})

(* When the branding form reports success, each server it was applied to   *)
(* carries the branding, whichever of the edges it asked one after the     *)
(* other failed, unless another request has written the server since or it *)
(* has gone.                                                               *)
AppliedEverywhere ==
    \A r \in Calls :
        call[r].kind = "branding" /\ Succeeds(r) =>
            \A t \in call[r].targets \ call[r].changed :
                disk[t[1]][t[2]].there => disk[t[1]][t[2]].brand = "branding"
=============================================================================
