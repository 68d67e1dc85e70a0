----------------------------- MODULE ModLibrary -----------------------------
(***************************************************************************)
(* The mod library of the hub: how content gets in and out of it           *)
(* (src/packages/ac-data-backend/src/services/mods/hubLibrarySlimUpload.ts,*)
(* hubLibraryZipUpload.ts, promoteArtifactToS3.ts, s3LibraryRegister.ts,   *)
(* edgeRegister.ts, unlinkSteamMod.ts, and on the edge                     *)
(* src/packages/ac-data-edge/src/services/modAgent/slimUploadSession.ts    *)
(* and adoptLocalFolder.ts).                                               *)
(*                                                                         *)
(* Content is a tree of files and its identity is the hash of the tree, so *)
(* a tree stands for its hash here, and the bucket has one key per tree.   *)
(* A client uploads file by file into a session and commits it; a user may *)
(* also send a ZIP; an edge registers a folder it has and the hub then     *)
(* tries to promote it, that is to pull the folder and store it.  A slug   *)
(* is a number: 0 is the slug asked for, n stands for its suffix -cn.      *)
(*                                                                         *)
(* A handler is cut at its awaits where another one can change what it has *)
(* read.  One edge; all requests ask for the same slug; the database, the  *)
(* bucket and tar may fail wherever they are called.                       *)
(***************************************************************************)
EXTENDS Integers, FiniteSets

CONSTANTS
    Paths,           \* the files a mod can have
    Versions,        \* the contents a file can have
    Uploads,         \* the requests that bring content, each of its own user
    Requests,        \* what a request can be: records [kind, mode, tree]
    MaxSuffix,       \* LIBRARY_SLUG_MAX_CN
    Commits,         \* the commits a client may send for one session
    Promotes,        \* bound: promotions under way at the same time
    MaxOps,          \* bound: unlinkings, deletions, restarts, expiries, repeated commits
    MaxIds           \* bound: packages inserted

Trees == [Paths -> Versions \cup {"absent"}]

Empty == [p \in Paths |-> "absent"]

Slugs == 0..MaxSuffix

ASSUME ModLibraryAssumption ==
    /\ "absent" \notin Versions
    /\ Requests \subseteq [kind : {"library", "zip", "edge", "adopt"},
                           mode : {"admin", "control"}, tree : Trees \ {Empty}]
    /\ Commits \subseteq Nat \ {0} /\ 1 \in Commits
    /\ MaxSuffix \in Nat /\ MaxOps \in Nat /\ MaxIds \in Nat

VARIABLES
    packages,    \* mod_packages: the id of each slug's row, 0 without one
    arts,        \* mod_artifacts and their edge_artifact_inventory: records
                 \* [pkg, tree, s3, folder, ready]; one row per package and tree
    links,       \* mod_steam_links: pairs of a user and a package id
    issued,      \* package ids given so far
    bucket,      \* the stored object of each tree
    folder,      \* the content folder of slug 0 on the edge
    up,          \* the requests that bring content
    com,         \* the commits of their sessions
    pr,          \* the promotions
    purge,       \* an unlinking or deletion
    lost,        \* history: trees a purge has deleted the row or the object of
    left,        \* history: users who have unlinked
    ops          \* how many of MaxOps there have been

tables == <<packages, arts, links, issued>>
limits == <<lost, left, ops>>
vars == <<tables, bucket, folder, up, com, pr, purge, limits>>

NoSha == [by |-> <<"nobody", 0>>, tree |-> Empty]
NoObject == [bytes |-> NoSha, meta |-> NoSha]
NoUpload == [at |-> "idle", kind |-> "none", mode |-> "admin", tree |-> Empty, slug |-> 0,
             pkg |-> 0, open |-> FALSE, staged |-> {}, dir |-> "none", gz |-> NoSha]
NoCommit == [at |-> "none", sha |-> NoSha, pkg |-> 0, rest |-> {}]
NoPromote == [at |-> "none", pkg |-> 0, tree |-> Empty, sha |-> NoSha]
NoPurge == [at |-> "none", pkg |-> 0, keys |-> {}]

Files(t) == {p \in Paths : t[p] # "absent"}

\* Two packings of one tree give different archives: a hash names its maker.
Shas == [by : (Uploads \cup Promotes) \X (Commits \cup {0}), tree : Trees]

\* What a reader may find of tree t while it is being written or removed.
Parts(t) == {x \in Trees : \A p \in Paths : x[p] \in {t[p], "absent"}}

Stored(t) == bucket[t] # NoObject

Live(pkg) == \E s \in Slugs : packages[s] = pkg /\ pkg # 0

\* Artifacts go only with their package, so these two name an artifact for good.
Row(pkg, t) == {a \in arts : a.pkg = pkg /\ a.tree = t}

Init ==
    /\ packages = [s \in Slugs |-> 0]
    /\ arts = {} /\ links = {} /\ issued = 0
    /\ bucket = [t \in Trees |-> NoObject]
    /\ folder = Empty
    /\ up = [u \in Uploads |-> NoUpload]
    /\ com = [u \in Uploads |-> [k \in Commits |-> NoCommit]]
    /\ pr = [p \in Promotes |-> NoPromote]
    /\ purge = NoPurge
    /\ lost = {} /\ left = {} /\ ops = 0

\* A request that has been answered: what it was, and how it went.
Answered(u, at) == [NoUpload EXCEPT !.at = at, !.kind = up[u].kind, !.mode = up[u].mode,
                                    !.tree = IF at = "done" THEN up[u].tree ELSE Empty]

(***************************************************************************)
(* Asking for an upload.                                                   *)
(***************************************************************************)
\* MUTANT: a row is found whether or not its content is in the bucket.
InLibraryAnyRow(t) == {a \in arts : a.tree = t}

\* findLibraryByContentHash: the artifacts of a tree that are in the bucket.
InLibrary(t) == {a \in arts : a.tree = t /\ a.s3 # NoSha}

\* allocateLibrarySlug: the slug asked for, else the first free suffix.
FreeSlugs == {s \in Slugs : packages[s] = 0}
FirstFree == CHOOSE s \in FreeSlugs : \A r \in FreeSlugs : s <= r

Arrives(u, kind, at) ==
    /\ up[u].at = "idle"
    /\ \E r \in {q \in Requests : q.kind = kind} :
          up' = [up EXCEPT ![u] = [NoUpload EXCEPT !.at = at, !.kind = kind,
                                                   !.mode = r.mode, !.tree = r.tree]]
    /\ UNCHANGED <<tables, bucket, folder, com, pr, purge, limits>>

\* The panel scans a ZIP in the browser and asks for a plan of its tree.
AskLibrary(u) == Arrives(u, "library", "looking")

AskEdge(u) == Arrives(u, "edge", "planning")

AskAdopt(u) == Arrives(u, "adopt", "adopting")

AskZip(u) == Arrives(u, "zip", "unpacking")

\* extractZipSafe, resolveContentRoot, materializeSlimTree: the tree of the
\* ZIP, or an archive the handler refuses.
Unpack(u) ==
    /\ up[u].at = "unpacking"
    /\ \/ up' = [up EXCEPT ![u].at = "looking"]
       \/ up' = [up EXCEPT ![u] = Answered(u, "failed")]
    /\ UNCHANGED <<tables, bucket, folder, com, pr, purge, limits>>

\* The plan looks the hash up, and so does a ZIP that is unpacked.
Look(u) ==
    /\ up[u].at = "looking"
    /\ \/ /\ InLibrary(up[u].tree) = {}
          /\ up' = [up EXCEPT ![u].at = "allocating"]
       \/ \E a \in InLibrary(up[u].tree) :
             up' = [up EXCEPT ![u].at = "linking", ![u].pkg = a.pkg]
    /\ UNCHANGED <<tables, bucket, folder, com, pr, purge, limits>>

\* Content that is there is only linked; a package gone meanwhile breaks the
\* foreign key and the request fails.
LinkExisting(u) ==
    /\ up[u].at = "linking"
    /\ IF up[u].mode = "control" /\ ~Live(up[u].pkg)
       THEN up' = [up EXCEPT ![u] = Answered(u, "failed")] /\ UNCHANGED links
       ELSE /\ up' = [up EXCEPT ![u] = Answered(u, "done")]
            /\ links' = IF up[u].mode = "control" THEN links \cup {<<u, up[u].pkg>>} ELSE links
    /\ UNCHANGED <<packages, arts, issued, bucket, folder, com, pr, purge, limits>>

\* A slug is chosen and a session opened with an empty staging directory.
Allocate(u) ==
    /\ up[u].at = "allocating" /\ up[u].kind = "library"
    /\ IF FreeSlugs = {}
       THEN up' = [up EXCEPT ![u] = Answered(u, "failed")]
       ELSE up' = [up EXCEPT ![u].at = "open", ![u].open = TRUE, ![u].slug = FirstFree]
    /\ UNCHANGED <<tables, bucket, folder, com, pr, purge, limits>>

\* A ZIP has no session: its tree is packed under the slug at once.
ZipAllocate(u) ==
    /\ up[u].at = "allocating" /\ up[u].kind = "zip"
    /\ IF FreeSlugs = {}
       THEN up' = [up EXCEPT ![u] = Answered(u, "failed")] /\ UNCHANGED com
       ELSE /\ up' = [up EXCEPT ![u].at = "open", ![u].slug = FirstFree, ![u].dir = "whole"]
            /\ com' = [com EXCEPT ![u][1].at = "verified"]
    /\ UNCHANGED <<tables, bucket, folder, pr, purge, limits>>

\* handleSlimUploadPlan on the edge: nothing to do when the folder is the
\* tree, otherwise a session.  The files needed are those the folder lacks.
EdgePlan(u) ==
    /\ up[u].at = "planning"
    /\ IF folder = up[u].tree
       THEN up' = [up EXCEPT ![u] = Answered(u, "done")]
       ELSE up' = [up EXCEPT ![u].at = "open", ![u].open = TRUE]
    /\ UNCHANGED <<tables, bucket, folder, com, pr, purge, limits>>

\* handleAdoptLocalFolder: the folder as it is, whatever that is.
Adopt(u) ==
    /\ up[u].at = "adopting"
    /\ IF folder = Empty
       THEN up' = [up EXCEPT ![u] = Answered(u, "failed")] /\ UNCHANGED com
       ELSE /\ up' = [up EXCEPT ![u].at = "open", ![u].tree = folder]
            /\ com' = [com EXCEPT ![u][1].at = "stored"]
    /\ UNCHANGED <<tables, bucket, folder, pr, purge, limits>>

\* A file of the plan arrives whole and with its hash, or is refused.
Staged(u, p) ==
    /\ up[u].open /\ up[u].dir # "wiped"
    /\ p \notin up[u].staged
    /\ up' = [up EXCEPT ![u].staged = @ \cup {p}]
    /\ UNCHANGED <<tables, bucket, folder, com, pr, purge, limits>>

PutFile(u) == up[u].kind = "library" /\ \E p \in Files(up[u].tree) : Staged(u, p)

\* computeNeededAndSkip on the edge: what the folder does not have as it is.
Needed(u) == {p \in Files(up[u].tree) : folder[p] # up[u].tree[p]}

EdgePutFile(u) == up[u].kind = "edge" /\ \E p \in Needed(u) : Staged(u, p)

\* purgeExpiredSessions: by age only, a commit under way or not.
Expire(u) ==
    /\ up[u].open
    /\ ops < MaxOps /\ ops' = ops + 1
    /\ up' = [up EXCEPT ![u] =
                 IF \E k \in Commits : com[u][k].at \notin {"none", "ended"}
                 THEN [@ EXCEPT !.open = FALSE, !.dir = "wiped"]
                 ELSE Answered(u, "failed")]
    /\ UNCHANGED <<tables, bucket, folder, com, pr, purge, lost, left>>

(***************************************************************************)
(* Committing.  The finally block of a commit ends the session and removes *)
(* its directory, on success and on every failure.                         *)
(***************************************************************************)
Others(u, k) == {j \in Commits \ {k} : com[u][j].at \notin {"none", "ended"}}

Ended(u, k, outcome) ==
    LET at == IF up[u].at = "done" THEN "done" ELSE outcome
    IN  /\ up' = [up EXCEPT ![u] = IF Others(u, k) = {} THEN Answered(u, at)
                                   ELSE [@ EXCEPT !.open = FALSE, !.dir = "wiped", !.at = at]]
        /\ com' = [com EXCEPT ![u][k] = [NoCommit EXCEPT !.at = "ended"]]

Fails(u, k) == Ended(u, k, "failed")

\* The tree the copying loop produces: from staging, on the edge also from
\* the folder.
Source(u) ==
    [p \in Paths |-> IF p \in up[u].staged \/ up[u].tree[p] = "absent" THEN up[u].tree[p]
                     ELSE IF up[u].kind = "edge" THEN folder[p] ELSE "absent"]

\* The session is found, its files are there, the tree directory is emptied.
Starts(u, k) ==
    /\ up[u].open /\ com[u][k].at = "none"
    /\ \A j \in Commits : j < k => com[u][j].at # "none"
    /\ IF k = 1 THEN UNCHANGED ops ELSE ops < MaxOps /\ ops' = ops + 1
    /\ \/ /\ Files(Source(u)) # Files(up[u].tree)
          /\ Fails(u, k)
       \/ /\ Files(Source(u)) = Files(up[u].tree)
          /\ up' = [up EXCEPT ![u].dir = "building"]
          /\ com' = [com EXCEPT ![u][k].at = "building"]
    /\ UNCHANGED <<tables, bucket, folder, pr, purge, lost, left>>

Commit(u, k) == up[u].kind = "library" /\ Starts(u, k)

EdgeCommit(u, k) == up[u].kind = "edge" /\ Starts(u, k)

\* The files are copied and hashContentTree of the directory is compared with
\* expectedContentHash.
Built(u, k, next) ==
    LET whole == \A j \in Others(u, k) : com[u][j].at # "building"
    IN  /\ com[u][k].at = "building"
        /\ \/ /\ up[u].dir = "wiped" \/ Source(u) # up[u].tree \/ ~whole
              /\ Fails(u, k)
           \/ /\ up[u].dir # "wiped" /\ Source(u) = up[u].tree
              /\ up' = [up EXCEPT ![u].dir = IF whole THEN "whole" ELSE "building"]
              /\ com' = [com EXCEPT ![u][k].at = next, ![u][k].rest = Files(up[u].tree)]
        /\ UNCHANGED <<tables, bucket, folder, pr, purge, limits>>

Build(u, k) == up[u].kind = "library" /\ Built(u, k, "verified")

EdgeBuild(u, k) == up[u].kind = "edge" /\ Built(u, k, "merging")

\* packSlimTarGz.  A directory that another commit rebuilds, or that is being
\* removed, is packed as tar finds it.
Pack(u, k) ==
    /\ com[u][k].at = "verified"
    /\ \/ /\ Fails(u, k)
       \/ \E t \in IF up[u].dir = "whole" THEN {up[u].tree} ELSE Parts(up[u].tree) :
             /\ up' = [up EXCEPT ![u].gz = [by |-> <<u, k>>, tree |-> t]]
             /\ com' = [com EXCEPT ![u][k].at = "packed", ![u][k].sha = [by |-> <<u, k>>, tree |-> t]]
    /\ UNCHANGED <<tables, bucket, folder, pr, purge, limits>>

\* putCanonicalTarGz under If-None-Match: an object that is there stays.
PutInto(t, bytes, meta) ==
    bucket' = IF Stored(t) THEN bucket ELSE [bucket EXCEPT ![t] = [bytes |-> bytes, meta |-> meta]]

StoreObject(u, k) ==
    /\ com[u][k].at = "packed"
    /\ \/ Fails(u, k) /\ UNCHANGED bucket
       \/ /\ PutInto(up[u].tree, up[u].gz, com[u][k].sha)
          /\ com' = [com EXCEPT ![u][k].at = IF Stored(up[u].tree) THEN "exists" ELSE "stored"]
          /\ UNCHANGED up
    /\ UNCHANGED <<tables, folder, pr, purge, limits>>

\* MUTANT: after "already exists" the hash of the archive just packed is kept.
HeadKeepsOwn(u, k) ==
    /\ com[u][k].at = "exists"
    /\ IF Stored(up[u].tree) THEN com' = [com EXCEPT ![u][k].at = "stored"] /\ UNCHANGED up
                             ELSE Fails(u, k)
    /\ UNCHANGED <<tables, bucket, folder, pr, purge, limits>>

\* headCanonicalObject after "already exists": the hash of that object counts.
Head(u, k) ==
    /\ com[u][k].at = "exists"
    /\ IF Stored(up[u].tree)
       THEN com' = [com EXCEPT ![u][k].at = "stored", ![u][k].sha = bucket[up[u].tree].meta] /\ UNCHANGED up
       ELSE Fails(u, k)
    /\ UNCHANGED <<tables, bucket, folder, pr, purge, limits>>

\* mergeAllFiles into the content folder, file by file, nothing is removed.
MergeFile(u, k) ==
    /\ com[u][k].at = "merging"
    /\ IF com[u][k].rest = {}
       THEN com' = [com EXCEPT ![u][k].at = "stored"] /\ UNCHANGED <<folder, up>>
       ELSE \/ Fails(u, k) /\ UNCHANGED folder
            \/ \E p \in com[u][k].rest :
                  /\ folder' = [folder EXCEPT ![p] = up[u].tree[p]]
                  /\ com' = [com EXCEPT ![u][k].rest = @ \ {p}]
                  /\ UNCHANGED up
    /\ UNCHANGED <<tables, bucket, pr, purge, limits>>

\* createPackageAndArtifact, one transaction: the row of the slug, and the row
\* of (package, tree), whose s3 fields survive a second registration.
PkgId(slug) == IF packages[slug] # 0 THEN packages[slug] ELSE issued + 1

Kept(old, s3) == IF \E a \in old : a.s3 # NoSha THEN (CHOOSE a \in old : TRUE).s3 ELSE s3

Insert(slug, t, s3, isFolder) ==
    LET pkg == PkgId(slug)  old == Row(pkg, t)
        new == [pkg |-> pkg, tree |-> t, s3 |-> Kept(old, s3), folder |-> isFolder,
                ready |-> \E a \in old : a.ready]
    IN  /\ pkg <= MaxIds
        /\ packages' = [packages EXCEPT ![slug] = pkg]
        /\ issued' = IF pkg > issued THEN pkg ELSE issued
        /\ arts' = (arts \ old) \cup {new}

\* registerS3LibraryArtifact.
Register(u, k) ==
    LET t == up[u].tree  s == up[u].slug
    IN  /\ com[u][k].at = "stored" /\ up[u].kind \in {"library", "zip"}
        /\ \/ Fails(u, k) /\ UNCHANGED <<packages, arts, issued>>
           \/ /\ Insert(s, t, com[u][k].sha, FALSE)
              /\ IF up[u].mode = "control"
                 THEN /\ com' = [com EXCEPT ![u][k].at = "linking", ![u][k].pkg = PkgId(s)]
                      /\ UNCHANGED up
                 ELSE Ended(u, k, "done")
    /\ UNCHANGED <<links, bucket, folder, pr, purge, limits>>

Link(u, k) ==
    /\ com[u][k].at = "linking"
    /\ IF Live(com[u][k].pkg)
       THEN Ended(u, k, "done") /\ links' = links \cup {<<u, com[u][k].pkg>>}
       ELSE Fails(u, k) /\ UNCHANGED links
    /\ UNCHANGED <<packages, arts, issued, bucket, folder, pr, purge, limits>>

\* registerEdgeLocalArtifact: the rows, and then READY on the edge, with a
\* promotion that nobody waits for, if promotions are switched on.
EdgeRegister(u, k) ==
    /\ com[u][k].at = "stored" /\ up[u].kind \in {"edge", "adopt"}
    /\ \/ Fails(u, k) /\ UNCHANGED <<packages, arts, issued>>
       \/ /\ Insert(0, up[u].tree, NoSha, TRUE)
          /\ com' = [com EXCEPT ![u][k].at = "marking", ![u][k].pkg = PkgId(0)]
          /\ UNCHANGED up
    /\ UNCHANGED <<links, bucket, folder, pr, purge, limits>>

\* markArtifactReadyOnEdge; a row that is gone breaks the foreign key.
EdgeReady(u, k) ==
    LET row == Row(com[u][k].pkg, up[u].tree)
    IN  /\ com[u][k].at = "marking"
        /\ \/ Fails(u, k) /\ UNCHANGED <<arts, pr>>
           \/ /\ row # {}
              /\ arts' = (arts \ row) \cup {[a EXCEPT !.ready = TRUE] : a \in row}
              /\ \/ UNCHANGED pr
                 \/ \E p \in Promotes :
                       /\ pr[p].at = "none"
                       /\ pr' = [pr EXCEPT ![p] = [NoPromote EXCEPT !.at = "looking",
                                       !.pkg = com[u][k].pkg, !.tree = up[u].tree]]
              /\ Ended(u, k, "done")
        /\ UNCHANGED <<packages, links, issued, bucket, folder, purge, limits>>

(***************************************************************************)
(* promoteArtifactToS3.                                                    *)
(***************************************************************************)
To(p, at) == pr' = [pr EXCEPT ![p].at = at]

\* A row that is not in the bucket and a peer that has the folder; then the
\* advisory lock of the tree.  The lock belongs to a connection, and each
\* statement goes to whatever connection of the pool is free: it may be
\* refused for a holder long done, and granted twice.
PromoteLook(p) ==
    /\ pr[p].at = "looking"
    /\ \/ /\ \E a \in Row(pr[p].pkg, pr[p].tree) : a.s3 = NoSha /\ a.folder /\ a.ready
          /\ To(p, "pulling")
       \/ pr' = [pr EXCEPT ![p] = NoPromote]
    /\ UNCHANGED <<tables, bucket, folder, up, com, purge, limits>>

\* The row is read again, then the folder is pulled as the edge serves it and
\* packed; its hash is not compared with the artifact's.
PromotePull(p) ==
    /\ pr[p].at = "pulling"
    /\ \/ /\ \/ \E a \in Row(pr[p].pkg, pr[p].tree) : a.s3 # NoSha
             \/ TRUE                                  \* the edge does not answer
          /\ pr' = [pr EXCEPT ![p] = NoPromote]
       \/ /\ \A a \in Row(pr[p].pkg, pr[p].tree) : a.s3 = NoSha
          /\ folder # Empty
          /\ pr' = [pr EXCEPT ![p].at = "packed", ![p].sha = [by |-> <<p, 0>>, tree |-> folder]]
    /\ UNCHANGED <<tables, bucket, folder, up, com, purge, limits>>

PromotePut(p) ==
    /\ pr[p].at = "packed"
    /\ \/ pr' = [pr EXCEPT ![p] = NoPromote] /\ UNCHANGED bucket
       \/ /\ PutInto(pr[p].tree, pr[p].sha, pr[p].sha)
          /\ To(p, IF Stored(pr[p].tree) THEN "exists" ELSE "stored")
    /\ UNCHANGED <<tables, folder, up, com, purge, limits>>

PromoteHead(p) ==
    /\ pr[p].at = "exists"
    /\ IF Stored(pr[p].tree)
       THEN pr' = [pr EXCEPT ![p].at = "stored", ![p].sha = bucket[pr[p].tree].meta]
       ELSE pr' = [pr EXCEPT ![p] = NoPromote]
    /\ UNCHANGED <<tables, bucket, folder, up, com, purge, limits>>

\* mergeArtifactManifestS3, if the row is still there.
PromoteMerge(p) ==
    /\ pr[p].at = "stored"
    /\ LET row == Row(pr[p].pkg, pr[p].tree)
       IN  arts' = (arts \ row) \cup {[a EXCEPT !.s3 = pr[p].sha] : a \in row}
    /\ pr' = [pr EXCEPT ![p] = NoPromote]
    /\ UNCHANGED <<packages, links, issued, bucket, folder, up, com, purge, limits>>

(***************************************************************************)
(* Getting rid of content: unlinkSteamMod and forceDeleteModPackage.       *)
(***************************************************************************)
Unlink(u) ==
    /\ purge.at = "none" /\ ops < MaxOps
    /\ ops' = ops + 1
    /\ \E pkg \in 1..issued :
          /\ <<u, pkg>> \in links
          /\ links' = links \ {<<u, pkg>>}
          /\ purge' = [NoPurge EXCEPT !.at = "counting", !.pkg = pkg]
    /\ left' = left \cup {u}
    /\ UNCHANGED <<packages, arts, issued, bucket, folder, up, com, pr, lost>>

\* The package stays while others link it or a live server requires it.
UnlinkCount ==
    /\ purge.at = "counting"
    /\ \/ purge' = NoPurge
       \/ /\ \A u \in Uploads : <<u, purge.pkg>> \notin links
          /\ purge' = [purge EXCEPT !.at = "reading"]
    /\ UNCHANGED <<tables, bucket, folder, up, com, pr, limits>>

AdminDeletes ==
    /\ purge.at = "none" /\ ops < MaxOps
    /\ ops' = ops + 1
    /\ \E s \in Slugs :
          /\ packages[s] # 0
          /\ purge' = [NoPurge EXCEPT !.at = "reading", !.pkg = packages[s]]
    /\ UNCHANGED <<tables, bucket, folder, up, com, pr, lost, left>>

\* The artifacts are listed once; what is registered later is not deleted from
\* the bucket.
PurgeReads ==
    /\ purge.at = "reading"
    /\ purge' = IF Live(purge.pkg)
                THEN [purge EXCEPT !.at = "folder",
                         !.keys = {a.tree : a \in {b \in arts : b.pkg = purge.pkg /\ b.s3 # NoSha}}]
                ELSE NoPurge
    /\ UNCHANGED <<tables, bucket, folder, up, com, pr, limits>>

\* purgeLocalContentOnEdges: an edge that cannot be reached keeps its folder.
PurgeFolder ==
    /\ purge.at = "folder"
    /\ purge' = [purge EXCEPT !.at = "objects"]
    /\ folder' \in IF packages[0] = purge.pkg THEN {folder, Empty} ELSE {folder}
    /\ UNCHANGED <<tables, bucket, up, com, pr, limits>>

\* Objects whose deletion fails stay, orphans.
PurgeObjects ==
    /\ purge.at = "objects"
    /\ purge' = [purge EXCEPT !.at = "rows"]
    /\ \E gone \in SUBSET purge.keys :
          /\ bucket' = [t \in Trees |-> IF t \in gone THEN NoObject ELSE bucket[t]]
          /\ lost' = lost \cup gone
    /\ UNCHANGED <<tables, folder, up, com, pr, left, ops>>

\* DELETE FROM mod_packages, and what cascades.
PurgeRows ==
    LET rows == {a \in arts : a.pkg = purge.pkg}
    IN  /\ purge.at = "rows"
        /\ packages' = [s \in Slugs |-> IF packages[s] = purge.pkg THEN 0 ELSE packages[s]]
        /\ arts' = arts \ rows
        /\ links' = {l \in links : l[2] # purge.pkg}
        /\ lost' = lost \cup {a.tree : a \in rows}
        /\ purge' = NoPurge
    /\ UNCHANGED <<issued, bucket, folder, up, com, pr, left, ops>>

(***************************************************************************)
(* Sessions live in memory: a restart loses them and what is under way.    *)
(***************************************************************************)
Dropped(kinds) ==
    /\ up' = [u \in Uploads |->
                 IF up[u].kind \in kinds /\ up[u].at \notin {"done", "failed"}
                 THEN Answered(u, "failed") ELSE up[u]]
    /\ com' = [u \in Uploads |-> IF up[u].kind \in kinds THEN [k \in Commits |-> NoCommit] ELSE com[u]]

HubRestarts ==
    /\ ops < MaxOps /\ ops' = ops + 1
    /\ Dropped({"library", "zip"})
    /\ pr' = [p \in Promotes |-> NoPromote]
    /\ purge' = NoPurge
    /\ UNCHANGED <<tables, bucket, folder, lost, left>>

EdgeRestarts ==
    /\ ops < MaxOps /\ ops' = ops + 1
    /\ Dropped({"edge", "adopt"})
    /\ UNCHANGED <<tables, bucket, folder, pr, purge, lost, left>>

CommitStep(u, k) ==
    \/ Commit(u, k) \/ Build(u, k) \/ Pack(u, k) \/ StoreObject(u, k) \/ Head(u, k)
    \/ Register(u, k) \/ Link(u, k)
    \/ EdgeCommit(u, k) \/ EdgeBuild(u, k) \/ MergeFile(u, k) \/ EdgeRegister(u, k) \/ EdgeReady(u, k)

PromoteStep(p) ==
    \/ PromoteLook(p) \/ PromotePull(p) \/ PromotePut(p) \/ PromoteHead(p) \/ PromoteMerge(p)

Next ==
    \/ \E u \in Uploads :
          \/ AskLibrary(u) \/ AskZip(u) \/ AskEdge(u) \/ AskAdopt(u)
          \/ Unpack(u) \/ Look(u) \/ LinkExisting(u) \/ Allocate(u) \/ ZipAllocate(u)
          \/ EdgePlan(u) \/ Adopt(u) \/ PutFile(u) \/ EdgePutFile(u) \/ Expire(u) \/ Unlink(u)
          \/ \E k \in Commits : CommitStep(u, k)
    \/ \E p \in Promotes : PromoteStep(p)
    \/ UnlinkCount \/ AdminDeletes \/ PurgeReads \/ PurgeFolder \/ PurgeObjects \/ PurgeRows
    \/ HubRestarts \/ EdgeRestarts

Spec == Init /\ [][Next]_vars

(***************************************************************************)
(* Properties.                                                             *)
(***************************************************************************)
TypeOK ==
    /\ packages \in [Slugs -> 0..MaxIds]
    /\ arts \subseteq [pkg : 1..MaxIds, tree : Trees, s3 : {NoSha} \cup Shas,
                       folder : BOOLEAN, ready : BOOLEAN]
    /\ \A a, b \in arts : (a.pkg = b.pkg /\ a.tree = b.tree) => a = b
    /\ \A a \in arts : Live(a.pkg)
    /\ links \subseteq Uploads \X (1..issued)
    /\ folder \in Trees
    /\ \A u \in Uploads : up[u].staged \subseteq Files(up[u].tree)
    /\ \A l \in links : Live(l[2])

\* What the catalog offers for download is in the bucket under the hash the
\* catalog says (objectStorage.ts, promoteArtifactToS3.ts), unless a purge of
\* a package took that content.
AvailableMeansStored ==
    \A a \in arts :
        a.s3 # NoSha => \/ a.tree \in lost
                       \/ (Stored(a.tree) /\ bucket[a.tree].meta = a.s3)

\* A client told that its upload succeeded, or was not needed, finds the
\* content in the library and in its own list (hubLibrarySlimUpload.ts,
\* hubLibraryZipUpload.ts), until a purge takes the content or it unlinks.
AckedIsServed ==
    \A u \in Uploads :
        (up[u].at = "done" /\ up[u].kind \in {"library", "zip"}) =>
            \/ up[u].tree \in lost
            \/ \E a \in InLibrary(up[u].tree) :
                  /\ Stored(a.tree)
                  /\ up[u].mode = "control" => u \in left \/ <<u, a.pkg>> \in links

=============================================================================
