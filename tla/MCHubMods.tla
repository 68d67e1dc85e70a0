----------------------------- MODULE MCHubMods -----------------------------
(***************************************************************************)
(* Mods of one or two files.  Requests are those that can meet: two users  *)
(* with the same tree, a second tree for the same slug, and an edge folder *)
(* with one of them.  The server needs content the hub distributes, content *)
(* it refuses to, or both.                                                 *)
(***************************************************************************)
EXTENDS HubMods, TLC

CONSTANTS u1, u2, a, b, v1, known, barred, byIni, byRow

TreeA == (a :> v1) @@ (b :> "absent")
TreeB == (a :> v1) @@ (b :> v1)

MCRequests ==
    {[kind |-> "library", mode |-> m, tree |-> TreeA] : m \in {"control", "admin"}}
    \cup {[kind |-> "library", mode |-> "control", tree |-> TreeB]}
    \cup {[kind |-> "zip", mode |-> "control", tree |-> TreeA]}
    \cup {[kind |-> "edge", mode |-> "admin", tree |-> t] : t \in {TreeA, TreeB}}
    \cup {[kind |-> "adopt", mode |-> "admin", tree |-> TreeA]}

MCKeys == {byIni, byRow}

Alike == Permutations({u1, u2}) \cup Permutations(MCKeys)

=============================================================================
