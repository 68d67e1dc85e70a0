------------------------------ MODULE HubMods ------------------------------
(***************************************************************************)
(* What the hub does about mods besides its jobs (SyncJobs): the library   *)
(* that content gets into and out of, and the start of a server that needs *)
(* content.  They meet only in the catalog and the edge's folder, which    *)
(* each of them already finds in any state the other can leave, so a       *)
(* behaviour has one of them at work and the other at rest.                *)
(***************************************************************************)
EXTENDS ModLibrary, StartGate

VARIABLE part

hubModsVars == <<part, vars, gateVars>>

HubModsInit ==
    /\ part \in {"library", "gate"}
    /\ Init
    /\ GateInit /\ (part = "library" => present = {})

HubModsNext ==
    /\ UNCHANGED part
    /\ \/ part = "library" /\ Next /\ UNCHANGED gateVars
       \/ part = "gate" /\ GateNext /\ UNCHANGED vars

HubModsSpec == HubModsInit /\ [][HubModsNext]_hubModsVars

(* The state of both parts has the shape their modules declare.             *)
HubModsTypeOK == part \in {"library", "gate"} /\ TypeOK /\ GateTypeOK
=============================================================================
