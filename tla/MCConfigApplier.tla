-------------------------- MODULE MCConfigApplier --------------------------
(* Instance of ConfigApplier for TLC: a row to run, one to stop, one that  *)
(* a pool keeps idle, and one whose mods do not exist.                     *)
EXTENDS ConfigApplier

MCIsActive == [r \in Rows |-> CASE r \in {"run", "lost"} -> "on"
                                [] r = "stop" -> "off"
                                [] r = "idle" -> "unset"]
=============================================================================
