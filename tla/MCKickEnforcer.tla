--------------------------- MODULE MCKickEnforcer ---------------------------
(***************************************************************************)
(* Instances of KickEnforcer for TLC.                                      *)
(***************************************************************************)
EXTENDS KickEnforcer
=============================================================================
