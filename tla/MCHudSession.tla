---------------------------- MODULE MCHudSession ----------------------------
(***************************************************************************)
(* One player with two cars and two handlers at a time.                    *)
(***************************************************************************)
EXTENDS HudSession

=============================================================================
