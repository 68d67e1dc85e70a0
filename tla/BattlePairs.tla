---------------------------- MODULE BattlePairs ----------------------------
(* What the modules of the battle manager share.                           *)

CONSTANTS
    Drivers,                    \* steam ids
    None

(* _pair_key: an unordered pair of drivers.                                *)
Keys == {{g, h} : g, h \in Drivers} \ {{g} : g \in Drivers}
=============================================================================
