---------------------------- MODULE MCPairBattle ----------------------------
(* TLC instances of PairBattle.  The two drivers are interchangeable: every *)
(* definition treats car1 and car2 alike.                                   *)
EXTENDS PairBattle, TLC

Symmetry == Permutations(Players)
=============================================================================
