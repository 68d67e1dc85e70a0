--------------------------- MODULE PairLifecycle ---------------------------
(***************************************************************************)
(* What the battle engine promises about one locked pair, whatever its     *)
(* packets: the pair is matched, may race once, and is released; its       *)
(* battle has at most one outcome, decided by the step that ends the race, *)
(* and nothing decides, changes or forgets it later.  A cancelled battle   *)
(* has none.  Module PairBattle implements this.                           *)
(***************************************************************************)
CONSTANTS Players, None

VARIABLES
    phase,      \* "matched", "racing", "over" or "released"
    outcome     \* the winner, "draw", or None

Init == phase = "matched" /\ outcome = None

(* The race starts.                                                        *)
Start == phase = "matched" /\ phase' = "racing" /\ UNCHANGED outcome

(* The race ends, with a winner, in a draw or cancelled; a driver's leaving*)
(* releases the pair at once.                                              *)
End ==
    /\ phase = "racing" /\ phase' \in {"over", "released"}
    /\ outcome' \in Players \cup {"draw", None}

(* The pair is released, before the race or after it.                      *)
Release ==
    /\ phase \in {"matched", "over"} /\ phase' = "released" /\ UNCHANGED outcome

Next == Start \/ End \/ Release

Spec == Init /\ [][Next]_<<phase, outcome>>
=============================================================================
