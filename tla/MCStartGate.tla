---------------------------- MODULE MCStartGate ----------------------------
EXTENDS StartGate, TLC

CONSTANTS known, local, barred, byIni, byRow

MCKeys == {byIni, byRow}

Symmetry == Permutations(MCKeys)
=============================================================================
