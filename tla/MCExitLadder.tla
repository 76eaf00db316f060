---------------------------- MODULE MCExitLadder ----------------------------
(* Instances of ExitLadder for TLC. *)
EXTENDS ExitLadder, TLC

CONSTANTS o1, o2, o3, o4

McOids     == {o1, o2, o3, o4}
McPrices   == {1}
AlpacaAcks == {"open"}

Symmetric == Permutations(McOids)
=============================================================================
