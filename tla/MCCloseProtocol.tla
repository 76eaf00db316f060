--------------------------- MODULE MCCloseProtocol ---------------------------
(* Instances of CloseProtocol for TLC. *)
EXTENDS CloseProtocol, TLC

CONSTANTS o1, o2, o3, o4, o5, o6

McOids     == {o1, o2, o3, o4, o5, o6}
McPrices   == {1}
AlpacaAcks == {"open"}
McFaults   == {"error", "garbled"}
NoFaults   == {}

Symmetric == Permutations(McOids)
=============================================================================
