--------------------------- MODULE MCFillBooking ---------------------------
(* Instances of FillBooking for TLC: order 1 is the stop, 2 and 3 are the *)
(* tranche orders, the others are free for market sales and new stops.    *)
EXTENDS FillBooking

McOids   == 1 .. 4
McLadder == <<2, 3>>
McPrices == {1}
NoAcks   == {}
McTakers == {"D165"}
McAllTakers == {"D164", "D165"}
=============================================================================
