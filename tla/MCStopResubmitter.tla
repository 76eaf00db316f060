------------------------- MODULE MCStopResubmitter -------------------------
(* Instances of StopResubmitter for TLC. *)
EXTENDS StopResubmitter, TLC

CONSTANTS t1, t2, o1, o2, o3, o4

McTasks  == {t1, t2}
McOids   == {o1, o2, o3, o4}
McPrices == {1, 2}

\* What a DELETE is answered 200/204 in: Alpaca refuses an order that is not open.
AlpacaAcks == {"open"}

\* Order ids are interchangeable, so it is no loss to name the first two: the entry's
\* stop is o1, its tranche order o2.  (SYMMETRY is not sound with liveness.)
McInit ==
    /\ Init
    /\ stops.oid \in {o1, NoOid}
    /\ \A o \in Oids \ {o1, o2} : orders[o].status = "unused"

McSpec == McInit /\ [][Next]_vars /\ Fairness
=============================================================================
