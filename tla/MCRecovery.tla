----------------------------- MODULE MCRecovery -----------------------------
(* Instances of Recovery for TLC. *)
EXTENDS Recovery

McOids   == 1 .. 3
McPrices == {1}
NoAcks   == {}

\* Order ids are interchangeable: the ladder's are 1 and 2.
McInit ==
    /\ Init
    /\ shares = MaxQty
    /\ resub = 1 /\ \A o \in Oids \ {1, 2} : orders[o].status = "unused"
    /\ orders[1].qty = 1

\* Bound: after the last crash the process starts up and is watched; it neither books a
\* fill nor trades.
McNext == Next /\ (crashes = MaxCrashes => ~TradingStep)

McSpec == McInit /\ [][McNext]_vars /\ Fairness
=============================================================================
