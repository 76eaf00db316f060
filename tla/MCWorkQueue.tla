---------------------------- MODULE MCWorkQueue ----------------------------
(* Instances of WorkQueue for TLC. *)
EXTENDS WorkQueue

McItems == 1 .. 2
McCoordinators == {"c1", "c2"}

\* Two items for one coordinator, or one item for two.
McInit ==
    /\ Init
    /\ \/ candidates = {1, 2} /\ fleet = {"c1"} /\ bars = {}
       \/ candidates = {1} /\ fleet = McCoordinators /\ bars \subseteq {1}
McSpec == McInit /\ [][Next]_vars /\ Fairness
=============================================================================
