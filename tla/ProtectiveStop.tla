--------------------------- MODULE ProtectiveStop ---------------------------
(***************************************************************************)
(* What the stop resubmitter promises about ONE position, seen from the    *)
(* venue (src/src/execution/stop_resubmitter.py:20-24): there is one stop; *)
(* it is exchanged for another by lifting the old one first; its level     *)
(* never goes down; an exchange ends with a stop in place or with an       *)
(* alarm; and once the stop is gone for good it does not come back.        *)
(***************************************************************************)
EXTENDS Integers

CONSTANT Prices

VARIABLES phase,   \* "live", "exchange" (the naked window), "lost" (alarm), "over"
          level    \* price of the live stop, or of the last one that was live

sVars == <<phase, level>>

Start ==
    /\ phase \in {"live", "over"}
    /\ level \in Prices

\* The old stop is lifted so that another can take its place.
Lift ==
    /\ phase = "live"
    /\ phase' = "exchange"
    /\ UNCHANGED level

\* Only an exchange puts a stop in place, at the old level or above.
Put(p) ==
    /\ phase = "exchange"
    /\ p >= level
    /\ phase' = "live"
    /\ level' = p

\* The exchange failed, emergency stop included.
Lose ==
    /\ phase = "exchange"
    /\ phase' = "lost"
    /\ UNCHANGED level

\* The stop executed, or was withdrawn with the position.
Finish ==
    /\ phase = "live"
    /\ phase' = "over"
    /\ UNCHANGED level

Move == Lift \/ (\E p \in Prices : Put(p)) \/ Lose \/ Finish

StopSafety == Start /\ [][Move]_sVars

StopSpec == StopSafety /\ WF_sVars(Lose \/ \E p \in Prices : Put(p))
=============================================================================
