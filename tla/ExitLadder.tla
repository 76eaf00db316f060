----------------------------- MODULE ExitLadder -----------------------------
(***************************************************************************)
(* src/src/execution/exit_ladder.py and the part of post_fill_handler.py   *)
(* that calls it: after an entry filled, the entry's stop is exchanged for *)
(* two tranche limit orders and a stop over the rest, the tranche orders   *)
(* are registered with the monitor and the stop with the resubmitter.      *)
(* One coroutine runs the routine once per fill; the venue executes,       *)
(* settles cancels and refuses orders between any two of its awaits.       *)
(***************************************************************************)
EXTENDS Broker, Sequences

CONSTANTS Faults,    \* whether a request can fail for reasons of its own
          NoOid

ASSUME LadderAssumption ==
    /\ Faults \in BOOLEAN
    /\ NoOid \notin Oids
    /\ Cardinality(Oids) >= 4

VARIABLES orders, shares,   \* the venue
          shortable,        \* whether it accepts a sale without a position
          pc,               \* the routine: "cancel", "tranches", "stop", "register", "done"
          size, old,        \* position_qty and old_stop_order_id
          next,             \* number of the next tranche to submit
          tranches,         \* tranche_order_ids
          newStop,          \* new_stop_order_id
          result,           \* partial_failure, is_position_unprotected, skipped_reason set
          registered,       \* _order_map: the ids, in the order of the numbers they get
          tracked           \* the id both the position and the resubmitter hold

venue == <<orders, shares, shortable>>
locals == <<size, old, next, tranches, newStop, result>>
vars == <<venue, pc, locals, registered, tracked>>

TypeOK ==
    /\ orders \in [Oids -> Order] /\ shares \in (-MaxQty) .. MaxQty
    /\ shortable \in BOOLEAN
    /\ pc \in {"cancel", "tranches", "stop", "register", "done"}
    /\ size \in 1 .. MaxQty /\ old \in Oids \cup {NoOid}
    /\ next \in 1 .. 3
    /\ tranches \in Seq(Oids) /\ Len(tranches) < next
    /\ {newStop, tracked} \subseteq Oids \cup {NoOid}
    /\ result \in [partial: BOOLEAN, unprotected: BOOLEAN, skipped: BOOLEAN]
    /\ registered \in {<<>>, tranches}

\* compute_exit_tranches: a third each as a limit, the rest is left to the stop.
TrancheQty(q) == IF q < 3 THEN 0 ELSE q \div 3
LimitTranchesAll(q) == IF q < 3 THEN 0 ELSE 3        \* faulty variant: T3 is a limit too
LimitTranches(q) == IF q < 3 THEN 0 ELSE 2
ResidualThird(q) == IF q < 3 THEN q ELSE q \div 3     \* faulty variant: the remainder is lost
Residual(q) == q - LimitTranches(q) * TrancheQty(q)

UsedStops == {o \in Oids : orders[o].kind = "stop" /\ orders[o].status # "unused"}

\* The position of a first fill: its OTO stop, if the fill had one, holds every share.
FirstFill ==
    \E s \in Oids, q \in Qtys, leg \in BOOLEAN :
        /\ shares = q /\ size = q
        /\ old = (IF leg THEN s ELSE NoOid)
        /\ orders = [o \in Oids |-> IF o = old THEN Sell("stop", q) ELSE Blank]
        /\ tracked = old

Init ==
    /\ FirstFill
    /\ shortable \in BOOLEAN
    /\ pc = "cancel"
    /\ next = 1 /\ tranches = <<>> /\ newStop = NoOid
    /\ result = [partial |-> FALSE, unprotected |-> FALSE, skipped |-> FALSE]
    /\ registered = <<>>

----------------------------------------------------------------------------
(* The routine, one step per broker call. *)

\* D147: an asset known not to be shortable keeps its stop and gets no ladder.
KeepStop ==
    /\ pc = "cancel"
    /\ ~shortable
    /\ result' = [result EXCEPT !.skipped = TRUE]
    /\ newStop' = old
    /\ pc' = "register"
    /\ UNCHANGED <<venue, size, old, next, tranches, registered, tracked>>

\* A failed shortability lookup counts as shortable.
MayLadder == shortable \/ Faults

\* cancel_order never raises: whether it was refused or failed, the routine goes on.
CancelOld ==
    /\ pc = "cancel"
    /\ MayLadder
    /\ \/ /\ old \in Oids
          /\ orders[old].status \in CancelAcks
          /\ orders' = [orders EXCEPT ![old] = CancelRequested(@)]
       \/ /\ old \in Oids => orders[old].status \notin CancelAcks \/ Faults
          /\ UNCHANGED orders
    /\ pc' = "tranches"
    /\ UNCHANGED <<shares, shortable, locals, registered, tracked>>

\* Tranches and stop are plain sales, which also open a short: the position_intent the
\* stop is given is left out of the request (alpaca_client.py:985-991).
AcceptsSale(q) == IF shares > 0 THEN Accepts(orders, shares, q) ELSE q > 0 /\ shortable

SubmitTranche ==
    /\ pc = "tranches"
    /\ next <= LimitTranches(size)
    /\ next' = next + 1
    /\ \/ /\ AcceptsSale(TrancheQty(size))
          /\ \E o \in Unused(orders) :
               /\ orders' = [orders EXCEPT ![o] = Sell("limit", TrancheQty(size))]
               /\ tranches' = Append(tranches, o)
          /\ UNCHANGED result
       \/ /\ ~AcceptsSale(TrancheQty(size)) \/ Faults
          /\ result' = [result EXCEPT !.partial = TRUE]
          /\ UNCHANGED <<orders, tranches>>
    /\ UNCHANGED <<shares, shortable, pc, size, old, newStop, registered, tracked>>

TranchesDone ==
    /\ pc = "tranches"
    /\ next > LimitTranches(size)
    /\ pc' = "stop"
    /\ UNCHANGED <<venue, locals, registered, tracked>>

\* Faulty variants: a refused stop goes unreported; an attempt whose
\* answer was lost is repeated.
SubmitStopQuietly ==
    /\ pc = "stop"
    /\ \/ /\ AcceptsSale(Residual(size))
          /\ \E o \in Unused(orders) :
               /\ orders' = [orders EXCEPT ![o] = Sell("stop", Residual(size))]
               /\ newStop' = o
       \/ UNCHANGED <<orders, newStop>>
    /\ pc' = "register"
    /\ UNCHANGED <<shares, shortable, size, old, next, tranches, result, registered, tracked>>

SubmitStopRetried ==
    /\ pc = "stop"
    /\ \/ /\ AcceptsSale(Residual(size))
          /\ \E o \in Unused(orders) :
               /\ orders' = [orders EXCEPT ![o] = Sell("stop", Residual(size))]
               /\ newStop' = o
          /\ pc' \in {"stop", "register"}
          /\ UNCHANGED result
       \/ /\ result' = [result EXCEPT !.unprotected = TRUE]
          /\ pc' = "register"
          /\ UNCHANGED <<orders, newStop>>
    /\ UNCHANGED <<shares, shortable, size, old, next, tranches, registered, tracked>>

SubmitStop ==
    /\ pc = "stop"
    /\ \/ /\ AcceptsSale(Residual(size))
          /\ \E o \in Unused(orders) :
               /\ orders' = [orders EXCEPT ![o] = Sell("stop", Residual(size))]
               /\ newStop' = o
          /\ UNCHANGED result
       \/ /\ ~AcceptsSale(Residual(size)) \/ Faults
          /\ result' = [result EXCEPT !.unprotected = TRUE]
          /\ UNCHANGED <<orders, newStop>>
    /\ pc' = "register"
    /\ UNCHANGED <<shares, shortable, size, old, next, tranches, registered, tracked>>

\* Faulty variant: the entry's stop id is kept (the fallback "Bug AS" removed).
RegisterOld ==
    /\ pc = "register"
    /\ registered' = tranches
    /\ tracked' = old
    /\ pc' = "done"
    /\ UNCHANGED <<venue, locals>>

\* post_fill_bookkeeping: the ids that came back are zipped with the tranches that were
\* computed (a refused T1 passes its number on); the stop id, empty or not, replaces
\* what position and resubmitter held.
Register ==
    /\ pc = "register"
    /\ registered' = tranches
    /\ tracked' = newStop
    /\ pc' = "done"
    /\ UNCHANGED <<venue, locals>>

----------------------------------------------------------------------------
(* The venue. *)

Execute(o, n) ==
    /\ o \in Working(orders)
    /\ n <= Unfilled(orders[o])
    /\ shares - n >= -MaxQty
    /\ orders' = [orders EXCEPT ![o] = Executed(@, n)]
    /\ shares' = shares - n
    /\ UNCHANGED <<shortable, pc, locals, registered, tracked>>

Settle(o) ==
    /\ orders[o].status = "canceling"
    /\ orders' = [orders EXCEPT ![o] = Settled(@)]
    /\ UNCHANGED <<shares, shortable, pc, locals, registered, tracked>>

Routine == KeepStop \/ CancelOld \/ SubmitTranche \/ TranchesDone \/ SubmitStop \/ Register

Next ==
    \/ Routine
    \/ \E o \in Oids, n \in Qtys : Execute(o, n)
    \/ \E o \in Oids : Settle(o)

Spec == Init /\ [][Next]_vars

----------------------------------------------------------------------------
(* Safety. *)

\* A ladder reported clean holds every share of a position once: tranches plus residual
\* stop are what the venue has reserved (exit_ladder.py:49-50), whatever executed while
\* it was built.  Of a position that was sold out meanwhile it says nothing.
CleanLadderHoldsAll ==
    (/\ pc \in {"register", "done"} /\ shares > 0
     /\ ~(result.partial \/ result.unprotected \/ result.skipped)) => Held(orders) = shares

\* A position left with canceled stops only is reported unprotected.
NakedIsReported ==
    (/\ pc \in {"register", "done"} /\ shares > 0 /\ UsedStops # {}
     /\ \A o \in UsedStops : orders[o].status = "canceled")
        => result.unprotected \/ result.skipped

\* Never two stops open, although a failed cancel is taken for a done one: the old
\* stop's reservation has the new one refused.
AtMostOneOpenStop == \A s1, s2 \in OpenStops(orders) : s1 = s2

\* When the routine is over, the open stop is the one the bot will cancel and ratchet;
\* only an old stop whose cancel failed is lost from sight.
OpenStopIsTracked == pc = "done" => OpenStops(orders) \ {old} \subseteq {tracked}

(* What the code does not give. *)

\* exit_ladder.py:83 "Cancel failure: don't proceed to tranche submission".  cancel_order
\* answers None where the routine waits for an exception.
NoLadderOverLiveStop ==
    pc \in {"tranches", "stop"} => old \notin OpenStops(orders)
=============================================================================
