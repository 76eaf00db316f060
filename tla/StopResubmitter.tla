-------------------------- MODULE StopResubmitter --------------------------
(***************************************************************************)
(* src/src/execution/stop_resubmitter.py: the object that owns the broker- *)
(* side protective stop of every open position, for one ticker and one     *)
(* lifetime of its position (from register_stop to the removal).           *)
(*                                                                         *)
(* The object has no lock.  Its coroutines run on one asyncio loop and     *)
(* interleave at every await: main.py's loop, the early-profit background  *)
(* task and the exit paths all call resubmit, cancel_and_remove and remove *)
(* for the same ticker.  Tasks is the set of those callers.  Every call to *)
(* the broker is two steps, the effect at the venue and the continuation   *)
(* of the coroutine; between them anything else may run.                   *)
(***************************************************************************)
EXTENDS Broker

CONSTANTS Tasks,        \* coroutines that call the resubmitter
          MaxRetries,   \* _MAX_RETRIES
          MaxCalls,     \* bound: calls of resubmit / cancel_and_remove explored
          AckLoss,      \* whether an answer of the venue can get lost after the effect, or
                        \* come without the id of the order
          NoOid, NoStop

ASSUME ResubmitterAssumption ==
    /\ MaxRetries \in Nat \ {0}
    /\ MaxCalls \in Nat
    /\ AckLoss \in BOOLEAN
    /\ NoOid \notin Oids

TrackedStop == [oid: Oids \cup {NoOid}, price: Prices, qty: Qtys]

ASSUME NoStopAssumption == NoStop \notin TrackedStop

VARIABLES orders,    \* the venue's sell orders of the ticker
          shares,    \* the venue's position
          stops,     \* _stops[ticker], NoStop when absent
          task,      \* where each coroutine is, with its locals
          calls,     \* calls made so far (bounded by MaxCalls)
          alarmed,   \* "EMERGENCY STOP ALSO FAILED" was logged
          removed    \* the position's tracking was popped at some time

venue == <<orders, shares>>
vars  == <<orders, shares, stops, task, calls, alarmed, removed>>

(***************************************************************************)
(* A coroutine: idle, or inside resubmit ("cancel" -> "cancelSent" ->      *)
(* "submit" -> "submitSent" -> ... -> "emergency" -> "emergencySent") or   *)
(* inside cancel_and_remove ("remove" -> "removeSent").  tracked is the    *)
(* record read before the first await, ack and new the venue's answer.     *)
(***************************************************************************)
Idle == [pc |-> "idle"]

Pcs == {"cancel", "cancelSent", "submit", "submitSent",
        "emergency", "emergencySent", "remove", "removeSent"}

Call == [pc: Pcs, tracked: TrackedStop, price: Prices, qty: Qtys,
         attempt: 0 .. MaxRetries - 1, ack: BOOLEAN, new: Oids \cup {NoOid}]

At(t, pc) == task[t].pc = pc

TypeOK ==
    /\ orders \in [Oids -> Order]
    /\ shares \in Int
    /\ stops \in TrackedStop \cup {NoStop}
    /\ task \in [Tasks -> Call \cup {Idle}]
    /\ calls \in 0 .. MaxCalls
    /\ alarmed \in BOOLEAN
    /\ removed \in BOOLEAN

(***************************************************************************)
(* A position of MaxQty shares whose stop was just registered.  The stop   *)
(* covers q of them; the rest may be reserved by a tranche limit order.    *)
(* post_fill_handler.py also registers an EMPTY id when the order response *)
(* carried no stop leg: then no stop is working.                           *)
(***************************************************************************)
Init ==
    /\ \E s, l \in Oids, p \in Prices, q \in Qtys, ladder, attached \in BOOLEAN :
         /\ s # l
         /\ ladder => q < MaxQty
         /\ orders = [o \in Oids |->
                CASE o = s /\ attached -> Placed("stop", p, q)
                  [] o = l /\ ladder -> Placed("limit", p, MaxQty - q)
                  [] OTHER -> Blank]
         /\ stops = [oid |-> IF attached THEN s ELSE NoOid, price |-> p, qty |-> q]
    /\ shares = MaxQty
    /\ task = [t \in Tasks |-> Idle]
    /\ calls = 0
    /\ alarmed = FALSE
    /\ removed = FALSE

----------------------------------------------------------------------------
(* The coroutines. *)

Enter(t, pc, p, q) ==
    /\ At(t, "idle")
    /\ calls < MaxCalls
    /\ calls' = calls + 1
    /\ stops # NoStop
    /\ task' = [task EXCEPT ![t] = [pc |-> pc, tracked |-> stops, price |-> p, qty |-> q,
                                    attempt |-> 0, ack |-> FALSE, new |-> NoOid]]

\* Faulty variant: the ratchet is not checked.
ResubmitAnyPrice(t, p, q) ==
    /\ Enter(t, "cancel", p, q)
    /\ UNCHANGED <<venue, stops, alarmed, removed>>

\* resubmit up to its first await.  A missing stop, a lower price or a
\* non-positive quantity returns a failure and changes nothing.
Resubmit(t, p, q) ==
    /\ Enter(t, "cancel", p, q)
    /\ p >= stops.price
    /\ UNCHANGED <<venue, stops, alarmed, removed>>

\* The venue's answer to a request of coroutine t.
Answer(t, sent, ack, new) ==
    task' = [task EXCEPT ![t] = [@ EXCEPT !.pc = sent, !.ack = ack, !.new = new]]

\* The DELETE reaches the venue (or is lost on the way: ack and effect both FALSE).
BrokerCancel(t, pc, sent) ==
    /\ At(t, pc)
    /\ LET o == task[t].tracked.oid IN
         \/ /\ o \in Oids
            /\ orders[o].status \in CancelAcks
            /\ orders' = [orders EXCEPT ![o] = CancelRequested(@)]
            /\ \/ Answer(t, sent, TRUE, NoOid)
               \/ AckLoss /\ Answer(t, sent, FALSE, NoOid)
         \/ /\ Answer(t, sent, FALSE, NoOid)
            /\ UNCHANGED orders
    /\ UNCHANGED <<shares, stops, calls, alarmed, removed>>

ResubmitCancel(t) == BrokerCancel(t, "cancel", "cancelSent")

\* Faulty variant: a cancel that was not acknowledged counts as done.
CancelReplyAssumed(t) ==
    /\ At(t, "cancelSent")
    /\ task' = [task EXCEPT ![t] = [@ EXCEPT !.pc = "submit", !.ack = FALSE]]
    /\ UNCHANGED <<venue, stops, calls, alarmed, removed>>

\* cancel_order answers None for every failure: resubmit gives up, tracking as before.
CancelReply(t) ==
    /\ At(t, "cancelSent")
    /\ task' = [task EXCEPT ![t] = IF @.ack THEN [@ EXCEPT !.pc = "submit", !.ack = FALSE]
                                            ELSE Idle]
    /\ UNCHANGED <<venue, stops, calls, alarmed, removed>>

\* The POST of a stop reaches the venue: accepted against the reservation rule, or
\* refused, or failed on the way.  An answer without an id is ack with new = NoOid.
BrokerSubmit(t, pc, sent, p) ==
    /\ At(t, pc)
    /\ \/ /\ Accepts(orders, shares, task[t].qty)
          /\ \E o \in Unused(orders) :
               /\ orders' = [orders EXCEPT ![o] = Placed("stop", p, task[t].qty)]
               /\ \/ Answer(t, sent, TRUE, o)
                  \/ AckLoss /\ \E ack \in BOOLEAN : Answer(t, sent, ack, NoOid)
       \/ /\ Answer(t, sent, FALSE, NoOid)
          /\ UNCHANGED orders
    /\ UNCHANGED <<shares, stops, calls, alarmed, removed>>

ResubmitSubmit(t)  == BrokerSubmit(t, "submit", "submitSent", task[t].price)
EmergencySubmit(t) == BrokerSubmit(t, "emergency", "emergencySent", task[t].tracked.price)

Track(t, p) == [oid |-> task[t].new, price |-> p, qty |-> task[t].qty]

\* Faulty variant: one retry too many.
SubmitReplyExtraRetry(t) ==
    /\ At(t, "submitSent")
    /\ \/ /\ task[t].ack
          /\ stops' = Track(t, task[t].price)
          /\ task' = [task EXCEPT ![t] = Idle]
       \/ /\ ~task[t].ack
          /\ task' = [task EXCEPT ![t] = [@ EXCEPT
                !.pc = IF task[t].attempt < MaxRetries THEN "submit" ELSE "emergency",
                !.attempt = task[t].attempt + 1]]
          /\ UNCHANGED stops
    /\ UNCHANGED <<venue, calls, alarmed, removed>>

\* Faulty variant: the accepted stop is not recorded.
SubmitReplyForgets(t) ==
    /\ At(t, "submitSent")
    /\ task' = [task EXCEPT ![t] = IF task[t].ack THEN Idle ELSE [@ EXCEPT !.pc = "emergency"]]
    /\ UNCHANGED <<venue, stops, calls, alarmed, removed>>

\* Faulty variant: no emergency stop after the last attempt.
SubmitReplyGivesUp(t) ==
    /\ At(t, "submitSent")
    /\ stops' = IF task[t].ack THEN Track(t, task[t].price) ELSE stops
    /\ task' = [task EXCEPT ![t] = Idle]
    /\ UNCHANGED <<venue, calls, alarmed, removed>>

\* The retry loop of phase 2; the back-off sleep is the gap before the next POST.
SubmitReply(t) ==
    /\ At(t, "submitSent")
    /\ \/ /\ task[t].ack
          /\ stops' = Track(t, task[t].price)
          /\ task' = [task EXCEPT ![t] = Idle]
       \/ /\ ~task[t].ack /\ task[t].attempt < MaxRetries - 1
          /\ task' = [task EXCEPT ![t] = [task[t] EXCEPT !.pc = "submit", !.attempt = @ + 1]]
          /\ UNCHANGED stops
       \/ /\ ~task[t].ack /\ task[t].attempt = MaxRetries - 1
          /\ task' = [task EXCEPT ![t] = [@ EXCEPT !.pc = "emergency"]]
          /\ UNCHANGED stops
    /\ UNCHANGED <<venue, calls, alarmed, removed>>

\* The emergency stop at the old price; its failure is only logged, and an answer
\* without an id, unlike in the loop above, is neither tracked nor a failure.
EmergencyReply(t) ==
    /\ At(t, "emergencySent")
    /\ stops' = IF task[t].ack /\ task[t].new # NoOid THEN Track(t, task[t].tracked.price)
                                                     ELSE stops
    /\ alarmed' = (alarmed \/ ~task[t].ack)
    /\ task' = [task EXCEPT ![t] = Idle]
    /\ UNCHANGED <<venue, calls, removed>>

\* cancel_and_remove: reads the tracked stop, awaits the cancel, ignores its
\* answer, pops whatever is tracked by then.
CancelAndRemove(t) ==
    /\ stops # NoStop
    /\ Enter(t, "remove", stops.price, stops.qty)
    /\ UNCHANGED <<venue, stops, alarmed, removed>>

RemoveCancel(t) == BrokerCancel(t, "remove", "removeSent")

RemoveReply(t) ==
    /\ At(t, "removeSent")
    /\ stops' = NoStop
    /\ removed' = TRUE
    /\ task' = [task EXCEPT ![t] = Idle]
    /\ UNCHANGED <<venue, calls, alarmed>>

\* remove: synchronous, no broker call (tranche_monitor.py, main.py).
Remove ==
    /\ stops # NoStop
    /\ stops' = NoStop
    /\ removed' = TRUE
    /\ UNCHANGED <<venue, task, calls, alarmed>>

----------------------------------------------------------------------------
(* The venue on its own. *)

Execute(o, n) ==
    /\ o \in Working(orders)
    /\ n <= Unfilled(orders[o])
    /\ orders' = [orders EXCEPT ![o] = Executed(@, n)]
    /\ shares' = shares - n
    /\ UNCHANGED <<stops, task, calls, alarmed, removed>>

Settle(o) ==
    /\ orders[o].status = "canceling"
    /\ orders' = [orders EXCEPT ![o] = Settled(@)]
    /\ UNCHANGED <<shares, stops, task, calls, alarmed, removed>>

\* Unreserved shares sold by another path (a market exit, a manual sale).
OtherSale(n) ==
    /\ n <= shares - Held(orders)
    /\ shares' = shares - n
    /\ UNCHANGED <<orders, stops, task, calls, alarmed, removed>>

----------------------------------------------------------------------------
Step(t) ==
    \/ ResubmitCancel(t) \/ CancelReply(t)
    \/ ResubmitSubmit(t) \/ SubmitReply(t)
    \/ EmergencySubmit(t) \/ EmergencyReply(t)
    \/ RemoveCancel(t) \/ RemoveReply(t)

Next ==
    \/ \E t \in Tasks, p \in Prices, q \in Qtys : Resubmit(t, p, q)
    \/ \E t \in Tasks : CancelAndRemove(t)
    \/ \E t \in Tasks : Step(t)
    \/ Remove
    \/ \E o \in Oids, n \in Qtys : Execute(o, n)
    \/ \E o \in Oids : Settle(o)
    \/ \E n \in Qtys : OtherSale(n)

Spec == Init /\ [][Next]_vars

\* Every request is answered (httpx times out, the except branch runs) and the loop
\* resumes every ready coroutine.
Fairness == \A t \in Tasks : WF_vars(Step(t))

FairSpec == Spec /\ Fairness

----------------------------------------------------------------------------
(* Safety. *)

UsedStops == {o \in Oids : orders[o].kind = "stop" /\ orders[o].status # "unused"}

\* A resubmit between its acknowledged cancel and the recording of the new stop.  At
\* most one coroutine is there: the token is the only permission to place a stop.
Token(t) ==
    \/ task[t].pc \in {"submit", "submitSent", "emergency", "emergencySent"}
    \/ task[t].pc = "cancelSent" /\ task[t].ack

\* The venue has accepted the new stop; the coroutine has not resumed yet.
Answered(t) == task[t].pc \in {"submitSent", "emergencySent"} /\ task[t].ack

\* In the naked window: the old stop is lifted, the new one not accepted.
InGap(t) == Token(t) /\ ~Answered(t)

\* Invariant 1 of stop_resubmitter.py (cancel before submit), under any number of
\* concurrent resubmits: the venue never has two protective stops open at once.  The
\* code has no lock; the acknowledged cancel of the one open order acts as one.
AtMostOneOpenStop ==
    \A s1, s2 \in OpenStops(orders) : s1 = s2

\* The open stop is the one _stops names, or its coroutine has just been answered and
\* will record it, or the tracking was popped: no order is left open that nobody knows.
OpenStopIsTracked ==
    \A s \in OpenStops(orders) :
        \/ stops # NoStop /\ stops.oid = s
        \/ \E t \in Tasks : Answered(t) /\ task[t].new = s
        \/ removed

\* Ratchet, as the venue sees it: whatever order resubmits, retries and emergency
\* stops run in, the open stop has the highest price any stop order ever had.
OpenStopIsHighest ==
    \A s \in OpenStops(orders), o \in UsedStops : orders[o].price <= orders[s].price

\* A position that lost its stop is never silently naked: with every coroutine at
\* rest, the tracked order was cancelled only if the CRITICAL alarm was raised
\* (stop_resubmitter.py:22-23: a failed cancel leaves the old stop active, a failed
\* submit is logged CRITICAL).
NakedIsAlarmed ==
    (/\ \A t \in Tasks : At(t, "idle")
     /\ stops # NoStop /\ stops.oid # NoOid
     /\ orders[stops.oid].status \in {"canceling", "canceled"})
        => alarmed

(* Action property. *)

\* The tracked price never goes down, across every writer of _stops (the ratchet
\* check reads it before two awaits and more, and is not repeated after them).
TrackedPriceOnlyUp ==
    [][stops # NoStop /\ stops' # NoStop => stops'.price >= stops.price]_vars

(* The abstract stop: refinement. *)

phaseBar == IF OpenStops(orders) # {} THEN "live"
            ELSE IF \E t \in Tasks : InGap(t) THEN "exchange"
            ELSE IF alarmed THEN "lost" ELSE "over"

\* The highest price any stop order ever had; any price as long as there was none.
Levels == {p \in Prices :
             \/ UsedStops = {}
             \/ /\ \E o \in UsedStops : orders[o].price = p
                /\ \A o \in UsedStops : orders[o].price <= p}

levelBar == CHOOSE p \in Levels : TRUE

Abstract == INSTANCE ProtectiveStop WITH phase <- phaseBar, level <- levelBar

\* The resubmitter implements the abstract stop, its liveness included: an exchange
\* that began ends with a stop in place or the alarm.
ImplementsProtectiveStop == Abstract!StopSpec

(* What the code does not give. *)

\* stop_resubmitter.py:322 "Cancel the active stop at the broker and remove tracking":
\* a cancel_and_remove that found the stop it read no longer open leaves no stop open.
\* Broken when a resubmit of another coroutine exchanged that stop meanwhile: the new
\* one stays open at the venue while its tracking is popped.
CancelAndRemoveLeavesNoStop ==
    [][\A t \in Tasks :
         (/\ At(t, "removeSent") /\ task'[t] = Idle
          /\ task[t].tracked.oid \in Oids
          /\ orders[task[t].tracked.oid].status # "open")
         => OpenStops(orders) = {}]_vars
=============================================================================
