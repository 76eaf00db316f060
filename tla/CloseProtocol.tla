---------------------------- MODULE CloseProtocol ----------------------------
(***************************************************************************)
(* attempt_close_with_status_check of src/src/execution/bridge.py: one     *)
(* coroutine that sells a position, or a part of it, at the market.  It    *)
(* retries, lifts the sell orders that reserve the shares when the venue   *)
(* refuses for that reason, confirms the fill of a partial sale before     *)
(* anything is booked, and puts lifted stops back when it gives up.        *)
(* The D165 tranche take of main.py lifts the protective stop before the   *)
(* call and has the stop resubmitter put one back after it.                *)
(* The venue executes, settles and kills orders between any two awaits.    *)
(***************************************************************************)
EXTENDS Broker

CONSTANTS MaxAttempts,  \* max_retries
          Faults,       \* what can happen to a request besides the venue's own answer
          NoOid

ASSUME CloseAssumption ==
    /\ MaxAttempts \in Nat \ {0}
    /\ Faults \subseteq {"error",     \* it fails, without effect
                         "garbled",   \* it is done, the answer carries no order id
                         "lost"}      \* it is done, the answer is lost
    /\ NoOid \notin Oids

VARIABLES orders, shares,     \* the venue
          caller, mode, qty,  \* who calls ("D165" or "other"), "partial" or "full", the qty argument
          size,               \* remaining_qty of the tracked position at the call
          tracked,            \* the stop _stops names
          pc, attempt,
          mine, view,         \* the sell order of this attempt, and the last answer about it
          lifted, todo,       \* cancelled_snapshots; what a loop over orders has left to do
          waited,             \* the "__waited_for_settle__" sentinel
          missed,             \* some snapshot was not re-armed
          outcome, booked,    \* result["succeeded"], shares taken off pos.qty
          incident            \* NAKED_POSITION_RISK was emitted

venue   == <<orders, shares>>
call    == <<caller, mode, qty, size, tracked>>
sale    == <<mine, view>>
dance   == <<lifted, todo, waited, missed>>
verdict == <<outcome, booked, incident>>
vars    == <<venue, call, pc, attempt, sale, dance, verdict>>

View == [status: Statuses, filled: 0 .. MaxQty]
NoView == [status |-> "unused", filled |-> 0]     \* never observed
Pcs == {"lift", "close", "sent", "blocked", "refused", "confirm", "decide", "withdraw",
        "recheck", "conclude", "unblock", "escalate", "rearm", "restore", "done"}

TypeOK ==
    /\ orders \in [Oids -> Order] /\ shares \in 0 .. MaxQty
    /\ caller \in {"D165", "other"} /\ mode \in {"partial", "full"}
    /\ {qty, size} \subseteq Qtys /\ tracked \in Oids \cup {NoOid}
    /\ pc \in Pcs /\ attempt \in 0 .. MaxAttempts
    /\ mine \in Oids \cup {NoOid} /\ view \in View
    /\ lifted \subseteq Oids /\ todo \subseteq Oids /\ {waited, missed} \subseteq BOOLEAN
    /\ outcome \in {"none", "succeeded", "failed"}
    /\ booked \in 0 .. MaxQty /\ incident \in BOOLEAN

Markets == {o \in Oids : orders[o].kind = "market" /\ orders[o].status # "unused"}
Stops == {o \in Oids : orders[o].kind = "stop" /\ orders[o].status # "unused"}

\* A position whose stop holds what its tranche order, if there is one, does not.
Init ==
    /\ shares \in Qtys /\ size = shares
    /\ \E s, l \in Oids, held \in Qtys, ladder, stop \in BOOLEAN :
         /\ s # l /\ (IF ladder THEN held < size ELSE held = size)
         /\ orders = [o \in Oids |->
                CASE o = s /\ stop -> Sell("stop", held)
                  [] o = l /\ ladder -> Sell("limit", size - held)
                  [] OTHER -> Blank]
         /\ tracked = IF stop THEN s ELSE NoOid
    /\ \/ mode = "partial" /\ caller \in {"D165", "other"} /\ qty \in 1 .. shares
       \/ mode = "full" /\ caller = "other" /\ qty = shares
    /\ pc = (IF caller = "D165" THEN "lift" ELSE "close") /\ attempt = 0
    /\ mine = NoOid /\ view = NoView
    /\ lifted = {} /\ todo = {} /\ waited = FALSE /\ missed = FALSE
    /\ outcome = "none" /\ booked = 0 /\ incident = FALSE

----------------------------------------------------------------------------
(* The venue's side of a request. *)

\* A DELETE of order o; one that fails, on the way or at the venue, changes nothing.
Delete(o) ==
    \/ o \in Oids /\ orders[o].status \in CancelAcks
         /\ orders' = [orders EXCEPT ![o] = CancelRequested(@)]
    \/ (o \in Oids /\ orders[o].status \in CancelAcks => "error" \in Faults)
         /\ UNCHANGED orders

Look(o) == IF o \in Oids THEN [status |-> orders[o].status, filled |-> orders[o].filled]
                         ELSE NoView

----------------------------------------------------------------------------
(* The call. *)

\* D165 lifts the stop first; cancel_order never raises.
Lift ==
    /\ pc = "lift"
    /\ Delete(tracked)
    /\ pc' = "close"
    /\ UNCHANGED <<shares, call, attempt, sale, dance, verdict>>

\* DELETE /v2/positions: a market sale of qty shares, or of the position.
Amount == IF mode = "partial" THEN qty ELSE shares

CloseAccepted ==
    /\ pc = "close"
    /\ shares > 0 /\ Accepts(orders, shares, Amount)
    /\ \E o \in Unused(orders) :
         /\ orders' = [orders EXCEPT ![o] = Sell("market", Amount)]
         /\ \/ mine' = o /\ pc' = "sent"
            \/ "garbled" \in Faults /\ mine' = NoOid /\ pc' = "sent"
            \/ "lost" \in Faults /\ mine' = NoOid /\ pc' = "refused"
    /\ attempt' = attempt + 1
    /\ view' = NoView
    /\ UNCHANGED <<shares, call, dance, verdict>>

\* 403 "insufficient qty available", the one error that is looked into; or any other,
\* a 404 without a position among them.
CloseRefused ==
    /\ pc = "close"
    /\ \/ shares > 0 /\ ~Accepts(orders, shares, Amount) /\ pc' = "blocked"
       \/ (shares = 0 \/ "error" \in Faults) /\ pc' = "refused"
    /\ attempt' = attempt + 1
    /\ mine' = NoOid /\ view' = NoView
    /\ UNCHANGED <<venue, call, dance, verdict>>

\* Faulty variant: one attempt too many.
RetryOnce == pc' = IF attempt <= MaxAttempts THEN "close" ELSE "escalate"

Retry == pc' = IF attempt < MaxAttempts THEN "close" ELSE "escalate"

\* Shares sold are taken off pos.qty; D165 then restores the stop.
Succeed(n) ==
    /\ outcome' = "succeeded"
    /\ booked' = n
    /\ pc' = IF caller = "D165" THEN "restore" ELSE "done"
    /\ UNCHANGED incident

\* Full mode: the answer to the DELETE decides.  A fill short of qty is retried; any
\* other answer, an order merely accepted included, is a success.
FullAnswered ==
    /\ pc = "sent" /\ mode = "full"
    /\ view' = Look(mine)
    /\ IF 0 < view'.filled /\ view'.filled < qty
       THEN Retry /\ UNCHANGED verdict
       ELSE outcome' = "succeeded" /\ pc' = "done" /\ UNCHANGED <<booked, incident>>
    /\ UNCHANGED <<venue, call, attempt, mine, dance>>

\* Partial mode: only an order reported filled is a success at once; one without an id
\* can never be confirmed.
PartialAnswered ==
    /\ pc = "sent" /\ mode = "partial"
    /\ view' = Look(mine)
    /\ IF mine = NoOid THEN pc' = "escalate" /\ UNCHANGED verdict
       ELSE IF view'.status = "filled" THEN Succeed(view'.filled)
       ELSE pc' = "confirm" /\ UNCHANGED verdict
    /\ UNCHANGED <<venue, call, attempt, mine, dance>>

\* _confirm_partial_close_fill, each call of which starts from nothing seen: the last
\* poll of it that answered, or none when all of them failed.
Poll(at, then) ==
    /\ pc = at
    /\ \/ view' = Look(mine)
       \/ "error" \in Faults /\ view' = NoView
    /\ pc' = then
    /\ UNCHANGED <<venue, call, attempt, mine, dance, verdict>>

Confirm == Poll("confirm", "decide")
Recheck == Poll("recheck", "conclude")

Dead == view.status = "canceled"

\* Faulty variant: what was asked for is booked.
DecideRequested ==
    /\ pc = "decide"
    /\ \/ view.status = "filled" /\ Succeed(qty)
       \/ Dead /\ view.filled > 0 /\ Succeed(qty)
       \/ Dead /\ view.filled = 0 /\ Retry /\ UNCHANGED verdict
       \/ view.status # "filled" /\ ~Dead /\ pc' = "withdraw" /\ UNCHANGED verdict
    /\ UNCHANGED <<venue, call, attempt, sale, dance>>

\* Filled, or dead with a fraction filled: booked.  Dead and unfilled: tried again.
\* Still live: withdrawn.
Decide ==
    /\ pc = "decide"
    /\ \/ view.status = "filled" /\ Succeed(view.filled)
       \/ Dead /\ view.filled > 0 /\ Succeed(view.filled)
       \/ Dead /\ view.filled = 0 /\ Retry /\ UNCHANGED verdict
       \/ view.status # "filled" /\ ~Dead /\ pc' = "withdraw" /\ UNCHANGED verdict
    /\ UNCHANGED <<venue, call, attempt, sale, dance>>

Withdraw ==
    /\ pc = "withdraw"
    /\ Delete(mine)
    /\ pc' = "recheck"
    /\ UNCHANGED <<shares, call, attempt, sale, dance, verdict>>

\* Faulty variant: an order that may still be live is sold again.
ConcludeRetries ==
    /\ pc = "conclude"
    /\ \/ view.filled > 0 /\ Succeed(view.filled)
       \/ view.filled = 0 /\ Retry /\ UNCHANGED verdict
    /\ UNCHANGED <<venue, call, attempt, sale, dance>>

\* After the withdrawal any fill is booked; only an order known dead is tried again.
Conclude ==
    /\ pc = "conclude"
    /\ \/ view.filled > 0 /\ Succeed(view.filled)
       \/ Dead /\ view.filled = 0 /\ Retry /\ UNCHANGED verdict
       \/ ~Dead /\ view.filled = 0 /\ pc' = "escalate" /\ UNCHANGED verdict
    /\ UNCHANGED <<venue, call, attempt, sale, dance>>

\* Any other error, or a second one for lack of shares: the next attempt.
Refused ==
    /\ \/ pc = "refused"
       \/ pc = "blocked" /\ (lifted # {} \/ waited)
    /\ Retry
    /\ UNCHANGED <<venue, call, attempt, sale, dance, verdict>>

\* _cancel_blocking_sell_orders, once per call.  A snapshot of every open sell order
\* is kept whatever becomes of its cancel, the call's own orders included.
Enumerate ==
    /\ pc = "blocked"
    /\ lifted = {} /\ ~waited
    /\ \E list \in {Working(orders)} \cup (IF "error" \in Faults THEN {{}} ELSE {}) :
         lifted' = list /\ todo' = list
    /\ pc' = "unblock"
    /\ UNCHANGED <<venue, call, attempt, sale, waited, missed, verdict>>

Unblock(o) ==
    /\ pc = "unblock" /\ o \in todo
    /\ Delete(o)
    /\ todo' = todo \ {o}
    /\ UNCHANGED <<shares, call, pc, attempt, sale, lifted, waited, missed, verdict>>

\* The wait for qty_available ends, freed or not, and costs no attempt.
Unblocked ==
    /\ pc = "unblock" /\ todo = {}
    /\ waited' = (lifted = {})
    /\ attempt' = attempt - 1
    /\ pc' = "close"
    /\ UNCHANGED <<venue, call, sale, lifted, todo, missed, verdict>>

Fail ==
    /\ outcome' = "failed"
    /\ pc' = IF caller = "D165" THEN "restore" ELSE "done"

\* Retries exhausted, or the fate of the sale unknown.
Escalate ==
    /\ pc = "escalate"
    /\ IF lifted # {}
       THEN todo' = lifted /\ pc' = "rearm" /\ UNCHANGED <<outcome, incident>>
       ELSE Fail /\ incident' = waited /\ UNCHANGED todo
    /\ UNCHANGED <<venue, call, attempt, sale, lifted, waited, missed, booked>>

\* A lifted stop is submitted again, as a plain sale of the quantity it had; nothing
\* else is.
Rearm(o) ==
    /\ pc = "rearm" /\ o \in todo
    /\ \/ /\ orders[o].kind = "stop" /\ Accepts(orders, shares, orders[o].qty)
          /\ \E n \in Unused(orders) : orders' = [orders EXCEPT ![n] = Sell("stop", orders[o].qty)]
          /\ UNCHANGED missed
       \/ /\ orders[o].kind # "stop" \/ ~Accepts(orders, shares, orders[o].qty) \/ "error" \in Faults
          /\ missed' = TRUE
          /\ UNCHANGED orders
    /\ todo' = todo \ {o}
    /\ UNCHANGED <<shares, call, pc, attempt, sale, lifted, waited, verdict>>

\* Faulty variant: one stop back is enough.
RearmedQuietly ==
    /\ pc = "rearm" /\ todo = {}
    /\ Fail
    /\ UNCHANGED <<venue, call, attempt, sale, dance, booked, incident>>

Rearmed ==
    /\ pc = "rearm" /\ todo = {}
    /\ Fail
    /\ incident' = missed
    /\ UNCHANGED <<venue, call, attempt, sale, dance, booked>>

\* D165, whatever came of the sale: resubmit for what the tracker has left.  It gives
\* up, and leaves it at that, when the cancel of the tracked stop is not acknowledged;
\* past that, a failure is logged CRITICAL (StopResubmitter has every step of it).
Restore ==
    /\ pc = "restore"
    /\ IF booked < size /\ tracked # NoOid /\ orders[tracked].status \in CancelAcks
       THEN LET table == [orders EXCEPT ![tracked] = Settled(@)]
            IN \/ /\ Accepts(table, shares, size - booked)
                  /\ \E n \in Unused(table) :
                       orders' = [table EXCEPT ![n] = Sell("stop", size - booked)]
                  /\ UNCHANGED incident
               \/ /\ ~Accepts(table, shares, size - booked) \/ "error" \in Faults
                  /\ orders' = table /\ incident' = TRUE
       ELSE UNCHANGED <<orders, incident>>
    /\ pc' = "done"
    /\ UNCHANGED <<shares, call, attempt, sale, dance, outcome, booked>>

----------------------------------------------------------------------------
(* The venue. *)

Execute(o, n) ==
    /\ o \in Working(orders)
    /\ n <= Unfilled(orders[o]) /\ n <= shares
    /\ orders' = [orders EXCEPT ![o] = Executed(@, n)]
    /\ shares' = shares - n
    /\ UNCHANGED <<call, pc, attempt, sale, dance, verdict>>

\* A cancel settles, or the venue kills a market order (a halt, the session's end).
Die(o) ==
    /\ \/ orders[o].status = "canceling"
       \/ orders[o].status = "open" /\ orders[o].kind = "market"
    /\ orders' = [orders EXCEPT ![o] = Settled(@)]
    /\ UNCHANGED <<shares, call, pc, attempt, sale, dance, verdict>>

----------------------------------------------------------------------------
Routine ==
    \/ Lift \/ CloseAccepted \/ CloseRefused \/ Refused
    \/ FullAnswered \/ PartialAnswered
    \/ Confirm \/ Decide \/ Withdraw \/ Recheck \/ Conclude
    \/ Enumerate \/ (\E o \in Oids : Unblock(o)) \/ Unblocked
    \/ Escalate \/ (\E o \in Oids : Rearm(o)) \/ Rearmed
    \/ Restore

Next ==
    \/ Routine
    \/ \E o \in Oids, n \in Qtys : Execute(o, n)
    \/ \E o \in Oids : Die(o)

Spec == Init /\ [][Next]_vars

----------------------------------------------------------------------------
(* Safety. *)

\* What an order has sold or may still sell.
MaySell(order) == IF order.status \in {"open", "canceling"} THEN order.qty ELSE order.filled

\* Retries, polls and withdrawals racing with fills never sell more than was asked for
\* (bridge.py:837 "Retrying could double-sell").
NeverSellsTwice ==
    mode = "partial" => SumFunction([o \in Markets |-> MaySell(orders[o])]) <= qty

\* What is booked was sold (bridge.py:656-659: an unconfirmed booking is phantom P&L).
BookedWasSold == booked <= SumFunction([o \in Markets |-> orders[o].filled])

\* No stop left, none executed, and shares to protect.
Naked ==
    /\ pc = "done" /\ shares > 0
    /\ Stops # {} /\ \A o \in Stops : orders[o].status = "canceled"

\* A call that fails after it lifted the stops puts one back or reports the position
\* (bridge.py:626 "Position is never left naked").
FailedCloseIsProtected ==
    caller = "other" /\ outcome = "failed" /\ Naked => incident

(* What the code does not give. *)

\* main.py:6450-6453: after a take "re-arming is now MANDATORY ... else the remaining
\* position is left naked".  The stop D165 lifted is still the tracked one; resubmit
\* cancels it once more, is refused, and gives up.
TakeLeavesProtection ==
    caller = "D165" /\ Naked => incident
=============================================================================
