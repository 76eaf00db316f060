---------------------------- MODULE FillBooking ----------------------------
(***************************************************************************)
(* How the fills of one long position are booked.  Four writers share the  *)
(* tracker's view of it, all on one asyncio loop:                          *)
(*   - the order-update stream: fill_stream_bridge.py dispatches every     *)
(*     print to tranche_monitor.py or to its own exit-leg handler;         *)
(*   - main.py's phase-3 cycle: fetch of the broker's positions, drain of  *)
(*     the stream's events, tranche sync from the fetched position, and    *)
(*     the D98 stop-out scan;                                              *)
(*   - the early-profit (D164) and tranche-take (D165) market sales;       *)
(*   - stop_resubmitter.py, which exchanges the protective stop (in        *)
(*     StopResubmitter step by step; here an exchange is one step).        *)
(* The stream's callbacks run at every await of the cycle.  A websocket    *)
(* reconnect delivers old prints again.                                    *)
(***************************************************************************)
EXTENDS Broker, Sequences

CONSTANTS Stop,       \* the stop the exit ladder left at the venue
          Ladder,     \* its tranche limit orders, in the order they are registered
          Reordered,  \* whether prints arrive in any order, or first in execution order
          BrokerQty,  \* whether a print carries the broker's position_qty
          Late,       \* whether prints can arrive before the ladder is registered
          Takers,     \* who makes market sales: "D164" (early profit), "D165" (tranche take)
          NoOid, Unknown

Tranches == {Ladder[i] : i \in DOMAIN Ladder}

ASSUME FillBookingAssumption ==
    /\ Stop \in Oids \ Tranches
    /\ Ladder \in Seq(Oids) /\ Cardinality(Tranches) = Len(Ladder)
    /\ {Reordered, BrokerQty, Late} \subseteq BOOLEAN
    /\ Takers \subseteq {"D164", "D165"}
    /\ NoOid \notin Oids
    /\ Unknown \notin Nat

VARIABLES orders, shares,   \* the venue
          stream, seen,     \* prints in execution order; how far delivery has come
          registered, processed, counted,      \* _order_map, _processed_fill_ids, _ticker_tranches
          open, left, stopOid, realized,       \* the tracked position; daily P&L, in shares
          tracked,                             \* the resubmitter's stop
          execs, booked, journal,              \* _booked_exec_ids, _order_booked_qty, record_close rows
          queue,                               \* events not drained: "none", "fills", "closed"
          pc, snapshot, touched, absent, take, \* the cycle and its locals
          cooldown                             \* _stopped_out_tickers

venue   == <<orders, shares, stream>>
monitor == <<registered, processed, counted>>
manager == <<open, left, stopOid, realized>>
bridge  == <<execs, booked, journal>>
cycle   == <<pc, snapshot, touched, absent, take>>
vars    == <<venue, seen, monitor, manager, tracked, bridge, queue, cycle, cooldown>>

FillReport == [oid: Oids, cum: Qtys, left: 0 .. MaxQty]
NoTake == [oid |-> NoOid, by |-> "none"]

TypeOK ==
    /\ orders \in [Oids -> Order] /\ shares \in 0 .. MaxQty
    /\ stream \in Seq(FillReport) /\ seen \in 0 .. Len(stream)
    /\ registered \subseteq Tranches /\ processed \subseteq Tranches
    /\ counted \in 0 .. Len(Ladder)
    /\ open \in BOOLEAN /\ left \in 0 .. MaxQty /\ realized \in 0 .. 2 * MaxQty
    /\ {stopOid, tracked} \subseteq Oids \cup {NoOid}
    /\ execs \subseteq Oids \X Qtys
    /\ booked \in [Oids -> 0 .. MaxQty] /\ journal \in [Oids -> 0 .. 2 * MaxQty]
    /\ queue \in {"none", "fills", "closed"}
    /\ pc \in {"postFill", "fetch", "sync", "scan", "stopOut", "closing", "takes", "taking"}
    /\ snapshot \in 0 .. MaxQty \cup {Unknown}
    /\ touched \in BOOLEAN /\ absent \in 0 .. 1
    /\ take \in [oid: Oids, by: Takers] \cup {NoTake}
    /\ cooldown \in BOOLEAN


\* A filled entry of MaxQty shares with its whole ladder at the venue.
Init ==
    /\ \E qty \in [Tranches \cup {Stop} -> Qtys] :
         /\ SumFunction(qty) = MaxQty
         /\ orders = [o \in Oids |->
                CASE o = Stop -> Sell("stop", qty[o])
                  [] o \in Tranches -> Sell("limit", qty[o])
                  [] OTHER -> Blank]
    /\ shares = MaxQty /\ stream = <<>> /\ seen = 0
    /\ registered = (IF Late THEN {} ELSE Tranches) /\ processed = {} /\ counted = 0
    /\ open = TRUE /\ left = MaxQty /\ realized = 0
    /\ stopOid = Stop /\ tracked = Stop
    /\ execs = {} /\ booked = [o \in Oids |-> 0] /\ journal = [o \in Oids |-> 0]
    /\ queue = "none"
    /\ pc = (IF Late THEN "postFill" ELSE "fetch")
    /\ snapshot = Unknown /\ touched = FALSE /\ absent = 0 /\ take = NoTake
    /\ cooldown = FALSE

----------------------------------------------------------------------------
(* The venue. *)

Canceled(table, ids) ==
    [o \in Oids |-> IF o \in ids /\ table[o].status = "open" THEN Settled(table[o]) ELSE table[o]]

Execute(o, n) ==
    /\ orders[o].status = "open"
    /\ n <= Unfilled(orders[o])
    /\ orders' = [orders EXCEPT ![o] = Executed(@, n)]
    /\ shares' = shares - n
    /\ stream' = Append(stream, [oid |-> o, cum |-> orders[o].filled + n, left |-> shares - n])
    /\ UNCHANGED <<seen, monitor, manager, tracked, bridge, queue, cycle, cooldown>>

----------------------------------------------------------------------------
(* The stream callbacks: synchronous, no await. *)

Deliver(i) ==
    /\ i \in DOMAIN stream
    /\ Reordered \/ i <= seen + 1
    /\ seen' = IF i = seen + 1 THEN i ELSE seen

IsFill(e) == e.cum = orders[e.oid].qty      \* OrderEvent.FILL, else PARTIAL_FILL

\* Faulty variant: neither the order map nor the processed ids are consulted.
FirstFillAlways(e) == IsFill(e) /\ e.oid \in Tranches

FirstFill(e) == IsFill(e) /\ e.oid \in registered \ processed

\* on_fill of the tranche monitor for a position it finds: books q shares of tranche o
\* and, when that closes the position, forgets it, its orders and its stop.
CountTranche(o, q) ==
    LET after  == IF q <= left THEN left - q ELSE 0
        closes == counted + 1 >= 3 \/ after = 0
    IN  /\ processed' = processed \cup {o}
        /\ registered' = (IF closes THEN {} ELSE registered \ {o})
        /\ counted' = (IF closes THEN 0 ELSE counted + 1)
        /\ open' = ~closes
        /\ left' = after
        /\ realized' = realized + q
        /\ tracked' = (IF closes THEN NoOid ELSE tracked)

Enqueue(closes) == queue' = IF closes \/ queue = "closed" THEN "closed" ELSE "fills"

TrancheFill(i) ==
    /\ Deliver(i)
    /\ LET e == stream[i] IN
         /\ FirstFill(e)
         /\ open
         /\ CountTranche(e.oid, e.cum)
         /\ Enqueue(~open')
    /\ UNCHANGED <<venue, stopOid, bridge, cycle, cooldown>>

\* The monitor marks the order before it finds that the position is gone.
TrancheFillTooLate(i) ==
    /\ Deliver(i)
    /\ FirstFill(stream[i])
    /\ ~open
    /\ processed' = processed \cup {stream[i].oid}
    /\ UNCHANGED <<venue, registered, counted, manager, tracked, bridge, queue, cycle, cooldown>>

\* Faulty variant: orders the monitor owns are not left to it.
SkippedUnlessBooked(e) ==
    \/ <<e.oid, e.cum>> \in execs
    \/ ~open
    \/ e.cum <= booked[e.oid]

\* _handle_oto_stop_fill returns early: an order the monitor owns, an execution it
\* has booked, no position, or no share beyond what is booked.
Skipped(e) ==
    \/ e.oid \in registered \cup processed
    \/ <<e.oid, e.cum>> \in execs
    \/ ~open
    \/ e.cum <= booked[e.oid]

Ignore(i) ==
    /\ Deliver(i)
    /\ ~FirstFill(stream[i])
    /\ Skipped(stream[i])
    /\ UNCHANGED <<venue, monitor, manager, tracked, bridge, queue, cycle, cooldown>>

\* Faulty variants of ExitFill: the cumulative quantity is booked, or every leg is taken
\* off the tracker, or any exit leg closes the position.
ExitFillCumulative(i) ==
    /\ Deliver(i)
    /\ LET e == stream[i]
       IN /\ ~FirstFill(e) /\ ~Skipped(e)
          /\ execs' = execs \cup {<<e.oid, e.cum>>}
          /\ booked' = [booked EXCEPT ![e.oid] = e.cum]
          /\ journal' = [journal EXCEPT ![e.oid] = @ + e.cum]
          /\ open' = (e.left > 0)
          /\ Enqueue(e.left <= 0)
    /\ UNCHANGED <<venue, monitor, stopOid, left, realized, tracked, cycle, cooldown>>

ExitFillDecrementsAll(i) ==
    /\ Deliver(i)
    /\ LET e == stream[i]
           inc == e.cum - booked[e.oid]
       IN /\ ~FirstFill(e) /\ ~Skipped(e)
          /\ execs' = execs \cup {<<e.oid, e.cum>>}
          /\ booked' = [booked EXCEPT ![e.oid] = e.cum]
          /\ journal' = [journal EXCEPT ![e.oid] = @ + inc]
          /\ open' = (e.left > 0)
          /\ left' = (IF inc <= left THEN left - inc ELSE 0)
          /\ Enqueue(e.left <= 0)
    /\ UNCHANGED <<venue, monitor, stopOid, realized, tracked, cycle, cooldown>>

ExitFillCloses(i) ==
    /\ Deliver(i)
    /\ LET e == stream[i]
       IN /\ ~FirstFill(e) /\ ~Skipped(e)
          /\ execs' = execs \cup {<<e.oid, e.cum>>}
          /\ booked' = [booked EXCEPT ![e.oid] = e.cum]
          /\ journal' = [journal EXCEPT ![e.oid] = @ + e.cum - booked[e.oid]]
    /\ open' = FALSE
    /\ Enqueue(TRUE)
    /\ UNCHANGED <<venue, monitor, stopOid, left, realized, tracked, cycle, cooldown>>

\* The exit-leg handler books the increment of an order it does not skip.
ExitFill(i) ==
    /\ Deliver(i)
    /\ LET e        == stream[i]
           inc      == e.cum - booked[e.oid]
           isStop   == e.oid \in {stopOid, tracked}
           terminal == IF BrokerQty THEN e.left <= 0 ELSE inc >= left
       IN /\ ~FirstFill(e) /\ ~Skipped(e)
          /\ execs' = execs \cup {<<e.oid, e.cum>>}
          /\ booked' = [booked EXCEPT ![e.oid] = e.cum]
          /\ journal' = [journal EXCEPT ![e.oid] = @ + inc]
          /\ open' = ~terminal
          /\ left' = (IF isStop /\ ~terminal THEN (IF inc <= left THEN left - inc ELSE 0) ELSE left)
          /\ Enqueue(terminal)
    /\ UNCHANGED <<venue, monitor, stopOid, realized, tracked, cycle, cooldown>>

----------------------------------------------------------------------------
(* main.py: the end of the entry, and the phase-3 cycle. *)

\* post_fill_bookkeeping registers the ladder after its last submission was answered.
Register ==
    /\ pc = "postFill"
    /\ registered' = Tranches
    /\ pc' = "fetch"
    /\ UNCHANGED <<venue, seen, processed, counted, manager, tracked, bridge, queue,
                   snapshot, touched, absent, take, cooldown>>

\* The one read of the broker's position per cycle; a failed one is Unknown.
Fetch(answer) ==
    /\ pc = "fetch"
    /\ answer \in {shares, Unknown}
    /\ snapshot' = answer
    /\ touched' = FALSE
    /\ pc' = "sync"
    /\ UNCHANGED <<venue, seen, monitor, manager, tracked, bridge, queue,
                   absent, take, cooldown>>

\* Registered orders small enough for the gap between tracker and snapshot; the loop
\* credits the first.
Credited ==
    {i \in DOMAIN Ladder : /\ Ladder[i] \in registered
                           /\ orders[Ladder[i]].qty <= left - snapshot}

SyncHits == open /\ snapshot \notin {0, Unknown} /\ Credited # {}

\* Drain and tranche sync, both only while some tranche order is registered.  Nothing
\* awaits in between: the bridge's resubmit list is always empty (see README).
Drain ==
    /\ pc = "sync"
    /\ registered # {}
    /\ cooldown' = (cooldown \/ queue = "closed")
    /\ queue' = "none"
    /\ touched' = (queue # "none" \/ SyncHits)
    /\ IF SyncHits
       THEN LET o == Ladder[Min(Credited)] IN
              /\ CountTranche(o, orders[o].qty)
              /\ orders' = Canceled(orders, IF open' THEN {} ELSE {tracked})
       ELSE UNCHANGED <<monitor, open, left, realized, tracked, orders>>
    /\ pc' = "scan"
    /\ UNCHANGED <<shares, stream, seen, stopOid, bridge, snapshot, absent, take>>

SkipDrain ==
    /\ pc = "sync"
    /\ registered = {}
    /\ pc' = "scan"
    /\ UNCHANGED <<venue, seen, monitor, manager, tracked, bridge, queue,
                   snapshot, touched, absent, take, cooldown>>

\* D98: the position is tracked and absent from the snapshot.  Booked only when its
\* stop reports filled or at the second absence in a row.
Absent == open /\ ~touched /\ snapshot = 0

StopFilled ==
    LET o == IF stopOid # NoOid THEN stopOid ELSE tracked
    IN  o \in Oids /\ orders[o].status = "filled"

\* Faulty variant: an absence is confirmed by the stop's fill only.
StopOutScanStopOnly ==
    /\ pc = "scan"
    /\ Absent
    /\ IF StopFilled
       THEN absent' = 0 /\ cooldown' = TRUE /\ pc' = "stopOut"
       ELSE absent' = 1 /\ pc' = "takes" /\ UNCHANGED cooldown
    /\ UNCHANGED <<venue, seen, monitor, manager, tracked, bridge, queue,
                   snapshot, touched, take>>

\* Faulty variant: the streak is read before it is counted up.
StopOutScanLate ==
    /\ pc = "scan"
    /\ Absent
    /\ IF StopFilled \/ absent >= 2
       THEN absent' = 0 /\ cooldown' = TRUE /\ pc' = "stopOut"
       ELSE absent' = absent + 1 /\ pc' = "takes" /\ UNCHANGED cooldown
    /\ UNCHANGED <<venue, seen, monitor, manager, tracked, bridge, queue,
                   snapshot, touched, take>>

StopOutScan ==
    /\ pc = "scan"
    /\ Absent
    /\ IF StopFilled \/ absent + 1 >= 2
       THEN absent' = 0 /\ cooldown' = TRUE /\ pc' = "stopOut"
       ELSE absent' = absent + 1 /\ pc' = "takes" /\ UNCHANGED cooldown
    /\ UNCHANGED <<venue, seen, monitor, manager, tracked, bridge, queue,
                   snapshot, touched, take>>

\* A failed read, a position that is there or one no longer tracked ends the streak.
ScanClear ==
    /\ pc = "scan"
    /\ ~Absent
    /\ absent' = (IF snapshot = 0 /\ open THEN absent ELSE 0)
    /\ pc' = "takes"
    /\ UNCHANGED <<venue, seen, monitor, manager, tracked, bridge, queue,
                   snapshot, touched, take, cooldown>>

\* cancel_and_remove and cancel_all_for_ticker.
StopOutCancel ==
    /\ pc = "stopOut"
    /\ orders' = Canceled(orders, registered \cup {tracked})
    /\ tracked' = NoOid
    /\ registered' = {} /\ counted' = 0
    /\ pc' = "closing"
    /\ UNCHANGED <<shares, stream, seen, processed, manager, bridge, queue,
                   snapshot, touched, absent, take, cooldown>>

\* close_with_attribution: what is left, unless the position was closed meanwhile.
StopOutClose ==
    /\ pc = "closing"
    /\ open' = FALSE
    /\ realized' = (IF open THEN realized + left ELSE realized)
    /\ pc' = "takes"
    /\ UNCHANGED <<venue, seen, monitor, left, stopOid, tracked, bridge, queue,
                   snapshot, touched, absent, take, cooldown>>

\* A market sale of q shares: D165 first lifts the position's stop; either sale lifts
\* every sell order when the shares are reserved (attempt_close_with_status_check).
TakeSell(o, q, by, all) ==
    /\ pc = "takes"
    /\ open /\ ~touched /\ q <= left
    /\ LET lifted == IF all THEN Oids ELSE IF by = "D164" THEN {} ELSE {stopOid}
           table  == Canceled(orders, lifted)
       IN /\ Accepts(table, shares, q)
          /\ o \in Unused(table)
          /\ orders' = [table EXCEPT ![o] = Sell("market", q)]
          /\ stopOid' = (IF all \/ by = "D165" THEN NoOid ELSE stopOid)
    /\ take' = [oid |-> o, by |-> by]
    /\ pc' = "taking"
    /\ UNCHANGED <<shares, stream, seen, monitor, open, left, realized, tracked, bridge, queue,
                   snapshot, touched, absent, cooldown>>

\* The broker confirmed the fill: the sale books it.  D164 writes its own journal row;
\* a take that empties the tracker closes it.
TakeBook ==
    /\ pc = "taking"
    /\ orders[take.oid].filled > 0
    /\ LET n     == orders[take.oid].filled
           after == IF n <= left THEN left - n ELSE 0
       IN /\ left' = after
          /\ realized' = realized + n
          /\ IF after = 0 /\ take.by = "D165"
             THEN /\ orders' = Canceled(orders, registered \cup {tracked, take.oid})
                  /\ tracked' = NoOid /\ registered' = {} /\ counted' = 0
                  /\ open' = FALSE
             ELSE /\ orders' = Canceled(orders, {take.oid})
                  /\ UNCHANGED <<tracked, registered, counted, open>>
          /\ journal' = (IF take.by = "D164" THEN [journal EXCEPT ![take.oid] = @ + n] ELSE journal)
    /\ take' = NoTake
    /\ pc' = "fetch"
    /\ UNCHANGED <<shares, stream, seen, processed, stopOid, execs, booked, queue,
                   snapshot, touched, absent, cooldown>>

\* No fill was confirmed: the tranche is forfeited.  A late fill is nobody's.
TakeForfeit(live) ==
    /\ pc = "taking"
    /\ orders' = Canceled(orders, IF live THEN {} ELSE {take.oid})
    /\ take' = NoTake
    /\ pc' = "fetch"
    /\ UNCHANGED <<shares, stream, seen, monitor, manager, tracked, bridge, queue,
                   snapshot, touched, absent, cooldown>>

NoMoreTakes ==
    /\ pc = "takes"
    /\ pc' = "fetch"
    /\ UNCHANGED <<venue, seen, monitor, manager, tracked, bridge, queue,
                   snapshot, touched, absent, take, cooldown>>

\* Some caller of resubmit exchanges the tracked stop for one over what is left; a
\* refusal of the new one leaves the lifted one tracked.
ExchangeStop ==
    /\ open /\ left > 0
    /\ tracked \in Oids /\ orders[tracked].status = "open"
    /\ LET table == Canceled(orders, {tracked}) IN
         IF Accepts(table, shares, left)
         THEN \E o \in Unused(table) :
                /\ orders' = [table EXCEPT ![o] = Sell("stop", left)]
                /\ tracked' = o
         ELSE orders' = table /\ UNCHANGED tracked
    /\ UNCHANGED <<shares, stream, seen, monitor, manager, bridge, queue, cycle, cooldown>>

----------------------------------------------------------------------------
OnTradeUpdate ==
    \E i \in DOMAIN stream : TrancheFill(i) \/ TrancheFillTooLate(i) \/ Ignore(i) \/ ExitFill(i)

Takes ==
    \/ \E o \in Oids, q \in Qtys, by \in Takers, all \in BOOLEAN : TakeSell(o, q, by, all)
    \/ TakeBook
    \/ \E live \in BOOLEAN : TakeForfeit(live)

Cycle ==
    \/ Register
    \/ \E answer \in 0 .. MaxQty \cup {Unknown} : Fetch(answer)
    \/ Drain \/ SkipDrain
    \/ StopOutScan \/ ScanClear \/ StopOutCancel \/ StopOutClose
    \/ NoMoreTakes

Next ==
    \/ \E o \in Oids, n \in Qtys : Execute(o, n)
    \/ OnTradeUpdate
    \/ Cycle
    \/ Takes
    \/ ExchangeStop

Spec == Init /\ [][Next]_vars

\* Phase 3 keeps cycling and its broker calls are answered.  Nothing is assumed of the
\* stream.
Fairness ==
    /\ WF_vars(Cycle)
    /\ WF_vars(TakeBook \/ TakeForfeit(FALSE))

FairSpec == Spec /\ Fairness

----------------------------------------------------------------------------
(* Safety. *)

Sold == MaxQty - shares

\* Shares the tranche sync has credited to an order ahead of its execution: it credits
\* whichever order fits the gap, from a position fetched before the prints it waits for.
Ahead == SumFunctionOnSet([o \in Oids |-> Unfilled(orders[o])], processed)

\* The daily P&L counts a share at most once, whichever of stream, market sale and
\* stop-out scan gets to it first, and however often a print is delivered; the tranche
\* sync adds no more than what it credited ahead.
EachShareRealizedOnce == realized <= Sold + Ahead

\* But for what the sync credited ahead, the tracked quantity never falls below the
\* position (a smaller one sizes the next stop too small, fill_stream_bridge.py:264-266).
TrackerCoversPosition == open => left + Ahead >= shares

\* But for what the sync credited ahead, no path forgets a position that holds shares.
ClosedIsFlat == ~open => shares <= Ahead

\* The journal never books more of an order than it sold, under redelivery and any
\* order of partial and final prints.
JournalWithinFills == \A o \in Oids : journal[o] <= orders[o].filled

\* An order is booked by the monitor, as a tranche, or by the exit-leg handler, never
\* by both (fill_stream_bridge.py:284-299).
OneOwner == \A o \in processed : booked[o] = 0

(* Liveness. *)

\* A position the venue no longer has leaves the tracker, be the stream dead or late,
\* once position reads stop failing (two good reads in a row must see it gone).
FlatIsNoticed == <>[](snapshot # Unknown) => (shares = 0 ~> ~open)

(* What the code does not give. *)

\* A position that left the tracker has all its sold shares in the daily P&L, which the
\* circuit breaker reads (position_manager.py:1174-1176: "ALWAYS remove position and
\* record PnL").  The exit-leg handler journals a stop's fill and removes the position;
\* nobody records it in the position manager.
ClosedIsRealized == ~open /\ pc = "fetch" => realized = Sold
=============================================================================
