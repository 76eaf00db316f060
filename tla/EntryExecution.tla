--------------------------- MODULE EntryExecution ---------------------------
(***************************************************************************)
(* How a verdict becomes a tracked position: the submission of             *)
(* alpaca_executor.py, and in bridge.py the poll for a terminal status     *)
(* (D217), the cancel of an entry that is given up (D237), the position    *)
(* made of what was filled, and the three checks of its quantity against   *)
(* the broker (D218), which run as a background task while the next entry  *)
(* of the same symbol is on its way.  position_manager.py merges a re-buy  *)
(* into the tracked position (D227).                                       *)
(*                                                                         *)
(* One symbol, long; entries come one after the other, out of the main     *)
(* loop.  Sales of single shares stand for the exits: the venue executes   *)
(* them, the stream's event books them later.  An answer of the broker     *)
(* tells what was so when it was asked, not when it is used.               *)
(***************************************************************************)
EXTENDS Integers, FiniteSets

CONSTANTS Qty,         \* shares ordered by one entry
          MaxPolls,    \* max_polls
          Checks,      \* length of delays_s
          MaxEntries   \* bound: entries

ASSUME EntryAssumption == {Qty, MaxPolls, Checks, MaxEntries} \subseteq Nat \ {0}

Entries == 1 .. MaxEntries

VARIABLES order, held, sold,     \* the venue; the sales the bridge has not booked
          n, pc, polls, seen,    \* execute_verdict, for entry n
          verdict, shown,        \* what became of an entry; the priced fills any poll has shown
          assumed,               \* shares tracked as ordered that the venue never filled
          pos,                   \* the tracked position; obj = 0: none
          check,                 \* the D218 task of an entry
          crossed, fresh         \* what ran into what; the last check saw a venue at rest

venue  == <<order, held, sold>>
local  == <<pc, polls, seen>>
judged == <<verdict, assumed>>
bridge == <<n, local, judged, shown>>
vars   == <<venue, bridge, pos, check, crossed, fresh>>

\* "ended": canceled, expired or rejected; "done": done_for_day
OrderStates == {"none", "live", "cancelling", "filled", "done", "replaced", "ended"}

Order   == [st : OrderStates, filled : 0 .. Qty]
NoOrder == [st |-> "none", filled |-> 0]

\* An order as a poll shows it; priced: filled, and with its average price.
View   == [st : OrderStates, filled : 0 .. Qty, priced : BOOLEAN]
NoView == [st |-> "none", filled |-> 0, priced |-> FALSE]

Untracked == [qty |-> 0, left |-> 0, obj |-> 0]
CheckState == [left : 0 .. Checks, obj : 0 .. MaxEntries, internal : Nat,
               step : {"rest", "asked", "answered"}, sample : Nat]
Waiting(l, o) == [left |-> l, obj |-> o, step |-> "rest", internal |-> 0, sample |-> 0]
NoCheck == Waiting(0, 0)

Alive(e)   == order[e].st \in {"live", "cancelling"}
Running(e) == check[e].step \in {"asked", "answered"}
Pending(e) == check[e].left > 0 \/ Running(e)

\* An order that is filled is no longer alive.
VenueOK ==
    /\ order \in [Entries -> Order] /\ held \in Nat /\ sold \in Nat
    /\ \A e \in Entries : Alive(e) => order[e].filled < Qty

CallOK ==
    /\ n \in 0 .. MaxEntries /\ pc \in {"idle", "poll", "decide", "cancel"}
    /\ pc # "idle" => n > 0
    /\ polls \in 0 .. MaxPolls /\ (pc = "poll" => polls > 0) /\ seen \in View
    /\ verdict \in [Entries -> {"none", "tracked", "dropped", "refused", "dead", "lost"}]
    /\ shown \in [Entries -> 0 .. Qty] /\ assumed \in Nat

TrackerOK ==
    /\ pos \in [qty : Nat, left : Nat, obj : 0 .. MaxEntries] /\ pos.left <= pos.qty
    /\ check \in [Entries -> CheckState]

TypeOK ==
    /\ VenueOK /\ CallOK /\ TrackerOK
    /\ crossed \subseteq {"exit", "entry"} /\ fresh \in BOOLEAN

Init ==
    /\ order = [e \in Entries |-> NoOrder] /\ held = 0 /\ sold = 0
    /\ n = 0 /\ pc = "idle" /\ polls = 0 /\ seen = NoView
    /\ verdict = [e \in Entries |-> "none"] /\ shown = [e \in Entries |-> 0]
    /\ assumed = 0 /\ pos = Untracked
    /\ check = [e \in Entries |-> NoCheck]
    /\ crossed = {} /\ fresh = FALSE

----------------------------------------------------------------------------
(* The venue *)

Fill(e) ==
    /\ Alive(e)
    /\ LET f == order[e].filled + 1
       IN  order' = [order EXCEPT ![e] =
                       [st |-> IF f = Qty THEN "filled" ELSE @.st, filled |-> f]]
    /\ held' = held + 1
    /\ UNCHANGED <<sold, bridge, pos, check, fresh>>

\* Over before it is filled, with what it has filled.
EndOrder(e) ==
    /\ Alive(e)
    /\ \E st \in {"ended", "done", "replaced"} : order' = [order EXCEPT ![e].st = st]
    /\ UNCHANGED <<held, sold, bridge, pos, check, fresh>>

\* Exits are orders for tracked shares.
Sell ==
    /\ held > 0 /\ sold < pos.left
    /\ held' = held - 1 /\ sold' = sold + 1
    /\ UNCHANGED <<order, bridge, pos, check, fresh>>

\* Faulty variant: the remaining quantity may pass zero.
BookSaleRaw ==
    /\ sold > 0 /\ sold' = sold - 1
    /\ pos' = [pos EXCEPT !.left = @ - 1]
    /\ UNCHANGED <<order, held, bridge, check, fresh>>

\* TrancheExitMonitor.on_fill, which removes a position it empties; a partial stop
\* print leaves it.  A check may have counted the sale already.
BookSale ==
    /\ sold > 0 /\ sold' = sold - 1
    /\ IF pos.left > 1
       THEN pos' = [pos EXCEPT !.left = @ - 1]
       ELSE pos' = Untracked \/ (held > 0 /\ pos' = [pos EXCEPT !.left = 0])
    /\ UNCHANGED <<order, held, bridge, check, fresh>>

----------------------------------------------------------------------------
(* position_manager.py and the end of execute_verdict *)

\* The call is over, and its locals with it.
Return == pc' = "idle" /\ polls' = 0 /\ seen' = NoView

\* The object the tracker keeps: the one it has, or that of the entry.
Merged(e, q) ==
    IF pos.left > 0
    THEN [qty |-> pos.left + q, left |-> pos.left + q, obj |-> pos.obj]
    ELSE [qty |-> q, left |-> q, obj |-> e]

\* Faulty variant: the checks watch the entry's own object, which a merge discards.
AddPositionOwn(e, q, ghosts) ==
    /\ pos' = Merged(e, q) /\ assumed' = assumed + ghosts
    /\ verdict' = [verdict EXCEPT ![e] = "tracked"]
    /\ check' = [check EXCEPT ![e] = Waiting(Checks, e)]
    /\ Return

\* add_position, and the task of its checks; of the q shares, ghosts were never filled.
AddPosition(e, q, ghosts) ==
    /\ pos' = Merged(e, q) /\ assumed' = assumed + ghosts
    /\ verdict' = [verdict EXCEPT ![e] = "tracked"]
    /\ check' = [check EXCEPT ![e] = Waiting(Checks, Merged(e, q).obj)]
    /\ Return

GiveUp(e, why) ==
    /\ verdict' = [verdict EXCEPT ![e] = why] /\ Return
    /\ UNCHANGED <<assumed, pos, check>>

----------------------------------------------------------------------------
(* AlpacaExecutor.execute *)

\* Entry n + 1 reaches the venue, which fills q shares of it at once.
Placing(st, q) ==
    /\ pc = "idle" /\ n < MaxEntries /\ n' = n + 1 /\ fresh' = FALSE
    /\ order' = [order EXCEPT ![n + 1] = [st |-> st, filled |-> q]]
    /\ held' = held + q
    /\ seen' = NoView /\ UNCHANGED <<sold, shown>>

\* The answer has a status of success: no poll, and the ordered quantity is tracked,
\* which an order that is done for the day need not have filled.
SubmitFilled ==
    Placing("filled", Qty) /\ AddPosition(n + 1, Qty, 0)

SubmitDone ==
    \E q \in 0 .. Qty - 1 : Placing("done", q) /\ AddPosition(n + 1, Qty, Qty - q)

\* Faulty variant: a partial fill in the answer counts as the whole order.
SubmitAcceptedTrusted ==
    \E q \in 0 .. Qty - 1 :
      /\ Placing("live", q)
      /\ IF q > 0
         THEN AddPosition(n + 1, Qty, 0)
         ELSE pc' = "poll" /\ polls' = MaxPolls /\ UNCHANGED <<judged, pos, check>>

SubmitAccepted ==
    \E q \in 0 .. Qty - 1 :
      /\ Placing("live", q)
      /\ pc' = "poll" /\ polls' = MaxPolls
      /\ UNCHANGED <<judged, pos, check>>

SubmitRefused ==
    Placing("ended", 0) /\ GiveUp(n + 1, "dead")

\* The answer is lost: the executor raises, the bridge has no order id to cancel.
SubmitLost ==
    Placing("live", 0) /\ GiveUp(n + 1, "lost")

----------------------------------------------------------------------------
(* _poll_for_terminal_fill *)

\* An average price that was given once is given again.
PollRead ==
    /\ pc = "poll" /\ polls' = polls - 1
    /\ LET q == order[n].filled
       IN  \E priced \in BOOLEAN :
             /\ (q = 0 => ~priced) /\ (shown[n] > 0 => priced)
             /\ seen' = [st |-> order[n].st, filled |-> q, priced |-> priced]
             /\ shown' = [shown EXCEPT ![n] = IF priced THEN q ELSE 0]
    /\ pc' = IF Alive(n) /\ polls > 1 THEN "poll" ELSE "decide"
    /\ UNCHANGED <<venue, n, judged, pos, check, fresh>>

\* The order is not in the page returned.
PollMisses ==
    /\ pc = "poll" /\ polls' = polls - 1
    /\ pc' = IF polls > 1 THEN "poll" ELSE "decide"
    /\ UNCHANGED <<venue, n, seen, judged, shown, pos, check, fresh>>

\* Faulty variant: a failed read forgets what the earlier polls have seen.
PollFailsForgets ==
    /\ pc = "poll" /\ pc' = "decide" /\ seen' = NoView
    /\ UNCHANGED <<venue, n, polls, judged, shown, pos, check, fresh>>

\* get_orders raises: the last order seen is returned at once.
PollFails ==
    /\ pc = "poll" /\ pc' = "decide"
    /\ UNCHANGED <<venue, n, polls, seen, judged, shown, pos, check, fresh>>

----------------------------------------------------------------------------
(* execute_verdict, after the poll *)

\* Not visible; or neither a success nor ended, and without a fill or its price.
Useless == seen.st = "none" \/ (seen.st \in {"live", "replaced"} /\ ~seen.priced)

\* Faulty variant: the entry is given up and stays at the venue.
DropOnly ==
    /\ pc = "decide" /\ Useless
    /\ GiveUp(n, "dropped")
    /\ UNCHANGED <<venue, n, shown, fresh>>

\* Cancel it, and no position.
Drop ==
    /\ pc = "decide" /\ Useless /\ pc' = "cancel"
    /\ UNCHANGED <<venue, n, polls, seen, judged, shown, pos, check, fresh>>

\* _cancel_order_or_warn.  A cancel the venue has taken can still be overtaken by fills.
CancelTaken ==
    /\ pc = "cancel" /\ GiveUp(n, "dropped")
    /\ order' = [order EXCEPT ![n].st = IF @ = "live" THEN "cancelling" ELSE @]
    /\ UNCHANGED <<held, sold, n, shown, fresh>>

\* AlpacaClient.cancel_order answers a failed request with None: for the caller it is
\* cancelled all the same.
CancelFails ==
    /\ pc = "cancel" /\ GiveUp(n, "refused")
    /\ UNCHANGED <<venue, n, shown, fresh>>

\* Cancelled, expired or rejected: no position, whatever was filled.
Dead ==
    /\ pc = "decide" /\ seen.st = "ended"
    /\ GiveUp(n, "dead")
    /\ UNCHANGED <<venue, n, shown, fresh>>

\* A success, or partly filled.  The ordered quantity stays where nothing was filled,
\* which only an order that is done for the day gets here with.
Accept ==
    /\ pc = "decide" /\ seen.st \in {"live", "replaced", "filled", "done"} /\ ~Useless
    /\ IF seen.filled > 0
       THEN AddPosition(n, seen.filled, 0)
       ELSE AddPosition(n, Qty, Qty)
    /\ UNCHANGED <<venue, n, shown, fresh>>

----------------------------------------------------------------------------
(* _schedule_qty_drift_checks, _assert_qty_matches_broker *)

\* Nothing else is under way when the last check of the last entry asks.
AtRest(e) ==
    /\ e = n /\ check[e].left = 1 /\ pc = "idle" /\ sold = 0
    /\ \A d \in Entries : ~Alive(d) /\ (d # e => ~Pending(d))

\* The delay is over; the tracker's quantity is read before the broker is asked.
CheckStarts(e) ==
    /\ check[e].left > 0 /\ check[e].step = "rest"
    /\ check' = [check EXCEPT ![e] =
                   IF pos.obj = 0
                   THEN NoCheck
                   ELSE [left |-> check[e].left - 1, obj |-> check[e].obj, step |-> "asked",
                         internal |-> IF check[e].obj = pos.obj THEN pos.qty ELSE 0,
                         sample |-> 0]]
    /\ fresh' = (pos.obj # 0 /\ AtRest(e))
    /\ UNCHANGED <<venue, bridge, pos>>

\* get_positions answers.
CheckAnswers(e) ==
    /\ check[e].step = "asked"
    /\ check' = [check EXCEPT ![e] = [left |-> check[e].left, obj |-> check[e].obj, step |-> "answered",
                                      internal |-> check[e].internal, sample |-> held]]
    /\ UNCHANGED <<venue, bridge, pos, fresh>>

\* It raises, or does not list the symbol.
CheckFails(e) ==
    /\ check[e].step = "asked"
    /\ check' = [check EXCEPT ![e] = Waiting(check[e].left, check[e].obj)]
    /\ fresh' = FALSE
    /\ UNCHANGED <<venue, bridge, pos>>

\* The drift is written to the object of the task, which may no longer be the tracked one.
CheckApplies(e) ==
    /\ check[e].step = "answered"
    /\ LET c == check[e]
       IN  /\ pos' = IF c.sample \notin {0, c.internal} /\ c.obj = pos.obj
                     THEN [qty |-> c.sample, left |-> c.sample, obj |-> pos.obj]
                     ELSE pos
           /\ check' = [check EXCEPT ![e] = Waiting(c.left, c.obj)]
    /\ UNCHANGED <<venue, bridge, fresh>>

----------------------------------------------------------------------------

\* A sale met a running check, or a drift that is not yet reconciled; a check met an entry.
Crossing ==
    {k \in {"exit", "entry"} :
       \/ /\ k = "exit"
          /\ \/ sold > 0 /\ \E e \in Entries : Running(e)
             \/ pc = "idle" /\ (sold > 0 \/ pos.qty # pos.left) /\ pos.left # held + sold
       \/ k = "entry" /\ pc # "idle" /\ \E e \in Entries : Running(e)}

Submit == SubmitFilled \/ SubmitDone \/ SubmitAccepted \/ SubmitRefused \/ SubmitLost
Poll   == PollRead \/ PollMisses \/ PollFails
Decide == Drop \/ CancelTaken \/ CancelFails \/ Dead \/ Accept
Check(e) == CheckStarts(e) \/ CheckAnswers(e) \/ CheckFails(e) \/ CheckApplies(e)

Step ==
    \/ Submit \/ Poll \/ Decide \/ Sell \/ BookSale
    \/ \E e \in Entries : Fill(e) \/ EndOrder(e) \/ Check(e)

Next == Step /\ crossed' = crossed \cup Crossing'

Spec == Init /\ [][Next]_vars

----------------------------------------------------------------------------

(* An entry order that can still fill without being told has an owner.     *)
(* Once execute_verdict is done with it, an order that is live at the      *)
(* venue belongs to a tracked position; the exceptions are an order whose  *)
(* cancel request failed, which the client reports to nobody, and one      *)
(* whose submission was never answered.                                    *)
LiveIsOwned ==
    pc = "idle" =>
      \A e \in Entries : order[e].st = "live" => verdict[e] \in {"tracked", "refused", "lost"}

(* Fills a poll has shown with their price are not forgotten: an entry     *)
(* given up as invisible or unfilled is one of which no poll, however long *)
(* ago, showed such a fill.                                                *)
KnownFillsAreTracked ==
    \A e \in Entries : verdict[e] \in {"dropped", "refused"} => shown[e] = 0

(* As long as no check ran into an entry or an exit, the tracker counts    *)
(* shares the account does not hold for two reasons only: sales that are   *)
(* about to be booked, and what entries that were done for the day had not *)
(* filled when their ordered quantity was tracked.                         *)
NoPhantom == crossed = {} => pos.left <= held + sold + assumed

(* When the last check of the last entry asked a venue at rest and was     *)
(* answered, the tracker of a symbol the broker still lists has every      *)
(* share the account holds, the late fills, the re-buys and the ghosts of  *)
(* abandoned entries included: whatever the earlier checks, running into   *)
(* entries and into each other, made of it.                                *)
LastCheckReconciles ==
    /\ fresh /\ held > 0 /\ "exit" \notin crossed
    /\ \A e \in Entries : ~Pending(e)
    => pos.left = held + sold

=============================================================================
