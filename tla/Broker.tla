------------------------------- MODULE Broker -------------------------------
(***************************************************************************)
(* The paper-trading venue (Alpaca), as the code under src/ relies on it.  *)
(* It is an external service: these operators say what the execution layer *)
(* assumes of it, for the sell orders of ONE symbol and the position they  *)
(* close.  The executable counterpart in the repository is the oracle      *)
(* src/tests/property/simple_broker.py; the share-reservation rule is the  *)
(* one src/src/execution/exit_ladder.py states ("held_for_orders").        *)
(*                                                                         *)
(* An order table maps an order id to a record; an id that was never       *)
(* handed out has status "unused".  "canceling" is the venue's             *)
(* pending_cancel: the DELETE was acknowledged, yet the order still holds  *)
(* its shares and may still execute until the cancel settles.              *)
(***************************************************************************)
EXTENDS Integers, FiniteSetsExt

CONSTANTS Oids,          \* order ids the venue can hand out
          Prices,        \* prices an order can carry
          MaxQty,        \* shares of the largest order
          Shortable,     \* whether a sell without a position is accepted (opens a short)
          CancelAcks     \* statuses in which a DELETE of the order is answered 200/204

Kinds    == {"stop", "limit", "market"}
Statuses == {"unused", "open", "canceling", "canceled", "filled"}

ASSUME BrokerAssumption ==
    /\ IsFiniteSet(Oids)
    /\ Prices \subseteq Int /\ Prices # {}
    /\ MaxQty \in Nat \ {0}
    /\ Shortable \in BOOLEAN
    /\ CancelAcks \subseteq Statuses \ {"unused"}

Qtys  == 1 .. MaxQty
Order == [kind: Kinds, status: Statuses, price: Prices, qty: Qtys, filled: 0 .. MaxQty]

\* Orders that reserve shares and can execute.
Working(orders) == {o \in DOMAIN orders : orders[o].status \in {"open", "canceling"}}

Unfilled(order) == order.qty - order.filled

\* Shares held for an order, and for all of them.
Reserved(order) == IF order.status \in {"open", "canceling"} THEN Unfilled(order) ELSE 0
Held(orders) == SumFunction([o \in DOMAIN orders |-> Reserved(orders[o])])

\* A sell of q shares is accepted against what the position has left; without
\* a long position it is a short sale, which only a shortable symbol allows.
Accepts(orders, shares, q) ==
    /\ q > 0
    /\ IF shares > 0 THEN q <= shares - Held(orders) ELSE Shortable

Unused(orders) == {o \in DOMAIN orders : orders[o].status = "unused"}

Placed(kind, price, qty) ==
    [kind |-> kind, status |-> "open", price |-> price, qty |-> qty, filled |-> 0]

\* An order whose price does not matter; an id that was not handed out.
AnyPrice == CHOOSE p \in Prices : TRUE
Sell(kind, qty) == Placed(kind, AnyPrice, qty)
Blank == [Sell("limit", 1) EXCEPT !.status = "unused"]

\* n more shares of the order execute; the last one makes it terminal.
Executed(order, n) ==
    [order EXCEPT !.filled = @ + n,
                  !.status = IF order.filled + n = order.qty THEN "filled" ELSE @]

\* The order after an acknowledged DELETE.
CancelRequested(order) ==
    [order EXCEPT !.status = IF @ = "open" THEN "canceling" ELSE @]

Settled(order) == [order EXCEPT !.status = "canceled"]

OpenStops(orders) ==
    {o \in DOMAIN orders : orders[o].kind = "stop" /\ orders[o].status = "open"}
=============================================================================
