------------------------- MODULE FillBookingProofs -------------------------
(***************************************************************************)
(* Proofs about FillBooking, for any orders, prices, quantities and ladder *)
(* and any number of prints delivered in any order and any number of       *)
(* times, in layers:                                                       *)
(*   - TypeInv, and who books an order and how much of it reaches the      *)
(*     journal.  Nothing here depends on how many shares the orders of a   *)
(*     position sell, so shares and a print's position are integers;       *)
(*   - LedgerInv, where the venue never sells more than the account has:   *)
(*     shares are what the entry bought less what was sold, and the orders *)
(*     have their roles;                                                   *)
(*   - BookInv, CountedInv and FlatInv: the sums the tracker keeps against *)
(*     what the orders really sold and what the tranche sync credited      *)
(*     ahead;                                                              *)
(*   - RestInv and LadderInv: what is left of the types.                   *)
(***************************************************************************)
EXTENDS FillBooking, BrokerProofs

Report == [oid: Oids, cum: Qtys, left: Int]

\* An order table; what a step may do to it: nothing is ever unsold.
Table(t) ==
    /\ t \in [Oids -> Order]
    /\ \A o \in Oids : t[o].status = "unused" => t[o].filled = 0

Onward(t, u) == \A o \in Oids : t[o].filled <= u[o].filled

TypeInv ==
    /\ Table(orders) /\ shares \in Int /\ stream \in Seq(Report)
    /\ registered \subseteq Tranches /\ processed \subseteq Tranches
    /\ left \in 0 .. MaxQty
    /\ booked \in [Oids -> 0 .. MaxQty] /\ journal \in [Oids -> Int]
    /\ take \in [oid: Oids, by: Takers] \cup {NoTake}
    /\ pc = "taking" => take.oid \in Oids

LEMMA Constants ==
    /\ MaxQty \in Nat \ {0} /\ Stop \in Oids /\ Tranches \subseteq Oids
    /\ Ladder \in Seq(Oids)
  BY BrokerAssumption, FillBookingAssumption DEF Tranches

(***************************************************************************)
(* The order table.                                                        *)
(***************************************************************************)

LEMMA CanceledTable ==
    ASSUME NEW t, Table(t), NEW ids
    PROVE  Table(Canceled(t, ids)) /\ Onward(t, Canceled(t, ids))
<1> DEFINE c == Canceled(t, ids)
<1>1. /\ c = [o \in Oids |-> IF o \in ids /\ t[o].status = "open" THEN Settled(t[o]) ELSE t[o]]
      /\ \A o \in Oids : t[o] \in Order
  BY DEF Canceled, Table
<1>2. \A o \in Oids : /\ Settled(t[o]) \in Order /\ Settled(t[o]).filled = t[o].filled
                      /\ Settled(t[o]).status = "canceled"
  BY <1>1, ChangedIsOrder, ChangedFields
<1>3. \A o \in Oids : t[o].filled \in Int
  BY <1>1, Constants DEF Order
<1> HIDE DEF c
<1>4. Table(c) /\ Onward(t, c)
  BY <1>1, <1>2, <1>3 DEF Table, Onward
<1> QED  BY <1>4 DEF c

LEMMA SoldTable ==
    ASSUME NEW t, Table(t), NEW n \in Unused(t), NEW k \in Kinds, NEW q \in Qtys,
           NEW u, u = [t EXCEPT ![n] = Sell(k, q)]
    PROVE  Table(u) /\ Onward(t, u)
<1>1. /\ Sell(k, q) \in Order /\ Sell(k, q).filled = 0 /\ Sell(k, q).status = "open"
      /\ n \in Oids /\ t[n].filled = 0
  BY SellIsOrder DEF Table, Unused
<1>2. u \in [Oids -> Order] /\ \A o \in Oids : u[o] = IF o = n THEN Sell(k, q) ELSE t[o]
  BY <1>1 DEF Table
<1>3. \A o \in Oids : t[o].filled \in Int
  BY Constants DEF Table, Order
<1> QED  BY <1>1, <1>2, <1>3 DEF Table, Onward

LEMMA ExecutedTable ==
    ASSUME NEW t, Table(t), NEW o \in Oids, NEW n \in Qtys, n <= Unfilled(t[o]),
           t[o].status = "open", NEW u, u = [t EXCEPT ![o] = Executed(t[o], n)]
    PROVE  /\ Table(u) /\ Onward(t, u)
           /\ u[o].filled = t[o].filled + n /\ t[o].filled + n \in Qtys
<1>1. t[o] \in Order /\ Executed(t[o], n) \in Order
  BY ChangedIsOrder DEF Table
<1>2. /\ Executed(t[o], n).filled = t[o].filled + n
      /\ Executed(t[o], n).status # "unused"
  BY <1>1, ExecutedFields
<1>3. u \in [Oids -> Order] /\ \A x \in Oids : u[x] = IF x = o THEN Executed(t[o], n) ELSE t[x]
  BY <1>1 DEF Table
<1>4. \A x \in Oids : t[x].filled \in 0 .. MaxQty
  BY DEF Table, Order
<1>5. t[o].filled + n \in Qtys
  BY <1>1, <1>4, Constants DEF Unfilled, Order, Qtys
<1> QED  BY <1>2, <1>3, <1>4, <1>5, Constants DEF Table, Onward, Qtys

LEMMA OnwardSelf == ASSUME NEW t, Table(t) PROVE Onward(t, t)
  BY Constants DEF Table, Onward, Order

LEMMA OnwardOn ==
    ASSUME NEW t, NEW u, NEW v, Table(t), Table(u), Table(v), Onward(t, u), Onward(u, v)
    PROVE  Onward(t, v)
<1>1. \A o \in Oids : t[o].filled \in Int /\ u[o].filled \in Int /\ v[o].filled \in Int
  BY Constants DEF Table, Order
<1> QED  BY <1>1 DEF Onward

\* The first of the tranche orders the sync may credit is one of them.
LEMMA FirstCredited ==
    ASSUME Credited # {}
    PROVE  Ladder[Min(Credited)] \in registered
<1>1. Credited \subseteq Nat
  BY Constants DEF Credited
<1>2. PICK x \in Credited : \A y \in Credited : x <= y
  BY <1>1, LeastExists
<1>3. Min(Credited) \in Credited
  BY <1>2 DEF Min
<1> QED  BY <1>3 DEF Credited

(***************************************************************************)
(* Types, and what a step does to the order table.                         *)
(***************************************************************************)

LEMMA TypeInit == Init => TypeInv
<1> SUFFICES ASSUME Init PROVE TypeInv
  OBVIOUS
<1>1. PICK qty \in [Tranches \cup {Stop} -> Qtys] :
        orders = [o \in Oids |->
                CASE o = Stop -> Sell("stop", qty[o])
                  [] o \in Tranches -> Sell("limit", qty[o])
                  [] OTHER -> Blank]
  BY DEF Init
<1>2. Table(orders)
  <2>1. \A o \in Oids : o = Stop => Sell("stop", qty[o]) \in Order /\ Sell("stop", qty[o]).filled = 0
    BY SellIsOrder DEF Kinds
  <2>2. \A o \in Tranches : Sell("limit", qty[o]) \in Order /\ Sell("limit", qty[o]).filled = 0
    BY SellIsOrder DEF Kinds
  <2>3. ASSUME NEW o \in Oids
        PROVE  orders[o] \in Order /\ orders[o].filled = 0
    BY <1>1, <2>1, <2>2, BlankIsOrder
  <2> QED  BY <1>1, <2>3 DEF Table
<1>3. booked \in [Oids -> 0 .. MaxQty] /\ journal \in [Oids -> Int] /\ left \in 0 .. MaxQty
  BY Constants DEF Init
<1> QED  BY <1>2, <1>3, Constants DEF Init, TypeInv

LEMMA TableStep ==
    ASSUME TypeInv, [Next]_vars
    PROVE  Table(orders') /\ Onward(orders, orders')
<1>0. Table(orders) /\ Onward(orders, orders) /\ left \in 0 .. MaxQty
  BY OnwardSelf DEF TypeInv
<1>1. ASSUME NEW o \in Oids, NEW n \in Qtys, Execute(o, n)
      PROVE  Table(orders') /\ Onward(orders, orders')
  BY <1>0, <1>1, ExecutedTable DEF Execute
<1>2. CASE UNCHANGED orders
  BY <1>0, <1>2
<1>3. ASSUME NEW ids, orders' = Canceled(orders, ids)
      PROVE  Table(orders') /\ Onward(orders, orders')
  BY <1>0, <1>3, CanceledTable
<1>4. ASSUME NEW ids, NEW k \in Kinds, NEW q \in Qtys, NEW n \in Unused(Canceled(orders, ids)),
             orders' = [Canceled(orders, ids) EXCEPT ![n] = Sell(k, q)]
      PROVE  Table(orders') /\ Onward(orders, orders')
  <2> DEFINE c == Canceled(orders, ids)
  <2>1. Table(c) /\ Onward(orders, c)
    BY <1>0, CanceledTable
  <2> HIDE DEF c
  <2>2. Table(orders') /\ Onward(c, orders')
    BY <1>4, <2>1, SoldTable DEF c
  <2> QED  BY <1>0, <2>1, <2>2, OnwardOn
<1>5. CASE Drain
  BY <1>2, <1>3, <1>5 DEF Drain
<1>6. CASE StopOutCancel
  BY <1>3, <1>6 DEF StopOutCancel
<1>7. CASE TakeBook
  BY <1>3, <1>7 DEF TakeBook
<1>8. ASSUME NEW live \in BOOLEAN, TakeForfeit(live)
      PROVE  Table(orders') /\ Onward(orders, orders')
  BY <1>3, <1>8 DEF TakeForfeit
<1>9. ASSUME NEW o \in Oids, NEW q \in Qtys, NEW by \in Takers, NEW all \in BOOLEAN,
             TakeSell(o, q, by, all)
      PROVE  Table(orders') /\ Onward(orders, orders')
  <2> DEFINE lifted == IF all THEN Oids ELSE IF by = "D164" THEN {} ELSE {stopOid}
  <2>1. /\ o \in Unused(Canceled(orders, lifted))
        /\ orders' = [Canceled(orders, lifted) EXCEPT ![o] = Sell("market", q)]
    BY <1>9 DEF TakeSell
  <2> HIDE DEF lifted
  <2> QED  BY <1>4, <2>1 DEF Kinds
<1>10. CASE ExchangeStop
  <2>1. left \in Qtys
    BY <1>0, <1>10, Constants DEF ExchangeStop, Qtys
  <2>2. CASE orders' = Canceled(orders, {tracked})
    BY <1>3, <2>2
  <2>3. CASE \E o \in Unused(Canceled(orders, {tracked})) :
               orders' = [Canceled(orders, {tracked}) EXCEPT ![o] = Sell("stop", left)]
    BY <1>4, <2>1, <2>3 DEF Kinds
  <2> QED  BY <1>10, <2>2, <2>3 DEF ExchangeStop
<1>11. CASE OnTradeUpdate
  BY <1>2, <1>11 DEF OnTradeUpdate, TrancheFill, TrancheFillTooLate, Ignore, ExitFill, venue
<1>12. CASE \/ Register \/ (\E answer \in 0 .. MaxQty \cup {Unknown} : Fetch(answer))
            \/ SkipDrain \/ StopOutScan \/ ScanClear \/ StopOutClose \/ NoMoreTakes
            \/ UNCHANGED vars
  BY <1>2, <1>12 DEF Register, Fetch, SkipDrain, StopOutScan, ScanClear, StopOutClose,
                     NoMoreTakes, venue, vars
<1> QED
  BY <1>1, <1>5, <1>6, <1>7, <1>8, <1>9, <1>10, <1>11, <1>12 DEF Next, Cycle, Takes

\* A tranche order that is counted was registered and is processed from then on.
LEMMA CountTyped ==
    ASSUME TypeInv, NEW o \in registered, NEW q \in 0 .. MaxQty, CountTranche(o, q)
    PROVE  /\ registered' \subseteq registered /\ processed' = processed \cup {o}
           /\ registered' \subseteq Tranches /\ processed' \subseteq Tranches
           /\ left' \in 0 .. MaxQty
<1>1. left' = IF q <= left THEN left - q ELSE 0
  BY DEF CountTranche
<1>2. left' \in 0 .. MaxQty
  BY <1>1, Constants DEF TypeInv
<1> QED  BY <1>2 DEF CountTranche, TypeInv

LEMMA DrainCounts ==
    ASSUME TypeInv, Drain
    PROVE  /\ registered' \subseteq registered /\ processed' \subseteq processed \cup registered
           /\ left' \in 0 .. MaxQty
<1>1. CASE ~SyncHits
  BY <1>1 DEF Drain, monitor, TypeInv
<1>2. CASE SyncHits
  <2> DEFINE o == Ladder[Min(Credited)]
  <2>1. o \in registered /\ CountTranche(o, orders[o].qty)
    BY <1>2, FirstCredited DEF Drain, SyncHits
  <2> HIDE DEF o
  <2>2. orders[o].qty \in 0 .. MaxQty
    BY <2>1, Constants DEF TypeInv, Table, Order, Qtys
  <2> QED  BY <2>1, <2>2, CountTyped
<1> QED  BY <1>1, <1>2

LEMMA TrancheFillCounts ==
    ASSUME TypeInv, NEW i, TrancheFill(i)
    PROVE  /\ registered' \subseteq registered /\ processed' \subseteq processed \cup registered
           /\ left' \in 0 .. MaxQty
<1>1. stream[i] \in Report /\ stream[i].oid \in registered /\ CountTranche(stream[i].oid, stream[i].cum)
  BY DEF TypeInv, TrancheFill, Deliver, FirstFill
<1>2. stream[i].cum \in 0 .. MaxQty
  BY <1>1, Constants DEF Report, Qtys
<1> QED  BY <1>1, <1>2, CountTyped

\* A print of the exit-leg handler's books more of an order than is booked of it.
LEMMA ExitFillBooks ==
    ASSUME TypeInv, NEW i, ExitFill(i)
    PROVE  LET e == stream[i]
           IN  /\ i \in DOMAIN stream /\ e.oid \in Oids /\ e.cum \in 0 .. MaxQty
               /\ e.oid \notin registered \cup processed
               /\ booked' = [booked EXCEPT ![e.oid] = e.cum]
               /\ journal' = [journal EXCEPT ![e.oid] = @ + (e.cum - booked[e.oid])]
               /\ left' \in 0 .. MaxQty
<1>1. stream[i] \in Report /\ i \in DOMAIN stream
  BY DEF TypeInv, ExitFill, Deliver
<1>2. stream[i].oid \in Oids /\ stream[i].cum \in 0 .. MaxQty
  BY <1>1, Constants DEF Report, Qtys
<1>3. booked[stream[i].oid] \in 0 .. MaxQty
  BY <1>2 DEF TypeInv
<1>4. ~Skipped(stream[i])
  BY DEF ExitFill
<1>5. booked[stream[i].oid] < stream[i].cum /\ stream[i].oid \notin registered \cup processed
  BY <1>2, <1>3, <1>4, Constants DEF Skipped
<1>6. left' \in {left, 0, left - (stream[i].cum - booked[stream[i].oid])}
      /\ (left' = left - (stream[i].cum - booked[stream[i].oid]) =>
            stream[i].cum - booked[stream[i].oid] <= left \/ left' \in {left, 0})
  BY DEF ExitFill
<1>7. left' \in 0 .. MaxQty
  BY SMTT(30), <1>2, <1>3, <1>5, <1>6, Constants DEF TypeInv
<1> QED  BY <1>1, <1>2, <1>5, <1>7 DEF ExitFill

LEMMA TypeStep == TypeInv /\ [Next]_vars => TypeInv'
<1> SUFFICES ASSUME TypeInv, [Next]_vars PROVE TypeInv'
  OBVIOUS
<1>0. Table(orders')
  BY TableStep
<1>a. /\ shares \in Int /\ stream \in Seq(Report) /\ left \in 0 .. MaxQty
      /\ registered \subseteq Tranches /\ processed \subseteq Tranches
      /\ booked \in [Oids -> 0 .. MaxQty] /\ journal \in [Oids -> Int]
      /\ take \in [oid: Oids, by: Takers] \cup {NoTake} /\ (pc = "taking" => take.oid \in Oids)
  BY DEF TypeInv
<1>1. ASSUME NEW o \in Oids, NEW n \in Qtys, Execute(o, n)
      PROVE  TypeInv'
  <2>1. orders[o].filled + n \in Qtys
    BY <1>1, ExecutedTable DEF Execute, TypeInv
  <2>2. shares - n \in Int
    BY <1>a, Constants DEF Qtys
  <2>3. [oid |-> o, cum |-> orders[o].filled + n, left |-> shares - n] \in Report
    BY <2>1, <2>2 DEF Report
  <2>4. stream' \in Seq(Report) /\ shares' \in Int
    BY <1>1, <1>a, <2>2, <2>3 DEF Execute
  <2> QED
    BY <1>0, <1>1, <1>a, <2>4 DEF Execute, TypeInv, monitor, manager, bridge, cycle
<1>2. CASE OnTradeUpdate
  <2>1. ASSUME NEW i, TrancheFill(i)
        PROVE  TypeInv'
    BY <1>0, <1>a, <2>1, TrancheFillCounts DEF TrancheFill, TypeInv, venue, bridge, cycle
  <2>2. ASSUME NEW i, TrancheFillTooLate(i)
        PROVE  TypeInv'
    BY <1>0, <1>a, <2>2 DEF TrancheFillTooLate, FirstFill, TypeInv, venue, manager, bridge, cycle
  <2>3. ASSUME NEW i, Ignore(i)
        PROVE  TypeInv'
    BY <1>0, <1>a, <2>3 DEF Ignore, TypeInv, venue, monitor, manager, bridge, cycle
  <2>4. ASSUME NEW i, ExitFill(i)
        PROVE  TypeInv'
    <3> DEFINE e == stream[i]
    <3>1. /\ e.oid \in Oids /\ e.cum \in 0 .. MaxQty /\ left' \in 0 .. MaxQty
          /\ booked' = [booked EXCEPT ![e.oid] = e.cum]
          /\ journal' = [journal EXCEPT ![e.oid] = @ + (e.cum - booked[e.oid])]
      BY <2>4, ExitFillBooks
    <3> HIDE DEF e
    <3>2. booked' \in [Oids -> 0 .. MaxQty]
      BY <1>a, <3>1
    <3>3. journal' \in [Oids -> Int]
      <4>1. booked[e.oid] \in Int /\ journal[e.oid] \in Int /\ e.cum \in Int
        BY <1>a, <3>1, Constants
      <4>2. journal[e.oid] + (e.cum - booked[e.oid]) \in Int
        BY <4>1
      <4> QED  BY <1>a, <3>1, <4>2
    <3> QED
      BY <1>0, <1>a, <2>4, <3>1, <3>2, <3>3 DEF ExitFill, TypeInv, venue, monitor, cycle
  <2> QED  BY <1>2, <2>1, <2>2, <2>3, <2>4 DEF OnTradeUpdate
<1>3. CASE Cycle
  <2>1. CASE Register
    BY <1>0, <1>a, <2>1 DEF Register, TypeInv, venue, manager, bridge
  <2>2. CASE Drain
    BY <1>0, <1>a, <2>2, DrainCounts DEF Drain, TypeInv, bridge
  <2>3. CASE StopOutCancel
    BY <1>0, <1>a, <2>3 DEF StopOutCancel, TypeInv, manager, bridge
  <2>4. CASE \/ (\E answer \in 0 .. MaxQty \cup {Unknown} : Fetch(answer))
             \/ SkipDrain \/ StopOutScan \/ ScanClear \/ StopOutClose \/ NoMoreTakes
    BY <1>0, <1>a, <2>4
       DEF Fetch, SkipDrain, StopOutScan, ScanClear, StopOutClose, NoMoreTakes, TypeInv,
           venue, monitor, manager, bridge
  <2> QED  BY <1>3, <2>1, <2>2, <2>3, <2>4 DEF Cycle
<1>4. CASE Takes
  <2>1. ASSUME NEW o \in Oids, NEW q \in Qtys, NEW by \in Takers, NEW all \in BOOLEAN,
               TakeSell(o, q, by, all)
        PROVE  TypeInv'
    BY <1>0, <1>a, <2>1 DEF TakeSell, TypeInv, monitor, bridge
  <2>2. CASE TakeBook
    <3> DEFINE n == orders[take.oid].filled
    <3>1. take.oid \in Oids /\ n \in 0 .. MaxQty
      BY <1>a, <2>2 DEF TakeBook, TypeInv, Table, Order
    <3> HIDE DEF n
    <3>2. left' \in 0 .. MaxQty
      <4>1. left' = IF n <= left THEN left - n ELSE 0
        BY <2>2 DEF TakeBook, n
      <4> QED  BY <1>a, <3>1, <4>1, Constants
    <3>3. journal' \in [Oids -> Int]
      <4>1. journal[take.oid] + n \in Int
        BY <1>a, <3>1, Constants
      <4> QED  BY <1>a, <2>2, <3>1, <4>1 DEF TakeBook, n
    <3>4. registered' \subseteq Tranches
      BY <1>a, <2>2 DEF TakeBook
    <3> QED
      BY <1>0, <1>a, <2>2, <3>2, <3>3, <3>4 DEF TakeBook, TypeInv
  <2>3. ASSUME NEW live \in BOOLEAN, TakeForfeit(live)
        PROVE  TypeInv'
    BY <1>0, <1>a, <2>3 DEF TakeForfeit, TypeInv, monitor, manager, bridge
  <2> QED  BY <1>4, <2>1, <2>2, <2>3 DEF Takes
<1>5. CASE ExchangeStop
  BY <1>0, <1>a, <1>5 DEF ExchangeStop, TypeInv, monitor, manager, bridge, cycle
<1>6. CASE UNCHANGED vars
  BY <1>0, <1>a, <1>6 DEF vars, TypeInv, venue, monitor, manager, bridge, cycle
<1> QED  BY <1>1, <1>2, <1>3, <1>4, <1>5, <1>6 DEF Next

(***************************************************************************)
(* Owners.  Once the ladder is registered, an order the exit-leg handler   *)
(* booked is none of the monitor's, and never becomes one of them.         *)
(***************************************************************************)

Apart == pc # "postFill" /\ \A o \in registered \cup processed : booked[o] = 0

LEMMA ApartInit == Late = FALSE /\ Init => Apart
  BY Constants DEF Init, Apart

LEMMA ApartStep == TypeInv /\ Apart /\ [Next]_vars => Apart'
<1> SUFFICES ASSUME TypeInv, Apart, [Next]_vars PROVE Apart'
  OBVIOUS
<1>0. /\ pc # "postFill" /\ \A o \in registered \cup processed : booked[o] = 0
      /\ booked \in [Oids -> 0 .. MaxQty]
  BY DEF Apart, TypeInv
<1>1. ASSUME NEW i, TrancheFill(i)
      PROVE  Apart'
  BY <1>0, <1>1, TrancheFillCounts DEF TrancheFill, Apart, bridge, cycle
<1>2. ASSUME NEW i, TrancheFillTooLate(i)
      PROVE  Apart'
  BY <1>0, <1>2 DEF TrancheFillTooLate, FirstFill, Apart, bridge, cycle
<1>3. ASSUME NEW i, ExitFill(i)
      PROVE  Apart'
  <2> DEFINE e == stream[i]
  <2>1. /\ e.oid \in Oids /\ e.oid \notin registered \cup processed
        /\ booked' = [booked EXCEPT ![e.oid] = e.cum]
    BY <1>3, ExitFillBooks
  <2> HIDE DEF e
  <2>2. ASSUME NEW o \in registered \cup processed
        PROVE  booked'[o] = 0
    BY <1>0, <2>1, <2>2, Constants DEF TypeInv
  <2> QED  BY <1>0, <1>3, <2>2 DEF ExitFill, Apart, monitor, cycle
<1>4. CASE Drain
  BY <1>0, <1>4, DrainCounts DEF Drain, Apart, bridge
<1>5. CASE Cycle /\ ~Drain
  BY <1>0, <1>5
     DEF Cycle, Register, Fetch, SkipDrain, StopOutScan, ScanClear, StopOutCancel, StopOutClose,
         NoMoreTakes, Apart, monitor, bridge
<1>6. CASE Takes
  BY <1>0, <1>6 DEF Takes, TakeSell, TakeBook, TakeForfeit, Apart, monitor, bridge
<1>7. CASE \/ (\E o \in Oids, n \in Qtys : Execute(o, n)) \/ ExchangeStop \/ UNCHANGED vars
           \/ (\E i \in DOMAIN stream : Ignore(i))
  BY <1>0, <1>7 DEF Execute, ExchangeStop, Ignore, vars, Apart, monitor, bridge, cycle
<1> QED
  BY <1>1, <1>2, <1>3, <1>4, <1>5, <1>6, <1>7 DEF Next, OnTradeUpdate

(* When no print comes before the ladder is registered, no order is booked *)
(* by the monitor and by the exit-leg handler too, whatever the order in   *)
(* which prints arrive and however often (fill_stream_bridge.py,           *)
(* tranche_monitor.py).                                                    *)
THEOREM OrdersHaveOneOwner == Late = FALSE /\ Spec => []OneOwner
<1>1. Apart => OneOwner
  BY DEF Apart, OneOwner
<1> QED  BY <1>1, TypeInit, TypeStep, ApartInit, ApartStep, PTL DEF Spec

(***************************************************************************)
(* The journal.  It has of an order what the exit-leg handler booked of    *)
(* it, which is the cumulative quantity of some print.                     *)
(***************************************************************************)

JournalInv ==
    /\ journal = booked
    /\ \A o \in Oids : booked[o] <= orders[o].filled
    /\ \A i \in DOMAIN stream : stream[i].cum <= orders[stream[i].oid].filled

LEMMA JournalInit == Init => JournalInv
<1> SUFFICES ASSUME Init PROVE JournalInv
  OBVIOUS
<1>1. \A o \in Oids : orders[o].filled \in 0 .. MaxQty
  BY TypeInit DEF TypeInv, Table, Order
<1>2. DOMAIN stream = {}
  BY DEF Init
<1> QED  BY <1>1, <1>2, Constants DEF Init, JournalInv

LEMMA PrintTyped ==
    ASSUME TypeInv, NEW i \in DOMAIN stream
    PROVE  stream[i].oid \in Oids /\ stream[i].cum \in 0 .. MaxQty
<1>1. stream[i] \in Report
  BY DEF TypeInv
<1> QED  BY <1>1, Constants DEF Report, Qtys

\* A step that books nothing and leaves the stream alone.
LEMMA NothingBooked ==
    ASSUME TypeInv, JournalInv, Table(orders'), Onward(orders, orders'),
           UNCHANGED <<booked, journal, stream>>
    PROVE  JournalInv'
<1>1. \A o \in Oids : /\ orders[o].filled \in Int /\ orders'[o].filled \in Int
                      /\ booked[o] \in Int /\ orders[o].filled <= orders'[o].filled
  BY Constants DEF TypeInv, Table, Order, Onward
<1>2. \A i \in DOMAIN stream : stream[i].oid \in Oids /\ stream[i].cum \in Int
  BY PrintTyped, Constants
<1> QED  BY <1>1, <1>2 DEF JournalInv

LEMMA JournalStep == "D164" \notin Takers /\ TypeInv /\ JournalInv /\ [Next]_vars => JournalInv'
<1> SUFFICES ASSUME "D164" \notin Takers, TypeInv, JournalInv, [Next]_vars PROVE JournalInv'
  OBVIOUS
<1>0. Table(orders') /\ Onward(orders, orders')
  BY TableStep
<1>1. ASSUME NEW o \in Oids, NEW n \in Qtys, Execute(o, n)
      PROVE  JournalInv'
  <2>1. /\ orders'[o].filled = orders[o].filled + n
        /\ stream' = Append(stream, [oid |-> o, cum |-> orders[o].filled + n, left |-> shares - n])
        /\ booked' = booked /\ journal' = journal
    <3>1. orders'[o].filled = orders[o].filled + n
      <4>1. orders \in [Oids -> Order] /\ orders' = [orders EXCEPT ![o] = Executed(orders[o], n)]
        BY <1>1 DEF Execute, TypeInv, Table
      <4> QED  BY <4>1, ExecutedFields
    <3> QED  BY <1>1, <3>1 DEF Execute, bridge
  <2>2. \A x \in Oids : /\ orders[x].filled \in Int /\ orders'[x].filled \in Int
                        /\ booked[x] \in Int /\ orders[x].filled <= orders'[x].filled
    BY <1>0, Constants DEF TypeInv, Table, Order, Onward
  <2>3. \A i \in DOMAIN stream : stream[i].oid \in Oids /\ stream[i].cum \in Int
    BY PrintTyped, Constants
  <2>4. \A x \in Oids : booked[x] <= orders'[x].filled
    BY <2>2 DEF JournalInv
  <2>5. ASSUME NEW i \in DOMAIN stream'
        PROVE  stream'[i].cum <= orders'[stream'[i].oid].filled
    <3> DEFINE p == [oid |-> o, cum |-> orders[o].filled + n, left |-> shares - n]
    <3>1. p.oid = o /\ p.cum = orders[o].filled + n
      OBVIOUS
    <3> HIDE DEF p
    <3>2. stream' = Append(stream, p) /\ stream \in Seq(Report)
      BY <2>1 DEF p, TypeInv
    <3>3. CASE i \in DOMAIN stream
      <4>1. stream'[i] = stream[i]
        BY <3>2, <3>3
      <4>2. stream[i].cum <= orders[stream[i].oid].filled
        BY <3>3 DEF JournalInv
      <4> QED  BY <2>2, <2>3, <3>3, <4>1, <4>2
    <3>4. CASE i \notin DOMAIN stream
      <4>1. stream'[i] = p
        BY <3>2, <3>4
      <4> QED  BY <2>1, <2>2, <3>1, <4>1
    <3> QED  BY <3>3, <3>4
  <2> QED  BY <2>1, <2>4, <2>5 DEF JournalInv
<1>2. ASSUME NEW i, ExitFill(i)
      PROVE  JournalInv'
  <2> DEFINE e == stream[i]
  <2>1. /\ i \in DOMAIN stream /\ e.oid \in Oids /\ e.cum \in 0 .. MaxQty
        /\ booked' = [booked EXCEPT ![e.oid] = e.cum]
        /\ journal' = [journal EXCEPT ![e.oid] = @ + (e.cum - booked[e.oid])]
    BY <1>2, ExitFillBooks
  <2>2. e.cum <= orders[e.oid].filled
    BY <2>1 DEF JournalInv
  <2>3. UNCHANGED <<orders, stream>>
    BY <1>2 DEF ExitFill, venue
  <2> HIDE DEF e
  <2>4. journal = booked /\ booked \in [Oids -> 0 .. MaxQty]
    BY DEF JournalInv, TypeInv
  <2>5. booked[e.oid] + (e.cum - booked[e.oid]) = e.cum
    BY <2>1, <2>4, Constants
  <2>6. journal' = booked'
    BY <2>1, <2>4, <2>5
  <2>7. \A o \in Oids : booked'[o] <= orders[o].filled
    BY <2>1, <2>2, <2>4 DEF JournalInv
  <2> QED  BY <2>3, <2>6, <2>7 DEF JournalInv
<1>3. CASE OnTradeUpdate /\ ~(\E i \in DOMAIN stream : ExitFill(i))
  <2>1. UNCHANGED <<booked, journal, stream>>
    BY <1>3 DEF OnTradeUpdate, TrancheFill, TrancheFillTooLate, Ignore, venue, bridge
  <2> QED  BY <1>0, <2>1, NothingBooked
<1>4. CASE Cycle
  <2>1. UNCHANGED <<booked, journal, stream>>
    BY <1>4 DEF Cycle, Register, Fetch, Drain, SkipDrain, StopOutScan, ScanClear,
                StopOutCancel, StopOutClose, NoMoreTakes, venue, bridge
  <2> QED  BY <1>0, <2>1, NothingBooked
<1>5. CASE Takes
  <2>1. take.by # "D164"
    BY DEF TypeInv, NoTake
  <2>2. UNCHANGED <<booked, journal, stream>>
    BY <1>5, <2>1 DEF Takes, TakeSell, TakeBook, TakeForfeit, bridge
  <2> QED  BY <1>0, <2>2, NothingBooked
<1>6. CASE ExchangeStop \/ UNCHANGED vars
  <2>1. UNCHANGED <<booked, journal, stream>>
    BY <1>6 DEF ExchangeStop, vars, venue, bridge
  <2> QED  BY <1>0, <2>1, NothingBooked
<1> QED
  BY <1>1, <1>2, <1>3, <1>4, <1>5, <1>6 DEF Next, OnTradeUpdate

(* Without the early-profit sale, which writes a row of its own, the       *)
(* journal never has more of an order than the order sold: prints may be   *)
(* delivered again and in any order (fill_stream_bridge.py).               *)
THEOREM JournalIsBounded == "D164" \notin Takers /\ Spec => []JournalWithinFills
<1> SUFFICES ASSUME "D164" \notin Takers PROVE Spec => []JournalWithinFills
  OBVIOUS
<1>1. JournalInv => JournalWithinFills
  BY DEF JournalInv, JournalWithinFills
<1>2. TypeInv /\ JournalInv /\ [Next]_vars => JournalInv'
  BY JournalStep
<1> QED  BY <1>1, <1>2, TypeInit, TypeStep, JournalInit, PTL DEF Spec
(***************************************************************************)
(* The venue's side of the ledger.  The shares of the position are what    *)
(* was bought less what the orders sold; nothing is sold that was not held *)
(* for an order; and a print says less of its order than the order sold    *)
(* and no less of the position than is left of it.                         *)
(***************************************************************************)

Total(f) == SumFunctionOnSet(f, Oids)
Fills == [o \in Oids |-> orders[o].filled]

Sales ==
    /\ Sound(orders)
    /\ Held(orders) <= shares
    /\ shares = MaxQty - Total(Fills)

Prints ==
    \A i \in DOMAIN stream :
        /\ stream[i].cum <= orders[stream[i].oid].filled
        /\ shares <= stream[i].left
        /\ orders[stream[i].oid].status # "unused"

\* What each order is for.
Roles ==
    /\ \A o \in Oids : orders[o].status = "unused" => orders[o].kind = "limit"
    /\ \A o \in Tranches : orders[o].status # "unused" /\ orders[o].kind = "limit"
    /\ \A o \in {stopOid, tracked} \ {NoOid} :
          o \in Oids /\ orders[o].status # "unused" /\ orders[o].kind = "stop"
    /\ pc = "taking" => orders[take.oid].status # "unused" /\ orders[take.oid].kind = "market"
    /\ pc # "taking" => take = NoTake

\* The cycle takes a position for gone when it is.
Sightings ==
    /\ snapshot = 0 => shares = 0
    /\ pc \in {"stopOut", "closing"} => shares = 0

LedgerInv ==
    /\ Sales /\ Prints /\ Roles /\ Sightings
    /\ \A o \in Oids : booked[o] <= orders[o].filled

LEMMA TotalIsNat == ASSUME NEW v, \A x \in Oids : v[x] \in Nat PROVE Total(v) \in Nat
  BY SumIsNat, BrokerAssumption DEF Total

LEMMA TotalGrows ==
    ASSUME NEW v, NEW w, \A x \in Oids : v[x] \in Nat /\ w[x] \in Nat /\ v[x] <= w[x]
    PROVE  Total(v) <= Total(w)
  BY SumGrows, BrokerAssumption DEF Total

LEMMA TotalIsEqual ==
    ASSUME NEW v, NEW w, \A x \in Oids : v[x] \in Nat /\ v[x] = w[x]
    PROVE  Total(v) = Total(w)
  BY SumIsEqual, BrokerAssumption DEF Total

LEMMA TotalChanges ==
    ASSUME NEW v, NEW w, NEW y \in Oids, \A x \in Oids : v[x] \in Nat /\ w[x] \in Nat,
           \A x \in Oids \ {y} : v[x] = w[x]
    PROVE  Total(w) = Total(v) - v[y] + w[y]
  BY SumChanges, BrokerAssumption DEF Total

LEMMA FillsAreNats == ASSUME NEW t, Sound(t), NEW o \in Oids PROVE t[o].filled \in 0 .. MaxQty
  BY DEF Sound, Order

\* Orders outside S keep their kind, their size and what they sold, and are none the newer.
Kept(t, u, S) ==
    \A o \in Oids \ S :
        /\ u[o].filled = t[o].filled /\ u[o].kind = t[o].kind /\ u[o].qty = t[o].qty
        /\ u[o].status = "unused" <=> t[o].status = "unused"

LEMMA CanceledKeeps ==
    ASSUME NEW t, Sound(t), NEW ids, NEW u, u = Canceled(t, ids)
    PROVE  Sound(u) /\ Kept(t, u, {}) /\ Held(u) <= Held(t)
<1>1. \A o \in Oids : SoundOrder(t[o]) /\ t[o] \in Order
  BY DEF Sound, SoundOrder
<1>2. u = [o \in Oids |-> IF o \in ids /\ t[o].status = "open" THEN Settled(t[o]) ELSE t[o]]
  BY DEF Canceled
<1>3. ASSUME NEW o \in Oids
      PROVE  /\ SoundOrder(u[o]) /\ Reserved(u[o]) <= Reserved(t[o])
             /\ u[o].filled = t[o].filled /\ u[o].kind = t[o].kind /\ u[o].qty = t[o].qty
             /\ u[o].status = "unused" <=> t[o].status = "unused"
  <2>1. Reserved(t[o]) \in Nat
    BY <1>1, ReservedOrder, Constants
  <2>2. CASE t[o].status = "open"
    <3>1. /\ SoundOrder(Settled(t[o])) /\ Reserved(Settled(t[o])) = 0
          /\ Settled(t[o]).filled = t[o].filled /\ Settled(t[o]).kind = t[o].kind
          /\ Settled(t[o]).qty = t[o].qty
          /\ Settled(t[o]).status = "canceled"
      BY <1>1, <2>2, SettledReserves, ChangedFields
    <3> QED  BY <1>1, <1>2, <2>1, <2>2, <3>1
  <2>3. CASE t[o].status # "open"
    BY <1>1, <1>2, <2>1, <2>3
  <2> QED  BY <2>2, <2>3
<1>4. Sound(u)
  BY <1>2, <1>3 DEF Sound, SoundOrder
<1> QED  BY <1>3, <1>4, HeldShrinks DEF Kept

LEMMA SameFills ==
    ASSUME Sound(orders), Sound(orders'), \A o \in Oids : orders'[o].filled = orders[o].filled
    PROVE  Total(Fills)' = Total(Fills)
<1>1. PICK v, w : v = Fills /\ w = Fills'
  OBVIOUS
<1>2. \A o \in Oids : v[o] = orders[o].filled /\ w[o] = orders'[o].filled /\ v[o] \in 0 .. MaxQty
  BY <1>1, FillsAreNats DEF Fills
<1>3. Total(v) = Total(w)
  BY <1>2, TotalIsEqual
<1> QED  BY <1>1, <1>3

\* A step that only cancels orders, and one that then places another.
LEMMA CancelStep ==
    ASSUME Sales, NEW ids, orders' = Canceled(orders, ids) \/ orders' = orders, shares' = shares,
           shares \in Int
    PROVE  Sales' /\ Kept(orders, orders', {})
<1>1. Sound(orders') /\ Kept(orders, orders', {}) /\ Held(orders') <= Held(orders)
  <2>1. Sound(orders) /\ Held(orders) \in Nat
    BY HeldForOrders DEF Sales
  <2> QED  BY <2>1, CanceledKeeps DEF Kept
<1>2. Held(orders) \in Nat /\ Held(orders') \in Nat
  BY <1>1, HeldForOrders DEF Sales
<1>3. Total(Fills)' = Total(Fills)
  BY <1>1, SameFills DEF Kept, Sales
<1> QED  BY <1>1, <1>2, <1>3 DEF Sales

LEMMA AcceptedFits ==
    ASSUME Shortable = FALSE, NEW t, Sound(t), NEW s \in Int, NEW q \in Qtys, Accepts(t, s, q)
    PROVE  q <= s - Held(t)
  BY DEF Accepts

LEMMA SoldKeeps ==
    ASSUME NEW c, Sound(c), NEW n \in Oids, c[n].status = "unused", NEW r, SoundOrder(r),
           r.status = "open", r.filled = 0, NEW u, u = [c EXCEPT ![n] = r]
    PROVE  Sound(u) /\ Kept(c, u, {n}) /\ c[n].filled = 0 /\ Reserved(c[n]) = 0
<1>1. SoundOrder(c[n]) /\ c[n].filled = 0
  BY DEF Sound, SoundOrder
<1>2. Sound(u)
  BY HeldChanges
<1>3. Reserved(c[n]) = 0
  BY <1>1, ReservedOrder
<1>4. \A o \in Oids : u[o] = IF o = n THEN r ELSE c[o]
  BY DEF Sound
<1> QED  BY <1>1, <1>2, <1>3, <1>4 DEF Kept

LEMMA SaleStep ==
    ASSUME Sales, shares' = shares, NEW c, Kept(orders, c, {}), NEW n \in Oids,
           c[n].status = "unused", c[n].filled = 0, Kept(c, orders', {n}),
           Sound(orders'), Held(orders') <= shares, orders'[n].filled = 0
    PROVE  /\ Sales' /\ Kept(orders, orders', {n})
           /\ orders[n].status = "unused" /\ orders[n].filled = 0
<1>1. Kept(orders, orders', {n}) /\ orders[n].status = "unused" /\ orders[n].filled = 0
  BY DEF Kept
<1>2. Total(Fills)' = Total(Fills)
  <2>1. \A o \in Oids : orders'[o].filled = orders[o].filled
    BY <1>1 DEF Kept
  <2> QED  BY <2>1, SameFills DEF Sales
<1> QED  BY <1>1, <1>2 DEF Sales

LEMMA LedgerInit == Init => LedgerInv
<1> SUFFICES ASSUME Init PROVE LedgerInv
  OBVIOUS
<1> DEFINE Ladders == Tranches \cup {Stop}
<1>1. PICK qty \in [Ladders -> Qtys] :
        /\ SumFunction(qty) = MaxQty
        /\ orders = [o \in Oids |->
                CASE o = Stop -> Sell("stop", qty[o])
                  [] o \in Tranches -> Sell("limit", qty[o])
                  [] OTHER -> Blank]
  BY DEF Init
<1>2. \A o \in Ladders : /\ SoundOrder(Sell("stop", qty[o])) /\ SoundOrder(Sell("limit", qty[o]))
                         /\ Reserved(Sell("stop", qty[o])) = qty[o]
                         /\ Reserved(Sell("limit", qty[o])) = qty[o]
                         /\ Sell("stop", qty[o]).kind = "stop" /\ Sell("limit", qty[o]).kind = "limit"
                         /\ Sell("stop", qty[o]).status = "open" /\ Sell("limit", qty[o]).status = "open"
                         /\ Sell("stop", qty[o]).filled = 0 /\ Sell("limit", qty[o]).filled = 0
  BY SellIsOrder, SellReserves DEF Kinds
<1>3. /\ SoundOrder(Blank) /\ Reserved(Blank) = 0 /\ Blank.kind = "limit"
      /\ Blank.status = "unused" /\ Blank.filled = 0
  BY BlankReserves, BlankIsOrder
<1>4. Stop \in Oids /\ Stop \notin Tranches /\ Tranches \subseteq Oids
  BY Constants, FillBookingAssumption
<1>5. ASSUME NEW o \in Oids
      PROVE  /\ SoundOrder(orders[o]) /\ orders[o].filled = 0
             /\ Reserved(orders[o]) = IF o \in Ladders THEN qty[o] ELSE 0
             /\ orders[o].status = "unused" => orders[o].kind = "limit"
             /\ o \in Tranches => orders[o].status # "unused" /\ orders[o].kind = "limit"
             /\ o = Stop => orders[o].status # "unused" /\ orders[o].kind = "stop"
  <2>1. CASE o = Stop
    <3>1. orders[o] = Sell("stop", qty[o])
      BY <1>1, <1>4, <2>1
    <3> QED  BY <1>2, <1>4, <2>1, <3>1
  <2>2. CASE o \in Tranches
    <3>1. orders[o] = Sell("limit", qty[o])
      BY <1>1, <1>4, <2>2
    <3> QED  BY <1>2, <1>4, <2>2, <3>1
  <2>3. CASE o \notin Ladders
    <3>1. orders[o] = Blank
      BY <1>1, <2>3
    <3> QED  BY <1>3, <2>3, <3>1
  <2> QED  BY <2>1, <2>2, <2>3
<1>6. Sound(orders)
  BY <1>5, TypeInit DEF Sound, TypeInv, Table
<1>7. Held(orders) = MaxQty
  <2> DEFINE R == Reserves(orders)
  <2>1. /\ IsFiniteSet(Oids) /\ Ladders \subseteq Oids /\ IsFiniteSet(Ladders)
        /\ Held(orders) = SumFunctionOnSet(R, Oids)
        /\ \A o \in Oids : R[o] \in Nat /\ R[o] = Reserved(orders[o])
    <3>1. Ladders \subseteq Oids
      BY <1>4
    <3> QED  BY <1>6, <3>1, HeldIsSum, FS_Subset
  <2>2. (\A o \in Oids \ Ladders : R[o] = 0) /\ (\A o \in Ladders : R[o] = qty[o])
    BY <1>5, <2>1
  <2> HIDE DEF R, Ladders
  <2>3. SumFunctionOnSet(R, Oids) = SumFunctionOnSet(R, Ladders)
    BY <2>1, <2>2, SumOfPart
  <2>4. SumFunctionOnSet(R, Ladders) = SumFunctionOnSet(qty, Ladders)
    BY <2>1, <2>2, SumIsEqual
  <2>5. DOMAIN qty = Ladders
    OBVIOUS
  <2> QED  BY <1>1, <2>1, <2>3, <2>4, <2>5 DEF SumFunction
<1>8. Total(Fills) = 0
  BY <1>5, SumOfZeros, BrokerAssumption DEF Total, Fills
<1>9. Sales
  BY <1>6, <1>7, <1>8, Constants DEF Init, Sales
<1>10. Roles
  <2>1. stopOid = Stop /\ tracked = Stop /\ pc # "taking" /\ take = NoTake
    BY DEF Init
  <2> QED  BY <1>4, <1>5, <2>1 DEF Roles
<1>11. Prints
  <2>1. DOMAIN stream = {}
    BY DEF Init
  <2> QED  BY <2>1 DEF Prints
<1>12. Sightings
  BY FillBookingAssumption DEF Init, Sightings
<1> QED  BY <1>5, <1>9, <1>10, <1>11, <1>12 DEF Init, LedgerInv

\* Shares are not oversold.
LEMMA SharesAreNats == ASSUME Sales PROVE shares \in 0 .. MaxQty /\ Total(Fills) = MaxQty - shares
<1>1. Held(orders) \in Nat
  BY HeldForOrders DEF Sales
<1>2. Total(Fills) \in Nat
  <2>1. \A o \in Oids : Fills[o] \in Nat
    BY FillsAreNats, Constants DEF Sales, Fills
  <2> QED  BY <2>1, TotalIsNat
<1> QED  BY <1>1, <1>2, Constants DEF Sales

\* A step that sells nothing and leaves every order in its role.
LEMMA QuietLedger ==
    ASSUME TypeInv, LedgerInv, Sales', Kept(orders, orders', {}), UNCHANGED <<shares, stream, stopOid>>,
           tracked' \in {tracked, NoOid},
           \/ pc' # "taking" /\ take' = NoTake
           \/ UNCHANGED <<pc, take>>,
           snapshot' = 0 => shares = 0,
           pc' \in {"stopOut", "closing"} => shares = 0,
           \A o \in Oids : booked'[o] <= orders[o].filled
    PROVE  LedgerInv'
<1>1. Prints'
  <2>1. \A i \in DOMAIN stream : stream[i].oid \in Oids
    BY PrintTyped
  <2> QED  BY <2>1 DEF Kept, LedgerInv, Prints
<1>2. Roles'
  <2>1. pc = "taking" => take.oid \in Oids
    BY DEF TypeInv
  <2>2. Tranches \subseteq Oids
    BY Constants
  <2> QED  BY <2>1, <2>2 DEF Kept, LedgerInv, Roles
<1>3. Sightings'
  BY DEF Sightings
<1> QED  BY <1>1, <1>2, <1>3 DEF Kept, LedgerInv

\* Neither Execute nor one of the two steps that place an order.
Quiet ==
    \/ OnTradeUpdate \/ Cycle \/ TakeBook \/ (\E live \in BOOLEAN : TakeForfeit(live))
    \/ UNCHANGED vars

LEMMA QuietOrders ==
    ASSUME TypeInv, LedgerInv, Quiet
    PROVE  Sales' /\ Kept(orders, orders', {}) /\ UNCHANGED <<shares, stream>>
<1>1. UNCHANGED <<shares, stream>>
  BY DEF Quiet, OnTradeUpdate, TrancheFill, TrancheFillTooLate, Ignore, ExitFill, Cycle, Register,
         Fetch, Drain, SkipDrain, StopOutScan, ScanClear, StopOutCancel, StopOutClose, NoMoreTakes,
         TakeBook, TakeForfeit, vars, venue
<1>2. \E ids : orders' = Canceled(orders, ids) \/ orders' = orders
  BY DEF Quiet, OnTradeUpdate, TrancheFill, TrancheFillTooLate, Ignore, ExitFill, Cycle, Register,
         Fetch, Drain, SkipDrain, StopOutScan, ScanClear, StopOutCancel, StopOutClose, NoMoreTakes,
         TakeBook, TakeForfeit, vars, venue
<1>3. Sales /\ shares \in Int
  BY DEF LedgerInv, TypeInv
<1> QED  BY <1>1, <1>2, <1>3, CancelStep

LEMMA QuietStep == TypeInv /\ LedgerInv /\ Quiet => LedgerInv'
<1> SUFFICES ASSUME TypeInv, LedgerInv, Quiet PROVE LedgerInv'
  OBVIOUS
<1>0. /\ Sales' /\ Kept(orders, orders', {}) /\ UNCHANGED <<shares, stream>>
      /\ \A o \in Oids : booked[o] <= orders[o].filled
      /\ (snapshot = 0 => shares = 0) /\ (pc \in {"stopOut", "closing"} => shares = 0)
      /\ (pc # "taking" => take = NoTake)
  BY QuietOrders DEF LedgerInv, Sightings, Roles
<1>1. CASE OnTradeUpdate
  <2>1. UNCHANGED <<stopOid, pc, take, snapshot>> /\ tracked' \in {tracked, NoOid}
    BY <1>1 DEF OnTradeUpdate, TrancheFill, TrancheFillTooLate, Ignore, ExitFill, CountTranche,
                manager, cycle
  <2>2. \A o \in Oids : booked'[o] <= orders[o].filled
    <3>1. ASSUME NEW i, ExitFill(i) PROVE \A o \in Oids : booked'[o] <= orders[o].filled
      <4> DEFINE e == stream[i]
      <4>1. /\ i \in DOMAIN stream /\ e.oid \in Oids
            /\ booked' = [booked EXCEPT ![e.oid] = e.cum]
        BY <3>1, ExitFillBooks
      <4>2. e.cum <= orders[e.oid].filled
        BY <4>1 DEF LedgerInv, Prints
      <4> HIDE DEF e
      <4> QED  BY <1>0, <4>1, <4>2 DEF TypeInv
    <3>2. (\E i \in DOMAIN stream : ExitFill(i)) \/ booked' = booked
      BY <1>1 DEF OnTradeUpdate, TrancheFill, TrancheFillTooLate, Ignore, bridge
    <3> QED  BY <1>0, <3>1, <3>2
  <2> QED  BY <1>0, <2>1, <2>2, QuietLedger
<1>2. CASE Cycle
  <2>1. UNCHANGED <<stopOid, booked, take>> /\ tracked' \in {tracked, NoOid}
    BY <1>2 DEF Cycle, Register, Fetch, Drain, SkipDrain, StopOutScan, ScanClear, StopOutCancel,
                StopOutClose, NoMoreTakes, CountTranche, manager, bridge, monitor
  <2>2. pc # "taking" /\ pc' # "taking"
    BY <1>2 DEF Cycle, Register, Fetch, Drain, SkipDrain, StopOutScan, ScanClear, StopOutCancel,
                StopOutClose, NoMoreTakes
  <2>3. snapshot' = 0 => shares = 0
    BY <1>0, <1>2, FillBookingAssumption
       DEF Cycle, Register, Fetch, Drain, SkipDrain, StopOutScan, ScanClear, StopOutCancel,
           StopOutClose, NoMoreTakes
  <2>4. pc' \in {"stopOut", "closing"} => shares = 0
    BY <1>0, <1>2
       DEF Cycle, Register, Fetch, Drain, SkipDrain, StopOutScan, ScanClear, StopOutCancel,
           StopOutClose, NoMoreTakes, Absent
  <2> QED  BY <1>0, <2>1, <2>2, <2>3, <2>4, QuietLedger
<1>3. CASE TakeBook
  <2>1. /\ UNCHANGED <<stopOid, booked, snapshot>> /\ tracked' \in {tracked, NoOid}
        /\ pc' = "fetch" /\ take' = NoTake
    BY <1>3 DEF TakeBook
  <2> QED  BY <1>0, <2>1, QuietLedger
<1>4. ASSUME NEW live \in BOOLEAN, TakeForfeit(live)
      PROVE  LedgerInv'
  <2>1. /\ UNCHANGED <<stopOid, booked, snapshot, tracked>>
        /\ pc' = "fetch" /\ take' = NoTake
    BY <1>4 DEF TakeForfeit, manager, bridge
  <2> QED  BY <1>0, <2>1, QuietLedger
<1>5. CASE UNCHANGED vars
  <2>1. UNCHANGED <<stopOid, booked, snapshot, tracked, pc, take>>
    BY <1>5 DEF vars, manager, bridge, cycle
  <2> QED  BY <1>0, <2>1, QuietLedger
<1> QED  BY <1>1, <1>2, <1>3, <1>4, <1>5 DEF Quiet

\* An execution: its shares leave the position, the order's reserve, and reach the stream.
LEMMA ExecuteStep ==
    ASSUME TypeInv, LedgerInv, NEW o \in Oids, NEW n \in Qtys, Execute(o, n)
    PROVE  /\ LedgerInv' /\ shares # 0
           /\ orders'[o].filled = orders[o].filled + n
           /\ \A x \in Oids : /\ orders'[x].kind = orders[x].kind /\ orders'[x].qty = orders[x].qty
                              /\ x # o => orders'[x].filled = orders[x].filled
<1> DEFINE e == Executed(orders[o], n)
<1>1. /\ Sound(orders) /\ SoundOrder(orders[o]) /\ orders[o].status = "open"
      /\ n <= Unfilled(orders[o]) /\ n \in Nat \ {0}
      /\ orders' = [orders EXCEPT ![o] = e] /\ shares' = shares - n
      /\ UNCHANGED <<stopOid, tracked, booked, pc, take, snapshot>>
  BY Constants DEF Execute, LedgerInv, Sales, Sound, Qtys, manager, bridge, cycle
<1>2. /\ SoundOrder(e) /\ Reserved(e) = Reserved(orders[o]) - n /\ e.kind = orders[o].kind
      /\ e.qty = orders[o].qty /\ e.filled = orders[o].filled + n /\ e.status # "unused"
  BY <1>1, ExecutedReserves, ExecutedFields DEF SoundOrder
<1>3. Reserved(orders[o]) = Unfilled(orders[o]) /\ Reserved(orders[o]) \in Nat
  BY <1>1, ReservedOrder, Constants DEF Qtys
<1> HIDE DEF e
<1>4. Sound(orders') /\ Held(orders') = Held(orders) - Reserved(orders[o]) + Reserved(e)
  BY <1>1, <1>2, HeldChanges
<1>5. \A x \in Oids : orders'[x] = IF x = o THEN e ELSE orders[x]
  BY <1>1 DEF Sound
<1>a. \A x \in Oids : orders[x].filled \in 0 .. MaxQty /\ orders'[x].filled \in 0 .. MaxQty
  BY <1>1, <1>4 DEF Sound, Order
<1>6. Total(Fills)' = Total(Fills) + n
  <2>1. PICK v, w : v = Fills /\ w = Fills'
    OBVIOUS
  <2>2. \A x \in Oids : v[x] = orders[x].filled /\ w[x] = orders'[x].filled
    BY <2>1 DEF Fills
  <2>3. \A x \in Oids \ {o} : v[x] = w[x]
    BY <1>5, <2>2
  <2>4. \A x \in Oids : v[x] \in Nat /\ w[x] \in Nat
    BY <1>a, <2>2, Constants
  <2>5. Total(w) = Total(v) - v[o] + w[o]
    BY <2>3, <2>4, TotalChanges
  <2>6. Total(v) \in Nat
    BY <2>4, TotalIsNat
  <2>7. w[o] = v[o] + n
    BY <1>2, <1>5, <2>2
  <2> QED  BY <1>1, <2>1, <2>4, <2>5, <2>6, <2>7
<1>7. /\ Held(orders) \in Nat /\ Reserved(orders[o]) <= Held(orders) /\ Held(orders) <= shares
      /\ shares \in Nat /\ Total(Fills) \in Int /\ shares = MaxQty - Total(Fills)
  BY <1>1, HeldForOrders, SharesAreNats, Constants DEF LedgerInv, Sales
<1>8. Sales' /\ shares # 0
  <2>1. Sales'
    BY <1>1, <1>2, <1>3, <1>4, <1>6, <1>7, Constants DEF Sales
  <2>2. shares # 0
    BY <1>1, <1>3, <1>7, Constants
  <2> QED  BY <2>1, <2>2
<1>9. \A x \in Oids : /\ orders[x].filled \in Nat /\ orders[x].filled <= orders'[x].filled
                      /\ orders'[x].kind = orders[x].kind
                      /\ orders'[x].status = "unused" <=> orders[x].status = "unused"
  BY <1>1, <1>2, <1>5, <1>a, Constants
<1>10. Prints'
  <2> DEFINE p == [oid |-> o, cum |-> orders[o].filled + n, left |-> shares - n]
  <2>1. p.oid = o /\ p.cum = orders[o].filled + n /\ p.left = shares - n
    OBVIOUS
  <2>2. stream' = Append(stream, p) /\ stream \in Seq(Report)
    BY DEF Execute, TypeInv
  <2> HIDE DEF p
  <2>3. ASSUME NEW i \in DOMAIN stream'
        PROVE  /\ stream'[i].cum <= orders'[stream'[i].oid].filled
               /\ shares' <= stream'[i].left
               /\ orders'[stream'[i].oid].status # "unused"
    <3>1. CASE i \in DOMAIN stream
      <4>1. stream'[i] = stream[i]
        BY <2>2, <3>1
      <4>2. stream[i].oid \in Oids /\ stream[i].cum \in Int /\ stream[i].left \in Int
        <5>1. stream[i] \in Report
          BY <3>1 DEF TypeInv
        <5> QED  BY <5>1, Constants DEF Report, Qtys
      <4>3. /\ stream[i].cum <= orders[stream[i].oid].filled
            /\ shares <= stream[i].left /\ orders[stream[i].oid].status # "unused"
        BY <3>1 DEF LedgerInv, Prints
      <4>4. orders[stream[i].oid].filled \in Int /\ orders'[stream[i].oid].filled \in Int
        BY <1>a, <4>2, Constants
      <4> QED  BY <1>1, <1>7, <1>9, <4>1, <4>2, <4>3, <4>4
    <3>2. CASE i \notin DOMAIN stream
      <4>1. stream'[i] = p
        BY <2>2, <3>2
      <4> QED  BY <1>1, <1>2, <1>5, <1>7, <1>9, <2>1, <4>1
    <3> QED  BY <3>1, <3>2
  <2> QED  BY <2>3 DEF Prints
<1>11. Roles'
  <2>1. (pc = "taking" => take.oid \in Oids) /\ Tranches \subseteq Oids
    BY Constants DEF TypeInv
  <2> QED  BY <1>1, <1>9, <2>1 DEF LedgerInv, Roles
<1>12. Sightings'
  BY <1>1, <1>8 DEF LedgerInv, Sightings
<1>13. \A x \in Oids : booked'[x] <= orders'[x].filled
  <2>1. \A x \in Oids : booked[x] \in Int /\ orders'[x].filled \in Int
    BY <1>a, Constants DEF TypeInv
  <2> QED  BY <1>1, <1>9, <2>1 DEF LedgerInv
<1> QED  BY <1>2, <1>5, <1>8, <1>10, <1>11, <1>12, <1>13 DEF LedgerInv

\* A new order, whose id no print and no variable knows.
LEMMA NewOrderLedger ==
    ASSUME TypeInv, LedgerInv, NEW n \in Oids, NEW k, k \in {"market", "stop"},
           Sales', Kept(orders, orders', {n}), orders[n].status = "unused", orders[n].filled = 0,
           orders'[n].filled = 0, orders'[n].kind = k, orders'[n].status = "open",
           UNCHANGED <<shares, stream, booked, snapshot>>,
           stopOid' \in {stopOid, NoOid},
           \/ UNCHANGED <<pc, take, tracked>>
           \/ k = "market" /\ pc' = "taking" /\ take'.oid = n /\ UNCHANGED tracked
           \/ k = "stop" /\ UNCHANGED <<pc, take>> /\ tracked' = n
    PROVE  LedgerInv'
<1>1. \A x \in Oids : /\ orders'[x].filled = orders[x].filled
                      /\ x # n => orders'[x].kind = orders[x].kind
                      /\ orders'[x].status = "unused" <=> (orders[x].status = "unused" /\ x # n)
  BY DEF Kept
<1>2. Prints'
  <2>1. \A i \in DOMAIN stream : stream[i].oid \in Oids
    BY PrintTyped
  <2> QED  BY <1>1, <2>1 DEF LedgerInv, Prints
<1>3. Roles'
  <2>1. (pc = "taking" => take.oid \in Oids) /\ Tranches \subseteq Oids
    BY Constants DEF TypeInv
  <2> QED  BY <1>1, <2>1, FillBookingAssumption DEF LedgerInv, Roles
<1>4. Sightings'
  BY DEF LedgerInv, Sightings
<1> QED  BY <1>1, <1>2, <1>3, <1>4 DEF LedgerInv

LEMMA TakeSellLedger ==
    ASSUME Shortable = FALSE, TypeInv, LedgerInv, NEW o \in Oids, NEW q \in Qtys,
           NEW by \in Takers, NEW all \in BOOLEAN, TakeSell(o, q, by, all)
    PROVE  /\ LedgerInv' /\ Kept(orders, orders', {o}) /\ orders[o].status = "unused"
           /\ orders[o].filled = 0 /\ orders'[o].filled = 0 /\ orders'[o].kind = "market"
<1>1. PICK lifted : /\ Accepts(Canceled(orders, lifted), shares, q)
                    /\ o \in Unused(Canceled(orders, lifted))
                    /\ orders' = [Canceled(orders, lifted) EXCEPT ![o] = Sell("market", q)]
  BY DEF TakeSell
<1>2. PICK c, r : c = Canceled(orders, lifted) /\ r = Sell("market", q)
  OBVIOUS
<1>3. /\ Accepts(c, shares, q) /\ o \in Unused(c) /\ orders' = [c EXCEPT ![o] = r]
      /\ UNCHANGED <<shares, stream, booked, snapshot, tracked>>
      /\ stopOid' \in {stopOid, NoOid} /\ pc' = "taking" /\ take'.oid = o
  BY <1>1, <1>2 DEF TakeSell, bridge
<1>4. /\ Sales' /\ Kept(orders, orders', {o})
      /\ orders[o].status = "unused" /\ orders[o].filled = 0
      /\ orders'[o].filled = 0 /\ orders'[o].kind = "market" /\ orders'[o].status = "open"
  <2>1. Sales /\ shares \in Int
    BY DEF LedgerInv, TypeInv
  <2>2. Sound(c) /\ Kept(orders, c, {})
    BY <1>2, <2>1, CanceledKeeps DEF Sales
  <2>3. /\ SoundOrder(r) /\ Reserved(r) = q /\ r.kind = "market" /\ r.status = "open" /\ r.filled = 0
    BY <1>2, SellReserves, SellIsOrder DEF Kinds
  <2>4. c[o].status = "unused" /\ orders' = [c EXCEPT ![o] = r] /\ shares' = shares
    BY <1>3 DEF Unused
  <2>5. Reserved(r) <= shares - Held(c)
    BY <1>3, <2>1, <2>2, <2>3, AcceptedFits
  <2>6. /\ Sound(orders') /\ Kept(c, orders', {o}) /\ Held(orders') = Held(c) + Reserved(r)
        /\ c[o].filled = 0 /\ orders'[o] = r
    <3>1. Sound(c) /\ c[o].status = "unused" /\ orders' = [c EXCEPT ![o] = r]
      BY <2>2, <2>4
    <3>2. Sound(orders') /\ Kept(c, orders', {o}) /\ c[o].filled = 0 /\ Reserved(c[o]) = 0
      BY <2>3, <3>1, SoldKeeps
    <3>3. Held(orders') = Held(c) - Reserved(c[o]) + Reserved(r)
      BY <2>3, <3>1, HeldChanges
    <3>4. Held(c) \in Nat
      BY <3>1, HeldForOrders
    <3>5. orders'[o] = r
      BY <3>1 DEF Sound
    <3> QED  BY <3>2, <3>3, <3>4, <3>5
  <2>7. Held(orders') <= shares
    BY <2>1, <2>2, <2>3, <2>5, <2>6, HeldForOrders, Constants DEF Qtys
  <2> QED  BY <2>1, <2>2, <2>3, <2>4, <2>6, <2>7, SaleStep
<1>5. LedgerInv'
  BY <1>3, <1>4, NewOrderLedger
<1> QED  BY <1>4, <1>5

LEMMA ExchangeLedger ==
    ASSUME Shortable = FALSE, TypeInv, LedgerInv, ExchangeStop
    PROVE  /\ LedgerInv'
           /\ \/ Kept(orders, orders', {})
              \/ \E n \in Oids : /\ Kept(orders, orders', {n}) /\ orders[n].status = "unused"
                                 /\ orders[n].filled = 0 /\ orders'[n].filled = 0
                                 /\ orders'[n].kind = "stop"
<1>1. /\ UNCHANGED <<shares, stream, booked, snapshot, stopOid, pc, take>> /\ left \in Qtys
      /\ Sales /\ shares \in Int /\ "stop" \in Kinds
  BY Constants DEF ExchangeStop, manager, bridge, cycle, TypeInv, LedgerInv, Qtys, Kinds
<1>2. CASE orders' = Canceled(orders, {tracked}) /\ UNCHANGED tracked
  <2>1. Sales' /\ Kept(orders, orders', {})
    BY <1>1, <1>2, CancelStep
  <2>2. LedgerInv'
    <3>1. /\ (pc # "taking" => take = NoTake) /\ (snapshot = 0 => shares = 0)
          /\ (pc \in {"stopOut", "closing"} => shares = 0)
          /\ \A o \in Oids : booked[o] <= orders[o].filled
      BY DEF LedgerInv, Roles, Sightings
    <3> QED  BY <1>1, <1>2, <2>1, <3>1, QuietLedger
  <2> QED  BY <2>1, <2>2
<1>3. CASE /\ Accepts(Canceled(orders, {tracked}), shares, left)
           /\ \E o \in Unused(Canceled(orders, {tracked})) :
                /\ orders' = [Canceled(orders, {tracked}) EXCEPT ![o] = Sell("stop", left)]
                /\ tracked' = o
  <2>1. PICK c, r : c = Canceled(orders, {tracked}) /\ r = Sell("stop", left)
    OBVIOUS
  <2>2. PICK n \in Unused(c) : orders' = [c EXCEPT ![n] = r] /\ tracked' = n
    BY <1>3, <2>1
  <2>3. Accepts(c, shares, left)
    BY <1>3, <2>1
  <2>4. /\ Sales' /\ Kept(orders, orders', {n}) /\ n \in Oids
        /\ orders[n].status = "unused" /\ orders[n].filled = 0
        /\ orders'[n].filled = 0 /\ orders'[n].kind = "stop" /\ orders'[n].status = "open"
    <3>1. Sound(c) /\ Kept(orders, c, {})
      BY <1>1, <2>1, CanceledKeeps DEF Sales
    <3>2. SoundOrder(r) /\ Reserved(r) = left /\ r.kind = "stop" /\ r.status = "open" /\ r.filled = 0
      BY <1>1, <2>1, SellReserves, SellIsOrder
    <3>3. /\ orders' = [c EXCEPT ![n] = r] /\ shares' = shares /\ left \in Qtys /\ Sales
          /\ shares \in Int /\ n \in Oids /\ c[n].status = "unused"
      BY <1>1, <2>2, <3>1 DEF Unused, Sound
    <3>4. Reserved(r) <= shares - Held(c)
      BY <2>3, <3>1, <3>2, <3>3, AcceptedFits
    <3>5. /\ Sound(orders') /\ Kept(c, orders', {n}) /\ Held(orders') = Held(c) + Reserved(r)
          /\ c[n].filled = 0 /\ orders'[n] = r
      <4>1. Sound(c) /\ c[n].status = "unused" /\ orders' = [c EXCEPT ![n] = r] /\ n \in Oids
        BY <3>1, <3>3
      <4>2. Sound(orders') /\ Kept(c, orders', {n}) /\ c[n].filled = 0 /\ Reserved(c[n]) = 0
        BY <3>2, <4>1, SoldKeeps
      <4>3. Held(orders') = Held(c) - Reserved(c[n]) + Reserved(r)
        BY <3>2, <4>1, HeldChanges
      <4>4. Held(c) \in Nat
        BY <4>1, HeldForOrders
      <4>5. orders'[n] = r
        BY <4>1 DEF Sound
      <4> QED  BY <4>2, <4>3, <4>4, <4>5
    <3>6. Held(orders') <= shares
      BY <3>1, <3>2, <3>3, <3>4, <3>5, HeldForOrders, Constants DEF Qtys
    <3> QED  BY <3>1, <3>2, <3>3, <3>5, <3>6, SaleStep
  <2>5. LedgerInv'
    BY <1>1, <2>2, <2>4, NewOrderLedger
  <2> QED  BY <2>4, <2>5
<1> QED  BY <1>2, <1>3 DEF ExchangeStop

LEMMA LedgerStep == Shortable = FALSE /\ TypeInv /\ LedgerInv /\ [Next]_vars => LedgerInv'
<1> SUFFICES ASSUME Shortable = FALSE, TypeInv, LedgerInv, [Next]_vars PROVE LedgerInv'
  OBVIOUS
<1>1. CASE Quiet
  BY <1>1, QuietStep
<1>2. ASSUME NEW o \in Oids, NEW n \in Qtys, Execute(o, n)
      PROVE  LedgerInv'
  BY <1>2, ExecuteStep
<1>3. ASSUME NEW o \in Oids, NEW q \in Qtys, NEW by \in Takers, NEW all \in BOOLEAN,
             TakeSell(o, q, by, all)
      PROVE  LedgerInv'
  BY <1>3, TakeSellLedger
<1>4. CASE ExchangeStop
  BY <1>4, ExchangeLedger
<1> QED  BY <1>1, <1>2, <1>3, <1>4 DEF Next, Takes, Quiet

(***************************************************************************)
(* The books.  An order reports once its fills are its writer's to book: a *)
(* tranche order, for its whole size, from the moment the monitor counts   *)
(* it, upon its print or upon the tranche sync; a market sale, for what it *)
(* sold, from the moment the cycle has done with it.  The daily P&L has no *)
(* more than what is due of the reporting orders, and the tracker is short *)
(* of no more than that and the stops the exit-leg handler booked.         *)
(*                                                                         *)
(* What is due of an order the monitor counts is what it sold or, ahead of *)
(* its execution, is still to sell.                                        *)
(***************************************************************************)

Reports(o) == o \in processed \/ (orders[o].kind = "market" /\ o # take.oid)

Due(o) ==
    IF o \in processed THEN orders[o].qty ELSE IF Reports(o) THEN orders[o].filled ELSE 0

Counts == [o \in Oids |-> Due(o)]

Taken == [o \in Oids |-> IF orders[o].kind = "stop" THEN booked[o] ELSE Due(o)]

AheadOf == [o \in Oids |-> IF o \in processed THEN Unfilled(orders[o]) ELSE 0]

\* What an order sold or is to sell ahead.
Reach == [o \in Oids |-> Fills[o] + AheadOf[o]]

\* The stop-out scan booked what was left of a position that had no share left.
StoppedOut == ~open /\ shares = 0 /\ realized <= MaxQty /\ pc # "taking"

BookInv ==
    /\ realized \in Nat
    /\ open => left >= MaxQty - Total(Taken)
    /\ realized <= Total(Counts) \/ StoppedOut
    /\ open => left = 0 \/ realized + left <= MaxQty

\* A registered order of a tracked position was not counted before.
Uncounted ==
    /\ open => registered \cap processed = {}
    /\ pc = "postFill" => registered = {} /\ processed = {}

LEMMA BookTyped ==
    ASSUME TypeInv, LedgerInv, NEW o \in Oids
    PROVE  /\ orders[o].filled \in 0 .. MaxQty /\ booked[o] \in 0 .. MaxQty
           /\ orders[o].qty \in 1 .. MaxQty /\ booked[o] <= orders[o].filled
           /\ AheadOf[o] \in Nat /\ Reach[o] = orders[o].filled + AheadOf[o]
           /\ Counts[o] \in Nat /\ Counts[o] <= Reach[o]
           /\ Taken[o] \in Nat /\ Taken[o] <= Reach[o]
<1>1. /\ orders[o].filled \in 0 .. MaxQty /\ booked[o] \in 0 .. MaxQty
      /\ orders[o].qty \in 1 .. MaxQty
      /\ booked[o] <= orders[o].filled /\ orders[o].filled <= orders[o].qty
  BY DEF TypeInv, LedgerInv, Sales, Sound, SoundOrder, Table, Order, Qtys
<1>2. Unfilled(orders[o]) \in Nat /\ orders[o].filled + Unfilled(orders[o]) = orders[o].qty
  BY <1>1, Constants DEF Unfilled
<1>3. AheadOf[o] \in Nat /\ Reach[o] = orders[o].filled + AheadOf[o]
  BY <1>2 DEF AheadOf, Reach, Fills
<1>4. Due(o) \in Nat /\ Due(o) <= Reach[o]
  <2>1. CASE o \in processed
    <3>1. Due(o) = orders[o].qty /\ AheadOf[o] = Unfilled(orders[o])
      BY <2>1 DEF Due, AheadOf
    <3> QED  BY <1>1, <1>2, <1>3, <3>1, Constants
  <2>2. CASE o \notin processed
    <3>1. Due(o) \in {0, orders[o].filled}
      BY <2>2 DEF Due
    <3> QED  BY <1>1, <1>3, <3>1, Constants
  <2> QED  BY <2>1, <2>2
<1>5. Counts[o] = Due(o) /\ Taken[o] \in {booked[o], Due(o)}
  BY DEF Counts, Taken
<1> QED  BY <1>1, <1>3, <1>4, <1>5, Constants

\* The shares credited ahead, summed over all orders.
LEMMA AheadIsTotal ==
    ASSUME TypeInv, LedgerInv
    PROVE  /\ Ahead = Total(AheadOf) /\ Ahead \in Nat
           /\ Total(Reach) = MaxQty - shares + Ahead /\ Total(Reach) \in Nat
<1>1. PICK f, a, w : f = Fills /\ a = AheadOf /\ w = Reach
  OBVIOUS
<1>2. \A x \in Oids : f[x] \in Nat /\ a[x] \in Nat /\ w[x] = f[x] + a[x]
  BY <1>1, BookTyped, Constants DEF Fills
<1>3. /\ Total(w) = Total(f) + Total(a)
      /\ Total(f) \in Nat /\ Total(a) \in Nat /\ Total(w) \in Nat
  <2>1. Total(w) = Total(f) + Total(a)
    BY <1>2, SumOfBoth, BrokerAssumption DEF Total
  <2>2. Total(f) \in Nat /\ Total(a) \in Nat
    BY <1>2, TotalIsNat
  <2> QED  BY <2>1, <2>2
<1>4. Ahead = Total(a)
  <2> DEFINE rest == [x \in Oids |-> Unfilled(orders[x])]
  <2>1. processed \subseteq Oids /\ IsFiniteSet(Oids) /\ IsFiniteSet(processed)
    BY Constants, BrokerAssumption, FS_Subset DEF TypeInv
  <2>2. /\ \A x \in Oids \ processed : a[x] = 0
        /\ \A x \in processed : a[x] = rest[x] /\ a[x] \in Nat
    BY <1>1, <1>2, <2>1 DEF AheadOf
  <2>3. SumFunctionOnSet(a, Oids) = SumFunctionOnSet(a, processed)
    BY <1>2, <2>1, <2>2, SumOfPart
  <2>4. SumFunctionOnSet(a, processed) = SumFunctionOnSet(rest, processed)
    <3> HIDE DEF rest
    <3> QED  BY <2>1, <2>2, SumIsEqual
  <2> QED  BY <2>3, <2>4 DEF Ahead, Total
<1>5. Total(f) = MaxQty - shares
  BY <1>1, SharesAreNats DEF LedgerInv
<1> QED  BY <1>1, <1>3, <1>4, <1>5

AheadAdds == Ahead = Total(AheadOf) /\ Ahead \in Nat

LEMMA AheadIsSum == TypeInv /\ LedgerInv => AheadAdds
  BY AheadIsTotal DEF AheadAdds

LEMMA BookTotals ==
    ASSUME TypeInv, LedgerInv
    PROVE  /\ Total(Counts) \in Nat /\ Total(Taken) \in Nat /\ shares \in Nat /\ Ahead \in Nat
           /\ Total(Counts) <= MaxQty - shares + Ahead
           /\ Total(Taken) <= MaxQty - shares + Ahead
<1>1. shares \in 0 .. MaxQty
  BY SharesAreNats DEF LedgerInv
<1>2. PICK f, c, t : f = Reach /\ c = Counts /\ t = Taken
  OBVIOUS
<1>3. \A x \in Oids : /\ f[x] \in Nat /\ c[x] \in Nat /\ t[x] \in Nat
                      /\ c[x] <= f[x] /\ t[x] <= f[x]
  BY <1>2, BookTyped, Constants
<1>4. Total(c) \in Nat /\ Total(t) \in Nat /\ Total(c) <= Total(f) /\ Total(t) <= Total(f)
  BY <1>3, TotalGrows, TotalIsNat
<1> QED  BY <1>1, <1>2, <1>4, AheadIsTotal, Constants

\* A step that changes what one order counts for, at most.
LEMMA OneCounts ==
    ASSUME TypeInv, LedgerInv, TypeInv', NEW y \in Oids,
           \A x \in Oids \ {y} : Counts'[x] = Counts[x] /\ Taken'[x] = Taken[x]
    PROVE  /\ Total(Counts)' = Total(Counts) - Counts[y] + Counts'[y]
           /\ Total(Taken)' = Total(Taken) - Taken[y] + Taken'[y]
           /\ Counts[y] \in Nat /\ Counts'[y] \in Nat /\ Taken[y] \in Nat /\ Taken'[y] \in Nat
<1>1. PICK c, d, t, u : c = Counts /\ d = Counts' /\ t = Taken /\ u = Taken'
  OBVIOUS
<1>2. \A x \in Oids : c[x] \in Nat /\ t[x] \in Nat
  BY <1>1, BookTyped
<1>3. ASSUME NEW x \in Oids
      PROVE  Counts'[x] \in Nat /\ Taken'[x] \in Nat
  <2>1. orders'[x].filled \in 0 .. MaxQty /\ orders'[x].qty \in 1 .. MaxQty
        /\ booked'[x] \in 0 .. MaxQty
    BY DEF TypeInv, Table, Order, Qtys
  <2>2. orders'[x].filled \in Nat /\ orders'[x].qty \in Nat /\ booked'[x] \in Nat
    BY <2>1, Constants
  <2> QED  BY <2>2 DEF Counts, Taken, Due
<1>4. \A x \in Oids : d[x] \in Nat /\ u[x] \in Nat
  BY <1>1, <1>3
<1>5. \A x \in Oids \ {y} : c[x] = d[x] /\ t[x] = u[x]
  BY <1>1
<1>6. Total(d) = Total(c) - c[y] + d[y]
  BY <1>2, <1>4, <1>5, TotalChanges
<1>7. Total(u) = Total(t) - t[y] + u[y]
  BY <1>2, <1>4, <1>5, TotalChanges
<1> QED  BY <1>1, <1>2, <1>4, <1>6, <1>7

LEMMA BookInit == Init => BookInv
<1> SUFFICES ASSUME Init PROVE BookInv
  OBVIOUS
<1>1. Total(Counts) \in Nat /\ Total(Taken) \in Nat
  BY TypeInit, LedgerInit, BookTotals
<1> QED  BY <1>1, Constants DEF Init, BookInv

\* What a step leaves alone when it moves no order from or to those that report.
LEMMA SameCounts ==
    ASSUME TypeInv, LedgerInv, TypeInv', Kept(orders, orders', {}), UNCHANGED <<processed, booked>>,
           take'.oid = take.oid
    PROVE  UNCHANGED <<Total(Counts), Total(Taken)>>
<1>1. \A x \in Oids : Counts'[x] = Counts[x] /\ Taken'[x] = Taken[x]
  BY DEF Kept, Counts, Taken, Due, Reports
<1>2. Stop \in Oids
  BY Constants
<1>3. /\ Total(Counts)' = Total(Counts) - Counts[Stop] + Counts'[Stop]
      /\ Total(Taken)' = Total(Taken) - Taken[Stop] + Taken'[Stop]
      /\ Counts[Stop] \in Nat /\ Taken[Stop] \in Nat
  BY <1>1, <1>2, OneCounts
<1>4. Total(Counts) \in Nat /\ Total(Taken) \in Nat
  BY BookTotals
<1> QED  BY <1>1, <1>2, <1>3, <1>4

LEMMA SameBooks ==
    ASSUME TypeInv, BookInv, UNCHANGED <<Total(Counts), Total(Taken), shares, left, realized>>,
           open' => open, pc # "taking" => pc' # "taking", open' = open \/ realized <= Total(Counts)
    PROVE  BookInv'
  BY DEF BookInv, StoppedOut

\* An order begins to report.
LEMMA OrderReports ==
    ASSUME TypeInv, LedgerInv, TypeInv', NEW o \in Oids, Kept(orders, orders', {}),
           ~Reports(o), orders[o].kind # "stop",
           \A x \in Oids \ {o} : /\ Reports(x)' = Reports(x)
                                 /\ x \in processed' <=> x \in processed,
           UNCHANGED booked, NEW q \in Nat, Due(o)' = q
    PROVE  /\ Total(Counts)' = Total(Counts) + q
           /\ Total(Taken)' = Total(Taken) + q
           /\ Total(Counts) \in Nat /\ Total(Taken) \in Nat
<1>1. \A x \in Oids \ {o} : Counts'[x] = Counts[x] /\ Taken'[x] = Taken[x]
  BY DEF Kept, Counts, Taken, Due
<1>2. Counts[o] = 0 /\ Taken[o] = 0 /\ Counts'[o] = q /\ Taken'[o] = q
  <2>1. Due(o) = 0
    BY DEF Due, Reports
  <2>2. orders'[o].kind # "stop"
    BY DEF Kept
  <2> QED  BY <2>1, <2>2 DEF Counts, Taken
<1>3. /\ Total(Counts)' = Total(Counts) - Counts[o] + Counts'[o]
      /\ Total(Taken)' = Total(Taken) - Taken[o] + Taken'[o]
  BY <1>1, OneCounts
<1>4. Total(Counts) \in Nat /\ Total(Taken) \in Nat
  BY BookTotals
<1> QED  BY <1>2, <1>3, <1>4

\* The monitor marks an order it did not mark before.
LEMMA MarkedReports ==
    ASSUME TypeInv, LedgerInv, TypeInv', NEW o \in Tranches \ processed,
           Kept(orders, orders', {}), processed' = processed \cup {o}, UNCHANGED <<booked, take>>
    PROVE  /\ Total(Counts)' = Total(Counts) + orders[o].qty
           /\ Total(Taken)' = Total(Taken) + orders[o].qty
           /\ Total(Counts) \in Nat /\ Total(Taken) \in Nat /\ orders[o].qty \in Nat
<1>1. o \in Oids /\ orders[o].kind = "limit" /\ orders'[o].qty = orders[o].qty
  BY Constants DEF LedgerInv, Roles, Kept
<1>2. ~Reports(o) /\ Due(o)' = orders[o].qty
  BY <1>1 DEF Reports, Due, Kept
<1>a. ASSUME NEW x \in Oids \ {o}
      PROVE  Reports(x)' = Reports(x) /\ (x \in processed' <=> x \in processed)
  BY <1>1 DEF Reports, Kept
<1>3. orders[o].qty \in Nat
  BY <1>1, BookTyped, Constants
<1>4. PICK q \in Nat : q = orders[o].qty
  BY <1>3
<1>5. Due(o)' = q /\ orders[o].kind # "stop" /\ booked' = booked /\ o \in Oids
  BY <1>1, <1>2, <1>4
<1>6. /\ Total(Counts)' = Total(Counts) + q
      /\ Total(Taken)' = Total(Taken) + q
      /\ Total(Counts) \in Nat /\ Total(Taken) \in Nat
  BY <1>2, <1>a, <1>5, OrderReports
<1> QED  BY <1>3, <1>4, <1>6

\* A first fill is of an order of the monitor's that was not counted before.
LEMMA FirstFillReports ==
    ASSUME TypeInv, NEW i \in DOMAIN stream, FirstFill(stream[i])
    PROVE  LET o == stream[i].oid
           IN  o \in Tranches \ processed /\ o \in registered /\ stream[i].cum = orders[o].qty
  BY PrintTyped DEF FirstFill, IsFill, TypeInv

\* An order is counted for its whole size.
LEMMA CountBooks ==
    ASSUME TypeInv, LedgerInv, BookInv, TypeInv', Kept(orders, orders', {}),
           NEW o \in Tranches \ processed, open, CountTranche(o, orders[o].qty),
           UNCHANGED <<shares, booked, take>>
    PROVE  BookInv' /\ left' >= MaxQty - Total(Taken)'
<1>0. PICK q : q = orders[o].qty
  OBVIOUS
<1>1. /\ left' = (IF q <= left THEN left - q ELSE 0) /\ realized' = realized + q
      /\ processed' = processed \cup {o} /\ (open' => left' # 0)
  BY <1>0 DEF CountTranche
<1>2. /\ Total(Counts)' = Total(Counts) + q /\ Total(Taken)' = Total(Taken) + q
      /\ Total(Counts) \in Nat /\ Total(Taken) \in Nat /\ q \in Nat
  BY <1>0, <1>1, MarkedReports
<1>3. /\ realized \in Nat /\ left \in 0 .. MaxQty /\ left >= MaxQty - Total(Taken)
      /\ realized <= Total(Counts) /\ (left = 0 \/ realized + left <= MaxQty)
  BY DEF TypeInv, BookInv, StoppedOut
<1>4. left' >= MaxQty - Total(Taken)' /\ realized' \in Nat /\ realized' <= Total(Counts)'
  BY <1>1, <1>2, <1>3, Constants
<1>5. left' = 0 \/ realized' + left' <= MaxQty
  BY <1>1, <1>2, <1>3, Constants
<1> QED  BY <1>4, <1>5 DEF BookInv

LEMMA TrancheFillBooks ==
    ASSUME TypeInv, LedgerInv, BookInv, TypeInv', NEW i, TrancheFill(i)
    PROVE  BookInv' /\ left' >= MaxQty - Total(Taken)'
<1>1. PICK o : o = stream[i].oid
  OBVIOUS
<1>2. /\ i \in DOMAIN stream /\ FirstFill(stream[i]) /\ open /\ CountTranche(o, stream[i].cum)
      /\ UNCHANGED <<orders, shares, booked, take>>
  BY <1>1 DEF TrancheFill, Deliver, venue, bridge, cycle
<1>3. o \in Tranches \ processed /\ stream[i].cum = orders[o].qty
  BY <1>1, <1>2, FirstFillReports
<1>4. Kept(orders, orders', {})
  BY <1>2 DEF Kept
<1> QED  BY <1>2, <1>3, <1>4, CountBooks

\* The tranche sync counts an order of a tracked position's.
LEMMA DrainMarks ==
    ASSUME TypeInv, Uncounted, Drain, SyncHits
    PROVE  \E o \in Tranches \ processed :
               CountTranche(o, orders[o].qty) /\ o \in registered /\ open
<1>1. PICK o : o = Ladder[Min(Credited)]
  OBVIOUS
<1>2. o \in registered /\ CountTranche(o, orders[o].qty) /\ open
  BY <1>1, FirstCredited DEF Drain, SyncHits
<1>3. o \in Tranches \ processed
  BY <1>2 DEF Uncounted, TypeInv
<1> QED  BY <1>2, <1>3

LEMMA DrainBooks ==
    ASSUME TypeInv, LedgerInv, BookInv, Uncounted, TypeInv', Drain, SyncHits,
           Kept(orders, orders', {})
    PROVE  BookInv' /\ left' >= MaxQty - Total(Taken)'
<1>1. UNCHANGED <<shares, booked, take>>
  BY DEF Drain, bridge
<1> QED  BY <1>1, DrainMarks, CountBooks

LEMMA TooLateBooks ==
    ASSUME TypeInv, LedgerInv, BookInv, TypeInv', NEW i, TrancheFillTooLate(i)
    PROVE  BookInv'
<1>1. PICK o : o = stream[i].oid
  OBVIOUS
<1>2. /\ i \in DOMAIN stream /\ FirstFill(stream[i]) /\ ~open /\ processed' = processed \cup {o}
      /\ UNCHANGED <<orders, shares, booked, take, pc, open, left, realized>>
  BY <1>1 DEF TrancheFillTooLate, Deliver, venue, bridge, cycle, manager
<1>3. o \in Tranches \ processed /\ Kept(orders, orders', {})
  BY <1>1, <1>2, FirstFillReports DEF Kept
<1>4. /\ Total(Counts)' = Total(Counts) + orders[o].qty
      /\ Total(Counts) \in Nat /\ orders[o].qty \in Nat
  BY <1>2, <1>3, MarkedReports
<1> QED  BY <1>2, <1>4 DEF BookInv, StoppedOut

\* What the exit-leg handler takes off the tracker it has booked of a stop.
LEMMA ExitFillTakes ==
    ASSUME TypeInv, LedgerInv, BookInv, TypeInv', NEW i, ExitFill(i)
    PROVE  BookInv'
<1>0. PICK e, o, inc : e = stream[i] /\ o = e.oid /\ inc = e.cum - booked[o]
  OBVIOUS
<1>1. /\ i \in DOMAIN stream /\ o \in Oids /\ e.cum \in 0 .. MaxQty
      /\ o \notin registered \cup processed /\ booked' = [booked EXCEPT ![o] = e.cum]
  BY <1>0, ExitFillBooks
<1>2. /\ UNCHANGED <<orders, shares, processed, take, pc, realized>>
      /\ open /\ booked[o] < e.cum
      /\ open' => left' = IF o \in {stopOid, tracked} THEN (IF inc <= left THEN left - inc ELSE 0) ELSE left
  <2>1. ~Skipped(e) /\ UNCHANGED <<orders, shares, processed, take, pc, realized>>
    BY <1>0 DEF ExitFill, venue, monitor, cycle
  <2>2. booked[o] \in Int /\ e.cum \in Int
    BY <1>1, Constants DEF TypeInv
  <2>3. open /\ booked[o] < e.cum
    BY <1>0, <2>1, <2>2 DEF Skipped
  <2>4. open' => left' = IF o \in {stopOid, tracked} THEN (IF inc <= left THEN left - inc ELSE 0) ELSE left
    BY <1>0 DEF ExitFill
  <2> QED  BY <2>1, <2>3, <2>4
<1>3. o \in {stopOid, tracked} => orders[o].kind = "stop"
  BY <1>1, FillBookingAssumption DEF LedgerInv, Roles
<1>a. booked[o] \in 0 .. MaxQty
  BY <1>1 DEF TypeInv
<1>4. \A x \in Oids : x # o => Counts'[x] = Counts[x] /\ Taken'[x] = Taken[x]
  BY <1>1, <1>2 DEF Counts, Taken, Due, Reports, TypeInv
<1>5. /\ Counts'[o] = Counts[o]
      /\ Taken'[o] = IF orders[o].kind = "stop" THEN Taken[o] + inc ELSE Taken[o]
  <2>1. Due(o)' = Due(o)
    BY <1>2 DEF Due, Reports
  <2>2. booked'[o] = booked[o] + inc /\ booked[o] \in Int /\ inc \in Int
    <3>1. booked'[o] = e.cum /\ e.cum \in Int /\ booked[o] \in Int
      BY <1>1, <1>a, Constants DEF TypeInv
    <3>2. inc = e.cum - booked[o]
      BY <1>0
    <3> QED  BY <3>1, <3>2
  <2>3. orders' = orders /\ o \in Oids
    BY <1>1, <1>2
  <2> QED  BY <2>1, <2>2, <2>3 DEF Counts, Taken
<1>6. /\ Total(Counts)' = Total(Counts) - Counts[o] + Counts'[o]
      /\ Total(Taken)' = Total(Taken) - Taken[o] + Taken'[o]
      /\ Counts[o] \in Nat /\ Taken[o] \in Nat
  BY <1>1, <1>4, OneCounts
<1>7. Total(Counts) \in Nat /\ Total(Taken) \in Nat
  BY BookTotals
<1>9. inc \in Nat
  BY <1>0, <1>1, <1>2, <1>a, Constants
<1>10. Total(Counts)' = Total(Counts) /\ Total(Taken)' >= Total(Taken)
       /\ (o \in {stopOid, tracked} => Total(Taken)' = Total(Taken) + inc)
  BY <1>3, <1>5, <1>6, <1>7, <1>9
<1>11. /\ realized \in Nat /\ left \in 0 .. MaxQty /\ left >= MaxQty - Total(Taken)
       /\ realized <= Total(Counts) /\ (left = 0 \/ realized + left <= MaxQty)
  BY <1>2 DEF TypeInv, BookInv, StoppedOut
<1>12. open' => /\ left' >= MaxQty - Total(Taken)'
                /\ left' = 0 \/ realized + left' <= MaxQty
  <2>1. Total(Taken)' \in Int
    BY <1>5, <1>6, <1>7, <1>9
  <2> QED  BY SMTT(30), <1>2, <1>7, <1>9, <1>10, <1>11, <2>1, Constants
<1> QED  BY <1>2, <1>10, <1>11, <1>12 DEF BookInv

\* A sale of the cycle's is booked when the cycle has done with it.
LEMMA TakeReports ==
    ASSUME TypeInv, LedgerInv, TypeInv', pc = "taking", take' = NoTake,
           Kept(orders, orders', {}), UNCHANGED <<processed, booked>>
    PROVE  /\ Total(Counts)' = Total(Counts) + orders[take.oid].filled
           /\ Total(Taken)' = Total(Taken) + orders[take.oid].filled
           /\ Total(Counts) \in Nat /\ Total(Taken) \in Nat /\ orders[take.oid].filled \in Nat
<1>1. PICK o : o = take.oid
  OBVIOUS
<1>2. /\ o \in Oids /\ orders[o].kind = "market" /\ o \notin Tranches /\ o \notin processed
      /\ orders'[o].kind = "market"
  BY <1>1 DEF TypeInv, LedgerInv, Roles, Kept
<1>3. take'.oid \notin Oids
  BY FillBookingAssumption DEF NoTake
<1>4. ~Reports(o) /\ orders[o].kind # "stop" /\ Due(o)' = orders[o].filled
  BY <1>1, <1>2, <1>3 DEF Reports, Due, Kept
<1>5. ASSUME NEW x \in Oids \ {o}
      PROVE  Reports(x)' = Reports(x) /\ (x \in processed' <=> x \in processed)
  BY <1>1, <1>3 DEF Reports, Kept
<1>6. orders[o].filled \in Nat
  BY <1>2, BookTyped, Constants
<1> QED  BY <1>1, <1>2, <1>4, <1>5, <1>6, OrderReports

LEMMA TakeBookBooks ==
    ASSUME TypeInv, LedgerInv, BookInv, TypeInv', LedgerInv', TakeBook, Kept(orders, orders', {})
    PROVE  BookInv' /\ (open => left' >= MaxQty - Total(Taken)')
<1>1. PICK q : q = orders[take.oid].filled
  OBVIOUS
<1>2. /\ pc = "taking" /\ take' = NoTake /\ UNCHANGED <<shares, processed, booked>>
      /\ left' = (IF q <= left THEN left - q ELSE 0) /\ realized' = realized + q
      /\ (open' => open)
  BY <1>1 DEF TakeBook
<1>3. /\ Total(Counts)' = Total(Counts) + q /\ Total(Taken)' = Total(Taken) + q
      /\ Total(Counts) \in Nat /\ Total(Taken) \in Nat /\ q \in Nat
  BY <1>1, <1>2, TakeReports
<1>4. /\ realized \in Nat /\ left \in 0 .. MaxQty /\ (open => left >= MaxQty - Total(Taken))
      /\ realized <= Total(Counts) /\ (open => left = 0 \/ realized + left <= MaxQty)
  BY <1>2 DEF TypeInv, BookInv, StoppedOut
<1>5. /\ realized' \in Nat /\ realized' <= Total(Counts)'
      /\ open => left' >= MaxQty - Total(Taken)'
  BY <1>2, <1>3, <1>4, Constants
<1>6. open' => left' = 0 \/ realized' + left' <= MaxQty
  BY <1>2, <1>3, <1>4, Constants
<1> QED  BY <1>2, <1>5, <1>6 DEF BookInv

LEMMA ExecuteBooks ==
    ASSUME TypeInv, LedgerInv, BookInv, TypeInv', NEW o \in Oids, NEW n \in Qtys, Execute(o, n)
    PROVE  BookInv'
<1>1. /\ shares # 0 /\ orders'[o].filled = orders[o].filled + n
      /\ \A x \in Oids : /\ orders'[x].kind = orders[x].kind /\ orders'[x].qty = orders[x].qty
                         /\ x # o => orders'[x].filled = orders[x].filled
  BY ExecuteStep
<1>2. UNCHANGED <<processed, booked, take, pc, open, left, realized>>
  BY DEF Execute, monitor, bridge, cycle, manager
<1>3. \A x \in Oids : Reports(x)' = Reports(x)
  BY <1>1, <1>2 DEF Reports
<1>4. \A x \in Oids \ {o} : Counts'[x] = Counts[x] /\ Taken'[x] = Taken[x]
  BY <1>1, <1>2, <1>3 DEF Counts, Taken, Due
<1>5. /\ Total(Counts)' = Total(Counts) - Counts[o] + Counts'[o]
      /\ Total(Taken)' = Total(Taken) - Taken[o] + Taken'[o]
      /\ Counts[o] \in Nat /\ Counts'[o] \in Nat /\ Taken[o] \in Nat /\ Taken'[o] \in Nat
  BY <1>4, OneCounts
<1>6. Counts'[o] >= Counts[o] /\ Taken'[o] >= Taken[o]
  <2>1. /\ n \in Nat /\ orders[o].filled \in Nat /\ booked[o] \in Nat
        /\ orders[o].qty \in Nat
    BY BookTyped, Constants DEF Qtys
  <2>2. Due(o) \in Nat /\ Due(o)' \in Nat /\ Due(o)' >= Due(o)
    BY <1>1, <1>2, <1>3, <2>1 DEF Due
  <2> QED  BY <1>1, <1>2, <2>1, <2>2 DEF Counts, Taken
<1>7. /\ realized \in Nat /\ left \in 0 .. MaxQty /\ (open => left >= MaxQty - Total(Taken))
      /\ realized <= Total(Counts) /\ (open => left = 0 \/ realized + left <= MaxQty)
  BY <1>1 DEF TypeInv, BookInv, StoppedOut
<1>8. Total(Counts) \in Nat /\ Total(Taken) \in Nat
  BY BookTotals
<1>9. realized <= Total(Counts)' /\ (open => left >= MaxQty - Total(Taken)')
  BY SMTT(30), <1>5, <1>6, <1>7, <1>8, Constants
<1> QED  BY <1>2, <1>7, <1>9 DEF BookInv

\* A new order counts for nothing.
LEMMA NewOrderBooks ==
    ASSUME TypeInv, LedgerInv, BookInv, TypeInv', NEW n \in Oids, Kept(orders, orders', {n}),
           orders[n].status = "unused", orders[n].filled = 0, orders'[n].filled = 0,
           orders'[n].kind \in {"market", "stop"},
           take' = take \/ (take = NoTake /\ take'.oid = n),
           UNCHANGED <<processed, booked, shares, open, left, realized>>, pc' = pc \/ open
    PROVE  BookInv'
<1>1. orders[n].kind = "limit" /\ n \notin processed /\ booked[n] = 0
  <2>1. booked[n] = 0
    BY BookTyped, Constants
  <2> QED  BY <2>1 DEF LedgerInv, Roles, TypeInv
<1>2. \A x \in Oids \ {n} : Counts'[x] = Counts[x] /\ Taken'[x] = Taken[x]
  BY FillBookingAssumption DEF Counts, Taken, Due, Reports, Kept, NoTake
<1>3. Counts[n] = 0 /\ Counts'[n] = 0 /\ Taken[n] = 0 /\ Taken'[n] = 0
  BY <1>1 DEF Counts, Taken, Due, Reports
<1>4. /\ Total(Counts)' = Total(Counts) - Counts[n] + Counts'[n]
      /\ Total(Taken)' = Total(Taken) - Taken[n] + Taken'[n]
  BY <1>2, OneCounts
<1>5. Total(Counts) \in Nat /\ Total(Taken) \in Nat
  BY BookTotals
<1>6. UNCHANGED <<Total(Counts), Total(Taken)>>
  BY <1>3, <1>4, <1>5
<1> QED  BY <1>6 DEF BookInv, StoppedOut

LEMMA CycleBooks ==
    ASSUME TypeInv, LedgerInv, BookInv, Uncounted, TypeInv', Cycle, Kept(orders, orders', {})
    PROVE  BookInv'
<1>1. CASE Drain /\ SyncHits
  BY <1>1, DrainBooks
<1>2. CASE ~(Drain /\ SyncHits)
  <2>1. /\ UNCHANGED <<processed, booked, take, left, shares>> /\ pc # "taking" /\ pc' # "taking"
        /\ ~StopOutClose => UNCHANGED <<open, realized>>
    BY <1>2 DEF Cycle, Register, Fetch, Drain, SkipDrain, StopOutScan, ScanClear, StopOutCancel,
                StopOutClose, NoMoreTakes, monitor, manager, bridge, venue
  <2>2. UNCHANGED <<Total(Counts), Total(Taken)>>
    BY <2>1, SameCounts
  <2>3. CASE ~StopOutClose
    BY <2>1, <2>2, <2>3, SameBooks
  <2>4. CASE StopOutClose
    <3>1. /\ shares = 0 /\ open' = FALSE /\ realized' = (IF open THEN realized + left ELSE realized)
          /\ left \in 0 .. MaxQty
      BY <2>4 DEF StopOutClose, LedgerInv, Sightings, TypeInv
    <3> QED  BY <2>1, <2>2, <3>1, Constants DEF BookInv, StoppedOut
  <2> QED  BY <2>3, <2>4
<1> QED  BY <1>1, <1>2

LEMMA UncountedInit == Init => Uncounted
  BY DEF Init, Uncounted

LEMMA UncountedStep == TypeInv /\ Uncounted /\ [Next]_vars => Uncounted'
<1> SUFFICES ASSUME TypeInv, Uncounted, [Next]_vars PROVE Uncounted'
  OBVIOUS
<1>1. ASSUME NEW o, CountTranche(o, orders[o].qty), o \in registered, open, pc' = "postFill" => pc = "postFill"
      PROVE  Uncounted'
  <2>1. /\ processed' = processed \cup {o} /\ registered' \subseteq registered \ {o}
        /\ registered \cap processed = {} /\ pc # "postFill"
    BY <1>1 DEF CountTranche, Uncounted
  <2> QED  BY <1>1, <2>1 DEF Uncounted
<1>2. ASSUME NEW i \in DOMAIN stream, TrancheFill(i) \/ TrancheFillTooLate(i)
      PROVE  Uncounted'
  <2>1. FirstFill(stream[i]) /\ pc' = pc
    BY <1>2 DEF TrancheFill, TrancheFillTooLate, cycle
  <2>2. stream[i].oid \in registered /\ stream[i].cum = orders[stream[i].oid].qty
    BY <2>1, FirstFillReports
  <2>3. CASE TrancheFill(i)
    BY <1>1, <2>1, <2>2, <2>3 DEF TrancheFill
  <2>4. CASE TrancheFillTooLate(i)
    BY <2>1, <2>2, <2>4 DEF TrancheFillTooLate, Uncounted, manager
  <2> QED  BY <1>2, <2>3, <2>4
<1>3. CASE Drain /\ SyncHits
  <2>1. pc' # "postFill"
    BY <1>3 DEF Drain
  <2> QED  BY <1>1, <1>3, <2>1, DrainMarks
<1>4. CASE Register
  BY <1>4 DEF Register, Uncounted, manager
<1>5. CASE /\ ~\E i \in DOMAIN stream : TrancheFill(i) \/ TrancheFillTooLate(i)
           /\ ~(Drain /\ SyncHits) /\ ~Register
  <2>1. /\ processed' = processed /\ registered' \subseteq registered
        /\ open' => open
        /\ pc' = "postFill" => pc = "postFill"
    <3>1. CASE Cycle
      BY <1>5, <3>1
         DEF Cycle, Fetch, Drain, SkipDrain, StopOutScan, ScanClear, StopOutCancel, StopOutClose,
             NoMoreTakes, monitor, manager
    <3>2. CASE Takes
      BY <3>2 DEF Takes, TakeSell, TakeBook, TakeForfeit, monitor, manager
    <3>3. CASE OnTradeUpdate
      <4>1. ASSUME NEW i \in DOMAIN stream, Ignore(i) \/ ExitFill(i)
            PROVE  UNCHANGED <<processed, registered, pc>> /\ (open' => open)
        <5>1. UNCHANGED <<processed, registered, pc>>
          BY <4>1 DEF Ignore, ExitFill, monitor, cycle
        <5>2. CASE Ignore(i)
          BY <5>1, <5>2 DEF Ignore, manager
        <5>3. CASE ExitFill(i)
          BY <5>1, <5>3 DEF ExitFill, Skipped
        <5> QED  BY <4>1, <5>1, <5>2, <5>3
      <4> QED  BY <1>5, <3>3, <4>1 DEF OnTradeUpdate
    <3>4. CASE (\E o \in Oids, n \in Qtys : Execute(o, n)) \/ ExchangeStop \/ UNCHANGED vars
      <4>1. UNCHANGED <<processed, registered, open, pc>>
        BY <3>4 DEF Execute, ExchangeStop, vars, monitor, manager, cycle
      <4> QED  BY <4>1
    <3> QED  BY <3>1, <3>2, <3>3, <3>4 DEF Next
  <2> QED  BY <2>1 DEF Uncounted
<1> QED  BY <1>2, <1>3, <1>4, <1>5

LEMMA BookStep ==
    Shortable = FALSE /\ TypeInv /\ LedgerInv /\ BookInv /\ Uncounted /\ [Next]_vars => BookInv'
<1> SUFFICES ASSUME Shortable = FALSE, TypeInv, LedgerInv, BookInv, Uncounted, [Next]_vars
             PROVE  BookInv'
  OBVIOUS
<1>0. TypeInv' /\ LedgerInv'
  BY TypeStep, LedgerStep
<1>1. ASSUME NEW o \in Oids, NEW n \in Qtys, Execute(o, n)
      PROVE  BookInv'
  BY <1>0, <1>1, ExecuteBooks
<1>2. ASSUME NEW i \in DOMAIN stream, TrancheFill(i) \/ TrancheFillTooLate(i) \/ ExitFill(i)
      PROVE  BookInv'
  BY <1>0, <1>2, TrancheFillBooks, TooLateBooks, ExitFillTakes
<1>3. CASE (\E i \in DOMAIN stream : Ignore(i)) \/ UNCHANGED vars
  <2>1. UNCHANGED <<orders, processed, booked, take, pc, open, left, realized, shares>>
    BY <1>3 DEF Ignore, vars, venue, monitor, manager, bridge, cycle
  <2>2. UNCHANGED <<Total(Counts), Total(Taken)>>
    BY <1>0, <2>1, SameCounts DEF Kept
  <2> QED  BY <2>1, <2>2, SameBooks
<1>4. CASE Cycle
  <2>1. Kept(orders, orders', {})
    BY <1>4, QuietOrders DEF Quiet
  <2> QED  BY <1>0, <1>4, <2>1, CycleBooks
<1>5. CASE TakeBook
  <2>1. Kept(orders, orders', {})
    BY <1>5, QuietOrders DEF Quiet
  <2> QED  BY <1>0, <1>5, <2>1, TakeBookBooks
<1>6. ASSUME NEW live \in BOOLEAN, TakeForfeit(live)
      PROVE  BookInv'
  <2>1. Kept(orders, orders', {})
    BY <1>6, QuietOrders DEF Quiet
  <2>2. /\ pc = "taking" /\ take' = NoTake
        /\ UNCHANGED <<processed, booked, shares, open, left, realized>>
    BY <1>6 DEF TakeForfeit, monitor, manager, bridge
  <2>3. /\ Total(Counts)' = Total(Counts) + orders[take.oid].filled
        /\ Total(Taken)' = Total(Taken) + orders[take.oid].filled
        /\ Total(Counts) \in Nat /\ Total(Taken) \in Nat /\ orders[take.oid].filled \in Nat
    BY <1>0, <2>1, <2>2, TakeReports
  <2>4. /\ realized \in Nat /\ left \in 0 .. MaxQty /\ (open => left >= MaxQty - Total(Taken))
        /\ realized <= Total(Counts) /\ (open => left = 0 \/ realized + left <= MaxQty)
    BY <2>2 DEF TypeInv, BookInv, StoppedOut
  <2>5. realized <= Total(Counts)' /\ (open => left >= MaxQty - Total(Taken)')
    BY SMTT(30), <2>3, <2>4, Constants
  <2> QED  BY <2>2, <2>4, <2>5 DEF BookInv
<1>7. ASSUME NEW o \in Oids, NEW q \in Qtys, NEW by \in Takers, NEW all \in BOOLEAN,
             TakeSell(o, q, by, all)
      PROVE  BookInv'
  <2>1. /\ Kept(orders, orders', {o}) /\ orders[o].status = "unused"
        /\ orders[o].filled = 0 /\ orders'[o].filled = 0 /\ orders'[o].kind = "market"
    BY <1>7, TakeSellLedger
  <2>2. /\ UNCHANGED <<processed, booked, shares, open, left, realized>> /\ open
        /\ take = NoTake /\ take'.oid = o
    BY <1>7 DEF TakeSell, monitor, bridge, LedgerInv, Roles
  <2> QED  BY <1>0, <2>1, <2>2, NewOrderBooks
<1>8. CASE ExchangeStop
  <2>1. UNCHANGED <<processed, booked, shares, open, left, realized, take, pc>>
    BY <1>8 DEF ExchangeStop, monitor, manager, bridge, cycle
  <2>2. CASE Kept(orders, orders', {})
    <3>1. UNCHANGED <<Total(Counts), Total(Taken)>>
      BY <1>0, <2>1, <2>2, SameCounts
    <3> QED  BY <2>1, <3>1, SameBooks
  <2>3. CASE \E n \in Oids : /\ Kept(orders, orders', {n}) /\ orders[n].status = "unused"
                             /\ orders[n].filled = 0 /\ orders'[n].filled = 0
                             /\ orders'[n].kind = "stop"
    <3>1. PICK n \in Oids : /\ Kept(orders, orders', {n}) /\ orders[n].status = "unused"
                            /\ orders[n].filled = 0 /\ orders'[n].filled = 0
                            /\ orders'[n].kind = "stop"
      BY <2>3
    <3> QED  BY <1>0, <2>1, <3>1, NewOrderBooks
  <2> QED  BY <1>8, <2>2, <2>3, ExchangeLedger
<1> QED
  BY <1>1, <1>2, <1>3, <1>4, <1>5, <1>6, <1>7, <1>8 DEF Next, OnTradeUpdate, Takes

(* If the symbol is not shortable, the daily P&L counts a share of the     *)
(* position at most once, whichever of the stream, a market sale and the   *)
(* stop-out scan gets to it first, for prints in any order and any number  *)
(* of times; the tranche sync, which runs in every cycle, adds no more     *)
(* than the shares it credited to an order ahead of its execution          *)
(* (position_manager.py, tranche_monitor.py, main.py).                     *)
THEOREM SharesAreRealizedOnce == Shortable = FALSE /\ Spec => []EachShareRealizedOnce
<1> SUFFICES ASSUME Shortable = FALSE PROVE Spec => []EachShareRealizedOnce
  OBVIOUS
<1>1. TypeInv /\ LedgerInv /\ BookInv => EachShareRealizedOnce
  <2> SUFFICES ASSUME TypeInv, LedgerInv, BookInv PROVE realized <= MaxQty - shares + Ahead
    BY DEF EachShareRealizedOnce, Sold
  <2>1. /\ Total(Counts) \in Nat /\ shares \in Nat /\ Total(Counts) <= MaxQty - shares + Ahead
        /\ realized \in Nat /\ Ahead \in Nat
    BY BookTotals DEF BookInv
  <2> QED  BY <2>1, Constants DEF BookInv, StoppedOut
<1>2. TypeInv /\ LedgerInv /\ [Next]_vars => LedgerInv'
  BY LedgerStep
<1>3. TypeInv /\ LedgerInv /\ BookInv /\ Uncounted /\ [Next]_vars => BookInv'
  BY BookStep
<1> QED
  BY <1>1, <1>2, <1>3, TypeInit, TypeStep, LedgerInit, BookInit, UncountedInit, UncountedStep, PTL
     DEF Spec

(* If the symbol is not shortable, the tracked quantity falls below the    *)
(* position by no more than the shares the tranche sync credited ahead of  *)
(* their execution: so much may a stop sized by it leave uncovered         *)
(* (fill_stream_bridge.py:264-266, main.py:5281-5353).                     *)
THEOREM TrackerCovers == Shortable = FALSE /\ Spec => []TrackerCoversPosition
<1> SUFFICES ASSUME Shortable = FALSE PROVE Spec => []TrackerCoversPosition
  OBVIOUS
<1>1. TypeInv /\ LedgerInv /\ BookInv => TrackerCoversPosition
  <2> SUFFICES ASSUME TypeInv, LedgerInv, BookInv, open PROVE left + Ahead >= shares
    BY DEF TrackerCoversPosition
  <2>1. /\ Total(Taken) \in Nat /\ shares \in Nat /\ Total(Taken) <= MaxQty - shares + Ahead
        /\ left \in 0 .. MaxQty /\ left >= MaxQty - Total(Taken) /\ Ahead \in Nat
    BY BookTotals DEF BookInv, TypeInv
  <2> QED  BY <2>1, Constants
<1>2. TypeInv /\ LedgerInv /\ [Next]_vars => LedgerInv'
  BY LedgerStep
<1>3. TypeInv /\ LedgerInv /\ BookInv /\ Uncounted /\ [Next]_vars => BookInv'
  BY BookStep
<1> QED
  BY <1>1, <1>2, <1>3, TypeInit, TypeStep, LedgerInit, BookInit, UncountedInit, UncountedStep, PTL
     DEF Spec

(***************************************************************************)
(* Nothing is forgotten.  The monitor closes a position when the tracker   *)
(* is empty, or at the third tranche it counts, which a ladder of two      *)
(* tranches never has; the exit-leg handler closes it when the print says  *)
(* that the broker's position is gone.                                     *)
(***************************************************************************)

CountedInv == counted \in Nat /\ counted <= Cardinality(processed)

FlatInv == ~open => shares <= Ahead

LEMMA FlatInit == Init => CountedInv /\ FlatInv
  BY FS_EmptySet DEF Init, CountedInv, FlatInv

LEMMA ProcessedFits ==
    ASSUME TypeInv, NEW P, P \subseteq Tranches
    PROVE  IsFiniteSet(P) /\ Cardinality(P) \in Nat /\ Cardinality(P) <= Len(Ladder)
<1>1. IsFiniteSet(Tranches) /\ Cardinality(Tranches) = Len(Ladder)
  BY Constants, BrokerAssumption, FillBookingAssumption, FS_Subset
<1> QED  BY <1>1, FS_Subset, FS_CardinalityType

\* Each order the monitor counts is processed.
LEMMA CountedStep ==
    TypeInv /\ CountedInv /\ Uncounted /\ [Next]_vars => CountedInv'
<1> SUFFICES ASSUME TypeInv, CountedInv, Uncounted, [Next]_vars
             PROVE  CountedInv'
  OBVIOUS
<1>0. /\ Cardinality(processed) \in Nat /\ IsFiniteSet(processed)
      /\ counted \in Nat /\ counted <= Cardinality(processed)
  BY ProcessedFits DEF CountedInv, TypeInv
<1>a. ASSUME NEW o, o \notin processed, processed' = processed \cup {o},
             counted' \in {0, counted, counted + 1}
      PROVE  CountedInv'
  <2>1. Cardinality(processed') = Cardinality(processed) + 1
    BY <1>0, <1>a, FS_AddElement
  <2> QED  BY <1>0, <1>a, <2>1 DEF CountedInv
<1>1. ASSUME NEW i \in DOMAIN stream, TrancheFill(i) \/ TrancheFillTooLate(i)
      PROVE  CountedInv'
  <2>1. PICK o : o = stream[i].oid
    OBVIOUS
  <2>2. /\ o \notin processed /\ processed' = processed \cup {o}
        /\ counted' \in {0, counted, counted + 1}
    BY <1>1, <2>1, FirstFillReports DEF TrancheFill, TrancheFillTooLate, CountTranche
  <2> QED  BY <1>a, <2>2
<1>b. CASE Drain /\ SyncHits
  <2>1. PICK o \in Tranches \ processed : CountTranche(o, orders[o].qty)
    BY <1>b, DrainMarks
  <2>2. processed' = processed \cup {o} /\ counted' \in {0, counted, counted + 1}
    BY <2>1 DEF CountTranche
  <2> QED  BY <1>a, <2>1, <2>2
<1>2. CASE /\ ~\E i \in DOMAIN stream : TrancheFill(i) \/ TrancheFillTooLate(i)
           /\ ~(Drain /\ SyncHits)
  <2>1. processed' = processed /\ counted' \in {0, counted}
    BY ZenonT(30), <1>2
       DEF Next, Execute, OnTradeUpdate, Ignore, ExitFill, Cycle, Register, Fetch, Drain,
                SkipDrain, StopOutScan, ScanClear, StopOutCancel, StopOutClose,
                NoMoreTakes, Takes, TakeSell, TakeBook, TakeForfeit, ExchangeStop, vars, monitor
  <2> QED  BY <1>0, <2>1 DEF CountedInv
<1> QED  BY <1>1, <1>b, <1>2

\* A tracker that is empty covers a position that has no share but what was credited ahead.
Empty == left = 0 /\ left >= MaxQty - Total(Taken)
Flat  == shares <= Ahead

LEMMA EmptyIsFlat == TypeInv /\ LedgerInv /\ Empty => Flat
<1> SUFFICES ASSUME TypeInv, LedgerInv, Empty PROVE Flat
  OBVIOUS
<1>1. /\ Total(Taken) \in Nat /\ shares \in Nat /\ Ahead \in Nat
      /\ Total(Taken) <= MaxQty - shares + Ahead
  BY BookTotals
<1> QED  BY <1>1, Constants DEF Empty, Flat

\* A step that sells nothing takes nothing back of what was credited ahead.
LEMMA AheadStays ==
    ASSUME TypeInv, LedgerInv, TypeInv', LedgerInv', NEW N, N \cap processed = {},
           Kept(orders, orders', N), processed \subseteq processed'
    PROVE  Ahead <= Ahead'
<1>1. PICK a, b : a = AheadOf /\ b = AheadOf'
  OBVIOUS
<1>2. ASSUME NEW x \in Oids
      PROVE  a[x] \in Nat /\ b[x] \in Nat /\ a[x] <= b[x]
  <2>1. AheadOf[x] \in Nat
    BY BookTyped
  <2>2. AheadOf'[x] \in Nat
    <3>1. /\ orders'[x].filled \in 0 .. MaxQty /\ orders'[x].qty \in 1 .. MaxQty
          /\ orders'[x].filled <= orders'[x].qty
      BY DEF LedgerInv, Sales, Sound, SoundOrder, Order, Qtys
    <3> QED  BY <3>1, Constants DEF AheadOf, Unfilled
  <2>3. x \in processed => AheadOf'[x] = AheadOf[x]
    BY DEF AheadOf, Unfilled, Kept
  <2>4. x \notin processed => AheadOf[x] = 0
    BY DEF AheadOf
  <2> QED  BY <1>1, <2>1, <2>2, <2>3, <2>4
<1>3. Total(a) <= Total(b)
  BY <1>2, TotalGrows
<1>4. Ahead = Total(AheadOf) /\ Ahead' = Total(AheadOf)'
  <2>1. AheadAdds /\ AheadAdds'
    BY AheadIsSum, PTL
  <2> QED  BY <2>1 DEF AheadAdds
<1> QED  BY <1>1, <1>3, <1>4

\* An execution uses up no more of it than it takes off the position.
LEMMA AheadExecutes ==
    ASSUME TypeInv, LedgerInv, TypeInv', LedgerInv', NEW o \in Oids, NEW n \in Qtys, Execute(o, n)
    PROVE  Ahead - n <= Ahead' /\ Ahead \in Nat /\ Ahead' \in Nat
<1>1. /\ orders'[o].filled = orders[o].filled + n /\ orders'[o].qty = orders[o].qty
      /\ \A x \in Oids \ {o} : /\ orders'[x].qty = orders[x].qty
                                /\ orders'[x].filled = orders[x].filled
      /\ processed' = processed
  BY ExecuteStep DEF Execute, monitor
<1>2. PICK a, b : a = AheadOf /\ b = AheadOf'
  OBVIOUS
<1>3. /\ orders[o].filled \in Nat /\ orders[o].qty \in Nat /\ n \in Nat
      /\ \A x \in Oids : a[x] \in Nat
  BY <1>2, BookTyped, Constants DEF Qtys
<1>4. \A x \in Oids \ {o} : a[x] = b[x]
  BY <1>1, <1>2 DEF AheadOf, Unfilled
<1>5. orders[o].filled + n <= orders[o].qty
  BY <1>1 DEF LedgerInv, Sales, Sound, SoundOrder
<1>6. b[o] \in Nat /\ a[o] - n <= b[o]
  BY <1>1, <1>2, <1>3, <1>5 DEF AheadOf, Unfilled
<1>7. \A x \in Oids : b[x] \in Nat
  BY <1>3, <1>4, <1>6
<1>8. Total(b) = Total(a) - a[o] + b[o] /\ Total(a) \in Nat /\ Total(b) \in Nat
  BY <1>3, <1>4, <1>7, TotalChanges, TotalIsNat
<1>9. Ahead = Total(AheadOf) /\ Ahead' = Total(AheadOf)'
  <2>1. AheadAdds /\ AheadAdds'
    BY AheadIsSum, PTL
  <2> QED  BY <2>1 DEF AheadAdds
<1> QED  BY <1>2, <1>3, <1>6, <1>8, <1>9

LEMMA FlatStep ==
    /\ Shortable = FALSE /\ BrokerQty = TRUE /\ Len(Ladder) <= 2
    /\ TypeInv /\ LedgerInv /\ BookInv /\ Uncounted /\ CountedInv /\ FlatInv /\ [Next]_vars
    => FlatInv'
<1> SUFFICES ASSUME Shortable = FALSE, BrokerQty = TRUE, Len(Ladder) <= 2,
                    TypeInv, LedgerInv, BookInv, Uncounted, CountedInv, FlatInv, [Next]_vars
             PROVE  FlatInv'
  OBVIOUS
<1>1. TypeInv' /\ LedgerInv'
  BY TypeStep, LedgerStep
<1>2. left' = 0 /\ left' >= MaxQty - Total(Taken)' => shares' <= Ahead'
  <2>1. Empty' => Flat'
    BY <1>1, EmptyIsFlat, PTL
  <2> QED  BY <2>1 DEF Empty, Flat
<1>3. shares \in Nat /\ Ahead \in Nat /\ Ahead' \in Nat
  <2>1. AheadAdds /\ AheadAdds'
    BY <1>1, AheadIsSum, PTL
  <2> QED  BY <2>1, BookTotals DEF AheadAdds
\* Nothing is sold, and the position stays in the tracker or was not there.
<1>a. ASSUME NEW N, N \cap processed = {}, Kept(orders, orders', N), processed \subseteq processed',
             shares' = shares, ~open' => ~open
      PROVE  FlatInv'
  <2>1. Ahead <= Ahead'
    BY <1>1, <1>a, AheadStays
  <2> QED  BY <1>3, <1>a, <2>1 DEF FlatInv
\* The monitor counts an order.
<1>b. ASSUME NEW o \in Tranches \ processed, NEW q, CountTranche(o, q)
      PROVE  ~open' => left' = 0
  <2>1. processed \subseteq Tranches /\ processed \cup {o} \subseteq Tranches
    BY <1>b DEF TypeInv
  <2>2. /\ IsFiniteSet(processed) /\ Cardinality(processed) \in Nat
        /\ Cardinality(processed \cup {o}) <= Len(Ladder)
    BY <2>1, ProcessedFits
  <2>3. Cardinality(processed \cup {o}) = Cardinality(processed) + 1
    BY <1>b, <2>2, FS_AddElement
  <2>4. counted \in Nat /\ counted <= Cardinality(processed) /\ Len(Ladder) \in Nat
    BY Constants DEF CountedInv
  <2>5. ~(counted + 1 >= 3)
    BY <2>2, <2>3, <2>4
  <2> QED  BY <1>b, <2>5 DEF CountTranche
<1>4. ASSUME NEW o \in Oids, NEW n \in Qtys, Execute(o, n)
      PROVE  FlatInv'
  <2>1. shares' = shares - n /\ open' = open /\ n \in Nat
    BY <1>4, Constants DEF Execute, manager, Qtys
  <2>2. Ahead - n <= Ahead'
    BY <1>1, <1>4, AheadExecutes
  <2> QED  BY <1>3, <2>1, <2>2 DEF FlatInv
<1>5. ASSUME NEW i \in DOMAIN stream, TrancheFill(i)
      PROVE  FlatInv'
  <2>1. PICK o : o = stream[i].oid
    OBVIOUS
  <2>2. o \in Tranches \ processed /\ CountTranche(o, stream[i].cum)
    BY <1>5, <2>1, FirstFillReports DEF TrancheFill
  <2>3. ~open' => left' = 0
    BY <1>b, <2>2
  <2>4. left' >= MaxQty - Total(Taken)'
    BY <1>1, <1>5, TrancheFillBooks
  <2> QED  BY <1>2, <2>3, <2>4 DEF FlatInv
<1>6. CASE Drain /\ SyncHits
  <2>1. PICK o \in Tranches \ processed : CountTranche(o, orders[o].qty)
    BY <1>6, DrainMarks
  <2>2. ~open' => left' = 0
    BY <1>b, <2>1
  <2>3. Kept(orders, orders', {})
    BY <1>6, QuietOrders DEF Quiet, Cycle
  <2>4. left' >= MaxQty - Total(Taken)'
    BY <1>1, <1>6, <2>3, DrainBooks
  <2> QED  BY <1>2, <2>2, <2>4 DEF FlatInv
<1>7. ASSUME NEW i \in DOMAIN stream, ExitFill(i)
      PROVE  FlatInv'
  <2>1. /\ shares' = shares /\ open /\ (~open' => stream[i].left <= 0)
    BY <1>7 DEF ExitFill, Skipped, venue
  <2>2. shares <= stream[i].left /\ stream[i].left \in Int
    <3>1. stream[i] \in Report
      BY DEF TypeInv
    <3> QED  BY <3>1 DEF LedgerInv, Prints, Report
  <2> QED  BY <1>3, <2>1, <2>2 DEF FlatInv
<1>8. CASE TakeBook
  <2>1. Kept(orders, orders', {})
    BY <1>8, QuietOrders DEF Quiet
  <2>2. shares' = shares /\ processed' = processed /\ (~open' => ~open \/ left' = 0)
    BY <1>8 DEF TakeBook
  <2>3. CASE open /\ ~open'
    <3>1. left' >= MaxQty - Total(Taken)'
      BY <1>1, <1>8, <2>1, <2>3, TakeBookBooks
    <3> QED  BY <1>2, <2>2, <2>3, <3>1 DEF FlatInv
  <2>4. CASE ~(open /\ ~open')
    BY <1>a, <2>1, <2>2, <2>4
  <2> QED  BY <2>3, <2>4
<1>9. CASE StopOutClose
  <2>1. shares' = 0
    BY <1>9 DEF StopOutClose, LedgerInv, Sightings, venue
  <2> QED  BY <1>3, <2>1 DEF FlatInv
<1>10. CASE \/ Cycle /\ ~StopOutClose /\ ~(Drain /\ SyncHits)
            \/ (\E live \in BOOLEAN : TakeForfeit(live))
            \/ (\E i \in DOMAIN stream : TrancheFillTooLate(i) \/ Ignore(i)) \/ UNCHANGED vars
  <2>1. /\ UNCHANGED <<shares, open>> /\ processed \subseteq processed'
    BY <1>10 DEF Cycle, Register, Fetch, Drain, SkipDrain, StopOutScan, ScanClear,
                 StopOutCancel, NoMoreTakes, TakeForfeit, TrancheFillTooLate,
                 Ignore, vars, manager, monitor, venue
  <2>2. Kept(orders, orders', {})
    BY <1>10, QuietOrders DEF Quiet, OnTradeUpdate
  <2> QED  BY <1>a, <2>1, <2>2
<1>11. ASSUME NEW o \in Oids, NEW q \in Qtys, NEW by \in Takers, NEW all \in BOOLEAN,
              TakeSell(o, q, by, all)
       PROVE  FlatInv'
  <2>1. Kept(orders, orders', {o}) /\ orders[o].status = "unused"
    BY <1>11, TakeSellLedger
  <2>2. {o} \cap processed = {}
    BY <2>1 DEF LedgerInv, Roles, TypeInv
  <2>3. UNCHANGED <<shares, open, processed>>
    BY <1>11 DEF TakeSell, monitor
  <2> QED  BY <1>a, <2>1, <2>2, <2>3
<1>12. CASE ExchangeStop
  <2>1. \E N : Kept(orders, orders', N) /\ N \cap processed = {}
    <3>1. CASE Kept(orders, orders', {})
      BY <3>1
    <3>2. CASE \E n \in Oids : Kept(orders, orders', {n}) /\ orders[n].status = "unused"
      <4>1. PICK n \in Oids : Kept(orders, orders', {n}) /\ orders[n].status = "unused"
        BY <3>2
      <4>2. {n} \cap processed = {}
        BY <4>1 DEF LedgerInv, Roles, TypeInv
      <4> QED  BY <4>1, <4>2
    <3> QED  BY <1>12, <3>1, <3>2, ExchangeLedger
  <2>2. UNCHANGED <<shares, open, processed>>
    BY <1>12 DEF ExchangeStop, monitor, manager
  <2> QED  BY <1>a, <2>1, <2>2
<1> QED
  BY <1>4, <1>5, <1>6, <1>7, <1>8, <1>9, <1>10, <1>11, <1>12 DEF Next, OnTradeUpdate, Takes

(* If the symbol is not shortable, prints carry the broker's position and  *)
(* the ladder has at most the two tranches exit_ladder.py places, no path  *)
(* forgets a position that has more shares than the tranche sync credited  *)
(* ahead: not a print of a partly filled leg, not a late or repeated one,  *)
(* not a stale snapshot (fill_stream_bridge.py, main.py).                  *)
THEOREM NothingIsForgotten ==
    Shortable = FALSE /\ BrokerQty = TRUE /\ Len(Ladder) <= 2 /\ Spec => []ClosedIsFlat
<1> SUFFICES ASSUME Shortable = FALSE, BrokerQty = TRUE, Len(Ladder) <= 2
             PROVE  Spec => []ClosedIsFlat
  OBVIOUS
<1>1. FlatInv => ClosedIsFlat
  BY DEF FlatInv, ClosedIsFlat
<1>2. TypeInv /\ LedgerInv /\ [Next]_vars => LedgerInv'
  BY LedgerStep
<1>3. TypeInv /\ LedgerInv /\ BookInv /\ Uncounted /\ [Next]_vars => BookInv'
  BY BookStep
<1>4. TypeInv /\ CountedInv /\ Uncounted /\ [Next]_vars => CountedInv'
  BY CountedStep
<1>5. /\ TypeInv /\ LedgerInv /\ BookInv /\ Uncounted /\ CountedInv /\ FlatInv /\ [Next]_vars
      => FlatInv'
  BY FlatStep
<1> QED
  BY <1>1, <1>2, <1>3, <1>4, <1>5, TypeInit, TypeStep, LedgerInit, BookInit, UncountedInit,
     UncountedStep, FlatInit, PTL
     DEF Spec

(***************************************************************************)
(* The remaining types.  Of an order the journal has what the exit-leg     *)
(* handler booked, and once it reports a row of the early-profit sale.     *)
(***************************************************************************)

LocalsTyped ==
    /\ open \in BOOLEAN /\ execs \subseteq Oids \X Qtys
    /\ queue \in {"none", "fills", "closed"}
    /\ pc \in {"postFill", "fetch", "sync", "scan", "stopOut", "closing", "takes", "taking"}
    /\ snapshot \in 0 .. MaxQty \cup {Unknown}
    /\ touched \in BOOLEAN /\ absent \in 0 .. 1 /\ cooldown \in BOOLEAN

StreamTyped == stream \in Seq(FillReport) /\ seen \in 0 .. Len(stream)

RowsInv ==
    \A o \in Oids : /\ journal[o] >= 0
                    /\ journal[o] <= booked[o] + (IF Reports(o) THEN MaxQty ELSE 0)

RestInv == LocalsTyped /\ StreamTyped /\ RowsInv

LEMMA RestInit == Init => RestInv
<1> SUFFICES ASSUME Init PROVE RestInv
  OBVIOUS
<1>1. \A o \in Oids : journal[o] = 0 /\ booked[o] = 0
  BY DEF Init
<1>2. RowsInv
  BY <1>1, Constants DEF RowsInv
<1>3. StreamTyped
  BY DEF Init, StreamTyped
<1>4. pc \in {"postFill", "fetch"} /\ execs = {}
  BY DEF Init
<1>5. LocalsTyped
  <2>1. open = TRUE /\ queue = "none" /\ snapshot = Unknown
    BY DEF Init
  <2>2. touched = FALSE /\ absent = 0 /\ cooldown = FALSE
    BY DEF Init
  <2>3. execs \subseteq Oids \X Qtys
    BY <1>4
  <2>4. snapshot \in 0 .. MaxQty \cup {Unknown} /\ absent \in 0 .. 1
    BY <2>1, <2>2
  <2> QED  BY <1>4, <2>1, <2>2, <2>3, <2>4 DEF LocalsTyped
<1> QED  BY <1>2, <1>3, <1>5 DEF RestInv

LEMMA LocalsStep == TypeInv /\ Sales /\ LocalsTyped /\ [Next]_vars => LocalsTyped'
<1> SUFFICES ASSUME TypeInv, Sales, LocalsTyped, [Next]_vars PROVE LocalsTyped'
  OBVIOUS
<1>1. CASE \E o \in Oids, n \in Qtys : Execute(o, n)
  BY <1>1 DEF Execute, LocalsTyped, monitor, manager, bridge, cycle
<1>2. CASE OnTradeUpdate
  <2>1. \A i \in DOMAIN stream : <<stream[i].oid, stream[i].cum>> \in Oids \X Qtys
    <3> SUFFICES ASSUME NEW i \in DOMAIN stream
                 PROVE  <<stream[i].oid, stream[i].cum>> \in Oids \X Qtys
      OBVIOUS
    <3>1. stream[i] \in Report
      BY DEF TypeInv
    <3> QED  BY <3>1 DEF Report
  <2>2. execs' \subseteq Oids \X Qtys
    BY <1>2, <2>1 DEF OnTradeUpdate, TrancheFill, TrancheFillTooLate, Ignore, ExitFill, LocalsTyped,
                      bridge
  <2>3. open' \in BOOLEAN /\ queue' \in {"none", "fills", "closed"}
    BY <1>2 DEF OnTradeUpdate, TrancheFill, TrancheFillTooLate, Ignore, ExitFill, LocalsTyped,
                CountTranche, Enqueue, manager
  <2> QED
    BY <1>2, <2>2, <2>3 DEF OnTradeUpdate, TrancheFill, TrancheFillTooLate, Ignore, ExitFill,
                            LocalsTyped, cycle
<1>3. CASE Cycle
  <2>1. shares \in 0 .. MaxQty
    BY SharesAreNats
  <2>2. CASE Register \/ SkipDrain
    BY <2>2 DEF Register, SkipDrain, LocalsTyped, manager, bridge
  <2>3. CASE \E answer \in 0 .. MaxQty \cup {Unknown} : Fetch(answer)
    BY <2>1, <2>3 DEF Fetch, LocalsTyped, manager, bridge
  <2>4. CASE NoMoreTakes \/ StopOutClose \/ StopOutCancel
    <3>1. open' \in BOOLEAN /\ pc' \in {"fetch", "takes", "closing"}
      BY <2>4 DEF NoMoreTakes, StopOutClose, StopOutCancel, manager, LocalsTyped
    <3>2. UNCHANGED <<execs, queue, snapshot, touched, absent, cooldown>>
      BY <2>4 DEF NoMoreTakes, StopOutClose, StopOutCancel, bridge
    <3> QED  BY <3>1, <3>2 DEF LocalsTyped
  <2>5. CASE StopOutScan \/ ScanClear
    <3>1. pc' \in {"stopOut", "takes"} /\ cooldown' \in BOOLEAN
      BY <2>5 DEF StopOutScan, ScanClear, LocalsTyped
    <3>2. UNCHANGED <<execs, queue, snapshot, touched, open>>
      BY <2>5 DEF StopOutScan, ScanClear, manager, bridge
    <3>3. absent' \in {0, absent} \/ (absent' = absent + 1 /\ ~(absent + 1 >= 2))
      BY <2>5 DEF StopOutScan, ScanClear
    <3>4. absent' \in 0 .. 1
      BY <3>3 DEF LocalsTyped
    <3> QED  BY <3>1, <3>2, <3>4 DEF LocalsTyped
  <2>6. CASE Drain
    <3>1. open' \in BOOLEAN
      BY <2>6 DEF Drain, CountTranche, LocalsTyped
    <3>2. touched' \in BOOLEAN /\ cooldown' \in BOOLEAN
      BY <2>6 DEF Drain, LocalsTyped, SyncHits
    <3> QED  BY <2>6, <3>1, <3>2 DEF Drain, LocalsTyped, bridge
  <2> QED  BY <1>3, <2>2, <2>3, <2>4, <2>5, <2>6 DEF Cycle
<1>4. CASE Takes
  <2>1. CASE \E o \in Oids, q \in Qtys, by \in Takers, all \in BOOLEAN : TakeSell(o, q, by, all)
    BY <2>1 DEF TakeSell, LocalsTyped, bridge
  <2>2. CASE TakeBook
    <3>1. open' \in BOOLEAN
      BY <2>2 DEF TakeBook, LocalsTyped
    <3>2. UNCHANGED <<execs, queue, snapshot, touched, absent, cooldown>> /\ pc' = "fetch"
      BY <2>2 DEF TakeBook
    <3> QED  BY <3>1, <3>2 DEF LocalsTyped
  <2>3. CASE \E live \in BOOLEAN : TakeForfeit(live)
    BY <2>3 DEF TakeForfeit, LocalsTyped, manager, bridge
  <2> QED  BY <1>4, <2>1, <2>2, <2>3 DEF Takes
<1>5. CASE ExchangeStop \/ UNCHANGED vars
  BY <1>5 DEF ExchangeStop, vars, LocalsTyped, manager, bridge, cycle
<1> QED  BY <1>1, <1>2, <1>3, <1>4, <1>5 DEF Next

LEMMA StreamStep ==
    ASSUME TypeInv, LedgerInv, Sales', StreamTyped, [Next]_vars
    PROVE  StreamTyped'
<1>1. ASSUME NEW o \in Oids, NEW n \in Qtys, Execute(o, n)
      PROVE  StreamTyped'
  <2>1. orders[o].filled + n \in Qtys
    BY <1>1, ExecutedTable DEF Execute, TypeInv
  <2>2. shares - n \in 0 .. MaxQty
    <3>1. Sales => shares \in 0 .. MaxQty
      BY SharesAreNats
    <3>2. shares' \in 0 .. MaxQty
      <4>1. Held(orders') \in Nat /\ Total(Fills)' \in Nat
        <5>1. Sound(orders')
          BY DEF Sales
        <5>2. PICK f : f = Fills'
          OBVIOUS
        <5>3. \A x \in Oids : f[x] \in Nat
          BY <5>1, <5>2, FillsAreNats, Constants DEF Fills
        <5> QED  BY <5>1, <5>2, <5>3, HeldForOrders, TotalIsNat
      <4> QED  BY <4>1, Constants DEF Sales
    <3> QED  BY <1>1, <3>2 DEF Execute
  <2>3. PICK p : p = [oid |-> o, cum |-> orders[o].filled + n, left |-> shares - n]
    OBVIOUS
  <2>4. p \in FillReport /\ stream' = Append(stream, p) /\ seen' = seen
    BY <1>1, <2>1, <2>2, <2>3 DEF Execute, FillReport
  <2> QED  BY <2>4 DEF StreamTyped
<1>2. CASE OnTradeUpdate
  BY <1>2 DEF OnTradeUpdate, TrancheFill, TrancheFillTooLate, Ignore, ExitFill, Deliver, StreamTyped,
              venue
<1>3. CASE Cycle \/ Takes \/ ExchangeStop \/ UNCHANGED vars
  <2>1. UNCHANGED <<stream, seen>>
    BY <1>3 DEF Cycle, Register, Fetch, Drain, SkipDrain, StopOutScan, ScanClear, StopOutCancel,
                StopOutClose, NoMoreTakes, Takes, TakeSell, TakeBook, TakeForfeit, ExchangeStop,
                vars, venue
  <2> QED  BY <2>1 DEF StreamTyped
<1> QED  BY <1>1, <1>2, <1>3 DEF Next

LEMMA SameRows ==
    ASSUME TypeInv, RowsInv, UNCHANGED <<journal, booked>>, \A o \in Oids : Reports(o) => Reports(o)'
    PROVE  RowsInv'
<1>1. \A o \in Oids : journal[o] \in Int /\ booked[o] \in Int
  BY Constants DEF TypeInv
<1> QED  BY <1>1, Constants DEF RowsInv

LEMMA RowsStep ==
    ASSUME Shortable = FALSE, TypeInv, LedgerInv, RowsInv, [Next]_vars
    PROVE  RowsInv'
<1>1. ASSUME NEW o \in Oids, NEW n \in Qtys, Execute(o, n)
      PROVE  RowsInv'
  <2>1. UNCHANGED <<journal, booked, processed, take>>
    BY <1>1 DEF Execute, monitor, bridge, cycle
  <2>2. \A x \in Oids : orders'[x].kind = orders[x].kind
    BY <1>1, ExecuteStep
  <2> QED  BY <2>1, <2>2, SameRows DEF Reports
<1>2. ASSUME NEW i, ExitFill(i)
      PROVE  RowsInv'
  <2>1. PICK e, o : e = stream[i] /\ o = e.oid
    OBVIOUS
  <2>2. /\ o \in Oids /\ e.cum \in 0 .. MaxQty
        /\ booked' = [booked EXCEPT ![o] = e.cum]
        /\ journal' = [journal EXCEPT ![o] = @ + (e.cum - booked[o])]
    BY <1>2, <2>1, ExitFillBooks
  <2>3. e.cum > booked[o]
    <3>1. ~Skipped(e) /\ booked[o] \in Int /\ e.cum \in Int
      BY <1>2, <2>1, <2>2, Constants DEF ExitFill, TypeInv
    <3> QED  BY <2>1, <3>1 DEF Skipped
  <2>4. UNCHANGED <<orders, processed, take>>
    BY <1>2 DEF ExitFill, venue, monitor, cycle
  <2>5. \A x \in Oids : /\ journal[x] \in Int /\ booked[x] \in 0 .. MaxQty
                        /\ journal'[x] = IF x = o THEN journal[o] + (e.cum - booked[o]) ELSE journal[x]
                        /\ booked'[x] = IF x = o THEN e.cum ELSE booked[x]
    BY <2>2 DEF TypeInv
  <2>6. \A x \in Oids : Reports(x)' = Reports(x)
    BY <2>4 DEF Reports
  <2>7. ASSUME NEW x \in Oids
        PROVE  /\ journal'[x] >= 0
               /\ journal'[x] <= booked'[x] + (IF Reports(x)' THEN MaxQty ELSE 0)
    <3>1. CASE x = o
      <4>1. journal'[x] = journal[o] + (e.cum - booked[o]) /\ booked'[x] = e.cum
        BY <2>5, <3>1
      <4>2. /\ journal[o] >= 0 /\ journal[o] <= booked[o] + (IF Reports(o) THEN MaxQty ELSE 0)
            /\ journal[o] \in Int /\ booked[o] \in Int /\ e.cum \in Int
        BY <2>2, <2>5, Constants DEF RowsInv
      <4> QED  BY <2>3, <2>6, <3>1, <4>1, <4>2, Constants
    <3>2. CASE x # o
      BY <2>5, <2>6, <3>2 DEF RowsInv
    <3> QED  BY <3>1, <3>2
  <2> QED  BY <2>7 DEF RowsInv
<1>3. CASE OnTradeUpdate /\ ~(\E i \in DOMAIN stream : ExitFill(i))
  <2>1. UNCHANGED <<journal, booked, orders, take>> /\ processed \subseteq processed'
    BY <1>3 DEF OnTradeUpdate, TrancheFill, TrancheFillTooLate, Ignore, CountTranche, venue, monitor,
                bridge, cycle
  <2> QED  BY <2>1, SameRows DEF Reports
<1>4. CASE Cycle
  <2>1. UNCHANGED <<journal, booked, take>> /\ processed \subseteq processed'
    BY <1>4 DEF Cycle, Register, Fetch, Drain, SkipDrain, StopOutScan, ScanClear, StopOutCancel,
                StopOutClose, NoMoreTakes, CountTranche, monitor, bridge
  <2>2. Kept(orders, orders', {})
    BY <1>4, QuietOrders DEF Quiet
  <2> QED  BY <2>1, <2>2, SameRows DEF Reports, Kept
<1>5. CASE TakeBook
  <2>1. PICK o, n : o = take.oid /\ n = orders[o].filled
    OBVIOUS
  <2>2. /\ UNCHANGED <<booked, processed>> /\ take'.oid \notin Oids /\ pc = "taking" /\ o \in Oids
        /\ journal' \in {journal, [journal EXCEPT ![o] = @ + n]}
    BY <1>5, <2>1, FillBookingAssumption DEF TakeBook, NoTake, TypeInv
  <2>3. Kept(orders, orders', {})
    BY <1>5, QuietOrders DEF Quiet
  <2>4. /\ n \in 0 .. MaxQty /\ orders[o].kind = "market" /\ ~(o \in processed)
    BY <2>1, <2>2 DEF LedgerInv, Roles, TypeInv, Table, Order
  <2>5. ~Reports(o) /\ Reports(o)' /\ \A x \in Oids : Reports(x) => Reports(x)'
    BY <2>1, <2>2, <2>3, <2>4 DEF Reports, Kept
  <2>6. \A x \in Oids : /\ journal[x] \in Int /\ booked[x] \in 0 .. MaxQty
                        /\ journal'[x] \in {journal[x], IF x = o THEN journal[o] + n ELSE journal[x]}
    BY <2>2 DEF TypeInv
  <2>7. ASSUME NEW x \in Oids
        PROVE  /\ journal'[x] >= 0
               /\ journal'[x] <= booked[x] + (IF Reports(x)' THEN MaxQty ELSE 0)
    <3>1. CASE x = o
      <4>1. journal'[x] \in {journal[o], journal[o] + n}
        BY <2>6, <3>1
      <4>2. journal[o] >= 0 /\ journal[o] <= booked[o] /\ journal[o] \in Int /\ booked[o] \in Int
        BY <2>2, <2>5, <2>6, Constants DEF RowsInv
      <4> QED  BY <2>4, <2>5, <3>1, <4>1, <4>2, Constants
    <3>2. CASE x # o
      <4>1. journal'[x] = journal[x] /\ journal[x] \in Int /\ booked[x] \in Int
        BY <2>6, <3>2, Constants
      <4> QED  BY <2>5, <4>1, Constants DEF RowsInv
    <3> QED  BY <3>1, <3>2
  <2> QED  BY <2>2, <2>7 DEF RowsInv
<1>6. ASSUME NEW live \in BOOLEAN, TakeForfeit(live)
      PROVE  RowsInv'
  <2>1. UNCHANGED <<journal, booked, processed>> /\ take'.oid \notin Oids
    BY <1>6, FillBookingAssumption DEF TakeForfeit, NoTake, monitor, bridge
  <2>2. Kept(orders, orders', {})
    BY <1>6, QuietOrders DEF Quiet
  <2> QED  BY <2>1, <2>2, SameRows DEF Reports, Kept
<1>7. ASSUME NEW o \in Oids, NEW q \in Qtys, NEW by \in Takers, NEW all \in BOOLEAN,
             TakeSell(o, q, by, all)
      PROVE  RowsInv'
  <2>1. /\ Kept(orders, orders', {o}) /\ orders[o].status = "unused"
    BY <1>7, TakeSellLedger
  <2>2. UNCHANGED <<journal, booked, processed>> /\ take'.oid = o
    BY <1>7 DEF TakeSell, monitor, bridge
  <2>3. ~Reports(o)
    BY <2>1 DEF LedgerInv, Roles, TypeInv, Reports
  <2> QED  BY <2>1, <2>2, <2>3, SameRows DEF Reports, Kept
<1>8. CASE ExchangeStop
  <2>1. UNCHANGED <<journal, booked, processed, take>>
    BY <1>8 DEF ExchangeStop, monitor, bridge, cycle
  <2>2. \E n \in Oids : (Kept(orders, orders', {n}) /\ ~Reports(n)) \/ Kept(orders, orders', {})
    <3>1. CASE Kept(orders, orders', {})
      BY <3>1, Constants
    <3>2. CASE \E n \in Oids : Kept(orders, orders', {n}) /\ orders[n].status = "unused"
      BY <3>2 DEF LedgerInv, Roles, TypeInv, Reports
    <3> QED  BY <1>8, <3>1, <3>2, ExchangeLedger
  <2> QED  BY <2>1, <2>2, SameRows DEF Reports, Kept
<1>9. CASE UNCHANGED vars
  BY <1>9, SameRows DEF Reports, vars, venue, monitor, bridge, cycle
<1> QED
  BY <1>1, <1>2, <1>3, <1>4, <1>5, <1>6, <1>7, <1>8, <1>9 DEF Next, OnTradeUpdate, Takes

(***************************************************************************)
(* The ladder's tranche orders never grow, so what is credited ahead is no *)
(* more than the entry bought.                                             *)
(***************************************************************************)

Sizes == [o \in Oids |-> IF o \in Tranches THEN orders[o].qty ELSE 0]

LadderInv == Total(Sizes) <= MaxQty

LEMMA LadderInit == Init => LadderInv
<1> SUFFICES ASSUME Init PROVE LadderInv
  OBVIOUS
<1>1. Sound(orders) /\ Held(orders) <= MaxQty
  BY LedgerInit DEF LedgerInv, Sales, Init
<1>2. \A o \in Tranches : orders[o].status = "open" /\ orders[o].filled = 0
  <2>1. PICK qty \in [Tranches \cup {Stop} -> Qtys] :
          orders = [o \in Oids |->
                CASE o = Stop -> Sell("stop", qty[o])
                  [] o \in Tranches -> Sell("limit", qty[o])
                  [] OTHER -> Blank]
    BY DEF Init
  <2>2. ASSUME NEW o \in Tranches
        PROVE  orders[o] = Sell("limit", qty[o]) /\ qty[o] \in Qtys
    <3>1. o # Stop /\ o \in Oids
      BY Constants, FillBookingAssumption
    <3> QED  BY <2>1, <3>1
  <2> QED  BY <2>2, SellIsOrder DEF Kinds
<1>3. PICK v, w : v = Sizes /\ w = Reserves(orders)
  OBVIOUS
<1>4. ASSUME NEW o \in Oids
      PROVE  v[o] \in Nat /\ w[o] \in Nat /\ v[o] <= w[o]
  <2>1. w[o] \in Nat /\ w[o] = Reserved(orders[o])
    BY <1>1, <1>3, HeldIsSum
  <2>2. CASE o \in Tranches
    <3>1. orders[o].qty \in 1 .. MaxQty /\ v[o] = orders[o].qty
      BY <1>1, <1>3, <2>2 DEF Sizes, Sound, Order, Qtys
    <3> QED  BY <1>2, <2>1, <2>2, <3>1, Constants DEF Reserved, Unfilled
  <2>3. CASE o \notin Tranches
    BY <1>3, <2>1, <2>3 DEF Sizes
  <2> QED  BY <2>2, <2>3
<1>5. Total(v) <= Total(w)
  BY <1>4, TotalGrows
<1>6. Total(w) = Held(orders)
  BY <1>1, <1>3, HeldIsSum DEF Total
<1> QED  BY <1>1, <1>3, <1>4, <1>5, <1>6, TotalIsNat, HeldForOrders, Constants DEF LadderInv

LEMMA LadderStep ==
    Shortable = FALSE /\ TypeInv /\ LedgerInv /\ LadderInv /\ [Next]_vars => LadderInv'
<1> SUFFICES ASSUME Shortable = FALSE, TypeInv, LedgerInv, LadderInv, [Next]_vars
             PROVE  LadderInv'
  OBVIOUS
<1>a. ASSUME NEW n, Kept(orders, orders', {n}), n \in Oids => orders[n].status = "unused"
      PROVE  \A o \in Tranches : orders'[o].qty = orders[o].qty
  BY <1>a, Constants DEF Kept, LedgerInv, Roles
<1>b. ASSUME Kept(orders, orders', {})
      PROVE  \A o \in Tranches : orders'[o].qty = orders[o].qty
  BY <1>b, Constants DEF Kept
<1>1. \A o \in Tranches : orders'[o].qty = orders[o].qty
  <2>1. CASE Quiet
    BY <1>b, <2>1, QuietOrders
  <2>2. CASE \E o \in Oids, n \in Qtys : Execute(o, n)
    BY <2>2, ExecuteStep, Constants
  <2>3. CASE \E o \in Oids, q \in Qtys, by \in Takers, all \in BOOLEAN : TakeSell(o, q, by, all)
    BY <1>a, <2>3, TakeSellLedger
  <2>4. CASE ExchangeStop
    BY <1>a, <1>b, <2>4, ExchangeLedger
  <2> QED  BY <2>1, <2>2, <2>3, <2>4 DEF Next, Takes, Quiet
<1>2. PICK v, w : v = Sizes /\ w = Sizes'
  OBVIOUS
<1>3. \A o \in Oids : v[o] \in Nat /\ v[o] = w[o]
  <2>1. \A o \in Oids : orders[o].qty \in Nat
    BY BookTyped, Constants
  <2> QED  BY <1>1, <1>2, <2>1 DEF Sizes
<1>4. Total(v) = Total(w)
  BY <1>3, TotalIsEqual
<1> QED  BY <1>2, <1>4 DEF LadderInv

LEMMA AheadFits == TypeInv /\ LedgerInv /\ LadderInv => Ahead <= MaxQty
<1> SUFFICES ASSUME TypeInv, LedgerInv, LadderInv PROVE Ahead <= MaxQty
  OBVIOUS
<1>1. PICK v, w : v = AheadOf /\ w = Sizes
  OBVIOUS
<1>2. ASSUME NEW o \in Oids
      PROVE  v[o] \in Nat /\ w[o] \in Nat /\ v[o] <= w[o]
  <2>1. /\ orders[o].filled \in 0 .. MaxQty /\ orders[o].qty \in 1 .. MaxQty /\ v[o] \in Nat
    BY <1>1, BookTyped
  <2>2. /\ v[o] = IF o \in processed THEN orders[o].qty - orders[o].filled ELSE 0
        /\ w[o] = IF o \in Tranches THEN orders[o].qty ELSE 0
        /\ o \in processed => o \in Tranches
    BY <1>1 DEF AheadOf, Sizes, Unfilled, TypeInv
  <2> QED  BY <2>1, <2>2, Constants
<1>3. Total(v) <= Total(w) /\ Total(v) \in Nat /\ Total(w) \in Nat
  BY <1>2, TotalGrows, TotalIsNat
<1>4. Ahead = Total(v) /\ Total(w) <= MaxQty
  BY <1>1, AheadIsTotal DEF LadderInv
<1> QED  BY <1>3, <1>4, Constants

(* If the symbol is not shortable, the types of the ledger, for any        *)
(* ladder, any takers, any number of prints and a tranche sync in every    *)
(* cycle: shares are never negative, the daily P&L stays below twice what  *)
(* was bought, the tracker counts no more tranches than the ladder has, an *)
(* absence is confirmed at the second, no order has more than two rows of  *)
(* the largest order in the journal (main.py, fill_stream_bridge.py,       *)
(* tranche_monitor.py).                                                    *)
THEOREM LedgerTypes == Shortable = FALSE /\ Spec => []TypeOK
<1> SUFFICES ASSUME Shortable = FALSE PROVE Spec => []TypeOK
  OBVIOUS
<1>1. TypeInv /\ LedgerInv /\ BookInv /\ CountedInv /\ RestInv /\ LadderInv => TypeOK
  <2> SUFFICES ASSUME TypeInv, LedgerInv, BookInv, CountedInv, RestInv, LadderInv PROVE TypeOK
    OBVIOUS
  <2>1. orders \in [Oids -> Order] /\ shares \in 0 .. MaxQty
    BY SharesAreNats DEF TypeInv, Table, LedgerInv
  <2>2. counted \in 0 .. Len(Ladder)
    <3>1. Cardinality(processed) \in Nat /\ Cardinality(processed) <= Len(Ladder)
      BY ProcessedFits DEF TypeInv
    <3> QED  BY <3>1, Constants DEF CountedInv
  <2>3. realized \in 0 .. 2 * MaxQty
    <3>1. /\ Total(Counts) \in Nat /\ shares \in Nat /\ Total(Counts) <= MaxQty - shares + Ahead
          /\ Ahead \in Nat /\ Ahead <= MaxQty
      BY BookTotals, AheadFits
    <3> QED  BY <3>1, Constants DEF BookInv, StoppedOut
  <2>4. {stopOid, tracked} \subseteq Oids \cup {NoOid}
    BY DEF LedgerInv, Roles
  <2>5. journal \in [Oids -> 0 .. 2 * MaxQty]
    <3>1. \A o \in Oids : journal[o] \in Int /\ booked[o] \in 0 .. MaxQty
      BY DEF TypeInv
    <3>2. \A o \in Oids : journal[o] \in 0 .. 2 * MaxQty
      BY <3>1, Constants DEF RestInv, RowsInv
    <3> QED  BY <3>2 DEF TypeInv
  <2> QED
    BY <2>1, <2>2, <2>3, <2>4, <2>5 DEF TypeInv, RestInv, LocalsTyped, StreamTyped, TypeOK
<1>2. TypeInv /\ LedgerInv /\ [Next]_vars => LedgerInv'
  BY LedgerStep
<1>3. TypeInv /\ LedgerInv /\ BookInv /\ Uncounted /\ [Next]_vars => BookInv'
  BY BookStep
<1>4. TypeInv /\ CountedInv /\ Uncounted /\ [Next]_vars => CountedInv'
  BY CountedStep
<1>5. TypeInv /\ LedgerInv /\ LadderInv /\ [Next]_vars => LadderInv'
  BY LadderStep
<1>6. TypeInv /\ LedgerInv /\ RestInv /\ [Next]_vars => RestInv'
  <2> SUFFICES ASSUME TypeInv, LedgerInv, RestInv, [Next]_vars PROVE RestInv'
    OBVIOUS
  <2>1. LocalsTyped' /\ Sales'
    BY LocalsStep, LedgerStep DEF LedgerInv, RestInv
  <2>2. StreamTyped' /\ RowsInv'
    BY <2>1, StreamStep, RowsStep DEF RestInv
  <2> QED  BY <2>1, <2>2 DEF RestInv
<1> QED
  BY <1>1, <1>2, <1>3, <1>4, <1>5, <1>6, TypeInit, TypeStep, LedgerInit, BookInit, UncountedInit,
     UncountedStep, FlatInit, LadderInit, RestInit, PTL
     DEF Spec
=============================================================================
