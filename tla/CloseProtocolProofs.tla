------------------------ MODULE CloseProtocolProofs ------------------------
(***************************************************************************)
(* Proofs about CloseProtocol, for any orders, prices, quantities, numbers *)
(* of attempts and faults.                                                 *)
(***************************************************************************)
EXTENDS CloseProtocol, BrokerProofs

(***************************************************************************)
(* Types.  An attempt is counted before its answer is looked at, and only  *)
(* a counted one is given back by the wait for free shares.                *)
(***************************************************************************)

Counted ==
    /\ pc \in {"lift", "close"} => attempt < MaxAttempts
    /\ pc \in {"blocked", "unblock"} => attempt > 0

TypeInv == TypeOK /\ Counted

LEMMA Constants == MaxAttempts \in Nat \ {0} /\ MaxQty \in Nat \ {0} /\ NoOid \notin Oids
  BY CloseAssumption, BrokerAssumption

LEMMA TypeInit == Init => TypeInv
<1> SUFFICES ASSUME Init PROVE TypeInv
  OBVIOUS
<1>1. shares \in Qtys /\ size = shares
  BY DEF Init
<1>2. orders \in [Oids -> Order] /\ tracked \in Oids \cup {NoOid}
  <2>1. PICK s, l \in Oids, held \in Qtys, ladder, stop \in BOOLEAN :
          /\ IF ladder THEN held < size ELSE held = size
          /\ orders = [o \in Oids |->
               CASE o = s /\ stop -> Sell("stop", held)
                 [] o = l /\ ladder -> Sell("limit", size - held)
                 [] OTHER -> Blank]
          /\ tracked = IF stop THEN s ELSE NoOid
    BY DEF Init
  <2>2. Sell("stop", held) \in Order /\ Blank \in Order
    BY SellIsOrder, BlankIsOrder DEF Kinds
  <2>3. ladder => Sell("limit", size - held) \in Order
    <3>1. ladder => size - held \in Qtys
      BY <1>1, <2>1, Constants DEF Qtys
    <3> QED  BY <3>1, SellIsOrder DEF Kinds
  <2>4. ASSUME NEW o \in Oids
        PROVE  orders[o] \in Order
    BY <2>1, <2>2, <2>3
  <2> QED  BY <2>1, <2>4
<1>3. qty \in Qtys
  BY <1>1, Constants DEF Init, Qtys
<1>4. NoView \in View
  BY Constants DEF NoView, View, Statuses
<1>5. shares \in 0 .. MaxQty /\ 0 \in 0 .. MaxAttempts /\ 0 \in 0 .. MaxQty /\ 0 < MaxAttempts
  BY <1>1, Constants DEF Qtys
<1> QED  BY <1>1, <1>2, <1>3, <1>4, <1>5 DEF Init, TypeInv, TypeOK, Counted, Pcs

LEMMA LookIsView ==
    ASSUME TypeOK, NEW o
    PROVE  Look(o) \in View
<1>1. o \in Oids => orders[o].status \in Statuses /\ orders[o].filled \in 0 .. MaxQty
  BY DEF TypeOK, Order
<1>2. NoView \in View
  BY Constants DEF NoView, View, Statuses
<1> QED  BY <1>1, <1>2 DEF Look, View

LEMMA DeleteTyped ==
    ASSUME TypeOK, NEW o, Delete(o)
    PROVE  orders' \in [Oids -> Order]
<1>1. \A x \in Oids : CancelRequested(orders[x]) \in Order
  BY ChangedIsOrder DEF TypeOK
<1> QED  BY <1>1 DEF TypeOK, Delete

\* An order is placed on an id that was not handed out.
LEMMA PlacedTyped ==
    ASSUME TypeOK, NEW n \in Unused(orders), NEW k \in Kinds, NEW q \in Qtys
    PROVE  [orders EXCEPT ![n] = Sell(k, q)] \in [Oids -> Order] /\ n \in Oids
<1>1. n \in Oids /\ Sell(k, q) \in Order
  BY SellIsOrder DEF TypeOK, Unused
<1> QED  BY <1>1 DEF TypeOK

LEMMA RetryTyped ==
    ASSUME attempt \in 0 .. MaxAttempts, Retry
    PROVE  pc' \in Pcs /\ (pc' = "close" => attempt < MaxAttempts) /\ pc' \in {"close", "escalate"}
  BY DEF Retry, Pcs

LEMMA SucceedTyped ==
    ASSUME NEW n, Succeed(n)
    PROVE  /\ pc' \in {"restore", "done"} /\ outcome' = "succeeded" /\ booked' = n
           /\ incident' = incident
  BY DEF Succeed

\* The steps of the routine keep what a conjunct of TypeInv says, once the new values of
\* the variables they change have their types.
LEMMA TypedLocals ==
    ASSUME TypeInv, UNCHANGED call, orders' \in [Oids -> Order], shares' \in 0 .. MaxQty,
           pc' \in Pcs, attempt' \in 0 .. MaxAttempts, mine' \in Oids \cup {NoOid},
           view' \in View, lifted' \subseteq Oids, todo' \subseteq Oids,
           {waited', missed'} \subseteq BOOLEAN,
           outcome' \in {"none", "succeeded", "failed"}, booked' \in 0 .. MaxQty,
           incident' \in BOOLEAN, Counted'
    PROVE  TypeInv'
  BY DEF TypeInv, TypeOK, call

LEMMA TypeStep == TypeInv /\ [Next]_vars => TypeInv'
<1> SUFFICES ASSUME TypeInv, [Next]_vars PROVE TypeInv'
  OBVIOUS
<1>0. TypeOK /\ Counted
  BY DEF TypeInv
<1>a. /\ orders \in [Oids -> Order] /\ shares \in 0 .. MaxQty /\ pc \in Pcs
      /\ attempt \in 0 .. MaxAttempts /\ mine \in Oids \cup {NoOid} /\ view \in View
      /\ lifted \subseteq Oids /\ todo \subseteq Oids /\ {waited, missed} \subseteq BOOLEAN
      /\ outcome \in {"none", "succeeded", "failed"} /\ booked \in 0 .. MaxQty
      /\ incident \in BOOLEAN /\ view.filled \in 0 .. MaxQty
      /\ qty \in Qtys /\ size \in Qtys /\ tracked \in Oids \cup {NoOid}
  BY <1>0 DEF TypeOK, View
<1>1. CASE Lift
  BY <1>0, <1>a, <1>1, DeleteTyped, TypedLocals DEF Lift, Counted, Pcs, sale, dance, verdict
<1>2. CASE CloseAccepted
  <2>1. Amount \in Qtys
    BY <1>2, <1>a, Constants DEF CloseAccepted, Amount, Qtys
  <2>2. PICK o \in Unused(orders) :
          /\ orders' = [orders EXCEPT ![o] = Sell("market", Amount)]
          /\ mine' \in {o, NoOid} /\ pc' \in {"sent", "refused"}
    BY <1>2 DEF CloseAccepted
  <2>3. orders' \in [Oids -> Order] /\ o \in Oids
    BY <1>0, <2>1, <2>2, PlacedTyped DEF Kinds
  <2>4. attempt' \in 0 .. MaxAttempts
    BY <1>0, <1>2, <1>a, Constants DEF CloseAccepted, Counted
  <2>5. view' \in View
    BY <1>2, Constants DEF CloseAccepted, NoView, View, Statuses
  <2> QED
    BY <1>2, <1>a, <2>2, <2>3, <2>4, <2>5, TypedLocals
       DEF CloseAccepted, Counted, Pcs, dance, verdict
<1>3. CASE CloseRefused
  <2>1. attempt' \in 0 .. MaxAttempts /\ attempt' > 0 /\ pc' \in {"blocked", "refused"}
    BY <1>0, <1>3, <1>a, Constants DEF CloseRefused, Counted
  <2>2. view' \in View
    BY <1>3, Constants DEF CloseRefused, NoView, View, Statuses
  <2> QED
    BY <1>3, <1>a, <2>1, <2>2, TypedLocals DEF CloseRefused, Counted, Pcs, venue, dance, verdict
<1>4. CASE Refused
  BY <1>4, <1>a, RetryTyped, TypedLocals DEF Refused, Counted, venue, sale, dance, verdict
<1>5. CASE FullAnswered \/ PartialAnswered
  <2>1. view' \in View /\ view'.filled \in 0 .. MaxQty
    BY <1>0, <1>5, LookIsView DEF FullAnswered, PartialAnswered, View
  <2>2. CASE FullAnswered
    BY <1>a, <2>1, <2>2, RetryTyped, TypedLocals
       DEF FullAnswered, Counted, Pcs, venue, dance, verdict
  <2>3. CASE PartialAnswered
    <3>1. CASE Succeed(view'.filled)
      BY <1>a, <2>1, <2>3, <3>1, SucceedTyped, TypedLocals
         DEF PartialAnswered, Counted, Pcs, venue, dance
    <3>2. CASE ~Succeed(view'.filled)
      BY <1>a, <2>1, <2>3, <3>2, TypedLocals
         DEF PartialAnswered, Counted, Pcs, venue, dance, verdict
    <3> QED  BY <3>1, <3>2
  <2> QED  BY <1>5, <2>2, <2>3
<1>6. CASE Confirm \/ Recheck
  <2>1. view' \in View
    BY <1>0, <1>6, <1>a, LookIsView, Constants DEF Confirm, Recheck, Poll, NoView, View, Statuses
  <2> QED
    BY <1>6, <1>a, <2>1, TypedLocals
       DEF Confirm, Recheck, Poll, Counted, Pcs, venue, dance, verdict
<1>7. CASE Decide \/ Conclude
  <2>1. CASE Succeed(view.filled)
    BY <1>7, <1>a, <2>1, SucceedTyped, TypedLocals
       DEF Decide, Conclude, Counted, Pcs, venue, sale, dance
  <2>2. CASE UNCHANGED verdict /\ (Retry \/ pc' \in {"withdraw", "escalate"})
    BY <1>7, <1>a, <2>2, RetryTyped, TypedLocals
       DEF Decide, Conclude, Counted, Pcs, venue, sale, dance, verdict
  <2> QED  BY <1>7, <2>1, <2>2 DEF Decide, Conclude
<1>8. CASE Withdraw
  BY <1>0, <1>8, <1>a, DeleteTyped, TypedLocals DEF Withdraw, Counted, Pcs, sale, dance, verdict
<1>9. CASE Enumerate
  <2>1. lifted' \subseteq Oids /\ todo' = lifted'
    BY <1>9, <1>a DEF Enumerate, Working
  <2> QED
    BY <1>0, <1>9, <1>a, <2>1, TypedLocals DEF Enumerate, Counted, Pcs, venue, sale, verdict
<1>10. ASSUME NEW o \in Oids, Unblock(o)
       PROVE  TypeInv'
  BY <1>0, <1>10, <1>a, DeleteTyped, TypedLocals DEF Unblock, Counted, sale, verdict
<1>11. CASE Unblocked
  <2>1. attempt' \in 0 .. MaxAttempts /\ attempt' < MaxAttempts
    BY <1>0, <1>11, <1>a, Constants DEF Unblocked, Counted
  <2> QED
    BY <1>11, <1>a, <2>1, TypedLocals DEF Unblocked, Counted, Pcs, venue, sale, verdict
<1>12. CASE Escalate
  BY <1>12, <1>a, TypedLocals DEF Escalate, Fail, Counted, Pcs, venue, sale
<1>13. ASSUME NEW o \in Oids, Rearm(o)
       PROVE  TypeInv'
  <2>1. orders[o].qty \in Qtys
    BY <1>a DEF Order
  <2>2. orders' \in [Oids -> Order]
    BY <1>0, <1>13, <1>a, <2>1, PlacedTyped DEF Rearm, Kinds
  <2> QED
    BY <1>0, <1>13, <1>a, <2>2, TypedLocals DEF Rearm, Counted, sale, verdict
<1>14. CASE Rearmed
  BY <1>14, <1>a, TypedLocals DEF Rearmed, Fail, Counted, Pcs, venue, sale, dance
<1>15. CASE Restore
  <2>1. orders' \in [Oids -> Order]
    <3>1. CASE UNCHANGED orders
      BY <1>a, <3>1
    <3>2. CASE booked < size /\ tracked # NoOid /\ orders' # orders
      <4> DEFINE table == [orders EXCEPT ![tracked] = Settled(orders[tracked])]
      <4>1. tracked \in Oids /\ Settled(orders[tracked]) \in Order
        BY <1>a, <3>2, ChangedIsOrder
      <4>2. table \in [Oids -> Order]
        BY <1>a, <4>1
      <4>3. size - booked \in Qtys
        BY <1>a, <3>2, Constants DEF Qtys
      <4>4. Sell("stop", size - booked) \in Order
        BY <4>3, SellIsOrder DEF Kinds
      <4>5. \/ orders' = table
            \/ \E n \in Unused(table) : orders' = [table EXCEPT ![n] = Sell("stop", size - booked)]
        BY <1>15, <3>2 DEF Restore
      <4> HIDE DEF table
      <4> QED  BY <4>2, <4>4, <4>5 DEF Unused
    <3> QED  BY <1>15, <3>1, <3>2 DEF Restore
  <2>2. incident' \in BOOLEAN
    BY <1>15, <1>a DEF Restore
  <2> QED
    BY <1>15, <1>a, <2>1, <2>2, TypedLocals DEF Restore, Counted, Pcs, sale, dance
<1>16. ASSUME NEW o \in Oids, NEW n \in Qtys, Execute(o, n)
       PROVE  TypeInv'
  <2>1. Executed(orders[o], n) \in Order
    BY <1>16, <1>a, ChangedIsOrder DEF Execute
  <2>2. orders' \in [Oids -> Order] /\ shares' \in 0 .. MaxQty
    BY <1>16, <1>a, <2>1, Constants DEF Execute, Qtys
  <2> QED
    BY <1>0, <1>16, <1>a, <2>2, TypedLocals DEF Execute, Counted, sale, dance, verdict
<1>17. ASSUME NEW o \in Oids, Die(o)
       PROVE  TypeInv'
  <2>1. orders' \in [Oids -> Order]
    BY <1>17, <1>a, ChangedIsOrder DEF Die
  <2> QED
    BY <1>0, <1>17, <1>a, <2>1, TypedLocals DEF Die, Counted, sale, dance, verdict
<1>18. CASE UNCHANGED vars
  BY <1>0, <1>18, <1>a, TypedLocals DEF vars, venue, call, Counted, sale, dance, verdict
<1> QED
  BY <1>1, <1>2, <1>3, <1>4, <1>5, <1>6, <1>7, <1>8, <1>9, <1>10, <1>11, <1>12, <1>13,
     <1>14, <1>15, <1>16, <1>17, <1>18 DEF Next, Routine

(* The call's locals and the venue keep their types: no attempt is counted *)
(* beyond the limit or below zero, and no order executes beyond its        *)
(* quantity.                                                               *)
THEOREM TypeCorrect == Spec => []TypeOK
<1>1. TypeInv => TypeOK
  BY DEF TypeInv
<1> QED  BY <1>1, TypeInit, TypeStep, PTL DEF Spec

(***************************************************************************)
(* Protection.  Until the sell orders are lifted every stop of the         *)
(* position stands: only the sale itself is withdrawn.  Once they are, the *)
(* loop that puts them back has something left to do, or it has put a stop *)
(* back, or it has missed one.                                             *)
(***************************************************************************)

Guards(o) == orders[o].kind = "stop" /\ orders[o].status \in {"open", "filled"}
Guarded == \E o \in Oids : Guards(o)

OwnSale == mine \in Oids => orders[mine].kind = "market" /\ orders[mine].status # "unused"
Untouched == caller = "other" /\ lifted = {} => \A o \in Stops : Guards(o)
Rearming == pc = "rearm" => lifted # {} /\ (missed \/ todo = lifted \/ Guarded)
FailedIsSafe ==
    caller = "other" /\ outcome = "failed" => pc = "done" /\ (incident \/ Stops = {} \/ Guarded)

SafeInv ==
    /\ pc \in {"lift", "restore"} => caller = "D165"
    /\ todo \subseteq lifted
    /\ OwnSale /\ Untouched /\ Rearming /\ FailedIsSafe

\* What no step does to an order the venue handed out, and what no step but a cancel
\* does to a stop.
Kept == \A o \in Oids : /\ orders[o].status # "unused" => orders'[o].kind = orders[o].kind
                        /\ orders[o].status # "unused" => orders'[o].status # "unused"
Standing == \A o \in Oids : Guards(o) => Guards(o)'
NoNewStop == Stops' \subseteq Stops

LEMMA SafeInit == Init => SafeInv
<1> SUFFICES ASSUME Init PROVE SafeInv
  OBVIOUS
<1>1. PICK s, l \in Oids, held \in Qtys, ladder, stop \in BOOLEAN :
        /\ IF ladder THEN held < size ELSE held = size
        /\ orders = [o \in Oids |->
             CASE o = s /\ stop -> Sell("stop", held)
               [] o = l /\ ladder -> Sell("limit", size - held)
               [] OTHER -> Blank]
  BY DEF Init
<1>2. /\ Sell("stop", held).status = "open" /\ Sell("stop", held).kind = "stop"
      /\ Blank.kind = "limit"
  BY SellIsOrder, BlankIsOrder DEF Kinds
<1>3. ladder => Sell("limit", size - held).kind = "limit"
  <2>1. ladder => size - held \in Qtys
    BY <1>1, Constants DEF Init, Qtys
  <2> QED  BY <2>1, SellIsOrder DEF Kinds
<1>4. \A o \in Stops : Guards(o)
  BY <1>1, <1>2, <1>3 DEF Stops, Guards
<1> QED
  BY <1>4, Constants
     DEF Init, SafeInv, OwnSale, Untouched, Rearming, FailedIsSafe

LEMMA DeleteKeeps ==
    ASSUME TypeOK, NEW d, Delete(d)
    PROVE  /\ Kept /\ NoNewStop
           /\ (d \in Oids => orders[d].kind = "market") => Standing
<1>1. \A x \in Oids : CancelRequested(orders[x]).kind = orders[x].kind
  BY ChangedFields DEF TypeOK
<1>2. \A x \in Oids : CancelRequested(orders[x]).status
                        = IF orders[x].status = "open" THEN "canceling" ELSE orders[x].status
  BY ChangedFields DEF TypeOK
<1>3. CASE UNCHANGED orders
  BY <1>3 DEF Kept, NoNewStop, Standing, Stops, Guards
<1>4. CASE /\ d \in Oids /\ orders[d].status \in CancelAcks
           /\ orders' = [orders EXCEPT ![d] = CancelRequested(@)]
  <2>1. orders[d].status # "unused"
    BY <1>4, BrokerAssumption
  <2>2. \A x \in Oids : x # d => orders'[x] = orders[x]
    BY <1>4 DEF TypeOK
  <2>3. orders'[d].kind = orders[d].kind /\ orders'[d].status # "unused"
    BY <1>1, <1>2, <1>4, <2>1 DEF TypeOK
  <2> QED
    BY <2>1, <2>2, <2>3 DEF Kept, NoNewStop, Standing, Stops, Guards
<1> QED  BY <1>3, <1>4 DEF Delete

LEMMA ChangeKeeps ==
    ASSUME TypeOK, NEW d \in Oids, NEW r \in Order,
           orders' = [orders EXCEPT ![d] = r], orders[d].status # "unused",
           r.kind = orders[d].kind, r.status # "unused", Guards(d) => r.status \in {"open", "filled"}
    PROVE  Kept /\ NoNewStop /\ Standing
<1>1. \A x \in Oids : orders'[x] = IF x = d THEN r ELSE orders[x]
  BY DEF TypeOK
<1> QED  BY <1>1 DEF Kept, NoNewStop, Standing, Stops, Guards

LEMMA PlacingKeeps ==
    ASSUME TypeOK, NEW n \in Unused(orders), NEW k \in Kinds, NEW q \in Qtys,
           orders' = [orders EXCEPT ![n] = Sell(k, q)]
    PROVE  /\ Kept /\ Standing /\ n \in Oids
           /\ orders'[n].kind = k /\ orders'[n].status = "open"
           /\ k # "stop" => NoNewStop
<1>1. n \in Oids /\ orders[n].status = "unused"
  BY DEF TypeOK, Unused
<1>2. \A x \in Oids : orders'[x] = IF x = n THEN Sell(k, q) ELSE orders[x]
  BY DEF TypeOK
<1>3. Sell(k, q).kind = k /\ Sell(k, q).status = "open"
  BY SellIsOrder
<1> QED  BY <1>1, <1>2, <1>3 DEF Kept, Standing, NoNewStop, Stops, Guards

\* The sale stays the call's own.
LEMMA OwnSaleKept ==
    ASSUME TypeOK, OwnSale, Kept, mine' \in {mine, NoOid}
    PROVE  OwnSale'
  BY Constants DEF TypeOK, OwnSale, Kept

LEMMA GuardedKept ==
    ASSUME Guarded, Standing
    PROVE  Guarded'
  BY DEF Guarded, Standing, Guards

\* Steps of the routine before it puts anything back.
LEMMA RoutineStep ==
    ASSUME SafeInv, OwnSale', Untouched', UNCHANGED call, todo' \subseteq lifted',
           pc # "done", pc' \notin {"lift", "rearm"}, pc' = "restore" => caller = "D165",
           outcome' = "failed" => outcome = "failed"
    PROVE  SafeInv'
  BY DEF SafeInv, Rearming, FailedIsSafe, call

LEMMA UntouchedKept ==
    ASSUME Untouched, NoNewStop, Standing, UNCHANGED call, lifted' = {} => lifted = {}
    PROVE  Untouched'
  BY DEF Untouched, NoNewStop, Standing, Stops, Guards, call

LEMMA SameOrders ==
    ASSUME UNCHANGED orders
    PROVE  Kept /\ NoNewStop /\ Standing
  BY DEF Kept, NoNewStop, Standing, Stops, Guards

\* The venue's own steps.
LEMMA VenueStep ==
    ASSUME TypeOK, SafeInv, Kept, NoNewStop, Standing,
           UNCHANGED <<call, pc, attempt, sale, dance, verdict>>
    PROVE  SafeInv'
<1>1. OwnSale'
  BY OwnSaleKept DEF SafeInv, sale
<1>2. Untouched'
  BY UntouchedKept DEF SafeInv, dance
<1>3. Guarded => Guarded'
  BY GuardedKept
<1>4. Stops = {} => Stops' = {}
  BY DEF NoNewStop
<1> QED
  BY <1>1, <1>2, <1>3, <1>4 DEF SafeInv, Rearming, FailedIsSafe, call, dance, verdict

LEMMA SafeStep == TypeInv /\ SafeInv /\ [Next]_vars => SafeInv'
<1> SUFFICES ASSUME TypeInv, SafeInv, [Next]_vars PROVE SafeInv'
  OBVIOUS
<1>0. TypeOK /\ OwnSale /\ Untouched /\ todo \subseteq lifted
  BY DEF TypeInv, SafeInv
<1>1. CASE Lift
  <2>1. caller = "D165" /\ caller' = "D165"
    BY <1>1 DEF Lift, SafeInv, call
  <2>2. OwnSale'
    BY <1>0, <1>1, DeleteKeeps, OwnSaleKept DEF Lift, sale
  <2>3. Untouched'
    BY <2>1 DEF Untouched
  <2> QED
    BY <1>0, <1>1, <2>2, <2>3, RoutineStep DEF Lift, dance, verdict
<1>2. CASE CloseAccepted
  <2>1. Amount \in Qtys
    BY <1>0, <1>2, Constants DEF CloseAccepted, Amount, Qtys, TypeOK
  <2>2. PICK o \in Unused(orders) :
          /\ orders' = [orders EXCEPT ![o] = Sell("market", Amount)]
          /\ mine' \in {o, NoOid} /\ pc' \in {"sent", "refused"}
    BY <1>2 DEF CloseAccepted
  <2>3. /\ Standing /\ NoNewStop
        /\ o \in Oids /\ orders'[o].kind = "market" /\ orders'[o].status = "open"
    BY <1>0, <2>1, <2>2, PlacingKeeps DEF Kinds
  <2>4. OwnSale'
    BY <2>2, <2>3, Constants DEF OwnSale
  <2>5. Untouched'
    BY <1>0, <1>2, <2>3, UntouchedKept DEF CloseAccepted, dance
  <2> QED
    BY <1>0, <1>2, <2>2, <2>4, <2>5, RoutineStep DEF CloseAccepted, dance, verdict
<1>3. ASSUME UNCHANGED orders, UNCHANGED call, mine' \in {mine, NoOid},
             lifted' = {} => lifted = {}, todo' \subseteq lifted',
             pc # "done", pc' \notin {"lift", "rearm"}, pc' = "restore" => caller = "D165",
             outcome' = "failed" => outcome = "failed"
      PROVE  SafeInv'
  BY <1>0, <1>3, SameOrders, OwnSaleKept, UntouchedKept, RoutineStep
<1>4. CASE CloseRefused
  BY <1>0, <1>3, <1>4 DEF CloseRefused, venue, dance, verdict
<1>5. CASE Refused
  BY <1>0, <1>3, <1>5 DEF Refused, Retry, venue, sale, dance, verdict
<1>6. CASE FullAnswered \/ PartialAnswered
  BY <1>0, <1>3, <1>6
     DEF FullAnswered, PartialAnswered, Retry, Succeed, venue, dance, verdict
<1>7. CASE Confirm \/ Recheck
  BY <1>0, <1>3, <1>7 DEF Confirm, Recheck, Poll, venue, dance, verdict
<1>8. CASE Decide \/ Conclude
  BY <1>0, <1>3, <1>8 DEF Decide, Conclude, Retry, Succeed, venue, sale, dance, verdict
<1>9. CASE Withdraw
  <2>1. Kept /\ NoNewStop /\ Standing
    BY <1>0, <1>9, DeleteKeeps DEF Withdraw, OwnSale
  <2>2. OwnSale' /\ Untouched'
    BY <1>0, <1>9, <2>1, OwnSaleKept, UntouchedKept DEF Withdraw, sale, dance
  <2> QED
    BY <1>0, <1>9, <2>2, RoutineStep DEF Withdraw, dance, verdict
<1>10. CASE Enumerate
  BY <1>0, <1>3, <1>10 DEF Enumerate, venue, sale, verdict
<1>11. ASSUME NEW o \in Oids, Unblock(o)
       PROVE  SafeInv'
  <2>1. lifted' # {} /\ todo' \subseteq lifted'
    BY <1>0, <1>11 DEF Unblock
  <2>2. OwnSale'
    BY <1>0, <1>11, DeleteKeeps, OwnSaleKept DEF Unblock, sale
  <2>3. Untouched'
    BY <2>1 DEF Untouched
  <2> QED
    BY <1>11, <2>1, <2>2, <2>3, RoutineStep DEF Unblock, verdict
<1>12. CASE Unblocked
  BY <1>0, <1>3, <1>12 DEF Unblocked, venue, sale, verdict
<1>13. CASE Escalate
  <2>1. Kept /\ NoNewStop /\ Standing /\ (Guarded => Guarded') /\ Stops' = Stops
    BY <1>13, SameOrders DEF Escalate, venue, Guarded, Guards, Stops
  <2>2. OwnSale' /\ Untouched'
    BY <1>0, <1>13, <2>1, OwnSaleKept, UntouchedKept DEF Escalate, sale
  <2>3. CASE lifted # {}
    BY <1>0, <1>13, <2>2, <2>3
       DEF Escalate, SafeInv, Rearming, FailedIsSafe, call
  <2>4. CASE lifted = {}
    <3>1. caller = "other" => Stops' = {} \/ Guarded'
      BY <1>0, <2>1, <2>4 DEF Untouched, Guarded, Stops
    <3> QED
      BY <1>0, <1>13, <2>2, <2>4, <3>1
         DEF Escalate, Fail, SafeInv, Rearming, FailedIsSafe, call
  <2> QED  BY <2>3, <2>4
<1>14. ASSUME NEW o \in Oids, Rearm(o)
       PROVE  SafeInv'
  <2>1. /\ pc = "rearm" /\ pc' = "rearm" /\ lifted' = lifted /\ lifted # {}
        /\ UNCHANGED <<call, sale, verdict>> /\ todo' \subseteq lifted
    BY <1>0, <1>14 DEF Rearm, SafeInv, Rearming
  <2>2. Kept /\ (missed' \/ Guarded')
    <3>1. CASE UNCHANGED orders /\ missed'
      BY <3>1, SameOrders
    <3>2. CASE \E n \in Unused(orders) : orders' = [orders EXCEPT ![n] = Sell("stop", orders[o].qty)]
      <4>1. orders[o].qty \in Qtys
        BY <1>0 DEF TypeOK, Order
      <4>2. PICK n \in Unused(orders) : orders' = [orders EXCEPT ![n] = Sell("stop", orders[o].qty)]
        BY <3>2
      <4>3. Kept /\ n \in Oids /\ orders'[n].kind = "stop" /\ orders'[n].status = "open"
        BY <1>0, <4>1, <4>2, PlacingKeeps DEF Kinds
      <4> QED  BY <4>3 DEF Guarded, Guards
    <3> QED  BY <1>14, <3>1, <3>2 DEF Rearm
  <2>3. OwnSale'
    BY <1>0, <2>1, <2>2, OwnSaleKept DEF sale
  <2> QED
    BY <2>1, <2>2, <2>3
       DEF SafeInv, Untouched, Rearming, FailedIsSafe, call, verdict
<1>15. CASE Rearmed
  <2>1. /\ pc = "rearm" /\ lifted # {} /\ (missed \/ Guarded)
        /\ UNCHANGED <<orders, call, sale, dance>>
    BY <1>15 DEF Rearmed, SafeInv, Rearming, venue
  <2>2. OwnSale' /\ (Guarded => Guarded')
    BY <1>0, <2>1, SameOrders, OwnSaleKept, GuardedKept DEF sale
  <2> QED
    BY <1>0, <1>15, <2>1, <2>2
       DEF Rearmed, Fail, SafeInv, Untouched, Rearming, FailedIsSafe, call, dance
<1>16. CASE Restore
  <2>1. caller = "D165" /\ caller' = "D165" /\ pc' = "done" /\ UNCHANGED <<sale, dance>>
    BY <1>16 DEF Restore, SafeInv, call
  <2>2. Kept
    <3>1. CASE UNCHANGED orders
      BY <3>1, SameOrders
    <3>2. CASE booked < size /\ tracked # NoOid /\ orders[tracked].status \in CancelAcks /\ orders' # orders
      <4> DEFINE table == [orders EXCEPT ![tracked] = Settled(orders[tracked])]
      <4>1. tracked \in Oids /\ orders[tracked].status # "unused"
        BY <1>0, <3>2, BrokerAssumption DEF TypeOK
      <4>2. Settled(orders[tracked]).kind = orders[tracked].kind
            /\ Settled(orders[tracked]).status = "canceled"
        BY <1>0, <4>1, ChangedFields DEF TypeOK
      <4>3. /\ DOMAIN table = Oids
            /\ \A x \in Oids : table[x] = IF x = tracked THEN Settled(orders[tracked]) ELSE orders[x]
        BY <1>0, <4>1 DEF TypeOK
      <4>4. \/ orders' = table
            \/ \E n \in Unused(table) : orders' = [table EXCEPT ![n] = Sell("stop", size - booked)]
        BY <1>16, <3>2 DEF Restore
      <4> HIDE DEF table
      <4>5. \A x \in Oids : orders[x].status # "unused" =>
              table[x].kind = orders[x].kind /\ table[x].status # "unused"
        BY <4>1, <4>2, <4>3
      <4>6. \A x \in Oids : table[x].status # "unused" => orders'[x] = table[x]
        BY <4>3, <4>4 DEF Unused
      <4> QED  BY <4>5, <4>6 DEF Kept
    <3> QED  BY <1>16, <3>1, <3>2 DEF Restore
  <2>3. OwnSale'
    BY <1>0, <2>1, <2>2, OwnSaleKept DEF sale
  <2> QED
    BY <1>0, <2>1, <2>3 DEF SafeInv, Untouched, Rearming, FailedIsSafe, dance
<1>17. ASSUME NEW o \in Oids, NEW n \in Qtys, Execute(o, n)
       PROVE  SafeInv'
  <2>1. /\ orders[o] \in Order /\ orders[o].status \in {"open", "canceling"}
        /\ Executed(orders[o], n) \in Order
    BY <1>0, <1>17, ChangedIsOrder DEF Execute, TypeOK, Working
  <2>2. /\ Executed(orders[o], n).kind = orders[o].kind
        /\ Executed(orders[o], n).status \in {orders[o].status, "filled"}
    BY <2>1, ExecutedFields
  <2>3. Kept /\ NoNewStop /\ Standing
    BY <1>0, <1>17, <2>1, <2>2, ChangeKeeps DEF Execute, Guards
  <2> QED  BY <1>0, <1>17, <2>3, VenueStep DEF Execute
<1>18. ASSUME NEW o \in Oids, Die(o)
       PROVE  SafeInv'
  <2>1. /\ orders[o] \in Order /\ Settled(orders[o]) \in Order
        /\ orders[o].status # "unused" /\ ~Guards(o)
    BY <1>0, <1>18, ChangedIsOrder DEF Die, TypeOK, Guards
  <2>2. Settled(orders[o]).kind = orders[o].kind /\ Settled(orders[o]).status = "canceled"
    BY <2>1, ChangedFields
  <2>3. Kept /\ NoNewStop /\ Standing
    BY <1>0, <1>18, <2>1, <2>2, ChangeKeeps DEF Die
  <2> QED  BY <1>0, <1>18, <2>3, VenueStep DEF Die
<1>19. CASE UNCHANGED vars
  BY <1>0, <1>19, SameOrders, VenueStep DEF vars, venue
<1> QED
  BY <1>1, <1>2, <1>4, <1>5, <1>6, <1>7, <1>8, <1>9, <1>10, <1>11, <1>12, <1>13, <1>14,
     <1>15, <1>16, <1>17, <1>18, <1>19 DEF Next, Routine

(* A call that fails after it lifted the stops puts one back or reports    *)
(* the position, whatever the venue executes or kills meanwhile and        *)
(* whichever request fails (attempt_close_with_status_check).              *)
THEOREM FailedCloseProtects == Spec => []FailedCloseIsProtected
<1>1. SafeInv => FailedCloseIsProtected
  BY DEF SafeInv, FailedIsSafe, FailedCloseIsProtected, Naked, Guarded, Guards, Stops
<1> QED  BY <1>1, TypeInit, TypeStep, SafeInit, SafeStep, PTL DEF Spec

(***************************************************************************)
(* Sales.  No order ever sells more than what it may sell when it is       *)
(* placed, and what it may sell only falls; a canceled one stays as it is. *)
(* In partial mode the call places its next order when what it saw of the  *)
(* last one is final, canceled and unfilled.  An answer that carries no id *)
(* ends the call.  One that is lost does not, so it is assumed away here.  *)
(***************************************************************************)

Later(o, p) ==
    /\ p.kind = o.kind /\ p.status # "unused" /\ o.filled <= p.filled
    /\ MaySell(p) <= MaySell(o)
    /\ o.status = "canceled" => p.status = "canceled" /\ p.filled = o.filled

Onward == \A o \in Oids : orders[o].status # "unused" => Later(orders[o], orders'[o])
NoNewSale == Markets' \subseteq Markets

SoldBy(o) == IF o \in Oids THEN orders[o].filled ELSE 0

BookedInv ==
    /\ Sound(orders)
    /\ view.filled <= SoldBy(mine) /\ booked <= SoldBy(mine)
    /\ pc \notin {"restore", "done"} => booked = 0

LEMMA MaySellIsNat ==
    ASSUME NEW o, SoundOrder(o)
    PROVE  /\ MaySell(o) \in Nat /\ o.filled \in Nat /\ o.qty \in Nat /\ o.filled <= MaySell(o)
           /\ MaySell(o) <= o.qty
           /\ o.status \in {"open", "canceling"} => MaySell(o) = o.qty
           /\ o.status \notin {"open", "canceling"} => MaySell(o) = o.filled
  BY Constants DEF SoundOrder, Order, Qtys, MaySell

LEMMA LaterChanges ==
    ASSUME NEW o, SoundOrder(o), o.status # "unused"
    PROVE  /\ Later(o, o) /\ Later(o, CancelRequested(o))
           /\ o.status \in {"open", "canceling"} => Later(o, Settled(o))
           /\ \A n \in Qtys : o.status \in {"open", "canceling"} /\ n <= Unfilled(o)
                                => Later(o, Executed(o, n))
<1>1. Later(o, o)
  BY MaySellIsNat DEF Later
<1>2. Later(o, CancelRequested(o))
  <2> DEFINE c == CancelRequested(o)
  <2>1. /\ c.kind = o.kind /\ c.qty = o.qty /\ c.filled = o.filled
        /\ c.status = IF o.status = "open" THEN "canceling" ELSE o.status
    BY ChangedFields DEF SoundOrder
  <2> HIDE DEF c
  <2>2. Later(o, c)
    BY <2>1, MaySellIsNat DEF Later, MaySell
  <2> QED  BY <2>2 DEF c
<1>3. ASSUME o.status \in {"open", "canceling"}
      PROVE  Later(o, Settled(o))
  <2> DEFINE c == Settled(o)
  <2>1. c.kind = o.kind /\ c.filled = o.filled /\ c.status = "canceled"
    BY ChangedFields DEF SoundOrder
  <2> HIDE DEF c
  <2>2. Later(o, c)
    BY <1>3, <2>1, MaySellIsNat DEF Later, MaySell
  <2> QED  BY <2>2 DEF c
<1>4. ASSUME NEW n \in Qtys, o.status \in {"open", "canceling"}, n <= Unfilled(o)
      PROVE  Later(o, Executed(o, n))
  <2> DEFINE e == Executed(o, n)
  <2>1. /\ e.kind = o.kind /\ e.qty = o.qty /\ e.filled = o.filled + n
        /\ e.status = IF o.filled + n = o.qty THEN "filled" ELSE o.status
    BY ExecutedFields DEF SoundOrder
  <2>2. n \in Nat
    BY Constants DEF Qtys
  <2> HIDE DEF e
  <2>3. Later(o, e)
    BY <1>4, <2>1, <2>2, MaySellIsNat DEF Later, MaySell
  <2> QED  BY <2>3 DEF e
<1> QED  BY <1>1, <1>2, <1>3, <1>4

\* One order changes, or one is placed that is not a sale.
LEMMA OnwardChange ==
    ASSUME Sound(orders), NEW d \in Oids, NEW r, SoundOrder(r), orders' = [orders EXCEPT ![d] = r],
           orders[d].status # "unused" => Later(orders[d], r),
           orders[d].status = "unused" => r.kind # "market"
    PROVE  Sound(orders)' /\ Onward /\ NoNewSale
<1>1. \A o \in Oids : orders'[o] = IF o = d THEN r ELSE orders[o]
  BY DEF Sound
<1>2. Sound(orders)'
  BY HeldChanges
<1>3. \A o \in Oids : SoundOrder(orders[o])
  BY DEF Sound
<1>4. Onward
  BY <1>1, <1>3, LaterChanges DEF Onward
<1>5. NoNewSale
  BY <1>1 DEF NoNewSale, Markets, Later
<1> QED  BY <1>2, <1>4, <1>5

LEMMA OnwardSame ==
    ASSUME Sound(orders), UNCHANGED orders
    PROVE  Sound(orders)' /\ Onward /\ NoNewSale
<1>1. \A o \in Oids : SoundOrder(orders[o])
  BY DEF Sound
<1> QED  BY <1>1, LaterChanges DEF Onward, NoNewSale, Markets

LEMMA OnwardDelete ==
    ASSUME Sound(orders), NEW d, Delete(d)
    PROVE  Sound(orders)' /\ Onward /\ NoNewSale
<1>1. CASE UNCHANGED orders
  BY <1>1, OnwardSame
<1>2. CASE /\ d \in Oids /\ orders[d].status \in CancelAcks
           /\ orders' = [orders EXCEPT ![d] = CancelRequested(@)]
  <2>1. orders[d].status # "unused" /\ SoundOrder(orders[d])
    BY <1>2, BrokerAssumption DEF Sound
  <2>2. SoundOrder(CancelRequested(orders[d])) /\ Later(orders[d], CancelRequested(orders[d]))
    BY <2>1, CancelReserves, LaterChanges
  <2> QED  BY <1>2, <2>1, <2>2, OnwardChange
<1> QED  BY <1>1, <1>2 DEF Delete

\* Every step but the one that places a sale.
LEMMA OnwardStep ==
    ASSUME TypeInv, Sound(orders), [Next]_vars, ~CloseAccepted
    PROVE  Sound(orders)' /\ Onward /\ NoNewSale
<1>1. CASE UNCHANGED orders
  BY <1>1, OnwardSame
<1>2. CASE Lift \/ Withdraw \/ \E o \in Oids : Unblock(o)
  BY <1>2, OnwardDelete DEF Lift, Withdraw, Unblock
<1>3. ASSUME NEW o \in Oids, Rearm(o), orders' # orders
      PROVE  Sound(orders)' /\ Onward /\ NoNewSale
  <2>1. PICK n \in Unused(orders) : orders' = [orders EXCEPT ![n] = Sell("stop", orders[o].qty)]
    BY <1>3 DEF Rearm
  <2>2. orders[o].qty \in Qtys /\ n \in Oids /\ orders[n].status = "unused"
    BY DEF Sound, Order, Unused
  <2>3. /\ SoundOrder(Sell("stop", orders[o].qty))
        /\ Sell("stop", orders[o].qty).kind = "stop"
    BY <2>2, SellReserves, SellIsOrder DEF Kinds
  <2> QED  BY <2>1, <2>2, <2>3, OnwardChange
<1>4. CASE Restore /\ orders' # orders
  <2> DEFINE r == Settled(orders[tracked])
             table == [orders EXCEPT ![tracked] = r]
  <2>1. /\ booked < size /\ tracked # NoOid /\ orders[tracked].status \in CancelAcks
        /\ \/ orders' = table
           \/ \E n \in Unused(table) : orders' = [table EXCEPT ![n] = Sell("stop", size - booked)]
    BY <1>4 DEF Restore
  <2>2. /\ tracked \in Oids /\ size - booked \in Qtys
        /\ orders[tracked].status # "unused" /\ SoundOrder(orders[tracked])
    BY <2>1, Constants, BrokerAssumption DEF TypeInv, TypeOK, Qtys, Sound
  <2>3. SoundOrder(r) /\ r.kind = orders[tracked].kind /\ r.filled = orders[tracked].filled
        /\ r.status = "canceled"
    BY <2>2, SettledReserves, ChangedFields DEF SoundOrder
  <2>4. Later(orders[tracked], r)
    BY <2>2, <2>3, MaySellIsNat DEF Later
  <2>5. Sound(table) /\ \A o \in Oids : table[o] = IF o = tracked THEN r ELSE orders[o]
    <3> HIDE DEF r
    <3> QED  BY <2>2, <2>3, HeldChanges DEF Sound
  <2>6. SoundOrder(Sell("stop", size - booked)) /\ Sell("stop", size - booked).kind = "stop"
    BY <2>2, SellReserves, SellIsOrder DEF Kinds
  <2>7. CASE orders' = table
    <3> HIDE DEF r
    <3> QED  BY <2>2, <2>3, <2>4, <2>7, OnwardChange
  <2>8. CASE \E n \in Unused(table) : orders' = [table EXCEPT ![n] = Sell("stop", size - booked)]
    <3> HIDE DEF r, table
    <3>1. PICK n \in Unused(table) : orders' = [table EXCEPT ![n] = Sell("stop", size - booked)]
      BY <2>8
    <3>2. n \in Oids /\ table[n].status = "unused" /\ n # tracked
      BY <2>3, <2>5 DEF Unused, Sound
    <3>3. Sound(orders)' /\ \A o \in Oids : orders'[o] = IF o = n THEN Sell("stop", size - booked) ELSE table[o]
      BY <2>5, <2>6, <3>1, <3>2, HeldChanges DEF Sound
    <3>4. \A o \in Oids : SoundOrder(orders[o])
      BY DEF Sound
    <3>5. Onward
      BY <2>2, <2>4, <2>5, <3>2, <3>3, <3>4, LaterChanges DEF Onward
    <3>6. NoNewSale
      BY <2>2, <2>3, <2>5, <2>6, <3>2, <3>3 DEF NoNewSale, Markets
    <3> QED  BY <3>3, <3>5, <3>6
  <2> QED  BY <2>1, <2>7, <2>8
<1>5. ASSUME NEW o \in Oids, NEW n \in Qtys, Execute(o, n)
      PROVE  Sound(orders)' /\ Onward /\ NoNewSale
  <2>1. orders[o].status \in {"open", "canceling"} /\ SoundOrder(orders[o]) /\ n <= Unfilled(orders[o])
    BY <1>5 DEF Execute, Working, Sound
  <2>2. SoundOrder(Executed(orders[o], n)) /\ Later(orders[o], Executed(orders[o], n))
    BY <2>1, ExecutedReserves, LaterChanges
  <2> QED  BY <1>5, <2>1, <2>2, OnwardChange DEF Execute
<1>6. ASSUME NEW o \in Oids, Die(o)
      PROVE  Sound(orders)' /\ Onward /\ NoNewSale
  <2>1. orders[o].status \in {"open", "canceling"} /\ SoundOrder(orders[o])
    BY <1>6 DEF Die, Sound
  <2>2. SoundOrder(Settled(orders[o])) /\ Later(orders[o], Settled(orders[o]))
    BY <2>1, SettledReserves, LaterChanges
  <2> QED  BY <1>6, <2>1, <2>2, OnwardChange DEF Die
<1>7. ~(Lift \/ Withdraw \/ (\E o \in Oids : Unblock(o) \/ Rearm(o)) \/ Restore
        \/ (\E o \in Oids, n \in Qtys : Execute(o, n)) \/ \E o \in Oids : Die(o))
      => UNCHANGED orders
  BY DEF Next, Routine, vars, venue, CloseRefused, Refused, FullAnswered, PartialAnswered, Confirm,
         Recheck, Poll, Decide, Conclude, Enumerate, Unblocked, Escalate, Rearmed
<1> QED  BY <1>1, <1>2, <1>3, <1>4, <1>5, <1>6, <1>7

LEMMA SoundInit == Init => Sound(orders)
<1> SUFFICES ASSUME Init PROVE Sound(orders)
  OBVIOUS
<1>1. PICK s, l \in Oids, held \in Qtys, ladder, stop \in BOOLEAN :
        /\ IF ladder THEN held < size ELSE held = size
        /\ orders = [o \in Oids |->
             CASE o = s /\ stop -> Sell("stop", held)
               [] o = l /\ ladder -> Sell("limit", size - held)
               [] OTHER -> Blank]
  BY DEF Init
<1>2. SoundOrder(Sell("stop", held)) /\ SoundOrder(Blank)
  BY SellReserves, BlankReserves DEF Kinds
<1>3. ladder => SoundOrder(Sell("limit", size - held))
  <2>1. ladder => size - held \in Qtys
    BY <1>1, Constants DEF Init, Qtys
  <2> QED  BY <2>1, SellReserves DEF Kinds
<1>4. orders \in [Oids -> Order]
  BY TypeInit DEF TypeInv, TypeOK
<1>5. ASSUME NEW o \in Oids
      PROVE  SoundOrder(orders[o])
  BY <1>1, <1>2, <1>3
<1> QED  BY <1>4, <1>5 DEF Sound

\* The sale of an attempt: a market order on an id that was not handed out.
LEMMA SalePlaced ==
    ASSUME TypeInv, Sound(orders), CloseAccepted
    PROVE  \E o \in Unused(orders) :
             /\ Sound(orders)' /\ Amount \in Qtys
             /\ o \in Oids /\ orders[o].status = "unused"
             /\ orders' = [orders EXCEPT ![o] = Sell("market", Amount)]
             /\ \A x \in Oids : orders'[x] = IF x = o THEN Sell("market", Amount) ELSE orders[x]
             /\ mine' \in {o, NoOid} /\ (pc' = "sent" \/ "lost" \in Faults)
<1>1. PICK o \in Unused(orders) :
        /\ orders' = [orders EXCEPT ![o] = Sell("market", Amount)]
        /\ mine' \in {o, NoOid} /\ (pc' = "sent" \/ "lost" \in Faults)
  BY DEF CloseAccepted
<1>2. o \in Oids /\ orders[o].status = "unused"
  BY DEF Unused, Sound
<1>3. Amount \in Qtys
  BY Constants DEF CloseAccepted, Amount, Qtys, TypeInv, TypeOK
<1>4. Sound(orders)'
  BY <1>1, <1>2, <1>3, SellReserves, HeldChanges DEF Kinds
<1>5. \A x \in Oids : orders'[x] = IF x = o THEN Sell("market", Amount) ELSE orders[x]
  BY <1>1 DEF Sound
<1> QED  BY <1>1, <1>2, <1>3, <1>4, <1>5

LEMMA BookedKept ==
    ASSUME TypeInv, OwnSale, BookedInv, Sound(orders)', Onward, mine' = mine,
           UNCHANGED view \/ view' = NoView \/ (view' = Look(mine) /\ UNCHANGED orders),
           booked' \in {booked, view'.filled},
           pc' \notin {"restore", "done"} => booked' = 0
    PROVE  BookedInv'
<1>1. SoldBy(mine) \in Nat /\ SoldBy(mine)' \in Nat /\ SoldBy(mine) <= SoldBy(mine)'
  <2>1. \A o \in Oids : orders[o].filled \in Nat /\ orders'[o].filled \in Nat
    BY MaySellIsNat DEF BookedInv, Sound
  <2> QED  BY <2>1 DEF SoldBy, OwnSale, Onward, Later
<1>2. view.filled \in Nat /\ booked \in Nat
  BY Constants DEF TypeInv, TypeOK, View
<1>3. view'.filled <= SoldBy(mine)' /\ view'.filled \in Nat
  <2>1. CASE UNCHANGED view
    BY <1>1, <1>2, <2>1 DEF BookedInv
  <2>2. CASE view' = Look(mine) /\ UNCHANGED orders
    <3>1. view'.filled = SoldBy(mine) /\ SoldBy(mine)' = SoldBy(mine)
      BY <2>2 DEF Look, SoldBy, NoView
    <3> QED  BY <1>1, <3>1
  <2>3. CASE view' = NoView
    BY <1>1, <2>3 DEF NoView
  <2> QED  BY <2>1, <2>2, <2>3
<1>4. booked' <= SoldBy(mine)'
  BY <1>1, <1>2, <1>3 DEF BookedInv
<1> QED  BY <1>3, <1>4 DEF BookedInv, SoldBy

LEMMA BookedStep == TypeInv /\ SafeInv /\ BookedInv /\ [Next]_vars => BookedInv'
<1> SUFFICES ASSUME TypeInv, SafeInv, BookedInv, [Next]_vars PROVE BookedInv'
  OBVIOUS
<1>0. /\ OwnSale /\ Sound(orders) /\ (pc \notin {"restore", "done"} => booked = 0)
  BY DEF SafeInv, BookedInv
<1>1. CASE CloseAccepted
  <2>1. PICK o \in Unused(orders) :
          /\ Sound(orders)' /\ Amount \in Qtys /\ o \in Oids
          /\ orders'[o] = Sell("market", Amount) /\ mine' \in {o, NoOid}
    BY <1>0, <1>1, SalePlaced DEF CloseAccepted
  <2>2. Sell("market", Amount).filled = 0
    BY <2>1, SellIsOrder DEF Kinds
  <2>3. view'.filled = 0 /\ booked' = 0 /\ SoldBy(mine)' = 0
    BY <1>0, <1>1, <2>1, <2>2, Constants DEF CloseAccepted, NoView, verdict, SoldBy
  <2> QED  BY <2>1, <2>3 DEF BookedInv
<1>2. CASE CloseRefused
  <2>1. view'.filled = 0 /\ booked' = 0 /\ SoldBy(mine)' = 0 /\ UNCHANGED orders
    BY <1>0, <1>2, Constants DEF CloseRefused, NoView, verdict, SoldBy, venue
  <2> QED  BY <1>0, <2>1, OnwardSame DEF BookedInv
<1>3. CASE ~CloseAccepted /\ ~CloseRefused
  <2>1. Sound(orders)' /\ Onward
    BY <1>0, <1>3, OnwardStep
  <2>2. mine' = mine
    BY <1>3 DEF Next, Routine, vars, sale, Lift, Refused, FullAnswered, PartialAnswered, Confirm, Recheck,
         Poll, Decide, Withdraw, Conclude, Enumerate, Unblock, Unblocked, Escalate, Rearm, Rearmed,
         Restore, Execute, Die
  <2>3. UNCHANGED view \/ view' = NoView \/ (view' = Look(mine) /\ UNCHANGED orders)
    <3>1. CASE FullAnswered \/ PartialAnswered \/ Confirm \/ Recheck
      BY <3>1 DEF FullAnswered, PartialAnswered, Confirm, Recheck, Poll, venue
    <3>2. CASE ~(FullAnswered \/ PartialAnswered \/ Confirm \/ Recheck)
      <4>1. UNCHANGED sale
        BY <1>3, <3>2 DEF Next, Routine, vars, Lift, Refused, Decide, Withdraw, Conclude, Enumerate,
             Unblock, Unblocked, Escalate, Rearm, Rearmed, Restore, Execute, Die
      <4> QED  BY <4>1 DEF sale
    <3> QED  BY <3>1, <3>2
  <2>4. booked' \in {booked, view'.filled} /\ (pc' \notin {"restore", "done"} => booked' = 0)
    <3>1. CASE Decide \/ Conclude \/ PartialAnswered
      BY <1>0, <3>1 DEF Decide, Conclude, PartialAnswered, Succeed, Retry, sale, verdict
    <3>2. CASE UNCHANGED booked /\ pc' = pc
      BY <1>0, <3>2
    <3>3. CASE UNCHANGED booked /\ pc # "done" /\ (pc = "restore" => pc' = "done")
      BY <1>0, <3>3
    <3> QED
      BY <1>3, <3>1, <3>2, <3>3 DEF Next, Routine, vars, verdict, Lift, Refused, FullAnswered, Confirm,
         Recheck, Poll, Withdraw, Enumerate, Unblock, Unblocked, Escalate, Fail, Rearm, Rearmed,
         Restore, Execute, Die
  <2> QED  BY <1>0, <2>1, <2>2, <2>3, <2>4, BookedKept
<1> QED  BY <1>1, <1>2, <1>3

LEMMA BookedHolds == Spec => [](TypeInv /\ SafeInv /\ BookedInv)
<1>1. Init => BookedInv
  <2> SUFFICES ASSUME Init PROVE BookedInv
    OBVIOUS
  <2>1. mine = NoOid /\ view.filled = 0 /\ booked = 0
    BY DEF Init, NoView
  <2> QED  BY <2>1, SoundInit, Constants DEF BookedInv, SoldBy
<1> QED  BY <1>1, TypeInit, TypeStep, SafeInit, SafeStep, BookedStep, PTL DEF Spec

LEMMA MarketsFinite == IsFiniteSet(Markets)
<1>1. Markets \subseteq Oids
  BY DEF Markets
<1> QED  BY <1>1, FS_Subset, BrokerAssumption

(* What a close books was sold by an order of its own, also when the order *)
(* is withdrawn while it fills, and when the polls of it fail              *)
(* (_confirm_partial_close_fill).                                          *)
THEOREM BookedIsSold == Spec => []BookedWasSold
<1>1. TypeInv /\ SafeInv /\ BookedInv => BookedWasSold
  <2> SUFFICES ASSUME TypeInv, SafeInv, BookedInv PROVE BookedWasSold
    OBVIOUS
  <2> DEFINE w == [o \in Markets |-> orders[o].filled]
  <2>1. Markets \subseteq Oids /\ \A o \in Markets : w[o] \in Nat
    BY MaySellIsNat DEF BookedInv, Sound, Markets
  <2>2. SumFunction(w) = SumFunctionOnSet(w, Markets)
    BY DEF SumFunction
  <2>3. booked \in Nat /\ booked <= SoldBy(mine)
    BY Constants DEF TypeInv, TypeOK, BookedInv
  <2>4. SumFunctionOnSet(w, Markets) \in Nat
    <3> HIDE DEF w
    <3> QED  BY <2>1, MarketsFinite, SumIsNat
  <2>5. CASE mine \in Oids
    <3>1. mine \in Markets /\ w[mine] = SoldBy(mine)
      BY <2>5 DEF SafeInv, OwnSale, Markets, SoldBy
    <3>2. w[mine] <= SumFunctionOnSet(w, Markets)
      <4> HIDE DEF w
      <4> QED  BY <2>1, <3>1, MarketsFinite, SumHasPart
    <3>3. booked <= w[mine] /\ w[mine] \in Nat
      BY <2>1, <2>3, <3>1
    <3> HIDE DEF w
    <3>4. booked <= SumFunction(w)
      BY <2>2, <2>3, <2>4, <3>2, <3>3
    <3> QED  BY <3>4 DEF BookedWasSold, w
  <2>6. CASE mine \notin Oids
    <3>1. booked = 0
      BY <2>3, <2>6 DEF SoldBy
    <3> HIDE DEF w
    <3>2. booked <= SumFunction(w)
      BY <2>2, <2>4, <3>1
    <3> QED  BY <3>2 DEF BookedWasSold, w
  <2> QED  BY <2>5, <2>6
<1> QED  BY <1>1, BookedHolds, PTL

Spent(o) == MaySell(orders[o]) = 0
Trying  == {"lift", "close", "refused", "blocked", "unblock"}
Pending == {"sent", "confirm", "decide", "withdraw", "recheck", "conclude"}

SaleInv ==
    mode = "partial" =>
        /\ \A o \in Markets : MaySell(orders[o]) <= qty
        /\ \A o, p \in Markets : o = p \/ Spent(o) \/ Spent(p)
        /\ pc \in Trying => \A o \in Markets : Spent(o)
        /\ pc \in Pending /\ mine \in Oids => \A o \in Markets \ {mine} : Spent(o)
        /\ pc \in Pending \ {"sent"} => mine \in Oids
        /\ view.status = "canceled" =>
              /\ mine \in Oids
              /\ orders[mine].status = "canceled" /\ orders[mine].filled = view.filled

LEMMA SaleInit == Init => SaleInv
<1> SUFFICES ASSUME Init PROVE SaleInv
  OBVIOUS
<1>1. PICK s, l \in Oids, held \in Qtys, ladder, stop \in BOOLEAN :
        /\ IF ladder THEN held < size ELSE held = size
        /\ orders = [o \in Oids |->
             CASE o = s /\ stop -> Sell("stop", held)
               [] o = l /\ ladder -> Sell("limit", size - held)
               [] OTHER -> Blank]
  BY DEF Init
<1>2. Sell("stop", held).kind = "stop" /\ Blank.kind = "limit"
  BY SellIsOrder, BlankIsOrder DEF Kinds
<1>3. ladder => Sell("limit", size - held).kind = "limit"
  <2>1. ladder => size - held \in Qtys
    BY <1>1, Constants DEF Init, Qtys
  <2> QED  BY <2>1, SellIsOrder DEF Kinds
<1>4. Markets = {}
  BY <1>1, <1>2, <1>3 DEF Markets
<1>5. view.status # "canceled" /\ pc \in {"lift", "close"}
  BY DEF Init, NoView
<1> QED  BY <1>4, <1>5 DEF SaleInv, Pending

\* Steps that place no sale, by what they do to the place in the routine and to the view.
LEMMA SaleKept ==
    ASSUME OwnSale, SaleInv, Sound(orders), Sound(orders)', Onward, NoNewSale, UNCHANGED <<mode, qty>>,
           qty \in Nat,
           pc' \in Trying => pc \in Trying \/ \A o \in Markets : Spent(o),
           pc' \in Pending => pc \in Pending /\ mine' = mine /\ (pc' = "sent" \/ mine \in Oids),
           \/ view'.status # "canceled"
           \/ mine' = mine /\ (UNCHANGED view \/ (view' = Look(mine) /\ UNCHANGED orders))
    PROVE  SaleInv'
<1> SUFFICES ASSUME mode = "partial" PROVE SaleInv'
  BY DEF SaleInv
<1>1. /\ \A o \in Markets : MaySell(orders[o]) \in Nat /\ MaySell(orders[o]) <= qty
      /\ \A o, p \in Markets : o = p \/ Spent(o) \/ Spent(p)
  BY MaySellIsNat DEF SaleInv, Sound, Markets
<1>2. /\ \A o \in Markets' : o \in Markets /\ MaySell(orders'[o]) \in Nat
      /\ \A o \in Markets' : MaySell(orders'[o]) <= MaySell(orders[o])
  BY MaySellIsNat DEF NoNewSale, Onward, Later, Sound, Markets
<1>3. \A o \in Markets' : MaySell(orders'[o]) <= qty
  BY <1>1, <1>2
<1>4. \A o \in Markets' : Spent(o) => Spent(o)'
  BY <1>1, <1>2 DEF Spent
<1>5. ASSUME view'.status = "canceled"
      PROVE  /\ mine' \in Oids
             /\ orders'[mine'].status = "canceled" /\ orders'[mine'].filled = view'.filled
  <2>1. mine' = mine
    BY <1>5
  <2>2. CASE UNCHANGED view
    BY <1>5, <2>1, <2>2 DEF SaleInv, Onward, Later
  <2>3. CASE view' = Look(mine) /\ UNCHANGED orders
    BY <1>5, <2>1, <2>3 DEF Look, NoView
  <2> QED  BY <1>5, <2>2, <2>3
<1>6. pc' \in Trying => \A o \in Markets' : Spent(o)'
  BY <1>2, <1>4 DEF SaleInv
<1>7. pc' \in Pending /\ mine' \in Oids => \A o \in Markets' \ {mine'} : Spent(o)'
  BY <1>2, <1>4 DEF SaleInv
<1>8. pc' \in Pending \ {"sent"} => mine' \in Oids
  OBVIOUS
<1>9. \A o, p \in Markets' : o = p \/ Spent(o)' \/ Spent(p)'
  BY <1>1, <1>2, <1>4
<1> QED  BY <1>3, <1>5, <1>6, <1>7, <1>8, <1>9 DEF SaleInv

LEMMA SaleStep ==
    ASSUME "lost" \notin Faults, TypeInv, SafeInv, BookedInv, SaleInv, [Next]_vars
    PROVE  SaleInv'
<1>0. OwnSale /\ Sound(orders) /\ qty \in Nat
  BY Constants DEF SafeInv, BookedInv, TypeInv, TypeOK, Qtys
<1>1. CASE CloseAccepted
  <2>1. PICK o \in Unused(orders) :
          /\ Sound(orders)' /\ Amount \in Qtys /\ o \in Oids /\ orders[o].status = "unused"
          /\ \A x \in Oids : orders'[x] = IF x = o THEN Sell("market", Amount) ELSE orders[x]
          /\ mine' \in {o, NoOid} /\ pc' = "sent"
    BY <1>0, <1>1, SalePlaced
  <2>2. UNCHANGED <<mode, qty>> /\ view'.status # "canceled" /\ pc = "close"
    BY <1>1 DEF CloseAccepted, call, NoView
  <2> SUFFICES ASSUME mode = "partial" PROVE SaleInv'
    BY <2>2 DEF SaleInv
  <2>3. MaySell(Sell("market", Amount)) = qty
    BY <2>1, SellIsOrder DEF Kinds, MaySell, Amount
  <2>4. \A x \in Markets : Spent(x)
    BY <2>2 DEF SaleInv, Trying
  <2>5. \A x \in Markets' \ {o} : Spent(x)'
    BY <2>1, <2>4 DEF Markets, Spent
  <2>6. \A x \in Markets' : MaySell(orders'[x]) <= qty
    <3>1. MaySell(orders'[o]) = qty
      BY <2>1, <2>3
    <3> QED  BY <1>0, <2>5, <3>1 DEF Spent
  <2>7. o \in Markets' /\ pc' \notin Trying /\ pc' \in {"sent"}
    BY <2>1, SellIsOrder DEF Kinds, Markets, Trying
  <2> QED
    BY <2>1, <2>2, <2>5, <2>6, <2>7, Constants DEF SaleInv
<1>2. CASE ~CloseAccepted
  <2>1. /\ Sound(orders)' /\ Onward /\ NoNewSale
    BY <1>0, <1>2, OnwardStep
  <2>2. UNCHANGED call
    BY <1>2 DEF Next, Routine, vars, Lift, CloseRefused, Refused, FullAnswered, PartialAnswered, Confirm,
         Recheck, Poll, Decide, Withdraw, Conclude, Enumerate, Unblock, Unblocked, Escalate, Rearm,
         Rearmed, Restore, Execute, Die
  <2>3. CASE CloseRefused
    <3>1. view'.status # "canceled" /\ pc \in Trying /\ pc' \in Trying /\ pc' \notin Pending
      BY <2>3 DEF CloseRefused, NoView, Trying, Pending
    <3> QED  BY <1>0, <2>1, <2>2, <3>1, SaleKept DEF call
  <2>4. CASE ~CloseRefused
    <3>1. /\ mine' = mine
          /\ UNCHANGED view \/ view' = NoView \/ (view' = Look(mine) /\ UNCHANGED orders)
      <4>1. CASE FullAnswered \/ PartialAnswered \/ Confirm \/ Recheck
        BY <4>1 DEF FullAnswered, PartialAnswered, Confirm, Recheck, Poll, venue
      <4>2. CASE ~(FullAnswered \/ PartialAnswered \/ Confirm \/ Recheck)
        <5>1. UNCHANGED sale
          BY <1>2, <2>4, <4>2 DEF Next, Routine, vars, Lift, Refused, Decide, Withdraw, Conclude,
               Enumerate, Unblock, Unblocked, Escalate, Rearm, Rearmed, Restore, Execute, Die
        <5> QED  BY <5>1 DEF sale
      <4> QED  BY <4>1, <4>2
    <3>2. mode = "partial" =>
            /\ pc' \in Trying => pc \in Trying \/ \A o \in Markets : Spent(o)
            /\ pc' \in Pending => pc \in Pending /\ (pc' = "sent" \/ mine \in Oids)
      <4> SUFFICES ASSUME mode = "partial"
                   PROVE  /\ pc' \in Trying => pc \in Trying \/ \A o \in Markets : Spent(o)
                          /\ pc' \in Pending => pc \in Pending /\ (pc' = "sent" \/ mine \in Oids)
        OBVIOUS
      <4>1. CASE Decide \/ Conclude
        <5>1. pc \in Pending \ {"sent"} /\ mine \in Oids
          BY <4>1 DEF Decide, Conclude, SaleInv, Pending
        <5>2. CASE Dead /\ view.filled = 0
          <6>1. mine \in Markets => Spent(mine)
            BY <5>2 DEF Dead, SaleInv, Spent, MaySell
          <6>2. \A o \in Markets : Spent(o)
            BY <5>1, <6>1 DEF SaleInv
          <6> QED  BY <5>1, <6>2
        <5>3. CASE ~(Dead /\ view.filled = 0)
          <6>1. pc' \notin Trying
            BY <4>1, <5>3 DEF Decide, Conclude, Succeed, Trying
          <6> QED  BY <5>1, <6>1
        <5> QED  BY <5>2, <5>3
      <4>2. CASE PartialAnswered
        BY <4>2 DEF PartialAnswered, Succeed, SaleInv, Trying, Pending, TypeInv, TypeOK
      <4>3. CASE Withdraw \/ Confirm \/ Recheck
        BY <4>3 DEF Withdraw, Confirm, Recheck, Poll, SaleInv, Trying, Pending
      <4>4. CASE Lift \/ Refused \/ Enumerate \/ Unblocked \/ Escalate \/ Rearmed \/ Restore
        BY <4>4 DEF Lift, Refused, Retry, Enumerate, Unblocked, Escalate, Fail, Rearmed, Restore,
             Trying, Pending
      <4>5. CASE pc' = pc
        BY <4>5 DEF SaleInv, Pending
      <4>6. ~FullAnswered
        BY DEF FullAnswered
      <4> QED
        BY <1>2, <2>4, <4>1, <4>2, <4>3, <4>4, <4>5, <4>6
           DEF Next, Routine, vars, Unblock, Rearm, Execute, Die
    <3>3. CASE mode = "partial"
      <4>1. view' = NoView => view'.status # "canceled"
        BY DEF NoView
      <4> QED  BY <1>0, <2>1, <2>2, <3>1, <3>2, <3>3, <4>1, SaleKept DEF call
    <3>4. CASE mode # "partial"
      BY <2>2, <3>4 DEF SaleInv, call
    <3> QED  BY <3>3, <3>4
  <2> QED  BY <2>3, <2>4
<1> QED  BY <1>1, <1>2

(* However a partial close retries, polls and withdraws while its orders   *)
(* fill, what its market orders sold and may still sell is never more than *)
(* it was asked for, if no answer to a close is lost                       *)
(* (attempt_close_with_status_check).                                      *)
THEOREM SellsOnce == "lost" \notin Faults => (Spec => []NeverSellsTwice)
<1> SUFFICES ASSUME "lost" \notin Faults PROVE Spec => []NeverSellsTwice
  OBVIOUS
<1>1. TypeInv /\ SafeInv /\ BookedInv /\ SaleInv => NeverSellsTwice
  <2> SUFFICES ASSUME TypeInv, BookedInv, SaleInv, mode = "partial" PROVE NeverSellsTwice
    BY DEF NeverSellsTwice
  <2> DEFINE w == [o \in Markets |-> MaySell(orders[o])]
  <2>1. \A o \in Markets : w[o] \in Nat /\ w[o] <= qty
    BY MaySellIsNat DEF BookedInv, Sound, Markets, SaleInv
  <2>2. PICK y : \A o \in Markets \ {y} : w[o] = 0
    <3>1. \A o, p \in Markets : o = p \/ w[o] = 0 \/ w[p] = 0
      BY DEF SaleInv, Spent
    <3> HIDE DEF w
    <3> QED  BY <3>1
  <2>3. SumFunction(w) = SumFunctionOnSet(w, Markets)
    BY DEF SumFunction
  <2>4. qty \in Nat
    BY Constants DEF TypeInv, TypeOK, Qtys
  <2> HIDE DEF w
  <2>5. SumFunctionOnSet(w, Markets) = IF y \in Markets THEN w[y] ELSE 0
    BY <2>1, <2>2, MarketsFinite, SumOfOne
  <2>6. SumFunction(w) <= qty
    BY <2>1, <2>3, <2>4, <2>5
  <2> QED  BY <2>6 DEF NeverSellsTwice, w
<1>2. TypeInv /\ SafeInv /\ BookedInv /\ SaleInv /\ [Next]_vars => SaleInv'
  BY SaleStep
<1> QED  BY <1>1, <1>2, SaleInit, BookedHolds, PTL DEF Spec
=============================================================================
