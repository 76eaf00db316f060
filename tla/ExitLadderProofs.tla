-------------------------- MODULE ExitLadderProofs --------------------------
(***************************************************************************)
(* Proofs about ExitLadder, for any orders, prices and quantities.         *)
(***************************************************************************)
EXTENDS ExitLadder, BrokerProofs

(***************************************************************************)
(* Types.  Nothing is registered before the routine is over, so the list   *)
(* of tranches may grow until then.                                        *)
(***************************************************************************)

TypeInv == TypeOK /\ (pc # "done" => registered = <<>>)

LEMMA Constants == MaxQty \in Nat \ {0} /\ NoOid \notin Oids /\ Faults \in BOOLEAN
  BY BrokerAssumption, LadderAssumption

\* Two tranches of a third leave the stop at least as much as one of them.
LEMMA LadderQuantities ==
    ASSUME NEW q \in Qtys
    PROVE  /\ LimitTranches(q) \in 0 .. 2
           /\ LimitTranches(q) > 0 => TrancheQty(q) \in Qtys
           /\ Residual(q) \in Qtys
<1>1. q \in Nat /\ 1 <= q /\ q <= MaxQty
  BY Constants DEF Qtys
<1>2. q \div 3 \in Nat /\ 3 * (q \div 3) <= q /\ (q >= 3 => q \div 3 >= 1)
  BY <1>1
<1>3. CASE q < 3
  BY <1>1, <1>3 DEF LimitTranches, TrancheQty, Residual, Qtys
<1>4. CASE q >= 3
  <2>1. LimitTranches(q) = 2 /\ TrancheQty(q) = q \div 3
    BY <1>1, <1>4 DEF LimitTranches, TrancheQty
  <2>2. Residual(q) = q - 2 * (q \div 3)
    BY <2>1 DEF Residual
  <2> HIDE DEF LimitTranches, TrancheQty, Residual
  <2> QED  BY <1>1, <1>2, <1>4, <2>1, <2>2, Constants DEF Qtys
<1> QED  BY <1>1, <1>3, <1>4

LEMMA TypeInit == Init => TypeInv
<1> SUFFICES ASSUME Init PROVE TypeInv
  OBVIOUS
<1>1. PICK s \in Oids, q \in Qtys, leg \in BOOLEAN :
        /\ shares = q /\ size = q
        /\ old = IF leg THEN s ELSE NoOid
        /\ orders = [o \in Oids |-> IF o = old THEN Sell("stop", q) ELSE Blank]
        /\ tracked = old
  BY DEF Init, FirstFill
<1>2. orders \in [Oids -> Order]
  BY <1>1, SellIsOrder, BlankIsOrder DEF Kinds
<1>3. size \in 1 .. MaxQty /\ shares \in (-MaxQty) .. MaxQty
  BY <1>1, Constants DEF Qtys
<1>4. tranches \in Seq(Oids) /\ Len(tranches) = 0
  BY DEF Init
<1>5. result \in [partial: BOOLEAN, unprotected: BOOLEAN, skipped: BOOLEAN]
  BY DEF Init
<1> QED  BY <1>1, <1>2, <1>3, <1>4, <1>5 DEF Init, TypeInv, TypeOK

LEMMA PlacedTyped ==
    ASSUME TypeOK, NEW n \in Unused(orders), NEW k \in Kinds, NEW q \in Qtys
    PROVE  [orders EXCEPT ![n] = Sell(k, q)] \in [Oids -> Order] /\ n \in Oids
<1>1. n \in Oids /\ Sell(k, q) \in Order
  BY SellIsOrder DEF TypeOK, Unused
<1> QED  BY <1>1 DEF TypeOK

LEMMA TypeStep == TypeInv /\ [Next]_vars => TypeInv'
<1> SUFFICES ASSUME TypeInv, [Next]_vars PROVE TypeInv'
  OBVIOUS
<1>0. TypeOK /\ (pc # "done" => registered = <<>>)
  BY DEF TypeInv
<1>a. /\ orders \in [Oids -> Order] /\ shares \in (-MaxQty) .. MaxQty
      /\ size \in Qtys /\ old \in Oids \cup {NoOid} /\ next \in 1 .. 3
      /\ tranches \in Seq(Oids) /\ Len(tranches) < next
      /\ newStop \in Oids \cup {NoOid}
      /\ result \in [partial: BOOLEAN, unprotected: BOOLEAN, skipped: BOOLEAN]
  BY <1>0 DEF TypeOK, Qtys
<1>b. /\ [result EXCEPT !.skipped = TRUE]
            \in [partial: BOOLEAN, unprotected: BOOLEAN, skipped: BOOLEAN]
      /\ [result EXCEPT !.partial = TRUE]
            \in [partial: BOOLEAN, unprotected: BOOLEAN, skipped: BOOLEAN]
      /\ [result EXCEPT !.unprotected = TRUE]
            \in [partial: BOOLEAN, unprotected: BOOLEAN, skipped: BOOLEAN]
  BY <1>a
<1>1. CASE KeepStop
  BY <1>0, <1>1, <1>a, <1>b DEF KeepStop, TypeInv, TypeOK, venue
<1>2. CASE CancelOld
  <2>1. old \in Oids => CancelRequested(orders[old]) \in Order
    BY <1>a, ChangedIsOrder
  <2>2. orders' \in [Oids -> Order]
    BY <1>2, <1>a, <2>1 DEF CancelOld
  <2> QED  BY <1>0, <1>2, <2>2 DEF CancelOld, TypeInv, TypeOK, locals
<1>3. CASE SubmitTranche
  <2>1. next \in 1 .. 2 /\ next' = next + 1 /\ TrancheQty(size) \in Qtys
    BY <1>3, <1>a, LadderQuantities DEF SubmitTranche
  <2>2. /\ orders' \in [Oids -> Order] /\ tranches' \in Seq(Oids)
        /\ Len(tranches') <= Len(tranches) + 1
    <3>1. CASE UNCHANGED <<orders, tranches>>
      BY <1>a, <3>1
    <3>2. CASE \E o \in Unused(orders) :
                 /\ orders' = [orders EXCEPT ![o] = Sell("limit", TrancheQty(size))]
                 /\ tranches' = Append(tranches, o)
      <4>1. PICK o \in Unused(orders) :
              /\ orders' = [orders EXCEPT ![o] = Sell("limit", TrancheQty(size))]
              /\ tranches' = Append(tranches, o)
        BY <3>2
      <4>2. orders' \in [Oids -> Order] /\ o \in Oids
        BY <1>0, <2>1, <4>1, PlacedTyped DEF Kinds
      <4> QED  BY <1>a, <4>1, <4>2
    <3> QED  BY <1>3, <3>1, <3>2 DEF SubmitTranche
  <2>3. result' \in [partial: BOOLEAN, unprotected: BOOLEAN, skipped: BOOLEAN]
    BY <1>3, <1>a, <1>b DEF SubmitTranche
  <2>4. pc = "tranches" /\ registered = <<>>
        /\ UNCHANGED <<shares, shortable, pc, size, old, newStop, registered, tracked>>
    BY <1>0, <1>3 DEF SubmitTranche
  <2> QED
    BY <1>0, <1>a, <2>1, <2>2, <2>3, <2>4 DEF TypeInv, TypeOK
<1>4. CASE TranchesDone
  BY <1>0, <1>4 DEF TranchesDone, TypeInv, TypeOK, venue, locals
<1>5. CASE SubmitStop
  <2>1. orders' \in [Oids -> Order] /\ newStop' \in Oids \cup {NoOid}
    <3>1. CASE UNCHANGED <<orders, newStop>>
      BY <1>a, <3>1
    <3>2. CASE \E o \in Unused(orders) :
                 /\ orders' = [orders EXCEPT ![o] = Sell("stop", Residual(size))]
                 /\ newStop' = o
      BY <1>0, <1>a, <3>2, LadderQuantities, PlacedTyped DEF Kinds
    <3> QED  BY <1>5, <3>1, <3>2 DEF SubmitStop
  <2>2. result' \in [partial: BOOLEAN, unprotected: BOOLEAN, skipped: BOOLEAN]
    BY <1>5, <1>a, <1>b DEF SubmitStop
  <2> QED  BY <1>0, <1>5, <2>1, <2>2 DEF SubmitStop, TypeInv, TypeOK
<1>6. CASE Register
  BY <1>0, <1>6 DEF Register, TypeInv, TypeOK, venue, locals
<1>7. ASSUME NEW o \in Oids, NEW n \in Qtys, Execute(o, n)
      PROVE  TypeInv'
  <2>1. Executed(orders[o], n) \in Order
    BY <1>7, <1>a, ChangedIsOrder DEF Execute
  <2>2. orders' \in [Oids -> Order] /\ shares' \in (-MaxQty) .. MaxQty
    BY <1>7, <1>a, <2>1, Constants DEF Execute, Qtys
  <2> QED  BY <1>0, <1>7, <2>2 DEF Execute, TypeInv, TypeOK, locals
<1>8. ASSUME NEW o \in Oids, Settle(o)
      PROVE  TypeInv'
  <2>1. orders' \in [Oids -> Order]
    BY <1>8, <1>a, ChangedIsOrder DEF Settle
  <2> QED  BY <1>0, <1>8, <2>1 DEF Settle, TypeInv, TypeOK, locals
<1>9. CASE UNCHANGED vars
  BY <1>0, <1>9 DEF vars, venue, locals, TypeInv, TypeOK
<1> QED
  BY <1>1, <1>2, <1>3, <1>4, <1>5, <1>6, <1>7, <1>8, <1>9 DEF Next, Routine

(* The routine's locals and the venue keep their types: no tranche is      *)
(* submitted beyond the ladder, no order executes beyond its quantity, and *)
(* what is registered is what was submitted.                               *)
THEOREM TypeCorrect == Spec => []TypeOK
<1>1. TypeInv => TypeOK
  BY DEF TypeInv
<1> QED  BY <1>1, TypeInit, TypeStep, PTL DEF Spec

(***************************************************************************)
(* The stops.  Until the routine submits its own, the entry's is the only  *)
(* one the venue ever had; the routine submits one at most, and a stop     *)
(* nobody cancels stands.                                                  *)
(***************************************************************************)

Standing(o) == orders[o].kind = "stop" /\ orders[o].status \in {"open", "filled"}

Named == CASE pc \in {"cancel", "tranches", "stop"} -> {old}
           [] pc = "register" -> {old, newStop}
           [] pc = "done" -> {old, tracked}

Reported ==
    pc \in {"register", "done"} =>
        result.unprotected \/ result.skipped \/ \E o \in Oids : Standing(o)

StopInv == UsedStops \subseteq Named /\ Reported

LEMMA StopInit == Init => StopInv
<1> SUFFICES ASSUME Init PROVE StopInv
  OBVIOUS
<1>1. PICK q \in Qtys : orders = [o \in Oids |-> IF o = old THEN Sell("stop", q) ELSE Blank]
  BY DEF Init, FirstFill
<1>2. UsedStops \subseteq {old}
  BY <1>1, BlankIsOrder DEF UsedStops
<1> QED  BY <1>2 DEF Init, StopInv, Named, Reported

\* A step of the venue at order d.
LEMMA VenueStep ==
    ASSUME TypeOK, StopInv, NEW d \in Oids, NEW r \in Order,
           orders' = [orders EXCEPT ![d] = r], orders[d].status # "unused",
           r.kind = orders[d].kind, Standing(d) => r.status \in {"open", "filled"},
           UNCHANGED <<shortable, pc, locals, registered, tracked>>
    PROVE  StopInv'
<1>1. \A x \in Oids : orders'[x] = IF x = d THEN r ELSE orders[x]
  BY DEF TypeOK
<1>2. UsedStops' \subseteq UsedStops /\ \A x \in Oids : Standing(x) => Standing(x)'
  BY <1>1 DEF UsedStops, Standing
<1>3. Named' = Named
  BY DEF Named, locals
<1> QED  BY <1>2, <1>3 DEF StopInv, Reported, locals

LEMMA StopStep == TypeInv /\ StopInv /\ [Next]_vars => StopInv'
<1> SUFFICES ASSUME TypeInv, StopInv, [Next]_vars PROVE StopInv'
  OBVIOUS
<1>0. TypeOK /\ size \in Qtys /\ UsedStops \subseteq Named /\ Reported
  BY DEF TypeInv, TypeOK, Qtys, StopInv
<1>1. CASE KeepStop
  <2>1. /\ UsedStops' = UsedStops /\ Named = {old} /\ Named' = {old, newStop'}
        /\ result'.skipped
    BY <1>0, <1>1 DEF KeepStop, UsedStops, Named, venue, TypeOK
  <2> QED  BY <1>0, <1>1, <2>1 DEF StopInv, Reported
<1>2. CASE CancelOld
  <2>1. \A x \in Oids : orders'[x].kind = orders[x].kind
                        /\ (orders'[x].status # "unused" => orders[x].status # "unused")
    <3>1. CASE UNCHANGED orders
      BY <3>1
    <3>2. CASE old \in Oids /\ orders' = [orders EXCEPT ![old] = CancelRequested(@)]
      <4>1. orders[old] \in Order
        BY <1>0, <3>2 DEF TypeOK
      <4>2. /\ CancelRequested(orders[old]).kind = orders[old].kind
            /\ CancelRequested(orders[old]).status # "unused" => orders[old].status # "unused"
        BY <4>1, ChangedFields
      <4>3. \A x \in Oids : orders'[x] = IF x = old THEN CancelRequested(orders[old]) ELSE orders[x]
        BY <1>0, <3>2 DEF TypeOK
      <4> QED  BY <4>2, <4>3
    <3> QED  BY <1>2, <3>1, <3>2 DEF CancelOld
  <2>2. UsedStops' \subseteq UsedStops /\ Named = {old} /\ Named' = {old}
    BY <1>2, <2>1 DEF CancelOld, UsedStops, Named, locals
  <2> QED  BY <1>0, <1>2, <2>2 DEF CancelOld, StopInv, Reported
<1>3. CASE SubmitTranche
  <2>1. UsedStops' \subseteq UsedStops
    <3>1. CASE UNCHANGED orders
      BY <3>1 DEF UsedStops
    <3>2. CASE \E o \in Unused(orders) :
                 orders' = [orders EXCEPT ![o] = Sell("limit", TrancheQty(size))]
      <4>1. PICK o \in Unused(orders) :
              orders' = [orders EXCEPT ![o] = Sell("limit", TrancheQty(size))]
        BY <3>2
      <4>2. TrancheQty(size) \in Qtys
        BY <1>0, <1>3, LadderQuantities DEF SubmitTranche, TypeOK
      <4>3. Sell("limit", TrancheQty(size)).kind = "limit"
        BY <4>2, SellIsOrder DEF Kinds
      <4> QED  BY <1>0, <4>1, <4>3 DEF UsedStops, TypeOK
    <3> QED  BY <1>3, <3>1, <3>2 DEF SubmitTranche
  <2> QED  BY <1>0, <1>3, <2>1 DEF SubmitTranche, StopInv, Named, Reported
<1>4. CASE TranchesDone
  BY <1>0, <1>4 DEF TranchesDone, StopInv, UsedStops, Named, Reported, venue, locals
<1>5. CASE SubmitStop
  <2>1. Named = {old} /\ Named' = {old, newStop'} /\ pc' = "register"
    BY <1>5 DEF SubmitStop, Named
  <2>2. CASE orders' = orders /\ result' = [result EXCEPT !.unprotected = TRUE]
    <3>1. UsedStops' = UsedStops /\ result'.unprotected
      BY <1>0, <2>2 DEF UsedStops, TypeOK
    <3> QED  BY <1>0, <2>1, <3>1 DEF StopInv, Reported
  <2>3. CASE \E o \in Unused(orders) :
               /\ orders' = [orders EXCEPT ![o] = Sell("stop", Residual(size))]
               /\ newStop' = o
    <3>1. PICK o \in Unused(orders) :
            /\ orders' = [orders EXCEPT ![o] = Sell("stop", Residual(size))]
            /\ newStop' = o
      BY <2>3
    <3>2. Sell("stop", Residual(size)).kind = "stop" /\ Sell("stop", Residual(size)).status = "open"
      BY <1>0, LadderQuantities, SellIsOrder DEF Kinds
    <3>3. o \in Oids /\ \A x \in Oids :
            orders'[x] = IF x = o THEN Sell("stop", Residual(size)) ELSE orders[x]
      BY <1>0, <3>1 DEF TypeOK, Unused
    <3>4. UsedStops' \subseteq UsedStops \cup {o} /\ Standing(o)'
      BY <3>2, <3>3 DEF UsedStops, Standing
    <3> QED  BY <1>0, <2>1, <3>1, <3>3, <3>4 DEF StopInv, Reported
  <2> QED  BY <1>5, <2>2, <2>3 DEF SubmitStop
<1>6. CASE Register
  <2>1. UsedStops' = UsedStops /\ Named' = Named
    BY <1>6 DEF Register, UsedStops, Named, venue, locals
  <2> QED
    BY <1>0, <1>6, <2>1 DEF Register, StopInv, Reported, Standing, venue, locals
<1>7. ASSUME NEW o \in Oids, NEW n \in Qtys, Execute(o, n)
      PROVE  StopInv'
  <2>1. /\ orders[o] \in Order /\ orders[o].status \in {"open", "canceling"}
        /\ Executed(orders[o], n) \in Order
    BY <1>0, <1>7, ChangedIsOrder DEF Execute, TypeOK, Working
  <2>2. /\ Executed(orders[o], n).kind = orders[o].kind
        /\ Executed(orders[o], n).status \in {orders[o].status, "filled"}
    BY <2>1, ExecutedFields
  <2> QED  BY <1>0, <1>7, <2>1, <2>2, VenueStep DEF Execute, Standing
<1>8. ASSUME NEW o \in Oids, Settle(o)
      PROVE  StopInv'
  <2>1. orders[o] \in Order /\ Settled(orders[o]) \in Order /\ orders[o].status = "canceling"
    BY <1>0, <1>8, ChangedIsOrder DEF Settle, TypeOK
  <2>2. Settled(orders[o]).kind = orders[o].kind
    BY <2>1, ChangedFields
  <2> QED  BY <1>0, <1>8, <2>1, <2>2, VenueStep DEF Settle, Standing
<1>9. CASE UNCHANGED vars
  <2>1. UsedStops' = UsedStops /\ Named' = Named
    BY <1>9 DEF vars, venue, locals, UsedStops, Named
  <2> QED
    BY <1>0, <1>9, <2>1 DEF vars, venue, locals, StopInv, Reported, Standing
<1> QED
  BY <1>1, <1>2, <1>3, <1>4, <1>5, <1>6, <1>7, <1>8, <1>9 DEF Next, Routine

LEMMA StopsHold == Spec => []StopInv
  BY TypeInit, TypeStep, StopInit, StopStep, PTL DEF Spec

(* A position the routine leaves with canceled stops only is reported, as  *)
(* unprotected or as one that got no ladder (exit_ladder.py).              *)
THEOREM NakedReported == Spec => []NakedIsReported
<1>1. StopInv => NakedIsReported
  BY DEF StopInv, Reported, Standing, NakedIsReported, UsedStops
<1> QED  BY <1>1, StopsHold, PTL

(* The stop the bot tracks after the routine is the open one, unless the   *)
(* entry's own is still open (post_fill_bookkeeping).                      *)
THEOREM OpenStopTracked == Spec => []OpenStopIsTracked
<1>1. TypeOK /\ StopInv => OpenStopIsTracked
  <2> SUFFICES ASSUME TypeOK, StopInv, pc = "done", NEW o \in OpenStops(orders), o # old
               PROVE  o = tracked
    BY DEF OpenStopIsTracked
  <2>1. o \in UsedStops
    BY DEF OpenStops, UsedStops, TypeOK
  <2> QED  BY <2>1 DEF StopInv, Named
<1> QED  BY <1>1, StopsHold, TypeCorrect, PTL

(***************************************************************************)
(* The shares held.  As long as the entry's stop works it reserves every   *)
(* share of the position, and there is one, so the venue refuses any other *)
(* sale.  Apart from what it reserves, the tranches accepted hold what the *)
(* executions left of them; a residual stop that is accepted after all of  *)
(* them, for a position there still is, therefore finds nothing reserved   *)
(* by the old one, and completes it.                                       *)
(***************************************************************************)

OldWorks   == old \in Oids /\ orders[old].status \in {"open", "canceling"}
OldReserve == IF old \in Oids THEN Reserved(orders[old]) ELSE 0
OldSold    == old \in Oids => orders[old].status # "unused"

Alone == \A o \in Oids : orders[o].status \in {"open", "canceling"} => o = old

Clean == ~(result.partial \/ result.unprotected \/ result.skipped)

StopExclusive ==
    /\ OldSold
    /\ OldWorks => shares = OldReserve /\ Alone
    /\ newStop \notin {old, NoOid} => ~OldWorks
    /\ pc = "done" => tracked = newStop
    /\ pc \in {"cancel", "tranches", "stop"} => newStop = NoOid

HeldInv ==
    /\ next <= LimitTranches(size) + 1 /\ (pc = "cancel" => next = 1)
    /\ pc = "stop" => next = LimitTranches(size) + 1
    /\ \A o \in Oids : orders[o].status = "canceling" => o = old
    /\ pc \in {"cancel", "tranches", "stop"} /\ ~result.partial =>
          shares + (next - 1) * TrancheQty(size) + OldReserve <= Held(orders) + size
    /\ pc \in {"register", "done"} /\ Clean =>
          newStop \notin {old, NoOid} /\ (shares > 0 => Held(orders) = shares)

HoldInv == Sound(orders) /\ StopExclusive /\ HeldInv

LEMMA HoldInit == Init => HoldInv
<1> SUFFICES ASSUME Init PROVE HoldInv
  OBVIOUS
<1>1. PICK s \in Oids, q \in Qtys, leg \in BOOLEAN :
        /\ shares = q /\ size = q
        /\ old = IF leg THEN s ELSE NoOid
        /\ orders = [o \in Oids |-> IF o = old THEN Sell("stop", q) ELSE Blank]
  BY DEF Init, FirstFill
<1>2. /\ SoundOrder(Sell("stop", q)) /\ Reserved(Sell("stop", q)) = q
      /\ Sell("stop", q).status = "open"
      /\ SoundOrder(Blank) /\ Reserved(Blank) = 0 /\ Blank.status = "unused"
  BY SellReserves, SellIsOrder, BlankReserves, BlankIsOrder DEF Kinds
<1>3. \A o \in Oids : /\ SoundOrder(orders[o]) /\ orders[o].status # "canceling"
                      /\ o # old => orders[o].status = "unused"
                      /\ Reserved(orders[o]) = IF o = old THEN q ELSE 0
  BY <1>1, <1>2
<1>4. Sound(orders)
  BY <1>3, TypeInit DEF Sound, TypeInv, TypeOK
<1>5. q \in Nat
  BY Constants DEF Qtys
<1>6. Held(orders) = OldReserve /\ OldReserve \in {0, q}
  <2>1. CASE old \in Oids
    BY <1>3, <1>4, <2>1, HeldForOne DEF OldReserve
  <2>2. CASE old \notin Oids
    BY <1>3, <1>4, <2>2, HeldForOrders DEF OldReserve
  <2> QED  BY <2>1, <2>2
<1>7. StopExclusive
  BY <1>1, <1>2, <1>3, <1>5 DEF Init, StopExclusive, OldSold, OldWorks, OldReserve, Alone
<1>8. LimitTranches(size) \in 0 .. 2 /\ TrancheQty(size) \in Nat
  BY <1>1, LadderQuantities, Constants DEF TrancheQty, Qtys
<1>9. (next - 1) * TrancheQty(size) = 0 /\ next = 1 /\ pc = "cancel"
  BY <1>8 DEF Init
<1>10. HeldInv
  BY <1>1, <1>3, <1>5, <1>6, <1>8, <1>9 DEF HeldInv
<1> QED  BY <1>4, <1>7, <1>10 DEF HoldInv

LEMMA OrderChanges ==
    ASSUME Sound(orders), NEW d \in Oids, NEW r, SoundOrder(r), orders' = [orders EXCEPT ![d] = r]
    PROVE  /\ Sound(orders)' /\ Held(orders)' = Held(orders) - Reserved(orders[d]) + Reserved(r)
           /\ \A x \in Oids : orders'[x] = IF x = d THEN r ELSE orders[x]
<1>1. Sound(orders') /\ Held(orders') = Held(orders) - Reserved(orders[d]) + Reserved(r)
  BY HeldChanges
<1>2. \A x \in Oids : orders'[x] = IF x = d THEN r ELSE orders[x]
  BY DEF Sound
<1> QED  BY <1>1, <1>2

\* An order placed by the routine: its id was not handed out, so it is not the old stop's.
LEMMA LadderSale ==
    ASSUME TypeOK, HoldInv, NEW k \in Kinds, NEW q \in Qtys, NEW n \in Unused(orders),
           orders' = [orders EXCEPT ![n] = Sell(k, q)], UNCHANGED old
    PROVE  /\ n \in Oids /\ n # old /\ Sound(orders)' /\ Held(orders)' = Held(orders) + q
           /\ OldReserve' = OldReserve /\ OldWorks' = OldWorks /\ OldSold'
           /\ \A o \in Oids : orders'[o].status = "canceling" => orders[o].status = "canceling"
<1>1. /\ n \in Oids /\ orders[n].status = "unused" /\ Sound(orders) /\ SoundOrder(orders[n])
  BY DEF HoldInv, Sound, Unused
<1>2. n # old
  BY <1>1 DEF HoldInv, StopExclusive, OldSold
<1>3. SoundOrder(Sell(k, q)) /\ Reserved(Sell(k, q)) = q /\ Sell(k, q).status = "open"
  BY SellReserves, SellIsOrder
<1>4. Reserved(orders[n]) = 0
  BY <1>1, ReservedOrder
<1>5. Sound(orders)' /\ Held(orders)' = Held(orders) - Reserved(orders[n]) + q
  <2>1. PICK r : r = Sell(k, q)
    OBVIOUS
  <2>2. Held(orders)' = Held(orders) - Reserved(orders[n]) + Reserved(r) /\ Sound(orders)'
    BY <1>1, <1>3, <2>1, OrderChanges
  <2> QED  BY <1>3, <2>1, <2>2
<1>6. Held(orders) \in Nat /\ q \in Nat
  BY <1>1, HeldForOrders, Constants DEF Qtys
<1>7. \A o \in Oids : orders'[o] = IF o = n THEN Sell(k, q) ELSE orders[o]
  BY <1>1 DEF Sound
<1> QED
  BY <1>1, <1>2, <1>3, <1>4, <1>5, <1>6, <1>7 DEF OldReserve, OldWorks, OldSold, HoldInv, StopExclusive

\* While the old stop works nothing is accepted; then nothing else changes for it.
LEMMA AcceptedBesideOld ==
    ASSUME TypeOK, HoldInv, NEW q \in Qtys, AcceptsSale(q)
    PROVE  ~OldWorks /\ (shares > 0 => q <= shares - Held(orders))
<1>1. /\ q \in Nat \ {0} /\ shares \in Int
      /\ shares > 0 => q <= shares - Held(orders)
  BY Constants DEF AcceptsSale, Accepts, Qtys, TypeOK
<1>2. Held(orders) \in Nat /\ (old \in Oids => OldReserve <= Held(orders) /\ OldReserve \in Nat)
  BY HeldForOrders, ReservedOrder DEF HoldInv, OldReserve, Sound
<1>3. OldWorks => old \in Oids /\ OldReserve > 0
  <2> SUFFICES ASSUME OldWorks PROVE old \in Oids /\ OldReserve > 0
    OBVIOUS
  <2>1. old \in Oids /\ orders[old].status \in {"open", "canceling"} /\ SoundOrder(orders[old])
    BY DEF OldWorks, HoldInv, Sound
  <2>2. Reserved(orders[old]) > 0
    BY <2>1, ReservedOrder, Constants DEF Qtys
  <2> QED  BY <2>1, <2>2 DEF OldReserve
<1>4. ~OldWorks
  BY <1>1, <1>2, <1>3 DEF HoldInv, StopExclusive
<1> QED  BY <1>1, <1>4

LEMMA HoldStep == TypeInv /\ HoldInv /\ [Next]_vars => HoldInv'
<1> SUFFICES ASSUME TypeInv, HoldInv, [Next]_vars PROVE HoldInv'
  OBVIOUS
<1>0. TypeOK /\ Sound(orders) /\ StopExclusive /\ HeldInv
  BY DEF TypeInv, HoldInv
<1>a. /\ shares \in Int /\ size \in Qtys /\ size \in Nat /\ next \in 1 .. 3
      /\ LimitTranches(size) \in 0 .. 2 /\ TrancheQty(size) \in Nat
      /\ (LimitTranches(size) > 0 => TrancheQty(size) \in Qtys)
      /\ Residual(size) \in Qtys /\ Residual(size) \in Nat
      /\ Held(orders) \in Nat /\ OldReserve \in Nat
  <2>1. shares \in Int /\ size \in Qtys /\ size \in Nat /\ next \in 1 .. 3
    BY <1>0, Constants DEF TypeOK, Qtys
  <2>2. TrancheQty(size) \in Nat
    BY <2>1 DEF TrancheQty
  <2>3. OldReserve \in Nat
    BY <1>0, ReservedOrder, Constants DEF OldReserve, Sound
  <2>4. Residual(size) \in Qtys /\ Residual(size) \in Nat
    BY <2>1, LadderQuantities, Constants DEF Qtys
  <2> QED  BY <1>0, <2>1, <2>2, <2>3, <2>4, LadderQuantities, HeldForOrders
<1>1. CASE KeepStop
  <2>1. /\ UNCHANGED <<orders, shares, old, size, next>> /\ newStop' = old /\ pc' = "register"
        /\ result'.skipped
    BY <1>0, <1>1 DEF KeepStop, venue, TypeOK
  <2> QED
    BY <1>0, <2>1 DEF HoldInv, StopExclusive, HeldInv, OldSold, OldWorks, OldReserve, Alone, Clean
<1>2. CASE CancelOld
  <2>1. /\ UNCHANGED <<shares, old, size, next, newStop, result, tracked>>
        /\ pc = "cancel" /\ pc' = "tranches"
    BY <1>2 DEF CancelOld, locals
  <2>2. /\ Sound(orders)' /\ Held(orders)' = Held(orders) /\ OldReserve' = OldReserve
        /\ OldSold' /\ (OldWorks' => OldWorks) /\ (Alone => Alone')
        /\ \A o \in Oids : orders'[o].status = "canceling" => o = old
    <3>1. CASE UNCHANGED orders
      BY <1>0, <2>1, <3>1
         DEF Sound, Held, OldReserve, OldSold, OldWorks, Alone, StopExclusive, HeldInv
    <3>2. CASE old \in Oids /\ orders' = [orders EXCEPT ![old] = CancelRequested(@)]
      <4> DEFINE c == CancelRequested(orders[old])
      <4>1. /\ SoundOrder(orders[old]) /\ orders[old].status # "unused"
        BY <1>0, <3>2 DEF Sound, StopExclusive, OldSold
      <4>2. SoundOrder(c) /\ Reserved(c) = Reserved(orders[old])
        BY <4>1, CancelReserves
      <4>3. c.status = IF orders[old].status = "open" THEN "canceling" ELSE orders[old].status
        BY <4>1, ChangedFields DEF SoundOrder
      <4> HIDE DEF c
      <4>4. /\ Sound(orders)' /\ Held(orders)' = Held(orders) - Reserved(orders[old]) + Reserved(c)
        <5>1. orders' = [orders EXCEPT ![old] = c]
          BY <3>2 DEF c
        <5> QED  BY <1>0, <3>2, <4>2, <5>1, OrderChanges
      <4>5. \A o \in Oids : orders'[o] = IF o = old THEN c ELSE orders[o]
        BY <1>0, <3>2 DEF c, Sound
      <4>6. Reserved(orders[old]) \in Nat
        BY <4>1, ReservedOrder, Constants
      <4> QED
        BY <1>0, <1>a, <2>1, <3>2, <4>1, <4>2, <4>3, <4>4, <4>5, <4>6
           DEF OldReserve, OldSold, OldWorks, Alone, HeldInv
    <3> QED  BY <1>2, <3>1, <3>2 DEF CancelOld
  <2> QED
    BY <1>0, <1>a, <2>1, <2>2 DEF HoldInv, StopExclusive, HeldInv
<1>3. CASE SubmitTranche
  <2>1. /\ pc = "tranches" /\ next <= LimitTranches(size) /\ next' = next + 1
        /\ UNCHANGED <<shares, pc, size, old, newStop, tracked>>
        /\ TrancheQty(size) \in Qtys
    BY <1>3, <1>a DEF SubmitTranche
  <2>2. CASE UNCHANGED orders /\ result' = [result EXCEPT !.partial = TRUE]
    <3>1. result'.partial
      BY <1>0, <2>2 DEF TypeOK
    <3> QED
      BY <1>0, <1>a, <2>1, <2>2, <3>1
         DEF HoldInv, StopExclusive, HeldInv, OldSold, OldWorks, OldReserve, Alone
  <2>3. CASE /\ AcceptsSale(TrancheQty(size)) /\ UNCHANGED result
             /\ \E o \in Unused(orders) :
                  orders' = [orders EXCEPT ![o] = Sell("limit", TrancheQty(size))]
    <3>1. /\ Sound(orders)' /\ Held(orders)' = Held(orders) + TrancheQty(size)
          /\ OldReserve' = OldReserve /\ OldWorks' = OldWorks /\ OldSold'
          /\ \A o \in Oids : orders'[o].status = "canceling" => orders[o].status = "canceling"
      BY <1>0, <2>1, <2>3, LadderSale DEF Kinds, HoldInv
    <3>2. (next' - 1) * TrancheQty(size) = (next - 1) * TrancheQty(size) + TrancheQty(size)
      <4>1. next = 1 \/ next = 2
        BY <1>a, <2>1
      <4> QED  BY <1>a, <2>1, <4>1
    <3>3. (next - 1) * TrancheQty(size) \in Int
      BY <1>a
    <3> DEFINE p == (next - 1) * TrancheQty(size)
    <3>4. ~result'.partial => shares' + (next' - 1) * TrancheQty(size)' + OldReserve'
                               <= Held(orders)' + size'
      <4>1. ~result.partial => shares + p + OldReserve <= Held(orders) + size
        BY <1>0, <2>1 DEF HeldInv
      <4>2. (next' - 1) * TrancheQty(size)' = p + TrancheQty(size)
        BY <2>1, <3>2
      <4>3. p \in Int
        BY <3>3
      <4> HIDE DEF p
      <4> QED  BY <1>a, <2>1, <2>3, <3>1, <4>1, <4>2, <4>3
    <3>5. ~OldWorks
      BY <1>0, <2>1, <2>3, AcceptedBesideOld DEF HoldInv
    <3> QED
      BY <1>0, <1>a, <2>1, <2>3, <3>1, <3>4, <3>5 DEF HoldInv, StopExclusive, HeldInv
  <2> QED  BY <1>3, <2>2, <2>3 DEF SubmitTranche
<1>4. CASE TranchesDone
  <2>1. /\ UNCHANGED <<orders, shares, old, size, next, newStop, result, tracked>>
        /\ pc = "tranches" /\ pc' = "stop" /\ next > LimitTranches(size)
    BY <1>4 DEF TranchesDone, venue, locals
  <2> QED
    BY <1>0, <1>a, <2>1 DEF HoldInv, StopExclusive, HeldInv, OldSold, OldWorks, OldReserve, Alone
<1>5. CASE SubmitStop
  <2>1. /\ pc = "stop" /\ pc' = "register" /\ newStop = NoOid
        /\ UNCHANGED <<shares, old, size, next, tracked>>
    BY <1>0, <1>5 DEF SubmitStop, StopExclusive
  <2>2. CASE UNCHANGED <<orders, newStop>> /\ result' = [result EXCEPT !.unprotected = TRUE]
    <3>1. result'.unprotected
      BY <1>0, <2>2 DEF TypeOK
    <3> QED
      BY <1>0, <1>a, <2>1, <2>2, <3>1
         DEF HoldInv, StopExclusive, HeldInv, OldSold, OldWorks, OldReserve, Alone, Clean
  <2>3. CASE /\ AcceptsSale(Residual(size)) /\ UNCHANGED result
             /\ \E o \in Unused(orders) :
                  /\ orders' = [orders EXCEPT ![o] = Sell("stop", Residual(size))]
                  /\ newStop' = o
    <3>1. /\ Sound(orders)' /\ Held(orders)' = Held(orders) + Residual(size)
          /\ OldReserve' = OldReserve /\ OldWorks' = OldWorks /\ OldSold'
          /\ \A o \in Oids : orders'[o].status = "canceling" => orders[o].status = "canceling"
          /\ newStop' \notin {old, NoOid}
      BY <1>0, <1>a, <2>1, <2>3, LadderSale, Constants DEF Kinds, HoldInv
    <3>2. ~OldWorks /\ (shares > 0 => Residual(size) <= shares - Held(orders))
      BY <1>0, <1>a, <2>3, AcceptedBesideOld DEF HoldInv
    <3>3. (next - 1) * TrancheQty(size) = size - Residual(size)
      <4>1. next - 1 = LimitTranches(size)
        BY <1>0, <1>a, <2>1 DEF HeldInv
      <4>2. LimitTranches(size) * TrancheQty(size) \in Int
        BY <1>a
      <4> QED  BY <1>a, <4>1, <4>2 DEF Residual
    <3>4. ~result.partial => shares + (size - Residual(size)) + OldReserve <= Held(orders) + size
      BY <1>0, <2>1, <3>3 DEF HeldInv
    <3>5. Clean' /\ shares' > 0 => Held(orders)' = shares'
      BY <1>a, <2>1, <2>3, <3>1, <3>2, <3>4 DEF Clean
    <3> QED
      BY <1>0, <2>1, <3>1, <3>2, <3>5 DEF HoldInv, StopExclusive, HeldInv
  <2> QED  BY <1>5, <2>2, <2>3 DEF SubmitStop
<1>6. CASE Register
  <2>1. /\ UNCHANGED <<orders, shares, old, size, next, newStop, result>>
        /\ pc = "register" /\ pc' = "done" /\ tracked' = newStop
    BY <1>6 DEF Register, venue, locals
  <2> QED
    BY <1>0, <2>1 DEF HoldInv, StopExclusive, HeldInv, OldSold, OldWorks, OldReserve, Alone, Clean
<1>7. ASSUME NEW o \in Oids, NEW n \in Qtys, Execute(o, n)
      PROVE  HoldInv'
  <2> DEFINE e == Executed(orders[o], n)
  <2>1. /\ SoundOrder(orders[o]) /\ orders[o].status \in {"open", "canceling"}
        /\ n <= Unfilled(orders[o])
        /\ orders' = [orders EXCEPT ![o] = e] /\ shares' = shares - n
        /\ UNCHANGED <<old, size, next, newStop, result, tracked, pc>>
    BY <1>0, <1>7 DEF Execute, Sound, Working, locals
  <2>2. /\ SoundOrder(e) /\ Reserved(e) = Reserved(orders[o]) - n /\ Reserved(orders[o]) \in Nat
        /\ e.status \in {orders[o].status, "filled"} /\ n \in Nat
    BY <2>1, ExecutedReserves, ExecutedFields, ReservedOrder, Constants DEF SoundOrder, Qtys
  <2> HIDE DEF e
  <2>3. Sound(orders)' /\ Held(orders)' = Held(orders) - n
    <3>1. Sound(orders)' /\ Held(orders)' = Held(orders) - Reserved(orders[o]) + Reserved(e)
      BY <1>0, <2>1, <2>2, OrderChanges
    <3> QED  BY <1>a, <2>2, <3>1
  <2>4. \A x \in Oids : orders'[x] = IF x = o THEN e ELSE orders[x]
    BY <1>0, <2>1 DEF Sound
  <2>5. /\ OldReserve' = (IF o = old THEN OldReserve - n ELSE OldReserve)
        /\ (OldWorks' => OldWorks) /\ OldSold'
    BY <1>0, <2>1, <2>2, <2>4 DEF OldReserve, OldWorks, OldSold, StopExclusive
  <2>6. StopExclusive'
    <3>1. OldWorks => o = old
      BY <1>0, <2>1 DEF StopExclusive, Alone
    <3>2. Alone => Alone'
      BY <2>1, <2>2, <2>4 DEF Alone
    <3> QED  BY <1>0, <1>a, <2>1, <2>2, <2>5, <3>1, <3>2 DEF StopExclusive
  <2>7. \A x \in Oids : orders'[x].status = "canceling" => x = old
    BY <1>0, <2>1, <2>2, <2>4 DEF HeldInv
  <2>8. HeldInv'
    <3> DEFINE p == (next - 1) * TrancheQty(size)
    <3>1. p \in Int /\ p' = p
      BY <1>a, <2>1
    <3>2. /\ pc \in {"cancel", "tranches", "stop"} /\ ~result.partial =>
               shares' + p' + OldReserve' <= Held(orders)' + size'
          /\ pc \in {"register", "done"} /\ Clean /\ shares' > 0 => Held(orders)' = shares'
      <4>1. pc \in {"cancel", "tranches", "stop"} /\ ~result.partial =>
              shares + p + OldReserve <= Held(orders) + size
        BY <1>0 DEF HeldInv
      <4>2. pc \in {"register", "done"} /\ Clean /\ shares > 0 => Held(orders) = shares
        BY <1>0 DEF HeldInv
      <4> HIDE DEF p
      <4> QED  BY <1>a, <2>1, <2>2, <2>3, <2>5, <3>1, <4>1, <4>2
    <3> QED  BY <1>0, <2>1, <2>7, <3>2 DEF HeldInv, Clean
  <2> QED  BY <2>3, <2>6, <2>8 DEF HoldInv
<1>8. ASSUME NEW o \in Oids, Settle(o)
      PROVE  HoldInv'
  <2> DEFINE e == Settled(orders[o])
  <2>1. /\ SoundOrder(orders[o]) /\ orders[o].status = "canceling" /\ o = old
        /\ orders' = [orders EXCEPT ![o] = e]
        /\ UNCHANGED <<shares, old, size, next, newStop, result, tracked, pc>>
    BY <1>0, <1>8 DEF Settle, Sound, locals, HeldInv
  <2>2. /\ SoundOrder(e) /\ Reserved(e) = 0 /\ e.status = "canceled"
    BY <2>1, SettledReserves, ChangedFields DEF SoundOrder
  <2> HIDE DEF e
  <2>3. Sound(orders)' /\ Held(orders)' = Held(orders) - OldReserve
    <3>1. Sound(orders)' /\ Held(orders)' = Held(orders) - Reserved(orders[o]) + Reserved(e)
      BY <1>0, <2>1, <2>2, OrderChanges
    <3>2. OldReserve = Reserved(orders[o])
      BY <2>1 DEF OldReserve
    <3> QED  BY <1>a, <2>2, <3>1, <3>2
  <2>4. \A x \in Oids : orders'[x] = IF x = o THEN e ELSE orders[x]
    BY <1>0, <2>1 DEF Sound
  <2>5. OldWorks /\ ~OldWorks' /\ OldReserve' = 0 /\ OldSold'
    BY <2>1, <2>2, <2>4 DEF OldReserve, OldWorks, OldSold
  <2>6. StopExclusive'
    BY <1>0, <2>1, <2>5 DEF StopExclusive
  <2>7. \A x \in Oids : orders'[x].status = "canceling" => x = old
    BY <1>0, <2>2, <2>4 DEF HeldInv
  <2>8. HeldInv'
    <3> DEFINE p == (next - 1) * TrancheQty(size)
    <3>1. p \in Int /\ p' = p
      BY <1>a, <2>1
    <3>2. /\ pc \in {"cancel", "tranches", "stop"} /\ ~result.partial =>
               shares' + p' + OldReserve' <= Held(orders)' + size'
          /\ ~(pc \in {"register", "done"} /\ Clean)
      <4>1. pc \in {"cancel", "tranches", "stop"} /\ ~result.partial =>
              shares + p + OldReserve <= Held(orders) + size
        BY <1>0 DEF HeldInv
      <4>2. ~(pc \in {"register", "done"} /\ Clean)
        BY <1>0, <2>5 DEF HeldInv, StopExclusive
      <4> HIDE DEF p
      <4> QED  BY <1>a, <2>1, <2>3, <2>5, <3>1, <4>1, <4>2
    <3> QED  BY <1>0, <2>1, <2>7, <3>2 DEF HeldInv, Clean
  <2> QED  BY <2>3, <2>6, <2>8 DEF HoldInv
<1>9. CASE UNCHANGED vars
  <2>1. UNCHANGED <<orders, shares, old, size, next, newStop, result, tracked, pc>>
    BY <1>9 DEF vars, venue, locals
  <2> QED
    BY <1>0, <2>1 DEF HoldInv, StopExclusive, HeldInv, OldSold, OldWorks, OldReserve, Alone, Clean
<1> QED
  BY <1>1, <1>2, <1>3, <1>4, <1>5, <1>6, <1>7, <1>8, <1>9 DEF Next, Routine

LEMMA HoldingHolds == Spec => [](TypeInv /\ StopInv /\ HoldInv)
  BY TypeInit, TypeStep, StopInit, StopStep, HoldInit, HoldStep, PTL DEF Spec

(* The venue never has two stops of the position open, although a cancel   *)
(* of the old one that failed is taken for a done one (exit_ladder.py).    *)
THEOREM OneStop == Spec => []AtMostOneOpenStop
<1>1. TypeInv /\ StopInv /\ HoldInv => AtMostOneOpenStop
  <2> SUFFICES ASSUME TypeInv, StopInv, HoldInv, NEW s \in OpenStops(orders), s # old
               PROVE  s = newStop /\ newStop \notin {old, NoOid} /\ old \notin OpenStops(orders)
    BY DEF AtMostOneOpenStop
  <2>1. TypeOK /\ s \in Oids /\ s \in Named
    BY DEF TypeInv, TypeOK, StopInv, OpenStops, UsedStops
  <2>2. s = newStop
    BY <2>1 DEF Named, HoldInv, StopExclusive, TypeOK
  <2>3. newStop \notin {old, NoOid}
    BY <2>1, <2>2, Constants
  <2>4. old \notin OpenStops(orders)
    BY <2>1, <2>3 DEF HoldInv, StopExclusive, OldWorks, OpenStops, TypeOK
  <2> QED  BY <2>2, <2>3, <2>4
<1> QED  BY <1>1, HoldingHolds, PTL

(* A ladder reported clean holds every share of a position once, for any   *)
(* quantity, whatever executed while it was built, and whether or not the  *)
(* symbol can be sold short (exit_ladder.py).                              *)
THEOREM CleanHoldsAll == Spec => []CleanLadderHoldsAll
<1>1. HoldInv => CleanLadderHoldsAll
  BY DEF HoldInv, HeldInv, Clean, CleanLadderHoldsAll
<1> QED  BY <1>1, HoldingHolds, PTL
=============================================================================
