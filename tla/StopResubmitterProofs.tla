----------------------- MODULE StopResubmitterProofs -----------------------
(***************************************************************************)
(* Proofs about StopResubmitter, for any number of coroutines, orders,     *)
(* retries and calls.                                                      *)
(***************************************************************************)
EXTENDS StopResubmitter, BrokerProofs

(***************************************************************************)
(* Types.                                                                  *)
(***************************************************************************)

\* A coroutine past its entry is a Call.
LEMMA InCall ==
    ASSUME TypeOK, NEW t \in Tasks, NEW pc \in Pcs, At(t, pc)
    PROVE  task[t] \in Call
  BY DEF TypeOK, Idle, Pcs, At

LEMMA TypeInit == Init => TypeOK
<1> SUFFICES ASSUME Init PROVE TypeOK
  OBVIOUS
<1>1. PICK s, l \in Oids, p \in Prices, q \in Qtys, ladder, attached \in BOOLEAN :
        /\ ladder => q < MaxQty
        /\ orders = [o \in Oids |->
             CASE o = s /\ attached -> Placed("stop", p, q)
               [] o = l /\ ladder -> Placed("limit", p, MaxQty - q)
               [] OTHER -> Blank]
        /\ stops = [oid |-> IF attached THEN s ELSE NoOid, price |-> p, qty |-> q]
  BY DEF Init
<1>2. Blank \in Order
  BY BlankIsOrder
<1>3. Placed("stop", p, q) \in Order
  BY PlacedIsOrder DEF Kinds
<1>4. ladder => Placed("limit", p, MaxQty - q) \in Order
  BY <1>1, BrokerAssumption DEF Placed, Order, Kinds, Statuses, Qtys
<1>5. orders \in [Oids -> Order]
  BY <1>1, <1>2, <1>3, <1>4
<1>6. stops \in TrackedStop
  BY <1>1 DEF TrackedStop
<1>7. shares \in Int /\ calls \in 0 .. MaxCalls
  BY BrokerAssumption, ResubmitterAssumption DEF Init
<1> QED  BY <1>5, <1>6, <1>7 DEF Init, TypeOK

\* The transport steps shared by the handlers.
LEMMA TypeEnter ==
    ASSUME TypeOK, NEW t \in Tasks, NEW pc \in Pcs, NEW p \in Prices, NEW q \in Qtys,
           Enter(t, pc, p, q)
    PROVE  task' \in [Tasks -> Call \cup {Idle}] /\ calls' \in 0 .. MaxCalls
  BY ResubmitterAssumption DEF TypeOK, Enter, Call, TrackedStop

LEMMA TypeAnswer ==
    ASSUME TypeOK, NEW t \in Tasks, task[t] \in Call, NEW sent \in Pcs,
           NEW ack \in BOOLEAN, NEW new \in Oids \cup {NoOid}, Answer(t, sent, ack, new)
    PROVE  task' \in [Tasks -> Call \cup {Idle}]
<1>1. [task[t] EXCEPT !.pc = sent, !.ack = ack, !.new = new] \in Call
  BY DEF Call
<1> QED  BY <1>1 DEF TypeOK, Answer

LEMMA TypeBrokerCancel ==
    ASSUME TypeOK, NEW t \in Tasks, NEW pc \in Pcs, NEW sent \in Pcs,
           BrokerCancel(t, pc, sent)
    PROVE  TypeOK'
<1>1. task[t] \in Call
  BY InCall DEF BrokerCancel
<1>2. task' \in [Tasks -> Call \cup {Idle}]
  BY <1>1, TypeAnswer DEF BrokerCancel
<1>3. \A o \in Oids : CancelRequested(orders[o]) \in Order
  BY ChangedIsOrder DEF TypeOK
<1>4. orders' \in [Oids -> Order]
  BY <1>3 DEF TypeOK, BrokerCancel
<1> QED  BY <1>2, <1>4 DEF TypeOK, BrokerCancel

LEMMA TypeBrokerSubmit ==
    ASSUME TypeOK, NEW t \in Tasks, NEW pc \in Pcs, NEW sent \in Pcs, NEW p \in Prices,
           BrokerSubmit(t, pc, sent, p)
    PROVE  TypeOK'
<1>1. task[t] \in Call
  BY InCall DEF BrokerSubmit
<1>2. Unused(orders) \subseteq Oids
  BY DEF Unused, TypeOK
<1>3. task' \in [Tasks -> Call \cup {Idle}]
  BY <1>1, <1>2, TypeAnswer DEF BrokerSubmit
<1>4. Placed("stop", p, task[t].qty) \in Order
  BY <1>1, PlacedIsOrder DEF Call, Kinds
<1>5. orders' \in [Oids -> Order]
  BY <1>2, <1>4 DEF TypeOK, BrokerSubmit
<1> QED  BY <1>3, <1>5 DEF TypeOK, BrokerSubmit

LEMMA TypeTrack ==
    ASSUME NEW t \in Tasks, task[t] \in Call, NEW p \in Prices
    PROVE  Track(t, p) \in TrackedStop
  BY DEF Track, Call, TrackedStop

\* Every step of one coroutine keeps the types.
LEMMA TypeStep ==
    ASSUME TypeOK, NEW t \in Tasks, Step(t)
    PROVE  TypeOK'
<1>1. CASE ResubmitCancel(t)
  BY <1>1, TypeBrokerCancel DEF ResubmitCancel, Pcs
<1>2. CASE RemoveCancel(t)
  BY <1>2, TypeBrokerCancel DEF RemoveCancel, Pcs
<1>3. CASE ResubmitSubmit(t)
  <2>1. task[t] \in Call
    BY <1>3, InCall DEF ResubmitSubmit, BrokerSubmit, Pcs
  <2>2. task[t].price \in Prices
    BY <2>1 DEF Call
  <2> QED  BY <1>3, <2>2, TypeBrokerSubmit DEF ResubmitSubmit, Pcs
<1>4. CASE EmergencySubmit(t)
  <2>1. task[t] \in Call
    BY <1>4, InCall DEF EmergencySubmit, BrokerSubmit, Pcs
  <2>2. task[t].tracked.price \in Prices
    BY <2>1 DEF Call, TrackedStop
  <2> QED  BY <1>4, <2>2, TypeBrokerSubmit DEF EmergencySubmit, Pcs
<1>5. CASE CancelReply(t)
  <2>1. task[t] \in Call
    BY <1>5, InCall DEF CancelReply, Pcs
  <2>2. [task[t] EXCEPT !.pc = "submit", !.ack = FALSE] \in Call
    BY <2>1 DEF Call, Pcs
  <2> QED  BY <1>5, <2>2 DEF CancelReply, TypeOK, venue
<1>6. CASE SubmitReply(t)
  <2>1. task[t] \in Call
    BY <1>6, InCall DEF SubmitReply, Pcs
  <2>2. Track(t, task[t].price) \in TrackedStop
    BY <2>1, TypeTrack DEF Call
  <2>3. [task[t] EXCEPT !.pc = "emergency"] \in Call
    BY <2>1 DEF Call, Pcs
  <2>4. ASSUME task[t].attempt < MaxRetries - 1
        PROVE  [task[t] EXCEPT !.pc = "submit", !.attempt = @ + 1] \in Call
    <3>1. task[t].attempt + 1 \in 0 .. MaxRetries - 1
      BY <2>1, <2>4, ResubmitterAssumption DEF Call
    <3> QED  BY <2>1, <3>1 DEF Call, Pcs
  <2>5. task' \in [Tasks -> Call \cup {Idle}]
    <3>1. PICK c \in Call \cup {Idle} : task' = [task EXCEPT ![t] = c]
      BY <1>6, <2>3, <2>4 DEF SubmitReply
    <3> QED  BY <3>1 DEF TypeOK
  <2> QED  BY <1>6, <2>2, <2>5 DEF SubmitReply, TypeOK, venue
<1>7. CASE EmergencyReply(t)
  <2>1. task[t] \in Call
    BY <1>7, InCall DEF EmergencyReply, Pcs
  <2>2. Track(t, task[t].tracked.price) \in TrackedStop
    BY <2>1, TypeTrack DEF Call, TrackedStop
  <2>3. task[t].ack \in BOOLEAN
    BY <2>1 DEF Call
  <2> QED  BY <1>7, <2>2, <2>3 DEF EmergencyReply, TypeOK, venue
<1>8. CASE RemoveReply(t)
  BY <1>8 DEF RemoveReply, TypeOK, venue
<1> QED  BY <1>1, <1>2, <1>3, <1>4, <1>5, <1>6, <1>7, <1>8 DEF Step

LEMMA TypeNext == TypeOK /\ [Next]_vars => TypeOK'
<1> SUFFICES ASSUME TypeOK, [Next]_vars PROVE TypeOK'
  OBVIOUS
<1>1. CASE \E t \in Tasks, p \in Prices, q \in Qtys : Resubmit(t, p, q)
  BY <1>1, TypeEnter DEF Resubmit, TypeOK, venue, Pcs
<1>2. CASE \E t \in Tasks : CancelAndRemove(t)
  <2>1. PICK t \in Tasks : CancelAndRemove(t)
    BY <1>2
  <2>2. stops.price \in Prices /\ stops.qty \in Qtys
    BY <2>1 DEF CancelAndRemove, TypeOK, TrackedStop
  <2> QED  BY <2>1, <2>2, TypeEnter DEF CancelAndRemove, TypeOK, venue, Pcs
<1>3. CASE \E t \in Tasks : Step(t)
  BY <1>3, TypeStep
<1>4. CASE Remove
  BY <1>4 DEF Remove, TypeOK, venue
<1>5. CASE \E o \in Oids, n \in Qtys : Execute(o, n)
  <2>1. PICK o \in Oids, n \in Qtys : Execute(o, n)
    BY <1>5
  <2>2. Executed(orders[o], n) \in Order
    BY <2>1, ChangedIsOrder DEF Execute, TypeOK
  <2> QED  BY <2>1, <2>2 DEF Execute, TypeOK, Qtys
<1>6. CASE \E o \in Oids : Settle(o)
  BY <1>6, ChangedIsOrder DEF Settle, TypeOK
<1>7. CASE \E n \in Qtys : OtherSale(n)
  BY <1>7 DEF OtherSale, TypeOK, Qtys
<1>8. CASE UNCHANGED vars
  BY <1>8 DEF vars, TypeOK
<1> QED  BY <1>1, <1>2, <1>3, <1>4, <1>5, <1>6, <1>7, <1>8 DEF Next

\* The state of the resubmitter, its coroutines and the venue's order table keep their
\* types in every reachable state.
THEOREM TypeCorrect == Spec => []TypeOK
  BY TypeInit, TypeNext, PTL DEF Spec

(***************************************************************************)
(* The acknowledged cancel is a lock.  For a venue that acknowledges a     *)
(* DELETE only of an open order, and answers that are not lost, the        *)
(* invariant below says who may know and who may change the one open stop. *)
(***************************************************************************)

\* A record of _stops that names an order names a stop order with its price.
Names(r) == r.oid # NoOid => r.oid \in UsedStops /\ orders[r.oid].price = r.price

NamesInv ==
    /\ stops # NoStop => Names(stops)
    /\ \A t \in Tasks : task[t] # Idle => Names(task[t].tracked)

\* The ratchet check that passed before the first await still stands.
CheckedInv ==
    \A t \in Tasks : task[t] # Idle => task[t].price >= task[t].tracked.price

OneTokenInv ==
    \A t, u \in Tasks : Token(t) /\ Token(u) => t = u

\* In the gap nothing is open, and nothing was ever above the stop that was lifted.
GapInv ==
    \A t \in Tasks : InGap(t) =>
        /\ OpenStops(orders) = {}
        /\ task[t].tracked.oid # NoOid
        /\ \A o \in UsedStops : orders[o].price <= task[t].tracked.price

\* A stop that was accepted is known to its coroutine alone until it is recorded.
AnsweredInv ==
    \A t \in Tasks : Answered(t) =>
        LET new == task[t].new IN
        /\ new \in UsedStops
        /\ orders[new].status \in {"open", "filled"}
        /\ OpenStops(orders) \subseteq {new}
        /\ \A o \in UsedStops : orders[o].price <= orders[new].price
        /\ orders[new].price = IF task[t].pc = "submitSent" THEN task[t].price
                                                            ELSE task[t].tracked.price
        /\ stops # NoStop => stops.oid # new
        /\ \A u \in Tasks : task[u] # Idle => task[u].tracked.oid # new

\* A stop registered without an order id is never exchanged.
NoOidInv ==
    stops # NoStop /\ stops.oid = NoOid =>
        OpenStops(orders) = {} /\ \A t \in Tasks : ~Token(t)

\* A tracked order that was cancelled is being exchanged, or being removed, or alarmed.
NakedInv ==
    stops # NoStop /\ stops.oid # NoOid
        /\ orders[stops.oid].status \in {"canceling", "canceled"} =>
        \/ alarmed
        \/ \E t \in Tasks : Token(t) \/ At(t, "removeSent")

\* The alarm is final: nothing is open then, and nobody may place a stop.
AlarmInv == alarmed => OpenStops(orders) = {} /\ \A t \in Tasks : ~Token(t)

LockInv ==
    /\ TypeOK
    /\ NamesInv /\ CheckedInv
    /\ OneTokenInv /\ GapInv /\ AnsweredInv /\ NoOidInv
    /\ AtMostOneOpenStop /\ OpenStopIsTracked /\ OpenStopIsHighest
    /\ NakedInv /\ AlarmInv

\* What the venue must guarantee: see the two runs in which it does not.
ReliableVenue == ~AckLoss /\ CancelAcks \subseteq {"open"}

\* Coroutine t moves to the local state c, every other one stays.
Moves(t, c) == task' = [task EXCEPT ![t] = c]

LEMMA MovesPointwise ==
    ASSUME TypeOK, NEW t \in Tasks, NEW c, Moves(t, c)
    PROVE  task'[t] = c /\ \A u \in Tasks \ {t} : task'[u] = task[u]
  BY DEF Moves, TypeOK

LEMMA OrderFields ==
    ASSUME TypeOK, NEW o \in Oids
    PROVE  /\ orders[o] \in Order /\ orders[o].price \in Int
           /\ orders[o].kind \in Kinds /\ orders[o].status \in Statuses
  BY BrokerAssumption DEF TypeOK, Order

LEMMA CallFields ==
    ASSUME TypeOK, NEW t \in Tasks, task[t] # Idle
    PROVE  /\ task[t] \in Call /\ task[t].pc \in Pcs /\ task[t].ack \in BOOLEAN
           /\ task[t].price \in Int /\ task[t].tracked \in TrackedStop
           /\ task[t].tracked.price \in Int
           /\ task[t].tracked.oid \in Oids \cup {NoOid}
  BY BrokerAssumption DEF TypeOK, Call, TrackedStop

(***************************************************************************)
(* What a step looks like in ProtectiveStop.                               *)
(***************************************************************************)

Shown == [Abstract!Move]_(Abstract!sVars)

\* No stop order ever had a higher price than o; then the abstract level is that of o.
HighestAt(o) == o \in UsedStops /\ \A x \in UsedStops : orders[x].price <= orders[o].price

LevelOfHighest == \A o \in Oids : HighestAt(o) => levelBar = orders[o].price

LEMMA LevelIs == TypeOK => LevelOfHighest
<1> SUFFICES ASSUME TypeOK, NEW o \in Oids, HighestAt(o) PROVE levelBar = orders[o].price
  BY DEF LevelOfHighest
<1>1. \A x \in UsedStops : orders[x].price \in Int
  BY OrderFields DEF UsedStops
<1>2. o \in UsedStops /\ orders[o].price \in Prices /\ \A x \in UsedStops : orders[x].price <= orders[o].price
  BY DEF HighestAt, TypeOK, Order
<1>3. \A p \in Levels : p = orders[o].price
  BY <1>1, <1>2 DEF Levels
<1>4. orders[o].price \in Levels
  BY <1>2 DEF Levels
<1> QED  BY <1>3, <1>4 DEF levelBar

LEMMA SameChoice == ASSUME NEW S, NEW T, S = T
                    PROVE  (CHOOSE p \in S : TRUE) = (CHOOSE p \in T : TRUE)
  OBVIOUS

LEMMA SameLevel ==
    ASSUME UsedStops' = UsedStops, \A o \in UsedStops : orders'[o].price = orders[o].price
    PROVE  levelBar' = levelBar
<1>1. Levels' = Levels
  BY DEF Levels
<1> QED  BY <1>1, SameChoice DEF levelBar

LEMMA Stutters ==
    ASSUME levelBar' = levelBar, alarmed' = alarmed,
           OpenStops(orders') = {} <=> OpenStops(orders) = {},
           (\E t \in Tasks : InGap(t)') <=> \E t \in Tasks : InGap(t)
    PROVE  Shown
<1>1. phaseBar' = phaseBar
  BY DEF phaseBar
<1> QED  BY <1>1 DEF Shown, Abstract!sVars

\* The open stop is gone, and nobody replaces it.
LEMMA Finishes ==
    ASSUME levelBar' = levelBar, OpenStops(orders) # {}, OpenStops(orders') = {},
           \A t \in Tasks : ~InGap(t)', ~alarmed'
    PROVE  Shown
<1>1. phaseBar = "live" /\ phaseBar' = "over"
  BY DEF phaseBar
<1> QED  BY <1>1 DEF Shown, Abstract!Move, Abstract!Finish

\* The venue executing or settling an order: nothing becomes open, nothing open
\* becomes cancelled, no order changes its kind or its price.
OrdersOnlyClose ==
    \A o \in Oids :
        /\ orders'[o].kind = orders[o].kind /\ orders'[o].price = orders[o].price
        /\ orders'[o].status = "unused" <=> orders[o].status = "unused"
        /\ orders'[o].status = "open" => orders[o].status = "open"
        /\ orders'[o].status \in {"canceling", "canceled"}
               => orders[o].status \in {"canceling", "canceled"}

LEMMA ExecuteOnlyCloses ==
    ASSUME TypeOK, NEW o \in Oids, NEW n \in Qtys, Execute(o, n)
    PROVE  OrdersOnlyClose
  BY DEF TypeOK, Execute, Executed, Working, Order, OrdersOnlyClose

LEMMA SettleOnlyCloses ==
    ASSUME TypeOK, NEW o \in Oids, Settle(o)
    PROVE  OrdersOnlyClose
  BY DEF TypeOK, Settle, Settled, Order, OrdersOnlyClose

LEMMA LockVenue ==
    ASSUME LockInv, TypeOK', OrdersOnlyClose, UNCHANGED <<stops, task, alarmed, removed>>
    PROVE  LockInv' /\ Shown
<1> USE DEF LockInv
<1>1. OpenStops(orders') \subseteq OpenStops(orders) /\ UsedStops' = UsedStops
  BY DEF OpenStops, UsedStops, OrdersOnlyClose, TypeOK
<1>2. \A o \in UsedStops : o \in Oids /\ orders'[o].price = orders[o].price
  BY DEF UsedStops, OrdersOnlyClose
<1>3. \A t \in Tasks : /\ Token(t)' <=> Token(t)
                       /\ Answered(t)' <=> Answered(t)
                       /\ InGap(t)' <=> InGap(t)
                       /\ At(t, "removeSent")' <=> At(t, "removeSent")
  BY DEF Token, Answered, InGap, At
<1>4. NamesInv' /\ CheckedInv'
  BY <1>1, <1>2 DEF NamesInv, Names, CheckedInv
<1>5. OneTokenInv' /\ GapInv'
  BY <1>1, <1>2, <1>3 DEF OneTokenInv, GapInv
<1>6. AnsweredInv'
  <2>1. ASSUME NEW o \in Oids, orders[o].status \in {"open", "filled"}
        PROVE  orders'[o].status \in {"open", "filled"}
    BY <2>1, OrderFields DEF OrdersOnlyClose, TypeOK, Order, Statuses
  <2> QED  BY <1>1, <1>2, <1>3, <2>1 DEF AnsweredInv
<1>7. NoOidInv'
  BY <1>1, <1>3 DEF NoOidInv
<1>8. AtMostOneOpenStop' /\ OpenStopIsTracked' /\ OpenStopIsHighest'
  <2>1. OpenStops(orders) \subseteq UsedStops
    BY DEF OpenStops, UsedStops, TypeOK
  <2> QED  BY <1>1, <1>2, <1>3, <2>1 DEF AtMostOneOpenStop, OpenStopIsTracked, OpenStopIsHighest
<1>9. NakedInv'
  BY <1>3 DEF NakedInv, OrdersOnlyClose, TypeOK, TrackedStop
<1>10. AlarmInv'
  BY <1>1, <1>3 DEF AlarmInv
<1>11. Shown
  <2>1. \A o \in UsedStops : orders'[o].price = orders[o].price
    BY <1>2
  <2>2. levelBar' = levelBar
    BY <1>1, <2>1, SameLevel
  <2>3. CASE OpenStops(orders) = {}
    BY <1>1, <1>3, <2>2, <2>3, Stutters
  <2>4. CASE OpenStops(orders') # {}
    BY <1>1, <1>3, <2>2, <2>4, Stutters
  <2>5. CASE OpenStops(orders) # {} /\ OpenStops(orders') = {}
    <3>1. ~alarmed' /\ \A t \in Tasks : ~InGap(t)'
      BY <1>3, <2>5 DEF AlarmInv, GapInv
    <3> QED  BY <2>2, <2>5, <3>1, Finishes
  <2> QED  BY <2>3, <2>4, <2>5
<1> QED  BY <1>4, <1>5, <1>6, <1>7, <1>8, <1>9, <1>10, <1>11

\* The local states of a coroutine without the token.
Tokenless(c) ==
    \/ c = Idle
    \/ c.pc \in {"cancel", "remove", "removeSent"}
    \/ c.pc = "cancelSent" /\ ~c.ack

\* A call begins, or a refused cancel ends one: no token changes hands.
LEMMA LockNoToken ==
    ASSUME LockInv, TypeOK', NEW t \in Tasks, NEW c \in Call \cup {Idle}, Moves(t, c),
           ~Token(t), Tokenless(c),
           c # Idle => Names(c.tracked) /\ c.price >= c.tracked.price
                       /\ \A u \in Tasks : Answered(u) => task[u].new # c.tracked.oid,
           ~At(t, "removeSent"),
           UNCHANGED <<orders, stops, alarmed, removed>>
    PROVE  LockInv' /\ Shown
<1> USE DEF LockInv
<1>1. task'[t] = c /\ \A u \in Tasks \ {t} : task'[u] = task[u]
  BY MovesPointwise
<1>2. \A u \in Tasks : /\ Token(u)' <=> Token(u)
                       /\ Answered(u)' <=> Answered(u)
                       /\ InGap(u)' <=> InGap(u)
                       /\ At(u, "removeSent") => At(u, "removeSent")'
                       /\ Token(u) => u # t
  BY <1>1 DEF Token, Answered, InGap, At, Idle, Tokenless
<1>3. UsedStops' = UsedStops
  BY DEF UsedStops
<1>4. NamesInv' /\ CheckedInv'
  BY <1>1, <1>3 DEF NamesInv, Names, CheckedInv
<1>5. OneTokenInv' /\ GapInv'
  BY <1>1, <1>2, <1>3 DEF OneTokenInv, GapInv, InGap
<1>6. AnsweredInv'
  BY <1>1, <1>2, <1>3 DEF AnsweredInv, Answered, Token
<1>7. NoOidInv' /\ NakedInv'
  BY <1>2 DEF NoOidInv, NakedInv
<1>8. AtMostOneOpenStop' /\ OpenStopIsTracked' /\ OpenStopIsHighest'
  BY <1>1, <1>2, <1>3
     DEF AtMostOneOpenStop, OpenStopIsTracked, OpenStopIsHighest, Answered, Token
<1>9. AlarmInv'
  BY <1>2 DEF AlarmInv
<1>10. Shown
  BY <1>2, <1>3, SameLevel, Stutters
<1> QED  BY <1>4, <1>5, <1>6, <1>7, <1>8, <1>9, <1>10

\* An acknowledged DELETE of the order o that coroutine t read: o was the one open
\* stop, and nobody held the token.
LEMMA CancelFindsTheStop ==
    ASSUME LockInv, NEW t \in Tasks, task[t] # Idle,
           task[t].tracked.oid \in Oids, orders[task[t].tracked.oid].status = "open"
    PROVE  /\ OpenStops(orders) = {task[t].tracked.oid}
           /\ \A u \in Tasks : ~Token(u)
           /\ orders[task[t].tracked.oid].price = task[t].tracked.price
<1> DEFINE o == task[t].tracked.oid
<1>1. o \in OpenStops(orders) /\ o \in UsedStops /\ orders[o].price = task[t].tracked.price
  BY ResubmitterAssumption DEF LockInv, NamesInv, Names, UsedStops, OpenStops, TypeOK
<1>2. OpenStops(orders) = {o}
  BY <1>1 DEF LockInv, AtMostOneOpenStop
<1>3. ASSUME NEW u \in Tasks, Token(u) PROVE FALSE
  <2>1. ~InGap(u)
    BY <1>1 DEF LockInv, GapInv
  <2>2. Answered(u)
    BY <1>3, <2>1 DEF InGap
  <2>3. o = task[u].new /\ task[t].tracked.oid # task[u].new
    BY <1>1, <2>2 DEF LockInv, AnsweredInv
  <2> QED  BY <2>3
<1> QED  BY <1>1, <1>2, <1>3

\* The effect of that DELETE on the order table.
LEMMA CancelEffect ==
    ASSUME TypeOK, NEW o \in Oids, orders[o].status = "open",
           orders' = [orders EXCEPT ![o] = CancelRequested(@)]
    PROVE  /\ \A x \in Oids \ {o} : orders'[x] = orders[x]
           /\ orders'[o].kind = orders[o].kind /\ orders'[o].price = orders[o].price
           /\ orders'[o].status = "canceling"
           /\ UsedStops' = UsedStops
           /\ OpenStops(orders') = OpenStops(orders) \ {o}
<1>1. orders'[o] = CancelRequested(orders[o]) /\ DOMAIN orders' = Oids /\ DOMAIN orders = Oids
  BY DEF TypeOK
<1>2. /\ orders'[o].kind = orders[o].kind /\ orders'[o].price = orders[o].price
      /\ orders'[o].status = "canceling"
  BY <1>1 DEF CancelRequested, TypeOK, Order
<1>3. \A x \in Oids \ {o} : orders'[x] = orders[x]
  BY DEF TypeOK
<1> QED  BY <1>1, <1>2, <1>3 DEF UsedStops, OpenStops

\* The token is taken: resubmit's cancel is acknowledged.
LEMMA LockLift ==
    ASSUME LockInv, TypeOK', NEW t \in Tasks, task[t] # Idle, NEW c \in Call,
           c.tracked = task[t].tracked, c.price = task[t].price,
           c.pc = "cancelSent", c.ack, Moves(t, c),
           c.tracked.oid \in Oids, orders[c.tracked.oid].status = "open",
           orders' = [orders EXCEPT ![c.tracked.oid] = CancelRequested(@)],
           UNCHANGED <<stops, alarmed, removed>>
    PROVE  LockInv' /\ Shown
<1> USE DEF LockInv
<1> DEFINE o == c.tracked.oid
<1>1. task'[t] = c /\ \A u \in Tasks \ {t} : task'[u] = task[u]
  BY MovesPointwise
<1>2. /\ OpenStops(orders) = {o} /\ orders[o].price = c.tracked.price
      /\ \A u \in Tasks : ~Token(u)
  BY CancelFindsTheStop
<1>3. /\ \A x \in Oids \ {o} : orders'[x] = orders[x]
      /\ orders'[o].price = orders[o].price
      /\ UsedStops' = UsedStops /\ OpenStops(orders') = {}
  BY <1>2, CancelEffect
<1>4. \A x \in UsedStops : orders'[x].price = orders[x].price /\ x \in Oids
  BY <1>3 DEF UsedStops
<1>5. \A u \in Tasks : Token(u)' <=> u = t
  BY <1>1, <1>2 DEF Token
<1>6. InGap(t)' /\ \A u \in Tasks : ~Answered(u)'
  BY <1>1, <1>2 DEF InGap, Token, Answered
<1>7. NamesInv' /\ CheckedInv'
  <2>1. \A r : Names(r) => Names(r)'
    BY <1>3, <1>4 DEF Names
  <2>2. NamesInv'
    BY <1>1, <2>1 DEF NamesInv, Idle
  <2>3. CheckedInv'
    BY <1>1 DEF CheckedInv, Idle
  <2> QED  BY <2>2, <2>3
<1>8. OneTokenInv' /\ AnsweredInv'
  BY <1>5, <1>6 DEF OneTokenInv, AnsweredInv
<1>9. GapInv'
  <2>1. \A x \in UsedStops : orders[x].price <= c.tracked.price
    BY <1>2 DEF OpenStopIsHighest
  <2> QED  BY <1>1, <1>3, <1>4, <1>5, <2>1, ResubmitterAssumption DEF GapInv, InGap
<1>10. NoOidInv' /\ NakedInv'
  BY <1>2, <1>5 DEF NoOidInv, NakedInv
<1>11. AtMostOneOpenStop' /\ OpenStopIsTracked' /\ OpenStopIsHighest'
  BY <1>3 DEF AtMostOneOpenStop, OpenStopIsTracked, OpenStopIsHighest
<1>12. AlarmInv'
  BY <1>2 DEF AlarmInv
<1>13. Shown
  <2>1. ~alarmed /\ levelBar' = levelBar
    BY <1>2, <1>3, <1>4, SameLevel DEF AlarmInv
  <2>2. phaseBar = "live" /\ phaseBar' = "exchange"
    BY <1>2, <1>3, <1>6 DEF phaseBar
  <2> QED  BY <2>1, <2>2 DEF Shown, Abstract!Move, Abstract!Lift
<1> QED  BY <1>7, <1>8, <1>9, <1>10, <1>11, <1>12, <1>13

\* cancel_and_remove withdraws the stop: no token exists, none is taken.
LEMMA LockWithdraw ==
    ASSUME LockInv, TypeOK', NEW t \in Tasks, task[t] # Idle, NEW c \in Call,
           c.tracked = task[t].tracked, c.price = task[t].price,
           c.pc = "removeSent", Moves(t, c),
           c.tracked.oid \in Oids, orders[c.tracked.oid].status = "open",
           orders' = [orders EXCEPT ![c.tracked.oid] = CancelRequested(@)],
           UNCHANGED <<stops, alarmed, removed>>
    PROVE  LockInv' /\ Shown
<1> USE DEF LockInv
<1> DEFINE o == c.tracked.oid
<1>1. task'[t] = c /\ \A u \in Tasks \ {t} : task'[u] = task[u]
  BY MovesPointwise
<1>2. OpenStops(orders) = {o} /\ \A u \in Tasks : ~Token(u)
  BY CancelFindsTheStop
<1>3. /\ \A x \in Oids \ {o} : orders'[x] = orders[x]
      /\ orders'[o].price = orders[o].price
      /\ UsedStops' = UsedStops /\ OpenStops(orders') = {}
  BY <1>2, CancelEffect
<1>4. \A x \in UsedStops : orders'[x].price = orders[x].price /\ x \in Oids
  BY <1>3 DEF UsedStops
<1>5. \A u \in Tasks : ~Token(u)' /\ ~Answered(u)' /\ ~InGap(u)'
  BY <1>1, <1>2 DEF Token, Answered, InGap
<1>6. NamesInv' /\ CheckedInv'
  <2>1. \A r : Names(r) => Names(r)'
    BY <1>3, <1>4 DEF Names
  <2>2. NamesInv'
    BY <1>1, <2>1 DEF NamesInv, Idle
  <2>3. CheckedInv'
    BY <1>1 DEF CheckedInv, Idle
  <2> QED  BY <2>2, <2>3
<1>7. OneTokenInv' /\ GapInv' /\ AnsweredInv' /\ NoOidInv'
  BY <1>3, <1>5 DEF OneTokenInv, GapInv, AnsweredInv, NoOidInv
<1>8. NakedInv'
  BY <1>1 DEF NakedInv, At
<1>9. AtMostOneOpenStop' /\ OpenStopIsTracked' /\ OpenStopIsHighest'
  BY <1>3 DEF AtMostOneOpenStop, OpenStopIsTracked, OpenStopIsHighest
<1>10. AlarmInv'
  BY <1>2 DEF AlarmInv
<1>11. Shown
  <2>1. ~alarmed' /\ levelBar' = levelBar
    BY <1>2, <1>3, <1>4, SameLevel DEF AlarmInv
  <2> QED  BY <1>2, <1>3, <1>5, <2>1, Finishes
<1> QED  BY <1>6, <1>7, <1>8, <1>9, <1>10, <1>11

\* The holder moves inside the gap: the cancel is known to be acknowledged, a POST
\* is refused, the loop goes round or falls back to the emergency price.
LEMMA LockInGap ==
    ASSUME LockInv, TypeOK', NEW t \in Tasks, InGap(t), NEW c \in Call,
           c.tracked = task[t].tracked, c.price = task[t].price,
           \/ c.pc \in {"submit", "emergency"}
           \/ c.pc \in {"submitSent", "emergencySent"} /\ ~c.ack,
           Moves(t, c), UNCHANGED <<orders, stops, alarmed, removed>>
    PROVE  LockInv' /\ Shown
<1> USE DEF LockInv
<1>1. task'[t] = c /\ \A u \in Tasks \ {t} : task'[u] = task[u]
  BY MovesPointwise
<1>2. task[t] # Idle /\ ~At(t, "removeSent") /\ Token(t)
  BY DEF InGap, Token, Idle, At
<1>3. \A u \in Tasks : /\ Token(u)' <=> Token(u)
                       /\ InGap(u)' <=> InGap(u)
                       /\ Answered(u)' <=> Answered(u)
                       /\ At(u, "removeSent")' <=> At(u, "removeSent")
  BY <1>1, <1>2 DEF Token, InGap, Answered, At
<1>4. UsedStops' = UsedStops
  BY DEF UsedStops
<1>5. NamesInv' /\ CheckedInv'
  BY <1>1, <1>2, <1>4 DEF NamesInv, Names, CheckedInv, Idle
<1>6. OneTokenInv' /\ GapInv'
  BY <1>1, <1>3, <1>4 DEF OneTokenInv, GapInv
<1>7. \A u \in Tasks : ~Answered(u) /\ ~Answered(u)'
  BY <1>2, <1>3 DEF OneTokenInv, Answered, InGap, Token
<1>8. AnsweredInv' /\ NoOidInv' /\ NakedInv'
  BY <1>3, <1>7 DEF AnsweredInv, NoOidInv, NakedInv
<1>9. AtMostOneOpenStop' /\ OpenStopIsTracked' /\ OpenStopIsHighest'
  BY <1>4, <1>7 DEF AtMostOneOpenStop, OpenStopIsTracked, OpenStopIsHighest
<1>10. AlarmInv'
  BY <1>3 DEF AlarmInv
<1>11. Shown
  BY <1>3, <1>4, SameLevel, Stutters
<1> QED  BY <1>5, <1>6, <1>8, <1>9, <1>10, <1>11

\* The venue accepts the holder's stop, at the price p it asked for.
LEMMA LockPlace ==
    ASSUME LockInv, TypeOK', NEW t \in Tasks, InGap(t), NEW c \in Call,
           c.tracked = task[t].tracked, c.price = task[t].price,
           NEW p \in Prices, NEW o \in Unused(orders), c.new = o, c.ack,
           \/ c.pc = "submitSent" /\ p = c.price
           \/ c.pc = "emergencySent" /\ p = c.tracked.price,
           Moves(t, c),
           orders' = [orders EXCEPT ![o] = Placed("stop", p, c.qty)],
           UNCHANGED <<stops, alarmed, removed>>
    PROVE  LockInv' /\ Shown
<1> USE DEF LockInv
<1>1. task'[t] = c /\ \A u \in Tasks \ {t} : task'[u] = task[u]
  BY MovesPointwise
<1>2. task[t] # Idle /\ Token(t)
  BY DEF InGap, Token, Idle
<1>3. o \in Oids /\ o \notin UsedStops /\ DOMAIN orders = Oids /\ DOMAIN orders' = Oids
  BY DEF Unused, UsedStops, TypeOK
<1>4. /\ \A x \in Oids \ {o} : orders'[x] = orders[x]
      /\ orders'[o].kind = "stop" /\ orders'[o].status = "open" /\ orders'[o].price = p
  BY <1>3 DEF Placed, TypeOK
<1>5. OpenStops(orders) = {} /\ OpenStops(orders') = {o} /\ UsedStops' = UsedStops \cup {o}
  BY <1>3, <1>4 DEF GapInv, OpenStops, UsedStops
<1>6. \A u \in Tasks : (Token(u)' <=> u = t) /\ (Answered(u)' <=> u = t) /\ ~InGap(u)'
  BY <1>1, <1>2 DEF OneTokenInv, Token, Answered, InGap
<1>7. UsedStops \subseteq Oids \ {o}
  BY <1>3 DEF UsedStops
<1>8. \A x \in UsedStops' : orders'[x].price <= p
  <2>1. c.tracked.price <= p /\ c.tracked.price \in Int /\ p \in Int
    BY <1>2, CallFields, BrokerAssumption DEF CheckedInv
  <2>2. \A x \in UsedStops : orders[x].price <= c.tracked.price /\ orders[x].price \in Int
    BY OrderFields DEF GapInv, UsedStops
  <2> QED  BY <1>4, <1>5, <1>7, <2>1, <2>2
<1>9. NamesInv' /\ CheckedInv'
  BY <1>1, <1>2, <1>4, <1>5, <1>7 DEF NamesInv, Names, CheckedInv, Idle
<1>10. OneTokenInv' /\ GapInv'
  BY <1>6 DEF OneTokenInv, GapInv
<1>11. AnsweredInv'
  <2>1. stops # NoStop => stops.oid # o
    BY <1>3, ResubmitterAssumption DEF NamesInv, Names
  <2>2. \A u \in Tasks : task'[u] # Idle => task'[u].tracked.oid # o
    BY <1>1, <1>2, <1>3, ResubmitterAssumption DEF NamesInv, Names
  <2>3. p = IF task'[t].pc = "submitSent" THEN task'[t].price ELSE task'[t].tracked.price
    BY <1>1
  <2>4. task'[t].new = o
    BY <1>1
  <2>5. o \in UsedStops' /\ OpenStops(orders') \subseteq {o}
    BY <1>5
  <2>6. \A x \in UsedStops' : orders'[x].price <= orders'[o].price
    BY <1>4, <1>8
  <2>7. orders'[o].status \in {"open", "filled"}
    BY <1>4
  <2>8. stops' # NoStop => stops'.oid # o
    BY <2>1
  <2>9. \A u \in Tasks : Answered(u)' => u = t
    BY <1>6
  <2>10. orders'[o].price = p
    BY <1>4
  <2> HIDE DEF LockInv
  <2> QED  BY <2>2, <2>3, <2>4, <2>5, <2>6, <2>7, <2>8, <2>9, <2>10 DEF AnsweredInv
<1>12. NoOidInv'
  BY <1>2 DEF NoOidInv
<1>13. NakedInv'
  BY <1>6 DEF NakedInv
<1>14. AtMostOneOpenStop' /\ OpenStopIsTracked' /\ OpenStopIsHighest'
  <2>1. OpenStopIsTracked'
    BY <1>1, <1>5, <1>6 DEF OpenStopIsTracked
  <2> HIDE DEF LockInv
  <2>2. AtMostOneOpenStop'
    BY <1>5 DEF AtMostOneOpenStop
  <2>3. orders'[o].price = p
    BY <1>4
  <2>4. OpenStopIsHighest'
    BY <1>5, <1>8, <2>3 DEF OpenStopIsHighest
  <2> QED  BY <2>1, <2>2, <2>4
<1>15. AlarmInv'
  BY <1>2 DEF AlarmInv
<1>16. Shown
  <2>1. phaseBar = "exchange" /\ phaseBar' = "live"
    BY <1>5 DEF phaseBar
  <2>2. HighestAt(o)' /\ orders'[o].price = p
    BY <1>4, <1>5, <1>8 DEF HighestAt
  <2>3. levelBar' = p
    <3>1. LevelOfHighest'
      BY LevelIs, PTL
    <3> QED  BY <1>3, <2>2, <3>1 DEF LevelOfHighest
  <2>4. PICK q : q = task[t].tracked.oid
    OBVIOUS
  <2>5. q \in UsedStops /\ HighestAt(q) /\ orders[q].price = c.tracked.price
    BY <1>2, <2>4 DEF GapInv, NamesInv, Names, HighestAt
  <2>6. levelBar = c.tracked.price
    BY <1>7, <2>5, LevelIs DEF LevelOfHighest
  <2>7. p >= levelBar
    BY <1>2, <2>6, CallFields, BrokerAssumption DEF CheckedInv
  <2> QED  BY <2>1, <2>3, <2>7 DEF Shown, Abstract!Move, Abstract!Put
<1> QED  BY <1>9, <1>10, <1>11, <1>12, <1>13, <1>14, <1>15, <1>16

\* The holder is told of its new stop and records it: the token is given back, and the
\* tracked price has not gone down.
LEMMA LockRecord ==
    ASSUME LockInv, TypeOK', NEW t \in Tasks, Answered(t), NEW p \in Prices,
           p = orders[task[t].new].price,
           stops' = Track(t, p), Moves(t, Idle), UNCHANGED <<orders, alarmed, removed>>
    PROVE  LockInv' /\ Shown /\ (stops # NoStop => stops'.price >= stops.price)
<1> USE DEF LockInv
<1> DEFINE new == task[t].new
<1>1. task'[t] = Idle /\ \A u \in Tasks \ {t} : task'[u] = task[u]
  BY MovesPointwise
<1>2. /\ task[t] # Idle /\ Token(t)
      /\ new \in UsedStops /\ orders[new].status \in {"open", "filled"}
      /\ OpenStops(orders) \subseteq {new}
      /\ \A x \in UsedStops : orders[x].price <= orders[new].price
  BY DEF Answered, Token, Idle, AnsweredInv
<1>3. stops' # NoStop /\ stops'.oid = new /\ stops'.price = p /\ new # NoOid
  <2>1. Track(t, p) \in TrackedStop
    BY <1>2, CallFields, TypeTrack
  <2>2. Track(t, p).oid = new /\ Track(t, p).price = p
    BY DEF Track
  <2> QED  BY <1>2, <2>1, <2>2, NoStopAssumption, ResubmitterAssumption DEF UsedStops
<1>4. \A u \in Tasks : ~Token(u)' /\ ~Answered(u)' /\ ~InGap(u)'
  BY <1>1, <1>2 DEF OneTokenInv, Token, Answered, InGap, Idle
<1>5. UsedStops' = UsedStops
  BY DEF UsedStops
<1>6. NamesInv' /\ CheckedInv'
  <2>1. Names(stops)'
    BY <1>2, <1>3, <1>5 DEF Names
  <2>2. \A u \in Tasks : task'[u] # Idle => task'[u] = task[u]
    BY <1>1
  <2> QED  BY <1>5, <2>1, <2>2 DEF NamesInv, Names, CheckedInv
<1>7. OneTokenInv' /\ GapInv' /\ AnsweredInv' /\ NoOidInv'
  BY <1>3, <1>4 DEF OneTokenInv, GapInv, AnsweredInv, NoOidInv
<1>8. NakedInv'
  BY <1>2, <1>3 DEF NakedInv
<1>9. AtMostOneOpenStop' /\ OpenStopIsTracked' /\ OpenStopIsHighest'
  BY <1>2, <1>3, <1>5 DEF AtMostOneOpenStop, OpenStopIsTracked, OpenStopIsHighest
<1>10. stops # NoStop => stops'.price >= stops.price
  <2>1. stops # NoStop => stops.oid # NoOid
    BY <1>2 DEF NoOidInv
  <2> QED  BY <1>2, <1>3, <2>1 DEF NamesInv, Names
<1>11. AlarmInv'
  BY <1>2 DEF AlarmInv
<1>12. Shown
  BY <1>2, <1>4, <1>5, SameLevel, Stutters DEF OneTokenInv, InGap
<1> QED  BY <1>6, <1>7, <1>8, <1>9, <1>10, <1>11, <1>12

\* The emergency stop was refused: the token is given back with the alarm.
LEMMA LockAlarm ==
    ASSUME LockInv, TypeOK', NEW t \in Tasks, InGap(t), alarmed', Moves(t, Idle),
           UNCHANGED <<orders, stops, removed>>
    PROVE  LockInv' /\ Shown
<1> USE DEF LockInv
<1>1. task'[t] = Idle /\ \A u \in Tasks \ {t} : task'[u] = task[u]
  BY MovesPointwise
<1>2. Token(t) /\ OpenStops(orders) = {}
  BY DEF InGap, GapInv
<1>3. \A u \in Tasks : ~Token(u)' /\ ~Answered(u)' /\ ~InGap(u)'
  BY <1>1, <1>2 DEF OneTokenInv, Token, Answered, InGap, Idle
<1>4. NamesInv' /\ CheckedInv'
  BY <1>1 DEF NamesInv, Names, CheckedInv, UsedStops
<1>5. OneTokenInv' /\ GapInv' /\ AnsweredInv' /\ NoOidInv' /\ NakedInv'
  BY <1>2, <1>3 DEF OneTokenInv, GapInv, AnsweredInv, NoOidInv, NakedInv
<1>6. AtMostOneOpenStop' /\ OpenStopIsTracked' /\ OpenStopIsHighest'
  BY <1>2 DEF AtMostOneOpenStop, OpenStopIsTracked, OpenStopIsHighest
<1>7. AlarmInv'
  BY <1>2, <1>3 DEF AlarmInv
<1>8. Shown
  <2>1. levelBar' = levelBar
    BY SameLevel DEF UsedStops
  <2>2. phaseBar = "exchange" /\ phaseBar' = "lost"
    BY <1>2, <1>3 DEF phaseBar
  <2> QED  BY <2>1, <2>2 DEF Shown, Abstract!Move, Abstract!Lose
<1> QED  BY <1>4, <1>5, <1>6, <1>7, <1>8

\* The tracking is popped, by remove or at the end of cancel_and_remove.
LEMMA LockPop ==
    ASSUME LockInv, TypeOK', stops' = NoStop, removed',
           \/ UNCHANGED task
           \/ \E t \in Tasks : At(t, "removeSent") /\ Moves(t, Idle),
           UNCHANGED <<orders, alarmed>>
    PROVE  LockInv' /\ Shown
<1> USE DEF LockInv
<1>1. \A u \in Tasks : \/ task'[u] = task[u]
                       \/ task'[u] = Idle /\ At(u, "removeSent")
  BY MovesPointwise
<1>2. \A u \in Tasks : /\ Token(u)' <=> Token(u)
                       /\ Answered(u)' <=> Answered(u)
                       /\ InGap(u)' <=> InGap(u)
                       /\ Token(u) => task'[u] = task[u]
  BY <1>1 DEF Token, Answered, InGap, Idle, At
<1>3. UsedStops' = UsedStops
  BY DEF UsedStops
<1>4. NamesInv' /\ CheckedInv'
  BY <1>1, <1>3 DEF NamesInv, Names, CheckedInv
<1>5. OneTokenInv' /\ GapInv'
  BY <1>2, <1>3 DEF OneTokenInv, GapInv, InGap
<1>6. AnsweredInv'
  BY <1>1, <1>2, <1>3 DEF AnsweredInv, Answered, Token
<1>7. NoOidInv' /\ NakedInv'
  BY DEF NoOidInv, NakedInv
<1>8. AtMostOneOpenStop' /\ OpenStopIsTracked' /\ OpenStopIsHighest'
  BY <1>3 DEF AtMostOneOpenStop, OpenStopIsTracked, OpenStopIsHighest
<1>9. AlarmInv'
  BY <1>2 DEF AlarmInv
<1>10. Shown
  BY <1>2, <1>3, SameLevel, Stutters
<1> QED  BY <1>4, <1>5, <1>6, <1>7, <1>8, <1>9, <1>10

\* The coroutine around a request: only pc, ack and new change.
LEMMA RefusedMoves ==
    ASSUME TypeOK, NEW t \in Tasks, NEW pc \in Pcs, At(t, pc), NEW sent \in Pcs,
           Answer(t, sent, FALSE, NoOid)
    PROVE  \E c \in Call : /\ Moves(t, c) /\ c.pc = sent /\ ~c.ack
                           /\ c.tracked = task[t].tracked /\ c.price = task[t].price
<1> DEFINE c == [task[t] EXCEPT !.pc = sent, !.ack = FALSE, !.new = NoOid]
<1>1. task[t] \in Call
  BY InCall
<1>2. /\ c \in Call /\ c.pc = sent /\ ~c.ack
      /\ c.tracked = task[t].tracked /\ c.price = task[t].price
  BY <1>1 DEF Call
<1>3. Moves(t, c)
  BY DEF Answer, Moves
<1> QED  BY <1>2, <1>3

LEMMA LockInit == Init => LockInv
<1> SUFFICES ASSUME Init PROVE LockInv
  OBVIOUS
<1>1. TypeOK
  BY TypeInit
<1>2. PICK s, l \in Oids, p \in Prices, q \in Qtys, ladder, attached \in BOOLEAN :
        /\ s # l
        /\ orders = [o \in Oids |->
             CASE o = s /\ attached -> Placed("stop", p, q)
               [] o = l /\ ladder -> Placed("limit", p, MaxQty - q)
               [] OTHER -> Blank]
        /\ stops = [oid |-> IF attached THEN s ELSE NoOid, price |-> p, qty |-> q]
  BY DEF Init
<1>3. \A t \in Tasks : /\ task[t] = Idle /\ ~Token(t) /\ ~Answered(t) /\ ~InGap(t)
  BY DEF Init, Token, Answered, InGap, Idle
<1>4. /\ UsedStops \subseteq {s} /\ OpenStops(orders) \subseteq {s}
      /\ attached => s \in UsedStops /\ orders[s].status = "open" /\ orders[s].price = p
      /\ ~attached => UsedStops = {} /\ OpenStops(orders) = {}
  <2>1. Blank.status = "unused"
    BY BlankIsOrder
  <2>2. Placed("limit", p, MaxQty - q).kind = "limit"
    BY DEF Placed
  <2>3. /\ Placed("stop", p, q).kind = "stop" /\ Placed("stop", p, q).status = "open"
        /\ Placed("stop", p, q).price = p
    BY DEF Placed
  <2> QED  BY <1>2, <2>1, <2>2, <2>3 DEF UsedStops, OpenStops
<1>5. NamesInv /\ CheckedInv
  BY <1>2, <1>3, <1>4 DEF NamesInv, Names, CheckedInv
<1>6. OneTokenInv /\ GapInv /\ AnsweredInv
  BY <1>3 DEF OneTokenInv, GapInv, AnsweredInv
<1>7. NoOidInv /\ NakedInv
  <2>1. attached => stops.oid = s /\ s # NoOid
    BY <1>2, ResubmitterAssumption
  <2>2. ~attached => stops.oid = NoOid
    BY <1>2
  <2> QED  BY <1>3, <1>4, <2>1, <2>2 DEF NoOidInv, NakedInv
<1>8. AtMostOneOpenStop
  BY <1>4 DEF AtMostOneOpenStop
<1>9. OpenStopIsTracked
  <2>1. stops # NoStop
    BY <1>2, NoStopAssumption DEF TrackedStop
  <2> QED  BY <1>2, <1>4, <2>1 DEF OpenStopIsTracked
<1>10. OpenStopIsHighest
  BY <1>2, <1>4, BrokerAssumption DEF OpenStopIsHighest
<1>11. AlarmInv
  BY DEF Init, AlarmInv
<1> QED  BY <1>1, <1>5, <1>6, <1>7, <1>8, <1>9, <1>10, <1>11 DEF LockInv

\* What every step does to the invariant and, with it, to the tracked price.
PriceUp == stops # NoStop /\ stops' # NoStop => stops'.price >= stops.price

LEMMA SamePrice ==
    ASSUME TypeOK, UNCHANGED stops \/ stops' = NoStop
    PROVE  PriceUp
<1>1. stops # NoStop => stops.price \in Int
  BY BrokerAssumption DEF TypeOK, TrackedStop
<1> QED  BY <1>1 DEF PriceUp

LEMMA LockStep ==
    ASSUME ReliableVenue, LockInv, TypeOK', NEW t \in Tasks, Step(t)
    PROVE  LockInv' /\ PriceUp /\ Shown
<1> USE DEF venue
<1>0. TypeOK
  BY DEF LockInv
<1>1. CASE CancelReply(t)
  <2>1. task[t] \in Call /\ task[t] # Idle
    BY <1>0, <1>1, InCall DEF CancelReply, Pcs, At, Idle
  <2>2. CASE task[t].ack
    <3> DEFINE c == [task[t] EXCEPT !.pc = "submit", !.ack = FALSE]
    <3>1. /\ c \in Call /\ c.tracked = task[t].tracked /\ c.price = task[t].price
          /\ c.pc = "submit"
      BY <2>1 DEF Call, Pcs
    <3>2. Moves(t, c) /\ InGap(t)
      BY <1>1, <2>2 DEF CancelReply, Moves, InGap, Token, Answered, At
    <3> QED  BY <1>0, <1>1, <3>1, <3>2, LockInGap, SamePrice DEF CancelReply
  <2>3. CASE ~task[t].ack
    <3>1. Moves(t, Idle) /\ ~Token(t) /\ ~At(t, "removeSent")
      BY <1>1, <2>3 DEF CancelReply, Moves, Token, At
    <3> QED  BY <1>0, <1>1, <3>1, LockNoToken, SamePrice DEF CancelReply, Tokenless
  <2> QED  BY <2>2, <2>3
<1>2. CASE SubmitReply(t)
  <2>1. task[t] \in Call /\ task[t] # Idle
    BY <1>0, <1>2, InCall DEF SubmitReply, Pcs, At, Idle
  <2>2. CASE task[t].ack
    <3>1. Answered(t) /\ Moves(t, Idle)
      BY <1>2, <2>2 DEF SubmitReply, Answered, Moves, At
    <3>2. task[t].price \in Prices /\ task[t].price = orders[task[t].new].price
      BY <1>2, <2>1, <3>1 DEF LockInv, AnsweredInv, SubmitReply, At, Call
    <3>3. stops' = Track(t, task[t].price)
      BY <1>2, <2>2 DEF SubmitReply
    <3> QED  BY <1>2, <3>1, <3>2, <3>3, LockRecord DEF SubmitReply, PriceUp
  <2>3. CASE ~task[t].ack
    <3>1. InGap(t)
      BY <1>2, <2>3 DEF SubmitReply, InGap, Token, Answered, At
    <3>2. PICK c \in {[task[t] EXCEPT !.pc = "submit", !.attempt = @ + 1],
                      [task[t] EXCEPT !.pc = "emergency"]} :
            Moves(t, c)
      BY <1>2, <2>3 DEF SubmitReply, Moves
    <3>3. /\ c.tracked = task[t].tracked /\ c.price = task[t].price
          /\ c.pc \in {"submit", "emergency"}
      BY <2>1 DEF Call
    <3>4. c \in Call
      BY <2>1, <3>2, <3>3, MovesPointwise, <1>0 DEF TypeOK, Idle
    <3> QED  BY <1>0, <1>2, <2>3, <3>1, <3>2, <3>3, <3>4, LockInGap, SamePrice DEF SubmitReply
  <2> QED  BY <2>2, <2>3
<1>3. CASE EmergencyReply(t)
  <2>1. task[t] \in Call /\ task[t] # Idle
    BY <1>0, <1>3, InCall DEF EmergencyReply, Pcs, At, Idle
  <2>2. CASE task[t].ack
    <3>1. Answered(t) /\ Moves(t, Idle)
      BY <1>3, <2>2 DEF EmergencyReply, Answered, Moves, At
    <3>2. /\ task[t].tracked.price \in Prices
          /\ task[t].tracked.price = orders[task[t].new].price
          /\ task[t].new # NoOid
      BY <1>3, <2>1, <3>1, ResubmitterAssumption
      DEF LockInv, AnsweredInv, UsedStops, EmergencyReply, At, Call, TrackedStop
    <3>3. stops' = Track(t, task[t].tracked.price) /\ alarmed' = alarmed
      BY <1>0, <1>3, <2>2, <3>2 DEF EmergencyReply, TypeOK
    <3> QED  BY <1>3, <3>1, <3>2, <3>3, LockRecord DEF EmergencyReply, PriceUp
  <2>3. CASE ~task[t].ack
    <3>1. InGap(t) /\ Moves(t, Idle) /\ alarmed'
      BY <1>3, <2>3 DEF EmergencyReply, InGap, Token, Answered, At, Moves
    <3> QED  BY <1>0, <1>3, <2>3, <3>1, LockAlarm, SamePrice DEF EmergencyReply
  <2> QED  BY <2>2, <2>3
<1>4. CASE RemoveReply(t)
  BY <1>0, <1>4, LockPop, SamePrice DEF RemoveReply, Moves
<1>5. CASE ResubmitCancel(t) \/ RemoveCancel(t)
  <2>1. PICK pc \in {"cancel", "remove"}, sent \in {"cancelSent", "removeSent"} :
          /\ pc = "cancel" <=> sent = "cancelSent"
          /\ BrokerCancel(t, pc, sent)
    BY <1>5 DEF ResubmitCancel, RemoveCancel
  <2>2. task[t] # Idle /\ ~Token(t) /\ ~At(t, "removeSent")
    BY <2>1 DEF BrokerCancel, At, Idle, Token
  <2>. pc \in Pcs /\ sent \in Pcs /\ At(t, pc)
    BY <2>1 DEF BrokerCancel, Pcs
  <2>3. CASE Answer(t, sent, FALSE, NoOid) /\ UNCHANGED orders
    <3>1. PICK c \in Call : /\ Moves(t, c) /\ c.pc = sent /\ ~c.ack
                            /\ c.tracked = task[t].tracked /\ c.price = task[t].price
      BY <1>0, <2>3, RefusedMoves
    <3>2. /\ Names(c.tracked) /\ c.price >= c.tracked.price
          /\ \A u \in Tasks : Answered(u) => task[u].new # c.tracked.oid
      BY <2>2, <3>1 DEF LockInv, NamesInv, CheckedInv, AnsweredInv
    <3> QED  BY <1>0, <2>1, <2>2, <2>3, <3>1, <3>2, LockNoToken, SamePrice
             DEF BrokerCancel, Tokenless
  <2>4. CASE /\ Answer(t, sent, TRUE, NoOid)
             /\ task[t].tracked.oid \in Oids
             /\ orders[task[t].tracked.oid].status \in CancelAcks
             /\ orders' = [orders EXCEPT ![task[t].tracked.oid] = CancelRequested(@)]
    <3>1. PICK c \in Call : /\ Moves(t, c) /\ c.pc = sent /\ c.ack /\ c.new = NoOid
                            /\ c.tracked = task[t].tracked /\ c.price = task[t].price
                            /\ c.qty = task[t].qty
      <4> DEFINE r == [task[t] EXCEPT !.pc = sent, !.ack = TRUE, !.new = NoOid]
      <4>1. task[t] \in Call
        BY <1>0, InCall
      <4>2. r \in Call /\ r.pc = sent /\ r.ack /\ r.new = NoOid
            /\ r.tracked = task[t].tracked /\ r.price = task[t].price /\ r.qty = task[t].qty
        BY <4>1 DEF Call
      <4>3. Moves(t, r)
        BY <2>4 DEF Answer, Moves
      <4> QED  BY <4>2, <4>3
    <3>2. orders[c.tracked.oid].status = "open"
      BY <2>4, <3>1 DEF ReliableVenue
    <3>3. CASE sent = "cancelSent"
      BY <1>0, <2>1, <2>2, <2>4, <3>1, <3>2, <3>3, LockLift, SamePrice DEF BrokerCancel
    <3>4. CASE sent = "removeSent"
      BY <1>0, <2>1, <2>2, <2>4, <3>1, <3>2, <3>4, LockWithdraw, SamePrice DEF BrokerCancel
    <3> QED  BY <3>3, <3>4
  <2> QED  BY <2>1, <2>3, <2>4 DEF BrokerCancel, ReliableVenue
<1>6. CASE ResubmitSubmit(t) \/ EmergencySubmit(t)
  <2>1. PICK pc \in {"submit", "emergency"}, sent \in {"submitSent", "emergencySent"},
             p \in {task[t].price, task[t].tracked.price} :
          /\ \/ pc = "submit" /\ sent = "submitSent" /\ p = task[t].price
             \/ pc = "emergency" /\ sent = "emergencySent" /\ p = task[t].tracked.price
          /\ BrokerSubmit(t, pc, sent, p)
    BY <1>6 DEF ResubmitSubmit, EmergencySubmit
  <2>2. /\ task[t] \in Call /\ InGap(t)
        /\ UNCHANGED <<stops, alarmed, removed>>
    BY <1>0, <2>1, InCall DEF BrokerSubmit, At, InGap, Token, Answered, Pcs
  <2>3. p \in Prices
    BY <2>1, <2>2 DEF Call, TrackedStop
  <2>. pc \in Pcs /\ sent \in Pcs /\ At(t, pc)
    BY <2>1 DEF BrokerSubmit, Pcs
  <2>4. CASE Answer(t, sent, FALSE, NoOid) /\ UNCHANGED orders
    <3>1. PICK c \in Call : /\ Moves(t, c) /\ c.pc = sent /\ ~c.ack
                            /\ c.tracked = task[t].tracked /\ c.price = task[t].price
      BY <1>0, <2>4, RefusedMoves
    <3> QED  BY <1>0, <2>2, <2>4, <3>1, LockInGap, SamePrice
  <2>5. CASE \E o \in Unused(orders) :
               /\ orders' = [orders EXCEPT ![o] = Placed("stop", p, task[t].qty)]
               /\ Answer(t, sent, TRUE, o)
    <3>1. PICK o \in Unused(orders) :
               /\ orders' = [orders EXCEPT ![o] = Placed("stop", p, task[t].qty)]
               /\ Answer(t, sent, TRUE, o)
      BY <2>5
    <3>2. o \in Oids
      BY <1>0 DEF Unused, TypeOK
    <3>3. PICK c \in Call : /\ Moves(t, c) /\ c.pc = sent /\ c.ack /\ c.new = o
                            /\ c.tracked = task[t].tracked /\ c.price = task[t].price
                            /\ c.qty = task[t].qty
      <4> DEFINE r == [task[t] EXCEPT !.pc = sent, !.ack = TRUE, !.new = o]
      <4>1. r \in Call /\ r.pc = sent /\ r.ack /\ r.new = o
            /\ r.tracked = task[t].tracked /\ r.price = task[t].price /\ r.qty = task[t].qty
        BY <2>2, <3>2 DEF Call
      <4>2. Moves(t, r)
        BY <3>1 DEF Answer, Moves
      <4> QED  BY <4>1, <4>2
    <3> QED  BY <1>0, <2>1, <2>2, <2>3, <3>1, <3>3, LockPlace, SamePrice
  <2> QED  BY <2>1, <2>4, <2>5 DEF BrokerSubmit, ReliableVenue
<1> QED  BY <1>1, <1>2, <1>3, <1>4, <1>5, <1>6 DEF Step

\* A call of resubmit or cancel_and_remove begins.
LEMMA LockEnter ==
    ASSUME LockInv, TypeOK', NEW t \in Tasks, NEW pc \in {"cancel", "remove"},
           NEW p \in Prices, NEW q \in Qtys, Enter(t, pc, p, q), p >= stops.price,
           UNCHANGED <<orders, stops, alarmed, removed>>
    PROVE  LockInv' /\ Shown
<1> DEFINE c == [pc |-> pc, tracked |-> stops, price |-> p, qty |-> q,
                 attempt |-> 0, ack |-> FALSE, new |-> NoOid]
<1>1. stops # NoStop /\ Moves(t, c) /\ At(t, "idle")
  BY DEF Enter, Moves
<1>2. c \in Call
  BY <1>1, ResubmitterAssumption DEF LockInv, TypeOK, Call, Pcs
<1>3. ~Token(t) /\ ~At(t, "removeSent") /\ Tokenless(c)
  BY <1>1 DEF At, Token, Tokenless
<1>4. /\ c # Idle /\ Names(c.tracked) /\ c.price >= c.tracked.price
      /\ \A u \in Tasks : Answered(u) => task[u].new # c.tracked.oid
  BY <1>1 DEF LockInv, NamesInv, AnsweredInv, Idle
<1> QED  BY <1>1, <1>2, <1>3, <1>4, LockNoToken

LEMMA LockNext ==
    ASSUME ReliableVenue, LockInv, [Next]_vars
    PROVE  LockInv' /\ PriceUp /\ Shown
<1> USE DEF venue
<1>0. TypeOK /\ TypeOK'
  BY TypeNext DEF LockInv
<1>1. CASE \E t \in Tasks, p \in Prices, q \in Qtys : Resubmit(t, p, q)
  <2>1. PICK t \in Tasks, p \in Prices, q \in Qtys : Resubmit(t, p, q)
    BY <1>1
  <2> QED  BY <1>0, <2>1, LockEnter, SamePrice DEF Resubmit
<1>2. CASE \E t \in Tasks : CancelAndRemove(t)
  <2>1. PICK t \in Tasks : CancelAndRemove(t)
    BY <1>2
  <2>2. stops.price \in Prices /\ stops.qty \in Qtys /\ stops.price >= stops.price
    <3>1. stops \in TrackedStop
      BY <1>0, <2>1 DEF CancelAndRemove, TypeOK
    <3>2. stops.price \in Prices /\ stops.qty \in Qtys
      BY <3>1 DEF TrackedStop
    <3>3. stops.price \in Int
      BY <3>2, BrokerAssumption
    <3> QED  BY <3>2, <3>3
  <2> QED  BY <1>0, <2>1, <2>2, LockEnter, SamePrice DEF CancelAndRemove
<1>3. CASE \E t \in Tasks : Step(t)
  BY <1>0, <1>3, LockStep
<1>4. CASE Remove
  BY <1>0, <1>4, LockPop, SamePrice DEF Remove
<1>5. CASE \E o \in Oids, n \in Qtys : Execute(o, n)
  BY <1>0, <1>5, ExecuteOnlyCloses, LockVenue, SamePrice DEF Execute
<1>6. CASE \E o \in Oids : Settle(o)
  BY <1>0, <1>6, SettleOnlyCloses, LockVenue, SamePrice DEF Settle
<1>7. CASE (\E n \in Qtys : OtherSale(n)) \/ UNCHANGED vars
  <2>1. UNCHANGED orders /\ UNCHANGED <<stops, task, alarmed, removed>>
    BY <1>7 DEF OtherSale, vars
  <2>2. OrdersOnlyClose
    BY <2>1 DEF OrdersOnlyClose
  <2> QED  BY <1>0, <2>1, <2>2, LockVenue, SamePrice
<1> QED  BY <1>1, <1>2, <1>3, <1>4, <1>5, <1>6, <1>7 DEF Next

\* The lock invariant holds in every reachable state.
THEOREM LockCorrect == ASSUME ReliableVenue PROVE Spec => []LockInv
<1>1. LockInv /\ [Next]_vars => LockInv'
  BY LockNext
<1> QED  BY <1>1, LockInit, PTL DEF Spec

\* Cancel before submit gives mutual exclusion without a lock: for any number of
\* concurrent resubmits, the venue never has two protective stops open.
THEOREM OneStop == ASSUME ReliableVenue PROVE Spec => []AtMostOneOpenStop
<1>1. LockInv => AtMostOneOpenStop
  BY DEF LockInv
<1> QED  BY <1>1, LockCorrect, PTL

\* No protective stop is open that the resubmitter does not know of, unless the
\* position's tracking was popped.
THEOREM NoUnknownStop == ASSUME ReliableVenue PROVE Spec => []OpenStopIsTracked
<1>1. LockInv => OpenStopIsTracked
  BY DEF LockInv
<1> QED  BY <1>1, LockCorrect, PTL

\* The ratchet at the venue: the open stop has the highest price any stop ever had.
THEOREM VenueRatchet == ASSUME ReliableVenue PROVE Spec => []OpenStopIsHighest
<1>1. LockInv => OpenStopIsHighest
  BY DEF LockInv
<1> QED  BY <1>1, LockCorrect, PTL

\* A cancelled stop is never forgotten: it is replaced, removed, or alarmed.
THEOREM NeverSilentlyNaked == ASSUME ReliableVenue PROVE Spec => []NakedIsAlarmed
<1>1. LockInv => NakedIsAlarmed
  <2> SUFFICES ASSUME LockInv, \A t \in Tasks : At(t, "idle"), stops # NoStop, stops.oid # NoOid,
                      orders[stops.oid].status \in {"canceling", "canceled"}
               PROVE  alarmed
    BY DEF NakedIsAlarmed
  <2> QED  BY DEF LockInv, NakedInv, Token, At
<1> QED  BY <1>1, LockCorrect, PTL

\* The ratchet in _stops: the tracked price never goes down, whatever resubmits
\* interleave between the ratchet check and the write.
THEOREM TrackerRatchet == ASSUME ReliableVenue PROVE Spec => TrackedPriceOnlyUp
<1>1. LockInv /\ [Next]_vars => [stops # NoStop /\ stops' # NoStop => stops'.price >= stops.price]_vars
  BY LockNext DEF PriceUp
<1> QED  BY <1>1, LockCorrect, PTL DEF Spec, TrackedPriceOnlyUp

\* In the first state a stop is in place or there is none.
LEMMA ShownInit == Init => Abstract!Start
<1> SUFFICES ASSUME Init PROVE Abstract!Start
  OBVIOUS
<1>1. TypeOK /\ LockInv
  BY LockInit DEF LockInv
<1>2. phaseBar \in {"live", "over"}
  BY DEF Init, phaseBar, InGap, Token, Idle
<1>3. levelBar \in Prices
  <2>1. Levels # {} => levelBar \in Levels
    BY DEF levelBar
  <2>2. Levels # {}
    <3>1. stops # NoStop /\ stops.price \in Prices
      BY NoStopAssumption DEF Init, TrackedStop
    <3>2. CASE UsedStops = {}
      BY <3>1, <3>2 DEF Levels
    <3>3. CASE UsedStops # {}
      <4>1. PICK o \in UsedStops : UsedStops = {o}
        <5>1. PICK s, l \in Oids, p \in Prices, q \in Qtys, ladder, attached \in BOOLEAN :
                orders = [o \in Oids |->
                    CASE o = s /\ attached -> Placed("stop", p, q)
                      [] o = l /\ ladder -> Placed("limit", p, MaxQty - q)
                      [] OTHER -> Blank]
          BY DEF Init
        <5>2. Placed("limit", p, MaxQty - q).kind = "limit"
          BY DEF Placed
        <5>3. UsedStops \subseteq {s}
          BY <5>1, <5>2, BlankIsOrder DEF UsedStops
        <5> QED  BY <3>3, <5>3
      <4>2. orders[o].price \in Prices /\ orders[o].price \in Int
        BY <1>1, <4>1, OrderFields DEF UsedStops, TypeOK, Order
      <4>3. orders[o].price \in Levels
        BY <4>1, <4>2 DEF Levels
      <4> QED  BY <4>3
    <3> QED  BY <3>2, <3>3
  <2> QED  BY <2>1, <2>2 DEF Levels
<1> QED  BY <1>2, <1>3 DEF Abstract!Start

\* The resubmitter implements the abstract stop, step by step: whatever resubmits,
\* removals, retries, executions and settlements interleave, the venue shows one stop
\* that is lifted, replaced at its level or above, lost with the alarm, or over.
THEOREM Refinement == ASSUME ReliableVenue PROVE Spec => Abstract!StopSafety
<1>1. LockInv /\ [Next]_vars => Shown
  BY LockNext
<1> QED  BY <1>1, ShownInit, LockCorrect, PTL DEF Spec, Abstract!StopSafety, Shown
=============================================================================
