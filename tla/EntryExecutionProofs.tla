------------------------ MODULE EntryExecutionProofs ------------------------
(***************************************************************************)
(* Proofs about EntryExecution, for any quantity, any number of polls,     *)
(* checks and entries.                                                     *)
(***************************************************************************)
EXTENDS EntryExecution, TLAPS

(***************************************************************************)
(* Types, part by part.                                                    *)
(***************************************************************************)

LEMMA Constants == Qty \in Nat \ {0} /\ MaxPolls \in Nat \ {0} /\ Checks \in Nat \ {0}
                   /\ MaxEntries \in Nat \ {0} /\ Entries = 1 .. MaxEntries
  BY EntryAssumption DEF Entries

LEMMA TypeInit == Init => TypeOK
<1> SUFFICES ASSUME Init PROVE TypeOK
  OBVIOUS
<1>1. NoOrder \in Order /\ NoView \in View
  BY Constants DEF NoOrder, Order, NoView, View, OrderStates
<1>2. VenueOK
  BY <1>1 DEF Init, VenueOK, Alive, NoOrder
<1>3. CallOK
  BY <1>1, Constants DEF Init, CallOK
<1>4. NoCheck \in CheckState
  BY Constants DEF NoCheck, Waiting, CheckState
<1>5. TrackerOK
  BY <1>4, Constants DEF Init, TrackerOK, Untracked
<1>6. crossed \subseteq {"exit", "entry"} /\ fresh \in BOOLEAN
  BY DEF Init
<1> QED  BY <1>2, <1>3, <1>5, <1>6 DEF TypeOK

LEMMA VenuePlacing ==
    ASSUME TypeOK, NEW st \in {"live", "filled", "done", "ended"}, NEW q \in 0 .. Qty,
           st = "live" => q < Qty, Placing(st, q)
    PROVE  VenueOK' /\ n + 1 \in Entries /\ n' \in 0 .. MaxEntries /\ n' > 0 /\ seen' \in View
<1>1. n + 1 \in Entries /\ n' \in 0 .. MaxEntries /\ n' > 0
  BY Constants DEF TypeOK, CallOK, Placing
<1>2. [st |-> st, filled |-> q] \in Order /\ NoView \in View
  BY Constants DEF Order, View, NoView, OrderStates
<1>3. held' \in Nat /\ sold' \in Nat
  BY Constants DEF TypeOK, VenueOK, Placing
<1>4. order' \in [Entries -> Order]
  BY <1>1, <1>2 DEF TypeOK, VenueOK, Placing
<1>5. \A e \in Entries : Alive(e)' => order'[e].filled < Qty
  BY <1>1, <1>2 DEF TypeOK, VenueOK, Placing, Alive
<1> QED  BY <1>1, <1>2, <1>3, <1>4, <1>5 DEF VenueOK, Placing

LEMMA VenueStep ==
    ASSUME TypeOK, Step
    PROVE  VenueOK'
<1>1. ASSUME NEW e \in Entries, Fill(e)
      PROVE  VenueOK'
  <2>1. /\ order[e].filled + 1 \in 0 .. Qty /\ order[e].st \in {"live", "cancelling"}
        /\ held' \in Nat /\ sold' \in Nat
    BY <1>1, Constants DEF TypeOK, VenueOK, Fill, Alive, Order
  <2>2. order' \in [Entries -> Order]
    BY <1>1, <2>1 DEF TypeOK, VenueOK, Fill, Order, OrderStates
  <2>3. \A d \in Entries : Alive(d)' => order'[d].filled < Qty
    BY <1>1, <2>1, Constants DEF TypeOK, VenueOK, Fill, Alive, Order
  <2> QED  BY <2>1, <2>2, <2>3 DEF VenueOK
<1>2. ASSUME NEW e \in Entries, EndOrder(e)
      PROVE  VenueOK'
  <2>1. PICK st \in {"ended", "done", "replaced"} : order' = [order EXCEPT ![e].st = st]
    BY <1>2 DEF EndOrder
  <2>2. order' \in [Entries -> Order] /\ order'[e].st = st
        /\ \A d \in Entries \ {e} : order'[d] = order[d]
    BY <2>1 DEF TypeOK, VenueOK, Order, OrderStates
  <2> QED  BY <1>2, <2>2 DEF TypeOK, VenueOK, EndOrder, Alive
<1>3. CASE Sell
  BY <1>3 DEF TypeOK, VenueOK, Sell, Alive
<1>4. CASE BookSale
  BY <1>4 DEF TypeOK, VenueOK, BookSale, Alive
<1>5. CASE SubmitFilled
  BY <1>5, VenuePlacing, Constants DEF SubmitFilled
<1>6. CASE SubmitAccepted
  BY <1>6, VenuePlacing, Constants DEF SubmitAccepted
<1>14. CASE SubmitDone
  BY <1>14, VenuePlacing, Constants DEF SubmitDone
<1>7. CASE SubmitRefused
  BY <1>7, VenuePlacing, Constants DEF SubmitRefused
<1>8. CASE SubmitLost
  BY <1>8, VenuePlacing, Constants DEF SubmitLost
<1>9. CASE CancelTaken
  <2>1. n \in Entries
    BY <1>9, Constants DEF TypeOK, CallOK, CancelTaken
  <2> QED  BY <1>9, <2>1 DEF TypeOK, VenueOK, CancelTaken, Alive, Order, OrderStates
<1>10. ASSUME UNCHANGED venue
       PROVE  VenueOK'
  BY <1>10 DEF TypeOK, VenueOK, venue, Alive
<1>11. ASSUME NEW e \in Entries, Check(e)
       PROVE  UNCHANGED venue
  BY <1>11 DEF Check, CheckStarts, CheckAnswers, CheckFails, CheckApplies
<1>12. CASE Poll
  BY <1>10, <1>12 DEF Poll, PollRead, PollMisses, PollFails
<1>13. CASE Drop \/ CancelFails \/ Dead \/ Accept
  BY <1>10, <1>13 DEF Drop, CancelFails, Dead, Accept
<1> QED
  BY <1>1, <1>2, <1>3, <1>4, <1>5, <1>6, <1>7, <1>8, <1>9, <1>10, <1>11, <1>12, <1>13, <1>14
     DEF Step, Submit, Decide

\* A call leaves its locals empty.
LEMMA Returned == Return => pc' = "idle" /\ polls' \in 0 .. MaxPolls /\ seen' \in View
  BY Constants DEF Return, View, NoView, OrderStates

LEMMA CallStep ==
    ASSUME TypeOK, Step
    PROVE  CallOK'
<1>0. pc # "idle" => n \in Entries
  BY Constants DEF TypeOK, CallOK
<1>1. ASSUME UNCHANGED bridge
      PROVE  CallOK'
  BY <1>1 DEF TypeOK, CallOK, bridge, judged, local
<1>2. ASSUME NEW e \in Entries, Fill(e) \/ EndOrder(e) \/ Check(e)
      PROVE  CallOK'
  BY <1>1, <1>2 DEF Fill, EndOrder, Check, CheckStarts, CheckAnswers, CheckFails, CheckApplies
<1>3. CASE Sell \/ BookSale
  BY <1>1, <1>3 DEF Sell, BookSale
<1>4. CASE SubmitFilled
  <2>1. n + 1 \in Entries /\ n' \in 0 .. MaxEntries /\ n' > 0 /\ seen' \in View
    BY <1>4, VenuePlacing, Constants DEF SubmitFilled
  <2> QED  BY <1>4, <2>1, Returned DEF TypeOK, CallOK, SubmitFilled, AddPosition, Placing
<1>13. CASE SubmitDone
  <2>1. PICK q \in 0 .. Qty - 1 : Placing("done", q) /\ AddPosition(n + 1, Qty, Qty - q)
    BY <1>13 DEF SubmitDone
  <2>2. n + 1 \in Entries /\ n' \in 0 .. MaxEntries /\ n' > 0 /\ seen' \in View
    BY <2>1, VenuePlacing, Constants
  <2>3. assumed' \in Nat
    BY <2>1, Constants DEF TypeOK, CallOK, AddPosition
  <2> QED  BY <2>1, <2>2, <2>3, Returned DEF TypeOK, CallOK, AddPosition, Placing
<1>5. CASE SubmitAccepted
  <2>1. PICK q \in 0 .. Qty - 1 : Placing("live", q) /\ pc' = "poll" /\ polls' = MaxPolls
                                  /\ UNCHANGED judged
    BY <1>5 DEF SubmitAccepted
  <2>2. n' \in 0 .. MaxEntries /\ n' > 0 /\ seen' \in View
    BY <2>1, VenuePlacing, Constants
  <2> QED  BY <2>1, <2>2, Constants DEF TypeOK, CallOK, Placing, judged
<1>6. CASE SubmitRefused
  <2>1. n + 1 \in Entries /\ n' \in 0 .. MaxEntries /\ n' > 0 /\ seen' \in View
    BY <1>6, VenuePlacing, Constants DEF SubmitRefused
  <2> QED  BY <1>6, <2>1, Returned DEF TypeOK, CallOK, SubmitRefused, GiveUp, Placing
<1>7. CASE SubmitLost
  <2>1. n + 1 \in Entries /\ n' \in 0 .. MaxEntries /\ n' > 0 /\ seen' \in View
    BY <1>7, VenuePlacing, Constants DEF SubmitLost
  <2> QED  BY <1>7, <2>1, Returned DEF TypeOK, CallOK, SubmitLost, GiveUp, Placing
<1>8. CASE PollRead
  <2>1. n \in Entries /\ order[n] \in Order /\ order[n].filled \in 0 .. Qty
    BY <1>8, <1>0 DEF TypeOK, VenueOK, PollRead, Order
  <2>2. polls' \in 0 .. MaxPolls /\ pc' \in {"poll", "decide"} /\ (pc' = "poll" => polls' > 0)
    BY <1>8, Constants DEF TypeOK, CallOK, PollRead
  <2>3. PICK priced \in BOOLEAN :
          /\ seen' = [st |-> order[n].st, filled |-> order[n].filled, priced |-> priced]
          /\ shown' = [shown EXCEPT ![n] = IF priced THEN order[n].filled ELSE 0]
    BY <1>8 DEF PollRead
  <2>4. seen' \in View
    BY <2>1, <2>3 DEF Order, View
  <2>5. shown' \in [Entries -> 0 .. Qty]
    BY <2>1, <2>3, Constants DEF TypeOK, CallOK
  <2> QED  BY <1>8, <2>1, <2>2, <2>4, <2>5 DEF TypeOK, CallOK, PollRead, judged
<1>9. CASE PollMisses
  BY <1>9, Constants DEF TypeOK, CallOK, PollMisses, judged
<1>10. CASE PollFails \/ Drop
  BY <1>10 DEF TypeOK, CallOK, PollFails, Drop, judged
<1>11. CASE CancelTaken \/ CancelFails \/ Dead
  BY <1>11, Returned DEF TypeOK, CallOK, CancelTaken, CancelFails, Dead, GiveUp
<1>12. CASE Accept
  <2>1. assumed' \in Nat /\ Return /\ UNCHANGED <<n, shown>>
    BY <1>12, Constants DEF TypeOK, CallOK, Accept, AddPosition
  <2>2. verdict' = [verdict EXCEPT ![n] = "tracked"]
    BY <1>12 DEF Accept, AddPosition
  <2> QED  BY <2>1, <2>2, Returned DEF TypeOK, CallOK
<1> QED
  BY <1>2, <1>3, <1>4, <1>5, <1>6, <1>7, <1>8, <1>9, <1>10, <1>11, <1>12, <1>13
     DEF Step, Submit, Poll, Decide

LEMMA WaitingIsCheck ==
    ASSUME NEW l \in 0 .. Checks, NEW o \in 0 .. MaxEntries
    PROVE  Waiting(l, o) \in CheckState
  BY DEF Waiting, CheckState

LEMMA NoCheckIsCheck == NoCheck \in CheckState
  BY WaitingIsCheck, Constants DEF NoCheck

\* A position added to the tracker, with its checks.
LEMMA TrackerAddPosition ==
    ASSUME TypeOK, NEW e \in Entries, NEW q \in Nat, NEW ghosts, AddPosition(e, q, ghosts)
    PROVE  TrackerOK'
<1>1. e \in 0 .. MaxEntries
  BY Constants
<1>2. Merged(e, q) \in [qty : Nat, left : Nat, obj : 0 .. MaxEntries]
      /\ Merged(e, q).left <= Merged(e, q).qty
  <2>1. CASE pos.left > 0
    BY <1>1, <2>1 DEF TypeOK, TrackerOK, Merged
  <2>2. CASE ~(pos.left > 0)
    BY <1>1, <2>2 DEF TypeOK, TrackerOK, Merged
  <2> QED  BY <2>1, <2>2
<1>3. Merged(e, q).obj \in 0 .. MaxEntries /\ check[e] \in CheckState
  BY <1>2 DEF TypeOK, TrackerOK
<1>4. Waiting(Checks, Merged(e, q).obj) \in CheckState
  BY <1>3, WaitingIsCheck, Constants
<1> QED  BY <1>2, <1>4 DEF TypeOK, TrackerOK, AddPosition, Return

LEMMA TrackerStep ==
    ASSUME TypeOK, Step
    PROVE  TrackerOK'
<1>1. ASSUME UNCHANGED <<pos, check>>
      PROVE  TrackerOK'
  BY <1>1 DEF TypeOK, TrackerOK
<1>2. ASSUME NEW e \in Entries, Fill(e) \/ EndOrder(e)
      PROVE  TrackerOK'
  BY <1>1, <1>2 DEF Fill, EndOrder
<1>3. CASE Sell \/ Poll \/ Drop \/ CancelTaken \/ CancelFails \/ Dead
  BY <1>1, <1>3 DEF Sell, Poll, PollRead, PollMisses, PollFails, Drop, CancelTaken,
                    CancelFails, Dead, GiveUp, Return
<1>4. CASE SubmitAccepted \/ SubmitRefused \/ SubmitLost
  BY <1>1, <1>4 DEF SubmitAccepted, SubmitRefused, SubmitLost, GiveUp, Return
<1>5. CASE BookSale
  <2>1. pos' \in [qty : Nat, left : Nat, obj : 0 .. MaxEntries] /\ pos'.left <= pos'.qty
    BY <1>5, Constants DEF TypeOK, TrackerOK, BookSale, Untracked
  <2> QED  BY <1>5, <2>1 DEF TypeOK, TrackerOK, BookSale
<1>6. CASE SubmitFilled
  BY <1>6, VenuePlacing, TrackerAddPosition, Constants DEF SubmitFilled
<1>9. CASE SubmitDone
  <2>1. PICK q \in 0 .. Qty - 1 : Placing("done", q) /\ AddPosition(n + 1, Qty, Qty - q)
    BY <1>9 DEF SubmitDone
  <2>2. n + 1 \in Entries /\ Qty \in Nat
    BY <2>1, VenuePlacing, Constants
  <2> QED  BY <2>1, <2>2, TrackerAddPosition
<1>7. CASE Accept
  <2>1. n \in Entries /\ seen.filled \in Nat /\ Qty \in Nat
    BY <1>7, Constants DEF TypeOK, CallOK, Accept, View
  <2> QED  BY <1>7, <2>1, TrackerAddPosition DEF Accept
<1>8. ASSUME NEW e \in Entries, Check(e)
      PROVE  TrackerOK'
  <2>1. /\ check[e].left \in 0 .. Checks /\ check[e].obj \in 0 .. MaxEntries
        /\ check[e].internal \in Nat /\ check[e].sample \in Nat /\ held \in Nat
    BY DEF TypeOK, VenueOK, TrackerOK, CheckState
  <2>2. Waiting(check[e].left, check[e].obj) \in CheckState
    BY <2>1, WaitingIsCheck
  <2>3. CASE CheckStarts(e)
    <3> DEFINE q == IF check[e].obj = pos.obj THEN pos.qty ELSE 0
               c == [left |-> check[e].left - 1, obj |-> check[e].obj, step |-> "asked",
                     internal |-> q, sample |-> 0]
    <3>1. q \in Nat
      BY DEF TypeOK, TrackerOK
    <3>2. check' = [check EXCEPT ![e] = IF pos.obj = 0 THEN NoCheck ELSE c] /\ pos' = pos
          /\ check[e].left > 0
      BY <2>3 DEF CheckStarts
    <3> HIDE DEF q
    <3>3. c \in CheckState
      <4>1. check[e].left - 1 \in 0 .. Checks
        BY <2>1, <3>2, Constants
      <4> QED  BY <2>1, <3>1, <4>1 DEF CheckState
    <3> HIDE DEF c
    <3> QED  BY <3>2, <3>3, NoCheckIsCheck DEF TypeOK, TrackerOK
  <2>4. CASE CheckAnswers(e)
    BY <2>1, <2>4 DEF CheckAnswers, TypeOK, TrackerOK, CheckState
  <2>5. CASE CheckFails(e)
    BY <2>2, <2>5 DEF CheckFails, TypeOK, TrackerOK
  <2>6. CASE CheckApplies(e)
    <3>1. check' \in [Entries -> CheckState]
      BY <2>2, <2>6 DEF CheckApplies, TypeOK, TrackerOK
    <3>2. pos' \in [qty : Nat, left : Nat, obj : 0 .. MaxEntries] /\ pos'.left <= pos'.qty
      BY <2>1, <2>6 DEF CheckApplies, TypeOK, TrackerOK
    <3> QED  BY <3>1, <3>2 DEF TrackerOK
  <2> QED  BY <1>8, <2>3, <2>4, <2>5, <2>6 DEF Check
<1> QED
  BY <1>2, <1>3, <1>4, <1>5, <1>6, <1>7, <1>8, <1>9 DEF Step, Submit, Decide

LEMMA FreshStep ==
    ASSUME TypeOK, Step
    PROVE  fresh' \in BOOLEAN
<1>1. ASSUME NEW e \in Entries, Fill(e) \/ EndOrder(e)
      PROVE  fresh' \in BOOLEAN
  BY <1>1 DEF TypeOK, Fill, EndOrder
<1>2. ASSUME NEW e \in Entries, Check(e)
      PROVE  fresh' \in BOOLEAN
  BY <1>2 DEF TypeOK, Check, CheckStarts, CheckAnswers, CheckFails, CheckApplies
<1>3. CASE Sell \/ BookSale
  BY <1>3 DEF TypeOK, Sell, BookSale
<1>4. CASE Submit
  BY <1>4 DEF Submit, SubmitFilled, SubmitDone, SubmitAccepted, SubmitRefused, SubmitLost, Placing
<1>5. CASE Poll
  BY <1>5 DEF TypeOK, Poll, PollRead, PollMisses, PollFails
<1>6. CASE Decide
  BY <1>6 DEF TypeOK, Decide, Drop, CancelTaken, CancelFails, Dead, Accept
<1> QED  BY <1>1, <1>2, <1>3, <1>4, <1>5, <1>6 DEF Step

LEMMA TypeStep == TypeOK /\ [Next]_vars => TypeOK'
<1> SUFFICES ASSUME TypeOK, [Next]_vars PROVE TypeOK'
  OBVIOUS
<1>1. CASE Next
  <2>1. Step /\ crossed' \subseteq {"exit", "entry"}
    BY <1>1 DEF TypeOK, Next, Crossing
  <2> QED  BY <2>1, VenueStep, CallStep, TrackerStep, FreshStep DEF TypeOK
<1>2. CASE UNCHANGED vars
  BY <1>2 DEF vars, venue, bridge, judged, local, TypeOK, VenueOK, CallOK, TrackerOK, Alive
<1> QED  BY <1>1, <1>2

(* Orders, the call in progress, the tracker and the checks keep their     *)
(* types: quantities never pass zero, and an order never fills beyond      *)
(* what was ordered.                                                       *)
THEOREM TypeCorrect == Spec => []TypeOK
  BY TypeInit, TypeStep, PTL DEF Spec

\* What the steps of the venue, the exits and the checks leave alone.
LEMMA Apart ==
    ASSUME NEW e \in Entries
    PROVE  /\ Fill(e) \/ EndOrder(e) => UNCHANGED <<sold, bridge, pos, check>>
           /\ Check(e) => UNCHANGED <<venue, bridge>>
           /\ Sell \/ BookSale => UNCHANGED <<order, bridge, check>>
  BY DEF Fill, EndOrder, Check, CheckStarts, CheckAnswers, CheckFails, CheckApplies, Sell, BookSale

----------------------------------------------------------------------------
(***************************************************************************)
(* LiveIsOwned.  The call in progress owns the order of entry n, and what  *)
(* it has seen to be over is over.                                         *)
(***************************************************************************)

OwnedInv ==
    /\ \A e \in Entries : order[e].st = "live" =>
          verdict[e] \in {"tracked", "refused", "lost"} \/ (e = n /\ pc # "idle")
    /\ pc \in {"poll", "decide"} /\ seen.st = "ended" => order[n].st = "ended"

LEMMA OwnedInit == Init => OwnedInv
  BY DEF Init, OwnedInv, NoOrder

LEMMA OwnedPlacing ==
    ASSUME TypeOK, OwnedInv, NEW st \in {"live", "filled", "done", "ended"}, NEW q \in 0 .. Qty,
           Placing(st, q), \A e \in Entries \ {n + 1} : verdict'[e] = verdict[e],
           st = "live" => pc' # "idle" \/ verdict'[n + 1] = "lost"
    PROVE  OwnedInv'
<1>1. n + 1 \in Entries /\ n' = n + 1 /\ n \in Nat
  BY Constants DEF TypeOK, CallOK, Placing
<1>2. order'[n + 1].st = st /\ \A e \in Entries \ {n + 1} : order'[e] = order[e]
  BY <1>1 DEF TypeOK, VenueOK, Placing
<1>3. pc = "idle" /\ seen'.st = "none"
  BY DEF Placing, NoView
<1> QED  BY <1>1, <1>2, <1>3 DEF OwnedInv

LEMMA OwnedStep ==
    ASSUME TypeOK, OwnedInv, Step
    PROVE  OwnedInv'
<1>0. pc # "idle" => n \in Entries
  BY Constants DEF TypeOK, CallOK
<1>1. ASSUME UNCHANGED <<order, bridge>>
      PROVE  OwnedInv'
  BY <1>1 DEF OwnedInv, bridge, judged, local
<1>2. ASSUME NEW e \in Entries, Fill(e)
      PROVE  OwnedInv'
  <2>1. \A d \in Entries : order'[d].st = order[d].st \/ (d = e /\ order'[d].st = "filled")
    BY <1>2 DEF TypeOK, VenueOK, Fill
  <2>2. order[e].st # "ended" /\ UNCHANGED bridge
    BY <1>2 DEF Fill, Alive
  <2> QED  BY <1>0, <2>1, <2>2 DEF OwnedInv, bridge, judged, local
<1>3. ASSUME NEW e \in Entries, EndOrder(e)
      PROVE  OwnedInv'
  <2>1. \A d \in Entries : \/ order'[d].st = order[d].st
                           \/ d = e /\ order'[d].st \in {"ended", "done", "replaced"}
    BY <1>3 DEF TypeOK, VenueOK, EndOrder, Order
  <2>2. order[e].st # "ended" /\ UNCHANGED bridge
    BY <1>3 DEF EndOrder, Alive
  <2> QED  BY <1>0, <2>1, <2>2 DEF OwnedInv, bridge, judged, local
<1>4. ASSUME NEW e \in Entries, Check(e)
      PROVE  OwnedInv'
  BY <1>1, <1>4, Apart DEF venue
<1>5. CASE Sell \/ BookSale
  BY <1>1, <1>5 DEF Sell, BookSale
<1>6. CASE SubmitFilled
  <2>1. \A e \in Entries \ {n + 1} : verdict'[e] = verdict[e]
    BY <1>6 DEF TypeOK, CallOK, SubmitFilled, AddPosition, Return
  <2> QED  BY <1>6, <2>1, OwnedPlacing, Constants DEF SubmitFilled
<1>15. CASE SubmitDone
  <2>1. PICK q \in 0 .. Qty - 1 : Placing("done", q) /\ AddPosition(n + 1, Qty, Qty - q)
    BY <1>15 DEF SubmitDone
  <2>2. \A e \in Entries \ {n + 1} : verdict'[e] = verdict[e]
    BY <2>1 DEF TypeOK, CallOK, AddPosition, Return
  <2> QED  BY <2>1, <2>2, OwnedPlacing, Constants
<1>7. CASE SubmitAccepted
  <2>1. PICK q \in 0 .. Qty - 1 : Placing("live", q) /\ pc' = "poll" /\ verdict' = verdict
    BY <1>7 DEF SubmitAccepted, judged
  <2> QED  BY <2>1, OwnedPlacing, Constants
<1>8. CASE SubmitRefused
  <2>1. \A e \in Entries \ {n + 1} : verdict'[e] = verdict[e]
    BY <1>8 DEF TypeOK, CallOK, SubmitRefused, GiveUp, Return
  <2> QED  BY <1>8, <2>1, OwnedPlacing, Constants DEF SubmitRefused
<1>9. CASE SubmitLost
  <2>1. \A e \in Entries \ {n + 1} : verdict'[e] = verdict[e]
    BY <1>9 DEF TypeOK, CallOK, SubmitLost, GiveUp, Return
  <2>2. n + 1 \in Entries /\ verdict'[n + 1] = "lost"
    BY <1>9, VenuePlacing, Constants DEF TypeOK, CallOK, SubmitLost, GiveUp, Return
  <2> QED  BY <1>9, <2>1, <2>2, OwnedPlacing, Constants DEF SubmitLost
<1>10. CASE Poll
  <2>1. UNCHANGED <<venue, n, verdict>> /\ n \in Entries /\ pc = "poll"
        /\ pc' \in {"poll", "decide"}
    BY <1>0, <1>10 DEF Poll, PollRead, PollMisses, PollFails, judged
  <2>2. seen' = seen \/ seen'.st = order[n].st
    BY <1>10 DEF Poll, PollRead, PollMisses, PollFails
  <2> QED  BY <2>1, <2>2 DEF OwnedInv, venue
<1>11. CASE Drop
  BY <1>11 DEF OwnedInv, Drop, venue, judged
<1>12. CASE CancelTaken
  <2>1. order'[n].st # "live" /\ \A e \in Entries \ {n} : order'[e] = order[e]
    BY <1>0, <1>12 DEF TypeOK, VenueOK, CancelTaken, Order
  <2> QED  BY <1>0, <1>12, <2>1 DEF TypeOK, CallOK, OwnedInv, CancelTaken, GiveUp, Return
<1>13. CASE CancelFails \/ Dead
  BY <1>0, <1>13 DEF TypeOK, CallOK, OwnedInv, CancelFails, Dead, GiveUp, Return, venue
<1>14. CASE Accept
  BY <1>0, <1>14 DEF TypeOK, CallOK, OwnedInv, Accept, AddPosition, Return, venue
<1> QED
  BY <1>2, <1>3, <1>4, <1>5, <1>6, <1>7, <1>8, <1>9, <1>10, <1>11, <1>12, <1>13, <1>14, <1>15
     DEF Step, Submit, Decide

(* An entry order that is live at the venue when no call is in progress    *)
(* belongs to a tracked position, or its cancel request failed, or its     *)
(* submission was never answered.                                          *)
THEOREM EntriesAreOwned == Spec => []LiveIsOwned
<1>1. OwnedInv => LiveIsOwned
  BY DEF OwnedInv, LiveIsOwned
<1>2. TypeOK /\ OwnedInv /\ [Next]_vars => OwnedInv'
  <2> SUFFICES ASSUME TypeOK, OwnedInv, [Next]_vars PROVE OwnedInv'
    OBVIOUS
  <2>1. CASE Next
    BY <2>1, OwnedStep DEF Next
  <2>2. CASE UNCHANGED vars
    BY <2>2 DEF OwnedInv, vars, venue, bridge, judged, local
  <2> QED  BY <2>1, <2>2
<1> QED  BY OwnedInit, <1>1, <1>2, TypeCorrect, PTL DEF Spec

----------------------------------------------------------------------------
(***************************************************************************)
(* KnownFillsAreTracked.  The verdict on an entry is passed once, after    *)
(* its polls; an entry looks useless, and goes to its cancel, only when no *)
(* poll has shown a fill with its price.                                   *)
(***************************************************************************)

KnownInv ==
    /\ \A e \in Entries : e > n => shown[e] = 0 /\ verdict[e] = "none"
    /\ \A e \in Entries : e = n /\ pc # "idle" => verdict[e] = "none"
    /\ \A e \in Entries : order[e].st = "none" => order[e].filled = 0
    /\ pc \in {"poll", "decide"} /\ (seen.st = "none" \/ ~seen.priced) => shown[n] = 0
    /\ pc = "cancel" => shown[n] = 0
    /\ KnownFillsAreTracked

LEMMA KnownInit == Init => KnownInv
<1> SUFFICES ASSUME Init PROVE KnownInv
  OBVIOUS
<1> QED  BY Constants DEF Init, KnownInv, KnownFillsAreTracked, NoOrder

LEMMA KnownPlacing ==
    ASSUME TypeOK, KnownInv, NEW st \in {"live", "filled", "done", "ended"}, NEW q \in 0 .. Qty,
           Placing(st, q), pc' \in {"idle", "poll"},
           \A e \in Entries \ {n + 1} : verdict'[e] = verdict[e],
           pc' = "poll" => verdict'[n + 1] = "none"
    PROVE  KnownInv'
<1>1. n + 1 \in Entries /\ n' = n + 1 /\ n \in Nat
  BY Constants DEF TypeOK, CallOK, Placing
<1>2. order'[n + 1].st = st /\ \A e \in Entries \ {n + 1} : order'[e] = order[e]
  BY <1>1 DEF TypeOK, VenueOK, Placing
<1>3. shown' = shown /\ shown[n + 1] = 0
  BY <1>1 DEF KnownInv, Placing
<1>4. \A e \in Entries : e > n' => e \in Entries \ {n + 1} /\ e > n
  BY <1>1, Constants
<1>5. \A e \in Entries : order'[e].st = "none" => order'[e].filled = 0
  BY <1>2 DEF KnownInv
<1>6. \A e \in Entries : e > n' => shown'[e] = 0 /\ verdict'[e] = "none"
  BY <1>3, <1>4 DEF KnownInv
<1>7. \A e \in Entries : e = n' /\ pc' # "idle" => verdict'[e] = "none"
  BY <1>1
<1>8. KnownFillsAreTracked'
  BY <1>3 DEF KnownInv, KnownFillsAreTracked
<1> QED  BY <1>1, <1>3, <1>5, <1>6, <1>7, <1>8 DEF KnownInv

LEMMA KnownVerdict ==
    ASSUME TypeOK, KnownInv, pc # "idle", pc' = "idle", UNCHANGED <<n, shown>>,
           \A e \in Entries : order'[e].st = "none" => order'[e].filled = 0,
           \A e \in Entries \ {n} : verdict'[e] = verdict[e],
           verdict'[n] \in {"dropped", "refused"} => shown[n] = 0
    PROVE  KnownInv'
<1>1. n \in Entries
  BY Constants DEF TypeOK, CallOK
<1>2. KnownFillsAreTracked'
  BY <1>1 DEF KnownInv, KnownFillsAreTracked
<1>3. \A e \in Entries : e > n => e \in Entries \ {n}
  BY <1>1, Constants
<1> QED  BY <1>1, <1>2, <1>3 DEF KnownInv

LEMMA KnownStep ==
    ASSUME TypeOK, KnownInv, Step
    PROVE  KnownInv'
<1>0. pc # "idle" => n \in Entries
  BY Constants DEF TypeOK, CallOK
<1>1. ASSUME UNCHANGED bridge, \A e \in Entries : order'[e].st = "none" => order'[e].filled = 0
      PROVE  KnownInv'
  BY <1>1 DEF KnownInv, KnownFillsAreTracked, bridge, judged, local
<1>2. ASSUME NEW e \in Entries, Fill(e)
      PROVE  KnownInv'
  <2>1. \A d \in Entries : order'[d] = order[d] \/ order'[d].st \in {"filled", "live", "cancelling"}
    BY <1>2 DEF TypeOK, VenueOK, Fill, Alive
  <2> QED  BY <1>1, <1>2, <2>1 DEF Fill, KnownInv
<1>3. ASSUME NEW e \in Entries, EndOrder(e)
      PROVE  KnownInv'
  <2>1. \A d \in Entries : \/ order'[d] = order[d]
                           \/ order'[d].st \in {"ended", "done", "replaced"}
    BY <1>3 DEF TypeOK, VenueOK, EndOrder, Order
  <2> QED  BY <1>1, <1>3, <2>1 DEF EndOrder, KnownInv
<1>4. ASSUME NEW e \in Entries, Check(e)
      PROVE  KnownInv'
  BY <1>1, <1>4, Apart DEF venue, KnownInv
<1>5. CASE Sell \/ BookSale
  BY <1>1, <1>5 DEF Sell, BookSale, KnownInv
<1>6. CASE SubmitFilled
  <2>1. \A e \in Entries \ {n + 1} : verdict'[e] = verdict[e]
    BY <1>6 DEF TypeOK, CallOK, SubmitFilled, AddPosition, Return
  <2> QED  BY <1>6, <2>1, KnownPlacing, Constants DEF SubmitFilled, AddPosition, Return
<1>18. CASE SubmitDone
  <2>1. PICK q \in 0 .. Qty - 1 : Placing("done", q) /\ AddPosition(n + 1, Qty, Qty - q)
    BY <1>18 DEF SubmitDone
  <2>2. pc' = "idle" /\ \A e \in Entries \ {n + 1} : verdict'[e] = verdict[e]
    BY <2>1 DEF TypeOK, CallOK, AddPosition, Return
  <2> QED  BY <2>1, <2>2, KnownPlacing, Constants
<1>7. CASE SubmitAccepted
  <2>1. PICK q \in 0 .. Qty - 1 : Placing("live", q) /\ pc' = "poll" /\ verdict' = verdict
    BY <1>7 DEF SubmitAccepted, judged
  <2>2. verdict[n + 1] = "none" /\ q \in 0 .. Qty
    BY <2>1, VenuePlacing, Constants DEF KnownInv, TypeOK, CallOK
  <2> QED  BY <2>1, <2>2, KnownPlacing, Constants
<1>8. CASE SubmitRefused
  <2>1. \A e \in Entries \ {n + 1} : verdict'[e] = verdict[e]
    BY <1>8 DEF TypeOK, CallOK, SubmitRefused, GiveUp, Return
  <2> QED  BY <1>8, <2>1, KnownPlacing, Constants DEF SubmitRefused, GiveUp, Return
<1>9. CASE SubmitLost
  <2>1. \A e \in Entries \ {n + 1} : verdict'[e] = verdict[e]
    BY <1>9 DEF TypeOK, CallOK, SubmitLost, GiveUp, Return
  <2> QED  BY <1>9, <2>1, KnownPlacing, Constants DEF SubmitLost, GiveUp, Return
<1>10. CASE PollRead
  <2>1. n \in Entries /\ UNCHANGED <<venue, n, verdict>> /\ seen'.st = order[n].st
        /\ (seen'.priced => order[n].filled # 0)
        /\ (~seen'.priced => shown'[n] = 0)
        /\ \A e \in Entries \ {n} : shown'[e] = shown[e]
    <3>1. n \in Entries /\ UNCHANGED <<venue, n, verdict>>
      BY <1>0, <1>10 DEF PollRead, judged
    <3>2. PICK priced \in BOOLEAN :
            /\ (order[n].filled = 0 => ~priced)
            /\ seen' = [st |-> order[n].st, filled |-> order[n].filled, priced |-> priced]
            /\ shown' = [shown EXCEPT ![n] = IF priced THEN order[n].filled ELSE 0]
      BY <1>10 DEF PollRead
    <3>3. seen'.st = order[n].st /\ seen'.priced = priced
      BY <3>2
    <3>4. shown'[n] = IF priced THEN order[n].filled ELSE 0
      BY <3>1, <3>2 DEF TypeOK, CallOK
    <3>5. \A e \in Entries \ {n} : shown'[e] = shown[e]
      BY <3>1, <3>2 DEF TypeOK, CallOK
    <3> QED  BY <3>1, <3>2, <3>3, <3>4, <3>5
  <2>2. pc = "poll" /\ pc' \in {"poll", "decide"}
    BY <1>10 DEF PollRead
  <2>3. verdict[n] = "none"
    BY <2>1, <2>2 DEF KnownInv
  <2>4. KnownFillsAreTracked'
    BY <2>1, <2>3 DEF KnownInv, KnownFillsAreTracked
  <2>5. seen'.st = "none" \/ ~seen'.priced => shown'[n] = 0
    BY <2>1 DEF KnownInv
  <2>6. \A e \in Entries : e > n => e \in Entries \ {n}
    BY <2>1, Constants
  <2> QED  BY <2>1, <2>2, <2>3, <2>4, <2>5, <2>6 DEF KnownInv, venue
<1>11. CASE PollMisses
  BY <1>11 DEF PollMisses, venue, judged, KnownInv, KnownFillsAreTracked
<1>12. CASE PollFails
  BY <1>12 DEF PollFails, venue, judged, KnownInv, KnownFillsAreTracked
<1>13. CASE Drop
  BY <1>13 DEF Drop, venue, judged, KnownInv, KnownFillsAreTracked, Useless
<1>14. CASE CancelTaken
  <2>1. n \in Entries /\ \A e \in Entries \ {n} : verdict'[e] = verdict[e]
    BY <1>0, <1>14 DEF TypeOK, CallOK, CancelTaken, GiveUp, Return
  <2>2. \A e \in Entries : order'[e] = order[e] \/ order'[e].st = "cancelling"
                           \/ (order'[e].st = order[e].st /\ order'[e].filled = order[e].filled)
    BY <1>14, <2>1 DEF TypeOK, VenueOK, CancelTaken, Order
  <2> QED  BY <1>14, <2>1, <2>2, KnownVerdict DEF CancelTaken, GiveUp, Return, KnownInv
<1>15. CASE CancelFails
  <2>1. \A e \in Entries \ {n} : verdict'[e] = verdict[e]
    BY <1>15 DEF TypeOK, CallOK, CancelFails, GiveUp, Return
  <2> QED  BY <1>15, <2>1, KnownVerdict DEF CancelFails, GiveUp, Return, KnownInv, venue
<1>16. CASE Dead
  <2>1. n \in Entries /\ verdict'[n] = "dead"
        /\ \A e \in Entries \ {n} : verdict'[e] = verdict[e]
    BY <1>0, <1>16 DEF TypeOK, CallOK, Dead, GiveUp, Return
  <2> QED  BY <1>16, <2>1, KnownVerdict DEF Dead, GiveUp, Return, KnownInv, venue
<1>17. CASE Accept
  <2>1. n \in Entries /\ verdict'[n] = "tracked"
        /\ \A e \in Entries \ {n} : verdict'[e] = verdict[e]
    BY <1>0, <1>17 DEF TypeOK, CallOK, Accept, AddPosition, Return
  <2> QED  BY <1>17, <2>1, KnownVerdict DEF Accept, AddPosition, Return, KnownInv, venue
<1> QED
  BY <1>2, <1>3, <1>4, <1>5, <1>6, <1>7, <1>8, <1>9, <1>10, <1>11, <1>12, <1>13, <1>14,
     <1>15, <1>16, <1>17, <1>18 DEF Step, Submit, Poll, Decide

(* An entry given up as invisible or unfilled is one of which no poll      *)
(* showed a fill with its price.                                           *)
THEOREM FillsAreRemembered == Spec => []KnownFillsAreTracked
<1>1. KnownInv => KnownFillsAreTracked
  BY DEF KnownInv
<1>2. TypeOK /\ KnownInv /\ [Next]_vars => KnownInv'
  <2> SUFFICES ASSUME TypeOK, KnownInv, [Next]_vars PROVE KnownInv'
    OBVIOUS
  <2>1. CASE Next
    BY <2>1, KnownStep DEF Next
  <2>2. CASE UNCHANGED vars
    BY <2>2 DEF KnownInv, KnownFillsAreTracked, vars, venue, bridge, judged, local
  <2> QED  BY <2>1, <2>2
<1> QED  BY KnownInit, <1>1, <1>2, TypeCorrect, PTL DEF Spec

----------------------------------------------------------------------------
(***************************************************************************)
(* NoPhantom.  While nothing has crossed, a running check sees no sale and *)
(* no entry (Quiet); then the tracker and the fills of the entry under way *)
(* are covered by the account and by what was assumed, and the answer a    *)
(* check holds is covered by the account.                                  *)
(***************************************************************************)

Quiet == \A e \in Entries : Running(e) => sold = 0 /\ pc = "idle"

Bounded ==
    /\ sold <= pos.left /\ pos.left <= held + sold + assumed
    /\ pc # "idle" => pos.left + order[n].filled <= held + sold + assumed
    /\ pc \in {"poll", "decide"} => seen.filled <= order[n].filled
    /\ \A e \in Entries : check[e].step = "answered" => check[e].sample <= held

PhantomInv == Crossing \subseteq crossed /\ (crossed = {} => Bounded)

LEMMA PhantomInit == Init => PhantomInv
<1> SUFFICES ASSUME Init PROVE PhantomInv
  OBVIOUS
<1>1. \A e \in Entries : check[e].step = "rest"
  BY DEF Init, NoCheck, Waiting
<1>2. Crossing = {}
  BY <1>1 DEF Init, Crossing, Running, Untracked
<1>3. Bounded
  BY <1>1 DEF Init, Bounded, Untracked
<1> QED  BY <1>2, <1>3 DEF PhantomInv

LEMMA CalmIsQuiet == TypeOK /\ Crossing = {} => Quiet
<1> SUFFICES ASSUME TypeOK, Crossing = {}, NEW e \in Entries, Running(e)
             PROVE  sold = 0 /\ pc = "idle"
  BY DEF Quiet
<1>1. "exit" \notin Crossing /\ "entry" \notin Crossing
  OBVIOUS
<1>2. ~(sold > 0) /\ pc = "idle"
  BY <1>1 DEF Crossing
<1>3. sold \in Nat
  BY DEF TypeOK, VenueOK
<1> QED  BY <1>2, <1>3

\* The quantities as numbers.
LEMMA Numbers ==
    ASSUME TypeOK
    PROVE  /\ held \in Nat /\ sold \in Nat /\ pos.left \in Nat /\ pos.qty \in Nat
           /\ seen.filled \in Nat /\ Qty \in Nat /\ assumed \in Nat
           /\ \A e \in Entries : order[e].filled \in Nat /\ check[e].sample \in Nat
           /\ pc # "idle" => n \in Entries
<1>1. held \in Nat /\ sold \in Nat /\ pos.left \in Nat /\ pos.qty \in Nat
  BY DEF TypeOK, VenueOK, TrackerOK
<1>2. seen.filled \in Nat /\ Qty \in Nat /\ assumed \in Nat
  BY Constants DEF TypeOK, CallOK, View
<1>3. \A e \in Entries : order[e].filled \in Nat /\ check[e].sample \in Nat
  BY SMTT(30), Constants DEF TypeOK, VenueOK, TrackerOK, Order, CheckState
<1>4. pc # "idle" => n \in Entries
  BY Constants DEF TypeOK, CallOK
<1> QED  BY <1>1, <1>2, <1>3, <1>4

\* What a merge makes of the quantity.
LEMMA MergedLeft ==
    ASSUME TypeOK, NEW e, NEW q \in Nat
    PROVE  /\ Merged(e, q).left \in Nat /\ Merged(e, q).qty = Merged(e, q).left
           /\ Merged(e, q).left = pos.left + q
           /\ Merged(e, q).obj = IF pos.left > 0 THEN pos.obj ELSE e
  BY Numbers DEF Merged

LEMMA BoundedPlacing ==
    ASSUME TypeOK, Bounded, Quiet, NEW st \in {"live", "filled", "done", "ended"}, NEW q \in 0 .. Qty,
           Placing(st, q)
    PROVE  /\ n' \in Entries /\ order'[n'].filled = q /\ q \in Nat /\ held' = held + q
           /\ sold' = sold /\ seen'.filled = 0
           /\ sold <= pos.left /\ pos.left + q <= held' + sold + assumed
           /\ \A e \in Entries : check[e].step = "answered" => check[e].sample <= held'
<1>1. n + 1 \in Entries /\ n' = n + 1
  BY Constants DEF TypeOK, CallOK, Placing
<1>2. order'[n + 1].filled = q /\ q \in Nat /\ held' = held + q /\ sold' = sold /\ seen'.filled = 0
  BY <1>1, Constants DEF TypeOK, VenueOK, Placing, NoView
<1> QED  BY <1>1, <1>2, Numbers DEF Bounded

LEMMA BoundedStep ==
    ASSUME TypeOK, Bounded, Quiet, Quiet', Step
    PROVE  Bounded'
<1>1. ASSUME NEW e \in Entries, Fill(e)
      PROVE  Bounded'
  <2>1. /\ order'[e].filled = order[e].filled + 1 /\ held' = held + 1
        /\ \A d \in Entries \ {e} : order'[d] = order[d]
        /\ UNCHANGED <<sold, n, pc, seen, assumed, pos, check>>
    BY <1>1 DEF TypeOK, VenueOK, Fill, bridge, judged, local
  <2> QED  BY <2>1, Numbers DEF Bounded
<1>2. ASSUME NEW e \in Entries, EndOrder(e)
      PROVE  Bounded'
  <2>1. \A d \in Entries : order'[d].filled = order[d].filled
    BY <1>2 DEF TypeOK, VenueOK, EndOrder, Order
  <2> QED  BY <1>2, <2>1, Numbers DEF Bounded, EndOrder, bridge, judged, local
<1>3. CASE Sell
  <2>1. /\ held > 0 /\ sold < pos.left /\ held' = held - 1 /\ sold' = sold + 1
        /\ UNCHANGED <<order, n, pc, seen, assumed, pos, check>>
    BY <1>3 DEF Sell, bridge, judged, local
  <2>2. \A e \in Entries : check[e].step # "answered"
    BY <2>1, Numbers DEF Quiet, Running
  <2> QED  BY <2>1, <2>2, Numbers DEF Bounded
<1>4. CASE BookSale
  <2>1. pos.left > 0
    BY <1>4, Numbers DEF Bounded, BookSale
  <2>2. sold' = sold - 1 /\ UNCHANGED <<order, held, n, pc, seen, assumed, check>>
    BY <1>4 DEF BookSale, bridge, judged, local
  <2>3. pos'.left = pos.left - 1
    <3>1. pos \in [qty : Nat, left : Nat, obj : 0 .. MaxEntries]
      BY DEF TypeOK, TrackerOK
    <3>2. CASE pos.left > 1
      BY <1>4, <3>1, <3>2 DEF BookSale
    <3>3. CASE ~(pos.left > 1)
      BY <1>4, <2>1, <3>1, <3>3, Numbers DEF BookSale, Untracked
    <3> QED  BY <3>2, <3>3
  <2> QED  BY <2>1, <2>2, <2>3, Numbers DEF Bounded
<1>5. CASE SubmitFilled
  <2>1. n + 1 \in Entries /\ Placing("filled", Qty) /\ pos' = Merged(n + 1, Qty) /\ pc' = "idle"
        /\ assumed' = assumed + 0
    BY <1>5, Constants DEF TypeOK, CallOK, Placing, SubmitFilled, AddPosition, Return
  <2>2. \A e \in Entries : check'[e] = check[e] \/ check'[e].step = "rest"
    BY <1>5, <2>1 DEF TypeOK, TrackerOK, SubmitFilled, AddPosition, Return, Waiting
  <2>3. pos'.left = pos.left + Qty /\ Qty \in 0 .. Qty
    BY <2>1, MergedLeft, Constants
  <2> QED  BY <2>1, <2>2, <2>3, BoundedPlacing, Numbers DEF Bounded
<1>15. CASE SubmitDone
  <2>1. PICK q \in 0 .. Qty - 1 : Placing("done", q) /\ AddPosition(n + 1, Qty, Qty - q)
    BY <1>15 DEF SubmitDone
  <2>2. q \in 0 .. Qty /\ q \in Nat /\ Qty - q \in Nat
    BY Constants
  <2>3. n + 1 \in Entries /\ pos' = Merged(n + 1, Qty) /\ pc' = "idle"
        /\ assumed' = assumed + (Qty - q)
    BY <2>1, <2>2, VenuePlacing DEF AddPosition, Return
  <2>4. \A e \in Entries : check'[e] = check[e] \/ check'[e].step = "rest"
    BY <2>1, <2>3 DEF TypeOK, TrackerOK, AddPosition, Return, Waiting
  <2>5. pos'.left = pos.left + Qty
    BY <2>3, MergedLeft, Constants
  <2>6. /\ held' = held + q /\ sold' = sold /\ sold <= pos.left
        /\ pos.left + q <= held' + sold + assumed
        /\ \A e \in Entries : check[e].step = "answered" => check[e].sample <= held'
    BY <2>1, <2>2, BoundedPlacing
  <2>7. sold' <= pos'.left /\ pos'.left <= held' + sold' + assumed'
    BY <2>2, <2>3, <2>5, <2>6, Numbers
  <2> QED  BY <2>3, <2>4, <2>6, <2>7 DEF Bounded
<1>6. CASE SubmitAccepted
  <2>1. PICK q \in 0 .. Qty - 1 : Placing("live", q) /\ pc' = "poll"
                                  /\ UNCHANGED <<assumed, pos, check>>
    BY <1>6 DEF SubmitAccepted, judged
  <2>2. q \in 0 .. Qty
    BY Constants
  <2> QED  BY <2>1, <2>2, BoundedPlacing, Numbers DEF Bounded
<1>7. CASE SubmitRefused \/ SubmitLost
  <2>1. PICK st \in {"live", "ended"} : Placing(st, 0)
    BY <1>7 DEF SubmitRefused, SubmitLost
  <2>2. pc' = "idle" /\ UNCHANGED <<assumed, pos, check>> /\ 0 \in 0 .. Qty
    BY <1>7, Constants DEF SubmitRefused, SubmitLost, GiveUp, Return
  <2> QED  BY <2>1, <2>2, BoundedPlacing, Numbers DEF Bounded
<1>8. CASE Poll
  <2>1. UNCHANGED <<venue, n, assumed, pos, check>> /\ pc = "poll" /\ pc' \in {"poll", "decide"}
    BY <1>8 DEF Poll, PollRead, PollMisses, PollFails, judged
  <2>2. seen' = seen \/ seen'.filled = order[n].filled
    BY <1>8 DEF Poll, PollRead, PollMisses, PollFails
  <2> QED  BY <2>1, <2>2, Numbers DEF Bounded, venue
<1>9. CASE Drop
  BY <1>9 DEF Drop, Bounded, venue, judged
<1>10. CASE CancelTaken
  BY <1>10, Numbers DEF CancelTaken, GiveUp, Return, Bounded
<1>11. CASE CancelFails \/ Dead
  BY <1>11 DEF CancelFails, Dead, GiveUp, Return, Bounded, venue
<1>12. CASE Accept
  <2>1. n \in Entries /\ pc' = "idle" /\ pc = "decide" /\ UNCHANGED venue
    BY <1>12, Numbers DEF Accept, AddPosition, Return
  <2>2. \A e \in Entries : check'[e] = check[e] \/ check'[e].step = "rest"
    BY <1>12, <2>1 DEF TypeOK, TrackerOK, Accept, AddPosition, Return, Waiting
  <2>3. \/ pos'.left = pos.left + seen.filled /\ assumed' = assumed
        \/ pos'.left = pos.left + Qty /\ assumed' = assumed + Qty
    BY <1>12, MergedLeft, Numbers DEF Accept, AddPosition, Return
  <2>4. sold <= pos'.left /\ pos'.left <= held + sold + assumed'
    BY <2>1, <2>3, Numbers DEF Bounded
  <2> QED  BY <2>1, <2>2, <2>4 DEF Bounded, venue
<1>13. ASSUME NEW e \in Entries, CheckStarts(e) \/ CheckAnswers(e) \/ CheckFails(e)
       PROVE  Bounded'
  <2>1. UNCHANGED <<venue, bridge, pos>>
    BY <1>13 DEF CheckStarts, CheckAnswers, CheckFails
  <2>2. \A d \in Entries : \/ check'[d] = check[d] \/ check'[d].step # "answered"
                           \/ check'[d].sample = held
    BY <1>13 DEF CheckStarts, CheckAnswers, CheckFails, TypeOK, TrackerOK, NoCheck, Waiting
  <2> QED  BY <2>1, <2>2, Numbers DEF Bounded, venue, bridge, judged, local
<1>14. ASSUME NEW e \in Entries, CheckApplies(e)
       PROVE  Bounded'
  <2>1. UNCHANGED <<venue, bridge>> /\ sold = 0 /\ pc = "idle" /\ check[e].sample <= held
    BY <1>14 DEF CheckApplies, Quiet, Running, Bounded
  <2>2. pos'.left \in {pos.left, check[e].sample}
    BY <1>14 DEF CheckApplies
  <2>3. \A d \in Entries : check'[d] = check[d] \/ check'[d].step = "rest"
    BY <1>14 DEF CheckApplies, TypeOK, TrackerOK, Waiting
  <2> QED  BY <2>1, <2>2, <2>3, Numbers DEF Bounded, venue, bridge, judged, local
<1> QED
  BY <1>1, <1>2, <1>3, <1>4, <1>5, <1>6, <1>7, <1>8, <1>9, <1>10, <1>11, <1>12, <1>13, <1>14,
     <1>15 DEF Step, Submit, Decide, Check

(* As long as no check ran into an entry or an exit, the tracker counts no *)
(* share the account does not hold, but for sales about to be booked and   *)
(* for what entries done for the day had not filled when they were         *)
(* tracked.                                                                *)
THEOREM NothingInvented == Spec => []NoPhantom
<1>1. PhantomInv => NoPhantom
  BY DEF PhantomInv, Bounded, NoPhantom
<1>2. TypeOK /\ PhantomInv /\ [Next]_vars => PhantomInv'
  <2> SUFFICES ASSUME TypeOK, PhantomInv, [Next]_vars PROVE PhantomInv'
    OBVIOUS
  <2>1. CASE Next
    <3>1. Crossing' \subseteq crossed' /\ (crossed' = {} => crossed = {}) /\ Step
      BY <2>1 DEF Next
    <3>2. TypeOK'
      BY TypeStep
    <3>3. crossed = {} => Quiet
      BY CalmIsQuiet DEF PhantomInv
    <3>4. Crossing' = {} => Quiet'
      <4> SUFFICES ASSUME Crossing' = {}, NEW e \in Entries, Running(e)'
                   PROVE  sold' = 0 /\ pc' = "idle"
        BY DEF Quiet
      <4>1. "exit" \notin Crossing' /\ "entry" \notin Crossing'
        OBVIOUS
      <4>2. ~(sold' > 0) /\ pc' = "idle"
        BY <4>1 DEF Crossing
      <4> QED  BY <3>2, <4>2 DEF TypeOK, VenueOK
    <3>5. crossed' = {} => Crossing' = {}
      BY <3>1
    <3> QED  BY <3>1, <3>3, <3>4, <3>5, BoundedStep DEF PhantomInv
  <2>2. CASE UNCHANGED vars
    BY <2>2 DEF PhantomInv, Bounded, Crossing, Running, vars, venue, bridge, judged, local
  <2> QED  BY <2>1, <2>2
<1> QED  BY PhantomInit, <1>1, <1>2, TypeCorrect, PTL DEF Spec

----------------------------------------------------------------------------
(***************************************************************************)
(* LastCheckReconciles.  The checks of the last entry watch the object the *)
(* tracker keeps (Watching); between the question of the last check and    *)
(* its answer nothing it compares can change (Settling).                   *)
(***************************************************************************)

Watching ==
    /\ \A e \in Entries : e > n \/ (e = n /\ pc # "idle") => ~Pending(e)
    /\ \A e \in Entries : e = n /\ Pending(e) => pos.obj \in {0, check[e].obj}

LEMMA WatchingInit == Init => Watching
  BY DEF Init, Watching, Pending, Running, NoCheck, Waiting

LEMMA WatchingAdd ==
    ASSUME TypeOK, Watching, NEW e \in Entries, NEW q \in Nat, NEW ghosts,
           AddPosition(e, q, ghosts), n' = e,
           \A d \in Entries : d > e => d > n
    PROVE  Watching'
<1>1. /\ check'[e] = Waiting(Checks, Merged(e, q).obj) /\ pos' = Merged(e, q) /\ pc' = "idle"
      /\ \A d \in Entries \ {e} : check'[d] = check[d]
  BY DEF TypeOK, TrackerOK, AddPosition, Return
<1>2. check'[e].obj = pos'.obj
  BY <1>1 DEF Waiting
<1>3. \A d \in Entries : d > e => d \in Entries \ {e} /\ ~Pending(d)
  BY Constants DEF Watching
<1>4. \A d \in Entries : d > e => ~Pending(d)'
  BY <1>1, <1>3 DEF Pending, Running
<1> QED  BY <1>1, <1>2, <1>4 DEF Watching

LEMMA WatchingStep ==
    ASSUME TypeOK, Watching, Step
    PROVE  Watching'
<1>0. n \in Nat /\ (pc # "idle" => n \in Entries)
  BY Constants DEF TypeOK, CallOK
<1>1. ASSUME UNCHANGED <<n, pos, check>>, pc # "idle" \/ pc' = "idle"
      PROVE  Watching'
  BY <1>1 DEF Watching, Pending, Running
<1>2. ASSUME NEW e \in Entries, Fill(e) \/ EndOrder(e)
      PROVE  Watching'
  BY <1>1, <1>2 DEF Fill, EndOrder, bridge, local
<1>3. CASE Sell
  BY <1>1, <1>3 DEF Sell, bridge, local
<1>4. CASE BookSale
  <2>1. pos'.obj = pos.obj \/ pos'.obj = 0
    BY <1>4 DEF TypeOK, TrackerOK, BookSale, Untracked
  <2> QED  BY <1>4, <2>1 DEF BookSale, bridge, local, Watching, Pending, Running
<1>5. CASE SubmitFilled
  <2>1. n + 1 \in Entries /\ n' = n + 1 /\ AddPosition(n + 1, Qty, 0) /\ Qty \in Nat
    BY <1>5, Constants DEF TypeOK, CallOK, Placing, SubmitFilled
  <2>2. \A d \in Entries : d > n + 1 => d > n
    BY <1>0, Constants
  <2> QED  BY <2>1, <2>2, WatchingAdd
<1>10. CASE SubmitDone
  <2>1. PICK q \in 0 .. Qty - 1 : Placing("done", q) /\ AddPosition(n + 1, Qty, Qty - q)
    BY <1>10 DEF SubmitDone
  <2>2. n + 1 \in Entries /\ n' = n + 1 /\ Qty \in Nat
    BY <2>1, Constants DEF TypeOK, CallOK, Placing
  <2>3. \A d \in Entries : d > n + 1 => d > n
    BY <1>0, Constants
  <2> QED  BY <2>1, <2>2, <2>3, WatchingAdd
<1>6. CASE SubmitAccepted \/ SubmitRefused \/ SubmitLost
  <2>1. UNCHANGED <<pos, check>> /\ n' = n + 1
    BY <1>6 DEF SubmitAccepted, SubmitRefused, SubmitLost, GiveUp, Return, Placing
  <2>2. \A e \in Entries : e > n + 1 \/ e = n + 1 => e > n
    BY <1>0, Constants
  <2>3. \A e \in Entries : e > n => ~Pending(e)
    BY DEF Watching
  <2> QED  BY <2>1, <2>2, <2>3 DEF Watching, Pending, Running
<1>7. CASE Poll \/ Drop \/ CancelTaken \/ CancelFails \/ Dead
  BY <1>1, <1>7 DEF Poll, PollRead, PollMisses, PollFails, Drop, CancelTaken, CancelFails,
                    Dead, GiveUp, Return
<1>8. CASE Accept
  <2>1. n \in Entries /\ n' = n
        /\ \E q \in Nat, ghosts \in Nat : AddPosition(n, q, ghosts)
    BY <1>0, <1>8, Numbers DEF Accept
  <2> QED  BY <2>1, WatchingAdd
<1>9. ASSUME NEW e \in Entries, Check(e)
      PROVE  Watching'
  <2>1. UNCHANGED <<n, pc>> /\ pos'.obj = pos.obj /\ Pending(e)
    BY <1>9 DEF Check, CheckStarts, CheckAnswers, CheckFails, CheckApplies, Pending, Running,
                bridge, local
  <2>2. \A d \in Entries : check'[d] = check[d] \/ d = e
    BY <1>9 DEF Check, CheckStarts, CheckAnswers, CheckFails, CheckApplies, TypeOK, TrackerOK
  <2>3. check'[e].obj = check[e].obj \/ ~Pending(e)'
    <3>1. CASE CheckStarts(e)
      BY <3>1 DEF CheckStarts, TypeOK, TrackerOK, Pending, Running, NoCheck, Waiting
    <3>2. CASE CheckAnswers(e)
      BY <3>2 DEF CheckAnswers, TypeOK, TrackerOK
    <3>3. CASE CheckFails(e)
      BY <3>3 DEF CheckFails, TypeOK, TrackerOK, Waiting
    <3>4. CASE CheckApplies(e)
      BY <3>4 DEF CheckApplies, TypeOK, TrackerOK, Waiting
    <3> QED  BY <1>9, <3>1, <3>2, <3>3, <3>4 DEF Check
  <2>4. \A d \in Entries \ {e} : Pending(d)' <=> Pending(d)
    BY <2>2 DEF Pending, Running
  <2> QED  BY <2>1, <2>2, <2>3, <2>4 DEF Watching
<1> QED
  BY <1>2, <1>3, <1>4, <1>5, <1>6, <1>7, <1>8, <1>9, <1>10 DEF Step, Submit, Decide

LEMMA AlwaysWatching == Spec => []Watching
<1>1. TypeOK /\ Watching /\ [Next]_vars => Watching'
  <2> SUFFICES ASSUME TypeOK, Watching, [Next]_vars PROVE Watching'
    OBVIOUS
  <2>1. CASE Next
    BY <2>1, WatchingStep DEF Next
  <2>2. CASE UNCHANGED vars
    BY <2>2 DEF Watching, Pending, Running, vars, venue, bridge, local
  <2> QED  BY <2>1, <2>2
<1> QED  BY WatchingInit, <1>1, TypeCorrect, PTL DEF Spec

Settling ==
    /\ pc = "idle" /\ n \in Entries /\ check[n].left = 0
    /\ \A d \in Entries : ~Alive(d) /\ (d # n => ~Pending(d))
    /\ Running(n) => /\ check[n].obj = pos.obj /\ check[n].internal = pos.qty
                     /\ sold = 0
    /\ check[n].step = "answered" => check[n].sample = held
    /\ ~Running(n) /\ held > 0 => pos.left = held + sold

SettlingInv == fresh /\ "exit" \notin crossed => Settling

LEMMA SettlingStep ==
    ASSUME TypeOK, Watching, Crossing \subseteq crossed, SettlingInv, Next, fresh',
           "exit" \notin crossed'
    PROVE  Settling'
<1>0. Step /\ "exit" \notin crossed /\ "exit" \notin Crossing'
  BY DEF Next
<1>1. fresh => Settling
  BY <1>0 DEF SettlingInv
<1>2. ASSUME NEW e \in Entries, Fill(e) \/ EndOrder(e)
      PROVE  FALSE
  BY <1>1, <1>2 DEF Fill, EndOrder, Settling
<1>3. CASE Sell
  <2>1. Settling
    BY <1>1, <1>3 DEF Sell
  <2>2. /\ held > 0 /\ held' = held - 1 /\ sold' = sold + 1
        /\ UNCHANGED <<order, n, pc, pos, check>>
    BY <1>3 DEF Sell, bridge, local
  <2>3. sold' > 0
    BY <2>2, Numbers
  <2>4. ~Running(n)
    BY <1>0, <2>1, <2>2, <2>3 DEF Crossing, Running, Settling
  <2>5. held' > 0 => pos.left = held' + sold'
    BY <2>1, <2>2, <2>4, Numbers DEF Settling
  <2> QED  BY <2>1, <2>2, <2>4, <2>5 DEF Settling, Running, Pending, Alive
<1>4. CASE BookSale
  <2>1. Settling
    BY <1>1, <1>4 DEF BookSale
  <2>2. sold > 0 /\ sold' = sold - 1 /\ UNCHANGED <<order, held, n, pc, check>>
    BY <1>4 DEF BookSale, bridge, local
  <2>3. ~Running(n)
    BY <2>1, <2>2, Numbers DEF Settling
  <2>4. pos.left > 0 => pos'.left = pos.left - 1
    BY <1>4 DEF TypeOK, TrackerOK, BookSale, Untracked
  <2>5. held > 0 => pos'.left = held + sold'
    BY <2>1, <2>2, <2>3, <2>4, Numbers DEF Settling
  <2> QED  BY <2>1, <2>2, <2>3, <2>5 DEF Settling, Running, Pending, Alive
<1>5. CASE Submit
  BY <1>5 DEF Submit, SubmitFilled, SubmitDone, SubmitAccepted, SubmitRefused, SubmitLost, Placing
<1>6. CASE Poll
  BY <1>1, <1>6 DEF Poll, PollRead, PollMisses, PollFails, Settling
<1>7. CASE Decide
  BY <1>1, <1>7 DEF Decide, Drop, CancelTaken, CancelFails, Dead, Accept, Settling
<1>8. ASSUME NEW e \in Entries, CheckStarts(e)
      PROVE  Settling'
  <2>1. pos.obj # 0 /\ AtRest(e) /\ UNCHANGED <<venue, n, pc, pos>>
    BY <1>8 DEF CheckStarts, bridge, local
  <2>2. e = n /\ check[n].left = 1 /\ pc = "idle" /\ sold = 0
        /\ \A d \in Entries : ~Alive(d) /\ (d # e => ~Pending(d))
    BY <2>1 DEF AtRest
  <2>3. check[n].obj = pos.obj
    BY <2>1, <2>2 DEF Watching, Pending
  <2>4. /\ check'[n] = [left |-> check[n].left - 1, obj |-> check[n].obj, step |-> "asked",
                        internal |-> IF check[n].obj = pos.obj THEN pos.qty ELSE 0,
                        sample |-> 0]
        /\ \A d \in Entries \ {n} : check'[d] = check[d]
    BY <1>8, <2>1, <2>2, Numbers DEF CheckStarts, TypeOK, TrackerOK
  <2>5. check'[n].left = 0 /\ check'[n].obj = pos.obj /\ check'[n].internal = pos.qty
        /\ check'[n].step = "asked"
    BY <2>2, <2>3, <2>4
  <2> QED  BY <2>1, <2>2, <2>4, <2>5 DEF Settling, Running, Pending, Alive, venue
<1>9. ASSUME NEW e \in Entries, CheckAnswers(e)
      PROVE  Settling'
  <2>1. Settling /\ Running(e)
    BY <1>1, <1>9 DEF CheckAnswers, Running
  <2>2. e = n
    BY <2>1 DEF Settling, Pending
  <2>3. /\ check'[n].left = check[n].left /\ check'[n].obj = check[n].obj
        /\ check'[n].internal = check[n].internal /\ check'[n].sample = held
        /\ check'[n].step = "answered" /\ \A d \in Entries \ {n} : check'[d] = check[d]
    BY <1>9, <2>2 DEF CheckAnswers, TypeOK, TrackerOK
  <2>4. UNCHANGED <<order, held, sold, n, pc, pos>>
    BY <1>9 DEF CheckAnswers, venue, bridge, local
  <2> QED  BY <2>1, <2>2, <2>3, <2>4 DEF Settling, Running, Pending, Alive
<1>10. ASSUME NEW e \in Entries, CheckFails(e)
       PROVE  FALSE
  BY <1>10 DEF CheckFails
<1>11. ASSUME NEW e \in Entries, CheckApplies(e)
       PROVE  Settling'
  <2>1. Settling /\ Running(e)
    BY <1>1, <1>11 DEF CheckApplies, Running
  <2>2. e = n
    BY <2>1 DEF Settling, Pending
  <2>3. /\ check[n].sample = held /\ check[n].internal = pos.qty /\ check[n].obj = pos.obj
        /\ sold = 0 /\ pc = "idle"
    BY <1>11, <2>1, <2>2 DEF CheckApplies, Settling
  <2>4. pos' = IF held \notin {0, pos.qty}
               THEN [qty |-> held, left |-> held, obj |-> pos.obj] ELSE pos
    BY <1>11, <2>2, <2>3 DEF CheckApplies
  <2>5. pos.qty = pos.left \/ pos.left = held + sold
    BY <1>0, <2>3 DEF Crossing
  <2>6. held > 0 => pos'.left = held + sold
    BY <2>3, <2>4, <2>5, Numbers
  <2>7. /\ check'[n].left = check[n].left /\ check'[n].step = "rest"
        /\ \A d \in Entries \ {n} : check'[d] = check[d]
    BY <1>11, <2>2 DEF CheckApplies, TypeOK, TrackerOK, Waiting
  <2>8. UNCHANGED <<order, held, sold, n, pc>>
    BY <1>11 DEF CheckApplies, venue, bridge, local
  <2> QED  BY <2>1, <2>6, <2>7, <2>8 DEF Settling, Running, Pending, Alive
<1> QED
  BY <1>0, <1>2, <1>3, <1>4, <1>5, <1>6, <1>7, <1>8, <1>9, <1>10, <1>11 DEF Step, Check

(* The last check of the last entry, asked at rest and answered, leaves    *)
(* the tracker of a symbol the broker still lists with every share of the  *)
(* account.                                                                *)
THEOREM LastCheckCorrects == Spec => []LastCheckReconciles
<1>1. SettlingInv => LastCheckReconciles
  BY DEF SettlingInv, Settling, LastCheckReconciles, Pending
<1>2. Init => SettlingInv
  BY DEF Init, SettlingInv
<1>3. Init => Crossing \subseteq crossed
  BY PhantomInit DEF PhantomInv
<1>4. Crossing \subseteq crossed /\ [Next]_vars => (Crossing \subseteq crossed)'
  <2> SUFFICES ASSUME Crossing \subseteq crossed, [Next]_vars
               PROVE  (Crossing \subseteq crossed)'
    OBVIOUS
  <2>1. CASE Next
    BY <2>1 DEF Next
  <2>2. CASE UNCHANGED vars
    BY <2>2 DEF Crossing, Running, vars, venue, bridge, local
  <2> QED  BY <2>1, <2>2
<1>5. TypeOK /\ Watching /\ Crossing \subseteq crossed /\ SettlingInv /\ [Next]_vars
        => SettlingInv'
  <2> SUFFICES ASSUME TypeOK, Watching, Crossing \subseteq crossed, SettlingInv, [Next]_vars
               PROVE  SettlingInv'
    OBVIOUS
  <2>1. CASE Next
    BY <2>1, SettlingStep DEF SettlingInv
  <2>2. CASE UNCHANGED vars
    BY <2>2 DEF SettlingInv, Settling, Running, Pending, Alive, vars, venue, bridge, local
  <2> QED  BY <2>1, <2>2
<1> QED  BY <1>1, <1>2, <1>3, <1>4, <1>5, TypeCorrect, AlwaysWatching, PTL DEF Spec

=============================================================================
