--------------------------- MODULE RecoveryProofs ---------------------------
(***************************************************************************)
(* Proofs about Recovery, for any number of days, crashes, orders and      *)
(* shares: a position carried over a night is queued for its close; and,   *)
(* where the venue opens no short position, the types, the stop that a     *)
(* startup keeps, the one stop of several writers, and how far the tracker *)
(* can be off after a restart.                                             *)
(***************************************************************************)
EXTENDS Recovery, BrokerProofs

(***************************************************************************)
(* The file, its backup and the state in memory never claim a later day of *)
(* opening than the first, whatever is saved, torn or lost: opened_at is   *)
(* written with the entry, and every other save leaves it alone.           *)
(***************************************************************************)

Aged(s) ==
    \E d, k, x, l : \E a \in {0, 1} :
        s = [day |-> d, entry |-> [known |-> k, oid |-> x, ladder |-> l, opened |-> a]]

JustBought == \E q, x : pos = [open |-> TRUE, left |-> q, oid |-> x, opened |-> 1]

\* The file of the day does not say when the position was opened.
Undated == found /\ mem.entry.opened = 0

Carried == day > 1 /\ ~Undated

IsRecord(p) == \E k, q, x, a : p = [open |-> k, left |-> q, oid |-> x, opened |-> a]

AgeInv ==
    /\ day \in Nat \ {0} /\ shares \in Int /\ IsRecord(pos)
    /\ Aged(mem) /\ Aged(file) /\ Aged(bak)
    /\ pc = "bought" => JustBought
    /\ pc \in {"down", "positions", "orders"} => ~pos.open
    /\ pc \in Startup /\ pos.open /\ Carried => pos.opened < day
    /\ pc = "premarket" /\ shares > 0 /\ Carried => queue \in {"ghost", "overnight", "unread"}

LEMMA MissingAged == Aged(Missing) /\ \A d : Aged([day |-> d, entry |-> NoEntry])
  BY DEF Aged, Missing, NoEntry

LEMMA AgedFields ==
    ASSUME NEW s, Aged(s)
    PROVE  s.entry.opened \in {0, 1}
  BY DEF Aged

\* The states trading saves.
LEMMA SavedAged ==
    ASSUME Aged(mem)
    PROVE  /\ \A x : Aged(Updated(x))
           /\ Aged([mem EXCEPT !.entry = NoEntry])
           /\ \A x, l : \A a \in {0, 1} :
                Aged([mem EXCEPT !.entry = [known |-> TRUE, oid |-> x, ladder |-> l, opened |-> a]])
<1>0. PICK d, k, x0, l0 : \E a \in {0, 1} :
        mem = [day |-> d, entry |-> [known |-> k, oid |-> x0, ladder |-> l0, opened |-> a]]
  BY DEF Aged
<1>1. PICK a0 \in {0, 1} :
        mem = [day |-> d, entry |-> [known |-> k, oid |-> x0, ladder |-> l0, opened |-> a0]]
  BY <1>0
<1>2. \A e : [mem EXCEPT !.entry = e] = [day |-> d, entry |-> e]
  BY <1>1
<1>3. mem.entry.ladder = l0 /\ mem.entry.opened = a0
  BY <1>1
<1>4. \A x : Updated(x) = [day |-> d, entry |-> [known |-> TRUE, oid |-> x, ladder |-> l0, opened |-> a0]]
  BY <1>2, <1>3 DEF Updated
<1>5. \A k1, x, l : \A a \in {0, 1} :
        Aged([day |-> d, entry |-> [known |-> k1, oid |-> x, ladder |-> l, opened |-> a]])
  BY DEF Aged
<1>6. \A x : Aged(Updated(x))
  BY <1>4, <1>5
<1>7. Aged([mem EXCEPT !.entry = NoEntry])
  BY ZenonT(30), <1>2, MissingAged
<1>8. ASSUME NEW x, NEW l, NEW a \in {0, 1}
      PROVE  Aged([mem EXCEPT !.entry = [known |-> TRUE, oid |-> x, ladder |-> l, opened |-> a]])
  <2> DEFINE e == [known |-> TRUE, oid |-> x, ladder |-> l, opened |-> a]
  <2>1. Aged([day |-> d, entry |-> e])
    BY <1>5
  <2>2. [mem EXCEPT !.entry = e] = [day |-> d, entry |-> e]
    BY <1>2
  <2> HIDE DEF e
  <2>3. Aged([mem EXCEPT !.entry = e])
    BY <2>1, <2>2
  <2> QED  BY <2>3 DEF e
<1> QED  BY <1>6, <1>7, <1>8

LEMMA SaveAged ==
    ASSUME Aged(mem), Aged(file), Aged(bak), NEW s, Aged(s), NEW then, Save(s, then)
    PROVE  Aged(mem') /\ Aged(file') /\ Aged(bak') /\ mem' = s /\ pc' = then
  BY DEF Save

\* What a fill makes of the tracker: nothing is opened, and the age stays.
LEMMA FillEffects ==
    ASSUME IsRecord(pos), OnTradeUpdate \/ Sync
    PROVE  /\ IsRecord(pos') /\ pos'.open \in {pos.open, FALSE}
           /\ pos'.open => pos'.opened = pos.opened /\ pos'.oid = pos.oid
           /\ UNCHANGED <<venue, day, crashes, disk, mem, found, queue, watcher, history>>
           /\ pc' = pc \/ (pc = "sync" /\ pc' \in {"run", "saveFill"})
<1>1. /\ UNCHANGED <<venue, day, crashes, disk, mem, found, queue, watcher, history>>
      /\ pc' = pc \/ (pc = "sync" /\ pc' \in {"run", "saveFill"})
  BY DEF OnTradeUpdate, BookTranche, BookExit, Sync
<1>2. pos' \in {pos, NoPosition} \/ \E n : pos' = [pos EXCEPT !.left = n]
  BY DEF OnTradeUpdate, BookTranche, BookExit, Sync, CountTranche
<1>3. PICK k, q, x, a : pos = [open |-> k, left |-> q, oid |-> x, opened |-> a]
  BY DEF IsRecord
<1>4. CASE pos' = pos
  BY <1>1, <1>4
<1>5. CASE pos' = NoPosition
  BY <1>1, <1>5 DEF NoPosition, IsRecord
<1>6. ASSUME NEW n, pos' = [pos EXCEPT !.left = n]
      PROVE  /\ IsRecord(pos') /\ pos'.open = pos.open /\ pos'.opened = pos.opened
             /\ pos'.oid = pos.oid
  <2>1. pos' = [open |-> k, left |-> n, oid |-> x, opened |-> a]
    BY <1>3, <1>6
  <2> QED  BY <1>3, <2>1 DEF IsRecord
<1> QED  BY <1>1, <1>2, <1>4, <1>5, <1>6

\* The tracker's record stays one.
LEMMA RecordStep ==
    ASSUME IsRecord(pos), [Next]_vars
    PROVE  IsRecord(pos')
<1>1. CASE OnTradeUpdate \/ Sync
  BY <1>1, FillEffects
<1>2. CASE Crash \/ SyncFromState \/ SyncFromBroker \/ CloseOvernight \/ StopOut
  <2>1. \/ pos' \in {pos, NoPosition}
        \/ \E q, x, a : pos' = [open |-> TRUE, left |-> q, oid |-> x, opened |-> a]
    BY <1>2 DEF Crash, SyncFromState, SyncFromBroker, CloseOvernight, StopOut
  <2> QED  BY <2>1 DEF IsRecord, NoPosition
<1>3. CASE WatcherStep
  <2>1. pos' = pos \/ \E o : pos' = [pos EXCEPT !.oid = o]
    BY <1>3 DEF WatcherStep, WatchPositions, WatchOrders, WatchSubmit
  <2>2. PICK k, q, x, a : pos = [open |-> k, left |-> q, oid |-> x, opened |-> a]
    BY DEF IsRecord
  <2>3. ASSUME NEW o, pos' = [pos EXCEPT !.oid = o] PROVE IsRecord(pos')
    <3>1. pos' = [open |-> k, left |-> q, oid |-> o, opened |-> a]
      BY <2>2, <2>3
    <3> QED  BY <3>1 DEF IsRecord
  <2> QED  BY <2>1, <2>3
<1>4. CASE \/ NewDay \/ LoseFile \/ (\E o \in Oids, n \in Qtys : Execute(o, n))
           \/ Load \/ ReadPositions \/ Orphans \/ (\E o \in Oids : Cancel(o)) \/ Cancelled
           \/ CleanupOrders \/ CleanupPositions \/ Detect \/ UNCHANGED vars
  BY <1>4 DEF NewDay, LoseFile, Execute, Load, ReadPositions, Orphans, Cancel, Cancelled,
              CleanupOrders, CleanupPositions, Detect, vars, memory
<1>5. CASE \/ SavePhase0 \/ CloseGhost \/ Open \/ SaveEntry \/ LiftStop \/ PlaceStop
           \/ SaveTrail \/ SaveFill \/ FetchPositions \/ Drain
  BY <1>5 DEF SavePhase0, CloseGhost, Open, SaveEntry, LiftStop, PlaceStop, SaveTrail, SaveFill,
              FetchPositions, Drain, memory
<1> QED  BY <1>1, <1>2, <1>3, <1>4, <1>5 DEF Next, StartupStep, TradingStep

LEMMA AgeInit == Init => AgeInv
<1> SUFFICES ASSUME Init PROVE AgeInv
  OBVIOUS
<1>1. PICK q \in Qtys, s \in Oids :
        shares = q /\ pos = [open |-> TRUE, left |-> q, oid |-> s, opened |-> 1]
  BY DEF Init
<1>2. shares \in Int
  BY <1>1, BrokerAssumption DEF Qtys
<1>3. Aged(mem) /\ Aged(file) /\ Aged(bak)
  BY MissingAged DEF Init
<1>4. JustBought /\ IsRecord(pos)
  BY <1>1 DEF JustBought, IsRecord
<1> QED  BY <1>2, <1>3, <1>4 DEF Init, AgeInv, Startup

LEMMA AgeStep == AgeInv /\ [Next]_vars => AgeInv'
<1> SUFFICES ASSUME AgeInv, [Next]_vars PROVE AgeInv'
  OBVIOUS
<1>0. /\ day \in Nat \ {0} /\ shares \in Int
      /\ Aged(mem) /\ Aged(file) /\ Aged(bak) /\ IsRecord(pos')
  BY RecordStep DEF AgeInv
<1>1. CASE Crash
  <2>1. Aged(mem') /\ Aged(file') /\ Aged(bak') /\ ~pos'.open
    BY <1>0, <1>1, MissingAged DEF Crash, NoPosition
  <2> QED  BY <1>0, <1>1, <2>1 DEF Crash, AgeInv, Startup, venue
<1>2. CASE NewDay
  BY <1>0, <1>2 DEF NewDay, AgeInv, Startup, disk, memory
<1>3. CASE LoseFile
  BY <1>0, <1>3, MissingAged DEF LoseFile, AgeInv, Startup, venue, memory
<1>4. ASSUME NEW o \in Oids, NEW n \in Qtys, Execute(o, n)
      PROVE  AgeInv'
  <2>1. shares' \in Int /\ (shares' > 0 => shares > 0)
    BY <1>0, <1>4, BrokerAssumption DEF Execute, Qtys
  <2> QED
    BY <1>0, <1>4, <2>1 DEF Execute, AgeInv, JustBought, Carried, Undated, disk, memory
<1>5. CASE StartupStep
  <2>1. CASE Load
    <3>1. Aged(mem')
      BY <1>0, <2>1, MissingAged DEF Load, Loaded
    <3> QED  BY <1>0, <2>1, <3>1 DEF Load, AgeInv, Startup, venue, disk
  <2>2. CASE ReadPositions
    BY <1>0, <2>2 DEF ReadPositions, AgeInv, Startup, venue, disk, memory
  <2>3. CASE SyncFromState
    <3>1. /\ pc = "orders" /\ pc' = "orphans" /\ found /\ ~pos.open
          /\ UNCHANGED <<shares, day, file, bak, mem, found, queue>>
      BY <2>3 DEF SyncFromState, AgeInv, venue, disk
    <3>2. pos'.open => pos'.opened = IF mem.entry.opened = 0 THEN day ELSE mem.entry.opened
      BY <2>3, <3>1 DEF SyncFromState, NoPosition
    <3>3. mem.entry.opened \in {0, 1}
      BY <1>0, AgedFields
    <3>4. pos'.open /\ Carried' => pos'.opened < day'
      BY <1>0, <3>1, <3>2, <3>3 DEF Carried, Undated
    <3> QED  BY <1>0, <3>1, <3>4 DEF AgeInv
  <2>4. CASE SyncFromBroker
    <3>1. /\ pc = "orders" /\ pc' = "orphans" /\ ~pos.open
          /\ UNCHANGED <<shares, day, file, bak, mem, found, queue>>
      BY <2>4 DEF SyncFromBroker, AgeInv, venue, disk
    <3>2. pos'.open => pos'.opened = day - 1
      BY <2>4, <3>1 DEF SyncFromBroker, BeforeToday
    <3>3. pos'.open => pos'.opened < day'
      BY <1>0, <3>1, <3>2
    <3> QED  BY <1>0, <3>1, <3>3 DEF AgeInv
  <2>5. CASE \/ Orphans \/ (\E o \in Oids : Cancel(o)) \/ Cancelled
             \/ CleanupOrders \/ CleanupPositions
    <3>1. /\ pc \in Startup \ {"positions", "orders"}
          /\ pc' \in Startup \ {"positions", "orders"}
          /\ UNCHANGED <<shares, day, file, bak, mem, found, pos>>
      BY <2>5 DEF Orphans, Cancel, Cancelled, CleanupOrders, CleanupPositions, Startup,
                  venue, disk, memory
    <3> QED  BY <1>0, <3>1 DEF AgeInv, Carried, Undated, Startup
  <2>6. CASE Detect
    <3>1. /\ pc = "detect" /\ pc' = "premarket"
          /\ UNCHANGED <<shares, day, file, bak, mem, found, pos>>
      BY <2>6 DEF Detect, venue, disk, memory
    <3>2. pos.open /\ Carried => pos.opened < day
      BY <3>1 DEF AgeInv, Startup
    <3>3. shares > 0 /\ Carried => queue' \in {"ghost", "overnight", "unread"}
      BY <1>0, <2>6, <3>2 DEF Detect
    <3> QED  BY <1>0, <3>1, <3>3 DEF AgeInv, Carried, Undated, Startup
  <2> QED  BY <1>5, <2>1, <2>2, <2>3, <2>4, <2>5, <2>6 DEF StartupStep
\* Once trading runs, nothing is asked of the position's age.
<1>6. ASSUME pc' \in Trading \ {"premarket", "bought"}, UNCHANGED day, shares' \in Int,
             Aged(mem'), Aged(file'), Aged(bak')
      PROVE  AgeInv'
  BY <1>0, <1>6 DEF AgeInv, Trading, Startup
<1>7. CASE TradingStep
  <2>1. CASE SavePhase0
    <3>1. /\ Aged(mem') /\ Aged(file') /\ Aged(bak') /\ mem' = mem /\ pc' = "premarket"
          /\ pc = "premarket" /\ UNCHANGED <<shares, day, found, pos, queue>>
      BY <1>0, <2>1, SaveAged DEF SavePhase0, Unchanged
    <3> QED  BY <1>0, <3>1 DEF AgeInv, Carried, Undated, Startup
  <2>2. CASE CloseGhost
    BY <1>0, <1>6, <2>2 DEF CloseGhost, Unchanged, disk, Trading
  <2>3. CASE CloseOvernight
    <3>1. UNCHANGED day /\ shares' \in Int /\ pc' = "run"
      BY <1>0, <2>3 DEF CloseOvernight, Unchanged, Save
    <3>2. Aged(mem') /\ Aged(file') /\ Aged(bak')
      BY <1>0, <2>3, SavedAged, SaveAged DEF CloseOvernight, disk
    <3> QED  BY <1>6, <3>1, <3>2 DEF Trading
  <2>4. CASE Open \/ LiftStop \/ FetchPositions
    BY <1>0, <1>6, <2>4 DEF Open, LiftStop, FetchPositions, Unchanged, disk, memory, venue, Trading
  <2>5. CASE PlaceStop
    BY <1>0, <1>6, <2>5 DEF PlaceStop, disk, Trading
  <2>6. CASE SaveEntry
    <3>1. pos.opened = 1
      BY <2>6 DEF SaveEntry, AgeInv, JustBought
    <3>2. Aged(mem') /\ Aged(file') /\ Aged(bak') /\ pc' = "run"
      BY <1>0, <2>6, <3>1, SavedAged, SaveAged DEF SaveEntry
    <3> QED  BY <1>0, <1>6, <2>6, <3>2 DEF SaveEntry, Unchanged, Trading
  <2>7. CASE SaveTrail
    <3>1. Aged(mem') /\ Aged(file') /\ Aged(bak') /\ pc' = "run"
      BY <1>0, <2>7, SavedAged, SaveAged DEF SaveTrail
    <3> QED  BY <1>0, <1>6, <2>7, <3>1 DEF SaveTrail, Unchanged, Trading
  <2>8. CASE SaveFill
    <3>1. Aged(mem') /\ Aged(file') /\ Aged(bak') /\ pc' = "run"
      BY <1>0, <2>8, SavedAged, SaveAged DEF SaveFill
    <3> QED  BY <1>0, <1>6, <2>8, <3>1 DEF SaveFill, Unchanged, Trading
  <2>10. CASE Drain
    <3>1. Aged(mem') /\ Aged(file') /\ Aged(bak') /\ pc' \in {"run", "sync"}
      <4>1. ASSUME NEW s, Aged(s), NEW then \in {"sync", "run"}, Save(s, then)
            PROVE  Aged(mem') /\ Aged(file') /\ Aged(bak') /\ pc' \in {"run", "sync"}
        BY <1>0, <4>1, SaveAged
      <4>2. \/ \E x : \E then \in {"sync", "run"} : Save(Updated(x), then)
            \/ \E then \in {"sync", "run"} : Save([mem EXCEPT !.entry = NoEntry], then)
            \/ UNCHANGED <<mem, file, bak>> /\ pc' \in {"run", "sync"}
        <5>1. CASE events = "closed"
          BY <2>10, <5>1 DEF Drain
        <5>2. CASE events = "fills" /\ pos.open
          <6>1. PICK x : x = IF resub # NoOid THEN resub ELSE mem.entry.oid
            OBVIOUS
          <6>2. PICK then \in {"sync", "run"} : Save(Updated(x), then)
            BY <2>10, <5>2, <6>1 DEF Drain
          <6> QED  BY <6>2
        <5>3. CASE events # "closed" /\ ~(events = "fills" /\ pos.open)
          BY <2>10, <5>3 DEF Drain, disk
        <5> QED  BY <5>1, <5>2, <5>3
      <4>3. CASE \E x : \E then \in {"sync", "run"} : Save(Updated(x), then)
        BY <1>0, <4>1, <4>3, SavedAged
      <4>4. CASE \E then \in {"sync", "run"} : Save([mem EXCEPT !.entry = NoEntry], then)
        BY <1>0, <4>1, <4>4, SavedAged
      <4>5. CASE UNCHANGED <<mem, file, bak>> /\ pc' \in {"run", "sync"}
        BY <1>0, <4>5 DEF Aged
      <4> QED  BY <4>2, <4>3, <4>4, <4>5
    <3> QED  BY <1>0, <1>6, <2>10, <3>1 DEF Drain, venue, Trading
  <2>11. CASE OnTradeUpdate \/ Sync
    <3>1. /\ UNCHANGED <<shares, day, file, bak, mem, found, queue>>
          /\ pos'.open \in {pos.open, FALSE} /\ (pos'.open => pos'.opened = pos.opened)
          /\ pc' = pc \/ (pc = "sync" /\ pc' \in {"run", "saveFill"})
      BY <2>11, FillEffects DEF AgeInv, venue, disk
    <3>2. pc \notin {"bought", "down", "positions", "orders"}
      BY <2>11 DEF OnTradeUpdate, BookTranche, BookExit, Streaming, Sync, Trading
    <3> QED  BY <1>0, <3>1, <3>2 DEF AgeInv, Carried, Undated, Startup
  <2>9. CASE StopOut
    <3>1. Aged(mem') /\ Aged(file') /\ Aged(bak') /\ pc' = "run"
      BY <1>0, <2>9, SavedAged, SaveAged DEF StopOut
    <3> QED  BY <1>0, <1>6, <2>9, <3>1 DEF StopOut, Unchanged, Trading
  <2> QED
    BY <1>7, <2>1, <2>2, <2>3, <2>4, <2>5, <2>6, <2>7, <2>8, <2>9, <2>10, <2>11 DEF TradingStep
<1>8. CASE WatcherStep
  <2>1. /\ pc \in Trading /\ UNCHANGED <<shares, day, file, bak, pc, mem, found, queue>>
    BY <1>8 DEF WatcherStep, WatchPositions, WatchOrders, WatchSubmit, Watching, NotWatcher, disk
  <2>2. JustBought => JustBought'
    <3>1. CASE UNCHANGED pos
      BY <3>1 DEF JustBought
    <3>2. CASE JustBought /\ \E o : pos' = [pos EXCEPT !.oid = o]
      <4>1. PICK q, x : pos = [open |-> TRUE, left |-> q, oid |-> x, opened |-> 1]
        BY <3>2 DEF JustBought
      <4>2. PICK o : pos' = [pos EXCEPT !.oid = o]
        BY <3>2
      <4>3. pos' = [open |-> TRUE, left |-> q, oid |-> o, opened |-> 1]
        BY <4>1, <4>2
      <4> QED  BY <4>3 DEF JustBought
    <3> QED
      BY <1>8, <3>1, <3>2 DEF WatcherStep, WatchPositions, WatchOrders, WatchSubmit
  <2> QED  BY <1>0, <2>1, <2>2 DEF AgeInv, Carried, Undated, Trading, Startup
<1>9. CASE UNCHANGED vars
  BY <1>0, <1>9 DEF vars, venue, disk, memory, AgeInv, JustBought, Carried, Undated
<1> QED  BY <1>1, <1>2, <1>3, <1>4, <1>5, <1>7, <1>8, <1>9 DEF Next

(* A position carried over a night is queued for its close at the open,    *)
(* unless the read of the positions failed or the day's file does not say  *)
(* when it was opened (position_manager.py's two syncs, main.py's search). *)
THEOREM CarriedGoesIntoTheQueue == Spec => []CarriedIsQueued
<1>1. AgeInv => CarriedIsQueued
  BY DEF AgeInv, CarriedIsQueued, Carried, Undated
<1> QED  BY <1>1, AgeInit, AgeStep, PTL DEF Spec

(***************************************************************************)
(* The venue.  No order executes beyond its quantity, and where a sale     *)
(* without a position is refused, the open orders never sell more than     *)
(* the account has.                                                        *)
(***************************************************************************)

HoldInv ==
    /\ Sound(orders) /\ \A o \in Oids : orders[o].status # "canceling"
    /\ shares \in 0 .. MaxQty /\ Held(orders) <= shares

\* What a step does to the orders: some are canceled; or a stop is submitted.
Calm ==
    /\ DOMAIN orders' = Oids /\ orders' = [o \in Oids |-> orders'[o]]
    /\ \A o \in Oids : \/ orders'[o] = orders[o]
                       \/ orders[o].status = "open" /\ orders'[o] = Settled(orders[o])

Submits(o, q) ==
    /\ orders[o].status = "unused" /\ Accepts(orders, shares, q)
    /\ orders' = [orders EXCEPT ![o] = Sell("stop", q)]
    /\ shares' = shares

LEMMA CalmOrders ==
    ASSUME HoldInv, Calm
    PROVE  /\ Sound(orders') /\ Held(orders') \in Nat /\ Held(orders') <= Held(orders)
           /\ \A o \in Oids :
                /\ orders'[o].kind = orders[o].kind /\ orders'[o].qty = orders[o].qty
                /\ orders'[o].filled = orders[o].filled
                /\ orders'[o].status \in {orders[o].status, "canceled"}
                /\ orders[o].status # "open" => orders'[o] = orders[o]
<1>1. ASSUME NEW o \in Oids
      PROVE  /\ SoundOrder(orders'[o]) /\ Reserved(orders'[o]) <= Reserved(orders[o])
             /\ orders'[o].kind = orders[o].kind /\ orders'[o].qty = orders[o].qty
             /\ orders'[o].filled = orders[o].filled
             /\ orders'[o].status \in {orders[o].status, "canceled"}
             /\ orders[o].status # "open" => orders'[o] = orders[o]
  <2>1. PICK r : r = orders[o]
    OBVIOUS
  <2>2. SoundOrder(r) /\ r \in Order /\ Reserved(r) \in 0 .. MaxQty
    BY <2>1, ReservedOrder DEF HoldInv, Sound, SoundOrder
  <2>3. CASE orders'[o] = orders[o]
    BY <2>1, <2>2, <2>3, BrokerAssumption
  <2>4. CASE orders[o].status = "open" /\ orders'[o] = Settled(orders[o])
    <3>1. /\ SoundOrder(Settled(r)) /\ Reserved(Settled(r)) = 0 /\ Settled(r).kind = r.kind
          /\ Settled(r).qty = r.qty /\ Settled(r).filled = r.filled
          /\ Settled(r).status = "canceled"
      BY <2>1, <2>2, <2>4, SettledReserves, ChangedFields
    <3> QED  BY <2>1, <2>2, <2>4, <3>1, BrokerAssumption
  <2> QED  BY <2>3, <2>4 DEF Calm
<1>2. Sound(orders')
  BY <1>1 DEF Calm, Sound, SoundOrder
<1>3. Held(orders') <= Held(orders) /\ Held(orders') \in Nat
  BY <1>1, <1>2, HeldShrinks, HeldForOrders DEF HoldInv
<1> QED  BY <1>1, <1>2, <1>3

\* An order that executes releases what it sold.
LEMMA ExecuteOrders ==
    ASSUME HoldInv, NEW o \in Oids, NEW n \in Qtys, Execute(o, n)
    PROVE  /\ Sound(orders')
           /\ shares' = shares - n /\ Held(orders') = Held(orders) - n /\ Held(orders') \in Nat
           /\ \A x \in Oids \ {o} : orders'[x] = orders[x]
           /\ orders'[o].kind = orders[o].kind /\ orders'[o].qty = orders[o].qty
           /\ orders'[o].filled = orders[o].filled + n
           /\ orders'[o].status \in {"open", "filled"}
<1>1. PICK r : r = orders[o]
  OBVIOUS
<1>2. SoundOrder(r) /\ r \in Order /\ r.status = "open" /\ n <= Unfilled(r)
  BY <1>1 DEF HoldInv, Sound, Execute
<1>3. PICK e : e = Executed(r, n)
  OBVIOUS
<1>4. /\ SoundOrder(e) /\ Reserved(e) = Reserved(r) - n
      /\ e.kind = r.kind /\ e.qty = r.qty /\ e.filled = r.filled + n
      /\ e.status \in {"open", "filled"}
  BY <1>2, <1>3, ExecutedReserves, ExecutedFields
<1>5. orders' = [orders EXCEPT ![o] = e] /\ shares' = shares - n
  BY <1>1, <1>3 DEF Execute
<1>6. PICK t, u : t = orders /\ u = orders'
  OBVIOUS
<1>7. Sound(t) /\ u = [t EXCEPT ![o] = e]
  BY <1>5, <1>6 DEF HoldInv
<1>8. Sound(u) /\ Held(u) = Held(t) - Reserved(t[o]) + Reserved(e)
  BY ZenonT(30), <1>4, <1>7, HeldChanges
<1>9. Held(t) \in Nat /\ Held(u) \in Nat /\ Reserved(r) \in 0 .. MaxQty /\ n \in Int
  BY <1>2, <1>7, <1>8, HeldForOrders, ReservedOrder, BrokerAssumption DEF Qtys
<1>10. Held(u) = Held(t) - n
  BY <1>1, <1>4, <1>6, <1>8, <1>9, BrokerAssumption
<1>11. /\ orders'[o] = e /\ \A x \in Oids \ {o} : orders'[x] = orders[x]
  BY <1>5 DEF HoldInv, Sound
<1> QED  BY <1>1, <1>4, <1>5, <1>6, <1>8, <1>9, <1>10, <1>11

\* A stop that is accepted reserves what no other order did.
LEMMA SubmitOrders ==
    ASSUME Shortable = FALSE, HoldInv, NEW o \in Oids, NEW q \in Nat, Submits(o, q)
    PROVE  /\ q \in Qtys /\ Sound(orders')
           /\ Held(orders) \in Nat /\ Held(orders') = Held(orders) + q /\ q <= shares - Held(orders)
           /\ \A x \in Oids \ {o} : orders'[x] = orders[x]
           /\ orders'[o] = Sell("stop", q) /\ orders[o].filled = 0
           /\ orders'[o].kind = "stop" /\ orders'[o].filled = 0 /\ orders'[o].status = "open"
<1>1. Held(orders) \in Nat /\ shares \in 0 .. MaxQty
  BY HeldForOrders DEF HoldInv
<1>2. q > 0 /\ q <= shares - Held(orders)
  BY <1>1 DEF Submits, Accepts
<1>3. q \in Qtys
  BY <1>1, <1>2, BrokerAssumption DEF Qtys
<1>4. PICK t, u, r, s : t = orders /\ u = orders' /\ r = t[o] /\ s = Sell("stop", q)
  OBVIOUS
<1>5. Sound(t) /\ u = [t EXCEPT ![o] = s] /\ r.status = "unused" /\ SoundOrder(r)
  BY <1>4 DEF Submits, HoldInv, Sound
<1>6. SoundOrder(s) /\ Reserved(s) = q
  BY <1>3, <1>4, SellReserves DEF Kinds
<1>7. Reserved(r) = 0 /\ r.filled = 0
  BY <1>5 DEF Reserved, SoundOrder
<1>8. Sound(u) /\ Held(u) = Held(t) - Reserved(t[o]) + Reserved(s)
  BY <1>5, <1>6, HeldChanges
<1>9. Held(u) = Held(t) + q
  BY <1>1, <1>4, <1>6, <1>7, <1>8
<1>10. orders'[o] = s /\ \A x \in Oids \ {o} : orders'[x] = orders[x]
  BY <1>4, <1>5 DEF Sound
<1>11. s.kind = "stop" /\ s.filled = 0 /\ s.status = "open"
  BY <1>3, <1>4, SellIsOrder DEF Kinds
<1> QED  BY <1>1, <1>2, <1>3, <1>4, <1>7, <1>8, <1>9, <1>10, <1>11

\* No order open, nothing held.
LEMMA NothingOpen ==
    ASSUME NEW t, Sound(t), \A o \in Oids : t[o].status \notin {"open", "canceling"}
    PROVE  Held(t) = 0
<1>1. \A o \in Oids : Reserved(t[o]) = 0
  BY ReservedOrder DEF Sound
<1> QED  BY <1>1, HeldForOrders

Sells == shares' = shares \/ (shares' \in 0 .. shares /\ Held(orders') = 0)

\* What the steps do to the venue.
LEMMA Effects ==
    ASSUME HoldInv, [Next]_vars
    PROVE  \/ Calm /\ Sells
           \/ \E o \in Oids, n \in Qtys : Execute(o, n)
           \/ PlaceStop /\ \E o \in Oids : Submits(o, pos.left)
           \/ WatchSubmit /\ \E o \in Oids : Submits(o, watchQty)
<1>0. orders \in [Oids -> Order]
  BY DEF HoldInv, Sound
<1>1. CASE UNCHANGED <<orders, shares>>
  BY <1>0, <1>1 DEF Calm, Sells
<1>2. CASE NewDay
  BY <1>0, <1>2 DEF NewDay, Calm, Sells
<1>3. CASE \E o \in Oids : Cancel(o)
  BY <1>0, <1>3 DEF Cancel, Calm, Sells
<1>4. CASE CloseGhost
  BY <1>0, <1>4 DEF CloseGhost, Calm, Sells
<1>5. CASE CloseOvernight
  <2>1. Calm
    BY <1>0, <1>5 DEF CloseOvernight, Calm, Live
  <2>2. ASSUME shares' # shares PROVE shares' \in 0 .. shares /\ Held(orders') = 0
    <3>1. \A o \in Oids : orders'[o] = IF o \in Live THEN Settled(orders[o]) ELSE orders[o]
      BY <1>0, <1>5, <2>2 DEF CloseOvernight
    <3>2. \A o \in Oids : Settled(orders[o]).status = "canceled"
      BY <1>0, ChangedFields
    <3>3. \A o \in Oids : orders'[o].status \notin {"open", "canceling"}
      BY <3>1, <3>2 DEF Live, HoldInv
    <3>4. Held(orders') = 0
      BY <2>1, <3>3, CalmOrders, NothingOpen
    <3> QED  BY <1>5, <2>2, <3>4 DEF CloseOvernight
  <2> QED  BY <2>1, <2>2 DEF Sells
<1>6. CASE LiftStop
  BY <1>0, <1>6 DEF LiftStop, Calm, Sells, Live
<1>7. CASE StopOut
  BY <1>0, <1>7 DEF StopOut, Calm, Sells, Live
<1>8. CASE PlaceStop
  BY <1>0, <1>1, <1>8 DEF PlaceStop, Submits, Unused
<1>9. CASE WatchSubmit
  BY <1>0, <1>1, <1>9 DEF WatchSubmit, NotWatcher, Submits, Unused
<1>10. CASE \/ Crash \/ LoseFile \/ UNCHANGED vars
            \/ Load \/ ReadPositions \/ SyncFromState \/ SyncFromBroker
            \/ Orphans \/ Cancelled \/ CleanupOrders \/ CleanupPositions \/ Detect
            \/ SavePhase0 \/ Open \/ SaveEntry \/ SaveTrail \/ SaveFill
            \/ OnTradeUpdate \/ FetchPositions \/ Drain \/ Sync
            \/ WatchPositions \/ (\E inBand \in BOOLEAN : WatchOrders(inBand))
  <2>1. UNCHANGED <<orders, shares>>
    BY <1>10 DEF Crash, LoseFile, vars, venue, Load, ReadPositions, SyncFromState, SyncFromBroker,
                 Orphans, Cancelled, CleanupOrders, CleanupPositions, Detect, SavePhase0, Open,
                 SaveEntry, SaveTrail, SaveFill, OnTradeUpdate, BookTranche, BookExit,
                 FetchPositions, Drain, Sync, WatchPositions, WatchOrders, NotWatcher
  <2> QED  BY <1>1, <2>1
<1> QED
  BY <1>2, <1>3, <1>4, <1>5, <1>6, <1>7, <1>8, <1>9, <1>10
     DEF Next, StartupStep, TradingStep, WatcherStep

LEMMA HoldStep ==
    ASSUME Shortable = FALSE, HoldInv, pos.left \in Nat, watchQty \in Nat, [Next]_vars
    PROVE  HoldInv'
<1>0. Held(orders) \in Nat /\ shares \in 0 .. MaxQty /\ Held(orders) <= shares
  BY HeldForOrders DEF HoldInv
<1>1. CASE Calm /\ Sells
  <2>1. Sound(orders') /\ Held(orders') \in Nat /\ Held(orders') <= Held(orders)
    BY <1>1, CalmOrders
  <2>2. \A o \in Oids : orders'[o].status # "canceling"
    BY <1>1, CalmOrders DEF HoldInv
  <2>3. shares' \in 0 .. MaxQty /\ Held(orders') <= shares'
    BY <1>0, <1>1, <2>1, BrokerAssumption DEF Sells
  <2> QED  BY <2>1, <2>2, <2>3 DEF HoldInv
<1>2. ASSUME NEW o \in Oids, NEW n \in Qtys, Execute(o, n)
      PROVE  HoldInv'
  <2>1. /\ Sound(orders') /\ shares' = shares - n /\ Held(orders') = Held(orders) - n
        /\ Held(orders') \in Nat
    BY <1>2, ExecuteOrders
  <2>2. \A x \in Oids : orders'[x].status # "canceling"
    BY <1>2, ExecuteOrders DEF HoldInv
  <2>3. shares' \in 0 .. MaxQty /\ Held(orders') <= shares'
    BY <1>0, <2>1, BrokerAssumption DEF Qtys
  <2> QED  BY <2>1, <2>2, <2>3 DEF HoldInv
<1>3. ASSUME NEW o \in Oids, NEW q \in Nat, Submits(o, q)
      PROVE  HoldInv'
  <2>1. Sound(orders') /\ Held(orders') = Held(orders) + q /\ q <= shares - Held(orders)
    BY <1>3, SubmitOrders
  <2>2. \A x \in Oids : orders'[x].status # "canceling"
    BY <1>3, SubmitOrders DEF HoldInv
  <2>3. shares' \in 0 .. MaxQty /\ Held(orders') <= shares'
    BY <1>0, <1>3, <2>1 DEF Submits
  <2> QED  BY <2>1, <2>2, <2>3 DEF HoldInv
<1> QED  BY <1>1, <1>2, <1>3, Effects

LEMMA HoldInit == Init => HoldInv
<1> SUFFICES ASSUME Init PROVE HoldInv
  OBVIOUS
<1>1. PICK q \in Qtys, held \in Qtys, s \in Oids, l \in Oids :
        /\ held <= q /\ s # l /\ shares = q
        /\ orders = [o \in Oids |-> CASE o = s -> Sell("stop", held)
                                      [] o = l /\ held < q -> Sell("limit", q - held)
                                      [] OTHER -> Blank]
  BY DEF Init
<1>2. PICK t, b, c, x, y :
        /\ t = orders /\ b = [o \in Oids |-> Blank]
        /\ x = Sell("stop", held) /\ y = (IF held < q THEN Sell("limit", q - held) ELSE Blank)
        /\ c = [b EXCEPT ![s] = x]
  OBVIOUS
<1>3. t = [c EXCEPT ![l] = y]
  BY <1>1, <1>2
<1>4. q - held \in 0 .. MaxQty /\ (held < q => q - held \in Qtys) /\ q \in 0 .. MaxQty
  BY <1>1, BrokerAssumption DEF Qtys
<1>5. SoundOrder(x) /\ Reserved(x) = held /\ x.status = "open"
  BY <1>2, SellReserves, SellIsOrder DEF Kinds
<1>6. SoundOrder(y) /\ Reserved(y) = q - held /\ y.status \in {"open", "unused"}
  <2>1. CASE held < q
    BY <1>2, <1>4, <2>1, SellReserves, SellIsOrder DEF Kinds
  <2>2. CASE ~(held < q)
    <3>1. y = Blank
      BY <1>2, <2>2
    <3>2. q - held = 0
      BY <1>1, <2>2, BrokerAssumption DEF Qtys
    <3> QED  BY <3>1, <3>2, BlankReserves, BlankIsOrder
  <2> QED  BY <2>1, <2>2
<1>7. Sound(b) /\ Held(b) = 0
  BY <1>2, BlankReserves, BlankIsOrder, HeldForOrders DEF Sound
<1>8. Sound(c) /\ Held(c) = Held(b) - Reserved(b[s]) + Reserved(x)
  BY <1>2, <1>5, <1>7, HeldChanges
<1>9. Sound(t) /\ Held(t) = Held(c) - Reserved(c[l]) + Reserved(y)
  <2>1. Sound(c) /\ SoundOrder(y)
    BY <1>6, <1>8
  <2> QED  BY ZenonT(30), <1>3, <2>1, HeldChanges
<1>10. b[s] = Blank /\ c[l] = Blank
  BY <1>1, <1>2
<1>11. Held(t) = q
  BY <1>1, <1>5, <1>6, <1>7, <1>8, <1>9, <1>10, BlankReserves, BrokerAssumption DEF Qtys
<1>12. \A o \in Oids : t[o].status # "canceling"
  <2>1. \A o \in Oids : t[o] \in {x, y, Blank}
    BY <1>2, <1>3
  <2> QED  BY <2>1, <1>5, <1>6, BlankIsOrder
<1> QED  BY <1>1, <1>2, <1>4, <1>9, <1>11, <1>12, BrokerAssumption DEF HoldInv, Qtys

(***************************************************************************)
(* Types.                                                                  *)
(***************************************************************************)

\* What orders have sold is a number, and depends on their executions alone.
LEMMA SoldIsNat ==
    ASSUME HoldInv, NEW ids, ids \subseteq Oids
    PROVE  /\ IsFiniteSet(ids) /\ Sold(ids) \in Nat /\ Sold({}) = 0
           /\ \A o \in ids : Sold(ids) = orders[o].filled + Sold(ids \ {o})
<1> DEFINE w == [o \in Oids |-> orders[o].filled]
<1>1. IsFiniteSet(ids) /\ IsFiniteSet({})
  BY FS_Subset, FS_EmptySet, BrokerAssumption
<1>2. \A o \in Oids : w[o] = orders[o].filled /\ w[o] \in Nat
  BY DEF HoldInv, Sound, Order
<1>3. \A x : Sold(x) = SumFunctionOnSet(w, x)
  BY DEF Sold
<1> HIDE DEF w
<1>4. Sold(ids) \in Nat
  BY <1>1, <1>2, <1>3, SumIsNat
<1>5. Sold({}) = 0
  BY <1>1, <1>3, SumOfZeros
<1>6. ASSUME NEW o \in ids
      PROVE  Sold(ids) = orders[o].filled + Sold(ids \ {o})
  BY <1>1, <1>2, <1>3, SumTakesOut
<1> QED  BY <1>1, <1>4, <1>5, <1>6

LEMMA StatesTyped ==
    /\ Missing \in State /\ NoEntry \in Entry /\ NoPosition \in Position
    /\ \A d \in 0 .. MaxDay : [day |-> d, entry |-> NoEntry] \in State
    /\ \A s \in State :
         /\ s.day \in 0 .. MaxDay /\ s.entry \in Entry /\ s.entry.oid \in Oids \cup {NoOid}
         /\ s.entry.ladder \subseteq Oids /\ s.entry.opened \in 0 .. MaxDay
    /\ \A s \in State, e \in Entry : [s EXCEPT !.entry = e] \in State
    /\ \A q \in 0 .. MaxQty, x \in Oids \cup {NoOid}, a \in 0 .. MaxDay :
         [open |-> TRUE, left |-> q, oid |-> x, opened |-> a] \in Position
  BY RecoveryAssumption, BrokerAssumption
     DEF Missing, NoEntry, NoPosition, State, Entry, Position

LEMMA SaveTyped ==
    ASSUME {file, bak, mem} \subseteq State, NEW s, s \in State, NEW then, Save(s, then)
    PROVE  {file', bak', mem'} \subseteq State /\ pc' = then
  BY DEF Save

LEMMA TypeInit == Init => TypeOK
<1> SUFFICES ASSUME Init PROVE TypeOK
  OBVIOUS
<1>1. PICK q \in Qtys, held \in Qtys, s \in Oids, l \in Oids :
        /\ shares = q /\ gtc = {s} /\ resub = s
        /\ monitored = (IF held < q THEN {l} ELSE {})
        /\ pos = [open |-> TRUE, left |-> q, oid |-> s, opened |-> 1]
  BY DEF Init
<1>2. orders \in [Oids -> Order] /\ shares \in 0 .. MaxQty
  BY HoldInit DEF HoldInv, Sound
<1>3. 1 \in 0 .. MaxDay /\ 1 \in 1 .. MaxDay /\ q \in 0 .. MaxQty
  BY RecoveryAssumption, BrokerAssumption DEF Qtys
<1>4. pos \in Position /\ gtc \subseteq Oids /\ resub \in Oids /\ monitored \subseteq Oids
  BY <1>1, <1>3 DEF Position
<1>5. {file, bak, mem} \subseteq State
  BY <1>3, StatesTyped DEF Init
<1>6. 0 \in 0 .. MaxCrashes /\ 0 \in 0 .. MaxQty /\ 0 \in 0 .. Tolerance
  BY RecoveryAssumption, BrokerAssumption
<1> QED  BY <1>2, <1>3, <1>4, <1>5, <1>6 DEF Init, TypeOK, Trading

\* All of the types but those of the venue's table, of which HoldInv speaks.
LEMMA TypeStep ==
    ASSUME TypeOK, HoldInv, HoldInv', [Next]_vars
    PROVE  TypeOK'
<1>0. /\ orders' \in [Oids -> Order] /\ shares' \in 0 .. MaxQty
      /\ \A q \in Nat : q <= MaxQty => q \in 0 .. MaxQty
  BY BrokerAssumption DEF HoldInv, Sound
<1>1. CASE Crash
  <2>1. {file', bak', mem'} \subseteq State /\ pos' \in Position
    BY <1>1, StatesTyped DEF Crash, TypeOK
  <2>2. crashes' \in 0 .. MaxCrashes
    BY <1>1, RecoveryAssumption DEF Crash, TypeOK
  <2>3. 0 \in 0 .. Tolerance /\ 0 \in 0 .. MaxQty
    BY RecoveryAssumption, BrokerAssumption
  <2> QED  BY <1>0, <1>1, <2>1, <2>2, <2>3 DEF Crash, TypeOK, venue
<1>2. CASE NewDay \/ LoseFile
  <2>1. {file', bak', mem'} \subseteq State /\ day' \in 1 .. MaxDay
    BY <1>2, StatesTyped, RecoveryAssumption DEF NewDay, LoseFile, TypeOK, disk, memory, bridge
  <2> QED
    BY <1>0, <1>2, <2>1
       DEF NewDay, LoseFile, TypeOK, venue, memory, bridge, answers, watcher, history
<1>3. ASSUME NEW o \in Oids, NEW n \in Qtys, Execute(o, n)
      PROVE  TypeOK'
  BY <1>0, <1>3 DEF Execute, TypeOK, disk, memory, bridge, answers, watcher, history
<1>4. CASE StartupStep
  <2>0. 1 .. MaxDay \subseteq 0 .. MaxDay /\ 0 \in 0 .. MaxQty
    BY RecoveryAssumption, BrokerAssumption
  <2>1. CASE Load
    <3>1. Loaded \in State /\ [day |-> day, entry |-> NoEntry] \in State
      BY <2>0, StatesTyped DEF Loaded, TypeOK
    <3>2. mem' \in State /\ found' \in BOOLEAN
      BY <2>1, <3>1 DEF Load
    <3> QED
      BY <1>0, <2>1, <3>2 DEF Load, TypeOK, Startup, Live, venue, disk, bridge, answers, watcher
  <2>2. CASE ReadPositions
    BY <1>0, <2>0, <2>2 DEF ReadPositions, TypeOK, Startup, venue, disk, memory, bridge, watcher, history
  <2>3. CASE SyncFromState
    <3>1. /\ mem.entry.oid \in Oids \cup {NoOid} /\ mem.entry.ladder \subseteq Oids
          /\ mem.entry.opened \in 0 .. MaxDay /\ day \in 0 .. MaxDay
      BY <2>0, StatesTyped DEF TypeOK
    <3>2. pos' \in Position
      <4>1. PICK a \in 0 .. MaxDay : a = IF mem.entry.opened = 0 THEN day ELSE mem.entry.opened
        BY <3>1
      <4>2. [open |-> TRUE, left |-> seenQty, oid |-> mem.entry.oid, opened |-> a] \in Position
        BY <3>1, <4>1, StatesTyped DEF TypeOK
      <4>3. NoPosition \in Position /\ pos \in Position
        BY StatesTyped DEF TypeOK
      <4> QED  BY <2>3, <4>1, <4>2, <4>3 DEF SyncFromState
    <3>3. Sold((mem.entry.ladder \cap Live) \cup ({mem.entry.oid} \cap Oids)) \in Nat
      BY <3>1, SoldIsNat DEF Live
    <3>4. early' \in Nat /\ monitored' \subseteq Oids /\ resub' \in Oids \cup {NoOid}
      BY <2>3, <3>1, <3>3 DEF SyncFromState, TypeOK
    <3> QED
      BY <1>0, <2>0, <2>3, <3>2, <3>4 DEF SyncFromState, TypeOK, Startup, venue, disk, bridge, watcher
  <2>4. CASE SyncFromBroker
    <3>1. BeforeToday \in 0 .. MaxDay
      BY RecoveryAssumption DEF BeforeToday, TypeOK
    <3>2. pos' \in Position
      <4>1. Matching(seenQty) \subseteq Oids
        BY DEF Matching, Live
      <4>2. \A x \in Oids \cup {NoOid} :
              [open |-> TRUE, left |-> seenQty, oid |-> x, opened |-> BeforeToday] \in Position
        BY <3>1, StatesTyped DEF TypeOK
      <4> QED  BY <2>4, <4>1, <4>2 DEF SyncFromBroker, TypeOK
    <3> QED
      BY <1>0, <2>0, <2>4, <3>2
         DEF SyncFromBroker, TypeOK, Startup, venue, disk, bridge, watcher, history
  <2>5. CASE Orphans \/ (\E o \in Oids : Cancel(o)) \/ Cancelled
    <3>1. todo' \subseteq Oids
      BY <2>5 DEF Orphans, Cancel, Cancelled, TypeOK, Live, answers
    <3> QED
      BY <1>0, <2>5, <3>1
         DEF Orphans, Cancel, Cancelled, TypeOK, Startup, venue, disk, memory, bridge, answers, watcher,
             history
  <2>6. CASE CleanupOrders \/ CleanupPositions
    <3>1. todo' \subseteq Oids /\ seenOrders' \subseteq Oids
      BY <2>6 DEF CleanupOrders, CleanupPositions, TypeOK, Live
    <3> QED
      BY <1>0, <2>6, <3>1
         DEF CleanupOrders, CleanupPositions, TypeOK, Startup, venue, disk, memory, bridge, watcher,
             history
  <2>7. CASE Detect
    BY <1>0, <2>7 DEF Detect, TypeOK, Trading, venue, disk, memory, bridge, answers, watcher, history
  <2> QED  BY <1>4, <2>1, <2>2, <2>3, <2>4, <2>5, <2>6, <2>7 DEF StartupStep
<1>5. CASE TradingStep
  <2>1. ASSUME {file', bak', mem'} \subseteq State, pos' \in Position, gtc' \subseteq Oids,
               resub' \in Oids \cup {NoOid}, monitored' \subseteq Oids,
               booked' \in [Oids -> 0 .. MaxQty], processed' \subseteq Oids,
               events' \in {"none", "fills", "closed"}, seenQty' \in 0 .. MaxQty,
               pc' \in Startup \cup Trading, queue' \in {"none", "ghost", "overnight", "unread"},
               kept' \subseteq Oids, early' \in Nat,
               UNCHANGED <<day, crashes, found, seenOrders, todo, watcher>>
        PROVE  TypeOK'
    BY <1>0, <2>1 DEF TypeOK, watcher
  <2>0. /\ resub \in Oids \cup {NoOid} /\ mem.entry.oid \in Oids \cup {NoOid}
        /\ [mem EXCEPT !.entry = NoEntry] \in State
        /\ \A x \in Oids \cup {NoOid} : Updated(x) \in State
    <3>1. mem \in State
      BY DEF TypeOK
    <3>2. \A x \in Oids \cup {NoOid} :
            Updated(x) = [mem EXCEPT !.entry = [known |-> TRUE, oid |-> x,
                               ladder |-> mem.entry.ladder, opened |-> mem.entry.opened]]
      BY <3>1 DEF Updated, State
    <3>3. ASSUME NEW x \in Oids \cup {NoOid} PROVE Updated(x) \in State
      <4>1. PICK e : e = [known |-> TRUE, oid |-> x, ladder |-> mem.entry.ladder,
                          opened |-> mem.entry.opened]
        OBVIOUS
      <4>2. e \in Entry
        BY <3>1, <4>1, StatesTyped DEF Entry
      <4>3. Updated(x) = [mem EXCEPT !.entry = e]
        BY <3>2, <4>1
      <4> QED  BY <3>1, <4>2, <4>3, StatesTyped
    <3> QED  BY <3>1, <3>3, StatesTyped DEF TypeOK
  <2>2. CASE SavePhase0 \/ SaveEntry \/ SaveTrail \/ SaveFill
    <3>1. \A d \in BOOLEAN, x \in Oids \cup {NoOid}, l \in SUBSET Oids, a \in 0 .. MaxDay :
            [known |-> d, oid |-> x, ladder |-> l, opened |-> a] \in Entry
      BY DEF Entry
    <3>2. mem \in State /\ pos.opened \in 0 .. MaxDay
      BY DEF TypeOK, Position
    <3>3. [mem EXCEPT !.entry = [known |-> TRUE, oid |-> resub, ladder |-> monitored,
                                 opened |-> pos.opened]] \in State
      BY <3>1, <3>2, StatesTyped DEF TypeOK
    <3>4. \E s \in State, then \in Trading : Save(s, then)
      BY <2>0, <2>2, <3>2, <3>3 DEF SavePhase0, SaveEntry, SaveTrail, SaveFill, Trading
    <3>5. {file', bak', mem'} \subseteq State /\ pc' \in Trading
      BY <3>4, SaveTyped DEF TypeOK
    <3>6. /\ UNCHANGED <<pos, gtc, resub, monitored, queue, history>> /\ Unchanged
      BY <2>2 DEF SavePhase0, SaveEntry, SaveTrail, SaveFill, Unchanged
    <3> QED  BY <2>1, <3>5, <3>6 DEF TypeOK, Unchanged, bridge, answers, history
  <2>3. CASE CloseGhost \/ Open \/ LiftStop
    BY <2>1, <2>3
       DEF CloseGhost, Open, LiftStop, TypeOK, Unchanged, bridge, answers, history, disk, Trading
  <2>4. CASE CloseOvernight
    <3>1. {file', bak', mem'} \subseteq State /\ pc' = "run" /\ pos' \in Position
      BY <2>0, <2>4, StatesTyped, SaveTyped DEF CloseOvernight, TypeOK, disk
    <3> QED
      BY <2>1, <2>4, <3>1 DEF CloseOvernight, TypeOK, Unchanged, bridge, answers, Trading
  <2>5. CASE PlaceStop
    <3>1. /\ gtc' \subseteq Oids /\ resub' \in Oids \cup {NoOid}
      BY <2>5 DEF PlaceStop, TypeOK, Unused
    <3> QED  BY <2>1, <2>5, <3>1 DEF PlaceStop, TypeOK, disk, bridge, answers, history, Trading
  <2>6. ASSUME UNCHANGED <<gtc, day, crashes, disk, mem, found, seenOrders, todo, queue, watcher,
                            history>>,
               pos' \in Position, resub' \in {resub, NoOid}, monitored' \subseteq Oids,
               booked' \in [Oids -> 0 .. MaxQty], processed' \subseteq Oids,
               events' \in {"none", "fills", "closed"}, seenQty' \in 0 .. MaxQty,
               pc' \in Startup \cup Trading
        PROVE  TypeOK'
    BY <2>1, <2>6 DEF TypeOK, disk, history
  <2>8. ASSUME NEW o \in Oids, CountTranche(o, orders[o].qty)
        PROVE  /\ pos' \in Position /\ resub' \in {resub, NoOid} /\ monitored' \subseteq Oids
               /\ processed' \subseteq Oids
    <3>1. PICK k : k = IF orders[o].qty <= pos.left THEN pos.left - orders[o].qty ELSE 0
      OBVIOUS
    <3>2. k \in 0 .. MaxQty
      BY <3>1, BrokerAssumption DEF TypeOK, Position, Order, Qtys
    <3>3. [pos EXCEPT !.left = k] \in Position /\ NoPosition \in Position
      BY <3>2, StatesTyped DEF TypeOK, Position
    <3> QED  BY <2>8, <3>1, <3>3 DEF CountTranche, TypeOK
  <2>9. CASE \E o \in Oids : BookTranche(o)
    <3>1. PICK o \in Oids : BookTranche(o)
      BY <2>9
    <3>2. /\ UNCHANGED <<gtc, day, crashes, disk, mem, found, seenOrders, todo, queue, watcher,
                         history, booked, seenQty>>
          /\ pc' \in Startup \cup Trading
          /\ events' \in {"none", "fills", "closed"} /\ CountTranche(o, orders[o].qty)
      BY <3>1 DEF BookTranche, Queued, Streaming, Startup, venue, answers, TypeOK
    <3> QED  BY <2>6, <2>8, <3>1, <3>2 DEF TypeOK
  <2>10. CASE \E o \in Oids, cum \in Qtys : BookExit(o, cum)
    <3>1. PICK o \in Oids, cum \in Qtys : BookExit(o, cum)
      BY <2>10
    <3>2. /\ UNCHANGED <<gtc, day, crashes, disk, mem, found, seenOrders, todo, queue, watcher,
                         history, resub, monitored, processed, seenQty>>
          /\ pc' \in Startup \cup Trading
          /\ events' \in {"none", "fills", "closed"} /\ booked' = [booked EXCEPT ![o] = cum]
      BY <3>1 DEF BookExit, Queued, Streaming, Startup, venue, answers, TypeOK
    <3>3. booked' \in [Oids -> 0 .. MaxQty]
      BY <3>2, BrokerAssumption DEF TypeOK, Qtys
    <3>4. PICK k : k = IF cum - booked[o] <= pos.left THEN pos.left - (cum - booked[o]) ELSE 0
      OBVIOUS
    <3>5. booked[o] < cum /\ booked[o] \in 0 .. MaxQty /\ pos.left \in 0 .. MaxQty
      BY <3>1 DEF BookExit, TypeOK, Position
    <3>6. k \in 0 .. MaxQty
      BY <3>4, <3>5, BrokerAssumption DEF Qtys
    <3>7. [pos EXCEPT !.left = k] \in Position /\ NoPosition \in Position
      BY <3>6, StatesTyped DEF TypeOK, Position
    <3>8. pos' \in Position
      BY <3>1, <3>4, <3>7 DEF BookExit
    <3> QED  BY <2>6, <3>2, <3>3, <3>8 DEF TypeOK
  <2>11. CASE FetchPositions
    BY <1>0, <2>1, <2>11, BrokerAssumption
       DEF FetchPositions, TypeOK, venue, disk, memory, bridge, history, Trading
  <2>12. CASE Drain
    <3>1. {file', bak', mem'} \subseteq State /\ pc' \in Trading
      <4>1. \/ \E s \in State, then \in {"sync", "run"} : Save(s, then)
            \/ UNCHANGED <<mem, file, bak>> /\ pc' \in {"run", "sync"}
        BY <2>0, <2>12 DEF Drain, disk
      <4> QED  BY <4>1, SaveTyped DEF TypeOK, Trading
    <3> QED
      BY <2>1, <2>12, <3>1 DEF Drain, TypeOK, venue, answers, history
  <2>13. CASE Sync
    <3>1. /\ UNCHANGED <<gtc, day, crashes, disk, mem, found, seenOrders, todo, queue, watcher,
                         history, booked, events>>
          /\ seenQty' = 0 /\ pc' \in {"saveFill", "run"}
          /\ \/ \E o \in Oids : CountTranche(o, orders[o].qty)
             \/ UNCHANGED <<pos, resub, monitored, processed>>
      BY <2>13 DEF Sync, Credited, TypeOK, venue
    <3>2. 0 \in 0 .. MaxQty
      BY BrokerAssumption
    <3> QED  BY <2>6, <2>8, <3>1, <3>2 DEF TypeOK, Trading
  <2>7. CASE StopOut
    <3>1. [mem EXCEPT !.entry = NoEntry] \in State
      BY StatesTyped DEF TypeOK
    <3>2. {file', bak', mem'} \subseteq State /\ pc' = "run"
      BY <2>7, <3>1, SaveTyped DEF StopOut, TypeOK
    <3> QED
      BY <2>1, <2>7, <3>2, StatesTyped
         DEF StopOut, TypeOK, Unchanged, bridge, answers, history, Trading
  <2> QED  BY <1>5, <2>2, <2>3, <2>4, <2>5, <2>7, <2>9, <2>10, <2>11, <2>12, <2>13
    DEF TradingStep, OnTradeUpdate
<1>6. CASE WatcherStep
  <2>1. /\ UNCHANGED <<day, crashes, disk, pc, mem, found, resub, monitored, answers, queue>>
        /\ UNCHANGED <<bridge, history>>
    BY <1>6 DEF WatcherStep, WatchPositions, WatchOrders, WatchSubmit, NotWatcher
  <2>2. pos' \in Position /\ gtc' \subseteq Oids
    BY <1>6
       DEF WatcherStep, WatchPositions, WatchOrders, WatchSubmit, TypeOK, Position, Unused
  <2>3. watchQty' \in 0 .. MaxQty /\ watch' \in {"idle", "orders", "submit"}
    BY <1>6, BrokerAssumption DEF WatcherStep, WatchPositions, WatchOrders, WatchSubmit, TypeOK
  <2>4. clock' \in 0 .. Tolerance
    BY <1>6, RecoveryAssumption
       DEF WatcherStep, WatchPositions, WatchOrders, WatchSubmit, TypeOK
  <2>5. sent' \in BOOLEAN /\ alarm' \in BOOLEAN
    BY <1>6 DEF WatcherStep, WatchPositions, WatchOrders, WatchSubmit, TypeOK
  <2> QED  BY <1>0, <2>1, <2>2, <2>3, <2>4, <2>5 DEF TypeOK, disk, bridge, answers, history
<1>7. CASE UNCHANGED vars
  BY <1>7 DEF vars, TypeOK, venue, disk, memory, bridge, answers, watcher, history
<1> QED  BY <1>1, <1>2, <1>3, <1>4, <1>5, <1>6, <1>7 DEF Next

TypeInv == TypeOK /\ HoldInv

LEMMA TypeInvariant == Shortable = FALSE => (Spec => []TypeInv)
<1> SUFFICES ASSUME Shortable = FALSE PROVE Spec => []TypeInv
  OBVIOUS
<1>1. Init => TypeInv
  BY HoldInit, TypeInit DEF TypeInv
<1>2. TypeInv /\ [Next]_vars => TypeInv'
  <2> SUFFICES ASSUME TypeInv, [Next]_vars PROVE TypeInv'
    OBVIOUS
  <2>1. pos.left \in Nat /\ watchQty \in Nat
    BY BrokerAssumption DEF TypeInv, TypeOK, Position
  <2>2. HoldInv'
    BY <2>1, HoldStep DEF TypeInv
  <2>3. TypeOK'
    BY <2>2, TypeStep DEF TypeInv
  <2> QED  BY <2>2, <2>3 DEF TypeInv
<1> QED  BY <1>1, <1>2, PTL DEF Spec

(* Where the venue opens no short position, every variable keeps its type  *)
(* over any number of crashes, nights and restarts; the account never goes *)
(* short, and no stop is submitted over more than an order can carry       *)
(* (main.py's startup, session_state.py, hedge_integrity_watcher.py).      *)
THEOREM TypeCorrect ==
    ASSUME Shortable = FALSE
    PROVE  Spec => []TypeOK
<1>1. TypeInv => TypeOK
  BY DEF TypeInv
<1> QED  BY <1>1, TypeInvariant, PTL

(***************************************************************************)
(* How far the tracker can be off.  A share sold is due at the tracker     *)
(* until its print is counted: all that a registered tranche has sold, and *)
(* what the position's stop has sold beyond the books, which a restart     *)
(* empties.  A tranche the sync has credited is counted, and what it has   *)
(* not sold is counted ahead.                                              *)
(***************************************************************************)

\* What order o has sold and the tracker has still to count: t is the table, m and p the
\* registered and the counted tranches, b the books, x the ids the stop goes by.
DueOf(t, m, p, b, x) ==
    [o \in Oids |-> IF o \in p THEN 0
                    ELSE IF o \in m THEN t[o].filled
                    ELSE IF o \in x THEN t[o].filled - b[o] ELSE 0]

Dues   == DueOf(orders, monitored, processed, booked, {pos.oid, resub})
Extras == [o \in Oids |-> IF o \in processed THEN Unfilled(orders[o]) ELSE 0]
Due    == SumFunctionOnSet(Dues, Oids)
Extra  == SumFunctionOnSet(Extras, Oids)

Untracked ==
    /\ ~pos.open /\ monitored = {} /\ processed = {} /\ resub = NoOid
    /\ booked = [o \in Oids |-> 0]

Booked == \A o \in Oids : booked[o] <= orders[o].filled

TrackInv ==
    /\ pc \in {"down", "positions", "orders"} => Untracked
    /\ pc = "orders" => shares <= seenQty
    /\ Booked
    /\ \A o \in processed \cup monitored : orders[o].status # "unused"
    /\ pos.open => shares + Due <= pos.left + early + Extra

\* What is due and what is ahead, order by order.
DueFacts ==
    /\ \A o \in Oids :
         /\ Dues[o] = IF o \in processed THEN 0
                      ELSE IF o \in monitored THEN orders[o].filled
                      ELSE IF o \in {pos.oid, resub} THEN orders[o].filled - booked[o] ELSE 0
         /\ Extras[o] = IF o \in processed THEN orders[o].qty - orders[o].filled ELSE 0
         /\ Dues[o] \in Nat /\ Extras[o] \in Nat
         /\ orders[o].filled \in Nat /\ orders[o].qty \in Nat /\ booked[o] \in Nat
    /\ IsFiniteSet(Oids) /\ Due \in Nat /\ Extra \in Nat

LEMMA DuesAre == TypeInv /\ Booked => DueFacts
<1> SUFFICES ASSUME TypeInv, Booked PROVE DueFacts
  OBVIOUS
<1>1. ASSUME NEW o \in Oids
      PROVE  /\ orders[o].filled \in Nat /\ orders[o].qty \in Nat /\ booked[o] \in Nat
             /\ orders[o].filled <= orders[o].qty /\ booked[o] <= orders[o].filled
  BY BrokerAssumption DEF TypeInv, TypeOK, HoldInv, Sound, SoundOrder, Order, Qtys, Booked
<1>2. ASSUME NEW o \in Oids
      PROVE  /\ Dues[o] = IF o \in processed THEN 0
                          ELSE IF o \in monitored THEN orders[o].filled
                          ELSE IF o \in {pos.oid, resub} THEN orders[o].filled - booked[o] ELSE 0
             /\ Extras[o] = IF o \in processed THEN orders[o].qty - orders[o].filled ELSE 0
  BY DEF Dues, Extras, DueOf, Unfilled
<1>3. ASSUME NEW o \in Oids PROVE Dues[o] \in Nat /\ Extras[o] \in Nat
  BY <1>1, <1>2
<1>4. Due \in Nat /\ Extra \in Nat
  BY <1>3, SumIsNat, BrokerAssumption DEF Due, Extra
<1> QED  BY <1>1, <1>2, <1>3, <1>4, BrokerAssumption DEF DueFacts

LEMMA DueChanges ==
    ASSUME DueFacts, DueFacts', NEW y \in Oids,
           \A x \in Oids \ {y} : Dues'[x] = Dues[x] /\ Extras'[x] = Extras[x]
    PROVE  Due' = Due - Dues[y] + Dues'[y] /\ Extra' = Extra - Extras[y] + Extras'[y]
<1>1. PICK v, w, e, f : v = Dues /\ w = Dues' /\ e = Extras /\ f = Extras'
  OBVIOUS
<1>2. /\ \A x \in Oids : v[x] \in Nat /\ w[x] \in Nat /\ e[x] \in Nat /\ f[x] \in Nat
      /\ IsFiniteSet(Oids)
  BY <1>1 DEF DueFacts
<1>3. \A x \in Oids \ {y} : v[x] = w[x] /\ e[x] = f[x]
  BY <1>1
<1>4. SumFunctionOnSet(w, Oids) = SumFunctionOnSet(v, Oids) - v[y] + w[y]
  BY <1>2, <1>3, SumChanges
<1>5. SumFunctionOnSet(f, Oids) = SumFunctionOnSet(e, Oids) - e[y] + f[y]
  BY <1>2, <1>3, SumChanges
<1> QED  BY <1>1, <1>4, <1>5 DEF Due, Extra

LEMMA DueShrinks ==
    ASSUME DueFacts, DueFacts',
           \A x \in Oids : Dues'[x] <= Dues[x] /\ Extras[x] <= Extras'[x]
    PROVE  Due' <= Due /\ Extra <= Extra'
<1>1. PICK v, w, e, f : v = Dues /\ w = Dues' /\ e = Extras /\ f = Extras'
  OBVIOUS
<1>2. /\ \A x \in Oids : v[x] \in Nat /\ w[x] \in Nat /\ e[x] \in Nat /\ f[x] \in Nat
      /\ IsFiniteSet(Oids)
  BY <1>1 DEF DueFacts
<1>3. \A x \in Oids : w[x] <= v[x] /\ e[x] <= f[x]
  BY <1>1
<1>4. /\ SumFunctionOnSet(w, Oids) <= SumFunctionOnSet(v, Oids)
      /\ SumFunctionOnSet(e, Oids) <= SumFunctionOnSet(f, Oids)
  BY <1>2, <1>3, SumGrows
<1> QED  BY <1>1, <1>4 DEF Due, Extra

\* What the sync credits ahead, as the property counts it.
LEMMA AheadIsExtra ==
    ASSUME TypeInv, Booked
    PROVE  Ahead = Extra
<1>1. PICK e, a : e = Extras /\ a = [o \in Oids |-> Unfilled(orders[o])]
  OBVIOUS
<1>2. processed \subseteq Oids /\ IsFiniteSet(Oids) /\ IsFiniteSet(processed)
  BY FS_Subset, BrokerAssumption DEF TypeInv, TypeOK
<1>3. /\ \A o \in Oids : e[o] \in Nat
      /\ \A o \in Oids \ processed : e[o] = 0
  BY <1>1, DuesAre DEF DueFacts
<1>4. \A o \in processed : e[o] = a[o]
  BY <1>1, <1>2 DEF Extras
<1>5. SumFunctionOnSet(e, Oids) = SumFunctionOnSet(e, processed)
  BY <1>2, <1>3, SumOfPart
<1>6. SumFunctionOnSet(e, processed) = SumFunctionOnSet(a, processed)
  BY <1>2, <1>3, <1>4, SumIsEqual
<1> QED  BY <1>1, <1>5, <1>6 DEF Extra, Ahead

\* What an order has sold it keeps, and an order that was placed stays one.
LEMMA OrdersGrow ==
    ASSUME Shortable = FALSE, TypeInv, [Next]_vars, NEW o \in Oids
    PROVE  /\ orders[o].filled <= orders'[o].filled
           /\ orders[o].status # "unused" => orders'[o].status # "unused"
<1>0. /\ HoldInv /\ Sound(orders) /\ orders[o].filled \in Nat
      /\ pos.left \in Nat /\ watchQty \in Nat
  BY BrokerAssumption DEF TypeInv, TypeOK, HoldInv, Sound, Order, Position
<1>1. CASE Calm /\ Sells
  BY <1>0, <1>1, CalmOrders
<1>2. ASSUME NEW y \in Oids, NEW n \in Qtys, Execute(y, n)
      PROVE  /\ orders[o].filled <= orders'[o].filled
             /\ orders[o].status # "unused" => orders'[o].status # "unused"
  BY <1>0, <1>2, ExecuteOrders, BrokerAssumption DEF Qtys
<1>3. ASSUME NEW y \in Oids, NEW q \in Nat, Submits(y, q)
      PROVE  /\ orders[o].filled <= orders'[o].filled
             /\ orders[o].status # "unused" => orders'[o].status # "unused"
  <2>1. /\ \A x \in Oids \ {y} : orders'[x] = orders[x]
        /\ orders[y].filled = 0 /\ orders'[y].filled = 0 /\ orders'[y].status = "open"
    BY <1>0, <1>3, SubmitOrders
  <2> QED  BY <1>0, <2>1
<1> QED  BY <1>0, <1>1, <1>2, <1>3, Effects

LEMMA TrackInit == Init => TrackInv
<1> SUFFICES ASSUME Init PROVE TrackInv
  OBVIOUS
<1>1. TypeInv
  BY HoldInit, TypeInit DEF TypeInv
<1>2. PICK q \in Qtys, held \in Qtys, x \in Oids, l \in Oids :
        /\ held <= q /\ x # l /\ shares = q
        /\ orders = [o \in Oids |-> CASE o = x -> Sell("stop", held)
                                      [] o = l /\ held < q -> Sell("limit", q - held)
                                      [] OTHER -> Blank]
        /\ monitored = (IF held < q THEN {l} ELSE {})
        /\ pos = [open |-> TRUE, left |-> q, oid |-> x, opened |-> 1]
  BY DEF Init
<1>3. ASSUME NEW o \in Oids
      PROVE  orders[o].filled = 0 /\ (o \in monitored => orders[o].status # "unused")
  <2>1. CASE o = x
    <3>1. orders[o] = Sell("stop", held)
      BY <1>2, <2>1
    <3> QED  BY <3>1, SellIsOrder DEF Kinds
  <2>2. CASE o # x /\ o = l /\ held < q
    <3>1. q - held \in Qtys
      BY <2>2, BrokerAssumption DEF Qtys
    <3>2. orders[o] = Sell("limit", q - held)
      BY <1>2, <2>2
    <3> QED  BY <3>1, <3>2, SellIsOrder DEF Kinds
  <2>3. CASE o # x /\ ~(o = l /\ held < q)
    <3>1. orders[o] = Blank /\ o \notin monitored
      BY <1>2, <2>3
    <3> QED  BY <3>1, BlankIsOrder
  <2> QED  BY <2>1, <2>2, <2>3
<1>4. booked = [o \in Oids |-> 0] /\ processed = {} /\ early = 0 /\ pc = "bought"
  BY DEF Init
<1>5. Booked
  BY <1>3, <1>4 DEF Booked
<1>6. Due = 0 /\ Extra = 0
  <2>1. PICK v, e : v = Dues /\ e = Extras
    OBVIOUS
  <2>2. \A o \in Oids : v[o] = 0 /\ e[o] = 0
    BY <1>1, <1>3, <1>4, <1>5, <2>1, DuesAre DEF DueFacts
  <2> QED  BY <2>1, <2>2, SumOfZeros, BrokerAssumption DEF Due, Extra
<1>7. shares \in Nat /\ pos.left = shares
  BY <1>2, BrokerAssumption DEF Qtys
<1>8. monitored \subseteq Oids
  BY <1>2
<1> QED  BY <1>3, <1>4, <1>5, <1>6, <1>7, <1>8 DEF TrackInv

\* A step that leaves memory alone, or forgets the position.
LEMMA TrackQuiet ==
    ASSUME Shortable = FALSE, TypeInv, TypeInv', TrackInv, Booked',
           (Calm /\ Sells) \/ (\E o \in Oids, n \in Qtys : Execute(o, n)),
           UNCHANGED <<pos, resub, monitored, processed, booked, early>>, pos.open
    PROVE  shares' + Due' <= pos'.left + early' + Extra'
<1>0. /\ HoldInv /\ shares \in Nat /\ shares' \in Nat /\ pos.left \in Nat /\ early \in Nat
      /\ shares + Due <= pos.left + early + Extra
  BY BrokerAssumption DEF TypeInv, TypeOK, HoldInv, TrackInv, Position
<1>1. DueFacts /\ DueFacts'
  BY DuesAre, PTL DEF TrackInv
<1>2. CASE Calm /\ Sells
  <2>1. \A x \in Oids : orders'[x].filled = orders[x].filled /\ orders'[x].qty = orders[x].qty
    BY <1>0, <1>2, CalmOrders
  <2>2. \A x \in Oids : Dues'[x] <= Dues[x] /\ Extras[x] <= Extras'[x]
    BY <1>1, <2>1 DEF DueFacts
  <2>3. Due' <= Due /\ Extra <= Extra' /\ shares' <= shares
    BY <1>0, <1>1, <1>2, <2>2, DueShrinks DEF Sells
  <2> QED  BY <1>0, <1>1, <2>3 DEF DueFacts
<1>3. ASSUME NEW o \in Oids, NEW n \in Qtys, Execute(o, n)
      PROVE  shares' + Due' <= pos'.left + early' + Extra'
  <2>1. /\ orders'[o].filled = orders[o].filled + n /\ orders'[o].qty = orders[o].qty
        /\ shares' = shares - n /\ \A x \in Oids \ {o} : orders'[x] = orders[x]
    BY <1>0, <1>3, ExecuteOrders
  <2>2. \A x \in Oids \ {o} : Dues'[x] = Dues[x] /\ Extras'[x] = Extras[x]
    BY <1>1, <2>1 DEF DueFacts
  <2>3. Due' = Due - Dues[o] + Dues'[o] /\ Extra' = Extra - Extras[o] + Extras'[o]
    BY <1>1, <2>2, DueChanges
  <2>4. /\ Dues[o] \in Nat /\ Dues'[o] \in Nat /\ Extras[o] \in Nat /\ Extras'[o] \in Nat
        /\ Due \in Nat /\ Extra \in Nat /\ n \in Nat
    BY <1>1, BrokerAssumption DEF DueFacts, Qtys
  <2>5. Dues'[o] - Dues[o] <= n + (Extras'[o] - Extras[o])
    <3>1. CASE o \in processed
      <4>1. Dues[o] = 0 /\ Dues'[o] = 0
        BY <1>1, <3>1 DEF DueFacts
      <4>2. Extras[o] = orders[o].qty - orders[o].filled
            /\ Extras'[o] = orders'[o].qty - orders'[o].filled
        BY <1>1, <3>1 DEF DueFacts
      <4>3. orders[o].filled \in Nat /\ orders[o].qty \in Nat
        BY <1>1 DEF DueFacts
      <4> QED  BY <2>1, <2>4, <4>1, <4>2, <4>3
    <3>2. CASE o \notin processed
      <4>1. Extras[o] = 0 /\ Extras'[o] = 0
        BY <1>1, <3>2 DEF DueFacts
      <4>2. \/ Dues[o] = orders[o].filled /\ Dues'[o] = orders'[o].filled
            \/ Dues[o] = orders[o].filled - booked[o] /\ Dues'[o] = orders'[o].filled - booked[o]
            \/ Dues[o] = 0 /\ Dues'[o] = 0
        BY <1>1, <3>2 DEF DueFacts
      <4>3. orders[o].filled \in Nat /\ booked[o] \in Nat
        BY <1>1 DEF DueFacts
      <4> QED  BY <2>1, <2>4, <4>1, <4>2, <4>3
    <3> QED  BY <3>1, <3>2
  <2> QED  BY <1>0, <2>1, <2>3, <2>4, <2>5
<1> QED  BY <1>2, <1>3

\* A stop that is placed has sold nothing.
LEMMA TrackPlaced ==
    ASSUME Shortable = FALSE, TypeInv, TypeInv', TrackInv, Booked',
           NEW o \in Oids, NEW q \in Nat, Submits(o, q),
           UNCHANGED <<monitored, processed, booked, early>>,
           pos.open, pos'.left = pos.left, {pos'.oid, resub'} \subseteq {pos.oid, resub, o}
    PROVE  shares' + Due' <= pos'.left + early' + Extra'
<1>0. /\ HoldInv /\ shares \in Nat /\ pos.left \in Nat /\ early \in Nat /\ shares' = shares
      /\ shares + Due <= pos.left + early + Extra
  BY BrokerAssumption DEF TypeInv, TypeOK, HoldInv, TrackInv, Position, Submits
<1>1. DueFacts /\ DueFacts'
  BY DuesAre, PTL DEF TrackInv
<1>2. /\ \A x \in Oids \ {o} : orders'[x] = orders[x]
      /\ orders'[o].filled = 0 /\ o \notin processed
  BY <1>0, SubmitOrders DEF TrackInv, Submits
<1>3. booked[o] = 0
  BY <1>1, <1>2 DEF Booked, DueFacts
<1>4. ASSUME NEW x \in Oids
      PROVE  Dues'[x] <= Dues[x] /\ Extras[x] <= Extras'[x]
  <2>1. CASE x = o
    <3>1. Dues'[x] = 0 /\ Extras[x] = 0
      BY <1>1, <1>2, <1>3, <2>1 DEF DueFacts
    <3>2. Dues[x] \in Nat /\ Extras'[x] \in Nat
      BY <1>1 DEF DueFacts
    <3> QED  BY <3>1, <3>2
  <2>2. CASE x # o
    <3>1. orders'[x] = orders[x] /\ (x \in {pos'.oid, resub'} => x \in {pos.oid, resub})
      BY <1>2, <2>2
    <3>2. Extras'[x] = Extras[x] /\ (Dues'[x] = Dues[x] \/ Dues'[x] = 0)
      BY <1>1, <3>1 DEF DueFacts
    <3>3. Dues[x] \in Nat /\ Extras[x] \in Nat
      BY <1>1 DEF DueFacts
    <3> QED  BY <3>2, <3>3
  <2> QED  BY <2>1, <2>2
<1>5. Due' <= Due /\ Extra <= Extra'
  BY <1>1, <1>4, DueShrinks
<1> QED  BY <1>0, <1>1, <1>5 DEF DueFacts

\* A tranche that is counted: what it has sold is no longer due, the rest is ahead.
LEMMA TrackCounted ==
    ASSUME TypeInv, TypeInv', TrackInv, Booked',
           NEW o \in monitored \ processed, CountTranche(o, orders[o].qty),
           UNCHANGED <<orders, shares, booked, early>>, pos.open, pos'.open
    PROVE  shares' + Due' <= pos'.left + early' + Extra'
<1>0. /\ shares \in Nat /\ pos.left \in Nat /\ early \in Nat /\ o \in Oids
      /\ shares + Due <= pos.left + early + Extra
  BY BrokerAssumption DEF TypeInv, TypeOK, HoldInv, TrackInv, Position
<1>1. DueFacts /\ DueFacts'
  BY DuesAre, PTL DEF TrackInv
<1>2. orders[o].filled \in Nat /\ orders[o].qty \in Nat
  BY <1>0, <1>1 DEF DueFacts
<1>3. PICK k : k = IF orders[o].qty <= pos.left THEN pos.left - orders[o].qty ELSE 0
  OBVIOUS
<1>4. k # 0 /\ pos' = [pos EXCEPT !.left = k]
      /\ monitored' = monitored \ {o} /\ resub' = resub /\ processed' = processed \cup {o}
  BY <1>3 DEF CountTranche, NoPosition
<1>5. pos'.left = pos.left - orders[o].qty /\ pos'.oid = pos.oid
  BY <1>3, <1>4 DEF TypeInv, TypeOK, Position
<1>6. \A x \in Oids \ {o} : Dues'[x] = Dues[x] /\ Extras'[x] = Extras[x]
  BY <1>1, <1>4, <1>5 DEF DueFacts
<1>7. /\ Dues[o] = orders[o].filled /\ Dues'[o] = 0
      /\ Extras[o] = 0 /\ Extras'[o] = orders[o].qty - orders[o].filled
  BY <1>0, <1>1, <1>4 DEF DueFacts
<1>8. Due' = Due - Dues[o] + Dues'[o] /\ Extra' = Extra - Extras[o] + Extras'[o]
  BY <1>0, <1>1, <1>6, DueChanges
<1>9. Due \in Nat /\ Extra \in Nat
  BY <1>1 DEF DueFacts
<1> QED  BY <1>0, <1>2, <1>5, <1>7, <1>8, <1>9

\* A print of the stop: what it takes off is no longer due.
LEMMA TrackExit ==
    ASSUME TypeInv, TypeInv', TrackInv, Booked', NEW o \in Oids, NEW cum \in Qtys,
           BookExit(o, cum), pos'.open
    PROVE  shares' + Due' <= pos'.left + early' + Extra'
<1>0. /\ shares \in Nat /\ pos.left \in Nat /\ early \in Nat /\ cum \in Nat
      /\ shares + Due <= pos.left + early + Extra
  BY BrokerAssumption DEF TypeInv, TypeOK, HoldInv, TrackInv, Position, BookExit, Qtys
<1>1. DueFacts /\ DueFacts'
  BY DuesAre, PTL DEF TrackInv
<1>2. /\ UNCHANGED <<orders, shares, early, monitored, processed, resub>>
      /\ o \notin monitored \cup processed /\ booked[o] < cum /\ cum <= orders[o].filled
      /\ booked' = [booked EXCEPT ![o] = cum]
  BY DEF BookExit, venue, history
<1>3. PICK k : k = IF cum - booked[o] <= pos.left THEN pos.left - (cum - booked[o]) ELSE 0
  OBVIOUS
<1>4. o \in {pos.oid, resub} /\ pos' = [pos EXCEPT !.left = k]
  BY <1>3 DEF BookExit, NoPosition
<1>5. pos'.left = k /\ pos'.oid = pos.oid
  BY <1>4 DEF TypeInv, TypeOK, Position
<1>6. booked'[o] = cum /\ \A x \in Oids \ {o} : booked'[x] = booked[x]
  BY <1>2 DEF TypeInv, TypeOK
<1>7. \A x \in Oids \ {o} : Dues'[x] = Dues[x] /\ Extras'[x] = Extras[x]
  BY <1>1, <1>2, <1>5, <1>6 DEF DueFacts
<1>8. /\ Dues[o] = orders[o].filled - booked[o] /\ Dues'[o] = orders[o].filled - cum
      /\ Extras[o] = 0 /\ Extras'[o] = 0
  BY <1>1, <1>2, <1>4, <1>5, <1>6 DEF DueFacts
<1>9. Due' = Due - Dues[o] + Dues'[o] /\ Extra' = Extra - Extras[o] + Extras'[o]
  BY <1>1, <1>7, DueChanges
<1>10. /\ Due \in Nat /\ Extra \in Nat /\ Due' \in Nat /\ orders[o].filled \in Nat
       /\ booked[o] \in Nat
  BY <1>1 DEF DueFacts
<1>11. Due' = Due - (cum - booked[o]) /\ Extra' = Extra
  BY <1>0, <1>8, <1>9, <1>10
<1>12. pos.left - (cum - booked[o]) <= k
  BY <1>0, <1>3, <1>10
<1>13. k \in Nat
  BY <1>0, <1>3, <1>10
<1> QED  BY <1>0, <1>2, <1>5, <1>10, <1>11, <1>12, <1>13

\* Recovery: what the orders of the file have sold is due, and early.
LEMMA TrackRecovered ==
    ASSUME TypeInv, TypeInv', TrackInv, Booked', SyncFromState, pos'.open
    PROVE  shares' + Due' <= pos'.left + early' + Extra'
<1>1. DueFacts'
  BY DuesAre, PTL
<1>2. /\ ~pos.open /\ resub = NoOid /\ processed = {} /\ booked = [o \in Oids |-> 0]
      /\ shares <= seenQty /\ UNCHANGED <<orders, shares, booked, processed>>
  BY DEF SyncFromState, TrackInv, Untracked, venue, bridge
<1>3. PICK x, l : x = mem.entry.oid /\ l = mem.entry.ladder \cap Live
  OBVIOUS
<1>4. PICK P : P = l \cup ({x} \cap Oids)
  OBVIOUS
<1>5. /\ pos'.left = seenQty /\ pos'.oid = x
      /\ resub' \in {x, NoOid} /\ monitored' = l /\ early' = Sold(P)
  BY <1>2, <1>3, <1>4 DEF SyncFromState, NoPosition
<1>6. P \subseteq Oids /\ IsFiniteSet(P) /\ IsFiniteSet(Oids)
  BY <1>3, <1>4, FS_Subset, BrokerAssumption DEF Live
<1>7. PICK w, f, g : w = Dues' /\ f = [o \in Oids |-> orders[o].filled] /\ g = Extras'
  OBVIOUS
<1>8. \A o \in Oids : w[o] \in Nat
  BY <1>1, <1>7 DEF DueFacts
<1>9. \A o \in P : w[o] = f[o]
  <2>1. ASSUME NEW o \in P PROVE w[o] = f[o]
    <3>1. o \in Oids /\ o \notin processed' /\ (o \in monitored' \/ o \in {pos'.oid, resub'})
      BY <1>2, <1>4, <1>5, <1>6
    <3>2. orders'[o].filled = orders[o].filled /\ booked'[o] = 0 /\ orders'[o].filled \in Nat
      BY <1>1, <1>2, <3>1 DEF DueFacts
    <3>3. w[o] = orders[o].filled
      BY <1>1, <1>7, <3>1, <3>2 DEF DueFacts
    <3> QED  BY <1>7, <3>1, <3>3
  <2> QED  BY <2>1
<1>10. \A o \in Oids \ P : w[o] = 0
  <2>1. ASSUME NEW o \in Oids \ P PROVE w[o] = 0
    <3>1. o \notin monitored' /\ o \notin {pos'.oid, resub'}
      BY <1>4, <1>5, RecoveryAssumption
    <3> QED  BY <1>1, <1>7, <3>1 DEF DueFacts
  <2> QED  BY <2>1
<1>11. SumFunctionOnSet(w, Oids) = SumFunctionOnSet(w, P)
  BY <1>6, <1>8, <1>10, SumOfPart
<1>12. SumFunctionOnSet(w, P) = SumFunctionOnSet(f, P)
  BY <1>6, <1>8, <1>9, SumIsEqual
<1>13. Due' = early'
  BY <1>5, <1>7, <1>11, <1>12 DEF Due, Sold
<1>14. Due' \in Nat /\ Extra' \in Nat /\ shares \in Nat /\ seenQty \in Nat
  BY <1>1, BrokerAssumption DEF DueFacts, TypeInv, TypeOK
<1> QED  BY <1>2, <1>5, <1>13, <1>14

\* Without a file the stop it finds has sold nothing.
LEMMA TrackFound ==
    ASSUME TypeInv, TypeInv', TrackInv, Booked', SyncFromBroker, pos'.open
    PROVE  shares' + Due' <= pos'.left + early' + Extra'
<1>1. DueFacts'
  BY DuesAre, PTL
<1>2. /\ ~pos.open /\ monitored = {} /\ resub = NoOid /\ processed = {}
      /\ booked = [o \in Oids |-> 0] /\ shares <= seenQty
      /\ UNCHANGED <<orders, shares, resub, monitored, booked, processed, early>>
  BY DEF SyncFromBroker, TrackInv, Untracked, venue, bridge, history
<1>3. pos'.left = seenQty /\ pos'.oid \in Matching(seenQty) \cup {NoOid}
  BY <1>2 DEF SyncFromBroker
<1>4. ASSUME NEW o \in Oids PROVE Dues'[o] = 0
  <2>1. o \notin monitored' /\ booked'[o] = 0 /\ orders'[o] = orders[o]
    BY <1>2
  <2>2. o \in {pos'.oid, resub'} => orders[o].filled = 0
    BY <1>2, <1>3, RecoveryAssumption DEF Matching
  <2> QED  BY <1>1, <2>1, <2>2 DEF DueFacts
<1>5. Due' = 0
  <2>1. PICK w : w = Dues'
    OBVIOUS
  <2> QED  BY <1>4, <2>1, SumOfZeros, BrokerAssumption DEF Due
<1>6. Extra' \in Nat /\ shares \in Nat /\ seenQty \in Nat /\ early \in Nat
  BY <1>1, BrokerAssumption DEF DueFacts, TypeInv, TypeOK
<1>7. shares' = shares /\ shares <= seenQty /\ early' = early /\ pos'.left = seenQty
  BY <1>2, <1>3
<1>8. \A e, d \in Nat : d = 0 => shares + d <= seenQty + early + e
  BY <1>6, <1>7
<1> QED  BY <1>5, <1>6, <1>7, <1>8

\* The books stay below the executions.
LEMMA BookedStep ==
    ASSUME Shortable = FALSE, TypeInv, TypeInv', TrackInv, [Next]_vars
    PROVE  Booked'
<1>0. \A o \in Oids : /\ orders[o].filled <= orders'[o].filled
                      /\ orders[o].filled \in Nat /\ orders'[o].filled \in Nat
                      /\ booked[o] \in Nat /\ booked[o] <= orders[o].filled
  <2>1. /\ orders \in [Oids -> Order] /\ orders' \in [Oids -> Order]
        /\ booked \in [Oids -> 0 .. MaxQty]
    BY DEF TypeInv, TypeOK
  <2>2. ASSUME NEW o \in Oids
        PROVE  /\ orders[o].filled \in Nat /\ orders'[o].filled \in Nat /\ booked[o] \in Nat
               /\ booked[o] <= orders[o].filled
    BY <2>1, BrokerAssumption DEF Order, TrackInv, Booked
  <2>3. \A o \in Oids : orders[o].filled <= orders'[o].filled
    BY OrdersGrow
  <2> QED  BY <2>2, <2>3
<1>1. CASE UNCHANGED booked
  BY <1>0, <1>1 DEF Booked
<1>2. CASE Crash
  <2>1. \A o \in Oids : booked'[o] = 0
    BY <1>2 DEF Crash
  <2> QED  BY <1>0, <2>1 DEF Booked
<1>3. ASSUME NEW o \in Oids, NEW cum \in Qtys, BookExit(o, cum)
      PROVE  Booked'
  <2>1. /\ UNCHANGED orders /\ booked' = [booked EXCEPT ![o] = cum]
        /\ cum <= orders[o].filled
    BY <1>3 DEF BookExit, venue
  <2>2. booked'[o] = cum /\ \A x \in Oids \ {o} : booked'[x] = booked[x]
    BY <2>1 DEF TypeInv, TypeOK
  <2>3. \A x \in Oids : booked'[x] <= orders[x].filled
    BY <1>0, <2>1, <2>2
  <2> QED  BY <2>1, <2>3 DEF Booked
<1>4. CASE \/ NewDay \/ LoseFile \/ (\E o \in Oids, n \in Qtys : Execute(o, n)) \/ StartupStep
           \/ WatcherStep \/ UNCHANGED vars
  <2>1. UNCHANGED booked
    BY <1>4
       DEF NewDay, LoseFile, Execute, StartupStep, Load, ReadPositions, SyncFromState,
           SyncFromBroker, Orphans, Cancel, Cancelled, CleanupOrders, CleanupPositions, Detect,
           WatcherStep, WatchPositions, WatchOrders, WatchSubmit, NotWatcher, vars, memory, bridge
  <2> QED  BY <1>1, <2>1
<1>5. CASE \/ SavePhase0 \/ CloseGhost \/ CloseOvernight \/ Open
           \/ SaveEntry \/ LiftStop \/ PlaceStop \/ SaveTrail \/ SaveFill \/ StopOut
           \/ (\E o \in Oids : BookTranche(o)) \/ FetchPositions \/ Drain \/ Sync
  <2>1. UNCHANGED booked
    BY <1>5
       DEF SavePhase0, CloseGhost, CloseOvernight, Open, SaveEntry, LiftStop, PlaceStop, SaveTrail,
           SaveFill, StopOut, BookTranche, FetchPositions, Drain, Sync, Unchanged, memory, bridge
  <2> QED  BY <1>1, <2>1
<1> QED  BY <1>2, <1>3, <1>4, <1>5 DEF Next, TradingStep, OnTradeUpdate

LEMMA TrackStep ==
    ASSUME Shortable = FALSE, TypeInv, TypeInv', TrackInv, [Next]_vars
    PROVE  TrackInv'
<1> DEFINE Covered == shares + Due <= pos.left + early + Extra
           Starting == {"down", "positions", "orders"}
<1>0. /\ HoldInv /\ monitored \subseteq Oids /\ processed \subseteq Oids
      /\ shares \in Nat /\ pos.left \in Nat /\ seenQty \in Nat /\ watchQty \in Nat
      /\ orders \in [Oids -> Order]
  BY BrokerAssumption DEF TypeInv, TypeOK, Position
<1>1. Booked'
  BY BookedStep
<1>2. \A o \in processed \cup monitored : orders'[o].status # "unused"
  BY <1>0, OrdersGrow DEF TrackInv
<1> HIDE DEF Covered
\* Once the startup has synchronised.
<1>3. ASSUME pc' \notin Starting, pos'.open => Covered',
             processed' \cup monitored' \subseteq processed \cup monitored
      PROVE  TrackInv'
  BY <1>1, <1>2, <1>3 DEF TrackInv, Covered
\* Steps that leave memory alone or forget the position.
<1>4. ASSUME (Calm /\ Sells) \/ (\E o \in Oids, n \in Qtys : Execute(o, n)),
             UNCHANGED <<resub, monitored, processed, booked, early>>, pos' \in {pos, NoPosition},
             pc' \in Starting => pc \in Starting /\ UNCHANGED pos,
             pc' = "orders" => shares' <= seenQty'
      PROVE  TrackInv'
  <2>1. pos'.open => Covered'
    <3>1. CASE UNCHANGED pos
      BY <1>1, <1>4, <3>1, TrackQuiet DEF Covered
    <3>2. CASE pos' = NoPosition
      BY <3>2 DEF NoPosition
    <3> QED  BY <1>4, <3>1, <3>2
  <2>2. pc' \in Starting => Untracked'
    BY <1>4 DEF TrackInv, Untracked
  <2> QED  BY <1>1, <1>2, <1>4, <2>1, <2>2 DEF TrackInv, Covered
<1>5. UNCHANGED <<orders, shares>> => Calm /\ Sells
  BY <1>0 DEF Calm, Sells
<1>6. CASE Crash
  <2>1. Untracked' /\ pc' = "down"
    BY <1>6 DEF Crash, Untracked, NoPosition
  <2> QED  BY <1>1, <2>1 DEF TrackInv, Untracked
<1>7. CASE SyncFromState
  <2>1. /\ pc' = "orphans" /\ UNCHANGED <<orders, processed>>
        /\ monitored' \subseteq Live \cup monitored
    BY <1>7 DEF SyncFromState, venue, bridge
  <2>2. \A o \in processed' \cup monitored' : orders'[o].status # "unused"
    BY <1>2, <2>1 DEF Live
  <2>3. pos'.open => Covered'
    BY <1>1, <1>7, TrackRecovered DEF Covered
  <2> QED  BY <1>1, <2>1, <2>2, <2>3 DEF TrackInv, Covered
<1>8. CASE SyncFromBroker
  <2>1. pc' = "orphans" /\ UNCHANGED <<processed, monitored>>
    BY <1>8 DEF SyncFromBroker, bridge
  <2>2. pos'.open => Covered'
    BY <1>1, <1>8, TrackFound DEF Covered
  <2> QED  BY <1>3, <2>1, <2>2
<1>9. ASSUME NEW o \in monitored \ processed, CountTranche(o, orders[o].qty),
             UNCHANGED <<orders, shares, booked, early>>, pos.open, pc' \notin Starting
      PROVE  TrackInv'
  <2>1. processed' \cup monitored' \subseteq processed \cup monitored
    BY <1>9 DEF CountTranche
  <2>2. pos'.open => Covered'
    BY <1>1, <1>9, TrackCounted DEF Covered
  <2> QED  BY <1>3, <1>9, <2>1, <2>2
<1>10. ASSUME NEW o \in Oids, BookTranche(o)
       PROVE  TrackInv'
  <2>1. /\ o \in monitored \ processed /\ CountTranche(o, orders[o].qty) /\ pos.open
        /\ UNCHANGED <<orders, shares, booked, early>> /\ pc' \notin Starting
    BY <1>10 DEF BookTranche, Streaming, Trading, venue, history
  <2> QED  BY <1>9, <2>1
<1>11. ASSUME NEW o \in Oids, NEW cum \in Qtys, BookExit(o, cum)
       PROVE  TrackInv'
  <2>1. UNCHANGED <<processed, monitored>> /\ pc' \notin Starting
    BY <1>11 DEF BookExit, Streaming, Trading
  <2>2. pos'.open => Covered'
    BY <1>1, <1>11, TrackExit DEF Covered
  <2> QED  BY <1>3, <2>1, <2>2
<1>12. CASE Sync
  <2>1. pc' \notin Starting /\ UNCHANGED <<orders, shares, booked, early>>
    BY <1>12 DEF Sync, venue, history
  <2>2. CASE pos.open /\ \E o \in Credited : CountTranche(o, orders[o].qty)
    BY <1>9, <2>1, <2>2 DEF Credited
  <2>3. CASE UNCHANGED <<pos, resub, monitored, processed>>
    BY <1>4, <1>5, <2>1, <2>3
  <2> QED  BY <1>12, <2>2, <2>3 DEF Sync
<1>13. CASE StopOut
  <2>1. ~pos'.open /\ monitored' = {} /\ pc' = "run" /\ UNCHANGED processed
    BY <1>13 DEF StopOut, NoPosition, Save, Unchanged, bridge
  <2> QED  BY <1>3, <2>1
<1>14. CASE PlaceStop
  <2>1. /\ pc' \in {"saveTrail", "saveFill"}
        /\ UNCHANGED <<shares, pos, monitored, processed, booked, early>>
    BY <1>14 DEF PlaceStop, bridge, history
  <2>2. CASE UNCHANGED <<orders, resub>>
    BY <1>4, <1>5, <2>1, <2>2
  <2>3. ASSUME NEW o \in Oids, Submits(o, pos.left), resub' = o
        PROVE  TrackInv'
    <3>1. pos.open => Covered'
      BY <1>0, <1>1, <2>1, <2>3, TrackPlaced DEF Covered
    <3> QED  BY <1>3, <2>1, <3>1
  <2> QED  BY <1>0, <1>14, <2>1, <2>2, <2>3 DEF PlaceStop, Submits, Unused
<1>15. CASE WatchSubmit
  <2>1. /\ pc' = pc /\ pc \notin Starting
        /\ UNCHANGED <<shares, resub, monitored, processed, booked, early>>
    BY <1>15 DEF WatchSubmit, Watching, Trading, NotWatcher, bridge, history
  <2>2. CASE UNCHANGED <<orders, pos>>
    BY <1>4, <1>5, <2>1, <2>2
  <2>3. ASSUME NEW o \in Oids, Submits(o, watchQty),
               pos' = (IF pos.open THEN [pos EXCEPT !.oid = o] ELSE pos)
        PROVE  TrackInv'
    <3>1. pos.open => pos'.left = pos.left /\ pos'.oid = o
      BY <2>3 DEF TypeInv, TypeOK, Position
    <3>2. pos'.open => pos.open
      BY <2>3
    <3>3. pos.open => Covered'
      BY <1>0, <1>1, <2>1, <2>3, <3>1, TrackPlaced DEF Covered
    <3> QED  BY <1>3, <2>1, <3>2, <3>3
  <2> QED  BY <1>0, <1>15, <2>1, <2>2, <2>3 DEF WatchSubmit, Submits, Unused
<1>16. ASSUME NEW o \in Oids, NEW n \in Qtys, Execute(o, n)
       PROVE  TrackInv'
  <2>1. /\ UNCHANGED <<resub, monitored, processed, booked, early, pos, pc, seenQty>>
        /\ shares' = shares - n
    BY <1>16 DEF Execute, memory, bridge, history, answers
  <2>2. pc' = "orders" => shares' <= seenQty'
    BY <1>0, <2>1, BrokerAssumption DEF TrackInv, Qtys
  <2> QED  BY <1>4, <1>16, <2>1, <2>2
\* The other steps only cancel, and read and write what is not the tracker's.
<1>17. ASSUME ~Crash, ~SyncFromState, ~SyncFromBroker, ~OnTradeUpdate, ~Sync, ~StopOut,
              ~PlaceStop, ~WatchSubmit, ~\E o \in Oids, n \in Qtys : Execute(o, n)
       PROVE  TrackInv'
  <2>1. Calm /\ Sells
    BY <1>0, <1>17, Effects
  <2>2. UNCHANGED <<resub, monitored, processed, booked, early>> /\ pos' \in {pos, NoPosition}
    <3>1. CASE \/ NewDay \/ LoseFile \/ StartupStep \/ UNCHANGED vars
      BY <1>17, <3>1
         DEF NewDay, LoseFile, StartupStep, Load, ReadPositions, Orphans, Cancel, Cancelled,
             CleanupOrders, CleanupPositions, Detect, vars, memory, bridge, history
    <3>2. CASE TradingStep
      BY <1>17, <3>2
         DEF TradingStep, SavePhase0, CloseGhost, CloseOvernight, Open, SaveEntry, LiftStop,
             SaveTrail, SaveFill, FetchPositions, Drain, Unchanged, memory, bridge, history
    <3>3. CASE WatcherStep
      BY <1>17, <3>3
         DEF WatcherStep, WatchPositions, WatchOrders, NotWatcher, bridge, history
    <3> QED  BY <1>17, <3>1, <3>2, <3>3 DEF Next
  <2>3. /\ pc' \in Starting => pc \in Starting /\ UNCHANGED pos
        /\ pc' = "orders" => shares' <= seenQty'
    <3>1. CASE NewDay \/ LoseFile \/ Load \/ ReadPositions \/ UNCHANGED vars
      BY <1>0, <3>1
         DEF NewDay, LoseFile, Load, ReadPositions, vars, memory, venue, answers, TrackInv
    <3>2. CASE \/ Orphans \/ (\E o \in Oids : Cancel(o)) \/ Cancelled
               \/ CleanupOrders \/ CleanupPositions \/ Detect
      BY <3>2 DEF Orphans, Cancel, Cancelled, CleanupOrders, CleanupPositions, Detect
    <3>3. CASE TradingStep
      BY <1>17, <3>3
         DEF TradingStep, SavePhase0, CloseGhost, CloseOvernight, Open, SaveEntry, LiftStop,
             SaveTrail, SaveFill, FetchPositions, Drain, Save
    <3>4. CASE WatcherStep
      BY <1>17, <3>4
         DEF WatcherStep, WatchPositions, WatchOrders, Watching, Trading, NotWatcher
    <3> QED  BY <1>17, <3>1, <3>2, <3>3, <3>4 DEF Next, StartupStep
  <2> QED  BY <1>4, <2>1, <2>2, <2>3
<1> QED
  BY <1>6, <1>7, <1>8, <1>10, <1>11, <1>12, <1>13, <1>14, <1>15, <1>16, <1>17 DEF OnTradeUpdate

(* After any number of crashes, nights and partial executions, and of      *)
(* prints late, repeated or lost, what the tracker has left falls short of *)
(* the account by no more than what the file's live tranches and its stop  *)
(* had sold when the position was recovered (the sync of                   *)
(* position_manager.py takes the quantity the venue reports; a tranche is  *)
(* then taken off whole, and the stop by what exceeds the emptied books of *)
(* fill_stream_bridge.py) and what main.py's tranche sync has credited to  *)
(* orders that have not sold it.                                           *)
THEOREM TrackerIsShortByEarlySales ==
    ASSUME Shortable = FALSE
    PROVE  Spec => []TrackerCoversPosition
<1>1. Init => TrackInv
  BY TrackInit
<1>2. TypeInv /\ TypeInv' /\ TrackInv /\ [Next]_vars => TrackInv'
  BY TrackStep
<1>3. TypeInv /\ TrackInv => TrackerCoversPosition
  <2> SUFFICES ASSUME TypeInv, TrackInv, pos.open PROVE pos.left + early + Ahead >= shares
    BY DEF TrackerCoversPosition
  <2>1. Due \in Nat /\ Extra \in Nat /\ Ahead = Extra
    BY DuesAre, AheadIsExtra DEF TrackInv, DueFacts
  <2>2. shares \in Nat /\ pos.left \in Nat /\ early \in Nat
    BY BrokerAssumption DEF TypeInv, TypeOK, Position
  <2> QED  BY <2>1, <2>2 DEF TrackInv
<1> QED  BY <1>1, <1>2, <1>3, TypeInvariant, PTL DEF Spec

(***************************************************************************)
(* One stop.  Every id that memory and disk keep as the stop's is that of  *)
(* a stop; the watcher submits over no less than the account, so it is     *)
(* accepted only where nothing is open; and while the trailing exchange    *)
(* has lifted its stop, there is none, or the watcher's holds everything.  *)
(***************************************************************************)

StopOids == {NoOid} \cup Stops

StopInv ==
    /\ {resub, mem.entry.oid, file.entry.oid, bak.entry.oid} \subseteq StopOids
    /\ watch # "idle" => shares <= watchQty
    /\ pc = "lifted" => OpenStops(orders) = {} \/ Held(orders) = shares
    /\ AtMostOneOpenStop

LEMMA OpenStopsAre ==
    ASSUME NEW t, Sound(t)
    PROVE  OpenStops(t) = {o \in Oids : t[o].kind = "stop" /\ t[o].status = "open"}
  BY DEF OpenStops, Sound

\* Nothing is open where a sale of the whole account is accepted.
LEMMA WholeIsFree ==
    ASSUME Shortable = FALSE, HoldInv, NEW o \in Oids, NEW q \in Nat, Submits(o, q), shares <= q
    PROVE  OpenStops(orders) = {} /\ Held(orders') = shares
<1>1. /\ q \in Qtys /\ Held(orders') = Held(orders) + q /\ q <= shares - Held(orders)
      /\ Held(orders) \in Nat
  BY SubmitOrders
<1>2. Held(orders) = 0 /\ Held(orders') = shares
  <2>1. shares \in Nat
    BY BrokerAssumption DEF HoldInv
  <2> QED  BY <1>1, <2>1
<1>3. ASSUME NEW x \in Oids, orders[x].status = "open" PROVE FALSE
  <2>1. Reserved(orders[x]) \in Qtys /\ Reserved(orders[x]) <= Held(orders)
    BY <1>3, ReservedOrder, HeldForOrders DEF HoldInv, Sound
  <2> QED  BY <1>2, <2>1 DEF Qtys
<1> QED  BY <1>2, <1>3, OpenStopsAre DEF HoldInv

\* A stop stays one, and only a submission opens one.
LEMMA StopsStay ==
    ASSUME Shortable = FALSE, TypeInv, TypeInv', [Next]_vars
    PROVE  /\ Stops \subseteq Stops' /\ shares' <= shares
           /\ OpenStops(orders') \subseteq OpenStops(orders) \/ PlaceStop \/ WatchSubmit
<1>0. /\ HoldInv /\ Sound(orders) /\ Sound(orders') /\ shares \in Nat
      /\ pos.left \in Nat /\ watchQty \in Nat
  BY BrokerAssumption DEF TypeInv, TypeOK, HoldInv, Position
<1>1. CASE Calm /\ Sells
  <2>1. \A o \in Oids : orders'[o].kind = orders[o].kind
                        /\ orders'[o].status \in {orders[o].status, "canceled"}
    BY <1>0, <1>1, CalmOrders
  <2>2. OpenStops(orders') \subseteq OpenStops(orders)
    BY <1>0, <2>1, OpenStopsAre
  <2> QED  BY <1>0, <1>1, <2>1, <2>2 DEF Sells, Stops
<1>2. ASSUME NEW o \in Oids, NEW n \in Qtys, Execute(o, n)
      PROVE  /\ Stops \subseteq Stops' /\ shares' <= shares
             /\ OpenStops(orders') \subseteq OpenStops(orders)
  <2>1. /\ \A x \in Oids : orders'[x].kind = orders[x].kind
        /\ \A x \in Oids : orders'[x].status = "open" => orders[x].status = "open"
        /\ shares' = shares - n
    BY <1>0, <1>2, ExecuteOrders DEF Execute
  <2> QED  BY <1>0, <2>1, OpenStopsAre, BrokerAssumption DEF Stops, Qtys
<1>3. ASSUME NEW o \in Oids, NEW q \in Nat, Submits(o, q)
      PROVE  Stops \subseteq Stops' /\ shares' <= shares
  <2>1. /\ orders'[o].kind = "stop" /\ \A x \in Oids \ {o} : orders'[x] = orders[x]
        /\ shares' = shares
    BY <1>0, <1>3, SubmitOrders DEF Submits
  <2> QED  BY <1>0, <2>1 DEF Stops
<1> QED  BY <1>0, <1>1, <1>2, <1>3, Effects

LEMMA SaveStops ==
    ASSUME NEW S, {file.entry.oid, bak.entry.oid} \subseteq S, NEW s, s.entry.oid \in S,
           NEW then, Save(s, then)
    PROVE  {mem'.entry.oid, file'.entry.oid, bak'.entry.oid} \subseteq S
  BY DEF Save

\* Only the trailing exchange lifts a stop.
LEMMA WhileLifted ==
    ASSUME [Next]_vars, pc' = "lifted"
    PROVE  \/ LiftStop
           \/ pc = "lifted" /\ \/ \E o \in Oids, n \in Qtys : Execute(o, n)
                               \/ UNCHANGED <<orders, shares>>
                               \/ WatchSubmit
<1>1. CASE \/ Crash \/ NewDay \/ LoseFile
           \/ Load \/ ReadPositions \/ SyncFromState \/ SyncFromBroker
           \/ Orphans \/ Cancelled \/ CleanupOrders \/ CleanupPositions \/ Detect
  BY <1>1 DEF Crash, NewDay, LoseFile, Load, ReadPositions, SyncFromState, SyncFromBroker,
              Orphans, Cancelled, CleanupOrders, CleanupPositions, Detect
<1>2. CASE \/ (\E o \in Oids : Cancel(o))
           \/ SavePhase0 \/ CloseGhost \/ CloseOvernight \/ Open \/ SaveEntry \/ PlaceStop
           \/ SaveTrail \/ SaveFill \/ StopOut \/ FetchPositions \/ Drain \/ Sync
  BY <1>2 DEF Cancel, SavePhase0, CloseGhost, CloseOvernight, Open, SaveEntry, PlaceStop,
              SaveTrail, SaveFill, StopOut, FetchPositions, Drain, Sync, Save
<1>3. CASE WatchPositions \/ (\E inBand \in BOOLEAN : WatchOrders(inBand)) \/ WatchSubmit
  BY <1>3 DEF WatchPositions, WatchOrders, WatchSubmit, NotWatcher
<1>4. CASE \E o \in Oids, n \in Qtys : Execute(o, n)
  BY <1>4 DEF Execute
<1>5. CASE OnTradeUpdate \/ UNCHANGED vars
  BY <1>5 DEF OnTradeUpdate, BookTranche, BookExit, vars, venue
<1> QED
  BY <1>1, <1>2, <1>3, <1>4, <1>5 DEF Next, StartupStep, TradingStep, WatcherStep

LEMMA StopInit == Init => StopInv
<1> SUFFICES ASSUME Init PROVE StopInv
  OBVIOUS
<1>1. PICK n \in Qtys, held \in Qtys, x \in Oids, l \in Oids :
        /\ held <= n /\ x # l /\ resub = x
        /\ orders = [o \in Oids |-> CASE o = x -> Sell("stop", held)
                                      [] o = l /\ held < n -> Sell("limit", n - held)
                                      [] OTHER -> Blank]
  BY DEF Init
<1>2. orders[x].kind = "stop"
  <2>1. orders[x] = Sell("stop", held)
    BY <1>1
  <2> QED  BY <2>1, SellIsOrder DEF Kinds
<1>3. ASSUME NEW o \in Oids \ {x} PROVE orders[o].kind # "stop"
  <2>1. CASE o = l /\ held < n
    <3>1. n - held \in Qtys
      BY <2>1, BrokerAssumption DEF Qtys
    <3>2. orders[o] = Sell("limit", n - held)
      BY <1>1, <2>1
    <3> QED  BY <3>1, <3>2, SellIsOrder DEF Kinds
  <2>2. CASE ~(o = l /\ held < n)
    <3>1. orders[o] = Blank
      BY <1>1, <2>2
    <3> QED  BY <3>1, BlankIsOrder
  <2> QED  BY <2>1, <2>2
<1>4. AtMostOneOpenStop
  BY <1>3, HoldInit, OpenStopsAre DEF AtMostOneOpenStop, HoldInv
<1>5. resub \in Stops
  BY <1>1, <1>2 DEF Stops
<1>6. {mem.entry.oid, file.entry.oid, bak.entry.oid} = {NoOid}
  BY DEF Init, Missing, NoEntry
<1> QED  BY <1>4, <1>5, <1>6 DEF Init, StopInv, StopOids

\* The ids that are kept.
LEMMA StopOidsStep ==
    ASSUME Shortable = FALSE, TypeInv, TypeInv', StopInv, [Next]_vars
    PROVE  {resub', mem'.entry.oid, file'.entry.oid, bak'.entry.oid} \subseteq StopOids'
<1> DEFINE Ids == StopOids
           Kept(s) == s.entry.oid \in Ids
           Goal == {resub', mem'.entry.oid, file'.entry.oid, bak'.entry.oid} \subseteq StopOids'
<1>0. Ids \subseteq StopOids' /\ NoOid \in Ids
  BY StopsStay DEF StopOids
<1>1. resub \in Ids /\ Kept(mem) /\ Kept(file) /\ Kept(bak)
  BY DEF StopInv
<1>2. Kept(Missing) /\ \A d : Kept([day |-> d, entry |-> NoEntry])
  BY <1>0 DEF Missing, NoEntry
<1>3. Kept([mem EXCEPT !.entry = NoEntry]) /\ \A x \in Ids : Kept(Updated(x))
  <2>1. mem \in State
    BY DEF TypeInv, TypeOK
  <2> QED  BY <1>0, <2>1 DEF NoEntry, Updated, State
<1>4. Kept([mem EXCEPT !.entry = [known |-> TRUE, oid |-> resub, ladder |-> monitored,
                                  opened |-> pos.opened]])
  <2>1. mem \in State
    BY DEF TypeInv, TypeOK
  <2> QED  BY <1>1, <2>1 DEF State
<1> HIDE DEF Ids
<1>5. ASSUME resub' \in Ids, Kept(mem'), Kept(file'), Kept(bak') PROVE Goal
  BY <1>0, <1>5
<1>6. CASE Crash \/ LoseFile \/ Load
  BY <1>0, <1>1, <1>2, <1>5, <1>6 DEF Crash, LoseFile, Load, Loaded, memory, disk
<1>7. CASE SyncFromState \/ SyncFromBroker
  BY <1>0, <1>1, <1>5, <1>7 DEF SyncFromState, SyncFromBroker, disk
<1>8. CASE \/ NewDay \/ (\E o \in Oids, n \in Qtys : Execute(o, n)) \/ ReadPositions
           \/ Orphans \/ (\E o \in Oids : Cancel(o)) \/ Cancelled
           \/ CleanupOrders \/ CleanupPositions \/ Detect
           \/ CloseGhost \/ Open \/ LiftStop \/ FetchPositions \/ WatcherStep \/ UNCHANGED vars
  <2>1. UNCHANGED <<mem, file, bak, resub>>
    BY <1>8 DEF NewDay, Execute, ReadPositions, Orphans, Cancel, Cancelled, CleanupOrders,
                CleanupPositions, Detect, CloseGhost, Open, LiftStop, FetchPositions, WatcherStep,
                WatchPositions, WatchOrders, WatchSubmit, NotWatcher, vars, memory, disk
  <2> QED  BY <1>1, <1>5, <2>1
<1>9. CASE PlaceStop
  <2>1. Kept(mem') /\ Kept(file') /\ Kept(bak')
    BY <1>1, <1>9 DEF PlaceStop, disk
  <2>2. CASE UNCHANGED resub
    BY <1>1, <1>5, <2>1, <2>2
  <2>3. CASE resub' # resub
    <3>1. resub' \in Oids /\ orders' = [orders EXCEPT ![resub'] = Sell("stop", pos.left)]
          /\ Accepts(orders, shares, pos.left) /\ resub' \in Unused(orders) /\ shares' = shares
      BY <1>9, <2>3 DEF PlaceStop, TypeInv, TypeOK, Unused
    <3>2. PICK o : o = resub'
      OBVIOUS
    <3>3. o \in Oids /\ Submits(o, pos.left) /\ pos.left \in Nat
      BY <3>1, <3>2, BrokerAssumption DEF Submits, Unused, TypeInv, TypeOK, Position
    <3>4. orders'[o].kind = "stop"
      BY <3>3, SubmitOrders DEF TypeInv
    <3>5. resub' \in Stops'
      BY <3>2, <3>3, <3>4 DEF Stops
    <3> QED  BY <1>0, <2>1, <3>5 DEF StopOids
  <2> QED  BY <2>2, <2>3
<1>10. CASE SavePhase0 \/ SaveEntry \/ SaveTrail \/ SaveFill
  <2>1. \E s, then : Kept(s) /\ Save(s, then)
    BY <1>1, <1>3, <1>4, <1>10 DEF SavePhase0, SaveEntry, SaveTrail, SaveFill
  <2>2. Kept(mem') /\ Kept(file') /\ Kept(bak')
    BY <1>1, <2>1, SaveStops
  <2>3. resub' = resub
    BY <1>10 DEF SavePhase0, SaveEntry, SaveTrail, SaveFill
  <2> QED  BY <1>1, <1>5, <2>2, <2>3
<1>11. CASE CloseOvernight \/ StopOut
  <2>1. Kept(mem') /\ Kept(file') /\ Kept(bak')
    BY <1>1, <1>3, <1>11, SaveStops DEF CloseOvernight, StopOut, disk
  <2>2. resub' \in Ids
    BY <1>0, <1>1, <1>11 DEF CloseOvernight, StopOut
  <2> QED  BY <1>5, <2>1, <2>2
<1>12. CASE OnTradeUpdate \/ Sync
  <2>1. resub' \in {resub, NoOid} /\ UNCHANGED <<mem, file, bak>>
    BY <1>12 DEF OnTradeUpdate, BookTranche, BookExit, Sync, CountTranche, disk
  <2> QED  BY <1>0, <1>1, <1>5, <2>1
<1>13. CASE Drain
  <2>1. \/ \E s, then : Kept(s) /\ Save(s, then)
        \/ UNCHANGED <<mem, file, bak>>
    BY <1>1, <1>3, <1>13 DEF Drain, disk
  <2>2. Kept(mem') /\ Kept(file') /\ Kept(bak')
    BY <1>1, <2>1, SaveStops
  <2>3. resub' = resub
    BY <1>13 DEF Drain
  <2> QED  BY <1>1, <1>5, <2>2, <2>3
<1> QED
  BY <1>6, <1>7, <1>8, <1>9, <1>10, <1>11, <1>12, <1>13 DEF Next, StartupStep, TradingStep

LEMMA StopStep ==
    ASSUME Shortable = FALSE, TypeInv, TypeInv', StopInv, [Next]_vars
    PROVE  StopInv'
<1>0. /\ HoldInv /\ Sound(orders) /\ Sound(orders') /\ shares \in Nat /\ shares' \in Nat
      /\ pos.left \in Nat /\ watchQty \in Nat /\ Held(orders) \in Nat
  BY HeldForOrders, BrokerAssumption DEF TypeInv, TypeOK, HoldInv, Position
<1>1. watch' # "idle" => shares' <= watchQty'
  <2>1. shares' <= shares
    BY StopsStay
  <2>2. CASE UNCHANGED <<watch, watchQty>>
    BY <1>0, <2>1, <2>2 DEF StopInv
  <2>3. CASE ~UNCHANGED <<watch, watchQty>>
    <3>1. watch' = "idle" \/ WatchPositions
          \/ (watch # "idle" /\ UNCHANGED <<watchQty, shares>>)
      <4>1. CASE Crash \/ WatcherStep
        BY <4>1 DEF Crash, WatcherStep, WatchOrders, WatchSubmit, NotWatcher
      <4>2. CASE NewDay \/ LoseFile \/ (\E o \in Oids, n \in Qtys : Execute(o, n)) \/ StartupStep
                 \/ UNCHANGED vars
        BY <2>3, <4>2
           DEF NewDay, LoseFile, Execute, StartupStep, Load, ReadPositions, SyncFromState,
               SyncFromBroker, Orphans, Cancel, Cancelled, CleanupOrders, CleanupPositions, Detect,
               vars, watcher
      <4>3. CASE TradingStep
        BY <2>3, <4>3
           DEF TradingStep, SavePhase0, CloseGhost, CloseOvernight, Open, SaveEntry, LiftStop,
               PlaceStop, SaveTrail, SaveFill, StopOut, OnTradeUpdate, BookTranche, BookExit,
               FetchPositions, Drain, Sync, Unchanged, watcher
      <4> QED  BY <4>1, <4>2, <4>3 DEF Next
    <3> QED  BY <1>0, <2>1, <3>1 DEF StopInv, WatchPositions, NotWatcher
  <2> QED  BY <2>2, <2>3
\* The two submissions.
<1>2. ASSUME NEW o \in Oids, PlaceStop, Submits(o, pos.left)
      PROVE  OpenStops(orders) = {}
  <2>1. pos.left \in Qtys /\ pos.left <= shares - Held(orders)
    BY <1>0, <1>2, SubmitOrders
  <2>2. Held(orders) # shares
    BY <1>0, <2>1 DEF Qtys
  <2> QED  BY <1>2, <2>2 DEF PlaceStop, StopInv
<1>3. ASSUME NEW o \in Oids, WatchSubmit, Submits(o, watchQty)
      PROVE  OpenStops(orders) = {} /\ Held(orders') = shares'
  <2>1. shares <= watchQty /\ shares' = shares
    BY <1>3 DEF WatchSubmit, StopInv, Submits
  <2> QED  BY <1>0, <1>3, <2>1, WholeIsFree
<1>4. AtMostOneOpenStop'
  <2>1. CASE OpenStops(orders') \subseteq OpenStops(orders)
    BY <2>1 DEF StopInv, AtMostOneOpenStop
  <2>2. ASSUME NEW o \in Oids, NEW q \in Nat, Submits(o, q), OpenStops(orders) = {}
        PROVE  AtMostOneOpenStop'
    <3>1. \A x \in Oids \ {o} : orders'[x] = orders[x]
      BY <1>0, <2>2, SubmitOrders
    <3>2. OpenStops(orders') \subseteq {o}
      BY <1>0, <2>2, <3>1, OpenStopsAre
    <3> QED  BY <3>2 DEF AtMostOneOpenStop
  <2>3. CASE Calm /\ Sells
    <3>1. \A o \in Oids : orders'[o].kind = orders[o].kind
                          /\ orders'[o].status \in {orders[o].status, "canceled"}
      BY <1>0, <2>3, CalmOrders
    <3> QED  BY <1>0, <2>1, <3>1, OpenStopsAre
  <2>4. ASSUME NEW o \in Oids, NEW n \in Qtys, Execute(o, n)
        PROVE  AtMostOneOpenStop'
    <3>1. /\ \A x \in Oids : orders'[x].kind = orders[x].kind
          /\ \A x \in Oids : orders'[x].status = "open" => orders[x].status = "open"
      BY <1>0, <2>4, ExecuteOrders DEF Execute
    <3> QED  BY <1>0, <2>1, <3>1, OpenStopsAre
  <2> QED  BY <1>0, <1>2, <1>3, <2>2, <2>3, <2>4, Effects
<1>5. ASSUME pc' = "lifted"
      PROVE  OpenStops(orders') = {} \/ Held(orders') = shares'
  <2>1. CASE LiftStop
    <3>1. resub \in Oids /\ orders[resub].status = "open" /\ resub \in StopOids
          /\ orders' = [orders EXCEPT ![resub] = Settled(@)]
      BY <2>1 DEF LiftStop, Live, StopInv
    <3>2. resub \in OpenStops(orders)
      BY <1>0, <3>1, OpenStopsAre, RecoveryAssumption DEF StopOids, Stops
    <3>3. \A o \in Oids \ {resub} : orders'[o] = orders[o] /\ o \notin OpenStops(orders)
      BY <1>0, <3>1, <3>2 DEF StopInv, AtMostOneOpenStop, Sound
    <3>4. orders'[resub].status = "canceled"
      BY <1>0, <3>1, ChangedFields DEF Sound
    <3> QED  BY <1>0, <3>3, <3>4, OpenStopsAre
  <2>2. ASSUME pc = "lifted", NEW o \in Oids, NEW n \in Qtys, Execute(o, n)
        PROVE  OpenStops(orders') = {} \/ Held(orders') = shares'
    <3>1. /\ \A x \in Oids : orders'[x].kind = orders[x].kind
          /\ \A x \in Oids : orders'[x].status = "open" => orders[x].status = "open"
          /\ shares' = shares - n /\ Held(orders') = Held(orders) - n
      BY <1>0, <2>2, ExecuteOrders DEF Execute
    <3>2. OpenStops(orders') \subseteq OpenStops(orders)
      BY <1>0, <3>1, OpenStopsAre
    <3> QED  BY <2>2, <3>1, <3>2 DEF StopInv
  <2>3. CASE pc = "lifted" /\ UNCHANGED <<orders, shares>>
    BY <2>3 DEF StopInv
  <2>4. CASE WatchSubmit
    <3>1. (\E o \in Oids : Submits(o, watchQty)) \/ UNCHANGED <<orders, shares>>
      BY <2>4 DEF WatchSubmit, Submits, Unused, HoldInv, NotWatcher, TypeInv, Sound
    <3>2. pc = "lifted"
      BY <1>5, <2>4 DEF WatchSubmit, NotWatcher
    <3> QED  BY <1>3, <2>3, <2>4, <3>1, <3>2
  <2> QED  BY <1>5, <2>1, <2>2, <2>3, <2>4, WhileLifted
<1>6. {resub', mem'.entry.oid, file'.entry.oid, bak'.entry.oid} \subseteq StopOids'
  BY StopOidsStep
<1> QED  BY <1>1, <1>4, <1>5, <1>6 DEF StopInv

(* The resubmitter's trailing exchange and the watcher both place stops,   *)
(* and neither knows of the other's; over crashes, restarts and nights     *)
(* there is still never more than one open, because each asks for shares   *)
(* that the other's stop would hold (hedge_integrity_watcher.py submits    *)
(* over the position it read, main.py over what the tracker has left).     *)
THEOREM OneStopAcrossRestarts ==
    ASSUME Shortable = FALSE
    PROVE  Spec => []AtMostOneOpenStop
<1>1. Init => StopInv
  BY StopInit
<1>2. TypeInv /\ TypeInv' /\ StopInv /\ [Next]_vars => StopInv'
  BY StopStep
<1>3. StopInv => AtMostOneOpenStop
  BY DEF StopInv
<1> QED  BY <1>1, <1>2, <1>3, TypeInvariant, PTL DEF Spec

(***************************************************************************)
(* The stop a startup finds.  From the load to the open it is a GTC stop   *)
(* that nothing cancels: the orphan scan leaves a tracked position alone,  *)
(* and the clean-up reads an account that still has at least the stop's    *)
(* shares, whatever was sold between its two reads.                        *)
(***************************************************************************)

\* The startup works on a position it has recovered, or may yet recover.
Recovering ==
    \/ pc \in {"positions", "orders"}
    \/ pc \in Startup \cup {"premarket"} /\ pos.open

KeptStop(o) ==
    /\ o \in gtc /\ orders[o].kind = "stop"
    /\ orders[o].filled = 0 =>
         /\ orders[o].status = "open"
         /\ pc \in {"orphaned", "cleaning"} => o \notin todo

KeptInv == Recovering => \A o \in kept : KeptStop(o)

\* Until the open, orders only execute or are canceled by the two scans.
LEMMA KeptStep ==
    ASSUME Shortable = FALSE, TypeInv, TypeInv', KeptInv, [Next]_vars
    PROVE  KeptInv'
<1>0. /\ HoldInv /\ Sound(orders) /\ orders \in [Oids -> Order] /\ kept \subseteq Oids
      /\ watchQty \in Nat /\ shares \in Nat
  BY BrokerAssumption DEF TypeInv, TypeOK, HoldInv, Sound
<1>1. SUFFICES ASSUME Recovering'
               PROVE  \A o \in kept' : KeptStop(o)'
  BY DEF KeptInv
\* Steps that leave the orders alone.
<1>2. ASSUME UNCHANGED <<orders, gtc, kept>>, Recovering,
             \A o \in kept : KeptStop(o) /\ orders[o].filled = 0 /\ pc' \in {"orphaned", "cleaning"}
                 => o \notin todo'
      PROVE  \A o \in kept' : KeptStop(o)'
  BY <1>2 DEF KeptInv, KeptStop
<1>3. CASE Load
  BY <1>0, <1>3 DEF Load, KeptStop, Live, Stops, venue
<1>4. CASE ReadPositions \/ SyncFromState \/ SyncFromBroker
  <2>1. /\ UNCHANGED <<orders, gtc, kept>> /\ Recovering /\ pc' \notin {"orphaned", "cleaning"}
    BY <1>4 DEF ReadPositions, SyncFromState, SyncFromBroker, venue, history, Recovering
  <2> QED  BY <1>2, <2>1
<1>5. CASE Orphans
  <2>1. UNCHANGED <<orders, gtc, kept, pos>> /\ pc = "orphans" /\ pc' = "orphaned"
    BY <1>5 DEF Orphans, venue, history, memory
  <2>2. pos.open /\ Recovering
    BY <1>1, <2>1 DEF Recovering, Startup
  <2>3. todo' = {}
    BY <1>5, <2>2 DEF Orphans
  <2> QED  BY <1>2, <2>1, <2>2, <2>3
<1>6. ASSUME NEW x \in Oids, Cancel(x)
      PROVE  \A o \in kept' : KeptStop(o)'
  <2>1. /\ UNCHANGED <<gtc, kept, pos, pc>> /\ pc \in {"orphaned", "cleaning"}
        /\ x \in todo /\ todo' \subseteq todo
        /\ \A o \in Oids \ {x} : orders'[o] = orders[o]
    BY <1>0, <1>6 DEF Cancel, history, memory
  <2>2. orders'[x].kind = orders[x].kind /\ orders'[x].filled = orders[x].filled
    BY <1>0, <1>6, ChangedFields DEF Cancel
  <2>3. Recovering
    BY <1>1, <2>1 DEF Recovering
  <2>4. \A o \in kept : orders[o].filled = 0 => o # x
    BY <2>1, <2>3 DEF KeptInv, KeptStop
  <2> QED  BY <1>0, <2>1, <2>2, <2>3, <2>4 DEF KeptInv, KeptStop
<1>7. CASE Cancelled \/ CleanupOrders \/ Detect
  <2>1. /\ UNCHANGED <<orders, gtc, kept, pos>> /\ pc \in Startup
        /\ pc' \notin {"positions", "orders", "orphaned", "cleaning"}
    BY <1>7 DEF Cancelled, CleanupOrders, Detect, venue, history, memory, Startup
  <2>2. Recovering
    BY <1>1, <2>1 DEF Recovering
  <2> QED  BY <1>2, <2>1, <2>2
<1>8. CASE CleanupPositions
  <2>1. /\ UNCHANGED <<orders, gtc, kept, pos>> /\ pc = "cleanupPositions"
        /\ pc' \in {"cleaning", "detect"}
    BY <1>8 DEF CleanupPositions, venue, history, memory
  <2>2. Recovering
    BY <1>1, <2>1 DEF Recovering, Startup
  <2>3. ASSUME NEW o \in kept, KeptStop(o), orders[o].filled = 0
        PROVE  Preserved(o, shares)
    <3>1. /\ Reserved(orders[o]) = Unfilled(orders[o]) /\ Reserved(orders[o]) \in Qtys
          /\ Reserved(orders[o]) <= Held(orders) /\ Held(orders) <= shares
          /\ Held(orders) \in Nat /\ orders[o].qty \in Int
      BY <1>0, <2>3, ReservedOrder, HeldForOrders DEF KeptStop, HoldInv, Sound, Order, Qtys
    <3>2. orders[o].qty <= shares /\ shares > 0
      BY <1>0, <2>3, <3>1 DEF Unfilled, Qtys
    <3> QED  BY <2>3, <3>2 DEF Preserved, KeptStop
  <2>4. pc' = "cleaning" => todo' = {o \in seenOrders : ~Preserved(o, shares)}
    BY <1>8 DEF CleanupPositions
  <2> QED  BY <1>2, <2>1, <2>2, <2>3, <2>4
<1>9. ASSUME NEW x \in Oids, NEW n \in Qtys, Execute(x, n)
      PROVE  \A o \in kept' : KeptStop(o)'
  <2>1. /\ UNCHANGED <<gtc, kept, pos, pc, todo>>
        /\ \A o \in Oids \ {x} : orders'[o] = orders[o]
        /\ orders'[x].kind = orders[x].kind /\ orders'[x].filled = orders[x].filled + n
    BY <1>0, <1>9, ExecuteOrders DEF Execute, history, memory, answers
  <2>2. orders'[x].filled # 0
    BY <1>0, <2>1, BrokerAssumption DEF Qtys, Order
  <2>3. Recovering
    BY <1>1, <2>1 DEF Recovering
  <2> QED  BY <1>0, <2>1, <2>2, <2>3 DEF KeptInv, KeptStop
<1>10. CASE SavePhase0
  <2>1. UNCHANGED <<orders, gtc, kept, pos>> /\ pc = "premarket" /\ pc' = "premarket"
    BY <1>10 DEF SavePhase0, Unchanged, history, Save
  <2>2. Recovering
    BY <1>1, <2>1 DEF Recovering
  <2> QED  BY <1>2, <2>1, <2>2
<1>11. CASE WatcherStep
  <2>1. /\ UNCHANGED <<kept, pc, todo>> /\ pc \in Trading
        /\ pos'.open => pos.open
        /\ gtc \subseteq gtc'
        /\ UNCHANGED orders \/ \E x \in Oids : Submits(x, watchQty)
    BY <1>0, <1>11 DEF WatcherStep, WatchPositions, WatchOrders, WatchSubmit, Watching, NotWatcher,
                history, answers, Submits, Unused, TypeInv, TypeOK, Position
  <2>2. Recovering /\ pc = "premarket"
    BY <1>1, <2>1 DEF Recovering, Trading, Startup
  <2>3. ASSUME NEW o \in kept
        PROVE  KeptStop(o)'
    <3>1. KeptStop(o) /\ o \in Oids
      BY <1>0, <2>2 DEF KeptInv
    <3>2. CASE UNCHANGED orders
      BY <2>1, <2>2, <3>1, <3>2 DEF KeptStop
    <3>3. ASSUME NEW x \in Oids, Submits(x, watchQty) PROVE KeptStop(o)'
      <4>1. orders[x].status = "unused" /\ orders[x].filled = 0
        BY <1>0, <3>3, SubmitOrders DEF Submits
      <4>2. o # x
        BY <3>1, <4>1 DEF KeptStop
      <4>3. orders'[o] = orders[o]
        BY <1>0, <3>1, <3>3, <4>2, SubmitOrders
      <4> QED  BY <2>1, <2>2, <3>1, <4>3 DEF KeptStop
    <3> QED  BY <2>1, <3>2, <3>3
  <2> QED  BY <2>1, <2>3
\* Everything else leads away from the startup.
<1>12. CASE \/ Crash \/ NewDay \/ LoseFile
            \/ CloseGhost \/ CloseOvernight \/ Open \/ SaveEntry \/ LiftStop \/ PlaceStop
            \/ SaveTrail \/ SaveFill \/ StopOut \/ FetchPositions \/ Drain \/ Sync
  <2>1. pc' \in {"down", "run", "lifted", "saveTrail", "saveFill", "fetched", "sync"}
    BY <1>12 DEF Crash, NewDay, LoseFile, CloseGhost, CloseOvernight, Open, SaveEntry, LiftStop,
                 PlaceStop, SaveTrail, SaveFill, StopOut, FetchPositions, Drain, Sync, Save
  <2> QED  BY <1>1, <2>1 DEF Recovering, Startup
<1>13. CASE UNCHANGED vars
  <2>1. UNCHANGED <<orders, gtc, kept, pos, pc, todo>>
    BY <1>13 DEF vars, venue, memory, answers, history
  <2>2. Recovering
    BY <1>1, <2>1 DEF Recovering
  <2> QED  BY <1>2, <2>1, <2>2 DEF KeptStop
<1>14. CASE OnTradeUpdate
  <2>1. UNCHANGED <<orders, gtc, kept, pc, todo>> /\ pc \notin {"positions", "orders"}
    BY <1>14 DEF OnTradeUpdate, BookTranche, BookExit, Streaming, Trading, venue, answers, history
  <2>2. pos.open
    BY <1>14 DEF OnTradeUpdate, BookTranche, BookExit
  <2>3. Recovering
    BY <1>1, <2>1, <2>2 DEF Recovering
  <2> QED  BY <1>2, <2>1, <2>3 DEF KeptInv, KeptStop
<1> QED
  BY <1>3, <1>4, <1>5, <1>6, <1>7, <1>8, <1>9, <1>10, <1>11, <1>12, <1>13, <1>14
     DEF Next, StartupStep, TradingStep

(* A GTC stop that recovery finds whole, on a position it recovers, is     *)
(* still open when trading starts, unless it executed: neither the orphan  *)
(* scan nor the clean-up cancels it, whatever the venue sells between      *)
(* their reads (startup_order_cleanup.py's _should_preserve).              *)
THEOREM StopSurvivesStartup ==
    ASSUME Shortable = FALSE
    PROVE  Spec => []StartupKeepsStop
<1>1. Init => KeptInv
  BY DEF Init, KeptInv
<1>2. TypeInv /\ TypeInv' /\ KeptInv /\ [Next]_vars => KeptInv'
  BY KeptStep
<1>3. KeptInv => StartupKeepsStop
  BY DEF KeptInv, Recovering, KeptStop, StartupKeepsStop
<1> QED  BY <1>1, <1>2, <1>3, TypeInvariant, PTL DEF Spec
=============================================================================
