------------------------------ MODULE Recovery ------------------------------
(***************************************************************************)
(* One position over crashes, restarts and nights:                         *)
(*   - src/src/execution/session_state.py, the file that remembers it;     *)
(*   - the startup of src/main.py: load, position_manager.py's two syncs,  *)
(*     the orphan scan (D107), startup_order_cleanup.py (D86), the search  *)
(*     for ghost and overnight positions (D86/D91) and their close at the  *)
(*     open;                                                               *)
(*   - hedge_integrity_watcher.py, which runs beside all this and arms an  *)
(*     emergency stop when a position stays without one;                   *)
(*   - the fills: fill_stream_bridge.py's callback, which the order stream *)
(*     calls between any two steps, and the cycle's drain and tranche sync *)
(*     (FillBooking has them for a process that does not end);             *)
(*   - what trading does to the file: an exchange of the stop, a fill, a   *)
(*     stop-out, each followed by its save.                                *)
(* The venue executes at any time, while the process is down too, and its  *)
(* DAY orders do not outlive the day.  Every read is a step of its own.    *)
(***************************************************************************)
EXTENDS Broker

CONSTANTS MaxDay,      \* bound: days
          MaxCrashes,  \* bound: ends of the process
          Tolerance,   \* polls of the watcher that make up its tolerance (60 s, one per 20 s)
          NoOid

ASSUME RecoveryAssumption ==
    /\ MaxDay \in Nat \ {0} /\ MaxCrashes \in Nat /\ Tolerance \in Nat \ {0}
    /\ NoOid \notin Oids

VARIABLES orders, shares, gtc,       \* the venue; orders that outlive the day
          day, crashes,
          file, bak,                 \* session_state.json and its .bak
          pc, mem,                   \* the process; SessionStateManager._state
          found,                     \* load() returned a state
          pos, resub, monitored,     \* tracker, _stops, _order_map
          booked, processed, events, \* _order_booked_qty, _processed_fill_ids, events not drained
          seenQty, seenOrders, todo, \* answers the startup or the cycle is working on
          queue,                     \* _ghost_/_overnight_positions_to_close
          watch, watchQty,           \* the watcher: its step and its _PositionState
          clock, sent, alarm,        \* unhedged polls, emergency_stop_submitted, incident
          kept, early                \* history: the stops the startup found; what the
                                     \* orders of the file had sold at the recovery

venue   == <<orders, shares, gtc>>
disk    == <<file, bak>>
bridge  == <<booked, processed, events>>
memory  == <<mem, found, pos, resub, monitored, bridge>>
answers == <<seenQty, seenOrders, todo>>
watcher == <<watch, watchQty, clock, sent, alarm>>
history == <<kept, early>>
vars    == <<venue, day, crashes, disk, pc, memory, answers, queue, watcher, history>>

\* A persisted position; opened = 0 is a record without opened_at.  A state of day 0
\* stands for a file that is missing or cannot be parsed.
Entry   == [known: BOOLEAN, oid: Oids \cup {NoOid}, ladder: SUBSET Oids, opened: 0 .. MaxDay]
NoEntry == [known |-> FALSE, oid |-> NoOid, ladder |-> {}, opened |-> 0]
State   == [day: 0 .. MaxDay, entry: Entry]
Missing == [day |-> 0, entry |-> NoEntry]

Position == [open: BOOLEAN, left: 0 .. MaxQty, oid: Oids \cup {NoOid}, opened: 0 .. MaxDay]
NoPosition == [open |-> FALSE, left |-> 0, oid |-> NoOid, opened |-> 0]

Startup == {"positions", "orders", "orphans", "orphaned", "cleanup", "cleanupPositions",
            "cleaning", "detect"}
Trading == {"premarket", "bought", "run", "lifted", "saveTrail", "saveFill", "fetched", "sync"}

TypeOK ==
    /\ orders \in [Oids -> Order] /\ shares \in 0 .. MaxQty /\ gtc \subseteq Oids
    /\ day \in 1 .. MaxDay /\ crashes \in 0 .. MaxCrashes
    /\ {file, bak, mem} \subseteq State
    /\ pc \in Startup \cup Trading \cup {"down"} /\ found \in BOOLEAN
    /\ pos \in Position /\ resub \in Oids \cup {NoOid} /\ monitored \subseteq Oids
    /\ booked \in [Oids -> 0 .. MaxQty] /\ processed \subseteq Oids
    /\ events \in {"none", "fills", "closed"}
    /\ seenQty \in 0 .. MaxQty /\ seenOrders \subseteq Oids /\ todo \subseteq Oids
    /\ queue \in {"none", "ghost", "overnight", "unread"}
    /\ watch \in {"idle", "orders", "submit"} /\ watchQty \in 0 .. MaxQty
    /\ clock \in 0 .. Tolerance /\ {sent, alarm} \subseteq BOOLEAN
    /\ kept \subseteq Oids /\ early \in Nat

\* A first fill of day 1 with its ladder: a GTC stop and, for the rest, a DAY tranche.
\* It is in memory and not yet in the file.
Init ==
    /\ \E q, held \in Qtys, s, l \in Oids :
         /\ held <= q /\ s # l
         /\ shares = q
         /\ orders = [o \in Oids |-> CASE o = s -> Sell("stop", held)
                                       [] o = l /\ held < q -> Sell("limit", q - held)
                                       [] OTHER -> Blank]
         /\ gtc = {s} /\ resub = s
         /\ monitored = (IF held < q THEN {l} ELSE {})
         /\ pos = [open |-> TRUE, left |-> q, oid |-> s, opened |-> 1]
    /\ day = 1 /\ crashes = 0
    /\ mem = [day |-> 1, entry |-> NoEntry] /\ file \in {Missing, mem} /\ bak = Missing
    /\ booked = [o \in Oids |-> 0] /\ processed = {} /\ events = "none"
    /\ pc = "bought" /\ found = FALSE
    /\ seenQty = 0 /\ seenOrders = {} /\ todo = {} /\ queue = "none"
    /\ watch = "idle" /\ watchQty = 0 /\ clock = 0 /\ sent = FALSE /\ alarm = FALSE
    /\ kept = {} /\ early = 0

----------------------------------------------------------------------------
(* session_state.py *)

\* _save_inner: copy to .bak, then replace.  A failure is logged and nothing else.
Save(state, then) ==
    /\ mem' = state
    /\ bak' = (IF file = Missing THEN bak ELSE file)
    /\ file' \in {state, file}
    /\ pc' = then

\* update_position merges; it creates a record without opened_at when there is none.
Updated(oid) ==
    [mem EXCEPT !.entry = [known |-> TRUE, oid |-> oid, ladder |-> @.ladder, opened |-> @.opened]]

\* load: the .bak stands in for a missing file; what is not of today is no state.
Loaded ==
    LET state == IF file.day = 0 THEN bak ELSE file
    IN  IF state.day = day THEN state ELSE Missing

----------------------------------------------------------------------------
(* The end of the process, the night, the venue. *)

\* Memory is gone; a crash inside save can leave the .bak torn.
Crash ==
    /\ pc # "down" /\ crashes < MaxCrashes
    /\ crashes' = crashes + 1
    /\ pc' = "down"
    /\ bak' \in (IF pc \in {"bought", "saveTrail", "saveFill", "fetched"} THEN {bak, file, Missing} ELSE {bak})
    /\ mem' = Missing /\ found' = FALSE
    /\ pos' = NoPosition /\ resub' = NoOid /\ monitored' = {}
    /\ booked' = [o \in Oids |-> 0] /\ processed' = {} /\ events' = "none"
    /\ seenQty' = 0 /\ seenOrders' = {} /\ todo' = {} /\ queue' = "none"
    /\ watch' = "idle" /\ watchQty' = 0 /\ clock' = 0 /\ sent' = FALSE /\ alarm' = FALSE
    /\ early' = 0
    /\ UNCHANGED <<venue, day, file, kept>>

\* DAY orders expire.
NewDay ==
    /\ pc = "down" /\ day < MaxDay
    /\ day' = day + 1
    /\ orders' = [o \in Oids |-> IF orders[o].status = "open" /\ o \notin gtc
                                 THEN Settled(orders[o]) ELSE orders[o]]
    /\ UNCHANGED <<shares, gtc, crashes, disk, pc, memory, answers, queue, watcher, history>>

\* The launcher removes the file.
LoseFile ==
    /\ pc = "down" /\ file # Missing
    /\ file' = Missing
    /\ UNCHANGED <<venue, day, crashes, bak, pc, memory, answers, queue, watcher, history>>

Execute(o, n) ==
    /\ orders[o].status = "open" /\ n <= Unfilled(orders[o])
    /\ orders' = [orders EXCEPT ![o] = Executed(@, n)]
    /\ shares' = shares - n
    /\ UNCHANGED <<gtc, day, crashes, disk, pc, memory, answers, queue, watcher, history>>

----------------------------------------------------------------------------
(* The startup of main.py. *)

Live == {o \in Oids : orders[o].status = "open"}
Stops == {o \in Oids : orders[o].kind = "stop"}

\* What the orders ids have sold so far.
Sold(ids) == SumFunctionOnSet([o \in Oids |-> orders[o].filled], ids)

Load ==
    /\ pc = "down"
    /\ found' = (Loaded # Missing)
    /\ mem' = (IF Loaded # Missing THEN Loaded ELSE [day |-> day, entry |-> NoEntry])
    /\ kept' = {o \in Live \cap Stops \cap gtc : orders[o].filled = 0}
    /\ pc' = "positions"
    /\ UNCHANGED <<venue, day, crashes, disk, pos, resub, monitored, bridge, answers, queue,
                   watcher, early>>

\* An exception here or in the next read: "starting fresh", with nothing tracked.
ReadPositions ==
    /\ pc = "positions"
    /\ \/ seenQty' = shares /\ pc' = "orders"
       \/ seenQty' = 0 /\ pc' = "orphans"
    /\ UNCHANGED <<venue, day, crashes, disk, memory, seenOrders, todo, queue, watcher, history>>

\* sync_from_state_and_orders: a position the file does not know was opened just now.
SyncFromState ==
    /\ pc = "orders" /\ found
    /\ LET e == mem.entry
           held == seenQty > 0
       IN \/ /\ pos' = (IF held THEN [open |-> TRUE, left |-> seenQty, oid |-> e.oid,
                                      opened |-> IF e.opened = 0 THEN day ELSE e.opened]
                        ELSE NoPosition)
             /\ resub' = (IF held /\ e.oid \in Live THEN e.oid ELSE NoOid)
             /\ monitored' = (IF held THEN e.ladder \cap Live ELSE {})
             /\ early' = (IF held THEN Sold((e.ladder \cap Live) \cup ({e.oid} \cap Oids)) ELSE 0)
          \/ UNCHANGED <<pos, resub, monitored, early>>
    /\ seenQty' = 0 /\ pc' = "orphans"
    /\ UNCHANGED <<venue, day, crashes, disk, mem, found, bridge, seenOrders, todo, queue,
                   watcher, kept>>

\* A stop that covers the whole position, and has not begun to fill.
Matching(q) ==
    {o \in Live \cap Stops : orders[o].filled = 0 /\ orders[o].qty >= q}

\* Faulty variants: the position counts as opened now (Bug AP before its fix); two days back.
BeforeTodayNow == day
BeforeTodayTwo == day - 2
BeforeToday == day - 1

\* sync_from_broker: no file, so the position is from an earlier day; a failed read of
\* the orders only costs the stop's id.
SyncFromBroker ==
    /\ pc = "orders" /\ ~found
    /\ IF seenQty > 0
       THEN \E oid \in Matching(seenQty) \cup {NoOid} :
              pos' = [open |-> TRUE, left |-> seenQty, oid |-> oid, opened |-> BeforeToday]
       ELSE UNCHANGED pos
    /\ seenQty' = 0 /\ pc' = "orphans"
    /\ UNCHANGED <<venue, day, crashes, disk, mem, found, resub, monitored, bridge, seenOrders,
                   todo, queue, watcher, history>>

\* D107: every open order of a symbol that is not tracked; none when the read fails.
Orphans ==
    /\ pc = "orphans"
    /\ todo' = (IF pos.open THEN {} ELSE Live)
    /\ pc' = "orphaned"
    /\ UNCHANGED <<venue, day, crashes, disk, memory, seenQty, seenOrders, queue, watcher, history>>

\* One cancel of the orphan scan or of the clean-up; one that fails is logged.
Cancel(o) ==
    /\ pc \in {"orphaned", "cleaning"} /\ o \in todo
    /\ todo' = todo \ {o}
    /\ orders' \in {orders, [orders EXCEPT ![o] = IF @.status = "open" THEN Settled(@) ELSE @]}
    /\ UNCHANGED <<shares, gtc, day, crashes, disk, pc, memory, seenQty, seenOrders, queue,
                   watcher, history>>

Cancelled ==
    /\ pc \in {"orphaned", "cleaning"} /\ todo = {}
    /\ pc' = (IF pc = "orphaned" THEN "cleanup" ELSE "detect")
    /\ UNCHANGED <<venue, day, crashes, disk, memory, answers, queue, watcher, history>>

\* D86 reads the orders, then the positions.
CleanupOrders ==
    /\ pc = "cleanup"
    /\ seenOrders' = Live
    /\ pc' = "cleanupPositions"
    /\ UNCHANGED <<venue, day, crashes, disk, memory, seenQty, todo, queue, watcher, history>>

\* Faulty variant: a stop over the whole position is oversized.
PreservedSmaller(o, held) ==
    o \in gtc /\ orders[o].kind = "stop" /\ held > 0 /\ orders[o].qty < held

\* _should_preserve
Preserved(o, held) ==
    o \in gtc /\ orders[o].kind = "stop" /\ held > 0 /\ orders[o].qty <= held

CleanupPositions ==
    /\ pc = "cleanupPositions"
    /\ \/ todo' = {o \in seenOrders : ~Preserved(o, shares)} /\ pc' = "cleaning"
       \/ UNCHANGED todo /\ pc' = "detect"
    /\ seenOrders' = {}
    /\ UNCHANGED <<venue, day, crashes, disk, memory, seenQty, queue, watcher, history>>

\* Ghosts and overnight positions; a failed read finds none.
Detect ==
    /\ pc = "detect"
    /\ \/ queue' = (CASE shares = 0 -> "none"
                      [] ~pos.open -> "ghost"
                      [] pos.opened < day -> "overnight"
                      [] OTHER -> "none")
       \/ queue' = "unread"
    /\ pc' = "premarket"
    /\ UNCHANGED <<venue, day, crashes, disk, memory, answers, watcher, history>>

StartupStep ==
    \/ Load \/ ReadPositions \/ SyncFromState \/ SyncFromBroker
    \/ Orphans \/ (\E o \in Oids : Cancel(o)) \/ Cancelled
    \/ CleanupOrders \/ CleanupPositions \/ Detect

----------------------------------------------------------------------------
(* The open. *)

Unchanged == UNCHANGED <<gtc, day, crashes, found, bridge, answers, watcher>>

\* Phase 0 saves what the manager has, with or without the position.
SavePhase0 ==
    /\ pc = "premarket"
    /\ Save(mem, "premarket")
    /\ UNCHANGED <<orders, shares, pos, resub, monitored, queue, history>>
    /\ Unchanged

\* close_position of a ghost, once: refused while an order holds the shares, and not
\* waited for.
CloseGhost ==
    /\ pc = "premarket" /\ queue = "ghost"
    /\ shares' \in (IF Held(orders) = 0 THEN 0 .. shares ELSE {shares})
    /\ queue' = "none" /\ kept' = {} /\ pc' = "run" /\ UNCHANGED early
    /\ UNCHANGED <<orders, disk, mem, pos, resub, monitored>>
    /\ Unchanged

\* _close_overnight_position, once: the sale accepted (CloseProtocol has its steps), the
\* position forgotten and that saved; or failed after its own cancel of the stop, which
\* the close does not put back.
CloseOvernight ==
    /\ pc = "premarket" /\ queue = "overnight"
    /\ queue' = "none" /\ kept' = {} /\ UNCHANGED early
    /\ \/ /\ orders' = [o \in Oids |-> IF o \in Live THEN Settled(orders[o]) ELSE orders[o]]
          /\ shares' \in 0 .. shares /\ pos' = NoPosition
          /\ Save([mem EXCEPT !.entry = NoEntry], "run")
       \/ /\ orders' = [o \in Oids |-> IF o \in Live \cap {pos.oid} THEN Settled(orders[o])
                                                                    ELSE orders[o]]
          /\ pc' = "run"
          /\ UNCHANGED <<shares, pos, disk, mem>>
    /\ UNCHANGED <<resub, monitored>>
    /\ Unchanged

Open ==
    /\ pc = "premarket" /\ queue \in {"none", "unread"}
    /\ queue' = "none" /\ kept' = {} /\ pc' = "run" /\ UNCHANGED early
    /\ UNCHANGED <<orders, shares, disk, mem, pos, resub, monitored>>
    /\ Unchanged

----------------------------------------------------------------------------
(* Trading: each change in memory is followed by its save. *)

\* post_fill_bookkeeping, step 5.
SaveEntry ==
    /\ pc = "bought"
    /\ Save([mem EXCEPT !.entry = [known |-> TRUE, oid |-> resub, ladder |-> monitored,
                                   opened |-> pos.opened]], "run")
    /\ UNCHANGED <<orders, shares, pos, resub, monitored, queue, history>>
    /\ Unchanged

\* A trailing exchange: the cancel, ...
LiftStop ==
    /\ pc = "run" /\ pos.open /\ resub \in Live
    /\ orders' = [orders EXCEPT ![resub] = Settled(@)]
    /\ pc' = "lifted"
    /\ UNCHANGED <<shares, disk, mem, pos, resub, monitored, queue, history>>
    /\ Unchanged

\* ... and the new stop, over what the tracker has left; or a refusal.  The save after
\* it keeps the id only when a tranche the sync credited was the reason.
PlaceStop ==
    /\ pc = "lifted"
    /\ \/ \E o \in Unused(orders) :
            /\ Accepts(orders, shares, pos.left)
            /\ orders' = [orders EXCEPT ![o] = Sell("stop", pos.left)]
            /\ gtc' = gtc \cup {o} /\ resub' = o
       \/ UNCHANGED <<orders, gtc, resub>>
    /\ pc' \in {"saveTrail", "saveFill"}
    /\ UNCHANGED <<shares, day, crashes, disk, mem, found, pos, monitored, bridge, answers, queue,
                   watcher, history>>

\* D63, D165 and D78 persist the level and not the id.
SaveTrail ==
    /\ pc = "saveTrail"
    /\ Save(Updated(mem.entry.oid), "run")
    /\ UNCHANGED <<orders, shares, pos, resub, monitored, queue, history>>
    /\ Unchanged

\* The order stream is started before D86 reads the orders.  Its callbacks run at every
\* await; there is none before the entry is saved, and none between drain and sync.
Streaming ==
    pc \in ({"cleanup", "cleanupPositions", "cleaning", "detect"} \cup Trading) \ {"bought", "sync"}

\* on_fill of the tranche monitor: q shares of tranche o are taken off, and a position
\* with nothing left is forgotten.  (The monitor also closes at the third tranche; this
\* ladder has one.)
CountTranche(o, q) ==
    LET after == IF q <= pos.left THEN pos.left - q ELSE 0
    IN  /\ processed' = processed \cup {o}
        /\ pos' = (IF after = 0 THEN NoPosition ELSE [pos EXCEPT !.left = after])
        /\ monitored' = (IF after = 0 THEN {} ELSE monitored \ {o})
        /\ resub' = (IF after = 0 THEN NoOid ELSE resub)

\* The event the next drain will find.
Queued == events' = IF ~pos'.open \/ events = "closed" THEN "closed" ELSE "fills"

\* The last print of a tranche, with the quantity the order has sold in all.
BookTranche(o) ==
    /\ Streaming /\ pos.open
    /\ o \in monitored \ processed /\ orders[o].status = "filled"
    /\ CountTranche(o, orders[o].qty)
    /\ Queued
    /\ UNCHANGED <<venue, day, crashes, disk, pc, mem, found, booked, answers, queue, watcher,
                   history>>

\* Faulty variant: the books are not consulted, and a print delivered again is booked again.
BookExitAgain(o, cum) ==
    /\ Streaming /\ pos.open
    /\ o \notin monitored \cup processed
    /\ cum <= orders[o].filled
    /\ booked' = [booked EXCEPT ![o] = cum]
    /\ \/ /\ o \in {pos.oid, resub}
          /\ pos' = [pos EXCEPT !.left = IF cum <= @ THEN @ - cum ELSE 0]
       \/ /\ shares = 0 /\ cum = orders[o].filled
          /\ pos' = NoPosition
    /\ Queued
    /\ UNCHANGED <<venue, day, crashes, disk, pc, mem, found, resub, monitored, processed,
                   answers, queue, watcher, history>>

\* The exit-leg handler at a print of any other order, late or delivered again, with the
\* quantity cum sold by then.  What exceeds the quantity booked is taken off when the order
\* is the position's stop; the books are empty after a restart, whatever the order had
\* sold before.  A print after which the account has no share (position_qty) closes the
\* position.  Any other print leaves the tracker alone, and is left out.
BookExit(o, cum) ==
    /\ Streaming /\ pos.open
    /\ o \notin monitored \cup processed
    /\ booked[o] < cum /\ cum <= orders[o].filled
    /\ booked' = [booked EXCEPT ![o] = cum]
    /\ LET inc == cum - booked[o]
       IN \/ /\ o \in {pos.oid, resub}
             /\ pos' = [pos EXCEPT !.left = IF inc <= @ THEN @ - inc ELSE 0]
          \/ /\ shares = 0 /\ cum = orders[o].filled
             /\ pos' = NoPosition
    /\ Queued
    /\ UNCHANGED <<venue, day, crashes, disk, pc, mem, found, resub, monitored, processed,
                   answers, queue, watcher, history>>

OnTradeUpdate == \E o \in Oids : BookTranche(o) \/ \E cum \in Qtys : BookExit(o, cum)

\* The cycle's one read of the positions; when it fails there is nothing to sync from.
\* Without a registered tranche nothing here depends on it.
FetchPositions ==
    /\ pc = "run" /\ monitored # {}
    /\ seenQty' \in {shares, 0}
    /\ pc' = "fetched"
    /\ UNCHANGED <<venue, day, crashes, disk, memory, seenOrders, todo, queue, watcher, history>>

\* The events are drained: for a position that is tracked the id the resubmitter has is
\* saved, one that was closed is removed from the file.  With none of this ticker's
\* tranches registered, it takes another ticker's to get here.
Drain ==
    /\ events' = "none"
    /\ \E then \in {"sync", "run"} :
         /\ IF then = "sync" THEN pc = "fetched"
                             ELSE pc = "run" /\ monitored = {} /\ events # "none"
         /\ CASE events = "closed"            -> Save([mem EXCEPT !.entry = NoEntry], then)
              [] events = "fills" /\ pos.open -> Save(Updated(IF resub # NoOid THEN resub
                                                              ELSE mem.entry.oid), then)
              [] OTHER                        -> pc' = then /\ UNCHANGED <<disk, mem>>
    /\ UNCHANGED <<venue, day, crashes, found, pos, resub, monitored, booked, processed, answers,
                   queue, watcher, history>>

\* Registered orders that fit the gap between tracker and snapshot.
Credited == {o \in monitored \ processed : orders[o].qty <= pos.left - seenQty}

\* The tranche sync credits one of them, executed or not.
Sync ==
    /\ pc = "sync"
    /\ seenQty' = 0
    /\ IF pos.open /\ seenQty > 0 /\ Credited # {}
       THEN (\E o \in Credited : CountTranche(o, orders[o].qty)) /\ pc' = "saveFill"
       ELSE pc' = "run" /\ UNCHANGED <<pos, resub, monitored, processed>>
    /\ UNCHANGED <<venue, day, crashes, disk, mem, found, booked, events, seenOrders, todo, queue,
                   watcher, history>>

\* The id the resubmitter tracks is persisted.
SaveFill ==
    /\ pc = "saveFill"
    /\ Save(Updated(IF resub # NoOid THEN resub ELSE mem.entry.oid), "run")
    /\ UNCHANGED <<orders, shares, pos, resub, monitored, queue, history>>
    /\ Unchanged

\* D98: the position is gone; it leaves tracker, resubmitter, monitor and file.
StopOut ==
    /\ pc = "run" /\ pos.open /\ shares = 0
    /\ pos' = NoPosition /\ resub' = NoOid /\ monitored' = {}
    /\ orders' = [o \in Oids |-> IF o \in Live \cap ({resub} \cup monitored) THEN Settled(orders[o])
                                                                           ELSE orders[o]]
    /\ Save([mem EXCEPT !.entry = NoEntry], "run")
    /\ UNCHANGED <<shares, queue, history>>
    /\ Unchanged

TradingStep ==
    \/ SavePhase0 \/ CloseGhost \/ CloseOvernight \/ Open
    \/ SaveEntry \/ LiftStop \/ PlaceStop \/ SaveTrail
    \/ SaveFill \/ StopOut \/ OnTradeUpdate
    \/ FetchPositions \/ Drain \/ Sync

----------------------------------------------------------------------------
(* hedge_integrity_watcher.py: a task of its own, started after the startup. *)

Watching == pc \in Trading
NotWatcher ==
    <<shares, day, crashes, disk, pc, mem, found, resub, monitored, bridge, answers, queue,
      history>>

\* check_once reads the positions, ...
WatchPositions ==
    /\ Watching /\ watch = "idle"
    /\ watchQty' = shares
    /\ watch' = "orders"
    /\ UNCHANGED <<orders, gtc, pos, clock, sent, alarm, NotWatcher>>

\* _check_stop_correctness: the original quantities of the open stops, one of them GTC
\* and one, inBand, neither too tight nor too wide at the prices of the moment.
Hedged(inBand) ==
    LET stops == Live \cap Stops
    IN  inBand /\ stops \cap gtc # {}
        /\ MapThenSumSet(LAMBDA o : orders[o].qty, stops) >= watchQty

\* Faulty variant: the next unhedged tick starts the clock again.
WatchOrdersForgets(inBand) ==
    /\ Watching /\ watch = "orders"
    /\ IF watchQty = 0 \/ Hedged(inBand)
       THEN /\ clock' = 0 /\ sent' = FALSE /\ alarm' = FALSE
            /\ watch' = "idle" /\ watchQty' = 0
       ELSE /\ clock' = (IF clock = 0 THEN 1 ELSE 0)
            /\ alarm' = (alarm \/ clock > Tolerance)
            /\ \/ watch' = "idle" /\ watchQty' = 0
               \/ clock > Tolerance /\ ~sent /\ watch' = "submit" /\ UNCHANGED watchQty
            /\ UNCHANGED sent
    /\ UNCHANGED <<orders, gtc, pos, NotWatcher>>

\* ... then the orders.  An unhedged position starts the clock; past the tolerance every
\* tick emits the incident, and the first ones submit a stop unless the price is below 1.
WatchOrders(inBand) ==
    /\ Watching /\ watch = "orders"
    /\ IF watchQty = 0 \/ Hedged(inBand)
       THEN /\ clock' = 0 /\ sent' = FALSE /\ alarm' = FALSE
            /\ watch' = "idle" /\ watchQty' = 0
       ELSE /\ clock' = (IF clock < Tolerance THEN clock + 1 ELSE clock)
            /\ alarm' = (alarm \/ clock = Tolerance)
            /\ \/ watch' = "idle" /\ watchQty' = 0
               \/ clock = Tolerance /\ ~sent /\ watch' = "submit" /\ UNCHANGED watchQty
            /\ UNCHANGED sent
    /\ UNCHANGED <<orders, gtc, pos, NotWatcher>>

\* Faulty variant: the emergency stop is over what no order holds.
WatchSubmitRest ==
    /\ Watching /\ watch = "submit"
    /\ \/ \E o \in Unused(orders), q \in Qtys :
            /\ q = shares - Held(orders)
            /\ orders' = [orders EXCEPT ![o] = Sell("stop", q)]
            /\ gtc' = gtc \cup {o}
            /\ sent' = TRUE
            /\ pos' = (IF pos.open THEN [pos EXCEPT !.oid = o] ELSE pos)
       \/ UNCHANGED <<orders, gtc, sent, pos>>
    /\ watch' = "idle" /\ watchQty' = 0
    /\ UNCHANGED <<clock, alarm, NotWatcher>>

\* The emergency stop, over the quantity read before the alert was awaited; the tracker
\* gets its id, the resubmitter does not.
WatchSubmit ==
    /\ Watching /\ watch = "submit"
    /\ \/ \E o \in Unused(orders) :
            /\ Accepts(orders, shares, watchQty)
            /\ orders' = [orders EXCEPT ![o] = Sell("stop", watchQty)]
            /\ gtc' = gtc \cup {o}
            /\ sent' = TRUE
            /\ pos' = (IF pos.open THEN [pos EXCEPT !.oid = o] ELSE pos)
       \/ UNCHANGED <<orders, gtc, sent, pos>>
    /\ watch' = "idle" /\ watchQty' = 0
    /\ UNCHANGED <<clock, alarm, NotWatcher>>

WatcherStep == WatchPositions \/ (\E inBand \in BOOLEAN : WatchOrders(inBand)) \/ WatchSubmit

----------------------------------------------------------------------------
Next ==
    \/ Crash \/ NewDay \/ LoseFile
    \/ \E o \in Oids, n \in Qtys : Execute(o, n)
    \/ StartupStep \/ TradingStep
    \/ WatcherStep

Spec == Init /\ [][Next]_vars

\* The launcher starts the process again, a startup ends, the watcher polls every 20 s.
\* Nothing is assumed of trading or of the venue.
Fairness ==
    /\ WF_vars(StartupStep)
    /\ WF_vars(WatcherStep)

FairSpec == Spec /\ Fairness

----------------------------------------------------------------------------
(* Safety. *)

\* Shares the tranche sync has credited to an order ahead of its execution.
Ahead == SumFunctionOnSet([o \in Oids |-> Unfilled(orders[o])], processed)

\* A tracked quantity below the position would size every later stop too small.  Recovery
\* takes the quantity the venue reports, and after that a tranche is taken off whole and the
\* stop by what exceeds books that a restart emptied: what both had sold before the restart
\* is taken off a second time.  The tracker is short by no more than that, and what the
\* tranche sync credits ahead.
TrackerCoversPosition == pos.open /\ pc # "down" => pos.left + early + Ahead >= shares

\* A GTC stop that recovery finds whole, on a position it recovers, survives orphan scan
\* and clean-up, whatever executes between their reads (startup_order_cleanup.py:36).
StartupKeepsStop ==
    pc = "premarket" /\ pos.open =>
        \A o \in kept : orders[o].filled = 0 => orders[o].status = "open"

\* A position carried over a night is queued for its close at the open; except when a
\* file of the same day was found which does not say when it was opened.
CarriedIsQueued ==
    pc = "premarket" /\ shares > 0 /\ day > 1 /\ queue # "unread"
    /\ (found => mem.entry.opened # 0)
        => queue \in {"ghost", "overnight"}

\* Resubmitter and watcher both place stops, and neither knows of the other's: still
\* never two at once, across restarts.
AtMostOneOpenStop == \A s1, s2 \in OpenStops(orders) : s1 = s2

(* Liveness. *)

Naked == shares > 0 /\ Live \cap Stops = {}

\* A position without any stop gets one, goes, or raises the alarm, whatever crashed and
\* whichever step lost the stop.
NakedIsNoticed == Naked ~> ~Naked \/ alarm
=============================================================================
