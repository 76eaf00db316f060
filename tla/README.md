# Momentum-X: TLA+ models and proofs

Momentum-X is an automated trader on a paper brokerage (Alpaca). It buys stocks that gap up before
the open, protects every position with a stop order at the venue, sells it in parts as the price
rises, and closes what is left. One Python process runs it (`src/main.py`, one asyncio loop).
Around it stands research tooling: backtests, model arenas, a registry of trials.

This directory models the part where a mistake costs money and a unit test hardly reaches: the
**custody of an open position** — how an entry becomes one, which orders protect it, who may replace
them, who books the shares that were sold, and what a restart makes of all this. One offline part
with the same kind of difficulty, the work queue of the backfill agent, is modelled as well.

The code has no locks. Every broker call is an `await`; at each of them the order-update stream,
background tasks and the main loop may run, and the venue executes, settles and refuses on its own.
Those are the interleavings the modules explore.

## The system

| Part | State it keeps | Operations | Talks to | Hard because |
|---|---|---|---|---|
| `stop_resubmitter.py` | `_stops[ticker]`: id, price, quantity | `register_stop`, `resubmit`, `cancel_and_remove`, `remove` | broker | several coroutines call it for one ticker, no lock, naked window between cancel and submit |
| `exit_ladder.py`, `post_fill_handler.py` | result of one run | cancel the entry's stop, two tranche limits, a residual stop; register them | broker, monitor, resubmitter | the venue reserves shares per order; any call can be refused |
| `tranche_monitor.py` | `_order_map`, `_processed_fill_ids`, `_ticker_tranches` | `register_tranche_order`, `on_fill`, `cancel_all_for_ticker` | position manager, resubmitter | fills come twice |
| `fill_stream_bridge.py` | booked executions, event queue | `on_trade_update`, `_handle_oto_stop_fill`, `drain_and_resubmit` | monitor, position manager, journal | prints replayed, reordered, late |
| `main.py`, phase 3 | absence counts, cooldowns | fetch, drain, tranche sync, D98 stop-out scan, D164/D165 takes, smart exits | everything | acts on a snapshot that ages |
| `bridge.py` | scored cache | `attempt_close_with_status_check`, `execute_verdict`, `close_with_attribution` | broker, position manager | retries of a sale whose fate is unknown |
| `position_manager.py` | positions, daily P&L | add, merge, remove, ratchet levels, tranche sizes | – | four writers |
| `session_state.py`, `startup_order_cleanup.py` | a JSON file | save, load, reconcile | disk, broker | crash between a broker call and its save |
| `alpaca_executor.py`, `fast_path.py`, `entry_delay.py` | pending orders | submit and poll entries | broker | partial fill against cancel |
| `monitoring/hedge_integrity_watcher.py`, `eod_failsafes.py`, `recon_daemon.py` | last sightings | arm an emergency stop, flatten, reconcile | broker | a second owner of stops |
| `ops/incident_bus.py`, `durable_alert_spool.py` | spool file | emit, retry | disk, webhook | at-least-once delivery |
| `backfill_agent/` | SQLite queue | claim, complete, fail | disk | workers and stale leases |
| `utils/circuit_breaker.py`, `rate_limiter.py` | counters | call, trip, reset | – | half-open races |
| `research/event_bus.py`, `scripts/trial_registry.py` | append-only logs | append, verify | disk | torn writes |
| agents, arenas, scanners, analysis, simulators, dashboards | scores, statistics | numerical | LLMs, files | no protocol state |

`PROJECT.json` lists the parts with their files and the hazards with their lines.

### What makes each part correct

* **Stop custody**: one open stop per position; whoever is responsible for it knows its id; its
  price never goes down; if it is lost an alarm says so.
* **Ladder**: tranches plus residual stop reserve every share; a position left naked is reported.
* **Booking**: each share counted once in the P&L; the tracker covers the position; nothing is
  forgotten while shares are held; what the venue closed is noticed.
* **Close**: never sell more than asked; book only what was sold; a failed close leaves the
  position protected.
* **Entry**: an order that can still fill has an owner; fills that were seen are not forgotten; the
  tracker ends up with what the account holds.
* **Recovery**: a restart keeps the stop that still protects; what was carried over night is closed
  at the open; nobody protects twice; a naked position is noticed.
* **Queue**: work is repeated only for a crash, attempts are bounded, what is settled stays settled,
  and everything settles.

## Modules

`Broker` holds the venue's rules as operators: an order table, share reservation, execution,
acknowledged cancels that settle later. It is the external side: what the code relies on, cross-read
with the repository's own oracle `tests/property/simple_broker.py`. `StopResubmitter`, `FillBooking`,
`ExitLadder`, `CloseProtocol` and `Recovery` EXTEND it; `EntryExecution` needs no reservation, only a
venue that fills and ends orders, and has its own.

| Module | Models | State ↔ code | Actions ↔ code |
|---|---|---|---|
| `ProtectiveStop` | the promise of the stop resubmitter, abstractly | `phase`, `level` | `Lift`, `Put`, `Lose`, `Finish` |
| `StopResubmitter` | `stop_resubmitter.py` for one ticker | `stops` = `_stops[ticker]`; `task[t]` = a coroutine with its locals | two steps per broker call: the effect at the venue (`ResubmitCancel`, `ResubmitSubmit`, `EmergencySubmit`, `RemoveCancel`) and the continuation (`…Reply`) |
| `FillBooking` | the four writers of one position | `registered`, `processed`, `counted` (monitor); `open`, `left`, `stopOid`, `realized` (position manager); `execs`, `booked`, `journal` (bridge); `pc`, `snapshot`, `absent`, `take` (cycle) | stream callbacks (`TrancheFill`, `TrancheFillTooLate`, `Ignore`, `ExitFill`), cycle (`Fetch` … `StopOutClose`), sales (`TakeSell`, `TakeBook`, `TakeForfeit`), `ExchangeStop` |
| `ExitLadder` | `exit_ladder.py` and its registration | `size`, `old`, `tranches`, `newStop`, `result` | one step per broker call |
| `EntryExecution` | `alpaca_executor.py`, `execute_verdict` and its checks in `bridge.py`, the merge of `position_manager.py` | `pc`, `polls`, `seen` = `execute_verdict` for entry `n`; `pos` = the tracked position; `check[e]` = the D218 task of an entry; history: `shown` = the priced fills a poll has shown, `assumed` = shares tracked as ordered and never filled | `Submit…` (one per kind of answer, `done_for_day` included), `Poll…`, `Drop`, `Cancel…`, `Dead`, `Accept`; `CheckStarts`, `CheckAnswers`, `CheckFails`, `CheckApplies`; `Fill`, `EndOrder`, `Sell`, `BookSale` around them |
| `Recovery` | `session_state.py`, `startup_order_cleanup.py`, the startup of `main.py`, `hedge_integrity_watcher.py`, and the fills of the restarted process | `file`, `bak` = the JSON file and its copy; `mem` = `SessionStateManager._state`; `pc` = where startup or trading is; `queue` = what is to be closed at the open; `booked`, `processed`, `events` = `_order_booked_qty`, `_processed_fill_ids`, the bridge's events, all empty after a restart; `watch`, `clock` = the watcher | each read, save and broker call of startup, trading and watcher; the stream's callback (`BookTranche`, `BookExit`) and the cycle (`FetchPositions`, `Drain`, `Sync`, `SaveFill`); `Crash`, `NewDay`, `LoseFile`, executions at any time |
| `WorkQueue` | `backfill_agent/` | `status`, `attempts`, `old` = the table `work_items` and the age of its claims; `bars`, `rows` = cache and shards; `pc`, `ids`, `task` = a coordinator, its SELECT, its tasks | `Select`, `Update`, `Reread` (claim_next), `Fetch`, `Label`, `WriteResult`, `FailTransient`, `ReleaseStale`, `Loop`, `Start`, `Crash`, `ResetStale` |
| `CloseProtocol` | `attempt_close_with_status_check`, called by D165 or by a full close | `attempt`, `mine`, `view`, `lifted`, `waited` | one step per broker call, decisions on the last view |

`MC…` modules give the constants their values. Definitions called *faulty variant* are not part of
any specification: each is a plausible bug in the definition that follows it, used to see that the
properties can fail.

`ProtectiveStop` is implemented by `StopResubmitter` (`Abstract`, with `phaseBar` and `levelBar`).
`FillBooking` takes the resubmitter's exchange as one step and `CloseProtocol` its outcome: the
steps inside are `StopResubmitter`'s.

## Runs

| Run | Instance | Shows |
|---|---|---|
| `StopResubmitter.cfg` | 2 callers, 2 calls, 4 ids, 2 prices, 2 shares, 2 attempts | `AtMostOneOpenStop`, `OpenStopIsTracked`, `OpenStopIsHighest`, `NakedIsAlarmed`, `TrackedPriceOnlyUp`, refinement of `ProtectiveStop` with its liveness |
| `FillBooking.cfg` | 4 shares over a stop and two tranches, one more order, D165 takes, prints in any order and again, the tranche sync from an aged snapshot | `EachShareRealizedOnce`, `TrackerCoversPosition`, `ClosedIsFlat`, `JournalWithinFills`, `OneOwner` |
| `FillBookingNoticed.cfg` | 3 shares, every disturbance on | `FlatIsNoticed` |
| `ExitLadder.cfg` | up to 7 shares, 4 ids, failing requests, shortable or not | `CleanLadderHoldsAll`, `NakedIsReported`, `AtMostOneOpenStop`, `OpenStopIsTracked` |
| `CloseProtocol.cfg` | up to 3 shares, 3 attempts, 6 ids, failing requests, answers without an id, both modes, both callers | `NeverSellsTwice`, `BookedWasSold`, `FailedCloseIsProtected` |
| `EntryExecution.cfg` | 2 entries of 2 shares, 2 polls, 2 checks each | `LiveIsOwned`, `KnownFillsAreTracked`, `NoPhantom`, `LastCheckReconciles` |
| `Recovery.cfg` | 2 days, 2 ends of the process, 3 shares, stop over one and tranche over two, watcher | `TrackerCoversPosition`, `StartupKeepsStop`, `CarriedIsQueued`, `AtMostOneOpenStop`, `NakedIsNoticed` |
| `WorkQueue.cfg` | two items and one coordinator, or one item and two; 2 workers, 2 attempts, 2 interruptions | `CompletedHasBars`, `RowsWithinCrashes`, `AttemptsWithinLimit`, `SettledStays`, `EveryItemSettles` |
| `StopResubmitterOrphan.cfg` | as above, violated | finding 1 |
| `FillBookingBreaker.cfg` | 3 shares, prints once and in order, violated | finding 2 |
| `ExitLadderCancel.cfg` | 4 shares, violated | finding 3 |
| `CloseProtocolTake.cfg` | no fault at all, violated | finding 4 |

**Why the bounds suffice.** Two callers are the least that interleave, and the theorems below hold
for any number; two calls let one exchange follow or overlap another. Two shares allow a partial
execution. In `Recovery` the tranche has two, so that a restart can find it half sold. Two prices tell a raise from a cut. Four shares give a
partly filled tranche and stop; seven shares give a ladder with a remainder that is no third. Three
attempts are the code's `max_retries`, and six ids serve every order a call can place (a seventh
leaves the number of states the same). Two entries are the least that merge and whose checks overlap;
of the code's six polls and three checks two of each are kept, so that a later one can contradict the
first. One night and two ends of the process let a restart meet the file of a crash, of the day
before, and of itself; after the last end the process starts up and is watched, and neither books a
fill nor trades (`McNext`). The code gives an item three attempts; with two, one fails and one is the last. Order ids are interchangeable: `ExitLadder` and `CloseProtocol`
use SYMMETRY (safety only); the other two name the first ids instead (`McInit`), which is sound for
liveness too.

**Fairness.** `StopResubmitter`: weak fairness of each coroutine's steps — every request ends,
because httpx times out and the `except` branch runs, and the loop resumes ready coroutines.
`FillBooking`: weak fairness of the cycle and of the end of a take. Nothing is assumed of the
stream. `FlatIsNoticed` has the premise that position reads eventually stop failing: the code waits
for two good reads in a row.

`Recovery`: weak fairness of the startup, which the launcher repeats until it is through, and of
the watcher, whose reads are answered in the end; nothing of trading or of the venue.
`WorkQueue`: weak fairness of coordinator, workers and restarts; a pause and a spent budget are
assumed to end.

`CHECK_DEADLOCK FALSE` stands where a routine ends or the bound on calls is used up.

## Findings

1. **Orphaned stop** (`CancelAndRemoveLeavesNoStop`). `cancel_and_remove` reads the tracked id,
   awaits its cancel, and pops whatever is tracked by then. If a `resubmit` exchanged the stop
   during the await, the new stop stays at the venue, untracked.
2. **P&L the circuit breaker never sees** (`ClosedIsRealized`). A stop-out that arrives on the
   stream is journalled and its position removed; `record_realized_pnl` is not called, and the D98
   scan no longer finds the position.
3. **A failed cancel does not stop the ladder** (`NoLadderOverLiveStop`). The routine waits for an
   exception; `cancel_order` answers `None`.
4. **Naked after a take** (`TakeLeavesProtection`). D165 lifts the stop with `cancel_order`, then
   asks the resubmitter for a new one. The resubmitter still tracks the lifted stop, cancels it
   again, gets `None`, and gives up. This happens without any fault; only the hedge watcher is left.

## What the passing runs assume

Each assumption is a constant or a premise of the property; without it the property named fails.

| Constant | Assumes | Otherwise |
|---|---|---|
| `StopResubmitter!AckLoss = FALSE` | the answer to a cancel or submit is not lost after its effect, and the answer to a submit carries the order's id | `NakedIsAlarmed`, `OpenStopIsTracked` fail: the repeated submit is refused, the first stop unknown |
| `StopResubmitter!CancelAcks = {"open"}` | the venue refuses to cancel an order that is not open | the acknowledged cancel no longer acts as a lock. The repository's oracle accepts a repeated cancel; Alpaca does not |
| `FillBooking!BrokerQty = TRUE` | a print carries the broker's `position_qty` | `ClosedIsFlat` fails: the fallback compares with the tracker, which lags |
| `FillBooking!Late = FALSE` | no print precedes the ladder's registration | `OneOwner` fails |
| `Recovery!BookExit` closes a position only when the account is empty | a print carries the broker's `position_qty`, as in `FillBooking` | a lagging tracker is taken for an empty account |
| `FillBooking!Shortable`, `Recovery!Shortable = FALSE` | the symbol cannot be sold short | the stop of a position that is already gone is accepted and executes into a short position |
| `FillBooking!Ladder` has two tranches | `exit_ladder.py` places no more | the monitor closes a position at the third tranche it counts, sold or not |
| `FillBooking!Takers = {"D165"}` | the market sale is not D164's | `JournalWithinFills` fails: D164 journals its sale, the stream journals it again |
| `CloseProtocol!Faults` without `"lost"` | a close that raises had no effect | `NeverSellsTwice` fails: the exception path sells again |
| `EntryExecution`: `crossed`, `fresh` in the properties | no check runs into an entry or an exit (`assumed` is no assumption: it counts what the code tracks unfilled, see below); the last check finds a venue at rest | `NoPhantom`, `LastCheckReconciles` fail until a later check corrects the tracker |
| `WorkQueue`: `~shared` in three properties | one coordinator at a time | two coordinators are handed the same item, and the second start's `reset_in_progress` gives away what the first is working on |
| `WorkQueue!DryRun = FALSE` | no dry run | `CompletedHasBars` fails: a dry run completes items without bars |
| `Recovery!CarriedIsQueued`, its premise | the file of the same day says when the position was opened, and the read that decides is answered | the carried position is not closed at the open |
| `Recovery!StartupKeepsStop`, `pos.open` | startup has read the position | the process starts fresh and the orphan scan cancels the stop |

### What is not guaranteed

Seen while modelling, each a behaviour of the models, so that the properties are stated around it:

* **Stops.** An order whose cancel is acknowledged can still execute before the cancel settles, so a
  stop placed after it can outlive the position it protects.
* **Ladder.** On a symbol that can be sold short, a position that is sold out while its ladder is built
  does not stop the ladder: tranches and residual stop are plain sells (`position_intent` is commented
  out, `alpaca_client.py:985-991`), accepted without a share, and would open a short position. The
  routine reports a clean ladder; `CleanLadderHoldsAll` therefore speaks of accounts that hold shares.
* **Booking.** The tranche sync (`main.py:5281-5353`) credits whichever registered order fits the gap
  between the tracker and a snapshot that can be older than the prints it stands in for, executed or
  not. When the shares went another way — a print of the stop or of the other tranche that is late —
  that print is counted as well: a share is realized twice, the tracker falls short, and a position can
  be closed with shares held. `EachShareRealizedOnce`, `TrackerCoversPosition` and `ClosedIsFlat` bound
  all three by `Ahead`, what the credited orders have not executed: zero when the credited order is the
  one that sold, and again once it has; when it is withdrawn instead, the loss stays.
* **Entries.** A cancelled, expired or rejected entry is no position, even with fills (`bridge.py:1591`;
  the comment before it wants to prevent ghost positions). An order that is `done_for_day` counts as a
  success (`bridge.py:70`): it skips the poll (1558) and the check for fills (1610), and with nothing
  filled it is tracked with the quantity ordered (1651). `NoPhantom` counts such shares in `assumed`; a
  D218 check corrects them later, unless the broker lists no position at all. A lost answer to a
  submission leaves an order that can fill untracked. So does a failed cancel, which the client answers
  with `None` (`alpaca_client.py:899-921`) and the bridge logs as a success, and a fill that overtakes
  an accepted cancel; only the D218 check of a later entry of that symbol picks such shares up. Fills
  that were shown in the answer to the submission only (`alpaca_executor.py:677-707`) are not kept when
  the polls fail: `KnownFillsAreTracked` is about polls, and about fills shown with their price, since
  the bridge drops an entry without one (`bridge.py:1615`).
* **Quantity checks.** D218 compares `qty`, not `remaining_qty`: after a partial exit a drift can stay
  unseen. A check between a sale and its booking counts the sale twice; one that counts the fills of a
  re-buy before they are merged counts them twice until the next check. A symbol the broker no longer
  lists is never corrected. The check writes to the object it was given, tracked or not.
* **Restarts.** On a second start in a day a carried position is not queued for its close when today's
  file was saved without `opened_at`. A stop exchanged by D63, D78 or D165 is saved without its id and
  unknown to the resubmitter after a crash. When the position read at startup fails, the process
  starts fresh, and D107 cancels every order of the held symbols, the GTC stop included. D86 cancels
  the DAY tranches that were just restored, and a stop that is larger than what is left. The cooldown
  is lost in a crash between `main.py:5735` and its save. What the orders had
  sold before the restart can be taken off the tracker a second time, since recovery takes the quantity
  the venue has left by then (`position_manager.py:630`). A tranche is taken off whole when it
  completes: `on_fill` counts the cumulative quantity (`tranche_monitor.py:194`). A preserved stop is
  taken off by its cumulative quantity at its next print, because the books that would tell what of it
  is old (`_order_booked_qty`, `fill_stream_bridge.py:347-352`, `485-492`) start empty. The tracker is
  then short, and later stops are sized by it. `TrackerCoversPosition` of `Recovery` allows for what the
  file's live tranches and its stop had sold at the recovery (`early`) and for what the tranche sync has
  credited ahead since (`Ahead`); `TrackerIsShortByEarlySales` proves that, in the model's terms, there
  is nothing more.
* **Watcher.** A position whose shares are partly reserved by a tranche counts as unhedged, and its
  emergency stop, of the full quantity, is refused. An overnight close that fails after its first
  step leaves the position naked until the watcher sees it; one refused because the emergency stop
  reserves the shares is not tried again.
* **Backfill.** With two coordinators on one database, two workers get the same item: the UPDATE
  changes nothing for the second, but its SELECT returns the rows the first one claimed
  (`state.py:149-154` says never). An item whose work ends the process is claimed without limit.

## Proofs

`StopResubmitterProofs` proves, for any set of tasks and of prices, any finite set of order ids and any
bounds:

* `TypeCorrect` — the type invariant, unconditionally;
* `LockCorrect`, `OneStop`, `NoUnknownStop`, `VenueRatchet`, `NeverSilentlyNaked`,
  `TrackerRatchet` — under `ReliableVenue`: no answer is lost, and only an open order's cancel is
  acknowledged.

The argument: an acknowledged cancel of the one open stop is a **token**. A coroutine holds it from
the acknowledgement until it records the new stop or gives up. While somebody holds it no stop is
open, except the one the holder has been answered about, and the tracked record is the one the
holder read; so nobody else's cancel is acknowledged, and no second token appears. None of the
invariants is inductive by itself: they are proved from the conjunction of lock, tracking, ratchet
and alarm facts, one lemma per action, joined by one temporal step. `TrackerRatchet` is an action
property that follows from the same invariant: a writer of `_stops` holds the token, so the price it
compared with before its awaits is still the tracked one.

* `Refinement` — under `ReliableVenue` too: the specification implements `Abstract!StopSafety`, the
  safety part of `ProtectiveStop`. `Shown` maps each step: the cancel that takes the token is `Lift`,
  the submission the token's holder gets accepted is `Put` at the old level or above, giving up is
  `Lose`, an execution of the open stop is `Finish`, and everything else stutters.

`WorkQueueProofs`, for any sets of items and coordinators and any bounds:

* `TypeCorrect`, and `CompletedIsBacked` from `BarsFirst`: a task that will report success has its
  bars on disk, and bars never leave it. Both hold with any number of coordinators.
* `SettledForGood`, `RowsAreBounded`, `AttemptsAreBounded`, for one coordinator at a time. They rest on
  `Alone` (only one coordinator is up, a task belongs to it, and its item is claimed) and count what
  an interruption can cost: `RowsOnce` says that the rows of an item are one more than the crashes
  only while a task or a completion accounts for the last one; `AttemptLeft` says that a pending item
  has an attempt left, unless a crash or a reset gave it back.

`EntryExecutionProofs`, for any quantity, any number of polls, checks and entries:

* `TypeCorrect`.
* `EntriesAreOwned`: the order of entry `n` belongs to the call until its verdict, and an order seen
  to have ended has ended.
* `FillsAreRemembered`: a verdict is passed once, after the polls; while the entry looks useless no
  poll has shown a fill of it. A failing poll keeps what was seen.
* `NothingInvented`: while nothing has crossed, a running check sees no sale and no entry (`Quiet`),
  so tracker plus the fills of the entry under way never exceed the account and what was assumed of
  entries that were done for the day (`Bounded`).
* `LastCheckCorrects`: a task watches the object the tracker keeps (`Watching`), and between the
  question of the last check and its answer nothing it compares can change (`Settling`).

`CloseProtocolProofs`, for any orders, quantities, number of attempts and faults, `"lost"` included:

* `TypeCorrect`: an attempt is counted before its answer is looked at, and only a counted one is
  given back by the wait for free shares (`Counted`).
* `FailedCloseProtects`: until the sell orders are lifted every stop stands, since the call withdraws
  only its own market order (`Untouched`, `OwnSale`); afterwards the loop that puts them back still
  has all of them to do, or it has put one back, or it has missed one (`Rearming`), which is what the
  incident reports.
* `BookedIsSold`: neither the last view of the current order nor what is booked of it is ever ahead of
  what it executed (`BookedInv`), and its executions are part of the sum.
* `SellsOnce`, when `"lost" \notin Faults`: whenever a partial close tries again, every market order it
  made before has sold nothing and cannot any more; and while an order is pending, so are all the
  others (`SaleInv`). A view that says "canceled" is therefore final, partial fills included.

`ExitLadderProofs`, for any orders and quantities, whether requests can fail or not:

* `TypeCorrect`, from the arithmetic of the thirds (`LadderQuantities`).
* `NakedReported` and `OpenStopTracked`, from `StopInv`: the only stops the venue ever had are the
  entry's and the one the routine submitted, and a stop nobody cancels stands.
* `CleanHoldsAll` and `OneStop`, from `HoldInv`: as long as no tranche was refused, what is held lacks
  only the tranches still to come and the old stop's part (`HeldInv`); and an old stop that still works
  holds every share, so that the residual stop is refused (`StopExclusive`). They hold for symbols that
  can be sold short, too.

`FillBookingProofs`, for any ladder and quantities and any prints, delivered again and in any order:

* `OrdersHaveOneOwner`, when `Late = FALSE`: an order with something booked by the exit-leg handler is
  none of the monitor's, and never becomes one (`Apart`).
* `JournalIsBounded`, when `"D164" \notin Takers`: the journal is what is booked, and what is booked of
  an order is the cumulative quantity of a print, which the order has reached (`JournalInv`).
* `SharesAreRealizedOnce` and `TrackerCovers`, when nothing can be sold short, the tranche sync
  included. The ledger balances (`LedgerInv`): the shares are what the entry bought less what the orders
  executed, and each order has one role. What the P&L counts is at most what the orders that report to
  it executed, and for an order the sync has credited what it is to execute (`Reach`); what the tracker
  has left is at least what all orders leave over by the same count (`BookInv`). A share is therefore
  counted ahead of its sale, by `Ahead` at most, but a credited order is never counted again: it is
  processed, and a processed order is registered no more (`Uncounted`).
* `NothingIsForgotten`, when also prints carry `position_qty` and the ladder has at most two tranches:
  the monitor never counts the third tranche at which it closes a position (`CountedInv`), an empty
  tracker covers an empty account (`BookInv`), and a print or a sighting that says the position is
  gone is right and stays so, since nothing buys (`LedgerInv`).
* `LedgerTypes`, from all of these, when nothing can be sold short: only the ledger bounds the counters
  from above (`RestInv`), and what is credited ahead is bounded by the ladder's size (`LadderInv`).

`RecoveryProofs`, for any number of days, crashes, orders and shares:

* `CarriedGoesIntoTheQueue`: no state that is saved, torn, restored or lost claims a later day of
  opening than the position's (`AgeInv`), so on a later day the search finds it old.

and, when nothing can be sold short:

* `TypeCorrect`, together with `HoldInv`: open orders hold no more than the account has. `Effects`
  reduces every step to one of three things it can do to the venue — withdraw orders, execute one,
  submit a stop — so that each fact about held shares is proved three times and not thirty.
* `TrackerIsShortByEarlySales`: every order owes the tracker what it sold and the tracker has still to
  count — a registered tranche all it sold, the position's stop what it sold beyond the books, a counted
  tranche nothing (`Dues`) — and a tranche the sync counted is ahead by what it has not sold (`Extras`).
  The account and all that is due are covered by what the tracker has left, what was sold early and what
  is ahead (`TrackInv`). An execution moves shares from the account to the dues or takes them off the
  extras, a print moves them from the dues to the books, and a recovery, with empty books, starts with
  dues of at most `early`.
* `OneStopAcrossRestarts`: every id that memory, file and backup keep as the stop's is a stop's; the
  watcher asks for no less than the account, which is accepted only where nothing is held; and while
  the trailing exchange has lifted its stop, there is none, or the watcher's holds everything and the
  exchange is refused (`StopInv`).
* `StopSurvivesStartup`: while a position is recovered, the stops found are GTC stops on no list of
  orders to cancel (`KeptInv`). The clean-up sees an account with at least their shares because an open
  order's shares are held, and held shares are there.

`BrokerProofs` says what the venue's operators make of an order and of the shares held for orders; the
others cite it. The sums over orders (`Held`, what was sold, booked or realized) are folds, for which the
library has no theorems these provers can use. The module proves what is needed from the definition:
that the function a fold recurses by exists and is unique, that an element can be taken out of a sum,
and that sums are monotone. Where this needs induction over the set of orders, it takes a smallest
subset for which the claim fails and finds a smaller one. All invariants
named are proved inductive together with the types they need. The assumptions are those on the
constants: the bounds are natural numbers, an order can carry some price, the ids the venue
hands out are finitely many, so are the items of the queue, the empty order id is no order, only orders the venue handed out can be
cancelled.

Every invariant and every action property a passing run checks is proved. What stays with TLC is
liveness (`FlatIsNoticed`, `NakedIsNoticed`, `EveryItemSettles`, and the part of `ImplementsProtectiveStop`
that says an exchange ends), because it rests on fairness and so on ENABLED. The hypotheses of the theorems
are the assumptions of the runs (the table above); none is stronger.

## Abstractions

* One ticker, one long position, one lifetime of it. Prices matter only where their order does.
* `FillBooking`: cancels settle at once (their races are in the other modules); the position is past
  its three-minute grace period; queue (1000) and order-state (4096) caps are not reached; the
  resubmit list `drain_and_resubmit` builds is always empty, because a final fill leaves no quantity
  to protect (`fill_stream_bridge.py:209-212`). P&L is counted in shares. D164's sale runs in the
  cycle; its background task is left out.
* `ExitLadder`: a first fill; the ladder of a re-buy is left out.
* `EntryExecution`: one symbol, long; sales of single shares stand for the exits; sizing and guards
  are left out, so is the stop of the wide arm; delays are the order of steps. A check whose task
  watches an object the tracker has dropped writes to nobody's quantity.
* `Recovery`: one position with one stop and one tranche; a cancel settles at once (its races are
  `StopResubmitter`'s); prices, bands and the sub-dollar rule are choices; time is polls of the
  watcher; the counters of the day are left out.
* `WorkQueue`: bars and labels are members of sets; rate, budget and pause are waits; priority is a
  choice of which batch comes first, so any order of the rows is covered; the filters of the enqueue
  (missing bars, the cap of a day) decide which candidates become items, and items is what `Items` is.
* `CloseProtocol`: the wait for free shares ends at any time; the dance of lifting orders happens
  once per call, so the settle budget is never used up; the resubmit after a take is one step.

## Not modelled

* The composition of ladder, monitor and resubmitter over a re-buy, and the early-profit background
  task: the merge keeps the monitor's tranche count (`position_manager.py:764-836`), and each part is
  modelled for one lifetime of a position.
* Incident bus, alert spool, circuit breaker, rate limiter, research logs: an incident is a flag and a
  refused request a failing request in the modules; the rest is I/O or a small sequential counter.
* Sizing, signals of exits, regimes, scanners, agents, arenas, statistics, simulators, dashboards,
  calendar and probes: functions of prices and texts, or I/O, with no protocol state. They are most
  of the repository's lines.

What a next step would add: the ladder of a re-buy next to the merge of `EntryExecution`, and the
early-profit background task beside the cycle.
