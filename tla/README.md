# TLA+ models of the CK_Quant_Hedge trading core

CK_Quant_Hedge is a trading bot derived from freqtrade. It trades futures, may hold a
long and a short trade on one pair (`hedge_mode`), and places synthetic iceberg orders.
The models cover the live bot, `src/freqtrade/freqtradebot.py` and what it calls: the part
that places, cancels and books real orders while requests arrive on other threads, the
exchange fills orders at any moment, and the process may die. They also cover the
backtesting loop, which repeats the same decisions over historical candles.

## 1. Inventory

| component | state it keeps | operations | module |
|---|---|---|---|
| `worker.py` | last state seen | `_worker`, `_process_running`, `_reconfigure`, `exit` | Lifecycle |
| `freqtradebot.py`, entry side | `state`, `_exit_lock`, whitelist | `process`, `enter_positions`, `create_trade`, `execute_entry` | EntryGate |
| `freqtradebot.py`, order side | trades and orders tables | `manage_open_orders`, `handle_cancel_*`, `replace_order`, `execute_trade_exit`, `update_trade_state` | TradeOrders |
| stop-loss on exchange | stop order rows | `handle_stoploss_on_exchange`, trailing, `create_stoploss_order`, `cancel_stoploss_on_exchange` | StopLoss |
| order recovery | owner of each row | `handle_onexchange_order`, `startup_update_open_orders`, `update_trades_without_assigned_fees` | Recovery |
| iceberg orders | plans in custom data | `_iceberg_entry_slice`, `_iceberg_exit_slice`, `process_iceberg_orders` | Iceberg |
| `persistence/trade_model.py` | trades and orders | `update_trade`, `recalc_trade_from_orders`, `adjust_stop_loss`, `delete` | in all of the above |
| pair locks, protections | locks table | `lock_pair`, `unlock_*`, `is_pair_locked`, `stop_per_pair`, `global_stop` | PairLocks |
| `rpc/rpc.py` | none | force entry, force exit, cancel, delete, reload trade, start, pause, stop, reload, locks | with the component they act on |
| strategy interface | | `should_exit`, `ft_stoploss_adjust`, ROI, `lock_pair` | Exits, PairLocks |
| `optimize/backtesting.py` | open trades, slot count, detail rows | `time_pair_generator`, `backtest_loop`, `_enter_trade`, `_get_close_rate` | Backtest, Exits |
| exchange, wallets, data, pair lists | caches, balances | create, fetch, cancel | choices of the models |
| hyperopt, FreqAI, configuration, web, desktop, Android | | | not modelled |

What is hard here:

* **Two kinds of thread, one mutex.** The worker takes `_exit_lock` around each section of
  `process()` and around each `create_trade`, but reads the state, the free slots and the
  candidate list outside it. A force entry looks the leg up and counts outside it too.
  `/reload_trade` never takes it. `/start`, `/stop`, `/pause` and `/reload_config` write
  the state of a bot that may be busy, or about to be thrown away.
* **The exchange does not wait.** Between `fetch_order` and `cancel_order` an order may
  fill, partly or fully, or be cancelled. The cancel may be refused, or its answer lost.
  A stop-loss order may fire at any time.
* **A handler cancels, then places.** If the first half fails, or turns out to have closed
  the trade, the second half must notice.
* **Several commits make one step.** Rows, bookings and iceberg plans are committed one
  after the other, and new stop rows later than all of them.
* **Rows are the memory.** After a restart only the orders whose row is open are looked at.
* **Amounts are recomputed** from all orders again and again, in recovery out of context.
* **A candle has no order.** The backtest must not use what it cannot know, in a loop that
  changes the lists it walks.

What makes each component correct: the number of open trades and of trades per leg stays
bounded; no iteration or request blocks for ever; a trade has one live order; no live order
is forgotten; a trade that is gone holds nothing; the booked amount is the position held;
an order that ended is settled; a position is protected by one stop; an order is booked in
the trade it was placed for; a sliced order buys and sells no more than was asked; a locked
leg is not entered; a stopped or paused bot begins no new walk of entries; a backtest obeys
the same limits and prices its exits inside the row.

`PROJECT.json` lists the hazards with their lines and the properties that cover them.

## 2. Modules

Each module stands alone: what the others do to its state is one of its actions. TradeOrders
has the detail of how one trade's orders fill, time out and are replaced; EntryGate,
StopLoss, Recovery and Iceberg take that detail as one step or one choice and add their own
subject. `MC<Module>` gives TLC its constants, `<Module>Proofs` holds the theorems;
`LoopProofs` holds those of Lifecycle and Backtest, the two loops that drive trades, and
Lifecycle's `WorkerInit`, `WorkerNext`, `WorkerSpec` and `WorkerTypeOK` have that prefix so
that one module can extend both.

### EntryGate: who may put an open trade into the book

One worker, any number of request threads (`Rpc`), the mutex, the trades table.

| TLA+ | code |
|---|---|
| `state`, `lock`, `trades`, `whitelist` | `FreqtradeBot.state`, `_exit_lock`, the trades table, `pairlists.whitelist` |
| `worker.pc`, `.todo`, `.slots`, `.cands`, `.pair`, `.sigs` | position in `process()` and the local variables of its loops |
| `rpc[r]` | a request between its look-up and the mutex, or in its loop |
| `StartIteration` ... `EndEntries` | `process()`: pair list, the four locked sections, slot check, filter, entry loop |
| `IterationFails`, `Restart` | an exception out of `process()`; the process killed and started |
| `ForceEntryCheck`, `ForceEntryExecute` | `_rpc_force_entry` outside and inside the mutex |
| `ForceExitAll/Next/Done`, `ExitOrCancelOne`, `DeleteTrade`, `ReloadTrade`, `SetState` | the other requests |

A section or request that works on a trade is kept to its effect on the book: the trade
stays, is closed, or its row is deleted (`Outcomes`). The worker's loops list the open trades
once and do not ask again: a trade that `/reload_trade`, which takes no mutex, has closed in
between may be opened again by `execute_entry` (`VisitOutcomes`; `exit_positions` never
enters). `reopened` is history: the trades that came back this way. A request that waits for
the mutex is atomic with taking it, except where it did something before.

A force entry for an existing trade (`AdjustOutcomes`) sets `is_open` on the copy its
thread loaded: a closed row may or may not open again, a deleted one does not.

### TradeOrders: one trade, its order rows, its orders on the exchange

| TLA+ | code |
|---|---|
| `exch` | the orders as the exchange has them (external) |
| `rows` | the orders table; `"none"` is no row; `"canceled"` stands for cancelled, expired and rejected |
| `trade.status`, `trade.amount` | `is_open` and the existence of the row, `amount` |
| `task` | the handler in progress: what it does next, the orders its loop has left, why it cancels, the amount it fixed earlier |

A step is one exchange call with all the handler does with the answer until its next
call, so that the exchange (`Fill`, `CancelledOnExchange`), a restart or a failing request
can come in between. Three paths share the cancel step: `manage_open_orders` (`timeout`,
`drop`, `replace`), a handler that clears the orders before it places one (`exit`, `trim`,
`add`, `reenter`, `reexit`), and the requests (`force`, `user`).

`Settled`, `Book` and `Recalc` are `update_trade_state`, `update_trade` and
`recalc_trade_from_orders` reduced to amounts. `Walked` feeds every order to them again,
as `handle_onexchange_order` does. `Restart` drops the handler; the rows and the trade are
as last committed.

Abstractions: amounts are whole units of the precision; the futures branch is modelled (no
clamp to the wallet, no fee in base currency); `fee_open_currency is not None` is read as
"an entry has filled"; stop-loss on exchange and iceberg slices are off; recovery compares
with the position itself, not with a wallet snapshot; a replacement that finds a
similar order and keeps it is the same as not starting. The exchange refuses an exit when
there is no position (`reduceOnly`), and its answers about an order are true.

### StopLoss: the stop that a trade keeps on the exchange

| TLA+ | code |
|---|---|
| `exch` | orders and stops on the exchange, reduce-only (external) |
| `rows`, `trade`, `saved` | the session's rows and trade, and the database as of the last commit |
| `task` | the handler in progress and its local variables |
| `Visit`, `ReadStop`, `CheckFails`, `Protect` | `exit_positions`, `handle_stoploss_on_exchange` |
| `CreateStop`, `CreateRefused` | `create_stoploss_order` with its exceptions |
| `CancelStop`, `StopGone` | `cancel_stoploss_on_exchange` |
| `StartExit` ... `Refind` | `execute_trade_exit`, `handle_insufficient_funds` |
| `Restart`, `Startup` | a crash, `startup_update_open_orders` |
| `EndVisit` | the commit at the end of the section, or the rollback another trade causes |

`blocks` is the exchange option `stoploss_blocks_assets`; both values are checked. The trade
is a long with its entry filled. `trade.left` is history: the entries open when it closed.

### Recovery: which trade an order belongs to

| TLA+ | code |
|---|---|
| `exch[o].for` | history: the trade whose handler placed the order |
| `rows[o].owner` | `Order.ft_trade_id`; `Nobody` is no row |
| `trades`, `fee` | trades table; `fee_open_currency` known |
| `Update` | `update_trade_state`: commit of the row, then of the booking, or death in between |
| `Walk`, `WalkDies` | `handle_onexchange_order`, which commits every row and every booking, and a death after any of them |
| `FindFee`, `Recover`, `Startup` | the three ways the bot notices what it missed |
| `Delete`, `Reload` | `_rpc_delete`, `_rpc_reload_trade_from_exchange` |

`lost` counts answers, cancels and deaths. Fills are whole, entries are one unit.

### Iceberg and Position: slices of a large order

`plan` is the custom data of the trade, `wait` the replenishment interval, `asked` history.
`Slices` is `slice_stake` with its jitter, `Sent` the rounding of the exchange, `Stake`
`validate_stake_amount`. `Enter`, `Adjust`, `Sell`, `Trim`, `Reprice` are the callers of
`execute_entry` and `execute_trade_exit`; `NextEntry`, `NextExit`, `EntryDone` are
`process_iceberg_orders`. How an order ends is one step (`Finish`), or a choice of the
handler that cancels it (`f`). Prices are left out: the rest of an order and its slice are
computed at one price, so `custom_entry_price` must not change it in between.

`Position` is the abstract specification: amounts asked for, bought and sold, with bought
at most asked and sold at most bought. `Promise` in Iceberg is `Position!Spec` under the
mapping `bought <- pos.bought`, `sold <- pos.sold`.

### PairLocks: locks and protections

`locks` is the table (or the list of a backtest: `Queried` and `Listed` are the two
filters), `closed` the closed trades the protections look at, `candle` the last analysed
candle. `Close` is the commit of a closed trade; `by` says who handles it: the worker or a
request, when `order_close_notify` sees an exit order or `handle_stoploss_on_exchange` the
stop, and nobody for a stop whose fill is first seen elsewhere. `Protect` is the automatic
lock, `task.k` the protection that is asked next (`Ask`), first for the pair, then for all
pairs. `EndTask` ends it, with the last protection or before: a crash or an exception cuts
it short and nobody takes it up again. `ReloadClosed` is `/reload_trade` for a trade that is
closed already, whose exit order is notified once more. `closed[c].asked` is history: the
protections were called for the leg since. A close and its handling are apart, and a request
that handles one does so beside the worker. One handling is modelled at a time, and not the
call for a stop that ended while its trade stays open (`freqtradebot.py:1997`), which only
adds a lock. `Enter` is the lock check of
`enter_positions` and `create_trade`, `ForceEnter` passes it by. `UserStep` is `lock_pair`,
`unlock_pair`, `unlock_reason` and the requests. Profits are +1 or -1, ratios absolute.

### Lifecycle: the worker and the requests that steer it

`pc` is where the worker is: building a bot (`Listen`, `Ready`), reading the state
(`Read`), `process()` cut where it reads the state again, `process_stopped`, sleeping,
`_reconfigure` (`Clean`, `Detach`). `Adjust` looks at the state for one trade and `AddTo`
places the additional entry later; `Gate` looks once for the whole walk over the pairs
(`EnterOne`, `EnterNoMore`), and requests come in between. `ahead` is what the walk has left.
`/pause` is four steps, since `_rpc_pause` reads and writes twice. `asked` is history: the
mode the bot was last told to be in; `told` is what `asked` was at the look of the walk under
way. `orders` are the open orders by how far they have filled (`Fills`): `handle_cancel_enter`
and `handle_cancel_exit` refuse those that are `stuck` (`Refused`), and the exchange fills
them further or not. `Die` and `Restart` are the end of the process and the container's restart
policy.

### Backtest: the loop over candles, rows and pairs

The generator (`time_pair_generator`) is `NewRow`, `NewCandle`, `First`, `Later`, `NoRow`;
`at.pc` walks through the numbered steps of `backtest_loop`; `CloseLeft` is
`handle_left_open`. Whether a row reaches a price, an order times out or a pair is locked
is a choice. `traded` is `pairs_with_open_trades`. The copy of the trades of a pair that a loop
walks is the set of their ids (`at.work`); they are walked in the order of the list (`Due`).
`flat` is history: the row that left a pair without a trade.

### Exits: where the stop stands and what price an exit gets

`Adjusted` is `ft_stoploss_adjust`, `Moved` `adjust_stop_loss`, `Listed` what `should_exit`
may answer with the price `_get_close_rate` gives it, `Choices` the one `_check_trade_exit`
takes. `AdjustedIn` is the position adjustment before them in the same row: one more entry
(`Added`), or a partial exit (`Reduced`), filled at once or left open (`pending.part`). After
each fill that leaves the trade open the strategy may move the stop anew (`AfterFill`), and the
trade is recalculated (`Recalculated`): after a partial exit a backtest does so after that
adjustment and the bot before it, so both orders are there. Prices are counted in the
direction of the trade, which makes a short the mirror image of a long; ratios are ticks. A
live trade is a candle of one price.

## 3. Runs

| run | instance | question and answer |
|---|---|---|
| `gate_hedge` | 1 pair, 4 rows, 1 request thread, limit 2, hedge | at most one trade beyond the limit and two per leg, those the worker opened again apart: holds |
| `gate_one_way` | 2 pairs, 2 rows, 1 thread, limit 1, one-way, fair | entries on whitelisted pairs only; iterations end, requests are answered: holds |
| `gate_leg_claim` | 1 pair, 2 rows | "one direction never has two trades": violated |
| `orders_adjust` | 5 orders; DCA and partial exits | types, no abandoned order, nothing held by a trade that is gone, exact ledger: holds |
| `orders_all` | 4 orders; everything on, fair | one live order at a time; every order that ended is settled: holds |
| `stop_loss` | 3 orders, 1 fault, 2 stop levels, fair | stops counted against faults, cover, closed means flat, noticed, protected: holds |
| `recovery` | 3 orders, 2 trades, 2 instants, 1 loss, fair | no order changes its trade, orphans counted, missed bookings found: holds |
| `iceberg` | 9 units and an adjustment of 4, lots of 2, jitter 1, fair | refinement of Position, plans end: holds |
| `locks` | 1 pair, both legs, 2 trades, 4 protections, 4 instants | no re-entry once the protections were called, their locks hold, legs apart, both filters agree: holds |
| `lifecycle` | 5 requests, 2 errors, walks of 2, fair | no new walk after a stop or a pause, cancel on stop but for what is refused, reload served: holds |
| `backtest` | 3 configurations, 2 candles of 3 rows, fair | slots, one order, no ghosts, no re-entry, ends empty: holds |
| `exits` | 6 strategies, prices 1 to 4, 3 rows, 2 fills | low first, inside the row, the stop walks up between fills: holds |

Why the bounds are enough. *Gate*: a bound that can be exceeded needs one row more than it
allows; pairs meet only in the number of slots, and two tell a whitelisted pair from
another. *Orders*: five cover entry, two DCA or partial exit orders, an exit and its
replacement; an entry of 2 units can be filled by half. `MaxTimeouts = 1` makes the first
timed out exit an emergency. *StopLoss*: after the entry (order 1) two orders are left: a
stop and its successor, a stop and an exit, a stop and a DCA entry; two stop levels give one
trailing step. *Recovery*: the least that gives each of two trades an entry and one of them
an exit; two instants tell before from after the cut-off. *Iceberg*: the target is not a multiple of
the lot or of the slice, and the rest falls below the minimum stake. *PairLocks*: two trades
give a guard with limit 2 its chance, `Day = 4` lets `unlock_at` wrap; users add a lock, or
ask for a reload of a closed trade, while there is no lock yet. *Lifecycle*: five
requests are a stop, a start, a pause, a reload and a forced exit; a walk of two has an entry
before a request and one after it. *Backtest*: two pairs
compete for one slot, three rows separate a first, a later and a last row. *Exits*: every
candle over four prices, trades followed for three rows, through one roll of the timeframe;
the two fills are the entry and one more entry or partial exit.

Deadlock is checked except where a run comes to the end of its bounds: `recovery` and
`locks` (clock and orders used up), `backtest` (the program ends). Symmetry is used in
`gate_hedge` only, on rows, threads and pairs.

Fairness, and what justifies it:

* *EntryGate*: strong fairness of the worker's steps and of a force entry that waits for the
  mutex, weak fairness of a force exit's loop: the worker frees the mutex between its
  sections and while it sleeps, and Python's `Lock` lets one of the waiters in.
* *TradeOrders*: a handler goes on to its end, the worker comes back to
  `manage_open_orders`, and not every fetch fails for ever; restarts may go on for ever.
* *StopLoss*: weak fairness of the handler in progress; strong fairness of the next visit,
  of creating and of reading stops (not every request fails), and restarts end.
* *Recovery*: weak fairness of the cancel of an open order (`unfilledtimeout`), strong
  fairness of the three places where the bot looks again.
* *Iceberg*: an order ends, and one that is placed again and again fills at some time; the
  loop comes to the plan again and again.
* *Lifecycle*: the worker's thread goes on, the container restarts the process, a request
  being answered gets its turn. Nobody is forced to send a request.
* *Backtest*: weak fairness of the next-state relation: a sequential program runs on.

## 4. Findings

**Two trades on one leg** (`rpc.py:1738`, run `gate_leg_claim`): look-up and count of a
force entry are outside the mutex and not repeated inside it.

The modules also define claims of the repository that the code contradicts in some
configuration. Put into the one named here, as INVARIANT or PROPERTY, each is violated.
`NoAbandonedOrder`, `HeldMeansHeld` and `OnlyZeroCloses` hold in others, as section 5 proves:

| claim | add to | what happens |
|---|---|---|
| `NoEntryWhilePaused` ("no more entries will occur from now", `rpc.py:1566`) | `GateLegClaim` | a pause does not end an entry loop that has begun (`freqtradebot.py:375`) |
| `NoAbandonedOrder` ("will be handled in the next iteration", `freqtradebot.py:2424`) | `OrdersAll` | a replacement whose cancel is refused deletes the trade while its entry is alive (`freqtradebot.py:2270`) |
| `HeldMeansHeld` ("if there is an open position", `trade_model.py:614`) | `OrdersAdjust` | a DCA entry re-opens the trade whose exit it has just seen filled (`freqtradebot.py:1416`) |
| `OnlyZeroCloses` ("only coming out to 0 can force a close", `trade_model.py:966`) | `OrdersAll` | recovery after an exit of half the position closes the trade |
| `ZeroIsClosed` (same line) | `Recovery` | booking a trade's orders again starts from the amount of one entry, which an exit of several entries never equals: the trade stays open without a position |
| `NoGhost` (`freqtradebot.py:2925`) | `OrdersAdjust` | an entry cancelled while the bot was down leaves an open trade with no order and no amount (`freqtradebot.py:675`) |
| `NotBeforeFirstEntry` (`freqtradebot.py:799`) | `Recovery` | an adopted entry moves the cut-off back to the time it was placed, and older orders pass |
| `TargetReached` (`docs/advanced-iceberg.md:28`) | `Iceberg` | the plan of the first entry ends a DCA that was cut |
| `UnlockReleases` (`interface.py:1153`) | `Locks` | `unlock_pair` releases only the locks of both sides |
| `RequestsKept` (`freqtradebot.py:172`) | `Lifecycle` | RPC answers before the initial state is set, which overwrites the request |
| `NothingOpensLast` ("don't open on the last row", `backtesting.py:1641`) | `Backtest` | with detail rows only the first row of the last candle is the last row |
| `AtTheStop` (`docs/backtesting.md`) | `Exits` | a trailing stop hit in the entry row is priced above the stop |

Met while modelling, without a claim that states them: *StopLoss*: a stop that fires while a
DCA entry is open leaves that entry alive after the trade has closed; a crash between
booking and cancelling leaves the stop of a closed trade; a failed cancel, a fetch answered
"not found" or a rollback leaves or doubles a stop. *Recovery*: a death between row and
booking of an additional entry is never noticed. *Iceberg*: rounding to lots breaks the cap
of `max_slices`; slices below a lot are refused for ever; replenishment goes on while
paused; a re-placed exit child or a partial exit clears the plan of the exit. *EntryGate*: a trade
that `/reload_trade` closes after the worker has listed it can be opened again by
`execute_entry` (`freqtradebot.py:1416`), although its slot or leg has been given away
meanwhile. *PairLocks*: `order_close_notify` calls the protections for exit orders only
(`freqtradebot.py:2990`), so the one call for a stop is that of `handle_stoploss_on_exchange`
(2000); a stop whose fill is first seen by `cancel_stoploss_on_exchange` (1480),
`handle_insufficient_funds` (757), the start-up or the walk leaves no lock, and the signal of
its candle may enter again; `/reload_trade` for a trade closed long ago locks its leg anew;
`LowProfitPairs` counts the trades of both sides even with `only_per_side`. *Lifecycle*:
entries of the walk under way go on after `/stop` and `/pause`, additional entries after a
`/stop` until the turn ends; a partly filled order whose cancel would leave a trade that
cannot be exited stays open while the bot is stopped; `/pause` while a reload is pending does
nothing; an `OperationalException` overwrites a pending reload. *Start-up*: a young order the
exchange cannot find is taken as cancelled, the comparison of dates being always true
(`freqtradebot.py:684`). *Backtest*: a trade that opens and closes within one row is not remembered,
and its pair may enter again; the hedge mode's list of directions ignores
`ignore_expired_candle`. *Exits*: the entry-row rule of the positive offset can price an
exit above the row.

## 5. Proofs

TLAPS proves, for every value of the constants that satisfies the named assumption of the
module:

| module | theorems |
|---|---|
| `EntryGateProofs` | `TypeCorrect`, `GateInvariant`, `SlotsBounded` (`SlotBound`: at most `MaxOpenTrades + Cardinality(Rpc)` open trades) and `LegsBounded` (`LegBound`: at most `1 + Cardinality(Rpc)` on a leg), both apart from the trades the worker opened again, `WorkerAloneIsSafe` (without request threads no leg has two open trades and the limit is exact), `EntersFromWhitelist` |
| `IcebergProofs` | `TypeCorrect`, `NeverBeyondTarget` (`Within`), `Refinement` (Iceberg implements Position) |
| `PairLocksProofs` | `TypeCorrect`, `NeverTwice`, `QueriesSame`, `NoReentry`, `ProtectionsDo`, `OtherLegStaysFree` |
| `LoopProofs` | worker: `WorkerInvariant`, `WorkerTypeCorrect`, `AlwaysStarted`, `EntriesObeyAlways`; backtest: `BacktestInvariant`, `BacktestTypeCorrect`, `SlotsHold`, `OneOrderEach`, `NeverGhosts`, `NeverReentered` |
| `ExitsProofs` | `TypeCorrect`, `StopsFirst`, `PricedInRow`, `OnlyWalksUp` |
| `TradeOrdersProofs` | in every configuration: `NeverTwoLiveOrders`, `AmountsBounded` (`TypeOK`); without IOC and FOK orders: `LedgerIsExact`, without `/reload_trade` too: `RecoveryClosesNothingHeld` (`OnlyZeroCloses`), without position adjustment: `AmountMeansPosition` (`HeldMeansHeld`); without order replacement and `/reload_trade`: `NothingAbandoned`; without order replacement, `/reload_trade`, IOC and FOK orders: `GoneHoldsNothing` |
| `StopLossProofs` | `StopInvariant`, `StopsCounted`, `CleanInvariant`, `StopCovers`, `ClosedHoldsNothing` |
| `RecoveryProofs` | `RecoveryInvariant`, `StrangersExcused`, `OrphansLost`, `RowsStay` |

**EntryGate.** Why a stronger invariant is needed. `SlotBound` alone is not inductive: a force entry that
has passed its count may add a trade to a full book. `IInv` therefore counts claims:
`SlotClaims` holds the open trades and, for each pending force entry, a token, its thread
if it will create a row and the row it looked up otherwise. Taking the
mutex turns a token into a trade, so the set does not grow there. It grows when a check
passes (at most `MaxOpenTrades - 1` trades are open then, and each other thread has one token) and when the worker creates
a trade (it counts under the mutex). `LegClaims` is the same per leg; in one-way mode
`create_trade` does not look at the pair again, so a candidate the worker has not tried yet
is a claim as well, and `OneTry` says that it is tried once. A trade the worker opened again
takes no slot and no leg that any check gave it, so it is no claim. `SnapshotOK` keeps the row a
request looked up on the leg it asked for, so its token stays in the right set.

The proofs are laid out in four layers: facts about cardinalities, one lemma per
part of the invariant and action, the step theorem, the temporal theorems. `WorkerAloneIsSafe` takes
`Rpc = {}` in the two bounds: nobody else closes a trade, and nothing is opened again. `EntersFromWhitelist` adds `OnWhitelist`: the candidates, and the pair whose signals
are followed, are on the whitelist of the iteration, which nothing changes before the next one.

**Iceberg.** `Within` alone is not inductive: the next slice is cut from the plan and from the
booked amount. `Inv` adds that the plan of the entries asks for nothing that was not asked
for (`PlanAsked`), that the trade never books less than it holds (`AmountCovers`), that an
exit in one piece has dropped that plan (`ExitSupersedes`), and that a closed trade has sold
what it bought and has no order (`ClosedIsDone`). The refinement takes each action to a
`Trade`, an `End` or a stutter of Position.

**PairLocks.** `AutoLocked` says that each closed trade the protections were called for
(`asked`) has a lock of its leg beyond the time it closed, or one that somebody released;
`NoLockTwice` is inductive with it. `NoReentry` compares that lock, which ends with a candle,
with the candle of the signal; the other action properties follow from what `LockPair`
returns.

**Lifecycle.** `ModeKept`: as long as the bot was last told to pause or stop, that is its
state. `WalkKept` carries what that gives at the look (`told`) through the walk, in which
requests change the state but not `told`. `StartKept` follows the states the worker has read
through one turn.

**Exits.** `OnlyWalksUp` is a step argument. `Moved` raises the stop or is a refresh, and only
`AfterFill` refreshes; `Kept` relates the trade before and after each part of a row: it has
more fills and the strategy adjusts after them, or its stop is where it was or further up.
`StopsFirst` and `PricedInRow` are about the step that places the exit, and `IInv` carries
them over the booking.

**Backtest.** The list of open trades changes while it is walked, which is what makes
`BacktestInv` necessary. `Listing`: each trade of the list is `Tame` (one open order at most,
no exit order beyond what it holds, neither closed nor useless), no two share a leg, and
`count` is the length of the list. `Walk`: what is still to be walked are open trades of the
pair at hand, whatever has left the list before. `Marks`: a pair that a row has left without a
trade is in `traded` while the candle lasts. While a row works on a trade the trade is only
`Loose`, and the end of the visit makes it tame or takes it off the list. It keeps one open
order because an order is placed only once what was open is dropped. The order in which pairs
are visited is a fold, for which `FoldExists` and `FoldIn` are proved by induction over
subsets; the provers know nothing of `SelectSeq`, so the trades of a pair (`On`) and the
waiting orders of a trade (`Waiting`) are sets of positions in their lists.

**TradeOrders.** Three invariants that hold in every configuration, each built on the ones
before it, and two on top of them.

* `OrderInv`, from which `OneLiveOrder` follows: a handler at work has a trade and one order
  on its list, and a live order has an open row unless the trade has been deleted.
* `AmountInv`: `TypeOK` bounds every amount by what the first entry and one addition for each
  order may ask for, and a bound on each order alone is not inductive, because booking sums
  them up. `Budget` bounds the sum over all entries, one that ended with a part filled still
  counted in full; a replacement asks again for what its predecessor gave back, which
  `Reserve` holds in between. `Below` says that a row is never ahead of the exchange, `Tasked`
  that a handler has only amounts it may ask for, `Tabled` that a trade with a filled entry
  or any exit has an amount.
* `Ledger`: an order without a row has filled nothing (`Kept`), and the amount of the trade is
  the sum of its rows, or more if an exit that expired stayed unbooked (`Summed`). With no
  open row the sum of the rows is the position, which is `LedgerExact` if there are no IOC or
  FOK orders. Order replacement and `/reload_trade` do not disturb it.
* `Gone`: a handler works on an open row (`Aimed`), and a trade that is closed or deleted has
  no live order, no open row and no position (`Flat`). A handler closes a trade only when its
  rows add up to nothing, and deletes it only when no entry has filled.
* `Single` and `Held`: without position adjustment nothing else has filled while an entry is
  open or being replaced, so the rows that have ended never add up to less than nothing. A
  trade that is open although they add up to nothing has therefore bought nothing yet: an
  exit that takes everything equals the amount when it is booked, and closes the trade. This
  holds for each table the walk of recovery passes through, which is how `/reload_trade` is
  covered.

The hypotheses that are left are those the code needs. TLC finds that an order replacement
whose cancel is refused, or `/reload_trade`, breaks `NoAbandonedOrder` and `GoneIsFlat`
(section 4), that an expired exit which stays unbooked breaks `LedgerExact`, after which
recovery closes the trade over its position, and that an additional entry breaks
`HeldMeansHeld`. `RecoveryClosesNothingHeld` follows from `Ledger`: a wallet that holds less
than the amount of a settled trade holds nothing.

Most steps of all of them but `OrderInv` are a `Forward` of one order on the exchange together
with a `TableMove` of its row, and one lemma for each layer treats them all; placing an order
and the walk of recovery have lemmas of their own.

**StopLoss.** `StopsAccounted` is a count, and what makes it inductive is who knows which
stop: `Watched` says that the handler which may create a stop has all live stops but `faults`
on its lists (to be fetched, found open, or to be cancelled), and `Counted` that at most
`faults` of them have no open row, one more in the database when a new stop is not committed
yet. `Covers` and `ClosedIsFlat` are about runs without a fault; `Clean` holds in all of
their states: rows agree with the exchange, the amount is the sum of the rows, a live stop
covers the trade or is on the list of stops to be cancelled, and a closed trade has sold what
its rows have bought.

**Recovery.** `RecoveryInv` relates the trade a row names, the trade its order was placed for,
their status and `lost` (`Counted`: apart from what was lost, a trade has one live order); it is kept by every commit of `handle_onexchange_order`, since a death
may come after each. What that loop has done after `n` orders is defined by recursion, and
the proof goes through it order by order.

Recursive definitions. The library's induction theorems take an operator as parameter, which
the provers cannot instantiate. The sums, the walk of `handle_onexchange_order` and the
bookings it repeats are recursive functions over `0..MaxOrders`, and for those an argument
with sets is enough: `LeastElement` (from well-foundedness of `<`) gives `Induction` (a set
that has 0, and `n` whenever it has `n - 1`, is all of `0..N`), and with it
`Recursion`, that a recursive function exists. Sums are bounded, compared and changed
through lemmas proved that way (`NetDiffers`, `SumBelow`, `SumDiffers` and others).

Only model-checked: liveness, which needs fairness and `ENABLED` (`EndedIsSettled`,
`IterationEnds`, `RequestAnswered`, `StopIsNoticed`, `Protected`, `BookedInTheEnd`, `ExitEnds`,
`EntryEnds`, `StopCancels`, `ReloadDone`, `Finishes`). Every safety property of a passing run
is a theorem. The claims of section 4 are refuted by TLC in the configurations named there; of
three of them, all in TradeOrders, it is proved where they hold.

## 6. Plan

1. With IOC and FOK orders, by how much the amount of a trade exceeds its position: the sum of
   the exits that stayed unbooked. `Ledger` has only the direction.
2. The rotation of the stop-loss checks (`_should_check_stoploss`), and the made-up answer
   of `cancel_order_with_result` in TradeOrders.
3. Position stacking and dynamic pair lists in Backtest; wallets with their snapshots.

## 7. Not modelled

The map covers a small share of the repository, because most of it is not the kind of code a
model says anything about: ccxt adapters and exchange-specific subclasses, Telegram and REST
formatting, configuration schemas, data download and conversion, pair list filters, plotting
and reports, hyperopt, FreqAI, migrations, and the web, desktop and Android clients. Within
the modelled parts these are left out: profit, fee, leverage, funding and liquidation price
arithmetic; the spot branch of order handling; shorts in StopLoss and Exits (mirror images);
the ORM's identity map and session isolation in EntryGate; `max_open_trades = -1`; position
stacking. Smaller things left out of single steps: in TradeOrders the answer
`cancel_order_with_result` makes up when neither the cancel nor the fetch works
(`exchange.py:1908`), the branch of the start-up for an order the exchange does not know
(`freqtradebot.py:682`, which StopLoss has for stops), and `/reload_trade` in the middle of
a handler of the worker (it takes no mutex, `rpc.py:1569`; EntryGate and Recovery have it at
any time); in Recovery the orders of the other leg that `fetch_orders` lists in hedge mode
(`freqtradebot.py:827`); in Backtest the rounding of a forced exit at the last open, which is
taken to fill in full (`backtesting.py:973`). `PROJECT.json` gives the reason for each component.
