------------------------------- MODULE Backtest -------------------------------
(***************************************************************************)
(* The backtesting loop: candles, detail candles, pairs, trades, orders.   *)
(*                                                                         *)
(* Every main candle is spread into detail rows where a detail timeframe   *)
(* is configured.  In every row the pairs are visited one after the other, *)
(* those with open trades first, and backtest_loop manages the open orders *)
(* of the pair, enters, and then fills, adjusts, exits and books each of   *)
(* its trades.  What is left open at the end is closed by force.           *)
(*                                                                         *)
(* Prices are left out: whether a row reaches the price of an order, what  *)
(* the strategy answers, whether an order times out and whether a pair is  *)
(* locked are choices.  Amounts count entries.  The module Exits has the   *)
(* prices at which a trade is left.                                        *)
(***************************************************************************)
EXTENDS Integers, Sequences, SequencesExt

CONSTANTS
    Configs,    \* the configurations to examine, one for each backtest
    Mains,      \* main candles in the time range
    Details,    \* detail rows of a main candle, 0 without a detail timeframe
    MaxAdjust   \* strategy.max_entry_position_adjustment

ASSUME BacktestAssumption ==
    /\ \A c \in Configs : /\ c.mode \in {"spot", "one_way", "hedge"}
                          /\ c.pairs \in Seq(STRING) /\ c.pairs # <<>>
                          /\ c.maxOpen \in Nat \ {0}
    /\ Mains \in Nat \ {0} /\ Details \in Nat /\ MaxAdjust \in Nat

VARIABLES
    config,  \* trading and hedge mode, whitelist, max_open_trades
    main,    \* the main candle
    idx,     \* the row within it
    todo,    \* pairs still to be visited in this row
    signals, \* the directions each pair was signalled in this main candle
    cached,  \* detail rows cached for each pair in this main candle
    traded,    \* pairs_with_open_trades
    open,    \* bt_trades_open
    count,   \* bt_open_open_trade_count
    at,      \* the position in backtest_loop and its local variables
    flat     \* history: the row of this main candle that left a pair with no trade

vars == <<config, main, idx, todo, signals, cached, traded, open, count, at, flat>>
candle == <<main, idx, todo, signals, cached, traded>>

Names == ToSet(config.pairs)
Dirs == {"long", "short"}
Rows == IF Details = 0 THEN 1 ELSE Details
Idle == [pc |-> "row", pair |-> config.pairs[1], had |-> FALSE, again |-> FALSE,
         exiting |-> "none", dirs |-> <<>>, left |-> <<>>, work |-> {}]

---------------------------------------------------------------------------
(* Trades and their open orders.                                           *)

\* bt_trades_open_pp, as positions in the list of all trades.
On(p) == {n \in DOMAIN open : open[n].pair = p}
Ids(ns) == {open[n].id : n \in ns}
NewId == CHOOSE i \in 1..(Len(open) + 1) : \A t \in ToSet(open) : t.id # i

\* Trades are walked in the order of the list: the trade in hand is the first one left.
Due == {n \in DOMAIN open : open[n].id \in at.work}
Place == Min(Due)
Trade == open[Place]

Order(side, amount) == [side |-> side, amount |-> amount, new |-> TRUE]

Waiting(t, side) == {n \in DOMAIN t.orders : t.orders[n].side = side}

\* The latest open order of that side, if there is one.
Latest(t, side) ==
    {t.orders[n] : n \in {m \in Waiting(t, side) : \A k \in Waiting(t, side) : k <= m}}

Dropped(t, o) == [t EXCEPT !.orders = RemoveFirst(@, o)]

\* Mutant: the other open orders of the trade are kept.
PlacedBeside(t, o) == [t EXCEPT !.orders = Append(@, o)]

\* handle_similar_order: unless it is kept, what is open is cancelled first.
Placed(t, o) == [t EXCEPT !.orders = <<o>>]

\* close_bt_order
Bought(t, o) == [Dropped(t, o) EXCEPT !.held = @ + o.amount, !.fills = @ + 1]
Sold(t, o) == [Dropped(t, o) EXCEPT !.held = @ - o.amount]

\* _enter_trade for a trade that exists: refused, kept, placed, placed and filled.
Entered(t, amount) ==
    LET o == Order("entry", amount) IN {t, Placed(t, o), Bought(Placed(t, o), o)}

\* _process_exit_order: the row reaches the price of the latest open exit order, or not.
Exited(t) == {t} \cup {Sold(t, o) : o \in Latest(t, "exit")}

Closed(t) == t.fills > 0 /\ t.held = 0

---------------------------------------------------------------------------
(* What becomes of the trade in hand.                                      *)

Keeping(t) ==
    /\ open' = ReplaceAt(open, Place, t)
    /\ UNCHANGED <<count, flat>>

\* close_bt_trade, remove_bt_trade
Leaving(t) ==
    /\ open' = RemoveAt(open, Place)
    /\ count' = count - 1
    /\ flat' = IF at.had /\ On(t.pair) = {Place}
               THEN [flat EXCEPT ![t.pair] = idx + 1] ELSE flat

Go(to) == at' = [at EXCEPT !.pc = to]
Following == at' = [at EXCEPT !.work = @ \ {Trade.id}]

---------------------------------------------------------------------------
(* Candles, rows and pairs: time_pair_generator.                           *)

\* Pairs with open trades are visited first.
Visits ==
    LET all == [n \in DOMAIN open |-> open[n].pair] \o config.pairs
    IN  FoldLeft(LAMBDA s, p : IF Contains(s, p) THEN s ELSE Append(s, p), <<>>, all)

NewRow ==
    /\ at.pc = "row" /\ todo = <<>>
    /\ idx + 1 < Rows
    /\ idx' = idx + 1
    /\ todo' = Visits
    /\ UNCHANGED <<config, main, signals, cached, traded, open, count, at, flat>>

NewCandle ==
    /\ at.pc = "row" /\ todo = <<>>
    /\ idx + 1 = Rows /\ main < Mains
    /\ main' = main + 1 /\ idx' = 0
    /\ todo' = Visits
    /\ signals' = [p \in Names |-> <<>>] /\ cached' = [p \in Names |-> 0]
    /\ traded' = {t.pair : t \in ToSet(open)}
    /\ flat' = [p \in Names |-> 0]
    /\ UNCHANGED <<config, open, count, at>>

\* check_for_trade_entry, check_for_trade_entries
Signals ==
    CASE config.mode = "spot" -> {<<>>, <<"long">>}
      [] config.mode = "one_way" -> {<<>>, <<"long">>, <<"short">>}
      [] config.mode = "hedge" -> {<<>>, <<"long">>, <<"short">>, <<"long", "short">>}

\* backtest_loop begins for the pair p.
Began(p, dirs, again) ==
    [pc |-> "orders", pair |-> p, had |-> IF again THEN at.had ELSE On(p) # {},
     again |-> again, dirs |-> dirs, left |-> dirs,
     exiting |-> IF config.mode = "hedge" \/ On(p) = {} THEN "none" ELSE open[Min(On(p))].dir,
     work |-> Ids(On(p))]

\* The orders of the pair are now those of an earlier row (order_date < current_time).
Aged(p) ==
    [n \in DOMAIN open |->
        IF open[n].pair # p THEN open[n]
        ELSE [open[n] EXCEPT !.orders = [m \in DOMAIN @ |-> [@[m] EXCEPT !.new = FALSE]]]]

\* Mutant: the pair is not added to the pairs that had a trade in this candle.
TradedAtStart(p) == traded

TradedWith(p) == IF On(p) # {} THEN traded \cup {p} ELSE traded

\* The pair traded in this candle and trades no more.
Skipped(p) == p \in traded /\ On(p) = {}

Skip ==
    /\ at.pc = "row" /\ todo # <<>>
    /\ todo' = Tail(todo)
    /\ UNCHANGED <<config, main, idx, signals, cached, traded, open, count, at, flat>>

\* Mutant: the window of the detail rows includes its end.
DetailRowsToEnd == 0..(Details + 1)

\* get_detail_data: there may be no detail data, or less than a candle of it.
DetailRows == 0..Details

\* The first row of a candle: signals, and the detail rows if activity is expected.
First(dirs, rows) ==
    LET p == Head(todo) IN
    /\ at.pc = "row" /\ todo # <<>> /\ idx = 0
    /\ signals' = [signals EXCEPT ![p] = dirs]
    /\ cached' = [cached EXCEPT ![p] = IF dirs # <<>> \/ On(p) # {} THEN rows ELSE 0]
    /\ traded' = TradedWith(p)
    /\ todo' = Tail(todo)
    /\ at' = Began(p, dirs, FALSE)
    /\ open' = Aged(p)
    /\ UNCHANGED <<config, main, idx, count, flat>>

\* A later row; ignore_expired_candle may take the direction away, which the list of
\* directions of the hedge mode does not notice.
Later(late) ==
    LET p == Head(todo) IN
    /\ at.pc = "row" /\ todo # <<>> /\ idx > 0
    /\ cached[p] > idx
    /\ ~Skipped(p)
    /\ traded' = TradedWith(p)
    /\ todo' = Tail(todo)
    /\ at' = Began(p, IF late /\ config.mode # "hedge" THEN <<>> ELSE signals[p], FALSE)
    /\ open' = Aged(p)
    /\ UNCHANGED <<config, main, idx, signals, cached, count, flat>>

\* No candle for the pair, no cached row, or the pair is done with for this candle.
NoRow ==
    /\ todo # <<>>
    /\ idx > 0 => cached[Head(todo)] <= idx \/ Skipped(Head(todo))
    /\ Skip

---------------------------------------------------------------------------
(* 1. manage_open_orders.  A trade has at most one open order (OneOrder).  *)

\* check_order_cancel, when the order timed out
TimedOut(t) == {Dropped(t, o) : o \in ToSet(t.orders)}

\* check_order_replace: the strategy gives an order of an earlier row up, or asks for
\* another price.
Replaced(t) ==
    UNION {LET d == Dropped(t, o)
           IN  IF o.side = "entry" THEN {d} \cup Entered(d, o.amount)
               ELSE {d, Placed(d, Order("exit", o.amount))}
           : o \in {x \in ToSet(t.orders) : ~x.new}}

\* Mutant: a trade whose first order could not be replaced is kept.
UselessIfHeld(t) == t.orders = <<>> /\ t.held > 0

\* The first order is gone and bought nothing.
Useless(t) == t.orders = <<>> /\ t.fills = 0

ManageOrders ==
    /\ at.pc = "orders" /\ at.work # {}
    /\ \E r \in {Trade} \cup TimedOut(Trade) \cup Replaced(Trade) :
          IF Useless(r) THEN Leaving(r) ELSE Keeping(r)
    /\ Following
    /\ UNCHANGED <<config, candle>>

OrdersManaged ==
    /\ at.pc = "orders" /\ at.work = {}
    /\ Go("entries")
    /\ UNCHANGED <<config, candle, open, count, flat>>

---------------------------------------------------------------------------
(* 2. _process_entries, direction by direction.                            *)

\* is_last_row
LastRow == main = Mains /\ idx = 0

\* Mutant: a trade whose entry has not filled does not take the place.
EntrySlotIfHeld(p, d) ==
    LET ns == {n \in On(p) : open[n].held > 0}
    IN  IF config.mode = "hedge" THEN \A n \in ns : open[n].dir # d ELSE ns = {}

\* _entry_slot_available
EntrySlot(p, d) ==
    IF config.mode = "hedge" THEN \A n \in On(p) : open[n].dir # d ELSE On(p) = {}

\* Refused by the last row, the slot, a lock, the limit, the stake or the strategy.
NoEntry ==
    /\ at.pc = "entries" /\ at.left # <<>>
    /\ at' = [at EXCEPT !.left = Tail(@)]
    /\ UNCHANGED <<config, candle, open, count, flat>>

Enter ==
    LET o == Order("entry", 1)
        t == [id |-> NewId, pair |-> at.pair, dir |-> Head(at.left), held |-> 0,
              fills |-> 0, orders |-> <<o>>]
    IN
    /\ at.pc = "entries" /\ at.left # <<>>
    /\ ~LastRow
    /\ EntrySlot(at.pair, Head(at.left))
    /\ count < config.maxOpen
    /\ \E r \in {t, Bought(t, o)} : open' = Append(open, r)
    /\ count' = count + 1
    /\ at' = [at EXCEPT !.left = Tail(@)]
    /\ UNCHANGED <<config, candle, flat>>

EntriesProcessed ==
    /\ at.pc = "entries" /\ at.left = <<>>
    /\ at' = [at EXCEPT !.pc = "trades", !.work = Ids(On(at.pair))]
    /\ UNCHANGED <<config, candle, open, count, flat>>

---------------------------------------------------------------------------
(* 3. to 5. The trades of the pair, one after the other.                   *)

\* 3. The row reaches the price of the open entry order, or not.
Filled(t) == {t} \cup {Bought(t, o) : o \in Latest(t, "entry")}

\* _check_adjust_trade_for_candle: nothing, more, or less, which is processed at once.
Adjusted(t) ==
    {t} \cup (IF t.fills <= MaxAdjust THEN Entered(t, 1) ELSE {})
        \cup UNION {Exited(Placed(t, Order("exit", a))) : a \in 1..t.held}

\* 4. _check_trade_exit: no reason, not confirmed, or kept; or an exit for all it holds.
Checked(t) ==
    IF t.held = 0 THEN {t}
    ELSE UNION {IF Closed(a) THEN {a} ELSE {a, Placed(a, Order("exit", a.held))} : a \in Adjusted(t)}

\* 5. And the exit order is processed.
Outcomes(t) == UNION {Exited(c) : c \in UNION {Checked(f) : f \in Filled(t)}}

ProcessTrade ==
    /\ at.pc = "trades" /\ at.work # {}
    /\ \E r \in Outcomes(Trade) : IF Closed(r) THEN Leaving(r) ELSE Keeping(r)
    /\ Following
    /\ UNCHANGED <<config, candle>>

\* A trade closed, and the signal of this row is in the other direction.
Reversing ==
    /\ config.mode = "one_way" /\ ~at.again /\ at.dirs # <<>>
    /\ at.exiting \notin {"none", Head(at.dirs)}
    /\ On(at.pair) = {}

TradesProcessed ==
    /\ at.pc = "trades" /\ at.work = {}
    /\ at' = IF Reversing THEN Began(at.pair, at.dirs, TRUE) ELSE Idle
    /\ UNCHANGED <<config, candle, open, count, flat>>

---------------------------------------------------------------------------
(* handle_left_open.                                                       *)

CandlesEnd ==
    /\ at.pc = "row" /\ todo = <<>>
    /\ idx + 1 = Rows /\ main = Mains
    /\ at' = [Idle EXCEPT !.pc = "left", !.work = Ids(DOMAIN open)]
    /\ UNCHANGED <<config, candle, open, count, flat>>

\* Mutant: the list of the pair is walked while trades are taken out of it.
AfterLive(work) == Ids({n \in Due : \E m \in Due : Place < m /\ m < n}) \cap work

After(work) == work \ {Trade.id}

\* A trade without position is removed; any other is sold at the open of the last
\* candle, which that candle reaches.
CloseLeft ==
    /\ at.pc = "left" /\ at.work # {}
    /\ Leaving(Trade)
    /\ at' = [at EXCEPT !.work = After(@)]
    /\ UNCHANGED <<config, candle>>

Done ==
    /\ at.pc = "left" /\ at.work = {}
    /\ Go("done")
    /\ UNCHANGED <<config, candle, open, count, flat>>

---------------------------------------------------------------------------
Init ==
    /\ config \in Configs
    /\ main = 1 /\ idx = 0 /\ todo = config.pairs
    /\ signals = [p \in Names |-> <<>>] /\ cached = [p \in Names |-> 0] /\ traded = {}
    /\ open = <<>> /\ count = 0 /\ at = Idle
    /\ flat = [p \in Names |-> 0]

Next ==
    \/ NewRow \/ NewCandle \/ NoRow
    \/ \E dirs \in Signals, rows \in DetailRows : First(dirs, rows)
    \/ \E late \in BOOLEAN : Later(late)
    \/ ManageOrders \/ OrdersManaged
    \/ NoEntry \/ Enter \/ EntriesProcessed
    \/ ProcessTrade \/ TradesProcessed
    \/ CandlesEnd \/ CloseLeft \/ Done

Spec == Init /\ [][Next]_vars

\* The backtest is a program that runs to its end.
FairSpec == Spec /\ WF_vars(Next)

---------------------------------------------------------------------------
Orders == [side : {"entry", "exit"}, amount : Nat \ {0}, new : BOOLEAN]
Trades == [id : Nat \ {0}, pair : Names, dir : Dirs, held : Nat, fills : Nat, orders : Seq(Orders)]

\* Types: the window of the detail rows stays inside the candle (get_detail_data).
TypeOK ==
    /\ config \in Configs
    /\ main \in 1..Mains /\ idx \in 0..(Rows - 1) /\ todo \in Seq(Names)
    /\ signals \in [Names -> Seq(Dirs)]
    /\ cached \in [Names -> 0..Details]
    /\ traded \subseteq Names
    /\ open \in Seq(Trades) /\ count \in Nat
    /\ at \in [pc : {"row", "orders", "entries", "trades", "left", "done"},
               pair : Names, had : BOOLEAN, again : BOOLEAN, exiting : Dirs \cup {"none"},
               dirs : Seq(Dirs), left : Seq(Dirs), work : SUBSET Nat]
    /\ flat \in [Names -> 0..Rows]

\* The count that limits the entries is the number of open trades, within the limit
\* through detail rows, reversals and removed entries, and no two trades share a
\* leg (backtest_loop, _entry_slot_available, bt_open_open_trade_count).
Slots ==
    /\ count = Len(open) /\ count <= config.maxOpen
    /\ \A m, n \in DOMAIN open :
          m # n /\ open[m].pair = open[n].pair => config.mode = "hedge" /\ open[m].dir # open[n].dir

\* A trade never has two open orders, as "there can't be multiple open entry orders
\* at any given time" assumes, and never an exit order for more than it holds, although
\* adjustments, replacements, exits and second passes all place orders.
OneOrder ==
    \A t \in ToSet(open) :
        /\ Len(t.orders) <= 1
        /\ \A o \in ToSet(t.orders) : o.side = "exit" => o.amount <= t.held

\* Between two rows an open trade holds a position or waits for its entry: a trade
\* whose only order timed out, or could not be replaced, never keeps its slot.
NoGhosts ==
    at.pc = "row" => \A t \in ToSet(open) : t.held > 0 \/ Waiting(t, "entry") # {}

\* A pair whose trade was open when a row began and is gone by its end is not entered
\* in a later row of the same main candle ("Skip this pair for this timeframe").
NoReentry ==
    [][\A t \in ToSet(open') : (On(t.pair) = {} => flat[t.pair] \in {0, idx + 1})]_vars

\* The backtest ends, and leaves nothing open behind: what it did not close itself is
\* closed by handle_left_open.
Finishes == <>(at.pc = "done" /\ open = <<>> /\ count = 0)

\* Claim: "don't open on the last row" (backtest_loop).
NothingOpensLast == [][main = Mains => Len(open') <= Len(open)]_vars
==============================================================================
