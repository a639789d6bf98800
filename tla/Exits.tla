-------------------------------- MODULE Exits --------------------------------
(***************************************************************************)
(* Where the stop-loss of a trade stands, and at what price a trade leaves *)
(* a candle.                                                               *)
(*                                                                         *)
(* should_exit moves the stop with the favourable end of the candle and    *)
(* compares it with the other end; the backtest prices the first exit it   *)
(* names from the open, the stop or the ROI table.  A live trade is the    *)
(* case of a candle of one price.                                          *)
(*                                                                         *)
(* The code mirrors every comparison for a short.  Here a price is counted *)
(* in the direction of the trade, so that worst is the low of a long and   *)
(* the high of a short.  Ratios are counted in ticks of price, profit as   *)
(* leverage times ticks; fees are left out.                                *)
(***************************************************************************)
EXTENDS Integers

CONSTANTS
    Strategies,  \* settings of the strategy to examine
    Low, High,   \* bounds of the prices
    Timeframe,   \* rows in a candle of the main timeframe
    MaxDur,      \* rows a trade is followed for (bound)
    MaxFills,    \* entries and partial exits of a trade (bound)
    NoPrice      \* Python's None

Prices == Low..High

\* With positive = 0, trailing_stop_positive is not set; the table roi has the ratios
\* in force from a duration on, and -1 forces an exit.
ASSUME ExitsAssumption ==
    /\ Low \in Int /\ High \in Int /\ Low <= High
    /\ Timeframe \in Nat \ {0} /\ MaxDur \in Nat /\ MaxFills \in Nat
    /\ NoPrice \notin Int
    /\ \A s \in Strategies :
          /\ s.stoploss \in Nat \ {0} /\ s.leverage \in Nat \ {0}
          /\ s.custom \subseteq Nat \ {0} /\ s.afterFill \in BOOLEAN
          /\ s.trailing \in BOOLEAN /\ s.onlyOffset \in BOOLEAN
          /\ s.positive \in Nat /\ s.offset \in Nat
          /\ s.onlyOffset => s.positive > 0
          /\ DOMAIN s.roi \subseteq Nat /\ \A d \in DOMAIN s.roi : s.roi[d] \in Int

VARIABLES
    conf,    \* the strategy
    trade,   \* the trade, when there is one
    pending, \* the open exit order: its price, and whether it sells a part of the trade
    out      \* the exit order the last row placed: why and at what price, the stop as
             \* the row found it, the ends of the row and the age of the trade

vars == <<conf, trade, pending, out>>

NoTrade == [on |-> FALSE, rate |-> 0, stop |-> 0, dist |-> 0, trailing |-> FALSE,
            dur |-> 0, liq |-> NoPrice, fills |-> 0]
NoOrder == [price |-> NoPrice, part |-> FALSE]
NoOut == [why |-> "none", price |-> 0, stop |-> 0, worst |-> 0, best |-> 0, dur |-> 0]

Rows == [open : Prices, worst : Prices, best : Prices, close : Prices]
Candles == {r \in Rows : r.worst <= r.open /\ r.open <= r.best /\ r.worst <= r.close /\ r.close <= r.best}

Within(p, r) == r.worst <= p /\ p <= r.best
Larger(a, b) == IF a >= b THEN a ELSE b
Smaller(a, b) == IF a <= b THEN a ELSE b

Profit(t, rate) == conf.leverage * (rate - t.rate)

---------------------------------------------------------------------------
(* The stop-loss.                                                          *)

\* Mutant: the stop follows the last rate in both directions.
MovedBothWays(t, price, dist, refresh) ==
    [t EXCEPT !.stop = price - dist \div conf.leverage, !.dist = dist, !.trailing = ~refresh \/ @]

\* adjust_stop_loss: it only walks in the direction of the trade, unless refreshed.
Moved(t, price, dist, refresh) ==
    LET new == price - dist \div conf.leverage
    IN  IF refresh \/ new > t.stop
        THEN [t EXCEPT !.stop = new, !.dist = dist, !.trailing = ~refresh \/ @]
        ELSE t

\* Mutant: the stop is moved although the row has already reached it.
ClearAlways(t, worst) == TRUE

\* dir_correct
Clear(t, worst) == t.stop < worst

\* custom_stoploss gave dist, 0 for none.
Custom(t, bound, dist, fill) == IF dist = 0 THEN t ELSE Moved(t, bound, dist, fill)

\* The trailing stop; base is the stop-loss of the strategy or the custom one.
Trailed(t, bound, base) ==
    LET profit == Profit(t, bound) IN
    IF ~conf.trailing \/ (conf.onlyOffset /\ profit < conf.offset) THEN t
    ELSE Moved(t, bound, IF conf.positive > 0 /\ profit > conf.offset THEN conf.positive ELSE base, FALSE)

\* ft_stoploss_adjust
Adjusted(t, worst, bound, dist, fill) ==
    IF Clear(t, worst)
    THEN Trailed(Custom(t, bound, dist, fill), bound, IF dist = 0 THEN conf.stoploss ELSE dist)
    ELSE t

\* What custom_stoploss may answer; 0 when it is not used or answers nothing.
Answers == conf.custom \cup {0}

\* _call_adjust_stop, after any fill that leaves the trade open
AfterFill(t, price, dist) == IF conf.afterFill THEN Adjusted(t, price, price, dist, TRUE) ELSE t

\* recalc_trade_from_orders; an exit leaves the rate of the trade as it is.
Recalculated(t) == Moved(t, t.rate, t.dist, FALSE)

---------------------------------------------------------------------------
(* Exits and their prices.                                                 *)

\* min_roi_reached_entry: the key of the table in force, none when there is no such key.
RoiKey(dur) == {d \in DOMAIN conf.roi : d <= dur /\ \A e \in DOMAIN conf.roi : e <= dur => e <= d}

RoiReached(t, r) == \E d \in RoiKey(t.dur) : Profit(t, r.best) > conf.roi[d]

\* calc_close_rate_for_roi, for a ratio that is a multiple of the leverage
RoiRate(t, roi) == t.rate + roi \div conf.leverage

\* The row opened beyond the entry and closed against it, below the ROI.
Red(t, r, rate) == t.dur = 0 /\ r.open > r.close /\ t.rate < r.open /\ rate > r.close

\* A key that came into force with this candle is served at its open.
NewRoi(t, r, d, rate) == t.dur > 0 /\ t.dur = d /\ d % Timeframe = 0 /\ r.open > rate

\* _get_close_rate_for_roi
RoiPrice(t, r, d) ==
    LET rate == RoiRate(t, conf.roi[d]) IN
    IF (conf.roi[d] = -1 /\ d % Timeframe = 0) \/ NewRoi(t, r, d, rate) THEN r.open
    ELSE Smaller(Larger(rate, r.worst), r.best)

RoiPrices(t, r) ==
    {RoiPrice(t, r, d) : d \in {e \in RoiKey(t.dur) :
        \/ conf.roi[e] = -1 /\ e % Timeframe = 0
        \/ NewRoi(t, r, e, RoiRate(t, conf.roi[e]))
        \/ ~Red(t, r, RoiRate(t, conf.roi[e]))}}

\* The rule for a trailing stop that is hit in the row the trade was opened in.
OffsetRule == conf.custom = {} /\ conf.trailing /\ conf.onlyOffset /\ conf.positive > 0
EntryRowStop(t, r) ==
    IF OffsetRule THEN r.open + conf.offset - conf.positive \div conf.leverage
    ELSE r.open - t.dist \div conf.leverage

\* Mutant: a stop beyond the row is served at its own price.
StopPriceFree(t, r, stop, why) == stop

\* _get_close_rate_for_stoploss
StopPrice(t, r, stop, why) ==
    IF stop > r.best THEN r.open
    ELSE IF why = "trailing" /\ t.dur = 0 THEN Larger(r.worst, EntryRowStop(t, r))
    ELSE stop

\* ft_stoploss_reached
StopHit(t, r) ==
    IF t.stop >= r.worst THEN {IF t.trailing THEN "trailing" ELSE "stop"}
    ELSE IF t.liq # NoPrice /\ t.liq >= r.worst THEN {"liquidation"} ELSE {}

\* The reasons should_exit may list with the prices the backtest gives them; asked is the
\* price of an exit signal.
Listed(t, r, asked) ==
    {[why |-> "signal", price |-> Larger(asked, r.worst)]}
    \cup {[why |-> w, price |-> StopPrice(t, r, IF w = "liquidation" THEN t.liq ELSE t.stop, w)] :
             w \in StopHit(t, r)}
    \cup {[why |-> "roi", price |-> p] : p \in {q \in RoiPrices(t, r) : RoiReached(t, r)}}

\* "Sequence: Exit-signal, Stoploss, ROI, Trailing stoploss"
Rank(why) == CASE why = "signal" -> 1 [] why \in {"stop", "liquidation"} -> 2
               [] why = "roi" -> 3 [] why = "trailing" -> 4

\* The exit that is placed: it is not the open order already (of another amount when that
\* one sells a part), and what comes before it is
\* not signalled, is ignored or is not confirmed, which a liquidation does not ask for.
Placeable(listed, waiting) == {e \in listed : waiting.part \/ e.price # waiting.price}
Bound(listed, waiting) == {e \in Placeable(listed, waiting) : e.why = "liquidation"}
Choices(listed, waiting) ==
    {e \in Placeable(listed, waiting) :
        \A f \in Bound(listed, waiting) : Rank(e.why) <= Rank(f.why)}

---------------------------------------------------------------------------
\* The entry order fills at p: the stop is set anew, then adjusted to the fill.
Opened(p, dur, liq, dist) ==
    AfterFill([on |-> TRUE, rate |-> p, stop |-> p - conf.stoploss \div conf.leverage,
               dist |-> conf.stoploss, trailing |-> FALSE, dur |-> dur, liq |-> liq, fills |-> 1],
              p, dist)

\* One more entry fills at p: the rate is averaged to rate, and the stop goes with it.
Added(t, p, rate, dist) ==
    AfterFill(Recalculated([t EXCEPT !.rate = rate, !.fills = @ + 1]), p, dist)

AddedIn(t, r) ==
    IF t.fills >= MaxFills THEN {} ELSE
    UNION {{Added(t, p, rate, dist) : rate \in Smaller(p, t.rate)..Larger(p, t.rate)} :
              p \in r.worst..r.best, dist \in Answers}

\* A partial exit fills at p: a backtest recalculates the trade after the adjustment, the
\* bot before it.
Reduced(t, p, dist) ==
    LET u == [t EXCEPT !.fills = @ + 1]
    IN  {Recalculated(AfterFill(u, p, dist)), AfterFill(Recalculated(u), p, dist)}

ReducedAt(t, p) == UNION {Reduced(t, p, dist) : dist \in Answers}

\* An exit of the position adjustment, at the open or at a price of the strategy: it fills
\* at once, for a part or for all of the trade, or stays open beyond the row.
SoldIn(t, r) ==
    IF t.fills >= MaxFills THEN {} ELSE
    {[trade |-> u, order |-> NoOrder] :
        u \in {NoTrade} \cup UNION {ReducedAt(t, p) : p \in r.worst..r.best}}
    \cup {[trade |-> t, order |-> [price |-> r.best + 1, part |-> b]] : b \in BOOLEAN}

\* What the position adjustment of the row r makes of t and of the open exit order: an
\* order it places takes the place of the open one, and the trade is recalculated once more
\* after an entry, filled in the row or not.
AdjustedIn(t, r, waiting) ==
    {[trade |-> t, order |-> waiting]}
    \cup {[trade |-> Recalculated(u), order |-> NoOrder] : u \in {t} \cup AddedIn(t, r)}
    \cup SoldIn(t, r)

\* should_exit in one row, for the trade t; waiting is the open exit order.  It fills in
\* the row when no exit takes its place.
NoneFor(t, r, waiting) ==
    \E dist \in Answers :
       LET moved == Adjusted(t, r.worst, r.best, dist, FALSE)
           gone == waiting.price # NoPrice /\ Within(waiting.price, r)
       IN  /\ Bound(Listed(moved, r, r.open), waiting) = {}
           /\ trade' \in IF ~gone THEN {moved}
                         ELSE IF waiting.part THEN ReducedAt(moved, waiting.price)
                         ELSE {NoTrade}
           /\ pending' = IF gone THEN NoOrder ELSE waiting
           /\ UNCHANGED out

ExitFor(t, r, waiting) ==
    \E dist \in Answers, asked \in {r.open, r.best + 1} :
       LET moved == Adjusted(t, r.worst, r.best, dist, FALSE) IN
       \E e \in Choices(Listed(moved, r, asked), waiting) :
          /\ trade' = moved
          /\ pending' = [price |-> e.price, part |-> FALSE]
          /\ out' = [why |-> e.why, price |-> e.price, stop |-> t.stop,
                     worst |-> r.worst, best |-> r.best, dur |-> t.dur]

\* The position adjustment sold all of the trade.
SoldOut(t) == ~t.on /\ trade' = NoTrade /\ pending' = NoOrder /\ UNCHANGED out

\* _check_trade_exit for the trade t and the open exit order waiting
Row(t, r, waiting) ==
    /\ out = NoOut
    /\ \E s \in AdjustedIn(t, r, waiting) :
          \/ SoldOut(s.trade)
          \/ s.trade.on /\ (NoneFor(s.trade, r, s.order) \/ ExitFor(s.trade, r, s.order))
    /\ UNCHANGED conf

\* _process_exit_order for an exit order of should_exit that was placed in this row
Book ==
    /\ out # NoOut
    /\ IF Within(out.price, out) THEN trade' = NoTrade /\ pending' = NoOrder
       ELSE UNCHANGED <<trade, pending>>
    /\ out' = NoOut
    /\ UNCHANGED conf

\* The row an entry order fills in: the one it was placed in (dur = 0) or a later one.
EntryRow ==
    /\ ~trade.on
    /\ \E r \in Candles, dist \in Answers, dur \in 0..1, liq \in {NoPrice, Low} :
       \E p \in r.worst..r.best : Row(Opened(p, dur, liq, dist), r, NoOrder)

\* The next row; the open exit order may have timed out.
NextRow ==
    /\ trade.on /\ trade.dur < MaxDur
    /\ \E r \in Candles, waiting \in {pending, NoOrder} :
          Row([trade EXCEPT !.dur = @ + 1], r, waiting)

\* The next row first fills an entry order an earlier row left open, which took the place
\* of an exit order.
AddRow ==
    /\ trade.on /\ trade.dur < MaxDur
    /\ \E r \in Candles :
       \E t \in AddedIn([trade EXCEPT !.dur = @ + 1], r) : Row(t, r, NoOrder)

\* The trade is followed no further; a bound of the model.
Forget ==
    /\ trade.on /\ trade.dur = MaxDur /\ out = NoOut
    /\ trade' = NoTrade /\ pending' = NoOrder
    /\ UNCHANGED <<conf, out>>

Init == conf \in Strategies /\ trade = NoTrade /\ pending = NoOrder /\ out = NoOut

Next == EntryRow \/ NextRow \/ AddRow \/ Book \/ Forget

Spec == Init /\ [][Next]_vars

---------------------------------------------------------------------------
Reasons == {"none", "signal", "stop", "liquidation", "roi", "trailing"}

Trades == [on : BOOLEAN, rate : Int, stop : Int, dist : Nat, trailing : BOOLEAN,
           dur : Nat, liq : {NoPrice, Low}, fills : Nat]
Orders == [price : Int \cup {NoPrice}, part : BOOLEAN]
Outs == [why : Reasons, price : Int, stop : Int, worst : Int, best : Int, dur : Nat]

\* Types: prices stay on the grid, and a distance of the stop is never negative.
TypeOK ==
    /\ conf \in Strategies
    /\ trade \in Trades
    /\ pending \in Orders
    /\ out \in Outs

\* The stop of a trade never moves against it, except in a row that fills another entry or
\* a partial exit, and only when the strategy adjusts its stop after fills ("stop losses only
\* walk up, never down!"; after an order fills, the strategy may "move the stoploss in any
\* direction").
Ratchet ==
    [][trade.on /\ trade'.on /\ trade'.stop < trade.stop
       => trade'.fills > trade.fills /\ conf.afterFill /\ conf.custom # {}]_vars

\* A stop that the row reached before moving it is served at the stop or worse: the
\* favourable end of the row never improves it ("Low happens before high for
\* stoploss, protecting capital first").  A stop that was raised by averaging in the row
\* the trade was opened in is not covered, see AtTheStop.
LowFirst ==
    out.why \in {"stop", "trailing"} /\ out.stop >= out.worst
        => out.price <= out.stop \/ (out.why = "trailing" /\ out.dur = 0)

\* A trade that is stopped out, liquidated or sold for its ROI leaves at a price of the row
\* ("we cannot exit outside of a candle").  The exception is the rule for entry rows,
\* which is kept from below the row only.
InRow ==
    out.why \in {"stop", "trailing", "liquidation", "roi"} =>
        /\ out.worst <= out.price
        /\ out.price <= out.best \/ (out.why = "trailing" /\ out.dur = 0 /\ OffsetRule)

\* Claim: "Stoploss exits happen exactly at stoploss price, even if low was lower"
\* (docs/backtesting.md), for a stop that the row reached before moving it.
AtTheStop ==
    out.why \in {"stop", "trailing"} /\ out.stop >= out.worst => out.price <= out.stop
==============================================================================
