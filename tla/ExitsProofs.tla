----------------------------- MODULE ExitsProofs -----------------------------
(***************************************************************************)
(* What the stop-loss and the exits of a row do for every strategy and     *)
(* every range of prices.                                                  *)
(***************************************************************************)
EXTENDS Exits, TLAPS

LEMMA ConfType ==
    ASSUME conf \in Strategies
    PROVE  /\ conf.stoploss \in Nat \ {0} /\ conf.leverage \in Nat \ {0}
           /\ conf.custom \subseteq Nat \ {0} /\ conf.afterFill \in BOOLEAN
           /\ conf.trailing \in BOOLEAN /\ conf.onlyOffset \in BOOLEAN
           /\ conf.positive \in Nat /\ conf.offset \in Nat
           /\ DOMAIN conf.roi \subseteq Nat /\ \A d \in DOMAIN conf.roi : conf.roi[d] \in Int
  BY ExitsAssumption

\* A ratio, in ticks of the price.
LEMMA Ticks ==
    ASSUME conf \in Strategies, NEW dist \in Int
    PROVE  dist \div conf.leverage \in Int
  BY ConfType

LEMMA AnswerType == ASSUME conf \in Strategies PROVE Answers \subseteq Nat
  BY ConfType DEF Answers

---------------------------------------------------------------------------
(* The stop-loss.                                                          *)

\* Two trades that differ in their stop-loss only.
Alike(t, u) ==
    u.on = t.on /\ u.rate = t.rate /\ u.dur = t.dur /\ u.liq = t.liq /\ u.fills = t.fills

LEMMA MovedProps ==
    ASSUME conf \in Strategies, NEW t \in Trades, NEW price \in Int, NEW dist \in Nat,
           NEW refresh \in BOOLEAN
    PROVE  /\ Moved(t, price, dist, refresh) \in Trades
           /\ Alike(t, Moved(t, price, dist, refresh))
           /\ ~refresh => Moved(t, price, dist, refresh).stop >= t.stop
<1> DEFINE new == price - dist \div conf.leverage
<1>1. new \in Int
  BY Ticks
<1> HIDE DEF new
<1>2. ~refresh \/ t.trailing \in BOOLEAN
  BY DEF Trades
<1> DEFINE u == [t EXCEPT !.stop = new, !.dist = dist, !.trailing = ~refresh \/ @]
<1>3. u \in Trades /\ Alike(t, u) /\ u.stop = new
  BY <1>1, <1>2 DEF Trades, Alike
<1>4. Moved(t, price, dist, refresh) = IF refresh \/ new > t.stop THEN u ELSE t
  BY DEF Moved, new
<1>5. Alike(t, t) /\ t.stop \in Int
  BY DEF Alike, Trades
<1> QED
  BY <1>1, <1>3, <1>4, <1>5

LEMMA AlikeTwice ==
    ASSUME NEW t, NEW u, NEW v, Alike(t, u), Alike(u, v)
    PROVE  Alike(t, v)
  BY DEF Alike

LEMMA CustomProps ==
    ASSUME conf \in Strategies, NEW t \in Trades, NEW bound \in Int, NEW dist \in Answers,
           NEW fill \in BOOLEAN
    PROVE  /\ Custom(t, bound, dist, fill) \in Trades
           /\ Alike(t, Custom(t, bound, dist, fill))
           /\ ~fill \/ dist = 0 => Custom(t, bound, dist, fill).stop >= t.stop
<1>1. dist \in Nat
  BY AnswerType
<1>2. Alike(t, t) /\ t.stop \in Int
  BY DEF Alike, Trades
<1> QED
  BY <1>1, <1>2, MovedProps DEF Custom

LEMMA TrailedProps ==
    ASSUME conf \in Strategies, NEW t \in Trades, NEW bound \in Int, NEW base \in Nat
    PROVE  /\ Trailed(t, bound, base) \in Trades
           /\ Alike(t, Trailed(t, bound, base))
           /\ Trailed(t, bound, base).stop >= t.stop
<1>1. Alike(t, t) /\ t.stop \in Int
  BY DEF Alike, Trades
<1> DEFINE d == IF conf.positive > 0 /\ Profit(t, bound) > conf.offset THEN conf.positive ELSE base
<1>2. d \in Nat
  BY ConfType
<1>3. Trailed(t, bound, base) \in {t, Moved(t, bound, d, FALSE)}
  BY DEF Trailed
<1>4. /\ Moved(t, bound, d, FALSE) \in Trades
      /\ Alike(t, Moved(t, bound, d, FALSE))
      /\ Moved(t, bound, d, FALSE).stop >= t.stop
  BY <1>2, MovedProps
<1> HIDE DEF d
<1>5. CASE Trailed(t, bound, base) = t
  BY <1>1, <1>5
<1>6. CASE Trailed(t, bound, base) = Moved(t, bound, d, FALSE)
  BY <1>4, <1>6
<1> QED
  BY <1>3, <1>5, <1>6

LEMMA AdjustedProps ==
    ASSUME conf \in Strategies, NEW t \in Trades, NEW worst \in Int, NEW bound \in Int,
           NEW dist \in Answers, NEW fill \in BOOLEAN
    PROVE  /\ Adjusted(t, worst, bound, dist, fill) \in Trades
           /\ Alike(t, Adjusted(t, worst, bound, dist, fill))
           /\ ~fill \/ dist = 0 => Adjusted(t, worst, bound, dist, fill).stop >= t.stop
           /\ t.stop >= worst => Adjusted(t, worst, bound, dist, fill) = t
<1> DEFINE c == Custom(t, bound, dist, fill)
           b == IF dist = 0 THEN conf.stoploss ELSE dist
           u == Trailed(c, bound, b)
<1>1. b \in Nat
  BY AnswerType, ConfType
<1>2. /\ c \in Trades /\ Alike(t, c)
      /\ ~fill \/ dist = 0 => c.stop >= t.stop
  BY CustomProps
<1>3. u \in Trades /\ Alike(c, u) /\ u.stop >= c.stop
  BY <1>1, <1>2, TrailedProps
<1>4. Alike(t, u)
  BY <1>2, <1>3, AlikeTwice
<1>5. t.stop \in Int /\ c.stop \in Int /\ u.stop \in Int
  BY <1>2, <1>3 DEF Trades
<1>6. ~fill \/ dist = 0 => u.stop >= t.stop
  BY <1>2, <1>3, <1>5
<1>7. Alike(t, t)
  BY DEF Alike
<1>8. Adjusted(t, worst, bound, dist, fill) = IF t.stop < worst THEN u ELSE t
  BY DEF Adjusted, Clear
<1> HIDE DEF u, c, b
<1> QED
  BY <1>3, <1>4, <1>5, <1>6, <1>7, <1>8

LEMMA AfterFillProps ==
    ASSUME conf \in Strategies, NEW t \in Trades, NEW price \in Int, NEW dist \in Answers
    PROVE  /\ AfterFill(t, price, dist) \in Trades
           /\ Alike(t, AfterFill(t, price, dist))
           /\ AfterFill(t, price, dist).stop >= t.stop
              \/ (conf.afterFill /\ conf.custom # {})
<1>1. Alike(t, t) /\ t.stop \in Int
  BY DEF Alike, Trades
<1>2. /\ Adjusted(t, price, price, dist, TRUE) \in Trades
      /\ Alike(t, Adjusted(t, price, price, dist, TRUE))
      /\ dist = 0 => Adjusted(t, price, price, dist, TRUE).stop >= t.stop
  BY AdjustedProps
<1>3. dist # 0 => conf.custom # {}
  BY DEF Answers
<1>4. CASE conf.afterFill
  <2>1. AfterFill(t, price, dist) = Adjusted(t, price, price, dist, TRUE)
    BY <1>4 DEF AfterFill
  <2> QED
    BY <1>2, <1>3, <1>4, <2>1
<1>5. CASE ~conf.afterFill
  <2>1. AfterFill(t, price, dist) = t
    BY <1>5 DEF AfterFill
  <2> QED
    BY <1>1, <2>1
<1> QED
  BY <1>4, <1>5

LEMMA RecalculatedProps ==
    ASSUME conf \in Strategies, NEW t \in Trades
    PROVE  /\ Recalculated(t) \in Trades
           /\ Alike(t, Recalculated(t))
           /\ Recalculated(t).stop >= t.stop
<1>1. t.rate \in Int /\ t.dist \in Nat
  BY DEF Trades
<1> QED
  BY <1>1, MovedProps DEF Recalculated

---------------------------------------------------------------------------
(* Fills.                                                                  *)

\* What a row may do with a trade: its stop falls only after a fill, and only where the
\* strategy adjusts it then.
Kept(t, u) ==
    /\ u.on = t.on /\ u.dur = t.dur
    /\ u.fills >= t.fills
    /\ u.stop >= t.stop \/ (u.fills > t.fills /\ conf.afterFill /\ conf.custom # {})

LEMMA KeptTwice ==
    ASSUME NEW t \in Trades, NEW u \in Trades, NEW v \in Trades, Kept(t, u), Kept(u, v)
    PROVE  Kept(t, v)
<1>1. /\ t.fills \in Nat /\ u.fills \in Nat /\ v.fills \in Nat
      /\ t.stop \in Int /\ u.stop \in Int /\ v.stop \in Int
  BY DEF Trades
<1> QED
  BY <1>1 DEF Kept

LEMMA AlikeKept ==
    ASSUME NEW t \in Trades, NEW u \in Trades, Alike(t, u), u.stop >= t.stop
    PROVE  Kept(t, u)
<1>1. t.fills \in Nat
  BY DEF Trades
<1> QED
  BY <1>1 DEF Kept, Alike

LEMMA KeptSame == ASSUME NEW t \in Trades PROVE Kept(t, t)
<1>1. t.fills \in Nat /\ t.stop \in Int
  BY DEF Trades
<1> QED
  BY <1>1 DEF Kept

LEMMA CandleType ==
    ASSUME NEW r \in Candles
    PROVE  /\ r.open \in Int /\ r.worst \in Int /\ r.best \in Int /\ r.close \in Int
           /\ Low \in Int
           /\ r.worst <= r.open /\ r.open <= r.best
  BY ExitsAssumption DEF Candles, Rows, Prices

LEMMA OpenedProps ==
    ASSUME conf \in Strategies, NEW p \in Int, NEW dur \in 0..1, NEW liq \in {NoPrice, Low},
           NEW dist \in Answers
    PROVE  Opened(p, dur, liq, dist) \in Trades
<1> DEFINE t == [on |-> TRUE, rate |-> p, stop |-> p - conf.stoploss \div conf.leverage,
                 dist |-> conf.stoploss, trailing |-> FALSE, dur |-> dur, liq |-> liq, fills |-> 1]
<1>1. conf.stoploss \in Nat
  BY ConfType
<1>2. p - conf.stoploss \div conf.leverage \in Int
  BY <1>1, Ticks
<1>3. t \in Trades
  BY <1>1, <1>2 DEF Trades
<1> QED
  BY <1>3, AfterFillProps DEF Opened

LEMMA RecalculatedKept ==
    ASSUME conf \in Strategies, NEW t \in Trades
    PROVE  Recalculated(t) \in Trades /\ Kept(t, Recalculated(t))
  BY RecalculatedProps, AlikeKept

\* A trade with one fill more, and its stop where it was.
LEMMA Filled ==
    ASSUME conf \in Strategies, NEW t \in Trades, NEW rate \in Int
    PROVE  LET u == [t EXCEPT !.rate = rate, !.fills = @ + 1]
           IN  /\ u \in Trades /\ Kept(t, u)
               /\ u.fills = t.fills + 1 /\ u.stop = t.stop /\ u.on = t.on /\ u.dur = t.dur
<1> DEFINE w == [t EXCEPT !.rate = rate]
           u == [w EXCEPT !.fills = @ + 1]
<1>1. w \in Trades /\ w.on = t.on /\ w.dur = t.dur /\ w.fills = t.fills /\ w.stop = t.stop
  BY DEF Trades
<1>2. u \in Trades /\ u.on = t.on /\ u.dur = t.dur /\ u.fills = t.fills + 1 /\ u.stop = t.stop
  <2> HIDE DEF w
  <2> QED
    BY <1>1 DEF Trades
<1>3. [t EXCEPT !.rate = rate, !.fills = @ + 1] = u
  BY DEF Trades
<1>4. t.stop \in Int /\ t.fills \in Nat
  BY DEF Trades
<1> HIDE DEF u
<1> QED
  BY <1>2, <1>3, <1>4 DEF Kept

\* What follows a fill: the trade u of the fill is recalculated and adjusted, in any order.
LEMMA Refreshed ==
    ASSUME conf \in Strategies, NEW t \in Trades, NEW u \in Trades, NEW p \in Int,
           NEW dist \in Answers, u.fills = t.fills + 1, u.stop = t.stop, u.on = t.on, u.dur = t.dur,
           NEW v \in {AfterFill(Recalculated(u), p, dist), Recalculated(AfterFill(u, p, dist))}
    PROVE  v \in Trades /\ Kept(t, v)
<1>1. u.fills > t.fills /\ u.fills \in Nat /\ t.fills \in Nat /\ u.stop \in Int
  BY DEF Trades
<1>2. CASE v = AfterFill(Recalculated(u), p, dist)
  <2> DEFINE w == Recalculated(u)
  <2>1. w \in Trades /\ Alike(u, w) /\ w.stop >= u.stop
    BY RecalculatedProps
  <2> HIDE DEF w
  <2>2. /\ v \in Trades /\ Alike(w, v)
        /\ v.stop >= w.stop \/ (conf.afterFill /\ conf.custom # {})
    BY <1>2, <2>1, AfterFillProps DEF w
  <2>3. v.fills = u.fills /\ v.on = t.on /\ v.dur = t.dur
    BY <2>1, <2>2 DEF Alike
  <2>4. v.stop \in Int /\ w.stop \in Int
    BY <2>1, <2>2 DEF Trades
  <2> QED
    BY <1>1, <2>1, <2>2, <2>3, <2>4 DEF Kept
<1>3. CASE v = Recalculated(AfterFill(u, p, dist))
  <2> DEFINE w == AfterFill(u, p, dist)
  <2>1. /\ w \in Trades /\ Alike(u, w)
        /\ w.stop >= u.stop \/ (conf.afterFill /\ conf.custom # {})
    BY AfterFillProps
  <2> HIDE DEF w
  <2>2. v \in Trades /\ Alike(w, v) /\ v.stop >= w.stop
    BY <1>3, <2>1, RecalculatedProps DEF w
  <2>3. v.fills = u.fills /\ v.on = t.on /\ v.dur = t.dur
    BY <2>1, <2>2 DEF Alike
  <2>4. v.stop \in Int /\ w.stop \in Int
    BY <2>1, <2>2 DEF Trades
  <2> QED
    BY <1>1, <2>1, <2>2, <2>3, <2>4 DEF Kept
<1> QED
  BY <1>2, <1>3

\* One more entry.
LEMMA AddedProps ==
    ASSUME conf \in Strategies, NEW t \in Trades, NEW r \in Candles, NEW a \in AddedIn(t, r)
    PROVE  a \in Trades /\ Kept(t, a)
<1>0. PICK p \in r.worst..r.best, dist \in Answers :
           a \in {Added(t, p, rate, dist) : rate \in Smaller(p, t.rate)..Larger(p, t.rate)}
  BY DEF AddedIn
<1>1. PICK rate \in Smaller(p, t.rate)..Larger(p, t.rate) : a = Added(t, p, rate, dist)
  BY <1>0
<1>2. p \in Int /\ rate \in Int
  BY CandleType DEF Trades
<1> DEFINE u == [t EXCEPT !.rate = rate, !.fills = @ + 1]
<1>3. u \in Trades /\ u.fills = t.fills + 1 /\ u.stop = t.stop /\ u.on = t.on /\ u.dur = t.dur
  BY <1>2, Filled
<1>4. a = AfterFill(Recalculated(u), p, dist)
  BY <1>1 DEF Added
<1> HIDE DEF u
<1> QED
  BY <1>2, <1>3, <1>4, Refreshed

\* A partial exit.
LEMMA ReducedProps ==
    ASSUME conf \in Strategies, NEW t \in Trades, NEW p \in Int, NEW a \in ReducedAt(t, p)
    PROVE  a \in Trades /\ Kept(t, a)
<1>1. PICK dist \in Answers : a \in Reduced(t, p, dist)
  BY DEF ReducedAt
<1> DEFINE u == [t EXCEPT !.fills = @ + 1]
<1>2. u \in Trades /\ u.fills = t.fills + 1 /\ u.stop = t.stop /\ u.on = t.on /\ u.dur = t.dur
  BY DEF Trades
<1>3. a \in {AfterFill(Recalculated(u), p, dist), Recalculated(AfterFill(u, p, dist))}
  BY <1>1 DEF Reduced
<1> HIDE DEF u
<1> QED
  BY <1>2, <1>3, Refreshed

LEMMA NothingType ==
    NoTrade \in Trades /\ NoTrade.on = FALSE /\ NoOut \in Outs /\ NoOrder \in Orders
  BY DEF NoTrade, Trades, NoOut, Outs, Reasons, NoOrder, Orders

\* What the position adjustment of a row leaves.
LEMMA AdjustedInProps ==
    ASSUME conf \in Strategies, NEW t \in Trades, NEW r \in Candles, NEW waiting \in Orders,
           NEW s \in AdjustedIn(t, r, waiting)
    PROVE  /\ s.trade = NoTrade \/ (s.trade \in Trades /\ Kept(t, s.trade))
           /\ s.order \in Orders
<1>1. CASE s = [trade |-> t, order |-> waiting]
  BY <1>1, KeptSame
<1>2. CASE s \in {[trade |-> Recalculated(u), order |-> NoOrder] : u \in {t} \cup AddedIn(t, r)}
  <2>1. PICK u \in {t} \cup AddedIn(t, r) : s = [trade |-> Recalculated(u), order |-> NoOrder]
    BY <1>2
  <2>2. u \in Trades /\ Kept(t, u)
    BY AddedProps, KeptSame
  <2>3. Recalculated(u) \in Trades /\ Kept(u, Recalculated(u))
    BY <2>2, RecalculatedKept
  <2> DEFINE w == Recalculated(u)
  <2>4. s.trade = w /\ s.order = NoOrder
    BY <2>1
  <2>5. w \in Trades /\ Kept(u, w)
    BY <2>3
  <2> HIDE DEF w
  <2>6. Kept(t, w)
    BY <2>2, <2>5, KeptTwice
  <2> QED
    BY <2>4, <2>5, <2>6, NothingType
<1>3. CASE s \in SoldIn(t, r)
  <2>1. CASE \E u \in {NoTrade} \cup UNION {ReducedAt(t, p) : p \in r.worst..r.best} :
               s = [trade |-> u, order |-> NoOrder]
    <3>1. PICK u \in {NoTrade} \cup UNION {ReducedAt(t, p) : p \in r.worst..r.best} :
               s = [trade |-> u, order |-> NoOrder]
      BY <2>1
    <3>2. CASE u = NoTrade
      BY <3>1, <3>2, NothingType
    <3>3. CASE u # NoTrade
      <4>1. PICK p \in r.worst..r.best : u \in ReducedAt(t, p)
        <5>1. u \in UNION {ReducedAt(t, p) : p \in r.worst..r.best}
          BY <3>3
        <5> QED
          BY <5>1, Zenon
      <4>2. p \in Int
        BY CandleType
      <4>3. u \in Trades /\ Kept(t, u)
        BY <4>1, <4>2, ReducedProps
      <4> QED
        BY <3>1, <4>3, NothingType
    <3> QED
      BY <3>2, <3>3
  <2>2. CASE \E b \in BOOLEAN : s = [trade |-> t, order |-> [price |-> r.best + 1, part |-> b]]
    <3>1. r.best + 1 \in Int
      BY CandleType
    <3> QED
      BY <2>2, <3>1, KeptSame DEF Orders
  <2> QED
    BY <1>3, <2>1, <2>2 DEF SoldIn
<1> QED
  BY <1>1, <1>2, <1>3 DEF AdjustedIn

---------------------------------------------------------------------------
(* The prices of the exits.                                                *)

LEMMA Quotient == \A a \in Nat, b \in Nat \ {0} : a \div b \in Nat
  OBVIOUS

LEMMA StopPriceProps ==
    ASSUME conf \in Strategies, NEW t \in Trades, NEW r \in Candles, NEW stop \in Int,
           NEW why, stop >= r.worst
    PROVE  /\ StopPrice(t, r, stop, why) \in Int
           /\ r.worst <= StopPrice(t, r, stop, why)
           /\ StopPrice(t, r, stop, why) <= r.best
              \/ (why = "trailing" /\ t.dur = 0 /\ OffsetRule)
           /\ StopPrice(t, r, stop, why) <= stop \/ (why = "trailing" /\ t.dur = 0)
<1>1. t.dist \div conf.leverage \in Nat /\ conf.positive \div conf.leverage \in Nat
  BY Quotient, ConfType DEF Trades
<1> DEFINE e == EntryRowStop(t, r)
<1>2. e \in Int /\ (~OffsetRule => e <= r.best)
  BY <1>1, CandleType, ConfType DEF EntryRowStop
<1> HIDE DEF e
<1>3. StopPrice(t, r, stop, why) =
        IF stop > r.best THEN r.open
        ELSE IF why = "trailing" /\ t.dur = 0 THEN Larger(r.worst, e) ELSE stop
  BY DEF StopPrice, e
<1>4. Larger(r.worst, e) \in {r.worst, e} /\ Larger(r.worst, e) >= r.worst
  BY <1>2, CandleType DEF Larger
<1> QED
  BY <1>2, <1>3, <1>4, CandleType

LEMMA RoiPriceProps ==
    ASSUME conf \in Strategies, NEW t \in Trades, NEW r \in Candles, NEW p \in RoiPrices(t, r)
    PROVE  p \in Int /\ r.worst <= p /\ p <= r.best
<1>1. PICK d \in RoiKey(t.dur) : p = RoiPrice(t, r, d)
  BY DEF RoiPrices
<1>2. conf.roi[d] \in Int
  BY ConfType DEF RoiKey
<1> DEFINE rate == RoiRate(t, conf.roi[d])
<1>3. rate \in Int
  BY <1>2, Ticks DEF RoiRate, Trades
<1> HIDE DEF rate
<1>4. p \in {r.open, Smaller(Larger(rate, r.worst), r.best)}
  BY <1>1 DEF RoiPrice, rate
<1> QED
  BY <1>3, <1>4, CandleType DEF Smaller, Larger

\* What the reasons that are listed for a row have in common.
LEMMA ListedProps ==
    ASSUME conf \in Strategies, NEW t \in Trades, NEW r \in Candles, NEW asked \in Int,
           NEW e \in Listed(t, r, asked)
    PROVE  /\ e.why \in Reasons \ {"none"} /\ e.price \in Int
           /\ e.why # "signal" =>
                /\ r.worst <= e.price
                /\ e.price <= r.best \/ (e.why = "trailing" /\ t.dur = 0 /\ OffsetRule)
           /\ e.why \in {"stop", "trailing"} =>
                e.price <= t.stop \/ (e.why = "trailing" /\ t.dur = 0)
<1>1. CASE e = [why |-> "signal", price |-> Larger(asked, r.worst)]
  BY <1>1, CandleType DEF Larger, Reasons
<1>2. CASE \E w \in StopHit(t, r) :
             e = [why |-> w, price |-> StopPrice(t, r, IF w = "liquidation" THEN t.liq ELSE t.stop, w)]
  <2>1. PICK w \in StopHit(t, r) :
             e = [why |-> w, price |-> StopPrice(t, r, IF w = "liquidation" THEN t.liq ELSE t.stop, w)]
    BY <1>2
  <2>2. t.stop \in Int
    BY DEF Trades
  <2>3. CASE w = "liquidation"
    <3>1. t.liq \in Int /\ t.liq >= r.worst
      BY <2>3, CandleType DEF StopHit, Trades
    <3>2. e.why = "liquidation" /\ e.price = StopPrice(t, r, t.liq, "liquidation")
      BY <2>1, <2>3
    <3> QED
      BY <3>1, <3>2, StopPriceProps DEF Reasons
  <2>4. CASE w # "liquidation"
    <3>1. w \in {"stop", "trailing"} /\ t.stop >= r.worst
      BY <2>4 DEF StopHit
    <3>2. e.why = w /\ e.price = StopPrice(t, r, t.stop, w)
      BY <2>1, <2>4
    <3> QED
      BY <2>2, <3>1, <3>2, StopPriceProps DEF Reasons
  <2> QED
    BY <2>3, <2>4
<1>3. CASE \E p \in RoiPrices(t, r) : e = [why |-> "roi", price |-> p]
  BY <1>3, RoiPriceProps DEF Reasons
<1> QED
  BY <1>1, <1>2, <1>3 DEF Listed

---------------------------------------------------------------------------
(* One row.                                                                *)

\* Everything a row leaves behind follows from the trade it began with, and from the last
\* exit that was placed.
Left(t) ==
    /\ pending' \in Orders
    /\ trade' = NoTrade \/ (trade' \in Trades /\ Kept(t, trade'))
    /\ out' \in Outs
    /\ LowFirst' /\ InRow'

LEMMA ChosenListed == \A L, w : Choices(L, w) \subseteq L
  BY DEF Choices, Placeable

LEMMA NoOutFine == ASSUME out' = NoOut PROVE LowFirst' /\ InRow' /\ out' \in Outs
  BY NothingType DEF LowFirst, InRow, NoOut

\* The stop that a row moves.
LEMMA RowMoves ==
    ASSUME conf \in Strategies, NEW t \in Trades, NEW r \in Candles, NEW dist \in Answers
    PROVE  LET m == Adjusted(t, r.worst, r.best, dist, FALSE)
           IN  /\ m \in Trades /\ Kept(t, m)
               /\ t.stop >= r.worst => m = t
<1> DEFINE m == Adjusted(t, r.worst, r.best, dist, FALSE)
<1>1. m \in Trades /\ Alike(t, m) /\ m.stop >= t.stop /\ (t.stop >= r.worst => m = t)
  BY CandleType, AdjustedProps
<1> HIDE DEF m
<1>2. Kept(t, m)
  BY <1>1, AlikeKept
<1> QED
  BY <1>1, <1>2 DEF m

LEMMA NoneLeaves ==
    ASSUME conf \in Strategies, out = NoOut, NEW t \in Trades, NEW r \in Candles,
           NEW waiting \in Orders, NoneFor(t, r, waiting)
    PROVE  Left(t)
<1> DEFINE m(dist) == Adjusted(t, r.worst, r.best, dist, FALSE)
<1>1. PICK dist \in Answers :
        /\ \/ trade' = m(dist) /\ pending' = waiting
           \/ /\ pending' = NoOrder /\ waiting.price # NoPrice
              /\ trade' = NoTrade \/ trade' \in ReducedAt(m(dist), waiting.price)
           \/ trade' = m(dist) /\ pending' = NoOrder
        /\ out' = NoOut
  BY DEF NoneFor
<1>2. m(dist) \in Trades /\ Kept(t, m(dist))
  BY RowMoves
<1>3. LowFirst' /\ InRow' /\ out' \in Outs
  BY <1>1, NoOutFine
<1>4. pending' \in Orders
  BY <1>1, NothingType
<1> DEFINE u == m(dist)
<1>5. u \in Trades /\ Kept(t, u)
  BY <1>2
<1>6. \/ trade' = u
      \/ trade' = NoTrade
      \/ waiting.price # NoPrice /\ trade' \in ReducedAt(u, waiting.price)
  BY <1>1
<1> HIDE DEF u, m
<1>7. trade' = NoTrade \/ (trade' \in Trades /\ Kept(t, trade'))
  <2>1. CASE waiting.price # NoPrice /\ trade' \in ReducedAt(u, waiting.price)
    <3>1. waiting.price \in Int
      BY <2>1 DEF Orders
    <3>2. trade' \in Trades /\ Kept(u, trade')
      BY <1>5, <2>1, <3>1, ReducedProps
    <3> QED
      BY <1>5, <3>2, KeptTwice
  <2> QED
    BY <1>5, <1>6, <2>1
<1> QED
  BY <1>3, <1>4, <1>7 DEF Left

LEMMA ExitLeaves ==
    ASSUME conf \in Strategies, conf' = conf, NEW t \in Trades, NEW r \in Candles,
           NEW waiting \in Orders, ExitFor(t, r, waiting)
    PROVE  Left(t)
<1>1. PICK dist \in Answers, asked \in {r.open, r.best + 1} :
        \E e \in Choices(Listed(Adjusted(t, r.worst, r.best, dist, FALSE), r, asked), waiting) :
           /\ trade' = Adjusted(t, r.worst, r.best, dist, FALSE)
           /\ pending' = [price |-> e.price, part |-> FALSE]
           /\ out' = [why |-> e.why, price |-> e.price, stop |-> t.stop,
                      worst |-> r.worst, best |-> r.best, dur |-> t.dur]
  BY DEF ExitFor
<1> DEFINE m == Adjusted(t, r.worst, r.best, dist, FALSE)
<1>2. PICK e \in Listed(m, r, asked) :
           /\ trade' = m /\ pending' = [price |-> e.price, part |-> FALSE]
           /\ out' = [why |-> e.why, price |-> e.price, stop |-> t.stop,
                      worst |-> r.worst, best |-> r.best, dur |-> t.dur]
  BY <1>1, ChosenListed
<1>3. m \in Trades /\ Kept(t, m) /\ (t.stop >= r.worst => m = t)
  BY RowMoves
<1> HIDE DEF m
<1>4. asked \in Int
  BY CandleType
<1>5. /\ e.why \in Reasons \ {"none"} /\ e.price \in Int
      /\ e.why # "signal" =>
           /\ r.worst <= e.price
           /\ e.price <= r.best \/ (e.why = "trailing" /\ m.dur = 0 /\ OffsetRule)
      /\ e.why \in {"stop", "trailing"} =>
           e.price <= m.stop \/ (e.why = "trailing" /\ m.dur = 0)
  BY <1>3, <1>4, ListedProps
<1>6. m.dur = t.dur /\ t.stop \in Int /\ t.dur \in Nat
  BY <1>3 DEF Kept, Trades
<1>7. out' \in Outs
  BY <1>2, <1>5, <1>6, CandleType DEF Outs
<1>8. LowFirst'
  BY <1>2, <1>3, <1>5, <1>6 DEF LowFirst
<1>9. OffsetRule' = OffsetRule
  BY DEF OffsetRule
<1>10. InRow'
  BY <1>2, <1>5, <1>6, <1>9 DEF InRow
<1>11. pending' \in Orders
  BY <1>2, <1>5 DEF Orders
<1> QED
  BY <1>2, <1>3, <1>7, <1>8, <1>10, <1>11 DEF Left

LEMMA LeftTwice ==
    ASSUME NEW t \in Trades, NEW u \in Trades, Kept(t, u), Left(u)
    PROVE  Left(t)
  BY KeptTwice DEF Left

LEMMA RowLeaves ==
    ASSUME TypeOK, NEW t \in Trades, NEW r \in Candles, NEW waiting \in Orders,
           Row(t, r, waiting)
    PROVE  Left(t)
<1>1. conf \in Strategies /\ conf' = conf /\ out = NoOut
  BY DEF TypeOK, Row
<1>2. PICK s \in AdjustedIn(t, r, waiting) :
          \/ SoldOut(s.trade)
          \/ s.trade.on /\ (NoneFor(s.trade, r, s.order) \/ ExitFor(s.trade, r, s.order))
  BY DEF Row
<1>3. /\ s.trade = NoTrade \/ (s.trade \in Trades /\ Kept(t, s.trade))
      /\ s.order \in Orders
  BY <1>1, AdjustedInProps
<1>4. CASE SoldOut(s.trade)
  <2>1. trade' = NoTrade /\ pending' = NoOrder /\ out' = NoOut
    BY <1>1, <1>4 DEF SoldOut
  <2> QED
    BY <2>1, NoOutFine, NothingType DEF Left
<1>5. CASE s.trade.on /\ (NoneFor(s.trade, r, s.order) \/ ExitFor(s.trade, r, s.order))
  <2>1. s.trade \in Trades /\ Kept(t, s.trade)
    BY <1>3, <1>5, NothingType
  <2>2. Left(s.trade)
    BY <1>1, <1>3, <1>5, <2>1, NoneLeaves, ExitLeaves
  <2> QED
    BY <2>1, <2>2, LeftTwice
<1> QED
  BY <1>2, <1>4, <1>5

---------------------------------------------------------------------------
(* The specification.                                                      *)

IInv == TypeOK /\ LowFirst /\ InRow

\* The trade an entry row begins with.
LEMMA EntryTrade ==
    ASSUME TypeOK, EntryRow
    PROVE  \E t \in Trades, r \in Candles : Row(t, r, NoOrder)
<1>1. conf \in Strategies
  BY DEF TypeOK
<1>2. PICK r \in Candles, dist \in Answers, dur \in 0..1, liq \in {NoPrice, Low} :
           \E p \in r.worst..r.best : Row(Opened(p, dur, liq, dist), r, NoOrder)
  BY DEF EntryRow
<1>3. PICK p \in r.worst..r.best : Row(Opened(p, dur, liq, dist), r, NoOrder)
  BY <1>2
<1>4. Opened(p, dur, liq, dist) \in Trades
  BY <1>1, CandleType, OpenedProps
<1> QED
  BY <1>3, <1>4

\* The trade a later row begins with, which is the trade but for its age.
Older == [trade EXCEPT !.dur = @ + 1]

LEMMA OlderProps ==
    ASSUME TypeOK
    PROVE  Older \in Trades /\ Older.stop = trade.stop /\ Older.fills = trade.fills
  BY DEF Trades, TypeOK, Older

LEMMA NextTrade ==
    ASSUME TypeOK, NextRow \/ AddRow
    PROVE  \E t \in Trades, r \in Candles, waiting \in Orders :
              Row(t, r, waiting) /\ Kept(Older, t)
<1>1. conf \in Strategies /\ Older \in Trades /\ pending \in Orders /\ NoOrder \in Orders
  BY OlderProps, NothingType DEF TypeOK
<1>2. CASE NextRow
  <2>1. PICK r \in Candles, waiting \in {pending, NoOrder} : Row(Older, r, waiting)
    BY <1>2 DEF NextRow, Older
  <2> QED
    BY <1>1, <2>1, KeptSame
<1>3. CASE AddRow
  <2>1. PICK r \in Candles : \E t \in AddedIn(Older, r) : Row(t, r, NoOrder)
    BY <1>3 DEF AddRow, Older
  <2>2. PICK t \in AddedIn(Older, r) : Row(t, r, NoOrder)
    BY <2>1
  <2>3. t \in Trades /\ Kept(Older, t)
    BY <1>1, AddedProps
  <2> QED
    BY <1>1, <2>2, <2>3
<1> QED
  BY <1>2, <1>3

LEMMA LeftFine ==
    ASSUME TypeOK, NEW t \in Trades, NEW r \in Candles, NEW waiting \in Orders,
           Row(t, r, waiting)
    PROVE  IInv'
<1>1. Left(t)
  BY RowLeaves
<1>2. conf' \in Strategies
  BY DEF Row, TypeOK
<1>3. trade' \in Trades
  BY <1>1, NothingType DEF Left
<1> QED
  BY <1>1, <1>2, <1>3 DEF Left, IInv, TypeOK

LEMMA Initially == Init => IInv
<1> SUFFICES ASSUME Init PROVE IInv
  OBVIOUS
<1>1. TypeOK
  BY NothingType DEF Init, TypeOK
<1>2. LowFirst /\ InRow
  BY DEF Init, LowFirst, InRow, NoOut
<1> QED
  BY <1>1, <1>2 DEF IInv

LEMMA Stepwise == IInv /\ [Next]_vars => IInv'
<1> SUFFICES ASSUME IInv, [Next]_vars PROVE IInv'
  OBVIOUS
<1>0. TypeOK
  BY DEF IInv
<1>1. CASE EntryRow
  BY <1>0, <1>1, EntryTrade, LeftFine, NothingType
<1>2. CASE NextRow \/ AddRow
  BY <1>0, <1>2, NextTrade, LeftFine
<1>4. CASE Book
  <2>1. /\ out' = NoOut /\ conf' = conf
        /\ trade' \in {NoTrade, trade} /\ pending' \in {NoOrder, pending}
    BY <1>4 DEF Book
  <2>2. TypeOK'
    BY <1>0, <2>1, NothingType DEF TypeOK
  <2> QED
    BY <2>1, <2>2, NoOutFine DEF IInv
<1>5. CASE Forget
  <2>1. /\ out' = out /\ conf' = conf /\ out = NoOut
        /\ trade' = NoTrade /\ pending' = NoOrder
    BY <1>5 DEF Forget
  <2>2. TypeOK'
    BY <1>0, <2>1, NothingType DEF TypeOK
  <2> QED
    BY <2>1, <2>2, NoOutFine DEF IInv
<1>6. CASE UNCHANGED vars
  BY <1>6 DEF vars, IInv, TypeOK, LowFirst, InRow, OffsetRule
<1> QED
  BY <1>1, <1>2, <1>4, <1>5, <1>6 DEF Next

\* The inductive invariant: types, and what the last exit order says of its price.
THEOREM Invariant == Spec => []IInv
  BY Initially, Stepwise, PTL DEF Spec

\* Stops, prices and orders have their types, for every strategy.
THEOREM TypeCorrect == Spec => []TypeOK
  BY Invariant, PTL DEF IInv

\* A stop that the row reached before moving it is served at the stop or worse.
THEOREM StopsFirst == Spec => []LowFirst
  BY Invariant, PTL DEF IInv

\* Exits by stop, liquidation and ROI are priced within their row, but for the entry rule.
THEOREM PricedInRow == Spec => []InRow
  BY Invariant, PTL DEF IInv

LEMMA RatchetStep ==
    IInv /\ [Next]_vars =>
        [trade.on /\ trade'.on /\ trade'.stop < trade.stop
         => trade'.fills > trade.fills /\ conf.afterFill /\ conf.custom # {}]_vars
<1> SUFFICES ASSUME IInv, Next, trade.on, trade'.on, trade'.stop < trade.stop
             PROVE  trade'.fills > trade.fills /\ conf.afterFill /\ conf.custom # {}
  BY DEF vars
<1>0. TypeOK /\ trade \in Trades /\ trade.stop \in Int /\ trade.fills \in Nat
  BY DEF IInv, TypeOK, Trades
<1>1. NoTrade.on = FALSE
  BY NothingType
<1>2. CASE EntryRow
  BY <1>2 DEF EntryRow
<1>3. CASE NextRow \/ AddRow
  <2>1. PICK t \in Trades, r \in Candles, waiting \in Orders :
           Row(t, r, waiting) /\ Kept(Older, t)
    BY <1>0, <1>3, NextTrade
  <2>2. trade' \in Trades /\ Kept(t, trade')
    BY <1>0, <1>1, <2>1, RowLeaves DEF Left
  <2>3. Kept(Older, trade')
    BY <1>0, <2>1, <2>2, OlderProps, KeptTwice
  <2>4. trade'.stop \in Int
    BY <2>2 DEF Trades
  <2> QED
    BY <1>0, <2>3, <2>4, OlderProps DEF Kept
<1>5. CASE Book
  <2>1. trade' \in {NoTrade, trade}
    BY <1>5 DEF Book
  <2> QED
    BY <1>0, <1>1, <2>1
<1>6. CASE Forget
  BY <1>1, <1>6 DEF Forget
<1> QED
  BY <1>2, <1>3, <1>5, <1>6 DEF Next

\* The stop of a trade only walks in its direction, but for the adjustment after another
\* entry or a partial exit, in a strategy that asks for it.
THEOREM OnlyWalksUp == Spec => Ratchet
  BY Invariant, RatchetStep, PTL DEF Spec, Ratchet
==============================================================================
