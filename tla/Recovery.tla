------------------------------ MODULE Recovery ------------------------------
(***************************************************************************)
(* Which trade an order belongs to.                                        *)
(*                                                                         *)
(* Successive trades of one (pair, direction) share one position on the    *)
(* exchange.  The answer to an order can be lost, the process can die      *)
(* between two commits, and a trade can be deleted with an order alive; so *)
(* orders exist that no row names.  handle_onexchange_order looks for them *)
(* when the position is smaller than the trade, in the orders of the pair  *)
(* since ten seconds before the trade was opened.                          *)
(*                                                                         *)
(* A step is one exchange call with the commits that follow it, or with    *)
(* some of them when the process dies.  Entries are for one unit, an exit  *)
(* is for the amount of the trade.                                         *)
(***************************************************************************)
EXTENDS Integers, FiniteSets, FiniteSetsExt

CONSTANTS
    MaxOrders,  \* orders the exchange accepts in a run (bound)
    MaxTrades,  \* trades opened in a run (bound)
    MaxTime,    \* ticks of the clock in a run (bound)
    MaxLost,    \* lost orders and deaths of the process in a run (bound)
    Window      \* ticks that handle_onexchange_order looks back from open_date

ASSUME RecoveryAssumption ==
    /\ MaxOrders \in Nat \ {0} /\ MaxTrades \in Nat \ {0}
    /\ MaxTime \in Nat /\ MaxLost \in Nat /\ Window \in Nat

VARIABLES
    now,    \* the clock
    exch,   \* the orders of the pair and direction on the exchange
    rows,   \* the orders table, with the trade each row belongs to
    trades, \* the trades table
    boot,   \* open rows that startup_update_open_orders has still to fetch
    lost    \* what was lost so far: orders without a row, deaths in a handler

vars == <<now, exch, rows, trades, boot, lost>>

Oids == 1..MaxOrders
Tids == 1..MaxTrades
Times == 0..MaxTime
Nobody == 0                                   \* the owner of a row that is not there

\* at: when it last traded, or was placed.  for: the trade whose handler placed it.
NoOrder == [side |-> "none", status |-> "none", amount |-> 0, filled |-> 0,
            placed |-> 0, at |-> 0, for |-> Nobody]
NoRow == [owner |-> Nobody, status |-> "none", filled |-> 0]
NoTrade == [status |-> "none", amount |-> 0, opened |-> 0, fee |-> FALSE]

Ended(a) == a.status \in {"closed", "canceled"}
Empty(a) == Ended(a) /\ a.filled = 0

Rows(R, t) == {o \in Oids : R[o].owner = t}
OpenRows(R, t) == {o \in Rows(R, t) : R[o].status = "open"}
FilledEntries(R, t) ==
    {o \in Rows(R, t) : exch[o].side = "entry" /\ Ended(R[o]) /\ R[o].filled > 0}
OpenTrades == {t \in Tids : trades[t].status = "open"}

\* What the orders of S, in the state R has them in, add up to.
Total(R, S) ==
    LET sum[n \in 0..MaxOrders] ==
            IF n = 0 THEN 0
            ELSE sum[n - 1] + (IF n \notin S THEN 0
                               ELSE IF exch[n].side = "entry" THEN R[n].filled
                               ELSE -R[n].filled)
    IN  sum[MaxOrders]

Position == Total(exch, Oids)

\* The sum of the ended orders of a trade, as in recalc_trade_from_orders.
Booked(R, t) == Total(R, {o \in Rows(R, t) : Ended(R[o])})

---------------------------------------------------------------------------
(* The exchange and the clock.                                             *)

Tick == now < MaxTime /\ now' = now + 1 /\ UNCHANGED <<exch, rows, trades, boot, lost>>

\* A reduce-only exit fills at most the position.
Fill(o) ==
    /\ exch[o].status = "open"
    /\ exch[o].side = "exit" => Position >= exch[o].amount
    /\ exch' = [exch EXCEPT ![o].status = "closed", ![o].filled = exch[o].amount,
                            ![o].at = now]
    /\ UNCHANGED <<now, rows, trades, boot, lost>>

\* The exchange, the user or the time-out of the bot cancels an order.
Cancel(o) ==
    /\ exch[o].status = "open"
    /\ exch' = [exch EXCEPT ![o].status = "canceled"]
    /\ UNCHANGED <<now, rows, trades, boot, lost>>

NextId == Cardinality({o \in Oids : exch[o].status # "none"}) + 1
NextTrade == Cardinality({t \in Tids : trades[t].status # "none"}) + 1

Placed(side, n, t) ==
    /\ NextId \in Oids
    /\ exch' = [exch EXCEPT ![NextId] =
                   [side |-> side, status |-> "open", amount |-> n, filled |-> 0,
                    placed |-> now, at |-> now, for |-> t]]

Lose == lost < MaxLost /\ lost' = lost + 1

\* The process dies; the next one fetches the rows that are open then.
Dies == Lose /\ boot' = {o \in Oids : rows'[o].status = "open"}
Lives == UNCHANGED <<boot, lost>>

---------------------------------------------------------------------------
(* update_trade_state.                                                     *)

Recalc(x, R, t) == IF Booked(R, t) > 0 THEN [x EXCEPT !.amount = Booked(R, t)] ELSE x

\* update_trade of trade record x for row o.
Book(x, R, o, recalculating) ==
    LET t == R[o].owner
    IN  IF exch[o].side = "entry" THEN Recalc([x EXCEPT !.amount = R[o].filled], R, t)
        ELSE IF \/ R[o].filled = x.amount
                \/ ~recalculating /\ R[o].filled > x.amount
        THEN Recalc([x EXCEPT !.status = IF @ = "open" THEN "closed" ELSE @], R, t)
        ELSE Recalc(x, R, t)

Recorded(R, o) == [R EXCEPT ![o].status = exch[o].status, ![o].filled = exch[o].filled]

\* handle_order_fee comes before the booking, and both are committed together; the
\* fee of an additional entry is reset, for update_trades_without_assigned_fees.
FeeKnown(x, R, o, recalculating) ==
    IF exch[o].side = "exit" THEN x.fee
    ELSE recalculating \/ Cardinality(FilledEntries(R, R[o].owner)) <= 1

Settled(x, R, o, recalculating) ==
    IF exch[o].status = "open" \/ Empty(exch[o]) THEN x
    ELSE Book([x EXCEPT !.fee = FeeKnown(x, R, o, recalculating)], R, o, recalculating)

\* update_orders commits the row, update_trade commits the booking: the process
\* may die between the two.
Update(o, recalculating) ==
    LET t == rows[o].owner
    IN  /\ rows' = Recorded(rows, o)
        /\ \/ /\ trades' = [trades EXCEPT ![t] = Settled(@, Recorded(rows, o), o, recalculating)]
              /\ boot' = boot \ {o} /\ UNCHANGED lost
           \/ UNCHANGED trades /\ Dies

Drop(t) ==
    /\ rows' = [o \in Oids |-> IF rows[o].owner = t THEN NoRow ELSE rows[o]]
    /\ trades' = [trades EXCEPT ![t].status = "deleted"]

---------------------------------------------------------------------------
(* Handlers.                                                               *)

Running == boot = {}

\* execute_entry of a new trade, or of an open one that is adjusted: the trade and
\* its row are committed once the order is accepted.
Enter ==
    /\ Running
    /\ \E t \in IF OpenTrades = {} THEN {NextTrade} \cap Tids
                ELSE {u \in OpenTrades : trades[u].amount > 0 /\ OpenRows(rows, u) = {}} :
          LET o == NextId
          IN  /\ Placed("entry", 1, t)
              /\ \/ /\ trades' = [trades EXCEPT ![t] =
                                     IF t \in OpenTrades THEN @
                                     ELSE [NoTrade EXCEPT !.status = "open", !.opened = now]]
                    /\ rows' = [rows EXCEPT ![o] = [NoRow EXCEPT !.owner = t, !.status = "open"]]
                    /\ Lives
                 \/ Lose /\ UNCHANGED <<rows, trades, boot>>
    /\ UNCHANGED now

\* execute_trade_exit
Exit(t) ==
    /\ Running /\ t \in OpenTrades /\ trades[t].amount > 0 /\ OpenRows(rows, t) = {}
    /\ Position > 0
    /\ LET o == NextId
       IN  /\ Placed("exit", IF trades[t].amount < Position THEN trades[t].amount ELSE Position, t)
           /\ \/ /\ rows' = [rows EXCEPT ![o] = [NoRow EXCEPT !.owner = t, !.status = "open"]]
                 /\ Lives
              \/ Lose /\ UNCHANGED <<rows, boot>>
    /\ UNCHANGED <<now, trades>>

\* manage_open_orders: a first entry that ended unfilled takes the trade with it.
Manage(o) ==
    /\ Running /\ rows[o].status = "open" /\ rows[o].owner \in OpenTrades
    /\ LET t == rows[o].owner
       IN  IF /\ exch[o].side = "entry" /\ Empty(exch[o])
              /\ FilledEntries(rows, t) = {} /\ OpenRows(rows, t) = {o}
           THEN Drop(t) /\ Lives
           ELSE Update(o, FALSE)
    /\ UNCHANGED <<now, exch>>

\* startup_update_open_orders: every open row, those of closed trades included.
Startup(o) ==
    /\ o \in boot
    /\ Update(o, FALSE) \/ (UNCHANGED <<rows, trades, lost>> /\ boot' = boot \ {o})
    /\ UNCHANGED <<now, exch>>

\* update_trades_without_assigned_fees books a filled entry again whose fee, and
\* with it the booking, is missing.
FindFee(t) ==
    /\ Running /\ t \in OpenTrades /\ ~trades[t].fee
    /\ FilledEntries(rows, t) # {}
    /\ {o \in OpenRows(rows, t) : exch[o].side = "entry"} = {}
    /\ Update(Max(FilledEntries(rows, t)), TRUE)
    /\ UNCHANGED <<now, exch>>

\* Mutant: only the exits are cancelled.
LiveExits(t) == {o \in OpenRows(rows, t) : exch[o].status = "open" /\ exch[o].side = "exit"}

LiveRows(t) == {o \in OpenRows(rows, t) : exch[o].status = "open"}

\* _rpc_delete, for an open or a closed trade: a cancel that fails is ignored.
Delete(t) ==
    /\ Running /\ trades[t].status \in {"open", "closed"}
    /\ \/ /\ exch' = [o \in Oids |-> IF o \in LiveRows(t)
                                     THEN [exch[o] EXCEPT !.status = "canceled"] ELSE exch[o]]
          /\ UNCHANGED lost
       \/ LiveRows(t) # {} /\ Lose /\ UNCHANGED exch
    /\ Drop(t)
    /\ UNCHANGED <<now, boot>>

---------------------------------------------------------------------------
(* handle_onexchange_order.                                                *)

\* The orders fetch_orders returns for the trade.
Listed(t) == {o \in Oids : exch[o].status # "none" /\ exch[o].placed >= trades[t].opened - Window}

EntryDates(R, t) == {exch[o].placed : o \in {p \in Rows(R, t) : exch[p].side = "entry"}}

\* Mutant: no order is too old.
CutoffAtWindow(R, t) == trades[t].opened - Window

\* An order the trade does not know must not be older than its first entry.
Cutoff(R, t) ==
    IF EntryDates(R, t) = {} THEN trades[t].opened - 1 ELSE Min(EntryDates(R, t))

\* Mutant: a row of another trade is moved to this one.
FreeAlways(R, o) == TRUE

\* Order.order_by_id: the row of an order never changes its trade.
Free(R, o) == R[o].owner = Nobody

Adopted(R, t, o) ==
    IF R[o].owner = t THEN Recorded(R, o)
    ELSE IF exch[o].at < Cutoff(R, t) \/ ~Free(R, o) THEN R
    ELSE [R EXCEPT ![o] = [owner |-> t, status |-> exch[o].status, filled |-> exch[o].filled]]

\* The tables after the first n orders of the list.
Walked(t, n) ==
    LET R[k \in 0..MaxOrders] ==
            IF k = 0 THEN rows ELSE IF k \in Listed(t) THEN Adopted(R[k - 1], t, k) ELSE R[k - 1]
        x[k \in 0..MaxOrders] ==
            IF k = 0 THEN trades[t]
            ELSE IF k \in Listed(t) /\ R[k][k].owner = t THEN Settled(x[k - 1], R[k], k, TRUE)
            ELSE x[k - 1]
    IN  [rows |-> R[n], trade |-> x[n]]

Walk(t) ==
    LET w == Walked(t, MaxOrders)
    IN  /\ Lives
        /\ IF /\ w.trade.status = "open"
              /\ Position < w.trade.amount \/ (Position = 0 /\ w.trade.amount = 0)
              /\ \A o \in Rows(w.rows, t) : exch[o].side = "entry" /\ Empty(w.rows[o])
           THEN Drop(t)
           ELSE rows' = w.rows /\ trades' = [trades EXCEPT ![t] = w.trade]

\* It commits after every row and every booking, and may die or fail in between: rows are
\* recorded up to order n, and booked up to it or to the order before.
WalkDies(t) ==
    \E n \in 1..MaxOrders : \E m \in (n - 1)..n :
        /\ rows' = Walked(t, n).rows
        /\ trades' = [trades EXCEPT ![t] = Walked(t, m).trade]
        /\ Dies

\* Mutant: a position that is gone altogether is not looked for.
ShortUnlessGone(t) ==
    /\ t \in OpenTrades /\ trades[t].fee /\ OpenRows(rows, t) = {}
    /\ Position > 0 /\ Position < trades[t].amount

\* exit_positions, when the wallet has less than the trade.
Short(t) ==
    /\ t \in OpenTrades /\ trades[t].fee /\ OpenRows(rows, t) = {}
    /\ Position = 0 \/ Position < trades[t].amount

Recover(t) == Running /\ Short(t) /\ Walk(t) /\ UNCHANGED <<now, exch>>

\* /reload_trade asks for the same at any time.
Reload(t) ==
    /\ Running /\ trades[t].status \in {"open", "closed"}
    /\ Walk(t) \/ WalkDies(t)
    /\ UNCHANGED <<now, exch>>

---------------------------------------------------------------------------
Init ==
    /\ now = 0
    /\ exch = [o \in Oids |-> NoOrder]
    /\ rows = [o \in Oids |-> NoRow]
    /\ trades = [t \in Tids |-> NoTrade]
    /\ boot = {}
    /\ lost = 0

Next ==
    \/ Tick \/ Enter
    \/ \E o \in Oids : Fill(o) \/ Cancel(o) \/ Manage(o) \/ Startup(o)
    \/ \E t \in Tids : Exit(t) \/ FindFee(t) \/ Delete(t) \/ Recover(t) \/ Reload(t)

Spec == Init /\ [][Next]_vars

\* The worker comes back to every open row, missing fee and short trade, and every
\* open order times out (unfilledtimeout).
FairSpec ==
    /\ Spec
    /\ \A o \in Oids : WF_vars(Startup(o)) /\ WF_vars(Cancel(o)) /\ SF_vars(Manage(o))
    /\ \A t \in Tids : SF_vars(FindFee(t)) /\ SF_vars(Recover(t))

---------------------------------------------------------------------------
(* Correctness.                                                            *)

\* Types: an order has one owner at most, and amounts never fall below 0.
TypeOK ==
    /\ now \in Times /\ lost \in 0..MaxLost /\ boot \subseteq Oids
    /\ exch \in [Oids -> [side : {"none", "entry", "exit"},
                          status : {"none", "open", "closed", "canceled"},
                          amount : 0..MaxOrders, filled : 0..MaxOrders,
                          placed : Times, at : Times, for : Tids \cup {Nobody}]]
    /\ rows \in [Oids -> [owner : Tids \cup {Nobody},
                          status : {"none", "open", "closed", "canceled"},
                          filled : 0..MaxOrders]]
    /\ trades \in [Tids -> [status : {"none", "open", "closed", "deleted"},
                            amount : 0..MaxOrders, opened : Times, fee : BOOLEAN]]

\* "Order ownership is immutable": the row of an order stays with its trade until
\* the trade is deleted.
OwnershipImmutable ==
    [][\A o \in Oids : rows[o].owner # Nobody =>
          \/ rows'[o].owner = rows[o].owner
          \/ rows'[o].owner = Nobody /\ trades'[rows[o].owner].status = "deleted"]_vars

Foreign(o) == rows[o].owner \notin {Nobody, exch[o].for}

\* A trade takes an order that was placed for another trade only if no row named
\* that order, and it traded no earlier than another entry of this one.
NoStrangers ==
    \A o \in Oids :
        Foreign(o) =>
            /\ trades[exch[o].for].status \in {"none", "deleted"} \/ lost > 0
            /\ \E p \in Rows(rows, rows[o].owner) \ {o} :
                  exch[p].side = "entry" /\ exch[o].at >= exch[p].placed

\* "it cannot predate the current trade's first entry order": an order that was
\* placed for another trade traded no earlier than the first entry placed for this
\* one.
NotBeforeFirstEntry ==
    \A o \in Oids :
        Foreign(o) =>
            \E p \in Rows(rows, rows[o].owner) :
                /\ exch[p].side = "entry" /\ ~Foreign(p)
                /\ exch[o].at >= exch[p].placed

\* Every live order that no open row names goes back to an answer or a cancel that
\* was lost.
OrphansCounted ==
    Cardinality({o \in Oids : exch[o].status = "open" /\ rows[o].status # "open"}) <= lost

\* The process can die between the commit of a row and its booking.  What that
\* leaves is booked in the end where the bot can notice it: an entry by the fee
\* that is missing, the exit of a trade with one entry by the wallet that is short.
BookedInTheEnd ==
    \A t \in Tids :
        /\ trades[t].status = "open"
        /\ \/ ~trades[t].fee /\ Booked(rows, t) > trades[t].amount
           \/ /\ Position < trades[t].amount /\ trades[t].amount # Booked(rows, t)
              /\ Cardinality(FilledEntries(rows, t)) = 1
        ~> \/ trades[t].status # "open"
           \/ trades[t].amount \in {Booked(rows, t), Position}

\* "only coming out to 0 can force a close" (trade_model.py): a trade whose ended
\* orders come out to 0 is closed when they are all booked again.
ZeroIsClosed ==
    \A t \in Tids :
        /\ trades[t].status = "open" /\ FilledEntries(rows, t) # {}
        /\ Booked(rows, t) = 0 /\ Position = 0
        ~> trades[t].status # "open" \/ Booked(rows, t) # 0
=============================================================================
