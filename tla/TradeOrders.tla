----------------------------- MODULE TradeOrders -----------------------------
(***************************************************************************)
(* One trade, its order rows, and its orders on the exchange.              *)
(*                                                                         *)
(* Every handler runs under _exit_lock, so there is one at a time; but the *)
(* exchange fills and cancels orders between any two calls of a handler.   *)
(* A step of this module is one exchange call together with everything the *)
(* handler does with the answer until its next call.                       *)
(*                                                                         *)
(* Amounts are whole units of the amount precision.  The trade is a        *)
(* futures position (no wallet clamp in _safe_exit_amount); stop-losses on *)
(* the exchange and iceberg slicing are switched off in the configuration. *)
(***************************************************************************)
EXTENDS Integers, FiniteSets

CONSTANTS
    MaxOrders,      \* orders the exchange accepts for this trade in a run (bound)
    EntrySize,      \* amount of the first entry
    AddSize,        \* amount of a position adjustment entry
    MaxTimeouts,    \* config["unfilledtimeout"]["exit_timeout_count"]
    AdjustPrice,    \* the strategy implements adjust_order_price
    PosAdjust,      \* strategy.position_adjustment_enable
    Trims,          \* the strategy also asks for partial exits
    Ioc,            \* order_time_in_force may be IOC or FOK
    Reload          \* users send /reload_trade

ASSUME OrdersAssumption ==
    /\ MaxOrders \in Nat \ {0} /\ EntrySize \in Nat \ {0} /\ AddSize \in Nat \ {0}
    /\ MaxTimeouts \in Nat
    /\ {AdjustPrice, PosAdjust, Trims, Ioc, Reload} \subseteq BOOLEAN

VARIABLES
    exch,   \* the orders as the exchange has them, in placement order
    rows,   \* the orders table: what the bot last recorded of each order
    trade,  \* the trade row
    task    \* the handler in progress and its local variables

vars == <<exch, rows, trade, task>>

Oids == 1..MaxOrders
Sides == {"entry", "exit"}
Sizes == 0..(EntrySize + MaxOrders * AddSize)
Reasons == {"none", "timeout", "user", "drop", "replace", "reenter", "reexit",
            "exit", "trim", "add", "force"}

NoOrder == [side |-> "entry", status |-> "none", amount |-> 0, filled |-> 0]
Idle == [step |-> "idle", todo |-> {}, why |-> "none", size |-> 0, gone |-> FALSE]

Ended(o) == o.status \in {"closed", "canceled"}    \* NON_OPEN_EXCHANGE_STATES

\* Mutant: a cancelled order counts as empty whatever it filled.
EmptyIfCancelled(o) == o.status = "canceled"

Empty(o) == Ended(o) /\ o.filled = 0               \* check_order_canceled_empty

---------------------------------------------------------------------------
(* The trade object over a given orders table.                             *)

OpenRows(R) == {o \in Oids : R[o].status = "open"}
FilledEntries(R) == {o \in Oids : R[o].side = "entry" /\ Ended(R[o]) /\ R[o].filled > 0}
CanceledExits(R) == {o \in Oids : R[o].side = "exit" /\ R[o].status = "canceled"}

Signed(o) == IF o.side = "entry" THEN o.filled ELSE -o.filled

\* The sum over the orders, in a table or on the exchange, that pass the test.
Net(R, S) ==
    LET sum[n \in 0..MaxOrders] ==
            IF n = 0 THEN 0 ELSE sum[n - 1] + (IF n \in S THEN Signed(R[n]) ELSE 0)
    IN  sum[MaxOrders]

\* Mutant: exits are added to the amount.
RecalculatedUnsigned(R) ==
    LET done(side) == {o \in Oids : Ended(R[o]) /\ R[o].side = side}
    IN  Net(R, done("entry")) - Net(R, done("exit"))

\* current_amount in recalc_trade_from_orders: orders still open do not count.
Recalculated(R) == Net(R, {o \in Oids : Ended(R[o])})

\* What the bot holds on the exchange.
Position == Net(exch, Oids)

Recalc(t, R) == IF Recalculated(R) > 0 THEN [t EXCEPT !.amount = Recalculated(R)] ELSE t

\* update_trade for row o, which is up to date in R.
Book(t, R, o, recalculating) ==
    IF R[o].side = "entry" THEN Recalc([t EXCEPT !.amount = R[o].filled], R)
    ELSE IF \/ R[o].filled = t.amount
            \/ ~recalculating /\ R[o].filled > t.amount
            THEN Recalc([t EXCEPT !.status = IF @ = "open" THEN "closed" ELSE @], R)
            ELSE Recalc(t, R)

\* Mutant: update_order runs after the check for an empty order.
RecordedUnlessEmpty(R, o, a) == IF Empty(a) THEN R ELSE [R EXCEPT ![o] = a]

\* update_trade_state for order o when the exchange answers with order a.
Recorded(R, o, a) == [R EXCEPT ![o] = a]
Settled(t, R, o, a, recalculating) ==
    IF Empty(a) \/ a.status = "open" THEN t ELSE Book(t, Recorded(R, o, a), o, recalculating)

NoRows == [o \in Oids |-> NoOrder]

Record(o, a) ==
    /\ rows' = Recorded(rows, o, a)
    /\ trade' = Settled(trade, rows, o, a, FALSE)

DeleteTrade ==
    /\ rows' = NoRows
    /\ trade' = [trade EXCEPT !.status = "deleted"]

UntouchedTrade == UNCHANGED <<rows, trade>>

---------------------------------------------------------------------------
(* The exchange.                                                           *)

Fill(o) ==
    /\ exch[o].status = "open"
    /\ exch[o].side = "exit" => Position > 0
    /\ exch' = [exch EXCEPT ![o].filled = @ + 1,
                            ![o].status = IF exch[o].filled + 1 = exch[o].amount
                                             THEN "closed" ELSE @]
    /\ UNCHANGED <<rows, trade, task>>

\* Someone or something else cancels the order: the user, the exchange.
CancelledOnExchange(o) ==
    /\ exch[o].status = "open"
    /\ exch' = [exch EXCEPT ![o].status = "canceled"]
    /\ UNCHANGED <<rows, trade, task>>

\* What create_order may answer: a resting order, one filled at once, or with
\* IOC and FOK one that expired with less than its full amount.
Accepted(side, n) ==
    LET order(s, f) == [side |-> side, status |-> s, amount |-> n, filled |-> f]
        most == IF side = "exit" /\ Position < n THEN Position ELSE n
    IN  {order("open", 0)} \cup {order("closed", f) : f \in {most} \cap {n}}
            \cup {order("canceled", f) : f \in IF Ioc THEN (0..most) \ {n} ELSE {}}

NextId == Cardinality({o \in Oids : exch[o].status # "none"}) + 1

---------------------------------------------------------------------------
(* Tasks.                                                                  *)

Init ==
    /\ exch = NoRows
    /\ rows = NoRows
    /\ trade = [status |-> "none", amount |-> 0]
    /\ task = Idle

First(S) == CHOOSE o \in S : \A p \in S : o <= p

\* The next round of a loop over the listed orders, or the end of the handler.
Loop == IF Cardinality(task.todo) = 1 THEN Idle
        ELSE [task EXCEPT !.todo = @ \ {First(@)}]

\* replace_order_failed.
ReplaceFailed == IF FilledEntries(rows) = {} THEN DeleteTrade ELSE UntouchedTrade

\* execute_trade_exit and execute_entry cancel while replacing; otherwise a trade
\* that never held anything goes with its order.
Replacing == task.why \notin {"timeout", "user", "drop", "force"}

\* Mutant: what the cancelled order itself filled is not looked at.
EntryEndedBlindly(o, a) ==
    IF OpenRows(rows) \subseteq {o} /\ FilledEntries(rows) = {} /\ ~Replacing
       THEN DeleteTrade
       ELSE Record(o, a)

\* handle_cancel_enter once the order has ended, as answered in a.
EntryEnded(o, a) ==
    IF a.filled = 0 /\ OpenRows(rows) \subseteq {o} /\ FilledEntries(rows) = {} /\ ~Replacing
       THEN DeleteTrade
       ELSE Record(o, a)

\* manage_open_orders lists the open rows of the trade.
Manage ==
    /\ task = Idle /\ trade.status = "open"
    /\ OpenRows(rows) # {}
    /\ task' = [Idle EXCEPT !.step = "manage", !.todo = OpenRows(rows), !.why = "timeout"]
    /\ UNCHANGED <<exch, rows, trade>>

\* The body of its loop up to the cancel request.  The order has ended, is left
\* alone, times out, is dropped (adjust_order_price gives None) or moved.
ManageFetch ==
    /\ task.step = "manage"
    /\ LET o == First(task.todo)
           a == exch[o]
       IN  \/ /\ Empty(a)
              /\ IF a.side = "entry" THEN EntryEnded(o, a) ELSE Record(o, a)
              /\ task' = Loop
           \/ ~Empty(a) /\ Record(o, a) /\ task' = Loop
           \/ /\ a.status = "open"
              /\ \E why \in {"timeout"} \cup (IF AdjustPrice THEN {"drop", "replace"} ELSE {}) :
                    \/ Record(o, a) /\ task' = [task EXCEPT !.step = "cancel", !.why = why]
                    \/ /\ a.filled > 0                           \* unexitable
                       /\ IF why = "timeout" \/ FilledEntries(rows) # {}
                             THEN Record(o, a) ELSE DeleteTrade
                       /\ task' = Loop
           \/ UntouchedTrade /\ task' = Loop                     \* ExchangeError
    /\ UNCHANGED exch

\* A handler that first clears the open orders of the trade: execute_trade_exit
\* and execute_entry when they want another order, force exit, cancel order.
Clear(why, n) ==
    /\ task = Idle /\ trade.status = "open"
    /\ task' = [Idle EXCEPT !.step = "clear", !.todo = OpenRows(rows),
                            !.why = why, !.size = n]
    /\ UNCHANGED <<exch, rows, trade>>

\* The amount is taken from the trade before its orders are cleared.
ExitTrade == trade.amount > 0 /\ Clear("exit", trade.amount)

AdjustTrade ==
    /\ PosAdjust
    /\ trade.amount > 0 \/ OpenRows(rows) # {}
    /\ \/ Clear("add", AddSize)
       \/ Trims /\ \E n \in 1..trade.amount : Clear("trim", n)

ForceExit == Clear("force", 0)
CancelOpenOrder == OpenRows(rows) # {} /\ Clear("user", 0)

ClearFetch ==
    /\ task.step = "clear" /\ task.todo # {}
    /\ LET o == First(task.todo)
           a == exch[o]
           rest == [task EXCEPT !.todo = @ \ {o}]
       IN  \/ /\ Ended(a)
              /\ IF a.side = "entry" THEN EntryEnded(o, a) ELSE Record(o, a)
              /\ task' = [rest EXCEPT !.gone = @ \/ (a.side = "entry" /\ a.filled = 0)]
           \/ a.status = "open" /\ UntouchedTrade /\ task' = [task EXCEPT !.step = "cancel"]
           \/ /\ a.status = "open" /\ a.filled > 0              \* unexitable
              /\ UntouchedTrade /\ task' = rest
           \/ /\ UntouchedTrade                                  \* ExchangeError
              /\ task' = IF Replacing THEN rest ELSE Idle
    /\ UNCHANGED exch

---------------------------------------------------------------------------
(* handle_cancel_order, from the cancel request on.                        *)

Remaining(a) == IF a.amount > a.filled THEN a.amount - a.filled ELSE trade'.amount

\* The exit that follows: it clears the open orders that are left once more.
ThenExit(why, n) == [Idle EXCEPT !.step = "clear", !.todo = OpenRows(rows'),
                                 !.why = why, !.size = n]

\* Where the handler goes on after the orders of its loop but this one.
GoOn(gone) ==
    task' = IF task.why \in {"timeout", "drop", "replace"} THEN Loop
            ELSE [task EXCEPT !.step = "clear", !.todo = @ \ {First(@)}, !.gone = @ \/ gone]

\* Mutant: any refused cancel is treated as a failed replacement.
KeepEntryNever == ReplaceFailed /\ GoOn(FALSE)

\* The exchange refused and the order is still open.
KeepEntry ==
    /\ IF task.why \in {"drop", "replace"} THEN ReplaceFailed ELSE UntouchedTrade
    /\ GoOn(FALSE)

\* The entry has ended.  A partial fill counts as not cancelled for the caller.
CancelEntry(o, a) ==
    /\ EntryEnded(o, a)
    /\ IF task.why = "replace" /\ a.filled = 0
          THEN task' = ThenExit("reenter", a.amount)
          ELSE GoOn(a.filled = 0)

\* handle_cancel_exit reports success even when the exchange kept the order.
CancelExit(o, a) ==
    /\ Record(o, a)
    /\ \/ task.why = "replace" /\ task' = ThenExit("reexit", Remaining(a))
       \/ /\ ~Replacing /\ task.why # "force"
          /\ MaxTimeouts > 0 /\ Cardinality(CanceledExits(rows')) >= MaxTimeouts
          /\ task' = ThenExit("exit", Remaining(a))             \* emergency_exit
       \/ /\ task.why # "replace"
          /\ Replacing \/ task.why = "force"
                \/ MaxTimeouts = 0 \/ Cardinality(CanceledExits(rows')) < MaxTimeouts
          /\ GoOn(FALSE)

CancelRequest ==
    /\ task.step = "cancel"
    /\ LET o == First(task.todo)
           a == exch'[o]
       IN  /\ \/ UNCHANGED exch
              \/ exch[o].status = "open" /\ exch' = [exch EXCEPT ![o].status = "canceled"]
           /\ \/ a.side = "entry" /\ Ended(a) /\ CancelEntry(o, a)
              \/ a.side = "entry" /\ a.status = "open" /\ KeepEntry
              \/ a.side = "exit" /\ CancelExit(o, a)
              \/ task' = Idle /\ UntouchedTrade                  \* the answer is lost

---------------------------------------------------------------------------
(* Placing an order once the trade has no open one.                        *)

Cleared == task.step = "clear" /\ task.todo = {}

\* A cancellation was refused, or the handler wanted no new order.
GiveUp ==
    /\ Cleared
    /\ OpenRows(rows) # {} \/ task.why = "user" \/ (task.why = "force" /\ task.gone)
    /\ IF task.why \in {"reenter", "reexit"} THEN ReplaceFailed ELSE UntouchedTrade
    /\ task' = Idle
    /\ UNCHANGED exch

\* Mutant: handle_similar_open_order returns False once it has tried to cancel.
MayPlaceAnyway == Cleared /\ task.why # "user" /\ ~(task.why = "force" /\ task.gone)

MayPlace == Cleared /\ OpenRows(rows) = {} /\ task.why # "user" /\ ~(task.why = "force" /\ task.gone)

\* The exchange or the strategy refuses the new order.
Refused ==
    /\ MayPlace
    /\ IF task.why \in {"reenter", "reexit"} THEN ReplaceFailed ELSE UntouchedTrade
    /\ task' = Idle
    /\ UNCHANGED exch

Placed(a) == NextId \in Oids /\ exch' = [exch EXCEPT ![NextId] = a]

\* The rest of execute_entry: the row is recorded and the trade is open.
EntryPlaced(a) ==
    LET opened == [trade EXCEPT !.status = "open"]
    IN  /\ rows' = Recorded(rows, NextId, a)
        /\ trade' = Settled(Recalc(opened, rows), rows, NextId, a, FALSE)

EnterTrade ==
    /\ task = Idle /\ trade.status = "none"
    /\ \E a \in Accepted("entry", EntrySize) :
          Placed(a) /\ IF Empty(a) THEN UntouchedTrade ELSE EntryPlaced(a)
    /\ UNCHANGED task

\* An order that expires unfilled is not recorded and fails a replacement; one
\* that is cancelled at once is recorded, and except in a replacement it takes a
\* trade that never held anything with it.
PlaceEntry ==
    /\ MayPlace /\ task.why \in {"add", "reenter"}
    /\ \E a \in Accepted("entry", task.size) :
          /\ Placed(a)
          /\ \/ /\ ~Empty(a) \/ task.why = "reenter" \/ FilledEntries(rows) # {}
                /\ EntryPlaced(a)
             \/ Empty(a) /\ task.why = "add" /\ FilledEntries(rows) = {} /\ DeleteTrade
             \/ Empty(a) /\ IF task.why = "reenter" THEN ReplaceFailed ELSE UntouchedTrade
    /\ task' = Idle

\* execute_trade_exit books an answer that is "closed" or "expired", not one that
\* is "canceled" with a part filled.
PlaceExit ==
    /\ MayPlace /\ task.why \in {"exit", "trim", "force", "reexit"}
    /\ Position > 0
    /\ \E a \in Accepted("exit", IF task.why = "force" THEN trade.amount ELSE task.size) :
          /\ Placed(a)
          /\ rows' = Recorded(rows, NextId, a)
          /\ \/ trade' = Settled(trade, rows, NextId, a, FALSE)
             \/ a.status = "canceled" /\ UNCHANGED trade
    /\ task' = Idle

---------------------------------------------------------------------------
(* Recovery.                                                               *)

\* handle_onexchange_order walks the orders as the exchange lists them.
Walked ==
    LET walk[n \in 0..MaxOrders] ==
            IF n = 0 THEN [rows |-> rows, trade |-> trade]
            ELSE LET was == walk[n - 1]
                 IN  IF exch[n].status = "none" THEN was
                     ELSE [rows  |-> Recorded(was.rows, n, exch[n]),
                           trade |-> Settled(was.trade, was.rows, n, exch[n], TRUE)]
    IN  walk[MaxOrders]

Unfilled(R) == \A o \in Oids : R[o].status # "none" => R[o].side = "entry" /\ Empty(R[o])

HandleOnExchangeOrder ==
    /\ IF /\ Walked.trade.status = "open" /\ Unfilled(Walked.rows)
          /\ Position < Walked.trade.amount \/ (Position = 0 /\ Walked.trade.amount = 0)
          THEN DeleteTrade
          ELSE rows' = Walked.rows /\ trade' = Walked.trade
    /\ UNCHANGED <<exch, task>>

\* exit_positions: the trade has no open order and the entry fee of a filled
\* entry, and the wallet has no position or less than the trade's amount.
RecoverTrade ==
    /\ task = Idle /\ trade.status = "open"
    /\ OpenRows(rows) = {} /\ FilledEntries(rows) # {}
    /\ Position = 0 \/ Position < trade.amount
    /\ HandleOnExchangeOrder

\* /reload_trade
ReloadTrade ==
    /\ Reload
    /\ task = Idle /\ trade.status \in {"open", "closed"}
    /\ HandleOnExchangeOrder

\* The process dies between two exchange calls; startup_update_open_orders then
\* fetches every order whose row is open.
Restart ==
    /\ task' = IF OpenRows(rows) = {} THEN Idle
               ELSE [Idle EXCEPT !.step = "startup", !.todo = OpenRows(rows)]
    /\ UNCHANGED <<exch, rows, trade>>

StartupFetch ==
    /\ task.step = "startup"
    /\ Record(First(task.todo), exch[First(task.todo)]) \/ UntouchedTrade
    /\ task' = Loop
    /\ UNCHANGED exch

---------------------------------------------------------------------------
Handlers ==
    \/ Manage \/ ManageFetch \/ EnterTrade \/ ExitTrade \/ AdjustTrade \/ ForceExit
    \/ CancelOpenOrder \/ ClearFetch \/ CancelRequest \/ GiveUp
    \/ Refused \/ PlaceEntry \/ PlaceExit \/ RecoverTrade \/ ReloadTrade \/ StartupFetch

Exchange == \E o \in Oids : Fill(o) \/ CancelledOnExchange(o)

Next == Handlers \/ Exchange \/ Restart

Spec == Init /\ [][Next]_vars

\* A handler goes on to its end, the running worker comes back to the open
\* orders of the trade, and not every request to the exchange fails.
Continue ==
    \/ ManageFetch \/ ClearFetch \/ CancelRequest \/ GiveUp \/ Refused
    \/ PlaceEntry \/ PlaceExit \/ StartupFetch

ManageReads(o) ==
    ManageFetch /\ o = First(task.todo) /\ (rows'[o] = exch[o] \/ trade'.status = "deleted")

FairSpec ==
    /\ Spec /\ WF_vars(Continue) /\ SF_vars(Manage)
    /\ \A o \in Oids : SF_vars(ManageReads(o))

---------------------------------------------------------------------------
(* Correctness.                                                            *)

OrderRows == [side : Sides, status : {"none", "open", "closed", "canceled"},
              amount : Sizes, filled : Sizes]

\* Types; no order fills beyond its amount, and the tables hold what was accepted.
TypeOK ==
    /\ exch \in [Oids -> OrderRows] /\ rows \in [Oids -> OrderRows]
    /\ \A o \in Oids : exch[o].filled <= exch[o].amount
    /\ trade \in [status : {"none", "open", "closed", "deleted"}, amount : Sizes]
    /\ task \in [step : {"idle", "manage", "cancel", "clear", "startup"},
                 todo : SUBSET Oids, why : Reasons, size : Sizes, gone : BOOLEAN]

Live == {o \in Oids : exch[o].status = "open"}

\* The trade never has two live orders: an entry and an exit, or an exit and its
\* replacement, that fill together would trade the position twice.  Every
\* handler clears the open orders first and gives up when a cancel is refused.
OneLiveOrder == Cardinality(Live) <= 1

\* A live order has a row in a trade that is open: manage_open_orders only looks
\* there.  A refused cancel is "handled in the next iteration", says
\* handle_cancel_enter.
NoAbandonedOrder == \A o \in Live : rows[o].status = "open" /\ trade.status = "open"

\* A trade whose row is closed or deleted holds nothing on the exchange and has
\* no order there that could still fill.
GoneIsFlat ==
    task = Idle /\ trade.status \in {"closed", "deleted"} => Position = 0 /\ Live = {}

\* A trade that is open has an open order or something to exit: nothing looks
\* after one that has neither, and it keeps its slot for ever.  Of an order that
\* ended unfilled update_trade_state says that handle_cancel_order handles it.
NoGhost ==
    task = Idle /\ trade.status = "open" /\ OpenRows(rows) = {} => trade.amount > 0

\* Once no row is open the amount of the trade is the position it holds: every
\* fill of every order, cancelled ones included, has been booked once.
LedgerExact ==
    task = Idle /\ trade.status = "open" /\ OpenRows(rows) = {} /\ Position > 0
        => trade.amount = Position

\* has_open_position is "True if there is an open position for this trade": a
\* trade without open orders that has an amount has a position.  An additional entry
\* that re-opens a trade breaks it; without position adjustment it holds.
HeldMeansHeld ==
    task = Idle /\ trade.status = "open" /\ OpenRows(rows) = {} /\ trade.amount > 0
        => Position > 0

\* "When recalculating a trade, only coming out to 0 can force a close": walking
\* the orders again closes a trade only when the orders sum up to nothing.  Only
\* /reload_trade, and the exits that IOC and FOK leave unbooked, break it.
OnlyZeroCloses ==
    [][RecoverTrade \/ ReloadTrade =>
          (trade.status = "open" /\ trade'.status = "closed" => Recalculated(rows') = 0)]_vars

\* An order that has ended on the exchange is settled in its row in the end,
\* whatever restarts, refused cancels and failing requests come in between,
\* unless its trade is closed or deleted first: /reload_trade may close a trade
\* over an open exit, and manage_open_orders lists the orders of open trades only.
EndedIsSettled ==
    \A o \in Oids : rows[o].status = "open" /\ Ended(exch[o])
                      ~> rows[o].status # "open" \/ trade.status # "open"
=============================================================================
