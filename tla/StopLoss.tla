------------------------------ MODULE StopLoss ------------------------------
(***************************************************************************)
(* The stop-loss that one trade keeps on the exchange.                     *)
(*                                                                         *)
(* TradeOrders has the entries and exits of a trade; here they are whole   *)
(* fills, and the subject is the stop: when exit_positions looks at it,    *)
(* creates, replaces and cancels it, while it fires or is cancelled on the *)
(* exchange between any two calls.  A step is one exchange call with all   *)
(* that the handler does up to the next one.                               *)
(*                                                                         *)
(* The trade is a long futures position with its first entry filled; exits *)
(* and stops are reduce-only.  An order that is appended to the trade is   *)
(* in the database only after the next commit, so a rollback or a crash    *)
(* can lose it.                                                            *)
(***************************************************************************)
EXTENDS Integers, FiniteSets

CONSTANTS
    MaxOrders,      \* orders the exchange accepts for this trade in a run (bound)
    Size, AddSize,  \* amounts of the first entry and of a position adjustment
    MaxStop,        \* highest level the stop price is raised to (bound)
    MaxFaults       \* faults in a run (bound)

ASSUME StopAssumption ==
    /\ MaxOrders \in Nat \ {0} /\ Size \in Nat \ {0} /\ AddSize \in Nat \ {0}
    /\ MaxStop \in Nat \ {0} /\ MaxFaults \in Nat

VARIABLES
    blocks, \* exchange option stoploss_blocks_assets, fixed for a run
    exch,   \* the orders as the exchange has them, in placement order
    rows,   \* the orders of the trade in the session
    trade,  \* the trade in the session
    saved,  \* rows and trade as of the last commit
    task,   \* the handler in progress and its local variables
    faults  \* how often an answer, a cancel or a row was lost, or a row booked twice

vars == <<blocks, exch, rows, trade, saved, task, faults>>

Oids == 1..MaxOrders
Amounts == 0..(Size + MaxOrders * AddSize)

NoOrder == [kind |-> "none", status |-> "none", amount |-> 0, filled |-> 0, stop |-> 0]

\* walk: rows still to be fetched.  todo, then: stops to be cancelled, and the
\* step that follows.  found, active: the stops fetched, and those still open.
\* size: amount of the exit, 0 for all of the trade.  up: the step after an exit.
Idle == [step |-> "idle", walk |-> {}, todo |-> {}, then |-> "idle",
         found |-> {}, active |-> {}, size |-> 0, up |-> "idle"]
At(step) == [Idle EXCEPT !.step = step]

Ended(a) == a.status \in {"closed", "canceled"}
Empty(a) == Ended(a) /\ a.filled = 0

OpenOrders(R) == {o \in Oids : R[o].status = "open" /\ R[o].kind # "stop"}
OpenStops(R) == {o \in Oids : R[o].status = "open" /\ R[o].kind = "stop"}

First(S) == CHOOSE o \in S : \A p \in S : o <= p
Last(S) == CHOOSE o \in S : \A p \in S : o >= p

Sum(R, S) ==
    LET sum[n \in 0..MaxOrders] ==
            IF n = 0 THEN 0
            ELSE sum[n - 1] + (IF n \notin S THEN 0
                               ELSE IF R[n].kind = "entry" THEN R[n].filled
                               ELSE -R[n].filled)
    IN  sum[MaxOrders]

Position == Sum(exch, Oids)
Live == {o \in Oids : exch[o].status = "open"}
LiveStops == {o \in Live : exch[o].kind = "stop"}

---------------------------------------------------------------------------
(* The exchange.                                                           *)

\* A reduce-only order takes at most the position; the part beyond it expires.
Executed(o) ==
    LET a == exch[o]
        f == IF a.kind # "entry" /\ Position < a.amount THEN Position ELSE a.amount
    IN  [a EXCEPT !.filled = f, !.status = IF f = a.amount THEN "closed" ELSE "canceled"]

Execute(o) ==
    /\ exch[o].status = "open"
    /\ exch[o].kind = "entry" \/ Position > 0
    /\ exch' = [exch EXCEPT ![o] = Executed(o)]
    /\ UNCHANGED <<blocks, rows, trade, saved, task, faults>>

\* The user or the exchange cancels the order.
CancelledOnExchange(o) ==
    /\ exch[o].status = "open"
    /\ exch' = [exch EXCEPT ![o].status = "canceled"]
    /\ UNCHANGED <<blocks, rows, trade, saved, task, faults>>

NextId == Cardinality({o \in Oids : exch[o].status # "none"}) + 1

Placed(a) == NextId \in Oids /\ exch' = [exch EXCEPT ![NextId] = a]

NewOrder(kind, n) ==
    [kind |-> kind, status |-> "open", amount |-> n, filled |-> 0, stop |-> 0]

---------------------------------------------------------------------------
(* Recording an answer.                                                    *)

Recalc(t, R) ==
    LET n == Sum(R, {o \in Oids : Ended(R[o])})
    IN  IF n > 0 THEN [t EXCEPT !.amount = n] ELSE t

\* update_trade for row o of R; a trade that closes leaves its open entries behind.
Book(t, R, o, recalculating) ==
    IF R[o].kind = "entry" THEN Recalc(t, R)
    ELSE IF R[o].filled = t.amount \/ (~recalculating /\ R[o].filled > t.amount)
         THEN Recalc([t EXCEPT !.open = FALSE,
                               !.left = IF t.open THEN {p \in OpenOrders(R) : R[p].kind = "entry"}
                                        ELSE @], R)
         ELSE Recalc(t, R)

\* Mutant: an order that was cancelled unfilled is not recorded.
RecordedUnlessEmpty(o, a) ==
    IF Empty(a) THEN rows ELSE [rows EXCEPT ![o] = [a EXCEPT !.kind = rows[o].kind]]

\* update_trade_state with answer a for row o; both update_orders and
\* update_trade commit the session.
Recorded(o, a) == [rows EXCEPT ![o] = [a EXCEPT !.kind = rows[o].kind]]
Booked(o, a) ==
    IF Empty(a) \/ a.status = "open" THEN trade ELSE Book(trade, Recorded(o, a), o, FALSE)

Commit == saved' = [rows |-> rows', trade |-> trade']

\* Mutant: a filled entry leaves the stop as it is.
OutdatedUnlessEntry(o, a) == IF Booked(o, a).open THEN {} ELSE OpenStops(Recorded(o, a))

\* Mutant: the stop of a trade that has closed is left alone.
OutdatedByEntry(o, a) ==
    IF ~(Empty(a) \/ a.status = "open") /\ rows[o].kind = "entry"
       THEN OpenStops(Recorded(o, a)) ELSE {}

\* _update_trade_after_fill: the stops to be cancelled, because an entry changed
\* the amount or the trade has closed.
Outdated(o, a) ==
    IF Empty(a) \/ a.status = "open" THEN {}
    ELSE IF rows[o].kind = "entry" \/ ~Booked(o, a).open THEN OpenStops(Recorded(o, a))
    ELSE {}

Cancelling(S, t) ==
    IF S = {} THEN t ELSE [t EXCEPT !.step = "cancel", !.todo = S, !.then = t.step]

\* The handler records answer a for row o, cancels what that outdates, goes on as t.
Update(o, a, t) ==
    /\ rows' = Recorded(o, a)
    /\ trade' = Booked(o, a)
    /\ Commit
    /\ task' = Cancelling(Outdated(o, a), t)

Fault == faults < MaxFaults /\ faults' = faults + 1

Untouched == UNCHANGED <<rows, trade, saved>>

---------------------------------------------------------------------------
(* cancel_stoploss_on_exchange, one stop after the other.                  *)

Cancelled == LET rest == [task EXCEPT !.todo = @ \ {First(@)}]
             IN  IF rest.todo = {} THEN [rest EXCEPT !.step = rest.then, !.then = "idle"]
                 ELSE rest

\* Where a request that fails for good leads: the caller that catches it.
Aborted ==
    CASE task.then = "place" -> At(task.up)
      [] task.then \in {"check", "create", "others"} -> At("others")
      [] OTHER -> [task EXCEPT !.step = task.then, !.todo = {}, !.then = "idle"]

\* The exchange no longer has the stop: an error that is logged, or its last state.
StopGone(o) ==
    /\ \/ Untouched /\ task' = Cancelled
       \/ /\ rows' = Recorded(o, exch[o]) /\ trade' = Booked(o, exch[o]) /\ Commit
          /\ LET more == Outdated(o, exch[o]) \ {o}
             IN  task' = IF more = {} THEN Cancelled
                         ELSE [task EXCEPT !.todo = more]
    /\ UNCHANGED faults

CancelStop ==
    /\ task.step = "cancel"
    /\ LET o == First(task.todo)
       IN  \/ /\ exch[o].status = "open"
              /\ exch' = [exch EXCEPT ![o].status = "canceled"]
              /\ Update(o, exch'[o], Cancelled)
              /\ UNCHANGED faults
           \/ Ended(exch[o]) /\ StopGone(o) /\ UNCHANGED exch
           \/ /\ \/ UNCHANGED exch                               \* TemporaryError
                 \/ exch[o].status = "open" /\ exch' = [exch EXCEPT ![o].status = "canceled"]
              /\ Untouched /\ Fault /\ task' = Aborted
    /\ UNCHANGED blocks

---------------------------------------------------------------------------
(* execute_trade_exit.                                                     *)

\* Stops that block the position are cancelled first; the amount is read after
\* that, and nobody asks whether the trade is still open.
StartExit(n, up) ==
    task' = Cancelling(IF blocks THEN OpenStops(rows) ELSE {},
                       [Idle EXCEPT !.step = "place", !.size = n, !.up = up])

\* handle_similar_open_order cancels what is open, or keeps a similar exit.
ClearOrder ==
    /\ task.step = "place" /\ OpenOrders(rows) # {}
    /\ \/ Untouched /\ task' = At(task.up) /\ UNCHANGED exch
       \/ \E o \in OpenOrders(rows) :
             /\ exch' = [exch EXCEPT ![o].status = IF @ = "open" THEN "canceled" ELSE @]
             /\ Update(o, exch'[o], task)
    /\ UNCHANGED <<blocks, faults>>

PlaceExit ==
    /\ task.step = "place" /\ OpenOrders(rows) = {}
    /\ Position > 0 /\ ~(blocks /\ Live # {})
    /\ LET n == IF task.size = 0 \/ task.size > trade.amount THEN trade.amount ELSE task.size
           f == IF n <= Position THEN n ELSE Position
           o == NextId
       IN  \E a \in {NewOrder("exit", n), [NewOrder("exit", n) EXCEPT
                        !.status = IF f = n THEN "closed" ELSE "canceled", !.filled = f]} :
             /\ Placed(a)
             /\ rows' = [rows EXCEPT ![o] = a]
             /\ trade' = IF Ended(a) THEN Book(trade, rows', o, FALSE) ELSE trade
             /\ Commit
             /\ task' = Cancelling(IF trade'.open THEN {} ELSE OpenStops(rows'), At(task.up))
    /\ UNCHANGED <<blocks, faults>>

\* InsufficientFundsError makes the bot fetch every open row again; confirm_trade_exit
\* and other errors end the handler.
ExitRefused ==
    /\ task.step = "place" /\ OpenOrders(rows) = {}
    /\ IF Position > 0 /\ ~(blocks /\ Live # {}) THEN task' = At(task.up)
       ELSE task' = [At("refind") EXCEPT !.walk = OpenStops(rows), !.up = task.up]
    /\ UNCHANGED <<blocks, exch, faults>> /\ Untouched

\* handle_insufficient_funds
Refind ==
    /\ task.step = "refind"
    /\ IF task.walk = {} THEN task' = At(task.up) /\ Untouched
       ELSE LET o == First(task.walk)
                rest == [task EXCEPT !.walk = @ \ {o}]
            IN  \/ rows[o].status = "open" /\ Update(o, exch[o], rest)
                \/ Untouched /\ task' = rest
    /\ UNCHANGED <<blocks, exch, faults>>

---------------------------------------------------------------------------
(* create_stoploss_order.                                                  *)

Created(n) == [NewOrder("stop", n) EXCEPT !.stop = trade.stop]

CreateStop ==
    /\ task.step = "create" /\ trade.open
    /\ Position > 0 /\ ~(blocks /\ Live # {})
    /\ Placed(Created(trade.amount))
    /\ \/ /\ rows' = [rows EXCEPT ![NextId] = Created(trade.amount)]   \* not committed yet
          /\ UNCHANGED faults
       \/ UNCHANGED rows /\ Fault                                \* the answer is lost
    /\ task' = At("trade")
    /\ UNCHANGED <<blocks, trade, saved>>

\* The trade has closed, there is nothing to protect or the stop would trigger
\* at once, the funds are not free, or any other ExchangeError.
CreateRefused ==
    /\ task.step = "create"
    /\ \/ task' = At("trade")
       \/ trade.open /\ StartExit(0, "trade")                    \* emergency_exit
       \/ /\ trade.open /\ (Position = 0 \/ (blocks /\ Live # {}))
          /\ task' = [At("refind") EXCEPT !.walk = OpenOrders(rows) \cup OpenStops(rows),
                                          !.up = "trade"]
    /\ UNCHANGED <<blocks, exch, faults>> /\ Untouched

---------------------------------------------------------------------------
(* exit_positions, for this trade.                                         *)

\* handle_onexchange_order takes the orders up to the n-th as the exchange has them;
\* one without a row becomes a row of its side, a stop among them an exit.
Walked(n) ==
    [o \in Oids |->
        IF o > n \/ exch[o].status = "none" THEN rows[o]
        ELSE [exch[o] EXCEPT !.kind = IF rows[o].kind = "none" /\ @ = "stop" THEN "exit"
                                      ELSE IF rows[o].kind = "none" THEN @
                                      ELSE rows[o].kind]]

\* It books each of them again.
Rebooked ==
    LET booked[n \in 0..MaxOrders] ==
            IF n = 0 THEN trade
            ELSE IF exch[n].status \in {"none", "open"} \/ Empty(exch[n]) THEN booked[n - 1]
            ELSE Book(booked[n - 1], Walked(n), n, TRUE)
    IN  booked[MaxOrders]

\* The wallet holds less than the trade: look for orders the rows miss.
Recover ==
    /\ OpenOrders(rows) = {} /\ OpenStops(rows) = {} /\ Position < trade.amount
    /\ rows' = Walked(MaxOrders) /\ trade' = Rebooked
    /\ Commit

Visit ==
    /\ task = Idle /\ trade.open
    /\ \/ Recover
       \/ /\ OpenOrders(rows) \cup OpenStops(rows) # {} \/ Position >= trade.amount
          /\ Untouched
    /\ task' = [At("check") EXCEPT !.walk = OpenStops(rows')]
    /\ UNCHANGED <<blocks, exch, faults>>

\* handle_stoploss_on_exchange fetches its open stops; one that is closed ends the
\* visit.
ReadStop(o) ==
    /\ task.step = "check" /\ task.walk # {} /\ o = First(task.walk)
    /\ Update(o, exch[o],
              IF exch[o].status = "closed" THEN At("others")
              ELSE [task EXCEPT !.walk = @ \ {o}, !.found = @ \cup {o},
                                !.active = IF exch[o].status = "open" THEN @ \cup {o} ELSE @])
    /\ UNCHANGED <<blocks, exch, faults>>

\* A stop the exchange cannot find is left out; any other error ends the visit.
CheckFails ==
    /\ task.step = "check" /\ task.walk # {}
    /\ \/ task' = [task EXCEPT !.walk = @ \ {First(@)}] /\ Fault
       \/ task' = At("others") /\ UNCHANGED faults
    /\ UNCHANGED <<blocks, exch>> /\ Untouched

\* Mutant: any open order keeps the stop away, also where stops block nothing.
MayProtectAlone == trade.open /\ trade.amount > 0 /\ OpenOrders(rows) = {}

MayProtect == trade.open /\ trade.amount > 0 /\ ~(OpenOrders(rows) # {} /\ blocks)

\* There is no open stop, or every one was cancelled by someone else.
Missing == task.found = {} \/ task.active = {}

\* Mutant: the new stop is created before the old one is cancelled.
ReplaceAtOnce == At("create")

\* handle_trailing_stoploss_on_exchange
Replace == Cancelling(OpenStops(rows), At("create"))

\* The decision once all stops are fetched; a trailing stop is only moved when the
\* update interval has passed.
Protect ==
    /\ task.step = "check" /\ task.walk = {}
    /\ \/ (~MayProtect \/ ~Missing) /\ task' = At("trade")
       \/ MayProtect /\ Missing /\ task' = At("create")
       \/ /\ MayProtect /\ ~Missing
          /\ trade.stop > rows[Last(task.active)].stop
          /\ task' = Replace
    /\ UNCHANGED <<blocks, exch, faults>> /\ Untouched

\* handle_trade: should_exit may raise the stop, and may decide to exit.
HandleTrade ==
    /\ task.step = "trade"
    /\ IF trade.open /\ trade.amount > 0
       THEN /\ \E s \in {trade.stop, trade.stop + 1} \cap 1..MaxStop :
                  trade' = [trade EXCEPT !.stop = s]
            /\ task' = At("others") \/ StartExit(0, "others")
       ELSE UNCHANGED trade /\ task' = At("others")
    /\ UNCHANGED <<blocks, exch, rows, saved, faults>>

\* The other trades of the loop.  A recovery that fails for one of them rolls the
\* session back; the commit of process ends the section.
EndVisit ==
    /\ task.step = "others"
    /\ \/ UNCHANGED <<rows, trade, faults>> /\ Commit
       \/ /\ saved.rows # rows /\ Fault
          /\ rows' = saved.rows /\ trade' = saved.trade /\ UNCHANGED saved
    /\ task' = Idle
    /\ UNCHANGED <<blocks, exch>>

---------------------------------------------------------------------------
(* The other handlers of the trade.                                        *)

\* manage_open_orders: an order that is open may time out.
Manage(o) ==
    /\ task = Idle /\ trade.open
    /\ o \in OpenOrders(rows)
    /\ \/ UNCHANGED exch
       \/ exch[o].status = "open" /\ exch' = [exch EXCEPT ![o].status = "canceled"]
    /\ Update(o, exch'[o], Idle)
    /\ UNCHANGED <<blocks, faults>>

\* A position adjustment buys more; the stop stays until the order has filled.
AddEntry ==
    /\ task = Idle /\ trade.open /\ trade.amount > 0
    /\ OpenOrders(rows) = {}
    /\ LET o == NextId
       IN  \E a \in {NewOrder("entry", AddSize), [NewOrder("entry", AddSize) EXCEPT
                        !.status = "closed", !.filled = AddSize]} :
             /\ Placed(a)
             /\ rows' = [rows EXCEPT ![o] = a]
             /\ trade' = IF Ended(a) THEN Book(trade, rows', o, FALSE) ELSE trade
             /\ Commit
             /\ task' = Cancelling(IF Ended(a) THEN OpenStops(rows') ELSE {}, Idle)
    /\ UNCHANGED <<blocks, faults>>

\* A force exit, or a position adjustment that sells a part.
ExitOrTrim ==
    /\ task = Idle /\ trade.open /\ trade.amount > 0
    /\ \E n \in {0, 1} : StartExit(n, "idle")
    /\ UNCHANGED <<blocks, exch, rows, trade, saved, faults>>

\* The process dies and startup_update_open_orders fetches every open row, those
\* of closed trades included.
Restart ==
    /\ rows' = saved.rows /\ trade' = saved.trade
    /\ IF saved.rows = rows /\ task.step # "cancel" THEN UNCHANGED faults ELSE Fault
    /\ task' = [At("start") EXCEPT !.walk = OpenOrders(rows') \cup OpenStops(rows')]
    /\ UNCHANGED <<blocks, exch, saved>>

\* A row whose order the exchange cannot find is taken as cancelled.  The list is
\* read once: a stop that was booked on the way, by a cancel, is booked again.
Startup ==
    /\ task.step = "start"
    /\ IF task.walk = {} THEN task' = Idle /\ Untouched /\ UNCHANGED faults
       ELSE LET o == First(task.walk)
                rest == [task EXCEPT !.walk = @ \ {o}]
            IN  \/ /\ Update(o, exch[o], rest)
                   /\ IF rows[o].status = "open" THEN UNCHANGED faults ELSE Fault
                \/ Update(o, [rows[o] EXCEPT !.status = "canceled"], rest) /\ Fault
                \/ Untouched /\ task' = rest /\ UNCHANGED faults
    /\ UNCHANGED <<blocks, exch>>

---------------------------------------------------------------------------
Init ==
    /\ blocks \in BOOLEAN
    /\ exch = [o \in Oids |-> IF o # 1 THEN NoOrder
                              ELSE [NewOrder("entry", Size) EXCEPT
                                       !.status = "closed", !.filled = Size]]
    /\ rows = exch
    /\ trade = [open |-> TRUE, amount |-> Size, stop |-> 1, left |-> {}]
    /\ saved = [rows |-> rows, trade |-> trade]
    /\ task = Idle
    /\ faults = 0

Handlers ==
    \/ CancelStop \/ ClearOrder \/ PlaceExit \/ ExitRefused \/ Refind
    \/ CreateStop \/ CreateRefused \/ CheckFails \/ Protect \/ HandleTrade
    \/ EndVisit \/ Startup \/ \E o \in Oids : ReadStop(o)

Next ==
    \/ Handlers \/ Visit \/ AddEntry \/ ExitOrTrim \/ Restart
    \/ \E o \in Oids : Manage(o) \/ Execute(o) \/ CancelledOnExchange(o)

Spec == Init /\ [][Next]_vars

ManageReads == UNCHANGED exch /\ \E o \in Oids : Manage(o)

\* The worker goes on with a handler and comes back to the trade in every loop;
\* not every request fails, and the process does not die for ever.
FairSpec ==
    /\ Spec /\ WF_vars(Handlers) /\ SF_vars(Visit) /\ SF_vars(CreateStop)
    /\ SF_vars(ManageReads) /\ \A o \in Oids \ {1} : SF_vars(ReadStop(o))
    /\ <>[][~Restart]_vars

---------------------------------------------------------------------------
(* Correctness.                                                            *)

Orders == [kind : {"none", "entry", "exit", "stop"},
           status : {"none", "open", "closed", "canceled"},
           amount : Amounts, filled : Amounts, stop : 0..MaxStop]
Steps == {"idle", "check", "cancel", "create", "trade", "place", "refind", "others", "start"}
Trades == [open : BOOLEAN, amount : Amounts, stop : 1..MaxStop, left : SUBSET Oids]

\* Types: what a row and an order on the exchange can be, and which steps there are.
TypeOK ==
    /\ blocks \in BOOLEAN /\ faults \in 0..MaxFaults
    /\ exch \in [Oids -> Orders] /\ rows \in [Oids -> Orders]
    /\ trade \in Trades
    /\ saved \in [rows : [Oids -> Orders], trade : Trades]
    /\ task \in [step : Steps, walk : SUBSET Oids, todo : SUBSET Oids, then : Steps,
                 found : SUBSET Oids, active : SUBSET Oids, size : {0, 1}, up : Steps]

\* The exchange never holds more stops of the trade than one, plus one for every
\* fault (an answer, a cancel or an uncommitted row that was lost): a second stop
\* would sell the position twice.
StopsAccounted == Cardinality(LiveStops) <= faults + 1

\* The stop on the exchange is for all of the position: it is cancelled when an
\* entry has filled, and created again for the new amount.
Covers ==
    faults = 0 /\ task = Idle /\ trade.open =>
        \A o \in LiveStops : exch[o].amount >= trade.amount

\* A closed trade keeps no stop on the exchange, and holds nothing but what the
\* entry orders that were open when it closed have bought since.
ClosedIsFlat ==
    faults = 0 /\ task = Idle /\ ~trade.open =>
        /\ LiveStops = {}
        /\ Position <= Sum(exch, trade.left)

\* A stop that has fired or was cancelled on the exchange is noticed while the
\* trade is open.
StopIsNoticed ==
    \A o \in Oids :
        trade.open /\ o \in OpenStops(rows) /\ Ended(exch[o])
            ~> o \notin OpenStops(rows) \/ ~trade.open

\* "If stoploss_on_exchange is enabled and the stoploss is cancelled manually on the
\* exchange, then the bot will create a new stoploss order" (docs/stoploss.md): an
\* open position gets a stop again, unless its trade closes, another order of its
\* takes the assets, or the run has used up its orders.
Protected ==
    trade.open /\ Position > 0 /\ LiveStops = {}
        ~> \/ LiveStops # {} \/ ~trade.open \/ Position = 0 \/ NextId \notin Oids
           \/ blocks /\ Live # {}
=============================================================================
