------------------------------- MODULE Iceberg -------------------------------
(***************************************************************************)
(* The synthetic iceberg orders of one trade.                              *)
(*                                                                         *)
(* A large entry or exit is cut into slices.  The target is kept in the    *)
(* custom data of the trade, and process_iceberg_orders places the next    *)
(* slice once the last one has ended and an interval has passed.  Signals, *)
(* position adjustments, repriced and timed out orders and a crash between *)
(* two commits come in between.                                            *)
(*                                                                         *)
(* Amounts are integers; prices are left out, because a slice is computed  *)
(* and compared at one price.  The exchange is the position it holds: how  *)
(* an order fills and ends is one step, TradeOrders has the detail.        *)
(***************************************************************************)
EXTENDS Integers

CONSTANTS
    Target,     \* amount of the first entry
    AddOn,      \* amount of a position adjustment
    MaxAsk,     \* what the strategy asks for in one trade (bound)
    Visible,    \* visible_ratio in percent
    MaxSlices,  \* max_slices
    MinSlice,   \* min_slice_stake
    Jitter,     \* what size_jitter adds to a slice at most
    Interval,   \* replenish_interval, in ticks
    Lot,        \* precision of the amounts the exchange accepts
    MinStake    \* min_stake_amount of validate_stake_amount

ASSUME IcebergAssumption ==
    /\ Target \in Nat \ {0} /\ AddOn \in Nat \ {0} /\ MaxAsk \in Nat
    /\ Visible \in 0..100 /\ MaxSlices \in Nat \ {0} /\ MinSlice \in Nat
    /\ Jitter \in Nat /\ Interval \in Nat /\ Lot \in Nat \ {0} /\ MinStake \in Nat

VARIABLES
    asked,   \* what the strategy asked for in this trade
    pos,     \* the trade: open, its amount, what its entries bought, its exits sold
    exiting, \* trade.exit_reason is set
    order,   \* the open order of the trade
    plan,    \* the targets in the custom data of the trade, 0 when there is none
    wait     \* ticks until a slice of either side may follow the last fill

vars == <<asked, pos, exiting, order, plan, wait>>

NoOrder == [side |-> "none", amount |-> 0]
NoPlan == [entry |-> 0, exit |-> 0]
NoPos == [open |-> FALSE, amount |-> 0, bought |-> 0, sold |-> 0]
NoWait == [s \in {"entry", "exit"} |-> 0]

Smaller(a, b) == IF a <= b THEN a ELSE b
Larger(a, b) == IF a >= b THEN a ELSE b

Held == pos.bought - pos.sold

---------------------------------------------------------------------------
(* Sizing.                                                                 *)

\* slice_stake
Base(total) == Larger((total * Visible) \div 100, Larger(total \div MaxSlices, MinSlice))

\* Mutant: the last slice is as large as the others.
SlicesTooLarge(remaining, total) == Base(total)..(Base(total) + Jitter)

\* Mutant: a rest below the size of a slice is not placed.
SlicesWithoutRest(remaining, total) ==
    {b \in Base(total)..(Base(total) + Jitter) : b <= remaining}

Slices(remaining, total) ==
    {Smaller(remaining, b) : b \in Base(total)..(Base(total) + Jitter)}

\* The amount create_order sends for n; none when n is less than a lot.
Sent(n) == {a \in 1..n : a % Lot = 0 /\ n < a + Lot}

\* validate_stake_amount raises a small stake by at most 30 percent.
Stake(n) == IF n >= MinStake THEN n ELSE IF n * 13 < MinStake * 10 THEN 0 ELSE MinStake

---------------------------------------------------------------------------
(* What an order has done when it ends.                                    *)

Fills(o) ==
    {f \in 0..o.amount : f % Lot = 0 /\ (o.side = "exit" => f <= Held)}

\* recalc_trade_from_orders
Recalc(p) == IF p.bought > p.sold THEN [p EXCEPT !.amount = p.bought - p.sold] ELSE p

Booked(o, f) ==
    IF f = 0 THEN pos
    ELSE IF o.side = "entry" THEN Recalc([pos EXCEPT !.bought = @ + f])
    ELSE Recalc([pos EXCEPT !.sold = @ + f, !.open = @ /\ f # pos.amount])

\* handle_cancel_exit resets the exit reason of an exit that was cancelled.
ExitingAfter(o, f) == exiting /\ ~(o.side = "exit" /\ f < o.amount)

WaitAfter(o, f) == IF f = 0 THEN wait ELSE [wait EXCEPT ![o.side] = Interval]

\* The open order, if any, ends with f filled.
Ending(f) ==
    /\ pos' = Booked(order, f)
    /\ wait' = WaitAfter(order, f)

Shorter(n) == IF n = 0 THEN 0 ELSE n - 1

Tick ==
    /\ wait # NoWait
    /\ wait' = [s \in {"entry", "exit"} |-> Shorter(wait[s])]
    /\ UNCHANGED <<asked, pos, exiting, order, plan>>

\* The order is filled, cancelled on the exchange or timed out; a trade whose first
\* entry bought nothing is deleted with its custom data.
Finish(f) ==
    /\ order # NoOrder
    /\ IF order.side = "entry" /\ f = 0 /\ pos.bought = 0
       THEN /\ asked' = 0 /\ pos' = NoPos /\ plan' = NoPlan /\ wait' = NoWait
            /\ exiting' = FALSE
       ELSE /\ Ending(f) /\ exiting' = ExitingAfter(order, f)
            /\ UNCHANGED <<asked, plan>>
    /\ order' = NoOrder

---------------------------------------------------------------------------
(* execute_entry.                                                          *)

Entry(m) == [side |-> "entry", amount |-> m]
Exit(m) == [side |-> "exit", amount |-> m]

\* The plan is written after the commit of the order: the process may die between.
Planned(n, requested) ==
    {plan, IF n < requested /\ plan.entry = 0 THEN [plan EXCEPT !.entry = requested] ELSE plan}

Enter ==
    /\ ~pos.open /\ order = NoOrder
    /\ \E n \in Slices(Target, Target) : \E m \in Sent(n) : order' = Entry(m)
          /\ plan' \in {NoPlan, IF n < Target THEN [NoPlan EXCEPT !.entry = Target] ELSE NoPlan}
    /\ pos' = [NoPos EXCEPT !.open = TRUE]
    /\ asked' = Target /\ exiting' = FALSE /\ wait' = NoWait

\* A position adjustment cancels what is open; an exit that has filled meanwhile
\* closes the trade, and the entry opens it again.
Adjust(f) ==
    /\ pos.open /\ asked + AddOn <= MaxAsk
    /\ \E n \in Slices(AddOn, IF plan.entry # 0 THEN plan.entry ELSE AddOn) :
          \E m \in Sent(n) : order' = Entry(m) /\ plan' \in Planned(n, AddOn)
    /\ pos' = [Booked(order, f) EXCEPT !.open = TRUE]
    /\ wait' = WaitAfter(order, f)
    /\ asked' = asked + AddOn
    /\ exiting' = ExitingAfter(order, f)

---------------------------------------------------------------------------
(* execute_trade_exit.                                                     *)

\* Mutant: an exit in one piece leaves the plans as they are.
PlansAfterKept(n, amount, sliced) ==
    IF sliced /\ n < amount
    THEN [entry |-> 0, exit |-> IF plan.exit # 0 THEN plan.exit ELSE pos'.amount]
    ELSE plan

\* A first slice makes the plan; an exit in one piece supersedes both plans.
PlansAfter(n, amount, sliced) ==
    IF sliced /\ n < amount
    THEN [entry |-> 0, exit |-> IF plan.exit # 0 THEN plan.exit ELSE pos'.amount]
    ELSE NoPlan

\* The amount is the one of before the open order is cancelled.  Only exit signals
\* and custom exits are sliced.  The process may die between the two commits that
\* write the plans, with the exit reason not yet saved.
SellOut(amount, sliced, f) ==
    /\ Ending(f)
    /\ UNCHANGED asked
    /\ \E n \in IF sliced THEN Slices(amount, IF plan.exit # 0 THEN plan.exit ELSE amount)
                ELSE {amount} :
          IF Sent(n) = {} \/ pos'.bought = pos'.sold
          THEN /\ order' = NoOrder /\ exiting' = ExitingAfter(order, f)
               /\ UNCHANGED plan
          ELSE /\ \E m \in Sent(n) : order' = Exit(m)
               /\ \/ plan' = PlansAfter(n, amount, sliced) /\ exiting' = TRUE
                  \/ plan' = [plan EXCEPT !.entry = 0] /\ exiting' = ExitingAfter(order, f)

\* handle_trade: an exit signal or custom exit, or one that must not wait.
Sell(sliced, f) == pos.open /\ pos.amount > 0 /\ SellOut(pos.amount, sliced, f)

\* A position adjustment or an emergency exit sells a part.
Trim(f) ==
    /\ pos.open
    /\ \E n \in 1..(pos.amount - 1) : SellOut(n, FALSE, f)

\* replace_order moves the price of an exit: a custom exit for what was left of it.
Reprice(f) ==
    /\ order.side = "exit" /\ f < order.amount
    /\ SellOut(order.amount - f, TRUE, f)

---------------------------------------------------------------------------
(* process_iceberg_orders.                                                 *)

Ready(side) == order.side # side /\ wait[side] = 0

NextExit(f) ==
    /\ pos.open /\ plan.exit # 0 /\ Ready("exit")
    /\ Ending(f)
    /\ \E n \in Slices(pos.amount, plan.exit) : \E m \in Sent(n) : order' = Exit(m)
    /\ pos'.bought > pos'.sold
    /\ exiting' = TRUE
    /\ UNCHANGED <<asked, plan>>

Remaining == Larger(0, plan.entry - pos.amount)

\* Mutant: a plan that has reached its target is passed over.
MayGrowBelow ==
    /\ pos.open /\ plan.exit = 0 /\ plan.entry # 0 /\ ~exiting /\ Ready("entry")
    /\ pos.amount < plan.entry

MayGrow == pos.open /\ plan.exit = 0 /\ plan.entry # 0 /\ ~exiting /\ Ready("entry")

NextEntry(f) ==
    /\ MayGrow /\ Remaining > 0
    /\ Ending(f)
    /\ \E n \in Slices(Stake(Remaining), plan.entry) : \E m \in Sent(n) : order' = Entry(m)
    /\ asked' = asked + Larger(0, Stake(Remaining) - Remaining)
    /\ exiting' = ExitingAfter(order, f)
    /\ UNCHANGED plan

EntryDone ==
    /\ MayGrow /\ Remaining = 0
    /\ plan' = [plan EXCEPT !.entry = 0]
    /\ UNCHANGED <<asked, pos, exiting, order, wait>>

---------------------------------------------------------------------------
Init ==
    /\ asked = 0 /\ pos = NoPos /\ exiting = FALSE
    /\ order = NoOrder /\ plan = NoPlan /\ wait = NoWait

Next ==
    \/ Tick \/ Enter \/ EntryDone
    \/ \E f \in Fills(order) :
          \/ Finish(f) \/ Adjust(f) \/ Trim(f) \/ Reprice(f) \/ NextExit(f) \/ NextEntry(f)
          \/ \E sliced \in BOOLEAN : Sell(sliced, f)

Spec == Init /\ [][Next]_vars

\* The loop of the worker comes to the plans again and again, and an order that is
\* placed again and again fills at some time.
FairSpec ==
    /\ Spec /\ WF_vars(Tick) /\ WF_vars(EntryDone)
    /\ WF_vars(\E f \in Fills(order) : Finish(f))
    /\ SF_vars(\E f \in Fills(order) \ {0} : Finish(f))
    /\ SF_vars(\E f \in Fills(order) : NextExit(f))
    /\ SF_vars(\E f \in Fills(order) : NextEntry(f))

---------------------------------------------------------------------------
(* Correctness.                                                            *)

\* Types: no amount, plan or wait falls below 0 (recalc_trade_from_orders).
TypeOK ==
    /\ asked \in Nat
    /\ pos \in [open : BOOLEAN, amount : Nat, bought : Nat, sold : Nat]
    /\ exiting \in BOOLEAN
    /\ order \in [side : {"none", "entry", "exit"}, amount : Nat]
    /\ plan \in [entry : Nat, exit : Nat]
    /\ wait \in [{"entry", "exit"} -> Nat]

\* The trade as whoever asked for it sees it: the slices never buy more than was
\* asked for, nor sell more than was bought, in whatever order fills, signals,
\* cancels and restarts come.
P == INSTANCE Position WITH bought <- pos.bought, sold <- pos.sold
Promise == P!Spec

\* What is bought and still on order stays within what was asked for.
Within == pos.bought + (IF order.side = "entry" THEN order.amount ELSE 0) <= asked

\* While entries are planned the exchange sees one slice of the plan, whoever placed
\* it: a signal, a replenishment or a position adjustment.
OneSliceSeen ==
    order.side = "entry" /\ plan.entry # 0 => order.amount <= Base(plan.entry) + Jitter

\* A plan whose slices the exchange refuses is never carried out.
Refused(target, rest) == Sent(Smaller(rest, Base(target))) = {}

\* An exit that was cut into slices ends: the trade closes, or an exit in one piece
\* takes over.  A trade that was opened again without a position has to be recovered
\* first.
ExitEnds ==
    plan.exit # 0 ~>
        plan.exit = 0 \/ ~pos.open \/ Held = 0 \/ Refused(plan.exit, pos.amount)

\* An entry that was cut into slices ends, unless an exit came before.
EntryEnds ==
    plan.entry # 0 ~>
        \/ plan.entry = 0 \/ exiting \/ plan.exit # 0
        \/ Remaining > 0 /\ Refused(plan.entry, Stake(Remaining))

\* "until the total target is complete" (docs/advanced-iceberg.md): the plan of the
\* entries is dropped as complete only when all that was asked for is bought.
TargetReached == [][EntryDone => pos.bought >= asked]_vars
=============================================================================
