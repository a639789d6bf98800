--------------------------- MODULE IcebergProofs ---------------------------
(***************************************************************************)
(* Proofs about the iceberg orders, for every size, ratio and precision:   *)
(* what is bought and on order stays within what was asked for, and the    *)
(* slices implement the promise of Position.                               *)
(***************************************************************************)
EXTENDS Iceberg, TLAPS

\* A closed trade has sold what it bought and has no order.
ClosedIsDone == ~pos.open => pos.bought = pos.sold /\ order = NoOrder

\* The trade never believes it holds less than it does.
AmountCovers == pos.sold <= pos.bought /\ pos.bought - pos.sold <= pos.amount

\* What the plan of the entries still asks for was asked for.
PlanAsked == plan.exit = 0 /\ plan.entry # 0 => plan.entry + pos.sold <= asked

\* An exit in one piece supersedes the plan of the entries.
ExitSupersedes == order.side = "exit" /\ plan.exit = 0 => plan.entry = 0

\* Without an order nothing can fill.
NoneIsEmpty == order.side = "none" => order.amount = 0

Inv ==
    /\ TypeOK /\ Within /\ NoneIsEmpty
    /\ ClosedIsDone /\ AmountCovers /\ PlanAsked /\ ExitSupersedes

---------------------------------------------------------------------------
(* Sizes.                                                                  *)

\* A slice is a number, and not more than what remains.
LEMMA SliceWithin ==
    ASSUME NEW remaining \in Nat, NEW total \in Nat, NEW n \in Slices(remaining, total)
    PROVE  n \in Nat /\ n <= remaining
<1> DEFINE share == (total * Visible) \div 100
           part == total \div MaxSlices
<1>1. total * Visible \in Nat
  BY IcebergAssumption, SMT
<1>2. share \in Nat
  BY <1>1, SMT
<1>3. part \in Nat
  BY IcebergAssumption, SMT
<1> HIDE DEF share, part
<1>4. Base(total) = Larger(share, Larger(part, MinSlice))
  BY DEF Base, share, part
<1>5. Base(total) \in Nat
  BY <1>2, <1>3, <1>4, IcebergAssumption DEF Larger
<1>6. PICK b \in Base(total)..(Base(total) + Jitter) : n = Smaller(remaining, b)
  BY DEF Slices
<1>7. b \in Nat
  BY <1>5, <1>6, IcebergAssumption
<1> QED
  BY <1>6, <1>7 DEF Smaller

\* What the exchange is asked for is not more than what was to be placed.
LEMMA SentWithin ==
    ASSUME NEW n \in Nat, NEW m \in Sent(n)
    PROVE  m \in Nat /\ m <= n
BY DEF Sent

\* A stake is raised or dropped, never lowered.
LEMMA StakeNat == ASSUME NEW n \in Nat PROVE Stake(n) \in Nat
BY IcebergAssumption DEF Stake

PosType == [open : BOOLEAN, amount : Nat, bought : Nat, sold : Nat]

\* The trade after its open order has ended.
Settled(p) ==
    /\ p \in PosType
    /\ p.sold >= pos.sold /\ p.sold <= p.bought
    /\ p.bought >= pos.bought /\ p.bought <= asked
    /\ p.bought - p.sold <= p.amount
    /\ ~p.open => p.bought = p.sold
    /\ order.side # "entry" => p.bought = pos.bought
    /\ order.side # "exit" => p.sold = pos.sold

LEMMA BookedIs ==
    ASSUME Inv, NEW f \in Fills(order)
    PROVE  Settled(Booked(order, f))
<1> DEFINE p == Booked(order, f)
<1>0. /\ f \in Nat /\ f <= order.amount
      /\ order.side = "exit" => f <= pos.bought - pos.sold
  BY DEF Fills, Held, Inv, TypeOK
<1>a. /\ pos \in PosType
      /\ pos.open \in BOOLEAN /\ pos.amount \in Nat /\ pos.bought \in Nat /\ pos.sold \in Nat
      /\ asked \in Nat
      /\ order.amount \in Nat /\ order.side \in {"none", "entry", "exit"}
  BY DEF Inv, TypeOK, PosType
<1>b. /\ pos.sold <= pos.bought /\ pos.bought - pos.sold <= pos.amount
      /\ pos.bought + (IF order.side = "entry" THEN order.amount ELSE 0) <= asked
      /\ ~pos.open => pos.bought = pos.sold /\ order = NoOrder
  BY DEF Inv, Within, AmountCovers, ClosedIsDone
<1>c. order = NoOrder => f = 0
  BY <1>0 DEF NoOrder
<1>1. CASE f = 0
  <2>1. p = pos
    BY <1>1 DEF Booked
  <2> QED
    BY <2>1, <1>a, <1>b DEF Settled
<1>2. CASE f # 0 /\ order.side = "entry"
  <2> DEFINE q == [pos EXCEPT !.bought = @ + f]
  <2>1. /\ q \in PosType
        /\ q.open = pos.open /\ q.amount = pos.amount /\ q.bought = pos.bought + f
        /\ q.sold = pos.sold
    BY <1>a, <1>0 DEF PosType
  <2>2. p = Recalc(q)
    BY <1>2 DEF Booked
  <2> HIDE DEF q
  <2>3. p = [q EXCEPT !.amount = q.bought - q.sold]
    BY <1>0, <1>a, <1>b, <1>2, <2>1, <2>2 DEF Recalc, PosType
  <2>4. /\ p.open = q.open /\ p.bought = q.bought /\ p.sold = q.sold
        /\ p.amount = q.bought - q.sold
    BY <2>1, <2>3 DEF PosType
  <2>5. p \in PosType
    BY <1>0, <1>a, <1>b, <2>1, <2>3 DEF PosType
  <2>6. pos.open
    BY <1>b, <1>c, <1>2
  <2> SUFFICES Settled(p)
    OBVIOUS
  <2> HIDE DEF p
  <2> QED
    BY <1>0, <1>a, <1>b, <1>2, <2>1, <2>4, <2>5, <2>6 DEF Settled
<1>3. CASE f # 0 /\ order.side = "exit"
  <2> DEFINE q == [pos EXCEPT !.sold = @ + f, !.open = @ /\ f # pos.amount]
  <2> DEFINE stays == pos.open /\ f # pos.amount
  <2>0. stays \in BOOLEAN /\ (~stays <=> (~pos.open \/ f = pos.amount))
    BY Zenon
  <2> DEFINE r == [pos EXCEPT !.sold = pos.sold + f]
  <2>r. /\ r \in PosType /\ r.open = pos.open /\ r.amount = pos.amount
        /\ r.bought = pos.bought /\ r.sold = pos.sold + f
    BY <1>a, <1>0 DEF PosType
  <2>q. q = [r EXCEPT !.open = stays]
    BY <1>a DEF PosType
  <2> HIDE DEF stays, q, r
  <2>1. /\ q \in PosType
        /\ q.open = stays
        /\ q.amount = pos.amount /\ q.bought = pos.bought
        /\ q.sold = pos.sold + f
    BY <2>0, <2>q, <2>r DEF PosType
  <2>2. p = Recalc(q)
    BY <1>3 DEF Booked, q
  <2>3. /\ p.open = q.open /\ p.bought = q.bought /\ p.sold = q.sold
        /\ p.amount = IF q.bought > q.sold THEN q.bought - q.sold ELSE q.amount
        /\ p \in PosType
    <3>1. CASE q.bought > q.sold
      <4>1. p = [q EXCEPT !.amount = q.bought - q.sold]
        BY <2>2, <3>1 DEF Recalc
      <4>2. q.bought - q.sold \in Nat
        BY <1>0, <1>a, <2>1, <3>1
      <4> QED
        BY <2>1, <3>1, <4>1, <4>2 DEF PosType
    <3>2. CASE ~(q.bought > q.sold)
      BY <2>1, <2>2, <3>2 DEF Recalc
    <3> QED
      BY <3>1, <3>2
  <2>4. pos.open
    BY <1>b, <1>c, <1>3
  <2> SUFFICES Settled(p)
    OBVIOUS
  <2> HIDE DEF p
  <2>5. ~p.open => p.bought = p.sold
    <3>1. SUFFICES ASSUME ~p.open PROVE p.bought = p.sold
      OBVIOUS
    <3>2. ~stays
      BY <2>1, <2>3, <3>1, Zenon
    <3>3. f = pos.amount
      BY <2>0, <2>4, <3>2, Zenon
    <3> QED
      BY <1>0, <1>a, <1>b, <1>3, <2>1, <2>3, <3>3
  <2> QED
    BY <1>0, <1>a, <1>b, <1>3, <2>1, <2>3, <2>5 DEF Settled
<1>4. CASE f # 0 /\ order.side = "none"
  BY <1>0, <1>a, <1>4 DEF Inv, NoneIsEmpty
<1> QED
  BY <1>a, <1>1, <1>2, <1>3, <1>4

---------------------------------------------------------------------------
(* The steps keep the invariant.                                           *)

\* An order of m, not more than what n allows.
OrderType == [side : {"none", "entry", "exit"}, amount : Nat]

LEMMA OrderFields ==
    /\ NoOrder \in OrderType /\ NoOrder.side = "none" /\ NoOrder.amount = 0
    /\ \A m \in Nat : /\ Entry(m) \in OrderType
                      /\ Entry(m).side = "entry" /\ Entry(m).amount = m
    /\ \A m \in Nat : /\ Exit(m) \in OrderType
                      /\ Exit(m).side = "exit" /\ Exit(m).amount = m
BY DEF NoOrder, Entry, Exit, OrderType

LEMMA WaitType ==
    ASSUME Inv, NEW f
    PROVE  WaitAfter(order, f) \in [{"entry", "exit"} -> Nat]
BY IcebergAssumption DEF WaitAfter, Inv, TypeOK

LEMMA ExitingType == ASSUME Inv, NEW f PROVE ExitingAfter(order, f) \in BOOLEAN
BY Zenon DEF ExitingAfter

\* The plans a first slice of an entry may leave.
LEMMA PlannedIs ==
    ASSUME Inv, NEW n, NEW requested \in Nat, NEW q \in Planned(n, requested)
    PROVE  /\ q \in [entry : Nat, exit : Nat] /\ q.exit = plan.exit
           /\ q.entry = plan.entry \/ (plan.entry = 0 /\ q.entry = requested)
<1>1. plan \in [entry : Nat, exit : Nat]
  BY DEF Inv, TypeOK
<1>2. CASE q = plan
  BY <1>1, <1>2
<1>3. CASE q # plan
  <2>1. plan.entry = 0 /\ q = [plan EXCEPT !.entry = requested]
    BY <1>3 DEF Planned
  <2> QED
    BY <1>1, <2>1
<1> QED
  BY <1>2, <1>3

LEMMA NoneFields ==
    /\ NoPos \in PosType /\ NoPos.open = FALSE /\ NoPos.amount = 0
    /\ NoPos.bought = 0 /\ NoPos.sold = 0
    /\ NoPlan \in [entry : Nat, exit : Nat] /\ NoPlan.entry = 0 /\ NoPlan.exit = 0
    /\ NoWait \in [{"entry", "exit"} -> Nat]
BY DEF NoPos, NoPlan, NoWait, PosType

LEMMA InitInv == Init => Inv
<1> SUFFICES ASSUME Init PROVE Inv
  OBVIOUS
<1>1. /\ asked = 0 /\ pos = NoPos /\ exiting = FALSE
      /\ order = NoOrder /\ plan = NoPlan /\ wait = NoWait
  BY DEF Init
<1>2. TypeOK
  BY <1>1, OrderFields, NoneFields DEF TypeOK, OrderType, PosType
<1>3. Within /\ NoneIsEmpty /\ AmountCovers /\ PlanAsked /\ ExitSupersedes /\ ClosedIsDone
  BY <1>1, OrderFields, NoneFields
  DEF Within, NoneIsEmpty, AmountCovers, PlanAsked, ExitSupersedes, ClosedIsDone
<1> QED
  BY <1>2, <1>3 DEF Inv

\* A position that has not bought anything yet keeps the invariant.
LEMMA FlatInv ==
    ASSUME asked' \in Nat, pos' \in PosType, pos'.bought = 0, pos'.sold = 0,
           exiting' \in BOOLEAN, wait' = NoWait,
           plan' \in [entry : Nat, exit : Nat], plan'.entry <= asked',
           order' \in OrderType, order'.side \in {"none", "entry"}, order'.amount <= asked',
           order'.side = "none" => order'.amount = 0,
           pos'.open \/ order' = NoOrder
    PROVE  Inv'
<1>1. TypeOK'
  BY NoneFields DEF TypeOK, OrderType, PosType
<1>2. order'.amount \in Nat /\ pos'.amount \in Nat /\ plan'.entry \in Nat
  BY DEF OrderType, PosType
<1>3. Within' /\ NoneIsEmpty' /\ AmountCovers' /\ PlanAsked'
  BY <1>2 DEF Within, NoneIsEmpty, AmountCovers, PlanAsked
<1>4. ExitSupersedes' /\ ClosedIsDone'
  BY DEF ExitSupersedes, ClosedIsDone
<1> QED
  BY <1>1, <1>3, <1>4 DEF Inv

LEMMA TickInv == Inv /\ Tick => Inv'
<1> SUFFICES ASSUME Inv, Tick PROVE Inv'
  OBVIOUS
<1>1. wait' \in [{"entry", "exit"} -> Nat]
  BY DEF Tick, Shorter, Inv, TypeOK
<1>2. UNCHANGED <<asked, pos, exiting, order, plan>>
  BY DEF Tick
<1> QED
  BY <1>1, <1>2
  DEF Inv, TypeOK, Within, NoneIsEmpty, ClosedIsDone, AmountCovers, PlanAsked, ExitSupersedes

LEMMA EntryDoneInv == Inv /\ EntryDone => Inv'
<1> SUFFICES ASSUME Inv, EntryDone PROVE Inv'
  OBVIOUS
<1>1. /\ plan' \in [entry : Nat, exit : Nat] /\ plan'.entry = 0 /\ plan'.exit = plan.exit
  BY DEF EntryDone, Inv, TypeOK
<1>2. UNCHANGED <<asked, pos, exiting, order, wait>>
  BY DEF EntryDone
<1> QED
  BY <1>1, <1>2
  DEF Inv, TypeOK, Within, NoneIsEmpty, ClosedIsDone, AmountCovers, PlanAsked, ExitSupersedes

LEMMA EnterInv == Inv /\ Enter => Inv'
<1> SUFFICES ASSUME Inv, Enter PROVE Inv'
  OBVIOUS
<1>0. Target \in Nat /\ Target # 0
  BY IcebergAssumption
<1>1. PICK n \in Slices(Target, Target) : \E m \in Sent(n) : order' = Entry(m)
  BY DEF Enter
<1>2. PICK m \in Sent(n) : order' = Entry(m)
  BY <1>1
<1>3. m \in Nat /\ m <= Target
  BY <1>0, <1>1, <1>2, SliceWithin, SentWithin
<1>4. order' \in OrderType /\ order'.side = "entry" /\ order'.amount = m
  BY <1>2, <1>3, OrderFields
<1>5. /\ plan' \in [entry : Nat, exit : Nat]
      /\ plan'.entry \in {0, Target} /\ plan'.exit = 0
  BY <1>0 DEF Enter, NoPlan
<1>6. /\ pos' \in PosType /\ pos'.open /\ pos'.bought = 0 /\ pos'.sold = 0 /\ pos'.amount = 0
  BY DEF Enter, NoPos, PosType
<1>7. asked' = Target /\ exiting' = FALSE /\ wait' = NoWait
  BY DEF Enter
<1> QED
  <2>1. /\ asked' \in Nat /\ order'.amount <= asked' /\ plan'.entry <= asked'
    BY <1>0, <1>3, <1>4, <1>5, <1>7
  <2>e. exiting' \in BOOLEAN
    BY <1>7, Zenon
  <2>2. order'.side \in {"none", "entry"} /\ (order'.side = "none" => order'.amount = 0)
    BY <1>4
  <2>3. pos'.open \/ order' = NoOrder
    BY <1>6
  <2> QED
    BY <1>4, <1>5, <1>6, <1>7, <2>1, <2>e, <2>2, <2>3, FlatInv, Zenon

\* What the state is made of, for the steps that end an order.
LEMMA Facts ==
    ASSUME Inv
    PROVE  /\ asked \in Nat /\ pos.bought \in Nat /\ pos.sold \in Nat /\ pos.amount \in Nat
           /\ plan \in [entry : Nat, exit : Nat] /\ plan.entry \in Nat /\ plan.exit \in Nat
           /\ order \in OrderType /\ order.side \in {"none", "entry", "exit"}
           /\ order.amount \in Nat
BY DEF Inv, TypeOK, OrderType

LEMMA FinishInv ==
    ASSUME Inv, NEW f \in Fills(order), Finish(f)
    PROVE  Inv'
<1>1. order' = NoOrder
  BY DEF Finish
<1>2. CASE order.side = "entry" /\ f = 0 /\ pos.bought = 0
  <2>1. /\ asked' = 0 /\ pos' = NoPos /\ plan' = NoPlan /\ wait' = NoWait
        /\ exiting' = FALSE
    BY <1>2 DEF Finish
  <2> QED
    <3>1. /\ asked' \in Nat /\ order'.amount <= asked' /\ plan'.entry <= asked'
      BY <1>1, <2>1, OrderFields, NoneFields
    <3>e. exiting' \in BOOLEAN
      BY <2>1, Zenon
    <3>2. /\ order' \in OrderType /\ order'.side \in {"none", "entry"}
          /\ order'.side = "none" => order'.amount = 0
      BY <1>1, OrderFields
    <3>3. /\ pos' \in PosType /\ pos'.bought = 0 /\ pos'.sold = 0
          /\ plan' \in [entry : Nat, exit : Nat]
      BY <2>1, NoneFields
    <3> QED
      BY <1>1, <2>1, <3>1, <3>e, <3>2, <3>3, FlatInv, Zenon
<1>3. CASE ~(order.side = "entry" /\ f = 0 /\ pos.bought = 0)
  <2>1. /\ Ending(f) /\ exiting' = ExitingAfter(order, f) /\ UNCHANGED <<asked, plan>>
    BY <1>3 DEF Finish
  <2>2. Settled(pos') /\ wait' \in [{"entry", "exit"} -> Nat] /\ exiting' \in BOOLEAN
    BY <2>1, BookedIs, WaitType, ExitingType DEF Ending
  <2>3. PlanAsked'
    BY <2>1, <2>2, Facts DEF Inv, PlanAsked, ExitSupersedes, Settled
  <2> QED
    BY <1>1, <2>1, <2>2, <2>3, Facts, OrderFields
    DEF Inv, TypeOK, Within, NoneIsEmpty, ClosedIsDone, AmountCovers,
        ExitSupersedes, Settled, OrderType, PosType
<1> QED
  BY <1>2, <1>3

LEMMA AdjustInv ==
    ASSUME Inv, NEW f \in Fills(order), Adjust(f)
    PROVE  Inv'
<1>0. AddOn \in Nat
  BY IcebergAssumption
<1> DEFINE total == IF plan.entry # 0 THEN plan.entry ELSE AddOn
<1>1. PICK n \in Slices(AddOn, total) :
        \E m \in Sent(n) : order' = Entry(m) /\ plan' \in Planned(n, AddOn)
  BY DEF Adjust
<1>2. PICK m \in Sent(n) : order' = Entry(m) /\ plan' \in Planned(n, AddOn)
  BY <1>1
<1>3. total \in Nat
  BY <1>0, Facts
<1>4. m \in Nat /\ m <= AddOn
  BY <1>0, <1>1, <1>2, <1>3, SliceWithin, SentWithin
<1>5. order' \in OrderType /\ order'.side = "entry" /\ order'.amount = m
  BY <1>2, <1>4, OrderFields
<1>6. /\ plan' \in [entry : Nat, exit : Nat] /\ plan'.exit = plan.exit
      /\ plan'.entry = plan.entry \/ (plan.entry = 0 /\ plan'.entry = AddOn)
  BY <1>0, <1>2, PlannedIs
<1> DEFINE p == Booked(order, f)
<1>7. Settled(p)
  BY BookedIs
<1>8. pos' = [p EXCEPT !.open = TRUE]
  BY DEF Adjust
<1> HIDE DEF p, total
<1>9. /\ pos' \in PosType /\ pos'.open /\ pos'.bought = p.bought /\ pos'.sold = p.sold
      /\ pos'.amount = p.amount
  BY <1>7, <1>8 DEF Settled, PosType
<1>10. p.bought \in Nat /\ p.sold \in Nat /\ p.amount \in Nat
  BY <1>7 DEF Settled, PosType
<1>11. /\ asked' = asked + AddOn /\ wait' \in [{"entry", "exit"} -> Nat]
       /\ exiting' \in BOOLEAN
  BY WaitType, ExitingType DEF Adjust
<1>12. PlanAsked'
  BY <1>0, <1>6, <1>7, <1>9, <1>10, <1>11, Facts
  DEF Inv, PlanAsked, ExitSupersedes, Settled
<1>13. Within'
  BY <1>0, <1>4, <1>5, <1>7, <1>9, <1>10, <1>11, Facts DEF Within, Settled
<1> QED
  BY <1>0, <1>5, <1>6, <1>7, <1>9, <1>10, <1>11, <1>12, <1>13, Facts
  DEF Inv, TypeOK, NoneIsEmpty, ClosedIsDone, AmountCovers, ExitSupersedes,
      Settled, OrderType, PosType

\* What every way to sell leaves: the open order has ended with f filled, and there
\* is an exit order, or none.
LEMMA SoldInv ==
    ASSUME Inv, NEW f \in Fills(order), Ending(f),
           asked' = asked, exiting' \in BOOLEAN,
           plan' \in [entry : Nat, exit : Nat],
           \/ order' = NoOrder /\ plan' = plan
           \/ /\ \E m \in Nat : order' = Exit(m)
              /\ pos'.bought # pos'.sold
              /\ plan'.exit = 0 => plan'.entry = 0
    PROVE  Inv'
<1>1. Settled(pos') /\ wait' \in [{"entry", "exit"} -> Nat]
  BY BookedIs, WaitType DEF Ending
<1>2. order' \in OrderType /\ order'.side \in {"none", "exit"}
      /\ (order'.side = "none" => order'.amount = 0)
  BY OrderFields
<1>3. PlanAsked'
  <2>1. CASE order' = NoOrder /\ plan' = plan
    BY <1>1, <2>1, Facts DEF Inv, PlanAsked, ExitSupersedes, Settled
  <2>2. CASE plan'.exit = 0 => plan'.entry = 0
    BY <2>2 DEF PlanAsked
  <2> QED
    BY <2>1, <2>2
<1>4. ExitSupersedes'
  BY OrderFields DEF ExitSupersedes
<1>5. ClosedIsDone'
  BY <1>1 DEF ClosedIsDone, Settled
<1> QED
  BY <1>1, <1>2, <1>3, <1>4, <1>5, Facts
  DEF Inv, TypeOK, Within, NoneIsEmpty, AmountCovers, Settled, OrderType, PosType

LEMMA SellOutInv ==
    ASSUME Inv, NEW amount \in Nat, NEW sliced \in BOOLEAN, NEW f \in Fills(order),
           SellOut(amount, sliced, f)
    PROVE  Inv'
<1> DEFINE total == IF plan.exit # 0 THEN plan.exit ELSE amount
           sizes == IF sliced THEN Slices(amount, total) ELSE {amount}
<1>1. Ending(f) /\ asked' = asked
  BY DEF SellOut
<1>2. PICK n \in sizes :
        IF Sent(n) = {} \/ pos'.bought = pos'.sold
        THEN order' = NoOrder /\ exiting' = ExitingAfter(order, f) /\ plan' = plan
        ELSE /\ \E m \in Sent(n) : order' = Exit(m)
             /\ \/ plan' = PlansAfter(n, amount, sliced) /\ exiting' = TRUE
                \/ /\ plan' = [plan EXCEPT !.entry = 0]
                   /\ exiting' = ExitingAfter(order, f)
  BY DEF SellOut
<1>3. n \in Nat
  BY <1>2, SliceWithin, Facts
<1>4. CASE Sent(n) = {} \/ pos'.bought = pos'.sold
  BY <1>1, <1>2, <1>4, ExitingType, SoldInv, Facts
<1>5. CASE ~(Sent(n) = {} \/ pos'.bought = pos'.sold)
  <2>1. \E m \in Nat : order' = Exit(m)
    BY <1>2, <1>3, <1>5, SentWithin
  <2>2. exiting' \in BOOLEAN
    BY <1>2, <1>5, ExitingType
  <2>3. pos'.amount \in Nat
    BY <1>1, BookedIs DEF Ending, Settled, PosType
  <2>4. /\ plan' \in [entry : Nat, exit : Nat]
        /\ plan'.entry = 0
    <3>1. CASE plan' = PlansAfter(n, amount, sliced)
      BY <2>3, <3>1, NoneFields, Facts DEF PlansAfter
    <3>2. CASE plan' = [plan EXCEPT !.entry = 0]
      BY <3>2, Facts
    <3> QED
      BY <1>2, <1>5, <3>1, <3>2
  <2> QED
    BY <1>1, <1>5, <2>1, <2>2, <2>4, SoldInv
<1> QED
  BY <1>4, <1>5

LEMMA NextExitInv ==
    ASSUME Inv, NEW f \in Fills(order), NextExit(f)
    PROVE  Inv'
<1>1. PICK n \in Slices(pos.amount, plan.exit) : \E m \in Sent(n) : order' = Exit(m)
  BY DEF NextExit
<1>2. n \in Nat
  BY <1>1, SliceWithin, Facts
<1>3. \E m \in Nat : order' = Exit(m)
  BY <1>1, <1>2, SentWithin
<1>4. /\ Ending(f) /\ asked' = asked /\ exiting' \in BOOLEAN /\ plan' = plan
      /\ plan.exit # 0
  BY DEF NextExit
<1>5. pos'.bought # pos'.sold
  <2>1. pos'.bought \in Nat /\ pos'.sold \in Nat /\ pos'.bought > pos'.sold
    BY <1>4, BookedIs DEF NextExit, Ending, Settled, PosType
  <2> QED
    BY <2>1
<1> QED
  BY <1>3, <1>4, <1>5, SoldInv, Facts

LEMMA NextEntryInv ==
    ASSUME Inv, NEW f \in Fills(order), NextEntry(f)
    PROVE  Inv'
<1>0. /\ pos.open /\ plan.exit = 0 /\ plan.entry # 0 /\ order.side # "entry"
      /\ Remaining > 0
  BY DEF NextEntry, MayGrow, Ready
<1>1. order.side = "none" /\ order.amount = 0 /\ f = 0
  BY <1>0, Facts DEF Inv, ExitSupersedes, NoneIsEmpty, Fills
<1>2. pos' = pos /\ wait' = wait
  BY <1>1 DEF NextEntry, Ending, Booked, WaitAfter
<1>3. Remaining = plan.entry - pos.amount /\ Remaining \in Nat
  BY <1>0, Facts DEF Remaining, Larger
<1>4. PICK n \in Slices(Stake(Remaining), plan.entry) : \E m \in Sent(n) : order' = Entry(m)
  BY DEF NextEntry
<1>5. PICK m \in Sent(n) : order' = Entry(m)
  BY <1>4
<1>6. Stake(Remaining) \in Nat
  BY <1>3, StakeNat
<1>7. m \in Nat /\ m <= Stake(Remaining)
  BY <1>4, <1>5, <1>6, Facts, SliceWithin, SentWithin
<1>8. order' \in OrderType /\ order'.side = "entry" /\ order'.amount = m
  BY <1>5, <1>7, OrderFields
<1>9. /\ asked' = asked + Larger(0, Stake(Remaining) - Remaining)
      /\ plan' = plan /\ exiting' \in BOOLEAN
  BY ExitingType DEF NextEntry
<1>10. asked' \in Nat /\ asked' >= asked /\ asked' >= asked + Stake(Remaining) - Remaining
  BY <1>3, <1>6, <1>9, Facts DEF Larger
<1>11. pos.bought + Remaining <= asked
  BY <1>0, <1>3, Facts DEF Inv, AmountCovers, PlanAsked
<1>12. Within'
  BY <1>2, <1>3, <1>6, <1>7, <1>8, <1>10, <1>11, Facts DEF Within
<1>13. PlanAsked'
  BY <1>2, <1>9, <1>10, Facts DEF Inv, PlanAsked
<1> QED
  BY <1>0, <1>2, <1>8, <1>9, <1>10, <1>12, <1>13, Facts
  DEF Inv, TypeOK, NoneIsEmpty, ClosedIsDone, AmountCovers, ExitSupersedes, OrderType

\* The invariant is inductive.
LEMMA StepInv == Inv /\ [Next]_vars => Inv'
<1> SUFFICES ASSUME Inv, [Next]_vars PROVE Inv'
  OBVIOUS
<1>1. CASE Tick
  BY <1>1, TickInv
<1>2. CASE Enter
  BY <1>2, EnterInv
<1>3. CASE EntryDone
  BY <1>3, EntryDoneInv
<1>4. ASSUME NEW f \in Fills(order), Finish(f) PROVE Inv'
  BY <1>4, FinishInv
<1>5. ASSUME NEW f \in Fills(order), Adjust(f) PROVE Inv'
  BY <1>5, AdjustInv
<1>6. ASSUME NEW f \in Fills(order), Trim(f) PROVE Inv'
  <2>1. PICK n \in 1..(pos.amount - 1) : SellOut(n, FALSE, f)
    BY <1>6 DEF Trim
  <2>2. n \in Nat
    BY <2>1, Facts
  <2> QED
    BY <1>6, <2>1, <2>2, SellOutInv
<1>7. ASSUME NEW f \in Fills(order), Reprice(f) PROVE Inv'
  <2>1. order.amount - f \in Nat
    BY Facts DEF Fills
  <2>2. SellOut(order.amount - f, TRUE, f)
    BY <1>7 DEF Reprice
  <2> QED
    BY <1>7, <2>1, <2>2, SellOutInv
<1>8. ASSUME NEW f \in Fills(order), NextExit(f) PROVE Inv'
  BY <1>8, NextExitInv
<1>9. ASSUME NEW f \in Fills(order), NextEntry(f) PROVE Inv'
  BY <1>9, NextEntryInv
<1>10. ASSUME NEW f \in Fills(order), NEW sliced \in BOOLEAN, Sell(sliced, f) PROVE Inv'
  BY <1>10, SellOutInv, Facts DEF Sell
<1>11. CASE UNCHANGED vars
  BY <1>11
  DEF Inv, TypeOK, Within, NoneIsEmpty, ClosedIsDone, AmountCovers, PlanAsked,
      ExitSupersedes, vars
<1> QED
  BY <1>1, <1>2, <1>3, <1>4, <1>5, <1>6, <1>7, <1>8, <1>9, <1>10, <1>11 DEF Next

\* The invariant holds in every state the slices can reach.
THEOREM Invariant == Spec => []Inv
<1>1. Init => Inv
  BY InitInv
<1>2. Inv /\ [Next]_vars => Inv'
  BY StepInv
<1> QED
  BY <1>1, <1>2, PTL DEF Spec

\* Every variable keeps its type, whatever the sizes: no amount, plan or wait of an
\* iceberg trade becomes negative.
THEOREM TypeCorrect == Spec => []TypeOK
<1>1. Inv => TypeOK
  BY DEF Inv
<1> QED
  BY <1>1, Invariant, PTL

\* However process_iceberg_orders, signals, position adjustments, cancels and restarts
\* follow each other, what is bought and on order was asked for.
THEOREM NeverBeyondTarget == Spec => []Within
<1>1. Inv => Within
  BY DEF Inv
<1> QED
  BY <1>1, Invariant, PTL

---------------------------------------------------------------------------
(* The slices implement the promise of a position.                         *)

\* A step that ends the open order and asks for no less is a trade of the position.
LEMMA SettledIsTrade ==
    ASSUME Inv, Settled(pos'), asked' \in Nat, asked' >= asked
    PROVE  P!Trade
<1>1. pos'.sold \in Nat /\ pos'.bought \in Nat
  BY DEF Settled, PosType
<1> QED
  BY <1>1, Facts DEF Settled, P!Trade

LEMMA SellOutIsTrade ==
    ASSUME Inv, NEW amount \in Nat, NEW sliced \in BOOLEAN, NEW f \in Fills(order),
           SellOut(amount, sliced, f)
    PROVE  P!Trade
<1>1. Settled(pos') /\ asked' = asked
  BY BookedIs DEF SellOut, Ending
<1> QED
  BY <1>1, SettledIsTrade, Facts

LEMMA StepPromise == Inv /\ [Next]_vars => [P!Next]_P!vars
<1> SUFFICES ASSUME Inv, [Next]_vars PROVE P!Trade \/ P!End \/ UNCHANGED P!vars
  BY DEF P!Next
<1>1. CASE Tick \/ EntryDone \/ UNCHANGED vars
  BY <1>1 DEF Tick, EntryDone, vars, P!vars
<1>2. CASE Enter
  <2>1. /\ asked' \in Nat /\ pos'.bought = 0 /\ pos'.sold = 0 /\ pos.bought = pos.sold
    BY <1>2, NoneFields, IcebergAssumption DEF Enter, Inv, ClosedIsDone, NoPos
  <2> QED
    BY <2>1 DEF P!End
<1>3. ASSUME NEW f \in Fills(order), Finish(f) PROVE P!Trade \/ P!End
  <2>1. CASE order.side = "entry" /\ f = 0 /\ pos.bought = 0
    <3>1. pos.bought = pos.sold
      BY <2>1, Facts DEF Inv, AmountCovers
    <3> QED
      BY <1>3, <2>1, <3>1, NoneFields DEF Finish, P!End
  <2>2. CASE ~(order.side = "entry" /\ f = 0 /\ pos.bought = 0)
    BY <1>3, <2>2, BookedIs, SettledIsTrade, Facts DEF Finish, Ending
  <2> QED
    BY <2>1, <2>2
<1>4. ASSUME NEW f \in Fills(order), Adjust(f) PROVE P!Trade
  <2> DEFINE p == Booked(order, f)
  <2>1. Settled(p)
    BY BookedIs
  <2>2. pos' = [p EXCEPT !.open = TRUE] /\ asked' = asked + AddOn
    BY <1>4 DEF Adjust
  <2> HIDE DEF p
  <2>3. Settled(pos')
    BY <2>1, <2>2 DEF Settled, PosType
  <2> QED
    BY <2>2, <2>3, SettledIsTrade, Facts, IcebergAssumption
<1>5. ASSUME NEW f \in Fills(order), Trim(f) PROVE P!Trade
  <2>1. PICK n \in 1..(pos.amount - 1) : SellOut(n, FALSE, f)
    BY <1>5 DEF Trim
  <2>2. n \in Nat
    BY <2>1, Facts
  <2> QED
    BY <1>5, <2>1, <2>2, SellOutIsTrade
<1>6. ASSUME NEW f \in Fills(order), Reprice(f) PROVE P!Trade
  <2>1. order.amount - f \in Nat
    BY Facts DEF Fills
  <2>2. SellOut(order.amount - f, TRUE, f)
    BY <1>6 DEF Reprice
  <2> QED
    BY <1>6, <2>1, <2>2, SellOutIsTrade
<1>7. ASSUME NEW f \in Fills(order), NextExit(f) PROVE P!Trade
  BY <1>7, BookedIs, SettledIsTrade, Facts DEF NextExit, Ending
<1>8. ASSUME NEW f \in Fills(order), NextEntry(f) PROVE P!Trade
  <2>1. Settled(pos')
    BY <1>8, BookedIs DEF NextEntry, Ending
  <2>2. Remaining \in Nat
    BY Facts DEF Remaining, Larger
  <2>3. Stake(Remaining) \in Nat
    BY <2>2, StakeNat
  <2>4. asked' \in Nat /\ asked' >= asked
    BY <1>8, <2>2, <2>3, Facts DEF NextEntry, Larger
  <2> QED
    BY <2>1, <2>4, SettledIsTrade
<1>9. ASSUME NEW f \in Fills(order), NEW sliced \in BOOLEAN, Sell(sliced, f) PROVE P!Trade
  BY <1>9, SellOutIsTrade, Facts DEF Sell
<1> QED
  BY <1>1, <1>2, <1>3, <1>4, <1>5, <1>6, <1>7, <1>8, <1>9 DEF Next

\* The slices of an iceberg order keep the promise of the position: in whatever way
\* the entries and exits are cut, they buy no more than was asked for and sell no more
\* than they bought.
THEOREM Refinement == Spec => Promise
<1>1. Init => P!Init
  BY NoneFields DEF Init, P!Init
<1>2. Inv /\ [Next]_vars => [P!Next]_P!vars
  BY StepPromise
<1> QED
  BY <1>1, <1>2, Invariant, PTL DEF Spec, Promise, P!Spec
=============================================================================
