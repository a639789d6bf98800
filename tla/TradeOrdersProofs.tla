--------------------------- MODULE TradeOrdersProofs ---------------------------
(***************************************************************************)
(* Proofs about TradeOrders, for every value of its constants.             *)
(*                                                                         *)
(* The invariant is built in layers, and each step is looked at once in    *)
(* each.  OrderInv is about the orders alone: a handler that is at work    *)
(* has one order to work on, and a live order has an open row unless the   *)
(* trade is deleted.  AmountInv bounds what the orders ask for.  Ledger    *)
(* says that the amount of the trade is what its rows add up to.  These    *)
(* three hold in every configuration.  On top of them, Gone says what is   *)
(* left of a trade that is closed or deleted, and holds unless orders are  *)
(* replaced or /reload_trade is sent; Single and Held say that an open     *)
(* trade has what it says, and hold without position adjustment and        *)
(* without IOC and FOK orders.  Most steps of all layers but the first are *)
(* one of Forward, what the exchange does with an order, together with one *)
(* of TableMove, what a handler does to the tables once it knows it;       *)
(* placing an order and the walk of handle_onexchange_order are the        *)
(* others.  Sums over the orders are defined by recursion; the lemmas      *)
(* Net... say of them what is needed.                                      *)
(***************************************************************************)
EXTENDS TradeOrders, FiniteSetTheorems, WellFoundedInduction, TLAPS

---------------------------------------------------------------------------
(* Induction over the numbers up to N, for a set of them: the library's     *)
(* induction theorems take an operator, a least counterexample does not.    *)

\* A set of natural numbers has a least element.
LEMMA LeastElement ==
    ASSUME NEW T \in SUBSET Nat, T # {}
    PROVE  \E x \in T : \A y \in T : x <= y
<1> DEFINE Less == OpToRel(<, Nat)
<1>1. PICK x \in T : \A y \in T : ~(<<y, x>> \in Less)
  <2>1. IsWellFoundedOn(Less, Nat)
    BY NatLessThanWellFounded
  <2> HIDE DEF Less
  <2>2. QED
    BY <2>1, WFMin
<1>2. \A m, n \in Nat : m < n => <<m, n>> \in Less
  BY DEF OpToRel
<1> HIDE DEF Less
<1>3. ASSUME NEW y \in T PROVE x <= y
  <2>1. x \in Nat /\ y \in Nat /\ ~(y < x)
    BY <1>1, <1>2
  <2>2. QED
    BY <2>1
<1>4. QED
  BY <1>1, <1>3

\* A set that has 0, and n whenever it has n - 1, has every number up to N.
LEMMA Induction ==
    ASSUME NEW N \in Nat, NEW T \in SUBSET (0..N), 0 \in T,
           \A n \in 1..N : n - 1 \in T => n \in T
    PROVE  T = 0..N
<1> DEFINE Rest == (0..N) \ T
<1> SUFFICES ASSUME Rest # {} PROVE FALSE
  OBVIOUS
<1>1. PICK n \in Rest : \A y \in Rest : n <= y
  <2>1. Rest \in SUBSET Nat
    OBVIOUS
  <2> HIDE DEF Rest
  <2>2. QED
    BY <2>1, LeastElement
<1>2. n \in 1..N
  BY <1>1
<1>3. n - 1 \in T
  BY <1>1, <1>2
<1>4. QED
  BY <1>1, <1>2, <1>3

---------------------------------------------------------------------------
(* Sums over the orders.                                                   *)

\* A function that starts with init and goes on by the steps F exists.
Runs(N, V, init, F) ==
    \E g \in [0..N -> V] : g[0] = init /\ \A m \in 1..N : g[m] = F[m][g[m - 1]]

\* The function that starts with init and goes on by F exists.
LEMMA Recursion ==
    ASSUME NEW N \in Nat, NEW V, NEW init \in V, NEW F \in [1..N -> [V -> V]]
    PROVE  Runs(N, V, init, F)
<1> DEFINE Reaches(n) == \E g \in [0..n -> V] :
                            g[0] = init /\ \A m \in 1..n : g[m] = F[m][g[m - 1]]
           T == {n \in 0..N : Reaches(n)}
<1>1. 0 \in T
  <2> DEFINE k == [m \in 0..0 |-> init]
  <2>1. k \in [0..0 -> V] /\ k[0] = init /\ 1..0 = {}
    OBVIOUS
  <2>2. Reaches(0)
    <3> HIDE DEF k
    <3>1. QED
      BY <2>1
  <2>3. QED
    BY <2>2
<1>2. ASSUME NEW n \in 1..N, n - 1 \in T
      PROVE  n \in T
  <2>1. PICK g \in [0..(n - 1) -> V] :
           g[0] = init /\ \A m \in 1..(n - 1) : g[m] = F[m][g[m - 1]]
    BY <1>2
  <2> DEFINE k == [m \in 0..n |-> IF m = n THEN F[n][g[n - 1]] ELSE g[m]]
  <2>2. k \in [0..n -> V]
    BY <2>1
  <2>3. k[0] = init
    BY <2>1
  <2>4. ASSUME NEW m \in 1..n
        PROVE  k[m] = F[m][k[m - 1]]
    <3>1. k[m - 1] = g[m - 1] /\ m \in 0..n /\ n \in 1..N
      BY <2>4
    <3>2. CASE m = n
      BY <3>1, <3>2
    <3>3. CASE m # n
      <4>1. m \in 1..(n - 1) /\ k[m] = g[m]
        BY <3>1, <3>3
      <4>2. QED
        BY <4>1, <3>1, <2>1
    <3>4. QED
      BY <3>2, <3>3
  <2>5. Reaches(n)
    <3> HIDE DEF k
    <3>1. QED
      BY <2>2, <2>3, <2>4
  <2>6. QED
    BY <2>5
<1>3. T = 0..N
  <2>1. T \in SUBSET (0..N)
    OBVIOUS
  <2> HIDE DEF T
  <2>2. QED
    BY <2>1, <1>1, <1>2, Induction
<1>4. Reaches(N)
  <2>1. N \in T
    BY <1>3
  <2> HIDE DEF Reaches
  <2> QED BY <2>1
<1>5. QED
  BY <1>4 DEF Runs

\* Orders with whole amounts.
Amounts == [side : Sides, status : {"none", "open", "closed", "canceled"},
            amount : Nat, filled : Nat]

\* What order n adds to Net(R, S).
Term(R, S, n) == IF n \in S THEN Signed(R[n]) ELSE 0

\* Net is the last of the partial sums.
LEMMA NetSteps ==
    ASSUME NEW R \in [Oids -> Amounts], NEW S
    PROVE  \E s \in [0..MaxOrders -> Int] :
              /\ s[0] = 0 /\ Net(R, S) = s[MaxOrders]
              /\ \A n \in Oids : s[n] = s[n - 1] + Term(R, S, n)
<1> MaxOrders \in Nat
  BY OrdersAssumption
<1> DEFINE F == [n \in 1..MaxOrders |-> [v \in Int |-> v + Term(R, S, n)]]
           P(g) == g = [n \in 0..MaxOrders |->
                          IF n = 0 THEN 0
                          ELSE g[n - 1] + (IF n \in S THEN Signed(R[n]) ELSE 0)]
<1>1. \A n \in Oids : Term(R, S, n) \in Int
  BY DEF Term, Signed, Amounts
<1>2. PICK g \in [0..MaxOrders -> Int] :
         g[0] = 0 /\ \A n \in 1..MaxOrders : g[n] = F[n][g[n - 1]]
  <2>1. F \in [1..MaxOrders -> [Int -> Int]]
    BY <1>1 DEF Oids
  <2> HIDE DEF F
  <2>2. Runs(MaxOrders, Int, 0, F)
    BY <2>1, 0 \in Int, MaxOrders \in Nat, Recursion
  <2>3. QED
    BY <2>2 DEF Runs
<1>3. \E f : P(f)
  <2>1. \A n \in 0..MaxOrders : n # 0 =>
           g[n] = g[n - 1] + (IF n \in S THEN Signed(R[n]) ELSE 0)
    <3> SUFFICES ASSUME NEW n \in 0..MaxOrders, n # 0
                 PROVE  g[n] = g[n - 1] + Term(R, S, n)
      BY DEF Term
    <3>1. n \in 1..MaxOrders /\ g[n - 1] \in Int
      OBVIOUS
    <3>2. QED
      BY <3>1, <1>2
  <2>2. g = [n \in 0..MaxOrders |-> g[n]]
    OBVIOUS
  <2>3. P(g)
    BY <2>1, <2>2, <1>2
  <2>4. QED
    BY <2>3
<1> DEFINE s == CHOOSE f : P(f)
<1>4. P(s)
  BY <1>3
<1>5. Net(R, S) = s[MaxOrders]
  BY DEF Net
<1> HIDE DEF s
<1>6. s[0] = 0 /\ \A n \in Oids : s[n] = s[n - 1] + Term(R, S, n)
  BY <1>4 DEF Oids, Term
<1> DEFINE U == {n \in 0..MaxOrders : s[n] \in Int}
<1>7. U = 0..MaxOrders
  <2>1. 0 \in U /\ U \in SUBSET (0..MaxOrders)
    BY <1>6
  <2>2. ASSUME NEW n \in 1..MaxOrders, n - 1 \in U PROVE n \in U
    BY <2>2, <1>1, <1>6 DEF Oids
  <2> HIDE DEF U
  <2>3. QED
    BY <2>1, <2>2, Induction
<1>8. s \in [0..MaxOrders -> Int]
  BY <1>4, <1>7
<1>9. QED
  BY <1>5, <1>6, <1>8

\* The sum is a number.
LEMMA NetType ==
    ASSUME NEW R \in [Oids -> Amounts], NEW S
    PROVE  Net(R, S) \in Int
BY NetSteps, OrdersAssumption

\* Two tables that differ in one order differ by it.
LEMMA NetDiffers ==
    ASSUME NEW R \in [Oids -> Amounts], NEW S, NEW Q \in [Oids -> Amounts], NEW U,
           NEW k \in Oids, \A n \in Oids \ {k} : Term(R, S, n) = Term(Q, U, n)
    PROVE  Net(R, S) - Net(Q, U) = Term(R, S, k) - Term(Q, U, k)
<1> MaxOrders \in Nat
  BY OrdersAssumption
<1>1. PICK r \in [0..MaxOrders -> Int] :
         /\ r[0] = 0 /\ Net(R, S) = r[MaxOrders]
         /\ \A n \in Oids : r[n] = r[n - 1] + Term(R, S, n)
  BY NetSteps
<1>2. PICK q \in [0..MaxOrders -> Int] :
         /\ q[0] = 0 /\ Net(Q, U) = q[MaxOrders]
         /\ \A n \in Oids : q[n] = q[n - 1] + Term(Q, U, n)
  BY NetSteps
<1>3. \A n \in Oids : Term(R, S, n) \in Int /\ Term(Q, U, n) \in Int
  BY DEF Term, Signed, Amounts
<1> DEFINE T == {n \in 0..MaxOrders :
                    r[n] - q[n] = IF n < k THEN 0 ELSE Term(R, S, k) - Term(Q, U, k)}
<1>4. T = 0..MaxOrders
  <2>1. 0 \in T /\ T \in SUBSET (0..MaxOrders)
    BY <1>1, <1>2 DEF Oids
  <2>2. ASSUME NEW n \in 1..MaxOrders, n - 1 \in T PROVE n \in T
    <3>1. n \in Oids /\ n - 1 \in 0..MaxOrders /\ k \in Int
      BY DEF Oids
    <3>2. r[n] = r[n - 1] + Term(R, S, n) /\ q[n] = q[n - 1] + Term(Q, U, n)
      BY <3>1, <1>1, <1>2
    <3>3. r[n - 1] - q[n - 1] = IF n - 1 < k THEN 0 ELSE Term(R, S, k) - Term(Q, U, k)
      BY <2>2
    <3>4. r[n - 1] \in Int /\ q[n - 1] \in Int
      BY <3>1
    <3>5. r[n] - q[n] = IF n < k THEN 0 ELSE Term(R, S, k) - Term(Q, U, k)
      <4>1. CASE n = k
        <5>1. /\ r[k] = r[n - 1] + Term(R, S, k) /\ q[k] = q[n - 1] + Term(Q, U, k)
              /\ Term(R, S, k) \in Int /\ Term(Q, U, k) \in Int
          BY <3>1, <3>2, <4>1, <1>3
        <5>2. n - 1 < k /\ ~(k < k)
          BY <3>1, <4>1
        <5>3. r[n - 1] - q[n - 1] = 0
          BY <3>3, <5>2
        <5>4. r[k] - q[k] = Term(R, S, k) - Term(Q, U, k)
          BY <5>1, <5>3, <3>4
        <5>5. QED
          BY <4>1, <5>2, <5>4
      <4>2. CASE n # k
        <5>1. Term(R, S, n) = Term(Q, U, n)
          BY <3>1, <4>2
        <5>2. Term(R, S, n) \in Int /\ Term(R, S, k) \in Int /\ Term(Q, U, k) \in Int
          BY <3>1, <1>3
        <5>3. n - 1 < k <=> n < k
          BY <3>1, <4>2
        <5>4. QED
          BY <3>2, <3>3, <3>4, <5>1, <5>2, <5>3
      <4>3. QED
        BY <4>1, <4>2
    <3>6. QED
      BY <3>5
  <2> HIDE DEF T
  <2>3. QED
    BY <2>1, <2>2, Induction
<1>5. r[MaxOrders] - q[MaxOrders] = Term(R, S, k) - Term(Q, U, k)
  <2>1. \A n \in 0..MaxOrders :
            r[n] - q[n] = IF n < k THEN 0 ELSE Term(R, S, k) - Term(Q, U, k)
    BY <1>4
  <2>2. MaxOrders \in 0..MaxOrders /\ ~(MaxOrders < k)
    BY DEF Oids
  <2>3. QED
    BY <2>1, <2>2
<1>6. QED
  BY <1>1, <1>2, <1>5

\* It depends on the terms only.
LEMMA NetSame ==
    ASSUME NEW R \in [Oids -> Amounts], NEW S, NEW Q \in [Oids -> Amounts], NEW U,
           \A n \in Oids : Term(R, S, n) = Term(Q, U, n)
    PROVE  Net(R, S) = Net(Q, U)
<1>1. 1 \in Oids
  BY OrdersAssumption DEF Oids
<1>2. \A n \in Oids : Term(R, S, n) \in Int
  BY DEF Term, Signed, Amounts
<1>3. Net(R, S) - Net(Q, U) = Term(R, S, 1) - Term(Q, U, 1)
  BY <1>1, NetDiffers
<1>4. QED
  BY <1>1, <1>2, <1>3, NetType

\* It is not above 0 when no term is.
LEMMA NetNotPositive ==
    ASSUME NEW R \in [Oids -> Amounts], NEW S,
           \A n \in Oids : Term(R, S, n) <= 0
    PROVE  Net(R, S) <= 0
<1> MaxOrders \in Nat
  BY OrdersAssumption
<1>1. PICK r \in [0..MaxOrders -> Int] :
         /\ r[0] = 0 /\ Net(R, S) = r[MaxOrders]
         /\ \A n \in Oids : r[n] = r[n - 1] + Term(R, S, n)
  BY NetSteps
<1>2. \A n \in Oids : Term(R, S, n) \in Int
  BY DEF Term, Signed, Amounts
<1> DEFINE T == {n \in 0..MaxOrders : r[n] <= 0}
<1>3. T = 0..MaxOrders
  <2>1. 0 \in T /\ T \in SUBSET (0..MaxOrders)
    BY <1>1
  <2>2. ASSUME NEW n \in 1..MaxOrders, n - 1 \in T PROVE n \in T
    <3>1. n \in Oids /\ n - 1 \in 0..MaxOrders
      BY DEF Oids
    <3>2. QED
      BY <3>1, <2>2, <1>1, <1>2
  <2> HIDE DEF T
  <2>3. QED
    BY <2>1, <2>2, Induction
<1>4. QED
  BY <1>1, <1>3

\* It is 0 when every term is.
LEMMA NetNothing ==
    ASSUME NEW R \in [Oids -> Amounts], NEW S,
           \A n \in Oids : Term(R, S, n) = 0
    PROVE  Net(R, S) = 0
<1> MaxOrders \in Nat
  BY OrdersAssumption
<1>1. PICK r \in [0..MaxOrders -> Int] :
         /\ r[0] = 0 /\ Net(R, S) = r[MaxOrders]
         /\ \A n \in Oids : r[n] = r[n - 1] + Term(R, S, n)
  BY NetSteps
<1> DEFINE T == {n \in 0..MaxOrders : r[n] = 0}
<1>2. T = 0..MaxOrders
  <2>1. 0 \in T /\ T \in SUBSET (0..MaxOrders)
    BY <1>1
  <2>2. ASSUME NEW n \in 1..MaxOrders, n - 1 \in T PROVE n \in T
    <3>1. n \in Oids /\ n - 1 \in 0..MaxOrders
      BY DEF Oids
    <3>2. QED
      BY <3>1, <2>2, <1>1
  <2> HIDE DEF T
  <2>3. QED
    BY <2>1, <2>2, Induction
<1>3. QED
  BY <1>1, <1>2

---------------------------------------------------------------------------
(* The invariant behind OneLiveOrder, for every value of the constants.     *)

Trades == [status : {"none", "open", "closed", "deleted"}, amount : Nat]
Tasks == [step : {"idle", "manage", "cancel", "clear", "startup"},
          todo : SUBSET Oids, why : Reasons, size : Nat, gone : BOOLEAN]

AtMostOne(S) == \A o, p \in S : o = p

\* The list of a handler has one order at most, and one that is at work has one.
Listed == AtMostOne(task.todo) /\ (task.step \in {"manage", "cancel", "startup"} => task.todo # {})

\* The trade is deleted, and what is left of the handler places no order.
Over ==
    /\ trade.status = "deleted" /\ rows = NoRows
    /\ \/ task.step = "idle"
       \/ task.step = "clear" /\ task.todo = {} /\ ~Replacing /\ (task.why = "force" => task.gone)

OrderInv ==
    /\ exch \in [Oids -> Amounts] /\ rows \in [Oids -> Amounts]
    /\ trade \in Trades /\ task \in Tasks
    /\ Listed
    /\ trade.status = "none" => rows = NoRows /\ task = Idle
    /\ AtMostOne(OpenRows(rows)) /\ AtMostOne(Live)
    /\ IF trade.status = "deleted" THEN Over ELSE Live \subseteq OpenRows(rows)

\* A recorded row is a row.
LEMMA RecordedType ==
    ASSUME NEW R \in [Oids -> Amounts], NEW o \in Oids, NEW a \in Amounts
    PROVE  /\ Recorded(R, o, a) \in [Oids -> Amounts]
           /\ Recorded(R, o, a)[o] = a
           /\ \A p \in Oids \ {o} : Recorded(R, o, a)[p] = R[p]
BY DEF Recorded

\* Booking changes the status of a trade only to close one that is open.
LEMMA SettledType ==
    ASSUME NEW t \in Trades, NEW R \in [Oids -> Amounts], NEW o \in Oids, NEW a \in Amounts,
           NEW b
    PROVE  /\ Settled(t, R, o, a, b) \in Trades
           /\ \/ Settled(t, R, o, a, b).status = t.status
              \/ t.status = "open" /\ Settled(t, R, o, a, b).status = "closed"
<1> DEFINE Q == Recorded(R, o, a)
<1>1. Q \in [Oids -> Amounts]
  BY RecordedType
<1>2. Recalculated(Q) \in Int
  BY <1>1, NetType DEF Recalculated
<1>3. ASSUME NEW u \in Trades
      PROVE  Recalc(u, Q) \in Trades /\ Recalc(u, Q).status = u.status
  BY <1>2 DEF Recalc, Trades
<1>4. [t EXCEPT !.amount = Q[o].filled] \in Trades
  BY <1>1 DEF Trades, Amounts
<1>5. [t EXCEPT !.status = IF @ = "open" THEN "closed" ELSE @] \in Trades
  BY DEF Trades
<1> HIDE DEF Q
<1>6. /\ Book(t, Q, o, b) \in Trades
      /\ \/ Book(t, Q, o, b).status = t.status
         \/ t.status = "open" /\ Book(t, Q, o, b).status = "closed"
  BY <1>3, <1>4, <1>5 DEF Book, Trades
<1>7. QED
  BY <1>6 DEF Settled, Q

\* Rows and trade in the course of handle_onexchange_order, and its step for order n.
Tables == [rows : [Oids -> Amounts], trade : Trades]
Recalculating == TRUE

WalkStep(n, w) ==
    IF exch[n].status = "none" THEN w
    ELSE [rows  |-> Recorded(w.rows, n, exch[n]),
          trade |-> Settled(w.trade, w.rows, n, exch[n], Recalculating)]

\* What one step does.
LEMMA WalkStepType ==
    ASSUME exch \in [Oids -> Amounts], NEW n \in Oids, NEW w \in Tables
    PROVE  /\ WalkStep(n, w) \in Tables
           /\ \A o \in Oids : WalkStep(n, w).rows[o] =
                 IF o = n /\ exch[n].status # "none" THEN exch[n] ELSE w.rows[o]
           /\ \/ WalkStep(n, w).trade.status = w.trade.status
              \/ w.trade.status = "open" /\ WalkStep(n, w).trade.status = "closed"
<1>1. exch[n] \in Amounts /\ w.rows \in [Oids -> Amounts] /\ w.trade \in Trades
  BY DEF Tables
<1>2. CASE exch[n].status = "none"
  BY <1>1, <1>2 DEF WalkStep
<1>3. CASE exch[n].status # "none"
  <2> DEFINE R == Recorded(w.rows, n, exch[n])
             t == Settled(w.trade, w.rows, n, exch[n], Recalculating)
  <2>1. R \in [Oids -> Amounts] /\ R[n] = exch[n] /\ \A p \in Oids \ {n} : R[p] = w.rows[p]
    BY <1>1 DEF Recorded
  <2>2. t = Settled(w.trade, w.rows, n, exch[n], Recalculating)
    OBVIOUS
  <2>3. WalkStep(n, w) = [rows |-> R, trade |-> t]
    BY <1>3 DEF WalkStep
  <2> HIDE DEF t, R
  <2>4. t \in Trades /\ (t.status = w.trade.status \/ (w.trade.status = "open" /\ t.status = "closed"))
    BY <1>1, <2>2, SettledType
  <2>5. QED
    BY <2>1, <2>3, <2>4, <1>3 DEF Tables
<1>4. QED
  BY <1>2, <1>3

\* The walk over the orders stays in sets of tables that its steps lead through.
LEMMA WalkedIn ==
    ASSUME exch \in [Oids -> Amounts], rows \in [Oids -> Amounts], trade \in Trades,
           NEW V \in [0..MaxOrders -> SUBSET Tables],
           [rows |-> rows, trade |-> trade] \in V[0],
           \A n \in Oids : \A w \in V[n - 1] : WalkStep(n, w) \in V[n]
    PROVE  Walked \in V[MaxOrders]
<1> MaxOrders \in Nat
  BY OrdersAssumption
<1> DEFINE F == [n \in 1..MaxOrders |-> [w \in Tables |-> WalkStep(n, w)]]
           w0 == [rows |-> rows, trade |-> trade]
           P(g) == g = [n \in 0..MaxOrders |->
                          IF n = 0 THEN [rows |-> rows, trade |-> trade]
                          ELSE LET was == g[n - 1]
                               IN  IF exch[n].status = "none" THEN was
                                   ELSE [rows  |-> Recorded(was.rows, n, exch[n]),
                                         trade |-> Settled(was.trade, was.rows, n, exch[n], TRUE)]]
<1>1. w0 \in Tables
  BY DEF Tables
<1>2. \E g : P(g)
  <2>1. F \in [1..MaxOrders -> [Tables -> Tables]]
    BY WalkStepType DEF Oids
  <2>2. \A n \in 1..MaxOrders, w \in Tables : F[n][w] = WalkStep(n, w)
    OBVIOUS
  <2> HIDE DEF F, w0
  <2>3. Runs(MaxOrders, Tables, w0, F)
    BY <2>1, <1>1, MaxOrders \in Nat, Recursion
  <2>4. PICK g \in [0..MaxOrders -> Tables] :
           g[0] = w0 /\ \A n \in 1..MaxOrders : g[n] = F[n][g[n - 1]]
    BY <2>3 DEF Runs
  <2>5. \A n \in 0..MaxOrders : n # 0 => g[n] = WalkStep(n, g[n - 1])
    <3> SUFFICES ASSUME NEW n \in 0..MaxOrders, n # 0
                 PROVE  g[n] = WalkStep(n, g[n - 1])
      OBVIOUS
    <3>1. n \in 1..MaxOrders /\ g[n - 1] \in Tables
      OBVIOUS
    <3>2. QED
      BY <3>1, <2>2, <2>4
  <2>6. g = [n \in 0..MaxOrders |-> g[n]]
    OBVIOUS
  <2>7. P(g)
    BY <2>4, <2>5, <2>6 DEF WalkStep, Recalculating, w0
  <2>8. QED
    BY <2>7
<1> DEFINE s == CHOOSE g : P(g)
<1>3. P(s)
  BY <1>2
<1>4. Walked = s[MaxOrders]
  BY DEF Walked
<1> HIDE DEF s
<1>5. s[0] = w0 /\ \A n \in 1..MaxOrders : s[n] = WalkStep(n, s[n - 1])
  <2>1. \A n \in 0..MaxOrders : s[n] = IF n = 0 THEN w0 ELSE WalkStep(n, s[n - 1])
    BY <1>3 DEF WalkStep, Recalculating, w0
  <2> HIDE DEF P
  <2>2. QED
    BY <2>1
<1> HIDE DEF P
<1> DEFINE T == {n \in 0..MaxOrders : s[n] \in V[n]}
<1>6. T = 0..MaxOrders
  <2>1. 0 \in T /\ T \in SUBSET (0..MaxOrders)
    BY <1>5
  <2>2. ASSUME NEW n \in 1..MaxOrders, n - 1 \in T PROVE n \in T
    <3>1. n \in Oids /\ s[n - 1] \in V[n - 1] /\ s[n] = WalkStep(n, s[n - 1])
      BY <2>2, <1>5 DEF Oids
    <3>2. QED
      BY <3>1
  <2> HIDE DEF T
  <2>3. QED
    BY <2>1, <2>2, Induction
<1>7. QED
  BY <1>4, <1>6

\* What handle_onexchange_order leaves behind: every order of the exchange is
\* recorded as it is there.
LEMMA WalkedTables ==
    ASSUME exch \in [Oids -> Amounts], rows \in [Oids -> Amounts], trade \in Trades
    PROVE  /\ Walked.rows \in [Oids -> Amounts] /\ Walked.trade \in Trades
           /\ \A o \in Oids : Walked.rows[o] = IF exch[o].status = "none" THEN rows[o] ELSE exch[o]
           /\ \/ Walked.trade.status = trade.status
              \/ trade.status = "open" /\ Walked.trade.status = "closed"
<1> MaxOrders \in Nat
  BY OrdersAssumption
<1> DEFINE Fine(n, w) ==
              /\ \A o \in Oids : w.rows[o] =
                    IF o <= n /\ exch[o].status # "none" THEN exch[o] ELSE rows[o]
              /\ \/ w.trade.status = trade.status
                 \/ trade.status = "open" /\ w.trade.status = "closed"
           V == [n \in 0..MaxOrders |-> {w \in Tables : Fine(n, w)}]
           w0 == [rows |-> rows, trade |-> trade]
<1>1. V \in [0..MaxOrders -> SUBSET Tables]
  OBVIOUS
<1>2. w0 \in V[0]
  <2>1. w0 \in Tables /\ Fine(0, w0)
    BY DEF Tables, Oids
  <2>2. QED
    BY <2>1
<1>3. ASSUME NEW n \in Oids, NEW w \in V[n - 1] PROVE WalkStep(n, w) \in V[n]
  <2>1. n \in 1..MaxOrders /\ n - 1 \in 0..MaxOrders
    BY DEF Oids
  <2>2. w \in Tables /\ Fine(n - 1, w)
    BY <2>1
  <2> DEFINE v == WalkStep(n, w)
  <2>3. /\ v \in Tables
        /\ \A o \in Oids : v.rows[o] =
              IF o = n /\ exch[n].status # "none" THEN exch[n] ELSE w.rows[o]
        /\ \/ v.trade.status = w.trade.status
           \/ w.trade.status = "open" /\ v.trade.status = "closed"
    BY <2>2, WalkStepType
  <2> HIDE DEF v
  <2>4. ASSUME NEW o \in Oids
        PROVE  v.rows[o] = IF o <= n /\ exch[o].status # "none" THEN exch[o] ELSE rows[o]
    <3>1. v.rows[o] = IF o = n /\ exch[n].status # "none" THEN exch[n] ELSE w.rows[o]
      BY <2>3
    <3>2. w.rows[o] = IF o <= n - 1 /\ exch[o].status # "none" THEN exch[o] ELSE rows[o]
      BY <2>2
    <3>3. o \in Int /\ n \in Int
      BY DEF Oids
    <3>4. QED
      BY <3>1, <3>2, <3>3
  <2>5. Fine(n, v)
    BY <2>2, <2>3, <2>4
  <2>6. QED
    BY <2>1, <2>3, <2>5 DEF v
<1> HIDE DEF V
<1>4. Walked \in V[MaxOrders]
  BY <1>1, <1>2, <1>3, WalkedIn
<1>5. Walked \in Tables /\ Fine(MaxOrders, Walked)
  BY <1>4 DEF V
<1>6. QED
  BY <1>5 DEF Tables, Oids

\* First takes the only element of a list that has one.
LEMMA OnlyElement ==
    ASSUME NEW S \in SUBSET Oids, AtMostOne(S), S # {}
    PROVE  First(S) \in S /\ S = {First(S)} /\ Cardinality(S) = 1
<1>1. PICK x \in S : S = {x}
  BY DEF AtMostOne
<1>2. First(S) = x
  BY <1>1 DEF First, Oids
<1>3. QED
  BY <1>1, <1>2, FS_Singleton

\* The list of a handler has one order, so its loop has one round.
LEMMA OneRound ==
    ASSUME OrderInv, task.todo # {}
    PROVE  /\ First(task.todo) \in Oids /\ task.todo = {First(task.todo)}
           /\ Loop = Idle
BY OnlyElement DEF OrderInv, Listed, Tasks, Loop

\* The idle task.
LEMMA IdleTask == Idle \in Tasks /\ Idle.step = "idle" /\ Idle.todo = {} /\ Idle.why = "none"
BY DEF Idle, Tasks, Reasons

\* A handler at work has a trade, and it is not over.
LEMMA AtWork ==
    ASSUME OrderInv, task.step # "idle",
           ~(task.step = "clear" /\ task.todo = {} /\ ~Replacing /\ (task.why = "force" => task.gone))
    PROVE  trade.status \in {"open", "closed"} /\ Live \subseteq OpenRows(rows)
BY IdleTask DEF OrderInv, Over, Trades

\* No order is opened.
Quiet == exch' \in [Oids -> Amounts] /\ Live' \subseteq Live

\* The handler goes on with a list as a handler has it.
GoesOn == task' \in Tasks /\ Listed'

\* A step that records nothing.
LEMMA KeptRows ==
    ASSUME OrderInv, trade.status \in {"open", "closed"}, Live \subseteq OpenRows(rows),
           Quiet, GoesOn, UntouchedTrade
    PROVE  OrderInv'
BY DEF OrderInv, Quiet, GoesOn, UntouchedTrade, AtMostOne, Live, OpenRows

\* A step that records what the exchange has of an order (update_trade_state).
LEMMA RecordedRow ==
    ASSUME OrderInv, trade.status \in {"open", "closed"}, Live \subseteq OpenRows(rows),
           Quiet, GoesOn, NEW o \in Oids, Record(o, exch'[o])
    PROVE  OrderInv' /\ OpenRows(rows') \subseteq OpenRows(rows)
<1>1. exch'[o] \in Amounts
  BY DEF Quiet
<1>2. /\ rows' \in [Oids -> Amounts] /\ rows'[o] = exch'[o]
      /\ \A p \in Oids \ {o} : rows'[p] = rows[p]
  BY <1>1, RecordedType DEF Record, OrderInv
<1>3. trade' \in Trades /\ trade'.status \in {"open", "closed"}
  <2> DEFINE no == FALSE
  <2>1. trade' = Settled(trade, rows, o, exch'[o], no)
    BY DEF Record
  <2> HIDE DEF no
  <2>2. QED
    BY <1>1, <2>1, SettledType DEF OrderInv
<1>4. Live' \subseteq OpenRows(rows') /\ OpenRows(rows') \subseteq OpenRows(rows)
  BY <1>2 DEF Quiet, Live, OpenRows
<1>5. QED
  BY <1>2, <1>3, <1>4 DEF OrderInv, Quiet, GoesOn, AtMostOne

\* A step that deletes the trade.
LEMMA DeletedRows ==
    ASSUME OrderInv, Quiet, GoesOn, DeleteTrade,
           \/ task'.step = "idle"
           \/ /\ task'.step = "clear" /\ task'.todo = {}
              /\ Replacing' = FALSE /\ (task'.why = "force" => task'.gone)
    PROVE  OrderInv'
<1>1. NoRows \in [Oids -> Amounts] /\ OpenRows(NoRows) = {}
  BY DEF NoRows, NoOrder, Amounts, OpenRows, Sides
<1>2. rows' = NoRows /\ trade' \in Trades /\ trade'.status = "deleted"
  BY DEF DeleteTrade, OrderInv, Trades
<1>3. Over'
  BY <1>2 DEF Over
<1>4. AtMostOne(Live')
  BY DEF OrderInv, Quiet, AtMostOne
<1>5. QED
  BY <1>1, <1>2, <1>3, <1>4 DEF OrderInv, Quiet, GoesOn, AtMostOne

---------------------------------------------------------------------------

\* An order fills, or is cancelled by someone else.
LEMMA FillKeeps ==
    ASSUME OrderInv, NEW o \in Oids, Fill(o) \/ CancelledOnExchange(o)
    PROVE  OrderInv'
<1>1. Quiet
  BY DEF Quiet, Fill, CancelledOnExchange, Live, OrderInv, Amounts
<1>2. UNCHANGED <<rows, trade, task>>
  BY DEF Fill, CancelledOnExchange
<1>3. QED
  BY <1>1, <1>2 DEF OrderInv, Quiet, AtMostOne, Listed, Over, Replacing, Live, OpenRows

\* The actions, one by one.
LEMMA ManageKeeps ==
    ASSUME OrderInv, Manage PROVE OrderInv'
<1>1. Live \subseteq OpenRows(rows) /\ trade.status \in {"open", "closed"}
  BY DEF OrderInv, Over, Manage
<1>2. GoesOn
  BY DEF OrderInv, Manage, GoesOn, Listed, Idle, Tasks, Reasons, OpenRows
<1>3. Quiet /\ UntouchedTrade
  BY DEF Manage, Quiet, UntouchedTrade, OrderInv, Live
<1>4. QED
  BY <1>1, <1>2, <1>3, KeptRows

\* A handler clears the orders of the trade before it places one.
LEMMA ClearKeeps ==
    ASSUME OrderInv, NEW why \in Reasons, NEW n \in Nat, Clear(why, n) PROVE OrderInv'
<1>1. Live \subseteq OpenRows(rows) /\ trade.status \in {"open", "closed"}
  BY DEF OrderInv, Over, Clear
<1>2. GoesOn
  BY DEF OrderInv, Clear, GoesOn, Listed, Idle, Tasks, Reasons, OpenRows
<1>3. Quiet /\ UntouchedTrade
  BY DEF Clear, Quiet, UntouchedTrade, OrderInv, Live
<1>4. QED
  BY <1>1, <1>2, <1>3, KeptRows

\* manage_open_orders and the requests begin.
LEMMA StartKeeps ==
    ASSUME OrderInv, ExitTrade \/ AdjustTrade \/ ForceExit \/ CancelOpenOrder PROVE OrderInv'
<1>1. /\ {"exit", "add", "trim", "force", "user"} \subseteq Reasons
      /\ trade.amount \in Nat /\ AddSize \in Nat
  BY OrdersAssumption DEF Reasons, OrderInv, Trades
<1>2. PICK why \in Reasons, n \in Nat : Clear(why, n)
  BY <1>1 DEF ExitTrade, AdjustTrade, ForceExit, CancelOpenOrder
<1>3. QED
  BY <1>2, ClearKeeps

\* The process dies.
LEMMA RestartKeeps ==
    ASSUME OrderInv, Restart PROVE OrderInv'
<1>1. GoesOn
  BY DEF OrderInv, Restart, GoesOn, Listed, Idle, Tasks, Reasons, OpenRows, AtMostOne
<1>2. Quiet /\ UntouchedTrade
  BY DEF Restart, Quiet, UntouchedTrade, OrderInv, Live
<1>3. OpenRows(NoRows) = {}
  BY DEF OpenRows, NoRows, NoOrder
<1>4. CASE trade.status = "none"
  <2>1. task' = Idle
    BY <1>3, <1>4 DEF OrderInv, Restart
  <2>2. QED
    BY <2>1, <1>4 DEF OrderInv, Restart, Over, Listed, Live, Replacing, OpenRows
<1>5. CASE trade.status \in {"open", "closed"} /\ Live \subseteq OpenRows(rows)
  BY <1>1, <1>2, <1>5, KeptRows
<1>6. CASE Over
  <2>1. task' = Idle
    BY <1>3, <1>6 DEF Over, Restart
  <2>2. Over'
    BY <2>1, <1>6, IdleTask DEF Over, Restart
  <2>3. trade.status # "none"
    BY <1>6 DEF Over
  <2>4. QED
    BY <1>1, <2>2, <2>3 DEF OrderInv, GoesOn, Restart, Live
<1>7. QED
  BY <1>4, <1>5, <1>6 DEF OrderInv, Trades

\* handle_cancel_enter once the order has ended.
LEMMA EntryEndedKeeps ==
    ASSUME OrderInv, trade.status \in {"open", "closed"}, Live \subseteq OpenRows(rows),
           Quiet, GoesOn, NEW o \in Oids, NEW a, a = exch'[o], EntryEnded(o, a),
           DeleteTrade => \/ task'.step = "idle"
                          \/ /\ task'.step = "clear" /\ task'.todo = {}
                             /\ Replacing' = FALSE /\ (task'.why = "force" => task'.gone)
    PROVE  OrderInv'
<1>1. CASE DeleteTrade
  BY <1>1, DeletedRows
<1>2. CASE Record(o, a)
  BY <1>2, RecordedRow
<1>3. QED
  BY <1>1, <1>2 DEF EntryEnded

\* replace_order_failed.
LEMMA ReplaceFailedKeeps ==
    ASSUME OrderInv, trade.status \in {"open", "closed"}, Live \subseteq OpenRows(rows),
           Quiet, task' = Idle, ReplaceFailed
    PROVE  OrderInv'
<1>1. GoesOn
  BY IdleTask DEF GoesOn, Listed, AtMostOne
<1>2. CASE DeleteTrade
  BY <1>1, <1>2, IdleTask, DeletedRows
<1>3. CASE UntouchedTrade
  BY <1>1, <1>3, KeptRows
<1>4. QED
  BY <1>2, <1>3 DEF ReplaceFailed

\* manage_open_orders fetches an order, and may decide to cancel or to replace it.
LEMMA ManageFetchKeeps ==
    ASSUME OrderInv, ManageFetch PROVE OrderInv'
<1> DEFINE o == First(task.todo)
           a == exch[o]
<1>1. task.step = "manage" /\ task.todo # {}
  BY DEF ManageFetch, OrderInv, Listed
<1>2. trade.status \in {"open", "closed"} /\ Live \subseteq OpenRows(rows)
  BY <1>1, AtWork
<1>3. o \in Oids /\ task.todo = {o} /\ Loop = Idle
  BY <1>1, OneRound
<1>4. Quiet /\ exch' = exch
  BY DEF ManageFetch, Quiet, OrderInv, Live
<1>5. /\ GoesOn
      /\ \/ task' = Idle
         \/ UNCHANGED exch /\ Record(o, a) /\ \E why \in Reasons : task' = [task EXCEPT !.step = "cancel", !.why = why]
  <2>1. task' = Idle \/ \E why \in {"timeout", "drop", "replace"} :
            Record(o, a) /\ task' = [task EXCEPT !.step = "cancel", !.why = why]
    BY <1>3, <1>4 DEF ManageFetch
  <2>2. CASE task' = Idle
    BY <2>2, IdleTask DEF GoesOn, Listed, AtMostOne
  <2>3. CASE \E why \in {"timeout", "drop", "replace"} :
            Record(o, a) /\ task' = [task EXCEPT !.step = "cancel", !.why = why]
    BY <2>3, <1>1, <1>4 DEF GoesOn, Listed, AtMostOne, OrderInv, Tasks, Reasons
  <2>4. QED
    BY <2>1, <2>2, <2>3
<1>6. \/ UntouchedTrade \/ Record(o, a)
      \/ task' = Idle /\ (EntryEnded(o, a) \/ DeleteTrade)
  BY <1>3 DEF ManageFetch
<1>7. CASE UntouchedTrade
  BY <1>2, <1>4, <1>5, <1>7, KeptRows
<1>8. CASE Record(o, a)
  BY <1>2, <1>3, <1>4, <1>5, <1>8, RecordedRow
<1>9. CASE task' = Idle /\ EntryEnded(o, a)
  BY <1>2, <1>3, <1>4, <1>5, <1>9, IdleTask, EntryEndedKeeps
<1>10. CASE task' = Idle /\ DeleteTrade
  BY <1>4, <1>5, <1>10, IdleTask, DeletedRows
<1>11. QED
  BY <1>6, <1>7, <1>8, <1>9, <1>10

\* cancel_open_orders_of_trade fetches an order.
LEMMA ClearFetchKeeps ==
    ASSUME OrderInv, ClearFetch PROVE OrderInv'
<1> DEFINE o == First(task.todo)
           a == exch[o]
           rest == [task EXCEPT !.todo = @ \ {o}]
<1>1. task.step = "clear" /\ task.todo # {}
  BY DEF ClearFetch
<1>2. trade.status \in {"open", "closed"} /\ Live \subseteq OpenRows(rows)
  BY <1>1, AtWork
<1>3. o \in Oids /\ task.todo = {o}
  BY <1>1, OneRound
<1>4. Quiet /\ exch' = exch /\ task \in Tasks
  BY DEF ClearFetch, Quiet, OrderInv, Live
<1>5. rest \in Tasks /\ rest.todo = {} /\ rest.step = "clear" /\ rest.why = task.why
  BY <1>1, <1>3, <1>4 DEF Tasks
<1>6. CASE /\ Ended(a)
           /\ IF a.side = "entry" THEN EntryEnded(o, a) ELSE Record(o, a)
           /\ task' = [rest EXCEPT !.gone = @ \/ (a.side = "entry" /\ a.filled = 0)]
  <2>1. /\ task' \in Tasks /\ task'.todo = {} /\ task'.step = "clear" /\ task'.why = task.why
        /\ a.side = "entry" /\ a.filled = 0 => task'.gone
    BY <1>5, <1>6 DEF Tasks
  <2>2. GoesOn
    BY <2>1 DEF GoesOn, Listed, AtMostOne
  <2>3. CASE a.side # "entry" \/ ~(a.filled = 0 /\ ~Replacing)
    <3>1. Record(o, a)
      BY <1>6, <2>3 DEF EntryEnded
    <3>2. QED
      BY <3>1, <1>2, <1>3, <1>4, <2>2, RecordedRow
  <2>4. CASE a.side = "entry" /\ a.filled = 0 /\ ~Replacing
    <3>1. Replacing' = FALSE /\ task'.gone
      BY <2>1, <2>4 DEF Replacing
    <3>2. QED
      BY <3>1, <1>2, <1>3, <1>4, <1>6, <2>1, <2>2, <2>4, EntryEndedKeeps
  <2>5. QED
    BY <2>3, <2>4
<1>7. CASE UntouchedTrade /\ task' = [task EXCEPT !.step = "cancel"]
  <2>1. GoesOn
    BY <1>1, <1>3, <1>4, <1>7 DEF GoesOn, Listed, AtMostOne, Tasks
  <2>2. QED
    BY <1>2, <1>4, <1>7, <2>1, KeptRows
<1>8. CASE UntouchedTrade /\ (task' = rest \/ task' = Idle)
  <2>1. GoesOn
    BY <1>5, <1>8, IdleTask DEF GoesOn, Listed, AtMostOne
  <2>2. QED
    BY <1>2, <1>4, <1>8, <2>1, KeptRows
<1>9. QED
  BY <1>6, <1>7, <1>8 DEF ClearFetch

\* startup_update_open_orders fetches an order.
LEMMA StartupFetchKeeps ==
    ASSUME OrderInv, StartupFetch PROVE OrderInv'
<1> DEFINE o == First(task.todo)
<1>1. task.step = "startup" /\ task.todo # {}
  BY DEF StartupFetch, OrderInv, Listed
<1>2. trade.status \in {"open", "closed"} /\ Live \subseteq OpenRows(rows)
  BY <1>1, AtWork
<1>3. o \in Oids /\ task' = Idle
  BY <1>1, OneRound DEF StartupFetch
<1>4. Quiet /\ exch' = exch
  BY DEF StartupFetch, Quiet, OrderInv, Live
<1>5. GoesOn
  BY <1>3, IdleTask DEF GoesOn, Listed, AtMostOne
<1>6. Record(o, exch'[o]) \/ UntouchedTrade
  BY <1>4 DEF StartupFetch
<1>7. QED
  BY <1>2, <1>3, <1>4, <1>5, <1>6, KeptRows, RecordedRow

\* handle_cancel_enter and handle_cancel_exit: the cancel is answered, refused or lost.
LEMMA CancelRequestKeeps ==
    ASSUME OrderInv, CancelRequest PROVE OrderInv'
<1> DEFINE o == First(task.todo)
           a == exch'[o]
<1>1. task.step = "cancel" /\ task.todo # {}
  BY DEF CancelRequest, OrderInv, Listed
<1>2. trade.status \in {"open", "closed"} /\ Live \subseteq OpenRows(rows)
  BY <1>1, AtWork
<1>3. o \in Oids /\ task.todo = {o} /\ Loop = Idle /\ task \in Tasks
  BY <1>1, OneRound DEF OrderInv
<1>4. Quiet
  <2>1. exch \in [Oids -> Amounts]
    BY DEF OrderInv
  <2>2. QED
    BY <2>1, <1>3 DEF CancelRequest, Quiet, Live, Amounts
<1>5. a \in Amounts
  BY <1>3, <1>4 DEF Quiet
<1>6. ASSUME NEW gone \in BOOLEAN, GoOn(gone)
      PROVE  /\ GoesOn
             /\ IF task.why \in {"timeout", "drop", "replace"} THEN task' = Idle
                ELSE /\ task'.step = "clear" /\ task'.todo = {} /\ task'.why = task.why
                     /\ gone => task'.gone
  <2>1. CASE task.why \in {"timeout", "drop", "replace"}
    BY <2>1, <1>3, <1>6, IdleTask DEF GoOn, GoesOn, Listed, AtMostOne
  <2>2. CASE task.why \notin {"timeout", "drop", "replace"}
    BY <2>2, <1>3, <1>6 DEF GoOn, GoesOn, Listed, AtMostOne, Tasks
  <2>3. QED
    BY <2>1, <2>2
<1>7. ASSUME NEW why \in Reasons, NEW n \in Nat, task' = ThenExit(why, n),
             AtMostOne(OpenRows(rows'))
      PROVE  GoesOn
  BY <1>7 DEF GoesOn, ThenExit, Idle, Listed, Tasks, OpenRows
<1>8. CASE a.side = "entry" /\ Ended(a) /\ CancelEntry(o, a)
  <2>1. CASE task.why = "replace" /\ a.filled = 0
    <3>1. Record(o, a) /\ task' = ThenExit("reenter", a.amount)
      BY <1>8, <2>1 DEF CancelEntry, EntryEnded, Replacing
    <3>2. rows' \in [Oids -> Amounts] /\ OpenRows(rows') \subseteq OpenRows(rows)
      <4>1. /\ rows' \in [Oids -> Amounts] /\ rows'[o] = a
            /\ \A p \in Oids \ {o} : rows'[p] = rows[p]
        <5>1. rows \in [Oids -> Amounts]
          BY DEF OrderInv
        <5>2. QED
          BY <5>1, <1>3, <1>5, <3>1 DEF Record, Recorded
      <4>2. QED
        BY <4>1, <1>8 DEF OpenRows, Ended
    <3>3. AtMostOne(OpenRows(rows'))
      <4>1. AtMostOne(OpenRows(rows))
        BY DEF OrderInv
      <4>2. QED
        BY <3>2, <4>1 DEF AtMostOne
    <3>4. GoesOn
      BY <3>1, <3>3, <1>5, <1>7 DEF Reasons, Amounts
    <3>5. QED
      BY <3>1, <3>4, <1>2, <1>3, <1>4, RecordedRow
  <2>2. CASE ~(task.why = "replace" /\ a.filled = 0)
    <3>1. EntryEnded(o, a) /\ GoOn(a.filled = 0)
      BY <1>8, <2>2 DEF CancelEntry
    <3>2. GoesOn
      BY <3>1, <1>6
    <3>3. CASE Record(o, a)
      BY <3>2, <3>3, <1>2, <1>3, <1>4, RecordedRow
    <3>4. CASE DeleteTrade /\ a.filled = 0 /\ ~Replacing
      <4>1. \/ task'.step = "idle"
            \/ /\ task'.step = "clear" /\ task'.todo = {}
               /\ Replacing' = FALSE /\ (task'.why = "force" => task'.gone)
        BY <3>1, <3>4, <1>6, IdleTask DEF Replacing
      <4>2. QED
        BY <4>1, <3>2, <3>4, <1>4, DeletedRows
    <3>5. QED
      BY <3>1, <3>3, <3>4 DEF EntryEnded
  <2>3. QED
    BY <2>1, <2>2
<1>9. CASE KeepEntry
  <2>1. GoOn(FALSE)
    BY <1>9 DEF KeepEntry
  <2>2. GoesOn
    BY <2>1, <1>6
  <2>3. CASE task.why \in {"drop", "replace"}
    <3>1. task' = Idle /\ ReplaceFailed
      BY <2>1, <2>3, <1>3, <1>9 DEF GoOn, KeepEntry
    <3>2. QED
      BY <3>1, <1>2, <1>4, ReplaceFailedKeeps
  <2>4. CASE UntouchedTrade
    BY <2>2, <2>4, <1>2, <1>4, KeptRows
  <2>5. QED
    BY <2>3, <2>4, <1>9 DEF KeepEntry
<1>10. CASE CancelExit(o, a)
  <2>1. Record(o, a)
    BY <1>10 DEF CancelExit
  <2>2. /\ rows' \in [Oids -> Amounts] /\ rows'[o] = a
        /\ \A p \in Oids \ {o} : rows'[p] = rows[p]
    <3>1. rows \in [Oids -> Amounts] /\ rows' = Recorded(rows, o, a)
      BY <2>1 DEF Record, OrderInv
    <3>2. QED
      BY <3>1, <1>3, <1>5, RecordedType
  <2>3. OpenRows(rows') \subseteq OpenRows(rows)
    BY <2>2, <1>2, <1>4 DEF OpenRows, Quiet, Live
  <2>4. trade'.amount \in Nat
    <3> DEFINE no == FALSE
    <3>1. trade' = Settled(trade, rows, o, a, no)
      BY <2>1 DEF Record
    <3> HIDE DEF no
    <3>2. trade' \in Trades
      BY <1>3, <1>5, <3>1, SettledType DEF OrderInv
    <3>3. QED
      BY <3>2 DEF Trades
  <2>5. Remaining(a) \in Nat
    BY <1>5, <2>4 DEF Remaining, Amounts
  <2>6. GoesOn
    <3>1. \/ GoOn(FALSE)
          \/ \E why \in Reasons, n \in Nat : task' = ThenExit(why, n)
      BY <1>10, <2>5 DEF CancelExit, Reasons
    <3>2. AtMostOne(OpenRows(rows'))
      BY <2>3 DEF OrderInv, AtMostOne
    <3>3. QED
      BY <3>1, <3>2, <1>6, <1>7
  <2>7. QED
    BY <2>1, <2>6, <1>2, <1>3, <1>4, RecordedRow
<1>11. CASE task' = Idle /\ UntouchedTrade
  <2>1. GoesOn
    BY <1>11, IdleTask DEF GoesOn, Listed, AtMostOne
  <2>2. QED
    BY <2>1, <1>2, <1>4, <1>11, KeptRows
<1>12. QED
  BY <1>8, <1>9, <1>10, <1>11 DEF CancelRequest

\* The end of a handler without an order.
LEMMA EndKeeps ==
    ASSUME OrderInv, GiveUp \/ Refused PROVE OrderInv'
<1>1. task.step = "clear" /\ task.todo = {} /\ task' = Idle
  BY DEF GiveUp, Refused, MayPlace, Cleared
<1>2. Quiet
  BY DEF GiveUp, Refused, Quiet, OrderInv, Live
<1>3. GoesOn
  BY <1>1, IdleTask DEF GoesOn, Listed, AtMostOne
<1>4. trade.status # "none" /\ trade \in Trades
  BY <1>1, IdleTask DEF OrderInv
<1>5. CASE trade.status = "deleted" /\ Over
  <2>1. UntouchedTrade
    BY <1>1, <1>5 DEF Over, GiveUp, Refused, Replacing
  <2>2. Over'
    BY <2>1, <1>1, <1>5, IdleTask DEF Over, UntouchedTrade
  <2>3. QED
    BY <2>1, <2>2, <1>2, <1>3, <1>4 DEF OrderInv, GoesOn, Quiet, UntouchedTrade, AtMostOne
<1>6. CASE trade.status \in {"open", "closed"} /\ Live \subseteq OpenRows(rows)
  <2>1. CASE UntouchedTrade
    BY <2>1, <1>2, <1>3, <1>6, KeptRows
  <2>2. CASE ReplaceFailed
    BY <2>2, <1>1, <1>2, <1>6, ReplaceFailedKeeps
  <2>3. QED
    BY <2>1, <2>2 DEF GiveUp, Refused
<1>7. QED
  BY <1>4, <1>5, <1>6 DEF OrderInv, Trades

\* What create_order may answer.
LEMMA AcceptedOrder ==
    ASSUME NEW side \in Sides, NEW n \in Nat, side = "exit" => Position \in Nat,
           NEW a \in Accepted(side, n)
    PROVE  a \in Amounts /\ a.status # "none" /\ a.side = side /\ a.amount = n
<1> DEFINE most == IF side = "exit" /\ Position < n THEN Position ELSE n
<1>1. most \in Nat
  OBVIOUS
<1> HIDE DEF most
<1>2. \E s \in {"open", "closed", "canceled"}, f \in Nat :
         a = [side |-> side, status |-> s, amount |-> n, filled |-> f]
  BY <1>1 DEF Accepted, most
<1>3. QED
  BY <1>2 DEF Amounts

\* An order is placed when no row is open: it is the only live one.
LEMMA PlacedOrder ==
    ASSUME OrderInv, Live = {}, NEW a \in Amounts, Placed(a)
    PROVE  /\ NextId \in Oids /\ exch' \in [Oids -> Amounts] /\ exch'[NextId] = a
           /\ Live' = IF a.status = "open" THEN {NextId} ELSE {}
BY DEF OrderInv, Placed, Live

\* The state after an order was placed, its row recorded or not.
LEMMA PlacedKeeps ==
    ASSUME OrderInv, NEW a \in Amounts, Live = {}, OpenRows(rows) = {}, Placed(a),
           task' = Idle, trade' \in Trades,
           \/ rows' = Recorded(rows, NextId, a) /\ trade'.status \in {"open", "closed"}
           \/ a.status # "open" /\ UNCHANGED <<rows, trade.status>> /\ trade.status # "deleted"
           \/ a.status # "open" /\ DeleteTrade
    PROVE  OrderInv'
<1>1. /\ NextId \in Oids /\ exch' \in [Oids -> Amounts] /\ exch'[NextId] = a
      /\ Live' = IF a.status = "open" THEN {NextId} ELSE {}
  BY PlacedOrder
<1>2. GoesOn
  BY IdleTask DEF GoesOn, Listed, AtMostOne
<1>3. CASE rows' = Recorded(rows, NextId, a) /\ trade'.status \in {"open", "closed"}
  <2>1. /\ rows' \in [Oids -> Amounts] /\ rows'[NextId] = a
        /\ \A p \in Oids \ {NextId} : rows'[p] = rows[p]
    <3>1. rows \in [Oids -> Amounts]
      BY DEF OrderInv
    <3>2. QED
      BY <3>1, <1>1, <1>3, RecordedType
  <2>2. OpenRows(rows') = IF a.status = "open" THEN {NextId} ELSE {}
    BY <2>1, <1>1 DEF OpenRows
  <2>3. QED
    BY <2>1, <2>2, <1>1, <1>2, <1>3 DEF OrderInv, GoesOn, AtMostOne
<1>4. CASE a.status # "open" /\ UNCHANGED <<rows, trade.status>> /\ trade.status # "deleted"
  BY <1>1, <1>2, <1>4 DEF OrderInv, GoesOn, AtMostOne
<1>5. CASE a.status # "open" /\ DeleteTrade
  <2>1. Quiet
    BY <1>1, <1>5 DEF Quiet
  <2>2. QED
    BY <2>1, <1>2, <1>5, IdleTask, DeletedRows
<1>6. QED
  BY <1>3, <1>4, <1>5

\* The trade once its entry is recorded.
LEMMA EntryPlacedTrade ==
    ASSUME OrderInv, NEW a \in Amounts, NextId \in Oids, EntryPlaced(a)
    PROVE  /\ rows' = Recorded(rows, NextId, a)
           /\ trade' \in Trades /\ trade'.status \in {"open", "closed"}
<1> DEFINE opened == Recalc([trade EXCEPT !.status = "open"], rows)
           no == FALSE
<1>1. opened \in Trades /\ opened.status = "open"
  <2>1. Recalculated(rows) \in Int
    BY NetType DEF Recalculated, OrderInv
  <2> DEFINE t == [trade EXCEPT !.status = "open"]
  <2>2. t \in Trades /\ t.status = "open"
    BY DEF OrderInv, Trades
  <2>3. opened = Recalc(t, rows)
    OBVIOUS
  <2> HIDE DEF t, opened
  <2>4. QED
    BY <2>1, <2>2, <2>3 DEF Recalc, Trades
<1>2. trade' = Settled(opened, rows, NextId, a, no) /\ rows' = Recorded(rows, NextId, a)
  BY DEF EntryPlaced
<1> HIDE DEF opened, no
<1>3. QED
  BY <1>1, <1>2, SettledType DEF OrderInv

\* execute_entry for a new trade.
LEMMA EnterTradeKeeps ==
    ASSUME OrderInv, EnterTrade PROVE OrderInv'
<1>1. trade.status = "none" /\ rows = NoRows /\ task = Idle /\ task' = Idle
  BY DEF EnterTrade, OrderInv
<1>2. OpenRows(rows) = {} /\ Live = {}
  BY <1>1 DEF OpenRows, NoRows, NoOrder, OrderInv, Over
<1>3. PICK a \in Accepted("entry", EntrySize) :
         Placed(a) /\ IF Empty(a) THEN UntouchedTrade ELSE EntryPlaced(a)
  BY DEF EnterTrade
<1>4. a \in Amounts
  BY AcceptedOrder, OrdersAssumption DEF Sides
<1>5. CASE Empty(a)
  <2>1. a.status # "open" /\ UNCHANGED rows /\ trade' = trade
    BY <1>3, <1>5 DEF Empty, Ended, UntouchedTrade
  <2>2. QED
    BY <2>1, <1>1, <1>2, <1>3, <1>4, PlacedKeeps DEF OrderInv
<1>6. CASE ~Empty(a)
  <2>1. NextId \in Oids /\ EntryPlaced(a)
    BY <1>3, <1>6 DEF Placed
  <2>2. QED
    BY <2>1, <1>1, <1>2, <1>3, <1>4, EntryPlacedTrade, PlacedKeeps
<1>7. QED
  BY <1>5, <1>6

\* Where a handler may place an order nothing is alive.
LEMMA MayPlaceFacts ==
    ASSUME OrderInv, MayPlace, task.why \notin {"timeout", "user", "drop"}
    PROVE  OpenRows(rows) = {} /\ Live = {} /\ trade.status \in {"open", "closed"}
<1>1. task.step = "clear" /\ task # Idle /\ ~(task.why = "force" /\ task.gone)
  BY IdleTask DEF MayPlace, Cleared
<1>2. ~Over
  BY <1>1 DEF Over, Replacing
<1>3. QED
  BY <1>1, <1>2 DEF MayPlace, OrderInv, Trades

\* execute_entry for a trade that exists.
LEMMA PlaceEntryKeeps ==
    ASSUME OrderInv, PlaceEntry PROVE OrderInv'
<1>1. OpenRows(rows) = {} /\ Live = {} /\ trade.status \in {"open", "closed"}
  BY MayPlaceFacts DEF PlaceEntry
<1>2. PICK a \in Accepted("entry", task.size) :
         /\ Placed(a)
         /\ \/ EntryPlaced(a)
            \/ Empty(a) /\ (DeleteTrade \/ UntouchedTrade)
  BY DEF PlaceEntry, ReplaceFailed
<1>3. a \in Amounts /\ NextId \in Oids /\ task' = Idle
  BY <1>2, AcceptedOrder DEF Sides, OrderInv, Tasks, Placed, PlaceEntry
<1>4. CASE EntryPlaced(a)
  BY <1>1, <1>2, <1>3, <1>4, EntryPlacedTrade, PlacedKeeps
<1>5. CASE Empty(a) /\ DeleteTrade
  <2>1. trade' \in Trades /\ a.status # "open"
    BY <1>5 DEF DeleteTrade, OrderInv, Trades, Empty, Ended
  <2>2. QED
    BY <2>1, <1>1, <1>2, <1>3, <1>5, PlacedKeeps
<1>6. CASE Empty(a) /\ UntouchedTrade
  <2>1. UNCHANGED rows /\ trade' = trade /\ trade' \in Trades /\ a.status # "open"
    BY <1>6 DEF UntouchedTrade, OrderInv, Empty, Ended
  <2>2. QED
    BY <2>1, <1>1, <1>2, <1>3, PlacedKeeps
<1>7. QED
  BY <1>2, <1>4, <1>5, <1>6

\* execute_trade_exit
LEMMA PlaceExitKeeps ==
    ASSUME OrderInv, PlaceExit PROVE OrderInv'
<1>1. OpenRows(rows) = {} /\ Live = {} /\ trade.status \in {"open", "closed"}
  BY MayPlaceFacts DEF PlaceExit
<1> DEFINE n == IF task.why = "force" THEN trade.amount ELSE task.size
<1>2. PICK a \in Accepted("exit", n) :
         /\ Placed(a)
         /\ rows' = Recorded(rows, NextId, a)
         /\ \/ trade' = Settled(trade, rows, NextId, a, FALSE)
            \/ UNCHANGED trade
  BY DEF PlaceExit
<1>3. Position \in Nat /\ n \in Nat
  <2>1. Position \in Int /\ Position > 0
    BY NetType DEF Position, OrderInv, PlaceExit
  <2>2. QED
    BY <2>1 DEF OrderInv, Tasks, Trades
<1>4. a \in Amounts /\ NextId \in Oids /\ task' = Idle
  BY <1>2, <1>3, AcceptedOrder DEF Sides, Placed, PlaceExit
<1>5. trade' \in Trades /\ trade'.status \in {"open", "closed"}
  <2> DEFINE no == FALSE
  <2>1. trade' = Settled(trade, rows, NextId, a, no) \/ trade' = trade
    BY <1>2
  <2> HIDE DEF no
  <2>2. QED
    BY <2>1, <1>1, <1>4, SettledType DEF OrderInv
<1>6. QED
  BY <1>1, <1>2, <1>4, <1>5, PlacedKeeps

\* handle_onexchange_order, from the loop or from a request.
LEMMA RecoverKeeps ==
    ASSUME OrderInv, RecoverTrade \/ ReloadTrade PROVE OrderInv'
<1>1. /\ task = Idle /\ task' = task /\ exch' = exch
      /\ trade.status \in {"open", "closed"} /\ HandleOnExchangeOrder
  BY DEF RecoverTrade, ReloadTrade, HandleOnExchangeOrder
<1>2. GoesOn /\ Quiet
  BY <1>1, IdleTask DEF GoesOn, Quiet, Listed, AtMostOne, OrderInv, Live
<1>3. CASE DeleteTrade
  BY <1>1, <1>2, <1>3, IdleTask, DeletedRows
<1>4. CASE rows' = Walked.rows /\ trade' = Walked.trade
  <2>1. Live \subseteq OpenRows(rows)
    BY <1>1 DEF OrderInv, Over
  <2>2. /\ rows' \in [Oids -> Amounts] /\ trade' \in Trades /\ trade'.status \in {"open", "closed"}
        /\ \A o \in Oids : rows'[o] = IF exch[o].status = "none" THEN rows[o] ELSE exch[o]
    BY <1>1, <1>4, WalkedTables DEF OrderInv
  <2>3. Live' \subseteq OpenRows(rows') /\ OpenRows(rows') \subseteq OpenRows(rows)
    BY <2>1, <2>2, <1>1 DEF Live, OpenRows
  <2>4. QED
    BY <2>2, <2>3, <1>2 DEF OrderInv, GoesOn, Quiet, AtMostOne
<1>5. QED
  BY <1>1, <1>3, <1>4 DEF HandleOnExchangeOrder

\* The invariant holds at first.
LEMMA OrderInvInit == Init => OrderInv
<1> SUFFICES ASSUME Init PROVE OrderInv
  OBVIOUS
<1>1. NoRows \in [Oids -> Amounts] /\ OpenRows(NoRows) = {}
  BY DEF NoRows, NoOrder, Amounts, OpenRows, Sides
<1>2. Live = {}
  BY DEF Init, Live, NoRows, NoOrder
<1>3. Listed
  BY DEF Init, Idle, Listed, AtMostOne
<1>4. QED
  BY <1>1, <1>2, <1>3, IdleTask DEF Init, OrderInv, AtMostOne, Trades

\* Every step keeps it.
LEMMA OrderInvStep == OrderInv /\ [Next]_vars => OrderInv'
<1> SUFFICES ASSUME OrderInv, [Next]_vars PROVE OrderInv'
  OBVIOUS
<1>1. CASE UNCHANGED vars
  BY <1>1 DEF vars, OrderInv, Listed, Over, Replacing, Live, OpenRows
<1>2. CASE Manage \/ ManageFetch
  BY <1>2, ManageKeeps, ManageFetchKeeps
<1>3. CASE ExitTrade \/ AdjustTrade \/ ForceExit \/ CancelOpenOrder
  BY <1>3, StartKeeps
<1>4. CASE ClearFetch \/ CancelRequest
  BY <1>4, ClearFetchKeeps, CancelRequestKeeps
<1>5. CASE GiveUp \/ Refused
  BY <1>5, EndKeeps
<1>6. CASE EnterTrade \/ PlaceEntry \/ PlaceExit
  BY <1>6, EnterTradeKeeps, PlaceEntryKeeps, PlaceExitKeeps
<1>7. CASE RecoverTrade \/ ReloadTrade
  BY <1>7, RecoverKeeps
<1>8. CASE StartupFetch \/ Restart
  BY <1>8, StartupFetchKeeps, RestartKeeps
<1>9. CASE Exchange
  BY <1>9, FillKeeps DEF Exchange
<1>10. QED
  BY <1>1, <1>2, <1>3, <1>4, <1>5, <1>6, <1>7, <1>8, <1>9 DEF Next, Handlers

\* The inductive invariant of the orders.
LEMMA OrderInvAlways == Spec => []OrderInv
<1>1. QED
  BY OrderInvInit, OrderInvStep, PTL DEF Spec

\* The trade never has two live orders in any configuration: an order is placed only when
\* handle_similar_open_order has left no open row, and a live order has an open row.
THEOREM NeverTwoLiveOrders == Spec => []OneLiveOrder
<1>1. OrderInv => OneLiveOrder
  <2> SUFFICES ASSUME OrderInv PROVE Cardinality(Live) <= 1
    BY DEF OneLiveOrder
  <2>1. AtMostOne(Live)
    BY DEF OrderInv
  <2>2. CASE Live = {}
    BY <2>2, FS_EmptySet
  <2>3. CASE Live # {}
    <3>1. PICK o \in Live : Live = {o}
      BY <2>1, <2>3 DEF AtMostOne
    <3>2. Cardinality(Live) = 1
      BY <3>1, FS_Singleton
    <3>3. QED
      BY <3>2
  <2>4. QED
    BY <2>2, <2>3
<1>2. QED
  BY <1>1, OrderInvAlways, PTL

---------------------------------------------------------------------------
(* What the orders add up to, for every value of the constants.             *)

\* The most the bot ever asks for: the first entry, and one addition per order.
Bound == EntrySize + MaxOrders * AddSize

\* What an order may still add, or has added, to the position.
Worth(a) == IF a.side = "entry" /\ ~Empty(a) THEN a.amount ELSE 0
Whole(E) == [o \in Oids |-> [E[o] EXCEPT !.side = "entry", !.filled = Worth(E[o])]]
Committed(E) == Net(Whole(E), Oids)

\* An order asks for something and fills up to what it asks for.
Priced(E) ==
    \A o \in Oids :
        E[o].status # "none" =>
            /\ E[o].amount > 0 /\ E[o].amount <= Bound /\ E[o].filled <= E[o].amount
            /\ E[o].status = "open" => E[o].filled < E[o].amount

\* A row is the order as the exchange has it, or as it had it while it was open.
Below(E, R) ==
    \A o \in Oids :
        \/ R[o] = NoOrder \/ R[o] = E[o]
        \/ /\ R[o].status = "open" /\ E[o].status # "none" /\ R[o].side = E[o].side
           /\ R[o].amount = E[o].amount /\ R[o].filled <= E[o].filled

\* What an entry has filled is in the amount of the trade, or its row is open.
Booked(E, R, t) ==
    \A o \in Oids : E[o].side = "entry" /\ E[o].filled > 0 => R[o].status = "open" \/ t.amount > 0

LEMMA BoundType == Bound \in Nat /\ EntrySize <= Bound /\ AddSize <= Bound
<1>1. MaxOrders \in Nat /\ MaxOrders >= 1 /\ AddSize \in Nat /\ EntrySize \in Nat
  BY OrdersAssumption
<1>2. \A m, k \in Nat : m >= 1 => m * k \in Nat /\ k <= m * k
  <2> SUFFICES ASSUME NEW m \in Nat, NEW k \in Nat, m >= 1 PROVE m * k \in Nat /\ k <= m * k
    OBVIOUS
  <2>1. m * k = k + (m - 1) * k /\ (m - 1) * k \in Nat /\ m * k \in Nat
    OBVIOUS
  <2> QED BY <2>1
<1>3. MaxOrders * AddSize \in Nat /\ AddSize <= MaxOrders * AddSize
  BY <1>1, <1>2
<1> QED BY <1>1, <1>3 DEF Bound

\* A sum whose terms are smaller is smaller.
LEMMA NetBelow ==
    ASSUME NEW R \in [Oids -> Amounts], NEW S, NEW Q \in [Oids -> Amounts], NEW U,
           \A n \in Oids : Term(R, S, n) <= Term(Q, U, n)
    PROVE  Net(R, S) <= Net(Q, U)
<1> MaxOrders \in Nat
  BY OrdersAssumption
<1>1. PICK r \in [0..MaxOrders -> Int] :
         /\ r[0] = 0 /\ Net(R, S) = r[MaxOrders]
         /\ \A n \in Oids : r[n] = r[n - 1] + Term(R, S, n)
  BY NetSteps
<1>2. PICK q \in [0..MaxOrders -> Int] :
         /\ q[0] = 0 /\ Net(Q, U) = q[MaxOrders]
         /\ \A n \in Oids : q[n] = q[n - 1] + Term(Q, U, n)
  BY NetSteps
<1>3. \A n \in Oids : Term(R, S, n) \in Int /\ Term(Q, U, n) \in Int
  BY DEF Term, Signed, Amounts
<1> DEFINE T == {n \in 0..MaxOrders : r[n] <= q[n]}
<1>4. T = 0..MaxOrders
  <2>1. 0 \in T /\ T \in SUBSET (0..MaxOrders)
    BY <1>1, <1>2
  <2>2. ASSUME NEW n \in 1..MaxOrders, n - 1 \in T PROVE n \in T
    <3>1. n \in Oids /\ n - 1 \in 0..MaxOrders
      BY DEF Oids
    <3>2. r[n] = r[n - 1] + Term(R, S, n) /\ q[n] = q[n - 1] + Term(Q, U, n)
      BY <3>1, <1>1, <1>2
    <3>3. QED
      BY <3>1, <3>2, <2>2, <1>3
  <2> HIDE DEF T
  <2>3. QED
    BY <2>1, <2>2, Induction
<1>5. r[MaxOrders] <= q[MaxOrders]
  <2>1. MaxOrders \in 0..MaxOrders
    OBVIOUS
  <2>2. \A n \in 0..MaxOrders : r[n] <= q[n]
    BY <1>4
  <2>3. QED
    BY <2>1, <2>2
<1>6. QED
  BY <1>1, <1>2, <1>5

\* The orders taken whole are a table of orders.
LEMMA WholeType ==
    ASSUME NEW E \in [Oids -> Amounts]
    PROVE  /\ Whole(E) \in [Oids -> Amounts] /\ Committed(E) \in Int
           /\ \A n \in Oids : Worth(E[n]) \in Nat /\ Term(Whole(E), Oids, n) = Worth(E[n])
<1>1. \A n \in Oids : Worth(E[n]) \in Nat
  BY DEF Worth, Amounts
<1>2. Whole(E) \in [Oids -> Amounts]
  BY <1>1 DEF Whole, Amounts, Sides
<1>3. \A n \in Oids : Term(Whole(E), Oids, n) = Worth(E[n])
  BY <1>1 DEF Whole, Term, Signed, Amounts
<1>4. QED
  BY <1>1, <1>2, <1>3, NetType DEF Committed

\* They change with the one order that changes.
LEMMA CommittedChange ==
    ASSUME NEW E \in [Oids -> Amounts], NEW F \in [Oids -> Amounts], NEW k \in Oids,
           \A n \in Oids \ {k} : F[n] = E[n]
    PROVE  Committed(F) = Committed(E) + Worth(F[k]) - Worth(E[k])
<1>1. \A n \in Oids \ {k} : Term(Whole(F), Oids, n) = Term(Whole(E), Oids, n)
  BY WholeType
<1>2. Net(Whole(F), Oids) - Net(Whole(E), Oids)
         = Term(Whole(F), Oids, k) - Term(Whole(E), Oids, k)
  <2> DEFINE A == Whole(E)
             B == Whole(F)
  <2>1. A \in [Oids -> Amounts] /\ B \in [Oids -> Amounts]
    BY WholeType
  <2> HIDE DEF A, B
  <2>2. Net(B, Oids) - Net(A, Oids) = Term(B, Oids, k) - Term(A, Oids, k)
    BY <1>1, <2>1, NetDiffers DEF A, B
  <2>3. QED
    BY <2>2 DEF A, B
<1>3. QED
  BY <1>2, WholeType DEF Committed

\* What rows that have ended add up to is within what the exchange was asked for.
LEMMA RecalculatedBelow ==
    ASSUME NEW E \in [Oids -> Amounts], NEW R \in [Oids -> Amounts], Priced(E), Below(E, R)
    PROVE  Recalculated(R) \in Int /\ Recalculated(R) <= Committed(E)
<1> DEFINE S == {o \in Oids : Ended(R[o])}
<1>1. ASSUME NEW n \in Oids PROVE Term(R, S, n) <= Term(Whole(E), Oids, n)
  <2>1. Worth(E[n]) \in Nat /\ Term(Whole(E), Oids, n) = Worth(E[n])
    BY WholeType
  <2>2. CASE ~Ended(R[n])
    BY <2>1, <2>2 DEF Term
  <2>3. CASE Ended(R[n])
    <3>1. R[n] = E[n] /\ E[n].status # "none"
      BY <2>3 DEF Below, Ended, NoOrder
    <3>2. E[n].filled <= E[n].amount /\ E[n].filled \in Nat /\ E[n].amount \in Nat /\ E[n].side \in Sides
      BY <3>1 DEF Priced, Amounts
    <3>3. Term(R, S, n) = Signed(E[n])
      BY <3>1, <2>3 DEF Term
    <3>4. Signed(E[n]) <= Worth(E[n])
      BY <3>2 DEF Signed, Worth, Empty
    <3>5. QED
      BY <3>3, <3>4, <2>1
  <2>4. QED
    BY <2>2, <2>3
<1> DEFINE W == Whole(E)
<1>2. W \in [Oids -> Amounts] /\ \A n \in Oids : Term(R, S, n) <= Term(W, Oids, n)
  BY <1>1, WholeType
<1> HIDE DEF W, S
<1>3. Net(R, S) <= Net(W, Oids) /\ Net(R, S) \in Int
  BY <1>2, NetBelow, NetType
<1>4. QED
  BY <1>3 DEF Recalculated, Committed, W, S

\* What booking an order does to the amount of the trade.
LEMMA SettledAmount ==
    ASSUME NEW E \in [Oids -> Amounts], NEW R \in [Oids -> Amounts], Priced(E), Below(E, R),
           Committed(E) <= Bound, NEW o \in Oids, E[o].status # "none",
           NEW t \in Trades, t.amount <= Bound, NEW b
    PROVE  /\ Below(E, Recorded(R, o, E[o]))
           /\ Settled(t, R, o, E[o], b).amount <= Bound
           /\ t.amount > 0 => Settled(t, R, o, E[o], b).amount > 0
           /\ E[o].side = "entry" /\ Ended(E[o]) /\ E[o].filled > 0
                 => Settled(t, R, o, E[o], b).amount > 0
<1> DEFINE a == E[o]
           Q == Recorded(R, o, a)
           s == Settled(t, R, o, a, b)
<1>1. /\ a \in Amounts /\ a.filled <= Bound
  <2>1. a \in Amounts /\ a.filled <= a.amount /\ a.amount <= Bound
    BY DEF Priced
  <2>2. a.filled \in Nat /\ a.amount \in Nat /\ Bound \in Nat
    BY <2>1, BoundType DEF Amounts
  <2>3. QED
    BY <2>1, <2>2
<1>2. Q \in [Oids -> Amounts] /\ Q[o] = a /\ \A p \in Oids \ {o} : Q[p] = R[p]
  BY <1>1 DEF Recorded
<1>3. Below(E, Q)
  BY <1>2 DEF Below
<1>4. Recalculated(Q) \in Int /\ Recalculated(Q) <= Bound
  <2>1. Recalculated(Q) \in Int /\ Recalculated(Q) <= Committed(E)
    BY <1>2, <1>3, RecalculatedBelow
  <2>2. Committed(E) \in Int /\ Bound \in Int
    BY WholeType, BoundType
  <2>3. QED
    BY <2>1, <2>2
<1>5. ASSUME NEW u \in Trades, u.amount <= Bound
      PROVE  Recalc(u, Q).amount <= Bound /\ (u.amount > 0 => Recalc(u, Q).amount > 0)
  BY <1>4, <1>5 DEF Recalc, Trades
<1>6. CASE Empty(a) \/ a.status = "open"
  <2>1. s = t
    BY <1>6 DEF Settled
  <2>2. ~(a.side = "entry" /\ Ended(a) /\ a.filled > 0)
    BY <1>6 DEF Empty, Ended
  <2>3. QED
    BY <2>1, <2>2, <1>3
<1>7. CASE ~Empty(a) /\ a.status # "open"
  <2>1. s = Book(t, Q, o, b)
    BY <1>7 DEF Settled
  <2>2. Ended(a) /\ a.filled > 0
    <3>1. Ended(a)
      BY <1>1, <1>7 DEF Ended, Amounts
    <3>2. a.filled \in Nat /\ a.filled # 0
      BY <3>1, <1>1, <1>7 DEF Empty, Amounts
    <3>3. QED
      BY <3>1, <3>2
  <2>3. CASE a.side = "entry"
    <3> DEFINE u == [t EXCEPT !.amount = Q[o].filled]
    <3>1. u \in Trades /\ u.amount = a.filled
      BY <1>1, <1>2 DEF Trades, Amounts
    <3>2. s = Recalc(u, Q)
      BY <2>1, <2>3, <1>2 DEF Book
    <3> HIDE DEF u, s
    <3>3. s.amount <= Bound /\ s.amount > 0
      BY <3>1, <3>2, <2>2, <1>1, <1>5
    <3>4. QED
      BY <3>3, <1>3 DEF s
  <2>4. CASE a.side # "entry"
    <3> DEFINE u == [t EXCEPT !.status = IF @ = "open" THEN "closed" ELSE @]
    <3>1. u \in Trades /\ u.amount = t.amount
      BY DEF Trades
    <3>2. s = Recalc(u, Q) \/ s = Recalc(t, Q)
      BY <2>1, <2>4, <1>2 DEF Book
    <3> HIDE DEF u, s
    <3>3. s.amount <= Bound /\ (t.amount > 0 => s.amount > 0)
      BY <3>1, <3>2, <1>5
    <3>4. QED
      BY <3>3, <2>4, <1>3 DEF s
  <2>5. QED
    BY <2>3, <2>4
<1>8. QED
  BY <1>6, <1>7

\* What is not on the exchange has no amounts.
Known(E) == \A o \in Oids : E[o].status = "none" => E[o] = NoOrder

\* The exchange gives out its ids in order, and shorts nothing.
Orderly ==
    /\ Position >= 0
    /\ \A o, p \in Oids : p < o /\ exch[o].status # "none" => exch[p].status # "none"
    /\ Known(exch)

\* The ids that are used are the first ones.
LEMMA FreshId ==
    ASSUME OrderInv, Orderly, NextId \in Oids
    PROVE  /\ exch[NextId] = NoOrder
           /\ \A p \in Oids : p < NextId => exch[p].status # "none"
<1> DEFINE Used == {o \in Oids : exch[o].status # "none"}
<1> MaxOrders \in Nat
  BY OrdersAssumption
<1>1. IsFiniteSet(Used) /\ Cardinality(Used) \in Nat /\ NextId = Cardinality(Used) + 1
  <2>1. IsFiniteSet(Oids)
    BY FS_Interval DEF Oids
  <2>2. QED
    BY <2>1, FS_Subset, FS_CardinalityType DEF NextId
<1>2. NextId \notin Used
  <2> SUFFICES ASSUME NextId \in Used PROVE FALSE
    OBVIOUS
  <2>1. 1..NextId \subseteq Used
    BY DEF Orderly, Oids
  <2>2. Cardinality(1..NextId) = NextId
    BY <1>1, FS_Interval
  <2>3. Cardinality(1..NextId) <= Cardinality(Used)
    BY <2>1, <1>1, FS_Subset
  <2>4. QED
    BY <2>2, <2>3, <1>1
<1>3. ASSUME NEW p \in Oids, p < NextId, p \notin Used
      PROVE  FALSE
  <2>1. Used \subseteq 1..(p - 1)
    BY <1>3 DEF Orderly, Oids
  <2>2. IsFiniteSet(1..(p - 1)) /\ Cardinality(1..(p - 1)) = p - 1
    BY FS_Interval DEF Oids
  <2>3. Cardinality(Used) <= p - 1
    BY <2>1, <2>2, FS_Subset
  <2>4. QED
    BY <2>3, <1>1, <1>3 DEF Oids
<1>4. QED
  BY <1>2, <1>3 DEF Orderly, Known


\* What a replacement in course is about to place again: the handler at k has it, or has
\* still to see that the order it cancels ended empty.
Reserved(E, k) ==
    IF k.why = "reenter" THEN k.size
    ELSE IF /\ k.step = "cancel" /\ k.why = "replace"
            /\ E[First(k.todo)].side = "entry" /\ Empty(E[First(k.todo)])
         THEN E[First(k.todo)].amount ELSE 0
Reserve == Reserved(exch, task)

\* Entries are worth no more than the first one and an addition for each order.
Budget ==
    Committed(exch) + Reserve
        <= (IF trade.status = "none" THEN 0 ELSE EntrySize) + (NextId - 1) * AddSize

\* What the two tables and the trade say of each other.
Tabled ==
    /\ Below(exch, rows)
    /\ trade.amount <= Bound /\ (trade.status = "none" => trade.amount = 0)
    /\ (\E o \in Oids : exch[o].side = "exit") => trade.amount > 0
    /\ trade.status # "deleted" => Booked(exch, rows, trade)

\* The amounts a handler has taken along.
Tasked ==
    /\ task.size <= Bound
    /\ task.why \in {"exit", "trim", "add", "reenter", "reexit"} => task.size > 0
    /\ task.why = "add" => task.size = AddSize
    /\ task.why \in {"exit", "trim", "reexit"} => trade.amount > 0
    /\ \A o \in task.todo : exch[o].status # "none"

AmountInv == Orderly /\ Priced(exch) /\ Tabled /\ Tasked /\ Budget

\* Number of orders placed.
LEMMA NextIdType == NextId \in Nat /\ NextId - 1 >= 0 /\ NextId - 1 <= MaxOrders
<1> DEFINE Used == {o \in Oids : exch[o].status # "none"}
<1>1. IsFiniteSet(Oids) /\ Cardinality(Oids) = MaxOrders
  BY FS_Interval, OrdersAssumption DEF Oids
<1>2. IsFiniteSet(Used) /\ Cardinality(Used) \in Nat /\ Cardinality(Used) <= MaxOrders
  BY <1>1, FS_Subset, FS_CardinalityType
<1>3. NextId = Cardinality(Used) + 1
  BY DEF NextId
<1> HIDE DEF Used
<1>4. MaxOrders \in Nat
  BY OrdersAssumption
<1>5. QED
  BY <1>2, <1>3, <1>4

\* What a number of orders may add is within the bound.
LEMMA Affordable ==
    ASSUME NEW c \in Nat, c <= MaxOrders
    PROVE  c * AddSize \in Nat /\ EntrySize + c * AddSize <= Bound
<1>1. MaxOrders \in Nat /\ AddSize \in Nat /\ EntrySize \in Nat
  BY OrdersAssumption
<1> DEFINE d == MaxOrders - c
<1>2. d \in Nat /\ MaxOrders = c + d
  BY <1>1
<1> HIDE DEF d
<1>3. MaxOrders * AddSize = c * AddSize + d * AddSize /\ d * AddSize \in Nat /\ c * AddSize \in Nat
  BY <1>1, <1>2
<1>4. QED
  BY <1>1, <1>3 DEF Bound

\* What is reserved is an amount.
LEMMA ReservedType ==
    ASSUME NEW E \in [Oids -> Amounts], NEW k \in Tasks,
           k.step = "cancel" => k.todo # {} /\ AtMostOne(k.todo)
    PROVE  Reserved(E, k) \in Nat
<1>1. k.step = "cancel" => First(k.todo) \in Oids
  BY OnlyElement DEF Tasks
<1>2. QED
  BY <1>1 DEF Reserved, Tasks, Amounts

LEMMA ReserveType == ASSUME OrderInv PROVE Reserve \in Nat
BY ReservedType DEF OrderInv, Listed, Reserve

LEMMA ReserveTypeNext == ASSUME OrderInv' PROVE Reserve' \in Nat
<1>1. /\ exch' \in [Oids -> Amounts] /\ task' \in Tasks
      /\ task'.step = "cancel" => task'.todo # {} /\ AtMostOne(task'.todo)
  BY DEF OrderInv, Listed
<1>2. QED
  BY <1>1, ReservedType DEF Reserve

\* So the entries are worth no more than the bound.
LEMMA CommittedBound == ASSUME OrderInv, AmountInv PROVE Committed(exch) <= Bound
<1>1. Reserve \in Nat /\ Committed(exch) \in Int
  BY ReserveType, WholeType DEF OrderInv
<1> DEFINE c == NextId - 1
<1>2. c \in Nat /\ c <= MaxOrders
  BY NextIdType
<1>3. /\ Committed(exch) + Reserve <= (IF trade.status = "none" THEN 0 ELSE EntrySize) + c * AddSize
  BY DEF AmountInv, Budget
<1> HIDE DEF c
<1>4. c * AddSize \in Nat /\ EntrySize + c * AddSize <= Bound
  BY <1>2, Affordable
<1>5. EntrySize \in Nat /\ Bound \in Nat
  BY OrdersAssumption, BoundType
<1>6. QED
  BY <1>1, <1>3, <1>4, <1>5

\* An order of the exchange goes on: it fills, ends, or stays as it is.
GoesTo(a, b) ==
    \/ b = a
    \/ /\ a.status = "open" /\ b.status # "none"
       /\ b.side = a.side /\ b.amount = a.amount /\ b.filled >= a.filled /\ b.filled <= b.amount
       /\ b.status = "open" => b.filled < b.amount

Forward(o) ==
    /\ exch' \in [Oids -> Amounts] /\ Position' >= 0
    /\ \A p \in Oids \ {o} : exch'[p] = exch[p]
    /\ GoesTo(exch[o], exch'[o])

\* The exchange stays as it is.
LEMMA SameForward ==
    ASSUME OrderInv, Orderly, NEW o \in Oids, UNCHANGED exch PROVE Forward(o)
<1>1. Position' = Position
  BY DEF Position
<1>2. QED
  BY <1>1 DEF Forward, GoesTo, OrderInv, Orderly

\* An order ends.
LEMMA EndedForward ==
    ASSUME OrderInv, AmountInv, NEW o \in Oids, exch[o].status = "open",
           exch' = [exch EXCEPT ![o].status = "canceled"]
    PROVE  Forward(o)
<1>1. exch \in [Oids -> Amounts] /\ exch' \in [Oids -> Amounts]
  BY DEF OrderInv, Amounts
<1>2. \A n \in Oids : Term(exch', Oids, n) = Term(exch, Oids, n)
  <2>1. \A n \in Oids : exch'[n].side = exch[n].side /\ exch'[n].filled = exch[n].filled
    BY <1>1 DEF Amounts
  <2>2. QED
    BY <2>1 DEF Term, Signed
<1>3. Net(exch', Oids) = Net(exch, Oids)
  <2> DEFINE E == exch'
  <2>1. E \in [Oids -> Amounts] /\ \A n \in Oids : Term(E, Oids, n) = Term(exch, Oids, n)
    BY <1>1, <1>2
  <2> HIDE DEF E
  <2>2. Net(E, Oids) = Net(exch, Oids)
    BY <1>1, <2>1, NetSame
  <2>3. QED
    BY <2>2 DEF E
<1>4. Position' >= 0
  BY <1>3 DEF Position, AmountInv, Orderly
<1>5. GoesTo(exch[o], exch'[o])
  <2>1. exch[o].filled <= exch[o].amount /\ exch[o] \in Amounts
    BY <1>1 DEF AmountInv, Priced
  <2>2. exch'[o] = [exch[o] EXCEPT !.status = "canceled"]
    BY <1>1
  <2>3. QED
    BY <2>1, <2>2 DEF GoesTo, Amounts
<1>6. QED
  BY <1>1, <1>4, <1>5 DEF Forward

\* An order fills by one unit; an exit does not fill beyond the position.
LEMMA FilledForward ==
    ASSUME OrderInv, AmountInv, NEW o \in Oids, Fill(o) PROVE Forward(o)
<1>1. /\ exch \in [Oids -> Amounts] /\ exch' \in [Oids -> Amounts]
      /\ exch[o].status = "open" /\ exch'[o].status # "none"
      /\ exch'[o].side = exch[o].side /\ exch'[o].filled = exch[o].filled + 1
      /\ exch'[o].amount = exch[o].amount
      /\ exch'[o].status = IF exch[o].filled + 1 = exch[o].amount THEN "closed" ELSE "open"
      /\ \A n \in Oids \ {o} : exch'[n] = exch[n]
  <2>1. exch \in [Oids -> Amounts] /\ exch[o].status = "open"
    BY DEF OrderInv, Fill
  <2>2. exch[o].filled + 1 \in Nat
    BY <2>1 DEF Amounts
  <2> DEFINE s == IF exch[o].filled + 1 = exch[o].amount THEN "closed" ELSE "open"
  <2>3. exch' = [exch EXCEPT ![o].filled = @ + 1, ![o].status = s]
    BY <2>1 DEF Fill
  <2>4. s \in {"open", "closed"}
    OBVIOUS
  <2>5. exch' \in [Oids -> Amounts]
    <3> HIDE DEF s
    <3>1. QED
      BY <2>1, <2>2, <2>3, <2>4 DEF Amounts
  <2>6. QED
    BY <2>1, <2>2, <2>3, <2>5 DEF Amounts
<1>2. \A n \in Oids \ {o} : Term(exch', Oids, n) = Term(exch, Oids, n)
  BY <1>1 DEF Term, Signed
<1>3. Net(exch', Oids) - Net(exch, Oids) = Term(exch', Oids, o) - Term(exch, Oids, o)
  BY <1>1, <1>2, NetDiffers
<1>4. Position' - Position = IF exch[o].side = "entry" THEN 1 ELSE -1
  <2>1. Term(exch', Oids, o) - Term(exch, Oids, o) = IF exch[o].side = "entry" THEN 1 ELSE -1
    BY <1>1 DEF Term, Signed, Amounts
  <2>2. QED
    BY <1>3, <2>1 DEF Position
<1>5. Position \in Int /\ Position' \in Int
  BY <1>1, NetType DEF Position
<1>6. Position' >= 0
  <2>1. Position >= 0 /\ (exch[o].side = "exit" => Position > 0) /\ exch[o].side \in Sides
    BY <1>1 DEF Fill, AmountInv, Orderly, Amounts
  <2> DEFINE now == Position'
             was == Position
             side == exch[o].side
  <2>2. now \in Int /\ was \in Int /\ now - was = IF side = "entry" THEN 1 ELSE -1
    BY <1>4, <1>5
  <2>3. was >= 0 /\ (side = "exit" => was > 0) /\ side \in {"entry", "exit"}
    BY <2>1 DEF Sides
  <2> HIDE DEF now, was, side
  <2>4. now >= 0
    BY <2>2, <2>3
  <2>5. QED
    BY <2>4 DEF now
<1>7. GoesTo(exch[o], exch'[o])
  <2>1. exch[o].filled < exch[o].amount /\ exch[o] \in Amounts /\ exch'[o] \in Amounts
    BY <1>1 DEF AmountInv, Priced
  <2>2. QED
    BY <2>1, <1>1 DEF GoesTo, Amounts
<1>8. QED
  BY <1>1, <1>6, <1>7 DEF Forward

\* What a step of the exchange leaves true of the orders, with the rows as they were.
LEMMA ForwardOrders ==
    ASSUME OrderInv, AmountInv, NEW o \in Oids, Forward(o)
    PROVE  /\ Orderly' /\ Priced(exch') /\ NextId' = NextId /\ Live' \subseteq Live
           /\ Worth(exch[o]) \in Nat /\ Worth(exch'[o]) \in Nat
           /\ Committed(exch') = Committed(exch) + Worth(exch'[o]) - Worth(exch[o])
           /\ Worth(exch'[o]) <= Worth(exch[o])
           /\ Committed(exch') \in Int /\ Committed(exch') <= Bound
           /\ Below(exch', rows)
           /\ (\E p \in Oids : exch'[p].side = "exit") => trade.amount > 0
           /\ trade.status # "deleted" => Booked(exch', rows, trade)
           /\ \A p \in Oids : exch'[p].status = "none" <=> exch[p].status = "none"
<1> DEFINE E == exch'
<1>1. /\ exch \in [Oids -> Amounts] /\ E \in [Oids -> Amounts]
      /\ \A p \in Oids \ {o} : E[p] = exch[p]
      /\ GoesTo(exch[o], E[o]) /\ Position' >= 0
  BY DEF OrderInv, Forward
<1>2. Priced(exch) /\ Orderly /\ Tabled
  BY DEF AmountInv
<1>3. \A p \in Oids : E[p].status = "none" <=> exch[p].status = "none"
  BY <1>1 DEF GoesTo
<1>4. NextId' = NextId
  BY <1>3 DEF NextId
<1>5. Live' \subseteq Live
  BY <1>1 DEF Live, GoesTo
<1> HIDE DEF E
<1>6. Priced(E)
  <2> SUFFICES ASSUME NEW p \in Oids, E[p].status # "none"
               PROVE  /\ E[p].amount > 0 /\ E[p].amount <= Bound /\ E[p].filled <= E[p].amount
                      /\ E[p].status = "open" => E[p].filled < E[p].amount
    BY DEF Priced
  <2>1. exch[p].status # "none"
    BY <1>3
  <2>2. CASE E[p] = exch[p]
    BY <2>1, <2>2, <1>2 DEF Priced
  <2>3. CASE E[p] # exch[p]
    <3>1. p = o /\ E[p].amount = exch[p].amount /\ E[p].filled <= E[p].amount
          /\ (E[p].status = "open" => E[p].filled < E[p].amount)
      BY <2>3, <1>1 DEF GoesTo
    <3>2. QED
      BY <2>1, <3>1, <1>2 DEF Priced
  <2>4. QED
    BY <2>2, <2>3
<1>7. /\ Worth(exch[o]) \in Nat /\ Worth(E[o]) \in Nat
      /\ Committed(E) = Committed(exch) + Worth(E[o]) - Worth(exch[o])
      /\ Committed(E) \in Int /\ Committed(exch) \in Int
  BY <1>1, WholeType, CommittedChange
<1>8. Worth(E[o]) <= Worth(exch[o])
  <2>1. CASE E[o] = exch[o]
    BY <2>1, <1>7
  <2>2. CASE E[o] # exch[o]
    <3>1. exch[o].status = "open" /\ E[o].side = exch[o].side /\ E[o].amount = exch[o].amount
      BY <2>2, <1>1 DEF GoesTo
    <3>2. ~Empty(exch[o])
      BY <3>1 DEF Empty, Ended
    <3>3. exch[o].amount \in Nat
      BY <1>1 DEF Amounts
    <3>4. QED
      BY <3>1, <3>2, <3>3 DEF Worth
  <2>3. QED
    BY <2>1, <2>2
<1>9. Committed(E) <= Bound
  <2>1. Committed(exch) <= Bound /\ Bound \in Nat
    BY CommittedBound, BoundType
  <2>2. QED
    BY <2>1, <1>7, <1>8
<1>10. Below(E, rows)
  <2> SUFFICES ASSUME NEW p \in Oids, rows[p] # NoOrder, rows[p] # E[p]
               PROVE  /\ rows[p].status = "open" /\ E[p].status # "none" /\ rows[p].side = E[p].side
                      /\ rows[p].amount = E[p].amount /\ rows[p].filled <= E[p].filled
    BY DEF Below
  <2>1. CASE E[p] = exch[p]
    BY <2>1, <1>2 DEF Tabled, Below
  <2>2. CASE E[p] # exch[p]
    <3>1. /\ exch[p].status = "open" /\ E[p].status # "none"
          /\ E[p].side = exch[p].side /\ E[p].amount = exch[p].amount /\ E[p].filled >= exch[p].filled
      BY <2>2, <1>1 DEF GoesTo
    <3>2. /\ rows[p].status = "open" /\ rows[p].side = exch[p].side
          /\ rows[p].amount = exch[p].amount /\ rows[p].filled <= exch[p].filled
      <4>1. exch[p].filled \in Nat
        BY <1>1 DEF Amounts
      <4>2. QED
        BY <3>1, <4>1, <1>2 DEF Tabled, Below
    <3>3. rows[p].filled \in Nat /\ exch[p].filled \in Nat /\ E[p].filled \in Nat
      BY <1>1 DEF OrderInv, Amounts
    <3>4. QED
      BY <3>1, <3>2, <3>3
  <2>3. QED
    BY <2>1, <2>2
<1>11. (\E p \in Oids : E[p].side = "exit") => trade.amount > 0
  <2>1. \A p \in Oids : E[p].side = exch[p].side
    BY <1>1 DEF GoesTo
  <2>2. QED
    BY <2>1, <1>2 DEF Tabled
<1>12. trade.status # "deleted" => Booked(E, rows, trade)
  <2> SUFFICES ASSUME trade.status # "deleted", NEW p \in Oids, E[p].side = "entry", E[p].filled > 0
               PROVE  rows[p].status = "open" \/ trade.amount > 0
    BY DEF Booked
  <2>1. CASE E[p] = exch[p]
    BY <2>1, <1>2 DEF Tabled, Booked
  <2>2. CASE E[p] # exch[p]
    <3>1. p \in Live
      BY <2>2, <1>1 DEF GoesTo, Live
    <3>2. QED
      BY <3>1 DEF OrderInv, OpenRows
  <2>3. QED
    BY <2>1, <2>2
<1>13. Orderly'
  <2>1. \A p \in Oids : E[p].status = "none" => E[p] = NoOrder
    <3> SUFFICES ASSUME NEW p \in Oids, E[p].status = "none" PROVE E[p] = NoOrder
      OBVIOUS
    <3>1. E[p] = exch[p]
      BY <1>1, <1>3 DEF GoesTo
    <3>2. QED
      BY <3>1, <1>2 DEF Orderly, Known
  <2>2. \A p, q \in Oids : q < p /\ E[p].status # "none" => E[q].status # "none"
    BY <1>2, <1>3 DEF Orderly
  <2>3. QED
    BY <1>1, <2>1, <2>2 DEF Orderly, Known, E
<1>14. QED
  BY <1>3, <1>4, <1>5, <1>6, <1>7, <1>8, <1>9, <1>10, <1>11, <1>12, <1>13 DEF E

\* What a handler does to the tables once it knows order o as the exchange has it.
TableMove(o) ==
    \/ UntouchedTrade
    \/ DeleteTrade
    \/ trade.status \in {"open", "closed"} /\ exch'[o].status # "none" /\ Record(o, exch'[o])

\* It leaves the amounts of the tables right.
LEMMA TabledMove ==
    ASSUME OrderInv, AmountInv, NEW o \in Oids, Forward(o), TableMove(o)
    PROVE  /\ Tabled'
           /\ trade.amount > 0 => trade'.amount > 0
           /\ trade'.status = "none" => trade.status = "none"
<1> DEFINE E == exch'
<1>1. /\ Priced(E) /\ Committed(E) <= Bound /\ Below(E, rows) /\ E \in [Oids -> Amounts]
      /\ (\E p \in Oids : E[p].side = "exit") => trade.amount > 0
      /\ trade.status # "deleted" => Booked(E, rows, trade)
  BY ForwardOrders DEF Forward
<1>2. /\ rows \in [Oids -> Amounts] /\ trade \in Trades /\ trade.amount <= Bound
      /\ trade.status = "none" => trade.amount = 0
  BY DEF OrderInv, AmountInv, Tabled
<1>3. CASE UntouchedTrade
  BY <1>1, <1>2, <1>3 DEF UntouchedTrade, Tabled
<1>4. CASE DeleteTrade
  <2>1. rows' = NoRows /\ trade'.status = "deleted" /\ trade'.amount = trade.amount
    BY <1>2, <1>4 DEF DeleteTrade, Trades
  <2>2. Below(E, NoRows)
    BY DEF Below, NoRows
  <2>3. QED
    BY <2>1, <2>2, <1>1, <1>2 DEF Tabled
<1>5. CASE trade.status \in {"open", "closed"} /\ E[o].status # "none" /\ Record(o, E[o])
  <2> DEFINE no == FALSE
  <2>1. rows' = Recorded(rows, o, E[o]) /\ trade' = Settled(trade, rows, o, E[o], no)
    BY <1>5 DEF Record
  <2> HIDE DEF no, E
  <2>2. /\ Below(E, rows') /\ trade'.amount <= Bound
        /\ trade.amount > 0 => trade'.amount > 0
        /\ E[o].side = "entry" /\ Ended(E[o]) /\ E[o].filled > 0 => trade'.amount > 0
    BY <2>1, <1>1, <1>2, <1>5, SettledAmount
  <2>3. trade' \in Trades /\ trade'.status \in {"open", "closed"}
    BY <2>1, <1>1, <1>2, <1>5, SettledType
  <2>4. rows'[o] = E[o] /\ \A p \in Oids \ {o} : rows'[p] = rows[p]
    BY <2>1, <1>2 DEF Recorded
  <2>5. Booked(E, rows', trade')
    <3> SUFFICES ASSUME NEW p \in Oids, E[p].side = "entry", E[p].filled > 0
                 PROVE  rows'[p].status = "open" \/ trade'.amount > 0
      BY DEF Booked
    <3>1. CASE p = o
      <4>1. E[o].status \in {"open", "closed", "canceled"}
        BY <1>1, <1>5 DEF Amounts
      <4>2. QED
        BY <3>1, <4>1, <2>2, <2>4 DEF Ended
    <3>2. CASE p # o
      BY <3>2, <1>1, <1>5, <2>2, <2>4 DEF Booked
    <3>3. QED
      BY <3>1, <3>2
  <2>6. Below(E, rows') /\ Booked(E, rows', trade') /\ ((\E p \in Oids : E[p].side = "exit") => trade'.amount > 0)
    BY <2>2, <2>5, <1>1
  <2>7. QED
    BY <2>2, <2>3, <2>6 DEF Tabled, E
<1>6. QED
  BY <1>3, <1>4, <1>5 DEF TableMove

\* A step of the exchange and of the tables keeps the invariant when the handler goes on
\* with amounts it may have and reserves no more than the order gave up.
LEMMA AmountStep ==
    ASSUME OrderInv, OrderInv', AmountInv, NEW o \in Oids, Forward(o), TableMove(o), Tasked',
           Worth(exch'[o]) + Reserve' <= Worth(exch[o]) + Reserve
    PROVE  AmountInv'
<1>1. /\ Tabled' /\ (trade'.status = "none" => trade.status = "none")
  BY TabledMove
<1>2. /\ Orderly' /\ Priced(exch') /\ NextId' = NextId
      /\ Worth(exch[o]) \in Nat /\ Worth(exch'[o]) \in Nat
      /\ Committed(exch') = Committed(exch) + Worth(exch'[o]) - Worth(exch[o])
  BY ForwardOrders
<1>3. Reserve \in Nat /\ Reserve' \in Nat
  BY ReserveType, ReserveTypeNext
<1>4. Budget'
  <2> DEFINE c == (NextId - 1) * AddSize
             was == IF trade.status = "none" THEN 0 ELSE EntrySize
             now == IF trade'.status = "none" THEN 0 ELSE EntrySize
  <2>1. c \in Nat /\ was \in Nat /\ now \in Nat /\ was <= now
    <3>1. NextId - 1 \in Nat /\ AddSize \in Nat /\ EntrySize \in Nat
      BY NextIdType, OrdersAssumption
    <3>2. QED
      BY <3>1, <1>1
  <2>2. Committed(exch) + Reserve <= was + c /\ Committed(exch) \in Int
    BY WholeType DEF AmountInv, Budget, OrderInv
  <2>3. Budget' <=> Committed(exch') + Reserve' <= now + c
    BY <1>2 DEF Budget
  <2> HIDE DEF c, was, now
  <2>4. QED
    BY <2>1, <2>2, <2>3, <1>2, <1>3
<1>5. QED
  BY <1>1, <1>2, <1>4 DEF AmountInv

\* The order a handler works on.
LEMMA AtWorkOn ==
    ASSUME OrderInv, AmountInv, task.todo # {},
           task.step \in {"manage", "cancel", "startup", "clear"}
    PROVE  /\ First(task.todo) \in Oids /\ task.todo = {First(task.todo)} /\ Loop = Idle
           /\ trade.status \in {"open", "closed"} /\ exch[First(task.todo)].status # "none"
           /\ task \in Tasks
<1>1. First(task.todo) \in Oids /\ task.todo = {First(task.todo)} /\ Loop = Idle
  BY OneRound
<1>2. trade.status \in {"open", "closed"}
  BY AtWork
<1>3. exch[First(task.todo)].status # "none"
  BY <1>1 DEF AmountInv, Tasked
<1>4. QED
  BY <1>1, <1>2, <1>3 DEF OrderInv

\* The exchange moves, and nothing else does.
LEMMA ExchangeMoves ==
    ASSUME OrderInv, AmountInv, NEW o \in Oids, Fill(o) \/ CancelledOnExchange(o)
    PROVE  Forward(o) /\ TableMove(o) /\ UNCHANGED <<rows, trade, task>>
<1>1. Forward(o)
  BY FilledForward, EndedForward DEF CancelledOnExchange
<1>2. UNCHANGED <<rows, trade, task>> /\ TableMove(o)
  BY DEF Fill, CancelledOnExchange, TableMove, UntouchedTrade
<1>3. QED
  BY <1>1, <1>2

\* A handler starts, or ends without an order, or the process restarts.
LEMMA RestMoves ==
    ASSUME OrderInv, AmountInv,
           \/ Manage \/ ExitTrade \/ AdjustTrade \/ ForceExit \/ CancelOpenOrder \/ Restart
           \/ GiveUp \/ Refused
    PROVE  1 \in Oids /\ exch' = exch /\ Forward(1) /\ TableMove(1)
<1>1. 1 \in Oids
  BY OrdersAssumption DEF Oids
<1>2. exch' = exch
  BY DEF Manage, ExitTrade, AdjustTrade, ForceExit, CancelOpenOrder, Clear, Restart, GiveUp, Refused
<1>3. Forward(1)
  BY <1>1, <1>2, SameForward DEF AmountInv
<1>4. UntouchedTrade \/ ReplaceFailed
  BY DEF Manage, ExitTrade, AdjustTrade, ForceExit, CancelOpenOrder, Clear, Restart,
         GiveUp, Refused, UntouchedTrade
<1>5. QED
  BY <1>1, <1>2, <1>3, <1>4 DEF TableMove, ReplaceFailed

\* A handler moves the order it works on.
LEMMA HandlerMoves ==
    ASSUME OrderInv, AmountInv, ManageFetch \/ ClearFetch \/ CancelRequest \/ StartupFetch,
           NEW o, o = First(task.todo)
    PROVE  /\ o \in Oids /\ task.todo = {o} /\ Loop = Idle /\ task \in Tasks
           /\ trade.status \in {"open", "closed"} /\ exch[o].status # "none"
           /\ exch' = exch \/ (exch[o].status = "open" /\ Ended(exch'[o]))
           /\ exch'[o].status # "none"
           /\ Forward(o) /\ TableMove(o)
<1>1. task.todo # {} /\ task.step \in {"manage", "cancel", "startup", "clear"}
  BY DEF ManageFetch, ClearFetch, CancelRequest, StartupFetch, OrderInv, Listed
<1>2. /\ o \in Oids /\ task.todo = {o} /\ Loop = Idle /\ task \in Tasks
      /\ trade.status \in {"open", "closed"} /\ exch[o].status # "none"
  BY <1>1, AtWorkOn
<1>3. \/ exch' = exch
      \/ exch[o].status = "open" /\ exch' = [exch EXCEPT ![o].status = "canceled"] /\ CancelRequest
  BY DEF ManageFetch, ClearFetch, CancelRequest, StartupFetch
<1>4. Forward(o)
  BY <1>2, <1>3, SameForward, EndedForward DEF AmountInv
<1>5. exch'[o].status # "none" /\ (exch' = exch \/ Ended(exch'[o]))
  <2>1. exch \in [Oids -> Amounts]
    BY DEF OrderInv
  <2>2. QED
    BY <2>1, <1>2, <1>3 DEF Ended, Amounts
<1>6. TableMove(o)
  <2>1. CASE ManageFetch \/ ClearFetch \/ StartupFetch
    <3>1. exch' = exch
      BY <2>1 DEF ManageFetch, ClearFetch, StartupFetch
    <3>2. \/ UntouchedTrade \/ DeleteTrade \/ Record(o, exch[o]) \/ EntryEnded(o, exch[o])
      <4>1. CASE ManageFetch
        BY <4>1 DEF ManageFetch
      <4>2. CASE ClearFetch
        BY <4>2 DEF ClearFetch
      <4>3. CASE StartupFetch
        BY <4>3 DEF StartupFetch
      <4>4. QED
        BY <2>1, <4>1, <4>2, <4>3
    <3>3. QED
      BY <3>1, <3>2, <1>2 DEF TableMove, EntryEnded
  <2>2. CASE CancelRequest
    <3> DEFINE a == exch'[o]
    <3>1. CASE CancelEntry(o, a)
      BY <3>1, <1>2, <1>5 DEF CancelEntry, EntryEnded, TableMove
    <3>2. CASE KeepEntry
      BY <3>2 DEF KeepEntry, ReplaceFailed, TableMove
    <3>3. CASE CancelExit(o, a)
      BY <3>3, <1>2, <1>5 DEF CancelExit, TableMove
    <3>4. CASE UntouchedTrade
      BY <3>4 DEF TableMove
    <3>5. QED
      BY <2>2, <3>1, <3>2, <3>3, <3>4 DEF CancelRequest
  <2>3. QED
    BY <2>1, <2>2
<1>7. exch' = exch \/ (exch[o].status = "open" /\ Ended(exch'[o]))
  BY <1>3, <1>5, Zenon
<1>8. QED
  BY <1>2, <1>4, <1>5, <1>6, <1>7, Zenon

\* An order that has an open row is on the exchange.
LEMMA OpenPlaced ==
    ASSUME NEW E, NEW R, Below(E, R), NEW o \in Oids, R[o].status = "open"
    PROVE  E[o].status # "none"
BY DEF Below, NoOrder

\* A handler that has ended has no amounts.
LEMMA IdleAmounts == ASSUME task' = Idle PROVE Tasked' /\ Reserve' = 0
BY BoundType DEF Idle, Tasked, Reserve, Reserved

\* A step after which the handler has ended.
LEMMA LastStep ==
    ASSUME OrderInv, OrderInv', AmountInv, NEW o \in Oids, Forward(o), TableMove(o), task' = Idle
    PROVE  AmountInv'
<1>1. Worth(exch[o]) \in Nat /\ Worth(exch'[o]) \in Nat /\ Worth(exch'[o]) <= Worth(exch[o])
  BY ForwardOrders
<1>2. Reserve \in Nat
  BY ReserveType
<1>3. Worth(exch'[o]) + 0 <= Worth(exch[o]) + Reserve
  BY <1>1, <1>2
<1>4. QED
  BY <1>3, IdleAmounts, AmountStep

\* A step after which it goes on with what it has.
LEMMA NextStep ==
    ASSUME OrderInv, OrderInv', AmountInv, NEW o \in Oids, Forward(o), TableMove(o),
           task'.why = task.why, task'.size = task.size, task'.todo \subseteq task.todo,
           task'.step = "cancel" /\ task'.why = "replace" => exch'[First(task'.todo)].status = "open"
    PROVE  AmountInv'
<1>1. /\ Worth(exch[o]) \in Nat /\ Worth(exch'[o]) \in Nat /\ Worth(exch'[o]) <= Worth(exch[o])
      /\ \A p \in Oids : exch'[p].status = "none" <=> exch[p].status = "none"
      /\ trade.amount > 0 => trade'.amount > 0
  BY ForwardOrders, TabledMove
<1>2. Tasked'
  <2>1. \A p \in task'.todo : p \in Oids /\ exch'[p].status # "none"
    BY <1>1 DEF AmountInv, Tasked, OrderInv, Tasks
  <2>2. QED
    BY <2>1, <1>1 DEF AmountInv, Tasked
<1>3. Reserve \in Nat /\ (Reserve' = 0 \/ Reserve' = Reserve)
  <2>1. Reserve \in Nat
    BY ReserveType
  <2>2. CASE task.why = "reenter"
    BY <2>1, <2>2 DEF Reserve, Reserved
  <2>3. CASE task.why # "reenter"
    BY <2>1, <2>3 DEF Reserve, Reserved, Empty, Ended
  <2>4. QED
    BY <2>2, <2>3
<1>4. Worth(exch'[o]) + Reserve' <= Worth(exch[o]) + Reserve
  BY <1>1, <1>3
<1>5. QED
  BY <1>2, <1>4, AmountStep

\* The exchange moves.
LEMMA ExchangeAmounts ==
    ASSUME OrderInv, OrderInv', AmountInv, NEW o \in Oids, Fill(o) \/ CancelledOnExchange(o)
    PROVE  AmountInv'
<1> DEFINE f == First(task.todo)
<1>1. Forward(o)
  BY ExchangeMoves
<1>2. UNCHANGED <<rows, trade, task>> /\ TableMove(o)
  BY ExchangeMoves
<1>3. /\ Worth(exch[o]) \in Nat /\ Worth(exch'[o]) \in Nat /\ Worth(exch'[o]) <= Worth(exch[o])
      /\ \A p \in Oids : exch'[p].status = "none" <=> exch[p].status = "none"
  BY <1>1, ForwardOrders
<1>4. Tasked'
  <2>1. \A p \in task'.todo : p \in Oids /\ exch'[p].status # "none"
    BY <1>2, <1>3 DEF AmountInv, Tasked, OrderInv, Tasks
  <2>2. QED
    BY <2>1, <1>2 DEF AmountInv, Tasked
<1>5. Reserve \in Nat /\ Reserve' \in Nat
  BY ReserveType, ReserveTypeNext
<1>6. CASE Reserve' <= Reserve
  <2>1. Worth(exch'[o]) + Reserve' <= Worth(exch[o]) + Reserve
    BY <1>3, <1>5, <1>6
  <2>2. QED
    BY <2>1, <1>1, <1>2, <1>4, AmountStep
<1>7. CASE ~(Reserve' <= Reserve)
  <2>1. /\ task.why # "reenter" /\ task.step = "cancel" /\ task.why = "replace"
        /\ exch'[f].side = "entry" /\ Empty(exch'[f])
        /\ exch'[f] # exch[f] /\ Reserve' = exch'[f].amount
    <3>1. Reserve' = Reserved(exch', task)
      BY <1>2 DEF Reserve
    <3>2. Reserve = Reserved(exch, task)
      BY DEF Reserve
    <3>3. Reserved(exch', task) # Reserved(exch, task) /\ Reserved(exch', task) # 0
      BY <3>1, <3>2, <1>5, <1>7
    <3>4. QED
      BY <3>1, <3>3 DEF Reserved
  <2>2. f \in Oids
    BY <2>1, OneRound DEF OrderInv, Listed
  <2>3. f = o /\ exch[o].status = "open" /\ exch[o].side = "entry" /\ exch'[o].amount = exch[o].amount
    BY <2>1, <2>2, <1>1 DEF Forward, GoesTo
  <2>4. Worth(exch'[o]) = 0 /\ Worth(exch[o]) = exch[o].amount
    BY <2>1, <2>3 DEF Worth, Empty, Ended
  <2>5. Worth(exch'[o]) + Reserve' <= Worth(exch[o]) + Reserve
    BY <2>1, <2>3, <2>4, <1>3, <1>5
  <2>6. QED
    BY <2>5, <1>1, <1>2, <1>4, AmountStep
<1>8. QED
  BY <1>6, <1>7

\* A handler starts, or the process does.
LEMMA StartAmounts ==
    ASSUME OrderInv, OrderInv', AmountInv,
           Manage \/ ExitTrade \/ AdjustTrade \/ ForceExit \/ CancelOpenOrder \/ Restart
    PROVE  AmountInv'
<1>1. 1 \in Oids /\ AddSize \in Nat /\ AddSize > 0
  BY OrdersAssumption DEF Oids
<1>2. UNCHANGED <<exch, rows, trade>>
  BY DEF Manage, ExitTrade, AdjustTrade, ForceExit, CancelOpenOrder, Clear, Restart
<1>3. Forward(1) /\ TableMove(1)
  BY RestMoves
<1>4. /\ task'.todo \subseteq OpenRows(rows) /\ task'.step # "cancel"
      /\ \/ task'.why \notin {"exit", "trim", "add", "reenter", "reexit"} /\ task'.size = 0
         \/ task'.why = "exit" /\ task'.size = trade.amount /\ trade.amount > 0
         \/ task'.why = "trim" /\ task'.size \in 1..trade.amount
         \/ task'.why = "add" /\ task'.size = AddSize
  <2>1. ASSUME NEW why, NEW n, Clear(why, n)
        PROVE  /\ task'.step = "clear" /\ task'.todo = OpenRows(rows)
               /\ task'.why = why /\ task'.size = n
    BY <2>1 DEF Clear, Idle
  <2>2. CASE Manage \/ Restart
    <3>1. \/ task' = Idle
          \/ task' = [Idle EXCEPT !.step = "manage", !.todo = OpenRows(rows), !.why = "timeout"]
          \/ task' = [Idle EXCEPT !.step = "startup", !.todo = OpenRows(rows)]
      BY <2>2 DEF Manage, Restart
    <3> DEFINE S == OpenRows(rows)
    <3>2. CASE task' = Idle
      BY <3>2 DEF Idle
    <3>3. CASE task' = [Idle EXCEPT !.step = "manage", !.todo = S, !.why = "timeout"]
      BY <3>3 DEF Idle
    <3>4. CASE task' = [Idle EXCEPT !.step = "startup", !.todo = S]
      BY <3>4 DEF Idle
    <3>5. QED
      BY <3>1, <3>2, <3>3, <3>4
  <2>3. CASE ExitTrade
    BY <2>1, <2>3 DEF ExitTrade
  <2>4. CASE AdjustTrade
    <3>1. CASE Clear("add", AddSize)
      BY <2>1, <3>1
    <3>2. ASSUME NEW n \in 1..trade.amount, Clear("trim", n)
          PROVE  task'.todo = OpenRows(rows) /\ task'.step = "clear" /\ task'.why = "trim" /\ task'.size = n
      BY <2>1, <3>2
    <3>3. QED
      BY <2>4, <3>1, <3>2 DEF AdjustTrade
  <2>5. CASE ForceExit \/ CancelOpenOrder
    <3> DEFINE z == 0
    <3>1. Clear("force", z) \/ Clear("user", z)
      BY <2>5 DEF ForceExit, CancelOpenOrder
    <3>2. QED
      BY <2>1, <3>1
  <2>6. QED
    BY <2>2, <2>3, <2>4, <2>5
<1>5. trade.amount \in Nat /\ trade.amount <= Bound /\ Bound \in Nat /\ AddSize <= Bound
  BY BoundType DEF AmountInv, Tabled, OrderInv, Trades
<1>6. Tasked'
  <2>1. \A p \in task'.todo : exch'[p].status # "none"
    BY <1>2, <1>4, OpenPlaced DEF OpenRows, AmountInv, Tabled
  <2>2. QED
    BY <2>1, <1>1, <1>2, <1>4, <1>5 DEF Tasked
<1>7. Reserve' = 0 /\ Reserve \in Nat /\ Worth(exch[1]) \in Nat
  <2>1. Reserve' = 0
    BY <1>4 DEF Reserve, Reserved
  <2>2. QED
    BY <2>1, <1>1, ReserveType, WholeType DEF OrderInv
<1>8. Worth(exch'[1]) + Reserve' <= Worth(exch[1]) + Reserve
  BY <1>2, <1>7
<1>9. QED
  BY <1>1, <1>3, <1>6, <1>8, AmountStep

\* manage_open_orders fetches an order.
LEMMA ManageFetchAmounts ==
    ASSUME OrderInv, OrderInv', AmountInv, ManageFetch PROVE AmountInv'
<1> DEFINE o == First(task.todo)
<1>2. /\ o \in Oids /\ task.todo = {o} /\ Loop = Idle /\ task \in Tasks /\ exch[o].status # "none"
  BY HandlerMoves
<1>3. exch' = exch
  BY DEF ManageFetch
<1>4. Forward(o) /\ TableMove(o)
  BY HandlerMoves
<1>5. \/ task' = Idle
      \/ \E why \in {"timeout", "drop", "replace"} :
            exch[o].status = "open" /\ task' = [task EXCEPT !.step = "cancel", !.why = why]
  BY <1>2 DEF ManageFetch
<1>6. CASE task' = Idle
  BY <1>2, <1>3, <1>4, <1>6, LastStep
<1>7. ASSUME NEW why \in {"timeout", "drop", "replace"}, exch[o].status = "open",
             task' = [task EXCEPT !.step = "cancel", !.why = why]
      PROVE  AmountInv'
  <2>1. task'.todo = task.todo /\ task'.why = why /\ task'.size = task.size
    BY <1>2, <1>7 DEF Tasks
  <2>2. Tasked'
    BY <2>1, <1>2, <1>3 DEF Tasked, AmountInv
  <2>3. Reserve' = 0
    BY <2>1, <1>3, <1>7 DEF Reserve, Reserved, Empty, Ended
  <2>4. Reserve \in Nat /\ Worth(exch[o]) \in Nat
    BY <1>2, ReserveType, WholeType DEF OrderInv
  <2>5. Worth(exch'[o]) + Reserve' <= Worth(exch[o]) + Reserve
    BY <1>3, <2>3, <2>4
  <2>6. QED
    BY <1>2, <1>3, <1>4, <2>2, <2>5, AmountStep
<1>8. QED
  BY <1>5, <1>6, <1>7

\* cancel_open_orders_of_trade fetches an order.
LEMMA ClearFetchAmounts ==
    ASSUME OrderInv, OrderInv', AmountInv, ClearFetch PROVE AmountInv'
<1> DEFINE o == First(task.todo)
<1>1. task.step = "clear"
  BY DEF ClearFetch
<1>2. o \in Oids /\ task.todo = {o} /\ task \in Tasks
  BY HandlerMoves
<1>3. exch' = exch
  BY DEF ClearFetch
<1>4. Forward(o) /\ TableMove(o)
  BY HandlerMoves
<1>5. \/ task' = Idle
      \/ /\ task'.why = task.why /\ task'.size = task.size /\ task'.todo \subseteq task.todo
         /\ \/ task'.step = "clear"
            \/ task'.step = "cancel" /\ task'.todo = task.todo /\ exch[o].status = "open"
  BY <1>1, <1>2 DEF ClearFetch, Tasks
<1>6. CASE task' = Idle
  BY <1>2, <1>3, <1>4, <1>6, LastStep
<1>7. CASE /\ task'.why = task.why /\ task'.size = task.size /\ task'.todo \subseteq task.todo
           /\ \/ task'.step = "clear"
              \/ task'.step = "cancel" /\ task'.todo = task.todo /\ exch[o].status = "open"
  BY <1>2, <1>3, <1>4, <1>7, NextStep
<1>8. QED
  BY <1>5, <1>6, <1>7

\* startup_update_open_orders fetches an order; a handler ends without one.
LEMMA EndAmounts ==
    ASSUME OrderInv, OrderInv', AmountInv, StartupFetch \/ GiveUp \/ Refused PROVE AmountInv'
<1>1. CASE StartupFetch
  <2> DEFINE o == First(task.todo)
  <2>1. o \in Oids /\ Loop = Idle /\ Forward(o) /\ TableMove(o)
    BY <1>1, HandlerMoves
  <2>2. QED
    BY <1>1, <2>1, LastStep DEF StartupFetch
<1>2. CASE GiveUp \/ Refused
  <2>1. 1 \in Oids /\ Forward(1) /\ TableMove(1) /\ task' = Idle
    BY <1>2, RestMoves DEF GiveUp, Refused
  <2>2. QED
    BY <2>1, LastStep
<1>3. QED
  BY <1>1, <1>2

\* A handler that clears the orders of the trade once more, for another order.
LEMMA ThenExitAmounts ==
    ASSUME OrderInv, OrderInv', AmountInv, NEW o \in Oids, Forward(o), TableMove(o),
           NEW why \in {"reenter", "reexit", "exit"}, NEW n \in Nat, task' = ThenExit(why, n),
           n > 0, n <= Bound, why # "reenter" => trade'.amount > 0,
           why = "reenter" => Worth(exch'[o]) + n <= Worth(exch[o]) + Reserve
    PROVE  AmountInv'
<1>1. /\ task'.step = "clear" /\ task'.todo = OpenRows(rows')
      /\ task'.why = why /\ task'.size = n
  BY DEF ThenExit, Idle
<1>2. Below(exch', rows')
  BY TabledMove DEF Tabled
<1>3. \A p \in task'.todo : exch'[p].status # "none"
  BY <1>1, <1>2, OpenPlaced DEF OpenRows
<1>4. Tasked'
  BY <1>1, <1>3 DEF Tasked
<1>5. /\ Worth(exch[o]) \in Nat /\ Worth(exch'[o]) \in Nat /\ Worth(exch'[o]) <= Worth(exch[o])
      /\ Reserve \in Nat
  BY ForwardOrders, ReserveType
<1>6. Reserve' = IF why = "reenter" THEN n ELSE 0
  BY <1>1 DEF Reserve, Reserved
<1>7. Worth(exch'[o]) + Reserve' <= Worth(exch[o]) + Reserve
  BY <1>5, <1>6
<1>8. QED
  BY <1>4, <1>7, AmountStep

\* handle_cancel_enter and handle_cancel_exit: the cancel is answered, refused or lost.
LEMMA CancelRequestAmounts ==
    ASSUME OrderInv, OrderInv', AmountInv, CancelRequest PROVE AmountInv'
<1> DEFINE o == First(task.todo)
           a == exch'[o]
<1>1. task.step = "cancel"
  BY DEF CancelRequest
<1>2. /\ o \in Oids /\ task.todo = {o} /\ Loop = Idle /\ task \in Tasks
      /\ exch[o].status # "none"
  BY HandlerMoves
<1>3. /\ exch' = exch \/ exch[o].status = "open"
      /\ Forward(o)
  BY HandlerMoves
<1>4. /\ a \in Amounts /\ a.status # "none" /\ a.side = exch[o].side /\ a.amount = exch[o].amount
      /\ a.amount > 0 /\ a.amount <= Bound
      /\ a.side = "exit" => trade.amount > 0
  <2>1. a \in Amounts /\ a.status # "none" /\ a.side = exch[o].side /\ a.amount = exch[o].amount
    BY <1>2, <1>3 DEF Forward, GoesTo
  <2>2. Priced(exch') /\ Tabled
    BY <1>2, <1>3, ForwardOrders DEF AmountInv
  <2>3. QED
    BY <1>2, <2>1, <2>2 DEF Priced, Tabled
<1>5. TableMove(o)
  BY HandlerMoves
<1>6. ASSUME NEW gone, GoOn(gone) PROVE AmountInv'
  <2>1. CASE task.why \in {"timeout", "drop", "replace"}
    <3>1. task' = Idle
      BY <2>1, <1>2, <1>6 DEF GoOn
    <3>2. QED
      BY <3>1, <1>2, <1>3, <1>5, LastStep
  <2>2. CASE task.why \notin {"timeout", "drop", "replace"}
    <3>1. /\ task'.why = task.why /\ task'.size = task.size /\ task'.todo \subseteq task.todo
          /\ task'.step = "clear"
      BY <2>2, <1>2, <1>6 DEF GoOn, Tasks
    <3>2. QED
      BY <3>1, <1>2, <1>3, <1>5, NextStep
  <2>3. QED
    BY <2>1, <2>2
<1>7. CASE task' = Idle
  BY <1>2, <1>3, <1>5, <1>7, LastStep
<1>8. CASE a.side = "entry" /\ Ended(a) /\ CancelEntry(o, a)
  <2>1. CASE task.why = "replace" /\ a.filled = 0
    <3>1. task' = ThenExit("reenter", a.amount)
      BY <1>8, <2>1 DEF CancelEntry
    <3>2. Worth(a) = 0 /\ Reserve \in Nat /\ a.amount \in Nat /\ Worth(exch[o]) \in Nat
      BY <1>2, <1>4, <1>8, <2>1, ReserveType, WholeType DEF Worth, Empty, Amounts, OrderInv
    <3>3. CASE exch[o].status = "open"
      <4>1. Worth(exch[o]) = a.amount
        BY <1>4, <1>8, <3>3 DEF Worth, Empty, Ended
      <4>2. Worth(a) + a.amount <= Worth(exch[o]) + Reserve
        BY <3>2, <4>1
      <4>3. QED
        BY <4>2, <3>1, <1>2, <1>3, <1>4, <1>5, <3>2, ThenExitAmounts
    <3>4. CASE exch' = exch
      <4>1. Reserve = a.amount
        BY <1>1, <1>8, <2>1, <3>4 DEF Reserve, Reserved, Empty
      <4>2. Worth(a) + a.amount <= Worth(exch[o]) + Reserve
        BY <3>2, <4>1
      <4>3. QED
        BY <4>2, <3>1, <1>2, <1>3, <1>4, <1>5, <3>2, ThenExitAmounts
    <3>5. QED
      BY <3>3, <3>4, <1>3
  <2>2. CASE ~(task.why = "replace" /\ a.filled = 0)
    BY <1>6, <1>8, <2>2 DEF CancelEntry
  <2>3. QED
    BY <2>1, <2>2
<1>9. CASE KeepEntry
  BY <1>6, <1>9 DEF KeepEntry
<1>10. CASE a.side = "exit" /\ CancelExit(o, a)
  <2>1. trade'.amount > 0 /\ trade'.amount <= Bound /\ trade'.amount \in Nat /\ Bound \in Nat
    BY <1>2, <1>3, <1>4, <1>5, <1>10, TabledMove, BoundType DEF Tabled, OrderInv, Trades
  <2>2. Remaining(a) \in Nat /\ Remaining(a) > 0 /\ Remaining(a) <= Bound
    <3>1. a.amount \in Nat /\ a.filled \in Nat
      BY <1>4 DEF Amounts
    <3>2. QED
      BY <2>1, <3>1, <1>4 DEF Remaining
  <2>3. ASSUME NEW why \in {"reexit", "exit"}, task' = ThenExit(why, Remaining(a))
        PROVE  AmountInv'
    BY <2>1, <2>2, <2>3, <1>2, <1>3, <1>5, ThenExitAmounts
  <2>4. QED
    BY <2>3, <1>6, <1>10 DEF CancelExit
<1>11. QED
  BY <1>7, <1>8, <1>9, <1>10 DEF CancelRequest

\* How much of an order create_order may have filled.
LEMMA AcceptedFilled ==
    ASSUME NEW side \in Sides, NEW n \in Nat, side = "exit" => Position \in Nat,
           NEW a \in Accepted(side, n)
    PROVE  /\ a.filled <= n /\ (a.status = "open" => a.filled = 0)
           /\ side = "exit" => a.filled <= Position
<1> DEFINE most == IF side = "exit" /\ Position < n THEN Position ELSE n
<1>1. most \in Nat /\ most <= n /\ (side = "exit" => most <= Position)
  OBVIOUS
<1> HIDE DEF most
<1>2. \E s \in {"open", "closed", "canceled"}, f \in 0..most :
         /\ a = [side |-> side, status |-> s, amount |-> n, filled |-> f]
         /\ s = "open" => f = 0
  BY <1>1 DEF Accepted, most
<1>3. QED
  BY <1>1, <1>2

\* An order the exchange accepts, with an amount it may have.
Acceptable(a) ==
    /\ a \in Amounts /\ a.status # "none" /\ a.amount > 0 /\ a.amount <= Bound
    /\ a.filled <= a.amount /\ (a.status = "open" => a.filled = 0)
    /\ a.side = "exit" => a.filled <= Position

\* What placing it does to the orders of the exchange, and what rows may go with them.
LEMMA PlacedOrders ==
    ASSUME OrderInv, AmountInv, NEW a, Acceptable(a), Placed(a)
    PROVE  /\ NextId \in Oids /\ exch' \in [Oids -> Amounts] /\ exch'[NextId] = a
           /\ exch[NextId] = NoOrder /\ \A p \in Oids \ {NextId} : exch'[p] = exch[p]
           /\ Orderly' /\ Priced(exch') /\ NextId' = NextId + 1
           /\ Worth(a) \in Nat /\ Worth(a) <= a.amount
           /\ Committed(exch') = Committed(exch) + Worth(a)
           /\ Below(exch', rows) /\ Below(exch', NoRows)
<1> DEFINE k == NextId
<1>1. /\ k \in Oids /\ exch[k] = NoOrder /\ \A p \in Oids : p < k => exch[p].status # "none"
  BY FreshId DEF Placed, AmountInv
<1>2. exch \in [Oids -> Amounts] /\ rows \in [Oids -> Amounts] /\ a \in Amounts
  BY DEF OrderInv, Acceptable
<1>3. exch' = [exch EXCEPT ![k] = a]
  BY DEF Placed
<1> HIDE DEF k
<1>4. /\ exch' \in [Oids -> Amounts] /\ exch'[k] = a
      /\ \A p \in Oids \ {k} : exch'[p] = exch[p]
  BY <1>1, <1>2, <1>3
<1>5. NextId' = k + 1
  <2> DEFINE Used == {o \in Oids : exch[o].status # "none"}
             Now == {o \in Oids : exch'[o].status # "none"}
  <2>1. IsFiniteSet(Used) /\ k \notin Used
    <3>1. IsFiniteSet(Oids)
      BY FS_Interval, OrdersAssumption DEF Oids
    <3>2. IsFiniteSet(Used)
      BY <3>1, FS_Subset
    <3>3. QED
      BY <3>2, <1>1 DEF NoOrder
  <2>2. Now = Used \cup {k}
    BY <1>1, <1>4 DEF Acceptable
  <2>3. Cardinality(Now) = Cardinality(Used) + 1
    BY <2>1, <2>2, FS_AddElement
  <2>4. NextId' = Cardinality(Now) + 1 /\ k = Cardinality(Used) + 1
    BY DEF NextId, k
  <2>5. QED
    BY <2>3, <2>4
<1>6. Position' >= 0
  <2> DEFINE E == exch'
  <2>1. Net(E, Oids) - Net(exch, Oids) = Term(E, Oids, k) - Term(exch, Oids, k)
    <3>1. E \in [Oids -> Amounts] /\ \A p \in Oids \ {k} : Term(E, Oids, p) = Term(exch, Oids, p)
      BY <1>4 DEF Term, Signed
    <3> HIDE DEF E
    <3>2. QED
      BY <3>1, <1>1, <1>2, NetDiffers
  <2>2. Term(E, Oids, k) = Signed(a) /\ Term(exch, Oids, k) = 0
    BY <1>1, <1>4 DEF Term, Signed, NoOrder
  <2>3. Net(E, Oids) \in Int /\ Net(exch, Oids) \in Int
    BY <1>2, <1>4, NetType
  <2>4. Position' = Net(E, Oids) /\ Position = Net(exch, Oids) /\ Position >= 0
    BY DEF Position, AmountInv, Orderly
  <2>5. Signed(a) \in Int /\ (Signed(a) >= 0 \/ (Signed(a) = -a.filled /\ a.filled <= Position))
        /\ a.filled \in Nat
    BY <1>2 DEF Signed, Acceptable, Amounts, Sides
  <2> HIDE DEF E
  <2>6. QED
    BY <2>1, <2>2, <2>3, <2>4, <2>5
<1>7. Orderly'
  <2>1. Known(exch')
    BY <1>1, <1>4 DEF AmountInv, Orderly, Known, Acceptable
  <2>2. ASSUME NEW o \in Oids, NEW p \in Oids, p < o, exch'[o].status # "none"
        PROVE  exch'[p].status # "none"
    <3>1. CASE p = k
      BY <3>1, <1>4 DEF Acceptable
    <3>2. CASE p # k /\ o = k
      BY <3>2, <2>2, <1>1, <1>4
    <3>3. CASE p # k /\ o # k
      BY <3>3, <2>2, <1>4 DEF AmountInv, Orderly
    <3>4. QED
      BY <3>1, <3>2, <3>3
  <2>3. QED
    BY <1>6, <2>1, <2>2 DEF Orderly
<1>8. Priced(exch')
  <2> SUFFICES ASSUME NEW p \in Oids, exch'[p].status # "none"
               PROVE  /\ exch'[p].amount > 0 /\ exch'[p].amount <= Bound
                      /\ exch'[p].filled <= exch'[p].amount
                      /\ exch'[p].status = "open" => exch'[p].filled < exch'[p].amount
    BY DEF Priced
  <2>1. CASE p = k
    <3>1. exch'[p] = a /\ a.amount \in Nat
      BY <2>1, <1>2, <1>4 DEF Amounts
    <3>2. QED
      BY <3>1 DEF Acceptable
  <2>2. CASE p # k
    BY <2>2, <1>4 DEF AmountInv, Priced
  <2>3. QED
    BY <2>1, <2>2
<1>9. Worth(a) \in Nat /\ Worth(a) <= a.amount
  BY <1>2 DEF Worth, Amounts
<1>10. Committed(exch') = Committed(exch) + Worth(a)
  <2> DEFINE E == exch'
  <2>1. E \in [Oids -> Amounts] /\ \A p \in Oids \ {k} : E[p] = exch[p]
    BY <1>4
  <2>2. Worth(E[k]) = Worth(a) /\ Worth(exch[k]) = 0
    BY <1>1, <1>4 DEF Worth, NoOrder
  <2> HIDE DEF E
  <2>3. Committed(E) = Committed(exch) + Worth(E[k]) - Worth(exch[k])
        /\ Committed(E) \in Int /\ Committed(exch) \in Int
    BY <1>1, <1>2, <2>1, CommittedChange, WholeType
  <2>4. Committed(E) = Committed(exch) + Worth(a)
    BY <2>2, <2>3, <1>9
  <2>5. QED
    BY <2>4 DEF E
<1>11. Below(exch', rows)
  <2>1. Below(exch, rows)
    BY DEF AmountInv, Tabled
  <2>2. rows[k] = NoOrder
    BY <1>1, <2>1 DEF Below, NoOrder
  <2>3. QED
    BY <2>1, <2>2, <1>4 DEF Below
<1>12. Below(exch', NoRows)
  BY DEF Below, NoRows
<1>13. QED
  BY <1>1, <1>4, <1>5, <1>7, <1>8, <1>9, <1>10, <1>11, <1>12 DEF k

\* The first entry and the additions pay for what is placed.
Paid(a) ==
    Worth(a) + (IF trade.status = "none" THEN 0 ELSE EntrySize)
        <= (IF trade'.status = "none" THEN 0 ELSE EntrySize) + AddSize + Reserve

\* So the entries stay within the bound.
LEMMA PlacedBudget ==
    ASSUME OrderInv, AmountInv, NEW a, Acceptable(a), Placed(a), task' = Idle, Paid(a)
    PROVE  Budget' /\ Committed(exch') \in Int /\ Committed(exch') <= Bound
<1>1. /\ NextId \in Oids /\ NextId' = NextId + 1 /\ Worth(a) \in Nat
      /\ Committed(exch') = Committed(exch) + Worth(a) /\ Committed(exch) \in Int
  BY PlacedOrders, WholeType DEF OrderInv
<1>2. Reserve' = 0 /\ Reserve \in Nat
  BY IdleAmounts, ReserveType
<1> DEFINE was == IF trade.status = "none" THEN 0 ELSE EntrySize
           now == IF trade'.status = "none" THEN 0 ELSE EntrySize
           c == NextId - 1
<1>3. /\ AddSize \in Nat /\ EntrySize \in Nat /\ was \in Nat /\ now \in Nat /\ now <= EntrySize
      /\ c \in Nat /\ c + 1 \in Nat /\ c + 1 <= MaxOrders /\ NextId' - 1 = c + 1
  BY <1>1, OrdersAssumption DEF Oids
<1>4. Committed(exch) + Reserve <= was + c * AddSize
  BY DEF AmountInv, Budget
<1>5. Worth(a) + was <= now + AddSize + Reserve
  BY DEF Paid
<1>6. Budget' <=> Committed(exch') + Reserve' <= now + (c + 1) * AddSize
  BY <1>3 DEF Budget
<1> DEFINE d == c + 1
<1>7. d * AddSize \in Nat /\ EntrySize + d * AddSize <= Bound /\ Bound \in Nat
  BY <1>3, Affordable, BoundType
<1> HIDE DEF was, now, c
<1>8. (c + 1) * AddSize = c * AddSize + AddSize /\ c * AddSize \in Nat
  BY <1>3
<1>9. Committed(exch') + Reserve' <= now + (c + 1) * AddSize
  BY <1>1, <1>2, <1>3, <1>4, <1>5, <1>8
<1>10. QED
  BY <1>1, <1>2, <1>3, <1>6, <1>7, <1>9

\* An order is placed, and the tables go with it.
LEMMA PlacedAmounts ==
    ASSUME OrderInv, OrderInv', AmountInv, NEW a, Acceptable(a), Placed(a), task' = Idle, Paid(a),
           Below(exch', rows'), trade'.amount <= Bound,
           trade'.status = "none" => trade'.amount = 0,
           trade.amount > 0 => trade'.amount > 0, a.side = "exit" => trade'.amount > 0,
           \/ trade'.status = "deleted"
           \/ rows' = rows /\ a.filled = 0 /\ trade.status # "deleted"
           \/ /\ rows' = Recorded(rows, NextId, a) /\ trade.status # "deleted"
              /\ a.side = "entry" /\ Ended(a) /\ a.filled > 0 => trade'.amount > 0
    PROVE  AmountInv'
<1>1. /\ NextId \in Oids /\ exch'[NextId] = a /\ Orderly' /\ Priced(exch')
      /\ \A p \in Oids \ {NextId} : exch'[p] = exch[p]
  BY PlacedOrders
<1>2. /\ (\E p \in Oids : exch[p].side = "exit") => trade.amount > 0
      /\ trade.status # "deleted" => Booked(exch, rows, trade)
  BY DEF AmountInv, Tabled
<1>3. (\E p \in Oids : exch'[p].side = "exit") => trade'.amount > 0
  BY <1>1, <1>2
<1>4. trade'.status # "deleted" => Booked(exch', rows', trade')
  <2> SUFFICES ASSUME trade'.status # "deleted", NEW p \in Oids,
                      exch'[p].side = "entry", exch'[p].filled > 0
               PROVE  rows'[p].status = "open" \/ trade'.amount > 0
    BY DEF Booked
  <2>1. CASE p = NextId
    <3> a \in Amounts /\ a.status # "none"
      BY DEF Acceptable
    <3>1. a.filled > 0 /\ a.side = "entry" /\ a.filled \in Nat /\ a.status \in {"open", "closed", "canceled"}
      <4>1. exch'[p] = a
        BY <2>1, <1>1
      <4>2. QED
        BY <4>1 DEF Amounts
    <3>2. rows' = Recorded(rows, NextId, a) /\ (Ended(a) => trade'.amount > 0)
      BY <3>1
    <3>3. rows'[NextId] = a
      <4>1. rows \in [Oids -> Amounts]
        BY DEF OrderInv
      <4>2. QED
        BY <4>1, <3>2, <1>1, RecordedType
    <3>4. QED
      BY <2>1, <3>1, <3>2, <3>3 DEF Ended
  <2>2. CASE p # NextId
    <3>1. rows'[p] = rows[p]
      <4>1. rows \in [Oids -> Amounts] /\ a \in Amounts
        BY DEF OrderInv, Acceptable
      <4>2. QED
        BY <4>1, <2>2, <1>1, RecordedType
    <3>2. rows[p].status = "open" \/ trade.amount > 0
      BY <2>2, <1>1, <1>2 DEF Booked
    <3>3. QED
      BY <3>1, <3>2
  <2>3. QED
    BY <2>1, <2>2
<1>5. Tabled'
  BY <1>3, <1>4 DEF Tabled
<1>6. QED
  BY <1>1, <1>5, PlacedBudget, IdleAmounts DEF AmountInv

\* The amount of a trade once a placed order is recorded and booked.
LEMMA PlacedSettled ==
    ASSUME OrderInv, AmountInv, NEW a, Acceptable(a), Placed(a),
           Committed(exch') <= Bound, NEW t \in Trades, t.amount <= Bound, NEW b,
           NEW R, R = Recorded(rows, NextId, a), NEW s, s = Settled(t, rows, NextId, a, b)
    PROVE  /\ Below(exch', R) /\ s.amount <= Bound /\ (t.amount > 0 => s.amount > 0)
           /\ a.side = "entry" /\ Ended(a) /\ a.filled > 0 => s.amount > 0
<1> DEFINE E == exch'
           k == NextId
<1>1. /\ E \in [Oids -> Amounts] /\ k \in Oids /\ E[k] = a /\ Priced(E) /\ Below(E, rows)
      /\ Committed(E) <= Bound /\ E[k].status # "none" /\ rows \in [Oids -> Amounts]
  BY PlacedOrders DEF Acceptable, OrderInv
<1>2. R = Recorded(rows, k, E[k]) /\ s = Settled(t, rows, k, E[k], b)
  BY <1>1
<1> HIDE DEF E, k
<1>3. /\ Below(E, R) /\ s.amount <= Bound /\ (t.amount > 0 => s.amount > 0)
      /\ E[k].side = "entry" /\ Ended(E[k]) /\ E[k].filled > 0 => s.amount > 0
  BY <1>1, <1>2, SettledAmount
<1>4. QED
  BY <1>1, <1>3 DEF E

\* The rest of execute_entry.
LEMMA EntryPlacedAmounts ==
    ASSUME OrderInv, OrderInv', AmountInv, NEW a, Acceptable(a), a.side = "entry", Placed(a),
           task' = Idle, Paid(a), EntryPlaced(a), trade.status # "deleted"
    PROVE  AmountInv'
<1> DEFINE t == [trade EXCEPT !.status = "open"]
           opened == Recalc(t, rows)
           no == FALSE
<1>1. t \in Trades /\ t.amount = trade.amount /\ t.amount <= Bound
  BY DEF OrderInv, Trades, AmountInv, Tabled
<1>2. Recalculated(rows) \in Int /\ Recalculated(rows) <= Bound
  <2>1. Recalculated(rows) \in Int /\ Recalculated(rows) <= Committed(exch)
    BY RecalculatedBelow DEF OrderInv, AmountInv, Tabled
  <2>2. Committed(exch) <= Bound /\ Committed(exch) \in Int /\ Bound \in Nat
    BY CommittedBound, WholeType, BoundType DEF OrderInv
  <2>3. QED
    BY <2>1, <2>2
<1> HIDE DEF t
<1>3. opened \in Trades /\ opened.amount <= Bound /\ (trade.amount > 0 => opened.amount > 0)
  BY <1>1, <1>2 DEF Recalc, Trades
<1>4. rows' = Recorded(rows, NextId, a) /\ trade' = Settled(opened, rows, NextId, a, no)
  BY DEF EntryPlaced, t
<1>5. Committed(exch') <= Bound
  BY PlacedBudget
<1> HIDE DEF opened, no
<1>6. /\ Below(exch', rows') /\ trade'.amount <= Bound /\ (opened.amount > 0 => trade'.amount > 0)
      /\ a.side = "entry" /\ Ended(a) /\ a.filled > 0 => trade'.amount > 0
  BY <1>3, <1>4, <1>5, PlacedSettled
<1>7. trade'.status \in {"open", "closed"}
  BY EntryPlacedTrade DEF Acceptable, Placed
<1>8. QED
  BY <1>3, <1>4, <1>6, <1>7, PlacedAmounts

\* An order of some amount that the exchange accepts.
LEMMA AcceptedAcceptable ==
    ASSUME NEW side \in Sides, NEW n \in Nat, n > 0, n <= Bound,
           side = "exit" => Position \in Nat, NEW a \in Accepted(side, n)
    PROVE  Acceptable(a) /\ a.side = side /\ a.amount = n
BY AcceptedOrder, AcceptedFilled DEF Acceptable

\* execute_entry for a new trade.
LEMMA EnterTradeAmounts ==
    ASSUME OrderInv, OrderInv', AmountInv, EnterTrade PROVE AmountInv'
<1>1. trade.status = "none" /\ task' = Idle
  BY DEF EnterTrade
<1>2. PICK a \in Accepted("entry", EntrySize) :
         Placed(a) /\ IF Empty(a) THEN UntouchedTrade ELSE EntryPlaced(a)
  BY DEF EnterTrade
<1>3. Acceptable(a) /\ a.side = "entry" /\ a.amount = EntrySize
  BY AcceptedAcceptable, OrdersAssumption, BoundType DEF Sides
<1>4. Worth(a) \in Nat /\ Worth(a) <= EntrySize /\ Below(exch', rows)
  BY <1>2, <1>3, PlacedOrders
<1>5. AddSize \in Nat /\ EntrySize \in Nat /\ Reserve \in Nat
  BY OrdersAssumption, ReserveType
<1>6. CASE Empty(a)
  <2>1. UNCHANGED <<rows, trade>> /\ Worth(a) = 0 /\ a.filled = 0
    BY <1>2, <1>6 DEF Worth, Empty, UntouchedTrade
  <2>2. Paid(a)
    BY <2>1, <1>1, <1>5 DEF Paid
  <2>3. trade.amount <= Bound /\ trade.amount = 0 /\ trade' = trade
    BY <2>1, <1>1 DEF AmountInv, Tabled
  <2>4. QED
    BY <2>1, <2>2, <2>3, <1>1, <1>2, <1>3, <1>4, PlacedAmounts
<1>7. CASE ~Empty(a)
  <2>1. EntryPlaced(a) /\ trade'.status \in {"open", "closed"}
    BY <1>2, <1>3, <1>7, EntryPlacedTrade DEF Acceptable, Placed
  <2>2. Paid(a)
    BY <2>1, <1>1, <1>4, <1>5 DEF Paid
  <2>3. QED
    BY <2>1, <2>2, <1>1, <1>2, <1>3, EntryPlacedAmounts
<1>8. QED
  BY <1>6, <1>7

\* execute_entry for a trade that exists.
LEMMA PlaceEntryAmounts ==
    ASSUME OrderInv, OrderInv', AmountInv, PlaceEntry PROVE AmountInv'
<1>1. trade.status \in {"open", "closed"} /\ task' = Idle /\ task.why \in {"add", "reenter"}
  BY MayPlaceFacts DEF PlaceEntry
<1>2. PICK a \in Accepted("entry", task.size) :
         /\ Placed(a)
         /\ \/ EntryPlaced(a)
            \/ Empty(a) /\ (DeleteTrade \/ UntouchedTrade)
  BY DEF PlaceEntry, ReplaceFailed
<1>3. task.size \in Nat /\ task.size > 0 /\ task.size <= Bound
      /\ (task.why = "add" => task.size = AddSize)
  BY <1>1 DEF AmountInv, Tasked, OrderInv, Tasks
<1>4. Acceptable(a) /\ a.side = "entry" /\ a.amount = task.size
  BY <1>3, AcceptedAcceptable DEF Sides
<1>5. Worth(a) \in Nat /\ Worth(a) <= task.size /\ Below(exch', rows) /\ Below(exch', NoRows)
  BY <1>2, <1>4, PlacedOrders
<1>6. AddSize \in Nat /\ EntrySize \in Nat /\ Reserve \in Nat
      /\ (task.why = "reenter" => Reserve = task.size)
  BY OrdersAssumption, ReserveType DEF Reserve, Reserved
<1>7. ASSUME trade'.status # "none" PROVE Paid(a)
  BY <1>1, <1>3, <1>5, <1>6, <1>7 DEF Paid
<1>8. CASE EntryPlaced(a)
  <2>1. trade'.status \in {"open", "closed"}
    BY <1>2, <1>4, <1>8, EntryPlacedTrade DEF Acceptable, Placed
  <2>2. QED
    BY <2>1, <1>1, <1>2, <1>4, <1>7, <1>8, EntryPlacedAmounts
<1>9. CASE Empty(a) /\ (DeleteTrade \/ UntouchedTrade)
  <2>1. /\ \/ rows' = rows /\ trade'.status = trade.status
           \/ rows' = NoRows /\ trade'.status = "deleted"
        /\ trade'.amount = trade.amount
    <3>1. trade \in Trades
      BY DEF OrderInv
    <3>2. QED
      BY <3>1, <1>9 DEF DeleteTrade, UntouchedTrade, Trades
  <2>2. trade.amount <= Bound /\ a.filled = 0
    BY <1>9 DEF AmountInv, Tabled, Empty
  <2>3. Paid(a)
    BY <2>1, <1>1, <1>7
  <2>4. QED
    BY <2>1, <2>2, <2>3, <1>1, <1>2, <1>4, <1>5, PlacedAmounts
<1>10. QED
  BY <1>2, <1>8, <1>9

\* A trade with a position and no open order has an amount.
LEMMA HeldHasAmount ==
    ASSUME OrderInv, AmountInv, trade.status # "deleted", OpenRows(rows) = {}, Position > 0
    PROVE  trade.amount > 0
<1> SUFFICES ASSUME ~(trade.amount > 0) PROVE FALSE
  OBVIOUS
<1>1. \A o \in Oids : Term(exch, Oids, o) <= 0
  <2> SUFFICES ASSUME NEW o \in Oids PROVE Term(exch, Oids, o) <= 0
    OBVIOUS
  <2>1. exch[o] \in Amounts /\ ~(exch[o].side = "entry" /\ exch[o].filled > 0)
    BY DEF AmountInv, Tabled, Booked, OpenRows, OrderInv
  <2>2. QED
    BY <2>1 DEF Term, Signed, Amounts, Sides
<1>2. Net(exch, Oids) <= 0
  BY <1>1, NetNotPositive DEF OrderInv
<1>3. Net(exch, Oids) \in Int
  BY NetType DEF OrderInv
<1>4. QED
  BY <1>2, <1>3 DEF Position

\* execute_trade_exit
LEMMA PlaceExitAmounts ==
    ASSUME OrderInv, OrderInv', AmountInv, PlaceExit PROVE AmountInv'
<1>1. trade.status \in {"open", "closed"} /\ task' = Idle /\ OpenRows(rows) = {}
  BY MayPlaceFacts DEF PlaceExit
<1> DEFINE n == IF task.why = "force" THEN trade.amount ELSE task.size
<1>2. PICK a \in Accepted("exit", n) :
         /\ Placed(a)
         /\ rows' = Recorded(rows, NextId, a)
         /\ \/ trade' = Settled(trade, rows, NextId, a, FALSE)
            \/ UNCHANGED trade
  BY DEF PlaceExit
<1>3. Position \in Nat /\ Position > 0
  BY NetType DEF Position, OrderInv, PlaceExit
<1>4. trade.amount > 0 /\ trade.amount \in Nat /\ trade.amount <= Bound /\ trade \in Trades
  BY <1>1, <1>3, HeldHasAmount DEF OrderInv, Trades, AmountInv, Tabled
<1>5. n \in Nat /\ n > 0 /\ n <= Bound
  BY <1>4 DEF AmountInv, Tasked, OrderInv, Tasks, PlaceExit
<1> HIDE DEF n
<1>6. Acceptable(a) /\ a.side = "exit"
  BY <1>3, <1>5, AcceptedAcceptable DEF Sides
<1>7. AddSize \in Nat /\ EntrySize \in Nat /\ Reserve \in Nat /\ Worth(a) = 0
  BY <1>6, OrdersAssumption, ReserveType DEF Worth
<1> DEFINE no == FALSE
<1>8. trade' = Settled(trade, rows, NextId, a, no) \/ trade' = trade
  BY <1>2
<1> HIDE DEF no
<1>9. trade' \in Trades /\ trade'.status \in {"open", "closed"}
  BY <1>1, <1>2, <1>4, <1>6, <1>8, SettledType DEF OrderInv, Acceptable, Placed
<1>10. Paid(a)
  BY <1>1, <1>7, <1>9 DEF Paid
<1>11. Committed(exch') <= Bound
  BY <1>1, <1>2, <1>6, <1>10, PlacedBudget
<1> DEFINE s == Settled(trade, rows, NextId, a, no)
<1>12. Below(exch', rows') /\ s.amount <= Bound /\ s.amount > 0
  BY <1>2, <1>4, <1>6, <1>11, PlacedSettled
<1>13. trade'.amount <= Bound /\ trade'.amount > 0
  BY <1>4, <1>8, <1>12
<1>14. QED
  BY <1>1, <1>2, <1>6, <1>9, <1>10, <1>12, <1>13, PlacedAmounts

\* What every step of the walk over the orders keeps is so at its end.
LEMMA WalkedKeeps ==
    ASSUME OrderInv, NEW S \in SUBSET Tables, [rows |-> rows, trade |-> trade] \in S,
           \A n \in Oids : \A w \in S : exch[n].status # "none" => WalkStep(n, w) \in S
    PROVE  Walked \in S
<1> MaxOrders \in Nat
  BY OrdersAssumption
<1> DEFINE V == [n \in 0..MaxOrders |-> S]
<1>1. /\ V \in [0..MaxOrders -> SUBSET Tables] /\ \A n \in 0..MaxOrders : V[n] = S
      /\ MaxOrders \in 0..MaxOrders /\ 0 \in 0..MaxOrders
  OBVIOUS
<1> HIDE DEF V
<1>2. ASSUME NEW n \in Oids, NEW w \in V[n - 1] PROVE WalkStep(n, w) \in V[n]
  <2>1. V[n - 1] = S /\ V[n] = S
    BY <1>1 DEF Oids
  <2>2. CASE exch[n].status = "none"
    BY <1>2, <2>1, <2>2 DEF WalkStep
  <2>3. CASE exch[n].status # "none"
    BY <1>2, <2>1, <2>3
  <2>4. QED
    BY <2>2, <2>3
<1>3. [rows |-> rows, trade |-> trade] \in V[0]
  BY <1>1
<1>4. exch \in [Oids -> Amounts] /\ rows \in [Oids -> Amounts] /\ trade \in Trades
  BY DEF OrderInv
<1>5. Walked \in V[MaxOrders]
  BY <1>1, <1>2, <1>3, <1>4, WalkedIn
<1>6. QED
  BY <1>1, <1>5

\* A step of the walk, for an order that was placed.
LEMMA WalkStepPlaced ==
    ASSUME OrderInv, NEW n \in Oids, NEW w \in Tables, exch[n].status # "none",
           NEW R, R = Recorded(w.rows, n, exch[n]),
           NEW s, s = Settled(w.trade, w.rows, n, exch[n], Recalculating)
    PROVE  /\ WalkStep(n, w) = [rows |-> R, trade |-> s] /\ WalkStep(n, w) \in Tables
           /\ w.rows \in [Oids -> Amounts] /\ w.trade \in Trades /\ exch[n] \in Amounts
           /\ R[n] = exch[n] /\ \A p \in Oids \ {n} : R[p] = w.rows[p]
<1>1. w.rows \in [Oids -> Amounts] /\ w.trade \in Trades /\ exch[n] \in Amounts
  BY DEF OrderInv, Tables
<1>2. R[n] = exch[n] /\ \A p \in Oids \ {n} : R[p] = w.rows[p]
  BY <1>1, RecordedType
<1>3. WalkStep(n, w) = [rows |-> R, trade |-> s]
  BY DEF WalkStep
<1>4. WalkStep(n, w) \in Tables
  BY WalkStepType DEF OrderInv
<1>5. QED
  BY <1>1, <1>2, <1>3, <1>4

\* The walk of handle_onexchange_order leaves the amounts right.
LEMMA WalkedAmounts ==
    ASSUME OrderInv, AmountInv, trade.status # "deleted"
    PROVE  /\ Below(exch, Walked.rows) /\ Walked.trade.amount <= Bound
           /\ Booked(exch, Walked.rows, Walked.trade)
           /\ trade.amount > 0 => Walked.trade.amount > 0
<1> DEFINE Fine(w) == /\ Below(exch, w.rows) /\ w.trade.amount <= Bound
                      /\ Booked(exch, w.rows, w.trade)
                      /\ trade.amount > 0 => w.trade.amount > 0
           S == {w \in Tables : Fine(w)}
           w0 == [rows |-> rows, trade |-> trade]
<1>1. /\ exch \in [Oids -> Amounts] /\ rows \in [Oids -> Amounts] /\ trade \in Trades
      /\ Priced(exch) /\ Committed(exch) <= Bound
  BY CommittedBound DEF OrderInv, AmountInv
<1>2. w0 \in Tables /\ Fine(w0)
  BY <1>1 DEF AmountInv, Tabled, Tables
<1>3. ASSUME NEW n \in Oids, NEW w \in Tables, Fine(w), exch[n].status # "none"
      PROVE  WalkStep(n, w) \in Tables /\ Fine(WalkStep(n, w))
  <2> DEFINE R == Recorded(w.rows, n, exch[n])
             s == Settled(w.trade, w.rows, n, exch[n], Recalculating)
  <2>1. /\ R = Recorded(w.rows, n, exch[n])
        /\ s = Settled(w.trade, w.rows, n, exch[n], Recalculating)
    OBVIOUS
  <2> HIDE DEF R, s
  <2>2. /\ WalkStep(n, w) = [rows |-> R, trade |-> s] /\ WalkStep(n, w) \in Tables
        /\ w.rows \in [Oids -> Amounts] /\ w.trade \in Trades /\ exch[n] \in Amounts
        /\ R[n] = exch[n] /\ \A p \in Oids \ {n} : R[p] = w.rows[p]
    BY <1>3, <2>1, WalkStepPlaced
  <2>3. /\ Below(exch, R) /\ s.amount <= Bound /\ (w.trade.amount > 0 => s.amount > 0)
        /\ exch[n].side = "entry" /\ Ended(exch[n]) /\ exch[n].filled > 0 => s.amount > 0
    BY <1>1, <1>3, <2>1, <2>2, SettledAmount
  <2>4. Booked(exch, R, s)
    <3> SUFFICES ASSUME NEW p \in Oids, exch[p].side = "entry", exch[p].filled > 0
                 PROVE  R[p].status = "open" \/ s.amount > 0
      BY DEF Booked
    <3>1. CASE p = n
      <4>1. exch[n].status \in {"open", "closed", "canceled"}
        BY <1>3, <2>2 DEF Amounts
      <4>2. QED
        BY <3>1, <4>1, <2>2, <2>3 DEF Ended
    <3>2. CASE p # n
      BY <3>2, <1>3, <2>2, <2>3 DEF Booked
    <3>3. QED
      BY <3>1, <3>2
  <2>5. QED
    BY <2>2, <2>3, <2>4, <1>3
<1> HIDE DEF Fine
<1>4. Walked \in S
  <2>1. S \in SUBSET Tables /\ w0 \in S
    BY <1>2
  <2>2. \A n \in Oids : \A w \in S : exch[n].status # "none" => WalkStep(n, w) \in S
    BY <1>3
  <2> HIDE DEF S
  <2>3. QED
    BY <2>1, <2>2, WalkedKeeps
<1>5. Fine(Walked)
  BY <1>4
<1>6. QED
  BY <1>5 DEF Fine

\* handle_onexchange_order, from the loop or from a request.
LEMMA RecoverAmounts ==
    ASSUME OrderInv, OrderInv', AmountInv, RecoverTrade \/ ReloadTrade PROVE AmountInv'
<1>1. /\ task = Idle /\ task' = Idle /\ exch' = exch
      /\ trade.status \in {"open", "closed"} /\ HandleOnExchangeOrder
  BY DEF RecoverTrade, ReloadTrade, HandleOnExchangeOrder
<1>2. CASE DeleteTrade
  <2>1. 1 \in Oids
    BY OrdersAssumption DEF Oids
  <2>2. Forward(1) /\ TableMove(1)
    BY <2>1, <1>1, <1>2, SameForward DEF TableMove, AmountInv
  <2>3. QED
    BY <2>1, <2>2, <1>1, LastStep
<1>3. CASE rows' = Walked.rows /\ trade' = Walked.trade
  <2>1. /\ Below(exch', rows') /\ trade'.amount <= Bound /\ Booked(exch', rows', trade')
        /\ trade.amount > 0 => trade'.amount > 0
    BY <1>1, <1>3, WalkedAmounts
  <2>2. trade'.status \in {"open", "closed"}
    BY <1>1, <1>3, WalkedTables DEF OrderInv
  <2>3. Tabled'
    BY <1>1, <2>1, <2>2 DEF AmountInv, Tabled
  <2>4. Position' = Position /\ NextId' = NextId
    BY <1>1 DEF Position, NextId
  <2>5. Orderly' /\ Priced(exch')
    BY <1>1, <2>4 DEF AmountInv, Orderly
  <2>6. Tasked' /\ Reserve' = Reserve
    BY <1>1, IdleAmounts DEF Reserve
  <2>7. Budget'
    BY <1>1, <2>2, <2>4, <2>6 DEF AmountInv, Budget
  <2>8. QED
    BY <2>3, <2>5, <2>6, <2>7 DEF AmountInv
<1>4. QED
  BY <1>1, <1>2, <1>3 DEF HandleOnExchangeOrder

\* The amounts are right at first.
LEMMA AmountInvInit == Init => AmountInv
<1> SUFFICES ASSUME Init PROVE AmountInv
  OBVIOUS
<1>1. OrderInv /\ exch = NoRows /\ rows = NoRows /\ trade = [status |-> "none", amount |-> 0] /\ task = Idle
  BY OrderInvInit DEF Init
<1>2. exch \in [Oids -> Amounts] /\ \A o \in Oids : exch[o] = NoOrder
  BY <1>1 DEF OrderInv, NoRows
<1>3. Position = 0
  BY <1>2, NetNothing DEF Position, Term, Signed, NoOrder
<1>4. Committed(exch) = 0
  <2> DEFINE W == Whole(exch)
  <2>1. W \in [Oids -> Amounts]
    BY <1>2, WholeType
  <2>2. \A o \in Oids : Term(W, Oids, o) = 0
    BY <1>2, WholeType DEF Worth, NoOrder
  <2> HIDE DEF W
  <2>3. Net(W, Oids) = 0
    BY <2>1, <2>2, NetNothing
  <2>4. QED
    BY <2>3 DEF Committed, W
<1>5. Orderly /\ Priced(exch)
  BY <1>2, <1>3 DEF Orderly, Known, Priced, NoOrder
<1>6. Tabled
  BY <1>1, <1>2, BoundType DEF Tabled, Below, Booked, NoOrder
<1>7. Tasked /\ Reserve = 0
  BY <1>1, BoundType DEF Idle, Tasked, Reserve, Reserved
<1>8. NextId - 1 \in Nat /\ (NextId - 1) * AddSize \in Nat
  BY NextIdType, OrdersAssumption
<1>9. Budget
  BY <1>1, <1>4, <1>7, <1>8 DEF Budget
<1>10. QED
  BY <1>5, <1>6, <1>7, <1>9 DEF AmountInv

\* Every step leaves them right.
LEMMA AmountInvStep == OrderInv /\ AmountInv /\ [Next]_vars => AmountInv'
<1> SUFFICES ASSUME OrderInv, AmountInv, [Next]_vars PROVE AmountInv'
  OBVIOUS
<1>0. OrderInv'
  BY OrderInvStep
<1>1. CASE UNCHANGED vars
  BY <1>1 DEF vars, AmountInv, Orderly, Position, NextId, Tabled, Tasked, Budget, Reserve
<1>2. CASE ManageFetch \/ ClearFetch \/ CancelRequest
  BY <1>0, <1>2, ManageFetchAmounts, ClearFetchAmounts, CancelRequestAmounts
<1>3. CASE Manage \/ ExitTrade \/ AdjustTrade \/ ForceExit \/ CancelOpenOrder \/ Restart
  BY <1>0, <1>3, StartAmounts
<1>4. CASE StartupFetch \/ GiveUp \/ Refused
  BY <1>0, <1>4, EndAmounts
<1>5. CASE EnterTrade \/ PlaceEntry \/ PlaceExit
  BY <1>0, <1>5, EnterTradeAmounts, PlaceEntryAmounts, PlaceExitAmounts
<1>6. CASE RecoverTrade \/ ReloadTrade
  BY <1>0, <1>6, RecoverAmounts
<1>7. CASE Exchange
  BY <1>0, <1>7, ExchangeAmounts DEF Exchange
<1>8. QED
  BY <1>1, <1>2, <1>3, <1>4, <1>5, <1>6, <1>7 DEF Next, Handlers

\* Both invariants.
LEMMA AmountInvAlways == Spec => [](OrderInv /\ AmountInv)
<1>1. QED
  BY OrderInvInit, OrderInvStep, AmountInvInit, AmountInvStep, PTL DEF Spec

\* The state has the types the model gives it and every amount is within Bound, in any
\* configuration: what an order asks for is a size the strategy gave, or what is left of one.
THEOREM AmountsBounded == Spec => []TypeOK
<1>1. OrderInv /\ AmountInv => TypeOK
  <2> SUFFICES ASSUME OrderInv, AmountInv PROVE TypeOK
    OBVIOUS
  <2>1. /\ exch \in [Oids -> Amounts] /\ rows \in [Oids -> Amounts] /\ trade \in Trades /\ task \in Tasks
    BY DEF OrderInv
  <2>2. Sizes = 0..Bound /\ Bound \in Nat
    BY BoundType DEF Sizes, Bound
  <2>3. \A o \in Oids : /\ exch[o].amount \in Sizes /\ exch[o].filled \in Sizes
                        /\ exch[o].filled <= exch[o].amount
    <3> SUFFICES ASSUME NEW o \in Oids
                 PROVE  /\ exch[o].amount \in Sizes /\ exch[o].filled \in Sizes
                        /\ exch[o].filled <= exch[o].amount
      OBVIOUS
    <3>1. exch[o].amount \in Nat /\ exch[o].filled \in Nat
      BY <2>1 DEF Amounts
    <3>2. exch[o].amount <= Bound /\ exch[o].filled <= exch[o].amount
      BY <2>2 DEF AmountInv, Orderly, Known, Priced, NoOrder
    <3>3. QED
      BY <2>2, <3>1, <3>2
  <2>4. \A o \in Oids : rows[o].amount \in Sizes /\ rows[o].filled \in Sizes
    <3> SUFFICES ASSUME NEW o \in Oids PROVE rows[o].amount \in Sizes /\ rows[o].filled \in Sizes
      OBVIOUS
    <3>1. \/ rows[o] = NoOrder \/ rows[o] = exch[o]
          \/ rows[o].amount = exch[o].amount /\ rows[o].filled <= exch[o].filled
      BY DEF AmountInv, Tabled, Below
    <3>2. rows[o].filled \in Nat /\ exch[o].filled \in Nat
      BY <2>1 DEF Amounts
    <3>3. QED
      BY <2>2, <2>3, <3>1, <3>2 DEF NoOrder
  <2>5. exch \in [Oids -> OrderRows]
    BY <2>1, <2>3 DEF OrderRows, Amounts
  <2>6. rows \in [Oids -> OrderRows]
    BY <2>1, <2>4 DEF OrderRows, Amounts
  <2>7. trade.amount \in Sizes /\ task.size \in Sizes
    BY <2>1, <2>2 DEF AmountInv, Tabled, Tasked, Trades, Tasks
  <2>8. QED
    BY <2>1, <2>3, <2>5, <2>6, <2>7 DEF TypeOK, Trades, Tasks
<1>2. QED
  BY <1>1, AmountInvAlways, PTL

---------------------------------------------------------------------------
(* The ledger of a trade: what its rows add up to and what it says.         *)

\* An order without a row has filled nothing.
Kept(E, R) == \A o \in Oids : R[o] = NoOrder => E[o].filled = 0

\* The amount of the trade is no less than what its rows add up to, and no more either
\* unless an exit that expired was not booked.
Summed(R, t) ==
    /\ Recalculated(R) <= t.amount
    /\ Ioc \/ Recalculated(R) <= 0 \/ t.amount = Recalculated(R)

Ledger == trade.status # "deleted" => Kept(exch, rows) /\ Summed(rows, trade)

\* An order that filled nothing adds nothing.
LEMMA NothingFilled ==
    ASSUME NEW a \in Amounts, a.filled = 0 PROVE Signed(a) = 0
<1>1. CASE a.side = "entry"
  BY <1>1 DEF Signed
<1>2. CASE a.side # "entry"
  <2>1. Signed(a) = -a.filled
    BY <1>2 DEF Signed
  <2>2. -a.filled = 0
    <3> DEFINE n == a.filled
    <3> SUFFICES -n = 0
      OBVIOUS
    <3>1. n = 0
      OBVIOUS
    <3>2. \A i \in Int : -i = 0 - i
      OBVIOUS
    <3>3. n \in Int
      BY DEF Amounts
    <3> HIDE DEF n
    <3>4. -n = 0 - n
      BY <3>2, <3>3
    <3>5. 0 - n = 0
      BY <3>1
    <3>6. QED
      BY <3>4, <3>5
  <2>3. QED
    BY <2>1, <2>2
<1>3. QED
  BY <1>1, <1>2

\* A row that is not open adds what the order on the exchange has filled.
LEMMA SettledTerm ==
    ASSUME NEW E \in [Oids -> Amounts], NEW R \in [Oids -> Amounts],
           Known(E), Below(E, R), Kept(E, R), NEW n \in Oids, R[n].status # "open"
    PROVE  Term(R, {o \in Oids : Ended(R[o])}, n) = Term(E, Oids, n)
<1>1. E[n] \in Amounts /\ R[n] \in Amounts /\ (R[n] = NoOrder \/ R[n] = E[n])
  BY DEF Below
<1>2. CASE Ended(R[n])
  BY <1>1, <1>2 DEF Term, Ended, NoOrder
<1>3. CASE ~Ended(R[n])
  <2>1. R[n].status = "none"
    BY <1>1, <1>3 DEF Ended, Amounts
  <2>2. E[n].filled = 0
    BY <1>1, <2>1 DEF Known, Kept, NoOrder
  <2>3. Signed(E[n]) = 0
    BY <1>1, <2>2, NothingFilled
  <2>4. QED
    BY <1>3, <2>3 DEF Term
<1>4. QED
  BY <1>2, <1>3

\* With no open row, what the rows add up to is the position.
LEMMA SettledTables ==
    ASSUME NEW E \in [Oids -> Amounts], NEW R \in [Oids -> Amounts],
           Known(E), Below(E, R), Kept(E, R), OpenRows(R) = {}
    PROVE  Recalculated(R) = Net(E, Oids)
<1> DEFINE D == {o \in Oids : Ended(R[o])}
<1>1. ASSUME NEW n \in Oids
      PROVE  Term(R, D, n) = Term(E, Oids, n)
  BY SettledTerm DEF OpenRows
<1> HIDE DEF D
<1>2. Net(R, D) = Net(E, Oids)
  BY <1>1, NetSame
<1>3. QED
  BY <1>2 DEF Recalculated, D

\* When no entry has filled anything there is no position.
LEMMA UnfilledTables ==
    ASSUME NEW E \in [Oids -> Amounts], NEW R \in [Oids -> Amounts],
           Known(E), Below(E, R), Kept(E, R), FilledEntries(R) = {},
           \A o \in OpenRows(R) : E[o].filled = 0
    PROVE  Net(E, Oids) <= 0
<1>1. ASSUME NEW n \in Oids PROVE Term(E, Oids, n) <= 0
  <2>1. E[n] \in Amounts /\ R[n] \in Amounts
    OBVIOUS
  <2>2. CASE E[n].side = "entry"
    <3>1. E[n].filled = 0
      <4>1. CASE R[n].status = "open"
        BY <4>1 DEF OpenRows
      <4>2. CASE R[n] = NoOrder
        BY <4>2 DEF Kept
      <4>3. CASE R[n] = E[n] /\ R[n].status # "open"
        BY <2>1, <2>2, <4>3 DEF FilledEntries, Ended, Known, NoOrder, Amounts
      <4>4. QED
        BY <4>1, <4>2, <4>3 DEF Below
    <3>2. QED
      BY <2>2, <3>1 DEF Term, Signed
  <2>3. CASE E[n].side # "entry"
    BY <2>1, <2>3 DEF Term, Signed, Amounts
  <2>4. QED
    BY <2>2, <2>3
<1>2. QED
  BY <1>1, NetNotPositive

\* What recording an order adds.
LEMMA RecordedSum ==
    ASSUME NEW R \in [Oids -> Amounts], NEW o \in Oids, NEW a \in Amounts, ~Ended(R[o])
    PROVE  /\ Recalculated(Recorded(R, o, a)) = Recalculated(R) + (IF Ended(a) THEN Signed(a) ELSE 0)
           /\ Recalculated(R) \in Int /\ Recalculated(Recorded(R, o, a)) \in Int /\ Signed(a) \in Int
<1> DEFINE Q == Recorded(R, o, a)
           D == {p \in Oids : Ended(R[p])}
           U == {p \in Oids : Ended(Q[p])}
<1>1. Q \in [Oids -> Amounts] /\ Q[o] = a /\ \A p \in Oids \ {o} : Q[p] = R[p]
  BY RecordedType
<1>2. Recalculated(R) = Net(R, D) /\ Recalculated(Q) = Net(Q, U)
  BY DEF Recalculated
<1> HIDE DEF Q
<1>3. \A n \in Oids \ {o} : Term(Q, U, n) = Term(R, D, n)
  BY <1>1 DEF Term
<1>4. Term(R, D, o) = 0 /\ Term(Q, U, o) = IF Ended(a) THEN Signed(a) ELSE 0
  BY <1>1 DEF Term
<1> HIDE DEF D, U
<1>5. Net(Q, U) - Net(R, D) = Term(Q, U, o) - Term(R, D, o)
  BY <1>1, <1>3, NetDiffers
<1>6. Net(Q, U) \in Int /\ Net(R, D) \in Int /\ Signed(a) \in Int
  BY <1>1, NetType DEF Signed, Amounts
<1>7. QED
  BY <1>2, <1>4, <1>5, <1>6 DEF Q

\* Recalc makes the amount what the rows add up to.
LEMMA RecalcSums ==
    ASSUME NEW t \in Trades, NEW R, Recalculated(R) \in Int
    PROVE  Summed(R, Recalc(t, R)) /\ Recalc(t, R) \in Trades /\ Recalc(t, R).status = t.status
BY DEF Recalc, Trades, Summed

\* So does booking, and only an exit of at least the amount closes the trade.
LEMMA BookSums ==
    ASSUME NEW t \in Trades, NEW R \in [Oids -> Amounts], NEW o \in Oids, NEW b
    PROVE  /\ Summed(R, Book(t, R, o, b))
           /\ \/ Book(t, R, o, b).status = t.status
              \/ R[o].side = "exit" /\ R[o].filled >= t.amount
<1>1. Recalculated(R) \in Int
  BY NetType DEF Recalculated
<1>2. R[o].filled \in Nat /\ t.amount \in Nat /\ R[o].side \in Sides
  BY DEF Amounts, Trades
<1>3. ASSUME NEW u \in Trades PROVE Summed(R, Recalc(u, R)) /\ Recalc(u, R).status = u.status
  BY <1>1, RecalcSums
<1>4. [t EXCEPT !.amount = R[o].filled] \in Trades /\ [t EXCEPT !.amount = R[o].filled].status = t.status
  BY <1>2 DEF Trades
<1>5. [t EXCEPT !.status = IF @ = "open" THEN "closed" ELSE @] \in Trades
  BY DEF Trades
<1> DEFINE booked == [t EXCEPT !.amount = R[o].filled]
           closed == [t EXCEPT !.status = IF @ = "open" THEN "closed" ELSE @]
<1>6. \/ Book(t, R, o, b) = Recalc(booked, R)
      \/ Book(t, R, o, b) = Recalc(t, R)
      \/ Book(t, R, o, b) = Recalc(closed, R) /\ R[o].side = "exit" /\ R[o].filled >= t.amount
  <2>1. CASE R[o].side = "entry"
    BY <2>1 DEF Book
  <2>2. CASE R[o].side = "exit"
    BY <1>2, <2>2 DEF Book
  <2>3. QED
    BY <1>2, <2>1, <2>2 DEF Sides
<1> HIDE DEF booked, closed
<1>7. booked \in Trades /\ booked.status = t.status /\ closed \in Trades
  BY <1>4, <1>5 DEF booked, closed
<1>8. QED
  BY <1>3, <1>6, <1>7

\* Booking an order keeps the ledger, and closes a trade only when its rows add up to
\* nothing, if the order was not booked before.
LEMMA SettledSums ==
    ASSUME NEW t \in Trades, NEW R \in [Oids -> Amounts], NEW o \in Oids, NEW a \in Amounts,
           NEW b, NEW s, s = Settled(t, R, o, a, b), NEW Q, Q = Recorded(R, o, a),
           a.status # "none", ~Ended(R[o]) \/ R[o] = a, Summed(R, t)
    PROVE  /\ Summed(Q, s)
           /\ s.status = t.status \/ a.side = "exit"
           /\ s.status = t.status \/ Ended(a)
           /\ s.status = t.status \/ Ended(R[o]) \/ Recalculated(Q) <= 0
<1>1. Q \in [Oids -> Amounts] /\ Q[o] = a /\ \A p \in Oids \ {o} : Q[p] = R[p]
  BY RecordedType
<1>2. CASE Empty(a) \/ a.status = "open"
  <2>1. s = t
    BY <1>2 DEF Settled
  <2>2. CASE R[o] = a
    <3>1. Q = R
      BY <1>1, <2>2
    <3>2. QED
      BY <2>1, <3>1
  <2>3. CASE ~Ended(R[o])
    <3>1. Recalculated(Q) = Recalculated(R) + (IF Ended(a) THEN Signed(a) ELSE 0)
          /\ Recalculated(R) \in Int
      BY <2>3, RecordedSum
    <3>2. (IF Ended(a) THEN Signed(a) ELSE 0) = 0
      BY <1>2, NothingFilled DEF Empty, Ended
    <3>3. Recalculated(Q) = Recalculated(R)
      BY <3>1, <3>2
    <3>4. QED
      BY <2>1, <3>3 DEF Summed
  <2>4. QED
    BY <2>2, <2>3
<1>3. CASE ~Empty(a) /\ a.status # "open"
  <2>1. s = Book(t, Q, o, b)
    BY <1>3 DEF Settled
  <2>2. /\ Summed(Q, s)
        /\ s.status = t.status \/ (a.side = "exit" /\ a.filled >= t.amount)
    BY <1>1, <2>1, BookSums
  <2>3. CASE s.status = t.status
    BY <2>2, <2>3
  <2>4. CASE a.side = "exit" /\ a.filled >= t.amount
    <3>1. CASE Ended(a)
      <4>1. ASSUME ~Ended(R[o]) PROVE Recalculated(Q) <= 0
        <5>1. Recalculated(Q) = Recalculated(R) + Signed(a) /\ Recalculated(R) \in Int
          BY <3>1, <4>1, RecordedSum
        <5>2. Signed(a) = -a.filled /\ a.filled \in Nat /\ t.amount \in Nat
          BY <2>4 DEF Signed, Amounts, Trades
        <5>3. Recalculated(R) <= t.amount
          BY DEF Summed
        <5>4. QED
          BY <2>4, <5>1, <5>2, <5>3
      <4>2. QED
        BY <2>2, <2>4, <3>1, <4>1
    <3>2. Ended(a)
      BY <1>3 DEF Ended, Amounts
    <3>3. QED
      BY <3>1, <3>2
  <2>5. QED
    BY <2>2, <2>3, <2>4
<1>4. QED
  BY <1>2, <1>3

\* A live order has a row, so what has none stays as it is.
LEMMA KeptForward ==
    ASSUME OrderInv, AmountInv, Ledger, trade.status # "deleted", NEW o \in Oids, Forward(o)
    PROVE  Kept(exch', rows) /\ Below(exch', rows)
<1>1. Kept(exch, rows) /\ Live \subseteq OpenRows(rows)
  BY DEF Ledger, OrderInv
<1>2. ASSUME NEW p \in Oids, rows[p] = NoOrder PROVE exch'[p].filled = 0
  <2>1. exch[p].status # "open"
    BY <1>1, <1>2 DEF Live, OpenRows, NoOrder
  <2>2. exch'[p] = exch[p]
    BY <2>1 DEF Forward, GoesTo
  <2>3. QED
    BY <1>1, <1>2, <2>2 DEF Kept
<1>3. QED
  BY <1>2, ForwardOrders DEF Kept

\* Recording an order of the exchange keeps the ledger, and closes a trade only when its
\* rows add up to nothing.
LEMMA RecordedLedger ==
    ASSUME OrderInv, AmountInv, Ledger, trade.status # "deleted", NEW o \in Oids, Forward(o),
           exch'[o].status # "none", Record(o, exch'[o])
    PROVE  /\ Ledger' /\ rows'[o] = exch'[o] /\ \A p \in Oids \ {o} : rows'[p] = rows[p]
           /\ \/ trade'.status = trade.status
              \/ Ended(exch'[o]) /\ (Ended(rows[o]) \/ Recalculated(rows') <= 0)
<1> DEFINE E == exch'
           no == FALSE
<1>1. /\ Kept(E, rows) /\ Below(E, rows) /\ E \in [Oids -> Amounts]
      /\ rows \in [Oids -> Amounts] /\ trade \in Trades /\ Summed(rows, trade)
  BY KeptForward DEF Forward, OrderInv, Ledger
<1>2. rows' = Recorded(rows, o, E[o]) /\ trade' = Settled(trade, rows, o, E[o], no)
  BY DEF Record
<1> HIDE DEF E, no
<1>3. rows'[o] = E[o] /\ \A p \in Oids \ {o} : rows'[p] = rows[p]
  BY <1>1, <1>2, RecordedType
<1>4. ~Ended(rows[o]) \/ rows[o] = E[o]
  BY <1>1 DEF Below, Ended, NoOrder
<1>5. E[o] \in Amounts /\ E[o].status # "none"
  BY <1>1 DEF E
<1>6. /\ Summed(rows', trade')
      /\ trade'.status = trade.status \/ Ended(E[o])
      /\ trade'.status = trade.status \/ Ended(rows[o]) \/ Recalculated(rows') <= 0
  BY <1>1, <1>2, <1>4, <1>5, SettledSums
<1>7. Kept(E, rows')
  BY <1>1, <1>3, <1>5 DEF Kept, NoOrder
<1>8. QED
  BY <1>3, <1>6, <1>7 DEF Ledger, E

\* A step of the exchange and of the tables keeps the ledger.
LEMMA LedgerMove ==
    ASSUME OrderInv, AmountInv, Ledger, NEW o \in Oids, Forward(o), TableMove(o) PROVE Ledger'
<1>1. CASE UntouchedTrade
  <2>1. rows' = rows /\ trade' = trade
    BY <1>1 DEF UntouchedTrade
  <2>2. CASE trade.status = "deleted"
    BY <2>1, <2>2 DEF Ledger
  <2>3. CASE trade.status # "deleted"
    <3>1. Kept(exch', rows) /\ Summed(rows, trade)
      BY <2>3, KeptForward DEF Ledger
    <3>2. QED
      BY <2>1, <3>1 DEF Ledger
  <2>4. QED
    BY <2>2, <2>3
<1>2. CASE DeleteTrade
  <2>1. trade'.status = "deleted"
    BY <1>2 DEF DeleteTrade, OrderInv, Trades
  <2>2. QED
    BY <2>1 DEF Ledger
<1>3. CASE trade.status \in {"open", "closed"} /\ exch'[o].status # "none" /\ Record(o, exch'[o])
  BY <1>3, RecordedLedger
<1>4. QED
  BY <1>1, <1>2, <1>3 DEF TableMove

\* An order is placed.  One that the handler forgets has filled nothing.
LEMMA PlacedForgotten ==
    ASSUME OrderInv, AmountInv, Ledger, trade.status # "deleted", NEW a, Acceptable(a), Placed(a),
           a.filled = 0
    PROVE  Kept(exch', rows) /\ Below(exch', rows)
<1>1. /\ NextId \in Oids /\ exch'[NextId] = a /\ Below(exch', rows)
      /\ \A p \in Oids \ {NextId} : exch'[p] = exch[p]
  BY PlacedOrders
<1>2. QED
  BY <1>1 DEF Kept, Ledger

\* One that is recorded and booked keeps the ledger.
LEMMA PlacedBooked ==
    ASSUME OrderInv, AmountInv, Ledger, trade.status # "deleted", NEW a, Acceptable(a), Placed(a),
           rows' = Recorded(rows, NextId, a), NEW t \in Trades, Summed(rows, t), NEW b,
           trade' = Settled(t, rows, NextId, a, b)
    PROVE  /\ Ledger'
           /\ trade'.status = t.status
                \/ (a.side = "exit" /\ Ended(a) /\ Recalculated(rows') <= 0)
<1> DEFINE k == NextId
<1>1. /\ k \in Oids /\ exch'[k] = a /\ exch[k] = NoOrder /\ a \in Amounts /\ a.status # "none"
      /\ \A p \in Oids \ {k} : exch'[p] = exch[p]
  BY PlacedOrders DEF Acceptable
<1>2. rows \in [Oids -> Amounts] /\ Kept(exch, rows)
  BY DEF OrderInv, Ledger
<1>3. rows' = Recorded(rows, k, a) /\ trade' = Settled(t, rows, k, a, b)
  OBVIOUS
<1>4. ~Ended(rows[k])
  <2>1. Below(exch, rows)
    BY DEF AmountInv, Tabled
  <2>2. QED
    BY <1>1, <2>1 DEF Below, Ended, NoOrder
<1> HIDE DEF k
<1>5. /\ Summed(rows', trade')
      /\ trade'.status = t.status \/ (a.side = "exit" /\ Ended(a) /\ Recalculated(rows') <= 0)
  BY <1>1, <1>2, <1>3, <1>4, SettledSums
<1>6. Kept(exch', rows')
  <2>1. rows'[k] = a /\ \A p \in Oids \ {k} : rows'[p] = rows[p]
    BY <1>1, <1>2, <1>3, RecordedType
  <2>2. QED
    BY <1>1, <1>2, <2>1 DEF Kept, NoOrder
<1>7. QED
  BY <1>5, <1>6 DEF Ledger

\* With IOC and FOK the exit that expires may stay unbooked.
LEMMA PlacedUnbooked ==
    ASSUME OrderInv, AmountInv, Ledger, trade.status # "deleted", NEW a, Acceptable(a), Placed(a),
           a.side = "exit", rows' = Recorded(rows, NextId, a), UNCHANGED trade, Ioc
    PROVE  Ledger'
<1> DEFINE k == NextId
<1>1. /\ k \in Oids /\ exch'[k] = a /\ exch[k] = NoOrder /\ a \in Amounts /\ a.status # "none"
      /\ \A p \in Oids \ {k} : exch'[p] = exch[p]
  BY PlacedOrders DEF Acceptable
<1>2. rows \in [Oids -> Amounts] /\ Kept(exch, rows) /\ Summed(rows, trade) /\ trade \in Trades
  BY DEF OrderInv, Ledger
<1>3. rows' = Recorded(rows, k, a)
  OBVIOUS
<1>4. ~Ended(rows[k])
  <2>1. Below(exch, rows)
    BY DEF AmountInv, Tabled
  <2>2. QED
    BY <1>1, <2>1 DEF Below, Ended, NoOrder
<1> HIDE DEF k
<1>5. Recalculated(rows') = Recalculated(rows) + (IF Ended(a) THEN Signed(a) ELSE 0)
      /\ Recalculated(rows) \in Int
  BY <1>1, <1>2, <1>3, <1>4, RecordedSum
<1>6. Signed(a) = -a.filled /\ a.filled \in Nat /\ trade.amount \in Nat /\ Recalculated(rows) <= trade.amount
  BY <1>1, <1>2 DEF Signed, Amounts, Trades, Summed
<1>7. Recalculated(rows') <= trade.amount
  BY <1>5, <1>6
<1>8. Kept(exch', rows')
  <2>1. rows'[k] = a /\ \A p \in Oids \ {k} : rows'[p] = rows[p]
    BY <1>1, <1>2, <1>3, RecordedType
  <2>2. QED
    BY <1>1, <1>2, <2>1 DEF Kept, NoOrder
<1>9. QED
  BY <1>7, <1>8 DEF Ledger, Summed

\* The rest of execute_entry.
LEMMA EntryPlacedLedger ==
    ASSUME OrderInv, AmountInv, Ledger, trade.status # "deleted", NEW a, Acceptable(a),
           a.side = "entry", Placed(a), EntryPlaced(a)
    PROVE  Ledger' /\ trade'.status = "open"
<1> DEFINE t == [trade EXCEPT !.status = "open"]
           opened == Recalc(t, rows)
           no == FALSE
<1>1. t \in Trades /\ t.status = "open"
  BY DEF OrderInv, Trades
<1>2. Recalculated(rows) \in Int
  BY NetType DEF Recalculated, OrderInv
<1>3. rows' = Recorded(rows, NextId, a) /\ trade' = Settled(opened, rows, NextId, a, no)
  BY DEF EntryPlaced
<1> HIDE DEF t, no
<1>4. opened \in Trades /\ opened.status = "open" /\ Summed(rows, opened)
  BY <1>1, <1>2, RecalcSums
<1> HIDE DEF opened
<1>5. QED
  BY <1>3, <1>4, PlacedBooked

\* The order execute_entry places for a new trade.
LEMMA EnterTradeOrder ==
    ASSUME OrderInv, EnterTrade
    PROVE  \E a : /\ Acceptable(a) /\ a.side = "entry" /\ Placed(a)
                  /\ IF Empty(a) THEN UntouchedTrade ELSE EntryPlaced(a)
<1>1. PICK a \in Accepted("entry", EntrySize) :
         Placed(a) /\ IF Empty(a) THEN UntouchedTrade ELSE EntryPlaced(a)
  BY DEF EnterTrade
<1>2. Acceptable(a) /\ a.side = "entry"
  BY AcceptedAcceptable, OrdersAssumption, BoundType DEF Sides
<1>3. QED
  BY <1>1, <1>2

\* The order it places for a trade that exists.
LEMMA PlaceEntryOrder ==
    ASSUME OrderInv, AmountInv, PlaceEntry
    PROVE  \E a : /\ Acceptable(a) /\ a.side = "entry" /\ Placed(a)
                  /\ \/ EntryPlaced(a)
                     \/ Empty(a) /\ UntouchedTrade
                     \/ Empty(a) /\ DeleteTrade /\ FilledEntries(rows) = {}
<1>1. PICK a \in Accepted("entry", task.size) :
         /\ Placed(a)
         /\ \/ EntryPlaced(a)
            \/ Empty(a) /\ UntouchedTrade
            \/ Empty(a) /\ DeleteTrade /\ FilledEntries(rows) = {}
  BY DEF PlaceEntry, ReplaceFailed
<1>2. task.size \in Nat /\ task.size > 0 /\ task.size <= Bound
  BY DEF AmountInv, Tasked, OrderInv, Tasks, PlaceEntry
<1>3. Acceptable(a) /\ a.side = "entry"
  BY <1>2, AcceptedAcceptable DEF Sides
<1>4. QED
  BY <1>1, <1>3

\* The order execute_trade_exit places.
LEMMA PlaceExitOrder ==
    ASSUME OrderInv, AmountInv, PlaceExit, NEW no, no = FALSE
    PROVE  \E a : /\ Acceptable(a) /\ a.side = "exit" /\ Placed(a)
                  /\ rows' = Recorded(rows, NextId, a)
                  /\ \/ trade' = Settled(trade, rows, NextId, a, no)
                     \/ Ioc /\ UNCHANGED trade
<1> DEFINE n == IF task.why = "force" THEN trade.amount ELSE task.size
<1>1. PICK a \in Accepted("exit", n) :
         /\ Placed(a)
         /\ rows' = Recorded(rows, NextId, a)
         /\ \/ trade' = Settled(trade, rows, NextId, a, no)
            \/ a.status = "canceled" /\ UNCHANGED trade
  BY DEF PlaceExit
<1>2. Position \in Nat /\ Position > 0
  BY NetType DEF Position, OrderInv, PlaceExit
<1>3. trade.amount > 0 /\ trade.amount \in Nat /\ trade.amount <= Bound
  BY <1>2, MayPlaceFacts, HeldHasAmount DEF OrderInv, Trades, AmountInv, Tabled, PlaceExit
<1>4. n \in Nat /\ n > 0 /\ n <= Bound
  BY <1>3 DEF AmountInv, Tasked, OrderInv, Tasks, PlaceExit
<1> HIDE DEF n
<1>5. Acceptable(a) /\ a.side = "exit"
  BY <1>2, <1>4, AcceptedAcceptable DEF Sides
<1>6. a.status = "canceled" => Ioc
  BY DEF Accepted
<1>7. QED
  BY <1>1, <1>5, <1>6

\* Placing an order keeps the ledger.
LEMMA PlaceLedger ==
    ASSUME OrderInv, AmountInv, Ledger, EnterTrade \/ PlaceEntry \/ PlaceExit PROVE Ledger'
<1>1. ASSUME NEW a, Acceptable(a), Placed(a), Empty(a), UntouchedTrade, trade.status # "deleted"
      PROVE  Ledger'
  <2>1. a.filled = 0 /\ rows' = rows /\ trade' = trade
    BY <1>1 DEF Empty, UntouchedTrade
  <2>2. Kept(exch', rows) /\ Summed(rows, trade)
    BY <1>1, <2>1, PlacedForgotten DEF Ledger
  <2>3. QED
    BY <2>1, <2>2 DEF Ledger
<1>2. CASE EnterTrade
  <2>1. trade.status = "none"
    BY <1>2 DEF EnterTrade
  <2>2. PICK a : /\ Acceptable(a) /\ a.side = "entry" /\ Placed(a)
                 /\ IF Empty(a) THEN UntouchedTrade ELSE EntryPlaced(a)
    BY <1>2, EnterTradeOrder
  <2>3. QED
    BY <1>1, <2>1, <2>2, EntryPlacedLedger
<1>3. CASE PlaceEntry
  <2>1. trade.status \in {"open", "closed"}
    BY <1>3, MayPlaceFacts DEF PlaceEntry
  <2>2. PICK a : /\ Acceptable(a) /\ a.side = "entry" /\ Placed(a)
                 /\ \/ EntryPlaced(a)
                    \/ Empty(a) /\ UntouchedTrade
                    \/ Empty(a) /\ DeleteTrade /\ FilledEntries(rows) = {}
    BY <1>3, PlaceEntryOrder
  <2>3. DeleteTrade => Ledger'
    BY DEF DeleteTrade, Ledger, OrderInv, Trades
  <2>4. QED
    BY <1>1, <2>1, <2>2, <2>3, EntryPlacedLedger
<1>4. CASE PlaceExit
  <2> DEFINE no == FALSE
  <2>1. trade.status \in {"open", "closed"}
    BY <1>4, MayPlaceFacts DEF PlaceExit
  <2>2. no = FALSE
    OBVIOUS
  <2> HIDE DEF no
  <2>3. PICK a : /\ Acceptable(a) /\ a.side = "exit" /\ Placed(a)
                 /\ rows' = Recorded(rows, NextId, a)
                 /\ \/ trade' = Settled(trade, rows, NextId, a, no)
                    \/ Ioc /\ UNCHANGED trade
    BY <1>4, <2>2, PlaceExitOrder
  <2>4. trade \in Trades /\ Summed(rows, trade)
    BY <2>1 DEF OrderInv, Ledger
  <2>5. CASE trade' = Settled(trade, rows, NextId, a, no)
    BY <2>1, <2>3, <2>4, <2>5, PlacedBooked
  <2>6. CASE Ioc /\ UNCHANGED trade
    BY <2>1, <2>3, <2>6, PlacedUnbooked
  <2>7. QED
    BY <2>3, <2>5, <2>6
<1>5. QED
  BY <1>2, <1>3, <1>4

\* The walk of handle_onexchange_order keeps it.
LEMMA WalkedLedger ==
    ASSUME OrderInv, AmountInv, Ledger, trade.status # "deleted"
    PROVE  Kept(exch, Walked.rows) /\ Summed(Walked.rows, Walked.trade)
<1> DEFINE Fine(w) == /\ Below(exch, w.rows) /\ Kept(exch, w.rows) /\ Summed(w.rows, w.trade)
           S == {w \in Tables : Fine(w)}
           w0 == [rows |-> rows, trade |-> trade]
<1>1. /\ exch \in [Oids -> Amounts] /\ rows \in [Oids -> Amounts] /\ trade \in Trades
  BY DEF OrderInv
<1>2. w0 \in Tables /\ Fine(w0)
  BY <1>1 DEF AmountInv, Tabled, Tables, Ledger
<1>3. ASSUME NEW n \in Oids, NEW w \in Tables, Fine(w), exch[n].status # "none"
      PROVE  WalkStep(n, w) \in Tables /\ Fine(WalkStep(n, w))
  <2> DEFINE R == Recorded(w.rows, n, exch[n])
             s == Settled(w.trade, w.rows, n, exch[n], Recalculating)
  <2>1. /\ R = Recorded(w.rows, n, exch[n])
        /\ s = Settled(w.trade, w.rows, n, exch[n], Recalculating)
    OBVIOUS
  <2> HIDE DEF R, s
  <2>2. /\ WalkStep(n, w) = [rows |-> R, trade |-> s] /\ WalkStep(n, w) \in Tables
        /\ w.rows \in [Oids -> Amounts] /\ w.trade \in Trades /\ exch[n] \in Amounts
        /\ R[n] = exch[n] /\ \A p \in Oids \ {n} : R[p] = w.rows[p]
    BY <1>3, <2>1, WalkStepPlaced
  <2>3. ~Ended(w.rows[n]) \/ w.rows[n] = exch[n]
    BY <1>3 DEF Below, Ended, NoOrder
  <2>4. Summed(R, s)
    BY <1>3, <2>1, <2>2, <2>3, SettledSums
  <2>5. Below(exch, R) /\ Kept(exch, R)
    BY <1>3, <2>2 DEF Below, Kept, NoOrder
  <2>6. QED
    BY <2>2, <2>4, <2>5
<1> HIDE DEF Fine
<1>4. Walked \in S
  <2>1. S \in SUBSET Tables /\ w0 \in S
    BY <1>2
  <2>2. \A n \in Oids : \A w \in S : exch[n].status # "none" => WalkStep(n, w) \in S
    BY <1>3
  <2> HIDE DEF S
  <2>3. QED
    BY <2>1, <2>2, WalkedKeeps
<1>5. Fine(Walked)
  BY <1>4
<1>6. QED
  BY <1>5 DEF Fine

\* The ledger is right at first.
LEMMA LedgerInit == Init => Ledger
<1> SUFFICES ASSUME Init PROVE Ledger
  OBVIOUS
<1>1. rows \in [Oids -> Amounts] /\ \A o \in Oids : rows[o] = NoOrder /\ exch[o] = NoOrder
  BY OrderInvInit DEF OrderInv, Init, NoRows
<1>2. trade.amount = 0
  BY DEF Init
<1> DEFINE D == {o \in Oids : Ended(rows[o])}
<1>3. \A o \in Oids : Term(rows, D, o) = 0
  BY <1>1 DEF Term, Ended, NoOrder
<1> HIDE DEF D
<1>4. Net(rows, D) = 0
  BY <1>1, <1>3, NetNothing
<1>5. Recalculated(rows) = 0
  BY <1>4 DEF Recalculated, D
<1>6. QED
  BY <1>1, <1>2, <1>5 DEF Ledger, Kept, Summed, NoOrder

\* Every step keeps it.
LEMMA LedgerStep == OrderInv /\ AmountInv /\ Ledger /\ [Next]_vars => Ledger'
<1> SUFFICES ASSUME OrderInv, AmountInv, Ledger, [Next]_vars PROVE Ledger'
  OBVIOUS
<1>1. CASE UNCHANGED vars
  BY <1>1 DEF vars, Ledger
<1>2. CASE ManageFetch \/ ClearFetch \/ CancelRequest \/ StartupFetch
  BY <1>2, HandlerMoves, LedgerMove
<1>3. CASE \/ Manage \/ ExitTrade \/ AdjustTrade \/ ForceExit \/ CancelOpenOrder \/ Restart
           \/ GiveUp \/ Refused
  BY <1>3, RestMoves, LedgerMove
<1>4. CASE EnterTrade \/ PlaceEntry \/ PlaceExit
  BY <1>4, PlaceLedger
<1>5. CASE RecoverTrade \/ ReloadTrade
  <2>1. trade.status \in {"open", "closed"} /\ HandleOnExchangeOrder /\ exch' = exch
    BY <1>5 DEF RecoverTrade, ReloadTrade, HandleOnExchangeOrder
  <2>2. CASE DeleteTrade
    BY <2>2 DEF DeleteTrade, Ledger, OrderInv, Trades
  <2>3. CASE rows' = Walked.rows /\ trade' = Walked.trade
    BY <2>1, <2>3, WalkedLedger DEF Ledger
  <2>4. QED
    BY <2>1, <2>2, <2>3 DEF HandleOnExchangeOrder
<1>6. CASE Exchange
  <2>1. PICK o \in Oids : Fill(o) \/ CancelledOnExchange(o)
    BY <1>6 DEF Exchange
  <2>2. Forward(o) /\ TableMove(o)
    BY <2>1, ExchangeMoves
  <2>3. QED
    BY <2>2, LedgerMove
<1>7. QED
  BY <1>1, <1>2, <1>3, <1>4, <1>5, <1>6 DEF Next, Handlers

\* The three invariants, in every configuration.
LEMMA LedgerAlways == Spec => [](OrderInv /\ AmountInv /\ Ledger)
<1>1. QED
  BY OrderInvInit, OrderInvStep, AmountInvInit, AmountInvStep, LedgerInit, LedgerStep, PTL DEF Spec

\* Unless IOC and FOK orders are in use, the amount of a settled trade is the position
\* the bot holds (recalc_trade_from_orders), after any interleaving of fills and handlers.
THEOREM LedgerIsExact == ASSUME ~Ioc PROVE Spec => []LedgerExact
<1>1. OrderInv /\ AmountInv /\ Ledger => LedgerExact
  <2> SUFFICES ASSUME OrderInv, AmountInv, Ledger, trade.status = "open", OpenRows(rows) = {},
                      Position > 0
               PROVE  trade.amount = Position
    BY DEF LedgerExact
  <2>1. Recalculated(rows) = Position
    BY SettledTables DEF Ledger, OrderInv, AmountInv, Orderly, Tabled, Position
  <2>2. Position \in Int
    BY NetType DEF OrderInv, Position
  <2>3. QED
    BY <2>1, <2>2 DEF Ledger, Summed
<1>2. QED
  BY <1>1, LedgerAlways, PTL

\* Recovery books the orders as the exchange has them, and never deletes a trade that has
\* a filled entry.  But for exits that stayed unbooked, an order table that disagrees with
\* the wallet means that the wallet is empty.
LEMMA RecoverWalks ==
    ASSUME OrderInv, AmountInv, Ledger, RecoverTrade
    PROVE  /\ rows' = Walked.rows /\ trade' = Walked.trade /\ UNCHANGED <<exch, task>>
           /\ task = Idle /\ trade'.status \in {"open", "closed"}
           /\ OpenRows(rows') = {} /\ Live' = {}
           /\ Ioc \/ Position' = 0
<1>1. /\ task = Idle /\ trade.status = "open" /\ OpenRows(rows) = {}
      /\ UNCHANGED <<exch, task>> /\ (Position = 0 \/ Position < trade.amount)
      /\ HandleOnExchangeOrder
  BY DEF RecoverTrade, HandleOnExchangeOrder
<1>2. /\ exch \in [Oids -> Amounts] /\ rows \in [Oids -> Amounts] /\ trade \in Trades
      /\ Below(exch, rows) /\ Live = {}
  BY <1>1 DEF OrderInv, AmountInv, Tabled
<1>3. /\ \A o \in Oids : Walked.rows[o] = IF exch[o].status = "none" THEN rows[o] ELSE exch[o]
      /\ Walked.rows \in [Oids -> Amounts] /\ Walked.trade \in Trades
      /\ Walked.trade.status \in {"open", "closed"}
  BY <1>1, <1>2, WalkedTables
<1>4. ~Unfilled(Walked.rows)
  <2>1. PICK o \in Oids : Ended(rows[o]) /\ rows[o].filled > 0
    BY DEF RecoverTrade, FilledEntries
  <2>2. rows[o].status # "none" /\ rows[o].filled \in Nat /\ rows[o] = exch[o]
    BY <1>2, <2>1 DEF Ended, Amounts, Below, NoOrder
  <2>3. Walked.rows[o] = rows[o]
    BY <1>3, <2>2
  <2>4. ~Empty(rows[o])
    BY <2>1, <2>2 DEF Empty
  <2>5. QED
    BY <2>2, <2>3, <2>4 DEF Unfilled
<1>5. rows' = Walked.rows /\ trade' = Walked.trade
  BY <1>1, <1>4 DEF HandleOnExchangeOrder
<1>6. OpenRows(rows') = {} /\ Live' = {}
  <2>1. Live' = {}
    BY <1>1, <1>2 DEF Live
  <2>2. ASSUME NEW o \in Oids PROVE rows'[o].status # "open"
    <3>1. rows[o].status # "open" /\ exch[o].status # "open"
      BY <1>1, <1>2 DEF OpenRows, Live
    <3>2. QED
      BY <3>1, <1>3, <1>5
  <2>3. QED
    BY <2>1, <2>2 DEF OpenRows
<1>7. Ioc \/ Position' = 0
  <2> SUFFICES ASSUME ~Ioc PROVE Position' = 0
    OBVIOUS
  <2>1. Recalculated(rows) = Position
    BY <1>1, SettledTables DEF Ledger, OrderInv, AmountInv, Orderly, Tabled, Position
  <2>2. Position \in Int /\ Position >= 0 /\ trade.amount \in Nat
    BY NetType DEF OrderInv, Position, AmountInv, Orderly, Trades
  <2>3. Position <= 0 \/ trade.amount = Position
    BY <2>1, <1>1 DEF Ledger, Summed
  <2>4. Position = 0
    BY <2>2, <2>3, <1>1
  <2>5. Position' = Position
    BY <1>1 DEF Position
  <2>6. QED
    BY <2>4, <2>5
<1>8. QED
  BY <1>1, <1>3, <1>5, <1>6, <1>7

\* Without IOC and FOK orders and /reload_trade, walking the orders of a trade again closes
\* it only if they add up to nothing: an exit that happens to equal what is left of the
\* amount would close a trade that still holds something, but recovery is asked for only
\* when nothing is held.
THEOREM RecoveryClosesNothingHeld ==
    ASSUME ~Ioc, ~Reload PROVE Spec => OnlyZeroCloses
<1>1. ASSUME OrderInv, AmountInv, Ledger, OrderInv', AmountInv', Ledger', RecoverTrade
      PROVE  Recalculated(rows') = 0
  <2>1. OpenRows(rows') = {} /\ Position' = 0 /\ trade'.status # "deleted"
    BY <1>1, RecoverWalks
  <2>2. /\ exch' \in [Oids -> Amounts] /\ rows' \in [Oids -> Amounts]
        /\ Known(exch') /\ Below(exch', rows') /\ Kept(exch', rows')
    BY <1>1, <2>1 DEF Ledger, OrderInv, AmountInv, Orderly, Tabled
  <2>3. Recalculated(rows') = Net(exch', Oids)
    BY <2>1, <2>2, SettledTables
  <2>4. QED
    BY <2>1, <2>3 DEF Position
<1>2. ~ReloadTrade
  BY DEF ReloadTrade
<1>3. OrderInv /\ AmountInv /\ Ledger /\ (OrderInv /\ AmountInv /\ Ledger)'
        => [RecoverTrade \/ ReloadTrade =>
              (trade.status = "open" /\ trade'.status = "closed" => Recalculated(rows') = 0)]_vars
  BY <1>1, <1>2
<1>4. QED
  BY <1>3, LedgerAlways, PTL DEF OnlyZeroCloses

---------------------------------------------------------------------------
(* A trade that is closed or deleted has nothing left on the exchange.      *)

\* A handler works on open rows.
Aimed == task.todo \subseteq OpenRows(rows)

\* Without adjust_order_price no order is replaced.
Direct == task.why \notin {"drop", "replace", "reenter", "reexit"}

\* A trade that is gone has no live order and no open row, and no position either unless
\* an exit was left unbooked (RecoverTrade closes the trade at the position it finds).
Flat ==
    trade.status \in {"closed", "deleted"} =>
        /\ Live = {} /\ OpenRows(rows) = {}
        /\ Position = 0 \/ (Ioc /\ task = Idle)

Gone == Aimed /\ Direct /\ Flat

\* A trade with no open row whose rows add up to nothing has no position.
LEMMA FlatNext ==
    ASSUME OrderInv', AmountInv', Ledger', trade'.status # "deleted",
           OpenRows(rows') = {}, Recalculated(rows') <= 0
    PROVE  Live' = {} /\ Position' = 0
<1>1. Recalculated(rows') = Position'
  BY SettledTables DEF Ledger, OrderInv, AmountInv, Orderly, Tabled, Position
<1>2. Position' \in Int /\ Position' >= 0
  BY NetType DEF OrderInv, Position, AmountInv, Orderly
<1>3. Live' \subseteq OpenRows(rows')
  BY DEF OrderInv
<1>4. QED
  BY <1>1, <1>2, <1>3

\* The only order of a trade without a filled entry, which has ended empty, leaves no
\* position behind.
LEMMA DeletedFlat ==
    ASSUME OrderInv, OrderInv', AmountInv', Kept(exch', rows), Below(exch', rows),
           FilledEntries(rows) = {}, \A o \in OpenRows(rows) : exch'[o].filled = 0
    PROVE  Position' = 0
<1>1. Position' <= 0
  BY UnfilledTables DEF OrderInv, AmountInv, Orderly, Position
<1>2. Position' \in Int /\ Position' >= 0
  BY NetType DEF OrderInv, Position, AmountInv, Orderly
<1>3. QED
  BY <1>1, <1>2

\* Without adjust_order_price a handler deletes a trade only with its last order, and only
\* when neither has filled anything.
LEMMA HandlerTables ==
    ASSUME ~AdjustPrice, OrderInv, AmountInv, Direct,
           ManageFetch \/ ClearFetch \/ CancelRequest \/ StartupFetch, NEW o, o = First(task.todo)
    PROVE  \/ UntouchedTrade
           \/ Record(o, exch'[o])
           \/ /\ DeleteTrade /\ Ended(exch'[o]) /\ exch'[o].filled = 0
              /\ OpenRows(rows) \subseteq {o} /\ FilledEntries(rows) = {}
<1>1. CASE ManageFetch \/ ClearFetch \/ StartupFetch
  <2>1. exch' = exch
    BY <1>1 DEF ManageFetch, ClearFetch, StartupFetch
  <2>2. \/ UntouchedTrade \/ Record(o, exch[o])
        \/ Ended(exch[o]) /\ EntryEnded(o, exch[o])
    <3>1. CASE ManageFetch
      BY <3>1 DEF ManageFetch, Empty
    <3>2. CASE ClearFetch
      BY <3>2 DEF ClearFetch
    <3>3. CASE StartupFetch
      BY <3>3 DEF StartupFetch
    <3>4. QED
      BY <1>1, <3>1, <3>2, <3>3
  <2>3. QED
    BY <2>1, <2>2 DEF EntryEnded
<1>2. CASE CancelRequest
  <2> DEFINE a == exch'[o]
  <2>1. CASE Ended(a) /\ CancelEntry(o, a)
    BY <2>1 DEF CancelEntry, EntryEnded
  <2>2. CASE KeepEntry
    BY <2>2 DEF KeepEntry, Direct
  <2>3. CASE CancelExit(o, a)
    BY <2>3 DEF CancelExit
  <2>4. CASE UntouchedTrade
    BY <2>4
  <2>5. QED
    BY <1>2, <2>1, <2>2, <2>3, <2>4 DEF CancelRequest
<1>3. QED
  BY <1>1, <1>2

\* A handler at work on an order leaves no trade with something on the exchange.
LEMMA HandlerFlat ==
    ASSUME ~AdjustPrice, OrderInv, AmountInv, Ledger, Gone, OrderInv', AmountInv',
           ManageFetch \/ ClearFetch \/ CancelRequest \/ StartupFetch
    PROVE  Flat'
<1> DEFINE o == First(task.todo)
<1>1. /\ o \in Oids /\ task.todo = {o} /\ trade.status \in {"open", "closed"}
      /\ exch'[o].status # "none" /\ Forward(o)
  BY HandlerMoves
<1>2. \/ UntouchedTrade
      \/ Record(o, exch'[o])
      \/ /\ DeleteTrade /\ Ended(exch'[o]) /\ exch'[o].filled = 0
         /\ OpenRows(rows) \subseteq {o} /\ FilledEntries(rows) = {}
  BY HandlerTables DEF Gone
<1> HIDE DEF o
<1>3. OpenRows(rows) = {o} /\ rows[o].status = "open" /\ trade.status = "open" /\ Live \subseteq {o}
  <2>1. o \in OpenRows(rows)
    BY <1>1 DEF Gone, Aimed
  <2>2. trade.status = "open"
    BY <2>1, <1>1 DEF Gone, Flat
  <2>3. QED
    BY <2>1, <2>2 DEF OrderInv, AtMostOne, OpenRows
<1>4. CASE UntouchedTrade
  BY <1>3, <1>4 DEF UntouchedTrade, Flat
<1>5. CASE Record(o, exch'[o])
  <2>1. /\ Ledger' /\ rows'[o] = exch'[o] /\ \A p \in Oids \ {o} : rows'[p] = rows[p]
        /\ \/ trade'.status = trade.status
           \/ Ended(exch'[o]) /\ (Ended(rows[o]) \/ Recalculated(rows') <= 0)
    BY <1>1, <1>3, <1>5, RecordedLedger
  <2>2. trade'.status \in {"open", "closed"}
    <3> DEFINE no == FALSE
    <3>1. trade' = Settled(trade, rows, o, exch'[o], no)
      BY <1>5 DEF Record
    <3> HIDE DEF no
    <3>2. trade \in Trades /\ rows \in [Oids -> Amounts] /\ exch'[o] \in Amounts
      BY <1>1 DEF OrderInv
    <3>3. QED
      BY <3>1, <3>2, <1>1, <1>3, SettledType
  <2>3. CASE trade'.status = "open"
    BY <2>3 DEF Flat
  <2>4. CASE trade'.status = "closed"
    <3>1. Ended(exch'[o]) /\ Recalculated(rows') <= 0
      BY <2>1, <2>4, <1>3 DEF Ended
    <3>2. OpenRows(rows') = {}
      BY <3>1, <2>1, <1>3 DEF OpenRows, Ended
    <3>3. QED
      BY <3>1, <3>2, <2>1, <2>4, FlatNext DEF Flat
  <2>5. QED
    BY <2>2, <2>3, <2>4
<1>6. CASE /\ DeleteTrade /\ Ended(exch'[o]) /\ exch'[o].filled = 0
           /\ OpenRows(rows) \subseteq {o} /\ FilledEntries(rows) = {}
  <2>1. Kept(exch', rows) /\ Below(exch', rows)
    BY <1>1, <1>3, KeptForward
  <2>2. Position' = 0
    BY <2>1, <1>6, DeletedFlat
  <2>3. OpenRows(rows') = {}
    BY <1>6 DEF DeleteTrade, OpenRows, NoRows, NoOrder
  <2>4. Live' = {}
    <3>1. Live' \subseteq Live
      BY <1>1, ForwardOrders
    <3>2. o \notin Live'
      BY <1>6 DEF Live, Ended
    <3>3. QED
      BY <3>1, <3>2, <1>3
  <2>5. QED
    BY <2>2, <2>3, <2>4 DEF Flat
<1>7. QED
  BY <1>2, <1>4, <1>5, <1>6

\* Nor does one that places an order.
LEMMA PlaceFlat ==
    ASSUME OrderInv, AmountInv, Ledger, Gone, OrderInv', AmountInv', Ledger',
           EnterTrade \/ PlaceEntry \/ PlaceExit
    PROVE  Flat'
<1>1. CASE EnterTrade
  <2>1. trade.status = "none"
    BY <1>1 DEF EnterTrade
  <2>2. PICK a : /\ Acceptable(a) /\ a.side = "entry" /\ Placed(a)
                 /\ IF Empty(a) THEN UntouchedTrade ELSE EntryPlaced(a)
    BY <1>1, EnterTradeOrder
  <2>3. trade'.status \in {"none", "open"}
    BY <2>1, <2>2, EntryPlacedLedger DEF UntouchedTrade
  <2>4. QED
    BY <2>3 DEF Flat
<1>2. CASE PlaceEntry
  <2>1. /\ trade.status \in {"open", "closed"} /\ OpenRows(rows) = {} /\ Live = {} /\ task # Idle
    BY <1>2, MayPlaceFacts DEF PlaceEntry, MayPlace, Cleared, Idle
  <2>2. PICK a : /\ Acceptable(a) /\ a.side = "entry" /\ Placed(a)
                 /\ \/ EntryPlaced(a)
                    \/ Empty(a) /\ UntouchedTrade
                    \/ Empty(a) /\ DeleteTrade /\ FilledEntries(rows) = {}
    BY <1>2, PlaceEntryOrder
  <2>3. CASE EntryPlaced(a)
    BY <2>1, <2>2, <2>3, EntryPlacedLedger DEF Flat
  <2>4. ASSUME Empty(a)
        PROVE  Kept(exch', rows) /\ Below(exch', rows) /\ Live' = {}
    <3>1. a.filled = 0 /\ a.status # "open"
      BY <2>4 DEF Empty, Ended
    <3>2. Kept(exch', rows) /\ Below(exch', rows)
      BY <2>1, <2>2, <3>1, PlacedForgotten
    <3>3. Live' = {}
      <4>1. exch'[NextId] = a /\ \A p \in Oids \ {NextId} : exch'[p] = exch[p]
        BY <2>2, PlacedOrders
      <4>2. QED
        BY <4>1, <3>1, <2>1 DEF Live
    <3>4. QED
      BY <3>2, <3>3
  <2>5. CASE Empty(a) /\ UntouchedTrade
    <3>1. rows' = rows /\ trade' = trade
      BY <2>5 DEF UntouchedTrade
    <3>2. CASE trade.status = "closed"
      <4>1. Position = 0
        BY <2>1, <3>2 DEF Gone, Flat
      <4>2. Recalculated(rows) = Position
        BY <2>1, SettledTables DEF Ledger, OrderInv, AmountInv, Orderly, Tabled, Position
      <4>3. Recalculated(rows') <= 0 /\ OpenRows(rows') = {}
        BY <4>1, <4>2, <3>1, <2>1
      <4>4. QED
        BY <4>3, <3>1, <3>2, FlatNext DEF Flat
    <3>3. CASE trade.status = "open"
      BY <3>1, <3>3 DEF Flat
    <3>4. QED
      BY <2>1, <3>2, <3>3
  <2>6. CASE Empty(a) /\ DeleteTrade /\ FilledEntries(rows) = {}
    <3>1. Position' = 0 /\ Live' = {}
      BY <2>1, <2>4, <2>6, DeletedFlat
    <3>2. OpenRows(rows') = {}
      BY <2>6 DEF DeleteTrade, OpenRows, NoRows, NoOrder
    <3>3. QED
      BY <3>1, <3>2 DEF Flat
  <2>7. QED
    BY <2>2, <2>3, <2>5, <2>6
<1>3. CASE PlaceExit
  <2> DEFINE no == FALSE
  <2>1. trade.status \in {"open", "closed"} /\ OpenRows(rows) = {} /\ task # Idle /\ Position > 0
    BY <1>3, MayPlaceFacts DEF PlaceExit, MayPlace, Cleared, Idle
  <2>2. trade.status = "open"
    BY <2>1 DEF Gone, Flat
  <2>3. no = FALSE
    OBVIOUS
  <2> HIDE DEF no
  <2>4. PICK a : /\ Acceptable(a) /\ a.side = "exit" /\ Placed(a)
                 /\ rows' = Recorded(rows, NextId, a)
                 /\ \/ trade' = Settled(trade, rows, NextId, a, no)
                    \/ Ioc /\ UNCHANGED trade
    BY <1>3, <2>3, PlaceExitOrder
  <2>5. CASE trade' = Settled(trade, rows, NextId, a, no)
    <3>1. trade \in Trades /\ Summed(rows, trade) /\ rows \in [Oids -> Amounts]
          /\ NextId \in Oids /\ a \in Amounts
      BY <2>2, <2>4, PlacedOrders DEF OrderInv, Ledger, Acceptable
    <3>2. trade'.status = trade.status \/ (Ended(a) /\ Recalculated(rows') <= 0)
      BY <2>2, <2>4, <2>5, <3>1, PlacedBooked
    <3>3. trade'.status = trade.status \/ trade'.status = "closed"
      BY <2>5, <3>1, SettledType
    <3>4. CASE trade'.status = trade.status
      BY <2>2, <3>4 DEF Flat
    <3>5. CASE trade'.status = "closed" /\ Ended(a) /\ Recalculated(rows') <= 0
      <4>1. OpenRows(rows') = {}
        <5>1. rows'[NextId] = a /\ \A p \in Oids \ {NextId} : rows'[p] = rows[p]
          BY <2>4, <3>1, RecordedType
        <5>2. QED
          BY <5>1, <2>1, <3>5 DEF OpenRows, Ended
      <4>2. QED
        BY <4>1, <3>5, FlatNext DEF Flat
    <3>6. QED
      BY <3>2, <3>3, <3>4, <3>5
  <2>6. CASE UNCHANGED trade
    BY <2>2, <2>6 DEF Flat
  <2>7. QED
    BY <2>4, <2>5, <2>6
<1>4. QED
  BY <1>1, <1>2, <1>3

\* handle_onexchange_order over a trade with no open row.
LEMMA RecoverFlat ==
    ASSUME OrderInv, AmountInv, Ledger, RecoverTrade
    PROVE  Flat'
<1>1. /\ trade'.status \in {"open", "closed"} /\ OpenRows(rows') = {} /\ Live' = {}
      /\ Ioc \/ Position' = 0
      /\ task' = Idle
  BY RecoverWalks
<1>2. QED
  BY <1>1 DEF Flat

\* A handler goes on with what is open: what it has settled leaves its list.
LEMMA AimedStep ==
    ASSUME OrderInv, AmountInv, Aimed, [Next]_vars PROVE Aimed'
<1> DEFINE o == First(task.todo)
<1>1. task'.todo = {} \/ task'.todo = OpenRows(rows') => Aimed'
  BY DEF Aimed
<1>2. task' = Idle => Aimed'
  BY <1>1 DEF Idle
<1>3. CASE Manage \/ ExitTrade \/ AdjustTrade \/ ForceExit \/ CancelOpenOrder \/ Restart
  <2>1. rows' = rows
    BY <1>3 DEF Manage, ExitTrade, AdjustTrade, ForceExit, CancelOpenOrder, Clear, Restart
  <2>2. ASSUME NEW why, NEW n, Clear(why, n) PROVE task'.todo = OpenRows(rows)
    BY <2>2 DEF Clear, Idle
  <2>3. task' = Idle \/ task'.todo = OpenRows(rows)
    <3>1. CASE Manage
      BY <3>1 DEF Manage, Idle
    <3>2. CASE Restart
      BY <3>2 DEF Restart, Idle
    <3>3. QED
      BY <1>3, <2>2, <3>1, <3>2 DEF ExitTrade, AdjustTrade, ForceExit, CancelOpenOrder
  <2>4. QED
    BY <1>1, <1>2, <2>1, <2>3
<1>4. CASE ManageFetch
  <2>1. o \in Oids /\ task.todo = {o} /\ Loop = Idle /\ task \in Tasks
    BY <1>4, HandlerMoves
  <2>2. \/ task' = Idle
        \/ /\ exch[o].status = "open" /\ Record(o, exch[o])
           /\ \E why : task' = [task EXCEPT !.step = "cancel", !.why = why]
    BY <1>4, <2>1 DEF ManageFetch
  <2>3. CASE /\ exch[o].status = "open" /\ Record(o, exch[o])
             /\ \E why : task' = [task EXCEPT !.step = "cancel", !.why = why]
    <3>1. rows'[o] = exch[o]
      BY <2>1, <2>3 DEF Record, Recorded, OrderInv
    <3>2. task'.todo = {o}
      BY <2>1, <2>3 DEF Tasks
    <3>3. QED
      BY <2>1, <2>3, <3>1, <3>2 DEF Aimed, OpenRows
  <2>4. QED
    BY <1>2, <2>2, <2>3
<1>5. CASE ClearFetch
  <2>1. o \in Oids /\ task.todo = {o} /\ task \in Tasks
    BY <1>5, HandlerMoves
  <2> DEFINE rest == [task EXCEPT !.todo = @ \ {o}]
  <2>2. \/ task' = Idle \/ \E g : task' = [rest EXCEPT !.gone = g]
        \/ task' = rest
        \/ task' = [task EXCEPT !.step = "cancel"] /\ UntouchedTrade
    BY <1>5, Zenon DEF ClearFetch
  <2>3. rest \in Tasks /\ rest.todo = {}
    BY <2>1 DEF Tasks
  <2> HIDE DEF rest
  <2>4. task' = Idle \/ task'.todo = {} \/ (task'.todo = task.todo /\ rows' = rows)
    BY <2>1, <2>2, <2>3 DEF Tasks, UntouchedTrade
  <2>5. QED
    BY <1>1, <1>2, <2>4 DEF Aimed
<1>6. CASE CancelRequest
  <2>1. o \in Oids /\ task.todo = {o} /\ task \in Tasks /\ Loop = Idle
    BY <1>6, HandlerMoves
  <2>2. ASSUME NEW gone, GoOn(gone) PROVE Aimed'
    <3>1. task' = Idle \/ task'.todo = {}
      BY <2>1, <2>2 DEF GoOn, Tasks
    <3>2. QED
      BY <1>1, <1>2, <3>1
  <2>3. ASSUME NEW why, NEW n, task' = ThenExit(why, n) PROVE Aimed'
    BY <1>1, <2>3 DEF ThenExit, Idle
  <2> DEFINE a == exch'[o]
  <2>4. CASE CancelEntry(o, a)
    BY <2>2, <2>3, <2>4 DEF CancelEntry
  <2>5. CASE KeepEntry
    BY <2>2, <2>5 DEF KeepEntry
  <2>6. CASE CancelExit(o, a)
    BY <2>2, <2>3, <2>6 DEF CancelExit
  <2>7. QED
    BY <1>2, <1>6, <2>4, <2>5, <2>6 DEF CancelRequest
<1>7. CASE StartupFetch
  BY <1>2, <1>7, HandlerMoves DEF StartupFetch
<1>8. CASE GiveUp \/ Refused \/ PlaceEntry \/ PlaceExit
  BY <1>2, <1>8 DEF GiveUp, Refused, PlaceEntry, PlaceExit
<1>9. CASE EnterTrade \/ RecoverTrade \/ ReloadTrade
  BY <1>2, <1>9 DEF EnterTrade, RecoverTrade, ReloadTrade, HandleOnExchangeOrder
<1>10. CASE Exchange \/ UNCHANGED vars
  BY <1>10 DEF Exchange, Fill, CancelledOnExchange, vars, Aimed
<1>11. QED
  BY <1>3, <1>4, <1>5, <1>6, <1>7, <1>8, <1>9, <1>10 DEF Next, Handlers

\* What a handler works for: it keeps its reason to the end, unless it replaces an order
\* or exits after too many timeouts.
LEMMA WhyStep ==
    ASSUME OrderInv, AmountInv, [Next]_vars
    PROVE  \/ task'.why = task.why
           \/ task'.why \in {"none", "timeout", "exit", "trim", "force", "user"}
           \/ task'.why \in {"drop", "replace"} /\ AdjustPrice
           \/ task'.why = "add" /\ PosAdjust
           \/ task'.why \in {"reenter", "reexit"} /\ task.why = "replace" /\ CancelRequest
<1> DEFINE o == First(task.todo)
<1>1. task' = Idle => task'.why = "none"
  BY DEF Idle
<1>2. CASE Manage \/ ExitTrade \/ AdjustTrade \/ ForceExit \/ CancelOpenOrder \/ Restart
  <2>1. ASSUME NEW why, NEW n, Clear(why, n) PROVE task'.why = why
    BY <2>1 DEF Clear, Idle
  <2>2. Manage => task'.why = "timeout"
    BY DEF Manage, Idle
  <2>3. Restart => task'.why = "none"
    BY DEF Restart, Idle
  <2>4. QED
    BY <1>2, <2>1, <2>2, <2>3 DEF ExitTrade, AdjustTrade, ForceExit, CancelOpenOrder
<1>3. CASE ManageFetch
  <2>1. o \in Oids /\ Loop = Idle /\ task \in Tasks
    BY <1>3, HandlerMoves
  <2>2. \/ task' = Idle
        \/ \E why \in {"timeout"} \cup (IF AdjustPrice THEN {"drop", "replace"} ELSE {}) :
              task' = [task EXCEPT !.step = "cancel", !.why = why]
    BY <1>3, <2>1 DEF ManageFetch
  <2>3. \A why : [task EXCEPT !.step = "cancel", !.why = why].why = why
    BY <2>1 DEF Tasks
  <2>4. QED
    BY <1>1, <2>2, <2>3
<1>4. CASE ClearFetch
  <2>1. task \in Tasks
    BY DEF OrderInv
  <2> DEFINE rest == [task EXCEPT !.todo = @ \ {o}]
  <2>2. \/ task' = Idle \/ \E g : task' = [rest EXCEPT !.gone = g]
        \/ task' = rest \/ task' = [task EXCEPT !.step = "cancel"]
    BY <1>4, Zenon DEF ClearFetch
  <2>3. rest \in Tasks /\ rest.why = task.why
    BY <2>1 DEF Tasks
  <2> HIDE DEF rest
  <2>4. task' = Idle \/ task'.why = task.why
    BY <2>1, <2>2, <2>3 DEF Tasks
  <2>5. QED
    BY <1>1, <2>4
<1>5. CASE CancelRequest
  <2>1. task \in Tasks /\ Loop = Idle
    BY <1>5, HandlerMoves
  <2>2. ASSUME NEW gone, GoOn(gone) PROVE task'.why \in {task.why, "none"}
    <3>1. \/ task' = Idle
          \/ task' = [task EXCEPT !.step = "clear", !.todo = @ \ {First(@)}, !.gone = @ \/ gone]
      BY <2>1, <2>2 DEF GoOn
    <3>2. QED
      BY <1>1, <2>1, <3>1 DEF Tasks
  <2>3. ASSUME NEW why, NEW n, task' = ThenExit(why, n) PROVE task'.why = why
    BY <2>3 DEF ThenExit, Idle
  <2> DEFINE a == exch'[o]
  <2>4. CASE CancelEntry(o, a)
    BY <1>5, <2>2, <2>3, <2>4 DEF CancelEntry
  <2>5. CASE KeepEntry
    BY <2>2, <2>5 DEF KeepEntry
  <2>6. CASE CancelExit(o, a)
    BY <1>5, <2>2, <2>3, <2>6 DEF CancelExit
  <2>7. QED
    BY <1>1, <1>5, <2>4, <2>5, <2>6 DEF CancelRequest
<1>6. CASE StartupFetch
  BY <1>1, <1>6, HandlerMoves DEF StartupFetch
<1>7. CASE GiveUp \/ Refused \/ PlaceEntry \/ PlaceExit
  BY <1>1, <1>7 DEF GiveUp, Refused, PlaceEntry, PlaceExit
<1>8. CASE EnterTrade \/ RecoverTrade \/ ReloadTrade
  BY <1>8 DEF EnterTrade, RecoverTrade, ReloadTrade, HandleOnExchangeOrder
<1>9. CASE Exchange \/ UNCHANGED vars
  BY <1>9 DEF Exchange, Fill, CancelledOnExchange, vars
<1>10. QED
  BY <1>2, <1>3, <1>4, <1>5, <1>6, <1>7, <1>8, <1>9 DEF Next, Handlers

\* No order is replaced.
LEMMA DirectStep ==
    ASSUME ~AdjustPrice, OrderInv, AmountInv, Direct, [Next]_vars PROVE Direct'
BY WhyStep DEF Direct

\* A trade that is gone stays as it is on the exchange, and no handler starts on it.
LEMMA RestFlat ==
    ASSUME ~AdjustPrice, OrderInv, AmountInv, Gone,
           \/ UNCHANGED vars \/ Exchange \/ GiveUp \/ Refused
           \/ Manage \/ ExitTrade \/ AdjustTrade \/ ForceExit \/ CancelOpenOrder \/ Restart
    PROVE  Flat'
<1>1. CASE trade.status \notin {"closed", "deleted"}
  <2>1. trade' = trade
    BY DEF vars, Exchange, Fill, CancelledOnExchange, GiveUp, Refused, Gone, Direct, UntouchedTrade,
           Manage, ExitTrade, AdjustTrade, ForceExit, CancelOpenOrder, Clear, Restart
  <2>2. QED
    BY <1>1, <2>1 DEF Flat
<1>2. CASE trade.status \in {"closed", "deleted"}
  <2>1. /\ Live = {} /\ OpenRows(rows) = {} /\ (Position = 0 \/ (Ioc /\ task = Idle))
    BY <1>2 DEF Gone, Flat
  <2>2. ~Exchange
    BY <2>1 DEF Exchange, Fill, CancelledOnExchange, Live
  <2>3. UNCHANGED <<exch, rows, trade>> /\ (task' = task \/ task' = Idle)
    BY <1>2, <2>1, <2>2
       DEF vars, GiveUp, Refused, Gone, Direct, UntouchedTrade,
           Manage, ExitTrade, AdjustTrade, ForceExit, CancelOpenOrder, Clear, Restart
  <2>4. Live' = Live /\ Position' = Position
    BY <2>3 DEF Live, Position
  <2>5. QED
    BY <2>1, <2>3, <2>4 DEF Flat
<1>3. QED
  BY <1>1, <1>2

LEMMA GoneInit == Init => Gone
BY DEF Init, Gone, Aimed, Direct, Flat, Idle

LEMMA GoneStep ==
    ASSUME ~AdjustPrice, ~Reload
    PROVE  OrderInv /\ AmountInv /\ Ledger /\ Gone /\ [Next]_vars => Gone'
<1> SUFFICES ASSUME OrderInv, AmountInv, Ledger, Gone, [Next]_vars PROVE Gone'
  OBVIOUS
<1>1. OrderInv' /\ AmountInv' /\ Ledger'
  BY OrderInvStep, AmountInvStep, LedgerStep
<1>2. Aimed' /\ Direct'
  BY AimedStep, DirectStep DEF Gone
<1>3. CASE ManageFetch \/ ClearFetch \/ CancelRequest \/ StartupFetch
  BY <1>1, <1>2, <1>3, HandlerFlat DEF Gone
<1>4. CASE EnterTrade \/ PlaceEntry \/ PlaceExit
  BY <1>1, <1>2, <1>4, PlaceFlat DEF Gone
<1>5. CASE RecoverTrade
  BY <1>1, <1>2, <1>5, RecoverFlat DEF Gone
<1>6. CASE \/ UNCHANGED vars \/ Exchange \/ GiveUp \/ Refused
           \/ Manage \/ ExitTrade \/ AdjustTrade \/ ForceExit \/ CancelOpenOrder \/ Restart
  BY <1>2, <1>6, RestFlat DEF Gone
<1>7. ~ReloadTrade
  BY DEF ReloadTrade
<1>8. QED
  BY <1>3, <1>4, <1>5, <1>6, <1>7 DEF Next, Handlers

LEMMA GoneAlways ==
    ASSUME ~AdjustPrice, ~Reload PROVE Spec => [](OrderInv /\ AmountInv /\ Ledger /\ Gone)
<1>1. Init => OrderInv /\ AmountInv /\ Ledger /\ Gone
  BY OrderInvInit, AmountInvInit, LedgerInit, GoneInit
<1>2. OrderInv /\ AmountInv /\ Ledger /\ Gone /\ [Next]_vars
        => (OrderInv /\ AmountInv /\ Ledger /\ Gone)'
  BY OrderInvStep, AmountInvStep, LedgerStep, GoneStep
<1>3. QED
  BY <1>1, <1>2, PTL DEF Spec

\* Without adjust_order_price and /reload_trade, IOC and FOK orders or not, a live order
\* has an open row in an open trade, where manage_open_orders finds it: no handler deletes
\* or closes a trade, or gives up an order, that the exchange may still fill.
THEOREM NothingAbandoned == ASSUME ~AdjustPrice, ~Reload PROVE Spec => []NoAbandonedOrder
<1>1. OrderInv /\ Gone => NoAbandonedOrder
  <2> SUFFICES ASSUME OrderInv, Gone, NEW o \in Live
               PROVE  rows[o].status = "open" /\ trade.status = "open"
    BY DEF NoAbandonedOrder
  <2>1. trade.status \notin {"closed", "deleted"}
    BY DEF Gone, Flat
  <2>2. o \in OpenRows(rows)
    BY <2>1 DEF OrderInv
  <2>3. trade.status # "none"
    BY <2>2 DEF OrderInv, OpenRows, NoRows, NoOrder
  <2>4. QED
    BY <2>1, <2>2, <2>3 DEF OpenRows, OrderInv, Trades
<1>2. QED
  BY <1>1, GoneAlways, PTL

\* Where the three ways in which it can go wrong are switched off (no adjust_order_price,
\* no IOC or FOK order, no /reload_trade), a closed or deleted trade has no position and no
\* live order on the exchange.
THEOREM GoneHoldsNothing ==
    ASSUME ~AdjustPrice, ~Reload, ~Ioc PROVE Spec => []GoneIsFlat
<1>1. Gone => GoneIsFlat
  BY DEF Gone, Flat, GoneIsFlat
<1>2. QED
  BY <1>1, GoneAlways, PTL

---------------------------------------------------------------------------
(* Without position adjustment a trade has one entry at a time, and without *)
(* IOC and FOK orders a trade that is open and has an amount holds it.      *)

\* Nothing has been filled, unless order o has.
Fresh(R, t, o) == t.amount = 0 /\ \A p \in Oids \ {o} : R[p].filled = 0

\* While an entry is open, or replaced by another, nothing else has been filled.
Alone(R, t) == \A o \in OpenRows(R) : R[o].side = "entry" => Fresh(R, t, o)
Single ==
    /\ task.why # "add"
    /\ trade.status # "deleted" =>
          /\ Alone(rows, trade)
          /\ task.why = "reenter" => OpenRows(rows) = {} /\ Fresh(rows, trade, 0)

\* A trade that is open although its rows add up to nothing has not bought anything yet.
Funded(R, t) ==
    t.status = "open" /\ Recalculated(R) <= 0 => t.amount = 0 /\ FilledEntries(R) = {}
Held == Funded(rows, trade)

\* The rows that have ended add up to no less than nothing.
LEMMA SumNotNegative ==
    ASSUME NEW E \in [Oids -> Amounts], NEW R \in [Oids -> Amounts],
           Known(E), Below(E, R), Kept(E, R), Net(E, Oids) >= 0, AtMostOne(OpenRows(R)),
           \A q \in OpenRows(R) : R[q].side = "entry" => \A p \in Oids \ {q} : R[p].filled = 0
    PROVE  Recalculated(R) >= 0
<1>1. CASE OpenRows(R) = {}
  <2>1. Recalculated(R) = Net(E, Oids)
    BY <1>1, SettledTables
  <2>2. QED
    BY <2>1
<1>2. ASSUME NEW q \in OpenRows(R) PROVE Recalculated(R) >= 0
  <2> DEFINE D == {o \in Oids : Ended(R[o])}
  <2>1. /\ q \in Oids /\ R[q].status = "open" /\ q \notin D
        /\ \A p \in Oids \ {q} : R[p].status # "open"
    BY <1>2 DEF OpenRows, AtMostOne, Ended
  <2>2. Recalculated(R) = Net(R, D)
    BY DEF Recalculated
  <2> HIDE DEF D
  <2>3. CASE R[q].side = "entry"
    <3>1. ASSUME NEW n \in Oids PROVE Term(R, D, n) = 0
      <4>1. CASE n = q
        BY <2>1, <4>1 DEF Term
      <4>2. CASE n # q
        <5>1. R[n].filled = 0 /\ R[n] \in Amounts
          BY <1>2, <2>3, <4>2
        <5>2. QED
          BY <5>1, NothingFilled DEF Term
      <4>3. QED
        BY <4>1, <4>2
    <3>2. Net(R, D) = 0
      BY <3>1, NetNothing
    <3>3. QED
      BY <2>2, <3>2
  <2>4. CASE R[q].side = "exit"
    <3>1. \A n \in Oids \ {q} : Term(R, D, n) = Term(E, Oids, n)
      BY <2>1, SettledTerm DEF D
    <3>2. Net(R, D) - Net(E, Oids) = Term(R, D, q) - Term(E, Oids, q)
      BY <2>1, <3>1, NetDiffers
    <3>3. Term(R, D, q) = 0
      BY <2>1 DEF Term
    <3>4. Term(E, Oids, q) <= 0 /\ Term(E, Oids, q) \in Int
      <4>1. E[q] \in Amounts /\ E[q].side = "exit"
        BY <2>1, <2>4 DEF Below, NoOrder
      <4>2. Term(E, Oids, q) = -E[q].filled /\ E[q].filled \in Nat
        BY <2>1, <4>1 DEF Term, Signed, Amounts
      <4>3. QED
        BY <4>2
    <3>5. Net(R, D) \in Int /\ Net(E, Oids) \in Int
      BY NetType
    <3>6. QED
      BY <2>2, <3>2, <3>3, <3>4, <3>5
  <2>5. QED
    BY <2>1, <2>3, <2>4 DEF Amounts, Sides
<1>3. QED
  BY <1>1, <1>2

\* Booking an order, again or for the first time, leaves no trade open with an amount it
\* does not have: an exit that takes everything closes the trade.
LEMMA SettledFunded ==
    ASSUME ~Ioc, NEW t \in Trades, NEW R \in [Oids -> Amounts], NEW o \in Oids, NEW a \in Amounts,
           NEW b \in BOOLEAN, NEW s, s = Settled(t, R, o, a, b), NEW Q, Q = Recorded(R, o, a),
           a.status # "none", ~Ended(R[o]) \/ R[o] = a, Summed(R, t), Funded(R, t),
           Recalculated(R) >= 0, Recalculated(Q) >= 0
    PROVE  Funded(Q, s)
<1>1. Q \in [Oids -> Amounts] /\ Q[o] = a /\ \A p \in Oids \ {o} : Q[p] = R[p]
  BY RecordedType
<1>2. /\ Recalculated(R) \in Int /\ Recalculated(Q) \in Int
      /\ t.amount \in Nat /\ a.filled \in Nat /\ a.side \in Sides
  BY <1>1, NetType DEF Recalculated, Trades, Amounts
<1>3. Summed(Q, s) /\ s \in Trades /\ (s.status = "open" => t.status = "open")
  <2>1. Summed(Q, s)
    BY SettledSums
  <2>2. QED
    BY <2>1, SettledType
<1> SUFFICES ASSUME s.status = "open", Recalculated(Q) <= 0
             PROVE  s.amount = 0 /\ FilledEntries(Q) = {}
  BY DEF Funded
<1>4. t.status = "open" /\ Recalculated(Q) = 0
  BY <1>2, <1>3
<1>5. CASE Empty(a) \/ a.status = "open"
  <2>1. s = t
    BY <1>5 DEF Settled
  <2>2. Recalculated(Q) = Recalculated(R)
    <3>1. CASE R[o] = a
      <4>1. Q = R
        BY <1>1, <3>1
      <4>2. QED
        BY <4>1
    <3>2. CASE ~Ended(R[o])
      <4>1. Recalculated(Q) = Recalculated(R) + (IF Ended(a) THEN Signed(a) ELSE 0)
        BY <3>2, RecordedSum
      <4>2. (IF Ended(a) THEN Signed(a) ELSE 0) = 0
        BY <1>5, NothingFilled DEF Empty, Ended
      <4>3. QED
        BY <1>2, <4>1, <4>2
    <3>3. QED
      BY <3>1, <3>2
  <2>3. t.amount = 0 /\ FilledEntries(R) = {}
    BY <1>2, <1>4, <2>2 DEF Funded
  <2>4. FilledEntries(Q) = {}
    <3>1. ~(Ended(a) /\ a.filled > 0)
      BY <1>5 DEF Empty, Ended
    <3>2. QED
      BY <1>1, <2>3, <3>1 DEF FilledEntries
  <2>5. QED
    BY <2>1, <2>3, <2>4
<1>6. CASE ~Empty(a) /\ a.status # "open"
  <2>1. Ended(a) /\ a.filled > 0 /\ s = Book(t, Q, o, b)
    BY <1>2, <1>6 DEF Settled, Empty, Ended, Amounts
  <2>2. CASE R[o] = a
    <3>1. Q = R
      BY <1>1, <2>2
    <3>2. t.amount = 0 /\ FilledEntries(R) = {}
      BY <1>2, <1>4, <3>1 DEF Funded
    <3>3. a.side = "exit"
      BY <2>1, <2>2, <3>2, <1>2 DEF FilledEntries, Sides
    <3>4. s = Recalc(t, Q) \/ s = Recalc([t EXCEPT !.status = IF @ = "open" THEN "closed" ELSE @], Q)
      BY <1>1, <2>1, <3>3, Zenon DEF Book
    <3>5. s = t \/ s = [t EXCEPT !.status = IF @ = "open" THEN "closed" ELSE @]
      BY <3>4, <1>4 DEF Recalc
    <3>6. s.amount = t.amount
      BY <3>5 DEF Trades
    <3>7. QED
      BY <3>1, <3>2, <3>6
  <2>3. CASE ~Ended(R[o])
    <3>1. Recalculated(Q) = Recalculated(R) + Signed(a) /\ Signed(a) \in Int
      BY <2>1, <2>3, RecordedSum
    <3>2. a.side = "exit"
      <4>1. a.side = "entry" => Signed(a) > 0
        BY <2>1 DEF Signed
      <4>2. QED
        BY <1>2, <1>4, <3>1, <4>1 DEF Sides
    <3>3. Signed(a) = -a.filled
      BY <3>2 DEF Signed
    <3>4. Recalculated(R) = a.filled
      <4>1. \A r, f \in Int : r + (-f) = 0 => r = f
        OBVIOUS
      <4>2. Recalculated(R) + (-a.filled) = 0 /\ a.filled \in Int
        BY <1>2, <1>4, <3>1, <3>3
      <4>3. QED
        BY <1>2, <4>1, <4>2
    <3>5. t.amount = a.filled
      BY <1>2, <2>1, <3>4 DEF Summed
    <3>6. s = Recalc([t EXCEPT !.status = IF @ = "open" THEN "closed" ELSE @], Q)
      BY <1>1, <2>1, <3>2, <3>5 DEF Book
    <3>7. s = [t EXCEPT !.status = IF @ = "open" THEN "closed" ELSE @]
      BY <3>6, <1>4 DEF Recalc
    <3>8. s.status # "open"
      BY <3>7 DEF Trades
    <3>9. QED
      BY <3>8
  <2>4. QED
    BY <2>2, <2>3
<1>7. QED
  BY <1>5, <1>6

\* While an entry is open and nothing else has been filled, no other order is alive, and
\* none has filled anything on the exchange either.
LEMMA FreshOrders ==
    ASSUME OrderInv, AmountInv, Ledger, trade.status # "deleted",
           NEW q \in OpenRows(rows), Fresh(rows, trade, q), NEW p \in Oids \ {q}
    PROVE  rows[p].filled = 0 /\ exch[p].filled = 0 /\ exch[p].status # "open"
<1>1. p \notin OpenRows(rows) /\ rows[p].filled = 0
  BY DEF OrderInv, AtMostOne, Fresh
<1>2. exch[p].status # "open"
  BY <1>1 DEF OrderInv, Live
<1>3. rows[p] = NoOrder \/ rows[p] = exch[p]
  BY <1>1 DEF AmountInv, Tabled, Below, OpenRows
<1>4. QED
  BY <1>1, <1>2, <1>3 DEF Ledger, Kept

\* An open row is on the side of its order.
LEMMA OpenSide ==
    ASSUME OrderInv, AmountInv, NEW q \in OpenRows(rows)
    PROVE  q \in Oids /\ rows[q].side = exch[q].side
BY DEF AmountInv, Tabled, Below, OpenRows, NoOrder

\* A table in which each order is as it was, or as it is on the exchange.
LEMMA MixNotNegative ==
    ASSUME OrderInv, AmountInv, Ledger, trade.status # "deleted", Alone(rows, trade),
           NEW R \in [Oids -> Amounts], Below(exch, R), Kept(exch, R),
           \A p \in Oids : R[p] = rows[p] \/ R[p] = exch[p]
    PROVE  Recalculated(R) >= 0
<1>1. OpenRows(R) \subseteq OpenRows(rows)
  BY DEF OpenRows, Live, OrderInv
<1>2. AtMostOne(OpenRows(R))
  BY <1>1 DEF AtMostOne, OrderInv
<1>3. ASSUME NEW q \in OpenRows(R), R[q].side = "entry", NEW p \in Oids \ {q}
      PROVE  R[p].filled = 0
  <2>1. q \in OpenRows(rows) /\ rows[q].side = "entry"
    BY <1>1, <1>3, OpenSide DEF OpenRows
  <2>2. Fresh(rows, trade, q)
    BY <2>1 DEF Alone
  <2>3. rows[p].filled = 0 /\ exch[p].filled = 0
    BY <2>1, <2>2, FreshOrders
  <2>4. QED
    BY <2>3
<1>4. Known(exch) /\ exch \in [Oids -> Amounts] /\ Net(exch, Oids) >= 0
  BY DEF AmountInv, Orderly, OrderInv, Position
<1>5. QED
  BY <1>2, <1>3, <1>4, SumNotNegative

LEMMA RowsNotNegative ==
    ASSUME OrderInv, AmountInv, Ledger, trade.status # "deleted", Alone(rows, trade)
    PROVE  Recalculated(rows) >= 0
BY MixNotNegative DEF OrderInv, AmountInv, Tabled, Ledger

LEMMA NextNotNegative ==
    ASSUME OrderInv', AmountInv', Ledger', trade'.status # "deleted", Alone(rows', trade')
    PROVE  Recalculated(rows') >= 0
<1>1. /\ exch' \in [Oids -> Amounts] /\ rows' \in [Oids -> Amounts]
      /\ Known(exch') /\ Below(exch', rows') /\ Kept(exch', rows')
      /\ Net(exch', Oids) >= 0 /\ AtMostOne(OpenRows(rows'))
  BY DEF OrderInv, AmountInv, Orderly, Tabled, Ledger, Position
<1>2. \A q \in OpenRows(rows') : rows'[q].side = "entry" => \A p \in Oids \ {q} : rows'[p].filled = 0
  BY DEF Alone, Fresh
<1>3. QED
  BY <1>1, <1>2, SumNotNegative

\* Recording an order leaves an open entry alone.
LEMMA RecordedAlone ==
    ASSUME OrderInv, AmountInv, Ledger, trade.status # "deleted", Alone(rows, trade),
           NEW o \in Oids, Forward(o), exch'[o].status # "none", Record(o, exch'[o])
    PROVE  Alone(rows', trade')
<1> DEFINE a == exch'[o]
<1>1. rows'[o] = a /\ (\A p \in Oids \ {o} : rows'[p] = rows[p]) /\ GoesTo(exch[o], a)
  BY RecordedLedger DEF Forward
<1>2. Empty(a) \/ a.status = "open" => trade' = trade
  BY DEF Record, Settled
<1>3. a \in Amounts /\ a.status # "none"
  BY DEF Forward
<1> HIDE DEF a
<1> SUFFICES ASSUME NEW q \in OpenRows(rows'), rows'[q].side = "entry"
             PROVE  Fresh(rows', trade', q)
  BY DEF Alone
<1>4. CASE q = o
  <2>1. a.status = "open" /\ a.side = "entry"
    BY <1>1, <1>4 DEF OpenRows
  <2>2. exch[o].status = "open" /\ exch[o].side = "entry"
    BY <1>1, <2>1 DEF GoesTo
  <2>3. o \in OpenRows(rows)
    BY <2>2 DEF OrderInv, Live
  <2>4. Fresh(rows, trade, o)
    BY <2>2, <2>3, OpenSide DEF Alone
  <2>5. QED
    BY <1>1, <1>2, <1>4, <2>1, <2>4 DEF Fresh
<1>5. CASE q # o
  <2>1. q \in OpenRows(rows) /\ rows[q].side = "entry"
    BY <1>1, <1>5 DEF OpenRows
  <2>2. Fresh(rows, trade, q)
    BY <2>1 DEF Alone
  <2>3. exch[o].filled = 0 /\ exch[o].status # "open"
    BY <2>1, <2>2, <1>5, FreshOrders
  <2>4. a.filled = 0 /\ a.status # "open"
    BY <1>1, <2>3 DEF GoesTo
  <2>5. Empty(a)
    BY <1>3, <2>4 DEF Empty, Ended, Amounts
  <2>6. QED
    BY <1>1, <1>2, <2>2, <2>4, <2>5 DEF Fresh
<1>6. QED
  BY <1>4, <1>5

\* A step of the exchange and of the tables leaves an open entry alone.
LEMMA AloneMove ==
    ASSUME OrderInv, AmountInv, Ledger, trade.status # "deleted" => Alone(rows, trade),
           NEW o \in Oids, Forward(o), TableMove(o), trade'.status # "deleted"
    PROVE  Alone(rows', trade')
<1>1. ~DeleteTrade
  BY DEF DeleteTrade, OrderInv, Trades
<1>2. CASE UntouchedTrade
  BY <1>2 DEF UntouchedTrade
<1>3. CASE trade.status \in {"open", "closed"} /\ exch'[o].status # "none" /\ Record(o, exch'[o])
  BY <1>3, RecordedAlone
<1>4. QED
  BY <1>1, <1>2, <1>3 DEF TableMove

\* It leaves an open trade what it has.
LEMMA HeldMove ==
    ASSUME ~Ioc, OrderInv, AmountInv, Ledger, Single, Held, OrderInv', AmountInv', Ledger',
           NEW o \in Oids, Forward(o), TableMove(o)
    PROVE  Held'
<1>1. CASE UntouchedTrade
  BY <1>1 DEF UntouchedTrade, Held, Funded, FilledEntries
<1>2. CASE DeleteTrade
  BY <1>2 DEF DeleteTrade, Held, Funded, OrderInv, Trades
<1>3. CASE /\ trade.status \in {"open", "closed"} /\ exch'[o].status # "none"
           /\ Record(o, exch'[o]) /\ trade'.status # "deleted"
  <2> DEFINE a == exch'[o]
             no == FALSE
  <2>1. /\ a \in Amounts /\ a.status # "none"
        /\ rows' = Recorded(rows, o, a) /\ trade' = Settled(trade, rows, o, a, no)
    BY <1>3 DEF Forward, Record
  <2>2. no \in BOOLEAN
    OBVIOUS
  <2>3. Alone(rows, trade) /\ Alone(rows', trade')
    BY <1>3, AloneMove DEF Single
  <2>4. Recalculated(rows) >= 0 /\ Recalculated(rows') >= 0
    BY <1>3, <2>3, RowsNotNegative, NextNotNegative
  <2>5. ~Ended(rows[o]) \/ rows[o] = a
    <3>1. Below(exch', rows)
      BY ForwardOrders
    <3>2. QED
      BY <3>1 DEF Below, Ended, NoOrder
  <2>6. /\ rows \in [Oids -> Amounts] /\ trade \in Trades
        /\ Summed(rows, trade) /\ Funded(rows, trade)
    BY <1>3 DEF OrderInv, Ledger, Held
  <2> HIDE DEF a, no
  <2>7. Funded(rows', trade')
    BY <2>1, <2>2, <2>4, <2>5, <2>6, SettledFunded
  <2>8. QED
    BY <2>7 DEF Held
<1>4. CASE trade'.status = "deleted"
  BY <1>4 DEF Held, Funded
<1>5. QED
  BY <1>1, <1>2, <1>3, <1>4 DEF TableMove

\* The entry of a trade that has bought nothing.
LEMMA EntryPlacedHeld ==
    ASSUME ~Ioc, OrderInv, AmountInv, Ledger, trade.status # "deleted",
           OrderInv', AmountInv', Ledger', OpenRows(rows) = {}, Fresh(rows, trade, 0),
           NEW a, Acceptable(a), a.side = "entry", Placed(a), EntryPlaced(a)
    PROVE  Alone(rows', trade') /\ Held'
<1> DEFINE t == [trade EXCEPT !.status = "open"]
           opened == Recalc(t, rows)
           no == FALSE
           k == NextId
<1>1. /\ k \in Oids /\ exch[k] = NoOrder /\ a \in Amounts /\ a.status # "none"
  BY PlacedOrders DEF Acceptable
<1>2. /\ rows \in [Oids -> Amounts] /\ trade.amount = 0 /\ (\A p \in Oids : rows[p].filled = 0)
      /\ t \in Trades /\ t.status = "open" /\ t.amount = 0
  <2>1. rows \in [Oids -> Amounts] /\ trade \in Trades /\ trade.amount = 0
    BY DEF OrderInv, Fresh
  <2>2. 0 \notin Oids
    BY OrdersAssumption DEF Oids
  <2>3. \A p \in Oids : rows[p].filled = 0
    BY <2>2 DEF Fresh
  <2>4. t \in Trades /\ t.status = "open" /\ t.amount = trade.amount
    BY <2>1 DEF Trades
  <2>5. QED
    BY <2>1, <2>3, <2>4
<1>3. rows' = Recorded(rows, k, a) /\ trade' = Settled(opened, rows, k, a, no)
  BY DEF EntryPlaced
<1>4. Recalculated(rows) = 0
  <2> DEFINE D == {o \in Oids : Ended(rows[o])}
  <2>1. \A n \in Oids : Term(rows, D, n) = 0
    BY <1>2, NothingFilled DEF Term
  <2> HIDE DEF D
  <2>2. Net(rows, D) = 0
    BY <1>2, <2>1, NetNothing
  <2>3. QED
    BY <2>2 DEF Recalculated, D
<1>5. opened = t
  BY <1>4 DEF Recalc
<1>6. FilledEntries(rows) = {}
  BY <1>2 DEF FilledEntries
<1>7. Summed(rows, opened) /\ Funded(rows, opened) /\ opened \in Trades
  <2> HIDE DEF t, opened
  <2>1. QED
    BY <1>2, <1>4, <1>5, <1>6 DEF Summed, Funded
<1>8. rows'[k] = a /\ \A p \in Oids \ {k} : rows'[p] = rows[p]
  BY <1>1, <1>2, <1>3, RecordedType
<1>9. no \in BOOLEAN /\ ~Ended(rows[k])
  <2>1. Below(exch, rows)
    BY DEF AmountInv, Tabled
  <2>2. QED
    BY <1>1, <2>1 DEF Below, Ended, NoOrder
<1>10. opened.amount = 0 /\ (a.status = "open" => trade' = opened)
  BY <1>2, <1>3, <1>5 DEF Settled
<1> HIDE DEF t, opened, no, k
<1>11. Alone(rows', trade')
  <2> SUFFICES ASSUME NEW q \in OpenRows(rows') PROVE Fresh(rows', trade', q)
    BY DEF Alone
  <2>1. q = k /\ a.status = "open"
    BY <1>8 DEF OpenRows
  <2>2. QED
    BY <2>1, <1>2, <1>8, <1>10 DEF Fresh
<1>12. trade'.status = "open"
  BY EntryPlacedLedger
<1>13. Recalculated(rows') >= 0
  BY <1>11, <1>12, NextNotNegative
<1>14. Funded(rows', trade')
  BY <1>1, <1>2, <1>3, <1>4, <1>7, <1>9, <1>13, SettledFunded
<1>15. QED
  BY <1>11, <1>14 DEF Held

\* Placing an order.
LEMMA PlaceHeld ==
    ASSUME ~Ioc, OrderInv, AmountInv, Ledger, Single, Held, OrderInv', AmountInv', Ledger',
           EnterTrade \/ PlaceEntry \/ PlaceExit
    PROVE  (trade'.status # "deleted" => Alone(rows', trade')) /\ Held'
<1>1. ASSUME UntouchedTrade
      PROVE  (trade'.status # "deleted" => Alone(rows', trade')) /\ Held'
  BY <1>1 DEF UntouchedTrade, Single, Held, Funded, FilledEntries
<1>2. CASE EnterTrade
  <2>1. trade.status = "none" /\ rows = NoRows /\ trade.amount = 0
    BY <1>2 DEF EnterTrade, OrderInv, AmountInv, Tabled
  <2>2. OpenRows(rows) = {} /\ Fresh(rows, trade, 0)
    BY <2>1 DEF OpenRows, Fresh, NoRows, NoOrder
  <2>3. PICK a : /\ Acceptable(a) /\ a.side = "entry" /\ Placed(a)
                 /\ IF Empty(a) THEN UntouchedTrade ELSE EntryPlaced(a)
    BY <1>2, EnterTradeOrder
  <2>4. QED
    BY <1>1, <2>1, <2>2, <2>3, EntryPlacedHeld
<1>3. CASE PlaceEntry
  <2>1. trade.status \in {"open", "closed"} /\ task.why = "reenter"
    BY <1>3, MayPlaceFacts DEF PlaceEntry, Single
  <2>2. OpenRows(rows) = {} /\ Fresh(rows, trade, 0)
    BY <2>1 DEF Single
  <2>3. PICK a : /\ Acceptable(a) /\ a.side = "entry" /\ Placed(a)
                 /\ \/ EntryPlaced(a)
                    \/ Empty(a) /\ UntouchedTrade
                    \/ Empty(a) /\ DeleteTrade /\ FilledEntries(rows) = {}
    BY <1>3, PlaceEntryOrder
  <2>4. DeleteTrade => trade'.status = "deleted"
    BY DEF DeleteTrade, OrderInv, Trades
  <2>5. trade'.status = "deleted" => Held'
    BY DEF Held, Funded
  <2>6. QED
    BY <1>1, <2>1, <2>2, <2>3, <2>4, <2>5, EntryPlacedHeld
<1>4. CASE PlaceExit
  <2> DEFINE no == FALSE
             k == NextId
  <2>1. trade.status \in {"open", "closed"} /\ OpenRows(rows) = {}
    BY <1>4, MayPlaceFacts DEF PlaceExit
  <2>2. no = FALSE
    OBVIOUS
  <2> HIDE DEF no
  <2>3. PICK a : /\ Acceptable(a) /\ a.side = "exit" /\ Placed(a)
                 /\ rows' = Recorded(rows, k, a)
                 /\ \/ trade' = Settled(trade, rows, k, a, no)
                    \/ Ioc /\ UNCHANGED trade
    BY <1>4, <2>2, PlaceExitOrder
  <2>4. k \in Oids /\ exch[k] = NoOrder /\ a \in Amounts /\ a.status # "none"
    BY <2>3, PlacedOrders DEF Acceptable
  <2>5. rows \in [Oids -> Amounts] /\ trade \in Trades
    BY DEF OrderInv
  <2>6. trade' = Settled(trade, rows, k, a, no) /\ no \in BOOLEAN
    BY <2>2, <2>3
  <2>7. ~Ended(rows[k])
    <3>1. Below(exch, rows)
      BY DEF AmountInv, Tabled
    <3>2. QED
      BY <2>4, <3>1 DEF Below, Ended, NoOrder
  <2> HIDE DEF k
  <2>8. rows'[k] = a /\ \A p \in Oids \ {k} : rows'[p] = rows[p]
    BY <2>3, <2>4, <2>5, RecordedType
  <2>9. Alone(rows', trade')
    BY <2>1, <2>3, <2>8 DEF Alone, OpenRows
  <2>10. trade'.status # "deleted"
    BY <2>1, <2>4, <2>5, <2>6, SettledType
  <2>11. Recalculated(rows') >= 0
    BY <2>9, <2>10, NextNotNegative
  <2>12. Recalculated(rows) >= 0 /\ Summed(rows, trade) /\ Funded(rows, trade)
    BY <2>1, RowsNotNegative DEF Single, Ledger, Held
  <2>13. rows' = Recorded(rows, k, a)
    BY <2>3
  <2>14. Funded(rows', trade')
    BY <2>4, <2>5, <2>6, <2>7, <2>11, <2>12, <2>13, SettledFunded
  <2>15. QED
    BY <2>9, <2>14 DEF Held
<1>5. QED
  BY <1>2, <1>3, <1>4

\* The walk of handle_onexchange_order.
LEMMA WalkedAlone ==
    ASSUME OrderInv, AmountInv, Ledger, trade.status # "deleted", Alone(rows, trade)
    PROVE  Alone(Walked.rows, Walked.trade)
<1>1. /\ exch \in [Oids -> Amounts] /\ rows \in [Oids -> Amounts] /\ trade \in Trades
  BY DEF OrderInv
<1>2. \A o \in Oids : Walked.rows[o] = IF exch[o].status = "none" THEN rows[o] ELSE exch[o]
  BY <1>1, WalkedTables
<1> SUFFICES ASSUME NEW q \in OpenRows(Walked.rows), Walked.rows[q].side = "entry"
             PROVE  Fresh(Walked.rows, Walked.trade, q)
  BY DEF Alone
<1>3. q \in OpenRows(rows) /\ rows[q].side = "entry"
  <2>1. q \in Oids /\ Walked.rows[q].status = "open"
    BY DEF OpenRows
  <2>2. q \in OpenRows(rows)
    BY <1>2, <2>1 DEF OpenRows, OrderInv, Live
  <2>3. QED
    BY <1>2, <2>1, <2>2, OpenSide
<1>4. Fresh(rows, trade, q)
  BY <1>3 DEF Alone
<1>5. \A p \in Oids \ {q} : rows[p].filled = 0 /\ exch[p].filled = 0 /\ exch[p].status # "open"
  BY <1>3, <1>4, FreshOrders
<1>6. Walked.trade = trade
  <2> DEFINE S == {w \in Tables : w.trade = trade}
             w0 == [rows |-> rows, trade |-> trade]
  <2>1. S \in SUBSET Tables /\ w0 \in S
    BY <1>1 DEF Tables
  <2>2. ASSUME NEW n \in Oids, NEW w \in Tables, w.trade = trade, exch[n].status # "none"
        PROVE  WalkStep(n, w) \in Tables /\ WalkStep(n, w).trade = trade
    <3> DEFINE R == Recorded(w.rows, n, exch[n])
               s == Settled(w.trade, w.rows, n, exch[n], Recalculating)
    <3>1. /\ R = Recorded(w.rows, n, exch[n])
          /\ s = Settled(w.trade, w.rows, n, exch[n], Recalculating)
      OBVIOUS
    <3> HIDE DEF R, s
    <3>2. WalkStep(n, w) = [rows |-> R, trade |-> s] /\ WalkStep(n, w) \in Tables
          /\ exch[n] \in Amounts
      BY <2>2, <3>1, WalkStepPlaced
    <3>3. exch[n].status = "open" \/ Empty(exch[n])
      <4>1. CASE n = q
        <5>1. exch[q].status = "open"
          BY <1>2, <2>2, <4>1 DEF OpenRows
        <5>2. QED
          BY <4>1, <5>1
      <4>2. CASE n # q
        BY <1>5, <2>2, <3>2, <4>2 DEF Empty, Ended, Amounts
      <4>3. QED
        BY <4>1, <4>2
    <3>4. s = w.trade
      BY <3>1, <3>3 DEF Settled
    <3>5. QED
      BY <2>2, <3>2, <3>4
  <2>3. \A n \in Oids : \A w \in S : exch[n].status # "none" => WalkStep(n, w) \in S
    BY <2>2
  <2>4. Walked \in S
    <3> HIDE DEF S
    <3>1. QED
      BY <2>1, <2>3, WalkedKeeps
  <2>5. QED
    BY <2>4
<1>7. \A p \in Oids \ {q} : Walked.rows[p].filled = 0
  BY <1>2, <1>5
<1>8. QED
  BY <1>4, <1>6, <1>7 DEF Fresh

LEMMA WalkedFunded ==
    ASSUME ~Ioc, OrderInv, AmountInv, Ledger, trade.status # "deleted", Alone(rows, trade), Held
    PROVE  Funded(Walked.rows, Walked.trade)
<1> DEFINE Fine(w) == /\ Below(exch, w.rows) /\ Kept(exch, w.rows)
                      /\ Summed(w.rows, w.trade) /\ Funded(w.rows, w.trade)
                      /\ \A p \in Oids : w.rows[p] = rows[p] \/ w.rows[p] = exch[p]
           S == {w \in Tables : Fine(w)}
           w0 == [rows |-> rows, trade |-> trade]
<1>1. /\ exch \in [Oids -> Amounts] /\ rows \in [Oids -> Amounts] /\ trade \in Trades
  BY DEF OrderInv
<1>2. w0 \in Tables /\ Fine(w0)
  BY <1>1 DEF AmountInv, Tabled, Tables, Ledger, Held
<1>3. ASSUME NEW n \in Oids, NEW w \in Tables, Fine(w), exch[n].status # "none"
      PROVE  WalkStep(n, w) \in Tables /\ Fine(WalkStep(n, w))
  <2> DEFINE R == Recorded(w.rows, n, exch[n])
             s == Settled(w.trade, w.rows, n, exch[n], Recalculating)
  <2>1. /\ R = Recorded(w.rows, n, exch[n])
        /\ s = Settled(w.trade, w.rows, n, exch[n], Recalculating)
    OBVIOUS
  <2> HIDE DEF R, s
  <2>2. /\ WalkStep(n, w) = [rows |-> R, trade |-> s] /\ WalkStep(n, w) \in Tables
        /\ w.rows \in [Oids -> Amounts] /\ w.trade \in Trades /\ exch[n] \in Amounts
        /\ R[n] = exch[n] /\ \A p \in Oids \ {n} : R[p] = w.rows[p]
    BY <1>3, <2>1, WalkStepPlaced
  <2>3. ~Ended(w.rows[n]) \/ w.rows[n] = exch[n]
    BY <1>3 DEF Below, Ended, NoOrder
  <2>4. Summed(R, s)
    BY <1>3, <2>1, <2>2, <2>3, SettledSums
  <2>5. Below(exch, R) /\ Kept(exch, R) /\ R \in [Oids -> Amounts]
    <3>1. R \in [Oids -> Amounts]
      BY <2>1, <2>2, RecordedType
    <3>2. QED
      BY <1>3, <2>2, <3>1 DEF Below, Kept, NoOrder
  <2>6. \A p \in Oids : R[p] = rows[p] \/ R[p] = exch[p]
    BY <1>3, <2>2
  <2>7. Recalculated(R) >= 0 /\ Recalculated(w.rows) >= 0
    BY <1>3, <2>2, <2>5, <2>6, MixNotNegative
  <2>8. Funded(R, s)
    <3>1. Recalculating \in BOOLEAN
      BY DEF Recalculating
    <3>2. QED
      BY <1>3, <2>1, <2>2, <2>3, <2>7, <3>1, SettledFunded
  <2>9. QED
    BY <2>2, <2>4, <2>5, <2>6, <2>8
<1> HIDE DEF Fine
<1>4. Walked \in S
  <2>1. S \in SUBSET Tables /\ w0 \in S
    BY <1>2
  <2>2. \A n \in Oids : \A w \in S : exch[n].status # "none" => WalkStep(n, w) \in S
    BY <1>3
  <2> HIDE DEF S
  <2>3. QED
    BY <2>1, <2>2, WalkedKeeps
<1>5. Fine(Walked)
  BY <1>4
<1>6. QED
  BY <1>5 DEF Fine

\* A handler that has cancelled an entry to place it anew has bought nothing.
LEMMA ReenterStep ==
    ASSUME OrderInv, AmountInv, Ledger, Aimed, Single, [Next]_vars,
           task'.why = "reenter", trade'.status # "deleted"
    PROVE  OpenRows(rows') = {} /\ Fresh(rows', trade', 0)
<1> DEFINE o == First(task.todo)
<1>1. task' # Idle
  BY DEF Idle
<1>2. CASE task.why = "replace" /\ CancelRequest
  <2> DEFINE a == exch'[o]
  <2>1. /\ o \in Oids /\ task.todo = {o} /\ task \in Tasks /\ Loop = Idle
        /\ trade.status \in {"open", "closed"} /\ exch'[o].status # "none" /\ Forward(o)
    BY <1>2, HandlerMoves
  <2>2. /\ o \in OpenRows(rows) /\ OpenRows(rows) = {o}
    BY <2>1 DEF Aimed, OrderInv, AtMostOne
  <2>3. ASSUME NEW gone PROVE ~GoOn(gone)
    BY <1>1, <1>2, <2>1 DEF GoOn
  <2>4. \A why, n : task' = ThenExit(why, n) => why = "reenter"
    BY DEF ThenExit, Idle
  <2>5. a.side = "entry" /\ Ended(a) /\ EntryEnded(o, a) /\ a.filled = 0
    <3>1. \/ a.side = "entry" /\ Ended(a) /\ CancelEntry(o, a)
          \/ CancelExit(o, a)
      BY <1>1, <1>2, <2>3 DEF CancelRequest, KeepEntry
    <3>2. ~CancelExit(o, a)
      BY <1>2, <2>3, <2>4 DEF CancelExit
    <3>3. QED
      BY <3>1, <3>2, <2>3 DEF CancelEntry
  <2>6. Record(o, a)
    BY <1>2, <2>5 DEF EntryEnded, Replacing
  <2>7. rows'[o] = a /\ \A p \in Oids \ {o} : rows'[p] = rows[p]
    BY <2>1, <2>6, RecordedLedger
  <2>8. trade' = trade
    BY <2>5, <2>6 DEF Record, Settled, Empty
  <2>9. Fresh(rows, trade, o)
    <3>1. exch[o].side = "entry"
      BY <2>1, <2>5 DEF Forward, GoesTo
    <3>2. QED
      BY <2>1, <2>2, <3>1, OpenSide DEF Single, Alone
  <2>10. OpenRows(rows') = {}
    BY <2>2, <2>5, <2>7 DEF OpenRows, Ended
  <2>11. QED
    BY <2>5, <2>7, <2>8, <2>9, <2>10 DEF Fresh
<1>3. CASE task.why = "reenter"
  <2>1. task # Idle
    BY <1>3 DEF Idle
  <2>2. ~(ManageFetch \/ ClearFetch \/ CancelRequest \/ StartupFetch)
    <3> SUFFICES ASSUME ManageFetch \/ ClearFetch \/ CancelRequest \/ StartupFetch PROVE FALSE
      OBVIOUS
    <3>1. task.todo = {o} /\ trade.status \in {"open", "closed"}
      BY HandlerMoves
    <3>2. OpenRows(rows) = {}
      BY <1>3, <3>1 DEF Single
    <3>3. QED
      BY <3>1, <3>2 DEF Aimed
  <2>3. ~(Manage \/ ExitTrade \/ AdjustTrade \/ ForceExit \/ CancelOpenOrder \/ EnterTrade)
    BY <2>1 DEF Manage, ExitTrade, AdjustTrade, ForceExit, CancelOpenOrder, Clear, EnterTrade
  <2>4. ~(RecoverTrade \/ ReloadTrade)
    BY <2>1 DEF RecoverTrade, ReloadTrade
  <2>5. ~(GiveUp \/ Refused \/ PlaceEntry \/ PlaceExit)
    BY <1>1 DEF GiveUp, Refused, PlaceEntry, PlaceExit
  <2>6. ~Restart
    <3>1. Restart => task'.why = "none"
      BY DEF Restart, Idle
    <3>2. QED
      BY <3>1
  <2>7. Exchange \/ UNCHANGED vars
    BY <2>2, <2>3, <2>4, <2>5, <2>6 DEF Next, Handlers
  <2>8. rows' = rows /\ trade' = trade
    BY <2>7 DEF Exchange, Fill, CancelledOnExchange, vars
  <2>9. QED
    BY <1>3, <2>8 DEF Single
<1>4. QED
  BY <1>2, <1>3, WhyStep

\* Every step keeps the one entry and the amount of the trade.
LEMMA HeldStep ==
    ASSUME ~PosAdjust, ~Ioc
    PROVE  OrderInv /\ AmountInv /\ Ledger /\ Aimed /\ Single /\ Held /\ [Next]_vars
             => (Aimed /\ Single /\ Held)'
<1> SUFFICES ASSUME OrderInv, AmountInv, Ledger, Aimed, Single, Held, [Next]_vars
             PROVE  Aimed' /\ Single' /\ Held'
  OBVIOUS
<1>1. OrderInv' /\ AmountInv' /\ Ledger' /\ Aimed'
  BY OrderInvStep, AmountInvStep, LedgerStep, AimedStep
<1>2. ASSUME NEW o \in Oids, Forward(o), TableMove(o)
      PROVE  (trade'.status # "deleted" => Alone(rows', trade')) /\ Held'
  <2>1. trade'.status # "deleted" => Alone(rows', trade')
    BY <1>2, AloneMove DEF Single
  <2>2. Held'
    BY <1>1, <1>2, HeldMove
  <2>3. QED
    BY <2>1, <2>2
<1>3. (trade'.status # "deleted" => Alone(rows', trade')) /\ Held'
  <2>1. CASE UNCHANGED vars
    BY <2>1 DEF vars, Single, Held, Funded, FilledEntries
  <2>2. CASE ManageFetch \/ ClearFetch \/ CancelRequest \/ StartupFetch
    BY <1>2, <2>2, HandlerMoves
  <2>3. CASE \/ Manage \/ ExitTrade \/ AdjustTrade \/ ForceExit \/ CancelOpenOrder \/ Restart
             \/ GiveUp \/ Refused
    BY <1>2, <2>3, RestMoves
  <2>4. CASE EnterTrade \/ PlaceEntry \/ PlaceExit
    BY <1>1, <2>4, PlaceHeld
  <2>5. CASE RecoverTrade \/ ReloadTrade
    <3>1. trade.status \in {"open", "closed"} /\ HandleOnExchangeOrder
      BY <2>5 DEF RecoverTrade, ReloadTrade
    <3>2. CASE DeleteTrade
      BY <3>2 DEF DeleteTrade, Held, Funded, OrderInv, Trades
    <3>3. CASE rows' = Walked.rows /\ trade' = Walked.trade
      BY <3>1, <3>3, WalkedAlone, WalkedFunded DEF Single, Held
    <3>4. QED
      BY <3>1, <3>2, <3>3 DEF HandleOnExchangeOrder
  <2>6. CASE Exchange
    <3>1. PICK o \in Oids : Fill(o) \/ CancelledOnExchange(o)
      BY <2>6 DEF Exchange
    <3>2. QED
      BY <1>2, <3>1, ExchangeMoves
  <2>7. QED
    BY <2>1, <2>2, <2>3, <2>4, <2>5, <2>6 DEF Next, Handlers
<1>4. task'.why # "add"
  BY WhyStep DEF Single
<1>5. task'.why = "reenter" /\ trade'.status # "deleted" => OpenRows(rows') = {} /\ Fresh(rows', trade', 0)
  BY ReenterStep
<1>6. QED
  BY <1>1, <1>3, <1>4, <1>5 DEF Single

\* Without position adjustment, and without IOC and FOK orders, has_open_position tells
\* the truth: a trade that is open, has no open order and has an amount holds a position,
\* whatever orders are replaced and trades reloaded.
THEOREM AmountMeansPosition == ASSUME ~PosAdjust, ~Ioc PROVE Spec => []HeldMeansHeld
<1>1. Init => Aimed /\ Single /\ Held
  BY DEF Init, Aimed, Single, Held, Funded, Alone, OpenRows, NoRows, NoOrder, Idle
<1>2. Init => OrderInv /\ AmountInv /\ Ledger
  BY OrderInvInit, AmountInvInit, LedgerInit
<1>3. OrderInv /\ AmountInv /\ Ledger /\ [Next]_vars => (OrderInv /\ AmountInv /\ Ledger)'
  BY OrderInvStep, AmountInvStep, LedgerStep
<1>4. OrderInv /\ AmountInv /\ Ledger /\ Held => HeldMeansHeld
  <2> SUFFICES ASSUME OrderInv, AmountInv, Ledger, Held, trade.status = "open",
                      OpenRows(rows) = {}, trade.amount > 0
               PROVE  Position > 0
    BY DEF HeldMeansHeld
  <2>1. Recalculated(rows) = Position
    BY SettledTables DEF Ledger, OrderInv, AmountInv, Orderly, Tabled, Position
  <2>2. Position \in Int /\ trade.amount \in Nat
    BY NetType DEF OrderInv, Position, Trades
  <2>3. QED
    BY <2>1, <2>2 DEF Held, Funded
<1>5. QED
  BY <1>1, <1>2, <1>3, <1>4, HeldStep, PTL DEF Spec
=============================================================================
