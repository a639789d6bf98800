-------------------------- MODULE StopLossProofs --------------------------
(***************************************************************************)
(* Proofs about StopLoss, for every number of orders and faults, every     *)
(* amount and every highest stop.                                          *)
(*                                                                         *)
(* StopInv is the invariant behind StopsAccounted: the live stops that a   *)
(* handler does not have on its lists are at most as many as the faults.   *)
(* An action is one of a few kinds of steps: the exchange goes on and      *)
(* nothing is recorded (UntouchedKeeps), an answer is recorded             *)
(* (UpdateKeeps), a handler goes from step to step (StepKeeps), or the     *)
(* session is rolled back (RollbackKeeps); a lemma ...Good per action says *)
(* which.                                                                  *)
(*                                                                         *)
(* Clean is what holds on top of it as long as no fault has happened: the  *)
(* rows are the orders as the exchange has them, the amount of the trade   *)
(* is their sum, and every live stop covers the trade or is about to be    *)
(* cancelled.  Again a lemma ...Clean per action, from UntouchedClean,     *)
(* UpdateClean, StayClean and PlacedClean.                                 *)
(*                                                                         *)
(* Sums over the orders and the trade that recovery books again are        *)
(* recursive functions; what is known of them comes by induction on the    *)
(* number of the order, with a least counterexample.                       *)
(***************************************************************************)
EXTENDS StopLoss, FiniteSetTheorems, WellFoundedInduction, TLAPS

---------------------------------------------------------------------------
(* Induction and recursion up to a number.                                 *)

\* A set of natural numbers has a least element.
LEMMA LeastElement ==
    ASSUME NEW T \in SUBSET Nat, T # {}
    PROVE  \E x \in T : \A y \in T : x <= y
<1> DEFINE Less == OpToRel(<, Nat)
<1>1. PICK x \in T : \A y \in T : ~(<<y, x>> \in Less)
  <2>1. IsWellFoundedOn(Less, Nat)
    BY NatLessThanWellFounded
  <2> HIDE DEF Less
  <2>2. QED
    BY <2>1, WFMin
<1>2. \A m, n \in Nat : m < n => <<m, n>> \in Less
  BY DEF OpToRel
<1> HIDE DEF Less
<1>3. ASSUME NEW y \in T PROVE x <= y
  <2>1. x \in Nat /\ y \in Nat /\ ~(y < x)
    BY <1>1, <1>2
  <2>2. QED
    BY <2>1
<1>4. QED
  BY <1>1, <1>3

\* A set that has 0, and n whenever it has n - 1, has every number up to N.
LEMMA Induction ==
    ASSUME NEW N \in Nat, NEW T \in SUBSET (0..N), 0 \in T,
           \A n \in 1..N : n - 1 \in T => n \in T
    PROVE  T = 0..N
<1> DEFINE Rest == (0..N) \ T
<1> SUFFICES ASSUME Rest # {} PROVE FALSE
  OBVIOUS
<1>1. PICK n \in Rest : \A y \in Rest : n <= y
  <2>1. Rest \in SUBSET Nat
    OBVIOUS
  <2> HIDE DEF Rest
  <2>2. QED
    BY <2>1, LeastElement
<1>2. n \in 1..N
  BY <1>1
<1>3. n - 1 \in T
  BY <1>1, <1>2
<1>4. QED
  BY <1>1, <1>2, <1>3

\* A function that starts with init and goes on by the steps F exists.
Runs(N, V, init, F) ==
    \E g \in [0..N -> V] : g[0] = init /\ \A m \in 1..N : g[m] = F[m][g[m - 1]]

\* The function that starts with init and goes on by F exists.
LEMMA Recursion ==
    ASSUME NEW N \in Nat, NEW V, NEW init \in V, NEW F \in [1..N -> [V -> V]]
    PROVE  Runs(N, V, init, F)
<1> DEFINE Reaches(n) == \E g \in [0..n -> V] :
                            g[0] = init /\ \A m \in 1..n : g[m] = F[m][g[m - 1]]
           T == {n \in 0..N : Reaches(n)}
<1>1. 0 \in T
  <2> DEFINE k == [m \in 0..0 |-> init]
  <2>1. k \in [0..0 -> V] /\ k[0] = init /\ 1..0 = {}
    OBVIOUS
  <2>2. Reaches(0)
    <3> HIDE DEF k
    <3>1. QED
      BY <2>1
  <2>3. QED
    BY <2>2
<1>2. ASSUME NEW n \in 1..N, n - 1 \in T
      PROVE  n \in T
  <2>1. PICK g \in [0..(n - 1) -> V] :
           g[0] = init /\ \A m \in 1..(n - 1) : g[m] = F[m][g[m - 1]]
    BY <1>2
  <2> DEFINE k == [m \in 0..n |-> IF m = n THEN F[n][g[n - 1]] ELSE g[m]]
  <2>2. k \in [0..n -> V]
    BY <2>1
  <2>3. k[0] = init
    BY <2>1
  <2>4. ASSUME NEW m \in 1..n
        PROVE  k[m] = F[m][k[m - 1]]
    BY <2>1
  <2>5. Reaches(n)
    <3> HIDE DEF k
    <3>1. QED
      BY <2>2, <2>3, <2>4
  <2>6. QED
    BY <2>5
<1>3. T = 0..N
  <2>1. T \in SUBSET (0..N)
    OBVIOUS
  <2> HIDE DEF T
  <2>2. QED
    BY <2>1, <1>1, <1>2, Induction
<1>4. QED
  BY <1>3 DEF Runs

---------------------------------------------------------------------------
(* Sums over the orders.                                                   *)

OrderRecords == [kind : {"none", "entry", "exit", "stop"},
                 status : {"none", "open", "closed", "canceled"},
                 amount : Nat, filled : Nat, stop : Nat]
Tables == [Oids -> OrderRecords]
EndedRows(R) == {o \in Oids : Ended(R[o])}

\* What order n adds to Sum(R, S).
Term(R, S, n) == IF n \notin S THEN 0
                 ELSE IF R[n].kind = "entry" THEN R[n].filled ELSE -R[n].filled

\* Sum is the last of the partial sums.
LEMMA SumSteps ==
    ASSUME NEW R \in Tables, NEW S
    PROVE  \E s \in [0..MaxOrders -> Int] :
              /\ s[0] = 0 /\ Sum(R, S) = s[MaxOrders]
              /\ \A n \in Oids : s[n] = s[n - 1] + Term(R, S, n)
<1> MaxOrders \in Nat
  BY StopAssumption
<1> DEFINE F == [n \in 1..MaxOrders |-> [v \in Int |-> v + Term(R, S, n)]]
           P(g) == g = [n \in 0..MaxOrders |->
                          IF n = 0 THEN 0
                          ELSE g[n - 1] + (IF n \notin S THEN 0
                                           ELSE IF R[n].kind = "entry" THEN R[n].filled
                                           ELSE -R[n].filled)]
<1>1. \A n \in Oids : Term(R, S, n) \in Int
  BY DEF Term, Tables, OrderRecords
<1>2. PICK g \in [0..MaxOrders -> Int] :
         g[0] = 0 /\ \A n \in 1..MaxOrders : g[n] = F[n][g[n - 1]]
  <2>1. F \in [1..MaxOrders -> [Int -> Int]]
    BY <1>1 DEF Oids
  <2> HIDE DEF F
  <2>2. Runs(MaxOrders, Int, 0, F)
    BY <2>1, 0 \in Int, MaxOrders \in Nat, Recursion
  <2>3. QED
    BY <2>2 DEF Runs
<1>3. \E f : P(f)
  <2>1. \A n \in 0..MaxOrders : n # 0 =>
           g[n] = g[n - 1] + Term(R, S, n)
    <3> SUFFICES ASSUME NEW n \in 0..MaxOrders, n # 0
                 PROVE  g[n] = g[n - 1] + Term(R, S, n)
      BY DEF Term
    <3>1. n \in 1..MaxOrders /\ g[n - 1] \in Int
      OBVIOUS
    <3>2. QED
      BY <3>1, <1>2
  <2>2. g = [n \in 0..MaxOrders |-> g[n]]
    OBVIOUS
  <2>3. P(g)
    BY <2>1, <2>2, <1>2 DEF Term
  <2>4. QED
    BY <2>3
<1> DEFINE s == CHOOSE f : P(f)
<1>4. P(s)
  BY <1>3
<1>5. Sum(R, S) = s[MaxOrders]
  BY DEF Sum
<1> HIDE DEF s
<1>6. s[0] = 0 /\ \A n \in Oids : s[n] = s[n - 1] + Term(R, S, n)
  BY <1>4 DEF Oids, Term
<1> DEFINE U == {n \in 0..MaxOrders : s[n] \in Int}
<1>7. U = 0..MaxOrders
  <2>1. 0 \in U /\ U \in SUBSET (0..MaxOrders)
    BY <1>6
  <2>2. ASSUME NEW n \in 1..MaxOrders, n - 1 \in U PROVE n \in U
    BY <2>2, <1>1, <1>6 DEF Oids
  <2> HIDE DEF U
  <2>3. QED
    BY <2>1, <2>2, Induction
<1>8. s \in [0..MaxOrders -> Int]
  BY <1>4, <1>7
<1>9. QED
  BY <1>5, <1>6, <1>8

\* The sum is a number.
LEMMA SumType ==
    ASSUME NEW R \in Tables, NEW S
    PROVE  Sum(R, S) \in Int
BY SumSteps, StopAssumption

\* Two tables that differ in one order differ by it.
LEMMA SumDiffers ==
    ASSUME NEW R \in Tables, NEW S, NEW Q \in Tables, NEW U,
           NEW k \in Oids, \A n \in Oids \ {k} : Term(R, S, n) = Term(Q, U, n)
    PROVE  Sum(R, S) - Sum(Q, U) = Term(R, S, k) - Term(Q, U, k)
<1> MaxOrders \in Nat
  BY StopAssumption
<1>1. PICK r \in [0..MaxOrders -> Int] :
         /\ r[0] = 0 /\ Sum(R, S) = r[MaxOrders]
         /\ \A n \in Oids : r[n] = r[n - 1] + Term(R, S, n)
  BY SumSteps
<1>2. PICK q \in [0..MaxOrders -> Int] :
         /\ q[0] = 0 /\ Sum(Q, U) = q[MaxOrders]
         /\ \A n \in Oids : q[n] = q[n - 1] + Term(Q, U, n)
  BY SumSteps
<1>3. \A n \in Oids : Term(R, S, n) \in Int /\ Term(Q, U, n) \in Int
  BY DEF Term, Tables, OrderRecords
<1> DEFINE T == {n \in 0..MaxOrders :
                    r[n] - q[n] = IF n < k THEN 0 ELSE Term(R, S, k) - Term(Q, U, k)}
<1>4. T = 0..MaxOrders
  <2>1. 0 \in T /\ T \in SUBSET (0..MaxOrders)
    BY <1>1, <1>2 DEF Oids
  <2>2. ASSUME NEW n \in 1..MaxOrders, n - 1 \in T PROVE n \in T
    <3>1. n \in Oids /\ n - 1 \in 0..MaxOrders /\ k \in Int
      BY DEF Oids
    <3>2. r[n] = r[n - 1] + Term(R, S, n) /\ q[n] = q[n - 1] + Term(Q, U, n)
      BY <3>1, <1>1, <1>2
    <3>3. r[n - 1] - q[n - 1] = IF n - 1 < k THEN 0 ELSE Term(R, S, k) - Term(Q, U, k)
      BY <2>2
    <3>4. r[n - 1] \in Int /\ q[n - 1] \in Int
      BY <3>1
    <3>5. r[n] - q[n] = IF n < k THEN 0 ELSE Term(R, S, k) - Term(Q, U, k)
      <4>1. CASE n = k
        BY <3>1, <3>2, <3>3, <3>4, <4>1, <1>3
      <4>2. CASE n # k
        <5>1. Term(R, S, n) = Term(Q, U, n)
          BY <3>1, <4>2
        <5>2. Term(R, S, n) \in Int /\ Term(R, S, k) \in Int /\ Term(Q, U, k) \in Int
          BY <3>1, <1>3
        <5>3. n - 1 < k <=> n < k
          BY <3>1, <4>2
        <5>4. QED
          BY <3>2, <3>3, <3>4, <5>1, <5>2, <5>3
      <4>3. QED
        BY <4>1, <4>2
    <3>6. QED
      BY <3>5
  <2> HIDE DEF T
  <2>3. QED
    BY <2>1, <2>2, Induction
<1>5. r[MaxOrders] - q[MaxOrders] = Term(R, S, k) - Term(Q, U, k)
  <2>1. \A n \in 0..MaxOrders :
            r[n] - q[n] = IF n < k THEN 0 ELSE Term(R, S, k) - Term(Q, U, k)
    BY <1>4
  <2>2. MaxOrders \in 0..MaxOrders /\ ~(MaxOrders < k)
    BY DEF Oids
  <2>3. QED
    BY <2>1, <2>2
<1>6. QED
  BY <1>1, <1>2, <1>5


\* Two tables whose terms are the same add up to the same.
LEMMA SumSame ==
    ASSUME NEW R \in Tables, NEW S, NEW Q \in Tables, NEW U,
           \A n \in Oids : Term(R, S, n) = Term(Q, U, n)
    PROVE  Sum(R, S) = Sum(Q, U)
<1>1. 1 \in Oids
  BY StopAssumption DEF Oids
<1>2. \A n \in Oids : Term(R, S, n) \in Int
  BY DEF Term, Tables, OrderRecords
<1>3. Sum(R, S) - Sum(Q, U) = Term(R, S, 1) - Term(Q, U, 1)
  BY <1>1, SumDiffers
<1>4. QED
  BY <1>1, <1>2, <1>3, SumType

\* Two inequalities add up.
LEMMA AddBelow ==
    ASSUME NEW a \in Int, NEW b \in Int, NEW c \in Int, NEW x \in Int, NEW y \in Int, NEW z \in Int,
           a <= b + c, x <= y + z
    PROVE  a + x <= (b + y) + (c + z)
OBVIOUS

\* A sum is bounded by two others if every term of it is.
LEMMA SumBelow ==
    ASSUME NEW R \in Tables, NEW S, NEW Q \in Tables, NEW U, NEW W \in Tables, NEW X,
           \A n \in Oids : Term(R, S, n) <= Term(Q, U, n) + Term(W, X, n)
    PROVE  Sum(R, S) <= Sum(Q, U) + Sum(W, X)
<1> MaxOrders \in Nat
  BY StopAssumption
<1>1. PICK r \in [0..MaxOrders -> Int] :
         /\ r[0] = 0 /\ Sum(R, S) = r[MaxOrders]
         /\ \A n \in Oids : r[n] = r[n - 1] + Term(R, S, n)
  BY SumSteps
<1>2. PICK q \in [0..MaxOrders -> Int] :
         /\ q[0] = 0 /\ Sum(Q, U) = q[MaxOrders]
         /\ \A n \in Oids : q[n] = q[n - 1] + Term(Q, U, n)
  BY SumSteps
<1>3. PICK w \in [0..MaxOrders -> Int] :
         /\ w[0] = 0 /\ Sum(W, X) = w[MaxOrders]
         /\ \A n \in Oids : w[n] = w[n - 1] + Term(W, X, n)
  BY SumSteps
<1>4. \A n \in Oids : Term(R, S, n) \in Int /\ Term(Q, U, n) \in Int /\ Term(W, X, n) \in Int
  BY DEF Term, Tables, OrderRecords
<1> DEFINE T == {n \in 0..MaxOrders : r[n] <= q[n] + w[n]}
<1>5. T = 0..MaxOrders
  <2>1. 0 \in T /\ T \in SUBSET (0..MaxOrders)
    BY <1>1, <1>2, <1>3
  <2>2. ASSUME NEW n \in 1..MaxOrders, n - 1 \in T PROVE n \in T
    <3>1. n \in Oids /\ n - 1 \in 0..MaxOrders /\ n \in 0..MaxOrders
      BY DEF Oids
    <3>2. /\ r[n] = r[n - 1] + Term(R, S, n) /\ q[n] = q[n - 1] + Term(Q, U, n)
          /\ w[n] = w[n - 1] + Term(W, X, n)
      BY <3>1, <1>1, <1>2, <1>3
    <3>3. r[n - 1] \in Int /\ q[n - 1] \in Int /\ w[n - 1] \in Int
      BY <3>1
    <3>4. r[n - 1] <= q[n - 1] + w[n - 1]
      BY <2>2
    <3>5. Term(R, S, n) \in Int /\ Term(Q, U, n) \in Int /\ Term(W, X, n) \in Int
          /\ Term(R, S, n) <= Term(Q, U, n) + Term(W, X, n)
      BY <3>1, <1>4
    <3>6. r[n] <= q[n] + w[n]
      <4>1. r[n - 1] + Term(R, S, n) <= (q[n - 1] + Term(Q, U, n)) + (w[n - 1] + Term(W, X, n))
        BY <3>3, <3>4, <3>5, AddBelow
      <4>2. QED
        BY <3>2, <4>1
    <3>7. QED
      BY <3>1, <3>6
  <2> HIDE DEF T
  <2>3. QED
    BY <2>1, <2>2, Induction
<1>6. r[MaxOrders] <= q[MaxOrders] + w[MaxOrders]
  <2>1. \A n \in 0..MaxOrders : r[n] <= q[n] + w[n]
    BY <1>5
  <2>2. QED
    BY <2>1
<1>7. QED
  BY <1>1, <1>2, <1>3, <1>6

---------------------------------------------------------------------------
(* The invariant behind StopsAccounted.                                    *)

\* What a handler is at, and its local variables.
Tasks == [step : Steps, walk : SUBSET Oids, todo : SUBSET Oids, then : Steps \ {"cancel"},
          found : SUBSET Oids, active : SUBSET Oids, size : {0, 1},
          up : {"idle", "trade", "others"}]

TradeRecords == [open : BOOLEAN, amount : Nat, stop : Nat, left : SUBSET Oids]

Types ==
    /\ blocks \in BOOLEAN /\ faults \in Nat
    /\ exch \in Tables /\ rows \in Tables /\ trade \in TradeRecords
    /\ saved \in [rows : Tables, trade : TradeRecords]
    /\ task \in Tasks

\* Ids are given out in order, and what is open has not filled.
Placing(E) ==
    /\ \A o, p \in Oids : p < o /\ E[o].status # "none" => E[p].status # "none"
    /\ \A o \in Oids : E[o].status = "open" => E[o].filled = 0
    /\ \A o \in Oids : E[o].status = "none" => E[o] = NoOrder

\* A loop over stops has stops to cancel, and they are open rows.
Working(t, R) ==
    /\ t.step = "cancel" => t.todo # {} /\ t.todo \subseteq OpenStops(R)
    /\ t.active \subseteq t.found

\* The live stops that no open row names.
Orphans(R) == LiveStops \ OpenStops(R)

Doing(t, step) == t.step = step \/ (t.step = "cancel" /\ t.then = step)

\* With L the live stops and n the faults: the handler that may create a stop has
\* the others on its lists.
Watched(t, L, n) ==
    /\ Doing(t, "check") => Cardinality(L \ (t.walk \cup t.active)) <= n
    /\ t.step = "create" => Cardinality(L) <= n
    /\ t.step = "cancel" /\ t.then = "create" => Cardinality(L \ t.todo) <= n

Counted ==
    /\ StopsAccounted
    /\ Cardinality(Orphans(rows)) <= faults
    /\ Cardinality(Orphans(saved.rows)) <= faults + 1

StopInv == Types /\ Placing(exch) /\ Working(task, rows) /\ Watched(task, LiveStops, faults) /\ Counted

\* There are finitely many ids.
LEMMA OidsFinite == IsFiniteSet(Oids) /\ Oids \subseteq Nat /\ MaxOrders \in Nat
<1>1. MaxOrders \in Int /\ 1 \in Int /\ MaxOrders \in Nat
  BY StopAssumption
<1>2. IsFiniteSet(1..MaxOrders)
  BY <1>1, FS_Interval
<1>3. QED
  BY <1>1, <1>2 DEF Oids

\* Counting sets of orders.
LEMMA Fewer ==
    ASSUME NEW A \in SUBSET Oids, NEW B \in SUBSET Oids, A \subseteq B
    PROVE  /\ Cardinality(A) \in Nat /\ Cardinality(B) \in Nat
           /\ Cardinality(A) <= Cardinality(B)
<1>1. IsFiniteSet(A) /\ IsFiniteSet(B)
  BY OidsFinite, FS_Subset
<1>2. QED
  BY <1>1, FS_Subset, FS_CardinalityType

\* A set with one order more.
LEMMA OneMore ==
    ASSUME NEW A \in SUBSET Oids, NEW B \in SUBSET Oids, NEW k \in Oids, A \subseteq B \cup {k}
    PROVE  /\ Cardinality(A) \in Nat /\ Cardinality(B) \in Nat
           /\ Cardinality(A) <= Cardinality(B) + 1
<1>1. IsFiniteSet(A) /\ IsFiniteSet(B)
  BY OidsFinite, FS_Subset
<1>2. /\ Cardinality(A) \in Nat /\ Cardinality(B) \in Nat
      /\ IsFiniteSet(B \cup {k}) /\ Cardinality(B \cup {k}) <= Cardinality(B) + 1
  BY <1>1, FS_CardinalityType, FS_AddElement
<1>3. Cardinality(A) <= Cardinality(B \cup {k}) /\ Cardinality(B \cup {k}) \in Nat
  BY <1>2, FS_Subset, FS_CardinalityType
<1>4. QED
  BY <1>2, <1>3

\* The first id that is not used.
LEMMA FirstFree ==
    ASSUME NEW N \in Nat, NEW S \in SUBSET (1..N), \A o \in S, p \in 1..N : p < o => p \in S
    PROVE  /\ Cardinality(S) + 1 \in Nat /\ Cardinality(S) + 1 \notin S
           /\ \A p \in 1..N : p < Cardinality(S) + 1 => p \in S
<1>1. IsFiniteSet(S) /\ Cardinality(S) \in Nat
  <2>1. IsFiniteSet(1..N)
    BY FS_Interval
  <2>2. QED
    BY <2>1, FS_Subset, FS_CardinalityType
<1> DEFINE k == Cardinality(S) + 1
<1>2. k \notin S
  <2> SUFFICES ASSUME k \in S PROVE FALSE
    OBVIOUS
  <2>1. 1..k \subseteq S
    BY <1>1
  <2>2. Cardinality(1..k) = k
    BY <1>1, FS_Interval
  <2>3. Cardinality(1..k) <= Cardinality(S)
    BY <2>1, <1>1, FS_Subset
  <2>4. QED
    BY <2>2, <2>3, <1>1
<1>3. ASSUME NEW p \in 1..N, p < k, p \notin S PROVE FALSE
  <2>1. S \subseteq 1..(p - 1)
    BY <1>3
  <2>2. IsFiniteSet(1..(p - 1)) /\ Cardinality(1..(p - 1)) = p - 1
    <3> DEFINE m == p - 1
    <3>1. m \in Nat /\ m \in Int /\ 1 \in Int /\ (m = 0 \/ 1 <= m) /\ m - 1 + 1 = m
      OBVIOUS
    <3> HIDE DEF m
    <3>2. IsFiniteSet(1..m) /\ Cardinality(1..m) = m
      BY <3>1, FS_Interval
    <3>3. QED
      BY <3>2 DEF m
  <2>3. Cardinality(S) <= p - 1
    <3>1. Cardinality(S) <= Cardinality(1..(p - 1))
      BY <2>1, <2>2, FS_Subset
    <3>2. QED
      BY <2>2, <3>1
  <2>4. QED
    BY <2>3, <1>1, <1>3
<1>4. QED
  BY <1>1, <1>2, <1>3

\* First is an element.
LEMMA FirstIn == ASSUME NEW S \in SUBSET Oids, S # {} PROVE First(S) \in S
<1>1. \E o \in S : \A p \in S : o <= p
  BY OidsFinite, LeastElement
<1>2. QED
  BY <1>1 DEF First

\* An id is free for the next order.
LEMMA FreshOrder ==
    ASSUME Placing(exch), NextId \in Oids
    PROVE  exch[NextId] = NoOrder /\ \A p \in Oids : p < NextId => exch[p].status # "none"
<1> DEFINE S == {o \in Oids : exch[o].status # "none"}
<1>1. MaxOrders \in Nat /\ S \in SUBSET (1..MaxOrders)
  BY StopAssumption DEF Oids
<1>2. \A o \in S, p \in 1..MaxOrders : p < o => p \in S
  BY DEF Placing, Oids
<1>3. NextId = Cardinality(S) + 1
  BY DEF NextId
<1>4. NextId \notin S /\ \A p \in Oids : p < NextId => p \in S
  <2> HIDE DEF S
  <2>1. QED
    BY <1>1, <1>2, <1>3, FirstFree DEF Oids
<1>5. QED
  BY <1>4 DEF Placing

---------------------------------------------------------------------------
(* Types.                                                                  *)

\* The worker between two handlers.
LEMMA IdleTask ==
    /\ Idle \in [step : Steps, walk : SUBSET Oids, todo : SUBSET Oids, then : Steps \ {"cancel"},
                 found : SUBSET Oids, active : SUBSET Oids, size : {0, 1},
                 up : {"idle", "trade", "others"}]
    /\ Idle.step = "idle" /\ Idle.active = {} /\ Idle.found = {}
BY DEF Idle, Steps

\* A handler at the start of a step.
LEMMA AtTask ==
    ASSUME NEW s \in Steps
    PROVE  /\ At(s) \in Tasks /\ At(s).step = s
           /\ At(s).active = {} /\ At(s).found = {}
BY IdleTask DEF At, Tasks, Idle

\* A loop over stops comes before the next step of a handler.
LEMMA CancellingTask ==
    ASSUME NEW S \in SUBSET Oids, NEW t \in Tasks, t.step # "cancel" \/ S = {}
    PROVE  /\ Cancelling(S, t) \in Tasks
           /\ Cancelling(S, t).active = t.active /\ Cancelling(S, t).found = t.found
           /\ Cancelling(S, t).walk = t.walk
           /\ \/ S = {} /\ Cancelling(S, t) = t
              \/ /\ S # {} /\ Cancelling(S, t).step = "cancel" /\ Cancelling(S, t).todo = S
                 /\ Cancelling(S, t).then = t.step /\ t.step # "cancel"
BY DEF Cancelling, Tasks, Steps

\* recalc_trade_from_orders changes nothing but the amount.
LEMMA RecalcType ==
    ASSUME NEW t \in TradeRecords, NEW R \in Tables
    PROVE  /\ Recalc(t, R) \in TradeRecords
           /\ Recalc(t, R).open = t.open /\ Recalc(t, R).left = t.left /\ Recalc(t, R).stop = t.stop
           /\ LET n == Sum(R, EndedRows(R))
              IN  Recalc(t, R).amount = IF n > 0 THEN n ELSE t.amount
<1> DEFINE n == Sum(R, EndedRows(R))
<1>1. n \in Int
  BY SumType
<1>2. Recalc(t, R) = IF n > 0 THEN [t EXCEPT !.amount = n] ELSE t
  BY DEF Recalc, EndedRows
<1> HIDE DEF n
<1>3. QED
  BY <1>1, <1>2 DEF TradeRecords, n

\* Booking a row closes the trade or leaves it open, and never opens it.
LEMMA BookType ==
    ASSUME NEW t \in TradeRecords, NEW R \in Tables, NEW o \in Oids, NEW b \in BOOLEAN
    PROVE  /\ Book(t, R, o, b) \in TradeRecords
           /\ Book(t, R, o, b).stop = t.stop
           /\ Book(t, R, o, b).open => t.open
<1> DEFINE close == R[o].filled = t.amount \/ (~b /\ R[o].filled > t.amount)
           no == FALSE
           S == IF t.open THEN {p \in OpenOrders(R) : R[p].kind = "entry"} ELSE t.left
           c == [t EXCEPT !.open = no, !.left = S]
<1>1. no \in BOOLEAN /\ ~no /\ S \in SUBSET Oids
  BY DEF OpenOrders, TradeRecords
<1>2. Book(t, R, o, b) = IF R[o].kind = "entry" THEN Recalc(t, R)
                         ELSE IF close THEN Recalc(c, R) ELSE Recalc(t, R)
  BY DEF Book
<1> HIDE DEF no, S, close
<1>3. c \in TradeRecords /\ c.stop = t.stop /\ ~c.open
  BY <1>1 DEF TradeRecords
<1> HIDE DEF c
<1>4. QED
  BY <1>2, <1>3, RecalcType

\* An answer replaces one row and leaves its kind as it is.
LEMMA RecordedType ==
    ASSUME Types, NEW o \in Oids, NEW a \in OrderRecords
    PROVE  /\ Recorded(o, a) \in Tables
           /\ Recorded(o, a)[o] = [a EXCEPT !.kind = rows[o].kind]
           /\ Recorded(o, a)[o].kind = rows[o].kind /\ Recorded(o, a)[o].status = a.status
           /\ Recorded(o, a)[o].filled = a.filled
           /\ \A p \in Oids \ {o} : Recorded(o, a)[p] = rows[p]
<1> DEFINE r == [a EXCEPT !.kind = rows[o].kind]
<1>1. rows \in Tables /\ rows[o] \in OrderRecords
  BY DEF Types, Tables
<1>2. r \in OrderRecords /\ r.kind = rows[o].kind /\ r.status = a.status /\ r.filled = a.filled
  BY <1>1 DEF OrderRecords
<1>3. Recorded(o, a) = [rows EXCEPT ![o] = r]
  BY DEF Recorded
<1> HIDE DEF r
<1>4. Recorded(o, a) \in Tables /\ Recorded(o, a)[o] = r /\ \A p \in Oids \ {o} : Recorded(o, a)[p] = rows[p]
  BY <1>1, <1>2, <1>3 DEF Tables
<1>5. QED
  BY <1>2, <1>4 DEF r

\* An answer books a trade, and opens none that is closed.
LEMMA BookedType ==
    ASSUME Types, NEW o \in Oids, NEW a \in OrderRecords
    PROVE  /\ Booked(o, a) \in TradeRecords
           /\ Booked(o, a).open => trade.open
<1> DEFINE no == FALSE
<1>1. Recorded(o, a) \in Tables /\ trade \in TradeRecords /\ no \in BOOLEAN
  BY RecordedType DEF Types
<1>2. Booked(o, a) = trade \/ Booked(o, a) = Book(trade, Recorded(o, a), o, no)
  BY DEF Booked
<1> HIDE DEF no
<1>3. QED
  BY <1>1, <1>2, BookType

---------------------------------------------------------------------------
(* The kinds of steps.                                                     *)

\* A handler in any other step has no lists to be right.
Resting(t) == t.step \notin {"check", "create", "cancel"} /\ t.active \subseteq t.found

\* A resting handler has nothing to be right about.
LEMMA RestingTask ==
    ASSUME NEW t, Resting(t), NEW L, NEW n, NEW R
    PROVE  Watched(t, L, n) /\ Working(t, R)
BY DEF Resting, Watched, Working, Doing

\* Stops that end and faults that are counted leave a watched task watched.
LEMMA WatchedKept ==
    ASSUME NEW t \in Tasks, NEW L \in SUBSET Oids, NEW n \in Nat, Watched(t, L, n),
           NEW M \in SUBSET L, NEW m \in Nat, m >= n
    PROVE  Watched(t, M, m)
<1>1. ASSUME NEW X \in SUBSET Oids, Cardinality(L \ X) <= n
      PROVE  Cardinality(M \ X) <= m
  <2>1. M \ X \in SUBSET Oids /\ L \ X \in SUBSET Oids /\ M \ X \subseteq L \ X
    OBVIOUS
  <2>2. /\ Cardinality(M \ X) <= Cardinality(L \ X)
        /\ Cardinality(M \ X) \in Nat /\ Cardinality(L \ X) \in Nat
    BY <2>1, Fewer
  <2>3. QED
    BY <2>2, <1>1
<1>2. Cardinality(L) <= n => Cardinality(M) <= m
  <2>1. Cardinality(M) <= Cardinality(L) /\ Cardinality(M) \in Nat /\ Cardinality(L) \in Nat
    BY Fewer
  <2>2. QED
    BY <2>1
<1>3. t.walk \cup t.active \in SUBSET Oids /\ t.todo \in SUBSET Oids
  BY DEF Tasks
<1>4. Doing(t, "check") => Cardinality(M \ (t.walk \cup t.active)) <= m
  BY <1>1, <1>3 DEF Watched
<1>5. t.step = "cancel" /\ t.then = "create" => Cardinality(M \ t.todo) <= m
  BY <1>1, <1>3 DEF Watched
<1>6. QED
  BY <1>2, <1>4, <1>5 DEF Watched

\* Stops that are put on the list to be cancelled are on a list.
LEMMA WatchedCancelling ==
    ASSUME NEW t \in Tasks, NEW S \in SUBSET Oids, t.step # "cancel" \/ S = {},
           NEW L \in SUBSET Oids, NEW n \in Nat, Watched(t, L, n),
           S = {} \/ Cardinality(L \ S) <= n
    PROVE  Watched(Cancelling(S, t), L, n)
BY CancellingTask DEF Watched, Doing

\* A loop over open rows works on stops of the trade.
LEMMA WorkingCancelling ==
    ASSUME NEW t \in Tasks, NEW S \in SUBSET Oids, t.step # "cancel" \/ S = {},
           t.active \subseteq t.found, NEW R, S \subseteq OpenStops(R),
           t.step # "cancel" \/ Working(t, R)
    PROVE  Working(Cancelling(S, t), R)
BY CancellingTask DEF Working

\* Orders end, and at most one stop is forgotten for each fault.
LEMMA CountedKept ==
    ASSUME Types, Counted, faults' \in Nat, faults' >= faults, LiveStops' \subseteq LiveStops,
           \/ Orphans(rows)' \subseteq Orphans(rows)
           \/ faults' = faults + 1 /\ \E o \in Oids : Orphans(rows)' \subseteq Orphans(rows) \cup {o},
           saved' = saved \/ saved'.rows = rows'
    PROVE  Counted'
<1>1. /\ LiveStops \in SUBSET Oids /\ LiveStops' \in SUBSET Oids /\ faults \in Nat
      /\ \A R : Orphans(R) \in SUBSET Oids
      /\ Orphans(rows)' \in SUBSET Oids /\ Orphans(saved.rows)' \in SUBSET Oids
  BY DEF LiveStops, Live, Orphans, Types
<1>2. StopsAccounted'
  <2>1. Cardinality(LiveStops') <= Cardinality(LiveStops)
        /\ Cardinality(LiveStops') \in Nat /\ Cardinality(LiveStops) \in Nat
    BY <1>1, Fewer
  <2>2. Cardinality(LiveStops) <= faults + 1
    BY DEF Counted, StopsAccounted
  <2>3. QED
    BY <2>1, <2>2, <1>1 DEF StopsAccounted
<1>3. Cardinality(Orphans(rows)') <= faults' /\ Cardinality(Orphans(rows)') \in Nat
  <2>1. Cardinality(Orphans(rows)) <= faults
    BY DEF Counted
  <2>2. CASE Orphans(rows)' \subseteq Orphans(rows)
    <3>1. /\ Cardinality(Orphans(rows)') <= Cardinality(Orphans(rows))
          /\ Cardinality(Orphans(rows)') \in Nat /\ Cardinality(Orphans(rows)) \in Nat
      BY <1>1, <2>2, Fewer
    <3>2. QED
      BY <3>1, <2>1, <1>1
  <2>3. CASE faults' = faults + 1 /\ \E o \in Oids : Orphans(rows)' \subseteq Orphans(rows) \cup {o}
    <3>1. /\ Cardinality(Orphans(rows)') <= Cardinality(Orphans(rows)) + 1
          /\ Cardinality(Orphans(rows)') \in Nat /\ Cardinality(Orphans(rows)) \in Nat
      BY <1>1, <2>3, OneMore
    <3>2. QED
      BY <3>1, <2>1, <2>3, <1>1
  <2>4. QED
    BY <2>2, <2>3
<1>4. Cardinality(Orphans(saved.rows)') <= faults' + 1
  <2>1. CASE saved' = saved
    <3>1. Orphans(saved.rows)' \subseteq Orphans(saved.rows)
      BY <2>1 DEF Orphans
    <3>2. /\ Cardinality(Orphans(saved.rows)') <= Cardinality(Orphans(saved.rows))
          /\ Cardinality(Orphans(saved.rows)') \in Nat /\ Cardinality(Orphans(saved.rows)) \in Nat
      BY <1>1, <3>1, Fewer
    <3>3. Cardinality(Orphans(saved.rows)) <= faults + 1
      BY DEF Counted
    <3>4. QED
      BY <3>2, <3>3, <1>1
  <2>2. CASE saved'.rows = rows'
    <3>1. Orphans(saved.rows)' = Orphans(rows)'
      BY <2>2 DEF Orphans
    <3>2. QED
      BY <3>1, <1>3
  <2>3. QED
    BY <2>1, <2>2
<1>5. QED
  BY <1>2, <1>3, <1>4 DEF Counted

\* The exchange goes on, no order is placed.
Calm ==
    /\ exch' \in Tables /\ Placing(exch') /\ LiveStops' \subseteq LiveStops
    /\ faults' \in {faults, faults + 1} /\ blocks' = blocks

\* Nothing is recorded.
LEMMA UntouchedKeeps ==
    ASSUME StopInv, Calm, rows' = rows, saved' = saved, trade' \in TradeRecords,
           task' \in Tasks, Working(task', rows), Watched(task', LiveStops', faults')
    PROVE  StopInv'
<1>1. faults' \in Nat /\ faults' >= faults
  BY DEF Calm, StopInv, Types
<1>2. Types'
  BY <1>1 DEF StopInv, Types, Calm
<1>3. Orphans(rows)' \subseteq Orphans(rows)
  BY DEF Orphans, Calm
<1>4. Counted'
  BY <1>1, <1>3, CountedKept DEF StopInv, Calm
<1>5. QED
  BY <1>2, <1>4 DEF StopInv, Calm

\* The same, by a handler that goes on as it was.
LEMMA SameTaskKeeps ==
    ASSUME StopInv, Calm, rows' = rows, saved' = saved, trade' = trade, task' = task
    PROVE  StopInv'
<1>1. /\ LiveStops \in SUBSET Oids /\ LiveStops' \in SUBSET LiveStops
      /\ faults \in Nat /\ faults' \in Nat /\ faults' >= faults
      /\ task \in Tasks /\ trade' \in TradeRecords /\ Working(task', rows)
      /\ Watched(task, LiveStops, faults)
  BY DEF LiveStops, Live, Calm, StopInv, Types
<1>2. Watched(task, LiveStops', faults')
  BY <1>1, WatchedKept
<1>3. QED
  BY <1>1, <1>2, UntouchedKeeps

\* An answer is recorded, and what it outdates is cancelled.
LEMMA UpdateKeeps ==
    ASSUME StopInv, Calm, NEW o \in Oids, NEW a \in OrderRecords, NEW t \in Tasks, Update(o, a, t),
           o \in LiveStops' => a.status = "open" \/ faults' = faults + 1,
           t.step # "cancel" \/ (Outdated(o, a) = {} /\ Working(t, rows')),
           t.active \subseteq t.found, Watched(t, LiveStops', faults')
    PROVE  StopInv'
<1>1. /\ rows' = Recorded(o, a) /\ trade' = Booked(o, a)
      /\ saved' = [rows |-> rows', trade |-> trade'] /\ task' = Cancelling(Outdated(o, a), t)
      /\ Types
  BY DEF Update, Commit, StopInv
<1>2. /\ rows' \in Tables /\ rows'[o].kind = rows[o].kind /\ rows'[o].status = a.status
      /\ \A p \in Oids \ {o} : rows'[p] = rows[p]
  BY <1>1, RecordedType
<1>3. trade' \in TradeRecords
  BY <1>1, BookedType
<1>4. /\ Outdated(o, a) = {} \/ Outdated(o, a) = OpenStops(rows')
      /\ Outdated(o, a) \in SUBSET Oids /\ Outdated(o, a) \subseteq OpenStops(rows')
  BY <1>1 DEF Outdated, OpenStops
<1>5. /\ faults \in Nat /\ faults' \in Nat /\ faults' >= faults
      /\ LiveStops \in SUBSET Oids /\ LiveStops' \in SUBSET Oids
  BY <1>1 DEF Types, Calm, LiveStops, Live
<1>6. \/ Orphans(rows)' \subseteq Orphans(rows)
      \/ faults' = faults + 1 /\ Orphans(rows)' \subseteq Orphans(rows) \cup {o}
  BY <1>2 DEF Orphans, OpenStops, Calm
<1>7. Counted'
  BY <1>1, <1>5, <1>6, CountedKept DEF StopInv, Calm
<1>8. Cardinality(LiveStops' \ OpenStops(rows')) <= faults'
  BY <1>7 DEF Counted, Orphans
<1> DEFINE S == Outdated(o, a)
<1>9. /\ S \in SUBSET Oids /\ (t.step # "cancel" \/ S = {}) /\ S \subseteq OpenStops(rows')
      /\ task' = Cancelling(S, t) /\ (S = {} \/ Cardinality(LiveStops' \ S) <= faults')
      /\ (t.step # "cancel" \/ Working(t, rows'))
  BY <1>1, <1>4, <1>8
<1> HIDE DEF S
<1>10. task' \in Tasks
  BY <1>9, CancellingTask
<1>11. Watched(task', LiveStops', faults')
  <2> DEFINE L == LiveStops'
             n == faults'
  <2>1. L \in SUBSET Oids /\ n \in Nat /\ Watched(t, L, n) /\ (S = {} \/ Cardinality(L \ S) <= n)
    BY <1>5, <1>9
  <2> HIDE DEF L, n
  <2>2. Watched(Cancelling(S, t), L, n)
    BY <2>1, <1>9, WatchedCancelling
  <2>3. QED
    BY <2>2, <1>9 DEF L, n
<1>12. Working(task', rows')
  <2> DEFINE R == rows'
  <2>1. S \subseteq OpenStops(R) /\ (t.step # "cancel" \/ Working(t, R))
    BY <1>9
  <2> HIDE DEF R
  <2>2. Working(Cancelling(S, t), R)
    BY <2>1, <1>9, WorkingCancelling
  <2>3. QED
    BY <2>2, <1>9 DEF R
<1>13. Types'
  BY <1>1, <1>2, <1>3, <1>5, <1>10 DEF Types, Calm
<1>14. QED
  BY <1>7, <1>11, <1>12, <1>13 DEF StopInv, Calm

\* A handler that cancels stops and then rests.
LEMMA RestingCancelling ==
    ASSUME NEW t \in Tasks, Resting(t), NEW R, NEW S \in SUBSET Oids, S \subseteq OpenStops(R),
           NEW L \in SUBSET Oids, NEW n \in Nat
    PROVE  /\ Cancelling(S, t) \in Tasks /\ Working(Cancelling(S, t), R)
           /\ Watched(Cancelling(S, t), L, n)
<1>1. Watched(t, L, n) /\ t.step # "cancel" /\ t.active \subseteq t.found /\ ~Doing(t, "check")
      /\ t.step # "create"
  BY RestingTask DEF Resting, Doing
<1>2. Cancelling(S, t) \in Tasks /\ Working(Cancelling(S, t), R)
  BY <1>1, CancellingTask, WorkingCancelling
<1>3. Watched(Cancelling(S, t), L, n)
  BY <1>1, CancellingTask DEF Watched, Doing
<1>4. QED
  BY <1>2, <1>3

\* What every action starts from.
LEMMA StopFacts ==
    ASSUME StopInv
    PROVE  /\ Types /\ LiveStops \in SUBSET Oids /\ faults \in Nat /\ task \in Tasks
           /\ task.active \subseteq task.found
           /\ task.walk \in SUBSET Oids /\ task.todo \in SUBSET Oids
           /\ task.found \in SUBSET Oids /\ task.active \in SUBSET Oids
           /\ task.up \in {"idle", "trade", "others"} /\ task.then \in Steps \ {"cancel"}
           /\ \A R : OpenStops(R) \in SUBSET Oids /\ OpenOrders(R) \in SUBSET Oids
           /\ \A o \in Oids : exch[o] \in OrderRecords /\ rows[o] \in OrderRecords
           /\ trade \in TradeRecords /\ rows \in Tables /\ exch \in Tables
           /\ saved.rows \in Tables /\ saved.trade \in TradeRecords
<1>1. Types /\ Working(task, rows)
  BY DEF StopInv
<1>2. LiveStops \in SUBSET Oids /\ \A R : OpenStops(R) \in SUBSET Oids /\ OpenOrders(R) \in SUBSET Oids
  BY DEF LiveStops, Live, OpenStops, OpenOrders
<1>3. QED
  BY <1>1, <1>2 DEF Types, Working, Tasks, Tables

\* Nothing happens on the exchange.
LEMMA CalmSame ==
    ASSUME StopInv, exch' = exch, faults' \in {faults, faults + 1}, blocks' = blocks
    PROVE  Calm /\ LiveStops' = LiveStops /\ faults' \in Nat /\ faults' >= faults
BY DEF StopInv, Types, Calm, LiveStops, Live

\* An order is cancelled on the exchange.
LEMMA CalmCancel ==
    ASSUME StopInv, NEW o \in Oids, exch[o].status = "open",
           exch' = [exch EXCEPT ![o].status = "canceled"],
           faults' \in {faults, faults + 1}, blocks' = blocks
    PROVE  /\ Calm /\ LiveStops' = LiveStops \ {o} /\ faults' \in Nat /\ faults' >= faults
           /\ exch'[o] \in OrderRecords /\ exch'[o].status = "canceled" /\ exch'[o].filled = 0
<1> DEFINE a == [exch[o] EXCEPT !.status = "canceled"]
<1>1. exch \in Tables /\ exch[o] \in OrderRecords /\ Placing(exch) /\ faults \in Nat
  BY DEF StopInv, Types, Tables
<1>2. a \in OrderRecords /\ a.status = "canceled" /\ a.filled = 0
  BY <1>1 DEF OrderRecords, Placing
<1>3. exch' = [exch EXCEPT ![o] = a]
  OBVIOUS
<1> HIDE DEF a
<1>4. exch' \in Tables /\ exch'[o] = a /\ \A p \in Oids \ {o} : exch'[p] = exch[p]
  BY <1>1, <1>2, <1>3 DEF Tables
<1>5. LiveStops' = LiveStops \ {o}
  BY <1>2, <1>4 DEF LiveStops, Live
<1>6. Placing(exch')
  BY <1>1, <1>2, <1>4 DEF Placing
<1>7. Calm
  BY <1>4, <1>5, <1>6 DEF Calm
<1>8. faults' \in Nat /\ faults' >= faults
  BY <1>1
<1>9. QED
  BY <1>2, <1>4, <1>5, <1>7, <1>8

\* An order that is not a stop is placed.
LEMMA CalmPlaced ==
    ASSUME StopInv, NEW a \in OrderRecords, Placed(a), a.kind # "stop", a.status # "none",
           a.status = "open" => a.filled = 0, UNCHANGED <<blocks, faults>>
    PROVE  Calm /\ LiveStops' = LiveStops /\ NextId \in Oids /\ exch' = [exch EXCEPT ![NextId] = a]
<1> DEFINE k == NextId
<1>1. k \in Oids /\ exch' = [exch EXCEPT ![k] = a]
  BY DEF Placed
<1>2. exch[k] = NoOrder /\ \A p \in Oids : p < k => exch[p].status # "none"
  BY <1>1, FreshOrder DEF StopInv
<1> HIDE DEF k
<1>3. exch \in Tables /\ Placing(exch)
  BY DEF StopInv, Types
<1>4. exch' \in Tables /\ exch'[k] = a /\ \A p \in Oids \ {k} : exch'[p] = exch[p]
  BY <1>1, <1>3 DEF Tables
<1>5. LiveStops' = LiveStops
  BY <1>1, <1>2, <1>4 DEF LiveStops, Live, NoOrder
<1>6. Placing(exch')
  <2>1. \A o, p \in Oids : p < o /\ exch'[o].status # "none" => exch'[p].status # "none"
    BY <1>1, <1>2, <1>3, <1>4 DEF Placing
  <2>2. \A o \in Oids : /\ exch'[o].status = "open" => exch'[o].filled = 0
                        /\ exch'[o].status = "none" => exch'[o] = NoOrder
    BY <1>1, <1>3, <1>4 DEF Placing
  <2>3. QED
    BY <2>1, <2>2 DEF Placing
<1>7. QED
  BY <1>1, <1>4, <1>5, <1>6 DEF Calm, k

\* Something is recorded, and the session is committed or not.
LEMMA StepKeeps ==
    ASSUME StopInv, Calm, rows' \in Tables, trade' \in TradeRecords,
           saved' = saved \/ saved' = [rows |-> rows', trade |-> trade'],
           Orphans(rows)' \subseteq Orphans(rows),
           task' \in Tasks, Working(task', rows'), Watched(task', LiveStops', faults')
    PROVE  StopInv'
<1>1. faults' \in Nat /\ faults' >= faults /\ saved' \in [rows : Tables, trade : TradeRecords]
  BY DEF StopInv, Types, Calm
<1>2. Types'
  BY <1>1 DEF StopInv, Types, Calm
<1>3. Counted'
  BY <1>1, CountedKept DEF StopInv, Calm
<1>4. QED
  BY <1>2, <1>3 DEF StopInv, Calm

\* The session is rolled back, or the process starts again.
LEMMA RollbackKeeps ==
    ASSUME StopInv, exch' = exch, blocks' = blocks, saved' = saved,
           rows' = saved.rows, trade' = saved.trade,
           \/ faults' = faults + 1
           \/ saved.rows = rows /\ faults' = faults,
           task' \in Tasks, Resting(task')
    PROVE  StopInv'
<1>1. /\ Calm /\ LiveStops' = LiveStops /\ faults' \in Nat /\ faults' >= faults
      /\ faults \in Nat
  BY CalmSame, StopFacts
<1>2. rows' \in Tables /\ trade' \in TradeRecords /\ saved' \in [rows : Tables, trade : TradeRecords]
  BY StopFacts DEF Types
<1>3. Types'
  BY <1>1, <1>2 DEF StopInv, Types
<1>4. Orphans(rows)' = Orphans(saved.rows) /\ Orphans(saved.rows)' = Orphans(saved.rows)
  BY <1>1 DEF Orphans
<1>5. /\ Cardinality(Orphans(rows)) \in Nat /\ Cardinality(Orphans(saved.rows)) \in Nat
      /\ Cardinality(LiveStops) \in Nat
  <2>1. Orphans(rows) \in SUBSET Oids /\ Orphans(saved.rows) \in SUBSET Oids /\ LiveStops \in SUBSET Oids
    BY StopFacts DEF Orphans
  <2>2. QED
    BY <2>1, Fewer
<1>6. /\ Cardinality(LiveStops) <= faults + 1 /\ Cardinality(Orphans(rows)) <= faults
      /\ Cardinality(Orphans(saved.rows)) <= faults + 1
  BY DEF StopInv, Counted, StopsAccounted
<1>7. Counted'
  <2>1. StopsAccounted'
    BY <1>1, <1>5, <1>6 DEF StopsAccounted
  <2>2. Cardinality(Orphans(rows)') <= faults'
    BY <1>1, <1>4, <1>5, <1>6
  <2>3. Cardinality(Orphans(saved.rows)') <= faults' + 1
    BY <1>1, <1>4, <1>5, <1>6
  <2>4. QED
    BY <2>1, <2>2, <2>3 DEF Counted
<1>8. Working(task', rows') /\ Watched(task', LiveStops', faults')
  BY RestingTask
<1>9. QED
  BY <1>1, <1>3, <1>7, <1>8 DEF StopInv, Calm

\* execute_trade_exit starts.
LEMMA StartExitTask ==
    ASSUME StopInv, NEW n \in {0, 1}, NEW up \in {"idle", "trade", "others"}, StartExit(n, up),
           NEW L \in SUBSET Oids, NEW m \in Nat
    PROVE  task' \in Tasks /\ Working(task', rows) /\ Watched(task', L, m)
<1> DEFINE t == [Idle EXCEPT !.step = "place", !.size = n, !.up = up]
           S == IF blocks THEN OpenStops(rows) ELSE {}
<1>1. t \in Tasks /\ t.step = "place" /\ t.active = {}
  BY IdleTask DEF Tasks, Idle, Steps
<1>2. task' = Cancelling(S, t) /\ S \in SUBSET Oids /\ S \subseteq OpenStops(rows)
  BY StopFacts DEF StartExit
<1> HIDE DEF t, S
<1>3. Resting(t)
  BY <1>1 DEF Resting
<1>4. QED
  BY <1>1, <1>2, <1>3, RestingCancelling

---------------------------------------------------------------------------
(* The exchange, and the cancelling of stops.                              *)

\* An order is filled.
LEMMA ExecuteGood ==
    ASSUME StopInv, NEW o \in Oids, Execute(o)
    PROVE  StopInv'
<1> DEFINE a == Executed(o)
<1>1. exch \in Tables /\ exch[o] \in OrderRecords /\ Placing(exch) /\ exch[o].status = "open"
  BY StopFacts DEF StopInv, Execute
<1>2. /\ exch' = [exch EXCEPT ![o] = a]
      /\ UNCHANGED <<blocks, rows, trade, saved, task, faults>>
  BY DEF Execute
<1>3. a \in OrderRecords /\ a.status \in {"closed", "canceled"} /\ a.kind = exch[o].kind
  <2> DEFINE f == IF exch[o].kind # "entry" /\ Position < exch[o].amount THEN Position
                  ELSE exch[o].amount
             s == IF f = exch[o].amount THEN "closed" ELSE "canceled"
  <2>1. Position \in Int
    BY <1>1, SumType DEF Position
  <2>2. f \in Nat
    BY <1>1, <2>1 DEF Execute, OrderRecords
  <2>3. a = [exch[o] EXCEPT !.filled = f, !.status = s] /\ s \in {"closed", "canceled"}
    BY DEF Executed
  <2> HIDE DEF f, s, a
  <2>4. QED
    BY <1>1, <2>2, <2>3 DEF OrderRecords
<1> HIDE DEF a
<1>4. exch' \in Tables /\ exch'[o] = a /\ \A p \in Oids \ {o} : exch'[p] = exch[p]
  BY <1>1, <1>2, <1>3 DEF Tables
<1>5. LiveStops' \subseteq LiveStops
  BY <1>3, <1>4 DEF LiveStops, Live
<1>6. Placing(exch')
  BY <1>1, <1>3, <1>4 DEF Placing
<1>7. Calm
  BY <1>2, <1>4, <1>5, <1>6 DEF Calm
<1>8. QED
  BY <1>2, <1>7, SameTaskKeeps

\* An order is cancelled by someone else.
LEMMA CancelledOnExchangeGood ==
    ASSUME StopInv, NEW o \in Oids, CancelledOnExchange(o)
    PROVE  StopInv'
<1>1. Calm
  BY CalmCancel DEF CancelledOnExchange
<1>2. QED
  BY <1>1, SameTaskKeeps DEF CancelledOnExchange

\* The first stop of the list is off the exchange.
LEMMA CancelledTask ==
    ASSUME NEW R, NEW L \in SUBSET Oids, NEW n \in Nat, NEW m \in Nat, m >= n,
           task \in Tasks, task.step = "cancel", task.todo # {},
           task.active \subseteq task.found, Watched(task, L, n),
           NEW M \in SUBSET L, First(task.todo) \notin M,
           task.todo \ {First(task.todo)} \subseteq OpenStops(R)
    PROVE  /\ Cancelled \in Tasks /\ Working(Cancelled, R) /\ Watched(Cancelled, M, m)
           /\ Cancelled.active \subseteq Cancelled.found
<1> DEFINE o == First(task.todo)
           D == task.todo \ {o}
           t == [task EXCEPT !.todo = D]
           u == [t EXCEPT !.step = t.then, !.then = "idle"]
<1>1. Watched(task, M, m)
  BY WatchedKept
<1>2. o \in task.todo /\ D \in SUBSET Oids
  BY FirstIn DEF Tasks
<1>3. D = {} => task.todo = {o}
  BY <1>2
<1>4. /\ t \in Tasks /\ t.todo = D /\ t.step = "cancel" /\ t.then = task.then
      /\ t.walk = task.walk /\ t.active = task.active /\ t.found = task.found
  BY <1>2 DEF Tasks
<1>5. /\ u \in Tasks /\ u.step = task.then /\ u.walk = task.walk
      /\ u.active = task.active /\ u.found = task.found /\ u.step # "cancel"
  <2>1. task.then \in Steps \ {"cancel"} /\ "idle" \in Steps \ {"cancel"}
    BY DEF Tasks, Steps
  <2> HIDE DEF t
  <2>2. QED
    BY <2>1, <1>4 DEF Tasks
<1>6. Cancelled = IF D = {} THEN u ELSE t
  BY DEF Cancelled
<1>7. CASE D = {}
  <2>1. Cancelled = u
    BY <1>6, <1>7
  <2>2. M \ task.todo = M
    BY <1>7, <1>3
  <2> HIDE DEF u, t, D, o
  <2>3. Watched(u, M, m)
    BY <1>1, <1>5, <2>2 DEF Watched, Doing
  <2>4. QED
    BY <1>5, <2>1, <2>3 DEF Working
<1>8. CASE D # {}
  <2>1. Cancelled = t
    BY <1>6, <1>8
  <2>2. M \ task.todo = M \ D
    OBVIOUS
  <2>3. D \subseteq OpenStops(R)
    OBVIOUS
  <2> HIDE DEF u, t, D, o
  <2>4. Watched(t, M, m)
    BY <1>1, <1>4, <2>2 DEF Watched, Doing
  <2>5. QED
    BY <1>4, <1>8, <2>1, <2>3, <2>4 DEF Working
<1>9. QED
  BY <1>7, <1>8

\* A handler that gave up rests.
LEMMA AbortedTask ==
    ASSUME task \in Tasks, task.step = "cancel", task.active \subseteq task.found
    PROVE  Aborted \in Tasks /\ Resting(Aborted)
<1>1. CASE task.then = "place"
  <2>1. task.up \in Steps /\ task.up \notin {"check", "create", "cancel"} /\ Aborted = At(task.up)
    BY <1>1 DEF Tasks, Steps, Aborted
  <2>2. QED
    BY <2>1, AtTask DEF Resting
<1>2. CASE task.then \in {"check", "create", "others"}
  <2>1. "others" \in Steps /\ Aborted = At("others")
    BY <1>2 DEF Aborted, Steps
  <2>2. QED
    BY <2>1, AtTask DEF Resting
<1>3. CASE task.then \notin {"place", "check", "create", "others"}
  <2> DEFINE e == {}
             t == [task EXCEPT !.step = task.then, !.todo = e, !.then = "idle"]
  <2>1. Aborted = t
    BY <1>3 DEF Aborted
  <2>2. /\ t \in Tasks /\ t.step = task.then /\ t.active = task.active /\ t.found = task.found
        /\ task.then # "cancel"
    BY DEF Tasks, Steps
  <2> HIDE DEF t
  <2>3. QED
    BY <1>3, <2>1, <2>2 DEF Resting
<1>4. QED
  BY <1>1, <1>2, <1>3

\* A row that has ended in the answer is no open stop.
LEMMA RecordedStops ==
    ASSUME StopInv, NEW o \in Oids, NEW a \in OrderRecords
    PROVE  /\ OpenStops(Recorded(o, a)) \subseteq OpenStops(rows) \cup {o}
           /\ OpenStops(rows) \subseteq OpenStops(Recorded(o, a)) \cup {o}
           /\ a.status # "open" => o \notin OpenStops(Recorded(o, a))
<1>1. Types
  BY DEF StopInv
<1>2. /\ Recorded(o, a)[o].status = a.status
      /\ \A p \in Oids \ {o} : Recorded(o, a)[p] = rows[p]
  BY <1>1, RecordedType
<1>3. QED
  BY <1>2 DEF OpenStops

\* The stop to be cancelled is not open any more.
LEMMA StopGoneGood ==
    ASSUME StopInv, task.step = "cancel", NEW o \in Oids, o = First(task.todo),
           Ended(exch[o]), StopGone(o), UNCHANGED <<blocks, exch>>
    PROVE  StopInv'
<1>1. /\ Calm /\ LiveStops' = LiveStops /\ faults' = faults /\ faults \in Nat
      /\ faults <= faults /\ Types
  BY CalmSame, StopFacts DEF StopGone
<1>2. o \notin LiveStops /\ exch[o].status # "open"
  BY DEF Ended, LiveStops, Live
<1>3. /\ task \in Tasks /\ task.todo # {} /\ task.todo \subseteq OpenStops(rows)
      /\ task.active \subseteq task.found /\ Watched(task, LiveStops, faults)
      /\ LiveStops \in SUBSET Oids
  BY StopFacts DEF StopInv, Working
<1> DEFINE a == exch[o]
           R == Recorded(o, a)
           more == Outdated(o, a) \ {o}
           c == [task EXCEPT !.todo = more]
<1>4. a \in OrderRecords /\ a.status # "open"
  BY <1>2, StopFacts
<1>5. R \in Tables /\ OpenStops(rows) \subseteq OpenStops(R) \cup {o} /\ o \notin OpenStops(R)
      /\ OpenStops(R) \subseteq OpenStops(rows) \cup {o}
  <2> HIDE DEF a
  <2>1. QED
    BY <1>1, <1>4, RecordedType, RecordedStops
<1>6. CASE Untouched /\ task' = Cancelled
  <2>1. task' \in Tasks /\ Working(task', rows) /\ Watched(task', LiveStops, faults)
    BY <1>1, <1>2, <1>3, <1>6, CancelledTask
  <2>2. QED
    BY <1>1, <1>6, <2>1, UntouchedKeeps, StopFacts DEF Untouched
<1>7. CASE /\ rows' = R /\ trade' = Booked(o, a) /\ Commit
           /\ task' = IF more = {} THEN Cancelled ELSE c
  <2>1. rows' \in Tables /\ trade' \in TradeRecords /\ saved' = [rows |-> rows', trade |-> trade']
    <3> HIDE DEF a, R
    <3>1. Booked(o, a) \in TradeRecords
      BY <1>1, <1>4, BookedType
    <3>2. QED
      BY <1>5, <1>7, <3>1 DEF Commit
  <2>2. Orphans(rows)' \subseteq Orphans(rows)
    <3> HIDE DEF a, R
    <3>1. QED
      BY <1>1, <1>2, <1>5, <1>7 DEF Orphans
  <2>3. Cardinality(LiveStops \ OpenStops(rows')) <= faults
    <3>1. Counted'
      BY <1>1, <2>1, <2>2, CountedKept DEF StopInv
    <3>2. QED
      BY <3>1, <1>1 DEF Counted, Orphans
  <2>4. CASE more = {}
    <3>1. task.todo \ {o} \subseteq OpenStops(R)
      <4> HIDE DEF R
      <4>1. QED
        BY <1>3, <1>5
    <3> HIDE DEF R
    <3>2. Cancelled \in Tasks /\ Working(Cancelled, R) /\ Watched(Cancelled, LiveStops, faults)
      BY <1>1, <1>2, <1>3, <3>1, CancelledTask
    <3>3. task' \in Tasks /\ Working(task', rows') /\ Watched(task', LiveStops', faults')
      BY <3>2, <2>4, <1>7, <1>1
    <3>4. QED
      BY <1>1, <2>1, <2>2, <3>3, StepKeeps
  <2>5. CASE more # {}
    <3>1. more = OpenStops(R) /\ more \in SUBSET Oids
      <4>1. Outdated(o, a) = {} \/ Outdated(o, a) = OpenStops(R)
        BY DEF Outdated
      <4>2. QED
        BY <4>1, <2>5, <1>5 DEF OpenStops
    <3> HIDE DEF more, R, a
    <3>2. /\ c \in Tasks /\ c.step = "cancel" /\ c.todo = more /\ c.then = task.then
          /\ c.walk = task.walk /\ c.active = task.active /\ c.found = task.found
      BY <1>3, <3>1 DEF Tasks
    <3> HIDE DEF c
    <3>3. task' = c
      BY <1>7, <2>5
    <3>4. Working(c, rows')
      BY <3>1, <3>2, <1>3, <1>7, <2>5 DEF Working
    <3>5. Watched(c, LiveStops, faults)
      <4>1. Cardinality(LiveStops \ c.todo) <= faults
        BY <2>3, <3>1, <3>2, <1>7
      <4>2. QED
        BY <4>1, <3>2, <1>3 DEF Watched, Doing
    <3>6. task' \in Tasks /\ Working(task', rows') /\ Watched(task', LiveStops', faults')
      BY <3>2, <3>3, <3>4, <3>5, <1>1
    <3>7. QED
      BY <1>1, <2>1, <2>2, <3>6, StepKeeps
  <2>6. QED
    BY <2>4, <2>5
<1>8. QED
  BY <1>6, <1>7 DEF StopGone

\* cancel_stoploss_on_exchange
LEMMA CancelStopGood == ASSUME StopInv, CancelStop PROVE StopInv'
<1> DEFINE o == First(task.todo)
<1>1. /\ task \in Tasks /\ task.step = "cancel" /\ task.todo # {} /\ task.todo \subseteq OpenStops(rows)
      /\ task.active \subseteq task.found /\ Watched(task, LiveStops, faults)
      /\ LiveStops \in SUBSET Oids /\ faults \in Nat /\ faults <= faults /\ Types
  BY StopFacts DEF StopInv, Working, CancelStop
<1>2. o \in task.todo /\ o \in Oids /\ o = First(task.todo)
  BY <1>1, FirstIn DEF Tasks
<1> HIDE DEF o
<1>3. CASE /\ exch[o].status = "open"
           /\ exch' = [exch EXCEPT ![o].status = "canceled"]
           /\ Update(o, exch'[o], Cancelled)
           /\ UNCHANGED <<blocks, faults>>
  <2> DEFINE a == exch'[o]
  <2>1. /\ Calm /\ LiveStops' = LiveStops \ {o} /\ faults' = faults
        /\ a \in OrderRecords /\ a.status = "canceled" /\ a.filled = 0
    BY <1>2, <1>3, CalmCancel
  <2>2. Outdated(o, a) = {}
    BY <2>1 DEF Outdated, Empty, Ended
  <2> HIDE DEF a
  <2>3. rows' = Recorded(o, a) /\ Update(o, a, Cancelled)
    BY <1>3 DEF Update, a
  <2>4. task.todo \ {o} \subseteq OpenStops(rows')
    BY <1>1, <1>2, <2>1, <2>3, RecordedStops
  <2>5. /\ Cancelled \in Tasks /\ Working(Cancelled, rows')
        /\ Watched(Cancelled, LiveStops \ {o}, faults)
        /\ Cancelled.active \subseteq Cancelled.found
    <3> DEFINE M == LiveStops \ {o}
               R == rows'
    <3>1. M \in SUBSET LiveStops /\ o \notin M /\ task.todo \ {First(task.todo)} \subseteq OpenStops(R)
      BY <2>4, <1>2
    <3> HIDE DEF M, R
    <3>2. /\ Cancelled \in Tasks /\ Working(Cancelled, R) /\ Watched(Cancelled, M, faults)
          /\ Cancelled.active \subseteq Cancelled.found
      BY <1>1, <1>2, <3>1, CancelledTask
    <3>3. QED
      BY <3>2 DEF M, R
  <2>6. Watched(Cancelled, LiveStops', faults') /\ o \notin LiveStops'
    BY <2>5, <2>1
  <2>7. QED
    BY <1>2, <2>1, <2>2, <2>3, <2>5, <2>6, UpdateKeeps
<1>4. CASE Ended(exch[o]) /\ StopGone(o) /\ UNCHANGED <<blocks, exch>>
  BY <1>1, <1>2, <1>4, StopGoneGood
<1>5. CASE /\ \/ UNCHANGED exch
              \/ exch[o].status = "open" /\ exch' = [exch EXCEPT ![o].status = "canceled"]
           /\ Untouched /\ Fault /\ task' = Aborted /\ UNCHANGED blocks
  <2>1. Calm /\ LiveStops' \in SUBSET Oids /\ faults' \in Nat
    <3>1. faults' = faults + 1 /\ blocks' = blocks
      BY <1>5 DEF Fault
    <3>2. CASE exch' = exch
      BY <3>1, <3>2, <1>1, CalmSame
    <3>3. CASE exch[o].status = "open" /\ exch' = [exch EXCEPT ![o].status = "canceled"]
      BY <3>1, <3>3, <1>1, <1>2, CalmCancel
    <3>4. QED
      BY <1>5, <3>2, <3>3
  <2>2. task' \in Tasks /\ Resting(task')
    BY <1>1, <1>5, AbortedTask
  <2>3. Working(task', rows) /\ Watched(task', LiveStops', faults')
    BY <2>2, RestingTask
  <2>4. QED
    BY <1>5, <2>1, <2>2, <2>3, UntouchedKeeps, StopFacts DEF Untouched
<1>6. QED
  BY <1>3, <1>4, <1>5 DEF CancelStop, o

---------------------------------------------------------------------------
(* Exits and stops that are placed.                                        *)

\* An answer is recorded by a handler that goes on to rest.
LEMMA RestingUpdate ==
    ASSUME StopInv, Calm, NEW o \in Oids, NEW a \in OrderRecords, NEW t \in Tasks, Update(o, a, t),
           o \in LiveStops' => a.status = "open" \/ faults' = faults + 1, Resting(t)
    PROVE  StopInv'
<1>1. t.step # "cancel" /\ t.active \subseteq t.found /\ Watched(t, LiveStops', faults')
  BY RestingTask DEF Resting
<1>2. QED
  BY <1>1, UpdateKeeps

\* A handler goes on to rest and records nothing.
LEMMA RestingUntouched ==
    ASSUME StopInv, exch' = exch, blocks' = blocks, faults' \in {faults, faults + 1}, Untouched,
           task' \in Tasks, Resting(task')
    PROVE  StopInv'
<1>1. Calm
  BY CalmSame
<1>2. Working(task', rows) /\ Watched(task', LiveStops', faults') /\ trade' \in TradeRecords
  BY RestingTask, StopFacts DEF Untouched
<1>3. QED
  BY <1>1, <1>2, UntouchedKeeps DEF Untouched

\* The step after an exit.
LEMMA UpTask ==
    ASSUME task \in Tasks
    PROVE  At(task.up) \in Tasks /\ Resting(At(task.up))
<1>1. task.up \in Steps /\ task.up \notin {"check", "create", "cancel"}
  BY DEF Tasks, Steps
<1>2. QED
  BY <1>1, AtTask DEF Resting

\* handle_similar_open_order
LEMMA ClearOrderGood == ASSUME StopInv, ClearOrder PROVE StopInv'
<1>1. task \in Tasks /\ Resting(task) /\ blocks' = blocks /\ faults' = faults
  BY StopFacts DEF Resting, ClearOrder
<1>2. CASE Untouched /\ task' = At(task.up) /\ UNCHANGED exch
  BY <1>1, <1>2, UpTask, RestingUntouched
<1>3. ASSUME NEW o \in OpenOrders(rows),
             exch' = [exch EXCEPT ![o].status = IF @ = "open" THEN "canceled" ELSE @],
             Update(o, exch'[o], task)
      PROVE  StopInv'
  <2> DEFINE a == exch'[o]
  <2>1. o \in Oids
    BY DEF OpenOrders
  <2>2. Calm /\ a \in OrderRecords /\ o \notin LiveStops'
    <3>1. CASE exch[o].status = "open"
      <4>1. exch' = [exch EXCEPT ![o].status = "canceled"]
        BY <1>3, <3>1
      <4>2. QED
        BY <4>1, <3>1, <2>1, <1>1, CalmCancel
    <3>2. CASE exch[o].status # "open"
      <4>1. exch' = exch
        <5>1. exch \in Tables /\ exch[o] = [exch[o] EXCEPT !.status = exch[o].status]
          BY StopFacts, <2>1 DEF OrderRecords
        <5>2. exch' = [exch EXCEPT ![o] = [exch[o] EXCEPT !.status = exch[o].status]]
          BY <1>3, <3>2
        <5>3. QED
          BY <5>1, <5>2 DEF Tables
      <4>2. Calm /\ LiveStops' = LiveStops
        BY <4>1, <1>1, CalmSame
      <4>3. QED
        BY <4>1, <4>2, <3>2, <2>1, StopFacts DEF LiveStops, Live
    <3>3. QED
      BY <3>1, <3>2
  <2> HIDE DEF a
  <2>3. Update(o, a, task)
    BY <1>3 DEF a
  <2>4. QED
    BY <1>1, <2>1, <2>2, <2>3, RestingUpdate
<1>4. QED
  BY <1>2, <1>3 DEF ClearOrder

\* The exit is refused.
LEMMA ExitRefusedGood == ASSUME StopInv, ExitRefused PROVE StopInv'
<1>1. task \in Tasks /\ OpenStops(rows) \in SUBSET Oids
  BY StopFacts
<1> DEFINE S == OpenStops(rows)
           u == task.up
           t == [At("refind") EXCEPT !.walk = S, !.up = u]
<1> HIDE DEF S, u
<1>2. S \in SUBSET Oids /\ u \in {"idle", "trade", "others"}
  BY <1>1 DEF S, u, Tasks
<1>3. t \in Tasks /\ Resting(t)
  <2>1. "refind" \in Steps
    BY DEF Steps
  <2>2. At("refind") \in Tasks /\ At("refind").step = "refind" /\ At("refind").active = {}
    BY <2>1, AtTask
  <2>3. t \in Tasks /\ t.step = "refind" /\ t.active = {}
    <3> DEFINE b == At("refind")
    <3> HIDE DEF b
    <3>1. b \in Tasks /\ b.step = "refind" /\ b.active = {} /\ t = [b EXCEPT !.walk = S, !.up = u]
      BY <2>2 DEF b
    <3> HIDE DEF t
    <3>2. QED
      BY <3>1, <1>2 DEF Tasks
  <2>4. QED
    BY <2>3 DEF Resting
<1>4. task' = At(u) \/ task' = t
  BY DEF ExitRefused, S, u
<1> HIDE DEF t
<1>5. task' \in Tasks /\ Resting(task')
  BY <1>1, <1>3, <1>4, UpTask DEF u
<1>6. QED
  BY <1>5, RestingUntouched DEF ExitRefused

\* handle_insufficient_funds
LEMMA RefindGood == ASSUME StopInv, Refind PROVE StopInv'
<1>1. task \in Tasks /\ Resting(task) /\ blocks' = blocks /\ faults' = faults /\ exch' = exch
  BY StopFacts DEF Resting, Refind
<1>2. Calm /\ LiveStops' = LiveStops
  BY <1>1, CalmSame
<1>3. CASE task.walk = {}
  BY <1>1, <1>3, UpTask, RestingUntouched DEF Refind
<1>4. CASE task.walk # {}
  <2> DEFINE o == First(task.walk)
             W == task.walk \ {o}
             rest == [task EXCEPT !.walk = W]
  <2>1. o \in Oids /\ W \in SUBSET Oids
    BY <1>1, <1>4, FirstIn DEF Tasks
  <2>2. rest \in Tasks /\ Resting(rest)
    <3> HIDE DEF W
    <3>1. QED
      BY <1>1, <2>1 DEF Tasks, Resting
  <2>3. Update(o, exch[o], rest) \/ (Untouched /\ task' = rest)
    BY <1>4 DEF Refind
  <2> HIDE DEF rest, o
  <2>4. CASE Update(o, exch[o], rest)
    <3>1. exch[o] \in OrderRecords /\ (o \in LiveStops' => exch[o].status = "open")
      BY <1>2, <2>1, StopFacts DEF LiveStops, Live
    <3>2. QED
      BY <1>2, <2>1, <2>2, <2>4, <3>1, RestingUpdate
  <2>5. CASE Untouched /\ task' = rest
    BY <1>1, <2>2, <2>5, RestingUntouched
  <2>6. QED
    BY <2>3, <2>4, <2>5
<1>5. QED
  BY <1>3, <1>4

\* An order of the trade is placed and its row added.
LEMMA PlacedKeeps ==
    ASSUME StopInv, NEW a \in OrderRecords, Placed(a), a.kind # "stop", a.status # "none",
           a.status = "open" => a.filled = 0, UNCHANGED <<blocks, faults>>,
           rows' = [rows EXCEPT ![NextId] = a], trade' \in TradeRecords, Commit,
           task' \in Tasks, Working(task', rows'), Watched(task', LiveStops', faults')
    PROVE  StopInv'
<1> DEFINE k == NextId
<1>1. Calm /\ LiveStops' = LiveStops /\ k \in Oids
  BY CalmPlaced
<1>2. exch[k] = NoOrder
  BY <1>1, FreshOrder DEF StopInv
<1>3. rows \in Tables
  BY StopFacts
<1> HIDE DEF k
<1>4. rows' = [rows EXCEPT ![k] = a]
  BY DEF k
<1>5. rows' \in Tables /\ \A p \in Oids \ {k} : rows'[p] = rows[p]
  BY <1>1, <1>3, <1>4 DEF Tables
<1>6. Orphans(rows)' \subseteq Orphans(rows)
  BY <1>1, <1>2, <1>5 DEF Orphans, OpenStops, LiveStops, Live, NoOrder
<1>7. QED
  BY <1>1, <1>5, <1>6, StepKeeps DEF Commit

\* An order as it is sent.
LEMMA NewOrderType ==
    ASSUME NEW kind \in {"entry", "exit", "stop"}, NEW n \in Nat
    PROVE  /\ NewOrder(kind, n) \in OrderRecords
           /\ NewOrder(kind, n).kind = kind /\ NewOrder(kind, n).status = "open"
           /\ NewOrder(kind, n).filled = 0 /\ NewOrder(kind, n).amount = n
BY DEF NewOrder, OrderRecords

\* execute_trade_exit
LEMMA PlaceExitGood == ASSUME StopInv, PlaceExit PROVE StopInv'
<1> DEFINE n == IF task.size = 0 \/ task.size > trade.amount THEN trade.amount ELSE task.size
           f == IF n <= Position THEN n ELSE Position
           s == IF f = n THEN "closed" ELSE "canceled"
<1>1. PICK a \in {NewOrder("exit", n), [NewOrder("exit", n) EXCEPT !.status = s, !.filled = f]} :
         /\ Placed(a)
         /\ rows' = [rows EXCEPT ![NextId] = a]
         /\ trade' = IF Ended(a) THEN Book(trade, rows', NextId, FALSE) ELSE trade
         /\ Commit
         /\ task' = Cancelling(IF trade'.open THEN {} ELSE OpenStops(rows'), At(task.up))
  BY DEF PlaceExit
<1>2. task \in Tasks /\ trade \in TradeRecords /\ rows \in Tables /\ faults \in Nat
      /\ LiveStops \in SUBSET Oids
  BY StopFacts
<1>3. n \in Nat /\ f \in Nat /\ s \in {"closed", "canceled"}
  <2>1. n \in Nat
    BY <1>2 DEF Tasks, TradeRecords
  <2>2. Position \in Int /\ Position > 0
    BY StopFacts, SumType DEF Position, PlaceExit
  <2> HIDE DEF n
  <2>3. QED
    BY <2>1, <2>2
<1> HIDE DEF n, f, s
<1>4. /\ a \in OrderRecords /\ a.kind # "stop" /\ a.status # "none"
      /\ a.status = "open" => a.filled = 0
  <2>1. CASE a = NewOrder("exit", n)
    BY <2>1, <1>3, NewOrderType
  <2>2. CASE a = [NewOrder("exit", n) EXCEPT !.status = s, !.filled = f]
    <3>1. a \in OrderRecords /\ a.kind = "exit" /\ a.status = s
      BY <2>2, <1>3 DEF NewOrder, OrderRecords
    <3>2. QED
      BY <3>1, <1>3
  <2>3. QED
    BY <1>1, <2>1, <2>2
<1>5. UNCHANGED <<blocks, faults>>
  BY DEF PlaceExit
<1>6. Calm /\ LiveStops' = LiveStops /\ NextId \in Oids
  BY <1>1, <1>4, <1>5, CalmPlaced
<1>7. rows' \in Tables
  BY <1>1, <1>2, <1>4, <1>6 DEF Tables
<1>8. trade' \in TradeRecords
  <2> DEFINE R == rows'
             no == FALSE
  <2>1. no \in BOOLEAN /\ R \in Tables /\ (trade' = Book(trade, R, NextId, no) \/ trade' = trade)
    BY <1>1, <1>7
  <2> HIDE DEF R, no
  <2>2. Book(trade, R, NextId, no) \in TradeRecords
    BY <2>1, <1>2, <1>6, BookType
  <2>3. QED
    BY <2>1, <2>2, <1>2
<1>9. task' \in Tasks /\ Working(task', rows') /\ Watched(task', LiveStops', faults')
  <2> DEFINE R == rows'
             S == IF trade'.open THEN {} ELSE OpenStops(R)
             L == LiveStops'
             m == faults'
  <2>1. S \in SUBSET Oids /\ S \subseteq OpenStops(R) /\ L \in SUBSET Oids /\ m \in Nat
        /\ task' = Cancelling(S, At(task.up))
    BY <1>1, <1>2, <1>5, <1>6 DEF OpenStops
  <2> HIDE DEF R, S, L, m
  <2>2. /\ Cancelling(S, At(task.up)) \in Tasks /\ Working(Cancelling(S, At(task.up)), R)
        /\ Watched(Cancelling(S, At(task.up)), L, m)
    BY <2>1, <1>2, UpTask, RestingCancelling
  <2>3. QED
    BY <2>1, <2>2 DEF R, L, m
<1>10. QED
  BY <1>1, <1>4, <1>5, <1>8, <1>9, PlacedKeeps

\* A position adjustment buys.
LEMMA AddEntryGood == ASSUME StopInv, AddEntry PROVE StopInv'
<1> DEFINE s == "closed"
<1>1. PICK a \in {NewOrder("entry", AddSize),
                  [NewOrder("entry", AddSize) EXCEPT !.status = s, !.filled = AddSize]} :
         /\ Placed(a)
         /\ rows' = [rows EXCEPT ![NextId] = a]
         /\ trade' = IF Ended(a) THEN Book(trade, rows', NextId, FALSE) ELSE trade
         /\ Commit
         /\ task' = Cancelling(IF Ended(a) THEN OpenStops(rows') ELSE {}, Idle)
  BY DEF AddEntry
<1>2. trade \in TradeRecords /\ rows \in Tables /\ faults \in Nat /\ LiveStops \in SUBSET Oids
      /\ AddSize \in Nat /\ s \in {"closed", "canceled"}
  BY StopFacts, StopAssumption
<1> HIDE DEF s
<1>4. /\ a \in OrderRecords /\ a.kind # "stop" /\ a.status # "none"
      /\ a.status = "open" => a.filled = 0
  <2>1. CASE a = NewOrder("entry", AddSize)
    BY <2>1, <1>2, NewOrderType
  <2>2. CASE a = [NewOrder("entry", AddSize) EXCEPT !.status = s, !.filled = AddSize]
    <3>1. a \in OrderRecords /\ a.kind = "entry" /\ a.status = s
      BY <2>2, <1>2 DEF NewOrder, OrderRecords
    <3>2. QED
      BY <3>1, <1>2
  <2>3. QED
    BY <1>1, <2>1, <2>2
<1>5. UNCHANGED <<blocks, faults>>
  BY DEF AddEntry
<1>6. Calm /\ LiveStops' = LiveStops /\ NextId \in Oids
  BY <1>1, <1>4, <1>5, CalmPlaced
<1>7. rows' \in Tables
  BY <1>1, <1>2, <1>4, <1>6 DEF Tables
<1>8. trade' \in TradeRecords
  <2> DEFINE R == rows'
             no == FALSE
  <2>1. no \in BOOLEAN /\ R \in Tables /\ (trade' = Book(trade, R, NextId, no) \/ trade' = trade)
    BY <1>1, <1>7
  <2> HIDE DEF R, no
  <2>2. Book(trade, R, NextId, no) \in TradeRecords
    BY <2>1, <1>2, <1>6, BookType
  <2>3. QED
    BY <2>1, <2>2, <1>2
<1>9. task' \in Tasks /\ Working(task', rows') /\ Watched(task', LiveStops', faults')
  <2> DEFINE R == rows'
             S == IF Ended(a) THEN OpenStops(R) ELSE {}
             L == LiveStops'
             m == faults'
  <2>1. S \in SUBSET Oids /\ S \subseteq OpenStops(R) /\ L \in SUBSET Oids /\ m \in Nat
        /\ task' = Cancelling(S, Idle)
    BY <1>1, <1>2, <1>5, <1>6 DEF OpenStops
  <2> HIDE DEF R, S, L, m
  <2>2. Idle \in Tasks /\ Resting(Idle)
    BY IdleTask DEF Tasks, Resting
  <2>3. /\ Cancelling(S, Idle) \in Tasks /\ Working(Cancelling(S, Idle), R)
        /\ Watched(Cancelling(S, Idle), L, m)
    BY <2>1, <2>2, RestingCancelling
  <2>4. QED
    BY <2>1, <2>3 DEF R, L, m
<1>10. QED
  BY <1>1, <1>4, <1>5, <1>8, <1>9, PlacedKeeps

\* The stop is created, by the only handler that may: all others are on its lists.
LEMMA CreateStopGood == ASSUME StopInv, CreateStop PROVE StopInv'
<1> DEFINE k == NextId
           a == Created(trade.amount)
<1>1. /\ k \in Oids /\ exch' = [exch EXCEPT ![k] = a]
      /\ \/ rows' = [rows EXCEPT ![k] = a] /\ faults' = faults
         \/ rows' = rows /\ faults' = faults + 1
      /\ task' = At("trade") /\ UNCHANGED <<blocks, trade, saved>> /\ task.step = "create"
  BY DEF CreateStop, Placed, Fault
<1>2. exch[k] = NoOrder /\ \A p \in Oids : p < k => exch[p].status # "none"
  BY <1>1, FreshOrder DEF StopInv
<1>3. trade \in TradeRecords /\ exch \in Tables /\ rows \in Tables /\ faults \in Nat
      /\ LiveStops \in SUBSET Oids /\ Placing(exch)
  BY StopFacts DEF StopInv
<1>4. a \in OrderRecords /\ a.kind = "stop" /\ a.status = "open" /\ a.filled = 0
  <2> DEFINE n == trade.amount
             z == trade.stop
             b == NewOrder("stop", n)
  <2>1. n \in Nat /\ z \in Nat
    BY <1>3 DEF TradeRecords
  <2> HIDE DEF n, z
  <2>2. b \in OrderRecords /\ b.kind = "stop" /\ b.status = "open" /\ b.filled = 0
    BY <2>1, NewOrderType
  <2>3. a = [b EXCEPT !.stop = z]
    BY DEF Created, n, z
  <2> HIDE DEF a, b
  <2>4. QED
    BY <2>1, <2>2, <2>3 DEF OrderRecords
<1> HIDE DEF k, a
<1>5. exch' \in Tables /\ exch'[k] = a /\ \A p \in Oids \ {k} : exch'[p] = exch[p]
  BY <1>1, <1>3, <1>4 DEF Tables
<1>6. LiveStops' = LiveStops \cup {k}
  BY <1>1, <1>4, <1>5 DEF LiveStops, Live
<1>7. Placing(exch')
  <2>1. \A o, p \in Oids : p < o /\ exch'[o].status # "none" => exch'[p].status # "none"
    BY <1>1, <1>2, <1>3, <1>4, <1>5 DEF Placing
  <2>2. \A o \in Oids : /\ exch'[o].status = "open" => exch'[o].filled = 0
                        /\ exch'[o].status = "none" => exch'[o] = NoOrder
    BY <1>1, <1>3, <1>4, <1>5 DEF Placing
  <2>3. QED
    BY <2>1, <2>2 DEF Placing
<1>8. rows' \in Tables
  BY <1>1, <1>3, <1>4 DEF Tables
<1>9. faults' \in Nat /\ faults' >= faults
  BY <1>1, <1>3
<1>10. task' \in Tasks /\ Resting(task')
  <2>1. "trade" \in Steps
    BY DEF Steps
  <2>2. QED
    BY <2>1, <1>1, AtTask DEF Resting
<1>11. Types'
  BY <1>1, <1>3, <1>5, <1>8, <1>9, <1>10 DEF StopInv, Types
<1>12. Cardinality(LiveStops) <= faults
  BY <1>1 DEF StopInv, Watched
<1>13. Cardinality(LiveStops') <= faults + 1 /\ LiveStops' \in SUBSET Oids
       /\ Cardinality(LiveStops') \in Nat
  <2>1. LiveStops \cup {k} \in SUBSET Oids
    BY <1>1, <1>3
  <2> DEFINE M == LiveStops \cup {k}
  <2> HIDE DEF M
  <2>2. M \in SUBSET Oids /\ M \subseteq LiveStops \cup {k}
    BY <2>1 DEF M
  <2>3. /\ Cardinality(M) <= Cardinality(LiveStops) + 1
        /\ Cardinality(M) \in Nat /\ Cardinality(LiveStops) \in Nat
    BY <2>2, <1>1, <1>3, OneMore
  <2>4. Cardinality(M) <= faults + 1
    BY <2>3, <1>12, <1>3
  <2>5. QED
    BY <2>2, <2>3, <2>4, <1>6 DEF M
<1>14. Cardinality(Orphans(rows)') <= faults'
  <2> DEFINE A == Orphans(rows)'
             B == Orphans(rows)
  <2>1. Cardinality(B) <= faults /\ B \in SUBSET Oids /\ A \in SUBSET Oids
    BY <1>3, <1>13 DEF StopInv, Counted, Orphans
  <2>2. CASE rows' = [rows EXCEPT ![k] = a] /\ faults' = faults
    <3>1. A \subseteq B
      <4>1. rows'[k] = a /\ \A p \in Oids \ {k} : rows'[p] = rows[p]
        BY <2>2, <1>1, <1>3 DEF Tables
      <4>2. k \in OpenStops(rows') /\ \A p \in Oids \ {k} : p \in OpenStops(rows) => p \in OpenStops(rows')
        BY <4>1, <1>1, <1>4 DEF OpenStops
      <4>3. QED
        BY <4>2, <1>6, <1>3 DEF Orphans
    <3> HIDE DEF A, B
    <3>2. Cardinality(A) <= Cardinality(B) /\ Cardinality(A) \in Nat /\ Cardinality(B) \in Nat
      BY <3>1, <2>1, Fewer
    <3>3. Cardinality(A) <= faults'
      BY <3>2, <2>1, <2>2, <1>3
    <3>4. QED
      BY <3>3 DEF A
  <2>3. CASE rows' = rows /\ faults' = faults + 1
    <3>1. A \subseteq B \cup {k}
      BY <2>3, <1>6 DEF Orphans
    <3> HIDE DEF A, B
    <3>2. Cardinality(A) <= Cardinality(B) + 1 /\ Cardinality(A) \in Nat /\ Cardinality(B) \in Nat
      BY <3>1, <2>1, <1>1, OneMore
    <3>3. Cardinality(A) <= faults'
      BY <3>2, <2>1, <2>3, <1>3
    <3>4. QED
      BY <3>3 DEF A
  <2>4. QED
    BY <2>2, <2>3, <1>1
<1>15. Cardinality(Orphans(saved.rows)') <= faults' + 1
  <2> DEFINE A == Orphans(saved.rows)'
             B == LiveStops'
  <2>1. A \in SUBSET Oids /\ B \in SUBSET Oids /\ A \subseteq B
    BY <1>13 DEF Orphans
  <2>2. Cardinality(B) <= faults + 1
    BY <1>13
  <2> HIDE DEF A, B
  <2>3. Cardinality(A) <= Cardinality(B) /\ Cardinality(A) \in Nat /\ Cardinality(B) \in Nat
    BY <2>1, Fewer
  <2>4. Cardinality(A) <= faults' + 1
    BY <2>2, <2>3, <1>3, <1>9
  <2>5. QED
    BY <2>4 DEF A
<1>16. Counted'
  <2>1. StopsAccounted'
    BY <1>13, <1>9, <1>3 DEF StopsAccounted
  <2>2. QED
    BY <2>1, <1>14, <1>15 DEF Counted
<1>17. Working(task', rows') /\ Watched(task', LiveStops', faults')
  BY <1>10, RestingTask
<1>18. QED
  BY <1>7, <1>11, <1>16, <1>17 DEF StopInv

---------------------------------------------------------------------------
(* Recovery books every order again.                                       *)

\* What booking keeps, booking again keeps.
LEMMA RebookedIn ==
    ASSUME NEW V, trade \in V,
           \A t \in V, n \in Oids : Book(t, Walked(n), n, TRUE) \in V
    PROVE  Rebooked \in V
<1> MaxOrders \in Nat
  BY StopAssumption
<1> DEFINE B(t, n) == Book(t, Walked(n), n, TRUE)
           skip(n) == exch[n].status \in {"none", "open"} \/ Empty(exch[n])
           F == [n \in 1..MaxOrders |-> [v \in V |-> IF skip(n) THEN v ELSE B(v, n)]]
           P(g) == g = [n \in 0..MaxOrders |->
                          IF n = 0 THEN trade
                          ELSE IF skip(n) THEN g[n - 1] ELSE B(g[n - 1], n)]
<1>1. \A t \in V, n \in 1..MaxOrders : B(t, n) \in V
  BY DEF Oids
<1>2. PICK g \in [0..MaxOrders -> V] :
         g[0] = trade /\ \A n \in 1..MaxOrders : g[n] = F[n][g[n - 1]]
  <2>1. F \in [1..MaxOrders -> [V -> V]]
    <3> HIDE DEF B, skip
    <3>1. QED
      BY <1>1
  <2> HIDE DEF F
  <2>2. Runs(MaxOrders, V, trade, F)
    BY <2>1, Recursion
  <2>3. QED
    BY <2>2 DEF Runs
<1>3. \E f : P(f)
  <2> HIDE DEF B, skip
  <2>1. ASSUME NEW n \in 0..MaxOrders, n # 0
        PROVE  g[n] = IF skip(n) THEN g[n - 1] ELSE B(g[n - 1], n)
    <3>a. n \in 1..MaxOrders /\ n - 1 \in 0..MaxOrders
      BY <2>1
    <3>1. n \in 1..MaxOrders /\ g[n - 1] \in V
      BY <3>a, <1>2
    <3>2. F[n] = [v \in V |-> IF skip(n) THEN v ELSE B(v, n)]
      BY <3>1
    <3>3. F[n][g[n - 1]] = IF skip(n) THEN g[n - 1] ELSE B(g[n - 1], n)
      BY <3>1, <3>2
    <3>4. QED
      BY <3>1, <3>3, <1>2
  <2>2. g = [n \in 0..MaxOrders |-> g[n]]
    OBVIOUS
  <2>3. P(g)
    BY <2>1, <2>2, <1>2
  <2>4. QED
    BY <2>3
<1> DEFINE s == CHOOSE f : P(f)
<1>4. P(s)
  BY <1>3
<1>5. Rebooked = s[MaxOrders]
  BY DEF Rebooked
<1> HIDE DEF s
<1> DEFINE T == {n \in 0..MaxOrders : s[n] \in V}
<1>6. T = 0..MaxOrders
  <2> HIDE DEF B, skip
  <2>1. 0 \in T /\ T \in SUBSET (0..MaxOrders)
    BY <1>4
  <2>2. ASSUME NEW n \in 1..MaxOrders, n - 1 \in T PROVE n \in T
    <3>1. n \in 0..MaxOrders /\ n # 0 /\ s[n - 1] \in V
      BY <2>2
    <3>2. s[n] = IF skip(n) THEN s[n - 1] ELSE B(s[n - 1], n)
      BY <3>1, <1>4
    <3>3. s[n] \in V
      BY <3>1, <3>2, <1>1
    <3>4. QED
      BY <3>1, <3>3
  <2> HIDE DEF T
  <2>3. QED
    BY <2>1, <2>2, Induction
<1>7. QED
  <2>1. MaxOrders \in T
    BY <1>6
  <2>2. QED
    BY <2>1, <1>5

\* The rows that handle_onexchange_order leaves.
LEMMA WalkedTables ==
    ASSUME StopInv, NEW n
    PROVE  Walked(n) \in Tables
<1> DEFINE K(o) == IF rows[o].kind = "none" /\ exch[o].kind = "stop" THEN "exit"
                   ELSE IF rows[o].kind = "none" THEN exch[o].kind ELSE rows[o].kind
           W(o) == IF o > n \/ exch[o].status = "none" THEN rows[o]
                   ELSE [exch[o] EXCEPT !.kind = K(o)]
<1>1. ASSUME NEW o \in Oids
      PROVE  W(o) \in OrderRecords
  <2>1. exch[o] \in OrderRecords /\ rows[o] \in OrderRecords
    BY StopFacts
  <2>2. [exch[o] EXCEPT !.kind = K(o)] \in OrderRecords
    BY <2>1 DEF OrderRecords
  <2>3. QED
    BY <2>1, <2>2
<1>2. Walked(n) = [o \in Oids |-> W(o)]
  BY DEF Walked
<1> HIDE DEF W
<1>3. QED
  BY <1>1, <1>2 DEF Tables

\* exit_positions comes to the trade, and may recover its orders.
LEMMA VisitGood == ASSUME StopInv, Visit PROVE StopInv'
<1>1. /\ exch' = exch /\ faults' = faults /\ blocks' = blocks
      /\ task' = [At("check") EXCEPT !.walk = OpenStops(rows')]
  BY DEF Visit
<1>2. Calm /\ LiveStops' = LiveStops /\ faults \in Nat /\ LiveStops \in SUBSET Oids
      /\ faults' \in Nat /\ faults' >= faults
  BY <1>1, CalmSame, StopFacts
<1>3. /\ rows' \in Tables /\ trade' \in TradeRecords
      /\ saved' = saved \/ saved' = [rows |-> rows', trade |-> trade']
      /\ Orphans(rows)' \subseteq Orphans(rows)
  <2>1. CASE Recover
    <3>1. Walked(MaxOrders) \in Tables
      BY WalkedTables
    <3>2. Rebooked \in TradeRecords
      <4> DEFINE yes == TRUE
      <4>1. yes \in BOOLEAN
        OBVIOUS
      <4> HIDE DEF yes
      <4>2. ASSUME NEW t \in TradeRecords, NEW n \in Oids
            PROVE  Book(t, Walked(n), n, yes) \in TradeRecords
        <5>1. Walked(n) \in Tables
          BY WalkedTables
        <5>2. QED
          BY <4>1, <5>1, BookType
      <4>3. trade \in TradeRecords
        BY StopFacts
      <4>4. QED
        BY <4>2, <4>3, RebookedIn DEF yes
    <3>3. Orphans(rows)' \subseteq Orphans(rows)
      BY <2>1, <1>2 DEF Recover, Orphans
    <3>4. QED
      BY <2>1, <3>1, <3>2, <3>3 DEF Recover, Commit
  <2>2. CASE Untouched
    BY <2>2, <1>2, StopFacts DEF Untouched, Orphans
  <2>3. QED
    BY <2>1, <2>2 DEF Visit
<1>4. Cardinality(LiveStops \ OpenStops(rows')) <= faults
  <2>1. Counted'
    BY <1>2, <1>3, CountedKept DEF StopInv
  <2>2. QED
    BY <2>1, <1>1, <1>2 DEF Counted, Orphans
<1>5. task' \in Tasks /\ Working(task', rows') /\ Watched(task', LiveStops', faults')
  <2> DEFINE S == OpenStops(rows')
             b == At("check")
             t == [b EXCEPT !.walk = S]
  <2>1. S \in SUBSET Oids /\ "check" \in Steps
    BY DEF OpenStops, Steps
  <2>2. b \in Tasks /\ b.step = "check" /\ b.active = {} /\ b.found = {}
    BY <2>1, AtTask
  <2>3. task' = t /\ Cardinality(LiveStops \ S) <= faults
    BY <1>1, <1>4
  <2> HIDE DEF S, b
  <2>4. t \in Tasks /\ t.step = "check" /\ t.active = {} /\ t.walk = S
    BY <2>1, <2>2 DEF Tasks
  <2> HIDE DEF t
  <2>5. t.walk \cup t.active = S
    BY <2>4
  <2>6. Working(t, rows') /\ Watched(t, LiveStops, faults)
    BY <2>3, <2>4, <2>5 DEF Working, Watched, Doing
  <2>7. QED
    BY <2>3, <2>4, <2>6, <1>1, <1>2
<1>6. QED
  BY <1>2, <1>3, <1>5, StepKeeps

---------------------------------------------------------------------------
(* The stop is fetched, and replaced or created.                           *)

\* A stop is fetched.
LEMMA ReadStopGood == ASSUME StopInv, NEW o \in Oids, ReadStop(o) PROVE StopInv'
<1> DEFINE W == task.walk \ {o}
           G == task.found \cup {o}
           A == IF exch[o].status = "open" THEN task.active \cup {o} ELSE task.active
           c == [task EXCEPT !.walk = W, !.found = G, !.active = A]
           t == IF exch[o].status = "closed" THEN At("others") ELSE c
<1>1. /\ exch' = exch /\ faults' = faults /\ blocks' = blocks /\ task.step = "check"
      /\ task \in Tasks /\ task.active \subseteq task.found
      /\ Watched(task, LiveStops, faults)
  BY StopFacts DEF ReadStop, StopInv
<1>2. Calm /\ LiveStops' = LiveStops
  BY <1>1, CalmSame
<1>3. Update(o, exch[o], t)
  BY DEF ReadStop
<1>4. W \in SUBSET Oids /\ G \in SUBSET Oids /\ A \in SUBSET Oids /\ A \subseteq G
      /\ LiveStops \ (W \cup A) \subseteq LiveStops \ (task.walk \cup task.active)
  BY <1>1, StopFacts DEF LiveStops, Live
<1> HIDE DEF W, G, A
<1>5. /\ c \in Tasks /\ c.step = "check" /\ c.walk = W /\ c.active = A /\ c.found = G
  BY <1>1, <1>4 DEF Tasks
<1> HIDE DEF c
<1>6. /\ t \in Tasks /\ t.step # "cancel" /\ t.active \subseteq t.found
      /\ Watched(t, LiveStops, faults)
  <2>1. CASE t = c
    <3>1. Cardinality(LiveStops \ (task.walk \cup task.active)) <= faults
      BY <1>1 DEF Watched, Doing
    <3>2. Cardinality(LiveStops \ (W \cup A)) <= faults
      <4> DEFINE X == LiveStops \ (W \cup A)
                 Y == LiveStops \ (task.walk \cup task.active)
      <4>1. X \in SUBSET Oids /\ Y \in SUBSET Oids /\ X \subseteq Y /\ Cardinality(Y) <= faults
        BY <1>4, <3>1, StopFacts
      <4> HIDE DEF X, Y
      <4>2. Cardinality(X) <= Cardinality(Y) /\ Cardinality(X) \in Nat /\ Cardinality(Y) \in Nat
        BY <4>1, Fewer
      <4>3. Cardinality(X) <= faults
        BY <4>1, <4>2, StopFacts
      <4>4. QED
        BY <4>3 DEF X
    <3>3. Watched(c, LiveStops, faults)
      BY <3>2, <1>5 DEF Watched, Doing
    <3>4. QED
      BY <2>1, <3>3, <1>4, <1>5
  <2>2. CASE t = At("others")
    <3>1. "others" \in Steps
      BY DEF Steps
    <3>2. t \in Tasks /\ t.step = "others" /\ t.active = {}
      BY <3>1, <2>2, AtTask
    <3>3. QED
      BY <3>2 DEF Watched, Doing
  <2>3. QED
    BY <2>1, <2>2
<1>7. exch[o] \in OrderRecords /\ (o \in LiveStops' => exch[o].status = "open")
  BY <1>2, StopFacts DEF LiveStops, Live
<1> HIDE DEF t
<1>8. Watched(t, LiveStops', faults')
  BY <1>6, <1>1, <1>2
<1>9. QED
  BY <1>2, <1>3, <1>6, <1>7, <1>8, UpdateKeeps

\* A stop cannot be fetched.
LEMMA CheckFailsGood == ASSUME StopInv, CheckFails PROVE StopInv'
<1>1. /\ exch' = exch /\ blocks' = blocks /\ task.step = "check" /\ task.walk # {} /\ Untouched
      /\ task \in Tasks /\ task.active \subseteq task.found /\ task.walk \in SUBSET Oids
      /\ Watched(task, LiveStops, faults) /\ faults \in Nat /\ LiveStops \in SUBSET Oids
  BY StopFacts DEF CheckFails, StopInv
<1>2. CASE task' = [task EXCEPT !.walk = @ \ {First(@)}] /\ Fault
  <2> DEFINE o == First(task.walk)
             W == task.walk \ {o}
             c == [task EXCEPT !.walk = W]
             X == LiveStops \ (W \cup task.active)
             Y == LiveStops \ (task.walk \cup task.active)
  <2>1. o \in Oids /\ W \in SUBSET Oids /\ task' = c /\ faults' = faults + 1
    BY <1>1, <1>2, FirstIn DEF Fault
  <2>2. X \in SUBSET Oids /\ Y \in SUBSET Oids /\ X \subseteq Y \cup {o}
    BY <1>1
  <2>3. Cardinality(Y) <= faults
    BY <1>1 DEF Watched, Doing
  <2> HIDE DEF X, Y, o
  <2>4. Cardinality(X) <= Cardinality(Y) + 1 /\ Cardinality(X) \in Nat /\ Cardinality(Y) \in Nat
    BY <2>1, <2>2, OneMore
  <2>5. Cardinality(X) <= faults'
    BY <2>1, <2>3, <2>4, <1>1
  <2> HIDE DEF W
  <2>6. c \in Tasks /\ c.step = "check" /\ c.walk = W /\ c.active = task.active /\ c.found = task.found
    BY <1>1, <2>1 DEF Tasks
  <2> HIDE DEF c
  <2>7. Cardinality(LiveStops \ (c.walk \cup c.active)) <= faults'
    BY <2>5, <2>6 DEF X
  <2>8. Watched(c, LiveStops, faults') /\ Working(c, rows)
    BY <2>6, <2>7, <1>1 DEF Watched, Working, Doing
  <2>9. Calm /\ LiveStops' = LiveStops
    BY <1>1, <2>1, CalmSame
  <2>10. QED
    BY <1>1, <2>1, <2>6, <2>8, <2>9, UntouchedKeeps, StopFacts DEF Untouched
<1>3. CASE task' = At("others") /\ UNCHANGED faults
  <2>1. "others" \in Steps
    BY DEF Steps
  <2>2. task' \in Tasks /\ Resting(task')
    BY <2>1, <1>3, AtTask DEF Resting
  <2>3. QED
    BY <2>2, <1>1, <1>3, RestingUntouched
<1>4. QED
  BY <1>2, <1>3 DEF CheckFails

\* The stop is kept, replaced or created.
LEMMA ProtectGood == ASSUME StopInv, Protect PROVE StopInv'
<1>1. /\ exch' = exch /\ blocks' = blocks /\ faults' = faults /\ Untouched
      /\ task.step = "check" /\ task.walk = {}
      /\ task \in Tasks /\ task.active \subseteq task.found
      /\ Watched(task, LiveStops, faults) /\ faults \in Nat /\ LiveStops \in SUBSET Oids
      /\ OpenStops(rows) \in SUBSET Oids
  BY StopFacts DEF Protect, StopInv
<1>2. Calm /\ LiveStops' = LiveStops
  BY <1>1, CalmSame
<1>3. "trade" \in Steps /\ "create" \in Steps
  BY DEF Steps
<1>4. At("create") \in Tasks /\ At("create").step = "create" /\ At("create").active = {}
      /\ At("create").found = {}
  BY <1>3, AtTask
<1>5. Cardinality(LiveStops \ OpenStops(rows)) <= faults
  BY DEF StopInv, Counted, Orphans
<1>6. CASE task' = At("trade")
  <2>1. task' \in Tasks /\ Resting(task')
    BY <1>3, <1>6, AtTask DEF Resting
  <2>2. QED
    BY <2>1, <1>1, RestingUntouched
<1>7. ASSUME Cardinality(LiveStops) <= faults, task' = At("create")
      PROVE  StopInv'
  <2>1. Watched(task', LiveStops, faults) /\ Working(task', rows) /\ task' \in Tasks
    BY <1>4, <1>7 DEF Watched, Working, Doing
  <2>2. QED
    BY <2>1, <1>1, <1>2, UntouchedKeeps, StopFacts DEF Untouched
<1>8. CASE Missing /\ task' = At("create")
  <2>1. task.walk \cup task.active = {}
    BY <1>1, <1>8 DEF Missing
  <2>2. Cardinality(LiveStops \ {}) <= faults
    BY <2>1, <1>1 DEF Watched, Doing
  <2>3. LiveStops \ {} = LiveStops
    OBVIOUS
  <2>4. QED
    BY <1>7, <1>8, <2>2, <2>3
<1>9. CASE task' = Replace
  <2>1. CASE OpenStops(rows) = {}
    <3>1. task' = At("create") /\ LiveStops \ OpenStops(rows) = LiveStops
      BY <1>9, <2>1 DEF Replace, Cancelling
    <3>2. QED
      BY <3>1, <1>5, <1>7
  <2>2. CASE OpenStops(rows) # {}
    <3> DEFINE S == OpenStops(rows)
               b == At("create")
               c == Cancelling(S, b)
    <3>1. task' = c
      BY <1>9 DEF Replace
    <3>2. S \in SUBSET Oids /\ S # {} /\ b \in Tasks /\ b.step = "create" /\ b.active = {}
          /\ Cardinality(LiveStops \ S) <= faults
      BY <1>1, <1>4, <1>5, <2>2
    <3> HIDE DEF b
    <3>3. /\ c \in Tasks /\ c.active = b.active /\ c.step = "cancel" /\ c.todo = S /\ c.then = "create"
      BY <3>2, CancellingTask
    <3> HIDE DEF c
    <3>4. Watched(c, LiveStops, faults) /\ Working(c, rows)
      BY <3>2, <3>3 DEF Watched, Working, Doing
    <3>5. QED
      BY <3>1, <3>3, <3>4, <1>1, <1>2, UntouchedKeeps, StopFacts DEF Untouched
  <2>3. QED
    BY <2>1, <2>2
<1>10. QED
  BY <1>6, <1>8, <1>9 DEF Protect

\* The stop is refused.
LEMMA CreateRefusedGood == ASSUME StopInv, CreateRefused PROVE StopInv'
<1>1. /\ exch' = exch /\ blocks' = blocks /\ faults' = faults /\ Untouched
      /\ LiveStops \in SUBSET Oids /\ faults \in Nat
  BY StopFacts DEF CreateRefused
<1>2. Calm /\ LiveStops' = LiveStops
  BY <1>1, CalmSame
<1>3. CASE task' = At("trade")
  <2>1. "trade" \in Steps
    BY DEF Steps
  <2>2. task' \in Tasks /\ Resting(task')
    BY <2>1, <1>3, AtTask DEF Resting
  <2>3. QED
    BY <2>2, <1>1, RestingUntouched
<1>4. CASE StartExit(0, "trade")
  <2>1. task' \in Tasks /\ Working(task', rows) /\ Watched(task', LiveStops, faults)
    BY <1>1, <1>4, StartExitTask
  <2>2. QED
    BY <2>1, <1>1, <1>2, UntouchedKeeps, StopFacts DEF Untouched
<1>5. CASE task' = [At("refind") EXCEPT !.walk = OpenOrders(rows) \cup OpenStops(rows), !.up = "trade"]
  <2> DEFINE S == OpenOrders(rows) \cup OpenStops(rows)
             b == At("refind")
             t == [b EXCEPT !.walk = S, !.up = "trade"]
  <2>1. S \in SUBSET Oids /\ "refind" \in Steps
    BY StopFacts DEF Steps
  <2>2. b \in Tasks /\ b.step = "refind" /\ b.active = {}
    BY <2>1, AtTask
  <2>3. task' = t
    BY <1>5
  <2> HIDE DEF S, b
  <2>4. t \in Tasks /\ t.step = "refind" /\ t.active = {}
    BY <2>1, <2>2 DEF Tasks
  <2> HIDE DEF t
  <2>5. task' \in Tasks /\ Resting(task')
    BY <2>3, <2>4 DEF Resting
  <2>6. QED
    BY <2>5, <1>1, RestingUntouched
<1>6. QED
  BY <1>3, <1>4, <1>5 DEF CreateRefused

---------------------------------------------------------------------------
(* The rest of the loop, and a restart.                                    *)

\* The rest of the loop.
LEMMA OthersTask == At("others") \in Tasks /\ Resting(At("others"))
<1>1. "others" \in Steps
  BY DEF Steps
<1>2. QED
  BY <1>1, AtTask DEF Resting

\* The worker between two handlers rests.
LEMMA IdleResting == Idle \in Tasks /\ Resting(Idle)
BY IdleTask DEF Tasks, Resting

\* handle_trade
LEMMA HandleTradeGood == ASSUME StopInv, HandleTrade PROVE StopInv'
<1>1. /\ exch' = exch /\ blocks' = blocks /\ faults' = faults /\ rows' = rows /\ saved' = saved
      /\ LiveStops \in SUBSET Oids /\ faults \in Nat /\ trade \in TradeRecords
  BY StopFacts DEF HandleTrade
<1>2. Calm /\ LiveStops' = LiveStops
  BY <1>1, CalmSame
<1>3. trade' \in TradeRecords
  <2>1. trade' = trade \/ \E s \in 1..MaxStop : trade' = [trade EXCEPT !.stop = s]
    BY DEF HandleTrade
  <2>2. \A s \in 1..MaxStop : [trade EXCEPT !.stop = s] \in TradeRecords
    BY <1>1, StopAssumption DEF TradeRecords
  <2>3. QED
    BY <2>1, <2>2, <1>1
<1>4. task' = At("others") \/ StartExit(0, "others")
  BY DEF HandleTrade
<1>5. task' \in Tasks /\ Working(task', rows) /\ Watched(task', LiveStops, faults)
  <2>1. CASE task' = At("others")
    BY <2>1, OthersTask, RestingTask
  <2>2. CASE StartExit(0, "others")
    BY <2>2, <1>1, StartExitTask
  <2>3. QED
    BY <1>4, <2>1, <2>2
<1>6. QED
  BY <1>1, <1>2, <1>3, <1>5, UntouchedKeeps

\* The loop ends, with a commit or a rollback.
LEMMA EndVisitGood == ASSUME StopInv, EndVisit PROVE StopInv'
<1>1. task' \in Tasks /\ Resting(task') /\ exch' = exch /\ blocks' = blocks
  BY IdleResting DEF EndVisit
<1>2. CASE UNCHANGED <<rows, trade, faults>> /\ Commit
  <2>1. Calm /\ LiveStops' = LiveStops
    BY <1>1, <1>2, CalmSame
  <2>2. rows' \in Tables /\ trade' \in TradeRecords /\ Orphans(rows)' \subseteq Orphans(rows)
    BY <1>2, <2>1, StopFacts DEF Orphans
  <2>3. saved' = [rows |-> rows', trade |-> trade']
    BY <1>2 DEF Commit
  <2>4. Working(task', rows') /\ Watched(task', LiveStops', faults')
    BY <1>1, RestingTask
  <2>5. QED
    BY <1>1, <2>1, <2>2, <2>3, <2>4, StepKeeps
<1>3. CASE /\ saved.rows # rows /\ Fault
           /\ rows' = saved.rows /\ trade' = saved.trade /\ UNCHANGED saved
  BY <1>1, <1>3, RollbackKeeps DEF Fault
<1>4. QED
  BY <1>2, <1>3 DEF EndVisit

\* manage_open_orders
LEMMA ManageGood == ASSUME StopInv, NEW o \in Oids, Manage(o) PROVE StopInv'
<1> DEFINE a == exch'[o]
<1>1. blocks' = blocks /\ faults' = faults /\ Update(o, exch'[o], Idle)
  BY DEF Manage
<1>2. Calm /\ a \in OrderRecords /\ (o \in LiveStops' => a.status = "open")
  <2>1. CASE exch' = exch
    <3>1. Calm /\ LiveStops' = LiveStops
      BY <1>1, <2>1, CalmSame
    <3>2. QED
      BY <3>1, <2>1, StopFacts DEF LiveStops, Live
  <2>2. CASE exch[o].status = "open" /\ exch' = [exch EXCEPT ![o].status = "canceled"]
    <3>1. Calm /\ LiveStops' = LiveStops \ {o} /\ exch'[o] \in OrderRecords
      BY <1>1, <2>2, CalmCancel
    <3>2. QED
      BY <3>1
  <2>3. QED
    BY <2>1, <2>2 DEF Manage
<1> HIDE DEF a
<1>3. Update(o, a, Idle)
  BY <1>1 DEF a
<1>4. QED
  BY <1>2, <1>3, IdleResting, RestingUpdate

\* A force exit, or a position adjustment that sells.
LEMMA ExitOrTrimGood == ASSUME StopInv, ExitOrTrim PROVE StopInv'
<1>1. /\ exch' = exch /\ blocks' = blocks /\ faults' = faults /\ UNCHANGED <<rows, trade, saved>>
      /\ LiveStops \in SUBSET Oids /\ faults \in Nat
  BY StopFacts DEF ExitOrTrim
<1>2. Calm /\ LiveStops' = LiveStops
  BY <1>1, CalmSame
<1>3. task' \in Tasks /\ Working(task', rows) /\ Watched(task', LiveStops, faults)
  BY <1>1, StartExitTask DEF ExitOrTrim
<1>4. QED
  BY <1>1, <1>2, <1>3, UntouchedKeeps, StopFacts

\* The process dies, and the session with it.
LEMMA RestartGood == ASSUME StopInv, Restart PROVE StopInv'
<1>1. /\ exch' = exch /\ blocks' = blocks /\ saved' = saved
      /\ rows' = saved.rows /\ trade' = saved.trade
      /\ faults' = faults + 1 \/ (saved.rows = rows /\ faults' = faults)
  BY DEF Restart, Fault
<1>2. task' \in Tasks /\ Resting(task')
  <2> DEFINE S == OpenOrders(rows') \cup OpenStops(rows')
             b == At("start")
             t == [b EXCEPT !.walk = S]
  <2>1. S \in SUBSET Oids /\ "start" \in Steps
    BY DEF OpenStops, OpenOrders, Steps
  <2>2. b \in Tasks /\ b.step = "start" /\ b.active = {}
    BY <2>1, AtTask
  <2>3. task' = t
    BY DEF Restart
  <2> HIDE DEF S, b
  <2>4. t \in Tasks /\ t.step = "start" /\ t.active = {}
    BY <2>1, <2>2 DEF Tasks
  <2> HIDE DEF t
  <2>5. QED
    BY <2>3, <2>4 DEF Resting
<1>3. QED
  BY <1>1, <1>2, RollbackKeeps

\* startup_update_open_orders
LEMMA StartupGood == ASSUME StopInv, Startup PROVE StopInv'
<1>1. /\ exch' = exch /\ blocks' = blocks /\ task.step = "start" /\ task \in Tasks
      /\ task.active \subseteq task.found
  BY StopFacts DEF Startup
<1>2. CASE task.walk = {}
  BY <1>1, <1>2, IdleResting, RestingUntouched DEF Startup
<1>3. CASE task.walk # {}
  <2> DEFINE o == First(task.walk)
             W == task.walk \ {o}
             rest == [task EXCEPT !.walk = W]
             b == [rows[o] EXCEPT !.status = "canceled"]
  <2>1. o \in Oids /\ W \in SUBSET Oids
    BY <1>1, <1>3, FirstIn DEF Tasks
  <2>2. rest \in Tasks /\ Resting(rest)
    <3> HIDE DEF W
    <3>1. QED
      BY <1>1, <2>1 DEF Tasks, Resting
  <2>3. \/ Update(o, exch[o], rest) /\ faults' \in {faults, faults + 1}
        \/ Update(o, b, rest) /\ faults' = faults + 1
        \/ Untouched /\ task' = rest /\ faults' = faults
    BY <1>3 DEF Startup, Fault
  <2>4. exch[o] \in OrderRecords /\ b \in OrderRecords
    <3>1. exch[o] \in OrderRecords /\ rows[o] \in OrderRecords
      BY <2>1, StopFacts
    <3>2. QED
      BY <3>1 DEF OrderRecords
  <2>5. Calm /\ LiveStops' = LiveStops
    BY <2>3, <1>1, CalmSame
  <2>6. o \in LiveStops' => exch[o].status = "open"
    BY <2>5 DEF LiveStops, Live
  <2> HIDE DEF rest, b, o
  <2>7. CASE Update(o, exch[o], rest)
    BY <2>1, <2>2, <2>4, <2>5, <2>6, <2>7, RestingUpdate
  <2>8. CASE Update(o, b, rest) /\ faults' = faults + 1
    BY <2>1, <2>2, <2>4, <2>5, <2>8, RestingUpdate
  <2>9. CASE Untouched /\ task' = rest /\ faults' = faults
    BY <2>2, <2>9, <1>1, RestingUntouched
  <2>10. QED
    BY <2>3, <2>7, <2>8, <2>9
<1>4. QED
  BY <1>2, <1>3

\* The invariant holds at the start.
LEMMA InitGood == ASSUME Init PROVE StopInv
<1> DEFINE z == 0
           b == NewOrder("entry", Size)
           a == [b EXCEPT !.status = "closed", !.filled = Size]
<1>1. Size \in Nat /\ MaxOrders \in Nat /\ 1 \in Oids
  BY StopAssumption DEF Oids
<1>2. NoOrder \in OrderRecords /\ NoOrder.status = "none"
  BY DEF NoOrder, OrderRecords
<1>3. a \in OrderRecords /\ a.kind = "entry" /\ a.status = "closed"
  <2>1. b \in OrderRecords /\ b.kind = "entry"
    BY <1>1, NewOrderType
  <2> HIDE DEF b
  <2>2. QED
    BY <1>1, <2>1 DEF OrderRecords
<1>4. exch = [o \in Oids |-> IF o # 1 THEN NoOrder ELSE a]
  BY DEF Init
<1> HIDE DEF a, b
<1>5. exch \in Tables /\ exch[1] = a /\ \A o \in Oids \ {1} : exch[o] = NoOrder
  BY <1>1, <1>2, <1>3, <1>4 DEF Tables
<1>6. Placing(exch)
  <2>1. \A o, p \in Oids : p < o /\ exch[o].status # "none" => exch[p].status # "none"
    <3>1. \A o \in Oids : exch[o].status # "none" => o = 1
      BY <1>2, <1>5
    <3>2. \A p \in Oids : ~(p < 1)
      BY DEF Oids
    <3>3. QED
      BY <3>1, <3>2
  <2>2. QED
    BY <2>1, <1>2, <1>3, <1>5 DEF Placing
<1>7. LiveStops = {}
  BY <1>2, <1>3, <1>5 DEF LiveStops, Live
<1>8. Cardinality({}) = 0 /\ faults = 0
  BY FS_EmptySet DEF Init
<1>9. Counted
  <2>1. \A R : Orphans(R) = {}
    BY <1>7 DEF Orphans
  <2>2. StopsAccounted
    BY <1>7, <1>8 DEF StopsAccounted
  <2>3. Cardinality(Orphans(rows)) <= faults /\ Cardinality(Orphans(saved.rows)) <= faults + 1
    <3>1. Orphans(rows) = {} /\ Orphans(saved.rows) = {}
      BY <2>1
    <3>2. Cardinality(Orphans(rows)) = 0 /\ Cardinality(Orphans(saved.rows)) = 0
      BY <3>1, <1>8
    <3>3. 0 <= faults /\ 0 <= faults + 1
      BY <1>8
    <3>4. QED
      BY <3>2, <3>3
  <2>4. QED
    BY <2>2, <2>3 DEF Counted
<1>10. Types
  <2> DEFINE yes == TRUE
             e == {}
  <2>1. yes \in BOOLEAN /\ e \in SUBSET Oids /\ 1 \in Nat /\ faults \in Nat /\ blocks \in BOOLEAN
    BY <1>8 DEF Init
  <2>2. trade = [open |-> yes, amount |-> Size, stop |-> 1, left |-> e]
    BY DEF Init
  <2> HIDE DEF yes, e
  <2>3. trade \in TradeRecords
    BY <1>1, <2>1, <2>2 DEF TradeRecords
  <2>4. rows = exch /\ saved = [rows |-> rows, trade |-> trade] /\ task = Idle
    BY DEF Init
  <2>5. QED
    BY <1>5, <2>1, <2>3, <2>4, IdleResting DEF Types
<1>11. Working(task, rows) /\ Watched(task, LiveStops, faults)
  <2>1. task = Idle
    BY DEF Init
  <2>2. QED
    BY <2>1, IdleResting, RestingTask
<1>12. QED
  BY <1>6, <1>9, <1>10, <1>11 DEF StopInv

\* It depends on nothing but the variables.
LEMMA StutterGood == ASSUME StopInv, UNCHANGED vars PROVE StopInv'
<1>1. Calm
  BY CalmSame DEF vars
<1>2. QED
  BY <1>1, SameTaskKeeps DEF vars

\* Every action keeps it.
LEMMA NextGood == ASSUME StopInv, Next PROVE StopInv'
<1>1. CASE Handlers
  BY <1>1, CancelStopGood, ClearOrderGood, PlaceExitGood, ExitRefusedGood, RefindGood,
     CreateStopGood, CreateRefusedGood, CheckFailsGood, ProtectGood, HandleTradeGood,
     EndVisitGood, StartupGood, ReadStopGood DEF Handlers
<1>2. CASE Visit \/ AddEntry \/ ExitOrTrim \/ Restart
  BY <1>2, VisitGood, AddEntryGood, ExitOrTrimGood, RestartGood
<1>3. CASE \E o \in Oids : Manage(o) \/ Execute(o) \/ CancelledOnExchange(o)
  BY <1>3, ManageGood, ExecuteGood, CancelledOnExchangeGood
<1>4. QED
  BY <1>1, <1>2, <1>3 DEF Next

\* The handler that may create a stop has all live stops but one per fault on its lists,
\* whatever the exchange does between its calls: handle_stoploss_on_exchange counts right.
THEOREM StopInvariant == Spec => []StopInv
<1>1. Init => StopInv
  BY InitGood
<1>2. StopInv /\ [Next]_vars => StopInv'
  BY NextGood, StutterGood
<1>3. QED
  BY <1>1, <1>2, PTL DEF Spec

\* The exchange never holds more stops of the trade than one, plus one for every fault:
\* create_stoploss_order is reached only once the others are gone or known to be lost.
THEOREM StopsCounted == Spec => []StopsAccounted
<1>1. StopInv => StopsAccounted
  BY DEF StopInv, Counted
<1>2. QED
  BY <1>1, StopInvariant, PTL

---------------------------------------------------------------------------
(* The invariant behind Covers and ClosedIsFlat.                           *)

\* Row R[o] is open, or it is the order as the exchange E has it.
InStep(E, R) ==
    \A o \in Oids : IF R[o].status = "open"
                    THEN E[o].status # "none" /\ E[o].kind = R[o].kind
                    ELSE R[o] = E[o]

\* The amount of trade t is what its rows have filled.
Summed(R, t) ==
    /\ Sum(R, EndedRows(R)) <= t.amount
    /\ Sum(R, EndedRows(R)) > 0 => Sum(R, EndedRows(R)) = t.amount

\* What trade t has left behind, once it is closed.
LeftBehind(E, t) ==
    /\ \A o \in t.left : E[o].kind = "entry"
    /\ ~t.open => /\ Sum(E, Oids) <= Sum(E, t.left)
                  /\ \A o \in Oids : E[o].status = "open" /\ E[o].kind = "entry" => o \in t.left

\* A live stop is on the list of handler k, or covers the open trade t.
Covering(k, E, t) ==
    \A o \in Oids : E[o].status = "open" /\ E[o].kind = "stop" =>
        \/ k.step = "cancel" /\ o \in k.todo
        \/ t.open /\ E[o].amount >= t.amount

\* The stops that are still to be fetched are open rows.
Once(k, R, t) ==
    Doing(k, "check") => ~t.open \/ (k.step = "check" /\ k.walk \subseteq OpenStops(R))

SavedTrade(s, t) == s.open = t.open /\ s.amount = t.amount /\ s.left = t.left

Clean ==
    /\ InStep(exch, rows) /\ Summed(rows, trade) /\ LeftBehind(exch, trade)
    /\ Covering(task, exch, trade) /\ Once(task, rows, trade) /\ SavedTrade(saved.trade, trade)

\* A sum without terms.
LEMMA SumZero ==
    ASSUME NEW R \in Tables, NEW S, \A n \in Oids : Term(R, S, n) = 0
    PROVE  Sum(R, S) = 0
<1> MaxOrders \in Nat
  BY StopAssumption
<1>1. PICK r \in [0..MaxOrders -> Int] :
         /\ r[0] = 0 /\ Sum(R, S) = r[MaxOrders]
         /\ \A n \in Oids : r[n] = r[n - 1] + Term(R, S, n)
  BY SumSteps
<1> DEFINE T == {n \in 0..MaxOrders : r[n] = 0}
<1>2. T = 0..MaxOrders
  <2>1. 0 \in T /\ T \in SUBSET (0..MaxOrders)
    BY <1>1
  <2>2. ASSUME NEW n \in 1..MaxOrders, n - 1 \in T PROVE n \in T
    <3>1. n \in Oids /\ n \in 0..MaxOrders
      BY DEF Oids
    <3>2. r[n] = r[n - 1] + Term(R, S, n) /\ r[n - 1] = 0 /\ Term(R, S, n) = 0
      BY <3>1, <1>1, <2>2
    <3>3. QED
      BY <3>1, <3>2
  <2> HIDE DEF T
  <2>3. QED
    BY <2>1, <2>2, Induction
<1>3. r[MaxOrders] = 0
  <2>1. MaxOrders \in T
    BY <1>2
  <2>2. QED
    BY <2>1
<1>4. QED
  BY <1>1, <1>3

\* The trade closes when its rows have sold what they had bought: what is left on the
\* exchange is what the open entries buy.
LEMMA ClosingLeaves ==
    ASSUME NEW E \in Tables, NEW R \in Tables, InStep(E, R), Placing(E),
           Sum(R, EndedRows(R)) <= 0, NEW t, t.left = {p \in OpenOrders(R) : R[p].kind = "entry"}
    PROVE  LeftBehind(E, t)
<1> DEFINE S == {p \in OpenOrders(R) : R[p].kind = "entry"}
<1>1. \A o \in S : E[o].kind = "entry"
  BY DEF OpenOrders, InStep
<1>2. ASSUME NEW o \in Oids, E[o].status = "open", E[o].kind = "entry"
      PROVE  o \in S
  BY <1>2 DEF InStep, OpenOrders
<1>3. ASSUME NEW n \in Oids
      PROVE  Term(E, Oids, n) <= Term(R, EndedRows(R), n) + Term(E, S, n)
  <2>1. E[n] \in OrderRecords /\ R[n] \in OrderRecords
    BY DEF Tables
  <2>2. \A i \in Int : -i = 0 - i
    OBVIOUS
  <2>3. CASE R[n].status = "open"
    <3>1. n \notin EndedRows(R) /\ E[n].kind = R[n].kind /\ (n \in S <=> R[n].kind = "entry" )
      BY <2>3 DEF EndedRows, Ended, InStep, OpenOrders
    <3>2. Term(R, EndedRows(R), n) = 0
      BY <3>1 DEF Term
    <3>3. CASE R[n].kind = "entry"
      BY <2>1, <3>1, <3>2, <3>3 DEF Term, OrderRecords
    <3>4. CASE R[n].kind # "entry"
      <4>1. Term(E, S, n) = 0 /\ Term(E, Oids, n) = 0 - E[n].filled /\ E[n].filled \in Nat
        BY <2>1, <2>2, <3>1, <3>4 DEF Term, OrderRecords
      <4>2. QED
        BY <4>1, <3>2
    <3>5. QED
      BY <3>3, <3>4
  <2>4. CASE R[n].status \in {"closed", "canceled"}
    <3>1. n \in EndedRows(R) /\ R[n] = E[n] /\ n \notin S
      BY <2>4 DEF EndedRows, Ended, InStep, OpenOrders
    <3>2. Term(E, Oids, n) = Term(R, EndedRows(R), n) /\ Term(E, S, n) = 0
          /\ Term(E, Oids, n) \in Int
      BY <2>1, <3>1 DEF Term, OrderRecords
    <3>3. QED
      BY <3>2
  <2>5. CASE R[n].status = "none"
    <3>1. n \notin EndedRows(R) /\ E[n] = NoOrder /\ n \notin S
      BY <2>5 DEF EndedRows, Ended, InStep, OpenOrders, Placing
    <3>a. E[n].kind = "none" /\ E[n].filled = 0
      BY <3>1 DEF NoOrder
    <3>b. -E[n].filled = 0
      <4>1. E[n].filled \in Int
        BY <3>a
      <4>2. -E[n].filled = 0 - E[n].filled
        BY <4>1, <2>2
      <4>3. QED
        BY <3>a, <4>2
    <3>2. Term(R, EndedRows(R), n) = 0 /\ Term(E, S, n) = 0 /\ Term(E, Oids, n) = 0
      BY <3>1, <3>a, <3>b DEF Term
    <3>3. QED
      BY <3>2
  <2>6. QED
    BY <2>1, <2>3, <2>4, <2>5 DEF OrderRecords
<1>4. Sum(E, Oids) <= Sum(R, EndedRows(R)) + Sum(E, S)
  <2> HIDE DEF S
  <2>1. QED
    BY <1>3, SumBelow
<1>5. Sum(E, Oids) \in Int /\ Sum(R, EndedRows(R)) \in Int /\ Sum(E, S) \in Int
  BY SumType
<1> HIDE DEF S
<1>6. Sum(E, Oids) <= Sum(E, S)
  BY <1>4, <1>5
<1>7. t.left = S
  BY DEF S
<1>8. QED
  BY <1>1, <1>2, <1>6, <1>7 DEF LeftBehind

\* Booking row o leaves the trade with the amount of its rows.
LEMMA BookClean ==
    ASSUME NEW E \in Tables, NEW R \in Tables, InStep(E, R), Placing(E),
           NEW t \in TradeRecords, LeftBehind(E, t), NEW o \in Oids, NEW b \in BOOLEAN,
           t.open /\ R[o].kind # "entry" /\ R[o].filled >= t.amount => Sum(R, EndedRows(R)) <= 0
    PROVE  /\ Book(t, R, o, b) \in TradeRecords
           /\ Summed(R, Book(t, R, o, b)) /\ LeftBehind(E, Book(t, R, o, b))
           /\ Book(t, R, o, b).open => t.open
           /\ Sum(R, EndedRows(R)) <= t.amount => Book(t, R, o, b).amount <= t.amount
<1> DEFINE close == R[o].filled = t.amount \/ (~b /\ R[o].filled > t.amount)
           no == FALSE
           S == IF t.open THEN {p \in OpenOrders(R) : R[p].kind = "entry"} ELSE t.left
           c == [t EXCEPT !.open = no, !.left = S]
           n == Sum(R, EndedRows(R))
           u == Book(t, R, o, b)
<1>1. no \in BOOLEAN /\ ~no /\ S \in SUBSET Oids
  BY DEF OpenOrders, TradeRecords
<1>2. u = IF R[o].kind = "entry" THEN Recalc(t, R) ELSE IF close THEN Recalc(c, R) ELSE Recalc(t, R)
  BY DEF Book
<1>3. n \in Int /\ R[o] \in OrderRecords
  BY SumType DEF Tables
<1>4. R[o].kind # "entry" /\ close => R[o].filled >= t.amount
  BY <1>3 DEF OrderRecords, TradeRecords
<1>5. t.open /\ R[o].kind # "entry" /\ close => n <= 0 /\ S = {p \in OpenOrders(R) : R[p].kind = "entry"}
  BY <1>4
<1>6. ~t.open => S = t.left
  OBVIOUS
<1> HIDE DEF no, S, close, u
<1>7. /\ c \in TradeRecords /\ ~c.open /\ c.amount = t.amount /\ c.left = S
  BY <1>1 DEF TradeRecords
<1> HIDE DEF c
<1>8. ASSUME NEW w \in TradeRecords
      PROVE  /\ Recalc(w, R) \in TradeRecords /\ Summed(R, Recalc(w, R))
             /\ Recalc(w, R).open = w.open /\ Recalc(w, R).left = w.left
             /\ n <= w.amount => Recalc(w, R).amount <= w.amount
             /\ LeftBehind(E, w) => LeftBehind(E, Recalc(w, R))
  <2>1. /\ Recalc(w, R) \in TradeRecords
        /\ Recalc(w, R).open = w.open /\ Recalc(w, R).left = w.left
        /\ Recalc(w, R).amount = IF n > 0 THEN n ELSE w.amount
    BY RecalcType
  <2>2. w.amount \in Nat
    BY DEF TradeRecords
  <2>3. Summed(R, Recalc(w, R)) /\ (n <= w.amount => Recalc(w, R).amount <= w.amount)
    BY <2>1, <2>2, <1>3 DEF Summed
  <2>4. LeftBehind(E, w) => LeftBehind(E, Recalc(w, R))
    BY <2>1 DEF LeftBehind
  <2>5. QED
    BY <2>1, <2>3, <2>4
<1>9. R[o].kind # "entry" /\ close => LeftBehind(E, c)
  <2>1. CASE t.open
    <3>1. SUFFICES ASSUME R[o].kind # "entry", close PROVE LeftBehind(E, c)
      OBVIOUS
    <3>2. Sum(R, EndedRows(R)) <= 0 /\ c.left = {p \in OpenOrders(R) : R[p].kind = "entry"}
      BY <3>1, <2>1, <1>5, <1>7
    <3>3. QED
      BY <3>2, ClosingLeaves
  <2>2. CASE ~t.open
    BY <2>2, <1>6, <1>7 DEF LeftBehind
  <2>3. QED
    BY <2>1, <2>2
<1>10. CASE R[o].kind # "entry" /\ close
  <2>1. u = Recalc(c, R)
    BY <1>2, <1>10
  <2>2. QED
    BY <2>1, <1>7, <1>8, <1>9, <1>10 DEF u, n
<1>11. CASE ~(R[o].kind # "entry" /\ close)
  <2>1. u = Recalc(t, R)
    BY <1>2, <1>11
  <2>2. QED
    BY <2>1, <1>8 DEF u, n
<1>12. QED
  BY <1>10, <1>11

\* An order that ends unfilled changes no sum.
LEMMA LeftBehindKept ==
    ASSUME NEW D \in Tables, NEW E \in Tables, NEW t \in TradeRecords, LeftBehind(D, t),
           \A o \in Oids : /\ E[o].kind = D[o].kind /\ E[o].filled = D[o].filled
                           /\ E[o].status = "open" => D[o].status = "open"
    PROVE  LeftBehind(E, t)
<1>1. \A S : Sum(E, S) = Sum(D, S)
  <2> SUFFICES ASSUME NEW S PROVE Sum(E, S) = Sum(D, S)
    OBVIOUS
  <2>1. \A n \in Oids : Term(E, S, n) = Term(D, S, n)
    BY DEF Term
  <2>2. QED
    BY <2>1, SumSame
<1>2. t.left \in SUBSET Oids
  BY DEF TradeRecords
<1>3. QED
  BY <1>1, <1>2 DEF LeftBehind

\* One order buys less, or sells more, and what is left behind buys the same.
LEMMA LeftBehindFilled ==
    ASSUME NEW D \in Tables, NEW E \in Tables, NEW t \in TradeRecords, LeftBehind(D, t),
           NEW k \in Oids, \A o \in Oids \ {k} : E[o] = D[o],
           Term(D, Oids, k) = 0, D[k].kind # "none" => D[k].kind = E[k].kind,
           \/ E[k].kind = "entry" /\ D[k].status = "open" /\ D[k].kind = "entry" /\ E[k].status # "open"
           \/ E[k].kind # "entry"
    PROVE  LeftBehind(E, t)
<1>1. D[k] \in OrderRecords /\ E[k] \in OrderRecords /\ t.left \in SUBSET Oids
  BY DEF Tables, TradeRecords
<1>2. \A o \in t.left : D[o].kind = "entry" /\ E[o].kind = "entry"
  BY <1>1 DEF LeftBehind
<1>3. \A i \in Int : -i = 0 - i
  OBVIOUS
<1>4. ASSUME NEW S
      PROVE  Sum(E, S) - Sum(D, S) = Term(E, S, k) - Term(D, S, k)
  <2>1. \A n \in Oids \ {k} : Term(E, S, n) = Term(D, S, n)
    BY DEF Term
  <2>2. QED
    BY <2>1, SumDiffers
<1>5. ASSUME ~t.open
      PROVE  Sum(E, Oids) <= Sum(E, t.left)
  <2> DEFINE a == Sum(E, Oids)
             b == Sum(D, Oids)
             c == Sum(E, t.left)
             d == Sum(D, t.left)
             x == Term(E, Oids, k)
             y == Term(E, t.left, k)
             z == Term(D, t.left, k)
  <2>1. a \in Int /\ b \in Int /\ c \in Int /\ d \in Int
    BY SumType
  <2>2. x \in Int /\ y \in Int /\ z \in Int
    BY <1>1 DEF Term, OrderRecords
  <2>3. a - b = x - 0 /\ c - d = y - z /\ b <= d
    BY <1>4, <1>5 DEF LeftBehind
  <2>4. x <= y - z
    <3>1. CASE E[k].kind = "entry"
      <4>1. k \in t.left /\ E[k].kind = "entry" /\ D[k].kind = "entry"
        BY <3>1, <1>5 DEF LeftBehind
      <4>2. x = y /\ z = Term(D, Oids, k)
        BY <4>1, <1>1 DEF Term
      <4>3. QED
        BY <4>2, <2>2
    <3>2. CASE E[k].kind # "entry"
      <4>1. k \notin t.left
        BY <3>2, <1>2
      <4>2. y = 0 /\ z = 0 /\ x = 0 - E[k].filled /\ E[k].filled \in Nat
        BY <3>2, <4>1, <1>1, <1>3 DEF Term, OrderRecords
      <4>3. QED
        BY <4>2
    <3>3. QED
      BY <3>1, <3>2
  <2> HIDE DEF a, b, c, d, x, y, z
  <2>5. a <= c
    BY <2>1, <2>2, <2>3, <2>4
  <2>6. QED
    BY <2>5 DEF a, c
<1>6. ~t.open => \A o \in Oids : E[o].status = "open" /\ E[o].kind = "entry" => o \in t.left
  BY DEF LeftBehind
<1>7. QED
  BY <1>2, <1>5, <1>6 DEF LeftBehind

---------------------------------------------------------------------------
(* What an answer does to the invariant.                                   *)

\* The handler has the order as it is, or it has cancelled it.
Moves(o, E) ==
    \/ E = exch /\ (rows[o].status = "open" \/ ~trade.open)
    \/ exch[o].status = "open" /\ E = [exch EXCEPT ![o].status = "canceled"]

\* What an answer for row o finds.
LEMMA MovedOrder ==
    ASSUME StopInv, Clean, NEW o \in Oids, NEW E \in Tables, Moves(o, E)
    PROVE  /\ \A p \in Oids \ {o} : E[p] = exch[p]
           /\ \A p \in Oids : /\ E[p].kind = exch[p].kind /\ E[p].filled = exch[p].filled
                              /\ E[p].amount = exch[p].amount
                              /\ E[p].status = "open" => exch[p].status = "open"
           /\ E[o].status = "none" => exch[o].status = "none"
           /\ rows[o].status = "open" \/ (~trade.open /\ E = exch /\ rows[o] = exch[o])
           /\ Recorded(o, E[o])[o] = E[o]
<1>1. exch \in Tables /\ exch[o] \in OrderRecords /\ E[o] \in OrderRecords /\ rows[o] \in OrderRecords
      /\ Types
  BY StopFacts DEF Tables
<1>2. IF rows[o].status = "open" THEN exch[o].status # "none" /\ exch[o].kind = rows[o].kind
      ELSE rows[o] = exch[o]
  BY DEF Clean, InStep
<1>3. /\ \A p \in Oids \ {o} : E[p] = exch[p]
      /\ E[o].kind = exch[o].kind /\ E[o].filled = exch[o].filled /\ E[o].amount = exch[o].amount
      /\ E[o].status = "open" => exch[o].status = "open"
      /\ E[o].status = "none" => exch[o].status = "none"
  <2>1. CASE E = exch
    BY <2>1
  <2>2. CASE exch[o].status = "open" /\ E = [exch EXCEPT ![o].status = "canceled"]
    <3> DEFINE a == [exch[o] EXCEPT !.status = "canceled"]
    <3>1. E = [exch EXCEPT ![o] = a]
      BY <2>2
    <3>2. a.kind = exch[o].kind /\ a.filled = exch[o].filled /\ a.amount = exch[o].amount
          /\ a.status = "canceled"
      BY <1>1 DEF OrderRecords
    <3> HIDE DEF a
    <3>3. E[o] = a /\ \A p \in Oids \ {o} : E[p] = exch[p]
      BY <3>1, <1>1 DEF Tables
    <3>4. QED
      BY <3>2, <3>3
  <2>3. QED
    BY <2>1, <2>2 DEF Moves
<1>4. rows[o].status = "open" \/ (~trade.open /\ E = exch /\ rows[o] = exch[o])
  BY <1>2 DEF Moves
<1>5. Recorded(o, E[o])[o] = E[o]
  <2>1. rows[o].kind = E[o].kind
    BY <1>2, <1>3
  <2>2. [E[o] EXCEPT !.kind = rows[o].kind] = E[o]
    BY <2>1, <1>1 DEF OrderRecords
  <2>3. Recorded(o, E[o])[o] = [E[o] EXCEPT !.kind = rows[o].kind]
    BY <1>1, RecordedType
  <2>4. QED
    BY <2>2, <2>3
<1>6. QED
  BY <1>3, <1>4, <1>5

\* The row of an order that has ended adds what it filled.
LEMMA SumRecorded ==
    ASSUME StopInv, NEW o \in Oids, rows[o].status \notin {"closed", "canceled"},
           NEW R \in Tables, \A p \in Oids \ {o} : R[p] = rows[p]
    PROVE  /\ Sum(R, EndedRows(R)) = Sum(rows, EndedRows(rows)) + Term(R, EndedRows(R), o)
           /\ Term(R, EndedRows(R), o) =
                 IF ~Ended(R[o]) THEN 0
                 ELSE IF R[o].kind = "entry" THEN R[o].filled ELSE 0 - R[o].filled
<1>1. rows \in Tables /\ R[o] \in OrderRecords
  BY StopFacts DEF Tables
<1>2. Term(rows, EndedRows(rows), o) = 0
  BY DEF Term, EndedRows, Ended
<1>3. \A n \in Oids \ {o} : Term(R, EndedRows(R), n) = Term(rows, EndedRows(rows), n)
  BY DEF Term, EndedRows
<1>4. Sum(R, EndedRows(R)) - Sum(rows, EndedRows(rows))
         = Term(R, EndedRows(R), o) - Term(rows, EndedRows(rows), o)
  BY <1>1, <1>3, SumDiffers
<1>5. Sum(R, EndedRows(R)) \in Int /\ Sum(rows, EndedRows(rows)) \in Int
      /\ Term(R, EndedRows(R), o) \in Int
  <2>1. Term(R, EndedRows(R), o) \in Int
    BY <1>1 DEF Term, OrderRecords
  <2>2. QED
    BY <2>1, <1>1, SumType
<1>6. Sum(R, EndedRows(R)) = Sum(rows, EndedRows(rows)) + Term(R, EndedRows(R), o)
  BY <1>2, <1>4, <1>5
<1>7. \A i \in Int : -i = 0 - i
  OBVIOUS
<1>8. QED
  BY <1>1, <1>6, <1>7 DEF Term, EndedRows, OrderRecords

\* An answer keeps rows, amount and what is left behind right, and tells the stops
\* that are too small for the trade now.
LEMMA RecordClean ==
    ASSUME StopInv, Clean, NEW o \in Oids, NEW E \in Tables, Placing(E), Moves(o, E),
           NEW R, R = Recorded(o, E[o]), NEW u, u = Booked(o, E[o])
    PROVE  /\ InStep(E, R) /\ Summed(R, u) /\ LeftBehind(E, u) /\ (u.open => trade.open)
           /\ \/ Outdated(o, E[o]) = OpenStops(R)
              \/ Outdated(o, E[o]) = {} /\ (u.open <=> trade.open) /\ u.amount <= trade.amount
           /\ rows[o].kind # "entry" /\ u.open => Outdated(o, E[o]) = {}
           /\ OpenStops(rows) \ {o} \subseteq OpenStops(R)
<1>1. /\ \A p \in Oids \ {o} : E[p] = exch[p]
      /\ \A p \in Oids : /\ E[p].kind = exch[p].kind /\ E[p].filled = exch[p].filled
                         /\ E[p].status = "open" => exch[p].status = "open"
      /\ E[o].status = "none" => exch[o].status = "none"
      /\ rows[o].status = "open" \/ (~trade.open /\ E = exch /\ rows[o] = exch[o])
      /\ R[o] = E[o]
  BY MovedOrder
<1>2. Types /\ exch \in Tables /\ rows \in Tables /\ trade \in TradeRecords /\ E[o] \in OrderRecords
  BY StopFacts DEF Tables
<1>3. R \in Tables /\ \A p \in Oids \ {o} : R[p] = rows[p]
  BY <1>2, RecordedType
<1>4. InStep(exch, rows) /\ Summed(rows, trade) /\ LeftBehind(exch, trade)
  BY DEF Clean
<1>5. OpenStops(rows) \ {o} \subseteq OpenStops(R)
  BY <1>3 DEF OpenStops
<1>6. InStep(E, R)
  <2>1. ASSUME NEW p \in Oids, p # o
        PROVE  IF R[p].status = "open" THEN E[p].status # "none" /\ E[p].kind = R[p].kind
               ELSE R[p] = E[p]
    <3>1. IF rows[p].status = "open" THEN exch[p].status # "none" /\ exch[p].kind = rows[p].kind
          ELSE rows[p] = exch[p]
      BY <1>4 DEF InStep
    <3>2. QED
      BY <3>1, <2>1, <1>1, <1>3
  <2>2. QED
    BY <2>1, <1>1 DEF InStep
<1>7. LeftBehind(E, trade)
  BY <1>1, <1>2, <1>4, LeftBehindKept
<1>8. CASE Empty(E[o]) \/ E[o].status = "open"
  <2>1. u = trade /\ Outdated(o, E[o]) = {}
    BY <1>8 DEF Booked, Outdated
  <2>2. Sum(R, EndedRows(R)) = Sum(rows, EndedRows(rows))
    <3>1. CASE rows[o].status = "open"
      <4>1. Term(R, EndedRows(R), o) = 0
        BY <3>1, <1>1, <1>3, <1>8, SumRecorded DEF Empty, Ended
      <4>2. Sum(R, EndedRows(R)) = Sum(rows, EndedRows(rows)) + Term(R, EndedRows(R), o)
        BY <3>1, <1>3, SumRecorded
      <4>3. Sum(rows, EndedRows(rows)) \in Int
        BY <1>2, SumType
      <4>4. QED
        BY <4>1, <4>2, <4>3
    <3>2. CASE rows[o] = exch[o] /\ E = exch
      <4>1. R[o] = rows[o]
        BY <3>2, <1>1
      <4>2. R = rows
        BY <4>1, <1>2, <1>3 DEF Tables
      <4>3. QED
        BY <4>2
    <3>3. QED
      BY <3>1, <3>2, <1>1
  <2>3. Summed(R, u)
    BY <2>1, <2>2, <1>4 DEF Summed
  <2>4. u.amount <= trade.amount
    BY <2>1, <1>2 DEF TradeRecords
  <2>5. QED
    BY <1>5, <1>6, <1>7, <2>1, <2>3, <2>4
<1>9. CASE ~(Empty(E[o]) \/ E[o].status = "open")
  <2> DEFINE no == FALSE
  <2>1. u = Book(trade, R, o, no) /\ no \in BOOLEAN
    BY <1>9 DEF Booked
  <2> HIDE DEF no
  <2>2. /\ Outdated(o, E[o]) = IF rows[o].kind = "entry" \/ ~u.open THEN OpenStops(R) ELSE {}
    BY <1>9 DEF Outdated
  <2>3. R[o].kind = rows[o].kind
    BY <1>2, RecordedType
  <2>4. ASSUME rows[o].status = "open", rows[o].kind # "entry"
        PROVE  Sum(R, EndedRows(R)) <= trade.amount - R[o].filled
    <3>1. exch[o].status # "none"
      BY <2>4, <1>4 DEF InStep
    <3>2. Ended(R[o])
      BY <3>1, <1>1, <1>2, <1>9 DEF Ended, OrderRecords
    <3>3. Term(R, EndedRows(R), o) = 0 - R[o].filled
      BY <3>2, <2>3, <2>4, <1>3, SumRecorded
    <3>4. Sum(R, EndedRows(R)) = Sum(rows, EndedRows(rows)) + Term(R, EndedRows(R), o)
      BY <2>4, <1>3, SumRecorded
    <3>5. Sum(rows, EndedRows(rows)) \in Int /\ R[o].filled \in Int /\ trade.amount \in Int
      BY <1>1, <1>2, SumType DEF OrderRecords, TradeRecords
    <3>6. Sum(rows, EndedRows(rows)) <= trade.amount
      BY <1>4 DEF Summed
    <3>7. QED
      BY <3>3, <3>4, <3>5, <3>6
  <2>5. R[o].filled \in Nat /\ trade.amount \in Nat /\ Sum(R, EndedRows(R)) \in Int
    BY <1>1, <1>2, <1>3, SumType DEF OrderRecords, TradeRecords
  <2>6. trade.open /\ R[o].kind # "entry" /\ R[o].filled >= trade.amount
           => Sum(R, EndedRows(R)) <= 0
    <3> SUFFICES ASSUME trade.open, R[o].kind # "entry", R[o].filled >= trade.amount
                 PROVE  Sum(R, EndedRows(R)) <= 0
      OBVIOUS
    <3>1. Sum(R, EndedRows(R)) <= trade.amount - R[o].filled
      BY <2>3, <2>4, <1>1
    <3>2. QED
      BY <3>1, <2>5
  <2>7. /\ Summed(R, u) /\ LeftBehind(E, u) /\ (u.open => trade.open)
        /\ Sum(R, EndedRows(R)) <= trade.amount => u.amount <= trade.amount
    <3>1. /\ Summed(R, Book(trade, R, o, no)) /\ LeftBehind(E, Book(trade, R, o, no))
          /\ Book(trade, R, o, no).open => trade.open
          /\ Sum(R, EndedRows(R)) <= trade.amount => Book(trade, R, o, no).amount <= trade.amount
      BY <1>2, <1>3, <1>6, <1>7, <2>1, <2>6, BookClean
    <3>2. QED
      BY <3>1, <2>1
  <2>8. rows[o].kind # "entry" /\ u.open => u.amount <= trade.amount
    <3> SUFFICES ASSUME rows[o].kind # "entry", u.open PROVE u.amount <= trade.amount
      OBVIOUS
    <3>1. Sum(R, EndedRows(R)) <= trade.amount - R[o].filled
      BY <2>4, <2>7, <1>1
    <3>2. Sum(R, EndedRows(R)) <= trade.amount
      BY <3>1, <2>5
    <3>3. QED
      BY <3>2, <2>7
  <2>9. QED
    BY <1>5, <1>6, <2>2, <2>7, <2>8
<1>10. QED
  BY <1>8, <1>9

\* Nothing is left over.
LEMMA NoneLeft ==
    ASSUME NEW L \in SUBSET Oids, NEW S \in SUBSET Oids, Cardinality(L \ S) <= 0
    PROVE  L \subseteq S
<1> DEFINE D == L \ S
<1>1. IsFiniteSet(D)
  <2>1. D \in SUBSET Oids
    OBVIOUS
  <2>2. QED
    BY <2>1, OidsFinite, FS_Subset
<1>2. Cardinality(D) \in Nat /\ Cardinality(D) <= 0
  BY <1>1, FS_CardinalityType
<1>3. Cardinality(D) = 0
  BY <1>2
<1>4. D = {}
  BY <1>1, <1>3, FS_EmptySet
<1>5. QED
  BY <1>4

\* Without a fault the rows know every stop, after the step too.
LEMMA KnownStopsNext == StopInv' /\ faults' = 0 => LiveStops' \subseteq OpenStops(rows')
<1> SUFFICES ASSUME StopInv', faults' = 0 PROVE LiveStops' \subseteq OpenStops(rows')
  OBVIOUS
<1> DEFINE L == LiveStops'
           S == OpenStops(rows')
<1>1. Cardinality(L \ S) <= 0
  BY DEF StopInv, Counted, Orphans
<1>2. L \in SUBSET Oids /\ S \in SUBSET Oids
  BY DEF LiveStops, Live, OpenStops
<1> HIDE DEF L, S
<1>3. L \subseteq S
  BY <1>1, <1>2, NoneLeft
<1>4. QED
  BY <1>3 DEF L, S

---------------------------------------------------------------------------
(* The actions, as long as there is no fault.                              *)

Faultless == StopInv /\ Clean /\ StopInv' /\ faults = 0 /\ faults' = 0

\* A live stop that is not being cancelled covers the trade.
LEMMA LiveCovers ==
    ASSUME Faultless, task.step # "cancel", NEW p \in Oids,
           exch[p].status = "open", exch[p].kind = "stop"
    PROVE  trade.open /\ exch[p].amount >= trade.amount
BY DEF Faultless, Clean, Covering

\* The list that is cancelled has every live stop.
LEMMA ListCovers ==
    ASSUME Faultless, NEW t \in Tasks, t.step # "cancel",
           task' = Cancelling(OpenStops(rows'), t)
    PROVE  Covering(task', exch', trade')
<1> DEFINE E == exch'
           S == OpenStops(rows')
<1>1. \A p \in Oids : E[p].status = "open" /\ E[p].kind = "stop" => p \in S
  BY KnownStopsNext DEF Faultless, LiveStops, Live
<1>2. S \in SUBSET Oids /\ task' = Cancelling(S, t)
  BY DEF OpenStops
<1> HIDE DEF S
<1>3. S # {} => task'.step = "cancel" /\ task'.todo = S
  BY <1>2, CancellingTask
<1>4. QED
  BY <1>1, <1>3 DEF Covering

\* Nothing is recorded.
LEMMA StayClean ==
    ASSUME Faultless, exch' = exch, rows' = rows, task.step # "cancel",
           SavedTrade(trade', trade), SavedTrade(saved'.trade, trade'),
           Once(task', rows, trade)
    PROVE  Clean'
<1>1. /\ InStep(exch', rows') /\ Summed(rows', trade') /\ LeftBehind(exch', trade')
      /\ Once(task', rows', trade')
  BY DEF Faultless, Clean, InStep, Summed, LeftBehind, SavedTrade, Once
<1>2. Covering(task', exch', trade')
  BY LiveCovers DEF Covering, SavedTrade
<1>3. QED
  BY <1>1, <1>2 DEF Clean

\* Nothing is recorded and nothing moves.
LEMMA UntouchedClean ==
    ASSUME Faultless, exch' = exch, Untouched, task.step # "cancel", Once(task', rows, trade)
    PROVE  Clean'
<1>1. SavedTrade(trade', trade) /\ SavedTrade(saved'.trade, trade')
  BY DEF Faultless, Clean, Untouched, SavedTrade
<1>2. QED
  BY <1>1, StayClean DEF Untouched

\* A step of its own checks nothing.
LEMMA AtOnce ==
    ASSUME NEW s \in Steps \ {"check", "cancel"}, NEW S \in SUBSET Oids, NEW R, NEW u
    PROVE  Once(At(s), R, u) /\ Once(Cancelling(S, At(s)), R, u)
<1>1. At(s) \in Tasks /\ At(s).step = s
  BY AtTask
<1>2. ~Doing(At(s), "check")
  BY <1>1 DEF Doing
<1>3. ~Doing(Cancelling(S, At(s)), "check")
  BY <1>1, <1>2, CancellingTask DEF Doing
<1>4. QED
  BY <1>2, <1>3 DEF Once

\* An answer is recorded by a handler that is not cancelling stops.
LEMMA UpdateClean ==
    ASSUME Faultless, NEW o \in Oids, Moves(o, exch'), NEW t \in Tasks,
           Update(o, exch'[o], t), task.step # "cancel", t.step # "cancel",
           \/ t.step # "check"
           \/ ~trade.open
           \/ t.walk \subseteq OpenStops(rows) \ {o} /\ rows[o].kind # "entry"
    PROVE  Clean'
<1> DEFINE E == exch'
           R == rows'
           u == trade'
           S == Outdated(o, E[o])
<1>1. /\ StopInv /\ Clean /\ E \in Tables /\ Placing(E) /\ Moves(o, E)
      /\ R = Recorded(o, E[o]) /\ u = Booked(o, E[o]) /\ task' = Cancelling(S, t)
      /\ saved'.trade = u /\ S \in SUBSET Oids
  BY DEF Faultless, StopInv, Types, Update, Commit, Outdated, OpenStops
<1>2. S = OpenStops(R) => Covering(task', E, u)
  BY ListCovers, <1>1
<1> HIDE DEF E, R, u, S
<1>3. /\ InStep(E, R) /\ Summed(R, u) /\ LeftBehind(E, u) /\ (u.open => trade.open)
      /\ \/ S = OpenStops(R)
         \/ S = {} /\ (u.open <=> trade.open) /\ u.amount <= trade.amount
      /\ rows[o].kind # "entry" /\ u.open => S = {}
      /\ OpenStops(rows) \ {o} \subseteq OpenStops(R)
  BY <1>1, RecordClean DEF S
<1>4. \A p \in Oids : /\ E[p].kind = exch[p].kind /\ E[p].amount = exch[p].amount
                      /\ E[p].status = "open" => exch[p].status = "open"
  BY <1>1, MovedOrder
<1>5. Covering(task', E, u)
  <2>1. CASE S = OpenStops(R)
    BY <2>1, <1>2
  <2>2. CASE S = {} /\ (u.open <=> trade.open) /\ u.amount <= trade.amount
    <3>1. ASSUME NEW p \in Oids, E[p].status = "open", E[p].kind = "stop"
          PROVE  u.open /\ E[p].amount >= u.amount
      <4>1. trade.open /\ exch[p].amount >= trade.amount
        BY <3>1, <1>4, LiveCovers
      <4>2. exch[p].amount \in Nat /\ trade.amount \in Nat /\ u.amount \in Nat
        <5>1. exch[p] \in OrderRecords /\ trade \in TradeRecords
          BY <1>1, StopFacts
        <5>2. u \in TradeRecords
          BY DEF Faultless, StopInv, Types, u
        <5>3. QED
          BY <5>1, <5>2 DEF OrderRecords, TradeRecords
      <4>3. QED
        BY <4>1, <4>2, <2>2, <1>4
    <3>2. QED
      BY <3>1 DEF Covering
  <2>3. QED
    BY <2>1, <2>2, <1>3
<1>6. Once(task', R, u)
  <2>1. /\ task'.walk = t.walk
        /\ \/ S = {} /\ task' = t
           \/ S # {} /\ task'.step = "cancel" /\ task'.then = t.step
    BY <1>1, CancellingTask
  <2>2. CASE t.step # "check"
    BY <2>1, <2>2 DEF Once, Doing
  <2>3. CASE ~trade.open
    BY <2>3, <1>3 DEF Once
  <2>4. CASE t.walk \subseteq OpenStops(rows) \ {o} /\ rows[o].kind # "entry"
    <3>1. CASE u.open
      <4>1. S = {} /\ task' = t /\ t.walk \subseteq OpenStops(R)
        BY <2>1, <2>4, <3>1, <1>3
      <4>2. QED
        BY <4>1 DEF Once, Doing
    <3>2. CASE ~u.open
      BY <3>2 DEF Once
    <3>3. QED
      BY <3>1, <3>2
  <2>5. QED
    BY <2>2, <2>3, <2>4
<1>7. SavedTrade(saved'.trade, u)
  BY <1>1 DEF SavedTrade
<1>8. QED
  BY <1>3, <1>5, <1>6, <1>7 DEF Clean, E, R, u

\* What is known before and after a step that is no fault.
LEMMA FaultlessFacts ==
    ASSUME Faultless
    PROVE  /\ StopInv /\ Clean /\ ~Fault /\ faults' = faults
           /\ task \in Tasks /\ exch \in Tables /\ rows \in Tables /\ trade \in TradeRecords
           /\ exch' \in Tables /\ rows' \in Tables /\ trade' \in TradeRecords /\ Placing(exch')
           /\ Placing(exch) /\ InStep(exch, rows) /\ Summed(rows, trade) /\ LeftBehind(exch, trade)
           /\ Covering(task, exch, trade) /\ Once(task, rows, trade)
           /\ SavedTrade(saved.trade, trade)
           /\ task.up \in {"idle", "trade", "others"} /\ task.walk \in SUBSET Oids
           /\ \A R : OpenStops(R) \in SUBSET Oids
<1>1. StopInv /\ Clean /\ StopInv'
  BY DEF Faultless
<1>2. ~Fault /\ faults' = faults
  BY DEF Faultless, Fault
<1>3. exch' \in Tables /\ rows' \in Tables /\ trade' \in TradeRecords /\ Placing(exch') /\ Placing(exch)
  BY <1>1 DEF StopInv, Types
<1>4. QED
  BY <1>1, <1>2, <1>3, StopFacts DEF Clean

\* The step after an exit fetches nothing.
LEMMA UpOnce ==
    ASSUME Faultless
    PROVE  Once(At(task.up), rows, trade)
<1>1. task.up \in Steps \ {"check", "cancel"} /\ {} \in SUBSET Oids
  BY FaultlessFacts DEF Steps
<1>2. QED
  BY <1>1, AtOnce

\* handle_similar_open_order
LEMMA ClearOrderClean == ASSUME Faultless, ClearOrder PROVE Clean'
<1>1. CASE Untouched /\ task' = At(task.up) /\ UNCHANGED exch
  BY <1>1, UpOnce, UntouchedClean DEF ClearOrder
<1>2. ASSUME NEW o \in OpenOrders(rows),
             exch' = [exch EXCEPT ![o].status = IF @ = "open" THEN "canceled" ELSE @],
             Update(o, exch'[o], task)
      PROVE  Clean'
  <2>1. o \in Oids /\ rows[o].status = "open"
    BY DEF OpenOrders
  <2>2. Moves(o, exch')
    <3>1. CASE exch[o].status = "open"
      BY <1>2, <3>1 DEF Moves
    <3>2. CASE exch[o].status # "open"
      <4>1. exch \in Tables /\ exch[o] \in OrderRecords
        BY <2>1, FaultlessFacts DEF Tables
      <4>2. exch[o] = [exch[o] EXCEPT !.status = exch[o].status]
        BY <4>1 DEF OrderRecords
      <4>3. exch' = [exch EXCEPT ![o] = [exch[o] EXCEPT !.status = exch[o].status]]
        BY <1>2, <3>2
      <4>4. exch' = exch
        BY <4>1, <4>2, <4>3 DEF Tables
      <4>5. QED
        BY <4>4, <2>1 DEF Moves
    <3>3. QED
      BY <3>1, <3>2
  <2>3. task \in Tasks /\ task.step = "place"
    BY FaultlessFacts DEF ClearOrder
  <2>4. QED
    BY <1>2, <2>1, <2>2, <2>3, UpdateClean
<1>3. QED
  BY <1>1, <1>2 DEF ClearOrder

\* Looking for orders again is no visit of the stops.
LEMMA RefindOnce ==
    ASSUME NEW S, NEW u, NEW R, NEW v
    PROVE  Once([At("refind") EXCEPT !.walk = S, !.up = u], R, v)
<1>1. [At("refind") EXCEPT !.walk = S, !.up = u].step = "refind"
  BY DEF At, Idle
<1>2. QED
  BY <1>1 DEF Once, Doing

\* The exit is refused.
LEMMA ExitRefusedClean == ASSUME Faultless, ExitRefused PROVE Clean'
<1>1. Once(task', rows, trade)
  <2>1. CASE task' = At(task.up)
    BY <2>1, UpOnce
  <2>2. CASE task' = [At("refind") EXCEPT !.walk = OpenStops(rows), !.up = task.up]
    BY <2>2, RefindOnce
  <2>3. QED
    BY <2>1, <2>2 DEF ExitRefused
<1>2. QED
  BY <1>1, UntouchedClean DEF ExitRefused

\* The loops over rows, of Refind and of Startup.
LEMMA WalkOn ==
    ASSUME Faultless, task.walk # {}, NEW rest, rest = [task EXCEPT !.walk = @ \ {First(@)}]
    PROVE  First(task.walk) \in task.walk /\ First(task.walk) \in Oids
           /\ rest \in Tasks /\ rest.step = task.step /\ rest.then = task.then
<1> DEFINE o == First(task.walk)
           W == task.walk \ {o}
<1>1. o \in task.walk /\ o \in Oids /\ W \in SUBSET Oids /\ task \in Tasks
  BY FaultlessFacts, FirstIn
<1>2. rest = [task EXCEPT !.walk = W]
  OBVIOUS
<1> HIDE DEF W
<1>3. QED
  BY <1>1, <1>2 DEF Tasks

\* handle_insufficient_funds
LEMMA RefindClean == ASSUME Faultless, Refind PROVE Clean'
<1>1. task.step = "refind" /\ exch' = exch
  BY DEF Refind
<1>2. CASE task.walk = {}
  BY <1>1, <1>2, UpOnce, UntouchedClean DEF Refind
<1>3. CASE task.walk # {}
  <2> DEFINE o == First(task.walk)
             rest == [task EXCEPT !.walk = @ \ {o}]
  <2>1. o \in Oids /\ rest \in Tasks /\ rest.step = "refind"
    BY <1>1, <1>3, WalkOn
  <2>2. \/ rows[o].status = "open" /\ Update(o, exch'[o], rest)
        \/ Untouched /\ task' = rest
    BY <1>1, <1>3 DEF Refind
  <2> HIDE DEF rest, o
  <2>3. CASE rows[o].status = "open" /\ Update(o, exch'[o], rest)
    <3>1. Moves(o, exch')
      BY <1>1, <2>3 DEF Moves
    <3>2. QED
      BY <1>1, <2>1, <2>3, <3>1, UpdateClean
  <2>4. CASE Untouched /\ task' = rest
    <3>1. Once(task', rows, trade)
      BY <2>1, <2>4 DEF Once, Doing
    <3>2. QED
      BY <1>1, <2>4, <3>1, UntouchedClean
  <2>5. QED
    BY <2>2, <2>3, <2>4
<1>4. QED
  BY <1>2, <1>3

\* Nor is the start of an exit.
LEMMA StartExitOnce ==
    ASSUME Faultless, NEW n \in {0, 1}, NEW up \in {"idle", "trade", "others"},
           StartExit(n, up), NEW R, NEW v
    PROVE  Once(task', R, v)
<1> DEFINE t == [Idle EXCEPT !.step = "place", !.size = n, !.up = up]
           S == IF blocks THEN OpenStops(rows) ELSE {}
<1>1. t \in Tasks /\ t.step = "place"
  BY IdleTask DEF Tasks, Idle, Steps
<1>2. task' = Cancelling(S, t) /\ S \in SUBSET Oids
  BY FaultlessFacts DEF StartExit
<1> HIDE DEF t, S
<1>3. \/ Cancelling(S, t) = t
      \/ Cancelling(S, t).step = "cancel" /\ Cancelling(S, t).then = "place"
  BY <1>1, <1>2, CancellingTask
<1>4. QED
  BY <1>1, <1>2, <1>3 DEF Once, Doing

\* The stop is refused.
LEMMA CreateRefusedClean == ASSUME Faultless, CreateRefused PROVE Clean'
<1>1. Once(task', rows, trade)
  <2>1. CASE task' = At("trade")
    <3>1. "trade" \in Steps \ {"check", "cancel"} /\ {} \in SUBSET Oids
      BY DEF Steps
    <3>2. QED
      BY <2>1, <3>1, AtOnce
  <2>2. CASE StartExit(0, "trade")
    BY <2>2, StartExitOnce
  <2>3. CASE task' = [At("refind") EXCEPT !.walk = OpenOrders(rows) \cup OpenStops(rows), !.up = "trade"]
    BY <2>3, RefindOnce
  <2>4. QED
    BY <2>1, <2>2, <2>3 DEF CreateRefused
<1>2. QED
  BY <1>1, UntouchedClean DEF CreateRefused

\* A stop is fetched.
LEMMA ReadStopClean == ASSUME Faultless, NEW o \in Oids, ReadStop(o) PROVE Clean'
<1> DEFINE W == task.walk \ {o}
           G == task.found \cup {o}
           A == IF exch[o].status = "open" THEN task.active \cup {o} ELSE task.active
           c == [task EXCEPT !.walk = W, !.found = G, !.active = A]
           t == IF exch[o].status = "closed" THEN At("others") ELSE c
<1>1. /\ exch' = exch /\ task.step = "check" /\ o \in task.walk
      /\ task \in Tasks /\ Update(o, exch'[o], t)
  BY FaultlessFacts, FirstIn DEF ReadStop
<1>2. ~trade.open \/ task.walk \subseteq OpenStops(rows)
  BY <1>1, FaultlessFacts DEF Once, Doing
<1>3. Moves(o, exch')
  BY <1>1, <1>2 DEF Moves, OpenStops
<1>4. W \in SUBSET Oids /\ G \in SUBSET Oids /\ A \in SUBSET Oids
  BY <1>1 DEF Tasks
<1>5. ~trade.open \/ (W \subseteq OpenStops(rows) \ {o} /\ rows[o].kind # "entry")
  BY <1>1, <1>2 DEF OpenStops
<1> HIDE DEF W, G, A
<1>6. c \in Tasks /\ c.step = "check" /\ c.walk = W
  BY <1>1, <1>4 DEF Tasks
<1>7. "others" \in Steps
  BY DEF Steps
<1>8. At("others") \in Tasks /\ At("others").step = "others"
  BY <1>7, AtTask
<1> HIDE DEF c
<1>9. /\ t \in Tasks /\ t.step # "cancel"
      /\ \/ t.step # "check"
         \/ ~trade.open
         \/ t.walk \subseteq OpenStops(rows) \ {o} /\ rows[o].kind # "entry"
  BY <1>5, <1>6, <1>8
<1> HIDE DEF t
<1>10. QED
  BY <1>1, <1>3, <1>9, UpdateClean

\* A stop cannot be fetched.
LEMMA CheckFailsClean == ASSUME Faultless, CheckFails PROVE Clean'
<1>1. task' = At("others")
  BY FaultlessFacts DEF CheckFails
<1>2. "others" \in Steps \ {"check", "cancel"} /\ {} \in SUBSET Oids
  BY DEF Steps
<1>3. Once(task', rows, trade)
  BY <1>1, <1>2, AtOnce
<1>4. QED
  BY <1>3, UntouchedClean DEF CheckFails

\* The stop is kept, replaced or created.
LEMMA ProtectClean == ASSUME Faultless, Protect PROVE Clean'
<1>1. /\ "trade" \in Steps \ {"check", "cancel"} /\ "create" \in Steps \ {"check", "cancel"}
      /\ OpenStops(rows) \in SUBSET Oids
  BY FaultlessFacts DEF Steps
<1>2. Once(task', rows, trade)
  <2>1. task' = At("trade") \/ task' = At("create") \/ task' = Cancelling(OpenStops(rows), At("create"))
    BY DEF Protect, Replace
  <2>2. QED
    BY <1>1, <2>1, AtOnce
<1>3. QED
  BY <1>2, UntouchedClean DEF Protect

\* handle_trade
LEMMA HandleTradeClean == ASSUME Faultless, HandleTrade PROVE Clean'
<1>1. Once(task', rows, trade)
  <2>1. CASE task' = At("others")
    <3>1. "others" \in Steps \ {"check", "cancel"} /\ {} \in SUBSET Oids
      BY DEF Steps
    <3>2. QED
      BY <2>1, <3>1, AtOnce
  <2>2. CASE StartExit(0, "others")
    BY <2>2, StartExitOnce
  <2>3. QED
    BY <2>1, <2>2 DEF HandleTrade
<1>2. SavedTrade(trade', trade)
  <2>1. trade' = trade \/ \E s \in 1..MaxStop : trade' = [trade EXCEPT !.stop = s]
    BY DEF HandleTrade
  <2>2. \A s \in 1..MaxStop : SavedTrade([trade EXCEPT !.stop = s], trade)
    BY FaultlessFacts DEF SavedTrade, TradeRecords
  <2>3. CASE trade' = trade
    BY <2>3 DEF SavedTrade
  <2>4. CASE \E s \in 1..MaxStop : trade' = [trade EXCEPT !.stop = s]
    <3>1. PICK s \in 1..MaxStop : trade' = [trade EXCEPT !.stop = s]
      BY <2>4
    <3>2. QED
      BY <3>1, <2>2
  <2>5. QED
    BY <2>1, <2>3, <2>4
<1>3. SavedTrade(saved'.trade, trade')
  BY <1>2, FaultlessFacts DEF SavedTrade, HandleTrade
<1>4. QED
  BY <1>1, <1>2, <1>3, StayClean DEF HandleTrade

\* The worker between two handlers fetches nothing.
LEMMA IdleOnce ==
    ASSUME NEW R, NEW v
    PROVE  Once(Idle, R, v)
BY IdleTask DEF Once, Doing

\* The loop ends.
LEMMA EndVisitClean == ASSUME Faultless, EndVisit PROVE Clean'
<1>1. UNCHANGED <<rows, trade>> /\ saved' = [rows |-> rows', trade |-> trade'] /\ task' = Idle
      /\ exch' = exch /\ task.step # "cancel"
  BY FaultlessFacts DEF EndVisit, Commit
<1>2. SavedTrade(trade', trade) /\ SavedTrade(saved'.trade, trade')
  BY <1>1 DEF SavedTrade
<1>3. Once(task', rows, trade)
  BY <1>1, IdleOnce
<1>4. QED
  BY <1>1, <1>2, <1>3, StayClean

\* manage_open_orders
LEMMA ManageClean == ASSUME Faultless, NEW o \in Oids, Manage(o) PROVE Clean'
<1>1. Moves(o, exch') /\ task.step # "cancel"
  BY IdleTask DEF Manage, Moves, OpenOrders
<1>2. Idle \in Tasks /\ Idle.step # "cancel" /\ Idle.step # "check"
  BY IdleTask DEF Tasks
<1>3. QED
  BY <1>1, <1>2, UpdateClean DEF Manage

\* A force exit, or a position adjustment that sells.
LEMMA ExitOrTrimClean == ASSUME Faultless, ExitOrTrim PROVE Clean'
<1>1. Once(task', rows, trade)
  BY StartExitOnce DEF ExitOrTrim
<1>2. task.step # "cancel" /\ Untouched /\ exch' = exch
  BY IdleTask DEF ExitOrTrim, Untouched
<1>3. QED
  BY <1>1, <1>2, UntouchedClean

\* The process dies with everything committed.
LEMMA RestartClean == ASSUME Faultless, Restart PROVE Clean'
<1>1. rows' = rows /\ trade' = saved.trade /\ saved' = saved /\ exch' = exch /\ task.step # "cancel"
  BY FaultlessFacts DEF Restart
<1>2. SavedTrade(trade', trade) /\ SavedTrade(saved'.trade, trade')
  BY <1>1, FaultlessFacts DEF SavedTrade
<1>3. task'.step = "start"
  BY DEF Restart, At, Idle
<1>4. Once(task', rows, trade)
  BY <1>3 DEF Once, Doing
<1>5. QED
  BY <1>1, <1>2, <1>4, StayClean

\* startup_update_open_orders
LEMMA StartupClean == ASSUME Faultless, Startup PROVE Clean'
<1>1. task.step = "start" /\ exch' = exch
  BY DEF Startup
<1>2. CASE task.walk = {}
  BY <1>1, <1>2, IdleOnce, UntouchedClean DEF Startup
<1>3. CASE task.walk # {}
  <2> DEFINE o == First(task.walk)
             rest == [task EXCEPT !.walk = @ \ {o}]
  <2>1. o \in Oids /\ rest \in Tasks /\ rest.step = "start"
    BY <1>1, <1>3, WalkOn
  <2>2. \/ rows[o].status = "open" /\ Update(o, exch'[o], rest)
        \/ Untouched /\ task' = rest
    BY <1>1, <1>3, FaultlessFacts DEF Startup
  <2> HIDE DEF rest, o
  <2>3. CASE rows[o].status = "open" /\ Update(o, exch'[o], rest)
    <3>1. Moves(o, exch')
      BY <1>1, <2>3 DEF Moves
    <3>2. QED
      BY <1>1, <2>1, <2>3, <3>1, UpdateClean
  <2>4. CASE Untouched /\ task' = rest
    <3>1. Once(task', rows, trade)
      BY <2>1, <2>4 DEF Once, Doing
    <3>2. QED
      BY <1>1, <2>4, <3>1, UntouchedClean
  <2>5. QED
    BY <2>2, <2>3, <2>4
<1>4. QED
  BY <1>2, <1>3

\* An order is cancelled by someone else.
LEMMA CancelledOnExchangeClean ==
    ASSUME Faultless, NEW o \in Oids, CancelledOnExchange(o)
    PROVE  Clean'
<1> DEFINE E == exch'
<1>1. /\ StopInv /\ Clean /\ E \in Tables /\ Moves(o, E) /\ exch[o].status = "open"
      /\ UNCHANGED <<rows, trade, saved, task>> /\ trade \in TradeRecords
      /\ InStep(exch, rows) /\ LeftBehind(exch, trade) /\ Covering(task, exch, trade)
  BY FaultlessFacts DEF CancelledOnExchange, Moves
<1> HIDE DEF E
<1>2. /\ \A p \in Oids \ {o} : E[p] = exch[p]
      /\ \A p \in Oids : /\ E[p].kind = exch[p].kind /\ E[p].filled = exch[p].filled
                         /\ E[p].amount = exch[p].amount
                         /\ E[p].status = "open" => exch[p].status = "open"
      /\ E[o].status = "none" => exch[o].status = "none"
  BY <1>1, MovedOrder
<1>3. rows[o].status = "open"
  BY <1>1 DEF InStep
<1>4. InStep(E, rows)
  BY <1>1, <1>2, <1>3 DEF InStep
<1>5. LeftBehind(E, trade)
  BY <1>1, <1>2, LeftBehindKept, FaultlessFacts
<1>6. Covering(task, E, trade)
  BY <1>1, <1>2 DEF Covering
<1>7. QED
  BY <1>1, <1>4, <1>5, <1>6 DEF Clean, E

\* An order is filled; one that is reduce-only takes at most the position.
LEMMA ExecuteClean == ASSUME Faultless, NEW o \in Oids, Execute(o) PROVE Clean'
<1> DEFINE E == exch'
           a == Executed(o)
<1>1. /\ exch \in Tables /\ E \in Tables /\ exch[o] \in OrderRecords /\ exch[o].status = "open"
      /\ exch[o].filled = 0 /\ E = [exch EXCEPT ![o] = a]
      /\ UNCHANGED <<rows, trade, saved, task>> /\ trade \in TradeRecords
      /\ InStep(exch, rows) /\ LeftBehind(exch, trade) /\ Covering(task, exch, trade)
  BY FaultlessFacts DEF Execute, Placing, Tables
<1>2. a.kind = exch[o].kind /\ a.status \in {"closed", "canceled"}
  <2> DEFINE f == IF exch[o].kind # "entry" /\ Position < exch[o].amount THEN Position
                  ELSE exch[o].amount
             s == IF f = exch[o].amount THEN "closed" ELSE "canceled"
  <2>1. a = [exch[o] EXCEPT !.filled = f, !.status = s] /\ s \in {"closed", "canceled"}
    BY DEF Executed
  <2> HIDE DEF f, s, a
  <2>2. QED
    BY <1>1, <2>1 DEF OrderRecords
<1> HIDE DEF E, a
<1>3. E[o] = a /\ \A p \in Oids \ {o} : E[p] = exch[p]
  BY <1>1 DEF Tables
<1>4. rows[o].status = "open"
  BY <1>1 DEF InStep
<1>5. InStep(E, rows)
  <2>1. exch[o].kind = rows[o].kind
    BY <1>1, <1>4 DEF InStep
  <2>2. E[o].status # "none" /\ E[o].kind = rows[o].kind
    BY <2>1, <1>2, <1>3
  <2>3. QED
    BY <1>1, <1>3, <1>4, <2>2 DEF InStep
<1>6. LeftBehind(E, trade)
  <2>1. \A i \in Int : -i = 0 - i
    OBVIOUS
  <2>2. Term(exch, Oids, o) = 0
    <3>1. exch[o].filled \in Int
      BY <1>1
    <3>2. -exch[o].filled = 0 - exch[o].filled
      BY <3>1, <2>1
    <3>3. -exch[o].filled = 0
      BY <3>2, <1>1
    <3>4. QED
      BY <3>3, <1>1 DEF Term
  <2>3. /\ exch[o].kind # "none" => exch[o].kind = E[o].kind
        /\ \/ /\ E[o].kind = "entry" /\ exch[o].status = "open" /\ exch[o].kind = "entry"
              /\ E[o].status # "open"
           \/ E[o].kind # "entry"
    BY <1>1, <1>2, <1>3
  <2>4. QED
    BY <1>1, <1>3, <2>2, <2>3, LeftBehindFilled
<1>7. Covering(task, E, trade)
  BY <1>1, <1>2, <1>3 DEF Covering
<1>8. QED
  BY <1>1, <1>5, <1>6, <1>7, FaultlessFacts DEF Clean, E

\* An order that is not a stop is placed, and booked if it has filled at once.
LEMMA PlacedClean ==
    ASSUME Faultless, NEW a \in OrderRecords, Placed(a),
           a.kind \in {"entry", "exit"}, a.status # "none",
           a.kind = "entry" => trade.open,
           rows' = [rows EXCEPT ![NextId] = a], NEW no \in BOOLEAN,
           trade' = IF Ended(a) THEN Book(trade, rows', NextId, no) ELSE trade,
           Commit, task.step # "cancel", NEW t \in Tasks, Resting(t), NEW S \in SUBSET Oids,
           task' = Cancelling(S, t),
           \/ S = OpenStops(rows')
           \/ trade'.open /\ (a.kind = "exit" \/ ~Ended(a))
    PROVE  Clean'
<1> DEFINE E == exch'
           R == rows'
           u == trade'
           k == NextId
<1>1. /\ exch \in Tables /\ rows \in Tables /\ E \in Tables /\ R \in Tables /\ Placing(E)
      /\ trade \in TradeRecords /\ u \in TradeRecords /\ StopInv
      /\ InStep(exch, rows) /\ Summed(rows, trade) /\ LeftBehind(exch, trade)
  BY FaultlessFacts
<1>2. k \in Oids /\ E = [exch EXCEPT ![k] = a] /\ R = [rows EXCEPT ![k] = a]
  BY DEF Placed
<1>3. exch[k] = NoOrder
  BY <1>2, FreshOrder, FaultlessFacts
<1>4. u = IF Ended(a) THEN Book(trade, R, k, no) ELSE trade
  OBVIOUS
<1>5. S = OpenStops(R) => Covering(task', E, u)
  BY ListCovers DEF Resting
<1>6. S = OpenStops(R) \/ (u.open /\ (a.kind = "exit" \/ ~Ended(a)))
  OBVIOUS
<1>7. saved'.trade = u
  BY DEF Commit
<1> HIDE DEF E, R, u, k
<1>8. /\ E[k] = a /\ \A p \in Oids \ {k} : E[p] = exch[p]
      /\ R[k] = a /\ \A p \in Oids \ {k} : R[p] = rows[p]
  BY <1>1, <1>2 DEF Tables
<1>9. rows[k].status = "none" /\ exch[k].status = "none" /\ exch[k].kind = "none" /\ exch[k].filled = 0
  <2>1. exch[k].status = "none" /\ exch[k].kind = "none" /\ exch[k].filled = 0
    BY <1>3 DEF NoOrder
  <2>2. rows[k] = exch[k]
    BY <2>1, <1>1, <1>2 DEF InStep
  <2>3. QED
    BY <2>1, <2>2
<1>10. InStep(E, R)
  BY <1>1, <1>8 DEF InStep
<1>11. LeftBehind(E, trade)
  <2>1. CASE a.kind = "exit"
    <3>1. Term(exch, Oids, k) = 0
      <4>1. \A i \in Int : -i = 0 - i
        OBVIOUS
      <4>2. exch[k].filled \in Int
        BY <1>9
      <4>3. -exch[k].filled = 0 - exch[k].filled
        BY <4>1, <4>2
      <4>4. -exch[k].filled = 0
        BY <4>3, <1>9
      <4>5. exch[k].kind # "entry"
        BY <1>9
      <4>6. QED
        BY <4>4, <4>5 DEF Term
    <3>2. exch[k].kind = "none" /\ E[k].kind # "entry"
      BY <1>8, <1>9, <2>1
    <3>3. QED
      BY <1>1, <1>2, <1>8, <3>1, <3>2, LeftBehindFilled
  <2>2. CASE a.kind = "entry"
    <3>1. trade.left \in SUBSET Oids /\ trade.open
      BY <1>1, <2>2 DEF TradeRecords
    <3>2. QED
      BY <1>1, <1>8, <2>2, <3>1 DEF LeftBehind
  <2>3. QED
    BY <2>1, <2>2
<1>12. /\ Sum(R, EndedRows(R)) = Sum(rows, EndedRows(rows)) + Term(R, EndedRows(R), k)
       /\ Term(R, EndedRows(R), k) =
             IF ~Ended(a) THEN 0 ELSE IF a.kind = "entry" THEN a.filled ELSE 0 - a.filled
       /\ Sum(rows, EndedRows(rows)) \in Int /\ Sum(R, EndedRows(R)) \in Int
       /\ Sum(rows, EndedRows(rows)) <= trade.amount /\ a.filled \in Nat /\ trade.amount \in Nat
  <2>1. /\ Sum(R, EndedRows(R)) = Sum(rows, EndedRows(rows)) + Term(R, EndedRows(R), k)
        /\ Term(R, EndedRows(R), k) =
              IF ~Ended(R[k]) THEN 0
              ELSE IF R[k].kind = "entry" THEN R[k].filled ELSE 0 - R[k].filled
    BY <1>1, <1>2, <1>8, <1>9, SumRecorded
  <2>2. Sum(rows, EndedRows(rows)) \in Int /\ Sum(R, EndedRows(R)) \in Int
    BY <1>1, SumType
  <2>3. Sum(rows, EndedRows(rows)) <= trade.amount /\ a.filled \in Nat /\ trade.amount \in Nat
    BY <1>1 DEF Summed, OrderRecords, TradeRecords
  <2>4. QED
    BY <2>1, <2>2, <2>3, <1>8
<1>13. /\ Summed(R, u) /\ LeftBehind(E, u) /\ (u.open => trade.open)
       /\ a.kind = "exit" \/ ~Ended(a) => u.amount <= trade.amount
  <2>1. CASE Ended(a)
    <3>1. a.kind = "exit" => Sum(R, EndedRows(R)) <= trade.amount - a.filled
      BY <1>12, <2>1
    <3>2. trade.open /\ R[k].kind # "entry" /\ R[k].filled >= trade.amount
             => Sum(R, EndedRows(R)) <= 0
      <4> SUFFICES ASSUME R[k].kind # "entry", R[k].filled >= trade.amount
                   PROVE  Sum(R, EndedRows(R)) <= 0
        OBVIOUS
      <4>1. a.kind = "exit" /\ a.filled >= trade.amount
        BY <1>8
      <4>2. QED
        BY <4>1, <3>1, <1>12
    <3>3. u = Book(trade, R, k, no)
      BY <1>4, <2>1
    <3>4. /\ Summed(R, Book(trade, R, k, no)) /\ LeftBehind(E, Book(trade, R, k, no))
          /\ Book(trade, R, k, no).open => trade.open
          /\ Sum(R, EndedRows(R)) <= trade.amount => Book(trade, R, k, no).amount <= trade.amount
      BY <1>1, <1>2, <1>10, <1>11, <3>2, BookClean
    <3>5. a.kind = "exit" => Sum(R, EndedRows(R)) <= trade.amount
      BY <3>1, <1>12
    <3>6. QED
      BY <3>3, <3>4, <3>5, <2>1
  <2>2. CASE ~Ended(a)
    <3>1. u = trade /\ Sum(R, EndedRows(R)) = Sum(rows, EndedRows(rows))
      BY <1>4, <1>12, <2>2
    <3>2. Summed(R, u)
      BY <3>1, <1>1 DEF Summed
    <3>3. u.amount <= trade.amount
      BY <3>1, <1>12
    <3>4. QED
      BY <3>1, <3>2, <3>3, <1>11
  <2>3. QED
    BY <2>1, <2>2
<1>14. Covering(task', E, u)
  <2>1. CASE u.open /\ (a.kind = "exit" \/ ~Ended(a))
    <3>1. ASSUME NEW p \in Oids, E[p].status = "open", E[p].kind = "stop"
          PROVE  u.open /\ E[p].amount >= u.amount
      <4>1. p # k
        BY <3>1, <1>8
      <4>2. trade.open /\ exch[p].amount >= trade.amount /\ E[p] = exch[p]
        BY <3>1, <4>1, <1>8, LiveCovers
      <4>3. exch[p].amount \in Nat /\ trade.amount \in Nat /\ u.amount \in Nat
        BY <1>1 DEF Tables, OrderRecords, TradeRecords
      <4>4. QED
        BY <4>2, <4>3, <2>1, <1>13
    <3>2. QED
      BY <3>1 DEF Covering
  <2>2. QED
    BY <2>1, <1>5, <1>6
<1>15. Once(task', R, u)
  <2>1. t.step # "cancel" /\ t.step # "check"
    BY DEF Resting
  <2>2. \/ task' = t
        \/ task'.step = "cancel" /\ task'.then = t.step
    BY <2>1, CancellingTask
  <2>3. QED
    BY <2>1, <2>2 DEF Once, Doing
<1>16. QED
  BY <1>7, <1>10, <1>13, <1>14, <1>15 DEF Clean, SavedTrade, E, R, u

\* execute_trade_exit
LEMMA PlaceExitClean == ASSUME Faultless, PlaceExit PROVE Clean'
<1> DEFINE n == IF task.size = 0 \/ task.size > trade.amount THEN trade.amount ELSE task.size
           f == IF n <= Position THEN n ELSE Position
           s == IF f = n THEN "closed" ELSE "canceled"
           no == FALSE
           S == IF trade'.open THEN {} ELSE OpenStops(rows')
           t == At(task.up)
<1>1. PICK a \in {NewOrder("exit", n), [NewOrder("exit", n) EXCEPT !.status = s, !.filled = f]} :
         /\ Placed(a)
         /\ rows' = [rows EXCEPT ![NextId] = a]
         /\ trade' = IF Ended(a) THEN Book(trade, rows', NextId, no) ELSE trade
         /\ Commit
         /\ task' = Cancelling(S, t)
  BY DEF PlaceExit
<1>2. task \in Tasks /\ trade \in TradeRecords
  BY FaultlessFacts
<1>3. n \in Nat /\ f \in Nat /\ s \in {"closed", "canceled"}
  <2>1. n \in Nat
    BY <1>2 DEF Tasks, TradeRecords
  <2>2. Position \in Int /\ Position > 0
    BY FaultlessFacts, SumType DEF Position, PlaceExit
  <2> HIDE DEF n
  <2>3. QED
    BY <2>1, <2>2
<1> HIDE DEF n, f, s
<1>4. /\ a \in OrderRecords /\ a.kind = "exit" /\ a.status # "none"
  <2>1. CASE a = NewOrder("exit", n)
    BY <2>1, <1>3, NewOrderType
  <2>2. CASE a = [NewOrder("exit", n) EXCEPT !.status = s, !.filled = f]
    BY <2>2, <1>3 DEF NewOrder, OrderRecords
  <2>3. QED
    BY <1>1, <2>1, <2>2
<1>5. no \in BOOLEAN /\ S \in SUBSET Oids /\ (S = OpenStops(rows') \/ trade'.open)
  BY DEF OpenStops
<1>6. t \in Tasks /\ Resting(t) /\ task.step # "cancel"
  BY <1>2, UpTask DEF PlaceExit
<1> HIDE DEF no, S, t
<1>7. QED
  BY <1>1, <1>4, <1>5, <1>6, PlacedClean

\* A position adjustment buys.
LEMMA AddEntryClean == ASSUME Faultless, AddEntry PROVE Clean'
<1> DEFINE s == "closed"
           no == FALSE
<1>1. PICK a \in {NewOrder("entry", AddSize),
                  [NewOrder("entry", AddSize) EXCEPT !.status = s, !.filled = AddSize]} :
         /\ Placed(a)
         /\ rows' = [rows EXCEPT ![NextId] = a]
         /\ trade' = IF Ended(a) THEN Book(trade, rows', NextId, no) ELSE trade
         /\ Commit
         /\ task' = Cancelling(IF Ended(a) THEN OpenStops(rows') ELSE {}, Idle)
  BY DEF AddEntry
<1>2. AddSize \in Nat /\ s \in {"closed", "canceled"} /\ trade.open /\ task.step # "cancel"
  BY StopAssumption, IdleTask DEF AddEntry
<1> HIDE DEF s
<1>3. /\ a \in OrderRecords /\ a.kind = "entry" /\ a.status # "none"
  <2>1. CASE a = NewOrder("entry", AddSize)
    BY <2>1, <1>2, NewOrderType
  <2>2. CASE a = [NewOrder("entry", AddSize) EXCEPT !.status = s, !.filled = AddSize]
    BY <2>2, <1>2 DEF NewOrder, OrderRecords
  <2>3. QED
    BY <1>1, <2>1, <2>2
<1> DEFINE S == IF Ended(a) THEN OpenStops(rows') ELSE {}
<1>4. /\ no \in BOOLEAN /\ S \in SUBSET Oids /\ task' = Cancelling(S, Idle)
      /\ S = OpenStops(rows') \/ (trade'.open /\ ~Ended(a))
  BY <1>1, <1>2 DEF OpenStops
<1> HIDE DEF no, S
<1>5. Idle \in Tasks /\ Resting(Idle)
  BY IdleResting
<1>6. QED
  BY <1>1, <1>2, <1>3, <1>4, <1>5, PlacedClean

\* The stop is created for all of the trade.
LEMMA CreateStopClean == ASSUME Faultless, CreateStop PROVE Clean'
<1> DEFINE k == NextId
           a == Created(trade.amount)
           E == exch'
           R == rows'
<1>1. /\ k \in Oids /\ E = [exch EXCEPT ![k] = a] /\ R = [rows EXCEPT ![k] = a]
      /\ task' = At("trade") /\ UNCHANGED <<trade, saved>> /\ task.step # "cancel" /\ trade.open
  BY FaultlessFacts DEF CreateStop, Placed
<1>2. exch[k] = NoOrder
  BY <1>1, FreshOrder, FaultlessFacts
<1>3. /\ exch \in Tables /\ rows \in Tables /\ E \in Tables /\ R \in Tables /\ trade \in TradeRecords
      /\ InStep(exch, rows) /\ Summed(rows, trade) /\ LeftBehind(exch, trade)
      /\ SavedTrade(saved.trade, trade)
  BY FaultlessFacts
<1>4. a.kind = "stop" /\ a.status = "open" /\ a.amount = trade.amount
  <2> DEFINE n == trade.amount
  <2>1. n \in Nat
    BY <1>3 DEF TradeRecords
  <2> HIDE DEF n
  <2>2. QED
    BY <2>1 DEF Created, NewOrder, n
<1> HIDE DEF k, a, E, R
<1>5. /\ E[k] = a /\ \A p \in Oids \ {k} : E[p] = exch[p]
      /\ R[k] = a /\ \A p \in Oids \ {k} : R[p] = rows[p]
  BY <1>1, <1>3 DEF Tables
<1>6. rows[k].status = "none" /\ exch[k].kind = "none"
  <2>1. exch[k].status = "none" /\ exch[k].kind = "none"
    BY <1>2 DEF NoOrder
  <2>2. QED
    BY <2>1, <1>1, <1>3 DEF InStep
<1>7. InStep(E, R)
  BY <1>3, <1>4, <1>5 DEF InStep
<1>8. Summed(R, trade)
  <2>1. Term(R, EndedRows(R), k) = 0
        /\ Sum(R, EndedRows(R)) = Sum(rows, EndedRows(rows)) + Term(R, EndedRows(R), k)
    <3>1. StopInv
      BY FaultlessFacts
    <3>2. rows[k].status \notin {"closed", "canceled"}
      BY <1>6
    <3>3. /\ Sum(R, EndedRows(R)) = Sum(rows, EndedRows(rows)) + Term(R, EndedRows(R), k)
          /\ Term(R, EndedRows(R), k) =
               IF ~Ended(R[k]) THEN 0
               ELSE IF R[k].kind = "entry" THEN R[k].filled ELSE 0 - R[k].filled
      BY <1>1, <1>3, <1>5, <3>1, <3>2, SumRecorded
    <3>4. ~Ended(R[k])
      BY <1>4, <1>5 DEF Ended
    <3>5. QED
      BY <3>3, <3>4
  <2>2. Sum(rows, EndedRows(rows)) \in Int
    BY <1>3, SumType
  <2>3. Sum(R, EndedRows(R)) = Sum(rows, EndedRows(rows))
    BY <2>1, <2>2
  <2>4. QED
    BY <2>3, <1>3 DEF Summed
<1>9. LeftBehind(E, trade)
  <2>1. \A o \in trade.left : o # k /\ o \in Oids
    BY <1>3, <1>6 DEF LeftBehind, TradeRecords
  <2>2. QED
    BY <2>1, <1>1, <1>3, <1>5 DEF LeftBehind
<1>10. Covering(task', E, trade)
  <2>1. trade.amount \in Nat
    BY <1>3 DEF TradeRecords
  <2>2. ASSUME NEW p \in Oids, E[p].status = "open", E[p].kind = "stop"
        PROVE  trade.open /\ E[p].amount >= trade.amount
    <3>1. CASE p = k
      BY <3>1, <2>1, <1>1, <1>4, <1>5
    <3>2. CASE p # k
      <4>1. E[p] = exch[p]
        BY <3>2, <1>5
      <4>2. QED
        BY <4>1, <2>2, <1>1, LiveCovers
    <3>3. QED
      BY <3>1, <3>2
  <2>3. QED
    BY <2>2 DEF Covering
<1>11. Once(task', R, trade)
  <2>1. "trade" \in Steps \ {"check", "cancel"} /\ {} \in SUBSET Oids
    BY DEF Steps
  <2>2. QED
    BY <2>1, <1>1, AtOnce
<1>12. trade' = trade /\ saved' = saved
  BY <1>1
<1>13. QED
  BY <1>3, <1>7, <1>8, <1>9, <1>10, <1>11, <1>12 DEF Clean, E, R

---------------------------------------------------------------------------
(* Cancelling, and recovery.                                               *)

\* The stops that are still on the list after the first.
LEMMA CancelledList ==
    ASSUME task \in Tasks, task.step = "cancel"
    PROVE  /\ \A p \in task.todo \ {First(task.todo)} : Cancelled.step = "cancel" /\ p \in Cancelled.todo
           /\ Doing(Cancelled, "check") => task.then = "check"
<1> DEFINE D == task.todo \ {First(task.todo)}
           t == [task EXCEPT !.todo = D]
           u == [t EXCEPT !.step = t.then, !.then = "idle"]
<1>1. Cancelled = IF D = {} THEN u ELSE t
  BY DEF Cancelled
<1>2. D \in SUBSET Oids
  BY DEF Tasks
<1> HIDE DEF D
<1>3. t \in Tasks /\ t.step = "cancel" /\ t.todo = D /\ t.then = task.then
  BY <1>2 DEF Tasks
<1> HIDE DEF t
<1>4. u.step = task.then /\ u.then = "idle"
  BY <1>3 DEF Tasks
<1> HIDE DEF u
<1>5. CASE D = {}
  BY <1>1, <1>4, <1>5 DEF Doing, D
<1>6. CASE D # {}
  BY <1>1, <1>3, <1>6 DEF Doing, D
<1>7. QED
  BY <1>5, <1>6

\* Cancelled goes on from a stop that is off the exchange.
LEMMA CancelledClean ==
    ASSUME Faultless, task.step = "cancel", NEW o \in Oids, o = First(task.todo),
           NEW E \in Tables, NEW u \in TradeRecords, NEW R,
           E[o].status # "open", u.open <=> trade.open, u.amount <= trade.amount,
           \A p \in Oids : /\ E[p].kind = exch[p].kind /\ E[p].amount = exch[p].amount
                           /\ E[p].status = "open" => exch[p].status = "open"
    PROVE  Covering(Cancelled, E, u) /\ Once(Cancelled, R, u)
<1>1. task \in Tasks /\ Covering(task, exch, trade) /\ Once(task, rows, trade)
      /\ exch \in Tables /\ trade \in TradeRecords
  BY FaultlessFacts
<1>2. ASSUME NEW p \in Oids, E[p].status = "open", E[p].kind = "stop"
      PROVE  \/ Cancelled.step = "cancel" /\ p \in Cancelled.todo
             \/ u.open /\ E[p].amount >= u.amount
  <2>1. p \in task.todo \/ (trade.open /\ exch[p].amount >= trade.amount)
    BY <1>1, <1>2 DEF Covering
  <2>2. CASE p \in task.todo
    <3>1. p \in task.todo \ {First(task.todo)}
      BY <1>2, <2>2
    <3>2. QED
      BY <3>1, <1>1, CancelledList
  <2>3. CASE trade.open /\ exch[p].amount >= trade.amount
    <3>1. exch[p].amount \in Nat /\ trade.amount \in Nat /\ u.amount \in Nat
      BY <1>1 DEF Tables, OrderRecords, TradeRecords
    <3>2. QED
      BY <3>1, <2>3
  <2>4. QED
    BY <2>1, <2>2, <2>3
<1>3. Covering(Cancelled, E, u)
  BY <1>2 DEF Covering
<1>4. Doing(Cancelled, "check") => ~u.open
  BY <1>1, CancelledList DEF Once, Doing
<1>5. QED
  BY <1>3, <1>4 DEF Once

\* The stop to be cancelled is not open any more.
LEMMA StopGoneClean ==
    ASSUME Faultless, task.step = "cancel", NEW o \in Oids, o = First(task.todo),
           rows[o].status = "open", Ended(exch[o]), StopGone(o), exch' = exch
    PROVE  Clean'
<1>1. /\ task \in Tasks /\ exch \in Tables /\ trade \in TradeRecords /\ rows \in Tables
      /\ InStep(exch, rows) /\ Summed(rows, trade) /\ LeftBehind(exch, trade)
      /\ SavedTrade(saved.trade, trade) /\ exch[o].status # "open" /\ Placing(exch)
      /\ Once(task, rows, trade) /\ Clean /\ StopInv
      /\ trade' \in TradeRecords
  BY FaultlessFacts DEF Ended
<1>2. trade.amount \in Nat
  BY <1>1 DEF TradeRecords
<1>3. CASE Untouched /\ task' = Cancelled
  <2>1. Covering(Cancelled, exch, trade) /\ Once(Cancelled, rows, trade)
    BY <1>1, <1>2, CancelledClean
  <2>2. QED
    BY <2>1, <1>1, <1>3 DEF Clean, Untouched
<1>4. CASE /\ rows' = Recorded(o, exch[o]) /\ trade' = Booked(o, exch[o]) /\ Commit
           /\ LET more == Outdated(o, exch[o]) \ {o}
              IN  task' = IF more = {} THEN Cancelled ELSE [task EXCEPT !.todo = more]
  <2> DEFINE R == rows'
             u == trade'
             S == Outdated(o, exch[o])
             more == S \ {o}
             c == [task EXCEPT !.todo = more]
  <2>1. R = Recorded(o, exch[o]) /\ u = Booked(o, exch[o]) /\ saved'.trade = u
        /\ task' = IF more = {} THEN Cancelled ELSE c
    BY <1>4 DEF Commit
  <2>2. \A p \in Oids : exch[p].status = "open" /\ exch[p].kind = "stop" => p \in OpenStops(R)
    <3>1. LiveStops' = LiveStops
      BY DEF LiveStops, Live
    <3>2. QED
      BY <3>1, KnownStopsNext DEF Faultless, LiveStops, Live
  <2>3. Moves(o, exch)
    BY DEF Moves
  <2> HIDE DEF R, u, S
  <2>4. /\ InStep(exch, R) /\ Summed(R, u) /\ LeftBehind(exch, u) /\ (u.open => trade.open)
        /\ \/ S = OpenStops(R)
           \/ S = {} /\ (u.open <=> trade.open) /\ u.amount <= trade.amount
    BY <1>1, <2>1, <2>3, RecordClean DEF S
  <2>5. u \in TradeRecords
    BY <1>1 DEF u
  <2>6. Covering(task', exch, u) /\ Once(task', R, u)
    <3>1. CASE S = {} /\ (u.open <=> trade.open) /\ u.amount <= trade.amount
      <4>1. Covering(Cancelled, exch, u) /\ Once(Cancelled, R, u)
        BY <1>1, <2>5, <3>1, CancelledClean
      <4>2. QED
        BY <4>1, <3>1, <2>1
    <3>2. CASE S = OpenStops(R)
      <4>1. more = S
        <5>1. R[o] = exch[o]
          BY <1>1, <2>1, <2>3, MovedOrder
        <5>2. QED
          BY <5>1, <1>1, <3>2 DEF OpenStops
      <4>2. CASE more = {}
        <5>1. \A p \in Oids : ~(exch[p].status = "open" /\ exch[p].kind = "stop")
          BY <2>2, <3>2, <4>1, <4>2
        <5>2. task' = Cancelled
          BY <2>1, <4>2
        <5>3. Doing(Cancelled, "check") => ~u.open
          BY <1>1, <2>4, CancelledList DEF Once, Doing
        <5>4. QED
          BY <5>1, <5>2, <5>3 DEF Covering, Once
      <4>3. CASE more # {}
        <5>1. more \in SUBSET Oids
          BY <3>2 DEF OpenStops
        <5>2. more = OpenStops(R)
          BY <3>2, <4>1
        <5> HIDE DEF more
        <5>3. c.step = "cancel" /\ c.todo = more /\ c.then = task.then
          BY <1>1, <5>1 DEF Tasks
        <5> HIDE DEF c
        <5>4. task' = c
          BY <2>1, <4>3
        <5>5. Doing(c, "check") => ~u.open
          BY <1>1, <2>4, <5>3 DEF Once, Doing
        <5>6. QED
          BY <2>2, <5>2, <5>3, <5>4, <5>5 DEF Covering, Once
      <4>4. QED
        BY <4>2, <4>3
    <3>3. QED
      BY <2>4, <3>1, <3>2
  <2>7. QED
    BY <2>1, <2>4, <2>6 DEF Clean, SavedTrade, R, u
<1>5. QED
  BY <1>3, <1>4 DEF StopGone

\* cancel_stoploss_on_exchange
LEMMA CancelStopClean == ASSUME Faultless, CancelStop PROVE Clean'
<1> DEFINE o == First(task.todo)
<1>1. /\ task \in Tasks /\ task.step = "cancel" /\ task.todo # {} /\ task.todo \subseteq OpenStops(rows)
      /\ StopInv /\ Clean /\ ~Fault /\ exch' \in Tables /\ Placing(exch') /\ trade \in TradeRecords
  BY FaultlessFacts DEF StopInv, Working, CancelStop
<1>2. o \in Oids /\ rows[o].status = "open"
  <2>1. o \in task.todo
    BY <1>1, FirstIn DEF Tasks
  <2>2. QED
    BY <2>1, <1>1 DEF OpenStops
<1>3. o = First(task.todo)
  OBVIOUS
<1> HIDE DEF o
<1>4. CASE /\ exch[o].status = "open"
           /\ exch' = [exch EXCEPT ![o].status = "canceled"]
           /\ Update(o, exch'[o], Cancelled)
           /\ UNCHANGED <<blocks, faults>>
  <2> DEFINE E == exch'
             R == rows'
             u == trade'
  <2>1. E[o].status = "canceled" /\ E[o].filled = 0 /\ Moves(o, E)
    <3>1. exch'[o].status = "canceled" /\ exch'[o].filled = 0
      BY <1>1, <1>2, <1>4, CalmCancel
    <3>2. QED
      BY <3>1, <1>4 DEF Moves
  <2>2. R = Recorded(o, E[o]) /\ u = Booked(o, E[o]) /\ saved'.trade = u
        /\ task' = Cancelling(Outdated(o, E[o]), Cancelled) /\ E \in Tables /\ Placing(E)
    BY <1>1, <1>4 DEF Update, Commit
  <2> HIDE DEF E, R, u
  <2>3. u = trade /\ Outdated(o, E[o]) = {}
    BY <2>1, <2>2 DEF Booked, Outdated, Empty, Ended
  <2>4. InStep(E, R) /\ Summed(R, u) /\ LeftBehind(E, u)
    BY <1>1, <1>2, <2>1, <2>2, RecordClean
  <2>5. task' = Cancelled
    BY <2>2, <2>3 DEF Cancelling
  <2>6. \A p \in Oids : /\ E[p].kind = exch[p].kind /\ E[p].amount = exch[p].amount
                        /\ E[p].status = "open" => exch[p].status = "open"
    BY <1>1, <1>2, <2>1, <2>2, MovedOrder
  <2>7. E[o].status # "open" /\ u \in TradeRecords /\ (u.open <=> trade.open) /\ u.amount <= trade.amount
    BY <1>1, <2>1, <2>3 DEF TradeRecords
  <2>8. Covering(Cancelled, E, u) /\ Once(Cancelled, R, u)
    BY <1>1, <1>2, <1>3, <2>2, <2>6, <2>7, CancelledClean
  <2>9. QED
    BY <2>2, <2>4, <2>5, <2>8 DEF Clean, SavedTrade, E, R, u
<1>5. CASE Ended(exch[o]) /\ StopGone(o) /\ UNCHANGED exch
  BY <1>1, <1>2, <1>3, <1>5, StopGoneClean
<1>6. QED
  BY <1>1, <1>4, <1>5 DEF CancelStop, o

\* Recovery finds no order that the rows miss, and books what they have again.
LEMMA RecoverClean ==
    ASSUME Faultless, Recover, exch' = exch, task' = [At("check") EXCEPT !.walk = OpenStops(rows')]
    PROVE  Clean'
<1>1. /\ exch \in Tables /\ rows \in Tables /\ trade \in TradeRecords /\ Placing(exch) /\ StopInv
      /\ InStep(exch, rows) /\ Summed(rows, trade) /\ LeftBehind(exch, trade)
  BY FaultlessFacts
<1>2. \A o \in Oids : rows[o].status # "open" /\ rows[o] = exch[o]
  BY <1>1 DEF Recover, OpenOrders, OpenStops, InStep
<1>3. \A n : Walked(n) = rows
  <2> SUFFICES ASSUME NEW n PROVE Walked(n) = rows
    OBVIOUS
  <2> DEFINE K(o) == IF rows[o].kind = "none" /\ exch[o].kind = "stop" THEN "exit"
                     ELSE IF rows[o].kind = "none" THEN exch[o].kind ELSE rows[o].kind
             W(o) == IF o > n \/ exch[o].status = "none" THEN rows[o]
                     ELSE [exch[o] EXCEPT !.kind = K(o)]
  <2>1. ASSUME NEW o \in Oids
        PROVE  W(o) = rows[o]
    <3>1. exch[o] \in OrderRecords /\ rows[o] = exch[o]
      BY <1>1, <1>2 DEF Tables
    <3>2. CASE K(o) = exch[o].kind
      BY <3>1, <3>2 DEF OrderRecords
    <3>3. CASE K(o) # exch[o].kind
      <4>1. rows[o].kind = "none" /\ exch[o].kind = "stop"
        BY <3>1, <3>3
      <4>2. QED
        BY <3>1, <4>1
    <3>4. QED
      BY <3>2, <3>3
  <2>2. Walked(n) = [o \in Oids |-> W(o)]
    BY DEF Walked
  <2> HIDE DEF W
  <2>3. QED
    BY <1>1, <2>1, <2>2 DEF Tables
<1>4. Sum(rows, EndedRows(rows)) <= 0
  <2>1. \A n \in Oids : Term(exch, Oids, n) = Term(rows, EndedRows(rows), n)
    <3> SUFFICES ASSUME NEW n \in Oids
                 PROVE  Term(exch, Oids, n) = Term(rows, EndedRows(rows), n)
      OBVIOUS
    <3>1. rows[n] = exch[n] /\ rows[n].status # "open" /\ rows[n] \in OrderRecords
      BY <1>1, <1>2 DEF Tables
    <3>2. CASE Ended(rows[n])
      BY <3>1, <3>2 DEF Term, EndedRows
    <3>3. CASE ~Ended(rows[n])
      <4>1. exch[n] = NoOrder
        BY <3>1, <3>3, <1>1 DEF Ended, OrderRecords, Placing
      <4>2. exch[n].kind = "none" /\ exch[n].filled = 0
        BY <4>1 DEF NoOrder
      <4>3. -exch[n].filled = 0
        <5>1. \A i \in Int : -i = 0 - i
          OBVIOUS
        <5>2. exch[n].filled \in Int
          BY <4>2
        <5>3. -exch[n].filled = 0 - exch[n].filled
          BY <5>1, <5>2
        <5>4. QED
          BY <5>3, <4>2
      <4>4. QED
        BY <3>3, <4>2, <4>3 DEF Term, EndedRows
    <3>4. QED
      BY <3>2, <3>3
  <2>2. Position = Sum(rows, EndedRows(rows))
    BY <1>1, <2>1, SumSame DEF Position
  <2>3. Sum(rows, EndedRows(rows)) \in Int /\ trade.amount \in Nat
    BY <1>1, SumType DEF TradeRecords
  <2>4. Sum(rows, EndedRows(rows)) < trade.amount
    BY <2>2 DEF Recover
  <2>5. Sum(rows, EndedRows(rows)) > 0 => Sum(rows, EndedRows(rows)) = trade.amount
    BY <1>1 DEF Summed
  <2>6. QED
    BY <2>3, <2>4, <2>5
<1> DEFINE V == {t \in TradeRecords : Summed(rows, t) /\ LeftBehind(exch, t)}
<1>5. Rebooked \in V
  <2> DEFINE yes == TRUE
  <2>1. yes \in BOOLEAN /\ trade \in V
    BY <1>1
  <2> HIDE DEF yes
  <2>2. ASSUME NEW t \in V, NEW n \in Oids
        PROVE  Book(t, Walked(n), n, yes) \in V
    <3>1. Walked(n) = rows
      BY <1>3
    <3>2. t \in TradeRecords /\ LeftBehind(exch, t)
      OBVIOUS
    <3>3. /\ Book(t, rows, n, yes) \in TradeRecords
          /\ Summed(rows, Book(t, rows, n, yes)) /\ LeftBehind(exch, Book(t, rows, n, yes))
      BY <1>1, <1>4, <2>1, <3>2, BookClean
    <3>4. QED
      BY <3>1, <3>3
  <2> HIDE DEF V
  <2>3. QED
    BY <2>1, <2>2, RebookedIn DEF yes
<1>6. rows' = rows /\ trade' \in V /\ saved'.trade = trade'
  BY <1>3, <1>5 DEF Recover, Commit
<1>7. Covering(task', exch', trade')
  <2>1. \A p \in Oids : exch[p].status # "open"
    BY <1>2
  <2>2. QED
    BY <2>1 DEF Covering
<1>8. Once(task', rows', trade')
  <2>1. task'.step = "check" /\ task'.walk = OpenStops(rows')
    BY DEF At, Idle
  <2>2. QED
    BY <2>1 DEF Once
<1>9. InStep(exch', rows') /\ Summed(rows', trade') /\ LeftBehind(exch', trade')
  BY <1>1, <1>6
<1>10. QED
  BY <1>6, <1>7, <1>8, <1>9 DEF Clean, SavedTrade

\* exit_positions comes to the trade.
LEMMA VisitClean == ASSUME Faultless, Visit PROVE Clean'
<1>1. exch' = exch /\ task' = [At("check") EXCEPT !.walk = OpenStops(rows')] /\ task.step # "cancel"
  BY IdleTask DEF Visit
<1>2. CASE Recover
  BY <1>1, <1>2, RecoverClean
<1>3. CASE Untouched
  <2>1. task'.step = "check" /\ task'.walk = OpenStops(rows)
    BY <1>1, <1>3 DEF At, Idle, Untouched
  <2>2. Once(task', rows, trade)
    BY <2>1 DEF Once
  <2>3. QED
    BY <1>1, <1>3, <2>2, UntouchedClean
<1>4. QED
  BY <1>2, <1>3 DEF Visit

---------------------------------------------------------------------------
(* The theorems.                                                           *)

\* The invariant holds at the start.
LEMMA InitClean == ASSUME Init PROVE Clean
<1> DEFINE yes == TRUE
           e == {}
           b == NewOrder("entry", Size)
           a == [b EXCEPT !.status = "closed", !.filled = Size]
<1>1. StopInv /\ exch \in Tables /\ rows \in Tables /\ Size \in Nat /\ 1 \in Oids
  BY InitGood, StopFacts, StopAssumption DEF Oids
<1>2. /\ rows = exch /\ trade = [open |-> yes, amount |-> Size, stop |-> 1, left |-> e]
      /\ saved = [rows |-> rows, trade |-> trade] /\ task = Idle
      /\ exch = [o \in Oids |-> IF o # 1 THEN NoOrder ELSE a]
  BY DEF Init
<1>3. yes /\ e = {}
  OBVIOUS
<1> HIDE DEF yes, e
<1>4. trade.open /\ trade.amount = Size /\ trade.left = {}
  BY <1>2, <1>3
<1>5. a.kind = "entry" /\ a.status = "closed" /\ a.filled = Size
  <2>1. b \in OrderRecords /\ b.kind = "entry"
    BY <1>1, NewOrderType
  <2> HIDE DEF b
  <2>2. QED
    BY <1>1, <2>1 DEF OrderRecords
<1> HIDE DEF a
<1>6. exch[1] = a /\ \A o \in Oids \ {1} : exch[o] = NoOrder
  BY <1>1, <1>2
<1>7. InStep(exch, rows)
  BY <1>1, <1>2, <1>5, <1>6 DEF InStep, NoOrder
<1>8. Sum(rows, EndedRows(rows)) = Size
  <2>1. \A n \in Oids : Term(rows, {}, n) = 0
    BY DEF Term
  <2>2. Sum(rows, {}) = 0
    BY <1>1, <2>1, SumZero
  <2>3. \A n \in Oids \ {1} : Term(rows, EndedRows(rows), n) = Term(rows, {}, n)
    BY <1>2, <1>6 DEF Term, EndedRows, Ended, NoOrder
  <2>4. Term(rows, EndedRows(rows), 1) = Size /\ Term(rows, {}, 1) = 0
    BY <1>1, <1>2, <1>5, <1>6 DEF Term, EndedRows, Ended
  <2>5. Sum(rows, EndedRows(rows)) - Sum(rows, {}) = Size - 0
    BY <1>1, <2>3, <2>4, SumDiffers
  <2>6. Sum(rows, EndedRows(rows)) \in Int
    BY <1>1, SumType
  <2>7. QED
    BY <2>2, <2>5, <2>6, <1>1
<1>9. Summed(rows, trade)
  BY <1>1, <1>4, <1>8 DEF Summed
<1>10. LeftBehind(exch, trade)
  BY <1>4 DEF LeftBehind
<1>11. Covering(task, exch, trade)
  BY <1>1, <1>5, <1>6 DEF Covering, NoOrder
<1>12. Once(task, rows, trade)
  BY <1>2, IdleOnce
<1>13. SavedTrade(saved.trade, trade)
  BY <1>2 DEF SavedTrade
<1>14. QED
  BY <1>7, <1>9, <1>10, <1>11, <1>12, <1>13 DEF Clean

\* It depends on nothing but the variables.
LEMMA StutterClean == ASSUME Clean, UNCHANGED vars PROVE Clean'
BY DEF Clean, vars

\* Every action keeps it.
LEMMA NextClean == ASSUME Faultless, Next PROVE Clean'
<1>1. CASE Handlers
  BY <1>1, CancelStopClean, ClearOrderClean, PlaceExitClean, ExitRefusedClean, RefindClean,
     CreateStopClean, CreateRefusedClean, CheckFailsClean, ProtectClean, HandleTradeClean,
     EndVisitClean, StartupClean, ReadStopClean DEF Handlers
<1>2. CASE Visit \/ AddEntry \/ ExitOrTrim \/ Restart
  BY <1>2, VisitClean, AddEntryClean, ExitOrTrimClean, RestartClean
<1>3. CASE \E o \in Oids : Manage(o) \/ Execute(o) \/ CancelledOnExchange(o)
  BY <1>3, ManageClean, ExecuteClean, CancelledOnExchangeClean
<1>4. QED
  BY <1>1, <1>2, <1>3 DEF Next

\* A fault is never taken back.
LEMMA FaultsGrow == ASSUME StopInv, [Next]_vars, faults' = 0 PROVE faults = 0
<1>1. faults \in Nat
  BY StopFacts
<1>2. faults' = faults \/ faults' = faults + 1
  BY DEF Next, Handlers, vars, CancelStop, StopGone, ClearOrder, PlaceExit, ExitRefused, Refind,
     CreateStop, CreateRefused, CheckFails, Protect, HandleTrade, EndVisit, Startup, ReadStop,
     Visit, AddEntry, ExitOrTrim, Restart, Manage, Execute, CancelledOnExchange, Fault
<1>3. QED
  BY <1>1, <1>2

\* A step that leaves the run without a fault started without one.
LEMMA CleanStep == ASSUME StopInv, StopInv', faults = 0 => Clean, [Next]_vars PROVE faults' = 0 => Clean'
<1> SUFFICES ASSUME faults' = 0 PROVE Clean'
  OBVIOUS
<1>1. faults = 0 /\ Clean
  BY FaultsGrow
<1>2. Faultless
  BY <1>1 DEF Faultless
<1>3. QED
  BY <1>1, <1>2, NextClean, StutterClean

\* As long as no answer, cancel or row is lost, the rows agree with the exchange after
\* every step of update_trade_state, and every live stop covers the trade or is cancelled.
THEOREM CleanInvariant == Spec => [](faults = 0 => Clean)
<1>1. Init => (faults = 0 => Clean)
  BY InitClean
<1>2. StopInv /\ StopInv' /\ (faults = 0 => Clean) /\ [Next]_vars => (faults = 0 => Clean)'
  BY CleanStep
<1>3. QED
  BY <1>1, <1>2, StopInvariant, PTL DEF Spec

\* Between two handlers the stop on the exchange is for all of the position: it is
\* cancelled when an entry has filled (_update_trade_after_fill), and created again for
\* the new amount.
THEOREM StopCovers == Spec => []Covers
<1>1. StopInv /\ (faults = 0 => Clean) => Covers
  BY IdleTask DEF Covers, Clean, Covering, LiveStops, Live
<1>2. QED
  BY <1>1, StopInvariant, CleanInvariant, PTL

\* A closed trade has no stop on the exchange, and holds no more than its open entries
\* have bought since: the exit and the stop never sell the position twice.
THEOREM ClosedHoldsNothing == Spec => []ClosedIsFlat
<1>1. StopInv /\ (faults = 0 => Clean) => ClosedIsFlat
  BY IdleTask DEF ClosedIsFlat, Clean, Covering, LeftBehind, LiveStops, Live, Position
<1>2. QED
  BY <1>1, StopInvariant, CleanInvariant, PTL
=============================================================================
