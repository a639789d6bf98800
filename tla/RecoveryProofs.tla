-------------------------- MODULE RecoveryProofs --------------------------
(***************************************************************************)
(* Proofs about Recovery, for every number of orders, trades, ticks, lost  *)
(* calls and every width of the window.                                    *)
(*                                                                         *)
(* The invariant is RecoveryInv.  An action is one of four kinds of steps: *)
(* the exchange moves (MarketKeeps), an order is placed (PlacedKeeps), the *)
(* rows of one trade are brought up to date (RefreshKeeps), or a trade is  *)
(* deleted (DropKeeps); a lemma ...Good per action says which.  What       *)
(* handle_onexchange_order leaves after n orders is defined by recursion;  *)
(* WalkedTables shows by induction that it exists and what it keeps.       *)
(***************************************************************************)
EXTENDS Recovery, FiniteSetTheorems, WellFoundedInduction, TLAPS

---------------------------------------------------------------------------
(* Induction and recursion up to a number.                                 *)

\* A set of natural numbers has a least element.
LEMMA LeastElement ==
    ASSUME NEW T \in SUBSET Nat, T # {}
    PROVE  \E x \in T : \A y \in T : x <= y
<1> DEFINE Less == OpToRel(<, Nat)
<1>1. PICK x \in T : \A y \in T : ~(<<y, x>> \in Less)
  <2>1. IsWellFoundedOn(Less, Nat)
    BY NatLessThanWellFounded
  <2> HIDE DEF Less
  <2>2. QED
    BY <2>1, WFMin
<1>2. \A m, n \in Nat : m < n => <<m, n>> \in Less
  BY DEF OpToRel
<1> HIDE DEF Less
<1>3. ASSUME NEW y \in T PROVE x <= y
  <2>1. x \in Nat /\ y \in Nat /\ ~(y < x)
    BY <1>1, <1>2
  <2>2. QED
    BY <2>1
<1>4. QED
  BY <1>1, <1>3

\* A set of numbers up to N has a greatest element.
LEMMA GreatestElement ==
    ASSUME NEW N \in Nat, NEW S \in SUBSET (1..N), S # {}
    PROVE  \E x \in S : \A y \in S : x >= y
<1> DEFINE D == {N - x : x \in S}
<1>1. D \in SUBSET Nat /\ D # {}
  <2>1. D \in SUBSET Nat
    OBVIOUS
  <2>2. PICK z \in S : TRUE
    OBVIOUS
  <2>3. N - z \in D
    OBVIOUS
  <2>4. QED
    BY <2>1, <2>3
<1>2. PICK d \in D : \A e \in D : d <= e
  <2> HIDE DEF D
  <2>1. QED
    BY <1>1, LeastElement
<1>3. PICK x \in S : d = N - x
  BY <1>2
<1>4. ASSUME NEW y \in S PROVE x >= y
  <2>1. N - y \in D
    OBVIOUS
  <2>2. N - x <= N - y
    BY <2>1, <1>2, <1>3
  <2>3. QED
    BY <2>2
<1>5. QED
  BY <1>4

\* A set that has 0, and n whenever it has n - 1, has every number up to N.
LEMMA Induction ==
    ASSUME NEW N \in Nat, NEW T \in SUBSET (0..N), 0 \in T,
           \A n \in 1..N : n - 1 \in T => n \in T
    PROVE  T = 0..N
<1> DEFINE Rest == (0..N) \ T
<1> SUFFICES ASSUME Rest # {} PROVE FALSE
  OBVIOUS
<1>1. PICK n \in Rest : \A y \in Rest : n <= y
  <2>1. Rest \in SUBSET Nat
    OBVIOUS
  <2> HIDE DEF Rest
  <2>2. QED
    BY <2>1, LeastElement
<1>2. n \in 1..N
  BY <1>1
<1>3. n - 1 \in T
  BY <1>1, <1>2
<1>4. QED
  BY <1>1, <1>2, <1>3

\* A function that starts with init and goes on by the steps F exists.
Runs(N, V, init, F) ==
    \E g \in [0..N -> V] : g[0] = init /\ \A m \in 1..N : g[m] = F[m][g[m - 1]]

\* The function that starts with init and goes on by F exists.
\* The function that starts with init and goes on by F exists.
LEMMA Recursion ==
    ASSUME NEW N \in Nat, NEW V, NEW init \in V, NEW F \in [1..N -> [V -> V]]
    PROVE  Runs(N, V, init, F)
<1> DEFINE Reaches(n) == \E g \in [0..n -> V] :
                            g[0] = init /\ \A m \in 1..n : g[m] = F[m][g[m - 1]]
           T == {n \in 0..N : Reaches(n)}
<1>1. 0 \in T
  <2> DEFINE k == [m \in 0..0 |-> init]
  <2>1. k \in [0..0 -> V] /\ k[0] = init /\ 1..0 = {}
    OBVIOUS
  <2>2. Reaches(0)
    <3> HIDE DEF k
    <3>1. QED
      BY <2>1
  <2>3. QED
    BY <2>2
<1>2. ASSUME NEW n \in 1..N, n - 1 \in T
      PROVE  n \in T
  <2>1. PICK g \in [0..(n - 1) -> V] :
           g[0] = init /\ \A m \in 1..(n - 1) : g[m] = F[m][g[m - 1]]
    BY <1>2
  <2> DEFINE k == [m \in 0..n |-> IF m = n THEN F[n][g[n - 1]] ELSE g[m]]
  <2>2. k \in [0..n -> V]
    BY <2>1
  <2>3. k[0] = init
    BY <2>1
  <2>4. ASSUME NEW m \in 1..n
        PROVE  k[m] = F[m][k[m - 1]]
    BY <2>1
  <2>5. Reaches(n)
    <3> HIDE DEF k
    <3>1. QED
      BY <2>2, <2>3, <2>4
  <2>6. QED
    BY <2>5
<1>3. T = 0..N
  <2>1. T \in SUBSET (0..N)
    OBVIOUS
  <2> HIDE DEF T
  <2>2. QED
    BY <2>1, <1>1, <1>2, Induction
<1>4. QED
  BY <1>3 DEF Runs

---------------------------------------------------------------------------
(* The tables.                                                             *)

Statuses == {"none", "open", "closed", "canceled"}
OrderRecords == [side : {"none", "entry", "exit"}, status : Statuses, amount : Int, filled : Int,
                 placed : Nat, at : Nat, for : Tids \cup {Nobody}]
RowRecords == [owner : Tids \cup {Nobody}, status : Statuses, filled : Int]
TradeRecords == [status : {"none", "open", "closed", "deleted"}, amount : Int,
                 opened : Nat, fee : BOOLEAN]

\* What order n adds to Total(R, S).
Term(R, S, n) == IF n \notin S THEN 0
                 ELSE IF exch[n].side = "entry" THEN R[n].filled ELSE -R[n].filled

\* The sum is defined, and is a number.
LEMMA TotalType ==
    ASSUME NEW R, NEW S, \A n \in Oids : R[n].filled \in Int
    PROVE  Total(R, S) \in Int
<1> MaxOrders \in Nat
  BY RecoveryAssumption
<1> DEFINE F == [n \in 1..MaxOrders |-> [v \in Int |-> v + Term(R, S, n)]]
           P(g) == g = [n \in 0..MaxOrders |->
                          IF n = 0 THEN 0
                          ELSE g[n - 1] + (IF n \notin S THEN 0
                                           ELSE IF exch[n].side = "entry" THEN R[n].filled
                                           ELSE -R[n].filled)]
<1>1. \A n \in Oids : Term(R, S, n) \in Int
  BY DEF Term
<1>2. PICK g \in [0..MaxOrders -> Int] :
         g[0] = 0 /\ \A n \in 1..MaxOrders : g[n] = F[n][g[n - 1]]
  <2>1. F \in [1..MaxOrders -> [Int -> Int]]
    BY <1>1 DEF Oids
  <2> HIDE DEF F
  <2>2. Runs(MaxOrders, Int, 0, F)
    BY <2>1, 0 \in Int, MaxOrders \in Nat, Recursion
  <2>3. QED
    BY <2>2 DEF Runs
<1>3. \E f : P(f)
  <2>1. \A n \in 0..MaxOrders : n # 0 => g[n] = g[n - 1] + Term(R, S, n)
    <3> SUFFICES ASSUME NEW n \in 0..MaxOrders, n # 0
                 PROVE  g[n] = g[n - 1] + Term(R, S, n)
      OBVIOUS
    <3>1. n \in 1..MaxOrders /\ g[n - 1] \in Int
      OBVIOUS
    <3>2. QED
      BY <3>1, <1>2
  <2>2. g = [n \in 0..MaxOrders |-> g[n]]
    OBVIOUS
  <2>3. P(g)
    BY <2>1, <2>2, <1>2 DEF Term
  <2>4. QED
    BY <2>3
<1> DEFINE s == CHOOSE f : P(f)
<1>4. P(s)
  BY <1>3
<1>5. Total(R, S) = s[MaxOrders]
  BY DEF Total
<1> HIDE DEF s
<1>6. s[0] = 0 /\ \A n \in Oids : s[n] = s[n - 1] + Term(R, S, n)
  BY <1>4 DEF Oids, Term
<1> DEFINE U == {n \in 0..MaxOrders : s[n] \in Int}
<1>7. U = 0..MaxOrders
  <2>1. 0 \in U /\ U \in SUBSET (0..MaxOrders)
    BY <1>6
  <2>2. ASSUME NEW n \in 1..MaxOrders, n - 1 \in U PROVE n \in U
    BY <2>2, <1>1, <1>6 DEF Oids
  <2> HIDE DEF U
  <2>3. QED
    BY <2>1, <2>2, Induction
<1>8. QED
  BY <1>5, <1>7

\* Booking keeps the trade a trade, and changes its status only to close it.
LEMMA SettledType ==
    ASSUME exch \in [Oids -> OrderRecords], NEW x \in TradeRecords,
           NEW R \in [Oids -> RowRecords], NEW o \in Oids, NEW b \in BOOLEAN
    PROVE  /\ Settled(x, R, o, b) \in TradeRecords
           /\ \/ Settled(x, R, o, b).status = x.status
              \/ x.status = "open" /\ Settled(x, R, o, b).status = "closed"
<1> DEFINE t == R[o].owner
           y == [x EXCEPT !.fee = FeeKnown(x, R, o, b)]
<1>1. FeeKnown(x, R, o, b) \in BOOLEAN
  <2>1. CASE exch[o].side = "exit"
    BY <2>1 DEF FeeKnown, TradeRecords
  <2>2. CASE exch[o].side # "exit"
    <3>1. FeeKnown(x, R, o, b) = (b \/ Cardinality(FilledEntries(R, R[o].owner)) <= 1)
      BY <2>2 DEF FeeKnown
    <3>2. QED
      BY <3>1
  <2>3. QED
    BY <2>1, <2>2
<1>2. y \in TradeRecords /\ y.status = x.status
  BY <1>1 DEF TradeRecords
<1> HIDE DEF y
<1>3. Booked(R, t) \in Int
  BY TotalType DEF Booked, RowRecords
<1>4. ASSUME NEW z \in TradeRecords
      PROVE  Recalc(z, R, t) \in TradeRecords /\ Recalc(z, R, t).status = z.status
  BY <1>3 DEF Recalc, TradeRecords
<1>5. [y EXCEPT !.amount = R[o].filled] \in TradeRecords
  BY <1>2 DEF TradeRecords, RowRecords
<1>6. [y EXCEPT !.status = IF @ = "open" THEN "closed" ELSE @] \in TradeRecords
  BY <1>2 DEF TradeRecords
<1>7. /\ Book(y, R, o, b) \in TradeRecords
      /\ \/ Book(y, R, o, b).status = y.status
         \/ y.status = "open" /\ Book(y, R, o, b).status = "closed"
  BY <1>2, <1>4, <1>5, <1>6 DEF Book, TradeRecords
<1>8. QED
  BY <1>2, <1>7 DEF Settled, y

\* Recording changes nothing but the state of the order.
LEMMA RecordedType ==
    ASSUME exch \in [Oids -> OrderRecords], NEW R \in [Oids -> RowRecords], NEW o \in Oids
    PROVE  /\ Recorded(R, o) \in [Oids -> RowRecords]
           /\ Recorded(R, o)[o].owner = R[o].owner
           /\ Recorded(R, o)[o].status = exch[o].status
           /\ \A p \in Oids \ {o} : Recorded(R, o)[p] = R[p]
<1>1. exch[o].status \in Statuses /\ exch[o].filled \in Int
  BY DEF OrderRecords
<1>2. QED
  BY <1>1 DEF Recorded, RowRecords

---------------------------------------------------------------------------
(* The walk of handle_onexchange_order.                                     *)

\* A row that the walk for trade t has touched: it was the trade's or nobody's,
\* and one that was nobody's traded no earlier than another entry of the trade.
Joined(R, t, o) ==
    /\ R[o].owner = t /\ R[o].status = exch[o].status /\ exch[o].status # "none"
    /\ \/ rows[o].owner = t
       \/ /\ rows[o].owner = Nobody
          /\ \E p \in Rows(R, t) \ {o} : exch[p].side = "entry" /\ exch[o].at >= exch[p].placed

\* Each row is as it was, or was touched for trade t.
Touched(R, t) == \A o \in Oids : R[o] = rows[o] \/ Joined(R, t, o)

HasEntry(t) == \E p \in Rows(rows, t) : exch[p].side = "entry"

\* Nobody is not a trade.
LEMMA TidsType == Tids \subseteq Nat \ {0} /\ Nobody = 0
BY RecoveryAssumption DEF Tids, Nobody

\* The first entry of the trade is one of its rows.
LEMMA CutoffEntry ==
    ASSUME exch \in [Oids -> OrderRecords], NEW R \in [Oids -> RowRecords], NEW t \in Tids,
           NEW q \in Rows(R, t), exch[q].side = "entry"
    PROVE  \E p \in Rows(R, t) : exch[p].side = "entry" /\ Cutoff(R, t) = exch[p].placed
<1> DEFINE D == EntryDates(R, t)
<1>1. D \in SUBSET Nat /\ D # {}
  BY DEF EntryDates, OrderRecords, Rows
<1>2. PICK x \in D : \A y \in D : x <= y
  <2> HIDE DEF D
  <2>1. QED
    BY <1>1, LeastElement
<1>3. Min(D) \in D
  <2> DEFINE M(z) == z \in D /\ \A y \in D : z <= y
  <2>1. \E z : M(z)
    BY <1>2
  <2>2. Min(D) = CHOOSE z \in D : \A y \in D : z <= y
    BY DEF Min
  <2> HIDE DEF D
  <2>3. QED
    BY <1>2, <2>2
<1>4. Cutoff(R, t) = Min(D)
  BY <1>1 DEF Cutoff
<1>5. QED
  BY <1>3, <1>4 DEF EntryDates, Rows

\* One order of the walk: the row stays in order, and touched rows stay touched.
LEMMA AdoptedRow ==
    ASSUME exch \in [Oids -> OrderRecords], rows \in [Oids -> RowRecords], NEW t \in Tids,
           HasEntry(t), NEW R \in [Oids -> RowRecords], Touched(R, t), NEW k \in Listed(t)
    PROVE  /\ Adopted(R, t, k) \in [Oids -> RowRecords]
           /\ Touched(Adopted(R, t, k), t)
<1> DEFINE A == Adopted(R, t, k)
<1>1. k \in Oids /\ exch[k].status # "none" /\ t # Nobody
  BY TidsType DEF Listed
<1>2. exch[k].status \in Statuses /\ exch[k].filled \in Int /\ exch[k].at \in Nat
  BY <1>1 DEF OrderRecords
<1>3. /\ A \in [Oids -> RowRecords]
      /\ \A p \in Oids \ {k} : A[p] = R[p]
      /\ \/ A = R
         \/ R[k].owner = t /\ A[k].owner = t /\ A[k].status = exch[k].status
         \/ /\ R[k].owner = Nobody /\ A[k].owner = t /\ A[k].status = exch[k].status
            /\ exch[k].at >= Cutoff(R, t)
  <2>1. CASE R[k].owner = t
    <3>1. A = Recorded(R, k)
      BY <2>1 DEF Adopted
    <3>2. QED
      BY <3>1, <2>1, <1>1, RecordedType
  <2>2. CASE R[k].owner # t /\ (exch[k].at < Cutoff(R, t) \/ ~Free(R, k))
    <3>1. A = R
      BY <2>2 DEF Adopted
    <3>2. QED
      BY <3>1
  <2>3. CASE R[k].owner # t /\ ~(exch[k].at < Cutoff(R, t) \/ ~Free(R, k))
    <3> DEFINE new == [owner |-> t, status |-> exch[k].status, filled |-> exch[k].filled]
    <3>1. A = [R EXCEPT ![k] = new]
      BY <2>3 DEF Adopted
    <3>2. new \in RowRecords /\ new.owner = t /\ new.status = exch[k].status
      BY <1>2 DEF RowRecords
    <3>3. Cutoff(R, t) \in Nat
      <4>1. PICK q \in Rows(rows, t) : exch[q].side = "entry"
        BY DEF HasEntry
      <4>2. q \in Rows(R, t)
        BY <4>1 DEF Rows, Touched, Joined
      <4>3. PICK p \in Rows(R, t) : Cutoff(R, t) = exch[p].placed
        BY <4>1, <4>2, CutoffEntry
      <4>4. QED
        BY <4>3 DEF Rows, OrderRecords
    <3> HIDE DEF new
    <3>4. QED
      BY <3>1, <3>2, <3>3, <2>3, <1>1, <1>2 DEF Free
  <2>4. QED
    BY <2>1, <2>2, <2>3
<1> HIDE DEF A
<1>4. \A p \in Oids : R[p].owner = t => A[p].owner = t
  BY <1>3
<1>5. ASSUME NEW o \in Oids, o # k \/ A = R PROVE A[o] = rows[o] \/ Joined(A, t, o)
  <2>1. A[o] = R[o]
    BY <1>3, <1>5
  <2>2. CASE R[o] = rows[o]
    BY <2>1, <2>2
  <2>3. CASE Joined(R, t, o)
    BY <2>1, <2>3, <1>4 DEF Joined, Rows
  <2>4. QED
    BY <2>2, <2>3 DEF Touched
<1>6. CASE R[k].owner = t /\ A[k].owner = t /\ A[k].status = exch[k].status
  <2>1. Joined(A, t, k)
    <3>1. CASE R[k] = rows[k]
      BY <3>1, <1>1, <1>6 DEF Joined
    <3>2. CASE Joined(R, t, k)
      BY <3>2, <1>4, <1>6 DEF Joined, Rows
    <3>3. QED
      BY <3>1, <3>2, <1>1 DEF Touched
  <2>2. QED
    BY <2>1, <1>3, <1>5 DEF Touched, A
<1>7. CASE /\ R[k].owner = Nobody /\ A[k].owner = t /\ A[k].status = exch[k].status
           /\ exch[k].at >= Cutoff(R, t)
  <2>1. R[k] = rows[k]
    BY <1>1, <1>7 DEF Touched, Joined
  <2>2. PICK q \in Rows(rows, t) : exch[q].side = "entry"
    BY DEF HasEntry
  <2>3. q \in Rows(R, t)
    BY <2>2 DEF Rows, Touched, Joined
  <2>4. PICK p \in Rows(R, t) : exch[p].side = "entry" /\ Cutoff(R, t) = exch[p].placed
    BY <2>2, <2>3, CutoffEntry
  <2>5. p \in Rows(A, t) \ {k}
    BY <2>4, <1>1, <1>4, <1>7 DEF Rows
  <2>6. Joined(A, t, k)
    BY <2>1, <2>4, <2>5, <1>1, <1>7 DEF Joined
  <2>7. QED
    BY <2>6, <1>3, <1>5 DEF Touched, A
<1>8. QED
  BY <1>3, <1>5, <1>6, <1>7 DEF Touched, A

\* What the walk leaves after n orders.
LEMMA WalkedTables ==
    ASSUME exch \in [Oids -> OrderRecords], rows \in [Oids -> RowRecords],
           trades \in [Tids -> TradeRecords], NEW t \in Tids, HasEntry(t),
           NEW n \in 0..MaxOrders
    PROVE  /\ Walked(t, n).rows \in [Oids -> RowRecords] /\ Touched(Walked(t, n).rows, t)
           /\ Walked(t, n).trade \in TradeRecords
           /\ \/ Walked(t, n).trade.status = trades[t].status
              \/ trades[t].status = "open" /\ Walked(t, n).trade.status = "closed"
<1> MaxOrders \in Nat
  BY RecoveryAssumption
<1> DEFINE V == {R \in [Oids -> RowRecords] : Touched(R, t)}
           Step(k, R) == IF k \in Listed(t) THEN Adopted(R, t, k) ELSE R
           F == [k \in 1..MaxOrders |-> [R \in V |-> Step(k, R)]]
           P(g) == g = [k \in 0..MaxOrders |->
                          IF k = 0 THEN rows
                          ELSE IF k \in Listed(t) THEN Adopted(g[k - 1], t, k) ELSE g[k - 1]]
<1>1. rows \in V
  BY DEF Touched
<1>2. ASSUME NEW k \in 1..MaxOrders, NEW R \in V PROVE Step(k, R) \in V
  BY AdoptedRow
<1> HIDE DEF V
<1>3. \E g : P(g)
  <2>1. F \in [1..MaxOrders -> [V -> V]] /\ \A k \in 1..MaxOrders, R \in V : F[k][R] = Step(k, R)
    BY <1>2
  <2> HIDE DEF F
  <2>2. Runs(MaxOrders, V, rows, F)
    BY <2>1, <1>1, MaxOrders \in Nat, Recursion
  <2>3. PICK g \in [0..MaxOrders -> V] :
           g[0] = rows /\ \A k \in 1..MaxOrders : g[k] = F[k][g[k - 1]]
    BY <2>2 DEF Runs
  <2>4. \A k \in 0..MaxOrders : k # 0 => g[k] = Step(k, g[k - 1])
    <3> SUFFICES ASSUME NEW k \in 0..MaxOrders, k # 0 PROVE g[k] = Step(k, g[k - 1])
      OBVIOUS
    <3>1. k \in 1..MaxOrders /\ g[k - 1] \in V
      OBVIOUS
    <3>2. QED
      BY <3>1, <2>1, <2>3
  <2>5. g = [k \in 0..MaxOrders |-> g[k]]
    OBVIOUS
  <2>6. P(g)
    BY <2>3, <2>4, <2>5
  <2>7. QED
    BY <2>6
<1> DEFINE R == CHOOSE g : P(g)
<1>4. P(R)
  BY <1>3
<1>5. \A k \in 0..MaxOrders : R[k] \in V
  <2> HIDE DEF R
  <2> DEFINE U == {k \in 0..MaxOrders : R[k] \in V}
  <2>1. 0 \in U /\ U \in SUBSET (0..MaxOrders)
    BY <1>1, <1>4
  <2>2. ASSUME NEW k \in 1..MaxOrders, k - 1 \in U PROVE k \in U
    <3>1. R[k] = Step(k, R[k - 1])
      BY <1>4, <2>2
    <3> HIDE DEF Step
    <3>2. QED
      BY <3>1, <2>2, <1>2
  <2> HIDE DEF U
  <2>3. U = 0..MaxOrders
    BY <2>1, <2>2, Induction
  <2>4. QED
    BY <2>3 DEF U
<1> HIDE DEF P
<1> DEFINE yes == TRUE
           W == {v \in TradeRecords : \/ v.status = trades[t].status
                                      \/ trades[t].status = "open" /\ v.status = "closed"}
           Booking(k, v) == IF k \in Listed(t) /\ R[k][k].owner = t
                          THEN Settled(v, R[k], k, yes) ELSE v
           G == [k \in 1..MaxOrders |-> [v \in W |-> Booking(k, v)]]
           Q(g) == g = [k \in 0..MaxOrders |->
                          IF k = 0 THEN trades[t]
                          ELSE IF k \in Listed(t) /\ R[k][k].owner = t
                               THEN Settled(g[k - 1], R[k], k, yes)
                          ELSE g[k - 1]]
<1>0. yes \in BOOLEAN
  OBVIOUS
<1> HIDE DEF R, yes
<1>6. trades[t] \in W
  OBVIOUS
<1>7. ASSUME NEW k \in 1..MaxOrders, NEW v \in W PROVE Booking(k, v) \in W
  <2>1. Booking(k, v) = v \/ Booking(k, v) = Settled(v, R[k], k, yes)
    OBVIOUS
  <2>2. k \in Oids /\ yes \in BOOLEAN /\ R[k] \in [Oids -> RowRecords] /\ v \in TradeRecords
    BY <1>5, <1>0 DEF Oids, V
  <2> HIDE DEF Booking
  <2>3. QED
    BY <2>1, <2>2, SettledType
<1> HIDE DEF W
<1>8. \E g : Q(g)
  <2>1. /\ G \in [1..MaxOrders -> [W -> W]]
        /\ \A k \in 1..MaxOrders, v \in W : G[k][v] = Booking(k, v)
    <3> HIDE DEF Booking
    <3>1. QED
      BY <1>7
  <2> HIDE DEF G
  <2>2. Runs(MaxOrders, W, trades[t], G)
    BY <2>1, <1>6, MaxOrders \in Nat, Recursion
  <2>3. PICK g \in [0..MaxOrders -> W] :
           g[0] = trades[t] /\ \A k \in 1..MaxOrders : g[k] = G[k][g[k - 1]]
    BY <2>2 DEF Runs
  <2>4. \A k \in 0..MaxOrders : k # 0 => g[k] = Booking(k, g[k - 1])
    <3> SUFFICES ASSUME NEW k \in 0..MaxOrders, k # 0 PROVE g[k] = Booking(k, g[k - 1])
      OBVIOUS
    <3>1. k \in 1..MaxOrders /\ g[k - 1] \in W
      OBVIOUS
    <3> HIDE DEF Booking
    <3>2. QED
      BY <3>1, <2>1, <2>3
  <2>5. g = [k \in 0..MaxOrders |-> g[k]]
    OBVIOUS
  <2>6. Q(g)
    BY <2>3, <2>4, <2>5
  <2>7. QED
    BY <2>6
<1> DEFINE x == CHOOSE g : Q(g)
<1>9. Q(x)
  BY <1>8
<1>10. x[n] \in W
  <2> HIDE DEF x
  <2> DEFINE U == {k \in 0..MaxOrders : x[k] \in W}
  <2>1. 0 \in U /\ U \in SUBSET (0..MaxOrders)
    BY <1>6, <1>9
  <2>2. ASSUME NEW k \in 1..MaxOrders, k - 1 \in U PROVE k \in U
    <3>1. x[k] = Booking(k, x[k - 1])
      BY <1>9, <2>2
    <3> HIDE DEF Booking
    <3>2. QED
      BY <3>1, <2>2, <1>7
  <2> HIDE DEF U
  <2>3. U = 0..MaxOrders
    BY <2>1, <2>2, Induction
  <2>4. QED
    BY <2>3 DEF U
<1>11. Walked(t, n) = [rows |-> R[n], trade |-> x[n]]
  BY DEF Walked, R, P, yes
<1> HIDE DEF x, R
<1>12. QED
  BY <1>5, <1>10, <1>11 DEF V, W

---------------------------------------------------------------------------
(* The invariant.                                                          *)

Types ==
    /\ now \in Nat /\ lost \in Nat /\ boot \in SUBSET Oids
    /\ exch \in [Oids -> OrderRecords] /\ rows \in [Oids -> RowRecords]
    /\ trades \in [Tids -> TradeRecords]

\* Ids are given out in order.
Ordered ==
    /\ \A o, p \in Oids : p < o /\ exch[o].status # "none" => exch[p].status # "none"
    /\ \A t, u \in Tids : u < t /\ trades[t].status # "none" => trades[u].status # "none"

\* A row is there for an order that is, and the rows that are still to be fetched
\* are open.
Placing ==
    /\ \A o \in Oids : IF exch[o].status = "none" THEN rows[o] = NoRow
                       ELSE exch[o].for \in Tids /\ exch[o].at <= now
    /\ \A o \in Oids : rows[o].owner = Nobody => rows[o] = NoRow
    /\ \A o \in boot : rows[o].status = "open"

\* Rows belong to a trade that is open or closed, and such a trade has an entry.
Owned ==
    /\ \A o \in Oids : rows[o].owner # Nobody => trades[rows[o].owner].status \in {"open", "closed"}
    /\ \A t \in Tids : trades[t].status \in {"open", "closed"} => HasEntry(t)

\* An order that is not with the trade it was placed for was lost, or the trade
\* was deleted.
Excused ==
    \A o \in Oids : exch[o].status # "none" /\ rows[o].owner # exch[o].for
                        => lost > 0 \/ trades[exch[o].for].status = "deleted"

\* A trade has an entry that is not younger than an order it took from another.
Dated ==
    \A o \in Oids : Foreign(o) =>
        \E p \in Rows(rows, rows[o].owner) \ {o} :
            exch[p].side = "entry" /\ exch[o].at >= exch[p].placed

\* The live orders that no open row would name if the trades of T were deleted.
Loose(T) == {o \in Oids : exch[o].status = "open" /\ (rows[o].status = "open" => rows[o].owner \in T)}

\* Apart from what was lost, a trade has one live order at most.
Counted == \A T \in SUBSET Tids : Cardinality(Loose(T)) <= lost + Cardinality(T)

RecoveryInv == Types /\ Ordered /\ Placing /\ Owned /\ Excused /\ Dated /\ Counted

---------------------------------------------------------------------------
(* Lemmas about the steps.                                                  *)

\* The first id that is not used.
LEMMA FirstFree ==
    ASSUME NEW N \in Nat, NEW S \in SUBSET (1..N), \A o \in S, p \in 1..N : p < o => p \in S
    PROVE  /\ Cardinality(S) + 1 \in Nat /\ Cardinality(S) + 1 \notin S
           /\ \A p \in 1..N : p < Cardinality(S) + 1 => p \in S
<1>1. IsFiniteSet(S) /\ Cardinality(S) \in Nat
  <2>1. IsFiniteSet(1..N)
    BY FS_Interval
  <2>2. QED
    BY <2>1, FS_Subset, FS_CardinalityType
<1> DEFINE k == Cardinality(S) + 1
<1>2. k \notin S
  <2> SUFFICES ASSUME k \in S PROVE FALSE
    OBVIOUS
  <2>1. 1..k \subseteq S
    BY <1>1
  <2>2. Cardinality(1..k) = k
    BY <1>1, FS_Interval
  <2>3. Cardinality(1..k) <= Cardinality(S)
    BY <2>1, <1>1, FS_Subset
  <2>4. QED
    BY <2>2, <2>3, <1>1
<1>3. ASSUME NEW p \in 1..N, p < k, p \notin S PROVE FALSE
  <2>1. S \subseteq 1..(p - 1)
    BY <1>3
  <2>2. IsFiniteSet(1..(p - 1)) /\ Cardinality(1..(p - 1)) = p - 1
    <3> DEFINE m == p - 1
    <3>1. m \in Nat /\ m \in Int /\ 1 \in Int /\ (m = 0 \/ 1 <= m) /\ m - 1 + 1 = m
      OBVIOUS
    <3> HIDE DEF m
    <3>2. IsFiniteSet(1..m) /\ Cardinality(1..m) = m
      BY <3>1, FS_Interval
    <3>3. QED
      BY <3>2 DEF m
  <2>3. Cardinality(S) <= p - 1
    <3>1. Cardinality(S) <= Cardinality(1..(p - 1))
      BY <2>1, <2>2, FS_Subset
    <3>2. QED
      BY <2>2, <3>1
  <2>4. QED
    BY <2>3, <1>1, <1>3
<1>4. QED
  BY <1>1, <1>2, <1>3

\* The order that is placed next has an id nobody had.
LEMMA FreshOrder ==
    ASSUME Ordered, NextId \in Oids
    PROVE  /\ exch[NextId].status = "none"
           /\ \A p \in Oids : p < NextId => exch[p].status # "none"
<1> DEFINE S == {o \in Oids : exch[o].status # "none"}
<1>1. MaxOrders \in Nat /\ S \in SUBSET (1..MaxOrders)
  BY RecoveryAssumption DEF Oids
<1>2. \A o \in S, p \in 1..MaxOrders : p < o => p \in S
  BY DEF Ordered, Oids
<1>3. NextId = Cardinality(S) + 1
  BY DEF NextId
<1>4. NextId \notin S /\ \A p \in Oids : p < NextId => p \in S
  <2> HIDE DEF S
  <2>1. QED
    BY <1>1, <1>2, <1>3, FirstFree DEF Oids
<1>5. QED
  BY <1>4

\* So has the trade that is opened next.
LEMMA FreshTrade ==
    ASSUME Ordered, NextTrade \in Tids
    PROVE  /\ trades[NextTrade].status = "none"
           /\ \A u \in Tids : u < NextTrade => trades[u].status # "none"
<1> DEFINE S == {t \in Tids : trades[t].status # "none"}
<1>1. MaxTrades \in Nat /\ S \in SUBSET (1..MaxTrades)
  BY RecoveryAssumption DEF Tids
<1>2. \A o \in S, p \in 1..MaxTrades : p < o => p \in S
  BY DEF Ordered, Tids
<1>3. NextTrade = Cardinality(S) + 1
  BY DEF NextTrade
<1>4. NextTrade \notin S /\ \A p \in Tids : p < NextTrade => p \in S
  <2> HIDE DEF S
  <2>1. QED
    BY <1>1, <1>2, <1>3, FirstFree DEF Tids
<1>5. QED
  BY <1>4

\* The tables are finite.
LEMMA FiniteTables ==
    /\ IsFiniteSet(Oids) /\ IsFiniteSet(Tids)
    /\ \A S \in SUBSET Oids : IsFiniteSet(S) /\ Cardinality(S) \in Nat
    /\ \A S \in SUBSET Tids : IsFiniteSet(S) /\ Cardinality(S) \in Nat
<1>1. IsFiniteSet(Oids) /\ IsFiniteSet(Tids)
  <2>1. MaxOrders \in Int /\ MaxTrades \in Int /\ 1 \in Int
    BY RecoveryAssumption
  <2>2. IsFiniteSet(1..MaxOrders) /\ IsFiniteSet(1..MaxTrades)
    BY <2>1, FS_Interval
  <2>3. QED
    BY <2>2 DEF Oids, Tids
<1>2. QED
  BY <1>1, FS_Subset, FS_CardinalityType

\* Nothing comes loose.
LEMMA CountKept ==
    ASSUME Types, Counted, lost' \in Nat, lost' >= lost,
           \A T \in SUBSET Tids : Loose(T)' \subseteq Loose(T)
    PROVE  Counted'
<1> SUFFICES ASSUME NEW T \in SUBSET Tids
             PROVE  Cardinality(Loose(T)') <= lost' + Cardinality(T)
  BY DEF Counted
<1>1. Loose(T) \in SUBSET Oids /\ Loose(T)' \subseteq Loose(T)
  BY DEF Loose
<1>2. Cardinality(Loose(T)') <= Cardinality(Loose(T)) /\ Cardinality(Loose(T)') \in Nat
  BY <1>1, FiniteTables, FS_Subset
<1>3. Cardinality(Loose(T)) <= lost + Cardinality(T)
  BY DEF Counted
<1>4. Cardinality(Loose(T)) \in Nat /\ Cardinality(T) \in Nat /\ lost \in Nat
  BY <1>1, FiniteTables DEF Types
<1>5. QED
  BY <1>2, <1>3, <1>4

\* The new order is all that comes loose, and it was lost.
LEMMA CountLost ==
    ASSUME Types, Counted, lost' = lost + 1, NEW k \in Oids,
           \A T \in SUBSET Tids : Loose(T)' \subseteq Loose(T) \cup {k}
    PROVE  Counted'
<1> SUFFICES ASSUME NEW T \in SUBSET Tids
             PROVE  Cardinality(Loose(T)') <= lost' + Cardinality(T)
  BY DEF Counted
<1>1. Loose(T) \in SUBSET Oids /\ Loose(T)' \subseteq Loose(T) \cup {k}
  BY DEF Loose
<1>2. Cardinality(Loose(T) \cup {k}) <= Cardinality(Loose(T)) + 1 /\ IsFiniteSet(Loose(T) \cup {k})
  BY <1>1, FiniteTables, FS_AddElement
<1>3. /\ Cardinality(Loose(T)') <= Cardinality(Loose(T) \cup {k}) /\ Cardinality(Loose(T)') \in Nat
      /\ Cardinality(Loose(T) \cup {k}) \in Nat
  <2>1. Loose(T)' \in SUBSET Oids /\ Loose(T) \cup {k} \in SUBSET Oids
    BY <1>1
  <2>2. QED
    BY <2>1, <1>1, <1>2, FiniteTables, FS_Subset
<1>4. Cardinality(Loose(T)) <= lost + Cardinality(T)
  BY DEF Counted
<1>5. Cardinality(Loose(T)) \in Nat /\ Cardinality(T) \in Nat /\ lost \in Nat
  BY <1>1, FiniteTables DEF Types
<1>6. QED
  BY <1>2, <1>3, <1>4, <1>5

\* A trade that had no live order has one.
LEMMA CountPlaced ==
    ASSUME Types, Counted, lost' = lost, NEW k \in Oids, NEW t \in Tids,
           \A T \in SUBSET Tids : Loose(T)' \subseteq IF t \in T THEN Loose(T \ {t}) \cup {k} ELSE Loose(T)
    PROVE  Counted'
<1> SUFFICES ASSUME NEW T \in SUBSET Tids
             PROVE  Cardinality(Loose(T)') <= lost' + Cardinality(T)
  BY DEF Counted
<1>0. lost \in Nat
  BY DEF Types
<1>1. CASE t \notin T
  <2>1. Loose(T) \in SUBSET Oids /\ Loose(T)' \subseteq Loose(T)
    BY <1>1 DEF Loose
  <2>2. Cardinality(Loose(T)') <= Cardinality(Loose(T)) /\ Cardinality(Loose(T)') \in Nat
    BY <2>1, FiniteTables, FS_Subset
  <2>3. Cardinality(Loose(T)) <= lost + Cardinality(T)
    BY DEF Counted
  <2>4. Cardinality(Loose(T)) \in Nat /\ Cardinality(T) \in Nat
    BY <2>1, FiniteTables
  <2>5. QED
    BY <2>2, <2>3, <2>4, <1>0
<1>2. CASE t \in T
  <2> DEFINE U == T \ {t}
  <2>1. Loose(U) \in SUBSET Oids /\ Loose(T)' \subseteq Loose(U) \cup {k} /\ U \in SUBSET Tids
    BY <1>2 DEF Loose
  <2>2. Cardinality(T) = Cardinality(U) + 1 /\ Cardinality(U) \in Nat
    <3>1. T = U \cup {t} /\ t \notin U
      BY <1>2
    <3>2. IsFiniteSet(U) /\ Cardinality(U) \in Nat
      BY FiniteTables
    <3> HIDE DEF U
    <3>3. QED
      BY <3>1, <3>2, FS_AddElement
  <2>3. Cardinality(Loose(U)) <= lost + Cardinality(U)
    BY <2>1 DEF Counted
  <2> HIDE DEF U
  <2>4. Cardinality(Loose(U) \cup {k}) <= Cardinality(Loose(U)) + 1 /\ IsFiniteSet(Loose(U) \cup {k})
    BY <2>1, FiniteTables, FS_AddElement
  <2>5. /\ Cardinality(Loose(T)') <= Cardinality(Loose(U) \cup {k}) /\ Cardinality(Loose(T)') \in Nat
        /\ Cardinality(Loose(U) \cup {k}) \in Nat
    <3>1. Loose(T)' \in SUBSET Oids /\ Loose(U) \cup {k} \in SUBSET Oids
      BY <2>1
    <3>2. QED
      BY <3>1, <2>1, <2>4, FiniteTables, FS_Subset
  <2>6. Cardinality(Loose(U)) \in Nat
    BY <2>1, FiniteTables
  <2>7. QED
    BY <2>2, <2>3, <2>4, <2>5, <2>6, <1>0
<1>3. QED
  BY <1>1, <1>2

\* The live orders of a trade come loose, and one cancel more was lost.
LEMMA CountDeleted ==
    ASSUME Types, Counted, lost' = lost + 1, NEW t \in Tids,
           \A T \in SUBSET Tids : Loose(T)' \subseteq Loose(T \cup {t})
    PROVE  Counted'
<1> SUFFICES ASSUME NEW T \in SUBSET Tids
             PROVE  Cardinality(Loose(T)') <= lost' + Cardinality(T)
  BY DEF Counted
<1> DEFINE U == T \cup {t}
<1>1. Loose(U) \in SUBSET Oids /\ Loose(T)' \subseteq Loose(U) /\ U \in SUBSET Tids
  BY DEF Loose
<1>2. Cardinality(U) <= Cardinality(T) + 1 /\ Cardinality(U) \in Nat /\ Cardinality(T) \in Nat
  <2>1. IsFiniteSet(T) /\ Cardinality(T) \in Nat /\ Cardinality(U) \in Nat
    BY FiniteTables
  <2>2. QED
    BY <2>1, FS_AddElement
<1>3. Cardinality(Loose(U)) <= lost + Cardinality(U)
  BY <1>1 DEF Counted
<1> HIDE DEF U
<1>4. Cardinality(Loose(T)') <= Cardinality(Loose(U)) /\ Cardinality(Loose(T)') \in Nat
  BY <1>1, FiniteTables, FS_Subset
<1>5. Cardinality(Loose(U)) \in Nat /\ lost \in Nat
  BY <1>1, FiniteTables DEF Types
<1>6. QED
  BY <1>2, <1>3, <1>4, <1>5

---------------------------------------------------------------------------
(* The kinds of steps.                                                      *)

\* Orders trade and end on the exchange.
LEMMA MarketKeeps ==
    ASSUME RecoveryInv, UNCHANGED <<rows, trades, boot, lost>>,
           now' \in Nat, now' >= now, exch' \in [Oids -> OrderRecords],
           \A o \in Oids :
              /\ exch'[o].side = exch[o].side /\ exch'[o].placed = exch[o].placed
              /\ exch'[o].for = exch[o].for
              /\ exch'[o].status = "none" <=> exch[o].status = "none"
              /\ exch'[o].status = "open" => exch[o].status = "open"
              /\ exch'[o].at >= exch[o].at
              /\ exch'[o].at <= now' \/ exch'[o].at = exch[o].at
    PROVE  RecoveryInv'
<1>1. Types' /\ Ordered'
  BY DEF RecoveryInv, Types, Ordered
<1>2. Placing'
  BY DEF RecoveryInv, Types, Placing, OrderRecords
<1>3. Owned'
  BY DEF RecoveryInv, Owned, HasEntry, Rows
<1>4. Excused'
  BY DEF RecoveryInv, Excused
<1>5. Dated'
  <2> SUFFICES ASSUME NEW o \in Oids, Foreign(o)'
               PROVE  \E p \in Rows(rows, rows[o].owner) \ {o} :
                         exch'[p].side = "entry" /\ exch'[o].at >= exch'[p].placed
    BY DEF Dated
  <2>1. Foreign(o)
    BY DEF Foreign
  <2>2. PICK p \in Rows(rows, rows[o].owner) \ {o} :
           exch[p].side = "entry" /\ exch[o].at >= exch[p].placed
    BY <2>1 DEF RecoveryInv, Dated
  <2>3. /\ p \in Oids /\ exch[o].at \in Nat /\ exch'[o].at \in Nat /\ exch[p].placed \in Nat
    BY <2>2 DEF RecoveryInv, Types, OrderRecords, Rows
  <2>4. QED
    BY <2>2, <2>3
<1>6. Counted'
  <2>1. \A T \in SUBSET Tids : Loose(T)' \subseteq Loose(T)
    BY DEF Loose
  <2>2. lost' \in Nat /\ lost' >= lost
    BY DEF RecoveryInv, Types
  <2>3. QED
    BY <2>1, <2>2, CountKept DEF RecoveryInv
<1>7. QED
  BY <1>1, <1>2, <1>3, <1>4, <1>5, <1>6 DEF RecoveryInv

\* An order is placed for trade t; the answer is lost, or its row is recorded for
\* the trade, which is open or new.
LEMMA PlacedKeeps ==
    ASSUME RecoveryInv, boot = {}, NEW t \in Tids, NEW side \in {"entry", "exit"}, NEW n \in Int,
           Placed(side, n, t), now' = now, boot' = boot,
           \/ lost' = lost + 1 /\ UNCHANGED <<rows, trades>>
           \/ /\ rows' = [rows EXCEPT ![NextId] = [NoRow EXCEPT !.owner = t, !.status = "open"]]
              /\ lost' = lost
              /\ \/ trades[t].status = "open" /\ OpenRows(rows, t) = {} /\ UNCHANGED trades
                 \/ /\ t = NextTrade /\ side = "entry"
                    /\ trades' = [trades EXCEPT ![t] =
                                     [NoTrade EXCEPT !.status = "open", !.opened = now]]
    PROVE  /\ RecoveryInv'
           /\ \A o \in Oids : rows[o].owner # Nobody => rows'[o] = rows[o]
<1> DEFINE k == NextId
           a == [side |-> side, status |-> "open", amount |-> n, filled |-> 0,
                 placed |-> now, at |-> now, for |-> t]
           row == [NoRow EXCEPT !.owner = t, !.status = "open"]
           new == [NoTrade EXCEPT !.status = "open", !.opened = now]
<1>1. /\ k \in Oids /\ exch' = [exch EXCEPT ![k] = a]
      /\ Types /\ Ordered /\ Placing /\ Owned /\ Excused /\ Dated /\ Counted
  BY DEF Placed, RecoveryInv
<1>2. /\ exch[k].status = "none" /\ rows[k] = NoRow
      /\ \A p \in Oids : p < k => exch[p].status # "none"
  BY <1>1, FreshOrder DEF Placing
<1>3. a \in OrderRecords /\ a.status = "open" /\ a.side = side /\ a.for = t /\ a.at = now
  BY <1>1 DEF Types, OrderRecords, Statuses
<1>4. row \in RowRecords /\ row.owner = t /\ row.status = "open"
  <2>1. NoRow \in RowRecords /\ t \in Tids \cup {Nobody} /\ "open" \in Statuses
    BY TidsType DEF NoRow, RowRecords, Statuses
  <2>2. QED
    BY <2>1 DEF RowRecords
<1>5. new \in TradeRecords /\ new.status = "open"
  <2>1. NoTrade \in TradeRecords
    <3> DEFINE no == FALSE
    <3>1. NoTrade = [status |-> "none", amount |-> 0, opened |-> 0, fee |-> no]
      BY DEF NoTrade
    <3>2. no \in BOOLEAN /\ 0 \in Int /\ 0 \in Nat
      OBVIOUS
    <3> HIDE DEF no
    <3>3. QED
      BY <3>1, <3>2 DEF TradeRecords
  <2>2. now \in Nat
    BY <1>1 DEF Types
  <2>3. QED
    BY <2>1, <2>2 DEF TradeRecords
<1>6. t # Nobody /\ NoRow.owner = Nobody /\ NoRow.status = "none" /\ Nobody \notin Tids
  BY TidsType DEF NoRow
<1> HIDE DEF k, a, row, new
<1>7. /\ exch' \in [Oids -> OrderRecords] /\ exch'[k] = a
      /\ \A p \in Oids \ {k} : exch'[p] = exch[p]
  BY <1>1, <1>3 DEF Types
<1>8. \/ lost' = lost + 1 /\ rows' = rows /\ trades' = trades
      \/ /\ rows' = [rows EXCEPT ![k] = row] /\ lost' = lost /\ trades' = trades
         /\ trades[t].status = "open" /\ OpenRows(rows, t) = {}
      \/ /\ rows' = [rows EXCEPT ![k] = row] /\ lost' = lost
         /\ trades' = [trades EXCEPT ![t] = new] /\ trades[t].status = "none" /\ side = "entry"
         /\ \A u \in Tids : u < t => trades[u].status # "none"
  BY <1>1, FreshTrade DEF k, row, new
<1>9. \/ lost' = lost + 1 /\ rows' = rows /\ trades' = trades
      \/ /\ rows' \in [Oids -> RowRecords] /\ rows'[k] = row
         /\ \A p \in Oids \ {k} : rows'[p] = rows[p]
         /\ lost' = lost /\ trades' \in [Tids -> TradeRecords]
         /\ OpenRows(rows, t) = {}
         /\ \A u \in Tids \ {t} : trades'[u] = trades[u]
         /\ trades'[t].status = "open" /\ trades[t].status \in {"none", "open"}
         /\ \/ trades[t].status = "open"
            \/ /\ side = "entry"
               /\ \A u \in Tids : u < t => trades[u].status # "none"
  <2>1. CASE lost' = lost + 1 /\ rows' = rows /\ trades' = trades
    BY <2>1
  <2>2. CASE /\ rows' = [rows EXCEPT ![k] = row] /\ lost' = lost /\ trades' = trades
             /\ trades[t].status = "open" /\ OpenRows(rows, t) = {}
    BY <2>2, <1>1, <1>4 DEF Types
  <2>3. CASE /\ rows' = [rows EXCEPT ![k] = row] /\ lost' = lost
             /\ trades' = [trades EXCEPT ![t] = new] /\ trades[t].status = "none"
             /\ side = "entry" /\ \A u \in Tids : u < t => trades[u].status # "none"
    <3>1. OpenRows(rows, t) = {}
      BY <2>3, <1>1, <1>6 DEF OpenRows, Rows, Owned
    <3>2. QED
      BY <2>3, <3>1, <1>1, <1>4, <1>5 DEF Types
  <2>4. QED
    BY <1>8, <2>1, <2>2, <2>3
<1>10. Types'
  BY <1>1, <1>7, <1>9 DEF Types
<1>11. Ordered'
  <2>1. \A o, p \in Oids : p < o /\ exch'[o].status # "none" => exch'[p].status # "none"
    BY <1>1, <1>2, <1>3, <1>7 DEF Ordered
  <2>2. \A x, u \in Tids : u < x /\ trades'[x].status # "none" => trades'[u].status # "none"
    BY <1>1, <1>9 DEF Ordered
  <2>3. QED
    BY <2>1, <2>2 DEF Ordered
<1>12. Placing'
  <2>1. ASSUME NEW o \in Oids
        PROVE  IF exch'[o].status = "none" THEN rows'[o] = NoRow
               ELSE exch'[o].for \in Tids /\ exch'[o].at <= now'
    BY <1>1, <1>2, <1>3, <1>7, <1>9 DEF Placing, Types
  <2>2. ASSUME NEW o \in Oids, rows'[o].owner = Nobody PROVE rows'[o] = NoRow
    BY <2>2, <1>1, <1>4, <1>6, <1>9 DEF Placing
  <2>3. QED
    BY <2>1, <2>2 DEF Placing
<1>13. Owned'
  <2>1. \A o \in Oids : rows'[o].owner # Nobody => trades'[rows'[o].owner].status \in {"open", "closed"}
    BY <1>1, <1>4, <1>6, <1>9 DEF Owned, Types, RowRecords
  <2>2. ASSUME NEW u \in Tids, trades'[u].status \in {"open", "closed"}
        PROVE  \E p \in Rows(rows', u) : exch'[p].side = "entry"
    <3>1. CASE trades[u].status \in {"open", "closed"}
      <4>1. PICK p \in Rows(rows, u) : exch[p].side = "entry"
        BY <3>1, <1>1 DEF Owned, HasEntry
      <4>2. p \in Oids \ {k}
        BY <4>1, <1>2, <1>6 DEF Rows
      <4>3. p \in Rows(rows', u) /\ exch'[p].side = "entry"
        BY <4>1, <4>2, <1>7, <1>9 DEF Rows
      <4>4. QED
        BY <4>3
    <3>2. CASE trades[u].status \notin {"open", "closed"}
      <4>1. u = t /\ side = "entry" /\ rows'[k] = row
        BY <2>2, <3>2, <1>9
      <4>2. k \in Rows(rows', u) /\ exch'[k].side = "entry"
        BY <4>1, <1>1, <1>3, <1>4, <1>7 DEF Rows
      <4>3. QED
        BY <4>2
    <3>3. QED
      BY <3>1, <3>2
  <2>3. QED
    BY <2>1, <2>2 DEF Owned, HasEntry
<1>14. Excused'
  <2> SUFFICES ASSUME NEW o \in Oids, exch'[o].status # "none", rows'[o].owner # exch'[o].for
               PROVE  lost' > 0 \/ trades'[exch'[o].for].status = "deleted"
    BY DEF Excused
  <2>1. CASE lost' = lost + 1
    BY <2>1, <1>1 DEF Types
  <2>2. CASE lost' = lost /\ rows'[k] = row
    <3>1. o # k
      BY <2>2, <1>3, <1>4, <1>7
    <3>2. exch'[o] = exch[o] /\ rows'[o] = rows[o]
      BY <3>1, <2>2, <1>7, <1>9
    <3>3. lost > 0 \/ trades[exch[o].for].status = "deleted"
      BY <3>2, <1>1 DEF Excused
    <3>4. exch[o].for \in Tids
      BY <3>2, <1>1 DEF Placing
    <3>5. QED
      BY <2>2, <3>2, <3>3, <3>4, <1>9
  <2>3. QED
    BY <2>1, <2>2, <1>9
<1>15. Dated'
  <2> SUFFICES ASSUME NEW o \in Oids, Foreign(o)'
               PROVE  \E p \in Rows(rows', rows'[o].owner) \ {o} :
                         exch'[p].side = "entry" /\ exch'[o].at >= exch'[p].placed
    BY DEF Dated
  <2>1. o # k
    BY <1>2, <1>3, <1>4, <1>6, <1>7, <1>9 DEF Foreign
  <2>2. exch'[o] = exch[o] /\ rows'[o] = rows[o] /\ Foreign(o) /\ rows[o].owner # Nobody
    BY <2>1, <1>7, <1>9 DEF Foreign
  <2>3. PICK p \in Rows(rows, rows[o].owner) \ {o} :
           exch[p].side = "entry" /\ exch[o].at >= exch[p].placed
    BY <2>2, <1>1 DEF Dated
  <2>4. p \in Oids \ {k}
    BY <2>2, <2>3, <1>2, <1>6 DEF Rows
  <2>5. p \in Rows(rows', rows'[o].owner) \ {o} /\ exch'[p] = exch[p]
    BY <2>2, <2>3, <2>4, <1>7, <1>9 DEF Rows
  <2>6. QED
    BY <2>2, <2>3, <2>5
<1>16. Counted'
  <2>1. CASE lost' = lost + 1 /\ rows' = rows
    <3>1. \A T \in SUBSET Tids : Loose(T)' \subseteq Loose(T) \cup {k}
      BY <2>1, <1>7 DEF Loose
    <3>2. QED
      BY <2>1, <3>1, <1>1, CountLost
  <2>2. CASE /\ rows'[k] = row /\ lost' = lost /\ OpenRows(rows, t) = {}
             /\ \A p \in Oids \ {k} : rows'[p] = rows[p]
    <3>1. ASSUME NEW T \in SUBSET Tids
          PROVE  Loose(T)' \subseteq IF t \in T THEN Loose(T \ {t}) \cup {k} ELSE Loose(T)
      <4> SUFFICES ASSUME NEW o \in Loose(T)'
                   PROVE  IF t \in T THEN o = k \/ o \in Loose(T \ {t}) ELSE o \in Loose(T)
        OBVIOUS
      <4>1. o \in Oids /\ exch'[o].status = "open" /\ (rows'[o].status = "open" => rows'[o].owner \in T)
        BY DEF Loose
      <4>2. o = k => t \in T
        BY <4>1, <2>2, <1>4
      <4>3. o # k => o \in Loose(T) /\ (rows[o].status = "open" => rows[o].owner # t)
        BY <4>1, <2>2, <1>7 DEF Loose, OpenRows, Rows
      <4>4. QED
        BY <4>2, <4>3 DEF Loose
    <3>2. QED
      BY <2>2, <3>1, <1>1, CountPlaced
  <2>3. QED
    BY <2>1, <2>2, <1>9
<1>17. \A o \in Oids : rows[o].owner # Nobody => rows'[o] = rows[o]
  BY <1>2, <1>6, <1>9
<1>18. QED
  BY <1>10, <1>11, <1>12, <1>13, <1>14, <1>15, <1>16, <1>17 DEF RecoveryInv

\* Rows of a trade are brought up to date, and orders nobody had become its own.
LEMMA RefreshKeeps ==
    ASSUME RecoveryInv, NEW t \in Tids, trades[t].status \in {"open", "closed"},
           UNCHANGED <<exch, now>>, rows' \in [Oids -> RowRecords], Touched(rows', t),
           NEW x \in TradeRecords, trades' = trades \/ trades' = [trades EXCEPT ![t] = x],
           x.status \in {"open", "closed"},
           lost' \in Nat, lost' >= lost, boot' \in SUBSET {o \in Oids : rows'[o].status = "open"}
    PROVE  /\ RecoveryInv'
           /\ \A o \in Oids : rows[o].owner # Nobody => rows'[o].owner = rows[o].owner
<1>1. /\ Types /\ Ordered /\ Placing /\ Owned /\ Excused /\ Dated /\ Counted
      /\ t # Nobody /\ Nobody \notin Tids /\ NoRow.status = "none"
  BY TidsType DEF RecoveryInv, NoRow
<1>2. /\ trades' \in [Tids -> TradeRecords]
      /\ \A u \in Tids : /\ trades'[u].status = "none" <=> trades[u].status = "none"
                         /\ trades'[u].status = "deleted" <=> trades[u].status = "deleted"
                         /\ trades'[u].status \in {"open", "closed"} <=>
                               trades[u].status \in {"open", "closed"}
  BY <1>1 DEF Types
<1>3. \A o \in Oids : rows'[o] = rows[o] \/ Joined(rows', t, o)
  BY DEF Touched
<1>4. \A o \in Oids : rows[o].owner # Nobody => rows'[o].owner = rows[o].owner
  BY <1>3 DEF Joined
<1>5. Types'
  BY <1>1, <1>2 DEF Types
<1>6. Ordered'
  BY <1>1, <1>2 DEF Ordered
<1>7. Placing'
  <2>1. ASSUME NEW o \in Oids
        PROVE  IF exch'[o].status = "none" THEN rows'[o] = NoRow
               ELSE exch'[o].for \in Tids /\ exch'[o].at <= now'
    BY <1>1, <1>3 DEF Placing, Joined
  <2>2. ASSUME NEW o \in Oids, rows'[o].owner = Nobody PROVE rows'[o] = NoRow
    BY <2>2, <1>1, <1>3 DEF Placing, Joined
  <2>3. QED
    BY <2>1, <2>2 DEF Placing
<1>8. Owned'
  <2>1. ASSUME NEW o \in Oids, rows'[o].owner # Nobody
        PROVE  trades'[rows'[o].owner].status \in {"open", "closed"}
    <3>1. rows'[o].owner = t \/ rows'[o] = rows[o]
      BY <1>3 DEF Joined
    <3>2. rows'[o].owner \in Tids /\ trades[rows'[o].owner].status \in {"open", "closed"}
      BY <2>1, <3>1, <1>1 DEF Owned, Types, RowRecords
    <3>3. QED
      BY <3>2, <1>2
  <2>2. ASSUME NEW u \in Tids, trades'[u].status \in {"open", "closed"}
        PROVE  \E p \in Rows(rows', u) : exch'[p].side = "entry"
    <3>1. PICK p \in Rows(rows, u) : exch[p].side = "entry"
      BY <2>2, <1>1, <1>2 DEF Owned, HasEntry
    <3>2. p \in Rows(rows', u)
      BY <3>1, <1>1, <1>4 DEF Rows
    <3>3. QED
      BY <3>1, <3>2
  <2>3. QED
    BY <2>1, <2>2 DEF Owned, HasEntry
<1>9. Excused'
  <2> SUFFICES ASSUME NEW o \in Oids, exch[o].status # "none", rows'[o].owner # exch[o].for
               PROVE  lost' > 0 \/ trades'[exch[o].for].status = "deleted"
    BY DEF Excused
  <2>1. exch[o].for \in Tids
    BY <1>1 DEF Placing
  <2>2. rows[o].owner # exch[o].for
    BY <2>1, <1>1, <1>4
  <2>3. lost > 0 \/ trades[exch[o].for].status = "deleted"
    BY <2>2, <1>1 DEF Excused
  <2>4. QED
    BY <2>1, <2>3, <1>1, <1>2 DEF Types
<1>10. Dated'
  <2> SUFFICES ASSUME NEW o \in Oids, Foreign(o)'
               PROVE  \E p \in Rows(rows', rows'[o].owner) \ {o} :
                         exch[p].side = "entry" /\ exch[o].at >= exch[p].placed
    BY DEF Dated
  <2>1. CASE rows[o].owner # Nobody
    <3>1. rows'[o].owner = rows[o].owner /\ Foreign(o)
      BY <2>1, <1>4 DEF Foreign
    <3>2. PICK p \in Rows(rows, rows[o].owner) \ {o} :
             exch[p].side = "entry" /\ exch[o].at >= exch[p].placed
      BY <3>1, <1>1 DEF Dated
    <3>3. p \in Rows(rows', rows'[o].owner) \ {o}
      BY <2>1, <3>1, <3>2, <1>4 DEF Rows
    <3>4. QED
      BY <3>2, <3>3
  <2>2. CASE rows[o].owner = Nobody
    <3>1. Joined(rows', t, o)
      BY <2>2, <1>3 DEF Foreign
    <3>2. QED
      BY <2>2, <3>1, <1>1 DEF Joined
  <2>3. QED
    BY <2>1, <2>2
<1>11. Counted'
  <2>1. ASSUME NEW T \in SUBSET Tids PROVE Loose(T)' \subseteq Loose(T)
    <3> SUFFICES ASSUME NEW o \in Oids, exch[o].status = "open",
                        rows'[o].status = "open" => rows'[o].owner \in T,
                        rows[o].status = "open"
                 PROVE  rows[o].owner \in T
      BY DEF Loose
    <3>1. rows[o].owner # Nobody
      BY <1>1 DEF Placing
    <3>2. rows'[o].owner = rows[o].owner
      BY <3>1, <1>4
    <3>3. rows'[o].status = "open"
      BY <1>3 DEF Joined
    <3>4. QED
      BY <3>2, <3>3
  <2>2. QED
    BY <2>1, <1>1, CountKept
<1>12. QED
  BY <1>4, <1>5, <1>6, <1>7, <1>8, <1>9, <1>10, <1>11 DEF RecoveryInv

\* The rows of a trade go with it; its live orders were cancelled, or one cancel
\* more was lost.
LEMMA DropKeeps ==
    ASSUME RecoveryInv, boot = {}, NEW t \in Tids, trades[t].status \in {"open", "closed"},
           Drop(t), now' = now, boot' = boot, exch' \in [Oids -> OrderRecords],
           \A o \in Oids :
              /\ exch'[o].side = exch[o].side /\ exch'[o].placed = exch[o].placed
              /\ exch'[o].for = exch[o].for /\ exch'[o].at = exch[o].at
              /\ exch'[o].status = "none" <=> exch[o].status = "none"
              /\ exch'[o].status = "open" => exch[o].status = "open",
           \/ lost' = lost /\ \A o \in LiveRows(t) : exch'[o].status # "open"
           \/ lost' = lost + 1
    PROVE  /\ RecoveryInv' /\ trades'[t].status = "deleted"
           /\ \A o \in Oids : rows'[o] = IF rows[o].owner = t THEN NoRow ELSE rows[o]
<1>1. /\ Types /\ Ordered /\ Placing /\ Owned /\ Excused /\ Dated /\ Counted
      /\ t # Nobody /\ Nobody \notin Tids
      /\ NoRow \in RowRecords /\ NoRow.owner = Nobody /\ NoRow.status = "none"
  BY TidsType DEF RecoveryInv, NoRow, RowRecords, Statuses
<1>2. /\ rows' \in [Oids -> RowRecords]
      /\ \A o \in Oids : rows'[o] = IF rows[o].owner = t THEN NoRow ELSE rows[o]
  BY <1>1 DEF Drop, Types
<1>3. /\ trades' \in [Tids -> TradeRecords] /\ trades'[t].status = "deleted"
      /\ \A u \in Tids \ {t} : trades'[u] = trades[u]
  BY <1>1 DEF Drop, Types, TradeRecords
<1>4. lost' \in Nat /\ lost' >= lost
  BY <1>1 DEF Types
<1>5. Types'
  BY <1>1, <1>2, <1>3, <1>4 DEF Types
<1>6. Ordered'
  BY <1>1, <1>3 DEF Ordered
<1>7. Placing'
  <2>1. ASSUME NEW o \in Oids
        PROVE  IF exch'[o].status = "none" THEN rows'[o] = NoRow
               ELSE exch'[o].for \in Tids /\ exch'[o].at <= now'
    BY <1>1, <1>2 DEF Placing
  <2>2. ASSUME NEW o \in Oids, rows'[o].owner = Nobody PROVE rows'[o] = NoRow
    BY <2>2, <1>1, <1>2 DEF Placing
  <2>3. QED
    BY <2>1, <2>2 DEF Placing
<1>8. Owned'
  <2>1. ASSUME NEW o \in Oids, rows'[o].owner # Nobody
        PROVE  trades'[rows'[o].owner].status \in {"open", "closed"}
    <3>1. rows'[o] = rows[o] /\ rows[o].owner \in Tids \ {t}
      BY <2>1, <1>1, <1>2 DEF Types, RowRecords
    <3>2. QED
      BY <2>1, <3>1, <1>1, <1>3 DEF Owned
  <2>2. ASSUME NEW u \in Tids, trades'[u].status \in {"open", "closed"}
        PROVE  \E p \in Rows(rows', u) : exch'[p].side = "entry"
    <3>1. u # t /\ trades[u].status \in {"open", "closed"}
      BY <2>2, <1>3
    <3>2. PICK p \in Rows(rows, u) : exch[p].side = "entry"
      BY <3>1, <1>1 DEF Owned, HasEntry
    <3>3. p \in Rows(rows', u) /\ exch'[p].side = "entry"
      BY <3>1, <3>2, <1>2 DEF Rows
    <3>4. QED
      BY <3>3
  <2>3. QED
    BY <2>1, <2>2 DEF Owned, HasEntry
<1>9. Excused'
  <2> SUFFICES ASSUME NEW o \in Oids, exch'[o].status # "none", rows'[o].owner # exch'[o].for
               PROVE  lost' > 0 \/ trades'[exch'[o].for].status = "deleted"
    BY DEF Excused
  <2>1. exch'[o].for = exch[o].for /\ exch[o].for \in Tids /\ exch[o].status # "none"
    BY <1>1 DEF Placing
  <2>2. CASE rows[o].owner = exch[o].for
    <3>1. exch[o].for = t
      BY <2>1, <2>2, <1>2
    <3>2. QED
      BY <2>1, <3>1, <1>3
  <2>3. CASE rows[o].owner # exch[o].for
    <3>1. lost > 0 \/ trades[exch[o].for].status = "deleted"
      BY <2>1, <2>3, <1>1 DEF Excused
    <3>2. QED
      BY <2>1, <3>1, <1>1, <1>3, <1>4 DEF Types
  <2>4. QED
    BY <2>2, <2>3
<1>10. Dated'
  <2> SUFFICES ASSUME NEW o \in Oids, Foreign(o)'
               PROVE  \E p \in Rows(rows', rows'[o].owner) \ {o} :
                         exch'[p].side = "entry" /\ exch'[o].at >= exch'[p].placed
    BY DEF Dated
  <2>1. rows'[o] = rows[o] /\ rows[o].owner # t /\ Foreign(o)
    BY <1>1, <1>2 DEF Foreign
  <2>2. PICK p \in Rows(rows, rows[o].owner) \ {o} :
           exch[p].side = "entry" /\ exch[o].at >= exch[p].placed
    BY <2>1, <1>1 DEF Dated
  <2>3. p \in Rows(rows', rows'[o].owner) \ {o} /\ p \in Oids
    BY <2>1, <2>2, <1>2 DEF Rows
  <2>4. QED
    BY <2>2, <2>3
<1>11. Counted'
  <2>1. CASE lost' = lost /\ \A o \in LiveRows(t) : exch'[o].status # "open"
    <3>1. ASSUME NEW T \in SUBSET Tids PROVE Loose(T)' \subseteq Loose(T)
      <4> SUFFICES ASSUME NEW o \in Oids, exch'[o].status = "open",
                          rows'[o].status = "open" => rows'[o].owner \in T,
                          rows[o].status = "open"
                   PROVE  rows[o].owner \in T
        BY DEF Loose
      <4>1. rows[o].owner # t
        BY <2>1 DEF LiveRows, OpenRows, Rows
      <4>2. QED
        BY <4>1, <1>2
    <3>2. QED
      BY <3>1, <1>1, <1>4, CountKept
  <2>2. CASE lost' = lost + 1
    <3>1. ASSUME NEW T \in SUBSET Tids PROVE Loose(T)' \subseteq Loose(T \cup {t})
      <4> SUFFICES ASSUME NEW o \in Oids, exch'[o].status = "open",
                          rows'[o].status = "open" => rows'[o].owner \in T,
                          rows[o].status = "open"
                   PROVE  rows[o].owner \in T \cup {t}
        BY DEF Loose
      <4>1. QED
        BY <1>2
    <3>2. QED
      BY <2>2, <3>1, <1>1, CountDeleted
  <2>3. QED
    BY <2>1, <2>2
<1>12. QED
  BY <1>2, <1>3, <1>5, <1>6, <1>7, <1>8, <1>9, <1>10, <1>11 DEF RecoveryInv

---------------------------------------------------------------------------
(* The actions.                                                             *)

\* A row of an order belongs to it for as long as its trade is there.
Immutable ==
    \A o \in Oids : rows[o].owner # Nobody =>
        \/ rows'[o].owner = rows[o].owner
        \/ rows'[o].owner = Nobody /\ trades'[rows[o].owner].status = "deleted"

\* What every step does.
Good == RecoveryInv' /\ Immutable

\* The clock.
LEMMA TickGood == ASSUME RecoveryInv, Tick PROVE Good
<1>1. /\ now' = now + 1 /\ UNCHANGED <<exch, rows, trades, boot, lost>>
      /\ now \in Nat /\ exch \in [Oids -> OrderRecords]
  BY DEF Tick, RecoveryInv, Types
<1>2. now' \in Nat /\ now' >= now
  BY <1>1
<1>3. \A o \in Oids : exch[o].at \in Nat
  BY <1>1 DEF OrderRecords
<1>4. \A o \in Oids : exch[o].status # "none" => exch[o].at <= now
  BY DEF RecoveryInv, Placing
<1> DEFINE E == exch'
<1>5. /\ E \in [Oids -> OrderRecords]
      /\ \A o \in Oids :
              /\ E[o].side = exch[o].side /\ E[o].placed = exch[o].placed
              /\ E[o].for = exch[o].for
              /\ E[o].status = "none" <=> exch[o].status = "none"
              /\ E[o].status = "open" => exch[o].status = "open"
              /\ E[o].at >= exch[o].at
              /\ E[o].at <= now' \/ E[o].at = exch[o].at
  BY <1>1, <1>3
<1>6. RecoveryInv'
  BY <1>1, <1>2, <1>5, MarketKeeps
<1>7. QED
  BY <1>1, <1>6 DEF Good, Immutable

\* An order fills.
LEMMA FillGood == ASSUME RecoveryInv, NEW o \in Oids, Fill(o) PROVE Good
<1>1. /\ now' = now /\ UNCHANGED <<rows, trades, boot, lost>>
      /\ now \in Nat /\ exch \in [Oids -> OrderRecords] /\ exch[o].status = "open"
      /\ exch' = [exch EXCEPT ![o].status = "closed", ![o].filled = exch[o].amount, ![o].at = now]
  BY DEF Fill, RecoveryInv, Types
<1>2. exch[o].at <= now /\ \A p \in Oids : exch[p].at \in Nat
  BY <1>1 DEF RecoveryInv, Placing, OrderRecords
<1>3. exch' \in [Oids -> OrderRecords]
  <2>1. "closed" \in Statuses /\ exch[o].amount \in Int /\ now \in Nat
    BY <1>1 DEF OrderRecords, Statuses
  <2> DEFINE a == [exch[o] EXCEPT !.status = "closed", !.filled = exch[o].amount, !.at = now]
  <2>2. exch[o] \in OrderRecords
    BY <1>1
  <2>3. a \in OrderRecords
    BY <2>1, <2>2 DEF OrderRecords
  <2>4. exch' = [exch EXCEPT ![o] = a]
    BY <1>1
  <2> HIDE DEF a
  <2>5. QED
    BY <2>3, <2>4, <1>1
<1>4. \A p \in Oids :
              /\ exch'[p].side = exch[p].side /\ exch'[p].placed = exch[p].placed
              /\ exch'[p].for = exch[p].for
              /\ exch'[p].status = "none" <=> exch[p].status = "none"
              /\ exch'[p].status = "open" => exch[p].status = "open"
              /\ exch'[p].at >= exch[p].at
              /\ exch'[p].at <= now' \/ exch'[p].at = exch[p].at
  BY <1>1, <1>2 DEF OrderRecords
<1>5. now' \in Nat /\ now' >= now
  BY <1>1
<1>6. RecoveryInv'
  BY <1>1, <1>3, <1>4, <1>5, MarketKeeps
<1>7. QED
  BY <1>1, <1>6 DEF Good, Immutable

\* An order is cancelled on the exchange.
LEMMA CancelGood == ASSUME RecoveryInv, NEW o \in Oids, Cancel(o) PROVE Good
<1>1. /\ now' = now /\ UNCHANGED <<rows, trades, boot, lost>>
      /\ now \in Nat /\ exch \in [Oids -> OrderRecords] /\ exch[o].status = "open"
      /\ exch' = [exch EXCEPT ![o].status = "canceled"]
  BY DEF Cancel, RecoveryInv, Types
<1>2. \A p \in Oids : exch[p].at \in Nat
  BY <1>1 DEF OrderRecords
<1>3. exch' \in [Oids -> OrderRecords]
  BY <1>1 DEF OrderRecords, Statuses
<1>4. \A p \in Oids :
              /\ exch'[p].side = exch[p].side /\ exch'[p].placed = exch[p].placed
              /\ exch'[p].for = exch[p].for
              /\ exch'[p].status = "none" <=> exch[p].status = "none"
              /\ exch'[p].status = "open" => exch[p].status = "open"
              /\ exch'[p].at >= exch[p].at
              /\ exch'[p].at <= now' \/ exch'[p].at = exch[p].at
  BY <1>1, <1>2 DEF OrderRecords
<1>5. now' \in Nat /\ now' >= now
  BY <1>1
<1>6. RecoveryInv'
  BY <1>1, <1>3, <1>4, <1>5, MarketKeeps
<1>7. QED
  BY <1>1, <1>6 DEF Good, Immutable

\* An entry is placed, for a new trade or for the open one.
LEMMA EnterGood == ASSUME RecoveryInv, Enter PROVE Good
<1>1. PICK t \in IF OpenTrades = {} THEN {NextTrade} \cap Tids
                 ELSE {u \in OpenTrades : trades[u].amount > 0 /\ OpenRows(rows, u) = {}} :
          /\ Placed("entry", 1, t)
          /\ \/ /\ trades' = [trades EXCEPT ![t] =
                                 IF t \in OpenTrades THEN @
                                 ELSE [NoTrade EXCEPT !.status = "open", !.opened = now]]
                /\ rows' = [rows EXCEPT ![NextId] = [NoRow EXCEPT !.owner = t, !.status = "open"]]
                /\ Lives
             \/ Lose /\ UNCHANGED <<rows, trades, boot>>
  BY DEF Enter
<1>2. t \in Tids /\ boot = {} /\ now' = now /\ trades \in [Tids -> TradeRecords]
  BY <1>1 DEF Enter, Running, OpenTrades, RecoveryInv, Types
<1>3. boot' = boot
  BY <1>1 DEF Lives
<1>4. \/ lost' = lost + 1 /\ UNCHANGED <<rows, trades>>
      \/ /\ rows' = [rows EXCEPT ![NextId] = [NoRow EXCEPT !.owner = t, !.status = "open"]]
         /\ lost' = lost
         /\ \/ trades[t].status = "open" /\ OpenRows(rows, t) = {} /\ UNCHANGED trades
            \/ /\ t = NextTrade
               /\ trades' = [trades EXCEPT ![t] =
                                [NoTrade EXCEPT !.status = "open", !.opened = now]]
  <2>1. CASE Lose /\ UNCHANGED <<rows, trades, boot>>
    BY <2>1 DEF Lose
  <2>2. CASE /\ trades' = [trades EXCEPT ![t] =
                                 IF t \in OpenTrades THEN @
                                 ELSE [NoTrade EXCEPT !.status = "open", !.opened = now]]
             /\ rows' = [rows EXCEPT ![NextId] = [NoRow EXCEPT !.owner = t, !.status = "open"]]
             /\ Lives
    <3>1. CASE OpenTrades = {}
      <4>1. t = NextTrade /\ t \notin OpenTrades
        BY <3>1, <1>1
      <4>2. QED
        BY <4>1, <2>2 DEF Lives
    <3>2. CASE OpenTrades # {}
      <4>1. t \in OpenTrades /\ OpenRows(rows, t) = {}
        BY <3>2, <1>1
      <4>2. trades' = trades
        BY <4>1, <2>2, <1>2
      <4>3. QED
        BY <4>1, <4>2, <2>2 DEF Lives, OpenTrades
    <3>3. QED
      BY <3>1, <3>2
  <2>3. QED
    BY <2>1, <2>2, <1>1
<1> DEFINE side == "entry"
<1>5. side \in {"entry", "exit"} /\ side = "entry" /\ 1 \in Int /\ Placed(side, 1, t)
  BY <1>1
<1> HIDE DEF side
<1>6. RecoveryInv' /\ \A o \in Oids : rows[o].owner # Nobody => rows'[o] = rows[o]
  BY <1>2, <1>3, <1>4, <1>5, PlacedKeeps
<1>7. QED
  BY <1>6 DEF Good, Immutable

\* An exit is placed.
LEMMA ExitGood == ASSUME RecoveryInv, NEW t \in Tids, Exit(t) PROVE Good
<1> DEFINE n == IF trades[t].amount < Position THEN trades[t].amount ELSE Position
           side == "exit"
<1>1. /\ Placed(side, n, t) /\ boot = {} /\ now' = now /\ trades' = trades
      /\ trades[t].status = "open" /\ OpenRows(rows, t) = {}
      /\ \/ /\ rows' = [rows EXCEPT ![NextId] = [NoRow EXCEPT !.owner = t, !.status = "open"]]
            /\ boot' = boot /\ lost' = lost
         \/ lost' = lost + 1 /\ rows' = rows /\ boot' = boot
  BY DEF Exit, Running, OpenTrades, Lives, Lose
<1>2. n \in Int
  <2>1. \A o \in Oids : exch[o].filled \in Int
    BY DEF RecoveryInv, Types, OrderRecords
  <2>2. Position \in Int
    BY <2>1, TotalType DEF Position
  <2>3. trades[t].amount \in Int
    BY DEF RecoveryInv, Types, TradeRecords
  <2>4. QED
    BY <2>2, <2>3
<1>3. side \in {"entry", "exit"}
  OBVIOUS
<1> HIDE DEF n, side
<1>4. RecoveryInv' /\ \A o \in Oids : rows[o].owner # Nobody => rows'[o] = rows[o]
  BY <1>1, <1>2, <1>3, PlacedKeeps
<1>5. QED
  BY <1>4 DEF Good, Immutable

\* The row and the booking of an order of a trade that is there; or the row only.
LEMMA UpdateGood ==
    ASSUME RecoveryInv, NEW o \in Oids, NEW b \in BOOLEAN, rows[o].owner # Nobody,
           boot \subseteq {p \in Oids : rows[p].status = "open"},
           \A p \in boot \ {o} : rows[p].status = "open",
           Update(o, b), exch' = exch, now' = now
    PROVE  Good
<1> DEFINE t == rows[o].owner
           R == Recorded(rows, o)
           x == Settled(trades[t], R, o, b)
<1>1. /\ exch \in [Oids -> OrderRecords] /\ rows \in [Oids -> RowRecords]
      /\ trades \in [Tids -> TradeRecords] /\ lost \in Nat /\ boot \in SUBSET Oids
      /\ t \in Tids /\ trades[t].status \in {"open", "closed"} /\ exch[o].status # "none"
  BY TidsType DEF RecoveryInv, Types, RowRecords, Owned, Placing, NoRow
<1>2. /\ R \in [Oids -> RowRecords] /\ R[o].owner = t /\ R[o].status = exch[o].status
      /\ \A p \in Oids \ {o} : R[p] = rows[p]
  BY <1>1, RecordedType
<1>3. x \in TradeRecords /\ x.status \in {"open", "closed"}
  <2>1. trades[t] \in TradeRecords
    BY <1>1
  <2> HIDE DEF R, t
  <2>2. QED
    BY <2>1, <1>1, <1>2, SettledType
<1>4. /\ rows' = R
      /\ \/ trades' = [trades EXCEPT ![t] = x] /\ boot' = boot \ {o} /\ lost' = lost
         \/ trades' = trades /\ lost' = lost + 1 /\ boot' = {p \in Oids : rows'[p].status = "open"}
  BY DEF Update, Dies, Lose
<1> HIDE DEF x, R
<1>5. Touched(rows', t)
  BY <1>1, <1>2, <1>4 DEF Touched, Joined
<1>6. /\ lost' \in Nat /\ lost' >= lost
      /\ boot' \in SUBSET {p \in Oids : rows'[p].status = "open"}
  BY <1>1, <1>2, <1>4
<1>7. rows' \in [Oids -> RowRecords] /\ (trades' = trades \/ trades' = [trades EXCEPT ![t] = x])
  BY <1>2, <1>4
<1>8. RecoveryInv' /\ \A p \in Oids : rows[p].owner # Nobody => rows'[p].owner = rows[p].owner
  <2> HIDE DEF t
  <2>1. QED
    BY <1>1, <1>3, <1>5, <1>6, <1>7, RefreshKeeps
<1>9. QED
  BY <1>8 DEF Good, Immutable

\* The trade is deleted.
LEMMA DropGood ==
    ASSUME RecoveryInv, boot = {}, NEW t \in Tids, trades[t].status \in {"open", "closed"},
           Drop(t), now' = now, boot' = boot, lost' = lost, exch' = exch, LiveRows(t) = {}
    PROVE  Good
<1>1. exch' \in [Oids -> OrderRecords]
  BY DEF RecoveryInv, Types
<1>2. /\ \A o \in LiveRows(t) : exch'[o].status # "open"
      /\ \A o \in Oids :
              /\ exch'[o].side = exch[o].side /\ exch'[o].placed = exch[o].placed
              /\ exch'[o].for = exch[o].for /\ exch'[o].at = exch[o].at
              /\ exch'[o].status = "none" <=> exch[o].status = "none"
              /\ exch'[o].status = "open" => exch[o].status = "open"
  OBVIOUS
<1>3. /\ RecoveryInv' /\ trades'[t].status = "deleted"
      /\ \A o \in Oids : rows'[o] = IF rows[o].owner = t THEN NoRow ELSE rows[o]
  BY <1>1, <1>2, DropKeeps
<1>4. QED
  BY <1>3 DEF Good, Immutable, NoRow

\* manage_open_orders updates the row, or deletes the trade.
LEMMA ManageGood == ASSUME RecoveryInv, NEW o \in Oids, Manage(o) PROVE Good
<1> DEFINE t == rows[o].owner
<1>1. /\ boot = {} /\ rows[o].status = "open" /\ t \in Tids /\ trades[t].status = "open"
      /\ exch' = exch /\ now' = now
  BY DEF Manage, Running, OpenTrades
<1>2. rows[o].owner # Nobody
  BY <1>1, TidsType
<1>3. CASE /\ exch[o].side = "entry" /\ Empty(exch[o])
           /\ FilledEntries(rows, t) = {} /\ OpenRows(rows, t) = {o}
  <2>1. Drop(t) /\ boot' = boot /\ lost' = lost
    BY <1>3 DEF Manage, Lives
  <2>2. LiveRows(t) = {}
    BY <1>3 DEF LiveRows, Empty, Ended
  <2> HIDE DEF t
  <2>3. QED
    BY <2>1, <2>2, <1>1, DropGood
<1>4. CASE ~(/\ exch[o].side = "entry" /\ Empty(exch[o])
             /\ FilledEntries(rows, t) = {} /\ OpenRows(rows, t) = {o})
  <2> DEFINE no == FALSE
  <2>1. Update(o, no) /\ no \in BOOLEAN
    BY <1>4 DEF Manage
  <2> HIDE DEF no
  <2>2. QED
    BY <2>1, <1>1, <1>2, UpdateGood
<1>5. QED
  BY <1>3, <1>4

\* startup_update_open_orders updates the row, or skips it.
LEMMA StartupGood == ASSUME RecoveryInv, NEW o \in Oids, Startup(o) PROVE Good
<1>1. /\ o \in boot /\ exch' = exch /\ now' = now
      /\ \A p \in boot : rows[p].status = "open"
  BY DEF Startup, RecoveryInv, Placing
<1>2. boot \in SUBSET {p \in Oids : rows[p].status = "open"}
  BY <1>1 DEF RecoveryInv, Types
<1>3. rows[o].owner # Nobody
  BY <1>1 DEF RecoveryInv, Placing, NoRow
<1> DEFINE no == FALSE
<1>4. no \in BOOLEAN /\ (Update(o, no) \/ (UNCHANGED <<rows, trades, lost>> /\ boot' = boot \ {o}))
  BY DEF Startup
<1> HIDE DEF no
<1>5. CASE Update(o, no)
  BY <1>1, <1>2, <1>3, <1>4, <1>5, UpdateGood
<1>6. CASE UNCHANGED <<rows, trades, lost>> /\ boot' = boot \ {o}
  <2>1. UNCHANGED <<exch, now, rows, trades, lost>> /\ boot' \subseteq boot
    BY <1>1, <1>6
  <2>2. Types' /\ Ordered'
    BY <2>1 DEF RecoveryInv, Types, Ordered
  <2>3. Placing'
    BY <2>1 DEF RecoveryInv, Placing
  <2>4. Owned' /\ Excused'
    BY <2>1 DEF RecoveryInv, Owned, Excused, HasEntry, Rows
  <2>5. Dated'
    BY <2>1 DEF RecoveryInv, Dated, Foreign, Rows
  <2>6. Counted'
    BY <2>1 DEF RecoveryInv, Counted, Loose
  <2>7. QED
    BY <2>1, <2>2, <2>3, <2>4, <2>5, <2>6 DEF Good, Immutable, RecoveryInv
<1>7. QED
  BY <1>4, <1>5, <1>6

\* update_trades_without_assigned_fees books the last entry again.
LEMMA FindFeeGood == ASSUME RecoveryInv, NEW t \in Tids, FindFee(t) PROVE Good
<1> DEFINE S == FilledEntries(rows, t)
           m == Max(S)
           yes == TRUE
<1>1. /\ boot = {} /\ S # {} /\ Update(m, yes) /\ exch' = exch /\ now' = now /\ yes \in BOOLEAN
  BY DEF FindFee, Running
<1>2. S \in SUBSET Oids /\ \A o \in S : rows[o].owner = t
  BY DEF FilledEntries, Rows
<1>3. m \in S
  <2>1. \E z \in S : \A y \in S : z >= y
    <3>1. S \in SUBSET (1..MaxOrders) /\ MaxOrders \in Nat
      BY <1>2, RecoveryAssumption DEF Oids
    <3> HIDE DEF S
    <3>2. QED
      BY <3>1, <1>1, GreatestElement
  <2>2. m = CHOOSE z \in S : \A y \in S : z >= y
    BY DEF Max
  <2> HIDE DEF S, m
  <2>3. QED
    BY <2>1, <2>2
<1>4. m \in Oids /\ rows[m].owner # Nobody
  BY <1>2, <1>3, TidsType
<1> HIDE DEF m, yes
<1>5. QED
  BY <1>1, <1>4, UpdateGood

\* _rpc_delete.
LEMMA DeleteGood == ASSUME RecoveryInv, NEW t \in Tids, Delete(t) PROVE Good
<1>1. /\ boot = {} /\ trades[t].status \in {"open", "closed"} /\ Drop(t) /\ now' = now /\ boot' = boot
      /\ exch \in [Oids -> OrderRecords]
      /\ \/ /\ exch' = [o \in Oids |-> IF o \in LiveRows(t)
                                     THEN [exch[o] EXCEPT !.status = "canceled"] ELSE exch[o]]
            /\ lost' = lost
         \/ exch' = exch /\ lost' = lost + 1
  BY DEF Delete, Running, Lose, RecoveryInv, Types
<1>2. exch' \in [Oids -> OrderRecords]
  BY <1>1 DEF OrderRecords, Statuses
<1>3. \A o \in Oids :
              /\ exch'[o].side = exch[o].side /\ exch'[o].placed = exch[o].placed
              /\ exch'[o].for = exch[o].for /\ exch'[o].at = exch[o].at
              /\ exch'[o].status = "none" <=> exch[o].status = "none"
              /\ exch'[o].status = "open" => exch[o].status = "open"
  BY <1>1 DEF LiveRows, OrderRecords
<1>4. \/ lost' = lost /\ \A o \in LiveRows(t) : exch'[o].status # "open"
      \/ lost' = lost + 1
  BY <1>1 DEF LiveRows, OpenRows, Rows, OrderRecords
<1>5. /\ RecoveryInv' /\ trades'[t].status = "deleted"
      /\ \A o \in Oids : rows'[o] = IF rows[o].owner = t THEN NoRow ELSE rows[o]
  BY <1>1, <1>2, <1>3, <1>4, DropKeeps
<1>6. QED
  BY <1>5 DEF Good, Immutable, NoRow

\* What the walk leaves for a trade that is there.
LEMMA WalkedGood ==
    ASSUME RecoveryInv, boot = {}, NEW t \in Tids, trades[t].status \in {"open", "closed"},
           NEW n \in 0..MaxOrders, NEW m \in 0..MaxOrders, rows' = Walked(t, n).rows,
           trades' = [trades EXCEPT ![t] = Walked(t, m).trade], exch' = exch, now' = now,
           \/ lost' = lost /\ boot' = boot
           \/ lost' = lost + 1 /\ boot' = {o \in Oids : rows'[o].status = "open"}
    PROVE  Good
<1> DEFINE x == Walked(t, m).trade
<1>1. /\ exch \in [Oids -> OrderRecords] /\ rows \in [Oids -> RowRecords]
      /\ trades \in [Tids -> TradeRecords] /\ lost \in Nat /\ HasEntry(t)
  BY DEF RecoveryInv, Types, Owned
<1>2. /\ rows' \in [Oids -> RowRecords] /\ Touched(rows', t) /\ x \in TradeRecords
      /\ x.status = trades[t].status \/ x.status = "closed"
  BY <1>1, WalkedTables
<1>3. /\ trades' = [trades EXCEPT ![t] = x] /\ x.status \in {"open", "closed"}
      /\ lost' \in Nat /\ lost' >= lost /\ boot' \in SUBSET {o \in Oids : rows'[o].status = "open"}
  BY <1>1, <1>2
<1> HIDE DEF x
<1>4. RecoveryInv' /\ \A p \in Oids : rows[p].owner # Nobody => rows'[p].owner = rows[p].owner
  BY <1>2, <1>3, RefreshKeeps
<1>5. QED
  BY <1>4 DEF Good, Immutable

\* handle_onexchange_order to its end.
LEMMA WalkGood ==
    ASSUME RecoveryInv, boot = {}, NEW t \in Tids, trades[t].status \in {"open", "closed"},
           Walk(t), exch' = exch, now' = now
    PROVE  Good
<1> DEFINE w == Walked(t, MaxOrders)
           Gone == /\ w.trade.status = "open"
                   /\ Position < w.trade.amount \/ (Position = 0 /\ w.trade.amount = 0)
                   /\ \A o \in Rows(w.rows, t) : exch[o].side = "entry" /\ Empty(w.rows[o])
<1>1. MaxOrders \in 0..MaxOrders
  BY RecoveryAssumption
<1>2. lost' = lost /\ boot' = boot
  BY DEF Walk, Lives
<1>3. CASE Gone
  <2>1. Drop(t)
    BY <1>3 DEF Walk
  <2>2. Touched(w.rows, t)
    BY <1>1, WalkedTables DEF RecoveryInv, Types, Owned
  <2>3. \A o \in Rows(w.rows, t) : Ended(w.rows[o])
    BY <1>3 DEF Empty
  <2> HIDE DEF w
  <2>4. \A o \in Rows(rows, t) : o \in Rows(w.rows, t)
                /\ (w.rows[o] = rows[o] \/ w.rows[o].status = exch[o].status)
    BY <2>2 DEF Touched, Joined, Rows
  <2>5. LiveRows(t) = {}
    BY <2>3, <2>4 DEF LiveRows, OpenRows, Ended
  <2>6. QED
    BY <2>1, <2>5, <1>2, DropGood
<1>4. CASE ~Gone
  <2>1. rows' = w.rows /\ trades' = [trades EXCEPT ![t] = w.trade]
    BY <1>4 DEF Walk
  <2>2. QED
    BY <2>1, <1>1, <1>2, WalkedGood
<1>5. QED
  BY <1>3, <1>4

\* handle_onexchange_order, when the process dies in it.
LEMMA WalkDiesGood ==
    ASSUME RecoveryInv, boot = {}, NEW t \in Tids, trades[t].status \in {"open", "closed"},
           WalkDies(t), exch' = exch, now' = now
    PROVE  Good
<1>0. PICK n \in 1..MaxOrders : \E m \in (n - 1)..n :
          /\ rows' = Walked(t, n).rows /\ trades' = [trades EXCEPT ![t] = Walked(t, m).trade]
          /\ Dies
  BY DEF WalkDies
<1>1. PICK m \in (n - 1)..n :
          /\ rows' = Walked(t, n).rows /\ trades' = [trades EXCEPT ![t] = Walked(t, m).trade]
          /\ Dies
  BY <1>0
<1>2. n \in 0..MaxOrders /\ m \in 0..MaxOrders
  BY RecoveryAssumption
<1>3. lost' = lost + 1 /\ boot' = {o \in Oids : rows'[o].status = "open"}
  BY <1>1 DEF Dies, Lose
<1>4. QED
  BY <1>1, <1>2, <1>3, WalkedGood

---------------------------------------------------------------------------
(* The results.                                                             *)

\* The invariant holds at first.
LEMMA InitGood == Init => RecoveryInv
<1> SUFFICES ASSUME Init PROVE RecoveryInv
  OBVIOUS
<1>1. /\ now = 0 /\ boot = {} /\ lost = 0
      /\ exch = [o \in Oids |-> NoOrder] /\ rows = [o \in Oids |-> NoRow]
      /\ trades = [t \in Tids |-> NoTrade]
  BY DEF Init
<1>2. NoOrder \in OrderRecords /\ NoOrder.status = "none"
  BY TidsType DEF NoOrder, OrderRecords, Statuses
<1>3. NoRow \in RowRecords /\ NoRow.owner = Nobody /\ NoRow.status = "none"
  BY TidsType DEF NoRow, RowRecords, Statuses
<1>4. NoTrade \in TradeRecords /\ NoTrade.status = "none"
  <2> DEFINE no == FALSE
  <2>1. NoTrade = [status |-> "none", amount |-> 0, opened |-> 0, fee |-> no]
    BY DEF NoTrade
  <2>2. no \in BOOLEAN /\ 0 \in Int /\ 0 \in Nat
    OBVIOUS
  <2> HIDE DEF no
  <2>3. QED
    BY <2>1, <2>2 DEF TradeRecords
<1>5. Types
  BY <1>1, <1>2, <1>3, <1>4 DEF Types
<1>6. Ordered /\ Placing /\ Excused
  BY <1>1, <1>2, <1>3, <1>4 DEF Ordered, Placing, Excused
<1>7. Owned /\ Dated
  BY <1>1, <1>3, <1>4 DEF Owned, Dated, Foreign
<1>8. Counted
  <2> SUFFICES ASSUME NEW T \in SUBSET Tids PROVE Cardinality(Loose(T)) <= lost + Cardinality(T)
    BY DEF Counted
  <2>1. Loose(T) = {}
    BY <1>1, <1>2 DEF Loose
  <2>2. Cardinality(Loose(T)) = 0 /\ Cardinality(T) \in Nat
    BY <2>1, FS_EmptySet, FiniteTables
  <2>3. QED
    BY <2>2, <1>1
<1>9. QED
  BY <1>5, <1>6, <1>7, <1>8 DEF RecoveryInv

\* Every step keeps the invariant and the owners of the rows.
LEMMA NextGood == RecoveryInv /\ [Next]_vars => RecoveryInv' /\ (Immutable \/ UNCHANGED vars)
<1> SUFFICES ASSUME RecoveryInv, [Next]_vars PROVE RecoveryInv' /\ (Immutable \/ UNCHANGED vars)
  OBVIOUS
<1>1. CASE UNCHANGED vars
  <2>1. UNCHANGED <<now, exch, rows, trades, boot, lost>>
    BY <1>1 DEF vars
  <2>2. Types' /\ Ordered' /\ Placing'
    BY <2>1 DEF RecoveryInv, Types, Ordered, Placing
  <2>3. Owned' /\ Excused' /\ Dated' /\ Counted'
    BY <2>1 DEF RecoveryInv, Owned, HasEntry, Excused, Dated, Foreign, Counted, Loose, Rows
  <2>4. QED
    BY <1>1, <2>2, <2>3 DEF RecoveryInv
<1>2. CASE Tick
  BY <1>2, TickGood DEF Good
<1>3. CASE Enter
  BY <1>3, EnterGood DEF Good
<1>4. ASSUME NEW o \in Oids, Fill(o) PROVE Good
  BY <1>4, FillGood
<1>5. ASSUME NEW o \in Oids, Cancel(o) PROVE Good
  BY <1>5, CancelGood
<1>6. ASSUME NEW o \in Oids, Manage(o) PROVE Good
  BY <1>6, ManageGood
<1>7. ASSUME NEW o \in Oids, Startup(o) PROVE Good
  BY <1>7, StartupGood
<1>8. ASSUME NEW t \in Tids, Exit(t) PROVE Good
  BY <1>8, ExitGood
<1>9. ASSUME NEW t \in Tids, FindFee(t) PROVE Good
  BY <1>9, FindFeeGood
<1>10. ASSUME NEW t \in Tids, Delete(t) PROVE Good
  BY <1>10, DeleteGood
<1>11. ASSUME NEW t \in Tids, Recover(t) PROVE Good
  <2>1. boot = {} /\ trades[t].status \in {"open", "closed"} /\ Walk(t) /\ exch' = exch /\ now' = now
    BY <1>11 DEF Recover, Running, Short, OpenTrades
  <2>2. QED
    BY <2>1, WalkGood
<1>12. ASSUME NEW t \in Tids, Reload(t) PROVE Good
  <2>1. /\ boot = {} /\ trades[t].status \in {"open", "closed"} /\ exch' = exch /\ now' = now
        /\ Walk(t) \/ WalkDies(t)
    BY <1>12 DEF Reload, Running
  <2>2. QED
    BY <2>1, WalkGood, WalkDiesGood
<1>13. QED
  BY <1>1, <1>2, <1>3, <1>4, <1>5, <1>6, <1>7, <1>8, <1>9, <1>10, <1>11, <1>12 DEF Next, Good

\* The inductive invariant: what a row, an order and a trade have to do with each other
\* between two steps of the handlers.
THEOREM RecoveryInvariant == Spec => []RecoveryInv
<1>1. Init => RecoveryInv
  BY InitGood
<1>2. RecoveryInv /\ [Next]_vars => RecoveryInv'
  BY NextGood
<1>3. QED
  BY <1>1, <1>2, PTL DEF Spec

\* A trade takes an order that was placed for another trade only if an answer was lost
\* or that trade was deleted, and the order traded no earlier than another entry of
\* this one (handle_onexchange_order).
THEOREM StrangersExcused == Spec => []NoStrangers
<1>1. ASSUME RecoveryInv PROVE NoStrangers
  <2> SUFFICES ASSUME NEW o \in Oids, Foreign(o)
               PROVE  /\ trades[exch[o].for].status \in {"none", "deleted"} \/ lost > 0
                      /\ \E p \in Rows(rows, rows[o].owner) \ {o} :
                            exch[p].side = "entry" /\ exch[o].at >= exch[p].placed
    BY DEF NoStrangers
  <2>1. rows[o].owner # Nobody /\ rows[o].owner # exch[o].for
    BY DEF Foreign
  <2>2. exch[o].status # "none"
    BY <2>1, <1>1 DEF RecoveryInv, Placing, NoRow
  <2>3. lost > 0 \/ trades[exch[o].for].status = "deleted"
    BY <2>1, <2>2, <1>1 DEF RecoveryInv, Excused
  <2>4. QED
    BY <2>3, <1>1 DEF RecoveryInv, Dated
<1>2. QED
  BY <1>1, RecoveryInvariant, PTL

\* Every live order that no open row names goes back to a lost answer, a lost cancel or
\* a death of the process: no handler loses one by itself.
THEOREM OrphansLost == Spec => []OrphansCounted
<1>1. ASSUME RecoveryInv PROVE OrphansCounted
  <2>1. Loose({}) = {o \in Oids : exch[o].status = "open" /\ rows[o].status # "open"}
    BY DEF Loose
  <2>2. Cardinality(Loose({})) <= lost + Cardinality({})
    BY <1>1 DEF RecoveryInv, Counted
  <2>3. Cardinality({}) = 0
    BY FS_EmptySet
  <2>4. lost + 0 = lost
    BY <1>1 DEF RecoveryInv, Types
  <2>5. Cardinality(Loose({})) <= lost
    BY <2>2, <2>3, <2>4
  <2>6. QED
    BY <2>1, <2>5 DEF OrphansCounted
<1>2. QED
  BY <1>1, RecoveryInvariant, PTL

\* The row of an order stays with its trade until the trade is deleted, whatever
\* handler runs and wherever the process dies ("Order ownership is immutable").
THEOREM RowsStay == Spec => OwnershipImmutable
<1>1. ASSUME RecoveryInv, [Next]_vars
      PROVE  [\A o \in Oids : rows[o].owner # Nobody =>
                \/ rows'[o].owner = rows[o].owner
                \/ rows'[o].owner = Nobody /\ trades'[rows[o].owner].status = "deleted"]_vars
  BY <1>1, NextGood DEF Immutable
<1>2. QED
  BY <1>1, RecoveryInvariant, PTL DEF Spec, OwnershipImmutable
=============================================================================
