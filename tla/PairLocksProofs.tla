-------------------------- MODULE PairLocksProofs --------------------------
(***************************************************************************)
(* Proofs about pair locks, for every set of pairs, every length of a      *)
(* candle and every list of protections.                                   *)
(***************************************************************************)
EXTENDS PairLocks, FiniteSetTheorems, TLAPS

ClosedTrade ==
    [pair : Pairs, side : Sides, at : Nat, profit : {-1, 1}, stop : BOOLEAN, asked : BOOLEAN]

Answered == [until : Nat, reason : Reason, side : Sides \cup {"*"}]

\* A lock of the leg lasts beyond the trade, or somebody has released it.
LegLocked(trade, ls) ==
    \E i \in DOMAIN ls :
        /\ ls[i].pair = trade.pair /\ ls[i].side = trade.side
        /\ ls[i].active => ls[i].end > trade.at

\* So it is for every trade whose leg the protections were called for since it closed.
LegsLocked(trades, ls) == \A c \in DOMAIN trades : trades[c].asked => LegLocked(trades[c], ls)

AutoLocked == LegsLocked(closed, locks)

Past == \A c \in DOMAIN closed : closed[c].at <= now

Inv == TypeOK /\ Tf <= now /\ Past /\ AutoLocked /\ NoLockTwice

---------------------------------------------------------------------------
(* Times.                                                                  *)

\* An end is after the time it is made from, and on the boundary of a candle.
LEMMA RoundedIs ==
    ASSUME NEW t \in Nat
    PROVE  Rounded(t) \in Nat /\ t < Rounded(t) /\ Rounded(t) % Tf = 0
<1>1. Tf \in Nat /\ Tf > 0
  BY PairLocksAssumption
<1>2. (t % Tf) \in Nat /\ (t % Tf) < Tf /\ (t % Tf) <= t
  BY <1>1, SMT
<1>3. t = (Tf * (t \div Tf)) + (t % Tf) /\ (t \div Tf) \in Nat
  BY <1>1, SMT
<1>4. Rounded(t) = t - (t % Tf) + Tf
  BY DEF Rounded
<1>5. Rounded(t) = Tf * ((t \div Tf) + 1)
  BY <1>1, <1>2, <1>3, <1>4, SMT
<1>6. (Tf * ((t \div Tf) + 1)) % Tf = 0
  BY <1>1, <1>3, SMT
<1> QED
  BY <1>1, <1>2, <1>4, <1>5, <1>6
---------------------------------------------------------------------------
(* What locking does to the table.                                         *)

\* The rows of ls are still there, unchanged.
Kept(ls, after) ==
    /\ after \in Seq(Lock) /\ DOMAIN ls \subseteq DOMAIN after
    /\ \A i \in DOMAIN ls : after[i] = ls[i]

\* A new row, if any, is a lock of the pair and side that has just been asked for, and
\* was not in force before.
OnlyNew(ls, after, pair, until, reason, side) ==
    \A i \in DOMAIN after \ DOMAIN ls :
        /\ \A j \in DOMAIN after \ DOMAIN ls : i = j
        /\ after[i].pair = pair /\ after[i].side = side /\ after[i].reason = reason
        /\ after[i].end = Rounded(until) /\ after[i].active
        /\ \A j \in Queried(ls, pair, now, side) : ~Same(ls[j], until, reason, side)

\* There is the lock that was asked for.
HasLock(after, pair, until, side) ==
    \E i \in DOMAIN after :
        /\ after[i].pair = pair /\ after[i].side = side
        /\ after[i].active /\ after[i].end = Rounded(until)

LEMMA LockPairIs ==
    ASSUME NEW ls \in Seq(Lock), NEW pair \in Pairs \cup {All}, NEW until \in Nat,
           NEW reason \in Reason, NEW side \in Sides \cup {"*"}
    PROVE  /\ Kept(ls, LockPair(ls, pair, until, reason, side))
           /\ OnlyNew(ls, LockPair(ls, pair, until, reason, side), pair, until, reason, side)
           /\ HasLock(LockPair(ls, pair, until, reason, side), pair, until, side)
<1> DEFINE found == \E i \in Queried(ls, pair, now, side) : Same(ls[i], until, reason, side)
           new == [pair |-> pair, side |-> side, reason |-> reason,
                   end |-> Rounded(until), active |-> TRUE]
<1>1. CASE found
  <2>1. LockPair(ls, pair, until, reason, side) = ls
    BY <1>1 DEF LockPair
  <2>2. PICK i \in Queried(ls, pair, now, side) : Same(ls[i], until, reason, side)
    BY <1>1
  <2>3. i \in DOMAIN ls /\ ls[i].pair = pair /\ ls[i].active
    <3>1. pair # "none" => ls[i].pair = pair
      BY <2>2 DEF Queried
    <3>2. i \in DOMAIN ls /\ ls[i].active
      BY <2>2 DEF Queried
    <3> QED
      BY PairLocksAssumption, <3>1, <3>2
  <2> QED
    BY <2>1, <2>2, <2>3 DEF Kept, OnlyNew, HasLock, Same
<1>2. CASE ~found
  <2>1. LockPair(ls, pair, until, reason, side) = Append(ls, new)
    BY <1>2 DEF LockPair
  <2>2. new \in Lock
    BY RoundedIs DEF Lock
  <2>3. /\ Append(ls, new) \in Seq(Lock) /\ DOMAIN Append(ls, new) = 1..(Len(ls) + 1)
        /\ Append(ls, new)[Len(ls) + 1] = new
        /\ \A i \in DOMAIN ls : Append(ls, new)[i] = ls[i]
        /\ DOMAIN ls = 1..Len(ls) /\ Len(ls) \in Nat
    BY <2>2
  <2> DEFINE after == Append(ls, new)
  <2>4. /\ after[Len(ls) + 1].pair = pair /\ after[Len(ls) + 1].side = side
        /\ after[Len(ls) + 1].reason = reason /\ after[Len(ls) + 1].active
        /\ after[Len(ls) + 1].end = Rounded(until)
    BY <2>3
  <2>5. \A i \in DOMAIN after \ DOMAIN ls : i = Len(ls) + 1
    BY <2>3
  <2>6. Len(ls) + 1 \in DOMAIN after
    BY <2>3
  <2> HIDE DEF after, new
  <2>7. Kept(ls, after)
    BY <2>3 DEF Kept, after
  <2>8. OnlyNew(ls, after, pair, until, reason, side)
    BY <1>2, <2>4, <2>5 DEF OnlyNew
  <2>9. HasLock(after, pair, until, side)
    BY <2>4, <2>6 DEF HasLock
  <2> QED
    BY <2>1, <2>7, <2>8, <2>9 DEF after
<1> QED
  BY <1>1, <1>2

\* Locking touches no other row.
LEMMA LockPairKept ==
    ASSUME NEW ls \in Seq(Lock), NEW pair \in Pairs \cup {All}, NEW until \in Nat,
           NEW reason \in Reason, NEW side \in Sides \cup {"*"}
    PROVE  Kept(ls, LockPair(ls, pair, until, reason, side))
BY LockPairIs

\* Active locks end on the boundary of a candle.
Bounded(ls) == \A i \in DOMAIN ls : ls[i].active => ls[i].end % Tf = 0

LEMMA LockPairBounded ==
    ASSUME NEW ls \in Seq(Lock), NEW pair \in Pairs \cup {All}, NEW until \in Nat,
           NEW reason \in Reason, NEW side \in Sides \cup {"*"}, Bounded(ls)
    PROVE  Bounded(LockPair(ls, pair, until, reason, side))
<1> DEFINE after == LockPair(ls, pair, until, reason, side)
<1>1. Kept(ls, after) /\ OnlyNew(ls, after, pair, until, reason, side)
  BY LockPairIs
<1> HIDE DEF after
<1>2. ASSUME NEW i \in DOMAIN after, after[i].active PROVE after[i].end % Tf = 0
  <2>1. CASE i \in DOMAIN ls
    BY <1>1, <1>2, <2>1 DEF Kept, Bounded
  <2>2. CASE i \notin DOMAIN ls
    BY <1>1, <1>2, <2>2, RoundedIs DEF OnlyNew
  <2> QED
    BY <2>1, <2>2
<1> QED
  BY <1>2 DEF Bounded, after

\* A leg whose lock lasts beyond t is locked at t.
LEMMA LockedBy ==
    ASSUME NEW ls \in Seq(Lock), NEW i \in DOMAIN ls, NEW side \in Sides \cup {"*"},
           NEW t \in Int, ls[i].active, ls[i].end > t,
           ls[i].side = side \/ ls[i].side = "*"
    PROVE  i \in Queried(ls, ls[i].pair, t, side)
<1>1. side # "none"
  BY DEF Sides
<1>2. side = "*" => ls[i].side = "*"
  OBVIOUS
<1> QED
  BY <1>1, <1>2 DEF Queried

\* A lock that is found at a time is found at every earlier time.
LEMMA QueriedEarlier ==
    ASSUME NEW ls \in Seq(Lock), NEW pair, NEW side, NEW t \in Int, NEW u \in Int, t <= u
    PROVE  Queried(ls, pair, u, side) \subseteq Queried(ls, pair, t, side)
<1>1. ASSUME NEW i \in DOMAIN ls PROVE ls[i].end \in Nat
  <2>1. ls[i] \in Lock
    OBVIOUS
  <2> QED
    BY <2>1 DEF Lock
<1>2. ASSUME NEW i \in Queried(ls, pair, u, side) PROVE i \in Queried(ls, pair, t, side)
  <2>1. i \in DOMAIN ls /\ ls[i].end > u
    BY <1>2 DEF Queried
  <2>2. ls[i].end > t
    BY <1>1, <2>1
  <2> QED
    BY <1>2, <2>2 DEF Queried
<1> QED
  BY <1>2

\* A lock that was asked for is found at every time before its end, by its side.
LEMMA FoundLater ==
    ASSUME NEW ls \in Seq(Lock), NEW pair, NEW side \in Sides \cup {"*"},
           NEW until \in Nat, NEW t \in Int, t < until,
           HasLock(ls, pair, until, side)
    PROVE  Queried(ls, pair, t, side) # {}
<1>1. PICK i \in DOMAIN ls : /\ ls[i].pair = pair /\ ls[i].side = side
                             /\ ls[i].active /\ ls[i].end = Rounded(until)
  BY DEF HasLock
<1>2. ls[i].end > t
  <2>1. Rounded(until) \in Nat /\ until < Rounded(until)
    BY RoundedIs
  <2> QED
    BY <1>1, <2>1
<1>3. i \in Queried(ls, ls[i].pair, t, side)
  BY <1>1, <1>2, LockedBy
<1> QED
  BY <1>1, <1>3

---------------------------------------------------------------------------
(* What the protections say.                                               *)

Config ==
    [method : Methods, limit : Nat, lookback : Nat, stop : Nat,
     unlockAt : Int, perSide : BOOLEAN, perPair : BOOLEAN]

\* The trades a protection looks at are closed trades.
LEMMA RecentIs ==
    ASSUME NEW p, NEW pair PROVE Recent(p, pair) \subseteq DOMAIN closed
BY DEF Recent

LEMMA ProfitIs ==
    ASSUME closed \in Seq(ClosedTrade), NEW S \in SUBSET DOMAIN closed
    PROVE  Profit(S) \in Int
<1>1. DOMAIN closed = 1..Len(closed) /\ Len(closed) \in Nat
  OBVIOUS
<1>2. IsFiniteSet(DOMAIN closed)
  BY <1>1, FS_Interval
<1>3. IsFiniteSet({i \in S : closed[i].profit > 0}) /\ IsFiniteSet({i \in S : closed[i].profit < 0})
  BY <1>2, FS_Subset
<1>4. /\ Cardinality({i \in S : closed[i].profit > 0}) \in Nat
      /\ Cardinality({i \in S : closed[i].profit < 0}) \in Nat
  BY <1>3, FS_CardinalityType
<1> QED
  BY <1>4 DEF Profit

\* There is at most one end, and it is a time.
LEMMA LockEndsIs ==
    ASSUME closed \in Seq(ClosedTrade), NEW p \in Config, NEW S \in SUBSET DOMAIN closed
    PROVE  /\ LockEnds(p, S) \subseteq Nat
           /\ \A x, y \in LockEnds(p, S) : x = y
<1> DEFINE latest == {j \in S : \A k \in S : closed[j].at >= closed[k].at}
           end(i) == IF p.unlockAt >= 0 THEN NextAt(closed[i].at, p.unlockAt)
                     ELSE closed[i].at + p.stop
<1>1. ASSUME NEW i \in S PROVE closed[i].at \in Nat
  <2>1. closed[i] \in ClosedTrade
    OBVIOUS
  <2> QED
    BY <2>1 DEF ClosedTrade
<1>2. \A i, j \in latest : closed[i].at = closed[j].at
  BY <1>1
<1>3. LockEnds(p, S) = {end(i) : i \in latest}
  BY DEF LockEnds
<1>4. ASSUME NEW i \in latest PROVE end(i) \in Nat
  <2>1. p.unlockAt \in Int /\ p.stop \in Nat
    BY DEF Config
  <2>2. Day \in Nat /\ Day > 0
    BY PairLocksAssumption
  <2>3. ASSUME NEW t \in Nat, NEW h \in Nat PROVE NextAt(t, h) \in Nat
    <3>1. (t % Day) \in Nat /\ (t % Day) <= t
      BY <2>2, SMT
    <3> QED
      BY <2>2, <3>1 DEF NextAt
  <2>4. i \in S
    OBVIOUS
  <2>5. CASE p.unlockAt >= 0
    <3>1. p.unlockAt \in Nat
      BY <2>1, <2>5
    <3>2. NextAt(closed[i].at, p.unlockAt) \in Nat
      BY <1>1, <2>3, <2>4, <3>1
    <3> QED
      BY <2>5, <3>2
  <2>6. CASE ~(p.unlockAt >= 0)
    <3>1. closed[i].at + p.stop \in Nat
      BY <1>1, <2>1, <2>4
    <3> QED
      BY <2>6, <3>1
  <2> QED
    BY <2>5, <2>6
<1>5. \A i, j \in latest : end(i) = end(j)
  BY <1>2
<1> HIDE DEF end, latest
<1> QED
  BY <1>3, <1>4, <1>5

\* An answer is a time, a reason and a side, that of the leg or both, and a set of
\* answers holds at most one.
OneAnswer(A, leg) ==
    /\ A \subseteq Answered
    /\ \A a \in A : a.side = leg \/ a.side = "*"
    /\ \A a, b \in A : a = b

LEMMA AnswersIs ==
    ASSUME closed \in Seq(ClosedTrade), NEW p \in Config, NEW S \in SUBSET DOMAIN closed,
           NEW value \in Int, NEW leg \in Sides, NEW side \in {leg, "*"}
    PROVE  OneAnswer(Answers(p, S, value, side), leg)
<1>1. <<p.method, value>> \in Reason
  <2>1. p.method \in Methods
    BY DEF Config
  <2> QED
    BY <2>1 DEF Reason
<1>2. \A e \in LockEnds(p, S) : e \in Nat
  BY LockEndsIs
<1>3. \A e \in LockEnds(p, S) :
         [until |-> e, reason |-> <<p.method, value>>, side |-> side] \in Answered
  BY <1>1, <1>2 DEF Answered
<1>4. \A x, y \in LockEnds(p, S) : x = y
  BY LockEndsIs
<1> QED
  BY <1>3, <1>4 DEF OneAnswer, Answers

LEMMA OwnSideIs ==
    ASSUME NEW p, NEW side \in Sides PROVE OwnSide(p, side) \in {side, "*"}
BY DEF OwnSide

LEMMA EmptyAnswer == \A leg : OneAnswer({}, leg)
BY DEF OneAnswer

LEMMA CooldownIs ==
    ASSUME closed \in Seq(ClosedTrade), NEW p \in Config, NEW pair, NEW side \in Sides
    PROVE  OneAnswer(Cooldown(p, pair), side)
BY RecentIs, AnswersIs DEF Cooldown

LEMMA StoplossGuardIs ==
    ASSUME closed \in Seq(ClosedTrade), NEW p \in Config, NEW pair, NEW side \in Sides
    PROVE  OneAnswer(StoplossGuard(p, pair, side), side)
<1> DEFINE S == {i \in Recent(p, pair) :
                    /\ closed[i].stop /\ closed[i].profit < 0
                    /\ p.perSide => closed[i].side = side}
<1>1. S \subseteq DOMAIN closed
  BY RecentIs
<1>2. OwnSide(p, side) \in {side, "*"}
  BY OwnSideIs
<1> HIDE DEF S
<1>3. OneAnswer(Answers(p, S, 0, OwnSide(p, side)), side)
  BY <1>1, <1>2, AnswersIs
<1>4. StoplossGuard(p, pair, side) =
        IF Cardinality(S) >= p.limit THEN Answers(p, S, 0, OwnSide(p, side)) ELSE {}
  BY DEF StoplossGuard, S
<1> QED
  BY <1>3, <1>4, EmptyAnswer

LEMMA LowProfitIs ==
    ASSUME closed \in Seq(ClosedTrade), NEW p \in Config, NEW pair, NEW side \in Sides
    PROVE  OneAnswer(LowProfit(p, pair, side), side)
<1> DEFINE S == Recent(p, pair)
           sum == Profit({i \in S : p.perSide => closed[i].side = side})
<1>1. S \subseteq DOMAIN closed
  BY RecentIs
<1>2. {i \in S : p.perSide => closed[i].side = side} \subseteq DOMAIN closed
  BY <1>1
<1>3. sum \in Int
  BY <1>2, ProfitIs
<1>4. OwnSide(p, side) \in {side, "*"}
  BY OwnSideIs
<1>5. LowProfit(p, pair, side) =
        IF Cardinality(S) >= p.limit /\ sum < 0
        THEN Answers(p, S, sum, OwnSide(p, side)) ELSE {}
  BY DEF LowProfit
<1> HIDE DEF S, sum
<1>6. OneAnswer(Answers(p, S, sum, OwnSide(p, side)), side)
  BY <1>1, <1>3, <1>4, AnswersIs
<1> QED
  BY <1>5, <1>6, EmptyAnswer

LEMMA MaxDrawdownIs ==
    ASSUME closed \in Seq(ClosedTrade), NEW p \in Config, NEW side \in Sides
    PROVE  OneAnswer(MaxDrawdown(p), side)
<1> DEFINE S == Recent(p, All)
           D == {x \in Falls(S) : x > p.limit /\ \A y \in Falls(S) : x >= y}
<1>1. S \subseteq DOMAIN closed
  BY RecentIs
<1>2. Falls(S) \subseteq Int
  <2>1. ASSUME NEW a \in S, NEW b \in S PROVE Fall(S, a, b) \in Int
    <3>1. {i \in S : a <= i /\ i <= b} \subseteq DOMAIN closed
      BY <1>1
    <3>2. Profit({i \in S : a <= i /\ i <= b}) \in Int
      BY <3>1, ProfitIs
    <3> QED
      BY <3>2 DEF Fall
  <2> HIDE DEF S
  <2> QED
    BY <2>1 DEF Falls
<1>3. D \subseteq Int /\ \A x, y \in D : x = y
  BY <1>2
<1>4. MaxDrawdown(p) = UNION {Answers(p, S, d, "*") : d \in D}
  BY DEF MaxDrawdown
<1> HIDE DEF S, D
<1>5. \A d \in D : OneAnswer(Answers(p, S, d, "*"), side)
  BY <1>1, <1>3, AnswersIs
<1> QED
  BY <1>3, <1>4, <1>5 DEF OneAnswer

LEMMA LocalIs ==
    ASSUME closed \in Seq(ClosedTrade), NEW p \in Config, NEW pair, NEW side \in Sides
    PROVE  OneAnswer(Local(p, pair, side), side)
<1>1. CASE p.method = "CooldownPeriod"
  BY <1>1, CooldownIs DEF Local
<1>2. CASE p.method = "StoplossGuard"
  BY <1>2, StoplossGuardIs DEF Local
<1>3. CASE p.method = "LowProfitPairs"
  BY <1>3, LowProfitIs DEF Local
<1>4. CASE p.method = "MaxDrawdown"
  BY <1>4, EmptyAnswer DEF Local
<1> QED
  BY <1>1, <1>2, <1>3, <1>4 DEF Config, Methods

LEMMA GlobalIs ==
    ASSUME closed \in Seq(ClosedTrade), NEW p \in Config, NEW side \in Sides
    PROVE  OneAnswer(Global(p, side), side)
<1>1. CASE p.method = "StoplossGuard" /\ ~p.perPair
  BY <1>1, StoplossGuardIs DEF Global
<1>2. CASE p.method = "MaxDrawdown"
  BY <1>2, MaxDrawdownIs DEF Global
<1>3. CASE ~(p.method = "StoplossGuard" /\ ~p.perPair) /\ p.method # "MaxDrawdown"
  BY <1>3, EmptyAnswer DEF Global
<1> QED
  BY <1>1, <1>2, <1>3

---------------------------------------------------------------------------
(* What a step does to the table: locks are added, or released.            *)

\* No lock of the table is in force twice at t.
Distinct(ls, t) ==
    \A i, j \in Queried(ls, "none", t, "none") :
        /\ ls[i].pair = ls[j].pair /\ ls[i].side = ls[j].side
        /\ ls[i].reason = ls[j].reason /\ ls[i].end = ls[j].end
        => i = j

\* Rows are kept, and what is added is bounded and not there yet.
Added(ls, after) ==
    /\ Kept(ls, after)
    /\ Bounded(ls) => Bounded(after)
    /\ Distinct(ls, now) => Distinct(after, now)

\* Rows are kept, and an active one is as it was.
Weaker(ls, after) ==
    /\ after \in Seq(Lock) /\ DOMAIN after = DOMAIN ls
    /\ \A i \in DOMAIN ls :
          /\ after[i].pair = ls[i].pair /\ after[i].side = ls[i].side
          /\ after[i].reason = ls[i].reason
          /\ after[i].active => ls[i].active /\ after[i].end = ls[i].end

LEMMA AddedNone ==
    ASSUME NEW ls \in Seq(Lock) PROVE Added(ls, ls)
BY DEF Added, Kept

LEMMA LockPairAdded ==
    ASSUME NEW ls \in Seq(Lock), NEW pair \in Pairs \cup {All}, NEW until \in Nat,
           NEW reason \in Reason, NEW side \in Sides \cup {"*"}, now \in Nat
    PROVE  Added(ls, LockPair(ls, pair, until, reason, side))
<1> DEFINE after == LockPair(ls, pair, until, reason, side)
<1>1. Kept(ls, after) /\ OnlyNew(ls, after, pair, until, reason, side)
  BY LockPairIs
<1>2. Bounded(ls) => Bounded(after)
  BY LockPairBounded
<1> HIDE DEF after
<1>3. ASSUME Distinct(ls, now), NEW i \in Queried(after, "none", now, "none"),
             NEW j \in Queried(after, "none", now, "none"),
             after[i].pair = after[j].pair, after[i].side = after[j].side,
             after[i].reason = after[j].reason, after[i].end = after[j].end
      PROVE  i = j
  <2>1. /\ i \in DOMAIN after /\ after[i].active /\ after[i].end > now
        /\ j \in DOMAIN after /\ after[j].active /\ after[j].end > now
    BY <1>3 DEF Queried
  <2>2. CASE i \in DOMAIN ls /\ j \in DOMAIN ls
    <3>1. after[i] = ls[i] /\ after[j] = ls[j]
      BY <1>1, <2>2 DEF Kept
    <3>2. i \in Queried(ls, "none", now, "none") /\ j \in Queried(ls, "none", now, "none")
      BY <2>1, <2>2, <3>1 DEF Queried
    <3> QED
      BY <1>3, <3>1, <3>2 DEF Distinct
  <2>3. CASE i \notin DOMAIN ls /\ j \notin DOMAIN ls
    BY <1>1, <2>1, <2>3 DEF OnlyNew
  <2>4. ASSUME NEW m \in DOMAIN after, NEW n \in DOMAIN ls, m \notin DOMAIN ls,
               after[n].active, after[n].end > now,
               after[m].pair = after[n].pair, after[m].side = after[n].side,
               after[m].reason = after[n].reason, after[m].end = after[n].end
        PROVE  FALSE
    <3>1. after[n] = ls[n]
      BY <1>1, <2>4 DEF Kept
    <3>2. /\ after[m].pair = pair /\ after[m].side = side /\ after[m].reason = reason
          /\ after[m].end = Rounded(until)
          /\ \A k \in Queried(ls, pair, now, side) : ~Same(ls[k], until, reason, side)
      BY <1>1, <2>4 DEF OnlyNew
    <3>3. n \in Queried(ls, ls[n].pair, now, side)
      <4>1. ls[n].active /\ ls[n].end > now /\ ls[n].side = side
        BY <2>4, <3>1, <3>2
      <4>2. now \in Int
        OBVIOUS
      <4> QED
        BY <4>1, <4>2, LockedBy, Zenon
    <3>4. Same(ls[n], until, reason, side)
      BY <2>4, <3>1, <3>2 DEF Same
    <3> QED
      BY <2>4, <3>1, <3>2, <3>3, <3>4
  <2>5. CASE i \notin DOMAIN ls /\ j \in DOMAIN ls
    BY <1>3, <2>1, <2>4, <2>5
  <2>6. CASE i \in DOMAIN ls /\ j \notin DOMAIN ls
    BY <1>3, <2>1, <2>4, <2>6
  <2> QED
    BY <2>2, <2>3, <2>5, <2>6
<1>4. Distinct(ls, now) => Distinct(after, now)
  BY <1>3 DEF Distinct
<1> QED
  BY <1>1, <1>2, <1>4 DEF Added, after

LEMMA LockSideIs ==
    ASSUME NEW leg \in Sides, NEW side \in Sides \cup {"*"}
    PROVE  LockSide(side, leg) \in Sides \cup {"*"}
BY DEF LockSide

\* What a protection says of a pair is in force until the end it says.
LEMMA LocalLockIs ==
    ASSUME NEW ls \in Seq(Lock), NEW a \in Answered, NEW pair \in Pairs, NEW leg \in Sides,
           now \in Nat
    PROVE  /\ Added(ls, LocalLock(ls, a, pair, leg))
           /\ \A t \in Int : t < a.until =>
                 IsPairLocked(LocalLock(ls, a, pair, leg), pair, t, LockSide(a.side, leg))
<1> DEFINE side == LockSide(a.side, leg)
           after == LocalLock(ls, a, pair, leg)
<1>1. a.until \in Nat /\ a.reason \in Reason /\ a.side \in Sides \cup {"*"}
  BY DEF Answered
<1>2. side \in Sides \cup {"*"}
  BY <1>1, LockSideIs
<1>3. CASE IsPairLocked(ls, pair, a.until, side)
  <2>1. after = ls
    BY <1>3 DEF LocalLock
  <2>2. ASSUME NEW t \in Int, t < a.until PROVE IsPairLocked(ls, pair, t, side)
    <3>1. /\ Queried(ls, pair, a.until, side) \subseteq Queried(ls, pair, t, side)
          /\ Queried(ls, All, a.until, side) \subseteq Queried(ls, All, t, side)
      BY <1>1, <2>2, QueriedEarlier
    <3> QED
      BY <1>3, <3>1 DEF IsPairLocked, IsGlobalLock
  <2> QED
    BY <2>1, <2>2, AddedNone
<1>4. CASE ~IsPairLocked(ls, pair, a.until, side)
  <2>1. after = LockPair(ls, pair, a.until, a.reason, side)
    BY <1>4 DEF LocalLock
  <2>2. Added(ls, after) /\ HasLock(after, pair, a.until, side)
    BY <1>1, <1>2, <2>1, LockPairAdded, LockPairIs
  <2> HIDE DEF after, side
  <2>3. after \in Seq(Lock)
    BY <2>2 DEF Added, Kept
  <2>4. \A t \in Int : t < a.until => Queried(after, pair, t, side) # {}
    BY <1>1, <1>2, <2>2, <2>3, FoundLater
  <2>5. \A t \in Int : t < a.until => IsPairLocked(after, pair, t, side)
    BY <2>4 DEF IsPairLocked
  <2> QED
    BY <2>2, <2>5 DEF after, side
<1> QED
  BY <1>3, <1>4

\* What a protection says of all pairs is in force until the end it says.
LEMMA GlobalLockIs ==
    ASSUME NEW ls \in Seq(Lock), NEW a \in Answered, now \in Nat
    PROVE  /\ Added(ls, GlobalLock(ls, a))
           /\ \A t \in Int : t < a.until => IsGlobalLock(GlobalLock(ls, a), t, a.side)
<1> DEFINE after == GlobalLock(ls, a)
<1>1. a.until \in Nat /\ a.reason \in Reason /\ a.side \in Sides \cup {"*"}
  BY DEF Answered
<1>2. CASE IsGlobalLock(ls, a.until, a.side)
  <2>1. after = ls
    BY <1>2 DEF GlobalLock
  <2>2. ASSUME NEW t \in Int, t < a.until PROVE IsGlobalLock(ls, t, a.side)
    BY <1>1, <1>2, <2>2, QueriedEarlier DEF IsGlobalLock
  <2> QED
    BY <2>1, <2>2, AddedNone
<1>3. CASE ~IsGlobalLock(ls, a.until, a.side)
  <2>1. after = LockPair(ls, All, a.until, a.reason, a.side)
    BY <1>3 DEF GlobalLock
  <2>2. Added(ls, after) /\ HasLock(after, All, a.until, a.side)
    BY <1>1, <2>1, LockPairAdded, LockPairIs
  <2> HIDE DEF after
  <2>3. after \in Seq(Lock)
    BY <2>2 DEF Added, Kept
  <2>4. \A t \in Int : t < a.until => IsGlobalLock(after, t, a.side)
    BY <1>1, <2>2, <2>3, FoundLater DEF IsGlobalLock
  <2> QED
    BY <2>2, <2>4 DEF after
<1> QED
  BY <1>2, <1>3

\* Whoever releases locks weakens the table.
LEMMA ReleasedIs ==
    ASSUME locks \in Seq(Lock), NEW S PROVE Weaker(locks, Released(S))
<1>1. DOMAIN locks = 1..Len(locks) /\ Len(locks) \in Nat
  OBVIOUS
<1>2. ASSUME NEW i \in DOMAIN locks
      PROVE  /\ Released(S)[i] \in Lock
             /\ Released(S)[i].pair = locks[i].pair /\ Released(S)[i].side = locks[i].side
             /\ Released(S)[i].reason = locks[i].reason
             /\ Released(S)[i].active => locks[i].active /\ Released(S)[i].end = locks[i].end
  <2>1. locks[i] \in Lock
    OBVIOUS
  <2>2. CASE i \in S
    <3>1. Released(S)[i] = [locks[i] EXCEPT !.active = FALSE]
      BY <2>2 DEF Released
    <3> QED
      BY <2>1, <3>1 DEF Lock
  <2>3. CASE i \notin S
    <3>1. Released(S)[i] = locks[i]
      BY <2>3 DEF Released
    <3> QED
      BY <2>1, <3>1
  <2> QED
    BY <2>2, <2>3
<1>3. Released(S) \in [1..Len(locks) -> Lock]
  BY <1>1, <1>2 DEF Released
<1>4. Released(S) \in Seq(Lock)
  BY <1>1, <1>3
<1> QED
  BY <1>1, <1>2, <1>3, <1>4 DEF Weaker

---------------------------------------------------------------------------
(* The invariant, action by action.                                        *)

\* What the table has to keep.
TableOK(trades, ls, t) ==
    ls \in Seq(Lock) /\ Bounded(ls) /\ Distinct(ls, t) /\ LegsLocked(trades, ls)

LEMMA InvTable == Inv => TableOK(closed, locks, now)
BY DEF Inv, TypeOK, TableOK, Bounded, Distinct, NoLockTwice, AutoLocked, Past

LEMMA TableAdded ==
    ASSUME Inv, NEW after, Added(locks, after)
    PROVE  TableOK(closed, after, now)
<1>1. TableOK(closed, locks, now)
  BY InvTable
<1>2. after \in Seq(Lock) /\ Bounded(after) /\ Distinct(after, now)
  BY <1>1 DEF TableOK, Added, Kept
<1>3. ASSUME NEW c \in DOMAIN closed, closed[c].asked
      PROVE  LegLocked(closed[c], after)
  <2>1. PICK i \in DOMAIN locks :
           /\ locks[i].pair = closed[c].pair /\ locks[i].side = closed[c].side
           /\ locks[i].active => locks[i].end > closed[c].at
    BY <1>1, <1>3 DEF TableOK, LegsLocked, LegLocked
  <2>2. i \in DOMAIN after /\ after[i] = locks[i]
    BY DEF Added, Kept
  <2> QED
    BY <2>1, <2>2 DEF LegLocked
<1> QED
  BY <1>2, <1>3 DEF TableOK, LegsLocked

LEMMA TableWeaker ==
    ASSUME Inv, NEW after, Weaker(locks, after)
    PROVE  TableOK(closed, after, now)
<1>1. TableOK(closed, locks, now)
  BY InvTable
<1>2. ASSUME NEW i \in DOMAIN locks
      PROVE  /\ i \in DOMAIN after
             /\ after[i].pair = locks[i].pair /\ after[i].side = locks[i].side
             /\ after[i].reason = locks[i].reason
             /\ after[i].active => locks[i].active /\ after[i].end = locks[i].end
  BY DEF Weaker
<1>3. after \in Seq(Lock) /\ DOMAIN after = DOMAIN locks
  BY DEF Weaker
<1>4. Bounded(after)
  BY <1>1, <1>2, <1>3 DEF TableOK, Bounded
<1>5. Queried(after, "none", now, "none") \subseteq Queried(locks, "none", now, "none")
  <2>1. ASSUME NEW i \in Queried(after, "none", now, "none")
        PROVE  i \in Queried(locks, "none", now, "none")
    <3>1. i \in DOMAIN locks /\ after[i].active /\ after[i].end > now
      BY <1>3, <2>1 DEF Queried
    <3>2. locks[i].active /\ locks[i].end > now
      BY <1>2, <3>1
    <3> QED
      BY <3>1, <3>2 DEF Queried
  <2> QED
    BY <2>1
<1>6. ASSUME NEW i \in Queried(after, "none", now, "none"),
             NEW j \in Queried(after, "none", now, "none"),
             after[i].pair = after[j].pair, after[i].side = after[j].side,
             after[i].reason = after[j].reason, after[i].end = after[j].end
      PROVE  i = j
  <2>1. i \in DOMAIN locks /\ after[i].active /\ j \in DOMAIN locks /\ after[j].active
    BY <1>3, <1>6 DEF Queried
  <2>2. /\ locks[i].pair = locks[j].pair /\ locks[i].side = locks[j].side
        /\ locks[i].reason = locks[j].reason /\ locks[i].end = locks[j].end
    BY <1>2, <1>6, <2>1
  <2> QED
    BY <1>1, <1>5, <1>6, <2>2 DEF TableOK, Distinct
<1>7. Distinct(after, now)
  BY <1>6 DEF Distinct
<1>8. ASSUME NEW c \in DOMAIN closed, closed[c].asked
      PROVE  LegLocked(closed[c], after)
  <2>1. PICK i \in DOMAIN locks :
           /\ locks[i].pair = closed[c].pair /\ locks[i].side = closed[c].side
           /\ locks[i].active => locks[i].end > closed[c].at
    BY <1>1, <1>8 DEF TableOK, LegsLocked, LegLocked
  <2>2. /\ i \in DOMAIN after
        /\ after[i].pair = locks[i].pair /\ after[i].side = locks[i].side
        /\ after[i].active => locks[i].active /\ after[i].end = locks[i].end
    BY <1>2
  <2>3. after[i].active => after[i].end > closed[c].at
    BY <2>1, <2>2
  <2> QED
    BY <2>1, <2>2, <2>3 DEF LegLocked
<1> QED
  BY <1>3, <1>4, <1>7, <1>8 DEF TableOK, LegsLocked

\* What the other variables have to keep.
RestOK ==
    /\ now \in Nat /\ candle \in Nat /\ Tf <= now
    /\ open \subseteq Pairs \X Sides
    /\ closed \in Seq(ClosedTrade) /\ \A c \in DOMAIN closed : closed[c].at <= now
    /\ task \in [pair : Pairs \cup {All}, side : Sides, k : Nat, rpc : BOOLEAN]
    /\ task # NoTask => task.pair \in Pairs

LEMMA InvParts == Inv <=> RestOK /\ TableOK(closed, locks, now)
BY DEF Inv, TypeOK, RestOK, TableOK, ClosedTrade, Bounded, Distinct, NoLockTwice, AutoLocked, Past

LEMMA InvNext ==
    ASSUME RestOK', TableOK(closed', locks', now') PROVE Inv'
BY DEF Inv, TypeOK, RestOK, TableOK, ClosedTrade, Bounded, Distinct, NoLockTwice, AutoLocked, Past

LEMMA TickStep ==
    ASSUME Inv, Tick PROVE Inv'
<1>1. RestOK /\ TableOK(closed, locks, now)
  BY InvParts
<1>2. now' = now + 1 /\ UNCHANGED <<candle, open, closed, locks, task>>
  BY DEF Tick
<1>3. RestOK'
  <2>1. Tf \in Nat
    BY PairLocksAssumption
  <2>2. \A c \in DOMAIN closed : closed[c].at <= now + 1
    <3>1. ASSUME NEW c \in DOMAIN closed PROVE closed[c].at <= now + 1
      <4>1. closed[c] \in ClosedTrade /\ closed[c].at <= now /\ now \in Nat
        BY <1>1 DEF RestOK
      <4> QED
        BY <4>1 DEF ClosedTrade
    <3> QED
      BY <3>1
  <2> QED
    BY <1>1, <1>2, <2>1, <2>2 DEF RestOK
<1>4. Queried(locks, "none", now + 1, "none") \subseteq Queried(locks, "none", now, "none")
  BY <1>1, QueriedEarlier DEF RestOK, TableOK
<1>5. Distinct(locks, now + 1)
  BY <1>1, <1>4 DEF TableOK, Distinct
<1>6. TableOK(closed, locks, now + 1)
  BY <1>1, <1>5 DEF TableOK
<1>7. TableOK(closed', locks', now')
  BY <1>2, <1>6
<1> QED
  BY <1>3, <1>7, InvNext

LEMMA AnalyseStep ==
    ASSUME Inv, Analyse PROVE Inv'
<1>1. RestOK /\ TableOK(closed, locks, now)
  BY InvParts
<1>2. candle' = now - (now % Tf) - Tf /\ UNCHANGED <<now, open, closed, locks, task>>
  BY DEF Analyse
<1>3. candle' \in Nat
  <2>1. Tf \in Nat /\ Tf > 0 /\ now \in Nat /\ Tf <= now
    BY <1>1, PairLocksAssumption DEF RestOK
  <2>2. (now % Tf) \in Nat /\ now = (Tf * (now \div Tf)) + (now % Tf) /\ (now \div Tf) \in Nat
        /\ (now % Tf) < Tf
    BY <2>1, SMT
  <2>3. (now \div Tf) >= 1
    BY <2>1, <2>2, SMT
  <2>4. candle' = (Tf * (now \div Tf)) - Tf
    BY <1>2, <2>1, <2>2
  <2>5. (Tf * (now \div Tf)) - Tf \in Nat
    BY <2>1, <2>2, <2>3, SMT
  <2> QED
    BY <2>4, <2>5
<1>4. RestOK' /\ TableOK(closed', locks', now')
  BY <1>1, <1>2, <1>3 DEF RestOK
<1> QED
  BY <1>4, InvNext

\* Closing locks the leg, in the table and for the closed trade.
LEMMA AutoLockIs ==
    ASSUME now \in Nat, NEW ls \in Seq(Lock), NEW pair \in Pairs, NEW side \in Sides
    PROVE  Added(ls, AutoLock(ls, pair, side)) /\ HasLock(AutoLock(ls, pair, side), pair, now, side)
<1>1. <<"Auto lock", 0>> \in Reason
  <2>1. "Auto lock" \in Methods \cup {"Auto lock", "user"} /\ 0 \in Int
    OBVIOUS
  <2> QED
    BY <2>1, Zenon DEF Reason
<1> QED
  BY <1>1, LockPairAdded, LockPairIs DEF AutoLock

LEMMA CloseStep ==
    ASSUME Inv, NEW pair \in Pairs, NEW side \in Sides, Close(pair, side)
    PROVE  Inv'
<1>1. RestOK /\ TableOK(closed, locks, now)
  BY InvParts
<1>2. PICK o \in Outcomes :
         /\ closed' = Append(closed, [pair |-> pair, side |-> side, at |-> now,
                                      profit |-> o.profit, stop |-> o.stop, asked |-> FALSE])
         /\ task' = IF o.by = "nobody" THEN NoTask ELSE Task(pair, side, o.by = "request")
  BY DEF Close
<1>3. /\ open' = open \ {<<pair, side>>} /\ locks' = locks
      /\ now' = now /\ candle' = candle
  BY DEF Close
<1> DEFINE trade == [pair |-> pair, side |-> side, at |-> now,
                     profit |-> o.profit, stop |-> o.stop, asked |-> FALSE]
<1>4. trade \in ClosedTrade
  <2>1. o.profit \in {-1, 1} /\ o.stop \in BOOLEAN
    BY PairLocksAssumption
  <2> QED
    BY <1>1, <2>1 DEF ClosedTrade, RestOK
<1>5. trade.at = now /\ ~trade.asked
  OBVIOUS
<1>6. closed' = Append(closed, trade)
  BY <1>2
<1> HIDE DEF trade
<1>7. /\ closed \in Seq(ClosedTrade) /\ closed' \in Seq(ClosedTrade)
      /\ DOMAIN closed' = DOMAIN closed \cup {Len(closed) + 1}
      /\ closed'[Len(closed) + 1] = trade
      /\ \A c \in DOMAIN closed : closed'[c] = closed[c]
  BY <1>1, <1>4, <1>6 DEF RestOK
<1>8. \A c \in DOMAIN closed' : closed'[c].at <= now'
  <2>1. now \in Nat
    BY <1>1 DEF RestOK
  <2>2. ASSUME NEW c \in DOMAIN closed' PROVE closed'[c].at <= now
    <3>1. CASE c \in DOMAIN closed
      BY <1>1, <1>7, <3>1 DEF RestOK
    <3>2. CASE c = Len(closed) + 1
      BY <1>5, <1>7, <2>1, <3>2
    <3> QED
      BY <1>7, <2>2, <3>1, <3>2
  <2> QED
    BY <1>3, <2>2
<1>9. /\ task' \in [pair : Pairs \cup {All}, side : Sides, k : Nat, rpc : BOOLEAN]
      /\ task' # NoTask => task'.pair \in Pairs
  <2>1. (o.by = "request") \in BOOLEAN
    OBVIOUS
  <2>2. CASE o.by = "nobody"
    BY <1>2, <2>2 DEF NoTask, Sides
  <2>3. CASE o.by # "nobody"
    <3>1. task' = Task(pair, side, o.by = "request")
      BY <1>2, <2>3
    <3> QED
      BY <2>1, <3>1 DEF Task
  <2> QED
    BY <2>2, <2>3
<1>10. open' \subseteq Pairs \X Sides
  BY <1>1, <1>3 DEF RestOK
<1>11. RestOK'
  BY <1>1, <1>3, <1>7, <1>8, <1>9, <1>10 DEF RestOK
<1>12. LegsLocked(closed', locks)
  <2>1. ASSUME NEW c \in DOMAIN closed', closed'[c].asked PROVE LegLocked(closed'[c], locks)
    <3>1. c \in DOMAIN closed /\ closed'[c] = closed[c]
      BY <1>5, <1>7, <2>1
    <3> QED
      BY <1>1, <2>1, <3>1 DEF TableOK, LegsLocked
  <2> QED
    BY <2>1 DEF LegsLocked
<1>13. TableOK(closed', locks', now')
  BY <1>1, <1>3, <1>12 DEF TableOK
<1> QED
  BY <1>11, <1>13, InvNext

LEMMA ReloadClosedStep ==
    ASSUME Inv, NEW c \in DOMAIN closed, ReloadClosed(c) PROVE Inv'
<1>1. RestOK /\ TableOK(closed, locks, now)
  BY InvParts
<1>2. /\ task' = Task(closed[c].pair, closed[c].side, TRUE)
      /\ UNCHANGED <<now, candle, open, closed, locks>>
  BY DEF ReloadClosed
<1>3. closed[c].pair \in Pairs /\ closed[c].side \in Sides
  <2>1. closed[c] \in ClosedTrade
    BY <1>1 DEF RestOK
  <2> QED
    BY <2>1 DEF ClosedTrade
<1>4. /\ task' \in [pair : Pairs \cup {All}, side : Sides, k : Nat, rpc : BOOLEAN]
      /\ task'.pair \in Pairs
  BY <1>2, <1>3 DEF Task
<1>5. RestOK' /\ TableOK(closed', locks', now')
  BY <1>1, <1>2, <1>4 DEF RestOK
<1> QED
  BY <1>5, InvNext

LEMMA ProtectStep ==
    ASSUME Inv, Protect PROVE Inv'
<1>1. RestOK /\ TableOK(closed, locks, now)
  BY InvParts
<1>2. /\ task # NoTask /\ locks' = AutoLock(locks, task.pair, task.side)
      /\ task' = [task EXCEPT !.k = 1] /\ UNCHANGED <<now, candle, open>>
  BY DEF Protect
<1>3. closed' = [c \in DOMAIN closed |->
                   IF closed[c].pair = task.pair /\ closed[c].side = task.side
                   THEN [closed[c] EXCEPT !.asked = TRUE] ELSE closed[c]]
  BY DEF Protect
<1>4. task.pair \in Pairs /\ task.side \in Sides /\ now \in Nat /\ locks \in Seq(Lock)
  BY <1>1, <1>2 DEF RestOK, TableOK
<1>5. /\ task' \in [pair : Pairs \cup {All}, side : Sides, k : Nat, rpc : BOOLEAN]
      /\ task'.pair \in Pairs
  <2>1. task \in [pair : Pairs \cup {All}, side : Sides, k : Nat, rpc : BOOLEAN]
    BY <1>1 DEF RestOK
  <2> QED
    BY <1>2, <1>4, <2>1
<1>6. closed \in Seq(ClosedTrade) /\ DOMAIN closed = 1..Len(closed) /\ Len(closed) \in Nat
  BY <1>1 DEF RestOK
<1>7. ASSUME NEW c \in DOMAIN closed
      PROVE  /\ closed'[c] \in ClosedTrade
             /\ closed'[c].pair = closed[c].pair /\ closed'[c].side = closed[c].side
             /\ closed'[c].at = closed[c].at
             /\ \/ closed'[c] = closed[c]
                \/ closed[c].pair = task.pair /\ closed[c].side = task.side
  <2>1. closed[c] \in ClosedTrade
    BY <1>6
  <2>2. CASE closed[c].pair = task.pair /\ closed[c].side = task.side
    <3>1. closed'[c] = [closed[c] EXCEPT !.asked = TRUE]
      BY <1>3, <2>2
    <3> QED
      BY <2>1, <2>2, <3>1 DEF ClosedTrade
  <2>3. CASE ~(closed[c].pair = task.pair /\ closed[c].side = task.side)
    <3>1. closed'[c] = closed[c]
      BY <1>3, <2>3
    <3> QED
      BY <2>1, <3>1
  <2> QED
    BY <2>2, <2>3
<1>8. DOMAIN closed' = DOMAIN closed
  BY <1>3
<1>9. closed' \in Seq(ClosedTrade)
  <2>1. closed' \in [1..Len(closed) -> ClosedTrade]
    BY <1>3, <1>6, <1>7
  <2> QED
    BY <1>6, <2>1
<1>10. \A c \in DOMAIN closed' : closed'[c].at <= now
  BY <1>1, <1>7, <1>8 DEF RestOK
<1>11. RestOK'
  BY <1>1, <1>2, <1>5, <1>9, <1>10 DEF RestOK
<1>12. Added(locks, locks') /\ HasLock(locks', task.pair, now, task.side)
  BY <1>2, <1>4, AutoLockIs
<1>13. TableOK(closed, locks', now)
  BY <1>12, TableAdded
<1>14. now < Rounded(now) /\ Rounded(now) \in Nat
  BY <1>4, RoundedIs
<1>15. LegsLocked(closed', locks')
  <2>1. ASSUME NEW c \in DOMAIN closed, closed'[c].asked PROVE LegLocked(closed'[c], locks')
    <3>1. CASE closed'[c] = closed[c]
      BY <1>13, <2>1, <3>1 DEF TableOK, LegsLocked
    <3>2. CASE closed[c].pair = task.pair /\ closed[c].side = task.side
      <4>1. closed'[c].at \in Nat /\ closed'[c].at <= now
        BY <1>7, <1>8, <1>10 DEF ClosedTrade
      <4>2. PICK i \in DOMAIN locks' :
               /\ locks'[i].pair = task.pair /\ locks'[i].side = task.side
               /\ locks'[i].end = Rounded(now)
        BY <1>12 DEF HasLock
      <4>3. locks'[i].end > closed'[c].at
        BY <1>4, <1>14, <4>1, <4>2
      <4> QED
        BY <1>7, <3>2, <4>2, <4>3 DEF LegLocked
    <3> QED
      BY <1>7, <3>1, <3>2
  <2> QED
    BY <1>8, <2>1 DEF LegsLocked
<1>16. TableOK(closed', locks', now')
  BY <1>2, <1>13, <1>15 DEF TableOK
<1> QED
  BY <1>11, <1>16, InvNext

\* What a protection says, whichever it is.
LEMMA SpokenIs ==
    ASSUME Inv, task.k \in 1..(2 * Len(Protections))
    PROVE  OneAnswer(Spoken, task.side)
<1>1. RestOK
  BY InvParts
<1>2. Protections \in Seq(Config) /\ Len(Protections) \in Nat
  BY PairLocksAssumption DEF Config
<1>3. task.k \in Nat /\ task.k > 0 /\ task.side \in Sides
  BY <1>1 DEF RestOK
<1>4. closed \in Seq(ClosedTrade)
  BY <1>1 DEF RestOK
<1>5. CASE task.k > Len(Protections)
  <2>1. Protections[task.k - Len(Protections)] \in Config
    BY <1>2, <1>3, <1>5
  <2>2. OneAnswer(Global(Protections[task.k - Len(Protections)], task.side), task.side)
    BY <1>3, <1>4, <2>1, GlobalIs
  <2> QED
    BY <1>5, <2>2 DEF Spoken
<1>6. CASE ~(task.k > Len(Protections))
  <2>1. Protections[task.k] \in Config
    BY <1>2, <1>3, <1>6
  <2>2. OneAnswer(Local(Protections[task.k], task.pair, task.side), task.side)
    BY <1>3, <1>4, <2>1, LocalIs
  <2> QED
    BY <1>6, <2>2 DEF Spoken
<1> QED
  BY <1>5, <1>6

LEMMA AskAdds ==
    ASSUME Inv, Ask PROVE Added(locks, locks')
<1>1. RestOK /\ TableOK(closed, locks, now)
  BY InvParts
<1>2. OneAnswer(Spoken, task.side) /\ task.pair \in Pairs /\ task.side \in Sides
  BY <1>1, SpokenIs DEF Ask, RestOK
<1>3. now \in Nat /\ locks \in Seq(Lock)
  BY <1>1 DEF RestOK, TableOK
<1>4. CASE locks' = locks
  BY <1>3, <1>4, AddedNone
<1>5. CASE \E a \in Spoken : locks' = Locked(locks, a)
  <2>1. PICK a \in Spoken : locks' = Locked(locks, a)
    BY <1>5
  <2>2. a \in Answered
    BY <1>2 DEF OneAnswer
  <2>3. Added(locks, GlobalLock(locks, a)) /\ Added(locks, LocalLock(locks, a, task.pair, task.side))
    BY <1>2, <1>3, <2>2, GlobalLockIs, LocalLockIs
  <2> QED
    BY <2>1, <2>3 DEF Locked
<1> QED
  BY <1>4, <1>5 DEF Ask

LEMMA AskStep ==
    ASSUME Inv, Ask PROVE Inv'
<1>1. RestOK /\ TableOK(closed, locks', now)
  BY InvParts, AskAdds, TableAdded
<1>2. /\ task # NoTask /\ task' = [task EXCEPT !.k = @ + 1]
      /\ UNCHANGED <<now, candle, open, closed>>
  BY DEF Ask
<1>3. /\ task' \in [pair : Pairs \cup {All}, side : Sides, k : Nat, rpc : BOOLEAN]
      /\ task'.pair = task.pair
  BY <1>1, <1>2 DEF RestOK
<1>4. task'.pair \in Pairs
  BY <1>1, <1>2, <1>3 DEF RestOK
<1>5. RestOK' /\ TableOK(closed', locks', now')
  BY <1>1, <1>2, <1>3, <1>4 DEF RestOK
<1> QED
  BY <1>5, InvNext

LEMMA EndTaskStep ==
    ASSUME Inv, EndTask PROVE Inv'
<1>1. RestOK /\ TableOK(closed, locks, now)
  BY InvParts
<1>2. task' = NoTask /\ UNCHANGED <<now, candle, open, closed, locks>>
  BY DEF EndTask
<1>3. RestOK' /\ TableOK(closed', locks', now')
  BY <1>1, <1>2 DEF RestOK, NoTask, Sides
<1> QED
  BY <1>3, InvNext

LEMMA EnterStep ==
    ASSUME Inv, NEW pair \in Pairs, NEW side \in Sides, Enter(pair, side) \/ ForceEnter(pair, side)
    PROVE  Inv'
<1>1. RestOK /\ TableOK(closed, locks, now)
  BY InvParts
<1>2. open' = open \cup {<<pair, side>>} /\ UNCHANGED <<now, candle, closed, locks, task>>
  BY DEF Enter, ForceEnter
<1>3. RestOK' /\ TableOK(closed', locks', now')
  BY <1>1, <1>2 DEF RestOK
<1> QED
  BY <1>3, InvNext

LEMMA UserTable ==
    ASSUME Inv, UNCHANGED <<now, candle, open, closed, task>>, TableOK(closed, locks', now)
    PROVE  Inv'
<1>1. RestOK
  BY InvParts
<1>2. RestOK' /\ TableOK(closed', locks', now')
  BY <1>1 DEF RestOK
<1> QED
  BY <1>2, InvNext

LEMMA AddLockStep ==
    ASSUME Inv, NEW a \in Asked, AddLock(a) PROVE Inv'
<1>1. RestOK /\ TableOK(closed, locks, now)
  BY InvParts
<1>2. PICK until \in {now, now + Tf} : locks' = LockPair(locks, a.pair, until, a.reason, a.side)
  BY DEF AddLock
<1>3. until \in Nat
  BY <1>1, PairLocksAssumption DEF RestOK
<1>4. a.pair \in Pairs \cup {All} /\ a.side \in Sides \cup {"*"} /\ a.reason \in Reason
  BY PairLocksAssumption
<1>5. Added(locks, locks')
  BY <1>1, <1>2, <1>3, <1>4, LockPairAdded DEF RestOK, TableOK
<1>6. TableOK(closed, locks', now)
  BY <1>5, TableAdded
<1>7. UNCHANGED <<now, candle, open, closed, task>>
  BY DEF AddLock
<1> QED
  BY <1>6, <1>7, UserTable

LEMMA UnlockStep ==
    ASSUME Inv, NEW pair, NEW reason, UnlockPair(pair) \/ UnlockReason(reason) PROVE Inv'
<1>1. TableOK(closed, locks, now)
  BY InvParts
<1>2. \E S : locks' = Released(S)
  BY DEF UnlockPair, UnlockReason
<1>3. Weaker(locks, locks')
  BY <1>1, <1>2, ReleasedIs DEF TableOK
<1>4. TableOK(closed, locks', now)
  BY <1>3, TableWeaker
<1>5. UNCHANGED <<now, candle, open, closed, task>>
  BY DEF UnlockPair, UnlockReason
<1> QED
  BY <1>4, <1>5, UserTable

LEMMA DeleteStep ==
    ASSUME Inv, NEW S, DeleteLocks(S) PROVE Inv'
<1>1. RestOK /\ TableOK(closed, locks, now)
  BY InvParts
<1>2. locks \in Seq(Lock) /\ DOMAIN locks = 1..Len(locks) /\ Len(locks) \in Nat /\ now \in Nat
  BY <1>1 DEF RestOK, TableOK
<1>3. locks' = [i \in DOMAIN locks |->
                  IF i \in S THEN [locks[i] EXCEPT !.active = FALSE, !.end = now] ELSE locks[i]]
  BY DEF DeleteLocks
<1>4. ASSUME NEW i \in DOMAIN locks
      PROVE  /\ locks'[i] \in Lock
             /\ locks'[i].pair = locks[i].pair /\ locks'[i].side = locks[i].side
             /\ locks'[i].reason = locks[i].reason
             /\ locks'[i].active => locks[i].active /\ locks'[i].end = locks[i].end
  <2>1. locks[i] \in Lock
    BY <1>2
  <2>2. CASE i \in S
    <3> DEFINE dead == [locks[i] EXCEPT !.active = FALSE]
    <3>1. dead \in Lock /\ ~dead.active /\ dead.pair = locks[i].pair
          /\ dead.side = locks[i].side /\ dead.reason = locks[i].reason
      BY <2>1 DEF Lock
    <3>2. locks'[i] = [dead EXCEPT !.end = now]
      BY <1>3, <2>2
    <3> HIDE DEF dead
    <3>3. locks'[i] \in Lock /\ ~locks'[i].active /\ locks'[i].pair = dead.pair
          /\ locks'[i].side = dead.side /\ locks'[i].reason = dead.reason
      BY <1>2, <3>1, <3>2 DEF Lock
    <3> QED
      BY <3>1, <3>3
  <2>3. CASE i \notin S
    <3>1. locks'[i] = locks[i]
      BY <1>3, <2>3
    <3> QED
      BY <2>1, <3>1
  <2> QED
    BY <2>2, <2>3
<1>5. locks' \in [1..Len(locks) -> Lock] /\ DOMAIN locks' = DOMAIN locks
  BY <1>2, <1>3, <1>4
<1>6. locks' \in Seq(Lock)
  BY <1>2, <1>5
<1>7. Weaker(locks, locks')
  BY <1>4, <1>5, <1>6 DEF Weaker
<1>8. TableOK(closed, locks', now)
  BY <1>7, TableWeaker
<1>9. UNCHANGED <<now, candle, open, closed, task>>
  BY DEF DeleteLocks
<1> QED
  BY <1>8, <1>9, UserTable

---------------------------------------------------------------------------
LEMMA InitInv == Init => Inv
<1> SUFFICES ASSUME Init PROVE Inv
  OBVIOUS
<1>1. Tf \in Nat
  BY PairLocksAssumption
<1>2. /\ now = Tf /\ candle = 0 /\ open = {} /\ closed = <<>> /\ locks = <<>> /\ task = NoTask
  BY DEF Init
<1>3. RestOK
  BY <1>1, <1>2 DEF RestOK, NoTask, Sides
<1>4. TableOK(closed, locks, now)
  BY <1>2 DEF TableOK, Bounded, Distinct, LegsLocked, Queried
<1> QED
  BY <1>3, <1>4, InvParts

LEMMA StepInv == Inv /\ [Next]_vars => Inv'
<1> SUFFICES ASSUME Inv, [Next]_vars PROVE Inv'
  OBVIOUS
<1>1. CASE Tick
  BY <1>1, TickStep
<1>2. CASE Analyse
  BY <1>2, AnalyseStep
<1>3. CASE Ask
  BY <1>3, AskStep
<1>4. CASE Protect \/ EndTask \/ \E c \in DOMAIN closed : ReloadClosed(c)
  BY <1>4, ProtectStep, EndTaskStep, ReloadClosedStep
<1>5. CASE UserStep
  <2>1. CASE \E a \in Asked : AddLock(a)
    BY <2>1, AddLockStep
  <2>2. CASE \E a \in Asked : UnlockReason(a.reason)
    BY <2>2, UnlockStep
  <2>3. CASE \E pair \in Pairs \cup {All} : UnlockPair(pair)
    BY <2>3, UnlockStep
  <2>4. CASE \E S : DeleteLocks(S)
    BY <2>4, DeleteStep
  <2> QED
    BY <1>5, <2>1, <2>2, <2>3, <2>4 DEF UserStep
<1>6. CASE \E pair \in Pairs, side \in Sides : LegStep(pair, side)
  BY <1>6, CloseStep, EnterStep DEF LegStep
<1>7. CASE UNCHANGED vars
  <2>1. RestOK /\ TableOK(closed, locks, now)
    BY InvParts
  <2>2. RestOK' /\ TableOK(closed', locks', now')
    BY <1>7, <2>1 DEF RestOK, vars
  <2> QED
    BY <2>2, InvNext
<1> QED
  BY <1>1, <1>2, <1>3, <1>4, <1>5, <1>6, <1>7 DEF Next

\* Every closed trade the protections were called for has locked its leg, whatever users
\* and protections do with the table, and no lock is in it twice.
THEOREM Invariant == Spec => []Inv
<1>1. Init => Inv
  BY InitInv
<1>2. Inv /\ [Next]_vars => Inv'
  BY StepInv
<1> QED
  BY <1>1, <1>2, PTL DEF Spec

\* The variables keep their types, and every lock in force ends with a candle.
THEOREM TypeCorrect == Spec => []TypeOK
<1>1. Inv => TypeOK
  BY DEF Inv
<1> QED
  BY <1>1, Invariant, PTL

\* No lock is in force twice, however often closing, users and the strategy ask for it.
THEOREM NeverTwice == Spec => []NoLockTwice
<1>1. Inv => NoLockTwice
  BY DEF Inv
<1> QED
  BY <1>1, Invariant, PTL

\* The query of the database and the list of a backtest find the same locks.
THEOREM QueriesSame == Spec => []QueriesAgree
<1>1. ASSUME NEW pair, NEW side PROVE Queried(locks, pair, now, side) = Listed(locks, pair, now, side)
  BY DEF Queried, Listed
<1>2. QueriesAgree
  BY <1>1 DEF QueriesAgree
<1> QED
  BY <1>2, PTL

\* Once the protections have been called for a leg whose trade closed, however late and
\* by whomever, the worker does not enter the leg on a signal that was there before the
\* trade closed, unless somebody released a lock of the leg.
THEOREM NoReentry == Spec => NoReentryOnOldSignal
<1>1. ASSUME Inv, NEW pair \in Pairs, NEW side \in Sides, Enter(pair, side),
             NEW c \in DOMAIN closed, closed[c].pair = pair, closed[c].side = side,
             closed[c].asked, ~(closed[c].at < candle + Tf)
      PROVE  \E i \in DOMAIN locks :
                locks[i].pair = pair /\ locks[i].side = side /\ ~locks[i].active
  <2>1. RestOK /\ TableOK(closed, locks, now)
    BY <1>1, InvParts
  <2>2. candle \in Nat /\ Tf \in Nat /\ Tf > 0 /\ locks \in Seq(Lock)
    BY <2>1, PairLocksAssumption DEF RestOK, TableOK
  <2>3. closed[c].at \in Nat
    <3>1. closed \in Seq(ClosedTrade)
      BY <2>1 DEF RestOK
    <3>2. closed[c] \in ClosedTrade
      BY <1>1, <3>1
    <3> QED
      BY <3>2 DEF ClosedTrade
  <2>4. PICK i \in DOMAIN locks :
           /\ locks[i].pair = pair /\ locks[i].side = side
           /\ locks[i].active => locks[i].end > closed[c].at
    BY <1>1, <2>1 DEF TableOK, LegsLocked, LegLocked
  <2>5. LockTime \in Nat /\ LockTime <= candle + Tf
    <3>1. (candle % Tf) \in Nat
      BY <2>2, SMT
    <3>2. Rounded(candle) \in Nat
      BY <2>2, RoundedIs
    <3> QED
      BY <2>2, <3>1, <3>2 DEF LockTime, Rounded
  <2>6. ASSUME locks[i].active PROVE FALSE
    <3>1. locks[i] \in Lock /\ locks[i].end > closed[c].at
      BY <2>2, <2>4, <2>6
    <3>2. locks[i].end > LockTime
      BY <1>1, <2>2, <2>3, <2>5, <3>1 DEF Lock
    <3>3. i \in Queried(locks, locks[i].pair, LockTime, side)
      BY <2>2, <2>4, <2>5, <2>6, <3>2, LockedBy
    <3>4. ~IsPairLocked(locks, pair, LockTime, side)
      BY <1>1 DEF Enter
    <3> QED
      BY <2>4, <3>3, <3>4 DEF IsPairLocked
  <2> QED
    BY <2>4, <2>6
<1>2. Inv /\ [Next]_vars =>
        [\A pair \in Pairs, side \in Sides : Enter(pair, side) =>
            \A c \in DOMAIN closed :
             closed[c].pair = pair /\ closed[c].side = side /\ closed[c].asked =>
               \/ closed[c].at < candle + Tf
               \/ \E i \in DOMAIN locks :
                     locks[i].pair = pair /\ locks[i].side = side /\ ~locks[i].active]_vars
  BY <1>1
<1> QED
  BY <1>2, Invariant, PTL DEF Spec, NoReentryOnOldSignal

\* What a protection says holds until the end it says, whatever locks there were.
THEOREM ProtectionsDo == Spec => ProtectionsHold
<1>1. ASSUME Inv, Ask, NEW a \in Spoken, NEW t \in now..(a.until - 1)
      PROVE  IF task.k > Len(Protections) THEN IsGlobalLock(locks', t, a.side)
             ELSE IsPairLocked(locks', task.pair, t, LockSide(a.side, task.side))
  <2>1. RestOK /\ TableOK(closed, locks, now)
    BY <1>1, InvParts
  <2>2. OneAnswer(Spoken, task.side) /\ task.pair \in Pairs /\ task.side \in Sides
    BY <1>1, <2>1, SpokenIs DEF Ask, RestOK
  <2>3. now \in Nat /\ locks \in Seq(Lock)
    BY <2>1 DEF RestOK, TableOK
  <2>4. a \in Answered /\ \A b \in Spoken : a = b
    BY <2>2 DEF OneAnswer
  <2>5. a.until \in Nat
    BY <2>4 DEF Answered
  <2>6. t \in Int /\ t < a.until
    BY <2>3, <2>5
  <2>7. locks' = Locked(locks, a)
    BY <1>1, <2>4 DEF Ask
  <2>8. CASE task.k > Len(Protections)
    <3>1. locks' = GlobalLock(locks, a)
      BY <2>7, <2>8 DEF Locked
    <3> QED
      BY <2>3, <2>4, <2>6, <2>8, <3>1, GlobalLockIs
  <2>9. CASE ~(task.k > Len(Protections))
    <3>1. locks' = LocalLock(locks, a, task.pair, task.side)
      BY <2>7, <2>9 DEF Locked
    <3> QED
      BY <2>2, <2>3, <2>4, <2>6, <2>9, <3>1, LocalLockIs
  <2> QED
    BY <2>8, <2>9
<1>2. Inv /\ [Next]_vars =>
        [Ask => \A a \in Spoken : \A t \in now..(a.until - 1) :
            IF task.k > Len(Protections) THEN IsGlobalLock(locks', t, a.side)
            ELSE IsPairLocked(locks', task.pair, t, LockSide(a.side, task.side))]_vars
  BY <1>1
<1> QED
  BY <1>2, Invariant, PTL DEF Spec, ProtectionsHold

\* A lock of one leg, or of another pair, is not found for the other leg.
LEMMA OtherLeg ==
    ASSUME NEW ls \in Seq(Lock), NEW pair \in Pairs, NEW leg \in Sides,
           NEW side \in Sides \ {leg}, NEW p \in Pairs \cup {All}, NEW until \in Nat,
           NEW reason \in Reason, NEW s \in Sides \cup {"*"}, p # pair \/ s = leg
    PROVE  Queried(LockPair(ls, p, until, reason, s), pair, now, side)
              \subseteq Queried(ls, pair, now, side)
<1> DEFINE after == LockPair(ls, p, until, reason, s)
<1>1. Kept(ls, after) /\ OnlyNew(ls, after, p, until, reason, s)
  BY LockPairIs
<1>2. pair # "none" /\ side # "none" /\ side # "*" /\ leg # "*"
  BY PairLocksAssumption DEF Sides
<1> HIDE DEF after
<1>3. ASSUME NEW i \in Queried(after, pair, now, side)
      PROVE  i \in Queried(ls, pair, now, side)
  <2>1. /\ i \in DOMAIN after /\ after[i].end > now /\ after[i].active
        /\ after[i].pair = pair /\ (after[i].side = side \/ after[i].side = "*")
    BY <1>2, <1>3 DEF Queried
  <2>2. i \in DOMAIN ls
    <3>1. after[i].side # leg
      BY <1>2, <2>1
    <3> QED
      BY <1>1, <2>1, <3>1 DEF OnlyNew
  <2>3. after[i] = ls[i]
    BY <1>1, <2>2 DEF Kept
  <2> QED
    BY <1>2, <2>1, <2>2, <2>3 DEF Queried
<1> QED
  BY <1>3 DEF after

\* In hedge mode the end of one leg leaves the other leg of the pair as free as it was.
THEOREM OtherLegStaysFree == Spec => OtherLegFree
<1>1. ASSUME Inv, Hedge, Protect \/ Ask, NEW side \in Sides \ {task.side}
      PROVE  Queried(locks', task.pair, now, side) \subseteq Queried(locks, task.pair, now, side)
  <2>1. RestOK /\ TableOK(closed, locks, now)
    BY <1>1, InvParts
  <2>2. task # NoTask /\ task.pair \in Pairs /\ task.side \in Sides
    BY <1>1, <2>1 DEF Protect, Ask, RestOK
  <2>3. now \in Nat /\ locks \in Seq(Lock) /\ All \notin Pairs
    BY <2>1, PairLocksAssumption DEF RestOK, TableOK
  <2>4. CASE locks' = locks
    BY <2>4
  <2>5. CASE locks' = AutoLock(locks, task.pair, task.side)
    <3>1. <<"Auto lock", 0>> \in Reason
      <4>1. "Auto lock" \in Methods \cup {"Auto lock", "user"} /\ 0 \in Int
        OBVIOUS
      <4> QED
        BY <4>1, Zenon DEF Reason
    <3> QED
      BY <2>2, <2>3, <2>5, <3>1, OtherLeg DEF AutoLock
  <2>6. CASE Ask /\ \E a \in Spoken : locks' = Locked(locks, a)
    <3>1. OneAnswer(Spoken, task.side)
      BY <1>1, <2>6, SpokenIs DEF Ask
    <3>2. PICK a \in Spoken : locks' = Locked(locks, a)
      BY <2>6
    <3>3. a \in Answered /\ (a.side = task.side \/ a.side = "*")
      BY <3>1 DEF OneAnswer
    <3>4. a.until \in Nat /\ a.reason \in Reason /\ a.side \in Sides \cup {"*"}
      BY <3>3 DEF Answered
    <3>5. LockSide(a.side, task.side) = task.side
      BY <1>1, <3>3 DEF LockSide
    <3>6. /\ Queried(LockPair(locks, All, a.until, a.reason, a.side), task.pair, now, side)
                \subseteq Queried(locks, task.pair, now, side)
          /\ Queried(LockPair(locks, task.pair, a.until, a.reason, task.side),
                     task.pair, now, side)
                \subseteq Queried(locks, task.pair, now, side)
      <4>1. All # task.pair
        BY <2>2, <2>3
      <4> QED
        BY <2>2, <2>3, <3>4, <4>1, OtherLeg
    <3> QED
      BY <3>2, <3>5, <3>6 DEF Locked, GlobalLock, LocalLock
  <2> QED
    BY <1>1, <2>4, <2>5, <2>6 DEF Protect, Ask
<1>2. Inv /\ [Next]_vars =>
        [Hedge /\ (Protect \/ Ask) =>
            \A side \in Sides \ {task.side} :
               Queried(locks', task.pair, now, side)
                  \subseteq Queried(locks, task.pair, now, side)]_vars
  BY <1>1
<1> QED
  BY <1>2, Invariant, PTL DEF Spec, OtherLegFree

=============================================================================
