----------------------------- MODULE PairLocks -----------------------------
(***************************************************************************)
(* Pair locks and protections: what keeps a leg out of the market after a  *)
(* trade of it has closed.                                                 *)
(*                                                                         *)
(* handle_protections locks the leg for the candle, then asks every        *)
(* protection in turn; users and the strategy lock and unlock meanwhile.   *)
(* Not every close gets there: a stop whose fill is first seen elsewhere   *)
(* than by handle_stoploss_on_exchange does not, nor does one whose        *)
(* handling ends early.                                                    *)
(* Time is in ticks, candles are Tf ticks long, profits are +1 or -1.      *)
(***************************************************************************)
EXTENDS Integers, Sequences, FiniteSets

CONSTANTS
    Pairs,       \* pairs traded
    All,         \* "*", all pairs
    Tf,          \* ticks of a candle
    Day,         \* ticks of a day, for unlock_at
    Hedge,       \* hedge_mode
    Protections, \* sequence of the protections of the strategy
    Outcomes,    \* how trades close: profit, whether by a stop, and who handles the close
    Asked,       \* locks users and strategies ask for: pair, side and reason
    MaxTime,     \* bound: the clock
    MaxTrades,   \* bound: trades that close
    MaxLocks,    \* bound: locks when a user adds one or asks for a reload
    MaxReleased  \* bound: locks released when a user releases some

Sides == {"long", "short"}
Methods == {"CooldownPeriod", "StoplossGuard", "LowProfitPairs", "MaxDrawdown"}
Reason == (Methods \cup {"Auto lock", "user"}) \X Int

ASSUME PairLocksAssumption ==
    /\ All \notin Pairs /\ "none" \notin Pairs \cup {All}
    /\ Tf \in Nat \ {0} /\ Day \in Nat \ {0} /\ Hedge \in BOOLEAN
    /\ MaxTime \in Nat /\ MaxTrades \in Nat /\ MaxLocks \in Nat /\ MaxReleased \in Nat
    /\ Asked \subseteq [pair : Pairs \cup {All}, side : Sides \cup {"*"}, reason : Reason]
    /\ Outcomes \subseteq [profit : {-1, 1}, stop : BOOLEAN, by : {"worker", "request", "nobody"}]
    /\ Protections \in Seq([method : Methods, limit : Nat, lookback : Nat, stop : Nat,
                            unlockAt : Int, perSide : BOOLEAN, perPair : BOOLEAN])

VARIABLES
    now,    \* the clock
    candle, \* open date of the last candle the strategy analysed
    open,   \* legs with an open trade
    closed, \* closed trades, in the order they closed, and whether the leg was locked since
    locks,  \* the pairlocks table; the id is the index
    task    \* handle_protections: the leg, the next protection, and whether a request runs it

vars == <<now, candle, open, closed, locks, task>>

Lock == [pair : Pairs \cup {All}, side : Sides \cup {"*"}, reason : Reason,
         end : Nat, active : BOOLEAN]

NoTask == [pair |-> All, side |-> "long", k |-> 0, rpc |-> FALSE]
Task(pair, side, byRequest) == [pair |-> pair, side |-> side, k |-> 0, rpc |-> byRequest]

---------------------------------------------------------------------------
(* The table.                                                              *)

\* timeframe_to_next_date
Rounded(t) == t - (t % Tf) + Tf

\* PairLock.query_pair_locks; "none" is no filter.
Queried(ls, pair, t, side) ==
    {i \in DOMAIN ls :
        /\ ls[i].end > t /\ ls[i].active
        /\ pair = "none" \/ ls[i].pair = pair
        /\ CASE side = "none" -> TRUE
             [] side = "*" -> ls[i].side = "*"
             [] OTHER -> ls[i].side = side \/ ls[i].side = "*"}

\* Mutant: a lock of both sides is asked for by its name only.
ListedByName(ls, pair, t, side) ==
    {i \in DOMAIN ls :
        /\ ls[i].end > t /\ ls[i].active
        /\ pair = "none" \/ ls[i].pair = pair
        /\ side = "none" \/ ls[i].side = side}

\* The same in the list of a backtest.
Listed(ls, pair, t, side) ==
    {i \in DOMAIN ls :
        /\ ls[i].end > t /\ ls[i].active
        /\ pair = "none" \/ ls[i].pair = pair
        /\ side = "none" \/ ls[i].side = "*" \/ ls[i].side = side}

IsGlobalLock(ls, t, side) == Queried(ls, All, t, side) # {}

IsPairLocked(ls, pair, t, side) == Queried(ls, pair, t, side) # {} \/ IsGlobalLock(ls, t, side)

Same(lock, until, reason, side) ==
    lock.reason = reason /\ lock.end = Rounded(until) /\ lock.side = side

LockPair(ls, pair, until, reason, side) ==
    IF \E i \in Queried(ls, pair, now, side) : Same(ls[i], until, reason, side)
    THEN ls
    ELSE Append(ls, [pair |-> pair, side |-> side, reason |-> reason,
                     end |-> Rounded(until), active |-> TRUE])

Released(S) ==
    [i \in DOMAIN locks |-> IF i \in S THEN [locks[i] EXCEPT !.active = FALSE] ELSE locks[i]]

---------------------------------------------------------------------------
(* Protections: the set of what one of them returns, empty or one answer.  *)

\* Closed trades of the look-back period, on one pair or all.
Recent(p, pair) ==
    {i \in DOMAIN closed :
        /\ closed[i].at > now - p.lookback
        /\ pair = All \/ closed[i].pair = pair}

\* The next time the clock of the day shows h, t itself included.
NextAt(t, h) == IF t % Day <= h THEN t - (t % Day) + h ELSE t - (t % Day) + h + Day

\* calculate_lock_end: from the trade of S that closed last.
LockEnds(p, S) ==
    {IF p.unlockAt >= 0 THEN NextAt(closed[i].at, p.unlockAt) ELSE closed[i].at + p.stop :
        i \in {j \in S : \A k \in S : closed[j].at >= closed[k].at}}

Answers(p, S, value, side) ==
    {[until |-> e, reason |-> <<p.method, value>>, side |-> side] : e \in LockEnds(p, S)}

OwnSide(p, side) == IF p.perSide THEN side ELSE "*"

Cooldown(p, pair) == Answers(p, Recent(p, pair), 0, "*")

StoplossGuard(p, pair, side) ==
    LET S == {i \in Recent(p, pair) :
                 /\ closed[i].stop /\ closed[i].profit < 0
                 /\ p.perSide => closed[i].side = side}
    IN IF Cardinality(S) >= p.limit THEN Answers(p, S, 0, OwnSide(p, side)) ELSE {}

\* The sum of the profits of the trades in S.
Profit(S) ==
    Cardinality({i \in S : closed[i].profit > 0}) - Cardinality({i \in S : closed[i].profit < 0})

\* All trades of the pair count for the limit, the profit may be that of one side.
LowProfit(p, pair, side) ==
    LET S == Recent(p, pair)
        sum == Profit({i \in S : p.perSide => closed[i].side = side})
    IN IF Cardinality(S) >= p.limit /\ sum < 0
       THEN Answers(p, S, sum, OwnSide(p, side)) ELSE {}

\* calculate_max_drawdown: the deepest fall of the cumulated profit.
Fall(S, a, b) == -Profit({i \in S : a <= i /\ i <= b})
Falls(S) == {Fall(S, a, b) : a, b \in S}

MaxDrawdown(p) ==
    LET S == Recent(p, All)
    IN UNION {Answers(p, S, d, "*") :
                 d \in {x \in Falls(S) : x > p.limit /\ \A y \in Falls(S) : x >= y}}

Local(p, pair, side) ==
    CASE p.method = "CooldownPeriod" -> Cooldown(p, pair)
      [] p.method = "StoplossGuard" -> StoplossGuard(p, pair, side)
      [] p.method = "LowProfitPairs" -> LowProfit(p, pair, side)
      [] OTHER -> {}

Global(p, side) ==
    CASE p.method = "StoplossGuard" /\ ~p.perPair -> StoplossGuard(p, All, side)
      [] p.method = "MaxDrawdown" -> MaxDrawdown(p)
      [] OTHER -> {}

---------------------------------------------------------------------------
(* handle_protections.                                                     *)

\* Mutant: a pair is locked on both sides in hedge mode, too.
LockBothSides(side, leg) == side

\* In hedge mode a lock of a pair is narrowed to the leg that closed.
LockSide(side, leg) == IF Hedge /\ side = "*" THEN leg ELSE side

\* Mutant: a leg that is locked now is not locked for longer.
LocalLockNow(ls, a, pair, side) ==
    IF IsPairLocked(ls, pair, now, LockSide(a.side, side)) THEN ls
    ELSE LockPair(ls, pair, a.until, a.reason, LockSide(a.side, side))

\* stop_per_pair and global_stop lock unless a lock lasts beyond the end.
LocalLock(ls, a, pair, side) ==
    IF IsPairLocked(ls, pair, a.until, LockSide(a.side, side)) THEN ls
    ELSE LockPair(ls, pair, a.until, a.reason, LockSide(a.side, side))

GlobalLock(ls, a) ==
    IF IsGlobalLock(ls, a.until, a.side) THEN ls ELSE LockPair(ls, All, a.until, a.reason, a.side)

AutoLock(ls, pair, side) == LockPair(ls, pair, now, <<"Auto lock", 0>>, side)

\* A trade closes, and update_trade_state commits it.  handle_protections comes next
\* when an exit order closed it (order_close_notify) or handle_stoploss_on_exchange
\* sees the stop; nobody calls it for a stop that cancel_stoploss_on_exchange, the
\* start-up, handle_insufficient_funds or the walk finds filled.
Close(pair, side) ==
    /\ task = NoTask /\ <<pair, side>> \in open /\ Len(closed) < MaxTrades
    /\ open' = open \ {<<pair, side>>}
    /\ \E o \in Outcomes :
          /\ closed' = Append(closed, [pair |-> pair, side |-> side, at |-> now,
                                       profit |-> o.profit, stop |-> o.stop, asked |-> FALSE])
          /\ task' = IF o.by = "nobody" THEN NoTask ELSE Task(pair, side, o.by = "request")
    /\ UNCHANGED <<now, candle, locks>>

\* handle_onexchange_order notifies the close of a trade that is closed, be it once
\* more: /reload_trade may be asked for any trade, at any time.
ReloadClosed(c) ==
    /\ task = NoTask /\ Len(locks) < MaxLocks
    /\ task' = Task(closed[c].pair, closed[c].side, TRUE)
    /\ UNCHANGED <<now, candle, open, closed, locks>>

\* The first lines of handle_protections.
Protect ==
    /\ task # NoTask /\ task.k = 0
    /\ locks' = AutoLock(locks, task.pair, task.side)
    /\ closed' = [c \in DOMAIN closed |->
                     IF closed[c].pair = task.pair /\ closed[c].side = task.side
                     THEN [closed[c] EXCEPT !.asked = TRUE] ELSE closed[c]]
    /\ task' = [task EXCEPT !.k = 1]
    /\ UNCHANGED <<now, candle, open>>

\* What the next protection says, in the loop over the pair first, then in the global one.
Spoken ==
    IF task.k > Len(Protections) THEN Global(Protections[task.k - Len(Protections)], task.side)
    ELSE Local(Protections[task.k], task.pair, task.side)

Locked(ls, a) ==
    IF task.k > Len(Protections) THEN GlobalLock(ls, a) ELSE LocalLock(ls, a, task.pair, task.side)

Ask ==
    /\ task # NoTask /\ task.k \in 1..(2 * Len(Protections))
    /\ IF Spoken = {} THEN locks' = locks ELSE \E a \in Spoken : locks' = Locked(locks, a)
    /\ task' = [task EXCEPT !.k = @ + 1]
    /\ UNCHANGED <<now, candle, open, closed>>

\* The protections are all asked, or the process dies, or an exception of the wallets
\* or the database ends the handling before that.  Nobody takes it up again.
EndTask ==
    /\ task # NoTask
    /\ task' = NoTask
    /\ UNCHANGED <<now, candle, open, closed, locks>>

---------------------------------------------------------------------------
(* Entries, users and the strategy.                                        *)

\* The worker holds the mutex while it handles a close; /reload_trade does not.
Free(pair, side) ==
    /\ task = NoTask \/ task.rpc
    /\ <<pair, side>> \notin open
    /\ Hedge \/ \A s \in Sides : <<pair, s>> \notin open

\* Mutant: the locks of the moment count.
LockTimeNow == now

\* The time a signal is checked at: the end of its candle.
LockTime == Rounded(candle)

\* enter_positions and create_trade: no lock of all pairs now, none of the leg when
\* the candle of the signal closes.
Enter(pair, side) ==
    /\ Free(pair, side)
    /\ ~IsGlobalLock(locks, now, "*")
    /\ ~IsPairLocked(locks, pair, LockTime, side)
    /\ open' = open \cup {<<pair, side>>}
    /\ UNCHANGED <<now, candle, closed, locks, task>>

\* _rpc_force_entry does not look at the locks.
ForceEnter(pair, side) ==
    /\ Free(pair, side)
    /\ open' = open \cup {<<pair, side>>}
    /\ UNCHANGED <<now, candle, closed, locks, task>>

\* IStrategy.lock_pair or _rpc_add_lock.
AddLock(a) ==
    /\ Len(locks) < MaxLocks
    /\ \E until \in {now, now + Tf} :
          locks' = LockPair(locks, a.pair, until, a.reason, a.side)
    /\ UNCHANGED <<now, candle, open, closed, task>>

MayRelease == Cardinality({i \in DOMAIN locks : ~locks[i].active}) < MaxReleased

\* IStrategy.unlock_pair; the side it is asked for is that of both.
UnlockPair(pair) ==
    /\ MayRelease
    /\ locks' = Released(Queried(locks, pair, now, "*"))
    /\ UNCHANGED <<now, candle, open, closed, task>>

UnlockReason(reason) ==
    /\ MayRelease
    /\ locks' = Released({i \in DOMAIN locks : locks[i].end > now /\ locks[i].reason = reason})
    /\ UNCHANGED <<now, candle, open, closed, task>>

\* _rpc_delete_lock, by id or by pair.
DeleteLocks(S) ==
    /\ S # {} /\ MayRelease
    /\ locks' = [i \in DOMAIN locks |->
                    IF i \in S THEN [locks[i] EXCEPT !.active = FALSE, !.end = now]
                    ELSE locks[i]]
    /\ UNCHANGED <<now, candle, open, closed, task>>

Tick ==
    /\ now < MaxTime
    /\ now' = now + 1
    /\ UNCHANGED <<candle, open, closed, locks, task>>

\* The strategy analyses the last complete candle, when the exchange has it.
Analyse ==
    /\ candle' = now - (now % Tf) - Tf
    /\ UNCHANGED <<now, open, closed, locks, task>>

---------------------------------------------------------------------------
Init ==
    /\ now = Tf /\ candle = 0
    /\ open = {} /\ closed = <<>> /\ locks = <<>> /\ task = NoTask

LegStep(pair, side) == Close(pair, side) \/ Enter(pair, side) \/ ForceEnter(pair, side)

UserStep ==
    \/ \E a \in Asked : AddLock(a) \/ UnlockReason(a.reason)
    \/ \E pair \in Pairs \cup {All} :
          UnlockPair(pair) \/ DeleteLocks(Queried(locks, pair, now, "none"))
    \/ \E i \in DOMAIN locks : DeleteLocks({i})

Next ==
    \/ Tick \/ Analyse \/ Protect \/ Ask \/ EndTask \/ UserStep
    \/ \E c \in DOMAIN closed : ReloadClosed(c)
    \/ \E pair \in Pairs, side \in Sides : LegStep(pair, side)

Spec == Init /\ [][Next]_vars

---------------------------------------------------------------------------
(* Correctness.                                                            *)

\* Types; a lock in force ends with a candle, and protections are asked for a pair.
TypeOK ==
    /\ now \in Nat /\ candle \in Nat
    /\ open \subseteq Pairs \X Sides
    /\ closed \in Seq([pair : Pairs, side : Sides, at : Nat, profit : {-1, 1}, stop : BOOLEAN,
                       asked : BOOLEAN])
    /\ locks \in Seq(Lock)
    /\ \A i \in DOMAIN locks : locks[i].active => locks[i].end % Tf = 0
    /\ task \in [pair : Pairs \cup {All}, side : Sides, k : Nat, rpc : BOOLEAN]
    /\ task # NoTask => task.pair \in Pairs

\* Once handle_protections has been called for a leg whose trade closed, the worker
\* enters the leg again only on the signal of a candle that closed later than the
\* trade, whoever handled the close and however late, unless somebody released a
\* lock of the leg.  A close it was never called for promises nothing.
NoReentryOnOldSignal ==
    [][\A pair \in Pairs, side \in Sides : Enter(pair, side) =>
          \A c \in DOMAIN closed :
             closed[c].pair = pair /\ closed[c].side = side /\ closed[c].asked =>
                \/ closed[c].at < candle + Tf
                \/ \E i \in DOMAIN locks :
                      locks[i].pair = pair /\ locks[i].side = side /\ ~locks[i].active]_vars

\* When a protection has spoken, the leg is locked until the end it asked for, whatever
\* locks there were before.
ProtectionsHold ==
    [][Ask => \A a \in Spoken : \A t \in now..(a.until - 1) :
          IF task.k > Len(Protections) THEN IsGlobalLock(locks', t, a.side)
          ELSE IsPairLocked(locks', task.pair, t, LockSide(a.side, task.side))]_vars

\* In hedge mode the end of one leg does not lock the other leg of the pair, short of
\* a lock of all pairs.
OtherLegFree ==
    [][Hedge /\ (Protect \/ Ask) =>
          \A side \in Sides \ {task.side} :
             Queried(locks', task.pair, now, side)
                \subseteq Queried(locks, task.pair, now, side)]_vars

\* Live bot and backtest answer every question about the same locks alike.
QueriesAgree ==
    \A pair \in Pairs \cup {All, "none"}, side \in Sides \cup {"*", "none"} :
        Queried(locks, pair, now, side) = Listed(locks, pair, now, side)

\* No lock is in force twice, although closing, users and the strategy ask again
\* and again.
NoLockTwice ==
    \A i, j \in Queried(locks, "none", now, "none") :
        /\ locks[i].pair = locks[j].pair /\ locks[i].side = locks[j].side
        /\ locks[i].reason = locks[j].reason /\ locks[i].end = locks[j].end
        => i = j

\* "Unlocks a pair previously locked using lock_pair" (strategy/interface.py:1153).
UnlockReleases ==
    [][\A pair \in Pairs : UnlockPair(pair) => Queried(locks', pair, now, "none") = {}]_vars
=============================================================================
