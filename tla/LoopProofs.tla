------------------------------ MODULE LoopProofs ------------------------------
(***************************************************************************)
(* Proofs about the two loops that drive trades: the worker's, for every   *)
(* number of requests and errors and every initial state, and the          *)
(* backtest's, for every configuration, number of candles, detail rows     *)
(* and adjustments.                                                        *)
(*                                                                         *)
(* The worker's invariant is WorkerInv.  The backtest's is BacktestInv:    *)
(* Listing holds of the list of open trades, Walk of the trades that are   *)
(* still to be walked, Marks of the pairs a row has left without trade.    *)
(* Every trade of the list is Tame; while a row works on it, it is Loose.  *)
(* An action is one of four kinds of steps: the trade in hand is kept or   *)
(* leaves (TradeStep), a trade joins the list (EnterStep), a visit begins  *)
(* (RowStart), or the list is left alone (QuietStep, MoveStep).            *)
(***************************************************************************)
EXTENDS Lifecycle, Backtest, SequenceTheorems, NaturalsInduction, FiniteSetTheorems,
        WellFoundedInduction, TLAPS

---------------------------------------------------------------------------
(* The worker's loop: the invariant.                                       *)

\* Whenever the last turn, or this one, saw a running bot, start-up has run.
StartKept ==
    /\ pc \in Working => started /\ seen \in Active
    /\ pc = "stopped" => seen = "STOPPED"
    /\ pc = "turn" => seen # "RELOAD_CONFIG" /\ (old \in Active => started)
    /\ pc = "sleep" => seen # "RELOAD_CONFIG" /\ (seen \in Active => started)
    /\ pc = "read" => (old \in Active => started)
    /\ pc \in {"init", "listen"} => old \notin Active
    /\ pc \in {"init", "dead"} => ~attached

\* The bot is in the mode it was told to be in.
ModeKept == (asked = "pause" => state = "PAUSED") /\ (asked = "stop" => state = "STOPPED")

\* What the worker saw when it looked allows the walk it is in.
WalkKept ==
    /\ pc = "add" => told # "pause"
    /\ pc = "enter" => told \notin {"stop", "pause"}

WorkerInv == WorkerTypeOK /\ StartKept /\ ModeKept /\ WalkKept

---------------------------------------------------------------------------
\* The invariant holds when the process begins.
LEMMA WorkerStart == WorkerInit => WorkerInv
<1> SUFFICES ASSUME WorkerInit PROVE WorkerInv
  OBVIOUS
<1>1. WorkerTypeOK
  <2>1. 0 \in 0..MaxRequests /\ 0 \in 0..MaxFaults /\ 0 \in 0..MaxAhead
    BY LifecycleAssumption
  <2>2. started \in BOOLEAN /\ attached \in BOOLEAN /\ forcing \in BOOLEAN /\ ~forcing
    BY Zenon DEF WorkerInit
  <2> QED
    BY <2>1, <2>2 DEF WorkerInit, WorkerTypeOK, States, Active, Modes
<1>2. StartKept /\ ModeKept /\ WalkKept
  BY DEF WorkerInit, StartKept, ModeKept, WalkKept, Active, Working
<1> QED
  BY <1>1, <1>2 DEF WorkerInv

\* The counters stay within their bounds.
LEMMA RequestIs ==
    ASSUME WorkerTypeOK, Request
    PROVE  attached /\ requests' \in 0..MaxRequests /\ faults' \in 0..MaxFaults
BY LifecycleAssumption DEF WorkerTypeOK, Request

LEMMA FaultIs ==
    ASSUME WorkerTypeOK, Fault
    PROVE  requests' \in 0..MaxRequests /\ faults' \in 0..MaxFaults
BY LifecycleAssumption DEF WorkerTypeOK, Fault

\* A turn of the loop keeps the invariant.
LEMMA TurnStep ==
    ASSUME WorkerInv, Loop PROVE WorkerInv'
<1>1. CASE Read
  BY <1>1 DEF Read, Reloads, WorkerInv, WorkerTypeOK, StartKept, ModeKept, WalkKept,
         States, Active, Modes, Working, walk, counts
<1>2. CASE Turn
  <2>1. started' \in BOOLEAN
    BY <1>2, Zenon DEF Turn
  <2>2. started' <=> (seen # "STOPPED" /\ (started \/ Starts))
    BY <1>2, Zenon DEF Turn
  <2>3. /\ pc = "turn" /\ pc' = IF seen = "STOPPED" THEN "stopped" ELSE "process"
        /\ UNCHANGED <<state, old, seen, attached, pausing, forcing, orders, asked, counts>>
    BY <1>2 DEF Turn
  <2>4. seen # "STOPPED" => seen \in Active /\ started'
    BY <2>2, <2>3 DEF WorkerInv, WorkerTypeOK, StartKept, States, Active, Starts
  <2>5. UNCHANGED <<ahead, told>>
    BY <1>2 DEF Turn, walk
  <2>6. WorkerTypeOK'
    BY <2>1, <2>3, <2>5 DEF WorkerInv, WorkerTypeOK, Working, counts
  <2>7. StartKept'
    BY <2>3, <2>4 DEF WorkerInv, StartKept, Working, Active
  <2>8. ModeKept' /\ WalkKept'
    BY <2>3, <2>5 DEF WorkerInv, ModeKept, WalkKept
  <2> QED
    BY <2>6, <2>7, <2>8 DEF WorkerInv
<1>3. CASE Process
  <2>1. ahead' \in 0..MaxAhead
    BY <1>3, LifecycleAssumption DEF Process
  <2> QED
    BY <1>3, <2>1 DEF Process, WorkerInv, WorkerTypeOK, StartKept, ModeKept, WalkKept,
         States, Active, Modes, Working, walk, counts
<1>4. CASE Stopped
  <2>1. orders' \subseteq Fills
    BY <1>4 DEF Stopped, Refused, WorkerInv, WorkerTypeOK
  <2> QED
    BY <1>4, <2>1 DEF Stopped, WorkerInv, WorkerTypeOK, StartKept, ModeKept, WalkKept,
         States, Active, Modes, Working, walk, counts
<1>5. CASE Wake
  BY <1>5 DEF Wake, Returned, WorkerInv, WorkerTypeOK, StartKept, ModeKept, WalkKept,
         States, Active, Modes, Working, walk, counts
<1>6. ASSUME NEW adds \in BOOLEAN, Adjust(adds) PROVE WorkerInv'
  <2>1. orders' \subseteq Fills /\ ahead' \in 0..MaxAhead
    BY <1>6, LifecycleAssumption DEF Adjust, Fills, WorkerInv, WorkerTypeOK
  <2>2. CASE adds
    <3>1. told' = asked /\ pc' = "add" /\ pc = "adjust" /\ state # "PAUSED"
      BY <1>6, <2>2 DEF Adjust, MayAdd
    <3>2. UNCHANGED <<state, old, seen, started, attached, pausing, forcing, asked, requests, faults>>
      BY <1>6 DEF Adjust, counts
    <3> QED
      BY <2>1, <3>1, <3>2 DEF WorkerInv, WorkerTypeOK, StartKept, ModeKept, WalkKept,
         States, Active, Modes, Working, walk, counts
  <2>3. CASE ~adds
    <3>1. told' = told /\ pc' = "adjust" /\ pc = "adjust"
      BY <1>6, <2>3 DEF Adjust
    <3>2. UNCHANGED <<state, old, seen, started, attached, pausing, forcing, asked, requests, faults>>
      BY <1>6 DEF Adjust, counts
    <3> QED
      BY <2>1, <3>1, <3>2 DEF WorkerInv, WorkerTypeOK, StartKept, ModeKept, WalkKept,
         States, Active, Modes, Working, walk, counts
  <2> QED
    BY <2>2, <2>3
<1>7. CASE AddTo
  <2>1. orders' \subseteq Fills
    BY <1>7 DEF AddTo, Fills, WorkerInv, WorkerTypeOK
  <2> QED
    BY <1>7, <2>1 DEF AddTo, WorkerInv, WorkerTypeOK, StartKept, ModeKept, WalkKept,
         States, Active, Modes, Working, walk, counts
<1>8. CASE Gate
  <2>1. ahead' \in 0..MaxAhead
    BY <1>8, LifecycleAssumption DEF Gate
  <2> QED
    BY <1>8, <2>1 DEF Gate, WorkerInv, WorkerTypeOK, StartKept, ModeKept, WalkKept,
         States, Active, Modes, Working, walk, counts
<1>9. CASE EnterOne
  <2>1. orders' \subseteq Fills /\ ahead' \in 0..MaxAhead
    BY <1>9, LifecycleAssumption DEF EnterOne, Fills, WorkerInv, WorkerTypeOK
  <2> QED
    BY <1>9, <2>1 DEF EnterOne, WorkerInv, WorkerTypeOK, StartKept, ModeKept, WalkKept,
         States, Active, Modes, Working, walk, counts
<1>10. CASE EnterNoMore
  <2>1. ahead' \in 0..MaxAhead
    BY <1>10, LifecycleAssumption DEF EnterNoMore
  <2> QED
    BY <1>10, <2>1 DEF EnterNoMore, WorkerInv, WorkerTypeOK, StartKept, ModeKept, WalkKept,
         States, Active, Modes, Working, walk, counts
<1> QED
  BY <1>1, <1>2, <1>3, <1>4, <1>5, <1>6, <1>7, <1>8, <1>9, <1>10 DEF Loop

\* Building a bot, and throwing one away, keeps it.
LEMMA BuildStep ==
    ASSUME WorkerInv, Build PROVE WorkerInv'
<1>1. CASE Listen
  BY <1>1 DEF Listen, WorkerInv, WorkerTypeOK, StartKept, ModeKept, WalkKept,
         States, Active, Modes, Working, walk, counts
<1>2. CASE Ready
  <2>1. state' \in States
    BY <1>2, LifecycleAssumption DEF Ready, States, Active
  <2> QED
    BY <1>2, <2>1 DEF Ready, WorkerInv, WorkerTypeOK, StartKept, ModeKept, WalkKept,
         States, Active, Modes, Working, walk, counts
<1>3. CASE Clean
  <2>1. orders' \subseteq Fills
    BY <1>3 DEF Clean, Refused, WorkerInv, WorkerTypeOK
  <2> QED
    BY <1>3, <2>1 DEF Clean, WorkerInv, WorkerTypeOK, StartKept, ModeKept, WalkKept,
         States, Active, Modes, Working, walk, counts
<1>4. CASE Detach
  BY <1>4 DEF Detach, Settled, NewBot, WorkerInv, WorkerTypeOK, StartKept, ModeKept, WalkKept,
         States, Active, Modes, Working, walk, counts
<1>5. CASE Restart
  <2>1. started' \in BOOLEAN /\ attached' \in BOOLEAN /\ ~started' /\ ~attached'
    BY <1>5, Zenon DEF Restart, NewBot
  <2>2. pausing = "no" /\ ~forcing
    BY <1>5 DEF Restart, WorkerInv, WorkerTypeOK, StartKept
  <2> QED
    BY <1>5, <2>1, <2>2 DEF Restart, NewBot, WorkerInv, WorkerTypeOK, StartKept, ModeKept, WalkKept,
                            States, Active, Modes, Working, walk, counts
<1> QED
  BY <1>1, <1>2, <1>3, <1>4, <1>5 DEF Build

\* Errors and signals keep it.
LEMMA FaultStep ==
    ASSUME WorkerInv, Retry \/ StopOnError \/ Die PROVE WorkerInv'
<1>0. WorkerTypeOK
  BY DEF WorkerInv
<1>1. CASE Retry
  <2>1. orders' \subseteq Fills /\ ahead' \in 0..MaxAhead
    BY <1>0, <1>1, LifecycleAssumption DEF Retry, Fills, WorkerTypeOK
  <2> QED
    BY <1>0, <1>1, <2>1, FaultIs DEF Retry, WorkerInv, WorkerTypeOK, StartKept, ModeKept, WalkKept,
         States, Active, Modes, Working
<1>2. CASE StopOnError
  BY <1>0, <1>2, FaultIs, LifecycleAssumption DEF StopOnError, WorkerInv, WorkerTypeOK, StartKept, ModeKept, WalkKept,
         States, Active, Modes, Working
<1>3. CASE Die
  <2>1. orders' \subseteq Fills /\ ahead' \in 0..MaxAhead
    BY <1>0, <1>3, LifecycleAssumption DEF Die, WorkerTypeOK
  <2> QED
    BY <1>0, <1>3, <2>1, FaultIs DEF Die, WorkerInv, WorkerTypeOK, StartKept, ModeKept, WalkKept,
         States, Active, Modes, Working
<1> QED
  BY <1>1, <1>2, <1>3

\* What is left of a request keeps it.
LEMMA AnswerStep ==
    ASSUME WorkerInv, Answer PROVE WorkerInv'
<1>1. CASE PauseWrite
  BY <1>1 DEF PauseWrite, WorkerInv, WorkerTypeOK, StartKept, ModeKept, WalkKept,
         States, Active, Modes, Working, walk, worker, counts
<1>2. CASE PauseAgain
  <2>1. pausing' \in {"no", "stopped"}
    BY <1>2 DEF PauseAgain
  <2>2. attached' /\ attached' \in BOOLEAN
    BY <1>2, Zenon DEF PauseAgain, WorkerInv, WorkerTypeOK
  <2>3. UNCHANGED <<state, old, seen, pc, started, attached, forcing, orders, asked, ahead, told,
                  requests, faults>>
    BY <1>2 DEF PauseAgain, worker, walk, counts
  <2>4. WorkerTypeOK'
    BY <2>1, <2>2, <2>3 DEF WorkerInv, WorkerTypeOK
  <2>5. StartKept' /\ ModeKept' /\ WalkKept'
    BY <2>3 DEF WorkerInv, StartKept, ModeKept, WalkKept
  <2> QED
    BY <2>4, <2>5 DEF WorkerInv
<1>3. CASE ForcePlace
  <2>1. attached' /\ attached' \in BOOLEAN
    BY <1>3, Zenon DEF ForcePlace, WorkerInv, WorkerTypeOK
  <2>2. forcing' \in BOOLEAN /\ orders' \subseteq Fills
    <3>1. forcing' \in BOOLEAN
      BY <1>3, Zenon DEF ForcePlace
    <3> QED
      BY <1>3, <3>1 DEF ForcePlace, Fills, WorkerInv, WorkerTypeOK
  <2>3. UNCHANGED <<state, old, seen, pc, started, attached, pausing, asked, ahead, told,
                  requests, faults>>
    BY <1>3 DEF ForcePlace, worker, walk, counts
  <2>4. WorkerTypeOK'
    BY <2>1, <2>2, <2>3 DEF WorkerInv, WorkerTypeOK
  <2>5. StartKept' /\ ModeKept' /\ WalkKept'
    BY <2>3 DEF WorkerInv, StartKept, ModeKept, WalkKept
  <2> QED
    BY <2>4, <2>5 DEF WorkerInv
<1> QED
  BY <1>1, <1>2, <1>3 DEF Answer

\* A request keeps it.
LEMMA AskStep ==
    ASSUME WorkerInv, Ask PROVE WorkerInv'
<1>0. WorkerTypeOK
  BY DEF WorkerInv
<1>1. CASE Start
  BY <1>0, <1>1, RequestIs DEF Start, WorkerInv, WorkerTypeOK, StartKept, ModeKept, WalkKept,
         States, Active, Modes, Working, walk, worker
<1>2. CASE Stop
  BY <1>0, <1>2, RequestIs DEF Stop, WorkerInv, WorkerTypeOK, StartKept, ModeKept, WalkKept,
         States, Active, Modes, Working, walk, worker
<1>3. CASE Reload
  BY <1>0, <1>3, RequestIs DEF Reload, WorkerInv, WorkerTypeOK, StartKept, ModeKept, WalkKept,
         States, Active, Modes, Working, walk, worker
<1>4. CASE PauseRead
  BY <1>0, <1>4, RequestIs
     DEF PauseRead, WorkerInv, WorkerTypeOK, StartKept, ModeKept, WalkKept,
         States, Active, Modes, Working, walk, worker
<1>5. CASE ForceRead
  BY <1>0, <1>5, RequestIs
     DEF ForceRead, WorkerInv, WorkerTypeOK, StartKept, ModeKept, WalkKept,
         States, Active, Modes, Working, walk, worker
<1> QED
  BY <1>1, <1>2, <1>3, <1>4, <1>5 DEF Ask

\* The exchange keeps it.
LEMMA ExchangeStep ==
    ASSUME WorkerInv, Exchange PROVE WorkerInv'
<1>1. orders' \subseteq Fills
  BY DEF Exchange, FillsUp, FillsTo, WorkerInv, WorkerTypeOK
<1>2. UNCHANGED <<state, old, seen, pc, started, attached, pausing, forcing, asked, ahead, told,
                  requests, faults>>
  BY DEF Exchange, FillsUp, FillsTo, worker, walk, counts
<1> QED
  BY <1>1, <1>2 DEF WorkerInv, WorkerTypeOK, StartKept, ModeKept, WalkKept

\* Every step of the worker keeps it.
LEMMA WorkerStep == WorkerInv /\ [WorkerNext]_workerVars => WorkerInv'
<1> SUFFICES ASSUME WorkerInv, [WorkerNext]_workerVars PROVE WorkerInv'
  OBVIOUS
<1>1. CASE WorkerNext
  BY <1>1, TurnStep, BuildStep, FaultStep, AnswerStep, AskStep, ExchangeStep DEF WorkerNext
<1>2. CASE UNCHANGED workerVars
  BY <1>2 DEF workerVars, WorkerInv, WorkerTypeOK, StartKept, ModeKept, WalkKept
<1> QED
  BY <1>1, <1>2

---------------------------------------------------------------------------
\* The worker's memory of the last turn tells whether start-up has run, and the bot's
\* state is the mode it was told to be in.
THEOREM WorkerInvariant == WorkerSpec => []WorkerInv
BY WorkerStart, WorkerStep, PTL DEF WorkerSpec

\* The variables keep their types, and no request outlives its bot.
THEOREM WorkerTypeCorrect == WorkerSpec => []WorkerTypeOK
<1>1. WorkerInv => WorkerTypeOK
  BY DEF WorkerInv
<1> QED
  BY <1>1, WorkerInvariant, PTL

\* Trades are handled only by a bot that has started up since it was built and since it
\* was last seen stopped.
THEOREM AlwaysStarted == WorkerSpec => []StartedFirst
<1>1. WorkerInv => StartedFirst
  BY DEF WorkerInv, StartKept, StartedFirst
<1> QED
  BY <1>1, WorkerInvariant, PTL

\* The worker enters only in a walk for which it looked at the state when it was not told
\* to stop or to pause, and adds only when it was not told to pause: whatever requests do
\* to the state meanwhile, the walk that has begun is the last one.
THEOREM EntriesObeyAlways == WorkerSpec => EntriesObey
<1>1. WorkerInv /\ [WorkerNext]_workerVars =>
        [/\ EnterOne => told \notin {"stop", "pause"}
         /\ AddTo => told # "pause"]_workerVars
  BY DEF WorkerInv, WalkKept, EnterOne, AddTo
<1> QED
  BY <1>1, WorkerInvariant, PTL DEF WorkerSpec, EntriesObey

---------------------------------------------------------------------------
(* Lists, and the orders of a trade.                                       *)

\* A set of natural numbers has a least element.
LEMMA LeastElement ==
    ASSUME NEW T \in SUBSET Nat, T # {}
    PROVE  \E x \in T : \A y \in T : x <= y
<1> DEFINE Less == OpToRel(<, Nat)
<1>1. PICK x \in T : \A y \in T : ~(<<y, x>> \in Less)
  <2>1. IsWellFoundedOn(Less, Nat)
    BY NatLessThanWellFounded
  <2> HIDE DEF Less
  <2>2. QED
    BY <2>1, WFMin
<1>2. \A m, n \in Nat : m < n => <<m, n>> \in Less
  BY DEF OpToRel
<1> HIDE DEF Less
<1>3. ASSUME NEW y \in T PROVE x <= y
  <2>1. x \in Nat /\ y \in Nat /\ ~(y < x)
    BY <1>1, <1>2, <1>3
  <2>2. QED
    BY <2>1
<1>4. QED
  BY <1>3

\* The first of a set of positions is one of them.
LEMMA MinIn ==
    ASSUME NEW T \in SUBSET Nat, T # {}
    PROVE  Min(T) \in T /\ \A y \in T : Min(T) <= y
BY LeastElement DEF Min

\* A list without its element i.
LEMMA RemoveAtProps ==
    ASSUME NEW S, NEW s \in Seq(S), NEW i \in 1..Len(s)
    PROVE  /\ RemoveAt(s, i) \in Seq(S)
           /\ Len(RemoveAt(s, i)) = Len(s) - 1
           /\ \A n \in 1..(Len(s) - 1) :
                 RemoveAt(s, i)[n] = IF n < i THEN s[n] ELSE s[n + 1]
<1> DEFINE a == SubSeq(s, 1, i - 1)
           b == SubSeq(s, i + 1, Len(s))
<1>1. Len(s) \in Nat /\ \A n \in 1..Len(s) : s[n] \in S
  BY LenProperties, ElementOfSeq
<1>2. /\ a \in Seq(S) /\ Len(a) = i - 1 /\ \A n \in 1..(i - 1) : a[n] = s[n]
  <2>1. \A n \in 1..(i - 1) : s[n] \in S
    BY <1>1
  <2>2. /\ a \in Seq(S) /\ Len(a) = IF 1 <= i - 1 THEN i - 1 - 1 + 1 ELSE 0
        /\ \A n \in 1..(i - 1 - 1 + 1) : a[n] = s[1 + n - 1]
    BY <2>1, <1>1, SubSeqProperties
  <2> HIDE DEF a
  <2>3. QED
    BY <2>2, <1>1
<1>3. /\ b \in Seq(S) /\ Len(b) = Len(s) - i /\ \A n \in 1..(Len(s) - i) : b[n] = s[n + i]
  <2>1. \A n \in (i + 1)..Len(s) : s[n] \in S
    BY <1>1
  <2>2. /\ b \in Seq(S) /\ Len(b) = IF i + 1 <= Len(s) THEN Len(s) - (i + 1) + 1 ELSE 0
        /\ \A n \in 1..(Len(s) - (i + 1) + 1) : b[n] = s[i + 1 + n - 1]
    BY <2>1, <1>1, SubSeqProperties
  <2> HIDE DEF b
  <2>3. QED
    BY <2>2, <1>1
<1>4. RemoveAt(s, i) = a \o b
  BY DEF RemoveAt
<1> HIDE DEF a, b
<1>5. /\ a \o b \in Seq(S) /\ Len(a \o b) = Len(a) + Len(b)
      /\ \A n \in 1..(Len(a) + Len(b)) : (a \o b)[n] = IF n <= Len(a) THEN a[n] ELSE b[n - Len(a)]
  BY <1>2, <1>3, ConcatProperties
<1>6. ASSUME NEW n \in 1..(Len(s) - 1) PROVE (a \o b)[n] = IF n < i THEN s[n] ELSE s[n + 1]
  <2>0. Len(s) \in Nat /\ i \in Int /\ n \in Int /\ Len(a) = i - 1 /\ Len(b) = Len(s) - i
    BY <1>1, <1>2, <1>3
  <2>1. n \in 1..(Len(a) + Len(b))
    BY <2>0
  <2>a. (a \o b)[n] = IF n <= Len(a) THEN a[n] ELSE b[n - Len(a)]
    BY <2>1, <1>5
  <2>2. CASE n < i
    <3>1. n <= Len(a) /\ n \in 1..(i - 1)
      BY <2>0, <2>2
    <3>2. QED
      BY <3>1, <2>2, <2>a, <1>2
  <2>3. CASE ~(n < i)
    <3>1. ~(n <= Len(a)) /\ n - Len(a) \in 1..(Len(s) - i)
      BY <2>0, <2>3
    <3>2. (n - Len(a)) + i = n + 1
      BY <2>0
    <3>3. b[n - Len(a)] = s[(n - Len(a)) + i]
      BY <3>1, <1>3
    <3>4. QED
      BY <3>1, <3>2, <3>3, <2>3, <2>a
  <2>4. QED
    BY <2>2, <2>3
<1>7. QED
  BY <1>1, <1>2, <1>3, <1>4, <1>5, <1>6

\* The element of a list of at most one.
LEMMA Lone ==
    ASSUME NEW S, NEW s \in Seq(S), Len(s) <= 1, NEW e \in ToSet(s)
    PROVE  Len(s) = 1 /\ e = s[1] /\ e \in S /\ ToSet(s) = {e}
<1>1. Len(s) \in Nat /\ DOMAIN s = 1..Len(s)
  BY LenProperties
<1>2. PICK n \in 1..Len(s) : e = s[n]
  BY <1>1 DEF ToSet
<1>3. Len(s) = 1 /\ n = 1
  BY <1>1, <1>2
<1>4. DOMAIN s = {1} /\ e = s[1]
  BY <1>1, <1>2, <1>3
<1>5. e \in S
  BY <1>2, ElementOfSeq
<1>6. ToSet(s) = {e}
  BY <1>4 DEF ToSet
<1> QED
  BY <1>3, <1>4, <1>5, <1>6

\* And the list without it.
LEMMA RemoveLone ==
    ASSUME NEW S, NEW s \in Seq(S), Len(s) <= 1, NEW e \in ToSet(s)
    PROVE  RemoveFirst(s, e) = <<>>
<1> DEFINE T == {i \in 1..Len(s) : s[i] = e}
<1>1. Len(s) = 1 /\ e = s[1]
  BY Lone
<1>2. T = {1}
  BY <1>1
<1>3. SelectInSeq(s, LAMBDA v : v = e) = 1
  <2>1. Min(T) \in T
    BY <1>2, MinIn
  <2>2. SelectInSeq(s, LAMBDA v : v = e) = IF T # {} THEN Min(T) ELSE 0
    BY DEF SelectInSeq
  <2> HIDE DEF T
  <2>3. QED
    BY <1>2, <2>1, <2>2
<1>4. RemoveFirst(s, e) = RemoveAt(s, 1)
  <2>1. \E i \in 1..Len(s) : s[i] = e
    BY <1>1
  <2>2. QED
    BY <1>3, <2>1 DEF RemoveFirst
<1>5. RemoveAt(s, 1) \in Seq(S) /\ Len(RemoveAt(s, 1)) = 0
  <2>1. 1 \in 1..Len(s)
    BY <1>1
  <2>2. RemoveAt(s, 1) \in Seq(S) /\ Len(RemoveAt(s, 1)) = Len(s) - 1
    BY <2>1, RemoveAtProps
  <2>3. QED
    BY <1>1, <2>2
<1>6. QED
  BY <1>4, <1>5, EmptySeq

---------------------------------------------------------------------------
(* A trade and its open order. *)

\* Trades, whatever the whitelist.
Records == [id : Nat \ {0}, pair : STRING, dir : Dirs, held : Nat, fills : Nat, orders : Seq(Orders)]

\* Another state of the same trade.
SameLeg(t, u) == u.id = t.id /\ u.pair = t.pair /\ u.dir = t.dir

\* One open order at most, exits for no more than is held, and nothing held before a fill.
Loose(t) ==
    /\ t \in Records
    /\ Len(t.orders) <= 1
    /\ \A o \in ToSet(t.orders) : o.side = "exit" => o.amount <= t.held
    /\ t.fills = 0 => t.held = 0

\* A trade as the rows leave it.
Tame(t) == Loose(t) /\ ~Useless(t) /\ ~Closed(t)

\* The types of the fields of a trade.
LEMMA LooseFields ==
    ASSUME NEW t, Loose(t)
    PROVE  /\ t.id \in Nat \ {0} /\ t.pair \in STRING /\ t.dir \in Dirs
           /\ t.held \in Nat /\ t.fills \in Nat /\ t.orders \in Seq(Orders)
           /\ ToSet(t.orders) \subseteq Orders
<1>1. t.orders \in Seq(Orders)
  BY DEF Loose, Records
<1>2. ToSet(t.orders) \subseteq Orders
  BY <1>1, LenProperties, ElementOfSeq DEF ToSet
<1> QED
  BY <1>1, <1>2 DEF Loose, Records

\* The types of the fields of an order.
LEMMA OrderFields ==
    ASSUME NEW o \in Orders
    PROVE  o.side \in {"entry", "exit"} /\ o.amount \in Nat \ {0} /\ o.new \in BOOLEAN
BY DEF Orders

\* An order is placed with its side and amount.
LEMMA OrderType ==
    ASSUME NEW side \in {"entry", "exit"}, NEW amount \in Nat \ {0}
    PROVE  /\ Order(side, amount) \in Orders
           /\ Order(side, amount).side = side /\ Order(side, amount).amount = amount
BY DEF Order, Orders

\* The list of one order, and of none.
LEMMA OneOf ==
    ASSUME NEW o \in Orders
    PROVE  <<o>> \in Seq(Orders) /\ Len(<<o>>) = 1 /\ ToSet(<<o>>) = {o}
<1>1. <<o>> \in Seq(Orders) /\ Len(<<o>>) = 1 /\ <<o>>[1] = o
  OBVIOUS
<1>2. DOMAIN <<o>> = {1}
  BY <1>1
<1> QED
  BY <1>1, <1>2 DEF ToSet

LEMMA NoneOf == <<>> \in Seq(Orders) /\ Len(<<>>) = 0 /\ ToSet(<<>>) = {}
<1>1. <<>> \in Seq(Orders) /\ Len(<<>>) = 0
  OBVIOUS
<1>2. DOMAIN <<>> = {}
  OBVIOUS
<1> QED
  BY <1>1, <1>2 DEF ToSet

\* A trade whose open order is gone has none.
LEMMA DroppedProps ==
    ASSUME NEW t, Loose(t), NEW o \in ToSet(t.orders)
    PROVE  /\ Loose(Dropped(t, o)) /\ SameLeg(t, Dropped(t, o))
           /\ Dropped(t, o).orders = <<>>
           /\ Dropped(t, o).held = t.held /\ Dropped(t, o).fills = t.fills
<1>1. RemoveFirst(t.orders, o) = <<>>
  BY LooseFields, RemoveLone DEF Loose
<1>2. Dropped(t, o) = [t EXCEPT !.orders = <<>>]
  <2>1. Dropped(t, o) = [t EXCEPT !.orders = RemoveFirst(t.orders, o)]
    BY DEF Dropped, Loose, Records
  <2> QED
    BY <1>1, <2>1
<1>3. [t EXCEPT !.orders = <<>>] \in Records
  BY NoneOf DEF Loose, Records
<1> QED
  BY <1>2, <1>3, NoneOf DEF Loose, Records, SameLeg

\* A trade for which an order is placed has that order only.
LEMMA PlacedProps ==
    ASSUME NEW t, Loose(t), NEW o \in Orders, o.side = "exit" => o.amount <= t.held
    PROVE  /\ Loose(Placed(t, o)) /\ SameLeg(t, Placed(t, o))
           /\ Placed(t, o).orders = <<o>>
           /\ Placed(t, o).held = t.held /\ Placed(t, o).fills = t.fills
<1>1. [t EXCEPT !.orders = <<o>>] \in Records
  BY OneOf DEF Loose, Records
<1> QED
  BY <1>1, OneOf DEF Placed, Loose, Records, SameLeg

\* A trade whose entry filled holds something.
LEMMA BoughtProps ==
    ASSUME NEW t, Loose(t), NEW o \in ToSet(t.orders)
    PROVE  /\ Loose(Bought(t, o)) /\ SameLeg(t, Bought(t, o))
           /\ Bought(t, o).orders = <<>>
           /\ Bought(t, o).held = t.held + o.amount /\ Bought(t, o).fills = t.fills + 1
           /\ Bought(t, o).held > 0 /\ Bought(t, o).fills > 0
<1> DEFINE d == Dropped(t, o)
<1>1. Loose(d) /\ SameLeg(t, d) /\ d.orders = <<>> /\ d.held = t.held /\ d.fills = t.fills
  BY DroppedProps
<1>2. t.held \in Nat /\ t.fills \in Nat /\ o.amount \in Nat \ {0}
  BY LooseFields, OrderFields
<1>3. Bought(t, o) = [d EXCEPT !.held = @ + o.amount, !.fills = @ + 1]
  BY DEF Bought
<1> HIDE DEF d
<1>4. Bought(t, o) = [d EXCEPT !.held = t.held + o.amount, !.fills = t.fills + 1]
  BY <1>1, <1>3 DEF Loose, Records
<1>5. t.held + o.amount \in Nat /\ t.fills + 1 \in Nat /\ t.held + o.amount > 0 /\ t.fills + 1 > 0
  BY <1>2
<1>6. Bought(t, o) \in Records
  BY <1>1, <1>4, <1>5 DEF Loose, Records
<1>7. /\ Bought(t, o).orders = <<>> /\ SameLeg(d, Bought(t, o))
      /\ Bought(t, o).held = t.held + o.amount /\ Bought(t, o).fills = t.fills + 1
  BY <1>1, <1>4 DEF Loose, Records, SameLeg
<1> QED
  BY <1>1, <1>5, <1>6, <1>7, NoneOf DEF Loose, SameLeg

\* A trade whose exit filled holds what is left.
LEMMA SoldProps ==
    ASSUME NEW t, Loose(t), NEW o \in ToSet(t.orders), o.side = "exit"
    PROVE  /\ Loose(Sold(t, o)) /\ SameLeg(t, Sold(t, o))
           /\ Sold(t, o).orders = <<>> /\ Sold(t, o).fills = t.fills /\ t.fills > 0
<1> DEFINE d == Dropped(t, o)
<1>1. Loose(d) /\ SameLeg(t, d) /\ d.orders = <<>> /\ d.held = t.held /\ d.fills = t.fills
  BY DroppedProps
<1>2. t.held \in Nat /\ t.fills \in Nat /\ o.amount \in Nat \ {0} /\ o.amount <= t.held
  BY LooseFields, OrderFields DEF Loose
<1>3. Sold(t, o) = [d EXCEPT !.held = @ - o.amount]
  BY DEF Sold
<1> HIDE DEF d
<1>4. Sold(t, o) = [d EXCEPT !.held = t.held - o.amount]
  BY <1>1, <1>3 DEF Loose, Records
<1>5. t.held - o.amount \in Nat /\ t.held # 0
  BY <1>2
<1>5a. t.fills > 0
  BY <1>2, <1>5 DEF Loose
<1>6. Sold(t, o) \in Records
  BY <1>1, <1>4, <1>5 DEF Loose, Records
<1>7. Sold(t, o).orders = <<>> /\ SameLeg(d, Sold(t, o)) /\ Sold(t, o).fills = t.fills
  BY <1>1, <1>4 DEF Loose, Records, SameLeg
<1> QED
  BY <1>1, <1>2, <1>5, <1>5a, <1>6, <1>7, NoneOf DEF Loose, SameLeg

---------------------------------------------------------------------------
(* What becomes of a trade in a row.                                       *)

\* A list of one element has an element.
LEMMA NotEmpty == ASSUME NEW o PROVE <<o>> # <<>>
OBVIOUS

\* An entry that is added, whatever becomes of it.
LEMMA EnteredProps ==
    ASSUME NEW t, Loose(t), NEW amount \in Nat \ {0}, NEW r \in Entered(t, amount)
    PROVE  /\ Loose(r) /\ SameLeg(t, r)
           /\ ~Closed(t) => ~Closed(r)
           /\ ~Useless(t) => ~Useless(r)
           /\ t.fills > 0 => r.fills > 0
<1> DEFINE o == Order("entry", amount)
           p == Placed(t, o)
           b == Bought(p, o)
<1>1. o \in Orders /\ o.side = "entry"
  BY OrderType
<1>2. r = t \/ r = p \/ r = b
  BY DEF Entered
<1> HIDE DEF o
<1>3. Loose(p) /\ SameLeg(t, p) /\ p.orders = <<o>> /\ p.held = t.held /\ p.fills = t.fills
  BY <1>1, PlacedProps
<1> HIDE DEF p
<1>4. Loose(b) /\ SameLeg(p, b) /\ b.held > 0 /\ b.fills > 0
  BY <1>1, <1>3, OneOf, BoughtProps
<1> HIDE DEF b
<1>5. CASE r = t
  BY <1>5 DEF SameLeg
<1>6. CASE r = p
  BY <1>3, <1>6, NotEmpty DEF Closed, Useless
<1>7. CASE r = b
  <2>1. b.held \in Nat /\ b.fills \in Nat
    BY <1>4, LooseFields
  <2> QED
    BY <1>3, <1>4, <1>7, <2>1 DEF Closed, Useless, SameLeg
<1> QED
  BY <1>2, <1>5, <1>6, <1>7

\* A trade that is not closed is not closed by a cancellation.
LEMMA DroppedOpen ==
    ASSUME NEW t, Tame(t), NEW o \in ToSet(t.orders)
    PROVE  Loose(Dropped(t, o)) /\ SameLeg(t, Dropped(t, o)) /\ ~Closed(Dropped(t, o))
BY DroppedProps DEF Tame, Closed

\* What becomes of a trade when its open orders are managed.
LEMMA ManagedProps ==
    ASSUME NEW t, Tame(t), NEW r \in {t} \cup TimedOut(t) \cup Replaced(t)
    PROVE  Loose(r) /\ SameLeg(t, r) /\ ~Closed(r)
<1>1. CASE r = t
  BY <1>1 DEF Tame, SameLeg
<1>2. CASE r \in TimedOut(t)
  BY <1>2, DroppedOpen DEF TimedOut
<1>3. CASE r \in Replaced(t)
  <2>1. PICK o \in ToSet(t.orders) :
           r \in LET d == Dropped(t, o)
                 IN  IF o.side = "entry" THEN {d} \cup Entered(d, o.amount)
                     ELSE {d, Placed(d, Order("exit", o.amount))}
    BY <1>3 DEF Replaced
  <2> DEFINE d == Dropped(t, o)
  <2>2. r \in IF o.side = "entry" THEN {d} \cup Entered(d, o.amount)
              ELSE {d, Placed(d, Order("exit", o.amount))}
    BY <2>1
  <2>3. Loose(d) /\ SameLeg(t, d) /\ ~Closed(d) /\ d.held = t.held /\ d.fills = t.fills
    BY DroppedOpen, DroppedProps DEF Tame
  <2>4. o \in Orders /\ o.side \in {"entry", "exit"} /\ o.amount \in Nat \ {0}
        /\ (o.side = "exit" => o.amount <= t.held)
    BY LooseFields, OrderFields DEF Tame, Loose
  <2> HIDE DEF d
  <2>5. CASE r = d
    BY <2>3, <2>5
  <2>6. CASE o.side = "entry" /\ r \in Entered(d, o.amount)
    BY <2>3, <2>4, <2>6, EnteredProps DEF SameLeg
  <2>7. CASE o.side = "exit" /\ r = Placed(d, Order("exit", o.amount))
    <3> DEFINE x == Order("exit", o.amount)
    <3>1. x \in Orders /\ x.side = "exit" /\ x.amount = o.amount
      BY <2>4, OrderType
    <3> HIDE DEF x
    <3>2. Loose(Placed(d, x)) /\ SameLeg(d, Placed(d, x))
          /\ Placed(d, x).held = d.held /\ Placed(d, x).fills = d.fills
      BY <2>3, <2>4, <2>7, <3>1, PlacedProps
    <3>3. r = Placed(d, x)
      BY <2>7 DEF x
    <3> QED
      BY <2>3, <3>2, <3>3 DEF SameLeg, Closed
  <2> QED
    BY <2>2, <2>4, <2>5, <2>6, <2>7
<1> QED
  BY <1>1, <1>2, <1>3

\* The latest open order of a side is an open order of that side.
LEMMA LatestProps ==
    ASSUME NEW t, NEW side, NEW o \in Latest(t, side)
    PROVE  o \in ToSet(t.orders) /\ o.side = side
BY DEF Latest, Waiting, ToSet

\* What becomes of a trade when its exit order is processed.
LEMMA ExitedProps ==
    ASSUME NEW t, Loose(t), ~Useless(t), NEW r \in Exited(t)
    PROVE  Loose(r) /\ SameLeg(t, r) /\ ~Useless(r) /\ (t.fills > 0 => r.fills > 0)
<1>1. CASE r = t
  BY <1>1 DEF SameLeg
<1>2. ASSUME NEW o \in Latest(t, "exit"), r = Sold(t, o)
      PROVE  Loose(r) /\ SameLeg(t, r) /\ ~Useless(r) /\ (t.fills > 0 => r.fills > 0)
  <2>1. o \in ToSet(t.orders) /\ o.side = "exit"
    BY LatestProps
  <2>2. Loose(r) /\ SameLeg(t, r) /\ r.fills = t.fills /\ t.fills > 0
    BY <1>2, <2>1, SoldProps
  <2> QED
    BY <2>2 DEF Useless
<1> QED
  BY <1>1, <1>2 DEF Exited

\* What becomes of it when its entry order is.
LEMMA FilledProps ==
    ASSUME NEW t, Loose(t), ~Useless(t), NEW r \in Filled(t)
    PROVE  Loose(r) /\ SameLeg(t, r) /\ ~Useless(r)
<1>1. CASE r = t
  BY <1>1 DEF SameLeg
<1>2. ASSUME NEW o \in Latest(t, "entry"), r = Bought(t, o)
      PROVE  Loose(r) /\ SameLeg(t, r) /\ ~Useless(r)
  <2>1. o \in ToSet(t.orders)
    BY LatestProps
  <2>2. Loose(r) /\ SameLeg(t, r) /\ r.fills > 0
    BY <1>2, <2>1, BoughtProps
  <2> QED
    BY <2>2 DEF Useless
<1> QED
  BY <1>1, <1>2 DEF Filled

\* An exit order for what is held, or for a part of it.
LEMMA ExitPlaced ==
    ASSUME NEW t, Loose(t), NEW a \in Nat \ {0}, a <= t.held
    PROVE  /\ Loose(Placed(t, Order("exit", a))) /\ SameLeg(t, Placed(t, Order("exit", a)))
           /\ ~Useless(Placed(t, Order("exit", a)))
           /\ Placed(t, Order("exit", a)).fills = t.fills
<1> DEFINE x == Order("exit", a)
<1>1. x \in Orders /\ x.side = "exit" /\ x.amount = a
  BY OrderType
<1> HIDE DEF x
<1>2. Loose(Placed(t, x)) /\ SameLeg(t, Placed(t, x)) /\ Placed(t, x).orders = <<x>>
      /\ Placed(t, x).fills = t.fills
  BY <1>1, PlacedProps
<1>3. ~Useless(Placed(t, x))
  BY <1>2, NotEmpty DEF Useless
<1> QED
  BY <1>2, <1>3 DEF x

\* What becomes of it when the strategy adjusts it.
LEMMA AdjustedProps ==
    ASSUME NEW t, Loose(t), ~Useless(t), NEW r \in Adjusted(t)
    PROVE  Loose(r) /\ SameLeg(t, r) /\ ~Useless(r) /\ (t.fills > 0 => r.fills > 0)
<1>1. CASE r = t
  BY <1>1 DEF SameLeg
<1>2. CASE r \in Entered(t, 1)
  BY <1>2, EnteredProps
<1>3. ASSUME NEW a \in 1..t.held, r \in Exited(Placed(t, Order("exit", a)))
      PROVE  Loose(r) /\ SameLeg(t, r) /\ ~Useless(r) /\ (t.fills > 0 => r.fills > 0)
  <2> DEFINE p == Placed(t, Order("exit", a))
  <2>1. t.held \in Nat
    BY LooseFields
  <2>2. a \in Nat \ {0} /\ a <= t.held
    BY <2>1
  <2>3. Loose(p) /\ SameLeg(t, p) /\ ~Useless(p) /\ p.fills = t.fills
    BY <2>2, ExitPlaced
  <2>4. r \in Exited(p)
    BY <1>3
  <2> HIDE DEF p
  <2> QED
    BY <2>3, <2>4, ExitedProps DEF SameLeg
<1> QED
  BY <1>1, <1>2, <1>3 DEF Adjusted

\* What becomes of it when its exit is checked.
LEMMA CheckedProps ==
    ASSUME NEW t, Loose(t), ~Useless(t), NEW r \in Checked(t)
    PROVE  Loose(r) /\ SameLeg(t, r) /\ ~Useless(r)
<1>1. CASE r = t
  BY <1>1 DEF SameLeg
<1>2. ASSUME NEW a \in Adjusted(t), r \in IF Closed(a) THEN {a} ELSE {a, Placed(a, Order("exit", a.held))},
             t.held # 0
      PROVE  Loose(r) /\ SameLeg(t, r) /\ ~Useless(r)
  <2>0. t.fills > 0
    BY <1>2, LooseFields DEF Loose
  <2>1. Loose(a) /\ SameLeg(t, a) /\ ~Useless(a) /\ a.fills > 0
    BY <2>0, AdjustedProps
  <2>2. CASE r = a
    BY <2>1, <2>2
  <2>3. CASE ~Closed(a) /\ r = Placed(a, Order("exit", a.held))
    <3>1. a.held \in Nat \ {0} /\ a.held <= a.held
      BY <2>1, <2>3, LooseFields DEF Closed
    <3> QED
      BY <2>1, <2>3, <3>1, ExitPlaced DEF SameLeg
  <2> QED
    BY <1>2, <2>2, <2>3
<1> QED
  BY <1>1, <1>2 DEF Checked

\* What becomes of a trade in a row.
LEMMA OutcomeProps ==
    ASSUME NEW t, Tame(t), NEW r \in Outcomes(t)
    PROVE  Loose(r) /\ SameLeg(t, r) /\ ~Useless(r)
<1>0. PICK f \in Filled(t) : \E c \in Checked(f) : r \in Exited(c)
  BY DEF Outcomes
<1>1. PICK c \in Checked(f) : r \in Exited(c)
  BY <1>0
<1>2. Loose(f) /\ SameLeg(t, f) /\ ~Useless(f)
  BY FilledProps DEF Tame
<1>3. Loose(c) /\ SameLeg(f, c) /\ ~Useless(c)
  BY <1>2, CheckedProps
<1>4. Loose(r) /\ SameLeg(c, r) /\ ~Useless(r)
  BY <1>1, <1>3, ExitedProps
<1> QED
  BY <1>2, <1>3, <1>4 DEF SameLeg

---------------------------------------------------------------------------
(* The list of open trades.                                                *)

\* The list of open trades, each as the rows leave it, no two with the same number.
Book(s) ==
    /\ s \in Seq(Records)
    /\ \A n \in 1..Len(s) : Tame(s[n])
    /\ \A m, n \in 1..Len(s) : m # n => s[m].id # s[n].id

\* No two trades share a leg.
Legs(mode, s) ==
    \A m, n \in 1..Len(s) :
        m # n /\ s[m].pair = s[n].pair => mode = "hedge" /\ s[m].dir # s[n].dir

\* The places of the list are the numbers up to its length.
LEMMA BookLen ==
    ASSUME NEW s, Book(s)
    PROVE  /\ Len(s) \in Nat /\ DOMAIN s = 1..Len(s)
           /\ \A n \in 1..Len(s) : s[n] \in Records /\ s[n].id \in Nat \ {0}
BY LenProperties, ElementOfSeq, LooseFields DEF Book, Tame

\* The trade at one place changes.
LEMMA BookKept ==
    ASSUME NEW s, Book(s), NEW i \in 1..Len(s), NEW r, Tame(r), SameLeg(s[i], r)
    PROVE  LET u == ReplaceAt(s, i, r)
           IN  /\ Book(u) /\ Len(u) = Len(s)
               /\ \A n \in 1..Len(s) : SameLeg(s[n], u[n])
<1> DEFINE u == ReplaceAt(s, i, r)
<1>1. r \in Records
  BY DEF Tame, Loose
<1>2. u = [s EXCEPT ![i] = r]
  BY DEF ReplaceAt
<1>3. /\ u \in Seq(Records) /\ Len(u) = Len(s)
      /\ \A n \in 1..Len(s) : u[n] = IF n = i THEN r ELSE s[n]
  BY <1>1, <1>2, ExceptSeq DEF Book
<1> HIDE DEF u
<1>4. \A n \in 1..Len(s) : SameLeg(s[n], u[n]) /\ Tame(u[n])
  BY <1>3 DEF Book, SameLeg
<1>5. \A m, n \in 1..Len(s) : m # n => u[m].id # u[n].id
  BY <1>4 DEF Book, SameLeg
<1>6. Book(u)
  BY <1>3, <1>4, <1>5 DEF Book
<1> QED
  BY <1>3, <1>4, <1>6 DEF u

\* Trades keep their legs.
LEMMA LegsKept ==
    ASSUME NEW mode, NEW s, Legs(mode, s), NEW u, Len(u) = Len(s),
           \A n \in 1..Len(s) : SameLeg(s[n], u[n])
    PROVE  Legs(mode, u)
BY DEF Legs, SameLeg

\* A trade leaves the list.
LEMMA BookLess ==
    ASSUME NEW s, Book(s), NEW i \in 1..Len(s)
    PROVE  LET u == RemoveAt(s, i)
           IN  /\ Book(u) /\ Len(u) = Len(s) - 1
               /\ \A n \in 1..Len(u) : \E m \in 1..Len(s) : m # i /\ u[n] = s[m]
               /\ \A m \in 1..Len(s) : m # i => \E n \in 1..Len(u) : u[n] = s[m]
               /\ \A mode : Legs(mode, s) => Legs(mode, u)
<1> DEFINE u == RemoveAt(s, i)
           Was(n) == IF n < i THEN n ELSE n + 1
<1>1. Len(s) \in Nat
  BY BookLen
<1>2. /\ u \in Seq(Records) /\ Len(u) = Len(s) - 1
      /\ \A n \in 1..(Len(s) - 1) : u[n] = IF n < i THEN s[n] ELSE s[n + 1]
  BY RemoveAtProps DEF Book
<1> HIDE DEF u
<1>3. \A n \in 1..Len(u) : Was(n) \in 1..Len(s) /\ Was(n) # i /\ u[n] = s[Was(n)]
  BY <1>1, <1>2
<1>4. \A m, n \in 1..Len(u) : m # n => Was(m) # Was(n)
  BY <1>1, <1>2
<1>5. ASSUME NEW m \in 1..Len(s), m # i PROVE \E n \in 1..Len(u) : u[n] = s[m]
  <2> DEFINE n == IF m < i THEN m ELSE m - 1
  <2>1. n \in 1..Len(u) /\ Was(n) = m
    BY <1>1, <1>2, <1>5
  <2> HIDE DEF n
  <2> QED
    BY <1>3, <2>1
<1> HIDE DEF Was
<1>6. Book(u)
  BY <1>2, <1>3, <1>4 DEF Book
<1>7. ASSUME NEW mode, Legs(mode, s) PROVE Legs(mode, u)
  <2> SUFFICES ASSUME NEW m \in 1..Len(u), NEW n \in 1..Len(u), m # n, u[m].pair = u[n].pair
               PROVE  mode = "hedge" /\ u[m].dir # u[n].dir
    BY DEF Legs
  <2> QED
    BY <1>3, <1>4, <1>7 DEF Legs
<1>8. \A n \in 1..Len(u) : \E m \in 1..Len(s) : m # i /\ u[n] = s[m]
  BY <1>3
<1> QED
  BY <1>2, <1>5, <1>6, <1>7, <1>8 DEF u

\* A trade joins the list.
LEMMA BookMore ==
    ASSUME NEW s, Book(s), NEW t, Tame(t), \A n \in 1..Len(s) : s[n].id # t.id
    PROVE  LET u == Append(s, t)
           IN  /\ Book(u) /\ Len(u) = Len(s) + 1 /\ u[Len(s) + 1] = t
               /\ \A n \in 1..Len(s) : u[n] = s[n]
<1> DEFINE u == Append(s, t)
<1>1. t \in Records
  BY DEF Tame, Loose
<1>2. /\ u \in Seq(Records) /\ Len(u) = Len(s) + 1 /\ u[Len(s) + 1] = t
      /\ \A n \in 1..Len(s) : u[n] = s[n]
  BY <1>1, AppendProperties DEF Book
<1> HIDE DEF u
<1>3. Len(s) \in Nat
  BY BookLen
<1>4. \A n \in 1..Len(u) : n \in 1..Len(s) \/ n = Len(s) + 1
  BY <1>2, <1>3
<1>5. \A n \in 1..Len(u) : Tame(u[n])
  BY <1>2, <1>4 DEF Book
<1>6. ASSUME NEW m \in 1..Len(u), NEW n \in 1..Len(u), m # n PROVE u[m].id # u[n].id
  BY <1>2, <1>4, <1>6 DEF Book
<1>7. Book(u)
  BY <1>2, <1>5, <1>6 DEF Book
<1> QED
  BY <1>2, <1>7 DEF u

\* A trade on a free leg joins the list.
LEMMA LegsMore ==
    ASSUME NEW mode, NEW s, Book(s), Legs(mode, s), NEW t, NEW u, Len(u) = Len(s) + 1,
           u[Len(s) + 1] = t, \A n \in 1..Len(s) : u[n] = s[n],
           \A n \in 1..Len(s) : s[n].pair = t.pair => mode = "hedge" /\ s[n].dir # t.dir
    PROVE  Legs(mode, u)
<1>1. \A n \in 1..Len(u) : n \in 1..Len(s) \/ n = Len(s) + 1
  BY BookLen
<1> SUFFICES ASSUME NEW m \in 1..Len(u), NEW n \in 1..Len(u), m # n, u[m].pair = u[n].pair
             PROVE  mode = "hedge" /\ u[m].dir # u[n].dir
  BY DEF Legs
<1> QED
  BY <1>1 DEF Legs

\* Among one more number than there are trades, one is free.
LEMMA FreeId ==
    ASSUME NEW s, Book(s)
    PROVE  \E i \in 1..(Len(s) + 1) : \A n \in 1..Len(s) : s[n].id # i
<1> DEFINE f == [n \in 1..Len(s) |-> s[n].id]
           T == {f[n] : n \in 1..Len(s)}
<1>1. Len(s) \in Nat
  BY BookLen
<1> SUFFICES ASSUME 1..(Len(s) + 1) \subseteq T PROVE FALSE
  OBVIOUS
<1>2. f \in Surjection(1..Len(s), T)
  BY DEF Surjection
<1>3. IsFiniteSet(T) /\ Cardinality(T) <= Len(s)
  <2> HIDE DEF f, T
  <2>0. /\ IsFiniteSet(1..Len(s))
        /\ Cardinality(1..Len(s)) = IF 1 > Len(s) THEN 0 ELSE Len(s) - 1 + 1
    BY <1>1, FS_Interval
  <2>1. IsFiniteSet(1..Len(s)) /\ Cardinality(1..Len(s)) = Len(s)
    <3>1. (IF 1 > Len(s) THEN 0 ELSE Len(s) - 1 + 1) = Len(s)
      BY <1>1
    <3> QED
      BY <2>0, <3>1
  <2>2. IsFiniteSet(T) /\ Cardinality(T) <= Cardinality(1..Len(s))
    BY <1>2, <2>1, FS_Surjection
  <2> QED
    BY <2>1, <2>2
<1> HIDE DEF f, T
<1>4. Cardinality(1..(Len(s) + 1)) = Len(s) + 1
  BY <1>1, FS_Interval
<1>5. Cardinality(1..(Len(s) + 1)) <= Cardinality(T)
  BY <1>3, FS_Subset
<1>6. Cardinality(T) \in Nat
  BY <1>3, FS_CardinalityType
<1> QED
  BY <1>1, <1>3, <1>4, <1>5, <1>6

---------------------------------------------------------------------------
(* The backtest: the invariant.                                            *)

\* A trade whose orders grow old is the same trade.
LEMMA AgedTrade ==
    ASSUME NEW t, Tame(t)
    PROVE  LET u == [t EXCEPT !.orders = [m \in DOMAIN @ |-> [@[m] EXCEPT !.new = FALSE]]]
           IN  Tame(u) /\ SameLeg(t, u)
<1> DEFINE no == FALSE
           aged == [m \in 1..Len(t.orders) |-> [t.orders[m] EXCEPT !.new = no]]
           u == [t EXCEPT !.orders = [m \in DOMAIN @ |-> [@[m] EXCEPT !.new = FALSE]]]
<1>1. /\ t.held \in Nat /\ t.fills \in Nat /\ t.orders \in Seq(Orders)
      /\ Len(t.orders) \in Nat /\ DOMAIN t.orders = 1..Len(t.orders)
      /\ \A m \in 1..Len(t.orders) : t.orders[m] \in Orders
  BY LooseFields, LenProperties, ElementOfSeq DEF Tame
<1>2. u = [t EXCEPT !.orders = aged]
  <2>1. t \in Records
    BY DEF Tame, Loose
  <2> QED
    BY <1>1, <2>1 DEF Records
<1>3. no \in BOOLEAN
  OBVIOUS
<1> HIDE DEF no
<1>4. ASSUME NEW m \in 1..Len(t.orders)
      PROVE  /\ aged[m] \in Orders /\ aged[m].side = t.orders[m].side
             /\ aged[m].amount = t.orders[m].amount
  <2>1. t.orders[m] \in Orders /\ aged[m] = [t.orders[m] EXCEPT !.new = no]
    BY <1>1
  <2> HIDE DEF aged
  <2> QED
    BY <1>3, <2>1 DEF Orders
<1>5. aged \in Seq(Orders) /\ Len(aged) = Len(t.orders) /\ DOMAIN aged = 1..Len(t.orders)
  <2>1. aged \in [1..Len(t.orders) -> Orders]
    BY <1>4
  <2> HIDE DEF aged
  <2> QED
    BY <1>1, <2>1, SeqDef, LenProperties
<1> HIDE DEF aged, u
<1>6. u \in Records
  BY <1>2, <1>5 DEF Tame, Loose, Records
<1>7. u.orders = aged /\ u.held = t.held /\ u.fills = t.fills /\ SameLeg(t, u)
  BY <1>2 DEF Tame, Loose, Records, SameLeg
<1>8. \A o \in ToSet(aged) : o.side = "exit" => o.amount <= t.held
  <2>1. \A m \in 1..Len(t.orders) : t.orders[m] \in ToSet(t.orders)
    BY <1>1 DEF ToSet
  <2> QED
    BY <1>4, <1>5, <2>1 DEF ToSet, Tame, Loose
<1>9. aged = <<>> => t.orders = <<>>
  BY <1>1, <1>5, EmptySeq
<1> QED
  BY <1>5, <1>6, <1>7, <1>8, <1>9 DEF Tame, Loose, Useless, Closed, u

\* All trades change, and each keeps its leg.
LEMMA BookAll ==
    ASSUME NEW s, Book(s), NEW u, u = [n \in 1..Len(s) |-> u[n]],
           \A n \in 1..Len(s) : Tame(u[n]) /\ SameLeg(s[n], u[n])
    PROVE  Book(u) /\ Len(u) = Len(s)
<1>1. Len(s) \in Nat
  BY BookLen
<1>2. u \in [1..Len(s) -> Records]
  BY DEF Tame, Loose
<1>3. u \in Seq(Records) /\ Len(u) = Len(s)
  BY <1>1, <1>2, SeqDef, LenProperties
<1>4. \A m, n \in 1..Len(s) : m # n => u[m].id # u[n].id
  BY DEF Book, SameLeg
<1> QED
  BY <1>3, <1>4 DEF Book

---------------------------------------------------------------------------
(* The invariant. *)

\* The configuration and the bounds.
Setting ==
    /\ config.mode \in {"spot", "one_way", "hedge"}
    /\ config.pairs \in Seq(STRING) /\ config.pairs # <<>>
    /\ config.maxOpen \in Nat \ {0}
    /\ Mains \in Nat \ {0} /\ Details \in Nat

\* The types of the loop's own variables.
Shapes ==
    /\ config \in Configs
    /\ main \in 1..Mains /\ idx \in 0..(Rows - 1) /\ todo \in Seq(Names)
    /\ signals \in [Names -> Seq(Dirs)]
    /\ cached \in [Names -> 0..Details]
    /\ traded \subseteq Names
    /\ at \in [pc : {"row", "orders", "entries", "trades", "left", "done"},
               pair : Names, had : BOOLEAN, again : BOOLEAN, exiting : Dirs \cup {"none"},
               dirs : Seq(Dirs), left : Seq(Dirs), work : SUBSET Nat]
    /\ flat \in [Names -> 0..Rows]

\* Open trades are tame, on legs of their own, on the whitelist, counted and limited.
Listing ==
    /\ Book(open) /\ Legs(config.mode, open)
    /\ \A n \in 1..Len(open) : open[n].pair \in Names
    /\ count = Len(open) /\ count <= config.maxOpen

\* What is still to be walked are open trades of the pair, at the end of any pair.
Walks(where, pair, work, s) ==
    where \in {"orders", "trades", "left"} =>
        \A i \in work : \E n \in 1..Len(s) : s[n].id = i /\ (where # "left" => s[n].pair = pair)

\* It holds of the place in the loop.
Walk == Walks(at.pc, at.pair, at.work, open)

\* Where backtest_loop works on a pair.
Visit == {"orders", "entries", "trades"}

\* A pair that a row left without trade had one in this candle, and the row in hand either
\* began with no trade of the pair or is the one that left it.
Marks ==
    /\ at.pc \notin Visit => ~at.had
    /\ \A p \in Names : flat[p] # 0 => p \in traded /\ flat[p] <= idx + 1
    /\ at.pc \in Visit /\ at.had => at.pair \in traded
    /\ at.pc \in Visit /\ at.had /\ On(at.pair) = {} => flat[at.pair] = idx + 1
    /\ at.pc \in Visit /\ ~at.had => flat[at.pair] \in {0, idx + 1}

BacktestInv == Setting /\ Shapes /\ Listing /\ Walk /\ Marks

\* What depends on the configuration stays.
LEMMA Steady ==
    ASSUME config' = config
    PROVE  Names' = Names /\ Setting' = Setting /\ Idle' = Idle
BY DEF Names, Setting, Idle

\* The pairs of the whitelist.
LEMMA NamesProps ==
    ASSUME Setting
    PROVE  Names \subseteq STRING /\ config.pairs[1] \in Names /\ config.pairs \in Seq(Names)
<1>1. Len(config.pairs) \in Nat \ {0} /\ DOMAIN config.pairs = 1..Len(config.pairs)
  BY LenProperties, EmptySeq DEF Setting
<1>2. \A n \in 1..Len(config.pairs) : config.pairs[n] \in Names /\ config.pairs[n] \in STRING
  BY <1>1, ElementOfSeq DEF Names, ToSet, Setting
<1>3. config.pairs \in [1..Len(config.pairs) -> Names]
  BY <1>1, <1>2, LenProperties DEF Setting
<1>4. Names \subseteq STRING
  BY <1>1, <1>2 DEF Names, ToSet
<1> QED
  BY <1>1, <1>2, <1>3, <1>4, SeqDef

\* A candle has a row.
LEMMA RowsType == ASSUME Setting PROVE Rows \in Nat \ {0}
BY DEF Setting, Rows

\* The trade in hand.
LEMMA PlaceProps ==
    ASSUME BacktestInv, at.pc \in {"orders", "trades", "left"}, at.work # {}
    PROVE  /\ Place \in 1..Len(open) /\ Trade = open[Place] /\ Trade.id \in at.work
           /\ Tame(Trade) /\ Trade.pair \in Names
           /\ at.pc # "left" => Trade.pair = at.pair
<1>1. Len(open) \in Nat /\ DOMAIN open = 1..Len(open)
  BY BookLen DEF BacktestInv, Listing
<1>2. Due \in SUBSET Nat /\ Due # {}
  <2>1. PICK i \in at.work : \E n \in 1..Len(open) : open[n].id = i
    BY DEF BacktestInv, Walk, Walks
  <2> QED
    BY <1>1, <2>1 DEF Due
<1>3. Place \in Due
  BY <1>2, MinIn DEF Place
<1>4. Place \in 1..Len(open) /\ open[Place].id \in at.work
  BY <1>1, <1>3 DEF Due
<1>5. PICK n \in 1..Len(open) : open[n].id = open[Place].id /\ (at.pc # "left" => open[n].pair = at.pair)
  BY <1>4 DEF BacktestInv, Walk, Walks
<1>6. n = Place
  BY <1>4, <1>5 DEF BacktestInv, Listing, Book
<1> QED
  BY <1>4, <1>5, <1>6 DEF Trade, BacktestInv, Listing, Book

\* The places of the trades of a pair.
LEMMA OnIs == ASSUME Book(open), NEW p PROVE On(p) = {n \in 1..Len(open) : open[n].pair = p}
BY BookLen DEF On

---------------------------------------------------------------------------
(* The trade in hand is kept, or leaves.                                   *)

\* No pair joins the pairs with open trades.
PairsKept == \A n \in 1..Len(open') : \E m \in 1..Len(open) : open'[n].pair = open[m].pair

\* The trade in hand is kept, changed.
LEMMA KeepStep ==
    ASSUME BacktestInv, config' = config, at.pc \in {"orders", "trades", "left"}, at.work # {},
           NEW r, Tame(r), SameLeg(Trade, r), Keeping(r)
    PROVE  /\ Listing' /\ flat' = flat /\ Len(open') = Len(open)
           /\ \A n \in 1..Len(open) : open'[n].id = open[n].id /\ open'[n].pair = open[n].pair
<1>1. open' = ReplaceAt(open, Place, r) /\ count' = count /\ flat' = flat
  BY DEF Keeping
<1>2. Place \in 1..Len(open) /\ Trade = open[Place]
  BY PlaceProps
<1> DEFINE u == ReplaceAt(open, Place, r)
<1>3. /\ Book(u) /\ Len(u) = Len(open)
      /\ \A n \in 1..Len(open) : SameLeg(open[n], u[n])
  BY <1>2, BookKept DEF BacktestInv, Listing
<1> HIDE DEF u
<1>4. Legs(config.mode, u)
  BY <1>3, LegsKept DEF BacktestInv, Listing
<1>5. u = open'
  BY <1>1 DEF u
<1>6. \A n \in 1..Len(u) : u[n].pair \in Names'
  BY <1>3, Steady DEF BacktestInv, Listing, SameLeg
<1>7. count' = Len(u) /\ count' <= config'.maxOpen
  BY <1>1, <1>3 DEF BacktestInv, Listing
<1>8. Listing'
  BY <1>3, <1>4, <1>5, <1>6, <1>7 DEF Listing
<1> QED
  BY <1>1, <1>3, <1>5, <1>8 DEF SameLeg

\* The trade in hand leaves the list.
LEMMA LeaveStep ==
    ASSUME BacktestInv, config' = config, at.pc \in {"orders", "trades", "left"}, at.work # {},
           NEW r, SameLeg(Trade, r), Leaving(r)
    PROVE  /\ Listing' /\ PairsKept
           /\ \A m \in 1..Len(open) : m # Place => \E n \in 1..Len(open') : open'[n] = open[m]
<1>1. open' = RemoveAt(open, Place) /\ count' = count - 1
  BY DEF Leaving
<1>2. Place \in 1..Len(open)
  BY PlaceProps
<1> DEFINE u == RemoveAt(open, Place)
<1>3. /\ Book(u) /\ Len(u) = Len(open) - 1
      /\ \A n \in 1..Len(u) : \E m \in 1..Len(open) : m # Place /\ u[n] = open[m]
      /\ \A m \in 1..Len(open) : m # Place => \E n \in 1..Len(u) : u[n] = open[m]
      /\ \A mode : Legs(mode, open) => Legs(mode, u)
  BY <1>2, BookLess DEF BacktestInv, Listing
<1> HIDE DEF u
<1>4. Legs(config.mode, u)
  BY <1>3 DEF BacktestInv, Listing
<1>5. u = open'
  BY <1>1 DEF u
<1>6. \A n \in 1..Len(u) : u[n].pair \in Names'
  BY <1>3, Steady DEF BacktestInv, Listing
<1>7. count' = Len(u) /\ count' <= config'.maxOpen
  <2>1. Len(open) \in Nat /\ count = Len(open) /\ count <= config.maxOpen /\ config.maxOpen \in Nat
    BY BookLen DEF BacktestInv, Listing, Setting
  <2>2. count' = Len(open) - 1
    BY <1>1, <2>1
  <2> HIDE <1>4
  <2>3. count' <= config.maxOpen
    BY <2>1, <2>2
  <2> QED
    BY <1>3, <2>2, <2>3
<1>8. Listing'
  BY <1>3, <1>4, <1>5, <1>6, <1>7 DEF Listing
<1> QED
  BY <1>3, <1>5, <1>8 DEF PairsKept

\* A trade is taken up, and is kept or leaves.
LEMMA TradeStep ==
    ASSUME BacktestInv, UNCHANGED <<config, candle>>,
           at.pc \in {"orders", "trades", "left"}, at.work # {},
           at' = [at EXCEPT !.work = at.work \ {Trade.id}],
           NEW r, SameLeg(Trade, r), (Tame(r) /\ Keeping(r)) \/ Leaving(r)
    PROVE  BacktestInv' /\ PairsKept
<1>0. /\ config' = config /\ main' = main /\ idx' = idx /\ todo' = todo
      /\ signals' = signals /\ cached' = cached /\ traded' = traded
  BY DEF candle
<1>1. Names' = Names /\ Setting'
  BY <1>0, Steady DEF BacktestInv
<1>2. /\ at'.pc = at.pc /\ at'.pair = at.pair /\ at'.had = at.had
      /\ at'.work = at.work \ {Trade.id}
      /\ at' \in [pc : {"row", "orders", "entries", "trades", "left", "done"},
                  pair : Names, had : BOOLEAN, again : BOOLEAN, exiting : Dirs \cup {"none"},
                  dirs : Seq(Dirs), left : Seq(Dirs), work : SUBSET Nat]
  <2>1. at \in [pc : {"row", "orders", "entries", "trades", "left", "done"},
                pair : Names, had : BOOLEAN, again : BOOLEAN, exiting : Dirs \cup {"none"},
                dirs : Seq(Dirs), left : Seq(Dirs), work : SUBSET Nat]
    BY DEF BacktestInv, Shapes
  <2> QED
    BY <2>1
<1>3. /\ Place \in 1..Len(open) /\ Trade = open[Place] /\ Trade.id \in at.work
      /\ Trade.pair \in Names /\ (at.pc # "left" => Trade.pair = at.pair)
  BY PlaceProps
<1>4. r.pair = Trade.pair
  BY DEF SameLeg
<1>5. idx \in 0..(Rows - 1) /\ Rows \in Nat \ {0} /\ flat \in [Names -> 0..Rows] /\ at.pair \in Names
      /\ Rows' = Rows
  BY RowsType DEF BacktestInv, Shapes, Rows
<1>6. ASSUME flat' \in [Names -> 0..Rows] PROVE Shapes'
  BY <1>0, <1>1, <1>2, <1>5, <1>6 DEF BacktestInv, Shapes
<1>7. CASE Tame(r) /\ Keeping(r)
  <2>1. /\ Listing' /\ flat' = flat /\ Len(open') = Len(open)
        /\ \A n \in 1..Len(open) : open'[n].id = open[n].id /\ open'[n].pair = open[n].pair
    BY <1>0, <1>7, KeepStep
  <2>a. PairsKept
    BY <2>1 DEF PairsKept
  <2>2. Walk'
    BY <1>2, <2>1 DEF BacktestInv, Walk, Walks
  <2>3. On(at.pair) = {} <=> On(at.pair)' = {}
    <3>1. On(at.pair) = {n \in 1..Len(open) : open[n].pair = at.pair}
      BY OnIs DEF BacktestInv, Listing
    <3>2. DOMAIN open' = 1..Len(open')
      BY <2>1, BookLen DEF Listing
    <3>3. On(at.pair)' = {n \in 1..Len(open') : open'[n].pair = at'.pair}
      BY <3>2 DEF On
    <3> QED
      BY <1>2, <2>1, <3>1, <3>3
  <2>4. Marks'
    BY <1>0, <1>1, <1>2, <2>1, <2>3 DEF BacktestInv, Marks, Visit
  <2> QED
    BY <1>1, <1>5, <1>6, <2>1, <2>2, <2>4, <2>a DEF BacktestInv
<1>8. CASE Leaving(r)
  <2>1. /\ Listing' /\ PairsKept
        /\ \A m \in 1..Len(open) : m # Place => \E n \in 1..Len(open') : open'[n] = open[m]
    BY <1>0, <1>8, LeaveStep
  <2>2. Walk'
    <3> SUFFICES ASSUME at.pc \in {"orders", "trades", "left"}, NEW i \in at.work \ {Trade.id}
                 PROVE  \E n \in 1..Len(open') : open'[n].id = i /\ (at.pc # "left" => open'[n].pair = at.pair)
      BY <1>2 DEF Walk, Walks
    <3>1. PICK m \in 1..Len(open) : open[m].id = i /\ (at.pc # "left" => open[m].pair = at.pair)
      BY DEF BacktestInv, Walk, Walks
    <3>2. m # Place
      BY <1>3, <3>1
    <3> QED
      BY <2>1, <3>1, <3>2
  <2>3. /\ flat' = IF at.had /\ On(Trade.pair) = {Place}
                   THEN [flat EXCEPT ![Trade.pair] = idx + 1] ELSE flat
    BY <1>4, <1>8 DEF Leaving
  <2>4. at.had => at.pc \in Visit /\ Trade.pair = at.pair
    BY <1>3 DEF BacktestInv, Marks, Visit
  <2>5. flat' \in [Names -> 0..Rows]
    BY <1>3, <1>5, <2>3
  <2>6. On(at.pair)' = {} /\ at.pc # "left" => On(at.pair) = {Place}
    <3> SUFFICES ASSUME On(at.pair)' = {}, at.pc # "left" PROVE On(at.pair) = {Place}
      OBVIOUS
    <3>1. On(at.pair) = {n \in 1..Len(open) : open[n].pair = at.pair}
      BY OnIs DEF BacktestInv, Listing
    <3>2. DOMAIN open' = 1..Len(open')
      BY <2>1, BookLen DEF Listing
    <3>3. On(at.pair)' = {n \in 1..Len(open') : open'[n].pair = at'.pair}
      BY <3>2 DEF On
    <3>4. Place \in On(at.pair)
      BY <1>3, <3>1
    <3>5. ASSUME NEW m \in On(at.pair), m # Place PROVE FALSE
      BY <1>2, <2>1, <3>1, <3>3, <3>5
    <3> QED
      BY <3>4, <3>5
  <2>7. Marks'
    <3>1. ASSUME NEW p \in Names, flat'[p] # 0 PROVE p \in traded /\ flat'[p] <= idx + 1
      BY <1>3, <1>5, <2>3, <2>4, <3>1 DEF BacktestInv, Marks, Visit
    <3>2. at.pc \in Visit /\ at.had /\ On(at.pair)' = {} => flat'[at.pair] = idx + 1
      BY <1>5, <2>3, <2>4, <2>6 DEF Visit
    <3>3. at.pc \in Visit /\ ~at.had => flat'[at.pair] \in {0, idx + 1}
      BY <2>3 DEF BacktestInv, Marks
    <3>4. (at.pc \notin Visit => ~at.had) /\ (at.pc \in Visit /\ at.had => at.pair \in traded)
      BY DEF BacktestInv, Marks
    <3> QED
      BY <1>0, <1>1, <1>2, <3>1, <3>2, <3>3, <3>4 DEF Marks
  <2> QED
    BY <1>1, <1>6, <2>1, <2>2, <2>5, <2>7 DEF BacktestInv
<1> QED
  BY <1>7, <1>8

---------------------------------------------------------------------------
(* The pairs to visit: a fold over a list.                                 *)

\* The last of a set of positions is one of them.
LEMMA MaxIn ==
    ASSUME NEW n \in Nat, NEW T \in SUBSET (1..n), T # {}
    PROVE  Max(T) \in T /\ \A y \in T : y <= Max(T)
<1> DEFINE U == {u \in Nat : \A y \in T : y <= u}
<1>1. PICK u \in U : \A v \in U : u <= v
  <2>1. n \in U
    OBVIOUS
  <2>2. U \in SUBSET Nat /\ U # {}
    BY <2>1
  <2> HIDE DEF U
  <2> QED
    BY <2>2, LeastElement
<1>2. u \in T
  <2> SUFFICES ASSUME u \notin T PROVE FALSE
    OBVIOUS
  <2>1. \A y \in T : y \in Nat \ {0} /\ y <= u /\ y # u
    BY <1>1
  <2>a. u \in Nat /\ u # 0
    <3>1. PICK y \in T : TRUE
      OBVIOUS
    <3> QED
      BY <1>1, <2>1, <3>1
  <2>2. u - 1 \in Nat /\ \A y \in T : y <= u - 1
    BY <2>1, <2>a
  <2>3. u - 1 \in U
    BY <2>2
  <2>4. u <= u - 1
    BY <1>1, <2>3
  <2> QED
    BY <2>a, <2>4
<1>3. \A y \in T : y <= u /\ y \in Nat /\ u \in Nat
  BY <1>1
<1>4. \E x \in T : \A y \in T : x >= y
  BY <1>2, <1>3
<1>5. Max(T) \in T /\ \A y \in T : Max(T) >= y
  BY <1>4 DEF Max
<1> QED
  BY <1>5

\* Induction up to a number.
LEMMA Induction ==
    ASSUME NEW N \in Nat, NEW T \in SUBSET (0..N), 0 \in T,
           \A n \in 1..N : n - 1 \in T => n \in T
    PROVE  T = 0..N
<1> DEFINE Rest == (0..N) \ T
<1> SUFFICES ASSUME Rest # {} PROVE FALSE
  OBVIOUS
<1>1. PICK n \in Rest : \A y \in Rest : n <= y
  <2>1. Rest \in SUBSET Nat
    OBVIOUS
  <2> HIDE DEF Rest
  <2>2. QED
    BY <2>1, LeastElement
<1>2. n \in 1..N
  BY <1>1
<1>3. n - 1 \in T
  BY <1>1, <1>2
<1> QED
  BY <1>1, <1>2, <1>3

\* What a fold over the positions 1..n, last position outermost, is defined to be.
Folds(g, n, init, F) ==
    \A s \in SUBSET (1..n) : g[s] = IF s = {} THEN init ELSE F[Max(s)][g[s \ {Max(s)}]]

\* A function that satisfies the definition of the fold exists.
LEMMA FoldExists ==
    ASSUME NEW n \in Nat, NEW V, NEW init \in V, NEW F \in [1..n -> [V -> V]]
    PROVE  \E g \in [SUBSET (1..n) -> V] : Folds(g, n, init, F)
<1> DEFINE T == {k \in 0..n : \E g \in [SUBSET (1..k) -> V] : Folds(g, k, init, F)}
<1>1. 0 \in T
  <2> DEFINE g == [s \in SUBSET (1..0) |-> init]
  <2>1. 1..0 = {}
    OBVIOUS
  <2>2. g \in [SUBSET (1..0) -> V] /\ \A s \in SUBSET (1..0) : s = {} /\ g[s] = init
    BY <2>1
  <2> HIDE DEF g
  <2>3. Folds(g, 0, init, F)
    BY <2>2 DEF Folds
  <2> QED
    BY <2>2, <2>3
<1>2. ASSUME NEW k \in 1..n, k - 1 \in T PROVE k \in T
  <2>1. PICK g \in [SUBSET (1..(k - 1)) -> V] : Folds(g, k - 1, init, F)
    BY <1>2
  <2>b. k \in Nat
    OBVIOUS
  <2> DEFINE h == [s \in SUBSET (1..k) |-> IF k \in s THEN F[k][g[s \ {k}]] ELSE g[s]]
  <2>2. \A s \in SUBSET (1..k) : s \ {k} \in SUBSET (1..(k - 1))
    OBVIOUS
  <2>3. \A s \in SUBSET (1..k) : h[s] = IF k \in s THEN F[k][g[s \ {k}]] ELSE g[s]
    OBVIOUS
  <2>4. h \in [SUBSET (1..k) -> V]
    <3>1. ASSUME NEW s \in SUBSET (1..k) PROVE (IF k \in s THEN F[k][g[s \ {k}]] ELSE g[s]) \in V
      <4>1. g[s \ {k}] \in V
        BY <2>2
      <4>2. F[k] \in [V -> V]
        OBVIOUS
      <4>3. k \notin s => s = s \ {k}
        OBVIOUS
      <4> QED
        BY <4>1, <4>2, <4>3
    <3> QED
      BY <3>1
  <2> HIDE DEF h
  <2>5. ASSUME NEW s \in SUBSET (1..k)
        PROVE  h[s] = IF s = {} THEN init ELSE F[Max(s)][h[s \ {Max(s)}]]
    <3>1. CASE k \in s
      <4>1. Max(s) \in s /\ \A y \in s : y <= Max(s)
        BY <2>b, <3>1, MaxIn
      <4>2. Max(s) = k
        <5>1. Max(s) \in 1..k /\ k <= Max(s)
          BY <3>1, <4>1
        <5> QED
          BY <5>1
      <4>3. h[s \ {k}] = g[s \ {k}]
        BY <2>2, <2>3
      <4> QED
        BY <2>3, <3>1, <4>2, <4>3
    <3>2. CASE k \notin s /\ s # {}
      <4>1. s \in SUBSET (1..(k - 1))
        BY <3>2
      <4>2. Max(s) \in s
        BY <2>b, <3>2, MaxIn
      <4>3. g[s] = F[Max(s)][g[s \ {Max(s)}]]
        BY <2>1, <3>2, <4>1 DEF Folds
      <4>4. h[s] = g[s]
        BY <2>3, <3>2
      <4>5. h[s \ {Max(s)}] = g[s \ {Max(s)}]
        <5>1. s \ {Max(s)} \in SUBSET (1..k) /\ k \notin s \ {Max(s)}
          BY <3>2
        <5> QED
          BY <2>3, <5>1
      <4> QED
        BY <3>2, <4>3, <4>4, <4>5
    <3>3. CASE s = {}
      <4>1. {} \in SUBSET (1..(k - 1)) /\ g[{}] = init
        BY <2>1 DEF Folds
      <4>2. h[s] = g[s]
        BY <2>3, <3>3
      <4> QED
        BY <3>3, <4>1, <4>2
    <3> QED
      BY <3>1, <3>2, <3>3
  <2>6. Folds(h, k, init, F)
    BY <2>5 DEF Folds
  <2> QED
    BY <2>4, <2>6
<1>3. T = 0..n
  <2>1. T \in SUBSET (0..n)
    OBVIOUS
  <2> HIDE DEF T
  <2> QED
    BY <1>1, <1>2, <2>1, Induction
<1>4. n \in T
  <2> HIDE DEF T
  <2> QED
    BY <1>3
<1> QED
  BY <1>4

\* Its values are of the type of its base.
LEMMA FoldIn ==
    ASSUME NEW n \in Nat, NEW V, NEW g, g[{}] \in V,
           \A s \in SUBSET (1..n) : s # {} /\ g[s \ {Max(s)}] \in V => g[s] \in V
    PROVE  g[1..n] \in V
<1> DEFINE T == {k \in 0..n : \A s \in SUBSET (1..k) : g[s] \in V}
<1>1. 0 \in T
  <2>1. \A s \in SUBSET (1..0) : s = {}
    OBVIOUS
  <2>2. \A s \in SUBSET (1..0) : g[s] \in V
    BY <2>1
  <2>3. 0 \in 0..n
    OBVIOUS
  <2> QED
    BY <2>2, <2>3, Zenon
<1>2. ASSUME NEW k \in 1..n, k - 1 \in T PROVE k \in T
  <2>b. k \in Nat
    OBVIOUS
  <2>1. ASSUME NEW s \in SUBSET (1..k) PROVE g[s] \in V
    <3>1. s \in SUBSET (1..n)
      OBVIOUS
    <3>2. CASE s = {}
      BY <3>2
    <3>3. CASE s # {}
      <4>1. Max(s) \in s /\ \A y \in s : y <= Max(s)
        BY <2>b, <3>3, MaxIn
      <4>2. \A y \in s \ {Max(s)} : y \in 1..(k - 1)
        <5>1. Max(s) \in 1..k /\ \A y \in s : y \in 1..k /\ y <= Max(s)
          BY <4>1
        <5> QED
          BY <5>1
      <4>3. s \ {Max(s)} \in SUBSET (1..(k - 1))
        BY <4>2
      <4>4. g[s \ {Max(s)}] \in V
        BY <1>2, <4>3
      <4> QED
        BY <3>1, <3>3, <4>4
    <3> QED
      BY <3>2, <3>3
  <2> QED
    BY <2>1
<1>3. T = 0..n
  <2>1. T \in SUBSET (0..n)
    OBVIOUS
  <2> HIDE DEF T
  <2> QED
    BY <1>1, <1>2, <2>1, Induction
<1>4. n \in T
  <2> HIDE DEF T
  <2> QED
    BY <1>3
<1> QED
  BY <1>4

\* Pairs are visited once each, in the order they are found.
LEMMA FoldVisits ==
    ASSUME NEW N, NEW all \in Seq(N)
    PROVE  FoldLeft(LAMBDA s, p : IF Contains(s, p) THEN s ELSE Append(s, p), <<>>, all) \in Seq(N)
<1> DEFINE n == Len(all)
           V == Seq(N)
           Upon(v, p) == IF Contains(v, p) THEN v ELSE Append(v, p)
           F == [x \in 1..n |-> [v \in V |-> Upon(v, all[x])]]
           P(g) == g = [s \in SUBSET (DOMAIN all) |->
                          IF s = {} THEN <<>>
                          ELSE LET x == Max(s) IN Upon(g[s \ {x}], all[x])]
           it == CHOOSE g : P(g)
<1>1. n \in Nat /\ DOMAIN all = 1..n /\ \A x \in 1..n : all[x] \in N
  BY LenProperties, ElementOfSeq
<1>2. <<>> \in V
  OBVIOUS
<1>3. \A x \in 1..n : \A v \in V : Upon(v, all[x]) \in V
  BY <1>1, AppendProperties
<1>4. F \in [1..n -> [V -> V]] /\ \A x \in 1..n : \A v \in V : F[x][v] = Upon(v, all[x])
  BY <1>3
<1>5. FoldLeft(LAMBDA s, p : IF Contains(s, p) THEN s ELSE Append(s, p), <<>>, all) = it[1..n]
  BY <1>1, Zenon DEF FoldLeft, MapThenFoldSet
<1> HIDE DEF n, V, F
<1>6. \E g : P(g)
  <2>1. PICK g \in [SUBSET (1..n) -> V] : Folds(g, n, <<>>, F)
    BY <1>1, <1>2, <1>4, FoldExists
  <2>2. ASSUME NEW s \in SUBSET (1..n), s # {}
        PROVE  F[Max(s)][g[s \ {Max(s)}]] = Upon(g[s \ {Max(s)}], all[Max(s)])
    <3>1. Max(s) \in s
      BY <1>1, <2>2, MaxIn
    <3>2. Max(s) \in 1..n /\ s \ {Max(s)} \in SUBSET (1..n)
      BY <3>1
    <3>3. g[s \ {Max(s)}] \in V
      BY <3>2
    <3> HIDE DEF Upon
    <3> QED
      BY <1>4, <3>2, <3>3
  <2> HIDE DEF Upon
  <2>3. g = [s \in SUBSET (1..n) |-> IF s = {} THEN <<>> ELSE Upon(g[s \ {Max(s)}], all[Max(s)])]
    <3>1. \A s \in SUBSET (1..n) :
             g[s] = IF s = {} THEN <<>> ELSE Upon(g[s \ {Max(s)}], all[Max(s)])
      BY <2>1, <2>2 DEF Folds
    <3> QED
      BY <3>1
  <2>4. P(g)
    BY <1>1, <2>3
  <2> QED
    BY <2>4
<1>7. P(it)
  <2> HIDE DEF P
  <2> QED
    BY <1>6
<1>8. \A s \in SUBSET (1..n) :
         it[s] = IF s = {} THEN <<>> ELSE Upon(it[s \ {Max(s)}], all[Max(s)])
  <2> HIDE DEF it, Upon
  <2> QED
    BY <1>1, <1>7
<1>9. it[{}] \in V
  <2> HIDE DEF it
  <2>1. {} \in SUBSET (1..n)
    OBVIOUS
  <2> QED
    BY <1>2, <1>8, <2>1
<1>10. ASSUME NEW s \in SUBSET (1..n), s # {}, it[s \ {Max(s)}] \in V PROVE it[s] \in V
  <2>1. Max(s) \in 1..n
    BY <1>1, <1>10, MaxIn
  <2> HIDE DEF it, Upon
  <2> QED
    BY <1>3, <1>8, <1>10, <2>1
<1>11. it[1..n] \in V
  <2> HIDE DEF it
  <2> QED
    BY <1>1, <1>9, <1>10, FoldIn
<1> QED
  BY <1>5, <1>11 DEF V

---------------------------------------------------------------------------
(* A visit begins.                                                         *)

\* The pairs to visit are on the whitelist.
LEMMA VisitsType ==
    ASSUME Setting, Listing
    PROVE  Visits \in Seq(Names)
<1> DEFINE pairs == [n \in DOMAIN open |-> open[n].pair]
           all == pairs \o config.pairs
<1>1. Len(open) \in Nat /\ DOMAIN open = 1..Len(open) /\ \A n \in 1..Len(open) : open[n].pair \in Names
  BY BookLen DEF Listing
<1>2. pairs \in Seq(Names)
  <2>1. pairs \in [1..Len(open) -> Names]
    BY <1>1
  <2> HIDE DEF pairs
  <2> QED
    BY <1>1, <2>1, SeqDef
<1>3. all \in Seq(Names)
  <2> HIDE DEF pairs
  <2> QED
    BY <1>2, NamesProps, ConcatProperties
<1>4. Visits = FoldLeft(LAMBDA s, p : IF Contains(s, p) THEN s ELSE Append(s, p), <<>>, all)
  BY Zenon DEF Visits
<1> HIDE DEF all
<1> QED
  BY <1>3, <1>4, FoldVisits

\* Head and tail of a list.
LEMMA SomeType ==
    ASSUME NEW S, NEW s \in Seq(S), s # <<>>
    PROVE  Head(s) \in S /\ Tail(s) \in Seq(S)
BY HeadTailProperties, ElementOfSeq, LenProperties, EmptySeq

\* The record a visit begins with.
LEMMA BeganProps ==
    ASSUME BacktestInv, NEW p \in Names, NEW dirs \in Seq(Dirs), NEW again \in BOOLEAN
    PROVE  LET b == Began(p, dirs, again)
           IN  /\ b \in [pc : {"row", "orders", "entries", "trades", "left", "done"},
                         pair : Names, had : BOOLEAN, again : BOOLEAN, exiting : Dirs \cup {"none"},
                         dirs : Seq(Dirs), left : Seq(Dirs), work : SUBSET Nat]
               /\ b.pc = "orders" /\ b.pair = p /\ b.work = Ids(On(p))
               /\ b.had <=> IF again THEN at.had ELSE On(p) # {}
<1>1. On(p) = {n \in 1..Len(open) : open[n].pair = p} /\ Len(open) \in Nat
  BY OnIs, BookLen DEF BacktestInv, Listing
<1> DEFINE had == IF again THEN at.had ELSE On(p) # {}
           exiting == IF config.mode = "hedge" \/ On(p) = {} THEN "none" ELSE open[Min(On(p))].dir
           work == Ids(On(p))
<1>2. had \in BOOLEAN
  BY DEF BacktestInv, Shapes
<1>3. exiting \in Dirs \cup {"none"}
  <2>1. CASE On(p) # {}
    <3>1. Min(On(p)) \in On(p)
      <4>1. On(p) \in SUBSET Nat
        BY <1>1
      <4> QED
        BY <2>1, <4>1, MinIn
    <3>2. open[Min(On(p))].dir \in Dirs
      BY <1>1, <3>1, LooseFields DEF BacktestInv, Listing, Book, Tame
    <3> QED
      BY <3>2
  <2> QED
    BY <2>1
<1>4. work \in SUBSET Nat
  BY <1>1, BookLen DEF Ids, BacktestInv, Listing
<1>5. Began(p, dirs, again) = [pc |-> "orders", pair |-> p, had |-> had, again |-> again,
                               dirs |-> dirs, left |-> dirs, exiting |-> exiting, work |-> work]
  BY DEF Began
<1> HIDE DEF had, exiting, work
<1>6. /\ Began(p, dirs, again) \in [pc : {"row", "orders", "entries", "trades", "left", "done"},
                         pair : Names, had : BOOLEAN, again : BOOLEAN, exiting : Dirs \cup {"none"},
                         dirs : Seq(Dirs), left : Seq(Dirs), work : SUBSET Nat]
      /\ Began(p, dirs, again).pc = "orders" /\ Began(p, dirs, again).pair = p
      /\ Began(p, dirs, again).work = work
  BY <1>2, <1>3, <1>4, <1>5
<1>7. Began(p, dirs, again).had = had
  BY <1>5
<1> QED
  BY <1>6, <1>7, Zenon DEF work, had

\* The numbers of the trades of a pair are those of open trades of the pair.
LEMMA WalksOn ==
    ASSUME Book(open), NEW p
    PROVE  Walks("orders", p, Ids(On(p)), open) /\ Walks("trades", p, Ids(On(p)), open)
           /\ Walks("left", p, Ids(DOMAIN open), open)
<1>1. On(p) = {n \in 1..Len(open) : open[n].pair = p} /\ DOMAIN open = 1..Len(open)
  BY OnIs, BookLen
<1> QED
  BY <1>1 DEF Walks, Ids

\* Orders grow old: the list keeps its properties.
LEMMA AgedStep ==
    ASSUME BacktestInv, config' = config, NEW p, open' = Aged(p), count' = count
    PROVE  /\ Listing' /\ Len(open') = Len(open)
           /\ \A n \in 1..Len(open) : open'[n].id = open[n].id /\ open'[n].pair = open[n].pair
<1> DEFINE u == Aged(p)
<1>1. Len(open) \in Nat /\ DOMAIN open = 1..Len(open)
  BY BookLen DEF BacktestInv, Listing
<1>2. /\ u = [n \in 1..Len(open) |-> u[n]]
      /\ \A n \in 1..Len(open) :
            u[n] = IF open[n].pair # p THEN open[n]
                   ELSE [open[n] EXCEPT !.orders = [m \in DOMAIN @ |-> [@[m] EXCEPT !.new = FALSE]]]
  BY <1>1 DEF Aged
<1>3. ASSUME NEW n \in 1..Len(open) PROVE Tame(u[n]) /\ SameLeg(open[n], u[n])
  <2>1. Tame(open[n])
    BY DEF BacktestInv, Listing, Book
  <2>2. CASE open[n].pair # p
    <3>1. u[n] = open[n]
      BY <1>2, <2>2
    <3> HIDE DEF u
    <3> QED
      BY <2>1, <3>1 DEF SameLeg
  <2>3. CASE open[n].pair = p
    <3> DEFINE v == [open[n] EXCEPT !.orders = [m \in DOMAIN @ |-> [@[m] EXCEPT !.new = FALSE]]]
    <3>1. u[n] = v
      BY <1>2, <2>3
    <3>2. Tame(v) /\ SameLeg(open[n], v)
      BY <2>1, AgedTrade
    <3> HIDE DEF u, v
    <3> QED
      BY <3>1, <3>2
  <2> QED
    BY <2>2, <2>3
<1> HIDE DEF u
<1>4. Book(u) /\ Len(u) = Len(open)
  BY <1>2, <1>3, BookAll DEF BacktestInv, Listing
<1>5. Legs(config.mode, u)
  BY <1>3, <1>4, LegsKept DEF BacktestInv, Listing
<1>6. u = open'
  BY DEF u
<1>7. \A n \in 1..Len(u) : u[n].pair \in Names'
  BY <1>3, <1>4, Steady DEF BacktestInv, Listing, SameLeg
<1>8. count' = Len(u) /\ count' <= config'.maxOpen
  BY <1>4 DEF BacktestInv, Listing
<1>9. Listing'
  BY <1>4, <1>5, <1>6, <1>7, <1>8 DEF Listing
<1> QED
  BY <1>3, <1>4, <1>6, <1>9 DEF SameLeg

\* A pair is visited in a row.
LEMMA RowStart ==
    ASSUME BacktestInv, NEW p, p = Head(todo), todo # <<>>, at.pc = "row",
           NEW dirs \in Seq(Dirs), at' = Began(p, dirs, FALSE), open' = Aged(p),
           traded' = TradedWith(p), todo' = Tail(todo),
           UNCHANGED <<config, main, idx, count, flat>>,
           signals' \in [Names -> Seq(Dirs)], cached' \in [Names -> 0..Details],
           idx = 0 \/ ~Skipped(p)
    PROVE  BacktestInv' /\ PairsKept
<1>0. /\ config' = config /\ main' = main /\ idx' = idx /\ count' = count /\ flat' = flat
  OBVIOUS
<1>1. Names' = Names /\ Setting'
  BY <1>0, Steady DEF BacktestInv
<1>2. p \in Names /\ Tail(todo) \in Seq(Names)
  BY SomeType DEF BacktestInv, Shapes
<1>3. /\ at' \in [pc : {"row", "orders", "entries", "trades", "left", "done"},
                  pair : Names, had : BOOLEAN, again : BOOLEAN, exiting : Dirs \cup {"none"},
                  dirs : Seq(Dirs), left : Seq(Dirs), work : SUBSET Nat]
      /\ at'.pc = "orders" /\ at'.pair = p /\ at'.work = Ids(On(p))
      /\ at'.had <=> On(p) # {}
  <2> DEFINE no == FALSE
  <2>1. no \in BOOLEAN /\ ~no
    OBVIOUS
  <2>2. at' = Began(p, dirs, no)
    OBVIOUS
  <2> HIDE DEF no
  <2> DEFINE b == Began(p, dirs, no)
  <2>3. /\ b \in [pc : {"row", "orders", "entries", "trades", "left", "done"},
                  pair : Names, had : BOOLEAN, again : BOOLEAN, exiting : Dirs \cup {"none"},
                  dirs : Seq(Dirs), left : Seq(Dirs), work : SUBSET Nat]
        /\ b.pc = "orders" /\ b.pair = p /\ b.work = Ids(On(p))
        /\ b.had <=> IF no THEN at.had ELSE On(p) # {}
    BY <1>2, <2>1, BeganProps
  <2>4. at' = b
    BY <2>2
  <2> HIDE DEF b
  <2> QED
    BY <2>1, <2>3, <2>4
<1>4. /\ Listing' /\ Len(open') = Len(open)
      /\ \A n \in 1..Len(open) : open'[n].id = open[n].id /\ open'[n].pair = open[n].pair
  BY <1>0, AgedStep
<1>5. traded' \subseteq Names /\ traded \subseteq traded' /\ (On(p) # {} => p \in traded')
  BY <1>2 DEF TradedWith, BacktestInv, Shapes
<1>6. Shapes'
  BY <1>0, <1>1, <1>2, <1>3, <1>5 DEF BacktestInv, Shapes, Rows
<1>7. Walk'
  <2>1. Walks("orders", p, Ids(On(p)), open)
    BY WalksOn DEF BacktestInv, Listing
  <2>2. Walks("orders", p, Ids(On(p)), open')
    <3>1. \A i \in Ids(On(p)) : \E n \in 1..Len(open) : open[n].id = i /\ open[n].pair = p
      BY <2>1 DEF Walks
    <3>2. ASSUME NEW i \in Ids(On(p)) PROVE \E n \in 1..Len(open') : open'[n].id = i /\ open'[n].pair = p
      <4>1. PICK n \in 1..Len(open) : open[n].id = i /\ open[n].pair = p
        BY <3>1
      <4>2. n \in 1..Len(open') /\ open'[n].id = i /\ open'[n].pair = p
        BY <1>4, <4>1
      <4> QED
        BY <4>2
    <3> QED
      BY <3>2 DEF Walks
  <2>3. Walk' <=> Walks(at'.pc, at'.pair, at'.work, open')
    BY DEF Walk
  <2> QED
    BY <1>3, <2>2, <2>3
<1>8. On(p)' = On(p)
  <2>1. On(p) = {n \in 1..Len(open) : open[n].pair = p}
    BY OnIs DEF BacktestInv, Listing
  <2>2. DOMAIN open' = 1..Len(open')
    BY <1>4, BookLen DEF Listing
  <2>3. On(p)' = {n \in 1..Len(open') : open'[n].pair = p}
    BY <2>2 DEF On
  <2> QED
    BY <1>4, <2>1, <2>3
<1>9. Marks'
  <2>1. ASSUME NEW q \in Names, flat[q] # 0 PROVE q \in traded' /\ flat[q] <= idx + 1
    BY <1>5, <2>1 DEF BacktestInv, Marks
  <2>2. On(p) = {} => flat[p] \in {0, idx + 1}
    <3> SUFFICES ASSUME On(p) = {}, flat[p] # 0 PROVE flat[p] = idx + 1
      OBVIOUS
    <3>1. p \in traded /\ flat[p] <= idx + 1
      BY <1>2 DEF BacktestInv, Marks
    <3>2. idx = 0
      BY <3>1 DEF Skipped
    <3>3. flat[p] \in 0..Rows /\ Rows \in Nat
      BY <1>2, RowsType DEF BacktestInv, Shapes
    <3> QED
      BY <3>1, <3>2, <3>3
  <2>3. On(at.pair)' = On(p)
    <3>1. {n \in DOMAIN open' : open'[n].pair = at'.pair} = {n \in DOMAIN open' : open'[n].pair = p}
      BY <1>3
    <3> QED
      BY <1>8, <3>1 DEF On
  <2> QED
    BY <1>0, <1>1, <1>3, <1>5, <2>1, <2>2, <2>3 DEF Marks, Visit
<1>10. PairsKept
  BY <1>4 DEF PairsKept
<1> QED
  BY <1>1, <1>4, <1>6, <1>7, <1>9, <1>10 DEF BacktestInv

---------------------------------------------------------------------------
(* Rows and candles.                                                       *)

\* Steps that leave the list of trades alone.
LEMMA QuietStep ==
    ASSUME BacktestInv, UNCHANGED <<config, open, count>>, Shapes', Walk', Marks'
    PROVE  BacktestInv' /\ PairsKept
<1>1. Names' = Names /\ Setting'
  BY Steady DEF BacktestInv
<1>2. Listing'
  BY <1>1 DEF BacktestInv, Listing
<1>3. PairsKept
  BY DEF PairsKept
<1> QED
  BY <1>1, <1>2, <1>3 DEF BacktestInv

\* The places in the loop.
Places == [pc : {"row", "orders", "entries", "trades", "left", "done"},
           pair : Names, had : BOOLEAN, again : BOOLEAN, exiting : Dirs \cup {"none"},
           dirs : Seq(Dirs), left : Seq(Dirs), work : SUBSET Nat]

\* The place in the loop has its type.
LEMMA AtType == ASSUME BacktestInv PROVE at \in Places
BY DEF BacktestInv, Shapes, Places

\* Between two visits.
LEMMA IdleType ==
    ASSUME Setting
    PROVE  /\ Idle \in Places /\ Idle.pc = "row" /\ ~Idle.had /\ Idle.work = {}
<1> DEFINE no == FALSE
<1>1. no \in BOOLEAN /\ ~no
  OBVIOUS
<1>2. Idle = [pc |-> "row", pair |-> config.pairs[1], had |-> no, again |-> no,
              exiting |-> "none", dirs |-> <<>>, left |-> <<>>, work |-> {}]
  BY DEF Idle
<1> HIDE DEF no
<1>3. config.pairs[1] \in Names
  BY NamesProps
<1>4. <<>> \in Seq(Dirs) /\ {} \in SUBSET Nat
  OBVIOUS
<1>5. Idle \in Places /\ Idle.pc = "row" /\ Idle.work = {}
  BY <1>1, <1>2, <1>3, <1>4 DEF Places
<1>6. Idle.had = no
  BY <1>2
<1> QED
  BY <1>1, <1>5, <1>6

\* Steps within the candle that only move the place in the loop.
LEMMA MoveStep ==
    ASSUME BacktestInv, UNCHANGED <<config, candle, open, count, flat>>, at' \in Places,
           Walks(at'.pc, at'.pair, at'.work, open),
           \/ at'.pc \notin Visit /\ ~at'.had
           \/ at.pc \in Visit /\ at'.pc \in Visit /\ at'.pair = at.pair /\ (at'.had <=> at.had)
    PROVE  BacktestInv' /\ PairsKept
<1>0. /\ config' = config /\ main' = main /\ idx' = idx /\ todo' = todo /\ signals' = signals
      /\ cached' = cached /\ traded' = traded /\ open' = open /\ count' = count /\ flat' = flat
  BY DEF candle
<1>1. Names' = Names
  BY Steady
<1>2. Shapes'
  BY <1>0, <1>1 DEF BacktestInv, Shapes, Places, Rows
<1>3. Walk'
  BY <1>0 DEF Walk
<1>4. \A p \in Names : flat[p] # 0 => p \in traded /\ flat[p] <= idx + 1
  BY DEF BacktestInv, Marks
<1>5. CASE at'.pc \notin Visit /\ ~at'.had
  <2>1. Marks'
    BY <1>0, <1>1, <1>4, <1>5 DEF Marks, Visit
  <2> QED
    BY <1>0, <1>2, <1>3, <2>1, QuietStep
<1>6. CASE at.pc \in Visit /\ at'.pc \in Visit /\ at'.pair = at.pair /\ (at'.had <=> at.had)
  <2>1. On(at.pair)' = On(at.pair)
    BY <1>0, <1>6 DEF On
  <2>2. Marks'
    BY <1>0, <1>1, <1>4, <1>6, <2>1 DEF BacktestInv, Marks, Visit
  <2> QED
    BY <1>0, <1>2, <1>3, <2>2, QuietStep
<1> QED
  BY <1>5, <1>6

\* The next row begins.
LEMMA NewRowStep == ASSUME BacktestInv, NewRow PROVE BacktestInv' /\ PairsKept
<1>0. /\ at.pc = "row" /\ idx + 1 < Rows /\ idx' = idx + 1 /\ todo' = Visits
      /\ UNCHANGED <<config, main, signals, cached, traded, open, count, at, flat>>
  BY DEF NewRow
<1>1. Names' = Names
  BY <1>0, Steady
<1>2. Visits \in Seq(Names)
  BY VisitsType DEF BacktestInv
<1>3. idx \in 0..(Rows - 1) /\ Rows \in Nat \ {0} /\ flat \in [Names -> 0..Rows]
  BY RowsType DEF BacktestInv, Shapes
<1>4. Shapes'
  <2>1. Rows' = Rows
    BY DEF Rows
  <2>2. idx' \in 0..(Rows - 1)
    BY <1>0, <1>3
  <2> QED
    BY <1>0, <1>1, <1>2, <2>1, <2>2 DEF BacktestInv, Shapes
<1>5. Walk'
  BY <1>0 DEF Walk, Walks
<1>6. Marks'
  <2>1. ASSUME NEW p \in Names, flat[p] # 0 PROVE p \in traded /\ flat[p] <= idx' + 1
    <3>1. p \in traded /\ flat[p] <= idx + 1 /\ flat[p] \in Nat
      BY <1>3, <2>1 DEF BacktestInv, Marks
    <3> QED
      BY <1>0, <1>3, <3>1
  <2>2. ~at.had
    BY <1>0 DEF BacktestInv, Marks, Visit
  <2> QED
    BY <1>0, <1>1, <2>1, <2>2 DEF Marks, Visit
<1> QED
  BY <1>0, <1>4, <1>5, <1>6, QuietStep

\* The next candle begins: no pair has been left in it yet.
LEMMA NewCandleStep == ASSUME BacktestInv, NewCandle PROVE BacktestInv' /\ PairsKept
<1>0. /\ at.pc = "row" /\ main < Mains /\ main' = main + 1 /\ idx' = 0 /\ todo' = Visits
      /\ signals' = [p \in Names |-> <<>>] /\ cached' = [p \in Names |-> 0]
      /\ traded' = {t.pair : t \in ToSet(open)} /\ flat' = [p \in Names |-> 0]
      /\ UNCHANGED <<config, open, count, at>>
  BY DEF NewCandle
<1>1. Names' = Names
  BY <1>0, Steady
<1>2. Visits \in Seq(Names)
  BY VisitsType DEF BacktestInv
<1>3. Rows \in Nat \ {0} /\ main \in 1..Mains /\ Mains \in Nat /\ Details \in Nat
  BY RowsType DEF BacktestInv, Shapes, Setting
<1>4. traded' \subseteq Names
  <2>1. DOMAIN open = 1..Len(open)
    BY BookLen DEF BacktestInv, Listing
  <2> QED
    BY <1>0, <2>1 DEF BacktestInv, Listing, ToSet
<1>5. signals' \in [Names -> Seq(Dirs)]
  <2>1. <<>> \in Seq(Dirs)
    OBVIOUS
  <2> QED
    BY <1>0, <2>1
<1>6. /\ main' \in 1..Mains /\ idx' \in 0..(Rows - 1) /\ cached' \in [Names -> 0..Details]
      /\ flat' \in [Names -> 0..Rows]
  BY <1>0, <1>3
<1>7. Shapes'
  BY <1>0, <1>1, <1>2, <1>4, <1>5, <1>6 DEF BacktestInv, Shapes, Rows
<1>8. Walk'
  BY <1>0 DEF Walk, Walks
<1>9. Marks'
  <2>1. ~at.had
    BY <1>0 DEF BacktestInv, Marks, Visit
  <2> QED
    BY <1>0, <1>1, <2>1 DEF Marks, Visit
<1> QED
  BY <1>0, <1>7, <1>8, <1>9, QuietStep

\* A pair is passed over.
LEMMA NoRowStep == ASSUME BacktestInv, NoRow PROVE BacktestInv' /\ PairsKept
<1>0. /\ todo # <<>> /\ at.pc = "row" /\ todo' = Tail(todo)
      /\ UNCHANGED <<config, main, idx, signals, cached, traded, open, count, at, flat>>
  BY DEF NoRow, Skip
<1>1. Names' = Names
  BY <1>0, Steady
<1>2. Tail(todo) \in Seq(Names)
  BY <1>0, SomeType DEF BacktestInv, Shapes
<1>3. Shapes'
  BY <1>0, <1>1, <1>2 DEF BacktestInv, Shapes, Rows
<1>4. Walk' /\ Marks'
  BY <1>0, <1>1 DEF BacktestInv, Walk, Walks, Marks, Visit
<1> QED
  BY <1>0, <1>3, <1>4, QuietStep

\* Signals are directions.
LEMMA SignalsType == ASSUME Setting PROVE Signals \subseteq Seq(Dirs)
<1>1. <<>> \in Seq(Dirs) /\ <<"long">> \in Seq(Dirs) /\ <<"short">> \in Seq(Dirs)
      /\ <<"long", "short">> \in Seq(Dirs)
  BY DEF Dirs
<1> QED
  BY <1>1 DEF Signals, Setting

---------------------------------------------------------------------------
(* The visit of a pair.                                                    *)

\* A visit in the first row of a candle.
LEMMA FirstStep ==
    ASSUME BacktestInv, NEW dirs \in Signals, NEW rows \in DetailRows, First(dirs, rows)
    PROVE  BacktestInv' /\ PairsKept
<1> DEFINE p == Head(todo)
<1>0. /\ at.pc = "row" /\ todo # <<>> /\ idx = 0
      /\ signals' = [signals EXCEPT ![p] = dirs]
      /\ cached' = [cached EXCEPT ![p] = IF dirs # <<>> \/ On(p) # {} THEN rows ELSE 0]
      /\ traded' = TradedWith(p) /\ todo' = Tail(todo) /\ at' = Began(p, dirs, FALSE)
      /\ open' = Aged(p) /\ UNCHANGED <<config, main, idx, count, flat>>
  BY DEF First
<1> HIDE DEF p
<1>1. dirs \in Seq(Dirs)
  BY SignalsType DEF BacktestInv
<1>2. signals' \in [Names -> Seq(Dirs)]
  BY <1>0, <1>1 DEF BacktestInv, Shapes
<1>3. cached' \in [Names -> 0..Details]
  <2>1. rows \in 0..Details /\ 0 \in 0..Details
    BY DEF DetailRows, BacktestInv, Setting
  <2>2. (IF dirs # <<>> \/ On(p) # {} THEN rows ELSE 0) \in 0..Details
    BY <2>1
  <2> QED
    BY <1>0, <2>2 DEF BacktestInv, Shapes
<1>4. p = Head(todo)
  BY DEF p
<1> QED
  BY <1>0, <1>1, <1>2, <1>3, <1>4, RowStart

\* A visit in a later row.
LEMMA LaterStep ==
    ASSUME BacktestInv, NEW late \in BOOLEAN, Later(late)
    PROVE  BacktestInv' /\ PairsKept
<1> DEFINE p == Head(todo)
           dirs == IF late /\ config.mode # "hedge" THEN <<>> ELSE signals[p]
<1>0. /\ at.pc = "row" /\ todo # <<>> /\ ~Skipped(p)
      /\ traded' = TradedWith(p) /\ todo' = Tail(todo) /\ at' = Began(p, dirs, FALSE)
      /\ open' = Aged(p) /\ UNCHANGED <<config, main, idx, signals, cached, count, flat>>
  BY DEF Later
<1>1. p \in Names
  BY <1>0, SomeType DEF BacktestInv, Shapes
<1>2. dirs \in Seq(Dirs)
  <2>1. <<>> \in Seq(Dirs) /\ signals[p] \in Seq(Dirs)
    BY <1>1 DEF BacktestInv, Shapes
  <2> QED
    BY <2>1
<1>3. signals' \in [Names -> Seq(Dirs)] /\ cached' \in [Names -> 0..Details]
  BY <1>0 DEF BacktestInv, Shapes
<1>4. p = Head(todo)
  OBVIOUS
<1> HIDE DEF p, dirs
<1> QED
  BY <1>0, <1>2, <1>3, <1>4, RowStart

\* The open order of a trade is cancelled, replaced or kept.
LEMMA ManageOrdersStep == ASSUME BacktestInv, ManageOrders PROVE BacktestInv' /\ PairsKept
<1>1. PICK r \in {Trade} \cup TimedOut(Trade) \cup Replaced(Trade) :
         IF Useless(r) THEN Leaving(r) ELSE Keeping(r)
  BY DEF ManageOrders
<1>2. /\ at.pc = "orders" /\ at.work # {} /\ at' = [at EXCEPT !.work = at.work \ {Trade.id}]
      /\ UNCHANGED <<config, candle>>
  <2>1. at.pc = "orders" /\ at.work # {} /\ Following /\ UNCHANGED <<config, candle>>
    BY DEF ManageOrders
  <2>2. at \in Places
    BY AtType
  <2> QED
    BY <2>1, <2>2 DEF Following, Places
<1>3. Tame(Trade)
  BY <1>2, PlaceProps
<1>4. Loose(r) /\ SameLeg(Trade, r) /\ ~Closed(r)
  BY <1>3, ManagedProps
<1>5. (Tame(r) /\ Keeping(r)) \/ Leaving(r)
  BY <1>1, <1>4 DEF Tame
<1> QED
  BY <1>2, <1>4, <1>5, TradeStep

\* A trade of the pair is filled, adjusted, exited and booked.
LEMMA ProcessTradeStep == ASSUME BacktestInv, ProcessTrade PROVE BacktestInv' /\ PairsKept
<1>1. PICK r \in Outcomes(Trade) : IF Closed(r) THEN Leaving(r) ELSE Keeping(r)
  BY DEF ProcessTrade
<1>2. /\ at.pc = "trades" /\ at.work # {} /\ at' = [at EXCEPT !.work = at.work \ {Trade.id}]
      /\ UNCHANGED <<config, candle>>
  <2>1. at.pc = "trades" /\ at.work # {} /\ Following /\ UNCHANGED <<config, candle>>
    BY DEF ProcessTrade
  <2>2. at \in Places
    BY AtType
  <2> QED
    BY <2>1, <2>2 DEF Following, Places
<1>3. Tame(Trade)
  BY <1>2, PlaceProps
<1>4. Loose(r) /\ SameLeg(Trade, r) /\ ~Useless(r)
  BY <1>3, OutcomeProps
<1>5. (Tame(r) /\ Keeping(r)) \/ Leaving(r)
  BY <1>1, <1>4 DEF Tame
<1> QED
  BY <1>2, <1>4, <1>5, TradeStep

\* A trade is closed at the end.
LEMMA CloseLeftStep == ASSUME BacktestInv, CloseLeft PROVE BacktestInv' /\ PairsKept
<1>1. /\ at.pc = "left" /\ at.work # {} /\ at' = [at EXCEPT !.work = at.work \ {Trade.id}]
      /\ UNCHANGED <<config, candle>> /\ Leaving(Trade)
  <2>1. /\ at.pc = "left" /\ at.work # {} /\ at' = [at EXCEPT !.work = After(@)]
        /\ UNCHANGED <<config, candle>> /\ Leaving(Trade)
    BY DEF CloseLeft
  <2>2. at \in Places
    BY AtType
  <2> QED
    BY <2>1, <2>2 DEF After, Places
<1>2. SameLeg(Trade, Trade)
  BY DEF SameLeg
<1> QED
  BY <1>1, <1>2, TradeStep

\* The visit, or the backtest, goes on to the next section.
LEMMA GoStep ==
    ASSUME BacktestInv, NEW to \in {"entries", "done"}, Go(to),
           (to = "entries" /\ at.pc = "orders") \/ (to = "done" /\ at.pc = "left"),
           UNCHANGED <<config, candle, open, count, flat>>
    PROVE  BacktestInv' /\ PairsKept
<1>1. at' = [at EXCEPT !.pc = to] /\ at \in Places
  BY AtType DEF Go
<1>2. at' \in Places /\ at'.pc = to /\ at'.pair = at.pair /\ (at'.had <=> at.had)
  BY <1>1 DEF Places
<1>3. Walks(at'.pc, at'.pair, at'.work, open)
  BY <1>2 DEF Walks
<1>4. to = "done" => ~at.had
  BY DEF BacktestInv, Marks, Visit
<1>5. \/ at'.pc \notin Visit /\ ~at'.had
      \/ at.pc \in Visit /\ at'.pc \in Visit /\ at'.pair = at.pair /\ (at'.had <=> at.had)
  BY <1>2, <1>4 DEF Visit
<1> QED
  BY <1>2, <1>3, <1>5, MoveStep

\* A signal that opens nothing.
LEMMA NoEntryStep == ASSUME BacktestInv, NoEntry PROVE BacktestInv' /\ PairsKept
<1>1. /\ at.pc = "entries" /\ at.left # <<>> /\ at' = [at EXCEPT !.left = Tail(at.left)]
      /\ UNCHANGED <<config, candle, open, count, flat>> /\ at \in Places
  BY AtType DEF NoEntry, Places
<1>2. Tail(at.left) \in Seq(Dirs)
  BY <1>1, SomeType DEF Places
<1>3. at' \in Places /\ at'.pc = "entries" /\ at'.pair = at.pair /\ (at'.had <=> at.had)
  BY <1>1, <1>2 DEF Places
<1>4. Walks(at'.pc, at'.pair, at'.work, open)
  BY <1>3 DEF Walks
<1> QED
  BY <1>1, <1>3, <1>4, MoveStep DEF Visit

\* The entries are done: the trades of the pair are walked.
LEMMA EntriesProcessedStep == ASSUME BacktestInv, EntriesProcessed PROVE BacktestInv' /\ PairsKept
<1>1. /\ at.pc = "entries" /\ at' = [at EXCEPT !.pc = "trades", !.work = Ids(On(at.pair))]
      /\ UNCHANGED <<config, candle, open, count, flat>> /\ at \in Places
  BY AtType DEF EntriesProcessed
<1>2. Ids(On(at.pair)) \in SUBSET Nat
  <2>1. Book(open)
    BY DEF BacktestInv, Listing
  <2> QED
    BY <2>1, OnIs, BookLen DEF Ids
<1>3. /\ at' \in Places /\ at'.pc = "trades" /\ at'.pair = at.pair /\ (at'.had <=> at.had)
      /\ at'.work = Ids(On(at.pair))
  BY <1>1, <1>2 DEF Places
<1>4. Walks(at'.pc, at'.pair, at'.work, open)
  BY <1>3, WalksOn DEF BacktestInv, Listing
<1> QED
  BY <1>1, <1>3, <1>4, MoveStep DEF Visit

\* The place in the loop when a visit begins.
LEMMA BeganAgain ==
    ASSUME BacktestInv, NEW p \in Names, NEW dirs \in Seq(Dirs), NEW again \in BOOLEAN,
           at' = Began(p, dirs, again)
    PROVE  /\ at' \in Places /\ at'.pc = "orders" /\ at'.pair = p /\ at'.work = Ids(On(p))
           /\ at'.had <=> IF again THEN at.had ELSE On(p) # {}
<1> DEFINE b == Began(p, dirs, again)
<1>1. /\ b \in [pc : {"row", "orders", "entries", "trades", "left", "done"},
                 pair : Names, had : BOOLEAN, again : BOOLEAN, exiting : Dirs \cup {"none"},
                 dirs : Seq(Dirs), left : Seq(Dirs), work : SUBSET Nat]
      /\ b.pc = "orders" /\ b.pair = p /\ b.work = Ids(On(p))
      /\ b.had <=> IF again THEN at.had ELSE On(p) # {}
  BY BeganProps
<1>2. at' = b
  OBVIOUS
<1> HIDE DEF b
<1> QED
  BY <1>1, <1>2 DEF Places

\* The visit ends, or begins again in the other direction.
LEMMA TradesProcessedStep == ASSUME BacktestInv, TradesProcessed PROVE BacktestInv' /\ PairsKept
<1>1. /\ at.pc = "trades" /\ at' = IF Reversing THEN Began(at.pair, at.dirs, TRUE) ELSE Idle
      /\ UNCHANGED <<config, candle, open, count, flat>> /\ at \in Places
  BY AtType DEF TradesProcessed
<1>2. CASE ~Reversing
  <2>1. at' \in Places /\ at'.pc = "row" /\ ~at'.had
    BY <1>1, <1>2, IdleType DEF BacktestInv
  <2>2. Walks(at'.pc, at'.pair, at'.work, open)
    BY <2>1 DEF Walks
  <2> QED
    BY <1>1, <2>1, <2>2, MoveStep DEF Visit
<1>3. CASE Reversing
  <2> DEFINE yes == TRUE
  <2>0. yes \in BOOLEAN /\ yes
    OBVIOUS
  <2> DEFINE b == Began(at.pair, at.dirs, yes)
  <2>1. at' = b
    <3>1. at' = Began(at.pair, at.dirs, TRUE)
      BY <1>1, <1>3, Zenon
    <3> QED
      BY <3>1
  <2> HIDE DEF yes
  <2>2. at.pair \in Names /\ at.dirs \in Seq(Dirs)
    BY <1>1 DEF Places
  <2>3. /\ at' \in Places /\ at'.pc = "orders" /\ at'.pair = at.pair
        /\ at'.work = Ids(On(at.pair)) /\ (at'.had <=> at.had)
    <3> DEFINE p == at.pair
               dirs == at.dirs
    <3>1. at' = Began(p, dirs, yes) /\ p \in Names /\ dirs \in Seq(Dirs)
      BY <2>1, <2>2
    <3> HIDE DEF p, dirs
    <3>2. /\ at' \in Places /\ at'.pc = "orders" /\ at'.pair = p
          /\ at'.work = Ids(On(p)) /\ (at'.had <=> IF yes THEN at.had ELSE On(p) # {})
      BY <2>0, <3>1, BeganAgain
    <3> QED
      BY <2>0, <3>2 DEF p
  <2> HIDE DEF b
  <2>4. Walks(at'.pc, at'.pair, at'.work, open)
    BY <2>1, <2>3, WalksOn DEF BacktestInv, Listing
  <2>5. at'.had <=> at.had
    BY <2>0, <2>1, <2>3
  <2> QED
    BY <1>1, <2>1, <2>3, <2>4, <2>5, MoveStep DEF Visit
<1> QED
  BY <1>2, <1>3

\* The candles end: all trades are walked.
LEMMA CandlesEndStep == ASSUME BacktestInv, CandlesEnd PROVE BacktestInv' /\ PairsKept
<1>1. /\ at' = [Idle EXCEPT !.pc = "left", !.work = Ids(DOMAIN open)]
      /\ UNCHANGED <<config, candle, open, count, flat>>
  BY DEF CandlesEnd
<1>2. Ids(DOMAIN open) \in SUBSET Nat
  <2>1. Book(open)
    BY DEF BacktestInv, Listing
  <2> QED
    BY <2>1, BookLen DEF Ids
<1>3. Idle \in Places /\ ~Idle.had
  BY IdleType DEF BacktestInv
<1> DEFINE i == Idle
           w == Ids(DOMAIN open)
<1>4. at' = [i EXCEPT !.pc = "left", !.work = w]
  BY <1>1
<1>5. i \in Places /\ ~i.had /\ w \in SUBSET Nat
  BY <1>2, <1>3
<1>6. Walks("left", at'.pair, w, open)
  BY WalksOn DEF BacktestInv, Listing, Walks
<1> HIDE DEF i, w
<1>7. at' \in Places /\ at'.pc = "left" /\ (at'.had <=> i.had) /\ at'.work = w
  BY <1>4, <1>5 DEF Places
<1> QED
  BY <1>1, <1>5, <1>6, <1>7, MoveStep DEF Visit

---------------------------------------------------------------------------
(* Entries, and the specification.                                         *)

\* What entering adds to the list.
LEMMA EnterIs ==
    ASSUME BacktestInv, Enter
    PROVE  \E t : /\ Tame(t) /\ t.pair = at.pair /\ t.dir = Head(at.left)
                  /\ \A n \in 1..Len(open) : open[n].id # t.id
                  /\ open' = Append(open, t)
<1> DEFINE o == Order("entry", 1)
           t == [id |-> NewId, pair |-> at.pair, dir |-> Head(at.left), held |-> 0,
                 fills |-> 0, orders |-> <<o>>]
<1>1. PICK r \in {t, Bought(t, o)} : open' = Append(open, r)
  BY DEF Enter
<1>2. o \in Orders /\ o.side = "entry"
  BY OrderType
<1>3. NewId \in Nat \ {0} /\ \A n \in 1..Len(open) : open[n].id # NewId
  <2>1. Book(open) /\ Len(open) \in Nat /\ DOMAIN open = 1..Len(open)
    BY BookLen DEF BacktestInv, Listing
  <2>2. ToSet(open) = {open[n] : n \in 1..Len(open)}
    BY <2>1 DEF ToSet
  <2>3. \E i \in 1..(Len(open) + 1) : \A u \in ToSet(open) : u.id # i
    BY <2>1, <2>2, FreeId
  <2>4. NewId \in 1..(Len(open) + 1) /\ \A u \in ToSet(open) : u.id # NewId
    BY <2>3 DEF NewId
  <2> QED
    BY <2>1, <2>2, <2>4
<1>4. at.pair \in STRING /\ Head(at.left) \in Dirs
  <2>1. at \in Places /\ at.left # <<>>
    BY AtType DEF Enter
  <2>2. at.pair \in Names /\ at.left \in Seq(Dirs)
    BY <2>1 DEF Places
  <2> QED
    BY <2>1, <2>2, SomeType, NamesProps DEF BacktestInv
<1> HIDE DEF o
<1>5. <<o>> \in Seq(Orders) /\ Len(<<o>>) = 1 /\ ToSet(<<o>>) = {o} /\ <<o>> # <<>>
  BY <1>2, OneOf, NotEmpty
<1>6. /\ t \in Records /\ t.id = NewId /\ t.pair = at.pair /\ t.dir = Head(at.left)
      /\ t.held = 0 /\ t.fills = 0 /\ t.orders = <<o>>
  BY <1>3, <1>4, <1>5 DEF Records
<1> HIDE DEF t
<1>7. Loose(t) /\ ~Useless(t) /\ ~Closed(t)
  BY <1>2, <1>5, <1>6 DEF Loose, Useless, Closed
<1>8. /\ Loose(Bought(t, o)) /\ SameLeg(t, Bought(t, o))
      /\ Bought(t, o).held > 0 /\ Bought(t, o).fills > 0
  BY <1>5, <1>6, <1>7, BoughtProps
<1>9. ~Useless(Bought(t, o)) /\ ~Closed(Bought(t, o))
  <2>1. Bought(t, o).held \in Nat /\ Bought(t, o).fills \in Nat
    BY <1>8, LooseFields
  <2> QED
    BY <1>8, <2>1 DEF Useless, Closed
<1>10. Tame(r) /\ SameLeg(t, r)
  BY <1>1, <1>7, <1>8, <1>9 DEF Tame, SameLeg
<1>11. r.pair = at.pair /\ r.dir = Head(at.left) /\ r.id = NewId
  BY <1>6, <1>10 DEF SameLeg
<1> QED
  BY <1>1, <1>3, <1>10, <1>11

\* A trade is opened on a free leg within the limit.
LEMMA EnterStep ==
    ASSUME BacktestInv, Enter
    PROVE  /\ BacktestInv'
           /\ \A n \in 1..Len(open') :
                 (\E m \in 1..Len(open) : open'[n].pair = open[m].pair) \/ open'[n].pair = at.pair
<1>1. PICK t : /\ Tame(t) /\ t.pair = at.pair /\ t.dir = Head(at.left)
               /\ \A n \in 1..Len(open) : open[n].id # t.id
               /\ open' = Append(open, t)
  BY EnterIs
<1>2. /\ at.pc = "entries" /\ EntrySlot(at.pair, Head(at.left)) /\ count < config.maxOpen
      /\ count' = count + 1 /\ at' = [at EXCEPT !.left = Tail(at.left)] /\ at.left # <<>>
      /\ config' = config /\ main' = main /\ idx' = idx /\ todo' = todo /\ signals' = signals
      /\ cached' = cached /\ traded' = traded /\ flat' = flat /\ at \in Places
  <2>1. at \in Places
    BY AtType
  <2> QED
    BY <2>1 DEF Enter, candle, Places
<1>3. Names' = Names /\ Setting'
  BY <1>2, Steady DEF BacktestInv
<1>4. /\ Book(open) /\ Legs(config.mode, open) /\ Len(open) \in Nat
      /\ \A n \in 1..Len(open) : open[n].pair \in Names
      /\ count = Len(open) /\ config.maxOpen \in Nat
  BY BookLen DEF BacktestInv, Listing, Setting
<1> DEFINE u == Append(open, t)
<1>5. /\ Book(u) /\ Len(u) = Len(open) + 1 /\ u[Len(open) + 1] = t
      /\ \A n \in 1..Len(open) : u[n] = open[n]
  BY <1>1, <1>4, BookMore
<1>6. u = open'
  BY <1>1
<1> HIDE DEF u
<1>7. \A n \in 1..Len(u) : n \in 1..Len(open) \/ n = Len(open) + 1
  BY <1>4, <1>5
<1>8. \A n \in 1..Len(open) : open[n].pair = t.pair => config.mode = "hedge" /\ open[n].dir # t.dir
  <2>1. On(at.pair) = {n \in 1..Len(open) : open[n].pair = at.pair}
    BY <1>4, OnIs
  <2> QED
    BY <1>1, <1>2, <2>1 DEF EntrySlot
<1>9. Legs(config.mode, u)
  BY <1>4, <1>5, <1>8, LegsMore
<1>10. at' \in Places /\ at'.pc = "entries" /\ at'.pair = at.pair /\ (at'.had <=> at.had)
  <2>1. Tail(at.left) \in Seq(Dirs)
    BY <1>2, SomeType DEF Places
  <2> QED
    BY <1>2, <2>1 DEF Places
<1>11. at.pair \in Names
  BY <1>2 DEF Places
<1>12. Listing'
  <2>1. \A n \in 1..Len(u) : u[n].pair \in Names'
    BY <1>1, <1>3, <1>4, <1>5, <1>7, <1>11
  <2>2. count' = Len(u) /\ count' <= config'.maxOpen
    BY <1>2, <1>4, <1>5
  <2> QED
    BY <1>2, <1>5, <1>6, <1>9, <2>1, <2>2 DEF Listing
<1>13. Shapes'
  BY <1>2, <1>3, <1>10 DEF BacktestInv, Shapes, Places, Rows
<1>14. Walk'
  BY <1>10 DEF Walk, Walks
<1>15. Len(open) + 1 \in On(at.pair)'
  <2>1. DOMAIN open' = 1..Len(open')
    BY <1>5, <1>6, BookLen
  <2>2. Len(open) + 1 \in 1..Len(open') /\ open'[Len(open) + 1].pair = at'.pair
    BY <1>1, <1>4, <1>5, <1>6, <1>10
  <2> QED
    BY <2>1, <2>2 DEF On
<1>16. Marks'
  BY <1>2, <1>3, <1>10, <1>15 DEF BacktestInv, Marks, Visit
<1>17. BacktestInv'
  BY <1>3, <1>12, <1>13, <1>14, <1>16 DEF BacktestInv
<1> QED
  BY <1>1, <1>5, <1>6, <1>7, <1>17

\* The invariant holds when the backtest begins.
LEMMA BacktestStart == ASSUME Init PROVE BacktestInv
<1>1. Setting
  BY BacktestAssumption DEF Init, Setting
<1>2. Idle \in Places /\ Idle.pc = "row" /\ ~Idle.had
  BY <1>1, IdleType
<1>3. Rows \in Nat \ {0} /\ Mains \in Nat \ {0} /\ Details \in Nat
  BY <1>1, RowsType DEF Setting
<1>4. config.pairs \in Seq(Names)
  BY <1>1, NamesProps
<1>5. Shapes
  <2>1. main \in 1..Mains /\ idx \in 0..(Rows - 1)
    BY <1>3 DEF Init
  <2>2. signals \in [Names -> Seq(Dirs)]
    <3>1. <<>> \in Seq(Dirs)
      OBVIOUS
    <3> QED
      BY <3>1 DEF Init
  <2>3. cached \in [Names -> 0..Details] /\ flat \in [Names -> 0..Rows]
    BY <1>3 DEF Init
  <2> QED
    BY <1>2, <1>4, <2>1, <2>2, <2>3 DEF Init, Shapes, Places
<1>6. Listing
  <2>1. open = <<>> /\ Len(open) = 0 /\ <<>> \in Seq(Records)
    BY DEF Init
  <2>2. 1..Len(open) = {}
    BY <2>1
  <2>3. count = 0 /\ config.maxOpen \in Nat
    BY <1>1 DEF Init, Setting
  <2> QED
    BY <2>1, <2>2, <2>3 DEF Listing, Book, Legs
<1>7. Walk /\ Marks
  <2>1. at = Idle /\ flat = [p \in Names |-> 0]
    BY DEF Init
  <2> QED
    BY <1>2, <2>1 DEF Walk, Walks, Marks, Visit
<1> QED
  BY <1>1, <1>5, <1>6, <1>7 DEF BacktestInv

\* Every step keeps it, and only an entry adds a pair with open trades.
LEMMA BacktestStep ==
    ASSUME BacktestInv, Next PROVE BacktestInv' /\ (PairsKept \/ Enter)
<1>1. CASE NewRow \/ NewCandle \/ NoRow
  BY <1>1, NewRowStep, NewCandleStep, NoRowStep
<1>2. CASE \E dirs \in Signals, rows \in DetailRows : First(dirs, rows)
  BY <1>2, FirstStep
<1>3. CASE \E late \in BOOLEAN : Later(late)
  BY <1>3, LaterStep
<1>4. CASE ManageOrders
  BY <1>4, ManageOrdersStep
<1>5. CASE OrdersManaged
  <2>1. at.pc = "orders" /\ Go("entries") /\ UNCHANGED <<config, candle, open, count, flat>>
    BY <1>5 DEF OrdersManaged
  <2> QED
    BY <2>1, GoStep
<1>6. CASE NoEntry \/ EntriesProcessed
  BY <1>6, NoEntryStep, EntriesProcessedStep
<1>7. CASE Enter
  BY <1>7, EnterStep
<1>8. CASE ProcessTrade \/ TradesProcessed
  BY <1>8, ProcessTradeStep, TradesProcessedStep
<1>9. CASE CandlesEnd \/ CloseLeft
  BY <1>9, CandlesEndStep, CloseLeftStep
<1>10. CASE Done
  <2>1. at.pc = "left" /\ Go("done") /\ UNCHANGED <<config, candle, open, count, flat>>
    BY <1>10 DEF Done
  <2> QED
    BY <2>1, GoStep
<1> QED
  BY <1>1, <1>2, <1>3, <1>4, <1>5, <1>6, <1>7, <1>8, <1>9, <1>10 DEF Next

\* And so does stuttering.
LEMMA BacktestStays == ASSUME BacktestInv, UNCHANGED vars PROVE BacktestInv'
<1>1. Setting' /\ Names' = Names
  BY Steady DEF vars, BacktestInv
<1>2. Shapes' /\ Listing'
  BY <1>1 DEF vars, BacktestInv, Shapes, Listing, Rows
<1>3. Walk' /\ Marks'
  BY <1>1 DEF vars, BacktestInv, Walk, Walks, Marks, Visit, On
<1> QED
  BY <1>1, <1>2, <1>3 DEF BacktestInv

\* The loop never loses count of its trades, walks open trades of its pair only, and
\* remembers the pairs that a row of the candle has left.
THEOREM BacktestInvariant == Spec => []BacktestInv
<1>1. Init => BacktestInv
  BY BacktestStart
<1>2. BacktestInv /\ [Next]_vars => BacktestInv'
  BY BacktestStep, BacktestStays
<1> QED
  BY <1>1, <1>2, PTL DEF Spec

\* The variables of the backtest keep their types; the detail rows stay in the candle.
THEOREM BacktestTypeCorrect == Spec => []TypeOK
<1>1. ASSUME BacktestInv PROVE TypeOK
  <2>1. /\ Book(open) /\ DOMAIN open = 1..Len(open) /\ Len(open) \in Nat /\ open \in Seq(Records)
        /\ \A n \in 1..Len(open) : open[n].pair \in Names /\ open[n] \in Records
    BY <1>1, BookLen, ElementOfSeq DEF BacktestInv, Listing, Book
  <2>2. \A n \in 1..Len(open) : open[n] \in Trades
    BY <2>1 DEF Records, Trades
  <2>3. open \in Seq(Trades)
    <3>1. open \in [1..Len(open) -> Trades]
      BY <2>1, <2>2, LenProperties
    <3> QED
      BY <2>1, <3>1, SeqDef
  <2>4. count \in Nat
    BY <1>1, <2>1 DEF BacktestInv, Listing
  <2> QED
    BY <1>1, <2>3, <2>4 DEF BacktestInv, Shapes, TypeOK
<1> QED
  BY <1>1, BacktestInvariant, PTL

\* The count that limits the entries is the number of open trades, within the limit,
\* and no two trades share a leg.
THEOREM SlotsHold == Spec => []Slots
<1>1. ASSUME BacktestInv PROVE Slots
  <2>1. DOMAIN open = 1..Len(open)
    BY <1>1, BookLen DEF BacktestInv, Listing
  <2> QED
    BY <1>1, <2>1 DEF BacktestInv, Listing, Legs, Slots
<1> QED
  BY <1>1, BacktestInvariant, PTL

\* Every open trade is tame.
LEMMA AllTame == ASSUME BacktestInv PROVE \A t \in ToSet(open) : Tame(t)
<1>1. DOMAIN open = 1..Len(open)
  BY BookLen DEF BacktestInv, Listing
<1> QED
  BY <1>1 DEF ToSet, BacktestInv, Listing, Book

\* A trade never has two open orders, nor an exit order for more than it holds.
THEOREM OneOrderEach == Spec => []OneOrder
<1>1. ASSUME BacktestInv PROVE OneOrder
  BY <1>1, AllTame DEF OneOrder, Tame, Loose
<1> QED
  BY <1>1, BacktestInvariant, PTL

\* An open trade holds a position or waits for its entry.
THEOREM NeverGhosts == Spec => []NoGhosts
<1>1. ASSUME BacktestInv PROVE NoGhosts
  <2> SUFFICES ASSUME NEW t \in ToSet(open) PROVE t.held > 0 \/ Waiting(t, "entry") # {}
    BY DEF NoGhosts
  <2>1. Tame(t)
    BY <1>1, AllTame
  <2>2. /\ t.held \in Nat /\ t.fills \in Nat /\ t.orders \in Seq(Orders)
        /\ ToSet(t.orders) \subseteq Orders
    BY <2>1, LooseFields DEF Tame
  <2>3. CASE t.held = 0
    <3>1. t.fills = 0 /\ t.orders # <<>>
      BY <2>1, <2>2, <2>3 DEF Tame, Closed, Useless
    <3>2. Len(t.orders) \in Nat \ {0} /\ DOMAIN t.orders = 1..Len(t.orders)
      BY <2>2, <3>1, EmptySeq, LenProperties
    <3>3. t.orders[1] \in ToSet(t.orders) /\ 1 \in DOMAIN t.orders
      BY <3>2 DEF ToSet
    <3>4. t.orders[1].side = "entry"
      <4>1. t.orders[1] \in Orders
        BY <2>2, <3>3
      <4>2. t.orders[1].amount \in Nat \ {0} /\ t.orders[1].side \in {"entry", "exit"}
        BY <4>1, OrderFields
      <4>3. t.orders[1].side = "exit" => t.orders[1].amount <= t.held
        BY <2>1, <3>3 DEF Tame, Loose
      <4> QED
        BY <2>3, <4>2, <4>3
    <3> QED
      BY <3>3, <3>4 DEF Waiting
  <2> QED
    BY <2>2, <2>3
<1> QED
  BY <1>1, BacktestInvariant, PTL

\* A pair that a row left without trade is not entered by a later row of the candle.
THEOREM NeverReentered == Spec => NoReentry
<1>1. ASSUME BacktestInv, Next
      PROVE  \A t \in ToSet(open') : On(t.pair) = {} => flat[t.pair] \in {0, idx + 1}
  <2> SUFFICES ASSUME NEW t \in ToSet(open'), On(t.pair) = {}
               PROVE  flat[t.pair] \in {0, idx + 1}
    OBVIOUS
  <2>1. BacktestInv' /\ (PairsKept \/ Enter)
    BY <1>1, BacktestStep
  <2>2. DOMAIN open' = 1..Len(open')
    BY <2>1, BookLen DEF BacktestInv, Listing
  <2>3. PICK n \in 1..Len(open') : t = open'[n]
    BY <2>2 DEF ToSet
  <2>4. \A m \in 1..Len(open) : open[m].pair # t.pair
    BY <1>1, OnIs DEF BacktestInv, Listing
  <2>5. Enter
    BY <2>1, <2>3, <2>4 DEF PairsKept
  <2>6. t.pair = at.pair /\ at.pc = "entries"
    BY <1>1, <2>3, <2>4, <2>5, EnterStep DEF Enter
  <2> QED
    BY <1>1, <2>6 DEF BacktestInv, Marks, Visit
<1>2. BacktestInv /\ [Next]_vars =>
        [\A t \in ToSet(open') : On(t.pair) = {} => flat[t.pair] \in {0, idx + 1}]_vars
  BY <1>1
<1> QED
  BY <1>2, BacktestInvariant, PTL DEF Spec, NoReentry

=============================================================================
