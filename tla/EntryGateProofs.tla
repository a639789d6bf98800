--------------------------- MODULE EntryGateProofs ---------------------------
(***************************************************************************)
(* Proofs about EntryGate: type correctness, and the bounds on the open    *)
(* trades of the book and of one leg, for every number of pairs, rows,     *)
(* request threads and slots.                                              *)
(***************************************************************************)
EXTENDS EntryGate, FiniteSetTheorems, TLAPS

---------------------------------------------------------------------------
(* Types.                                                                  *)

LEMMA RestType ==
  ASSUME TypeOK
  PROVE  /\ Rest(worker) \in WorkerLocals
         /\ Rest(worker).sigs = {}
         /\ Rest(worker).cands = {}
BY DEF TypeOK, Rest, WorkerLocals

LEMMA SettleType ==
  ASSUME TypeOK, NEW t \in TradeIds, NEW s \in Statuses, Settle(t, s),
         s \in {"open", "closed"} => trades[t].status \in {"open", "closed"}
  PROVE  /\ trades' \in [TradeIds -> TradeRows]
         /\ \A u \in TradeIds :
              trades'[u].status \in {"open", "closed"} => trades'[u].pair \in Pairs
<1>1. Row(NoTrade, "long", "deleted") \in TradeRows
  BY DEF Row, TradeRows, Dirs, Statuses
<1>2. [trades[t] EXCEPT !.status = s] \in TradeRows
  BY DEF TypeOK, TradeRows
<1>3. trades' \in [TradeIds -> TradeRows]
  BY <1>1, <1>2 DEF TypeOK, Settle
<1>4. ASSUME NEW u \in TradeIds, trades'[u].status \in {"open", "closed"}
      PROVE  trades'[u].pair \in Pairs
  <2>1. CASE u # t
    BY <1>4, <2>1 DEF Settle, TypeOK
  <2>2. CASE u = t /\ s = "deleted"
    BY <1>4, <2>2 DEF Settle, TypeOK, Row
  <2>3. CASE u = t /\ s # "deleted"
    <3>1. trades'[t] = [trades[t] EXCEPT !.status = s]
      BY <2>3 DEF Settle, TypeOK
    <3>2. trades[t] \in TradeRows
      BY DEF TypeOK
    <3>3. trades'[t].pair = trades[t].pair /\ trades'[t].status = s
      BY <3>1, <3>2 DEF TradeRows
    <3> QED BY <1>4, <2>3, <3>3 DEF TypeOK
  <2> QED BY <2>1, <2>2, <2>3
<1> QED BY <1>3, <1>4

LEMMA OutcomesType ==
  ASSUME TypeOK, NEW t \in TradeIds, NEW s \in Outcomes(t)
  PROVE  /\ s \in Statuses
         /\ s \in {"open", "closed"} => trades[t].status \in {"open", "closed"}
BY DEF TypeOK, Outcomes, Statuses, TradeRows

LEMMA VisitType ==
  ASSUME TypeOK, NEW t \in TradeIds, NEW s \in VisitOutcomes(t)
  PROVE  /\ s \in Statuses
         /\ s \in {"open", "closed"} => trades[t].status \in {"open", "closed"}
         /\ s = "open" => trades[t].status = "open" \/ trades[t].status = "closed"
BY DEF TypeOK, VisitOutcomes, Outcomes, Statuses, TradeRows

LEMMA AdjustType ==
  ASSUME TypeOK, NEW t \in TradeIds, NEW s \in AdjustOutcomes(t)
  PROVE  /\ s \in Statuses
         /\ s \in {"open", "closed"} => trades[t].status \in {"open", "closed"}
BY DEF AdjustOutcomes

LEMMA NewTradeType ==
  ASSUME TypeOK, NEW p \in Pairs, NEW d \in Dirs, NewTrade(p, d)
  PROVE  /\ trades' \in [TradeIds -> TradeRows]
         /\ \A u \in TradeIds :
              trades'[u].status \in {"open", "closed"} => trades'[u].pair \in Pairs
<1>1. Row(p, d, "open") \in TradeRows /\ Row(p, d, "open").pair = p
  BY DEF Row, TradeRows, Statuses
<1> QED BY <1>1 DEF NewTrade, TypeOK

LEMMA SlotsType ==
  ASSUME TypeOK
  PROVE  /\ Open \subseteq TradeIds /\ IsFiniteSet(Open)
         /\ Cardinality(Open) \in Nat /\ FreeSlots \in Nat
         /\ FreeSlots > 0 <=> Cardinality(Open) < MaxOpenTrades
<1>1. Open \subseteq TradeIds
  BY DEF Open
<1>2. IsFiniteSet(Open)
  BY <1>1, FS_Subset, GateAssumption
<1>3. Cardinality(Open) \in Nat
  BY <1>2, FS_CardinalityType
<1> QED BY <1>1, <1>2, <1>3, GateAssumption DEF FreeSlots

LEMMA TypeInit == Init => TypeOK
<1> SUFFICES ASSUME Init PROVE TypeOK
  OBVIOUS
<1>1. Row(NoTrade, "long", "free") \in TradeRows
  BY DEF Row, TradeRows, Dirs, Statuses
<1>2. trades \in [TradeIds -> TradeRows] /\ \A t \in TradeIds : trades[t].status = "free"
  BY <1>1 DEF Init, Row
<1>3. worker \in WorkerLocals /\ worker.sigs = {}
  BY DEF Init, WorkerLocals
<1>4. Request("idle", NoTrade, "long", NoTrade, {}) \in RpcLocals
  BY DEF Request, RpcLocals, Dirs
<1>5. rpc \in [Rpc -> RpcLocals] /\ \A r \in Rpc : rpc[r].pc = "idle"
  BY <1>4 DEF Init, Request
<1> QED BY <1>2, <1>3, <1>5 DEF Init, TypeOK, Free

LEMMA AnsweredType ==
  ASSUME TypeOK, NEW r \in Rpc
  PROVE  /\ Answered(r) \in [Rpc -> RpcLocals]
         /\ \A q \in Rpc : Answered(r)[q].pc = "entry" => Answered(r)[q].pair \in Pairs
<1>1. /\ Request("idle", NoTrade, "long", NoTrade, {}) \in RpcLocals
      /\ Request("idle", NoTrade, "long", NoTrade, {}).pc = "idle"
  BY DEF Request, RpcLocals, Dirs
<1> QED BY <1>1 DEF TypeOK, Answered

LEMMA TypeStep == TypeOK /\ [Next]_vars => TypeOK'
<1> SUFFICES ASSUME TypeOK, [Next]_vars PROVE TypeOK'
  OBVIOUS
<1> USE DEF Free
<1>1. CASE StartIteration
  <2>1. worker' \in WorkerLocals /\ worker'.sigs = worker.sigs /\ worker'.pair = worker.pair
    BY <1>1 DEF StartIteration, TypeOK, WorkerLocals, Sections
  <2> QED BY <1>1, <2>1 DEF StartIteration, TypeOK
<1>2. CASE EnterSection
  <2>1. worker' \in WorkerLocals /\ worker'.sigs = worker.sigs /\ worker'.pair = worker.pair
    BY <1>2, SlotsType DEF EnterSection, TypeOK, WorkerLocals
  <2> QED BY <1>2, <2>1 DEF EnterSection, TypeOK
<1>3. CASE LeaveSection
  <2>1. ASSUME NEW s \in Sections
        PROVE  NextSection(s) \in {"slots"} \cup Sections
    BY <2>1 DEF NextSection, Sections
  <2>2. worker.pc \in Sections
    BY <1>3 DEF LeaveSection
  <2>3. worker' \in WorkerLocals /\ worker'.sigs = worker.sigs /\ worker'.pair = worker.pair
    BY <1>3, <2>1, <2>2 DEF LeaveSection, TypeOK, WorkerLocals
  <2> QED BY <1>3, <2>3 DEF LeaveSection, TypeOK
<1>4. ASSUME NEW t \in TradeIds, VisitTrade(t) PROVE TypeOK'
  <2>1. worker' \in WorkerLocals /\ worker'.sigs = worker.sigs /\ worker'.pair = worker.pair
    BY <1>4 DEF VisitTrade, TypeOK, WorkerLocals
  <2>2. PICK s \in VisitOutcomes(t) : Settle(t, s)
    BY <1>4 DEF VisitTrade
  <2>3. /\ trades' \in [TradeIds -> TradeRows]
        /\ \A u \in TradeIds :
             trades'[u].status \in {"open", "closed"} => trades'[u].pair \in Pairs
    BY <2>2, VisitType, SettleType
  <2> QED BY <1>4, <2>1, <2>3 DEF VisitTrade, TypeOK
<1>5. CASE CheckSlots
  <2>1. /\ worker' \in WorkerLocals
        /\ \/ worker'.sigs = {}
           \/ worker'.sigs = worker.sigs /\ worker'.pair = worker.pair
    <3>1. CASE worker' = Rest(worker)
      BY <3>1, RestType
    <3>2. CASE worker' = [worker EXCEPT !.pc = "filter", !.slots = FreeSlots]
      BY <3>2, SlotsType DEF TypeOK, WorkerLocals
    <3> QED BY <1>5, <3>1, <3>2 DEF CheckSlots
  <2> QED BY <1>5, <2>1 DEF CheckSlots, TypeOK
<1>6. CASE FilterCandidates
  <2>1. Candidates \subseteq Pairs
    BY DEF Candidates, TypeOK
  <2>2. /\ worker' \in WorkerLocals
        /\ \/ worker'.sigs = {}
           \/ worker'.sigs = worker.sigs /\ worker'.pair = worker.pair
    <3>1. CASE worker' = Rest(worker)
      BY <3>1, RestType
    <3>2. CASE worker' = [worker EXCEPT !.pc = "entries", !.cands = Candidates]
      BY <3>2, <2>1 DEF TypeOK, WorkerLocals
    <3> QED BY <1>6, <3>1, <3>2 DEF FilterCandidates
  <2> QED BY <1>6, <2>2 DEF FilterCandidates, TypeOK
<1>7. ASSUME NEW p \in Pairs, NextPair(p) PROVE TypeOK'
  <2>1. PICK ds \in SUBSET Dirs :
          worker' = [worker EXCEPT !.cands = @ \ {p}, !.sigs = ds,
                                   !.pair = IF ds = {} THEN NoTrade ELSE p]
    BY <1>7 DEF NextPair
  <2>2. worker' \in WorkerLocals /\ (worker'.sigs # {} => worker'.pair \in Pairs)
    BY <2>1 DEF TypeOK, WorkerLocals
  <2> QED BY <1>7, <2>2 DEF NextPair, TypeOK
<1>8. ASSUME NEW d \in Dirs, CreateTrade(d) \/ RefuseTrade(d) PROVE TypeOK'
  <2>1. worker.slots > 0 /\ d \in worker.sigs /\ worker.pair \in Pairs /\ worker.slots \in Nat
    BY <1>8 DEF CreateTrade, RefuseTrade, TypeOK, WorkerLocals
  <2>2. PICK n \in {0, 1} : worker' = NextSignal(d, n)
    BY <1>8 DEF CreateTrade, RefuseTrade
  <2>3. worker' \in WorkerLocals /\ (worker'.sigs # {} => worker'.pair \in Pairs)
    <3>1. worker.slots - n \in Nat
      BY <2>1
    <3>2. worker.sigs \ {d} \in SUBSET Dirs
      BY DEF TypeOK, WorkerLocals
    <3>3. worker' \in WorkerLocals
      BY <2>1, <2>2, <3>1, <3>2 DEF NextSignal, TypeOK, WorkerLocals
    <3>4. /\ worker'.sigs = worker.sigs \ {d}
          /\ worker'.pair = IF worker.sigs = {d} THEN NoTrade ELSE worker.pair
      BY <2>2 DEF NextSignal, TypeOK, WorkerLocals
    <3> QED BY <2>1, <3>3, <3>4
  <2>4. /\ trades' \in [TradeIds -> TradeRows]
        /\ \A u \in TradeIds :
             trades'[u].status \in {"open", "closed"} => trades'[u].pair \in Pairs
    <3>1. CASE CreateTrade(d)
      BY <3>1, <2>1, NewTradeType DEF CreateTrade
    <3>2. CASE RefuseTrade(d)
      BY <3>2 DEF RefuseTrade, TypeOK
    <3> QED BY <1>8, <3>1, <3>2
  <2> QED BY <1>8, <2>3, <2>4 DEF CreateTrade, RefuseTrade, TypeOK
<1>9. CASE EndEntries
  BY <1>9, RestType DEF EndEntries, TypeOK
<1>10. CASE IterationFails
  BY <1>10, RestType DEF IterationFails, TypeOK, States
<1>11. CASE Restart
  <2>1. Request("idle", NoTrade, "long", NoTrade, {}) \in RpcLocals
    BY DEF Request, RpcLocals, Dirs
  <2>2. rpc' \in [Rpc -> RpcLocals] /\ \A r \in Rpc : rpc'[r].pc = "idle"
    BY <1>11, <2>1 DEF Restart, Request
  <2> QED BY <1>11, <2>2, RestType DEF Restart, TypeOK
<1>12. ASSUME NEW r \in Rpc, NEW p \in Pairs, NEW d \in Dirs, ForceEntryCheck(r, p, d)
       PROVE  TypeOK'
  <2>1. PICK t \in TradeIds \cup {NoTrade} :
          rpc' = [rpc EXCEPT ![r] = Request("entry", p, d, t, {})]
    BY <1>12 DEF ForceEntryCheck, OnLeg, Open
  <2>2. /\ Request("entry", p, d, t, {}) \in RpcLocals
        /\ Request("entry", p, d, t, {}).pair = p
    BY DEF Request, RpcLocals
  <2>3. /\ rpc' \in [Rpc -> RpcLocals]
        /\ \A q \in Rpc : rpc'[q].pc = "entry" => rpc'[q].pair \in Pairs
    BY <2>1, <2>2 DEF TypeOK
  <2> QED BY <1>12, <2>3 DEF ForceEntryCheck, TypeOK
<1>13. ASSUME NEW r \in Rpc, ForceEntryExecute(r) PROVE TypeOK'
  <2>1. rpc[r].pair \in Pairs /\ rpc[r].dir \in Dirs /\ rpc[r].trade \in TradeIds \cup {NoTrade}
    BY <1>13 DEF ForceEntryExecute, TypeOK, RpcLocals
  <2>2. /\ trades' \in [TradeIds -> TradeRows]
        /\ \A u \in TradeIds :
             trades'[u].status \in {"open", "closed"} => trades'[u].pair \in Pairs
    <3>1. CASE UNCHANGED trades
      BY <3>1 DEF TypeOK
    <3>2. CASE NewTrade(rpc[r].pair, rpc[r].dir)
      BY <3>2, <2>1, NewTradeType
    <3>3. CASE rpc[r].trade # NoTrade
               /\ \E s \in AdjustOutcomes(rpc[r].trade) : Settle(rpc[r].trade, s)
      BY <3>3, <2>1, AdjustType, SettleType
    <3> QED BY <1>13, <3>1, <3>2, <3>3 DEF ForceEntryExecute
  <2> QED BY <1>13, <2>2, AnsweredType DEF ForceEntryExecute, TypeOK
<1>14. ASSUME NEW r \in Rpc, ForceExitAll(r) PROVE TypeOK'
  <2>1. /\ Request("exit", NoTrade, "long", NoTrade, Open) \in RpcLocals
        /\ Request("exit", NoTrade, "long", NoTrade, Open).pc = "exit"
    BY SlotsType DEF Request, RpcLocals, Dirs
  <2>2. /\ rpc' \in [Rpc -> RpcLocals]
        /\ \A q \in Rpc : rpc'[q].pc = "entry" => rpc'[q].pair \in Pairs
    BY <1>14, <2>1 DEF ForceExitAll, TypeOK
  <2> QED BY <1>14, <2>2 DEF ForceExitAll, TypeOK
<1>15. ASSUME NEW r \in Rpc, NEW t \in TradeIds,
              ForceExitNext(r, t) \/ ExitOrCancelOne(r, t) \/ DeleteTrade(r, t)
                \/ ReloadTrade(r, t)
       PROVE  TypeOK'
  <2>1. PICK s : Settle(t, s) /\ (s \in Outcomes(t) \/ s = "deleted")
    BY <1>15 DEF ForceExitNext, ExitOrCancelOne, DeleteTrade, ReloadTrade
  <2>2. /\ s \in Statuses
        /\ s \in {"open", "closed"} => trades[t].status \in {"open", "closed"}
    BY <2>1, OutcomesType DEF Statuses
  <2>3. /\ trades' \in [TradeIds -> TradeRows]
        /\ \A u \in TradeIds :
             trades'[u].status \in {"open", "closed"} => trades'[u].pair \in Pairs
    BY <2>1, <2>2, SettleType
  <2>4. /\ rpc' \in [Rpc -> RpcLocals]
        /\ \A q \in Rpc : rpc'[q].pc = "entry" => rpc'[q].pair \in Pairs
    <3>1. CASE rpc' = rpc
      BY <3>1 DEF TypeOK
    <3>2. CASE ForceExitNext(r, t)
      <4>1. rpc' = [rpc EXCEPT ![r].todo = @ \ {t}]
        BY <3>2 DEF ForceExitNext
      <4>2. [rpc[r] EXCEPT !.todo = @ \ {t}] \in RpcLocals
        BY DEF TypeOK, RpcLocals
      <4>3. rpc' \in [Rpc -> RpcLocals]
        BY <4>1, <4>2 DEF TypeOK
      <4>4. \A q \in Rpc : rpc'[q].pc = rpc[q].pc /\ rpc'[q].pair = rpc[q].pair
        BY <4>1 DEF TypeOK, RpcLocals
      <4> QED BY <4>3, <4>4 DEF TypeOK
    <3> QED BY <1>15, <3>1, <3>2 DEF ExitOrCancelOne, DeleteTrade, ReloadTrade
  <2>5. UNCHANGED <<state, lock, whitelist, worker, reopened>>
    BY <1>15 DEF ForceExitNext, ExitOrCancelOne, DeleteTrade, ReloadTrade
  <2> QED BY <2>3, <2>4, <2>5 DEF TypeOK
<1>16. ASSUME NEW r \in Rpc, ForceExitDone(r) PROVE TypeOK'
  BY <1>16, AnsweredType DEF ForceExitDone, TypeOK
<1>17. ASSUME NEW r \in Rpc, SetState(r) PROVE TypeOK'
  BY <1>17 DEF SetState, TypeOK, States
<1>18. CASE UNCHANGED vars
  BY <1>18 DEF vars, TypeOK
<1> QED
  BY <1>1, <1>2, <1>3, <1>4, <1>5, <1>6, <1>7, <1>8, <1>9, <1>10, <1>11, <1>12,
     <1>13, <1>14, <1>15, <1>16, <1>17, <1>18
  DEF Next, WorkerStep, RpcStep

\* Every reachable state is well typed: the worker tries signals of a known pair
\* only, and the mutex is free or held by the worker or by one request thread.
THEOREM TypeCorrect == Spec => []TypeOK
BY TypeInit, TypeStep, PTL DEF Spec

---------------------------------------------------------------------------
(* Counting.                                                               *)

LEMMA CountUnion ==
  ASSUME NEW A, NEW B, IsFiniteSet(A), IsFiniteSet(B), NEW C \in SUBSET (A \cup B)
  PROVE  /\ IsFiniteSet(C)
         /\ Cardinality(C) \in Nat /\ Cardinality(A) \in Nat /\ Cardinality(B) \in Nat
         /\ Cardinality(C) <= Cardinality(A) + Cardinality(B)
<1>1. /\ IsFiniteSet(A \cup B) /\ IsFiniteSet(A \cap B)
      /\ Cardinality(A \cup B) = Cardinality(A) + Cardinality(B) - Cardinality(A \cap B)
  BY FS_Union, FS_Intersection
<1>2. IsFiniteSet(C) /\ Cardinality(C) <= Cardinality(A \cup B)
  BY <1>1, FS_Subset
<1>3. /\ Cardinality(A) \in Nat /\ Cardinality(B) \in Nat /\ Cardinality(A \cap B) \in Nat
      /\ Cardinality(C) \in Nat /\ Cardinality(A \cup B) \in Nat
  BY <1>1, <1>2, FS_CardinalityType
<1> QED BY <1>1, <1>2, <1>3

LEMMA CountSwap ==
  ASSUME NEW S, IsFiniteSet(S), NEW x \in S, NEW y, NEW T \in SUBSET ((S \ {x}) \cup {y})
  PROVE  Cardinality(T) <= Cardinality(S) /\ Cardinality(T) \in Nat
<1>1. /\ IsFiniteSet(S \ {x}) /\ Cardinality(S \ {x}) = Cardinality(S) - 1
  BY FS_RemoveElement
<1>2. IsFiniteSet({y}) /\ Cardinality({y}) = 1
  BY FS_Singleton
<1>3. Cardinality(S) \in Nat
  BY FS_CardinalityType
<1> QED BY <1>1, <1>2, <1>3, CountUnion

LEMMA FewTokens ==
  ASSUME NEW f, NEW S \in SUBSET Rpc
  PROVE  /\ IsFiniteSet({f[r] : r \in S})
         /\ Cardinality({f[r] : r \in S}) <= Cardinality(Rpc)
         /\ Cardinality({f[r] : r \in S}) \in Nat
         /\ Cardinality(Rpc) \in Nat
<1> DEFINE T == {f[r] : r \in S}
           g == [r \in S |-> f[r]]
<1>1. IsFiniteSet(S) /\ Cardinality(S) <= Cardinality(Rpc)
  BY FS_Subset, GateAssumption
<1>2. g \in Surjection(S, T)
  BY DEF Surjection
<1>3. IsFiniteSet(T) /\ Cardinality(T) <= Cardinality(S)
  BY <1>1, <1>2, FS_Surjection
<1>4. Cardinality(S) \in Nat /\ Cardinality(Rpc) \in Nat /\ Cardinality(T) \in Nat
  BY <1>1, <1>3, FS_CardinalityType, GateAssumption
<1> QED BY <1>1, <1>3, <1>4

LEMMA ClaimsFinite ==
  ASSUME TypeOK
  PROVE  /\ IsFiniteSet(SlotClaims) /\ Cardinality(SlotClaims) \in Nat
         /\ \A p \in Pairs, d \in Dirs :
              IsFiniteSet(LegClaims(p, d)) /\ Cardinality(LegClaims(p, d)) \in Nat
<1> DEFINE U == (TradeIds \cup Rpc) \cup {Worker}
<1>1. IsFiniteSet(U)
  BY GateAssumption, FS_Union, FS_AddElement
<1>2. \A r \in Rpc : Token(r) \in U
  BY DEF Token, TypeOK, RpcLocals
<1>3. SlotClaims \subseteq U
  BY <1>2 DEF SlotClaims, Open, Pending
<1>4. \A p \in Pairs, d \in Dirs : LegClaims(p, d) \subseteq U
  BY <1>2 DEF LegClaims, OnLeg, Open, PendingOn, Pending, WorkerClaims
<1> QED BY <1>1, <1>3, <1>4, FS_Subset, FS_CardinalityType

---------------------------------------------------------------------------
(* What a step can do to one row, to one request and to the worker's claims. *)

KeepsLeg(u) == trades'[u].pair = trades[u].pair /\ trades'[u].dir = trades[u].dir

\* No trade becomes open, except a row in use that the worker opens again.
QuietBook == \A u \in TradeIds :
                trades'[u].status = "open" =>
                   /\ trades[u].status # "free"
                   /\ u \in reopened' \/ (trades[u].status = "open" /\ KeepsLeg(u))

\* No force entry passes its checks.
QuietRequests == \A r \in Rpc :
                    rpc'[r].pc = "entry" => rpc[r].pc = "entry" /\ rpc'[r] = rpc[r]

\* No pair becomes a candidate.
QuietWorker == \A p \in Pairs : WorkerClaims(p)' \subseteq WorkerClaims(p)

LEMMA SettleRow ==
  ASSUME TypeOK, NEW t \in TradeIds, NEW s \in Statuses, Settle(t, s)
  PROVE  /\ \A u \in TradeIds \ {t} : trades'[u] = trades[u]
         /\ trades'[t].status = s
         /\ s # "deleted" => KeepsLeg(t)
<1>1. trades[t] \in TradeRows
  BY DEF TypeOK
<1>2. \A u \in TradeIds \ {t} : trades'[u] = trades[u]
  BY DEF Settle, TypeOK
<1>3. CASE s = "deleted"
  BY <1>2, <1>3 DEF Settle, TypeOK, Row
<1>4. CASE s # "deleted"
  <2>1. trades'[t] = [trades[t] EXCEPT !.status = s]
    BY <1>4 DEF Settle, TypeOK
  <2> QED BY <1>1, <1>2, <2>1 DEF TradeRows, KeepsLeg
<1> QED BY <1>3, <1>4

LEMMA NewTradeRow ==
  ASSUME TypeOK, NEW p, NEW d, NewTrade(p, d)
  PROVE  \E t \in TradeIds :
           /\ trades[t].status = "free"
           /\ trades'[t].status = "open" /\ trades'[t].pair = p /\ trades'[t].dir = d
           /\ \A u \in TradeIds \ {t} : trades'[u] = trades[u]
BY DEF NewTrade, TypeOK, Row

LEMMA OutcomesQuiet ==
  ASSUME TypeOK, NEW t \in TradeIds, NEW s \in Outcomes(t) \cup {"deleted"}, Settle(t, s)
  PROVE  QuietBook
<1>1. s \in Statuses /\ (s = "open" => trades[t].status = "open")
  BY DEF Outcomes, Statuses, TypeOK, TradeRows
<1> QED BY <1>1, SettleRow DEF QuietBook, KeepsLeg

LEMMA VisitQuiet ==
  ASSUME TypeOK, NEW t \in TradeIds, VisitTrade(t)
  PROVE  QuietBook
<1>1. PICK s \in VisitOutcomes(t) :
        /\ Settle(t, s)
        /\ reopened' = IF s = "open" /\ trades[t].status = "closed"
                          THEN reopened \cup {t} ELSE reopened
  BY DEF VisitTrade
<1>2. /\ s \in Statuses
      /\ s = "open" => trades[t].status = "open" \/ trades[t].status = "closed"
  BY VisitType
<1>3. /\ \A u \in TradeIds \ {t} : trades'[u] = trades[u]
      /\ trades'[t].status = s
      /\ s # "deleted" => KeepsLeg(t)
  BY <1>1, <1>2, SettleRow
<1> QED BY <1>1, <1>2, <1>3 DEF QuietBook, KeepsLeg

\* What the worker has opened again stays recorded.
LEMMA HistoryStep ==
  ASSUME [Next]_vars
  PROVE  reopened \subseteq reopened'
<1>1. CASE UNCHANGED reopened
  BY <1>1
<1>2. CASE \E t \in TradeIds : VisitTrade(t)
  BY <1>2 DEF VisitTrade
<1>3. CASE \/ StartIteration \/ EnterSection \/ LeaveSection
           \/ CheckSlots \/ FilterCandidates \/ EndEntries
           \/ \E p \in Pairs : NextPair(p)
           \/ \E d \in Dirs : CreateTrade(d) \/ RefuseTrade(d)
           \/ IterationFails \/ Restart
  BY <1>1, <1>3 DEF StartIteration, EnterSection, LeaveSection, CheckSlots, FilterCandidates,
     EndEntries, NextPair, CreateTrade, RefuseTrade, IterationFails, Restart
<1>4. CASE \E r \in Rpc : RpcStep(r)
  BY <1>1, <1>4 DEF RpcStep, ForceEntryCheck, ForceEntryExecute, ForceExitAll, ForceExitNext,
     ForceExitDone, ExitOrCancelOne, DeleteTrade, ReloadTrade, SetState
<1>5. CASE UNCHANGED vars
  BY <1>1, <1>5 DEF vars
<1> QED BY <1>2, <1>3, <1>4, <1>5 DEF Next, WorkerStep

\* Only create_trade and the force entry add to the open trades, apart from the rows
\* the worker opens again.
LEMMA BookStep ==
  ASSUME TypeOK, [Next]_vars,
         \A d \in Dirs : ~CreateTrade(d), \A r \in Rpc : ~ForceEntryExecute(r)
  PROVE  QuietBook
<1>1. CASE UNCHANGED trades
  BY <1>1 DEF QuietBook, KeepsLeg
<1>2. ASSUME NEW t \in TradeIds, VisitTrade(t) PROVE QuietBook
  BY <1>2, VisitQuiet
<1>3. ASSUME NEW r \in Rpc, NEW t \in TradeIds,
             ForceExitNext(r, t) \/ ExitOrCancelOne(r, t) \/ ReloadTrade(r, t)
      PROVE  QuietBook
  BY <1>3, OutcomesQuiet DEF ForceExitNext, ExitOrCancelOne, ReloadTrade
<1>4. ASSUME NEW r \in Rpc, NEW t \in TradeIds, DeleteTrade(r, t) PROVE QuietBook
  BY <1>4, OutcomesQuiet DEF DeleteTrade
<1>5. CASE \/ StartIteration \/ EnterSection \/ LeaveSection
           \/ CheckSlots \/ FilterCandidates \/ EndEntries
           \/ \E p \in Pairs : NextPair(p)
           \/ \E d \in Dirs : RefuseTrade(d)
           \/ IterationFails \/ Restart
  BY <1>1, <1>5 DEF StartIteration, EnterSection, LeaveSection, CheckSlots,
     FilterCandidates, EndEntries, NextPair, RefuseTrade, IterationFails, Restart
<1>6. CASE \E r \in Rpc : \/ \E p \in Pairs, d \in Dirs : ForceEntryCheck(r, p, d)
                          \/ ForceExitAll(r) \/ ForceExitDone(r) \/ SetState(r)
  BY <1>1, <1>6 DEF ForceEntryCheck, ForceExitAll, ForceExitDone, SetState
<1>7. CASE UNCHANGED vars
  BY <1>1, <1>7 DEF vars
<1> QED BY <1>2, <1>3, <1>4, <1>5, <1>6, <1>7 DEF Next, WorkerStep, RpcStep

\* Only the look-up of a force entry makes a request pending.
LEMMA RequestStep ==
  ASSUME TypeOK, [Next]_vars,
         \A r \in Rpc, p \in Pairs, d \in Dirs : ~ForceEntryCheck(r, p, d)
  PROVE  QuietRequests
<1>1. CASE UNCHANGED rpc
  BY <1>1 DEF QuietRequests
<1>2. ASSUME NEW r \in Rpc, rpc' = Answered(r) PROVE QuietRequests
  <2>1. rpc'[r].pc = "idle" /\ \A q \in Rpc \ {r} : rpc'[q] = rpc[q]
    BY <1>2 DEF Answered, Request, TypeOK
  <2> QED BY <2>1 DEF QuietRequests
<1>3. CASE Restart
  BY <1>3 DEF Restart, Request, QuietRequests
<1>4. ASSUME NEW r \in Rpc, ForceExitAll(r) PROVE QuietRequests
  <2>1. rpc'[r].pc = "exit" /\ \A q \in Rpc \ {r} : rpc'[q] = rpc[q]
    BY <1>4 DEF ForceExitAll, Request, TypeOK
  <2> QED BY <2>1 DEF QuietRequests
<1>5. ASSUME NEW r \in Rpc, NEW t \in TradeIds, ForceExitNext(r, t) PROVE QuietRequests
  <2>1. rpc[r] \in RpcLocals
    BY DEF TypeOK
  <2>2. rpc'[r].pc = "exit" /\ \A q \in Rpc \ {r} : rpc'[q] = rpc[q]
    BY <1>5, <2>1 DEF ForceExitNext, RpcLocals, TypeOK
  <2> QED BY <2>2 DEF QuietRequests
<1>6. CASE WorkerStep \/ IterationFails
  BY <1>1, <1>6 DEF WorkerStep, StartIteration, EnterSection, LeaveSection, VisitTrade,
     CheckSlots, FilterCandidates, EndEntries, NextPair, CreateTrade, RefuseTrade,
     IterationFails
<1>7. CASE \E r \in Rpc : ForceEntryExecute(r) \/ ForceExitDone(r)
  BY <1>2, <1>7 DEF ForceEntryExecute, ForceExitDone
<1>8. CASE \E r \in Rpc : \/ SetState(r)
                          \/ \E t \in TradeIds : \/ ExitOrCancelOne(r, t)
                                                 \/ DeleteTrade(r, t) \/ ReloadTrade(r, t)
  BY <1>1, <1>8 DEF SetState, ExitOrCancelOne, DeleteTrade, ReloadTrade
<1>9. CASE UNCHANGED vars
  BY <1>1, <1>9 DEF vars
<1> QED BY <1>3, <1>4, <1>5, <1>6, <1>7, <1>8, <1>9 DEF Next, RpcStep

LEMMA SignalRow ==
  ASSUME TypeOK, NEW d \in Dirs, NEW n \in {0, 1}, worker' = NextSignal(d, n)
  PROVE  /\ worker'.cands = worker.cands /\ worker'.pc = worker.pc
         /\ worker'.sigs = worker.sigs \ {d}
         /\ worker'.sigs # {} => worker'.pair = worker.pair
BY DEF NextSignal, TypeOK, WorkerLocals

\* How each step treats the worker's candidates and signals.
LEMMA WorkerCases ==
  ASSUME TypeOK, OneTry, [Next]_vars
  PROVE  \/ worker'.sigs = {} /\ worker'.cands = {}
         \/ /\ UNCHANGED <<worker.sigs, worker.cands, worker.pair>>
            /\ worker'.pc # "entries" => worker.pc # "entries"
         \/ worker.sigs = {} /\ worker'.sigs = {} /\ worker'.cands = worker.cands
         \/ FilterCandidates /\ worker.sigs = {} /\ worker'.sigs = {}
         \/ \E p \in Pairs : NextPair(p)
         \/ \E d \in Dirs : CreateTrade(d) \/ RefuseTrade(d)
<1> USE DEF TypeOK, WorkerLocals
<1>1. CASE StartIteration \/ EnterSection \/ LeaveSection
  BY <1>1 DEF StartIteration, EnterSection, LeaveSection, OneTry, Sections
<1>2. CASE \E t \in TradeIds : VisitTrade(t)
  BY <1>2 DEF VisitTrade
<1>3. CASE CheckSlots
  BY <1>3, RestType DEF CheckSlots, OneTry
<1>4. CASE FilterCandidates
  <2>1. worker.sigs = {}
    BY <1>4 DEF FilterCandidates, OneTry
  <2> QED BY <1>4, <2>1, RestType DEF FilterCandidates
<1>5. CASE EndEntries \/ IterationFails \/ Restart
  BY <1>5, RestType DEF EndEntries, IterationFails, Restart
<1>6. CASE worker' = worker
  BY <1>6
<1>7. CASE \E r \in Rpc : RpcStep(r)
  BY <1>6, <1>7 DEF RpcStep, ForceEntryCheck, ForceEntryExecute, ForceExitAll, ForceExitNext,
     ForceExitDone, ExitOrCancelOne, DeleteTrade, ReloadTrade, SetState
<1> QED BY <1>1, <1>2, <1>3, <1>4, <1>5, <1>6, <1>7 DEF Next, WorkerStep, vars

LEMMA OneTryStep == TypeOK /\ OneTry /\ [Next]_vars => OneTry'
<1> SUFFICES ASSUME TypeOK, OneTry, [Next]_vars PROVE OneTry'
  OBVIOUS
<1>1. CASE worker'.sigs = {}
  BY <1>1 DEF OneTry
<1>2. CASE /\ UNCHANGED <<worker.sigs, worker.cands, worker.pair>>
           /\ worker'.pc # "entries" => worker.pc # "entries"
  BY <1>2 DEF OneTry
<1>3. ASSUME NEW p \in Pairs, NextPair(p) PROVE OneTry'
  BY <1>3 DEF NextPair, OneTry, TypeOK, WorkerLocals
<1>4. ASSUME NEW d \in Dirs, CreateTrade(d) \/ RefuseTrade(d) PROVE OneTry'
  <2>1. PICK n \in {0, 1} : worker' = NextSignal(d, n)
    BY <1>4 DEF CreateTrade, RefuseTrade
  <2>2. worker.pc = "entries"
    BY <1>4 DEF CreateTrade, RefuseTrade
  <2> QED BY <2>1, <2>2, SignalRow DEF OneTry
<1> QED BY <1>1, <1>2, <1>3, <1>4, WorkerCases

\* Only the filter makes pairs candidates.
LEMMA ClaimStep ==
  ASSUME TypeOK, OneTry, [Next]_vars, ~FilterCandidates
  PROVE  QuietWorker
<1>1. CASE worker'.sigs = {} /\ worker'.cands = {}
  BY <1>1 DEF QuietWorker, WorkerClaims
<1>2. CASE UNCHANGED <<worker.sigs, worker.cands, worker.pair>>
  BY <1>2 DEF QuietWorker, WorkerClaims
<1>3. CASE worker'.sigs = {} /\ worker'.cands = worker.cands
  BY <1>3 DEF QuietWorker, WorkerClaims
<1>4. ASSUME NEW p \in Pairs, NextPair(p) PROVE QuietWorker
  <2>1. /\ worker'.cands = worker.cands \ {p} /\ p \in worker.cands
        /\ worker'.sigs # {} => worker'.pair = p
    BY <1>4 DEF NextPair, TypeOK, WorkerLocals
  <2> QED BY <2>1 DEF QuietWorker, WorkerClaims
<1>5. ASSUME NEW d \in Dirs, CreateTrade(d) \/ RefuseTrade(d) PROVE QuietWorker
  <2>1. PICK n \in {0, 1} : worker' = NextSignal(d, n)
    BY <1>5 DEF CreateTrade, RefuseTrade
  <2> QED BY <2>1, SignalRow DEF QuietWorker, WorkerClaims
<1> QED BY <1>1, <1>2, <1>3, <1>4, <1>5, WorkerCases

LEMMA RequestRow ==
  ASSUME TypeOK, NEW r \in Rpc, NEW p \in Pairs, NEW d \in Dirs,
         NEW t \in TradeIds \cup {NoTrade},
         rpc' = [rpc EXCEPT ![r] = Request("entry", p, d, t, {})]
  PROVE  /\ rpc'[r].pc = "entry" /\ rpc'[r].pair = p /\ rpc'[r].dir = d
         /\ rpc'[r].trade = t
         /\ \A q \in Rpc \ {r} : rpc'[q] = rpc[q]
BY DEF Request, TypeOK

LEMMA AnsweredRow ==
  ASSUME TypeOK, NEW r \in Rpc, rpc' = Answered(r)
  PROVE  rpc'[r].pc = "idle" /\ \A q \in Rpc \ {r} : rpc'[q] = rpc[q]
BY DEF Answered, Request, TypeOK

\* A row in use keeps its leg until it is deleted, and a deleted row stays so.
LEMMA RowStep ==
  ASSUME TypeOK, [Next]_vars, NEW u \in TradeIds, trades[u].status # "free"
  PROVE  \/ trades'[u].status = "deleted"
         \/ /\ trades[u].status \in {"open", "closed"}
            /\ trades'[u].status \in {"open", "closed"}
            /\ KeepsLeg(u)
<1> DEFINE Goal == \/ trades'[u].status = "deleted"
                   \/ /\ trades[u].status \in {"open", "closed"}
                      /\ trades'[u].status \in {"open", "closed"}
                      /\ KeepsLeg(u)
<1>1. CASE trades'[u] = trades[u]
  <2>1. trades[u].status \in Statuses
    BY DEF TypeOK, TradeRows
  <2> QED BY <1>1, <2>1 DEF KeepsLeg, Statuses
<1>2. ASSUME NEW t \in TradeIds, Settle(t, "deleted") PROVE Goal
  BY <1>1, <1>2, SettleRow DEF Statuses
<1>3. ASSUME NEW t \in TradeIds,
             NEW s \in (Outcomes(t) \cup VisitOutcomes(t)) \cup AdjustOutcomes(t), Settle(t, s)
      PROVE  Goal
  <2>1. s \in Statuses /\ (s # "deleted" /\ t = u => /\ s \in {"open", "closed"}
                                                     /\ trades[u].status \in {"open", "closed"})
    BY DEF Outcomes, VisitOutcomes, AdjustOutcomes, Statuses, TypeOK, TradeRows
  <2> QED BY <1>1, <1>3, <2>1, SettleRow
<1>4. ASSUME NEW p, NEW d, NewTrade(p, d) PROVE Goal
  BY <1>1, <1>4, NewTradeRow
<1>5. CASE \E t \in TradeIds : VisitTrade(t)
  BY <1>3, <1>5 DEF VisitTrade
<1>6. CASE \E d \in Dirs : CreateTrade(d)
  BY <1>4, <1>6 DEF CreateTrade
<1>7. ASSUME NEW r \in Rpc, ForceEntryExecute(r) PROVE Goal
  <2>1. rpc[r].trade # NoTrade => rpc[r].trade \in TradeIds
    BY DEF TypeOK, RpcLocals
  <2> QED BY <1>1, <1>3, <1>4, <1>7, <2>1 DEF ForceEntryExecute
<1>8. ASSUME NEW r \in Rpc, NEW t \in TradeIds,
             \/ ForceExitNext(r, t) \/ ExitOrCancelOne(r, t)
             \/ DeleteTrade(r, t) \/ ReloadTrade(r, t)
      PROVE  Goal
  BY <1>2, <1>3, <1>8 DEF ForceExitNext, ExitOrCancelOne, DeleteTrade, ReloadTrade
<1>9. CASE UNCHANGED trades
  BY <1>1, <1>9
<1>10. CASE \/ StartIteration \/ EnterSection \/ LeaveSection
            \/ CheckSlots \/ FilterCandidates \/ EndEntries
            \/ \E p \in Pairs : NextPair(p)
            \/ \E d \in Dirs : RefuseTrade(d)
            \/ IterationFails \/ Restart
  BY <1>9, <1>10 DEF StartIteration, EnterSection, LeaveSection, CheckSlots,
     FilterCandidates, EndEntries, NextPair, RefuseTrade, IterationFails, Restart
<1>11. CASE \E r \in Rpc : \/ \E p \in Pairs, d \in Dirs : ForceEntryCheck(r, p, d)
                           \/ ForceExitAll(r) \/ ForceExitDone(r) \/ SetState(r)
  BY <1>9, <1>11 DEF ForceEntryCheck, ForceExitAll, ForceExitDone, SetState
<1>12. CASE UNCHANGED vars
  BY <1>9, <1>12 DEF vars
<1> QED
  BY <1>5, <1>6, <1>7, <1>8, <1>10, <1>11, <1>12 DEF Next, WorkerStep, RpcStep

LEMMA SnapshotStep == TypeOK /\ SnapshotOK /\ [Next]_vars => SnapshotOK'
<1> SUFFICES ASSUME TypeOK, SnapshotOK, [Next]_vars PROVE SnapshotOK'
  OBVIOUS
<1> DEFINE Named(q, u) == \/ trades[u].status = "deleted"
                          \/ /\ trades[u].status \in {"open", "closed"}
                             /\ trades[u].pair = rpc[q].pair
                             /\ HedgeMode => trades[u].dir = rpc[q].dir
           Named1(q, u) == \/ trades'[u].status = "deleted"
                           \/ /\ trades'[u].status \in {"open", "closed"}
                              /\ trades'[u].pair = rpc'[q].pair
                              /\ HedgeMode => trades'[u].dir = rpc'[q].dir
<1> SUFFICES ASSUME NEW q \in Rpc, rpc'[q].pc = "entry", rpc'[q].trade # NoTrade
             PROVE  Named1(q, rpc'[q].trade)
  BY DEF SnapshotOK
<1>1. CASE rpc'[q] = rpc[q]
  <2>1. rpc[q].trade \in TradeIds
    BY <1>1 DEF TypeOK, RpcLocals
  <2>2. Named(q, rpc[q].trade)
    BY <1>1 DEF SnapshotOK
  <2>3. trades[rpc[q].trade].status # "free"
    BY <2>2
  <2> QED BY <1>1, <2>1, <2>2, <2>3, RowStep DEF KeepsLeg
<1>2. ASSUME NEW r \in Rpc, NEW p \in Pairs, NEW d \in Dirs, ForceEntryCheck(r, p, d)
      PROVE  Named1(q, rpc'[q].trade)
  <2>1. CASE r # q
    <3>1. rpc'[q] = rpc[q]
      BY <1>2, <2>1 DEF ForceEntryCheck, TypeOK
    <3> QED BY <1>1, <3>1
  <2>2. CASE r = q
    <3>1. PICK t \in OnLeg(p, d) : rpc' = [rpc EXCEPT ![r] = Request("entry", p, d, t, {})]
      <4>1. rpc' # [rpc EXCEPT ![r] = Request("entry", p, d, NoTrade, {})]
        BY <2>2, RequestRow
      <4> QED BY <1>2, <4>1 DEF ForceEntryCheck
    <3>2. t \in TradeIds
      BY DEF OnLeg, Open
    <3>3. rpc'[q].trade = t /\ rpc'[q].pair = p /\ rpc'[q].dir = d
      <4>1. rpc'[r].trade = t /\ rpc'[r].pair = p /\ rpc'[r].dir = d
        BY <3>1 DEF Request, TypeOK
      <4> QED BY <2>2, <4>1
    <3>4. /\ trades[t].status = "open" /\ trades[t].pair = p
          /\ HedgeMode => trades[t].dir = d
      BY DEF OnLeg, Open
    <3>5. /\ trades'[t].status = "open" /\ trades'[t].pair = p
          /\ HedgeMode => trades'[t].dir = d
      BY <1>2, <3>4 DEF ForceEntryCheck
    <3> HIDE DEF Named1
    <3>6. Named1(q, t)
      BY <3>3, <3>5 DEF Named1
    <3> QED BY <3>3, <3>6
  <2> QED BY <2>1, <2>2
<1>3. CASE QuietRequests
  BY <1>1, <1>3 DEF QuietRequests
<1> QED BY <1>2, <1>3, RequestStep

---------------------------------------------------------------------------
(* The bound on the open trades of the book.                               *)

\* A book and requests that add nothing leave no new claims.
LEMMA QuietSlots ==
  ASSUME QuietBook, QuietRequests, reopened \subseteq reopened'
  PROVE  SlotClaims' \subseteq SlotClaims
<1>1. Open' \ reopened' \subseteq Open
  BY DEF QuietBook, Open
<1>2. \A r \in Pending' : r \in Pending /\ Token(r)' = Token(r)
  BY DEF QuietRequests, Pending, Token
<1> QED BY <1>1, <1>2 DEF SlotClaims

LEMMA SubsetSlots ==
  ASSUME TypeOK, SlotInv, SlotClaims' \subseteq SlotClaims
  PROVE  SlotInv'
<1>1. IsFiniteSet(SlotClaims) /\ Cardinality(SlotClaims) \in Nat
  BY ClaimsFinite
<1>2. Cardinality(SlotClaims') <= Cardinality(SlotClaims) /\ Cardinality(SlotClaims') \in Nat
  BY <1>1, FS_Subset, FS_CardinalityType
<1>3. Cardinality(Rpc) \in Nat /\ MaxOpenTrades \in Nat
  BY FS_CardinalityType, GateAssumption
<1> QED BY <1>1, <1>2, <1>3 DEF SlotInv

\* What the pending requests may add is at most one trade each.
LEMMA TokensOver ==
  ASSUME NEW A, IsFiniteSet(A), NEW S \in SUBSET Pending',
         NEW C \in SUBSET (A \cup {Token(r)' : r \in S})
  PROVE  Cardinality(C) <= Cardinality(A) + Cardinality(Rpc) /\ Cardinality(C) \in Nat
<1> DEFINE f == [r \in Rpc |-> Token(r)']
           T == {f[r] : r \in S}
<1>1. S \subseteq Rpc
  BY DEF Pending
<1>2. {Token(r)' : r \in S} = T
  BY <1>1
<1> HIDE DEF f
<1>3. /\ IsFiniteSet(T) /\ Cardinality(T) <= Cardinality(Rpc)
      /\ Cardinality(T) \in Nat /\ Cardinality(Rpc) \in Nat
  BY <1>1, FewTokens
<1> HIDE DEF T
<1>4. C \in SUBSET (A \cup T)
  BY <1>2, Zenon
<1>5. /\ Cardinality(C) <= Cardinality(A) + Cardinality(T)
      /\ Cardinality(C) \in Nat /\ Cardinality(A) \in Nat
  BY <1>3, <1>4, CountUnion
<1> QED BY <1>3, <1>5

LEMMA SlotStep == TypeOK /\ SlotInv /\ [Next]_vars => SlotInv'
<1> SUFFICES ASSUME TypeOK, SlotInv, [Next]_vars PROVE SlotInv'
  OBVIOUS
<1>1. /\ MaxOpenTrades \in Nat /\ Cardinality(Rpc) \in Nat
      /\ IsFiniteSet(Open) /\ Open \subseteq TradeIds /\ Cardinality(Open) \in Nat
  BY SlotsType, FS_CardinalityType, GateAssumption
<1>2. ASSUME NEW d \in Dirs, CreateTrade(d) PROVE SlotInv'
  <2>1. Cardinality(Open) < MaxOpenTrades
    BY <1>2, SlotsType DEF CreateTrade, MayCreate
  <2>2. PICK t \in TradeIds : \A u \in TradeIds \ {t} : trades'[u] = trades[u]
    BY <1>2, NewTradeRow DEF CreateTrade
  <2>3. /\ Open' \subseteq Open \cup {t}
        /\ Cardinality(Open') <= Cardinality(Open) + 1
        /\ IsFiniteSet(Open') /\ Cardinality(Open') \in Nat
    <3>1. Open' \subseteq Open \cup {t}
      BY <2>2 DEF Open
    <3>2. IsFiniteSet({t}) /\ Cardinality({t}) = 1
      BY FS_Singleton
    <3> QED BY <1>1, <3>1, <3>2, CountUnion
  <2>4. /\ Cardinality(SlotClaims') <= Cardinality(Open') + Cardinality(Rpc)
        /\ Cardinality(SlotClaims') \in Nat
    <3>1. SlotClaims' \subseteq Open' \cup {Token(r)' : r \in Pending'}
      BY DEF SlotClaims
    <3> QED BY <2>3, <3>1, TokensOver
  <2> QED BY <1>1, <2>1, <2>3, <2>4 DEF SlotInv
<1>3. ASSUME NEW r \in Rpc, NEW p \in Pairs, NEW d \in Dirs, ForceEntryCheck(r, p, d)
      PROVE  SlotInv'
  <2>1. Open' = Open
    BY <1>3 DEF ForceEntryCheck, Open
  <2>2. CASE Cardinality(Open) < MaxOpenTrades
    <3>1. SlotClaims' \subseteq Open \cup {Token(q)' : q \in Pending'}
      BY <2>1 DEF SlotClaims
    <3>2. /\ Cardinality(SlotClaims') <= Cardinality(Open) + Cardinality(Rpc)
          /\ Cardinality(SlotClaims') \in Nat
      BY <1>1, <3>1, TokensOver
    <3> QED BY <1>1, <2>2, <3>2 DEF SlotInv
  <2>3. ASSUME NEW t \in OnLeg(p, d), rpc' = [rpc EXCEPT ![r] = Request("entry", p, d, t, {})]
        PROVE  SlotInv'
    <3>1. t \in Open /\ t # NoTrade
      BY GateAssumption DEF OnLeg, Open
    <3>2. rpc'[r].trade = t /\ \A q \in Rpc \ {r} : rpc'[q] = rpc[q]
      BY <2>3 DEF Request, TypeOK
    <3>3. Token(r)' = t /\ \A q \in Rpc \ {r} : Token(q)' = Token(q)
      BY <3>1, <3>2 DEF Token
    <3>4. Pending' \subseteq Pending \cup {r}
      BY <3>2 DEF Pending
    <3>5. SlotClaims' \subseteq SlotClaims
      BY <2>1, <3>1, <3>3, <3>4, HistoryStep DEF SlotClaims, Pending
    <3> QED BY <3>5, SubsetSlots
  <2> QED BY <1>3, <2>2, <2>3 DEF ForceEntryCheck
<1>4. ASSUME NEW r \in Rpc, ForceEntryExecute(r) PROVE SlotInv'
  <2>1. /\ rpc'[r].pc = "idle"
        /\ \A q \in Rpc \ {r} : rpc'[q] = rpc[q]
    BY <1>4, AnsweredRow DEF ForceEntryExecute
  <2>2. Pending' = Pending \ {r} /\ \A q \in Rpc \ {r} : Token(q)' = Token(q)
    BY <2>1 DEF Pending, Token
  <2>3. r \in Pending
    BY <1>4 DEF ForceEntryExecute, Pending
  <2>4. CASE UNCHANGED trades
    <3>1. SlotClaims' \subseteq SlotClaims
      BY <2>2, <2>4, HistoryStep DEF SlotClaims, Open, Pending
    <3> QED BY <3>1, SubsetSlots
  <2>5. CASE rpc[r].trade = NoTrade /\ NewTrade(rpc[r].pair, rpc[r].dir)
    <3>1. PICK t \in TradeIds : \A u \in TradeIds \ {t} : trades'[u] = trades[u]
      BY <2>5, NewTradeRow
    <3>2. Token(r) = r /\ r \in SlotClaims
      BY <2>3, <2>5, GateAssumption DEF Token, SlotClaims, TypeOK
    <3>3. \A q \in Rpc \ {r} : Token(q) # r
      BY GateAssumption DEF Token, TypeOK, RpcLocals
    <3>4. SlotClaims' \subseteq (SlotClaims \ {r}) \cup {t}
      <4>1. Open' \subseteq (Open \ {r}) \cup {t}
        BY <3>1, GateAssumption DEF Open
      <4>2. \A q \in Pending' : Token(q)' \in (SlotClaims \cup reopened) \ {r}
        BY <2>2, <3>3 DEF SlotClaims, Pending
      <4> QED BY <4>1, <4>2, HistoryStep DEF SlotClaims
    <3>5. /\ Cardinality(SlotClaims') <= Cardinality(SlotClaims)
          /\ Cardinality(SlotClaims') \in Nat /\ Cardinality(SlotClaims) \in Nat
      BY <3>2, <3>4, ClaimsFinite, CountSwap
    <3> QED BY <1>1, <3>5 DEF SlotInv
  <2>6. ASSUME rpc[r].trade # NoTrade,
               NEW s \in AdjustOutcomes(rpc[r].trade), Settle(rpc[r].trade, s)
        PROVE  SlotInv'
    <3>1. rpc[r].trade \in TradeIds /\ s \in Statuses
      BY <2>6 DEF TypeOK, RpcLocals, AdjustOutcomes
    <3>2. Open' \subseteq Open \cup {rpc[r].trade}
      BY <2>6, <3>1, SettleRow DEF Open
    <3>3. rpc[r].trade \in SlotClaims \cup reopened
      BY <2>3, <2>6 DEF SlotClaims, Token
    <3>4. SlotClaims' \subseteq SlotClaims
      BY <2>2, <3>2, <3>3, HistoryStep DEF SlotClaims, Pending
    <3> QED BY <3>4, SubsetSlots
  <2> QED BY <1>4, <2>4, <2>5, <2>6 DEF ForceEntryExecute
<1>5. CASE QuietBook /\ QuietRequests
  BY <1>5, HistoryStep, QuietSlots, SubsetSlots
<1> QED BY <1>2, <1>3, <1>4, <1>5, BookStep, RequestStep

---------------------------------------------------------------------------
(* The bound on the open trades of a leg.                                  *)

LEMMA QuietLegs ==
  ASSUME QuietBook, QuietRequests, QuietWorker, reopened \subseteq reopened',
         NEW p \in Pairs, NEW d \in Dirs
  PROVE  LegClaims(p, d)' \subseteq LegClaims(p, d)
<1>1. OnLeg(p, d)' \ reopened' \subseteq OnLeg(p, d)
  BY DEF QuietBook, OnLeg, Open, KeepsLeg
<1>2. \A r \in PendingOn(p, d)' : r \in PendingOn(p, d) /\ Token(r)' = Token(r)
  BY DEF QuietRequests, PendingOn, Pending, Token
<1>3. WorkerClaims(p)' \subseteq WorkerClaims(p)
  BY DEF QuietWorker
<1> QED BY <1>1, <1>2, <1>3 DEF LegClaims

SmallLeg(p, d) == Cardinality(LegClaims(p, d)) <= 1 + Cardinality(Rpc)

LEMMA SubsetLeg ==
  ASSUME TypeOK, LegInv, NEW p \in Pairs, NEW d \in Dirs,
         LegClaims(p, d)' \subseteq LegClaims(p, d)
  PROVE  SmallLeg(p, d)'
<1>1. IsFiniteSet(LegClaims(p, d)) /\ Cardinality(LegClaims(p, d)) \in Nat
  BY ClaimsFinite
<1>2. /\ Cardinality(LegClaims(p, d)') <= Cardinality(LegClaims(p, d))
      /\ Cardinality(LegClaims(p, d)') \in Nat
  BY <1>1, FS_Subset, FS_CardinalityType
<1>3. Cardinality(Rpc) \in Nat
  BY FS_CardinalityType, GateAssumption
<1> QED BY <1>1, <1>2, <1>3 DEF LegInv, SmallLeg

LEMMA SwapLeg ==
  ASSUME TypeOK, LegInv, NEW p \in Pairs, NEW d \in Dirs, NEW x \in LegClaims(p, d), NEW y,
         LegClaims(p, d)' \subseteq (LegClaims(p, d) \ {x}) \cup {y}
  PROVE  SmallLeg(p, d)'
<1>1. /\ IsFiniteSet(LegClaims(p, d)) /\ Cardinality(LegClaims(p, d)) \in Nat
      /\ Cardinality(Rpc) \in Nat
  BY ClaimsFinite, FS_CardinalityType, GateAssumption
<1>2. /\ Cardinality(LegClaims(p, d)') <= Cardinality(LegClaims(p, d))
      /\ Cardinality(LegClaims(p, d)') \in Nat
  BY <1>1, CountSwap
<1> QED BY <1>1, <1>2 DEF LegInv, SmallLeg

\* One claim that is not a request's leaves room for all the requests.
LEMMA OneAndTokens ==
  ASSUME NEW p \in Pairs, NEW d \in Dirs, NEW x,
         LegClaims(p, d)' \subseteq {x} \cup {Token(r)' : r \in PendingOn(p, d)'}
  PROVE  SmallLeg(p, d)'
<1> DEFINE T == {x} \cup {Token(r)' : r \in PendingOn(p, d)'}
<1>1. IsFiniteSet({x}) /\ Cardinality({x}) = 1
  BY FS_Singleton
<1>2. PendingOn(p, d)' \subseteq Pending' /\ Pending' \subseteq Rpc
  BY DEF PendingOn, Pending
<1>3. Cardinality(T) <= 1 + Cardinality(Rpc) /\ Cardinality(T) \in Nat
  BY <1>1, <1>2, TokensOver
<1>4. IsFiniteSet(T)
  <2> DEFINE f == [r \in Rpc |-> Token(r)']
  <2>1. {Token(r)' : r \in PendingOn(p, d)'} = {f[r] : r \in PendingOn(p, d)'}
    BY <1>2
  <2> HIDE DEF f
  <2>2. IsFiniteSet({f[r] : r \in PendingOn(p, d)'})
    BY <1>2, FewTokens
  <2> QED BY <1>1, <2>1, <2>2, FS_Union
<1>5. /\ Cardinality(LegClaims(p, d)') <= Cardinality(T)
      /\ Cardinality(LegClaims(p, d)') \in Nat
  BY <1>4, FS_Subset, FS_CardinalityType
<1>6. Cardinality(Rpc) \in Nat
  BY FS_CardinalityType, GateAssumption
<1> QED BY <1>3, <1>5, <1>6 DEF SmallLeg

LEMMA FilterLeg ==
  ASSUME TypeOK, OneTry, LegInv, [Next]_vars, FilterCandidates,
         NEW p \in Pairs, NEW d \in Dirs
  PROVE  SmallLeg(p, d)'
<1>1. worker.sigs = {} /\ UNCHANGED <<trades, rpc>>
  BY DEF FilterCandidates, OneTry
<1>2. /\ worker'.sigs = {}
      /\ worker'.cands = {} \/ worker'.cands = Candidates
  BY <1>1, RestType DEF FilterCandidates, TypeOK, WorkerLocals
<1>3. /\ OnLeg(p, d)' = OnLeg(p, d) /\ PendingOn(p, d)' = PendingOn(p, d)
      /\ \A r \in Rpc : Token(r)' = Token(r)
  BY <1>1 DEF OnLeg, Open, PendingOn, Pending, Token
<1>4. CASE WorkerClaims(p)' = {}
  <2>1. LegClaims(p, d)' \subseteq LegClaims(p, d)
    BY <1>3, <1>4, HistoryStep DEF LegClaims, PendingOn, Pending
  <2> QED BY <2>1, SubsetLeg
<1>5. CASE WorkerClaims(p)' # {}
  <2>1. ~HedgeMode /\ p \in Candidates
    BY <1>2, <1>5 DEF WorkerClaims
  <2>2. OnLeg(p, d) = {}
    BY <2>1 DEF Candidates, Occupied, OnLeg
  <2>3. LegClaims(p, d)' \subseteq {Worker} \cup {Token(r)' : r \in PendingOn(p, d)'}
    BY <1>3, <2>2 DEF LegClaims, WorkerClaims
  <2> QED BY <2>3, OneAndTokens
<1> QED BY <1>4, <1>5

LEMMA CreateLeg ==
  ASSUME TypeOK, OneTry, LegInv, [Next]_vars, NEW e \in Dirs, CreateTrade(e),
         NEW p \in Pairs, NEW d \in Dirs
  PROVE  SmallLeg(p, d)'
<1>1. /\ rpc' = rpc /\ e \in worker.sigs /\ worker.pair \in Pairs
      /\ worker' = NextSignal(e, 1)
  BY DEF CreateTrade, TypeOK
<1>2. PICK t \in TradeIds :
        /\ trades'[t].pair = worker.pair /\ trades'[t].dir = e
        /\ \A u \in TradeIds \ {t} : trades'[u] = trades[u]
  BY NewTradeRow DEF CreateTrade
<1>3. /\ PendingOn(p, d)' = PendingOn(p, d)
      /\ \A r \in Rpc : Token(r)' = Token(r)
  BY <1>1 DEF PendingOn, Pending, Token
<1>4. QuietWorker
  BY ClaimStep DEF CreateTrade, FilterCandidates
<1>5. OnLeg(p, d)' \subseteq OnLeg(p, d) \cup {t}
  BY <1>2 DEF OnLeg, Open
<1>6. CASE t \notin OnLeg(p, d)'
  <2>1. LegClaims(p, d)' \subseteq LegClaims(p, d)
    BY <1>3, <1>4, <1>5, <1>6, HistoryStep DEF LegClaims, QuietWorker, PendingOn, Pending
  <2> QED BY <2>1, SubsetLeg
<1>7. CASE t \in OnLeg(p, d)' /\ HedgeMode
  <2>1. p = worker.pair /\ d = e
    BY <1>2, <1>7 DEF OnLeg
  <2>2. OnLeg(p, d) = {}
    BY <1>7, <2>1 DEF CreateTrade, MayCreate, HasOpenTradeFor, OnLeg
  <2>3. WorkerClaims(p)' = {}
    BY <1>7 DEF WorkerClaims
  <2>4. LegClaims(p, d)' \subseteq {t} \cup {Token(r)' : r \in PendingOn(p, d)'}
    BY <1>5, <2>2, <2>3 DEF LegClaims
  <2> QED BY <2>4, OneAndTokens
<1>8. CASE t \in OnLeg(p, d)' /\ ~HedgeMode
  <2>1. p = worker.pair
    BY <1>2, <1>8 DEF OnLeg
  <2>2. worker.sigs = {e} /\ p \notin worker.cands
    BY <1>1, <1>8, <2>1 DEF OneTry
  <2>3. worker'.sigs = {} /\ worker'.cands = worker.cands
    BY <1>1, <2>2, SignalRow
  <2>4. Worker \in LegClaims(p, d) /\ WorkerClaims(p)' = {}
    BY <1>1, <1>8, <2>1, <2>2, <2>3, GateAssumption DEF LegClaims, WorkerClaims, TypeOK
  <2>5. \A r \in Rpc : Token(r) # Worker
    BY GateAssumption DEF Token, TypeOK, RpcLocals
  <2>6. OnLeg(p, d) \subseteq (LegClaims(p, d) \cup reopened) \ {Worker}
    BY GateAssumption DEF LegClaims, OnLeg, Open
  <2>7. LegClaims(p, d)' \subseteq (LegClaims(p, d) \ {Worker}) \cup {t}
    BY <1>3, <1>5, <2>4, <2>5, <2>6, HistoryStep DEF LegClaims, PendingOn, Pending
  <2> QED BY <2>4, <2>7, SwapLeg
<1> QED BY <1>6, <1>7, <1>8

LEMMA CheckLeg ==
  ASSUME TypeOK, OneTry, LegInv, [Next]_vars,
         NEW r \in Rpc, NEW q \in Pairs, NEW e \in Dirs, ForceEntryCheck(r, q, e),
         NEW p \in Pairs, NEW d \in Dirs
  PROVE  SmallLeg(p, d)'
<1>1. /\ OnLeg(p, d)' = OnLeg(p, d) /\ WorkerClaims(p)' = WorkerClaims(p)
  BY DEF ForceEntryCheck, OnLeg, Open, WorkerClaims
<1>2. PICK t \in TradeIds \cup {NoTrade} :
        /\ rpc' = [rpc EXCEPT ![r] = Request("entry", q, e, t, {})]
        /\ t = NoTrade => OnLeg(q, e) = {}
        /\ t # NoTrade => t \in OnLeg(q, e)
  BY GateAssumption DEF ForceEntryCheck, OnLeg, Open
<1>3. /\ rpc'[r].pair = q /\ rpc'[r].dir = e /\ rpc'[r].trade = t
      /\ \A u \in Rpc \ {r} : rpc'[u] = rpc[u]
  BY <1>2 DEF Request, TypeOK
<1>4. \A u \in Rpc \ {r} : /\ Token(u)' = Token(u)
                           /\ u \in PendingOn(p, d)' => u \in PendingOn(p, d)
  BY <1>3 DEF Token, PendingOn, Pending
<1>5. CASE r \notin PendingOn(p, d)'
  <2>1. LegClaims(p, d)' \subseteq LegClaims(p, d)
    BY <1>1, <1>4, <1>5, HistoryStep DEF LegClaims, PendingOn, Pending
  <2> QED BY <2>1, SubsetLeg
<1>6. CASE r \in PendingOn(p, d)'
  <2>1. p = q /\ (HedgeMode => d = e)
    BY <1>3, <1>6 DEF PendingOn
  <2>2. OnLeg(p, d) = OnLeg(q, e)
    BY <2>1 DEF OnLeg
  <2>3. CASE t # NoTrade
    <3>1. Token(r)' = t /\ t \in OnLeg(p, d)
      BY <1>2, <1>3, <2>2, <2>3 DEF Token
    <3>2. LegClaims(p, d)' \subseteq LegClaims(p, d)
      BY <1>1, <1>4, <3>1, HistoryStep DEF LegClaims, PendingOn, Pending
    <3> QED BY <3>2, SubsetLeg
  <2>4. CASE t = NoTrade
    <3>1. LegClaims(p, d)' \subseteq {Worker} \cup {Token(u)' : u \in PendingOn(p, d)'}
      BY <1>1, <1>2, <2>2, <2>4 DEF LegClaims, WorkerClaims
    <3> QED BY <3>1, OneAndTokens
  <2> QED BY <2>3, <2>4
<1> QED BY <1>5, <1>6

LEMMA ExecuteLeg ==
  ASSUME TypeOK, OneTry, SnapshotOK, LegInv, [Next]_vars,
         NEW r \in Rpc, ForceEntryExecute(r),
         NEW p \in Pairs, NEW d \in Dirs
  PROVE  SmallLeg(p, d)'
<1>1. WorkerClaims(p)' = WorkerClaims(p)
  BY DEF ForceEntryExecute, WorkerClaims
<1>2. rpc'[r].pc = "idle" /\ \A u \in Rpc \ {r} : rpc'[u] = rpc[u]
  BY AnsweredRow DEF ForceEntryExecute
<1>3. /\ r \notin PendingOn(p, d)'
      /\ \A u \in Rpc \ {r} : /\ Token(u)' = Token(u)
                              /\ u \in PendingOn(p, d)' => u \in PendingOn(p, d)
  BY <1>2 DEF Token, PendingOn, Pending
<1>4. CASE OnLeg(p, d)' \subseteq LegClaims(p, d) \cup reopened
  <2>1. LegClaims(p, d)' \subseteq LegClaims(p, d)
    BY <1>1, <1>3, <1>4, HistoryStep DEF LegClaims, PendingOn, Pending
  <2> QED BY <2>1, SubsetLeg
<1>5. CASE UNCHANGED trades
  BY <1>4, <1>5 DEF OnLeg, Open, LegClaims
<1>6. CASE rpc[r].trade = NoTrade /\ NewTrade(rpc[r].pair, rpc[r].dir)
  <2>1. PICK t \in TradeIds :
          /\ trades'[t].pair = rpc[r].pair /\ trades'[t].dir = rpc[r].dir
          /\ \A u \in TradeIds \ {t} : trades'[u] = trades[u]
    BY <1>6, NewTradeRow
  <2>2. OnLeg(p, d)' \subseteq OnLeg(p, d) \cup {t}
    BY <2>1 DEF OnLeg, Open
  <2>3. CASE t \notin OnLeg(p, d)'
    BY <1>4, <2>2, <2>3 DEF LegClaims
  <2>4. CASE t \in OnLeg(p, d)'
    <3>1. r \in PendingOn(p, d) /\ Token(r) = r
      BY <1>6, <2>1, <2>4 DEF OnLeg, PendingOn, Pending, ForceEntryExecute, Token
    <3>2. r \in LegClaims(p, d)
      BY <3>1, GateAssumption DEF LegClaims, TypeOK
    <3>3. \A u \in Rpc \ {r} : Token(u) # r
      BY GateAssumption DEF Token, TypeOK, RpcLocals
    <3>4. \A u \in PendingOn(p, d)' : Token(u)' \in (LegClaims(p, d) \cup reopened) \ {r}
      BY <1>3, <3>3 DEF LegClaims, PendingOn, Pending
    <3>5. r \notin OnLeg(p, d) /\ r \notin WorkerClaims(p)
      BY GateAssumption DEF OnLeg, Open, WorkerClaims
    <3>6. LegClaims(p, d)' \subseteq (LegClaims(p, d) \ {r}) \cup {t}
      BY <1>1, <2>2, <3>4, <3>5, HistoryStep DEF LegClaims
    <3> QED BY <3>2, <3>6, SwapLeg
  <2> QED BY <2>3, <2>4
<1>7. ASSUME rpc[r].trade # NoTrade,
             NEW s \in AdjustOutcomes(rpc[r].trade), Settle(rpc[r].trade, s)
      PROVE  SmallLeg(p, d)'
  <2> DEFINE t == rpc[r].trade
  <2>1. t \in TradeIds /\ s \in Statuses
    BY <1>7 DEF TypeOK, RpcLocals, AdjustOutcomes
  <2>2. /\ \A u \in TradeIds \ {t} : trades'[u] = trades[u]
        /\ trades'[t].status = s /\ (s # "deleted" => KeepsLeg(t))
    BY <1>7, <2>1, SettleRow
  <2>3. OnLeg(p, d)' \subseteq OnLeg(p, d) \cup {t}
    BY <2>2 DEF OnLeg, Open
  <2>4. CASE t \notin OnLeg(p, d)'
    BY <1>4, <2>3, <2>4 DEF LegClaims
  <2>5. CASE t \in OnLeg(p, d)'
    <3>1. /\ trades[t].pair = p /\ (HedgeMode => trades[t].dir = d)
          /\ trades[t].status # "deleted"
      BY <1>7, <2>2, <2>5 DEF OnLeg, Open, KeepsLeg, AdjustOutcomes
    <3>2. rpc[r].pc = "entry"
      BY DEF ForceEntryExecute
    <3>3. rpc[r].pair = p /\ (HedgeMode => rpc[r].dir = d)
      BY <1>7, <3>1, <3>2 DEF SnapshotOK
    <3>4. t \in LegClaims(p, d) \cup reopened
      BY <1>7, <3>2, <3>3 DEF LegClaims, PendingOn, Pending, Token
    <3> QED BY <1>4, <2>3, <3>4 DEF LegClaims
  <2> QED BY <2>4, <2>5
<1> QED BY <1>5, <1>6, <1>7 DEF ForceEntryExecute

LEMMA LegStep == TypeOK /\ SnapshotOK /\ OneTry /\ LegInv /\ [Next]_vars => LegInv'
<1> SUFFICES ASSUME TypeOK, SnapshotOK, OneTry, LegInv, [Next]_vars,
                    NEW p \in Pairs, NEW d \in Dirs
             PROVE  SmallLeg(p, d)'
  BY DEF LegInv, SmallLeg
<1>1. CASE FilterCandidates
  BY <1>1, FilterLeg
<1>2. CASE \E e \in Dirs : CreateTrade(e)
  BY <1>2, CreateLeg
<1>3. CASE \E r \in Rpc, q \in Pairs, e \in Dirs : ForceEntryCheck(r, q, e)
  BY <1>3, CheckLeg
<1>4. CASE \E r \in Rpc : ForceEntryExecute(r)
  BY <1>4, ExecuteLeg
<1>5. CASE QuietBook /\ QuietRequests /\ QuietWorker
  BY <1>5, HistoryStep, QuietLegs, SubsetLeg
<1> QED BY <1>1, <1>2, <1>3, <1>4, <1>5, BookStep, RequestStep, ClaimStep

---------------------------------------------------------------------------
(* The inductive invariant and what follows from it.                       *)

LEMMA InvInit == Init => IInv
<1> SUFFICES ASSUME Init PROVE IInv
  OBVIOUS
<1>1. TypeOK
  BY TypeInit
<1>2. Open = {} /\ Pending = {} /\ reopened = {}
  BY DEF Init, Open, Row, Pending, Request
<1>3. worker.pc = "sleep" /\ worker.sigs = {} /\ worker.cands = {}
  BY DEF Init
<1>4. SnapshotOK /\ OneTry
  BY <1>2, <1>3 DEF SnapshotOK, OneTry, Pending
<1>5. SlotClaims = {} /\ \A p \in Pairs, d \in Dirs : LegClaims(p, d) = {}
  BY <1>2, <1>3 DEF SlotClaims, LegClaims, OnLeg, PendingOn, WorkerClaims
<1>6. /\ Cardinality({}) = 0 /\ Cardinality(Rpc) \in Nat /\ MaxOpenTrades \in Nat
  BY FS_EmptySet, FS_CardinalityType, GateAssumption
<1>7. SlotInv
  BY <1>5, <1>6 DEF SlotInv
<1>8. LegInv
  BY <1>5, <1>6 DEF LegInv
<1> QED BY <1>1, <1>4, <1>7, <1>8 DEF IInv

LEMMA InvStep == IInv /\ [Next]_vars => IInv'
BY TypeStep, SnapshotStep, OneTryStep, SlotStep, LegStep DEF IInv

\* IInv is an inductive invariant of the gate, with any number of pairs, rows,
\* request threads and slots, in hedge mode and in one-way mode.
THEOREM GateInvariant == Spec => []IInv
BY InvInit, InvStep, PTL DEF Spec

LEMMA SlotBoundHolds == IInv => SlotBound
<1> SUFFICES ASSUME IInv PROVE SlotBound
  OBVIOUS
<1>1. IsFiniteSet(SlotClaims) /\ Cardinality(SlotClaims) \in Nat /\ SlotInv
  BY ClaimsFinite DEF IInv
<1>2. /\ Cardinality(Open \ reopened) <= Cardinality(SlotClaims)
      /\ Cardinality(Open \ reopened) \in Nat
  <2>1. Open \ reopened \subseteq SlotClaims
    BY DEF SlotClaims
  <2> QED BY <1>1, <2>1, FS_Subset, FS_CardinalityType
<1>3. Cardinality(Rpc) \in Nat /\ MaxOpenTrades \in Nat
  BY FS_CardinalityType, GateAssumption
<1> QED BY <1>1, <1>2, <1>3 DEF SlotInv, SlotBound

\* However many requests race with the worker and with one another: leaving aside
\* the trades the worker has opened again, the book holds at most max_open_trades
\* open trades and one for each request thread.
THEOREM SlotsBounded == Spec => []SlotBound
BY GateInvariant, SlotBoundHolds, PTL

LEMMA LegBoundHolds == IInv => LegBound
<1> SUFFICES ASSUME IInv, NEW p \in Pairs, NEW d \in Dirs
             PROVE  Cardinality(OnLeg(p, d) \ reopened) <= 1 + Cardinality(Rpc)
  BY DEF LegBound
<1>1. /\ IsFiniteSet(LegClaims(p, d)) /\ Cardinality(LegClaims(p, d)) \in Nat
      /\ Cardinality(LegClaims(p, d)) <= 1 + Cardinality(Rpc)
  BY ClaimsFinite DEF IInv, LegInv
<1>2. /\ Cardinality(OnLeg(p, d) \ reopened) <= Cardinality(LegClaims(p, d))
      /\ Cardinality(OnLeg(p, d) \ reopened) \in Nat
  <2>1. OnLeg(p, d) \ reopened \subseteq LegClaims(p, d)
    BY DEF LegClaims
  <2> QED BY <1>1, <2>1, FS_Subset, FS_CardinalityType
<1>3. Cardinality(Rpc) \in Nat
  BY FS_CardinalityType, GateAssumption
<1> QED BY <1>1, <1>2, <1>3

\* Leaving aside the trades the worker has opened again, a leg never holds more than
\* one open trade and one for each request thread.
THEOREM LegsBounded == Spec => []LegBound
BY GateInvariant, LegBoundHolds, PTL

\* Without requests the trades a section has listed are open until it visits them.
ListedOpen == worker.todo \subseteq Open /\ reopened = {}

LEMMA ListedStep ==
  ASSUME Rpc = {}
  PROVE  TypeOK /\ ListedOpen /\ [Next]_vars => ListedOpen'
<1> SUFFICES ASSUME TypeOK, ListedOpen, [Next]_vars PROVE ListedOpen'
  OBVIOUS
<1>1. CASE worker'.todo \subseteq worker.todo /\ UNCHANGED <<trades, reopened>>
  BY <1>1 DEF ListedOpen, Open
<1>2. CASE EnterSection
  BY <1>2 DEF EnterSection, ListedOpen, Open, TypeOK, WorkerLocals
<1>3. ASSUME NEW t \in TradeIds, VisitTrade(t) PROVE ListedOpen'
  <2>1. PICK s \in VisitOutcomes(t) :
          /\ Settle(t, s)
          /\ reopened' = IF s = "open" /\ trades[t].status = "closed"
                            THEN reopened \cup {t} ELSE reopened
    BY <1>3 DEF VisitTrade
  <2>2. trades[t].status = "open"
    BY <1>3 DEF VisitTrade, ListedOpen, Open
  <2>3. reopened' = {}
    BY <2>1, <2>2 DEF ListedOpen
  <2>4. \A u \in TradeIds \ {t} : trades'[u] = trades[u]
    BY <2>1, VisitType, SettleRow
  <2>5. worker'.todo = worker.todo \ {t}
    BY <1>3 DEF VisitTrade, TypeOK, WorkerLocals
  <2> QED BY <2>3, <2>4, <2>5 DEF ListedOpen, Open
<1>4. ASSUME NEW d \in Dirs, CreateTrade(d) PROVE ListedOpen'
  <2>1. PICK t \in TradeIds : /\ trades[t].status = "free"
                              /\ \A u \in TradeIds \ {t} : trades'[u] = trades[u]
    BY <1>4, NewTradeRow DEF CreateTrade
  <2>2. worker'.todo = worker.todo /\ UNCHANGED reopened
    BY <1>4 DEF CreateTrade, NextSignal, TypeOK, WorkerLocals
  <2> QED BY <2>1, <2>2 DEF ListedOpen, Open
<1>5. CASE \/ StartIteration \/ LeaveSection \/ CheckSlots \/ FilterCandidates \/ EndEntries
           \/ IterationFails \/ Restart
           \/ \E p \in Pairs : NextPair(p)
           \/ \E d \in Dirs : RefuseTrade(d)
  BY <1>1, <1>5 DEF StartIteration, LeaveSection, CheckSlots, FilterCandidates, EndEntries,
     IterationFails, Restart, NextPair, RefuseTrade, NextSignal, Rest, TypeOK, WorkerLocals
<1>6. CASE UNCHANGED vars
  BY <1>1, <1>6 DEF vars
<1> QED BY <1>2, <1>3, <1>4, <1>5, <1>6 DEF Next, WorkerStep

\* A bot nobody sends requests to keeps the promise of _has_open_trade_for and
\* the limit max_open_trades exactly: the worker alone never breaks either, and
\* has no closed trade to open again.
THEOREM WorkerAloneIsSafe ==
  ASSUME Rpc = {}
  PROVE  Spec => [](/\ Cardinality(Open) <= MaxOpenTrades
                    /\ \A p \in Pairs, d \in Dirs : Cardinality(OnLeg(p, d)) <= 1)
<1>1. Cardinality(Rpc) = 0
  BY FS_EmptySet
<1>2. Init => ListedOpen
  BY DEF Init, ListedOpen
<1>3. SlotBound /\ LegBound /\ ListedOpen =>
         /\ Cardinality(Open) <= MaxOpenTrades
         /\ \A p \in Pairs, d \in Dirs : Cardinality(OnLeg(p, d)) <= 1
  <2> SUFFICES ASSUME SlotBound, LegBound, ListedOpen
               PROVE  /\ Cardinality(Open) <= MaxOpenTrades
                      /\ \A p \in Pairs, d \in Dirs : Cardinality(OnLeg(p, d)) <= 1
    OBVIOUS
  <2>1. Open \ reopened = Open
    BY DEF ListedOpen
  <2>2. \A p \in Pairs, d \in Dirs : OnLeg(p, d) \ reopened = OnLeg(p, d)
    BY DEF ListedOpen
  <2> QED BY <1>1, <2>1, <2>2, GateAssumption DEF SlotBound, LegBound
<1>4. TypeOK /\ ListedOpen /\ [Next]_vars => ListedOpen'
  BY ListedStep
<1> QED BY <1>2, <1>3, <1>4, TypeCorrect, SlotsBounded, LegsBounded, PTL DEF Spec

---------------------------------------------------------------------------
(* What the worker enters.                                                  *)

\* In the entry loop the candidates, and the pair whose signals are followed, are on
\* the whitelist of the iteration; outside there are none.
OnWhitelist ==
    /\ worker.pc # "entries" => worker.cands = {}
    /\ worker.cands \subseteq whitelist
    /\ worker.sigs # {} => worker.pair \in whitelist

\* Candidates come from the filter of the whitelist, which only a new iteration changes.
LEMMA OnWhitelistStep == TypeOK /\ OneTry /\ OnWhitelist /\ [Next]_vars => OnWhitelist'
<1> SUFFICES ASSUME TypeOK, OneTry, OnWhitelist, [Next]_vars PROVE OnWhitelist'
  OBVIOUS
<1>1. CASE worker' = Rest(worker)
  BY <1>1, RestType DEF OnWhitelist
<1>2. CASE /\ UNCHANGED <<worker.sigs, worker.cands, worker.pair, whitelist>>
           /\ worker'.pc # "entries" => worker.pc # "entries"
  BY <1>2 DEF OnWhitelist
<1>3. CASE StartIteration
  <2>1. worker.cands = {} /\ worker.sigs = {}
    BY <1>3 DEF StartIteration, OnWhitelist, OneTry
  <2> QED BY <1>3, <2>1 DEF StartIteration, OnWhitelist, TypeOK, WorkerLocals
<1>4. CASE EnterSection \/ LeaveSection \/ \E t \in TradeIds : VisitTrade(t)
  BY <1>2, <1>4 DEF EnterSection, LeaveSection, VisitTrade, Sections, TypeOK, WorkerLocals
<1>5. CASE CheckSlots
  BY <1>1, <1>2, <1>5 DEF CheckSlots, TypeOK, WorkerLocals
<1>6. CASE FilterCandidates
  <2>1. worker.sigs = {} /\ Candidates \subseteq whitelist
    BY <1>6 DEF FilterCandidates, OneTry, Candidates
  <2> QED BY <1>1, <1>6, <2>1 DEF FilterCandidates, OnWhitelist, TypeOK, WorkerLocals
<1>7. CASE EndEntries \/ IterationFails \/ Restart
  BY <1>1, <1>7 DEF EndEntries, IterationFails, Restart
<1>8. ASSUME NEW p \in Pairs, NextPair(p) PROVE OnWhitelist'
  <2>1. /\ worker'.cands = worker.cands \ {p} /\ p \in worker.cands
        /\ worker'.sigs # {} => worker'.pair = p
        /\ worker'.pc = "entries" /\ UNCHANGED whitelist
    BY <1>8 DEF NextPair, TypeOK, WorkerLocals
  <2> QED BY <2>1 DEF OnWhitelist
<1>9. ASSUME NEW d \in Dirs, CreateTrade(d) \/ RefuseTrade(d) PROVE OnWhitelist'
  <2>1. PICK n \in {0, 1} : worker' = NextSignal(d, n)
    BY <1>9 DEF CreateTrade, RefuseTrade
  <2>2. worker.pc = "entries" /\ UNCHANGED whitelist
    BY <1>9 DEF CreateTrade, RefuseTrade
  <2> QED BY <2>1, <2>2, SignalRow DEF OnWhitelist
<1>10. CASE \E r \in Rpc : RpcStep(r)
  BY <1>2, <1>10 DEF RpcStep, ForceEntryCheck, ForceEntryExecute, ForceExitAll, ForceExitNext,
     ForceExitDone, ExitOrCancelOne, DeleteTrade, ReloadTrade, SetState
<1>11. CASE UNCHANGED vars
  BY <1>2, <1>11 DEF vars
<1> QED BY <1>3, <1>4, <1>5, <1>6, <1>7, <1>8, <1>9, <1>10, <1>11 DEF Next, WorkerStep

\* A step that opens a new row without a request is create_trade, for the pair in hand.
LEMMA OnlyListed ==
  TypeOK /\ OnWhitelist /\ [Next]_vars =>
    [\A t \in TradeIds :
        trades[t].status = "free" /\ trades'[t].status = "open" /\ rpc' = rpc
           => trades'[t].pair \in whitelist]_vars
<1> SUFFICES ASSUME TypeOK, OnWhitelist, Next, NEW t \in TradeIds,
                    trades[t].status = "free", trades'[t].status = "open", rpc' = rpc
             PROVE  trades'[t].pair \in whitelist
  OBVIOUS
<1>1. ASSUME NEW d \in Dirs, CreateTrade(d) PROVE trades'[t].pair \in whitelist
  <2>1. NewTrade(worker.pair, d) /\ worker.sigs # {}
    BY <1>1 DEF CreateTrade
  <2>2. trades'[t].pair = worker.pair
    BY <2>1, NewTradeRow
  <2> QED BY <2>1, <2>2 DEF OnWhitelist
<1>2. ASSUME NEW r \in Rpc, ForceEntryExecute(r) PROVE FALSE
  <2>1. rpc[r].pc = "entry" /\ rpc'[r].pc = "idle"
    BY <1>2, AnsweredRow DEF ForceEntryExecute
  <2> QED BY <2>1
<1>3. CASE /\ \A d \in Dirs : ~CreateTrade(d)
           /\ \A r \in Rpc : ~ForceEntryExecute(r)
  <2>1. QuietBook
    BY <1>3, BookStep
  <2> QED BY <2>1 DEF QuietBook
<1> QED BY <1>1, <1>2, <1>3

\* The worker opens trades on pairs of the whitelist of the iteration only.
THEOREM EntersFromWhitelist == Spec => WhitelistOnly
<1>1. Init => OnWhitelist
  BY DEF Init, OnWhitelist
<1>2. IInv => TypeOK /\ OneTry
  BY DEF IInv
<1> QED BY <1>1, <1>2, OnWhitelistStep, OnlyListed, GateInvariant, PTL DEF Spec, WhitelistOnly
=============================================================================
