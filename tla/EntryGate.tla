------------------------------ MODULE EntryGate ------------------------------
(***************************************************************************)
(* Who may put an open trade into the book, and when.                      *)
(*                                                                         *)
(* The trading bot has one worker thread, which runs FreqtradeBot.process  *)
(* again and again, and one thread per RPC request (Telegram, REST).  All  *)
(* of them share the trades table and a non-reentrant mutex, _exit_lock.   *)
(* The worker takes the mutex for every section that touches open trades   *)
(* and for every create_trade, but reads the free slots and filters the    *)
(* entry candidates outside it; the force-entry request looks the book up  *)
(* outside it too and takes it for the order only.                         *)
(*                                                                         *)
(* What an exit or a cancelled order does to a trade is kept to its effect *)
(* on the book: the trade stays, is closed, or its row is deleted.         *)
(* The module TradeOrders opens that box for a single trade.               *)
(***************************************************************************)
EXTENDS Integers, FiniteSets

CONSTANTS
    Pairs,          \* tradable pairs
    TradeIds,       \* rows the trades table can hold in this run (the bound)
    Rpc,            \* threads that serve RPC requests
    Worker,         \* the worker thread
    NoTrade,        \* Python's None where a Trade is expected
    MaxOpenTrades,  \* config["max_open_trades"]
    HedgeMode,      \* config["hedge_mode"]
    PosAdjust       \* strategy.position_adjustment_enable

ASSUME GateAssumption ==
    /\ IsFiniteSet(TradeIds) /\ IsFiniteSet(Rpc)
    /\ MaxOpenTrades \in Nat
    /\ HedgeMode \in BOOLEAN /\ PosAdjust \in BOOLEAN
    /\ TradeIds \cap Rpc = {}
    /\ Worker \notin TradeIds \cup Rpc
    /\ NoTrade \notin TradeIds \cup Rpc \cup Pairs \cup {Worker}

VARIABLES
    state,      \* FreqtradeBot.state
    lock,       \* the holder of _exit_lock, or NoTrade when it is free
    trades,     \* the trades table
    whitelist,  \* pairlists.whitelist, the generated list
    worker,     \* the worker thread's position and local variables
    rpc         \* each request thread's position and local variables

\* For the properties only: the rows a section of the worker has opened again
\* after a request had closed them behind its back.
VARIABLE reopened

vars == <<state, lock, trades, whitelist, worker, rpc, reopened>>

States == {"RUNNING", "PAUSED", "STOPPED"}
Dirs == {"long", "short"}
Statuses == {"free", "open", "closed", "deleted"}
Sections == {"manage", "exit", "iceberg", "adjust"}

TradeRows == [pair : Pairs \cup {NoTrade}, dir : Dirs, status : Statuses]

Free == NoTrade
Row(p, d, s) == [pair |-> p, dir |-> d, status |-> s]
Request(pc, p, d, t, todo) ==
    [pc |-> pc, pair |-> p, dir |-> d, trade |-> t, todo |-> todo]

---------------------------------------------------------------------------
(* Queries on the trades table.                                            *)

Open == {t \in TradeIds : trades[t].status = "open"}

\* The rows a force entry for (p, d) looks for; per pair in one-way mode.
OnLeg(p, d) == {t \in Open : /\ trades[t].pair = p
                             /\ HedgeMode => trades[t].dir = d}

HasOpenTradeFor(p, d) == \E t \in Open : trades[t].pair = p /\ trades[t].dir = d

FreeSlots == IF Cardinality(Open) < MaxOpenTrades
                THEN MaxOpenTrades - Cardinality(Open) ELSE 0

Occupied(p) == {trades[t].dir : t \in {u \in Open : trades[u].pair = p}}

\* Mutant: a filter over the pairs that are analysed, which include the pairs of
\* trades that were open when the iteration began.
CandidatesAnalysed ==
    {p \in whitelist \cup {trades[t].pair : t \in {u \in TradeIds : trades[u].status = "closed"}} :
        Occupied(p) = {}}

\* _filter_entry_candidates applied to the generated whitelist.
Candidates == {p \in whitelist : IF HedgeMode THEN ~(Dirs \subseteq Occupied(p))
                                              ELSE Occupied(p) = {}}

---------------------------------------------------------------------------
(* What one handler may do to the row of trade t.                          *)

Outcomes(t) == IF trades[t].status = "open" THEN {"open", "closed", "deleted"}
                                            ELSE {trades[t].status}

\* A closed row keeps its leg, a deleted row is gone.
Settle(t, s) ==
    trades' = [trades EXCEPT ![t] = IF s = "deleted" THEN Row(NoTrade, "long", s)
                                                     ELSE [@ EXCEPT !.status = s]]

\* execute_entry for a trade that is not in the book yet.  It is refused
\* (stake, confirm_trade_entry, exchange error, order expired or rejected
\* unfilled) or leaves an open row.
NewTrade(p, d) == \E t \in TradeIds :
                     /\ trades[t].status = "free"
                     /\ trades' = [trades EXCEPT ![t] = Row(p, d, "open")]

---------------------------------------------------------------------------
(* The worker thread.                                                      *)

Init ==
    /\ state \in States
    /\ lock = Free
    /\ trades = [t \in TradeIds |-> Row(NoTrade, "long", "free")]
    /\ whitelist = {}
    /\ worker = [pc |-> "sleep", todo |-> {}, slots |-> 0, cands |-> {},
                 pair |-> NoTrade, sigs |-> {}]
    /\ rpc = [r \in Rpc |-> Request("idle", NoTrade, "long", NoTrade, {})]
    /\ reopened = {}

\* The worker wakes up and process() generates the pair list anew.
StartIteration ==
    /\ worker.pc = "sleep"
    /\ state \in {"RUNNING", "PAUSED"}
    /\ whitelist' \in SUBSET Pairs
    /\ worker' = [worker EXCEPT !.pc = "manage"]
    /\ UNCHANGED <<state, lock, trades, rpc, reopened>>

\* "with self._exit_lock:" of a section, which then lists the open trades.
EnterSection ==
    /\ worker.pc \in Sections
    /\ lock = Free
    /\ lock' = Worker
    /\ worker' = [worker EXCEPT !.todo = Open]
    /\ UNCHANGED <<state, trades, whitelist, rpc, reopened>>

\* What one round of a section may do to a listed trade.  The loops do not ask
\* again whether it is open: when a request closed it after it was listed,
\* execute_entry (a replaced entry order, the next slice of an iceberg, an
\* additional entry) sets is_open all the same.  Only exit_positions never enters.
VisitOutcomes(t) ==
    Outcomes(t) \cup (IF trades[t].status = "closed" /\ worker.pc # "exit"
                         THEN {"open"} ELSE {})

\* One round of the loop over the listed trades in manage_open_orders,
\* exit_positions, process_iceberg_orders or process_open_trade_positions.
VisitTrade(t) ==
    /\ lock = Worker
    /\ t \in worker.todo
    /\ \E s \in VisitOutcomes(t) :
          /\ Settle(t, s)
          /\ reopened' = IF s = "open" /\ trades[t].status = "closed"
                            THEN reopened \cup {t} ELSE reopened
    /\ worker' = [worker EXCEPT !.todo = @ \ {t}]
    /\ UNCHANGED <<state, lock, whitelist, rpc>>

NextSection(s) == CASE s = "manage"  -> "exit"
                    [] s = "exit"    -> "iceberg"
                    [] s = "iceberg" -> IF PosAdjust THEN "adjust" ELSE "slots"
                    [] s = "adjust"  -> "slots"

\* Mutant: a way out of a section that does not release the mutex.
LeaveSectionLocked ==
    /\ worker.pc \in Sections
    /\ lock = Worker
    /\ worker.todo = {}
    /\ worker' = [worker EXCEPT !.pc = NextSection(@)]
    /\ UNCHANGED <<state, lock, trades, whitelist, rpc, reopened>>

LeaveSection ==
    /\ worker.pc \in Sections
    /\ lock = Worker
    /\ worker.todo = {}
    /\ lock' = Free
    /\ worker' = [worker EXCEPT !.pc = NextSection(@)]
    /\ UNCHANGED <<state, trades, whitelist, rpc, reopened>>

Rest(w) == [w EXCEPT !.pc = "sleep", !.todo = {}, !.slots = 0, !.cands = {},
                     !.pair = NoTrade, !.sigs = {}]

\* The state and the free slots are read once, before the entry loop.
CheckSlots ==
    /\ worker.pc = "slots"
    /\ worker' = IF state = "RUNNING" /\ FreeSlots > 0
                    THEN [worker EXCEPT !.pc = "filter", !.slots = FreeSlots]
                    ELSE Rest(worker)
    /\ UNCHANGED <<state, lock, trades, whitelist, rpc, reopened>>

\* enter_positions up to its loop; a global pair lock ends it.
FilterCandidates ==
    /\ worker.pc = "filter"
    /\ \/ worker' = [worker EXCEPT !.pc = "entries", !.cands = Candidates]
       \/ worker' = Rest(worker)
    /\ UNCHANGED <<state, lock, trades, whitelist, rpc, reopened>>

\* The signals of the next pair.  With hedge mode the strategy may give one per
\* direction; without it create_trade asks for the single entry signal itself.
NextPair(p) ==
    /\ worker.pc = "entries" /\ worker.slots > 0
    /\ worker.sigs = {} /\ p \in worker.cands
    /\ \E ds \in SUBSET Dirs :
          /\ HedgeMode \/ \A d, e \in ds : d = e
          /\ worker' = [worker EXCEPT !.cands = @ \ {p}, !.sigs = ds,
                                      !.pair = IF ds = {} THEN NoTrade ELSE p]
    /\ UNCHANGED <<state, lock, trades, whitelist, rpc, reopened>>

\* Mutant: create_trade without the check of the leg.
MayCreateAnywhere(p, d) == FreeSlots > 0

\* The checks of create_trade before execute_entry.
MayCreate(p, d) == FreeSlots > 0 /\ (HedgeMode => ~HasOpenTradeFor(p, d))

NextSignal(d, created) ==
    [worker EXCEPT !.sigs = @ \ {d}, !.slots = @ - created,
                   !.pair = IF worker.sigs = {d} THEN NoTrade ELSE @]

\* create_trade under the mutex, from the slot check to the committed order.
CreateTrade(d) ==
    /\ worker.pc = "entries" /\ worker.slots > 0
    /\ d \in worker.sigs
    /\ lock = Free
    /\ MayCreate(worker.pair, d)
    /\ NewTrade(worker.pair, d)
    /\ worker' = NextSignal(d, 1)
    /\ UNCHANGED <<state, lock, whitelist, rpc, reopened>>

\* create_trade returns False or raises, or the entry order comes back fully
\* cancelled and the new row is deleted again before the mutex is released.
RefuseTrade(d) ==
    /\ worker.pc = "entries" /\ worker.slots > 0
    /\ d \in worker.sigs
    /\ lock = Free
    /\ \/ worker' = NextSignal(d, 0)
       \/ MayCreate(worker.pair, d) /\ worker' = NextSignal(d, 1)
    /\ UNCHANGED <<state, lock, trades, whitelist, rpc, reopened>>

\* Mutant: the entry loop leaves only when every slot is taken.
EndEntriesOnceFull ==
    /\ worker.pc = "entries"
    /\ worker.slots <= 0
    /\ worker' = Rest(worker)
    /\ UNCHANGED <<state, lock, trades, whitelist, rpc, reopened>>

EndEntries ==
    /\ worker.pc = "entries"
    /\ worker.slots <= 0 \/ (worker.sigs = {} /\ worker.cands = {})
    /\ worker' = Rest(worker)
    /\ UNCHANGED <<state, lock, trades, whitelist, rpc, reopened>>

\* An exception leaves process(): a TemporaryError is retried by the next
\* iteration, an OperationalException stops the bot.
IterationFails ==
    /\ worker.pc # "sleep"
    /\ state' \in {state, "STOPPED"}
    /\ lock' = IF lock = Worker THEN Free ELSE lock
    /\ worker' = Rest(worker)
    /\ UNCHANGED <<trades, whitelist, rpc, reopened>>

\* The process is killed and started again: only the trades table survives.
Restart ==
    /\ state' \in States
    /\ lock' = Free
    /\ whitelist' \in SUBSET Pairs
    /\ worker' = Rest(worker)
    /\ rpc' = [r \in Rpc |-> Request("idle", NoTrade, "long", NoTrade, {})]
    /\ UNCHANGED <<trades, reopened>>

WorkerStep ==
    \/ StartIteration \/ EnterSection \/ LeaveSection
    \/ \E t \in TradeIds : VisitTrade(t)
    \/ CheckSlots \/ FilterCandidates \/ EndEntries
    \/ \E p \in Pairs : NextPair(p)
    \/ \E d \in Dirs : CreateTrade(d) \/ RefuseTrade(d)

---------------------------------------------------------------------------
(* The request threads.                                                    *)

\* _rpc_force_entry before the mutex: validations, the look-up of the leg and,
\* when there is none, the check of the number of open trades.
ForceEntryCheck(r, p, d) ==
    /\ rpc[r].pc = "idle"
    /\ state = "RUNNING"
    /\ \/ \E t \in OnLeg(p, d) :
             /\ PosAdjust
             /\ rpc' = [rpc EXCEPT ![r] = Request("entry", p, d, t, {})]
       \/ /\ OnLeg(p, d) = {}
          /\ Cardinality(Open) < MaxOpenTrades
          /\ rpc' = [rpc EXCEPT ![r] = Request("entry", p, d, NoTrade, {})]
    /\ UNCHANGED <<state, lock, trades, whitelist, worker, reopened>>

Answered(r) == [rpc EXCEPT ![r] = Request("idle", NoTrade, "long", NoTrade, {})]

\* What execute_entry may leave of a trade that was looked up earlier.  It sets
\* is_open on the copy this thread loaded: the write reaches a row that was
\* closed meanwhile only if the copy was reloaded, and never a deleted row.
AdjustOutcomes(t) ==
    {s \in Statuses : \/ trades[t].status = "open"   /\ s \in {"open", "deleted"}
                      \/ trades[t].status = "closed" /\ s \in {"open", "closed"}}

\* Mutant: the trade that was looked up is not passed on to execute_entry.
ForceEntryExecuteAfresh(r) ==
    /\ rpc[r].pc = "entry"
    /\ lock = Free
    /\ UNCHANGED trades \/ NewTrade(rpc[r].pair, rpc[r].dir)
    /\ rpc' = Answered(r)
    /\ UNCHANGED <<state, lock, whitelist, worker, reopened>>

\* The rest of _rpc_force_entry, under the mutex.
ForceEntryExecute(r) ==
    /\ rpc[r].pc = "entry"
    /\ lock = Free
    /\ \/ UNCHANGED trades
       \/ rpc[r].trade = NoTrade /\ NewTrade(rpc[r].pair, rpc[r].dir)
       \/ /\ rpc[r].trade # NoTrade
          /\ \E s \in AdjustOutcomes(rpc[r].trade) : Settle(rpc[r].trade, s)
    /\ rpc' = Answered(r)
    /\ UNCHANGED <<state, lock, whitelist, worker, reopened>>

\* _rpc_force_exit "all": the mutex is held over the loop on open trades.
ForceExitAll(r) ==
    /\ rpc[r].pc = "idle"
    /\ state # "STOPPED"
    /\ lock = Free
    /\ lock' = r
    /\ rpc' = [rpc EXCEPT ![r] = Request("exit", NoTrade, "long", NoTrade, Open)]
    /\ UNCHANGED <<state, trades, whitelist, worker, reopened>>

ForceExitNext(r, t) ==
    /\ rpc[r].pc = "exit"
    /\ t \in rpc[r].todo
    /\ \E s \in Outcomes(t) : Settle(t, s)
    /\ rpc' = [rpc EXCEPT ![r].todo = @ \ {t}]
    /\ UNCHANGED <<state, lock, whitelist, worker, reopened>>

ForceExitDone(r) ==
    /\ rpc[r].pc = "exit"
    /\ rpc[r].todo = {}
    /\ lock' = Free
    /\ rpc' = Answered(r)
    /\ UNCHANGED <<state, trades, whitelist, worker, reopened>>

\* _rpc_force_exit of one trade and _rpc_cancel_open_order.
ExitOrCancelOne(r, t) ==
    /\ rpc[r].pc = "idle"
    /\ state # "STOPPED"
    /\ lock = Free
    /\ trades[t].status = "open"
    /\ \E s \in Outcomes(t) : Settle(t, s)
    /\ UNCHANGED <<state, lock, whitelist, worker, rpc, reopened>>

\* _rpc_delete removes the row of any trade, open or closed.
DeleteTrade(r, t) ==
    /\ rpc[r].pc = "idle"
    /\ lock = Free
    /\ trades[t].status \in {"open", "closed"}
    /\ Settle(t, "deleted")
    /\ UNCHANGED <<state, lock, whitelist, worker, rpc, reopened>>

\* _rpc_reload_trade_from_exchange runs handle_onexchange_order without the
\* mutex, at any moment of the worker's iteration.
ReloadTrade(r, t) ==
    /\ rpc[r].pc = "idle"
    /\ trades[t].status \in {"open", "closed"}
    /\ \E s \in Outcomes(t) : Settle(t, s)
    /\ UNCHANGED <<state, lock, whitelist, worker, rpc, reopened>>

\* _rpc_start, _rpc_pause and _rpc_stop write the state without the mutex.
SetState(r) ==
    /\ rpc[r].pc = "idle"
    /\ \/ state # "RUNNING" /\ state' = "RUNNING"
       \/ state # "PAUSED"  /\ state' = "PAUSED"
       \/ state # "STOPPED" /\ state' = "STOPPED"
    /\ UNCHANGED <<lock, trades, whitelist, worker, rpc, reopened>>

RpcStep(r) ==
    \/ \E p \in Pairs, d \in Dirs : ForceEntryCheck(r, p, d)
    \/ ForceEntryExecute(r)
    \/ ForceExitAll(r) \/ ForceExitDone(r)
    \/ \E t \in TradeIds : \/ ForceExitNext(r, t) \/ ExitOrCancelOne(r, t)
                           \/ DeleteTrade(r, t)   \/ ReloadTrade(r, t)
    \/ SetState(r)

---------------------------------------------------------------------------
Next == WorkerStep \/ IterationFails \/ Restart \/ \E r \in Rpc : RpcStep(r)

Spec == Init /\ [][Next]_vars

\* Inside an iteration the worker thread is never descheduled for ever, and a
\* request that waits for the mutex gets it in the end: the worker sleeps
\* between iterations with the mutex free, and people send the requests.
Fairness ==
    /\ SF_vars(WorkerStep)
    /\ \A r \in Rpc : /\ SF_vars(ForceEntryExecute(r))
                      /\ WF_vars(ForceExitDone(r))
                      /\ \A t \in TradeIds : WF_vars(ForceExitNext(r, t))

FairSpec == Spec /\ Fairness

---------------------------------------------------------------------------
(* Correctness.                                                            *)

WorkerLocals ==
    [pc : {"sleep", "slots", "filter", "entries"} \cup Sections,
     todo : SUBSET TradeIds, slots : Nat, cands : SUBSET Pairs,
     pair : Pairs \cup {NoTrade}, sigs : SUBSET Dirs]

RpcLocals ==
    [pc : {"idle", "entry", "exit"}, pair : Pairs \cup {NoTrade}, dir : Dirs,
     trade : TradeIds \cup {NoTrade}, todo : SUBSET TradeIds]

\* Types, who can hold the mutex, and which local variables are set when: a
\* signal is always one of a known pair, a row in use has a pair.
TypeOK ==
    /\ state \in States
    /\ lock \in {Free, Worker} \cup Rpc
    /\ trades \in [TradeIds -> TradeRows]
    /\ \A t \in TradeIds :
          trades[t].status \in {"open", "closed"} => trades[t].pair \in Pairs
    /\ whitelist \subseteq Pairs
    /\ worker \in WorkerLocals
    /\ worker.sigs # {} => worker.pair \in Pairs
    /\ rpc \in [Rpc -> RpcLocals]
    /\ \A r \in Rpc : rpc[r].pc = "entry" => rpc[r].pair \in Pairs
    /\ reopened \subseteq TradeIds

\* A pending force entry names a row of the leg it asked for, unless the row was
\* deleted meanwhile.  The look-up in _rpc_force_entry filters on pair, and in hedge mode on side.
SnapshotOK ==
    \A r \in Rpc : rpc[r].pc = "entry" /\ rpc[r].trade # NoTrade =>
        LET t == trades[rpc[r].trade]
        IN  \/ t.status = "deleted"
            \/ /\ t.status \in {"open", "closed"}
               /\ t.pair = rpc[r].pair
               /\ HedgeMode => t.dir = rpc[r].dir

Pending == {r \in Rpc : rpc[r].pc = "entry"}

\* What a pending force entry may still add to the open trades: a new row, for
\* which its thread stands, or the row it looked up.
Token(r) == IF rpc[r].trade = NoTrade THEN r ELSE rpc[r].trade

SlotClaims == (Open \cup {Token(r) : r \in Pending}) \ reopened

PendingOn(p, d) == {r \in Pending : /\ rpc[r].pair = p
                                    /\ HedgeMode => rpc[r].dir = d}

\* In one-way mode only the filter keeps the worker off an occupied pair, so a
\* candidate it has not tried yet is a claim too.
WorkerClaims(p) ==
    IF ~HedgeMode /\ (p \in worker.cands \/ (worker.sigs # {} /\ worker.pair = p))
       THEN {Worker} ELSE {}

LegClaims(p, d) ==
    (OnLeg(p, d) \cup {Token(r) : r \in PendingOn(p, d)} \cup WorkerClaims(p))
        \ reopened

\* The inductive forms of SlotBound and LegBound: whatever may still become an
\* open trade is counted with the trades that are open.
SlotInv == Cardinality(SlotClaims) <= MaxOpenTrades + Cardinality(Rpc)
LegInv == \A p \in Pairs, d \in Dirs :
             Cardinality(LegClaims(p, d)) <= 1 + Cardinality(Rpc)

\* The worker tries a pair once per iteration, in one-way mode with one signal.
OneTry ==
    /\ worker.pc # "entries" => worker.sigs = {}
    /\ worker.sigs # {} => worker.pair \notin worker.cands
    /\ ~HedgeMode => \A d, e \in worker.sigs : d = e

IInv == TypeOK /\ SnapshotOK /\ OneTry /\ SlotInv /\ LegInv

\* How far the book can pass max_open_trades: one trade for every request thread,
\* by force entries that checked the number outside the mutex, and the trades the
\* worker has opened again after /reload_trade had closed them under its loop.
\* Nothing else adds a trade beyond the limit.
SlotBound == Cardinality(Open \ reopened) <= MaxOpenTrades + Cardinality(Rpc)

\* A leg, (pair, direction) in hedge mode and the pair in one-way mode, has at
\* most one open trade, one more for every request thread, and those the worker
\* has opened again.  The worker's own gate in create_trade never adds a second
\* trade to a leg.
LegBound == \A p \in Pairs, d \in Dirs :
               Cardinality(OnLeg(p, d) \ reopened) <= 1 + Cardinality(Rpc)

\* Every trade the worker opens is on a pair of the generated whitelist of this
\* iteration: a pair that is only analysed because a trade is open on it does
\* not become a candidate when the trade is closed (enter_positions).
WhitelistOnly ==
    [][\A t \in TradeIds :
          trades[t].status = "free" /\ trades'[t].status = "open" /\ rpc' = rpc
             => trades'[t].pair \in whitelist]_vars

\* Every iteration of the worker comes to an end: its loops visit what they
\* listed at their start, and no path leaves the mutex taken.
IterationEnds == worker.pc # "sleep" ~> worker.pc = "sleep"

\* Every force entry and every force exit of all trades is answered.
RequestAnswered == \A r \in Rpc : rpc[r].pc # "idle" ~> rpc[r].pc = "idle"

\* "_has_open_trade_for" says of hedge mode that one direction of a pair never
\* has two open trades; those the worker opened again after a reload are left out
\* here, so that only the entries are in question.
NeverTwoOnLeg == \A p \in Pairs, d \in Dirs : Cardinality(OnLeg(p, d) \ reopened) <= 1

\* _rpc_pause answers "paused, no more entries will occur from now": the worker
\* opens trades in state RUNNING only.
NoEntryWhilePaused ==
    [][\A t \in TradeIds :
          trades[t].status = "free" /\ trades'[t].status = "open" /\ rpc' = rpc
             => state = "RUNNING"]_vars
===============================================================================
