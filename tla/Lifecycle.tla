------------------------------ MODULE Lifecycle -----------------------------
(***************************************************************************)
(* The worker's loop and the requests that steer it.                       *)
(*                                                                         *)
(* The worker reads the bot's state once at the start of a turn, acts on   *)
(* it, and looks again before each additional entry and before the walk    *)
(* over the pairs it may enter, but not within that walk.  Threads of      *)
(* Telegram and the REST API write the same state at any time; a reload    *)
(* throws the bot away and builds a new one; errors and signals end the    *)
(* process, and the container starts it again.                             *)
(***************************************************************************)
EXTENDS Naturals

CONSTANTS
    InitialStates, \* what initial_state may be when the configuration is loaded
    CancelOnExit,  \* cancel_open_orders_on_exit
    MaxAhead,      \* bound: trades a turn may add to, and entries it may make
    MaxRequests,   \* bound: requests answered
    MaxFaults      \* bound: errors and signals

Active == {"RUNNING", "PAUSED"}
States == Active \cup {"STOPPED", "RELOAD_CONFIG"}

\* How far an open order has filled: not at all, so little of an entry or so much of an
\* exit that what it leaves could not be exited, or enough of an entry.
Fills == {"fresh", "stuck", "late"}

ASSUME LifecycleAssumption ==
    /\ InitialStates \subseteq Active \cup {"STOPPED"} /\ InitialStates # {}
    /\ CancelOnExit \in BOOLEAN
    /\ MaxAhead \in Nat /\ MaxRequests \in Nat /\ MaxFaults \in Nat

VARIABLES
    state,    \* FreqtradeBot.state
    old,      \* what the last turn returned
    seen,     \* what this turn has read
    pc,       \* where the worker is
    started,  \* startup() has run since this bot was built and since the last stop seen
    attached, \* the RPC modules answer
    pausing,  \* where a /pause is between its reads and writes
    forcing,  \* a forced exit has seen that the trader runs
    orders,   \* the open orders, by how far they have filled
    asked,    \* history: the mode this bot was last told to be in
    ahead,    \* what the walk over trades or pairs has ahead
    told,     \* history: what was asked when the worker looked at the state for this walk
    requests, \* requests answered
    faults    \* errors and signals so far

walk == <<ahead, told>>
worker == <<old, seen, pc, started, walk>>
counts == <<requests, faults>>
workerVars == <<state, old, seen, pc, started, attached, pausing, forcing, orders, asked,
          ahead, told, requests, faults>>

---------------------------------------------------------------------------
(* Building the bot: __init__ and _init.                                   *)

NewBot ==
    /\ state' = "STOPPED" /\ attached' = FALSE /\ asked' = "none" /\ started' = FALSE
    /\ pc' = "init"
    /\ UNCHANGED <<seen, pausing, forcing, orders, walk, counts>>

\* RPCManager: the modules answer, and the state is not set yet.
Listen ==
    /\ pc = "init"
    /\ pc' = "listen" /\ attached' = TRUE
    /\ UNCHANGED <<state, old, seen, started, pausing, forcing, orders, asked, walk, counts>>

\* The state is set, whatever it is by now.
Ready ==
    /\ pc = "listen"
    /\ state' \in InitialStates
    /\ asked' = "none" /\ pc' = "read"
    /\ UNCHANGED <<old, seen, started, attached, pausing, forcing, orders, walk, counts>>

---------------------------------------------------------------------------
(* A turn of the worker: _worker.                                          *)

\* Mutant: a reload that was asked for while the bot was being built counts as done.
ReloadsOnce == state = "RELOAD_CONFIG" /\ old # "RELOAD_CONFIG"

Reloads == state = "RELOAD_CONFIG"

Read ==
    /\ pc = "read"
    /\ seen' = state
    /\ pc' = IF Reloads THEN "clean" ELSE "turn"
    /\ UNCHANGED <<state, old, started, attached, pausing, forcing, orders, asked, walk, counts>>

Starts == seen \in Active /\ old \notin Active

Turn ==
    /\ pc = "turn"
    /\ started' = (seen # "STOPPED" /\ (started \/ Starts))
    /\ pc' = IF seen = "STOPPED" THEN "stopped" ELSE "process"
    /\ UNCHANGED <<state, old, seen, attached, pausing, forcing, orders, asked, walk, counts>>

\* Exits, cancels and replacements.
Process ==
    /\ pc = "process"
    /\ orders' \in SUBSET Fills /\ pc' = "adjust" /\ ahead' = MaxAhead
    /\ UNCHANGED <<state, old, seen, started, attached, pausing, forcing, asked, told, counts>>

\* Mutant: additional entries are skipped in the state the turn began with.
MayAddAsSeen == seen # "PAUSED"

\* check_and_call_adjust_trade_position leaves out additional entries when paused.
MayAdd == state # "PAUSED"

\* One trade: nothing, a partial exit, or an addition that is placed later.
Adjust(adds) ==
    /\ pc = "adjust" /\ ahead > 0
    /\ adds => MayAdd
    /\ orders' \in (IF adds THEN {orders} ELSE {orders, orders \cup {"fresh"}})
    /\ pc' = (IF adds THEN "add" ELSE "adjust") /\ ahead' = ahead - 1
    /\ told' = (IF adds THEN asked ELSE told)
    /\ UNCHANGED <<state, old, seen, started, attached, pausing, forcing, asked, counts>>

AddTo ==
    /\ pc = "add"
    /\ orders' = orders \cup {"fresh"} /\ pc' = "adjust" /\ told' = "none"
    /\ UNCHANGED <<state, old, seen, started, attached, pausing, forcing, asked, ahead, counts>>

\* The state decides whether the pairs are walked.
Gate ==
    /\ pc = "adjust"
    /\ IF state = "RUNNING" THEN pc' = "enter" /\ told' = asked /\ ahead' = MaxAhead
       ELSE pc' = "sleep" /\ told' = told /\ ahead' = 0
    /\ UNCHANGED <<state, old, seen, started, attached, pausing, forcing, orders, asked, counts>>

\* enter_positions walks them without another look.
EnterOne ==
    /\ pc = "enter" /\ ahead > 0
    /\ orders' = orders \cup {"fresh"} /\ ahead' = ahead - 1
    /\ UNCHANGED <<state, old, seen, pc, started, attached, pausing, forcing, asked, told, counts>>

EnterNoMore ==
    /\ pc = "enter"
    /\ pc' = "sleep" /\ told' = "none" /\ ahead' = 0
    /\ UNCHANGED <<state, old, seen, started, attached, pausing, forcing, orders, asked, counts>>

\* What handle_cancel_enter and handle_cancel_exit refuse to cancel.
Refused == orders \cap {"stuck"}

\* Mutant: orders are cancelled when the stop is seen, and not again.
CancelsOnce == CancelOnExit /\ old # "STOPPED"

Cancels == CancelOnExit

\* process_stopped, every turn.
Stopped ==
    /\ pc = "stopped"
    /\ orders' = (IF Cancels THEN Refused ELSE orders) /\ pc' = "sleep"
    /\ UNCHANGED <<state, old, seen, started, attached, pausing, forcing, asked, walk, counts>>

Returned == seen

Wake ==
    /\ pc = "sleep"
    /\ old' = Returned /\ pc' = "read"
    /\ UNCHANGED <<state, seen, started, attached, pausing, forcing, orders, asked, walk, counts>>

\* _reconfigure: cleanup of the old bot, then a new one.
Clean ==
    /\ pc = "clean"
    /\ orders' = (IF CancelOnExit THEN Refused ELSE orders) /\ pc' = "detach"
    /\ UNCHANGED <<state, old, seen, started, attached, pausing, forcing, asked, walk, counts>>

\* The modules stop when the requests they are answering are done.
Settled == pausing = "no" /\ ~forcing

Detach == pc = "detach" /\ Settled /\ NewBot /\ old' = "RELOAD_CONFIG"

---------------------------------------------------------------------------
(* Errors and signals.                                                     *)

Working == {"process", "adjust", "add", "enter"}

Fault == faults < MaxFaults /\ faults' = faults + 1 /\ UNCHANGED requests

\* A TemporaryError in process, or a look-up or a cancel that fails in process_stopped.
Retry ==
    /\ pc \in Working \cup {"stopped"}
    /\ Fault
    /\ orders' \in (IF pc = "stopped" THEN {s \in SUBSET orders : Refused \subseteq s}
                   ELSE {orders, orders \cup {"fresh"}})
    /\ pc' = "sleep" /\ told' = "none" /\ ahead' = 0
    /\ UNCHANGED <<state, old, seen, started, attached, pausing, forcing, asked>>

\* An OperationalException in process stops the trader.
StopOnError ==
    /\ pc \in Working
    /\ Fault
    /\ state' = "STOPPED" /\ asked' = "stop" /\ pc' = "sleep" /\ told' = "none" /\ ahead' = 0
    /\ UNCHANGED <<old, seen, started, attached, pausing, forcing, orders>>

\* Any other error, an error outside process, a signal: exit() may still cancel.
Die ==
    /\ pc # "dead"
    /\ Fault
    /\ pc' = "dead" /\ attached' = FALSE /\ pausing' = "no" /\ forcing' = FALSE
    /\ told' = "none" /\ ahead' = 0
    /\ orders' \in {orders} \cup {s \in SUBSET orders : CancelOnExit /\ Refused \subseteq s}
    /\ UNCHANGED <<state, old, seen, started, asked>>

Restart == pc = "dead" /\ NewBot /\ old' = "none"

---------------------------------------------------------------------------
(* Requests, each in a thread of its own.                                  *)

Request ==
    /\ attached /\ requests < MaxRequests
    /\ requests' = requests + 1 /\ UNCHANGED faults

Start ==
    /\ Request
    /\ state' = "RUNNING" /\ asked' = "start"
    /\ UNCHANGED <<worker, attached, pausing, forcing, orders>>

Stop ==
    /\ Request
    /\ state' = "STOPPED" /\ asked' = "stop"
    /\ UNCHANGED <<worker, attached, pausing, forcing, orders>>

Reload ==
    /\ Request
    /\ state' = "RELOAD_CONFIG" /\ asked' = "reload"
    /\ UNCHANGED <<worker, attached, pausing, forcing, orders>>

\* /pause reads, writes, reads again and writes again.
PauseRead ==
    /\ pausing = "no" /\ Request
    /\ pausing' = IF state = "RUNNING" THEN "running" ELSE "again"
    /\ asked' = IF state = "PAUSED" THEN "pause" ELSE asked
    /\ UNCHANGED <<state, worker, attached, forcing, orders>>

PauseWrite ==
    /\ pausing \in {"running", "stopped"}
    /\ state' = "PAUSED" /\ asked' = "pause"
    /\ pausing' = IF pausing = "running" THEN "again" ELSE "no"
    /\ UNCHANGED <<worker, attached, forcing, orders, counts>>

PauseAgain ==
    /\ pausing = "again"
    /\ pausing' = IF state = "STOPPED" THEN "stopped" ELSE "no"
    /\ UNCHANGED <<state, worker, attached, forcing, orders, asked, counts>>

\* A forced exit looks at the state first and places its order later.
ForceRead ==
    /\ ~forcing /\ state # "STOPPED" /\ Request
    /\ forcing' = TRUE
    /\ UNCHANGED <<state, worker, attached, pausing, orders, asked>>

ForcePlace ==
    /\ forcing
    /\ forcing' = FALSE /\ orders' = orders \cup {"fresh"}
    /\ UNCHANGED <<state, worker, attached, pausing, asked, counts>>

---------------------------------------------------------------------------
(* The exchange.                                                           *)

\* Orders fill further, and are among those that have filled as far as k.  How many orders
\* a kind stands for is not counted: some of the fresh ones, or all that are stuck.
FillsTo(o, k) ==
    /\ o \in orders /\ <<o, k>> \in {<<"fresh", "stuck">>, <<"fresh", "late">>, <<"stuck", "late">>}
    /\ orders' \in {(orders \ {o}) \cup {k}, (orders \ ({o} \cap {"stuck"})) \cup {k}}
    /\ UNCHANGED <<state, worker, attached, pausing, forcing, asked, counts>>

FillsUp(o) ==
    /\ o \in orders
    /\ orders' = orders \ {o}
    /\ UNCHANGED <<state, worker, attached, pausing, forcing, asked, counts>>

---------------------------------------------------------------------------
WorkerInit ==
    /\ state = "STOPPED" /\ old = "none" /\ seen = "STOPPED" /\ pc = "init"
    /\ started = FALSE /\ attached = FALSE /\ pausing = "no" /\ forcing = FALSE
    /\ orders \in SUBSET Fills /\ asked = "none" /\ ahead = 0 /\ told = "none"
    /\ requests = 0 /\ faults = 0

Loop ==
    \/ Read \/ Turn \/ Process \/ Stopped \/ Wake
    \/ AddTo \/ Gate \/ EnterOne \/ EnterNoMore
    \/ \E adds \in BOOLEAN : Adjust(adds)

Build == Listen \/ Ready \/ Clean \/ Detach \/ Restart
Answer == PauseWrite \/ PauseAgain \/ ForcePlace
Ask == Start \/ Stop \/ Reload \/ PauseRead \/ ForceRead
Exchange == \E o \in Fills : FillsUp(o) \/ \E k \in Fills : FillsTo(o, k)

WorkerNext == Loop \/ Build \/ Retry \/ StopOnError \/ Die \/ Answer \/ Ask \/ Exchange

WorkerSpec == WorkerInit /\ [][WorkerNext]_workerVars

\* The worker's thread goes on, the container is started again, and a request that is
\* being answered gets its turn.
WorkerFairSpec == WorkerSpec /\ WF_workerVars(Loop \/ Build) /\ WF_workerVars(Answer)

---------------------------------------------------------------------------
(* Correctness.                                                            *)

Modes == {"none", "start", "stop", "pause", "reload"}

\* Types; no request is being answered by a bot that no longer listens.
WorkerTypeOK ==
    /\ state \in States /\ old \in States \cup {"none"} /\ seen \in States
    /\ pc \in Working \cup {"init", "listen", "read", "turn", "stopped", "sleep", "clean",
                           "detach", "dead"}
    /\ started \in BOOLEAN /\ attached \in BOOLEAN /\ forcing \in BOOLEAN
    /\ orders \subseteq Fills
    /\ pausing \in {"no", "running", "again", "stopped"}
    /\ asked \in Modes /\ told \in Modes /\ ahead \in 0..MaxAhead
    /\ requests \in 0..MaxRequests /\ faults \in 0..MaxFaults
    /\ ~attached => pausing = "no" /\ ~forcing

\* Trades are never handled by a bot that has not started up since it was built, or since
\* the worker last saw it stopped: start-up is where lost orders are found again.
StartedFirst == pc \in Working => started

\* New trades are placed only in a walk for which the worker looked at the state when no
\* /stop, /pause or error that stops the trader was the last thing it was told, an addition
\* only if it was not told to pause.  So the walk that has begun is the last one: what
\* comes after its look still enters, and nothing after the next look does, until a
\* /start or a new bot.
EntriesObey ==
    [][/\ EnterOne => told \notin {"stop", "pause"}
       /\ AddTo => told # "pause"]_workerVars

\* With cancel_open_orders_on_exit a bot that is stopped for good has cancelled all its
\* open orders in the end, even those that the walk under way or a forced exit places
\* after the stop; but for those whose cancel would leave a trade that cannot be exited.
StopCancels == CancelOnExit /\ <>[](state = "STOPPED") => <>[](orders \subseteq {"stuck"})

\* A reload that is asked for is done, unless another request or an error overrides it.
ReloadDone == (state = "RELOAD_CONFIG") ~> (pc = "init" \/ state # "RELOAD_CONFIG")

\* "RPC runs in separate threads, can start handling external commands just after
\* initialization [...] so anything in the Freqtradebot instance should be ready
\* (initialized), including the initial state of the bot." (freqtradebot.py:172)
RequestsKept == [][Ready => asked = "none"]_workerVars
=============================================================================
