---------------------------- MODULE ServerEngine ----------------------------
(***************************************************************************)
(* The trading engine of apps/server: engine.ts with its reconciler, its   *)
(* circuit breaker and its risk gate, over the exchange and the trades     *)
(* table.  It is one JavaScript thread with several suspended calls: up to *)
(* MaxStarts start() calls, the tick, an emergency stop and a manual close *)
(* each hold a place in their code, and interleave where they await.       *)
(*                                                                         *)
(* Prices are left out: a settlement books a profit or a loss of one unit, *)
(* and a price may be missing.  Time is left out: a timer may fire and a   *)
(* cooldown may have elapsed whenever the code looks.  The run is one UTC  *)
(* day, so MaxPerDay also bounds the table.  One emergency stop and one    *)
(* manual close at a time.  A request that failed does not execute later:  *)
(* the venue's receive window is shorter than the tick interval.           *)
(***************************************************************************)
EXTENDS Integers, Sequences, FiniteSets, SequencesExt, Sums

CONSTANTS
  Symbols,         \* the armed strategy's pairs
  None,            \* no order in flight, no timer
  MaxOpen,         \* risk: concurrent positions
  MaxPerDay,       \* risk: trades per day
  MaxLosses,       \* breaker: consecutive losing trades
  MaxDailyLoss,    \* breaker: net loss of the day, in units
  HasCooldown,     \* breaker: a trip ends by itself after a while
  MaxStarts,       \* bound: calls of start()
  MaxCommands,     \* bound: stops, emergency stops, manual closes and resets
  RefreshMayFail,  \* whether reading the account's positions may fail
  RequestMayFail   \* whether the other exchange calls may fail

ASSUME LimitsAssumption == {MaxOpen, MaxPerDay, MaxLosses, MaxDailyLoss} \subseteq Nat \ {0}
ASSUME BoundsAssumption == {MaxStarts, MaxCommands} \subseteq Nat
ASSUME FlagsAssumption  == {HasCooldown, RefreshMayFail, RequestMayFail} \subseteq BOOLEAN
ASSUME NoneAssumption   == None \notin Symbols \cup Nat \cup [symbol : Symbols, executed : BOOLEAN]
ASSUME PairsAssumption  == IsFiniteSet(Symbols)

StartIds == 1 .. MaxStarts

VARIABLES
  live,       \* trading enabled with credentials, or paper mode
  state,      \* EngineState
  timers,     \* start() calls whose tick interval is still scheduled
  tickTimer,  \* the interval this.tickTimer refers to
  starts,     \* where each start() call is, and the positions it has read
  tick,       \* where the tick is; it is `idle' exactly when ~this.ticking
  order,      \* the market order the tick awaits
  emergency,  \* where emergencyStop() is
  closing,    \* where closePosition() is, and the row it closes
  rows,       \* the trades table, in the order of insertion
  results,    \* P&L of the closed rows, in the order of closing
  equity,     \* paperEquity, relative to its start
  venue,      \* the exchange's open position per symbol, in orders
  cached,     \* symbols of cachedPositions
  tripped,    \* CircuitBreaker.tripped
  cooling,    \* whether CircuitBreaker.resumeAt is set
  halted,     \* history: an emergency stop returned and start() was not called since
  blurred,    \* history: symbols a failed call or an emergency stop touched
  overlapped, \* history: a start() began while another or a tick was suspended
  commands    \* bound: the operator's other commands so far

loopVars    == <<live, state, timers, tickTimer, halted, overlapped>>
callVars    == <<starts, emergency, closing>>
tickVars    == <<tick, order>>
tableVars   == <<rows, results, equity>>
breakerVars == <<tripped, cooling>>
restVars    == <<breakerVars, venue, cached, blurred, commands>>
vars == <<loopVars, callVars, tickVars, tableVars, restVars>>

Job(at) == [at |-> at, todo |-> {}, rows |-> {}, settled |-> FALSE]
Idle    == Job("idle")

Init ==
  /\ live \in BOOLEAN
  /\ state = "STOPPED" /\ timers = {} /\ tickTimer = None /\ halted = FALSE
  /\ starts = [c \in StartIds |-> [at |-> "new", read |-> {}]]
  /\ tick = Idle /\ order = None /\ emergency = Idle
  /\ closing = [at |-> "idle", row |-> 0]
  /\ rows = <<>> /\ results = <<>> /\ equity = 0
  /\ venue = [s \in Symbols |-> 0] /\ cached = {}
  /\ tripped = FALSE /\ cooling = FALSE
  /\ blurred = {} /\ overlapped = FALSE /\ commands = 0
-----------------------------------------------------------------------------
(***************************************************************************)
(* The trades table and the settlement of its rows.                        *)
(***************************************************************************)
OpenRows    == {i \in DOMAIN rows : rows[i].open}
OpenSymbols == {rows[i].symbol : i \in OpenRows}
AtVenue     == {s \in Symbols : venue[s] > 0}

InsertTrade(s) == rows' = Append(rows, [symbol |-> s, open |-> TRUE])

SettleTwice(i, pnl) ==                                    \* mutant: no guard
  /\ rows' = [rows EXCEPT ![i].open = FALSE]
  /\ results' = Append(results, pnl)
  /\ equity' = IF live THEN equity ELSE equity + pnl

(* reconciler.settle over closeTrade, whose WHERE clause makes a second    *)
(* settlement a no-op, and applyPaperPnl for the caller.                   *)
Settle(i, pnl) ==
  IF rows[i].open
  THEN /\ rows' = [rows EXCEPT ![i].open = FALSE]
       /\ results' = Append(results, pnl)
       /\ equity' = IF live THEN equity ELSE equity + pnl
  ELSE UNCHANGED tableVars

(* No price to settle with, or a settlement at one. *)
SettleOrSkip(i) == \/ UNCHANGED tableVars
                   \/ \E pnl \in {-1, 1} : Settle(i, pnl)

(***************************************************************************)
(* The circuit breaker.                                                    *)
(***************************************************************************)
ConsecutiveLosses(pnls) ==
  LET wins == {k \in DOMAIN pnls : pnls[k] > 0}
  IN  Len(pnls) - (IF wins = {} THEN 0 ELSE Max(wins))

BreachedAfter(pnls) == \/ ConsecutiveLosses(pnls) > MaxLosses      \* mutant
                       \/ Total(pnls) < -MaxDailyLoss

Breached(pnls) == \/ ConsecutiveLosses(pnls) >= MaxLosses
                  \/ Total(pnls) <= -MaxDailyLoss

(* evaluate() over the table's results.  An elapsed cooldown resets the    *)
(* breaker, and the limits are looked at again in the same call.           *)
Evaluate(pnls, elapsed) ==
  LET latched == tripped /\ ~(cooling /\ elapsed)
  IN  /\ tripped' = (latched \/ Breached(pnls))
      /\ cooling' = IF latched THEN cooling ELSE HasCooldown /\ Breached(pnls)

Command == commands < MaxCommands /\ commands' = commands + 1

ResetBreaker ==
  /\ Command
  /\ tripped
  /\ tripped' = FALSE /\ cooling' = FALSE
  /\ UNCHANGED <<loopVars, callVars, tickVars, tableVars, venue, cached, blurred>>
-----------------------------------------------------------------------------
(***************************************************************************)
(* start(), stop() and the timers.                                         *)
(***************************************************************************)
Starting == {c \in StartIds : starts[c].at \notin {"new", "done"}}

StartRefused(c) ==
  /\ starts' = [starts EXCEPT ![c].at = "done"]
  /\ UNCHANGED <<halted, overlapped>>

CallStart(c) ==
  /\ starts[c].at = "new"
  /\ \A d \in StartIds : d < c => starts[d].at # "new"
  /\ \/ /\ state \in {"RUNNING", "STARTING"}
        /\ StartRefused(c) /\ UNCHANGED state
     \/ /\ state \notin {"RUNNING", "STARTING"}          \* no strategy is armed
        /\ StartRefused(c) /\ state' = "ERROR"
     \/ /\ state \notin {"RUNNING", "STARTING"}
        /\ state' = "STARTING" /\ halted' = FALSE
        /\ starts' = [starts EXCEPT ![c].at = "ping"]
        /\ overlapped' = (overlapped \/ Starting # {} \/ tick # Idle)
  /\ UNCHANGED <<live, timers, tickTimer, emergency, closing, tickVars, tableVars,
                 restVars>>

(* The ping or the credential check failed. *)
StartFails(c) ==
  /\ RequestMayFail /\ starts[c].at \in {"ping", "credentials"}
  /\ state' = "ERROR"
  /\ starts' = [starts EXCEPT ![c].at = "done"]
  /\ UNCHANGED <<live, timers, tickTimer, halted, overlapped, emergency, closing, tickVars,
                 tableVars, restVars>>

(* The ping and then the credential check return; refreshAccountState asks *)
(* the venue for the positions, and the answer is on its way.              *)
StartProceeds(c) ==
  /\ live
  /\ \/ /\ starts[c].at = "ping"
        /\ starts' = [starts EXCEPT ![c].at = "credentials"]
     \/ /\ starts[c].at = "credentials"
        /\ starts' = [starts EXCEPT ![c].at = "refresh"]
     \/ /\ starts[c].at = "refresh"
        /\ starts' = [starts EXCEPT ![c] = [at |-> "read", read |-> AtVenue]]
  /\ UNCHANGED <<loopVars, emergency, closing, tickVars, tableVars, restVars>>

(* The rest of start() is synchronous: it does not look at the state again *)
(* and its last call starts a tick.                                        *)
StartRuns(c) ==
  /\ \/ ~live /\ starts[c].at = "ping" /\ UNCHANGED cached
     \/ starts[c].at = "read" /\ cached' = starts[c].read
     \/ RefreshMayFail /\ starts[c].at \in {"refresh", "read"} /\ UNCHANGED cached
  /\ \E elapsed \in BOOLEAN : Evaluate(results, elapsed)
  /\ state' = "RUNNING"
  /\ timers' = timers \cup {c} /\ tickTimer' = c
  /\ starts' = [starts EXCEPT ![c] = [at |-> "done", read |-> {}]]
  /\ tick' = IF tick = Idle THEN Job("refresh") ELSE tick
  /\ UNCHANGED <<live, halted, overlapped, emergency, closing, order, tableVars, venue, blurred,
                 commands>>

(* The body of stop(). *)
Halt ==
  /\ state' = "STOPPED"
  /\ timers' = timers \ {tickTimer}
  /\ tickTimer' = None
  /\ UNCHANGED <<live, overlapped>>

CallStop ==
  /\ Command
  /\ state # "STOPPED"
  /\ Halt /\ UNCHANGED halted
  /\ UNCHANGED <<callVars, tickVars, tableVars, breakerVars, venue, cached, blurred>>

TimerFiresUnrefreshed ==                          \* mutant: reconciles first
  /\ timers # {} /\ state = "RUNNING" /\ tick = Idle
  /\ tick' = Job("reconcile")
  /\ UNCHANGED <<loopVars, callVars, order, tableVars, restVars>>

TimerFires ==
  /\ timers # {} /\ state = "RUNNING" /\ tick = Idle
  /\ tick' = Job("refresh")
  /\ UNCHANGED <<loopVars, callVars, order, tableVars, restVars>>
-----------------------------------------------------------------------------
(***************************************************************************)
(* tick(): refresh, reconcile, evaluate the breaker, act on signals.       *)
(***************************************************************************)
(* refreshAccountState asks the venue; `todo' holds the answer on its way. *)
TickAsks ==
  /\ tick.at = "refresh"
  /\ tick' = [tick EXCEPT !.at = "read", !.todo = AtVenue]
  /\ UNCHANGED <<loopVars, callVars, order, tableVars, restVars>>

TickRefreshes ==
  /\ tick.at = "read"
  /\ \/ cached' = tick.todo
     \/ live /\ RefreshMayFail /\ UNCHANGED cached
  /\ tick' = [tick EXCEPT !.at = IF tick.settled THEN "evaluate" ELSE "reconcile", !.todo = {}]
  /\ UNCHANGED <<loopVars, callVars, order, tableVars, breakerVars, venue, blurred, commands>>

(* reconcileLive: the rows whose symbol the cached positions lack.         *)
TickReconcilesLive ==
  /\ live /\ tick.at = "reconcile"
  /\ tick' = [tick EXCEPT !.at = "settle",
                          !.rows = {i \in OpenRows : rows[i].symbol \notin cached}]
  /\ UNCHANGED <<loopVars, callVars, order, tableVars, restVars>>

TickSettlesRetrying(i) ==       \* mutant: waits for a price
  /\ tick.at = "settle" /\ i \in tick.rows
  /\ SettleOrSkip(i)
  /\ tick' = IF rows' = rows THEN tick ELSE [tick EXCEPT !.rows = @ \ {i}, !.settled = TRUE]
  /\ UNCHANGED <<loopVars, callVars, order, restVars>>

TickSettles(i) ==
  /\ tick.at = "settle" /\ i \in tick.rows
  /\ SettleOrSkip(i)
  /\ tick' = [tick EXCEPT !.rows = @ \ {i}, !.settled = @ \/ rows' # rows]
  /\ UNCHANGED <<loopVars, callVars, order, restVars>>

(* The account is read again if something was settled. *)
TickReconciled ==
  /\ tick.at = "settle" /\ tick.rows = {}
  /\ tick' = [tick EXCEPT !.at = IF tick.settled THEN "refresh" ELSE "evaluate"]
  /\ UNCHANGED <<loopVars, callVars, order, tableVars, restVars>>

(* reconcilePaper: the rows whose stop or target the mark has reached, in  *)
(* the order of the table; `booked' are their results in that order.  The  *)
(* second refresh of paper mode reads nothing.                             *)
TickReconcilesPaper ==
  /\ ~live /\ tick.at = "reconcile"
  /\ \E hit \in SUBSET OpenRows : \E booked \in [1 .. Cardinality(hit) -> {-1, 1}] :
       /\ rows' = [i \in DOMAIN rows |-> [rows[i] EXCEPT !.open = @ /\ i \notin hit]]
       /\ results' = results \o booked
       /\ equity' = equity + Total(booked)
  /\ tick' = [tick EXCEPT !.at = "evaluate"]
  /\ UNCHANGED <<loopVars, callVars, order, restVars>>

(* A trip flattens the book if it is configured to. *)
TickEvaluates(elapsed) ==
  /\ tick.at = "evaluate"
  /\ Evaluate(results, elapsed)
  /\ \/ ~tripped' /\ tick' = [Job("act") EXCEPT !.todo = Symbols]
     \/ tripped' /\ tick' = Idle
     \/ tripped' /\ OpenRows # {} /\ tick' = Job("positions")
  /\ UNCHANGED <<loopVars, callVars, order, tableVars, venue, cached, blurred, commands>>

(***************************************************************************)
(* actOnSignal.  assessRisk books a symbol from either source: the cached  *)
(* positions or the open rows.                                             *)
(***************************************************************************)
BookedAtVenue == cached                 \* mutant: the table is not asked
BookedInTable == OpenSymbols            \* mutant: the exchange is not asked
Booked == cached \cup OpenSymbols

AllowedOneMore(s) ==                                      \* mutant
  /\ Len(rows) <= MaxPerDay
  /\ s \notin Booked
  /\ Cardinality(Booked) < MaxOpen

Allowed(s) ==
  /\ Len(rows) < MaxPerDay
  /\ s \notin Booked
  /\ Cardinality(Booked) < MaxOpen

(* No signal, not enough candles, or a gate refuses. *)
TickSkips(s) ==
  /\ tick.at = "act" /\ order = None /\ s \in tick.todo
  /\ tick' = [tick EXCEPT !.todo = @ \ {s}]
  /\ UNCHANGED <<loopVars, callVars, order, tableVars, restVars>>

TickOrders(s) ==
  /\ live /\ tick.at = "act" /\ order = None /\ s \in tick.todo /\ Allowed(s)
  /\ tick' = [tick EXCEPT !.todo = @ \ {s}]
  /\ order' = [symbol |-> s, executed |-> FALSE]
  /\ UNCHANGED <<loopVars, callVars, tableVars, restVars>>

TickOpensPaper(s) ==
  /\ ~live /\ tick.at = "act" /\ s \in tick.todo /\ Allowed(s)
  /\ tick' = [tick EXCEPT !.todo = @ \ {s}]
  /\ InsertTrade(s)
  /\ UNCHANGED <<loopVars, callVars, order, results, equity, restVars>>

OrderConfirmed ==
  /\ order # None /\ order.executed
  /\ InsertTrade(order.symbol)
  /\ order' = None
  /\ UNCHANGED <<loopVars, callVars, tick, results, equity, restVars>>

(* Refused, or the call failed -- after the order executed, or without it. *)
OrderFails ==
  /\ RequestMayFail /\ order # None
  /\ order' = None
  /\ blurred' = blurred \cup {order.symbol}
  /\ UNCHANGED <<loopVars, callVars, tick, tableVars, breakerVars, venue, cached, commands>>

TickEnds ==
  /\ tick.at = "act" /\ tick.todo = {} /\ order = None
  /\ tick' = Idle
  /\ UNCHANGED <<loopVars, callVars, order, tableVars, restVars>>
-----------------------------------------------------------------------------
(***************************************************************************)
(* Flattening, shared by the tick and the emergency stop: closeAllPositions*)
(* reads the positions and closes them one by one, each best effort; then  *)
(* settleAllOpenTrades settles the rows open at that moment, one by one.   *)
(***************************************************************************)
ReadsPositions(job, next) ==
  /\ job.at = "positions"
  /\ \/ next = [job EXCEPT !.at = "close", !.todo = AtVenue] /\ UNCHANGED blurred
     \/ live /\ RequestMayFail /\ next = [job EXCEPT !.at = "close"] /\ blurred' = Symbols
  /\ UNCHANGED <<tableVars, venue>>

ClosesOne(s) == \/ venue' = [venue EXCEPT ![s] = 0] /\ UNCHANGED blurred
                \/ RequestMayFail /\ blurred' = blurred \cup {s} /\ UNCHANGED venue

Closes(job, next) ==
  /\ job.at = "close"
  /\ \E s \in job.todo : ClosesOne(s) /\ next = [job EXCEPT !.todo = @ \ {s}]
  /\ UNCHANGED tableVars

ListsRows(job, next) ==
  /\ job.at = "close" /\ job.todo = {}
  /\ next = [job EXCEPT !.at = "flatten", !.rows = OpenRows]
  /\ UNCHANGED <<tableVars, venue, blurred>>

SettlesAll(job, next) ==
  /\ job.at = "flatten"
  /\ \E i \in job.rows : SettleOrSkip(i) /\ next = [job EXCEPT !.rows = @ \ {i}]
  /\ UNCHANGED <<venue, blurred>>

Flattens(job, next) == \/ ReadsPositions(job, next) \/ Closes(job, next)
                       \/ ListsRows(job, next) \/ SettlesAll(job, next)

Flattened(job) == job.at = "flatten" /\ job.rows = {}

TickFlattens ==
  /\ Flattens(tick, tick')
  /\ UNCHANGED <<loopVars, callVars, order, breakerVars, cached, commands>>

TickFlattened ==
  /\ Flattened(tick)
  /\ tick' = Idle
  /\ UNCHANGED <<loopVars, callVars, order, tableVars, restVars>>

CallEmergency ==
  /\ Command
  /\ emergency = Idle
  /\ emergency' = Job("cancel")
  /\ blurred' = Symbols
  /\ UNCHANGED <<loopVars, starts, closing, tickVars, tableVars, breakerVars, venue, cached>>

(* cancelAllOrders; if it throws, closeAllPositions is never called.       *)
EmergencyCancels ==
  /\ emergency.at = "cancel"
  /\ \/ emergency' = [emergency EXCEPT !.at = "positions"]
     \/ live /\ RequestMayFail /\ emergency' = [emergency EXCEPT !.at = "close"]
  /\ UNCHANGED <<loopVars, starts, closing, tickVars, tableVars, breakerVars, venue,
                 cached, blurred, commands>>

EmergencyFlattens ==
  /\ Flattens(emergency, emergency')
  /\ UNCHANGED <<loopVars, starts, closing, tickVars, breakerVars, cached, commands>>

EmergencyGoesOn ==                            \* mutant: stop() is not called
  /\ Flattened(emergency)
  /\ emergency' = Idle
  /\ UNCHANGED <<loopVars, starts, closing, tickVars, tableVars, restVars>>

EmergencyHalts ==
  /\ Flattened(emergency)
  /\ emergency' = Idle
  /\ halted' = TRUE
  /\ IF state = "STOPPED" THEN UNCHANGED <<live, state, timers, tickTimer, overlapped>> ELSE Halt
  /\ UNCHANGED <<starts, closing, tickVars, tableVars, restVars>>

(***************************************************************************)
(* closePosition: close at the exchange, then settle at whatever price and *)
(* evaluate the breaker.                                                   *)
(***************************************************************************)
CallClose(i) ==
  /\ Command
  /\ closing.at = "idle" /\ i \in OpenRows
  /\ closing' = [at |-> IF live THEN "exchange" ELSE "price", row |-> i]
  /\ UNCHANGED <<loopVars, starts, emergency, tickVars, tableVars, breakerVars, venue,
                 cached, blurred>>

CloseReturns ==
  /\ closing.at = "exchange"
  /\ closing' = [closing EXCEPT !.at = "price"]
  /\ ClosesOne(rows[closing.row].symbol)
  /\ UNCHANGED <<loopVars, starts, emergency, tickVars, tableVars, breakerVars, cached, commands>>

CloseSettles ==
  /\ closing.at = "price"
  /\ SettleOrSkip(closing.row)
  /\ IF rows' = rows THEN UNCHANGED breakerVars
     ELSE \E elapsed \in BOOLEAN : Evaluate(results', elapsed)
  /\ closing' = [at |-> "idle", row |-> 0]
  /\ UNCHANGED <<loopVars, starts, emergency, tickVars, venue, cached, blurred, commands>>
-----------------------------------------------------------------------------
(***************************************************************************)
(* The exchange (external).                                                *)
(***************************************************************************)
VenueExecutes ==
  /\ order # None /\ ~order.executed
  /\ order' = [order EXCEPT !.executed = TRUE]
  /\ venue' = [venue EXCEPT ![order.symbol] = @ + 1]
  /\ UNCHANGED <<loopVars, callVars, tick, tableVars, breakerVars, cached, blurred, commands>>

(* The attached stop or target fires. *)
VenueStopsOut(s) ==
  /\ venue[s] > 0
  /\ venue' = [venue EXCEPT ![s] = 0]
  /\ UNCHANGED <<loopVars, callVars, tickVars, tableVars, breakerVars, cached, blurred, commands>>
-----------------------------------------------------------------------------
StartStep == \E c \in StartIds : StartFails(c) \/ StartProceeds(c) \/ StartRuns(c)

TickStep ==
  \/ TickAsks \/ TickRefreshes \/ TickReconcilesLive \/ TickReconciled \/ TickReconcilesPaper
  \/ TickFlattens \/ TickFlattened \/ TickEnds \/ OrderConfirmed \/ OrderFails
  \/ \E elapsed \in BOOLEAN : TickEvaluates(elapsed)
  \/ \E i \in DOMAIN rows : TickSettles(i)
  \/ \E s \in Symbols : TickSkips(s) \/ TickOrders(s) \/ TickOpensPaper(s)

EmergencyStep == EmergencyCancels \/ EmergencyFlattens \/ EmergencyHalts

CloseStep == CloseReturns \/ CloseSettles

Operator ==
  \/ CallStop \/ CallEmergency \/ ResetBreaker
  \/ \E c \in StartIds : CallStart(c)
  \/ \E i \in DOMAIN rows : CallClose(i)

Venue == VenueExecutes \/ \E s \in Symbols : VenueStopsOut(s)

Next == StartStep \/ TimerFires \/ TickStep \/ EmergencyStep \/ CloseStep \/ Operator \/ Venue

Spec == Init /\ [][Next]_vars

(* Every awaited call returns or throws, timers fire, orders execute, and  *)
(* a cooldown that is waited for elapses.                                  *)
Fairness ==
  /\ WF_vars(StartStep) /\ WF_vars(TimerFires) /\ WF_vars(TickStep)
  /\ WF_vars(EmergencyStep) /\ WF_vars(CloseStep) /\ WF_vars(VenueExecutes)
  /\ SF_vars(TickEvaluates(TRUE))

FairSpec == Spec /\ Fairness
-----------------------------------------------------------------------------
(***************************************************************************)
(* Properties.                                                             *)
(***************************************************************************)
JobType(places) == [at : places, todo : SUBSET Symbols, rows : SUBSET (1 .. MaxPerDay),
                    settled : BOOLEAN]

(* Every variable has its type.                                            *)
TypeOk ==
  /\ live \in BOOLEAN /\ halted \in BOOLEAN /\ tripped \in BOOLEAN /\ cooling \in BOOLEAN
  /\ state \in {"STOPPED", "STARTING", "RUNNING", "ERROR"}
  /\ timers \subseteq StartIds /\ tickTimer \in StartIds \cup {None}
  /\ starts \in [StartIds -> [at : {"new", "ping", "credentials", "refresh", "read", "done"},
                              read : SUBSET Symbols]]
  /\ tick \in JobType({"idle", "refresh", "read", "reconcile", "settle", "evaluate", "act",
                       "positions", "close", "flatten"})
  /\ order = None \/ order \in [symbol : Symbols, executed : BOOLEAN]
  /\ emergency \in JobType({"idle", "cancel", "positions", "close", "flatten"})
  /\ closing \in [at : {"idle", "exchange", "price"}, row : 0 .. MaxPerDay]
  /\ Len(rows) <= MaxPerDay /\ Range(rows) \subseteq [symbol : Symbols, open : BOOLEAN]
  /\ Range(results) \subseteq {-1, 1} /\ equity \in -MaxPerDay .. MaxPerDay
  /\ venue \in [Symbols -> Nat]
  /\ cached \subseteq Symbols /\ blurred \subseteq Symbols

(* The risk limits of the strategy hold for the table: at most one open    *)
(* row per symbol and MaxOpen of them, whichever of tick, emergency stop,  *)
(* manual close and overlapping start() settled or refreshed meanwhile     *)
(* (risk.ts assessRisk).                                                   *)
RiskLimitsHold ==
  /\ \A i, j \in OpenRows : rows[i].symbol = rows[j].symbol => i = j
  /\ Cardinality(OpenRows) <= MaxOpen

(* A row is settled once: the reconciler, the breaker, an emergency stop   *)
(* and a manual close that race for it book one result between them, and   *)
(* the paper equity is the sum of the results (db.ts closeTrade).          *)
SettledOnce ==
  /\ Len(results) = Len(rows) - Cardinality(OpenRows)
  /\ equity = IF live THEN 0 ELSE Total(results)

(* The exchange never holds two entries on one symbol (risk.ts: "One       *)
(* position per symbol"), even after an order whose call failed was        *)
(* executed; and what it holds has an open row, or is the order in flight, *)
(* unless a call about the symbol failed or an emergency stop ran.  Nothing *)
(* is claimed once two start() calls overlapped.                           *)
TableDescribesVenue == overlapped \/
  /\ \A s \in Symbols : venue[s] <= 1
  /\ \A s \in AtVenue \ blurred : s \in OpenSymbols \/ (order # None /\ order.symbol = s)

(* A tick, an emergency stop and a manual close come to an end.            *)
TickFinishes      == tick # Idle ~> tick = Idle
EmergencyFinishes == emergency # Idle ~> (emergency = Idle /\ state = "STOPPED")

(* MaxLosses losing trades in a row trip the breaker while the engine runs, *)
(* whoever settled them (circuitBreaker.ts evaluate).                      *)
Losing == \E k \in 0 .. Len(results) - MaxLosses :
            \A j \in 1 .. Len(results) : j > k => results[j] < 0
LosingTrips == (Losing /\ state = "RUNNING") ~> (tripped \/ ~Losing \/ state # "RUNNING")

(* No order is sent between the end of an emergency stop and the next call *)
(* of start() (engine.ts: "flatten everything, cancel resting orders,      *)
(* halt").                                                                 *)
HaltMeansHalt == [][order = None /\ order' # None => ~halted]_vars

(* A trip with a cooldown ends while the engine runs (shared: "Minutes to  *)
(* stay halted once tripped").                                             *)
CooldownEnds == (tripped /\ state = "RUNNING") ~> (~tripped \/ state # "RUNNING")
=============================================================================
