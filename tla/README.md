# ZTrade in TLA+

ZTrade is a crypto trading system in TypeScript: a set of packages (`packages/*`) that form an
event-driven trading engine for Bybit, a server (`apps/server`) that runs strategies on a timer
against the exchange, and a web dashboard. This directory holds TLA+ specifications of the parts of
it that hold state and run concurrently with an exchange, the TLC instances that check them, and
TLAPS proofs of what matters most.

## Inventory

| Part | State | Operations | Hard behaviour | What makes it correct |
|---|---|---|---|---|
| Order state machine (`execution/orderState.ts`) | one record per order | `applyOrderEvent` | late, duplicated, reordered events | state and fill agree; closed orders never change |
| Engine (`execution/engine.ts`) | orders, positions, intent counter | `handle`, `drainBroker`, `processIntent` | events arrive while a submit is awaited | no fill lost or counted twice |
| Live broker, REST (`adapters-bybit/liveBroker.ts`, `rest.ts`) | outbox | `submit`, `cancel`, `drainEvents`, snapshots | lost replies, timeouts, duplicates | the stream alone moves positions |
| Live pipeline (`adapters-bybit/livePipeline.ts`) | recovery gate, opens journalled | account events, cold start, reconciliation | crash between two steps; stale snapshots | durability first; fail closed |
| Journal (`execution/journal.ts`) | append-only file | `append`, `read`, `recoverState` | torn writes, replay | the replay rebuilds the book |
| Private stream (`adapters-bybit/privateWs.ts`) | connection state | connect, authenticate, arm, subscribe | reconnects, callbacks of old sockets | no subscription before the dead-man switch was asked for |
| Order book feed (`ingestion/orderbook.ts`, `bybitWs.ts`) | book, sequence, subscription | snapshot, delta, resubscribe | gaps, reordering, reconnects | a live book equals the venue's |
| Risk engine (`risk/engine.ts`, `breaker.ts`) | breaker state, rate window | `check`, `evaluatePortfolio`, reset | limits over stale exposure, a moving account | an approved order keeps the limits; a halt stays |
| Rate scheduler (`execution/scheduler.ts`) | token buckets, back-off per category, one level | take, observe | answers late and in any order | no burst; a rejection shortens nothing |
| Kill switch (`execution/killSwitch.ts`) | worker, armed, the panic's place | trigger, re-arm, cancel, list, close | lost and refused requests, two triggers, an engine that goes on | flat and no resting order |
| Smart execution (`execution/smartExec.ts`) | none | TWAP, iceberg, repeg, slippage guard | rounding remainders | parts add up |
| Package strategies (`execution/canary.ts`, `strategies.ts`) | closes, volumes, position | one turn per closed bar | forming bars, a position only asked for | replay equals live |
| Simulated broker (`adapters-sim`) | pending orders, outbox, seen ids | submit, cancel, step | latency, depth, place in the queue | no fill that was not earned |
| Bars (`ingestion/bars.ts`) | the open bar | trade, timer | late trades, empty intervals | a bar is its bucket's trades |
| Feature store, market data (`features/*`, `marketdata.ts`, `normalize.ts`) | figures per symbol, ticker state, ingestion | events, start, stop, snapshot | gaps, messages of an old ingestion | fresh or blank |
| Server engine (`apps/server/src/engine/*`) | state, timers, cached positions, trades table, breaker | start, stop, emergency stop, manual close, tick, settle | commands while a tick is suspended; failing requests | risk limits hold; a row is settled once; stopped means stopped |
| Paper account (`engine.ts`, `risk.ts`, `reconciler.ts`, `circuitBreaker.ts`, `money.ts`) | trades, marks, paper equity, the day's start | size, exit, trail, settle, trip | exits, flattening and the operator settle rows, also while a tick waits; midnight; restart | caps hold, equity is what was settled, stops only tighten |
| Strategies table and form (`db.ts`, `api.ts`, `seed.ts`, `StrategyConfig.tsx`) | rows, the engine's cached one, the draft | activate, save, delete, reload | several clients, a start that waits | one armed strategy, and the engine runs it |
| Live feed (`bus.ts`, `ws.ts`, `useLiveFeed.ts`, `App.tsx`, `TokenGate.tsx`) | log buffer, sockets, the page's state | publish, connect, replay, reconnect | close events of cleaned-up sockets, replay over newer state | the page shows the server's state |
| Security (`signalAuth.ts`, `auditChain.ts`, `db.ts`) | nonce store, audit chain | verify, append | replays, restarts, damage | accepted once; damage shows |
| Strategies, indicators, statistics, intelligence, decimals (`strategies/*`, `incremental.ts`, `db.ts`, `backtest.ts`, `intel/*`, `decimal.ts`) | windows | pure functions, a provider cache | seeds, ties, flat series, rounding | agree with a reference definition |
| I/O (`routes/*`, `exchange/*`, `notify/*`, settings) | sockets, settings | requests, messages | | not modelled, except the tables, routes and calls the parts above rely on |

How the parts interact. There are two independent trading paths.

* The *package pipeline*. A strategy's intents pass the risk gate in `Engine.handle`, which awaits
  `BybitLiveBroker.submit`. The venue's answers come back on the private socket
  (`BybitPrivateWs`), whose callback `handleAccountEvent` first writes the `Journal` and then the
  broker's outbox; `Engine.drainBroker` empties the outbox into the order records and positions when
  the next market event arrives. After a restart `coldStart` replays the journal, pulls the venue's
  orders and positions, corrects the positions and opens `RecoveryGate`. The order book feed
  supplies market events.
* The *server*. `ExecutionEngine` has one tick per interval: read the account, reconcile the
  `trades` table with it, evaluate the circuit breaker, evaluate the strategy per pair, and send
  market orders. HTTP routes call `start`, `stop`, `emergencyStop`, `closePosition` and the breaker
  reset while a tick is suspended in an await.

Everything runs on one JavaScript thread per process. Code between two awaits is atomic; whatever
runs between them (socket callbacks, timers, other suspended calls, the exchange, a crash) is what
the models interleave.

## Plan

The modules in the order they were written, the most important behaviour first.

1. `OrderState` with `OrderLifecycle` and `OrderPromise`: the order record, alone, against an
   abstract promise. Proved.
2. `LivePipeline`: `OrderState` composed with engine, broker, stream, journal, recovery gate,
   reconciliation, network and exchange. All its safety properties are proved.
3. `ServerEngine`: the server's engine, reconciler, breaker and risk gate, cut at every await. Safety
   proved.
4. `PrivateStream` and `BookFeed`: the two sockets, checked together by `MCStreams`. Safety proved.
5. `RiskGate`, `RateScheduler`, `KillSwitch`, `SignalIntake`, `AuditLog`, `JournalFile`, `SimBroker`:
   the components of the packages. Safety proved.
6. `PaperDesk`, `StrategyDesk`, `LiveFeed`, `MarketData`: the server and the dashboard. Safety proved.
7. `Indicators`, `IntelRules`, `Analytics`, `Bars`, `ExecutionPlans`, `Decimals`: pure functions
   against reference definitions.

`SimBroker` is composed with `OrderState`, `IntelRules` extends `Indicators`. The modules of 5 to 7
share no state with each other, so one run, `parts`, holds them all: its variable `part` selects the
component a behaviour runs, as `MCStreams` does for the two sockets. `Components`, `Stores` and
`Services` hold the instances of the components with state, `MCParts` those of the pure functions.
Each property speaks of one part, or of a few that make one promise.

Every safety and action property of a passing run over state is a theorem. What the plan leaves to TLC is
liveness and the pure functions (see the end of Proofs).

## Correspondence

`PROJECT.json` maps each definition to the lines it stands for. This section gives the idea.

### OrderState, OrderLifecycle, OrderPromise

`execution/src/orderState.ts`. An order record is `[side, qty, state, filledQty, revision]`.
`Legal` is the table `LEGAL`, `ApplyOrderEvent` the function of that name with its three outcomes:
refused, ignored, or a transition, with a fill clamped and compared as the code does. `OrderState`
has no variables and is shared by every module that holds orders. `OrderLifecycle` feeds one record
any event in any order. `OrderPromise` is the abstract specification: an order is open or closed,
its fill only grows, and a closed order never changes; `KeepsPromise` is the refinement.

### LivePipeline

| Variables | Code |
|---|---|
| `orders`, `positions`, `intentSeq` | fields of `Engine` |
| `pc`, `pending`, `call` | where `Engine.handle` is: its loop position and the awaited `submit` |
| `outbox` | `BybitLiveBroker.outbox` |
| `journal`, `journaledOpens` | the `Journal` and `LivePipeline.journaledOpens` |
| `proc`, `cursor`, `canTrade`, `recon`, `streamed` | phases of `coldStart`, `RecoveryGate.reconciled`, a pass with its two GETs, `positions` seen on the stream |
| `venueOrders`, `venuePos`, `wire`, `answer`, `updates`, `execs`, `socket` | the exchange, requests and replies in the network, the two topics of the private stream (external) |
| `corrected`, `missed`, counters | history, no code reads them |

`HandleEvent`, `DrainOne`, `RunStrategy`, `Veto`, `BeginSubmit`, `SubmitReturns`/`SubmitFails` and
`HandleDone` are `handle` cut at its loop turns and its await. `DrainOne` is one turn of a
synchronous loop: only the exchange and a crash come between two turns (`Yielded` says where other
code of the process may run). `DeliverUpdate` and `DeliverExecution` are the socket callbacks
through `accountEvents.ts` and `handleAccountEvent`. `ColdStart`, `ReplayOne`, `ReplayDone`,
`ReadOpenOrders`, `ReadPositions`, `ReconFinish` and `ReconFails` are `coldStart` and the periodic
reconciliation. `Crash` loses everything but the journal, the exchange and the network. Strategies
and the risk gate are free choices of intents and vetoes. Prices, fees, reasons and log texts are
left out.

### ServerEngine

`starts[c]`, `tick`, `emergency` and `closing` are the places of the suspended calls: one action per
stretch of code between two awaits. `timers` holds the intervals that are scheduled and `tickTimer`
the one the engine still knows, because an overlapping `start()` can lose one. `rows`, `results` and
`equity` are the `trades` table and `paperEquity`; `cached` is `cachedPositions`, `venue` the
exchange. A settlement books +1 or -1 or finds no price. `TickAsks` ... `TickEnds` walk through
`tick`; `Settle` is `reconciler.settle` over `closeTrade`; `Evaluate` is the breaker's `evaluate`.
`halted`, `blurred` and `overlapped` are history that the properties read. Assumed: one UTC day, at
most one emergency stop and one manual close at a time, and a request that failed does not execute
in a later tick.

### PrivateStream, BookFeed, MCStreams

Both objects hold one current socket, but the callbacks of every socket ever opened act on them, so
`sockets` keeps each connection with its phase: a closed one reports its close, and what it had
already received, later. `Start`, `Stop`, `SocketOpens`, `SocketCloses`, `SocketErrors` and
`TimerFires` are the methods and callbacks; `Send`/`Subscribe` write to the *current* socket, as
`this.socket` does, whichever socket's callback runs. In `PrivateStream` the connection records what
the venue was asked for and what it made of it (`login`, `dcp`, `subscribed`; `grants` is what it will
not refuse); in `BookFeed` it carries an inbox of
snapshots and deltas, and `Books[u]` is the venue's book after update `u`, as a set of price levels
(sizes are left out: a level is set or removed). `OrderBook.apply` is `ApplySnapshot` and
`ApplyDelta`. `hasty` records that `start()` was called while a socket was not yet closed or the
timer was set; `blind` that a snapshot was dropped because it failed validation.

`MCStreams` runs one of the two per behaviour (`part`); the variables both name are shared.

### The components of the packages

* `RiskGate`: `Check` is `RiskEngine.check` with every early return of `evaluate`; `SizeFits` holds
  the position, aggregate, leverage and correlation caps, `Pruned` the rate window. Orders wait in
  `inflight` until the venue fills them, because the code does not count them; `marked` are the
  symbols the portfolio has a price for. `crowded`, `condemned` and `broken` are history.
* `RateScheduler`: `Refilled` and `Take` are the token bucket, `Synced` the venue's own count,
  `ObserveSuccess`/`ObserveRejection` the answers, which come in any order (`flying`). One unit of
  time is the first back-off delay.
* `KillSwitch`: each trigger is a process with its place in `Then` (cancel all, list, close one by
  one); every request is executed or not and answered, refused, lost or late. The engine places
  orders and the venue fills them at any time.
* `SignalIntake`: `Verify` with its two time comparisons and `MemoryNonceStore`.
* `AuditLog`: `Record` is `recordAudit` and `append`; `Edit`, `Lose` and `Exchange` damage the table;
  both verifications are defined over the same rows.
* `JournalFile`: a line is the pieces written to it; `KilledInAppend` leaves a part of an entry, or
  all of it without its newline, and the next append lands on the same line.
* `SimBroker`: `Submit`, `Cancel`, `Step` and `Drain`; a book has one level per side with a size.
  `Step` may emit the events of several orders in any order that `pending` could hold. The engine's
  record of each order is an `OrderState` record.

### The server and the dashboard

* `PaperDesk`: the tick of a paper account, cut at its awaits: `TickStarts` and `PriceComes` wait for the
  prices no frame brought and then reconcile, ratchet the stops and evaluate the breaker in one step;
  `SweepGoesOn` flattens, waiting where a price is missing; `TickEnters` enters one pair after the other,
  with candles, orders and notifier awaited between them. Frames, `ManualClose`, `StatusRead`, `Reset`
  and `Midnight` come in between; `overtaken` records that one of them settled a loss after the tick had
  asked the breaker. Money is an integer, P&L counts hundredths. `recorded` is the newest equity
  point, which is also the cached account; `dayStart` the stored equity of the day, which a status poll
  may be the first to ask for. The whole server's emergency stop is in `ServerEngine`.
* `StrategyDesk`: `table` is the strategies table with `updated_at`; `starts` the calls of `start()`
  that wait, each with the strategy it captured; `form` the page with its draft, its list and the
  request it waits for. A row's `v` names its definition.
* `LiveFeed`: `server` holds what the bus and the log buffer hold, `sockets` the connections with what
  is on its way, `page` the token gate and the timers, `client` what the hook shows.
* `MarketData`: `BookApplied`, `BookInvalidated`, `TradeEvent`, `TickerEvent` and `KlineEvent` are the
  ingestion's events through the feature store; `LateBook` is a message of an ingestion that was
  stopped; `Snapshot` the read, with `syncStaleness` before it.

### Pure functions

`Indicators` defines each batch indicator of the server and each incremental one of the packages, and
the four server strategies over them; `IntelRules` the regime, conviction, size, correlation and the
gates of an entry; `Analytics` the statistics and the backtest, fed the trades in the order they opened
(`performanceStats`, `db.ts:622`) or closed (`consecutiveLosses`, `db.ts:767`); `Bars` the aggregator and the package
strategies as turns; `ExecutionPlans` TWAP, iceberg, repeg and the slippage guard; `Decimals` the
fixed-point numbers. Fractions are kept exact by scaling the inputs (`Unit`), or compared after
multiplication; floating point is not modelled.

## Runs

Bounds are small because every hazard needs few actors: two connections, two orders, two calls.

| Run | Bounds | Shows |
|---|---|---|
| `parts` | see below | each component under every order of its events |
| `trading` | 1 symbol, 2 orders of 2 units in one batch, venue may close | no crash, no loss: all interleavings of replies, updates, executions and drains. Two units give partial fills, two orders give a drain between two submits |
| `recovery` | 1 order of 2 units, 1 crash, lost requests and replies, gate ignored | one crash splits every pair of steps; after it the same link id is used again |
| `reconcile` | 2 symbols, 1 order of 1 unit, 1 lost socket, 1 pass besides the cold start's, 1 manual move, lost replies | both passes race trading; the second symbol shows what is and is not covered; each of the five causes of drift happens |
| `server` | 2 symbols (symmetric), limit 1 open and 2 per day, 2 `start()`, 2 commands, requests fail | safety of every interleaving of tick, two starts, stop, emergency stop, manual close, reset; live and paper |
| `server_progress` | 1 `start()`, 1 command | liveness under the fairness below |
| `streams` | 4 book updates, 2 `start()`, 2 broken connections, 1 lost message | safety and liveness of both sockets: two faults give the close of an old socket after the next one opened, two starts give the overlap |
| `network_error`, `id_reuse`, `replay_gap`, `server_halt`, `server_cooldown` | smallest that shows it | divergences, see below |

The bounds of `parts` are constants of `Components`, `Stores` and `Services`, for all of whose values
the theorems hold, and `WITH` clauses of `MCParts` for the pure functions; those that decide what can
happen:

| Part | Bounds | Cases they reach |
|---|---|---|
| order record | quantity to 5, fills to 6 | overfills, exact fills, every event order |
| `RiskGate` | 2 correlated symbols, 2 accepted orders, 3 moments, window of 1 | both caps at their limit, two orders in one window and in two, an order in flight under a check |
| `RateScheduler` | 2 categories, 2 sends each, 4 moments, back-off to 2 | two answers in either order, an empty bucket, a success between two rejections |
| `KillSwitch` | 2 symbols, 2 triggers, 1 engine order | overlapping flattens, a fill between list and close |
| `SignalIntake` | 2 nonces, window 2, tolerance 1, 5 moments | a signal from the future repeated at its last moment |
| `AuditLog`, `JournalFile` | 3 records, 2 damages; 6 appends, 2 kills | damages that could cancel out; a kill after a kill |
| `SimBroker` | 1 order, 3 books, latency 1 | in flight, queue of 1 and 2, through-trade, empty side |
| `PaperDesk` | 2 symbols, 2 prices, 2 trades, 1 midnight or restart | both caps bind, stop and target are hit, the limit is reached in the tick that would enter, a losing manual close between the breaker and an entry |
| `StrategyDesk` | 2 strategies, 3 writes, 1 start or restart | delete and save under a waiting start, a stale form |
| `LiveFeed` | 2 sockets, 2 tokens, 2 events, 1 fault | StrictMode's two sockets, replay after a drop, a new token |
| `MarketData` | 1 symbol, 2 tops, 5 changes | restart with a late message |
| indicators; correlation | series to 7; 5 and 2, over 3 prices; MACD of 1, 3 and 2, which needs 7 | warm-up, flat, ties, crosses of averages and of MACD |
| statistics, candles, bars, klines, plans, decimals | 4 trades closed in any order; 5 candles; 4 events; 4 klines; 4 touches; coefficients to 12 | streaks of overlapping trades, exits, late trades, full windows, remainders, halves |

The reconciliation run has the gate checked and the recovery run does not: the gate is a question
the host asks (`canTrade`), and both hosts are legal. `CHECK_DEADLOCK FALSE` is set wherever the
bounds (or a stopped engine with nothing left to do) end a behaviour.

What the passing runs' properties say:

* `StateAgreesWithFill`, `OnlyForward`, `KeepsPromise`: a record is consistent under any event order.
* `NothingLost`: without a crash, an execution is in the book, the outbox or the stream, unless its
  record was closed first or the socket lost it; and `PositionMatchesBook`: positions and order fills are
  two accounts of the same trades. `BookNeverForgets`: a record keeps its fill and its final state.
* `EngineNeverAhead`, `FillsAreDurable`, `BookWellFormed`, `GateNeedsBook`: no execution is counted
  twice, what is booked is in the journal, the gate opens over a book that has every journalled order.
* `DriftHasACause`: in the first life of the process, the engine's position of a symbol plus its fills under way comes
  apart from the venue's for five reasons only: someone else's trade, a fill while the socket is down, a
  socket lost with fills on it, a fill its closed order refuses, and a reconciliation that a fill overtook. A
  pass nothing overtook brings the two together on every symbol it covers.
* `HandleCompletes`, `ColdStartDecides`: both come to an end, failing calls included.
* `RiskLimitsHold`, `SettledOnce`, `TableDescribesVenue`: the server's table, paper equity, limits
  and the exchange agree; the last except overlapping `start()` calls.
* `TickFinishes`, `EmergencyFinishes`, `LosingTrips`: no call hangs the engine, and a losing streak
  trips the breaker whoever settled the trades.
* `HealthyBook`, `NeverGoesBack`, `Heals`: a book that serves prices is the venue's at its update id
  and is still fed, events do not go back, gaps and disconnects heal.
* `ArmedAndAlone`, `NeverGoesBack`, `StaysReady`: no account subscription before the dead-man switch
  was asked for, READY only where both were asked for and hold as far as the venue grants them (it may
  refuse either, and nobody reads its reply), no doubled stream, no login storm, and recovery.
* `GateHolds`: caps, rate and breaker at once; the caps as long as no order was in flight and every
  position marked when another was checked.
* `RequestsBehave`: sends come in no burst and a rejection shortens no back-off; a kill of which
  every request went through leaves the account flat, and flattens that overlap never reverse it.
* `StoresHold`: a signal is accepted once per life, damage to the audit log shows and appending alone
  raises no alarm, the journal loses what was cut off and its successor at most.
* `FillsAreEarned`: no simulated fill before its latency, ahead of its queue, or twice.
* `BooksBalance`, `Prudent`: the paper account's caps, and its equity against its table, whether a stop
  or target, the flattening or the operator closed a row; stops only tighten, settled rows and the
  equity a day started with stay, no entry with the breaker tripped or on a day whose loss has reached
  the limit, the tick's own settlements included (there is a limit once a positive equity is stored for
  the day, `circuitBreaker.ts:99`). The exception is a tick overtaken by a losing manual close, see
  Divergences.
* `ScreensAreTrue`: no row is shown twice, and once everything sent has arrived the page shows the
  server's state, unless two connections raced; figures of a book are fresh or blank.
* `OneArmedStrategy`: one strategy is armed, the engine runs it in its last definition and is
  subscribed to its pairs, a draft nobody touched is what the table holds.
* `FiguresAgree`, `ReplaysAgree`, `IntelIsFair`, `PlansAddUp`: incremental indicators equal batch
  ones (the variances but for their divisors), a signal turns round when prices are mirrored, the
  statistics agree with each other whatever order the trades closed in, a backtest does not look ahead
  and exits on the first candle it looks at that reaches stop or target; a bar is its bucket's trades and
  a replayed strategy the live one; conviction treats both sides alike, entries of one tick see each
  other, correlation, trend and regime ignore the unit of the prices, a venue's error moves the
  consensus by half; plans add up, a repeg only follows the touch, decimals round as the mode is named.

Every property has a mutant of the code in `PROJECT.json` that violates it. Where a property of
`MCParts` or `MCStreams` joins several, the modules hold a mutant for each of them (the definitions
whose comment says "mutant").

### Fairness

* Pipeline (`FairSpec`, run `recovery`): weak fairness of the synchronous code of `handle` and
  `coldStart` and of the resolution of an awaited call, by an answer or by its failure. `rest.ts:113`
  aborts every request after `timeoutMs`, so an awaited call always resolves. Nothing is assumed of
  the venue.
* Server: weak fairness of each suspended call and of the interval; the exchange executes an order it
  took. Strong fairness of the evaluation that finds the cooldown elapsed: time passes, so it cannot
  be found unelapsed for ever. Nothing is assumed of the operator or of prices.
* Streams: weak fairness of the reconnect timer and of socket events (a socket opens, delivers, and
  reports its close), and of the market moving: a gap is only noticed when a later update comes.
  Faults are bounded by `MaxDrops` and `MaxLosses`, which says "once the network is quiet".

## Proofs

A theorem holds for every value of the constants. It assumes the named `ASSUME`s of the modules:
quantities and limits are natural numbers, flags are Boolean, sets of symbols and pairs are finite,
`None` is no record, a strategies table is not empty, a feed's books are sets of levels. Where a theorem
needs more, its `ASSUME` or its formula says so:

* The simulator's books offer no more than the history variable `traded` counts, prices are positive, and
  `PageReplayed <= PageShown`: the websocket replays 50 lines (`ws.ts`) and the page keeps 300
  (`useLiveFeed.ts`).
* `ServerTableDescribesVenue` assumes `~RefreshMayFail`: after a failed refresh the reconciler works on
  old positions (see Divergences), so the statement is false without it.
* `PositionsFollowFills`, `NothingIsLost` and `DriftAlwaysHasACause` speak of the time up to the first crash and
  `BookForgetsNothing` of a process that never restarts: after a restart link ids are used again, which
  the run `id_reuse` shows to lose a record.

`Lemmas` states what `ApplyOrderEvent` returns, preserves and bounds, what sums over sequences (`Sums`)
and finite sets do when a term is added or changed, what `FoldLeft` keeps from one element to the next,
and what is left of a sequence when some of its elements are kept. The folds of the community modules are
chosen by a recursive equation; the lemmas show from a minimal counterexample among the subsets of a
finite set that it has one solution.

**The pipeline.**

* `LivePipelineProofs`: `PipelineTypesAlways`, one lemma per group of actions; `BookAlwaysWellFormed`,
  `NeverAhead`, `FillsAlwaysDurable`. `EngineNeverAhead` is not inductive: a fill in the outbox may be one
  the book already has, for all it says. `IInv`
  adds why it is not. Every execution carries, as history, the venue's cumulative fill after it;
  along the stream, the outbox and the journal these only grow, whatever is ahead in the flow is
  older, and whatever is not yet booked lies above what is booked. A crash empties book and outbox
  and the replay walks the journal in the same order, so the same statement holds with the journal
  from `cursor` on in the place of the outbox. `IInv` speaks of six values only (the venue's fills,
  the book's, the three queues and the cursor), so each kind of change is proved once on values
  (`Flow...` lemmas) and the actions are recognised as one of these changes.
* Also there: `GateAlwaysNeedsBook`, from the invariant that once the journal is replayed every
  opened id is tracked. `PositionsFollowFills`, `NothingIsLost` and
  `BookForgetsNothing` rest on `LifeInv`, the life of a process up to its first crash: an id at or
  above the intent counter has no record and the ids still to submit are fresh and distinct
  (`FreshIds`), so no record is overwritten; the venue's orders and the requests on the wire are the
  book's, with the same quantity (`SameTrades`); whatever is in a queue is about a tracked order and
  of a kind the adapter makes (`OwnMessages`). Then a drained fill changes one term of the sum of
  signed fills by what it adds to the position (`Balanced`), and moves what `NoFillLost` counts from
  one queue to the next.
* `DriftAlwaysHasACause` adds up what the orders of a symbol come to. `Due`, the fills an order has in the
  book, the outbox and the stream, changes with the exchange's own fill and with a fill its record
  refuses, and by no other step; so `positions + InFlight = venuePos` is `corrected + sum of signed Due =
  venuePos`, in which a fill changes one term by what it moves the account. For the passes, `SnapshotHolds`:
  of a symbol nothing has overtaken since the positions were read, the account is still what was read and
  none of its fills is under way.

**The server.** `ServerEngineProofs`: `ServerTypes`, `ServerRiskLimits`, `ServerSettlesOnce` from `IInv`:
the limits and the settlements hold of the table, an order in flight was allowed by a table that has
only lost open rows since, and every suspended call holds indices of rows that exist.
`ServerTableDescribesVenue` adds `FreshInv`: a `start()` waits alone and only while no tick runs; what a
tick has read covers what the exchange holds until the tick acts; and what it or a manual close is about
to settle has left the exchange.

**The sockets.** `StreamProofs`: `StreamsTypes`, `StreamsHealthyBook`, `StreamsArmedAndAlone`,
`StreamsNeverGoBack` from one invariant per client. For the book feed: a healthy
book is the venue's at its update id and some connection still delivers to it, what waits in an inbox is
no older than what was emitted, and, unless `start()` was hasty, one connection is alive at a time and
the timer runs only when there is none. For the private stream: no connection is subscribed before the switch was asked for, a
success is answered to a granted login only, READY is set on a connection that asked for both, and, unless `start()` was hasty, the connection that is not
closing is the current one. Both speak of every socket ever opened, the closed ones with what they have
still to report included.

**The components.** A behaviour of `MCParts` runs one part over shared variables v1, v2, .... The
inductive invariants of the parts stand in the components' modules. Three modules show for each that it
holds initially and that the component's steps keep it, each over the instances it needs only, which
keeps the obligations small: `ComponentProofs` over `Components` (risk gate, scheduler, kill switch,
signal intake, strategies table), `StoreProofs` over `Stores` (audit log, journal file, live feed) and
`ServiceProofs` over `Services` (simulated broker, paper account, market data). `PartsProofs` has the
theorems: `OnePart` says that a step keeps `part` and is a step of it, so each needs the invariant of
its part only.

* The order record: `StateAlwaysAgreesWithFill`, `AlwaysForward`, and the refinement
  `LifecycleKeepsPromise`.
* `GateAlwaysHolds` (`GateInv`): a condemned account's breaker is not `NORMAL`; the rate window is the
  end of what was accepted and what was dropped from it lies before the window, so an order and the
  `MaxOrders`-th after it are more than a window apart; and as long as nothing was checked over an order
  in flight, at most one is, and what it adds still fits each cap.
* `RequestsAlwaysBehave` (`PaceInv`, `KillInv`): since any moment, what a category sent and could send
  now is at most the bucket and its refill, whatever the venue's own count lowers; the back-off a
  rejection demanded is never beyond the delay of the present level, so no later answer shortens it. While
  every request of a trigger of the kill switch went through and the engine placed nothing, nothing
  rests after its cancel, and each position that is left is on its list, no larger than it was listed.
* `StoresAlwaysHold`. Signals (`IntakeInv`): one taken before and still in its window has its nonce in
  the store, with an expiry no earlier than its own. A nonce may return with another signal only when
  the earlier one is too late. The audit log (`AuditInv`): unless the newest entry was lost, either the
  table is whole (each number once, each hash of the body that was recorded) or some row has too few rows
  below its number, and no later entry closes that gap. A verified chain has neither a gap nor a body that
  differs from what its hash was computed from, so it stores what was recorded. The journal file
  (`JournalInv`): the entries of earlier lines are older, what the last line holds was cut off, and every
  entry parses, was cut off, or follows one that was.
* `FillsAlwaysEarned` (`SimInv`): an order that is pending was submitted and not filled, and the engine has
  acknowledged it once the outbox holds no acknowledgement of it; an acknowledgement is the first event
  of its order in the outbox, and a fill or cancel the last, of an order that is no longer pending.
  What has traded at an order's price and what is still ahead of it make up the queue it joined.
* `BooksAlwaysBalance` and `DeskAlwaysPrudent` (`PaperInv`). A tick that has come to its pairs and that no
  loss has overtaken is below the limit (`TickUnderLimit`), which is what its entries rest on: the breaker
  answered before several awaits. A tick settles, moves stops, flattens and
  enters; each is shown to lead from a table to one that extends it: settled rows stay, open ones only
  tighten, and the exposure, a sum over the open rows, falls with each settlement and rises with an entry
  by no more than the cap leaves. The profit a step books is the sum over the rows it settled.
* `ScreensAlwaysTrue`. Market data (`MarketInv`): the figures of a healthy book are its top before
  anybody reads them. The live feed (`FeedInv`): without a race, one socket or one timer is active.
  Log lines are numbered where they are written; a line on its way, or one the server would replay, is
  shown already or newer than all that is shown. A page that drops old lines still holds as many as are
  replayed, so a replayed line is one it shows or a newer one. Of the status and of each
  trade, the last event on its way, or else what is shown, is the server's.
* `PartsTyped`: each part keeps its types. The bounds of counters and clocks that the invariants above do
  not need (`GateBounds`, `KillBounds`, `PaceBounds`, `DeskBounds`) are lemmas of their own.
* `OneStrategyArmed` (`DeskInv`): at most one row is armed; from the call of `start` on the engine's cached
  strategy is the armed one, or was deleted with none armed since; a start that waits will subscribe
  what the engine runs, unless the armed strategy changed meanwhile; and the page's list, its untouched
  draft and the answer on its way are what the table holds, unless another client wrote since.

Only model-checked:

* Liveness (`HandleCompletes`, `ColdStartDecides`, `TickFinishes`, `EmergencyFinishes`, `LosingTrips`,
  `Heals`, `StaysReady`): fairness and `ENABLED` are outside the prover.
* `FiguresAgree`, `ReplaysAgree`, `IntelIsFair`, `PlansAddUp`: equalities of two recursive computations
  over every bounded input, which would need induction over data.

The guards of a `CASE` are exclusive throughout: where two of them hold, the value is an arbitrary one of
the two and not the first, so that nothing about the earlier arm could be proved. The code's if-else
chains are written with `IF` or with guards that exclude each other (`ExitFor` and `Tick` of `PaperDesk`,
`ApplyRounding`, `PlanTwap`, `Momentum`, `MeanReversion`).

## Divergences

Each has a run whose counterexample shows it, and is quoted in `PROJECT.json` under `findings`.

| Run | What the code does |
|---|---|
| `network_error` | a submit whose reply is lost is booked rejected, and its real fills are then refused |
| `id_reuse` | the intent counter restarts at 0, so a new order replaces a recovered record |
| `replay_gap` | `submit` is not journalled, so a replayed record refuses its fills |
| `server_halt` | a tick that was suspended during an emergency stop sends its orders after it |
| `server_cooldown` | a breaker tripped by consecutive losses trips again in the call that ends its cooldown |

Met while modelling, without a run of their own:

* `orderState.ts:121`: a cancel that overtakes an execution closes the record, which refuses the fill
  (lines 47-51 call a dropped fill "far worse than a missing ack"). `NoFillLost` excepts it.
* `livePipeline.ts:171`: positions are read before an await and applied after fills of the same
  trades; `reconciler.ts:137-138` takes the venue as the truth at that moment. Such a pass counts a
  fill twice or takes one back, until the next pass: it is one of the causes of `DriftHasACause`.
* `livePipeline.ts:212`: a symbol only `Engine.positions` knows is never compared.
* `engine.ts:97`: `handle` does not ask the gate; `livePipeline.ts:31-32` says nothing trades before it
  opens.
* `livePipeline.ts:146`: the gate opens over drift, where `journal.ts:9-11` asks for agreement.
* `liveBroker.ts:255`: a live cancel always throws before it is sent.
* `journal.ts:43`: an append after a torn last line is lost with it, where the class comment speaks of
  "losing the last event"; a torn entry that was whole but for its newline is read once and lost later.
* Server: `cancelAllOrders` that throws skips `closeAllPositions` (`engine.ts:210-215`); a `stop()`
  during `STARTING` is undone by the suspended `start()`, and an overlapped `start()` leaks an interval
  (`engine.ts:158-180`); after a failed refresh or in overlapping starts, old `cachedPositions` let the
  reconciler settle the row of an open position (`engine.ts:306-327`, `reconciler.ts:92-124`): the
  properties except overlapping starts (`overlapped`) and the run has no failing refresh
  (`RefreshMayFail`); the breaker is evaluated once per tick,
  before the loop over the pairs, where `circuitBreaker.ts:77` asks for "before opening any position, and
  after every trade closes"; a manual
  close settles its row even when the exchange refused (`engine.ts:253-264`).
* Streams: `stop(); start()` before the close event leaves two sockets open and doubles executions
  (`hasty`); a reply after `stop()` sets READY until the close event; a book that is crossed, or whose
  snapshot failed validation, is not asked for again until the connection breaks (`Heals`). The replies
  to `set_dcp` and to the subscription are not read (`privateWs.ts:201`): where the venue refuses the
  switch, the stream is READY, subscribed, counted as armed and not armed, against `privateWs.ts:145`
  ("so it is in place before any fill can occur"); `ArmedAndAlone` claims the asking and its order.
* Risk and requests: the caps see neither orders in flight nor unmarked positions
  (`risk/engine.ts:236,300`); a success of any category resets the back-off level all share
  (`scheduler.ts:146`); the kill switch answers ok after failed requests (`killSwitch.ts:139-145`); a
  signal is accepted again after a restart (`signalAuth.ts:130`); the loss of the newest audit entry
  is not noticed.
* Simulation and bars: a passive order on an empty side is swept as a market order
  (`simBroker.ts:97-121`); after `closeExpired` a late trade opens its bar again (`bars.ts:70`); the
  breakout strategies take the position before the risk gate has spoken (`strategies.ts:68`).
* Paper account: the day's starting equity is what the first status poll or tick of a day held
  (`circuitBreaker.ts:52-61`, "Equity at 00:00 UTC"); a restart forgets the breaker's trip and the paper
  equity; a size scaled below the minimum is sent in full (`engine.ts:565-569`). A tick asks the breaker
  once (`engine.ts:354`) and then waits for candles, orders and the notifier before each entry; a losing
  manual close (`engine.ts:264-268`) trips the breaker meanwhile and the tick enters all the same,
  where `circuitBreaker.ts:29` says "Tripping halts new entries" and `:77` "Call before opening any
  position": `Prudent` excepts such a tick (`overtaken`).
* Strategies: deleting the armed strategy while the engine is `STARTING` leaves it running
  (`api.ts:411-418`); saving it disabled while `RUNNING` disarms it (`engine.ts:348`); a stale draft
  re-arms, and a list that arrives late overwrites edits (`StrategyConfig.tsx:69`).
* Dashboard: `closedByUs` is shared by the two sockets of StrictMode, so the first one's close event
  opens a third (`useLiveFeed.ts:67,84`, "prevents a reconnect after unmount"); trades published while
  nobody listened are not replayed; after `stop()` old figures stay fresh (`marketdata.ts:85-86`).
* Numbers: a flat market has RSI 100 and sells (`indicators.ts:57`); mode `UP` rounds a negative
  number smaller than one step to plus one step (`decimal.ts:271`); `fetchConsensusPrices` asks two venues,
  whose median is their mean (`providers.ts:247-252`, against `intel/index.ts:128`, "one bad venue quote
  cannot drag the reference"); the streaming variance divides by n - 1 (`incremental.ts:178`) and the
  bands by n (`indicators.ts:108`); a backtest looks for an exit from the second candle after an entry on
  (`backtest.ts:78-103`, "checked against the NEXT candle's high/low", line 40); the longest losing streak
  shown is of the order of opening and the breaker's of closing (`db.ts:622,767`), so the breaker may
  count a longer one; a trade held overnight is in no day's summary (`db.ts:621`,
  `notify/scheduler.ts:32`); expired provider values are served without bound (`providers.ts:39`).

## Not modelled

* Cryptography, redaction, key scopes and secrets: no protocol state. A signature is valid or not, a
  hash is what it was computed from.
* HTTP plumbing, configuration, settings, instrument loading, message texts, the daily summary and
  the pages of the dashboard that only show what they are given.
* The refresh loop and the requests of the intelligence providers; their cache is modelled.
* `PartiallyFilledCanceled` (`accountEvents.ts:86`): the venue of `LivePipeline` does not send it.
* Floating point: sizes, prices and fees are integers or exact fractions, so rounding noise of
  JavaScript numbers (`smartExec.ts:40`) is not seen.

`PROJECT.json` lists every component with its modules.
