------------------------------ MODULE MCParts -------------------------------
(***************************************************************************)
(* The components that are not composed with another one, for TLC: the     *)
(* order record, which this module extends, and the instances of           *)
(* Components, Stores and Services.  A behaviour runs one of them: `part'  *)
(* says which.  The variables of that component are the slots v1, v2, ...; *)
(* its further slots stay Unused, and `order' stays as it was in all parts *)
(* but the order record's own.                                             *)
(*                                                                         *)
(* The modules of pure functions have no state.  Their inputs grow in a    *)
(* slot, one element a step, and the properties evaluate the functions on  *)
(* what the slot holds.                                                    *)
(***************************************************************************)
EXTENDS OrderLifecycle, Components, Stores, Services

CONSTANT NoFigure

slots == <<v1, v2, v3, v4, v5, v6, v7, v8, v9, v10, v11>>

Unused == "unused"
-----------------------------------------------------------------------------
(* What some of the bounds are, and the modules of pure functions. *)
AB == {"A", "B"}

(* What the risk gate marks the symbols with. *)
TwoPrices == [s \in AB |-> IF s = "A" THEN 1 ELSE 2]

(* A balanced book, a deeper one, and one without bids. *)
ThreeBooks == {[bid |-> 2, ask |-> 3, size |-> 1], [bid |-> 1, ask |-> 2, size |-> 2],
               [bid |-> 0, ask |-> 2, size |-> 1]}

(* The strategy may want a long in the one and a short in the other. *)
TwoPairs  == <<"A", "B">>
LongShort == [s \in AB |-> IF s = "A" THEN {"LONG"} ELSE {"SHORT"}]

Intel == INSTANCE IntelRules WITH   \* and Indicators, which it extends
  TrendPeriod <- 2, CacheTtl <- 2, SmaPeriod <- 3, RsiPeriod <- 2, FastPeriod <- 1,
  SlowPeriod <- 3, SignalPeriod <- 2, RsiUpper <- 70, RsiLower <- 30, BandMult <- 1, GridStepPct <- 20

Bar == INSTANCE Bars WITH
  Interval <- 1, Fast <- 1, Slow <- 2, Lookback <- 1, Window <- 2, BandPct <- 10

Plans   == INSTANCE ExecutionPlans
Stats   == INSTANCE Analytics
Decimal == INSTANCE Decimals WITH DivMargin <- 2
-----------------------------------------------------------------------------
(* The inputs of the pure functions. *)
Grow(a, values, length) == Len(v1) < length /\ \E x \in values : v1' = Append(v1, a * x)

(* Trades at three times, or a timer that closes what has expired. *)
TapeEvents == [kind : {"trade"}, ts : 0 .. 2, price : {1, 2}, size : {1}, side : {"buy"}]
                \cup [kind : {"timer"}, ts : {1, 3}]

(* Klines: a forming one repeats or moves the last price, volume 0 is a gap. *)
Klines == {k \in [close : 1 .. 3, volume : {0, 2}, closed : BOOLEAN] : k.volume = 0 => k.closed}

Briefs == [action : {"BUY"}, confidence : {0, 50, 90},
           regime : {"TRENDING", "RANGING", "VOLATILE", "UNKNOWN"}, direction : {-1, 0, 1},
           funding : {NoFigure, -6, -5, 6}, fear : {NoFigure, 25, 26, 75}, oi : {NoFigure, -2, 2}]

Number(lo, hi) == {Decimal!Dec(c, s) : c \in lo .. hi, s \in 0 .. 1}
Steps == {Decimal!Dec(c, s) : c \in {1, 2, 3, 5}, s \in 0 .. 1}

Unit == 5184   \* prices as multiples that the averages divide

Pure == {"indicators", "correlation", "brief", "plans", "statistics", "candles", "tape", "klines", "decimals"}

(* The slots from the n-th on are not used. *)
UnusedFrom(n) ==
  /\ IF n <= 3 THEN v3 = Unused ELSE TRUE
  /\ IF n <= 4 THEN v4 = Unused ELSE TRUE
  /\ IF n <= 5 THEN v5 = Unused ELSE TRUE
  /\ IF n <= 6 THEN v6 = Unused ELSE TRUE
  /\ IF n <= 7 THEN v7 = Unused ELSE TRUE
  /\ IF n <= 8 THEN v8 = Unused ELSE TRUE
  /\ IF n <= 9 THEN v9 = Unused ELSE TRUE
  /\ IF n <= 10 THEN v10 = Unused ELSE TRUE
  /\ IF n <= 11 THEN v11 = Unused ELSE TRUE

PureInit ==
  /\ v1 \in CASE part = "brief"    -> Briefs
              [] part = "decimals" -> Number(-12, 12)
              [] OTHER             -> {<<>>}
  /\ v2 = <<>> /\ UnusedFrom(3)

(* The trade that opened last may close before any of the others. *)
Closings == {SubSeq(v2, 1, n) \o <<Len(v1) + 1>> \o SubSeq(v2, n + 1, Len(v2)) : n \in 0 .. Len(v2)}

InputGrows ==
  \/ part = "indicators" /\ Grow(Unit, 1 .. 3, 7) /\ UNCHANGED v2
  \/ part = "correlation" /\ v2 = <<>> /\ Grow(1, 1 .. 3, 5) /\ UNCHANGED v2
  \/ part = "correlation" /\ Len(v2) < 2 /\ (\E x \in 1 .. 3 : v2' = Append(v2, x)) /\ UNCHANGED v1
  \/ part = "plans" /\ Grow(1, 1 .. 4, 4) /\ UNCHANGED v2
  \/ part = "statistics" /\ Grow(1, -2 .. 2, 4) /\ v2' \in Closings
  \/ part = "candles" /\ Grow(1, -2 .. 2, 5) /\ UNCHANGED v2
  \/ part = "tape" /\ Len(v1) < 4 /\ (\E x \in TapeEvents : v1' = Append(v1, x)) /\ UNCHANGED v2
  \/ part = "klines" /\ Len(v1) < 4 /\ (\E x \in Klines : v1' = Append(v1, x)) /\ UNCHANGED v2
-----------------------------------------------------------------------------
In(name, A) == part = name /\ A /\ UNCHANGED <<part, order, accepted>>

OrderInit == Init
OrderNext == Next

PartsInit ==
  \/ part = "order" /\ OrderInit /\ v1 = Unused /\ v2 = Unused /\ UnusedFrom(3)
  \/ /\ order = NewOrder("buy", 1) /\ accepted = TRUE
     /\ \/ part = "gate" /\ Gate!Init
        \/ part = "pace" /\ Pace!Init /\ UnusedFrom(9)
        \/ part = "kill" /\ Kill!Init /\ UnusedFrom(9)
        \/ part = "intake" /\ Intake!Init /\ UnusedFrom(5)
        \/ part = "audit" /\ Audit!Init /\ UnusedFrom(5)
        \/ part = "journal" /\ Journal!Init /\ UnusedFrom(4)
        \/ part = "sim" /\ Sim!Init /\ UnusedFrom(11)
        \/ part = "paper" /\ Paper!Init /\ UnusedFrom(10)
        \/ part = "page" /\ Page!Init /\ UnusedFrom(9)
        \/ part = "market" /\ Market!Init /\ UnusedFrom(9)
        \/ part = "desk" /\ Desk!Init
        \/ part \in Pure /\ PureInit

PartsNext ==
  \/ part = "order" /\ OrderNext /\ UNCHANGED <<part, slots>>
  \/ In("gate", Gate!Next)
  \/ In("pace", Pace!Next /\ UNCHANGED <<v9, v10, v11>>)
  \/ In("kill", Kill!Next /\ UNCHANGED <<v9, v10, v11>>)
  \/ In("intake", Intake!Next /\ UNCHANGED <<v5, v6, v7, v8, v9, v10, v11>>)
  \/ In("audit", Audit!Next /\ UNCHANGED <<v5, v6, v7, v8, v9, v10, v11>>)
  \/ In("journal", Journal!Next /\ UNCHANGED <<v4, v5, v6, v7, v8, v9, v10, v11>>)
  \/ In("sim", Sim!Next /\ UNCHANGED v11)
  \/ In("paper", Paper!Next /\ UNCHANGED <<v10, v11>>)
  \/ In("page", Page!Next /\ UNCHANGED <<v9, v10, v11>>)
  \/ In("market", Market!Next /\ UNCHANGED <<v9, v10, v11>>)
  \/ In("desk", Desk!Next)
  \/ In(part, part \in Pure /\ InputGrows /\ UNCHANGED <<v3, v4, v5, v6, v7, v8, v9, v10, v11>>)

partsVars == <<part, slots, order, accepted>>

PartsSpec == PartsInit /\ [][PartsNext]_partsVars
-----------------------------------------------------------------------------
(* The properties, each of the part or parts it names; the modules say     *)
(* what theirs mean.                                                       *)

(* Every variable has its type: the order record, and the slots of the     *)
(* part that runs.                                                         *)
PartsTypeOk ==
  /\ TypeOk
  /\ part = "gate" => Gate!TypeOk
  /\ part = "pace" => Pace!TypeOk
  /\ part = "kill" => Kill!TypeOk
  /\ part = "intake" => Intake!TypeOk
  /\ part = "audit" => Audit!TypeOk
  /\ part = "journal" => Journal!TypeOk
  /\ part = "sim" => Sim!TypeOk
  /\ part = "paper" => Paper!TypeOk
  /\ part = "page" => Page!TypeOk
  /\ part = "market" => Market!TypeOk
  /\ part = "desk" => Desk!TypeOk

(* Risk: caps, rate and breaker hold whatever moves behind the checks.     *)
GateHolds == part = "gate" => Gate!GateHolds

(* Requests: they never come in a burst, a rejection shortens no back-off, *)
(* and a kill of which every request went through leaves nothing behind.   *)
RequestsBehave == /\ part = "pace" => Pace!Paced
                  /\ part = "kill" => Kill!KillFlattens

(* What is stored: a signal is accepted once in a life of the process, the *)
(* audit log shows damage and raises no false alarm, and the journal loses *)
(* what was cut off and its successor at most.                             *)
StoresHold == /\ part = "intake" => Intake!AcceptedOnce
              /\ part = "audit" => Audit!DamageShows
              /\ part = "journal" => Journal!JournalKeeps

(* Simulation: every simulated fill is earned. *)
FillsAreEarned == part = "sim" => Sim!FillsAreEarned

(* Paper account: the caps hold, and the equity is what the table's rows   *)
(* of this life made.                                                      *)
BooksBalance == part = "paper" => Paper!BooksBalance

(* Paper account: stops only tighten, settled rows stay, the equity a day  *)
(* started with stays, and no tick enters at or over the day's limit       *)
(* unless a loss was settled behind its back.                              *)
Prudent == [][part = "paper" => Paper!Prudent]_partsVars

(* Dashboard: what a page or a reader is shown is fresh or blank.          *)
ScreensAreTrue == /\ part = "page" => Page!FeedHolds
                  /\ part = "market" => Market!FreshOrBlank

(* Strategies table: one strategy is armed and the engine runs that one.   *)
OneArmedStrategy == part = "desk" => Desk!OneArmedStrategy

(* Figures: incremental indicators equal batch ones, the variance up to    *)
(* its divisor; signals mirror; the statistics of a trade list agree with  *)
(* each other whatever order the trades closed in; and a backtest does not *)
(* look ahead.                                                             *)
DecideFrom(o) == [i \in DOMAIN v1 |-> IF (i + o) % 3 = 0 THEN "HOLD" ELSE IF v1[i] > o THEN "SELL" ELSE "BUY"]

FiguresAgree ==
  /\ part = "indicators" => Intel!IncrementalIsBatch(v1, Unit) /\ Intel!SignalsMirror(v1, 4 * Unit)
  /\ part = "statistics" => Stats!StatisticsAgree(v1, v2)
  /\ part = "candles" =>
       LET candles == [i \in DOMAIN v1 |-> [low |-> 9 + v1[i], high |-> 11 + v1[i], close |-> 10 + v1[i]]]
       IN  \A warmup \in {0, 1} : Stats!BacktestHonest(candles, warmup, DecideFrom(0), DecideFrom(1), 2)

(* Streams of bars: bars hold each trade once, and a strategy replayed is  *)
(* the strategy run live.                                                  *)
ReplaysAgree == /\ part = "tape" => Bar!BarsHonest(v1)
                /\ part = "klines" => Bar!StrategiesReplay(v1)

(* Market intelligence: the conviction is bounded and fair to both sides,  *)
(* entries are spread over symbols that do not move together, the          *)
(* correlation and trend of a series ignore its scale, and a bad one of    *)
(* two quotes moves the consensus by half its error.                       *)
Pairings == {{"A", "B"}, {"B", "C"}, {"A", "C"}}
Settings(filters) == [enabled |-> TRUE, regimeFilter |-> filters, convictionFilter |-> filters,
                      sizing |-> filters, maxDeviation |-> 50, maxCorrelation |-> 80]

IntelIsFair ==
  /\ part = "brief" =>
       /\ \A qty \in {1, 3} : Intel!ConvictionFair(v1, Settings(TRUE), [qty |-> qty, min |-> 1])
       /\ \A table \in [Pairings -> {-90, 10}] :
            Intel!SpreadOut(Settings(FALSE), table, {"C"}, << <<"A", v1>>, <<"B", v1>> >>, [qty |-> 1, min |-> 1])
  /\ part = "correlation" => /\ Intel!CorrelationFair(v1, v2)
                             /\ v2 = <<>> => Intel!TrendFair(v1, 256) /\ Intel!ProvidersFair(v1)

(* Smart execution and money: plans add up to the parent order, prices     *)
(* follow the touch, guards are monotone, decimals are exact or rounded    *)
(* the way that is named.                                                  *)
Depth(drift) == [i \in DOMAIN v1 |-> [price |-> 10 + drift * i, size |-> v1[i]]]

PlansAddUp ==
  /\ part = "plans" =>
       /\ v1 = <<>> =>
            \A qty \in 1 .. 9, step \in 1 .. 3 :
               /\ \A slices \in 1 .. 4, window \in 0 .. 7, delay \in 0 .. 1 :
                    Plans!TwapAddsUp(qty, slices, window, step, delay)
               /\ \A display \in 1 .. 9 : Plans!IcebergAddsUp(qty, display, step)
       /\ \A side \in Sides, start \in 1 .. 4, max \in 0 .. 3 : Plans!RepegFollows(side, start, v1, max)
       /\ v1 # <<>> => \A qty \in 1 .. 10, limit \in {0, 300, 700, 1500} :
                         Plans!GuardMonotone(Depth(-1), Depth(1), qty, limit)
  /\ part = "decimals" =>
       /\ \A step \in Steps : Decimal!RoundsAsNamed(v1, step)
       /\ \A b \in Number(-12, 12) : Decimal!ExactArithmetic(v1, b)
       /\ \A b \in Number(-12, 12), step \in Steps : Decimal!SizesExactly(v1, b, step)
=============================================================================
