----------------------------- MODULE PaperDesk ------------------------------
(***************************************************************************)
(* The paper account of the server: the trades table, simulated exits, the *)
(* trailing stop, position sizing (risk.ts), the daily loss limit of the   *)
(* breaker and the paper equity (engine.ts, reconciler.ts, db.ts).  A tick *)
(* stops at its awaits, where a manual close, a frame, a status event, a   *)
(* reset or midnight comes between; what runs between two awaits is one    *)
(* step.  Money is an integer: a fee is FeePct hundredths of the value     *)
(* traded, so a P&L counts hundredths.                                     *)
(***************************************************************************)
EXTENDS Integers, Sequences, FiniteSets, Functions, SequencesExt, FiniteSetsExt

CONSTANTS
  Pairs,             \* the armed strategy's symbols, in their order
  Prices,            \* the mark prices, REST prices and candle closes of the model
  Signals,           \* for each symbol, the sides the strategy may want
  StopLossPct, TakeProfitPct, TrailingStopPct,
  MaxPositionSize, GlobalRiskCap, MinOrderQty, MaxOrderQty,
  FeePct,            \* TAKER_FEE_RATE, in percent
  StartingEquity,    \* PAPER_STARTING_EQUITY
  MaxDailyLossPct,   \* of the breaker; FlattenOnTrip too
  FlattenOnTrip,
  NoPrice,           \* no mark was received, no stop was set
  MaxTrades, MaxTurns   \* model bounds: trades; midnights and restarts

VARIABLES trades,       \* the table, in the order of opened_at
          marks,        \* exchange.markPrices
          paperEquity,  \* engine.paperEquity
          tripped,      \* circuitBreaker.tripped; this configuration has no cooldown
          dayStart,     \* the setting day_start_equity: [day, equity]
          recorded,     \* the newest equity point, 0 before the first; what the engine
                        \* cached from its last refresh in this life is the same
          day,          \* the UTC day
          lives,        \* how often the process was started
          tick          \* the running tick: its stage, the pair or rows it has come to,
                        \* and a history flag: a loss was settled since it asked the breaker

deskVars == <<trades, marks, paperEquity, tripped, dayStart, recorded, day, lives, tick>>

Symbols == ToSet(Pairs)
Open(rows) == {i \in DOMAIN rows : rows[i].closedOn = 0}

Idle == [stage |-> "idle", next |-> 0, left |-> {}, overtaken |-> FALSE]
-----------------------------------------------------------------------------
(* money.ts and risk.ts: exact arithmetic, rounded down to whole units.    *)
GrossPnl(side, size, entry, exit) == (IF side = "LONG" THEN exit - entry ELSE entry - exit) * size
RoundTripFees(size, entry, exit)  == (entry + exit) * size * FeePct
NetPnl(t, exit) == 100 * GrossPnl(t.side, t.size, t.entry, exit) - RoundTripFees(t.size, t.entry, exit)

ProtectivePrices(entry, side) ==
  LET away(pct, sign) == (entry * (100 + sign * pct)) \div 100
  IN  IF side = "LONG" THEN [stop |-> away(StopLossPct, -1), target |-> away(TakeProfitPct, 1)]
                       ELSE [stop |-> away(StopLossPct, 1), target |-> away(TakeProfitPct, -1)]

TrailingStopForEither(side, mark, stop) ==   \* mutant: follows the price both ways
  LET candidate == (mark * (IF side = "LONG" THEN 100 - TrailingStopPct ELSE 100 + TrailingStopPct)) \div 100
  IN  IF TrailingStopPct > 0 /\ candidate # stop THEN candidate ELSE NoPrice

(* trailingStopFor: the new stop, or NoPrice when it does not move.        *)
TrailingStopFor(side, mark, stop) ==
  LET candidate == (mark * (IF side = "LONG" THEN 100 - TrailingStopPct ELSE 100 + TrailingStopPct)) \div 100
      better    == IF side = "LONG" THEN candidate > stop ELSE candidate < stop
  IN  IF TrailingStopPct > 0 /\ better THEN candidate ELSE NoPrice

(* exitFor: the stop is looked at before the target. *)
ExitFor(t, mark) ==
  LET past(level, up) == IF up THEN mark >= level ELSE mark <= level
  IN  IF past(t.stop, t.side = "SHORT") THEN [price |-> t.stop, reason |-> "STOP_LOSS"]
      ELSE IF past(t.target, t.side = "LONG") THEN [price |-> t.target, reason |-> "TAKE_PROFIT"]
      ELSE [price |-> NoPrice, reason |-> "NONE"]

Exposure(rows) == SumFunctionOnSet([i \in DOMAIN rows |-> rows[i].entry * rows[i].size], Open(rows))

AssessRiskUncapped(rows, s, price, equity) ==   \* mutant: the headroom is not a ceiling
  IF (\E i \in Open(rows) : rows[i].symbol = s) \/ Exposure(rows) >= GlobalRiskCap
  THEN 0 ELSE Min({MaxPositionSize \div price, MaxOrderQty})

(* assessRisk with FIXED_NOTIONAL sizing: the quantity, 0 when refused.    *)
AssessRisk(rows, s, price, equity) ==
  LET used     == Exposure(rows)
      ceilings == {MaxPositionSize, GlobalRiskCap - used}
                    \cup (IF equity > 0 THEN {equity \div 100} ELSE {})
      quantity == Min(ceilings) \div price
  IN  IF \/ \E i \in Open(rows) : rows[i].symbol = s
         \/ used >= GlobalRiskCap
         \/ Min(ceilings) <= 0
         \/ quantity < MinOrderQty \/ quantity > MaxOrderQty
      THEN 0 ELSE quantity

-----------------------------------------------------------------------------
(* Reconciler.settle and closeTrade: a row that is closed stays as it is.  *)
(* The life a row was closed in is a history field.                        *)
Settle(rows, i, exit, reason) ==
  IF i \in Open(rows)
  THEN [rows EXCEPT ![i].closedOn = day, ![i].exit = exit, ![i].reason = reason,
                    ![i].pnl = NetPnl(rows[i], exit), ![i].life = lives]
  ELSE rows

(* applyPaperPnl, for every row that `after' has settled.                  *)
Gained(rows, after) ==
  SumFunctionOnSet([i \in DOMAIN rows |-> NetPnl(rows[i], after[i].exit)], Open(rows) \ Open(after))

ReconcilePaper(rows, mk) ==
  [i \in DOMAIN rows |->
     LET mark == mk[rows[i].symbol]
         exit == ExitFor(rows[i], mark)
     IN  IF mark = NoPrice \/ exit.price = NoPrice THEN rows[i]
         ELSE Settle(rows, i, exit.price, exit.reason)[i]]

ApplyTrailingStops(rows, mk) ==
  [i \in DOMAIN rows |->
     LET mark == mk[rows[i].symbol]
         next == TrailingStopFor(rows[i].side, mark, rows[i].stop)
     IN  IF i \in Open(rows) /\ mark # NoPrice /\ next # NoPrice
         THEN [rows[i] EXCEPT !.stop = next] ELSE rows[i]]

(* settleAllOpenTrades: the rows in `left' one after the other, each at    *)
(* its mark; at one without a mark it waits for a price.                   *)
Waiting(rows, left, mk) ==
  {i \in left : \E j \in left : j <= i /\ mk[rows[j].symbol] = NoPrice}

SettleAll(rows, left, mk) ==
  [i \in DOMAIN rows |-> IF i \in left \ Waiting(rows, left, mk)
                         THEN Settle(rows, i, mk[rows[i].symbol], "EMERGENCY")[i] ELSE rows[i]]

Sweeping(waiting) == IF waiting = {} THEN Idle ELSE [Idle EXCEPT !.stage = "sweep", !.left = waiting]

RealisedPnlToday(rows) ==
  SumFunctionOnSet([i \in DOMAIN rows |-> rows[i].pnl], {i \in DOMAIN rows : rows[i].closedOn = day})

(* dayStartEquity: the equity of the first who asks on a day.              *)
DayStartEquity(equity) == IF dayStart.day = day THEN dayStart.equity ELSE equity

BreachedBefore(rows, equity) ==   \* mutant: reads the table before the tick settled
  LET lost == RealisedPnlToday(trades)
  IN  lost < 0 /\ DayStartEquity(equity) > 0 /\ -lost * 100 >= MaxDailyLossPct * DayStartEquity(equity)

(* circuitBreaker.evaluate, its daily loss condition. *)
Breached(rows, equity) ==
  LET lost == RealisedPnlToday(rows)
  IN  lost < 0 /\ DayStartEquity(equity) > 0 /\ -lost * 100 >= MaxDailyLossPct * DayStartEquity(equity)

Remember(equity) ==
  dayStart' = IF DayStartEquity(equity) > 0 THEN [day |-> day, equity |-> DayStartEquity(equity)] ELSE dayStart

NewTrade(s, side, size, price) ==
  [symbol |-> s, side |-> side, size |-> size, entry |-> price,
   stop |-> ProtectivePrices(price, side).stop, target |-> ProtectivePrices(price, side).target,
   closedOn |-> 0, exit |-> NoPrice, reason |-> "NONE", pnl |-> 0, life |-> 0]
-----------------------------------------------------------------------------
Init ==
  /\ trades = <<>> /\ marks = [s \in Symbols |-> NoPrice]
  /\ paperEquity = 100 * StartingEquity /\ tripped = FALSE
  /\ dayStart = [day |-> 0, equity |-> 0] /\ recorded = 0 /\ day = 1 /\ lives = 1 /\ tick = Idle

(* A ticker frame. *)
MarkMoves(s, p) == /\ marks' = [marks EXCEPT ![s] = p]
                   /\ UNCHANGED <<trades, paperEquity, tripped, dayStart, recorded, day, lives, tick>>

(* From the last missing price to the next await: reconcile, with a second *)
(* refresh when rows were settled, the stops, the breaker; then the rows   *)
(* to flatten, or the pairs.  A tripped breaker asks for no equity.        *)
Checks(mk, point) ==
  LET exited  == ReconcilePaper(trades, mk)
      equity  == IF exited = trades THEN point ELSE paperEquity + Gained(trades, exited)
      moved   == ApplyTrailingStops(exited, mk)
      halted  == tripped \/ Breached(moved, equity)
      left    == IF halted /\ FlattenOnTrip THEN Open(moved) ELSE {}
      final   == SettleAll(moved, left, mk)
  IN  /\ trades' = final /\ paperEquity' = paperEquity + Gained(trades, final)
      /\ tripped' = halted /\ recorded' = equity
      /\ IF tripped THEN UNCHANGED dayStart ELSE Remember(equity)
      /\ tick' = IF halted THEN Sweeping(Waiting(moved, left, mk))
                 ELSE [Idle EXCEPT !.stage = "pairs", !.next = 1]

(* The pairs from the k-th on that no price is known of.                   *)
Missing(mk, k) == {j \in k .. Len(Pairs) : mk[Pairs[j]] = NoPrice}

(* tick: records the equity, then asks for the prices the stream did not   *)
(* deliver, one after the other.                                           *)
TickStarts ==
  /\ tick.stage = "idle"
  /\ \/ Missing(marks, 1) = {} /\ Checks(marks, paperEquity)
     \/ /\ Missing(marks, 1) # {}
        /\ recorded' = paperEquity
        /\ tick' = [Idle EXCEPT !.stage = "prices", !.next = Min(Missing(marks, 1))]
        /\ UNCHANGED <<trades, paperEquity, tripped, dayStart>>
  /\ UNCHANGED <<marks, day, lives>>

(* getLastPrice answers, or fails; it replaces what a frame brought since. *)
PriceComes(p) ==
  LET mk   == IF p = NoPrice THEN marks ELSE [marks EXCEPT ![Pairs[tick.next]] = p]
      rest == Missing(mk, tick.next + 1)
  IN  /\ tick.stage = "prices" /\ marks' = mk
      /\ \/ rest = {} /\ Checks(mk, recorded)
         \/ /\ rest # {} /\ tick' = [tick EXCEPT !.next = Min(rest)]
            /\ UNCHANGED <<trades, paperEquity, tripped, dayStart, recorded>>
      /\ UNCHANGED <<day, lives>>

(* The flattening goes on when the price of its next row came, or failed.  *)
SweepGoesOn(p) ==
  LET i     == Min(tick.left)
      one   == IF p = NoPrice THEN trades ELSE Settle(trades, i, p, "EMERGENCY")
      left  == tick.left \ {i}
      after == SettleAll(one, left, marks)
  IN  /\ tick.stage = "sweep"
      /\ trades' = after /\ paperEquity' = paperEquity + Gained(trades, after)
      /\ tick' = Sweeping(Waiting(one, left, marks))
      /\ UNCHANGED <<marks, tripped, dayStart, recorded, day, lives>>

(* actOnSignal for the k-th pair, at the close of the candles the tick     *)
(* waited for; the pairs it passes over hold, or are refused.  It waits    *)
(* for the notifier before the next pair, and asks the breaker no more.    *)
TickEnters(k, side, price) ==
  LET size == AssessRisk(trades, Pairs[k], price, recorded)
  IN  /\ tick.stage = "pairs" /\ k >= tick.next
      /\ size # 0 /\ Len(trades) < MaxTrades
      /\ trades' = Append(trades, NewTrade(Pairs[k], side, size, price))
      /\ tick' = [tick EXCEPT !.next = k + 1]
      /\ UNCHANGED <<marks, paperEquity, tripped, dayStart, recorded, day, lives>>

TickEnds == /\ tick.stage = "pairs" /\ tick' = Idle
            /\ UNCHANGED <<trades, marks, paperEquity, tripped, dayStart, recorded, day, lives>>

(* closePosition: settles the row at its mark, or at a price it waits for, *)
(* then evaluates the breaker with the account as a tick last recorded it. *)
(* No other call knows that a tick is waiting.                             *)
ManualClose(s, p) ==
  \E i \in Open(trades) :
    LET after == Settle(trades, i, p, "MANUAL")
    IN  /\ trades[i].symbol = s /\ marks[s] \in {NoPrice, p}
        /\ trades' = after
        /\ paperEquity' = paperEquity + Gained(trades, after)
        /\ tripped' = (tripped \/ Breached(after, recorded))
        /\ IF tripped THEN UNCHANGED dayStart ELSE Remember(recorded)
        /\ tick' = [tick EXCEPT !.overtaken = @ \/ (tick.stage = "pairs" /\ after[i].pnl < 0)]
        /\ UNCHANGED <<marks, recorded, day, lives>>

(* getState: every status event and every dashboard that connects asks for *)
(* the day's equity, and stores it when it is the first.                   *)
StatusRead == /\ Remember(recorded)
              /\ UNCHANGED <<trades, marks, paperEquity, tripped, recorded, day, lives, tick>>

Reset == /\ tripped /\ tripped' = FALSE
         /\ Remember(recorded)
         /\ UNCHANGED <<trades, marks, paperEquity, recorded, day, lives, tick>>

Midnight == /\ day + lives < 2 + MaxTurns /\ day' = day + 1
            /\ UNCHANGED <<trades, marks, paperEquity, tripped, dayStart, recorded, lives, tick>>

(* The process restarts: the table and the settings stay, the rest starts  *)
(* anew, the paper equity and the breaker's latch among it.                *)
Restart == /\ day + lives < 2 + MaxTurns /\ lives' = lives + 1
           /\ marks' = [s \in Symbols |-> NoPrice]
           /\ paperEquity' = 100 * StartingEquity /\ tripped' = FALSE /\ tick' = Idle
           /\ UNCHANGED <<trades, dayStart, recorded, day>>

Next == \/ \E s \in Symbols, p \in Prices : MarkMoves(s, p) \/ ManualClose(s, p)
        \/ TickStarts \/ TickEnds
        \/ \E p \in Prices \cup {NoPrice} : PriceComes(p) \/ SweepGoesOn(p)
        \/ \E k \in DOMAIN Pairs : \E side \in Signals[Pairs[k]], p \in Prices : TickEnters(k, side, p)
        \/ StatusRead \/ Reset \/ Midnight \/ Restart
-----------------------------------------------------------------------------
TypeOk == /\ Len(trades) <= MaxTrades /\ marks \in [Symbols -> Prices \cup {NoPrice}]
          /\ tripped \in BOOLEAN /\ {day, lives} \subseteq 1 .. 1 + MaxTurns
          /\ \A i \in DOMAIN trades : /\ trades[i].closedOn \in 0 .. day /\ trades[i].life \in 0 .. lives
                                      /\ trades[i].closedOn = 0 => trades[i].life = 0
          /\ tick \in [stage : {"idle", "prices", "pairs", "sweep"}, next : 0 .. Len(Pairs) + 1,
                       left : SUBSET DOMAIN trades, overtaken : BOOLEAN]
          /\ tick.stage = "prices" => tick.next \in DOMAIN Pairs
          /\ tick.stage = "sweep" <=> tick.left # {}

(* The rows of the table; and what is stored as a day's starting equity is *)
(* positive.                                                               *)
Trade == [symbol : Symbols, side : {"LONG", "SHORT"}, size : Nat, entry : Nat, stop : Int,
          target : Int, closedOn : Nat, exit : Int \cup {NoPrice}, pnl : Int, life : Nat,
          reason : {"NONE", "STOP_LOSS", "TAKE_PROFIT", "EMERGENCY", "MANUAL"}]

DayStartSound == /\ dayStart \in [day : Nat, equity : Int] /\ dayStart.day <= day
                 /\ dayStart.day = day => dayStart.equity > 0

(* The capital at risk stays inside the caps whatever is open, and the     *)
(* paper equity and the table agree: the equity is the starting equity     *)
(* plus the P&L of the rows that were closed in this life, each counted    *)
(* once, whether a stop or target, the flattening or the operator closed   *)
(* them.                                                                   *)
BooksBalance ==
  /\ Exposure(trades) <= GlobalRiskCap
  /\ \A i \in DOMAIN trades : trades[i].size * trades[i].entry <= MaxPositionSize
  /\ paperEquity = 100 * StartingEquity
       + SumFunctionOnSet([i \in DOMAIN trades |-> trades[i].pnl], {i \in DOMAIN trades : trades[i].life = lives})

(* The day's realised loss is below the limit.  There is a limit once a    *)
(* positive equity is stored for the day.                                  *)
BelowLimit(rows) ==
  LET lost == RealisedPnlToday(rows)
  IN  lost < 0 /\ dayStart.day = day => -lost * 100 < MaxDailyLossPct * dayStart.equity

(* A tick that no loss has overtaken goes over its pairs below the limit:  *)
(* the limit of the stored equity, or of the equity it would be now.       *)
TickUnderLimit ==
  tick.stage = "pairs" /\ ~tick.overtaken => ~tripped /\ ~Breached(trades, recorded)

(* Inductive, with a table that holds only trades.                         *)
PaperInv == /\ TypeOk /\ trades \in Seq(Trade) /\ recorded \in Int
            /\ DayStartSound /\ BooksBalance /\ TickUnderLimit

(* What a step may never do: loosen the stop of an open trade, change a    *)
(* settled row, replace the equity a day started with, or enter with the   *)
(* breaker tripped or the day's loss at the limit.  The one exception is   *)
(* a tick that a loss has overtaken: a manual close settled it while the   *)
(* tick waited after it had asked the breaker, and the tick goes on.       *)
Prudent ==
  /\ \A i \in Open(trades) :
       IF trades[i].side = "LONG" THEN trades'[i].stop >= trades[i].stop ELSE trades'[i].stop <= trades[i].stop
  /\ \A i \in DOMAIN trades \ Open(trades) : trades'[i] = trades[i]
  /\ dayStart.day = day /\ day' = day => dayStart' = dayStart
  /\ Len(trades') > Len(trades) /\ ~tick.overtaken => ~tripped /\ BelowLimit(trades')
=============================================================================
