----------------------------- MODULE Analytics ------------------------------
(***************************************************************************)
(* What the server computes from closed trades: performanceStats,          *)
(* symbolStats and consecutiveLosses (db.ts), and the replay of a strategy *)
(* over candles with its equity path (backtest.ts).  A ratio is kept as    *)
(* its numerator and denominator.  A list of trades is the list of their   *)
(* P&Ls; the database reads it by opening or by closing time.              *)
(***************************************************************************)
EXTENDS Integers, Sequences, SequencesExt, FiniteSetsExt

LOCAL Total(v) == FoldLeft(+, 0, v)
LOCAL Positive(v) == SelectSeq(v, LAMBDA x : x > 0)
LOCAL Negative(v) == SelectSeq(v, LAMBDA x : x < 0)
LOCAL Bigger(a, b) == IF a > b THEN a ELSE b
-----------------------------------------------------------------------------
NoStats == [cumulative |-> 0, peak |-> 0, drawdown |-> 0, wins |-> 0, losses |-> 0,
            longestWins |-> 0, longestLosses |-> 0]

FoldTradeKeepsRuns(s, p) ==   \* mutant: a win does not end a run of losses
  LET total == s.cumulative + p
      peak  == Bigger(s.peak, total)
      wins  == IF p > 0 THEN s.wins + 1 ELSE s.wins
      losses == IF p < 0 THEN s.losses + 1 ELSE s.losses
  IN  [cumulative |-> total, peak |-> peak, drawdown |-> Bigger(s.drawdown, peak - total),
       wins |-> wins, losses |-> losses,
       longestWins |-> Bigger(s.longestWins, wins), longestLosses |-> Bigger(s.longestLosses, losses)]

(* One turn of the loop over the trades by opening time; a trade that breaks even ends no    *)
(* run and extends none.                                                   *)
FoldTrade(s, p) ==
  LET total  == s.cumulative + p
      peak   == Bigger(s.peak, total)
      wins   == IF p > 0 THEN s.wins + 1 ELSE IF p < 0 THEN 0 ELSE s.wins
      losses == IF p < 0 THEN s.losses + 1 ELSE IF p > 0 THEN 0 ELSE s.losses
  IN  [cumulative |-> total, peak |-> peak, drawdown |-> Bigger(s.drawdown, peak - total),
       wins |-> wins, losses |-> losses,
       longestWins |-> Bigger(s.longestWins, wins), longestLosses |-> Bigger(s.longestLosses, losses)]

PerformanceStats(pnls) ==
  LET path == FoldLeft(FoldTrade, NoStats, pnls)
      won  == Positive(pnls)
      lost == Negative(pnls)
  IN  [totalTrades |-> Len(pnls), winRate |-> <<Len(won), Len(pnls)>>,
       avgWin |-> <<Total(won), Bigger(1, Len(won))>>, avgLoss |-> <<Total(lost), Bigger(1, Len(lost))>>,
       profitFactor |-> <<Total(won), -Total(lost)>>,
       netPnl |-> Total(pnls), maxDrawdown |-> path.drawdown,
       longestWinStreak |-> path.longestWins, longestLossStreak |-> path.longestLosses]

(* 1 - winRate counts the trades that broke even as losers.                *)
Expectancy(pnls) ==
  LET s == PerformanceStats(pnls)
  IN  [num |-> s.avgWin[1] * s.winRate[1] * s.avgLoss[2] + (Len(pnls) - s.winRate[1]) * s.avgLoss[1] * s.avgWin[2],
       den |-> Len(pnls) * s.avgWin[2] * s.avgLoss[2]]

(* symbolStats: one row per symbol of <<symbol, pnl>> pairs.               *)
SymbolStats(trades) ==
  [s \in {t[1] : t \in ToSet(trades)} |->
     LET mine == SelectSeq(trades, LAMBDA t : t[1] = s)
         pnls == [i \in DOMAIN mine |-> mine[i][2]]
     IN  [trades |-> Len(mine), wins |-> Len(Positive(pnls)), netPnl |-> Total(pnls)]]

(* consecutiveLosses: of the trades by closing time the last `limit',      *)
(* newest first, up to the first that did not lose.                        *)
ConsecutiveLosses(closed, limit) ==
  LET recent == SubSeq(Reverse(closed), 1, Min({limit, Len(closed)}))
      ends   == {i \in DOMAIN recent : recent[i] >= 0}
  IN  IF ends = {} THEN Len(recent) ELSE Min(ends) - 1
-----------------------------------------------------------------------------
(* backtest.ts.  A candle is [open time, low, high, close]; the strategy's *)
(* decision at each is an input, here `decide'.                            *)
ResolveExit(position, candle) ==
  LET stopped == IF position.side = "LONG" THEN candle.low <= position.stop ELSE candle.high >= position.stop
      reached == IF position.side = "LONG" THEN candle.high >= position.target ELSE candle.low <= position.target
  IN  CASE stopped -> <<position.stop>> [] ~stopped /\ reached -> <<position.target>> [] OTHER -> <<>>

Pnl(position, exit) == IF position.side = "LONG" THEN exit - position.entry ELSE position.entry - exit

(* The candles of one symbol after the strategy's warm-up.  A turn either  *)
(* enters at the candle's close or looks for an exit on the next candle,   *)
(* so the candle after an entry is looked at by neither; a signal that     *)
(* comes while a position is open is dropped.                              *)
Entered(candles, decide, i, risk) ==
  LET side == IF decide[i] = "BUY" THEN 1 ELSE -1
  IN  [side |-> IF decide[i] = "BUY" THEN "LONG" ELSE "SHORT", entry |-> candles[i].close, at |-> i,
       stop |-> candles[i].close - side * risk, target |-> candles[i].close + side * risk]

Replay(candles, warmup, decide, risk) ==
  LET turn(acc, i) ==
        LET exit == IF acc.position = <<>> THEN <<>> ELSE ResolveExit(acc.position[1], candles[i + 1])
        IN  CASE acc.position # <<>> /\ exit # <<>> ->
                   [position |-> <<>>,
                    trades   |-> Append(acc.trades, [at |-> i + 1, from |-> acc.position[1].at,
                                                     pnl |-> Pnl(acc.position[1], exit[1])])]
              [] acc.position = <<>> /\ decide[i] # "HOLD" -> 
                   [acc EXCEPT !.position = <<Entered(candles, decide, i, risk)>>]
              [] OTHER -> acc
  IN  FoldLeft(turn, [position |-> <<>>, trades |-> <<>>],
                [i \in 1 .. Len(candles) - 1 - warmup |-> i + warmup]).trades

(* The trades of all symbols in the order they closed, then one path.      *)
EquityPath(perSymbol, starting) ==
  LET merged == SortSeq(FlattenSeq(perSymbol), LAMBDA a, b : a.at < b.at)
      path   == FoldLeft(FoldTrade, NoStats, [i \in DOMAIN merged |-> merged[i].pnl])
  IN  [merged |-> merged, equity |-> starting + path.cumulative, maxDrawdown |-> path.drawdown,
       wins |-> Len(SelectSeq(merged, LAMBDA t : t.pnl > 0))]
-----------------------------------------------------------------------------
LOCAL Span(v, i, j) == Total(SubSeq(v, i, j))

(* The one-pass statistics are what their names say of the trades as they  *)
(* opened: the drawdown is the deepest fall between any two moments, a     *)
(* streak the longest run without its opposite.  The breaker's losing      *)
(* streak is that of the trades as they closed.  Read by closing time the  *)
(* totals stay what they are; the drawdown and the streaks are other ones  *)
(* when trades overlapped, and only then can the breaker's streak be       *)
(* longer than the longest one that is shown.                              *)
StatisticsAgree(pnls, closing) ==
  LET s       == PerformanceStats(pnls)
      closed  == [i \in DOMAIN closing |-> pnls[closing[i]]]
      c       == PerformanceStats(closed)
      falls   == {0} \cup {-Span(pnls, i, j) : i, j \in DOMAIN pnls}
      run(Ends(_), Counts(_)) ==
        Max({0} \cup {Len(SelectSeq(SubSeq(pnls, p[1], p[2]), Counts)) :
                        p \in {q \in (DOMAIN pnls) \X (DOMAIN pnls) :
                                  \A k \in q[1] .. q[2] : ~Ends(pnls[k])}})
      streak  == ConsecutiveLosses(closed, 50)
      totals(x) == [x EXCEPT !.maxDrawdown = 0, !.longestWinStreak = 0, !.longestLossStreak = 0]
  IN  /\ s.maxDrawdown = Max(falls)
      /\ s.longestWinStreak  = run(LAMBDA p : p < 0, LAMBDA p : p > 0)
      /\ s.longestLossStreak = run(LAMBDA p : p > 0, LAMBDA p : p < 0)
      /\ s.netPnl = s.profitFactor[1] - s.profitFactor[2]
      /\ totals(s) = totals(c)
      /\ \A i \in Len(closed) - streak + 1 .. Len(closed) : closed[i] < 0
      /\ streak < Len(closed) => closed[Len(closed) - streak] >= 0
      /\ streak <= c.longestLossStreak
      /\ streak > s.longestLossStreak => \E i \in 2 .. Len(closing) : closing[i] < closing[i - 1]
      /\ pnls # <<>> /\ (\A i \in DOMAIN pnls : pnls[i] # 0) =>
           Expectancy(pnls).num * Len(pnls) = s.netPnl * Expectancy(pnls).den

(* A backtest does not look ahead: what it traded by a candle does not     *)
(* depend on the candles after it.  Its trades of one symbol never         *)
(* overlap; each exits on the first candle that reaches its stop or        *)
(* target, from the second one after its entry on (backtest.ts:40 speaks   *)
(* of the NEXT one); and the merged path does not depend on the order in   *)
(* which the symbols were replayed.                                        *)
BacktestHonest(candles, warmup, decide, other, risk) ==
  LET trades == Replay(candles, warmup, decide, risk)
      second == Replay(candles, warmup, other, risk)
      path   == EquityPath(<<trades, second>>, 0)
      Leaves(t, j) == ResolveExit(Entered(candles, decide, t.from, risk), candles[j]) # <<>>
  IN  /\ \A n \in 0 .. Len(candles) :
           Replay(SubSeq(candles, 1, n), warmup, decide, risk) = SelectSeq(trades, LAMBDA t : t.at <= n)
      /\ \A t \in ToSet(trades) :
           /\ warmup < t.from /\ t.from + 2 <= t.at
           /\ Leaves(t, t.at) /\ \A j \in t.from + 2 .. t.at - 1 : ~Leaves(t, j)
      /\ \A i \in 1 .. Len(trades) - 1 : trades[i].at <= trades[i + 1].from
      /\ \A i \in DOMAIN trades : trades[i].pnl \in {-risk, risk}
      /\ \A i \in 1 .. Len(path.merged) - 1 : path.merged[i].at <= path.merged[i + 1].at
      /\ path.equity = EquityPath(<<second, trades>>, 0).equity
      /\ path.wins   = EquityPath(<<second, trades>>, 0).wins
      /\ \A s \in {"first", "second"} :
           LET named == [i \in DOMAIN trades |-> <<"first", trades[i].pnl>>]
                          \o [i \in DOMAIN second |-> <<"second", second[i].pnl>>]
               stats == SymbolStats(named)
           IN  s \in DOMAIN stats =>
                 stats[s].netPnl = Total([i \in DOMAIN IF s = "first" THEN trades ELSE second |->
                                            (IF s = "first" THEN trades ELSE second)[i].pnl])
=============================================================================
