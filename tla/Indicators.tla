----------------------------- MODULE Indicators -----------------------------
(***************************************************************************)
(* The two implementations of the indicators: the server's, batches over   *)
(* the candles (indicators.ts), and the packages', updated value by value  *)
(* (incremental.ts); and the strategies that read the former (index.ts).   *)
(* Prices are integers that every division met here divides, so nothing is *)
(* rounded; a ratio is kept as a pair and compared by cross-multiplying.   *)
(***************************************************************************)
EXTENDS Integers, Sequences, SequencesExt, FiniteSetsExt

CONSTANTS SmaPeriod, RsiPeriod, FastPeriod, SlowPeriod, SignalPeriod,
          RsiUpper, RsiLower,   \* percent
          BandMult,             \* Bollinger: standard deviations
          GridStepPct

LOCAL Abs(x) == IF x < 0 THEN -x ELSE x
LOCAL Total(v) == FoldLeft(+, 0, v)
LOCAL Tail_(v, n) == SubSeq(v, Len(v) - n + 1, Len(v))
-----------------------------------------------------------------------------
(* indicators.ts.  A series ends with the last candle.                     *)

(* One running sum that gains a value and loses the one it evicts. *)
Sma(v, p) ==
  LET sum[i \in 0 .. Len(v)] ==
        IF i = 0 THEN 0 ELSE sum[i - 1] + v[i] - (IF i > p THEN v[i - p] ELSE 0)
  IN  IF Len(v) < p THEN <<>> ELSE [j \in 1 .. Len(v) - p + 1 |-> sum[j + p - 1] \div p]

EmaSeededByFirst(v, p) ==   \* mutant: the first value, not the mean of the first p
  LET e[i \in p .. Len(v)] == IF i = p THEN v[1] ELSE (2 * v[i] + e[i - 1] * (p - 1)) \div (p + 1)
  IN  IF Len(v) < p THEN <<>> ELSE [j \in 1 .. Len(v) - p + 1 |-> e[j + p - 1]]

Ema(v, p) ==
  LET e[i \in p .. Len(v)] ==
        IF i = p THEN Total(SubSeq(v, 1, p)) \div p
        ELSE (2 * v[i] + e[i - 1] * (p - 1)) \div (p + 1)
  IN  IF Len(v) < p THEN <<>> ELSE [j \in 1 .. Len(v) - p + 1 |-> e[j + p - 1]]

(* Wilder's smoothing, which rsi and atr share. *)
Wilder(v, p) ==
  LET w[i \in p .. Len(v)] ==
        IF i = p THEN Total(SubSeq(v, 1, p)) \div p ELSE (w[i - 1] * (p - 1) + v[i]) \div p
  IN  IF Len(v) < p THEN <<>> ELSE [j \in 1 .. Len(v) - p + 1 |-> w[j + p - 1]]

(* The average gain and loss that the RSI is the ratio of. *)
Rsi(v, p) ==
  LET up(i)   == Max({0, v[i + 1] - v[i]})
      down(i) == Max({0, v[i] - v[i + 1]})
      gains   == Wilder([i \in 1 .. Len(v) - 1 |-> up(i)], p)
      losses  == Wilder([i \in 1 .. Len(v) - 1 |-> down(i)], p)
  IN  IF Len(v) <= p THEN <<>> ELSE [i \in 1 .. Len(gains) |-> [g |-> gains[i], l |-> losses[i]]]

(* toRsi(g, l) >= level and <= level: without a loss the RSI is 100.       *)
RsiAtLeast(r, level) == IF r.l = 0 THEN level <= 100 ELSE 100 * r.g >= level * (r.g + r.l)
RsiAtMost(r, level)  == IF r.l = 0 THEN level >= 100 ELSE 100 * r.g <= level * (r.g + r.l)

(* The lines end together, so the longer one is trimmed at its front. *)
Macd(v) ==
  LET fast == Ema(v, FastPeriod)
      slow == Ema(v, SlowPeriod)
      line == [i \in 1 .. Len(slow) |-> Tail_(fast, Len(slow))[i] - slow[i]]
  IN  [line |-> line, signal |-> Ema(line, SignalPeriod)]

(* Of each window, the sum that stdev divides by p. *)
Deviations(v, p) ==
  IF Len(v) < p THEN <<>>
  ELSE [j \in 1 .. Len(v) - p + 1 |->
          LET window == SubSeq(v, j, j + p - 1)
              mean   == Total(window) \div p
          IN  Total([i \in 1 .. p |-> (window[i] - mean) * (window[i] - mean)])]

StdevSquared(v, p) == <<Last(Deviations(v, p)), p>>

CrossedAbove(s, r) == /\ Len(s) >= 2 /\ Len(r) >= 2
                      /\ s[Len(s) - 1] <= r[Len(r) - 1] /\ Last(s) > Last(r)
CrossedBelow(s, r) == /\ Len(s) >= 2 /\ Len(r) >= 2
                      /\ s[Len(s) - 1] >= r[Len(r) - 1] /\ Last(s) < Last(r)

TrueRange(bars) ==
  [i \in 1 .. Len(bars) - 1 |->
     LET bar == bars[i + 1] prev == bars[i].close
     IN  Max({bar.high - bar.low, Abs(bar.high - prev), Abs(bar.low - prev)})]

Atr(bars, p) == Wilder(TrueRange(bars), p)
-----------------------------------------------------------------------------
(* incremental.ts: a class is its state and the update of one value.       *)

(* RingBuffer: what it holds, oldest first, and what a push evicted.       *)
Push(buffer, value, p) ==
  IF Len(buffer) < p THEN [kept |-> Append(buffer, value), evicted |-> <<>>]
  ELSE [kept |-> Append(Tail(buffer), value), evicted |-> <<Head(buffer)>>]

NewRollingMean == [buffer |-> <<>>, sum |-> 0]
RollingMeanUpdate(m, value, p) ==
  LET pushed == Push(m.buffer, value, p)
  IN  [buffer |-> pushed.kept, sum |-> m.sum + value - Total(pushed.evicted)]
MeanReady(m, p) == Len(m.buffer) = p
MeanOf(m) == m.sum \div Len(m.buffer)

(* Ema and Atr: a rolling mean until it is full, then a recursion.         *)
NewSmoothed == [seed |-> NewRollingMean, current |-> <<>>]
SmoothedUpdate(s, value, p, Step(_, _)) ==
  LET seeded == RollingMeanUpdate(s.seed, value, p)
  IN  IF s.current # <<>> THEN [s EXCEPT !.current = <<Step(s.current[1], value)>>]
      ELSE [seed |-> seeded, current |-> IF MeanReady(seeded, p) THEN <<MeanOf(seeded)>> ELSE <<>>]
EmaUpdate(s, value, p) ==
  SmoothedUpdate(s, value, p, LAMBDA current, v : (2 * v + current * (p - 1)) \div (p + 1))

NewAtr == [prev |-> <<>>, smoothed |-> NewSmoothed]
AtrUpdate(a, bar, p) ==
  LET tr == IF a.prev = <<>> THEN bar.high - bar.low
            ELSE Max({bar.high - bar.low, Abs(bar.high - a.prev[1]), Abs(bar.low - a.prev[1])})
  IN  [prev     |-> <<bar.close>>,
       smoothed |-> SmoothedUpdate(a.smoothed, tr, p, LAMBDA current, v : (current * (p - 1) + v) \div p)]

(* RollingVariance: Welford's sums while it fills, then a replacement.     *)
NewVariance == [buffer |-> <<>>, mean |-> 0, m2 |-> 0]
VarianceUpdate(w, value, p) ==
  LET pushed == Push(w.buffer, value, p)
      n      == Len(pushed.kept)
  IN  IF pushed.evicted = <<>>
      THEN LET mean == w.mean + (value - w.mean) \div n
           IN  [buffer |-> pushed.kept, mean |-> mean, m2 |-> w.m2 + (value - w.mean) * (value - mean)]
      ELSE LET out  == pushed.evicted[1]
               mean == w.mean + (value - out) \div n
           IN  [buffer |-> pushed.kept, mean |-> mean,
                m2 |-> Max({0, w.m2 + (value - out) * (value - mean + out - w.mean)})]
VarianceReady(w) == Len(w.buffer) >= 2
VarianceOf(w)    == IF VarianceReady(w) THEN <<w.m2, Len(w.buffer) - 1>> ELSE <<0, 1>>
-----------------------------------------------------------------------------
(* strategies/index.ts: the decision on the candles' closes.               *)
Momentum(v) ==
  LET m       == Macd(v)
      rsi     == Rsi(v, RsiPeriod)
      aligned == Tail_(m.line, Len(m.signal))
  IN  IF \/ Len(v) < SlowPeriod + SignalPeriod + 2
         \/ rsi = <<>> \/ Len(m.signal) < 2 THEN "HOLD" ELSE
      CASE CrossedAbove(aligned, m.signal) -> IF RsiAtLeast(Last(rsi), RsiUpper) THEN "HOLD" ELSE "BUY"
        [] CrossedBelow(aligned, m.signal) -> IF RsiAtMost(Last(rsi), RsiLower) THEN "HOLD" ELSE "SELL"
        [] OTHER                           -> "HOLD"

(* The price is at least BandMult standard deviations above (below) the    *)
(* mean of the window, which a price at the mean of a flat one is, too.    *)
MeanReversion(v) ==
  LET p      == SmaPeriod
      gap    == Last(v) - Last(Sma(v, p))
      beyond == gap * gap * p >= BandMult * BandMult * Last(Deviations(v, p))
      rsi    == Last(Rsi(v, RsiPeriod))
  IN  IF Len(v) < p + RsiPeriod + 2 THEN "HOLD" ELSE
      CASE gap >= 0 /\ beyond /\ RsiAtLeast(rsi, RsiUpper) -> "SELL"
        [] gap <= 0 /\ beyond /\ RsiAtMost(rsi, RsiLower)  -> "BUY"
        [] OTHER                                           -> "HOLD"

Grid(v) ==
  LET mean == Last(Sma(v, SmaPeriod))
      gap  == Last(v) - mean
  IN  IF Len(v) < SmaPeriod + 1 \/ 100 * Abs(gap) < GridStepPct * mean THEN "HOLD"
      ELSE IF gap < 0 THEN "BUY" ELSE "SELL"

(* getStrategyImpl *)
Evaluate(kind, v) == CASE kind = "MOMENTUM"       -> Momentum(v)
                       [] kind = "MEAN_REVERSION" -> MeanReversion(v)
                       [] kind = "GRID"           -> Grid(v)
                       [] kind = "CUSTOM"         -> "HOLD"
-----------------------------------------------------------------------------
BarsOf(v, pad) == [i \in DOMAIN v |-> [high |-> v[i] + pad, low |-> v[i] - pad, close |-> v[i]]]

(* The packages' indicators, fed a series value by value, end where the    *)
(* server's batches over the whole series end: a strategy sees the same    *)
(* numbers live and replayed.  The ATRs agree on all but the first range,  *)
(* which only the incremental one counts.  The variances differ by the     *)
(* factor n / (n - 1): the streaming one estimates, the bands take the     *)
(* window for all there is; and it answers from the second value on, with  *)
(* the variance of those it has seen.                                      *)
IncrementalIsBatch(v, pad) ==
  LET p       == SmaPeriod
      mean    == FoldLeft(LAMBDA m, x : RollingMeanUpdate(m, x, p), NewRollingMean, v)
      ema     == FoldLeft(LAMBDA s, x : EmaUpdate(s, x, p), NewSmoothed, v)
      var     == FoldLeft(LAMBDA w, x : VarianceUpdate(w, x, p), NewVariance, v)
      atr     == FoldLeft(LAMBDA a, bar : AtrUpdate(a, bar, RsiPeriod), NewAtr, BarsOf(v, pad))
      ranges  == <<2 * pad>> \o TrueRange(BarsOf(v, pad))
  IN  /\ Len(v) >= p => /\ MeanReady(mean, p) /\ MeanOf(mean) = Last(Sma(v, p))
                        /\ MeanOf(mean) * p = Total(Tail_(v, p))
                        /\ ema.current = <<Last(Ema(v, p))>>
      /\ Len(v) < p => ~MeanReady(mean, p) /\ ema.current = <<>> /\ Sma(v, p) = <<>> /\ Ema(v, p) = <<>>
      /\ VarianceReady(var) <=> Len(v) >= 2
      /\ LET n     == Min({Len(v), p})
             batch == StdevSquared(v, n)
         IN  n >= 2 => VarianceOf(var)[1] * (n - 1) * batch[2] = VarianceOf(var)[2] * n * batch[1]
      /\ Len(v) >= RsiPeriod => atr.smoothed.current = <<Last(Wilder(ranges, RsiPeriod))>>

(* A market and its mirror image get opposite decisions from momentum and  *)
(* from mean reversion: no sign, inequality or alignment favours a side.   *)
(* The exception is the RSI of a window without a single move, which is    *)
(* 100 and not 50: a flat market is sold as overbought.                    *)
SignalsMirror(v, axis) ==
  LET mirror   == [i \in DOMAIN v |-> axis - v[i]]
      opposite == [BUY |-> "SELL", SELL |-> "BUY", HOLD |-> "HOLD"]
      moved    == \E i \in 1 .. Len(v) - 1 : v[i] # v[i + 1]
  IN  \A kind \in {"MOMENTUM", "MEAN_REVERSION"} :
        moved => Evaluate(kind, mirror) = opposite[Evaluate(kind, v)]
=============================================================================
