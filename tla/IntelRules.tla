----------------------------- MODULE IntelRules -----------------------------
(***************************************************************************)
(* Market intelligence as the engine uses it: regime (regime.ts, adx in    *)
(* indicators.ts), conviction (scoring.ts), correlation and consensus      *)
(* (intel/index.ts), the providers' cache (providers.ts), and the gates of *)
(* actOnSignal (engine.ts).  Percentages are integers; a score counts      *)
(* 2000ths; a divided figure is rounded down.                              *)
(***************************************************************************)
EXTENDS Indicators

CONSTANTS NoFigure,  \* a provider had nothing
          TrendPeriod, CacheTtl

LOCAL Magnitude(x) == IF x < 0 THEN -x ELSE x
LOCAL SumOf(v) == FoldLeft(+, 0, v)
-----------------------------------------------------------------------------
Smooth(v, p) ==
  LET s[i \in p .. Len(v)] ==
        IF i = p THEN SumOf(SubSeq(v, 1, p)) ELSE s[i - 1] - s[i - 1] \div p + v[i]
  IN  [j \in 1 .. Len(v) - p + 1 |-> s[j + p - 1]]

(* Only the larger of the two moves counts, and only when it is positive.  *)
Adx(bars, p) ==
  LET up(i)   == bars[i + 1].high - bars[i].high
      down(i) == bars[i].low - bars[i + 1].low
      plus    == [i \in 1 .. Len(bars) - 1 |-> IF up(i) > down(i) /\ up(i) > 0 THEN up(i) ELSE 0]
      minus   == [i \in 1 .. Len(bars) - 1 |-> IF down(i) > up(i) /\ down(i) > 0 THEN down(i) ELSE 0]
      sp      == Smooth(plus, p)
      sm      == Smooth(minus, p)
      dx      == [i \in 1 .. Len(sp) |->
                    IF Smooth(TrueRange(bars), p)[i] = 0 \/ sp[i] + sm[i] = 0 THEN 0
                    ELSE (100 * Magnitude(sp[i] - sm[i])) \div (sp[i] + sm[i])]
  IN  IF Len(bars) < 2 * p \/ Len(dx) < p THEN <<>> ELSE Wilder(dx, p)

DirectionalBias(bars, p) ==
  LET first == bars[Len(bars) - p].close
      moved == 1000 * (bars[Len(bars)].close - first)
  IN  CASE Len(bars) < p + 1 -> 0
        [] Len(bars) >= p + 1 /\ moved > Magnitude(first) -> 1
        [] Len(bars) >= p + 1 /\ moved < -Magnitude(first) -> -1
        [] OTHER -> 0

(* A violent market is its own regime, whether it trends or not.           *)
ClassifyRegime(bars, p) ==
  LET strength == Adx(bars, p)
      range    == Atr(bars, p)
      adx      == strength[Len(strength)]
      violent  == 50 * range[Len(range)] >= bars[Len(bars)].close
  IN  CASE strength = <<>> \/ range = <<>> -> "UNKNOWN"
        [] strength # <<>> /\ range # <<>> /\ violent -> "VOLATILE"
        [] strength # <<>> /\ range # <<>> /\ ~violent /\ adx >= 25 -> "TRENDING"
        [] strength # <<>> /\ range # <<>> /\ ~violent /\ adx <= 20 -> "RANGING"
        [] OTHER -> "TRANSITIONAL"

Kinds == {"MOMENTUM", "MEAN_REVERSION", "GRID"}
RegimeAllows(kind, regime) ==
  <<kind, regime>> \notin {<<"MEAN_REVERSION", "TRENDING">>, <<"MOMENTUM", "RANGING">>, <<"GRID", "VOLATILE">>}
-----------------------------------------------------------------------------
(* scoring.ts.  `in' is [action, confidence, regime, direction, funding,   *)
(* fear, oi]; funding in 1/10000, the extreme being 5.                     *)
RegimeScore(in) ==
  CASE in.regime = "TRENDING" -> IF in.direction = (IF in.action = "BUY" THEN 1 ELSE -1) THEN 90 ELSE 15
    [] in.regime = "RANGING"  -> 60
    [] in.regime = "VOLATILE" -> 30
    [] OTHER -> 50
FundingScoreOneSided(in) ==   \* mutant: crowded shorts are not looked at
  IF in.funding = NoFigure \/ in.funding <= 5 THEN 50 ELSE IF in.action = "BUY" THEN 20 ELSE 85
FundingScore(in) ==
  CASE in.funding = NoFigure \/ in.funding \in -5 .. 5 -> 50
    [] in.funding # NoFigure /\ in.funding > 5  -> IF in.action = "BUY" THEN 20 ELSE 85
    [] in.funding # NoFigure /\ in.funding < -5 -> IF in.action = "BUY" THEN 85 ELSE 20
SentimentScore(in) ==
  CASE in.fear = NoFigure \/ in.fear \in 26 .. 74 -> 50
    [] in.fear # NoFigure /\ in.fear <= 25 -> IF in.action = "BUY" THEN 80 ELSE 30
    [] in.fear # NoFigure /\ in.fear >= 75 -> IF in.action = "BUY" THEN 30 ELSE 80
InterestScore(in) ==
  CASE in.oi = NoFigure \/ in.oi \in -1 .. 1 -> 50
    [] in.oi # NoFigure /\ in.oi > 1  -> 75
    [] in.oi # NoFigure /\ in.oi < -1 -> 35

ScoreConviction(in) == 9 * in.confidence + 4 * RegimeScore(in) + 3 * FundingScore(in)
                         + 2 * SentimentScore(in) + 2 * InterestScore(in)
MinConviction == 900

(* sizeMultiplier, in 2200ths: from one half to one.                       *)
SizeMultiplier(score) == 1100 + Max({0, Min({1100, score - MinConviction})})

(* volatilityStopPct, in basis points, of an ATR of atr / close.           *)
VolatilityStop(atr, close, multiplier, fallback) ==
  IF atr <= 0 THEN fallback ELSE Max({20, Min({2000, (10000 * atr * multiplier) \div close})})
-----------------------------------------------------------------------------
(* Correlation of two series, as its sign, its square's numerator and      *)
(* denominator: the tails that both have are compared.                     *)
Correlation(a, b) ==
  LET n  == Min({Len(a), Len(b)})
      x  == SubSeq(a, Len(a) - n + 1, Len(a))
      y  == SubSeq(b, Len(b) - n + 1, Len(b))
      dx == [i \in 1 .. n |-> n * x[i] - SumOf(x)]
      dy == [i \in 1 .. n |-> n * y[i] - SumOf(y)]
      dot(p, q) == SumOf([i \in 1 .. n |-> p[i] * q[i]])
      cov == dot(dx, dy)
      var == dot(dx, dx) * dot(dy, dy)
  IN  IF n < 2 \/ var = 0 THEN [sign |-> 0, num |-> 0, den |-> 1]
      ELSE [sign |-> IF cov > 0 THEN 1 ELSE IF cov < 0 THEN -1 ELSE 0, num |-> cov * cov, den |-> var]

(* worstCorrelation over a table keyed by unordered pairs.                 *)
WorstCorrelation(table, symbol, held) ==
  LET known == {h \in held \ {symbol} : {symbol, h} \in DOMAIN table}
  IN  Max({0} \cup {Magnitude(table[{symbol, h}]) : h \in known})

(* Twice the median.                                                       *)
Median2(quotes) ==
  LET sorted == SortSeq(quotes, <)
      mid    == Len(quotes) \div 2
  IN  IF Len(quotes) % 2 = 0 THEN sorted[mid] + sorted[mid + 1] ELSE 2 * sorted[mid + 1]

(* Twice the consensus: fetchConsensusPrices asks two venues, each of      *)
(* which may have nothing.                                                 *)
Consensus2(coinbase, kraken) ==
  LET quotes == SelectSeq(<<coinbase, kraken>>, LAMBDA q : q # NoFigure)
  IN  IF quotes = <<>> THEN NoFigure ELSE Median2(quotes)

(* cached(): an entry serves until it expires, and beyond that as long as  *)
(* the provider fails.                                                     *)
Cached(entry, now, answer) ==
  CASE entry # NoFigure /\ entry.expires > now -> [entry |-> entry, value |-> entry.value]
    [] ~(entry # NoFigure /\ entry.expires > now) /\ answer # NoFigure ->
         [entry |-> [value |-> answer, expires |-> now + CacheTtl], value |-> answer]
    [] OTHER -> [entry |-> entry, value |-> IF entry = NoFigure THEN NoFigure ELSE entry.value]
-----------------------------------------------------------------------------
(* actOnSignal up to the order: the quantity it asks for, 0 if a gate      *)
(* stops it.  s: settings; known: is there intelligence on the symbol;     *)
(* verdict: the size the risk check approved, 0 when it refused.           *)
Sized(s, score, known, verdict) ==
  LET scaled == (verdict.qty * SizeMultiplier(score)) \div 2200
  IN  IF s.sizing /\ known /\ scaled >= verdict.min THEN scaled ELSE verdict.qty

Gated(s, in, kind, known, deviation, worst, verdict) ==
  LET score == ScoreConviction(in)
      stopped == \/ s.enabled /\ known /\ s.regimeFilter /\ ~RegimeAllows(kind, in.regime)
                 \/ s.enabled /\ known /\ deviation # NoFigure /\ Magnitude(deviation) > s.maxDeviation
                 \/ s.enabled /\ known /\ s.convictionFilter /\ score < MinConviction
                 \/ s.enabled /\ s.maxCorrelation < 100 /\ worst >= s.maxCorrelation
  IN  IF stopped THEN 0 ELSE Sized(s, score, s.enabled /\ known, verdict)

HeldBeforeTick(held, opened) == held   \* mutant: the open trades are read once per tick
HeldNow(held, opened) == held \cup opened

(* The signals of one tick, a sequence of <<symbol, input>>, act in turn.  *)
TickOpens(s, table, held, signals, kind, verdict) ==
  LET turn(opened, x) ==
        LET worst == WorstCorrelation(table, x[1], HeldNow(held, opened))
        IN  IF Gated(s, x[2], kind, TRUE, NoFigure, worst, verdict) > 0 THEN opened \cup {x[1]} ELSE opened
  IN  FoldLeft(turn, {}, signals)
-----------------------------------------------------------------------------
Mirrored(in) ==
  [in EXCEPT !.action = IF @ = "BUY" THEN "SELL" ELSE "BUY", !.direction = -@,
             !.funding = IF @ = NoFigure THEN @ ELSE -@, !.fear = IF @ = NoFigure THEN @ ELSE 100 - @]

(* Conviction judges a short in a mirrored market as it judges the long,   *)
(* stays within its scale, never falls when the signal is surer; it        *)
(* shrinks an approved size to no less than half and never grows it or     *)
(* brings it below the venue's minimum; every kind has just one regime     *)
(* that stops it; and missing intelligence stops nothing.                  *)
ConvictionFair(in, s, verdict) ==
  LET score == ScoreConviction(in)
      size(kind) == Gated(s, in, kind, TRUE, NoFigure, 0, verdict)
  IN  /\ score = ScoreConviction(Mirrored(in)) /\ score \in 0 .. 2000
      /\ in.confidence <= 90 => score <= ScoreConviction([in EXCEPT !.confidence = @ + 10])
      /\ \A kind \in Kinds : size(kind) # 0 =>
           /\ size(kind) <= verdict.qty /\ 2 * size(kind) >= verdict.qty - 1
           /\ verdict.qty >= verdict.min => size(kind) >= verdict.min
           /\ size(kind) = Gated(s, Mirrored(in), kind, TRUE, NoFigure, 0, verdict)
      /\ Cardinality({kind \in Kinds : ~RegimeAllows(kind, in.regime)}) <= 1
      /\ \A kind \in Kinds : Gated(s, in, kind, FALSE, NoFigure, 0, verdict) = verdict.qty
      /\ \A atr \in 0 .. 3 : VolatilityStop(atr, 10, 2, 200) \in 20 .. 2000

(* Two symbols that move together are not opened by one tick, nor beside   *)
(* one that is held.                                                       *)
SpreadOut(s, table, held, signals, verdict) ==
  LET opens == TickOpens(s, table, held, signals, "GRID", verdict)
  IN  s.enabled /\ s.maxCorrelation < 100 =>
        \A a \in opens : \A b \in (opens \cup held) \ {a} :
          {a, b} \in DOMAIN table => Magnitude(table[{a, b}]) < s.maxCorrelation

(* The correlation is at most one, the same either way round, one of a     *)
(* series with itself, blind to what only one of the two saw, to the scale *)
(* of either and to a shift.                                               *)
CorrelationFair(a, b) ==
  LET c == Correlation(a, b)
  IN  /\ c.num <= c.den /\ c = Correlation(b, a)
      /\ Len(a) >= Len(b) => c = Correlation(<<7>> \o a, b)
      /\ \A k \in {-2, 3} :
           LET scaled == Correlation([i \in DOMAIN a |-> k * a[i] + 7], b)
           IN  /\ scaled.num * c.den = c.num * scaled.den
               /\ scaled.sign = IF k > 0 THEN c.sign ELSE -c.sign
      /\ Len(a) >= 2 /\ Cardinality(ToSet(a)) > 1 =>
           Correlation(a, a).sign = 1 /\ Correlation(a, a).num = Correlation(a, a).den

(* Strength reads the same in a mirrored market; strength, direction and   *)
(* regime read the same in one quoted in another unit.                     *)
TrendFair(a, unit) ==
  LET bars  == BarsOf([i \in DOMAIN a |-> unit * a[i]], unit)
      large == BarsOf([i \in DOMAIN a |-> 3 * unit * a[i]], 3 * unit)
      axis  == 2 * unit * Max({0} \cup ToSet(a))
      other == [i \in DOMAIN bars |-> [high |-> axis - bars[i].low, low |-> axis - bars[i].high,
                                       close |-> axis - bars[i].close]]
      adx    == Adx(bars, TrendPeriod)
      regime == ClassifyRegime(bars, TrendPeriod)
  IN  /\ \A i \in DOMAIN adx : adx[i] \in 0 .. 100
      /\ adx = Adx(other, TrendPeriod) /\ adx = Adx(large, TrendPeriod)
      /\ regime = ClassifyRegime(large, TrendPeriod)
      /\ regime = "UNKNOWN" <=> Len(bars) < 2 * TrendPeriod
      /\ a # <<>> => DirectionalBias(bars, TrendPeriod) = DirectionalBias(large, TrendPeriod)

(* A provider's figure is its last answer.  A venue's error moves the      *)
(* consensus by half, or by all of it while the other is silent: two       *)
(* quotes have no median that is not their mean (intel/index.ts:128 says   *)
(* "one bad venue quote cannot drag the reference").                       *)
ProvidersFair(a) ==
  LET runs == FoldLeft(LAMBDA acc, x : LET r == Cached(acc.entry, acc.now, IF x = 1 THEN NoFigure ELSE acc.now)
                                       IN  [now |-> acc.now + 1, entry |-> r.entry, shown |-> Append(acc.shown, r.value)],
                       [now |-> 1, entry |-> NoFigure, shown |-> <<>>], a).shown
      answered(i) == {j \in 1 .. i : a[j] # 1}
  IN  /\ \A i \in DOMAIN runs :
           /\ runs[i] = NoFigure <=> answered(i) = {}
           /\ runs[i] # NoFigure => runs[i] \in answered(i)
           /\ i - CacheTtl \in answered(i) => runs[i] # NoFigure /\ runs[i] >= i - 2 * CacheTtl + 1
      /\ Len(a) >= 3 =>
           /\ Consensus2(a[3], a[2]) - Consensus2(a[1], a[2]) = a[3] - a[1]
           /\ Consensus2(a[3], NoFigure) = 2 * a[3] /\ Consensus2(NoFigure, NoFigure) = NoFigure
=============================================================================
