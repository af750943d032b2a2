-------------------------------- MODULE Bars --------------------------------
(***************************************************************************)
(* From trades to decisions: BarAggregator (bars.ts) turns the trades of   *)
(* one symbol into closed bars, and the three bar strategies (canary.ts,   *)
(* strategies.ts) turn closed bars into orders.  Each is a fold of its     *)
(* event handler over a tape.  A trade is [kind, ts, price, size, side], a *)
(* timer call [kind, ts]; a kline is [close, volume, closed].              *)
(***************************************************************************)
EXTENDS Integers, Sequences, SequencesExt, FiniteSetsExt

CONSTANTS Interval, Fast, Slow, Lookback, Window, BandPct

LOCAL Total(v) == FoldLeft(+, 0, v)
LOCAL LastOf(v, n) == SubSeq(v, Max({1, Len(v) - n + 1}), Len(v))
LOCAL Capped(v, n) == IF Len(v) > n THEN Tail(v) ELSE v
-----------------------------------------------------------------------------
BucketOf(ts) == (ts \div Interval) * Interval

StartBar(bucket, t) ==
  [openTime |-> bucket, open |-> t.price, high |-> t.price, low |-> t.price, close |-> t.price,
   volume |-> t.size, trades |-> 1, buyVolume |-> IF t.side = "buy" THEN t.size ELSE 0]

Merge(bar, t) ==
  [bar EXCEPT !.high = Max({@, t.price}), !.low = Min({@, t.price}), !.close = t.price,
              !.volume = @ + t.size, !.trades = @ + 1,
              !.buyVolume = @ + IF t.side = "buy" THEN t.size ELSE 0]

(* `current' holds at most one bar.                                        *)
OnTradeReopening(agg, t) ==   \* mutant: late trades replace the bar
  LET bucket == BucketOf(t.ts)
  IN  CASE agg.current = <<>> -> [agg EXCEPT !.current = <<StartBar(bucket, t)>>]
        [] agg.current # <<>> /\ agg.current[1].openTime = bucket ->
             [agg EXCEPT !.current = <<Merge(agg.current[1], t)>>]
        [] OTHER -> [current |-> <<StartBar(bucket, t)>>, emitted |-> Append(agg.emitted, agg.current[1])]

OnTrade(agg, t) ==
  LET bucket == BucketOf(t.ts)
  IN  IF agg.current = <<>> THEN [agg EXCEPT !.current = <<StartBar(bucket, t)>>]
      ELSE LET bar == agg.current[1]
           IN  CASE bucket = bar.openTime -> [agg EXCEPT !.current = <<Merge(bar, t)>>]
                 [] bucket > bar.openTime -> [current |-> <<StartBar(bucket, t)>>,
                                              emitted |-> Append(agg.emitted, bar)]
                 [] bucket < bar.openTime -> agg

CloseExpired(agg, now) ==
  IF agg.current # <<>> /\ agg.current[1].openTime < BucketOf(now)
  THEN [current |-> <<>>, emitted |-> Append(agg.emitted, agg.current[1])]
  ELSE agg

OnTape(agg, e) == IF e.kind = "trade" THEN OnTrade(agg, e) ELSE CloseExpired(agg, e.ts)

Aggregate(tape) == FoldLeft(OnTape, [current |-> <<>>, emitted |-> <<>>], tape)
-----------------------------------------------------------------------------
(* The strategies.  A state is [closes, volumes, position], a turn returns *)
(* the new state and the side of the order it emits, or "none".            *)
Virgin == [closes |-> <<>>, volumes |-> <<>>, position |-> "flat"]

LOCAL Turn(s, side) ==
  IF side = "none" \/ s.position = side THEN <<s, "none">> ELSE <<[s EXCEPT !.position = side], side>>

CanaryTurn(s, k) ==
  LET closes == Capped(Append(s.closes, k.close), 4 * Slow)
      fast   == Total(LastOf(closes, Fast))
      slow   == Total(LastOf(closes, Slow))
  IN  Turn([s EXCEPT !.closes = closes],
           CASE Len(closes) < Slow -> "none"
             [] Len(closes) >= Slow /\ fast * Slow > slow * Fast -> "buy"
             [] OTHER -> "sell")

BreakoutTurnCurrentBar(s, k) ==   \* mutant: the window contains the bar itself
  LET closes == Capped(Append(s.closes, k.close), 3 * Lookback)
      prior  == ToSet(LastOf(closes, Lookback))
  IN  Turn([s EXCEPT !.closes = closes],
           CASE Len(s.closes) < Lookback -> "none"
             [] Len(s.closes) >= Lookback /\ k.close >= Max(prior) -> "buy"
             [] Len(s.closes) >= Lookback /\ k.close < Max(prior) /\ k.close <= Min(prior) -> "sell"
             [] OTHER -> "none")

(* The window ends before the bar that is compared with it.                *)
BreakoutTurn(s, k) ==
  LET prior == ToSet(LastOf(s.closes, Lookback))
      warm  == Len(s.closes) >= Lookback
  IN  Turn([s EXCEPT !.closes = Capped(Append(s.closes, k.close), 3 * Lookback)],
           CASE warm /\ k.close > Max(prior) -> "buy"
             [] warm /\ k.close < Min(prior) -> "sell"
             [] OTHER -> "none")

(* `closes' holds price times volume.  A volume of zero counts as one.     *)
VwapTurn(s, k) ==
  LET volume  == IF k.volume > 0 THEN k.volume ELSE 1
      closes  == Capped(Append(s.closes, k.close * volume), Window)
      volumes == Capped(Append(s.volumes, volume), Window)
      excess  == (k.close * Total(volumes) - Total(closes)) * 100
  IN  Turn([s EXCEPT !.closes = closes, !.volumes = volumes],
           CASE Len(closes) = Window /\ excess <= -BandPct * Total(closes) -> "buy"
             [] Len(closes) = Window /\ excess >= BandPct * Total(closes) -> "sell"
             [] OTHER -> "none")

(* What a strategy does over a tape: an open bar is not looked at.         *)
Decisions(turn(_, _), klines) ==
  FoldLeft(LAMBDA acc, k : IF ~k.closed THEN [acc EXCEPT !.sides = Append(@, "none")]
                           ELSE LET t == turn(acc.state, k)
                                IN  [state |-> t[1], sides |-> Append(acc.sides, t[2])],
           [state |-> Virgin, sides |-> <<>>], klines).sides
-----------------------------------------------------------------------------
(* Every bar is made of exactly the trades of its bucket that arrived while*)
(* it was open, and bars come out in order, each bucket once -- unless     *)
(* the timer closed a bucket and a late trade opens it (or an older one)   *)
(* again, which onTrade allows when no bar is open.                        *)
BarsHonest(tape) ==
  LET after(n) == Aggregate(SubSeq(tape, 1, n))
      out      == Aggregate(tape).emitted
      trades   == {i \in DOMAIN tape : tape[i].kind = "trade"}
      Late(n)  == \E i \in DOMAIN after(n - 1).emitted :
                    after(n - 1).current = <<>> /\ BucketOf(tape[n].ts) <= after(n - 1).emitted[i].openTime
      late     == {n \in trades : Late(n)}
      Of(b)    == {n \in trades : BucketOf(tape[n].ts) = b
                     /\ ~\E i \in trades : i < n /\ BucketOf(tape[i].ts) > b}
  IN  late = {} =>
        /\ \A i \in 1 .. Len(out) - 1 : out[i].openTime < out[i + 1].openTime
        /\ \A i \in DOMAIN out :
             LET mine   == Of(out[i].openTime)
                 prices == {tape[n].price : n \in mine}
             IN  /\ out[i].trades = Cardinality(mine)
                 /\ out[i].high = Max(prices) /\ out[i].low = Min(prices)
                 /\ out[i].open = tape[Min(mine)].price /\ out[i].close = tape[Max(mine)].price
                 /\ out[i].volume = MapThenSumSet(LAMBDA n : tape[n].size, mine)

(* A strategy never repeats a side, decides the same whatever open bars are*)
(* mixed in, and its bounded memory decides as the whole history would:    *)
(* a breakout beats every one of the closes just before it.                *)
StrategiesReplay(klines) ==
  LET closed == SelectSeq(klines, LAMBDA k : k.closed)
      NoRepeat(sides) ==
        LET orders == SelectSeq(sides, LAMBDA x : x # "none")
        IN  \A i \in 1 .. Len(orders) - 1 : orders[i] # orders[i + 1]
      Same(turn(_, _)) ==
        LET orders(ks) == SelectSeq(Decisions(turn, ks), LAMBDA x : x # "none")
        IN  orders(klines) = orders(closed) /\ NoRepeat(orders(closed))
      breaks == Decisions(BreakoutTurn, closed)
      fades  == Decisions(VwapTurn, closed)
      Prior(i, n) == {closed[j].close : j \in i - n .. i - 1}
  IN  /\ Same(CanaryTurn) /\ Same(BreakoutTurn) /\ Same(VwapTurn)
      /\ \A i \in DOMAIN closed :
           /\ breaks[i] = "buy"  => i > Lookback /\ \A p \in Prior(i, Lookback) : closed[i].close > p
           /\ breaks[i] = "sell" => i > Lookback /\ \A p \in Prior(i, Lookback) : closed[i].close < p
           /\ fades[i] = "buy"   => i >= Window /\ \E p \in Prior(i, Window - 1) : p > closed[i].close
           /\ fades[i] = "sell"  => i >= Window /\ \E p \in Prior(i, Window - 1) : p < closed[i].close
=============================================================================
