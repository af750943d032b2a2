--------------------------- MODULE ServiceProofs ----------------------------
(***************************************************************************)
(* The inductive invariants of the components of Services, for every value *)
(* of their constants: what each starts in, that each of its steps keeps   *)
(* it, and what a step may never do.  PartsProofs makes theorems of them.  *)
(***************************************************************************)
EXTENDS Services, Lemmas
-----------------------------------------------------------------------------
(* The paper account. *)
LEMMA PaperSums == \A f, S : Paper!SumFunctionOnSet(f, S) = SumOf(f, S)
  BY DEF Paper!SumFunctionOnSet, Paper!FoldFunctionOnSet, Paper!MapThenFoldSet, SumOf, IsSum, AnyOf

LEMMA TradeFields ==
  ASSUME NEW r \in Paper!Trade
  PROVE  /\ r.symbol \in Paper!Symbols /\ r.side \in {"LONG", "SHORT"} /\ r.size \in Nat /\ r.entry \in Nat
         /\ r.stop \in Int /\ r.target \in Int /\ r.closedOn \in Nat /\ r.pnl \in Int
         /\ r.life \in Nat /\ r.exit \in Int
  BY DEF Paper!Trade

(* What each row is worth, and what it made. *)
WorthIn(t) == [i \in DOMAIN t |-> t[i].entry * t[i].size]
MadeIn(t)  == [i \in DOMAIN t |-> t[i].pnl]

LEMMA RowsAre ==
  ASSUME NEW t \in Seq(Paper!Trade)
  PROVE  /\ IsFiniteSet(DOMAIN t) /\ \A S \in SUBSET (DOMAIN t) : IsFiniteSet(S)
         /\ Paper!Open(t) \in SUBSET (DOMAIN t)
         /\ \A i \in DOMAIN t : WorthIn(t)[i] \in Nat /\ MadeIn(t)[i] \in Int /\ t[i] \in Paper!Trade
<1>1. PICK n \in Nat : n = Len(t)
  OBVIOUS
<1>2. DOMAIN t = 1 .. n /\ \A i \in 1 .. n : t[i] \in Paper!Trade
  BY <1>1
<1>3. IsFiniteSet(1 .. n)
  BY FS_Interval
<1>4. \A S \in SUBSET (1 .. n) : IsFiniteSet(S)
  BY <1>3, FS_Subset
<1>5. \A i \in DOMAIN t : WorthIn(t)[i] \in Nat /\ MadeIn(t)[i] \in Int
  BY <1>2, TradeFields DEF WorthIn, MadeIn
<1>. QED BY <1>2, <1>3, <1>4, <1>5 DEF Paper!Open

LEMMA ExposureIs ==
  ASSUME NEW t \in Seq(Paper!Trade)
  PROVE  Paper!Exposure(t) = SumOf(WorthIn(t), Paper!Open(t)) /\ Paper!Exposure(t) \in Nat
<1>1. Paper!Exposure(t) = SumOf(WorthIn(t), Paper!Open(t))
  BY PaperSums DEF Paper!Exposure, WorthIn
<1>2. SumOf(WorthIn(t), Paper!Open(t)) \in Nat
  BY RowsAre, SumNatural
<1>. QED BY <1>1, <1>2

(* What any set of rows made. *)
LEMMA MadeSums ==
  ASSUME NEW t \in Seq(Paper!Trade), NEW S \in SUBSET (DOMAIN t)
  PROVE  SumOf(MadeIn(t), S) \in Int
  BY RowsAre, SumTakes

ClosedToday(t) == {i \in DOMAIN t : t[i].closedOn = v7}

LEMMA RealisedIs ==
  ASSUME NEW t \in Seq(Paper!Trade)
  PROVE  Paper!RealisedPnlToday(t) = SumOf(MadeIn(t), ClosedToday(t)) /\ Paper!RealisedPnlToday(t) \in Int
<1>1. Paper!RealisedPnlToday(t) = SumOf(MadeIn(t), ClosedToday(t))
  BY PaperSums DEF Paper!RealisedPnlToday, MadeIn, ClosedToday
<1>2. ClosedToday(t) \in SUBSET (DOMAIN t)
  BY DEF ClosedToday
<1>. QED BY <1>1, <1>2, MadeSums
-----------------------------------------------------------------------------
(* The caps over a table, and how one table may follow another without an  *)
(* entry: rows only settle, on the day and in the life it is, for what     *)
(* their exit makes, and stops only tighten.                               *)
Capped(t) ==
  /\ Paper!Exposure(t) <= PaperRiskCap
  /\ \A i \in DOMAIN t : t[i].size * t[i].entry <= PaperPosition

Dated(t) == \A i \in DOMAIN t : t[i].closedOn <= v7 /\ t[i].life <= v8 /\ (t[i].closedOn = 0 => t[i].life = 0)

Tighter(r, q) == IF r.side = "LONG" THEN q.stop >= r.stop ELSE q.stop <= r.stop

RowFollows(r, q) ==
  /\ q.size = r.size /\ q.entry = r.entry /\ q.side = r.side /\ q.symbol = r.symbol /\ Tighter(r, q)
  /\ \/ q.closedOn = r.closedOn /\ q.life = r.life /\ q.pnl = r.pnl
     \/ q.closedOn = v7 /\ q.life = v8 /\ q.pnl = Paper!NetPnl(r, q.exit)
  /\ r.closedOn # 0 => q = r

Follows(t, u) ==
  /\ u \in Seq(Paper!Trade) /\ Len(u) = Len(t) /\ DOMAIN u = DOMAIN t
  /\ \A i \in DOMAIN t : RowFollows(t[i], u[i])

Timed == v7 \in Nat \ {0} /\ v8 \in Nat \ {0}

Marked == [Paper!Symbols -> Nat]

LEMMA NetPnlIs ==
  ASSUME NEW r \in Paper!Trade, NEW exit \in Int
  PROVE  Paper!NetPnl(r, exit) \in Int
<1>1. r.side \in {"LONG", "SHORT"} /\ r.size \in Nat /\ r.entry \in Nat /\ PaperFee \in Int
  BY TradeFields, PaperAssumption
<1>2. Paper!GrossPnl(r.side, r.size, r.entry, exit) \in Int
  BY <1>1 DEF Paper!GrossPnl
<1>3. Paper!RoundTripFees(r.size, r.entry, exit) \in Int
  BY <1>1 DEF Paper!RoundTripFees
<1>. QED BY <1>2, <1>3 DEF Paper!NetPnl

LEMMA FollowsItself ==
  ASSUME NEW t \in Seq(Paper!Trade)
  PROVE  Follows(t, t)
<1>1. ASSUME NEW r \in Paper!Trade PROVE RowFollows(r, r)
  BY TradeFields DEF RowFollows, Tighter
<1>. QED BY <1>1, RowsAre DEF Follows

LEMMA FollowsOn ==
  ASSUME NEW t \in Seq(Paper!Trade), NEW u, NEW w, Follows(t, u), Follows(u, w), Timed
  PROVE  Follows(t, w)
<1>1. ASSUME NEW r \in Paper!Trade, NEW q \in Paper!Trade, NEW p \in Paper!Trade,
             RowFollows(r, q), RowFollows(q, p)
      PROVE  RowFollows(r, p)
  <2>1. Tighter(r, p)
    BY <1>1, TradeFields DEF RowFollows, Tighter
  <2>2. \/ p.closedOn = r.closedOn /\ p.life = r.life /\ p.pnl = r.pnl
        \/ p.closedOn = v7 /\ p.life = v8 /\ p.pnl = Paper!NetPnl(r, p.exit)
    <3>1. Paper!NetPnl(q, p.exit) = Paper!NetPnl(r, p.exit)
      BY <1>1 DEF RowFollows, Paper!NetPnl
    <3>2. CASE q.closedOn # 0
      <4>1. p = q
        BY <1>1, <3>2 DEF RowFollows
      <4>. QED BY <1>1, <4>1 DEF RowFollows
    <3>3. CASE q.closedOn = 0
      <4>1. q.closedOn = r.closedOn /\ q.life = r.life /\ q.pnl = r.pnl
        BY <1>1, <3>3 DEF RowFollows, Timed
      <4>. QED BY <1>1, <3>1, <4>1 DEF RowFollows
    <3>. QED BY <3>2, <3>3
  <2>3. r.closedOn # 0 => p = r
    BY <1>1 DEF RowFollows
  <2>. QED BY <1>1, <2>1, <2>2, <2>3 DEF RowFollows
<1>2. \A i \in DOMAIN t : t[i] \in Paper!Trade /\ u[i] \in Paper!Trade /\ w[i] \in Paper!Trade
  BY RowsAre DEF Follows
<1>. QED BY <1>1, <1>2 DEF Follows

LEMMA FollowsCapped ==
  ASSUME NEW t \in Seq(Paper!Trade), NEW u, Follows(t, u), Timed, Capped(t), Dated(t)
  PROVE  Capped(u) /\ Dated(u)
<1>1. u \in Seq(Paper!Trade) /\ DOMAIN u = DOMAIN t
  BY DEF Follows
<1>2. \A i \in DOMAIN t : u[i].size = t[i].size /\ u[i].entry = t[i].entry
                          /\ \/ u[i].closedOn = t[i].closedOn /\ u[i].life = t[i].life
                             \/ u[i].closedOn = v7 /\ u[i].life = v8
  BY DEF Follows, RowFollows
<1>3. Paper!Open(u) \subseteq Paper!Open(t)
  BY <1>1, <1>2 DEF Paper!Open, Timed
<1>4. PICK S : S = Paper!Open(t)
  OBVIOUS
<1>5. PICK R : R = Paper!Open(u)
  OBVIOUS
<1>6. IsFiniteSet(S) /\ IsFiniteSet(R) /\ R \subseteq S /\ S \subseteq DOMAIN t
  BY <1>1, <1>3, <1>4, <1>5, RowsAre
<1>7. \A i \in S : WorthIn(t)[i] \in Nat
  BY <1>6, RowsAre
<1>8. SumOf(WorthIn(t), S) = SumOf(WorthIn(t), R) + SumOf(WorthIn(t), S \ R)
  BY <1>6, <1>7, SumSplits
<1>9. SumOf(WorthIn(t), R) \in Nat /\ SumOf(WorthIn(t), S \ R) \in Nat
  <2>1. IsFiniteSet(S \ R)
    BY <1>6, FS_Subset
  <2>. QED BY <1>6, <1>7, <2>1, SumNatural
<1>10. SumOf(WorthIn(u), R) = SumOf(WorthIn(t), R)
  <2>1. \A i \in R : WorthIn(u)[i] = WorthIn(t)[i]
    BY <1>1, <1>2, <1>6 DEF WorthIn
  <2>. QED BY <1>6, <2>1, SumSame
<1>11. Paper!Exposure(u) <= Paper!Exposure(t)
  <2>1. Paper!Exposure(u) = SumOf(WorthIn(u), R) /\ Paper!Exposure(t) = SumOf(WorthIn(t), S)
    BY <1>1, <1>4, <1>5, ExposureIs
  <2>. QED BY <2>1, <1>8, <1>9, <1>10
<1>12. Paper!Exposure(u) <= PaperRiskCap
  BY SMTT(40), <1>1, <1>11, ExposureIs, PaperAssumption DEF Capped
<1>13. \A i \in DOMAIN u : u[i].size * u[i].entry <= PaperPosition
  BY <1>1, <1>2 DEF Capped
<1>14. Dated(u)
  BY <1>1, <1>2 DEF Dated, Timed
<1>. QED BY <1>12, <1>13, <1>14 DEF Capped
(* What a settlement adds to the sum of a set of rows that were closed     *)
(* alike: the rows it newly closes.                                        *)
LEMMA SumGrows ==
  ASSUME NEW f, NEW g, NEW S, NEW N, IsFiniteSet(S \cup N), S \cap N = {},
         \A i \in S \cup N : g[i] \in Int, \A i \in S : g[i] = f[i]
  PROVE  /\ SumOf(g, S \cup N) = SumOf(f, S) + SumOf(g, N)
         /\ SumOf(g, S \cup N) \in Int /\ SumOf(f, S) \in Int /\ SumOf(g, N) \in Int
<1>1. PICK T : T = S \cup N
  OBVIOUS
<1>2. IsFiniteSet(T) /\ IsFiniteSet(S) /\ IsFiniteSet(N)
  BY <1>1, FS_Subset
<1>3. T \ S = N /\ S \subseteq T /\ \A i \in T : g[i] \in Int
  BY <1>1
<1>4. SumOf(g, T) = SumOf(g, S) + SumOf(g, T \ S)
  BY <1>2, <1>3, SumSplits
<1>5. SumOf(g, S) = SumOf(f, S)
  BY <1>2, SumSame
<1>6. SumOf(g, T) \in Int /\ SumOf(g, S) \in Int /\ SumOf(g, N) \in Int
  BY <1>1, <1>2, SumTakes
<1>. QED BY <1>1, <1>3, <1>4, <1>5, <1>6

Settled(t, u) == Paper!Open(t) \ Paper!Open(u)
ThisLife(t)   == {i \in DOMAIN t : t[i].life = v8}
MadeNow(t)    == SumOf(MadeIn(t), ThisLife(t))

LEMMA SettledRows ==
  ASSUME NEW t \in Seq(Paper!Trade), NEW u, Follows(t, u), Timed, Dated(t)
  PROVE  /\ ThisLife(u) = ThisLife(t) \cup Settled(t, u) /\ ThisLife(t) \cap Settled(t, u) = {}
         /\ ClosedToday(u) = ClosedToday(t) \cup Settled(t, u) /\ ClosedToday(t) \cap Settled(t, u) = {}
         /\ \A i \in Settled(t, u) : u[i].pnl = Paper!NetPnl(t[i], u[i].exit)
         /\ \A i \in ThisLife(t) \cup ClosedToday(t) : u[i] = t[i]
<1>1. ASSUME NEW i \in DOMAIN t
      PROVE  /\ u[i].life = v8 <=> t[i].life = v8 \/ (t[i].closedOn = 0 /\ u[i].closedOn # 0)
             /\ u[i].closedOn = v7 <=> t[i].closedOn = v7 \/ (t[i].closedOn = 0 /\ u[i].closedOn # 0)
             /\ t[i].closedOn = 0 => t[i].life # v8 /\ t[i].closedOn # v7
             /\ t[i].closedOn = 0 /\ u[i].closedOn # 0 => u[i].pnl = Paper!NetPnl(t[i], u[i].exit)
             /\ t[i].life = v8 \/ t[i].closedOn = v7 => u[i] = t[i]
  <2>1. RowFollows(t[i], u[i]) /\ (t[i].closedOn = 0 => t[i].life = 0)
    BY DEF Follows, Dated
  <2>2. CASE t[i].closedOn # 0
    BY <2>1, <2>2 DEF RowFollows
  <2>3. CASE t[i].closedOn = 0
    BY <2>1, <2>3 DEF RowFollows, Timed
  <2>. QED BY <2>2, <2>3
<1>2. DOMAIN u = DOMAIN t
  BY DEF Follows
<1>3. \A i \in DOMAIN t : i \in Settled(t, u) <=> t[i].closedOn = 0 /\ u[i].closedOn # 0
  BY <1>2 DEF Settled, Paper!Open
<1>4. Settled(t, u) \subseteq DOMAIN t
  BY DEF Settled, Paper!Open
<1>. QED BY <1>1, <1>2, <1>3, <1>4 DEF ThisLife, ClosedToday

(* The paper equity moves with the table. *)
LEMMA GainedIs ==
  ASSUME NEW t \in Seq(Paper!Trade), NEW u, Follows(t, u), Timed, Dated(t)
  PROVE  /\ Paper!Gained(t, u) \in Int /\ MadeNow(t) \in Int
         /\ MadeNow(u) = MadeNow(t) + Paper!Gained(t, u)
<1>1. PICK N : N = Settled(t, u)
  OBVIOUS
<1>2. PICK S : S = ThisLife(t)
  OBVIOUS
<1>3. u \in Seq(Paper!Trade) /\ DOMAIN u = DOMAIN t /\ S \subseteq DOMAIN t /\ N \subseteq DOMAIN t
  BY <1>1, <1>2 DEF Follows, ThisLife, Settled, Paper!Open
<1>4. IsFiniteSet(S \cup N) /\ IsFiniteSet(N)
  BY <1>3, RowsAre
<1>5. ThisLife(u) = S \cup N /\ S \cap N = {}
  BY <1>1, <1>2, SettledRows
<1>6. \A i \in S \cup N : MadeIn(u)[i] \in Int
  BY <1>3, RowsAre
<1>7. \A i \in S : MadeIn(u)[i] = MadeIn(t)[i]
  BY <1>2, <1>3, SettledRows DEF MadeIn
<1>8. /\ SumOf(MadeIn(u), S \cup N) = SumOf(MadeIn(t), S) + SumOf(MadeIn(u), N)
      /\ SumOf(MadeIn(t), S) \in Int /\ SumOf(MadeIn(u), N) \in Int
  BY SMTT(40), <1>4, <1>5, <1>6, <1>7, SumGrows
<1>9. PICK f : f = [i \in DOMAIN t |-> Paper!NetPnl(t[i], u[i].exit)]
  OBVIOUS
<1>10. Paper!Gained(t, u) = SumOf(f, N)
  BY <1>1, <1>9, PaperSums DEF Paper!Gained, Settled
<1>11. \A i \in N : f[i] = MadeIn(u)[i]
  BY <1>1, <1>3, <1>9, SettledRows DEF MadeIn
<1>12. SumOf(f, N) = SumOf(MadeIn(u), N)
  BY <1>4, <1>11, SumSame
<1>. QED BY <1>2, <1>5, <1>8, <1>10, <1>12 DEF MadeNow

(* A settlement without a loss takes nothing from what the day made.       *)
LEMMA WithoutLoss ==
  ASSUME NEW t \in Seq(Paper!Trade), NEW u, Follows(t, u), Timed, Dated(t),
         \A i \in Settled(t, u) : u[i].pnl >= 0
  PROVE  /\ Paper!RealisedPnlToday(u) >= Paper!RealisedPnlToday(t)
         /\ Paper!RealisedPnlToday(u) \in Int /\ Paper!RealisedPnlToday(t) \in Int
<1>1. PICK N : N = Settled(t, u)
  OBVIOUS
<1>2. PICK S : S = ClosedToday(t)
  OBVIOUS
<1>3. u \in Seq(Paper!Trade) /\ DOMAIN u = DOMAIN t /\ S \subseteq DOMAIN t /\ N \subseteq DOMAIN t
  BY <1>1, <1>2 DEF Follows, ClosedToday, Settled, Paper!Open
<1>4. IsFiniteSet(S \cup N) /\ IsFiniteSet(N)
  BY <1>3, RowsAre
<1>5. ClosedToday(u) = S \cup N /\ S \cap N = {}
  BY <1>1, <1>2, SettledRows
<1>6. \A i \in S \cup N : MadeIn(u)[i] \in Int
  BY <1>3, RowsAre
<1>7. \A i \in S : MadeIn(u)[i] = MadeIn(t)[i]
  BY <1>2, <1>3, SettledRows DEF MadeIn
<1>8. /\ SumOf(MadeIn(u), S \cup N) = SumOf(MadeIn(t), S) + SumOf(MadeIn(u), N)
      /\ SumOf(MadeIn(t), S) \in Int /\ SumOf(MadeIn(u), N) \in Int
  <2>1. PICK f : f = MadeIn(t)
    OBVIOUS
  <2>2. PICK g : g = MadeIn(u)
    OBVIOUS
  <2>3. (\A i \in S \cup N : g[i] \in Int) /\ (\A i \in S : g[i] = f[i])
    BY <1>6, <1>7, <2>1, <2>2
  <2>4. /\ SumOf(g, S \cup N) = SumOf(f, S) + SumOf(g, N)
        /\ SumOf(f, S) \in Int /\ SumOf(g, N) \in Int
    BY <1>4, <1>5, <2>3, SumGrows
  <2>. QED BY <2>1, <2>2, <2>4
<1>9. \A i \in N : MadeIn(u)[i] \in Nat
  <2>1. \A i \in N : MadeIn(u)[i] = u[i].pnl /\ u[i].pnl >= 0
    BY <1>1, <1>3 DEF MadeIn
  <2>. QED BY <1>6, <2>1
<1>10. SumOf(MadeIn(u), N) \in Nat
  BY <1>4, <1>9, SumNatural
<1>11. /\ Paper!RealisedPnlToday(u) = SumOf(MadeIn(u), S \cup N)
       /\ Paper!RealisedPnlToday(t) = SumOf(MadeIn(t), S)
  BY <1>2, <1>3, <1>5, RealisedIs
<1>. QED BY <1>8, <1>10, <1>11
-----------------------------------------------------------------------------
(* What the reconciler, the ratchet and the flattening do to a table.      *)
ExitReasons == {"NONE", "STOP_LOSS", "TAKE_PROFIT", "EMERGENCY", "MANUAL"}

LEMMA SettleFollows ==
  ASSUME NEW t \in Seq(Paper!Trade), NEW i \in DOMAIN t, NEW exit \in Int, NEW reason \in ExitReasons, Timed
  PROVE  /\ Follows(t, Paper!Settle(t, i, exit, reason))
         /\ Paper!Settle(t, i, exit, reason)[i] \in Paper!Trade
         /\ RowFollows(t[i], Paper!Settle(t, i, exit, reason)[i])
         /\ \A j \in DOMAIN t : j # i => Paper!Settle(t, i, exit, reason)[j] = t[j]
<1>1. CASE i \notin Paper!Open(t)
  BY <1>1, FollowsItself, RowsAre DEF Paper!Settle, Follows
<1>2. CASE i \in Paper!Open(t)
  <2>1. PICK q : q = [t[i] EXCEPT !.closedOn = v7, !.exit = exit, !.reason = reason,
                                  !.pnl = Paper!NetPnl(t[i], exit), !.life = v8]
    OBVIOUS
  <2>2. PICK u : u = Paper!Settle(t, i, exit, reason)
    OBVIOUS
  <2>3. u = [t EXCEPT ![i] = q]
    BY <1>2, <2>1, <2>2, RowsAre DEF Paper!Settle, Paper!Trade
  <2>4. t[i] \in Paper!Trade /\ t[i].closedOn = 0
    BY <1>2, RowsAre DEF Paper!Open
  <2>5. Paper!NetPnl(t[i], exit) \in Int
    BY <2>4, NetPnlIs
  <2>6. q \in Paper!Trade
    BY <2>1, <2>4, <2>5 DEF Paper!Trade, Timed, ExitReasons
  <2>7. RowFollows(t[i], q)
    <3>1. /\ q.size = t[i].size /\ q.entry = t[i].entry /\ q.side = t[i].side /\ q.symbol = t[i].symbol
          /\ q.closedOn = v7 /\ q.stop = t[i].stop /\ q.life = v8 /\ q.exit = exit
          /\ q.pnl = Paper!NetPnl(t[i], exit)
      BY <2>1, <2>4 DEF Paper!Trade
    <3>. QED BY <3>1, <2>4, TradeFields DEF RowFollows, Tighter
  <2>8. u \in Seq(Paper!Trade) /\ Len(u) = Len(t) /\ DOMAIN u = DOMAIN t
    BY <2>3, <2>6
  <2>9. \A j \in DOMAIN t : u[j] = IF j = i THEN q ELSE t[j]
    BY <2>3
  <2>10. Follows(t, u)
    BY <2>7, <2>8, <2>9, FollowsItself DEF Follows
  <2>. QED BY <2>2, <2>6, <2>7, <2>9, <2>10
<1>. QED BY <1>1, <1>2

(* A table made row by row.                                                *)
LEMMA RowByRow ==
  ASSUME NEW t \in Seq(Paper!Trade), NEW u, u = [i \in DOMAIN t |-> u[i]],
         \A i \in DOMAIN t : u[i] \in Paper!Trade /\ RowFollows(t[i], u[i])
  PROVE  Follows(t, u)
<1>1. PICK n \in Nat : n = Len(t) /\ DOMAIN t = 1 .. n
  OBVIOUS
<1>2. PICK V : V = Paper!Trade
  OBVIOUS
<1>3. u \in [1 .. n -> V]
  BY <1>1, <1>2
<1>4. u \in Seq(V) /\ Len(u) = n
  BY <1>3
<1>. QED BY <1>1, <1>2, <1>4 DEF Follows

LEMMA MarkIs ==
  ASSUME NEW t \in Seq(Paper!Trade), NEW i \in DOMAIN t, NEW mk \in Marked
  PROVE  mk[t[i].symbol] \in Nat
<1>1. t[i].symbol \in Paper!Symbols
  BY RowsAre, TradeFields
<1>. QED BY <1>1 DEF Marked

LEMMA ReconcileFollows ==
  ASSUME NEW t \in Seq(Paper!Trade), NEW mk \in Marked, Timed
  PROVE  Follows(t, Paper!ReconcilePaper(t, mk))
<1>1. PICK u : u = Paper!ReconcilePaper(t, mk)
  OBVIOUS
<1>2. u = [i \in DOMAIN t |-> u[i]]
  BY <1>1 DEF Paper!ReconcilePaper
<1>3. ASSUME NEW i \in DOMAIN t PROVE u[i] \in Paper!Trade /\ RowFollows(t[i], u[i])
  <2>1. PICK mark \in Nat : mark = mk[t[i].symbol]
    BY MarkIs
  <2>2. PICK exit : exit = Paper!ExitFor(t[i], mark)
    OBVIOUS
  <2>3. exit.price \in Int /\ exit.reason \in ExitReasons
    <3>1. t[i].stop \in Int /\ t[i].target \in Int
      BY RowsAre, TradeFields
    <3>2. \/ exit = [price |-> t[i].stop, reason |-> "STOP_LOSS"]
          \/ exit = [price |-> t[i].target, reason |-> "TAKE_PROFIT"]
          \/ exit = [price |-> 0, reason |-> "NONE"]
      BY <2>2 DEF Paper!ExitFor
    <3>3. exit.price \in Int
      BY <3>1, <3>2
    <3>4. exit.reason \in ExitReasons
      BY <3>2 DEF ExitReasons
    <3>. QED BY <3>3, <3>4
  <2>4. u[i] = IF mark = 0 \/ exit.price = 0 THEN t[i]
               ELSE Paper!Settle(t, i, exit.price, exit.reason)[i]
    BY <1>1, <2>1, <2>2 DEF Paper!ReconcilePaper
  <2>5. t[i] \in Paper!Trade /\ RowFollows(t[i], t[i])
    BY FollowsItself, RowsAre DEF Follows
  <2>. QED BY <2>3, <2>4, <2>5, SettleFollows
<1>. QED BY <1>1, <1>2, <1>3, RowByRow

LEMMA SettleAllFollows ==
  ASSUME NEW t \in Seq(Paper!Trade), NEW left, NEW mk \in Marked, Timed
  PROVE  Follows(t, Paper!SettleAll(t, left, mk))
<1>1. PICK u : u = Paper!SettleAll(t, left, mk)
  OBVIOUS
<1>2. PICK now : now = left \ Paper!Waiting(t, left, mk)
  OBVIOUS
<1>3. u = [i \in DOMAIN t |-> IF i \in now THEN Paper!Settle(t, i, mk[t[i].symbol], "EMERGENCY")[i] ELSE t[i]]
  <2> HIDE DEF Paper!Settle
  <2>. QED BY <1>1, <1>2 DEF Paper!SettleAll
<1>4. u = [i \in DOMAIN t |-> u[i]]
  BY <1>3
<1>5. ASSUME NEW i \in DOMAIN t PROVE u[i] \in Paper!Trade /\ RowFollows(t[i], u[i])
  <2>1. PICK mark \in Nat : mark = mk[t[i].symbol]
    BY MarkIs
  <2>2. u[i] = IF i \in now THEN Paper!Settle(t, i, mark, "EMERGENCY")[i] ELSE t[i]
    <3> HIDE DEF Paper!Settle
    <3>. QED BY <1>3, <2>1
  <2>3. t[i] \in Paper!Trade /\ RowFollows(t[i], t[i])
    BY FollowsItself, RowsAre DEF Follows
  <2>4. "EMERGENCY" \in ExitReasons
    BY DEF ExitReasons
  <2>. QED BY <2>1, <2>2, <2>3, <2>4, SettleFollows
<1>. QED BY <1>1, <1>4, <1>5, RowByRow

LEMMA SettlesNone ==
  ASSUME NEW t \in Seq(Paper!Trade), NEW mk
  PROVE  Paper!SettleAll(t, {}, mk) = t
<1>1. Paper!SettleAll(t, {}, mk) = [i \in DOMAIN t |-> t[i]]
  <2> HIDE DEF Paper!Settle
  <2>. QED BY DEF Paper!SettleAll
<1>. QED BY <1>1

LEMMA StopsOnlyTighten ==
  ASSUME NEW side \in {"LONG", "SHORT"}, NEW mark \in Nat, NEW stop \in Int,
         NEW next, next = Paper!TrailingStopFor(side, mark, stop), next # 0
  PROVE  next \in Int /\ IF side = "LONG" THEN next >= stop ELSE next <= stop
<1>1. PICK factor \in Int : factor = IF side = "LONG" THEN 100 - PaperTrailing ELSE 100 + PaperTrailing
  BY SMTT(40), PaperAssumption
<1>2. PICK candidate \in Int : candidate = (mark * factor) \div 100
  OBVIOUS
<1>3. next = IF PaperTrailing > 0 /\ (IF side = "LONG" THEN candidate > stop ELSE candidate < stop)
             THEN candidate ELSE 0
  BY <1>1, <1>2 DEF Paper!TrailingStopFor
<1>. QED BY <1>3

LEMMA TrailingFollows ==
  ASSUME NEW t \in Seq(Paper!Trade), NEW mk \in Marked, Timed
  PROVE  Follows(t, Paper!ApplyTrailingStops(t, mk))
<1>1. PICK u : u = Paper!ApplyTrailingStops(t, mk)
  OBVIOUS
<1>2. u = [i \in DOMAIN t |-> u[i]]
  BY <1>1 DEF Paper!ApplyTrailingStops
<1>3. ASSUME NEW i \in DOMAIN t PROVE u[i] \in Paper!Trade /\ RowFollows(t[i], u[i])
  <2>1. PICK mark \in Nat : mark = mk[t[i].symbol]
    BY MarkIs
  <2>2. PICK next : next = Paper!TrailingStopFor(t[i].side, mark, t[i].stop)
    OBVIOUS
  <2>3. u[i] = IF i \in Paper!Open(t) /\ mark # 0 /\ next # 0 THEN [t[i] EXCEPT !.stop = next] ELSE t[i]
    BY <1>1, <2>1, <2>2 DEF Paper!ApplyTrailingStops
  <2>4. t[i] \in Paper!Trade /\ RowFollows(t[i], t[i])
    BY FollowsItself, RowsAre DEF Follows
  <2>5. ASSUME i \in Paper!Open(t), next # 0, NEW q, q = [t[i] EXCEPT !.stop = next]
        PROVE  q \in Paper!Trade /\ RowFollows(t[i], q)
    <3>1. next \in Int /\ IF t[i].side = "LONG" THEN next >= t[i].stop ELSE next <= t[i].stop
      BY <2>2, <2>4, <2>5, StopsOnlyTighten, TradeFields
    <3>2. q \in Paper!Trade
      BY <2>4, <2>5, <3>1 DEF Paper!Trade
    <3>3. t[i].closedOn = 0
      BY <2>5 DEF Paper!Open
    <3>4. /\ q.size = t[i].size /\ q.entry = t[i].entry /\ q.side = t[i].side /\ q.symbol = t[i].symbol
          /\ q.closedOn = t[i].closedOn /\ q.stop = next /\ q.pnl = t[i].pnl /\ q.life = t[i].life
      BY <2>4, <2>5 DEF Paper!Trade
    <3>. QED BY <3>1, <3>2, <3>3, <3>4 DEF RowFollows, Tighter
  <2>. QED BY <2>3, <2>4, <2>5
<1>. QED BY <1>1, <1>2, <1>3, RowByRow

-----------------------------------------------------------------------------
(* Entries.  The quantity fits under both ceilings at the price it is      *)
(* sized at.                                                               *)
LEMMA LeastOfThree ==
  ASSUME NEW a \in Int, NEW b \in Int, NEW C, C = {} \/ (\E c \in Int : C = {c}),
         NEW m, m = Paper!Min({a, b} \cup C)
  PROVE  m \in Int /\ m <= a /\ m <= b
<1>1. PICK S : S = {a, b} \cup C
  OBVIOUS
<1>2. \E x \in S : \A y \in S : x <= y
  <2>1. CASE C = {}
    <3>1. \A y \in S : y = a \/ y = b
      BY <1>1, <2>1
    <3>2. a \in S /\ b \in S
      BY <1>1
    <3>3. a <= b \/ b <= a
      OBVIOUS
    <3>. QED BY <3>1, <3>2, <3>3
  <2>2. ASSUME NEW c \in Int, C = {c} PROVE \E x \in S : \A y \in S : x <= y
    <3>1. \A y \in S : y = a \/ y = b \/ y = c
      BY <1>1, <2>2
    <3>2. a \in S /\ b \in S /\ c \in S
      BY <1>1, <2>2
    <3>3. (a <= b /\ a <= c) \/ (b <= a /\ b <= c) \/ (c <= a /\ c <= b)
      BY <2>2
    <3>. QED BY <3>1, <3>2, <3>3
  <2>. QED BY <2>1, <2>2
<1>3. m \in S /\ \A y \in S : m <= y
  BY <1>1, <1>2 DEF Paper!Min
<1>4. S \subseteq Int
  BY <1>1
<1>. QED BY <1>1, <1>3, <1>4

LEMMA DivisionBelow == \A m \in Nat, p \in Nat \ {0} : m \div p \in Nat /\ p * (m \div p) <= m
<1>1. SUFFICES ASSUME NEW m \in Nat, NEW p \in Nat \ {0}
               PROVE  m \div p \in Nat /\ p * (m \div p) <= m
  OBVIOUS
<1>2. m = p * (m \div p) + (m % p) /\ m % p \in 0 .. p - 1 /\ m \div p \in Int
  OBVIOUS
<1>. QED BY <1>2

LEMMA SizedUnderCaps ==
  ASSUME NEW t \in Seq(Paper!Trade), NEW s, NEW price \in Nat \ {0}, NEW equity \in Int,
         NEW size, size = Paper!AssessRisk(t, s, price, equity), size # 0
  PROVE  /\ size \in Nat /\ price * size \in Nat /\ price * size <= PaperPosition
         /\ Paper!Exposure(t) + price * size <= PaperRiskCap
<1>1. PICK used \in Nat : used = Paper!Exposure(t)
  BY ExposureIs
<1>2. PICK C : C = IF equity > 0 THEN {equity \div 100} ELSE {}
  OBVIOUS
<1>3. PICK m : m = Paper!Min({PaperPosition, PaperRiskCap - used} \cup C)
  OBVIOUS
<1>4. C = {} \/ (\E c \in Int : C = {c})
  <2>1. equity \div 100 \in Int
    OBVIOUS
  <2>. QED BY <1>2, <2>1
<1>5. PaperPosition \in Int /\ PaperRiskCap \in Nat
  BY PaperAssumption
<1>6. m \in Int /\ m <= PaperPosition /\ m <= PaperRiskCap - used
  <2>1. PICK room \in Int : room = PaperRiskCap - used
    BY <1>1, <1>5
  <2>. QED BY <1>3, <1>4, <1>5, <2>1, LeastOfThree
<1>7. ~(m <= 0) /\ size = m \div price
  <2> HIDE DEF Paper!Min
  <2>. QED BY <1>1, <1>2, <1>3 DEF Paper!AssessRisk
<1>8. size \in Nat /\ price * size <= m
  BY <1>6, <1>7, DivisionBelow
<1>9. price * size \in Nat
  BY <1>8
<1>. QED BY SMTT(40), <1>1, <1>5, <1>6, <1>8, <1>9

LEMMA NewTradeIs ==
  ASSUME NEW s \in Paper!Symbols, NEW side \in {"LONG", "SHORT"}, NEW size \in Nat, NEW price \in Nat,
         NEW r, r = Paper!NewTrade(s, side, size, price)
  PROVE  r \in Paper!Trade /\ r.closedOn = 0 /\ r.life = 0 /\ r.size = size /\ r.entry = price
<1>1. PICK guard : guard = Paper!ProtectivePrices(price, side)
  OBVIOUS
<1>2. guard.stop \in Int /\ guard.target \in Int
  <2>1. PaperStop \in Int /\ PaperTarget \in Int
    BY PaperAssumption
  <2>2. /\ (price * (100 + (-1) * PaperStop)) \div 100 \in Int /\ (price * (100 + 1 * PaperTarget)) \div 100 \in Int
        /\ (price * (100 + 1 * PaperStop)) \div 100 \in Int /\ (price * (100 + (-1) * PaperTarget)) \div 100 \in Int
    BY <2>1
  <2>3. \/ guard = [stop   |-> (price * (100 + (-1) * PaperStop)) \div 100,
                    target |-> (price * (100 + 1 * PaperTarget)) \div 100]
        \/ guard = [stop   |-> (price * (100 + 1 * PaperStop)) \div 100,
                    target |-> (price * (100 + (-1) * PaperTarget)) \div 100]
    BY <1>1 DEF Paper!ProtectivePrices
  <2>4. PICK a, b, c, d : /\ a \in Int /\ a = (price * (100 + (-1) * PaperStop)) \div 100
                          /\ b \in Int /\ b = (price * (100 + 1 * PaperTarget)) \div 100
                          /\ c \in Int /\ c = (price * (100 + 1 * PaperStop)) \div 100
                          /\ d \in Int /\ d = (price * (100 + (-1) * PaperTarget)) \div 100
    BY <2>2
  <2>5. guard = [stop |-> a, target |-> b] \/ guard = [stop |-> c, target |-> d]
    BY <2>3, <2>4, Zenon
  <2>. QED BY <2>4, <2>5
<1>3. r = [symbol |-> s, side |-> side, size |-> size, entry |-> price, stop |-> guard.stop,
           target |-> guard.target, closedOn |-> 0, exit |-> 0, reason |-> "NONE", pnl |-> 0, life |-> 0]
  BY <1>1 DEF Paper!NewTrade
<1>4. r \in Paper!Trade
  BY <1>2, <1>3 DEF Paper!Trade
<1>. QED BY <1>3, <1>4

LEMMA EntryCounts ==
  ASSUME NEW t \in Seq(Paper!Trade), NEW r \in Paper!Trade, r.closedOn = 0
  PROVE  Paper!Exposure(Append(t, r)) = Paper!Exposure(t) + r.entry * r.size
<1>1. PICK V : V = Paper!Trade
  OBVIOUS
<1>2. PICK n \in Nat : n = Len(t) /\ DOMAIN t = 1 .. n
  OBVIOUS
<1>3. PICK u : u = Append(t, r)
  OBVIOUS
<1>4. u \in Seq(V) /\ DOMAIN u = 1 .. n + 1 /\ u[n + 1] = r /\ \A i \in 1 .. n : u[i] = t[i]
  BY <1>1, <1>2, <1>3
<1>5. PICK S : S = Paper!Open(t)
  OBVIOUS
<1>6. Paper!Open(u) = S \cup {n + 1} /\ S \subseteq 1 .. n
  BY <1>2, <1>4, <1>5 DEF Paper!Open
<1>7. PICK T : T = S \cup {n + 1}
  OBVIOUS
<1>8. IsFiniteSet(T) /\ \A i \in T : WorthIn(u)[i] \in Int
  BY <1>1, <1>4, <1>6, <1>7, RowsAre
<1>9. SumOf(WorthIn(u), T) = WorthIn(u)[n + 1] + SumOf(WorthIn(u), T \ {n + 1})
  BY <1>7, <1>8, SumTakes
<1>10. T \ {n + 1} = S
  BY <1>6, <1>7
<1>11. SumOf(WorthIn(u), S) = SumOf(WorthIn(t), S)
  <2>1. \A i \in S : WorthIn(u)[i] = WorthIn(t)[i]
    BY <1>2, <1>4, <1>6 DEF WorthIn
  <2>2. IsFiniteSet(S)
    BY <1>5, RowsAre
  <2>. QED BY <2>1, <2>2, SumSame
<1>12. WorthIn(u)[n + 1] = r.entry * r.size
  BY <1>2, <1>4 DEF WorthIn
<1>13. Paper!Exposure(u) = SumOf(WorthIn(u), T) /\ Paper!Exposure(t) = SumOf(WorthIn(t), S)
  BY <1>1, <1>4, <1>5, <1>6, <1>7, ExposureIs
<1>14. WorthIn(u)[n + 1] \in Int /\ Paper!Exposure(t) \in Int
  BY <1>7, <1>8, ExposureIs
<1>15. Paper!Exposure(u) = WorthIn(u)[n + 1] + Paper!Exposure(t)
  BY <1>9, <1>10, <1>11, <1>13
<1>16. Paper!Exposure(u) = Paper!Exposure(t) + WorthIn(u)[n + 1]
  BY <1>14, <1>15
<1>. QED BY <1>3, <1>12, <1>16
-----------------------------------------------------------------------------
(* The account: what the invariant says, in parts.                         *)
Table(t) == t \in Seq(Paper!Trade) /\ Len(t) <= PaperTrades /\ Capped(t) /\ Dated(t)

Books == Table(v1) /\ Timed /\ v3 = 100 * PaperEquity + MadeNow(v1)

PaperSettings == /\ v2 \in [Paper!Symbols -> PaperPrices \cup {0}] /\ v4 \in BOOLEAN /\ v6 \in Int
                 /\ v7 \in 1 .. 1 + PaperTurns /\ v8 \in 1 .. 1 + PaperTurns /\ Paper!DayStartSound

(* The stage of the tick. *)
Staged == /\ v9 \in [stage : {"idle", "prices", "pairs", "sweep"}, next : 0 .. Len(PaperPairs) + 1,
                     left : SUBSET DOMAIN v1, overtaken : BOOLEAN]
          /\ v9.stage = "prices" => v9.next \in DOMAIN PaperPairs
          /\ v9.stage = "sweep" <=> v9.left # {}

Account == Books /\ PaperSettings /\ Staged /\ Paper!TickUnderLimit

RowsTyped == \A i \in DOMAIN v1 : /\ v1[i].closedOn \in 0 .. v7 /\ v1[i].life \in 0 .. v8
                                  /\ v1[i].closedOn = 0 => v1[i].life = 0

LEMMA AccountIs == Paper!PaperInv <=> Account
<1>1. ASSUME v1 \in Seq(Paper!Trade), v7 \in Nat, v8 \in Nat
      PROVE  RowsTyped <=> Dated(v1)
  <2>1. \A i \in DOMAIN v1 : v1[i].closedOn \in Nat /\ v1[i].life \in Nat
    BY <1>1, RowsAre, TradeFields
  <2>. QED BY <1>1, <2>1 DEF Dated, RowsTyped
<1>2. v7 \in 1 .. 1 + PaperTurns => v7 \in Nat \ {0} /\ v7 \in Nat
  BY PaperAssumption
<1>3. v8 \in 1 .. 1 + PaperTurns => v8 \in Nat \ {0} /\ v8 \in Nat
  BY PaperAssumption
<1>4. Paper!SumFunctionOnSet([i \in DOMAIN v1 |-> v1[i].pnl], {i \in DOMAIN v1 : v1[i].life = v8}) = MadeNow(v1)
  BY PaperSums DEF MadeNow, MadeIn, ThisLife
<1>5. Paper!TypeOk <=> /\ Len(v1) <= PaperTrades /\ v2 \in [Paper!Symbols -> PaperPrices \cup {0}]
                       /\ v4 \in BOOLEAN /\ v7 \in 1 .. 1 + PaperTurns /\ v8 \in 1 .. 1 + PaperTurns
                       /\ RowsTyped /\ Staged
  BY DEF Paper!TypeOk, Staged, RowsTyped
<1>6. Paper!BooksBalance <=> Capped(v1) /\ v3 = 100 * PaperEquity + MadeNow(v1)
  BY <1>4 DEF Paper!BooksBalance, Capped
<1> HIDE DEF Paper!TypeOk, Paper!BooksBalance, Paper!DayStartSound, Paper!TickUnderLimit
<1>. QED
  BY <1>1, <1>2, <1>3, <1>5, <1>6 DEF Paper!PaperInv, Account, Books, PaperSettings, Table, Timed

LEMMA StartsIdle == Paper!Idle = [stage |-> "idle", next |-> 0, left |-> {}, overtaken |-> FALSE]
  BY DEF Paper!Idle

LEMMA PaperStarts == ASSUME Paper!Init PROVE Paper!PaperInv
<1>1. v1 = <<>> /\ v1 \in Seq(Paper!Trade) /\ Len(v1) = 0 /\ DOMAIN v1 = {}
  BY DEF Paper!Init
<1>2. Paper!Exposure(v1) = 0
  <2>1. Paper!Open(v1) = {}
    BY <1>1 DEF Paper!Open
  <2>2. Paper!Exposure(v1) = SumOf(WorthIn(v1), {})
    BY <1>1, <2>1, ExposureIs
  <2>. QED BY <2>2, SumEmpty
<1>3. Table(v1)
  BY <1>1, <1>2, PaperAssumption DEF Table, Capped, Dated
<1>4. v2 \in [Paper!Symbols -> PaperPrices \cup {0}]
  BY DEF Paper!Init
<1>5. v7 = 1 /\ v8 = 1 /\ v6 = 0 /\ v3 = 100 * PaperEquity /\ v4 = FALSE /\ v9 = Paper!Idle
  BY DEF Paper!Init
<1>6. Paper!DayStartSound
  BY DEF Paper!Init, Paper!DayStartSound
<1>7. MadeNow(v1) = 0
  <2>1. ThisLife(v1) = {}
    BY <1>1 DEF ThisLife
  <2>. QED BY <2>1, SumEmpty DEF MadeNow
<1>8. v3 = 100 * PaperEquity + MadeNow(v1) /\ PaperTurns \in Nat
  BY <1>5, <1>7, PaperAssumption
<1>9. Staged
  <2>1. Len(PaperPairs) \in Nat
    BY PaperAssumption
  <2>. QED BY <1>5, <2>1, StartsIdle DEF Staged
<1>10. Paper!TickUnderLimit
  BY <1>5, StartsIdle DEF Paper!TickUnderLimit
<1>11. Books
  BY <1>3, <1>5, <1>8 DEF Books, Timed
<1>12. v4 \in BOOLEAN
  <2>1. v4 = FALSE
    BY <1>5
  <2>. QED BY <2>1
<1>13. PaperSettings
  BY <1>4, <1>5, <1>6, <1>8, <1>12 DEF PaperSettings
<1>. QED BY <1>9, <1>10, <1>11, <1>13, AccountIs DEF Account

LEMMA MarksAre == ASSUME PaperSettings PROVE v2 \in Marked /\ v7 \in Nat /\ v8 \in Nat
<1>1. PICK M : M = PaperPrices \cup {0}
  OBVIOUS
<1>2. M \subseteq Nat
  BY <1>1, PaperAssumption
<1>3. v2 \in Marked
  BY <1>1, <1>2 DEF PaperSettings, Marked
<1>4. v7 \in Nat /\ v8 \in Nat
  BY PaperAssumption DEF PaperSettings
<1>. QED BY <1>3, <1>4
-----------------------------------------------------------------------------
(* The equity a day starts with.  Whoever asks for it leaves it as he got  *)
(* it, and so leaves what the breaker compares with.                       *)
Asked(equity) == Paper!Remember(equity) \/ UNCHANGED v5

LEMMA RememberSound ==
  ASSUME PaperSettings, NEW equity \in Int, Asked(equity), UNCHANGED v7
  PROVE  Paper!DayStartSound' /\ (v5.day = v7 => v5' = v5)
<1>1. v5 \in [day : Nat, equity : Int] /\ v5.day <= v7 /\ (v5.day = v7 => v5.equity > 0) /\ v7 \in Nat
  BY MarksAre DEF PaperSettings, Paper!DayStartSound
<1>2. CASE UNCHANGED v5
  BY <1>1, <1>2 DEF Paper!DayStartSound
<1>3. CASE Paper!Remember(equity)
  <2>1. PICK e \in Int : e = Paper!DayStartEquity(equity)
    BY <1>1 DEF Paper!DayStartEquity
  <2>2. v5' = IF e > 0 THEN [day |-> v7, equity |-> e] ELSE v5
    BY <1>3, <2>1 DEF Paper!Remember
  <2>3. CASE e > 0
    <3>1. v5' = [day |-> v7, equity |-> e]
      BY <2>2, <2>3
    <3>2. Paper!DayStartSound'
      BY <1>1, <2>3, <3>1 DEF Paper!DayStartSound
    <3>3. v5.day = v7 => e = v5.equity
      BY <2>1 DEF Paper!DayStartEquity
    <3>4. v5 = [day |-> v5.day, equity |-> v5.equity]
      BY <1>1
    <3>. QED BY <3>1, <3>2, <3>3, <3>4
  <2>4. CASE ~(e > 0)
    BY <1>1, <2>2, <2>4 DEF Paper!DayStartSound
  <2>. QED BY <2>3, <2>4
<1>. QED BY <1>2, <1>3 DEF Asked

LEMMA AskedIsTold ==
  ASSUME PaperSettings, NEW equity \in Int, Asked(equity), UNCHANGED v7
  PROVE  Paper!DayStartEquity(equity)' = Paper!DayStartEquity(equity) /\ Paper!DayStartEquity(equity) \in Int
<1>1. v5 \in [day : Nat, equity : Int] /\ v7 \in Nat
  BY MarksAre DEF PaperSettings, Paper!DayStartSound
<1>2. PICK e \in Int : e = Paper!DayStartEquity(equity)
  BY <1>1 DEF Paper!DayStartEquity
<1>3. CASE UNCHANGED v5
  BY <1>1, <1>3 DEF Paper!DayStartEquity
<1>4. CASE Paper!Remember(equity)
  <2>1. v5' = IF e > 0 THEN [day |-> v7, equity |-> e] ELSE v5
    BY <1>2, <1>4 DEF Paper!Remember
  <2>2. CASE e > 0
    <3>1. v5' = [day |-> v7, equity |-> e]
      BY <2>1, <2>2
    <3>2. v5'.day = v7' /\ v5'.equity = e
      BY <3>1
    <3>. QED BY <1>2, <3>2 DEF Paper!DayStartEquity
  <2>3. CASE ~(e > 0)
    BY <1>1, <2>1, <2>3 DEF Paper!DayStartEquity
  <2>. QED BY <1>2, <2>2, <2>3
<1>. QED BY <1>2, <1>3, <1>4 DEF Asked

(* What was not breached with less made, or the same, is not.              *)
LEMMA StaysUnder ==
  ASSUME PaperSettings, NEW t \in Seq(Paper!Trade), NEW equity \in Int, ~Paper!Breached(t, equity),
         Asked(equity), UNCHANGED v7, v6' = equity, NEW u, v1' = u,
         Paper!RealisedPnlToday(t) \in Int, Paper!RealisedPnlToday(u) \in Int,
         Paper!RealisedPnlToday(u) >= Paper!RealisedPnlToday(t)
  PROVE  ~Paper!Breached(v1, v6)' /\ ~Paper!Breached(u, equity)
<1>1. PICK e \in Int : e = Paper!DayStartEquity(equity) /\ e = Paper!DayStartEquity(equity)'
  BY AskedIsTold
<1>2. PICK a \in Int : a = Paper!RealisedPnlToday(t)
  OBVIOUS
<1>3. PICK b \in Int : b = Paper!RealisedPnlToday(u)
  OBVIOUS
<1>4. Paper!RealisedPnlToday(v1)' = b
  BY <1>3 DEF Paper!RealisedPnlToday
<1>5. ~(a < 0 /\ e > 0 /\ -a * 100 >= PaperDailyLoss * e)
  BY <1>1, <1>2 DEF Paper!Breached
<1>6. ~(b < 0 /\ e > 0 /\ -b * 100 >= PaperDailyLoss * e)
  <2>1. PICK limit \in Int : limit = PaperDailyLoss * e
    BY PaperAssumption
  <2>2. b >= a
    BY <1>2, <1>3
  <2>. QED BY <1>5, <2>1, <2>2
<1>7. Paper!DayStartEquity(v6)' = e
  <2>1. Paper!DayStartEquity(v6)' = Paper!DayStartEquity(equity)'
    BY DEF Paper!DayStartEquity
  <2>. QED BY <1>1, <2>1
<1>8. ~Paper!Breached(v1, v6)'
  BY <1>4, <1>6, <1>7 DEF Paper!Breached
<1>9. ~Paper!Breached(u, equity)
  BY <1>1, <1>3, <1>6 DEF Paper!Breached
<1>. QED BY <1>8, <1>9
-----------------------------------------------------------------------------
(* The books when rows only settle: the table stays inside the caps and    *)
(* the equity follows it.                                                  *)
Pays(u) == Follows(v1, u) /\ v1' = u /\ v3' = v3 + Paper!Gained(v1, u) /\ UNCHANGED <<v7, v8>>

LEMMA FollowsTable ==
  ASSUME NEW t, Table(t), NEW u, Follows(t, u), Timed
  PROVE  Table(u)
<1>1. t \in Seq(Paper!Trade) /\ Capped(t) /\ Dated(t) /\ Len(t) <= PaperTrades
  BY DEF Table
<1>2. Capped(u) /\ Dated(u)
  BY <1>1, FollowsCapped
<1>. QED BY <1>1, <1>2 DEF Table, Follows

LEMMA SameTable ==
  ASSUME NEW u, v1' = u, Table(u), UNCHANGED <<v7, v8>>
  PROVE  Table(v1)' /\ MadeNow(v1)' = MadeNow(u)
<1>1. Capped(v1)'
  BY DEF Table, Capped, Paper!Exposure, Paper!Open
<1>2. Dated(v1)'
  BY DEF Table, Dated
<1>3. MadeNow(v1)' = MadeNow(u)
  BY DEF MadeNow, MadeIn, ThisLife
<1>. QED BY <1>1, <1>2, <1>3 DEF Table

LEMMA PaysKeeps ==
  ASSUME Books, NEW u, Pays(u)
  PROVE  Books' /\ DOMAIN v1' = DOMAIN v1 /\ Table(u)
<1>1. Table(v1) /\ Timed /\ v1 \in Seq(Paper!Trade) /\ Dated(v1)
  BY DEF Books, Table
<1>2. Table(u)
  BY <1>1, FollowsTable DEF Pays
<1>3. Table(v1)' /\ MadeNow(v1)' = MadeNow(u)
  BY <1>2, SameTable DEF Pays
<1>4. /\ Paper!Gained(v1, u) \in Int /\ MadeNow(v1) \in Int
      /\ MadeNow(u) = MadeNow(v1) + Paper!Gained(v1, u)
  BY <1>1, GainedIs DEF Pays
<1>5. PICK e \in Int : e = 100 * PaperEquity
  BY SMTT(40), PaperAssumption
<1>6. v3 = e + MadeNow(v1) /\ v3' = v3 + Paper!Gained(v1, u)
  BY <1>5 DEF Books, Pays
<1>7. v3' = e + MadeNow(v1)'
  BY <1>3, <1>4, <1>5, <1>6
<1>8. Timed'
  BY <1>1 DEF Timed, Pays
<1>. QED BY <1>2, <1>3, <1>5, <1>7, <1>8 DEF Books, Pays, Follows

(* A step that leaves the table and the paper equity.                      *)
LEMMA SamePays ==
  ASSUME Books, UNCHANGED <<v1, v3, v7, v8>>
  PROVE  Books' /\ Follows(v1, v1')
<1>1. v1 \in Seq(Paper!Trade) /\ Table(v1) /\ Timed
  BY DEF Books, Table
<1>2. Table(v1)' /\ MadeNow(v1)' = MadeNow(v1)
  BY <1>1, SameTable
<1>3. Timed'
  BY <1>1 DEF Timed
<1>. QED BY <1>1, <1>2, <1>3, FollowsItself DEF Books
-----------------------------------------------------------------------------
(* The stages. *)
LEMMA Sweeps ==
  ASSUME NEW left, left \subseteq DOMAIN v1', NEW next, next = Paper!Sweeping(left), v9' = next
  PROVE  Staged' /\ v9'.stage # "pairs"
<1>1. Len(PaperPairs) \in Nat
  BY PaperAssumption
<1>2. CASE left = {}
  BY <1>1, <1>2, StartsIdle DEF Staged, Paper!Sweeping
<1>3. CASE left # {}
  <2>1. v9' = [stage |-> "sweep", next |-> 0, left |-> left, overtaken |-> FALSE]
    BY <1>3, StartsIdle DEF Paper!Sweeping
  <2>. QED BY <1>1, <1>3, <2>1 DEF Staged
<1>. QED BY <1>2, <1>3

(* The check, whoever runs it: from the prices `mk' and the recorded       *)
(* equity `point'.                                                         *)
LEMMA ChecksKeep ==
  ASSUME Account, NEW mk \in Marked, NEW point \in Int, Paper!Checks(mk, point), UNCHANGED <<v7, v8>>
  PROVE  /\ Books' /\ Follows(v1, v1') /\ v4' \in BOOLEAN /\ v6' \in Int /\ Staged' /\ Paper!TickUnderLimit'
         /\ Asked(v6')
<1>1. PICK exited : exited = Paper!ReconcilePaper(v1, mk)
  OBVIOUS
<1>2. PICK equity : equity = IF exited = v1 THEN point ELSE v3 + Paper!Gained(v1, exited)
  OBVIOUS
<1>3. PICK moved : moved = Paper!ApplyTrailingStops(exited, mk)
  OBVIOUS
<1>4. PICK halted : halted = (v4 \/ Paper!Breached(moved, equity))
  OBVIOUS
<1>5. PICK left : left = IF halted /\ PaperFlatten THEN Paper!Open(moved) ELSE {}
  OBVIOUS
<1>6. PICK final : final = Paper!SettleAll(moved, left, mk)
  OBVIOUS
<1>7. /\ v1' = final /\ v3' = v3 + Paper!Gained(v1, final) /\ v4' = halted /\ v6' = equity
      /\ IF v4 THEN UNCHANGED v5 ELSE Paper!Remember(equity)
      /\ v9' = IF halted THEN Paper!Sweeping(Paper!Waiting(moved, left, mk))
               ELSE [Paper!Idle EXCEPT !.stage = "pairs", !.next = 1]
  <2> HIDE DEF Paper!ReconcilePaper, Paper!Gained, Paper!ApplyTrailingStops, Paper!Breached,
               Paper!SettleAll, Paper!Remember, Paper!Waiting, Paper!Sweeping, Paper!Open, Paper!Idle
  <2>. QED BY <1>1, <1>2, <1>3, <1>4, <1>5, <1>6 DEF Paper!Checks
<1>8. Books /\ Table(v1) /\ Timed /\ v1 \in Seq(Paper!Trade) /\ Dated(v1) /\ PaperSettings
  BY DEF Account, Books, Table
<1>9. Follows(v1, exited) /\ exited \in Seq(Paper!Trade)
  BY <1>1, <1>8, ReconcileFollows DEF Follows
<1>10. Follows(v1, moved) /\ moved \in Seq(Paper!Trade)
  <2>1. Follows(exited, moved)
    BY <1>3, <1>8, <1>9, TrailingFollows
  <2>2. Follows(v1, moved)
    BY <1>8, <1>9, <2>1, FollowsOn
  <2>. QED BY <2>2 DEF Follows
<1>11. Follows(v1, final)
  <2>1. Follows(moved, final)
    BY <1>6, <1>8, <1>10, SettleAllFollows
  <2>. QED BY <1>8, <1>10, <2>1, FollowsOn
<1>12. Pays(final)
  BY <1>7, <1>11 DEF Pays
<1>13. Books' /\ DOMAIN v1' = DOMAIN v1 /\ Table(final)
  BY <1>8, <1>12, PaysKeeps
<1>14. equity \in Int
  <2>1. Paper!Gained(v1, exited) \in Int /\ MadeNow(v1) \in Int
    BY <1>8, <1>9, GainedIs
  <2>2. PICK e \in Int : e = 100 * PaperEquity
    BY PaperAssumption
  <2>3. v3 \in Int
    BY <1>8, <2>1, <2>2 DEF Books
  <2>. QED BY <1>2, <2>1, <2>3
<1>15. v4' \in BOOLEAN /\ v6' \in Int
  BY <1>4, <1>7, <1>14
<1>16. Asked(equity)
  BY <1>7 DEF Asked
<1>17. CASE halted
  <2>1. v9' = Paper!Sweeping(Paper!Waiting(moved, left, mk))
    BY <1>7, <1>17
  <2>2. Paper!Waiting(moved, left, mk) \subseteq DOMAIN v1'
    <3>1. left \subseteq DOMAIN moved
      BY <1>5 DEF Paper!Open
    <3>2. DOMAIN moved = DOMAIN v1
      BY <1>10 DEF Follows
    <3>. QED BY <1>13, <3>1, <3>2 DEF Paper!Waiting
  <2>3. Staged' /\ v9'.stage # "pairs"
    BY <2>1, <2>2, Sweeps
  <2>4. Paper!TickUnderLimit'
    BY <2>3 DEF Paper!TickUnderLimit
  <2>. QED BY <1>7, <1>11, <1>13, <1>15, <1>16, <2>3, <2>4
<1>18. CASE ~halted
  <2>1. v9' = [stage |-> "pairs", next |-> 1, left |-> {}, overtaken |-> FALSE]
    BY <1>7, <1>18, StartsIdle
  <2>2. Staged'
    <3>1. 1 \in 0 .. Len(PaperPairs) + 1
      BY PaperAssumption
    <3>. QED BY <2>1, <3>1 DEF Staged
  <2>3. final = moved
    BY <1>5, <1>6, <1>10, <1>18, SettlesNone
  <2>4. ~v4 /\ ~Paper!Breached(moved, equity) /\ v4' = FALSE
    BY <1>4, <1>7, <1>18
  <2>5. Paper!RealisedPnlToday(moved) \in Int
    BY <1>10, RealisedIs
  <2>6. ~Paper!Breached(v1, v6)'
    <3>1. PICK lost \in Int : lost = Paper!RealisedPnlToday(moved)
      BY <2>5
    <3>2. lost >= lost
      BY <3>1
    <3>. QED BY <1>7, <1>8, <1>10, <1>14, <1>16, <2>3, <2>4, <3>1, <3>2, StaysUnder
  <2>7. Paper!TickUnderLimit'
    BY <2>4, <2>6 DEF Paper!TickUnderLimit
  <2>. QED BY <1>7, <1>11, <1>13, <1>15, <1>16, <2>2, <2>7
<1>. QED BY <1>4, <1>17, <1>18

(* What a step leaves or does, enough for the invariant and for the        *)
(* prudence of a step without an entry.                                    *)
DeskKept == /\ Books' /\ PaperSettings' /\ Staged' /\ Paper!TickUnderLimit'
            /\ Follows(v1, v1') /\ (v5.day = v7 /\ v7' = v7 => v5' = v5)

(* A step on the same day that asks for the day's equity at most. *)
LEMMA SameDay ==
  ASSUME PaperSettings, NEW equity \in Int, Asked(equity), UNCHANGED <<v7, v8>>,
         v2' \in [Paper!Symbols -> PaperPrices \cup {0}], v4' \in BOOLEAN, v6' \in Int
  PROVE  PaperSettings' /\ (v5.day = v7 /\ v7' = v7 => v5' = v5)
  BY RememberSound DEF PaperSettings

(* The smallest of a finite set of numbers. *)
LEMMA LeastOf ==
  ASSUME NEW S, NEW w \in S, IsFiniteSet(S)
  PROVE  S \subseteq Int => Paper!Min(S) \in S
<1>1. PICK f \in [S -> SUBSET S] : f = [x \in S |-> {y \in S : y <= x}]
  OBVIOUS
<1>2. PICK x \in S : \A y \in S : f[y] \subseteq f[x] => f[y] = f[x]
  BY MinimalValue
<1>. HAVE S \subseteq Int
<1>3. \A y \in S : x <= y
  <2>1. SUFFICES ASSUME NEW y \in S, ~(x <= y) PROVE FALSE
    OBVIOUS
  <2>2. y \in Int /\ x \in Int /\ y < x
    BY <2>1
  <2>3. f[y] \subseteq f[x]
    <3>. SUFFICES ASSUME NEW z \in S, z <= y PROVE z <= x
      BY <1>1
    <3>. QED BY <2>2
  <2>4. x \in f[x] /\ x \notin f[y]
    BY <1>1, <2>2
  <2>. QED BY <1>2, <2>3, <2>4
<1>. QED BY <1>3 DEF Paper!Min

LEMMA LeastMissing ==
  ASSUME NEW mk, NEW k \in Nat \ {0}, Paper!Missing(mk, k) # {}
  PROVE  Paper!Min(Paper!Missing(mk, k)) \in DOMAIN PaperPairs
<1>1. PICK n \in Nat : n = Len(PaperPairs) /\ DOMAIN PaperPairs = 1 .. n
  BY PaperAssumption
<1>2. PICK S : S = Paper!Missing(mk, k)
  OBVIOUS
<1>3. S \subseteq 1 .. n /\ S \subseteq Int
  BY <1>1, <1>2 DEF Paper!Missing
<1>4. IsFiniteSet(S)
  <2>1. IsFiniteSet(1 .. n)
    BY FS_Interval
  <2>. QED BY <1>3, <2>1, FS_Subset
<1>5. PICK w : w \in S
  BY <1>2
<1>. QED BY <1>1, <1>2, <1>3, <1>4, <1>5, LeastOf

LEMMA TickStartKeeps ==
  ASSUME Account, Paper!TickStarts
  PROVE  DeskKept
<1>1. Books /\ PaperSettings /\ v2 \in Marked /\ v4 \in BOOLEAN /\ v6 \in Int /\ v3 \in Int
      /\ v2 \in [Paper!Symbols -> PaperPrices \cup {0}] /\ v1 \in Seq(Paper!Trade)
  <2>1. Books /\ PaperSettings /\ v2 \in Marked /\ v1 \in Seq(Paper!Trade)
    BY MarksAre DEF Account, Books, Table
  <2>2. MadeNow(v1) \in Int
    BY <2>1, FollowsItself, GainedIs DEF Books, Table
  <2>3. PICK e \in Int : e = 100 * PaperEquity
    BY PaperAssumption
  <2>4. v3 \in Int
    BY <2>1, <2>2, <2>3 DEF Books
  <2>. QED BY <2>1, <2>4 DEF PaperSettings
<1>2. UNCHANGED <<v2, v7, v8>>
  BY DEF Paper!TickStarts
<1>3. CASE Paper!Checks(v2, v3)
  <2>1. /\ Books' /\ Follows(v1, v1') /\ v4' \in BOOLEAN /\ v6' \in Int /\ Staged' /\ Paper!TickUnderLimit'
        /\ Asked(v6')
    BY <1>1, <1>2, <1>3, ChecksKeep
  <2>2. PaperSettings' /\ (v5.day = v7 /\ v7' = v7 => v5' = v5)
    BY <1>1, <1>2, <2>1, SameDay
  <2>. QED BY <2>1, <2>2 DEF DeskKept
<1>4. CASE /\ Paper!Missing(v2, 1) # {} /\ v6' = v3
           /\ v9' = [Paper!Idle EXCEPT !.stage = "prices", !.next = Paper!Min(Paper!Missing(v2, 1))]
           /\ UNCHANGED <<v1, v3, v4, v5>>
  <2>1. Books' /\ Follows(v1, v1')
    BY <1>1, <1>2, <1>4, SamePays
  <2>2. PaperSettings' /\ (v5.day = v7 /\ v7' = v7 => v5' = v5)
    BY <1>1, <1>2, <1>4, SameDay DEF Asked
  <2>3. Paper!Min(Paper!Missing(v2, 1)) \in DOMAIN PaperPairs
    BY <1>4, LeastMissing
  <2>4. v9' = [stage |-> "prices", next |-> Paper!Min(Paper!Missing(v2, 1)), left |-> {}, overtaken |-> FALSE]
    BY <1>4, StartsIdle
  <2>5. Staged'
    BY <2>3, <2>4, PaperAssumption DEF Staged
  <2>6. Paper!TickUnderLimit'
    BY <2>4 DEF Paper!TickUnderLimit
  <2>. QED BY <2>1, <2>2, <2>5, <2>6 DEF DeskKept
<1>. QED BY <1>3, <1>4 DEF Paper!TickStarts
-----------------------------------------------------------------------------
(* The step between two answers of the exchange. *)
LEMMA BooksTyped ==
  ASSUME Books
  PROVE  v3 \in Int /\ Timed /\ Table(v1) /\ v1 \in Seq(Paper!Trade) /\ Dated(v1) /\ Capped(v1)
<1>1. Table(v1) /\ Timed /\ v1 \in Seq(Paper!Trade) /\ Dated(v1) /\ Capped(v1)
  BY DEF Books, Table
<1>2. MadeNow(v1) \in Int
  BY <1>1, FollowsItself, GainedIs
<1>3. PICK e \in Int : e = 100 * PaperEquity
  BY PaperAssumption
<1>4. v3 \in Int
  BY <1>2, <1>3 DEF Books
<1>. QED BY <1>1, <1>4

LEMMA PriceKeeps ==
  ASSUME Account, NEW p \in PaperPrices \cup {0}, Paper!PriceComes(p)
  PROVE  DeskKept
<1>1. PICK mk : mk = IF p = 0 THEN v2 ELSE [v2 EXCEPT ![PaperPairs[v9.next]] = p]
  OBVIOUS
<1>2. PICK rest : rest = Paper!Missing(mk, v9.next + 1)
  OBVIOUS
<1>3. /\ v9.stage = "prices" /\ v2' = mk /\ UNCHANGED <<v7, v8>>
      /\ \/ Paper!Checks(mk, v6)
         \/ /\ rest # {} /\ v9' = [v9 EXCEPT !.next = Paper!Min(rest)]
            /\ UNCHANGED <<v1, v3, v4, v5, v6>>
  <2> HIDE DEF Paper!Checks, Paper!Missing, Paper!Min
  <2>. QED BY <1>1, <1>2 DEF Paper!PriceComes
<1>4. Books /\ PaperSettings /\ Staged /\ v6 \in Int /\ v4 \in BOOLEAN
  BY DEF Account, PaperSettings
<1>5. mk \in [Paper!Symbols -> PaperPrices \cup {0}]
  <2>1. PICK M : M = PaperPrices \cup {0}
    OBVIOUS
  <2>2. v2 \in [Paper!Symbols -> M] /\ p \in M
    BY <1>4, <2>1 DEF PaperSettings
  <2>3. mk \in [Paper!Symbols -> M]
    BY <1>1, <2>2
  <2>. QED BY <2>1, <2>3
<1>6. mk \in Marked
  <2>1. PICK M : M = PaperPrices \cup {0}
    OBVIOUS
  <2>2. M \subseteq Nat
    BY <2>1, PaperAssumption
  <2>. QED BY <1>5, <2>1, <2>2 DEF Marked
<1>7. CASE Paper!Checks(mk, v6)
  <2>1. /\ Books' /\ Follows(v1, v1') /\ v4' \in BOOLEAN /\ v6' \in Int /\ Staged' /\ Paper!TickUnderLimit'
        /\ Asked(v6')
    BY <1>3, <1>4, <1>6, <1>7, ChecksKeep
  <2>2. PaperSettings' /\ (v5.day = v7 /\ v7' = v7 => v5' = v5)
    BY <1>3, <1>4, <1>5, <2>1, SameDay
  <2>. QED BY <2>1, <2>2 DEF DeskKept
<1>8. CASE /\ rest # {} /\ v9' = [v9 EXCEPT !.next = Paper!Min(rest)]
           /\ UNCHANGED <<v1, v3, v4, v5, v6>>
  <2>1. Books' /\ Follows(v1, v1')
    BY <1>3, <1>4, <1>8, SamePays
  <2>2. PaperSettings' /\ (v5.day = v7 /\ v7' = v7 => v5' = v5)
    BY <1>3, <1>4, <1>5, <1>8, SameDay DEF Asked
  <2>3. PICK least \in DOMAIN PaperPairs : least = Paper!Min(rest)
    <3>1. v9.next + 1 \in Nat \ {0}
      BY <1>4, PaperAssumption DEF Staged
    <3>. QED BY <1>2, <1>8, <3>1, LeastMissing
  <2>4. v9' = [v9 EXCEPT !.next = least]
    BY <1>8, <2>3
  <2>5. least \in 0 .. Len(PaperPairs) + 1
    BY PaperAssumption
  <2>6. v9' = [stage |-> "prices", next |-> least, left |-> v9.left, overtaken |-> v9.overtaken]
    BY <1>3, <1>4, <2>4 DEF Staged
  <2>7. Staged'
    <3>1. v9'.stage = "prices" /\ v9'.next = least /\ v9'.left = v9.left
      BY <2>6
    <3>. QED BY <1>3, <1>4, <1>8, <2>5, <2>6, <3>1 DEF Staged
  <2>8. Paper!TickUnderLimit'
    BY <2>6 DEF Paper!TickUnderLimit
  <2>. QED BY <2>1, <2>2, <2>7, <2>8 DEF DeskKept
<1>. QED BY <1>3, <1>7, <1>8

LEMMA SweepKeeps ==
  ASSUME Account, NEW p \in PaperPrices \cup {0}, Paper!SweepGoesOn(p)
  PROVE  DeskKept
<1>1. PICK i : i = Paper!Min(v9.left)
  OBVIOUS
<1>2. PICK one : one = IF p = 0 THEN v1 ELSE Paper!Settle(v1, i, p, "EMERGENCY")
  OBVIOUS
<1>3. PICK left : left = v9.left \ {i}
  OBVIOUS
<1>4. PICK after : after = Paper!SettleAll(one, left, v2)
  OBVIOUS
<1>5. /\ v9.stage = "sweep" /\ v1' = after /\ v3' = v3 + Paper!Gained(v1, after)
      /\ v9' = Paper!Sweeping(Paper!Waiting(one, left, v2)) /\ UNCHANGED <<v2, v4, v5, v6, v7, v8>>
  <2> HIDE DEF Paper!Min, Paper!Settle, Paper!SettleAll, Paper!Gained, Paper!Sweeping, Paper!Waiting
  <2>. QED BY <1>1, <1>2, <1>3, <1>4 DEF Paper!SweepGoesOn
<1>6. Books /\ PaperSettings /\ Staged /\ v2 \in Marked /\ v6 \in Int /\ v4 \in BOOLEAN
  BY MarksAre DEF Account, PaperSettings
<1>7. v1 \in Seq(Paper!Trade) /\ Timed
  BY <1>6, BooksTyped
<1>8. i \in DOMAIN v1
  <2>1. v9.left # {} /\ v9.left \subseteq DOMAIN v1
    BY <1>5, <1>6 DEF Staged
  <2>2. PICK n \in Nat : DOMAIN v1 = 1 .. n
    BY <1>7
  <2>3. IsFiniteSet(v9.left)
    BY <1>7, <2>1, RowsAre
  <2>4. PICK S : S = v9.left
    OBVIOUS
  <2>5. PICK w : w \in S
    BY <2>1, <2>4
  <2>6. S \subseteq Int
    BY <2>1, <2>2, <2>4
  <2>7. Paper!Min(S) \in S
    BY <2>3, <2>4, <2>5, <2>6, LeastOf
  <2>. QED BY <1>1, <2>1, <2>4, <2>7
<1>9. Follows(v1, one) /\ one \in Seq(Paper!Trade)
  <2>1. p \in Int /\ "EMERGENCY" \in ExitReasons
    BY PaperAssumption DEF ExitReasons
  <2>2. Follows(v1, Paper!Settle(v1, i, p, "EMERGENCY")) /\ Follows(v1, v1)
    BY <1>7, <1>8, <2>1, SettleFollows, FollowsItself
  <2>. QED BY <1>2, <2>2 DEF Follows
<1>10. Follows(v1, after)
  <2>1. Follows(one, after)
    BY <1>4, <1>6, <1>7, <1>9, SettleAllFollows
  <2>. QED BY <1>7, <1>9, <2>1, FollowsOn
<1>11. Pays(after)
  BY <1>5, <1>10 DEF Pays
<1>12. Books' /\ DOMAIN v1' = DOMAIN v1 /\ Follows(v1, v1')
  BY <1>5, <1>6, <1>10, <1>11, PaysKeeps
<1>13. Paper!Waiting(one, left, v2) \subseteq DOMAIN v1'
  BY <1>3, <1>6, <1>12 DEF Paper!Waiting, Staged
<1>14. Staged' /\ v9'.stage # "pairs"
  BY <1>5, <1>13, Sweeps
<1>15. Paper!TickUnderLimit'
  BY <1>14 DEF Paper!TickUnderLimit
<1>16. PaperSettings' /\ (v5.day = v7 /\ v7' = v7 => v5' = v5)
  <2>1. v2' \in [Paper!Symbols -> PaperPrices \cup {0}] /\ v4' \in BOOLEAN /\ v6' \in Int
    BY <1>5, <1>6 DEF PaperSettings
  <2>. QED BY <1>5, <1>6, <2>1, SameDay DEF Asked
<1>. QED BY <1>12, <1>14, <1>15, <1>16 DEF DeskKept

LEMMA CloseKeeps ==
  ASSUME Account, NEW s \in Paper!Symbols, NEW p \in PaperPrices, Paper!ManualClose(s, p)
  PROVE  DeskKept
<1>1. PICK i \in Paper!Open(v1) :
        \E after : /\ after = Paper!Settle(v1, i, p, "MANUAL") /\ v1' = after
                   /\ v3' = v3 + Paper!Gained(v1, after)
                   /\ v4' = (v4 \/ Paper!Breached(after, v6))
                   /\ IF v4 THEN UNCHANGED v5 ELSE Paper!Remember(v6)
                   /\ v9' = [v9 EXCEPT !.overtaken = @ \/ (v9.stage = "pairs" /\ after[i].pnl < 0)]
                   /\ UNCHANGED <<v2, v6, v7, v8>>
  <2> HIDE DEF Paper!Settle, Paper!Gained, Paper!Breached, Paper!Remember, Paper!Open
  <2>. QED BY DEF Paper!ManualClose
<1>2. PICK after : /\ after = Paper!Settle(v1, i, p, "MANUAL") /\ v1' = after
                   /\ v3' = v3 + Paper!Gained(v1, after)
                   /\ v4' = (v4 \/ Paper!Breached(after, v6))
                   /\ IF v4 THEN UNCHANGED v5 ELSE Paper!Remember(v6)
                   /\ v9' = [v9 EXCEPT !.overtaken = @ \/ (v9.stage = "pairs" /\ after[i].pnl < 0)]
                   /\ UNCHANGED <<v2, v6, v7, v8>>
  BY <1>1
<1>3. Books /\ PaperSettings /\ Staged /\ v6 \in Int /\ v4 \in BOOLEAN
  BY DEF Account, PaperSettings
<1>4. v1 \in Seq(Paper!Trade) /\ Timed /\ Dated(v1) /\ i \in DOMAIN v1
  BY <1>3, BooksTyped, RowsAre
<1>5. Follows(v1, after) /\ \A j \in DOMAIN v1 : j # i => after[j] = v1[j]
  <2>1. p \in Int /\ "MANUAL" \in ExitReasons
    BY PaperAssumption DEF ExitReasons
  <2>. QED BY <1>2, <1>4, <2>1, SettleFollows
<1>6. Pays(after)
  BY <1>2, <1>5 DEF Pays
<1>7. Books' /\ DOMAIN v1' = DOMAIN v1 /\ Follows(v1, v1')
  BY <1>2, <1>3, <1>5, <1>6, PaysKeeps
<1>8. Asked(v6)
  BY <1>2 DEF Asked
<1>9. PaperSettings' /\ (v5.day = v7 /\ v7' = v7 => v5' = v5)
  <2>1. v2' \in [Paper!Symbols -> PaperPrices \cup {0}] /\ v6' \in Int
    BY <1>2, <1>3 DEF PaperSettings
  <2>2. v4' \in BOOLEAN
    BY <1>2, <1>3 DEF Paper!Breached
  <2>. QED BY <1>2, <1>3, <1>8, <2>1, <2>2, SameDay
<1>10. PICK lost : lost = (v9.stage = "pairs" /\ after[i].pnl < 0)
  OBVIOUS
<1>11. v9' = [v9 EXCEPT !.overtaken = v9.overtaken \/ lost] /\ lost \in BOOLEAN
  BY <1>2, <1>3, <1>10 DEF Staged
<1>12. Staged'
  BY <1>3, <1>7, <1>11 DEF Staged
<1>13. Paper!TickUnderLimit'
  <2>1. SUFFICES ASSUME v9'.stage = "pairs", ~v9'.overtaken
                 PROVE  ~v4' /\ ~Paper!Breached(v1, v6)'
    BY DEF Paper!TickUnderLimit
  <2>2. v9.stage = "pairs" /\ ~v9.overtaken /\ ~lost
    BY <1>3, <1>11, <2>1 DEF Staged
  <2>3. ~v4 /\ ~Paper!Breached(v1, v6)
    BY <2>2 DEF Account, Paper!TickUnderLimit
  <2>4. after[i].pnl >= 0
    <3>1. after[i].pnl \in Int
      BY <1>4, <1>5, RowsAre, TradeFields DEF Follows
    <3>2. ~(after[i].pnl < 0)
      BY <1>10, <2>2
    <3>. QED BY <3>1, <3>2
  <2>5. \A j \in Settled(v1, after) : after[j].pnl >= 0
    <3>1. \A j \in Settled(v1, after) : j = i
      <4>1. DOMAIN after = DOMAIN v1
        BY <1>5 DEF Follows
      <4>. QED BY <1>5, <4>1 DEF Settled, Paper!Open
    <3>. QED BY <2>4, <3>1
  <2>6. /\ Paper!RealisedPnlToday(after) >= Paper!RealisedPnlToday(v1)
        /\ Paper!RealisedPnlToday(after) \in Int /\ Paper!RealisedPnlToday(v1) \in Int
    BY <1>4, <1>5, <2>5, WithoutLoss
  <2>7. ~Paper!Breached(v1, v6)' /\ ~Paper!Breached(after, v6)
    BY <1>2, <1>3, <1>4, <1>8, <2>3, <2>6, StaysUnder
  <2>. QED BY <1>2, <2>3, <2>7
<1>. QED BY <1>7, <1>9, <1>12, <1>13 DEF DeskKept
-----------------------------------------------------------------------------
(* An entry.  It closes nothing, so what this life and the day made stay.  *)
LEMMA EntryMakesNothing ==
  ASSUME NEW t \in Seq(Paper!Trade), NEW r \in Paper!Trade, r.closedOn = 0, r.life = 0, Timed,
         NEW u, u = Append(t, r)
  PROVE  /\ MadeNow(u) = MadeNow(t) /\ Paper!RealisedPnlToday(u) = Paper!RealisedPnlToday(t)
         /\ Paper!RealisedPnlToday(t) \in Int /\ u \in Seq(Paper!Trade)
<1>1. PICK V : V = Paper!Trade
  OBVIOUS
<1>2. PICK n \in Nat : n = Len(t) /\ DOMAIN t = 1 .. n
  OBVIOUS
<1>3. u \in Seq(V) /\ DOMAIN u = 1 .. n + 1 /\ u[n + 1] = r /\ \A i \in 1 .. n : u[i] = t[i]
  BY <1>1, <1>2
<1>4. DOMAIN t \subseteq DOMAIN u /\ n + 1 \notin DOMAIN t /\ DOMAIN u = DOMAIN t \cup {n + 1}
  BY <1>2, <1>3
<1>5. ThisLife(u) = ThisLife(t) /\ ClosedToday(u) = ClosedToday(t)
  BY <1>2, <1>3, <1>4 DEF ThisLife, ClosedToday, Timed
<1>6. ASSUME NEW S \in SUBSET (DOMAIN t) PROVE SumOf(MadeIn(u), S) = SumOf(MadeIn(t), S)
  <2>1. \A i \in S : MadeIn(u)[i] = MadeIn(t)[i]
    BY <1>2, <1>3, <1>4 DEF MadeIn
  <2>. QED BY <2>1, RowsAre, SumSame
<1>7. ThisLife(t) \in SUBSET (DOMAIN t) /\ ClosedToday(t) \in SUBSET (DOMAIN t)
  BY DEF ThisLife, ClosedToday
<1>8. MadeNow(u) = MadeNow(t)
  BY <1>5, <1>6, <1>7 DEF MadeNow
<1>9. Paper!RealisedPnlToday(u) = Paper!RealisedPnlToday(t) /\ Paper!RealisedPnlToday(t) \in Int
  BY <1>1, <1>3, <1>5, <1>6, <1>7, RealisedIs
<1>. QED BY <1>1, <1>3, <1>8, <1>9

Entered == /\ Books' /\ PaperSettings' /\ Staged' /\ Paper!TickUnderLimit'
           /\ UNCHANGED <<v4, v5, v6, v7>>
           /\ v1 \in Seq(Paper!Trade) /\ v1' \in Seq(Paper!Trade) /\ DOMAIN v1 \subseteq DOMAIN v1'
           /\ \A i \in DOMAIN v1 : v1'[i] = v1[i]
           /\ ~v9.overtaken => ~v4 /\ ~Paper!Breached(v1', v6)

LEMMA EntryKeeps ==
  ASSUME Account, NEW k \in DOMAIN PaperPairs, NEW side \in {"LONG", "SHORT"}, NEW price \in PaperPrices,
         Paper!TickEnters(k, side, price)
  PROVE  Entered
<1>1. PICK size : size = Paper!AssessRisk(v1, PaperPairs[k], price, v6)
  OBVIOUS
<1>2. PICK r : r = Paper!NewTrade(PaperPairs[k], side, size, price)
  OBVIOUS
<1>3. PICK u : u = Append(v1, r)
  OBVIOUS
<1>4. /\ v9.stage = "pairs" /\ size # 0 /\ Len(v1) < PaperTrades /\ v1' = u
      /\ v9' = [v9 EXCEPT !.next = k + 1] /\ UNCHANGED <<v2, v3, v4, v5, v6, v7, v8>>
  <2> HIDE DEF Paper!AssessRisk, Paper!NewTrade
  <2>. QED BY <1>1, <1>2, <1>3 DEF Paper!TickEnters
<1>5. Books /\ PaperSettings /\ Staged /\ v6 \in Int /\ v4 \in BOOLEAN
  BY DEF Account, PaperSettings
<1>6. v1 \in Seq(Paper!Trade) /\ Timed /\ Dated(v1) /\ Capped(v1)
  BY <1>5, BooksTyped
<1>7. PaperPairs[k] \in Paper!Symbols /\ price \in Nat \ {0} /\ price \in Nat
  BY PaperAssumption DEF Paper!Symbols, Paper!ToSet
<1>8. /\ size \in Nat /\ price * size \in Nat /\ price * size <= PaperPosition
      /\ Paper!Exposure(v1) + price * size <= PaperRiskCap
  BY <1>1, <1>4, <1>5, <1>6, <1>7, SizedUnderCaps
<1>9. r \in Paper!Trade /\ r.closedOn = 0 /\ r.life = 0 /\ r.size = size /\ r.entry = price
  BY <1>2, <1>7, <1>8, NewTradeIs
<1>10. /\ MadeNow(u) = MadeNow(v1) /\ Paper!RealisedPnlToday(u) = Paper!RealisedPnlToday(v1)
       /\ Paper!RealisedPnlToday(v1) \in Int /\ u \in Seq(Paper!Trade)
  BY <1>3, <1>6, <1>9, EntryMakesNothing
<1>11. PICK n \in Nat : n = Len(v1) /\ DOMAIN v1 = 1 .. n
  BY <1>6
<1>12. DOMAIN u = 1 .. n + 1 /\ Len(u) = n + 1 /\ u[n + 1] = r /\ \A i \in 1 .. n : u[i] = v1[i]
  <2>1. PICK V : V = Paper!Trade
    OBVIOUS
  <2>. QED BY <1>3, <1>6, <1>9, <1>11, <2>1
<1>13. DOMAIN v1 \subseteq DOMAIN u /\ DOMAIN u = DOMAIN v1 \cup {n + 1}
  BY <1>11, <1>12
<1>14. Capped(u)
  <2>1. Paper!Exposure(u) = Paper!Exposure(v1) + price * size
    BY <1>3, <1>6, <1>9, EntryCounts
  <2>2. size * price <= PaperPosition
    <3>1. PICK q \in Int : q = PaperPosition
      BY PaperAssumption
    <3>2. size * price = price * size
      BY <1>7, <1>8
    <3>. QED BY <1>8, <3>2
  <2>3. \A i \in DOMAIN u : u[i].size * u[i].entry <= PaperPosition
    BY <1>6, <1>9, <1>11, <1>12, <1>13, <2>2 DEF Capped
  <2>. QED BY <1>8, <2>1, <2>3 DEF Capped
<1>15. Dated(u)
  BY <1>6, <1>9, <1>11, <1>12, <1>13 DEF Dated, Timed
<1>16. Table(u)
  <2>1. Len(u) <= PaperTrades
    BY <1>4, <1>11, <1>12, PaperAssumption
  <2>. QED BY <1>10, <1>14, <1>15, <2>1 DEF Table
<1>17. Books'
  <2>1. Table(v1)' /\ MadeNow(v1)' = MadeNow(u)
    BY <1>4, <1>16, SameTable
  <2>2. Timed'
    BY <1>4, <1>6 DEF Timed
  <2>. QED BY <1>4, <1>5, <1>10, <2>1, <2>2 DEF Books
<1>18. PaperSettings'
  BY <1>4, <1>5 DEF PaperSettings, Paper!DayStartSound
<1>19. Staged'
  <2>1. k + 1 \in 0 .. Len(PaperPairs) + 1
    BY PaperAssumption
  <2>2. v9.left \subseteq DOMAIN v1'
    BY <1>4, <1>5, <1>13 DEF Staged
  <2>. QED BY <1>4, <1>5, <2>1, <2>2 DEF Staged
<1>20. ASSUME ~v9.overtaken
       PROVE  ~v4 /\ ~Paper!Breached(v1, v6)' /\ ~Paper!Breached(u, v6)
  <2>1. ~v4 /\ ~Paper!Breached(v1, v6)
    BY <1>4, <1>20 DEF Account, Paper!TickUnderLimit
  <2>2. Asked(v6)
    BY <1>4 DEF Asked
  <2>3. PICK made \in Int : made = Paper!RealisedPnlToday(v1)
    BY <1>10
  <2>4. made >= made
    OBVIOUS
  <2>. QED BY <1>4, <1>5, <1>6, <1>10, <2>1, <2>2, <2>3, <2>4, StaysUnder
<1>21. Paper!TickUnderLimit'
  BY <1>4, <1>5, <1>20 DEF Paper!TickUnderLimit, Staged
<1>. QED BY <1>4, <1>6, <1>10, <1>11, <1>12, <1>13, <1>17, <1>18, <1>19, <1>20, <1>21 DEF Entered
-----------------------------------------------------------------------------
(* Midnight, a restart, and the steps that leave the table.                *)
LEMMA MidnightKeeps ==
  ASSUME Account, Paper!Midnight
  PROVE  DeskKept
<1>1. /\ v7 + v8 < 2 + PaperTurns /\ v7' = v7 + 1 /\ UNCHANGED <<v1, v2, v3, v4, v5, v6, v8, v9>>
  BY DEF Paper!Midnight
<1>2. Books /\ PaperSettings /\ Staged
  BY DEF Account
<1>3. v1 \in Seq(Paper!Trade) /\ Timed /\ Dated(v1) /\ Capped(v1) /\ Table(v1)
  BY <1>2, BooksTyped
<1>4. PICK n \in Nat : n = PaperTurns
  BY PaperAssumption
<1>5. v7 \in 1 .. 1 + n /\ v8 \in 1 .. 1 + n /\ v7' \in 1 .. 1 + n
  BY <1>1, <1>2, <1>4 DEF PaperSettings
<1>6. \A i \in DOMAIN v1 : v1[i].closedOn \in Nat /\ v1[i].life \in Nat
  BY <1>3, RowsAre, TradeFields
<1>7. Books'
  <2>1. Dated(v1)'
    BY <1>1, <1>3, <1>5, <1>6 DEF Dated
  <2>2. Capped(v1)'
    BY <1>1, <1>3 DEF Capped, Paper!Exposure, Paper!Open
  <2>3. MadeNow(v1)' = MadeNow(v1)
    BY <1>1 DEF MadeNow, MadeIn, ThisLife
  <2>4. Timed'
    BY <1>1, <1>5 DEF Timed
  <2>. QED BY <1>1, <1>2, <1>3, <2>1, <2>2, <2>3, <2>4 DEF Books, Table
<1>8. v5 \in [day : Nat, equity : Int] /\ v5.day <= v7
  BY <1>2 DEF PaperSettings, Paper!DayStartSound
<1>9. PaperSettings'
  <2>1. Paper!DayStartSound'
    BY <1>1, <1>5, <1>8 DEF Paper!DayStartSound
  <2>. QED BY <1>1, <1>2, <1>4, <1>5, <2>1 DEF PaperSettings
<1>10. Staged'
  BY <1>1, <1>2 DEF Staged
<1>11. Paper!TickUnderLimit'
  <2>1. \A i \in DOMAIN v1 : v1[i].closedOn # v7'
    BY <1>1, <1>3, <1>5, <1>6 DEF Dated
  <2>2. Paper!RealisedPnlToday(v1)' = 0
    <3>1. {i \in DOMAIN v1 : v1[i].closedOn = v7'} = {}
      BY <2>1
    <3>2. Paper!RealisedPnlToday(v1)' = SumOf(MadeIn(v1), {i \in DOMAIN v1 : v1[i].closedOn = v7'})
      BY <1>1, PaperSums DEF Paper!RealisedPnlToday, MadeIn
    <3>3. Paper!RealisedPnlToday(v1)' = SumOf(MadeIn(v1), {})
      BY <3>1, <3>2
    <3>. QED BY <3>3, SumEmpty
  <2>3. ~Paper!Breached(v1, v6)'
    BY <2>2 DEF Paper!Breached
  <2>4. v9.stage = "pairs" /\ ~v9.overtaken => ~v4
    BY DEF Account, Paper!TickUnderLimit
  <2>. QED BY <1>1, <2>3, <2>4 DEF Paper!TickUnderLimit
<1>12. Follows(v1, v1')
  BY <1>1, <1>3, FollowsItself
<1>. QED BY <1>1, <1>5, <1>7, <1>9, <1>10, <1>11, <1>12 DEF DeskKept

LEMMA PaperRestarts ==
  ASSUME Account, Paper!Restart
  PROVE  DeskKept
<1>1. /\ v7 + v8 < 2 + PaperTurns /\ v8' = v8 + 1 /\ v2' = [s \in Paper!Symbols |-> 0]
      /\ v3' = 100 * PaperEquity /\ v4' = FALSE /\ v9' = Paper!Idle /\ UNCHANGED <<v1, v5, v6, v7>>
  BY DEF Paper!Restart
<1>2. Books /\ PaperSettings /\ Staged
  BY DEF Account
<1>3. v1 \in Seq(Paper!Trade) /\ Timed /\ Dated(v1) /\ Capped(v1) /\ Table(v1)
  BY <1>2, BooksTyped
<1>4. PICK n \in Nat : n = PaperTurns
  BY PaperAssumption
<1>5. v7 \in 1 .. 1 + n /\ v8 \in 1 .. 1 + n /\ v8' \in 1 .. 1 + n
  BY <1>1, <1>2, <1>4 DEF PaperSettings
<1>6. \A i \in DOMAIN v1 : v1[i].closedOn \in Nat /\ v1[i].life \in Nat
  BY <1>3, RowsAre, TradeFields
<1>7. MadeNow(v1)' = 0
  <2>1. \A i \in DOMAIN v1 : v1[i].life # v8'
    BY <1>1, <1>3, <1>5, <1>6 DEF Dated
  <2>2. MadeNow(v1)' = SumOf(MadeIn(v1), {i \in DOMAIN v1 : v1[i].life = v8'})
    BY <1>1 DEF MadeNow, MadeIn, ThisLife
  <2>3. {i \in DOMAIN v1 : v1[i].life = v8'} = {}
    BY <2>1
  <2>4. MadeNow(v1)' = SumOf(MadeIn(v1), {})
    BY <2>2, <2>3
  <2>. QED BY <2>4, SumEmpty
<1>8. Books'
  <2>1. Dated(v1)'
    BY <1>1, <1>3, <1>5, <1>6 DEF Dated
  <2>2. Capped(v1)'
    BY <1>1, <1>3 DEF Capped, Paper!Exposure, Paper!Open
  <2>3. Timed'
    BY <1>1, <1>5 DEF Timed
  <2>4. PICK e \in Int : e = 100 * PaperEquity
    BY PaperAssumption
  <2>5. v3' = 100 * PaperEquity + MadeNow(v1)'
    BY <1>1, <1>7, <2>4
  <2>. QED BY <1>1, <1>3, <2>1, <2>2, <2>3, <2>5 DEF Books, Table
<1>9. PaperSettings'
  <2>1. v2' \in [Paper!Symbols -> PaperPrices \cup {0}]
    BY <1>1
  <2>2. Paper!DayStartSound'
    BY <1>1, <1>2 DEF PaperSettings, Paper!DayStartSound
  <2>. QED BY <1>1, <1>2, <1>4, <1>5, <2>1, <2>2 DEF PaperSettings
<1>10. v9' = [stage |-> "idle", next |-> 0, left |-> {}, overtaken |-> FALSE]
  BY <1>1, StartsIdle
<1>11. Staged'
  <2>1. Len(PaperPairs) \in Nat
    BY PaperAssumption
  <2>. QED BY <1>10, <2>1 DEF Staged
<1>12. Paper!TickUnderLimit'
  BY <1>10 DEF Paper!TickUnderLimit
<1>13. Follows(v1, v1')
  BY <1>1, <1>3, FollowsItself
<1>. QED BY <1>1, <1>8, <1>9, <1>11, <1>12, <1>13 DEF DeskKept

LEMMA QuietKeeps ==
  ASSUME Account,
         \/ \E s \in Paper!Symbols, p \in PaperPrices : Paper!MarkMoves(s, p)
         \/ Paper!TickEnds \/ Paper!StatusRead \/ Paper!Reset
  PROVE  DeskKept
<1>1. Books /\ PaperSettings /\ Staged /\ Paper!TickUnderLimit /\ v6 \in Int /\ v4 \in BOOLEAN
      /\ v2 \in [Paper!Symbols -> PaperPrices \cup {0}]
  BY DEF Account, PaperSettings
<1>2. UNCHANGED <<v1, v3, v6, v7, v8>>
  BY DEF Paper!MarkMoves, Paper!TickEnds, Paper!StatusRead, Paper!Reset
<1>3. Books' /\ Follows(v1, v1')
  BY <1>1, <1>2, SamePays
<1>4. Asked(v6)
  BY DEF Asked, Paper!MarkMoves, Paper!TickEnds, Paper!StatusRead, Paper!Reset
<1>5. v2' \in [Paper!Symbols -> PaperPrices \cup {0}]
  <2>1. ASSUME NEW s \in Paper!Symbols, NEW p \in PaperPrices, Paper!MarkMoves(s, p)
        PROVE  v2' \in [Paper!Symbols -> PaperPrices \cup {0}]
    <3>1. PICK M : M = PaperPrices \cup {0}
      OBVIOUS
    <3>2. v2' = [v2 EXCEPT ![s] = p] /\ v2 \in [Paper!Symbols -> M] /\ p \in M
      BY <1>1, <2>1, <3>1 DEF Paper!MarkMoves
    <3>3. v2' \in [Paper!Symbols -> M]
      BY <3>2
    <3>. QED BY <3>1, <3>3
  <2>2. CASE Paper!TickEnds \/ Paper!StatusRead \/ Paper!Reset
    BY <1>1, <2>2 DEF Paper!TickEnds, Paper!StatusRead, Paper!Reset
  <2>. QED BY <2>1, <2>2
<1>6. v4' \in BOOLEAN /\ (v4' => v4)
  <2>1. v4' = v4 \/ v4' = FALSE
    BY DEF Paper!MarkMoves, Paper!TickEnds, Paper!StatusRead, Paper!Reset
  <2>2. CASE v4' = v4
    BY <1>1, <2>2
  <2>3. CASE v4' = FALSE
    BY <2>3
  <2>. QED BY <2>1, <2>2, <2>3
<1>7. PaperSettings' /\ (v5.day = v7 /\ v7' = v7 => v5' = v5)
  BY <1>1, <1>2, <1>4, <1>5, <1>6, SameDay
<1>8. v9' = v9 \/ v9' = Paper!Idle
  BY DEF Paper!MarkMoves, Paper!TickEnds, Paper!StatusRead, Paper!Reset
<1>9. CASE v9' = v9
  <2>1. Staged'
    BY <1>1, <1>2, <1>9 DEF Staged
  <2>2. Paper!TickUnderLimit'
    <3>1. SUFFICES ASSUME v9.stage = "pairs", ~v9.overtaken
                   PROVE  ~v4' /\ ~Paper!Breached(v1, v6)'
      BY <1>9 DEF Paper!TickUnderLimit
    <3>2. ~v4 /\ ~Paper!Breached(v1, v6)
      BY <1>1, <3>1 DEF Paper!TickUnderLimit
    <3>3. v1 \in Seq(Paper!Trade)
      BY <1>1, BooksTyped
    <3>4. PICK made \in Int : made = Paper!RealisedPnlToday(v1)
      BY <3>3, RealisedIs
    <3>5. made >= made
      OBVIOUS
    <3>6. ~Paper!Breached(v1, v6)'
      BY <1>1, <1>2, <1>4, <3>2, <3>3, <3>4, <3>5, StaysUnder
    <3>. QED BY <1>6, <3>2, <3>6
  <2>. QED BY <1>3, <1>7, <2>1, <2>2 DEF DeskKept
<1>10. CASE v9' = Paper!Idle
  <2>1. v9' = [stage |-> "idle", next |-> 0, left |-> {}, overtaken |-> FALSE]
    BY <1>10, StartsIdle
  <2>2. Staged'
    <3>1. Len(PaperPairs) \in Nat
      BY PaperAssumption
    <3>. QED BY <2>1, <3>1 DEF Staged
  <2>3. Paper!TickUnderLimit'
    BY <2>1 DEF Paper!TickUnderLimit
  <2>. QED BY <1>3, <1>7, <2>2, <2>3 DEF DeskKept
<1>. QED BY <1>8, <1>9, <1>10
-----------------------------------------------------------------------------
LEMMA PaperMoves == ASSUME Account, Paper!Next PROVE DeskKept \/ Entered
<1>1. ASSUME NEW p \in PaperPrices \cup {0}, Paper!PriceComes(p) \/ Paper!SweepGoesOn(p) PROVE DeskKept
  BY <1>1, PriceKeeps, SweepKeeps
<1>2. ASSUME NEW s \in Paper!Symbols, NEW p \in PaperPrices, Paper!ManualClose(s, p) PROVE DeskKept
  BY <1>2, CloseKeeps
<1>3. ASSUME NEW k \in DOMAIN PaperPairs, NEW side \in PaperSignals[PaperPairs[k]], NEW p \in PaperPrices,
             Paper!TickEnters(k, side, p)
      PROVE  Entered
  <2>1. side \in {"LONG", "SHORT"}
    BY PaperAssumption
  <2>. QED BY <1>3, <2>1, EntryKeeps
<1>4. CASE \/ \E s \in Paper!Symbols, p \in PaperPrices : Paper!MarkMoves(s, p)
           \/ Paper!TickEnds \/ Paper!StatusRead \/ Paper!Reset
  <2> HIDE DEF Paper!MarkMoves
  <2>. QED BY <1>4, QuietKeeps
<1>5. CASE Paper!TickStarts \/ Paper!Midnight \/ Paper!Restart
  BY <1>5, TickStartKeeps, MidnightKeeps, PaperRestarts
<1> HIDE DEF Paper!MarkMoves, Paper!ManualClose, Paper!TickEnters, Paper!PriceComes, Paper!SweepGoesOn
<1>. QED BY <1>1, <1>2, <1>3, <1>4, <1>5 DEF Paper!Next

LEMMA PaperSteps == ASSUME Paper!PaperInv, Paper!Next PROVE Paper!PaperInv'
<1>1. Account
  BY AccountIs
<1>2. Account'
  BY <1>1, PaperMoves DEF DeskKept, Entered, Account
<1>3. Paper!PaperInv' <=> Account'
  BY AccountIs, PTL
<1>. QED BY <1>2, <1>3

LEMMA PaperStays == ASSUME Paper!PaperInv, UNCHANGED Paper!deskVars PROVE Paper!PaperInv'
  BY DEF Paper!PaperInv, Paper!deskVars, Paper!TypeOk, Paper!DayStartSound, Paper!BooksBalance,
         Paper!TickUnderLimit, Paper!Breached, Paper!RealisedPnlToday, Paper!DayStartEquity,
         Paper!Exposure, Paper!Open

LEMMA PaperPrudent == ASSUME Paper!PaperInv, Paper!Next PROVE Paper!Prudent
<1>1. Account /\ v1 \in Seq(Paper!Trade)
  BY AccountIs, BooksTyped DEF Account
<1>2. CASE DeskKept
  <2>1. Follows(v1, v1') /\ (v5.day = v7 /\ v7' = v7 => v5' = v5)
    BY <1>2 DEF DeskKept
  <2>2. \A i \in Paper!Open(v1) :
          IF v1[i].side = "LONG" THEN v1'[i].stop >= v1[i].stop ELSE v1'[i].stop <= v1[i].stop
    BY <1>1, <2>1, RowsAre DEF Follows, RowFollows, Tighter
  <2>3. \A i \in DOMAIN v1 \ Paper!Open(v1) : v1'[i] = v1[i]
    BY <2>1 DEF Follows, RowFollows, Paper!Open
  <2>4. ~(Len(v1') > Len(v1))
    <3>1. Len(v1) \in Nat /\ Len(v1') = Len(v1)
      BY <1>1, <2>1 DEF Follows
    <3>. QED BY <3>1
  <2>. QED BY <2>1, <2>2, <2>3, <2>4 DEF Paper!Prudent
<1>3. CASE Entered
  <2>1. \A i \in Paper!Open(v1) : v1'[i] = v1[i] /\ v1[i].stop \in Int
    BY <1>1, <1>3, RowsAre, TradeFields DEF Entered
  <2>2. \A i \in Paper!Open(v1) :
          IF v1[i].side = "LONG" THEN v1'[i].stop >= v1[i].stop ELSE v1'[i].stop <= v1[i].stop
    BY <2>1
  <2>3. \A i \in DOMAIN v1 \ Paper!Open(v1) : v1'[i] = v1[i]
    BY <1>3 DEF Entered
  <2>4. ASSUME ~v9.overtaken PROVE ~v4 /\ Paper!BelowLimit(v1')
    <3>1. ~v4 /\ ~Paper!Breached(v1', v6)
      BY <1>3, <2>4 DEF Entered
    <3>2. ASSUME v5.day = v7, Paper!RealisedPnlToday(v1') < 0
          PROVE  -Paper!RealisedPnlToday(v1') * 100 < PaperDailyLoss * v5.equity
      <4>1. v5.equity \in Int /\ v5.equity > 0
        BY <1>1, <3>2 DEF Account, PaperSettings, Paper!DayStartSound
      <4>2. PICK made \in Int : made = Paper!RealisedPnlToday(v1')
        BY <1>3, RealisedIs DEF Entered
      <4>3. PICK limit \in Int : limit = PaperDailyLoss * v5.equity
        BY <4>1, PaperAssumption
      <4>4. ~(-made * 100 >= limit)
        BY <3>1, <3>2, <4>1, <4>2, <4>3 DEF Paper!Breached, Paper!DayStartEquity
      <4>. QED BY <4>2, <4>3, <4>4
    <3>3. Paper!BelowLimit(v1') <=>
            (Paper!RealisedPnlToday(v1') < 0 /\ v5.day = v7
               => -Paper!RealisedPnlToday(v1') * 100 < PaperDailyLoss * v5.equity)
      BY DEF Paper!BelowLimit
    <3>. QED BY <3>1, <3>2, <3>3
  <2>5. v5' = v5
    BY <1>3 DEF Entered
  <2>6. Len(v1') > Len(v1) /\ ~v9.overtaken => ~v4 /\ Paper!BelowLimit(v1')
    BY <2>4
  <2>7. Paper!BelowLimit(v1)' = Paper!BelowLimit(v1')
    BY <1>3 DEF Entered, Paper!BelowLimit, Paper!RealisedPnlToday
  <2>. QED BY <2>2, <2>3, <2>5, <2>6, <2>7 DEF Paper!Prudent
<1>. QED BY <1>1, <1>2, <1>3, PaperMoves
-----------------------------------------------------------------------------
(* The market data service: the store, the ingestion's books and tickers,  *)
(* and what the last reader was shown.                                     *)
Fresh(f) == f.bookFresh <=> f.micro # None

Stored == /\ v5 \in [TopSymbols -> Market!Features \cup {None}]
          /\ \A s \in TopSymbols : v5[s] # None => Fresh(v5[s])

Ingesting == /\ v1 \in BOOLEAN /\ v2 \in SUBSET TopSymbols /\ v7 \in SUBSET TopSymbols
             /\ v3 \in [TopSymbols -> [status : {"EMPTY", "HEALTHY", "STALE"}, top : TopBooks \cup {None}]]
             /\ v4 \in [TopSymbols -> [last : TopPrices, mark : TopPrices] \cup {None}]
             /\ v8 \in 0 .. TopChanges

Current == v1 => \A s \in v2 \ v7 : v3[s].status = "HEALTHY" => v5[s] # None /\ v5[s].micro = v3[s].top

Told == v6 # None /\ v6.running => \A s \in v6.of :
          /\ v6.books[s].status # "HEALTHY" => v6.micro[s] = None
          /\ v6.books[s].status = "HEALTHY" /\ s \notin v6.mixed => v6.micro[s] = v6.books[s].top

Reading == Stored /\ Ingesting /\ Current /\ Told

LEMMA FeatureFields ==
  ASSUME NEW f \in Market!Features
  PROVE  /\ f.micro \in TopBooks \cup {None} /\ f.bookFresh \in BOOLEAN /\ f # None
  BY MarketAssumption DEF Market!Features

LEMMA TickersKeepPrices ==
  ASSUME v4 \in [TopSymbols -> [last : TopPrices, mark : TopPrices] \cup {None}], NEW s \in TopSymbols, v4[s] # None
  PROVE  v4[s].last # None /\ v4[s].mark # None
<1>1. v4[s] \in [last : TopPrices, mark : TopPrices]
  OBVIOUS
<1>. QED BY <1>1, MarketAssumption

LEMMA ReadingIs == Market!MarketInv <=> Reading
<1>1. ASSUME Market!MarketInv PROVE Reading
  <2>1. v2 \in SUBSET TopSymbols /\ v7 \in SUBSET TopSymbols /\ v1 \in BOOLEAN
    BY <1>1 DEF Market!MarketInv, Market!TypeOk
  <2>. QED
    BY <1>1, <2>1 DEF Market!MarketInv, Market!TypeOk, Market!FreshOrBlank, Reading, Stored, Ingesting, Current, Told, Fresh
<1>2. ASSUME Reading PROVE Market!MarketInv
  <2>1. ASSUME NEW s \in TopSymbols, v5[s] # None
        PROVE  v5[s].micro \in TopBooks \cup {None} /\ v5[s].bookFresh \in BOOLEAN
    <3>1. v5[s] \in Market!Features
      BY <1>2, <2>1 DEF Reading, Stored
    <3>. QED BY <3>1, FeatureFields
  <2>2. v2 \subseteq TopSymbols /\ v7 \subseteq TopSymbols
    BY <1>2 DEF Reading, Ingesting
  <2>3. Market!TypeOk
    BY <1>2, <2>1, <2>2 DEF Reading, Ingesting, Market!TypeOk
  <2>4. \A s \in v2 : v4[s] # None => v4[s].last # None /\ v4[s].mark # None
    BY <1>2, <2>2, TickersKeepPrices DEF Reading, Ingesting
  <2>5. Market!FreshOrBlank
    BY <1>2, <2>4 DEF Reading, Stored, Told, Fresh, Market!FreshOrBlank
  <2>. QED
    BY <1>2, <2>3, <2>5 DEF Reading, Stored, Ingesting, Current, Market!MarketInv
<1>. QED BY <1>1, <1>2

LEMMA MarketStarts == ASSUME Market!Init PROVE Market!MarketInv
<1>1. Reading
  <2>1. Stored /\ Told /\ Current
    BY DEF Market!Init, Stored, Told, Current
  <2>2. v1 = FALSE /\ v2 = {} /\ v7 = {} /\ v8 = 0 /\ TopChanges \in Nat
    BY MarketAssumption DEF Market!Init
  <2>3. v1 \in BOOLEAN
    BY <2>2
  <2>4. v8 \in 0 .. TopChanges
    BY <2>2
  <2>5. Ingesting
    BY <2>2, <2>3, <2>4 DEF Market!Init, Market!EmptyBook, Ingesting
  <2>. QED BY <2>1, <2>5 DEF Reading
<1>. QED BY <1>1, ReadingIs

(* What the handlers write to the store is of its type and fresh together. *)
LEMMA EnsuredIs ==
  ASSUME Stored, NEW s \in TopSymbols
  PROVE  Market!Ensured(s) \in Market!Features /\ Fresh(Market!Ensured(s))
<1>1. CASE v5[s] = None
  <2>1. Market!Ensured(s) = Market!NoFeatures
    BY <1>1 DEF Market!Ensured
  <2>2. Market!NoFeatures \in Market!Features
    BY DEF Market!NoFeatures, Market!Features
  <2>3. Fresh(Market!NoFeatures)
    BY DEF Fresh, Market!NoFeatures
  <2>. QED BY <2>1, <2>2, <2>3
<1>2. CASE v5[s] # None
  BY <1>2 DEF Market!Ensured, Stored
<1>. QED BY <1>1, <1>2

LEMMA Written ==
  ASSUME Stored, NEW s \in TopSymbols, NEW f \in Market!Features, Fresh(f), v5' = [v5 EXCEPT ![s] = f]
  PROVE  Stored' /\ v5'[s] = f /\ f # None /\ \A t \in TopSymbols : t # s => v5'[t] = v5[t]
<1>1. v5 \in [TopSymbols -> Market!Features \cup {None}]
  BY DEF Stored
<1>2. v5' \in [TopSymbols -> Market!Features \cup {None}]
  BY <1>1
<1>3. v5'[s] = f /\ \A t \in TopSymbols : t # s => v5'[t] = v5[t]
  BY <1>1
<1>4. \A t \in TopSymbols : v5'[t] # None => Fresh(v5'[t])
  BY <1>3 DEF Stored
<1>5. \A t \in TopSymbols : v5'[t] # None => Fresh(v5[t])'
  BY <1>4 DEF Fresh
<1>. QED BY <1>2, <1>3, <1>5, FeatureFields DEF Stored

LEMMA OnBookWrites ==
  ASSUME Stored, NEW s \in TopSymbols, NEW top \in TopBooks, Market!OnBook(s, top)
  PROVE  Stored' /\ v5'[s] # None /\ v5'[s].micro = top /\ \A t \in TopSymbols : t # s => v5'[t] = v5[t]
<1>1. PICK f : f = [Market!Ensured(s) EXCEPT !.micro = top, !.bookFresh = TRUE]
  OBVIOUS
<1>2. f \in Market!Features /\ f.micro = top /\ f.bookFresh = TRUE
  BY <1>1, EnsuredIs DEF Market!Features
<1>3. Fresh(f)
  BY <1>2, MarketAssumption DEF Fresh
<1>4. v5' = [v5 EXCEPT ![s] = f]
  BY <1>1 DEF Market!OnBook
<1>. QED BY <1>2, <1>3, <1>4, Written

(* A price or a bar leaves the figures of the book.                        *)
Beside(s) ==
  /\ Stored' /\ v5'[s] # None /\ (v5[s] # None => v5'[s].micro = v5[s].micro)
  /\ \A t \in TopSymbols : t # s => v5'[t] = v5[t]

LEMMA OnPriceWrites ==
  ASSUME Stored, NEW s \in TopSymbols, NEW p \in TopPrices, Market!OnPrice(s, p)
  PROVE  Beside(s)
<1>1. PICK e \in Market!Features : e = Market!Ensured(s) /\ Fresh(e)
  BY EnsuredIs
<1>2. PICK f : f = [e EXCEPT !.lastPrice = p]
  OBVIOUS
<1>3. f \in Market!Features /\ f.micro = e.micro /\ f.bookFresh = e.bookFresh
  BY <1>2 DEF Market!Features
<1>4. Fresh(f)
  BY <1>1, <1>3 DEF Fresh
<1>5. v5' = [v5 EXCEPT ![s] = f]
  BY <1>1, <1>2 DEF Market!OnPrice
<1>6. v5[s] # None => e = v5[s]
  BY <1>1 DEF Market!Ensured
<1>. QED BY <1>3, <1>4, <1>5, <1>6, Written DEF Beside

LEMMA OnBarWrites ==
  ASSUME Stored, NEW s \in TopSymbols, Market!OnBar(s)
  PROVE  Beside(s)
<1>1. PICK e \in Market!Features : e = Market!Ensured(s) /\ Fresh(e)
  BY EnsuredIs
<1>2. PICK f : f = [e EXCEPT !.bars = @ + 1]
  OBVIOUS
<1>3. f \in Market!Features /\ f.micro = e.micro /\ f.bookFresh = e.bookFresh
  BY <1>2 DEF Market!Features
<1>4. Fresh(f)
  BY <1>1, <1>3 DEF Fresh
<1>5. v5' = [v5 EXCEPT ![s] = f]
  BY <1>1, <1>2 DEF Market!OnBar
<1>6. v5[s] # None => e = v5[s]
  BY <1>1 DEF Market!Ensured
<1>. QED BY <1>3, <1>4, <1>5, <1>6, Written DEF Beside

LEMMA BesideKeeps ==
  ASSUME Reading, NEW s \in TopSymbols, Beside(s), UNCHANGED <<v1, v2, v3, v6, v7>>, Ingesting'
  PROVE  Reading'
<1>1. Current'
  <2>1. v2 \in SUBSET TopSymbols
    BY DEF Reading, Ingesting
  <2>. QED BY <2>1 DEF Reading, Current, Beside
<1>2. Told' /\ Stored'
  BY DEF Reading, Told, Beside
<1>. QED BY <1>1, <1>2 DEF Reading

LEMMA TickerIs ==
  ASSUME v4 \in [TopSymbols -> [last : TopPrices, mark : TopPrices] \cup {None}], NEW s \in TopSymbols,
         NEW last \in TopPrices \cup {None}, NEW mark \in TopPrices \cup {None},
         NEW event, event = Market!NormaliseTicker(last, mark, v4[s]), event # None
  PROVE  event \in [last : TopPrices, mark : TopPrices] /\ event.last \in TopPrices
<1>1. PICK l : l = IF last # None THEN last ELSE IF v4[s] # None THEN v4[s].last ELSE None
  OBVIOUS
<1>2. PICK m : m = IF mark # None THEN mark ELSE IF v4[s] # None THEN v4[s].mark ELSE l
  OBVIOUS
<1>3. event = IF l = None THEN None ELSE [last |-> l, mark |-> m]
  BY <1>1, <1>2 DEF Market!NormaliseTicker
<1>4. v4[s] # None => v4[s].last \in TopPrices /\ v4[s].mark \in TopPrices
  <2>1. v4[s] # None => v4[s] \in [last : TopPrices, mark : TopPrices]
    OBVIOUS
  <2>. QED BY <2>1
<1>5. l # None
  BY <1>3
<1>6. l \in TopPrices
  BY <1>1, <1>4, <1>5
<1>7. m \in TopPrices
  BY <1>2, <1>4, <1>6
<1>. QED BY <1>3, <1>5, <1>6, <1>7

LEMMA MarketSteps == ASSUME Market!MarketInv, Market!Next PROVE Market!MarketInv'
<1>1. Reading
  BY ReadingIs
<1>2. Stored /\ Ingesting /\ Current /\ Told
  BY <1>1 DEF Reading
<1>3. TopChanges \in Nat /\ v8 \in 0 .. TopChanges /\ v1 \in BOOLEAN
  BY <1>2, MarketAssumption DEF Ingesting
<1>4. Market!Changed => v8' \in 0 .. TopChanges
  BY <1>3 DEF Market!Changed
<1>5. ASSUME NEW symbols \in SUBSET TopSymbols, Market!Start(symbols) PROVE Reading'
  <2>1. Stored' /\ Told'
    BY <1>2, <1>5 DEF Market!Start, Stored, Told
  <2>2. CASE symbols = {}
    <3>1. v1' = FALSE /\ UNCHANGED <<v2, v3, v4, v7>>
      BY <1>5, <2>2 DEF Market!Start
    <3>2. v1' \in BOOLEAN
      BY <3>1
    <3>3. Ingesting'
      BY <1>2, <1>4, <1>5, <3>1, <3>2 DEF Market!Start, Ingesting
    <3>4. Current'
      BY <3>1 DEF Current
    <3>. QED BY <2>1, <3>3, <3>4 DEF Reading
  <2>3. CASE symbols # {}
    <3>1. /\ v1' = TRUE /\ v2' = symbols /\ v3' = [s \in TopSymbols |-> Market!EmptyBook]
          /\ v4' = [s \in TopSymbols |-> None] /\ UNCHANGED v7
      BY <1>5, <2>3 DEF Market!Start
    <3>2. v1' \in BOOLEAN
      BY <3>1
    <3>3. Ingesting'
      BY <1>2, <1>4, <1>5, <3>1, <3>2 DEF Market!Start, Ingesting, Market!EmptyBook
    <3>4. Current'
      BY <3>1 DEF Current, Market!EmptyBook
    <3>. QED BY <2>1, <3>3, <3>4 DEF Reading
  <2>. QED BY <2>2, <2>3
<1>6. ASSUME Market!Stop PROVE Reading'
  <2>1. v1' = FALSE /\ UNCHANGED <<v2, v3, v4, v5, v6, v7>> /\ Market!Changed
    BY <1>6 DEF Market!Stop
  <2>2. v1' \in BOOLEAN
    BY <2>1
  <2>. QED BY <1>2, <1>4, <2>1, <2>2 DEF Reading, Stored, Ingesting, Current, Told
<1>7. ASSUME Market!Snapshot PROVE Reading'
  <2>1. \A s \in TopSymbols : Market!MarkedStale(s) \in Market!Features /\ Market!MarkedStale(s).micro = None
                              /\ Fresh(Market!MarkedStale(s))
    BY <1>2, EnsuredIs DEF Market!MarkedStale, Market!Features, Fresh
  <2>2. v5' = [s \in TopSymbols |-> Market!Synced(s)] /\ UNCHANGED <<v1, v2, v3, v4, v7, v8>>
    BY <1>7 DEF Market!Snapshot
  <2>3. \A s \in TopSymbols :
          v5'[s] = IF v1 /\ s \in v2 /\ v3[s].status # "HEALTHY" THEN Market!MarkedStale(s) ELSE v5[s]
    BY <2>2 DEF Market!Synced
  <2>4. v5' \in [TopSymbols -> Market!Features \cup {None}]
    BY <1>2, <2>1, <2>2, <2>3 DEF Stored
  <2>5. \A s \in TopSymbols : v5'[s] # None => Fresh(v5[s])'
    BY <1>2, <2>1, <2>3 DEF Stored, Fresh
  <2>6. Stored'
    BY <2>4, <2>5 DEF Stored
  <2>7. v2 \in SUBSET TopSymbols
    BY <1>2 DEF Ingesting
  <2>8. Ingesting' /\ Current'
    BY <1>2, <2>2, <2>3, <2>7 DEF Ingesting, Current
  <2>9. Told'
    <3>1. SUFFICES ASSUME v6' # None, v6'.running, NEW s \in v6'.of
                   PROVE  /\ v6'.books[s].status # "HEALTHY" => v6'.micro[s] = None
                          /\ v6'.books[s].status = "HEALTHY" /\ s \notin v6'.mixed => v6'.micro[s] = v6'.books[s].top
      BY DEF Told
    <3>2. v6' = [running |-> v1, of |-> v2,
                 books |-> [q \in TopSymbols |-> IF v1 THEN v3[q] ELSE Market!EmptyBook],
                 micro |-> [q \in TopSymbols |-> IF v5'[q] = None THEN None ELSE v5'[q].micro],
                 mixed |-> v7]
      BY <1>7 DEF Market!Snapshot
    <3>3. v6'.running = v1 /\ v6'.of = v2 /\ v6'.mixed = v7
      BY <3>2
    <3>4. v1 /\ s \in v2 /\ s \in TopSymbols
      BY <2>7, <3>1, <3>3
    <3>5. v6'.books[s] = v3[s] /\ v6'.micro[s] = IF v5'[s] = None THEN None ELSE v5'[s].micro
      BY <3>2, <3>4
    <3>6. CASE v3[s].status # "HEALTHY"
      BY <2>1, <2>3, <3>4, <3>5, <3>6
    <3>7. CASE v3[s].status = "HEALTHY"
      BY <1>2, <2>3, <3>3, <3>4, <3>5, <3>7 DEF Current
    <3>. QED BY <3>6, <3>7
  <2>. QED BY <2>6, <2>8, <2>9 DEF Reading
<1>8. ASSUME NEW s \in TopSymbols, NEW top \in TopBooks, Market!BookApplied(s, top) PROVE Reading'
  <2>1. /\ Market!OnBook(s, top) /\ v7' = v7 \ {s} /\ UNCHANGED <<v1, v2, v4, v6>> /\ Market!Changed
        /\ v3' = [v3 EXCEPT ![s] = [status |-> "HEALTHY", top |-> top]]
    BY <1>8 DEF Market!BookApplied
  <2>2. Stored' /\ v5'[s] # None /\ v5'[s].micro = top /\ \A t \in TopSymbols : t # s => v5'[t] = v5[t]
    BY <1>2, <2>1, OnBookWrites
  <2>3. Ingesting'
    BY <1>2, <1>4, <2>1 DEF Ingesting
  <2>4. v2 \in SUBSET TopSymbols /\ v3'[s].top = top /\ \A t \in TopSymbols : t # s => v3'[t] = v3[t]
    BY <1>2, <2>1 DEF Ingesting
  <2>5. Current'
    BY <1>2, <2>1, <2>2, <2>4 DEF Current
  <2>. QED BY <1>2, <2>1, <2>2, <2>3, <2>5 DEF Reading, Told
<1>9. ASSUME NEW s \in TopSymbols, Market!BookInvalidated(s) PROVE Reading'
  <2>1. v3' = [v3 EXCEPT ![s].status = "STALE"] /\ UNCHANGED <<v1, v2, v4, v5, v6, v7>> /\ Market!Changed
    BY <1>9 DEF Market!BookInvalidated
  <2>2. Ingesting' /\ Current'
    BY <1>2, <1>4, <2>1 DEF Ingesting, Current
  <2>. QED BY <1>2, <2>1, <2>2 DEF Reading, Stored, Told
<1>10. ASSUME NEW s \in TopSymbols, NEW top \in TopBooks, Market!LateBook(s, top) PROVE Reading'
  <2>1. Market!OnBook(s, top) /\ v7' = v7 \cup {s} /\ UNCHANGED <<v1, v2, v3, v4, v6>> /\ Market!Changed
    BY <1>10 DEF Market!LateBook
  <2>2. Stored' /\ \A t \in TopSymbols : t # s => v5'[t] = v5[t]
    BY <1>2, <2>1, OnBookWrites
  <2>3. Ingesting' /\ v2 \in SUBSET TopSymbols
    BY <1>2, <1>4, <2>1 DEF Ingesting
  <2>4. Current'
    BY <1>2, <2>1, <2>2, <2>3 DEF Current
  <2>. QED BY <1>2, <2>1, <2>2, <2>3, <2>4 DEF Reading, Told
<1>11. ASSUME NEW s \in TopSymbols, NEW p \in TopPrices, Market!TradeEvent(s, p) PROVE Reading'
  <2>1. Market!OnPrice(s, p) /\ UNCHANGED <<v1, v2, v3, v4, v6, v7>> /\ Market!Changed
    BY <1>11 DEF Market!TradeEvent
  <2>2. Beside(s)
    BY <1>2, <2>1, OnPriceWrites
  <2>3. Ingesting'
    BY <1>2, <1>4, <2>1 DEF Ingesting
  <2>. QED BY <1>1, <2>1, <2>2, <2>3, BesideKeeps
<1>12. ASSUME NEW s \in TopSymbols, NEW last \in TopPrices \cup {None}, NEW mark \in TopPrices \cup {None},
              Market!TickerEvent(s, last, mark)
       PROVE  Reading'
  <2>1. PICK event : event = Market!NormaliseTicker(last, mark, v4[s])
    OBVIOUS
  <2>2. /\ event # None /\ v4' = [v4 EXCEPT ![s] = event] /\ Market!OnPrice(s, event.last)
        /\ UNCHANGED <<v1, v2, v3, v6, v7>> /\ Market!Changed
    BY <1>12, <2>1 DEF Market!TickerEvent
  <2>3. event \in [last : TopPrices, mark : TopPrices] /\ event.last \in TopPrices
    BY <1>2, <2>1, <2>2, TickerIs DEF Ingesting
  <2>4. Beside(s)
    BY <1>2, <2>2, <2>3, OnPriceWrites
  <2>5. Ingesting'
    BY <1>2, <1>4, <2>2, <2>3 DEF Ingesting
  <2>. QED BY <1>1, <2>2, <2>4, <2>5, BesideKeeps
<1>13. ASSUME NEW s \in TopSymbols, Market!KlineEvent(s) PROVE Reading'
  <2>1. Market!OnBar(s) /\ UNCHANGED <<v1, v2, v3, v4, v6, v7>> /\ Market!Changed
    BY <1>13 DEF Market!KlineEvent
  <2>2. Beside(s)
    BY <1>2, <2>1, OnBarWrites
  <2>3. Ingesting'
    BY <1>2, <1>4, <2>1 DEF Ingesting
  <2>. QED BY <1>1, <2>1, <2>2, <2>3, BesideKeeps
<1>14. Reading'
  BY <1>5, <1>6, <1>7, <1>8, <1>9, <1>10, <1>11, <1>12, <1>13 DEF Market!Next
<1>15. Market!MarketInv' <=> Reading'
  BY ReadingIs, PTL
<1>. QED BY <1>14, <1>15

LEMMA MarketStays == ASSUME Market!MarketInv, UNCHANGED Market!marketVars PROVE Market!MarketInv'
  BY DEF Market!MarketInv, Market!marketVars, Market!TypeOk, Market!FreshOrBlank
-----------------------------------------------------------------------------
(* The simulated broker: what it sends, as the engine's records take it.   *)
LEMMA SimOperators ==
  /\ \A order, event : Sim!ApplyOrderEvent(order, event) = ApplyOrderEvent(order, event)
  /\ \A side, qty : Sim!NewOrder(side, qty) = NewOrder(side, qty)
  /\ Sim!OrderRecord = OrderRecord /\ Sim!Sides = Sides /\ Sim!EventTypes = EventTypes
<1>1. \A order, event : Sim!ApplyOrderEvent(order, event) = ApplyOrderEvent(order, event)
  BY DEF Sim!ApplyOrderEvent, ApplyOrderEvent, Sim!IsTerminal, IsTerminal, Sim!TerminalStates, TerminalStates,
         Sim!Refused, Refused, Sim!Ignored, Ignored, Sim!Transition, Transition, Sim!ApplyFill, ApplyFill,
         Sim!CanTransition, CanTransition, Sim!Legal, Legal
<1>2. \A side, qty : Sim!NewOrder(side, qty) = NewOrder(side, qty)
  BY DEF Sim!NewOrder, NewOrder
<1>3. Sim!OrderRecord = OrderRecord
  BY DEF Sim!OrderRecord, OrderRecord, Sim!Sides, Sides, Sim!OrderStates, OrderStates
<1>4. Sim!Sides = Sides /\ Sim!EventTypes = EventTypes
  BY DEF Sim!Sides, Sides, Sim!EventTypes, EventTypes
<1>. QED BY <1>1, <1>2, <1>3, <1>4

LEMMA LegalTransition ==
  ASSUME NEW order \in OrderRecord, NEW to \in Legal[order.state], NEW filled
  PROVE  /\ Transition(order, to, filled).ok
         /\ Transition(order, to, filled).order =
              [side |-> order.side, qty |-> order.qty, filledQty |-> filled,
               state |-> to, revision |-> order.revision + 1]
  BY DEF Transition, CanTransition, OrderRecord

(* A record that was sent takes the acknowledgement, and then what ends it. *)
LEMMA AckIsTaken ==
  ASSUME NEW order \in OrderRecord, order.state = "SUBMITTED", NEW event, event.type = "ack", NEW next,
         next = ApplyOrderEvent(order, event)
  PROVE  /\ next.ok /\ next.order \in OrderRecord /\ next.order.state = "ACK"
         /\ next.order.qty = order.qty /\ next.order.filledQty = order.filledQty
<1>1. order.filledQty \in Nat /\ "ACK" \in OrderStates /\ "ACK" \in Legal[order.state]
  BY DEF OrderRecord, OrderStates, Legal
<1>2. next = Transition(order, "ACK", order.filledQty)
  BY DEF ApplyOrderEvent, IsTerminal, TerminalStates
<1>3. next.ok /\ next.order = [side |-> order.side, qty |-> order.qty, filledQty |-> order.filledQty,
                               state |-> "ACK", revision |-> order.revision + 1]
  BY <1>1, <1>2, LegalTransition
<1>4. next.order \in OrderRecord
  BY <1>1, <1>3 DEF OrderRecord
<1>. QED BY <1>3, <1>4

LEMMA EndIsTaken ==
  ASSUME NEW order \in OrderRecord, order.state \in {"SUBMITTED", "ACK"}, order.filledQty = 0,
         NEW event, event.type = "cancel" \/ (event.type = "fill" /\ event.qty = order.qty),
         NEW next, next = ApplyOrderEvent(order, event)
  PROVE  next.ok /\ next.order \in OrderRecord
<1>1. /\ order.side \in Sides /\ order.qty \in Nat \ {0} /\ order.filledQty \in Nat /\ order.revision \in Nat
      /\ order.qty > 0
  BY DEF OrderRecord
<1>2. ~IsTerminal(order.state) /\ {"FILLED", "CANCELLED"} \subseteq Legal[order.state]
  BY DEF IsTerminal, TerminalStates, Legal
<1>3. \E to \in {"FILLED", "CANCELLED"} : \E filled \in Nat : next = Transition(order, to, filled)
  <2>1. CASE event.type = "cancel"
    BY <1>1, <1>2, <2>1 DEF ApplyOrderEvent
  <2>2. CASE event.type = "fill" /\ event.qty = order.qty
    <3>1. next = ApplyFill(order, order.qty)
      BY <1>2, <2>2 DEF ApplyOrderEvent
    <3>2. order.filledQty + order.qty = order.qty
      BY <1>1
    <3>. QED BY <1>1, <3>1, <3>2 DEF ApplyFill
  <2>. QED BY <2>1, <2>2
<1>4. PICK to \in {"FILLED", "CANCELLED"}, filled \in Nat : next = Transition(order, to, filled)
  BY <1>3
<1>5. to \in OrderStates /\ to \in Legal[order.state]
  BY <1>2, <1>4 DEF OrderStates
<1>6. next.ok /\ next.order = [side |-> order.side, qty |-> order.qty, filledQty |-> filled,
                               state |-> to, revision |-> order.revision + 1]
  BY <1>4, <1>5, LegalTransition
<1>7. next.order \in OrderRecord
  BY <1>1, <1>5, <1>6 DEF OrderRecord
<1>. QED BY <1>6, <1>7

(* What the engine submits is sent, or turned down at once. *)
LEMMA SentIs ==
  ASSUME NEW side \in Sides, NEW qty \in Nat \ {0}
  PROVE  /\ Sim!Sent(side, qty) \in OrderRecord /\ Sim!Sent(side, qty).state = "SUBMITTED"
         /\ Sim!Sent(side, qty).qty = qty /\ Sim!Sent(side, qty).filledQty = 0
         /\ Sim!Turned(Sim!Sent(side, qty)) \in OrderRecord
<1>1. PICK event : event = [type |-> "submit", qty |-> 0]
  OBVIOUS
<1>2. PICK order : order = NewOrder(side, qty)
  OBVIOUS
<1>3. order \in OrderRecord /\ order.state = "NEW" /\ order.qty = qty /\ order.filledQty = 0
  BY <1>2 DEF NewOrder, OrderRecord, OrderStates
<1>4. PICK sent : sent = ApplyOrderEvent(order, event).order
  OBVIOUS
<1>5. "SUBMITTED" \in Legal[order.state] /\ "SUBMITTED" \in OrderStates
  BY <1>3 DEF Legal, OrderStates
<1>6. ApplyOrderEvent(order, event) = Transition(order, "SUBMITTED", order.filledQty)
  BY <1>1, <1>3 DEF ApplyOrderEvent, IsTerminal, TerminalStates
<1>7. sent.state = "SUBMITTED" /\ sent.qty = qty /\ sent.filledQty = 0
  <2>1. sent = [side |-> order.side, qty |-> order.qty, filledQty |-> order.filledQty,
                state |-> "SUBMITTED", revision |-> order.revision + 1]
    BY <1>3, <1>4, <1>5, <1>6, LegalTransition
  <2>. QED BY <1>3, <2>1
<1>8. event.type \in EventTypes /\ event.qty \in Int
  BY <1>1 DEF EventTypes
<1>9. sent \in OrderRecord
  BY <1>3, <1>4, <1>8, ApplyType
<1>10. PICK no : no = [type |-> "reject", qty |-> 0]
  OBVIOUS
<1>11. no.type \in EventTypes /\ no.qty \in Int
  BY <1>10 DEF EventTypes
<1>12. ApplyOrderEvent(sent, no).order \in OrderRecord
  BY <1>9, <1>11, ApplyType
<1>13. Sim!Sent(side, qty) = sent
  BY <1>1, <1>2, <1>4, SimOperators DEF Sim!Sent
<1>14. Sim!Turned(sent) = ApplyOrderEvent(sent, no).order
  BY <1>10, SimOperators DEF Sim!Turned
<1>. QED BY <1>7, <1>9, <1>12, <1>13, <1>14
-----------------------------------------------------------------------------
(* The parts of the invariant, over the records of this module. *)
Note == [id : SimOrders, event : [type : EventTypes, qty : Nat]]
Fate == [id : v4, at : Nat, how : {"sweep", "through", "queue"}]

Recorded == /\ v6 \in [SimOrders -> OrderRecord \cup {Sim!NoRecord}]
            /\ v4 \subseteq SimOrders /\ \A id \in v4 : v6[id] \in OrderRecord
Queueing == /\ v2 \subseteq Sim!Pendings /\ IsFiniteSet(v2)
            /\ v8 \in [SimOrders -> [at : Nat, queue : 0 .. SimTraded]] /\ v9 \in [SimOrders -> 0 .. SimTraded]
Around   == v1 \subseteq SimBooks /\ v5 \in 0 .. SimClock /\ v7 = FALSE /\ v3 \in Seq(Note)
Earned   == /\ v10 \subseteq Fate /\ Sim!IdsOf(v10) \cap Sim!IdsOf(v2) = {}
            /\ \A f \in v10 : f.at >= v8[f.id].at /\ (f.how = "queue" => v9[f.id] >= v8[f.id].queue)
            /\ \A f, g \in v10 : f.id = g.id => f = g

LEMMA SimInvIs ==
  Sim!SimInv <=> /\ Recorded /\ Queueing /\ Around /\ Earned
                 /\ Sim!PendingSent /\ Sim!QueuesKept /\ Sim!EventsTaken
<1>1. [id : SimOrders, event : [type : Sim!EventTypes, qty : Nat]] = Note
  BY SimOperators DEF Note
<1>2. Sim!TypeOk <=> /\ v1 \subseteq SimBooks /\ v4 \subseteq SimOrders /\ v5 \in 0 .. SimClock /\ v7 \in BOOLEAN
                     /\ \A id \in v4 : v6[id] \in OrderRecord
  BY SimOperators DEF Sim!TypeOk
<1>3. Sim!SimTypes <=> /\ v2 \subseteq Sim!Pendings /\ IsFiniteSet(v2) /\ v3 \in Seq(Note)
                       /\ v6 \in [SimOrders -> OrderRecord \cup {Sim!NoRecord}]
                       /\ v8 \in [SimOrders -> [at : Nat, queue : 0 .. SimTraded]]
                       /\ v9 \in [SimOrders -> 0 .. SimTraded] /\ v10 \subseteq Fate
  <2>1. PICK N : N = [id : SimOrders, event : [type : Sim!EventTypes, qty : Nat]]
    OBVIOUS
  <2>2. PICK R : R = Sim!OrderRecord
    OBVIOUS
  <2>3. N = Note /\ R = OrderRecord
    BY <1>1, <2>1, <2>2, SimOperators
  <2>4. Sim!SimTypes <=> /\ v2 \subseteq Sim!Pendings /\ IsFiniteSet(v2) /\ v3 \in Seq(N)
                         /\ v6 \in [SimOrders -> R \cup {Sim!NoRecord}]
                         /\ v8 \in [SimOrders -> [at : Nat, queue : 0 .. SimTraded]]
                         /\ v9 \in [SimOrders -> 0 .. SimTraded] /\ v10 \subseteq Fate
    <3>1. Sim!SimTypes <=>
            /\ v2 \subseteq Sim!Pendings /\ IsFiniteSet(v2)
            /\ v3 \in Seq([id : SimOrders, event : [type : Sim!EventTypes, qty : Nat]])
            /\ v6 \in [SimOrders -> Sim!OrderRecord \cup {Sim!NoRecord}]
            /\ v8 \in [SimOrders -> [at : Nat, queue : 0 .. SimTraded]] /\ v9 \in [SimOrders -> 0 .. SimTraded]
            /\ v10 \subseteq [id : v4, at : Nat, how : {"sweep", "through", "queue"}]
      BY DEF Sim!SimTypes, Sim!IsFiniteSet, IsFiniteSet
    <3>. QED BY <2>1, <2>2, <3>1 DEF Fate
  <2>. QED BY <2>3, <2>4, Zenon
<1>4. Sim!FillsAreEarned <=>
        /\ ~v7 /\ \A f \in v10 : f.at >= v8[f.id].at /\ (f.how = "queue" => v9[f.id] >= v8[f.id].queue)
        /\ \A f, g \in v10 : f.id = g.id => f = g
  BY DEF Sim!FillsAreEarned
<1>5. v7 = FALSE <=> v7 \in BOOLEAN /\ ~v7
  OBVIOUS
<1>6. Recorded /\ Queueing /\ Around /\ Earned
      <=> /\ Sim!TypeOk /\ Sim!SimTypes /\ Sim!FillsAreEarned /\ Sim!IdsOf(v10) \cap Sim!IdsOf(v2) = {}
  BY <1>2, <1>3, <1>4, <1>5, Zenon DEF Recorded, Queueing, Around, Earned
<1>. QED BY <1>6, Zenon DEF Sim!SimInv

LEMMA SimStarts == ASSUME Sim!Init PROVE Sim!SimInv
<1>1. Recorded
  BY DEF Sim!Init, Recorded
<1>2. Queueing
  <2>1. 0 \in 0 .. SimTraded
    BY SimAssumption
  <2>2. IsFiniteSet(v2)
    BY FS_EmptySet DEF Sim!Init
  <2>. QED BY <2>1, <2>2 DEF Sim!Init, Queueing
<1>3. Around
  BY SimAssumption DEF Sim!Init, Around
<1>4. Earned /\ Sim!PendingSent /\ Sim!QueuesKept /\ Sim!EventsTaken
  BY DEF Sim!Init, Earned, Sim!IdsOf, Sim!PendingSent, Sim!QueuesKept, Sim!EventsTaken
<1>. QED BY <1>1, <1>2, <1>3, <1>4, SimInvIs

LEMMA SimStays == ASSUME Sim!SimInv, UNCHANGED Sim!vars PROVE Sim!SimInv'
<1>1. UNCHANGED <<v1, v2, v3, v4, v5, v6, v7, v8, v9, v10>>
  BY DEF Sim!vars
<1>2. Recorded /\ Queueing /\ Around /\ Earned /\ Sim!PendingSent /\ Sim!QueuesKept /\ Sim!EventsTaken
  BY SimInvIs
<1>3. Recorded' /\ Queueing' /\ Around' /\ Earned'
  BY <1>1, <1>2 DEF Recorded, Queueing, Around, Earned, Fate
<1>4. Sim!PendingSent' /\ Sim!QueuesKept' /\ Sim!EventsTaken'
  BY <1>1, <1>2 DEF Sim!PendingSent, Sim!QueuesKept, Sim!EventsTaken, Sim!AckSent
<1>. QED BY <1>3, <1>4, SimInvIs, PTL

(* What is said of a pending order, and of an event on its way. *)
LEMMA PendingFields ==
  ASSUME NEW o \in Sim!Pendings
  PROVE  /\ o.id \in SimOrders /\ o.side \in Sides /\ o.qty \in Nat /\ o.limit \in Nat /\ o.visibleAt \in Nat
         /\ o.acked \in BOOLEAN /\ o.queueAhead \in Int
  BY SimOperators DEF Sim!Pendings

LEMMA EventAt ==
  ASSUME Around, Sim!EventsTaken
  PROVE  \A i \in DOMAIN v3 : v3[i] \in Note /\ v3[i].id \in v4
  BY DEF Around, Sim!EventsTaken

LEMMA SubmitDoes ==
  ASSUME Recorded, Queueing, Around, NEW id \in SimOrders, NEW side \in Sides, NEW qty \in 1 .. SimQty,
         NEW style \in Sim!Styles, Sim!Submit(id, side, qty, style)
  PROVE  \E r \in OrderRecord :
           /\ v6' = [v6 EXCEPT ![id] = r]
           /\ \/ v2' = v2 /\ v8' = v8
              \/ \E o \in Sim!Pendings :
                   /\ o.id = id /\ ~o.acked /\ o.qty = r.qty /\ r.state = "SUBMITTED" /\ r.filledQty = 0
                   /\ o.queueAhead \in 0 .. SimTraded /\ v2' = v2 \cup {o}
                   /\ v8' = [v8 EXCEPT ![id] = [at |-> o.visibleAt, queue |-> o.queueAhead]]
<1>1. qty \in Nat \ {0}
  BY SimAssumption
<1>2. PICK r : r = Sim!Sent(side, qty)
  OBVIOUS
<1>3. /\ r \in OrderRecord /\ r.state = "SUBMITTED" /\ r.qty = qty /\ r.filledQty = 0
      /\ Sim!Turned(r) \in OrderRecord
  BY <1>1, <1>2, SentIs
<1>4. CASE \E book \in v1 :
             LET limit == Sim!LimitPrice(style, book, side)
                 order == Sim!Pend(id, side, qty, limit, book)
             IN  /\ v2' = v2 \cup {order}
                 /\ v8' = [v8 EXCEPT ![id] = [at |-> order.visibleAt, queue |-> order.queueAhead]]
                 /\ v6' = [v6 EXCEPT ![id] = r]
  <2>1. PICK book \in v1 :
             LET limit == Sim!LimitPrice(style, book, side)
                 order == Sim!Pend(id, side, qty, limit, book)
             IN  /\ v2' = v2 \cup {order}
                 /\ v8' = [v8 EXCEPT ![id] = [at |-> order.visibleAt, queue |-> order.queueAhead]]
                 /\ v6' = [v6 EXCEPT ![id] = r]
    BY <1>4
  <2>2. PICK limit : limit = Sim!LimitPrice(style, book, side)
    OBVIOUS
  <2>3. book.bid \in Nat /\ book.ask \in Nat /\ book.size \in 0 .. SimTraded
    BY SimAssumption DEF Around
  <2>4. limit \in Nat
    <3>1. style.price \in Nat
      <4>0. PICK price : price = style.price
        OBVIOUS
      <4>1. price = 0 \/ price \in SimLimits
        BY <4>0 DEF Sim!Styles
      <4>2. SimLimits \subseteq Nat
        BY SimAssumption
      <4>3. price \in Nat
        <5>1. 0 \in Nat
          OBVIOUS
        <5>. QED BY <4>1, <4>2, <5>1, Zenon
      <4>. QED BY <4>0, <4>3, Zenon
    <3>. QED BY <2>2, <2>3, <3>1 DEF Sim!LimitPrice, Sim!Near
  <2>5. PICK order : order = Sim!Pend(id, side, qty, limit, book)
    OBVIOUS
  <2>6. PICK ahead : ahead = IF limit = 0 THEN 0 ELSE Sim!QueueAheadAt(book, side, limit)
    OBVIOUS
  <2>7. ahead \in 0 .. SimTraded
    BY <2>3, <2>6, SimAssumption DEF Sim!QueueAheadAt
  <2>8. v5 + SimLatency \in Nat
    BY SimAssumption DEF Around
  <2>9. order = [id |-> id, side |-> side, qty |-> qty, limit |-> limit, visibleAt |-> v5 + SimLatency,
                 acked |-> FALSE, queueAhead |-> ahead]
    BY <2>5, <2>6 DEF Sim!Pend
  <2>10. order \in Sim!Pendings /\ order.id = id /\ ~order.acked /\ order.qty = r.qty
         /\ order.queueAhead \in 0 .. SimTraded
    BY <1>1, <1>3, <2>4, <2>7, <2>8, <2>9, SimOperators DEF Sim!Pendings
  <2>11. /\ v2' = v2 \cup {order} /\ v6' = [v6 EXCEPT ![id] = r]
         /\ v8' = [v8 EXCEPT ![id] = [at |-> order.visibleAt, queue |-> order.queueAhead]]
    BY <2>1, <2>2, <2>5
  <2>. QED BY <1>3, <2>10, <2>11
<1>5. CASE v6' = [v6 EXCEPT ![id] = Sim!Turned(r)] /\ v2' = v2 /\ v8' = v8
  BY <1>3, <1>5
<1>. QED BY <1>2, <1>4, <1>5 DEF Sim!Submit
LEMMA SimCounts ==
  \A S : IsFiniteSet(S) => Sim!Cardinality(S) = Cardinality(S)
  BY DEF Sim!Cardinality, Cardinality
Simulated == /\ Recorded /\ Queueing /\ Around /\ Earned
         /\ Sim!PendingSent /\ Sim!QueuesKept /\ Sim!EventsTaken

(* What is known of an order that waits. *)
LEMMA WaitingIs ==
  ASSUME Simulated, NEW o \in v2
  PROVE  /\ o \in Sim!Pendings /\ o.id \in SimOrders /\ o.id \in v4 /\ o.acked \in BOOLEAN /\ o.qty \in Nat
         /\ o.queueAhead \in Int /\ o.visibleAt \in Nat /\ o.limit \in Nat
         /\ v6[o.id] \in OrderRecord /\ v6[o.id].qty = o.qty /\ v6[o.id].filledQty = 0
         /\ v6[o.id].state = IF o.acked /\ ~Sim!AckSent(o.id) THEN "ACK" ELSE "SUBMITTED"
         /\ Sim!AckSent(o.id) => o.acked
         /\ o.visibleAt = v8[o.id].at
         /\ v9[o.id] + o.queueAhead >= v8[o.id].queue \/ v9[o.id] = SimTraded
         /\ \A p \in v2 : p.id = o.id => p = o
  BY PendingFields DEF Simulated, Queueing, Recorded, Sim!PendingSent, Sim!QueuesKept

(* An event on its way, as the engine's record of its order takes it. *)
Underway(i) ==
  /\ v3[i].id \in v4 /\ v6[v3[i].id].state \in {"SUBMITTED", "ACK"} /\ v6[v3[i].id].filledQty = 0
  /\ \/ /\ v3[i].event.type = "ack" /\ v6[v3[i].id].state = "SUBMITTED"
        /\ \A j \in 1 .. i - 1 : v3[j].id # v3[i].id
     \/ /\ v3[i].event.type = "cancel" \/ (v3[i].event.type = "fill" /\ v3[i].event.qty = v6[v3[i].id].qty)
        /\ v3[i].id \notin Sim!IdsOf(v2) /\ \A j \in DOMAIN v3 : j > i => v3[j].id # v3[i].id

AllUnderway == \A i \in DOMAIN v3 : Underway(i)

LEMMA UnderwayIs == Sim!EventsTaken <=> AllUnderway
  BY DEF Sim!EventsTaken, Underway, AllUnderway

LEMMA SubmitKeeps ==
  ASSUME Simulated, NEW id \in SimOrders, NEW side \in Sides, NEW qty \in 1 .. SimQty, NEW style \in Sim!Styles,
         Sim!Submit(id, side, qty, style)
  PROVE  Simulated'
<1>1. /\ id \notin v4 /\ v4' = v4 \cup {id} /\ UNCHANGED <<v1, v3, v5, v7, v9, v10>>
  BY DEF Sim!Submit
<1>2. PICK r \in OrderRecord :
           /\ v6' = [v6 EXCEPT ![id] = r]
           /\ \/ v2' = v2 /\ v8' = v8
              \/ \E o \in Sim!Pendings :
                   /\ o.id = id /\ ~o.acked /\ o.qty = r.qty /\ r.state = "SUBMITTED" /\ r.filledQty = 0
                   /\ o.queueAhead \in 0 .. SimTraded /\ v2' = v2 \cup {o}
                   /\ v8' = [v8 EXCEPT ![id] = [at |-> o.visibleAt, queue |-> o.queueAhead]]
  BY SubmitDoes DEF Simulated
<1>3. v6'[id] = r /\ \A i \in v4 : v6'[i] = v6[i]
  BY <1>1, <1>2 DEF Simulated, Recorded
<1>4. \A o \in v2 : o.id \in v4 /\ o.id # id
  BY <1>1, WaitingIs
<1>5. \A i \in v4 : v8'[i] = v8[i]
  BY <1>1, <1>2 DEF Simulated, Queueing, Recorded
<1>6. Recorded'
  BY <1>1, <1>2, <1>3 DEF Simulated, Recorded
<1>7. Around'
  BY <1>1 DEF Simulated, Around
<1>8. Sim!EventsTaken'
  <2>1. \A i \in DOMAIN v3 : v3[i].id \in v4 /\ v3[i].id # id
    BY <1>1, EventAt DEF Simulated
  <2>2. \A i \in DOMAIN v3 : v3[i].id \notin Sim!IdsOf(v2) => v3[i].id \notin Sim!IdsOf(v2')
    BY <1>2, <2>1 DEF Sim!IdsOf
  <2>. QED BY <1>1, <1>3, <2>1, <2>2 DEF Simulated, Sim!EventsTaken
<1>9. \A i : Sim!AckSent(i)' <=> Sim!AckSent(i)
  BY <1>1 DEF Sim!AckSent
<1>10. ~Sim!AckSent(id)
  BY <1>1, EventAt DEF Simulated, Sim!AckSent
<1>11. \A f \in v10 : f \in Fate /\ f.id \in v4
  BY DEF Simulated, Earned, Fate
<1>12. \A f \in v10 : f.at >= v8'[f.id].at /\ (f.how = "queue" => v9[f.id] >= v8'[f.id].queue)
  BY <1>5, <1>11 DEF Simulated, Earned
<1>13. Fate \subseteq Fate'
  BY <1>1 DEF Fate
<1>14. CASE v2' = v2 /\ v8' = v8
  <2>1. Queueing' /\ Sim!QueuesKept'
    BY <1>1, <1>14 DEF Simulated, Queueing, Sim!QueuesKept
  <2>2. Earned'
    BY <1>1, <1>12, <1>13, <1>14 DEF Simulated, Earned
  <2>3. Sim!PendingSent'
    BY <1>1, <1>3, <1>4, <1>9, <1>14 DEF Simulated, Sim!PendingSent
  <2>. QED BY <1>6, <1>7, <1>8, <2>1, <2>2, <2>3 DEF Simulated
<1>15. ASSUME NEW o \in Sim!Pendings,
                   /\ o.id = id /\ ~o.acked /\ o.qty = r.qty /\ r.state = "SUBMITTED" /\ r.filledQty = 0
                   /\ o.queueAhead \in 0 .. SimTraded /\ v2' = v2 \cup {o}
                   /\ v8' = [v8 EXCEPT ![id] = [at |-> o.visibleAt, queue |-> o.queueAhead]]
       PROVE Simulated'
  <2>1. Queueing'
    <3>1. IsFiniteSet(v2')
      BY <1>15, FS_AddElement DEF Simulated, Queueing
    <3>2. [at |-> o.visibleAt, queue |-> o.queueAhead] \in [at : Nat, queue : 0 .. SimTraded]
      BY <1>15, PendingFields
    <3>3. v8' \in [SimOrders -> [at : Nat, queue : 0 .. SimTraded]]
      BY <1>15, <3>2 DEF Simulated, Queueing
    <3>. QED BY <1>1, <1>15, <3>1, <3>3 DEF Simulated, Queueing
  <2>2. Sim!QueuesKept'
    <3>1. v8'[id] = [at |-> o.visibleAt, queue |-> o.queueAhead]
      BY <1>15 DEF Simulated, Queueing
    <3>2. v9[id] \in 0 .. SimTraded
      BY DEF Simulated, Queueing
    <3>3. v9[id] + o.queueAhead >= o.queueAhead
      BY <1>15, <3>2, SimAssumption
    <3>4. \A p \in v2 : p.visibleAt = v8'[p.id].at
                       /\ (v9[p.id] + p.queueAhead >= v8'[p.id].queue \/ v9[p.id] = SimTraded)
      BY <1>4, <1>5, WaitingIs
    <3>. QED BY <1>1, <1>15, <3>1, <3>3, <3>4 DEF Sim!QueuesKept
  <2>3. Earned'
    <3>1. Sim!IdsOf(v10) \cap Sim!IdsOf(v2') = {}
      BY <1>1, <1>11, <1>15 DEF Simulated, Earned, Sim!IdsOf
    <3>. QED BY <1>1, <1>12, <1>13, <3>1 DEF Simulated, Earned
  <2>4. Sim!PendingSent'
    <3>1. \A p \in v2 : p.id # o.id
      BY <1>4, <1>15
    <3>2. \A p \in v2' : p \in v2 \/ p = o
      BY <1>15
    <3>. QED BY <1>1, <1>3, <1>4, <1>9, <1>10, <1>15, <3>1, <3>2 DEF Simulated, Sim!PendingSent
  <2>. QED BY <1>6, <1>7, <1>8, <2>1, <2>2, <2>3, <2>4 DEF Simulated
<1>. QED BY <1>2, <1>14, <1>15

LEMMA CancelKeeps ==
  ASSUME Simulated, NEW o \in v2, Sim!Cancel(o)
  PROVE  Simulated'
<1>1. PICK n : n = Sim!Event(o.id, "cancel", 0)
  OBVIOUS
<1>2. v2' = v2 \ {o} /\ v3' = Append(v3, n) /\ UNCHANGED <<v1, v4, v5, v6, v7, v8, v9, v10>>
  BY <1>1 DEF Sim!Cancel
<1>3. n.id = o.id /\ n.event.type = "cancel" /\ n \in Note
  BY <1>1, WaitingIs DEF Sim!Event, Note, EventTypes
<1>4. PICK m \in Nat : m = Len(v3) /\ DOMAIN v3 = 1 .. m
  BY DEF Simulated, Around
<1>5. /\ v3' \in Seq(Note) /\ DOMAIN v3' = 1 .. m + 1 /\ v3'[m + 1] = n
      /\ \A i \in 1 .. m : v3'[i] = v3[i]
  BY <1>2, <1>3, <1>4 DEF Simulated, Around
<1>6. \A i : Sim!AckSent(i)' <=> Sim!AckSent(i)
  <2>1. \A i \in 1 .. m + 1 : i \in 1 .. m \/ i = m + 1
    OBVIOUS
  <2>2. n.event.type # "ack"
    BY <1>3
  <2>3. \A i \in 1 .. m : i \in 1 .. m + 1
    OBVIOUS
  <2>. QED BY <1>4, <1>5, <2>1, <2>2, <2>3 DEF Sim!AckSent
<1>7. Recorded' /\ Around'
  BY <1>2, <1>5 DEF Simulated, Recorded, Around
<1>8. Queueing' /\ Sim!QueuesKept'
  <2>1. IsFiniteSet(v2')
    BY <1>2, FS_RemoveElement DEF Simulated, Queueing
  <2>. QED BY <1>2, <2>1 DEF Simulated, Queueing, Sim!QueuesKept
<1>9. Earned'
  BY <1>2 DEF Simulated, Earned, Fate, Sim!IdsOf
<1>10. Sim!PendingSent'
  BY <1>2, <1>6 DEF Simulated, Sim!PendingSent
<1>11. Sim!EventsTaken'
  <2>1. \A i \in 1 .. m : v3[i].id = o.id => v3[i].event.type = "ack"
    BY <1>4 DEF Simulated, Sim!EventsTaken, Sim!IdsOf
  <2>2. o.id \notin Sim!IdsOf(v2')
    BY <1>2, WaitingIs DEF Sim!IdsOf
  <2>3. Sim!IdsOf(v2') \subseteq Sim!IdsOf(v2)
    BY <1>2 DEF Sim!IdsOf
  <2>4. SUFFICES ASSUME NEW i \in 1 .. m + 1 PROVE Underway(i)'
    <3>1. Sim!EventsTaken' <=> AllUnderway'
      BY UnderwayIs, PTL
    <3>. QED BY <1>5, <3>1 DEF AllUnderway
  <2>5. CASE i \in 1 .. m
    <3>1. v3'[i] = v3[i] /\ \A j \in 1 .. i - 1 : v3'[j] = v3[j]
      BY <1>4, <1>5, <2>5
    <3>2. Underway(i)
      BY <1>4, <2>5, UnderwayIs DEF Simulated, AllUnderway
    <3>3. CASE v3[i].event.type = "ack"
      BY <1>2, <3>1, <3>2, <3>3 DEF Underway
    <3>4. CASE v3[i].event.type # "ack"
      <4>1. v3[i].id # n.id
        BY <1>3, <2>1, <2>5, <3>4
      <4>2. \A j \in 1 .. m : j > i => v3[j].id # v3[i].id
        BY <1>4, <3>2, <3>4 DEF Underway
      <4>3. \A j \in 1 .. m + 1 : j \in 1 .. m \/ j = m + 1
        OBVIOUS
      <4>4. \A j \in DOMAIN v3' : j > i => v3'[j].id # v3'[i].id
        BY <1>5, <3>1, <4>1, <4>2, <4>3
      <4>5. v3'[i].id \notin Sim!IdsOf(v2')
        BY <2>3, <3>1, <3>2, <3>4 DEF Underway
      <4>. QED BY <1>2, <3>1, <3>2, <3>4, <4>4, <4>5 DEF Underway
    <3>. QED BY <3>3, <3>4
  <2>6. CASE i = m + 1
    <3>1. \A j \in DOMAIN v3' : ~(j > i)
      BY <1>5, <2>6
    <3>2. v3'[i] = n
      BY <1>5, <2>6
    <3>. QED BY <1>2, <1>3, <2>2, <3>1, <3>2, WaitingIs DEF Underway
  <2>. QED BY <2>5, <2>6
<1>. QED BY <1>7, <1>8, <1>9, <1>10, <1>11 DEF Simulated

LEMMA TimeKeeps == ASSUME Simulated, Sim!TimePasses PROVE Simulated'
<1>1. v5 < SimClock /\ v5' = v5 + 1 /\ UNCHANGED <<v1, v2, v3, v4, v6, v7, v8, v9, v10>>
  BY DEF Sim!TimePasses
<1>2. v5' \in 0 .. SimClock
  BY <1>1, SimAssumption DEF Simulated, Around
<1>3. Recorded' /\ Queueing' /\ Around' /\ Earned'
  BY <1>1, <1>2 DEF Simulated, Recorded, Queueing, Around, Earned, Fate
<1>4. Sim!PendingSent' /\ Sim!QueuesKept' /\ Sim!EventsTaken'
  BY <1>1 DEF Simulated, Sim!PendingSent, Sim!QueuesKept, Sim!EventsTaken, Sim!AckSent
<1>. QED BY <1>3, <1>4 DEF Simulated-----------------------------------------------------------------------------
(* Draining: the records after the first k events, of which none was       *)
(* refused.                                                                *)
Records == {r \in [SimOrders -> OrderRecord \cup {Sim!NoRecord}] : \A id \in v4 : r[id] \in OrderRecord}
Results == [record : Records, refused : BOOLEAN]

Taken(w, e) ==
  LET result == Sim!ApplyOrderEvent(w.record[e.id], e.event)
  IN  [record  |-> [w.record EXCEPT ![e.id] = result.order], refused |-> w.refused \/ ~result.ok]

OnlyAcks(id, k) == \A j \in 1 .. k : v3[j].id = id => v3[j].event.type = "ack"

TookAcks(w, id, k) ==
  /\ w.record[id].qty = v6[id].qty /\ w.record[id].filledQty = v6[id].filledQty
  /\ w.record[id].state = IF \E j \in 1 .. k : v3[j].id = id THEN "ACK" ELSE v6[id].state

Claim(w, k) == w \in Results /\ ~w.refused /\ \A id \in v4 : OnlyAcks(id, k) => TookAcks(w, id, k)

LEMMA TakenIs ==
  ASSUME NEW w \in Results, NEW e \in Note, e.id \in v4
  PROVE  Taken(w, e) \in Results
<1>1. w.record \in Records /\ w.refused \in BOOLEAN
  BY DEF Results
<1>2. e.event.type \in EventTypes /\ e.event.qty \in Int
  BY DEF Note
<1>3. PICK r : r = ApplyOrderEvent(w.record[e.id], e.event).order
  OBVIOUS
<1>4. r \in OrderRecord
  BY <1>1, <1>2, <1>3, ApplyType DEF Records
<1>5. [w.record EXCEPT ![e.id] = r] \in Records
  <2>1. PICK R : R = OrderRecord \cup {Sim!NoRecord}
    OBVIOUS
  <2>2. r \in R /\ w.record \in [SimOrders -> R] /\ \A id \in v4 : w.record[id] \in OrderRecord
    BY <1>1, <1>4, <2>1 DEF Records
  <2>3. PICK q : q = [w.record EXCEPT ![e.id] = r]
    OBVIOUS
  <2>4. q \in [SimOrders -> R] /\ \A id \in v4 : q[id] \in OrderRecord
    <3>1. e.id \in SimOrders
      BY DEF Note
    <3>. QED BY <1>4, <2>2, <2>3, <3>1
  <2>. QED BY <2>1, <2>3, <2>4 DEF Records
<1>6. (w.refused \/ ~ApplyOrderEvent(w.record[e.id], e.event).ok) \in BOOLEAN
  OBVIOUS
<1>. QED BY <1>3, <1>5, <1>6, SimOperators DEF Taken, Results

LEMMA TakeOne ==
  ASSUME Simulated, NEW k \in DOMAIN v3, NEW w, Claim(w, k - 1)
  PROVE  Claim(Taken(w, v3[k]), k)
<1>1. PICK n \in Nat : n = Len(v3) /\ DOMAIN v3 = 1 .. n
  BY DEF Simulated, Around
<1>2. PICK e : e = v3[k]
  OBVIOUS
<1>3. e \in Note /\ e.id \in v4
  BY <1>2, EventAt DEF Simulated
<1>4. \A j \in 1 .. n : Underway(j)
  BY <1>1, UnderwayIs DEF Simulated, AllUnderway
<1>5. \A j \in 1 .. k - 1 : j \in 1 .. n /\ k > j
  BY <1>1
<1>6. OnlyAcks(e.id, k - 1)
  <2>1. ASSUME NEW j \in 1 .. k - 1, v3[j].id = e.id, v3[j].event.type # "ack" PROVE FALSE
    <3>1. \A i \in DOMAIN v3 : i > j => v3[i].id # v3[j].id
      BY <1>4, <1>5, <2>1 DEF Underway
    <3>. QED BY <1>2, <1>5, <2>1, <3>1
  <2>. QED BY <2>1 DEF OnlyAcks
<1>7. TookAcks(w, e.id, k - 1)
  BY <1>3, <1>6 DEF Claim
<1>8. PICK order : order = w.record[e.id]
  OBVIOUS
<1>9. order \in OrderRecord /\ w \in Results /\ ~w.refused
  BY <1>3, <1>8 DEF Claim, Results, Records
<1>10. Underway(k)
  BY <1>1, <1>4
<1>11. PICK next : next = ApplyOrderEvent(order, e.event)
  OBVIOUS
<1>12. order.filledQty = 0 /\ order.qty = v6[e.id].qty
  BY <1>2, <1>7, <1>8, <1>10 DEF TookAcks, Underway
<1>13. next.ok
  <2>1. CASE e.event.type = "ack"
    <3>1. v6[e.id].state = "SUBMITTED" /\ \A j \in 1 .. k - 1 : v3[j].id # e.id
      BY <1>2, <1>10, <2>1 DEF Underway
    <3>2. order.state = "SUBMITTED"
      BY <1>7, <1>8, <3>1 DEF TookAcks
    <3>. QED BY <1>9, <1>11, <2>1, <3>2, AckIsTaken
  <2>2. CASE e.event.type = "cancel" \/ (e.event.type = "fill" /\ e.event.qty = order.qty)
    <3>1. order.state \in {"SUBMITTED", "ACK"}
      BY <1>2, <1>7, <1>8, <1>10 DEF TookAcks, Underway
    <3>. QED BY <1>9, <1>11, <1>12, <2>2, <3>1, EndIsTaken
  <2>. QED BY <1>2, <1>10, <1>12, <2>1, <2>2 DEF Underway
<1>14. PICK x : x = Taken(w, e)
  OBVIOUS
<1>15. x.record = [w.record EXCEPT ![e.id] = next.order] /\ x.refused = (w.refused \/ ~next.ok)
  BY <1>8, <1>11, <1>14, SimOperators DEF Taken
<1>16. x \in Results
  BY <1>3, <1>9, <1>14, TakenIs
<1>17. ~x.refused
  BY <1>9, <1>13, <1>15
<1>18. w.record \in Records /\ e.id \in SimOrders /\ v4 \subseteq SimOrders
  BY <1>3, <1>9 DEF Results, Note, Simulated, Recorded
<1>19. x.record[e.id] = next.order /\ \A id \in v4 : id # e.id => x.record[id] = w.record[id]
  BY <1>15, <1>18 DEF Records
<1>20. ASSUME NEW id \in v4, OnlyAcks(id, k) PROVE TookAcks(x, id, k)
  <2>1. k \in 1 .. k /\ \A j \in 1 .. k - 1 : j \in 1 .. k
    BY <1>1
  <2>2. \A j \in 1 .. k : j \in 1 .. k - 1 \/ j = k
    BY <1>1
  <2>3. CASE id = e.id
    <3>1. e.event.type = "ack"
      BY <1>2, <1>20, <2>1, <2>3 DEF OnlyAcks
    <3>2. v6[e.id].state = "SUBMITTED" /\ \A j \in 1 .. k - 1 : v3[j].id # e.id
      BY <1>2, <1>10, <3>1 DEF Underway
    <3>3. order.state = "SUBMITTED"
      BY <1>7, <1>8, <3>2 DEF TookAcks
    <3>4. next.order.state = "ACK" /\ next.order.qty = order.qty /\ next.order.filledQty = order.filledQty
      BY <1>9, <1>11, <3>1, <3>3, AckIsTaken
    <3>5. order.filledQty = v6[e.id].filledQty
      BY <1>7, <1>8 DEF TookAcks
    <3>. QED BY <1>2, <1>12, <1>19, <2>1, <2>3, <3>4, <3>5 DEF TookAcks
  <2>4. CASE id # e.id
    <3>1. OnlyAcks(id, k - 1)
      BY <1>20, <2>1 DEF OnlyAcks
    <3>2. TookAcks(w, id, k - 1)
      BY <3>1 DEF Claim
    <3>3. (\E j \in 1 .. k : v3[j].id = id) <=> (\E j \in 1 .. k - 1 : v3[j].id = id)
      BY <1>2, <2>1, <2>2, <2>4
    <3>. QED BY <1>19, <2>4, <3>2, <3>3 DEF TookAcks
  <2>. QED BY <2>3, <2>4
<1>. QED BY <1>2, <1>14, <1>16, <1>17, <1>20 DEF Claim

LEMMA Drained ==
  ASSUME Simulated, Sim!Drain
  PROVE  \E w : Claim(w, Len(v3)) /\ v6' = w.record /\ v7' = w.refused
<1>1. PICK n \in Nat : n = Len(v3) /\ DOMAIN v3 = 1 .. n
  BY DEF Simulated, Around
<1>2. PICK base : base = [record |-> v6, refused |-> v7]
  OBVIOUS
<1>3. Claim(base, 0)
  <2>1. base \in Results
    BY <1>2 DEF Results, Records, Simulated, Recorded, Around
  <2>2. \A id \in v4 : TookAcks(base, id, 0)
    BY <1>2 DEF TookAcks
  <2>. QED BY <1>2, <2>1, <2>2 DEF Claim, Simulated, Around
<1> DEFINE Acted(w, k) == Taken(w, v3[k])
           Folds(h) == h = [S \in SUBSET (1 .. n) |->
                             IF S = {} THEN base ELSE Acted(h[S \ {Max(S)}], Max(S))]
<1>4. \A w \in Results : \A k \in 1 .. n : Acted(w, k) \in Results
  BY <1>1, EventAt, TakenIs DEF Simulated
<1>5. base \in Results
  BY <1>3 DEF Claim
<1>6. PICK step : step = [k \in 1 .. n |-> [w \in Results |-> Acted(w, k)]]
  OBVIOUS
<1>7. \A w \in Results : \A k \in 1 .. n : step[k][w] \in Results /\ step[k][w] = Acted(w, k)
  <2> HIDE DEF Acted
  <2>. QED BY <1>4, <1>6
<1>8. PICK end : end = (CHOOSE h : Folds(h))[1 .. n]
  OBVIOUS
<1>9. v6' = end.record /\ v7' = end.refused
  BY ZenonT(60), <1>1, <1>2, <1>8 DEF Sim!Drain, Sim!FoldLeft, Sim!MapThenFoldSet, Max, Sim!Max, Taken
<1>10. ASSUME NEW h PROVE IsLeft(h, base, step, 1 .. n) => Folds(h)
  <2>1. HAVE IsLeft(h, base, step, 1 .. n)
  <2> HIDE DEF Acted
  <2>2. \A S \in SUBSET (1 .. n) : h[S] \in Results
    BY <1>5, <1>7, <2>1, LeftStays
  <2>3. ASSUME NEW S \in SUBSET (1 .. n), S # {}
        PROVE  step[Max(S)][h[S \ {Max(S)}]] = Acted(h[S \ {Max(S)}], Max(S))
    <3>1. Max(S) \in 1 .. n
      <4>1. IsFiniteSet(1 .. n) /\ S \subseteq Int
        BY FS_Interval
      <4>2. IsFiniteSet(S)
        BY <4>1, FS_Subset
      <4>3. PICK w : w \in S
        BY <2>3
      <4>4. Max(S) \in S
        BY <4>1, <4>2, <4>3, MaxOfSet
      <4>. QED BY <4>4
    <3>2. h[S \ {Max(S)}] \in Results
      BY <2>2
    <3>. QED BY <1>7, <3>1, <3>2
  <2>4. h = [S \in SUBSET (1 .. n) |-> IF S = {} THEN base ELSE step[Max(S)][h[S \ {Max(S)}]]]
    BY <2>1 DEF IsLeft
  <2>5. [S \in SUBSET (1 .. n) |-> IF S = {} THEN base ELSE step[Max(S)][h[S \ {Max(S)}]]]
        = [S \in SUBSET (1 .. n) |-> IF S = {} THEN base ELSE Acted(h[S \ {Max(S)}], Max(S))]
    BY <2>3
  <2>. QED BY <2>4, <2>5
<1>11. PICK f : IsLeft(f, base, step, 1 .. n)
  BY LeftExists
<1>12. PICK g : g = CHOOSE h : Folds(h)
  OBVIOUS
<1> HIDE DEF Folds
<1>13. Folds(g)
  BY <1>10, <1>11, <1>12
<1>14. g[1 .. 0] = base
  <2>1. 1 .. 0 = {} /\ 1 .. 0 \in SUBSET (1 .. n)
    OBVIOUS
  <2>. QED BY <1>13, <2>1 DEF Folds
<1>15. \A k \in 1 .. n : g[1 .. k] = Taken(g[1 .. (k - 1)], v3[k])
  <2> TAKE k \in 1 .. n
  <2>1. 1 .. k \in SUBSET (1 .. n) /\ 1 .. k # {} /\ Max(1 .. k) = k /\ (1 .. k) \ {Max(1 .. k)} = 1 .. (k - 1)
    BY PrefixMax
  <2>. QED BY <1>13, <2>1 DEF Folds
<1> DEFINE B == {k \in 0 .. n : Claim(g[1 .. k], k)}
<1>16. \A k \in 0 .. n : k \in B
  <2>1. 0 \in B
    BY <1>3, <1>14
  <2>2. \A k \in 1 .. n : k - 1 \in B => k \in B
    <3> TAKE k \in 1 .. n
    <3>1. HAVE Claim(g[1 .. (k - 1)], k - 1)
    <3>2. Claim(Taken(g[1 .. (k - 1)], v3[k]), k)
      BY <1>1, <3>1, TakeOne
    <3>3. Claim(g[1 .. k], k)
      BY <1>15, <3>2
    <3>. QED BY <3>3
  <2> HIDE DEF B
  <2>. QED BY <2>1, <2>2, PrefixInduction
<1>17. n \in 0 .. n
  OBVIOUS
<1>18. Claim(g[1 .. n], n)
  BY <1>16, <1>17
<1>. QED BY <1>1, <1>8, <1>9, <1>12, <1>18

LEMMA DrainKeeps == ASSUME Simulated, Sim!Drain PROVE Simulated'
<1>1. v3' = <<>> /\ UNCHANGED <<v1, v2, v4, v5, v8, v9, v10>>
  BY DEF Sim!Drain
<1>2. PICK n \in Nat : n = Len(v3) /\ DOMAIN v3 = 1 .. n
  BY DEF Simulated, Around
<1>3. PICK w : Claim(w, n) /\ v6' = w.record /\ v7' = w.refused
  BY <1>2, Drained
<1>4. v6' \in Records /\ v7' = FALSE
  BY <1>3 DEF Claim, Results
<1>5. Recorded' /\ Around'
  BY <1>1, <1>4 DEF Simulated, Recorded, Around, Records
<1>6. Queueing' /\ Earned' /\ Sim!QueuesKept'
  BY <1>1 DEF Simulated, Queueing, Earned, Fate, Sim!QueuesKept
<1>7. Sim!EventsTaken' /\ \A i : ~Sim!AckSent(i)'
  BY <1>1 DEF Sim!EventsTaken, Sim!AckSent
<1>8. Sim!PendingSent'
  <2>1. ASSUME NEW o \in v2
        PROVE  /\ v6'[o.id].qty = o.qty /\ v6'[o.id].filledQty = 0
               /\ v6'[o.id].state = IF o.acked THEN "ACK" ELSE "SUBMITTED"
    <3>1. OnlyAcks(o.id, n)
      <4>1. \A j \in 1 .. n : Underway(j)
        BY <1>2, UnderwayIs DEF Simulated, AllUnderway
      <4>. QED BY <4>1 DEF OnlyAcks, Underway, Sim!IdsOf
    <3>2. TookAcks(w, o.id, n)
      BY <1>3, <3>1, WaitingIs DEF Claim
    <3>3. (\E j \in 1 .. n : v3[j].id = o.id) <=> Sim!AckSent(o.id)
      BY <1>2, <3>1 DEF OnlyAcks, Sim!AckSent
    <3>. QED BY <1>3, <3>2, <3>3, WaitingIs DEF TookAcks
  <2>. QED BY <1>1, <1>7, <2>1, WaitingIs DEF Sim!PendingSent
<1>. QED BY <1>5, <1>6, <1>7, <1>8 DEF Simulated-----------------------------------------------------------------------------
(* A market event: what it sends for the live orders, one after another.   *)
Hows(o, b, v, p) == Sim!HowFills(o, b, v, p)
Sent(o, b, v, p) == Sim!Events(o, Hows(o, b, v, p))

AckOf(w, i, o) == w[i].event.type = "ack" /\ ~o.acked /\ \A j \in DOMAIN w : j < i => w[j].id # w[i].id

FillOf(w, i, o, how) == /\ w[i].event.type = "fill" /\ w[i].event.qty = o.qty /\ how # "no"
                        /\ \A j \in DOMAIN w : j > i => w[j].id # w[i].id

Acks(w, o) == \E i \in DOMAIN w : w[i].id = o.id /\ w[i].event.type = "ack"

Tells(w, T, b, v, p) ==
  /\ w \in Seq(Note)
  /\ \A i \in DOMAIN w : \E o \in T : w[i].id = o.id /\ (AckOf(w, i, o) \/ FillOf(w, i, o, Hows(o, b, v, p)))
  /\ \A o \in T : ~o.acked => Acks(w, o)

LEMMA SentTells ==
  ASSUME NEW o \in Sim!Pendings, NEW b, NEW v, NEW p, NEW s, s = Sent(o, b, v, p)
  PROVE  Tells(s, {o}, b, v, p) /\ \A i \in DOMAIN s : s[i].id = o.id
<1>1. PICK how : how = Hows(o, b, v, p)
  OBVIOUS
<1>2. PICK a : a = Sim!Event(o.id, "ack", 0)
  OBVIOUS
<1>3. PICK f : f = Sim!Event(o.id, "fill", o.qty)
  OBVIOUS
<1>4. /\ a \in Note /\ f \in Note /\ a.id = o.id /\ f.id = o.id /\ a.event.type = "ack" /\ f.event.type = "fill"
      /\ f.event.qty = o.qty
  BY <1>2, <1>3, PendingFields DEF Sim!Event, Note, EventTypes
<1>5. s = (IF o.acked THEN <<>> ELSE <<a>>) \o (IF how = "no" THEN <<>> ELSE <<f>>)
  BY <1>1, <1>2, <1>3 DEF Sent, Sim!Events
<1>6. CASE o.acked /\ how = "no"
  <2>1. s = <<>>
    BY <1>5, <1>6
  <2>. QED BY <1>6, <2>1 DEF Tells
<1>7. CASE o.acked /\ how # "no"
  <2>1. s = <<f>>
    BY <1>5, <1>7, <1>4
  <2>2. DOMAIN s = {1} /\ s[1] = f /\ s \in Seq(Note)
    BY <2>1, <1>4
  <2>3. FillOf(s, 1, o, how)
    BY <1>4, <1>7, <2>2 DEF FillOf
  <2>. QED BY <1>1, <1>4, <1>7, <2>2, <2>3 DEF Tells
<1>8. CASE ~o.acked /\ how = "no"
  <2>1. s = <<a>>
    BY <1>5, <1>8, <1>4
  <2>2. DOMAIN s = {1} /\ s[1] = a /\ s \in Seq(Note)
    BY <2>1, <1>4
  <2>3. AckOf(s, 1, o) /\ Acks(s, o)
    BY <1>4, <1>8, <2>2 DEF AckOf, Acks
  <2>. QED BY <1>1, <1>4, <1>8, <2>2, <2>3 DEF Tells
<1>9. CASE ~o.acked /\ how # "no"
  <2>1. s = <<a>> \o <<f>>
    BY <1>5, <1>9
  <2>2. DOMAIN s = {1, 2} /\ s[1] = a /\ s[2] = f /\ s \in Seq(Note)
    BY <2>1, <1>4
  <2>3. AckOf(s, 1, o) /\ Acks(s, o) /\ FillOf(s, 2, o, how)
    BY <1>4, <1>9, <2>2 DEF AckOf, Acks, FillOf
  <2>. QED BY <1>1, <1>4, <1>9, <2>2, <2>3 DEF Tells
<1>. QED BY <1>6, <1>7, <1>8, <1>9

LEMMA TellsBoth ==
  ASSUME NEW T, NEW o \in Sim!Pendings, \A q \in T : q.id # o.id, NEW b, NEW v, NEW p, NEW w, Tells(w, T, b, v, p)
  PROVE  Tells(w \o Sent(o, b, v, p), T \cup {o}, b, v, p)
<1>1. PICK s : s = Sent(o, b, v, p)
  OBVIOUS
<1>2. Tells(s, {o}, b, v, p) /\ \A i \in DOMAIN s : s[i].id = o.id
  BY <1>1, SentTells
<1>3. w \in Seq(Note) /\ s \in Seq(Note)
  BY <1>2 DEF Tells
<1>4. PICK n \in Nat : n = Len(w) /\ DOMAIN w = 1 .. n
  BY <1>3
<1>5. PICK l \in Nat : l = Len(s) /\ DOMAIN s = 1 .. l
  BY <1>3
<1>6. PICK x : x = w \o s
  OBVIOUS
<1>7. /\ x \in Seq(Note) /\ DOMAIN x = 1 .. n + l
      /\ \A i \in 1 .. n : x[i] = w[i]
      /\ \A i \in 1 .. l : x[n + i] = s[i]
  BY <1>3, <1>4, <1>5, <1>6
<1>8. \A i \in 1 .. n + l : i \in 1 .. n \/ (i - n \in 1 .. l /\ i = n + (i - n))
  OBVIOUS
<1>9. \A i \in 1 .. n : w[i].id # o.id
  BY <1>4 DEF Tells
<1>10. ASSUME NEW i \in 1 .. n + l
       PROVE  \E q \in T \cup {o} : x[i].id = q.id /\ (AckOf(x, i, q) \/ FillOf(x, i, q, Hows(q, b, v, p)))
  <2>1. CASE i \in 1 .. n
    <3>1. PICK q \in T : w[i].id = q.id /\ (AckOf(w, i, q) \/ FillOf(w, i, q, Hows(q, b, v, p)))
      BY <1>4, <2>1 DEF Tells
    <3>2. x[i] = w[i] /\ w[i].id # o.id
      BY <1>7, <1>9, <2>1
    <3>3. CASE AckOf(w, i, q)
      <4>1. \A j \in DOMAIN x : j < i => j \in 1 .. n
        BY <1>7, <2>1
      <4>2. AckOf(x, i, q)
        BY <1>4, <1>7, <3>2, <3>3, <4>1 DEF AckOf
      <4>. QED BY <3>1, <3>2, <4>2
    <3>4. CASE FillOf(w, i, q, Hows(q, b, v, p))
      <4>1. ASSUME NEW j \in DOMAIN x, j > i PROVE x[j].id # x[i].id
        <5>1. CASE j \in 1 .. n
          BY <1>4, <1>7, <3>2, <3>4, <4>1, <5>1 DEF FillOf
        <5>2. CASE j - n \in 1 .. l /\ j = n + (j - n)
          BY <1>2, <1>5, <1>7, <3>2, <5>2
        <5>. QED BY <1>7, <1>8, <5>1, <5>2
      <4>2. FillOf(x, i, q, Hows(q, b, v, p))
        BY <3>2, <3>4, <4>1 DEF FillOf
      <4>. QED BY <3>1, <3>2, <4>2
    <3>. QED BY <3>1, <3>3, <3>4
  <2>2. ASSUME NEW k \in 1 .. l, i = n + k
        PROVE  \E q \in T \cup {o} : x[i].id = q.id /\ (AckOf(x, i, q) \/ FillOf(x, i, q, Hows(q, b, v, p)))
    <3>1. x[i] = s[k] /\ s[k].id = o.id /\ (AckOf(s, k, o) \/ FillOf(s, k, o, Hows(o, b, v, p)))
      BY <1>2, <1>5, <1>7, <2>2 DEF Tells
    <3>2. CASE AckOf(s, k, o)
      <4>1. ASSUME NEW j \in DOMAIN x, j < i PROVE x[j].id # x[i].id
        <5>1. CASE j \in 1 .. n
          BY <1>7, <1>9, <3>1, <5>1
        <5>2. CASE j - n \in 1 .. l /\ j = n + (j - n)
          <6>1. j - n < k /\ s[j - n].id # s[k].id
            BY <1>5, <2>2, <3>2, <4>1, <5>2 DEF AckOf
          <6>. QED BY <1>2, <1>5, <3>1, <5>2, <6>1
        <5>. QED BY <1>7, <1>8, <5>1, <5>2
      <4>2. AckOf(x, i, o)
        BY <3>1, <3>2, <4>1 DEF AckOf
      <4>. QED BY <3>1, <4>2
    <3>3. CASE FillOf(s, k, o, Hows(o, b, v, p))
      <4>1. ASSUME NEW j \in DOMAIN x, j > i PROVE x[j].id # x[i].id
        <5>1. j - n \in 1 .. l /\ j = n + (j - n) /\ j - n > k
          BY <1>7, <2>2, <4>1
        <5>2. s[j - n].id # s[k].id
          BY <1>5, <3>3, <5>1 DEF FillOf
        <5>. QED BY <1>2, <1>5, <3>1, <5>1, <5>2
      <4>2. FillOf(x, i, o, Hows(o, b, v, p))
        BY <3>1, <3>3, <4>1 DEF FillOf
      <4>. QED BY <3>1, <4>2
    <3>. QED BY <3>1, <3>2, <3>3
  <2>. QED BY <1>8, <2>1, <2>2
<1>11. ASSUME NEW q \in T \cup {o}, ~q.acked PROVE Acks(x, q)
  <2>1. CASE q \in T
    <3>1. PICK i \in 1 .. n : w[i].id = q.id /\ w[i].event.type = "ack"
      BY <1>4, <1>11, <2>1 DEF Tells, Acks
    <3>2. i \in DOMAIN x /\ x[i] = w[i]
      BY <1>7
    <3>. QED BY <3>1, <3>2 DEF Acks
  <2>2. CASE q = o
    <3>1. PICK i \in 1 .. l : s[i].id = q.id /\ s[i].event.type = "ack"
      BY <1>2, <1>5, <1>11, <2>2 DEF Tells, Acks
    <3>2. n + i \in DOMAIN x /\ x[n + i] = s[i]
      BY <1>7
    <3>. QED BY <3>1, <3>2 DEF Acks
  <2>. QED BY <2>1, <2>2
<1>. QED BY <1>1, <1>6, <1>7, <1>10, <1>11 DEF Tells
(* A line is a queue of the live orders, each in one place of it.          *)
LEMMA LinedUp ==
  ASSUME NEW live, IsFiniteSet(live), NEW line \in [1 .. Sim!Cardinality(live) -> live],
         \A o \in live : \E k \in DOMAIN line : line[k] = o
  PROVE  \E n \in Nat : /\ n = Sim!Cardinality(live) /\ DOMAIN line = 1 .. n
                       /\ \A i, j \in 1 .. n : line[i] = line[j] => i = j
<1>1. PICK n : n = Cardinality(live)
  OBVIOUS
<1>2. n \in Nat /\ n = Sim!Cardinality(live)
  BY <1>1, FS_CardinalityType, SimCounts
<1>3. PICK D : D = 1 .. n
  OBVIOUS
<1>4. IsFiniteSet(D) /\ Cardinality(D) = n
  BY <1>2, <1>3, FS_Interval
<1>5. line \in [D -> live] /\ \A o \in live : \E k \in D : line[k] = o
  BY <1>2, <1>3
<1>6. line \in Surjection(D, live)
  BY <1>5 DEF Surjection
<1>7. line \in Injection(D, live)
  BY <1>1, <1>4, <1>6, FS_Surjection
<1>8. \A i, j \in D : line[i] = line[j] => i = j
  BY <1>7 DEF Injection, IsInjective
<1>. QED BY <1>2, <1>3, <1>5, <1>8

IsBatch(out, line, b, v, p) ==
  out = Sim!FoldLeft(LAMBDA w, o : w \o Sim!Events(o, Sim!HowFills(o, b, v, p)), <<>>, line)

LEMMA Batched ==
  ASSUME NEW live \in SUBSET Sim!Pendings, IsFiniteSet(live), \A q, r \in live : q.id = r.id => q = r,
         NEW line \in [1 .. Sim!Cardinality(live) -> live],
         \A o \in live : \E k \in DOMAIN line : line[k] = o,
         NEW b, NEW v, NEW p, NEW out, IsBatch(out, line, b, v, p)
  PROVE  Tells(out, live, b, v, p)
<1>1. PICK n \in Nat : /\ n = Sim!Cardinality(live) /\ DOMAIN line = 1 .. n
                      /\ \A i, j \in 1 .. n : line[i] = line[j] => i = j
  BY LinedUp
<1>2. \A k \in 1 .. n : line[k] \in live /\ line[k] \in Sim!Pendings
  BY <1>1
<1> DEFINE Acted(w, k) == w \o Sent(line[k], b, v, p)
           Folds(h) == h = [S \in SUBSET (1 .. n) |->
                             IF S = {} THEN <<>> ELSE Acted(h[S \ {Max(S)}], Max(S))]
<1>3. PICK W : W = Seq(Note)
  OBVIOUS
<1>4. <<>> \in W
  BY <1>3
<1>5. \A w \in W : \A k \in 1 .. n : Acted(w, k) \in W
  <2>1. ASSUME NEW w \in Seq(Note), NEW k \in 1 .. n, NEW s, s = Sent(line[k], b, v, p) PROVE w \o s \in Seq(Note)
    <3>1. s \in Seq(Note)
      BY <1>2, <2>1, SentTells DEF Tells
    <3>. QED BY <3>1
  <2>. QED BY <1>3, <2>1
<1>6. PICK step : step = [k \in 1 .. n |-> [w \in W |-> Acted(w, k)]]
  OBVIOUS
<1>7. \A w \in W : \A k \in 1 .. n : step[k][w] \in W /\ step[k][w] = Acted(w, k)
  <2> HIDE DEF Acted
  <2>. QED BY <1>5, <1>6
<1>8. out = (CHOOSE h : Folds(h))[1 .. n]
  BY <1>1 DEF IsBatch, Sim!FoldLeft, Sim!MapThenFoldSet, Max, Sim!Max, Sent, Hows
<1>9. ASSUME NEW h PROVE IsLeft(h, <<>>, step, 1 .. n) => Folds(h)
  <2>1. HAVE IsLeft(h, <<>>, step, 1 .. n)
  <2> HIDE DEF Acted
  <2>2. \A S \in SUBSET (1 .. n) : h[S] \in W
    BY <1>4, <1>7, <2>1, LeftStays
  <2>3. ASSUME NEW S \in SUBSET (1 .. n), S # {}
        PROVE  step[Max(S)][h[S \ {Max(S)}]] = Acted(h[S \ {Max(S)}], Max(S))
    <3>1. Max(S) \in 1 .. n
      <4>1. IsFiniteSet(1 .. n) /\ S \subseteq Int
        BY FS_Interval
      <4>2. IsFiniteSet(S)
        BY <4>1, FS_Subset
      <4>3. PICK w : w \in S
        BY <2>3
      <4>4. Max(S) \in S
        BY <4>1, <4>2, <4>3, MaxOfSet
      <4>. QED BY <4>4
    <3>2. h[S \ {Max(S)}] \in W
      BY <2>2
    <3>. QED BY <1>7, <3>1, <3>2
  <2>4. h = [S \in SUBSET (1 .. n) |-> IF S = {} THEN <<>> ELSE step[Max(S)][h[S \ {Max(S)}]]]
    BY <2>1 DEF IsLeft
  <2>5. [S \in SUBSET (1 .. n) |-> IF S = {} THEN <<>> ELSE step[Max(S)][h[S \ {Max(S)}]]]
        = [S \in SUBSET (1 .. n) |-> IF S = {} THEN <<>> ELSE Acted(h[S \ {Max(S)}], Max(S))]
    BY <2>3
  <2>. QED BY <2>4, <2>5
<1>10. PICK f : IsLeft(f, <<>>, step, 1 .. n)
  BY LeftExists
<1>11. PICK g : g = CHOOSE h : Folds(h)
  OBVIOUS
<1> HIDE DEF Folds
<1>12. Folds(g)
  BY <1>9, <1>10, <1>11
<1>13. g[1 .. 0] = <<>>
  <2>1. 1 .. 0 = {} /\ 1 .. 0 \in SUBSET (1 .. n)
    OBVIOUS
  <2>. QED BY <1>12, <2>1 DEF Folds
<1>14. \A k \in 1 .. n : g[1 .. k] = g[1 .. (k - 1)] \o Sent(line[k], b, v, p)
  <2> TAKE k \in 1 .. n
  <2>1. 1 .. k \in SUBSET (1 .. n) /\ 1 .. k # {} /\ Max(1 .. k) = k /\ (1 .. k) \ {Max(1 .. k)} = 1 .. (k - 1)
    BY PrefixMax
  <2>. QED BY <1>12, <2>1 DEF Folds
<1> DEFINE First(k) == {line[j] : j \in 1 .. k}
           B == {k \in 0 .. n : Tells(g[1 .. k], First(k), b, v, p)}
<1>15. \A k \in 0 .. n : k \in B
  <2>1. 0 \in B
    <3>1. First(0) = {}
      OBVIOUS
    <3>2. Tells(<<>>, {}, b, v, p)
      BY DEF Tells
    <3>3. 0 \in 0 .. n
      OBVIOUS
    <3>4. Tells(g[1 .. 0], First(0), b, v, p)
      <4> HIDE DEF First
      <4>. QED BY <1>13, <3>1, <3>2
    <3>. QED BY <3>3, <3>4
  <2>2. \A k \in 1 .. n : k - 1 \in B => k \in B
    <3> TAKE k \in 1 .. n
    <3>1. HAVE Tells(g[1 .. (k - 1)], First(k - 1), b, v, p)
    <3>2. First(k) = First(k - 1) \cup {line[k]}
      <4>1. \A j \in 1 .. k : j \in 1 .. k - 1 \/ j = k
        OBVIOUS
      <4>2. k \in 1 .. k /\ \A j \in 1 .. k - 1 : j \in 1 .. k
        OBVIOUS
      <4>. QED BY <4>1, <4>2
    <3>3. \A q \in First(k - 1) : q.id # line[k].id
      <4>1. \A j \in 1 .. k - 1 : j \in 1 .. n /\ j # k
        OBVIOUS
      <4>. QED BY <1>1, <1>2, <4>1
    <3>4. PICK w : w = g[1 .. (k - 1)]
      OBVIOUS
    <3>5. PICK T : T = First(k - 1)
      OBVIOUS
    <3>6. PICK o \in Sim!Pendings : o = line[k]
      BY <1>2
    <3>7. Tells(w \o Sent(o, b, v, p), T \cup {o}, b, v, p)
      <4> HIDE DEF First
      <4>. QED BY <3>1, <3>3, <3>4, <3>5, <3>6, TellsBoth
    <3>8. Tells(g[1 .. k], First(k), b, v, p)
      <4> HIDE DEF First
      <4>. QED BY <1>14, <3>2, <3>4, <3>5, <3>6, <3>7
    <3>. QED BY <3>8
  <2> HIDE DEF B
  <2>. QED BY <2>1, <2>2, PrefixInduction
<1>16. First(n) = live
  BY <1>1, <1>2
<1>17. n \in 0 .. n
  OBVIOUS
<1>. QED BY <1>8, <1>11, <1>15, <1>16, <1>17
After(o, b, v, p) == [o EXCEPT !.acked = TRUE, !.queueAhead = Sim!Queued(o, b, v, p)]
LiveNow == {o \in v2 : ~Sim!InFlight(o)}

(* What a market event does, the batch apart. *)
Stepped(b, v, p, batch) ==
  /\ v1' = {b} /\ UNCHANGED <<v4, v5, v6, v7, v8>>
  /\ v2' = (v2 \ LiveNow) \cup {After(o, b, v, p) : o \in {x \in LiveNow : Hows(x, b, v, p) = "no"}}
  /\ v3' = v3 \o batch
  /\ v10' = v10 \cup {[id |-> o.id, at |-> v5, how |-> Hows(o, b, v, p)] : o \in {x \in LiveNow : Hows(x, b, v, p) # "no"}}
  /\ v9' = [id \in SimOrders |->
             IF \E o \in v2 : o.id = id /\ v5 >= v8[id].at /\ o.limit = p
               THEN Sim!Min({v9[id] + v, SimTraded}) ELSE v9[id]]

LEMMA StepDoes ==
  ASSUME Simulated, NEW b \in SimBooks, NEW v \in 0 .. 1, NEW p \in SimLimits, Sim!Step(b, v, p)
  PROVE  \E batch : Stepped(b, v, p, batch) /\ Tells(batch, LiveNow, b, v, p)
<1>1. LiveNow \in SUBSET Sim!Pendings /\ IsFiniteSet(LiveNow) /\ \A q, r \in LiveNow : q.id = r.id => q = r
  <2>1. LiveNow \in SUBSET v2
    BY DEF LiveNow
  <2>2. IsFiniteSet(LiveNow)
    BY <2>1, FS_Subset DEF Simulated, Queueing
  <2>. QED BY <2>1, <2>2, WaitingIs
<1>2. PICK line \in [1 .. Sim!Cardinality(LiveNow) -> LiveNow] :
        /\ \A o \in LiveNow : \E k \in DOMAIN line : line[k] = o
        /\ v3' = v3 \o Sim!FoldLeft(LAMBDA w, o : w \o Sim!Events(o, Sim!HowFills(o, b, v, p)), <<>>, line)
  BY DEF Sim!Step, LiveNow
<1>3. PICK batch : IsBatch(batch, line, b, v, p)
  BY DEF IsBatch
<1>4. v3' = v3 \o batch
  BY <1>2, <1>3 DEF IsBatch
<1>5. Stepped(b, v, p, batch)
  BY <1>4 DEF Sim!Step, Stepped, LiveNow, After, Hows
<1>6. Tells(batch, LiveNow, b, v, p)
  BY <1>1, <1>2, <1>3, Batched
<1>. QED BY <1>5, <1>6
LEMMA LeastOfTwo == \A x, y \in Nat : Sim!Min({x, y}) = IF x <= y THEN x ELSE y
<1> TAKE x, y \in Nat
<1>1. PICK m : m = IF x <= y THEN x ELSE y
  OBVIOUS
<1>2. m \in {x, y} /\ \A z \in {x, y} : m <= z
  BY <1>1
<1>3. \A z \in {x, y} : (\A q \in {x, y} : z <= q) => z = m
  BY <1>1
<1>. QED BY <1>1, <1>2, <1>3 DEF Sim!Min

(* The trades that count for an order's place in its queue.                *)
LEMMA TradedGrows ==
  ASSUME Simulated, NEW b, NEW v \in 0 .. 1, NEW p, NEW batch, Stepped(b, v, p, batch)
  PROVE  /\ v9' \in [SimOrders -> 0 .. SimTraded]
         /\ \A id \in SimOrders : v9'[id] >= v9[id]
         /\ \A o \in v2 : v5 >= o.visibleAt /\ o.limit = p =>
              v9'[o.id] = SimTraded \/ v9'[o.id] = v9[o.id] + v
<1>1. SimTraded \in Nat /\ v \in Nat
  BY SimAssumption
<1>2. \A id \in SimOrders : v9[id] \in 0 .. SimTraded /\ v9[id] \in Nat
  BY <1>1 DEF Simulated, Queueing
<1>3. ASSUME NEW x \in 0 .. SimTraded
      PROVE  /\ Sim!Min({x + v, SimTraded}) \in 0 .. SimTraded /\ Sim!Min({x + v, SimTraded}) >= x
             /\ Sim!Min({x + v, SimTraded}) = SimTraded \/ Sim!Min({x + v, SimTraded}) = x + v
  <2>1. x + v \in Nat
    BY <1>1
  <2>2. Sim!Min({x + v, SimTraded}) = IF x + v <= SimTraded THEN x + v ELSE SimTraded
    BY <1>1, <2>1, LeastOfTwo
  <2>. QED BY <1>1, <2>2
<1>4. ASSUME NEW id \in SimOrders
      PROVE  /\ v9'[id] \in 0 .. SimTraded /\ v9'[id] >= v9[id]
             /\ (\E o \in v2 : o.id = id /\ v5 >= v8[id].at /\ o.limit = p) =>
                  v9'[id] = SimTraded \/ v9'[id] = v9[id] + v
  <2>1. PICK x \in 0 .. SimTraded : x = v9[id]
    BY <1>2
  <2>2. v9'[id] = IF \E o \in v2 : o.id = id /\ v5 >= v8[id].at /\ o.limit = p
                  THEN Sim!Min({x + v, SimTraded}) ELSE x
    BY <2>1 DEF Stepped
  <2>3. CASE \E o \in v2 : o.id = id /\ v5 >= v8[id].at /\ o.limit = p
    BY <1>3, <2>1, <2>2, <2>3
  <2>4. CASE ~\E o \in v2 : o.id = id /\ v5 >= v8[id].at /\ o.limit = p
    <3>1. v9'[id] = x
      BY <2>2, <2>4
    <3>. QED BY <1>1, <2>1, <2>4, <3>1
  <2>. QED BY <2>3, <2>4
<1>5. v9' \in [SimOrders -> 0 .. SimTraded]
  <2>1. v9' = [id \in SimOrders |-> v9'[id]]
    BY DEF Stepped
  <2>. QED BY <1>4, <2>1
<1>. QED BY <1>4, <1>5, WaitingIs

LEMMA HowsAre ==
  ASSUME NEW o, NEW b, NEW v, NEW p
  PROVE  /\ Hows(o, b, v, p) \in {"no", "sweep", "through", "queue"}
         /\ Hows(o, b, v, p) = "queue" => p = o.limit /\ ~(o.queueAhead > v)
  BY DEF Hows, Sim!HowFills, Sim!Behind

LEMMA AfterIs ==
  ASSUME NEW o \in Sim!Pendings, NEW b, NEW v \in 0 .. 1, NEW p, NEW q, q = After(o, b, v, p)
  PROVE  /\ q \in Sim!Pendings /\ q.id = o.id /\ q.qty = o.qty /\ q.visibleAt = o.visibleAt /\ q.acked
         /\ q.queueAhead = o.queueAhead \/ (q.queueAhead = o.queueAhead - v /\ p = o.limit)
<1>1. PICK ahead : ahead = Sim!Queued(o, b, v, p)
  OBVIOUS
<1>2. o.queueAhead \in Int
  BY PendingFields
<1>3. ahead = o.queueAhead \/ (ahead = o.queueAhead - v /\ p = o.limit)
  BY <1>1 DEF Sim!Queued
<1>4. ahead \in Int
  BY <1>2, <1>3
<1>5. q = [o EXCEPT !.acked = TRUE, !.queueAhead = ahead]
  BY <1>1 DEF After
<1>6. q = [id |-> o.id, side |-> o.side, qty |-> o.qty, limit |-> o.limit, visibleAt |-> o.visibleAt,
           acked |-> TRUE, queueAhead |-> ahead]
  BY <1>5 DEF Sim!Pendings
<1>7. q \in Sim!Pendings
  BY <1>4, <1>6 DEF Sim!Pendings
<1>. QED BY <1>3, <1>6, <1>7

(* What waits after a market event waited before it, and is of the same    *)
(* order.                                                                  *)
Before(q, o, b, v, p) ==
  /\ q.id = o.id /\ q.qty = o.qty /\ q.visibleAt = o.visibleAt /\ q \in Sim!Pendings
  /\ \/ o \notin LiveNow /\ q = o
     \/ /\ o \in LiveNow /\ Hows(o, b, v, p) = "no" /\ q = After(o, b, v, p) /\ q.acked
        /\ q.queueAhead = o.queueAhead \/ (q.queueAhead = o.queueAhead - v /\ p = o.limit)

LEMMA WaitedBefore ==
  ASSUME Simulated, NEW b, NEW v \in 0 .. 1, NEW p, NEW batch, Stepped(b, v, p, batch)
  PROVE  \A q \in v2' : \E o \in v2 : Before(q, o, b, v, p)
<1> SUFFICES ASSUME NEW q \in v2' PROVE \E o \in v2 : Before(q, o, b, v, p)
  OBVIOUS
<1>1. CASE q \in v2 \ LiveNow
  BY <1>1, WaitingIs DEF Before
<1>2. ASSUME NEW o \in LiveNow, Hows(o, b, v, p) = "no", q = After(o, b, v, p)
      PROVE  \E x \in v2 : Before(q, x, b, v, p)
  <2>1. o \in v2 /\ o \in Sim!Pendings
    BY WaitingIs DEF LiveNow
  <2>. QED BY <1>2, <2>1, AfterIs DEF Before
<1>. QED BY <1>1, <1>2 DEF Stepped

LEMMA WaitingStaysFinite ==
  ASSUME Simulated, NEW b, NEW v, NEW p, NEW batch, Stepped(b, v, p, batch)
  PROVE  IsFiniteSet(v2')
<1>1. PICK K : K = {x \in LiveNow : Hows(x, b, v, p) = "no"}
  OBVIOUS
<1>2. PICK f : f = [o \in K |-> After(o, b, v, p)]
  OBVIOUS
<1>3. PICK T : T = {After(o, b, v, p) : o \in K}
  OBVIOUS
<1>4. IsFiniteSet(v2)
  BY DEF Simulated, Queueing
<1>5. K \subseteq v2 /\ (v2 \ LiveNow) \subseteq v2
  BY <1>1 DEF LiveNow
<1>6. IsFiniteSet(K) /\ IsFiniteSet(v2 \ LiveNow)
  BY <1>4, <1>5, FS_Subset
<1>7. f \in Surjection(K, T)
  <2>1. \A o \in K : f[o] \in T
    BY <1>2, <1>3
  <2>2. \A t \in T : \E o \in K : f[o] = t
    BY <1>2, <1>3
  <2>3. f \in [K -> T]
    BY <1>2, <1>3
  <2>. QED BY <2>2, <2>3 DEF Surjection
<1>8. IsFiniteSet(T)
  BY <1>6, <1>7, FS_Surjection
<1>9. v2' = (v2 \ LiveNow) \cup T
  BY <1>1, <1>3 DEF Stepped
<1>. QED BY <1>6, <1>8, <1>9, FS_Union
(* The fills a market event makes are earned. *)
LEMMA FillsEarned ==
  ASSUME Simulated, NEW b, NEW v \in 0 .. 1, NEW p, NEW batch, Stepped(b, v, p, batch)
  PROVE  Earned'
<1> DEFINE Filled == {x \in LiveNow : Hows(x, b, v, p) # "no"}
<1>1. PICK New : New = {[id |-> o.id, at |-> v5, how |-> Hows(o, b, v, p)] : o \in Filled}
  OBVIOUS
<1>2. v10' = v10 \cup New /\ UNCHANGED <<v4, v5, v8>>
  BY <1>1 DEF Stepped
<1>3. /\ v5 \in Nat /\ v10 \subseteq Fate /\ Sim!IdsOf(v10) \cap Sim!IdsOf(v2) = {}
      /\ \A f \in v10 : f.at >= v8[f.id].at /\ (f.how = "queue" => v9[f.id] >= v8[f.id].queue)
      /\ \A f, g \in v10 : f.id = g.id => f = g
  BY SimAssumption DEF Simulated, Around, Earned
<1>4. \A id \in SimOrders : /\ v9[id] \in Nat /\ v9'[id] \in Nat /\ v9'[id] >= v9[id] /\ v9[id] <= SimTraded
                            /\ v9'[id] <= SimTraded /\ v8[id].at \in Nat /\ v8[id].queue \in Nat /\ v8[id].queue <= SimTraded
  <2>1. v9' \in [SimOrders -> 0 .. SimTraded] /\ \A id \in SimOrders : v9'[id] >= v9[id]
    BY TradedGrows
  <2>2. v9 \in [SimOrders -> 0 .. SimTraded] /\ v8 \in [SimOrders -> [at : Nat, queue : 0 .. SimTraded]]
    BY DEF Simulated, Queueing
  <2>3. SimTraded \in Nat
    BY SimAssumption
  <2>. QED BY <2>1, <2>2, <2>3
<1>5. \A f \in v10 : f.id \in v4 /\ f.id \in SimOrders
  BY <1>3 DEF Fate, Simulated, Recorded
<1>6. ASSUME NEW f \in New
      PROVE  \E o \in Filled : f.id = o.id /\ f = [id |-> o.id, at |-> v5, how |-> Hows(o, b, v, p)]
  BY <1>1
<1>7. \A o \in Filled : o \in v2 /\ o \in LiveNow /\ v5 >= o.visibleAt /\ Hows(o, b, v, p) \in {"sweep", "through", "queue"}
  <2> TAKE o \in Filled
  <2>1. o \in v2 /\ ~(v5 < o.visibleAt)
    BY DEF LiveNow, Sim!InFlight
  <2>2. v5 >= o.visibleAt
    BY <1>3, <2>1, WaitingIs
  <2>. QED BY <2>1, <2>2, HowsAre
<1> HIDE DEF Filled
<1>8. \A f \in New : /\ f \in Fate /\ f.at = v5 /\ f.at >= v8[f.id].at
                     /\ f.how = "queue" => v9'[f.id] >= v8[f.id].queue
  <2> TAKE f \in New
  <2>1. PICK o \in Filled : f.id = o.id /\ f = [id |-> o.id, at |-> v5, how |-> Hows(o, b, v, p)]
    BY <1>6
  <2>2. /\ o \in v2 /\ v5 >= o.visibleAt /\ o.id \in v4 /\ o.id \in SimOrders /\ o.visibleAt = v8[o.id].at
        /\ o.queueAhead \in Int
        /\ v9[o.id] + o.queueAhead >= v8[o.id].queue \/ v9[o.id] = SimTraded
    BY <1>7, WaitingIs
  <2>3. f \in Fate
    BY <1>3, <1>7, <2>1, <2>2 DEF Fate
  <2>4. ASSUME f.how = "queue" PROVE v9'[o.id] >= v8[o.id].queue
    <3>1. p = o.limit /\ ~(o.queueAhead > v)
      BY <2>1, <2>4, HowsAre
    <3>2. v9'[o.id] = SimTraded \/ v9'[o.id] = v9[o.id] + v
      BY <2>2, <3>1, TradedGrows
    <3>. QED BY <1>4, <2>2, <3>1, <3>2
  <2>. QED BY <2>1, <2>2, <2>3, <2>4
<1>9. v10' \subseteq Fate'
  BY <1>2, <1>3, <1>8 DEF Fate
<1>10. \A f \in v10' : f.at >= v8'[f.id].at /\ (f.how = "queue" => v9'[f.id] >= v8'[f.id].queue)
  <2>1. \A f \in v10 : f.how = "queue" => v9'[f.id] >= v8[f.id].queue
    BY <1>3, <1>4, <1>5
  <2>. QED BY <1>2, <1>3, <1>8, <2>1
<1>11. \A f \in v10 : \A g \in New : f.id # g.id
  BY <1>3, <1>6, <1>7 DEF Sim!IdsOf
<1>12. \A f, g \in New : f.id = g.id => f = g
  <2> TAKE f, g \in New
  <2>1. PICK o \in Filled : f.id = o.id /\ f = [id |-> o.id, at |-> v5, how |-> Hows(o, b, v, p)]
    BY <1>6
  <2>2. PICK q \in Filled : g.id = q.id /\ g = [id |-> q.id, at |-> v5, how |-> Hows(q, b, v, p)]
    BY <1>6
  <2>3. o.id = q.id => o = q
    BY <1>7, WaitingIs
  <2>. QED BY <2>1, <2>2, <2>3
<1>13. \A f, g \in v10' : f.id = g.id => f = g
  BY <1>2, <1>3, <1>11, <1>12
<1>14. Sim!IdsOf(v10') \cap Sim!IdsOf(v2') = {}
  <2>1. ASSUME NEW q \in v2', NEW f \in v10', f.id = q.id PROVE FALSE
    <3>1. PICK o \in v2 : Before(q, o, b, v, p)
      BY WaitedBefore
    <3>2. CASE f \in v10
      BY <1>3, <2>1, <3>1, <3>2 DEF Before, Sim!IdsOf
    <3>3. CASE f \in New
      <4>1. PICK x \in Filled : f.id = x.id
        BY <1>6, <3>3
      <4>2. x = o
        BY <1>7, <2>1, <3>1, <4>1, WaitingIs DEF Before
      <4>3. x \in LiveNow /\ Hows(x, b, v, p) # "no"
        BY DEF Filled
      <4>. QED BY <3>1, <4>2, <4>3 DEF Before
    <3>. QED BY <1>2, <2>1, <3>2, <3>3
  <2>. QED BY <2>1 DEF Sim!IdsOf
<1>. QED BY <1>9, <1>10, <1>13, <1>14 DEF Earned

(* What an order that still waits is told. *)
LEMMA WaitingKeeps ==
  ASSUME Simulated, NEW b, NEW v \in 0 .. 1, NEW p, NEW batch, Stepped(b, v, p, batch), Tells(batch, LiveNow, b, v, p)
  PROVE  Sim!PendingSent' /\ Sim!QueuesKept'
<1>1. v3 \in Seq(Note) /\ batch \in Seq(Note) /\ v3' = v3 \o batch /\ UNCHANGED <<v4, v6, v8>>
  BY DEF Simulated, Around, Tells, Stepped
<1>2. PICK n \in Nat : n = Len(v3) /\ DOMAIN v3 = 1 .. n
  BY <1>1
<1>3. PICK l \in Nat : l = Len(batch) /\ DOMAIN batch = 1 .. l
  BY <1>1
<1>4. /\ DOMAIN v3' = 1 .. n + l
      /\ \A i \in 1 .. n : v3'[i] = v3[i]
      /\ \A i \in 1 .. l : n + i \in 1 .. n + l /\ v3'[n + i] = batch[i]
      /\ \A i \in 1 .. n + l : i \in 1 .. n \/ (i - n \in 1 .. l /\ v3'[i] = batch[i - n])
  BY <1>1, <1>2, <1>3
<1>5. ASSUME NEW id
      PROVE  Sim!AckSent(id)' <=> Sim!AckSent(id) \/ \E i \in 1 .. l : batch[i].id = id /\ batch[i].event.type = "ack"
  <2>1. ASSUME Sim!AckSent(id)'
        PROVE  Sim!AckSent(id) \/ \E i \in 1 .. l : batch[i].id = id /\ batch[i].event.type = "ack"
    BY <1>2, <1>4, <2>1 DEF Sim!AckSent
  <2>2. ASSUME Sim!AckSent(id) PROVE Sim!AckSent(id)'
    <3>1. \A i \in 1 .. n : i \in 1 .. n + l
      OBVIOUS
    <3>. QED BY <1>2, <1>4, <2>2, <3>1 DEF Sim!AckSent
  <2>3. ASSUME NEW i \in 1 .. l, batch[i].id = id, batch[i].event.type = "ack" PROVE Sim!AckSent(id)'
    BY <1>4, <2>3 DEF Sim!AckSent
  <2>. QED BY <2>1, <2>2, <2>3
<1>6. ASSUME NEW i \in 1 .. l, batch[i].event.type = "ack"
      PROVE  \E o \in LiveNow : batch[i].id = o.id /\ ~o.acked
  BY <1>3, <1>6 DEF Tells, AckOf, FillOf
<1>7. ASSUME NEW o \in LiveNow, ~o.acked
      PROVE  \E i \in 1 .. l : batch[i].id = o.id /\ batch[i].event.type = "ack"
  BY <1>3, <1>7 DEF Tells, Acks
<1>8. LiveNow \subseteq v2
  BY DEF LiveNow
<1>9. ASSUME NEW q \in v2', NEW o \in v2, Before(q, o, b, v, p)
      PROVE  /\ q.id \in v4 /\ v6[q.id].qty = q.qty /\ v6[q.id].filledQty = 0
             /\ v6[q.id].state = IF q.acked /\ ~Sim!AckSent(q.id)' THEN "ACK" ELSE "SUBMITTED"
             /\ Sim!AckSent(q.id)' => q.acked
  <2>1. /\ q.id = o.id /\ q.qty = o.qty /\ o.id \in v4 /\ v6[o.id].qty = o.qty /\ v6[o.id].filledQty = 0
        /\ v6[o.id].state = IF o.acked /\ ~Sim!AckSent(o.id) THEN "ACK" ELSE "SUBMITTED"
        /\ Sim!AckSent(o.id) => o.acked
    BY <1>9, WaitingIs DEF Before
  <2>2. CASE o \in LiveNow /\ ~o.acked
    BY <1>5, <1>7, <1>9, <2>1, <2>2 DEF Before
  <2>3. CASE o \notin LiveNow \/ o.acked
    <3>1. \A i \in 1 .. l : ~(batch[i].id = o.id /\ batch[i].event.type = "ack")
      BY <1>6, <1>8, <2>3, WaitingIs
    <3>2. Sim!AckSent(o.id)' <=> Sim!AckSent(o.id)
      BY <1>5, <3>1
    <3>3. q.acked <=> o.acked
      BY <1>9, <2>3 DEF Before
    <3>. QED BY <2>1, <3>2, <3>3
  <2>. QED BY <2>2, <2>3
<1>10. ASSUME NEW q \in v2', NEW r \in v2', q.id = r.id PROVE q = r
  <2>1. PICK o \in v2 : Before(q, o, b, v, p)
    BY WaitedBefore
  <2>2. PICK x \in v2 : Before(r, x, b, v, p)
    BY WaitedBefore
  <2>3. o.id = x.id
    BY <1>10, <2>1, <2>2 DEF Before
  <2>4. o = x
    BY <2>3, WaitingIs
  <2>. QED BY <2>1, <2>2, <2>4 DEF Before
<1>11. Sim!PendingSent'
  BY <1>1, <1>9, <1>10, WaitedBefore DEF Sim!PendingSent
<1>12. ASSUME NEW q \in v2', NEW o \in v2, Before(q, o, b, v, p)
       PROVE  /\ q.visibleAt = v8[q.id].at
              /\ v9'[q.id] + q.queueAhead >= v8[q.id].queue \/ v9'[q.id] = SimTraded
  <2>1. /\ q.id = o.id /\ q.visibleAt = o.visibleAt /\ o.visibleAt = v8[o.id].at /\ o.id \in SimOrders
        /\ o.queueAhead \in Int /\ o.visibleAt \in Nat
        /\ v9[o.id] + o.queueAhead >= v8[o.id].queue \/ v9[o.id] = SimTraded
    BY <1>12, WaitingIs DEF Before
  <2>2. /\ v9' \in [SimOrders -> 0 .. SimTraded] /\ v9'[o.id] >= v9[o.id]
        /\ v5 >= o.visibleAt /\ o.limit = p => v9'[o.id] = SimTraded \/ v9'[o.id] = v9[o.id] + v
    BY <2>1, TradedGrows
  <2>3. /\ SimTraded \in Nat /\ v9[o.id] \in Nat /\ v9'[o.id] \in Nat /\ v9'[o.id] <= SimTraded
        /\ v8[o.id].queue \in Nat /\ v5 \in Nat
    <3>1. SimTraded \in Nat /\ v5 \in Nat
      BY SimAssumption DEF Simulated, Around
    <3>. QED BY <2>1, <2>2, <3>1 DEF Simulated, Queueing
  <2>4. q.queueAhead = o.queueAhead \/ (q.queueAhead = o.queueAhead - v /\ p = o.limit /\ o \in LiveNow)
    BY <1>12 DEF Before
  <2>5. o \in LiveNow => v5 >= o.visibleAt
    BY <2>1, <2>3 DEF LiveNow, Sim!InFlight
  <2>. QED BY <2>1, <2>2, <2>3, <2>4, <2>5
<1>13. Sim!QueuesKept'
  BY <1>1, <1>12, WaitedBefore DEF Sim!QueuesKept
<1>. QED BY <1>11, <1>13
(* What is on its way after a market event. *)
LEMMA UnderwayKeeps ==
  ASSUME Simulated, NEW b, NEW v \in 0 .. 1, NEW p, NEW batch, Stepped(b, v, p, batch), Tells(batch, LiveNow, b, v, p)
  PROVE  v3' \in Seq(Note) /\ Sim!EventsTaken'
<1>1. v3 \in Seq(Note) /\ batch \in Seq(Note) /\ v3' = v3 \o batch /\ UNCHANGED <<v4, v6>>
  BY DEF Simulated, Around, Tells, Stepped
<1>2. PICK n \in Nat : n = Len(v3) /\ DOMAIN v3 = 1 .. n
  BY <1>1
<1>3. PICK l \in Nat : l = Len(batch) /\ DOMAIN batch = 1 .. l
  BY <1>1
<1>4. /\ v3' \in Seq(Note) /\ DOMAIN v3' = 1 .. n + l
      /\ \A i \in 1 .. n : v3'[i] = v3[i]
      /\ \A i \in 1 .. l : v3'[n + i] = batch[i]
  BY <1>1, <1>2, <1>3
<1>5. \A i \in 1 .. n + l : i \in 1 .. n \/ (i - n \in 1 .. l /\ i = n + (i - n))
  OBVIOUS
<1>6. \A i \in 1 .. n : Underway(i) /\ v3[i].id \in v4
  BY <1>2, UnderwayIs, EventAt DEF Simulated, AllUnderway
<1>7. \A i \in 1 .. l : \E o \in LiveNow :
        batch[i].id = o.id /\ (AckOf(batch, i, o) \/ FillOf(batch, i, o, Hows(o, b, v, p)))
  BY <1>3 DEF Tells
<1>8. LiveNow \subseteq v2
  BY DEF LiveNow
<1>9. Sim!IdsOf(v2') \subseteq Sim!IdsOf(v2)
  BY WaitedBefore DEF Before, Sim!IdsOf
<1>10. \A i \in 1 .. l : batch[i].id \in Sim!IdsOf(v2)
  BY <1>7, <1>8 DEF Sim!IdsOf
<1>11. ASSUME NEW i \in 1 .. n PROVE Underway(i)'
  <2>1. i \in 1 .. n + l /\ v3'[i] = v3[i] /\ \A j \in 1 .. i - 1 : v3'[j] = v3[j]
    BY <1>4
  <2>2. CASE v3[i].event.type = "ack"
    <3>1. /\ v3[i].id \in v4 /\ v6[v3[i].id].state = "SUBMITTED" /\ v6[v3[i].id].filledQty = 0
          /\ \A j \in 1 .. i - 1 : v3[j].id # v3[i].id
      BY <1>6, <2>2 DEF Underway
    <3>2. \A j \in 1 .. i - 1 : v3'[j].id # v3'[i].id
      BY <2>1, <3>1
    <3>. QED BY <1>1, <2>1, <2>2, <3>1, <3>2 DEF Underway
  <2>3. CASE v3[i].event.type # "ack"
    <3>1. v3[i].id \notin Sim!IdsOf(v2) /\ \A j \in 1 .. n : j > i => v3[j].id # v3[i].id
      BY <1>2, <1>6, <2>3 DEF Underway
    <3>2. ASSUME NEW j \in 1 .. n + l, j > i PROVE v3'[j].id # v3'[i].id
      <4>1. CASE j \in 1 .. n
        BY <1>4, <2>1, <3>1, <3>2, <4>1
      <4>2. CASE j - n \in 1 .. l /\ j = n + (j - n)
        BY <1>4, <1>10, <2>1, <3>1, <4>2
      <4>. QED BY <1>5, <4>1, <4>2
    <3>3. \A j \in DOMAIN v3' : j > i => v3'[j].id # v3'[i].id
      BY <1>4, <3>2
    <3>4. v3'[i].id \notin Sim!IdsOf(v2')
      BY <1>9, <2>1, <3>1
    <3>. QED BY SMTT(40), <1>1, <1>6, <2>1, <2>3, <3>3, <3>4 DEF Underway
  <2>. QED BY <2>2, <2>3
<1>12. ASSUME NEW k \in 1 .. l, NEW i, i = n + k PROVE Underway(i)'
  <2>1. PICK o \in LiveNow : batch[k].id = o.id /\ (AckOf(batch, k, o) \/ FillOf(batch, k, o, Hows(o, b, v, p)))
    BY <1>7
  <2>2. i \in 1 .. n + l /\ v3'[i] = batch[k]
    BY <1>4, <1>12
  <2>3. /\ o \in v2 /\ o.id \in v4 /\ v6[o.id].qty = o.qty /\ v6[o.id].filledQty = 0
        /\ v6[o.id].state \in {"SUBMITTED", "ACK"} /\ (Sim!AckSent(o.id) => o.acked)
        /\ (~o.acked => v6[o.id].state = "SUBMITTED")
    BY <1>8, WaitingIs
  <2>4. CASE AckOf(batch, k, o)
    <3>1. batch[k].event.type = "ack" /\ ~o.acked
      BY <2>4 DEF AckOf
    <3>2. \A j \in 1 .. n : v3[j].id # o.id
      <4>1. SUFFICES ASSUME NEW j \in 1 .. n, v3[j].id = o.id PROVE FALSE
        OBVIOUS
      <4>2. v3[j].event.type = "ack" => Sim!AckSent(o.id)
        BY <1>2, <4>1 DEF Sim!AckSent
      <4>3. v3[j].event.type # "ack" => o.id \notin Sim!IdsOf(v2)
        BY <1>6, <4>1 DEF Underway
      <4>. QED BY <2>3, <3>1, <4>2, <4>3 DEF Sim!IdsOf
    <3>3. ASSUME NEW j \in 1 .. i - 1 PROVE v3'[j].id # v3'[i].id
      <4>1. j \in 1 .. n + l /\ j < i
        BY <2>2
      <4>2. CASE j \in 1 .. n
        BY <1>4, <2>1, <2>2, <3>2, <4>2
      <4>3. CASE j - n \in 1 .. l /\ j = n + (j - n)
        <5>1. j - n < k
          BY <1>12, <4>1, <4>3
        <5>2. batch[j - n].id # batch[k].id
          BY <1>3, <2>4, <4>3, <5>1 DEF AckOf
        <5>. QED BY <1>4, <2>2, <4>3, <5>2
      <4>. QED BY <1>5, <4>1, <4>2, <4>3
    <3>. QED BY <1>1, <2>1, <2>2, <2>3, <3>1, <3>3 DEF Underway
  <2>5. CASE FillOf(batch, k, o, Hows(o, b, v, p))
    <3>1. batch[k].event.type = "fill" /\ batch[k].event.qty = o.qty /\ Hows(o, b, v, p) # "no"
      BY <2>5 DEF FillOf
    <3>2. o.id \notin Sim!IdsOf(v2')
      <4>1. SUFFICES ASSUME NEW q \in v2', q.id = o.id PROVE FALSE
        BY DEF Sim!IdsOf
      <4>2. PICK x \in v2 : Before(q, x, b, v, p)
        BY WaitedBefore
      <4>3. x.id = o.id
        BY <4>1, <4>2 DEF Before
      <4>4. x = o
        BY <2>3, <4>3, WaitingIs
      <4>. QED BY <3>1, <4>2, <4>4 DEF Before
    <3>3. ASSUME NEW j \in DOMAIN v3', j > i PROVE v3'[j].id # v3'[i].id
      <4>1. j - n \in 1 .. l /\ j = n + (j - n) /\ j - n > k
        BY <1>4, <1>12, <3>3
      <4>2. batch[j - n].id # batch[k].id
        BY <1>3, <2>5, <4>1 DEF FillOf
      <4>. QED BY <1>4, <2>2, <4>1, <4>2
    <3>. QED BY <1>1, <2>1, <2>2, <2>3, <3>1, <3>2, <3>3 DEF Underway
  <2>. QED BY <2>1, <2>4, <2>5
<1>13. \A i \in DOMAIN v3' : Underway(i)'
  BY <1>4, <1>5, <1>11, <1>12
<1>14. AllUnderway'
  BY <1>13 DEF AllUnderway
<1>15. Sim!EventsTaken'
  BY <1>14, UnderwayIs, PTL
<1>. QED BY <1>4, <1>15

LEMMA StepKeeps ==
  ASSUME Simulated, NEW b \in SimBooks, NEW v \in 0 .. 1, NEW p \in SimLimits, Sim!Step(b, v, p)
  PROVE  Simulated'
<1>1. PICK batch : Stepped(b, v, p, batch) /\ Tells(batch, LiveNow, b, v, p)
  BY StepDoes
<1>2. v3' \in Seq(Note) /\ Sim!EventsTaken' /\ Sim!PendingSent' /\ Sim!QueuesKept'
  BY <1>1, UnderwayKeeps, WaitingKeeps
<1>3. Earned'
  BY <1>1, FillsEarned
<1>4. Recorded'
  BY <1>1 DEF Stepped, Simulated, Recorded
<1>5. Around'
  BY <1>1, <1>2 DEF Stepped, Simulated, Around
<1>6. Queueing'
  <2>1. v2' \subseteq Sim!Pendings
    BY <1>1, WaitedBefore DEF Before
  <2>2. IsFiniteSet(v2') /\ v9' \in [SimOrders -> 0 .. SimTraded]
    BY <1>1, WaitingStaysFinite, TradedGrows
  <2>. QED BY <1>1, <2>1, <2>2 DEF Stepped, Simulated, Queueing
<1>. QED BY <1>2, <1>3, <1>4, <1>5, <1>6 DEF Simulated

LEMMA SimulatedIs == Sim!SimInv <=> Simulated
  BY SimInvIs DEF Simulated

LEMMA SimSteps == ASSUME Sim!SimInv, Sim!Next PROVE Sim!SimInv'
<1>1. Simulated
  BY SimulatedIs
<1>2. Simulated'
  <2>1. Sim!Sides = Sides
    BY SimOperators
  <2>. QED BY <1>1, <2>1, SubmitKeeps, CancelKeeps, StepKeeps, DrainKeeps, TimeKeeps DEF Sim!Next
<1>. QED BY <1>2, SimulatedIs, PTL
=============================================================================
