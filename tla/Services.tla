------------------------------ MODULE Services ------------------------------
(***************************************************************************)
(* Further components side by side, as in Components: the simulated        *)
(* broker, the paper account and the market data service.  Their bounds    *)
(* are constants, so that ServiceProofs holds for all of them.             *)
(***************************************************************************)
EXTENDS Slots, Integers, Sequences, FiniteSets

CONSTANTS
  SimOrders, SimBooks, SimLimits, SimLatency, SimSlipPart,   \* SimBroker
  SimQty, SimClock, SimTraded,
  PaperPairs, PaperPrices, PaperSignals,                 \* PaperDesk
  PaperStop, PaperTarget, PaperTrailing, PaperPosition, PaperRiskCap, PaperMinQty,
  PaperMaxQty, PaperFee, PaperEquity, PaperDailyLoss, PaperFlatten, PaperTrades, PaperTurns,
  TopSymbols, TopBooks, TopPrices, TopChanges            \* MarketData

(* What the proofs ask of the constants: that None is none of the things   *)
(* it is told apart from, that numbers are numbers, and that no queue is   *)
(* longer than the simulator's history of trades counts.                   *)
ASSUME SimAssumption ==
  /\ SimBooks \subseteq [bid : Nat, ask : Nat, size : 0 .. SimTraded] /\ SimLimits \subseteq Nat
  /\ {SimLatency, SimQty, SimClock, SimTraded} \subseteq Nat
ASSUME PaperAssumption ==
  /\ PaperPairs \in Seq(STRING) /\ PaperPrices \subseteq Nat \ {0}
  /\ \A k \in DOMAIN PaperPairs : PaperSignals[PaperPairs[k]] \subseteq {"LONG", "SHORT"}
  /\ {PaperStop, PaperTarget, PaperTrailing, PaperPosition, PaperMinQty, PaperMaxQty, PaperFee,
      PaperEquity, PaperDailyLoss} \subseteq Int
  /\ {PaperRiskCap, PaperTrades, PaperTurns} \subseteq Nat
ASSUME MarketAssumption ==
  /\ TopChanges \in Nat /\ None \notin TopBooks /\ None \notin TopPrices
  /\ None \notin [micro : TopBooks \cup {None}, bookFresh : BOOLEAN, lastPrice : TopPrices \cup {None}, bars : Nat]

-----------------------------------------------------------------------------
Sim == INSTANCE SimBroker WITH
  Orders <- SimOrders, Books <- SimBooks, Limits <- SimLimits, Latency <- SimLatency,
  SlipPart <- SimSlipPart, MaxQty <- SimQty, MaxNow <- SimClock, MaxTraded <- SimTraded,
  books <- v1, pending <- v2, outbox <- v3, seen <- v4, now <- v5, record <- v6,
  refused <- v7, start <- v8, traded <- v9, fills <- v10

Paper == INSTANCE PaperDesk WITH
  Pairs <- PaperPairs, Prices <- PaperPrices, Signals <- PaperSignals,
  StopLossPct <- PaperStop, TakeProfitPct <- PaperTarget, TrailingStopPct <- PaperTrailing,
  MaxPositionSize <- PaperPosition, GlobalRiskCap <- PaperRiskCap,
  MinOrderQty <- PaperMinQty, MaxOrderQty <- PaperMaxQty, FeePct <- PaperFee,
  StartingEquity <- PaperEquity, MaxDailyLossPct <- PaperDailyLoss, FlattenOnTrip <- PaperFlatten,
  NoPrice <- 0, MaxTrades <- PaperTrades, MaxTurns <- PaperTurns,
  trades <- v1, marks <- v2, paperEquity <- v3, tripped <- v4, dayStart <- v5,
  recorded <- v6, day <- v7, lives <- v8, tick <- v9

Market == INSTANCE MarketData WITH
  Symbols <- TopSymbols, Tops <- TopBooks, Prices <- TopPrices, MaxChanges <- TopChanges,
  running <- v1, watched <- v2, books <- v3, tickers <- v4, features <- v5, shown <- v6,
  late <- v7, changes <- v8
=============================================================================
