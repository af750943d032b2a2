------------------------------ MODULE RiskGate ------------------------------
(***************************************************************************)
(* The risk engine of packages/risk and its circuit breaker: one gate all  *)
(* intents pass, over a portfolio that fills and marks change behind it.   *)
(*                                                                         *)
(* A symbol has one price, Mark[s]; the caller always knows it, the        *)
(* portfolio only once it has a mark.  Which loss limits the account has   *)
(* reached (daily loss, drawdown) is a set the market moves.  The texts    *)
(* of decisions and the decision log are left out.                         *)
(***************************************************************************)
EXTENDS Integers, Sequences, FiniteSetsExt

CONSTANTS Symbols,
          Mark,              \* price of each symbol
          Correlated,        \* the pairs {a, b} at or above the threshold
          Equities,          \* what equity may be, in quote currency
          MaxPosition, MaxAggregate, MaxLeverage, MaxCorrelated,
          MaxOrders, Window, \* maxOrdersPerWindow, rateWindowMs
          MaxQty, MaxClock, MaxAccepted  \* bounds

VARIABLES breaker,     \* CircuitBreaker.current
          recent,      \* RiskEngine.recentOrders
          positions,   \* PortfolioState.positions
          marked,      \* symbols with an entry in PortfolioState.marks
          breaches,    \* loss limits the account is at or beyond
          now,         \* event time
          inflight,    \* accepted orders the venue has not filled
          accepted,    \* history: times of all accepted orders
          crowded,     \* history: an order was checked over one in flight or over an unmarked position
          condemned,   \* history: an evaluation found a breach and nobody reset the breaker since
          broken       \* history: new risk was accepted while condemned

vars == <<breaker, recent, positions, marked, breaches, now, inflight,
          accepted, crowded, condemned, broken>>

States  == {"NORMAL", "DEGRADED", "HALT"}
Limits  == {"DAILY_LOSS", "DRAWDOWN"}
Intents == [symbol : Symbols, signed : {-1, 1}, qty : 0 .. MaxQty,
            reduceOnly : BOOLEAN, farPrice : BOOLEAN]

Severity == [NORMAL |-> 0, DEGRADED |-> 1, HALT |-> 2]

(* A breaker only goes up by itself. *)
Escalated(to) == IF Severity[to] > Severity[breaker] THEN to ELSE breaker

Abs(n) == IF n < 0 THEN -n ELSE n

Worth(s) == Abs(positions[s]) * Mark[s]

TotalNotional == MapThenSumSet(Worth, marked)

CorrelatedNotional(s) ==
  MapThenSumSet(Worth, {t \in marked : t = s \/ {s, t} \in Correlated})

(* pruneRateWindow: what is too old is dropped from the front. *)
DroppedBefore(cutoff) ==
  LET old == {k \in 0 .. Len(recent) : \A j \in 1 .. k : recent[j] < cutoff}
  IN  SubSeq(recent, Max(old) + 1, Len(recent))

(* Mutant of Pruned: the window forgets an order one moment early. *)
PrunedEarly == DroppedBefore(now - Window + 1)

Pruned == DroppedBefore(now - Window)

Sane(i) == i.qty > 0
Blocked(i) == breaker # "NORMAL" /\ ~i.reduceOnly
Bursting == Len(Pruned) >= MaxOrders

SizeFits(i, equity) ==
  LET notional  == i.qty * Mark[i.symbol]
      aggregate == TotalNotional + notional
  IN  /\ Worth(i.symbol) + notional <= MaxPosition
      /\ aggregate <= MaxAggregate
      /\ equity > 0 => aggregate <= MaxLeverage * equity
      /\ CorrelatedNotional(i.symbol) + notional <= MaxCorrelated

Allowed(i, equity) ==
  /\ Sane(i) /\ ~Blocked(i) /\ ~Bursting /\ ~i.farPrice
  /\ i.reduceOnly \/ SizeFits(i, equity)

Init == /\ breaker = "NORMAL" /\ recent = <<>> /\ now = 0
        /\ positions = [s \in Symbols |-> 0] /\ marked = {} /\ breaches = {}
        /\ inflight = {} /\ accepted = <<>>
        /\ crowded = FALSE /\ condemned = FALSE /\ broken = FALSE

(* evaluatePortfolio *)
EvaluatePortfolio ==
  /\ breaker' = IF breaches # {} THEN Escalated("HALT") ELSE breaker
  /\ condemned' = (condemned \/ breaches # {})
  /\ UNCHANGED <<recent, positions, marked, breaches, now, inflight, accepted, crowded, broken>>

(* Anything else that escalates the breaker: the host's data quality rules. *)
Degrade ==
  /\ breaker' = Escalated("DEGRADED")
  /\ UNCHANGED <<recent, positions, marked, breaches, now, inflight, accepted, crowded, condemned, broken>>

(* The operator's reset: the only way back to NORMAL. *)
Reset ==
  /\ breaker # "NORMAL"
  /\ breaker' = "NORMAL" /\ condemned' = FALSE
  /\ UNCHANGED <<recent, positions, marked, breaches, now, inflight, accepted, crowded, broken>>

(* check: the window is pruned once sanity and the breaker are passed.     *)
Check(i, equity) ==
  /\ Len(accepted) < MaxAccepted
  /\ LET yes  == Allowed(i, equity)
         kept == IF Sane(i) /\ ~Blocked(i) THEN Pruned ELSE recent
     IN  /\ recent' = IF yes THEN Append(kept, now) ELSE kept
         /\ accepted' = IF yes THEN Append(accepted, now) ELSE accepted
         /\ inflight' = IF yes THEN inflight \cup {[i EXCEPT !.qty = i.signed * i.qty]} ELSE inflight
         /\ crowded' = \/ crowded
                       \/ yes /\ (inflight # {} \/ \E s \in Symbols \ marked : positions[s] # 0)
         /\ broken' = (broken \/ (yes /\ condemned /\ ~i.reduceOnly))
  /\ UNCHANGED <<breaker, positions, marked, breaches, now, condemned>>

(* The venue fills an order; a reduce-only one shrinks the position or does nothing. *)
Fills(o) ==
  LET held  == positions[o.symbol]
      delta == IF ~o.reduceOnly THEN o.qty
               ELSE IF held * o.qty >= 0 THEN 0
               ELSE o.signed * Min({Abs(o.qty), Abs(held)})
  IN  /\ positions' = [positions EXCEPT ![o.symbol] = @ + delta]
      /\ inflight' = inflight \ {o}
      /\ UNCHANGED <<breaker, recent, marked, breaches, now, accepted, crowded, condemned, broken>>

(* The account and its marks move. *)
AccountMoves ==
  /\ \/ \E b \in Limits : breaches' = (breaches \ {b}) \cup ({b} \ breaches) /\ UNCHANGED marked
     \/ \E s \in Symbols \ marked : marked' = marked \cup {s} /\ UNCHANGED breaches
  /\ UNCHANGED <<breaker, recent, positions, now, inflight, accepted, crowded, condemned, broken>>

TimePasses ==
  /\ now < MaxClock /\ now' = now + 1
  /\ UNCHANGED <<breaker, recent, positions, marked, breaches, inflight, accepted, crowded, condemned, broken>>

Next == \/ EvaluatePortfolio \/ Degrade \/ Reset \/ AccountMoves \/ TimePasses
        \/ \E i \in Intents, equity \in Equities : Check(i, equity)
        \/ \E o \in inflight : Fills(o)

Spec == Init /\ [][Next]_vars
-----------------------------------------------------------------------------
TypeOk == /\ breaker \in States /\ recent \in Seq(0 .. MaxClock) /\ now \in 0 .. MaxClock
          /\ positions \in [Symbols -> Int] /\ marked \subseteq Symbols /\ breaches \subseteq Limits
          /\ accepted \in Seq(0 .. MaxClock) /\ {crowded, condemned, broken} \subseteq BOOLEAN

(* No span of Window sees more than MaxOrders accepted orders, although    *)
(* denied checks prune recentOrders too and the window slides.             *)
WithinRate ==
  \A t \in 0 .. MaxClock :
     Cardinality({k \in DOMAIN accepted : accepted[k] \in t .. t + Window}) <= MaxOrders

(* As long as each order is filled before the next is checked and all      *)
(* positions are marked, what is held respects the caps.  The code sees    *)
(* neither orders in flight nor unmarked positions (engine.ts:236, 300).   *)
WithinCaps ==
  ~crowded =>
     /\ \A s \in Symbols : Worth(s) <= MaxPosition
     /\ MapThenSumSet(Worth, Symbols) <= MaxAggregate
     /\ \A s, t \in Symbols : s # t /\ {s, t} \in Correlated => Worth(s) + Worth(t) <= MaxCorrelated

(* Once an evaluation found a loss limit reached no new risk is accepted   *)
(* until an operator's reset, even if the account recovers meanwhile.      *)
HaltHolds == ~broken

(* The gate as a whole: caps, rate and breaker hold. *)
GateHolds == WithinCaps /\ WithinRate /\ HaltHolds
-----------------------------------------------------------------------------
(* The inductive invariant behind GateHolds, of PartsProofs.               *)
Sent == [symbol : Symbols, signed : {-1, 1}, qty : Int, reduceOnly : BOOLEAN, farPrice : BOOLEAN]

GateTypes ==
  /\ positions \in [Symbols -> Int] /\ marked \subseteq Symbols /\ crowded \in BOOLEAN
  /\ now \in Nat /\ recent \in Seq(Nat) /\ accepted \in Seq(Nat)
  /\ inflight \subseteq Sent
  /\ \A o \in inflight : IF o.signed = 1 THEN o.qty >= 0 ELSE o.qty <= 0

(* A condemned account has a breaker that is not NORMAL, for a rule that   *)
(* escalates to DEGRADED after the loss never lowers it.                   *)
BreakerInv == /\ breaker \in States
              /\ condemned => breaker # "NORMAL"
              /\ ~broken

(* The rate window is the end of what was accepted, and what was dropped   *)
(* from it lies before the window; so an order and the MaxOrders-th after  *)
(* it are more than a window apart.                                        *)
Dropped == Len(accepted) - Len(recent)

RateInv ==
  /\ Dropped >= 0
  /\ \A k \in 1 .. Len(recent) : recent[k] = accepted[Dropped + k]
  /\ \A k \in 1 .. Dropped : accepted[k] < now - Window
  /\ \A k \in 1 .. Len(accepted) : accepted[k] <= now
  /\ \A j, k \in 1 .. Len(accepted) : j <= k => accepted[j] <= accepted[k]
  /\ \A j \in 1 .. Len(accepted) - MaxOrders : accepted[j + MaxOrders] > accepted[j] + Window

(* There is one order in flight at most, and what it adds still fits.      *)
RoomFor(o) ==
  LET notional == Abs(o.qty) * Mark[o.symbol]
  IN  /\ Worth(o.symbol) + notional <= MaxPosition
      /\ MapThenSumSet(Worth, Symbols) + notional <= MaxAggregate
      /\ \A t \in Symbols \ {o.symbol} : {o.symbol, t} \in Correlated =>
            Worth(o.symbol) + Worth(t) + notional <= MaxCorrelated

CapsInv == ~crowded => /\ \A o, p \in inflight : o = p
                       /\ \A o \in inflight : o.reduceOnly \/ RoomFor(o)

GateInv == GateTypes /\ BreakerInv /\ RateInv /\ CapsInv /\ WithinCaps
=============================================================================
