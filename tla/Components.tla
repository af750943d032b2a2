----------------------------- MODULE Components -----------------------------
(***************************************************************************)
(* Five components side by side: one of them runs in a behaviour, `part'   *)
(* says which, and the slots v1, v2, ... are its variables.  Their bounds  *)
(* are constants, so that ComponentProofs holds for all of them.  Services *)
(* has further components, MCParts the modules of pure functions.          *)
(***************************************************************************)
EXTENDS Slots, Integers, Sequences, FiniteSets

CONSTANTS
  GateSymbols, GateMark, GateCorrelated, GateEquities,   \* RiskGate
  GatePosition, GateAggregate, GateLeverage, GateCluster,
  GateOrders, GateWindow, GateQty, GateClock, GateAccepted,
  PaceCategories, PaceCapacity, PaceRefill, PaceDelay,   \* RateScheduler
  PaceClock, PaceSends, PaceHits,
  KillSymbols, KillTriggers, KillHeld, KillOrders,       \* KillSwitch
  Nonces, WindowMs, FutureTolerance, IntakeClock,        \* SignalIntake
  Ids, DeskClock, DeskStarts                             \* StrategyDesk

ASSUME GateAssumption   == /\ IsFiniteSet(GateSymbols) /\ GateMark \in [GateSymbols -> Nat]
                           /\ {GatePosition, GateAggregate, GateCluster, GateOrders} \subseteq Nat
                           /\ {GateWindow, GateClock} \subseteq Nat
ASSUME PaceAssumption   == {PaceCapacity, PaceRefill, PaceDelay, PaceClock, PaceSends, PaceHits} \subseteq Nat
ASSUME KillAssumption   == KillHeld \subseteq Int
ASSUME IntakeAssumption == {WindowMs, IntakeClock} \subseteq Nat
ASSUME DeskAssumption   == /\ DeskClock \in Nat \ {0} /\ DeskStarts \in Nat /\ Ids # {} /\ IsFiniteSet(Ids)
                           /\ None \notin [id : Ids, v : Nat]
                           /\ None \notin [id : Ids, v : Nat, enabled : BOOLEAN]
                           /\ None \notin [enabled : BOOLEAN, v : Nat, at : Nat]

-----------------------------------------------------------------------------
Gate == INSTANCE RiskGate WITH
  Symbols <- GateSymbols, Mark <- GateMark, Correlated <- GateCorrelated, Equities <- GateEquities,
  MaxPosition <- GatePosition, MaxAggregate <- GateAggregate, MaxLeverage <- GateLeverage,
  MaxCorrelated <- GateCluster, MaxOrders <- GateOrders, Window <- GateWindow,
  MaxQty <- GateQty, MaxClock <- GateClock, MaxAccepted <- GateAccepted,
  breaker <- v1, recent <- v2, positions <- v3, marked <- v4, breaches <- v5, now <- v6,
  inflight <- v7, accepted <- v8, crowded <- v9, condemned <- v10, broken <- v11

Pace == INSTANCE RateScheduler WITH
  Categories <- PaceCategories, Capacity <- PaceCapacity, Refill <- PaceRefill, MaxDelay <- PaceDelay,
  MaxNow <- PaceClock, MaxSends <- PaceSends, MaxHits <- PaceHits,
  tokens <- v1, lastRefill <- v2, backoffUntil <- v3, hits <- v4, time <- v5,
  flying <- v6, sends <- v7, demanded <- v8

Kill == INSTANCE KillSwitch WITH
  Symbols <- KillSymbols, Triggers <- KillTriggers, Held <- KillHeld, MaxOrders <- KillOrders,
  worker <- v1, armed <- v2, panics <- v3, resting <- v4, positions <- v5,
  orders <- v6, noise <- v7, reversed <- v8

Intake == INSTANCE SignalIntake WITH
  MaxNow <- IntakeClock,
  clock <- v1, nonces <- v2, taken <- v3, twice <- v4

Desk == INSTANCE StrategyDesk WITH
  MaxClock <- DeskClock, MaxStarts <- DeskStarts,
  table <- v1, clock <- v2, active <- v3, state <- v4, starts <- v5, feed <- v6,
  form <- v7, orphan <- v8, swapped <- v9, behind <- v10, calls <- v11
=============================================================================
