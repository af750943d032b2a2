----------------------------- MODULE KillSwitch -----------------------------
(***************************************************************************)
(* packages/execution/src/killSwitch.ts: a worker with its own listener    *)
(* that cancels all orders, lists the positions and closes each with a     *)
(* reduce-only market order, one awaited request after the other.  The     *)
(* engine it does not share anything with goes on trading meanwhile, and a *)
(* second trigger starts a second flatten.                                 *)
(*                                                                         *)
(* A request is executed or not and answered, refused with an error code   *)
(* the worker does not look at, or timed out (executed or not).  Unknown   *)
(* paths and requests without the token change nothing and are left out.   *)
(***************************************************************************)
EXTENDS Integers

CONSTANTS Symbols, Triggers,
          Held,        \* what a position may be at first
          MaxOrders    \* bound on the engine's orders

VARIABLES worker,     \* "starting", "ready", "failed", "slow", "orphaned", "terminated"
          armed,
          panics,     \* per trigger: [at, left, clean]; at is the next request, left the positions to close
          resting,    \* the venue: [symbol, signed] of resting orders
          positions,  \* the venue
          orders,     \* how many orders the engine placed
          noise,      \* history: triggers since which the engine placed an order
          reversed    \* history: a flatten turned a position round

vars == <<worker, armed, panics, resting, positions, orders, noise, reversed>>

Abs(n)  == IF n < 0 THEN -n ELSE n
Sign(n) == IF n > 0 THEN 1 ELSE IF n < 0 THEN -1 ELSE 0

(* How a request goes; late is one that is executed but times out.         *)
Outcomes == {"done", "code", "lost", "late"}
Executes(out) == out \in {"done", "late"}

(* Mutant of Then: flatten first, then cancel. *)
ThenSwapped == [idle |-> "list", list |-> "close", close |-> "cancel", cancel |-> "answered"]

(* Cancel first, then flatten. *)
Then == [idle |-> "cancel", cancel |-> "list", list |-> "close", close |-> "answered"]

Idle == [at |-> "idle", left |-> {}, clean |-> TRUE]

Init == /\ worker = "starting" /\ armed = TRUE
        /\ panics = [p \in Triggers |-> Idle]
        /\ resting = {} /\ positions \in [Symbols -> Held]
        /\ orders = 0 /\ noise = {} /\ reversed = FALSE

(* startKillSwitch resolves, fails on an error or gives up after ten       *)
(* seconds; a slow worker it gave up on still comes up, with no handle.    *)
Starts ==
  /\ \/ worker = "starting" /\ worker' \in {"ready", "failed", "slow"}
     \/ worker = "slow" /\ worker' = "orphaned"
  /\ UNCHANGED <<armed, panics, resting, positions, orders, noise, reversed>>

Serves == worker \in {"ready", "orphaned"}

(* The handle's stop(): what is suspended never goes on. *)
Terminates ==
  /\ worker = "ready" /\ worker' = "terminated"
  /\ UNCHANGED <<armed, panics, resting, positions, orders, noise, reversed>>

(* POST /kill, armed or not. *)
Trigger(p) ==
  /\ Serves /\ panics[p].at = "idle"
  /\ armed' = FALSE
  /\ panics' = [panics EXCEPT ![p].at = Then["idle"]]
  /\ UNCHANGED <<worker, resting, positions, orders, noise, reversed>>

Rearm ==
  /\ Serves /\ ~armed
  /\ armed' = TRUE
  /\ UNCHANGED <<worker, panics, resting, positions, orders, noise, reversed>>

At(p, step) == Serves /\ panics[p].at = step

CancelAll(p, out) ==
  /\ At(p, "cancel")
  /\ resting' = IF Executes(out) THEN {} ELSE resting
  /\ panics' = [panics EXCEPT ![p].at = Then["cancel"], ![p].clean = @ /\ Executes(out)]
  /\ UNCHANGED <<worker, armed, positions, orders, noise, reversed>>

(* The list may fail: then there is nothing to close, and the sequence goes on. *)
ListPositions(p, out) ==
  /\ At(p, "list")
  /\ panics' = [panics EXCEPT ![p] =
       [at    |-> Then["list"],
        left  |-> IF out = "done" THEN {[symbol |-> s, size |-> positions[s]] : s \in Symbols} ELSE {},
        clean |-> @.clean /\ out = "done"]]
  /\ UNCHANGED <<worker, armed, resting, positions, orders, noise, reversed>>

Opposite(held) == -Sign(held.size)

(* What a reduce-only order of the listed size does to the position there is now. *)
Reduced(held) ==
  LET now == positions[held.symbol]
  IN  IF Sign(now) # Sign(held.size) THEN now
      ELSE IF Sign(now + Opposite(held) * Abs(held.size)) # Sign(now) THEN 0
      ELSE now + Opposite(held) * Abs(held.size)

(* Mutant of Closed: the order is not reduce-only. *)
ClosedPlainly(held) == positions[held.symbol] - held.size

Closed(held) == Reduced(held)

ClosePosition(p, held, out) ==
  /\ At(p, "close") /\ held \in panics[p].left
  /\ LET sent == held.size # 0 /\ Executes(out)
     IN  /\ positions' = IF sent THEN [positions EXCEPT ![held.symbol] = Closed(held)] ELSE positions
         /\ panics' = [panics EXCEPT ![p].left = @ \ {held},
                                     ![p].clean = @ /\ (held.size = 0 \/ Executes(out))]
         /\ reversed' = (reversed \/ Sign(positions[held.symbol]) * Sign(positions'[held.symbol]) < 0
                                  \/ (positions[held.symbol] = 0 /\ positions'[held.symbol] # 0))
  /\ UNCHANGED <<worker, armed, resting, orders, noise>>

ClosesDone(p) ==
  /\ At(p, "close") /\ panics[p].left = {}
  /\ panics' = [panics EXCEPT ![p].at = Then["close"]]
  /\ UNCHANGED <<worker, armed, resting, positions, orders, noise, reversed>>

(* The engine places an order that rests. *)
EnginePlaces(s, signed) ==
  /\ orders < MaxOrders /\ orders' = orders + 1
  /\ resting' = resting \cup {[symbol |-> s, signed |-> signed]}
  /\ noise' = noise \cup {p \in Triggers : panics[p].at # "idle"}
  /\ UNCHANGED <<worker, armed, panics, positions, reversed>>

VenueFills(o) ==
  /\ resting' = resting \ {o}
  /\ positions' = [positions EXCEPT ![o.symbol] = @ + o.signed]
  /\ UNCHANGED <<worker, armed, panics, orders, noise, reversed>>

Next == \/ Starts \/ Terminates \/ Rearm
        \/ \E p \in Triggers : \/ Trigger(p) \/ ClosesDone(p)
                               \/ \E out \in Outcomes : CancelAll(p, out) \/ ListPositions(p, out)
                               \/ \E held \in panics[p].left, out \in Outcomes : ClosePosition(p, held, out)
        \/ \E s \in Symbols, signed \in {-1, 1} : EnginePlaces(s, signed)
        \/ \E o \in resting : VenueFills(o)

Spec == Init /\ [][Next]_vars
-----------------------------------------------------------------------------
TypeOk == /\ worker \in {"starting", "slow", "ready", "orphaned", "failed", "terminated"} /\ armed \in BOOLEAN
          /\ \A p \in Triggers : panics[p].at \in DOMAIN Then \cup {"answered"}
          /\ positions \in [Symbols -> Int] /\ noise \subseteq Triggers

(* A flatten of which every request was executed, and during which the     *)
(* engine placed nothing, leaves no position and no resting order behind;  *)
(* and flattens that overlap each other or the venue's fills never turn a  *)
(* position round.  Nothing is claimed once a request                      *)
(* failed: the switch answers ok all the same (killSwitch.ts:139-145).     *)
KillFlattens ==
  /\ \A p \in Triggers :
        panics[p].at = "answered" /\ panics[p].clean /\ p \notin noise =>
          resting = {} /\ \A s \in Symbols : positions[s] = 0
  /\ ~reversed
-----------------------------------------------------------------------------
(* The inductive invariant behind KillFlattens, of PartsProofs: once a     *)
(* flatten's cancel was executed and the engine keeps quiet, nothing rests *)
(* and so nothing fills; each position that is left is on its list, and    *)
(* other flattens have at most shrunk it since it was listed.              *)
Steps   == {"idle", "cancel", "list", "close", "answered"}
Listed  == [symbol : Symbols, size : Int]
Resting == [symbol : Symbols, signed : {-1, 1}]

KillTypes == /\ panics \in [Triggers -> [at : Steps, left : SUBSET Listed, clean : BOOLEAN]]
             /\ positions \in [Symbols -> Int]
             /\ resting \subseteq Resting

Quiet(p) == panics[p].clean /\ p \notin noise

Covers(size, held) == \/ 0 < held /\ held <= size
                      \/ size <= held /\ held < 0

Flattening(p) == Quiet(p) =>
  /\ panics[p].at \in {"list", "close", "answered"} => resting = {}
  /\ panics[p].at = "close" =>
       \A s \in Symbols : positions[s] # 0 =>
         \E held \in panics[p].left : held.symbol = s /\ Covers(held.size, positions[s])
  /\ panics[p].at = "answered" => \A s \in Symbols : positions[s] = 0

KillInv == KillTypes /\ (\A p \in Triggers : Flattening(p)) /\ ~reversed
=============================================================================
