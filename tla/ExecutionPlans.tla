--------------------------- MODULE ExecutionPlans ---------------------------
(***************************************************************************)
(* smartExec.ts: the planners that turn one intent into child orders, the  *)
(* re-peg of a resting order, and the slippage guard over the book         *)
(* (core/events.ts).  Quantities and prices are integers and `step' says   *)
(* how many of them make one exchange-legal unit.                          *)
(***************************************************************************)
EXTENDS Integers, Sequences, SequencesExt, FiniteSetsExt

LOCAL D == INSTANCE Decimals WITH DivMargin <- 0

Round(x, step)     == D!RoundToStep(D!Dec(x, 0), D!Dec(step, 0), "HALF_UP").c
RoundDown(x, step) == D!RoundToStep(D!Dec(x, 0), D!Dec(step, 0), "DOWN").c
LOCAL Abs(n) == IF n < 0 THEN -n ELSE n
LOCAL Total(children) == FoldLeft(LAMBDA sum, c : sum + c.qty, 0, children)

Child(at, qty, slice) == [at |-> at, qty |-> qty, slice |-> slice]
-----------------------------------------------------------------------------
PlanTwapDropsRest(qty, slices, window, startAt, step, dust) ==   \* mutant: the last slice like the others
  LET perSlice == RoundDown((qty \div slices) - dust, step)
  IN  [i \in 1 .. slices |-> Child(startAt, perSlice, i - 1)]

(* planTwap.  qty / slices is a float: when the quotient is exact `dust'   *)
(* says whether it came out a hair short, as 0.3 / 3 does, and RoundDown   *)
(* then loses a whole step.                                                *)
PlanTwap(qty, slices, window, startAt, step, dust) ==
  LET perSlice == RoundDown((qty \div slices) - (IF qty % slices = 0 THEN dust ELSE 0), step)
      last     == Round(qty - perSlice * (slices - 1), step)
      gap      == IF slices > 1 THEN window \div (slices - 1) ELSE 0
      sized    == [i \in 1 .. slices |->
                     Child(startAt + (i - 1) * gap, IF i = slices THEN last ELSE perSlice, i - 1)]
  IN  IF slices <= 0 \/ window < 0 THEN <<>>
      ELSE IF perSlice <= 0 THEN <<Child(startAt, qty, 0)>>
      ELSE SelectSeq(sized, LAMBDA c : c.qty > 0)

(* planIceberg: clips of the display size until nothing remains.           *)
PlanIceberg(qty, displayQty, startAt, step) ==
  LET display == RoundDown(displayQty, step)
      clips[remaining \in 0 .. qty + step] ==
        LET clip == Round(Min({display, remaining}), step)
        IN  IF remaining <= 0 \/ clip <= 0 THEN <<>>
            ELSE <<clip>> \o clips[Max({0, Round(remaining - clip, step)})]
  IN  IF display <= 0 \/ display >= qty THEN <<Child(startAt, qty, 0)>>
      ELSE [i \in DOMAIN clips[qty] |-> Child(startAt, clips[qty][i], i - 1)]

PlanRepegAlways(side, price, touch, repegs, maxRepegs) ==   \* mutant: chases both ways
  IF repegs >= maxRepegs \/ touch = price THEN price ELSE touch

(* planRepeg: the price the order rests at afterwards.                     *)
PlanRepeg(side, price, touch, repegs, maxRepegs) ==
  LET movedAway == IF side = "buy" THEN touch > price ELSE touch < price
  IN  IF repegs >= maxRepegs \/ touch = price \/ ~movedAway THEN price ELSE touch
-----------------------------------------------------------------------------
(* What a sweep of `qty' costs from levels, best first; -1 when they do    *)
(* not hold so much.                                                       *)
SweepCost(levels, qty) ==
  LET swept == FoldLeft(LAMBDA acc, level :
                 LET take == Min({acc.remaining, level.size})
                 IN  [remaining |-> acc.remaining - take, notional |-> acc.notional + take * level.price],
               [remaining |-> qty, notional |-> 0], levels)
  IN  IF qty <= 0 \/ swept.remaining > 0 THEN -1 ELSE swept.notional

(* checkSlippage, with the mid as the sum of the two touches.              *)
Proceeds(side, bids, asks, qty, limitBps) ==
  LET cost == SweepCost(IF side = "buy" THEN asks ELSE bids, qty)
      mid2 == Head(bids).price + Head(asks).price
      paid == IF side = "buy" THEN 2 * cost - qty * mid2 ELSE qty * mid2 - 2 * cost
  IN  bids # <<>> /\ asks # <<>> /\ cost >= 0 /\ paid * 10000 <= limitBps * qty * mid2
-----------------------------------------------------------------------------
(* A schedule works its parent: the children add up to the quantity, and   *)
(* to within half a step when the quantity is no multiple of the step;     *)
(* times never go back and end inside the window; slices never repeat.     *)
TwapAddsUp(qty, slices, window, step, dust) ==
  LET plan == PlanTwap(qty, slices, window, 0, step, dust)
  IN  /\ 2 * Abs(Total(plan) - qty) <= step /\ (qty % step = 0 => Total(plan) = qty)
      /\ \A i \in DOMAIN plan : plan[i].qty > 0 /\ plan[i].at \in 0 .. window
      /\ \A i, j \in DOMAIN plan : i < j => plan[i].at <= plan[j].at /\ plan[i].slice < plan[j].slice

(* Same for an iceberg, no clip of which shows more than the display size  *)
(* unless it is the only one.                                              *)
IcebergAddsUp(qty, display, step) ==
  LET plan == PlanIceberg(qty, display, 0, step)
  IN  /\ 2 * Abs(Total(plan) - qty) <= step /\ (qty % step = 0 => Total(plan) = qty)
      /\ Len(plan) > 1 => \A i \in DOMAIN plan : plan[i].qty <= display

(* A re-pegged order follows the touch away and never back, at most        *)
(* maxRepegs times: until they are used up it rests at the best touch      *)
(* there was.                                                              *)
RepegFollows(side, start, touches, maxRepegs) ==
  LET rested == FoldLeft(LAMBDA o, touch :
                  LET next == PlanRepeg(side, o.price, touch, o.repegs, maxRepegs)
                  IN  [price |-> next, repegs |-> o.repegs + (IF next = o.price THEN 0 ELSE 1)],
                [price |-> start, repegs |-> 0], touches)
      seen   == {start} \cup ToSet(touches)
      best   == IF side = "buy" THEN Max(seen) ELSE Min(seen)
  IN  /\ rested.repegs <= maxRepegs /\ rested.price \in seen
      /\ IF side = "buy" THEN rested.price >= start ELSE rested.price <= start
      /\ rested.repegs < maxRepegs => rested.price = best

(* The guard is monotone: what it lets through it lets through in a        *)
(* smaller size and under a wider limit, and never past the visible depth. *)
GuardMonotone(bids, asks, qty, limitBps) ==
  \A side \in {"buy", "sell"} :
    Proceeds(side, bids, asks, qty, limitBps) =>
      /\ \A q \in 1 .. qty : Proceeds(side, bids, asks, q, limitBps)
      /\ Proceeds(side, bids, asks, qty, limitBps + 1)
      /\ qty <= FoldLeft(LAMBDA sum, l : sum + l.size, 0, IF side = "buy" THEN asks ELSE bids)
=============================================================================
