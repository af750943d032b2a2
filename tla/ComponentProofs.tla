-------------------------- MODULE ComponentProofs --------------------------
(***************************************************************************)
(* Why the risk gate, the signal intake, the strategies table, the kill    *)
(* switch and the rate scheduler keep their inductive invariants, which    *)
(* stand in their modules, for every value of the constants.  v1, v2, ...  *)
(* are their variables, as the instances of Components say.                *)
(***************************************************************************)
EXTENDS Components, Lemmas
-----------------------------------------------------------------------------
(* The risk gate: the breaker, the rate window, the positions, the marks,  *)
(* the breaches, the time, orders in flight and accepted, and whether the  *)
(* account is crowded, condemned, broken.                                  *)
LEMMA EscalatedUp ==
  ASSUME v1 \in Gate!States, NEW to \in Gate!States \ {"NORMAL"}
  PROVE  Gate!Escalated(to) \in Gate!States \ {"NORMAL"}
<1>1. Gate!Severity["NORMAL"] = 0 /\ Gate!Severity["DEGRADED"] = 1 /\ Gate!Severity["HALT"] = 2
  BY DEF Gate!Severity
<1>2. QED
  BY <1>1 DEF Gate!Escalated, Gate!States

(* The rate window r over what was accepted, a, at time t. *)
RateOf(a, r, t) ==
  LET cut == Len(a) - Len(r)
  IN  /\ cut >= 0
      /\ \A k \in 1 .. Len(r) : r[k] = a[cut + k]
      /\ \A k \in 1 .. cut : a[k] < t - GateWindow
      /\ \A k \in 1 .. Len(a) : a[k] <= t
      /\ \A j, k \in 1 .. Len(a) : j <= k => a[j] <= a[k]
      /\ \A j \in 1 .. Len(a) - GateOrders : a[j + GateOrders] > a[j] + GateWindow

LEMMA RateForm == Gate!RateInv <=> RateOf(v8, v2, v6)
  BY DEF Gate!RateInv, Gate!Dropped, RateOf

LEMMA RateFormNext == Gate!RateInv' <=> RateOf(v8', v2', v6')
  BY DEF Gate!RateInv, Gate!Dropped, RateOf

(* What pruneRateWindow drops is the front, and all of it is too old. *)
LEMMA PrunedDrops ==
  ASSUME v2 \in Seq(Nat), v6 \in Nat
  PROVE  \E d \in 0 .. Len(v2) : /\ Gate!Pruned = SubSeq(v2, d + 1, Len(v2))
                                 /\ \A j \in 1 .. d : v2[j] < v6 - GateWindow
<1> DEFINE old == {k \in 0 .. Len(v2) : \A j \in 1 .. k : v2[j] < v6 - GateWindow}
<1>1. IsFiniteSet(old) /\ 0 \in old /\ old \subseteq Int
  <2>1. IsFiniteSet(0 .. Len(v2))
    BY FS_Interval
  <2>. QED BY <2>1, FS_Subset
<1>2. Gate!Max(old) = Max(old)
  BY DEF Gate!Max, Max
<1>3. Gate!Pruned = SubSeq(v2, Max(old) + 1, Len(v2))
  BY <1>2 DEF Gate!Pruned, Gate!DroppedBefore
<1> HIDE DEF old
<1>4. Max(old) \in old
  BY <1>1, MaxOfSet
<1>5. Max(old) \in 0 .. Len(v2) /\ \A j \in 1 .. Max(old) : v2[j] < v6 - GateWindow
  BY <1>4 DEF old
<1>. QED
  BY <1>3, <1>5

(* Pruning keeps the window in order. *)
LEMMA RatePruned ==
  ASSUME NEW a \in Seq(Nat), NEW r \in Seq(Nat), NEW t \in Nat, RateOf(a, r, t),
         NEW d \in 0 .. Len(r), \A j \in 1 .. d : r[j] < t - GateWindow
  PROVE  /\ SubSeq(r, d + 1, Len(r)) \in Seq(Nat) /\ Len(SubSeq(r, d + 1, Len(r))) = Len(r) - d
         /\ RateOf(a, SubSeq(r, d + 1, Len(r)), t)
<1>1. PICK s : s = SubSeq(r, d + 1, Len(r))
  OBVIOUS
<1>2. s \in Seq(Nat) /\ Len(s) = Len(r) - d /\ \A k \in 1 .. Len(s) : s[k] = r[d + k]
  BY <1>1
<1>3. PICK n \in Nat, m \in Nat : n = Len(a) /\ m = Len(r) /\ m <= n
  BY DEF RateOf
<1>4. ASSUME NEW k \in 1 .. m - d PROVE s[k] = a[(n - (m - d)) + k]
  <2>1. d + k \in 1 .. m /\ (n - m) + (d + k) = (n - (m - d)) + k
    BY <1>3
  <2>. QED BY <1>2, <1>3, <2>1 DEF RateOf
<1>5. ASSUME NEW k \in 1 .. n - (m - d) PROVE a[k] < t - GateWindow
  <2>1. CASE k \in 1 .. n - m
    BY <1>3, <2>1 DEF RateOf
  <2>2. CASE k > n - m
    <3>1. k - (n - m) \in 1 .. d /\ k - (n - m) \in 1 .. m /\ (n - m) + (k - (n - m)) = k
      BY <1>3, <2>2
    <3>2. r[k - (n - m)] = a[(n - m) + (k - (n - m))]
      BY <1>3, <3>1 DEF RateOf
    <3>. QED BY <3>1, <3>2
  <2>. QED BY <1>3, <2>1, <2>2
<1>6. RateOf(a, s, t)
  BY <1>2, <1>3, <1>4, <1>5 DEF RateOf
<1>. QED BY <1>1, <1>2, <1>6

(* One more order is accepted while the window is not full. *)
LEMMA RateAccepts ==
  ASSUME NEW a \in Seq(Nat), NEW r \in Seq(Nat), NEW t \in Nat, RateOf(a, r, t), Len(r) < GateOrders
  PROVE  RateOf(Append(a, t), Append(r, t), t)
<1>1. PICK n \in Nat, m \in Nat : n = Len(a) /\ m = Len(r) /\ m <= n
  BY DEF RateOf
<1>2. PICK b, s : b = Append(a, t) /\ s = Append(r, t)
  OBVIOUS
<1>3. /\ Len(b) = n + 1 /\ Len(s) = m + 1
      /\ b[n + 1] = t /\ s[m + 1] = t
      /\ \A k \in 1 .. n : b[k] = a[k] /\ a[k] \in Nat
      /\ \A k \in 1 .. m : s[k] = r[k]
  BY <1>1, <1>2
<1>4. /\ GateOrders \in Nat /\ GateWindow \in Nat
  BY GateAssumption
<1>5. ASSUME NEW k \in 1 .. m + 1 PROVE s[k] = b[(n - m) + k]
  <2>1. CASE k = m + 1
    BY <1>1, <1>3, <2>1
  <2>2. CASE k \in 1 .. m
    <3>1. (n - m) + k \in 1 .. n
      BY <1>1, <2>2
    <3>2. r[k] = a[(n - m) + k]
      BY <1>1, <2>2 DEF RateOf
    <3>. QED BY <1>3, <2>2, <3>1, <3>2
  <2>. QED BY <1>1, <2>1, <2>2
<1>6. ASSUME NEW k \in 1 .. n - m PROVE b[k] < t - GateWindow
  <2>1. k \in 1 .. n
    BY <1>1
  <2>2. a[k] < t - GateWindow
    BY <1>1 DEF RateOf
  <2>. QED BY <1>3, <2>1, <2>2
<1>7. ASSUME NEW k \in 1 .. n + 1 PROVE b[k] <= t /\ b[k] \in Nat
  <2>1. CASE k = n + 1
    BY <1>3, <2>1
  <2>2. CASE k \in 1 .. n
    BY <1>1, <1>3, <2>2 DEF RateOf
  <2>. QED BY <1>1, <2>1, <2>2
<1>8. ASSUME NEW j \in 1 .. n + 1, NEW k \in 1 .. n + 1, j <= k PROVE b[j] <= b[k]
  <2>1. CASE k = n + 1
    BY <1>3, <1>7, <2>1
  <2>2. CASE k \in 1 .. n
    <3>1. j \in 1 .. n
      BY <1>1, <1>8, <2>2
    <3>2. a[j] <= a[k]
      BY <1>1, <1>8, <2>2, <3>1 DEF RateOf
    <3>. QED BY <1>3, <2>2, <3>1, <3>2
  <2>. QED BY <1>1, <2>1, <2>2
<1>9. ASSUME NEW j \in 1 .. (n + 1) - GateOrders PROVE b[j + GateOrders] > b[j] + GateWindow
  <2>1. CASE j = (n + 1) - GateOrders
    <3>1. j + GateOrders = n + 1 /\ j \in 1 .. n - m
      BY <1>1, <1>4, <2>1
    <3>2. b[j] < t - GateWindow /\ b[j] \in Nat
      BY <1>1, <1>6, <1>7, <3>1
    <3>3. t \in Nat /\ b[j + GateOrders] = t
      BY <1>3, <3>1
    <3>. QED BY <1>4, <3>2, <3>3
  <2>2. CASE j \in 1 .. n - GateOrders
    <3>1. j \in 1 .. n /\ j + GateOrders \in 1 .. n
      BY <1>1, <1>4, <2>2
    <3>2. a[j + GateOrders] > a[j] + GateWindow
      BY <1>1, <2>2 DEF RateOf
    <3>. QED BY <1>3, <3>1, <3>2
  <2>3. j = (n + 1) - GateOrders \/ j \in 1 .. n - GateOrders
    BY <1>1, <1>4
  <2>. QED BY <2>1, <2>2, <2>3
<1>10. Len(b) - Len(s) = n - m /\ n - m >= 0
  BY <1>1, <1>3
<1>11. RateOf(b, s, t)
  BY <1>3, <1>5, <1>6, <1>7, <1>8, <1>9, <1>10 DEF RateOf
<1>. QED BY <1>2, <1>11

LEMMA RateLater ==
  ASSUME NEW a \in Seq(Nat), NEW r \in Seq(Nat), NEW t \in Nat, RateOf(a, r, t)
  PROVE  RateOf(a, r, t + 1)
<1>1. GateWindow \in Nat
  BY GateAssumption
<1>2. \A k \in 1 .. Len(a) : a[k] \in Nat
  OBVIOUS
<1>3. \A k \in 1 .. Len(a) - Len(r) : k \in 1 .. Len(a)
  OBVIOUS
<1>. QED BY <1>1, <1>2, <1>3, SMTT(40) DEF RateOf

LEMMA GateCardinality == \A s : Gate!Cardinality(s) = Cardinality(s)
  BY DEF Gate!Cardinality, Cardinality

(* No more orders fit into a span of Window. *)
LEMMA RateBounds ==
  ASSUME v8 \in Seq(Nat), v2 \in Seq(Nat), RateOf(v8, v2, v6)
  PROVE  Gate!WithinRate
<1>1. SUFFICES ASSUME NEW t \in 0 .. GateClock
               PROVE  Cardinality({k \in DOMAIN v8 : v8[k] \in t .. t + GateWindow}) <= GateOrders
  BY GateCardinality DEF Gate!WithinRate
<1>2. GateWindow \in Nat /\ GateOrders \in Nat /\ t \in Nat
  BY GateAssumption
<1>3. PICK n \in Nat : n = Len(v8) /\ DOMAIN v8 = 1 .. n
  OBVIOUS
<1>4. PICK S : S = {k \in 1 .. n : v8[k] \in t .. t + GateWindow}
  OBVIOUS
<1>5. IsFiniteSet(1 .. n) /\ IsFiniteSet(S) /\ S \subseteq 1 .. n
  <2>1. S \subseteq 1 .. n
    BY <1>4
  <2>2. IsFiniteSet(1 .. n)
    BY FS_Interval
  <2>. QED BY <2>1, <2>2, FS_Subset
<1>6. Cardinality(S) \in Nat
  BY <1>5, FS_CardinalityType
<1>7. ASSUME Cardinality(S) > GateOrders PROVE FALSE
  <2>1. S # {}
    <3>1. Cardinality(S) # 0
      BY <1>2, <1>6, <1>7
    <3>. QED BY <1>5, <3>1, FS_EmptySet
  <2>2. PICK low \in S : \A k \in S : low <= k
    <3>1. PICK w : w \in S
      BY <2>1
    <3>2. S \in SUBSET Nat
      BY <1>5
    <3>. QED BY <3>1, <3>2, LeastNatural
  <2>3. PICK high \in S : \A k \in S : high >= k
    <3>1. PICK w : w \in S
      BY <2>1
    <3>2. S \subseteq Int /\ IsFiniteSet(S)
      BY <1>5
    <3>3. Max(S) \in S /\ \A k \in S : Max(S) >= k
      BY <3>1, <3>2, MaxOfSet
    <3>. QED BY <3>3
  <2>4. low \in 1 .. n /\ high \in 1 .. n /\ low <= high /\ S \subseteq low .. high
    BY <1>5, <2>2, <2>3
  <2>5. IsFiniteSet(low .. high) /\ Cardinality(low .. high) = high - low + 1
    BY <2>4, FS_Interval
  <2>6. Cardinality(S) <= high - low + 1
    BY <2>4, <2>5, FS_Subset
  <2>7. low \in 1 .. n - GateOrders /\ low + GateOrders \in 1 .. n /\ low + GateOrders <= high
    BY <1>2, <1>6, <1>7, <2>4, <2>6
  <2>8. v8[low + GateOrders] > v8[low] + GateWindow /\ v8[low + GateOrders] <= v8[high]
    BY <1>3, <2>4, <2>7 DEF RateOf
  <2>9. v8[low] \in t .. t + GateWindow /\ v8[high] \in t .. t + GateWindow
    BY <1>4, <2>2, <2>3
  <2>10. v8[low] \in Nat /\ v8[high] \in Nat /\ v8[low + GateOrders] \in Nat
    <3>1. \A k \in 1 .. n : v8[k] \in Nat
      BY <1>3
    <3>. QED BY <2>4, <2>7, <3>1
  <2>11. t <= v8[low] /\ v8[high] <= t + GateWindow
    BY <1>2, <2>9
  <2> HIDE DEF RateOf
  <2>. QED BY ONLY <1>2, <2>8, <2>10, <2>11
<1>8. S = {k \in DOMAIN v8 : v8[k] \in t .. t + GateWindow}
  BY <1>3, <1>4
<1>9. Cardinality(S) <= GateOrders
  BY <1>2, <1>6, <1>7
<1>. QED BY <1>8, <1>9

(* What each position is worth, and its sum over symbols. *)
WorthOf == [s \in GateSymbols |-> Gate!Worth(s)]

SumsAgree == \A S \in SUBSET GateSymbols : Gate!MapThenSumSet(Gate!Worth, S) = SumOf(WorthOf, S)

LEMMA WorthSums == SumsAgree
<1> SUFFICES ASSUME NEW S \in SUBSET GateSymbols
             PROVE  Gate!MapThenSumSet(Gate!Worth, S) = SumOf(WorthOf, S)
  BY DEF SumsAgree
<1> DEFINE Folds(h) ==
      h = [s \in SUBSET S |-> IF s = {} THEN 0
                              ELSE Gate!Worth(CHOOSE x \in s : TRUE) + h[s \ {CHOOSE x \in s : TRUE}]]
<1>1. PICK k : k = CHOOSE h : Folds(h)
  OBVIOUS
<1>2. Gate!MapThenSumSet(Gate!Worth, S) = k[S]
  BY <1>1 DEF Gate!MapThenSumSet, Gate!MapThenFoldSet
<1>3. ASSUME NEW h PROVE Folds(h) <=> IsSum(h, WorthOf, S)
  <2>1. ASSUME NEW s \in SUBSET S, s # {}
        PROVE  Gate!Worth(CHOOSE x \in s : TRUE) + h[s \ {CHOOSE x \in s : TRUE}]
                 = WorthOf[AnyOf(s)] + h[s \ {AnyOf(s)}]
    <3>1. AnyOf(s) \in GateSymbols
      BY <2>1, AnyOfMember
    <3>2. WorthOf[AnyOf(s)] = Gate!Worth(AnyOf(s))
      BY <3>1 DEF WorthOf
    <3>. QED BY <3>2 DEF AnyOf
  <2>2. [s \in SUBSET S |-> IF s = {} THEN 0
                            ELSE Gate!Worth(CHOOSE x \in s : TRUE) + h[s \ {CHOOSE x \in s : TRUE}]]
        = [s \in SUBSET S |-> IF s = {} THEN 0 ELSE WorthOf[AnyOf(s)] + h[s \ {AnyOf(s)}]]
    BY <2>1
  <2>. QED BY <2>2 DEF IsSum
<1> HIDE DEF Folds
<1>4. \E h : IsSum(h, WorthOf, S)
  BY GateAssumption, FS_Subset, SumExists
<1>5. IsSum(k, WorthOf, S)
  BY <1>1, <1>3, <1>4
<1>6. PICK j : IsSum(j, WorthOf, S) /\ SumOf(WorthOf, S) = j[S]
  BY <1>4, SumChosen
<1>7. k[S] = j[S]
  BY GateAssumption, FS_Subset, <1>5, <1>6, SumUnique
<1>. QED
  BY <1>2, <1>6, <1>7

(* Two summands are at most the sum. *)
LEMMA PairBelow ==
  ASSUME NEW S, IsFiniteSet(S), NEW f, \A x \in S : f[x] \in Nat, NEW x \in S
  PROVE  /\ SumOf(f, S) \in Nat /\ f[x] <= SumOf(f, S)
         /\ \A y \in S : y # x => f[x] + f[y] <= SumOf(f, S)
<1>1. SumOf(f, S) \in Nat /\ SumOf(f, S) = f[x] + SumOf(f, S \ {x})
  BY SumNatural, SumTakes
<1>2. IsFiniteSet(S \ {x}) /\ \A y \in S \ {x} : f[y] \in Nat
  BY FS_Subset
<1>3. SumOf(f, S \ {x}) \in Nat
  BY <1>2, SumNatural
<1>4. ASSUME NEW y \in S, y # x PROVE f[x] + f[y] <= SumOf(f, S)
  <2>1. SumOf(f, S \ {x}) = f[y] + SumOf(f, (S \ {x}) \ {y})
    BY <1>2, <1>4, SumTakes
  <2>2. SumOf(f, (S \ {x}) \ {y}) \in Nat
    <3>1. IsFiniteSet((S \ {x}) \ {y})
      BY <1>2, FS_Subset
    <3>. QED BY <3>1, SumNatural
  <2>. QED BY <1>1, <2>1, <2>2
<1>5. f[x] \in Nat /\ f[x] <= SumOf(f, S)
  BY <1>1, <1>3
<1>. QED BY <1>1, <1>4, <1>5

(* The caps over what positions are worth, and room for one order more. *)
Fits(w) ==
  /\ \A s \in GateSymbols : w[s] <= GatePosition
  /\ SumOf(w, GateSymbols) <= GateAggregate
  /\ \A s, t \in GateSymbols : s # t /\ {s, t} \in GateCorrelated => w[s] + w[t] <= GateCluster

Room(w, s, n) ==
  /\ w[s] + n <= GatePosition
  /\ SumOf(w, GateSymbols) + n <= GateAggregate
  /\ \A t \in GateSymbols \ {s} : {s, t} \in GateCorrelated => w[s] + w[t] + n <= GateCluster

Adds(o) == Gate!Abs(o.qty) * GateMark[o.symbol]

CapsForm ==
  /\ Gate!WithinCaps <=> (~v9 => Fits(WorthOf))
  /\ \A o : o.symbol \in GateSymbols => (Gate!RoomFor(o) <=> Room(WorthOf, o.symbol, Adds(o)))

LEMMA CapsAgree == CapsForm
<1>1. Gate!MapThenSumSet(Gate!Worth, GateSymbols) = SumOf(WorthOf, GateSymbols)
  BY WorthSums DEF SumsAgree
<1>2. \A s \in GateSymbols : Gate!Worth(s) = WorthOf[s]
  BY DEF WorthOf
<1>3. Gate!WithinCaps <=> (~v9 => Fits(WorthOf))
  BY <1>1, <1>2 DEF Gate!WithinCaps, Fits
<1>4. ASSUME NEW o, o.symbol \in GateSymbols
      PROVE  Gate!RoomFor(o) <=> Room(WorthOf, o.symbol, Adds(o))
  BY <1>1, <1>2, <1>4 DEF Gate!RoomFor, Room, Adds
<1>. QED BY <1>3, <1>4 DEF CapsForm

LEMMA CapsAgreeNext == CapsForm'
  BY CapsAgree, PTL

LEMMA AbsNat == \A n \in Int : Gate!Abs(n) \in Nat /\ (n >= 0 => Gate!Abs(n) = n) /\ (n <= 0 => Gate!Abs(n) = -n)
  BY DEF Gate!Abs

LEMMA WorthNat ==
  ASSUME v3 \in [GateSymbols -> Int], NEW s \in GateSymbols
  PROVE  /\ WorthOf[s] \in Nat /\ WorthOf[s] = Gate!Abs(v3[s]) * GateMark[s]
         /\ v3[s] = 0 => WorthOf[s] = 0
<1>1. v3[s] \in Int /\ GateMark[s] \in Nat
  BY GateAssumption
<1>2. Gate!Abs(v3[s]) \in Nat /\ (v3[s] = 0 => Gate!Abs(v3[s]) = 0)
  BY <1>1, AbsNat
<1>3. WorthOf[s] = Gate!Abs(v3[s]) * GateMark[s]
  BY DEF WorthOf, Gate!Worth
<1>. QED BY <1>1, <1>2, <1>3

(* A position that grows by no more than there is room for, or shrinks. *)
LEMMA FitsAfter ==
  ASSUME NEW w, NEW u, NEW s \in GateSymbols, NEW n \in Nat,
         \A t \in GateSymbols : w[t] \in Nat /\ u[t] \in Nat,
         \A t \in GateSymbols : t # s => u[t] = w[t],
         Fits(w), u[s] <= w[s] \/ (Room(w, s, n) /\ u[s] <= w[s] + n)
  PROVE  Fits(u)
<1>1. SumOf(u, GateSymbols) = SumOf(w, GateSymbols) - w[s] + u[s] /\ SumOf(w, GateSymbols) \in Int
  <2>1. \A x \in GateSymbols : w[x] \in Int /\ u[x] \in Int
    OBVIOUS
  <2>. QED BY <2>1, GateAssumption, SumChanges
<1>2. {GatePosition, GateAggregate, GateCluster} \subseteq Nat
  BY GateAssumption
<1>3. SumOf(u, GateSymbols) <= GateAggregate
  BY <1>1, <1>2 DEF Fits, Room
<1>4. ASSUME NEW t \in GateSymbols PROVE u[t] <= GatePosition
  <2>1. CASE t = s
    BY <1>2, <2>1 DEF Fits, Room
  <2>2. CASE t # s
    BY <2>2 DEF Fits
  <2>. QED BY <2>1, <2>2
<1>5. ASSUME NEW t \in GateSymbols, t # s, {s, t} \in GateCorrelated
      PROVE  u[s] + u[t] <= GateCluster
  <2>1. u[t] = w[t] /\ w[s] + w[t] <= GateCluster
    BY <1>5 DEF Fits
  <2>2. Room(w, s, n) => w[s] + w[t] + n <= GateCluster
    BY <1>5 DEF Room
  <2>. QED BY <1>2, <2>1, <2>2
<1>6. ASSUME NEW x \in GateSymbols, NEW y \in GateSymbols, x # y, {x, y} \in GateCorrelated
      PROVE  u[x] + u[y] <= GateCluster
  <2>1. CASE x = s
    BY <1>5, <1>6, <2>1
  <2>2. CASE y = s
    <3>1. {s, x} = {x, y} /\ x # s
      BY <1>6, <2>2
    <3>2. u[s] + u[x] <= GateCluster
      BY <1>5, <1>6, <3>1
    <3>. QED BY <2>2, <3>2
  <2>3. CASE x # s /\ y # s
    BY <1>6, <2>3 DEF Fits
  <2>. QED BY <2>1, <2>2, <2>3
<1>. QED BY <1>3, <1>4, <1>6 DEF Fits

(* Where all positions have a mark, what check adds up covers them all. *)
LEMMA CheckedRoom ==
  ASSUME v3 \in [GateSymbols -> Int], v4 \subseteq GateSymbols,
         \A t \in GateSymbols \ v4 : v3[t] = 0,
         NEW i \in Gate!Intents, NEW equity, Gate!SizeFits(i, equity)
  PROVE  Room(WorthOf, i.symbol, i.qty * GateMark[i.symbol])
<1> DEFINE s == i.symbol
           n == i.qty * GateMark[i.symbol]
           near == {t \in v4 : t = s \/ {s, t} \in GateCorrelated}
<1>1. s \in GateSymbols /\ i.qty \in Nat /\ GateMark[s] \in Nat /\ n \in Nat
  <2>1. i.symbol \in GateSymbols /\ i.qty \in Nat
    BY DEF Gate!Intents
  <2>. QED BY <2>1, GateAssumption
<1>2. /\ Gate!Worth(s) + n <= GatePosition
      /\ Gate!TotalNotional + n <= GateAggregate
      /\ Gate!CorrelatedNotional(s) + n <= GateCluster
  BY DEF Gate!SizeFits
<1>3. /\ WorthOf[s] = Gate!Worth(s)
      /\ Gate!TotalNotional = SumOf(WorthOf, v4)
      /\ Gate!CorrelatedNotional(s) = SumOf(WorthOf, near)
  <2>1. near \in SUBSET GateSymbols /\ v4 \in SUBSET GateSymbols
    OBVIOUS
  <2>. QED BY <1>1, <2>1, WorthSums DEF SumsAgree, WorthOf, Gate!TotalNotional, Gate!CorrelatedNotional
<1> HIDE DEF n, near
<1>4. /\ \A t \in GateSymbols : WorthOf[t] \in Nat
      /\ \A t \in GateSymbols \ v4 : WorthOf[t] = 0
  BY WorthNat
<1>5. IsFiniteSet(GateSymbols) /\ IsFiniteSet(v4) /\ IsFiniteSet(near) /\ near \subseteq GateSymbols
  <2>1. near \subseteq GateSymbols
    BY DEF near
  <2>. QED BY <2>1, GateAssumption, FS_Subset
<1>6. SumOf(WorthOf, GateSymbols) = SumOf(WorthOf, v4)
  <2>1. \A x \in GateSymbols : WorthOf[x] \in Int
    BY <1>4
  <2>. QED BY <1>4, <1>5, <2>1, SumIgnores
<1>7. SumOf(WorthOf, near) \in Nat
  BY <1>4, <1>5, SumNatural
<1>8. ASSUME NEW t \in GateSymbols \ {s}, {s, t} \in GateCorrelated
      PROVE  WorthOf[s] + WorthOf[t] <= SumOf(WorthOf, near)
  <2>1. \A x \in near : WorthOf[x] \in Nat
    BY <1>4, <1>5
  <2>2. CASE s \in v4 /\ t \in v4
    <3>1. s \in near /\ t \in near /\ t # s
      BY <1>8, <2>2 DEF near
    <3>. QED BY <1>5, <2>1, <3>1, PairBelow
  <2>3. CASE s \notin v4 /\ t \in v4
    <3>1. t \in near /\ WorthOf[s] = 0 /\ WorthOf[t] \in Nat
      BY <1>1, <1>4, <1>8, <2>3 DEF near
    <3>2. WorthOf[t] <= SumOf(WorthOf, near)
      BY <1>5, <2>1, <3>1, PairBelow
    <3>. QED BY <1>7, <3>1, <3>2
  <2>4. CASE s \in v4 /\ t \notin v4
    <3>1. s \in near /\ WorthOf[t] = 0 /\ WorthOf[s] \in Nat
      BY <1>1, <1>4, <1>8, <2>4 DEF near
    <3>2. WorthOf[s] <= SumOf(WorthOf, near)
      BY <1>5, <2>1, <3>1, PairBelow
    <3>. QED BY <1>7, <3>1, <3>2
  <2>5. CASE s \notin v4 /\ t \notin v4
    BY <1>1, <1>4, <1>7, <1>8, <2>5
  <2>. QED BY <2>2, <2>3, <2>4, <2>5
<1>9. ASSUME NEW t \in GateSymbols \ {s}, {s, t} \in GateCorrelated
      PROVE  WorthOf[s] + WorthOf[t] + n <= GateCluster
  <2>1. WorthOf[s] \in Nat /\ WorthOf[t] \in Nat /\ GateCluster \in Nat
    BY <1>1, <1>4, GateAssumption
  <2>. QED BY <1>1, <1>2, <1>3, <1>7, <1>8, <1>9, <2>1
<1>10. Room(WorthOf, s, n)
  BY <1>2, <1>3, <1>6, <1>9 DEF Room
<1>. QED BY <1>10 DEF n

LEMMA GateStarts == Gate!Init => Gate!GateInv
<1> SUFFICES ASSUME Gate!Init PROVE Gate!GateInv
  OBVIOUS
<1>1. /\ v1 = "NORMAL" /\ v2 = <<>> /\ v3 = [s \in GateSymbols |-> 0] /\ v4 = {} /\ v6 = 0
      /\ v7 = {} /\ v8 = <<>> /\ v9 = FALSE /\ v10 = FALSE /\ v11 = FALSE
  BY DEF Gate!Init
<1>2. Gate!GateTypes
  <2>1. v3 \in [GateSymbols -> Int] /\ v2 \in Seq(Nat) /\ v8 \in Seq(Nat) /\ v6 \in Nat
    BY <1>1
  <2>2. v9 \in BOOLEAN /\ v4 \subseteq GateSymbols /\ v7 \subseteq Gate!Sent
    BY <1>1, Zenon
  <2>. QED BY <1>1, <2>1, <2>2 DEF Gate!GateTypes
<1>3. Gate!BreakerInv
  BY <1>1 DEF Gate!BreakerInv, Gate!States
<1>4. Gate!RateInv
  <2>1. GateOrders \in Nat
    BY GateAssumption
  <2>2. RateOf(<<>>, <<>>, 0)
    BY <2>1 DEF RateOf
  <2>. QED BY <1>1, <2>2, RateForm
<1>5. Gate!CapsInv
  BY <1>1 DEF Gate!CapsInv
<1>6. Gate!WithinCaps
  <2>1. \A s \in GateSymbols : WorthOf[s] = 0
    BY <1>1, WorthNat
  <2>2. SumOf(WorthOf, GateSymbols) = 0
    <3>1. SumOf(WorthOf, GateSymbols) = SumOf(WorthOf, {})
      BY <2>1, GateAssumption, SumIgnores
    <3>. QED BY <3>1, SumEmpty
  <2>3. {GatePosition, GateAggregate, GateCluster} \subseteq Nat
    BY GateAssumption
  <2>4. Fits(WorthOf)
    BY <2>1, <2>2, <2>3 DEF Fits
  <2>. QED BY <2>4, CapsAgree DEF CapsForm
<1>. QED BY <1>2, <1>3, <1>4, <1>5, <1>6 DEF Gate!GateInv

(* The breaker is left alone by what fills, moves and passes. *)
LEMMA BreakerKept ==
  ASSUME Gate!BreakerInv, UNCHANGED <<v1, v10, v11>>
  PROVE  Gate!BreakerInv'
  BY DEF Gate!BreakerInv, Gate!States

(* No position, order in flight or crowding changes. *)
LEMMA CapsKept ==
  ASSUME Gate!GateInv, UNCHANGED <<v3, v7, v9>>
  PROVE  Gate!CapsInv' /\ Gate!WithinCaps'
<1>1. WorthOf' = WorthOf
  BY DEF WorthOf, Gate!Worth, Gate!Abs
<1>2. CapsForm /\ CapsForm'
  BY CapsAgree, CapsAgreeNext
<1>3. \A o : o.symbol \in GateSymbols => Adds(o)' = Adds(o)
  BY DEF Adds, Gate!Abs
<1>4. \A o \in v7 : o.symbol \in GateSymbols
  BY DEF Gate!GateInv, Gate!GateTypes, Gate!Sent
<1>5. Gate!WithinCaps'
  BY <1>1, <1>2 DEF CapsForm, Fits, Gate!GateInv
<1>6. \A o \in v7 : Gate!RoomFor(o)' <=> Gate!RoomFor(o)
  BY <1>1, <1>2, <1>3, <1>4 DEF CapsForm, Room
<1>7. Gate!CapsInv'
  BY <1>6 DEF Gate!CapsInv, Gate!GateInv
<1>. QED BY <1>5, <1>7

(* Steps that move neither orders nor positions nor the time. *)
LEMMA GateAlone ==
  ASSUME Gate!GateInv, UNCHANGED <<v2, v3, v6, v7, v8, v9>>,
         v4' \subseteq GateSymbols, Gate!BreakerInv'
  PROVE  Gate!GateInv'
<1>1. Gate!GateTypes'
  BY DEF Gate!GateInv, Gate!GateTypes, Gate!Sent
<1>2. Gate!RateInv'
  BY RateForm, RateFormNext DEF Gate!GateInv
<1>3. Gate!CapsInv' /\ Gate!WithinCaps'
  BY CapsKept
<1>. QED BY <1>1, <1>2, <1>3 DEF Gate!GateInv

LEMMA GateTimePasses ==
  ASSUME Gate!GateInv, Gate!TimePasses
  PROVE  Gate!GateInv'
<1>1. v6' = v6 + 1 /\ UNCHANGED <<v1, v2, v3, v4, v7, v8, v9, v10, v11>>
  BY DEF Gate!TimePasses
<1>2. Gate!GateTypes /\ Gate!RateInv /\ v6 \in Nat /\ v2 \in Seq(Nat) /\ v8 \in Seq(Nat)
  BY DEF Gate!GateInv, Gate!GateTypes
<1>3. Gate!GateTypes'
  BY <1>1, <1>2 DEF Gate!GateTypes, Gate!Sent
<1>4. RateOf(v8, v2, v6 + 1)
  BY <1>2, RateForm, RateLater
<1>5. Gate!RateInv'
  BY <1>1, <1>4, RateFormNext
<1>6. Gate!CapsInv' /\ Gate!WithinCaps'
  BY <1>1, CapsKept
<1>7. Gate!BreakerInv'
  BY <1>1, BreakerKept DEF Gate!GateInv
<1>. QED BY <1>3, <1>5, <1>6, <1>7 DEF Gate!GateInv

(* check: what is allowed while the breaker is up is reduce-only; the      *)
(* window gains an order only if it is not full; and an order that counts  *)
(* all positions has room.                                                 *)
LEMMA CheckKeeps ==
  ASSUME Gate!GateInv, NEW i \in Gate!Intents, NEW equity \in GateEquities, Gate!Check(i, equity)
  PROVE  Gate!GateInv'
<1> DEFINE yes  == Gate!Allowed(i, equity)
           kept == IF Gate!Sane(i) /\ ~Gate!Blocked(i) THEN Gate!Pruned ELSE v2
           o    == [i EXCEPT !.qty = i.signed * i.qty]
<1>1. /\ v2' = IF yes THEN Append(kept, v6) ELSE kept
      /\ v8' = IF yes THEN Append(v8, v6) ELSE v8
      /\ v7' = IF yes THEN v7 \cup {o} ELSE v7
      /\ v9' = (v9 \/ (yes /\ (v7 # {} \/ \E s \in GateSymbols \ v4 : v3[s] # 0)))
      /\ v11' = (v11 \/ (yes /\ v10 /\ ~i.reduceOnly))
      /\ UNCHANGED <<v1, v3, v4, v6, v10>>
  BY DEF Gate!Check
<1>2. /\ Gate!GateTypes /\ Gate!BreakerInv /\ Gate!RateInv /\ Gate!CapsInv /\ Gate!WithinCaps
      /\ v2 \in Seq(Nat) /\ v8 \in Seq(Nat) /\ v6 \in Nat /\ v3 \in [GateSymbols -> Int]
      /\ v4 \subseteq GateSymbols /\ v9 \in BOOLEAN
  BY DEF Gate!GateInv, Gate!GateTypes
<1>3. /\ i.symbol \in GateSymbols /\ i.signed \in {-1, 1} /\ i.qty \in Nat /\ i.reduceOnly \in BOOLEAN
      /\ i.farPrice \in BOOLEAN
      /\ o = [symbol |-> i.symbol, signed |-> i.signed, qty |-> i.signed * i.qty,
              reduceOnly |-> i.reduceOnly, farPrice |-> i.farPrice]
  BY DEF Gate!Intents
<1>4. /\ o.symbol = i.symbol /\ o.signed = i.signed /\ o.qty = i.signed * i.qty /\ o.reduceOnly = i.reduceOnly
      /\ o \in Gate!Sent /\ Gate!Abs(o.qty) = i.qty
      /\ IF o.signed = 1 THEN o.qty >= 0 ELSE o.qty <= 0
  <2>1. i.signed * i.qty \in Int /\ (i.signed = 1 => i.signed * i.qty = i.qty)
        /\ (i.signed = -1 => i.signed * i.qty = -i.qty)
    BY <1>3
  <2>2. /\ o.symbol = i.symbol /\ o.signed = i.signed /\ o.qty = i.signed * i.qty
        /\ o.reduceOnly = i.reduceOnly
    BY <1>3
  <2>3. o \in Gate!Sent
    BY <1>3, <2>1 DEF Gate!Sent
  <2>. QED BY <1>3, <2>1, <2>2, <2>3, AbsNat
<1>5. kept \in Seq(Nat) /\ RateOf(v8, kept, v6) /\ (yes => Len(kept) < GateOrders)
  <2>1. RateOf(v8, v2, v6)
    BY <1>2, RateForm
  <2>2. PICK d \in 0 .. Len(v2) : /\ Gate!Pruned = SubSeq(v2, d + 1, Len(v2))
                                  /\ \A j \in 1 .. d : v2[j] < v6 - GateWindow
    BY <1>2, PrunedDrops
  <2>3. Gate!Pruned \in Seq(Nat) /\ RateOf(v8, Gate!Pruned, v6)
    BY <1>2, <2>1, <2>2, RatePruned
  <2>4. yes => kept = Gate!Pruned /\ ~(Len(Gate!Pruned) >= GateOrders)
    BY DEF Gate!Allowed, Gate!Bursting
  <2>5. Len(Gate!Pruned) \in Nat /\ GateOrders \in Nat
    BY <2>3, GateAssumption
  <2>. QED BY <1>2, <2>1, <2>3, <2>4, <2>5
<1> HIDE DEF kept, o
<1>6. Gate!RateInv' /\ v2' \in Seq(Nat) /\ v8' \in Seq(Nat)
  <2>1. CASE yes
    <3>1. RateOf(Append(v8, v6), Append(kept, v6), v6)
      BY <1>2, <1>5, <2>1, RateAccepts
    <3>. QED BY <1>1, <1>2, <1>5, <2>1, <3>1, RateFormNext
  <2>2. CASE ~yes
    BY <1>1, <1>2, <1>5, <2>2, RateFormNext
  <2>. QED BY <2>1, <2>2
<1>7. Gate!BreakerInv'
  <2>1. yes /\ v10 => i.reduceOnly
    BY <1>2 DEF Gate!Allowed, Gate!Blocked, Gate!BreakerInv
  <2>. QED BY <1>1, <1>2, <2>1 DEF Gate!BreakerInv, Gate!States
<1>8. Gate!GateTypes'
  <2>1. v7' \subseteq Gate!Sent /\ \A p \in v7' : IF p.signed = 1 THEN p.qty >= 0 ELSE p.qty <= 0
    BY <1>1, <1>2, <1>4 DEF Gate!GateTypes
  <2>2. v9' \in BOOLEAN
    BY <1>1, <1>2
  <2>. QED BY <1>1, <1>2, <1>6, <2>1, <2>2 DEF Gate!GateTypes, Gate!Sent
<1>9. WorthOf' = WorthOf
  BY <1>1 DEF WorthOf, Gate!Worth, Gate!Abs
<1>10. CapsForm /\ CapsForm'
  BY CapsAgree, CapsAgreeNext
<1>11. ~v9' => ~v9
  BY <1>1
<1>12. Gate!WithinCaps'
  BY <1>2, <1>9, <1>10, <1>11 DEF CapsForm, Fits
<1>13. ASSUME ~v9', yes PROVE v7 = {} /\ \A s \in GateSymbols \ v4 : v3[s] = 0
  BY <1>1, <1>13
<1>14. ASSUME ~v9', yes, ~i.reduceOnly PROVE Room(WorthOf, o.symbol, Gate!Abs(o.qty) * GateMark[o.symbol])
  <2>1. Gate!SizeFits(i, equity)
    BY <1>14 DEF Gate!Allowed
  <2>2. Room(WorthOf, i.symbol, i.qty * GateMark[i.symbol])
    BY <1>2, <1>13, <1>14, <2>1, CheckedRoom
  <2>. QED BY <1>4, <2>2
<1>15. ASSUME NEW p, p.symbol \in GateSymbols
       PROVE  /\ Gate!RoomFor(p)' <=> Gate!RoomFor(p)
              /\ Gate!RoomFor(p) <=> Room(WorthOf, p.symbol, Gate!Abs(p.qty) * GateMark[p.symbol])
  <2>1. Adds(p)' = Adds(p)
    BY DEF Adds, Gate!Abs
  <2>. QED BY <1>9, <1>10, <1>15, <2>1 DEF CapsForm, Room, Adds
<1>16. \A p \in v7 : p.symbol \in GateSymbols
  BY <1>2 DEF Gate!GateTypes, Gate!Sent
<1>17. Gate!CapsInv'
  <2>1. CASE yes /\ ~v9'
    <3>1. v7' = {o}
      BY <1>1, <1>13, <2>1
    <3>2. o.symbol \in GateSymbols
      BY <1>3, <1>4
    <3>3. o.reduceOnly \/ Gate!RoomFor(o)'
      BY <1>4, <1>14, <1>15, <2>1, <3>2
    <3>. QED BY <3>1, <3>3 DEF Gate!CapsInv
  <2>2. CASE ~yes
    BY <1>1, <1>2, <1>11, <1>15, <1>16, <2>2 DEF Gate!CapsInv
  <2>3. CASE v9'
    BY <2>3 DEF Gate!CapsInv
  <2>. QED BY <2>1, <2>2, <2>3
<1>. QED BY <1>6, <1>7, <1>8, <1>12, <1>17 DEF Gate!GateInv

(* A fill turns a position by what there was room for; a reduce-only one   *)
(* brings it nearer to zero.                                               *)
LEMMA FilledWorth ==
  ASSUME NEW held \in Int, NEW qty \in Int, NEW m \in Nat, NEW n \in Int
  PROVE  /\ Gate!Abs(held + qty) * m \in Nat /\ Gate!Abs(held) * m \in Nat /\ Gate!Abs(qty) * m \in Nat
         /\ Gate!Abs(held + qty) * m <= Gate!Abs(held) * m + Gate!Abs(qty) * m
         /\ Gate!Abs(n) <= Gate!Abs(held) => Gate!Abs(n) * m <= Gate!Abs(held) * m
<1>1. PICK a \in Nat, b \in Nat, c \in Nat, d \in Nat :
        a = Gate!Abs(held + qty) /\ b = Gate!Abs(held) /\ c = Gate!Abs(qty) /\ d = Gate!Abs(n)
  BY AbsNat
<1>2. a <= b + c
  BY <1>1 DEF Gate!Abs
<1>3. \A x, y \in Nat : x <= y => x * m <= y * m
  <2> SUFFICES ASSUME NEW x \in Nat, NEW y \in Nat, x <= y PROVE x * m <= y * m
    OBVIOUS
  <2>1. PICK k \in Nat : y = x + k
    <3>1. y - x \in Nat /\ y = x + (y - x)
      OBVIOUS
    <3>. QED BY <3>1
  <2>2. y * m = x * m + k * m /\ k * m \in Nat /\ x * m \in Nat
    BY <2>1
  <2>. QED BY <2>2
<1>4. a * m \in Nat /\ b * m \in Nat /\ c * m \in Nat /\ (b + c) * m = b * m + c * m
  OBVIOUS
<1>5. a * m <= b * m + c * m
  BY <1>2, <1>3, <1>4
<1>6. d <= b => d * m <= b * m
  BY <1>3
<1>. QED BY <1>1, <1>4, <1>5, <1>6

LEMMA MinOfTwo ==
  ASSUME NEW a \in Int, NEW b \in Int
  PROVE  Gate!Min({a, b}) = IF a <= b THEN a ELSE b
<1>1. Gate!Min({a, b}) = CHOOSE x \in {a, b} : \A y \in {a, b} : x <= y
  BY DEF Gate!Min
<1>2. \E x \in {a, b} : \A y \in {a, b} : x <= y
  OBVIOUS
<1>. QED BY <1>1, <1>2

LEMMA FillsKeeps ==
  ASSUME Gate!GateInv, NEW o \in v7, Gate!Fills(o)
  PROVE  Gate!GateInv'
<1> DEFINE s == o.symbol
           held == v3[o.symbol]
           delta == IF ~o.reduceOnly THEN o.qty
                    ELSE IF held * o.qty >= 0 THEN 0
                    ELSE o.signed * Gate!Min({Gate!Abs(o.qty), Gate!Abs(held)})
<1>1. v3' = [v3 EXCEPT ![s] = held + delta] /\ v7' = v7 \ {o}
      /\ UNCHANGED <<v1, v2, v4, v5, v6, v8, v9, v10, v11>>
  BY DEF Gate!Fills
<1>2. /\ Gate!GateTypes /\ Gate!BreakerInv /\ Gate!RateInv /\ Gate!CapsInv /\ Gate!WithinCaps
      /\ v3 \in [GateSymbols -> Int] /\ v9 \in BOOLEAN
  BY DEF Gate!GateInv, Gate!GateTypes
<1>3. /\ s \in GateSymbols /\ held \in Int /\ o.qty \in Int /\ o.signed \in {-1, 1} /\ o.reduceOnly \in BOOLEAN
      /\ IF o.signed = 1 THEN o.qty >= 0 ELSE o.qty <= 0
  <2>1. o \in Gate!Sent /\ IF o.signed = 1 THEN o.qty >= 0 ELSE o.qty <= 0
    BY <1>2 DEF Gate!GateTypes
  <2>. QED BY <1>2, <2>1 DEF Gate!Sent
<1>4. delta \in Int /\ (o.reduceOnly => Gate!Abs(held + delta) <= Gate!Abs(held))
                    /\ (~o.reduceOnly => delta = o.qty)
  <2>1. CASE ~o.reduceOnly
    BY <1>3, <2>1
  <2>2. CASE o.reduceOnly /\ held * o.qty >= 0
    BY <1>3, <2>2, AbsNat
  <2>3. CASE o.reduceOnly /\ ~(held * o.qty >= 0)
    <3>1. delta = o.signed * (IF Gate!Abs(o.qty) <= Gate!Abs(held) THEN Gate!Abs(o.qty) ELSE Gate!Abs(held))
      BY <1>3, <2>3, AbsNat, MinOfTwo
    <3>2. PICK n \in Nat : n = (IF Gate!Abs(o.qty) <= Gate!Abs(held) THEN Gate!Abs(o.qty) ELSE Gate!Abs(held))
                           /\ n <= Gate!Abs(held)
      BY <1>3, AbsNat
    <3>3. o.signed = 1 => held < 0
      <4>1. ASSUME held >= 0, o.qty >= 0 PROVE held * o.qty >= 0
        BY <1>3, <4>1
      <4>. QED BY <1>3, <2>3, <4>1
    <3>4. o.signed = -1 => held > 0
      <4>1. ASSUME held <= 0, o.qty <= 0 PROVE held * o.qty >= 0
        BY <1>3, <4>1
      <4>. QED BY <1>3, <2>3, <4>1
    <3>5. (o.signed = 1 => delta = n) /\ (o.signed = -1 => delta = -n)
      BY <3>1, <3>2
    <3>. QED BY <1>3, <2>3, <3>2, <3>3, <3>4, <3>5 DEF Gate!Abs
  <2>. QED BY <1>3, <2>1, <2>2, <2>3
<1> HIDE DEF delta, held, s
<1>5. v3' \in [GateSymbols -> Int] /\ v3'[s] = held + delta /\ \A t \in GateSymbols : t # s => v3'[t] = v3[t]
  BY <1>1, <1>2, <1>3, <1>4
<1>6. Gate!GateTypes'
  BY <1>1, <1>2, <1>5 DEF Gate!GateTypes, Gate!Sent
<1>7. Gate!RateInv'
  BY <1>1, <1>2, RateForm, RateFormNext
<1>8. Gate!BreakerInv'
  BY <1>1, <1>2, BreakerKept
<1>9. ASSUME ~v9 PROVE v7' = {}
  BY <1>1, <1>2, <1>9 DEF Gate!CapsInv
<1>10. Gate!CapsInv'
  BY <1>1, <1>9 DEF Gate!CapsInv
<1>11. Gate!WithinCaps'
  <2>1. SUFFICES ASSUME ~v9 PROVE Fits(WorthOf')
    BY <1>1, CapsAgreeNext DEF CapsForm, Fits
  <2>2. Fits(WorthOf) /\ (o.reduceOnly \/ Room(WorthOf, s, Adds(o)))
    BY <1>2, <1>3, <2>1, CapsAgree DEF CapsForm, Gate!CapsInv, s
  <2>3. \A t \in GateSymbols : WorthOf[t] \in Nat /\ WorthOf[t] = Gate!Abs(v3[t]) * GateMark[t]
    BY <1>2, WorthNat
  <2>4. \A t \in GateSymbols : WorthOf'[t] = Gate!Abs(v3'[t]) * GateMark[t]
    BY DEF WorthOf, Gate!Worth, Gate!Abs
  <2>5. GateMark[s] \in Nat
    BY <1>3, GateAssumption
  <2>6. /\ WorthOf'[s] = Gate!Abs(held + delta) * GateMark[s]
        /\ WorthOf[s] = Gate!Abs(held) * GateMark[s]
        /\ Adds(o) = Gate!Abs(o.qty) * GateMark[s]
    BY <1>3, <1>5, <2>3, <2>4 DEF Adds, held, s
  <2>7. /\ WorthOf'[s] \in Nat /\ Adds(o) \in Nat
        /\ o.reduceOnly => WorthOf'[s] <= WorthOf[s]
        /\ ~o.reduceOnly => WorthOf'[s] <= WorthOf[s] + Adds(o)
    <3>1. held \in Int /\ held + delta \in Int /\ o.qty \in Int
      BY <1>3, <1>4
    <3>2. Gate!Abs(held) * GateMark[s] \in Nat /\ Gate!Abs(o.qty) * GateMark[s] \in Nat
          /\ Gate!Abs(held + delta) * GateMark[s] \in Nat
      BY <2>5, <3>1, AbsNat
    <3>3. o.reduceOnly => Gate!Abs(held + delta) * GateMark[s] <= Gate!Abs(held) * GateMark[s]
      BY <1>4, <2>5, <3>1, FilledWorth
    <3>4. ~o.reduceOnly =>
            Gate!Abs(held + delta) * GateMark[s] <= Gate!Abs(held) * GateMark[s] + Gate!Abs(o.qty) * GateMark[s]
      BY <1>4, <2>5, <3>1, FilledWorth
    <3>. QED BY <2>6, <3>2, <3>3, <3>4
  <2>8. \A t \in GateSymbols : t # s => WorthOf'[t] = WorthOf[t]
    BY <1>5, <2>3, <2>4
  <2>9. \A t \in GateSymbols : WorthOf'[t] \in Nat
    BY <2>3, <2>7, <2>8
  <2>. QED BY <1>3, <2>2, <2>3, <2>7, <2>8, <2>9, FitsAfter
<1>. QED BY <1>6, <1>7, <1>8, <1>10, <1>11 DEF Gate!GateInv

LEMMA GateSteps == Gate!GateInv /\ [Gate!Next]_Gate!vars => Gate!GateInv'
<1> SUFFICES ASSUME Gate!GateInv, [Gate!Next]_Gate!vars PROVE Gate!GateInv'
  OBVIOUS
<1>0. Gate!BreakerInv /\ v4 \subseteq GateSymbols
  BY DEF Gate!GateInv, Gate!GateTypes
<1>1. CASE UNCHANGED Gate!vars
  BY <1>0, <1>1, GateAlone, BreakerKept DEF Gate!vars
<1>2. CASE Gate!EvaluatePortfolio
  <2>1. Gate!Escalated("HALT") \in Gate!States \ {"NORMAL"}
    BY <1>0, EscalatedUp DEF Gate!BreakerInv, Gate!States
  <2>2. Gate!BreakerInv'
    BY <1>0, <1>2, <2>1 DEF Gate!EvaluatePortfolio, Gate!BreakerInv
  <2>. QED BY <1>0, <1>2, <2>2, GateAlone DEF Gate!EvaluatePortfolio
<1>3. CASE Gate!Degrade
  <2>1. Gate!Escalated("DEGRADED") \in Gate!States \ {"NORMAL"}
    BY <1>0, EscalatedUp DEF Gate!BreakerInv, Gate!States
  <2>2. Gate!BreakerInv'
    BY <1>0, <1>3, <2>1 DEF Gate!Degrade, Gate!BreakerInv
  <2>. QED BY <1>0, <1>3, <2>2, GateAlone DEF Gate!Degrade
<1>4. CASE Gate!Reset
  <2>1. Gate!BreakerInv'
    BY <1>0, <1>4 DEF Gate!Reset, Gate!BreakerInv, Gate!States
  <2>. QED BY <1>0, <1>4, <2>1, GateAlone DEF Gate!Reset
<1>5. CASE Gate!AccountMoves
  BY <1>0, <1>5, GateAlone, BreakerKept DEF Gate!AccountMoves
<1>6. CASE Gate!TimePasses
  BY <1>6, GateTimePasses
<1>7. ASSUME NEW i \in Gate!Intents, NEW equity \in GateEquities, Gate!Check(i, equity) PROVE Gate!GateInv'
  BY <1>7, CheckKeeps
<1>8. ASSUME NEW o \in v7, Gate!Fills(o) PROVE Gate!GateInv'
  BY <1>8, FillsKeeps
<1>. QED
  BY <1>1, <1>2, <1>3, <1>4, <1>5, <1>6, <1>7, <1>8 DEF Gate!Next

LEMMA GateInvHolds == Gate!GateInv => Gate!GateHolds
<1> SUFFICES ASSUME Gate!GateInv PROVE Gate!GateHolds
  OBVIOUS
<1>1. Gate!WithinRate
  BY RateForm, RateBounds DEF Gate!GateInv, Gate!GateTypes
<1>. QED BY <1>1 DEF Gate!GateInv, Gate!BreakerInv, Gate!HaltHolds, Gate!GateHolds
-----------------------------------------------------------------------------
(* The signal intake: the clock, the nonces, the taken signals, twice.     *)
LEMMA SignalFields ==
  ASSUME WindowMs \in Int, NEW signal \in Intake!Signals
  PROVE  signal.timestamp \in Int /\ Intake!Expiry(signal) \in Int
<1>1. signal.timestamp \in 0 .. IntakeClock + FutureTolerance
  BY DEF Intake!Signals
<1>2. QED
  BY <1>1 DEF Intake!Expiry

(* What the store holds after a signal was remembered. *)
LEMMA RememberedStore ==
  ASSUME NEW signal \in Intake!Signals, v2' = Intake!Remembered(signal)
  PROVE  /\ DOMAIN v2' = {signal.nonce} \cup {n \in DOMAIN v2 : ~Intake!Expired(n)}
         /\ v2'[signal.nonce] = Intake!Expiry(signal)
         /\ \A n \in DOMAIN v2 : n # signal.nonce /\ ~Intake!Expired(n) => v2'[n] = v2[n]
  BY DEF Intake!Remembered, Intake!Pruned, Intake!Restrict, Intake!Put, Intake!Expiry

LEMMA IntakeStarts == Intake!Init => Intake!IntakeInv
  BY DEF Intake!Init, Intake!IntakeInv, Intake!Absent

(* verify, when it takes the signal. *)
LEMMA TakenKept ==
  ASSUME WindowMs \in Int, Intake!IntakeInv, NEW signal \in Intake!Signals, UNCHANGED v1,
         ~Intake!TooLate(signal), ~Intake!Seen(signal.nonce), v2' = Intake!Remembered(signal),
         v3' = v3 \cup {signal}, v4' = (v4 \/ signal \in v3)
  PROVE  Intake!IntakeInv'
<1>0. /\ DOMAIN v2' = {signal.nonce} \cup {n \in DOMAIN v2 : ~Intake!Expired(n)}
      /\ v2'[signal.nonce] = Intake!Expiry(signal)
      /\ \A n \in DOMAIN v2 : n # signal.nonce /\ ~Intake!Expired(n) => v2'[n] = v2[n]
  BY RememberedStore
<1>1. signal.timestamp \in Int /\ Intake!Expiry(signal) \in Int /\ v1 \in Int
  BY SignalFields DEF Intake!IntakeInv
<1>2. Intake!Expiry(signal) >= v1
  BY <1>1 DEF Intake!TooLate, Intake!Expiry
(* An earlier signal with this nonce is out of its window. *)
<1>3. ASSUME NEW old \in v3, old.nonce = signal.nonce PROVE Intake!Expiry(old) < v1
  <2>1. old \in Intake!Signals /\ Intake!HeldInStore(old)
    BY DEF Intake!IntakeInv
  <2>2. Intake!Expiry(old) \in Int
    BY <2>1, SignalFields
  <2>3. CASE Intake!Expiry(old) >= v1
    <3>1. old.nonce \in DOMAIN v2 /\ v2[old.nonce] >= Intake!Expiry(old) /\ v2[old.nonce] \in Int
      BY <2>1, <2>3 DEF Intake!HeldInStore, Intake!IntakeInv
    <3>2. ~(v2[old.nonce] < v1)
      BY <1>1, <2>2, <2>3, <3>1
    <3>3. QED
      BY <1>3, <3>1, <3>2 DEF Intake!Seen, Intake!Expired
  <2>4. QED
    BY <1>1, <2>2, <2>3
<1>4. ~v4'
  <2>1. signal \notin v3
    BY <1>1, <1>2, <1>3
  <2>2. QED
    BY <2>1 DEF Intake!IntakeInv
<1>5. \A n \in DOMAIN v2' : v2'[n] \in Int
  BY <1>0, <1>1 DEF Intake!IntakeInv
<1>6. ASSUME NEW old \in v3' PROVE Intake!HeldInStore(old)'
  <2>1. CASE old = signal
    BY <1>0, <1>1, <2>1 DEF Intake!HeldInStore, Intake!Expiry
  <2>2. CASE old # signal /\ old.nonce = signal.nonce
    <3>1. old \in v3
      BY <2>2
    <3>2. Intake!Expiry(old) < v1 /\ Intake!Expiry(old) \in Int
      BY <1>3, <2>2, <3>1, SignalFields DEF Intake!IntakeInv
    <3>3. QED
      BY <1>1, <3>2 DEF Intake!HeldInStore, Intake!Expiry
  <2>3. CASE old.nonce # signal.nonce
    <3>1. old \in v3 /\ old \in Intake!Signals /\ Intake!HeldInStore(old)
      BY <2>3 DEF Intake!IntakeInv
    <3>2. Intake!Expiry(old) \in Int
      BY <3>1, SignalFields
    <3>3. SUFFICES ASSUME Intake!Expiry(old) >= v1
                   PROVE  old.nonce \in DOMAIN v2' /\ v2'[old.nonce] >= Intake!Expiry(old)
      BY DEF Intake!HeldInStore, Intake!Expiry
    <3>4. old.nonce \in DOMAIN v2 /\ v2[old.nonce] >= Intake!Expiry(old) /\ v2[old.nonce] \in Int
      BY <3>1, <3>3 DEF Intake!HeldInStore, Intake!IntakeInv
    <3>5. ~Intake!Expired(old.nonce)
      BY <1>1, <3>2, <3>3, <3>4 DEF Intake!Expired
    <3>6. QED
      BY <2>3, <3>4, <3>5, <1>0
  <2>4. QED
    BY <2>1, <2>2, <2>3
<1>7. QED
  BY <1>1, <1>4, <1>5, <1>6 DEF Intake!IntakeInv

LEMMA IntakeSteps ==
  ASSUME WindowMs \in Int
  PROVE  Intake!IntakeInv /\ [Intake!Next]_Intake!vars => Intake!IntakeInv'
<1> SUFFICES ASSUME Intake!IntakeInv, [Intake!Next]_Intake!vars PROVE Intake!IntakeInv'
  OBVIOUS
<1>1. CASE UNCHANGED Intake!vars
  BY <1>1 DEF Intake!IntakeInv, Intake!vars, Intake!HeldInStore, Intake!Expiry
<1>2. CASE Intake!TimePasses
  <2>1. v1' = v1 + 1 /\ v1 \in Int /\ UNCHANGED <<v2, v3, v4>>
    BY <1>2 DEF Intake!TimePasses, Intake!IntakeInv
  <2>2. ASSUME NEW signal \in v3 PROVE Intake!HeldInStore(signal)'
    <3>1. Intake!HeldInStore(signal) /\ Intake!Expiry(signal) \in Int
      BY SignalFields DEF Intake!IntakeInv
    <3>2. QED
      BY <2>1, <3>1 DEF Intake!HeldInStore, Intake!Expiry
  <2>3. QED
    BY <2>1, <2>2 DEF Intake!IntakeInv
<1>3. CASE Intake!Restart
  BY <1>3 DEF Intake!Restart, Intake!IntakeInv, Intake!Absent
<1>4. ASSUME NEW signal \in Intake!Signals, Intake!Verify(signal) PROVE Intake!IntakeInv'
  <2>1. CASE UNCHANGED <<v2, v3, v4>>
    BY <1>4, <2>1 DEF Intake!Verify, Intake!IntakeInv, Intake!HeldInStore, Intake!Expiry
  <2>2. CASE ~Intake!TooLate(signal) /\ ~Intake!Seen(signal.nonce) /\ ~UNCHANGED <<v2, v3, v4>>
    <3>1. /\ v2' = Intake!Remembered(signal) /\ v3' = v3 \cup {signal}
          /\ v4' = (v4 \/ signal \in v3) /\ UNCHANGED v1
      BY <1>4, <2>2 DEF Intake!Verify
    <3>2. QED
      BY <2>2, <3>1, TakenKept
  <2>3. QED
    BY <1>4, <2>1, <2>2 DEF Intake!Verify
<1>5. QED
  BY <1>1, <1>2, <1>3, <1>4 DEF Intake!Next
-----------------------------------------------------------------------------
(* The strategies table: the slots are, in order, the table, the clock,    *)
(* what the engine runs, its state, the starts that wait, the feed, the    *)
(* form, orphan, swapped, behind and calls.                                *)
LEMMA DeskNone ==
  /\ \A r \in Desk!Rows : r # None
  /\ \A c \in Desk!Copies : c # None
  /\ \A i \in Ids, n \in Nat : [id |-> i, v |-> n] # None
  BY DeskAssumption DEF Desk!Rows, Desk!Copies

(* getActiveStrategy finds the one armed strategy, or none. *)
LEMMA ArmedOne ==
  ASSUME NEW t \in [Ids -> Desk!Rows \cup {None}], Desk!OneArmed(t), NEW i \in Desk!ArmedIds(t)
  PROVE  Desk!ArmedIn(t) = [id |-> i, v |-> t[i].v] /\ Desk!ArmedIn(t) # None
<1>1. Desk!ArmedIds(t) = {i}
  BY DEF Desk!OneArmed
<1>2. i \in Ids /\ t[i] \in Desk!Rows
  BY DEF Desk!ArmedIds
<1>3. t[i].at <= t[i].at /\ t[i].v \in Nat
  BY <1>2 DEF Desk!Rows
<1>4. (CHOOSE k \in {i} : \A j \in {i} : t[j].at <= t[k].at) = i
  BY <1>3
<1>5. Desk!ArmedIn(t) = [id |-> i, v |-> t[i].v]
  BY <1>1, <1>4 DEF Desk!ArmedIn, Desk!ArmedIds
<1>. QED
  BY <1>2, <1>3, <1>5, DeskNone

LEMMA ArmedNone ==
  ASSUME NEW t, Desk!ArmedIds(t) = {}
  PROVE  Desk!ArmedIn(t) = None
  BY DEF Desk!ArmedIn, Desk!ArmedIds

(* Two tables with the same armed rows have the same armed strategy. *)
LEMMA ArmedSame ==
  ASSUME NEW t \in [Ids -> Desk!Rows \cup {None}], NEW u \in [Ids -> Desk!Rows \cup {None}],
         Desk!OneArmed(t), Desk!ArmedIds(u) = Desk!ArmedIds(t),
         \A i \in Desk!ArmedIds(t) : u[i] = t[i]
  PROVE  Desk!OneArmed(u) /\ Desk!ArmedIn(u) = Desk!ArmedIn(t)
<1>1. Desk!OneArmed(u)
  BY DEF Desk!OneArmed
<1>2. CASE Desk!ArmedIds(t) = {}
  BY <1>1, <1>2, ArmedNone
<1>3. CASE Desk!ArmedIds(t) # {}
  <2>1. PICK i \in Desk!ArmedIds(t) : TRUE
    BY <1>3
  <2>2. Desk!ArmedIn(t) = [id |-> i, v |-> t[i].v]
    BY <2>1, ArmedOne
  <2>3. Desk!ArmedIn(u) = [id |-> i, v |-> u[i].v]
    BY <1>1, <2>1, ArmedOne
  <2>. QED BY <1>1, <2>1, <2>2, <2>3
<1>. QED BY <1>2, <1>3

(* setActiveStrategy disarms the others. *)
LEMMA SetActiveArms ==
  ASSUME NEW t \in [Ids -> Desk!Rows \cup {None}], NEW i \in Ids, t[i] # None, NEW now \in Nat
  PROVE  /\ Desk!SetActive(t, i, now) \in [Ids -> Desk!Rows \cup {None}]
         /\ Desk!OneArmed(Desk!SetActive(t, i, now))
<1> DEFINE u == Desk!SetActive(t, i, now)
<1>1. u = [j \in Ids |-> CASE t[j] = None -> None
                           [] t[j] # None /\ j = i -> [t[j] EXCEPT !.enabled = TRUE, !.at = now]
                           [] OTHER -> [t[j] EXCEPT !.enabled = FALSE]]
  BY DEF Desk!SetActive
<1>2. ASSUME NEW j \in Ids
      PROVE  u[j] \in Desk!Rows \cup {None} /\ (u[j] # None /\ u[j].enabled => j = i)
  <2>1. CASE t[j] = None
    BY <1>1, <2>1
  <2>2. CASE t[j] # None /\ j = i
    <3>1. t[j] \in Desk!Rows /\ u[j] = [t[j] EXCEPT !.enabled = TRUE, !.at = now]
      BY <1>1, <2>2
    <3>. QED BY <2>2, <3>1 DEF Desk!Rows
  <2>3. CASE t[j] # None /\ j # i
    <3>1. t[j] \in Desk!Rows /\ u[j] = [t[j] EXCEPT !.enabled = FALSE]
      BY <1>1, <2>3
    <3>2. u[j] \in Desk!Rows /\ ~u[j].enabled
      BY <3>1 DEF Desk!Rows
    <3>. QED BY <3>2
  <2>. QED BY <2>1, <2>2, <2>3
<1>3. u \in [Ids -> Desk!Rows \cup {None}]
  BY <1>1, <1>2
<1>4. Desk!OneArmed(u)
  BY <1>2 DEF Desk!OneArmed, Desk!ArmedIds
<1>. QED BY <1>3, <1>4

(* A write of a strategy, armed or not, leaves one armed at most. *)
LEMMA WrittenArms ==
  ASSUME Desk!DeskTypes, Desk!OneArmed(v1), NEW i \in Ids, NEW enabled \in BOOLEAN, Desk!Written(i, enabled)
  PROVE  /\ v1' \in [Ids -> Desk!Rows \cup {None}] /\ v2' \in Nat
         /\ Desk!OneArmed(v1')
         /\ Desk!ReloadStrategy /\ UNCHANGED <<v4, v5, v8, v11>>
<1> DEFINE saved == Desk!UpsertStrategy(v1, i, enabled, v2 + 1)
           row   == [enabled |-> enabled, v |-> v2 + 1, at |-> v2 + 1]
<1>0. v1 \in [Ids -> Desk!Rows \cup {None}] /\ v2 \in Nat /\ v2 + 1 \in Nat
  BY DEF Desk!DeskTypes
<1>1. /\ v2' = v2 + 1 /\ v1' = (IF enabled THEN Desk!SetActive(saved, i, v2 + 1) ELSE saved)
      /\ Desk!ReloadStrategy /\ UNCHANGED <<v4, v5, v8, v11>>
  BY DEF Desk!Written
<1>2. saved = [v1 EXCEPT ![i] = row] /\ row \in Desk!Rows /\ row # None
  BY <1>0, DeskNone DEF Desk!UpsertStrategy, Desk!Rows
<1>3. saved \in [Ids -> Desk!Rows \cup {None}] /\ saved[i] = row
  BY <1>0, <1>2
<1>4. CASE enabled
  BY <1>0, <1>1, <1>2, <1>3, <1>4, SetActiveArms
<1>5. CASE ~enabled
  <2>1. ~row.enabled
    BY <1>5
  <2>2. ASSUME NEW j \in Desk!ArmedIds(saved) PROVE j \in Desk!ArmedIds(v1)
    <3>1. j # i /\ j \in Ids /\ saved[j] = v1[j]
      BY <1>0, <1>2, <1>3, <2>1 DEF Desk!ArmedIds
    <3>. QED BY <3>1 DEF Desk!ArmedIds
  <2>3. Desk!OneArmed(saved)
    BY <2>2 DEF Desk!OneArmed
  <2>. QED BY <1>0, <1>1, <1>3, <1>5, <2>3
<1>. QED BY <1>4, <1>5

(* reloadStrategy: the engine runs what the table arms now. *)
LEMMA ReloadFollows ==
  ASSUME Desk!FeedFollows, v9 \in BOOLEAN, Desk!ReloadStrategy, UNCHANGED <<v4, v5, v8>>
  PROVE  Desk!EngineFollows' /\ Desk!FeedFollows' /\ v9' \in BOOLEAN
<1>1. /\ v3' = Desk!ArmedIn(v1')
      /\ v6' = IF v4 = "RUNNING" /\ v3' # None THEN v3' ELSE v6
      /\ v9' = (v9 \/ (v5 # <<>> /\ v3' # v3))
  BY DEF Desk!ReloadStrategy
<1>2. Desk!EngineFollows'
  BY <1>1 DEF Desk!EngineFollows
<1>3. ASSUME ~v9' PROVE \A n \in DOMAIN v5' : v5'[n] = v3'
  <2>1. ~v9 /\ (v5 = <<>> \/ v3' = v3)
    BY <1>1, <1>3
  <2>2. \A n \in DOMAIN v5 : v5[n] = v3
    BY <2>1 DEF Desk!FeedFollows
  <2>3. CASE v5 = <<>>
    BY <2>3
  <2>4. CASE v3' = v3
    BY <2>2, <2>4
  <2>. QED BY <2>1, <2>3, <2>4
<1>4. v4' = "RUNNING" /\ v3' # None => v6' = v3'
  BY <1>1
<1>. QED BY <1>1, <1>2, <1>3, <1>4 DEF Desk!FeedFollows
-----------------------------------------------------------------------------
(* The page's steps touch the form and `behind' only. *)
LEMMA FormStep ==
  ASSUME Desk!DeskInv, Desk!OnForm, v10' \in BOOLEAN, v7' \in Desk!Forms,
         v7'.saving = "posting" => v7'.wire \in Desk!Drafts,
         v7'.saving = "posted" => v7'.wire \in Desk!Copies,
         v7'.saving = "listed" => v7'.wire \in Desk!Listing,
         Desk!FormFollows'
  PROVE  Desk!DeskInv'
<1>1. Desk!DeskTypes'
  BY DEF Desk!DeskInv, Desk!DeskTypes, Desk!OnForm
<1>2. Desk!OneArmed(v1')
  BY DEF Desk!DeskInv, Desk!OnForm
<1>3. Desk!EngineFollows' /\ Desk!FeedFollows'
  BY DEF Desk!DeskInv, Desk!OnForm, Desk!EngineFollows, Desk!FeedFollows
<1>. QED
  BY <1>1, <1>2, <1>3 DEF Desk!DeskInv

LEMMA FormFields ==
  ASSUME Desk!DeskTypes
  PROVE  /\ v7 \in Desk!Forms /\ v7.draft \in Desk!Drafts /\ v7.listed \subseteq Desk!Copies
         /\ v7.dirty \in BOOLEAN
         /\ v7.saving \in {"no", "posting", "posted", "listing", "listed"}
         /\ v7.wire \in {None} \cup Desk!Drafts \cup Desk!Listing
         /\ v10 \in BOOLEAN
  BY DEF Desk!DeskTypes, Desk!Forms

LEMMA EditDraftKeeps == Desk!DeskInv /\ Desk!EditDraft => Desk!DeskInv'
<1> SUFFICES ASSUME Desk!DeskInv, Desk!EditDraft PROVE Desk!DeskInv'
  OBVIOUS
<1>1. Desk!DeskTypes /\ Desk!FormFollows
  BY DEF Desk!DeskInv
<1>2. v7' = [v7 EXCEPT !.draft = [v7.draft EXCEPT !.enabled = ~v7.draft.enabled], !.dirty = TRUE]
  BY <1>1, FormFields DEF Desk!EditDraft, Desk!Forms
<1>3. [v7.draft EXCEPT !.enabled = ~v7.draft.enabled] \in Desk!Drafts
  BY <1>1, FormFields DEF Desk!Drafts
<1>4. /\ v7' \in Desk!Forms /\ v7'.dirty
      /\ v7'.saving = v7.saving /\ v7'.wire = v7.wire /\ v7'.listed = v7.listed
  BY <1>1, <1>2, <1>3, FormFields DEF Desk!Forms
<1>5. Desk!OnForm /\ v10' = v10
  BY DEF Desk!EditDraft
<1>6. Desk!FormFollows'
  BY <1>1, <1>4, <1>5 DEF Desk!FormFollows, Desk!OnForm, Desk!IsStored
<1>. QED
  BY <1>1, <1>4, <1>5, <1>6, FormStep, FormFields DEF Desk!DeskTypes

LEMMA NewDraftKeeps == Desk!DeskInv /\ Desk!NewDraft => Desk!DeskInv'
<1> SUFFICES ASSUME Desk!DeskInv, Desk!NewDraft PROVE Desk!DeskInv'
  OBVIOUS
<1>1. Desk!DeskTypes /\ Desk!FormFollows
  BY DEF Desk!DeskInv
<1>2. v7' = [v7 EXCEPT !.draft = Desk!Blank, !.dirty = FALSE] /\ Desk!OnForm /\ v10' = v10
  BY DEF Desk!NewDraft
<1>3. Desk!Blank \in Desk!Drafts /\ Desk!Blank.id = None
  BY DEF Desk!Blank, Desk!Drafts
<1>4. /\ v7' \in Desk!Forms /\ v7'.draft.id = None
      /\ v7'.saving = v7.saving /\ v7'.wire = v7.wire /\ v7'.listed = v7.listed
  BY <1>1, <1>2, <1>3, FormFields DEF Desk!Forms
<1>5. Desk!FormFollows'
  BY <1>1, <1>2, <1>4 DEF Desk!FormFollows, Desk!OnForm, Desk!IsStored
<1>. QED
  BY <1>1, <1>2, <1>4, <1>5, FormStep, FormFields DEF Desk!DeskTypes

LEMMA PickSavedKeeps ==
  ASSUME Desk!DeskInv, NEW s \in v7.listed, Desk!PickSaved(s)
  PROVE  Desk!DeskInv'
<1>1. Desk!DeskTypes /\ Desk!FormFollows
  BY DEF Desk!DeskInv
<1>2. v7' = [v7 EXCEPT !.draft = s, !.dirty = FALSE] /\ Desk!OnForm /\ v10' = v10
  BY DEF Desk!PickSaved
<1>3. s \in Desk!Drafts
  BY <1>1, FormFields DEF Desk!Drafts, Desk!Copies
<1>4. /\ v7' \in Desk!Forms /\ v7'.draft = s
      /\ v7'.saving = v7.saving /\ v7'.wire = v7.wire /\ v7'.listed = v7.listed
  BY <1>1, <1>2, <1>3, FormFields DEF Desk!Forms
<1>5. Desk!FormFollows'
  BY <1>1, <1>2, <1>4 DEF Desk!FormFollows, Desk!OnForm, Desk!IsStored
<1>. QED
  BY <1>1, <1>2, <1>4, <1>5, FormStep, FormFields DEF Desk!DeskTypes

LEMMA ClickSaveKeeps == Desk!DeskInv /\ Desk!ClickSave => Desk!DeskInv'
<1> SUFFICES ASSUME Desk!DeskInv, Desk!ClickSave PROVE Desk!DeskInv'
  OBVIOUS
<1>1. Desk!DeskTypes /\ Desk!FormFollows
  BY DEF Desk!DeskInv
<1>2. /\ v7.saving = "no" /\ v7' = [v7 EXCEPT !.saving = "posting", !.wire = v7.draft]
      /\ Desk!OnForm /\ v10' = v10
  BY DEF Desk!ClickSave
<1>3. /\ v7' \in Desk!Forms /\ v7'.saving = "posting" /\ v7'.wire \in Desk!Drafts
      /\ v7'.draft = v7.draft /\ v7'.listed = v7.listed /\ v7'.dirty = v7.dirty
  BY <1>1, <1>2, FormFields DEF Desk!Forms
<1>4. Desk!FormFollows'
  BY <1>1, <1>2, <1>3 DEF Desk!FormFollows, Desk!OnForm, Desk!IsStored
<1>. QED
  BY <1>1, <1>2, <1>3, <1>4, FormStep, FormFields

LEMMA PostAnsweredKeeps == Desk!DeskInv /\ Desk!PostAnswered => Desk!DeskInv'
<1> SUFFICES ASSUME Desk!DeskInv, Desk!PostAnswered PROVE Desk!DeskInv'
  OBVIOUS
<1>1. Desk!DeskTypes /\ Desk!FormFollows
  BY DEF Desk!DeskInv
<1>2. /\ v7.saving = "posted" /\ Desk!OnForm /\ v10' = v10
      /\ v7' = [v7 EXCEPT !.saving = "listing", !.draft = v7.wire, !.wire = None, !.dirty = FALSE]
  BY DEF Desk!PostAnswered
<1>3. v7.wire \in Desk!Drafts
  BY <1>1, <1>2 DEF Desk!DeskTypes, Desk!Copies, Desk!Drafts
<1>4. v7' \in Desk!Forms /\ v7'.saving = "listing"
  BY <1>1, <1>2, <1>3, FormFields DEF Desk!Forms
<1>5. Desk!FormFollows'
  BY <1>4 DEF Desk!FormFollows
<1>. QED
  BY <1>1, <1>2, <1>4, <1>5, FormStep, FormFields

(* What the list request finds is stored, and so is its choice. *)
LEMMA CopyStored ==
  ASSUME Desk!DeskTypes, NEW i \in Desk!Stored
  PROVE  Desk!Copy(v1, i) \in Desk!Copies /\ Desk!IsStored(Desk!Copy(v1, i)) /\ Desk!Copy(v1, i) # None
<1>1. i \in Ids /\ v1[i] # None /\ v1[i] \in Desk!Rows
  BY DEF Desk!Stored, Desk!DeskTypes
<1>2. Desk!Copy(v1, i) = [id |-> i, v |-> v1[i].v, enabled |-> v1[i].enabled]
  BY DEF Desk!Copy
<1>3. Desk!Copy(v1, i) \in Desk!Copies /\ Desk!Copy(v1, i).id = i
  BY <1>1, <1>2 DEF Desk!Copies, Desk!Rows
<1>. QED
  BY <1>1, <1>3, DeskNone DEF Desk!IsStored

LEMMA NewestStored ==
  ASSUME Desk!DeskTypes, Desk!Stored # {}
  PROVE  Desk!Newest(Desk!Stored) \in Desk!Stored
<1> DEFINE times == {v1[j].at : j \in Desk!Stored}
<1>1. \A j \in Desk!Stored : v1[j].at \in Nat
  BY DEF Desk!DeskTypes, Desk!Stored, Desk!Rows
<1>2. IsFiniteSet(Desk!Stored)
  BY DeskAssumption, FS_Subset DEF Desk!Stored
<1>3. IsFiniteSet(times) /\ times \subseteq Int
  <2> DEFINE f == [j \in Desk!Stored |-> v1[j].at]
  <2>1. f \in Surjection(Desk!Stored, times)
    BY DEF Surjection
  <2> HIDE DEF f
  <2>. QED BY <1>1, <1>2, <2>1, FS_Surjection
<1>4. PICK w \in times : TRUE
  OBVIOUS
<1>5. Max(times) \in times /\ \A y \in times : Max(times) >= y
  <2> HIDE DEF times
  <2>. QED BY <1>3, <1>4, MaxOfSet
<1>6. PICK i \in Desk!Stored : v1[i].at = Max(times)
  BY <1>5
<1>7. \A j \in Desk!Stored : v1[j].at <= v1[i].at
  BY <1>1, <1>3, <1>5, <1>6
<1>. QED
  BY <1>6, <1>7 DEF Desk!Newest

LEMMA ListReadKeeps == Desk!DeskInv /\ Desk!ListRead => Desk!DeskInv'
<1> SUFFICES ASSUME Desk!DeskInv, Desk!ListRead PROVE Desk!DeskInv'
  OBVIOUS
<1> DEFINE all == {Desk!Copy(v1, i) : i \in Desk!Stored}
           preferred == CASE Desk!ArmedIn(v1) # None -> Desk!Copy(v1, Desk!ArmedIn(v1).id)
                          [] Desk!ArmedIn(v1) = None /\ Desk!Stored # {} -> Desk!Copy(v1, Desk!Newest(Desk!Stored))
                          [] OTHER -> None
<1>1. Desk!DeskTypes /\ Desk!OneArmed(v1)
  BY DEF Desk!DeskInv
<1>2. /\ v7' = [v7 EXCEPT !.saving = "listed", !.wire = [all |-> all, preferred |-> preferred]]
      /\ Desk!OnForm /\ v10' = FALSE
  BY DEF Desk!ListRead
<1>3. \A s \in all : s \in Desk!Copies /\ Desk!IsStored(s)
  BY <1>1, CopyStored
<1>4. \/ all = {} /\ preferred = None
      \/ preferred \in Desk!Copies /\ Desk!IsStored(preferred) /\ preferred # None
  <2>1. CASE Desk!ArmedIn(v1) # None
    <3>1. PICK i \in Desk!ArmedIds(v1) : TRUE
      BY <2>1, ArmedNone
    <3>2. Desk!ArmedIn(v1) = [id |-> i, v |-> v1[i].v]
      BY <1>1, <3>1, ArmedOne DEF Desk!DeskTypes
    <3>3. i \in Desk!Stored /\ preferred = Desk!Copy(v1, i)
      BY <2>1, <3>1, <3>2 DEF Desk!ArmedIds, Desk!Stored
    <3>. QED BY <1>1, <3>3, CopyStored
  <2>2. CASE Desk!ArmedIn(v1) = None /\ Desk!Stored # {}
    <3>1. preferred = Desk!Copy(v1, Desk!Newest(Desk!Stored))
      BY <2>2
    <3>. QED BY <1>1, <2>2, <3>1, NewestStored, CopyStored
  <2>3. CASE Desk!ArmedIn(v1) = None /\ Desk!Stored = {}
    BY <2>3
  <2>. QED BY <2>1, <2>2, <2>3
<1> HIDE DEF all, preferred
<1>5. [all |-> all, preferred |-> preferred] \in Desk!Listing
  BY <1>3, <1>4 DEF Desk!Listing
<1>6. /\ v7' \in Desk!Forms /\ v7'.saving = "listed"
      /\ v7'.wire = [all |-> all, preferred |-> preferred]
  BY <1>1, <1>2, <1>5, FormFields DEF Desk!Forms
<1>7. Desk!FormFollows'
  <2>1. v1' = v1 /\ v7'.wire.all = all /\ v7'.wire.preferred = preferred
    BY <1>2, <1>6 DEF Desk!OnForm
  <2>. QED
    BY <1>3, <1>4, <1>6, <2>1 DEF Desk!FormFollows, Desk!IsStored
<1>. QED
  BY <1>2, <1>5, <1>6, <1>7, FormStep

LEMMA ListAnsweredKeeps == Desk!DeskInv /\ Desk!ListAnswered => Desk!DeskInv'
<1> SUFFICES ASSUME Desk!DeskInv, Desk!ListAnswered PROVE Desk!DeskInv'
  OBVIOUS
<1> DEFINE preferred == v7.wire.preferred
           draft     == IF preferred = None THEN v7.draft ELSE preferred
           dirty     == IF preferred = None THEN v7.dirty ELSE FALSE
<1>1. Desk!DeskTypes /\ Desk!FormFollows
  BY DEF Desk!DeskInv
<1>2. /\ v7.saving = "listed" /\ Desk!OnForm /\ v10' = v10
      /\ v7' = [v7 EXCEPT !.saving = "no", !.wire = None, !.listed = v7.wire.all,
                          !.draft = draft, !.dirty = dirty]
  BY DEF Desk!ListAnswered
<1>3. v7.wire.all \subseteq Desk!Copies /\ preferred \in Desk!Copies \cup {None}
  BY <1>1, <1>2 DEF Desk!DeskTypes, Desk!Listing
<1>4. draft \in Desk!Drafts /\ dirty \in BOOLEAN
  BY <1>1, <1>3, FormFields DEF Desk!Copies, Desk!Drafts
<1>5. /\ v7' \in Desk!Forms /\ v7'.saving = "no"
      /\ v7'.listed = v7.wire.all /\ v7'.draft = draft
  <2> HIDE DEF draft, dirty
  <2>. QED BY <1>1, <1>2, <1>3, <1>4, FormFields DEF Desk!Forms
<1>6. ASSUME ~v10'
      PROVE  /\ \A s \in v7'.listed : Desk!IsStored(s)
             /\ v7'.listed # {} => Desk!IsStored(v7'.draft)
  <2>1. ~v10
    BY <1>2, <1>6
  <2>2. /\ \A s \in v7.wire.all : Desk!IsStored(s)
        /\ v7.wire.all # {} => preferred # None
        /\ preferred # None => Desk!IsStored(preferred)
    BY <1>1, <1>2, <2>1 DEF Desk!FormFollows
  <2>. QED BY <1>5, <2>2
<1>7. Desk!FormFollows'
  BY <1>2, <1>5, <1>6 DEF Desk!FormFollows, Desk!OnForm, Desk!IsStored
<1>. QED
  BY <1>1, <1>2, <1>5, <1>7, FormStep, FormFields

LEMMA RequestFailsKeeps == Desk!DeskInv /\ Desk!RequestFails => Desk!DeskInv'
<1> SUFFICES ASSUME Desk!DeskInv, Desk!RequestFails PROVE Desk!DeskInv'
  OBVIOUS
<1>1. Desk!DeskTypes /\ Desk!FormFollows
  BY DEF Desk!DeskInv
<1>2. /\ v7.saving # "no" /\ Desk!OnForm /\ v10' = (v10 \/ v7.saving # "posting")
      /\ v7' = [v7 EXCEPT !.saving = "no", !.wire = None, !.dirty = TRUE]
  BY DEF Desk!RequestFails
<1>3. /\ v7' \in Desk!Forms /\ v7'.saving = "no" /\ v7'.dirty /\ v7'.listed = v7.listed
  BY <1>1, <1>2, FormFields DEF Desk!Forms
<1>4. Desk!FormFollows'
  BY <1>1, <1>2, <1>3 DEF Desk!FormFollows, Desk!OnForm, Desk!IsStored
<1>5. v10' \in BOOLEAN
  BY <1>1, <1>2, FormFields
<1>. QED
  BY <1>2, <1>3, <1>4, <1>5, FormStep
-----------------------------------------------------------------------------
(* The engine's steps leave the table and the form alone. *)
LEMMA EngineStep ==
  ASSUME Desk!DeskInv, UNCHANGED <<v1, v2, v7, v10>>,
         v5' \in Seq([id : Ids, v : Nat]), v8' \in BOOLEAN, v9' \in BOOLEAN,
         Desk!EngineFollows', Desk!FeedFollows'
  PROVE  Desk!DeskInv'
<1>1. Desk!DeskTypes'
  BY DEF Desk!DeskInv, Desk!DeskTypes
<1>2. Desk!OneArmed(v1') /\ Desk!FormFollows'
  BY DEF Desk!DeskInv, Desk!FormFollows, Desk!IsStored
<1>. QED
  BY <1>1, <1>2 DEF Desk!DeskInv

LEMMA DeskFields ==
  ASSUME Desk!DeskInv
  PROVE  /\ v1 \in [Ids -> Desk!Rows \cup {None}] /\ Desk!OneArmed(v1) /\ v2 \in Nat
         /\ v5 \in Seq([id : Ids, v : Nat])
         /\ v8 \in BOOLEAN /\ v9 \in BOOLEAN /\ v10 \in BOOLEAN
         /\ Desk!EngineFollows /\ Desk!FeedFollows
  BY DEF Desk!DeskInv, Desk!DeskTypes

LEMMA RemoveAtSeq ==
  ASSUME NEW S, NEW s \in Seq(S), NEW n \in DOMAIN s
  PROVE  Desk!RemoveAt(s, n) \in Seq(S)
<1>1. n \in 1 .. Len(s)
  OBVIOUS
<1>2. SubSeq(s, 1, n - 1) \in Seq(S) /\ SubSeq(s, n + 1, Len(s)) \in Seq(S)
  BY <1>1
<1>. QED
  BY <1>2 DEF Desk!RemoveAt

LEMMA StartKeeps == Desk!DeskInv /\ Desk!Start => Desk!DeskInv'
<1> SUFFICES ASSUME Desk!DeskInv, Desk!Start PROVE Desk!DeskInv'
  OBVIOUS
<1>1. /\ UNCHANGED <<v1, v2, v6, v7, v9, v10>>
      /\ v8' = (v8 /\ Desk!ArmedIn(v1) = None)
  BY DEF Desk!Start
<1>2. CASE Desk!ArmedIn(v1) = None
  <2>1. v4' = "ERROR" /\ v3' = v3 /\ v5' = v5 /\ v8' = v8
    BY <1>1, <1>2, DeskFields DEF Desk!Start
  <2>2. Desk!EngineFollows'
    BY <1>1, <2>1, DeskFields DEF Desk!EngineFollows
  <2>3. Desk!FeedFollows'
    BY <1>1, <2>1, DeskFields DEF Desk!FeedFollows
  <2>. QED BY <1>1, <2>1, <2>2, <2>3, DeskFields, EngineStep
<1>3. CASE Desk!ArmedIn(v1) # None
  <2>1. v4' = "STARTING" /\ v3' = Desk!ArmedIn(v1) /\ v5' = Append(v5, v3') /\ v8' = FALSE
    BY <1>1, <1>3 DEF Desk!Start
  <2>2. PICK i \in Desk!ArmedIds(v1) : TRUE
    BY <1>3, ArmedNone
  <2>3. v3' \in [id : Ids, v : Nat]
    <3>1. v3' = [id |-> i, v |-> v1[i].v]
      BY <2>1, <2>2, DeskFields, ArmedOne
    <3>2. i \in Ids /\ v1[i] \in Desk!Rows
      BY <2>2, DeskFields DEF Desk!ArmedIds
    <3>. QED BY <3>1, <3>2 DEF Desk!Rows
  <2>4. v5 \in Seq([id : Ids, v : Nat])
    BY DeskFields
  <2>5. v5' \in Seq([id : Ids, v : Nat])
    BY <2>1, <2>3, <2>4
  <2>6. Desk!EngineFollows'
    BY <1>1, <2>1 DEF Desk!EngineFollows
  <2>7. ASSUME ~v9', NEW n \in DOMAIN v5' PROVE v5'[n] = v3'
    <3>1. CASE n = Len(v5) + 1
      BY <2>1, <2>3, <2>4, <3>1
    <3>2. CASE n # Len(v5) + 1
      <4>1. n \in DOMAIN v5 /\ v5 # <<>> /\ v5'[n] = v5[n]
        BY <2>1, <2>3, <2>4, <2>7, <3>2
      <4>2. v5[n] = v3
        BY <1>1, <2>7, <4>1, DeskFields DEF Desk!FeedFollows
      <4>3. v3 = Desk!ArmedIn(v1)
        BY <1>3, <4>1, DeskFields DEF Desk!EngineFollows
      <4>. QED BY <2>1, <4>1, <4>2, <4>3
    <3>. QED BY <3>1, <3>2
  <2>8. Desk!FeedFollows'
    BY <2>1, <2>7 DEF Desk!FeedFollows
  <2>. QED BY <1>1, <2>1, <2>5, <2>6, <2>8, DeskFields, EngineStep
<1>. QED BY <1>2, <1>3

LEMMA StartFailsKeeps ==
  ASSUME Desk!DeskInv, NEW n \in DOMAIN v5, Desk!StartFails(n)
  PROVE  Desk!DeskInv'
<1>1. /\ v4' = "ERROR" /\ v5' = Desk!RemoveAt(v5, n)
      /\ UNCHANGED <<v1, v2, v3, v6, v7, v8, v9, v10>>
  BY DEF Desk!StartFails
<1>2. v5' \in Seq([id : Ids, v : Nat])
  BY <1>1, DeskFields, RemoveAtSeq
<1>3. Desk!EngineFollows'
  BY <1>1, DeskFields DEF Desk!EngineFollows
<1>4. ASSUME ~v9' PROVE \A k \in DOMAIN v5' : v5'[k] = v3'
  <2>1. \A k \in DOMAIN v5 : v5[k] = v3
    BY <1>1, <1>4, DeskFields DEF Desk!FeedFollows
  <2>2. v5 \in Seq({v3})
    BY <2>1, DeskFields
  <2>3. v5' \in Seq({v3})
    BY <1>1, <2>2, RemoveAtSeq
  <2>. QED BY <1>1, <2>3
<1>5. Desk!FeedFollows'
  BY <1>1, <1>4 DEF Desk!FeedFollows
<1>. QED BY <1>1, <1>2, <1>3, <1>5, DeskFields, EngineStep

LEMMA StartEndsKeeps ==
  ASSUME Desk!DeskInv, NEW n \in DOMAIN v5, Desk!StartEnds(n)
  PROVE  Desk!DeskInv'
<1>1. /\ v4' = "RUNNING" /\ v6' = v5[n] /\ v5' = Desk!RemoveAt(v5, n)
      /\ UNCHANGED <<v1, v2, v3, v7, v8, v9, v10>>
  BY DEF Desk!StartEnds
<1>2. v5' \in Seq([id : Ids, v : Nat])
  BY <1>1, DeskFields, RemoveAtSeq
<1>3. Desk!EngineFollows'
  BY <1>1, DeskFields DEF Desk!EngineFollows
<1>4. ASSUME ~v9' PROVE (\A k \in DOMAIN v5' : v5'[k] = v3') /\ v6' = v3'
  <2>1. \A k \in DOMAIN v5 : v5[k] = v3
    BY <1>1, <1>4, DeskFields DEF Desk!FeedFollows
  <2>2. v5 \in Seq({v3})
    BY <2>1, DeskFields
  <2>3. v5' \in Seq({v3})
    BY <1>1, <2>2, RemoveAtSeq
  <2>. QED BY <1>1, <2>1, <2>3
<1>5. Desk!FeedFollows'
  BY <1>1, <1>4 DEF Desk!FeedFollows
<1>. QED BY <1>1, <1>2, <1>3, <1>5, DeskFields, EngineStep

LEMMA StopKeeps == Desk!DeskInv /\ Desk!Stop => Desk!DeskInv'
<1> SUFFICES ASSUME Desk!DeskInv, Desk!Stop PROVE Desk!DeskInv'
  OBVIOUS
<1>1. v4' = "STOPPED" /\ UNCHANGED <<v1, v2, v3, v5, v7, v8, v9, v10>>
  BY DEF Desk!Stop
<1>2. Desk!EngineFollows'
  BY <1>1, DeskFields DEF Desk!EngineFollows
<1>3. Desk!FeedFollows'
  BY <1>1, DeskFields DEF Desk!FeedFollows
<1>. QED BY <1>1, <1>2, <1>3, DeskFields, EngineStep
-----------------------------------------------------------------------------
(* The writes.  What the page shows is behind after those of others. *)
LEMMA WriteStep ==
  ASSUME Desk!DeskInv, v1' \in [Ids -> Desk!Rows \cup {None}], Desk!OneArmed(v1'), v2' \in Nat,
         v5' \in Seq([id : Ids, v : Nat]), v8' \in BOOLEAN, v9' \in BOOLEAN,
         UNCHANGED v7, v10' = TRUE, Desk!EngineFollows', Desk!FeedFollows'
  PROVE  Desk!DeskInv'
<1>1. Desk!DeskTypes'
  BY DEF Desk!DeskInv, Desk!DeskTypes
<1>2. Desk!FormFollows'
  BY DEF Desk!FormFollows
<1>. QED
  BY <1>1, <1>2 DEF Desk!DeskInv

LEMMA ActivateKeeps ==
  ASSUME Desk!DeskInv, NEW i \in Ids, Desk!Activate(i)
  PROVE  Desk!DeskInv'
<1>1. /\ v1[i] # None /\ v2' = v2 + 1 /\ v1' = Desk!SetActive(v1, i, v2 + 1)
      /\ Desk!ReloadStrategy /\ v10' = TRUE /\ UNCHANGED <<v4, v5, v7, v8>>
  BY DEF Desk!Activate
<1>2. v2 + 1 \in Nat
  BY DeskFields
<1>3. v1' \in [Ids -> Desk!Rows \cup {None}] /\ Desk!OneArmed(v1')
  BY <1>1, <1>2, DeskFields, SetActiveArms
<1>4. Desk!EngineFollows' /\ Desk!FeedFollows' /\ v9' \in BOOLEAN
  BY <1>1, DeskFields, ReloadFollows
<1>. QED BY <1>1, <1>2, <1>3, <1>4, DeskFields, WriteStep

LEMMA DeleteKeeps ==
  ASSUME Desk!DeskInv, NEW i \in Ids, Desk!Delete(i)
  PROVE  Desk!DeskInv'
<1>1. /\ v1[i] # None /\ v1' = [v1 EXCEPT ![i] = None]
      /\ v8' = (v8 \/ v1[i].enabled) /\ v10' = TRUE
      /\ UNCHANGED <<v2, v3, v4, v5, v6, v7, v9>>
  BY DEF Desk!Delete
<1>2. v1[i] \in Desk!Rows /\ v1[i].enabled \in BOOLEAN /\ v8' \in BOOLEAN
  BY <1>1, DeskFields DEF Desk!Rows
<1>3. v1' \in [Ids -> Desk!Rows \cup {None}]
  BY <1>1, DeskFields
<1>4. Desk!ArmedIds(v1') = Desk!ArmedIds(v1) \ {i}
  BY <1>1, DeskFields DEF Desk!ArmedIds
<1>5. CASE v1[i].enabled
  <2>1. i \in Desk!ArmedIds(v1)
    BY <1>1, <1>5 DEF Desk!ArmedIds
  <2>2. Desk!ArmedIds(v1') = {}
    BY <1>4, <2>1, DeskFields DEF Desk!OneArmed
  <2>3. Desk!OneArmed(v1') /\ Desk!ArmedIn(v1') = None /\ v8'
    BY <1>1, <1>5, <2>2, ArmedNone DEF Desk!OneArmed
  <2>4. Desk!EngineFollows'
    BY <2>3 DEF Desk!EngineFollows
  <2>5. Desk!FeedFollows'
    BY <1>1, DeskFields DEF Desk!FeedFollows
  <2>. QED BY <1>1, <1>2, <1>3, <2>3, <2>4, <2>5, DeskFields, WriteStep
<1>6. CASE ~v1[i].enabled
  <2>1. Desk!ArmedIds(v1') = Desk!ArmedIds(v1)
    BY <1>4, <1>6 DEF Desk!ArmedIds
  <2>2. \A j \in Desk!ArmedIds(v1) : v1'[j] = v1[j]
    BY <1>1, <1>6, DeskFields DEF Desk!ArmedIds
  <2>3. Desk!OneArmed(v1') /\ Desk!ArmedIn(v1') = Desk!ArmedIn(v1)
    BY <1>3, <2>1, <2>2, DeskFields, ArmedSame
  <2>4. v8' = v8
    BY <1>1, <1>6, DeskFields
  <2>5. Desk!EngineFollows'
    BY <1>1, <2>3, <2>4, DeskFields DEF Desk!EngineFollows
  <2>6. Desk!FeedFollows'
    BY <1>1, DeskFields DEF Desk!FeedFollows
  <2>. QED BY <1>1, <1>2, <1>3, <2>3, <2>5, <2>6, DeskFields, WriteStep
<1>. QED BY <1>2, <1>5, <1>6

LEMMA PostArrivesKeeps == Desk!DeskInv /\ Desk!PostArrives => Desk!DeskInv'
<1> SUFFICES ASSUME Desk!DeskInv, Desk!PostArrives PROVE Desk!DeskInv'
  OBVIOUS
<1>0. Desk!DeskTypes
  BY DEF Desk!DeskInv
<1>1. PICK i \in Ids :
        /\ v7.saving = "posting" /\ v10' = v10
        /\ Desk!Written(i, v7.wire.enabled)
        /\ v7' = [v7 EXCEPT !.saving = "posted",
                            !.wire = [id |-> i, v |-> v2', enabled |-> v7.wire.enabled]]
  BY DEF Desk!PostArrives
<1>2. v7.wire.enabled \in BOOLEAN
  BY <1>0, <1>1 DEF Desk!DeskTypes, Desk!Drafts
<1>3. /\ v1' \in [Ids -> Desk!Rows \cup {None}] /\ v2' \in Nat
      /\ Desk!OneArmed(v1') /\ Desk!ReloadStrategy /\ UNCHANGED <<v4, v5, v8, v11>>
  BY <1>0, <1>1, <1>2, DeskFields, WrittenArms
<1>4. Desk!EngineFollows' /\ Desk!FeedFollows' /\ v9' \in BOOLEAN
  BY <1>3, DeskFields, ReloadFollows
<1> DEFINE wire == [id |-> i, v |-> v2', enabled |-> v7.wire.enabled]
<1>5. wire \in Desk!Copies /\ wire \in Desk!Drafts
  BY <1>2, <1>3 DEF Desk!Copies, Desk!Drafts
<1>6. v7' \in Desk!Forms /\ v7'.saving = "posted" /\ v7'.wire = wire
  <2> HIDE DEF wire
  <2>1. v7' = [v7 EXCEPT !.saving = "posted", !.wire = wire]
    BY <1>1 DEF wire
  <2>. QED BY <1>0, <1>5, <2>1, FormFields DEF Desk!Forms
<1>7. Desk!DeskTypes'
  BY <1>0, <1>1, <1>3, <1>4, <1>5, <1>6 DEF Desk!DeskTypes
<1>8. Desk!FormFollows'
  BY <1>6 DEF Desk!FormFollows
<1>. QED BY <1>3, <1>4, <1>7, <1>8 DEF Desk!DeskInv

LEMMA RestartKeeps == Desk!DeskInv /\ Desk!RestartServer => Desk!DeskInv'
<1> SUFFICES ASSUME Desk!DeskInv, Desk!RestartServer PROVE Desk!DeskInv'
  OBVIOUS
<1> DEFINE row   == [enabled |-> FALSE, v |-> v2, at |-> v2]
           first == CHOOSE i \in Ids : TRUE
<1>1. /\ v4' = "STOPPED" /\ v5' = <<>> /\ v8' = FALSE /\ v9' = FALSE /\ v7' = v7 /\ v2' = v2
      /\ v1' = (IF Desk!Stored # {} THEN v1 ELSE [v1 EXCEPT ![first] = row])
      /\ v10' = (v10 \/ Desk!Stored = {})
  BY DEF Desk!RestartServer
<1>2. Desk!EngineFollows'
  BY <1>1 DEF Desk!EngineFollows
<1>3. Desk!FeedFollows'
  BY <1>1 DEF Desk!FeedFollows
<1>4. v5' \in Seq([id : Ids, v : Nat])
  BY <1>1
<1>5. CASE Desk!Stored # {}
  <2>1. v1' = v1 /\ v10' = v10
    BY <1>1, <1>5, DeskFields
  <2>. QED BY <1>1, <1>2, <1>3, <1>4, <2>1, EngineStep
<1>6. CASE Desk!Stored = {}
  <2>1. \A i \in Ids : v1[i] = None
    BY <1>6 DEF Desk!Stored
  <2>2. first \in Ids
    BY DeskAssumption
  <2>3. row \in Desk!Rows /\ ~row.enabled
    BY DeskFields DEF Desk!Rows
  <2>4. v1' = [v1 EXCEPT ![first] = row]
    BY <1>1, <1>6
  <2> HIDE DEF row, first
  <2>5. v1' \in [Ids -> Desk!Rows \cup {None}]
    BY <2>2, <2>3, <2>4, DeskFields
  <2>6. \A i \in Ids : v1'[i] = None \/ v1'[i] = row
    BY <2>1, <2>4, DeskFields
  <2>7. Desk!ArmedIds(v1') = {}
    BY <2>3, <2>6 DEF Desk!ArmedIds
  <2>8. Desk!OneArmed(v1')
    BY <2>7 DEF Desk!OneArmed
  <2>9. v10' = TRUE
    BY <1>1, <1>6
  <2>. QED BY <1>1, <1>2, <1>3, <1>4, <2>5, <2>8, <2>9, DeskFields, WriteStep
<1>. QED BY <1>5, <1>6

LEMMA DeskStarts0 == Desk!Init => Desk!DeskInv
<1> SUFFICES ASSUME Desk!Init PROVE Desk!DeskInv
  OBVIOUS
<1> DEFINE row == [enabled |-> FALSE, v |-> 1, at |-> 1]
<1>1. PICK i \in Ids : v1 = [j \in Ids |-> IF j = i THEN row ELSE None]
  BY DEF Desk!Init
<1>2. /\ v2 = 1 /\ v3 = None /\ v4 = "STOPPED" /\ v5 = <<>>
      /\ v7 = [draft |-> Desk!Blank, listed |-> {}, saving |-> "listing", wire |-> None, dirty |-> FALSE]
      /\ v8 = FALSE /\ v9 = FALSE /\ v10 = FALSE
  BY DEF Desk!Init
<1>3. row \in Desk!Rows /\ ~row.enabled
  BY DEF Desk!Rows
<1> HIDE DEF row
<1>4. v1 \in [Ids -> Desk!Rows \cup {None}] /\ \A j \in Ids : v1[j] = row \/ v1[j] = None
  BY <1>1, <1>3
<1>5. Desk!OneArmed(v1)
  BY <1>3, <1>4 DEF Desk!OneArmed, Desk!ArmedIds
<1>6. Desk!Blank \in Desk!Drafts
  BY DEF Desk!Blank, Desk!Drafts
<1>7. v7 \in Desk!Forms
  BY <1>2, <1>6 DEF Desk!Forms
<1>8. Desk!DeskTypes
  <2>1. v7.saving = "listing"
    BY <1>2
  <2>2. v2 \in Nat /\ {v8, v9, v10} \subseteq BOOLEAN
    BY <1>2
  <2>3. v5 \in Seq([id : Ids, v : Nat])
    <3>1. v5 = <<>>
      BY <1>2
    <3>. QED BY <3>1
  <2>. QED BY <1>4, <1>7, <2>1, <2>2, <2>3 DEF Desk!DeskTypes
<1>9. Desk!EngineFollows /\ Desk!FeedFollows /\ Desk!FormFollows
  BY <1>2 DEF Desk!EngineFollows, Desk!FeedFollows, Desk!FormFollows
<1>. QED BY <1>5, <1>8, <1>9 DEF Desk!DeskInv

LEMMA DeskSteps ==
  ASSUME Desk!DeskInv, Desk!Next \/ UNCHANGED Desk!deskVars
  PROVE  Desk!DeskInv'
<1>1. CASE UNCHANGED Desk!deskVars
  <2>1. UNCHANGED <<v1, v2, v3, v4, v5, v6, v7, v8, v9, v10>>
    BY <1>1 DEF Desk!deskVars
  <2>2. Desk!EngineFollows' /\ Desk!FeedFollows'
    BY <2>1, DeskFields DEF Desk!EngineFollows, Desk!FeedFollows
  <2>. QED BY <2>1, <2>2, DeskFields, EngineStep
<1>2. ASSUME NEW i \in Ids, Desk!Activate(i) \/ Desk!Delete(i) PROVE Desk!DeskInv'
  BY <1>2, ActivateKeeps, DeleteKeeps
<1>3. CASE Desk!Start \/ Desk!Stop \/ Desk!RestartServer
  BY <1>3, StartKeeps, StopKeeps, RestartKeeps
<1>4. ASSUME NEW n \in DOMAIN v5, Desk!StartFails(n) \/ Desk!StartEnds(n) PROVE Desk!DeskInv'
  BY <1>4, StartFailsKeeps, StartEndsKeeps
<1>5. ASSUME NEW s \in v7.listed, Desk!PickSaved(s) PROVE Desk!DeskInv'
  BY <1>5, PickSavedKeeps
<1>6. CASE \/ Desk!EditDraft \/ Desk!NewDraft \/ Desk!ClickSave \/ Desk!PostArrives
           \/ Desk!PostAnswered \/ Desk!ListRead \/ Desk!ListAnswered \/ Desk!RequestFails
  BY <1>6, EditDraftKeeps, NewDraftKeeps, ClickSaveKeeps, PostArrivesKeeps,
     PostAnsweredKeeps, ListReadKeeps, ListAnsweredKeeps, RequestFailsKeeps
<1>. QED
  BY <1>1, <1>2, <1>3, <1>4, <1>5, <1>6 DEF Desk!Next
-----------------------------------------------------------------------------
(* The kill switch: the worker, armed, the panics, what rests, the         *)
(* positions, the engine's orders, noise and reversed.                     *)

(* A reduce-only order of a listed size brings a position nearer to zero   *)
(* and never past it, and closes one that has only shrunk since.           *)
LEMMA ReducedShrinks ==
  ASSUME Kill!KillTypes, NEW h \in Kill!Listed
  PROVE  LET held == v5[h.symbol] rest == Kill!Closed(h)
         IN  /\ held \in Int /\ rest \in Int
             /\ held > 0 => 0 <= rest /\ rest <= held
             /\ held < 0 => held <= rest /\ rest <= 0
             /\ held = 0 => rest = 0
             /\ Kill!Covers(h.size, held) => rest = 0
<1> DEFINE held == v5[h.symbol]
           rest == Kill!Closed(h)
<1>1. h.symbol \in KillSymbols /\ h.size \in Int /\ held \in Int
  BY DEF Kill!KillTypes, Kill!Listed
<1>2. rest = IF Kill!Sign(held) # Kill!Sign(h.size) THEN held
             ELSE IF Kill!Sign(held + (-Kill!Sign(h.size)) * Kill!Abs(h.size)) # Kill!Sign(held) THEN 0
             ELSE held + (-Kill!Sign(h.size)) * Kill!Abs(h.size)
  BY DEF Kill!Closed, Kill!Reduced, Kill!Opposite
<1>3. (-Kill!Sign(h.size)) * Kill!Abs(h.size) = -h.size
  BY <1>1 DEF Kill!Sign, Kill!Abs
<1>4. rest = IF Kill!Sign(held) # Kill!Sign(h.size) THEN held
             ELSE IF Kill!Sign(held - h.size) # Kill!Sign(held) THEN 0
             ELSE held - h.size
  BY <1>1, <1>2, <1>3
<1> HIDE DEF held, rest
<1>5. rest \in Int
  BY <1>1, <1>4
<1>6. held > 0 => 0 <= rest /\ rest <= held
  BY <1>1, <1>4 DEF Kill!Sign
<1>7. held < 0 => held <= rest /\ rest <= 0
  BY <1>1, <1>4 DEF Kill!Sign
<1>8. held = 0 => rest = 0
  BY <1>1, <1>4 DEF Kill!Sign
<1>9. Kill!Covers(h.size, held) => rest = 0
  BY <1>1, <1>4 DEF Kill!Sign, Kill!Covers
<1>. QED
  BY <1>1, <1>5, <1>6, <1>7, <1>8, <1>9 DEF held, rest

LEMMA KillFields ==
  ASSUME Kill!KillInv
  PROVE  /\ v3 \in [KillTriggers -> [at : Kill!Steps, left : SUBSET Kill!Listed, clean : BOOLEAN]]
         /\ v5 \in [KillSymbols -> Int] /\ v4 \subseteq Kill!Resting
         /\ \A p \in KillTriggers : Kill!Flattening(p)
         /\ ~v8 /\ Kill!KillTypes
  BY DEF Kill!KillInv, Kill!KillTypes

LEMMA ThenSteps ==
  /\ Kill!Then["idle"] = "cancel" /\ Kill!Then["cancel"] = "list"
  /\ Kill!Then["list"] = "close" /\ Kill!Then["close"] = "answered"
  BY DEF Kill!Then

(* A step of one trigger's sequence: the others go on as they were. *)
LEMMA PanicStep ==
  ASSUME Kill!KillInv, NEW p \in KillTriggers,
         NEW panic \in [at : Kill!Steps, left : SUBSET Kill!Listed, clean : BOOLEAN],
         v3' = [v3 EXCEPT ![p] = panic],
         v5' \in [KillSymbols -> Int], v4' \subseteq v4, v7' = v7, ~v8',
         \A q \in KillTriggers \ {p} : Kill!Flattening(q) => Kill!Flattening(q)',
         Kill!Flattening(p)'
  PROVE  Kill!KillInv'
<1>1. Kill!KillTypes'
  BY KillFields DEF Kill!KillTypes
<1>2. \A q \in KillTriggers : Kill!Flattening(q)'
  BY KillFields
<1>. QED BY <1>1, <1>2 DEF Kill!KillInv

LEMMA TriggerKeeps ==
  ASSUME Kill!KillInv, NEW p \in KillTriggers, Kill!Trigger(p)
  PROVE  Kill!KillInv'
<1> DEFINE panic == [v3[p] EXCEPT !.at = "cancel"]
<1>1. v3' = [v3 EXCEPT ![p] = panic] /\ UNCHANGED <<v4, v5, v7, v8>>
  BY ThenSteps, KillFields DEF Kill!Trigger
<1>2. panic \in [at : Kill!Steps, left : SUBSET Kill!Listed, clean : BOOLEAN] /\ panic.at = "cancel"
  BY KillFields DEF Kill!Steps
<1> HIDE DEF panic
<1>3. \A q \in KillTriggers \ {p} : v3'[q] = v3[q]
  BY <1>1, KillFields
<1>4. v3'[p] = panic
  BY <1>1, KillFields
<1>5. \A q \in KillTriggers \ {p} : Kill!Flattening(q) => Kill!Flattening(q)'
  BY <1>1, <1>3 DEF Kill!Flattening, Kill!Quiet
<1>6. Kill!Flattening(p)'
  BY <1>2, <1>4 DEF Kill!Flattening
<1>. QED BY <1>1, <1>2, <1>5, <1>6, KillFields, PanicStep

LEMMA CancelAllKeeps ==
  ASSUME Kill!KillInv, NEW p \in KillTriggers, NEW out \in Kill!Outcomes, Kill!CancelAll(p, out)
  PROVE  Kill!KillInv'
<1> DEFINE panic == [v3[p] EXCEPT !.at = "list", !.clean = v3[p].clean /\ Kill!Executes(out)]
<1>1. /\ v3' = [v3 EXCEPT ![p] = panic] /\ UNCHANGED <<v5, v7, v8>>
      /\ v4' = (IF Kill!Executes(out) THEN {} ELSE v4)
  BY ThenSteps, KillFields DEF Kill!CancelAll
<1>2. /\ panic \in [at : Kill!Steps, left : SUBSET Kill!Listed, clean : BOOLEAN]
      /\ panic.at = "list" /\ (panic.clean => Kill!Executes(out))
  BY KillFields DEF Kill!Steps, Kill!Executes
<1> HIDE DEF panic
<1>3. \A q \in KillTriggers \ {p} : v3'[q] = v3[q]
  BY <1>1, KillFields
<1>4. v3'[p] = panic
  BY <1>1, KillFields
<1>5. \A q \in KillTriggers \ {p} : Kill!Flattening(q) => Kill!Flattening(q)'
  BY <1>1, <1>3 DEF Kill!Flattening, Kill!Quiet
<1>6. Kill!Flattening(p)'
  BY <1>1, <1>2, <1>4 DEF Kill!Flattening, Kill!Quiet
<1>. QED BY <1>1, <1>2, <1>5, <1>6, KillFields, PanicStep

LEMMA ListPositionsKeeps ==
  ASSUME Kill!KillInv, NEW p \in KillTriggers, NEW out \in Kill!Outcomes, Kill!ListPositions(p, out)
  PROVE  Kill!KillInv'
<1> DEFINE listed == {[symbol |-> s, size |-> v5[s]] : s \in KillSymbols}
           left   == IF out = "done" THEN listed ELSE {}
           panic  == [at |-> "close", left |-> left, clean |-> v3[p].clean /\ out = "done"]
<1>1. /\ v3' = [v3 EXCEPT ![p] = panic] /\ UNCHANGED <<v4, v5, v7, v8>>
      /\ v3[p].at = "list"
  BY ThenSteps, KillFields DEF Kill!ListPositions, Kill!At
<1>2. left \in SUBSET Kill!Listed
  BY KillFields DEF Kill!Listed
<1>3. /\ panic \in [at : Kill!Steps, left : SUBSET Kill!Listed, clean : BOOLEAN]
      /\ panic.at = "close" /\ panic.left = left /\ (panic.clean => v3[p].clean /\ out = "done")
  BY <1>2, KillFields DEF Kill!Steps
<1>4. ASSUME NEW s \in KillSymbols, v5[s] # 0
      PROVE  \E h \in listed : h.symbol = s /\ Kill!Covers(h.size, v5[s])
  <2>1. Kill!Covers(v5[s], v5[s])
    BY <1>4, KillFields DEF Kill!Covers
  <2> DEFINE h == [symbol |-> s, size |-> v5[s]]
  <2>2. h \in listed /\ h.symbol = s /\ h.size = v5[s]
    OBVIOUS
  <2> HIDE DEF h, listed
  <2>. QED BY <2>1, <2>2
<1>5. \A q \in KillTriggers \ {p} : v3'[q] = v3[q]
  BY <1>1, KillFields
<1>6. v3'[p] = panic
  BY <1>1, KillFields
<1>7. out = "done" => left = listed
  OBVIOUS
<1> HIDE DEF panic, left, listed
<1>8. \A q \in KillTriggers \ {p} : Kill!Flattening(q) => Kill!Flattening(q)'
  BY <1>1, <1>5 DEF Kill!Flattening, Kill!Quiet
<1>9. Kill!Flattening(p)'
  <2> SUFFICES ASSUME Kill!Quiet(p)'
               PROVE  /\ v4' = {}
                      /\ \A s \in KillSymbols : v5'[s] # 0 =>
                           \E h \in panic.left : h.symbol = s /\ Kill!Covers(h.size, v5'[s])
    BY <1>3, <1>6 DEF Kill!Flattening
  <2>1. panic.clean /\ p \notin v7
    BY <1>1, <1>6 DEF Kill!Quiet
  <2>2. v4 = {}
    BY <1>1, <1>3, <2>1, KillFields DEF Kill!Flattening, Kill!Quiet
  <2>. QED BY <1>1, <1>3, <1>4, <1>7, <2>1, <2>2
<1>. QED BY <1>1, <1>3, <1>8, <1>9, KillFields, PanicStep

LEMMA ClosePositionKeeps ==
  ASSUME Kill!KillInv, NEW p \in KillTriggers, NEW h \in v3[p].left, NEW out \in Kill!Outcomes,
         Kill!ClosePosition(p, h, out)
  PROVE  Kill!KillInv'
<1> DEFINE sent  == h.size # 0 /\ Kill!Executes(out)
           clean == v3[p].clean /\ (h.size = 0 \/ Kill!Executes(out))
           panic == [v3[p] EXCEPT !.left = v3[p].left \ {h}, !.clean = clean]
<1>1. /\ v3[p].at = "close" /\ UNCHANGED <<v4, v7>>
      /\ v3' = [v3 EXCEPT ![p] = panic]
      /\ v5' = (IF sent THEN [v5 EXCEPT ![h.symbol] = Kill!Closed(h)] ELSE v5)
      /\ v8' = \/ v8 \/ Kill!Sign(v5[h.symbol]) * Kill!Sign(v5'[h.symbol]) < 0
               \/ (v5[h.symbol] = 0 /\ v5'[h.symbol] # 0)
  BY KillFields DEF Kill!ClosePosition, Kill!At
<1>2. h \in Kill!Listed /\ h.symbol \in KillSymbols /\ h.size \in Int
  BY KillFields DEF Kill!Listed
<1>3. /\ panic \in [at : Kill!Steps, left : SUBSET Kill!Listed, clean : BOOLEAN]
      /\ panic.at = "close" /\ panic.left = v3[p].left \ {h}
      /\ (panic.clean => v3[p].clean /\ (sent \/ h.size = 0))
  BY <1>1, KillFields DEF Kill!Executes
<1>4. \A q \in KillTriggers \ {p} : v3'[q] = v3[q]
  BY <1>1, KillFields
<1>5. v3'[p] = panic
  BY <1>1, KillFields
<1>6. /\ v5[h.symbol] \in Int /\ Kill!Closed(h) \in Int
      /\ v5[h.symbol] > 0 => 0 <= Kill!Closed(h) /\ Kill!Closed(h) <= v5[h.symbol]
      /\ v5[h.symbol] < 0 => v5[h.symbol] <= Kill!Closed(h) /\ Kill!Closed(h) <= 0
      /\ v5[h.symbol] = 0 => Kill!Closed(h) = 0
      /\ Kill!Covers(h.size, v5[h.symbol]) => Kill!Closed(h) = 0
  BY <1>2, KillFields, ReducedShrinks
<1>7. v5' \in [KillSymbols -> Int]
  BY <1>1, <1>6, KillFields
(* No position grows or turns round. *)
<1>8. \A s \in KillSymbols : /\ v5[s] \in Int /\ v5'[s] \in Int
                             /\ v5[s] > 0 => 0 <= v5'[s] /\ v5'[s] <= v5[s]
                             /\ v5[s] < 0 => v5[s] <= v5'[s] /\ v5'[s] <= 0
                             /\ v5[s] = 0 => v5'[s] = 0
  BY <1>1, <1>2, <1>6, KillFields
<1>9. ~v8'
  BY <1>1, <1>2, <1>8, KillFields DEF Kill!Sign
<1>10. \A s \in KillSymbols, n \in Int : Kill!Covers(n, v5[s]) /\ v5'[s] # 0 => Kill!Covers(n, v5'[s])
  BY <1>8 DEF Kill!Covers
<1> HIDE DEF panic, sent, clean
<1>11. ASSUME NEW q \in KillTriggers \ {p}, Kill!Flattening(q) PROVE Kill!Flattening(q)'
  <2> SUFFICES ASSUME Kill!Quiet(q)'
               PROVE  /\ v3[q].at \in {"list", "close", "answered"} => v4' = {}
                      /\ v3[q].at = "close" => \A s \in KillSymbols : v5'[s] # 0 =>
                           \E k \in v3[q].left : k.symbol = s /\ Kill!Covers(k.size, v5'[s])
                      /\ v3[q].at = "answered" => \A s \in KillSymbols : v5'[s] = 0
    BY <1>4 DEF Kill!Flattening
  <2>1. Kill!Quiet(q)
    BY <1>1, <1>4 DEF Kill!Quiet
  <2>2. v3[q].at \in {"list", "close", "answered"} => v4' = {}
    BY <1>1, <1>11, <2>1 DEF Kill!Flattening
  <2>3. v3[q].at = "answered" => \A s \in KillSymbols : v5'[s] = 0
    BY <1>8, <1>11, <2>1 DEF Kill!Flattening
  <2>4. ASSUME v3[q].at = "close", NEW s \in KillSymbols, v5'[s] # 0
        PROVE  \E k \in v3[q].left : k.symbol = s /\ Kill!Covers(k.size, v5'[s])
    <3>1. v5[s] # 0
      BY <1>8, <2>4
    <3>2. PICK k \in v3[q].left : k.symbol = s /\ Kill!Covers(k.size, v5[s])
      BY <1>11, <2>1, <2>4, <3>1 DEF Kill!Flattening
    <3>3. k.size \in Int
      BY KillFields DEF Kill!Listed
    <3>. QED BY <1>10, <2>4, <3>2, <3>3
  <2>. QED BY <2>2, <2>3, <2>4
<1>12. Kill!Flattening(p)'
  <2> SUFFICES ASSUME Kill!Quiet(p)'
               PROVE  /\ v4' = {}
                      /\ \A s \in KillSymbols : v5'[s] # 0 =>
                           \E k \in panic.left : k.symbol = s /\ Kill!Covers(k.size, v5'[s])
    BY <1>3, <1>5 DEF Kill!Flattening
  <2>1. panic.clean /\ p \notin v7
    BY <1>1, <1>5 DEF Kill!Quiet
  <2>2. Kill!Quiet(p) /\ (sent \/ h.size = 0)
    BY <1>3, <2>1 DEF Kill!Quiet
  <2>3. v4 = {}
    BY <1>1, <2>2, KillFields DEF Kill!Flattening
  <2>4. ASSUME NEW s \in KillSymbols, v5'[s] # 0
        PROVE  \E k \in panic.left : k.symbol = s /\ Kill!Covers(k.size, v5'[s])
    <3>1. v5[s] # 0
      BY <1>8, <2>4
    <3>2. PICK k \in v3[p].left : k.symbol = s /\ Kill!Covers(k.size, v5[s])
      BY <1>1, <2>2, <3>1, KillFields DEF Kill!Flattening
    <3>3. k.size \in Int
      BY KillFields DEF Kill!Listed
    <3>4. k # h
      <4>1. SUFFICES ASSUME k = h PROVE FALSE
        OBVIOUS
      <4>2. h.size # 0
        BY <3>2, <4>1, <1>2, <1>8 DEF Kill!Covers
      <4>3. v5'[s] = Kill!Closed(h)
        BY <1>1, <1>2, <2>2, <3>2, <4>1, <4>2, KillFields
      <4>. QED BY <1>6, <2>4, <3>2, <4>1, <4>3
    <3>. QED BY <1>3, <1>10, <2>4, <3>2, <3>3, <3>4
  <2>. QED BY <1>1, <2>3, <2>4
<1>. QED BY <1>1, <1>3, <1>7, <1>9, <1>11, <1>12, KillFields, PanicStep

LEMMA ClosesDoneKeeps ==
  ASSUME Kill!KillInv, NEW p \in KillTriggers, Kill!ClosesDone(p)
  PROVE  Kill!KillInv'
<1> DEFINE panic == [v3[p] EXCEPT !.at = "answered"]
<1>1. /\ v3[p].at = "close" /\ v3[p].left = {}
      /\ v3' = [v3 EXCEPT ![p] = panic] /\ UNCHANGED <<v4, v5, v7, v8>>
  BY ThenSteps, KillFields DEF Kill!ClosesDone, Kill!At
<1>2. /\ panic \in [at : Kill!Steps, left : SUBSET Kill!Listed, clean : BOOLEAN]
      /\ panic.at = "answered" /\ panic.clean = v3[p].clean
  BY KillFields DEF Kill!Steps
<1> HIDE DEF panic
<1>3. \A q \in KillTriggers \ {p} : v3'[q] = v3[q]
  BY <1>1, KillFields
<1>4. v3'[p] = panic
  BY <1>1, KillFields
<1>5. \A q \in KillTriggers \ {p} : Kill!Flattening(q) => Kill!Flattening(q)'
  BY <1>1, <1>3 DEF Kill!Flattening, Kill!Quiet
<1>6. Kill!Flattening(p)'
  <2> SUFFICES ASSUME Kill!Quiet(p)' PROVE v4' = {} /\ \A s \in KillSymbols : v5'[s] = 0
    BY <1>2, <1>4 DEF Kill!Flattening
  <2>1. Kill!Quiet(p)
    BY <1>1, <1>2, <1>4 DEF Kill!Quiet
  <2>. QED BY <1>1, <2>1, KillFields DEF Kill!Flattening
<1>. QED BY <1>1, <1>2, <1>5, <1>6, KillFields, PanicStep

(* The engine's order and the venue's fill end the quiet of every flatten  *)
(* that has begun, or find none with its cancel done.                      *)
LEMMA EnginePlacesKeeps ==
  ASSUME Kill!KillInv, NEW s \in KillSymbols, NEW signed \in {-1, 1}, Kill!EnginePlaces(s, signed)
  PROVE  Kill!KillInv'
<1>1. /\ v4' = v4 \cup {[symbol |-> s, signed |-> signed]}
      /\ v7' = v7 \cup {p \in KillTriggers : v3[p].at # "idle"}
      /\ UNCHANGED <<v3, v5, v8>>
  BY DEF Kill!EnginePlaces
<1>2. Kill!KillTypes'
  BY <1>1, KillFields DEF Kill!KillTypes, Kill!Resting
<1>3. ASSUME NEW p \in KillTriggers PROVE Kill!Flattening(p)'
  <2>1. v3[p].at # "idle" => ~Kill!Quiet(p)'
    BY <1>1 DEF Kill!Quiet
  <2>. QED BY <1>1, <2>1 DEF Kill!Flattening
<1>. QED BY <1>1, <1>2, <1>3, KillFields DEF Kill!KillInv

LEMMA VenueFillsKeeps ==
  ASSUME Kill!KillInv, NEW o \in v4, Kill!VenueFills(o)
  PROVE  Kill!KillInv'
<1>1. /\ v4' = v4 \ {o} /\ v5' = [v5 EXCEPT ![o.symbol] = v5[o.symbol] + o.signed]
      /\ UNCHANGED <<v3, v7, v8>>
  BY DEF Kill!VenueFills
<1>2. o.symbol \in KillSymbols /\ o.signed \in Int
  BY KillFields DEF Kill!Resting
<1>3. Kill!KillTypes'
  BY <1>1, <1>2, KillFields DEF Kill!KillTypes
<1>4. ASSUME NEW p \in KillTriggers PROVE Kill!Flattening(p)'
  <2>1. Kill!Quiet(p)' => v3[p].at \notin {"list", "close", "answered"}
    BY <1>1, KillFields DEF Kill!Flattening, Kill!Quiet
  <2>. QED BY <1>1, <2>1 DEF Kill!Flattening
<1>. QED BY <1>1, <1>3, <1>4, KillFields DEF Kill!KillInv

LEMMA KillStarts == Kill!Init => Kill!KillInv
<1> SUFFICES ASSUME Kill!Init PROVE Kill!KillInv
  OBVIOUS
<1>1. /\ v3 = [p \in KillTriggers |-> Kill!Idle] /\ v4 = {} /\ v5 \in [KillSymbols -> KillHeld] /\ v8 = FALSE
  BY DEF Kill!Init
<1>2. Kill!Idle \in [at : Kill!Steps, left : SUBSET Kill!Listed, clean : BOOLEAN] /\ Kill!Idle.at = "idle"
  BY DEF Kill!Idle, Kill!Steps
<1>3. Kill!KillTypes
  BY <1>1, <1>2, KillAssumption DEF Kill!KillTypes
<1>4. \A p \in KillTriggers : Kill!Flattening(p)
  BY <1>1, <1>2 DEF Kill!Flattening
<1>. QED BY <1>1, <1>3, <1>4 DEF Kill!KillInv

LEMMA KillSteps ==
  ASSUME Kill!KillInv, Kill!Next \/ UNCHANGED Kill!vars
  PROVE  Kill!KillInv'
<1>1. CASE UNCHANGED <<v3, v4, v5, v7, v8>>
  <2>1. \A p \in KillTriggers : Kill!Flattening(p)'
    BY <1>1, KillFields DEF Kill!Flattening, Kill!Quiet
  <2>2. Kill!KillTypes'
    BY <1>1, KillFields DEF Kill!KillTypes
  <2>. QED BY <1>1, <2>1, <2>2, KillFields DEF Kill!KillInv
<1>2. UNCHANGED Kill!vars \/ Kill!Starts \/ Kill!Terminates \/ Kill!Rearm => UNCHANGED <<v3, v4, v5, v7, v8>>
  BY DEF Kill!vars, Kill!Starts, Kill!Terminates, Kill!Rearm
<1>3. ASSUME NEW p \in KillTriggers, Kill!Trigger(p) \/ Kill!ClosesDone(p) PROVE Kill!KillInv'
  BY <1>3, TriggerKeeps, ClosesDoneKeeps
<1>4. ASSUME NEW p \in KillTriggers, NEW out \in Kill!Outcomes,
             Kill!CancelAll(p, out) \/ Kill!ListPositions(p, out)
      PROVE  Kill!KillInv'
  BY <1>4, CancelAllKeeps, ListPositionsKeeps
<1>5. ASSUME NEW p \in KillTriggers, NEW h \in v3[p].left, NEW out \in Kill!Outcomes, Kill!ClosePosition(p, h, out)
      PROVE  Kill!KillInv'
  BY <1>5, ClosePositionKeeps
<1>6. ASSUME NEW s \in KillSymbols, NEW signed \in {-1, 1}, Kill!EnginePlaces(s, signed) PROVE Kill!KillInv'
  BY <1>6, EnginePlacesKeeps
<1>7. ASSUME NEW o \in v4, Kill!VenueFills(o) PROVE Kill!KillInv'
  BY <1>7, VenueFillsKeeps
<1>. QED
  BY <1>1, <1>2, <1>3, <1>4, <1>5, <1>6, <1>7 DEF Kill!Next

LEMMA KillInvFlattens == Kill!KillInv => Kill!KillFlattens
<1> SUFFICES ASSUME Kill!KillInv PROVE Kill!KillFlattens
  OBVIOUS
<1>. QED BY KillFields DEF Kill!KillFlattens, Kill!Flattening, Kill!Quiet
-----------------------------------------------------------------------------
(* The rate scheduler: the tokens, the last refills, the back-offs, the    *)
(* level, the time, requests in flight, sends and what was demanded.       *)

(* The recursive equation of Doubled has a solution. *)
Doubles(g, n) == /\ g \in [0 .. n -> Nat] /\ g[0] = 1
                 /\ \A k \in 1 .. n : g[k] = 2 * g[k - 1]

LEMMA DoublesExists == \A n \in Nat : \E g : Doubles(g, n)
<1> SUFFICES ASSUME NEW n \in Nat PROVE \E g : Doubles(g, n)
  OBVIOUS
<1> DEFINE B == {k \in 0 .. n : \E g : Doubles(g, k)}
<1>1. 0 \in B
  <2>1. PICK g \in [0 .. 0 -> Nat] : g = [k \in 0 .. 0 |-> 1]
    OBVIOUS
  <2>2. Doubles(g, 0)
    BY <2>1 DEF Doubles
  <2>. QED BY <2>2
<1>2. ASSUME NEW k \in 1 .. n, k - 1 \in B PROVE k \in B
  <2>1. PICK g : Doubles(g, k - 1)
    BY <1>2
  <2>2. PICK h : h = [j \in 0 .. k |-> IF j = k THEN 2 * g[k - 1] ELSE g[j]]
    OBVIOUS
  <2>3. \A j \in 0 .. k - 1 : g[j] \in Nat
    BY <2>1 DEF Doubles
  <2>4. h \in [0 .. k -> Nat]
    BY <2>2, <2>3
  <2>5. h[0] = 1
    BY <2>1, <2>2 DEF Doubles
  <2>6. ASSUME NEW j \in 1 .. k PROVE h[j] = 2 * h[j - 1]
    BY <2>1, <2>2 DEF Doubles
  <2>7. Doubles(h, k)
    BY <2>4, <2>5, <2>6 DEF Doubles
  <2>. QED BY <2>7
<1>3. \A k \in 0 .. n : k \in B
  <2> HIDE DEF B
  <2>. QED BY <1>1, <1>2, PrefixInduction
<1>. QED BY <1>3

LEMMA DoublesUnique ==
  ASSUME NEW m \in Nat, NEW n \in Nat, NEW g, Doubles(g, m), NEW h, Doubles(h, n)
  PROVE  \A k \in 0 .. m : k <= n => g[k] = h[k]
<1> DEFINE B == {k \in 0 .. m : k <= n => g[k] = h[k]}
<1>1. 0 \in B
  BY DEF Doubles
<1>2. ASSUME NEW k \in 1 .. m, k - 1 \in B PROVE k \in B
  BY <1>2 DEF Doubles
<1>3. \A k \in 0 .. m : k \in B
  <2> HIDE DEF B
  <2>. QED BY <1>1, <1>2, PrefixInduction
<1>. QED BY <1>3

LEMMA DoubledUnfolds ==
  Pace!Doubled = [n \in Nat |-> IF n = 0 THEN 1 ELSE 2 * Pace!Doubled[n - 1]]
<1>1. PICK pick : pick = [n \in Nat |-> CHOOSE g : Doubles(g, n)]
  OBVIOUS
<1>2. \A n \in Nat : Doubles(pick[n], n)
  BY <1>1, DoublesExists
<1>3. PICK f : f = [n \in Nat |-> pick[n][n]]
  OBVIOUS
<1>4. ASSUME NEW n \in Nat PROVE f[n] = IF n = 0 THEN 1 ELSE 2 * f[n - 1]
  <2>1. CASE n = 0
    BY <1>2, <1>3, <2>1 DEF Doubles
  <2>2. CASE n # 0
    <3>1. n - 1 \in Nat /\ n \in 1 .. n
      BY <2>2
    <3>2. pick[n][n] = 2 * pick[n][n - 1]
      BY <1>2, <3>1 DEF Doubles
    <3>3. pick[n - 1][n - 1] = pick[n][n - 1]
      BY <1>2, <3>1, DoublesUnique
    <3>. QED BY <1>3, <2>2, <3>1, <3>2, <3>3
  <2>. QED BY <2>1, <2>2
<1>5. f = [n \in Nat |-> IF n = 0 THEN 1 ELSE 2 * f[n - 1]]
  BY <1>3, <1>4
<1>. QED
  BY <1>5 DEF Pace!Doubled

(* The back-off does not get shorter with the level, up to its ceiling. *)
LEMMA DoubledGrows ==
  \A n \in Nat : Pace!Doubled[n] \in Nat /\ Pace!Doubled[n + 1] >= Pace!Doubled[n]
<1> SUFFICES ASSUME NEW n \in Nat PROVE Pace!Doubled[n] \in Nat /\ Pace!Doubled[n + 1] >= Pace!Doubled[n]
  OBVIOUS
<1>1. \A k \in Nat : Pace!Doubled[k] = IF k = 0 THEN 1 ELSE 2 * Pace!Doubled[k - 1]
  BY DoubledUnfolds
<1> DEFINE B == {k \in 0 .. n : Pace!Doubled[k] \in Nat}
<1>2. 0 \in B
  BY <1>1
<1>3. ASSUME NEW k \in 1 .. n, k - 1 \in B PROVE k \in B
  BY <1>1, <1>3
<1>4. \A k \in 0 .. n : k \in B
  <2> HIDE DEF B
  <2>. QED BY <1>2, <1>3, PrefixInduction
<1>5. Pace!Doubled[n] \in Nat
  BY <1>4
<1>6. Pace!Doubled[n + 1] = 2 * Pace!Doubled[n]
  BY <1>1
<1>. QED
  BY <1>5, <1>6

LEMMA DelayGrows ==
  ASSUME NEW n \in Nat \ {0}
  PROVE  Pace!Delay(n) \in Nat /\ Pace!Delay(n + 1) \in Nat /\ Pace!Delay(n + 1) >= Pace!Delay(n)
<1>1. n - 1 \in Nat /\ (n + 1) - 1 = (n - 1) + 1
  OBVIOUS
<1>2. /\ Pace!Doubled[n - 1] \in Nat /\ Pace!Doubled[(n + 1) - 1] \in Nat
      /\ Pace!Doubled[(n + 1) - 1] >= Pace!Doubled[n - 1]
  BY <1>1, DoubledGrows
<1>. QED
  BY <1>2, PaceAssumption DEF Pace!Delay, Pace!Lower
LEMMA PaceFields ==
  ASSUME Pace!PaceTypes
  PROVE  /\ v1 \in [PaceCategories -> 0 .. PaceCapacity] /\ v5 \in Nat /\ v4 \in Nat
         /\ v2 \in [PaceCategories -> 0 .. v5]
         /\ v3 \in [PaceCategories -> Int] /\ v8 \in [PaceCategories -> Int]
         /\ v7 \in [PaceCategories -> Seq(0 .. v5)]
         /\ PaceCapacity \in Nat /\ PaceRefill \in Nat /\ PaceDelay \in Nat
  BY PaceAssumption DEF Pace!PaceTypes

LEMMA Flow ==
  ASSUME NEW a \in Int, NEW b \in Int, PaceRefill \in Nat
  PROVE  /\ (a - b) * PaceRefill \in Int
         /\ ((a + 1) - b) * PaceRefill = (a - b) * PaceRefill + PaceRefill
         /\ (a - a) * PaceRefill = 0
         /\ b <= a => (a - b) * PaceRefill >= 0
<1>1. a - a = 0 /\ 0 * PaceRefill = 0
  OBVIOUS
<1>2. b <= a => (a - b) * PaceRefill >= 0
  <2> SUFFICES ASSUME b <= a PROVE (a - b) * PaceRefill >= 0
    OBVIOUS
  <2>1. PICK n \in Nat : n = a - b
    OBVIOUS
  <2>2. n * PaceRefill >= 0
    OBVIOUS
  <2>. QED BY <2>1, <2>2
<1>3. ((a + 1) - b) * PaceRefill = (a - b) * PaceRefill + PaceRefill
  <2>1. (a + 1) - b = (a - b) + 1
    OBVIOUS
  <2>2. ((a - b) + 1) * PaceRefill = (a - b) * PaceRefill + PaceRefill
    OBVIOUS
  <2>. QED BY <2>1, <2>2
<1>. QED BY <1>1, <1>2, <1>3

LEMMA RefilledRange ==
  ASSUME Pace!PaceTypes, NEW c \in PaceCategories
  PROVE  /\ Pace!Refilled(c) \in 0 .. PaceCapacity
         /\ v1[c] \in 0 .. PaceCapacity /\ v2[c] \in 0 .. v5
         /\ Pace!Refilled(c) = Pace!Lower(PaceCapacity, v1[c] + (v5 - v2[c]) * PaceRefill)
<1>1. v1[c] \in 0 .. PaceCapacity /\ v2[c] \in 0 .. v5 /\ v5 \in Nat /\ PaceCapacity \in Nat
  BY PaceFields
<1>2. (v5 - v2[c]) * PaceRefill \in Int /\ (v5 - v2[c]) * PaceRefill >= 0
  BY <1>1, PaceFields, Flow
<1>3. Pace!Refilled(c) = Pace!Lower(PaceCapacity, v1[c] + (v5 - v2[c]) * PaceRefill)
  BY DEF Pace!Refilled
<1>. QED BY <1>1, <1>2, <1>3 DEF Pace!Lower

LEMMA PaceCardinality == \A s : Pace!Cardinality(s) = Cardinality(s)
  BY DEF Pace!Cardinality, Cardinality

(* How many of a category's sends fall into a stretch of time. *)
LEMMA SentFinite ==
  ASSUME Pace!PaceTypes, NEW c \in PaceCategories, NEW from, NEW to
  PROVE  /\ IsFiniteSet(Pace!SentIn(c, from, to))
         /\ Pace!SentIn(c, from, to) \subseteq 1 .. Len(v7[c])
         /\ Pace!Sent(c, from, to) = Cardinality(Pace!SentIn(c, from, to))
         /\ Pace!Sent(c, from, to) \in Nat
<1>1. v7[c] \in Seq(0 .. v5)
  BY PaceFields
<1>2. DOMAIN v7[c] = 1 .. Len(v7[c]) /\ Len(v7[c]) \in Nat
  BY <1>1
<1>3. IsFiniteSet(1 .. Len(v7[c]))
  BY <1>2, FS_Interval
<1>4. Pace!SentIn(c, from, to) \subseteq 1 .. Len(v7[c])
  BY <1>2 DEF Pace!SentIn
<1>5. IsFiniteSet(Pace!SentIn(c, from, to))
  BY <1>3, <1>4, FS_Subset
<1>6. Pace!Sent(c, from, to) = Cardinality(Pace!SentIn(c, from, to))
  BY PaceCardinality DEF Pace!Sent
<1>. QED BY <1>4, <1>5, <1>6, FS_CardinalityType

LEMMA BudgetInt ==
  ASSUME NEW from \in Int, NEW to \in Int, PaceCapacity \in Nat, PaceRefill \in Nat
  PROVE  Pace!Budget(from, to) \in Int
  BY Flow DEF Pace!Budget

(* Nothing is sent and no bucket gains: the budgets hold. *)
LEMMA BucketKept ==
  ASSUME Pace!PaceInv, v5' = v5, v7' = v7,
         \A c \in PaceCategories : Pace!Refilled(c)' \in Int /\ Pace!Refilled(c)' <= Pace!Refilled(c)
  PROVE  Pace!BucketHolds'
<1>1. Pace!PaceTypes /\ Pace!BucketHolds
  BY DEF Pace!PaceInv
<1>2. ASSUME NEW c \in PaceCategories, NEW from \in 0 .. v5
      PROVE  /\ Pace!Sent(c, from, v5) + Pace!Refilled(c)' <= Pace!Budget(from, v5)
             /\ \A to \in from .. v5 : Pace!Sent(c, from, to) <= Pace!Budget(from, to)
  <2>1. /\ Pace!Sent(c, from, v5) + Pace!Refilled(c) <= Pace!Budget(from, v5)
        /\ \A to \in from .. v5 : Pace!Sent(c, from, to) <= Pace!Budget(from, to)
    BY <1>1, <1>2 DEF Pace!BucketHolds
  <2>2. Pace!Sent(c, from, v5) \in Nat /\ Pace!Refilled(c) \in Int
    BY <1>1, <1>2, SentFinite, RefilledRange
  <2>3. Pace!Budget(from, v5) \in Int
    BY <1>1, <1>2, BudgetInt, PaceFields
  <2>. QED BY <2>1, <2>2, <2>3
<1>3. \A c, from, to :
         /\ Pace!Sent(c, from, to)' = Pace!Sent(c, from, to)
         /\ Pace!Budget(from, to)' = Pace!Budget(from, to)
  BY DEF Pace!Sent, Pace!SentIn, Pace!Budget
<1>. QED BY <1>2, <1>3 DEF Pace!BucketHolds
(* Nothing is sent in the future. *)
LEMMA SentBeyond ==
  ASSUME Pace!PaceTypes, NEW c \in PaceCategories, NEW from \in Int, NEW to \in Int
  PROVE  /\ to >= v5 => Pace!Sent(c, from, to) = Pace!Sent(c, from, v5)
         /\ from > v5 => Pace!Sent(c, from, to) = 0
<1>1. v7[c] \in Seq(0 .. v5) /\ v5 \in Nat
  BY PaceFields
<1>2. \A k \in DOMAIN v7[c] : v7[c][k] \in 0 .. v5
  BY <1>1
<1>3. to >= v5 => Pace!SentIn(c, from, to) = Pace!SentIn(c, from, v5)
  BY <1>1, <1>2 DEF Pace!SentIn
<1>4. from > v5 => Pace!SentIn(c, from, to) = {}
  BY <1>1, <1>2 DEF Pace!SentIn
<1>. QED BY <1>3, <1>4, SentFinite, FS_EmptySet

LEMMA AskKeeps ==
  ASSUME Pace!PaceInv, NEW c \in PaceCategories, Pace!Ask(c)
  PROVE  Pace!PaceInv'
<1>1. /\ v1' = [v1 EXCEPT ![c] = Pace!Refilled(c)] /\ v2' = [v2 EXCEPT ![c] = v5]
      /\ UNCHANGED <<v3, v4, v5, v7, v8>>
  BY DEF Pace!Ask
<1>2. Pace!PaceTypes /\ Pace!BackOffHolds
  BY DEF Pace!PaceInv
<1>3. Pace!PaceTypes'
  BY <1>1, <1>2, RefilledRange, PaceFields, SMTT(40) DEF Pace!PaceTypes
<1>4. ASSUME NEW d \in PaceCategories
      PROVE  Pace!Refilled(d)' \in Int /\ Pace!Refilled(d)' <= Pace!Refilled(d)
  <2>1. Pace!Refilled(d)' = Pace!Lower(PaceCapacity, v1'[d] + (v5 - v2'[d]) * PaceRefill)
    BY <1>1 DEF Pace!Refilled
  <2>2. CASE d = c
    <3>1. v1'[d] = Pace!Refilled(c) /\ v2'[d] = v5
      BY <1>1, <1>2, <2>2, PaceFields
    <3>2. (v5 - v5) * PaceRefill = 0
      BY <1>2, PaceFields, Flow
    <3>. QED BY <1>2, <2>1, <2>2, <3>1, <3>2, RefilledRange, PaceFields DEF Pace!Lower
  <2>3. CASE d # c
    <3>1. v1'[d] = v1[d] /\ v2'[d] = v2[d]
      BY <1>1, <1>2, <2>3, PaceFields
    <3>. QED BY <1>2, <2>1, <3>1, RefilledRange
  <2>. QED BY <2>2, <2>3
<1>5. Pace!BucketHolds'
  BY <1>1, <1>4, BucketKept
<1>6. Pace!BackOffHolds'
  BY <1>1, <1>2 DEF Pace!BackOffHolds
<1>. QED BY <1>3, <1>5, <1>6 DEF Pace!PaceInv

LEMMA TakeKeeps ==
  ASSUME Pace!PaceInv, NEW c \in PaceCategories, Pace!Take(c)
  PROVE  Pace!PaceInv'
<1>1. /\ v1' = [v1 EXCEPT ![c] = Pace!Refilled(c) - 1] /\ v2' = [v2 EXCEPT ![c] = v5]
      /\ v7' = [v7 EXCEPT ![c] = Append(v7[c], v5)] /\ Pace!Refilled(c) >= 1
      /\ UNCHANGED <<v3, v4, v5, v8>>
  BY DEF Pace!Take
<1>2. Pace!PaceTypes /\ Pace!BackOffHolds /\ Pace!BucketHolds
  BY DEF Pace!PaceInv
<1>3. /\ Pace!Refilled(c) \in 0 .. PaceCapacity /\ v7[c] \in Seq(0 .. v5) /\ v5 \in 0 .. v5
      /\ Append(v7[c], v5) \in Seq(0 .. v5)
  BY <1>2, RefilledRange, PaceFields
<1>4. Pace!PaceTypes'
  <2>1. v1' \in [PaceCategories -> 0 .. PaceCapacity]
    <3>1. Pace!Refilled(c) - 1 \in 0 .. PaceCapacity
      BY <1>1, <1>3, PaceAssumption
    <3>. QED BY <1>1, <1>2, <3>1, PaceFields
  <2>2. v2' \in [PaceCategories -> 0 .. v5]
    BY <1>1, <1>2, <1>3, PaceFields
  <2>3. v7' \in [PaceCategories -> Seq(0 .. v5)]
    BY <1>1, <1>2, <1>3, PaceFields
  <2>. QED BY <1>1, <1>2, <2>1, <2>2, <2>3, PaceFields DEF Pace!PaceTypes
<1>5. ASSUME NEW from \in 0 .. v5
      PROVE  /\ Pace!Sent(c, from, v5)' = Pace!Sent(c, from, v5) + 1
             /\ \A to \in from .. v5 : to # v5 => Pace!Sent(c, from, to)' = Pace!Sent(c, from, to)
  <2> DEFINE n == Len(v7[c]) + 1
  <2>1. v7'[c] = Append(v7[c], v5)
    BY <1>1, <1>2, PaceFields
  <2>2. /\ n \in Nat /\ DOMAIN v7'[c] = 1 .. n /\ DOMAIN v7[c] = 1 .. n - 1
        /\ v7'[c][n] = v5 /\ \A k \in 1 .. n - 1 : v7'[c][k] = v7[c][k]
    BY <1>3, <2>1
  <2> HIDE DEF n
  <2>3. Pace!SentIn(c, from, v5)' = Pace!SentIn(c, from, v5) \cup {n}
    <3>1. v5 \in from .. v5
      BY <1>2, <1>5, PaceFields
    <3>2. Pace!SentIn(c, from, v5)' = {k \in DOMAIN v7'[c] : v7'[c][k] \in from .. v5}
      BY <1>1 DEF Pace!SentIn
    <3>3. Pace!SentIn(c, from, v5) = {k \in DOMAIN v7[c] : v7[c][k] \in from .. v5}
      BY DEF Pace!SentIn
    <3>4. /\ \A k \in 1 .. n - 1 : k \in 1 .. n
          /\ \A k \in 1 .. n : k = n \/ k \in 1 .. n - 1
          /\ n \in 1 .. n
      <4>1. n - 1 \in Nat
        BY <1>3 DEF n
      <4>. QED BY <2>2, <4>1
    <3>5. ASSUME NEW k PROVE k \in Pace!SentIn(c, from, v5)' <=> k \in Pace!SentIn(c, from, v5) \cup {n}
      <4>1. CASE k = n
        BY <2>2, <3>1, <3>2, <3>4, <4>1, Zenon
      <4>2. CASE k # n /\ k \in 1 .. n - 1
        BY <2>2, <3>2, <3>3, <3>4, <4>2, Zenon
      <4>3. CASE k # n /\ k \notin 1 .. n - 1
        BY <2>2, <3>2, <3>3, <3>4, <4>3, Zenon
      <4>. QED BY <4>1, <4>2, <4>3, Zenon
    <3>. QED BY <3>5, Zenon
  <2>4. ASSUME NEW to \in from .. v5, to # v5
        PROVE  Pace!SentIn(c, from, to)' = Pace!SentIn(c, from, to)
    <3>1. v5 \notin from .. to
      BY <1>2, <2>4, PaceFields
    <3>. QED BY <2>2, <3>1 DEF Pace!SentIn
  <2>5. n \notin Pace!SentIn(c, from, v5)
    BY <2>2 DEF Pace!SentIn
  <2>6. Cardinality(Pace!SentIn(c, from, v5) \cup {n}) = Cardinality(Pace!SentIn(c, from, v5)) + 1
    BY <1>2, <2>5, SentFinite, FS_AddElement
  <2>7. \A to : Pace!Sent(c, from, to)' = Pace!Cardinality(Pace!SentIn(c, from, to)')
    BY DEF Pace!Sent
  <2>8. Pace!Sent(c, from, v5)' = Cardinality(Pace!SentIn(c, from, v5)')
    BY <1>1, <2>7, PaceCardinality
  <2>. QED BY <1>2, <2>3, <2>4, <2>6, <2>7, <2>8, SentFinite, PaceCardinality
<1>6. Pace!Refilled(c)' = Pace!Refilled(c) - 1
  <2>1. Pace!Refilled(c)' = Pace!Lower(PaceCapacity, v1'[c] + (v5 - v2'[c]) * PaceRefill)
    BY <1>1 DEF Pace!Refilled
  <2>2. v1'[c] = Pace!Refilled(c) - 1 /\ v2'[c] = v5
    BY <1>1, <1>2, PaceFields
  <2>3. (v5 - v5) * PaceRefill = 0
    BY <1>2, PaceFields, Flow
  <2>. QED BY <1>3, <2>1, <2>2, <2>3, PaceAssumption DEF Pace!Lower
<1>7. ASSUME NEW d \in PaceCategories, d # c
      PROVE  /\ Pace!Refilled(d)' = Pace!Refilled(d)
             /\ \A from, to : Pace!Sent(d, from, to)' = Pace!Sent(d, from, to)
  <2>1. v1'[d] = v1[d] /\ v2'[d] = v2[d] /\ v7'[d] = v7[d]
    BY <1>1, <1>2, <1>7, PaceFields
  <2>. QED BY <1>1, <2>1 DEF Pace!Refilled, Pace!Sent, Pace!SentIn
<1>8. \A from, to : Pace!Budget(from, to)' = Pace!Budget(from, to)
  BY DEF Pace!Budget
<1>9. ASSUME NEW d \in PaceCategories, NEW from \in 0 .. v5
      PROVE  /\ Pace!Sent(d, from, v5)' + Pace!Refilled(d)' <= Pace!Budget(from, v5)
             /\ \A to \in from .. v5 : Pace!Sent(d, from, to)' <= Pace!Budget(from, to)
  <2>1. /\ Pace!Sent(d, from, v5) + Pace!Refilled(d) <= Pace!Budget(from, v5)
        /\ \A to \in from .. v5 : Pace!Sent(d, from, to) <= Pace!Budget(from, to)
    BY <1>2, <1>9 DEF Pace!BucketHolds
  <2>2. Pace!Sent(d, from, v5) \in Nat /\ Pace!Refilled(d) \in Int
    BY <1>2, <1>9, SentFinite, RefilledRange
  <2>3. Pace!Budget(from, v5) \in Int
    BY <1>2, <1>9, BudgetInt, PaceFields
  <2>4. CASE d # c
    <3>1. /\ Pace!Refilled(d)' = Pace!Refilled(d)
          /\ \A a, b : Pace!Sent(d, a, b)' = Pace!Sent(d, a, b)
      BY <1>7, <2>4
    <3>2. /\ Pace!Sent(d, from, v5)' = Pace!Sent(d, from, v5)
          /\ \A to \in from .. v5 : Pace!Sent(d, from, to)' = Pace!Sent(d, from, to)
      BY <1>1, <3>1, Zenon
    <3>. QED BY <2>1, <3>1, <3>2, Zenon
  <2>5. CASE d = c
    BY <1>1, <1>5, <1>6, <1>9, <2>1, <2>2, <2>3, <2>5
  <2>. QED BY <2>4, <2>5
<1>10. Pace!BucketHolds'
  BY <1>1, <1>8, <1>9 DEF Pace!BucketHolds
<1>11. Pace!BackOffHolds'
  BY <1>1, <1>2 DEF Pace!BackOffHolds
<1>. QED BY <1>4, <1>10, <1>11 DEF Pace!PaceInv

(* An answer only lowers the estimate, and a success ends the back-off's growth. *)
LEMMA SyncedLowers ==
  ASSUME Pace!PaceTypes, NEW c \in PaceCategories, Pace!Synced(c), v2' = v2, v5' = v5
  PROVE  /\ v1' \in [PaceCategories -> 0 .. PaceCapacity]
         /\ \A d \in PaceCategories : Pace!Refilled(d)' \in Int /\ Pace!Refilled(d)' <= Pace!Refilled(d)
<1>1. PICK left \in 0 .. PaceCapacity : v1' = [v1 EXCEPT ![c] = Pace!Lower(v1[c], left)]
  BY DEF Pace!Synced
<1>2. Pace!Lower(v1[c], left) \in 0 .. PaceCapacity /\ Pace!Lower(v1[c], left) <= v1[c]
  BY RefilledRange, PaceAssumption DEF Pace!Lower
<1>3. v1' \in [PaceCategories -> 0 .. PaceCapacity]
  BY <1>1, <1>2, PaceFields
<1>4. ASSUME NEW d \in PaceCategories
      PROVE  Pace!Refilled(d)' \in Int /\ Pace!Refilled(d)' <= Pace!Refilled(d)
  <2>1. Pace!Refilled(d)' = Pace!Lower(PaceCapacity, v1'[d] + (v5 - v2[d]) * PaceRefill)
    BY DEF Pace!Refilled
  <2>2. v1'[d] \in Int /\ v1[d] \in Int /\ v1'[d] <= v1[d]
    <3>1. CASE d = c
      BY <1>1, <1>2, <3>1, PaceFields, RefilledRange
    <3>2. CASE d # c
      BY <1>1, <3>2, PaceFields, RefilledRange
    <3>. QED BY <3>1, <3>2
  <2>3. (v5 - v2[d]) * PaceRefill \in Int
    <3>1. v2[d] \in Int /\ v5 \in Int /\ PaceRefill \in Nat
      BY PaceFields, RefilledRange
    <3>. QED BY <3>1, Flow
  <2>. QED BY <2>1, <2>2, <2>3, RefilledRange, PaceAssumption DEF Pace!Lower
<1>. QED BY <1>3, <1>4

LEMMA ObserveSuccessKeeps ==
  ASSUME Pace!PaceInv, NEW c \in PaceCategories, Pace!ObserveSuccess(c)
  PROVE  Pace!PaceInv'
<1>1. /\ Pace!Synced(c) /\ v4' = 0 /\ v8' = [d \in PaceCategories |-> 0]
      /\ UNCHANGED <<v2, v3, v5, v7>>
  BY DEF Pace!ObserveSuccess
<1>2. Pace!PaceTypes /\ Pace!BackOffHolds
  BY DEF Pace!PaceInv
<1>3. Pace!PaceTypes'
  <2>1. v1' \in [PaceCategories -> 0 .. PaceCapacity]
    BY <1>1, <1>2, SyncedLowers
  <2>. QED BY <1>1, <1>2, <2>1, PaceFields DEF Pace!PaceTypes
<1>4. Pace!BucketHolds'
  BY <1>1, <1>2, SyncedLowers, BucketKept
<1>5. Pace!BackOffHolds'
  BY <1>1, <1>2, PaceFields DEF Pace!BackOffHolds
<1>. QED BY <1>3, <1>4, <1>5 DEF Pace!PaceInv

(* Steps that touch neither the buckets nor the clock nor the sends. *)
LEMMA BucketsAlone ==
  ASSUME Pace!PaceInv, UNCHANGED <<v1, v2, v5, v7>>
  PROVE  Pace!BucketHolds'
<1>1. Pace!PaceTypes
  BY DEF Pace!PaceInv
<1>2. ASSUME NEW d \in PaceCategories
      PROVE  Pace!Refilled(d)' \in Int /\ Pace!Refilled(d)' <= Pace!Refilled(d)
  <2>1. Pace!Refilled(d)' = Pace!Refilled(d)
    BY DEF Pace!Refilled
  <2>. QED BY <1>1, <2>1, RefilledRange
<1>. QED BY <1>2, BucketKept

LEMMA ObserveRejectionKeeps ==
  ASSUME Pace!PaceInv, NEW c \in PaceCategories, Pace!ObserveRejection(c)
  PROVE  Pace!PaceInv'
<1> DEFINE until == v5 + Pace!Delay(v4 + 1)
<1>1. /\ v4' = v4 + 1 /\ v3' = [v3 EXCEPT ![c] = until]
      /\ v8' = [v8 EXCEPT ![c] = Pace!Higher(v8[c], until)]
      /\ UNCHANGED <<v1, v2, v5, v7>>
  BY DEF Pace!ObserveRejection
<1>2. Pace!PaceTypes /\ Pace!BackOffHolds
  BY DEF Pace!PaceInv
<1>3. /\ v5 \in Nat /\ v4 \in Nat /\ v4 + 1 \in Nat \ {0}
      /\ Pace!Delay(v4 + 1) \in Nat /\ until \in Nat
      /\ v4 # 0 => Pace!Delay(v4) \in Nat /\ Pace!Delay(v4) <= Pace!Delay(v4 + 1)
  <2>1. v5 \in Nat /\ v4 \in Nat /\ v4 + 1 \in Nat \ {0}
    BY <1>2, PaceFields
  <2>2. Pace!Delay(v4 + 1) \in Nat
    BY <2>1, DelayGrows
  <2>3. v4 # 0 => Pace!Delay(v4) \in Nat /\ Pace!Delay(v4) <= Pace!Delay(v4 + 1)
    BY <2>1, DelayGrows
  <2>. QED BY <2>1, <2>2, <2>3
<1> HIDE DEF until
<1>4. \A d \in PaceCategories : v8[d] \in Int /\ v3[d] \in Int /\ v8[d] <= until
  <2> SUFFICES ASSUME NEW d \in PaceCategories PROVE v8[d] \in Int /\ v3[d] \in Int /\ v8[d] <= until
    OBVIOUS
  <2>1. v8[d] <= (IF v4 = 0 THEN 0 ELSE v5 + Pace!Delay(v4))
    BY <1>2 DEF Pace!BackOffHolds
  <2>2. v8[d] \in Int /\ v3[d] \in Int
    BY <1>2, PaceFields
  <2>. QED BY <1>3, <2>1, <2>2 DEF until
<1>5. Pace!Higher(v8[c], until) = until
  BY <1>3, <1>4 DEF Pace!Higher
<1>6. Pace!PaceTypes'
  <2>1. v3' \in [PaceCategories -> Int] /\ v8' \in [PaceCategories -> Int]
    BY <1>1, <1>2, <1>3, <1>5, PaceFields, SMTT(40)
  <2>. QED BY <1>1, <1>2, <1>3, <2>1, PaceFields DEF Pace!PaceTypes
<1>7. ASSUME NEW d \in PaceCategories
      PROVE  v8'[d] <= until /\ v8'[d] <= v3'[d] /\ v3'[d] >= 0
  <2>1. CASE d = c
    <3>1. v8'[d] = until /\ v3'[d] = until
      BY <1>1, <1>2, <1>5, <2>1, PaceFields
    <3>. QED BY <1>3, <3>1
  <2>2. CASE d # c
    <3>1. v8'[d] = v8[d] /\ v3'[d] = v3[d]
      BY <1>1, <1>2, <2>2, PaceFields
    <3>2. v8[d] <= v3[d] /\ v3[d] >= 0
      BY <1>2 DEF Pace!BackOffHolds
    <3>. QED BY <1>4, <3>1, <3>2
  <2>. QED BY <2>1, <2>2
<1>8. Pace!BackOffHolds'
  <2>1. \A n : Pace!Delay(n)' = Pace!Delay(n)
    BY DEF Pace!Delay
  <2>2. v4' # 0 /\ (v5 + Pace!Delay(v4))' = until
    <3>1. Pace!Delay(v4)' = Pace!Delay(v4 + 1)
      BY <1>1 DEF Pace!Delay
    <3>. QED BY <1>1, <1>3, <3>1 DEF until
  <2>. QED BY <1>7, <2>2 DEF Pace!BackOffHolds
<1>9. Pace!BucketHolds'
  BY <1>1, BucketsAlone
<1>. QED BY <1>6, <1>8, <1>9 DEF Pace!PaceInv

LEMMA OtherAnswerKeeps ==
  ASSUME Pace!PaceInv, UNCHANGED <<v1, v2, v3, v4, v5, v7, v8>>
  PROVE  Pace!PaceInv'
<1>1. Pace!BucketHolds'
  BY BucketsAlone
<1>2. Pace!PaceTypes'
  BY DEF Pace!PaceInv, Pace!PaceTypes
<1>3. Pace!BackOffHolds'
  BY DEF Pace!PaceInv, Pace!BackOffHolds, Pace!Delay
<1>. QED BY <1>1, <1>2, <1>3 DEF Pace!PaceInv

LEMMA TimePassesKeeps ==
  ASSUME Pace!PaceInv, Pace!TimePasses
  PROVE  Pace!PaceInv'
<1>1. v5' = v5 + 1 /\ UNCHANGED <<v1, v2, v3, v4, v7, v8>>
  BY DEF Pace!TimePasses
<1>2. Pace!PaceTypes /\ Pace!BackOffHolds /\ Pace!BucketHolds /\ v5 \in Nat /\ PaceRefill \in Nat
  BY PaceFields DEF Pace!PaceInv
<1>3. Pace!PaceTypes'
  <2>1. v2 \in [PaceCategories -> 0 .. v5 + 1]
    BY <1>2, PaceFields
  <2>2. v7 \in [PaceCategories -> Seq(0 .. v5 + 1)]
    <3>1. ASSUME NEW s \in Seq(0 .. v5) PROVE s \in Seq(0 .. v5 + 1)
      BY <1>2
    <3>. QED BY <1>2, <3>1, PaceFields
  <2>. QED BY <1>1, <1>2, <2>1, <2>2, PaceFields DEF Pace!PaceTypes
<1>4. ASSUME NEW c \in PaceCategories
      PROVE  /\ Pace!Refilled(c)' \in 0 .. PaceCapacity
             /\ Pace!Refilled(c)' <= Pace!Refilled(c) + PaceRefill
  <2>1. Pace!Refilled(c)' = Pace!Lower(PaceCapacity, v1[c] + ((v5 + 1) - v2[c]) * PaceRefill)
    BY <1>1 DEF Pace!Refilled
  <2>2. v1[c] \in 0 .. PaceCapacity /\ v2[c] \in 0 .. v5
    BY <1>2, RefilledRange
  <2>3. /\ (v5 - v2[c]) * PaceRefill \in Int /\ (v5 - v2[c]) * PaceRefill >= 0
        /\ ((v5 + 1) - v2[c]) * PaceRefill = (v5 - v2[c]) * PaceRefill + PaceRefill
    BY <1>2, <2>2, Flow
  <2>. QED BY <1>2, <2>1, <2>2, <2>3, RefilledRange, PaceAssumption DEF Pace!Lower
<1>5. ASSUME NEW c \in PaceCategories, NEW from \in 0 .. v5 + 1
      PROVE  /\ Pace!Sent(c, from, v5 + 1) + Pace!Refilled(c)' <= Pace!Budget(from, v5 + 1)
             /\ \A to \in from .. v5 + 1 : Pace!Sent(c, from, to) <= Pace!Budget(from, to)
  <2>1. CASE from \in 0 .. v5
    <3>1. /\ Pace!Sent(c, from, v5) + Pace!Refilled(c) <= Pace!Budget(from, v5)
          /\ \A to \in from .. v5 : Pace!Sent(c, from, to) <= Pace!Budget(from, to)
      BY <1>2, <2>1 DEF Pace!BucketHolds
    <3>2. Pace!Sent(c, from, v5 + 1) = Pace!Sent(c, from, v5)
      BY <1>2, <2>1, SentBeyond
    <3>3. Pace!Sent(c, from, v5) \in Nat /\ Pace!Refilled(c) \in Nat /\ Pace!Refilled(c)' \in Int
      BY <1>2, <1>4, SentFinite, RefilledRange
    <3>4. /\ Pace!Budget(from, v5) \in Int
          /\ Pace!Budget(from, v5 + 1) = Pace!Budget(from, v5) + PaceRefill
      BY <1>2, <2>1, BudgetInt, Flow, PaceFields DEF Pace!Budget
    <3>5. Pace!Sent(c, from, v5 + 1) + Pace!Refilled(c)' <= Pace!Budget(from, v5 + 1)
      BY <1>2, <1>4, <3>1, <3>2, <3>3, <3>4
    <3>6. ASSUME NEW to \in from .. v5 + 1 PROVE Pace!Sent(c, from, to) <= Pace!Budget(from, to)
      <4>1. CASE to \in from .. v5
        BY <3>1, <4>1
      <4>2. CASE to = v5 + 1
        BY <1>2, <3>1, <3>2, <3>3, <3>4, <4>2
      <4>. QED BY <1>2, <2>1, <3>6, <4>1, <4>2
    <3>. QED BY <3>5, <3>6
  <2>2. CASE from = v5 + 1
    <3>1. Pace!Sent(c, from, v5 + 1) = 0
      BY <1>2, <2>2, SentBeyond
    <3>2. Pace!Budget(from, v5 + 1) = PaceCapacity
      BY <1>2, <2>2, Flow, PaceFields DEF Pace!Budget
    <3>3. ASSUME NEW to \in from .. v5 + 1 PROVE to = v5 + 1
      BY <1>2, <2>2
    <3>4. Pace!Sent(c, from, v5 + 1) + Pace!Refilled(c)' <= Pace!Budget(from, v5 + 1)
      BY <1>4, <3>1, <3>2, PaceAssumption
    <3>5. Pace!Sent(c, from, v5 + 1) <= Pace!Budget(from, v5 + 1)
      BY <3>1, <3>2, PaceAssumption
    <3>. QED BY <3>3, <3>4, <3>5
  <2>. QED BY <1>2, <2>1, <2>2
<1>6. Pace!BucketHolds'
  <2>1. \A c, from, to :
           /\ Pace!Sent(c, from, to)' = Pace!Sent(c, from, to)
           /\ Pace!Budget(from, to)' = Pace!Budget(from, to)
    BY <1>1 DEF Pace!Sent, Pace!SentIn, Pace!Budget
  <2>2. \A c, from : Pace!Sent(c, from, v5)' = Pace!Sent(c, from, v5 + 1)
    BY <1>1 DEF Pace!Sent, Pace!SentIn
  <2>3. \A from : Pace!Budget(from, v5)' = Pace!Budget(from, v5 + 1)
    BY <1>1 DEF Pace!Budget
  <2>. QED BY <1>1, <1>5, <2>1, <2>2, <2>3 DEF Pace!BucketHolds
<1>7. Pace!BackOffHolds'
  <2>1. v4 # 0 => Pace!Delay(v4) \in Nat
    BY <1>2, PaceFields, DelayGrows
  <2>2. Pace!Delay(v4)' = Pace!Delay(v4)
    BY <1>1 DEF Pace!Delay
  <2>3. ASSUME NEW c \in PaceCategories
        PROVE  /\ v8[c] <= (IF v4 = 0 THEN 0 ELSE (v5 + 1) + Pace!Delay(v4))
               /\ v8[c] <= v3[c] /\ v3[c] >= 0
    <3>1. /\ v8[c] <= (IF v4 = 0 THEN 0 ELSE v5 + Pace!Delay(v4))
          /\ v8[c] <= v3[c] /\ v3[c] >= 0
      BY <1>2 DEF Pace!BackOffHolds
    <3>2. v8[c] \in Int
      BY <1>2, PaceFields
    <3>. QED BY <1>2, <2>1, <3>1, <3>2
  <2>. QED BY <1>1, <2>2, <2>3 DEF Pace!BackOffHolds
<1>. QED BY <1>3, <1>6, <1>7 DEF Pace!PaceInv

LEMMA PaceStarts == Pace!Init => Pace!PaceInv
<1> SUFFICES ASSUME Pace!Init PROVE Pace!PaceInv
  OBVIOUS
<1>1. /\ v1 = [c \in PaceCategories |-> PaceCapacity] /\ v2 = [c \in PaceCategories |-> 0]
      /\ v3 = [c \in PaceCategories |-> 0] /\ v4 = 0 /\ v5 = 0
      /\ v7 = [c \in PaceCategories |-> <<>>] /\ v8 = [c \in PaceCategories |-> 0]
  BY DEF Pace!Init
<1>2. PaceCapacity \in Nat /\ PaceRefill \in Nat
  BY PaceAssumption
<1>3. Pace!PaceTypes
  BY <1>1, <1>2 DEF Pace!PaceTypes
<1>4. ASSUME NEW c \in PaceCategories, NEW from \in 0 .. v5
      PROVE  /\ Pace!Sent(c, from, v5) + Pace!Refilled(c) <= Pace!Budget(from, v5)
             /\ \A to \in from .. v5 : Pace!Sent(c, from, to) <= Pace!Budget(from, to)
  <2>1. from = 0 /\ \A to \in from .. v5 : to = 0
    BY <1>1
  <2>2. Pace!SentIn(c, 0, 0) = {}
    BY <1>1 DEF Pace!SentIn
  <2>3. Pace!Sent(c, 0, 0) = 0
    BY <1>3, <2>2, SentFinite, FS_EmptySet
  <2>4. Pace!Budget(0, 0) = PaceCapacity
    BY <1>2 DEF Pace!Budget
  <2>5. Pace!Refilled(c) \in 0 .. PaceCapacity
    BY <1>3, RefilledRange
  <2>. QED BY <1>1, <1>2, <2>1, <2>3, <2>4, <2>5
<1>5. Pace!BucketHolds
  BY <1>4 DEF Pace!BucketHolds
<1>6. Pace!BackOffHolds
  BY <1>1 DEF Pace!BackOffHolds
<1>. QED BY <1>3, <1>5, <1>6 DEF Pace!PaceInv

LEMMA PaceSteps == Pace!PaceInv /\ [Pace!Next]_Pace!vars => Pace!PaceInv'
<1> SUFFICES ASSUME Pace!PaceInv, [Pace!Next]_Pace!vars PROVE Pace!PaceInv'
  OBVIOUS
<1>1. CASE UNCHANGED Pace!vars
  BY <1>1, OtherAnswerKeeps DEF Pace!vars
<1>2. CASE Pace!TimePasses
  BY <1>2, TimePassesKeeps
<1>3. ASSUME NEW c \in PaceCategories, Pace!Ask(c) PROVE Pace!PaceInv'
  BY <1>3, AskKeeps
<1>4. ASSUME NEW c \in PaceCategories, Pace!Take(c) PROVE Pace!PaceInv'
  BY <1>4, TakeKeeps
<1>5. ASSUME NEW c \in PaceCategories, Pace!ObserveSuccess(c) PROVE Pace!PaceInv'
  BY <1>5, ObserveSuccessKeeps
<1>6. ASSUME NEW c \in PaceCategories, Pace!ObserveRejection(c) PROVE Pace!PaceInv'
  BY <1>6, ObserveRejectionKeeps
<1>7. ASSUME NEW c \in PaceCategories, Pace!OtherAnswer(c) PROVE Pace!PaceInv'
  BY <1>7, OtherAnswerKeeps DEF Pace!OtherAnswer
<1>. QED
  BY <1>1, <1>2, <1>3, <1>4, <1>5, <1>6, <1>7 DEF Pace!Next

(* What the invariant says up to now holds of every stretch of time. *)
LEMMA PaceInvPaces == Pace!PaceInv => Pace!Paced
<1> SUFFICES ASSUME Pace!PaceInv PROVE Pace!Paced
  OBVIOUS
<1>1. /\ Pace!PaceTypes /\ Pace!BackOffHolds /\ Pace!BucketHolds /\ v5 \in Nat
      /\ PaceRefill \in Nat /\ PaceCapacity \in Nat /\ PaceClock \in Nat
  BY PaceFields, PaceAssumption DEF Pace!PaceInv
<1>2. ASSUME NEW c \in PaceCategories, NEW from \in 0 .. PaceClock, NEW to \in 0 .. PaceClock, from <= to
      PROVE  Pace!Sent(c, from, to) <= Pace!Budget(from, to)
  <2>1. CASE from > v5
    <3>1. Pace!Sent(c, from, to) = 0
      BY <1>1, <2>1, SentBeyond
    <3>2. (to - from) * PaceRefill \in Int /\ (to - from) * PaceRefill >= 0
      BY <1>1, <1>2, Flow
    <3>. QED BY <1>1, <3>1, <3>2 DEF Pace!Budget
  <2>2. CASE from <= v5 /\ to <= v5
    BY <1>1, <1>2, <2>2 DEF Pace!BucketHolds
  <2>3. CASE from <= v5 /\ to > v5
    <3>1. Pace!Sent(c, from, to) = Pace!Sent(c, from, v5)
      BY <1>1, <2>3, SentBeyond
    <3>2. Pace!Sent(c, from, v5) + Pace!Refilled(c) <= Pace!Budget(from, v5)
      <4>1. from \in 0 .. v5
        BY <1>1, <2>3
      <4>. QED BY <1>1, <4>1 DEF Pace!BucketHolds
    <3>3. Pace!Sent(c, from, v5) \in Nat /\ Pace!Refilled(c) \in Nat
      BY <1>1, SentFinite, RefilledRange
    <3>4. (v5 - from) * PaceRefill \in Int /\ (to - v5) * PaceRefill \in Int /\ (to - v5) * PaceRefill >= 0
      BY <1>1, <2>3, Flow
    <3>5. (to - from) * PaceRefill = (to - v5) * PaceRefill + (v5 - from) * PaceRefill
      BY <1>1
    <3>. QED BY <1>1, <3>1, <3>2, <3>3, <3>4, <3>5 DEF Pace!Budget
  <2>. QED BY <1>1, <2>1, <2>2, <2>3
<1>3. Pace!NoBurst
  BY <1>2 DEF Pace!NoBurst
<1>4. Pace!ShortensNothing
  BY <1>1, PaceFields DEF Pace!ShortensNothing, Pace!BackOffHolds
<1>. QED BY <1>3, <1>4 DEF Pace!Paced
-----------------------------------------------------------------------------
(* Type correctness: what the inductive invariants leave open.             *)
GateBounds ==
  /\ v6 \in 0 .. GateClock /\ v2 \in Seq(0 .. GateClock) /\ v8 \in Seq(0 .. GateClock)
  /\ v5 \subseteq Gate!Limits /\ v9 \in BOOLEAN /\ v10 \in BOOLEAN /\ v11 \in BOOLEAN

LEMMA GateTypeOk == Gate!TypeOk <=> GateBounds /\ v1 \in Gate!States /\ v3 \in [GateSymbols -> Int] /\ v4 \subseteq GateSymbols
  BY Zenon DEF Gate!TypeOk, GateBounds

LEMMA GateTypeOkNext ==
  Gate!TypeOk' <=> GateBounds' /\ v1' \in Gate!States /\ v3' \in [GateSymbols -> Int] /\ v4' \subseteq GateSymbols
  BY Zenon DEF Gate!TypeOk, GateBounds, Gate!States

(* What the window keeps is an end of what it had. *)
LEMMA PrunedTyped ==
  ASSUME NEW V, v2 \in Seq(V), v2 \in Seq(Nat), GateWindow \in Nat, v6 \in Nat
  PROVE  Gate!Pruned \in Seq(V)
<1>1. PICK d \in 0 .. Len(v2) : Gate!Pruned = SubSeq(v2, d + 1, Len(v2))
  BY PrunedDrops
<1>2. Len(v2) \in Nat
  OBVIOUS
<1>3. \A k \in d + 1 .. Len(v2) : k \in 1 .. Len(v2)
  BY <1>1, <1>2
<1>4. SubSeq(v2, d + 1, Len(v2)) \in Seq(V)
  BY <1>1, <1>2, <1>3
<1>. QED BY <1>1, <1>4

LEMMA GateBoundsStart == Gate!Init => GateBounds
<1> SUFFICES ASSUME Gate!Init PROVE GateBounds
  OBVIOUS
<1>1. v6 = 0 /\ v2 = <<>> /\ v8 = <<>> /\ v5 = {} /\ v9 = FALSE /\ v10 = FALSE /\ v11 = FALSE
  BY DEF Gate!Init
<1>2. 0 \in 0 .. GateClock
  BY GateAssumption
<1>3. \A V : <<>> \in Seq(V)
  OBVIOUS
<1>. QED BY <1>1, <1>2, <1>3, Zenon DEF GateBounds

LEMMA GateBoundsKept == GateBounds /\ Gate!GateInv /\ [Gate!Next]_Gate!vars => GateBounds'
<1> SUFFICES ASSUME GateBounds, Gate!GateInv, [Gate!Next]_Gate!vars PROVE GateBounds'
  OBVIOUS
<1>1. /\ v6 \in 0 .. GateClock /\ v2 \in Seq(0 .. GateClock) /\ v8 \in Seq(0 .. GateClock)
      /\ v5 \subseteq Gate!Limits /\ v9 \in BOOLEAN /\ v10 \in BOOLEAN /\ v11 \in BOOLEAN
      /\ v2 \in Seq(Nat) /\ v6 \in Nat /\ GateWindow \in Nat /\ GateClock \in Nat
  BY GateAssumption DEF GateBounds, Gate!GateInv, Gate!GateTypes
<1>2. CASE UNCHANGED Gate!vars
  BY <1>1, <1>2 DEF GateBounds, Gate!vars
<1>3. CASE Gate!EvaluatePortfolio
  <2>1. v10' \in BOOLEAN
    BY <1>1, <1>3, Zenon DEF Gate!EvaluatePortfolio
  <2>. QED BY <1>1, <1>3, <2>1 DEF GateBounds, Gate!EvaluatePortfolio
<1>4. CASE Gate!Degrade
  BY <1>1, <1>4 DEF GateBounds, Gate!Degrade
<1>5. CASE Gate!Reset
  BY <1>1, <1>5 DEF GateBounds, Gate!Reset
<1>6. CASE Gate!AccountMoves
  BY <1>1, <1>6 DEF GateBounds, Gate!AccountMoves
<1>7. CASE Gate!TimePasses
  BY <1>1, <1>7 DEF GateBounds, Gate!TimePasses
<1>8. ASSUME NEW i \in Gate!Intents, NEW equity \in GateEquities, Gate!Check(i, equity) PROVE GateBounds'
  <2>1. PICK yes, kept :
          /\ kept = (IF Gate!Sane(i) /\ ~Gate!Blocked(i) THEN Gate!Pruned ELSE v2)
          /\ v2' = (IF yes THEN Append(kept, v6) ELSE kept)
          /\ v8' = (IF yes THEN Append(v8, v6) ELSE v8)
    BY <1>8, Zenon DEF Gate!Check
  <2>2. v9' \in BOOLEAN /\ v11' \in BOOLEAN
    BY <1>8, Zenon DEF Gate!Check
  <2>3. UNCHANGED <<v5, v6, v10>>
    BY <1>8 DEF Gate!Check
  <2>4. kept \in Seq(0 .. GateClock)
    BY <1>1, <2>1, PrunedTyped
  <2>5. v2' \in Seq(0 .. GateClock) /\ v8' \in Seq(0 .. GateClock)
    <3>1. PICK V : V = 0 .. GateClock
      OBVIOUS
    <3>2. Append(kept, v6) \in Seq(V) /\ Append(v8, v6) \in Seq(V)
      BY <1>1, <2>4, <3>1
    <3>. QED BY <1>1, <2>1, <2>4, <3>1, <3>2, Zenon
  <2>. QED BY <1>1, <2>2, <2>3, <2>5 DEF GateBounds
<1>9. ASSUME NEW o \in v7, Gate!Fills(o) PROVE GateBounds'
  BY <1>1, <1>9 DEF GateBounds, Gate!Fills
<1>. QED BY <1>2, <1>3, <1>4, <1>5, <1>6, <1>7, <1>8, <1>9 DEF Gate!Next

(* The verifier of external signals. *)
LEMMA IntakeTyped == Intake!Init => Intake!TypeOk
<1> SUFFICES ASSUME Intake!Init PROVE Intake!TypeOk
  OBVIOUS
<1>1. v1 = 0 /\ v2 = <<>> /\ v3 = {} /\ v4 = FALSE
  BY DEF Intake!Init, Intake!Absent
<1>2. 0 \in 0 .. IntakeClock
  BY IntakeAssumption
<1>3. DOMAIN v2 = {}
  BY <1>1
<1>. QED BY <1>1, <1>2, <1>3 DEF Intake!TypeOk

LEMMA IntakeTypesKept == Intake!TypeOk /\ [Intake!Next]_Intake!vars => Intake!TypeOk'
<1> SUFFICES ASSUME Intake!TypeOk, [Intake!Next]_Intake!vars PROVE Intake!TypeOk'
  OBVIOUS
<1>1. /\ v1 \in 0 .. IntakeClock /\ v3 \subseteq Intake!Signals /\ v4 \in BOOLEAN
      /\ \A n \in DOMAIN v2 : n \in Nonces /\ v2[n] \in Nat
      /\ WindowMs \in Nat /\ IntakeClock \in Nat
  BY IntakeAssumption DEF Intake!TypeOk
<1>2. CASE UNCHANGED Intake!vars
  BY <1>1, <1>2 DEF Intake!TypeOk, Intake!vars
<1>3. CASE Intake!Restart
  BY <1>1, <1>3 DEF Intake!TypeOk, Intake!Restart, Intake!Absent
<1>4. CASE Intake!TimePasses
  BY <1>1, <1>4 DEF Intake!TypeOk, Intake!TimePasses
<1>5. ASSUME NEW signal \in Intake!Signals, Intake!Verify(signal) PROVE Intake!TypeOk'
  <2>1. CASE UNCHANGED <<v1, v2, v3, v4>>
    BY <1>1, <2>1 DEF Intake!TypeOk
  <2>2. CASE v2' = Intake!Remembered(signal) /\ v3' = v3 \cup {signal} /\ v4' = (v4 \/ signal \in v3) /\ v1' = v1
    <3>1. signal.nonce \in Nonces /\ signal.timestamp \in Nat
      <4>1. signal.nonce \in Nonces /\ signal.timestamp \in 0 .. IntakeClock + FutureTolerance
        BY DEF Intake!Signals
      <4>. QED BY <4>1
    <3>2. /\ DOMAIN v2' \subseteq DOMAIN v2 \cup {signal.nonce}
          /\ \A n \in DOMAIN v2' : v2'[n] = IF n = signal.nonce THEN signal.timestamp + WindowMs ELSE v2[n]
      <4>1. PICK g : g = v2'
        OBVIOUS
      <4>2. /\ DOMAIN g = {signal.nonce} \cup {n \in DOMAIN v2 : ~Intake!Expired(n)}
            /\ g[signal.nonce] = Intake!Expiry(signal)
            /\ \A n \in DOMAIN v2 : n # signal.nonce /\ ~Intake!Expired(n) => g[n] = v2[n]
        BY <2>2, <4>1, RememberedStore
      <4>3. Intake!Expiry(signal) = signal.timestamp + WindowMs
        BY DEF Intake!Expiry
      <4>. QED BY <4>1, <4>2, <4>3
    <3>3. signal.timestamp + WindowMs \in Nat
      BY <1>1, <3>1
    <3>4. \A n \in DOMAIN v2' : n \in Nonces /\ v2'[n] \in Nat
      BY <1>1, <3>1, <3>2, <3>3
    <3>5. v4' \in BOOLEAN
      BY <2>2, Zenon
    <3>. QED BY <1>1, <2>2, <3>4, <3>5 DEF Intake!TypeOk
  <2>. QED BY <1>5, <2>1, <2>2 DEF Intake!Verify
<1>. QED BY <1>2, <1>3, <1>4, <1>5 DEF Intake!Next

(* The kill switch. *)
KillBounds == /\ v1 \in {"starting", "slow", "ready", "orphaned", "failed", "terminated"} /\ v2 \in BOOLEAN
              /\ v7 \subseteq KillTriggers

LEMMA KillBoundsStart == Kill!Init => KillBounds
  BY DEF Kill!Init, KillBounds

LEMMA KillBoundsKept == KillBounds /\ (Kill!Next \/ UNCHANGED Kill!vars) => KillBounds'
<1> SUFFICES ASSUME KillBounds, Kill!Next \/ UNCHANGED Kill!vars PROVE KillBounds'
  OBVIOUS
<1>1. CASE UNCHANGED Kill!vars
  BY <1>1 DEF KillBounds, Kill!vars
<1>2. CASE Kill!Starts \/ Kill!Terminates \/ Kill!Rearm
  BY <1>2 DEF KillBounds, Kill!Starts, Kill!Terminates, Kill!Rearm
<1>3. ASSUME NEW p \in KillTriggers, Kill!Trigger(p) \/ Kill!ClosesDone(p) PROVE KillBounds'
  BY <1>3 DEF KillBounds, Kill!Trigger, Kill!ClosesDone
<1>4. ASSUME NEW p \in KillTriggers, NEW out \in Kill!Outcomes, Kill!CancelAll(p, out) \/ Kill!ListPositions(p, out)
      PROVE  KillBounds'
  BY <1>4 DEF KillBounds, Kill!CancelAll, Kill!ListPositions
<1>5. ASSUME NEW p \in KillTriggers, NEW held \in v3[p].left, NEW out \in Kill!Outcomes, Kill!ClosePosition(p, held, out)
      PROVE  KillBounds'
  BY <1>5 DEF KillBounds, Kill!ClosePosition
<1>6. ASSUME NEW x \in KillSymbols, NEW signed \in {-1, 1}, Kill!EnginePlaces(x, signed) PROVE KillBounds'
  BY <1>6 DEF KillBounds, Kill!EnginePlaces
<1>7. ASSUME NEW o \in v4, Kill!VenueFills(o) PROVE KillBounds'
  BY <1>7 DEF KillBounds, Kill!VenueFills
<1>. QED BY <1>1, <1>2, <1>3, <1>4, <1>5, <1>6, <1>7 DEF Kill!Next

LEMMA KillTyped == KillBounds /\ Kill!KillInv => Kill!TypeOk
<1> SUFFICES ASSUME KillBounds, Kill!KillInv PROVE Kill!TypeOk
  OBVIOUS
<1>1. v3 \in [KillTriggers -> [at : Kill!Steps, left : SUBSET Kill!Listed, clean : BOOLEAN]] /\ v5 \in [KillSymbols -> Int]
  BY KillFields
<1>2. \A p \in KillTriggers : v3[p].at \in Kill!Steps
  BY <1>1
<1>3. \A x \in Kill!Steps : x \in DOMAIN Kill!Then \cup {"answered"}
  BY DEF Kill!Steps, Kill!Then
<1>. QED BY <1>1, <1>2, <1>3 DEF Kill!TypeOk, KillBounds

(* The request scheduler: no more requests are out than were sent.         *)
PaceBounds ==
  /\ v5 \in 0 .. PaceClock /\ v4 \in 0 .. PaceHits
  /\ v3 \in [PaceCategories -> 0 .. PaceClock + PaceDelay] /\ v8 \in [PaceCategories -> 0 .. PaceClock + PaceDelay]
  /\ v6 \in [PaceCategories -> Nat]
  /\ \A c \in PaceCategories : v6[c] <= Len(v7[c]) /\ Len(v7[c]) <= PaceSends

LEMMA PaceBoundsStart == Pace!Init => PaceBounds
<1> SUFFICES ASSUME Pace!Init PROVE PaceBounds
  OBVIOUS
<1>1. /\ v3 = [c \in PaceCategories |-> 0] /\ v4 = 0 /\ v5 = 0 /\ v6 = [c \in PaceCategories |-> 0]
      /\ v7 = [c \in PaceCategories |-> <<>>] /\ v8 = [c \in PaceCategories |-> 0]
  BY DEF Pace!Init
<1>2. 0 \in 0 .. PaceClock /\ 0 \in 0 .. PaceHits /\ 0 \in 0 .. PaceClock + PaceDelay /\ 0 <= PaceSends
  BY PaceAssumption
<1>3. \A c \in PaceCategories : v6[c] = 0 /\ Len(v7[c]) = 0
  BY <1>1
<1>. QED BY <1>1, <1>2, <1>3 DEF PaceBounds

LEMMA PaceBoundsKept == PaceBounds /\ Pace!PaceInv /\ [Pace!Next]_Pace!vars => PaceBounds'
<1> SUFFICES ASSUME PaceBounds, Pace!PaceInv, [Pace!Next]_Pace!vars PROVE PaceBounds'
  OBVIOUS
<1>1. PICK T : T = 0 .. PaceClock + PaceDelay
  OBVIOUS
<1>2. /\ v5 \in 0 .. PaceClock /\ v4 \in 0 .. PaceHits
      /\ v3 \in [PaceCategories -> T] /\ v8 \in [PaceCategories -> T]
      /\ v6 \in [PaceCategories -> Nat]
      /\ \A c \in PaceCategories : v6[c] <= Len(v7[c]) /\ Len(v7[c]) <= PaceSends
      /\ {PaceClock, PaceDelay, PaceHits, PaceSends} \subseteq Nat
  BY <1>1, PaceAssumption DEF PaceBounds
<1>3. v7 \in [PaceCategories -> Seq(0 .. v5)] /\ v4 \in Nat
  BY PaceFields DEF Pace!PaceInv
<1>4. CASE UNCHANGED Pace!vars
  BY <1>4 DEF PaceBounds, Pace!vars
<1>5. CASE Pace!TimePasses
  <2>1. v5' \in 0 .. PaceClock
    BY <1>2, <1>5 DEF Pace!TimePasses
  <2>. QED BY <1>1, <1>2, <1>5, <2>1 DEF PaceBounds, Pace!TimePasses
<1>6. ASSUME NEW c \in PaceCategories, Pace!Ask(c) PROVE PaceBounds'
  BY <1>1, <1>2, <1>6 DEF PaceBounds, Pace!Ask
<1>7. ASSUME NEW c \in PaceCategories, Pace!Take(c) PROVE PaceBounds'
  <2>1. /\ v6' = [v6 EXCEPT ![c] = v6[c] + 1] /\ v7' = [v7 EXCEPT ![c] = Append(v7[c], v5)]
        /\ Len(v7[c]) < PaceSends /\ UNCHANGED <<v3, v4, v5, v8>>
    BY <1>7 DEF Pace!Take
  <2>2. PICK w : w = Append(v7[c], v5)
    OBVIOUS
  <2>3. Len(w) = Len(v7[c]) + 1 /\ Len(v7[c]) \in Nat
    BY <1>3, <2>2
  <2>4. v6' \in [PaceCategories -> Nat]
    BY <1>2, <2>1
  <2>5. ASSUME NEW d \in PaceCategories PROVE v6'[d] <= Len(v7'[d]) /\ Len(v7'[d]) <= PaceSends
    <3>1. CASE d = c
      <4>1. v6'[d] = v6[c] + 1 /\ v7'[d] = w
        BY <1>2, <1>3, <2>1, <2>2, <3>1
      <4>2. v6[c] \in Nat /\ v6[c] <= Len(v7[c])
        BY <1>2
      <4>. QED BY <1>2, <2>1, <2>3, <4>1, <4>2
    <3>2. CASE d # c
      <4>1. v6'[d] = v6[d] /\ v7'[d] = v7[d]
        BY <1>2, <1>3, <2>1, <3>2
      <4>. QED BY <1>2, <4>1
    <3>. QED BY <3>1, <3>2
  <2>. QED BY <1>1, <1>2, <2>1, <2>4, <2>5 DEF PaceBounds
<1>8. ASSUME NEW c \in PaceCategories, v6' = [v6 EXCEPT ![c] = v6[c] - 1], v6[c] > 0, v7' = v7
      PROVE  v6' \in [PaceCategories -> Nat] /\ \A d \in PaceCategories : v6'[d] <= Len(v7'[d]) /\ Len(v7'[d]) <= PaceSends
  <2>1. v6[c] - 1 \in Nat
    BY <1>2, <1>8
  <2>2. v6' \in [PaceCategories -> Nat]
    BY <1>2, <1>8, <2>1
  <2>3. ASSUME NEW d \in PaceCategories PROVE v6'[d] <= Len(v7'[d]) /\ Len(v7'[d]) <= PaceSends
    <3>1. v6'[d] \in Int /\ v6'[d] <= v6[d]
      BY <1>2, <1>8, <2>1
    <3>2. Len(v7[d]) \in Nat /\ v6[d] \in Int
      BY <1>2, <1>3
    <3>. QED BY <1>2, <1>8, <3>1, <3>2
  <2>. QED BY <2>2, <2>3
<1>9. ASSUME NEW c \in PaceCategories, Pace!ObserveSuccess(c) PROVE PaceBounds'
  <2>1. /\ v6' = [v6 EXCEPT ![c] = v6[c] - 1] /\ v6[c] > 0 /\ v7' = v7 /\ v4' = 0
        /\ v8' = [d \in PaceCategories |-> 0] /\ UNCHANGED <<v3, v5>>
    BY <1>9 DEF Pace!ObserveSuccess
  <2>2. 0 \in T /\ 0 \in 0 .. PaceHits
    BY <1>1, <1>2
  <2>3. v8' \in [PaceCategories -> T]
    BY <2>1, <2>2
  <2>. QED BY <1>1, <1>2, <1>8, <2>1, <2>2, <2>3 DEF PaceBounds
<1>10. ASSUME NEW c \in PaceCategories, Pace!ObserveRejection(c) PROVE PaceBounds'
  <2>1. PICK until : until = v5 + Pace!Delay(v4 + 1)
    OBVIOUS
  <2>2. /\ v6' = [v6 EXCEPT ![c] = v6[c] - 1] /\ v6[c] > 0 /\ v7' = v7 /\ v4' = v4 + 1 /\ v4 < PaceHits
        /\ v3' = [v3 EXCEPT ![c] = until] /\ v8' = [v8 EXCEPT ![c] = Pace!Higher(v8[c], until)] /\ v5' = v5
    BY <1>10, <2>1 DEF Pace!ObserveRejection
  <2>3. Pace!Delay(v4 + 1) \in 0 .. PaceDelay
    <3>1. v4 + 1 \in Nat \ {0} /\ (v4 + 1) - 1 \in Nat
      BY <1>3
    <3>2. Pace!Delay(v4 + 1) \in Nat /\ Pace!Doubled[(v4 + 1) - 1] \in Nat
      BY <3>1, DelayGrows, DoubledGrows
    <3>. QED BY <1>2, <3>2 DEF Pace!Delay, Pace!Lower
  <2>4. until \in T
    BY <1>1, <1>2, <2>1, <2>3
  <2>5. Pace!Higher(v8[c], until) \in T
    BY <1>2, <2>4 DEF Pace!Higher
  <2>6. v3' \in [PaceCategories -> T] /\ v8' \in [PaceCategories -> T]
    BY <1>2, <2>2, <2>4, <2>5
  <2>7. v4' \in 0 .. PaceHits
    BY <1>2, <1>3, <2>2
  <2>. QED BY <1>1, <1>2, <1>8, <2>2, <2>6, <2>7 DEF PaceBounds
<1>11. ASSUME NEW c \in PaceCategories, Pace!OtherAnswer(c) PROVE PaceBounds'
  <2>1. v6' = [v6 EXCEPT ![c] = v6[c] - 1] /\ v6[c] > 0 /\ UNCHANGED <<v3, v4, v5, v7, v8>>
    BY <1>11 DEF Pace!OtherAnswer
  <2>. QED BY <1>1, <1>2, <1>8, <2>1 DEF PaceBounds
<1>. QED BY <1>4, <1>5, <1>6, <1>7, <1>9, <1>10, <1>11 DEF Pace!Next

LEMMA PaceTyped == PaceBounds /\ Pace!PaceInv => Pace!TypeOk
<1> SUFFICES ASSUME PaceBounds, Pace!PaceInv PROVE Pace!TypeOk
  OBVIOUS
<1>1. /\ v1 \in [PaceCategories -> 0 .. PaceCapacity] /\ v2 \in [PaceCategories -> 0 .. v5]
      /\ v7 \in [PaceCategories -> Seq(0 .. v5)]
  BY PaceFields DEF Pace!PaceInv
<1>2. v5 \in 0 .. PaceClock /\ PaceClock \in Nat /\ PaceSends \in Nat
  BY PaceAssumption DEF PaceBounds
<1>3. \A x \in 0 .. v5 : x \in 0 .. PaceClock
  BY <1>2
<1>4. v2 \in [PaceCategories -> 0 .. PaceClock]
  BY <1>1, <1>3
<1>5. ASSUME NEW c \in PaceCategories PROVE v6[c] \in 0 .. PaceSends
  <2>1. v6[c] \in Nat /\ v6[c] <= Len(v7[c]) /\ Len(v7[c]) <= PaceSends
    BY DEF PaceBounds
  <2>2. Len(v7[c]) \in Nat
    BY <1>1
  <2>. QED BY <1>2, <2>1, <2>2
<1>6. v6 \in [PaceCategories -> 0 .. PaceSends]
  BY <1>5 DEF PaceBounds
<1>. QED BY <1>1, <1>4, <1>6 DEF Pace!TypeOk, PaceBounds

(* The strategies table, the engine and the form. *)
SmallRows == [enabled : BOOLEAN, v : 1 .. DeskClock, at : 1 .. DeskClock]
DeskBounds == /\ v1 \in [Ids -> SmallRows \cup {None}] /\ v2 \in 1 .. DeskClock
              /\ v4 \in {"STOPPED", "STARTING", "RUNNING", "ERROR"} /\ v11 \in 0 .. DeskStarts

LEMMA DeskBoundsStart == Desk!Init => DeskBounds
<1> SUFFICES ASSUME Desk!Init PROVE DeskBounds
  OBVIOUS
<1>1. PICK i \in Ids : v1 = [j \in Ids |-> IF j = i THEN [enabled |-> FALSE, v |-> 1, at |-> 1] ELSE None]
  BY DEF Desk!Init
<1>2. 1 \in 1 .. DeskClock /\ 0 \in 0 .. DeskStarts
  BY DeskAssumption
<1>3. [enabled |-> FALSE, v |-> 1, at |-> 1] \in SmallRows
  BY <1>2 DEF SmallRows
<1>4. v1 \in [Ids -> SmallRows \cup {None}]
  BY <1>1, <1>3
<1>5. v2 = 1 /\ v4 = "STOPPED" /\ v11 = 0
  BY DEF Desk!Init
<1>. QED BY <1>2, <1>4, <1>5 DEF DeskBounds

LEMMA SetActiveSmall ==
  ASSUME NEW t \in [Ids -> SmallRows \cup {None}], NEW i \in Ids, NEW now \in 1 .. DeskClock
  PROVE  Desk!SetActive(t, i, now) \in [Ids -> SmallRows \cup {None}]
<1> DEFINE u == Desk!SetActive(t, i, now)
<1>1. u = [j \in Ids |-> CASE t[j] = None -> None
                           [] t[j] # None /\ j = i -> [t[j] EXCEPT !.enabled = TRUE, !.at = now]
                           [] OTHER -> [t[j] EXCEPT !.enabled = FALSE]]
  BY DEF Desk!SetActive
<1>2. ASSUME NEW j \in Ids PROVE u[j] \in SmallRows \cup {None}
  <2>1. CASE t[j] = None
    BY <1>1, <2>1
  <2>2. CASE t[j] # None /\ j = i
    <3>1. t[j] \in SmallRows /\ u[j] = [t[j] EXCEPT !.enabled = TRUE, !.at = now]
      BY <1>1, <2>2
    <3>. QED BY <3>1 DEF SmallRows
  <2>3. CASE t[j] # None /\ j # i
    <3>1. t[j] \in SmallRows /\ u[j] = [t[j] EXCEPT !.enabled = FALSE]
      BY <1>1, <2>3
    <3>. QED BY <3>1 DEF SmallRows
  <2>. QED BY <2>1, <2>2, <2>3
<1>. QED BY <1>1, <1>2

LEMMA DeskBoundsKept == DeskBounds /\ Desk!DeskInv /\ (Desk!Next \/ UNCHANGED Desk!deskVars) => DeskBounds'
<1> SUFFICES ASSUME DeskBounds, Desk!DeskInv, Desk!Next \/ UNCHANGED Desk!deskVars PROVE DeskBounds'
  OBVIOUS
<1>1. PICK R : R = SmallRows \cup {None}
  OBVIOUS
<1>2. /\ v1 \in [Ids -> R] /\ v2 \in 1 .. DeskClock /\ DeskClock \in Nat /\ DeskStarts \in Nat
      /\ v4 \in {"STOPPED", "STARTING", "RUNNING", "ERROR"} /\ v11 \in 0 .. DeskStarts
  BY <1>1, DeskAssumption DEF DeskBounds
<1>3. v1' \in [Ids -> R] /\ v2' \in 1 .. DeskClock
      /\ v4' \in {"STOPPED", "STARTING", "RUNNING", "ERROR"} /\ v11' \in 0 .. DeskStarts => DeskBounds'
  BY <1>1 DEF DeskBounds, SmallRows
<1>4. CASE UNCHANGED Desk!deskVars
  BY <1>2, <1>3, <1>4 DEF Desk!deskVars
<1>5. ASSUME NEW i \in Ids, Desk!Activate(i) PROVE DeskBounds'
  <2>1. v1' = Desk!SetActive(v1, i, v2 + 1) /\ v2 < DeskClock /\ v2' = v2 + 1 /\ UNCHANGED <<v4, v11>>
    BY <1>5 DEF Desk!Activate
  <2>2. v2 + 1 \in 1 .. DeskClock
    BY <1>2, <2>1
  <2>3. v1' \in [Ids -> R]
    BY <1>1, <1>2, <2>1, <2>2, SetActiveSmall
  <2>. QED BY <1>2, <1>3, <2>1, <2>2, <2>3
<1>6. ASSUME NEW i \in Ids, Desk!Delete(i) PROVE DeskBounds'
  <2>1. v1' = [v1 EXCEPT ![i] = None] /\ UNCHANGED <<v2, v4, v11>>
    BY <1>6 DEF Desk!Delete
  <2>2. v1' \in [Ids -> R]
    BY <1>1, <1>2, <2>1
  <2>. QED BY <1>2, <1>3, <2>1, <2>2
<1>7. CASE Desk!Start
  <2>1. v11' = v11 + 1 /\ v11 < DeskStarts /\ v4' \in {"ERROR", "STARTING"} /\ UNCHANGED <<v1, v2>>
    BY <1>7 DEF Desk!Start
  <2>. QED BY <1>2, <1>3, <2>1
<1>8. CASE Desk!Stop
  BY <1>2, <1>3, <1>8 DEF Desk!Stop
<1>9. CASE Desk!RestartServer
  <2>1. /\ v11' = v11 + 1 /\ v11 < DeskStarts /\ v4' = "STOPPED" /\ v2' = v2
    BY <1>9 DEF Desk!RestartServer
  <2>2. PICK m, row : /\ row = [enabled |-> FALSE, v |-> v2, at |-> v2]
                      /\ v1' = (IF Desk!Stored # {} THEN v1 ELSE [v1 EXCEPT ![m] = row])
    BY <1>9 DEF Desk!RestartServer
  <2>3. row \in R
    BY <1>1, <1>2, <2>2 DEF SmallRows
  <2>4. v1' \in [Ids -> R]
    BY <1>2, <2>2, <2>3
  <2>. QED BY <1>2, <1>3, <2>1, <2>4
<1>10. ASSUME NEW n \in DOMAIN v5, Desk!StartFails(n) \/ Desk!StartEnds(n) PROVE DeskBounds'
  BY <1>2, <1>3, <1>10 DEF Desk!StartFails, Desk!StartEnds
<1>11. ASSUME NEW x \in v7.listed, Desk!PickSaved(x) PROVE DeskBounds'
  BY <1>2, <1>3, <1>11 DEF Desk!PickSaved, Desk!OnForm
<1>12. CASE \/ Desk!EditDraft \/ Desk!NewDraft \/ Desk!ClickSave
            \/ Desk!PostAnswered \/ Desk!ListRead \/ Desk!ListAnswered \/ Desk!RequestFails
  <2>1. Desk!OnForm
    BY <1>12 DEF Desk!EditDraft, Desk!NewDraft, Desk!ClickSave,
                 Desk!PostAnswered, Desk!ListRead, Desk!ListAnswered, Desk!RequestFails
  <2>. QED BY <1>2, <1>3, <2>1 DEF Desk!OnForm
<1>13. CASE Desk!PostArrives
  <2>1. PICK i \in Ids : Desk!Written(i, v7.wire.enabled)
    BY <1>13 DEF Desk!PostArrives
  <2>2. v7.wire.enabled \in BOOLEAN
    <3>1. v7.wire \in Desk!Drafts
      BY <1>13 DEF Desk!PostArrives, Desk!DeskInv, Desk!DeskTypes
    <3>. QED BY <3>1 DEF Desk!Drafts
  <2>3. PICK t : t = Desk!UpsertStrategy(v1, i, v7.wire.enabled, v2 + 1)
    OBVIOUS
  <2>4. /\ v1' = (IF v7.wire.enabled THEN Desk!SetActive(t, i, v2 + 1) ELSE t)
        /\ v2 < DeskClock /\ v2' = v2 + 1 /\ UNCHANGED <<v4, v11>>
    BY <2>1, <2>3 DEF Desk!Written
  <2>5. v2 + 1 \in 1 .. DeskClock
    BY <1>2, <2>4
  <2>6. [enabled |-> v7.wire.enabled, v |-> v2 + 1, at |-> v2 + 1] \in R
    BY <1>1, <2>2, <2>5 DEF SmallRows
  <2>7. t \in [Ids -> R]
    BY <1>2, <2>3, <2>6 DEF Desk!UpsertStrategy
  <2>8. Desk!SetActive(t, i, v2 + 1) \in [Ids -> R]
    BY <1>1, <2>5, <2>7, SetActiveSmall
  <2>. QED BY <1>2, <1>3, <2>4, <2>5, <2>7, <2>8
<1>. QED BY <1>4, <1>5, <1>6, <1>7, <1>8, <1>9, <1>10, <1>11, <1>12, <1>13 DEF Desk!Next

LEMMA DeskTyped == DeskBounds /\ Desk!DeskInv => Desk!TypeOk
<1> SUFFICES ASSUME DeskBounds, Desk!DeskInv PROVE Desk!TypeOk
  OBVIOUS
<1>1. \A i \in Desk!Stored : v1[i] \in SmallRows
  BY DEF DeskBounds, Desk!Stored
<1>2. \A i \in Desk!Stored : v1[i].enabled \in BOOLEAN /\ v1[i].v \in 1 .. DeskClock /\ v1[i].at \in 1 .. DeskClock
  BY <1>1 DEF SmallRows
<1>3. v8 \in BOOLEAN /\ v9 \in BOOLEAN /\ v10 \in BOOLEAN
  BY DeskFields
<1>4. v7.saving \in {"no", "posting", "posted", "listing", "listed"}
  BY DEF Desk!DeskInv, Desk!DeskTypes, Desk!Forms
<1>. QED BY <1>2, <1>3, <1>4 DEF DeskBounds, Desk!TypeOk
=============================================================================
