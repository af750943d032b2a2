------------------------------- MODULE Lemmas -------------------------------
(***************************************************************************)
(* Facts about the operators the models are built from: what applying an   *)
(* event does to an order record, what folds and sums over sequences and   *)
(* sets give, and what is left of a sequence when some of its elements are *)
(* selected.  The folds of the community modules are functions chosen by   *)
(* their recursive equation; that the equation has one solution is shown   *)
(* from a minimal counterexample among the subsets of a finite set, which  *)
(* the library's well-founded orderings provide.                           *)
(***************************************************************************)
EXTENDS OrderState, Sums, FiniteSets, TLAPS, FiniteSetTheorems, SequenceTheorems, WellFoundedInduction
-----------------------------------------------------------------------------
(* Every event is refused, ignored, or takes a transition.                 *)
LEMMA ApplyResults ==
  ASSUME NEW order \in OrderRecord,
         NEW event, event.type \in EventTypes, event.qty \in Int
  PROVE  \/ ApplyOrderEvent(order, event) = Refused(order)
         \/ ApplyOrderEvent(order, event) = Ignored(order) /\ event.type # "fill"
         \/ \E to \in OrderStates \ {"PARTIAL", "FILLED"} :
              /\ event.type # "fill" /\ ~IsTerminal(order.state)
              /\ ApplyOrderEvent(order, event) = Transition(order, to, order.filledQty)
         \/ LET filledQty == order.filledQty + event.qty
            IN  /\ event.type = "fill" /\ ~IsTerminal(order.state)
                /\ event.qty > 0 /\ filledQty <= order.qty
                /\ ApplyOrderEvent(order, event) =
                     Transition(order, IF filledQty = order.qty THEN "FILLED" ELSE "PARTIAL", filledQty)
<1>1. CASE IsTerminal(order.state)
  BY <1>1 DEF ApplyOrderEvent
<1>2. CASE ~IsTerminal(order.state) /\ event.type = "fill"
  <2>1. ApplyOrderEvent(order, event) = ApplyFill(order, event.qty)
    BY <1>2 DEF ApplyOrderEvent
  <2>2. order.filledQty \in Nat /\ order.qty \in Nat
    BY DEF OrderRecord
  <2>3. QED
    BY <1>2, <2>1, <2>2 DEF ApplyFill
<1>3. CASE ~IsTerminal(order.state) /\ event.type # "fill"
  BY <1>3 DEF ApplyOrderEvent, EventTypes, OrderStates
<1>4. QED
  BY <1>1, <1>2, <1>3

(* A transition is either refused or one legal step of the record.         *)
LEMMA TransitionResults ==
  ASSUME NEW order \in OrderRecord, NEW to \in OrderStates, NEW filled \in Nat
  PROVE  \/ Transition(order, to, filled) = Refused(order)
         \/ /\ to \in Legal[order.state]
            /\ Transition(order, to, filled).ok
            /\ Transition(order, to, filled).order =
                 [side |-> order.side, qty |-> order.qty, filledQty |-> filled,
                  state |-> to, revision |-> order.revision + 1]
  BY DEF Transition, CanTransition, OrderRecord

(* Applying any event to a record gives a record.                          *)
LEMMA ApplyType ==
  ASSUME NEW order \in OrderRecord,
         NEW event, event.type \in EventTypes, event.qty \in Int
  PROVE  ApplyOrderEvent(order, event).order \in OrderRecord
<1>1. /\ order.filledQty \in Nat /\ order.qty \in Nat \ {0} /\ order.revision \in Nat
      /\ order.side \in Sides
  BY DEF OrderRecord
<1>2. ASSUME NEW to \in OrderStates, NEW filled \in Nat
      PROVE  Transition(order, to, filled).order \in OrderRecord
  <2>1. Refused(order).order \in OrderRecord
    BY DEF Refused
  <2>2. [side |-> order.side, qty |-> order.qty, filledQty |-> filled,
         state |-> to, revision |-> order.revision + 1] \in OrderRecord
    BY <1>1 DEF OrderRecord
  <2>3. QED
    BY <2>1, <2>2, TransitionResults
<1>3. event.qty > 0 => order.filledQty + event.qty \in Nat
  BY <1>1
<1>4. "FILLED" \in OrderStates /\ "PARTIAL" \in OrderStates
  BY DEF OrderStates
<1>5. ASSUME event.qty > 0
      PROVE  Transition(order, IF order.filledQty + event.qty = order.qty THEN "FILLED" ELSE "PARTIAL",
                        order.filledQty + event.qty).order \in OrderRecord
  BY <1>2, <1>3, <1>4, <1>5
<1>6. \A to \in OrderStates : Transition(order, to, order.filledQty).order \in OrderRecord
  BY <1>1, <1>2
<1>7. Refused(order).order \in OrderRecord /\ Ignored(order).order \in OrderRecord
  BY DEF Refused, Ignored
<1>8. QED
  BY <1>5, <1>6, <1>7, ApplyResults

(* What an event may do to a record: nothing, or one legal transition that *)
(* bumps the revision and adds to the fill exactly what the event carries. *)
LEMMA ApplyEffect ==
  ASSUME NEW order \in OrderRecord,
         NEW event, event.type \in EventTypes, event.qty \in Int,
         NEW next, next = ApplyOrderEvent(order, event).order
  PROVE  \/ next = order /\ (event.type = "fill" => ~ApplyOrderEvent(order, event).ok)
         \/ /\ ApplyOrderEvent(order, event).ok
            /\ ~IsTerminal(order.state)
            /\ next.side = order.side /\ next.qty = order.qty
            /\ next.revision = order.revision + 1
            /\ next.state \in Legal[order.state]
            /\ IF event.type = "fill"
               THEN /\ event.qty > 0
                    /\ next.filledQty = order.filledQty + event.qty
                    /\ next.filledQty <= order.qty
                    /\ next.state = IF next.filledQty = order.qty THEN "FILLED" ELSE "PARTIAL"
               ELSE /\ next.filledQty = order.filledQty
                    /\ next.state \notin {"PARTIAL", "FILLED"}
<1>1. order.filledQty \in Nat /\ order.qty \in Nat
  BY DEF OrderRecord
<1>2. CASE ApplyOrderEvent(order, event) = Refused(order)
  BY <1>2 DEF Refused
<1>3. CASE ApplyOrderEvent(order, event) = Ignored(order) /\ event.type # "fill"
  BY <1>3 DEF Ignored
<1>4. CASE \E to \in OrderStates \ {"PARTIAL", "FILLED"} :
             /\ event.type # "fill" /\ ~IsTerminal(order.state)
             /\ ApplyOrderEvent(order, event) = Transition(order, to, order.filledQty)
  <2>1. PICK to \in OrderStates \ {"PARTIAL", "FILLED"} :
          /\ event.type # "fill" /\ ~IsTerminal(order.state)
          /\ ApplyOrderEvent(order, event) = Transition(order, to, order.filledQty)
    BY <1>4
  <2>2. \/ Transition(order, to, order.filledQty) = Refused(order)
        \/ /\ to \in Legal[order.state]
           /\ Transition(order, to, order.filledQty).ok
           /\ Transition(order, to, order.filledQty).order =
                [side |-> order.side, qty |-> order.qty, filledQty |-> order.filledQty,
                 state |-> to, revision |-> order.revision + 1]
    BY <1>1, TransitionResults
  <2>3. QED
    BY <2>1, <2>2 DEF Refused
<1>5. CASE ~(\/ ApplyOrderEvent(order, event) = Refused(order)
             \/ ApplyOrderEvent(order, event) = Ignored(order) /\ event.type # "fill"
             \/ \E to \in OrderStates \ {"PARTIAL", "FILLED"} :
                  /\ event.type # "fill" /\ ~IsTerminal(order.state)
                  /\ ApplyOrderEvent(order, event) = Transition(order, to, order.filledQty))
  <2> DEFINE filled == order.filledQty + event.qty
             to     == IF filled = order.qty THEN "FILLED" ELSE "PARTIAL"
  <2>1. /\ event.type = "fill" /\ ~IsTerminal(order.state)
        /\ event.qty > 0 /\ filled <= order.qty
        /\ ApplyOrderEvent(order, event) = Transition(order, to, filled)
    BY <1>5, ApplyResults
  <2>2. filled \in Nat /\ to \in OrderStates
    BY <1>1, <2>1 DEF OrderStates
  <2>3. \/ Transition(order, to, filled) = Refused(order)
        \/ /\ to \in Legal[order.state]
           /\ Transition(order, to, filled).ok
           /\ Transition(order, to, filled).order =
                [side |-> order.side, qty |-> order.qty, filledQty |-> filled,
                 state |-> to, revision |-> order.revision + 1]
    BY <2>2, TransitionResults
  <2>4. QED
    BY <1>5, <2>1, <2>3 DEF Refused
<1>6. QED
  BY <1>2, <1>3, <1>4, <1>5

(* No event breaks the agreement of state and fill.                        *)
LEMMA ApplyWellFormed ==
  ASSUME NEW order \in OrderRecord, WellFormed(order),
         NEW event, event.type \in EventTypes, event.qty \in Int
  PROVE  WellFormed(ApplyOrderEvent(order, event).order)
<1> DEFINE next == ApplyOrderEvent(order, event).order
<1>1. next \in OrderRecord
  BY ApplyType
<1>2. CASE next = order
  BY <1>2
<1>3. CASE next # order
  <2>1. /\ ~IsTerminal(order.state)
        /\ next.qty = order.qty
        /\ next.state \in Legal[order.state]
        /\ IF event.type = "fill"
           THEN /\ event.qty > 0
                /\ next.filledQty = order.filledQty + event.qty
                /\ next.filledQty <= order.qty
                /\ next.state = IF next.filledQty = order.qty THEN "FILLED" ELSE "PARTIAL"
           ELSE /\ next.filledQty = order.filledQty
                /\ next.state \notin {"PARTIAL", "FILLED"}
    BY <1>3, ApplyEffect
  <2>2. order.state \in {"NEW", "SUBMITTED", "ACK", "PARTIAL"}
    BY <2>1 DEF IsTerminal, TerminalStates, OrderRecord, OrderStates
  <2>3. /\ order.filledQty \in Nat /\ order.qty \in Nat \ {0}
        /\ next.filledQty \in Nat
    BY <1>1 DEF OrderRecord
  <2>4. order.filledQty < order.qty
    BY <2>2, <2>3 DEF WellFormed
  <2>5. CASE event.type = "fill"
    BY <2>1, <2>3, <2>5 DEF WellFormed
  <2>6. CASE event.type # "fill"
    BY <2>1, <2>2, <2>3, <2>4, <2>6 DEF WellFormed, Legal
  <2>7. QED
    BY <2>5, <2>6
<1>4. QED
  BY <1>2, <1>3
-----------------------------------------------------------------------------
(* A set of subsets of a finite set has a smallest one. *)
LEMMA MinimalSubset ==
  ASSUME NEW D, IsFiniteSet(D), NEW T, T \subseteq SUBSET D, NEW w \in T
  PROVE  \E m \in T : \A k \in T : k \subseteq m => k = m
<1>1. \E m \in T : \A k \in T : ~ (<<k, m>> \in StrictSubsetOrdering(D))
  <2>1. IsWellFoundedOn(StrictSubsetOrdering(D), FiniteSubsetsOf(D))
    BY FS_StrictSubsetOrderingWellFounded
  <2>2. T \subseteq FiniteSubsetsOf(D)
    BY FS_FiniteSubsetsOfFinite
  <2>. QED
    BY WFMin, <2>1, <2>2
<1>. QED
  BY <1>1 DEF StrictSubsetOrdering

(* A set of natural numbers has a smallest member. *)
LEMMA LeastNatural ==
  ASSUME NEW T \in SUBSET Nat, NEW n \in T
  PROVE  \E m \in T : \A k \in T : m <= k
<1> DEFINE D == 0 .. n
           S == {d \in SUBSET D : \E k \in T : d = 0 .. k}
<1>1. IsFiniteSet(D)
  BY FS_Interval
<1>2. S \subseteq SUBSET D /\ D \in S
  OBVIOUS
<1>3. \E d \in S : \A e \in S : e \subseteq d => e = d
  <2> HIDE DEF S, D
  <2>. QED BY <1>1, <1>2, MinimalSubset
<1>4. PICK d \in S : \A e \in S : e \subseteq d => e = d
  BY <1>3
<1>5. PICK m \in T : d = 0 .. m
  BY <1>4
<1>6. m <= n
  BY <1>4, <1>5
<1>7. ASSUME NEW k \in T, k < m PROVE FALSE
  <2>1. 0 .. k \in S /\ 0 .. k \subseteq d
    BY <1>5, <1>6, <1>7
  <2>2. 0 .. k = 0 .. m
    BY <2>1, <1>4, <1>5
  <2>. QED
    BY <2>2, <1>7
<1>. QED
  BY <1>7

(* Induction along 0 .. n, on a set in the place of a predicate. *)
LEMMA PrefixInduction ==
  ASSUME NEW n \in Nat, NEW B, 0 \in B, \A k \in 1 .. n : k - 1 \in B => k \in B
  PROVE  \A k \in 0 .. n : k \in B
<1> DEFINE Bad == {k \in 0 .. n : k \notin B}
<1>1. SUFFICES ASSUME NEW b \in Bad PROVE FALSE
  OBVIOUS
<1>2. \E m \in Bad : \A k \in Bad : m <= k
  <2>1. Bad \in SUBSET Nat
    OBVIOUS
  <2> HIDE DEF Bad
  <2>. QED BY <2>1, LeastNatural
<1>3. PICK m \in Bad : \A k \in Bad : m <= k
  BY <1>2
<1>4. m \in 1 .. n /\ m - 1 \in 0 .. n
  OBVIOUS
<1>5. m - 1 \notin Bad
  BY <1>3, <1>4
<1>. QED
  BY <1>4, <1>5

(* A function from a non-empty finite set to its subsets has a minimal     *)
(* value.                                                                  *)
LEMMA MinimalValue ==
  ASSUME NEW S, IsFiniteSet(S), NEW w \in S, NEW f \in [S -> SUBSET S]
  PROVE  \E x \in S : \A y \in S : f[y] \subseteq f[x] => f[y] = f[x]
<1>1. PICK U : U = {f[x] : x \in S}
  OBVIOUS
<1>2. U \subseteq SUBSET S /\ f[w] \in U
  BY <1>1
<1>3. \E m \in U : \A k \in U : k \subseteq m => k = m
  BY <1>2, MinimalSubset
<1>4. PICK m \in U : \A k \in U : k \subseteq m => k = m
  BY <1>3
<1>5. PICK x \in S : m = f[x]
  BY <1>1, <1>4
<1>. QED
  BY <1>1, <1>4, <1>5

(* The largest member of a finite set of integers. *)
LEMMA MaxOfSet ==
  ASSUME NEW S, NEW w \in S, IsFiniteSet(S)
  PROVE  S \subseteq Int => Max(S) \in S /\ \A y \in S : Max(S) >= y
<1>1. PICK f \in [S -> SUBSET S] : f = [x \in S |-> {y \in S : y >= x}]
  OBVIOUS
<1>2. PICK x \in S : \A y \in S : f[y] \subseteq f[x] => f[y] = f[x]
  BY MinimalValue
<1>3. HAVE S \subseteq Int
<1>4. \A y \in S : x >= y
  <2>1. SUFFICES ASSUME NEW y \in S, y > x PROVE FALSE
    BY <1>3
  <2>2. f[y] \subseteq f[x]
    <3>. SUFFICES ASSUME NEW z \in S, z >= y PROVE z >= x
      BY <1>1
    <3>. QED BY <1>3, <2>1
  <2>3. x \in f[x] /\ x \notin f[y]
    BY <1>1, <1>3, <2>1
  <2>. QED
    BY <2>2, <2>3, <1>2
<1>. QED
  BY <1>4 DEF Max
-----------------------------------------------------------------------------
LEMMA MaxOfPrefix ==
  ASSUME NEW S, NEW n \in S
  PROVE  n \in Nat /\ S \subseteq 1 .. n => Max(S) = n
<1>1. IsFiniteSet(S) /\ S \subseteq Int => Max(S) \in S /\ Max(S) >= n
  BY MaxOfSet
<1>2. ASSUME NEW D, IsFiniteSet(D), S \subseteq D PROVE IsFiniteSet(S)
  BY <1>2, FS_Subset
<1>3. HAVE n \in Nat /\ S \subseteq 1 .. n
<1>4. IsFiniteSet(1 .. n)
  BY <1>3, FS_Interval
<1>5. IsFiniteSet(S)
  BY <1>2, <1>3, <1>4
<1>6. \A x \in S : x \in Int /\ x <= n
  BY <1>3
<1>7. Max(S) \in S /\ Max(S) >= n
  BY <1>1, <1>5, <1>6
<1>8. Max(S) \in Int /\ Max(S) <= n
  BY <1>6, <1>7
<1>. QED
  BY <1>3, <1>7, <1>8
-----------------------------------------------------------------------------
(* h is the fold of + over f, from the largest index down.                 *)
IsFold(h, f, D) ==
  h = [S \in SUBSET D |-> IF S = {} THEN 0 ELSE h[S \ {Max(S)}] + f[Max(S)]]

LEMMA TotalDef == \A v : Total(v) = (CHOOSE h : IsFold(h, v, DOMAIN v))[DOMAIN v]
  BY DEF Total, FoldLeft, MapThenFoldSet, IsFold, Max

(* The recursive equation has a solution. *)
LEMMA FoldExists ==
  ASSUME NEW f, NEW n \in Nat
  PROVE  \E h : IsFold(h, f, 1 .. n)
<1> DEFINE Bad == {k \in Nat : ~ \E h : IsFold(h, f, 1 .. k)}
<1>1. SUFFICES ASSUME n \in Bad PROVE FALSE
  OBVIOUS
<1>2. PICK k \in Bad : \A j \in Bad : k <= j
  <2>1. Bad \in SUBSET Nat
    OBVIOUS
  <2> HIDE DEF Bad
  <2>. QED BY <1>1, <2>1, LeastNatural
<1>3. k # 0
  <2>1. ASSUME k = 0 PROVE IsFold([S \in {{}} |-> 0], f, 1 .. k)
    BY <2>1 DEF IsFold
  <2>. QED BY <2>1, <1>2
<1>4. PICK g : IsFold(g, f, 1 .. (k - 1))
  BY <1>2, <1>3
<1> DEFINE h == [S \in SUBSET (1 .. k) |-> IF k \in S THEN g[S \ {k}] + f[k] ELSE g[S]]
<1>5. ASSUME NEW S \in SUBSET (1 .. k), k \in S PROVE Max(S) = k
  BY <1>5, MaxOfPrefix
<1>6. IsFold(h, f, 1 .. k)
  <2>1. SUFFICES ASSUME NEW S \in SUBSET (1 .. k)
                 PROVE  h[S] = IF S = {} THEN 0 ELSE h[S \ {Max(S)}] + f[Max(S)]
    BY DEF IsFold
  <2>2. CASE k \in S
    BY <2>2, <1>5
  <2>3. CASE k \notin S
    <3>1. S \in SUBSET (1 .. (k - 1))
      BY <2>3, <1>2, <1>3
    <3>2. g[S] = IF S = {} THEN 0 ELSE g[S \ {Max(S)}] + f[Max(S)]
      BY <1>4, <3>1 DEF IsFold
    <3>. QED BY <2>3, <3>2
  <2>. QED BY <2>2, <2>3
<1>. QED
  BY <1>2, <1>6

(* Two solutions agree, and so does a solution for a longer sequence.      *)
SameTerms(f, e, m) == \A i \in 1 .. m : f[i] = e[i]
SameFolds(g, h, m) == \A S \in SUBSET (1 .. m) : g[S] = h[S]

LEMMA FoldUnique ==
  ASSUME NEW f, NEW e, NEW m \in Nat, NEW n \in Nat, m <= n, SameTerms(f, e, m),
         NEW g, IsFold(g, f, 1 .. m), NEW h, IsFold(h, e, 1 .. n)
  PROVE  SameFolds(g, h, m)
<1> USE DEF SameTerms, SameFolds
<1> DEFINE D == 1 .. m
           Bad == {S \in SUBSET D : g[S] # h[S]}
<1>1. SUFFICES ASSUME NEW B \in Bad PROVE FALSE
  OBVIOUS
<1>2. IsFiniteSet(D)
  BY FS_Interval
<1>3. \E S \in Bad : \A R \in Bad : R \subseteq S => R = S
  <2>1. Bad \subseteq SUBSET D
    OBVIOUS
  <2> HIDE DEF Bad, D
  <2>. QED BY <1>2, <2>1, MinimalSubset
<1>4. PICK S \in Bad : \A R \in Bad : R \subseteq S => R = S
  BY <1>3
<1>5. S # {}
  BY <1>4 DEF IsFold
<1>6. Max(S) \in S
  <2>1. IsFiniteSet(S)
    BY <1>2, FS_Subset
  <2>2. S \subseteq Int
    OBVIOUS
  <2>. QED BY <1>5, <2>1, <2>2, MaxOfSet
<1>7. S \ {Max(S)} \notin Bad
  BY <1>4, <1>6
<1>8. g[S \ {Max(S)}] = h[S \ {Max(S)}]
  BY <1>7
<1>9. /\ g[S] = g[S \ {Max(S)}] + f[Max(S)]
      /\ h[S] = h[S \ {Max(S)}] + e[Max(S)]
  <2>1. S \in SUBSET (1 .. m) /\ S \in SUBSET (1 .. n)
    OBVIOUS
  <2>2. g[S] = g[S \ {Max(S)}] + f[Max(S)]
    BY <1>5, <2>1 DEF IsFold
  <2>3. h[S] = h[S \ {Max(S)}] + e[Max(S)]
    BY <1>5, <2>1 DEF IsFold
  <2>. QED BY <2>2, <2>3
<1>. QED
  BY <1>4, <1>6, <1>8, <1>9

LEMMA FoldStep ==
  ASSUME NEW f, NEW e, NEW n \in Nat, SameTerms(f, e, n),
         NEW g, IsFold(g, f, 1 .. n), NEW h, IsFold(h, e, 1 .. (n + 1))
  PROVE  h[1 .. (n + 1)] = g[1 .. n] + e[n + 1]
<1>1. \A S \in SUBSET (1 .. n) : g[S] = h[S]
  <2>1. PICK m \in Nat : m = n + 1
    OBVIOUS
  <2>2. n <= m /\ IsFold(h, e, 1 .. m)
    BY <2>1
  <2>3. IsFold(g, f, 1 .. n) /\ SameTerms(f, e, n)
    OBVIOUS
  <2>4. SameFolds(g, h, n)
    BY ONLY n \in Nat, m \in Nat, <2>2, <2>3, FoldUnique
  <2>. QED BY <2>4 DEF SameFolds
<1>2. n + 1 \in 1 .. (n + 1)
  OBVIOUS
<1>3. Max(1 .. (n + 1)) = n + 1
  BY <1>2, MaxOfPrefix, n + 1 \in Nat
<1>4. (1 .. (n + 1)) \ {n + 1} = 1 .. n
  OBVIOUS
<1>5. h[1 .. (n + 1)] = h[(1 .. (n + 1)) \ {Max(1 .. (n + 1))}] + e[Max(1 .. (n + 1))]
  BY <1>2 DEF IsFold
<1>. QED
  BY <1>1, <1>3, <1>4, <1>5

LEMMA TotalIsFold ==
  ASSUME NEW v, NEW n \in Nat, DOMAIN v = 1 .. n
  PROVE  \E g : IsFold(g, v, 1 .. n) /\ Total(v) = g[1 .. n]
<1>1. PICK g : g = CHOOSE h : IsFold(h, v, 1 .. n)
  OBVIOUS
<1>2. IsFold(g, v, 1 .. n)
  BY <1>1, FoldExists
<1>3. Total(v) = g[1 .. n]
  BY <1>1, TotalDef
<1>. QED
  BY <1>2, <1>3

(* The sum of a sequence, one element at a time. *)
LEMMA TotalEmpty == Total(<<>>) = 0
<1>1. PICK g : IsFold(g, <<>>, 1 .. 0) /\ Total(<<>>) = g[1 .. 0]
  <2>1. DOMAIN <<>> = 1 .. 0
    OBVIOUS
  <2>. QED BY <2>1, TotalIsFold
<1>2. 1 .. 0 = {}
  OBVIOUS
<1>. QED
  BY <1>1, <1>2 DEF IsFold

LEMMA TotalAppend ==
  ASSUME NEW v \in Seq(Int), NEW x \in Int
  PROVE  Total(Append(v, x)) = Total(v) + x
<1>1. PICK n \in Nat : n = Len(v)
  OBVIOUS
<1>2. PICK w : w = Append(v, x)
  OBVIOUS
<1>3. DOMAIN v = 1 .. n /\ DOMAIN w = 1 .. (n + 1)
  BY <1>1, <1>2
<1>4. SameTerms(v, w, n) /\ w[n + 1] = x
  BY <1>1, <1>2 DEF SameTerms
<1>5. PICK g : IsFold(g, v, 1 .. n) /\ Total(v) = g[1 .. n]
  BY <1>3, TotalIsFold
<1>6. PICK h : IsFold(h, w, 1 .. (n + 1)) /\ Total(w) = h[1 .. (n + 1)]
  BY <1>3, TotalIsFold, n + 1 \in Nat
<1>7. h[1 .. (n + 1)] = g[1 .. n] + w[n + 1]
  BY <1>4, <1>5, <1>6, FoldStep
<1>. QED
  BY <1>2, <1>4, <1>5, <1>6, <1>7

(* The sums of the prefixes of a sequence. *)
LEMMA TotalPrefixes ==
  ASSUME NEW v, NEW n \in Nat, DOMAIN v = 1 .. n
  PROVE  \E t : /\ t[0] = 0 /\ Total(v) = t[n]
                /\ \A k \in 1 .. n : t[k] = t[k - 1] + v[k]
<1>1. PICK g : IsFold(g, v, 1 .. n) /\ Total(v) = g[1 .. n]
  BY TotalIsFold
<1>2. PICK t : t = [k \in 0 .. n |-> g[1 .. k]]
  OBVIOUS
<1>3. t[0] = 0
  <2>1. 1 .. 0 = {} /\ 0 \in 0 .. n
    OBVIOUS
  <2>. QED BY <1>1, <1>2, <2>1 DEF IsFold
<1>4. ASSUME NEW k \in 1 .. n PROVE t[k] = t[k - 1] + v[k]
  <2>1. k \in 1 .. k /\ k \in Nat /\ 1 .. k \subseteq 1 .. k
    OBVIOUS
  <2>2. Max(1 .. k) = k
    BY <2>1, MaxOfPrefix
  <2>3. (1 .. k) \ {k} = 1 .. (k - 1)
    OBVIOUS
  <2>4. 1 .. k \in SUBSET (1 .. n) /\ 1 .. k # {}
    BY <2>1
  <2>5. g[1 .. k] = g[(1 .. k) \ {Max(1 .. k)}] + v[Max(1 .. k)]
    BY <1>1, <2>4 DEF IsFold
  <2>6. k \in 0 .. n /\ k - 1 \in 0 .. n
    OBVIOUS
  <2>. QED BY <1>2, <2>2, <2>3, <2>5, <2>6
<1>5. Total(v) = t[n]
  BY <1>1, <1>2
<1>. QED
  BY <1>3, <1>4, <1>5

(* A sum of losses and profits of one unit is no further from zero than    *)
(* there are of them.                                                      *)
LEMMA TotalOfUnits ==
  ASSUME NEW v, NEW n \in Nat, DOMAIN v = 1 .. n, \A k \in 1 .. n : v[k] \in {-1, 1}
  PROVE  Total(v) \in -n .. n
<1>1. PICK t : /\ t[0] = 0 /\ Total(v) = t[n]
               /\ \A k \in 1 .. n : t[k] = t[k - 1] + v[k]
  BY TotalPrefixes
<1>2. PICK B : B = {k \in 0 .. n : t[k] \in -k .. k}
  OBVIOUS
<1>3. 0 \in B
  BY <1>1, <1>2
<1>4. ASSUME NEW k \in 1 .. n, k - 1 \in B PROVE k \in B
  <2>1. t[k - 1] \in -(k - 1) .. (k - 1)
    BY <1>2, <1>4
  <2>2. t[k] = t[k - 1] + v[k] /\ v[k] \in {-1, 1}
    BY <1>1
  <2>3. t[k] \in -k .. k
    BY <2>1, <2>2
  <2>. QED BY <1>2, <2>3
<1>5. \A k \in 0 .. n : k \in B
  BY <1>3, <1>4, PrefixInduction
<1>. QED
  BY <1>1, <1>2, <1>5

(* A sum of natural numbers is one, and it is zero when they all are. *)
LEMMA TotalOfNaturals ==
  ASSUME NEW v, NEW n \in Nat, DOMAIN v = 1 .. n, \A k \in 1 .. n : v[k] \in Nat
  PROVE  Total(v) \in Nat /\ ((\A k \in 1 .. n : v[k] = 0) => Total(v) = 0)
<1>1. PICK t : /\ t[0] = 0 /\ Total(v) = t[n]
               /\ \A k \in 1 .. n : t[k] = t[k - 1] + v[k]
  BY TotalPrefixes
<1>2. PICK B : B = {k \in 0 .. n : t[k] \in Nat /\ ((\A j \in 1 .. n : v[j] = 0) => t[k] = 0)}
  OBVIOUS
<1>3. 0 \in B
  BY <1>1, <1>2
<1>4. ASSUME NEW k \in 1 .. n, k - 1 \in B PROVE k \in B
  <2>1. t[k] = t[k - 1] + v[k] /\ t[k - 1] \in Nat /\ v[k] \in Nat
    BY <1>1, <1>2, <1>4
  <2>. QED BY <1>2, <1>4, <2>1
<1>5. \A k \in 0 .. n : k \in B
  BY <1>3, <1>4, PrefixInduction
<1>. QED
  BY <1>1, <1>2, <1>5

(* The sum of two sequences one after the other. *)
LEMMA TotalConcat ==
  ASSUME NEW v \in Seq(Int), NEW w \in Seq(Int)
  PROVE  Total(v \o w) = Total(v) + Total(w) /\ Total(v) \in Int /\ Total(w) \in Int
<1>0. PICK n \in Nat, m \in Nat : n = Len(v) /\ m = Len(w)
  OBVIOUS
<1>1. PICK u : u = v \o w /\ n = Len(v) /\ m = Len(w)
  BY <1>0
<1>2. /\ DOMAIN v = 1 .. n /\ \A k \in 1 .. n : v[k] \in Int
      /\ DOMAIN w = 1 .. m /\ \A k \in 1 .. m : w[k] \in Int
  BY <1>1
<1>3. u \in Seq(Int) /\ Len(u) = n + m
      /\ \A i \in 1 .. n + m : u[i] = IF i <= n THEN v[i] ELSE w[i - n]
  BY <1>1, ConcatProperties
<1>4. DOMAIN u = 1 .. n + m
  BY <1>3, LenProperties
<1>5. \A k \in 1 .. n : u[k] = v[k]
  BY <1>3
<1>6. ASSUME NEW k \in 1 .. m PROVE u[n + k] = w[k]
  <2>1. n + k \in 1 .. n + m /\ ~(n + k <= n) /\ (n + k) - n = k
    OBVIOUS
  <2>. QED BY <1>3, <2>1
<1>7. PICK a : /\ a[0] = 0 /\ Total(v) = a[n]
               /\ \A k \in 1 .. n : a[k] = a[k - 1] + v[k]
  BY <1>2, TotalPrefixes
<1>8. PICK b : /\ b[0] = 0 /\ Total(w) = b[m]
               /\ \A k \in 1 .. m : b[k] = b[k - 1] + w[k]
  BY <1>2, TotalPrefixes
<1>9. PICK c : /\ c[0] = 0 /\ Total(u) = c[n + m]
               /\ \A k \in 1 .. (n + m) : c[k] = c[k - 1] + u[k]
  BY <1>4, TotalPrefixes, n + m \in Nat
<1>10. c[n] = a[n] /\ a[n] \in Int
  <2>1. PICK B : B = {k \in 0 .. n : c[k] = a[k] /\ a[k] \in Int}
    OBVIOUS
  <2>2. 0 \in B
    BY <1>7, <1>9, <2>1
  <2>3. ASSUME NEW k \in 1 .. n, k - 1 \in B PROVE k \in B
    <3>1. c[k - 1] = a[k - 1] /\ a[k - 1] \in Int
      BY <2>1, <2>3
    <3>2. a[k] = a[k - 1] + v[k] /\ v[k] \in Int /\ u[k] = v[k]
      BY <1>2, <1>5, <1>7
    <3>3. c[k] = c[k - 1] + u[k]
      BY <1>9, k \in 1 .. (n + m)
    <3>4. c[k] = a[k] /\ a[k] \in Int
      BY <3>1, <3>2, <3>3
    <3>. QED BY <2>1, <3>4
  <2>4. \A k \in 0 .. n : k \in B
    BY <2>2, <2>3, PrefixInduction
  <2>. QED BY <2>1, <2>4
<1>11. c[n + m] = a[n] + b[m] /\ b[m] \in Int
  <2>1. PICK B : B = {k \in 0 .. m : c[n + k] = a[n] + b[k] /\ b[k] \in Int}
    OBVIOUS
  <2>2. 0 \in B
    BY <1>8, <1>10, <2>1
  <2>3. ASSUME NEW k \in 1 .. m, k - 1 \in B PROVE k \in B
    <3>1. c[n + k] = c[n + k - 1] + u[n + k]
      BY <1>9, n + k \in 1 .. (n + m)
    <3>2. c[n + k - 1] = a[n] + b[k - 1] /\ b[k - 1] \in Int
      BY <2>1, <2>3, n + (k - 1) = n + k - 1
    <3>3. b[k] = b[k - 1] + w[k] /\ w[k] \in Int /\ u[n + k] = w[k]
      BY <1>2, <1>6, <1>8
    <3>4. c[n + k] = a[n] + b[k] /\ b[k] \in Int
      BY <1>10, <3>1, <3>2, <3>3, SMTT(40)
    <3>. QED BY <2>1, <3>4
  <2>4. \A k \in 0 .. m : k \in B
    BY <2>2, <2>3, PrefixInduction
  <2>. QED BY <2>1, <2>4
<1>. QED
  BY <1>1, <1>7, <1>8, <1>9, <1>10, <1>11

-----------------------------------------------------------------------------
(***************************************************************************)
(* Sums over a finite set, one arbitrary member after the other.           *)
(***************************************************************************)
AnyOf(s) == CHOOSE x \in s : TRUE

(* h is the fold of + over f, from the member of each set that is chosen.  *)
IsSum(h, f, S) ==
  h = [s \in SUBSET S |-> IF s = {} THEN 0 ELSE f[AnyOf(s)] + h[s \ {AnyOf(s)}]]

SumOf(f, S) == (CHOOSE h : IsSum(h, f, S))[S]

LEMMA AnyOfMember == \A s : s # {} => AnyOf(s) \in s
  BY DEF AnyOf

(* Induction on the subsets of a finite set, on a set in the place of a    *)
(* predicate.                                                              *)
LEMMA SubsetInduction ==
  ASSUME NEW S, IsFiniteSet(S), NEW B,
         \A s \in SUBSET S : (\A r \in SUBSET s : r # s => r \in B) => s \in B
  PROVE  \A s \in SUBSET S : s \in B
<1> DEFINE Bad == {s \in SUBSET S : s \notin B}
<1>1. SUFFICES ASSUME NEW b \in Bad PROVE FALSE
  OBVIOUS
<1>2. Bad \subseteq SUBSET S
  OBVIOUS
<1>3. \E m \in Bad : \A k \in Bad : k \subseteq m => k = m
  <2> HIDE DEF Bad
  <2>. QED BY <1>1, <1>2, MinimalSubset
<1>4. PICK m \in Bad : \A k \in Bad : k \subseteq m => k = m
  BY <1>3
<1>5. \A r \in SUBSET m : r # m => r \in B
  BY <1>4
<1>. QED
  BY <1>4, <1>5

(* Two solutions agree where the functions do. *)
LEMMA SumUnique ==
  ASSUME NEW R, IsFiniteSet(R), NEW S, R \subseteq S, NEW f, NEW e, \A x \in R : f[x] = e[x],
         NEW g, IsSum(g, f, R), NEW h, IsSum(h, e, S)
  PROVE  \A s \in SUBSET R : g[s] = h[s]
<1> DEFINE B == {s \in SUBSET R : g[s] = h[s]}
<1>1. ASSUME NEW s \in SUBSET R, \A r \in SUBSET s : r # s => r \in B PROVE s \in B
  <2>1. CASE s = {}
    <3>1. g[s] = 0 /\ h[s] = 0
      BY <2>1 DEF IsSum
    <3>. QED BY <3>1
  <2>2. CASE s # {}
    <3>1. PICK x \in s : x = AnyOf(s)
      BY <2>2, AnyOfMember
    <3>2. s \ {x} \in B
      BY <1>1, <3>1
    <3>3. g[s] = f[x] + g[s \ {x}]
      BY <2>2, <3>1 DEF IsSum
    <3>4. h[s] = e[x] + h[s \ {x}]
      BY <2>2, <3>1 DEF IsSum
    <3>5. g[s] = h[s]
      BY <3>1, <3>2, <3>3, <3>4
    <3>. QED BY <3>5
  <2>. QED BY <2>1, <2>2
<1>2. \A s \in SUBSET R : s \in B
  <2> HIDE DEF B
  <2>. QED BY <1>1, SubsetInduction
<1>. QED
  BY <1>2

LEMMA SumChosen ==
  ASSUME NEW f, NEW S, NEW h, IsSum(h, f, S)
  PROVE  \E k : IsSum(k, f, S) /\ SumOf(f, S) = k[S]
<1>1. PICK k : k = CHOOSE g : IsSum(g, f, S)
  OBVIOUS
<1>2. IsSum(k, f, S)
  BY <1>1
<1>. QED
  BY <1>1, <1>2 DEF SumOf

(* The recursive equation has a solution on every finite set. *)
LEMMA SumExists ==
  ASSUME NEW f, NEW S, IsFiniteSet(S)
  PROVE  \E h : IsSum(h, f, S)
<1> DEFINE B == {T \in SUBSET S : \E h : IsSum(h, f, T)}
<1>1. ASSUME NEW T \in SUBSET S, \A r \in SUBSET T : r # T => r \in B PROVE T \in B
  <2>1. ASSUME NEW r \in SUBSET T, r # T, r # {}
        PROVE  SumOf(f, r) = f[AnyOf(r)] + SumOf(f, r \ {AnyOf(r)})
    <3>1. PICK x \in r : x = AnyOf(r)
      BY <2>1, AnyOfMember
    <3>2. PICK k : IsSum(k, f, r) /\ SumOf(f, r) = k[r]
      BY <1>1, <2>1, SumChosen
    <3>3. r \ {x} \in SUBSET T /\ r \ {x} # T
      BY <2>1, <3>1
    <3>4. PICK j : IsSum(j, f, r \ {x}) /\ SumOf(f, r \ {x}) = j[r \ {x}]
      BY <1>1, <3>3, SumChosen
    <3>5. IsFiniteSet(r \ {x})
      BY FS_Subset
    <3>6. j[r \ {x}] = k[r \ {x}]
      BY <3>2, <3>4, <3>5, SumUnique
    <3>7. k[r] = f[x] + k[r \ {x}]
      BY <2>1, <3>1, <3>2 DEF IsSum
    <3>. QED BY <3>1, <3>2, <3>4, <3>6, <3>7
  <2>2. T # {} => SumOf(f, {}) = 0
    <3>1. SUFFICES ASSUME T # {} PROVE SumOf(f, {}) = 0
      OBVIOUS
    <3>2. PICK k : IsSum(k, f, {}) /\ SumOf(f, {}) = k[{}]
      BY <1>1, <3>1, SumChosen
    <3>. QED BY <3>2 DEF IsSum
  <2>3. PICK h : h = [s \in SUBSET T |-> IF s = {} THEN 0 ELSE f[AnyOf(s)] + SumOf(f, s \ {AnyOf(s)})]
    OBVIOUS
  <2>4. ASSUME NEW s \in SUBSET T, s # {} PROVE h[s \ {AnyOf(s)}] = SumOf(f, s \ {AnyOf(s)})
    <3>1. PICK r \in SUBSET T : r = s \ {AnyOf(s)}
      OBVIOUS
    <3>2. r # T
      BY <2>4, <3>1, AnyOfMember
    <3>3. h[r] = SumOf(f, r)
      <4>1. CASE r = {}
        BY <2>2, <2>3, <3>2, <4>1
      <4>2. CASE r # {}
        BY <2>1, <2>3, <3>2, <4>2
      <4>. QED BY <4>1, <4>2
    <3>. QED BY <3>1, <3>3
  <2>5. h = [s \in SUBSET T |-> IF s = {} THEN 0 ELSE f[AnyOf(s)] + h[s \ {AnyOf(s)}]]
    BY <2>3, <2>4
  <2>6. IsSum(h, f, T)
    BY <2>5 DEF IsSum
  <2>. QED BY <2>6
<1>2. \A s \in SUBSET S : s \in B
  <2> HIDE DEF B
  <2>. QED BY <1>1, SubsetInduction
<1>. QED
  BY <1>2

LEMMA SumEmpty == \A f : SumOf(f, {}) = 0
<1>1. SUFFICES ASSUME NEW f PROVE SumOf(f, {}) = 0
  OBVIOUS
<1>2. PICK h : IsSum(h, f, {})
  BY SumExists, FS_EmptySet
<1>3. PICK k : IsSum(k, f, {}) /\ SumOf(f, {}) = k[{}]
  BY <1>2, SumChosen
<1>. QED
  BY <1>3 DEF IsSum

LEMMA SumStep ==
  ASSUME NEW f, NEW S, IsFiniteSet(S), S # {}
  PROVE  AnyOf(S) \in S /\ SumOf(f, S) = f[AnyOf(S)] + SumOf(f, S \ {AnyOf(S)})
<1>1. PICK x \in S : x = AnyOf(S)
  BY AnyOfMember
<1>2. PICK R : R = S \ {x} /\ IsFiniteSet(R) /\ R \subseteq S
  BY FS_Subset
<1>3. PICK k : IsSum(k, f, S) /\ SumOf(f, S) = k[S]
  BY SumExists, SumChosen
<1>4. PICK j : IsSum(j, f, R) /\ SumOf(f, R) = j[R]
  BY <1>2, SumExists, SumChosen
<1>5. j[R] = k[R]
  BY <1>2, <1>3, <1>4, SumUnique
<1>6. k[S] = f[x] + k[S \ {x}]
  BY <1>1, <1>3 DEF IsSum
<1>. QED
  BY <1>1, <1>2, <1>3, <1>4, <1>5, <1>6

LEMMA SumSame ==
  ASSUME NEW f, NEW e, NEW S, IsFiniteSet(S), \A x \in S : f[x] = e[x]
  PROVE  SumOf(f, S) = SumOf(e, S)
<1>1. PICK k : IsSum(k, f, S) /\ SumOf(f, S) = k[S]
  BY SumExists, SumChosen
<1>2. PICK j : IsSum(j, e, S) /\ SumOf(e, S) = j[S]
  BY SumExists, SumChosen
<1>3. k[S] = j[S]
  BY <1>1, <1>2, SumUnique
<1>. QED
  BY <1>1, <1>2, <1>3

(* A sum of integers does not depend on the order, and is one. *)
LEMMA SumTakes ==
  ASSUME NEW f, NEW S, IsFiniteSet(S), \A x \in S : f[x] \in Int
  PROVE  /\ SumOf(f, S) \in Int
         /\ \A x \in S : SumOf(f, S) = f[x] + SumOf(f, S \ {x})
<1> DEFINE B == {s \in SUBSET S : /\ SumOf(f, s) \in Int
                                  /\ \A x \in s : SumOf(f, s) = f[x] + SumOf(f, s \ {x})}
<1>1. ASSUME NEW s \in SUBSET S, \A r \in SUBSET s : r # s => r \in B PROVE s \in B
  <2>1. CASE s = {}
    BY <2>1, SumEmpty
  <2>2. CASE s # {}
    <3>1. IsFiniteSet(s)
      BY FS_Subset
    <3>2. PICK a \in s : a = AnyOf(s) /\ SumOf(f, s) = f[a] + SumOf(f, s \ {a})
      BY <2>2, <3>1, SumStep
    <3>3. s \ {a} \in B
      BY <1>1, <3>2
    <3>4. SumOf(f, s) \in Int
      BY <3>2, <3>3
    <3>5. ASSUME NEW x \in s, x # a PROVE SumOf(f, s) = f[x] + SumOf(f, s \ {x})
      <4>1. PICK r : r = s \ {a, x}
        OBVIOUS
      <4>2. r = (s \ {a}) \ {x} /\ r = (s \ {x}) \ {a} /\ x \in s \ {a} /\ a \in s \ {x}
        BY <3>2, <3>5, <4>1
      <4>3. s \ {x} \in B /\ r \in B
        BY <1>1, <3>2, <4>1
      <4>4. SumOf(f, s \ {a}) = f[x] + SumOf(f, r)
        BY <3>3, <4>2
      <4>5. SumOf(f, s \ {x}) = f[a] + SumOf(f, r)
        BY <4>2, <4>3
      <4>6. f[a] \in Int /\ f[x] \in Int /\ SumOf(f, r) \in Int
        BY <3>2, <4>3
      <4>. QED BY <3>2, <4>4, <4>5, <4>6
    <3>. QED BY <3>2, <3>4, <3>5
  <2>. QED BY <2>1, <2>2
<1>2. \A s \in SUBSET S : s \in B
  <2> HIDE DEF B
  <2>. QED BY <1>1, SubsetInduction
<1>. QED
  BY <1>2

(* Changing one summand. *)
LEMMA SumChanges ==
  ASSUME NEW f, NEW e, NEW S, IsFiniteSet(S), \A x \in S : f[x] \in Int /\ e[x] \in Int,
         NEW x \in S, \A y \in S : y # x => e[y] = f[y]
  PROVE  SumOf(e, S) = SumOf(f, S) - f[x] + e[x] /\ SumOf(f, S) \in Int
<1>1. SumOf(f, S) = f[x] + SumOf(f, S \ {x})
  BY SumTakes
<1>2. SumOf(e, S) = e[x] + SumOf(e, S \ {x})
  BY SumTakes
<1>3. IsFiniteSet(S \ {x})
  BY FS_Subset
<1>4. SumOf(e, S \ {x}) = SumOf(f, S \ {x}) /\ SumOf(f, S \ {x}) \in Int
  BY <1>3, SumSame, SumTakes
<1>. QED
  BY <1>1, <1>2, <1>4

(* What is not there adds nothing. *)
LEMMA SumIgnores ==
  ASSUME NEW f, NEW S, IsFiniteSet(S), NEW R, R \subseteq S,
         \A x \in S : f[x] \in Int, \A x \in S \ R : f[x] = 0
  PROVE  SumOf(f, S) = SumOf(f, R)
<1> DEFINE B == {s \in SUBSET S : SumOf(f, s) = SumOf(f, s \cap R)}
<1>1. ASSUME NEW s \in SUBSET S, \A r \in SUBSET s : r # s => r \in B PROVE s \in B
  <2>1. CASE s \subseteq R
    <3>1. s \cap R = s
      BY <2>1
    <3>. QED BY <3>1
  <2>2. ASSUME NEW x \in s, x \notin R PROVE s \in B
    <3>1. s \ {x} \in B
      BY <1>1
    <3>2. (s \ {x}) \cap R = s \cap R
      BY <2>2
    <3>3. IsFiniteSet(s) /\ \A y \in s : f[y] \in Int
      BY FS_Subset
    <3>4. IsFiniteSet(s \ {x})
      BY <3>3, FS_Subset
    <3>5. SumOf(f, s) = f[x] + SumOf(f, s \ {x}) /\ SumOf(f, s \ {x}) \in Int
      BY <3>3, <3>4, SumTakes
    <3>6. f[x] = 0
      BY <2>2
    <3>7. SumOf(f, s \ {x}) = SumOf(f, s \cap R)
      BY <3>1, <3>2
    <3>8. SumOf(f, s) = SumOf(f, s \ {x})
      BY <3>5, <3>6
    <3>. QED BY <3>7, <3>8
  <2>. QED BY <2>1, <2>2
<1>2. \A s \in SUBSET S : s \in B
  <2> HIDE DEF B
  <2>. QED BY <1>1, SubsetInduction
<1>3. S \cap R = R
  OBVIOUS
<1>. QED
  BY <1>2, <1>3

(* A sum of natural numbers is one. *)
LEMMA SumNatural ==
  ASSUME NEW f, NEW S, IsFiniteSet(S), \A x \in S : f[x] \in Nat
  PROVE  SumOf(f, S) \in Nat
<1> DEFINE B == {s \in SUBSET S : SumOf(f, s) \in Nat}
<1>1. ASSUME NEW s \in SUBSET S, \A r \in SUBSET s : r # s => r \in B PROVE s \in B
  <2>1. CASE s = {}
    BY <2>1, SumEmpty
  <2>2. CASE s # {}
    <3>1. IsFiniteSet(s)
      BY FS_Subset
    <3>2. PICK a \in s : a = AnyOf(s) /\ SumOf(f, s) = f[a] + SumOf(f, s \ {a})
      BY <2>2, <3>1, SumStep
    <3>3. s \ {a} \in B
      BY <1>1, <3>2
    <3>. QED BY <3>2, <3>3
  <2>. QED BY <2>1, <2>2
<1>2. \A s \in SUBSET S : s \in B
  <2> HIDE DEF B
  <2>. QED BY <1>1, SubsetInduction
<1>. QED
  BY <1>2

(* Taking some members away splits a sum. *)
LEMMA SumSplits ==
  ASSUME NEW f, NEW S, IsFiniteSet(S), \A x \in S : f[x] \in Int, NEW R, R \subseteq S
  PROVE  SumOf(f, S) = SumOf(f, R) + SumOf(f, S \ R)
<1> DEFINE T == S \ R
           B == {s \in SUBSET T : SumOf(f, R \cup s) = SumOf(f, R) + SumOf(f, s)}
<1>1. IsFiniteSet(T) /\ IsFiniteSet(R)
  BY FS_Subset
<1>2. SumOf(f, R) \in Int
  BY <1>1, SumTakes
<1>3. ASSUME NEW s \in SUBSET T, \A r \in SUBSET s : r # s => r \in B PROVE s \in B
  <2>1. CASE s = {}
    <3>1. SumOf(f, s) = 0 /\ R \cup s = R
      BY <2>1, SumEmpty
    <3>. QED BY <1>2, <3>1
  <2>2. CASE s # {}
    <3>1. PICK x : x \in s
      BY <2>2
    <3>2. IsFiniteSet(s) /\ IsFiniteSet(R \cup s) /\ \A y \in R \cup s : f[y] \in Int
      <4>1. R \cup s \subseteq S /\ s \subseteq S
        OBVIOUS
      <4>. QED BY <4>1, FS_Subset
    <3>3. SumOf(f, R \cup s) = f[x] + SumOf(f, (R \cup s) \ {x})
      BY <3>1, <3>2, SumTakes
    <3>4. SumOf(f, s) = f[x] + SumOf(f, s \ {x})
      BY <3>1, <3>2, SumTakes
    <3>5. SumOf(f, R \cup (s \ {x})) = SumOf(f, R) + SumOf(f, s \ {x})
      BY <1>3, <3>1
    <3>6. (R \cup s) \ {x} = R \cup (s \ {x})
      BY <3>1
    <3>7. f[x] \in Int /\ SumOf(f, s \ {x}) \in Int
      <4>1. IsFiniteSet(s \ {x})
        BY <3>2, FS_Subset
      <4>. QED BY <3>1, <3>2, <4>1, SumTakes
    <3>8. SumOf(f, R \cup s) = SumOf(f, R) + SumOf(f, s)
      <4>1. SumOf(f, R \cup s) = f[x] + (SumOf(f, R) + SumOf(f, s \ {x}))
        BY <3>3, <3>5, <3>6
      <4>2. \A a, b, c \in Int : a + (b + c) = b + (a + c)
        OBVIOUS
      <4>. QED BY ONLY <1>2, <3>4, <3>7, <4>1, <4>2
    <3>. QED BY <3>8
  <2>. QED BY <2>1, <2>2
<1>4. \A s \in SUBSET T : s \in B
  <2> HIDE DEF B, T
  <2>. QED BY <1>1, <1>3, SubsetInduction
<1>5. R \cup T = S
  OBVIOUS
<1>. QED BY <1>4, <1>5

(* Adding term by term. *)
LEMMA SumAdds ==
  ASSUME NEW f, NEW g, NEW h, NEW S, IsFiniteSet(S),
         \A x \in S : f[x] \in Int /\ g[x] \in Int /\ h[x] = f[x] + g[x]
  PROVE  SumOf(h, S) = SumOf(f, S) + SumOf(g, S)
<1> DEFINE B == {s \in SUBSET S : SumOf(h, s) = SumOf(f, s) + SumOf(g, s)}
<1>1. ASSUME NEW s \in SUBSET S, \A r \in SUBSET s : r # s => r \in B PROVE s \in B
  <2>1. CASE s = {}
    BY <2>1, SumEmpty
  <2>2. ASSUME NEW x \in s PROVE s \in B
    <3>1. IsFiniteSet(s) /\ \A y \in s : f[y] \in Int /\ g[y] \in Int /\ h[y] \in Int
      BY FS_Subset
    <3>2. PICK r \in SUBSET S : r = s \ {x} /\ IsFiniteSet(r) /\ r \subseteq s
      BY <3>1, FS_Subset
    <3>3. /\ SumOf(f, s) = f[x] + SumOf(f, r) /\ SumOf(g, s) = g[x] + SumOf(g, r)
          /\ SumOf(h, s) = h[x] + SumOf(h, r)
      BY <3>1, <3>2, SumTakes
    <3>4. SumOf(f, r) \in Int /\ SumOf(g, r) \in Int
      BY <3>1, <3>2, SumTakes
    <3>5. SumOf(h, r) = SumOf(f, r) + SumOf(g, r)
      BY <1>1, <2>2, <3>2
    <3>6. SumOf(h, s) = SumOf(f, s) + SumOf(g, s)
      BY <3>1, <3>3, <3>4, <3>5
    <3>. QED BY <3>6
  <2>. QED BY <2>1, <2>2
<1>2. \A s \in SUBSET S : s \in B
  <2> HIDE DEF B
  <2>. QED BY <1>1, SubsetInduction
<1>. QED
  BY <1>2
-----------------------------------------------------------------------------
(* g folds a step function over the indices in D, the largest last.        *)
IsLeft(g, base, step, D) ==
  g = [S \in SUBSET D |-> IF S = {} THEN base ELSE step[Max(S)][g[S \ {Max(S)}]]]

LEMMA LeftExists ==
  ASSUME NEW base, NEW step, NEW n \in Nat
  PROVE  \E h : IsLeft(h, base, step, 1 .. n)
<1> DEFINE Bad == {k \in Nat : ~ \E h : IsLeft(h, base, step, 1 .. k)}
<1>1. SUFFICES ASSUME n \in Bad PROVE FALSE
  OBVIOUS
<1>2. PICK k \in Bad : \A j \in Bad : k <= j
  <2>1. Bad \in SUBSET Nat
    OBVIOUS
  <2> HIDE DEF Bad
  <2>. QED BY <1>1, <2>1, LeastNatural
<1>3. k # 0
  <2>1. ASSUME k = 0 PROVE IsLeft([S \in {{}} |-> base], base, step, 1 .. k)
    BY <2>1 DEF IsLeft
  <2>. QED BY <2>1, <1>2
<1>4. PICK g : IsLeft(g, base, step, 1 .. (k - 1))
  BY <1>2, <1>3
<1> DEFINE h == [S \in SUBSET (1 .. k) |-> IF k \in S THEN step[k][g[S \ {k}]] ELSE g[S]]
<1>5. ASSUME NEW S \in SUBSET (1 .. k), k \in S PROVE Max(S) = k
  BY <1>5, MaxOfPrefix
<1>6. IsLeft(h, base, step, 1 .. k)
  <2>1. SUFFICES ASSUME NEW S \in SUBSET (1 .. k)
                 PROVE  h[S] = IF S = {} THEN base ELSE step[Max(S)][h[S \ {Max(S)}]]
    BY DEF IsLeft
  <2>2. CASE k \in S
    BY <2>2, <1>5
  <2>3. CASE k \notin S
    <3>1. S \in SUBSET (1 .. (k - 1))
      BY <2>3, <1>2, <1>3
    <3>2. g[S] = IF S = {} THEN base ELSE step[Max(S)][g[S \ {Max(S)}]]
      BY <1>4, <3>1 DEF IsLeft
    <3>. QED BY <2>3, <3>2
  <2>. QED BY <2>2, <2>3
<1>. QED
  BY <1>2, <1>6

(* The fold stays where its steps stay. *)
LEMMA LeftStays ==
  ASSUME NEW n \in Nat, NEW W, NEW base \in W, NEW step, \A x \in W : \A k \in 1 .. n : step[k][x] \in W,
         NEW g, IsLeft(g, base, step, 1 .. n)
  PROVE  \A S \in SUBSET (1 .. n) : g[S] \in W
<1> DEFINE D == 1 .. n
           B == {S \in SUBSET D : g[S] \in W}
<1>1. IsFiniteSet(D)
  BY FS_Interval
<1>2. ASSUME NEW S \in SUBSET D, \A R \in SUBSET S : R # S => R \in B PROVE S \in B
  <2>1. CASE S = {}
    BY <2>1 DEF IsLeft
  <2>2. CASE S # {}
    <3>0. IsFiniteSet(S)
      BY <1>1, FS_Subset
    <3>1. S \subseteq Int
      OBVIOUS
    <3>2. Max(S) \in S
      BY <2>2, <3>0, <3>1, MaxOfSet
    <3>3. S \ {Max(S)} \in B
      BY <1>2, <3>2
    <3>4. g[S] = step[Max(S)][g[S \ {Max(S)}]]
      BY <2>2 DEF IsLeft
    <3>. QED BY <3>2, <3>3, <3>4
  <2>. QED BY <2>1, <2>2
<1>3. \A S \in SUBSET D : S \in B
  <2> HIDE DEF B, D
  <2>. QED BY <1>1, <1>2, SubsetInduction
<1>. QED
  BY <1>3

(* The prefixes are reached one index at a time. *)
LEMMA PrefixMax ==
  ASSUME NEW n \in Nat, NEW k \in 1 .. n
  PROVE  /\ 1 .. k \in SUBSET (1 .. n) /\ 1 .. k # {}
         /\ Max(1 .. k) = k /\ (1 .. k) \ {Max(1 .. k)} = 1 .. (k - 1)
<1>1. k \in 1 .. k /\ k \in Nat /\ 1 .. k \subseteq 1 .. k
  OBVIOUS
<1>2. Max(1 .. k) = k
  BY <1>1, MaxOfPrefix
<1>3. (1 .. k) \ {k} = 1 .. (k - 1)
  OBVIOUS
<1>. QED BY <1>1, <1>2, <1>3
-----------------------------------------------------------------------------
(* t is what is left of s when only the indices in K are kept, and e says  *)
(* where each of its elements came from.                                   *)
Picks(e, t, s, K) ==
  /\ \A j \in 1 .. Len(t) : e[j] \in K /\ t[j] = s[e[j]]
  /\ \A i, j \in 1 .. Len(t) : i < j => e[i] < e[j]
  /\ \A k \in K : \E j \in 1 .. Len(t) : e[j] = k

(* One element more, and what is kept of all up to the n-th.               *)
KeptNext(F, i, s, K) == IF i \in K THEN Append(F[i - 1], s[i]) ELSE F[i - 1]
KeptUpTo(F, n, s, K) == F = [i \in 0 .. n |-> IF i = 0 THEN <<>> ELSE KeptNext(F, i, s, K)]

LEMMA KeptExists ==
  ASSUME NEW s, NEW n \in Nat, NEW K
  PROVE  \E F : KeptUpTo(F, n, s, K)
<1> DEFINE B == {k \in 0 .. n : \E F : KeptUpTo(F, k, s, K)}
<1>1. 0 \in B
  <2>1. PICK F : F = [i \in 0 .. 0 |-> <<>>]
    OBVIOUS
  <2>2. F = [i \in 0 .. 0 |-> IF i = 0 THEN <<>> ELSE KeptNext(F, i, s, K)]
    BY <2>1
  <2>. QED BY <2>2 DEF KeptUpTo
<1>2. ASSUME NEW k \in 1 .. n, k - 1 \in B PROVE k \in B
  <2>1. PICK F : F = [i \in 0 .. (k - 1) |-> IF i = 0 THEN <<>> ELSE KeptNext(F, i, s, K)]
    BY <1>2 DEF KeptUpTo
  <2>3. PICK G : G = [i \in 0 .. k |-> IF i = k THEN KeptNext(F, k, s, K) ELSE F[i]]
    OBVIOUS
  <2>4. ASSUME NEW i \in 0 .. k
        PROVE  G[i] = IF i = 0 THEN <<>> ELSE KeptNext(G, i, s, K)
    <3>1. CASE i = k
      <4>1. G[k] = KeptNext(F, k, s, K) /\ G[k - 1] = F[k - 1]
        BY <2>3
      <4>. QED BY <3>1, <4>1 DEF KeptNext
    <3>2. CASE i = 0
      <4>1. G[0] = F[0] /\ F[0] = <<>>
        BY <2>1, <2>3
      <4>. QED BY <3>2, <4>1
    <3>3. CASE i \in 1 .. (k - 1)
      <4>1. G[i] = F[i] /\ G[i - 1] = F[i - 1]
        BY <2>3, <3>3
      <4>2. F[i] = KeptNext(F, i, s, K)
        BY <2>1, <3>3
      <4>3. KeptNext(F, i, s, K) = KeptNext(G, i, s, K)
        BY <4>1 DEF KeptNext
      <4>. QED BY <3>3, <4>1, <4>2, <4>3
    <3>. QED BY <3>1, <3>2, <3>3
  <2>5. G = [i \in 0 .. k |-> IF i = 0 THEN <<>> ELSE KeptNext(G, i, s, K)]
    BY <2>3, <2>4
  <2>. QED BY <2>5 DEF KeptUpTo
<1>3. \A k \in 0 .. n : k \in B
  <2> HIDE DEF B
  <2>. QED BY <1>1, <1>2, PrefixInduction
<1>. QED
  BY <1>3

LEMMA KeptIs ==
  ASSUME NEW s, NEW n \in Nat, n = Len(s), NEW K
  PROVE  \E F : KeptUpTo(F, n, s, K) /\ Kept(s, K) = F[n]
<1>1. PICK F : F = CHOOSE G : KeptUpTo(G, n, s, K)
  OBVIOUS
<1>2. Kept(s, K) = F[n]
  BY <1>1 DEF Kept, KeptUpTo, KeptNext
<1>3. KeptUpTo(F, n, s, K)
  BY <1>1, KeptExists
<1>. QED BY <1>2, <1>3

LEMMA KeptPicks ==
  ASSUME NEW V, NEW s \in Seq(V), NEW K, \A i \in K : i \in 1 .. Len(s)
  PROVE  Kept(s, K) \in Seq(V) /\ \E e : Picks(e, Kept(s, K), s, K)
<1>1. PICK n \in Nat : n = Len(s) /\ \A i \in 1 .. n : s[i] \in V
  OBVIOUS
<1>2. \A i \in K : i \in 1 .. n
  BY <1>1
<1>3. PICK F : KeptUpTo(F, n, s, K) /\ Kept(s, K) = F[n]
  BY <1>1, KeptIs
<1>4. F = [i \in 0 .. n |-> IF i = 0 THEN <<>> ELSE KeptNext(F, i, s, K)]
  BY <1>3 DEF KeptUpTo
<1>5. PICK Upto : Upto = [k \in 0 .. n |-> {i \in K : i <= k}]
  OBVIOUS
<1>10. \A k \in 0 .. n : Upto[k] = {i \in K : i <= k}
  BY <1>5
<1> DEFINE B == {k \in 0 .. n : F[k] \in Seq(V) /\ \E e : Picks(e, F[k], s, Upto[k])}
<1>6. 0 \in B
  <2>1. F[0] = <<>>
    BY <1>4
  <2>2. Upto[0] = {}
    BY <1>2, <1>10
  <2>3. Picks(<<>>, <<>>, s, {})
    BY DEF Picks
  <2>4. 0 \in 0 .. n /\ F[0] \in Seq(V) /\ Picks(<<>>, F[0], s, Upto[0])
    BY <2>1, <2>2, <2>3
  <2>. QED BY <2>4
<1>7. ASSUME NEW k \in 1 .. n, k - 1 \in B PROVE k \in B
  <2>0. /\ k \in 0 .. n /\ k - 1 \in 0 .. n
        /\ Upto[k] = {i \in K : i <= k} /\ Upto[k - 1] = {i \in K : i <= k - 1}
    BY <1>10
  <2>1. PICK t \in Seq(V) : t = F[k - 1] /\ \E d : Picks(d, t, s, Upto[k - 1])
    BY <1>7
  <2>5. PICK e : Picks(e, t, s, Upto[k - 1])
    BY <2>1
  <2>2. F[k] = IF k \in K THEN Append(t, s[k]) ELSE t
    <3>1. F[k] = KeptNext(F, k, s, K)
      BY <1>4
    <3>. QED BY <2>1, <3>1 DEF KeptNext
  <2>3. CASE k \notin K
    <3>1. Upto[k] = Upto[k - 1]
      BY <1>2, <2>0, <2>3
    <3>. QED BY <2>1, <2>5, <2>2, <2>3, <3>1
  <2>4. CASE k \in K
    <3>1. PICK m \in Nat : m = Len(t)
      OBVIOUS
    <3>2. PICK u \in Seq(V) : u = Append(t, s[k]) /\ Len(u) = m + 1
      <4>1. s[k] \in V
        BY <1>1
      <4>2. Append(t, s[k]) \in Seq(V) /\ Len(Append(t, s[k])) = m + 1
        BY <3>1, <4>1
      <4>. QED BY <4>2
    <3>3. (\A j \in 1 .. m : u[j] = t[j]) /\ u[m + 1] = s[k]
      BY <3>1, <3>2
    <3>4. PICK d : d = [j \in 1 .. (m + 1) |-> IF j = m + 1 THEN k ELSE e[j]]
      OBVIOUS
    <3>5. \A j \in 1 .. m : e[j] \in Upto[k - 1] /\ t[j] = s[e[j]]
      BY <2>5, <3>1 DEF Picks
    <3>6. \A j \in 1 .. m : d[j] = e[j] /\ e[j] \in K /\ e[j] <= k - 1 /\ e[j] \in 1 .. n
      BY <1>2, <2>0, <3>4, <3>5
    <3>7. d[m + 1] = k
      BY <3>4
    <3>8. \A j \in 1 .. m + 1 : d[j] \in Upto[k] /\ u[j] = s[d[j]]
      <4>1. k \in Upto[k] /\ k <= k
        BY <2>0, <2>4
      <4>2. \A j \in 1 .. m : e[j] \in Upto[k]
        BY <2>0, <3>6
      <4>3. ASSUME NEW j \in 1 .. m + 1 PROVE d[j] \in Upto[k] /\ u[j] = s[d[j]]
        <5>1. CASE j = m + 1
          BY <3>3, <3>7, <4>1, <5>1
        <5>2. CASE j \in 1 .. m
          BY <3>3, <3>5, <3>6, <4>2, <5>2
        <5>. QED BY <5>1, <5>2
      <4>. QED BY <4>3
    <3>9. \A i, j \in 1 .. m + 1 : i < j => d[i] < d[j]
      <4>1. \A i, j \in 1 .. m : i < j => e[i] < e[j]
        BY <2>5, <3>1 DEF Picks
      <4>2. ASSUME NEW i \in 1 .. m + 1, NEW j \in 1 .. m + 1, i < j PROVE d[i] < d[j]
        <5>1. i \in 1 .. m /\ d[i] = e[i] /\ e[i] <= k - 1 /\ e[i] \in 1 .. n
          BY <3>6, <4>2
        <5>2. CASE j = m + 1
          BY <3>7, <5>1, <5>2
        <5>3. CASE j \in 1 .. m
          BY <3>6, <4>1, <4>2, <5>1, <5>3
        <5>. QED BY <5>2, <5>3
      <4>. QED BY <4>2
    <3>10. \A i \in Upto[k] : \E j \in 1 .. m + 1 : d[j] = i
      <4>1. \A i \in Upto[k - 1] : \E j \in 1 .. m : e[j] = i
        BY <2>5, <3>1 DEF Picks
      <4>2. ASSUME NEW i \in Upto[k] PROVE i = k \/ i \in Upto[k - 1]
        BY <1>2, <2>0
      <4>3. 1 .. m \subseteq 1 .. m + 1 /\ m + 1 \in 1 .. m + 1
        OBVIOUS
      <4>. QED BY <3>6, <3>7, <4>1, <4>2, <4>3
    <3>11. Picks(d, u, s, Upto[k])
      <4>. QED BY <3>2, <3>8, <3>9, <3>10 DEF Picks
    <3>12. k \in 0 .. n /\ F[k] \in Seq(V) /\ Picks(d, F[k], s, Upto[k])
      BY <2>0, <2>2, <2>4, <3>2, <3>11
    <3>. QED BY <3>12
  <2>. QED BY <2>3, <2>4
<1>8. \A k \in 0 .. n : k \in B
  <2> HIDE DEF B
  <2>. QED BY <1>6, <1>7, PrefixInduction
<1>9. Upto[n] = K
  <2>1. Upto[n] = {i \in K : i <= n}
    BY <1>10
  <2>. QED BY <1>2, <2>1
<1>. QED
  BY <1>3, <1>8, <1>9

(* What is kept of a sequence that grew. *)
LEMMA KeptAppend ==
  ASSUME NEW V, NEW s \in Seq(V), NEW x \in V, NEW K, NEW J,
         \A i \in 1 .. Len(s) : i \in K <=> i \in J
  PROVE  Kept(Append(s, x), J) = IF Len(s) + 1 \in J THEN Append(Kept(s, K), x) ELSE Kept(s, K)
<1>1. PICK n \in Nat : n = Len(s)
  OBVIOUS
<1>2. PICK u \in Seq(V) : u = Append(s, x)
  <2>1. Append(s, x) \in Seq(V)
    OBVIOUS
  <2>. QED BY <2>1
<1>3. Len(u) = n + 1 /\ u[n + 1] = x /\ \A i \in 1 .. n : u[i] = s[i]
  BY <1>1, <1>2
<1>4. PICK F : KeptUpTo(F, n, s, K) /\ Kept(s, K) = F[n]
  BY <1>1, KeptIs
<1>5. PICK G : KeptUpTo(G, n + 1, u, J) /\ Kept(u, J) = G[n + 1]
  BY <1>3, KeptIs, n + 1 \in Nat
<1>6. F = [i \in 0 .. n |-> IF i = 0 THEN <<>> ELSE KeptNext(F, i, s, K)]
  BY <1>4 DEF KeptUpTo
<1>7. G = [i \in 0 .. n + 1 |-> IF i = 0 THEN <<>> ELSE KeptNext(G, i, u, J)]
  BY <1>5 DEF KeptUpTo
<1> DEFINE B == {k \in 0 .. n : F[k] = G[k]}
<1>8. 0 \in B
  BY <1>6, <1>7
<1>9. ASSUME NEW k \in 1 .. n, k - 1 \in B PROVE k \in B
  <2>0. k \in 0 .. n /\ k \in 0 .. n + 1 /\ k # 0
    OBVIOUS
  <2>1. F[k] = KeptNext(F, k, s, K)
    BY <1>6, <2>0
  <2>2. G[k] = KeptNext(G, k, u, J)
    BY <1>7, <2>0
  <2>3. F[k - 1] = G[k - 1] /\ u[k] = s[k] /\ (k \in K <=> k \in J)
    BY <1>1, <1>3, <1>9
  <2>4. F[k] = G[k]
    BY <2>1, <2>2, <2>3 DEF KeptNext
  <2>. QED BY <2>4
<1>10. \A k \in 0 .. n : k \in B
  <2> HIDE DEF B
  <2>. QED BY <1>8, <1>9, PrefixInduction
<1>11. F[n] = G[n]
  BY <1>10
<1>12. G[n + 1] = KeptNext(G, n + 1, u, J)
  BY <1>7, n + 1 \in 0 .. n + 1
<1>13. G[(n + 1) - 1] = G[n]
  OBVIOUS
<1>. QED
  BY <1>1, <1>2, <1>3, <1>4, <1>5, <1>11, <1>12, <1>13 DEF KeptNext

(* There are as many left as were chosen. *)
LEMMA PicksCount ==
  ASSUME NEW V, NEW t \in Seq(V), NEW s, NEW K, \A k \in K : k \in Int, NEW e, Picks(e, t, s, K)
  PROVE  IsFiniteSet(K) /\ Cardinality(K) = Len(t)
<1>1. PICK n \in Nat : n = Len(t)
  OBVIOUS
<1>2. PICK d : d = [j \in 1 .. n |-> e[j]]
  OBVIOUS
<1>3. \A j \in 1 .. n : e[j] \in K
  BY <1>1 DEF Picks
<1>4. d \in [1 .. n -> K]
  BY <1>2, <1>3
<1>5. \A k \in K : \E j \in 1 .. n : d[j] = k
  <2>1. \A k \in K : \E j \in 1 .. n : e[j] = k
    BY <1>1 DEF Picks
  <2>. QED BY <1>2, <2>1
<1>6. \A i, j \in 1 .. n : d[i] = d[j] => i = j
  <2>1. \A i, j \in 1 .. n : i < j => e[i] < e[j]
    BY <1>1 DEF Picks
  <2>2. ASSUME NEW i \in 1 .. n, NEW j \in 1 .. n, e[i] = e[j], i # j PROVE FALSE
    <3>1. i < j \/ j < i
      BY <2>2
    <3>2. e[i] < e[i]
      BY <2>1, <2>2, <3>1
    <3>. QED BY <1>3, <3>2
  <2>. QED BY <1>2, <2>2
<1>7. ExistsBijection(1 .. n, K)
  BY <1>4, <1>5, <1>6 DEF ExistsBijection, Bijection, Injection, Surjection, IsInjective
<1>8. IsFiniteSet(1 .. n) /\ Cardinality(1 .. n) = n
  BY FS_Interval
<1>. QED
  BY <1>1, <1>7, <1>8, FS_Bijection
=============================================================================
