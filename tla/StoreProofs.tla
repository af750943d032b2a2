---------------------------- MODULE StoreProofs -----------------------------
(***************************************************************************)
(* The inductive invariants of the components of Stores, for every value *)
(* of their constants: what each starts in, and that each of its steps     *)
(* keeps it.  PartsProofs makes theorems of them.                          *)
(***************************************************************************)
EXTENDS Stores, Lemmas
-----------------------------------------------------------------------------
(* The audit log: the rows, what was recorded, the damage, and whether it  *)
(* took the newest entry.                                                  *)
ChainedAt(t) == {i \in DOMAIN t : t[i].chained}

LEMMA AuditKept == \A s, K : Audit!Kept(s, K) = Kept(s, K)
  BY DEF Audit!Kept, Kept

LEMMA ChainedPicks ==
  ASSUME NEW V, NEW t \in Seq(V)
  PROVE  Audit!Chained(t) \in Seq(V) /\ \E e : Picks(e, Audit!Chained(t), t, ChainedAt(t))
<1>1. \A i \in ChainedAt(t) : i \in 1 .. Len(t)
  BY DEF ChainedAt
<1>2. Audit!Chained(t) = Kept(t, ChainedAt(t))
  BY AuditKept DEF Audit!Chained, ChainedAt
<1>. QED BY <1>1, <1>2, KeptPicks

LEMMA ChainedAppend ==
  ASSUME NEW V, NEW t \in Seq(V), NEW x \in V, x.chained
  PROVE  Audit!Chained(Append(t, x)) = Append(Audit!Chained(t), x)
<1>1. PICK n \in Nat : n = Len(t)
  OBVIOUS
<1>2. PICK u \in Seq(V) : u = Append(t, x)
  <2>1. Append(t, x) \in Seq(V)
    OBVIOUS
  <2>. QED BY <2>1, Zenon
<1>3. Len(u) = n + 1 /\ u[n + 1] = x /\ \A i \in 1 .. n : u[i] = t[i]
  BY <1>1, <1>2
<1>4. DOMAIN u = 1 .. n + 1 /\ DOMAIN t = 1 .. n
  BY <1>1, <1>3
<1>5. \A i \in 1 .. n : i \in ChainedAt(t) <=> i \in ChainedAt(u)
  BY <1>3, <1>4 DEF ChainedAt
<1>6. n + 1 \in ChainedAt(u)
  BY <1>3, <1>4 DEF ChainedAt
<1>7. Kept(u, ChainedAt(u)) = Append(Kept(t, ChainedAt(t)), x)
  BY <1>1, <1>2, <1>5, <1>6, KeptAppend
<1>8. Audit!Chained(t) = Kept(t, ChainedAt(t)) /\ Audit!Chained(u) = Kept(u, ChainedAt(u))
  BY AuditKept DEF Audit!Chained, ChainedAt
<1>. QED BY <1>2, <1>7, <1>8

LEMMA ChainedLen ==
  ASSUME NEW V, NEW t \in Seq(V)
  PROVE  /\ IsFiniteSet(ChainedAt(t)) /\ Len(Audit!Chained(t)) \in Nat
         /\ Cardinality(ChainedAt(t)) = Len(Audit!Chained(t))
<1>1. \A i \in ChainedAt(t) : i \in Int
  BY DEF ChainedAt
<1>2. Audit!Chained(t) \in Seq(V)
  BY ChainedPicks
<1>. QED BY <1>1, <1>2, ChainedPicks, PicksCount

(* The table is a sequence of what it holds, and the rows that are chained *)
(* are rows.                                                               *)
LEMMA AuditRowsAre ==
  ASSUME Audit!RowsStay
  PROVE  /\ v1 \in Seq(Audit!ToSet(v1)) /\ Len(v1) \in Nat /\ DOMAIN v1 = 1 .. Len(v1)
         /\ Audit!Chained(v1) \in Seq(Audit!ToSet(v1))
         /\ \A i \in DOMAIN Audit!Chained(v1) : \E k \in ChainedAt(v1) : Audit!Chained(v1)[i] = v1[k]
<1>1. v1 \in Seq(Audit!ToSet(v1))
  BY DEF Audit!RowsStay
<1>2. PICK e : Picks(e, Audit!Chained(v1), v1, ChainedAt(v1))
  BY <1>1, ChainedPicks
<1>3. Audit!Chained(v1) \in Seq(Audit!ToSet(v1))
  BY <1>1, ChainedPicks
<1>4. \A i \in 1 .. Len(Audit!Chained(v1)) : e[i] \in ChainedAt(v1) /\ Audit!Chained(v1)[i] = v1[e[i]]
  BY <1>2 DEF Picks
<1>5. DOMAIN Audit!Chained(v1) = 1 .. Len(Audit!Chained(v1))
  BY <1>3
<1>6. Len(v1) \in Nat /\ DOMAIN v1 = 1 .. Len(v1)
  BY <1>1
<1>. QED BY <1>1, <1>3, <1>4, <1>5, <1>6

(* Both verifications find the same, since a hash says which number it was *)
(* computed from.                                                          *)
LEMMA VerificationsAgree ==
  ASSUME Audit!RowsStay
  PROVE  Audit!VerifyAuditChain(v1) <=> Audit!VerifyChain(Audit!Chained(v1))
<1>1. PICK c : c = Audit!Chained(v1)
  OBVIOUS
<1>2. \A i \in DOMAIN c : \E k \in ChainedAt(v1) : c[i] = v1[k]
  BY <1>1, AuditRowsAre
<1>3. ASSUME NEW i \in DOMAIN c
      PROVE  \E b \in AuditBodies : c[i].hash = <<c[i].prevHash, c[i].seq, b>>
  <2>1. PICK k \in DOMAIN v1 : v1[k].chained /\ c[i] = v1[k]
    BY <1>2, <1>3 DEF ChainedAt
  <2>. QED BY <2>1 DEF Audit!RowsStay, Audit!HashEntry
<1>4. ASSUME Audit!VerifyAuditChain(v1), NEW i \in DOMAIN c
      PROVE  /\ c[i].seq = i - 1 /\ c[i].prevHash = Audit!Before(c, i)
             /\ c[i].hash = Audit!HashEntry(Audit!Before(c, i), c[i].seq, c[i].body)
  <2>1. /\ c[i].prevHash = Audit!Before(c, i)
        /\ c[i].hash = <<Audit!Before(c, i), i - 1, c[i].body>>
    BY <1>1, <1>4 DEF Audit!VerifyAuditChain, Audit!HashEntry
  <2>2. PICK b : c[i].hash = <<c[i].prevHash, c[i].seq, b>>
    BY <1>3
  <2>3. c[i].seq = i - 1
    BY <2>1, <2>2
  <2>. QED BY <2>1, <2>3 DEF Audit!HashEntry
<1>5. ASSUME Audit!VerifyChain(c), NEW i \in DOMAIN c
      PROVE  /\ c[i].prevHash = Audit!Before(c, i)
             /\ c[i].hash = Audit!HashEntry(Audit!Before(c, i), i - 1, c[i].body)
  BY <1>5 DEF Audit!VerifyChain
<1>. QED
  BY <1>1, <1>4, <1>5 DEF Audit!VerifyAuditChain, Audit!VerifyChain

(* What verifies is what was recorded, if nothing is missing. *)
LEMMA WholeVerifies ==
  ASSUME Audit!RowsStay, Audit!Whole, v2 \in Seq(AuditBodies), Audit!VerifyChain(Audit!Chained(v1))
  PROVE  Audit!Stored = v2
<1>1. PICK c : c = Audit!Chained(v1)
  OBVIOUS
<1>2. c \in Seq(Audit!ToSet(v1)) /\ \A i \in DOMAIN c : \E k \in ChainedAt(v1) : c[i] = v1[k]
  BY <1>1, AuditRowsAre
<1>3. PICK n \in Nat, m \in Nat : n = Len(c) /\ m = Len(v2)
  BY <1>2
<1>4. DOMAIN c = 1 .. n /\ DOMAIN v2 = 1 .. m
  BY <1>2, <1>3
<1>5. ASSUME NEW i \in 1 .. n PROVE i \in 1 .. m /\ c[i].body = v2[i]
  <2>1. PICK k \in DOMAIN v1 : v1[k].chained /\ c[i] = v1[k]
    BY <1>2, <1>4 DEF ChainedAt
  <2>2. c[i].seq = i - 1 /\ c[i].prevHash = Audit!Before(c, i)
        /\ c[i].hash = <<Audit!Before(c, i), c[i].seq, c[i].body>>
    BY <1>1, <1>4 DEF Audit!VerifyChain, Audit!HashEntry
  <2>3. c[i].seq < m /\ c[i].hash = <<c[i].prevHash, c[i].seq, v2[c[i].seq + 1]>>
    BY <1>3, <2>1 DEF Audit!Whole, Audit!HashEntry
  <2>4. (i - 1) + 1 = i /\ i \in 1 .. m
    BY <2>2, <2>3
  <2>. QED BY <2>2, <2>3, <2>4
<1>6. n = m
  <2>1. n <= m
    BY <1>5
  <2>2. ASSUME n < m PROVE FALSE
    <3>1. m - 1 \in 0 .. Len(v2) - 1
      BY <1>3, <2>2
    <3>2. PICK k \in DOMAIN v1 : v1[k].chained /\ v1[k].seq = m - 1
      BY <3>1 DEF Audit!Whole
    <3>3. v1 \in Seq(Audit!ToSet(v1)) /\ k \in ChainedAt(v1)
      BY <3>2 DEF Audit!RowsStay, ChainedAt
    <3>4. PICK e : Picks(e, c, v1, ChainedAt(v1))
      BY <1>1, <3>3, ChainedPicks
    <3>5. PICK j \in 1 .. n : e[j] = k /\ c[j] = v1[k]
      BY <1>3, <3>3, <3>4 DEF Picks
    <3>6. c[j].seq = j - 1
      BY <1>1, <1>4 DEF Audit!VerifyChain
    <3>. QED BY <2>2, <3>2, <3>5, <3>6
  <2>. QED BY <2>1, <2>2
<1>7. Audit!Stored = [i \in 1 .. n |-> c[i].body]
  BY <1>1, <1>4 DEF Audit!Stored
<1>8. v2 = [i \in 1 .. m |-> v2[i]]
  BY <1>4
<1>. QED
  BY <1>5, <1>6, <1>7, <1>8

(* Nothing verifies across a gap: a chain of numbers has no room for it.   *)
LEMMA GapVerifies ==
  ASSUME Audit!RowsStay, Audit!Gap, Audit!VerifyChain(Audit!Chained(v1))
  PROVE  FALSE
<1>1. PICK c : c = Audit!Chained(v1)
  OBVIOUS
<1>2. c \in Seq(Audit!ToSet(v1)) /\ v1 \in Seq(Audit!ToSet(v1)) /\ DOMAIN v1 = 1 .. Len(v1) /\ Len(v1) \in Nat
  BY <1>1, AuditRowsAre
<1>3. PICK i \in DOMAIN v1 : v1[i].chained /\ \E s \in 0 .. v1[i].seq - 1 : Cardinality(Audit!Numbered(s)) <= s
  BY Zenon DEF Audit!Gap, Audit!Cardinality, Cardinality
<1>4. v1[i].seq \in Nat
  BY <1>3 DEF Audit!RowsStay
<1>5. PICK s \in 0 .. v1[i].seq - 1 : Cardinality(Audit!Numbered(s)) <= s
  BY <1>3
<1>6. s \in Nat /\ s < v1[i].seq
  BY <1>4, <1>5
<1>7. PICK e : Picks(e, c, v1, ChainedAt(v1))
  BY <1>1, <1>2, ChainedPicks
<1>8. \A j \in 1 .. Len(c) : c[j].seq = j - 1 /\ e[j] \in ChainedAt(v1) /\ c[j] = v1[e[j]]
  <2>1. DOMAIN c = 1 .. Len(c)
    BY <1>2
  <2>2. \A j \in 1 .. Len(c) : c[j].seq = j - 1
    BY <1>1, <2>1 DEF Audit!VerifyChain
  <2>. QED BY <1>7, <2>2 DEF Picks
<1>9. PICK k \in 1 .. Len(c) : e[k] = i
  BY <1>3, <1>7 DEF Picks, ChainedAt
<1>10. Len(c) \in Nat /\ s + 1 < k
  <2>1. v1[i].seq = k - 1 /\ Len(c) \in Nat
    BY <1>2, <1>8, <1>9
  <2>. QED BY <1>6, <2>1
<1>11. PICK f : f = [j \in 1 .. s + 1 |-> e[j]]
  BY Zenon
<1>12. \A j \in 1 .. s + 1 : j \in 1 .. Len(c)
  BY <1>6, <1>9, <1>10
<1>13. ASSUME NEW j \in 1 .. s + 1 PROVE f[j] \in Audit!Numbered(s)
  <2>1. e[j] \in ChainedAt(v1) /\ v1[e[j]].seq = j - 1
    BY <1>8, <1>12, Zenon
  <2>2. j - 1 <= s
    BY <1>6
  <2>. QED BY <1>11, <2>1, <2>2 DEF Audit!Numbered, ChainedAt
<1>14. \A x, y \in 1 .. s + 1 : f[x] = f[y] => x = y
  <2>1. ASSUME NEW x \in 1 .. s + 1, NEW y \in 1 .. s + 1, f[x] = f[y] PROVE x = y
    <3>1. e[x] = e[y]
      BY <1>11, <2>1
    <3>2. v1[e[x]].seq = x - 1 /\ v1[e[y]].seq = y - 1
      BY <1>8, <1>12, Zenon
    <3>. QED BY <1>6, <3>1, <3>2
  <2>. QED BY <2>1
<1>15. f \in Injection(1 .. s + 1, Audit!Numbered(s))
  <2>1. f \in [1 .. s + 1 -> Audit!Numbered(s)]
    BY <1>11, <1>13
  <2>. QED BY <1>14, <2>1 DEF Injection, IsInjective
<1>16. IsFiniteSet(Audit!Numbered(s))
  <2>1. IsFiniteSet(1 .. Len(v1)) /\ Audit!Numbered(s) \subseteq 1 .. Len(v1)
    BY <1>2, FS_Interval DEF Audit!Numbered
  <2>. QED BY <2>1, FS_Subset
<1>17. Cardinality(1 .. s + 1) <= Cardinality(Audit!Numbered(s))
  BY <1>15, <1>16, FS_Injection
<1>18. Cardinality(1 .. s + 1) = s + 1
  BY <1>6, FS_Interval
<1>19. Cardinality(Audit!Numbered(s)) \in Nat
  BY <1>16, FS_CardinalityType
<1>. QED
  BY <1>5, <1>6, <1>17, <1>18, <1>19

(* A table is a sequence of what it holds, whatever it is a sequence of. *)
LEMMA TableOf ==
  ASSUME NEW V, NEW t \in Seq(V)
  PROVE  t \in Seq(Audit!ToSet(t))
<1>1. PICK n \in Nat : n = Len(t)
  OBVIOUS
<1>2. DOMAIN t = 1 .. n /\ t = [i \in 1 .. n |-> t[i]]
  BY <1>1
<1>3. \A i \in 1 .. n : t[i] \in Audit!ToSet(t)
  BY <1>2 DEF Audit!ToSet
<1>. QED BY <1>2, <1>3

(* At first nothing is recorded: the rows of a table from before chaining. *)
LEMMA AuditStarts == Audit!Init => Audit!AuditInv
<1>1. SUFFICES ASSUME Audit!Init PROVE Audit!AuditInv
  OBVIOUS
<1>2. AuditLegacy \in Nat /\ AuditRows \in Nat /\ AuditDamage \in Nat
  BY AuditAssumption
<1>3. PICK n \in 0 .. AuditLegacy : v1 = [k \in 1 .. n |-> Audit!Unchained]
  BY <1>1 DEF Audit!Init
<1>4. v1 \in Seq({Audit!Unchained}) /\ Len(v1) = n /\ DOMAIN v1 = 1 .. n
  BY <1>3
<1>5. ChainedAt(v1) = {}
  BY <1>3 DEF ChainedAt, Audit!Unchained
<1>6. Len(Audit!Chained(v1)) = 0 /\ Audit!Chained(v1) \in Seq({Audit!Unchained})
  BY <1>4, <1>5, ChainedLen, ChainedPicks, FS_EmptySet, Zenon
<1>7. v2 = <<>> /\ v3 = 0 /\ v4 = FALSE
  BY <1>1 DEF Audit!Init
<1>8. Audit!VerifyChain(Audit!Chained(v1))
  <2>1. DOMAIN Audit!Chained(v1) = {}
    BY <1>6
  <2>. QED BY <2>1 DEF Audit!VerifyChain
<1>9. Audit!TypeOk
  <2>1. v2 \in Seq(AuditBodies) /\ v3 \in 0 .. AuditDamage /\ v4 \in BOOLEAN
    <3>1. <<>> \in Seq(AuditBodies)
      OBVIOUS
    <3>2. v2 \in Seq(AuditBodies)
      BY <1>7, <3>1
    <3>3. v3 \in 0 .. AuditDamage
      BY <1>2, <1>7
    <3>4. v4 \in BOOLEAN
      BY <1>7, Zenon
    <3>. QED BY <3>2, <3>3, <3>4
  <2>2. Len(v1) <= AuditRows + AuditLegacy
    BY <1>2, <1>3, <1>4
  <2>. QED BY <2>1, <2>2 DEF Audit!TypeOk
<1>10. Audit!RowsStay
  <2>1. v1 \in Seq(Audit!ToSet(v1))
    BY <1>4, TableOf
  <2>2. Len(v2) = 0
    BY <1>7
  <2>3. Len(v1) <= Len(v2) + AuditLegacy /\ Len(v2) <= AuditRows
    BY <1>2, <1>3, <1>4, <2>2
  <2>4. \A i \in DOMAIN v1 : v1[i] = Audit!Unchained
    BY <1>3
  <2>5. /\ DOMAIN Audit!Unchained = {"chained", "seq", "body", "prevHash", "hash"}
        /\ Audit!Unchained.chained = FALSE /\ Audit!Unchained.seq = 0
    BY DEF Audit!Unchained
  <2>6. ASSUME NEW i \in DOMAIN v1
        PROVE  /\ DOMAIN v1[i] = {"chained", "seq", "body", "prevHash", "hash"}
               /\ v1[i].chained \in BOOLEAN /\ ~v1[i].chained /\ v1[i].seq = 0
    BY <2>4, <2>5, Zenon
  <2>. QED BY <2>1, <2>3, <2>6 DEF Audit!RowsStay
<1>11. Audit!Whole
  BY <1>3, <1>4, <1>7 DEF Audit!Whole, Audit!Unchained
<1>. QED BY <1>8, <1>9, <1>10, <1>11 DEF Audit!AuditInv

(* As many rows are chained as were recorded, if nothing is missing. *)
LEMMA WholeCount ==
  ASSUME Audit!RowsStay, Audit!Whole, v2 \in Seq(AuditBodies)
  PROVE  Len(Audit!Chained(v1)) = Len(v2)
<1>1. PICK m \in Nat : m = Len(v2)
  OBVIOUS
<1>2. IsFiniteSet(ChainedAt(v1)) /\ Cardinality(ChainedAt(v1)) = Len(Audit!Chained(v1))
  BY ChainedLen DEF Audit!RowsStay
<1>3. PICK f : f = [i \in ChainedAt(v1) |-> v1[i].seq]
  BY Zenon
<1>4. ASSUME NEW i \in ChainedAt(v1) PROVE f[i] \in 0 .. m - 1
  <2>1. i \in DOMAIN v1 /\ v1[i].chained /\ f[i] = v1[i].seq
    BY <1>3 DEF ChainedAt
  <2>2. v1[i].seq \in Nat /\ v1[i].seq < m
    BY <1>1, <2>1 DEF Audit!RowsStay, Audit!Whole
  <2>. QED BY <2>1, <2>2
<1>5. \A i, j \in ChainedAt(v1) : f[i] = f[j] => i = j
  BY <1>3 DEF ChainedAt, Audit!Whole
<1>6. \A q \in 0 .. m - 1 : \E i \in ChainedAt(v1) : f[i] = q
  BY <1>1, <1>3 DEF ChainedAt, Audit!Whole
<1>7. f \in Bijection(ChainedAt(v1), 0 .. m - 1)
  <2>1. f \in [ChainedAt(v1) -> 0 .. m - 1]
    BY <1>3, <1>4
  <2>. QED BY <1>5, <1>6, <2>1 DEF Bijection, Injection, Surjection, IsInjective
<1>8. Cardinality(ChainedAt(v1)) = Cardinality(0 .. m - 1)
  BY <1>2, <1>7, FS_Bijection DEF ExistsBijection
<1>9. Cardinality(0 .. m - 1) = m
  BY FS_Interval
<1>. QED BY <1>1, <1>2, <1>8, <1>9

LEMMA NumberedFinite ==
  ASSUME Audit!RowsStay, NEW s
  PROVE  /\ IsFiniteSet(Audit!Numbered(s)) /\ Cardinality(Audit!Numbered(s)) \in Nat
         /\ Audit!Numbered(s) \subseteq ChainedAt(v1)
<1>1. IsFiniteSet(ChainedAt(v1))
  BY ChainedLen DEF Audit!RowsStay
<1>2. Audit!Numbered(s) \subseteq ChainedAt(v1)
  BY DEF Audit!Numbered, ChainedAt
<1>. QED BY <1>1, <1>2, FS_Subset, FS_CardinalityType

(* An entry is recorded. *)
LEMMA EntryIs ==
  ASSUME NEW body
  PROVE  /\ DOMAIN Audit!Entry(body) = {"chained", "seq", "body", "prevHash", "hash"}
         /\ Audit!Entry(body).chained = TRUE /\ Audit!Entry(body).body = body
         /\ Audit!Entry(body).seq = Len(Audit!Chained(v1))
         /\ Audit!Entry(body).prevHash = Audit!HeadHash(v1)
         /\ Audit!Entry(body).hash = Audit!HashEntry(Audit!HeadHash(v1), Len(Audit!Chained(v1)), body)
  BY DEF Audit!Entry, Audit!HeadSeq

LEMMA RecordChains ==
  ASSUME Audit!AuditInv, NEW body \in AuditBodies, Audit!Record(body), v3 = 0
  PROVE  Audit!VerifyChain(Audit!Chained(v1'))
<1>1. Audit!RowsStay /\ Audit!VerifyChain(Audit!Chained(v1))
  BY DEF Audit!AuditInv
<1>2. PICK c : c = Audit!Chained(v1)
  OBVIOUS
<1>3. PICK e : e = Audit!Entry(body)
  OBVIOUS
<1>4. PICK V : V = Audit!ToSet(v1) \cup {e}
  BY Zenon
<1>5. v1 \in Seq(V) /\ c \in Seq(V) /\ e \in V
  BY <1>1, <1>2, <1>4, AuditRowsAre
<1>6. PICK n \in Nat : n = Len(c)
  BY <1>5
<1>7. PICK d : d = Append(c, e)
  BY Zenon
<1>8. v1' = Append(v1, e)
  BY <1>3 DEF Audit!Record
<1>9. Audit!Chained(v1') = d
  BY <1>2, <1>3, <1>5, <1>7, <1>8, ChainedAppend, EntryIs, Zenon
<1>10. DOMAIN d = 1 .. n + 1 /\ d[n + 1] = e /\ DOMAIN c = 1 .. n /\ \A i \in 1 .. n : d[i] = c[i]
  BY <1>5, <1>6, <1>7
<1>11. \A i \in 1 .. n : Audit!Before(d, i) = Audit!Before(c, i)
  <2>1. \A i \in 1 .. n : i = 1 \/ i - 1 \in 1 .. n
    OBVIOUS
  <2>. QED BY <1>10, <2>1 DEF Audit!Before
<1>12. Audit!Before(d, n + 1) = Audit!HeadHash(v1)
  <2>1. c = <<>> <=> n = 0
    BY <1>5, <1>6
  <2>2. n # 0 => n \in 1 .. n /\ n + 1 # 1 /\ (n + 1) - 1 = n
    OBVIOUS
  <2>. QED BY <1>2, <1>6, <1>10, <2>1, <2>2 DEF Audit!Before, Audit!HeadHash, Audit!Last
<1>13. ASSUME NEW i \in 1 .. n + 1
       PROVE  /\ d[i].seq = i - 1 /\ d[i].prevHash = Audit!Before(d, i)
              /\ d[i].hash = Audit!HashEntry(Audit!Before(d, i), d[i].seq, d[i].body)
  <2>1. CASE i \in 1 .. n
    BY <1>1, <1>2, <1>10, <1>11, <2>1 DEF Audit!VerifyChain
  <2>2. CASE i = n + 1
    <3>1. /\ e.seq = n /\ e.prevHash = Audit!HeadHash(v1) /\ e.body = body
          /\ e.hash = Audit!HashEntry(Audit!HeadHash(v1), n, body)
      BY <1>2, <1>3, <1>6, EntryIs, Zenon
    <3>. QED BY <1>10, <1>12, <2>2, <3>1
  <2>. QED BY <2>1, <2>2
<1>. QED BY <1>9, <1>10, <1>13 DEF Audit!VerifyChain

LEMMA RecordRows ==
  ASSUME Audit!AuditInv, NEW body \in AuditBodies, Audit!Record(body)
  PROVE  /\ Audit!RowsStay' /\ Audit!TypeOk'
         /\ Len(v1) \in Nat /\ DOMAIN v1 = 1 .. Len(v1) /\ DOMAIN v1' = 1 .. Len(v1) + 1
         /\ v1'[Len(v1) + 1] = Audit!Entry(body) /\ \A i \in 1 .. Len(v1) : v1'[i] = v1[i]
<1>1. Audit!RowsStay /\ Audit!TypeOk
  BY DEF Audit!AuditInv
<1>2. PICK e : e = Audit!Entry(body)
  OBVIOUS
<1>3. v1' = Append(v1, e) /\ v2' = Append(v2, body) /\ v3' = v3 /\ v4' = v4 /\ Len(v2) < AuditRows
  BY <1>2 DEF Audit!Record
<1>4. PICK V : V = Audit!ToSet(v1) \cup {e}
  BY Zenon
<1>5. v1 \in Seq(V) /\ e \in V /\ v2 \in Seq(AuditBodies)
  BY <1>1, <1>4, AuditRowsAre DEF Audit!TypeOk
<1>6. PICK n \in Nat : n = Len(v1) /\ DOMAIN v1 = 1 .. n
  BY <1>5
<1>7. v1' \in Seq(V) /\ DOMAIN v1' = 1 .. n + 1 /\ Len(v1') = n + 1 /\ v1'[n + 1] = e
      /\ \A i \in 1 .. n : v1'[i] = v1[i]
  BY <1>3, <1>5, <1>6
<1>8. PICK m \in Nat : m = Len(v2)
  BY <1>5
<1>9. v2' \in Seq(AuditBodies) /\ Len(v2') = m + 1
  BY <1>3, <1>5, <1>8
<1>10. AuditRows \in Nat /\ AuditLegacy \in Nat /\ n <= m + AuditLegacy /\ m < AuditRows
  BY <1>1, <1>3, <1>6, <1>8, AuditAssumption DEF Audit!RowsStay
<1>11. n + 1 <= (m + 1) + AuditLegacy /\ m + 1 <= AuditRows /\ n + 1 <= AuditRows + AuditLegacy
  BY <1>10
<1>12. Audit!TypeOk'
  BY <1>1, <1>3, <1>7, <1>9, <1>11 DEF Audit!TypeOk
<1>13. v1' \in Seq(Audit!ToSet(v1'))
  BY <1>7, TableOf
<1>14. ASSUME NEW i \in 1 .. n + 1
       PROVE  /\ DOMAIN v1'[i] = {"chained", "seq", "body", "prevHash", "hash"}
              /\ v1'[i].chained \in BOOLEAN /\ v1'[i].seq \in Nat /\ (~v1'[i].chained => v1'[i].seq = 0)
              /\ v1'[i].chained =>
                   \E b \in AuditBodies : v1'[i].hash = Audit!HashEntry(v1'[i].prevHash, v1'[i].seq, b)
  <2>1. CASE i \in 1 .. n
    BY <1>1, <1>6, <1>7, <2>1 DEF Audit!RowsStay
  <2>2. CASE i = n + 1
    <3>1. Len(Audit!Chained(v1)) \in Nat
      BY <1>5, ChainedLen
    <3>2. /\ DOMAIN e = {"chained", "seq", "body", "prevHash", "hash"}
          /\ e.chained = TRUE /\ e.seq \in Nat
          /\ e.hash = Audit!HashEntry(e.prevHash, e.seq, body)
      BY <1>2, <3>1, EntryIs, Zenon
    <3>. QED BY <1>7, <2>2, <3>2, Zenon
  <2>. QED BY <2>1, <2>2
<1>15. Audit!RowsStay'
  BY <1>7, <1>9, <1>11, <1>13, <1>14 DEF Audit!RowsStay, Audit!HashEntry
<1>. QED BY <1>2, <1>6, <1>7, <1>12, <1>15

LEMMA RecordWhole ==
  ASSUME Audit!AuditInv, NEW body \in AuditBodies, Audit!Record(body), Audit!Whole
  PROVE  Audit!Whole'
<1>1. Audit!RowsStay /\ v2 \in Seq(AuditBodies)
  BY DEF Audit!AuditInv, Audit!TypeOk
<1>2. PICK e : e = Audit!Entry(body)
  OBVIOUS
<1>3. PICK m \in Nat, n \in Nat : m = Len(v2) /\ n = Len(v1)
  <2>1. Len(v1) \in Nat /\ Len(v2) \in Nat
    BY <1>1, AuditRowsAre
  <2>. QED BY <2>1
<1>4. Len(Audit!Chained(v1)) = m
  BY <1>1, <1>3, WholeCount
<1>5. /\ DOMAIN v1 = 1 .. n /\ DOMAIN v1' = 1 .. n + 1 /\ v1'[n + 1] = e
      /\ \A i \in 1 .. n : v1'[i] = v1[i]
  BY <1>2, <1>3, RecordRows
<1>6. v2' = Append(v2, body)
  BY DEF Audit!Record
<1>7. Len(v2') = m + 1 /\ v2'[m + 1] = body /\ \A k \in 1 .. m : v2'[k] = v2[k]
  BY <1>1, <1>3, <1>6
<1>8. ASSUME NEW i \in 1 .. n, v1[i].chained
      PROVE  /\ v1[i].seq \in 0 .. m - 1
             /\ v1[i].hash = Audit!HashEntry(v1[i].prevHash, v1[i].seq, v2'[v1[i].seq + 1])
  <2>1. v1[i].seq \in Nat /\ v1[i].seq < m
    BY <1>1, <1>3, <1>5, <1>8, Zenon DEF Audit!RowsStay, Audit!Whole
  <2>2. v1[i].seq + 1 \in 1 .. m
    BY <2>1
  <2>3. v1[i].hash = Audit!HashEntry(v1[i].prevHash, v1[i].seq, v2[v1[i].seq + 1])
    BY <1>5, <1>8 DEF Audit!Whole
  <2>. QED BY <1>7, <2>1, <2>2, <2>3
<1>9. e.chained /\ e.seq = m /\ e.hash = Audit!HashEntry(e.prevHash, m, body)
  BY <1>2, <1>4, EntryIs, Zenon
<1>10. \A i \in 1 .. n + 1 : i \in 1 .. n \/ i = n + 1
  OBVIOUS
<1>11. \A i \in 1 .. n + 1 : v1'[i].chained =>
         /\ v1'[i].seq < m + 1
         /\ v1'[i].hash = Audit!HashEntry(v1'[i].prevHash, v1'[i].seq, v2'[v1'[i].seq + 1])
  BY <1>5, <1>7, <1>8, <1>9, <1>10
<1>12. \A i, j \in 1 .. n + 1 : v1'[i].chained /\ v1'[j].chained /\ v1'[i].seq = v1'[j].seq => i = j
  <2>1. \A i, j \in 1 .. n : v1[i].chained /\ v1[j].chained /\ v1[i].seq = v1[j].seq => i = j
    BY <1>5, Zenon DEF Audit!Whole
  <2>2. \A i \in 1 .. n : v1[i].chained => v1[i].seq # m
    BY <1>8
  <2>. QED BY <1>5, <1>9, <1>10, <2>1, <2>2
<1>13. \A q \in 0 .. (m + 1) - 1 : \E i \in 1 .. n + 1 : v1'[i].chained /\ v1'[i].seq = q
  <2>1. ASSUME NEW q \in 0 .. (m + 1) - 1
        PROVE  \E i \in 1 .. n + 1 : v1'[i].chained /\ v1'[i].seq = q
    <3>1. CASE q = m
      BY <1>5, <1>9, <3>1, n + 1 \in 1 .. n + 1
    <3>2. CASE q # m
      <4>1. q \in 0 .. m - 1
        BY <3>2
      <4>2. PICK i \in 1 .. n : v1[i].chained /\ v1[i].seq = q
        BY <1>3, <1>5, <4>1 DEF Audit!Whole
      <4>. QED BY <1>5, <4>2, i \in 1 .. n + 1
    <3>. QED BY <3>1, <3>2
  <2>. QED BY <2>1
<1>14. /\ \A i \in DOMAIN v1' : v1'[i].chained =>
            /\ v1'[i].seq < Len(v2')
            /\ v1'[i].hash = Audit!HashEntry(v1'[i].prevHash, v1'[i].seq, v2'[v1'[i].seq + 1])
       /\ \A i, j \in DOMAIN v1' : v1'[i].chained /\ v1'[j].chained /\ v1'[i].seq = v1'[j].seq => i = j
       /\ \A q \in 0 .. Len(v2') - 1 : \E i \in DOMAIN v1' : v1'[i].chained /\ v1'[i].seq = q
  <2>1. DOMAIN v1' = 1 .. n + 1 /\ Len(v2') = m + 1
    BY <1>5, <1>7
  <2>2. \A i \in DOMAIN v1' : v1'[i].chained =>
          /\ v1'[i].seq < Len(v2')
          /\ v1'[i].hash = Audit!HashEntry(v1'[i].prevHash, v1'[i].seq, v2'[v1'[i].seq + 1])
    BY ONLY <2>1, <1>11
  <2>3. \A i, j \in DOMAIN v1' : v1'[i].chained /\ v1'[j].chained /\ v1'[i].seq = v1'[j].seq => i = j
    BY ONLY <2>1, <1>12
  <2>4. \A q \in 0 .. Len(v2') - 1 : \E i \in DOMAIN v1' : v1'[i].chained /\ v1'[i].seq = q
    BY ONLY Zenon, <2>1, <1>13
  <2>. QED BY <2>2, <2>3, <2>4
<1>. QED BY <1>14 DEF Audit!Whole, Audit!HashEntry

LEMMA RecordGap ==
  ASSUME Audit!AuditInv, NEW body \in AuditBodies, Audit!Record(body), Audit!Gap
  PROVE  Audit!Gap'
<1>1. Audit!RowsStay
  BY DEF Audit!AuditInv
<1>2. PICK e : e = Audit!Entry(body)
  OBVIOUS
<1>3. PICK n \in Nat : n = Len(v1)
  BY <1>1, AuditRowsAre, Zenon
<1>4. /\ DOMAIN v1 = 1 .. n /\ DOMAIN v1' = 1 .. n + 1 /\ v1'[n + 1] = e
      /\ \A i \in 1 .. n : v1'[i] = v1[i]
  BY <1>2, <1>3, RecordRows
<1>5. PICK i \in 1 .. n : v1[i].chained /\ \E s \in 0 .. v1[i].seq - 1 : Cardinality(Audit!Numbered(s)) <= s
  BY <1>4, Zenon DEF Audit!Gap, Audit!Cardinality, Cardinality
<1>6. PICK s \in 0 .. v1[i].seq - 1 : Cardinality(Audit!Numbered(s)) <= s
  BY <1>5
<1>7. v1[i].seq \in Nat /\ s \in Nat /\ s < v1[i].seq
  <2>1. v1[i].seq \in Nat
    BY <1>1, <1>4 DEF Audit!RowsStay
  <2>. QED BY <1>6, <2>1
<1>8. PICK c \in Nat : c = Len(Audit!Chained(v1)) /\ c = Cardinality(ChainedAt(v1)) /\ IsFiniteSet(ChainedAt(v1))
  BY <1>1, ChainedLen DEF Audit!RowsStay
<1>9. e.chained /\ e.seq = c
  BY <1>2, <1>8, EntryIs, Zenon
<1>10. PICK N : N = Audit!Numbered(s)
  OBVIOUS
<1>11. IsFiniteSet(N) /\ Cardinality(N) \in Nat /\ N \subseteq ChainedAt(v1) /\ Cardinality(N) <= s
  BY <1>1, <1>6, <1>10, NumberedFinite
<1>12. N = {j \in 1 .. n : v1[j].chained /\ v1[j].seq <= s}
  BY <1>4, <1>10 DEF Audit!Numbered
<1>13. PICK M : M = {j \in 1 .. n + 1 : v1'[j].chained /\ v1'[j].seq <= s}
  BY Zenon
<1>14. \A j \in M : j \in N \/ (j = n + 1 /\ c <= s)
  <2>1. \A j \in 1 .. n + 1 : j \in 1 .. n \/ j = n + 1
    OBVIOUS
  <2>. QED BY <1>4, <1>9, <1>12, <1>13, <2>1
<1>15. IsFiniteSet(M) /\ Cardinality(M) <= s
  <2>1. CASE c <= s
    <3>1. i \in ChainedAt(v1) /\ i \notin N
      BY <1>4, <1>5, <1>7, <1>12 DEF ChainedAt
    <3>2. N \subseteq ChainedAt(v1) \ {i} /\ IsFiniteSet(ChainedAt(v1) \ {i})
      BY <1>8, <1>11, <3>1, FS_RemoveElement
    <3>3. Cardinality(ChainedAt(v1) \ {i}) = c - 1
      BY <1>8, <3>1, FS_RemoveElement, Zenon
    <3>4. Cardinality(N) <= c - 1
      BY <3>2, <3>3, FS_Subset
    <3>5. IsFiniteSet(N \cup {n + 1}) /\ Cardinality(N \cup {n + 1}) \in {Cardinality(N), Cardinality(N) + 1}
      BY <1>11, FS_AddElement
    <3>6. M \subseteq N \cup {n + 1}
      BY <1>14
    <3>7. IsFiniteSet(M) /\ Cardinality(M) <= Cardinality(N \cup {n + 1}) /\ Cardinality(M) \in Nat
      BY <3>5, <3>6, FS_Subset, FS_CardinalityType
    <3>. QED BY <1>7, <1>8, <1>11, <2>1, <3>4, <3>5, <3>7
  <2>2. CASE ~(c <= s)
    <3>1. M \subseteq N
      BY <1>14, <2>2
    <3>2. IsFiniteSet(M) /\ Cardinality(M) <= Cardinality(N) /\ Cardinality(M) \in Nat
      BY <1>11, <3>1, FS_Subset, FS_CardinalityType
    <3>. QED BY <1>7, <1>11, <3>2
  <2>. QED BY <2>1, <2>2
<1>16. /\ i \in DOMAIN v1' /\ v1'[i] = v1[i]
       /\ M = {j \in DOMAIN v1' : v1'[j].chained /\ v1'[j].seq <= s}
  BY <1>4, <1>13, i \in 1 .. n + 1
<1>17. /\ i \in DOMAIN v1' /\ v1'[i].chained /\ s \in 0 .. v1'[i].seq - 1
       /\ Cardinality({j \in DOMAIN v1' : v1'[j].chained /\ v1'[j].seq <= s}) <= s
  BY <1>5, <1>6, <1>15, <1>16
<1>. QED BY <1>17, Zenon DEF Audit!Gap, Audit!Numbered, Audit!Cardinality, Cardinality

(* The store is damaged: each row left is one that was there, but for its  *)
(* body.                                                                   *)
SameRow(r, s) ==
  /\ DOMAIN r = DOMAIN s /\ r.chained = s.chained
  /\ r.seq = s.seq /\ r.prevHash = s.prevHash /\ r.hash = s.hash

LEMMA DamagedRows ==
  ASSUME Audit!RowsStay, v2 \in Seq(AuditBodies), NEW V, v1' \in Seq(V), Len(v1') <= Len(v1), v2' = v2,
         \A j \in 1 .. Len(v1') : \E i \in 1 .. Len(v1) : SameRow(v1'[j], v1[i])
  PROVE  Audit!RowsStay'
<1>1. v1' \in Seq(Audit!ToSet(v1'))
  BY TableOf
<1>2. Len(v1') \in Nat /\ DOMAIN v1' = 1 .. Len(v1') /\ Len(v1) \in Nat /\ DOMAIN v1 = 1 .. Len(v1)
  BY AuditRowsAre
<1>3. ASSUME NEW j \in DOMAIN v1'
      PROVE  /\ DOMAIN v1'[j] = {"chained", "seq", "body", "prevHash", "hash"}
             /\ v1'[j].chained \in BOOLEAN /\ v1'[j].seq \in Nat /\ (~v1'[j].chained => v1'[j].seq = 0)
             /\ v1'[j].chained =>
                  \E b \in AuditBodies : v1'[j].hash = Audit!HashEntry(v1'[j].prevHash, v1'[j].seq, b)
  <2>1. PICK i \in DOMAIN v1 : SameRow(v1'[j], v1[i])
    BY <1>2, Zenon
  <2>2. /\ DOMAIN v1[i] = {"chained", "seq", "body", "prevHash", "hash"}
        /\ v1[i].chained \in BOOLEAN /\ v1[i].seq \in Nat /\ (~v1[i].chained => v1[i].seq = 0)
        /\ v1[i].chained =>
             \E b \in AuditBodies : v1[i].hash = Audit!HashEntry(v1[i].prevHash, v1[i].seq, b)
    BY DEF Audit!RowsStay
  <2>3. v1'[j].chained = v1[i].chained /\ v1'[j].seq = v1[i].seq
        /\ v1'[j].prevHash = v1[i].prevHash /\ v1'[j].hash = v1[i].hash /\ DOMAIN v1'[j] = DOMAIN v1[i]
    BY <2>1 DEF SameRow
  <2>. QED BY <2>2, <2>3
<1>4. Len(v1) <= Len(v2') + AuditLegacy /\ Len(v2') <= AuditRows
  BY DEF Audit!RowsStay
<1>5. Len(v1') <= Len(v2') + AuditLegacy /\ Len(v2') <= AuditRows
  <2>1. v2 \in Seq(AuditBodies) => Len(v2) \in Nat
    OBVIOUS
  <2>. QED BY <1>2, <1>4, <2>1, AuditAssumption
<1>. QED BY <1>1, <1>3, <1>5 DEF Audit!RowsStay, Audit!HashEntry

(* There are no more rows with a low number than places they came from. *)
LEMMA DamagedCount ==
  ASSUME Audit!RowsStay', NEW n \in Nat, n = Len(v1'), NEW f, NEW s, NEW T, IsFiniteSet(T),
         \A i, j \in 1 .. n : f[i] = f[j] => i = j,
         \A j \in 1 .. n : v1'[j].chained /\ v1'[j].seq <= s => f[j] \in T
  PROVE  Cardinality(Audit!Numbered(s)') <= Cardinality(T)
<1>1. DOMAIN v1' = 1 .. n
  BY DEF Audit!RowsStay
<1>2. PICK M : M = Audit!Numbered(s)'
  OBVIOUS
<1>3. M = {j \in 1 .. n : v1'[j].chained /\ v1'[j].seq <= s}
  BY <1>1, <1>2 DEF Audit!Numbered
<1>4. PICK g : g = [j \in M |-> f[j]]
  BY Zenon
<1>5. g \in [M -> T]
  <2>1. \A j \in M : f[j] \in T
    BY <1>3
  <2>. QED BY <1>4, <2>1
<1>6. \A i, j \in M : g[i] = g[j] => i = j
  BY <1>3, <1>4
<1>7. g \in Injection(M, T)
  BY <1>5, <1>6 DEF Injection, IsInjective
<1>8. Cardinality(M) <= Cardinality(T)
  BY <1>7, FS_Injection
<1>. QED BY <1>2, <1>8

LEMMA GapAt ==
  ASSUME Audit!RowsStay', NEW n \in Nat, n = Len(v1'), NEW j \in 1 .. n, v1'[j].chained,
         NEW s \in 0 .. v1'[j].seq - 1, Cardinality(Audit!Numbered(s)') <= s
  PROVE  Audit!Gap'
<1>1. DOMAIN v1' = 1 .. n
  BY DEF Audit!RowsStay
<1>2. Cardinality({i \in DOMAIN v1' : v1'[i].chained /\ v1'[i].seq <= s}) <= s
  BY DEF Audit!Numbered
<1>3. j \in DOMAIN v1' /\ v1'[j].chained /\ s \in 0 .. v1'[j].seq - 1
  BY <1>1
<1>. QED BY <1>2, <1>3, Zenon DEF Audit!Gap, Audit!Numbered, Audit!Cardinality, Cardinality

LEMMA GapHere ==
  ASSUME Audit!RowsStay, Audit!Gap
  PROVE  /\ Len(v1) \in Nat /\ DOMAIN v1 = 1 .. Len(v1)
         /\ \E i \in 1 .. Len(v1) : /\ v1[i].chained /\ v1[i].seq \in Nat
                 /\ \E s \in Nat : s < v1[i].seq /\ Cardinality(Audit!Numbered(s)) <= s
<1>1. Len(v1) \in Nat /\ DOMAIN v1 = 1 .. Len(v1)
  BY AuditRowsAre
<1>2. PICK i \in DOMAIN v1 : v1[i].chained /\ \E s \in 0 .. v1[i].seq - 1 : Cardinality(Audit!Numbered(s)) <= s
  BY Zenon DEF Audit!Gap, Audit!Cardinality, Cardinality
<1>3. v1[i].seq \in Nat
  BY <1>2 DEF Audit!RowsStay
<1>4. PICK s \in 0 .. v1[i].seq - 1 : Cardinality(Audit!Numbered(s)) <= s
  BY <1>2
<1>5. s \in Nat /\ s < v1[i].seq
  BY <1>3, <1>4
<1>. QED BY <1>1, <1>2, <1>3, <1>4, <1>5

(* No row is lost. *)
LEMMA RowsMoved ==
  ASSUME Audit!RowsStay, v2 \in Seq(AuditBodies), NEW V, v1' \in Seq(V), Len(v1') = Len(v1), v2' = v2, NEW f,
         \A j \in 1 .. Len(v1) : f[j] \in 1 .. Len(v1) /\ SameRow(v1'[j], v1[f[j]]),
         \A i, j \in 1 .. Len(v1) : f[i] = f[j] => i = j,
         \A i \in 1 .. Len(v1) : \E j \in 1 .. Len(v1) : f[j] = i
  PROVE  Audit!RowsStay' /\ (Audit!Whole => Audit!Whole') /\ (Audit!Gap => Audit!Gap')
<1>1. PICK n \in Nat : n = Len(v1)
  <2>1. Len(v1) \in Nat
    BY AuditRowsAre
  <2>. QED BY <2>1
<1>2. Audit!RowsStay'
  <2>1. Len(v1') <= Len(v1)
    BY <1>1
  <2>2. \A j \in 1 .. Len(v1') : \E i \in 1 .. Len(v1) : SameRow(v1'[j], v1[i])
    BY <1>1, Zenon
  <2>. QED BY <2>1, <2>2, DamagedRows
<1>3. DOMAIN v1 = 1 .. n /\ DOMAIN v1' = 1 .. n /\ Len(v1') = n
  BY <1>1, <1>2 DEF Audit!RowsStay
<1>4. \A j \in 1 .. n : /\ f[j] \in 1 .. n /\ v1'[j].chained = v1[f[j]].chained
                        /\ v1'[j].seq = v1[f[j]].seq /\ v1'[j].prevHash = v1[f[j]].prevHash
                        /\ v1'[j].hash = v1[f[j]].hash
  BY <1>1, Zenon DEF SameRow
<1>5. \A i, j \in 1 .. n : f[i] = f[j] => i = j
  BY <1>1
<1>6. \A i \in 1 .. n : \E j \in 1 .. n : f[j] = i
  BY <1>1
<1>7. ASSUME Audit!Whole PROVE Audit!Whole'
  <2>1. \A i \in 1 .. n : v1[i].chained =>
          v1[i].seq < Len(v2) /\ v1[i].hash = Audit!HashEntry(v1[i].prevHash, v1[i].seq, v2[v1[i].seq + 1])
    BY <1>3, <1>7 DEF Audit!Whole
  <2>2. \A i, j \in 1 .. n : v1[i].chained /\ v1[j].chained /\ v1[i].seq = v1[j].seq => i = j
    BY <1>3, <1>7, Zenon DEF Audit!Whole
  <2>3. \A q \in 0 .. Len(v2) - 1 : \E i \in 1 .. n : v1[i].chained /\ v1[i].seq = q
    BY <1>3, <1>7, Zenon DEF Audit!Whole
  <2>4. ASSUME NEW j \in DOMAIN v1', v1'[j].chained
        PROVE  /\ v1'[j].seq < Len(v2')
               /\ v1'[j].hash = Audit!HashEntry(v1'[j].prevHash, v1'[j].seq, v2'[v1'[j].seq + 1])
    <3>1. j \in 1 .. n
      BY <1>3
    <3>2. PICK i \in 1 .. n : i = f[j] /\ v1[i].chained /\ v1'[j].seq = v1[i].seq
                              /\ v1'[j].prevHash = v1[i].prevHash /\ v1'[j].hash = v1[i].hash
      BY <1>4, <2>4, <3>1, Zenon
    <3>3. /\ v1[i].seq < Len(v2)
          /\ v1[i].hash = Audit!HashEntry(v1[i].prevHash, v1[i].seq, v2[v1[i].seq + 1])
      BY ONLY <2>1, <3>2, i \in 1 .. n
    <3>4. v1'[j].seq < Len(v2)
      BY ONLY <3>2, <3>3
    <3>5. v1'[j].hash = Audit!HashEntry(v1'[j].prevHash, v1'[j].seq, v2[v1'[j].seq + 1])
      BY ONLY <3>2, <3>3
    <3>. QED BY <3>4, <3>5
  <2>5. ASSUME NEW i \in DOMAIN v1', NEW j \in DOMAIN v1', v1'[i].chained, v1'[j].chained, v1'[i].seq = v1'[j].seq
        PROVE  i = j
    <3>1. i \in 1 .. n /\ j \in 1 .. n
      BY <1>3
    <3>2. f[i] \in 1 .. n /\ v1[f[i]].chained /\ v1'[i].seq = v1[f[i]].seq
      BY <1>4, <2>5, <3>1, Zenon
    <3>3. f[j] \in 1 .. n /\ v1[f[j]].chained /\ v1'[j].seq = v1[f[j]].seq
      BY <1>4, <2>5, <3>1, Zenon
    <3>4. f[i] = f[j]
      BY ZenonT(60), <2>2, <2>5, <3>2, <3>3
    <3>. QED BY <1>5, <3>1, <3>4
  <2>6. ASSUME NEW q \in 0 .. Len(v2') - 1
        PROVE  \E j \in DOMAIN v1' : v1'[j].chained /\ v1'[j].seq = q
    <3>1. PICK i \in 1 .. n : v1[i].chained /\ v1[i].seq = q
      BY <2>3, <2>6, Zenon
    <3>2. PICK j \in 1 .. n : f[j] = i
      BY <1>6, Zenon
    <3>. QED BY <1>3, <1>4, <3>1, <3>2, Zenon
  <2>. QED BY <2>4, <2>5, <2>6, Zenon DEF Audit!Whole, Audit!HashEntry
<1>8. ASSUME Audit!Gap PROVE Audit!Gap'
  <2>1. PICK i \in 1 .. n : /\ v1[i].chained /\ v1[i].seq \in Nat
                            /\ \E s \in Nat : s < v1[i].seq /\ Cardinality(Audit!Numbered(s)) <= s
    BY <1>1, <1>8, GapHere, Zenon
  <2>2. PICK s \in Nat : s < v1[i].seq /\ Cardinality(Audit!Numbered(s)) <= s
    BY <2>1, Zenon
  <2>3. PICK j \in 1 .. n : f[j] = i
    BY <1>6, Zenon
  <2>4. PICK T : T = Audit!Numbered(s)
    OBVIOUS
  <2>5. \A k \in 1 .. n : v1'[k].chained /\ v1'[k].seq <= s => f[k] \in T
    BY <1>3, <1>4, <2>4, Zenon DEF Audit!Numbered
  <2>6. IsFiniteSet(T) /\ Cardinality(T) \in Nat
    BY <2>4, NumberedFinite
  <2>7. Cardinality(Audit!Numbered(s)') <= Cardinality(T)
    BY Zenon, <1>2, <1>3, <1>5, <2>5, <2>6, DamagedCount
  <2>8. IsFiniteSet(Audit!Numbered(s)') /\ Cardinality(Audit!Numbered(s)') \in Nat
    <3>1. PICK M : M = Audit!Numbered(s)'
      OBVIOUS
    <3>2. M \subseteq 1 .. n /\ IsFiniteSet(1 .. n)
      BY <1>3, <3>1, FS_Interval DEF Audit!Numbered
    <3>3. IsFiniteSet(M)
      BY <3>2, FS_Subset, Zenon
    <3>. QED BY <3>1, <3>3, FS_CardinalityType
  <2>9. Cardinality(Audit!Numbered(s)') <= s
    BY <2>2, <2>4, <2>6, <2>7, <2>8
  <2>10. v1'[j].chained /\ v1'[j].seq = v1[i].seq
    BY <1>4, <2>1, <2>3, Zenon
  <2>11. s \in 0 .. v1'[j].seq - 1
    BY SMTT(40), <2>1, <2>2, <2>10
  <2>. QED BY <1>2, <1>3, <2>9, <2>10, <2>11, GapAt, Zenon
<1>. QED BY <1>2, <1>7, <1>8

LEMMA EditStep ==
  ASSUME Audit!RowsStay, v2 \in Seq(AuditBodies), NEW i \in DOMAIN v1, NEW body, Audit!Edit(i, body)
  PROVE  Audit!RowsStay' /\ (Audit!Whole => Audit!Whole') /\ (Audit!Gap => Audit!Gap') /\ Len(v1') = Len(v1)
<1>1. PICK n \in Nat : n = Len(v1) /\ DOMAIN v1 = 1 .. n
  <2>1. Len(v1) \in Nat /\ DOMAIN v1 = 1 .. Len(v1)
    BY AuditRowsAre
  <2>. QED BY <2>1, Zenon
<1>2. v1' = [v1 EXCEPT ![i] = [v1[i] EXCEPT !.body = body]] /\ v2' = v2
  BY DEF Audit!Edit, Audit!Damages
<1>3. DOMAIN v1' = 1 .. n /\ \A j \in 1 .. n : v1'[j] = IF j = i THEN [v1[i] EXCEPT !.body = body] ELSE v1[j]
  BY <1>1, <1>2
<1>4. PICK V : V = {v1'[j] : j \in 1 .. n}
  BY Zenon
<1>5. v1' \in Seq(V) /\ Len(v1') = n
  <2>1. v1' = [j \in 1 .. n |-> v1'[j]]
    BY <1>1, <1>2, Zenon
  <2>2. \A j \in 1 .. n : v1'[j] \in V
    BY <1>4
  <2>3. v1' \in [1 .. n -> V]
    BY <2>1, <2>2
  <2>. QED BY <2>3
<1>6. PICK f : f = [j \in 1 .. n |-> j]
  BY Zenon
<1>7. \A j \in 1 .. n : SameRow(v1'[j], v1[j])
  <2>1. DOMAIN v1[i] = {"chained", "seq", "body", "prevHash", "hash"}
    BY DEF Audit!RowsStay
  <2>2. SameRow([v1[i] EXCEPT !.body = body], v1[i])
    BY <2>1 DEF SameRow
  <2>3. \A j \in 1 .. n : SameRow(v1[j], v1[j])
    BY DEF SameRow
  <2>. QED BY <1>3, <2>2, <2>3
<1>8. /\ \A j \in 1 .. Len(v1) : f[j] \in 1 .. Len(v1) /\ SameRow(v1'[j], v1[f[j]])
      /\ \A k, j \in 1 .. Len(v1) : f[k] = f[j] => k = j
      /\ \A k \in 1 .. Len(v1) : \E j \in 1 .. Len(v1) : f[j] = k
  BY <1>1, <1>6, <1>7
<1>9. Len(v1') = Len(v1)
  BY <1>1, <1>5
<1>. QED BY <1>2, <1>5, <1>8, <1>9, RowsMoved, Zenon

LEMMA ExchangeStep ==
  ASSUME Audit!RowsStay, v2 \in Seq(AuditBodies), NEW i \in DOMAIN v1, Audit!Exchange(i)
  PROVE  Audit!RowsStay' /\ (Audit!Whole => Audit!Whole') /\ (Audit!Gap => Audit!Gap') /\ Len(v1') = Len(v1)
<1>1. PICK n \in Nat : n = Len(v1) /\ DOMAIN v1 = 1 .. n
  <2>1. Len(v1) \in Nat /\ DOMAIN v1 = 1 .. Len(v1)
    BY AuditRowsAre
  <2>. QED BY <2>1, Zenon
<1>2. v1' = [v1 EXCEPT ![i] = v1[i + 1], ![i + 1] = v1[i]] /\ v2' = v2 /\ i < n
  BY <1>1 DEF Audit!Exchange, Audit!Damages
<1>3. PICK f : f = [j \in 1 .. n |-> IF j = i THEN i + 1 ELSE IF j = i + 1 THEN i ELSE j]
  BY Zenon
<1>4. i \in 1 .. n /\ i + 1 \in 1 .. n
  BY <1>1, <1>2
<1>5. DOMAIN v1' = 1 .. n /\ \A j \in 1 .. n : v1'[j] = v1[f[j]]
  BY <1>1, <1>2, <1>3, <1>4
<1>6. v1' \in Seq(Audit!ToSet(v1)) /\ Len(v1') = n
  <2>1. v1 \in [1 .. n -> Audit!ToSet(v1)]
    BY <1>1 DEF Audit!RowsStay
  <2>2. v1' \in [1 .. n -> Audit!ToSet(v1)]
    BY <1>2, <1>4, <2>1
  <2>. QED BY <2>2
<1>7. \A j \in 1 .. n : f[j] \in 1 .. n
  BY <1>3, <1>4
<1>8. \A k, j \in 1 .. n : f[k] = f[j] => k = j
  BY <1>3, <1>4
<1>9. \A k \in 1 .. n : f[f[k]] = k
  BY <1>3, <1>4
<1>10. \A k \in 1 .. n : \E j \in 1 .. n : f[j] = k
  BY <1>7, <1>9
<1>11. \A j \in 1 .. n : SameRow(v1'[j], v1[f[j]])
  BY <1>5 DEF SameRow
<1>12. /\ \A j \in 1 .. Len(v1) : f[j] \in 1 .. Len(v1) /\ SameRow(v1'[j], v1[f[j]])
       /\ \A k, j \in 1 .. Len(v1) : f[k] = f[j] => k = j
       /\ \A k \in 1 .. Len(v1) : \E j \in 1 .. Len(v1) : f[j] = k
  BY <1>1, <1>7, <1>8, <1>10, <1>11
<1>13. Len(v1') = Len(v1)
  BY <1>1, <1>6
<1>. QED BY <1>2, <1>6, <1>12, <1>13, RowsMoved, Zenon

(* A row is lost: unless it was the newest, the numbers say so. *)
LEMMA LoseShape ==
  ASSUME Audit!RowsStay, v2 \in Seq(AuditBodies), NEW i \in DOMAIN v1, Audit!Lose(i)
  PROVE  \E n \in Nat : \E f \in [1 .. n -> 1 .. n + 1] :
           /\ Len(v1) = n + 1 /\ Len(v1') = n /\ DOMAIN v1 = 1 .. n + 1 /\ v1' \in Seq(Audit!ToSet(v1))
           /\ \A j \in 1 .. n : f[j] # i /\ v1'[j] = v1[f[j]]
           /\ \A k, j \in 1 .. n : f[k] = f[j] => k = j
           /\ \A k \in 1 .. n + 1 : k # i => \E j \in 1 .. n : f[j] = k
<1>1. Len(v1) \in Nat /\ DOMAIN v1 = 1 .. Len(v1) /\ v1 \in Seq(Audit!ToSet(v1))
  BY AuditRowsAre
<1>2. PICK n \in Nat : Len(v1) = n + 1
  <2>1. Len(v1) - 1 \in Nat /\ Len(v1) = (Len(v1) - 1) + 1
    BY <1>1
  <2>. QED BY <2>1, Zenon
<1>3. i \in 1 .. n + 1 /\ DOMAIN v1 = 1 .. n + 1
  BY <1>1, <1>2
<1>4. PICK a, b : a = SubSeq(v1, 1, i - 1) /\ b = SubSeq(v1, i + 1, n + 1)
  BY Zenon
<1>5. v1' = a \o b
  BY <1>2, <1>4 DEF Audit!Lose, Audit!RemoveAt
<1>6. a \in Seq(Audit!ToSet(v1)) /\ Len(a) = i - 1 /\ \A j \in 1 .. i - 1 : a[j] = v1[j]
  BY <1>1, <1>2, <1>3, <1>4
<1>7. b \in Seq(Audit!ToSet(v1)) /\ Len(b) = n + 1 - i /\ \A j \in 1 .. n + 1 - i : b[j] = v1[j + i]
  BY SMTT(40), <1>1, <1>2, <1>3, <1>4
<1>8. v1' \in Seq(Audit!ToSet(v1)) /\ Len(v1') = n
  <2>1. a \o b \in Seq(Audit!ToSet(v1)) /\ Len(a \o b) = Len(a) + Len(b)
    BY SMTT(40), <1>6, <1>7
  <2>. QED BY <1>3, <1>5, <1>6, <1>7, <2>1
<1>9. PICK f : f = [j \in 1 .. n |-> IF j < i THEN j ELSE j + 1]
  BY Zenon
<1>10. f \in [1 .. n -> 1 .. n + 1]
  BY <1>9
<1>11. ASSUME NEW j \in 1 .. n PROVE f[j] # i /\ v1'[j] = v1[f[j]]
  <2>1. CASE j < i
    <3>1. j \in 1 .. i - 1 /\ f[j] = j
      BY <1>3, <1>9, <2>1
    <3>2. v1'[j] = a[j]
      BY <1>5, <1>6, <1>7, <3>1
    <3>. QED BY <1>3, <1>6, <2>1, <3>1, <3>2
  <2>2. CASE ~(j < i)
    <3>1. j - (i - 1) \in 1 .. n + 1 - i /\ f[j] = j + 1 /\ (j - (i - 1)) + i = j + 1
      BY <1>3, <1>9, <2>2
    <3>2. v1'[j] = b[j - (i - 1)]
      <4>1. \A x \in 1 .. Len(a) + Len(b) : (a \o b)[x] = IF x <= Len(a) THEN a[x] ELSE b[x - Len(a)]
        BY <1>6, <1>7, ConcatProperties
      <4>2. j \in 1 .. Len(a) + Len(b) /\ ~(j <= Len(a)) /\ Len(a) = i - 1
        BY <1>3, <1>6, <1>7, <2>2
      <4>. QED BY <1>5, <4>1, <4>2
    <3>3. b[j - (i - 1)] = v1[(j - (i - 1)) + i]
      BY <1>7, <3>1
    <3>4. v1'[j] = v1[f[j]]
      BY <3>1, <3>2, <3>3
    <3>5. f[j] # i
      BY <1>3, <2>2, <3>1
    <3>. QED BY <3>4, <3>5
  <2>. QED BY <2>1, <2>2
<1>12. \A k, j \in 1 .. n : f[k] = f[j] => k = j
  BY <1>3, <1>9
<1>13. ASSUME NEW k \in 1 .. n + 1, k # i PROVE \E j \in 1 .. n : f[j] = k
  <2>1. CASE k < i
    <3>1. k \in 1 .. n /\ f[k] = k
      BY <1>3, <1>9, <2>1
    <3>. QED BY <3>1
  <2>2. CASE ~(k < i)
    <3>1. k - 1 \in 1 .. n /\ f[k - 1] = k
      BY <1>3, <1>9, <1>13, <2>2
    <3>. QED BY <3>1
  <2>. QED BY <2>1, <2>2
<1>14. \E g \in [1 .. n -> 1 .. n + 1] :
         /\ Len(v1) = n + 1 /\ Len(v1') = n /\ DOMAIN v1 = 1 .. n + 1 /\ v1' \in Seq(Audit!ToSet(v1))
         /\ \A j \in 1 .. n : g[j] # i /\ v1'[j] = v1[g[j]]
         /\ \A k, j \in 1 .. n : g[k] = g[j] => k = j
         /\ \A k \in 1 .. n + 1 : k # i => \E j \in 1 .. n : g[j] = k
  <2>1. f \in [1 .. n -> 1 .. n + 1]
    BY <1>10
  <2> WITNESS f \in [1 .. n -> 1 .. n + 1]
  <2>. QED BY <1>2, <1>3, <1>8, <1>11, <1>12, <1>13, Zenon
<1>. QED BY <1>14, Zenon

LEMMA LoseStep ==
  ASSUME Audit!RowsStay, v2 \in Seq(AuditBodies), NEW i \in DOMAIN v1, Audit!Lose(i)
  PROVE  /\ Audit!RowsStay' /\ Len(v1') <= Len(v1)
         /\ v4' = (v4 \/ \A k \in DOMAIN v1 : v1[k].seq <= v1[i].seq)
         /\ Audit!Whole \/ Audit!Gap => v4' \/ Audit!Gap'
<1>0. PICK n \in Nat : \E f \in [1 .. n -> 1 .. n + 1] :
           /\ Len(v1) = n + 1 /\ Len(v1') = n /\ DOMAIN v1 = 1 .. n + 1 /\ v1' \in Seq(Audit!ToSet(v1))
           /\ \A j \in 1 .. n : f[j] # i /\ v1'[j] = v1[f[j]]
           /\ \A k, j \in 1 .. n : f[k] = f[j] => k = j
           /\ \A k \in 1 .. n + 1 : k # i => \E j \in 1 .. n : f[j] = k
  BY LoseShape, Zenon
<1>1. PICK f \in [1 .. n -> 1 .. n + 1] :
           /\ Len(v1) = n + 1 /\ Len(v1') = n /\ DOMAIN v1 = 1 .. n + 1 /\ v1' \in Seq(Audit!ToSet(v1))
           /\ \A j \in 1 .. n : f[j] # i /\ v1'[j] = v1[f[j]]
           /\ \A k, j \in 1 .. n : f[k] = f[j] => k = j
           /\ \A k \in 1 .. n + 1 : k # i => \E j \in 1 .. n : f[j] = k
  BY <1>0, Zenon
<1>2. v4' = (v4 \/ \A k \in DOMAIN v1 : v1[k].seq <= v1[i].seq) /\ v2' = v2 /\ v1[i].chained
  BY DEF Audit!Lose, Audit!Damages
<1>3. Len(v1') <= Len(v1)
  BY <1>1
<1>4. Audit!RowsStay'
  <2>1. \A j \in 1 .. Len(v1') : \E k \in 1 .. Len(v1) : SameRow(v1'[j], v1[k])
    <3>1. \A j \in 1 .. n : f[j] \in 1 .. n + 1 /\ SameRow(v1'[j], v1[f[j]])
      BY <1>1 DEF SameRow
    <3>. QED BY <1>1, <3>1
  <2>. QED BY <1>1, <1>2, <1>3, <2>1, DamagedRows
<1>5. \A k \in 1 .. n + 1 : v1[k].seq \in Nat /\ (v1[k].seq # 0 => v1[k].chained)
  BY <1>1, Zenon DEF Audit!RowsStay
<1>6. i \in 1 .. n + 1
  BY <1>1
<1>7. ASSUME Audit!Whole \/ Audit!Gap, NEW k \in 1 .. n + 1, v1[i].seq < v1[k].seq PROVE Audit!Gap'
  <2>1. v1[k].chained /\ k # i
    BY <1>5, <1>6, <1>7
  <2>2. \E w \in 1 .. n + 1, s \in Nat :
          /\ w # i /\ v1[w].chained /\ s < v1[w].seq
          /\ Cardinality(Audit!Numbered(s) \ {i}) <= s
    <3>1. CASE Audit!Gap
      <4>1. PICK w \in 1 .. n + 1 : /\ v1[w].chained /\ v1[w].seq \in Nat
                 /\ \E s \in Nat : s < v1[w].seq /\ Cardinality(Audit!Numbered(s)) <= s
        BY <1>1, <3>1, GapHere
      <4>2. PICK s \in Nat : s < v1[w].seq /\ Cardinality(Audit!Numbered(s)) <= s
        BY <4>1
      <4>3. PICK T : T = Audit!Numbered(s)
        OBVIOUS
      <4>4. IsFiniteSet(T) /\ Cardinality(T) \in Nat
        BY <4>3, NumberedFinite
      <4>5. Cardinality(T \ {i}) <= Cardinality(T) /\ Cardinality(T \ {i}) \in Nat
        BY <4>4, FS_Subset, FS_CardinalityType
      <4>6. Cardinality(Audit!Numbered(s) \ {i}) <= s
        BY <4>2, <4>3, <4>4, <4>5
      <4>7. CASE w # i
        BY <4>1, <4>2, <4>6, <4>7, Zenon
      <4>8. CASE w = i
        <5>1. s < v1[k].seq
          BY <1>5, <1>7, <4>2, <4>8
        <5>. QED BY <2>1, <4>6, <5>1, Zenon
      <4>. QED BY <4>7, <4>8, Zenon
    <3>2. CASE Audit!Whole
      <4>1. PICK q \in Nat : q = v1[i].seq
        BY <1>5, <1>6
      <4>2. PICK T : T = Audit!Numbered(q)
        OBVIOUS
      <4>3. IsFiniteSet(T) /\ Cardinality(T) \in Nat
        BY <4>2, NumberedFinite
      <4>4. T = {j \in 1 .. n + 1 : v1[j].chained /\ v1[j].seq <= q}
        BY <1>1, <4>2 DEF Audit!Numbered
      <4>5. i \in T
        BY <1>2, <1>6, <4>1, <4>4
      <4>6. Cardinality(T \ {i}) = Cardinality(T) - 1
        BY <4>3, <4>5, FS_RemoveElement, Zenon
      <4>7. PICK g : g = [j \in T |-> v1[j].seq]
        BY Zenon
      <4>8. g \in Injection(T, 0 .. q)
        <5>1. \A j \in T : v1[j].seq \in 0 .. q
          BY <1>5, <4>4
        <5>2. g \in [T -> 0 .. q]
          BY <4>7, <5>1
        <5>3. \A x, y \in 1 .. n + 1 : v1[x].chained /\ v1[y].chained /\ v1[x].seq = v1[y].seq => x = y
          <6>1. \A x, y \in DOMAIN v1 : v1[x].chained /\ v1[y].chained /\ v1[x].seq = v1[y].seq => x = y
            BY ZenonT(30), <3>2 DEF Audit!Whole
          <6>. QED BY <1>1, <6>1, Zenon
        <5>4. \A x, y \in T : g[x] = g[y] => x = y
          BY <4>4, <4>7, <5>3
        <5>. QED BY <5>2, <5>4 DEF Injection, IsInjective
      <4>9. IsFiniteSet(0 .. q) /\ Cardinality(0 .. q) = q + 1
        BY FS_Interval
      <4>10. Cardinality(T) <= q + 1
        <5>1. PICK U : U = 0 .. q
          OBVIOUS
        <5>2. Cardinality(T) <= Cardinality(U)
          BY <4>8, <4>9, <5>1, FS_Injection
        <5>. QED BY <4>9, <5>1, <5>2
      <4>11. Cardinality(Audit!Numbered(q) \ {i}) <= q
        BY <4>2, <4>3, <4>6, <4>10
      <4>. QED BY <1>7, <2>1, <4>1, <4>11, Zenon
    <3>. QED BY <1>7, <3>1, <3>2, Zenon
  <2>3. PICK w \in 1 .. n + 1, s \in Nat :
          /\ w # i /\ v1[w].chained /\ s < v1[w].seq
          /\ Cardinality(Audit!Numbered(s) \ {i}) <= s
    BY <2>2, Zenon
  <2>4. PICK j \in 1 .. n : f[j] = w
    BY <1>1, <2>3
  <2>5. PICK T : T = Audit!Numbered(s) \ {i}
    BY Zenon
  <2>6. IsFiniteSet(T) /\ Cardinality(T) \in Nat
    <3>1. IsFiniteSet(Audit!Numbered(s))
      BY NumberedFinite
    <3>. QED BY <2>5, <3>1, FS_Subset, FS_CardinalityType
  <2>7. \A x \in 1 .. n : v1'[x].chained /\ v1'[x].seq <= s => f[x] \in T
    BY <1>1, <2>5 DEF Audit!Numbered
  <2>8. \A x, y \in 1 .. n : f[x] = f[y] => x = y
    BY <1>1
  <2>9. Cardinality(Audit!Numbered(s)') <= Cardinality(T)
    BY Zenon, <1>1, <1>4, <2>6, <2>7, <2>8, DamagedCount
  <2>10. Cardinality(Audit!Numbered(s)') \in Nat
    <3>1. PICK M : M = Audit!Numbered(s)'
      OBVIOUS
    <3>2. DOMAIN v1' = 1 .. n
      BY <1>1, <1>4 DEF Audit!RowsStay
    <3>3. M \subseteq 1 .. n /\ IsFiniteSet(1 .. n)
      <4>1. M = {x \in DOMAIN v1' : v1'[x].chained /\ v1'[x].seq <= s}
        BY <3>1 DEF Audit!Numbered
      <4>2. M \subseteq DOMAIN v1'
        BY <4>1
      <4>3. IsFiniteSet(1 .. n)
        BY FS_Interval
      <4>. QED BY <3>2, <4>2, <4>3
    <3>4. IsFiniteSet(M)
      BY <3>3, FS_Subset, Zenon
    <3>. QED BY <3>1, <3>4, FS_CardinalityType
  <2>11. Cardinality(Audit!Numbered(s)') <= s
    BY <2>3, <2>5, <2>6, <2>9, <2>10
  <2>12. v1'[j].chained /\ v1'[j].seq = v1[w].seq /\ v1[w].seq \in Nat
    BY <1>1, <1>5, <2>3, <2>4, Zenon
  <2>13. s \in 0 .. v1'[j].seq - 1
    BY <2>3, <2>12
  <2>. QED BY <1>1, <1>4, <2>11, <2>12, <2>13, GapAt, Zenon
<1>8. (\A k \in DOMAIN v1 : v1[k].seq <= v1[i].seq) \/ \E k \in 1 .. n + 1 : v1[i].seq < v1[k].seq
  BY <1>1, <1>5, <1>6
<1>9. Audit!Whole \/ Audit!Gap => v4' \/ Audit!Gap'
  BY <1>2, <1>7, <1>8, Zenon
<1>. QED BY <1>2, <1>3, <1>4, <1>9

(* Every step of the audit log and its store. *)
LEMMA AuditSteps ==
  ASSUME Audit!AuditInv, Audit!Next
  PROVE  Audit!AuditInv'
<1>1. Audit!RowsStay /\ Audit!TypeOk /\ v2 \in Seq(AuditBodies)
  BY DEF Audit!AuditInv, Audit!TypeOk
<1>2. ASSUME NEW body \in AuditBodies, Audit!Record(body) PROVE Audit!AuditInv'
  <2>1. Audit!RowsStay' /\ Audit!TypeOk'
    BY <1>2, RecordRows
  <2>2. v3' = v3 /\ v4' = v4
    BY <1>2 DEF Audit!Record
  <2>3. v3' = 0 => Audit!VerifyChain(Audit!Chained(v1'))
    BY <1>2, <2>2, RecordChains
  <2>4. v4' \/ Audit!Whole' \/ Audit!Gap'
    <3>1. v4 \/ Audit!Whole \/ Audit!Gap
      BY DEF Audit!AuditInv
    <3>. QED BY <1>2, <2>2, <3>1, RecordWhole, RecordGap
  <2>. QED BY <2>1, <2>3, <2>4, Zenon DEF Audit!AuditInv, Audit!VerifyChain, Audit!Chained, Audit!Before, Audit!HashEntry, Audit!Kept
<1>3. ASSUME Audit!Damages, Len(v1') <= Len(v1), Audit!RowsStay', v4' \/ Audit!Whole' \/ Audit!Gap', v4' \in BOOLEAN
      PROVE  Audit!AuditInv'
  <2>1. v3' = v3 + 1 /\ v3 < AuditDamage /\ v2' = v2
    BY <1>3 DEF Audit!Damages
  <2>2. v3 \in Nat /\ AuditDamage \in Nat
    BY <1>1, AuditAssumption DEF Audit!TypeOk
  <2>3. v3' \in 0 .. AuditDamage /\ v3' # 0
    BY <2>1, <2>2
  <2>4. Len(v1') <= AuditRows + AuditLegacy
    <3>1. Len(v1') \in Nat /\ Len(v1) \in Nat /\ AuditRows \in Nat /\ AuditLegacy \in Nat
      BY <1>1, <1>3, AuditRowsAre, AuditAssumption DEF Audit!RowsStay
    <3>. QED BY <1>1, <1>3, <3>1 DEF Audit!TypeOk
  <2>5. Audit!TypeOk'
    BY <1>1, <1>3, <2>1, <2>3, <2>4 DEF Audit!TypeOk
  <2>. QED BY <1>3, <2>3, <2>5 DEF Audit!AuditInv
<1>4. ASSUME NEW i \in DOMAIN v1, NEW body \in AuditBodies, Audit!Edit(i, body) PROVE Audit!AuditInv'
  <2>1. Audit!RowsStay' /\ (Audit!Whole => Audit!Whole') /\ (Audit!Gap => Audit!Gap') /\ Len(v1') = Len(v1)
    BY <1>1, <1>4, EditStep
  <2>2. Audit!Damages /\ v4' = v4
    BY <1>4 DEF Audit!Edit
  <2>3. v4 \in BOOLEAN /\ (v4 \/ Audit!Whole \/ Audit!Gap)
    BY DEF Audit!AuditInv, Audit!TypeOk
  <2>4. Len(v1) \in Nat
    BY <1>1, AuditRowsAre
  <2>. QED BY <1>3, <2>1, <2>2, <2>3, <2>4
<1>5. ASSUME NEW i \in DOMAIN v1, Audit!Exchange(i) PROVE Audit!AuditInv'
  <2>1. Audit!RowsStay' /\ (Audit!Whole => Audit!Whole') /\ (Audit!Gap => Audit!Gap') /\ Len(v1') = Len(v1)
    BY <1>1, <1>5, ExchangeStep
  <2>2. Audit!Damages /\ v4' = v4
    BY <1>5 DEF Audit!Exchange
  <2>3. v4 \in BOOLEAN /\ (v4 \/ Audit!Whole \/ Audit!Gap)
    BY DEF Audit!AuditInv, Audit!TypeOk
  <2>4. Len(v1) \in Nat
    BY <1>1, AuditRowsAre
  <2>. QED BY <1>3, <2>1, <2>2, <2>3, <2>4
<1>6. ASSUME NEW i \in DOMAIN v1, Audit!Lose(i) PROVE Audit!AuditInv'
  <2>1. /\ Audit!RowsStay' /\ Len(v1') <= Len(v1)
        /\ v4' = (v4 \/ \A k \in DOMAIN v1 : v1[k].seq <= v1[i].seq)
        /\ Audit!Whole \/ Audit!Gap => v4' \/ Audit!Gap'
    BY <1>1, <1>6, LoseStep
  <2>2. Audit!Damages
    BY <1>6 DEF Audit!Lose
  <2>3. v4 \in BOOLEAN /\ (v4 \/ Audit!Whole \/ Audit!Gap)
    BY DEF Audit!AuditInv, Audit!TypeOk
  <2>4. v4' \in BOOLEAN /\ (v4' \/ Audit!Whole' \/ Audit!Gap')
    BY <2>1, <2>3
  <2>. QED BY <1>3, <2>1, <2>2, <2>4
<1>. QED BY <1>2, <1>4, <1>5, <1>6 DEF Audit!Next

LEMMA AuditStays ==
  ASSUME Audit!AuditInv, UNCHANGED Audit!vars
  PROVE  Audit!AuditInv'
<1>1. v1' = v1 /\ v2' = v2 /\ v3' = v3 /\ v4' = v4
  BY DEF Audit!vars
<1>2. Audit!TypeOk'
  BY <1>1 DEF Audit!AuditInv, Audit!TypeOk
<1>3. Audit!RowsStay'
  BY <1>1 DEF Audit!AuditInv, Audit!RowsStay
<1>4. v3' = 0 => Audit!VerifyChain(Audit!Chained(v1'))
  BY <1>1 DEF Audit!AuditInv
<1>5. Audit!Whole => Audit!Whole'
  BY <1>1 DEF Audit!Whole
<1>6. Audit!Gap => Audit!Gap'
  BY <1>1, Zenon DEF Audit!Gap, Audit!Numbered
<1>7. v4' \/ Audit!Whole' \/ Audit!Gap'
  BY <1>1, <1>5, <1>6 DEF Audit!AuditInv
<1>. QED BY <1>2, <1>3, <1>4, <1>7 DEF Audit!AuditInv

LEMMA AuditShows ==
  ASSUME Audit!AuditInv
  PROVE  Audit!TypeOk /\ Audit!DamageShows
<1>1. Audit!RowsStay /\ Audit!TypeOk /\ v2 \in Seq(AuditBodies)
  BY DEF Audit!AuditInv, Audit!TypeOk
<1>2. Audit!VerifyAuditChain(v1) <=> Audit!VerifyChain(Audit!Chained(v1))
  BY <1>1, VerificationsAgree
<1>3. v3 = 0 => Audit!VerifyAuditChain(v1)
  BY <1>2 DEF Audit!AuditInv
<1>4. Audit!VerifyAuditChain(v1) => Audit!Stored = v2 \/ v4
  <2>1. v4 \/ Audit!Whole \/ Audit!Gap
    BY DEF Audit!AuditInv
  <2>. QED BY <1>1, <1>2, <2>1, WholeVerifies, GapVerifies
<1>. QED BY <1>1, <1>2, <1>3, <1>4 DEF Audit!DamageShows
-----------------------------------------------------------------------------
(* The journal file: the lines, how much was appended, what was cut off.   *)
ParsesAt(t) == {i \in DOMAIN t : Journal!Parses(t[i])}

(* The lines, element by element. *)
LEMMA LinesAre ==
  ASSUME Journal!JournalInv
  PROVE  /\ v2 \in Nat /\ v2 <= JournalEntries /\ v3 \subseteq 1 .. v2
         /\ v1 \in Seq(Seq([entry : 1 .. v2, whole : BOOLEAN]))
         /\ Len(v1) \in Nat \ {0} /\ DOMAIN v1 = 1 .. Len(v1)
         /\ \A i \in 1 .. Len(v1) :
              /\ v1[i] \in Seq([entry : 1 .. v2, whole : BOOLEAN])
              /\ Len(v1[i]) \in Nat /\ DOMAIN v1[i] = 1 .. Len(v1[i])
              /\ \A a \in 1 .. Len(v1[i]) : v1[i][a].entry \in 1 .. v2
<1>1. v2 \in Nat /\ v2 <= JournalEntries /\ v3 \subseteq 1 .. v2
  BY JournalAssumption DEF Journal!JournalInv, Journal!TypeOk
<1>2. PICK V : V = Seq([entry : 1 .. v2, whole : BOOLEAN])
  OBVIOUS
<1>3. v1 \in Seq(V) /\ v1 # <<>>
  BY <1>2 DEF Journal!JournalInv
<1>4. Len(v1) \in Nat \ {0} /\ DOMAIN v1 = 1 .. Len(v1) /\ \A i \in 1 .. Len(v1) : v1[i] \in V
  BY <1>3
<1>5. ASSUME NEW i \in 1 .. Len(v1)
      PROVE  /\ Len(v1[i]) \in Nat /\ DOMAIN v1[i] = 1 .. Len(v1[i])
             /\ \A a \in 1 .. Len(v1[i]) : v1[i][a].entry \in 1 .. v2
  <2>1. v1[i] \in Seq([entry : 1 .. v2, whole : BOOLEAN])
    BY <1>2, <1>4, Zenon
  <2>2. PICK P : P = [entry : 1 .. v2, whole : BOOLEAN]
    BY Zenon
  <2>3. PICK l \in Seq(P) : l = v1[i]
    BY <2>1, <2>2
  <2>4. Len(l) \in Nat /\ DOMAIN l = 1 .. Len(l) /\ \A a \in 1 .. Len(l) : l[a] \in P
    OBVIOUS
  <2>5. \A x \in P : x.entry \in 1 .. v2
    BY <2>2
  <2>. QED BY <2>3, <2>4, <2>5
<1>. QED BY <1>1, <1>2, <1>3, <1>4, <1>5, Zenon

(* A file nothing was written to. *)
LEMMA JournalStarts == Journal!Init => Journal!JournalInv
<1>1. SUFFICES ASSUME Journal!Init PROVE Journal!JournalInv
  OBVIOUS
<1>2. v1 = << <<>> >> /\ v2 = 0 /\ v3 = {} /\ JournalEntries \in Nat
  BY <1>1, JournalAssumption DEF Journal!Init
<1>3. PICK P : P = [entry : 1 .. v2, whole : BOOLEAN]
  BY Zenon
<1>4. v1 \in Seq(Seq(P)) /\ v1 # <<>> /\ Len(v1) = 1 /\ DOMAIN v1 = {1} /\ v1[1] = <<>> /\ DOMAIN v1[1] = {}
  BY <1>2
<1>5. Journal!TypeOk
  BY <1>2, <1>4 DEF Journal!TypeOk, Journal!ToSet
<1>6. Journal!Unfinished = <<>> /\ DOMAIN Journal!Unfinished = {}
  BY <1>4 DEF Journal!Unfinished
<1>7. \A k \in 1 .. v2 : FALSE
  BY <1>2
<1>8. \A i, j \in DOMAIN v1 : i < j =>
        \A a \in DOMAIN v1[i], b \in DOMAIN v1[j] : v1[i][a].entry < v1[j][b].entry
  BY <1>4
<1>. QED BY <1>3, <1>4, <1>5, <1>6, <1>7, <1>8 DEF Journal!JournalInv

(* What writing to the last line gives: g, where v1 has n lines, the last  *)
(* of them of m pieces.                                                    *)
Grown(n, m, g, w, p) ==
  /\ n \in Nat \ {0} /\ m \in Nat /\ g \in Seq(Seq([entry : 1 .. w, whole : BOOLEAN]))
  /\ n = Len(v1) /\ m = Len(v1[n]) /\ g = Journal!Put(p)
  /\ Len(g) = n /\ DOMAIN g = 1 .. n /\ DOMAIN v1 = 1 .. n /\ \A i \in 1 .. n : i # n => g[i] = v1[i]
  /\ Len(g[n]) = m + 1 /\ g[n][m + 1] = p /\ \A a \in 1 .. m : g[n][a] = v1[n][a]
  /\ DOMAIN g[n] = 1 .. m + 1 /\ DOMAIN v1[n] = 1 .. m
  /\ \A i, j \in 1 .. n : i < j =>
       \A a \in DOMAIN g[i], b \in DOMAIN g[j] : g[i][a].entry < g[j][b].entry

LEMMA PutResults ==
  ASSUME Journal!JournalInv, NEW w, w = v2 + 1, NEW whole \in BOOLEAN,
         NEW p, p = [entry |-> w, whole |-> whole]
  PROVE  \E n, m, g : Grown(n, m, g, w, p)
<1>1. PICK n \in Nat \ {0} : n = Len(v1) /\ DOMAIN v1 = 1 .. n
  <2>1. Len(v1) \in Nat \ {0} /\ DOMAIN v1 = 1 .. Len(v1)
    BY LinesAre
  <2>. QED BY <2>1, Zenon
<1>2. w \in Nat /\ v2 \in Nat
  BY LinesAre
<1>3. PICK P : P = [entry : 1 .. w, whole : BOOLEAN]
  BY Zenon
<1>4. [entry : 1 .. v2, whole : BOOLEAN] \subseteq P /\ p \in P
  BY <1>2, <1>3
<1>5. ASSUME NEW i \in 1 .. n PROVE v1[i] \in Seq(P)
  <2>1. v1[i] \in Seq([entry : 1 .. v2, whole : BOOLEAN])
    BY <1>1, LinesAre
  <2>2. PICK Q : Q = [entry : 1 .. v2, whole : BOOLEAN] /\ Q \subseteq P
    BY <1>4, Zenon
  <2>3. PICK l \in Seq(Q) : l = v1[i]
    BY <2>1, <2>2
  <2>4. PICK k \in Nat : l \in [1 .. k -> Q]
    <3>1. l \in [1 .. Len(l) -> Q] /\ Len(l) \in Nat
      OBVIOUS
    <3>. QED BY <3>1, Zenon
  <2>5. l \in [1 .. k -> P]
    BY <2>2, <2>4
  <2>6. l \in Seq(P)
    BY <2>5
  <2>. QED BY <2>3, <2>6
<1>6. PICK l \in Seq(P) : l = v1[n]
  BY <1>5
<1>7. PICK m \in Nat : m = Len(l) /\ DOMAIN l = 1 .. m
  BY <1>6
<1>8. PICK q \in Seq(P) : q = Append(l, p)
  <2>1. Append(l, p) \in Seq(P)
    BY <1>4
  <2>. QED BY <2>1, Zenon
<1>9. Len(q) = m + 1 /\ DOMAIN q = 1 .. m + 1 /\ q[m + 1] = p /\ \A a \in 1 .. m : q[a] = l[a]
  BY <1>7, <1>8
<1>10. PICK g : g = Journal!Put(p)
  OBVIOUS
<1>11. g = [v1 EXCEPT ![n] = q]
  BY <1>1, <1>6, <1>8, <1>10 DEF Journal!Put
<1>12. n \in 1 .. n /\ DOMAIN g = 1 .. n /\ g[n] = q /\ \A i \in 1 .. n : i # n => g[i] = v1[i]
  BY <1>1, <1>11
<1>13. g \in Seq(Seq(P)) /\ Len(g) = n
  <2>1. \A i \in 1 .. n : g[i] \in Seq(P)
    BY <1>5, <1>12
  <2>2. g = [i \in 1 .. n |-> g[i]]
    BY <1>1, <1>11, Zenon
  <2>3. g \in [1 .. n -> Seq(P)]
    BY <2>1, <2>2
  <2>. QED BY <2>3
<1>14. ASSUME NEW i \in 1 .. n, NEW j \in 1 .. n, i < j, NEW a \in DOMAIN g[i], NEW b \in DOMAIN g[j]
       PROVE  g[i][a].entry < g[j][b].entry
  <2>1. i # n /\ g[i] = v1[i]
    BY <1>12, <1>14
  <2>2. v1[i][a].entry \in 1 .. v2
    BY <1>1, <2>1, LinesAre, Zenon
  <2>3. CASE j = n /\ b = m + 1
    <3>1. g[j][b].entry = w
      BY <1>9, <1>12, <2>3
    <3>. QED BY <1>2, <2>1, <2>2, <3>1
  <2>4. CASE ~(j = n /\ b = m + 1)
    <3>1. b \in DOMAIN v1[j] /\ g[j][b] = v1[j][b]
      <4>1. CASE j = n
        <5>1. b \in 1 .. m
          BY <1>9, <1>12, <2>4, <4>1
        <5>. QED BY <1>6, <1>7, <1>9, <1>12, <4>1, <5>1
      <4>2. CASE j # n
        BY <1>12, <4>2
      <4>. QED BY <4>1, <4>2
    <3>2. \A x \in DOMAIN v1[i], y \in DOMAIN v1[j] : v1[i][x].entry < v1[j][y].entry
      BY <1>1, <1>14, Zenon DEF Journal!JournalInv
    <3>. QED BY <2>1, <3>1, <3>2
  <2>. QED BY <2>3, <2>4
<1>15. Grown(n, m, g, w, p)
  BY <1>1, <1>3, <1>6, <1>7, <1>9, <1>10, <1>12, <1>13, <1>14, Zenon DEF Grown
<1>. QED BY <1>15

(* An entry that is in a line that parses stays in it: the last line holds *)
(* only what was cut off.                                                  *)
OthersStay(n, r) == \A i \in 1 .. n : i # n => i \in DOMAIN r /\ r[i] = v1[i]

LEMMA ParsedStay ==
  ASSUME Journal!JournalInv, NEW n \in Nat \ {0}, n = Len(v1), NEW r,
         OthersStay(n, r), NEW k \in 1 .. v2, k \notin v3, k - 1 \notin v3
  PROVE  \E i \in DOMAIN r : Journal!Parses(r[i]) /\ r[i][1].entry = k
<1>1. PICK i \in DOMAIN v1 : Journal!Parses(v1[i]) /\ v1[i][1].entry = k
  BY Zenon DEF Journal!JournalInv
<1>2. i \in 1 .. n
  BY <1>1, LinesAre
<1>3. i # n
  <2>1. ASSUME i = n PROVE FALSE
    <3>1. 1 \in DOMAIN v1[i]
      <4>1. Len(v1[i]) = 1
        BY <1>1 DEF Journal!Parses
      <4>. QED BY <1>2, <4>1, LinesAre
    <3>2. v1[i][1].entry \in v3
      BY <2>1, <3>1 DEF Journal!JournalInv, Journal!Unfinished
    <3>. QED BY <1>1, <3>2
  <2>. QED BY <2>1
<1>. QED BY <1>1, <1>2, <1>3 DEF OthersStay

(* The types after a step, from the lines'. *)
LEMMA JournalTypes ==
  ASSUME v2' \in 0 .. JournalEntries, v3' \subseteq 1 .. v2',
         v1' \in Seq(Seq([entry : 1 .. v2', whole : BOOLEAN]))
  PROVE  Journal!TypeOk'
<1>1. ASSUME NEW i \in DOMAIN v1', NEW x \in Journal!ToSet(v1'[i]) PROVE x.entry \in 1 .. v2'
  <2>1. v1'[i] \in Seq([entry : 1 .. v2', whole : BOOLEAN])
    OBVIOUS
  <2>2. PICK P : P = [entry : 1 .. v2', whole : BOOLEAN]
    BY Zenon
  <2>3. PICK l \in Seq(P) : l = v1'[i]
    BY <2>1, <2>2
  <2>4. PICK a \in DOMAIN l : x = l[a]
    BY <2>3 DEF Journal!ToSet
  <2>5. x \in P
    BY <2>4
  <2>. QED BY <2>2, <2>5
<1>. QED BY <1>1, Zenon DEF Journal!TypeOk, Journal!ToSet

LEMMA AppendsStep ==
  ASSUME Journal!JournalInv, Journal!Appends
  PROVE  Journal!JournalInv'
<1>1. PICK w : w = v2 + 1
  OBVIOUS
<1>2. PICK p : p = [entry |-> w, whole |-> TRUE]
  BY Zenon
<1>3. PICK n, m, g : Grown(n, m, g, w, p)
  BY <1>1, <1>2, PutResults, Zenon
<1>4. n \in Nat \ {0} /\ m \in Nat /\ g \in Seq(Seq([entry : 1 .. w, whole : BOOLEAN]))
  BY <1>3 DEF Grown
<1>5. /\ n = Len(v1) /\ m = Len(v1[n]) /\ g = Journal!Put(p)
      /\ Len(g) = n /\ DOMAIN g = 1 .. n /\ DOMAIN v1 = 1 .. n /\ \A i \in 1 .. n : i # n => g[i] = v1[i]
      /\ Len(g[n]) = m + 1 /\ g[n][m + 1] = p /\ \A a \in 1 .. m : g[n][a] = v1[n][a]
      /\ DOMAIN g[n] = 1 .. m + 1 /\ DOMAIN v1[n] = 1 .. m
      /\ \A i, j \in 1 .. n : i < j =>
           \A a \in DOMAIN g[i], b \in DOMAIN g[j] : g[i][a].entry < g[j][b].entry
  BY <1>3 DEF Grown
<1>6. v2' = w /\ v3' = v3 /\ v1' = Append(g, <<>>) /\ v2 < JournalEntries
  BY <1>1, <1>2, <1>5 DEF Journal!Appends, Journal!AppendEntry
<1>7. w \in Nat /\ v2 \in Nat /\ v3 \subseteq 1 .. v2 /\ w <= JournalEntries /\ JournalEntries \in Nat
  BY <1>1, <1>6, LinesAre, JournalAssumption
<1>8. PICK P : P = [entry : 1 .. w, whole : BOOLEAN]
  BY Zenon
<1>9. v1' \in Seq(Seq(P)) /\ Len(v1') = n + 1 /\ DOMAIN v1' = 1 .. n + 1 /\ v1'[n + 1] = <<>>
      /\ \A i \in 1 .. n : v1'[i] = g[i]
  <2>1. PICK S : S = Seq(P)
    OBVIOUS
  <2>2. g \in Seq(S) /\ <<>> \in S
    BY <1>4, <1>8, <2>1
  <2>3. PICK e \in S : e = <<>>
    BY <2>2
  <2>4. PICK h \in Seq(S) : h = Append(g, e)
    <3>1. Append(g, e) \in Seq(S)
      BY <2>2
    <3>. QED BY <3>1, Zenon
  <2>5. Len(h) = n + 1 /\ DOMAIN h = 1 .. n + 1 /\ h[n + 1] = e /\ \A i \in 1 .. n : h[i] = g[i]
    BY <1>4, <1>5, <2>2, <2>4
  <2>. QED BY <1>6, <2>1, <2>3, <2>4, <2>5, Zenon
<1>10. v1' # <<>>
  <2>1. n + 1 # 0
    BY <1>4
  <2>. QED BY <1>9, <2>1
<1>11. Journal!TypeOk'
  <2>1. v2' \in 0 .. JournalEntries /\ v3' \subseteq 1 .. v2'
    BY <1>1, <1>6, <1>7
  <2>. QED BY <1>6, <1>8, <1>9, <2>1, JournalTypes
<1>12. ASSUME NEW i \in DOMAIN v1', NEW j \in DOMAIN v1', i < j, NEW a \in DOMAIN v1'[i], NEW b \in DOMAIN v1'[j]
       PROVE  v1'[i][a].entry < v1'[j][b].entry
  <2>1. j # n + 1
    BY <1>9
  <2>2. i \in 1 .. n /\ j \in 1 .. n
    BY SMTT(40), <1>4, <1>9, <1>12, <2>1
  <2>. QED BY SMTT(40), <1>5, <1>9, <1>12, <2>2
<1>13. Journal!Unfinished' = <<>> /\ DOMAIN Journal!Unfinished' = {}
  BY <1>9 DEF Journal!Unfinished
<1>14. ASSUME NEW k \in 1 .. v2', k \notin v3', k - 1 \notin v3'
       PROVE  \E i \in DOMAIN v1' : Journal!Parses(v1'[i]) /\ v1'[i][1].entry = k
  <2>1. CASE k = w
    <3>1. v2 \notin v3
      BY <1>1, <1>6, <1>7, <1>14, <2>1
    <3>2. v1[n] = <<>>
      BY <1>5, <3>1 DEF Journal!JournalInv, Journal!Unfinished
    <3>3. m = 0
      BY <1>5, <3>2
    <3>4. n \in DOMAIN v1' /\ Len(v1'[n]) = 1 /\ v1'[n][1] = p
      <4>1. n \in 1 .. n /\ n \in 1 .. n + 1
      BY <1>4
    <4>. QED BY <1>5, <1>9, <3>3, <4>1
    <3>5. p.whole = TRUE /\ p.entry = k
      BY <1>2, <2>1
    <3>6. Journal!Parses(v1'[n]) /\ v1'[n][1].entry = k
      BY <3>4, <3>5 DEF Journal!Parses
    <3>. QED BY <3>4, <3>6
  <2>2. CASE k # w
    <3>1. k \in 1 .. v2 /\ k \notin v3 /\ k - 1 \notin v3
      BY <1>1, <1>6, <1>7, <1>14, <2>2
    <3>2. OthersStay(n, v1')
      <4>1. \A i \in 1 .. n : i \in 1 .. n + 1
        BY <1>4
      <4>. QED BY <1>5, <1>9, <4>1 DEF OthersStay
    <3>. QED BY <1>4, <1>5, <3>1, <3>2, ParsedStay
  <2>. QED BY <2>1, <2>2
<1>15. v1' \in Seq(Seq([entry : 1 .. v2', whole : BOOLEAN]))
  BY <1>6, <1>8, <1>9
<1>. QED BY <1>10, <1>11, <1>12, <1>13, <1>14, <1>15 DEF Journal!JournalInv, Journal!Parses

LEMMA KilledStep ==
  ASSUME Journal!JournalInv, Journal!KilledInAppend
  PROVE  Journal!JournalInv'
<1>1. PICK w : w = v2 + 1
  OBVIOUS
<1>2. PICK whole \in BOOLEAN : v1' = Journal!Put([entry |-> w, whole |-> whole])
  BY <1>1 DEF Journal!KilledInAppend
<1>16. PICK p : p = [entry |-> w, whole |-> whole]
  BY Zenon
<1>3. PICK n, m, g : Grown(n, m, g, w, p)
  BY <1>1, <1>16, PutResults
<1>4. n \in Nat \ {0} /\ m \in Nat /\ g \in Seq(Seq([entry : 1 .. w, whole : BOOLEAN]))
  BY <1>3 DEF Grown
<1>5. /\ n = Len(v1) /\ m = Len(v1[n]) /\ g = Journal!Put(p)
      /\ Len(g) = n /\ DOMAIN g = 1 .. n /\ DOMAIN v1 = 1 .. n /\ \A i \in 1 .. n : i # n => g[i] = v1[i]
      /\ Len(g[n]) = m + 1 /\ g[n][m + 1] = p /\ \A a \in 1 .. m : g[n][a] = v1[n][a]
      /\ DOMAIN g[n] = 1 .. m + 1 /\ DOMAIN v1[n] = 1 .. m
      /\ \A i, j \in 1 .. n : i < j =>
           \A a \in DOMAIN g[i], b \in DOMAIN g[j] : g[i][a].entry < g[j][b].entry
  BY <1>3 DEF Grown
<1>6. v2' = w /\ v3' = v3 \cup {w} /\ v1' = g /\ v2 < JournalEntries
  BY <1>1, <1>2, <1>16, <1>5 DEF Journal!KilledInAppend
<1>7. w \in Nat /\ v2 \in Nat /\ v3 \subseteq 1 .. v2 /\ w <= JournalEntries /\ JournalEntries \in Nat
  BY <1>1, <1>6, LinesAre, JournalAssumption
<1>8. v1' \in Seq(Seq([entry : 1 .. v2', whole : BOOLEAN])) /\ DOMAIN v1' = 1 .. n /\ Len(v1') = n /\ v1' # <<>>
  BY <1>4, <1>5, <1>6
<1>9. Journal!TypeOk'
  <2>1. v2' \in 0 .. JournalEntries /\ v3' \subseteq 1 .. v2'
    BY <1>1, <1>6, <1>7
  <2>. QED BY <1>8, <2>1, JournalTypes
<1>10. ASSUME NEW i \in DOMAIN v1', NEW j \in DOMAIN v1', i < j, NEW a \in DOMAIN v1'[i], NEW b \in DOMAIN v1'[j]
       PROVE  v1'[i][a].entry < v1'[j][b].entry
  BY <1>5, <1>6, <1>8, <1>10, Zenon
<1>11. v1'[Len(v1')] = g[n]
  BY <1>6, <1>8
<1>12. ASSUME NEW a \in DOMAIN g[n] PROVE g[n][a].entry \in v3'
  <2>1. CASE a = m + 1
    <3>1. g[n][a].entry = w
      BY <1>16, <1>5, <2>1
    <3>. QED BY <1>6, <3>1
  <2>2. CASE a # m + 1
    <3>1. a \in 1 .. m
      BY <1>5, <2>2
    <3>2. v1[n][a].entry \in v3
      BY <1>5, <3>1 DEF Journal!JournalInv, Journal!Unfinished
    <3>. QED BY <1>5, <1>6, <3>1, <3>2
  <2>. QED BY <2>1, <2>2
<1>13. (\A a \in DOMAIN Journal!Unfinished' : Journal!Unfinished'[a].entry \in v3') /\ v2' \in v3'
  BY <1>6, <1>11, <1>12 DEF Journal!Unfinished
<1>14. ASSUME NEW k \in 1 .. v2', k \notin v3', k - 1 \notin v3'
       PROVE  \E i \in DOMAIN v1' : Journal!Parses(v1'[i]) /\ v1'[i][1].entry = k
  <2>1. k \in 1 .. v2 /\ k \notin v3 /\ k - 1 \notin v3
    BY <1>1, <1>6, <1>7, <1>14
  <2>2. OthersStay(n, v1')
    BY <1>5, <1>6 DEF OthersStay
  <2>. QED BY <1>4, <1>5, <2>1, <2>2, ParsedStay
<1>. QED BY <1>8, <1>9, <1>10, <1>13, <1>14 DEF Journal!JournalInv, Journal!Parses

LEMMA JournalSteps ==
  ASSUME Journal!JournalInv, Journal!Next
  PROVE  Journal!JournalInv'
  BY AppendsStep, KilledStep DEF Journal!Next

LEMMA JournalStays ==
  ASSUME Journal!JournalInv, UNCHANGED Journal!journalVars
  PROVE  Journal!JournalInv'
<1>1. v1' = v1 /\ v2' = v2 /\ v3' = v3
  BY DEF Journal!journalVars
<1>2. Journal!TypeOk'
  BY <1>1 DEF Journal!JournalInv, Journal!TypeOk
<1>3. Journal!Unfinished' = Journal!Unfinished
  BY <1>1 DEF Journal!Unfinished
<1>4. /\ v1 \in Seq(Seq([entry : 1 .. v2, whole : BOOLEAN])) /\ v1 # <<>>
      /\ \A i, j \in DOMAIN v1 : i < j =>
           \A a \in DOMAIN v1[i], b \in DOMAIN v1[j] : v1[i][a].entry < v1[j][b].entry
  BY DEF Journal!JournalInv
<1>5. /\ \A a \in DOMAIN Journal!Unfinished : Journal!Unfinished[a].entry \in v3
      /\ Journal!Unfinished # <<>> => v2 \in v3
  BY DEF Journal!JournalInv
<1>6. \A k \in 1 .. v2 : \/ k \in v3 \/ k - 1 \in v3
                        \/ \E i \in DOMAIN v1 : Journal!Parses(v1[i]) /\ v1[i][1].entry = k
  BY DEF Journal!JournalInv
<1>. QED BY ZenonT(60), <1>1, <1>2, <1>3, <1>4, <1>5, <1>6 DEF Journal!JournalInv

LEMMA JournalReads ==
  ASSUME Journal!JournalInv
  PROVE  Journal!TypeOk /\ Journal!JournalKeeps
<1>1. PICK V : v1 \in Seq(V)
  BY LinesAre
<1>2. PICK K : K = {i \in DOMAIN v1 : Journal!Parses(v1[i])}
  BY Zenon
<1>3. PICK n \in Nat : n = Len(v1) /\ DOMAIN v1 = 1 .. n
  <2>1. Len(v1) \in Nat /\ DOMAIN v1 = 1 .. Len(v1)
    BY <1>1
  <2>. QED BY <2>1, Zenon
<1>4. \A i \in K : i \in 1 .. Len(v1)
  BY <1>2, <1>3
<1>5. PICK good : good = Kept(v1, K)
  OBVIOUS
<1>6. good \in Seq(V)
  BY <1>1, <1>4, <1>5, KeptPicks
<1>7. PICK e : Picks(e, good, v1, K)
  BY <1>1, <1>4, <1>5, KeptPicks
<1>8. PICK l \in Nat : l = Len(good) /\ DOMAIN good = 1 .. l
  BY <1>6
<1>9. Journal!Kept(v1, K) = Kept(v1, K)
  BY DEF Journal!Kept, Kept
<1>10. PICK r : r = Journal!Read
  OBVIOUS
<1>11. r = [i \in 1 .. l |-> good[i][1].entry]
  BY <1>2, <1>5, <1>8, <1>9, <1>10, Zenon DEF Journal!Read
<1>12. ASSUME NEW i \in K PROVE i \in DOMAIN v1 /\ 1 \in DOMAIN v1[i]
  <2>1. Len(v1[i]) = 1 /\ i \in DOMAIN v1
    BY <1>2 DEF Journal!Parses
  <2>. QED BY <1>3, <2>1, LinesAre
<1>13. ASSUME NEW i \in 1 .. l, NEW j \in 1 .. l, i < j PROVE r[i] < r[j]
  <2>1. e[i] \in K /\ e[j] \in K /\ e[i] < e[j] /\ good[i] = v1[e[i]] /\ good[j] = v1[e[j]]
    BY <1>7, <1>8, <1>13 DEF Picks
  <2>2. v1[e[i]][1].entry < v1[e[j]][1].entry
    BY <1>12, <2>1, Zenon DEF Journal!JournalInv
  <2>. QED BY <1>11, <2>1, <2>2
<1>14. ASSUME NEW k \in 1 .. v2, k \notin v3, k - 1 \notin v3 PROVE k \in Journal!ToSet(r)
  <2>1. PICK i \in DOMAIN v1 : Journal!Parses(v1[i]) /\ v1[i][1].entry = k
    BY <1>14, Zenon DEF Journal!JournalInv
  <2>2. i \in K
    BY <1>2, <2>1
  <2>3. PICK j \in 1 .. l : e[j] = i /\ good[j] = v1[i]
    BY <1>7, <1>8, <2>2 DEF Picks
  <2>4. r[j] = k /\ DOMAIN r = 1 .. l
    BY <1>11, <2>1, <2>3
  <2>. QED BY <2>4 DEF Journal!ToSet
<1>15. DOMAIN r = 1 .. l
  BY <1>11
<1>16. Journal!JournalKeeps
  BY <1>10, <1>13, <1>14, <1>15 DEF Journal!JournalKeeps
<1>. QED BY <1>16 DEF Journal!JournalInv
-----------------------------------------------------------------------------
(* The live channel of the dashboard: the server, the sockets between, and   *)
(* the page that shows its status, log lines and trades.                     *)
LEMMA PageMax == \A a, b \in Int : Page!Max({a, b}) \in {a, b} /\ Page!Max({a, b}) >= a /\ Page!Max({a, b}) >= b
<1>1. SUFFICES ASSUME NEW a \in Int, NEW b \in Int
      PROVE  \E x \in {a, b} : \A y \in {a, b} : x >= y
  BY <1>1, Zenon DEF Page!Max
<1>2. a >= b \/ b >= a
  OBVIOUS
<1>. QED BY <1>2

LEMMA PageMin == \A a, b \in Int : Page!Min({a, b}) \in {a, b} /\ Page!Min({a, b}) <= a /\ Page!Min({a, b}) <= b
<1>1. SUFFICES ASSUME NEW a \in Int, NEW b \in Int
      PROVE  \E x \in {a, b} : \A y \in {a, b} : x <= y
  BY <1>1, Zenon DEF Page!Min
<1>2. a <= b \/ b <= a
  OBVIOUS
<1>. QED BY <1>2

(* The last n elements of s: d are left out, if any then all but n. *)
LEMMA LastOfIs ==
  ASSUME NEW S, NEW s \in Seq(S), NEW n \in Nat
  PROVE  /\ Page!LastOf(s, n) \in Seq(S)
         /\ \E d \in Nat : /\ Len(s) = Len(Page!LastOf(s, n)) + d /\ Len(Page!LastOf(s, n)) <= n
                           /\ d = 0 \/ Len(Page!LastOf(s, n)) = n
                           /\ \A k \in 1 .. Len(Page!LastOf(s, n)) : Page!LastOf(s, n)[k] = s[k + d]
<1>1. PICK l \in Nat : l = Len(s)
  OBVIOUS
<1>2. PICK m \in Int : m = Page!Max({1, l - n + 1}) /\ m \in {1, l - n + 1} /\ m >= 1 /\ m >= l - n + 1
  <2>1. PICK q \in Int : q = l - n + 1
    BY <1>1
  <2>2. PICK m : m = Page!Max({1, q})
    OBVIOUS
  <2>3. m \in {1, q} /\ m >= 1 /\ m >= q
    <3>1. 1 \in Int
      OBVIOUS
    <3>. QED BY <2>1, <2>2, <3>1, PageMax, Zenon
  <2>4. m \in Int
    BY <2>1, <2>3
  <2>. QED BY <2>1, <2>2, <2>3, <2>4
<1>3. PICK r : r = SubSeq(s, m, l)
  BY Zenon
<1>4. Page!LastOf(s, n) = r
  BY <1>1, <1>2, <1>3 DEF Page!LastOf
<1>5. m <= l + 1
  BY <1>2
<1>6. r \in Seq(S) /\ Len(r) = l - m + 1 /\ \A k \in 1 .. l - m + 1 : r[k] = s[k + m - 1]
  <2>1. \A k \in m .. l : s[k] \in S
    BY <1>1, <1>2
  <2>2. /\ r \in Seq(S) /\ Len(r) = IF m <= l THEN l - m + 1 ELSE 0
        /\ \A k \in 1 .. l - m + 1 : r[k] = s[m + k - 1]
    <3>1. l \in Int
      BY <1>1
    <3>2. /\ SubSeq(s, m, l) \in Seq(S) /\ Len(SubSeq(s, m, l)) = IF m <= l THEN l - m + 1 ELSE 0
          /\ \A k \in 1 .. l - m + 1 : SubSeq(s, m, l)[k] = s[m + k - 1]
      <4>1. m \in Int
        BY <1>2
      <4>2. SubSeq(s, m, l) \in Seq(S)
        BY <4>1, <2>1, <3>1, SubSeqProperties
      <4>3. Len(SubSeq(s, m, l)) = IF m <= l THEN l - m + 1 ELSE 0
        BY <4>1, <2>1, <3>1, SubSeqProperties
      <4>4. \A k \in 1 .. l - m + 1 : SubSeq(s, m, l)[k] = s[m + k - 1]
        BY <4>1, <2>1, <3>1, SubSeqProperties
      <4>. QED BY <4>2, <4>3, <4>4
    <3>. QED BY <1>3, <3>2
  <2>3. Len(r) = l - m + 1
    BY <1>1, <1>2, <1>5, <2>2
  <2>4. ASSUME NEW k \in 1 .. l - m + 1 PROVE r[k] = s[k + m - 1]
    <3>1. m + k - 1 = k + m - 1
      BY <1>1, <1>2
    <3>. QED BY <2>2, <3>1
  <2>. QED BY <2>2, <2>3, <2>4
<1>7. m - 1 \in Nat /\ l = Len(r) + (m - 1) /\ Len(r) <= n /\ (m - 1 = 0 \/ Len(r) = n)
  <2>1. CASE m = 1
    BY <1>1, <1>2, <1>5, <1>6, <2>1
  <2>2. CASE m = l - n + 1
    <3>1. m - 1 \in Nat /\ m - 1 = l - n
      BY <1>1, <1>2, <2>2
    <3>2. Len(r) = n
      BY <1>1, <1>6, <2>2
    <3>. QED BY <1>1, <3>1, <3>2
  <2>. QED BY <1>2, <2>1, <2>2
<1>8. \A k \in 1 .. Len(r) : r[k] = s[k + (m - 1)]
  BY <1>1, <1>2, <1>6, Zenon
<1>. QED BY <1>1, <1>4, <1>6, <1>7, <1>8, Zenon

(* What an event of the channel carries.                                   *)
LEMMA EventIs ==
  ASSUME NEW e \in Page!Events
  PROVE  /\ e.type \in {"status", "log", "trade"}
         /\ e.type = "status" => e.payload \in {"STOPPED", "RUNNING"}
         /\ e.type = "log" => e.payload \in Nat
         /\ e.type = "trade" => e.payload \in Page!Rows
  BY DEF Page!Events

FeedShape ==
         /\ v1.logs \in Seq(Nat) /\ v1.nextLog \in Nat /\ v1.status \in {"STOPPED", "RUNNING"}
         /\ v1.trades \in [PageTrades -> {"none", "open", "closed"}] /\ v1.token \in PageTokens /\ v1.cors \in BOOLEAN
         /\ DOMAIN v2 = PageSockets
         /\ \A i \in PageSockets : v2[i].inbox \in Seq(Page!Events) /\ v2[i].phase \in Page!Phases
         /\ v3.timers \in Nat /\ v3.auth \in {"checking", "required", "authenticated"} /\ v3.token \in PageTokens
         /\ v4.logs \in Seq(Nat) /\ v4.trades \in Seq(Page!Rows) /\ v4.status \in {"none", "STOPPED", "RUNNING"}
         /\ v4.connected \in BOOLEAN /\ v4.unauthorised \in BOOLEAN

(* The shape of the state, in the sets the other lemmas need.              *)
LEMMA FeedViews == Page!TypeOk => FeedShape
<1> SUFFICES ASSUME Page!TypeOk PROVE FeedShape
  OBVIOUS
<1>1. PICK N, R, T, E, P : N = Seq(Nat) /\ R = Seq(Page!Rows) /\ E = Seq(Page!Events) /\ P = Page!Phases
                           /\ T = [PageTrades -> {"none", "open", "closed"}]
  BY Zenon
<1>2. v1 \in [token : PageTokens, cors : BOOLEAN, status : {"STOPPED", "RUNNING"}, logs : N, trades : T, nextLog : Nat]
  BY <1>1 DEF Page!TypeOk
<1>3. v2 \in [PageSockets -> [phase : P, inbox : E]]
  BY <1>1 DEF Page!TypeOk
<1>4. v3 \in [auth : {"checking", "required", "authenticated"}, token : PageTokens, timers : Nat]
  BY DEF Page!TypeOk
<1>5. v4 \in [connected : BOOLEAN, unauthorised : BOOLEAN, status : {"none", "STOPPED", "RUNNING"}, logs : N, trades : R]
  BY <1>1 DEF Page!TypeOk
<1>6. v1.logs \in N /\ v1.trades \in T /\ v4.logs \in N /\ v4.trades \in R /\ \A i \in PageSockets : v2[i].inbox \in E /\ v2[i].phase \in P
  BY <1>2, <1>3, <1>5
<1>. QED BY <1>1, <1>2, <1>3, <1>4, <1>5, <1>6 DEF FeedShape

LEMMA FeedViewsNext == Page!TypeOk' => FeedShape'
  BY FeedViews, PTL

(* The lines that are shown: one more, the oldest dropped beyond the limit. *)
LEMMA WithLogIs ==
  ASSUME NEW lines \in Seq(Nat), NEW id \in Nat, Page!IsInjective(lines), Len(lines) <= PageShown
  PROVE  /\ Page!WithLog(lines, id) \in Seq(Nat) /\ Len(Page!WithLog(lines, id)) <= PageShown
         /\ Page!IsInjective(Page!WithLog(lines, id))
         /\ Page!Contains(lines, id) => Page!WithLog(lines, id) = lines
         /\ ~Page!Contains(lines, id) =>
              \E d \in Nat :
                /\ Len(lines) + 1 = Len(Page!WithLog(lines, id)) + d
                /\ d = 0 \/ Len(Page!WithLog(lines, id)) = PageShown
                /\ \A k \in 1 .. Len(Page!WithLog(lines, id)) :
                     Page!WithLog(lines, id)[k] = IF k + d = Len(lines) + 1 THEN id ELSE lines[k + d]
<1>1. CASE Page!Contains(lines, id)
  <2>1. Page!WithLog(lines, id) = lines
    BY <1>1 DEF Page!WithLog
  <2>. QED BY <1>1, <2>1
<1>2. CASE ~Page!Contains(lines, id)
  <2>1. PICK n \in Nat : n = Len(lines) /\ DOMAIN lines = 1 .. n
    OBVIOUS
  <2>2. PICK u \in Seq(Nat) : u = Append(lines, id)
    <3>1. Append(lines, id) \in Seq(Nat)
      OBVIOUS
    <3>. QED BY <3>1, Zenon
  <2>3. Len(u) = n + 1 /\ \A k \in 1 .. n + 1 : u[k] = IF k = n + 1 THEN id ELSE lines[k]
    BY <2>1, <2>2
  <2>4. PICK r : r = Page!LastOf(u, PageShown)
    OBVIOUS
  <2>5. Page!WithLog(lines, id) = r
    BY <1>2, <2>2, <2>4 DEF Page!WithLog
  <2>6. PICK d \in Nat : /\ r \in Seq(Nat) /\ n + 1 = Len(r) + d /\ Len(r) <= PageShown
                         /\ d = 0 \/ Len(r) = PageShown
                         /\ \A k \in 1 .. Len(r) : r[k] = u[k + d]
    <3>1. PageShown \in Nat
      BY PageAssumption
    <3>2. /\ r \in Seq(Nat)
          /\ \E d \in Nat : /\ Len(u) = Len(r) + d /\ Len(r) <= PageShown
                            /\ d = 0 \/ Len(r) = PageShown
                            /\ \A k \in 1 .. Len(r) : r[k] = u[k + d]
      BY ZenonT(60), <2>2, <2>4, <3>1, LastOfIs
    <3>. QED BY <2>3, <3>2, Zenon
  <2>7. \A k \in 1 .. Len(r) : k + d \in 1 .. n + 1 /\ r[k] = IF k + d = n + 1 THEN id ELSE lines[k + d]
    BY SMTT(60), <2>3, <2>6
  <2>8. \A k \in 1 .. n : lines[k] # id
    BY <1>2, <2>1 DEF Page!Contains
  <2>9. \A k, l \in 1 .. n : lines[k] = lines[l] => k = l
    BY <2>1, Zenon DEF Page!IsInjective
  <2>10. \A k, l \in 1 .. Len(r) : r[k] = r[l] => k = l
    <3>1. ASSUME NEW k \in 1 .. Len(r), NEW l \in 1 .. Len(r), r[k] = r[l] PROVE k = l
      <4>1. PICK a \in 1 .. n + 1, b \in 1 .. n + 1 : /\ a = k + d /\ b = l + d
              /\ r[k] = (IF a = n + 1 THEN id ELSE lines[a]) /\ r[l] = IF b = n + 1 THEN id ELSE lines[b]
        BY <2>7, <3>1
      <4>2. a # n + 1 => a \in 1 .. n
        OBVIOUS
      <4>3. b # n + 1 => b \in 1 .. n
        OBVIOUS
      <4>4. a = b
        BY <2>8, <2>9, <3>1, <4>1, <4>2, <4>3, Zenon
      <4>. QED BY <2>6, <3>1, <4>1, <4>4
    <3>. QED BY <3>1
  <2>11. Page!IsInjective(r)
    <3>1. DOMAIN r = 1 .. Len(r)
      BY <2>6
    <3>. QED BY <2>10, <3>1 DEF Page!IsInjective
  <2>. QED BY <1>2, <2>1, <2>5, <2>6, <2>7, <2>11, Zenon
<1>. QED BY <1>1, <1>2

(* The page keeps the elements as every module does.                       *)
LEMMA PageKept == \A s, K : Page!Kept(s, K) = Kept(s, K)
  BY DEF Page!Kept, Kept

(* The rows that are shown: the trade's own comes last, the others stay. *)
LEMMA WithTradeIs ==
  ASSUME NEW rows \in Seq(Page!Rows), NEW row \in Page!Rows,
         \A k, l \in DOMAIN rows : rows[k][1] = rows[l][1] => k = l
  PROVE  /\ Page!WithTrade(rows, row) \in Seq(Page!Rows)
         /\ \A k, l \in DOMAIN Page!WithTrade(rows, row) :
              Page!WithTrade(rows, row)[k][1] = Page!WithTrade(rows, row)[l][1] => k = l
         /\ \A k \in DOMAIN Page!WithTrade(rows, row) :
              \/ Page!WithTrade(rows, row)[k] = row
              \/ \E j \in DOMAIN rows : rows[j][1] # row[1] /\ Page!WithTrade(rows, row)[k] = rows[j]
<1>1. PICK V : V = Page!Rows
  OBVIOUS
<1>2. PICK n \in Nat : n = Len(rows) /\ DOMAIN rows = 1 .. n /\ rows \in Seq(V)
  BY <1>1
<1>3. PICK K : K = {i \in 1 .. n : rows[i][1] # row[1]}
  BY Zenon
<1>4. PICK w : w = Kept(rows, K)
  OBVIOUS
<1>5. PICK e : w \in Seq(V) /\ Picks(e, w, rows, K)
  BY <1>2, <1>3, <1>4, KeptPicks, Zenon
<1>6. PICK m \in Nat : m = Len(w)
  BY <1>5
<1>7. /\ \A j \in 1 .. m : e[j] \in 1 .. n /\ rows[e[j]][1] # row[1] /\ w[j] = rows[e[j]]
      /\ \A i, j \in 1 .. m : i < j => e[i] < e[j]
  BY <1>3, <1>5, <1>6 DEF Picks
<1>8. PICK u \in Seq(V) : u = Append(w, row)
  <2>1. Append(w, row) \in Seq(V)
    BY <1>1, <1>5
  <2>. QED BY <2>1, Zenon
<1>9. Len(u) = m + 1 /\ \A k \in 1 .. m + 1 : u[k] = IF k = m + 1 THEN row ELSE w[k]
  BY <1>5, <1>6, <1>8
<1>10. PICK r : r = Page!LastOf(u, PageShown)
  OBVIOUS
<1>11. Page!WithTrade(rows, row) = r
  BY <1>2, <1>3, <1>4, <1>8, <1>10, PageKept, Zenon DEF Page!WithTrade, Page!WithoutTrade
<1>12. PICK d \in Nat : r \in Seq(V) /\ m + 1 = Len(r) + d /\ \A k \in 1 .. Len(r) : r[k] = u[k + d]
  <2>1. PageShown \in Nat
    BY PageAssumption
  <2>2. /\ r \in Seq(V)
        /\ \E d \in Nat : Len(u) = Len(r) + d /\ \A k \in 1 .. Len(r) : r[k] = u[k + d]
    <3>1. r \in Seq(V)
      BY <1>8, <1>10, <2>1, LastOfIs, Zenon
    <3>2. \E d \in Nat : /\ Len(u) = Len(r) + d /\ Len(r) <= PageShown
                         /\ d = 0 \/ Len(r) = PageShown
                         /\ \A k \in 1 .. Len(r) : r[k] = u[k + d]
      <4>1. u \in Seq(V)
        BY <1>8
      <4>2. \E d \in Nat : /\ Len(u) = Len(Page!LastOf(u, PageShown)) + d /\ Len(Page!LastOf(u, PageShown)) <= PageShown
                           /\ d = 0 \/ Len(Page!LastOf(u, PageShown)) = PageShown
                           /\ \A k \in 1 .. Len(Page!LastOf(u, PageShown)) : Page!LastOf(u, PageShown)[k] = u[k + d]
        BY ZenonT(60), <4>1, <2>1, LastOfIs
      <4>. QED BY <1>10, <4>2
    <3>. QED BY <3>1, <3>2, Zenon
  <2>. QED BY <1>9, <2>2, Zenon
<1>13. DOMAIN r = 1 .. Len(r) /\ Len(r) \in Nat
  BY <1>12
<1>14. \A k \in 1 .. Len(r) : k + d \in 1 .. m + 1 /\ r[k] = u[k + d]
  BY <1>12, <1>13
<1>15. \A i, j \in 1 .. m : w[i][1] = w[j][1] => i = j
  <2>1. ASSUME NEW i \in 1 .. m, NEW j \in 1 .. m, w[i][1] = w[j][1] PROVE i = j
    <3>1. e[i] = e[j]
      BY <1>2, <1>7, <2>1
    <3>2. ~(i < j) /\ ~(j < i)
      BY <1>7, <3>1
    <3>. QED BY <3>2
  <2>. QED BY <2>1
<1>16. \A i, j \in 1 .. m + 1 : u[i][1] = u[j][1] => i = j
  <2>1. ASSUME NEW i \in 1 .. m + 1, NEW j \in 1 .. m + 1, u[i][1] = u[j][1] PROVE i = j
    <3>1. CASE i = m + 1 /\ j # m + 1
      <4>1. u[i] = row /\ j \in 1 .. m /\ u[j] = rows[e[j]] /\ rows[e[j]][1] # row[1]
        BY <1>7, <1>9, <3>1
      <4>. QED BY <2>1, <4>1
    <3>2. CASE j = m + 1 /\ i # m + 1
      <4>1. u[j] = row /\ i \in 1 .. m /\ u[i] = rows[e[i]] /\ rows[e[i]][1] # row[1]
        BY <1>7, <1>9, <3>2
      <4>. QED BY <2>1, <4>1
    <3>3. CASE i # m + 1 /\ j # m + 1
      <4>1. i \in 1 .. m /\ j \in 1 .. m /\ u[i] = w[i] /\ u[j] = w[j]
        BY <1>9, <3>3
      <4>. QED BY <1>15, <2>1, <4>1
    <3>. QED BY <3>1, <3>2, <3>3
  <2>. QED BY <2>1
<1>17. \A k, l \in DOMAIN r : r[k][1] = r[l][1] => k = l
  <2>1. ASSUME NEW k \in 1 .. Len(r), NEW l \in 1 .. Len(r), r[k][1] = r[l][1] PROVE k = l
    <3>1. k + d = l + d
      <4>1. PICK i \in 1 .. m + 1, j \in 1 .. m + 1 : i = k + d /\ j = l + d /\ r[k] = u[i] /\ r[l] = u[j]
        BY <1>14, <2>1
      <4>2. u[i][1] = u[j][1]
        BY <2>1, <4>1
      <4>3. i = j
        BY <1>16, <4>2
      <4>. QED BY <4>1, <4>3, Zenon
    <3>. QED BY <1>12, <2>1, <3>1
  <2>. QED BY <1>13, <2>1
<1>18. \A k \in DOMAIN r : r[k] = row \/ \E j \in DOMAIN rows : rows[j][1] # row[1] /\ r[k] = rows[j]
  <2>1. ASSUME NEW k \in 1 .. Len(r), r[k] # row PROVE \E j \in 1 .. n : rows[j][1] # row[1] /\ r[k] = rows[j]
    <3>1. PICK a \in 1 .. m + 1 : a = k + d /\ r[k] = u[a]
      BY <1>14, <2>1, Zenon
    <3>2. a # m + 1
      BY <1>9, <2>1, <3>1
    <3>3. a \in 1 .. m /\ r[k] = w[a]
      BY <1>9, <3>1, <3>2
    <3>. QED BY SMTT(60), <1>7, <3>3
  <2>. QED BY <1>2, <1>13, <2>1
<1>. QED BY <1>1, <1>11, <1>12, <1>17, <1>18
(* The invariant holds in every initial state.                             *)
LEMMA FeedStarts == Page!Init => Page!FeedInv
<1> SUFFICES ASSUME Page!Init PROVE Page!FeedInv
  OBVIOUS
<1>1. /\ v1 \in [token : PageTokens, cors : {TRUE}, status : {"STOPPED"}, logs : {<<>>},
                 trades : {[t \in PageTrades |-> "none"]}, nextLog : {1}]
      /\ v2 = [i \in PageSockets |-> Page!NoSocket]
      /\ v3 \in [auth : {"checking"}, token : PageTokens, timers : {0}]
      /\ v4 = Page!Blank /\ v5 = FALSE /\ v6 = FALSE /\ v7 = 0 /\ v8 = 0
  BY Zenon DEF Page!Init
<1>2. <<>> \in Seq(Nat) /\ <<>> \in Seq(Page!Rows) /\ <<>> \in Seq(Page!Events) /\ DOMAIN <<>> = {} /\ Len(<<>>) = 0
  OBVIOUS
<1>3. v1.logs = <<>> /\ v4.logs = <<>> /\ v4.trades = <<>> /\ v4.unauthorised = FALSE /\ v4.connected = FALSE
      /\ v3.timers = 0 /\ \A i \in PageSockets : v2[i] = Page!NoSocket
  BY <1>1 DEF Page!Blank
<1>4. \A i \in PageSockets : v2[i].phase = "none" /\ v2[i].inbox = <<>>
  BY <1>3 DEF Page!NoSocket
<1>5. Page!TypeOk
  <2>1. PICK N, R, T, E : N = Seq(Nat) /\ R = Seq(Page!Rows) /\ E = Seq(Page!Events)
                          /\ T = [PageTrades -> {"none", "open", "closed"}]
    BY Zenon
  <2>2. v1 \in [token : PageTokens, cors : BOOLEAN, status : {"STOPPED", "RUNNING"}, logs : N, trades : T, nextLog : Nat]
    <3>1. [t \in PageTrades |-> "none"] \in T
      BY <2>1
    <3>2. PICK t0 : t0 = [t \in PageTrades |-> "none"]
      BY Zenon
    <3>3. v1 \in [token : PageTokens, cors : {TRUE}, status : {"STOPPED"}, logs : {<<>>}, trades : {t0}, nextLog : {1}]
      BY <1>1, <3>2, Zenon
    <3>4. t0 \in T /\ <<>> \in N
      BY <1>2, <2>1, <3>1, <3>2
    <3>5. PICK k \in PageTokens : v1 = [token |-> k, cors |-> TRUE, status |-> "STOPPED", logs |-> <<>>, trades |-> t0, nextLog |-> 1]
      BY <3>3, Zenon
    <3>. QED BY <3>4, <3>5
  <2>3. v2 \in [PageSockets -> [phase : Page!Phases, inbox : E]]
    BY <1>1, <1>2, <2>1 DEF Page!NoSocket, Page!Phases
  <2>4. v3 \in [auth : {"checking", "required", "authenticated"}, token : PageTokens, timers : Nat]
    BY <1>1
  <2>5. v4 \in [connected : BOOLEAN, unauthorised : BOOLEAN, status : {"none", "STOPPED", "RUNNING"}, logs : N, trades : R]
    BY <1>1, <1>2, <2>1 DEF Page!Blank
  <2>6. v7 \in 0 .. PageEvents /\ v8 \in 0 .. PageFaults /\ 0 <= PageLogs /\ 0 <= PageShown
    BY <1>1, PageAssumption
  <2>7. Len(v1.logs) <= PageLogs /\ Len(v4.logs) <= PageShown
    BY <1>2, <1>3, <2>6
  <2>. QED BY <1>1, <2>1, <2>2, <2>3, <2>4, <2>5, <2>6, <2>7, Zenon DEF Page!TypeOk
<1>6. Page!Contained
  BY <1>3, <1>4 DEF Page!Contained, Page!Subscribed
<1>7. Page!Alone
  BY <1>3, <1>4 DEF Page!Alone, Page!Active
<1>8. Page!Numbered /\ Page!NoRepeats
  BY <1>2, <1>3, <1>4 DEF Page!Numbered, Page!NoRepeats, Page!IsInjective
<1>9. Page!InOrder /\ Page!StatusComes /\ Page!TradesCome
  <2>1. Page!InOrder
    BY <1>2, <1>3, <1>4 DEF Page!InOrder
  <2>2. Page!StatusComes
    BY <1>4 DEF Page!StatusComes, Page!Subscribed
  <2>3. Page!TradesCome
    BY <1>2, <1>3, <1>4 DEF Page!TradesCome
  <2>. QED BY <2>1, <2>2, <2>3
<1>. QED BY <1>5, <1>6, <1>7, <1>8, <1>9 DEF Page!FeedInv, Page!Flowing

(* A step that only closes, opens or empties sockets. *)
Thins ==
  /\ v4'.logs = v4.logs /\ v4'.trades = v4.trades /\ v4'.status = v4.status
  /\ v1'.logs \in {v1.logs, <<>>} /\ v1'.nextLog = v1.nextLog /\ v1'.trades = v1.trades
  /\ \A i \in PageSockets : v2'[i].inbox \in {v2[i].inbox, <<>>}
  /\ \A i \in PageSockets : v2'[i].phase = "open" => v2[i].phase = "open" /\ v2'[i].inbox = v2[i].inbox
  /\ v1'.status = v1.status \/ \A i \in PageSockets : v2'[i].phase # "open"
  /\ v5 \/ v6' \/ \A i \in PageSockets : v2'[i].inbox = v2[i].inbox
  /\ v6 => v6'
  /\ v5 => v5'

(* Sockets that close or go lose what is on its way, no more.              *)
LEMMA ThinsFlows ==
  ASSUME Page!FeedInv, Page!TypeOk', Thins
  PROVE  Page!Flowing'
<1>1. /\ v4'.logs = v4.logs /\ v4'.trades = v4.trades /\ v4'.status = v4.status
      /\ v1'.logs \in {v1.logs, <<>>} /\ v1'.nextLog = v1.nextLog /\ v1'.trades = v1.trades
  BY DEF Thins
<1>2. /\ \A i \in PageSockets : v2'[i].inbox \in {v2[i].inbox, <<>>}
      /\ \A i \in PageSockets : v2'[i].phase = "open" => v2[i].phase = "open" /\ v2'[i].inbox = v2[i].inbox
  BY DEF Thins
<1>3. DOMAIN <<>> = {}
  OBVIOUS
<1>4. Page!Numbered /\ Page!NoRepeats /\ (~v5 => Page!InOrder /\ Page!StatusComes /\ (~v6 => Page!TradesCome))
  BY DEF Page!FeedInv, Page!Flowing
<1>5. Page!Numbered'
  BY <1>1, <1>2, <1>3, <1>4 DEF Page!Numbered
<1>6. Page!NoRepeats'
  BY <1>1, <1>4 DEF Page!NoRepeats, Page!IsInjective
<1>7. ASSUME Page!InOrder PROVE Page!InOrder'
  <2>1. \A id : Page!ShownOrNewer(v4'.logs, id) <=> Page!ShownOrNewer(v4.logs, id)
    BY <1>1 DEF Page!ShownOrNewer, Page!Contains
  <2>2. \A k, l \in DOMAIN v4'.logs : k < l => v4'.logs[l] - v4'.logs[k] >= l - k
    BY <1>1, <1>7 DEF Page!InOrder
  <2>3. ASSUME NEW i \in PageSockets, NEW k \in DOMAIN v2'[i].inbox, v2'[i].inbox[k].type = "log"
        PROVE  /\ Page!ShownOrNewer(v4'.logs, v2'[i].inbox[k].payload)
               /\ \A l \in DOMAIN v2'[i].inbox : k < l /\ v2'[i].inbox[l].type = "log" =>
                    v2'[i].inbox[k].payload < v2'[i].inbox[l].payload
    <3>1. v2'[i].inbox = v2[i].inbox
      BY <1>2, <1>3, <2>3
    <3>2. /\ Page!ShownOrNewer(v4.logs, v2[i].inbox[k].payload)
          /\ \A l \in DOMAIN v2[i].inbox : k < l /\ v2[i].inbox[l].type = "log" =>
                    v2[i].inbox[k].payload < v2[i].inbox[l].payload
      BY <1>7, <2>3, <3>1 DEF Page!InOrder
    <3>. QED BY <2>1, <3>1, <3>2
  <2>4. ASSUME NEW k \in DOMAIN v1'.logs, k > Len(v1'.logs) - PageReplayed
        PROVE  /\ Page!ShownOrNewer(v4'.logs, v1'.logs[k])
               /\ \A i \in Page!Subscribed' :
                    \/ Page!Contains(v4'.logs, v1'.logs[k])
                    \/ \E l \in DOMAIN v2'[i].inbox : v2'[i].inbox[l] = [type |-> "log", payload |-> v1'.logs[k]]
    <3>1. v1'.logs = v1.logs
      BY <1>1, <1>3, <2>4
    <3>2. /\ Page!ShownOrNewer(v4.logs, v1.logs[k])
          /\ \A i \in Page!Subscribed :
               \/ Page!Contains(v4.logs, v1.logs[k])
               \/ \E l \in DOMAIN v2[i].inbox : v2[i].inbox[l] = [type |-> "log", payload |-> v1.logs[k]]
      BY <1>7, <2>4, <3>1, Zenon DEF Page!InOrder
    <3>3. \A i \in Page!Subscribed' : i \in Page!Subscribed /\ v2'[i].inbox = v2[i].inbox
      BY <1>2 DEF Page!Subscribed
    <3>. QED BY <1>1, <2>1, <3>1, <3>2, <3>3
  <2>. QED BY <2>2, <2>3, <2>4, Zenon DEF Page!InOrder
<1>8. ASSUME Page!StatusComes PROVE Page!StatusComes'
  <2>1. ASSUME NEW i \in Page!Subscribed'
        PROVE  i \in Page!Subscribed /\ v2'[i].inbox = v2[i].inbox /\ v1'.status = v1.status
    BY <1>2, <2>1 DEF Page!Subscribed, Thins
  <2>. QED BY <1>1, <1>8, <2>1 DEF Page!StatusComes, Page!LastStatus
<1>9. ASSUME Page!TradesCome, \A i \in PageSockets : v2'[i].inbox = v2[i].inbox PROVE Page!TradesCome'
  BY <1>1, <1>9 DEF Page!TradesCome, Page!LastTrade, Page!About
<1>10. /\ v5 \/ v6' \/ \A i \in PageSockets : v2'[i].inbox = v2[i].inbox
       /\ v6 => v6'
       /\ v5 => v5'
  BY DEF Thins
<1>. QED BY <1>4, <1>5, <1>6, <1>7, <1>8, <1>9, <1>10 DEF Page!Flowing

(* A page that is mounted anew. *)
LEMMA BlankFlows ==
  ASSUME Page!FeedInv, v1' = v1, v4' = Page!Blank,
         \A i \in PageSockets : v2'[i].phase # "open" /\ v2'[i].inbox = <<>>
  PROVE  Page!Flowing'
<1>1. v4'.logs = <<>> /\ v4'.trades = <<>> /\ DOMAIN <<>> = {}
  BY DEF Page!Blank
<1>2. Page!Numbered'
  BY <1>1 DEF Page!FeedInv, Page!Flowing, Page!Numbered
<1>3. Page!NoRepeats'
  BY <1>1 DEF Page!NoRepeats, Page!IsInjective
<1>4. Page!Subscribed' = {}
  BY DEF Page!Subscribed
<1>5. Page!InOrder'
  <2>1. \A id : Page!ShownOrNewer(v4'.logs, id)
    BY <1>1 DEF Page!ShownOrNewer
  <2>. QED BY <1>1, <1>4, <2>1 DEF Page!InOrder
<1>6. Page!StatusComes'
  BY <1>4 DEF Page!StatusComes
<1>7. Page!TradesCome'
  BY <1>1 DEF Page!TradesCome
<1>. QED BY <1>2, <1>3, <1>5, <1>6, <1>7 DEF Page!Flowing
(* An event is sent to every open socket. *)
Sends(e) ==
  /\ v4' = v4 /\ v5' = v5
  /\ v1'.nextLog >= v1.nextLog
  /\ \A i \in PageSockets : v2'[i].phase = v2[i].phase
  /\ \A i \in PageSockets : v2'[i].inbox = IF v2[i].phase = "open" THEN Append(v2[i].inbox, e) ELSE v2[i].inbox

SentBox(i, e) ==
  \E n \in Nat :
    /\ DOMAIN v2[i].inbox = 1 .. n
    /\ v2[i].phase # "open" => v2'[i].inbox = v2[i].inbox
    /\ v2[i].phase = "open" => /\ DOMAIN v2'[i].inbox = 1 .. n + 1 /\ v2'[i].inbox[n + 1] = e
                               /\ \A k \in 1 .. n : v2'[i].inbox[k] = v2[i].inbox[k]

(* An event that is sent goes to the end of every open socket's inbox.     *)
LEMMA SentBoxes ==
  ASSUME Page!TypeOk, NEW e \in Page!Events, Sends(e), NEW i \in PageSockets
  PROVE  SentBox(i, e)
<1>1. PICK V : V = Page!Events
  OBVIOUS
<1>2. PICK s \in Seq(V) : s = v2[i].inbox
  BY <1>1, FeedViews DEF FeedShape
<1>3. PICK n \in Nat : DOMAIN s = 1 .. n /\ n = Len(s)
  BY <1>2
<1>4. CASE v2[i].phase = "open"
  <2>1. PICK t : t = Append(s, e)
    BY Zenon
  <2>2. DOMAIN t = 1 .. n + 1 /\ t[n + 1] = e /\ \A k \in 1 .. n : t[k] = s[k]
    BY <1>1, <1>2, <1>3, <2>1
  <2>3. v2'[i].inbox = t
    BY <1>2, <1>4, <2>1, Zenon DEF Sends
  <2>. QED BY <1>2, <1>3, <1>4, <2>2, <2>3, Zenon DEF SentBox
<1>5. CASE v2[i].phase # "open"
  <2>1. v2'[i].inbox = s
    BY <1>2, <1>5 DEF Sends
  <2>. QED BY <1>2, <1>3, <1>5, <2>1 DEF SentBox
<1>. QED BY <1>4, <1>5

(* An element of a box is the event that was sent, or was there before. *)
LEMMA SentBoxElements ==
  ASSUME NEW e, NEW i, SentBox(i, e), NEW k \in DOMAIN v2'[i].inbox
  PROVE  \/ k \in DOMAIN v2[i].inbox /\ v2'[i].inbox[k] = v2[i].inbox[k]
         \/ /\ v2[i].phase = "open" /\ v2'[i].inbox[k] = e
            /\ \A l \in DOMAIN v2[i].inbox : l < k /\ l \in DOMAIN v2'[i].inbox
            /\ \A l \in DOMAIN v2'[i].inbox : ~(k < l)
<1>1. PICK n \in Nat :
        /\ DOMAIN v2[i].inbox = 1 .. n
        /\ v2[i].phase # "open" => v2'[i].inbox = v2[i].inbox
        /\ v2[i].phase = "open" => /\ DOMAIN v2'[i].inbox = 1 .. n + 1 /\ v2'[i].inbox[n + 1] = e
                                   /\ \A l \in 1 .. n : v2'[i].inbox[l] = v2[i].inbox[l]
  BY DEF SentBox
<1>2. CASE v2[i].phase # "open"
  BY <1>1, <1>2
<1>3. CASE v2[i].phase = "open"
  <2>1. k \in 1 .. n \/ k = n + 1
    BY <1>1, <1>3
  <2>2. CASE k \in 1 .. n
    BY <1>1, <1>3, <2>2
  <2>3. CASE k = n + 1
    BY <1>1, <1>3, <2>3
  <2>. QED BY <2>1, <2>2, <2>3
<1>. QED BY <1>2, <1>3

LEMMA SentBoxKeeps ==
  ASSUME NEW e, NEW i, SentBox(i, e), NEW k \in DOMAIN v2[i].inbox
  PROVE  k \in DOMAIN v2'[i].inbox /\ v2'[i].inbox[k] = v2[i].inbox[k]
<1>1. PICK n \in Nat :
        /\ DOMAIN v2[i].inbox = 1 .. n
        /\ v2[i].phase # "open" => v2'[i].inbox = v2[i].inbox
        /\ v2[i].phase = "open" => /\ DOMAIN v2'[i].inbox = 1 .. n + 1 /\ v2'[i].inbox[n + 1] = e
                                   /\ \A l \in 1 .. n : v2'[i].inbox[l] = v2[i].inbox[l]
  BY DEF SentBox
<1>. QED BY <1>1

LEMMA SentBoxEnds ==
  ASSUME NEW e, NEW i, SentBox(i, e), v2[i].phase = "open"
  PROVE  \E m \in DOMAIN v2'[i].inbox :
            v2'[i].inbox[m] = e /\ \A l \in DOMAIN v2'[i].inbox : l # m => l < m /\ l \in DOMAIN v2[i].inbox
  BY SMTT(60) DEF SentBox

(* Every subscriber is sent an event.                                      *)
LEMMA SendsReach ==
  ASSUME Page!TypeOk, NEW e \in Page!Events, Sends(e), NEW i \in Page!Subscribed'
  PROVE  \E m \in DOMAIN v2'[i].inbox : v2'[i].inbox[m] = e
<1>1. i \in PageSockets /\ v2[i].phase = "open"
  BY DEF Page!Subscribed, Sends
<1>2. SentBox(i, e)
  BY <1>1, SentBoxes
<1>. QED BY <1>1, <1>2, SentBoxEnds

(* Whatever is sent, the numbers of what was sent before stay in order. *)
LEMMA SendsNumbered ==
  ASSUME Page!FeedInv, NEW e \in Page!Events, Sends(e), Page!TypeOk',
         e.type = "log" => e.payload < v1'.nextLog,
         \A k \in DOMAIN v1'.logs : v1'.logs[k] = v1'.nextLog - 1 - Len(v1'.logs) + k
  PROVE  Page!Numbered' /\ Page!NoRepeats'
<1>1. Page!TypeOk /\ Page!Numbered /\ Page!NoRepeats
  BY DEF Page!FeedInv, Page!Flowing
<1>2. v1.nextLog \in Nat /\ v1'.nextLog \in Nat /\ v1'.nextLog >= v1.nextLog /\ v4' = v4
  BY <1>1, FeedViews, FeedViewsNext DEF FeedShape, Sends
<1>3. ASSUME NEW k \in DOMAIN v4'.logs PROVE v4'.logs[k] < v1'.nextLog
  <2>1. v4.logs[k] < v1.nextLog /\ v4.logs[k] \in Nat
    BY <1>1, <1>2, <1>3, FeedViews DEF FeedShape, Page!Numbered
  <2>. QED BY <1>2, <2>1
<1>4. ASSUME NEW i \in PageSockets, NEW k \in DOMAIN v2'[i].inbox, v2'[i].inbox[k].type = "log"
      PROVE  v2'[i].inbox[k].payload < v1'.nextLog
  <2>1. SentBox(i, e)
    BY <1>1, SentBoxes
  <2>2. CASE k \in DOMAIN v2[i].inbox /\ v2'[i].inbox[k] = v2[i].inbox[k]
    <3>1. v2[i].inbox[k].payload < v1.nextLog
      BY <1>1, <1>4, <2>2 DEF Page!Numbered
    <3>2. v2[i].inbox \in Seq(Page!Events)
      BY <1>1, FeedViews DEF FeedShape
    <3>3. v2[i].inbox[k] \in Page!Events
      BY <2>2, <3>2
    <3>4. v2[i].inbox[k].payload \in Nat
      BY <1>4, <2>2, <3>3, EventIs
    <3>. QED BY <1>2, <2>2, <3>1, <3>4
  <2>3. CASE v2'[i].inbox[k] = e
    BY <1>4, <2>3
  <2>. QED BY <2>1, <2>2, <2>3, SentBoxElements
<1>5. Page!Numbered'
  BY <1>3, <1>4 DEF Page!Numbered
<1>6. Page!NoRepeats'
  BY <1>1, <1>2 DEF Page!NoRepeats, Page!IsInjective
<1>. QED BY <1>5, <1>6

(* Status and trade events leave the log lines alone. *)
LEMMA SendsInOrder ==
  ASSUME Page!FeedInv, NEW e \in Page!Events, Sends(e), e.type # "log", v1'.logs = v1.logs, Page!InOrder
  PROVE  Page!InOrder'
<1>1. v4' = v4 /\ Page!TypeOk
  BY DEF Sends, Page!FeedInv
<1>2. \A id : Page!ShownOrNewer(v4'.logs, id) <=> Page!ShownOrNewer(v4.logs, id)
  BY <1>1 DEF Page!ShownOrNewer, Page!Contains
<1>3. \A k, l \in DOMAIN v4'.logs : k < l => v4'.logs[l] - v4'.logs[k] >= l - k
  BY <1>1 DEF Page!InOrder
<1>4. ASSUME NEW i \in PageSockets, NEW k \in DOMAIN v2'[i].inbox, v2'[i].inbox[k].type = "log"
      PROVE  k \in DOMAIN v2[i].inbox /\ v2'[i].inbox[k] = v2[i].inbox[k]
  BY <1>1, <1>4, SentBoxes, SentBoxElements
<1>5. ASSUME NEW i \in PageSockets, NEW k \in DOMAIN v2'[i].inbox, v2'[i].inbox[k].type = "log"
      PROVE  /\ Page!ShownOrNewer(v4'.logs, v2'[i].inbox[k].payload)
             /\ \A l \in DOMAIN v2'[i].inbox : k < l /\ v2'[i].inbox[l].type = "log" =>
                  v2'[i].inbox[k].payload < v2'[i].inbox[l].payload
  <2>1. k \in DOMAIN v2[i].inbox /\ v2'[i].inbox[k] = v2[i].inbox[k]
    BY <1>4, <1>5
  <2>2. /\ Page!ShownOrNewer(v4.logs, v2[i].inbox[k].payload)
        /\ \A l \in DOMAIN v2[i].inbox : k < l /\ v2[i].inbox[l].type = "log" =>
             v2[i].inbox[k].payload < v2[i].inbox[l].payload
    BY <1>5, <2>1 DEF Page!InOrder
  <2>. QED BY <1>2, <1>4, <2>1, <2>2
<1>6. ASSUME NEW k \in DOMAIN v1'.logs, k > Len(v1'.logs) - PageReplayed
      PROVE  /\ Page!ShownOrNewer(v4'.logs, v1'.logs[k])
             /\ \A i \in Page!Subscribed' :
                  \/ Page!Contains(v4'.logs, v1'.logs[k])
                  \/ \E l \in DOMAIN v2'[i].inbox : v2'[i].inbox[l] = [type |-> "log", payload |-> v1'.logs[k]]
  <2>1. /\ Page!ShownOrNewer(v4.logs, v1.logs[k])
        /\ \A i \in Page!Subscribed :
             \/ Page!Contains(v4.logs, v1.logs[k])
             \/ \E l \in DOMAIN v2[i].inbox : v2[i].inbox[l] = [type |-> "log", payload |-> v1.logs[k]]
    BY <1>6, Zenon DEF Page!InOrder
  <2>2. ASSUME NEW i \in Page!Subscribed', NEW l \in DOMAIN v2[i].inbox
        PROVE  i \in Page!Subscribed /\ l \in DOMAIN v2'[i].inbox /\ v2'[i].inbox[l] = v2[i].inbox[l]
    <3>1. i \in PageSockets /\ i \in Page!Subscribed
      BY DEF Page!Subscribed, Sends
    <3>. QED BY <1>1, <3>1, SentBoxes, SentBoxKeeps
  <2>3. \A i \in Page!Subscribed' : i \in Page!Subscribed
    BY DEF Page!Subscribed, Sends
  <2>. QED BY <1>1, <1>2, <2>1, <2>2, <2>3
<1>. QED BY <1>3, <1>5, <1>6, Zenon DEF Page!InOrder

(* A log or trade event leaves the status on its way the last. *)
LEMMA SendsStatus ==
  ASSUME Page!FeedInv, NEW e \in Page!Events, Sends(e), Page!StatusComes,
         e.type = "status" => e.payload = v1'.status, e.type # "status" => v1'.status = v1.status
  PROVE  Page!StatusComes'
<1>1. v4' = v4 /\ Page!TypeOk
  BY DEF Sends, Page!FeedInv
<1>2. ASSUME NEW i \in Page!Subscribed'
      PROVE  /\ \A k \in DOMAIN v2'[i].inbox : Page!LastStatus(v2'[i].inbox, k) => v2'[i].inbox[k].payload = v1'.status
             /\ (\A k \in DOMAIN v2'[i].inbox : v2'[i].inbox[k].type # "status") => v4'.status = v1'.status
  <2>1. i \in Page!Subscribed /\ i \in PageSockets /\ v2[i].phase = "open"
    BY DEF Page!Subscribed, Sends
  <2>2. SentBox(i, e)
    BY <1>1, <2>1, SentBoxes
  <2>3. /\ \A k \in DOMAIN v2[i].inbox : Page!LastStatus(v2[i].inbox, k) => v2[i].inbox[k].payload = v1.status
        /\ (\A k \in DOMAIN v2[i].inbox : v2[i].inbox[k].type # "status") => v4.status = v1.status
    BY <2>1 DEF Page!StatusComes
  <2>4. PICK m \in DOMAIN v2'[i].inbox :
          v2'[i].inbox[m] = e /\ \A l \in DOMAIN v2'[i].inbox : l # m => l < m /\ l \in DOMAIN v2[i].inbox
    BY <2>1, <2>2, SentBoxEnds
  <2>5. \A k \in DOMAIN v2[i].inbox : k \in DOMAIN v2'[i].inbox /\ v2'[i].inbox[k] = v2[i].inbox[k]
    BY <2>2, SentBoxKeeps
  <2>6. CASE e.type = "status"
    <3>1. ASSUME NEW k \in DOMAIN v2'[i].inbox, Page!LastStatus(v2'[i].inbox, k) PROVE k = m
      BY <2>4, <2>6, <3>1 DEF Page!LastStatus
    <3>. QED BY <2>4, <2>6, <3>1
  <2>7. CASE e.type # "status"
    <3>1. ASSUME NEW k \in DOMAIN v2'[i].inbox, Page!LastStatus(v2'[i].inbox, k)
          PROVE  v2'[i].inbox[k].payload = v1'.status
      <4>1. k # m /\ k \in DOMAIN v2[i].inbox
        BY <2>4, <2>7, <3>1 DEF Page!LastStatus
      <4>2. Page!LastStatus(v2[i].inbox, k)
        BY <2>5, <3>1, <4>1 DEF Page!LastStatus
      <4>. QED BY <2>3, <2>5, <2>7, <4>1, <4>2
    <3>. QED BY <1>1, <2>3, <2>5, <2>7, <3>1
  <2>. QED BY <2>6, <2>7
<1>. QED BY <1>2 DEF Page!StatusComes

(* A status or a log line leaves the trade events on their way the last. *)
LEMMA SendsTrades ==
  ASSUME Page!FeedInv, NEW e \in Page!Events, Sends(e), Page!TradesCome,
         \A t \in PageTrades : IF Page!About(e, t) THEN v1'.trades[t] = e.payload[2] ELSE v1'.trades[t] = v1.trades[t],
         e.type = "trade" => \E i \in PageSockets : v2[i].phase = "open"
  PROVE  Page!TradesCome'
<1>1. v4' = v4 /\ Page!TypeOk
  BY DEF Sends, Page!FeedInv
<1>2. ASSUME NEW t \in PageTrades
      PROVE  /\ \A i \in PageSockets : \A k \in DOMAIN v2'[i].inbox :
                  Page!LastTrade(v2'[i].inbox, k, t) => v2'[i].inbox[k].payload[2] = v1'.trades[t]
             /\ (\A i \in PageSockets : \A k \in DOMAIN v2'[i].inbox : ~Page!About(v2'[i].inbox[k], t)) =>
                  \A r \in DOMAIN v4'.trades : v4'.trades[r][1] = t => v4'.trades[r][2] = v1'.trades[t]
  <2>1. /\ \A i \in PageSockets : \A k \in DOMAIN v2[i].inbox :
             Page!LastTrade(v2[i].inbox, k, t) => v2[i].inbox[k].payload[2] = v1.trades[t]
        /\ (\A i \in PageSockets : \A k \in DOMAIN v2[i].inbox : ~Page!About(v2[i].inbox[k], t)) =>
             \A r \in DOMAIN v4.trades : v4.trades[r][1] = t => v4.trades[r][2] = v1.trades[t]
    BY DEF Page!TradesCome
  <2>2. \A i \in PageSockets : SentBox(i, e)
    BY <1>1, SentBoxes
  <2>3. \A i \in PageSockets : \A k \in DOMAIN v2[i].inbox : k \in DOMAIN v2'[i].inbox /\ v2'[i].inbox[k] = v2[i].inbox[k]
    BY <2>2, SentBoxKeeps
  <2>4. ASSUME NEW i \in PageSockets, NEW k \in DOMAIN v2'[i].inbox, Page!LastTrade(v2'[i].inbox, k, t)
        PROVE  v2'[i].inbox[k].payload[2] = v1'.trades[t]
    <3>1. CASE k \in DOMAIN v2[i].inbox /\ v2'[i].inbox[k] = v2[i].inbox[k]
      <4>1. Page!LastTrade(v2[i].inbox, k, t)
        BY <2>3, <2>4, <3>1 DEF Page!LastTrade
      <4>2. v2[i].inbox[k].payload[2] = v1.trades[t]
        BY <2>1, <3>1, <4>1
      <4>3. CASE Page!About(e, t)
        <5>1. CASE v2[i].phase = "open"
          <6>1. PICK m \in DOMAIN v2'[i].inbox :
                  v2'[i].inbox[m] = e /\ \A l \in DOMAIN v2'[i].inbox : l # m => l < m /\ l \in DOMAIN v2[i].inbox
            BY <2>2, <5>1, SentBoxEnds
          <6>2. k = m
            BY <2>4, <4>3, <6>1 DEF Page!LastTrade
          <6>. QED BY <4>3, <6>1, <6>2
        <5>2. CASE v2[i].phase # "open"
          <6>1. v2[i].inbox = <<>>
            BY <5>2 DEF Page!FeedInv, Page!Contained
          <6>2. DOMAIN <<>> = {}
            OBVIOUS
          <6>. QED BY <3>1, <6>1, <6>2
        <5>. QED BY <5>1, <5>2
      <4>. QED BY <3>1, <4>2, <4>3
    <3>2. CASE v2'[i].inbox[k] = e
      BY <2>4, <3>2 DEF Page!LastTrade
    <3>. QED BY <2>2, <3>1, <3>2, SentBoxElements
  <2>5. ASSUME \A i \in PageSockets : \A k \in DOMAIN v2'[i].inbox : ~Page!About(v2'[i].inbox[k], t),
               NEW r \in DOMAIN v4'.trades, v4'.trades[r][1] = t
        PROVE  v4'.trades[r][2] = v1'.trades[t]
    <3>1. \A i \in PageSockets : \A k \in DOMAIN v2[i].inbox : ~Page!About(v2[i].inbox[k], t)
      BY <2>3, <2>5
    <3>2. ~Page!About(e, t)
      <4>1. SUFFICES ASSUME Page!About(e, t) PROVE FALSE
        OBVIOUS
      <4>2. PICK i \in PageSockets : v2[i].phase = "open"
        BY <4>1 DEF Page!About
      <4>3. PICK m \in DOMAIN v2'[i].inbox : v2'[i].inbox[m] = e
        BY <2>2, <4>2, SentBoxEnds
      <4>. QED BY <2>5, <4>1, <4>3
    <3>. QED BY <1>1, <2>1, <2>5, <3>1, <3>2
  <2>. QED BY <2>4, <2>5
<1>. QED BY <1>2 DEF Page!TradesCome

(* The server's buffer takes a line: it stays numbered to its end. *)
LogGrows(d) ==
  /\ Len(v1.logs) + 1 = Len(v1'.logs) + d
  /\ \A k \in 1 .. Len(v1'.logs) : \/ k + d = Len(v1.logs) + 1 /\ v1'.logs[k] = v1.nextLog
                                   \/ k + d \in 1 .. Len(v1.logs) /\ v1'.logs[k] = v1.logs[k + d]

(* The log of the server takes one line and may lose the oldest ones.      *)
LEMMA LoggedGrows ==
  ASSUME Page!TypeOk, v1' = Page!Logged
  PROVE  /\ v1'.logs \in Seq(Nat) /\ Len(v1'.logs) <= PageLogs /\ v1'.nextLog = v1.nextLog + 1
         /\ v1'.status = v1.status /\ v1'.trades = v1.trades /\ v1'.token = v1.token /\ v1'.cors = v1.cors
         /\ \E d \in Nat : LogGrows(d)
<1>1. PICK s \in Seq(Nat), n \in Nat : s = v1.logs /\ n = v1.nextLog
  BY FeedViews DEF FeedShape
<1>2. PICK u \in Seq(Nat) : u = Append(s, n)
  <2>1. Append(s, n) \in Seq(Nat)
    BY <1>1
  <2>. QED BY <2>1, Zenon
<1>3. PICK r : r = Page!LastOf(u, PageLogs)
  OBVIOUS
<1>4. DOMAIN v1 = {"token", "cors", "status", "logs", "trades", "nextLog"}
  BY DEF Page!TypeOk
<1>5. v1'.logs = r /\ v1'.nextLog = n + 1 /\ v1'.status = v1.status /\ v1'.trades = v1.trades /\ v1'.token = v1.token /\ v1'.cors = v1.cors
  BY <1>1, <1>2, <1>3, <1>4 DEF Page!Logged
<1>6. PageLogs \in Nat
  BY PageAssumption
<1>7. /\ r \in Seq(Nat)
      /\ \E d \in Nat : /\ Len(u) = Len(r) + d /\ Len(r) <= PageLogs
                        /\ d = 0 \/ Len(r) = PageLogs
                        /\ \A k \in 1 .. Len(r) : r[k] = u[k + d]
  <2>1. /\ Page!LastOf(u, PageLogs) \in Seq(Nat)
        /\ \E d \in Nat : /\ Len(u) = Len(Page!LastOf(u, PageLogs)) + d /\ Len(Page!LastOf(u, PageLogs)) <= PageLogs
                          /\ d = 0 \/ Len(Page!LastOf(u, PageLogs)) = PageLogs
                          /\ \A k \in 1 .. Len(Page!LastOf(u, PageLogs)) : Page!LastOf(u, PageLogs)[k] = u[k + d]
    BY ZenonT(60), <1>2, <1>6, LastOfIs
  <2>. QED BY <1>3, <2>1
<1>8. PICK d \in Nat : /\ Len(u) = Len(r) + d /\ Len(r) <= PageLogs
                      /\ \A k \in 1 .. Len(r) : r[k] = u[k + d]
  BY <1>7, Zenon
<1>9. Len(u) = Len(s) + 1 /\ \A k \in 1 .. Len(s) + 1 : u[k] = IF k = Len(s) + 1 THEN n ELSE s[k]
  BY <1>1, <1>2
<1>10. ASSUME NEW k \in 1 .. Len(r)
       PROVE  \/ k + d = Len(s) + 1 /\ r[k] = n
              \/ k + d \in 1 .. Len(s) /\ r[k] = s[k + d]
  <2>1. k + d \in 1 .. Len(s) + 1
    BY <1>7, <1>8, <1>9
  <2>. QED BY <1>8, <1>9, <2>1
<1>11. LogGrows(d)
  BY <1>1, <1>5, <1>8, <1>9, <1>10 DEF LogGrows
<1>. QED BY <1>1, <1>5, <1>7, <1>8, <1>11

LEMMA ShiftsBack ==
  ASSUME NEW x \in Int, NEW y \in Int, NEW z \in Int, NEW p \in Int, NEW q \in Int, p + 1 = q + y
  PROVE  x - 1 - p + (z + y) = x - q + z
  OBVIOUS

(* The lines of the server stay numbered without a gap.                    *)
LEMMA LoggedNumbered ==
  ASSUME Page!TypeOk, Page!Numbered, v1' = Page!Logged
  PROVE  \A k \in DOMAIN v1'.logs : v1'.logs[k] = v1'.nextLog - 1 - Len(v1'.logs) + k
<1>1. PICK s \in Seq(Nat), n \in Nat : s = v1.logs /\ n = v1.nextLog
  BY FeedViews DEF FeedShape
<1>2. PICK r \in Seq(Nat) : r = v1'.logs /\ v1'.nextLog = n + 1
  BY <1>1, LoggedGrows
<1>3. PICK d \in Nat : LogGrows(d)
  BY LoggedGrows
<1>4. /\ Len(s) + 1 = Len(r) + d
      /\ \A k \in 1 .. Len(r) : \/ k + d = Len(s) + 1 /\ r[k] = n
                                \/ k + d \in 1 .. Len(s) /\ r[k] = s[k + d]
  BY <1>1, <1>2, <1>3 DEF LogGrows
<1>5. \A k \in 1 .. Len(s) : s[k] = n - 1 - Len(s) + k
  BY <1>1 DEF Page!Numbered
<1>6. ASSUME NEW k \in 1 .. Len(r) PROVE r[k] = n - Len(r) + k
  <2>1. CASE k + d = Len(s) + 1 /\ r[k] = n
    BY <1>1, <1>2, <1>4, <1>6, <2>1
  <2>2. CASE k + d \in 1 .. Len(s) /\ r[k] = s[k + d]
    <3>1. s[k + d] = n - 1 - Len(s) + (k + d)
      BY <1>5, <2>2
    <3>2. k \in Nat /\ Len(r) \in Nat /\ Len(s) \in Nat
      BY <1>1, <1>2, <1>6
    <3>3. PICK a \in Nat, b \in Nat : a = Len(s) /\ b = Len(r)
      BY <3>2
    <3>4. r[k] = n - 1 - a + (k + d)
      BY <1>4, <2>2, <3>1, <3>3
    <3>6. a + 1 = b + d
      BY <1>4, <3>3
    <3>5. n - 1 - a + (k + d) = n - b + k
      <4>1. n \in Int /\ d \in Int /\ k \in Int /\ a \in Int /\ b \in Int
        BY <1>1, <1>3, <3>2, <3>3
      <4>. QED BY <3>6, <4>1, ShiftsBack
    <3>. QED BY <3>3, <3>4, <3>5
  <2>. QED BY <1>4, <1>6, <2>1, <2>2
<1>7. DOMAIN r = 1 .. Len(r) /\ Len(r) \in Nat
  BY <1>2
<1>8. ASSUME NEW k \in DOMAIN r PROVE r[k] = (n + 1) - 1 - Len(r) + k
  BY <1>1, <1>6, <1>7, <1>8
<1>. QED BY <1>2, <1>8

LEMMA SendsLog ==
  ASSUME Page!FeedInv, NEW e \in Page!Events, Sends(e), e = [type |-> "log", payload |-> v1.nextLog],
         v1' = Page!Logged, Page!InOrder
  PROVE  Page!InOrder'
<1>1. v4' = v4 /\ Page!TypeOk /\ Page!Numbered
  BY DEF Sends, Page!FeedInv, Page!Flowing
<1>2. \A id : Page!ShownOrNewer(v4'.logs, id) <=> Page!ShownOrNewer(v4.logs, id)
  BY <1>1 DEF Page!ShownOrNewer, Page!Contains
<1>3. \A k, l \in DOMAIN v4'.logs : k < l => v4'.logs[l] - v4'.logs[k] >= l - k
  BY <1>1 DEF Page!InOrder
<1>4. e.type = "log" /\ e.payload = v1.nextLog
  OBVIOUS
<1>5. Page!ShownOrNewer(v4.logs, v1.nextLog)
  BY <1>1 DEF Page!ShownOrNewer, Page!Numbered
<1>6. ASSUME NEW i \in PageSockets, NEW k \in DOMAIN v2'[i].inbox, v2'[i].inbox[k].type = "log"
      PROVE  /\ Page!ShownOrNewer(v4'.logs, v2'[i].inbox[k].payload)
             /\ \A l \in DOMAIN v2'[i].inbox : k < l /\ v2'[i].inbox[l].type = "log" =>
                  v2'[i].inbox[k].payload < v2'[i].inbox[l].payload
  <2>1. SentBox(i, e)
    BY <1>1, SentBoxes
  <2>2. CASE k \in DOMAIN v2[i].inbox /\ v2'[i].inbox[k] = v2[i].inbox[k]
    <3>1. /\ Page!ShownOrNewer(v4.logs, v2[i].inbox[k].payload)
          /\ \A l \in DOMAIN v2[i].inbox : k < l /\ v2[i].inbox[l].type = "log" =>
               v2[i].inbox[k].payload < v2[i].inbox[l].payload
      BY <1>6, <2>2 DEF Page!InOrder
    <3>2. v2[i].inbox[k].payload < v1.nextLog
      BY <1>1, <1>6, <2>2 DEF Page!Numbered
    <3>3. ASSUME NEW l \in DOMAIN v2'[i].inbox, k < l, v2'[i].inbox[l].type = "log"
          PROVE  v2'[i].inbox[k].payload < v2'[i].inbox[l].payload
      <4>1. CASE l \in DOMAIN v2[i].inbox /\ v2'[i].inbox[l] = v2[i].inbox[l]
        BY <2>2, <3>1, <3>3, <4>1
      <4>2. CASE v2'[i].inbox[l] = e
        BY <1>4, <2>2, <3>2, <4>2
      <4>. QED BY <2>1, <4>1, <4>2, SentBoxElements
    <3>. QED BY <1>2, <2>2, <3>1, <3>3
  <2>3. CASE v2'[i].inbox[k] = e /\ \A l \in DOMAIN v2'[i].inbox : ~(k < l)
    BY <1>2, <1>4, <1>5, <2>3
  <2>. QED BY <2>1, <2>2, <2>3, SentBoxElements
<1>7. ASSUME NEW k \in DOMAIN v1'.logs, k > Len(v1'.logs) - PageReplayed
      PROVE  /\ Page!ShownOrNewer(v4'.logs, v1'.logs[k])
             /\ \A i \in Page!Subscribed' :
                  \/ Page!Contains(v4'.logs, v1'.logs[k])
                  \/ \E l \in DOMAIN v2'[i].inbox : v2'[i].inbox[l] = [type |-> "log", payload |-> v1'.logs[k]]
  <2>1. PICK d \in Nat : LogGrows(d)
    BY <1>1, LoggedGrows
  <2>2. PICK s \in Seq(Nat), r \in Seq(Nat) : s = v1.logs /\ r = v1'.logs
    BY <1>1, FeedViews, LoggedGrows, Zenon DEF FeedShape
  <2>3. k \in 1 .. Len(r) /\ k > Len(r) - PageReplayed /\ PageReplayed \in Nat /\ Len(s) + 1 = Len(r) + d
    <3>1. DOMAIN r = 1 .. Len(r)
      BY <2>2
    <3>2. PageReplayed \in Nat
      BY PageAssumption
    <3>. QED BY <1>7, <2>1, <2>2, <3>1, <3>2 DEF LogGrows
  <2>4. CASE r[k] = v1.nextLog
    <3>1. ASSUME NEW i \in Page!Subscribed' PROVE \E l \in DOMAIN v2'[i].inbox : v2'[i].inbox[l] = e
      BY <1>1, <3>1, SendsReach, Zenon
    <3>2. e = [type |-> "log", payload |-> r[k]]
      BY <2>4
    <3>. QED BY <1>2, <1>5, <2>2, <2>4, <3>1, <3>2, Zenon
  <2>5. CASE k + d \in 1 .. Len(s) /\ r[k] = s[k + d]
    <3>1. k + d \in DOMAIN v1.logs /\ k + d > Len(v1.logs) - PageReplayed
      <4>1. DOMAIN s = 1 .. Len(s) /\ Len(s) \in Nat /\ Len(r) \in Nat
        BY <2>2
      <4>2. k + d > Len(s) - PageReplayed
        BY <2>1, <2>3, <4>1
      <4>. QED BY <2>2, <2>5, <4>1, <4>2
    <3>2. v1'.logs[k] = v1.logs[k + d]
      BY <2>2, <2>5
    <3>3. PICK x : x = v1.logs[k + d]
      OBVIOUS
    <3>4. /\ Page!ShownOrNewer(v4.logs, v1.logs[k + d])
          /\ \A i \in Page!Subscribed :
               \/ Page!Contains(v4.logs, v1.logs[k + d])
               \/ \E l \in DOMAIN v2[i].inbox : v2[i].inbox[l] = [type |-> "log", payload |-> v1.logs[k + d]]
      BY <3>1, Zenon DEF Page!InOrder
    <3>5. /\ Page!ShownOrNewer(v4.logs, x)
          /\ \A i \in Page!Subscribed :
               \/ Page!Contains(v4.logs, x)
               \/ \E l \in DOMAIN v2[i].inbox : v2[i].inbox[l] = [type |-> "log", payload |-> x]
      BY <3>3, <3>4, Zenon
    <3>6. ASSUME NEW i \in Page!Subscribed', NEW l \in DOMAIN v2[i].inbox
          PROVE  l \in DOMAIN v2'[i].inbox /\ v2'[i].inbox[l] = v2[i].inbox[l]
      <4>1. i \in PageSockets
        BY DEF Page!Subscribed
      <4>. QED BY <1>1, <3>6, <4>1, SentBoxes, SentBoxKeeps
    <3>7. \A i \in Page!Subscribed' : i \in Page!Subscribed
      BY DEF Page!Subscribed, Sends
    <3>. QED BY <1>1, <1>2, <3>2, <3>3, <3>5, <3>6, <3>7, Zenon
  <2>. QED BY <2>1, <2>2, <2>3, <2>4, <2>5, Zenon DEF LogGrows
<1>. QED BY <1>3, <1>6, <1>7, Zenon DEF Page!InOrder

(* What a new connection is sent: the status, and the last lines. *)
ReplayShape(s) ==
  \E m \in Nat :
    /\ m <= Len(v1.logs) /\ m <= PageReplayed /\ (m = PageReplayed \/ m = Len(v1.logs))
    /\ DOMAIN s = 1 .. m + 1
    /\ s[1] = [type |-> "status", payload |-> v1.status]
    /\ \A k \in 1 .. m : s[k + 1] = [type |-> "log", payload |-> v1.logs[k + (Len(v1.logs) - m)]]

(* What a new client is sent first: the status and the last log lines.     *)
LEMMA ReplayIs ==
  ASSUME Page!TypeOk
  PROVE  Page!StateReplay \in Seq(Page!Events) /\ ReplayShape(Page!StateReplay)
<1>1. PICK g \in Seq(Nat) : g = v1.logs
  BY FeedViews DEF FeedShape
<1>2. v1.status \in {"STOPPED", "RUNNING"}
  BY FeedViews DEF FeedShape
<1>3. PageReplayed \in Nat
  BY PageAssumption
<1>4. PICK r : r = Page!LastOf(g, PageReplayed)
  OBVIOUS
<1>5. /\ r \in Seq(Nat)
      /\ \E d \in Nat : /\ Len(g) = Len(r) + d /\ Len(r) <= PageReplayed
                        /\ d = 0 \/ Len(r) = PageReplayed
                        /\ \A k \in 1 .. Len(r) : r[k] = g[k + d]
  BY <1>1, <1>3, <1>4, LastOfIs, Zenon
<1>6. PICK d \in Nat : /\ Len(g) = Len(r) + d /\ Len(r) <= PageReplayed
                       /\ d = 0 \/ Len(r) = PageReplayed
                       /\ \A k \in 1 .. Len(r) : r[k] = g[k + d]
  BY <1>5, Zenon
<1>7. PICK n \in Nat, m \in Nat : n = Len(g) /\ m = Len(r) /\ DOMAIN r = 1 .. m
  BY <1>1, <1>5
<1>8. Page!Min({PageReplayed, n}) = m
  <2>1. Page!Min({PageReplayed, n}) \in {PageReplayed, n} /\ Page!Min({PageReplayed, n}) <= PageReplayed /\ Page!Min({PageReplayed, n}) <= n
    <3>1. PageReplayed \in Int /\ n \in Int
      BY <1>3, <1>7
    <3>. QED BY <3>1, PageMin, Zenon
  <2>. QED BY <1>3, <1>6, <1>7, <2>1
<1>9. PICK E : E = Page!Events
  OBVIOUS
<1>10. PICK h : h = [k \in 1 .. m |-> [type |-> "log", payload |-> r[k]]]
  BY Zenon
<1>11. \A x \in Nat : [type |-> "log", payload |-> x] \in E
  BY <1>9 DEF Page!Events
<1>12. h \in Seq(E) /\ Len(h) = m /\ \A k \in 1 .. m : h[k] = [type |-> "log", payload |-> r[k]]
  <2>1. \A k \in 1 .. m : r[k] \in Nat
    BY <1>5, <1>7
  <2>2. h \in [1 .. m -> E]
    BY <1>10, <1>11, <2>1
  <2>. QED BY <1>7, <1>10, <2>2
<1>13. PICK b \in E : b = [type |-> "status", payload |-> v1.status]
  BY <1>2, <1>9, Zenon DEF Page!Events
<1>14. PICK u \in Seq(E) : u = <<b>> \o h
  <2>1. <<b>> \in Seq(E)
    BY <1>13
  <2>2. \A x, y \in Seq(E) : x \o y \in Seq(E)
    OBVIOUS
  <2>3. <<b>> \o h \in Seq(E)
    BY <1>12, <2>1, <2>2, Zenon
  <2>. QED BY <2>3, Zenon
<1>15. DOMAIN u = 1 .. m + 1 /\ u[1] = b /\ \A k \in 1 .. m : u[k + 1] = h[k]
  <2>1. <<b>> \in Seq(E) /\ Len(<<b>>) = 1
    BY <1>13
  <2>2. Len(u) = m + 1
    BY <1>12, <1>14, <2>1
  <2>. QED BY <1>12, <1>14, <2>1, <2>2
<1>16. Page!StateReplay = u
  <2>1. Page!StateReplay = <<b>> \o [k \in 1 .. m |-> [type |-> "log", payload |-> r[k]]]
    BY <1>1, <1>4, <1>7, <1>8, <1>13, Zenon DEF Page!StateReplay
  <2>. QED BY <1>10, <1>14, <2>1
<1>17. ReplayShape(u)
  <2>1. m <= n /\ m <= PageReplayed /\ (m = PageReplayed \/ m = n) /\ n - m = d
    BY <1>3, <1>6, <1>7
  <2>2. \A k \in 1 .. m : u[k + 1] = [type |-> "log", payload |-> g[k + (n - m)]]
    BY <1>6, <1>7, <1>12, <1>15, <2>1, Zenon
  <2>. QED BY <1>1, <1>7, <1>13, <1>15, <2>1, <2>2, Zenon DEF ReplayShape
<1>. QED BY <1>9, <1>16, <1>17

Greets(i) ==
  /\ v1' = v1 /\ v4'.logs = v4.logs /\ v4'.trades = v4.trades /\ v4'.status = v4.status /\ v5' = v5 /\ v6' = v6
  /\ v2[i].inbox = <<>>
  /\ \A j \in PageSockets : j # i => v2'[j] = v2[j]
  /\ ReplayShape(v2'[i].inbox)

(* What is replayed is the status, or one of the last lines. *)
ReplayedAs(b, g, n, x) ==
  /\ 1 \in DOMAIN b
  /\ b[1] = [type |-> "status", payload |-> x]
  /\ \A k \in DOMAIN b : k = 1 \/ \E l \in 1 .. n :
       /\ l > n - PageReplayed /\ b[k] = [type |-> "log", payload |-> g[l]]
       /\ \A j \in DOMAIN b : k < j => \E q \in 1 .. n : l < q /\ b[j] = [type |-> "log", payload |-> g[q]]
  /\ \A l \in 1 .. n : l > n - PageReplayed => \E k \in DOMAIN b : b[k] = [type |-> "log", payload |-> g[l]]

(* The inbox of a client that has just been accepted.                      *)
LEMMA GreetsBox ==
  ASSUME Page!TypeOk, NEW i \in PageSockets, Greets(i)
  PROVE  ReplayedAs(v2'[i].inbox, v1.logs, Len(v1.logs), v1.status)
<1>1. PICK g \in Seq(Nat) : g = v1.logs
  BY FeedViews DEF FeedShape
<1>2. PICK s : s = v2'[i].inbox
  OBVIOUS
<1>3. PICK m \in Nat :
        /\ m <= Len(g) /\ m <= PageReplayed /\ (m = PageReplayed \/ m = Len(g))
        /\ DOMAIN s = 1 .. m + 1
        /\ s[1] = [type |-> "status", payload |-> v1.status]
        /\ \A k \in 1 .. m : s[k + 1] = [type |-> "log", payload |-> g[k + (Len(g) - m)]]
  BY <1>1, <1>2 DEF Greets, ReplayShape
<1>4. PICK n \in Nat : n = Len(g) /\ DOMAIN g = 1 .. n
  BY <1>1
<1>5. PageReplayed \in Nat
  BY PageAssumption
<1>6. ASSUME NEW k \in DOMAIN s, k # 1
      PROVE  k - 1 + (n - m) \in 1 .. n /\ k - 1 + (n - m) > n - PageReplayed
             /\ s[k] = [type |-> "log", payload |-> g[k - 1 + (n - m)]]
  <2>1. k - 1 \in 1 .. m
    BY <1>3, <1>6
  <2>2. s[(k - 1) + 1] = [type |-> "log", payload |-> g[k - 1 + (n - m)]]
    BY <1>3, <1>4, <2>1, Zenon
  <2>3. (k - 1) + 1 = k
    BY <2>1, <1>3
  <2>4. k - 1 + (n - m) \in 1 .. n /\ k - 1 + (n - m) > n - PageReplayed
    <3>1. m <= n /\ m <= PageReplayed
      BY <1>3, <1>4
    <3>. QED BY <1>5, <2>1, <3>1
  <2>. QED BY <2>2, <2>3, <2>4
<1>7. ASSUME NEW k \in DOMAIN s, k # 1
      PROVE  \E l \in 1 .. n :
               /\ l > n - PageReplayed /\ s[k] = [type |-> "log", payload |-> g[l]]
               /\ \A j \in DOMAIN s : k < j => \E q \in 1 .. n : l < q /\ s[j] = [type |-> "log", payload |-> g[q]]
  <2>1. PICK l \in 1 .. n : l = k - 1 + (n - m) /\ l > n - PageReplayed /\ s[k] = [type |-> "log", payload |-> g[l]]
    BY <1>6, <1>7
  <2>2. ASSUME NEW j \in DOMAIN s, k < j PROVE \E q \in 1 .. n : l < q /\ s[j] = [type |-> "log", payload |-> g[q]]
    <3>1. j # 1 /\ k \in 1 .. m + 1 /\ j \in 1 .. m + 1
      BY <1>3, <1>7, <2>2
    <3>2. PICK q \in 1 .. n : q = j - 1 + (n - m) /\ s[j] = [type |-> "log", payload |-> g[q]]
      BY <1>6, <2>2, <3>1
    <3>3. l < q
      BY <1>3, <1>4, <2>1, <2>2, <3>1, <3>2
    <3>. QED BY <3>2, <3>3
  <2>. QED BY <1>4, <2>1, <2>2
<1>8. ASSUME NEW l \in 1 .. n, l > n - PageReplayed
      PROVE  \E k \in DOMAIN s : s[k] = [type |-> "log", payload |-> g[l]]
  <2>1. l \in 1 .. n /\ l > n - m
    BY <1>3, <1>4, <1>5, <1>8
  <2>2. PICK k \in 1 .. m : k = l - (n - m)
    <3>1. m <= n
      BY <1>3, <1>4
    <3>2. l - (n - m) \in 1 .. m
      BY <2>1, <3>1
    <3>. QED BY <3>2
  <2>3. k + (n - m) = l /\ k + 1 \in DOMAIN s
    <3>1. l \in Nat /\ k + 1 \in 1 .. m + 1
      BY <2>1, <2>2
    <3>. QED BY <1>3, <2>2, <3>1
  <2>4. s[k + 1] = [type |-> "log", payload |-> g[l]]
    BY <1>3, <1>4, <2>3, Zenon
  <2>. QED BY <2>3, <2>4
<1>9. 1 \in DOMAIN s
  BY <1>3
<1>10. s[1] = [type |-> "status", payload |-> v1.status]
  BY <1>3
<1>11. ReplayedAs(s, g, n, v1.status)
  BY <1>7, <1>8, <1>9, <1>10, Zenon DEF ReplayedAs
<1>. QED BY <1>1, <1>2, <1>4, <1>11

LEMMA GreetsFlows ==
  ASSUME Page!FeedInv, NEW i \in PageSockets, Greets(i)
  PROVE  Page!Flowing'
<1>1. /\ v1' = v1 /\ v4'.logs = v4.logs /\ v4'.trades = v4.trades /\ v4'.status = v4.status /\ v5' = v5 /\ v6' = v6
      /\ \A j \in PageSockets : j # i => v2'[j] = v2[j]
  BY DEF Greets
<1>2. Page!TypeOk /\ Page!Numbered /\ Page!NoRepeats /\ (~v5 => Page!InOrder /\ Page!StatusComes /\ (~v6 => Page!TradesCome))
  BY DEF Page!FeedInv, Page!Flowing
<1>3. PICK g \in Seq(Nat), n \in Nat, y \in Nat : g = v1.logs /\ n = Len(g) /\ y = v1.nextLog /\ DOMAIN g = 1 .. n
  BY <1>2, FeedViews DEF FeedShape
<1>4. \A k \in 1 .. n : g[k] = y - 1 - n + k
  BY <1>2, <1>3, Zenon DEF Page!Numbered
<1>5. PICK s : s = v2'[i].inbox
  OBVIOUS
<1>6. /\ 1 \in DOMAIN s
      /\ s[1] = [type |-> "status", payload |-> v1.status]
      /\ \A k \in DOMAIN s : k = 1 \/ \E l \in 1 .. n :
           /\ l > n - PageReplayed /\ s[k] = [type |-> "log", payload |-> g[l]]
           /\ \A j \in DOMAIN s : k < j => \E q \in 1 .. n : l < q /\ s[j] = [type |-> "log", payload |-> g[q]]
      /\ \A l \in 1 .. n : l > n - PageReplayed => \E k \in DOMAIN s : s[k] = [type |-> "log", payload |-> g[l]]
  <2>1. ReplayedAs(s, g, n, v1.status)
    BY <1>2, <1>3, <1>5, GreetsBox
  <2>. QED BY <2>1, Zenon DEF ReplayedAs
<1>7. ASSUME NEW k \in DOMAIN s, s[k].type = "log"
      PROVE  \E l \in 1 .. n : /\ l > n - PageReplayed /\ s[k].payload = g[l]
                               /\ \A j \in DOMAIN s : k < j => \E q \in 1 .. n : l < q /\ s[j].type = "log" /\ s[j].payload = g[q]
  <2>1. k # 1
    BY <1>6, <1>7
  <2>2. PICK l \in 1 .. n :
           /\ l > n - PageReplayed /\ s[k] = [type |-> "log", payload |-> g[l]]
           /\ \A j \in DOMAIN s : k < j => \E q \in 1 .. n : l < q /\ s[j] = [type |-> "log", payload |-> g[q]]
    BY <1>6, <2>1, Zenon
  <2>3. ASSUME NEW j \in DOMAIN s, k < j PROVE \E q \in 1 .. n : l < q /\ s[j].type = "log" /\ s[j].payload = g[q]
    <3>1. PICK q \in 1 .. n : l < q /\ s[j] = [type |-> "log", payload |-> g[q]]
      BY <2>2, <2>3
    <3>. QED BY <3>1
  <2>. QED BY <2>2, <2>3
<1>8. ASSUME NEW k \in DOMAIN s PROVE s[k].type \in {"status", "log"}
  <2>1. CASE k = 1
    BY <1>6, <2>1
  <2>2. CASE k # 1
    <3>1. PICK l \in 1 .. n : s[k] = [type |-> "log", payload |-> g[l]]
      BY <1>6, <2>2
    <3>. QED BY <3>1
  <2>. QED BY <2>1, <2>2
<1>9. Page!Numbered'
  <2>1. ASSUME NEW j \in PageSockets, NEW k \in DOMAIN v2'[j].inbox, v2'[j].inbox[k].type = "log"
        PROVE  v2'[j].inbox[k].payload < v1'.nextLog
    <3>1. CASE j = i
      <4>1. PICK l \in 1 .. n : s[k].payload = g[l]
        BY <1>5, <1>7, <2>1, <3>1
      <4>2. g[l] < y
        <5>1. g[l] = y - 1 - n + l /\ l <= n /\ l \in Nat
          BY <1>4, <4>1
        <5>. QED BY <1>3, <5>1
      <4>. QED BY <1>1, <1>3, <1>5, <3>1, <4>1, <4>2
    <3>2. CASE j # i
      BY <1>1, <1>2, <2>1, <3>2 DEF Page!Numbered
    <3>. QED BY <3>1, <3>2
  <2>. QED BY <1>1, <1>2, <2>1 DEF Page!Numbered
<1>10. Page!NoRepeats'
  BY <1>1, <1>2 DEF Page!NoRepeats, Page!IsInjective
<1>11. ASSUME Page!InOrder PROVE Page!InOrder'
  <2>1. \A k, l \in DOMAIN v4'.logs : k < l => v4'.logs[l] - v4'.logs[k] >= l - k
    BY <1>1, <1>11 DEF Page!InOrder
  <2>2. ASSUME NEW j \in PageSockets, NEW k \in DOMAIN v2'[j].inbox, v2'[j].inbox[k].type = "log"
        PROVE  /\ Page!ShownOrNewer(v4'.logs, v2'[j].inbox[k].payload)
               /\ \A l \in DOMAIN v2'[j].inbox : k < l /\ v2'[j].inbox[l].type = "log" =>
                    v2'[j].inbox[k].payload < v2'[j].inbox[l].payload
    <3>1. CASE j = i
      <4>1. k \in DOMAIN s /\ s[k].type = "log"
        BY <1>5, <2>2, <3>1
      <4>2. PICK l \in 1 .. n : /\ l > n - PageReplayed /\ s[k].payload = g[l]
                                /\ \A b \in DOMAIN s : k < b => \E q \in 1 .. n : l < q /\ s[b].type = "log" /\ s[b].payload = g[q]
        BY <1>7, <4>1
      <4>3. Page!ShownOrNewer(v4.logs, v1.logs[l])
        BY <1>3, <1>11, <4>2, Zenon DEF Page!InOrder
      <4>4. ASSUME NEW b \in DOMAIN s, k < b PROVE s[k].payload < s[b].payload
        <5>1. PICK q \in 1 .. n : l < q /\ s[b].payload = g[q]
          BY <4>2, <4>4
        <5>2. g[l] < g[q]
          BY SMTT(60), <1>3, <1>4, <5>1
        <5>. QED BY <4>2, <5>1, <5>2
      <4>. QED BY <1>1, <1>3, <1>5, <3>1, <4>2, <4>3, <4>4
    <3>2. CASE j # i
      <4>1. v2'[j] = v2[j]
        BY <1>1, <3>2
      <4>2. /\ Page!ShownOrNewer(v4.logs, v2[j].inbox[k].payload)
            /\ \A l \in DOMAIN v2[j].inbox : k < l /\ v2[j].inbox[l].type = "log" =>
                    v2[j].inbox[k].payload < v2[j].inbox[l].payload
        BY <1>11, <2>2, <4>1 DEF Page!InOrder
      <4>. QED BY <1>1, <4>1, <4>2
    <3>. QED BY <3>1, <3>2
  <2>3. ASSUME NEW k \in DOMAIN v1'.logs, k > Len(v1'.logs) - PageReplayed
        PROVE  /\ Page!ShownOrNewer(v4'.logs, v1'.logs[k])
               /\ \A j \in Page!Subscribed' :
                    \/ Page!Contains(v4'.logs, v1'.logs[k])
                    \/ \E l \in DOMAIN v2'[j].inbox : v2'[j].inbox[l] = [type |-> "log", payload |-> v1'.logs[k]]
    <3>1. k \in DOMAIN v1.logs /\ k > Len(v1.logs) - PageReplayed
      BY <1>1, <2>3
    <3>2. /\ Page!ShownOrNewer(v4.logs, v1.logs[k])
          /\ \A j \in Page!Subscribed :
               \/ Page!Contains(v4.logs, v1.logs[k])
               \/ \E l \in DOMAIN v2[j].inbox : v2[j].inbox[l] = [type |-> "log", payload |-> v1.logs[k]]
      BY <1>11, <3>1, Zenon DEF Page!InOrder
    <3>3. ASSUME NEW j \in Page!Subscribed'
          PROVE  \/ Page!Contains(v4'.logs, v1'.logs[k])
                 \/ \E l \in DOMAIN v2'[j].inbox : v2'[j].inbox[l] = [type |-> "log", payload |-> v1'.logs[k]]
      <4>1. CASE j = i
        <5>1. k \in 1 .. n /\ k > n - PageReplayed
          BY <1>3, <3>1
        <5>2. \E b \in DOMAIN s : s[b] = [type |-> "log", payload |-> g[k]]
          BY <1>6, <5>1
        <5>. QED BY <1>1, <1>3, <1>5, <4>1, <5>2
      <4>2. CASE j # i
        <5>1. v2'[j] = v2[j]
          BY <1>1, <4>2 DEF Page!Subscribed
        <5>2. j \in Page!Subscribed
          BY <5>1 DEF Page!Subscribed
        <5>. QED BY <1>1, <3>2, <5>1, <5>2
      <4>. QED BY <4>1, <4>2
    <3>. QED BY <1>1, <3>2, <3>3
  <2>. QED BY <2>1, <2>2, <2>3, Zenon DEF Page!InOrder
<1>12. ASSUME Page!StatusComes PROVE Page!StatusComes'
  <2>1. ASSUME NEW j \in Page!Subscribed'
        PROVE  /\ \A k \in DOMAIN v2'[j].inbox : Page!LastStatus(v2'[j].inbox, k) => v2'[j].inbox[k].payload = v1'.status
               /\ (\A k \in DOMAIN v2'[j].inbox : v2'[j].inbox[k].type # "status") => v4'.status = v1'.status
    <3>1. CASE j = i
      <4>1. ASSUME NEW k \in DOMAIN s, Page!LastStatus(s, k) PROVE s[k].payload = v1.status
        <5>1. k = 1
          <6>1. SUFFICES ASSUME k # 1 PROVE FALSE
            OBVIOUS
          <6>2. PICK l \in 1 .. n : s[k] = [type |-> "log", payload |-> g[l]]
            BY <1>6, <6>1
          <6>. QED BY <4>1, <6>2 DEF Page!LastStatus
        <5>. QED BY <1>6, <5>1
      <4>2. s[1].type = "status"
        BY <1>6
      <4>. QED BY <1>1, <1>5, <1>6, <3>1, <4>1, <4>2
    <3>2. CASE j # i
      <4>1. v2'[j] = v2[j] /\ j \in Page!Subscribed
        BY <1>1, <3>2 DEF Page!Subscribed
      <4>2. /\ \A k \in DOMAIN v2[j].inbox : Page!LastStatus(v2[j].inbox, k) => v2[j].inbox[k].payload = v1.status
            /\ (\A k \in DOMAIN v2[j].inbox : v2[j].inbox[k].type # "status") => v4.status = v1.status
        BY <1>12, <4>1 DEF Page!StatusComes
      <4>. QED BY <1>1, <4>1, <4>2
    <3>. QED BY <3>1, <3>2
  <2>. QED BY <2>1 DEF Page!StatusComes
<1>13. ASSUME Page!TradesCome PROVE Page!TradesCome'
  <2>1. \A t : \A k \in DOMAIN s : ~Page!About(s[k], t)
    BY <1>8 DEF Page!About
  <2>2. v2[i].inbox = <<>> /\ DOMAIN <<>> = {}
    BY DEF Greets
  <2>3. ASSUME NEW t \in PageTrades
        PROVE  /\ \A j \in PageSockets : \A k \in DOMAIN v2'[j].inbox :
                    Page!LastTrade(v2'[j].inbox, k, t) => v2'[j].inbox[k].payload[2] = v1'.trades[t]
               /\ (\A j \in PageSockets : \A k \in DOMAIN v2'[j].inbox : ~Page!About(v2'[j].inbox[k], t)) =>
                    \A r \in DOMAIN v4'.trades : v4'.trades[r][1] = t => v4'.trades[r][2] = v1'.trades[t]
    <3>1. /\ \A j \in PageSockets : \A k \in DOMAIN v2[j].inbox :
               Page!LastTrade(v2[j].inbox, k, t) => v2[j].inbox[k].payload[2] = v1.trades[t]
          /\ (\A j \in PageSockets : \A k \in DOMAIN v2[j].inbox : ~Page!About(v2[j].inbox[k], t)) =>
               \A r \in DOMAIN v4.trades : v4.trades[r][1] = t => v4.trades[r][2] = v1.trades[t]
      BY <1>13 DEF Page!TradesCome
    <3>2. ASSUME NEW j \in PageSockets, NEW k \in DOMAIN v2'[j].inbox, Page!LastTrade(v2'[j].inbox, k, t)
          PROVE  v2'[j].inbox[k].payload[2] = v1'.trades[t]
      <4>1. j # i
        BY <1>5, <2>1, <3>2, Zenon DEF Page!LastTrade
      <4>2. v2'[j] = v2[j]
        BY <1>1, <4>1
      <4>. QED BY <1>1, <3>1, <3>2, <4>2
    <3>3. ASSUME \A j \in PageSockets : \A k \in DOMAIN v2'[j].inbox : ~Page!About(v2'[j].inbox[k], t)
          PROVE  \A j \in PageSockets : \A k \in DOMAIN v2[j].inbox : ~Page!About(v2[j].inbox[k], t)
      <4>1. ASSUME NEW j \in PageSockets PROVE \A k \in DOMAIN v2[j].inbox : ~Page!About(v2[j].inbox[k], t)
        <5>1. CASE j = i
          BY <2>2, <5>1
        <5>2. CASE j # i
          <6>1. v2'[j] = v2[j]
            BY <1>1, <5>2
          <6>. QED BY <3>3, <6>1
        <5>. QED BY <5>1, <5>2
      <4>. QED BY <4>1
    <3>. QED BY <1>1, <3>1, <3>2, <3>3
  <2>. QED BY <2>3 DEF Page!TradesCome
<1>. QED BY <1>1, <1>2, <1>9, <1>10, <1>11, <1>12, <1>13 DEF Page!Flowing

(* A line that is new comes last, and pushes out only lines that are that  *)
(* much older.                                                             *)
Spread(lines) == \A k, l \in DOMAIN lines : k < l => lines[l] - lines[k] >= l - k

(* A line that is shown keeps the shown lines in order and hides none but  *)
(* the oldest.                                                             *)
LEMMA LinesShown ==
  ASSUME NEW lines \in Seq(Nat), NEW id \in Nat, Page!IsInjective(lines), Len(lines) <= PageShown,
         Spread(lines), Page!ShownOrNewer(lines, id), NEW new, new = Page!WithLog(lines, id)
  PROVE  /\ Spread(new)
         /\ \A p \in Nat : p > id /\ Page!ShownOrNewer(lines, p) => Page!ShownOrNewer(new, p)
         /\ PageShown > 0 => Page!Contains(new, id)
         /\ \A p \in Nat : Page!Contains(lines, p) => Page!Contains(new, p) \/ id >= p + PageShown
<1>1. CASE Page!Contains(lines, id)
  <2>1. new = lines
    BY <1>1, WithLogIs
  <2>. QED BY <1>1, <2>1
<1>2. CASE ~Page!Contains(lines, id)
  <2>1. PICK n \in Nat : n = Len(lines) /\ DOMAIN lines = 1 .. n /\ \A k \in 1 .. n : lines[k] \in Nat
    OBVIOUS
  <2>2. \A k \in 1 .. n : lines[k] < id
    BY <1>2, <2>1 DEF Page!ShownOrNewer
  <2>3. new \in Seq(Nat)
    BY WithLogIs
  <2>4. PICK d \in Nat :
          /\ n + 1 = Len(new) + d
          /\ d = 0 \/ Len(new) = PageShown
          /\ \A k \in 1 .. Len(new) : new[k] = IF k + d = n + 1 THEN id ELSE lines[k + d]
    <3>1. \E d \in Nat :
            /\ Len(lines) + 1 = Len(Page!WithLog(lines, id)) + d
            /\ d = 0 \/ Len(Page!WithLog(lines, id)) = PageShown
            /\ \A k \in 1 .. Len(Page!WithLog(lines, id)) :
                 Page!WithLog(lines, id)[k] = IF k + d = Len(lines) + 1 THEN id ELSE lines[k + d]
      BY <1>2, WithLogIs, Zenon
    <3>. QED BY <2>1, <3>1
  <2>5. PICK m \in Nat : m = Len(new) /\ DOMAIN new = 1 .. m /\ n + 1 = m + d /\ (d = 0 \/ m = PageShown)
    BY <2>3, <2>4
  <2>6. ASSUME NEW k \in 1 .. m
        PROVE  \/ k + d = n + 1 /\ new[k] = id
               \/ k + d \in 1 .. n /\ new[k] = lines[k + d]
    <3>1. CASE k + d = n + 1
      BY <2>4, <2>5, <2>6, <3>1
    <3>2. CASE k + d # n + 1
      <4>1. k + d \in 1 .. n
        BY <2>5, <3>2
      <4>. QED BY <2>4, <2>5, <2>6, <3>2, <4>1
    <3>. QED BY <3>1, <3>2
  <2>7. \A k, l \in 1 .. n : k < l => lines[l] - lines[k] >= l - k
    BY <2>1, Zenon DEF Spread
  <2>8. \A k \in 1 .. n : id - lines[k] >= n + 1 - k
    <3>1. ASSUME NEW k \in 1 .. n PROVE id - lines[k] >= n + 1 - k
      <4>1. lines[n] < id /\ n \in 1 .. n /\ lines[n] \in Nat /\ lines[k] \in Nat /\ lines[k] < id
        BY <2>1, <2>2
      <4>2. CASE k = n
        BY <4>1, <4>2
      <4>3. CASE k < n
        <5>1. lines[n] - lines[k] >= n - k
          BY <2>7, <4>1, <4>3
        <5>. QED BY SMTT(60), <4>1, <5>1
      <4>. QED BY <4>2, <4>3
    <3>. QED BY <3>1
  <2>9. ASSUME NEW k \in 1 .. m, NEW l \in 1 .. m, k < l PROVE new[l] - new[k] >= l - k
    <3>1. k + d \in 1 .. n /\ new[k] = lines[k + d] /\ lines[k + d] \in Nat
      <4>1. k + d # n + 1
        BY <2>5, <2>9
      <4>. QED BY <2>1, <2>6, <4>1, Zenon
    <3>2. CASE l + d = n + 1 /\ new[l] = id
      <4>1. id - lines[k + d] >= n + 1 - (k + d)
        BY <2>8, <3>1
      <4>2. n + 1 - (k + d) = l - k
        BY <3>2
      <4>. QED BY <3>1, <3>2, <4>1, <4>2
    <3>3. CASE l + d \in 1 .. n /\ new[l] = lines[l + d]
      <4>1. k + d < l + d
        BY <2>9
      <4>2. lines[l + d] - lines[k + d] >= (l + d) - (k + d)
        BY <2>7, <3>1, <3>3, <4>1
      <4>3. (l + d) - (k + d) = l - k
        OBVIOUS
      <4>. QED BY <3>1, <3>3, <4>2, <4>3
    <3>. QED BY <2>6, <3>2, <3>3
  <2>10. Spread(new)
    BY <2>5, <2>9 DEF Spread
  <2>11. ASSUME NEW p \in Nat, p > id PROVE Page!ShownOrNewer(new, p)
    <3>1. ASSUME NEW k \in 1 .. m PROVE new[k] < p
      <4>1. CASE new[k] = id
        BY <2>11, <4>1
      <4>2. CASE k + d \in 1 .. n /\ new[k] = lines[k + d]
        BY <2>1, <2>2, <2>11, <4>2
      <4>. QED BY <2>6, <4>1, <4>2
    <3>. QED BY <2>5, <3>1 DEF Page!ShownOrNewer
  <2>12. ASSUME PageShown > 0 PROVE Page!Contains(new, id)
    <3>1. PageShown \in Nat
      BY PageAssumption
    <3>2. m \in 1 .. m
      BY <2>5, <2>12, <3>1
    <3>3. m + d = n + 1
      BY <2>5
    <3>4. new[m] = id
      BY <2>6, <3>2, <3>3
    <3>. QED BY <2>5, <3>2, <3>4 DEF Page!Contains
  <2>13. ASSUME NEW p \in Nat, Page!Contains(lines, p) PROVE Page!Contains(new, p) \/ id >= p + PageShown
    <3>1. PICK k \in 1 .. n : lines[k] = p
      BY <2>1, <2>13 DEF Page!Contains
    <3>2. CASE k > d
      <4>1. PICK j \in 1 .. m : j = k - d
        BY <2>5, <3>1, <3>2
      <4>2. j + d = k
        BY <4>1
      <4>3. new[j] = p
        BY <2>6, <3>1, <4>2
      <4>. QED BY <2>5, <4>3 DEF Page!Contains
    <3>3. CASE k <= d
      <4>1. id - p >= n + 1 - k
        BY <2>8, <3>1
      <4>2. m = PageShown
        BY <2>5, <3>1, <3>3
      <4>. QED BY <2>5, <3>1, <3>3, <4>1, <4>2
    <3>. QED BY <3>2, <3>3
  <2>. QED BY <2>10, <2>11, <2>12, <2>13
<1>. QED BY <1>1, <1>2

(* The page takes the next event of an open socket. *)
Popped(b, c, e) ==
  \E n \in Nat : DOMAIN b = 1 .. n + 1 /\ DOMAIN c = 1 .. n /\ b[1] = e /\ \A k \in 1 .. n : c[k] = b[k + 1]

(* The first event of an inbox is taken off.                               *)
LEMMA PopShape ==
  ASSUME NEW S, NEW b \in Seq(S), b # <<>>
  PROVE  Popped(b, Tail(b), Head(b)) /\ Tail(b) \in Seq(S) /\ Head(b) \in S
<1>1. PICK n \in Nat : Len(b) = n + 1
  <2>1. Len(b) \in Nat /\ Len(b) # 0
    OBVIOUS
  <2>2. Len(b) - 1 \in Nat /\ Len(b) = (Len(b) - 1) + 1
    BY <2>1
  <2>. QED BY <2>2, Zenon
<1>2. PICK c \in Seq(S) : c = Tail(b) /\ Len(c) = n /\ \A k \in 1 .. n : c[k] = b[k + 1]
  <2>1. Tail(b) \in Seq(S) /\ Len(Tail(b)) = n /\ \A k \in 1 .. n : Tail(b)[k] = b[k + 1]
    BY <1>1
  <2>. QED BY <2>1, Zenon
<1>3. DOMAIN b = 1 .. n + 1 /\ DOMAIN c = 1 .. n /\ Head(b) = b[1] /\ b[1] \in S
  BY <1>1, <1>2
<1>. QED BY <1>2, <1>3 DEF Popped

LEMMA PopMoves ==
  ASSUME NEW b, NEW c, NEW e, Popped(b, c, e)
  PROVE  /\ 1 \in DOMAIN b /\ b[1] = e
         /\ \A k \in DOMAIN b : k \in Nat /\ k >= 1 /\ (k = 1 \/ (k - 1 \in DOMAIN c /\ c[k - 1] = b[k]))
         /\ \A k \in DOMAIN c : k \in Nat /\ k >= 1 /\ k + 1 \in DOMAIN b /\ c[k] = b[k + 1]
<1>1. PICK n \in Nat : DOMAIN b = 1 .. n + 1 /\ DOMAIN c = 1 .. n /\ b[1] = e /\ \A k \in 1 .. n : c[k] = b[k + 1]
  BY DEF Popped
<1>2. ASSUME NEW k \in 1 .. n + 1, k # 1 PROVE k - 1 \in 1 .. n /\ c[k - 1] = b[k]
  <2>1. k - 1 \in 1 .. n /\ (k - 1) + 1 = k
    BY <1>2
  <2>. QED BY <1>1, <2>1
<1>3. ASSUME NEW k \in 1 .. n PROVE k + 1 \in 1 .. n + 1
  BY <1>3
<1>. QED BY <1>1, <1>2, <1>3

(* What comes last in the rest came last before. *)
LEMMA PopLast ==
  ASSUME NEW b, NEW c, NEW e, Popped(b, c, e), NEW k \in DOMAIN c
  PROVE  /\ k + 1 \in DOMAIN b /\ c[k] = b[k + 1]
         /\ Page!LastStatus(c, k) => Page!LastStatus(b, k + 1)
         /\ \A t : Page!LastTrade(c, k, t) => Page!LastTrade(b, k + 1, t)
<1>1. k \in Nat /\ k >= 1 /\ k + 1 \in DOMAIN b /\ c[k] = b[k + 1]
  BY PopMoves
<1>2. ASSUME NEW l \in DOMAIN b, l > k + 1 PROVE l - 1 \in DOMAIN c /\ l - 1 > k /\ b[l] = c[l - 1]
  <2>1. l \in Nat /\ l # 1 /\ l - 1 > k
    BY <1>1, <1>2, PopMoves
  <2>. QED BY <2>1, PopMoves
<1>3. ASSUME Page!LastStatus(c, k) PROVE Page!LastStatus(b, k + 1)
  BY <1>1, <1>2, <1>3 DEF Page!LastStatus
<1>4. ASSUME NEW t, Page!LastTrade(c, k, t) PROVE Page!LastTrade(b, k + 1, t)
  BY <1>1, <1>2, <1>4 DEF Page!LastTrade
<1>. QED BY <1>1, <1>3, <1>4

Pops(i, e) ==
  /\ v1' = v1 /\ v3' = v3 /\ v5' = v5 /\ v6' = v6
  /\ v2[i].phase = "open" /\ Popped(v2[i].inbox, v2'[i].inbox, e)
  /\ \A j \in PageSockets : j # i => v2'[j] = v2[j]
  /\ \A j \in PageSockets : v2'[j].phase = v2[j].phase
  /\ v4'.logs = IF e.type = "log" THEN Page!WithLog(v4.logs, e.payload) ELSE v4.logs
  /\ v4'.trades = IF e.type = "trade" THEN Page!WithTrade(v4.trades, e.payload) ELSE v4.trades
  /\ v4'.status = IF e.type = "status" THEN e.payload ELSE v4.status

(* While there is one connection, the other sockets are silent. *)
LEMMA OthersSilent ==
  ASSUME Page!FeedInv, ~v5, NEW i \in PageSockets, v2[i].phase = "open", NEW j \in PageSockets, j # i
  PROVE  v2[j].phase # "open" /\ v2[j].inbox = <<>> /\ DOMAIN v2[j].inbox = {}
<1>1. DOMAIN <<>> = {}
  OBVIOUS
<1>2. Page!Active(i)
  BY DEF Page!Active
<1>3. ~Page!Active(j)
  BY <1>2 DEF Page!FeedInv, Page!Alone
<1>4. v2[j].phase # "open"
  BY <1>3 DEF Page!Active
<1>. QED BY <1>1, <1>4 DEF Page!FeedInv, Page!Contained

(* What a client does with an event keeps each part of the invariant.      *)
LEMMA PopsStatus ==
  ASSUME Page!FeedInv, ~v5, NEW i \in PageSockets, NEW e \in Page!Events, Pops(i, e), Page!StatusComes
  PROVE  Page!StatusComes'
<1>1. PICK b, c : b = v2[i].inbox /\ c = v2'[i].inbox
  OBVIOUS
<1>2. Popped(b, c, e) /\ v1' = v1 /\ v4'.status = (IF e.type = "status" THEN e.payload ELSE v4.status) /\ v2[i].phase = "open"
  BY <1>1 DEF Pops
<1>3. /\ \A k \in DOMAIN b : Page!LastStatus(b, k) => b[k].payload = v1.status
      /\ (\A k \in DOMAIN b : b[k].type # "status") => v4.status = v1.status
  <2>1. i \in Page!Subscribed
    BY <1>2 DEF Page!Subscribed
  <2>. QED BY <1>1, <2>1 DEF Page!StatusComes
<1>4. ASSUME NEW k \in DOMAIN c, Page!LastStatus(c, k) PROVE c[k].payload = v1.status
  BY <1>2, <1>3, <1>4, PopLast
<1>5. ASSUME \A k \in DOMAIN c : c[k].type # "status" PROVE v4'.status = v1.status
  <2>1. 1 \in DOMAIN b /\ b[1] = e
    BY <1>2, PopMoves
  <2>2. ASSUME NEW k \in DOMAIN b, k # 1 PROVE b[k].type # "status"
    <3>1. k - 1 \in DOMAIN c /\ c[k - 1] = b[k]
      BY <1>2, <2>2, PopMoves
    <3>. QED BY <1>5, <3>1
  <2>3. CASE e.type = "status"
    <3>1. \A l \in DOMAIN b : l > 1 => b[l].type # "status"
      BY <2>2
    <3>2. Page!LastStatus(b, 1)
      BY <2>1, <2>3, <3>1 DEF Page!LastStatus
    <3>. QED BY <1>2, <1>3, <2>1, <2>3, <3>2
  <2>4. CASE e.type # "status"
    BY <1>2, <1>3, <2>1, <2>2, <2>4
  <2>. QED BY <2>3, <2>4
<1>6. ASSUME NEW j \in Page!Subscribed' PROVE j = i
  <2>1. j \in PageSockets /\ v2[j].phase = "open"
    BY <1>6 DEF Page!Subscribed, Pops
  <2>. QED BY <1>2, <2>1, OthersSilent
<1>7. ASSUME NEW j \in Page!Subscribed'
      PROVE  /\ \A k \in DOMAIN v2'[j].inbox : Page!LastStatus(v2'[j].inbox, k) => v2'[j].inbox[k].payload = v1'.status
             /\ (\A k \in DOMAIN v2'[j].inbox : v2'[j].inbox[k].type # "status") => v4'.status = v1'.status
  <2>1. v2'[j].inbox = c
    BY <1>1, <1>6
  <2>. QED BY <1>2, <1>4, <1>5, <2>1
<1>. QED BY <1>7 DEF Page!StatusComes

LEMMA PopsTrades ==
  ASSUME Page!FeedInv, ~v5, NEW i \in PageSockets, NEW e \in Page!Events, Pops(i, e), Page!TradesCome
  PROVE  Page!TradesCome'
<1>1. PICK b, c : b = v2[i].inbox /\ c = v2'[i].inbox
  OBVIOUS
<1>2. Popped(b, c, e) /\ v1' = v1 /\ v2[i].phase = "open" /\ Page!TypeOk /\ Page!NoRepeats
  BY <1>1 DEF Pops, Page!FeedInv, Page!Flowing
<1>3. ASSUME NEW j \in PageSockets, j # i PROVE DOMAIN v2[j].inbox = {} /\ DOMAIN v2'[j].inbox = {}
  BY <1>2, <1>3, OthersSilent DEF Pops
<1>4. ASSUME NEW r \in DOMAIN v4'.trades
      PROVE  \/ e.type = "trade" /\ v4'.trades[r] = e.payload
             \/ \E q \in DOMAIN v4.trades : (e.type = "trade" => v4.trades[q][1] # e.payload[1]) /\ v4'.trades[r] = v4.trades[q]
  <2>1. CASE e.type = "trade"
    <3>1. PICK rows \in Seq(Page!Rows), row \in Page!Rows : rows = v4.trades /\ row = e.payload
      BY <1>2, <2>1, EventIs, FeedViews DEF FeedShape
    <3>2. \A k, l \in DOMAIN rows : rows[k][1] = rows[l][1] => k = l
      BY <1>2, <3>1 DEF Page!NoRepeats
    <3>3. \A k \in DOMAIN Page!WithTrade(rows, row) :
              \/ Page!WithTrade(rows, row)[k] = row
              \/ \E j \in DOMAIN rows : rows[j][1] # row[1] /\ Page!WithTrade(rows, row)[k] = rows[j]
      BY <3>2, WithTradeIs
    <3>4. v4'.trades = Page!WithTrade(rows, row)
      BY <2>1, <3>1 DEF Pops
    <3>. QED BY <1>4, <2>1, <3>1, <3>3, <3>4
  <2>2. CASE e.type # "trade"
    BY <1>4, <2>2 DEF Pops
  <2>. QED BY <2>1, <2>2
<1>5. ASSUME NEW t \in PageTrades
      PROVE  /\ \A j \in PageSockets : \A k \in DOMAIN v2'[j].inbox :
                  Page!LastTrade(v2'[j].inbox, k, t) => v2'[j].inbox[k].payload[2] = v1'.trades[t]
             /\ (\A j \in PageSockets : \A k \in DOMAIN v2'[j].inbox : ~Page!About(v2'[j].inbox[k], t)) =>
                  \A r \in DOMAIN v4'.trades : v4'.trades[r][1] = t => v4'.trades[r][2] = v1'.trades[t]
  <2>1. /\ \A j \in PageSockets : \A k \in DOMAIN v2[j].inbox :
             Page!LastTrade(v2[j].inbox, k, t) => v2[j].inbox[k].payload[2] = v1.trades[t]
        /\ (\A j \in PageSockets : \A k \in DOMAIN v2[j].inbox : ~Page!About(v2[j].inbox[k], t)) =>
             \A r \in DOMAIN v4.trades : v4.trades[r][1] = t => v4.trades[r][2] = v1.trades[t]
    BY DEF Page!TradesCome
  <2>2. ASSUME NEW k \in DOMAIN c, Page!LastTrade(c, k, t) PROVE c[k].payload[2] = v1.trades[t]
    <3>1. k + 1 \in DOMAIN b /\ c[k] = b[k + 1] /\ Page!LastTrade(b, k + 1, t)
      BY <1>2, <2>2, PopLast
    <3>. QED BY <1>1, <2>1, <3>1
  <2>3. ASSUME NEW j \in PageSockets, NEW k \in DOMAIN v2'[j].inbox, Page!LastTrade(v2'[j].inbox, k, t)
        PROVE  v2'[j].inbox[k].payload[2] = v1'.trades[t]
    <3>1. j = i
      BY <1>3, <2>3
    <3>. QED BY <1>1, <1>2, <2>2, <2>3, <3>1
  <2>4. ASSUME \A k \in DOMAIN c : ~Page!About(c[k], t), NEW r \in DOMAIN v4'.trades, v4'.trades[r][1] = t
        PROVE  v4'.trades[r][2] = v1.trades[t]
    <3>1. 1 \in DOMAIN b /\ b[1] = e
      BY <1>2, PopMoves
    <3>2. ASSUME NEW k \in DOMAIN b, k # 1 PROVE ~Page!About(b[k], t)
      <4>1. k - 1 \in DOMAIN c /\ c[k - 1] = b[k]
        BY <1>2, <3>2, PopMoves
      <4>. QED BY <2>4, <4>1
    <3>3. CASE Page!About(e, t)
      <4>1. \A l \in DOMAIN b : l > 1 => ~Page!About(b[l], t)
        BY <3>2
      <4>2. Page!LastTrade(b, 1, t)
        BY <3>1, <3>3, <4>1 DEF Page!LastTrade
      <4>3. e.payload[2] = v1.trades[t]
        BY <1>1, <2>1, <3>1, <4>2
      <4>4. e.type = "trade" /\ e.payload[1] = t
        BY <3>3 DEF Page!About
      <4>. QED BY <1>4, <2>4, <4>3, <4>4
    <3>4. CASE ~Page!About(e, t)
      <4>1. \A k \in DOMAIN b : ~Page!About(b[k], t)
        BY <3>1, <3>2, <3>4
      <4>2. \A j \in PageSockets : \A k \in DOMAIN v2[j].inbox : ~Page!About(v2[j].inbox[k], t)
        BY <1>1, <1>3, <4>1
      <4>3. \A q \in DOMAIN v4.trades : v4.trades[q][1] = t => v4.trades[q][2] = v1.trades[t]
        BY <2>1, <4>2
      <4>4. ~(e.type = "trade" /\ e.payload[1] = t)
        BY <3>4 DEF Page!About
      <4>. QED BY <1>4, <2>4, <4>3, <4>4
    <3>. QED BY <3>3, <3>4
  <2>5. ASSUME \A j \in PageSockets : \A k \in DOMAIN v2'[j].inbox : ~Page!About(v2'[j].inbox[k], t)
        PROVE  \A k \in DOMAIN c : ~Page!About(c[k], t)
    BY <1>1, <2>5
  <2>. QED BY <1>2, <2>3, <2>4, <2>5
<1>. QED BY <1>5 DEF Page!TradesCome

LEMMA PopsNumbered ==
  ASSUME Page!FeedInv, NEW i \in PageSockets, NEW e \in Page!Events, Pops(i, e)
  PROVE  Page!Numbered' /\ Page!NoRepeats'
<1>1. Page!TypeOk /\ Page!Numbered /\ Page!NoRepeats /\ v1' = v1
  BY DEF Page!FeedInv, Page!Flowing, Pops
<1>2. PICK b, c : b = v2[i].inbox /\ c = v2'[i].inbox
  OBVIOUS
<1>3. Popped(b, c, e)
  BY <1>2 DEF Pops
<1>4. 1 \in DOMAIN b /\ b[1] = e /\ \A k \in DOMAIN c : k + 1 \in DOMAIN b /\ c[k] = b[k + 1]
  BY <1>3, PopMoves
<1>5. \A k \in DOMAIN b : b[k].type = "log" => b[k].payload < v1.nextLog
  BY <1>1, <1>2 DEF Page!Numbered
<1>6. PICK g \in Seq(Nat) : g = v4.logs /\ Len(g) <= PageShown /\ Page!IsInjective(g) /\ \A k \in DOMAIN g : g[k] < v1.nextLog
  BY <1>1, FeedViews DEF FeedShape, Page!TypeOk, Page!Numbered, Page!NoRepeats
<1>7. (\A k \in DOMAIN v4'.logs : v4'.logs[k] < v1.nextLog) /\ Page!IsInjective(v4'.logs)
  <2>1. CASE e.type # "log"
    BY <1>6, <2>1 DEF Pops
  <2>2. CASE e.type = "log"
    <3>1. PICK id \in Nat : id = e.payload /\ id < v1.nextLog
      BY <1>4, <1>5, <2>2, EventIs
    <3>2. PICK u : u = Page!WithLog(g, id)
      OBVIOUS
    <3>3. u \in Seq(Nat) /\ Page!IsInjective(u)
      BY <1>6, <3>2, WithLogIs
    <3>4. \A k \in DOMAIN u : u[k] < v1.nextLog
      <4>1. CASE Page!Contains(g, id)
        <5>1. u = g
          BY <1>6, <3>2, <4>1, WithLogIs
        <5>. QED BY <1>6, <5>1
      <4>2. CASE ~Page!Contains(g, id)
        <5>1. \E d \in Nat :
                /\ Len(g) + 1 = Len(Page!WithLog(g, id)) + d
                /\ d = 0 \/ Len(Page!WithLog(g, id)) = PageShown
                /\ \A k \in 1 .. Len(Page!WithLog(g, id)) :
                     Page!WithLog(g, id)[k] = IF k + d = Len(g) + 1 THEN id ELSE g[k + d]
          BY <1>6, <4>2, WithLogIs, Zenon
        <5>2. PICK d \in Nat :
                /\ Len(g) + 1 = Len(u) + d
                /\ \A k \in 1 .. Len(u) : u[k] = IF k + d = Len(g) + 1 THEN id ELSE g[k + d]
          BY <3>2, <5>1
        <5>3. DOMAIN u = 1 .. Len(u) /\ Len(u) \in Nat /\ DOMAIN g = 1 .. Len(g) /\ Len(g) \in Nat
          BY <3>3
        <5>4. ASSUME NEW k \in 1 .. Len(u) PROVE u[k] < v1.nextLog
          <6>1. CASE k + d = Len(g) + 1
            BY <3>1, <5>2, <5>4, <6>1
          <6>2. CASE k + d # Len(g) + 1
            <7>1. k + d \in DOMAIN g
              BY <5>2, <5>3, <5>4, <6>2
            <7>. QED BY <1>6, <5>2, <5>4, <6>2, <7>1
          <6>. QED BY <6>1, <6>2
        <5>. QED BY <5>3, <5>4
      <4>. QED BY <4>1, <4>2
    <3>5. v4'.logs = u
      BY <1>6, <2>2, <3>1, <3>2 DEF Pops
    <3>. QED BY <3>3, <3>4, <3>5
  <2>. QED BY <2>1, <2>2
<1>8. ASSUME NEW j \in PageSockets, NEW k \in DOMAIN v2'[j].inbox, v2'[j].inbox[k].type = "log"
      PROVE  v2'[j].inbox[k].payload < v1.nextLog
  <2>1. CASE j = i
    BY <1>2, <1>4, <1>5, <1>8, <2>1
  <2>2. CASE j # i
    <3>1. v2'[j] = v2[j]
      BY <2>2 DEF Pops
    <3>. QED BY <1>1, <1>8, <3>1 DEF Page!Numbered
  <2>. QED BY <2>1, <2>2
<1>9. Page!Numbered'
  BY <1>1, <1>7, <1>8 DEF Page!Numbered
<1>10. \A k, l \in DOMAIN v4'.trades : v4'.trades[k][1] = v4'.trades[l][1] => k = l
  <2>1. CASE e.type = "trade"
    <3>1. PICK rows \in Seq(Page!Rows), row \in Page!Rows : rows = v4.trades /\ row = e.payload
      BY <1>1, <2>1, EventIs, FeedViews DEF FeedShape
    <3>2. \A k, l \in DOMAIN rows : rows[k][1] = rows[l][1] => k = l
      BY <1>1, <3>1 DEF Page!NoRepeats
    <3>3. \A k, l \in DOMAIN Page!WithTrade(rows, row) :
              Page!WithTrade(rows, row)[k][1] = Page!WithTrade(rows, row)[l][1] => k = l
      BY <3>2, WithTradeIs
    <3>4. v4'.trades = Page!WithTrade(rows, row)
      BY <2>1, <3>1 DEF Pops
    <3>. QED BY <3>3, <3>4
  <2>2. CASE e.type # "trade"
    BY <1>1, <2>2 DEF Pops, Page!NoRepeats
  <2>. QED BY <2>1, <2>2
<1>. QED BY <1>7, <1>9, <1>10 DEF Page!NoRepeats

LEMMA PopsInOrder ==
  ASSUME Page!FeedInv, ~v5, NEW i \in PageSockets, NEW e \in Page!Events, Pops(i, e), Page!InOrder
  PROVE  Page!InOrder'
<1>1. PICK b, c, g, new : b = v2[i].inbox /\ c = v2'[i].inbox /\ g = v4.logs /\ new = v4'.logs
  OBVIOUS
<1>2. Popped(b, c, e) /\ v1' = v1 /\ v2[i].phase = "open" /\ Page!TypeOk /\ Page!Numbered /\ Page!NoRepeats
  BY <1>1 DEF Pops, Page!FeedInv, Page!Flowing
<1>3. b \in Seq(Page!Events) /\ g \in Seq(Nat) /\ Len(g) <= PageShown /\ Page!IsInjective(g) /\ Spread(g)
  BY <1>1, <1>2, FeedViews DEF FeedShape, Page!TypeOk, Page!NoRepeats, Page!InOrder, Spread
<1>4. /\ 1 \in DOMAIN b /\ b[1] = e
      /\ \A k \in DOMAIN b : k \in Nat /\ k >= 1 /\ (k = 1 \/ (k - 1 \in DOMAIN c /\ c[k - 1] = b[k]))
      /\ \A k \in DOMAIN c : k \in Nat /\ k >= 1 /\ k + 1 \in DOMAIN b /\ c[k] = b[k + 1]
  BY <1>2, PopMoves
<1>5. ASSUME NEW k \in DOMAIN b, b[k].type = "log"
      PROVE  /\ Page!ShownOrNewer(g, b[k].payload) /\ b[k].payload \in Nat
             /\ \A l \in DOMAIN b : k < l /\ b[l].type = "log" => b[k].payload < b[l].payload
  <2>1. /\ Page!ShownOrNewer(g, b[k].payload)
        /\ \A l \in DOMAIN b : k < l /\ b[l].type = "log" => b[k].payload < b[l].payload
    BY <1>1, <1>5 DEF Page!InOrder
  <2>2. b[k] \in Page!Events
    BY <1>3, <1>5
  <2>. QED BY <1>5, <2>1, <2>2, EventIs
<1>6. /\ Spread(new)
      /\ e.type # "log" => new = g
      /\ e.type = "log" =>
           /\ \A p \in Nat : p > e.payload /\ Page!ShownOrNewer(g, p) => Page!ShownOrNewer(new, p)
           /\ PageShown > 0 => Page!Contains(new, e.payload)
           /\ \A p \in Nat : Page!Contains(g, p) => Page!Contains(new, p) \/ e.payload >= p + PageShown
  <2>1. CASE e.type # "log"
    BY <1>1, <1>3, <2>1 DEF Pops
  <2>2. CASE e.type = "log"
    <3>1. PICK id \in Nat : id = e.payload /\ Page!ShownOrNewer(g, id)
      BY <1>4, <1>5, <2>2
    <3>2. new = Page!WithLog(g, id)
      BY <1>1, <2>2, <3>1 DEF Pops
    <3>3. /\ Spread(new)
          /\ \A p \in Nat : p > id /\ Page!ShownOrNewer(g, p) => Page!ShownOrNewer(new, p)
          /\ PageShown > 0 => Page!Contains(new, id)
          /\ \A p \in Nat : Page!Contains(g, p) => Page!Contains(new, p) \/ id >= p + PageShown
      BY <1>3, <3>1, <3>2, LinesShown
    <3>. QED BY <2>2, <3>1, <3>3
  <2>. QED BY <2>1, <2>2
<1>7. ASSUME NEW k \in DOMAIN c, c[k].type = "log"
      PROVE  /\ Page!ShownOrNewer(new, c[k].payload)
             /\ \A l \in DOMAIN c : k < l /\ c[l].type = "log" => c[k].payload < c[l].payload
  <2>1. k \in Nat /\ k >= 1 /\ k + 1 \in DOMAIN b /\ c[k] = b[k + 1] /\ 1 < k + 1
    BY <1>4, <1>7
  <2>2. Page!ShownOrNewer(g, c[k].payload) /\ c[k].payload \in Nat
    BY <1>5, <1>7, <2>1
  <2>3. ASSUME NEW l \in DOMAIN c, k < l, c[l].type = "log" PROVE c[k].payload < c[l].payload
    <3>1. l + 1 \in DOMAIN b /\ c[l] = b[l + 1] /\ k + 1 < l + 1
      BY <1>4, <2>1, <2>3
    <3>. QED BY <1>5, <1>7, <2>1, <2>3, <3>1
  <2>4. e.type = "log" => e.payload < c[k].payload /\ e.payload \in Nat
    BY <1>4, <1>5, <1>7, <2>1
  <2>5. Page!ShownOrNewer(new, c[k].payload)
    BY <1>6, <2>2, <2>4
  <2>. QED BY <2>3, <2>5
<1>8. ASSUME NEW j \in PageSockets, NEW k \in DOMAIN v2'[j].inbox, v2'[j].inbox[k].type = "log"
      PROVE  /\ Page!ShownOrNewer(v4'.logs, v2'[j].inbox[k].payload)
             /\ \A l \in DOMAIN v2'[j].inbox : k < l /\ v2'[j].inbox[l].type = "log" =>
                  v2'[j].inbox[k].payload < v2'[j].inbox[l].payload
  <2>1. j = i
    <3>1. SUFFICES ASSUME j # i PROVE FALSE
      OBVIOUS
    <3>2. v2'[j] = v2[j]
      BY <3>1 DEF Pops
    <3>. QED BY <1>2, <1>8, <3>1, <3>2, OthersSilent
  <2>. QED BY <1>1, <1>7, <1>8, <2>1
<1>9. ASSUME NEW k \in DOMAIN v1'.logs, k > Len(v1'.logs) - PageReplayed
      PROVE  /\ Page!ShownOrNewer(v4'.logs, v1'.logs[k])
             /\ \A j \in Page!Subscribed' :
                  \/ Page!Contains(v4'.logs, v1'.logs[k])
                  \/ \E l \in DOMAIN v2'[j].inbox : v2'[j].inbox[l] = [type |-> "log", payload |-> v1'.logs[k]]
  <2>1. PICK h \in Seq(Nat), n \in Nat, y \in Nat : h = v1.logs /\ n = Len(h) /\ y = v1.nextLog /\ DOMAIN h = 1 .. n
    BY <1>2, FeedViews DEF FeedShape
  <2>2. k \in 1 .. n /\ k > n - PageReplayed
    BY <1>2, <1>9, <2>1
  <2>3. PICK p \in Nat : p = h[k] /\ p = y - 1 - n + k
    BY <1>2, <2>1, <2>2 DEF Page!Numbered
  <2>4. i \in Page!Subscribed
    BY <1>2 DEF Page!Subscribed
  <2>5. /\ Page!ShownOrNewer(g, p)
        /\ Page!Contains(g, p) \/ \E l \in DOMAIN b : b[l] = [type |-> "log", payload |-> p]
    BY <1>1, <1>2, <1>9, <2>1, <2>3, <2>4, Zenon DEF Page!InOrder
  <2>6. PageReplayed \in Nat /\ PageShown \in Nat /\ PageReplayed <= PageShown
    BY PageAssumption
  <2>7. PageShown > 0 /\ p + PageShown >= y
    <3>1. PICK q \in Nat, r \in Nat : q = PageReplayed /\ r = PageShown /\ q <= r
      BY <2>6
    <3>2. k \in Int /\ k >= 1 /\ k <= n /\ k > n - q
      BY <2>2, <3>1
    <3>3. r > 0 /\ y - 1 - n + k + r >= y
      BY <3>1, <3>2
    <3>. QED BY <2>3, <3>1, <3>3
  <2>8. e.type = "log" => e.payload \in Nat /\ e.payload < y
    BY <1>1, <1>2, <1>4, <1>5, <2>1, Zenon DEF Page!Numbered
  <2>9. Page!ShownOrNewer(new, p) /\ (Page!Contains(new, p) \/ \E l \in DOMAIN c : c[l] = [type |-> "log", payload |-> p])
    <3>1. CASE Page!Contains(g, p)
      <4>1. Page!Contains(new, p)
        <5>1. CASE e.type # "log"
          BY <1>6, <3>1, <5>1
        <5>2. CASE e.type = "log"
          <6>1. ~(e.payload >= p + PageShown)
            BY <2>1, <2>6, <2>7, <2>8, <5>2
          <6>. QED BY <1>6, <3>1, <5>2, <6>1
        <5>. QED BY <5>1, <5>2
      <4>. QED BY <4>1 DEF Page!ShownOrNewer
    <3>2. CASE ~Page!Contains(g, p)
      <4>1. PICK l \in DOMAIN b : b[l] = [type |-> "log", payload |-> p]
        BY <2>5, <3>2
      <4>2. b[l].type = "log" /\ b[l].payload = p
        BY <4>1
      <4>3. CASE l = 1
        <5>1. e.type = "log" /\ e.payload = p
          BY <1>4, <4>2, <4>3
        <5>2. Page!Contains(new, p)
          BY <1>6, <2>7, <5>1
        <5>. QED BY <5>2 DEF Page!ShownOrNewer
      <4>4. CASE l # 1
        <5>1. l - 1 \in DOMAIN c /\ c[l - 1] = b[l] /\ 1 < l
          BY <1>4, <4>4
        <5>2. e.type = "log" => e.payload < p
          BY <1>4, <1>5, <4>2, <5>1
        <5>3. Page!ShownOrNewer(new, p)
          BY <1>6, <2>5, <2>8, <5>2
        <5>. QED BY <4>1, <5>1, <5>3
      <4>. QED BY <4>3, <4>4
    <3>. QED BY <3>1, <3>2
  <2>10. ASSUME NEW j \in Page!Subscribed' PROVE j = i
    <3>1. j \in PageSockets /\ v2[j].phase = "open"
      BY <2>10 DEF Page!Subscribed, Pops
    <3>. QED BY <1>2, <3>1, OthersSilent
  <2>11. v1'.logs[k] = p
    BY <1>2, <2>1, <2>3
  <2>. QED BY <1>1, <2>9, <2>10, <2>11
<1>10. \A k, l \in DOMAIN v4'.logs : k < l => v4'.logs[l] - v4'.logs[k] >= l - k
  BY <1>1, <1>6 DEF Spread
<1>. QED BY <1>8, <1>9, <1>10 DEF Page!InOrder

LEMMA PopsFlows ==
  ASSUME Page!FeedInv, NEW i \in PageSockets, NEW e \in Page!Events, Pops(i, e)
  PROVE  Page!Flowing'
<1>1. ~v5 => Page!InOrder /\ Page!StatusComes /\ (~v6 => Page!TradesCome)
  BY DEF Page!FeedInv, Page!Flowing
<1>2. v5' = v5 /\ v6' = v6
  BY DEF Pops
<1>3. Page!Numbered' /\ Page!NoRepeats'
  BY PopsNumbered
<1>4. ~v5 => Page!InOrder' /\ Page!StatusComes' /\ (~v6 => Page!TradesCome')
  BY <1>1, PopsInOrder, PopsStatus, PopsTrades
<1>. QED BY <1>2, <1>3, <1>4 DEF Page!Flowing

(* An event that is sent is a status, a line of the log or a trade. *)
SendsOne(e) ==
  /\ Sends(e)
  /\ \/ e.type = "log" /\ e = [type |-> "log", payload |-> v1.nextLog] /\ v1' = Page!Logged
     \/ e.type # "log" /\ v1'.logs = v1.logs /\ v1'.nextLog = v1.nextLog
  /\ IF e.type = "status" THEN e.payload = v1'.status ELSE v1'.status = v1.status
  /\ \A t \in PageTrades : IF Page!About(e, t) THEN v1'.trades[t] = e.payload[2] ELSE v1'.trades[t] = v1.trades[t]
  /\ v6' = (v6 \/ (e.type = "trade" /\ Page!Subscribed = {}))

(* One event that is sent keeps what flows.                                *)
LEMMA SendsFlows ==
  ASSUME Page!FeedInv, Page!TypeOk', NEW e \in Page!Events, SendsOne(e)
  PROVE  Page!Flowing'
<1>1. Page!TypeOk /\ Page!Numbered /\ Page!NoRepeats /\ (~v5 => Page!InOrder /\ Page!StatusComes /\ (~v6 => Page!TradesCome))
  BY DEF Page!FeedInv, Page!Flowing
<1>2. Sends(e) /\ v5' = v5 /\ v6' = (v6 \/ (e.type = "trade" /\ Page!Subscribed = {}))
  BY DEF SendsOne, Sends
<1>3. Page!Numbered' /\ Page!NoRepeats'
  <2>1. CASE e.type = "log"
    <3>1. e.payload = v1.nextLog /\ v1' = Page!Logged
      BY <2>1 DEF SendsOne
    <3>2. v1'.nextLog = v1.nextLog + 1 /\ v1.nextLog \in Nat
      BY <1>1, <3>1, LoggedGrows, FeedViews DEF FeedShape
    <3>3. e.payload < v1'.nextLog
      BY <3>1, <3>2
    <3>4. \A k \in DOMAIN v1'.logs : v1'.logs[k] = v1'.nextLog - 1 - Len(v1'.logs) + k
      BY <1>1, <3>1, LoggedNumbered
    <3>. QED BY <1>2, <3>3, <3>4, SendsNumbered
  <2>2. CASE e.type # "log"
    <3>1. v1'.logs = v1.logs /\ v1'.nextLog = v1.nextLog
      BY <2>2 DEF SendsOne
    <3>2. \A k \in DOMAIN v1'.logs : v1'.logs[k] = v1'.nextLog - 1 - Len(v1'.logs) + k
      BY <1>1, <3>1 DEF Page!Numbered
    <3>. QED BY <1>2, <2>2, <3>2, SendsNumbered
  <2>. QED BY <2>1, <2>2
<1>4. Page!InOrder => Page!InOrder'
  <2>1. CASE e.type = "log"
    BY <1>2, <2>1, SendsLog DEF SendsOne
  <2>2. CASE e.type # "log"
    BY <1>2, <2>2, SendsInOrder DEF SendsOne
  <2>. QED BY <2>1, <2>2
<1>5. Page!StatusComes => Page!StatusComes'
  BY <1>2, SendsStatus DEF SendsOne
<1>6. ASSUME ~v6', Page!TradesCome PROVE Page!TradesCome'
  <2>1. e.type = "trade" => \E i \in PageSockets : v2[i].phase = "open"
    BY <1>2, <1>6, Zenon DEF Page!Subscribed
  <2>2. \A t \in PageTrades : IF Page!About(e, t) THEN v1'.trades[t] = e.payload[2] ELSE v1'.trades[t] = v1.trades[t]
    BY DEF SendsOne
  <2>. QED BY <1>2, <1>6, <2>1, <2>2, SendsTrades
<1>. QED BY <1>1, <1>2, <1>3, <1>4, <1>5, <1>6, Zenon DEF Page!Flowing

(* The types, variable by variable. *)
SocketSet == [phase : Page!Phases, inbox : Seq(Page!Events)]
ServerFits ==
  /\ v1 \in [token : PageTokens, cors : BOOLEAN, status : {"STOPPED", "RUNNING"}, logs : Seq(Nat),
             trades : [PageTrades -> {"none", "open", "closed"}], nextLog : Nat]
  /\ Len(v1.logs) <= PageLogs
SocketsFit == v2 \in [PageSockets -> SocketSet]
PageFits == v3 \in [auth : {"checking", "required", "authenticated"}, token : PageTokens, timers : Nat]
ClientFits ==
  /\ v4 \in [connected : BOOLEAN, unauthorised : BOOLEAN, status : {"none", "STOPPED", "RUNNING"},
             logs : Seq(Nat), trades : Seq(Page!Rows)]
  /\ Len(v4.logs) <= PageShown
HistoryFits == v5 \in BOOLEAN /\ v6 \in BOOLEAN
CountsFit   == v7 \in 0 .. PageEvents /\ v8 \in 0 .. PageFaults

(* The type invariant, one conjunct for each variable.                     *)
LEMMA FitsTogether ==
  Page!TypeOk <=> ServerFits /\ SocketsFit /\ PageFits /\ ClientFits /\ HistoryFits /\ CountsFit
  BY DEF Page!TypeOk, ServerFits, SocketsFit, SocketSet, PageFits, ClientFits, HistoryFits, CountsFit

LEMMA FitsTogetherNext ==
  Page!TypeOk' <=> ServerFits' /\ SocketsFit' /\ PageFits' /\ ClientFits' /\ HistoryFits' /\ CountsFit'
  BY FitsTogether, PTL

LEMMA SocketsKeepFit ==
  ASSUME NEW f, NEW s \in [PageSockets -> SocketSet], NEW x \in SocketSet,
         f \in {s} \/ \E i \in PageSockets : f = [s EXCEPT ![i] = x]
  PROVE  f \in [PageSockets -> SocketSet]
  OBVIOUS

LEMMA SocketFits ==
  ASSUME NEW p \in Page!Phases, NEW b \in Seq(Page!Events)
  PROVE  [phase |-> p, inbox |-> b] \in SocketSet
<1>1. PICK E : E = Seq(Page!Events)
  OBVIOUS
<1>2. [phase |-> p, inbox |-> b] \in [phase : Page!Phases, inbox : E]
  BY <1>1
<1>. QED BY <1>1, <1>2 DEF SocketSet

LEMMA NoSocketFits == Page!NoSocket \in SocketSet
<1>1. "none" \in Page!Phases /\ <<>> \in Seq(Page!Events)
  BY DEF Page!Phases
<1>. QED BY <1>1, SocketFits, Zenon DEF Page!NoSocket

(* A step that changes neither phases nor the page nor the connection. *)
LEMMA StaysAlone ==
  ASSUME ~v5 => Page!Alone, v5' = v5, v3' = v3, v4'.connected = v4.connected, v4'.unauthorised = v4.unauthorised,
         \A i \in PageSockets : v2'[i].phase = v2[i].phase
  PROVE  ~v5' => Page!Alone'
<1>1. ASSUME NEW i \in PageSockets PROVE Page!Active(i)' <=> Page!Active(i)
  BY DEF Page!Active
<1>. QED BY <1>1 DEF Page!Alone

(* What is published.  *)
LEMMA Publishes ==
  ASSUME Page!FeedInv, NEW e \in Page!Events, Page!Publish(e), ServerFits', v1'.nextLog >= v1.nextLog, v1'.token = v1.token
  PROVE  /\ Sends(e) /\ Page!TypeOk' /\ Page!Contained' /\ (~v5' => Page!Alone')
         /\ v6' = (v6 \/ (e.type = "trade" /\ Page!Subscribed = {}))
<1>1. Page!TypeOk /\ Page!Contained /\ (~v5 => Page!Alone)
  BY DEF Page!FeedInv
<1>2. v3' = v3 /\ v4' = v4 /\ v5' = v5 /\ v8' = v8 /\ v7 < PageEvents /\ v7' = v7 + 1
      /\ v6' = (v6 \/ (e.type = "trade" /\ Page!Subscribed = {}))
  BY Zenon DEF Page!Publish
<1>3. v2' = [i \in PageSockets |->
               IF i \in Page!Subscribed THEN [v2[i] EXCEPT !.inbox = Append(@, e)] ELSE v2[i]]
  BY DEF Page!Publish, Page!Deliver
<1>4. PICK E : E = Seq(Page!Events)
  OBVIOUS
<1>5. SocketsFit
  BY <1>1, FitsTogether
<1>6. ASSUME NEW i \in PageSockets
      PROVE  /\ v2'[i] \in SocketSet /\ v2'[i].phase = v2[i].phase
             /\ v2'[i].inbox = IF v2[i].phase = "open" THEN Append(v2[i].inbox, e) ELSE v2[i].inbox
  <2>1. v2[i] \in [phase : Page!Phases, inbox : E]
    BY <1>4, <1>5 DEF SocketsFit, SocketSet
  <2>2. Append(v2[i].inbox, e) \in E
    <3>1. v2[i].inbox \in Seq(Page!Events)
      BY <1>4, <2>1
    <3>. QED BY <1>4, <3>1
  <2>3. PICK a \in E : a = Append(v2[i].inbox, e)
    BY <2>2, Zenon
  <2>4. CASE v2[i].phase = "open"
    <3>1. v2'[i] = [v2[i] EXCEPT !.inbox = a]
      BY <1>3, <2>3, <2>4 DEF Page!Subscribed
    <3>2. v2'[i] \in [phase : Page!Phases, inbox : E] /\ v2'[i].phase = v2[i].phase /\ v2'[i].inbox = a
      BY <2>1, <2>3, <3>1, Zenon
    <3>. QED BY <1>4, <2>3, <2>4, <3>2 DEF SocketSet
  <2>5. CASE v2[i].phase # "open"
    <3>1. v2'[i] = v2[i]
      BY <1>3, <2>5 DEF Page!Subscribed
    <3>. QED BY <1>4, <2>1, <2>5, <3>1 DEF SocketSet
  <2>. QED BY <2>4, <2>5
<1>7. SocketsFit'
  <2>1. \A i \in PageSockets : v2'[i] \in SocketSet
    BY <1>6
  <2>. QED BY <1>3, <2>1, Zenon DEF SocketsFit
<1>8. Page!TypeOk'
  <2>1. PageFits /\ ClientFits /\ HistoryFits /\ CountsFit
    BY <1>1, FitsTogether
  <2>2. PageFits' /\ ClientFits'
    BY <1>2, <2>1 DEF PageFits, ClientFits
  <2>3. HistoryFits'
    BY <1>2, <2>1, Zenon DEF HistoryFits
  <2>4. CountsFit'
    <3>1. PageEvents \in Nat
      BY PageAssumption
    <3>. QED BY <1>2, <2>1, <3>1 DEF CountsFit
  <2>. QED BY <1>7, <2>2, <2>3, <2>4, FitsTogetherNext
<1>9. Page!Contained'
  <2>1. \A i \in PageSockets : v2'[i].phase # "open" => v2'[i].inbox = <<>>
    BY <1>1, <1>6 DEF Page!Contained
  <2>2. v3'.auth # "authenticated" => v3'.timers = 0 /\ \A i \in PageSockets : v2'[i] = Page!NoSocket
    <3>1. ASSUME v3.auth # "authenticated", NEW i \in PageSockets PROVE v2'[i] = Page!NoSocket
      <4>1. v2[i] = Page!NoSocket /\ v2[i].phase # "open"
        BY <1>1, <3>1 DEF Page!Contained, Page!NoSocket
      <4>2. v2'[i] = v2[i]
        BY <1>3, <4>1 DEF Page!Subscribed
      <4>. QED BY <4>1, <4>2
    <3>. QED BY <1>1, <1>2, <3>1 DEF Page!Contained
  <2>3. Page!Subscribed' = Page!Subscribed
    BY <1>6 DEF Page!Subscribed
  <2>. QED BY <1>1, <1>2, <2>1, <2>2, <2>3 DEF Page!Contained
<1>10. ~v5' => Page!Alone'
  BY <1>1, <1>2, <1>6, StaysAlone
<1>. QED BY <1>2, <1>6, <1>8, <1>9, <1>10 DEF Sends

(* Each action keeps the invariant: what the server publishes,             *)
LEMMA PublishStatusKeeps ==
  ASSUME Page!FeedInv, Page!PublishStatus
  PROVE  Page!FeedInv'
<1>1. PICK new : new = IF v1.status = "STOPPED" THEN "RUNNING" ELSE "STOPPED"
  OBVIOUS
<1>2. new \in {"STOPPED", "RUNNING"}
  BY <1>1
<1>3. PICK e : e = [type |-> "status", payload |-> new]
  BY Zenon
<1>4. e \in Page!Events /\ e.type = "status" /\ e.payload = new
  BY <1>2, <1>3 DEF Page!Events
<1>5. v1' = [v1 EXCEPT !.status = new] /\ Page!Publish(e)
  BY <1>1, <1>3 DEF Page!PublishStatus
<1>6. Page!TypeOk /\ ServerFits
  BY FitsTogether DEF Page!FeedInv
<1>7. ServerFits' /\ v1'.logs = v1.logs /\ v1'.nextLog = v1.nextLog /\ v1'.token = v1.token /\ v1'.trades = v1.trades /\ v1'.status = new
  <2>1. PICK N, T : N = Seq(Nat) /\ T = [PageTrades -> {"none", "open", "closed"}]
    BY Zenon
  <2>2. v1 \in [token : PageTokens, cors : BOOLEAN, status : {"STOPPED", "RUNNING"}, logs : N, trades : T, nextLog : Nat]
    BY <1>6, <2>1 DEF ServerFits
  <2>3. /\ v1' \in [token : PageTokens, cors : BOOLEAN, status : {"STOPPED", "RUNNING"}, logs : N, trades : T, nextLog : Nat]
        /\ v1'.logs = v1.logs /\ v1'.nextLog = v1.nextLog /\ v1'.token = v1.token /\ v1'.trades = v1.trades /\ v1'.status = new
    BY <1>2, <1>5, <2>2
  <2>. QED BY <1>6, <2>1, <2>3 DEF ServerFits
<1>8. v1'.nextLog >= v1.nextLog
  BY <1>6, <1>7, FeedViews DEF FeedShape
<1>9. /\ Sends(e) /\ Page!TypeOk' /\ Page!Contained' /\ (~v5' => Page!Alone')
      /\ v6' = (v6 \/ (e.type = "trade" /\ Page!Subscribed = {}))
  BY <1>4, <1>5, <1>7, <1>8, Publishes
<1>10. SendsOne(e)
  BY <1>4, <1>7, <1>9 DEF SendsOne, Page!About
<1>. QED BY <1>4, <1>9, <1>10, SendsFlows DEF Page!FeedInv

LEMMA PublishLogKeeps ==
  ASSUME Page!FeedInv, Page!PublishLog
  PROVE  Page!FeedInv'
<1>1. Page!TypeOk /\ ServerFits
  BY FitsTogether DEF Page!FeedInv
<1>2. v1.nextLog \in Nat
  BY <1>1, FeedViews DEF FeedShape
<1>3. PICK e : e = [type |-> "log", payload |-> v1.nextLog]
  BY Zenon
<1>4. e \in Page!Events /\ e.type = "log" /\ e.payload = v1.nextLog
  BY <1>2, <1>3 DEF Page!Events
<1>5. v1' = Page!Logged /\ Page!Publish(e)
  BY <1>3 DEF Page!PublishLog
<1>6. /\ v1'.logs \in Seq(Nat) /\ Len(v1'.logs) <= PageLogs /\ v1'.nextLog = v1.nextLog + 1
      /\ v1'.status = v1.status /\ v1'.trades = v1.trades /\ v1'.token = v1.token /\ v1'.cors = v1.cors
  BY <1>1, <1>5, LoggedGrows
<1>7. ServerFits'
  <2>1. PICK N, T : N = Seq(Nat) /\ T = [PageTrades -> {"none", "open", "closed"}]
    BY Zenon
  <2>2. v1 \in [token : PageTokens, cors : BOOLEAN, status : {"STOPPED", "RUNNING"}, logs : N, trades : T, nextLog : Nat]
    BY <1>1, <2>1 DEF ServerFits
  <2>3. PICK g : g = Page!LastOf(Append(v1.logs, v1.nextLog), PageLogs)
    OBVIOUS
  <2>4. v1' = [v1 EXCEPT !.logs = g, !.nextLog = v1.nextLog + 1]
    BY <1>5, <2>2, <2>3 DEF Page!Logged
  <2>5. g \in N
    <3>1. v1'.logs = g
      BY <2>2, <2>4
    <3>. QED BY <1>6, <2>1, <3>1
  <2>6. v1' \in [token : PageTokens, cors : BOOLEAN, status : {"STOPPED", "RUNNING"}, logs : N, trades : T, nextLog : Nat]
    <3>1. PICK y \in Nat : y = v1.nextLog + 1
      BY <1>2
    <3>2. v1' = [v1 EXCEPT !.logs = g, !.nextLog = y]
      BY <2>4, <3>1
    <3>. QED BY <2>2, <2>5, <3>2, Zenon
  <2>. QED BY <1>6, <2>1, <2>6 DEF ServerFits
<1>8. v1'.nextLog >= v1.nextLog
  BY <1>2, <1>6
<1>9. /\ Sends(e) /\ Page!TypeOk' /\ Page!Contained' /\ (~v5' => Page!Alone')
      /\ v6' = (v6 \/ (e.type = "trade" /\ Page!Subscribed = {}))
  BY <1>4, <1>5, <1>6, <1>7, <1>8, Publishes
<1>10. SendsOne(e)
  BY <1>3, <1>4, <1>5, <1>6, <1>9 DEF SendsOne, Page!About
<1>. QED BY <1>4, <1>9, <1>10, SendsFlows DEF Page!FeedInv

LEMMA PublishTradeKeeps ==
  ASSUME Page!FeedInv, NEW t \in PageTrades, Page!PublishTrade(t)
  PROVE  Page!FeedInv'
<1>1. PICK new : new = IF v1.trades[t] = "none" THEN "open" ELSE "closed"
  OBVIOUS
<1>2. new \in {"open", "closed"}
  BY <1>1
<1>3. PICK e : e = [type |-> "trade", payload |-> <<t, new>>]
  BY Zenon
<1>4. e \in Page!Events /\ e.type = "trade" /\ e.payload[1] = t /\ e.payload[2] = new
  BY <1>2, <1>3 DEF Page!Events, Page!Rows
<1>5. v1' = [v1 EXCEPT !.trades[t] = new] /\ Page!Publish(e)
  BY <1>1, <1>3 DEF Page!PublishTrade
<1>6. Page!TypeOk /\ ServerFits
  BY FitsTogether DEF Page!FeedInv
<1>7. /\ ServerFits' /\ v1'.logs = v1.logs /\ v1'.nextLog = v1.nextLog /\ v1'.token = v1.token /\ v1'.status = v1.status
      /\ v1'.trades = [v1.trades EXCEPT ![t] = new] /\ DOMAIN v1.trades = PageTrades
  <2>1. PICK N, T : N = Seq(Nat) /\ T = [PageTrades -> {"none", "open", "closed"}]
    BY Zenon
  <2>2. v1 \in [token : PageTokens, cors : BOOLEAN, status : {"STOPPED", "RUNNING"}, logs : N, trades : T, nextLog : Nat]
    BY <1>6, <2>1 DEF ServerFits
  <2>3. PICK g : g = [v1.trades EXCEPT ![t] = new]
    BY Zenon
  <2>4. v1.trades \in T
    BY <2>2
  <2>5. g \in T /\ DOMAIN v1.trades = PageTrades
    BY <1>2, <2>1, <2>3, <2>4
  <2>6. v1' = [v1 EXCEPT !.trades = g]
    BY <1>5, <2>3
  <2>7. /\ v1' \in [token : PageTokens, cors : BOOLEAN, status : {"STOPPED", "RUNNING"}, logs : N, trades : T, nextLog : Nat]
        /\ v1'.logs = v1.logs /\ v1'.nextLog = v1.nextLog /\ v1'.token = v1.token /\ v1'.status = v1.status /\ v1'.trades = g
    BY <2>2, <2>5, <2>6
  <2>. QED BY <1>6, <2>1, <2>3, <2>5, <2>7 DEF ServerFits
<1>8. v1'.nextLog >= v1.nextLog
  BY <1>6, <1>7, FeedViews DEF FeedShape
<1>9. /\ Sends(e) /\ Page!TypeOk' /\ Page!Contained' /\ (~v5' => Page!Alone')
      /\ v6' = (v6 \/ (e.type = "trade" /\ Page!Subscribed = {}))
  BY <1>4, <1>5, <1>7, <1>8, Publishes
<1>10. \A x \in PageTrades : IF Page!About(e, x) THEN v1'.trades[x] = e.payload[2] ELSE v1'.trades[x] = v1.trades[x]
  BY <1>4, <1>7 DEF Page!About
<1>11. SendsOne(e)
  BY <1>4, <1>7, <1>9, <1>10 DEF SendsOne
<1>. QED BY <1>4, <1>9, <1>11, SendsFlows DEF Page!FeedInv

(* the client, a socket that is lost,                                      *)
LEMMA ReceiveKeeps ==
  ASSUME Page!FeedInv, NEW i \in PageSockets, Page!Receive(i)
  PROVE  Page!FeedInv'
<1>1. Page!TypeOk /\ Page!Contained /\ (~v5 => Page!Alone) /\ SocketsFit /\ ClientFits /\ Page!NoRepeats
  BY FitsTogether DEF Page!FeedInv, Page!Flowing
<1>2. /\ v2[i].phase = "open" /\ v2[i].inbox # <<>>
      /\ v2' = [v2 EXCEPT ![i].inbox = Tail(v2[i].inbox)]
      /\ v1' = v1 /\ v3' = v3 /\ v5' = v5 /\ v6' = v6 /\ v7' = v7 /\ v8' = v8
  <2>1. v2' = [v2 EXCEPT ![i].inbox = Tail(@)]
    BY DEF Page!Receive
  <2>. QED BY <2>1 DEF Page!Receive
<1>3. PICK e, c : e = Head(v2[i].inbox) /\ c = Tail(v2[i].inbox)
  BY Zenon
<1>4. Popped(v2[i].inbox, c, e) /\ c \in Seq(Page!Events) /\ e \in Page!Events
  <2>1. v2[i].inbox \in Seq(Page!Events)
    BY <1>1, FeedViews DEF FeedShape
  <2>. QED BY <1>2, <1>3, <2>1, PopShape
<1>5. PICK x : x = [phase |-> "open", inbox |-> c]
  BY Zenon
<1>6. x \in SocketSet /\ v2 \in [PageSockets -> SocketSet]
  <2>1. "open" \in Page!Phases
    BY DEF Page!Phases
  <2>. QED BY <1>1, <1>4, <1>5, <2>1, SocketFits DEF SocketsFit
<1>7. v2' = [v2 EXCEPT ![i] = x]
  <2>1. PICK E : E = Seq(Page!Events)
    OBVIOUS
  <2>2. v2[i] \in [phase : Page!Phases, inbox : E]
    BY <1>6, <2>1 DEF SocketSet
  <2>3. [v2[i] EXCEPT !.inbox = c] = x
    BY <1>2, <1>5, <2>2
  <2>4. v2' = [v2 EXCEPT ![i] = [v2[i] EXCEPT !.inbox = c]]
    BY <1>2, <1>3, <1>6
  <2>. QED BY <2>3, <2>4, Zenon
<1>8. /\ v2'[i] = x /\ \A j \in PageSockets : j # i => v2'[j] = v2[j]
      /\ \A j \in PageSockets : v2'[j].phase = v2[j].phase
  BY <1>2, <1>5, <1>6, <1>7, Zenon
<1>9. SocketsFit'
  BY <1>6, <1>7, SocketsKeepFit DEF SocketsFit
<1>10. PICK logs, trades, status :
          /\ logs = (IF e.type = "log" THEN Page!WithLog(v4.logs, e.payload) ELSE v4.logs)
          /\ trades = (IF e.type = "trade" THEN Page!WithTrade(v4.trades, e.payload) ELSE v4.trades)
          /\ status = (IF e.type = "status" THEN e.payload ELSE v4.status)
  OBVIOUS
<1>11. PICK N, R : N = Seq(Nat) /\ R = Seq(Page!Rows)
  OBVIOUS
<1>12. v4 \in [connected : BOOLEAN, unauthorised : BOOLEAN, status : {"none", "STOPPED", "RUNNING"}, logs : N, trades : R]
  BY <1>1, <1>11 DEF ClientFits
<1>13. logs \in N /\ Len(logs) <= PageShown
  <2>1. v4.logs \in Seq(Nat) /\ Len(v4.logs) <= PageShown /\ Page!IsInjective(v4.logs)
    BY <1>1, FeedViews DEF FeedShape, ClientFits, Page!NoRepeats
  <2>2. CASE e.type = "log"
    <3>1. e.payload \in Nat
      BY <1>4, <2>2, EventIs
    <3>2. Page!WithLog(v4.logs, e.payload) \in Seq(Nat) /\ Len(Page!WithLog(v4.logs, e.payload)) <= PageShown
      BY <2>1, <3>1, WithLogIs
    <3>. QED BY <1>10, <1>11, <2>2, <3>2
  <2>3. CASE e.type # "log"
    BY <1>10, <1>11, <2>1, <2>3
  <2>. QED BY <2>2, <2>3
<1>14. trades \in R
  <2>1. v4.trades \in Seq(Page!Rows) /\ \A k, l \in DOMAIN v4.trades : v4.trades[k][1] = v4.trades[l][1] => k = l
    BY <1>1, FeedViews DEF FeedShape, Page!NoRepeats
  <2>2. CASE e.type = "trade"
    <3>1. e.payload \in Page!Rows
      BY <1>4, <2>2, EventIs
    <3>2. Page!WithTrade(v4.trades, e.payload) \in Seq(Page!Rows)
      BY <2>1, <3>1, WithTradeIs
    <3>. QED BY <1>10, <1>11, <2>2, <3>2
  <2>3. CASE e.type # "trade"
    BY <1>10, <1>11, <2>1, <2>3
  <2>. QED BY <2>2, <2>3
<1>15. status \in {"none", "STOPPED", "RUNNING"}
  <2>1. e.type = "status" => e.payload \in {"STOPPED", "RUNNING"}
    BY <1>4, EventIs
  <2>. QED BY <1>10, <1>12, <2>1
<1>16. v4' = CASE e.type = "status" -> [v4 EXCEPT !.status = e.payload]
               [] e.type = "trade"  -> [v4 EXCEPT !.trades = Page!WithTrade(v4.trades, e.payload)]
               [] e.type = "log"    -> [v4 EXCEPT !.logs = Page!WithLog(v4.logs, e.payload)]
  BY <1>3, <1>12 DEF Page!Receive
<1>17. /\ v4' \in [connected : BOOLEAN, unauthorised : BOOLEAN, status : {"none", "STOPPED", "RUNNING"}, logs : N, trades : R]
       /\ v4'.connected = v4.connected /\ v4'.unauthorised = v4.unauthorised
       /\ v4'.logs = logs /\ v4'.trades = trades /\ v4'.status = status
  <2>1. CASE e.type = "status"
    <3>1. v4' = [v4 EXCEPT !.status = status] /\ logs = v4.logs /\ trades = v4.trades
      BY <1>10, <1>16, <2>1
    <3>. QED BY <1>12, <1>15, <3>1
  <2>2. CASE e.type = "trade"
    <3>1. v4' = [v4 EXCEPT !.trades = trades] /\ logs = v4.logs /\ status = v4.status
      BY <1>10, <1>16, <2>2
    <3>. QED BY <1>12, <1>14, <3>1
  <2>3. CASE e.type = "log"
    <3>1. v4' = [v4 EXCEPT !.logs = logs] /\ trades = v4.trades /\ status = v4.status
      BY <1>10, <1>16, <2>3
    <3>. QED BY <1>12, <1>13, <3>1
  <2>. QED BY <1>4, <2>1, <2>2, <2>3, EventIs
<1>18. Pops(i, e)
  <2>1. v2'[i].inbox = c
    BY <1>5, <1>8
  <2>2. Popped(v2[i].inbox, v2'[i].inbox, e)
    BY <1>4, <2>1
  <2>3. /\ v4'.logs = IF e.type = "log" THEN Page!WithLog(v4.logs, e.payload) ELSE v4.logs
        /\ v4'.trades = IF e.type = "trade" THEN Page!WithTrade(v4.trades, e.payload) ELSE v4.trades
        /\ v4'.status = IF e.type = "status" THEN e.payload ELSE v4.status
    BY <1>10, <1>17, Zenon
  <2>. QED BY <1>2, <1>8, <2>2, <2>3, Zenon DEF Pops
<1>19. Page!TypeOk'
  <2>1. ClientFits'
    BY <1>11, <1>13, <1>17 DEF ClientFits
  <2>2. ServerFits' /\ PageFits' /\ HistoryFits' /\ CountsFit'
    BY <1>1, <1>2, FitsTogether DEF ServerFits, PageFits, HistoryFits, CountsFit
  <2>. QED BY <1>9, <2>1, <2>2, FitsTogetherNext
<1>20. Page!Contained'
  <2>1. \A j \in PageSockets : v2'[j].phase # "open" => v2'[j].inbox = <<>>
    BY <1>1, <1>2, <1>8 DEF Page!Contained
  <2>2. v3'.auth = "authenticated"
    BY <1>1, <1>2 DEF Page!Contained, Page!NoSocket
  <2>3. Page!Subscribed' = Page!Subscribed
    BY <1>8 DEF Page!Subscribed
  <2>. QED BY <1>1, <1>2, <2>1, <2>2, <2>3 DEF Page!Contained
<1>21. ~v5' => Page!Alone'
  BY <1>1, <1>2, <1>8, <1>17, StaysAlone
<1>22. Page!Flowing'
  BY <1>4, <1>18, PopsFlows
<1>. QED BY <1>19, <1>20, <1>21, <1>22 DEF Page!FeedInv

(* A socket that is gone carries nothing. *)
LEMMA QuietSocket == \A p \in Page!Phases : [phase |-> p, inbox |-> <<>>] \in SocketSet
<1>1. <<>> \in Seq(Page!Events)
  OBVIOUS
<1>. QED BY <1>1, SocketFits, Zenon

LEMMA DropKeeps ==
  ASSUME Page!FeedInv, NEW i \in PageSockets, Page!Drop(i)
  PROVE  Page!FeedInv'
<1>1. Page!TypeOk /\ Page!Contained /\ (~v5 => Page!Alone) /\ SocketsFit
  BY FitsTogether DEF Page!FeedInv
<1>2. PICK x : x = [phase |-> "dropped", inbox |-> <<>>]
  BY Zenon
<1>3. /\ v2[i].phase \in {"connecting", "open"} /\ v2' = [v2 EXCEPT ![i] = x] /\ v8 < PageFaults /\ v8' = v8 + 1
      /\ v1' = v1 /\ v3' = v3 /\ v4' = v4 /\ v5' = v5 /\ v7' = v7
      /\ v6' = (v6 \/ v2[i].inbox # <<>>)
  BY <1>2, Zenon DEF Page!Drop, Page!Live
<1>4. x \in SocketSet /\ v2 \in [PageSockets -> SocketSet]
  <2>1. "dropped" \in Page!Phases
    BY DEF Page!Phases
  <2>. QED BY <1>1, <1>2, <2>1, QuietSocket DEF SocketsFit
<1>5. v2'[i] = x /\ x.phase = "dropped" /\ x.inbox = <<>> /\ \A j \in PageSockets : j # i => v2'[j] = v2[j]
  BY <1>2, <1>3, <1>4
<1>6. Page!TypeOk'
  <2>1. ServerFits /\ PageFits /\ ClientFits /\ HistoryFits /\ CountsFit
    BY <1>1, FitsTogether
  <2>2. SocketsFit'
    BY <1>3, <1>4, SocketsKeepFit DEF SocketsFit
  <2>3. ServerFits' /\ PageFits' /\ ClientFits'
    BY <1>3, <2>1 DEF ServerFits, PageFits, ClientFits
  <2>4. HistoryFits'
    BY <1>3, <2>1, Zenon DEF HistoryFits
  <2>5. CountsFit'
    <3>1. PageFaults \in Nat
      BY PageAssumption
    <3>. QED BY <1>3, <2>1, <3>1 DEF CountsFit
  <2>. QED BY <2>2, <2>3, <2>4, <2>5, FitsTogetherNext
<1>7. Page!Contained'
  <2>1. v3.auth = "authenticated"
    BY <1>1, <1>3 DEF Page!Contained, Page!NoSocket
  <2>2. \A j \in Page!Subscribed' : j \in Page!Subscribed
    BY <1>5 DEF Page!Subscribed
  <2>. QED BY <1>1, <1>3, <1>5, <2>1, <2>2 DEF Page!Contained
<1>8. ~v5' => Page!Alone'
  <2>1. ASSUME NEW j \in PageSockets PROVE Page!Active(j)' <=> Page!Active(j)
    BY <1>3, <1>5, <2>1 DEF Page!Active
  <2>. QED BY <1>1, <1>3, <2>1 DEF Page!Alone
<1>9. Thins
  <2>1. v6' \/ \A j \in PageSockets : v2'[j].inbox = v2[j].inbox
    BY <1>3, <1>5, Zenon
  <2>2. \A j \in PageSockets : v2'[j].inbox \in {v2[j].inbox, <<>>}
    BY <1>5
  <2>3. \A j \in PageSockets : v2'[j].phase = "open" => v2[j].phase = "open" /\ v2'[j].inbox = v2[j].inbox
    BY <1>5
  <2>4. v6 => v6'
    BY <1>3, Zenon
  <2>. QED BY <1>3, <2>1, <2>2, <2>3, <2>4, Zenon DEF Thins
<1>. QED BY <1>6, <1>7, <1>8, <1>9, ThinsFlows DEF Page!FeedInv

(* a restart of the server,                                                *)
LEMMA ServerRestartKeeps ==
  ASSUME Page!FeedInv, NEW token \in PageTokens, NEW cors \in BOOLEAN, Page!RestartServer(token, cors)
  PROVE  Page!FeedInv'
<1>1. Page!TypeOk /\ Page!Contained /\ (~v5 => Page!Alone) /\ SocketsFit /\ ServerFits
  BY FitsTogether DEF Page!FeedInv
<1>2. PICK x : x = [phase |-> "dropped", inbox |-> <<>>]
  BY Zenon
<1>3. /\ v2' = [i \in PageSockets |-> IF v2[i].phase \in {"connecting", "open"} THEN x ELSE v2[i]]
      /\ v1' = [v1 EXCEPT !.token = token, !.cors = cors, !.status = "STOPPED", !.logs = <<>>]
      /\ v8 < PageFaults /\ v8' = v8 + 1
      /\ v3' = v3 /\ v4' = v4 /\ v5' = v5 /\ v7' = v7
      /\ v6' = (v6 \/ \E i \in PageSockets : v2[i].inbox # <<>>)
  BY <1>2, Zenon DEF Page!RestartServer, Page!Live
<1>4. x \in SocketSet /\ v2 \in [PageSockets -> SocketSet] /\ x.phase = "dropped" /\ x.inbox = <<>>
  <2>1. "dropped" \in Page!Phases
    BY DEF Page!Phases
  <2>. QED BY <1>1, <1>2, <2>1, QuietSocket DEF SocketsFit
<1>5. \A i \in PageSockets : \/ v2[i].phase \in {"connecting", "open"} /\ v2'[i] = x
                             \/ v2[i].phase \notin {"connecting", "open"} /\ v2'[i] = v2[i]
  BY <1>3
<1>6. ServerFits' /\ v1'.logs = <<>> /\ v1'.nextLog = v1.nextLog /\ v1'.trades = v1.trades
  <2>1. PICK N, T : N = Seq(Nat) /\ T = [PageTrades -> {"none", "open", "closed"}]
    BY Zenon
  <2>2. v1 \in [token : PageTokens, cors : BOOLEAN, status : {"STOPPED", "RUNNING"}, logs : N, trades : T, nextLog : Nat]
    BY <1>1, <2>1 DEF ServerFits
  <2>3. PICK z \in N : z = <<>> /\ Len(z) = 0
    <3>1. <<>> \in Seq(Nat) /\ Len(<<>>) = 0
      OBVIOUS
    <3>. QED BY <2>1, <3>1, Zenon
  <2>4. v1' = [v1 EXCEPT !.token = token, !.cors = cors, !.status = "STOPPED", !.logs = z]
    BY <1>3, <2>3
  <2>5. /\ v1' \in [token : PageTokens, cors : BOOLEAN, status : {"STOPPED", "RUNNING"}, logs : N, trades : T, nextLog : Nat]
        /\ v1'.logs = z /\ v1'.nextLog = v1.nextLog /\ v1'.trades = v1.trades
    BY <2>2, <2>4, Zenon
  <2>6. PageLogs >= 0
    BY PageAssumption
  <2>. QED BY <2>1, <2>3, <2>5, <2>6 DEF ServerFits
<1>7. Page!TypeOk'
  <2>1. PageFits /\ ClientFits /\ HistoryFits /\ CountsFit
    BY <1>1, FitsTogether
  <2>2. SocketsFit'
    BY <1>3, <1>4 DEF SocketsFit
  <2>3. PageFits' /\ ClientFits'
    BY <1>3, <2>1 DEF PageFits, ClientFits
  <2>4. HistoryFits'
    BY <1>3, <2>1, Zenon DEF HistoryFits
  <2>5. CountsFit'
    <3>1. PageFaults \in Nat
      BY PageAssumption
    <3>. QED BY <1>3, <2>1, <3>1 DEF CountsFit
  <2>. QED BY <1>6, <2>2, <2>3, <2>4, <2>5, FitsTogetherNext
<1>8. Page!Subscribed' = {}
  BY <1>4, <1>5 DEF Page!Subscribed
<1>9. Page!Contained'
  <2>1. \A i \in PageSockets : v2'[i].phase # "open" => v2'[i].inbox = <<>>
    BY <1>1, <1>4, <1>5 DEF Page!Contained
  <2>2. v3'.auth # "authenticated" => v3'.timers = 0 /\ \A i \in PageSockets : v2'[i] = Page!NoSocket
    BY <1>1, <1>3, <1>5 DEF Page!Contained, Page!NoSocket
  <2>. QED BY <1>8, <2>1, <2>2 DEF Page!Contained
<1>10. ~v5' => Page!Alone'
  <2>1. ASSUME NEW j \in PageSockets PROVE Page!Active(j)' <=> Page!Active(j)
    BY <1>4, <1>5, <2>1 DEF Page!Active
  <2>. QED BY <1>1, <1>3, <2>1 DEF Page!Alone
<1>11. Thins
  <2>1. v6' \/ \A j \in PageSockets : v2'[j].inbox = v2[j].inbox
    BY <1>3, <1>4, <1>5, Zenon
  <2>2. \A j \in PageSockets : v2'[j].inbox \in {v2[j].inbox, <<>>}
    BY <1>4, <1>5
  <2>3. \A j \in PageSockets : v2'[j].phase # "open"
    BY <1>8 DEF Page!Subscribed
  <2>4. v6 => v6'
    BY <1>3, Zenon
  <2>. QED BY <1>3, <1>6, <2>1, <2>2, <2>3, <2>4 DEF Thins
<1>. QED BY <1>7, <1>9, <1>10, <1>11, ThinsFlows DEF Page!FeedInv

(* the handshake, the end of a connection and its retry,                   *)
LEMMA HandshakeKeeps ==
  ASSUME Page!FeedInv, NEW i \in PageSockets, Page!Handshake(i)
  PROVE  Page!FeedInv'
<1>1. Page!TypeOk /\ Page!Contained /\ (~v5 => Page!Alone) /\ SocketsFit /\ ClientFits
  BY FitsTogether DEF Page!FeedInv
<1>2. /\ v2[i].phase = "connecting" /\ v4' = [v4 EXCEPT !.connected = TRUE]
      /\ v1' = v1 /\ v3' = v3 /\ v5' = v5 /\ v6' = v6 /\ v7' = v7 /\ v8' = v8
  BY DEF Page!Handshake
<1>3. PICK x : /\ v2' = [v2 EXCEPT ![i] = x]
               /\ \/ x = [phase |-> "foreign", inbox |-> <<>>]
                  \/ x = [phase |-> "refused", inbox |-> <<>>]
                  \/ v3.token = v1.token /\ x = [phase |-> "open", inbox |-> Page!StateReplay]
  BY Zenon DEF Page!Handshake
<1>4. v2[i].inbox = <<>> /\ v3.auth = "authenticated"
  BY <1>1, <1>2 DEF Page!Contained, Page!NoSocket
<1>5. Page!StateReplay \in Seq(Page!Events) /\ ReplayShape(Page!StateReplay)
  BY <1>1, ReplayIs
<1>6. x \in SocketSet /\ v2 \in [PageSockets -> SocketSet]
  <2>1. {"foreign", "refused", "open"} \subseteq Page!Phases
    BY DEF Page!Phases
  <2>. QED BY <1>1, <1>3, <1>5, <2>1, SocketFits, QuietSocket DEF SocketsFit
<1>7. v2'[i] = x /\ \A j \in PageSockets : j # i => v2'[j] = v2[j]
  BY <1>3, <1>6
<1>8. /\ ClientFits'
      /\ v4'.connected = TRUE /\ v4'.unauthorised = v4.unauthorised
      /\ v4'.logs = v4.logs /\ v4'.trades = v4.trades /\ v4'.status = v4.status
  <2>1. PICK N, R : N = Seq(Nat) /\ R = Seq(Page!Rows)
    OBVIOUS
  <2>2. v4 \in [connected : BOOLEAN, unauthorised : BOOLEAN, status : {"none", "STOPPED", "RUNNING"}, logs : N, trades : R]
    BY <1>1, <2>1 DEF ClientFits
  <2>3. /\ v4' \in [connected : BOOLEAN, unauthorised : BOOLEAN, status : {"none", "STOPPED", "RUNNING"}, logs : N, trades : R]
        /\ v4'.connected = TRUE /\ v4'.unauthorised = v4.unauthorised
        /\ v4'.logs = v4.logs /\ v4'.trades = v4.trades /\ v4'.status = v4.status
    BY <1>2, <2>2, Zenon
  <2>. QED BY <1>1, <2>1, <2>3 DEF ClientFits
<1>9. Page!TypeOk'
  <2>1. ServerFits /\ PageFits /\ HistoryFits /\ CountsFit
    BY <1>1, FitsTogether
  <2>2. SocketsFit'
    BY <1>3, <1>6, SocketsKeepFit DEF SocketsFit
  <2>3. ServerFits' /\ PageFits' /\ HistoryFits' /\ CountsFit'
    BY <1>2, <2>1 DEF ServerFits, PageFits, HistoryFits, CountsFit
  <2>. QED BY <1>8, <2>2, <2>3, FitsTogetherNext
<1>10. ~v5' => Page!Alone'
  <2>1. x.phase \notin {"none", "closing"}
    BY <1>3
  <2>2. ASSUME NEW j \in PageSockets PROVE Page!Active(j)' <=> Page!Active(j)
    BY <1>2, <1>7, <2>1, <2>2 DEF Page!Active
  <2>3. Page!Active(i)
    BY <1>2 DEF Page!Active
  <2>. QED BY <1>1, <1>2, <1>8, <2>2, <2>3 DEF Page!Alone
<1>11. CASE v3.token = v1.token /\ x = [phase |-> "open", inbox |-> Page!StateReplay]
  <2>1. x.phase = "open" /\ x.inbox = Page!StateReplay
    BY <1>11
  <2>2. Page!Contained'
    BY <1>1, <1>2, <1>4, <1>7, <1>11, <2>1 DEF Page!Contained
  <2>3. Greets(i)
    BY <1>2, <1>4, <1>5, <1>7, <1>8, <2>1 DEF Greets
  <2>. QED BY <1>9, <1>10, <2>2, <2>3, GreetsFlows DEF Page!FeedInv
<1>12. CASE x.phase # "open" /\ x.inbox = <<>>
  <2>1. \A j \in Page!Subscribed' : j \in Page!Subscribed
    BY <1>7, <1>12 DEF Page!Subscribed
  <2>2. Page!Contained'
    BY <1>1, <1>2, <1>4, <1>7, <1>12, <2>1 DEF Page!Contained
  <2>3. \A j \in PageSockets : v2'[j].inbox = v2[j].inbox
    BY <1>4, <1>7, <1>12
  <2>4. \A j \in PageSockets : v2'[j].phase = "open" => v2[j].phase = "open"
    BY <1>7, <1>12
  <2>5. Thins
    BY <1>2, <1>8, <2>3, <2>4 DEF Thins
  <2>. QED BY <1>9, <1>10, <2>2, <2>5, ThinsFlows DEF Page!FeedInv
<1>13. x = [phase |-> "open", inbox |-> Page!StateReplay] \/ (x.phase # "open" /\ x.inbox = <<>>)
  BY <1>3
<1>. QED BY <1>3, <1>11, <1>12

(* A new connection takes a free place. *)
LEMMA ConnectIs ==
  ASSUME NEW s \in [PageSockets -> SocketSet]
  PROVE  /\ Page!Connect(s) \in [PageSockets -> SocketSet]
         /\ \E m : /\ \A j \in PageSockets : /\ Page!Connect(s)[j].inbox = s[j].inbox
                                             /\ j = m => Page!Connect(s)[j].phase = "connecting"
                                             /\ j # m => Page!Connect(s)[j] = s[j]
                   /\ (\E j \in PageSockets : s[j] = Page!NoSocket) => m \in PageSockets /\ s[m] = Page!NoSocket
<1>1. PICK F : F = {j \in PageSockets : s[j] = Page!NoSocket}
  BY Zenon
<1>2. PICK m : m = Page!Min(F)
  OBVIOUS
<1>3. Page!Connect(s) = [s EXCEPT ![m].phase = "connecting"]
  BY <1>1, <1>2 DEF Page!Connect
<1>4. PICK E : E = Seq(Page!Events)
  OBVIOUS
<1>5. s \in [PageSockets -> [phase : Page!Phases, inbox : E]]
  BY <1>4 DEF SocketSet
<1>6. "connecting" \in Page!Phases
  BY DEF Page!Phases
<1>7. /\ Page!Connect(s) \in [PageSockets -> [phase : Page!Phases, inbox : E]]
      /\ \A j \in PageSockets : /\ Page!Connect(s)[j].inbox = s[j].inbox
                                /\ j = m => Page!Connect(s)[j].phase = "connecting"
                                /\ j # m => Page!Connect(s)[j] = s[j]
  <2>1. PICK w : w = [s[m] EXCEPT !.phase = "connecting"]
    BY Zenon
  <2>2. Page!Connect(s) = [s EXCEPT ![m] = w]
    BY <1>3, <2>1
  <2>3. DOMAIN s = PageSockets /\ \A j \in PageSockets : s[j] \in [phase : Page!Phases, inbox : E]
    BY <1>5
  <2>4. m \in PageSockets => /\ w \in [phase : Page!Phases, inbox : E]
                             /\ w.inbox = s[m].inbox /\ w.phase = "connecting"
    BY <1>6, <2>1, <2>3
  <2>5. \A j \in PageSockets : Page!Connect(s)[j] = IF j = m THEN w ELSE s[j]
    BY <2>2, <2>3
  <2>6. Page!Connect(s) = [j \in PageSockets |-> IF j = m THEN w ELSE s[j]]
    BY <2>2, <2>3, Zenon
  <2>7. \A j \in PageSockets : (IF j = m THEN w ELSE s[j]) \in [phase : Page!Phases, inbox : E]
    BY <2>3, <2>4
  <2>8. Page!Connect(s) \in [PageSockets -> [phase : Page!Phases, inbox : E]]
    BY <2>6, <2>7
  <2>. QED BY <2>4, <2>5, <2>8
<1>8. ASSUME \E j \in PageSockets : s[j] = Page!NoSocket PROVE m \in PageSockets /\ s[m] = Page!NoSocket
  <2>1. F \in SUBSET Nat /\ F # {}
    BY <1>1, <1>8, PageAssumption, Zenon
  <2>2. \E x \in F : \A y \in F : x <= y
    BY <2>1, LeastNatural, Zenon
  <2>3. m \in F
    BY <1>2, <2>2, Zenon DEF Page!Min
  <2>. QED BY <1>1, <2>3
<1>. QED BY <1>4, <1>7, <1>8, Zenon DEF SocketSet

LEMMA OnCloseKeeps ==
  ASSUME Page!FeedInv, NEW i \in PageSockets, Page!OnClose(i)
  PROVE  Page!FeedInv'
<1>1. Page!TypeOk /\ Page!Contained /\ (~v5 => Page!Alone) /\ SocketsFit /\ ClientFits /\ PageFits
  BY FitsTogether DEF Page!FeedInv
<1>2. PICK p : p = v2[i].phase
  OBVIOUS
<1>3. /\ p \in {"foreign", "refused", "dropped", "closing"}
      /\ v2' = [v2 EXCEPT ![i] = Page!NoSocket]
      /\ v4' = [v4 EXCEPT !.connected = FALSE, !.unauthorised = v4.unauthorised \/ p = "refused"]
      /\ v3' = IF p \in {"dropped", "closing"} THEN [v3 EXCEPT !.timers = @ + 1] ELSE v3
      /\ v5' = (v5 \/ p = "closing")
      /\ v1' = v1 /\ v6' = v6 /\ v7' = v7 /\ v8' = v8
  <2>1. v4' = [v4 EXCEPT !.connected = FALSE, !.unauthorised = @ \/ p = "refused"]
    BY <1>2 DEF Page!OnClose
  <2>2. [v4 EXCEPT !.connected = FALSE, !.unauthorised = @ \/ p = "refused"]
          = [v4 EXCEPT !.connected = FALSE, !.unauthorised = v4.unauthorised \/ p = "refused"]
    <3>1. PICK N, R : N = Seq(Nat) /\ R = Seq(Page!Rows)
      OBVIOUS
    <3>2. v4 \in [connected : BOOLEAN, unauthorised : BOOLEAN, status : {"none", "STOPPED", "RUNNING"}, logs : N, trades : R]
      BY <1>1, <3>1 DEF ClientFits
    <3>. QED BY <3>2
  <2>. QED BY <1>2, <2>1, <2>2 DEF Page!OnClose
<1>4. v2 \in [PageSockets -> SocketSet] /\ Page!NoSocket \in SocketSet
  BY <1>1, NoSocketFits DEF SocketsFit
<1>5. v2'[i].phase = "none" /\ v2'[i].inbox = <<>> /\ \A j \in PageSockets : j # i => v2'[j] = v2[j]
  BY <1>3, <1>4 DEF Page!NoSocket
<1>6. v2[i].inbox = <<>> /\ v3.auth = "authenticated"
  BY <1>1, <1>2, <1>3 DEF Page!Contained, Page!NoSocket
<1>7. /\ ClientFits'
      /\ v4'.connected = FALSE /\ v4'.unauthorised = (v4.unauthorised \/ p = "refused")
      /\ v4'.logs = v4.logs /\ v4'.trades = v4.trades /\ v4'.status = v4.status
  <2>1. PICK N, R : N = Seq(Nat) /\ R = Seq(Page!Rows)
    OBVIOUS
  <2>2. v4 \in [connected : BOOLEAN, unauthorised : BOOLEAN, status : {"none", "STOPPED", "RUNNING"}, logs : N, trades : R]
    BY <1>1, <2>1 DEF ClientFits
  <2>3. PICK u \in BOOLEAN : u = (v4.unauthorised \/ p = "refused")
    BY Zenon
  <2>4. v4' = [v4 EXCEPT !.connected = FALSE, !.unauthorised = u]
    BY <1>3, <2>3
  <2>5. /\ v4' \in [connected : BOOLEAN, unauthorised : BOOLEAN, status : {"none", "STOPPED", "RUNNING"}, logs : N, trades : R]
        /\ v4'.connected = FALSE /\ v4'.unauthorised = u
        /\ v4'.logs = v4.logs /\ v4'.trades = v4.trades /\ v4'.status = v4.status
    BY <2>2, <2>3, <2>4, Zenon
  <2>. QED BY <1>1, <2>1, <2>3, <2>5 DEF ClientFits
<1>8. /\ PageFits' /\ v3'.auth = v3.auth /\ v3'.token = v3.token /\ v3.timers \in Nat
      /\ v3'.timers = IF p \in {"dropped", "closing"} THEN v3.timers + 1 ELSE v3.timers
  <2>1. v3 \in [auth : {"checking", "required", "authenticated"}, token : PageTokens, timers : Nat]
    BY <1>1 DEF PageFits
  <2>2. CASE p \in {"dropped", "closing"}
    <3>1. v3' = [v3 EXCEPT !.timers = v3.timers + 1]
      BY <1>3, <2>1, <2>2
    <3>2. PICK y \in Nat : y = v3.timers + 1
      BY <2>1
    <3>3. v3' \in [auth : {"checking", "required", "authenticated"}, token : PageTokens, timers : Nat]
          /\ v3'.auth = v3.auth /\ v3'.token = v3.token /\ v3'.timers = y
      BY <2>1, <3>1, <3>2
    <3>. QED BY <2>1, <2>2, <3>2, <3>3 DEF PageFits
  <2>3. CASE p \notin {"dropped", "closing"}
    BY <1>3, <2>1, <2>3 DEF PageFits
  <2>. QED BY <2>2, <2>3
<1>9. Page!TypeOk'
  <2>1. ServerFits /\ HistoryFits /\ CountsFit
    BY <1>1, FitsTogether
  <2>2. SocketsFit'
    BY <1>3, <1>4, SocketsKeepFit DEF SocketsFit
  <2>3. ServerFits' /\ CountsFit'
    BY <1>3, <2>1 DEF ServerFits, CountsFit
  <2>4. HistoryFits'
    BY <1>3, <2>1, Zenon DEF HistoryFits
  <2>. QED BY <1>7, <1>8, <2>2, <2>3, <2>4, FitsTogetherNext
<1>10. Page!Contained'
  <2>1. \A j \in Page!Subscribed' : j \in Page!Subscribed
    BY <1>5 DEF Page!Subscribed
  <2>. QED BY <1>1, <1>3, <1>5, <1>6, <1>8, <2>1 DEF Page!Contained
<1>11. ASSUME ~v5' PROVE Page!Alone'
  <2>1. ~v5 /\ p \in {"foreign", "refused", "dropped"}
    BY <1>3, <1>11, Zenon
  <2>2. Page!Active(i) /\ Page!Alone
    BY <1>1, <1>2, <2>1 DEF Page!Active
  <2>3. v3.timers = 0 /\ ~v4.unauthorised
    BY <1>8, <2>2 DEF Page!Alone
  <2>4. ASSUME NEW j \in PageSockets PROVE ~Page!Active(j)'
    <3>1. CASE j = i
      BY <1>5, <3>1 DEF Page!Active
    <3>2. CASE j # i
      BY <1>5, <2>2, <3>2 DEF Page!Active, Page!Alone
    <3>. QED BY <3>1, <3>2
  <2>5. v3'.timers = 0 \/ (v3'.timers = 1 /\ p = "dropped")
    BY <1>8, <2>1, <2>3
  <2>6. v4'.unauthorised => v3'.timers = 0
    BY <1>7, <2>3, <2>5, Zenon
  <2>. QED BY <1>7, <2>4, <2>5, <2>6 DEF Page!Alone
<1>12. Thins
  <2>1. \A j \in PageSockets : v2'[j].inbox = v2[j].inbox
    BY <1>5, <1>6
  <2>2. \A j \in PageSockets : v2'[j].phase = "open" => v2[j].phase = "open"
    BY <1>5
  <2>3. v5 => v5'
    BY <1>3, Zenon
  <2>. QED BY <1>3, <1>7, <2>1, <2>2, <2>3 DEF Thins
<1>. QED BY <1>9, <1>10, <1>11, <1>12, ThinsFlows DEF Page!FeedInv

LEMMA ReconnectKeeps ==
  ASSUME Page!FeedInv, Page!Reconnect
  PROVE  Page!FeedInv'
<1>1. Page!TypeOk /\ Page!Contained /\ (~v5 => Page!Alone) /\ SocketsFit /\ PageFits
  BY FitsTogether DEF Page!FeedInv
<1>2. /\ v3.timers > 0 /\ v3' = [v3 EXCEPT !.timers = @ - 1] /\ v2' = Page!Connect(v2)
      /\ v1' = v1 /\ v4' = v4 /\ v5' = v5 /\ v6' = v6 /\ v7' = v7 /\ v8' = v8
      /\ \E j \in PageSockets : v2[j] = Page!NoSocket
  BY DEF Page!Reconnect, Page!Room
<1>3. v2 \in [PageSockets -> SocketSet]
  BY <1>1 DEF SocketsFit
<1>4. v2' \in [PageSockets -> SocketSet]
  BY <1>2, <1>3, ConnectIs
<1>5. PICK m : /\ \A j \in PageSockets : /\ v2'[j].inbox = v2[j].inbox
                                         /\ j = m => v2'[j].phase = "connecting"
                                         /\ j # m => v2'[j] = v2[j]
               /\ m \in PageSockets /\ v2[m] = Page!NoSocket
  BY <1>2, <1>3, ConnectIs
<1>6. /\ PageFits' /\ v3'.auth = v3.auth /\ v3'.token = v3.token /\ v3.timers \in Nat /\ v3'.timers = v3.timers - 1
  <2>1. v3 \in [auth : {"checking", "required", "authenticated"}, token : PageTokens, timers : Nat]
    BY <1>1 DEF PageFits
  <2>2. PICK y \in Nat : y = v3.timers - 1
    BY <1>2, <2>1
  <2>3. v3' = [v3 EXCEPT !.timers = y]
    BY <1>2, <2>1, <2>2
  <2>. QED BY <2>1, <2>2, <2>3 DEF PageFits
<1>7. Page!TypeOk'
  <2>1. ServerFits /\ ClientFits /\ HistoryFits /\ CountsFit
    BY <1>1, FitsTogether
  <2>2. ServerFits' /\ ClientFits' /\ HistoryFits' /\ CountsFit'
    BY <1>2, <2>1 DEF ServerFits, ClientFits, HistoryFits, CountsFit
  <2>. QED BY <1>4, <1>6, <2>2, FitsTogetherNext DEF SocketsFit
<1>8. \A j \in PageSockets : v2'[j].phase = "open" => v2[j].phase = "open"
  BY <1>5
<1>9. Page!Contained'
  <2>1. \A j \in PageSockets : v2'[j].phase # "open" => v2'[j].inbox = <<>>
    BY <1>1, <1>5 DEF Page!Contained, Page!NoSocket
  <2>2. v3.auth = "authenticated"
    BY <1>1, <1>2 DEF Page!Contained
  <2>3. \A j \in Page!Subscribed' : j \in Page!Subscribed
    BY <1>8 DEF Page!Subscribed
  <2>. QED BY <1>1, <1>2, <1>6, <2>1, <2>2, <2>3 DEF Page!Contained
<1>10. ASSUME ~v5' PROVE Page!Alone'
  <2>1. Page!Alone
    BY <1>1, <1>2, <1>10
  <2>2. v3.timers = 1 /\ ~v4.unauthorised /\ \A j \in PageSockets : ~Page!Active(j)
    <3>1. v3.timers = 1
      BY <1>2, <1>6, <2>1 DEF Page!Alone
    <3>. QED BY <2>1, <3>1 DEF Page!Alone
  <2>3. ASSUME NEW j \in PageSockets PROVE Page!Active(j)' <=> j = m
    BY <1>5, <2>2, <2>3 DEF Page!Active
  <2>4. v3'.timers = 0
    BY <1>6, <2>2
  <2>. QED BY <1>2, <1>5, <2>2, <2>3, <2>4 DEF Page!Alone
<1>11. Thins
  BY <1>2, <1>5, <1>8 DEF Thins
<1>. QED BY <1>7, <1>9, <1>10, <1>11, ThinsFlows DEF Page!FeedInv

(* and the gate of the page.                                               *)
LEMMA OnUnauthorisedKeeps ==
  ASSUME Page!FeedInv, Page!OnUnauthorised
  PROVE  Page!FeedInv'
<1>1. Page!TypeOk /\ Page!Contained /\ (~v5 => Page!Alone) /\ PageFits
  BY FitsTogether DEF Page!FeedInv
<1>2. /\ v4.unauthorised /\ v3' = [v3 EXCEPT !.auth = "required", !.timers = 0]
      /\ v2' = [j \in PageSockets |-> Page!NoSocket]
      /\ v1' = v1 /\ v4' = v4 /\ v5' = v5 /\ v6' = v6 /\ v7' = v7 /\ v8' = v8
  BY DEF Page!OnUnauthorised
<1>3. \A j \in PageSockets : v2'[j] = Page!NoSocket /\ v2'[j].phase = "none" /\ v2'[j].inbox = <<>>
  BY <1>2 DEF Page!NoSocket
<1>4. PageFits' /\ v3'.timers = 0
  BY <1>1, <1>2, Zenon DEF PageFits
<1>5. Page!TypeOk'
  <2>1. ServerFits /\ ClientFits /\ HistoryFits /\ CountsFit
    BY <1>1, FitsTogether
  <2>2. ServerFits' /\ ClientFits' /\ HistoryFits' /\ CountsFit'
    BY <1>2, <2>1 DEF ServerFits, ClientFits, HistoryFits, CountsFit
  <2>3. SocketsFit'
    BY <1>2, NoSocketFits DEF SocketsFit
  <2>. QED BY <1>4, <2>2, <2>3, FitsTogetherNext
<1>6. Page!Contained'
  BY <1>3, <1>4 DEF Page!Contained, Page!Subscribed
<1>7. ASSUME ~v5' PROVE Page!Alone'
  <2>1. Page!Alone
    BY <1>1, <1>2, <1>7
  <2>2. ~v4.connected
    BY <1>2, <2>1 DEF Page!Alone
  <2>3. ASSUME NEW j \in PageSockets PROVE ~Page!Active(j)'
    BY <1>3, <2>3 DEF Page!Active
  <2>. QED BY <1>2, <1>4, <2>2, <2>3 DEF Page!Alone
<1>8. Thins
  <2>1. v5 \/ \A j \in PageSockets : v2'[j].inbox = v2[j].inbox
    <3>1. ASSUME ~v5, NEW j \in PageSockets PROVE v2[j].inbox = <<>>
      <4>1. ~Page!Active(j)
        BY <1>1, <1>2, <3>1 DEF Page!Alone
      <4>. QED BY <1>1, <4>1 DEF Page!Active, Page!Contained
    <3>. QED BY <1>3, <3>1
  <2>2. \A j \in PageSockets : v2'[j].phase # "open" /\ v2'[j].inbox = <<>>
    BY <1>3
  <2>. QED BY <1>2, <2>1, <2>2, Zenon DEF Thins
<1>. QED BY <1>5, <1>6, <1>7, <1>8, ThinsFlows DEF Page!FeedInv

(* A page that mounts has one connection, and shows nothing. *)
LEMMA MountedIs ==
  ASSUME NEW strict, Page!Mounted(strict)
  PROVE  /\ v4' = Page!Blank /\ v2' \in [PageSockets -> SocketSet]
         /\ \A j \in PageSockets : v2'[j].phase # "open" /\ v2'[j].inbox = <<>>
         /\ \A j, k \in PageSockets : Page!Active(j)' /\ Page!Active(k)' => j = k
<1>1. PICK none : none = [j \in PageSockets |-> Page!NoSocket]
  BY Zenon
<1>2. PICK first : first = IF strict THEN [none EXCEPT ![1].phase = "closing"] ELSE none
  BY Zenon
<1>3. v2' = Page!Connect(first) /\ v4' = Page!Blank
  BY <1>1, <1>2 DEF Page!Mounted
<1>4. PICK E : E = Seq(Page!Events)
  OBVIOUS
<1>5. none \in [PageSockets -> [phase : Page!Phases, inbox : E]]
  BY <1>1, <1>4, NoSocketFits DEF SocketSet
<1>6. \A j \in PageSockets : none[j].phase = "none" /\ none[j].inbox = <<>>
  BY <1>1 DEF Page!NoSocket
<1>7. /\ first \in [PageSockets -> [phase : Page!Phases, inbox : E]]
      /\ \A j \in PageSockets : first[j].phase \in {"none", "closing"} /\ first[j].inbox = <<>>
  <2>1. "closing" \in Page!Phases
    BY DEF Page!Phases
  <2>2. CASE strict
    <3>1. first = [none EXCEPT ![1].phase = "closing"]
      BY <1>2, <2>2
    <3>. QED BY <1>5, <1>6, <2>1, <3>1, Zenon
  <2>3. CASE ~strict
    <3>1. first = none
      BY <1>2, <2>3
    <3>. QED BY <1>5, <1>6, <3>1
  <2>. QED BY <2>2, <2>3
<1>8. first \in [PageSockets -> SocketSet]
  BY <1>4, <1>7 DEF SocketSet
<1>9. v2' \in [PageSockets -> SocketSet]
  BY <1>3, <1>8, ConnectIs
<1>10. PICK m : \A j \in PageSockets : /\ v2'[j].inbox = first[j].inbox
                                       /\ j = m => v2'[j].phase = "connecting"
                                       /\ j # m => v2'[j] = first[j]
  <2>1. \E m : \A j \in PageSockets : /\ Page!Connect(first)[j].inbox = first[j].inbox
                                      /\ j = m => Page!Connect(first)[j].phase = "connecting"
                                      /\ j # m => Page!Connect(first)[j] = first[j]
    <3>1. \E m : /\ \A j \in PageSockets : /\ Page!Connect(first)[j].inbox = first[j].inbox
                                           /\ j = m => Page!Connect(first)[j].phase = "connecting"
                                           /\ j # m => Page!Connect(first)[j] = first[j]
                 /\ (\E j \in PageSockets : first[j] = Page!NoSocket) => m \in PageSockets /\ first[m] = Page!NoSocket
      BY <1>8, ConnectIs
    <3>. QED BY <3>1, Zenon
  <2>. QED BY <1>3, <2>1, Zenon
<1>11. \A j \in PageSockets : v2'[j].phase # "open" /\ v2'[j].inbox = <<>>
  BY <1>7, <1>10
<1>12. ASSUME NEW j \in PageSockets, Page!Active(j)' PROVE j = m
  BY <1>7, <1>10, <1>12 DEF Page!Active
<1>. QED BY <1>3, <1>9, <1>11, <1>12

LEMMA MountKeeps ==
  ASSUME Page!FeedInv, v3.auth # "authenticated", NEW strict, Page!Mounted(strict), v1' = v1,
         v3'.auth = "authenticated", v3'.timers = v3.timers, PageFits', HistoryFits', CountsFit'
  PROVE  Page!FeedInv'
<1>1. Page!TypeOk /\ Page!Contained
  BY DEF Page!FeedInv
<1>2. /\ v4' = Page!Blank /\ v2' \in [PageSockets -> SocketSet]
      /\ \A j \in PageSockets : v2'[j].phase # "open" /\ v2'[j].inbox = <<>>
      /\ \A j, k \in PageSockets : Page!Active(j)' /\ Page!Active(k)' => j = k
  BY MountedIs
<1>3. Page!TypeOk'
  <2>1. ServerFits'
    BY <1>1, FitsTogether DEF ServerFits
  <2>2. ClientFits'
    <3>1. PICK N, R : N = Seq(Nat) /\ R = Seq(Page!Rows)
      OBVIOUS
    <3>2. PICK z : z = <<>> /\ z \in N /\ z \in R /\ Len(z) = 0
      <4>1. <<>> \in Seq(Nat) /\ <<>> \in Seq(Page!Rows) /\ Len(<<>>) = 0
        OBVIOUS
      <4>. QED BY <3>1, <4>1, Zenon
    <3>3. v4' = [connected |-> FALSE, unauthorised |-> FALSE, status |-> "none", logs |-> z, trades |-> z]
      BY <1>2, <3>2 DEF Page!Blank
    <3>4. v4' \in [connected : BOOLEAN, unauthorised : BOOLEAN, status : {"none", "STOPPED", "RUNNING"}, logs : N, trades : R] /\ v4'.logs = z
      BY <3>2, <3>3
    <3>5. PageShown >= 0
      BY PageAssumption
    <3>. QED BY <3>1, <3>2, <3>4, <3>5 DEF ClientFits
  <2>. QED BY <1>2, <2>1, <2>2, FitsTogetherNext DEF SocketsFit
<1>4. Page!Contained'
  BY <1>2 DEF Page!Contained, Page!Subscribed
<1>5. Page!Alone'
  <2>1. v3'.timers = 0
    BY <1>1 DEF Page!Contained
  <2>2. v4'.connected = FALSE /\ v4'.unauthorised = FALSE
    BY <1>2 DEF Page!Blank
  <2>. QED BY <1>2, <2>1, <2>2 DEF Page!Alone
<1>6. Page!Flowing'
  BY <1>2, BlankFlows
<1>. QED BY <1>3, <1>4, <1>5, <1>6 DEF Page!FeedInv

LEMMA TokenSubmitKeeps ==
  ASSUME Page!FeedInv, NEW strict \in PageModes, Page!Submit(strict)
  PROVE  Page!FeedInv'
<1>1. Page!TypeOk /\ PageFits /\ HistoryFits /\ CountsFit /\ ServerFits
  BY FitsTogether DEF Page!FeedInv
<1>2. /\ v3.auth = "required" /\ v3' = [v3 EXCEPT !.auth = "authenticated", !.token = v1.token] /\ Page!Mounted(strict)
      /\ v5' = FALSE /\ v6' = TRUE /\ v1' = v1 /\ v7' = v7 /\ v8' = v8
  BY DEF Page!Submit
<1>3. v1.token \in PageTokens
  BY <1>1, FeedViews DEF FeedShape
<1>4. PageFits' /\ v3'.auth = "authenticated" /\ v3'.timers = v3.timers
  BY <1>1, <1>2, <1>3, Zenon DEF PageFits
<1>5. HistoryFits' /\ CountsFit'
  BY <1>1, <1>2, Zenon DEF HistoryFits, CountsFit
<1>. QED BY <1>2, <1>4, <1>5, MountKeeps

LEMMA ProbeKeeps ==
  ASSUME Page!FeedInv, NEW strict \in PageModes, NEW reachable \in BOOLEAN, Page!Probe(reachable, strict)
  PROVE  Page!FeedInv'
<1>1. Page!TypeOk /\ Page!Contained /\ (~v5 => Page!Alone) /\ PageFits /\ HistoryFits /\ CountsFit /\ ServerFits /\ SocketsFit /\ ClientFits
  BY FitsTogether DEF Page!FeedInv
<1>2. v3.auth = "checking" /\ v5' = v5 /\ v6' = v6 /\ v1' = v1 /\ v7' = v7 /\ v8' = v8
  BY DEF Page!Probe
<1>3. CASE v3' = [v3 EXCEPT !.auth = "required"] /\ v2' = v2 /\ v4' = v4
  <2>1. PageFits' /\ v3'.timers = v3.timers /\ v3'.token = v3.token
    BY <1>1, <1>3 DEF PageFits
  <2>2. Page!TypeOk'
    BY <1>1, <1>2, <1>3, <2>1, FitsTogetherNext DEF ServerFits, SocketsFit, ClientFits, HistoryFits, CountsFit
  <2>3. Page!Contained'
    BY <1>1, <1>2, <1>3, <2>1 DEF Page!Contained, Page!Subscribed
  <2>4. ~v5' => Page!Alone'
    BY <1>1, <1>2, <1>3, <2>1 DEF Page!Alone, Page!Active
  <2>5. Thins
    BY <1>2, <1>3 DEF Thins
  <2>. QED BY <2>2, <2>3, <2>4, <2>5, ThinsFlows DEF Page!FeedInv
<1>4. CASE v3' = [v3 EXCEPT !.auth = "authenticated"] /\ Page!Mounted(strict)
  <2>1. PageFits' /\ v3'.auth = "authenticated" /\ v3'.timers = v3.timers
    BY <1>1, <1>4 DEF PageFits
  <2>2. HistoryFits' /\ CountsFit'
    BY <1>1, <1>2 DEF HistoryFits, CountsFit
  <2>. QED BY <1>2, <1>4, <2>1, <2>2, MountKeeps
<1>. QED BY <1>3, <1>4 DEF Page!Probe

(* Every step keeps the invariant, and so does a step of another part.     *)
LEMMA PageSteps == Page!FeedInv /\ Page!Next => Page!FeedInv'
<1> SUFFICES ASSUME Page!FeedInv, Page!Next PROVE Page!FeedInv'
  OBVIOUS
<1>1. CASE \E t \in PageTrades : Page!PublishTrade(t)
  BY <1>1, PublishTradeKeeps
<1>2. CASE \E token \in PageTokens, cors \in BOOLEAN : Page!RestartServer(token, cors)
  BY <1>2, ServerRestartKeeps
<1>3. CASE \E i \in PageSockets : Page!Handshake(i) \/ Page!Drop(i) \/ Page!Receive(i) \/ Page!OnClose(i)
  BY <1>3, HandshakeKeeps, DropKeeps, ReceiveKeeps, OnCloseKeeps
<1>4. CASE \E strict \in PageModes : Page!Submit(strict) \/ \E reachable \in BOOLEAN : Page!Probe(reachable, strict)
  BY <1>4, TokenSubmitKeeps, ProbeKeeps
<1>. QED
  BY <1>1, <1>2, <1>3, <1>4, PublishStatusKeeps, PublishLogKeeps, ReconnectKeeps, OnUnauthorisedKeeps DEF Page!Next

LEMMA FeedStays == Page!FeedInv /\ UNCHANGED <<v1, v2, v3, v4, v5, v6, v7, v8>> => Page!FeedInv'
<1> SUFFICES ASSUME Page!FeedInv, v1' = v1, v2' = v2, v3' = v3, v4' = v4, v5' = v5, v6' = v6, v7' = v7, v8' = v8
             PROVE  Page!FeedInv'
  OBVIOUS
<1>1. Page!TypeOk /\ Page!Contained /\ (~v5 => Page!Alone)
  BY DEF Page!FeedInv
<1>2. Page!TypeOk'
  <2>1. ServerFits /\ SocketsFit /\ PageFits /\ ClientFits /\ HistoryFits /\ CountsFit
    BY <1>1, FitsTogether
  <2>2. ServerFits' /\ SocketsFit' /\ PageFits' /\ ClientFits' /\ HistoryFits' /\ CountsFit'
    BY <2>1 DEF ServerFits, SocketsFit, PageFits, ClientFits, HistoryFits, CountsFit
  <2>. QED BY <2>2, FitsTogetherNext
<1>3. Page!Contained'
  BY <1>1 DEF Page!Contained, Page!Subscribed
<1>4. ~v5' => Page!Alone'
  BY <1>1, StaysAlone
<1>5. Thins
  BY DEF Thins
<1>. QED BY <1>2, <1>3, <1>4, <1>5, ThinsFlows DEF Page!FeedInv

(* What a reader sees follows from the invariant.                          *)
LEMMA PageCardinality == \A S : Page!Cardinality(S) = Cardinality(S)
  BY DEF Page!Cardinality, Cardinality

(* What the page shows, of the invariant. *)
LEMMA FeedHoldsOf == Page!FeedInv => Page!FeedHolds
<1> SUFFICES ASSUME Page!FeedInv PROVE Page!FeedHolds
  OBVIOUS
<1>1. Page!TypeOk /\ Page!Contained /\ (~v5 => Page!Alone) /\ Page!NoRepeats /\ (~v5 => Page!InOrder /\ Page!StatusComes /\ (~v6 => Page!TradesCome))
  BY DEF Page!FeedInv, Page!Flowing
<1>2. PICK W : W = {i \in PageSockets : v2[i].phase # "none"}
  BY Zenon
<1>3. PICK w, n : w = v3.timers + n /\ n = Page!Cardinality(W)
  OBVIOUS
<1>4. DOMAIN <<>> = {}
  OBVIOUS
<1>5. Page!IsInjective([i \in DOMAIN v4.trades |-> v4.trades[i][1]])
  BY <1>1 DEF Page!NoRepeats, Page!IsInjective
<1>6. ASSUME Page!Subscribed # {}, \A i \in PageSockets : v2[i].inbox = <<>>, ~v5 PROVE v4.status = v1.status
  <2>1. PICK i \in PageSockets : i \in Page!Subscribed
    BY <1>6 DEF Page!Subscribed
  <2>. QED BY <1>1, <1>4, <1>6, <2>1 DEF Page!StatusComes
<1>7. ASSUME \A i \in PageSockets : v2[i].inbox = <<>>, ~v5, ~v6, NEW r \in DOMAIN v4.trades
      PROVE  v4.trades[r][2] = v1.trades[v4.trades[r][1]]
  <2>1. v4.trades \in Seq(Page!Rows)
    BY <1>1, FeedViews DEF FeedShape
  <2>2. v4.trades[r] \in Page!Rows
    BY <1>7, <2>1
  <2>3. PICK t \in PageTrades : t = v4.trades[r][1]
    BY <2>2 DEF Page!Rows
  <2>. QED BY <1>1, <1>4, <1>7, <2>3 DEF Page!TradesCome
<1>8. ASSUME ~v5, \A i \in PageSockets : v2[i].phase # "closing"
      PROVE  /\ w <= 1
             /\ v4.unauthorised => w = 0
             /\ v4.connected => w = 1
             /\ \A i \in 1 .. Len(v4.logs) - 1 : v4.logs[i] < v4.logs[i + 1]
  <2>1. Page!Alone /\ Page!InOrder
    BY <1>1, <1>8
  <2>2. \A i \in PageSockets : i \in W <=> Page!Active(i)
    BY <1>2, <1>8 DEF Page!Active
  <2>3. v3.timers \in Nat /\ v3.timers <= 1
    BY <1>1, <2>1, FeedViews DEF FeedShape, Page!Alone
  <2>4. n = Cardinality(W)
    BY <1>3, PageCardinality
  <2>5. W = {} => n = 0
    BY <2>4, FS_EmptySet
  <2>6. W # {} => n = 1 /\ v3.timers = 0 /\ ~v4.unauthorised
    <3>1. SUFFICES ASSUME W # {} PROVE n = 1 /\ v3.timers = 0 /\ ~v4.unauthorised
      OBVIOUS
    <3>2. PICK i \in PageSockets : i \in W /\ Page!Active(i)
      BY <1>2, <2>2, <3>1
    <3>3. W = {i}
      BY <1>2, <2>1, <2>2, <3>2 DEF Page!Alone
    <3>4. n = 1
      BY <2>4, <3>3, FS_Singleton, Zenon
    <3>5. ~(v3.timers = 1 \/ v4.unauthorised)
      BY <2>1, <3>2 DEF Page!Alone
    <3>. QED BY <2>3, <3>4, <3>5
  <2>7. W = {} => ~v4.connected
    BY <2>1, <2>2 DEF Page!Alone
  <2>8. v4.unauthorised => v3.timers = 0
    BY <2>1 DEF Page!Alone
  <2>9. /\ w <= 1
        /\ v4.unauthorised => w = 0
        /\ v4.connected => w = 1
    <3>1. W = {} => w = v3.timers
      BY <1>3, <2>3, <2>5
    <3>2. W # {} => w = 1
      BY <1>3, <2>6
    <3>3. w <= 1
      BY <2>3, <3>1, <3>2
    <3>. QED BY <2>6, <2>7, <2>8, <3>1, <3>2, <3>3, Zenon
  <2>10. ASSUME NEW i \in 1 .. Len(v4.logs) - 1 PROVE v4.logs[i] < v4.logs[i + 1]
    <3>1. PICK g \in Seq(Nat) : g = v4.logs
      BY <1>1, FeedViews DEF FeedShape
    <3>2. \A k, l \in DOMAIN g : k < l => g[l] - g[k] >= l - k
      BY <2>1, <3>1 DEF Page!InOrder
    <3>3. i \in DOMAIN g /\ i + 1 \in DOMAIN g /\ i < i + 1 /\ g[i] \in Nat /\ g[i + 1] \in Nat
      BY <2>10, <3>1
    <3>4. g[i + 1] - g[i] >= (i + 1) - i
      BY <3>2, <3>3
    <3>. QED BY <3>1, <3>3, <3>4
  <2>. QED BY <2>9, <2>10
<1>. QED BY <1>1, <1>2, <1>3, <1>5, <1>6, <1>7, <1>8 DEF Page!FeedHolds, Page!Contained, Page!NoRepeats
=============================================================================
