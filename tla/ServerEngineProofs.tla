------------------------- MODULE ServerEngineProofs -------------------------
(***************************************************************************)
(* Proofs about the server's trading engine: types, the risk limits of the *)
(* table, settlement, and what the table says of the exchange.             *)
(***************************************************************************)
EXTENDS ServerEngine, Lemmas

Row == [symbol : Symbols, open : BOOLEAN]

(* The table is a sequence of rows within the limits, settled once each;   *)
(* and an order in flight was allowed by a table that has only lost open   *)
(* rows since.                                                             *)
TableInv ==
  /\ live \in BOOLEAN
  /\ rows \in Seq(Row) /\ Len(rows) <= MaxPerDay
  /\ results \in Seq({-1, 1})
  /\ RiskLimitsHold
  /\ SettledOnce
  /\ order # None => /\ order \in [symbol : Symbols, executed : BOOLEAN]
                     /\ live /\ Len(rows) < MaxPerDay
                     /\ order.symbol \notin OpenSymbols
                     /\ Cardinality(OpenRows) < MaxOpen

(* Everything that keeps its type whatever the table says.                 *)
PlacesInv ==
  /\ {live, halted, tripped, cooling, overlapped} \subseteq BOOLEAN
  /\ state \in {"STOPPED", "STARTING", "RUNNING", "ERROR"}
  /\ timers \subseteq StartIds /\ tickTimer \in StartIds \cup {None}
  /\ starts \in [StartIds -> [at : {"new", "ping", "credentials", "refresh", "read", "done"},
                              read : SUBSET Symbols]]
  /\ order = None \/ order \in [symbol : Symbols, executed : BOOLEAN]
  /\ venue \in [Symbols -> Nat]
  /\ cached \subseteq Symbols /\ blurred \subseteq Symbols

TickPlaces == {"idle", "refresh", "read", "reconcile", "settle", "evaluate", "act",
               "positions", "close", "flatten"}
EmergencyPlaces == {"idle", "cancel", "positions", "close", "flatten"}

(* The suspended calls hold indices of the table.                          *)
JobOf(places) == [at : places, todo : SUBSET Symbols, rows : SUBSET DOMAIN rows, settled : BOOLEAN]

TickInv      == tick \in JobOf(TickPlaces)
EmergencyInv == emergency \in JobOf(EmergencyPlaces)
ClosingInv   == /\ closing \in [at : {"idle", "exchange", "price"}, row : {0} \cup DOMAIN rows]
                /\ closing.at # "idle" => closing.row \in DOMAIN rows

JobsInv == TickInv /\ EmergencyInv /\ ClosingInv

IInv == TableInv /\ PlacesInv /\ JobsInv
-----------------------------------------------------------------------------
(***************************************************************************)
(* The table as a value: what an insertion and a settlement do to it.      *)
(***************************************************************************)
OpenIn(r) == {i \in DOMAIN r : r[i].open}

(* At most one open row per symbol. *)
OnePerSymbol(r) == \A i, j \in OpenIn(r) : r[i].symbol = r[j].symbol => i = j

LEMMA OpenInFinite ==
  ASSUME NEW r \in Seq(Row)
  PROVE  /\ IsFiniteSet(OpenIn(r)) /\ Cardinality(OpenIn(r)) \in Nat
         /\ Cardinality(OpenIn(r)) <= Len(r)
<1>1. PICK n \in Nat : n = Len(r)
  OBVIOUS
<1>2. OpenIn(r) \in SUBSET (1 .. n)
  BY <1>1 DEF OpenIn
<1>3. IsFiniteSet(1 .. n) /\ Cardinality(1 .. n) = n
  BY FS_Interval
<1>. QED
  BY <1>1, <1>2, <1>3, FS_Subset, FS_CardinalityType

(* There are no more open rows than booked symbols. *)
LEMMA OpenRowsAreBooked ==
  ASSUME NEW r \in Seq(Row), OnePerSymbol(r),
         NEW B, IsFiniteSet(B), \A i \in OpenIn(r) : r[i].symbol \in B
  PROVE  Cardinality(OpenIn(r)) <= Cardinality(B)
<1> DEFINE f == [i \in OpenIn(r) |-> r[i].symbol]
<1>1. f \in Injection(OpenIn(r), B)
  BY DEF OnePerSymbol, Injection, IsInjective
<1>. QED
  BY <1>1, FS_Injection

Opened(r, s) == Append(r, [symbol |-> s, open |-> TRUE])

LEMMA InsertOpens ==
  ASSUME NEW r \in Seq(Row), NEW s \in Symbols
  PROVE  /\ Opened(r, s) \in Seq(Row) /\ Len(Opened(r, s)) = Len(r) + 1
         /\ DOMAIN r \subseteq DOMAIN Opened(r, s)
         /\ \A i \in DOMAIN r : Opened(r, s)[i] = r[i]
         /\ OpenIn(Opened(r, s)) = OpenIn(r) \cup {Len(r) + 1}
         /\ Opened(r, s)[Len(r) + 1].symbol = s
         /\ Cardinality(OpenIn(Opened(r, s))) = Cardinality(OpenIn(r)) + 1
<1>0. PICK q : q = Opened(r, s)
  OBVIOUS
<1>1. q \in Seq(Row) /\ Len(q) = Len(r) + 1
  BY <1>0 DEF Row, Opened
<1>2. DOMAIN q = 1 .. (Len(r) + 1) /\ DOMAIN r = 1 .. Len(r) /\ Len(r) \in Nat
  BY <1>1
<1>3. \A i \in DOMAIN r : q[i] = r[i]
  BY <1>0 DEF Opened
<1>4. q[Len(r) + 1] = [symbol |-> s, open |-> TRUE]
  BY <1>0 DEF Opened
<1>5. OpenIn(q) = OpenIn(r) \cup {Len(r) + 1}
  BY <1>2, <1>3, <1>4 DEF OpenIn
<1>6. Len(r) + 1 \notin OpenIn(r)
  BY <1>2 DEF OpenIn
<1>7. Cardinality(OpenIn(q)) = Cardinality(OpenIn(r)) + 1
  BY <1>5, <1>6, OpenInFinite, FS_AddElement
<1>8. DOMAIN r \subseteq DOMAIN q
  BY <1>2
<1>9. q[Len(r) + 1].symbol = s
  BY <1>4
<1>. QED
  BY <1>0, <1>1, <1>3, <1>5, <1>7, <1>8, <1>9

(* Rows closed: q is r with the rows of C closed. *)
LEMMA ClosingRows ==
  ASSUME NEW r \in Seq(Row), NEW C \in SUBSET OpenIn(r), NEW q \in Seq(Row), DOMAIN q = DOMAIN r,
         \A i \in DOMAIN r : q[i].symbol = r[i].symbol /\ (q[i].open <=> r[i].open /\ i \notin C)
  PROVE  /\ Len(q) = Len(r) /\ OpenIn(q) = OpenIn(r) \ C
         /\ IsFiniteSet(C) /\ Cardinality(C) \in Nat
         /\ Cardinality(OpenIn(q)) = Cardinality(OpenIn(r)) - Cardinality(C)
<1>1. OpenIn(q) = OpenIn(r) \ C
  BY DEF OpenIn
<1>2. Len(q) = Len(r)
  OBVIOUS
<1>3. IsFiniteSet(OpenIn(r))
  BY OpenInFinite
<1>4. IsFiniteSet(C)
  BY <1>3, FS_Subset
<1>5. OpenIn(r) \cap C = C
  OBVIOUS
<1>6. Cardinality(OpenIn(r) \ C) = Cardinality(OpenIn(r)) - Cardinality(C)
  BY <1>3, <1>5, FS_Difference
<1>. QED
  BY <1>1, <1>2, <1>4, <1>6, FS_CardinalityType
-----------------------------------------------------------------------------
(***************************************************************************)
(* Insertions and settlements keep the table's invariant.                  *)
(***************************************************************************)
(* What every step does to the table: rows stay, with their symbol, and    *)
(* closed ones stay closed.                                                *)
RowsStay ==
  /\ DOMAIN rows \subseteq DOMAIN rows'
  /\ \A i \in DOMAIN rows : /\ rows'[i].symbol = rows[i].symbol
                            /\ rows'[i].open => rows[i].open

LEMMA InsertKeepsTable ==
  ASSUME TableInv, NEW s \in Symbols, s \notin OpenSymbols,
         Cardinality(OpenRows) < MaxOpen, Len(rows) < MaxPerDay,
         InsertTrade(s), order' = None, UNCHANGED <<live, results, equity>>
  PROVE  TableInv' /\ RowsStay
<1>1. rows' = Opened(rows, s)
  BY DEF InsertTrade, Opened
<1>2. rows \in Seq(Row) /\ OnePerSymbol(rows)
  BY DEF TableInv, RiskLimitsHold, OnePerSymbol, OpenIn, OpenRows
<1>3. /\ rows' \in Seq(Row) /\ Len(rows') = Len(rows) + 1
      /\ DOMAIN rows \subseteq DOMAIN rows' /\ \A i \in DOMAIN rows : rows'[i] = rows[i]
      /\ OpenIn(rows') = OpenIn(rows) \cup {Len(rows) + 1}
      /\ rows'[Len(rows) + 1].symbol = s
      /\ Cardinality(OpenIn(rows')) = Cardinality(OpenIn(rows)) + 1
  BY <1>1, <1>2, InsertOpens
<1>4. Cardinality(OpenIn(rows)) \in Nat /\ Len(rows) \in Nat
  BY <1>2, OpenInFinite
<1>5. RiskLimitsHold'
  <2>1. \A i, j \in OpenIn(rows') : rows'[i].symbol = rows'[j].symbol => i = j
    <3>1. \A i \in OpenIn(rows) : rows'[i] = rows[i] /\ rows[i].symbol # s
      BY <1>3 DEF OpenIn, OpenRows, OpenSymbols
    <3>. QED
      BY <1>2, <1>3, <3>1 DEF OnePerSymbol
  <2>2. Cardinality(OpenIn(rows')) <= MaxOpen
    BY <1>3, <1>4, LimitsAssumption DEF OpenIn, OpenRows
  <2>. QED
    BY <2>1, <2>2 DEF RiskLimitsHold, OpenRows, OpenIn
<1>6. SettledOnce'
  <2>1. Len(results') = Len(rows') - Cardinality(OpenIn(rows'))
    BY <1>3, <1>4 DEF TableInv, SettledOnce, OpenRows, OpenIn
  <2>2. equity' = IF live' THEN 0 ELSE Total(results')
    BY DEF TableInv, SettledOnce
  <2>. QED
    BY <2>1, <2>2 DEF SettledOnce, OpenRows, OpenIn
<1>7. Len(rows') <= MaxPerDay
  BY <1>3, <1>4, LimitsAssumption
<1>8. RowsStay
  BY <1>3 DEF RowsStay
<1>. QED
  BY <1>3, <1>5, <1>6, <1>7, <1>8 DEF TableInv

(* Closing the rows of C and booking as many results. *)
LEMMA ClosingKeepsTable ==
  ASSUME TableInv, NEW C \in SUBSET OpenRows, rows' \in Seq(Row), DOMAIN rows' = DOMAIN rows,
         \A i \in DOMAIN rows : rows'[i].symbol = rows[i].symbol /\ (rows'[i].open <=> rows[i].open /\ i \notin C),
         results' \in Seq({-1, 1}), Len(results') = Len(results) + Cardinality(C),
         equity' = IF live THEN equity ELSE equity + (Total(results') - Total(results)),
         Total(results) \in Int, Total(results') \in Int,
         UNCHANGED <<live, order>>
  PROVE  TableInv' /\ RowsStay
<1>1. rows \in Seq(Row) /\ OpenRows = OpenIn(rows)
  BY DEF TableInv, OpenIn, OpenRows
<1>2. /\ Len(rows') = Len(rows) /\ OpenIn(rows') = OpenIn(rows) \ C
      /\ Cardinality(C) \in Nat
      /\ Cardinality(OpenIn(rows')) = Cardinality(OpenIn(rows)) - Cardinality(C)
  BY <1>1, ClosingRows
<1>3. Cardinality(OpenIn(rows)) \in Nat /\ Len(rows) \in Nat
  BY <1>1, OpenInFinite
<1>4. Cardinality(OpenRows') = Cardinality(OpenRows) - Cardinality(C) /\ OpenRows' = OpenRows \ C
  BY <1>1, <1>2 DEF OpenIn, OpenRows
<1>5. RiskLimitsHold'
  <2>1. \A i, j \in OpenRows' : rows'[i].symbol = rows'[j].symbol => i = j
    BY <1>4 DEF TableInv, RiskLimitsHold, OpenRows
  <2>2. Cardinality(OpenRows') <= MaxOpen
    BY <1>1, <1>2, <1>3, <1>4, LimitsAssumption DEF TableInv, RiskLimitsHold
  <2>. QED
    BY <2>1, <2>2 DEF RiskLimitsHold
<1>6. SettledOnce'
  <2>1. Len(results') = Len(rows') - Cardinality(OpenRows')
    BY <1>1, <1>2, <1>3, <1>4 DEF TableInv, SettledOnce
  <2>2. equity' = IF live' THEN 0 ELSE Total(results')
    BY DEF TableInv, SettledOnce
  <2>. QED
    BY <2>1, <2>2 DEF SettledOnce
<1>7. order' # None => /\ order' \in [symbol : Symbols, executed : BOOLEAN]
                       /\ live' /\ Len(rows') < MaxPerDay
                       /\ order'.symbol \notin OpenSymbols'
                       /\ Cardinality(OpenRows') < MaxOpen
  <2>1. OpenSymbols' \subseteq OpenSymbols
    BY <1>4 DEF OpenSymbols, OpenRows
  <2>2. order' = order /\ live' = live
    OBVIOUS
  <2>3. Cardinality(OpenRows) < MaxOpen => Cardinality(OpenRows') < MaxOpen
    BY <1>1, <1>2, <1>3, <1>4, LimitsAssumption
  <2>. QED
    BY <1>2, <2>1, <2>2, <2>3 DEF TableInv
<1>8. RowsStay
  BY DEF RowsStay
<1>. QED
  BY <1>2, <1>5, <1>6, <1>7, <1>8 DEF TableInv

LEMMA ResultsTotal ==
  ASSUME NEW r \in Seq({-1, 1})
  PROVE  /\ Total(r) \in Int /\ Total(r) \in -Len(r) .. Len(r)
         /\ DOMAIN r = 1 .. Len(r) /\ Len(r) \in Nat
         /\ \A k \in 1 .. Len(r) : r[k] \in Int /\ r[k] \in {-1, 1}
<1>1. PICK n \in Nat : n = Len(r) /\ DOMAIN r = 1 .. n
  OBVIOUS
<1>2. \A k \in 1 .. n : r[k] \in {-1, 1}
  BY <1>1
<1>3. Total(r) \in -n .. n
  BY <1>1, <1>2, TotalOfUnits
<1>. QED
  BY <1>1, <1>2, <1>3

LEMMA SettleKeepsTable ==
  ASSUME TableInv, NEW i \in DOMAIN rows, SettleOrSkip(i), UNCHANGED <<live, order>>
  PROVE  TableInv' /\ RowsStay /\ DOMAIN rows' = DOMAIN rows
<1>1. CASE UNCHANGED tableVars
  BY <1>1 DEF tableVars, TableInv, RowsStay, RiskLimitsHold, SettledOnce, OpenRows, OpenSymbols
<1>2. ASSUME NEW pnl \in {-1, 1}, rows[i].open, Settle(i, pnl)
      PROVE  TableInv' /\ RowsStay /\ DOMAIN rows' = DOMAIN rows
  <2>1. /\ rows' = [rows EXCEPT ![i].open = FALSE]
        /\ results' = Append(results, pnl)
        /\ equity' = IF live THEN equity ELSE equity + pnl
    BY <1>2 DEF Settle
  <2>2. rows \in Seq(Row) /\ results \in Seq({-1, 1}) /\ live \in BOOLEAN
    BY DEF TableInv
  <2>3. rows' \in Seq(Row) /\ DOMAIN rows' = DOMAIN rows
    <3>0. rows[i] \in Row
      BY <2>2
    <3>1. [rows[i] EXCEPT !.open = FALSE] \in Row
      BY <3>0 DEF Row
    <3>2. rows' = [rows EXCEPT ![i] = [rows[i] EXCEPT !.open = FALSE]]
      BY <2>1
    <3>. QED BY <2>2, <3>1, <3>2, ExceptSeq
  <2>4. \A k \in DOMAIN rows : rows'[k].symbol = rows[k].symbol
                               /\ (rows'[k].open <=> rows[k].open /\ k \notin {i})
    BY <2>1, <2>2 DEF Row
  <2>5. {i} \in SUBSET OpenRows /\ Cardinality({i}) = 1
    BY <1>2, FS_Singleton DEF OpenRows
  <2>6. results' \in Seq({-1, 1}) /\ Len(results') = Len(results) + Cardinality({i})
    BY <2>1, <2>2, <2>5
  <2>7. results \in Seq(Int) /\ pnl \in Int
    BY <2>2
  <2>8. Total(results') = Total(results) + pnl
    BY <2>1, <2>7, TotalAppend
  <2>9. Total(results) \in Int /\ Total(results') \in Int
    BY <2>2, <2>6, ResultsTotal
  <2>10. equity' = IF live THEN equity ELSE equity + (Total(results') - Total(results))
    <3>1. pnl = Total(results') - Total(results)
      BY <2>7, <2>8, <2>9
    <3>. QED BY <2>1, <3>1
  <2>. QED
    BY <2>3, <2>4, <2>5, <2>6, <2>9, <2>10, ClosingKeepsTable
<1>3. ASSUME NEW pnl, ~rows[i].open, Settle(i, pnl) PROVE UNCHANGED tableVars
  BY <1>3 DEF Settle
<1>. QED
  BY <1>1, <1>2, <1>3 DEF SettleOrSkip

LEMMA PaperKeepsTable ==
  ASSUME TableInv, TickReconcilesPaper
  PROVE  TableInv' /\ RowsStay /\ DOMAIN rows' = DOMAIN rows
<1>0. PICK hit \in SUBSET OpenRows : \E booked \in [1 .. Cardinality(hit) -> {-1, 1}] :
        /\ rows' = [i \in DOMAIN rows |-> [rows[i] EXCEPT !.open = @ /\ i \notin hit]]
        /\ results' = results \o booked
        /\ equity' = equity + Total(booked)
  BY DEF TickReconcilesPaper
<1>1. PICK booked \in [1 .. Cardinality(hit) -> {-1, 1}] :
        /\ rows' = [i \in DOMAIN rows |-> [rows[i] EXCEPT !.open = @ /\ i \notin hit]]
        /\ results' = results \o booked
        /\ equity' = equity + Total(booked)
  BY <1>0
<1>2. rows \in Seq(Row) /\ results \in Seq({-1, 1}) /\ ~live
  BY DEF TableInv, TickReconcilesPaper
<1>3. rows' \in Seq(Row) /\ DOMAIN rows' = DOMAIN rows
  <2>1. PICK n \in Nat : n = Len(rows) /\ rows \in [1 .. n -> Row]
    BY <1>2
  <2>2. rows' \in [1 .. n -> Row]
    BY <1>1, <2>1 DEF Row
  <2>. QED BY <2>1, <2>2
<1>4. ASSUME NEW k \in DOMAIN rows
      PROVE  rows'[k].symbol = rows[k].symbol
             /\ (rows'[k].open <=> rows[k].open /\ k \notin hit)
  <2>1. rows[k] \in Row
    BY <1>2
  <2>2. rows'[k] = [rows[k] EXCEPT !.open = @ /\ k \notin hit]
    BY <1>1
  <2>. QED BY <2>1, <2>2 DEF Row
<1>5. Cardinality(hit) \in Nat
  BY <1>2, OpenInFinite, FS_Subset, FS_CardinalityType DEF OpenIn, OpenRows
<1>6. booked \in Seq({-1, 1}) /\ Len(booked) = Cardinality(hit)
  BY <1>1, <1>5
<1>7. /\ results' \in Seq({-1, 1}) /\ Len(results') = Len(results) + Cardinality(hit)
  BY <1>1, <1>2, <1>6, ConcatProperties
<1>8. Total(results') = Total(results) + Total(booked) /\ Total(results) \in Int /\ Total(booked) \in Int
  <2>1. results \in Seq(Int) /\ booked \in Seq(Int)
    BY <1>2, <1>6
  <2>. QED BY <1>1, <2>1, TotalConcat
<1>9. equity' = IF live THEN equity ELSE equity + (Total(results') - Total(results))
  <2>1. Total(booked) = Total(results') - Total(results)
    BY <1>8
  <2>. QED BY <1>1, <1>2, <2>1
<1>10. Total(results') \in Int
  BY <1>8
<1>11. UNCHANGED <<live, order>>
  BY DEF TickReconcilesPaper, loopVars
<1>. QED
  BY <1>1, <1>3, <1>4, <1>7, <1>8, <1>9, <1>10, <1>11, ClosingKeepsTable

LEMMA SameTable ==
  ASSUME TableInv, UNCHANGED <<live, rows, results, equity>>,
         order' = order \/ order' = None
  PROVE  TableInv' /\ RowsStay /\ DOMAIN rows' = DOMAIN rows
  BY DEF TableInv, RowsStay, RiskLimitsHold, SettledOnce, OpenRows, OpenSymbols

(* Flattening settles, or leaves the table alone. *)
LEMMA FlattenKeepsTable ==
  ASSUME TableInv, NEW job, NEW next, job.rows \subseteq DOMAIN rows, Flattens(job, next),
         UNCHANGED <<live, order>>
  PROVE  TableInv' /\ RowsStay /\ DOMAIN rows' = DOMAIN rows
<1>1. CASE UNCHANGED tableVars
  BY <1>1, SameTable DEF tableVars
<1>2. CASE SettlesAll(job, next)
  BY <1>2, SettleKeepsTable DEF SettlesAll
<1>. QED
  BY <1>1, <1>2 DEF Flattens, ReadsPositions, Closes, ListsRows

(* What risk allows leaves room in the table. *)
LEMMA AllowedLeavesRoom ==
  ASSUME TableInv, cached \subseteq Symbols, NEW s \in Symbols, Allowed(s)
  PROVE  s \notin OpenSymbols /\ Cardinality(OpenRows) < MaxOpen /\ Len(rows) < MaxPerDay
<1>1. OpenRows = OpenIn(rows) /\ rows \in Seq(Row)
  BY DEF OpenRows, OpenIn, TableInv
<1>2. OpenSymbols \subseteq Symbols /\ \A i \in OpenIn(rows) : rows[i].symbol \in Booked
  <2>1. \A i \in OpenIn(rows) : rows[i] \in Row
    BY <1>1 DEF OpenIn
  <2>2. \A i \in OpenIn(rows) : rows[i].symbol \in Symbols
    BY <2>1 DEF Row
  <2>. QED
    BY <1>1, <2>2 DEF OpenSymbols, Booked
<1>3. IsFiniteSet(Booked) /\ Cardinality(Booked) \in Nat
  BY <1>2, PairsAssumption, FS_Subset, FS_CardinalityType DEF Booked
<1>4. Cardinality(OpenIn(rows)) <= Cardinality(Booked)
  BY <1>1, <1>2, <1>3, OpenRowsAreBooked DEF TableInv, RiskLimitsHold, OnePerSymbol
<1>5. Cardinality(OpenIn(rows)) \in Nat
  BY <1>1, OpenInFinite
<1>. QED
  BY <1>1, <1>3, <1>4, <1>5, LimitsAssumption DEF Allowed, Booked

(* Every step keeps the table's invariant, and every row.                  *)
LEMMA NextTable ==
  ASSUME TableInv, PlacesInv, JobsInv, [Next]_vars
  PROVE  TableInv' /\ RowsStay
<1>. USE DEF loopVars, callVars, tickVars, tableVars, breakerVars, restVars
<1>1. ASSUME NEW c \in StartIds, StartFails(c) \/ StartProceeds(c) \/ StartRuns(c)
      PROVE  TableInv' /\ RowsStay
  BY <1>1, SameTable DEF StartFails, StartProceeds, StartRuns
<1>2. CASE TimerFires
  BY <1>2, SameTable DEF TimerFires
<1>3. CASE TickAsks \/ TickRefreshes \/ TickReconcilesLive \/ TickReconciled \/ TickFlattened \/ TickEnds
  BY <1>3, SameTable DEF TickAsks, TickRefreshes, TickReconcilesLive, TickReconciled, TickFlattened, TickEnds
<1>4. CASE TickReconcilesPaper
  BY <1>4, PaperKeepsTable
<1>5. CASE TickFlattens
  BY <1>5, FlattenKeepsTable DEF TickFlattens, JobsInv, TickInv, JobOf
<1>6. CASE OrderConfirmed
  BY <1>6, InsertKeepsTable DEF OrderConfirmed, TableInv
<1>7. CASE OrderFails
  BY <1>7, SameTable DEF OrderFails
<1>8. ASSUME NEW elapsed \in BOOLEAN, TickEvaluates(elapsed) PROVE TableInv' /\ RowsStay
  BY <1>8, SameTable DEF TickEvaluates
<1>9. ASSUME NEW i \in DOMAIN rows, TickSettles(i) PROVE TableInv' /\ RowsStay
  BY <1>9, SettleKeepsTable DEF TickSettles
<1>10. ASSUME NEW s \in Symbols, TickSkips(s) PROVE TableInv' /\ RowsStay
  BY <1>10, SameTable DEF TickSkips
<1>11. ASSUME NEW s \in Symbols, TickOrders(s) PROVE TableInv' /\ RowsStay
  <2>1. s \notin OpenSymbols /\ Cardinality(OpenRows) < MaxOpen /\ Len(rows) < MaxPerDay
    BY <1>11, AllowedLeavesRoom DEF TickOrders, PlacesInv
  <2>2. UNCHANGED <<live, rows, results, equity>> /\ live /\ order' = [symbol |-> s, executed |-> FALSE]
    BY <1>11 DEF TickOrders
  <2>. QED
    BY <2>1, <2>2 DEF TableInv, RowsStay, RiskLimitsHold, SettledOnce, OpenRows, OpenSymbols
<1>12. ASSUME NEW s \in Symbols, TickOpensPaper(s) PROVE TableInv' /\ RowsStay
  <2>1. s \notin OpenSymbols /\ Cardinality(OpenRows) < MaxOpen /\ Len(rows) < MaxPerDay
    BY <1>12, AllowedLeavesRoom DEF TickOpensPaper, PlacesInv
  <2>2. order' = None
    BY <1>12 DEF TickOpensPaper, TableInv
  <2>. QED
    BY <1>12, <2>1, <2>2, InsertKeepsTable DEF TickOpensPaper
<1>13. CASE EmergencyCancels \/ EmergencyHalts \/ CallStop \/ CallEmergency \/ ResetBreaker
  BY <1>13, SameTable DEF EmergencyCancels, EmergencyHalts, Halt, CallStop, CallEmergency, ResetBreaker
<1>14. CASE EmergencyFlattens
  BY <1>14, FlattenKeepsTable DEF EmergencyFlattens, JobsInv, EmergencyInv, JobOf
<1>15. CASE CloseReturns
  BY <1>15, SameTable DEF CloseReturns
<1>16. CASE CloseSettles
  BY <1>16, SettleKeepsTable DEF CloseSettles, JobsInv, ClosingInv
<1>17. ASSUME NEW c \in StartIds, CallStart(c) PROVE TableInv' /\ RowsStay
  BY <1>17, SameTable DEF CallStart
<1>18. ASSUME NEW i \in DOMAIN rows, CallClose(i) PROVE TableInv' /\ RowsStay
  BY <1>18, SameTable DEF CallClose
<1>19. CASE VenueExecutes
  <2>1. UNCHANGED <<live, rows, results, equity>> /\ order # None /\ order' = [order EXCEPT !.executed = TRUE]
    BY <1>19 DEF VenueExecutes
  <2>2. order' \in [symbol : Symbols, executed : BOOLEAN] /\ order'.symbol = order.symbol
    BY <2>1 DEF TableInv
  <2>. QED
    BY <2>1, <2>2 DEF TableInv, RowsStay, RiskLimitsHold, SettledOnce, OpenRows, OpenSymbols
<1>20. ASSUME NEW s \in Symbols, VenueStopsOut(s) PROVE TableInv' /\ RowsStay
  BY <1>20, SameTable DEF VenueStopsOut
<1>21. CASE UNCHANGED vars
  BY <1>21, SameTable DEF vars
<1>. QED
  BY <1>1, <1>2, <1>3, <1>4, <1>5, <1>6, <1>7, <1>8, <1>9, <1>10, <1>11, <1>12, <1>13, <1>14,
     <1>15, <1>16, <1>17, <1>18, <1>19, <1>20, <1>21
  DEF Next, StartStep, TickStep, EmergencyStep, CloseStep, Operator, Venue
-----------------------------------------------------------------------------
(***************************************************************************)
(* Types.                                                                  *)
(***************************************************************************)
LEMMA IdleIsAJob ==
  ASSUME NEW at, NEW places, at \in places
  PROVE  Job(at) \in JobOf(places)
  BY DEF Job, JobOf

LEMMA JobStays ==
  ASSUME NEW places, NEW job \in JobOf(places), RowsStay
  PROVE  job \in JobOf(places)'
  BY DEF JobOf, RowsStay

LEMMA FlattenKeepsJob ==
  ASSUME NEW places, {"close", "flatten"} \subseteq places, NEW job \in JobOf(places), NEW next,
         rows \in Seq(Row), Flattens(job, next)
  PROVE  next \in JobOf(places)
<1>1. AtVenue \subseteq Symbols /\ OpenRows \subseteq DOMAIN rows
  BY DEF AtVenue, OpenRows
<1>2. CASE ReadsPositions(job, next)
  BY <1>1, <1>2 DEF ReadsPositions, JobOf
<1>3. CASE Closes(job, next)
  BY <1>3 DEF Closes, JobOf
<1>4. CASE ListsRows(job, next)
  BY <1>1, <1>4 DEF ListsRows, JobOf
<1>5. CASE SettlesAll(job, next)
  BY <1>5 DEF SettlesAll, JobOf
<1>. QED
  BY <1>2, <1>3, <1>4, <1>5 DEF Flattens

LEMMA NextEmergency ==
  ASSUME TableInv, JobsInv, [Next]_vars, RowsStay
  PROVE  EmergencyInv'
<1>. USE DEF loopVars, callVars, tickVars, tableVars, breakerVars, restVars
<1>0. emergency \in JobOf(EmergencyPlaces) /\ rows \in Seq(Row)
  BY DEF JobsInv, EmergencyInv, TableInv
<1>1. CASE emergency' = emergency
  BY <1>0, <1>1, JobStays DEF EmergencyInv
<1>2. CASE EmergencyCancels
  <2>1. emergency' \in JobOf(EmergencyPlaces)
    BY <1>0, <1>2 DEF EmergencyCancels, JobOf, EmergencyPlaces
  <2>. QED BY <2>1, JobStays DEF EmergencyInv
<1>3. CASE EmergencyFlattens
  <2>1. emergency' \in JobOf(EmergencyPlaces)
    BY <1>0, <1>3, FlattenKeepsJob DEF EmergencyFlattens, EmergencyPlaces
  <2>. QED BY <2>1, JobStays DEF EmergencyInv
<1>4. CASE EmergencyHalts \/ CallEmergency
  <2>1. emergency' \in JobOf(EmergencyPlaces)
    BY <1>4, IdleIsAJob DEF EmergencyHalts, CallEmergency, EmergencyPlaces, Idle
  <2>. QED BY <2>1, JobStays DEF EmergencyInv
<1>5. emergency' = emergency \/ EmergencyCancels \/ EmergencyFlattens \/ EmergencyHalts \/ CallEmergency
  BY DEF Next, vars, StartStep, StartFails, StartProceeds, StartRuns, TimerFires, TickStep, TickAsks,
         TickRefreshes, TickReconcilesLive, TickReconciled, TickReconcilesPaper, TickFlattens,
         TickFlattened, TickEnds, OrderConfirmed, OrderFails, TickEvaluates, TickSettles, TickSkips,
         TickOrders, TickOpensPaper, EmergencyStep, CloseStep, CloseReturns, CloseSettles, Operator,
         CallStop, ResetBreaker, CallStart, CallClose, Venue, VenueExecutes, VenueStopsOut
<1>. QED
  BY <1>1, <1>2, <1>3, <1>4, <1>5

LEMMA NextClosing ==
  ASSUME TableInv, JobsInv, [Next]_vars, RowsStay
  PROVE  ClosingInv'
<1>. USE DEF loopVars, callVars, tickVars, tableVars, breakerVars, restVars
<1>1. CASE closing' = closing
  BY <1>1 DEF ClosingInv, JobsInv, RowsStay
<1>2. ASSUME NEW i \in DOMAIN rows, CallClose(i) PROVE ClosingInv'
  BY <1>2 DEF CallClose, ClosingInv, JobsInv, OpenRows
<1>3. CASE CloseReturns
  BY <1>3 DEF CloseReturns, ClosingInv, JobsInv
<1>4. CASE CloseSettles
  BY <1>4 DEF CloseSettles, ClosingInv, JobsInv
<1>5. closing' = closing \/ CloseReturns \/ CloseSettles \/ \E i \in DOMAIN rows : CallClose(i)
  BY DEF Next, vars, StartStep, StartFails, StartProceeds, StartRuns, TimerFires, TickStep, TickAsks,
         TickRefreshes, TickReconcilesLive, TickReconciled, TickReconcilesPaper, TickFlattens,
         TickFlattened, TickEnds, OrderConfirmed, OrderFails, TickEvaluates, TickSettles, TickSkips,
         TickOrders, TickOpensPaper, EmergencyStep, EmergencyCancels, EmergencyFlattens, EmergencyHalts,
         CloseStep, Operator, CallEmergency,
         CallStop, ResetBreaker, CallStart, Venue, VenueExecutes, VenueStopsOut
<1>. QED
  BY <1>1, <1>2, <1>3, <1>4, <1>5
LEMMA NextTick ==
  ASSUME TableInv, PlacesInv, JobsInv, [Next]_vars, RowsStay
  PROVE  TickInv'
<1>. USE DEF loopVars, callVars, tickVars, tableVars, breakerVars, restVars
<1>0. tick \in JobOf(TickPlaces) /\ rows \in Seq(Row) /\ AtVenue \subseteq Symbols /\ OpenRows \subseteq DOMAIN rows
  BY DEF JobsInv, TickInv, TableInv, AtVenue, OpenRows
<1>. SUFFICES tick' \in JobOf(TickPlaces)
  BY JobStays DEF TickInv
<1>1. CASE tick' = tick
  BY <1>0, <1>1
<1>2. ASSUME NEW c \in StartIds, StartRuns(c) PROVE tick' \in JobOf(TickPlaces)
  BY <1>0, <1>2, IdleIsAJob DEF StartRuns, TickPlaces
<1>3. CASE TimerFires \/ TickFlattened \/ TickEnds
  BY <1>3, IdleIsAJob DEF TimerFires, TickFlattened, TickEnds, TickPlaces, Idle
<1>4. CASE TickAsks \/ TickRefreshes \/ TickReconcilesLive \/ TickReconciled
  BY <1>0, <1>4, ZenonT(40) DEF TickAsks, TickRefreshes, TickReconcilesLive, TickReconciled, JobOf, TickPlaces
<1>5. CASE TickReconcilesPaper
  BY <1>0, <1>5 DEF TickReconcilesPaper, JobOf, TickPlaces
<1>6. CASE TickFlattens
  BY <1>0, <1>6, FlattenKeepsJob DEF TickFlattens, TickPlaces
<1>7. ASSUME NEW elapsed \in BOOLEAN, TickEvaluates(elapsed) PROVE tick' \in JobOf(TickPlaces)
  <2>1. Job("act") \in JobOf(TickPlaces) /\ Job("positions") \in JobOf(TickPlaces) /\ Idle \in JobOf(TickPlaces)
    BY IdleIsAJob DEF TickPlaces, Idle
  <2>2. [Job("act") EXCEPT !.todo = Symbols] \in JobOf(TickPlaces)
    BY <2>1 DEF JobOf
  <2>. QED BY <1>7, <2>1, <2>2 DEF TickEvaluates
<1>8. ASSUME NEW i \in DOMAIN rows, TickSettles(i) PROVE tick' \in JobOf(TickPlaces)
  <2>1. PICK b \in BOOLEAN : b = (tick.settled \/ rows' # rows)
    BY <1>0 DEF JobOf
  <2>2. tick' = [tick EXCEPT !.rows = @ \ {i}, !.settled = b]
    BY <1>8, <2>1 DEF TickSettles
  <2>. QED BY <1>0, <2>2 DEF JobOf
<1>9. ASSUME NEW s \in Symbols, TickSkips(s) \/ TickOrders(s) \/ TickOpensPaper(s)
      PROVE  tick' \in JobOf(TickPlaces)
  BY <1>0, <1>9 DEF TickSkips, TickOrders, TickOpensPaper, JobOf
<1>10. \/ tick' = tick
       \/ \E c \in StartIds : StartRuns(c)
       \/ TimerFires \/ TickFlattened \/ TickEnds
       \/ TickAsks \/ TickRefreshes \/ TickReconcilesLive \/ TickReconciled
       \/ TickReconcilesPaper \/ TickFlattens
       \/ \E elapsed \in BOOLEAN : TickEvaluates(elapsed)
       \/ \E i \in DOMAIN rows : TickSettles(i)
       \/ \E s \in Symbols : TickSkips(s) \/ TickOrders(s) \/ TickOpensPaper(s)
  BY DEF Next, vars, StartStep, StartFails, StartProceeds, TickStep, OrderConfirmed, OrderFails,
         EmergencyStep, EmergencyCancels, EmergencyFlattens, EmergencyHalts, CloseStep, CloseReturns,
         CloseSettles, Operator, CallEmergency, CallStop, ResetBreaker, CallStart, CallClose, Venue,
         VenueExecutes, VenueStopsOut
<1>. QED
  BY <1>1, <1>2, <1>3, <1>4, <1>5, <1>6, <1>7, <1>8, <1>9, <1>10

LEMMA EvaluateType ==
  ASSUME NEW pnls, NEW elapsed \in BOOLEAN, Evaluate(pnls, elapsed), cooling \in BOOLEAN
  PROVE  tripped' \in BOOLEAN /\ cooling' \in BOOLEAN
  BY FlagsAssumption DEF Evaluate

LEMMA FlattenKeepsPlaces ==
  ASSUME PlacesInv, NEW job, NEW next, job.todo \subseteq Symbols, Flattens(job, next)
  PROVE  venue' \in [Symbols -> Nat] /\ blurred' \subseteq Symbols
<1>1. venue \in [Symbols -> Nat] /\ blurred \subseteq Symbols
  BY DEF PlacesInv
<1>2. ASSUME NEW s \in Symbols, ClosesOne(s) PROVE venue' \in [Symbols -> Nat] /\ blurred' \subseteq Symbols
  BY <1>1, <1>2 DEF ClosesOne
<1>. QED
  BY <1>1, <1>2 DEF Flattens, ReadsPositions, Closes, ListsRows, SettlesAll

LEMMA NextPlaces ==
  ASSUME TableInv, PlacesInv, JobsInv, [Next]_vars
  PROVE  PlacesInv'
<1>. USE DEF loopVars, callVars, tickVars, tableVars, breakerVars, restVars
<1>1. ASSUME NEW c \in StartIds, StartFails(c) PROVE PlacesInv'
  BY <1>1 DEF StartFails, PlacesInv
<1>2. ASSUME NEW c \in StartIds, StartProceeds(c) PROVE PlacesInv'
  <2>1. AtVenue \subseteq Symbols
    BY DEF AtVenue
  <2>. QED BY <1>2, <2>1 DEF StartProceeds, PlacesInv
<1>3. ASSUME NEW c \in StartIds, StartRuns(c) PROVE PlacesInv'
  <2>1. tripped' \in BOOLEAN /\ cooling' \in BOOLEAN
    BY <1>3, EvaluateType DEF StartRuns, PlacesInv
  <2>2. cached' \subseteq Symbols
    BY <1>3 DEF StartRuns, PlacesInv
  <2>. QED BY <1>3, <2>1, <2>2 DEF StartRuns, PlacesInv
<1>4. CASE TickRefreshes
  BY <1>4 DEF TickRefreshes, PlacesInv, JobsInv, TickInv, JobOf
<1>5. CASE TimerFires \/ TickAsks \/ TickReconcilesLive \/ TickReconciled \/ TickFlattened \/ TickEnds \/ TickReconcilesPaper
  BY <1>5 DEF TimerFires, TickAsks, TickReconcilesLive, TickReconciled, TickFlattened, TickEnds,
              TickReconcilesPaper, PlacesInv
<1>6. ASSUME NEW job, NEW next, job.todo \subseteq Symbols, Flattens(job, next),
             UNCHANGED <<loopVars, starts, order, breakerVars, cached>>
      PROVE  PlacesInv'
  <2>1. venue' \in [Symbols -> Nat] /\ blurred' \subseteq Symbols
    BY <1>6, FlattenKeepsPlaces
  <2>. QED BY <1>6, <2>1 DEF PlacesInv
<1>7. CASE TickFlattens
  BY <1>6, <1>7 DEF TickFlattens, JobsInv, TickInv, JobOf
<1>8. CASE EmergencyFlattens
  BY <1>6, <1>8 DEF EmergencyFlattens, JobsInv, EmergencyInv, JobOf
<1>9. CASE OrderConfirmed \/ OrderFails \/ VenueExecutes
  <2>1. order \in [symbol : Symbols, executed : BOOLEAN]
    BY <1>9 DEF OrderConfirmed, OrderFails, VenueExecutes, PlacesInv
  <2>2. CASE OrderConfirmed \/ OrderFails
    BY <2>1, <2>2 DEF OrderConfirmed, OrderFails, PlacesInv
  <2>3. CASE VenueExecutes
    <3>0. order' = [order EXCEPT !.executed = TRUE] /\ order.symbol \in Symbols
      BY <2>1, <2>3 DEF VenueExecutes
    <3>1. order' \in [symbol : Symbols, executed : BOOLEAN]
      BY <2>1, <3>0
    <3>2. venue' \in [Symbols -> Nat]
      BY <2>3, <3>0 DEF VenueExecutes, PlacesInv
    <3>. QED BY <2>3, <3>1, <3>2 DEF VenueExecutes, PlacesInv
  <2>. QED BY <1>9, <2>2, <2>3
<1>10. ASSUME NEW elapsed \in BOOLEAN, TickEvaluates(elapsed) PROVE PlacesInv'
  <2>1. tripped' \in BOOLEAN /\ cooling' \in BOOLEAN
    BY <1>10, EvaluateType DEF TickEvaluates, PlacesInv
  <2>. QED BY <1>10, <2>1 DEF TickEvaluates, PlacesInv
<1>11. ASSUME NEW i \in DOMAIN rows, TickSettles(i) \/ CallClose(i) PROVE PlacesInv'
  BY <1>11 DEF TickSettles, CallClose, PlacesInv
<1>12. ASSUME NEW s \in Symbols, TickSkips(s) \/ TickOrders(s) \/ TickOpensPaper(s) \/ VenueStopsOut(s)
       PROVE  PlacesInv'
  <2>1. order' = order \/ order' \in [symbol : Symbols, executed : BOOLEAN]
    <3>1. [symbol |-> s, executed |-> FALSE] \in [symbol : Symbols, executed : BOOLEAN]
      OBVIOUS
    <3>. QED BY <1>12, <3>1 DEF TickSkips, TickOrders, TickOpensPaper, VenueStopsOut
  <2>2. venue' \in [Symbols -> Nat]
    BY <1>12 DEF TickSkips, TickOrders, TickOpensPaper, VenueStopsOut, PlacesInv
  <2>3. UNCHANGED <<live, halted, tripped, cooling, state, timers, tickTimer, starts, cached, blurred>>
    BY <1>12 DEF TickSkips, TickOrders, TickOpensPaper, VenueStopsOut
  <2>4. overlapped' = overlapped
    BY <1>12 DEF TickSkips, TickOrders, TickOpensPaper, VenueStopsOut
  <2>. QED BY <2>1, <2>2, <2>3, <2>4 DEF PlacesInv
<1>13. CASE EmergencyCancels \/ EmergencyHalts \/ CallStop \/ CallEmergency \/ ResetBreaker
  BY <1>13 DEF EmergencyCancels, EmergencyHalts, Halt, CallStop, CallEmergency, ResetBreaker, PlacesInv
<1>14. CASE CloseReturns
  <2>1. rows[closing.row].symbol \in Symbols
    <3>1. closing.row \in DOMAIN rows /\ rows \in Seq(Row)
      BY <1>14 DEF CloseReturns, JobsInv, ClosingInv, TableInv
    <3>2. rows[closing.row] \in Row
      BY <3>1
    <3>. QED BY <3>2 DEF Row
  <2>. QED BY <1>14, <2>1 DEF CloseReturns, ClosesOne, PlacesInv
<1>15. CASE CloseSettles
  <2>1. tripped' \in BOOLEAN /\ cooling' \in BOOLEAN
    BY <1>15, EvaluateType DEF CloseSettles, PlacesInv
  <2>. QED BY <1>15, <2>1 DEF CloseSettles, PlacesInv
<1>16. ASSUME NEW c \in StartIds, CallStart(c) PROVE PlacesInv'
  <2>1. starts' \in [StartIds -> [at : {"new", "ping", "credentials", "refresh", "read", "done"},
                                  read : SUBSET Symbols]]
    BY <1>16 DEF CallStart, StartRefused, PlacesInv
  <2>. QED BY <1>16, <2>1 DEF CallStart, StartRefused, PlacesInv
<1>17. CASE UNCHANGED vars
  BY <1>17 DEF vars, PlacesInv
<1>. QED
  BY <1>1, <1>2, <1>3, <1>4, <1>5, <1>7, <1>8, <1>9, <1>10, <1>11, <1>12, <1>13, <1>14, <1>15, <1>16, <1>17
  DEF Next, StartStep, TickStep, EmergencyStep, CloseStep, Operator, Venue
-----------------------------------------------------------------------------
(***************************************************************************)
(* The invariant, and what it says.                                        *)
(***************************************************************************)
LEMMA InitIInv == Init => IInv
<1>. SUFFICES ASSUME Init PROVE IInv
  OBVIOUS
<1>1. OpenRows = {} /\ OpenSymbols = {} /\ Cardinality({}) = 0 /\ Len(rows) = 0 /\ Len(results) = 0
  BY FS_EmptySet DEF Init, OpenRows, OpenSymbols
<1>2. RiskLimitsHold
  BY <1>1, LimitsAssumption DEF RiskLimitsHold
<1>3. SettledOnce
  BY <1>1, TotalEmpty DEF SettledOnce, Init
<1>4. TableInv
  BY <1>1, <1>2, <1>3, LimitsAssumption DEF TableInv, Init
<1>5. PlacesInv
  BY DEF Init, PlacesInv
<1>6. JobsInv
  BY IdleIsAJob DEF Init, JobsInv, TickInv, EmergencyInv, ClosingInv, Idle, TickPlaces, EmergencyPlaces
<1>. QED
  BY <1>4, <1>5, <1>6 DEF IInv

LEMMA NextIInv == IInv /\ [Next]_vars => IInv'
  BY NextTable, NextPlaces, NextTick, NextEmergency, NextClosing DEF IInv, JobsInv

(* The table, the places of the suspended calls and the types are an       *)
(* inductive invariant (engine.ts, reconciler.ts).                         *)
THEOREM ServerInv == Spec => []IInv
  BY InitIInv, NextIInv, PTL DEF Spec

(* The risk limits hold for the table whatever settles or refreshes while  *)
(* a tick awaits (risk.ts assessRisk).                                     *)
THEOREM ServerRiskLimits == Spec => []RiskLimitsHold
<1>1. IInv => RiskLimitsHold
  BY DEF IInv, TableInv
<1>. QED
  BY <1>1, ServerInv, PTL

(* A row is settled once, whoever races for it, and paper equity is the    *)
(* sum of the results (db.ts closeTrade).                                  *)
THEOREM ServerSettlesOnce == Spec => []SettledOnce
<1>1. IInv => SettledOnce
  BY DEF IInv, TableInv
<1>. QED
  BY <1>1, ServerInv, PTL

LEMMA IInvTypes == IInv => TypeOk
<1>. SUFFICES ASSUME IInv PROVE TypeOk
  OBVIOUS
<1>1. TableInv /\ PlacesInv /\ JobsInv
  BY DEF IInv
<1>2. rows \in Seq(Row) /\ Len(rows) <= MaxPerDay /\ results \in Seq({-1, 1}) /\ MaxPerDay \in Nat
  BY <1>1, LimitsAssumption DEF TableInv
<1>3. DOMAIN rows \subseteq 1 .. MaxPerDay
  BY <1>2
<1>4. tick \in JobType(TickPlaces) /\ emergency \in JobType(EmergencyPlaces)
  BY <1>1, <1>3 DEF JobsInv, TickInv, EmergencyInv, JobOf, JobType
<1>5. closing \in [at : {"idle", "exchange", "price"}, row : 0 .. MaxPerDay]
  BY <1>1, <1>2, <1>3 DEF JobsInv, ClosingInv
<1>6. Range(rows) \subseteq [symbol : Symbols, open : BOOLEAN]
  <2>1. \A i \in DOMAIN rows : rows[i] \in Row
    BY <1>2
  <2>. QED BY <2>1 DEF Range, Row
<1>7. Range(results) \subseteq {-1, 1}
  BY <1>2 DEF Range
<1>8. equity \in -MaxPerDay .. MaxPerDay
  <2>1. OpenRows = OpenIn(rows)
    BY DEF OpenRows, OpenIn
  <2>2. Cardinality(OpenRows) \in Nat /\ Cardinality(OpenRows) <= Len(rows)
    BY <1>2, <2>1, OpenInFinite
  <2>3. Len(results) <= MaxPerDay /\ Len(results) \in Nat
    BY <1>1, <1>2, <2>2 DEF TableInv, SettledOnce
  <2>4. Total(results) \in Int /\ Total(results) \in -Len(results) .. Len(results)
    BY <1>2, ResultsTotal
  <2>5. Total(results) \in -MaxPerDay .. MaxPerDay
    BY <1>2, <2>3, <2>4
  <2>. QED BY <1>1, <1>2, <2>5 DEF TableInv, SettledOnce
<1>. QED
  BY <1>1, <1>2, <1>4, <1>5, <1>6, <1>7, <1>8 DEF PlacesInv, TypeOk, TickPlaces, EmergencyPlaces

(* Every variable of the engine has its type.                              *)
THEOREM ServerTypes == Spec => []TypeOk
  BY IInvTypes, ServerInv, PTL
-----------------------------------------------------------------------------
(***************************************************************************)
(* The venue and the table, when the account can be read.                  *)
(***************************************************************************)
Knows(s) == s \in OpenSymbols \/ (order # None /\ order.symbol = s)

(* Paper mode holds nothing at the venue; only a tick that acts orders; an *)
(* emergency stop has touched every symbol.                                *)
Sound ==
  /\ order # None => tick.at = "act"
  /\ ~live => AtVenue = {}
  /\ emergency # Idle => blurred = Symbols

(* A start waits alone, and only while no tick runs. *)
Alone ==
  /\ Starting # {} => tick = Idle /\ state # "RUNNING"
  /\ \A c, d \in Starting : c = d

(* What a tick has read covers what the venue holds until the tick acts,   *)
(* and what it is about to settle is not at the venue.                     *)
TickCovers ==
  /\ tick.at = "read" => AtVenue \subseteq tick.todo
  /\ tick.at \in {"reconcile", "settle", "evaluate"} => AtVenue \subseteq cached
  /\ tick.at = "settle" => \A i \in tick.rows : rows[i].open => rows[i].symbol \notin AtVenue
  /\ tick.at = "act" => \A s \in tick.todo \cap AtVenue : s \in cached
  /\ order # None => order.symbol \notin tick.todo /\ (~order.executed => venue[order.symbol] = 0)
  /\ tick.at = "close" => AtVenue \subseteq tick.todo \cup blurred
  /\ tick.at = "flatten" => AtVenue \subseteq blurred

(* What a manual close is about to settle has left the venue.              *)
CloseCovers ==
  closing.at = "price" /\ live /\ rows[closing.row].open =>
    rows[closing.row].symbol \in blurred \/ rows[closing.row].symbol \notin AtVenue

Known ==
  /\ \A s \in Symbols : venue[s] <= 1
  /\ \A s \in AtVenue \ blurred : Knows(s)

FreshInv == Sound /\ (overlapped \/ (Alone /\ TickCovers /\ CloseCovers /\ Known))

VenueFalls == \A s \in Symbols : venue'[s] <= venue[s]

LEMMA FlattenFalls ==
  ASSUME PlacesInv, NEW job, NEW next, job.todo \subseteq Symbols, Flattens(job, next)
  PROVE  VenueFalls /\ blurred \subseteq blurred'
<1>1. venue \in [Symbols -> Nat] /\ blurred \subseteq Symbols
  BY DEF PlacesInv
<1>2. ASSUME NEW s \in Symbols, ClosesOne(s) PROVE VenueFalls /\ blurred \subseteq blurred'
  BY <1>1, <1>2 DEF ClosesOne, VenueFalls
<1>. QED
  BY <1>1, <1>2 DEF Flattens, ReadsPositions, Closes, ListsRows, SettlesAll, VenueFalls

(* Only an execution raises what the venue holds, and nothing is unblurred. *)
LEMMA OnlyExecutionsRaise ==
  ASSUME TableInv, PlacesInv, JobsInv, [Next]_vars
  PROVE  /\ VenueExecutes \/ VenueFalls
         /\ blurred \subseteq blurred'
         /\ live' = live
         /\ overlapped => overlapped'
<1>. USE DEF loopVars, callVars, tickVars, tableVars, breakerVars, restVars
<1>1. venue \in [Symbols -> Nat] /\ blurred \subseteq Symbols
  BY DEF PlacesInv
<1>2. CASE TickFlattens
  BY <1>2, FlattenFalls DEF TickFlattens, JobsInv, TickInv, JobOf
<1>3. CASE EmergencyFlattens
  BY <1>3, FlattenFalls DEF EmergencyFlattens, JobsInv, EmergencyInv, JobOf
<1>4. CASE CloseReturns
  BY <1>1, <1>4 DEF CloseReturns, ClosesOne, VenueFalls
<1>5. ASSUME NEW s \in Symbols, VenueStopsOut(s) PROVE VenueFalls /\ UNCHANGED <<blurred, live, overlapped>>
  BY <1>1, <1>5 DEF VenueStopsOut, VenueFalls
<1>6. CASE VenueExecutes
  BY <1>6 DEF VenueExecutes
<1>7. CASE CallEmergency \/ OrderFails
  BY <1>1, <1>7 DEF CallEmergency, OrderFails, VenueFalls
<1>8. ASSUME NEW c \in StartIds, CallStart(c)
      PROVE  UNCHANGED <<venue, blurred, live>> /\ (overlapped => overlapped')
  <2>1. UNCHANGED <<venue, blurred, live>>
    BY <1>8 DEF CallStart
  <2>2. UNCHANGED overlapped \/ overlapped' = (overlapped \/ Starting # {} \/ tick # Idle)
    BY <1>8 DEF CallStart, StartRefused
  <2>3. overlapped => overlapped'
    BY <2>2, Zenon
  <2>. QED BY <2>1, <2>3
<1>9. \/ TickFlattens \/ EmergencyFlattens \/ CloseReturns \/ VenueExecutes \/ CallEmergency \/ OrderFails
      \/ \E s \in Symbols : VenueStopsOut(s)
      \/ \E c \in StartIds : CallStart(c)
      \/ UNCHANGED <<venue, blurred, live, overlapped>>
  BY DEF Next, vars, StartStep, StartFails, StartProceeds, StartRuns, TimerFires, TickStep, TickAsks,
         TickRefreshes, TickReconcilesLive, TickReconciled, TickReconcilesPaper,
         TickFlattened, TickEnds, OrderConfirmed, TickEvaluates, TickSettles, TickSkips,
         TickOrders, TickOpensPaper, EmergencyStep, EmergencyCancels, EmergencyHalts, Halt,
         CloseStep, CloseSettles, Operator, CallStop, ResetBreaker, CallClose, Venue
<1>. QED
  BY <1>1, <1>2, <1>3, <1>4, <1>5, <1>6, <1>7, <1>8, <1>9 DEF VenueFalls

LEMMA FallingVenue ==
  ASSUME PlacesInv, PlacesInv', VenueFalls
  PROVE  AtVenue' \subseteq AtVenue
  BY DEF PlacesInv, VenueFalls, AtVenue

LEMMA NextSound ==
  ASSUME TableInv, PlacesInv, PlacesInv', JobsInv, [Next]_vars, Sound
  PROVE  Sound'
<1>. USE DEF loopVars, callVars, tickVars, tableVars, breakerVars, restVars
<1>1. order' # None => tick'.at = "act"
  <2>0. tick \in JobOf(TickPlaces) /\ (order # None => tick.at = "act")
    BY DEF JobsInv, TickInv, Sound
  <2>1. CASE tick' = tick /\ (order' = order \/ order' = None)
    BY <2>0, <2>1
  <2>2. CASE tick.at # "act" /\ order' = order
    BY <2>0, <2>2
  <2>3. CASE order' = None
    BY <2>3
  <2>4. ASSUME NEW s \in Symbols, TickSkips(s) \/ TickOrders(s) \/ TickOpensPaper(s)
        PROVE  tick'.at = "act"
    BY <2>0, <2>4 DEF TickSkips, TickOrders, TickOpensPaper, JobOf
  <2>5. CASE VenueExecutes
    BY <2>0, <2>5 DEF VenueExecutes
  <2>6. CASE TickFlattens
    <3>1. tick.at # "act" /\ order' = order
      BY <2>6 DEF TickFlattens, Flattens, ReadsPositions, Closes, ListsRows, SettlesAll
    <3>. QED BY <2>2, <3>1
  <2>7. ASSUME NEW c \in StartIds, StartRuns(c)
        PROVE  order' = order /\ (tick' = tick \/ tick.at # "act")
    BY <2>7 DEF StartRuns, Idle, Job
  <2>8. CASE TimerFires \/ TickFlattened \/ TickEnds
    BY <2>2, <2>8 DEF TimerFires, TickFlattened, TickEnds, Flattened, Idle, Job
  <2>9. CASE TickAsks \/ TickRefreshes \/ TickReconcilesLive \/ TickReconciled \/ TickReconcilesPaper
    BY <2>2, <2>9 DEF TickAsks, TickRefreshes, TickReconcilesLive, TickReconciled, TickReconcilesPaper
  <2>10. ASSUME NEW elapsed \in BOOLEAN, TickEvaluates(elapsed) PROVE tick.at # "act" /\ order' = order
    BY <2>10 DEF TickEvaluates
  <2>11. ASSUME NEW i \in DOMAIN rows, TickSettles(i) PROVE tick.at # "act" /\ order' = order
    BY <2>11 DEF TickSettles
  <2>12. \/ tick' = tick /\ (order' = order \/ order' = None)
         \/ TickFlattens \/ TimerFires \/ TickFlattened \/ TickEnds
         \/ TickAsks \/ TickRefreshes \/ TickReconcilesLive \/ TickReconciled \/ TickReconcilesPaper
         \/ \E c \in StartIds : StartRuns(c)
         \/ \E elapsed \in BOOLEAN : TickEvaluates(elapsed)
         \/ \E i \in DOMAIN rows : TickSettles(i)
         \/ \E s \in Symbols : TickSkips(s) \/ TickOrders(s) \/ TickOpensPaper(s)
         \/ VenueExecutes
    BY DEF Next, vars, StartStep, StartFails, StartProceeds, TickStep, OrderConfirmed, OrderFails,
         EmergencyStep, EmergencyCancels, EmergencyFlattens, EmergencyHalts,
         CloseStep, CloseReturns, CloseSettles, Operator, CallEmergency,
         CallStop, ResetBreaker, CallStart, CallClose, Venue, VenueStopsOut
  <2>. QED
    BY <2>1, <2>2, <2>4, <2>5, <2>6, <2>7, <2>8, <2>9, <2>10, <2>11, <2>12
<1>2. ~live' => AtVenue' = {}
  <2>1. CASE VenueExecutes
    BY <2>1, OnlyExecutionsRaise DEF VenueExecutes, TableInv
  <2>2. CASE VenueFalls
    BY <2>2, OnlyExecutionsRaise, FallingVenue DEF Sound
  <2>. QED
    BY <2>1, <2>2, OnlyExecutionsRaise
<1>3. emergency' # Idle => blurred' = Symbols
  <2>1. CASE emergency' = emergency
    BY <2>1, OnlyExecutionsRaise DEF Sound, PlacesInv
  <2>2. CASE emergency # Idle
    BY <2>2, OnlyExecutionsRaise DEF Sound, PlacesInv
  <2>3. CASE CallEmergency
    BY <2>3 DEF CallEmergency
  <2>4. CASE EmergencyCancels \/ EmergencyFlattens \/ EmergencyHalts
    <3>1. emergency # Idle
      BY <2>4 DEF EmergencyCancels, EmergencyFlattens, EmergencyHalts, Flattens,
                  ReadsPositions, Closes, ListsRows, SettlesAll, Flattened, Idle, Job
    <3>. QED BY <2>2, <3>1
  <2>5. emergency' = emergency \/ EmergencyStep \/ CallEmergency
    BY DEF Next, vars, StartStep, StartFails, StartProceeds, StartRuns, TimerFires, TickStep, TickAsks,
         TickRefreshes, TickReconcilesLive, TickReconciled, TickReconcilesPaper, TickFlattens,
         TickFlattened, TickEnds, OrderConfirmed, OrderFails, TickEvaluates, TickSettles, TickSkips,
         TickOrders, TickOpensPaper,
         CloseStep, CloseReturns, CloseSettles, Operator,
         CallStop, ResetBreaker, CallStart, CallClose, Venue, VenueExecutes, VenueStopsOut
  <2>. QED
    BY <2>1, <2>3, <2>4, <2>5 DEF EmergencyStep
<1>. QED
  BY <1>1, <1>2, <1>3 DEF Sound

LEMMA NextAlone ==
  ASSUME PlacesInv, JobsInv, [Next]_vars, ~overlapped', Sound, Alone
  PROVE  Alone'
<1>. USE DEF loopVars, callVars, tickVars, tableVars, breakerVars, restVars
<1>0. /\ starts \in [StartIds -> [at : {"new", "ping", "credentials", "refresh", "read", "done"},
                                  read : SUBSET Symbols]]
      /\ Idle.at = "idle"
  BY DEF PlacesInv, Idle, Job
<1>1. CASE starts' = starts /\ (tick' = tick \/ tick # Idle) /\ (state' = state \/ state' # "RUNNING")
  <2>1. Starting' = Starting
    BY <1>1 DEF Starting
  <2>. QED BY <1>1, <2>1 DEF Alone
<1>2. CASE TimerFires
  <2>1. Starting = {} /\ Starting' = Starting
    BY <1>2 DEF TimerFires, Alone, Starting
  <2>. QED BY <2>1 DEF Alone
<1>3. ASSUME NEW c \in StartIds, StartFails(c) PROVE Alone'
  <2>1. c \in Starting /\ Starting' = Starting \ {c}
    BY <1>0, <1>3 DEF StartFails, Starting
  <2>. QED BY <1>3, <2>1 DEF StartFails, Alone
<1>4. ASSUME NEW c \in StartIds, StartProceeds(c) PROVE Alone'
  <2>1. Starting' = Starting
    BY <1>0, <1>4 DEF StartProceeds, Starting
  <2>. QED BY <1>4, <2>1 DEF StartProceeds, Alone
<1>5. ASSUME NEW c \in StartIds, StartRuns(c) PROVE Alone'
  <2>1. c \in Starting /\ Starting' = Starting \ {c}
    BY <1>0, <1>5 DEF StartRuns, Starting
  <2>2. Starting' = {}
    BY <2>1 DEF Alone
  <2>. QED BY <2>2 DEF Alone
<1>6. ASSUME NEW c \in StartIds, CallStart(c) PROVE Alone'
  <2>1. CASE StartRefused(c)
    <3>1. Starting' = Starting
      BY <1>0, <1>6, <2>1 DEF CallStart, StartRefused, Starting
    <3>. QED BY <1>6, <2>1, <3>1 DEF CallStart, StartRefused, Alone
  <2>2. CASE ~StartRefused(c)
    <3>1. /\ state' = "STARTING" /\ tick' = tick
          /\ starts' = [starts EXCEPT ![c].at = "ping"]
          /\ overlapped' = (overlapped \/ Starting # {} \/ tick # Idle)
      BY <1>6, <2>2 DEF CallStart
    <3>2. Starting = {} /\ tick = Idle
      BY <3>1
    <3>3. Starting' \subseteq {c}
      BY <1>0, <3>1, <3>2 DEF Starting
    <3>. QED BY <3>1, <3>2, <3>3 DEF Alone
  <2>. QED BY <2>1, <2>2
<1>7. CASE TickFlattens
  <2>1. tick.at # "idle"
    BY <1>7 DEF TickFlattens, Flattens, ReadsPositions, Closes, ListsRows, SettlesAll
  <2>. QED BY <1>0, <1>1, <1>7, <2>1 DEF TickFlattens
<1>8. CASE \/ TickAsks \/ TickRefreshes \/ TickReconcilesLive \/ TickReconciled \/ TickReconcilesPaper
           \/ TickFlattened \/ TickEnds
  BY <1>0, <1>1, <1>8 DEF TickAsks, TickRefreshes, TickReconcilesLive, TickReconciled, TickReconcilesPaper,
     TickFlattened, Flattened, TickEnds
<1>9. ASSUME NEW elapsed \in BOOLEAN, TickEvaluates(elapsed) PROVE Alone'
  BY <1>0, <1>1, <1>9 DEF TickEvaluates
<1>10. ASSUME NEW i \in DOMAIN rows, TickSettles(i) PROVE Alone'
  BY <1>0, <1>1, <1>10 DEF TickSettles
<1>11. ASSUME NEW s \in Symbols, TickSkips(s) \/ TickOrders(s) \/ TickOpensPaper(s) PROVE Alone'
  BY <1>0, <1>1, <1>11 DEF TickSkips, TickOrders, TickOpensPaper
<1>12. \/ starts' = starts /\ tick' = tick /\ (state' = state \/ state' # "RUNNING")
       \/ StartStep \/ TimerFires \/ TickFlattens
       \/ TickAsks \/ TickRefreshes \/ TickReconcilesLive \/ TickReconciled \/ TickReconcilesPaper
       \/ TickFlattened \/ TickEnds
       \/ \E elapsed \in BOOLEAN : TickEvaluates(elapsed)
       \/ \E i \in DOMAIN rows : TickSettles(i)
       \/ \E s \in Symbols : TickSkips(s) \/ TickOrders(s) \/ TickOpensPaper(s)
       \/ \E c \in StartIds : CallStart(c)
  BY DEF Next, vars, TickStep, OrderConfirmed, OrderFails,
         EmergencyStep, EmergencyCancels, EmergencyFlattens, EmergencyHalts, Halt,
         CloseStep, CloseReturns, CloseSettles, Operator, CallEmergency,
         CallStop, ResetBreaker, CallClose, Venue, VenueExecutes, VenueStopsOut
<1>. QED
  BY <1>1, <1>2, <1>3, <1>4, <1>5, <1>6, <1>7, <1>8, <1>9, <1>10, <1>11, <1>12 DEF StartStep

LEMMA NextTickCovers ==
  ASSUME ~RefreshMayFail, TableInv, PlacesInv, PlacesInv', JobsInv, [Next]_vars, RowsStay,
         Sound, Sound', Alone, TickCovers
  PROVE  TickCovers'
<1>. USE DEF loopVars, callVars, tickVars, tableVars, breakerVars, restVars
<1>0. /\ tick \in JobOf(TickPlaces) /\ rows \in Seq(Row) /\ AtVenue \subseteq Symbols
      /\ cached \subseteq Symbols /\ Idle.at = "idle"
      /\ venue \in [Symbols -> Nat]
      /\ blurred \subseteq blurred'
  BY OnlyExecutionsRaise DEF JobsInv, TickInv, TableInv, PlacesInv, AtVenue, Idle, Job
<1>. USE DEF JobOf
<1>1. CASE VenueFalls /\ tick' = tick /\ cached' = cached /\ (order' = order \/ order' = None)
  <2>1. AtVenue' \subseteq AtVenue /\ blurred \subseteq blurred'
    BY <1>0, <1>1, FallingVenue
  <2>2. tick.at = "settle" => \A i \in tick.rows : rows'[i].open => rows'[i].symbol \notin AtVenue'
    BY <1>0, <2>1 DEF TickCovers, RowsStay
  <2>3. order' # None => order'.symbol \notin tick'.todo /\ (~order'.executed => venue'[order'.symbol] = 0)
    BY <1>0, <1>1 DEF TickCovers, TableInv, VenueFalls, PlacesInv
  <2>. QED BY <1>1, <2>1, <2>2, <2>3 DEF TickCovers
<1>2. CASE order' = None /\ tick'.at \in {"idle", "refresh", "positions"}
  BY <1>2 DEF TickCovers
<1>3. tick.at # "act" => order = None
  BY DEF Sound
<1>4. ASSUME NEW c \in StartIds, StartRuns(c) PROVE TickCovers'
  <2>1. c \in Starting
    BY <1>4 DEF StartRuns, Starting
  <2>2. tick = Idle
    BY <2>1 DEF Alone
  <2>. QED BY <1>0, <1>2, <1>3, <1>4, <2>2 DEF StartRuns, Job
<1>5. CASE TimerFires \/ TickFlattened \/ TickEnds
  BY <1>0, <1>2, <1>3, <1>5 DEF TimerFires, TickFlattened, Flattened, TickEnds, Job
<1>6. CASE TickAsks
  <2>1. tick'.at = "read" /\ AtVenue' = AtVenue /\ tick'.todo = AtVenue /\ order' = None
    BY <1>0, <1>3, <1>6 DEF TickAsks, AtVenue
  <2>. QED BY <2>1 DEF TickCovers
<1>7. CASE TickRefreshes
  <2>1. tick'.at \in {"reconcile", "evaluate"} /\ AtVenue' = AtVenue /\ order' = None /\ cached' = tick.todo
    BY <1>0, <1>3, <1>7 DEF TickRefreshes, AtVenue
  <2>2. AtVenue \subseteq tick.todo
    BY <1>7 DEF TickRefreshes, TickCovers
  <2>. QED BY <2>1, <2>2 DEF TickCovers
<1>8. CASE TickReconcilesLive
  <2>1. /\ tick'.at = "settle" /\ AtVenue' = AtVenue /\ order' = None /\ UNCHANGED <<cached, rows>>
        /\ tick'.rows = {i \in OpenRows : rows[i].symbol \notin cached}
    BY <1>0, <1>3, <1>8 DEF TickReconcilesLive, AtVenue
  <2>2. AtVenue \subseteq cached
    BY <1>8 DEF TickReconcilesLive, TickCovers
  <2>. QED BY <2>1, <2>2 DEF TickCovers
<1>9. CASE TickReconciled \/ TickReconcilesPaper
  <2>1. tick'.at \in {"refresh", "evaluate"} /\ AtVenue' = AtVenue /\ order' = None /\ cached' = cached
    BY <1>0, <1>3, <1>9 DEF TickReconciled, TickReconcilesPaper, AtVenue
  <2>2. AtVenue \subseteq cached
    BY <1>9 DEF TickReconciled, TickReconcilesPaper, TickCovers
  <2>. QED BY <2>1, <2>2 DEF TickCovers
<1>10. ASSUME NEW i \in DOMAIN rows, TickSettles(i) PROVE TickCovers'
  <2>1. /\ tick.at = "settle" /\ tick'.at = "settle" /\ AtVenue' = AtVenue /\ order' = None /\ cached' = cached
        /\ tick'.rows \subseteq tick.rows
    BY <1>0, <1>3, <1>10 DEF TickSettles, AtVenue
  <2>2. \A k \in tick'.rows : rows'[k].open => rows'[k].symbol \notin AtVenue'
    BY <1>0, <2>1 DEF TickCovers, RowsStay
  <2>. QED BY <2>1, <2>2 DEF TickCovers
<1>11. ASSUME NEW elapsed \in BOOLEAN, TickEvaluates(elapsed) PROVE TickCovers'
  <2>1. order' = None /\ AtVenue' = AtVenue /\ cached' = cached /\ AtVenue \subseteq cached
    BY <1>3, <1>11 DEF TickEvaluates, AtVenue, TickCovers
  <2>2. tick'.at \in {"idle", "positions", "act"}
    BY <1>0, <1>11 DEF TickEvaluates, Job
  <2>. QED BY <2>1, <2>2 DEF TickCovers
<1>12. ASSUME NEW s \in Symbols, TickSkips(s) \/ TickOpensPaper(s) PROVE TickCovers'
  <2>1. tick.at = "act" /\ tick'.at = "act" /\ tick'.todo \subseteq tick.todo /\ AtVenue' = AtVenue
        /\ cached' = cached /\ order' = None
    BY <1>0, <1>12 DEF TickSkips, TickOpensPaper, AtVenue, TableInv
  <2>. QED BY <2>1 DEF TickCovers
<1>13. ASSUME NEW s \in Symbols, TickOrders(s) PROVE TickCovers'
  <2>1. tick.at = "act" /\ tick'.at = "act" /\ tick'.todo = tick.todo \ {s} /\ AtVenue' = AtVenue
        /\ UNCHANGED <<cached, venue>> /\ order' = [symbol |-> s, executed |-> FALSE]
    BY <1>0, <1>13 DEF TickOrders, AtVenue
  <2>2. s \notin AtVenue
    BY <1>13 DEF TickOrders, Allowed, Booked, TickCovers
  <2>3. venue'[s] = 0
    BY <1>0, <2>1, <2>2 DEF AtVenue
  <2>. QED BY <2>1, <2>3 DEF TickCovers
<1>14. CASE TickFlattens
  <2>0. order' = None /\ cached' = cached /\ AtVenue' \subseteq AtVenue
    <3>1. order' = order /\ cached' = cached
      BY <1>14 DEF TickFlattens
    <3>2. tick.at # "act"
      BY <1>14 DEF TickFlattens, Flattens, ReadsPositions, Closes, ListsRows, SettlesAll
    <3>3. VenueFalls
      BY <1>0, <1>14, FlattenFalls DEF TickFlattens
    <3>. QED BY <1>3, <3>1, <3>2, <3>3, FallingVenue
  <2>1. CASE ReadsPositions(tick, tick')
    <3>1. tick'.at = "close" /\ (tick'.todo = AtVenue \/ blurred' = Symbols)
      BY <1>0, <2>1 DEF ReadsPositions
    <3>. QED BY <1>0, <2>0, <3>1 DEF TickCovers
  <2>2. CASE Closes(tick, tick')
    <3>1. PICK s \in tick.todo : ClosesOne(s) /\ tick' = [tick EXCEPT !.todo = @ \ {s}]
      BY <2>2 DEF Closes
    <3>2. tick.at = "close" /\ tick'.at = "close" /\ tick'.todo = tick.todo \ {s}
      BY <1>0, <2>2, <3>1 DEF Closes
    <3>3. s \notin AtVenue' \/ s \in blurred'
      BY <1>0, <3>1 DEF ClosesOne, AtVenue
    <3>4. AtVenue \subseteq tick.todo \cup blurred
      BY <3>2 DEF TickCovers
    <3>5. AtVenue' \subseteq tick'.todo \cup blurred'
      BY <1>0, <2>0, <3>2, <3>3, <3>4
    <3>. QED BY <2>0, <3>2, <3>5 DEF TickCovers
  <2>3. CASE ListsRows(tick, tick')
    <3>1. tick'.at = "flatten" /\ AtVenue \subseteq blurred
      BY <1>0, <2>3 DEF ListsRows, TickCovers
    <3>. QED BY <1>0, <2>0, <3>1 DEF TickCovers
  <2>4. CASE SettlesAll(tick, tick')
    <3>1. tick'.at = "flatten" /\ AtVenue \subseteq blurred
      BY <1>0, <2>4 DEF SettlesAll, TickCovers
    <3>. QED BY <1>0, <2>0, <3>1 DEF TickCovers
  <2>. QED BY <1>14, <2>1, <2>2, <2>3, <2>4 DEF TickFlattens, Flattens
<1>15. CASE VenueExecutes
  <2>1. /\ order # None /\ ~order.executed /\ order' = [order EXCEPT !.executed = TRUE]
        /\ UNCHANGED <<tick, cached>> /\ AtVenue' \subseteq AtVenue \cup {order.symbol}
        /\ order \in [symbol : Symbols, executed : BOOLEAN]
    BY <1>0, <1>15 DEF VenueExecutes, AtVenue, TableInv
  <2>2. order'.symbol = order.symbol /\ order'.executed
    BY <2>1
  <2>3. tick.at = "act" /\ order.symbol \notin tick.todo
    BY <2>1 DEF Sound, TickCovers
  <2>. QED BY <2>1, <2>2, <2>3 DEF TickCovers
<1>16. CASE OrderConfirmed \/ OrderFails
  <2>1. VenueFalls
    BY <1>0, <1>16 DEF OrderConfirmed, OrderFails, VenueFalls
  <2>. QED BY <1>1, <1>16, <2>1 DEF OrderConfirmed, OrderFails
<1>17. \/ tick' = tick /\ cached' = cached /\ order' = order
       \/ \E c \in StartIds : StartRuns(c)
       \/ TimerFires \/ TickFlattened \/ TickEnds
       \/ TickAsks \/ TickRefreshes \/ TickReconcilesLive \/ TickReconciled \/ TickReconcilesPaper
       \/ \E i \in DOMAIN rows : TickSettles(i)
       \/ \E elapsed \in BOOLEAN : TickEvaluates(elapsed)
       \/ \E s \in Symbols : TickSkips(s) \/ TickOrders(s) \/ TickOpensPaper(s)
       \/ TickFlattens \/ VenueExecutes \/ OrderConfirmed \/ OrderFails
  BY DEF Next, vars, StartStep, StartFails, StartProceeds, TickStep,
         EmergencyStep, EmergencyCancels, EmergencyFlattens, EmergencyHalts,
         CloseStep, CloseReturns, CloseSettles, Operator, CallEmergency,
         CallStop, ResetBreaker, CallStart, CallClose, Venue, VenueStopsOut
<1>. QED
  BY <1>1, <1>4, <1>5, <1>6, <1>7, <1>8, <1>9, <1>10, <1>11, <1>12, <1>13, <1>14, <1>15, <1>16, <1>17,
     OnlyExecutionsRaise

LEMMA NextCloseCovers ==
  ASSUME TableInv, PlacesInv, PlacesInv', JobsInv, [Next]_vars, RowsStay, CloseCovers
  PROVE  CloseCovers'
<1>. USE DEF loopVars, callVars, tickVars, tableVars, breakerVars, restVars
<1>0. /\ rows \in Seq(Row) /\ ClosingInv /\ live' = live /\ blurred \subseteq blurred'
      /\ venue \in [Symbols -> Nat]
  BY OnlyExecutionsRaise DEF JobsInv, TableInv, PlacesInv
<1>1. CASE VenueFalls /\ closing' = closing
  <2>1. AtVenue' \subseteq AtVenue
    BY <1>1, FallingVenue
  <2>. QED BY <1>0, <1>1, <2>1 DEF CloseCovers, ClosingInv, RowsStay
<1>2. CASE VenueExecutes
  <2>1. closing' = closing /\ rows' = rows /\ order # None /\ AtVenue' \subseteq AtVenue \cup {order.symbol}
    BY <1>0, <1>2 DEF VenueExecutes, AtVenue
  <2>2. order.symbol \notin OpenSymbols
    BY <2>1 DEF TableInv
  <2>. QED BY <1>0, <2>1, <2>2 DEF CloseCovers, ClosingInv, OpenSymbols, OpenRows
<1>3. ASSUME NEW i \in DOMAIN rows, CallClose(i) PROVE CloseCovers'
  BY <1>0, <1>3 DEF CallClose, CloseCovers
<1>4. CASE CloseReturns
  <2>1. /\ closing.at = "exchange" /\ closing' = [closing EXCEPT !.at = "price"] /\ rows' = rows
        /\ ClosesOne(rows[closing.row].symbol)
    BY <1>4 DEF CloseReturns
  <2>2. closing'.row = closing.row /\ closing.row \in DOMAIN rows
    BY <1>0, <2>1 DEF ClosingInv
  <2>3. rows[closing.row].symbol \in blurred' \/ rows[closing.row].symbol \notin AtVenue'
    BY <1>0, <2>1 DEF ClosesOne, AtVenue
  <2>. QED BY <2>1, <2>2, <2>3 DEF CloseCovers
<1>5. CASE CloseSettles
  BY <1>5 DEF CloseSettles, CloseCovers
<1>6. closing' = closing \/ CloseReturns \/ CloseSettles \/ \E i \in DOMAIN rows : CallClose(i)
  BY DEF Next, vars, StartStep, StartFails, StartProceeds, StartRuns, TimerFires, TickStep, TickAsks,
         TickRefreshes, TickReconcilesLive, TickReconciled, TickReconcilesPaper, TickFlattens,
         TickFlattened, TickEnds, OrderConfirmed, OrderFails, TickEvaluates, TickSettles, TickSkips,
         TickOrders, TickOpensPaper, EmergencyStep, EmergencyCancels, EmergencyFlattens, EmergencyHalts,
         CloseStep, Operator, CallEmergency,
         CallStop, ResetBreaker, CallStart, Venue, VenueExecutes, VenueStopsOut
<1>. QED
  BY <1>1, <1>2, <1>3, <1>4, <1>5, <1>6, OnlyExecutionsRaise

(* A settlement leaves every row of another symbol open. *)
LEMMA SettlingKeepsKnown ==
  ASSUME TableInv, PlacesInv, PlacesInv', Known, NEW i \in DOMAIN rows, SettleOrSkip(i),
         rows[i].open => rows[i].symbol \notin AtVenue \ blurred,
         VenueFalls, blurred \subseteq blurred', order' = order
  PROVE  Known'
<1>0. rows \in Seq(Row) /\ venue \in [Symbols -> Nat] /\ venue' \in [Symbols -> Nat]
      /\ AtVenue' \subseteq AtVenue
  BY FallingVenue DEF TableInv, PlacesInv
<1>1. \A s \in Symbols : venue'[s] <= 1
  BY <1>0 DEF Known, VenueFalls
<1>2. \A k \in OpenRows : k # i \/ rows' = rows => k \in OpenRows' /\ rows'[k].symbol = rows[k].symbol
  BY <1>0 DEF SettleOrSkip, Settle, tableVars, OpenRows
<1>3. rows' = rows \/ rows[i].open
  BY DEF SettleOrSkip, Settle, tableVars
<1>4. ASSUME NEW s \in AtVenue' \ blurred' PROVE Knows(s)'
  <2>1. s \in AtVenue \ blurred /\ Knows(s)
    BY <1>0 DEF Known
  <2>2. CASE order # None /\ order.symbol = s
    BY <2>2 DEF Knows
  <2>3. CASE s \in OpenSymbols
    <3>1. PICK k \in OpenRows : rows[k].symbol = s
      BY <2>3 DEF OpenSymbols
    <3>2. k # i \/ rows' = rows
      BY <1>3, <2>1, <3>1
    <3>3. s \in OpenSymbols'
      BY <1>2, <3>1, <3>2 DEF OpenSymbols
    <3>. QED BY <3>3 DEF Knows
  <2>. QED BY <2>1, <2>2, <2>3 DEF Knows
<1>. QED
  BY <1>1, <1>4 DEF Known

LEMMA NextKnown ==
  ASSUME TableInv, PlacesInv, PlacesInv', JobsInv, [Next]_vars, RowsStay,
         Sound, TickCovers, CloseCovers, Known
  PROVE  Known'
<1>. USE DEF loopVars, callVars, tickVars, tableVars, breakerVars, restVars
<1>0. /\ rows \in Seq(Row) /\ ClosingInv /\ blurred \subseteq blurred' /\ live \in BOOLEAN
      /\ venue \in [Symbols -> Nat] /\ venue' \in [Symbols -> Nat] /\ AtVenue \subseteq Symbols
      /\ tick \in JobOf(TickPlaces) /\ emergency \in JobOf(EmergencyPlaces)
  BY OnlyExecutionsRaise DEF JobsInv, TickInv, EmergencyInv, TableInv, PlacesInv, AtVenue
<1>1. CASE VenueFalls /\ rows' = rows /\ (order' = order \/ order = None)
  <2>1. AtVenue' \subseteq AtVenue
    BY <1>1, FallingVenue
  <2>2. \A s \in Symbols : venue'[s] <= 1
    BY <1>0, <1>1 DEF VenueFalls, Known
  <2>3. \A s \in AtVenue \ blurred : Knows(s)'
    BY <1>1 DEF Known, Knows, OpenSymbols, OpenRows
  <2>. QED BY <1>0, <2>1, <2>2, <2>3 DEF Known
<1>2. CASE VenueExecutes
  <2>1. /\ order # None /\ ~order.executed /\ order' = [order EXCEPT !.executed = TRUE] /\ rows' = rows
        /\ venue' = [venue EXCEPT ![order.symbol] = @ + 1] /\ blurred' = blurred
        /\ order \in [symbol : Symbols, executed : BOOLEAN]
    BY <1>2 DEF VenueExecutes, TableInv
  <2>2. order'.symbol = order.symbol /\ order' # None
    <3>1. order' \in [symbol : Symbols, executed : BOOLEAN]
      BY <2>1
    <3>. QED BY <2>1, <3>1, NoneAssumption
  <2>3. venue[order.symbol] = 0
    BY <2>1 DEF TickCovers
  <2>4. \A s \in Symbols : venue'[s] <= 1
    BY <1>0, <2>1, <2>3 DEF Known
  <2>5. AtVenue' \subseteq AtVenue \cup {order.symbol}
    BY <1>0, <2>1 DEF AtVenue
  <2>6. \A s \in AtVenue' \ blurred' : Knows(s)'
    BY <2>1, <2>2, <2>5 DEF Known, Knows, OpenSymbols, OpenRows
  <2>. QED BY <2>4, <2>6 DEF Known
<1>3. CASE OrderConfirmed
  <2>1. /\ rows' = Opened(rows, order.symbol) /\ UNCHANGED <<venue, blurred>> /\ order.symbol \in Symbols
    BY <1>3 DEF OrderConfirmed, InsertTrade, Opened, TableInv
  <2>2. /\ DOMAIN rows \subseteq DOMAIN rows' /\ \A i \in DOMAIN rows : rows'[i] = rows[i]
        /\ OpenIn(rows') = OpenIn(rows) \cup {Len(rows) + 1}
        /\ rows'[Len(rows) + 1].symbol = order.symbol
    BY <1>0, <2>1, InsertOpens
  <2>3. OpenSymbols' = OpenSymbols \cup {order.symbol}
    BY <2>2 DEF OpenIn, OpenSymbols, OpenRows
  <2>4. AtVenue' = AtVenue
    BY <2>1 DEF AtVenue
  <2>. QED BY <2>1, <2>3, <2>4 DEF Known, Knows
<1>4. CASE OrderFails
  <2>1. UNCHANGED <<rows, venue>> /\ order' = None /\ blurred' = blurred \cup {order.symbol} /\ AtVenue' = AtVenue
    BY <1>4 DEF OrderFails, AtVenue
  <2>. QED BY <2>1 DEF Known, Knows, OpenSymbols, OpenRows
<1>5. ASSUME NEW s \in Symbols, TickOpensPaper(s) PROVE Known'
  <2>1. ~live /\ venue' = venue /\ AtVenue' = AtVenue
    BY <1>5 DEF TickOpensPaper, AtVenue
  <2>. QED BY <2>1 DEF Sound, Known
<1>6. CASE TickReconcilesPaper
  <2>1. ~live /\ venue' = venue /\ AtVenue' = AtVenue
    BY <1>6 DEF TickReconcilesPaper, AtVenue
  <2>. QED BY <2>1 DEF Sound, Known
<1>7. ASSUME NEW i \in DOMAIN rows, TickSettles(i) PROVE Known'
  <2>1. SettleOrSkip(i) /\ order' = order /\ UNCHANGED venue /\ tick.at = "settle" /\ i \in tick.rows
    BY <1>7 DEF TickSettles
  <2>2. rows[i].open => rows[i].symbol \notin AtVenue
    BY <2>1 DEF TickCovers
  <2>3. VenueFalls
    BY <1>0, <2>1 DEF VenueFalls
  <2>. QED BY <1>0, <2>1, <2>2, <2>3, SettlingKeepsKnown
<1>8. ASSUME NEW job, NEW next, job.rows \subseteq DOMAIN rows, job.todo \subseteq Symbols, Flattens(job, next),
             order' = order, job.at = "flatten" => AtVenue \subseteq blurred
      PROVE  Known'
  <2>1. VenueFalls
    BY <1>8, FlattenFalls
  <2>2. CASE rows' = rows
    BY <1>1, <1>8, <2>1, <2>2
  <2>3. CASE SettlesAll(job, next)
    <3>1. PICK i \in job.rows : SettleOrSkip(i)
      BY <2>3 DEF SettlesAll
    <3>2. AtVenue \subseteq blurred
      BY <1>8, <2>3 DEF SettlesAll
    <3>. QED BY <1>0, <1>8, <2>1, <3>1, <3>2, SettlingKeepsKnown
  <2>. QED BY <1>8, <2>2, <2>3 DEF Flattens, ReadsPositions, Closes, ListsRows
<1>9. CASE TickFlattens
  <2>1. tick.rows \subseteq DOMAIN rows /\ tick.todo \subseteq Symbols
    BY <1>0 DEF JobOf
  <2>2. tick.at = "flatten" => AtVenue \subseteq blurred
    BY DEF TickCovers
  <2>. QED BY <1>8, <1>9, <2>1, <2>2 DEF TickFlattens
<1>10. CASE EmergencyFlattens
  <2>1. emergency.rows \subseteq DOMAIN rows /\ emergency.todo \subseteq Symbols
    BY <1>0 DEF JobOf
  <2>2. emergency.at = "flatten" => AtVenue \subseteq blurred
    BY <1>0 DEF Sound, Idle, Job
  <2>. QED BY <1>8, <1>10, <2>1, <2>2 DEF EmergencyFlattens
<1>11. CASE CloseSettles
  <2>1. SettleOrSkip(closing.row) /\ closing.row \in DOMAIN rows /\ closing.at = "price"
        /\ order' = order /\ venue' = venue
    BY <1>0, <1>11 DEF CloseSettles, ClosingInv
  <2>2. rows[closing.row].open => rows[closing.row].symbol \notin AtVenue \ blurred
    BY <1>0, <2>1 DEF CloseCovers, Sound
  <2>3. VenueFalls
    BY <1>0, <2>1 DEF VenueFalls
  <2>. QED BY <1>0, <2>1, <2>2, <2>3, SettlingKeepsKnown
<1>12. ASSUME NEW s \in Symbols, TickOrders(s) PROVE rows' = rows /\ order = None /\ venue' = venue
  BY <1>12 DEF TickOrders
<1>13. venue' = venue => VenueFalls
  BY <1>0 DEF VenueFalls
<1>14. \/ rows' = rows /\ order' = order
       \/ VenueExecutes \/ OrderConfirmed \/ OrderFails \/ TickReconcilesPaper
       \/ TickFlattens \/ EmergencyFlattens \/ CloseSettles
       \/ \E i \in DOMAIN rows : TickSettles(i)
       \/ \E s \in Symbols : TickOrders(s) \/ TickOpensPaper(s)
  BY DEF Next, vars, StartStep, StartFails, StartProceeds, StartRuns, TimerFires, TickStep, TickAsks,
         TickRefreshes, TickReconcilesLive, TickReconciled, TickFlattened, TickEnds, TickEvaluates, TickSkips,
         EmergencyStep, EmergencyCancels, EmergencyHalts, CloseStep, CloseReturns, Operator, CallEmergency,
         CallStop, ResetBreaker, CallStart, CallClose, Venue, VenueStopsOut
<1>. QED
  BY <1>1, <1>2, <1>3, <1>4, <1>5, <1>6, <1>7, <1>9, <1>10, <1>11, <1>12, <1>13, <1>14, OnlyExecutionsRaise

LEMMA InitFresh == Init => FreshInv
<1>. SUFFICES ASSUME Init PROVE FreshInv
  OBVIOUS
<1>1. AtVenue = {} /\ Starting = {}
  BY DEF Init, AtVenue, Starting
<1>. QED
  BY <1>1 DEF Init, FreshInv, Sound, Alone, TickCovers, CloseCovers, Known, Idle, Job

LEMMA NextFresh ==
  ASSUME ~RefreshMayFail, IInv, FreshInv, [Next]_vars
  PROVE  FreshInv'
<1>1. /\ TableInv /\ PlacesInv /\ JobsInv /\ IInv' /\ RowsStay /\ Sound /\ (overlapped => overlapped')
  BY NextIInv, NextTable, OnlyExecutionsRaise DEF IInv, FreshInv
<1>2. PlacesInv' /\ Sound'
  BY <1>1, NextSound DEF IInv
<1>3. CASE overlapped'
  <2>1. (overlapped \/ (Alone /\ TickCovers /\ CloseCovers /\ Known))'
    BY <1>3
  <2>. QED BY <1>2, <2>1 DEF FreshInv
<1>4. CASE ~overlapped'
  <2>1. Alone /\ TickCovers /\ CloseCovers /\ Known
    BY <1>1, <1>4 DEF FreshInv
  <2>. QED
    BY <1>1, <1>2, <1>4, <2>1, NextAlone, NextTickCovers, NextCloseCovers, NextKnown DEF FreshInv
<1>. QED
  BY <1>3, <1>4

(* While the account can be read and no two start() calls overlapped, the  *)
(* exchange never holds two entries on one symbol, and what it holds has   *)
(* an open row, or is the order in flight, or was touched by a failed call *)
(* or an emergency stop (risk.ts: "One position per symbol").              *)
THEOREM ServerTableDescribesVenue ==
  ASSUME ~RefreshMayFail
  PROVE  Spec => []TableDescribesVenue
<1>1. Init => FreshInv
  BY InitFresh
<1>2. IInv /\ FreshInv /\ [Next]_vars => FreshInv'
  BY NextFresh
<1>3. FreshInv => TableDescribesVenue
  BY DEF FreshInv, Known, Knows, TableDescribesVenue
<1>. QED
  BY <1>1, <1>2, <1>3, ServerInv, PTL DEF Spec
=============================================================================
