---------------------------- MODULE PartsProofs -----------------------------
(***************************************************************************)
(* Theorems about the components MCParts runs one at a time, for every     *)
(* value of its constants: the order record, whose theorems are about its  *)
(* own specification, and the components whose inductive invariants        *)
(* ComponentProofs, StoreProofs and ServiceProofs are about.               *)
(***************************************************************************)
EXTENDS MCParts, ComponentProofs, StoreProofs, ServiceProofs, Lemmas

LEMMA EventFields ==
  ASSUME NEW event \in Events
  PROVE  event.type \in EventTypes /\ event.qty \in Int
  BY BoundsAssumption DEF Events, EventTypes

(* The inductive invariant: the record is a record, and its state agrees   *)
(* with its fill.                                                          *)
RecordInv == order \in OrderRecord /\ WellFormed(order)

LEMMA OrderStarts == Init => RecordInv
  BY BoundsAssumption DEF Init, RecordInv, NewOrder, OrderRecord, OrderStates, Sides, WellFormed

LEMMA OrderSteps == RecordInv /\ [Next]_vars => RecordInv'
<1> SUFFICES ASSUME RecordInv, [Next]_vars PROVE RecordInv'
  OBVIOUS
<1>1. CASE UNCHANGED vars
  BY <1>1 DEF RecordInv, vars
<1>2. ASSUME NEW event \in Events, Receive(event) PROVE RecordInv'
  <2>1. order' = ApplyOrderEvent(order, event).order
    BY <1>2 DEF Receive
  <2>2. QED
    BY <2>1, EventFields, ApplyType, ApplyWellFormed DEF RecordInv
<1>3. QED
  BY <1>1, <1>2 DEF Next

(* The state of a record and its filled quantity agree in every reachable  *)
(* state, whatever events arrive in whatever order.                        *)
THEOREM StateAlwaysAgreesWithFill == Spec => []StateAgreesWithFill
<1>1. RecordInv => StateAgreesWithFill
  BY DEF RecordInv, StateAgreesWithFill
<1>2. QED
  BY OrderStarts, OrderSteps, <1>1, PTL DEF Spec

(* The legal table only leads to higher ranks, except from PARTIAL to      *)
(* PARTIAL.                                                                *)
LEMMA LegalRank ==
  \A from \in {"NEW", "SUBMITTED", "ACK", "PARTIAL"} : \A to \in Legal[from] :
    Rank[to] > Rank[from] \/ (from = "PARTIAL" /\ to = "PARTIAL")
  BY DEF Legal, Rank

(* No event walks a record backwards, and each change of it is one         *)
(* revision.                                                               *)
THEOREM AlwaysForward == Spec => OnlyForward
<1>1. ASSUME RecordInv, [Next]_vars
      PROVE  [ \/ order' = order
               \/ /\ accepted'
                  /\ order'.revision = order.revision + 1
                  /\ \/ Rank[order'.state] > Rank[order.state]
                     \/ order.state = "PARTIAL" /\ order'.filledQty > order.filledQty ]_vars
  <2>1. CASE UNCHANGED vars
    BY <2>1
  <2>2. ASSUME NEW event \in Events, Receive(event), order' # order
        PROVE  /\ accepted'
               /\ order'.revision = order.revision + 1
               /\ \/ Rank[order'.state] > Rank[order.state]
                  \/ order.state = "PARTIAL" /\ order'.filledQty > order.filledQty
    <3>1. /\ order' = ApplyOrderEvent(order, event).order
          /\ accepted' = ApplyOrderEvent(order, event).ok
      BY <2>2 DEF Receive
    <3>2. event.type \in EventTypes /\ event.qty \in Int /\ order \in OrderRecord
      BY EventFields, <1>1 DEF RecordInv
    <3>3. /\ ApplyOrderEvent(order, event).ok
          /\ ~IsTerminal(order.state)
          /\ order'.revision = order.revision + 1
          /\ order'.state \in Legal[order.state]
          /\ IF event.type = "fill"
             THEN event.qty > 0 /\ order'.filledQty = order.filledQty + event.qty
             ELSE order'.state \notin {"PARTIAL", "FILLED"}
      BY <2>2, <3>1, <3>2, ApplyEffect
    <3>4. order.state \in OrderStates /\ order.filledQty \in Nat
      BY <3>2 DEF OrderRecord
    <3>5. order.state \in {"NEW", "SUBMITTED", "ACK", "PARTIAL"}
      BY <3>3, <3>4 DEF IsTerminal, TerminalStates, OrderStates
    <3>6. Rank[order'.state] > Rank[order.state] \/ (order.state = "PARTIAL" /\ order'.state = "PARTIAL")
      BY <3>3, <3>5, LegalRank
    <3>7. order.state = "PARTIAL" /\ order'.state = "PARTIAL" => order'.filledQty > order.filledQty
      BY <3>2, <3>3, <3>4
    <3>8. QED
      BY <3>1, <3>3, <3>6, <3>7
  <2>3. QED
    BY <1>1, <2>1, <2>2 DEF Next
<1>2. QED
  BY OrderStarts, OrderSteps, <1>1, PTL DEF Spec, OnlyForward

(* The eight-state record implements the two-state promise.                *)
THEOREM LifecycleKeepsPromise == Spec => KeepsPromise
<1>1. Init => Promise!Init
  BY BoundsAssumption DEF Init, NewOrder, Promise!Init, IsLive, IsTerminal, TerminalStates
<1>2. ASSUME RecordInv, [Next]_vars PROVE [Promise!Next]_Promise!vars
  <2>1. CASE UNCHANGED vars
    BY <2>1 DEF vars, Promise!vars, IsLive
  <2>2. CASE order' = order
    BY <2>2 DEF Promise!vars, IsLive
  <2>3. ASSUME NEW event \in Events, Receive(event), order' # order
        PROVE  [Promise!Next]_Promise!vars
    <3>1. order' = ApplyOrderEvent(order, event).order
      BY <2>3 DEF Receive
    <3>2. event.type \in EventTypes /\ event.qty \in Int /\ order \in OrderRecord
      BY EventFields, <1>2 DEF RecordInv
    <3>3. /\ ~IsTerminal(order.state)
          /\ order'.qty = order.qty
          /\ order'.state \in Legal[order.state]
          /\ IF event.type = "fill"
             THEN /\ event.qty > 0
                  /\ order'.filledQty = order.filledQty + event.qty
                  /\ order'.filledQty <= order.qty
                  /\ order'.state = IF order'.filledQty = order.qty THEN "FILLED" ELSE "PARTIAL"
             ELSE /\ order'.filledQty = order.filledQty
                  /\ order'.state \notin {"PARTIAL", "FILLED"}
      BY <2>3, <3>1, <3>2, ApplyEffect
    <3>4. order.filledQty \in Nat /\ order.qty \in Nat
      BY <3>2 DEF OrderRecord
    <3>5. CASE event.type = "fill"
      <4>1. order'.filledQty \in order.filledQty + 1 .. order.qty
        BY <3>2, <3>3, <3>4, <3>5
      <4>2. ~IsTerminal(order'.state) <=> order'.filledQty < order.qty
        BY <3>3, <3>4, <3>5, <4>1 DEF IsTerminal, TerminalStates
      <4>3. QED
        BY <3>3, <4>1, <4>2 DEF Promise!Next, Promise!Fill, IsLive
    <3>6. CASE event.type # "fill" /\ IsTerminal(order'.state)
      BY <3>3, <3>6 DEF Promise!Next, Promise!Close, IsLive
    <3>7. CASE event.type # "fill" /\ ~IsTerminal(order'.state)
      BY <3>3, <3>7 DEF Promise!vars, IsLive
    <3>8. QED
      BY <3>5, <3>6, <3>7
  <2>4. QED
    BY <1>2, <2>1, <2>2, <2>3 DEF Next
<1>3. QED
  BY OrderStarts, OrderSteps, <1>1, <1>2, PTL DEF Spec, KeepsPromise, Promise!Spec
-----------------------------------------------------------------------------
(* A behaviour stays in the part it starts in, and each of its steps is    *)
(* one of that part.                                                       *)
LEMMA OnePart ==
  ASSUME [PartsNext]_partsVars
  PROVE  /\ part' = part
         /\ part = "gate" => Gate!Next \/ UNCHANGED Gate!vars
         /\ part = "intake" => Intake!Next \/ UNCHANGED Intake!vars
         /\ part = "desk" => Desk!Next \/ UNCHANGED Desk!deskVars
         /\ part = "pace" => Pace!Next \/ UNCHANGED Pace!vars
         /\ part = "kill" => Kill!Next \/ UNCHANGED Kill!vars
         /\ part = "audit" => Audit!Next \/ UNCHANGED Audit!vars
         /\ part = "journal" => Journal!Next \/ UNCHANGED Journal!journalVars
         /\ part = "sim" => Sim!Next \/ UNCHANGED Sim!vars
         /\ part = "paper" => Paper!Next \/ UNCHANGED Paper!deskVars
         /\ part = "market" => Market!Next \/ UNCHANGED Market!marketVars
         /\ part = "page" => Page!Next \/ UNCHANGED Page!feedVars
<1>1. CASE UNCHANGED partsVars
  BY <1>1 DEF partsVars, slots, Gate!vars, Intake!vars, Desk!deskVars, Pace!vars, Kill!vars, Audit!vars, Journal!journalVars,
              Sim!vars, Paper!deskVars, Market!marketVars, Page!feedVars
<1>2. CASE PartsNext
  <2>1. part' = part
    BY <1>2 DEF PartsNext, In
  <2>2. part = "gate" => Gate!Next
    BY <1>2 DEF PartsNext, In, Pure
  <2>3. part = "intake" => Intake!Next
    BY <1>2 DEF PartsNext, In, Pure
  <2>4. part = "desk" => Desk!Next
    BY <1>2 DEF PartsNext, In, Pure
  <2>5. part = "pace" => Pace!Next
    BY <1>2 DEF PartsNext, In, Pure
  <2>6. part = "kill" => Kill!Next
    BY <1>2 DEF PartsNext, In, Pure
  <2>7. part = "audit" => Audit!Next
    BY <1>2 DEF PartsNext, In, Pure
  <2>8. part = "journal" => Journal!Next
    BY <1>2 DEF PartsNext, In, Pure
  <2>9. part = "paper" => Paper!Next
    BY <1>2 DEF PartsNext, In, Pure
  <2>10. part = "market" => Market!Next
    BY <1>2 DEF PartsNext, In, Pure
  <2>11. part = "sim" => Sim!Next
    BY <1>2 DEF PartsNext, In, Pure
  <2>12. part = "page" => Page!Next
    BY <1>2 DEF PartsNext, In, Pure
  <2>. QED BY <2>1, <2>2, <2>3, <2>4, <2>5, <2>6, <2>7, <2>8, <2>9, <2>10, <2>11, <2>12
<1>. QED BY <1>1, <1>2

LEMMA PartsStart ==
  ASSUME PartsInit
  PROVE  /\ part = "gate" => Gate!Init
         /\ part = "intake" => Intake!Init
         /\ part = "desk" => Desk!Init
         /\ part = "pace" => Pace!Init
         /\ part = "kill" => Kill!Init
         /\ part = "audit" => Audit!Init
         /\ part = "journal" => Journal!Init
         /\ part = "sim" => Sim!Init
         /\ part = "paper" => Paper!Init
         /\ part = "market" => Market!Init
         /\ part = "page" => Page!Init
  BY DEF PartsInit, Pure

GateKeeps == part = "gate" => Gate!GateInv

(* The risk gate holds: for every limit, symbol and price, no span of the  *)
(* window sees more orders than allowed, no new risk is accepted between   *)
(* the evaluation that found a loss limit reached and the operator's       *)
(* reset, and what is held keeps the caps as long as no order was checked  *)
(* over another in flight or over a position without a mark.               *)
THEOREM GateAlwaysHolds == PartsSpec => []GateHolds
<1>1. PartsInit => GateKeeps
  BY PartsStart, GateStarts DEF GateKeeps
<1>2. GateKeeps /\ [PartsNext]_partsVars => GateKeeps'
  BY OnePart, GateSteps DEF GateKeeps
<1>3. GateKeeps => GateHolds
  BY GateInvHolds DEF GateKeeps, GateHolds
<1>. QED
  BY <1>1, <1>2, <1>3, PTL DEF PartsSpec

IntakeHolds  == part = "intake" => Intake!IntakeInv
AuditHolds   == part = "audit" => Audit!AuditInv
JournalHolds == part = "journal" => Journal!JournalInv

(* What is stored, whatever the window and the tolerance are, however long *)
(* the log and the file are and however often they are damaged or cut off: *)
(* the verifier of external signals takes each signal at most once between *)
(* two restarts; a log that verifies is what was recorded, unless its      *)
(* newest entry was taken away; and the journal reads back what was        *)
(* appended, in order, but for what was cut off and its successor.         *)
THEOREM StoresAlwaysHold == PartsSpec => []StoresHold
<1>1. PartsInit => IntakeHolds /\ AuditHolds /\ JournalHolds
  BY PartsStart, IntakeStarts, AuditStarts, JournalStarts DEF IntakeHolds, AuditHolds, JournalHolds
<1>2. IntakeHolds /\ [PartsNext]_partsVars => IntakeHolds'
  BY OnePart, IntakeSteps, IntakeAssumption DEF IntakeHolds
<1>3. AuditHolds /\ [PartsNext]_partsVars => AuditHolds'
  BY OnePart, AuditSteps, AuditStays DEF AuditHolds
<1>4. JournalHolds /\ [PartsNext]_partsVars => JournalHolds'
  BY OnePart, JournalSteps, JournalStays DEF JournalHolds
<1>5. IntakeHolds /\ AuditHolds /\ JournalHolds => StoresHold
  <2>1. IntakeHolds => (part = "intake" => Intake!AcceptedOnce)
    BY DEF IntakeHolds, Intake!IntakeInv, Intake!AcceptedOnce
  <2>2. AuditHolds => (part = "audit" => Audit!DamageShows)
    BY AuditShows DEF AuditHolds
  <2>3. JournalHolds => (part = "journal" => Journal!JournalKeeps)
    BY JournalReads DEF JournalHolds
  <2>. QED BY <2>1, <2>2, <2>3 DEF StoresHold
<1>. QED
  BY <1>1, <1>2, <1>3, <1>4, <1>5, PTL DEF PartsSpec

DeskHolds == part = "desk" => Desk!DeskInv

(* One strategy is armed, the engine runs that one and follows its pairs,  *)
(* and the form shows what is stored, for any number of strategies,        *)
(* clients, starts that overlap and restarts of the server.                *)
THEOREM OneStrategyArmed == PartsSpec => []OneArmedStrategy
<1>1. PartsInit => DeskHolds
  BY PartsStart, DeskStarts0 DEF DeskHolds
<1>2. DeskHolds /\ [PartsNext]_partsVars => DeskHolds'
  BY OnePart, DeskSteps DEF DeskHolds
<1>3. DeskHolds => OneArmedStrategy
  <2> SUFFICES ASSUME Desk!DeskInv PROVE Desk!OneArmedStrategy
    BY DEF DeskHolds, OneArmedStrategy
  <2>1. \A i, j \in Desk!Stored : v1[i].enabled /\ v1[j].enabled => i = j
    BY DeskFields DEF Desk!OneArmed, Desk!ArmedIds, Desk!Stored
  <2>2. v4 = "RUNNING" /\ ~v8 => v3 = Desk!ArmedIn(v1)
    BY DeskFields DEF Desk!EngineFollows
  <2>3. v4 = "RUNNING" /\ ~v9 /\ v3 # None => v6 = v3
    BY DeskFields DEF Desk!FeedFollows
  <2>4. v7.saving = "no" /\ ~v7.dirty /\ ~v10 /\ v7.listed # {} /\ v7.draft.id # None =>
          v1[v7.draft.id] # None /\ v7.draft = Desk!Copy(v1, v7.draft.id)
    BY DEF Desk!DeskInv, Desk!FormFollows, Desk!IsStored
  <2>. QED BY <2>1, <2>2, <2>3, <2>4 DEF Desk!OneArmedStrategy
<1>. QED
  BY <1>1, <1>2, <1>3, PTL DEF PartsSpec

PaceHolds == part = "pace" => Pace!PaceInv
KillHolds == part = "kill" => Kill!KillInv

(* The requests of the execution layer: no category ever sends more than   *)
(* its bucket pays for and no rejection shortens a back-off, for every     *)
(* capacity, refill and ceiling; and a kill switch that has run to its end *)
(* leaves no order resting and no position open, with any symbols and      *)
(* holdings, unless the engine was at work meanwhile.                      *)
THEOREM RequestsAlwaysBehave == PartsSpec => []RequestsBehave
<1>1. PartsInit => PaceHolds /\ KillHolds
  BY PartsStart, PaceStarts, KillStarts DEF PaceHolds, KillHolds
<1>2. PaceHolds /\ [PartsNext]_partsVars => PaceHolds'
  BY OnePart, PaceSteps DEF PaceHolds
<1>3. KillHolds /\ [PartsNext]_partsVars => KillHolds'
  BY OnePart, KillSteps DEF KillHolds
<1>4. PaceHolds /\ KillHolds => RequestsBehave
  BY PaceInvPaces, KillInvFlattens DEF PaceHolds, KillHolds, RequestsBehave
<1>. QED
  BY <1>1, <1>2, <1>3, <1>4, PTL DEF PartsSpec

SimHolds == part = "sim" => Sim!SimInv

(* Every fill of the simulated broker is earned, for any orders, books,    *)
(* prices and latency: no earlier than the latency after its submission,   *)
(* at its own price only once the volume ahead of it has traded, once per  *)
(* order, and the engine refuses none of the events.                       *)
THEOREM FillsAlwaysEarned == PartsSpec => []FillsAreEarned
<1>1. PartsInit => SimHolds
  BY PartsStart, SimStarts DEF SimHolds
<1>2. SimHolds /\ [PartsNext]_partsVars => SimHolds'
  BY OnePart, SimSteps, SimStays DEF SimHolds
<1>3. SimHolds => FillsAreEarned
  BY DEF SimHolds, FillsAreEarned, Sim!SimInv
<1>. QED
  BY <1>1, <1>2, <1>3, PTL DEF PartsSpec

PaperHolds == part = "paper" => Paper!PaperInv

LEMMA PaperAlways == PartsSpec => []PaperHolds
<1>1. PartsInit => PaperHolds
  BY PartsStart, PaperStarts DEF PaperHolds
<1>2. PaperHolds /\ [PartsNext]_partsVars => PaperHolds'
  BY OnePart, PaperSteps, PaperStays DEF PaperHolds
<1>. QED
  BY <1>1, <1>2, PTL DEF PartsSpec

(* The paper account, for any pairs, prices, strategy, fee and limits: the *)
(* open positions stay under the global cap and each under its own, and    *)
(* the equity is the start plus what the rows of this life made.           *)
THEOREM BooksAlwaysBalance == PartsSpec => []BooksBalance
<1>1. PaperHolds => BooksBalance
  BY DEF PaperHolds, BooksBalance, Paper!PaperInv
<1>. QED
  BY <1>1, PaperAlways, PTL

(* No step of the paper account loosens a stop, changes a settled row or   *)
(* the equity of a day, or enters with the breaker tripped or the day's    *)
(* loss at the limit, but in a tick a losing manual close has overtaken.   *)
THEOREM DeskAlwaysPrudent == PartsSpec => Prudent
<1>1. PaperHolds /\ [PartsNext]_partsVars => [part = "paper" => Paper!Prudent]_partsVars
  <2>1. CASE UNCHANGED partsVars
    BY <2>1
  <2>2. CASE PartsNext
    <3>1. part = "paper" => Paper!Next
      BY <2>2 DEF PartsNext, In, Pure
    <3>. QED BY <3>1, PaperPrudent DEF PaperHolds
  <2>. QED BY <2>1, <2>2
<1>. QED
  BY <1>1, PaperAlways, PTL DEF PartsSpec, Prudent

MarketHolds == part = "market" => Market!MarketInv
PageHolds   == part = "page" => Page!FeedInv

(* What the dashboard and the readers of the market data service are       *)
(* shown, for any sizes of the logs, tokens, trades, symbols, books and    *)
(* prices.  The page shows no line and no trade twice and is fed under the *)
(* server's own token only.  Unless two of its connections raced: once     *)
(* nothing is on its way it shows the server's status, and its trades if   *)
(* none was published to nobody; its lines are in order; and it makes one  *)
(* attempt to connect at a time, none after a refused token.  A reader is  *)
(* given no price and no book from before a stop.                          *)
THEOREM ScreensAlwaysTrue == PartsSpec => []ScreensAreTrue
<1>1. PartsInit => MarketHolds /\ PageHolds
  BY PartsStart, MarketStarts, FeedStarts DEF MarketHolds, PageHolds
<1>2. MarketHolds /\ [PartsNext]_partsVars => MarketHolds'
  BY OnePart, MarketSteps, MarketStays DEF MarketHolds
<1>3. PageHolds /\ [PartsNext]_partsVars => PageHolds'
  BY OnePart, PageSteps, FeedStays DEF PageHolds, Page!feedVars
<1>4. MarketHolds /\ PageHolds => ScreensAreTrue
  <2>1. MarketHolds => (part = "market" => Market!FreshOrBlank)
    BY DEF MarketHolds, Market!MarketInv
  <2>2. PageHolds => (part = "page" => Page!FeedHolds)
    BY FeedHoldsOf DEF PageHolds
  <2>. QED BY <2>1, <2>2 DEF ScreensAreTrue
<1>. QED
  BY <1>1, <1>2, <1>3, <1>4, PTL DEF PartsSpec
-----------------------------------------------------------------------------
(* Type correctness. *)
LEMMA ApplyOk ==
  ASSUME NEW o, NEW event, event.type \in EventTypes
  PROVE  ApplyOrderEvent(o, event).ok \in BOOLEAN
<1>1. \A to, filled : Transition(o, to, filled).ok \in BOOLEAN
  BY DEF Transition, Refused
<1>2. \A qty : ApplyFill(o, qty).ok \in BOOLEAN
  BY <1>1 DEF ApplyFill, Refused
<1>3. Refused(o).ok \in BOOLEAN /\ Ignored(o).ok \in BOOLEAN
  BY DEF Refused, Ignored
<1>. QED BY <1>1, <1>2, <1>3 DEF ApplyOrderEvent, EventTypes

RecordTyped == RecordInv /\ accepted \in BOOLEAN

LEMMA RecordTypedStart == PartsInit => RecordTyped
<1>1. Init => RecordTyped
  BY OrderStarts DEF Init, RecordTyped
<1>2. ASSUME order = NewOrder("buy", 1), accepted = TRUE PROVE RecordTyped
  BY <1>2 DEF RecordTyped, RecordInv, NewOrder, OrderRecord, OrderStates, Sides, WellFormed
<1>. QED BY <1>1, <1>2 DEF PartsInit, OrderInit

LEMMA RecordTypedKept == RecordTyped /\ [PartsNext]_partsVars => RecordTyped'
<1> SUFFICES ASSUME RecordTyped, [PartsNext]_partsVars PROVE RecordTyped'
  OBVIOUS
<1>1. CASE UNCHANGED vars
  BY <1>1, OrderSteps DEF RecordTyped, vars
<1>2. CASE Next
  <2>1. RecordInv'
    BY <1>2, OrderSteps DEF RecordTyped
  <2>2. accepted' \in BOOLEAN
    <3>1. PICK event \in Events : accepted' = ApplyOrderEvent(order, event).ok
      BY <1>2 DEF Next, Receive
    <3>. QED BY <3>1, EventFields, ApplyOk
  <2>. QED BY <2>1, <2>2 DEF RecordTyped
<1>3. Next \/ UNCHANGED vars
  BY DEF PartsNext, partsVars, OrderNext, In, vars
<1>. QED BY <1>1, <1>2, <1>3

GateTyped   == part = "gate" => Gate!GateInv /\ GateBounds
IntakeTypes == part = "intake" => Intake!TypeOk
PaceTypes   == part = "pace" => Pace!PaceInv /\ PaceBounds
KillTypes   == part = "kill" => Kill!KillInv /\ KillBounds
DeskTypes   == part = "desk" => Desk!DeskInv /\ DeskBounds
OthersTyped == AuditHolds /\ JournalHolds /\ SimHolds /\ PaperHolds /\ MarketHolds /\ PageHolds

(* Every variable has its type, for every value of the constants: the      *)
(* order record, and the slots of the component that runs.                 *)
THEOREM PartsTyped == PartsSpec => []PartsTypeOk
<1> DEFINE Typed == /\ RecordTyped /\ GateTyped /\ IntakeTypes /\ PaceTypes /\ KillTypes /\ DeskTypes
                    /\ OthersTyped
<1>1. PartsInit => Typed
  BY PartsStart, RecordTypedStart, GateStarts, GateBoundsStart, IntakeTyped, PaceStarts, PaceBoundsStart,
     KillStarts, KillBoundsStart, DeskStarts0, DeskBoundsStart, AuditStarts, JournalStarts, SimStarts,
     PaperStarts, MarketStarts, FeedStarts
  DEF GateTyped, IntakeTypes, PaceTypes, KillTypes, DeskTypes, OthersTyped,
      AuditHolds, JournalHolds, SimHolds, PaperHolds, MarketHolds, PageHolds
<1>2. GateTyped /\ [PartsNext]_partsVars => GateTyped'
  BY OnePart, GateSteps, GateBoundsKept DEF GateTyped
<1>3. IntakeTypes /\ [PartsNext]_partsVars => IntakeTypes'
  BY OnePart, IntakeTypesKept DEF IntakeTypes
<1>4. PaceTypes /\ [PartsNext]_partsVars => PaceTypes'
  BY OnePart, PaceSteps, PaceBoundsKept DEF PaceTypes
<1>5. KillTypes /\ [PartsNext]_partsVars => KillTypes'
  BY OnePart, KillSteps, KillBoundsKept DEF KillTypes
<1>6. DeskTypes /\ [PartsNext]_partsVars => DeskTypes'
  BY OnePart, DeskSteps, DeskBoundsKept DEF DeskTypes
<1>7. OthersTyped /\ [PartsNext]_partsVars => OthersTyped'
  <2> SUFFICES ASSUME OthersTyped, [PartsNext]_partsVars PROVE OthersTyped'
    OBVIOUS
  <2>1. AuditHolds'
    BY OnePart, AuditSteps, AuditStays DEF OthersTyped, AuditHolds
  <2>2. JournalHolds'
    BY OnePart, JournalSteps, JournalStays DEF OthersTyped, JournalHolds
  <2>3. SimHolds'
    BY OnePart, SimSteps, SimStays DEF OthersTyped, SimHolds
  <2>4. PaperHolds'
    BY OnePart, PaperSteps, PaperStays DEF OthersTyped, PaperHolds
  <2>5. MarketHolds'
    BY OnePart, MarketSteps, MarketStays DEF OthersTyped, MarketHolds
  <2>6. PageHolds'
    BY OnePart, PageSteps, FeedStays DEF OthersTyped, PageHolds, Page!feedVars
  <2>. QED BY <2>1, <2>2, <2>3, <2>4, <2>5, <2>6 DEF OthersTyped
<1>8. Typed => PartsTypeOk
  <2> SUFFICES ASSUME Typed PROVE PartsTypeOk
    OBVIOUS
  <2>1. TypeOk
    BY DEF RecordTyped, RecordInv, TypeOk
  <2>2. part = "gate" => Gate!TypeOk
    BY GateTypeOk DEF GateTyped, Gate!GateInv, Gate!GateTypes, Gate!BreakerInv
  <2>3. part = "intake" => Intake!TypeOk
    BY DEF IntakeTypes
  <2>4. part = "pace" => Pace!TypeOk
    BY PaceTyped DEF PaceTypes
  <2>5. part = "kill" => Kill!TypeOk
    BY KillTyped DEF KillTypes
  <2>6. part = "desk" => Desk!TypeOk
    BY DeskTyped DEF DeskTypes
  <2>7. part = "audit" => Audit!TypeOk
    BY DEF OthersTyped, AuditHolds, Audit!AuditInv
  <2>8. part = "journal" => Journal!TypeOk
    BY DEF OthersTyped, JournalHolds, Journal!JournalInv
  <2>9. part = "sim" => Sim!TypeOk
    BY DEF OthersTyped, SimHolds, Sim!SimInv
  <2>10. part = "paper" => Paper!TypeOk
    BY DEF OthersTyped, PaperHolds, Paper!PaperInv
  <2>11. part = "market" => Market!TypeOk
    BY DEF OthersTyped, MarketHolds, Market!MarketInv
  <2>12. part = "page" => Page!TypeOk
    BY DEF OthersTyped, PageHolds, Page!FeedInv
  <2>. QED BY <2>1, <2>2, <2>3, <2>4, <2>5, <2>6, <2>7, <2>8, <2>9, <2>10, <2>11, <2>12 DEF PartsTypeOk
<1>. QED
  BY <1>1, <1>2, <1>3, <1>4, <1>5, <1>6, <1>7, <1>8, RecordTypedKept, PTL DEF PartsSpec
=============================================================================
