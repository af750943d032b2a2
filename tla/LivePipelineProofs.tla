------------------------- MODULE LivePipelineProofs -------------------------
(***************************************************************************)
(* The live pipeline, for every value of the constants.  First its types.  *)
(*                                                                         *)
(* Then why the engine's book never runs ahead of the exchange, and why    *)
(* what it holds can be read back from the journal: IInv is inductive.     *)
(*                                                                         *)
(* The argument is about six values only: the exchange's fills, the book's *)
(* fills, the stream, the outbox, the journal and the replay position.     *)
(* `Flow' says what IInv says of them, as a predicate on values, and each  *)
(* kind of change has a lemma of its own; the actions then only have to be *)
(* recognised as one of these changes.                                     *)
(*                                                                         *)
(* Then what the engine's book answers for, in every life of the process   *)
(* and up to the first crash.                                              *)
(*                                                                         *)
(* Last, for what reasons its positions come apart from the exchange's.    *)
(* What an order comes to (Due) is what the book holds of it and what is   *)
(* under way; it grows with the exchange's fill and by nothing else.       *)
(***************************************************************************)
EXTENDS MCLivePipeline, Lemmas

(* Facts about the data. *)
LEMMA IdParts ==
  ASSUME NEW id \in Ids
  PROVE  id[1] \in Symbols
  BY DEF Ids

LEMMA SignedInt ==
  ASSUME NEW side, NEW qty \in Int
  PROVE  Signed(side, qty) \in Int
  BY DEF Signed

LEMMA PlainEvent ==
  ASSUME NEW type \in EventTypes
  PROVE  Plain(type) \in Events
  BY DEF Plain, Events

LEMMA EventEntryType ==
  ASSUME NEW id \in Ids, NEW event \in Events
  PROVE  EventEntry(id, event) \in EventEntries /\ EventEntry(id, event) \in Entries
  BY DEF EventEntry, EventEntries, Entries

LEMMA EntryFields ==
  ASSUME NEW e \in Entries
  PROVE  /\ e.t \in {"open", "event", "reconciled"}
         /\ e.t = "open" => e.id \in Ids /\ e.side \in Sides /\ e.qty \in Nat \ {0}
         /\ e.t = "event" => e.id \in Ids /\ e.event \in Events
  BY DEF Entries, OpenEntries, EventEntries

LEMMA EventFields ==
  ASSUME NEW event \in Events
  PROVE  event.type \in EventTypes /\ event.qty \in Nat /\ event.qty \in Int /\ event.cum \in Nat
  BY DEF Events

LEMMA NewOrderType ==
  ASSUME NEW side \in Sides, NEW qty \in Nat \ {0}
  PROVE  NewOrder(side, qty) \in OrderRecord /\ WellFormed(NewOrder(side, qty))
  BY DEF NewOrder, OrderRecord, OrderStates, WellFormed

LEMMA TrackedType ==
  ASSUME BookTypes, NEW id \in Ids, orders[id] # None
  PROVE  orders[id] \in OrderRecord
  BY DEF BookTypes

LEMMA IntentFields ==
  ASSUME NEW intent \in Intents
  PROVE  /\ intent.id \in Ids /\ intent.side \in Sides /\ intent.qty \in Qtys
         /\ intent.qty \in Nat \ {0}
  BY QtysAssumption DEF Intents

(* The record processIntent stores. *)
LEMMA SubmittedType ==
  ASSUME NEW intent \in Intents
  PROVE  /\ Submitted(intent) \in OrderRecord
         /\ WellFormed(Submitted(intent))
         /\ Submitted(intent).filledQty = 0
<1>1. NewOrder(intent.side, intent.qty) \in OrderRecord /\ WellFormed(NewOrder(intent.side, intent.qty))
  BY IntentFields, NewOrderType
<1>2. Plain("submit").type = "submit" /\ Plain("submit").type \in EventTypes /\ Plain("submit").qty \in Int
  BY DEF Plain, EventTypes
<1>3. Submitted(intent) \in OrderRecord /\ WellFormed(Submitted(intent))
  BY <1>1, <1>2, ApplyType, ApplyWellFormed DEF Submitted
<1>4. NewOrder(intent.side, intent.qty).filledQty = 0
  BY DEF NewOrder
<1>5. QED
  BY <1>1, <1>2, <1>3, <1>4, ApplyEffect DEF Submitted

(* Head and tail of a nonempty queue.                                      *)
LEMMA QueueParts ==
  ASSUME NEW S, NEW q \in Seq(S), q # <<>>
  PROVE  /\ Head(q) \in S /\ Tail(q) \in Seq(S)
         /\ Head(q) = q[1] /\ Len(q) >= 1 /\ Len(Tail(q)) = Len(q) - 1
         /\ \A i \in 1 .. Len(q) - 1 : Tail(q)[i] = q[i + 1]
  OBVIOUS

LEMMA AppendParts ==
  ASSUME NEW S, NEW q \in Seq(S), NEW e \in S
  PROVE  /\ Append(q, e) \in Seq(S)
         /\ Len(Append(q, e)) = Len(q) + 1
         /\ Append(q, e)[Len(q) + 1] = e
         /\ \A i \in 1 .. Len(q) : Append(q, e)[i] = q[i]
  OBVIOUS

LEMMA PublishType ==
  ASSUME NEW S, NEW q \in Seq(S), NEW e \in S
  PROVE  Publish(q, e) \in Seq(S)
  BY AppendParts DEF Publish
-----------------------------------------------------------------------------
(* A group of variables that a step leaves alone keeps its types.          *)
LEMMA VenueKept == VenueTypes /\ UNCHANGED venueVars => VenueTypes'
  BY DEF VenueTypes, venueVars
LEMMA BookKept == BookTypes /\ UNCHANGED bookVars => BookTypes'
  BY DEF BookTypes, bookVars
LEMMA LoopKept == LoopTypes /\ UNCHANGED loopVars => LoopTypes'
  BY DEF LoopTypes, loopVars
LEMMA PipeKept == PipeTypes /\ UNCHANGED pipeVars => PipeTypes'
  BY DEF PipeTypes, pipeVars
LEMMA LogKept == LogTypes /\ UNCHANGED logVars => LogTypes'
  BY DEF LogTypes, logVars
LEMMA CounterKept == CounterTypes /\ UNCHANGED counters => CounterTypes'
  BY DEF CounterTypes, counters

LEMMA Bounds == MaxSeq \in Nat /\ BatchMax \in Nat
  BY BoundsAssumption

LEMMA FlatType == Flat \in [Symbols -> Int]
  BY DEF Flat

LEMMA IdleReconType == IdleRecon \in Pulls
  BY FlatType DEF IdleRecon, Pulls

LEMMA OvertakesType ==
  ASSUME PipeTypes, NEW s \in Symbols, Overtakes(s), UNCHANGED <<proc, cursor, canTrade, streamed>>
  PROVE  PipeTypes'
<1>1. recon' \in Pulls
  BY DEF Overtakes, PipeTypes, Pulls
<1>. QED
  BY <1>1 DEF PipeTypes

LEMMA InitTypes == Init => TypeOk
<1> SUFFICES ASSUME Init PROVE TypeOk
  OBVIOUS
<1> USE FlatType DEF Init
<1>1. VenueTypes
  <2>1. updates \in Seq([id : Ids, status : Statuses]) /\ execs \in Seq(EventEntries)
    OBVIOUS
  <2>2. venueOrders \in [Ids -> VenueOrder \cup {None}]
    OBVIOUS
  <2>3. wire \in SUBSET Requests
    OBVIOUS
  <2>4. QED
    BY <2>1, <2>2, <2>3 DEF VenueTypes
<1>2. BookTypes
  BY DEF BookTypes
<1>3. LoopTypes
  <2>1. pending \in Seq(Intents)
    OBVIOUS
  <2>2. intentSeq \in 0 .. MaxSeq
    BY Bounds
  <2>3. QED
    BY <2>1, <2>2 DEF LoopTypes
<1>4. PipeTypes
  <2>1. recon \in Pulls
    BY IdleReconType
  <2>2. cursor \in Nat \ {0}
    OBVIOUS
  <2>3. streamed \in SUBSET Symbols
    OBVIOUS
  <2>4. proc \in {"down", "replay", "cold", "up"} /\ canTrade \in BOOLEAN
    OBVIOUS
  <2>5. QED
    BY <2>1, <2>2, <2>3, <2>4 DEF PipeTypes
<1>5. LogTypes
  BY DEF LogTypes
<1>6. CounterTypes
  BY DEF CounterTypes
<1>7. QED
  BY <1>1, <1>2, <1>3, <1>4, <1>5, <1>6 DEF TypeOk
-----------------------------------------------------------------------------
(* The engine's own steps. *)
LEMMA EngineTypes == TypeOk /\ EngineStep => TypeOk'
<1> SUFFICES ASSUME TypeOk, EngineStep PROVE TypeOk'
  OBVIOUS
<1> USE VenueKept, BookKept, LoopKept, PipeKept, LogKept, CounterKept
<1>1. CASE HandleEvent
  <2>1. LoopTypes'
    BY <1>1 DEF HandleEvent, TypeOk, LoopTypes
  <2>2. QED
    BY <1>1, <2>1 DEF HandleEvent, TypeOk
<1>2. CASE DrainOne
  <2> DEFINE id     == Head(outbox).id
             event  == Head(outbox).event
             result == ApplyOrderEvent(orders[id], event)
  <2>1. id \in Ids /\ event \in Events /\ Tail(outbox) \in Seq(EventEntries)
    <3>1. outbox \in Seq(EventEntries) /\ outbox # <<>>
      BY <1>2 DEF DrainOne, TypeOk, LogTypes
    <3>2. Head(outbox) \in EventEntries /\ Tail(outbox) \in Seq(EventEntries)
      BY <3>1, QueueParts
    <3>3. QED
      BY <3>2 DEF EventEntries
  <2>2. ASSUME orders[id] # None, result.ok PROVE BookTypes'
    <3>1. orders[id] \in OrderRecord
      BY <2>1, <2>2, TrackedType DEF TypeOk
    <3>2. result.order \in OrderRecord
      BY <2>1, <3>1, ApplyType, EventFields
    <3>3. Signed(orders[id].side, event.qty) \in Int
      BY <2>1, SignedInt, EventFields
    <3>4. id[1] \in Symbols
      BY <2>1, IdParts
    <3>5. /\ orders' = [orders EXCEPT ![id] = result.order]
          /\ positions' = IF event.type = "fill"
                          THEN [positions EXCEPT ![id[1]] =
                                  @ + Signed(orders[id].side, event.qty)]
                          ELSE positions
          /\ corrected' = corrected
      BY <1>2, <2>2 DEF DrainOne
    <3> HIDE DEF id, event, result
    <3>6. orders' \in [Ids -> OrderRecord \cup {None}]
      BY <2>1, <3>2, <3>5 DEF TypeOk, BookTypes
    <3>7. positions' \in [Symbols -> Int]
      BY <3>3, <3>4, <3>5 DEF TypeOk, BookTypes
    <3>8. QED
      BY <3>5, <3>6, <3>7 DEF TypeOk, BookTypes
  <2>3. ASSUME ~(orders[id] # None /\ result.ok) PROVE BookTypes'
    BY <1>2, <2>3 DEF DrainOne, TypeOk, BookTypes
  <2>4. BookTypes'
    BY <2>2, <2>3
  <2>5. LogTypes'
    BY <1>2, <2>1 DEF DrainOne, TypeOk, LogTypes
  <2>6. QED
    BY <1>2, <2>4, <2>5 DEF DrainOne, TypeOk
<1>3. CASE RunStrategy
  <2>1. PICK batch \in Batches :
          /\ intentSeq + Len(batch) <= MaxSeq
          /\ pending' = batch
          /\ intentSeq' = intentSeq + Len(batch)
    BY <1>3 DEF RunStrategy
  <2>2. PICK n \in 0 .. BatchMax :
          batch \in {[i \in 1 .. n |-> [id |-> <<ask[i][1], intentSeq + i - 1>>,
                                        side |-> ask[i][2], qty |-> ask[i][3]]] :
                        ask \in [1 .. n -> Symbols \X Sides \X Qtys]}
    BY ZenonT(30) DEF Batches
  <2>9. PICK ask \in [1 .. n -> Symbols \X Sides \X Qtys] :
          batch = [i \in 1 .. n |-> [id |-> <<ask[i][1], intentSeq + i - 1>>,
                                     side |-> ask[i][2], qty |-> ask[i][3]]]
    BY <2>2
  <2>3. n \in Nat /\ intentSeq \in Nat /\ MaxSeq \in Nat /\ intentSeq + n <= MaxSeq /\ Len(batch) = n
    BY <2>1, <2>9, Bounds DEF TypeOk, LoopTypes
  <2>4. ASSUME NEW i \in 1 .. n
        PROVE  [id |-> <<ask[i][1], intentSeq + i - 1>>,
                side |-> ask[i][2], qty |-> ask[i][3]] \in Intents
    <3>1. ask[i][1] \in Symbols /\ ask[i][2] \in Sides /\ ask[i][3] \in Qtys
      BY <2>9
    <3>2. <<ask[i][1], intentSeq + i - 1>> \in Ids
      BY <2>3, <3>1 DEF Ids
    <3>3. QED
      BY <3>1, <3>2 DEF Intents
  <2>5. batch \in Seq(Intents)
    BY <2>9, <2>3, <2>4
  <2>6. LoopTypes'
    BY <1>3, <2>1, <2>3, <2>5 DEF RunStrategy, TypeOk, LoopTypes
  <2>7. QED
    BY <1>3, <2>6 DEF RunStrategy, TypeOk
<1>4. CASE Veto
  <2>1. LoopTypes'
    BY <1>4, QueueParts DEF Veto, TypeOk, LoopTypes
  <2>2. QED
    BY <1>4, <2>1 DEF Veto, TypeOk
<1>5. CASE BeginSubmit
  <2> DEFINE intent  == Head(pending)
             request == [id |-> intent.id, side |-> intent.side, qty |-> intent.qty, life |-> crashes]
  <2>1. intent \in Intents /\ Tail(pending) \in Seq(Intents)
    BY <1>5, QueueParts DEF BeginSubmit, TypeOk, LoopTypes
  <2>2. request \in Requests
    BY <2>1, IntentFields DEF Requests, TypeOk, CounterTypes
  <2>3. request # None
    BY <2>2, NoneAssumption
  <2>4. Submitted(intent) \in OrderRecord
    BY <2>1, SubmittedType
  <2>5. /\ orders' = [orders EXCEPT ![intent.id] = Submitted(intent)]
        /\ wire' = wire \cup {request} /\ call' = request
        /\ pending' = Tail(pending) /\ answer' = "none" /\ pc' = "await"
    BY <1>5 DEF BeginSubmit
  <2> HIDE DEF intent, request
  <2>6. VenueTypes'
    BY <1>5, <2>2, <2>5 DEF BeginSubmit, TypeOk, VenueTypes
  <2>7. BookTypes'
    BY <1>5, <2>4, <2>5 DEF BeginSubmit, TypeOk, BookTypes
  <2>8. LoopTypes'
    BY <1>5, <2>1, <2>2, <2>3, <2>5 DEF BeginSubmit, TypeOk, LoopTypes
  <2>9. QED
    BY <1>5, <2>6, <2>7, <2>8 DEF BeginSubmit, TypeOk
<1>6. ASSUME NEW accepted \in BOOLEAN, AfterSubmit(accepted) PROVE TypeOk'
  <2> DEFINE id     == call.id
             result == ApplyOrderEvent(orders[id], Plain("reject"))
  <2>1. id \in Ids
    BY <1>6 DEF AfterSubmit, TypeOk, LoopTypes, Requests
  <2>2. ASSUME orders[id] # None PROVE BookTypes'
    <3>1. orders[id] \in OrderRecord
      BY <2>1, <2>2, TrackedType DEF TypeOk
    <3>2. Plain("reject").type \in EventTypes /\ Plain("reject").qty \in Int
      BY DEF Plain, EventTypes
    <3>3. result.order \in OrderRecord
      BY <3>1, <3>2, ApplyType
    <3>4. orders' = [orders EXCEPT ![id] = result.order] \/ orders' = orders
      BY <1>6 DEF AfterSubmit
    <3> HIDE DEF id, result
    <3>5. QED
      BY <1>6, <2>1, <3>3, <3>4 DEF AfterSubmit, TypeOk, BookTypes
  <2>3. ASSUME orders[id] = None PROVE BookTypes'
    BY <1>6, <2>3 DEF AfterSubmit, TypeOk, BookTypes
  <2>4. BookTypes'
    BY <2>2, <2>3
  <2>5. VenueTypes'
    BY <1>6 DEF AfterSubmit, TypeOk, VenueTypes
  <2>6. LoopTypes'
    BY <1>6 DEF AfterSubmit, TypeOk, LoopTypes
  <2>7. QED
    BY <1>6, <2>4, <2>5, <2>6 DEF AfterSubmit, TypeOk
<1>7. CASE HandleDone
  <2>1. LoopTypes'
    BY <1>7 DEF HandleDone, TypeOk, LoopTypes
  <2>2. QED
    BY <1>7, <2>1 DEF HandleDone, TypeOk
<1>8. QED
  BY <1>1, <1>2, <1>3, <1>4, <1>5, <1>6, <1>7 DEF EngineStep, SubmitReturns, SubmitFails
-----------------------------------------------------------------------------
(* The steps of the exchange and the network. *)
LEMMA VenueStepTypes == TypeOk /\ VenueStep => TypeOk'
<1> SUFFICES ASSUME TypeOk, VenueStep PROVE TypeOk'
  OBVIOUS
<1> USE VenueKept, BookKept, LoopKept, PipeKept, LogKept, CounterKept
<1>1. ASSUME NEW request \in wire, VenueAccepts(request) PROVE TypeOk'
  <2> DEFINE order   == [side |-> request.side, qty |-> request.qty, filled |-> 0, live |-> TRUE]
             message == [id |-> request.id, status |-> "New"]
  <2>1. request \in Requests
    BY DEF TypeOk, VenueTypes
  <2>2. order \in VenueOrder /\ message \in [id : Ids, status : Statuses]
    BY <2>1 DEF Requests, VenueOrder, Statuses
  <2> HIDE DEF order, message
  <2>3. updates' \in Seq([id : Ids, status : Statuses])
    BY <1>1, <2>2, PublishType DEF VenueAccepts, TypeOk, VenueTypes, message
  <2>4. venueOrders' \in [Ids -> VenueOrder \cup {None}]
    BY <1>1, <2>2 DEF VenueAccepts, TypeOk, VenueTypes, order
  <2>5. VenueTypes'
    BY <1>1, <2>3, <2>4 DEF VenueAccepts, Reply, TypeOk, VenueTypes
  <2>6. QED
    BY <1>1, <2>5 DEF VenueAccepts, TypeOk
<1>2. ASSUME NEW request \in wire, VenueRefuses(request) PROVE TypeOk'
  <2>1. VenueTypes'
    BY <1>2 DEF VenueRefuses, Reply, TypeOk, VenueTypes
  <2>2. QED
    BY <1>2, <2>1 DEF VenueRefuses, TypeOk
<1>3. ASSUME NEW request \in wire, RequestLost(request) PROVE TypeOk'
  <2>1. VenueTypes'
    BY <1>3 DEF RequestLost, TypeOk, VenueTypes
  <2>2. QED
    BY <1>3, <2>1 DEF RequestLost, TypeOk
<1>4. ASSUME NEW id \in Ids, VenueFills(id) PROVE TypeOk'
  <2> DEFINE order == venueOrders[id]
  <2>1. order \in VenueOrder /\ order.qty \in Nat /\ order.filled \in Nat /\ order.side \in Sides
    BY <1>4, QtysAssumption DEF VenueFills, TypeOk, VenueTypes, VenueOrder
  <2>2. PICK q \in 1 .. order.qty - order.filled :
          LET cum  == order.filled + q
              done == cum = order.qty
          IN  /\ venueOrders' = [venueOrders EXCEPT ![id] = [@ EXCEPT !.filled = cum, !.live = ~done]]
              /\ venuePos' = [venuePos EXCEPT ![id[1]] = @ + Signed(order.side, q)]
              /\ execs' = Publish(execs, EventEntry(id, FillOf(q, cum)))
              /\ updates' = Publish(updates,
                   [id |-> id, status |-> IF done THEN "Filled" ELSE "PartiallyFilled"])
    BY <1>4 DEF VenueFills
  <2> DEFINE cum  == order.filled + q
             done == cum = order.qty
  <2>3. q \in Nat /\ cum \in Nat /\ done \in BOOLEAN
    BY <2>1
  <2>4. venueOrders' \in [Ids -> VenueOrder \cup {None}]
    <3>1. venueOrders' = [venueOrders EXCEPT ![id] = [order EXCEPT !.filled = cum, !.live = ~done]]
      BY <2>2
    <3>2. [order EXCEPT !.filled = cum, !.live = ~done] \in VenueOrder
      BY <2>1, <2>3 DEF VenueOrder
    <3>3. QED
      BY <3>1, <3>2 DEF TypeOk, VenueTypes
  <2>5. venuePos' \in [Symbols -> Int]
    <3>1. Signed(order.side, q) \in Int /\ id[1] \in Symbols
      BY <2>3, SignedInt, IdParts
    <3>2. QED
      BY <2>2, <3>1 DEF TypeOk, VenueTypes
  <2>6. execs' \in Seq(EventEntries)
    <3>1. FillOf(q, cum) \in Events
      BY <2>3 DEF FillOf, Events, EventTypes
    <3>2. QED
      BY <2>2, <3>1, EventEntryType, PublishType DEF TypeOk, VenueTypes
  <2>7. updates' \in Seq([id : Ids, status : Statuses])
    <3>1. [id |-> id, status |-> IF done THEN "Filled" ELSE "PartiallyFilled"]
            \in [id : Ids, status : Statuses]
      BY DEF Statuses
    <3>2. QED
      BY <2>2, <3>1, PublishType DEF TypeOk, VenueTypes
  <2>8. VenueTypes'
    BY <1>4, <2>4, <2>5, <2>6, <2>7 DEF VenueFills, TypeOk, VenueTypes
  <2>9. CounterTypes'
    BY <1>4 DEF VenueFills, TypeOk, CounterTypes
  <2>10. PipeTypes'
    BY <1>4, IdParts, OvertakesType DEF VenueFills, TypeOk
  <2>11. QED
    BY <1>4, <2>8, <2>9, <2>10 DEF VenueFills, TypeOk
<1>5. ASSUME NEW id \in Ids, VenueCloses(id) PROVE TypeOk'
  <2> DEFINE order == venueOrders[id]
  <2>1. order \in VenueOrder
    BY <1>5 DEF VenueCloses, TypeOk, VenueTypes
  <2>2. venueOrders' = [venueOrders EXCEPT ![id] = [order EXCEPT !.live = FALSE]]
    BY <1>5 DEF VenueCloses
  <2>3. [order EXCEPT !.live = FALSE] \in VenueOrder
    BY <2>1 DEF VenueOrder
  <2>4. venueOrders' \in [Ids -> VenueOrder \cup {None}]
    BY <2>2, <2>3 DEF TypeOk, VenueTypes
  <2>5. PICK status \in {"Cancelled", "Rejected"} :
          updates' = Publish(updates, [id |-> id, status |-> status])
    BY <1>5 DEF VenueCloses
  <2>6. [id |-> id, status |-> status] \in [id : Ids, status : Statuses]
    BY DEF Statuses
  <2>7. updates' \in Seq([id : Ids, status : Statuses])
    BY <2>5, <2>6, PublishType DEF TypeOk, VenueTypes
  <2>8. VenueTypes'
    BY <1>5, <2>4, <2>7 DEF VenueCloses, TypeOk, VenueTypes
  <2>9. QED
    BY <1>5, <2>8 DEF VenueCloses, TypeOk
<1>6. ASSUME NEW s \in Symbols, VenueMoves(s) PROVE TypeOk'
  <2>1. VenueTypes'
    <3>1. PICK d \in {-1, 1} : venuePos' = [venuePos EXCEPT ![s] = @ + d]
      BY <1>6 DEF VenueMoves
    <3>2. venuePos' \in [Symbols -> Int]
      BY <3>1 DEF TypeOk, VenueTypes
    <3>3. QED
      BY <1>6, <3>2 DEF VenueMoves, TypeOk, VenueTypes
  <2>2. CounterTypes'
    BY <1>6 DEF VenueMoves, TypeOk, CounterTypes
  <2>3. PipeTypes'
    BY <1>6, OvertakesType DEF VenueMoves, TypeOk
  <2>4. QED
    BY <1>6, <2>1, <2>2, <2>3 DEF VenueMoves, TypeOk
<1>7. CASE Connect
  <2>1. VenueTypes'
    BY <1>7 DEF Connect, TypeOk, VenueTypes
  <2>2. QED
    BY <1>7, <2>1 DEF Connect, TypeOk
<1>8. CASE Disconnect
  <2>1. VenueTypes'
    <3>1. updates' \in Seq([id : Ids, status : Statuses]) /\ execs' \in Seq(EventEntries)
      BY <1>8 DEF Disconnect
    <3>2. QED
      BY <1>8, <3>1 DEF Disconnect, TypeOk, VenueTypes
  <2>2. CounterTypes'
    <3>1. ASSUME NEW i \in DOMAIN execs PROVE execs[i].id \in Ids
      <4>1. execs[i] \in EventEntries
        BY DEF TypeOk, VenueTypes
      <4>2. QED
        BY <4>1 DEF EventEntries
    <3>2. QED
      BY <1>8, <3>1 DEF Disconnect, TypeOk, CounterTypes
  <2>3. QED
    BY <1>8, <2>1, <2>2 DEF Disconnect, TypeOk
<1>9. QED
  BY <1>1, <1>2, <1>3, <1>4, <1>5, <1>6, <1>7, <1>8 DEF VenueStep
-----------------------------------------------------------------------------
(* The private stream's callbacks. *)
LEMMA OpenEntryType ==
  ASSUME BookTypes, NEW id \in Ids, orders[id] # None
  PROVE  OpenEntry(id) \in Entries
<1>1. orders[id].side \in Sides /\ orders[id].qty \in Nat \ {0}
  BY TrackedType DEF OrderRecord
<1>2. OpenEntry(id) \in OpenEntries
  BY <1>1 DEF OpenEntry, OpenEntries
<1>3. QED
  BY <1>2 DEF Entries

LEMMA AccountEventTypes ==
  ASSUME BookTypes, LogTypes, NEW id \in Ids, NEW event \in Events,
         HandleAccountEvent(id, event)
  PROVE  LogTypes'
<1> DEFINE opens == orders[id] # None /\ id \notin journaledOpens
           base  == IF opens THEN Append(journal, OpenEntry(id)) ELSE journal
<1>1. base \in Seq(Entries)
  BY OpenEntryType, AppendParts DEF LogTypes
<1>2. EventEntry(id, event) \in EventEntries /\ EventEntry(id, event) \in Entries
  BY EventEntryType
<1>3. /\ journal' = Append(base, EventEntry(id, event))
      /\ journaledOpens' = IF opens THEN journaledOpens \cup {id} ELSE journaledOpens
      /\ outbox' = Append(outbox, EventEntry(id, event))
  BY DEF HandleAccountEvent
<1> HIDE DEF opens, base
<1>4. journal' \in Seq(Entries)
  BY <1>1, <1>2, <1>3, AppendParts
<1>5. outbox' \in Seq(EventEntries)
  BY <1>2, <1>3, AppendParts DEF LogTypes
<1>6. QED
  BY <1>3, <1>4, <1>5 DEF LogTypes

LEMMA StreamTypes == TypeOk /\ StreamStep => TypeOk'
<1> SUFFICES ASSUME TypeOk, StreamStep PROVE TypeOk'
  OBVIOUS
<1> USE VenueKept, BookKept, LoopKept, PipeKept, LogKept, CounterKept
<1>1. CASE DeliverUpdate
  <2> DEFINE id   == Head(updates).id
             type == UpdateEvent(Head(updates).status)
  <2>1. updates # <<>> /\ updates \in Seq([id : Ids, status : Statuses])
    BY <1>1 DEF DeliverUpdate, TypeOk, VenueTypes
  <2>2. Head(updates) \in [id : Ids, status : Statuses] /\ Tail(updates) \in Seq([id : Ids, status : Statuses])
    BY <2>1, QueueParts
  <2>3. type = "none" \/ type \in EventTypes
    BY <2>2 DEF Statuses, UpdateEvent, EventTypes
  <2>4. LogTypes'
    <3>1. CASE type = "none"
      BY <1>1, <3>1 DEF DeliverUpdate, TypeOk
    <3>2. CASE type # "none"
      <4>1. id \in Ids /\ Plain(type) \in Events
        BY <2>2, <2>3, <3>2, PlainEvent
      <4>2. HandleAccountEvent(id, Plain(type))
        BY <1>1, <3>2 DEF DeliverUpdate
      <4>3. QED
        BY <4>1, <4>2, AccountEventTypes DEF TypeOk
    <3>3. QED
      BY <3>1, <3>2
  <2>5. VenueTypes'
    BY <1>1, <2>2 DEF DeliverUpdate, TypeOk, VenueTypes
  <2>6. QED
    BY <1>1, <2>4, <2>5 DEF DeliverUpdate, TypeOk
<1>2. CASE DeliverExecution
  <2>1. execs # <<>> /\ execs \in Seq(EventEntries)
    BY <1>2 DEF DeliverExecution, TypeOk, VenueTypes
  <2>2. Head(execs) \in EventEntries /\ Tail(execs) \in Seq(EventEntries)
    BY <2>1, QueueParts
  <2>3. Head(execs).id \in Ids /\ Head(execs).event \in Events
    BY <2>2 DEF EventEntries
  <2>4. LogTypes'
    BY <1>2, <2>3, AccountEventTypes DEF DeliverExecution, TypeOk
  <2>5. VenueTypes'
    BY <1>2, <2>2 DEF DeliverExecution, TypeOk, VenueTypes
  <2>6. QED
    BY <1>2, <2>4, <2>5 DEF DeliverExecution, TypeOk
<1>3. ASSUME NEW s \in Symbols, DeliverPosition(s) PROVE TypeOk'
  <2>1. PipeTypes'
    BY <1>3 DEF DeliverPosition, TypeOk, PipeTypes
  <2>2. QED
    BY <1>3, <2>1 DEF DeliverPosition, TypeOk
<1>4. QED
  BY <1>1, <1>2, <1>3 DEF StreamStep
-----------------------------------------------------------------------------
(* Reconciliation, crash and replay. *)
LEMMA StartPullType == [IdleRecon EXCEPT !.active = TRUE] \in Pulls
  BY IdleReconType DEF Pulls

LEMMA ReplayTypes ==
  ASSUME BookTypes, NEW entry \in Entries
  PROVE  /\ ReplayOrder(orders, entry) \in [Ids -> OrderRecord \cup {None}]
         /\ ReplayPosition(orders, positions, entry) \in [Symbols -> Int]
<1>1. CASE entry.t = "open"
  <2>1. NewOrder(entry.side, entry.qty) \in OrderRecord /\ entry.id \in Ids
    BY <1>1, EntryFields, NewOrderType
  <2>2. QED
    BY <1>1, <2>1 DEF ReplayOrder, ReplayPosition, BookTypes
<1>2. CASE entry.t = "event"
  <2>1. entry.id \in Ids /\ entry.event \in Events /\ entry.id[1] \in Symbols
    BY <1>2, EntryFields, IdParts
  <2>2. CASE orders[entry.id] = None
    BY <1>2, <2>2 DEF ReplayOrder, ReplayPosition, BookTypes
  <2>3. CASE orders[entry.id] # None
    <3> DEFINE result == ApplyOrderEvent(orders[entry.id], entry.event)
               change == Signed(orders[entry.id].side, entry.event.qty)
    <3>1. orders[entry.id] \in OrderRecord
      BY <2>1, <2>3, TrackedType
    <3>2. result.order \in OrderRecord /\ change \in Int
      BY <2>1, <3>1, ApplyType, EventFields, SignedInt
    <3>3. /\ ReplayOrder(orders, entry) = [orders EXCEPT ![entry.id] = result.order]
          /\ \/ ReplayPosition(orders, positions, entry) = positions
             \/ ReplayPosition(orders, positions, entry) = [positions EXCEPT ![entry.id[1]] = @ + change]
      BY <1>2, <2>3 DEF ReplayOrder, ReplayPosition
    <3> HIDE DEF result, change
    <3>4. QED
      BY <2>1, <3>2, <3>3 DEF BookTypes
  <2>4. QED
    BY <2>2, <2>3
<1>3. CASE entry.t = "reconciled"
  BY <1>3 DEF ReplayOrder, ReplayPosition, BookTypes
<1>4. QED
  BY <1>1, <1>2, <1>3, EntryFields

LEMMA CorrectionTypes ==
  ASSUME BookTypes, PipeTypes, ApplyCorrections
  PROVE  positions' \in [Symbols -> Int] /\ corrected' \in [Symbols -> Int]
<1>1. recon.positions \in [Symbols -> Int]
  BY DEF PipeTypes, Pulls
<1>2. positions' \in [Symbols -> Int]
  BY <1>1 DEF ApplyCorrections, BookTypes
<1>3. corrected' \in [Symbols -> Int]
  BY <1>2 DEF ApplyCorrections, BookTypes
<1>4. QED
  BY <1>2, <1>3

LEMMA PipelineTypes == TypeOk /\ PipelineStep => TypeOk'
<1> SUFFICES ASSUME TypeOk, PipelineStep PROVE TypeOk'
  OBVIOUS
<1> USE VenueKept, BookKept, LoopKept, PipeKept, LogKept, CounterKept
<1>1. CASE ReconStart
  <2>1. PipeTypes'
    BY <1>1, StartPullType DEF ReconStart, StartPull, TypeOk, PipeTypes
  <2>2. CounterTypes'
    BY <1>1 DEF ReconStart, TypeOk, CounterTypes
  <2>3. QED
    BY <1>1, <2>1, <2>2 DEF ReconStart, TypeOk
<1>2. CASE ReadOpenOrders
  <2>1. recon' \in Pulls
    BY <1>2 DEF ReadOpenOrders, TypeOk, PipeTypes, Pulls
  <2>2. PipeTypes'
    BY <1>2, <2>1 DEF ReadOpenOrders, TypeOk, PipeTypes
  <2>3. QED
    BY <1>2, <2>2 DEF ReadOpenOrders, TypeOk
<1>3. CASE ReadPositions
  <2> DEFINE fresh == {e.id[1] : e \in {d \in UndeliveredEvents : IsFill(d)}}
  <2>1. fresh \subseteq Symbols
    <3>1. \A e \in UndeliveredEvents : e \in EventEntries
      BY DEF UndeliveredEvents, ToSet, TypeOk, VenueTypes, LogTypes
    <3>2. \A e \in EventEntries : e.id[1] \in Symbols
      BY IdParts DEF EventEntries
    <3>. QED BY <3>1, <3>2
  <2>2. recon' = [recon EXCEPT !.gotPositions = TRUE, !.positions = venuePos, !.overtaken = fresh]
    BY <1>3 DEF ReadPositions
  <2> HIDE DEF fresh
  <2>3. recon' \in Pulls
    BY <2>1, <2>2 DEF TypeOk, PipeTypes, VenueTypes, Pulls
  <2>4. PipeTypes'
    BY <1>3, <2>3 DEF ReadPositions, TypeOk, PipeTypes
  <2>5. QED
    BY <1>3, <2>4 DEF ReadPositions, TypeOk
<1>4. CASE ReconFinish
  <2>1. BookTypes'
    BY <1>4, CorrectionTypes DEF ReconFinish, TypeOk, BookTypes
  <2>2. PipeTypes'
    BY <1>4, IdleReconType DEF ReconFinish, TypeOk, PipeTypes
  <2>3. LogTypes'
    <3>1. [t |-> "reconciled"] \in Entries
      BY DEF Entries
    <3>2. journal' \in Seq(Entries)
      BY <1>4, <3>1, AppendParts DEF ReconFinish, TypeOk, LogTypes
    <3>3. QED
      BY <1>4, <3>2 DEF ReconFinish, TypeOk, LogTypes
  <2>4. QED
    BY <1>4, <2>1, <2>2, <2>3 DEF ReconFinish, TypeOk
<1>5. CASE ReconFails
  <2>1. PipeTypes'
    BY <1>5, IdleReconType DEF ReconFails, TypeOk, PipeTypes
  <2>2. QED
    BY <1>5, <2>1 DEF ReconFails, TypeOk
<1>6. CASE Crash
  <2>1. VenueTypes'
    <3>1. updates' \in Seq([id : Ids, status : Statuses]) /\ execs' \in Seq(EventEntries)
      BY <1>6 DEF Crash
    <3>2. QED
      BY <1>6, <3>1 DEF Crash, TypeOk, VenueTypes
  <2>2. BookTypes'
    BY <1>6, FlatType DEF Crash, TypeOk, BookTypes
  <2>3. LoopTypes'
    <3>1. pending' \in Seq(Intents) /\ intentSeq' \in 0 .. MaxSeq
      BY <1>6, Bounds DEF Crash
    <3>2. QED
      BY <1>6, <3>1 DEF Crash, LoopTypes
  <2>4. PipeTypes'
    <3>1. recon' \in Pulls
      BY <1>6, IdleReconType DEF Crash
    <3>2. streamed' \in SUBSET Symbols
      BY <1>6 DEF Crash
    <3>3. proc' \in {"down", "replay", "cold", "up"} /\ canTrade' \in BOOLEAN
      BY <1>6 DEF Crash
    <3>4. cursor' \in Nat \ {0}
      BY <1>6 DEF Crash
    <3>5. QED
      BY <3>1, <3>2, <3>3, <3>4 DEF PipeTypes
  <2>5. LogTypes'
    BY <1>6 DEF Crash, TypeOk, LogTypes
  <2>6. CounterTypes'
    BY <1>6 DEF Crash, TypeOk, CounterTypes
  <2>7. QED
    BY <2>1, <2>2, <2>3, <2>4, <2>5, <2>6 DEF TypeOk
<1>7. CASE ColdStart
  <2>1. PipeTypes'
    BY <1>7 DEF ColdStart, TypeOk, PipeTypes
  <2>2. QED
    BY <1>7, <2>1 DEF ColdStart, TypeOk
<1>8. CASE ReplayOne
  <2>1. journal[cursor] \in Entries
    BY <1>8 DEF ReplayOne, TypeOk, PipeTypes, LogTypes
  <2>2. BookTypes'
    BY <1>8, <2>1, ReplayTypes DEF ReplayOne, TypeOk, BookTypes
  <2>3. PipeTypes'
    BY <1>8 DEF ReplayOne, TypeOk, PipeTypes
  <2>4. QED
    BY <1>8, <2>2, <2>3 DEF ReplayOne, TypeOk
<1>9. CASE ReplayDone
  <2>1. PipeTypes'
    BY <1>9, StartPullType DEF ReplayDone, StartPull, TypeOk, PipeTypes
  <2>2. QED
    BY <1>9, <2>1 DEF ReplayDone, TypeOk
<1>10. QED
  BY <1>1, <1>2, <1>3, <1>4, <1>5, <1>6, <1>7, <1>8, <1>9 DEF PipelineStep
-----------------------------------------------------------------------------
LEMMA StutterTypes == TypeOk /\ UNCHANGED vars => TypeOk'
<1> SUFFICES ASSUME TypeOk, UNCHANGED vars PROVE TypeOk'
  OBVIOUS
<1>1. /\ UNCHANGED venueVars /\ UNCHANGED bookVars /\ UNCHANGED loopVars
      /\ UNCHANGED pipeVars /\ UNCHANGED logVars /\ UNCHANGED counters
  BY DEF vars
<1>2. QED
  BY <1>1, VenueKept, BookKept, LoopKept, PipeKept, LogKept, CounterKept DEF TypeOk

LEMMA NextTypes == TypeOk /\ [Next]_vars => TypeOk'
  BY EngineTypes, VenueStepTypes, StreamTypes, PipelineTypes, StutterTypes DEF Next

(* Every variable of the pipeline keeps its type, whatever the orders, the *)
(* faults and the number of intents: in particular every entry of the      *)
(* journal can be replayed, and every record is one the machine knows.     *)
THEOREM PipelineTypesAlways == Spec => []TypeOk
<1>1. Init => TypeOk
  BY InitTypes
<1>2. TypeOk /\ [Next]_vars => TypeOk'
  BY NextTypes
<1>3. QED
  BY <1>1, <1>2, PTL DEF Spec
-----------------------------------------------------------------------------

HasFill(jn, id, cum) ==
  \E k \in 1 .. Len(jn) : IsFill(jn[k]) /\ jn[k].id = id /\ jn[k].event.cum >= cum

MadeBy(vf, e)    == IsFill(e) => e.event.qty <= e.event.cum /\ e.event.cum <= vf[e.id]
MissingIn(f, e)  == IsFill(e) => f[e.id] + e.event.qty <= e.event.cum

FlowTypes(vf, f, ex, ob, jn, cur) ==
  /\ vf \in [Ids -> Nat] /\ f \in [Ids -> Nat]
  /\ ex \in Seq(EventEntries) /\ ob \in Seq(EventEntries) /\ jn \in Seq(Entries)
  /\ cur \in Nat \ {0}

FlowBook(vf, f, ob, jn) ==
  /\ \A id \in Ids : f[id] <= vf[id]
  /\ \A id \in Ids : f[id] > 0 => HasFill(jn, id, f[id])
  /\ \A i \in 1 .. Len(ob) : IsFill(ob[i]) => HasFill(jn, ob[i].id, ob[i].event.cum)

FlowOrder(ex, ob, jn) ==
  Ordered(ex) /\ Ordered(ob) /\ Ordered(jn) /\ Before(ob, ex) /\ Before(jn, ex)

FlowReal(vf, ex, ob, jn) ==
  /\ \A i \in 1 .. Len(ex) : MadeBy(vf, ex[i])
  /\ \A i \in 1 .. Len(ob) : MadeBy(vf, ob[i])
  /\ \A i \in 1 .. Len(jn) : MadeBy(vf, jn[i])

Rebuilding == {"down", "replay"}

FlowMissing(f, ex, ob, jn, p, cur) ==
  /\ \A i \in 1 .. Len(ex) : MissingIn(f, ex[i])
  /\ \A i \in 1 .. Len(ob) : MissingIn(f, ob[i])
  /\ p \in Rebuilding =>
                  /\ \A k \in cur .. Len(jn) : MissingIn(f, jn[k])
                  /\ ob = <<>>

Flow(vf, f, ex, ob, jn, p, cur) ==
  /\ FlowTypes(vf, f, ex, ob, jn, cur)
  /\ FlowBook(vf, f, ob, jn)
  /\ FlowOrder(ex, ob, jn)
  /\ FlowReal(vf, ex, ob, jn)
  /\ FlowMissing(f, ex, ob, jn, p, cur)
-----------------------------------------------------------------------------
(* A fill has an id, a quantity and a cumulative quantity. *)
LEMMA FillFields ==
  ASSUME NEW e, e \in Entries \/ e \in EventEntries, IsFill(e)
  PROVE  e.id \in Ids /\ e.event.qty \in Nat /\ e.event.cum \in Nat
<1>1. e \in Entries /\ e.t = "event"
  BY DEF IsFill, Entries
<1>2. QED
  BY <1>1, EntryFields, EventFields

(* Precedes between fills chains what the book holds past what follows.    *)
LEMMA OrderedAppend ==
  ASSUME NEW S, NEW q \in Seq(S), NEW e \in S,
         Ordered(q), \A i \in 1 .. Len(q) : Precedes(q[i], e)
  PROVE  Ordered(Append(q, e))
<1> DEFINE r == Append(q, e)
<1>1. r \in Seq(S) /\ Len(r) = Len(q) + 1 /\ r[Len(q) + 1] = e /\ \A i \in 1 .. Len(q) : r[i] = q[i]
  BY AppendParts
<1> HIDE DEF r
<1>2. ASSUME NEW i \in 1 .. Len(r), NEW j \in 1 .. Len(r), i < j
      PROVE  Precedes(r[i], r[j])
  <2>1. CASE j = Len(q) + 1
    <3>1. i \in 1 .. Len(q)
      BY <1>1, <1>2, <2>1
    <3>2. QED
      BY <1>1, <2>1, <3>1
  <2>2. CASE j # Len(q) + 1
    <3>1. i \in 1 .. Len(q) /\ j \in 1 .. Len(q)
      BY <1>1, <1>2, <2>2
    <3>2. QED
      BY <1>1, <1>2, <3>1 DEF Ordered
  <2>3. QED
    BY <2>1, <2>2
<1>3. QED
  BY <1>2 DEF Ordered, r

LEMMA OrderedTail ==
  ASSUME NEW S, NEW q \in Seq(S), q # <<>>, Ordered(q)
  PROVE  /\ Ordered(Tail(q))
         /\ \A i \in 1 .. Len(Tail(q)) : Precedes(Head(q), Tail(q)[i])
<1> DEFINE r == Tail(q)
<1>1. /\ r \in Seq(S) /\ Head(q) = q[1] /\ Len(q) \in Nat /\ Len(r) = Len(q) - 1
      /\ \A i \in 1 .. Len(q) - 1 : r[i] = q[i + 1]
  BY QueueParts
<1> HIDE DEF r
<1>2. ASSUME NEW i \in 1 .. Len(r), NEW j \in 1 .. Len(r), i < j
      PROVE  Precedes(r[i], r[j])
  <2>1. i + 1 \in 1 .. Len(q) /\ j + 1 \in 1 .. Len(q) /\ i + 1 < j + 1
    BY <1>1, <1>2
  <2>2. QED
    BY <1>1, <2>1 DEF Ordered
<1>3. ASSUME NEW i \in 1 .. Len(r) PROVE Precedes(Head(q), r[i])
  <2>1. 1 \in 1 .. Len(q) /\ i + 1 \in 1 .. Len(q) /\ 1 < i + 1
    BY <1>1
  <2>2. QED
    BY <1>1, <2>1 DEF Ordered
<1>4. QED
  BY <1>2, <1>3 DEF Ordered, r

LEMMA BeforeAppendLeft ==
  ASSUME NEW S, NEW q \in Seq(S), NEW e \in S, NEW r,
         Before(q, r), \A j \in 1 .. Len(r) : Precedes(e, r[j])
  PROVE  Before(Append(q, e), r)
<1>1. ASSUME NEW i \in 1 .. Len(Append(q, e)), NEW j \in 1 .. Len(r)
      PROVE  Precedes(Append(q, e)[i], r[j])
  <2>1. CASE i = Len(q) + 1
    BY <2>1, AppendParts
  <2>2. CASE i # Len(q) + 1
    <3>1. i \in 1 .. Len(q)
      BY <2>2, AppendParts
    <3>2. QED
      BY <3>1, AppendParts DEF Before
  <2>3. QED
    BY <2>1, <2>2
<1>2. QED
  BY <1>1 DEF Before

LEMMA BeforeAppendRight ==
  ASSUME NEW S, NEW q \in Seq(S), NEW e \in S, NEW r,
         Before(r, q), \A j \in 1 .. Len(r) : Precedes(r[j], e)
  PROVE  Before(r, Append(q, e))
<1>1. ASSUME NEW i \in 1 .. Len(Append(q, e)), NEW j \in 1 .. Len(r)
      PROVE  Precedes(r[j], Append(q, e)[i])
  <2>1. CASE i = Len(q) + 1
    BY <2>1, AppendParts
  <2>2. CASE i # Len(q) + 1
    <3>1. i \in 1 .. Len(q)
      BY <2>2, AppendParts
    <3>2. QED
      BY <3>1, AppendParts DEF Before
  <2>3. QED
    BY <2>1, <2>2
<1>2. QED
  BY <1>1 DEF Before

LEMMA BeforeTail ==
  ASSUME NEW S, NEW q \in Seq(S), q # <<>>, NEW r
  PROVE  /\ Before(q, r) => Before(Tail(q), r) /\ \A j \in 1 .. Len(r) : Precedes(Head(q), r[j])
         /\ Before(r, q) => Before(r, Tail(q)) /\ \A j \in 1 .. Len(r) : Precedes(r[j], Head(q))
<1>1. /\ Head(q) = q[1] /\ Len(q) \in Nat /\ Len(q) >= 1 /\ Len(Tail(q)) = Len(q) - 1
      /\ \A i \in 1 .. Len(q) - 1 : Tail(q)[i] = q[i + 1]
  BY QueueParts
<1>2. ASSUME NEW i \in 1 .. Len(Tail(q)) PROVE i + 1 \in 1 .. Len(q) /\ Tail(q)[i] = q[i + 1]
  BY <1>1
<1>3. 1 \in 1 .. Len(q)
  BY <1>1
<1>4. QED
  BY <1>1, <1>2, <1>3 DEF Before
-----------------------------------------------------------------------------
LEMMA FlowParts ==
  ASSUME NEW vf, NEW f, NEW ex, NEW ob, NEW jn, NEW cur, FlowTypes(vf, f, ex, ob, jn, cur)
  PROVE  /\ Len(ex) \in Nat /\ Len(ob) \in Nat /\ Len(jn) \in Nat
         /\ \A i \in 1 .. Len(ex) : ex[i] \in EventEntries
         /\ \A i \in 1 .. Len(ob) : ob[i] \in EventEntries
         /\ \A i \in 1 .. Len(jn) : jn[i] \in Entries
         /\ vf \in [Ids -> Nat] /\ f \in [Ids -> Nat] /\ cur \in Nat
  BY DEF FlowTypes

(* The exchange's fills only grow.                                         *)
LEMMA FlowGrows ==
  ASSUME NEW vf, NEW f, NEW ex, NEW ob, NEW jn, NEW p, NEW cur,
         Flow(vf, f, ex, ob, jn, p, cur),
         NEW vf2, vf2 \in [Ids -> Nat], \A id \in Ids : vf[id] <= vf2[id]
  PROVE  Flow(vf2, f, ex, ob, jn, p, cur)
<1> USE DEF Flow
<1>1. FlowTypes(vf2, f, ex, ob, jn, cur)
  BY DEF FlowTypes
<1>2. FlowBook(vf2, f, ob, jn)
  <2>1. ASSUME NEW id \in Ids PROVE f[id] <= vf2[id]
    <3>1. f[id] <= vf[id] /\ vf[id] <= vf2[id]
      BY DEF FlowBook
    <3>2. QED
      BY <3>1, FlowParts
  <2>2. QED
    BY <2>1 DEF FlowBook
<1>3. ASSUME NEW e, e \in Entries \/ e \in EventEntries, MadeBy(vf, e) PROVE MadeBy(vf2, e)
  <2>1. SUFFICES ASSUME IsFill(e) PROVE e.event.qty <= e.event.cum /\ e.event.cum <= vf2[e.id]
    BY DEF MadeBy
  <2>2. e.id \in Ids /\ e.event.cum \in Nat
    BY <1>3, <2>1, FillFields
  <2>3. QED
    BY <1>3, <2>1, <2>2, FlowParts DEF MadeBy
<1>4. FlowReal(vf2, ex, ob, jn)
  BY <1>3, FlowParts DEF FlowReal
<1>5. QED
  BY <1>1, <1>2, <1>4

(* The book's fills only shrink.                                           *)
LEMMA FlowShrinks ==
  ASSUME NEW vf, NEW f, NEW ex, NEW ob, NEW jn, NEW p, NEW cur,
         Flow(vf, f, ex, ob, jn, p, cur),
         NEW f2, f2 \in [Ids -> Nat],  \A id \in Ids : f2[id] <= f[id]
  PROVE  Flow(vf, f2, ex, ob, jn, p, cur)
<1> USE DEF Flow
<1>1. FlowTypes(vf, f2, ex, ob, jn, cur)
  BY DEF FlowTypes
<1>2. FlowBook(vf, f2, ob, jn)
  <2>1. ASSUME NEW id \in Ids PROVE f2[id] <= vf[id]
    <3>1. f[id] <= vf[id] /\ f2[id] <= f[id]
      BY DEF FlowBook
    <3>2. QED
      BY <3>1, FlowParts
  <2>2. ASSUME NEW id \in Ids, f2[id] > 0 PROVE HasFill(jn, id, f2[id])
    <3>1. f[id] > 0 /\ f2[id] <= f[id] /\ f[id] \in Nat /\ f2[id] \in Nat
      BY <2>2, FlowParts
    <3>2. PICK k \in 1 .. Len(jn) : IsFill(jn[k]) /\ jn[k].id = id /\ jn[k].event.cum >= f[id]
      BY <3>1 DEF FlowBook, HasFill
    <3>3. jn[k].event.cum \in Nat
      BY <3>2, FillFields, FlowParts
    <3>4. QED
      BY <3>1, <3>2, <3>3 DEF HasFill
  <2>3. QED
    BY <2>1, <2>2 DEF FlowBook
<1>3. ASSUME NEW e, e \in Entries \/ e \in EventEntries, MissingIn(f, e) PROVE MissingIn(f2, e)
  <2>1. SUFFICES ASSUME IsFill(e) PROVE f2[e.id] + e.event.qty <= e.event.cum
    BY DEF MissingIn
  <2>2. e.id \in Ids /\ e.event.cum \in Nat /\ e.event.qty \in Nat
    BY <1>3, <2>1, FillFields
  <2>3. f2[e.id] <= f[e.id] /\ f2[e.id] \in Nat /\ f[e.id] \in Nat
    BY <2>2, FlowParts
  <2>4. QED
    BY <1>3, <2>1, <2>2, <2>3 DEF MissingIn
<1>4. FlowMissing(f2, ex, ob, jn, p, cur)
  <2>1. \A i \in 1 .. Len(ex) : MissingIn(f2, ex[i])
    BY <1>3, FlowParts DEF FlowMissing
  <2>2. \A i \in 1 .. Len(ob) : MissingIn(f2, ob[i])
    BY <1>3, FlowParts DEF FlowMissing
  <2>3. ASSUME p \in Rebuilding, NEW k \in cur .. Len(jn) PROVE MissingIn(f2, jn[k])
    <3>1. cur \in Nat \ {0} /\ k \in 1 .. Len(jn)
      BY <2>3 DEF FlowTypes
    <3>2. jn[k] \in Entries /\ MissingIn(f, jn[k])
      BY <2>3, <3>1, FlowParts DEF FlowMissing
    <3>3. QED
      BY <1>3, <3>2
  <2>4. QED
    BY <2>1, <2>2, <2>3 DEF FlowMissing
<1>5. QED
  BY <1>1, <1>2, <1>4

(* The stream is cut.                                                      *)
LEMMA FlowCut ==
  ASSUME NEW vf, NEW f, NEW ex, NEW ob, NEW jn, NEW p, NEW cur,
         Flow(vf, f, ex, ob, jn, p, cur)
  PROVE  Flow(vf, f, <<>>, ob, jn, p, cur)
<1>1. Len(<<>>) = 0 /\ <<>> \in Seq(EventEntries)
  OBVIOUS
<1>2. FlowTypes(vf, f, <<>>, ob, jn, cur)
  BY <1>1 DEF Flow, FlowTypes
<1>3. Ordered(<<>>) /\ Before(ob, <<>>) /\ Before(jn, <<>>)
  BY <1>1 DEF Ordered, Before
<1>4. FlowOrder(<<>>, ob, jn)
  BY <1>3 DEF Flow, FlowOrder
<1>5. FlowReal(vf, <<>>, ob, jn)
  BY <1>1 DEF Flow, FlowReal
<1>6. FlowMissing(f, <<>>, ob, jn, p, cur)
  BY <1>1 DEF Flow, FlowMissing
<1>7. QED
  BY <1>2, <1>4, <1>5, <1>6 DEF Flow

(* The process goes on to another phase, and does not start a replay.      *)
LEMMA FlowPhase ==
  ASSUME NEW vf, NEW f, NEW ex, NEW ob, NEW jn, NEW p, NEW cur,
         Flow(vf, f, ex, ob, jn, p, cur),
         NEW p2, p2 \in Rebuilding => p \in Rebuilding
  PROVE  Flow(vf, f, ex, ob, jn, p2, cur)
  BY DEF Flow, FlowMissing

(* A journal that is longer still holds its fills.                         *)
LEMMA HasFillAppend ==
  ASSUME NEW jn \in Seq(Entries), NEW e \in Entries, NEW id, NEW cum,
         HasFill(jn, id, cum)
  PROVE  HasFill(Append(jn, e), id, cum)
<1>1. PICK k \in 1 .. Len(jn) : IsFill(jn[k]) /\ jn[k].id = id /\ jn[k].event.cum >= cum
  BY DEF HasFill
<1>2. k \in 1 .. Len(Append(jn, e)) /\ Append(jn, e)[k] = jn[k]
  BY AppendParts
<1>3. QED
  BY <1>1, <1>2 DEF HasFill

(* An entry goes to the journal while nothing is replayed: one that is not *)
(* a fill, or one that is in order with everything and not in the book.    *)
LEMMA FlowJournal ==
  ASSUME NEW vf, NEW f, NEW ex, NEW ob, NEW jn, NEW cur,
         NEW p, p \notin Rebuilding,
         Flow(vf, f, ex, ob, jn, p, cur),
         NEW e \in Entries, MadeBy(vf, e),
         \A i \in 1 .. Len(jn) : Precedes(jn[i], e),
         \A j \in 1 .. Len(ex) : Precedes(e, ex[j])
  PROVE  Flow(vf, f, ex, ob, Append(jn, e), p, cur)
<1> USE DEF Flow
<1>1. jn \in Seq(Entries) /\ Append(jn, e) \in Seq(Entries)
  BY AppendParts DEF FlowTypes
<1>2. FlowTypes(vf, f, ex, ob, Append(jn, e), cur)
  BY <1>1 DEF FlowTypes
<1>3. FlowBook(vf, f, ob, Append(jn, e))
  BY <1>1, HasFillAppend DEF FlowBook
<1>4. FlowOrder(ex, ob, Append(jn, e))
  BY <1>1, OrderedAppend, BeforeAppendLeft DEF FlowOrder
<1>5. FlowReal(vf, ex, ob, Append(jn, e))
  <2>1. ASSUME NEW i \in 1 .. Len(Append(jn, e)) PROVE MadeBy(vf, Append(jn, e)[i])
    <3>1. (i \in 1 .. Len(jn) /\ Append(jn, e)[i] = jn[i]) \/ Append(jn, e)[i] = e
      BY <1>1, AppendParts
    <3>2. QED
      BY <3>1 DEF FlowReal
  <2>2. QED
    BY <2>1 DEF FlowReal
<1>6. FlowMissing(f, ex, ob, Append(jn, e), p, cur)
  BY DEF FlowMissing
<1>7. QED
  BY <1>2, <1>3, <1>4, <1>5, <1>6

(* The entry the journal has just taken goes to the outbox.                *)
LEMMA FlowOutbox ==
  ASSUME NEW vf, NEW f, NEW ex, NEW ob, NEW jn, NEW cur,
         NEW p, p \notin Rebuilding,
         Flow(vf, f, ex, ob, jn, p, cur),
         NEW e \in EventEntries, MadeBy(vf, e), MissingIn(f, e),
         \A i \in 1 .. Len(ob) : Precedes(ob[i], e),
         \A j \in 1 .. Len(ex) : Precedes(e, ex[j]),
         IsFill(e) => HasFill(jn, e.id, e.event.cum)
  PROVE  Flow(vf, f, ex, Append(ob, e), jn, p, cur)
<1> USE DEF Flow
<1>1. ob \in Seq(EventEntries) /\ Append(ob, e) \in Seq(EventEntries)
  BY AppendParts DEF FlowTypes
<1>2. FlowTypes(vf, f, ex, Append(ob, e), jn, cur)
  BY <1>1 DEF FlowTypes
<1>3. ASSUME NEW i \in 1 .. Len(Append(ob, e))
      PROVE  (i \in 1 .. Len(ob) /\ Append(ob, e)[i] = ob[i]) \/ Append(ob, e)[i] = e
  BY <1>1, AppendParts
<1>4. FlowBook(vf, f, Append(ob, e), jn)
  BY <1>3 DEF FlowBook
<1>5. FlowOrder(ex, Append(ob, e), jn)
  BY <1>1, OrderedAppend, BeforeAppendLeft DEF FlowOrder
<1>6. FlowReal(vf, ex, Append(ob, e), jn)
  BY <1>3 DEF FlowReal
<1>7. FlowMissing(f, ex, Append(ob, e), jn, p, cur)
  BY <1>3 DEF FlowMissing
<1>8. QED
  BY <1>2, <1>4, <1>5, <1>6, <1>7

(* The exchange fills an order and the stream carries the execution.       *)
LEMMA FlowFill ==
  ASSUME NEW vf, NEW f, NEW ex, NEW ob, NEW jn, NEW p, NEW cur,
         Flow(vf, f, ex, ob, jn, p, cur),
         NEW e \in EventEntries, IsFill(e), e.event.cum = vf[e.id] + e.event.qty,
         NEW vf2, vf2 = [vf EXCEPT ![e.id] = @ + e.event.qty]
  PROVE  Flow(vf2, f, Append(ex, e), ob, jn, p, cur)
<1> USE DEF Flow
<1>1. /\ vf \in [Ids -> Nat] /\ f \in [Ids -> Nat] /\ cur \in Nat \ {0}
      /\ ex \in Seq(EventEntries) /\ ob \in Seq(EventEntries) /\ jn \in Seq(Entries)
  BY DEF FlowTypes
<1>2. e.id \in Ids /\ e.event.qty \in Nat /\ e.event.cum \in Nat
  BY FillFields
<1>3. vf2 \in [Ids -> Nat] /\ vf2[e.id] = e.event.cum /\ \A id \in Ids : vf[id] <= vf2[id]
  BY <1>1, <1>2
<1>4. Flow(vf2, f, ex, ob, jn, p, cur)
  <2> HIDE DEF Flow
  <2>1. QED
    BY <1>3, FlowGrows
<1>5. Append(ex, e) \in Seq(EventEntries)
  BY <1>1, AppendParts
<1>6. ASSUME NEW x, x \in Entries \/ x \in EventEntries, MadeBy(vf, x) PROVE Precedes(x, e)
  <2>1. SUFFICES ASSUME IsFill(x), x.id = e.id PROVE x.event.cum + e.event.qty <= e.event.cum
    BY DEF Precedes
  <2>2. x.event.cum \in Nat /\ x.event.cum <= vf[e.id] /\ vf[e.id] \in Nat
    BY <1>1, <1>2, <1>6, <2>1, FillFields DEF MadeBy
  <2>3. QED
    BY <1>2, <2>2
<1>7. /\ \A i \in 1 .. Len(ex) : Precedes(ex[i], e)
      /\ \A i \in 1 .. Len(ob) : Precedes(ob[i], e)
      /\ \A i \in 1 .. Len(jn) : Precedes(jn[i], e)
  BY <1>1, <1>6 DEF FlowReal
<1>8. FlowOrder(Append(ex, e), ob, jn)
  BY <1>1, <1>7, OrderedAppend, BeforeAppendRight DEF FlowOrder
<1>9. ASSUME NEW i \in 1 .. Len(Append(ex, e))
      PROVE  (i \in 1 .. Len(ex) /\ Append(ex, e)[i] = ex[i]) \/ Append(ex, e)[i] = e
  BY <1>1, AppendParts
<1>10. MadeBy(vf2, e)
  BY <1>1, <1>2, <1>3 DEF MadeBy
<1>11. FlowReal(vf2, Append(ex, e), ob, jn)
  BY <1>4, <1>9, <1>10 DEF FlowReal
<1>12. MissingIn(f, e)
  <2>1. f[e.id] <= vf[e.id] /\ f[e.id] \in Nat /\ vf[e.id] \in Nat
    BY <1>1, <1>2 DEF FlowBook
  <2>2. QED
    BY <1>2, <2>1 DEF MissingIn
<1>13. FlowMissing(f, Append(ex, e), ob, jn, p, cur)
  BY <1>9, <1>12 DEF FlowMissing
<1>14. FlowTypes(vf2, f, Append(ex, e), ob, jn, cur)
  BY <1>1, <1>3, <1>5 DEF FlowTypes
<1>15. QED
  BY <1>4, <1>8, <1>11, <1>13, <1>14

(* The oldest execution of the stream reaches the journal, then the outbox. *)
LEMMA FlowDeliver ==
  ASSUME NEW vf, NEW f, NEW ex, NEW ob, NEW jn, NEW cur,
         NEW p, p \notin Rebuilding,
         Flow(vf, f, ex, ob, jn, p, cur),
         ex # <<>>
  PROVE  Flow(vf, f, Tail(ex), Append(ob, Head(ex)), Append(jn, Head(ex)), p, cur)
<1> DEFINE e == Head(ex)
<1>1. FlowTypes(vf, f, ex, ob, jn, cur)
  BY DEF Flow
<1>2. ex \in Seq(EventEntries) /\ ob \in Seq(EventEntries) /\ jn \in Seq(Entries)
  BY <1>1 DEF FlowTypes
<1>3. /\ e \in EventEntries /\ e \in Entries /\ e = ex[1] /\ Tail(ex) \in Seq(EventEntries)
      /\ Len(ex) \in Nat /\ Len(ex) >= 1 /\ Len(Tail(ex)) = Len(ex) - 1
      /\ \A i \in 1 .. Len(ex) - 1 : Tail(ex)[i] = ex[i + 1]
  BY <1>2, QueueParts DEF Entries
<1> HIDE DEF e
<1>4. ASSUME NEW i \in 1 .. Len(Tail(ex)) PROVE i + 1 \in 1 .. Len(ex) /\ Tail(ex)[i] = ex[i + 1]
  BY <1>3
<1>5. 1 \in 1 .. Len(ex)
  BY <1>3
<1>6. /\ Ordered(Tail(ex)) /\ \A j \in 1 .. Len(Tail(ex)) : Precedes(e, Tail(ex)[j])
      /\ Before(ob, Tail(ex)) /\ \A i \in 1 .. Len(ob) : Precedes(ob[i], e)
      /\ Before(jn, Tail(ex)) /\ \A i \in 1 .. Len(jn) : Precedes(jn[i], e)
  BY <1>2, OrderedTail, BeforeTail DEF Flow, FlowOrder, e
<1>7. MadeBy(vf, e) /\ MissingIn(f, e)
  BY <1>3, <1>5 DEF Flow, FlowReal, FlowMissing
<1>8. Flow(vf, f, Tail(ex), ob, jn, p, cur)
  <2>1. FlowTypes(vf, f, Tail(ex), ob, jn, cur)
    BY <1>1, <1>3 DEF FlowTypes
  <2>2. FlowOrder(Tail(ex), ob, jn)
    BY <1>6 DEF Flow, FlowOrder
  <2>3. FlowReal(vf, Tail(ex), ob, jn)
    BY <1>4 DEF Flow, FlowReal
  <2>4. FlowMissing(f, Tail(ex), ob, jn, p, cur)
    BY <1>4 DEF Flow, FlowMissing
  <2>5. QED
    BY <2>1, <2>2, <2>3, <2>4 DEF Flow
<1>9. Flow(vf, f, Tail(ex), ob, Append(jn, e), p, cur)
  BY <1>3, <1>6, <1>7, <1>8, FlowJournal
<1>10. IsFill(e) => HasFill(Append(jn, e), e.id, e.event.cum)
  <2>1. /\ Len(jn) + 1 \in 1 .. Len(Append(jn, e))
        /\ Append(jn, e)[Len(jn) + 1] = e
    BY <1>2, <1>3, AppendParts
  <2>2. IsFill(e) => e.event.cum >= e.event.cum
    BY <1>3, FillFields
  <2>3. QED
    BY <2>1, <2>2 DEF HasFill
<1>11. QED
  BY <1>3, <1>6, <1>7, <1>9, <1>10, FlowOutbox DEF e

(* An event that is not a fill goes to the journal and the outbox.         *)
LEMMA FlowPlain ==
  ASSUME NEW vf, NEW f, NEW ex, NEW ob, NEW jn, NEW cur,
         NEW p, p \notin Rebuilding,
         Flow(vf, f, ex, ob, jn, p, cur),
         NEW e, e \in EventEntries, e \in Entries, ~IsFill(e)
  PROVE  Flow(vf, f, ex, Append(ob, e), Append(jn, e), p, cur)
<1>1. \A x : Precedes(x, e) /\ Precedes(e, x)
  BY DEF Precedes
<1>2. MadeBy(vf, e) /\ MissingIn(f, e)
  BY DEF MadeBy, MissingIn
<1>3. Flow(vf, f, ex, ob, Append(jn, e), p, cur)
  BY <1>1, <1>2, FlowJournal
<1>4. QED
  BY <1>1, <1>2, <1>3, FlowOutbox

(* An entry that is not a fill goes to the journal only.                   *)
LEMMA FlowMark ==
  ASSUME NEW vf, NEW f, NEW ex, NEW ob, NEW jn, NEW cur,
         NEW p, p \notin Rebuilding,
         Flow(vf, f, ex, ob, jn, p, cur),
         NEW e, e \in Entries, ~IsFill(e)
  PROVE  Flow(vf, f, ex, ob, Append(jn, e), p, cur)
<1>1. \A x : Precedes(x, e) /\ Precedes(e, x)
  BY DEF Precedes
<1>2. MadeBy(vf, e)
  BY DEF MadeBy
<1>3. QED
  BY <1>1, <1>2, FlowJournal

(* The book takes a fill that is in the journal: what precedes nothing it  *)
(* holds stays missing.                                                    *)
LEMMA BookedThenMissing ==
  ASSUME NEW f, f \in [Ids -> Nat],
         NEW e, e \in Entries \/ e \in EventEntries, IsFill(e), MissingIn(f, e),
         NEW f2, f2 = [f EXCEPT ![e.id] = @ + e.event.qty],
         NEW x, x \in Entries \/ x \in EventEntries, MissingIn(f, x), Precedes(e, x)
  PROVE  MissingIn(f2, x)
<1>1. SUFFICES ASSUME IsFill(x) PROVE f2[x.id] + x.event.qty <= x.event.cum
  BY DEF MissingIn
<1>2. /\ e.id \in Ids /\ e.event.qty \in Nat /\ e.event.cum \in Nat
      /\ x.id \in Ids /\ x.event.qty \in Nat /\ x.event.cum \in Nat
  BY <1>1, FillFields
<1>3. f[e.id] \in Nat /\ f[x.id] \in Nat
  BY <1>2
<1>4. CASE x.id = e.id
  <2>1. f2[x.id] = f[e.id] + e.event.qty
    BY <1>2, <1>4
  <2>2. f[e.id] + e.event.qty <= e.event.cum
    BY DEF MissingIn
  <2>3. e.event.cum + x.event.qty <= x.event.cum
    BY <1>1, <1>4 DEF Precedes
  <2>4. QED
    BY <1>2, <1>3, <2>1, <2>2, <2>3
<1>5. CASE x.id # e.id
  <2>1. f2[x.id] = f[x.id]
    BY <1>2, <1>5
  <2>2. QED
    BY <1>1, <2>1 DEF MissingIn
<1>6. QED
  BY <1>4, <1>5

LEMMA FlowTake ==
  ASSUME NEW vf, NEW f, NEW ex, NEW ob, NEW jn, NEW cur,
         FlowTypes(vf, f, ex, ob, jn, cur), FlowBook(vf, f, ob, jn),
         NEW e, e \in Entries \/ e \in EventEntries, IsFill(e),
         MissingIn(f, e), MadeBy(vf, e), HasFill(jn, e.id, e.event.cum),
         NEW f2, f2 = [f EXCEPT ![e.id] = @ + e.event.qty]
  PROVE  f2 \in [Ids -> Nat] /\ FlowBook(vf, f2, ob, jn)
<1>1. e.id \in Ids /\ e.event.qty \in Nat /\ e.event.cum \in Nat
  BY FillFields
<1>2. f \in [Ids -> Nat] /\ vf \in [Ids -> Nat]
  BY DEF FlowTypes
<1>3. f[e.id] \in Nat /\ f2[e.id] = f[e.id] + e.event.qty
  BY <1>1, <1>2
<1>4. f2 \in [Ids -> Nat]
  BY <1>1, <1>2
<1>5. f2[e.id] <= e.event.cum /\ e.event.cum <= vf[e.id] /\ vf[e.id] \in Nat /\ f2[e.id] \in Nat
  BY <1>1, <1>2, <1>3 DEF MissingIn, MadeBy
<1>6. ASSUME NEW id \in Ids, id # e.id PROVE f2[id] = f[id]
  BY <1>1, <1>2, <1>6
<1>7. ASSUME NEW id \in Ids PROVE f2[id] <= vf[id]
  <2>1. CASE id = e.id
    BY <1>1, <1>5, <2>1
  <2>2. CASE id # e.id
    BY <1>6, <2>2 DEF FlowBook
  <2>3. QED
    BY <2>1, <2>2
<1>8. ASSUME NEW id \in Ids, f2[id] > 0 PROVE HasFill(jn, id, f2[id])
  <2>1. CASE id = e.id
    <3>1. PICK k \in 1 .. Len(jn) : IsFill(jn[k]) /\ jn[k].id = id /\ jn[k].event.cum >= e.event.cum
      BY <2>1 DEF HasFill
    <3>2. jn[k].event.cum \in Nat
      BY <3>1, FillFields, FlowParts
    <3>3. jn[k].event.cum >= f2[id]
      BY <1>1, <1>5, <2>1, <3>1, <3>2
    <3>4. QED
      BY <3>1, <3>3 DEF HasFill
  <2>2. CASE id # e.id
    BY <1>6, <1>8, <2>2 DEF FlowBook
  <2>3. QED
    BY <2>1, <2>2
<1>9. FlowBook(vf, f2, ob, jn)
  BY <1>7, <1>8 DEF FlowBook
<1>10. QED
  BY <1>4, <1>9

(* drainBroker takes the oldest event off the outbox, and either drops it  *)
(* or, for a fill, books it.                                               *)
LEMMA FlowDrain ==
  ASSUME NEW vf, NEW f, NEW ex, NEW ob, NEW jn, NEW cur, NEW p,
         Flow(vf, f, ex, ob, jn, p, cur),
         ob # <<>>,
         NEW f2, \/ f2 = f
                 \/ /\ IsFill(Head(ob))
                    /\ f2 = [f EXCEPT ![Head(ob).id] = @ + Head(ob).event.qty]
  PROVE  Flow(vf, f2, ex, Tail(ob), jn, p, cur)
<1> DEFINE e == Head(ob)
<1>1. FlowTypes(vf, f, ex, ob, jn, cur) /\ p \notin Rebuilding
  BY DEF Flow, FlowMissing
<1>2. ex \in Seq(EventEntries) /\ ob \in Seq(EventEntries) /\ jn \in Seq(Entries) /\ f \in [Ids -> Nat]
  BY <1>1 DEF FlowTypes
<1>3. /\ e \in EventEntries /\ e = ob[1] /\ Tail(ob) \in Seq(EventEntries)
      /\ Len(ob) \in Nat /\ Len(ob) >= 1 /\ Len(Tail(ob)) = Len(ob) - 1
      /\ \A i \in 1 .. Len(ob) - 1 : Tail(ob)[i] = ob[i + 1]
  BY <1>2, QueueParts
<1> HIDE DEF e
<1>4. ASSUME NEW i \in 1 .. Len(Tail(ob))
      PROVE  i + 1 \in 1 .. Len(ob) /\ Tail(ob)[i] = ob[i + 1] /\ Tail(ob)[i] \in EventEntries
  BY <1>3
<1>5. 1 \in 1 .. Len(ob)
  BY <1>3
<1>6. /\ Ordered(Tail(ob)) /\ \A j \in 1 .. Len(Tail(ob)) : Precedes(e, Tail(ob)[j])
      /\ Before(Tail(ob), ex) /\ \A i \in 1 .. Len(ex) : Precedes(e, ex[i])
  BY <1>2, OrderedTail, BeforeTail DEF Flow, FlowOrder, e
<1>7. MadeBy(vf, e) /\ MissingIn(f, e) /\ (IsFill(e) => HasFill(jn, e.id, e.event.cum))
  BY <1>3, <1>5 DEF Flow, FlowReal, FlowMissing, FlowBook
<1>8. FlowTypes(vf, f, ex, Tail(ob), jn, cur)
  BY <1>1, <1>3 DEF FlowTypes
<1>9. FlowBook(vf, f, Tail(ob), jn)
  BY <1>4 DEF Flow, FlowBook
<1>10. FlowOrder(ex, Tail(ob), jn)
  BY <1>6 DEF Flow, FlowOrder
<1>11. FlowReal(vf, ex, Tail(ob), jn)
  BY <1>4 DEF Flow, FlowReal
<1>12. FlowMissing(f, ex, Tail(ob), jn, p, cur)
  BY <1>1, <1>4 DEF Flow, FlowMissing
<1>13. CASE f2 = f
  BY <1>8, <1>9, <1>10, <1>11, <1>12, <1>13 DEF Flow
<1>14. CASE IsFill(e) /\ f2 = [f EXCEPT ![e.id] = @ + e.event.qty]
  <2>1. f2 \in [Ids -> Nat] /\ FlowBook(vf, f2, Tail(ob), jn)
    BY <1>3, <1>7, <1>8, <1>9, <1>14, FlowTake
  <2>2. FlowTypes(vf, f2, ex, Tail(ob), jn, cur)
    BY <1>8, <2>1 DEF FlowTypes
  <2>3. ASSUME NEW i \in 1 .. Len(ex) PROVE MissingIn(f2, ex[i])
    <3>1. ex[i] \in EventEntries /\ MissingIn(f, ex[i]) /\ Precedes(e, ex[i])
      BY <1>2, <1>6, <1>12 DEF FlowMissing
    <3>2. QED
      BY <1>2, <1>3, <1>7, <1>14, <3>1, BookedThenMissing
  <2>4. ASSUME NEW i \in 1 .. Len(Tail(ob)) PROVE MissingIn(f2, Tail(ob)[i])
    <3>1. Tail(ob)[i] \in EventEntries /\ MissingIn(f, Tail(ob)[i]) /\ Precedes(e, Tail(ob)[i])
      BY <1>4, <1>6, <1>12 DEF FlowMissing
    <3>2. QED
      BY <1>2, <1>3, <1>7, <1>14, <3>1, BookedThenMissing, ZenonT(40)
  <2>5. FlowMissing(f2, ex, Tail(ob), jn, p, cur)
    BY <1>1, <2>3, <2>4 DEF FlowMissing
  <2>6. QED
    BY <1>10, <1>11, <2>1, <2>2, <2>5 DEF Flow
<1>15. QED
  BY <1>13, <1>14 DEF e

(* One turn of recoverState's loop: the entry is dropped or booked.        *)
LEMMA FlowReplay ==
  ASSUME NEW vf, NEW f, NEW ex, NEW ob, NEW jn, NEW cur, NEW p,
         Flow(vf, f, ex, ob, jn, p, cur),
         p \in Rebuilding, cur <= Len(jn),
         NEW f2, \/ f2 = f
                 \/ /\ IsFill(jn[cur])
                    /\ f2 = [f EXCEPT ![jn[cur].id] = @ + jn[cur].event.qty]
  PROVE  Flow(vf, f2, ex, ob, jn, p, cur + 1)
<1> DEFINE e == jn[cur]
<1>1. FlowTypes(vf, f, ex, ob, jn, cur)
  BY DEF Flow
<1>2. /\ ex \in Seq(EventEntries) /\ jn \in Seq(Entries) /\ f \in [Ids -> Nat]
      /\ cur \in 1 .. Len(jn) /\ cur + 1 \in Nat \ {0} /\ e \in Entries
  BY <1>1 DEF FlowTypes
<1> HIDE DEF e
<1>3. ob = <<>>
  BY DEF Flow, FlowMissing
<1>4. FlowTypes(vf, f, ex, ob, jn, cur + 1)
  BY <1>1, <1>2 DEF FlowTypes
<1>5. MadeBy(vf, e) /\ MissingIn(f, e)
  <2>1. cur \in cur .. Len(jn)
    BY <1>2
  <2>2. QED
    BY <1>2, <2>1 DEF Flow, FlowReal, FlowMissing, e
<1>6. IsFill(e) => HasFill(jn, e.id, e.event.cum)
  <2>1. IsFill(e) => e.event.cum >= e.event.cum
    BY <1>2, FillFields
  <2>2. QED
    BY <1>2, <2>1 DEF HasFill, e
<1>7. /\ \A j \in 1 .. Len(ex) : Precedes(e, ex[j])
      /\ \A k \in cur + 1 .. Len(jn) : Precedes(e, jn[k])
  BY <1>2 DEF Flow, FlowOrder, Before, Ordered, e
<1>8. \A k \in cur + 1 .. Len(jn) : MissingIn(f, jn[k]) /\ jn[k] \in Entries
  BY <1>2 DEF Flow, FlowMissing
<1>9. CASE f2 = f
  <2>1. FlowMissing(f, ex, ob, jn, p, cur + 1)
    BY <1>8 DEF Flow, FlowMissing
  <2>2. QED
    BY <1>4, <1>9, <2>1 DEF Flow
<1>10. CASE IsFill(e) /\ f2 = [f EXCEPT ![e.id] = @ + e.event.qty]
  <2>1. f2 \in [Ids -> Nat] /\ FlowBook(vf, f2, ob, jn)
    BY <1>1, <1>2, <1>5, <1>6, <1>10, FlowTake DEF Flow
  <2>2. FlowTypes(vf, f2, ex, ob, jn, cur + 1)
    BY <1>4, <2>1 DEF FlowTypes
  <2>3. ASSUME NEW i \in 1 .. Len(ex) PROVE MissingIn(f2, ex[i])
    <3>1. ex[i] \in EventEntries /\ MissingIn(f, ex[i]) /\ Precedes(e, ex[i])
      BY <1>2, <1>7 DEF Flow, FlowMissing
    <3>2. QED
      BY <1>2, <1>5, <1>10, <3>1, BookedThenMissing
  <2>4. ASSUME NEW k \in cur + 1 .. Len(jn) PROVE MissingIn(f2, jn[k])
    <3>1. jn[k] \in Entries /\ MissingIn(f, jn[k]) /\ Precedes(e, jn[k])
      BY <1>7, <1>8
    <3>2. QED
      BY <1>2, <1>5, <1>10, <3>1, BookedThenMissing
  <2>5. FlowMissing(f2, ex, ob, jn, p, cur + 1)
    <3>1. Len(ob) = 0
      BY <1>3
    <3>2. QED
      BY <1>3, <2>3, <2>4, <3>1 DEF FlowMissing
  <2>6. QED
    BY <2>1, <2>2, <2>5 DEF Flow
<1>11. QED
  BY <1>9, <1>10 DEF e

(* The process dies: only the journal is left, to be read from the start.  *)
LEMMA FlowCrash ==
  ASSUME NEW vf, NEW f, NEW ex, NEW ob, NEW jn, NEW cur, NEW p,
         Flow(vf, f, ex, ob, jn, p, cur),
         NEW f2, f2 = [id \in Ids |-> 0],
         NEW p2
  PROVE  Flow(vf, f2, <<>>, <<>>, jn, p2, 1)
<1>1. /\ vf \in [Ids -> Nat] /\ jn \in Seq(Entries) /\ f2 \in [Ids -> Nat]
      /\ \A i \in 1 .. Len(jn) : jn[i] \in Entries
  BY DEF Flow, FlowTypes
<1>2. Len(<<>>) = 0 /\ <<>> \in Seq(EventEntries)
  OBVIOUS
<1>3. FlowTypes(vf, f2, <<>>, <<>>, jn, 1)
  BY <1>1, <1>2 DEF FlowTypes
<1>4. FlowBook(vf, f2, <<>>, jn)
  <2>1. ASSUME NEW id \in Ids PROVE f2[id] = 0 /\ f2[id] <= vf[id]
    BY <1>1
  <2>2. QED
    BY <1>2, <2>1 DEF FlowBook
<1>5. Ordered(<<>>) /\ Before(<<>>, <<>>) /\ Before(jn, <<>>)
  BY <1>2 DEF Ordered, Before
<1>6. FlowOrder(<<>>, <<>>, jn)
  BY <1>5 DEF Flow, FlowOrder
<1>7. FlowReal(vf, <<>>, <<>>, jn)
  BY <1>2 DEF Flow, FlowReal
<1>8. ASSUME NEW k \in 1 .. Len(jn) PROVE MissingIn(f2, jn[k])
  <2>1. SUFFICES ASSUME IsFill(jn[k]) PROVE f2[jn[k].id] + jn[k].event.qty <= jn[k].event.cum
    BY DEF MissingIn
  <2>2. jn[k].id \in Ids /\ jn[k].event.qty \in Nat /\ jn[k].event.qty <= jn[k].event.cum
    BY <1>1, <2>1, FillFields DEF Flow, FlowReal, MadeBy
  <2>3. f2[jn[k].id] = 0
    BY <2>2
  <2>4. 0 + jn[k].event.qty = jn[k].event.qty
    BY <2>2
  <2>5. QED
    BY <2>2, <2>3, <2>4
<1>9. FlowMissing(f2, <<>>, <<>>, jn, p2, 1)
  BY <1>2, <1>8 DEF FlowMissing
<1>10. QED
  BY <1>3, <1>4, <1>6, <1>7, <1>9 DEF Flow
-----------------------------------------------------------------------------
(* The six values in a state of the pipeline. *)
VF == [id \in Ids |-> VenueFilled(id)]
BF == [id \in Ids |-> Filled(id)]

FlowInv == Flow(VF, BF, execs, outbox, journal, proc, cursor)

LEMMA VFType == VenueTypes => VF \in [Ids -> Nat]
  BY DEF VenueTypes, VF, VenueFilled, VenueOrder
LEMMA BFType == BookTypes => BF \in [Ids -> Nat]
  BY DEF BookTypes, BF, Filled, Tracked, OrderRecord

LEMMA InvGivesFlow == IInv => FlowInv
<1> SUFFICES ASSUME IInv PROVE FlowInv
  OBVIOUS
<1>1. FlowTypes(VF, BF, execs, outbox, journal, cursor)
  BY VFType, BFType DEF FlowTypes, IInv, TypeOk, VenueTypes, LogTypes, PipeTypes
<1>2. /\ Len(execs) \in Nat /\ Len(outbox) \in Nat /\ Len(journal) \in Nat
      /\ \A i \in 1 .. Len(execs) : execs[i] \in EventEntries
      /\ \A i \in 1 .. Len(outbox) : outbox[i] \in EventEntries
      /\ \A i \in 1 .. Len(journal) : journal[i] \in Entries
      /\ cursor \in Nat \ {0}
  BY <1>1, FlowParts DEF FlowTypes
<1>3. \A id \in Ids : VF[id] = VenueFilled(id) /\ BF[id] = Filled(id)
  BY DEF VF, BF
<1>4. ASSUME NEW e, e \in Entries \/ e \in EventEntries
      PROVE  /\ Real(e) => MadeBy(VF, e)
             /\ Unbooked(e) => MissingIn(BF, e)
  BY <1>3, <1>4, FillFields DEF Real, MadeBy, Unbooked, MissingIn
<1>5. FlowBook(VF, BF, outbox, journal)
  BY <1>3 DEF FlowBook, IInv, EngineNeverAhead, FillsAreDurable, JournaledFill, HasFill
<1>6. FlowOrder(execs, outbox, journal)
  BY DEF FlowOrder, IInv, ExecutionsInOrder
<1>7. FlowReal(VF, execs, outbox, journal)
  BY <1>2, <1>4 DEF FlowReal, IInv, ExecutionsReal
<1>8. FlowMissing(BF, execs, outbox, journal, proc, cursor)
  BY <1>2, <1>4 DEF FlowMissing, Rebuilding, IInv, UndeliveredUnbooked
<1>9. QED
  BY <1>1, <1>5, <1>6, <1>7, <1>8 DEF FlowInv, Flow

LEMMA FlowGivesInv == TypeOk /\ BookWellFormed /\ FlowInv => IInv
<1> SUFFICES ASSUME TypeOk, BookWellFormed, FlowInv PROVE IInv
  OBVIOUS
<1> USE DEF FlowInv, Flow
<1>1. FlowTypes(VF, BF, execs, outbox, journal, cursor)
  OBVIOUS
<1>2. /\ Len(execs) \in Nat /\ Len(outbox) \in Nat /\ Len(journal) \in Nat
      /\ \A i \in 1 .. Len(execs) : execs[i] \in EventEntries
      /\ \A i \in 1 .. Len(outbox) : outbox[i] \in EventEntries
      /\ \A i \in 1 .. Len(journal) : journal[i] \in Entries
      /\ cursor \in Nat \ {0}
  BY <1>1, FlowParts DEF FlowTypes
<1>3. \A id \in Ids : VF[id] = VenueFilled(id) /\ BF[id] = Filled(id)
  BY DEF VF, BF
<1>4. ASSUME NEW e, e \in Entries \/ e \in EventEntries
      PROVE  /\ MadeBy(VF, e) => Real(e)
             /\ MissingIn(BF, e) => Unbooked(e)
  BY <1>3, <1>4, FillFields DEF Real, MadeBy, Unbooked, MissingIn
<1>5. EngineNeverAhead /\ FillsAreDurable
  BY <1>3 DEF FlowBook, EngineNeverAhead, FillsAreDurable, JournaledFill, HasFill
<1>6. ExecutionsInOrder
  BY DEF FlowOrder, ExecutionsInOrder
<1>7. ExecutionsReal
  BY <1>2, <1>4 DEF FlowReal, ExecutionsReal
<1>8. UndeliveredUnbooked
  BY <1>2, <1>4 DEF FlowMissing, Rebuilding, UndeliveredUnbooked
<1>9. QED
  BY <1>5, <1>6, <1>7, <1>8 DEF IInv

LEMMA FlowGivesInvNext == TypeOk' /\ BookWellFormed' /\ FlowInv' => IInv'
  BY FlowGivesInv, PTL

FlowFunctions == VF \in [Ids -> Nat] /\ BF \in [Ids -> Nat]

LEMMA FlowFunctionsType == TypeOk => FlowFunctions
  BY VFType, BFType DEF TypeOk, FlowFunctions
LEMMA FlowFunctionsNext == TypeOk' => FlowFunctions'
  BY FlowFunctionsType, PTL

LEMMA BookFillsKept == UNCHANGED orders => BF' = BF
  BY DEF BF, Filled, Tracked
LEMMA VenueFillsKept == UNCHANGED venueOrders => VF' = VF
  BY DEF VF, VenueFilled

(* A step that touches none of the six values.                             *)
LEMMA FlowKept ==
  FlowInv /\ UNCHANGED <<orders, venueOrders, execs, outbox, journal, proc, cursor>> => FlowInv'
  BY BookFillsKept, VenueFillsKept DEF FlowInv

LEMMA EngineFlow == TypeOk /\ TypeOk' /\ FlowInv /\ EngineStep => FlowInv'
<1> SUFFICES ASSUME TypeOk, TypeOk', FlowInv, EngineStep PROVE FlowInv'
  OBVIOUS
<1>1. BF' \in [Ids -> Nat] /\ BF \in [Ids -> Nat]
  BY FlowFunctionsType, FlowFunctionsNext DEF FlowFunctions
<1>2. CASE HandleEvent \/ RunStrategy \/ Veto \/ HandleDone
  BY <1>2, FlowKept DEF HandleEvent, RunStrategy, Veto, HandleDone, venueVars, bookVars, logVars, pipeVars
<1>3. CASE DrainOne
  <2> DEFINE id     == Head(outbox).id
             event  == Head(outbox).event
             result == ApplyOrderEvent(orders[id], event)
  <2>1. outbox # <<>> /\ outbox \in Seq(EventEntries)
    BY <1>3 DEF DrainOne, TypeOk, LogTypes
  <2>2. Head(outbox) \in EventEntries
    BY <2>1, QueueParts
  <2>3. id \in Ids /\ event \in Events /\ Head(outbox).t = "event"
    BY <2>2 DEF EventEntries
  <2>4. event.type \in EventTypes /\ event.qty \in Int /\ event.qty \in Nat
    BY <2>3, EventFields
  <2>5. \/ BF' = BF
        \/ /\ IsFill(Head(outbox))
           /\ BF' = [BF EXCEPT ![id] = @ + event.qty]
    <3>1. CASE orders' = orders
      BY <3>1, BookFillsKept
    <3>2. CASE orders' # orders
      <4>1. orders[id] # None /\ orders' = [orders EXCEPT ![id] = result.order]
        BY <1>3, <3>2 DEF DrainOne
      <4>2. orders[id] \in OrderRecord /\ orders \in [Ids -> OrderRecord \cup {None}]
        BY <2>3, <4>1, TrackedType DEF TypeOk, BookTypes
      <4>3. result.order \in OrderRecord
        BY <2>4, <4>2, ApplyType
      <4>4. \/ result.order.filledQty = orders[id].filledQty
            \/ event.type = "fill" /\ result.order.filledQty = orders[id].filledQty + event.qty
        BY <2>4, <4>2, ApplyEffect
      <4>5. result.order # None
        BY <4>3, NoneAssumption
      <4> HIDE DEF result, id, event
      <4>6. /\ BF'[id] = result.order.filledQty /\ BF[id] = orders[id].filledQty
            /\ \A i \in Ids : i # id => BF'[i] = BF[i]
        BY <2>3, <4>1, <4>2, <4>5 DEF BF, Filled, Tracked
      <4>7. CASE result.order.filledQty = orders[id].filledQty
        BY <1>1, <2>3, <4>6, <4>7
      <4>8. CASE event.type = "fill" /\ result.order.filledQty = orders[id].filledQty + event.qty
        <5>1. BF' = [BF EXCEPT ![id] = @ + event.qty]
          BY <1>1, <2>3, <4>6, <4>8
        <5>2. IsFill(Head(outbox))
          BY <2>3, <4>8 DEF IsFill, event
        <5>3. QED
          BY <5>1, <5>2
      <4>9. QED
        BY <4>4, <4>7, <4>8
    <3>3. QED
      BY <3>1, <3>2
  <2>6. /\ VF' = VF /\ outbox' = Tail(outbox) /\ execs' = execs
        /\ journal' = journal /\ proc' = proc /\ cursor' = cursor
    BY <1>3, VenueFillsKept DEF DrainOne, venueVars, pipeVars
  <2>7. Flow(VF, BF', execs, Tail(outbox), journal, proc, cursor)
    BY <2>1, <2>5, FlowDrain DEF FlowInv
  <2>8. QED
    BY <2>6, <2>7 DEF FlowInv
<1>4. CASE BeginSubmit
  <2> DEFINE intent == Head(pending)
  <2>1. intent \in Intents
    BY <1>4, QueueParts DEF BeginSubmit, TypeOk, LoopTypes
  <2>2. Submitted(intent).filledQty = 0 /\ intent.id \in Ids
    BY <2>1, SubmittedType, IntentFields
  <2>3. orders' = [orders EXCEPT ![intent.id] = Submitted(intent)]
    BY <1>4 DEF BeginSubmit
  <2>4. orders \in [Ids -> OrderRecord \cup {None}]
    BY DEF TypeOk, BookTypes
  <2> HIDE DEF intent
  <2>5. ASSUME NEW id \in Ids PROVE BF'[id] = 0 \/ BF'[id] = BF[id]
    <3>1. CASE id = intent.id
      BY <2>2, <2>3, <2>4, <3>1 DEF BF, Filled, Tracked
    <3>2. CASE id # intent.id
      BY <2>2, <2>3, <2>4, <3>2 DEF BF, Filled, Tracked
    <3>3. QED
      BY <3>1, <3>2
  <2>6. \A id \in Ids : BF'[id] <= BF[id]
    BY <1>1, <2>5
  <2>7. Flow(VF, BF', execs, outbox, journal, proc, cursor)
    BY <1>1, <2>6, FlowShrinks DEF FlowInv
  <2>8. /\ VF' = VF /\ outbox' = outbox /\ execs' = execs
        /\ journal' = journal /\ proc' = proc /\ cursor' = cursor
    BY <1>4, VenueFillsKept DEF BeginSubmit, logVars, pipeVars
  <2>9. QED
    BY <2>7, <2>8 DEF FlowInv
<1>5. ASSUME NEW accepted \in BOOLEAN, AfterSubmit(accepted) PROVE FlowInv'
  <2> DEFINE id     == call.id
             result == ApplyOrderEvent(orders[id], Plain("reject"))
  <2>1. id \in Ids
    BY <1>5 DEF AfterSubmit, TypeOk, LoopTypes, Requests
  <2>2. BF' = BF
    <3>1. CASE orders' = orders
      BY <3>1, BookFillsKept
    <3>2. CASE orders' # orders
      <4>1. orders[id] # None /\ orders' = [orders EXCEPT ![id] = result.order]
        BY <1>5, <3>2 DEF AfterSubmit
      <4>2. orders[id] \in OrderRecord /\ orders \in [Ids -> OrderRecord \cup {None}]
        BY <2>1, <4>1, TrackedType DEF TypeOk, BookTypes
      <4>3. Plain("reject").type = "reject" /\ Plain("reject").type \in EventTypes /\ Plain("reject").qty \in Int
        BY DEF Plain, EventTypes
      <4>4. result.order \in OrderRecord /\ result.order.filledQty = orders[id].filledQty
        BY <4>2, <4>3, ApplyType, ApplyEffect
      <4>5. result.order # None
        BY <4>4, NoneAssumption
      <4> HIDE DEF result, id
      <4>6. \A i \in Ids : BF'[i] = BF[i]
        BY <2>1, <4>1, <4>2, <4>4, <4>5 DEF BF, Filled, Tracked
      <4>7. QED
        BY <1>1, <4>6
    <3>3. QED
      BY <3>1, <3>2
  <2>3. /\ VF' = VF /\ outbox' = outbox /\ execs' = execs
        /\ journal' = journal /\ proc' = proc /\ cursor' = cursor
    BY <1>5, VenueFillsKept DEF AfterSubmit, logVars, pipeVars
  <2>4. QED
    BY <2>2, <2>3 DEF FlowInv
<1>6. QED
  BY <1>2, <1>3, <1>4, <1>5 DEF EngineStep, SubmitReturns, SubmitFails
-----------------------------------------------------------------------------
LEMMA VenueFlow == TypeOk /\ TypeOk' /\ FlowInv /\ VenueStep => FlowInv'
<1> SUFFICES ASSUME TypeOk, TypeOk', FlowInv, VenueStep PROVE FlowInv'
  OBVIOUS
<1>1. /\ VF \in [Ids -> Nat] /\ BF \in [Ids -> Nat] /\ VF' \in [Ids -> Nat]
      /\ venueOrders \in [Ids -> VenueOrder \cup {None}]
  BY FlowFunctionsType, FlowFunctionsNext DEF FlowFunctions, TypeOk, VenueTypes
<1>2. ASSUME NEW request \in wire, VenueAccepts(request) PROVE FlowInv'
  <2>1. request.id \in Ids /\ venueOrders[request.id] = None
    BY <1>2 DEF VenueAccepts, TypeOk, VenueTypes, Requests
  <2> DEFINE order == [side |-> request.side, qty |-> request.qty, filled |-> 0, live |-> TRUE]
  <2>2. venueOrders' = [venueOrders EXCEPT ![request.id] = order] /\ order.filled = 0
    BY <1>2 DEF VenueAccepts
  <2> HIDE DEF order
  <2>3. ASSUME NEW id \in Ids PROVE VF'[id] = VF[id]
    <3>1. CASE id = request.id
      BY <1>1, <2>1, <2>2, <3>1 DEF VF, VenueFilled
    <3>2. CASE id # request.id
      BY <1>1, <2>1, <2>2, <3>2 DEF VF, VenueFilled
    <3>3. QED
      BY <3>1, <3>2
  <2>4. VF' = VF
    BY <1>1, <2>3
  <2>5. UNCHANGED <<orders, execs, outbox, journal, proc, cursor>>
    BY <1>2 DEF VenueAccepts, bookVars, pipeVars, logVars
  <2>6. QED
    BY <2>4, <2>5, BookFillsKept DEF FlowInv
<1>3. ASSUME NEW request \in wire, VenueRefuses(request) \/ RequestLost(request) PROVE FlowInv'
  BY <1>3, FlowKept DEF VenueRefuses, RequestLost, bookVars, pipeVars, logVars
<1>4. ASSUME NEW id \in Ids, VenueFills(id) PROVE FlowInv'
  <2> DEFINE order == venueOrders[id]
  <2>1. /\ order # None /\ order \in VenueOrder
        /\ order.qty \in Nat /\ order.filled \in Nat
    BY <1>1, <1>4, QtysAssumption DEF VenueFills, VenueOrder
  <2>2. PICK q \in 1 .. order.qty - order.filled :
          LET cum  == order.filled + q
              done == cum = order.qty
          IN  /\ venueOrders' = [venueOrders EXCEPT ![id] = [@ EXCEPT !.filled = cum, !.live = ~done]]
              /\ execs' = Publish(execs, EventEntry(id, FillOf(q, cum)))
    BY <1>4 DEF VenueFills
  <2> DEFINE cum    == order.filled + q
             next   == [order EXCEPT !.filled = cum, !.live = ~(cum = order.qty)]
             entry  == EventEntry(id, FillOf(q, cum))
  <2>3. /\ q \in Nat /\ cum \in Nat
        /\ venueOrders' = [venueOrders EXCEPT ![id] = next]
        /\ next.filled = cum /\ next \in VenueOrder
    <3>1. q \in Nat /\ cum \in Nat
      BY <2>1
    <3>2. venueOrders' = [venueOrders EXCEPT ![id] = next]
      BY <2>2
    <3>3. next.filled = cum /\ next \in VenueOrder
      BY <2>1, <3>1 DEF VenueOrder
    <3>4. QED
      BY <3>1, <3>2, <3>3
  <2>4. next # None
    BY <2>3, NoneAssumption
  <2>5. entry \in EventEntries
    <3>1. FillOf(q, cum) \in Events
      BY <2>3 DEF FillOf, Events, EventTypes
    <3>2. QED
      BY <3>1, EventEntryType
  <2>6. /\ IsFill(entry) /\ entry.id = id /\ entry.event.qty = q /\ entry.event.cum = cum
    BY DEF IsFill, EventEntry, FillOf
  <2> HIDE DEF next, entry
  <2>7. /\ VF[id] = order.filled /\ VF'[id] = cum
        /\ \A i \in Ids : i # id => VF'[i] = VF[i]
    BY <1>1, <2>1, <2>3, <2>4 DEF VF, VenueFilled
  <2> HIDE DEF order
  <2>8. VF' = [VF EXCEPT ![id] = @ + q]
    BY <1>1, <2>1, <2>3, <2>7
  <2>9. VF' = [VF EXCEPT ![entry.id] = @ + entry.event.qty] /\ entry.event.cum = VF[entry.id] + entry.event.qty
    BY <2>6, <2>7, <2>8
  <2>10. UNCHANGED <<orders, outbox, journal, proc, cursor>>
    BY <1>4 DEF VenueFills, bookVars, pipeVars, logVars
  <2>11. execs' = Append(execs, entry) \/ execs' = execs
    BY <2>2 DEF Publish, entry, order
  <2>12. CASE execs' = Append(execs, entry)
    <3>1. Flow(VF', BF, Append(execs, entry), outbox, journal, proc, cursor)
      BY <2>5, <2>6, <2>9, FlowFill DEF FlowInv
    <3>2. QED
      BY <2>10, <2>12, <3>1, BookFillsKept DEF FlowInv
  <2>13. CASE execs' = execs
    <3>1. \A i \in Ids : VF[i] <= VF'[i]
      BY <1>1, <2>1, <2>3, <2>7
    <3>2. Flow(VF', BF, execs, outbox, journal, proc, cursor)
      BY <1>1, <3>1, FlowGrows DEF FlowInv
    <3>3. QED
      BY <2>10, <2>13, <3>2, BookFillsKept DEF FlowInv
  <2>14. QED
    BY <2>11, <2>12, <2>13
<1>5. ASSUME NEW id \in Ids, VenueCloses(id) PROVE FlowInv'
  <2> DEFINE order == venueOrders[id]
             next  == [order EXCEPT !.live = FALSE]
  <2>1. order # None /\ order \in VenueOrder /\ venueOrders' = [venueOrders EXCEPT ![id] = next]
    BY <1>1, <1>5 DEF VenueCloses
  <2>2. next.filled = order.filled /\ next \in VenueOrder
    BY <2>1 DEF VenueOrder
  <2>3. next # None
    BY <2>2, NoneAssumption
  <2> HIDE DEF next
  <2>4. \A i \in Ids : VF'[i] = VF[i]
    BY <1>1, <2>1, <2>2, <2>3 DEF VF, VenueFilled
  <2>5. VF' = VF
    BY <1>1, <2>4
  <2>6. UNCHANGED <<orders, execs, outbox, journal, proc, cursor>>
    BY <1>5 DEF VenueCloses, bookVars, pipeVars, logVars
  <2>7. QED
    BY <2>5, <2>6, BookFillsKept DEF FlowInv
<1>6. ASSUME NEW s \in Symbols, VenueMoves(s) PROVE FlowInv'
  BY <1>6, FlowKept DEF VenueMoves, bookVars, pipeVars, logVars
<1>7. CASE Connect
  BY <1>7, FlowKept DEF Connect, bookVars, pipeVars, logVars
<1>8. CASE Disconnect
  <2>1. UNCHANGED <<orders, venueOrders, outbox, journal, proc, cursor>> /\ execs' = <<>>
    BY <1>8 DEF Disconnect, bookVars, pipeVars, logVars
  <2>2. Flow(VF, BF, <<>>, outbox, journal, proc, cursor)
    BY FlowCut DEF FlowInv
  <2>3. QED
    BY <2>1, <2>2, BookFillsKept, VenueFillsKept DEF FlowInv
<1>9. QED
  BY <1>2, <1>3, <1>4, <1>5, <1>6, <1>7, <1>8 DEF VenueStep

LEMMA StreamFlow == TypeOk /\ FlowInv /\ StreamStep => FlowInv'
<1> SUFFICES ASSUME TypeOk, FlowInv, StreamStep PROVE FlowInv'
  OBVIOUS
<1>1. ASSUME NEW id \in Ids, NEW event \in Events, HandleAccountEvent(id, event), Yielded
      PROVE  /\ proc \notin Rebuilding
             /\ outbox' = Append(outbox, EventEntry(id, event))
             /\ \E base : /\ Flow(VF, BF, execs, outbox, base, proc, cursor)
                          /\ journal' = Append(base, EventEntry(id, event))
  <2>1. proc \notin Rebuilding
    BY <1>1 DEF Yielded, Rebuilding
  <2>2. CASE orders[id] # None /\ id \notin journaledOpens
    <3>1. OpenEntry(id) \in Entries
      BY <2>2, OpenEntryType DEF TypeOk
    <3>2. ~IsFill(OpenEntry(id))
      BY DEF IsFill, OpenEntry
    <3>3. Flow(VF, BF, execs, outbox, Append(journal, OpenEntry(id)), proc, cursor)
      BY <2>1, <3>1, <3>2, FlowMark DEF FlowInv
    <3>4. QED
      BY <1>1, <2>1, <2>2, <3>3 DEF HandleAccountEvent
  <2>3. CASE ~(orders[id] # None /\ id \notin journaledOpens)
    BY <1>1, <2>1, <2>3 DEF HandleAccountEvent, FlowInv
  <2>4. QED
    BY <2>2, <2>3
<1>2. CASE DeliverUpdate
  <2> DEFINE id   == Head(updates).id
             type == UpdateEvent(Head(updates).status)
             e    == EventEntry(id, Plain(type))
  <2>1. Head(updates) \in [id : Ids, status : Statuses]
    BY <1>2, QueueParts DEF DeliverUpdate, TypeOk, VenueTypes
  <2>2. id \in Ids /\ (type = "none" \/ type \in EventTypes \ {"fill"})
    BY <2>1 DEF Statuses, UpdateEvent, EventTypes
  <2>3. UNCHANGED <<orders, venueOrders, execs, proc, cursor>>
    BY <1>2 DEF DeliverUpdate, bookVars, pipeVars
  <2>4. CASE type = "none"
    <3>1. UNCHANGED <<journal, outbox>>
      BY <1>2, <2>4 DEF DeliverUpdate, logVars
    <3>2. QED
      BY <2>3, <3>1, FlowKept
  <2>5. CASE type # "none"
    <3>1. Plain(type) \in Events /\ HandleAccountEvent(id, Plain(type)) /\ Yielded
      BY <1>2, <2>2, <2>5, PlainEvent DEF DeliverUpdate
    <3>2. e \in EventEntries /\ e \in Entries
      BY <2>2, <3>1, EventEntryType
    <3>3. ~IsFill(e)
      BY <2>2, <2>5 DEF IsFill, EventEntry, Plain
    <3> HIDE DEF id, type
    <3>4. PICK base : /\ Flow(VF, BF, execs, outbox, base, proc, cursor)
                      /\ journal' = Append(base, e)
      BY <1>1, <2>2, <3>1
    <3>5. outbox' = Append(outbox, e) /\ proc \notin Rebuilding
      BY <1>1, <2>2, <3>1
    <3> HIDE DEF e
    <3>6. Flow(VF, BF, execs, Append(outbox, e), Append(base, e), proc, cursor)
      BY <3>2, <3>3, <3>4, <3>5, FlowPlain
    <3>7. QED
      BY <2>3, <3>4, <3>5, <3>6, BookFillsKept, VenueFillsKept DEF FlowInv
  <2>6. QED
    BY <2>4, <2>5
<1>3. CASE DeliverExecution
  <2> DEFINE e == Head(execs)
  <2>1. execs # <<>> /\ e \in EventEntries
    BY <1>3, QueueParts DEF DeliverExecution, TypeOk, VenueTypes
  <2>2. e.id \in Ids /\ e.event \in Events /\ EventEntry(e.id, e.event) = e
    BY <2>1 DEF EventEntries, EventEntry
  <2>3. HandleAccountEvent(e.id, e.event) /\ Yielded /\ execs' = Tail(execs)
    BY <1>3 DEF DeliverExecution
  <2>4. UNCHANGED <<orders, venueOrders, proc, cursor>>
    BY <1>3 DEF DeliverExecution, bookVars, pipeVars
  <2>5. PICK base : /\ Flow(VF, BF, execs, outbox, base, proc, cursor)
                    /\ journal' = Append(base, e)
    BY <1>1, <2>2, <2>3
  <2>6. outbox' = Append(outbox, e) /\ proc \notin Rebuilding
    BY <1>1, <2>2, <2>3
  <2>7. Flow(VF, BF, Tail(execs), Append(outbox, Head(execs)), Append(base, Head(execs)), proc, cursor)
    BY <2>1, <2>5, <2>6, FlowDeliver
  <2>8. QED
    BY <2>3, <2>4, <2>5, <2>6, <2>7, BookFillsKept, VenueFillsKept DEF FlowInv
<1>4. ASSUME NEW s \in Symbols, DeliverPosition(s) PROVE FlowInv'
  BY <1>4, FlowKept DEF DeliverPosition, venueVars, bookVars, logVars
<1>5. QED
  BY <1>2, <1>3, <1>4 DEF StreamStep

LEMMA PipelineFlow == TypeOk /\ TypeOk' /\ FlowInv /\ PipelineStep => FlowInv'
<1> SUFFICES ASSUME TypeOk, TypeOk', FlowInv, PipelineStep PROVE FlowInv'
  OBVIOUS
<1>1. BF' \in [Ids -> Nat] /\ BF \in [Ids -> Nat]
  BY FlowFunctionsType, FlowFunctionsNext DEF FlowFunctions
<1>2. CASE ReconStart \/ ReadOpenOrders \/ ReadPositions
  BY <1>2, FlowKept DEF ReconStart, ReadOpenOrders, ReadPositions, venueVars, bookVars, logVars
<1>3. CASE ReconFinish
  <2>1. proc \notin Rebuilding /\ proc' \notin Rebuilding
    BY <1>3 DEF ReconFinish, Yielded, Rebuilding
  <2>2. UNCHANGED <<orders, venueOrders, execs, outbox, cursor>>
    BY <1>3 DEF ReconFinish, venueVars
  <2>3. [t |-> "reconciled"] \in Entries /\ ~IsFill([t |-> "reconciled"])
    BY DEF Entries, IsFill
  <2>4. journal' = journal \/ journal' = Append(journal, [t |-> "reconciled"])
    BY <1>3 DEF ReconFinish
  <2>5. Flow(VF, BF, execs, outbox, journal', proc, cursor)
    BY <2>1, <2>3, <2>4, FlowMark DEF FlowInv
  <2>6. Flow(VF, BF, execs, outbox, journal', proc', cursor)
    BY <2>1, <2>5, FlowPhase
  <2>7. QED
    BY <2>2, <2>6, BookFillsKept, VenueFillsKept DEF FlowInv
<1>4. CASE ReconFails
  <2>1. proc' \notin Rebuilding
    BY <1>4 DEF ReconFails, Rebuilding
  <2>2. UNCHANGED <<orders, venueOrders, execs, outbox, journal, cursor>>
    BY <1>4 DEF ReconFails, venueVars, bookVars, logVars
  <2>3. Flow(VF, BF, execs, outbox, journal, proc', cursor)
    BY <2>1, FlowPhase DEF FlowInv
  <2>4. QED
    BY <2>2, <2>3, BookFillsKept, VenueFillsKept DEF FlowInv
<1>5. CASE Crash
  <2>1. /\ UNCHANGED <<venueOrders, journal>>
        /\ execs' = <<>> /\ outbox' = <<>> /\ cursor' = 1
        /\ orders' = [id \in Ids |-> None]
    BY <1>5 DEF Crash
  <2>2. BF' = [id \in Ids |-> 0]
    BY <2>1 DEF BF, Filled, Tracked
  <2>3. Flow(VF, BF', <<>>, <<>>, journal, proc', 1)
    BY <2>2, FlowCrash DEF FlowInv
  <2>4. QED
    BY <2>1, <2>3, VenueFillsKept DEF FlowInv
<1>6. CASE ColdStart
  <2>1. proc \in Rebuilding
    BY <1>6 DEF ColdStart, Rebuilding
  <2>2. UNCHANGED <<orders, venueOrders, execs, outbox, journal, cursor>>
    BY <1>6 DEF ColdStart, venueVars, bookVars, logVars
  <2>3. Flow(VF, BF, execs, outbox, journal, proc', cursor)
    BY <2>1, FlowPhase DEF FlowInv
  <2>4. QED
    BY <2>2, <2>3, BookFillsKept, VenueFillsKept DEF FlowInv
<1>7. CASE ReplayOne
  <2> DEFINE e == journal[cursor]
  <2>1. /\ proc \in Rebuilding /\ cursor <= Len(journal) /\ cursor' = cursor + 1
        /\ orders' = ReplayOrder(orders, e)
        /\ UNCHANGED <<venueOrders, execs, outbox, journal, proc>>
    BY <1>7 DEF ReplayOne, Rebuilding, venueVars, logVars
  <2>2. e \in Entries /\ orders \in [Ids -> OrderRecord \cup {None}]
    BY <2>1 DEF TypeOk, PipeTypes, LogTypes, BookTypes
  <2>3. Flow(VF, BF, execs, outbox, journal, proc, cursor + 1)
    BY <2>1, FlowReplay DEF FlowInv
  <2>4. Flow(VF, BF', execs, outbox, journal, proc, cursor + 1)
    <3>1. CASE orders' = orders
      BY <2>3, <3>1, BookFillsKept
    <3>2. CASE e.t = "open"
      <4>1. e.id \in Ids
        BY <2>2, <3>2, EntryFields
      <4>2. orders' = [orders EXCEPT ![e.id] = NewOrder(e.side, e.qty)] /\ NewOrder(e.side, e.qty).filledQty = 0
        BY <2>1, <3>2 DEF ReplayOrder, NewOrder
      <4> HIDE DEF e
      <4>3. ASSUME NEW id \in Ids PROVE BF'[id] = 0 \/ BF'[id] = BF[id]
        <5>1. CASE id = e.id
          BY <2>2, <4>1, <4>2, <5>1 DEF BF, Filled, Tracked
        <5>2. CASE id # e.id
          BY <2>2, <4>1, <4>2, <5>2 DEF BF, Filled, Tracked
        <5>3. QED
          BY <5>1, <5>2
      <4>4. \A id \in Ids : BF'[id] <= BF[id]
        BY <1>1, <4>3
      <4>5. QED
        BY <1>1, <2>3, <4>4, FlowShrinks
    <3>3. CASE e.t = "event" /\ orders' # orders
      <4> DEFINE id     == e.id
                 event  == e.event
                 result == ApplyOrderEvent(orders[id], event)
      <4>1. id \in Ids /\ event.type \in EventTypes /\ event.qty \in Int /\ event.qty \in Nat
        BY <2>2, <3>3, EntryFields, EventFields
      <4>2. orders[id] # None /\ orders' = [orders EXCEPT ![id] = result.order]
        BY <2>1, <3>3 DEF ReplayOrder
      <4>3. orders[id] \in OrderRecord
        BY <4>1, <4>2, TrackedType DEF TypeOk
      <4>4. result.order \in OrderRecord
        BY <4>1, <4>3, ApplyType
      <4>5. \/ result.order.filledQty = orders[id].filledQty
            \/ event.type = "fill" /\ result.order.filledQty = orders[id].filledQty + event.qty
        BY <4>1, <4>3, ApplyEffect
      <4>6. result.order # None
        BY <4>4, NoneAssumption
      <4> HIDE DEF result, id, event
      <4>7. /\ BF'[id] = result.order.filledQty /\ BF[id] = orders[id].filledQty
            /\ \A i \in Ids : i # id => BF'[i] = BF[i]
        BY <2>2, <4>1, <4>2, <4>6 DEF BF, Filled, Tracked
      <4>8. CASE result.order.filledQty = orders[id].filledQty
        <5>1. BF' = BF
          BY <1>1, <4>1, <4>7, <4>8
        <5>2. QED
          BY <2>3, <5>1
      <4>9. CASE event.type = "fill" /\ result.order.filledQty = orders[id].filledQty + event.qty
        <5>1. BF' = [BF EXCEPT ![id] = @ + event.qty]
          BY <1>1, <4>1, <4>7, <4>9
        <5>2. IsFill(journal[cursor])
          BY <3>3, <4>9 DEF IsFill, event
        <5>3. BF' = [BF EXCEPT ![journal[cursor].id] = @ + journal[cursor].event.qty]
          BY <5>1 DEF id, event
        <5>4. QED
          BY <2>1, <5>2, <5>3, FlowReplay DEF FlowInv
      <4>10. QED
        BY <4>5, <4>8, <4>9
    <3>4. CASE e.t = "reconciled"
      <4>1. orders' = orders
        BY <2>1, <3>4 DEF ReplayOrder
      <4>2. QED
        BY <2>3, <4>1, BookFillsKept
    <3>5. QED
      BY <2>2, <3>1, <3>2, <3>3, <3>4, EntryFields
  <2>5. QED
    BY <2>1, <2>4, VenueFillsKept DEF FlowInv
<1>8. CASE ReplayDone
  <2>1. proc' \notin Rebuilding
    BY <1>8 DEF ReplayDone, Rebuilding
  <2>2. UNCHANGED <<orders, venueOrders, execs, outbox, journal, cursor>>
    BY <1>8 DEF ReplayDone, venueVars, bookVars, logVars
  <2>3. Flow(VF, BF, execs, outbox, journal, proc', cursor)
    BY <2>1, FlowPhase DEF FlowInv
  <2>4. QED
    BY <2>2, <2>3, BookFillsKept, VenueFillsKept DEF FlowInv
<1>9. QED
  BY <1>2, <1>3, <1>4, <1>5, <1>6, <1>7, <1>8 DEF PipelineStep
-----------------------------------------------------------------------------
(* Records stay well formed: only DrainOne, BeginSubmit, a late answer and *)
(* the replay write one, and each applies an event to a well-formed record *)
(* or starts a new one.                                                    *)
LEMMA WellFormedKept ==
  ASSUME TypeOk, BookWellFormed,
         NEW id \in Ids, NEW next \in OrderRecord, WellFormed(next),
         orders' = [orders EXCEPT ![id] = next]
  PROVE  BookWellFormed'
<1>1. orders \in [Ids -> OrderRecord \cup {None}]
  BY DEF TypeOk, BookTypes
<1>2. ASSUME NEW i \in Ids, orders'[i] # None PROVE WellFormed(orders'[i])
  <2>1. CASE i = id
    BY <1>1, <2>1
  <2>2. CASE i # id
    BY <1>1, <1>2, <2>2 DEF BookWellFormed, Tracked
  <2>3. QED
    BY <2>1, <2>2
<1>3. QED
  BY <1>2 DEF BookWellFormed, Tracked

LEMMA BookUnchanged == BookWellFormed /\ UNCHANGED orders => BookWellFormed'
  BY DEF BookWellFormed, Tracked

LEMMA EventWellFormed ==
  ASSUME TypeOk, BookWellFormed, NEW id \in Ids, orders[id] # None,
         NEW event, event.type \in EventTypes, event.qty \in Int
  PROVE  /\ ApplyOrderEvent(orders[id], event).order \in OrderRecord
         /\ WellFormed(ApplyOrderEvent(orders[id], event).order)
<1>1. orders[id] \in OrderRecord /\ WellFormed(orders[id])
  BY TrackedType DEF TypeOk, BookWellFormed, Tracked
<1>2. QED
  BY <1>1, ApplyType, ApplyWellFormed

LEMMA StepWellFormed == TypeOk /\ BookWellFormed /\ Next => BookWellFormed'
<1> SUFFICES ASSUME TypeOk, BookWellFormed, Next PROVE BookWellFormed'
  OBVIOUS
<1>1. CASE DrainOne
  <2> DEFINE id    == Head(outbox).id
             event == Head(outbox).event
  <2>1. Head(outbox) \in EventEntries
    BY <1>1, QueueParts DEF DrainOne, TypeOk, LogTypes
  <2>2. id \in Ids /\ event.type \in EventTypes /\ event.qty \in Int
    BY <2>1, EventFields DEF EventEntries
  <2>3. \/ orders' = orders
        \/ /\ orders[id] # None
           /\ orders' = [orders EXCEPT ![id] = ApplyOrderEvent(orders[id], event).order]
    BY <1>1 DEF DrainOne
  <2> HIDE DEF id, event
  <2>4. QED
    BY <2>2, <2>3, EventWellFormed, WellFormedKept, BookUnchanged
<1>2. CASE BeginSubmit
  <2>1. Head(pending) \in Intents
    BY <1>2, QueueParts DEF BeginSubmit, TypeOk, LoopTypes
  <2>2. /\ Submitted(Head(pending)) \in OrderRecord /\ WellFormed(Submitted(Head(pending)))
        /\ Head(pending).id \in Ids
    BY <2>1, SubmittedType, IntentFields
  <2>3. orders' = [orders EXCEPT ![Head(pending).id] = Submitted(Head(pending))]
    BY <1>2 DEF BeginSubmit
  <2>4. QED
    BY <2>2, <2>3, WellFormedKept
<1>3. ASSUME NEW accepted \in BOOLEAN, AfterSubmit(accepted) PROVE BookWellFormed'
  <2>1. call.id \in Ids
    BY <1>3 DEF AfterSubmit, TypeOk, LoopTypes, Requests
  <2>2. Plain("reject").type \in EventTypes /\ Plain("reject").qty \in Int
    BY DEF Plain, EventTypes
  <2>3. \/ orders' = orders
        \/ /\ orders[call.id] # None
           /\ orders' = [orders EXCEPT ![call.id] = ApplyOrderEvent(orders[call.id], Plain("reject")).order]
    BY <1>3 DEF AfterSubmit
  <2>4. QED
    BY <2>1, <2>2, <2>3, EventWellFormed, WellFormedKept, BookUnchanged
<1>4. CASE HandleEvent \/ RunStrategy \/ Veto \/ HandleDone
  BY <1>4, BookUnchanged DEF HandleEvent, RunStrategy, Veto, HandleDone, bookVars
<1>5. CASE EngineStep
  BY <1>1, <1>2, <1>3, <1>4, <1>5 DEF EngineStep, SubmitReturns, SubmitFails
<1>6. CASE VenueStep
  <2>1. UNCHANGED orders
    BY <1>6 DEF VenueStep, VenueAccepts, VenueRefuses, RequestLost, VenueFills, VenueCloses,
                VenueMoves, Connect, Disconnect, bookVars
  <2>2. QED
    BY <2>1, BookUnchanged
<1>7. CASE StreamStep
  <2>1. UNCHANGED orders
    BY <1>7 DEF StreamStep, DeliverUpdate, DeliverExecution, DeliverPosition, bookVars
  <2>2. QED
    BY <2>1, BookUnchanged
<1>8. CASE Crash
  BY <1>8 DEF Crash, BookWellFormed, Tracked
<1>9. CASE ReplayOne
  <2> DEFINE e == journal[cursor]
  <2>1. orders' = ReplayOrder(orders, e) /\ e \in Entries
    BY <1>9 DEF ReplayOne, TypeOk, PipeTypes, LogTypes
  <2> HIDE DEF e
  <2>2. CASE e.t = "open"
    <3>1. e.id \in Ids /\ NewOrder(e.side, e.qty) \in OrderRecord /\ WellFormed(NewOrder(e.side, e.qty))
      BY <2>1, <2>2, EntryFields, NewOrderType
    <3>2. orders' = [orders EXCEPT ![e.id] = NewOrder(e.side, e.qty)]
      BY <2>1, <2>2 DEF ReplayOrder
    <3>3. QED
      BY <3>1, <3>2, WellFormedKept
  <2>3. CASE e.t = "event"
    <3>1. e.id \in Ids /\ e.event.type \in EventTypes /\ e.event.qty \in Int
      BY <2>1, <2>3, EntryFields, EventFields
    <3>2. \/ orders' = orders
          \/ /\ orders[e.id] # None
             /\ orders' = [orders EXCEPT ![e.id] = ApplyOrderEvent(orders[e.id], e.event).order]
      BY <2>1, <2>3 DEF ReplayOrder
    <3>3. QED
      BY <3>1, <3>2, EventWellFormed, WellFormedKept, BookUnchanged
  <2>4. CASE e.t = "reconciled"
    BY <2>1, <2>4, BookUnchanged DEF ReplayOrder
  <2>5. QED
    BY <2>1, <2>2, <2>3, <2>4, EntryFields
<1>10. CASE ReconStart \/ ReadOpenOrders \/ ReadPositions \/ ReconFinish \/ ReconFails
              \/ ColdStart \/ ReplayDone
  <2>1. UNCHANGED orders
    BY <1>10 DEF ReconStart, ReadOpenOrders, ReadPositions, ReconFinish, ReconFails,
                 ColdStart, ReplayDone, bookVars
  <2>2. QED
    BY <2>1, BookUnchanged
<1>11. QED
  BY <1>5, <1>6, <1>7, <1>8, <1>9, <1>10 DEF Next, PipelineStep
-----------------------------------------------------------------------------
LEMMA InitIInv == Init => IInv
<1> SUFFICES ASSUME Init PROVE IInv
  OBVIOUS
<1>1. TypeOk
  BY InitTypes
<1>2. BookWellFormed
  BY DEF Init, BookWellFormed, Tracked
<1>3. VF = [id \in Ids |-> 0] /\ BF = [id \in Ids |-> 0]
  BY DEF Init, VF, BF, VenueFilled, Filled, Tracked
<1>4. execs = <<>> /\ outbox = <<>> /\ journal = <<>> /\ cursor = 1
  BY DEF Init
<1>5. Len(<<>>) = 0 /\ <<>> \in Seq(EventEntries) /\ <<>> \in Seq(Entries)
  OBVIOUS
<1>6. VF \in [Ids -> Nat] /\ BF \in [Ids -> Nat]
  BY <1>3
<1>7. FlowTypes(VF, BF, <<>>, <<>>, <<>>, 1)
  BY <1>5, <1>6 DEF FlowTypes
<1>8. FlowBook(VF, BF, <<>>, <<>>)
  <2>1. \A id \in Ids : VF[id] = 0 /\ BF[id] = 0
    BY <1>3
  <2>2. QED
    BY <1>5, <2>1 DEF FlowBook
<1>9. FlowOrder(<<>>, <<>>, <<>>)
  BY <1>5 DEF FlowOrder, Ordered, Before
<1>10. FlowReal(VF, <<>>, <<>>, <<>>)
  BY <1>5 DEF FlowReal
<1>11. FlowMissing(BF, <<>>, <<>>, <<>>, proc, 1)
  BY <1>5 DEF FlowMissing
<1>12. FlowInv
  BY <1>4, <1>7, <1>8, <1>9, <1>10, <1>11 DEF FlowInv, Flow
<1>13. QED
  BY <1>1, <1>2, <1>12, FlowGivesInv

LEMMA NextIInv == IInv /\ [Next]_vars => IInv'
<1> SUFFICES ASSUME IInv, [Next]_vars PROVE IInv'
  OBVIOUS
<1>1. TypeOk /\ BookWellFormed /\ FlowInv
  BY InvGivesFlow DEF IInv
<1>2. TypeOk'
  BY <1>1, NextTypes
<1>3. CASE Next
  <2>1. FlowInv'
    BY <1>1, <1>2, <1>3, EngineFlow, VenueFlow, StreamFlow, PipelineFlow DEF Next
  <2>2. BookWellFormed'
    BY <1>1, <1>3, StepWellFormed
  <2>3. QED
    BY <1>2, <2>1, <2>2, FlowGivesInvNext
<1>4. CASE UNCHANGED vars
  <2>1. UNCHANGED <<orders, venueOrders, execs, outbox, journal, proc, cursor>>
    BY <1>4 DEF vars, venueVars, bookVars, logVars, pipeVars
  <2>2. FlowInv' /\ BookWellFormed'
    BY <1>1, <2>1, FlowKept, BookUnchanged
  <2>3. QED
    BY <1>2, <2>2, FlowGivesInvNext
<1>5. QED
  BY <1>3, <1>4

LEMMA PipelineInvariant == Spec => []IInv
<1>1. Init => IInv
  BY InitIInv
<1>2. IInv /\ [Next]_vars => IInv'
  BY NextIInv
<1>3. QED
  BY <1>1, <1>2, PTL DEF Spec

(* Whatever is lost, delayed, replayed or answered late, every record in   *)
(* Engine.orders is one whose state and filled quantity agree.             *)
THEOREM BookAlwaysWellFormed == Spec => []BookWellFormed
<1>1. IInv => BookWellFormed
  BY DEF IInv
<1>2. QED
  BY <1>1, PipelineInvariant, PTL

(* The engine never books a fill the exchange did not make, and none       *)
(* twice, through any number of crashes and replays of the journal.        *)
THEOREM NeverAhead == Spec => []EngineNeverAhead
<1>1. IInv => EngineNeverAhead
  BY DEF IInv
<1>2. QED
  BY <1>1, PipelineInvariant, PTL

(* Every fill the engine holds, or is about to drain, is in the journal.   *)
THEOREM FillsAlwaysDurable == Spec => []FillsAreDurable
<1>1. IInv => FillsAreDurable
  BY DEF IInv
<1>2. QED
  BY <1>1, PipelineInvariant, PTL
-----------------------------------------------------------------------------
(***************************************************************************)
(* What the engine's book answers for.                                     *)
(*                                                                         *)
(* First, in every life of the process: with the recovery gate open the    *)
(* engine knows every order the journal opened.  The inductive invariant   *)
(* is about the part of the journal the engine answers for: during a       *)
(* replay what has been replayed, and at any other time all of it.         *)
(*                                                                         *)
(* Then, up to the first crash: no record is overwritten or walks back,    *)
(* positions and order fills are two accounts of the same trades, and no   *)
(* execution is lost on its way to the book.                               *)
(***************************************************************************)
KnownUpTo == IF proc \in {"down", "replay"} THEN cursor - 1 ELSE Len(journal)

KnownPart ==
  \A k \in 1 .. Len(journal) :
    k <= KnownUpTo /\ journal[k].t = "open" => orders[journal[k].id] # None

(* No order of the book is forgotten. *)
Remembers == \A id \in Ids : orders[id] # None => orders'[id] # None

LEMMA OpenIds ==
  ASSUME LogTypes, NEW k \in 1 .. Len(journal), journal[k].t = "open"
  PROVE  journal[k].id \in Ids
<1>1. journal[k] \in Entries
  BY DEF LogTypes
<1>2. QED
  BY <1>1, EntryFields

LEMMA SameJournal ==
  ASSUME LogTypes, KnownPart, Remembers, UNCHANGED <<journal, proc, cursor>>
  PROVE  KnownPart'
  BY OpenIds DEF KnownPart, Remembers, KnownUpTo

LEMMA RemembersKept == UNCHANGED orders => Remembers
  BY DEF Remembers

LEMMA RemembersWrite ==
  ASSUME BookTypes, NEW id \in Ids, NEW next \in OrderRecord,
         orders' = [orders EXCEPT ![id] = next]
  PROVE  Remembers
<1>1. next # None
  BY NoneAssumption
<1>2. QED
  BY <1>1 DEF BookTypes, Remembers

LEMMA EngineRemembers == TypeOk /\ EngineStep => Remembers
<1> SUFFICES ASSUME TypeOk, EngineStep PROVE Remembers
  OBVIOUS
<1>1. BookTypes
  BY DEF TypeOk
<1>2. CASE HandleEvent \/ RunStrategy \/ Veto \/ HandleDone
  BY <1>2, RemembersKept DEF HandleEvent, RunStrategy, Veto, HandleDone, bookVars
<1>3. CASE DrainOne
  <2> DEFINE id    == Head(outbox).id
             event == Head(outbox).event
  <2>1. Head(outbox) \in EventEntries
    BY <1>3, QueueParts DEF DrainOne, TypeOk, LogTypes
  <2>2. id \in Ids /\ event.type \in EventTypes /\ event.qty \in Int
    BY <2>1, EventFields DEF EventEntries
  <2>3. \/ orders' = orders
        \/ /\ orders[id] # None
           /\ orders' = [orders EXCEPT ![id] = ApplyOrderEvent(orders[id], event).order]
    BY <1>3 DEF DrainOne
  <2> HIDE DEF id, event
  <2>4. QED
    BY <1>1, <2>2, <2>3, TrackedType, ApplyType, RemembersWrite, RemembersKept
<1>4. CASE BeginSubmit
  <2>1. Head(pending) \in Intents
    BY <1>4, QueueParts DEF BeginSubmit, TypeOk, LoopTypes
  <2>2. Submitted(Head(pending)) \in OrderRecord /\ Head(pending).id \in Ids
    BY <2>1, SubmittedType, IntentFields
  <2>3. orders' = [orders EXCEPT ![Head(pending).id] = Submitted(Head(pending))]
    BY <1>4 DEF BeginSubmit
  <2>4. QED
    BY <1>1, <2>2, <2>3, RemembersWrite
<1>5. ASSUME NEW accepted \in BOOLEAN, AfterSubmit(accepted) PROVE Remembers
  <2>1. call.id \in Ids
    BY <1>5 DEF AfterSubmit, TypeOk, LoopTypes, Requests
  <2>2. Plain("reject").type \in EventTypes /\ Plain("reject").qty \in Int
    BY DEF Plain, EventTypes
  <2>3. \/ orders' = orders
        \/ /\ orders[call.id] # None
           /\ orders' = [orders EXCEPT ![call.id] = ApplyOrderEvent(orders[call.id], Plain("reject")).order]
    BY <1>5 DEF AfterSubmit
  <2>4. QED
    BY <1>1, <2>1, <2>2, <2>3, TrackedType, ApplyType, RemembersWrite, RemembersKept
<1>6. QED
  BY <1>2, <1>3, <1>4, <1>5 DEF EngineStep, SubmitReturns, SubmitFails

(* Entries written outside a replay: a batch of them keeps what is known   *)
(* if each new open entry is of a tracked order.                           *)
LEMMA GrowJournal ==
  ASSUME LogTypes, KnownPart, Remembers,
         proc \in {"cold", "up"}, proc' \in {"cold", "up"},
         NEW e \in Entries, journal' = Append(journal, e), e.t = "open" => orders'[e.id] # None
  PROVE  KnownPart'
<1>1. KnownUpTo = Len(journal) /\ journal \in Seq(Entries)
  BY DEF KnownUpTo, LogTypes
<1>2. ASSUME NEW k \in 1 .. Len(journal'), journal'[k].t = "open" PROVE orders'[journal'[k].id] # None
  <2>1. (k \in 1 .. Len(journal) /\ journal'[k] = journal[k]) \/ journal'[k] = e
    BY <1>1, AppendParts
  <2>2. CASE journal'[k] = e
    BY <1>2, <2>2
  <2>3. CASE k \in 1 .. Len(journal) /\ journal'[k] = journal[k]
    <3>1. orders[journal[k].id] # None /\ journal[k].id \in Ids
      BY <1>1, <1>2, <2>3, OpenIds DEF KnownPart
    <3>2. QED
      BY <2>3, <3>1 DEF Remembers
  <2>4. QED
    BY <2>1, <2>2, <2>3
<1>3. QED
  BY <1>2 DEF KnownPart

LEMMA AccountEventKnown ==
  ASSUME TypeOk, KnownPart, Yielded, UNCHANGED <<orders, proc>>,
         NEW id \in Ids, NEW event \in Events, HandleAccountEvent(id, event)
  PROVE  KnownPart'
<1>1. journal \in Seq(Entries) /\ KnownUpTo = Len(journal) /\ KnownUpTo' = Len(journal')
  BY DEF TypeOk, LogTypes, KnownUpTo, Yielded
<1>2. EventEntry(id, event) \in Entries /\ EventEntry(id, event).t = "event"
  BY EventEntryType DEF EventEntry
<1>3. ASSUME NEW base \in Seq(Entries),
             \A k \in 1 .. Len(base) : base[k].t = "open" => orders[base[k].id] # None,
             journal' = Append(base, EventEntry(id, event))
      PROVE  KnownPart'
  <2>1. ASSUME NEW k \in 1 .. Len(journal'), journal'[k].t = "open" PROVE orders'[journal'[k].id] # None
    <3>1. (k \in 1 .. Len(base) /\ journal'[k] = base[k]) \/ journal'[k] = EventEntry(id, event)
      BY <1>2, <1>3, AppendParts
    <3>2. QED
      BY <1>2, <1>3, <2>1, <3>1
  <2>2. QED
    BY <2>1 DEF KnownPart
<1>4. \A k \in 1 .. Len(journal) : journal[k].t = "open" => orders[journal[k].id] # None
  BY <1>1 DEF KnownPart
<1>5. CASE orders[id] # None /\ id \notin journaledOpens
  <2> DEFINE base == Append(journal, OpenEntry(id))
  <2>1. OpenEntry(id) \in Entries /\ OpenEntry(id).id = id /\ orders[id] # None
    BY <1>5, OpenEntryType DEF OpenEntry, TypeOk
  <2>2. base \in Seq(Entries)
    BY <1>1, <2>1, AppendParts
  <2>3. ASSUME NEW k \in 1 .. Len(base), base[k].t = "open" PROVE orders[base[k].id] # None
    <3>1. (k \in 1 .. Len(journal) /\ base[k] = journal[k]) \/ base[k] = OpenEntry(id)
      BY <1>1, <2>1, AppendParts
    <3>2. QED
      BY <1>4, <2>1, <2>3, <3>1
  <2>4. journal' = Append(base, EventEntry(id, event))
    BY <1>5 DEF HandleAccountEvent
  <2> HIDE DEF base
  <2>5. QED
    BY <1>3, <2>2, <2>3, <2>4
<1>6. CASE ~(orders[id] # None /\ id \notin journaledOpens)
  <2>1. journal' = Append(journal, EventEntry(id, event))
    BY <1>6 DEF HandleAccountEvent
  <2>2. QED
    BY <1>1, <1>3, <1>4, <2>1
<1>7. QED
  BY <1>5, <1>6

LEMMA StreamKnown == TypeOk /\ KnownPart /\ StreamStep => KnownPart'
<1> SUFFICES ASSUME TypeOk, KnownPart, StreamStep PROVE KnownPart'
  OBVIOUS
<1>1. CASE DeliverUpdate
  <2> DEFINE id   == Head(updates).id
             type == UpdateEvent(Head(updates).status)
  <2>1. Head(updates) \in [id : Ids, status : Statuses]
    BY <1>1, QueueParts DEF DeliverUpdate, TypeOk, VenueTypes
  <2>2. id \in Ids /\ (type = "none" \/ type \in EventTypes)
    BY <2>1 DEF Statuses, UpdateEvent, EventTypes
  <2>3. UNCHANGED <<orders, proc, cursor>> /\ Yielded
    BY <1>1 DEF DeliverUpdate, bookVars, pipeVars
  <2>4. CASE type = "none"
    <3>1. UNCHANGED journal
      BY <1>1, <2>4 DEF DeliverUpdate, logVars
    <3>2. QED
      BY <2>3, <3>1, SameJournal, RemembersKept DEF TypeOk
  <2>5. CASE type # "none"
    <3>1. Plain(type) \in Events /\ HandleAccountEvent(id, Plain(type))
      BY <1>1, <2>2, <2>5, PlainEvent DEF DeliverUpdate
    <3>2. QED
      BY <2>2, <2>3, <3>1, AccountEventKnown
  <2>6. QED
    BY <2>4, <2>5
<1>2. CASE DeliverExecution
  <2>1. Head(execs) \in EventEntries
    BY <1>2, QueueParts DEF DeliverExecution, TypeOk, VenueTypes
  <2>2. Head(execs).id \in Ids /\ Head(execs).event \in Events
    BY <2>1 DEF EventEntries
  <2>3. /\ HandleAccountEvent(Head(execs).id, Head(execs).event)
        /\ UNCHANGED <<orders, proc>> /\ Yielded
    BY <1>2 DEF DeliverExecution, bookVars, pipeVars
  <2>4. QED
    BY <2>2, <2>3, AccountEventKnown
<1>3. ASSUME NEW s \in Symbols, DeliverPosition(s) PROVE KnownPart'
  <2>1. UNCHANGED <<orders, journal, proc, cursor>>
    BY <1>3 DEF DeliverPosition, bookVars, logVars
  <2>2. QED
    BY <2>1, SameJournal, RemembersKept DEF TypeOk
<1>4. QED
  BY <1>1, <1>2, <1>3 DEF StreamStep

LEMMA PipelineKnown == TypeOk /\ TypeOk' /\ KnownPart /\ PipelineStep => KnownPart'
<1> SUFFICES ASSUME TypeOk, TypeOk', KnownPart, PipelineStep PROVE KnownPart'
  OBVIOUS
<1> USE DEF TypeOk
<1>1. CASE ReconStart \/ ReadOpenOrders \/ ReadPositions
  <2>1. UNCHANGED <<orders, journal, proc, cursor>>
    BY <1>1 DEF ReconStart, ReadOpenOrders, ReadPositions, bookVars, logVars
  <2>2. QED
    BY <2>1, SameJournal, RemembersKept
<1>2. CASE ReconFinish
  <2>1. /\ proc \in {"cold", "up"} /\ proc' \in {"cold", "up"} /\ UNCHANGED orders
        /\ [t |-> "reconciled"] \in Entries
    BY <1>2 DEF ReconFinish, Yielded, Entries
  <2>2. CASE journal' = journal
    BY <2>1, <2>2, OpenIds DEF KnownPart, KnownUpTo
  <2>3. CASE journal' = Append(journal, [t |-> "reconciled"])
    BY <2>1, <2>3, GrowJournal, RemembersKept
  <2>4. QED
    BY <1>2, <2>2, <2>3 DEF ReconFinish
<1>3. CASE ReconFails
  <2>1. proc \in {"cold", "up"} /\ proc' \in {"cold", "up"} /\ UNCHANGED <<orders, journal>>
    BY <1>3 DEF ReconFails, Yielded, bookVars, logVars
  <2>2. QED
    BY <2>1 DEF KnownPart, KnownUpTo
<1>4. CASE Crash
  <2>1. KnownUpTo' = 0
    BY <1>4 DEF Crash, KnownUpTo
  <2>2. QED
    BY <2>1 DEF KnownPart
<1>5. CASE ColdStart
  <2>1. KnownUpTo' = KnownUpTo /\ UNCHANGED <<orders, journal>>
    BY <1>5 DEF ColdStart, KnownUpTo, bookVars, logVars
  <2>2. QED
    BY <2>1 DEF KnownPart
<1>6. CASE ReplayOne
  <2> DEFINE e == journal[cursor]
  <2>1. /\ cursor \in 1 .. Len(journal) /\ e \in Entries
        /\ KnownUpTo = cursor - 1 /\ KnownUpTo' = cursor
        /\ UNCHANGED journal /\ orders' = ReplayOrder(orders, e)
    BY <1>6 DEF ReplayOne, KnownUpTo, PipeTypes, LogTypes, logVars
  <2> HIDE DEF e
  <2>2. Remembers
    <3>1. CASE e.t = "open"
      <4>1. e.id \in Ids /\ NewOrder(e.side, e.qty) \in OrderRecord
        BY <2>1, <3>1, EntryFields, NewOrderType
      <4>2. orders' = [orders EXCEPT ![e.id] = NewOrder(e.side, e.qty)]
        BY <2>1, <3>1 DEF ReplayOrder
      <4>3. QED
        BY <4>1, <4>2, RemembersWrite
    <3>2. CASE e.t = "event"
      <4>1. e.id \in Ids /\ e.event.type \in EventTypes /\ e.event.qty \in Int
        BY <2>1, <3>2, EntryFields, EventFields
      <4>2. \/ orders' = orders
            \/ /\ orders[e.id] # None
               /\ orders' = [orders EXCEPT ![e.id] = ApplyOrderEvent(orders[e.id], e.event).order]
        BY <2>1, <3>2 DEF ReplayOrder
      <4>3. QED
        BY <4>1, <4>2, TrackedType, ApplyType, RemembersWrite, RemembersKept
    <3>3. CASE e.t = "reconciled"
      BY <2>1, <3>3, RemembersKept DEF ReplayOrder
    <3>4. QED
      BY <2>1, <3>1, <3>2, <3>3, EntryFields
  <2>3. e.t = "open" => orders'[e.id] # None
    <3>1. SUFFICES ASSUME e.t = "open" PROVE orders'[e.id] # None
      OBVIOUS
    <3>2. /\ e.id \in Ids /\ NewOrder(e.side, e.qty) # None
          /\ orders' = [orders EXCEPT ![e.id] = NewOrder(e.side, e.qty)]
      BY <2>1, <3>1, EntryFields, NewOrderType, NoneAssumption DEF ReplayOrder
    <3>3. QED
      BY <3>2 DEF BookTypes
  <2>4. ASSUME NEW k \in 1 .. Len(journal'), k <= KnownUpTo', journal'[k].t = "open"
        PROVE  orders'[journal'[k].id] # None
    <3>1. CASE k = cursor
      BY <2>1, <2>3, <2>4, <3>1 DEF e
    <3>2. CASE k # cursor
      <4>1. k \in 1 .. Len(journal) /\ k <= KnownUpTo /\ journal'[k] = journal[k]
        BY <2>1, <2>4, <3>2
      <4>2. orders[journal[k].id] # None /\ journal[k].id \in Ids
        BY <2>4, <4>1, OpenIds DEF KnownPart
      <4>3. QED
        BY <2>2, <4>1, <4>2 DEF Remembers
    <3>3. QED
      BY <3>1, <3>2
  <2>5. QED
    BY <2>4 DEF KnownPart
<1>7. CASE ReplayDone
  <2>1. /\ KnownUpTo = cursor - 1 /\ cursor > Len(journal) /\ cursor \in Nat
        /\ UNCHANGED <<orders, journal>>
    BY <1>7 DEF ReplayDone, KnownUpTo, PipeTypes, bookVars, logVars
  <2>2. \A k \in 1 .. Len(journal) : k <= KnownUpTo
    BY <2>1 DEF LogTypes
  <2>3. QED
    BY <2>1, <2>2 DEF KnownPart
<1>8. QED
  BY <1>1, <1>2, <1>3, <1>4, <1>5, <1>6, <1>7 DEF PipelineStep

GatePart == canTrade => proc = "up"

LEMMA GateKept == GatePart /\ UNCHANGED <<canTrade, proc>> => GatePart'
  BY DEF GatePart

LEMMA NextGate == GatePart /\ Next => GatePart'
<1> SUFFICES ASSUME GatePart, Next PROVE GatePart'
  OBVIOUS
<1>1. CASE EngineStep
  BY <1>1, GateKept DEF EngineStep, HandleEvent, DrainOne, RunStrategy, Veto, BeginSubmit,
       SubmitReturns, SubmitFails, AfterSubmit, HandleDone, pipeVars
<1>2. CASE VenueStep
  BY <1>2, GateKept DEF VenueStep, VenueAccepts, VenueRefuses, RequestLost, VenueFills,
       VenueCloses, VenueMoves, Connect, Disconnect, pipeVars
<1>3. CASE StreamStep
  BY <1>3, GateKept DEF StreamStep, DeliverUpdate, DeliverExecution, DeliverPosition, pipeVars
<1>4. CASE PipelineStep
  BY <1>4 DEF GatePart, PipelineStep, ReconStart, ReadOpenOrders, ReadPositions, ReconFinish,
       ReconFails, Crash, ColdStart, ReplayOne, ReplayDone
<1>5. QED
  BY <1>1, <1>2, <1>3, <1>4 DEF Next

LEMMA NextKnown == TypeOk /\ KnownPart /\ [Next]_vars => KnownPart'
<1> SUFFICES ASSUME TypeOk, KnownPart, [Next]_vars PROVE KnownPart'
  OBVIOUS
<1>1. TypeOk'
  BY NextTypes
<1>2. CASE EngineStep
  <2>1. UNCHANGED <<journal, proc, cursor>>
    BY <1>2 DEF EngineStep, HandleEvent, DrainOne, RunStrategy, Veto, BeginSubmit,
         SubmitReturns, SubmitFails, AfterSubmit, HandleDone, pipeVars, logVars
  <2>2. QED
    BY <1>2, <2>1, EngineRemembers, SameJournal DEF TypeOk
<1>3. CASE VenueStep
  <2>1. UNCHANGED <<orders, journal, proc, cursor>>
    BY <1>3 DEF VenueStep, VenueAccepts, VenueRefuses, RequestLost, VenueFills,
         VenueCloses, VenueMoves, Connect, Disconnect, bookVars, pipeVars, logVars
  <2>2. QED
    BY <2>1, RemembersKept, SameJournal DEF TypeOk
<1>4. CASE UNCHANGED vars
  <2>1. UNCHANGED <<orders, journal, proc, cursor>>
    BY <1>4 DEF vars, bookVars, pipeVars, logVars
  <2>2. QED
    BY <2>1, RemembersKept, SameJournal DEF TypeOk
<1>5. QED
  BY <1>1, <1>2, <1>3, <1>4, StreamKnown, PipelineKnown DEF Next
-----------------------------------------------------------------------------
GateInv == TypeOk /\ GatePart /\ KnownPart

LEMMA InitGate == Init => GateInv
<1> SUFFICES ASSUME Init PROVE GateInv
  OBVIOUS
<1>1. Len(journal) = 0 /\ canTrade = FALSE
  BY DEF Init
<1>2. QED
  BY <1>1, InitTypes DEF GateInv, GatePart, KnownPart

(* The gate is open only in a process whose engine knows every order the   *)
(* journal ever opened, whatever crashes, failed passes and drops came     *)
(* before.                                                                 *)
THEOREM GateAlwaysNeedsBook == Spec => []GateNeedsBook
<1>1. Init => GateInv
  BY InitGate
<1>2. GateInv /\ [Next]_vars => GateInv'
  <2>1. ASSUME GateInv, [Next]_vars PROVE GateInv'
    <3>1. TypeOk' /\ KnownPart'
      BY <2>1, NextTypes, NextKnown DEF GateInv
    <3>2. GatePart'
      <4>1. CASE Next
        BY <2>1, <4>1, NextGate DEF GateInv
      <4>2. CASE UNCHANGED vars
        BY <2>1, <4>2, GateKept DEF GateInv, vars, pipeVars
      <4>3. QED
        BY <2>1, <4>1, <4>2
    <3>3. QED
      BY <3>1, <3>2 DEF GateInv
  <2>2. QED
    BY <2>1
<1>3. GateInv => GateNeedsBook
  <2>1. SUFFICES ASSUME GateInv, canTrade
                 PROVE  /\ proc = "up"
                        /\ \A k \in 1 .. Len(journal) : journal[k].t = "open" => orders[journal[k].id] # None
    BY DEF GateNeedsBook, Tracked
  <2>2. proc = "up" /\ KnownUpTo = Len(journal) /\ Len(journal) \in Nat
    BY <2>1 DEF GateInv, GatePart, KnownUpTo, TypeOk, LogTypes
  <2>3. QED
    BY <2>1, <2>2 DEF GateInv, KnownPart
<1>4. QED
  BY <1>1, <1>2, <1>3, PTL DEF Spec

-----------------------------------------------------------------------------
(***************************************************************************)
(* Sums of fills in a queue.                                               *)
(***************************************************************************)
Weight(e, id) == IF e.id = id THEN e.event.qty ELSE 0
Weights(queue, id) == [i \in DOMAIN queue |-> Weight(queue[i], id)]

LEMMA FillsInWeights == \A q, id : FillsIn(q, id) = Total(Weights(q, id))
  BY DEF FillsIn, Weights, Weight

LEMMA WeightType ==
  ASSUME NEW e \in EventEntries, NEW id
  PROVE  Weight(e, id) \in Nat
  BY EventFields DEF Weight, EventEntries

LEMMA WeightsType ==
  ASSUME NEW q \in Seq(EventEntries), NEW id
  PROVE  /\ Weights(q, id) \in Seq(Int) /\ Len(Weights(q, id)) = Len(q)
         /\ \A i \in 1 .. Len(q) : Weights(q, id)[i] = Weight(q[i], id)
<1>1. \A i \in 1 .. Len(q) : Weight(q[i], id) \in Int
  BY WeightType
<1>. QED
  BY <1>1 DEF Weights

LEMMA FillsInEmpty == \A id : FillsIn(<<>>, id) = 0
<1>1. SUFFICES ASSUME NEW id PROVE FillsIn(<<>>, id) = 0
  OBVIOUS
<1>2. Weights(<<>>, id) = <<>>
  BY DEF Weights
<1>. QED
  BY <1>2, FillsInWeights, TotalEmpty

LEMMA FillsInType ==
  ASSUME NEW q \in Seq(EventEntries), NEW id
  PROVE  FillsIn(q, id) \in Int
<1>1. Weights(q, id) \in Seq(Int)
  BY WeightsType
<1>. QED
  BY <1>1, FillsInWeights, TotalConcat

LEMMA FillsInAppend ==
  ASSUME NEW q \in Seq(EventEntries), NEW e \in EventEntries, NEW id
  PROVE  FillsIn(Append(q, e), id) = FillsIn(q, id) + Weight(e, id)
<1>1. Weights(q, id) \in Seq(Int) /\ Weight(e, id) \in Int
  BY WeightsType, WeightType
<1>2. Weights(Append(q, e), id) = Append(Weights(q, id), Weight(e, id))
  BY WeightsType, AppendParts DEF Weights
<1>. QED
  BY <1>1, <1>2, FillsInWeights, TotalAppend

LEMMA FillsInTail ==
  ASSUME NEW q \in Seq(EventEntries), q # <<>>, NEW id
  PROVE  FillsIn(q, id) = Weight(Head(q), id) + FillsIn(Tail(q), id)
<1>1. /\ Head(q) \in EventEntries /\ Tail(q) \in Seq(EventEntries)
      /\ Head(q) = q[1] /\ Len(q) >= 1 /\ Len(Tail(q)) = Len(q) - 1
      /\ \A i \in 1 .. Len(q) - 1 : Tail(q)[i] = q[i + 1]
  BY QueueParts
<1>2. PICK t \in Seq(EventEntries) : t = Tail(q)
  BY <1>1
<1>3. PICK w \in Seq(Int) : w = Weights(t, id) /\ Len(w) = Len(t) /\ \A i \in 1 .. Len(t) : w[i] = Weight(t[i], id)
  BY WeightsType
<1>4. PICK u \in Seq(Int) : u = Weights(q, id) /\ Len(u) = Len(q) /\ \A i \in 1 .. Len(q) : u[i] = Weight(q[i], id)
  BY WeightsType
<1>5. PICK x \in Int : x = Weight(Head(q), id)
  BY <1>1, WeightType
<1>6. <<>> \in Seq(Int) /\ Append(<<>>, x) = <<x>> /\ <<x>> \in Seq(Int)
  BY <1>5
<1>7. u = <<x>> \o w
  <2>1. PICK n \in Nat : n = Len(q)
    OBVIOUS
  <2>0. n >= 1 /\ Len(u) = n /\ Len(w) = n - 1
    BY <1>1, <1>2, <1>3, <1>4, <2>1
  <2>2. n >= 1 /\ Len(u) = n /\ Len(w) = n - 1 /\ x = u[1]
    <3>1. u[1] = Weight(q[1], id)
      BY <1>4, <2>0, <2>1
    <3>. QED BY <1>1, <1>5, <2>0, <3>1
  <2>3. ASSUME NEW i \in 1 .. n - 1 PROVE w[i] = u[i + 1]
    <3>1. t[i] = q[i + 1] /\ w[i] = Weight(t[i], id)
      BY <1>1, <1>2, <1>3, <2>1, <2>2
    <3>2. i + 1 \in 1 .. Len(q)
      BY <2>1
    <3>. QED BY <1>4, <3>1, <3>2
  <2> HIDE <1>1, <1>2, <1>3, <1>4, <1>5, <1>6, <2>0, <2>1
  <2>4. <<x>> \o w \in Seq(Int) /\ Len(<<x>> \o w) = n
    BY <2>2
  <2>5. \A i \in 1 .. n : (<<x>> \o w)[i] = u[i]
    BY <2>2, <2>3
  <2>. QED BY <2>2, <2>4, <2>5, SMTT(40)
<1>8. Total(<<x>>) = x
  <2>1. Total(Append(<<>>, x)) = Total(<<>>) + x
    BY <1>6, TotalAppend
  <2>. QED BY <1>6, <2>1, TotalEmpty
<1>9. Total(<<x>> \o w) = Total(<<x>>) + Total(w)
  BY <1>6, TotalConcat
<1>. QED
  BY <1>2, <1>3, <1>4, <1>5, <1>7, <1>8, <1>9, FillsInWeights

LEMMA FillsInNatural ==
  ASSUME NEW q \in Seq(EventEntries), NEW id
  PROVE  /\ FillsIn(q, id) \in Nat
         /\ (\A i \in 1 .. Len(q) : Weight(q[i], id) = 0) => FillsIn(q, id) = 0
<1>1. PICK w \in Seq(Int) : w = Weights(q, id) /\ Len(w) = Len(q) /\ \A i \in 1 .. Len(q) : w[i] = Weight(q[i], id)
  BY WeightsType
<1>2. PICK n \in Nat : n = Len(q) /\ DOMAIN w = 1 .. n
  BY <1>1
<1>3. \A i \in 1 .. n : w[i] \in Nat /\ w[i] = Weight(q[i], id)
  <2>1. ASSUME NEW i \in 1 .. n PROVE w[i] \in Nat /\ w[i] = Weight(q[i], id)
    <3>1. q[i] \in EventEntries /\ w[i] = Weight(q[i], id)
      BY <1>1, <1>2
    <3>. QED BY <3>1, WeightType
  <2>. QED BY <2>1
<1>4. Total(w) \in Nat /\ ((\A i \in 1 .. n : w[i] = 0) => Total(w) = 0)
  BY <1>2, <1>3, TotalOfNaturals
<1>. QED
  BY <1>1, <1>2, <1>3, <1>4, FillsInWeights
-----------------------------------------------------------------------------
(***************************************************************************)
(* The book only moves forward: what BookNeverForgets says of a step.      *)
(***************************************************************************)
Forward ==
  \A id \in Ids : orders[id] # None =>
    /\ orders'[id] # None
    /\ orders'[id].side = orders[id].side /\ orders'[id].qty = orders[id].qty
    /\ orders'[id].filledQty >= orders[id].filledQty
    /\ Rank[orders'[id].state] >= Rank[orders[id].state]
    /\ IsTerminal(orders[id].state) => orders'[id] = orders[id]

LEMMA RankStep ==
  ASSUME NEW from \in OrderStates, NEW to \in Legal[from]
  PROVE  Rank[to] >= Rank[from] /\ ~IsTerminal(from) /\ to \in OpenStates \cup {"EXPIRED"}
  BY DEF OrderStates, Legal, Rank, IsTerminal, TerminalStates, OpenStates

LEMMA RankType ==
  ASSUME NEW state \in OrderStates
  PROVE  Rank[state] >= Rank[state]
  BY DEF OrderStates, Rank

(* What one event makes of a record. *)
LEMMA EventMoves ==
  ASSUME NEW order \in OrderRecord, NEW event, event.type \in EventTypes, event.qty \in Int,
         NEW next, next = ApplyOrderEvent(order, event).order
  PROVE  /\ next \in OrderRecord
         /\ next.side = order.side /\ next.qty = order.qty
         /\ next.filledQty >= order.filledQty
         /\ Rank[next.state] >= Rank[order.state]
         /\ IsTerminal(order.state) => next = order
<1>1. order.state \in OrderStates /\ order.filledQty \in Nat
  BY DEF OrderRecord
<1>2. next \in OrderRecord
  BY ApplyType
<1>3. CASE next = order
  BY <1>1, <1>2, <1>3, RankType
<1>4. CASE next # order
  <2>1. /\ next.side = order.side /\ next.qty = order.qty
        /\ next.state \in Legal[order.state]
        /\ next.filledQty >= order.filledQty
    BY <1>1, <1>4, ApplyEffect
  <2>. QED BY <1>1, <1>2, <2>1, RankStep
<1>. QED
  BY <1>3, <1>4

LEMMA ForwardKept == BookTypes /\ UNCHANGED orders => Forward
<1>1. ASSUME BookTypes, UNCHANGED orders, NEW id \in Ids, orders[id] # None
      PROVE  orders[id].filledQty >= orders[id].filledQty /\ Rank[orders[id].state] >= Rank[orders[id].state]
  <2>1. orders[id] \in OrderRecord
    BY <1>1, TrackedType
  <2>2. orders[id].filledQty \in Nat /\ orders[id].state \in OrderStates
    BY <2>1 DEF OrderRecord
  <2>. QED BY <2>2, RankType
<1>. QED
  BY <1>1 DEF Forward

LEMMA ForwardEvent ==
  ASSUME BookTypes, NEW id \in Ids, orders[id] # None,
         NEW event, event.type \in EventTypes, event.qty \in Int,
         orders' = [orders EXCEPT ![id] = ApplyOrderEvent(orders[id], event).order]
  PROVE  Forward
<1>1. PICK next : next = ApplyOrderEvent(orders[id], event).order
  OBVIOUS
<1>2. orders[id] \in OrderRecord
  BY TrackedType
<1>3. /\ next \in OrderRecord
      /\ next.side = orders[id].side /\ next.qty = orders[id].qty
      /\ next.filledQty >= orders[id].filledQty
      /\ Rank[next.state] >= Rank[orders[id].state]
      /\ IsTerminal(orders[id].state) => next = orders[id]
  BY <1>1, <1>2, EventMoves
<1>4. next # None
  BY <1>3, NoneAssumption
<1>5. orders' = [orders EXCEPT ![id] = next] /\ DOMAIN orders = Ids
  BY <1>1 DEF BookTypes
<1>6. ASSUME NEW i \in Ids, i # id, orders[i] # None
      PROVE  /\ orders'[i] = orders[i]
             /\ orders[i].filledQty >= orders[i].filledQty /\ Rank[orders[i].state] >= Rank[orders[i].state]
  <2>1. orders[i] \in OrderRecord
    BY <1>6, TrackedType
  <2>2. orders[i].filledQty \in Nat /\ orders[i].state \in OrderStates
    BY <2>1 DEF OrderRecord
  <2>. QED BY <1>5, <1>6, <2>2, RankType
<1>7. orders'[id] = next
  BY <1>5
<1>. QED
  BY <1>3, <1>4, <1>6, <1>7 DEF Forward

LEMMA ForwardNew ==
  ASSUME BookTypes, NEW id \in Ids, orders[id] = None,
         NEW next, orders' = [orders EXCEPT ![id] = next]
  PROVE  Forward
<1>1. ASSUME NEW i \in Ids, orders[i] # None
      PROVE  /\ orders'[i] = orders[i]
             /\ orders[i].filledQty >= orders[i].filledQty /\ Rank[orders[i].state] >= Rank[orders[i].state]
  <2>1. orders[i] \in OrderRecord
    BY <1>1, TrackedType
  <2>2. orders[i].filledQty \in Nat /\ orders[i].state \in OrderStates
    BY <2>1 DEF OrderRecord
  <2>3. i # id
    BY <1>1
  <2>4. orders'[i] = orders[i]
    BY <2>3 DEF BookTypes
  <2>. QED BY <2>2, <2>4, RankType
<1>. QED
  BY <1>1 DEF Forward
-----------------------------------------------------------------------------
(***************************************************************************)
(* The first life: the steps that write the book are BeginSubmit, for a    *)
(* new id, and those that apply an event to a record there is.             *)
(***************************************************************************)
FirstLife == TypeOk /\ crashes = 0 /\ FreshIds /\ NothingToReplay

LEMMA NoRestart ==
  ASSUME FirstLife, crashes' = crashes
  PROVE  ~Crash /\ ~ReplayOne
<1>1. ~Crash
  BY DEF Crash, FirstLife, TypeOk, CounterTypes
<1>2. ASSUME ReplayOne PROVE FALSE
  <2>1. journal = <<>> /\ cursor <= Len(journal) /\ cursor \in Nat \ {0}
    BY <1>2 DEF ReplayOne, FirstLife, NothingToReplay, TypeOk, PipeTypes
  <2>. QED BY <2>1
<1>. QED
  BY <1>1, <1>2

LEMMA Idents ==
  ASSUME NEW id \in Ids
  PROVE  id[1] \in Symbols /\ id[2] \in Nat /\ id = <<id[1], id[2]>>
  BY BoundsAssumption DEF Ids

(* What DrainOne takes from the outbox. *)
LEMMA HeadOfOutbox ==
  ASSUME TypeOk, outbox # <<>>
  PROVE  /\ Head(outbox) \in EventEntries /\ Head(outbox).id \in Ids
         /\ Head(outbox).event.type \in EventTypes
         /\ Head(outbox).event.qty \in Nat /\ Head(outbox).event.qty \in Int
<1>1. Head(outbox) \in EventEntries
  BY QueueParts DEF TypeOk, LogTypes
<1>. QED
  BY <1>1, EventFields DEF EventEntries

LEMMA HeadOfPending ==
  ASSUME TypeOk, pending # <<>>
  PROVE  /\ Head(pending) \in Intents /\ Head(pending).id \in Ids
         /\ Submitted(Head(pending)) \in OrderRecord /\ Submitted(Head(pending)).filledQty = 0
         /\ Submitted(Head(pending)) # None
<1>1. Head(pending) \in Intents
  BY QueueParts DEF TypeOk, LoopTypes
<1>. QED
  BY <1>1, SubmittedType, IntentFields, NoneAssumption

(* Events write the records of tracked orders, and nothing else.           *)
Applies(id, event) ==
  /\ id \in Ids /\ orders[id] # None /\ event.type \in EventTypes /\ event.qty \in Int
  /\ orders' = [orders EXCEPT ![id] = ApplyOrderEvent(orders[id], event).order]

LEMMA DrainApplies ==
  ASSUME TypeOk, DrainOne
  PROVE  UNCHANGED orders \/ Applies(Head(outbox).id, Head(outbox).event)
<1>1. outbox # <<>>
  BY DEF DrainOne
<1>2. \/ orders' = orders
      \/ /\ orders[Head(outbox).id] # None
         /\ orders' = [orders EXCEPT ![Head(outbox).id] =
                         ApplyOrderEvent(orders[Head(outbox).id], Head(outbox).event).order]
  BY DEF DrainOne
<1>. QED
  BY <1>1, <1>2, HeadOfOutbox DEF Applies

LEMMA AnswerApplies ==
  ASSUME TypeOk, NEW accepted, AfterSubmit(accepted)
  PROVE  UNCHANGED orders \/ Applies(call.id, Plain("reject"))
<1>1. call.id \in Ids
  BY DEF AfterSubmit, TypeOk, LoopTypes, Requests
<1>2. Plain("reject").type \in EventTypes /\ Plain("reject").qty \in Int
  BY DEF Plain, EventTypes
<1>3. \/ orders' = orders
      \/ /\ orders[call.id] # None
         /\ orders' = [orders EXCEPT ![call.id] = ApplyOrderEvent(orders[call.id], Plain("reject")).order]
  BY DEF AfterSubmit
<1>. QED
  BY <1>1, <1>2, <1>3 DEF Applies

LEMMA QuietBook ==
  ASSUME Next, crashes' = crashes, FirstLife
  PROVE  \/ UNCHANGED orders \/ DrainOne \/ BeginSubmit
         \/ \E accepted \in BOOLEAN : AfterSubmit(accepted)
<1>1. CASE EngineStep
  BY <1>1 DEF EngineStep, HandleEvent, RunStrategy, Veto, HandleDone, SubmitReturns, SubmitFails, bookVars
<1>2. CASE VenueStep
  BY <1>2 DEF VenueStep, VenueAccepts, VenueRefuses, RequestLost, VenueFills, VenueCloses,
              VenueMoves, Connect, Disconnect, bookVars
<1>3. CASE StreamStep
  BY <1>3 DEF StreamStep, DeliverUpdate, DeliverExecution, DeliverPosition, bookVars
<1>4. ~Crash
  BY NoRestart
<1>5. ~ReplayOne
  BY NoRestart
<1>6. CASE PipelineStep
  BY <1>4, <1>5, <1>6 DEF PipelineStep, ReconStart, ReadOpenOrders, ReadPositions, ReconFinish,
                          ReconFails, ColdStart, ReplayDone, bookVars
<1>. QED
  BY <1>1, <1>2, <1>3, <1>6 DEF Next

(* No order of a pending intent is known. *)
LEMMA HeadIsNew ==
  ASSUME FirstLife, pending # <<>>
  PROVE  orders[Head(pending).id] = None /\ Head(pending).id[2] < intentSeq
<1>1. Head(pending) = pending[1] /\ Len(pending) >= 1 /\ Len(pending) \in Nat
  BY QueueParts DEF FirstLife, TypeOk, LoopTypes
<1>. QED
  BY <1>1 DEF FirstLife, FreshIds, Tracked

LEMMA AppliesForward ==
  ASSUME TypeOk, NEW id, NEW event, Applies(id, event)
  PROVE  Forward
  BY ForwardEvent DEF Applies, TypeOk

LEMMA NextForward == FirstLife /\ Next /\ crashes' = crashes => Forward
<1> SUFFICES ASSUME FirstLife, Next, crashes' = crashes PROVE Forward
  OBVIOUS
<1>1. TypeOk /\ BookTypes
  BY DEF FirstLife, TypeOk
<1>2. CASE UNCHANGED orders
  BY <1>1, <1>2, ForwardKept
<1>3. CASE DrainOne
  BY <1>1, <1>2, <1>3, DrainApplies, AppliesForward
<1>4. ASSUME NEW accepted \in BOOLEAN, AfterSubmit(accepted) PROVE Forward
  BY <1>1, <1>2, <1>4, AnswerApplies, AppliesForward
<1>5. CASE BeginSubmit
  <2>1. pending # <<>> /\ orders' = [orders EXCEPT ![Head(pending).id] = Submitted(Head(pending))]
    BY <1>5 DEF BeginSubmit
  <2>2. Head(pending).id \in Ids /\ orders[Head(pending).id] = None
    BY <1>1, <2>1, HeadOfPending, HeadIsNew
  <2>. QED BY <1>1, <2>1, <2>2, ForwardNew
<1>. QED
  BY <1>2, <1>3, <1>4, <1>5, QuietBook
-----------------------------------------------------------------------------
(***************************************************************************)
(* Ids stay fresh.                                                         *)
(***************************************************************************)
SameTracked == \A id \in Ids : orders'[id] # None <=> orders[id] # None

LEMMA AppliesTracks ==
  ASSUME TypeOk, NEW id, NEW event, Applies(id, event)
  PROVE  SameTracked
<1>1. PICK next : next = ApplyOrderEvent(orders[id], event).order
  OBVIOUS
<1>2. orders[id] \in OrderRecord /\ id \in Ids /\ event.type \in EventTypes /\ event.qty \in Int
  BY TrackedType DEF TypeOk, Applies
<1>3. next # None
  BY <1>1, <1>2, ApplyType, NoneAssumption
<1>4. orders' = [orders EXCEPT ![id] = next] /\ DOMAIN orders = Ids /\ orders[id] # None
  BY <1>1 DEF Applies, TypeOk, BookTypes
<1>. QED
  BY <1>2, <1>3, <1>4 DEF SameTracked

LEMMA EventKeepsTracked ==
  ASSUME TypeOk, UNCHANGED orders \/ DrainOne \/ \E accepted \in BOOLEAN : AfterSubmit(accepted)
  PROVE  SameTracked
<1>1. CASE UNCHANGED orders
  BY <1>1 DEF SameTracked
<1>2. CASE DrainOne
  BY <1>1, <1>2, DrainApplies, AppliesTracks
<1>3. ASSUME NEW accepted \in BOOLEAN, AfterSubmit(accepted) PROVE SameTracked
  BY <1>1, <1>3, AnswerApplies, AppliesTracks
<1>. QED
  BY <1>1, <1>2, <1>3

LEMMA FreshKept ==
  ASSUME TypeOk, FreshIds, SameTracked, UNCHANGED <<pending, intentSeq>>
  PROVE  FreshIds'
<1>1. \A i \in 1 .. Len(pending) : pending[i].id \in Ids
  BY IntentFields DEF TypeOk, LoopTypes
<1>. QED
  BY <1>1 DEF FreshIds, Tracked, SameTracked

LEMMA FreshVeto ==
  ASSUME TypeOk, FreshIds, SameTracked, pending # <<>>, pending' = Tail(pending), UNCHANGED intentSeq
  PROVE  FreshIds'
<1>1. /\ Len(pending) \in Nat /\ Len(pending') = Len(pending) - 1
      /\ \A i \in 1 .. Len(pending) - 1 : pending'[i] = pending[i + 1]
      /\ \A i \in 1 .. Len(pending) : pending[i].id \in Ids
  BY QueueParts, IntentFields DEF TypeOk, LoopTypes
<1>2. \A id \in Ids : id[2] >= intentSeq' => orders'[id] = None
  BY DEF FreshIds, Tracked, SameTracked
<1>3. ASSUME NEW i \in 1 .. Len(pending')
      PROVE  pending'[i].id[2] < intentSeq' /\ orders'[pending'[i].id] = None
  <2>1. i + 1 \in 1 .. Len(pending) /\ pending'[i] = pending[i + 1]
    BY <1>1
  <2>. QED BY <1>1, <2>1 DEF FreshIds, Tracked, SameTracked
<1>4. ASSUME NEW i \in 1 .. Len(pending'), NEW j \in 1 .. Len(pending'), i < j
      PROVE  pending'[i].id # pending'[j].id
  <2>1. /\ i + 1 \in 1 .. Len(pending) /\ pending'[i] = pending[i + 1]
        /\ j + 1 \in 1 .. Len(pending) /\ pending'[j] = pending[j + 1]
        /\ i + 1 < j + 1
    BY <1>1, <1>4
  <2>. QED BY <2>1 DEF FreshIds
<1>. QED
  BY <1>2, <1>3, <1>4 DEF FreshIds, Tracked

LEMMA FreshSubmit ==
  ASSUME TypeOk, FreshIds, BeginSubmit
  PROVE  FreshIds'
<1>1. /\ pending # <<>> /\ pending' = Tail(pending) /\ intentSeq' = intentSeq
      /\ orders' = [orders EXCEPT ![Head(pending).id] = Submitted(Head(pending))]
  BY DEF BeginSubmit
<1>2. /\ Len(pending) \in Nat /\ Len(pending) >= 1 /\ Len(pending') = Len(pending) - 1
      /\ Head(pending) = pending[1]
      /\ \A i \in 1 .. Len(pending) - 1 : pending'[i] = pending[i + 1]
      /\ \A i \in 1 .. Len(pending) : pending[i].id \in Ids
  BY <1>1, QueueParts, IntentFields DEF TypeOk, LoopTypes
<1>3. \A id \in Ids : id # pending[1].id => orders'[id] = orders[id]
  BY <1>1, <1>2 DEF TypeOk, BookTypes
<1>4. pending[1].id[2] < intentSeq /\ pending[1].id[2] \in Nat /\ intentSeq \in Nat
  BY <1>2, Idents, Bounds DEF FreshIds, TypeOk, LoopTypes
<1>5. ASSUME NEW id \in Ids, id[2] >= intentSeq PROVE orders'[id] = None
  <2>1. id # pending[1].id
    BY <1>4, <1>5
  <2>. QED BY <1>3, <1>5, <2>1 DEF FreshIds, Tracked
<1>6. ASSUME NEW i \in 1 .. Len(pending')
      PROVE  pending'[i].id[2] < intentSeq' /\ orders'[pending'[i].id] = None
  <2>1. i + 1 \in 1 .. Len(pending) /\ pending'[i] = pending[i + 1] /\ 1 \in 1 .. Len(pending) /\ 1 < i + 1
    BY <1>2
  <2>2. pending[i + 1].id # pending[1].id
    BY <2>1 DEF FreshIds
  <2>. QED BY <1>1, <1>2, <1>3, <2>1, <2>2 DEF FreshIds, Tracked
<1>7. ASSUME NEW i \in 1 .. Len(pending'), NEW j \in 1 .. Len(pending'), i < j
      PROVE  pending'[i].id # pending'[j].id
  <2>1. /\ i + 1 \in 1 .. Len(pending) /\ pending'[i] = pending[i + 1]
        /\ j + 1 \in 1 .. Len(pending) /\ pending'[j] = pending[j + 1]
        /\ i + 1 < j + 1
    BY <1>2, <1>7
  <2>. QED BY <2>1 DEF FreshIds
<1>. QED
  BY <1>1, <1>5, <1>6, <1>7 DEF FreshIds, Tracked

(* nextIntentSeq() numbers a batch from the first number not yet used.     *)
LEMMA FreshBatch ==
  ASSUME TypeOk, FreshIds, RunStrategy
  PROVE  FreshIds'
<1>1. PICK batch \in Batches :
        pending' = batch /\ intentSeq' = intentSeq + Len(batch) /\ orders' = orders
        /\ intentSeq + Len(batch) <= MaxSeq
  BY DEF RunStrategy, bookVars
<1>2. PICK n \in 0 .. BatchMax :
        batch \in {[i \in 1 .. n |-> [id |-> <<ask[i][1], intentSeq + i - 1>>,
                                      side |-> ask[i][2], qty |-> ask[i][3]]] :
                      ask \in [1 .. n -> Symbols \X Sides \X Qtys]}
  BY ZenonT(30) DEF Batches
<1>3. PICK ask \in [1 .. n -> Symbols \X Sides \X Qtys] :
        batch = [i \in 1 .. n |-> [id |-> <<ask[i][1], intentSeq + i - 1>>,
                                   side |-> ask[i][2], qty |-> ask[i][3]]]
  BY <1>2
<1>4. n \in Nat /\ intentSeq \in Nat /\ Len(batch) = n /\ DOMAIN batch = 1 .. n /\ MaxSeq \in Nat
  BY <1>3, Bounds DEF TypeOk, LoopTypes
<1>5. ASSUME NEW i \in 1 .. n
      PROVE  batch[i].id \in Ids /\ batch[i].id[2] = intentSeq + i - 1
  <2>1. batch[i].id = <<ask[i][1], intentSeq + i - 1>> /\ ask[i][1] \in Symbols
    BY <1>3
  <2>2. intentSeq + i - 1 \in 0 .. MaxSeq - 1
    BY <1>1, <1>4
  <2>. QED BY <2>1, <2>2 DEF Ids
<1>6. ASSUME NEW id \in Ids, id[2] >= intentSeq' PROVE orders'[id] = None
  <2>1. id[2] >= intentSeq
    BY <1>1, <1>4, <1>6, Idents
  <2>. QED BY <1>1, <2>1 DEF FreshIds, Tracked
<1>7. ASSUME NEW i \in 1 .. n PROVE batch[i].id[2] < intentSeq + n /\ orders[batch[i].id] = None
  <2>1. batch[i].id[2] >= intentSeq /\ batch[i].id[2] < intentSeq + n
    BY <1>4, <1>5
  <2>. QED BY <1>5, <2>1 DEF FreshIds, Tracked
<1>8. ASSUME NEW i \in 1 .. n, NEW j \in 1 .. n, i < j PROVE batch[i].id # batch[j].id
  BY <1>4, <1>5, <1>8
<1>. QED
  BY <1>1, <1>4, <1>6, <1>7, <1>8 DEF FreshIds, Tracked

LEMMA NextFresh == FirstLife /\ Next /\ crashes' = crashes => FreshIds'
<1> SUFFICES ASSUME FirstLife, Next, crashes' = crashes PROVE FreshIds'
  OBVIOUS
<1>1. TypeOk /\ FreshIds
  BY DEF FirstLife
<1>2. CASE RunStrategy
  BY <1>1, <1>2, FreshBatch
<1>3. CASE BeginSubmit
  BY <1>1, <1>3, FreshSubmit
<1>4. CASE Veto
  BY <1>1, <1>4, EventKeepsTracked, FreshVeto DEF Veto, bookVars
<1>5. ASSUME ~RunStrategy, ~BeginSubmit, ~Veto PROVE FreshIds'
  <2>1. UNCHANGED orders \/ DrainOne \/ \E accepted \in BOOLEAN : AfterSubmit(accepted)
    BY <1>5, QuietBook
  <2>2. UNCHANGED <<pending, intentSeq>>
    <3>1. CASE EngineStep
      BY <1>5, <3>1 DEF EngineStep, HandleEvent, DrainOne, HandleDone, SubmitReturns, SubmitFails,
                        AfterSubmit, loopVars
    <3>2. CASE VenueStep
      BY <3>2 DEF VenueStep, VenueAccepts, VenueRefuses, RequestLost, VenueFills, VenueCloses,
                  VenueMoves, Connect, Disconnect, loopVars
    <3>3. CASE StreamStep
      BY <3>3 DEF StreamStep, DeliverUpdate, DeliverExecution, DeliverPosition, loopVars
    <3>4. ~Crash
      BY NoRestart
    <3>5. CASE PipelineStep
      BY <3>4, <3>5 DEF PipelineStep, ReconStart, ReadOpenOrders, ReadPositions, ReconFinish,
                        ReconFails, ColdStart, ReplayOne, ReplayDone, loopVars
    <3>. QED BY <3>1, <3>2, <3>3, <3>5 DEF Next
  <2>. QED BY <1>1, <2>1, <2>2, EventKeepsTracked, FreshKept
<1>. QED
  BY <1>2, <1>3, <1>4, <1>5

LEMMA NextNothingToReplay == FirstLife /\ Next /\ crashes' = crashes => NothingToReplay'
<1> SUFFICES ASSUME FirstLife, Next, crashes' = crashes PROVE NothingToReplay'
  OBVIOUS
<1>1. CASE EngineStep
  BY <1>1 DEF EngineStep, HandleEvent, RunStrategy, Veto, HandleDone, SubmitReturns, SubmitFails, DrainOne,
              BeginSubmit, AfterSubmit, pipeVars, logVars, FirstLife, NothingToReplay
<1>2. CASE VenueStep
  BY <1>2 DEF VenueStep, VenueAccepts, VenueRefuses, RequestLost, VenueFills, VenueCloses,
              VenueMoves, Connect, Disconnect, pipeVars, logVars, FirstLife, NothingToReplay
<1>3. CASE StreamStep
  BY <1>3 DEF StreamStep, DeliverUpdate, DeliverExecution, DeliverPosition, Yielded, pipeVars, NothingToReplay
<1>4. ~Crash
  BY NoRestart
<1>5. CASE ColdStart \/ ReplayOne \/ ReadOpenOrders \/ ReadPositions
  BY <1>5 DEF ReadOpenOrders, ReadPositions, ColdStart, ReplayOne, logVars, FirstLife, NothingToReplay
<1>6. CASE ReconStart \/ ReconFinish \/ ReconFails \/ ReplayDone
  BY <1>6 DEF ReconStart, ReconFinish, ReconFails, ReplayDone, NothingToReplay
<1>. QED
  BY <1>1, <1>2, <1>3, <1>4, <1>5, <1>6 DEF Next, PipelineStep
-----------------------------------------------------------------------------
(***************************************************************************)
(* What the exchange holds and sends is about the engine's own orders.     *)
(***************************************************************************)
InOpenStates == \A id \in Ids : Tracked(id) => orders[id].state \in OpenStates

LEMMA StateAfter ==
  ASSUME NEW order \in OrderRecord, order.state \in OpenStates,
         NEW event, event.type \in {"ack", "fill", "cancel", "reject"}
  PROVE  ApplyOrderEvent(order, event).order.state \in OpenStates
<1>1. ASSUME NEW to \in OpenStates, NEW filled
      PROVE  Transition(order, to, filled).order.state \in OpenStates
  <2>1. DOMAIN order = {"side", "qty", "filledQty", "state", "revision"}
    BY DEF OrderRecord
  <2>. QED BY <2>1 DEF Transition, Refused, OrderRecord
<1>2. /\ Refused(order).order.state \in OpenStates /\ Ignored(order).order.state \in OpenStates
      /\ ApplyFill(order, event.qty).order.state \in OpenStates
  BY <1>1 DEF Refused, Ignored, ApplyFill, OpenStates
<1>. QED
  BY <1>1, <1>2 DEF ApplyOrderEvent, OpenStates

LEMMA SubmittedRecord ==
  ASSUME NEW intent \in Intents
  PROVE  /\ Submitted(intent).state = "SUBMITTED"
         /\ Submitted(intent).side = intent.side /\ Submitted(intent).qty = intent.qty
<1>1. /\ NewOrder(intent.side, intent.qty) \in OrderRecord
      /\ NewOrder(intent.side, intent.qty).state = "NEW"
      /\ NewOrder(intent.side, intent.qty).side = intent.side
      /\ NewOrder(intent.side, intent.qty).qty = intent.qty
  BY IntentFields, NewOrderType DEF NewOrder
<1>2. Plain("submit").type = "submit"
  BY DEF Plain
<1>3. PICK order \in OrderRecord : order = NewOrder(intent.side, intent.qty)
  BY <1>1
<1>4. Submitted(intent) = Transition(order, "SUBMITTED", order.filledQty).order
  BY <1>1, <1>2, <1>3 DEF Submitted, ApplyOrderEvent, IsTerminal, TerminalStates
<1>5. DOMAIN order = {"side", "qty", "filledQty", "state", "revision"}
  BY DEF OrderRecord
<1>6. "SUBMITTED" \in Legal[order.state]
  BY <1>1, <1>3 DEF Legal
<1>7. Submitted(intent) = [order EXCEPT !.state = "SUBMITTED", !.filledQty = order.filledQty, !.revision = @ + 1]
  BY <1>4, <1>6 DEF Transition, CanTransition
<1>. QED
  BY <1>1, <1>3, <1>5, <1>7

LEMMA AppliesStates ==
  ASSUME TypeOk, InOpenStates, NEW id, NEW event, Applies(id, event),
         event.type \in {"ack", "fill", "cancel", "reject"}
  PROVE  InOpenStates'
<1>1. PICK next : next = ApplyOrderEvent(orders[id], event).order
  OBVIOUS
<1>2. orders[id] \in OrderRecord /\ orders[id].state \in OpenStates /\ id \in Ids
  BY TrackedType DEF TypeOk, Applies, InOpenStates, Tracked
<1>3. next.state \in OpenStates
  BY <1>1, <1>2, StateAfter
<1>4. orders' = [orders EXCEPT ![id] = next] /\ DOMAIN orders = Ids
  BY <1>1 DEF Applies, TypeOk, BookTypes
<1>. QED
  BY <1>2, <1>3, <1>4 DEF InOpenStates, Tracked

LEMMA NextStates ==
  FirstLife /\ InOpenStates /\ OwnMessages /\ Next /\ crashes' = crashes => InOpenStates'
<1> SUFFICES ASSUME FirstLife, InOpenStates, OwnMessages, Next, crashes' = crashes PROVE InOpenStates'
  OBVIOUS
<1>1. TypeOk
  BY DEF FirstLife
<1>2. CASE UNCHANGED orders
  BY <1>2 DEF InOpenStates, Tracked
<1>3. CASE DrainOne
  <2>1. outbox # <<>> /\ Head(outbox) = outbox[1] /\ 1 \in 1 .. Len(outbox)
    BY <1>1, <1>3, QueueParts DEF DrainOne, TypeOk, LogTypes
  <2>2. Head(outbox).event.type \in {"ack", "fill", "cancel", "reject"}
    BY <2>1 DEF OwnMessages
  <2>. QED BY <1>1, <1>2, <1>3, <2>2, DrainApplies, AppliesStates
<1>4. ASSUME NEW accepted \in BOOLEAN, AfterSubmit(accepted) PROVE InOpenStates'
  <2>1. Plain("reject").type \in {"ack", "fill", "cancel", "reject"}
    BY DEF Plain
  <2>. QED BY <1>1, <1>2, <1>4, <2>1, AnswerApplies, AppliesStates
<1>5. CASE BeginSubmit
  <2>1. pending # <<>> /\ orders' = [orders EXCEPT ![Head(pending).id] = Submitted(Head(pending))]
    BY <1>5 DEF BeginSubmit
  <2>2. Submitted(Head(pending)).state \in OpenStates /\ Head(pending).id \in Ids /\ DOMAIN orders = Ids
    BY <1>1, <2>1, HeadOfPending, SubmittedRecord DEF OpenStates, TypeOk, BookTypes
  <2>. QED BY <2>1, <2>2 DEF InOpenStates, Tracked
<1>. QED
  BY <1>2, <1>3, <1>4, <1>5, QuietBook

LEMMA TradesKept ==
  ASSUME TypeOk, Forward, SameTrades, wire' \subseteq wire, UNCHANGED venueOrders
  PROVE  SameTrades'
<1>1. \A request \in wire : request.id \in Ids
  BY DEF TypeOk, VenueTypes, Requests
<1>. QED
  BY <1>1 DEF SameTrades, Tracked, Forward

(* The exchange writes one of its orders, for a trade of the book.         *)
LEMMA TradesWrite ==
  ASSUME TypeOk, SameTrades, UNCHANGED orders, wire' \subseteq wire,
         NEW id \in Ids, orders[id] # None, NEW order, venueOrders' = [venueOrders EXCEPT ![id] = order],
         order.side = orders[id].side, order.qty = orders[id].qty, order.filled <= order.qty
  PROVE  SameTrades'
<1>1. DOMAIN venueOrders = Ids
  BY DEF TypeOk, VenueTypes
<1>2. \A i \in Ids : i # id => venueOrders'[i] = venueOrders[i]
  BY <1>1
<1>3. venueOrders'[id] = order
  BY <1>1
<1>. QED
  BY <1>2, <1>3 DEF SameTrades, Tracked

LEMMA VenueOrderFields ==
  ASSUME TypeOk, NEW id \in Ids, venueOrders[id] # None
  PROVE  /\ venueOrders[id] \in VenueOrder
         /\ venueOrders[id].qty \in Nat /\ venueOrders[id].filled \in Nat
         /\ DOMAIN venueOrders[id] = {"side", "qty", "filled", "live"}
<1>1. venueOrders[id] \in VenueOrder
  BY DEF TypeOk, VenueTypes
<1>. QED
  BY <1>1, QtysAssumption DEF VenueOrder

LEMMA NextTrades == FirstLife /\ SameTrades /\ Next /\ crashes' = crashes => SameTrades'
<1> SUFFICES ASSUME FirstLife, SameTrades, Next, crashes' = crashes PROVE SameTrades'
  OBVIOUS
<1>1. TypeOk /\ Forward
  BY NextForward DEF FirstLife
<1>2. CASE BeginSubmit
  <2> DEFINE intent  == Head(pending)
             request == [id |-> intent.id, side |-> intent.side, qty |-> intent.qty, life |-> crashes]
  <2>1. /\ pending # <<>> /\ orders' = [orders EXCEPT ![intent.id] = Submitted(intent)]
        /\ wire' = wire \cup {request} /\ venueOrders' = venueOrders
    BY <1>2 DEF BeginSubmit
  <2>2. intent \in Intents /\ intent.id \in Ids /\ Submitted(intent) # None
    BY <1>1, <2>1, HeadOfPending
  <2>3. Submitted(intent).side = intent.side /\ Submitted(intent).qty = intent.qty
    BY <2>2, SubmittedRecord
  <2>4. orders'[intent.id] = Submitted(intent)
    BY <1>1, <2>1, <2>2 DEF TypeOk, BookTypes
  <2>5. request.id = intent.id /\ request.side = intent.side /\ request.qty = intent.qty
    OBVIOUS
  <2>6. \A r \in wire : r.id \in Ids
    BY <1>1 DEF TypeOk, VenueTypes, Requests
  <2> HIDE DEF intent, request
  <2>7. ASSUME NEW r \in wire'
        PROVE  orders'[r.id] # None /\ orders'[r.id].side = r.side /\ orders'[r.id].qty = r.qty
    <3>1. CASE r \in wire
      BY <1>1, <2>6, <3>1 DEF SameTrades, Tracked, Forward
    <3>2. CASE r = request
      BY <2>2, <2>3, <2>4, <2>5, <3>2
    <3>. QED BY <2>1, <2>7, <3>1, <3>2
  <2>8. ASSUME NEW id \in Ids, venueOrders[id] # None
        PROVE  /\ orders'[id] # None
               /\ orders'[id].side = venueOrders[id].side /\ orders'[id].qty = venueOrders[id].qty
    BY <1>1, <2>8 DEF SameTrades, Tracked, Forward
  <2>. QED BY <2>1, <2>7, <2>8 DEF SameTrades, Tracked
<1>3. ASSUME NEW r \in wire, VenueAccepts(r) PROVE SameTrades'
  <2> DEFINE order == [side |-> r.side, qty |-> r.qty, filled |-> 0, live |-> TRUE]
  <2>1. /\ venueOrders' = [venueOrders EXCEPT ![r.id] = order]
        /\ wire' \subseteq wire /\ UNCHANGED orders
    BY <1>3 DEF VenueAccepts, bookVars
  <2>2. r.id \in Ids /\ r.qty \in Nat
    BY <1>1, QtysAssumption DEF TypeOk, VenueTypes, Requests
  <2>3. /\ orders[r.id] # None
        /\ order.side = orders[r.id].side /\ order.qty = orders[r.id].qty /\ order.filled <= order.qty
    BY <2>2 DEF SameTrades, Tracked
  <2> HIDE DEF order
  <2>. QED BY <1>1, <2>1, <2>2, <2>3, TradesWrite
<1>4. ASSUME NEW id \in Ids, VenueFills(id) PROVE SameTrades'
  <2>1. PICK q \in 1 .. venueOrders[id].qty - venueOrders[id].filled :
          venueOrders' = [venueOrders EXCEPT ![id] =
            [@ EXCEPT !.filled = venueOrders[id].filled + q,
                      !.live = ~(venueOrders[id].filled + q = venueOrders[id].qty)]]
    BY <1>4 DEF VenueFills
  <2>2. PICK order : order = [venueOrders[id] EXCEPT !.filled = venueOrders[id].filled + q,
                                !.live = ~(venueOrders[id].filled + q = venueOrders[id].qty)]
    OBVIOUS
  <2>3. venueOrders[id] # None /\ wire' = wire /\ UNCHANGED orders
    BY <1>4 DEF VenueFills, bookVars
  <2>4. /\ order.side = venueOrders[id].side /\ order.qty = venueOrders[id].qty
        /\ order.filled = venueOrders[id].filled + q
    BY <1>1, <2>2, <2>3, VenueOrderFields
  <2>5. order.filled <= order.qty
    BY <1>1, <2>1, <2>3, <2>4, VenueOrderFields
  <2>6. venueOrders' = [venueOrders EXCEPT ![id] = order]
    BY <2>1, <2>2
  <2>7. orders[id] # None /\ order.side = orders[id].side /\ order.qty = orders[id].qty
    BY <2>3, <2>4 DEF SameTrades, Tracked
  <2>. QED BY <1>1, <2>3, <2>5, <2>6, <2>7, TradesWrite
<1>5. ASSUME NEW id \in Ids, VenueCloses(id) PROVE SameTrades'
  <2>1. PICK order : order = [venueOrders[id] EXCEPT !.live = FALSE]
    OBVIOUS
  <2>2. /\ venueOrders[id] # None /\ wire' = wire /\ UNCHANGED orders
        /\ venueOrders' = [venueOrders EXCEPT ![id] = order]
    BY <1>5, <2>1 DEF VenueCloses, bookVars
  <2>3. /\ order.side = venueOrders[id].side /\ order.qty = venueOrders[id].qty
        /\ order.filled = venueOrders[id].filled
    BY <1>1, <2>1, <2>2, VenueOrderFields
  <2>4. /\ orders[id] # None /\ order.filled <= order.qty
        /\ order.side = orders[id].side /\ order.qty = orders[id].qty
    BY <2>2, <2>3 DEF SameTrades, Tracked
  <2>. QED BY <1>1, <2>2, <2>4, TradesWrite
<1>6. ASSUME NEW r \in wire, VenueRefuses(r) \/ RequestLost(r) PROVE SameTrades'
  <2>1. wire' \subseteq wire /\ UNCHANGED venueOrders
    BY <1>6 DEF VenueRefuses, RequestLost
  <2>. QED BY <1>1, <2>1, TradesKept
<1>7. ASSUME UNCHANGED <<wire, venueOrders>> PROVE SameTrades'
  BY <1>1, <1>7, TradesKept
<1>8. CASE EngineStep
  BY <1>2, <1>7, <1>8 DEF EngineStep, HandleEvent, RunStrategy, Veto, HandleDone, SubmitReturns,
                          SubmitFails, DrainOne, AfterSubmit, venueVars
<1>9. CASE VenueStep
  BY <1>3, <1>4, <1>5, <1>6, <1>7, <1>9 DEF VenueStep, VenueMoves, Connect, Disconnect
<1>10. CASE StreamStep
  BY <1>7, <1>10 DEF StreamStep, DeliverUpdate, DeliverExecution, DeliverPosition, venueVars
<1>11. CASE PipelineStep
  BY <1>7, <1>11 DEF PipelineStep, ReconStart, ReadOpenOrders, ReadPositions, ReconFinish,
                     ReconFails, Crash, ColdStart, ReplayOne, ReplayDone, venueVars
<1>. QED
  BY <1>8, <1>9, <1>10, <1>11 DEF Next

(* The three queues, as sequences over what the engine answers for.        *)
OwnUpdates == {u \in [id : Ids, status : Statuses] : orders[u.id] # None}
OwnFills   == {e \in EventEntries : orders[e.id] # None /\ IsFill(e)}
OwnEvents  == {e \in EventEntries : /\ orders[e.id] # None
                                    /\ e.event.type \in {"ack", "fill", "cancel", "reject"}
                                    /\ e.event.type # "fill" => e.event.qty = 0}

OwnQueues == updates \in Seq(OwnUpdates) /\ execs \in Seq(OwnFills) /\ outbox \in Seq(OwnEvents)

LEMMA WithinSeq ==
  ASSUME NEW S, NEW T, NEW q \in Seq(S)
  PROVE  (\A i \in 1 .. Len(q) : q[i] \in T) <=> q \in Seq(T)
<1>1. ASSUME \A i \in 1 .. Len(q) : q[i] \in T PROVE q \in Seq(T)
  BY <1>1
<1>2. ASSUME q \in Seq(T) PROVE \A i \in 1 .. Len(q) : q[i] \in T
  BY <1>2
<1>. QED
  BY <1>1, <1>2

LEMMA MessagesAreQueues == TypeOk => (OwnMessages <=> OwnQueues)
<1> SUFFICES ASSUME TypeOk PROVE OwnMessages <=> OwnQueues
  OBVIOUS
<1>1. /\ updates \in Seq([id : Ids, status : Statuses])
      /\ execs \in Seq(EventEntries) /\ outbox \in Seq(EventEntries)
  BY DEF TypeOk, VenueTypes, LogTypes
<1>2. (\A i \in 1 .. Len(updates) : Tracked(updates[i].id)) <=> updates \in Seq(OwnUpdates)
  <2>1. ASSUME NEW i \in 1 .. Len(updates)
        PROVE  updates[i] \in OwnUpdates <=> Tracked(updates[i].id)
    <3>1. PICK M : M = [id : Ids, status : Statuses]
      OBVIOUS
    <3>2. updates \in Seq(M)
      BY <1>1, <3>1
    <3>3. updates[i] \in M
      BY <3>2
    <3>. QED BY <3>1, <3>3 DEF OwnUpdates, Tracked
  <2>. QED BY <1>1, <2>1, WithinSeq
<1>3. (\A i \in 1 .. Len(execs) : Tracked(execs[i].id) /\ IsFill(execs[i])) <=> execs \in Seq(OwnFills)
  <2>1. \A i \in 1 .. Len(execs) : execs[i] \in OwnFills <=> Tracked(execs[i].id) /\ IsFill(execs[i])
    BY <1>1 DEF OwnFills, Tracked
  <2>. QED BY <1>1, <2>1, WithinSeq
<1>4. (\A i \in 1 .. Len(outbox) :
         /\ Tracked(outbox[i].id)
         /\ outbox[i].event.type \in {"ack", "fill", "cancel", "reject"}
         /\ outbox[i].event.type # "fill" => outbox[i].event.qty = 0) <=> outbox \in Seq(OwnEvents)
  <2>1. \A i \in 1 .. Len(outbox) :
          outbox[i] \in OwnEvents <=>
             /\ Tracked(outbox[i].id)
             /\ outbox[i].event.type \in {"ack", "fill", "cancel", "reject"}
             /\ outbox[i].event.type # "fill" => outbox[i].event.qty = 0
    BY <1>1 DEF OwnEvents, Tracked
  <2>. QED BY <1>1, <2>1, WithinSeq
<1>. QED
  BY <1>2, <1>3, <1>4 DEF OwnMessages, OwnQueues

LEMMA MessagesAreQueuesNext == TypeOk' => (OwnMessages' <=> OwnQueues')
  BY MessagesAreQueues, PTL

LEMMA SeqGrows ==
  ASSUME NEW S, NEW T, S \subseteq T, NEW q \in Seq(S)
  PROVE  q \in Seq(T)
  OBVIOUS

LEMMA OwnGrows ==
  ASSUME Forward
  PROVE  OwnUpdates \subseteq OwnUpdates' /\ OwnFills \subseteq OwnFills' /\ OwnEvents \subseteq OwnEvents'
<1>1. \A e \in EventEntries : e.id \in Ids
  BY DEF EventEntries
<1>. QED
  BY <1>1 DEF OwnUpdates, OwnFills, OwnEvents, Forward

LEMMA QueuesGrow ==
  ASSUME Forward
  PROVE  /\ \A q \in Seq(OwnUpdates) : q \in Seq(OwnUpdates')
         /\ \A q \in Seq(OwnFills) : q \in Seq(OwnFills')
         /\ \A q \in Seq(OwnEvents) : q \in Seq(OwnEvents')
  BY OwnGrows, SeqGrows

LEMMA EmptyQueues == <<>> \in Seq(OwnUpdates) /\ <<>> \in Seq(OwnFills) /\ <<>> \in Seq(OwnEvents)
  OBVIOUS

LEMMA EntryFieldsOf == \A id, event : EventEntry(id, event).id = id /\ EventEntry(id, event).event = event
                                        /\ EventEntry(id, event).t = "event"
  BY DEF EventEntry

LEMMA FillOfType ==
  ASSUME NEW qty \in Nat, NEW cum \in Nat
  PROVE  /\ FillOf(qty, cum) \in Events /\ FillOf(qty, cum).type = "fill"
         /\ FillOf(qty, cum).qty = qty /\ FillOf(qty, cum).cum = cum
  BY DEF FillOf, Events, EventTypes

(* The exchange publishes about orders it holds. *)
LEMMA QueuesVenue ==
  ASSUME FirstLife, OwnQueues, SameTrades, VenueStep
  PROVE  OwnQueues'
<1>1. TypeOk
  BY DEF FirstLife
<1>2. UNCHANGED orders /\ UNCHANGED outbox
  BY DEF VenueStep, VenueAccepts, VenueRefuses, RequestLost, VenueFills, VenueCloses,
         VenueMoves, Connect, Disconnect, bookVars, logVars
<1>3. OwnUpdates' = OwnUpdates /\ OwnFills' = OwnFills /\ OwnEvents' = OwnEvents
  BY <1>2 DEF OwnUpdates, OwnFills, OwnEvents
<1>4. SUFFICES updates' \in Seq(OwnUpdates) /\ execs' \in Seq(OwnFills)
  BY <1>2, <1>3 DEF OwnQueues
<1>5. ASSUME NEW id \in Ids, orders[id] # None, NEW status \in Statuses
      PROVE  Publish(updates, [id |-> id, status |-> status]) \in Seq(OwnUpdates)
  <2>1. [id |-> id, status |-> status] \in OwnUpdates
    BY <1>5 DEF OwnUpdates
  <2>. QED BY <2>1, PublishType DEF OwnQueues
<1>6. ASSUME NEW r \in wire, VenueAccepts(r) PROVE updates' \in Seq(OwnUpdates) /\ execs' \in Seq(OwnFills)
  <2>1. r.id \in Ids /\ orders[r.id] # None
    BY <1>1 DEF TypeOk, VenueTypes, Requests, SameTrades, Tracked
  <2>2. "New" \in Statuses
    BY DEF Statuses
  <2>3. updates' = Publish(updates, [id |-> r.id, status |-> "New"]) /\ execs' = execs
    BY <1>6 DEF VenueAccepts
  <2>. QED BY <1>5, <2>1, <2>2, <2>3 DEF OwnQueues
<1>7. ASSUME NEW id \in Ids, VenueFills(id) PROVE updates' \in Seq(OwnUpdates) /\ execs' \in Seq(OwnFills)
  <2>1. venueOrders[id] # None /\ orders[id] # None
    BY <1>7 DEF VenueFills, SameTrades, Tracked
  <2>2. PICK q \in 1 .. venueOrders[id].qty - venueOrders[id].filled :
          /\ execs' = Publish(execs, EventEntry(id, FillOf(q, venueOrders[id].filled + q)))
          /\ updates' = Publish(updates,
               [id |-> id, status |-> IF venueOrders[id].filled + q = venueOrders[id].qty
                                      THEN "Filled" ELSE "PartiallyFilled"])
    BY <1>7 DEF VenueFills
  <2>3. q \in Nat /\ venueOrders[id].filled + q \in Nat
    BY <1>1, <2>1, <2>2, VenueOrderFields
  <2>4. EventEntry(id, FillOf(q, venueOrders[id].filled + q)) \in OwnFills
    <3>1. PICK f \in Events : f = FillOf(q, venueOrders[id].filled + q) /\ f.type = "fill"
      BY <2>3, FillOfType
    <3>. QED BY <2>1, <3>1, EventEntryType, EntryFieldsOf DEF OwnFills, IsFill
  <2>5. execs' \in Seq(OwnFills)
    BY <2>2, <2>4, PublishType DEF OwnQueues
  <2>6. \A done : (IF done THEN "Filled" ELSE "PartiallyFilled") \in Statuses
    BY DEF Statuses
  <2>7. updates' \in Seq(OwnUpdates)
    BY <1>5, <2>1, <2>2, <2>6
  <2>. QED BY <2>5, <2>7
<1>8. ASSUME NEW id \in Ids, VenueCloses(id) PROVE updates' \in Seq(OwnUpdates) /\ execs' \in Seq(OwnFills)
  <2>1. venueOrders[id] # None /\ orders[id] # None /\ execs' = execs
    BY <1>8 DEF VenueCloses, SameTrades, Tracked
  <2>2. PICK status \in {"Cancelled", "Rejected"} : updates' = Publish(updates, [id |-> id, status |-> status])
    BY <1>8 DEF VenueCloses
  <2>3. status \in Statuses
    BY DEF Statuses
  <2>. QED BY <1>5, <2>1, <2>2, <2>3 DEF OwnQueues
<1>9. CASE UNCHANGED <<updates, execs>>
  BY <1>9 DEF OwnQueues
<1>10. CASE Disconnect
  BY <1>10, EmptyQueues DEF Disconnect
<1>. QED
  BY <1>6, <1>7, <1>8, <1>9, <1>10 DEF VenueStep, VenueRefuses, RequestLost, VenueMoves, Connect

(* A delivery moves a message of the engine's own orders to the outbox.    *)
LEMMA QueuesStream ==
  ASSUME FirstLife, OwnQueues, StreamStep
  PROVE  OwnQueues'
<1>1. UNCHANGED orders
  BY DEF StreamStep, DeliverUpdate, DeliverExecution, DeliverPosition, bookVars
<1>2. OwnUpdates' = OwnUpdates /\ OwnFills' = OwnFills /\ OwnEvents' = OwnEvents
  BY <1>1 DEF OwnUpdates, OwnFills, OwnEvents
<1>3. CASE DeliverUpdate
  <2> DEFINE u == Head(updates)
  <2>1. u \in OwnUpdates /\ Tail(updates) \in Seq(OwnUpdates)
    BY <1>3, QueueParts DEF DeliverUpdate, OwnQueues
  <2>2. updates' = Tail(updates) /\ execs' = execs
    BY <1>3 DEF DeliverUpdate
  <2>3. u.id \in Ids /\ orders[u.id] # None /\ u.status \in Statuses
    BY <2>1 DEF OwnUpdates
  <2>4. CASE UpdateEvent(u.status) = "none"
    <3>1. outbox' = outbox
      BY <1>3, <2>4 DEF DeliverUpdate, logVars
    <3>. QED BY <1>2, <2>1, <2>2, <3>1 DEF OwnQueues
  <2>5. CASE UpdateEvent(u.status) # "none"
    <3>1. UpdateEvent(u.status) \in {"ack", "cancel", "reject"}
      BY <2>3, <2>5 DEF UpdateEvent, Statuses
    <3>2. outbox' = Append(outbox, EventEntry(u.id, Plain(UpdateEvent(u.status))))
      BY <1>3, <2>5 DEF DeliverUpdate, HandleAccountEvent
    <3>3. PICK f \in Events : f = Plain(UpdateEvent(u.status)) /\ f.type \in {"ack", "cancel", "reject"} /\ f.qty = 0
      BY <3>1, PlainEvent DEF EventTypes, Plain
    <3>4. PICK e \in EventEntries : e = EventEntry(u.id, f) /\ e.id = u.id /\ e.event = f
      BY <2>3, EventEntryType, EntryFieldsOf
    <3>5. e \in OwnEvents
      BY <2>3, <3>3, <3>4 DEF OwnEvents
    <3>6. outbox' \in Seq(OwnEvents)
      BY <3>2, <3>3, <3>4, <3>5, AppendParts DEF OwnQueues
    <3>. QED BY <1>2, <2>1, <2>2, <3>6 DEF OwnQueues
  <2>. QED BY <2>4, <2>5
<1>4. CASE DeliverExecution
  <2> DEFINE h == Head(execs)
  <2>1. h \in OwnFills /\ Tail(execs) \in Seq(OwnFills)
    BY <1>4, QueueParts DEF DeliverExecution, OwnQueues
  <2>2. execs' = Tail(execs) /\ updates' = updates /\ outbox' = Append(outbox, EventEntry(h.id, h.event))
    BY <1>4 DEF DeliverExecution, HandleAccountEvent
  <2>3. h.id \in Ids /\ h.event \in Events /\ orders[h.id] # None /\ h.event.type = "fill"
    BY <2>1 DEF OwnFills, EventEntries, IsFill
  <2>4. PICK e \in EventEntries : e = EventEntry(h.id, h.event) /\ e.id = h.id /\ e.event = h.event
    BY <2>3, EventEntryType, EntryFieldsOf
  <2>5. e \in OwnEvents
    BY <2>3, <2>4 DEF OwnEvents
  <2>6. outbox' \in Seq(OwnEvents)
    BY <2>2, <2>4, <2>5, AppendParts DEF OwnQueues
  <2>. QED BY <1>2, <2>1, <2>2, <2>6 DEF OwnQueues
<1>5. ASSUME NEW s \in Symbols, DeliverPosition(s) PROVE OwnQueues'
  BY <1>2, <1>5 DEF DeliverPosition, OwnQueues, venueVars, logVars
<1>. QED
  BY <1>3, <1>4, <1>5 DEF StreamStep

LEMMA NextQueues ==
  FirstLife /\ SameTrades /\ OwnQueues /\ Next /\ crashes' = crashes => OwnQueues'
<1> SUFFICES ASSUME FirstLife, SameTrades, OwnQueues, Next, crashes' = crashes PROVE OwnQueues'
  OBVIOUS
<1>1. Forward
  BY NextForward
<1>2. ASSUME UNCHANGED <<updates, execs, outbox>> PROVE OwnQueues'
  BY <1>1, <1>2, QueuesGrow DEF OwnQueues
<1>3. CASE DrainOne
  <2>1. UNCHANGED <<updates, execs>> /\ outbox # <<>> /\ outbox' = Tail(outbox)
    BY <1>3 DEF DrainOne, venueVars
  <2>2. outbox' \in Seq(OwnEvents)
    BY <2>1, QueueParts DEF OwnQueues
  <2>. QED BY <1>1, <2>1, <2>2, QueuesGrow DEF OwnQueues
<1>4. CASE EngineStep
  BY <1>2, <1>3, <1>4 DEF EngineStep, HandleEvent, RunStrategy, Veto, HandleDone, SubmitReturns,
                          SubmitFails, BeginSubmit, AfterSubmit, venueVars, logVars
<1>5. ~Crash
  BY NoRestart
<1>6. CASE PipelineStep
  BY <1>2, <1>5, <1>6 DEF PipelineStep, ReconStart, ReadOpenOrders, ReadPositions, ReconFinish,
                          ReconFails, ColdStart, ReplayOne, ReplayDone, venueVars, logVars
<1>. QED
  BY <1>4, <1>6, QueuesVenue, QueuesStream DEF Next
-----------------------------------------------------------------------------
(***************************************************************************)
(* Positions and order fills are two accounts of the same trades.          *)
(***************************************************************************)
SF == [id \in Ids |-> SignedFill(id)]

Adds == \A s \in Symbols : positions[s] = corrected[s] + SumOf(SF, IdsOf(s))

LEMMA IdsOfFinite == \A s \in Symbols : IsFiniteSet(IdsOf(s)) /\ IdsOf(s) \subseteq Ids
<1>1. SUFFICES ASSUME NEW s \in Symbols PROVE IsFiniteSet(IdsOf(s)) /\ IdsOf(s) \subseteq Ids
  OBVIOUS
<1>2. IdsOf(s) \subseteq {s} \X (0 .. MaxSeq - 1) /\ IdsOf(s) \subseteq Ids
  BY DEF IdsOf, Ids
<1>3. 0 \in Int /\ MaxSeq - 1 \in Int
  BY Bounds
<1>4. IsFiniteSet({s}) /\ IsFiniteSet(0 .. MaxSeq - 1)
  BY <1>3, FS_Singleton, FS_Interval
<1>5. IsFiniteSet({s} \X (0 .. MaxSeq - 1))
  BY <1>4, FS_Product
<1>. QED
  BY <1>2, <1>5, FS_Subset

(* MapThenSumSet, in the form Lemmas speaks of. *)
LEMMA PositionSum ==
  ASSUME NEW S, IsFiniteSet(S), S \subseteq Ids
  PROVE  MapThenSumSet(SignedFill, S) = SumOf(SF, S)
<1> DEFINE Folds(h) ==
      h = [s \in SUBSET S |-> IF s = {} THEN 0
                              ELSE SignedFill(CHOOSE x \in s : TRUE) + h[s \ {CHOOSE x \in s : TRUE}]]
<1>1. PICK k : k = CHOOSE h : Folds(h)
  OBVIOUS
<1>2. MapThenSumSet(SignedFill, S) = k[S]
  BY <1>1 DEF MapThenSumSet, MapThenFoldSet
<1>3. ASSUME NEW h PROVE Folds(h) <=> IsSum(h, SF, S)
  <2>1. ASSUME NEW s \in SUBSET S, s # {}
        PROVE  SignedFill(CHOOSE x \in s : TRUE) + h[s \ {CHOOSE x \in s : TRUE}]
                 = SF[AnyOf(s)] + h[s \ {AnyOf(s)}]
    <3>1. AnyOf(s) \in Ids
      BY <2>1, AnyOfMember
    <3>2. SF[AnyOf(s)] = SignedFill(AnyOf(s))
      BY <3>1 DEF SF
    <3>. QED BY <3>2 DEF AnyOf
  <2>2. [s \in SUBSET S |-> IF s = {} THEN 0
                            ELSE SignedFill(CHOOSE x \in s : TRUE) + h[s \ {CHOOSE x \in s : TRUE}]]
        = [s \in SUBSET S |-> IF s = {} THEN 0 ELSE SF[AnyOf(s)] + h[s \ {AnyOf(s)}]]
    BY <2>1
  <2>. QED BY <2>2 DEF IsSum
<1> HIDE DEF Folds
<1>4. \E h : IsSum(h, SF, S)
  BY SumExists
<1>5. IsSum(k, SF, S)
  BY <1>1, <1>3, <1>4
<1>6. PICK j : IsSum(j, SF, S) /\ SumOf(SF, S) = j[S]
  BY <1>4, SumChosen
<1>7. k[S] = j[S]
  BY <1>5, <1>6, SumUnique
<1>. QED
  BY <1>2, <1>6, <1>7

LEMMA BalancedAdds == Balanced <=> Adds
  BY IdsOfFinite, PositionSum DEF Balanced, Adds

LEMMA BalancedAddsNext == Balanced' <=> Adds'
  BY BalancedAdds, PTL

LEMMA SignedFillType ==
  ASSUME BookTypes, NEW id \in Ids
  PROVE  SignedFill(id) \in Int /\ SF[id] = SignedFill(id)
<1>1. orders[id] # None => orders[id] \in OrderRecord
  BY TrackedType
<1>. QED
  BY <1>1, SignedInt DEF SignedFill, Tracked, OrderRecord, SF

LEMMA AddsKept ==
  ASSUME Adds, SF' = SF,
         \A s \in Symbols : positions'[s] - positions[s] = corrected'[s] - corrected[s],
         BookTypes, BookTypes'
  PROVE  Adds'
<1>1. ASSUME NEW s \in Symbols PROVE positions'[s] = corrected'[s] + SumOf(SF, IdsOf(s))
  <2>1. \A id \in IdsOf(s) : SF[id] \in Int
    BY SignedFillType, IdsOfFinite
  <2>2. SumOf(SF, IdsOf(s)) \in Int
    BY <2>1, IdsOfFinite, SumTakes
  <2>3. positions[s] \in Int /\ positions'[s] \in Int /\ corrected[s] \in Int /\ corrected'[s] \in Int
    BY DEF BookTypes
  <2>. QED BY <2>2, <2>3 DEF Adds
<1>2. ASSUME NEW s \in Symbols PROVE IdsOf(s)' = IdsOf(s)
  BY DEF IdsOf
<1>. QED
  BY <1>1 DEF Adds, IdsOf

(* A record written with no more filled than before: a new order, or an    *)
(* event that is not a fill.                                               *)
LEMMA SFWrite ==
  ASSUME BookTypes, NEW id \in Ids, NEW next, next # None,
         orders' = [orders EXCEPT ![id] = next]
  PROVE  SF' = [SF EXCEPT ![id] = Signed(next.side, next.filledQty)]
<1>1. DOMAIN orders = Ids
  BY DEF BookTypes
<1>2. ASSUME NEW i \in Ids
      PROVE  SignedFill(i)' = IF i = id THEN Signed(next.side, next.filledQty) ELSE SignedFill(i)
  BY <1>1 DEF SignedFill, Tracked
<1>. QED
  BY <1>2 DEF SF

LEMMA SignedSum ==
  ASSUME NEW side, NEW a \in Int, NEW b \in Int
  PROVE  Signed(side, a + b) = Signed(side, a) + Signed(side, b) /\ Signed(side, 0) = 0
<1>1. CASE side = "buy"
  BY <1>1 DEF Signed
<1>2. CASE side # "buy"
  <2>1. Signed(side, a) = -a /\ Signed(side, b) = -b /\ Signed(side, a + b) = -(a + b) /\ Signed(side, 0) = -0
    BY <1>2 DEF Signed
  <2>. QED BY <2>1
<1>. QED
  BY <1>1, <1>2

LEMMA SFSubmit ==
  ASSUME FirstLife, BeginSubmit
  PROVE  SF' = SF
<1>1. pending # <<>> /\ orders' = [orders EXCEPT ![Head(pending).id] = Submitted(Head(pending))]
  BY DEF BeginSubmit
<1>2. /\ Head(pending).id \in Ids /\ orders[Head(pending).id] = None
      /\ Submitted(Head(pending)) # None /\ Submitted(Head(pending)).filledQty = 0
  BY <1>1, HeadOfPending, HeadIsNew DEF FirstLife
<1>3. SF' = [SF EXCEPT ![Head(pending).id] = Signed(Submitted(Head(pending)).side, 0)]
  BY <1>1, <1>2, SFWrite DEF FirstLife, TypeOk
<1>4. SF[Head(pending).id] = 0 /\ Signed(Submitted(Head(pending)).side, 0) = 0
  BY <1>2, SignedSum DEF SF, SignedFill, Tracked
<1>. QED
  BY <1>3, <1>4 DEF SF

(* The event of one order: its record becomes `next', and its contribution *)
(* grows by what a booked fill adds.                                       *)
LEMMA SFEvent ==
  ASSUME TypeOk, NEW id, NEW event, Applies(id, event)
  PROVE  \/ SF' = SF /\ (event.type = "fill" => ~ApplyOrderEvent(orders[id], event).ok)
         \/ SF' = SF /\ event.type # "fill"
         \/ /\ event.type = "fill" /\ ApplyOrderEvent(orders[id], event).ok
            /\ SF' = [SF EXCEPT ![id] = @ + Signed(orders[id].side, event.qty)]
<1>1. PICK next : next = ApplyOrderEvent(orders[id], event).order
  OBVIOUS
<1>2. /\ orders[id] \in OrderRecord /\ id \in Ids /\ event.type \in EventTypes /\ event.qty \in Int
      /\ orders[id] # None /\ orders' = [orders EXCEPT ![id] = next]
  BY <1>1, TrackedType DEF TypeOk, Applies
<1>3. next # None /\ BookTypes
  BY <1>1, <1>2, ApplyType, NoneAssumption DEF TypeOk
<1>4. SF' = [SF EXCEPT ![id] = Signed(next.side, next.filledQty)]
  BY <1>2, <1>3, SFWrite
<1>5. SF[id] = Signed(orders[id].side, orders[id].filledQty) /\ orders[id].filledQty \in Int
  BY <1>2 DEF SF, SignedFill, Tracked, OrderRecord
<1>6. CASE next = orders[id] /\ (event.type = "fill" => ~ApplyOrderEvent(orders[id], event).ok)
  <2>1. SF' = SF
    BY <1>4, <1>5, <1>6 DEF SF
  <2>. QED BY <1>6, <2>1
<1>7. CASE event.type # "fill" /\ next.side = orders[id].side /\ next.filledQty = orders[id].filledQty
  <2>1. SF' = SF
    BY <1>4, <1>5, <1>7 DEF SF
  <2>. QED BY <1>7, <2>1
<1>8. CASE /\ event.type = "fill" /\ ApplyOrderEvent(orders[id], event).ok
           /\ next.side = orders[id].side /\ next.filledQty = orders[id].filledQty + event.qty
  <2>1. Signed(next.side, next.filledQty) = SF[id] + Signed(orders[id].side, event.qty)
    <3>1. Signed(orders[id].side, orders[id].filledQty + event.qty)
            = Signed(orders[id].side, orders[id].filledQty) + Signed(orders[id].side, event.qty)
      BY <1>2, <1>5, SignedSum
    <3>. QED BY <1>5, <1>8, <3>1
  <2>2. SF' = [SF EXCEPT ![id] = @ + Signed(orders[id].side, event.qty)]
    BY <1>2, <1>4, <2>1 DEF SF
  <2>. QED BY <1>8, <2>2
<1>. QED
  BY <1>1, <1>2, <1>6, <1>7, <1>8, ApplyEffect

(* A drained fill moves the position and the record by the same amount.    *)
LEMMA AddsDrain ==
  ASSUME TypeOk, TypeOk', Adds, DrainOne
  PROVE  Adds'
<1> DEFINE id     == Head(outbox).id
           event  == Head(outbox).event
           result == ApplyOrderEvent(orders[id], event)
<1>1. BookTypes /\ BookTypes' /\ id \in Ids /\ event.qty \in Int /\ event.type \in EventTypes /\ corrected' = corrected
  BY HeadOfOutbox DEF TypeOk, DrainOne
<1>2. CASE ~(orders[id] # None /\ result.ok)
  <2>1. orders' = orders /\ positions' = positions
    BY <1>2 DEF DrainOne
  <2>2. SF' = SF
    BY <2>1 DEF SF, SignedFill, Tracked
  <2>. QED BY <1>1, <2>1, <2>2, AddsKept DEF BookTypes
<1>3. CASE orders[id] # None /\ result.ok /\ event.type # "fill"
  <2>1. positions' = positions /\ Applies(id, event)
    BY <1>1, <1>3 DEF DrainOne, Applies
  <2>2. SF' = SF
    BY <1>3, <2>1, SFEvent
  <2>. QED BY <1>1, <2>1, <2>2, AddsKept DEF BookTypes
<1>4. CASE orders[id] # None /\ result.ok /\ event.type = "fill"
  <2>1. Applies(id, event)
    BY <1>1, <1>4 DEF DrainOne, Applies
  <2>2. positions' = [positions EXCEPT ![id[1]] = @ + Signed(orders[id].side, event.qty)]
    BY <1>4 DEF DrainOne
  <2>3. SF' = [SF EXCEPT ![id] = @ + Signed(orders[id].side, event.qty)]
    BY <1>4, <2>1, SFEvent
  <2>4. PICK d \in Int : d = Signed(orders[id].side, event.qty)
    BY <1>1, SignedInt
  <2> HIDE DEF id, event, result
  <2>5. PICK e : e = SF'
    OBVIOUS
  <2>6. /\ e[id] = SF[id] + d /\ \A i \in Ids : i # id => e[i] = SF[i]
        /\ \A i \in Ids : SF[i] \in Int
    BY <1>1, <2>3, <2>4, <2>5, SignedFillType DEF SF
  <2>7. ASSUME NEW s \in Symbols PROVE positions'[s] = corrected[s] + SumOf(e, IdsOf(s))
    <3>1. IsFiniteSet(IdsOf(s)) /\ IdsOf(s) \subseteq Ids
      BY IdsOfFinite
    <3>2. positions[s] = corrected[s] + SumOf(SF, IdsOf(s)) /\ positions[s] \in Int /\ corrected[s] \in Int
      BY <1>1 DEF Adds, BookTypes
    <3>3. CASE s = id[1]
      <4>1. id \in IdsOf(s)
        BY <1>1, <3>3 DEF IdsOf
      <4>2. SF[id] \in Int /\ e[id] \in Int
        BY <1>1, <2>6
      <4>3. \A x \in IdsOf(s) : SF[x] \in Int /\ e[x] \in Int /\ (x # id => e[x] = SF[x])
        BY <2>6, <3>1, <4>2
      <4>4. SumOf(e, IdsOf(s)) = SumOf(SF, IdsOf(s)) - SF[id] + e[id] /\ SumOf(SF, IdsOf(s)) \in Int
        BY <3>1, <4>1, <4>3, SumChanges
      <4>5. positions'[s] = positions[s] + d
        BY <1>1, <2>2, <2>4, <3>3 DEF BookTypes
      <4>. QED BY <2>6, <3>2, <4>2, <4>4, <4>5
    <3>4. CASE s # id[1]
      <4>1. \A x \in IdsOf(s) : e[x] = SF[x]
        BY <2>6, <3>1, <3>4 DEF IdsOf
      <4>2. SumOf(e, IdsOf(s)) = SumOf(SF, IdsOf(s))
        BY <3>1, <4>1, SumSame
      <4>3. positions'[s] = positions[s]
        BY <1>1, <2>2, <3>4 DEF BookTypes
      <4>. QED BY <3>2, <4>2, <4>3
    <3>. QED BY <3>3, <3>4
  <2>. QED BY <1>1, <2>5, <2>7 DEF Adds, IdsOf
<1>. QED
  BY <1>2, <1>3, <1>4

LEMMA NextAdds == FirstLife /\ TypeOk' /\ Adds /\ Next /\ crashes' = crashes => Adds'
<1> SUFFICES ASSUME FirstLife, TypeOk', Adds, Next, crashes' = crashes PROVE Adds'
  OBVIOUS
<1>1. TypeOk /\ BookTypes /\ BookTypes'
  BY DEF FirstLife, TypeOk
<1>2. ASSUME SF' = SF, UNCHANGED <<positions, corrected>> PROVE Adds'
  BY <1>1, <1>2, AddsKept DEF BookTypes
<1>3. ASSUME UNCHANGED bookVars PROVE Adds'
  <2>1. SF' = SF
    BY <1>3 DEF bookVars, SF, SignedFill, Tracked
  <2>. QED BY <1>2, <1>3, <2>1 DEF bookVars
<1>4. CASE BeginSubmit
  BY <1>2, <1>4, SFSubmit DEF BeginSubmit
<1>5. ASSUME NEW accepted \in BOOLEAN, AfterSubmit(accepted) PROVE Adds'
  <2>1. Plain("reject").type # "fill"
    BY DEF Plain
  <2>2. SF' = SF
    <3>1. CASE UNCHANGED orders
      BY <3>1 DEF SF, SignedFill, Tracked
    <3>2. CASE Applies(call.id, Plain("reject"))
      BY <1>1, <2>1, <3>2, SFEvent
    <3>. QED BY <1>1, <1>5, <3>1, <3>2, AnswerApplies
  <2>. QED BY <1>2, <1>5, <2>2 DEF AfterSubmit
<1>6. CASE ReconFinish
  <2>1. orders' = orders /\ \A s \in Symbols : corrected'[s] = corrected[s] + positions'[s] - positions[s]
    BY <1>6 DEF ReconFinish, ApplyCorrections
  <2>2. SF' = SF
    BY <2>1 DEF SF, SignedFill, Tracked
  <2>3. \A s \in Symbols : positions'[s] - positions[s] = corrected'[s] - corrected[s]
    BY <1>1, <2>1 DEF BookTypes
  <2>. QED BY <1>1, <2>2, <2>3, AddsKept
<1>7. ~Crash
  BY NoRestart
<1>8. ~ReplayOne
  BY NoRestart
<1>9. CASE EngineStep
  BY <1>1, <1>3, <1>4, <1>5, <1>9, AddsDrain DEF EngineStep, HandleEvent, RunStrategy, Veto, HandleDone,
                                                 SubmitReturns, SubmitFails
<1>10. CASE VenueStep
  BY <1>3, <1>10 DEF VenueStep, VenueAccepts, VenueRefuses, RequestLost, VenueFills, VenueCloses,
                     VenueMoves, Connect, Disconnect
<1>11. CASE StreamStep
  BY <1>3, <1>11 DEF StreamStep, DeliverUpdate, DeliverExecution, DeliverPosition
<1>12. CASE PipelineStep
  BY <1>3, <1>6, <1>7, <1>8, <1>12 DEF PipelineStep, ReconStart, ReadOpenOrders, ReadPositions,
                                       ReconFails, ColdStart, ReplayDone
<1>. QED
  BY <1>9, <1>10, <1>11, <1>12 DEF Next
-----------------------------------------------------------------------------
(***************************************************************************)
(* What an order comes to when everything on its way has arrived.          *)
(***************************************************************************)
Due(id) == Filled(id) + FillsIn(outbox, id) + FillsIn(execs, id)

LEMMA FilledType ==
  ASSUME TypeOk, NEW id \in Ids
  PROVE  Filled(id) \in Nat /\ VenueFilled(id) \in Nat
<1>1. orders[id] # None => orders[id] \in OrderRecord
  BY TrackedType DEF TypeOk
<1>2. orders[id] # None => orders[id].filledQty \in Nat
  BY <1>1 DEF OrderRecord
<1>. QED
  BY <1>2, VenueOrderFields DEF Filled, Tracked, VenueFilled

LEMMA FillsInQueues ==
  ASSUME TypeOk, NEW id
  PROVE  FillsIn(outbox, id) \in Nat /\ FillsIn(execs, id) \in Nat
  BY FillsInNatural DEF TypeOk, VenueTypes, LogTypes

(* A fill that fits a live order is taken. *)
LEMMA FillAccepted ==
  ASSUME NEW order \in OrderRecord, order.state \in {"SUBMITTED", "ACK", "PARTIAL"},
         NEW event, event.type = "fill", event.qty \in Nat, event.qty > 0,
         order.filledQty + event.qty <= order.qty
  PROVE  ApplyOrderEvent(order, event).ok
<1>1. ~IsTerminal(order.state) /\ order.filledQty \in Nat /\ order.qty \in Nat
  BY DEF IsTerminal, TerminalStates, OrderRecord
<1>2. ApplyOrderEvent(order, event) = ApplyFill(order, event.qty)
  BY <1>1 DEF ApplyOrderEvent
<1>3. \A to \in {"PARTIAL", "FILLED"} : \A filled : Transition(order, to, filled).ok
  BY DEF Transition, CanTransition, Legal
<1>4. ApplyFill(order, event.qty).ok
  BY <1>1, <1>3 DEF ApplyFill
<1>. QED
  BY <1>2, <1>4

(* What an event does to the filled quantities. *)
LEMMA FilledEvent ==
  ASSUME TypeOk, NEW id, NEW event, Applies(id, event)
  PROVE  /\ \A i \in Ids : i # id => orders'[i] = orders[i] /\ Filled(i)' = Filled(i)
         /\ IF event.type = "fill" /\ ApplyOrderEvent(orders[id], event).ok
            THEN Filled(id)' = Filled(id) + event.qty
            ELSE Filled(id)' = Filled(id)
<1>1. PICK next : next = ApplyOrderEvent(orders[id], event).order
  OBVIOUS
<1>2. /\ orders[id] \in OrderRecord /\ id \in Ids /\ event.type \in EventTypes /\ event.qty \in Int
      /\ orders[id] # None /\ orders' = [orders EXCEPT ![id] = next] /\ DOMAIN orders = Ids
  BY <1>1, TrackedType DEF TypeOk, BookTypes, Applies
<1>3. next # None
  BY <1>1, <1>2, ApplyType, NoneAssumption
<1>4. Filled(id)' = next.filledQty /\ Filled(id) = orders[id].filledQty
  BY <1>2, <1>3 DEF Filled, Tracked
<1>5. \A i \in Ids : i # id => orders'[i] = orders[i]
  BY <1>2
<1>6. \A i \in Ids : i # id => Filled(i)' = Filled(i)
  BY <1>5 DEF Filled, Tracked
<1>7. IF event.type = "fill" /\ ApplyOrderEvent(orders[id], event).ok
      THEN next.filledQty = orders[id].filledQty + event.qty
      ELSE next.filledQty = orders[id].filledQty
  BY <1>1, <1>2, ApplyEffect
<1>. QED
  BY <1>4, <1>5, <1>6, <1>7

(* An order the book does not know has no fill anywhere. *)
LEMMA UnknownIsEmpty ==
  ASSUME TypeOk, SameTrades, OwnQueues, NEW id \in Ids, orders[id] = None
  PROVE  VenueFilled(id) = 0 /\ FillsIn(outbox, id) = 0 /\ FillsIn(execs, id) = 0
<1>1. VenueFilled(id) = 0
  BY DEF SameTrades, VenueFilled, Tracked
<1>2. /\ \A i \in 1 .. Len(outbox) : outbox[i] \in OwnEvents
      /\ \A i \in 1 .. Len(execs) : execs[i] \in OwnFills
  BY WithinSeq DEF OwnQueues
<1>3. /\ \A i \in 1 .. Len(outbox) : Weight(outbox[i], id) = 0
      /\ \A i \in 1 .. Len(execs) : Weight(execs[i], id) = 0
  BY <1>2 DEF OwnEvents, OwnFills, Weight
<1>. QED
  BY <1>1, <1>3, FillsInNatural DEF TypeOk, VenueTypes, LogTypes

LEMMA DueType ==
  ASSUME TypeOk, NEW id \in Ids
  PROVE  Due(id) \in Nat
  BY FilledType, FillsInQueues DEF Due

LEMMA DueKept ==
  ASSUME NEW id, Filled(id)' = Filled(id),
         FillsIn(outbox', id) = FillsIn(outbox, id), FillsIn(execs', id) = FillsIn(execs, id)
  PROVE  Due(id)' = Due(id)
  BY DEF Due

(* The next fill of an order fits its record: the exchange has not filled  *)
(* more than was asked for, and the book does not contain it yet.          *)
LEMMA HeadFits ==
  ASSUME IInv, SameTrades, outbox # <<>>, IsFill(Head(outbox)), orders[Head(outbox).id] # None
  PROVE  orders[Head(outbox).id].filledQty + Head(outbox).event.qty <= orders[Head(outbox).id].qty
<1> DEFINE id == Head(outbox).id
<1>1. TypeOk
  BY DEF IInv
<1>2. /\ id \in Ids /\ Head(outbox).event.qty \in Nat /\ Head(outbox).event.cum \in Nat
      /\ Head(outbox) = outbox[1] /\ 1 \in 1 .. Len(outbox)
  <2>1. outbox \in Seq(EventEntries)
    BY <1>1 DEF TypeOk, LogTypes
  <2>2. Head(outbox) \in EventEntries /\ Head(outbox) = outbox[1] /\ Len(outbox) >= 1 /\ Len(outbox) \in Nat
    BY <2>1, QueueParts
  <2>. QED BY <2>2, EventFields DEF EventEntries
<1>3. Filled(id) + Head(outbox).event.qty <= Head(outbox).event.cum
  BY <1>2 DEF IInv, UndeliveredUnbooked, Unbooked
<1>4. Head(outbox).event.cum <= VenueFilled(id)
  BY <1>2 DEF IInv, ExecutionsReal, Real
<1>5. orders[id] \in OrderRecord /\ Filled(id) = orders[id].filledQty
  BY <1>1, <1>2, TrackedType DEF TypeOk, Filled, Tracked
<1>6. orders[id].qty \in Nat /\ orders[id].filledQty \in Nat
  BY <1>5 DEF OrderRecord
<1>7. VenueFilled(id) <= orders[id].qty
  BY <1>2, <1>6 DEF SameTrades, VenueFilled
<1>. QED
  BY <1>1, <1>2, <1>3, <1>4, <1>5, <1>6, <1>7, FilledType

(* Taking an event from the outbox books it, unless it is a fill of an     *)
(* order that was closed before.                                           *)
LEMMA DrainDue ==
  ASSUME IInv, InOpenStates, SameTrades, OwnQueues, DrainOne, NEW id \in Ids,
         \/ id # Head(outbox).id
         \/ Head(outbox).event.type # "fill"
         \/ orders[id].state \notin {"CANCELLED", "REJECTED"}
  PROVE  Due(id)' = Due(id)
<1> DEFINE h     == Head(outbox)
           event == h.event
<1>1. TypeOk /\ outbox # <<>> /\ outbox \in Seq(EventEntries) /\ outbox' = Tail(outbox) /\ execs' = execs
  BY DEF DrainOne, IInv, TypeOk, LogTypes, venueVars
<1>2. h \in EventEntries /\ h.id \in Ids /\ event.qty \in Nat /\ h \in OwnEvents
  BY <1>1, HeadOfOutbox, QueueParts DEF OwnQueues
<1>3. FillsIn(outbox, id) = Weight(h, id) + FillsIn(outbox', id)
  BY <1>1, FillsInTail
<1>4. FillsIn(outbox', id) \in Nat /\ FillsIn(execs, id) \in Nat /\ Filled(id) \in Nat
  BY <1>1, QueueParts, FillsInNatural, FillsInQueues, FilledType
<1>5. ASSUME Weight(h, id) = 0, Filled(id)' = Filled(id) PROVE Due(id)' = Due(id)
  BY <1>1, <1>3, <1>4, <1>5, DueKept
<1>6. CASE id # h.id \/ event.type # "fill"
  <2>1. Weight(h, id) = 0
    BY <1>2, <1>6 DEF Weight, OwnEvents
  <2>2. Filled(id)' = Filled(id)
    <3>1. CASE UNCHANGED orders
      BY <3>1 DEF Filled, Tracked
    <3>2. CASE Applies(h.id, event)
      BY <1>1, <1>6, <3>2, FilledEvent
    <3>. QED BY <1>1, <3>1, <3>2, DrainApplies
  <2>. QED BY <1>5, <2>1, <2>2
<1>7. CASE id = h.id /\ event.type = "fill"
  <2>1. Weight(h, id) = event.qty
    BY <1>7 DEF Weight
  <2>2. orders[id] # None /\ orders[id] \in OrderRecord /\ IsFill(h)
    BY <1>1, <1>2, <1>7, TrackedType DEF OwnEvents, TypeOk, IsFill, EventEntries
  <2>3. CASE ApplyOrderEvent(orders[id], event).ok
    <3>1. Applies(id, event)
      BY <1>1, <1>7, <2>2, <2>3, HeadOfOutbox DEF DrainOne, Applies
    <3>2. Filled(id)' = Filled(id) + event.qty
      BY <1>1, <1>7, <2>3, <3>1, FilledEvent
    <3>. QED BY <1>1, <1>2, <1>3, <1>4, <2>1, <3>2 DEF Due
  <2>4. CASE ~ApplyOrderEvent(orders[id], event).ok
    <3>1. orders' = orders
      BY <1>7, <2>4 DEF DrainOne
    <3>2. orders[id].filledQty + event.qty <= orders[id].qty
      BY <1>1, <1>7, <2>2, HeadFits
    <3>3. orders[id].state \in {"SUBMITTED", "ACK", "PARTIAL", "FILLED"}
      BY <1>7, <2>2 DEF InOpenStates, OpenStates, Tracked
    <3>4. orders[id].state = "FILLED" => orders[id].filledQty = orders[id].qty
      BY <2>2 DEF IInv, BookWellFormed, WellFormed, Tracked
    <3>5. orders[id].qty \in Nat /\ orders[id].filledQty \in Nat
      BY <2>2 DEF OrderRecord
    <3>6. event.qty = 0
      BY <1>2, <1>7, <2>2, <2>4, <3>2, <3>3, <3>4, <3>5, FillAccepted
    <3>7. Filled(id)' = Filled(id) /\ Weight(h, id) = 0
      BY <2>1, <3>1, <3>6 DEF Filled, Tracked
    <3>. QED BY <1>5, <3>7
  <2>. QED BY <2>3, <2>4
<1>. QED
  BY <1>6, <1>7

(* A delivery moves a message from the stream to the outbox. *)
LEMMA DeliveryDue ==
  ASSUME TypeOk, OwnQueues, StreamStep, NEW id \in Ids
  PROVE  Due(id)' = Due(id)
<1>1. UNCHANGED orders
  BY DEF StreamStep, DeliverUpdate, DeliverExecution, DeliverPosition, bookVars
<1>2. Filled(id)' = Filled(id)
  BY <1>1 DEF Filled, Tracked
<1>3. outbox \in Seq(EventEntries) /\ execs \in Seq(EventEntries)
  BY DEF TypeOk, VenueTypes, LogTypes
<1>4. CASE DeliverUpdate
  <2> DEFINE u == Head(updates)
  <2>1. u \in OwnUpdates
    BY <1>4, QueueParts DEF DeliverUpdate, OwnQueues
  <2>2. u.id \in Ids /\ u.status \in Statuses /\ execs' = execs
    BY <1>4, <2>1 DEF DeliverUpdate, OwnUpdates
  <2>3. CASE UpdateEvent(u.status) = "none"
    <3>1. outbox' = outbox
      BY <1>4, <2>3 DEF DeliverUpdate, logVars
    <3>. QED BY <1>2, <2>2, <3>1, DueKept
  <2>4. CASE UpdateEvent(u.status) # "none"
    <3>1. UpdateEvent(u.status) \in {"ack", "cancel", "reject"}
      BY <2>2, <2>4 DEF UpdateEvent, Statuses
    <3>2. outbox' = Append(outbox, EventEntry(u.id, Plain(UpdateEvent(u.status))))
      BY <1>4, <2>4 DEF DeliverUpdate, HandleAccountEvent
    <3>3. PICK f \in Events : f = Plain(UpdateEvent(u.status)) /\ f.qty = 0
      BY <3>1, PlainEvent DEF EventTypes, Plain
    <3>4. PICK e \in EventEntries : e = EventEntry(u.id, f) /\ e.id = u.id /\ e.event = f
      BY <2>2, EventEntryType, EntryFieldsOf
    <3>5. Weight(e, id) = 0
      BY <3>3, <3>4 DEF Weight
    <3>6. FillsIn(outbox', id) = FillsIn(outbox, id) + Weight(e, id) /\ FillsIn(outbox, id) \in Int
      BY <1>3, <3>2, <3>3, <3>4, FillsInAppend, FillsInType
    <3>7. FillsIn(outbox', id) = FillsIn(outbox, id)
      BY <3>5, <3>6
    <3>. QED BY <1>2, <2>2, <3>7, DueKept
  <2>. QED BY <2>3, <2>4
<1>5. CASE DeliverExecution
  <2> DEFINE h == Head(execs)
  <2>1. execs # <<>> /\ execs' = Tail(execs) /\ outbox' = Append(outbox, EventEntry(h.id, h.event))
    BY <1>5 DEF DeliverExecution, HandleAccountEvent
  <2>2. h \in EventEntries /\ h.id \in Ids /\ h.event \in Events
    <3>1. h \in EventEntries
      BY <1>3, <2>1, QueueParts
    <3>. QED BY <3>1 DEF EventEntries
  <2>3. PICK e \in EventEntries : e = EventEntry(h.id, h.event) /\ e.id = h.id /\ e.event = h.event
    BY <2>2, EventEntryType, EntryFieldsOf
  <2>4. Weight(e, id) = Weight(h, id)
    BY <2>3 DEF Weight
  <2>5. FillsIn(outbox', id) = FillsIn(outbox, id) + Weight(e, id)
    BY <1>3, <2>1, <2>3, FillsInAppend
  <2>6. FillsIn(execs, id) = Weight(h, id) + FillsIn(execs', id)
    BY <1>3, <2>1, FillsInTail
  <2>7. FillsIn(outbox, id) \in Nat /\ FillsIn(execs', id) \in Nat /\ Weight(h, id) \in Nat
    BY <1>3, <2>1, <2>2, QueueParts, FillsInNatural, WeightType
  <2>8. Filled(id) \in Nat
    BY FilledType
  <2>. QED BY <1>2, <2>4, <2>5, <2>6, <2>7, <2>8 DEF Due
<1>6. ASSUME NEW s \in Symbols, DeliverPosition(s) PROVE Due(id)' = Due(id)
  <2>1. outbox' = outbox /\ execs' = execs
    BY <1>6 DEF DeliverPosition, venueVars, logVars
  <2>. QED BY <1>2, <2>1, DueKept
<1>. QED
  BY <1>4, <1>5, <1>6 DEF StreamStep

(* A fill the exchange makes is due while the socket is connected. *)
LEMMA FillDue ==
  ASSUME TypeOk, NEW i \in Ids, VenueFills(i)
  PROVE  \E q \in Nat \ {0} :
           /\ venuePos' = [venuePos EXCEPT ![i[1]] = @ + Signed(venueOrders[i].side, q)]
           /\ VenueFilled(i)' = VenueFilled(i) + q
           /\ socket => Due(i)' = Due(i) + q
           /\ \A id \in Ids : id # i => Due(id)' = Due(id) /\ VenueFilled(id)' = VenueFilled(id)
<1>1. PICK q \in 1 .. venueOrders[i].qty - venueOrders[i].filled :
        /\ venueOrders' = [venueOrders EXCEPT ![i] =
             [@ EXCEPT !.filled = venueOrders[i].filled + q,
                       !.live = ~(venueOrders[i].filled + q = venueOrders[i].qty)]]
        /\ venuePos' = [venuePos EXCEPT ![i[1]] = @ + Signed(venueOrders[i].side, q)]
        /\ execs' = Publish(execs, EventEntry(i, FillOf(q, venueOrders[i].filled + q)))
  BY DEF VenueFills
<1>2. venueOrders[i] # None /\ UNCHANGED <<orders, outbox>>
  BY DEF VenueFills, bookVars, logVars
<1>3. q \in Nat \ {0} /\ venueOrders[i].filled + q \in Nat /\ venueOrders[i].filled \in Nat
  BY <1>1, <1>2, VenueOrderFields
<1>4. PICK f \in Events : f = FillOf(q, venueOrders[i].filled + q) /\ f.qty = q
  BY <1>3, FillOfType
<1>5. PICK e \in EventEntries : e = EventEntry(i, f) /\ e.id = i /\ e.event = f
  BY EventEntryType, EntryFieldsOf
<1>6. PICK order : order = [venueOrders[i] EXCEPT !.filled = venueOrders[i].filled + q,
                              !.live = ~(venueOrders[i].filled + q = venueOrders[i].qty)]
  OBVIOUS
<1>7. order.filled = venueOrders[i].filled + q /\ order # None
  <2>1. order \in VenueOrder
    BY <1>2, <1>3, <1>6, VenueOrderFields DEF VenueOrder
  <2>2. order.filled = venueOrders[i].filled + q
    BY <1>2, <1>6, VenueOrderFields
  <2>. QED BY <2>1, <2>2, NoneAssumption
<1>8. execs \in Seq(EventEntries) /\ DOMAIN venueOrders = Ids /\ venueOrders' = [venueOrders EXCEPT ![i] = order]
  BY <1>1, <1>6 DEF TypeOk, VenueTypes
<1>9. execs' = IF socket THEN Append(execs, e) ELSE execs
  BY <1>1, <1>4, <1>5 DEF Publish
<1>10. VenueFilled(i)' = VenueFilled(i) + q
  BY <1>2, <1>7, <1>8 DEF VenueFilled
<1>11. ASSUME NEW id \in Ids
       PROVE  /\ Filled(id)' = Filled(id) /\ Filled(id) \in Nat
              /\ FillsIn(outbox, id) \in Nat /\ FillsIn(execs, id) \in Nat
              /\ FillsIn(Append(execs, e), id) = FillsIn(execs, id) + Weight(e, id)
  BY <1>2, <1>8, FilledType, FillsInQueues, FillsInAppend DEF Filled, Tracked
<1>12. socket => Due(i)' = Due(i) + q
  <2>1. Weight(e, i) = q
    BY <1>4, <1>5 DEF Weight
  <2>. QED BY <1>2, <1>3, <1>9, <1>11, <2>1 DEF Due
<1>13. ASSUME NEW id \in Ids, id # i PROVE Due(id)' = Due(id) /\ VenueFilled(id)' = VenueFilled(id)
  <2>1. Weight(e, id) = 0
    BY <1>5, <1>13 DEF Weight
  <2>2. FillsIn(execs', id) = FillsIn(execs, id)
    BY <1>9, <1>11, <2>1
  <2>3. VenueFilled(id)' = VenueFilled(id)
    BY <1>8, <1>13 DEF VenueFilled
  <2>. QED BY <1>2, <1>11, <2>2, <2>3, DueKept
<1>. QED
  BY <1>1, <1>3, <1>10, <1>12, <1>13

(* No other step of the exchange or the network is about a fill, except    *)
(* the loss of the socket.                                                 *)
LEMMA VenueDue ==
  ASSUME TypeOk, VenueStep, ~Disconnect, NEW id \in Ids, ~VenueFills(id)
  PROVE  Due(id)' = Due(id) /\ VenueFilled(id)' = VenueFilled(id)
<1>1. ASSUME NEW i \in Ids, VenueFills(i) PROVE Due(id)' = Due(id) /\ VenueFilled(id)' = VenueFilled(id)
  BY <1>1, FillDue
<1>2. ASSUME UNCHANGED <<orders, outbox, execs>> PROVE Due(id)' = Due(id)
  BY <1>2 DEF Due, Filled, Tracked
<1>3. ASSUME NEW r \in wire, VenueAccepts(r) PROVE Due(id)' = Due(id) /\ VenueFilled(id)' = VenueFilled(id)
  <2>1. PICK order : order = [side |-> r.side, qty |-> r.qty, filled |-> 0, live |-> TRUE]
    OBVIOUS
  <2>2. /\ r.id \in Ids /\ venueOrders[r.id] = None /\ DOMAIN venueOrders = Ids
        /\ venueOrders' = [venueOrders EXCEPT ![r.id] = order] /\ order.filled = 0
        /\ UNCHANGED <<orders, outbox, execs>>
    BY <1>3, <2>1 DEF VenueAccepts, TypeOk, VenueTypes, Requests, bookVars, logVars
  <2>3. VenueFilled(id)' = VenueFilled(id)
    BY <2>2 DEF VenueFilled
  <2>. QED BY <1>2, <2>2, <2>3
<1>4. ASSUME NEW i \in Ids, VenueCloses(i) PROVE Due(id)' = Due(id) /\ VenueFilled(id)' = VenueFilled(id)
  <2>1. PICK order : order = [venueOrders[i] EXCEPT !.live = FALSE]
    OBVIOUS
  <2>2. /\ venueOrders[i] # None /\ venueOrders' = [venueOrders EXCEPT ![i] = order]
        /\ DOMAIN venueOrders = Ids /\ UNCHANGED <<orders, outbox, execs>>
    BY <1>4, <2>1 DEF VenueCloses, TypeOk, VenueTypes, bookVars, logVars
  <2>3. order.filled = venueOrders[i].filled /\ order # None
    <3>1. order \in VenueOrder
      BY <2>1, <2>2, VenueOrderFields DEF VenueOrder
    <3>2. order.filled = venueOrders[i].filled
      BY <2>1, <2>2, VenueOrderFields
    <3>. QED BY <3>1, <3>2, NoneAssumption
  <2>4. VenueFilled(id)' = VenueFilled(id)
    BY <2>2, <2>3 DEF VenueFilled
  <2>. QED BY <1>2, <2>2, <2>4
<1>5. ASSUME UNCHANGED <<orders, outbox, execs, venueOrders>>
      PROVE  Due(id)' = Due(id) /\ VenueFilled(id)' = VenueFilled(id)
  BY <1>2, <1>5 DEF VenueFilled
<1>. QED
  BY <1>1, <1>3, <1>4, <1>5 DEF VenueStep, VenueRefuses, RequestLost, VenueMoves, Connect, bookVars, logVars

(* The engine's own steps keep what is due. *)
LEMMA BookDue ==
  ASSUME FirstLife, IInv, InOpenStates, SameTrades, OwnQueues, EngineStep, NEW id \in Ids, orders[id] # None,
         ~(DrainOne /\ id = Head(outbox).id /\ Head(outbox).event.type = "fill"
             /\ orders[id].state \in {"CANCELLED", "REJECTED"})
  PROVE  Due(id)' = Due(id)
<1>1. TypeOk
  BY DEF FirstLife
<1>2. ASSUME UNCHANGED <<outbox, execs>>, Filled(id)' = Filled(id) PROVE Due(id)' = Due(id)
  BY <1>2, DueKept
<1>3. CASE DrainOne
  BY <1>3, DrainDue
<1>4. CASE BeginSubmit
  <2>1. /\ pending # <<>> /\ orders' = [orders EXCEPT ![Head(pending).id] = Submitted(Head(pending))]
        /\ UNCHANGED <<outbox, execs>>
    BY <1>4 DEF BeginSubmit, logVars
  <2>2. Head(pending).id # id
    BY <2>1, HeadIsNew
  <2>3. orders'[id] = orders[id]
    BY <1>1, <2>1, <2>2 DEF TypeOk, BookTypes
  <2>. QED BY <1>2, <2>1, <2>3 DEF Filled, Tracked
<1>5. ASSUME NEW accepted \in BOOLEAN, AfterSubmit(accepted) PROVE Due(id)' = Due(id)
  <2>1. Plain("reject").type # "fill"
    BY DEF Plain
  <2>2. Filled(id)' = Filled(id)
    <3>1. CASE UNCHANGED orders
      BY <3>1 DEF Filled, Tracked
    <3>2. CASE Applies(call.id, Plain("reject"))
      BY <1>1, <2>1, <3>2, FilledEvent
    <3>. QED BY <1>1, <1>5, <3>1, <3>2, AnswerApplies
  <2>. QED BY <1>2, <1>5, <2>2 DEF AfterSubmit, logVars
<1>6. ASSUME UNCHANGED <<orders, outbox, execs>> PROVE Due(id)' = Due(id)
  BY <1>2, <1>6 DEF Filled, Tracked
<1>. QED
  BY <1>3, <1>4, <1>5, <1>6 DEF EngineStep, HandleEvent, RunStrategy, Veto, HandleDone, SubmitReturns,
                                SubmitFails, bookVars, venueVars, logVars
-----------------------------------------------------------------------------
(***************************************************************************)
(* No execution is lost on its way to the book.                            *)
(***************************************************************************)
Recorded(id) ==
  Tracked(id) /\ orders[id].state \notin {"CANCELLED", "REJECTED"} => VenueFilled(id) = Due(id)

AllRecorded == \A id \in Ids \ missed : Recorded(id)

NoCrash == crashes = 0

LEMMA LossIsUnrecorded == NoCrash => (NoFillLost <=> AllRecorded)
  BY DEF NoCrash, NoFillLost, AllRecorded, Recorded, Due

LEMMA LossIsUnrecordedNext == NoCrash' => (NoFillLost' <=> AllRecorded')
  BY LossIsUnrecorded, PTL

(* An order seen in the next state was open before, or is new. *)
LEMMA OpenBefore ==
  ASSUME Forward, NEW id \in Ids, orders[id] # None,
         orders'[id].state \notin {"CANCELLED", "REJECTED"}
  PROVE  orders[id].state \notin {"CANCELLED", "REJECTED"}
<1>1. CASE IsTerminal(orders[id].state)
  BY <1>1 DEF Forward
<1>2. CASE ~IsTerminal(orders[id].state)
  BY <1>2 DEF IsTerminal, TerminalStates
<1>. QED
  BY <1>1, <1>2

LEMMA RecordedKept ==
  ASSUME Forward, NEW id \in Ids, Recorded(id), orders[id] # None,
         VenueFilled(id)' = VenueFilled(id), Due(id)' = Due(id)
  PROVE  Recorded(id)'
  BY OpenBefore DEF Recorded, Tracked

(* A fill the exchange makes is in the stream, or missed. *)
LEMMA VenueRecorded ==
  ASSUME TypeOk, Forward, VenueStep, NEW id \in Ids, id \notin missed', Recorded(id), orders[id] # None
  PROVE  Recorded(id)'
<1>1. CASE VenueFills(id)
  <2>1. socket /\ UNCHANGED orders
    BY <1>1 DEF VenueFills, bookVars
  <2>2. PICK q \in Nat : VenueFilled(id)' = VenueFilled(id) + q /\ Due(id)' = Due(id) + q
    BY <1>1, <2>1, FillDue
  <2>3. orders'[id] = orders[id]
    BY <2>1
  <2>. QED BY <2>2, <2>3 DEF Recorded, Tracked
<1>2. CASE Disconnect
  <2>1. /\ execs' = <<>> /\ UNCHANGED <<orders, outbox, venueOrders>>
        /\ missed' = missed \cup {execs[i].id : i \in DOMAIN execs}
    BY <1>2 DEF Disconnect, bookVars, logVars
  <2>2. execs \in Seq(EventEntries)
    BY DEF TypeOk, VenueTypes
  <2>3. \A i \in 1 .. Len(execs) : Weight(execs[i], id) = 0
    BY <2>1, <2>2 DEF Weight
  <2>4. FillsIn(execs, id) = 0 /\ FillsIn(execs', id) = 0
    BY <2>1, <2>2, <2>3, FillsInNatural, FillsInEmpty
  <2>5. VenueFilled(id)' = VenueFilled(id) /\ Filled(id)' = Filled(id)
    BY <2>1 DEF VenueFilled, Filled, Tracked
  <2>. QED BY <2>1, <2>4, <2>5, DueKept, RecordedKept
<1>3. CASE ~VenueFills(id) /\ ~Disconnect
  BY <1>3, VenueDue, RecordedKept
<1>. QED
  BY <1>1, <1>2, <1>3

LEMMA SubmitRecorded ==
  ASSUME FirstLife, SameTrades, OwnQueues, BeginSubmit, NEW id, id = Head(pending).id
  PROVE  Recorded(id)'
<1>1. /\ pending # <<>> /\ orders' = [orders EXCEPT ![id] = Submitted(Head(pending))]
      /\ UNCHANGED <<venueOrders, outbox, execs>>
  BY DEF BeginSubmit, logVars
<1>2. TypeOk /\ DOMAIN orders = Ids
  BY DEF FirstLife, TypeOk, BookTypes
<1>3. id \in Ids /\ orders[id] = None /\ Submitted(Head(pending)) # None /\ Submitted(Head(pending)).filledQty = 0
  BY <1>1, <1>2, HeadOfPending, HeadIsNew
<1>4. VenueFilled(id) = 0 /\ FillsIn(outbox, id) = 0 /\ FillsIn(execs, id) = 0
  BY <1>2, <1>3, UnknownIsEmpty
<1>5. Filled(id)' = 0
  BY <1>1, <1>2, <1>3 DEF Filled, Tracked
<1>6. Due(id)' = 0
  BY <1>1, <1>4, <1>5 DEF Due
<1>7. VenueFilled(id)' = 0
  BY <1>1, <1>4 DEF VenueFilled
<1>. QED
  BY <1>6, <1>7 DEF Recorded

LEMMA MissedGrows == Next => missed \subseteq missed'
<1> SUFFICES ASSUME Next PROVE missed \subseteq missed'
  OBVIOUS
<1>1. CASE EngineStep
  BY <1>1 DEF EngineStep, HandleEvent, RunStrategy, Veto, HandleDone, SubmitReturns, SubmitFails, DrainOne,
              BeginSubmit, AfterSubmit, counters
<1>2. CASE VenueStep
  BY <1>2 DEF VenueStep, VenueAccepts, VenueRefuses, RequestLost, VenueFills, VenueCloses,
              VenueMoves, Connect, Disconnect, counters
<1>3. CASE StreamStep
  BY <1>3 DEF StreamStep, DeliverUpdate, DeliverExecution, DeliverPosition, counters
<1>4. CASE PipelineStep
  BY <1>4 DEF PipelineStep, ReconStart, ReadOpenOrders, ReadPositions, ReconFinish, ReconFails, Crash,
              ColdStart, ReplayOne, ReplayDone, counters
<1>. QED
  BY <1>1, <1>2, <1>3, <1>4 DEF Next

LEMMA NextRecorded ==
  FirstLife /\ IInv /\ InOpenStates /\ SameTrades /\ OwnQueues /\ AllRecorded
    /\ Next /\ crashes' = crashes => AllRecorded'
<1> SUFFICES ASSUME FirstLife, IInv, InOpenStates, SameTrades, OwnQueues, AllRecorded,
                    Next, crashes' = crashes,
                    NEW id \in Ids, id \notin missed'
             PROVE  Recorded(id)'
  BY DEF AllRecorded
<1>1. TypeOk /\ Forward /\ Recorded(id)
  BY NextForward, MissedGrows DEF FirstLife, AllRecorded
<1>2. CASE BeginSubmit /\ id = Head(pending).id
  BY <1>2, SubmitRecorded
<1>3. CASE orders[id] = None /\ ~(BeginSubmit /\ id = Head(pending).id)
  <2>1. orders'[id] = None
    <3>1. CASE BeginSubmit
      BY <1>1, <1>3, <3>1 DEF BeginSubmit, TypeOk, BookTypes
    <3>. QED BY <1>1, <1>3, <3>1, QuietBook, EventKeepsTracked DEF SameTracked
  <2>. QED BY <2>1 DEF Recorded, Tracked
<1>4. CASE orders[id] # None /\ EngineStep
  <2>1. CASE orders[id].state \in {"CANCELLED", "REJECTED"}
    <3>1. orders'[id] = orders[id]
      BY <1>1, <1>4, <2>1 DEF Forward, IsTerminal, TerminalStates
    <3>. QED BY <2>1, <3>1 DEF Recorded
  <2>2. CASE orders[id].state \notin {"CANCELLED", "REJECTED"}
    <3>1. VenueFilled(id)' = VenueFilled(id)
      BY <1>4 DEF EngineStep, HandleEvent, DrainOne, RunStrategy, Veto, BeginSubmit, SubmitReturns,
                  SubmitFails, AfterSubmit, HandleDone, venueVars, VenueFilled
    <3>. QED BY <1>1, <1>4, <2>2, <3>1, BookDue, RecordedKept
  <2>. QED BY <2>1, <2>2
<1>5. CASE orders[id] # None /\ VenueStep
  BY <1>1, <1>5, VenueRecorded
<1>6. CASE orders[id] # None /\ StreamStep
  <2>1. VenueFilled(id)' = VenueFilled(id)
    BY <1>6 DEF StreamStep, DeliverUpdate, DeliverExecution, DeliverPosition, venueVars, VenueFilled
  <2>. QED BY <1>1, <1>6, <2>1, DeliveryDue, RecordedKept
<1>7. CASE orders[id] # None /\ PipelineStep
  <2>1. ~Crash /\ ~ReplayOne
    BY NoRestart
  <2>2. UNCHANGED <<orders, venueOrders, outbox, execs>>
    BY <1>7, <2>1 DEF PipelineStep, ReconStart, ReadOpenOrders, ReadPositions, ReconFinish, ReconFails,
                      ColdStart, ReplayDone, bookVars, venueVars, logVars
  <2>. QED BY <1>1, <1>7, <2>2, RecordedKept DEF VenueFilled, Due, Filled, Tracked
<1>. QED
  BY <1>2, <1>3, <1>4, <1>5, <1>6, <1>7 DEF Next
-----------------------------------------------------------------------------
(***************************************************************************)
(* LifeInv, in the form the lemmas speak of.                               *)
(***************************************************************************)
LifeParts == FreshIds /\ NothingToReplay /\ SameTrades /\ OwnQueues /\ InOpenStates /\ Adds /\ AllRecorded

LEMMA LifeIsParts == TypeOk => (LifeInv <=> (NoCrash => LifeParts))
  BY MessagesAreQueues, BalancedAdds, LossIsUnrecorded DEF LifeInv, LifeParts, NoCrash, InOpenStates

LEMMA LifeIsPartsNext == TypeOk' => (LifeInv' <=> (NoCrash' => LifeParts'))
  BY LifeIsParts, PTL

LEMMA InitLife == Init => LifeInv
<1> SUFFICES ASSUME Init PROVE LifeParts
  BY InitTypes, LifeIsParts
<1> USE DEF Init
<1>1. FreshIds /\ NothingToReplay /\ SameTrades /\ InOpenStates
  BY DEF FreshIds, NothingToReplay, SameTrades, InOpenStates, Tracked
<1>2. OwnQueues
  BY EmptyQueues DEF OwnQueues
<1>3. AllRecorded
  BY DEF AllRecorded, Recorded, Tracked
<1>4. Adds
  <2>1. SF = [id \in Ids |-> 0]
    BY DEF SF, SignedFill, Tracked
  <2>2. ASSUME NEW s \in Symbols PROVE SumOf(SF, IdsOf(s)) = 0
    <3>1. IsFiniteSet(IdsOf(s)) /\ IdsOf(s) \subseteq Ids
      BY IdsOfFinite
    <3>2. \A x \in IdsOf(s) : SF[x] = 0
      BY <2>1, <3>1
    <3>3. \A x \in IdsOf(s) : SF[x] \in Int
      BY <3>2
    <3>4. {} \subseteq IdsOf(s) /\ \A x \in IdsOf(s) \ {} : SF[x] = 0
      BY <3>2
    <3>. QED BY <3>1, <3>3, <3>4, SumIgnores, SumEmpty
  <2>3. \A s \in Symbols : positions[s] = 0 /\ corrected[s] = 0
    BY DEF Flat
  <2>. QED BY <2>2, <2>3 DEF Adds
<1>. QED
  BY <1>1, <1>2, <1>3, <1>4 DEF LifeParts

LEMMA CrashesCount == TypeOk /\ Next => crashes' = crashes \/ crashes' # 0
<1> SUFFICES ASSUME TypeOk, Next PROVE crashes' = crashes \/ crashes' # 0
  OBVIOUS
<1>1. CASE Crash
  BY <1>1 DEF Crash, TypeOk, CounterTypes
<1>2. CASE EngineStep
  BY <1>2 DEF EngineStep, HandleEvent, RunStrategy, Veto, HandleDone, SubmitReturns, SubmitFails, DrainOne,
              BeginSubmit, AfterSubmit, counters
<1>3. CASE VenueStep
  BY <1>3 DEF VenueStep, VenueAccepts, VenueRefuses, RequestLost, VenueFills, VenueCloses,
              VenueMoves, Connect, Disconnect, counters
<1>4. CASE StreamStep
  BY <1>4 DEF StreamStep, DeliverUpdate, DeliverExecution, DeliverPosition, counters
<1>5. CASE PipelineStep /\ ~Crash
  BY <1>5 DEF PipelineStep, ReconStart, ReadOpenOrders, ReadPositions, ReconFinish, ReconFails,
              ColdStart, ReplayOne, ReplayDone, counters
<1>. QED
  BY <1>1, <1>2, <1>3, <1>4, <1>5 DEF Next

LEMMA LifeStutters == LifeParts /\ UNCHANGED vars => LifeParts'
<1> SUFFICES ASSUME LifeParts, UNCHANGED vars PROVE LifeParts'
  OBVIOUS
<1>1. /\ UNCHANGED <<orders, positions, corrected, pending, intentSeq, proc, journal, wire, venueOrders>>
      /\ UNCHANGED <<updates, execs, outbox, missed>>
  BY DEF vars, venueVars, bookVars, loopVars, pipeVars, logVars, counters
<1>2. FreshIds' /\ NothingToReplay' /\ SameTrades' /\ InOpenStates'
  BY <1>1 DEF LifeParts, FreshIds, NothingToReplay, SameTrades, InOpenStates, Tracked
<1>3. OwnQueues'
  <2>1. OwnUpdates' = OwnUpdates /\ OwnFills' = OwnFills /\ OwnEvents' = OwnEvents
    BY <1>1 DEF OwnUpdates, OwnFills, OwnEvents
  <2>. QED BY <1>1, <2>1 DEF LifeParts, OwnQueues
<1>4. Adds'
  <2>1. SF' = SF
    BY <1>1 DEF SF, SignedFill, Tracked
  <2>. QED BY <1>1, <2>1 DEF LifeParts, Adds, IdsOf
<1>5. AllRecorded'
  BY <1>1 DEF LifeParts, AllRecorded, Recorded, Tracked, VenueFilled, Filled, Due
<1>. QED
  BY <1>2, <1>3, <1>4, <1>5 DEF LifeParts

LEMMA NextLife == IInv /\ IInv' /\ LifeInv /\ [Next]_vars => LifeInv'
<1> SUFFICES ASSUME IInv, IInv', LifeInv, [Next]_vars, NoCrash' PROVE LifeParts'
  BY LifeIsPartsNext DEF IInv
<1>1. TypeOk /\ TypeOk' /\ BookWellFormed
  BY DEF IInv
<1>2. CASE UNCHANGED vars
  <2>1. NoCrash
    BY <1>2 DEF NoCrash, vars, counters
  <2>. QED BY <1>1, <1>2, <2>1, LifeIsParts, LifeStutters
<1>3. CASE Next
  <2>1. NoCrash /\ crashes' = crashes
    BY <1>1, <1>3, CrashesCount DEF NoCrash
  <2>2. LifeParts /\ FirstLife
    BY <1>1, <2>1, LifeIsParts DEF LifeParts, FirstLife, NoCrash
  <2>3. FreshIds' /\ NothingToReplay' /\ SameTrades'
    BY <1>3, <2>1, <2>2, NextFresh, NextNothingToReplay, NextTrades DEF LifeParts
  <2>4. OwnQueues' /\ InOpenStates'
    BY <1>1, <1>3, <2>1, <2>2, NextQueues, NextStates, MessagesAreQueues DEF LifeParts
  <2>5. Adds' /\ AllRecorded'
    BY <1>1, <1>3, <2>1, <2>2, NextAdds, NextRecorded DEF LifeParts
  <2>. QED BY <2>3, <2>4, <2>5 DEF LifeParts
<1>. QED
  BY <1>2, <1>3

LEMMA LifeInvariant == Spec => []LifeInv
<1>1. Init => LifeInv
  BY InitLife
<1>2. IInv /\ IInv' /\ LifeInv /\ [Next]_vars => LifeInv'
  BY NextLife
<1>. QED
  BY <1>1, <1>2, PipelineInvariant, PTL DEF Spec

(* Engine.positions and the fills of Engine.orders, which drainBroker      *)
(* updates in separate statements, differ by exactly what reconciliation   *)
(* corrected: for any symbols, quantities and losses of the socket or the  *)
(* network, up to the first crash.                                         *)
THEOREM PositionsFollowFills == Spec => [](crashes = 0 => PositionMatchesBook)
<1>1. LifeInv => (crashes = 0 => PositionMatchesBook)
  BY DEF LifeInv, PositionMatchesBook
<1>. QED
  BY <1>1, LifeInvariant, PTL

(* Up to the first crash every execution the exchange made on an order     *)
(* that is open or filled in the book is in the book, in the outbox or     *)
(* still in the stream, unless the socket lost it.                         *)
THEOREM NothingIsLost == Spec => [](crashes = 0 => NothingLost)
<1>1. LifeInv => (crashes = 0 => NothingLost)
  BY DEF LifeInv, NothingLost, PositionMatchesBook
<1>. QED
  BY <1>1, LifeInvariant, PTL

(* A process that does not restart never overwrites a record, loses a fill *)
(* of it or walks its state back: ids of intents are never used twice, and *)
(* no late answer revives a closed order.                                  *)
THEOREM BookForgetsNothing ==
  ASSUME MaxCrashes = 0
  PROVE  Spec => BookNeverForgets
<1> DEFINE Step == crashes' = crashes => Forward
<1>1. NoCrash /\ TypeOk /\ [Next]_vars => NoCrash'
  <2>1. ASSUME NoCrash, TypeOk, Next PROVE NoCrash'
    <3>1. ~Crash
      BY <2>1 DEF Crash, NoCrash
    <3>2. CASE EngineStep
      BY <2>1, <3>2 DEF EngineStep, HandleEvent, RunStrategy, Veto, HandleDone, SubmitReturns, SubmitFails,
                        DrainOne, BeginSubmit, AfterSubmit, counters, NoCrash
    <3>3. CASE VenueStep
      BY <2>1, <3>3 DEF VenueStep, VenueAccepts, VenueRefuses, RequestLost, VenueFills, VenueCloses,
                        VenueMoves, Connect, Disconnect, counters, NoCrash
    <3>4. CASE StreamStep
      BY <2>1, <3>4 DEF StreamStep, DeliverUpdate, DeliverExecution, DeliverPosition, counters, NoCrash
    <3>5. CASE PipelineStep
      BY <2>1, <3>1, <3>5 DEF PipelineStep, ReconStart, ReadOpenOrders, ReadPositions, ReconFinish,
                              ReconFails, ColdStart, ReplayOne, ReplayDone, counters, NoCrash
    <3>. QED BY <2>1, <3>2, <3>3, <3>4, <3>5 DEF Next
  <2>2. NoCrash /\ UNCHANGED vars => NoCrash'
    BY DEF NoCrash, vars, counters
  <2>. QED BY <2>1, <2>2
<1>2. Init => NoCrash
  BY DEF Init, NoCrash
<1>3. IInv => TypeOk
  BY DEF IInv
<1>4. Spec => []NoCrash
  BY <1>1, <1>2, <1>3, PipelineInvariant, PTL DEF Spec
<1>5. NoCrash /\ IInv /\ LifeInv /\ [Next]_vars => [Step]_vars
  <2>1. ASSUME NoCrash, IInv, LifeInv, Next, crashes' = crashes PROVE Forward
    <3>1. FirstLife
      BY <2>1 DEF IInv, LifeInv, FirstLife, NoCrash
    <3>. QED BY <2>1, <3>1, NextForward
  <2>. QED BY <2>1
<1>6. Spec => [][Step]_vars
  BY <1>4, <1>5, PipelineInvariant, LifeInvariant, PTL DEF Spec
<1>7. [Step]_vars <=> [crashes' = crashes =>
        \A id \in Ids : Tracked(id) =>
          /\ orders'[id] # None
          /\ orders'[id].side = orders[id].side /\ orders'[id].qty = orders[id].qty
          /\ orders'[id].filledQty >= orders[id].filledQty
          /\ Rank[orders'[id].state] >= Rank[orders[id].state]
          /\ IsTerminal(orders[id].state) => orders'[id] = orders[id]]_vars
  BY DEF Forward, Tracked
<1>. QED
  BY <1>6, <1>7, PTL DEF BookNeverForgets

-----------------------------------------------------------------------------
(***************************************************************************)
(* What a reconciliation pass has read still holds where nothing overtook  *)
(* it.                                                                     *)
(***************************************************************************)
NoFill(s) == \A e \in UndeliveredEvents : IsFill(e) => e.id[1] # s

LEMMA QueueMembers ==
  ASSUME NEW S, NEW q \in Seq(S)
  PROVE  /\ q # <<>> => Head(q) \in ToSet(q) /\ ToSet(Tail(q)) \subseteq ToSet(q)
         /\ \A e \in S : ToSet(Append(q, e)) = ToSet(q) \cup {e}
<1>1. ASSUME q # <<>> PROVE Head(q) \in ToSet(q) /\ ToSet(Tail(q)) \subseteq ToSet(q)
  <2>1. /\ Head(q) = q[1] /\ Len(q) >= 1 /\ Len(Tail(q)) = Len(q) - 1 /\ Tail(q) \in Seq(S)
        /\ \A i \in 1 .. Len(q) - 1 : Tail(q)[i] = q[i + 1]
    BY <1>1, QueueParts
  <2>2. DOMAIN q = 1 .. Len(q) /\ DOMAIN Tail(q) = 1 .. Len(q) - 1 /\ Len(q) \in Nat
    BY <2>1
  <2>. QED BY <2>1, <2>2 DEF ToSet
<1>2. ASSUME NEW e \in S PROVE ToSet(Append(q, e)) = ToSet(q) \cup {e}
  BY AppendParts DEF ToSet
<1>. QED
  BY <1>1, <1>2

(* Only a fill of the exchange brings a fill under way. *)
LEMMA NoFillKept ==
  ASSUME TypeOk, Next, NEW s \in Symbols, NoFill(s), \A i \in Ids : VenueFills(i) => i[1] # s
  PROVE  NoFill(s)'
<1>1. outbox \in Seq(EventEntries) /\ execs \in Seq(EventEntries)
  BY DEF TypeOk, VenueTypes, LogTypes
<1>2. ASSUME UndeliveredEvents' \subseteq UndeliveredEvents PROVE NoFill(s)'
  BY <1>2 DEF NoFill
<1>3. ASSUME UNCHANGED <<outbox, execs>> PROVE NoFill(s)'
  BY <1>2, <1>3 DEF UndeliveredEvents
<1>4. ASSUME NEW e, UndeliveredEvents' \subseteq UndeliveredEvents \cup {e}, IsFill(e) => e.id[1] # s
      PROVE  NoFill(s)'
  BY <1>4 DEF NoFill
<1>5. CASE DrainOne
  <2>1. outbox # <<>> /\ outbox' = Tail(outbox) /\ execs' = execs
    BY <1>5 DEF DrainOne, venueVars
  <2>. QED BY <1>1, <1>2, <2>1, QueueMembers DEF UndeliveredEvents
<1>6. ASSUME NEW i \in Ids, VenueFills(i) PROVE NoFill(s)'
  <2>1. PICK q \in 1 .. venueOrders[i].qty - venueOrders[i].filled :
          execs' = Publish(execs, EventEntry(i, FillOf(q, venueOrders[i].filled + q)))
    BY <1>6 DEF VenueFills
  <2>2. venueOrders[i] # None /\ outbox' = outbox
    BY <1>6 DEF VenueFills, logVars
  <2>3. q \in Nat /\ venueOrders[i].filled + q \in Nat
    BY <2>1, <2>2, VenueOrderFields
  <2>4. PICK f \in Events : f = FillOf(q, venueOrders[i].filled + q)
    BY <2>3, FillOfType
  <2>5. PICK e \in EventEntries : e = EventEntry(i, f) /\ e.id = i
    BY EventEntryType, EntryFieldsOf
  <2>6. execs' = Append(execs, e) \/ execs' = execs
    BY <2>1, <2>4, <2>5 DEF Publish
  <2>7. UndeliveredEvents' \subseteq UndeliveredEvents \cup {e}
    <3>1. ToSet(Append(execs, e)) = ToSet(execs) \cup {e}
      BY <1>1, QueueMembers
    <3>. QED BY <2>2, <2>6, <3>1 DEF UndeliveredEvents
  <2>. QED BY <1>4, <1>6, <2>5, <2>7
<1>7. CASE DeliverUpdate
  <2> DEFINE u == Head(updates)
  <2>1. u \in [id : Ids, status : Statuses] /\ execs' = execs
    BY <1>7, QueueParts DEF DeliverUpdate, TypeOk, VenueTypes
  <2>2. CASE UpdateEvent(u.status) = "none"
    BY <1>3, <1>7, <2>1, <2>2 DEF DeliverUpdate, logVars
  <2>3. CASE UpdateEvent(u.status) # "none"
    <3>1. u.id \in Ids /\ UpdateEvent(u.status) \in {"ack", "cancel", "reject"}
      BY <2>1, <2>3 DEF UpdateEvent, Statuses
    <3>2. outbox' = Append(outbox, EventEntry(u.id, Plain(UpdateEvent(u.status))))
      BY <1>7, <2>3 DEF DeliverUpdate, HandleAccountEvent
    <3>3. PICK f \in Events : f = Plain(UpdateEvent(u.status)) /\ f.type # "fill"
      BY <3>1, PlainEvent DEF EventTypes, Plain
    <3>4. PICK e \in EventEntries : e = EventEntry(u.id, f) /\ e.event = f
      BY <3>1, EventEntryType, EntryFieldsOf
    <3>5. UndeliveredEvents' \subseteq UndeliveredEvents \cup {e} /\ ~IsFill(e)
      BY <1>1, <2>1, <3>2, <3>3, <3>4, QueueMembers DEF UndeliveredEvents, IsFill
    <3>. QED BY <1>4, <3>5
  <2>. QED BY <2>2, <2>3
<1>8. CASE DeliverExecution
  <2> DEFINE h == Head(execs)
  <2>1. execs # <<>> /\ execs' = Tail(execs) /\ outbox' = Append(outbox, EventEntry(h.id, h.event))
    BY <1>8 DEF DeliverExecution, HandleAccountEvent
  <2>2. h \in EventEntries /\ h \in ToSet(execs)
    BY <1>1, <2>1, QueueParts, QueueMembers
  <2>3. EventEntry(h.id, h.event) = h
    BY <2>2 DEF EventEntry, EventEntries
  <2>4. ToSet(outbox') = ToSet(outbox) \cup {h} /\ ToSet(execs') \subseteq ToSet(execs)
    BY <1>1, <2>1, <2>2, <2>3, QueueMembers
  <2>. QED BY <1>2, <2>2, <2>4 DEF UndeliveredEvents
<1>9. CASE Disconnect \/ Crash
  <2>1. ToSet(<<>>) = {}
    BY DEF ToSet
  <2>2. execs' = <<>> /\ (outbox' = outbox \/ outbox' = <<>>)
    BY <1>9 DEF Disconnect, Crash, logVars
  <2>. QED BY <1>2, <2>1, <2>2 DEF UndeliveredEvents
<1>10. CASE EngineStep
  BY <1>3, <1>5, <1>10 DEF EngineStep, HandleEvent, RunStrategy, Veto, HandleDone, SubmitReturns,
                           SubmitFails, BeginSubmit, AfterSubmit, venueVars, logVars
<1>11. CASE VenueStep
  BY <1>3, <1>6, <1>9, <1>11 DEF VenueStep, VenueAccepts, VenueRefuses, RequestLost, VenueCloses,
                                 VenueMoves, Connect, logVars
<1>12. CASE StreamStep
  BY <1>3, <1>7, <1>8, <1>12 DEF StreamStep, DeliverPosition, venueVars, logVars
<1>13. CASE PipelineStep
  BY <1>3, <1>9, <1>13 DEF PipelineStep, ReconStart, ReadOpenOrders, ReadPositions, ReconFinish, ReconFails,
                           ColdStart, ReplayOne, ReplayDone, venueVars, logVars
<1>. QED
  BY <1>10, <1>11, <1>12, <1>13 DEF Next

LEMMA SnapshotIs ==
  SnapshotHolds <=> (recon.gotPositions =>
    \A s \in Symbols \ recon.overtaken : recon.positions[s] = venuePos[s] /\ NoFill(s))
  BY DEF SnapshotHolds, NoFill

LEMMA SnapshotIsNext ==
  SnapshotHolds' <=> (recon'.gotPositions =>
    \A s \in Symbols \ recon'.overtaken : recon'.positions[s] = venuePos'[s] /\ NoFill(s)')
  BY DEF SnapshotHolds, NoFill

LEMMA NextSnapshot == TypeOk /\ SnapshotHolds /\ Next => SnapshotHolds'
<1> SUFFICES ASSUME TypeOk, SnapshotHolds, Next PROVE SnapshotHolds'
  OBVIOUS
<1>1. recon \in Pulls
  BY DEF TypeOk, PipeTypes
<1>2. ASSUME recon'.gotPositions = FALSE PROVE SnapshotHolds'
  BY <1>2, SnapshotIsNext
<1>3. ASSUME recon'.gotPositions = recon.gotPositions, recon'.positions = recon.positions,
             recon.overtaken \subseteq recon'.overtaken,
             \A s \in Symbols \ recon'.overtaken :
               venuePos'[s] = venuePos[s] /\ \A i \in Ids : VenueFills(i) => i[1] # s
      PROVE  SnapshotHolds'
  BY <1>3, NoFillKept, SnapshotIs, SnapshotIsNext
<1>4. ASSUME UNCHANGED <<recon, venuePos>>, \A i \in Ids : ~VenueFills(i) PROVE SnapshotHolds'
  BY <1>3, <1>4
<1>5. ASSUME NEW m \in Symbols, Overtakes(m), \A s \in Symbols : s # m => venuePos'[s] = venuePos[s],
             \A i \in Ids : VenueFills(i) => i[1] = m
      PROVE  SnapshotHolds'
  <2>1. CASE recon.gotPositions
    <3>1. /\ recon'.gotPositions = recon.gotPositions /\ recon'.positions = recon.positions
          /\ recon'.overtaken = recon.overtaken \cup {m}
      BY <1>1, <1>5, <2>1 DEF Overtakes, Pulls
    <3>. QED BY <1>3, <1>5, <3>1
  <2>2. CASE ~recon.gotPositions
    BY <1>1, <1>2, <1>5, <2>2 DEF Overtakes, Pulls
  <2>. QED BY <2>1, <2>2
<1>6. ASSUME NEW i \in Ids, VenueFills(i) PROVE SnapshotHolds'
  <2>1. PICK q \in Nat : venuePos' = [venuePos EXCEPT ![i[1]] = @ + Signed(venueOrders[i].side, q)]
    BY <1>6, FillDue
  <2>2. \A s \in Symbols : s # i[1] => venuePos'[s] = venuePos[s]
    BY <2>1 DEF TypeOk, VenueTypes
  <2>3. ASSUME NEW j \in Ids, VenueFills(j), j[1] # i[1] PROVE FALSE
    <3>1. VenueFilled(i)' = VenueFilled(i) /\ VenueFilled(i) \in Nat
      BY <2>3, FillDue, FilledType
    <3>2. PICK p \in Nat \ {0} : VenueFilled(i)' = VenueFilled(i) + p
      BY <1>6, FillDue
    <3>. QED BY <3>1, <3>2
  <2>4. Overtakes(i[1]) /\ i[1] \in Symbols
    BY <1>6, IdParts DEF VenueFills
  <2>. QED BY <1>5, <2>2, <2>3, <2>4
<1>7. ASSUME \A i \in Ids : ~VenueFills(i), NEW m \in Symbols, VenueMoves(m) PROVE SnapshotHolds'
  <2>1. Overtakes(m) /\ \E d \in {-1, 1} : venuePos' = [venuePos EXCEPT ![m] = @ + d]
    BY <1>7 DEF VenueMoves
  <2>2. \A s \in Symbols : s # m => venuePos'[s] = venuePos[s]
    BY <2>1 DEF TypeOk, VenueTypes
  <2>. QED BY <1>5, <1>7, <2>1, <2>2
<1>8. ASSUME \A i \in Ids : ~VenueFills(i) PROVE SnapshotHolds'
  <2>1. CASE ReadPositions
    <3>1. /\ recon'.positions = venuePos /\ UNCHANGED <<venuePos, outbox, execs>>
          /\ recon'.overtaken = {e.id[1] : e \in {d \in UndeliveredEvents : IsFill(d)}}
      BY <1>1, <2>1 DEF ReadPositions, Pulls, venueVars, logVars
    <3>2. UndeliveredEvents' = UndeliveredEvents
      BY <3>1 DEF UndeliveredEvents
    <3>3. \A s \in Symbols \ recon'.overtaken : NoFill(s)'
      BY <3>1, <3>2 DEF NoFill, IsFill
    <3>. QED BY <3>1, <3>3, SnapshotIsNext
  <2>2. CASE ReadOpenOrders
    <3>1. /\ recon'.gotPositions = recon.gotPositions /\ recon'.positions = recon.positions
          /\ recon'.overtaken = recon.overtaken /\ UNCHANGED venuePos
      BY <1>1, <2>2 DEF ReadOpenOrders, Pulls, venueVars
    <3>. QED BY <1>3, <1>8, <3>1
  <2>3. CASE ReconStart \/ ReplayDone \/ ReconFinish \/ ReconFails \/ Crash
    <3>1. recon'.gotPositions = FALSE
      BY <2>3 DEF ReconStart, ReplayDone, StartPull, ReconFinish, ReconFails, Crash, IdleRecon
    <3>. QED BY <1>2, <3>1
  <2>4. CASE EngineStep
    BY <1>4, <1>8, <2>4 DEF EngineStep, HandleEvent, RunStrategy, Veto, HandleDone, SubmitReturns,
                            SubmitFails, DrainOne, BeginSubmit, AfterSubmit, venueVars, pipeVars
  <2>5. CASE VenueStep
    BY <1>4, <1>7, <1>8, <2>5 DEF VenueStep, VenueAccepts, VenueRefuses, RequestLost, VenueCloses,
                                  Connect, Disconnect, pipeVars
  <2>6. CASE StreamStep
    BY <1>4, <1>8, <2>6 DEF StreamStep, DeliverUpdate, DeliverExecution, DeliverPosition, venueVars, pipeVars
  <2>7. CASE ColdStart \/ ReplayOne
    BY <1>4, <1>8, <2>7 DEF ColdStart, ReplayOne, venueVars
  <2>. QED BY <2>1, <2>2, <2>3, <2>4, <2>5, <2>6, <2>7 DEF Next, PipelineStep
<1>. QED
  BY <1>6, <1>8

LEMMA SnapshotInvariant == Spec => []SnapshotHolds
<1>1. Init => SnapshotHolds
  BY DEF Init, IdleRecon, SnapshotHolds
<1>2. SnapshotHolds /\ UNCHANGED vars => SnapshotHolds'
  BY DEF SnapshotHolds, UndeliveredEvents, vars, venueVars, pipeVars, logVars
<1>3. TypeOk /\ SnapshotHolds /\ [Next]_vars => SnapshotHolds'
  BY <1>2, NextSnapshot
<1>. QED
  BY <1>1, <1>3, PipelineTypesAlways, PTL DEF Spec
-----------------------------------------------------------------------------
(***************************************************************************)
(* The engine's position and the venue's come apart for a cause.           *)
(***************************************************************************)
FF == [id \in Ids |-> Arriving(id)]
TF == [id \in Ids |-> IF Tracked(id) THEN Signed(orders[id].side, Due(id)) ELSE 0]

(* As PositionSum. *)
LEMMA FlightSum ==
  ASSUME NEW S, IsFiniteSet(S), S \subseteq Ids
  PROVE  MapThenSumSet(Arriving, S) = SumOf(FF, S)
<1> DEFINE Folds(h) ==
      h = [s \in SUBSET S |-> IF s = {} THEN 0
                              ELSE Arriving(CHOOSE x \in s : TRUE) + h[s \ {CHOOSE x \in s : TRUE}]]
<1>1. PICK k : k = CHOOSE h : Folds(h)
  OBVIOUS
<1>2. MapThenSumSet(Arriving, S) = k[S]
  BY <1>1 DEF MapThenSumSet, MapThenFoldSet
<1>3. ASSUME NEW h PROVE Folds(h) <=> IsSum(h, FF, S)
  <2>1. ASSUME NEW s \in SUBSET S, s # {}
        PROVE  Arriving(CHOOSE x \in s : TRUE) + h[s \ {CHOOSE x \in s : TRUE}]
                 = FF[AnyOf(s)] + h[s \ {AnyOf(s)}]
    <3>1. AnyOf(s) \in Ids
      BY <2>1, AnyOfMember
    <3>2. FF[AnyOf(s)] = Arriving(AnyOf(s))
      BY <3>1 DEF FF
    <3>. QED BY <3>2 DEF AnyOf
  <2>2. [s \in SUBSET S |-> IF s = {} THEN 0
                            ELSE Arriving(CHOOSE x \in s : TRUE) + h[s \ {CHOOSE x \in s : TRUE}]]
        = [s \in SUBSET S |-> IF s = {} THEN 0 ELSE FF[AnyOf(s)] + h[s \ {AnyOf(s)}]]
    BY <2>1
  <2>. QED BY <2>2 DEF IsSum
<1> HIDE DEF Folds
<1>4. \E h : IsSum(h, FF, S)
  BY SumExists
<1>5. IsSum(k, FF, S)
  BY <1>1, <1>3, <1>4
<1>6. PICK j : IsSum(j, FF, S) /\ SumOf(FF, S) = j[S]
  BY <1>4, SumChosen
<1>7. k[S] = j[S]
  BY <1>5, <1>6, SumUnique
<1>. QED
  BY <1>2, <1>6, <1>7

LEMMA DueParts ==
  ASSUME TypeOk, NEW id \in Ids
  PROVE  SF[id] \in Int /\ FF[id] \in Int /\ TF[id] \in Int /\ TF[id] = SF[id] + FF[id]
<1>1. /\ FillsIn(outbox, id) \in Nat /\ FillsIn(execs, id) \in Nat /\ Filled(id) \in Nat
  BY FilledType, FillsInQueues
<1>2. CASE orders[id] = None
  BY <1>2 DEF SF, FF, TF, SignedFill, Arriving, Tracked
<1>3. CASE orders[id] # None
  <2>1. PICK a \in Int, b \in Int : a = Filled(id) /\ b = FillsIn(outbox, id) + FillsIn(execs, id) /\ Due(id) = a + b
    BY <1>1 DEF Due
  <2>2. /\ SF[id] = Signed(orders[id].side, a) /\ FF[id] = Signed(orders[id].side, b)
        /\ TF[id] = Signed(orders[id].side, a + b)
    BY <1>3, <2>1 DEF SF, FF, TF, SignedFill, Arriving, Filled, Tracked
  <2>3. Signed(orders[id].side, a) \in Int /\ Signed(orders[id].side, b) \in Int
    BY SignedInt
  <2>. QED BY <2>2, <2>3, SignedSum
<1>. QED
  BY <1>2, <1>3

LEMMA DueIsInt == TypeOk => \A x \in Ids : TF[x] \in Int
  BY DueParts

LEMMA DueIsIntNext == TypeOk' => \A x \in Ids : TF'[x] \in Int
<1>1. (TypeOk => \A x \in Ids : TF[x] \in Int)'
  BY DueIsInt, PTL
<1>. QED
  BY <1>1

(* Agrees, by what the orders of the symbol come to. *)
LEMMA AgreesDue ==
  TypeOk /\ Adds => \A s \in Symbols :
    /\ SumOf(TF, IdsOf(s)) \in Int
    /\ Agrees(s) <=> corrected[s] + SumOf(TF, IdsOf(s)) = venuePos[s]
<1> SUFFICES ASSUME TypeOk, Adds, NEW s \in Symbols
             PROVE  /\ SumOf(TF, IdsOf(s)) \in Int
                    /\ Agrees(s) <=> corrected[s] + SumOf(TF, IdsOf(s)) = venuePos[s]
  OBVIOUS
<1>1. IsFiniteSet(IdsOf(s)) /\ IdsOf(s) \subseteq Ids
  BY IdsOfFinite
<1>2. InFlight(s) = SumOf(FF, IdsOf(s))
  BY <1>1, FlightSum DEF InFlight
<1>3. \A x \in IdsOf(s) : SF[x] \in Int /\ FF[x] \in Int /\ TF[x] \in Int /\ TF[x] = SF[x] + FF[x]
  BY <1>1, DueParts
<1>4. SumOf(SF, IdsOf(s)) \in Int /\ SumOf(FF, IdsOf(s)) \in Int
  BY <1>1, <1>3, SumTakes
<1>5. SumOf(TF, IdsOf(s)) = SumOf(SF, IdsOf(s)) + SumOf(FF, IdsOf(s))
  BY <1>1, <1>3, SumAdds
<1>6. positions[s] = corrected[s] + SumOf(SF, IdsOf(s)) /\ positions[s] \in Int /\ corrected[s] \in Int
  BY DEF Adds, TypeOk, BookTypes
<1>. QED
  BY <1>2, <1>4, <1>5, <1>6 DEF Agrees

LEMMA AgreesDueNext ==
  TypeOk' /\ Adds' => \A s \in Symbols :
    /\ SumOf(TF', IdsOf(s)) \in Int
    /\ Agrees(s)' <=> corrected'[s] + SumOf(TF', IdsOf(s)) = venuePos'[s]
<1>1. (TypeOk /\ Adds => \A s \in Symbols :
         /\ SumOf(TF, IdsOf(s)) \in Int
         /\ Agrees(s) <=> corrected[s] + SumOf(TF, IdsOf(s)) = venuePos[s])'
  BY AgreesDue, PTL
<1>. QED
  BY <1>1 DEF IdsOf, SumOf

(* With no fill of the symbol under way there is nothing to wait for. *)
LEMMA NothingInFlight ==
  TypeOk /\ OwnQueues => \A s \in Symbols : NoFill(s) => InFlight(s) = 0
<1> SUFFICES ASSUME TypeOk, OwnQueues, NEW s \in Symbols, NoFill(s) PROVE InFlight(s) = 0
  OBVIOUS
<1>1. IsFiniteSet(IdsOf(s)) /\ IdsOf(s) \subseteq Ids
  BY IdsOfFinite
<1>2. outbox \in Seq(EventEntries) /\ execs \in Seq(EventEntries)
  BY DEF TypeOk, VenueTypes, LogTypes
<1>3. ASSUME NEW x \in IdsOf(s) PROVE FF[x] = 0
  <2>1. x \in Ids /\ x[1] = s
    BY <1>3 DEF IdsOf
  <2>2. ASSUME NEW i \in 1 .. Len(outbox) PROVE Weight(outbox[i], x) = 0
    <3>1. outbox[i] \in OwnEvents /\ outbox[i] \in UndeliveredEvents
      BY WithinSeq, <1>2 DEF OwnQueues, UndeliveredEvents, ToSet
    <3>2. outbox[i].id = x => outbox[i].event.type # "fill"
      BY <2>1, <3>1 DEF NoFill, IsFill, OwnEvents, EventEntries
    <3>. QED BY <3>1, <3>2 DEF OwnEvents, Weight
  <2>3. ASSUME NEW i \in 1 .. Len(execs) PROVE Weight(execs[i], x) = 0
    <3>1. execs[i] \in OwnFills /\ execs[i] \in UndeliveredEvents
      BY WithinSeq, <1>2 DEF OwnQueues, UndeliveredEvents, ToSet
    <3>2. execs[i].id # x
      BY <2>1, <3>1 DEF NoFill, OwnFills
    <3>. QED BY <3>2 DEF Weight
  <2>4. FillsIn(outbox, x) = 0 /\ FillsIn(execs, x) = 0
    BY <1>2, <2>2, <2>3, FillsInNatural
  <2>5. \A side : Signed(side, 0) = 0
    BY SignedSum
  <2>6. Arriving(x) = 0
    BY <2>4, <2>5 DEF Arriving
  <2>. QED BY <2>1, <2>6 DEF FF
<1>4. SumOf(FF, IdsOf(s)) = SumOf(FF, {})
  BY <1>1, <1>3, SumIgnores
<1>. QED
  BY <1>1, <1>4, FlightSum, SumEmpty DEF InFlight

LEMMA NothingInFlightNext ==
  TypeOk' /\ OwnQueues' => \A s \in Symbols : NoFill(s)' => InFlight(s)' = 0
<1>1. (TypeOk /\ OwnQueues => \A s \in Symbols : NoFill(s) => InFlight(s) = 0)'
  BY NothingInFlight, PTL
<1>. QED
  BY <1>1

LifeStep == /\ FirstLife /\ IInv /\ LifeParts /\ SnapshotHolds
            /\ TypeOk' /\ LifeParts' /\ Next /\ crashes' = crashes

(* What an order comes to changes only when the exchange fills it, with    *)
(* the socket, or when its record refuses a fill.                          *)
LEMMA TFKept ==
  ASSUME LifeStep, NEW id \in Ids, ~VenueFills(id), ~Disconnect, ~FillRefused(id[1])
  PROVE  TF'[id] = TF[id]
<1>1. /\ FirstLife /\ IInv /\ TypeOk /\ Next /\ crashes' = crashes /\ Forward
      /\ InOpenStates /\ SameTrades /\ OwnQueues
  BY NextForward DEF LifeStep, LifeParts, FirstLife
<1>2. \A side : Signed(side, 0) = 0
  BY SignedSum
<1>3. ASSUME orders[id] # None, Due(id)' = Due(id) PROVE TF'[id] = TF[id]
  BY <1>1, <1>3 DEF Forward, TF, Tracked
<1>4. CASE BeginSubmit /\ id = Head(pending).id
  <2>1. /\ pending # <<>> /\ orders' = [orders EXCEPT ![id] = Submitted(Head(pending))]
        /\ UNCHANGED <<outbox, execs>>
    BY <1>4 DEF BeginSubmit, logVars
  <2>2. /\ orders[id] = None /\ Submitted(Head(pending)) # None /\ Submitted(Head(pending)).filledQty = 0
    BY <1>1, <1>4, <2>1, HeadOfPending, HeadIsNew
  <2>3. FillsIn(outbox, id) = 0 /\ FillsIn(execs, id) = 0
    BY <1>1, <2>2, UnknownIsEmpty
  <2>4. orders'[id] = Submitted(Head(pending))
    BY <1>1, <2>1 DEF TypeOk, BookTypes
  <2>5. Due(id)' = 0
    BY <2>1, <2>2, <2>3, <2>4 DEF Due, Filled, Tracked
  <2>. QED BY <1>2, <2>2, <2>5 DEF TF, Tracked
<1>5. CASE orders[id] = None /\ ~(BeginSubmit /\ id = Head(pending).id)
  <2>1. orders'[id] = None
    <3>1. CASE BeginSubmit
      BY <1>1, <1>5, <3>1 DEF BeginSubmit, TypeOk, BookTypes
    <3>. QED BY <1>1, <1>5, <3>1, QuietBook, EventKeepsTracked DEF SameTracked
  <2>. QED BY <1>5, <2>1 DEF TF, Tracked
<1>6. CASE orders[id] # None /\ EngineStep
  <2>1. ~(DrainOne /\ id = Head(outbox).id /\ Head(outbox).event.type = "fill"
            /\ orders[id].state \in {"CANCELLED", "REJECTED"})
    <3>1. DrainOne => Head(outbox).t = "event"
      BY <1>1, HeadOfOutbox DEF DrainOne, EventEntries
    <3>. QED BY <3>1 DEF FillRefused, IsFill
  <2>. QED BY <1>1, <1>3, <1>6, <2>1, BookDue
<1>7. CASE orders[id] # None /\ VenueStep
  BY <1>1, <1>3, <1>7, VenueDue
<1>8. CASE orders[id] # None /\ StreamStep
  BY <1>1, <1>3, <1>8, DeliveryDue
<1>9. CASE orders[id] # None /\ PipelineStep
  <2>1. ~Crash /\ ~ReplayOne
    BY <1>1, NoRestart
  <2>2. UNCHANGED <<orders, outbox, execs>>
    BY <1>9, <2>1 DEF PipelineStep, ReconStart, ReadOpenOrders, ReadPositions, ReconFinish, ReconFails,
                      ColdStart, ReplayDone, bookVars, venueVars, logVars
  <2>3. Due(id)' = Due(id)
    BY <2>2 DEF Due, Filled, Tracked
  <2>. QED BY <1>3, <1>9, <2>3
<1>. QED
  BY <1>1, <1>4, <1>5, <1>6, <1>7, <1>8, <1>9 DEF Next

(* A pass that nothing overtook brings the positions together. *)
LEMMA PassHeals ==
  ASSUME LifeStep, ReconFinish, NEW s \in Symbols, s \in Covered \ recon.overtaken
  PROVE  positions'[s] = venuePos[s] /\ Agrees(s)'
<1>1. /\ TypeOk /\ TypeOk' /\ Next /\ OwnQueues' /\ SnapshotHolds /\ recon.gotPositions
      /\ venuePos' = venuePos /\ ApplyCorrections
  BY DEF LifeStep, FirstLife, LifeParts, ReconFinish, venueVars
<1>2. recon.positions[s] = venuePos[s] /\ NoFill(s)
  BY <1>1, SnapshotIs
<1>3. positions'[s] = venuePos[s]
  BY <1>1, <1>2 DEF ApplyCorrections, Mismatched
<1>4. NoFill(s)'
  <2>1. UNCHANGED <<outbox, execs>>
    BY DEF ReconFinish, venueVars
  <2>. QED BY <1>2, <2>1 DEF NoFill, UndeliveredEvents
<1>5. InFlight(s)' = 0 /\ venuePos[s] \in Int
  BY <1>1, <1>4, NothingInFlightNext DEF TypeOk, VenueTypes
<1>6. positions'[s] + InFlight(s)' = venuePos'[s]
  BY <1>1, <1>3, <1>5
<1>. QED
  BY <1>3, <1>6 DEF Agrees

(* The account moves by a trade of someone else or by an order's fill, and *)
(* the correction by a pass.                                               *)
LEMMA AccountsKept ==
  ASSUME LifeStep, ~ReconFinish, NEW s \in Symbols, ~VenueMoves(s), \A i \in IdsOf(s) : ~VenueFills(i)
  PROVE  venuePos'[s] = venuePos[s] /\ corrected'[s] = corrected[s]
<1>1. FirstLife /\ TypeOk /\ Next /\ crashes' = crashes /\ venuePos \in [Symbols -> Int]
  BY DEF LifeStep, FirstLife, TypeOk, VenueTypes
<1>2. ~Crash
  BY <1>1, NoRestart
<1>3. ASSUME NEW i \in Ids, VenueFills(i) PROVE venuePos'[s] = venuePos[s] /\ corrected' = corrected
  <2>1. i[1] # s
    BY <1>3 DEF IdsOf
  <2>. QED BY <1>1, <1>3, <2>1, FillDue DEF VenueFills, bookVars
<1>4. ASSUME NEW m \in Symbols, VenueMoves(m) PROVE venuePos'[s] = venuePos[s] /\ corrected' = corrected
  <2>1. m # s
    BY <1>4
  <2>. QED BY <1>1, <1>4, <2>1 DEF VenueMoves, bookVars
<1>5. CASE EngineStep
  BY <1>5 DEF EngineStep, HandleEvent, RunStrategy, Veto, HandleDone, SubmitReturns, SubmitFails,
              DrainOne, BeginSubmit, AfterSubmit, venueVars, bookVars
<1>6. CASE VenueStep
  BY <1>3, <1>4, <1>6 DEF VenueStep, VenueAccepts, VenueRefuses, RequestLost, VenueCloses,
                          Connect, Disconnect, bookVars
<1>7. CASE StreamStep
  BY <1>7 DEF StreamStep, DeliverUpdate, DeliverExecution, DeliverPosition, venueVars, bookVars
<1>8. CASE PipelineStep
  BY <1>2, <1>8 DEF PipelineStep, ReconStart, ReadOpenOrders, ReadPositions, ReconFails,
                    ColdStart, ReplayOne, ReplayDone, venueVars, bookVars
<1>. QED
  BY <1>1, <1>5, <1>6, <1>7, <1>8 DEF Next

LEMMA PassFillsNothing ==
  ASSUME TypeOk, ReconFinish, NEW i \in Ids
  PROVE  ~VenueFills(i)
<1>1. ASSUME VenueFills(i) PROVE FALSE
  <2>1. PICK q \in Nat \ {0} : VenueFilled(i)' = VenueFilled(i) + q
    BY <1>1, FillDue
  <2>2. VenueFilled(i)' = VenueFilled(i)
    BY DEF ReconFinish, venueVars, VenueFilled
  <2>3. VenueFilled(i) \in Nat
    BY FilledType
  <2>. QED BY <2>1, <2>2, <2>3
<1>. QED
  BY <1>1

(* A fill delivered to the socket moves the account and what its order     *)
(* comes to alike.                                                         *)
LEMMA FillAgrees ==
  ASSUME LifeStep, NEW s \in Symbols, NEW i \in IdsOf(s), VenueFills(i), socket, Agrees(s)
  PROVE  Agrees(s)'
<1>1. /\ TypeOk /\ TypeOk' /\ Adds /\ Adds' /\ SameTrades
      /\ venuePos[s] \in Int /\ corrected[s] \in Int /\ venuePos \in [Symbols -> Int]
  BY DEF LifeStep, FirstLife, LifeParts, TypeOk, VenueTypes, BookTypes
<1>2. i \in Ids /\ i[1] = s /\ IsFiniteSet(IdsOf(s)) /\ IdsOf(s) \subseteq Ids
  BY IdsOfFinite DEF IdsOf
<1>3. PICK q \in Nat \ {0} :
        /\ venuePos' = [venuePos EXCEPT ![i[1]] = @ + Signed(venueOrders[i].side, q)]
        /\ Due(i)' = Due(i) + q
        /\ \A id \in Ids : id # i => Due(id)' = Due(id)
  BY <1>1, <1>2, FillDue
<1>4. /\ orders' = orders /\ corrected' = corrected /\ venueOrders[i] # None
      /\ orders[i] # None /\ orders[i].side = venueOrders[i].side
  BY <1>1, <1>2 DEF VenueFills, bookVars, SameTrades, Tracked
<1>5. Due(i) \in Nat
  BY <1>1, <1>2, DueType
<1>6. TF'[i] = TF[i] + Signed(orders[i].side, q)
  <2>1. TF[i] = Signed(orders[i].side, Due(i)) /\ TF'[i] = Signed(orders[i].side, Due(i) + q)
    BY <1>2, <1>3, <1>4 DEF TF, Tracked
  <2>. QED BY <1>5, <2>1, SignedSum
<1>7. \A x \in IdsOf(s) : x # i => TF'[x] = TF[x]
  BY <1>2, <1>3, <1>4 DEF TF, Tracked
<1>8. \A x \in IdsOf(s) : TF[x] \in Int /\ TF'[x] \in Int
  BY <1>1, <1>2, DueIsInt, DueIsIntNext
<1>9. SumOf(TF', IdsOf(s)) = SumOf(TF, IdsOf(s)) - TF[i] + TF'[i] /\ SumOf(TF, IdsOf(s)) \in Int
  BY <1>2, <1>7, <1>8, SumChanges
<1>10. Signed(orders[i].side, q) \in Int
  BY SignedInt
<1>11. venuePos'[s] = venuePos[s] + Signed(orders[i].side, q)
  BY <1>1, <1>2, <1>3, <1>4
<1>12. corrected[s] + SumOf(TF, IdsOf(s)) = venuePos[s]
  BY <1>1, AgreesDue
<1>13. corrected'[s] + SumOf(TF', IdsOf(s)) = venuePos'[s]
  BY <1>1, <1>2, <1>4, <1>6, <1>8, <1>9, <1>10, <1>11, <1>12
<1>. QED
  BY <1>1, <1>13, AgreesDueNext

LEMMA CauseOfDrift ==
  ASSUME LifeStep, NEW s \in Symbols, Agrees(s), ~VenueMoves(s), ~Disconnect, ~FillRefused(s),
         \A id \in IdsOf(s) : VenueFills(id) => socket,
         ReconFinish => s \notin recon.overtaken
  PROVE  Agrees(s)'
<1>1. /\ FirstLife /\ TypeOk /\ TypeOk' /\ Next /\ crashes' = crashes /\ Adds /\ Adds'
  BY DEF LifeStep, FirstLife, LifeParts
<1>2. IsFiniteSet(IdsOf(s)) /\ IdsOf(s) \subseteq Ids
  BY IdsOfFinite
<1>3. corrected[s] + SumOf(TF, IdsOf(s)) = venuePos[s]
  BY <1>1, AgreesDue
<1>4. ASSUME \A i \in IdsOf(s) : ~VenueFills(i), corrected'[s] = corrected[s], venuePos'[s] = venuePos[s]
      PROVE  Agrees(s)'
  <2>1. \A x \in IdsOf(s) : TF'[x] = TF[x]
    BY <1>4, TFKept DEF IdsOf
  <2>2. SumOf(TF', IdsOf(s)) = SumOf(TF, IdsOf(s))
    BY <1>2, <2>1, SumSame
  <2>. QED BY <1>1, <1>3, <1>4, <2>2, AgreesDueNext
<1>5. CASE ReconFinish /\ s \in Covered
  BY <1>5, PassHeals
<1>6. CASE ReconFinish /\ s \notin Covered
  <2>1. positions[s] \in Int /\ corrected[s] \in Int
    BY <1>1 DEF TypeOk, BookTypes
  <2>2. positions'[s] = positions[s]
    BY <1>6 DEF ReconFinish, ApplyCorrections, Mismatched
  <2>3. corrected'[s] = corrected[s]
    BY <1>6, <2>1, <2>2 DEF ReconFinish, ApplyCorrections
  <2>4. venuePos' = venuePos
    BY <1>6 DEF ReconFinish, venueVars
  <2>5. \A i \in IdsOf(s) : ~VenueFills(i)
    BY <1>1, <1>2, <1>6, PassFillsNothing
  <2>. QED BY <1>4, <2>3, <2>4, <2>5
<1>7. CASE \E i \in IdsOf(s) : VenueFills(i)
  BY <1>7, FillAgrees
<1>8. CASE ~ReconFinish /\ \A i \in IdsOf(s) : ~VenueFills(i)
  BY <1>4, <1>8, AccountsKept
<1>. QED
  BY <1>5, <1>6, <1>7, <1>8

(* In the first life of the process, for any symbols, quantities, losses   *)
(* of the socket or the network and trades of others: the position the     *)
(* engine holds of a symbol, with its fills under way, comes apart from    *)
(* the exchange's only for one of the five reasons, and a pass nothing     *)
(* overtook brings the two together on every symbol it covers.             *)
THEOREM DriftAlwaysHasACause == Spec => DriftHasACause
<1> DEFINE Step ==
      crashes' = 0 =>
        \A s \in Symbols :
          /\ ReconFinish /\ s \in Covered \ recon.overtaken => positions'[s] = venuePos[s] /\ Agrees(s)'
          /\ Agrees(s) /\ ~Agrees(s)' =>
               \/ VenueMoves(s) \/ Disconnect \/ FillRefused(s)
               \/ ~socket /\ \E id \in IdsOf(s) : VenueFills(id)
               \/ ReconFinish /\ s \in recon.overtaken
<1>1. IInv /\ IInv' /\ LifeInv /\ LifeInv' /\ SnapshotHolds /\ [Next]_vars => [Step]_vars
  <2>1. SUFFICES ASSUME IInv, IInv', LifeInv, LifeInv', SnapshotHolds, Next, crashes' = 0,
                        NEW s \in Symbols
                 PROVE  /\ ReconFinish /\ s \in Covered \ recon.overtaken =>
                             positions'[s] = venuePos[s] /\ Agrees(s)'
                        /\ Agrees(s) /\ ~Agrees(s)' =>
                             \/ VenueMoves(s) \/ Disconnect \/ FillRefused(s)
                             \/ ~socket /\ \E id \in IdsOf(s) : VenueFills(id)
                             \/ ReconFinish /\ s \in recon.overtaken
    OBVIOUS
  <2>2. TypeOk /\ TypeOk'
    BY <2>1 DEF IInv
  <2>3. crashes' = crashes /\ NoCrash /\ NoCrash'
    BY <2>1, <2>2, CrashesCount DEF NoCrash
  <2>4. LifeParts /\ LifeParts'
    BY <2>1, <2>2, <2>3, LifeIsParts, LifeIsPartsNext
  <2>5. FirstLife
    BY <2>2, <2>3, <2>4 DEF FirstLife, LifeParts, NoCrash
  <2>6. LifeStep
    BY <2>1, <2>2, <2>3, <2>4, <2>5 DEF LifeStep
  <2>. QED BY <2>6, PassHeals, CauseOfDrift
<1>2. Spec => [][Step]_vars
  BY <1>1, PipelineInvariant, LifeInvariant, SnapshotInvariant, PTL DEF Spec
<1>. QED
  BY <1>2 DEF DriftHasACause
=============================================================================
