---------------------------- MODULE LivePipeline ----------------------------
(***************************************************************************)
(* The live trading pipeline: the Engine of packages/execution, the live   *)
(* broker, the private-stream handler, the journal and the reconciliation  *)
(* of packages/adapters-bybit, running against an exchange.                *)
(*                                                                         *)
(* The process is one JavaScript thread: code between two awaits is not    *)
(* interleaved with other code of the process, but the exchange, the       *)
(* network and a crash take their steps at any time.  `pc' says where      *)
(* Engine.handle is; a socket callback or a resumed reconciliation runs    *)
(* only where handle is idle or suspended (Yielded).                       *)
(*                                                                         *)
(* An order link id is a pure function of strategy, symbol and intent      *)
(* number, so it is the pair <<symbol, number>>.                           *)
(***************************************************************************)
EXTENDS OrderState, Sums, Sequences, FiniteSets, FiniteSetsExt

CONSTANTS
  Symbols,         \* the instruments traded
  Qtys,            \* the order quantities strategies ask for
  None,            \* no record, no call in flight
  BatchMax,        \* bound: intents a strategy returns for one event
  MaxSeq,          \* bound: intents numbered in one life of the process
  MaxCrashes,      \* bound: crashes
  MaxDrops,        \* bound: losses of the private socket
  MaxRecons,       \* bound: reconciliation passes
  MaxMoves,        \* bound: position changes the engine's orders did not make
  NetworkMayFail,  \* whether REST calls may be lost or time out
  VenueMayClose,   \* whether the venue may cancel or reject a resting order
  HostChecksGate   \* whether the host feeds events only while canTrade

ASSUME QtysAssumption   == Qtys \subseteq Nat \ {0}
ASSUME BoundsAssumption == {BatchMax, MaxSeq, MaxCrashes, MaxDrops, MaxRecons, MaxMoves} \subseteq Nat
ASSUME FlagsAssumption  == {NetworkMayFail, VenueMayClose, HostChecksGate} \subseteq BOOLEAN

Ids == Symbols \X (0 .. MaxSeq - 1)

(***************************************************************************)
(* Data.  `cum' is a history field no code reads: the venue's cumulative   *)
(* fill of the order after this execution.                                 *)
(***************************************************************************)
Events == [type : EventTypes, qty : Nat, cum : Nat]
Plain(type) == [type |-> type, qty |-> 0, cum |-> 0]
FillOf(qty, cum) == [type |-> "fill", qty |-> qty, cum |-> cum]

Intents    == [id : Ids, side : Sides, qty : Qtys]
Requests   == [id : Ids, side : Sides, qty : Qtys, life : Nat]
VenueOrder == [side : Sides, qty : Qtys, filled : Nat, live : BOOLEAN]
Statuses   == {"New", "PartiallyFilled", "Filled", "Cancelled", "Rejected"}

(* Journal entries; the stream and the outbox carry the "event" ones.      *)
OpenEntries  == [t : {"open"}, id : Ids, side : Sides, qty : Nat \ {0}]
EventEntries == [t : {"event"}, id : Ids, event : Events]
Entries      == OpenEntries \cup EventEntries \cup [t : {"reconciled"}]

EventEntry(id, event) == [t |-> "event", id |-> id, event |-> event]

ASSUME NoneAssumption == None \notin OrderRecord \cup Requests \cup VenueOrder

VARIABLES
  \* the exchange and the network
  venueOrders,    \* the exchange's orders, by link id
  venuePos,       \* the account's net position per symbol
  wire,           \* order-create requests in the network
  answer,         \* the reply on its way to the awaiting submit
  updates,        \* `order' topic of the private stream
  execs,          \* `execution' topic of the private stream
  socket,         \* whether the private stream is connected
  \* the engine
  pc,             \* where handle() is: idle, drain, intents or await
  orders,         \* Engine.orders
  positions,      \* Engine.positions
  intentSeq,      \* Engine.intentSeq
  pending,        \* intents of this event not processed yet
  call,           \* the submit being awaited
  outbox,         \* BybitLiveBroker.outbox
  \* the pipeline
  proc,           \* down, replay (inside recoverState), cold or up
  cursor,         \* next journal entry to replay
  canTrade,       \* RecoveryGate.reconciled
  journal,        \* the durable journal
  journaledOpens, \* ids already recorded with an "open" entry
  streamed,       \* symbols seen on the position stream
  recon,          \* the reconciliation pass in progress
  \* history and counters
  corrected,      \* net position correction reconciliation has applied
  missed,         \* orders an execution of which was never delivered
  crashes, drops, recons, moves

venueVars == <<venueOrders, venuePos, wire, answer, updates, execs, socket>>
bookVars  == <<orders, positions, corrected>>
loopVars  == <<pc, intentSeq, pending, call>>
pipeVars  == <<proc, cursor, canTrade, streamed, recon>>
logVars   == <<journal, journaledOpens, outbox>>
counters  == <<missed, crashes, drops, recons, moves>>
vars      == <<venueVars, bookVars, loopVars, pipeVars, logVars, counters>>

(* `overtaken' is a history field: the symbols trading has overtaken since *)
(* the pass read the positions, or had already when it read them.          *)
Flat  == [s \in Symbols |-> 0]
Pulls == [active : BOOLEAN, gotOrders : BOOLEAN, gotPositions : BOOLEAN,
          orders : SUBSET Ids, positions : [Symbols -> Int], overtaken : SUBSET Symbols]
IdleRecon == [active |-> FALSE, gotOrders |-> FALSE, gotPositions |-> FALSE,
              orders |-> {}, positions |-> Flat, overtaken |-> {}]

Init ==
  /\ venueOrders = [id \in Ids |-> None]
  /\ venuePos = Flat
  /\ wire = {} /\ answer = "none"
  /\ updates = <<>> /\ execs = <<>> /\ socket = FALSE
  /\ pc = "idle" /\ intentSeq = 0 /\ pending = <<>> /\ call = None
  /\ orders = [id \in Ids |-> None]
  /\ positions = Flat /\ corrected = Flat
  /\ proc = "down" /\ cursor = 1 /\ canTrade = FALSE
  /\ journal = <<>> /\ journaledOpens = {} /\ outbox = <<>>
  /\ streamed = {} /\ recon = IdleRecon
  /\ missed = {} /\ crashes = 0 /\ drops = 0 /\ recons = 0 /\ moves = 0

(* Where other code of the process may run.                                *)
Yielded == proc \in {"cold", "up"} /\ pc \in {"idle", "await"}
-----------------------------------------------------------------------------
(***************************************************************************)
(* Engine.handle.                                                          *)
(***************************************************************************)

(* A market event is fed in.  The host awaits coldStart() and the previous *)
(* handle() first; nothing in handle() itself looks at the recovery gate.  *)
HandleEvent ==
  /\ proc = "up" /\ pc = "idle"
  /\ HostChecksGate => canTrade
  /\ intentSeq < MaxSeq \/ outbox # <<>>
  /\ pc' = "drain"
  /\ UNCHANGED <<venueVars, bookVars, intentSeq, pending, call, pipeVars, logVars, counters>>

(* Mutants of DrainOne: the position moves although the order refused the  *)
(* fill; fills of sells are added.                                         *)
DrainOneIgnoresResult ==
  /\ pc = "drain" /\ outbox # <<>>
  /\ LET id     == Head(outbox).id
         event  == Head(outbox).event
         result == ApplyOrderEvent(orders[id], event)
     IN  IF orders[id] # None
         THEN /\ orders' = [orders EXCEPT ![id] = result.order]
              /\ positions' = IF event.type = "fill"
                              THEN [positions EXCEPT ![id[1]] =
                                      @ + Signed(orders[id].side, event.qty)]
                              ELSE positions
         ELSE UNCHANGED <<orders, positions>>
  /\ outbox' = Tail(outbox)
  /\ UNCHANGED <<venueVars, corrected, loopVars, pipeVars, journal, journaledOpens, counters>>

DrainOneUnsigned ==
  /\ pc = "drain" /\ outbox # <<>>
  /\ LET id     == Head(outbox).id
         event  == Head(outbox).event
         result == ApplyOrderEvent(orders[id], event)
     IN  IF orders[id] # None /\ result.ok
         THEN /\ orders' = [orders EXCEPT ![id] = result.order]
              /\ positions' = IF event.type = "fill"
                              THEN [positions EXCEPT ![id[1]] =
                                      @ + event.qty]
                              ELSE positions
         ELSE UNCHANGED <<orders, positions>>
  /\ outbox' = Tail(outbox)
  /\ UNCHANGED <<venueVars, corrected, loopVars, pipeVars, journal, journaledOpens, counters>>

(* One turn of drainBroker's loop.  The loop is synchronous: only the      *)
(* exchange and a crash move between two turns.  An event for an order the *)
(* engine does not know, or one the state machine refuses, changes nothing.*)
DrainOne ==
  /\ pc = "drain" /\ outbox # <<>>
  /\ LET id     == Head(outbox).id
         event  == Head(outbox).event
         result == ApplyOrderEvent(orders[id], event)
     IN  IF orders[id] # None /\ result.ok
         THEN /\ orders' = [orders EXCEPT ![id] = result.order]
              /\ positions' = IF event.type = "fill"
                              THEN [positions EXCEPT ![id[1]] =
                                      @ + Signed(orders[id].side, event.qty)]
                              ELSE positions
         ELSE UNCHANGED <<orders, positions>>
  /\ outbox' = Tail(outbox)
  /\ UNCHANGED <<venueVars, corrected, loopVars, pipeVars, journal, journaledOpens, counters>>

(* Mutant of Batches: the counter is bumped before it is used. *)
BatchesBumped ==
  UNION {{[i \in 1 .. n |-> [id |-> <<ask[i][1], intentSeq + i>>,
                             side |-> ask[i][2], qty |-> ask[i][3]]] :
             ask \in [1 .. n -> Symbols \X Sides \X Qtys]} : n \in 0 .. BatchMax}

(* What a strategy may ask for; intents are numbered by nextIntentSeq().   *)
Batches ==
  UNION {{[i \in 1 .. n |-> [id |-> <<ask[i][1], intentSeq + i - 1>>,
                             side |-> ask[i][2], qty |-> ask[i][3]]] :
             ask \in [1 .. n -> Symbols \X Sides \X Qtys]} : n \in 0 .. BatchMax}

RunStrategy ==
  /\ pc = "drain" /\ outbox = <<>>
  /\ \E batch \in Batches :
       /\ intentSeq + Len(batch) <= MaxSeq
       /\ pending' = batch
       /\ intentSeq' = intentSeq + Len(batch)
  /\ pc' = "intents"
  /\ UNCHANGED <<venueVars, bookVars, call, pipeVars, logVars, counters>>

(* The risk gate vetoes, or the intent is a cancel, which the live broker  *)
(* fails before it sends anything: only the decision log remembers.        *)
Veto ==
  /\ pc = "intents" /\ pending # <<>>
  /\ pending' = Tail(pending)
  /\ UNCHANGED <<venueVars, bookVars, pc, intentSeq, call, pipeVars, logVars, counters>>

Submitted(intent) ==
  ApplyOrderEvent(NewOrder(intent.side, intent.qty), Plain("submit")).order

(* processIntent up to `await broker.submit': the record is stored as      *)
(* SUBMITTED, replacing any record with the same id, and the request goes  *)
(* out.                                                                    *)
BeginSubmit ==
  /\ pc = "intents" /\ pending # <<>>
  /\ LET intent  == Head(pending)
         request == [id |-> intent.id, side |-> intent.side, qty |-> intent.qty, life |-> crashes]
     IN  /\ orders' = [orders EXCEPT ![intent.id] = Submitted(intent)]
         /\ wire' = wire \cup {request}
         /\ call' = request
  /\ pending' = Tail(pending)
  /\ answer' = "none"
  /\ pc' = "await"
  /\ UNCHANGED <<venueOrders, venuePos, updates, execs, socket, positions, corrected,
                 intentSeq, pipeVars, logVars, counters>>

(* Mutant of AfterSubmit: the record of a failed submit is deleted.        *)
AfterSubmitDeletes(accepted) ==
  LET id == call.id
  IN  /\ pc = "await"
      /\ orders' = IF ~accepted /\ orders[id] # None
                   THEN [orders EXCEPT ![id] = None]
                   ELSE orders
      /\ pc' = "intents"
      /\ call' = None
      /\ answer' = "none"
      /\ UNCHANGED <<venueOrders, venuePos, wire, updates, execs, socket, positions, corrected,
                     intentSeq, pending, pipeVars, logVars, counters>>

(* The rest of processIntent once submit has resolved.                     *)
AfterSubmit(accepted) ==
  LET id     == call.id
      result == ApplyOrderEvent(orders[id], Plain("reject"))
  IN  /\ pc = "await"
      /\ orders' = IF ~accepted /\ orders[id] # None /\ result.ok
                   THEN [orders EXCEPT ![id] = result.order]
                   ELSE orders
      /\ pc' = "intents"
      /\ call' = None
      /\ answer' = "none"
      /\ UNCHANGED <<venueOrders, venuePos, wire, updates, execs, socket, positions, corrected,
                     intentSeq, pending, pipeVars, logVars, counters>>

(* The venue's reply arrives.  A duplicate is reported as not accepted.    *)
SubmitReturns == answer # "none" /\ AfterSubmit(answer = "ok")

(* Mutant of SubmitFails: the call has no timeout. *)
SubmitFailsNoTimeout == NetworkMayFail /\ answer # "none" /\ AfterSubmit(FALSE)

(* The call times out or its reply is lost: a network error, reported as   *)
(* not accepted whether or not the request landed or is still to land.     *)
SubmitFails == NetworkMayFail /\ AfterSubmit(FALSE)

HandleDone ==
  /\ pc = "intents" /\ pending = <<>>
  /\ pc' = "idle"
  /\ UNCHANGED <<venueVars, bookVars, intentSeq, pending, call, pipeVars, logVars, counters>>
-----------------------------------------------------------------------------
(***************************************************************************)
(* The exchange and the network (external).                                *)
(***************************************************************************)
Publish(topic, message) == IF socket THEN Append(topic, message) ELSE topic

Reply(request, result) == answer' = IF request = call THEN result ELSE answer

VenueAccepts(request) ==
  /\ request \in wire /\ venueOrders[request.id] = None
  /\ venueOrders' = [venueOrders EXCEPT ![request.id] =
                       [side |-> request.side, qty |-> request.qty, filled |-> 0, live |-> TRUE]]
  /\ wire' = wire \ {request}
  /\ updates' = Publish(updates, [id |-> request.id, status |-> "New"])
  /\ Reply(request, "ok")
  /\ UNCHANGED <<venuePos, execs, socket, bookVars, loopVars, pipeVars, logVars, counters>>

(* Refused with a return code, or as a duplicate link id.                  *)
VenueRefuses(request) ==
  /\ request \in wire
  /\ wire' = wire \ {request}
  /\ Reply(request, IF venueOrders[request.id] = None THEN "reject" ELSE "duplicate")
  /\ UNCHANGED <<venueOrders, venuePos, updates, execs, socket,
                 bookVars, loopVars, pipeVars, logVars, counters>>

RequestLost(request) ==
  /\ NetworkMayFail /\ request \in wire
  /\ wire' = wire \ {request}
  /\ UNCHANGED <<venueOrders, venuePos, answer, updates, execs, socket,
                 bookVars, loopVars, pipeVars, logVars, counters>>

(* A pass that has read the positions does not see what moves them now.    *)
Overtakes(s) ==
  recon' = IF recon.gotPositions THEN [recon EXCEPT !.overtaken = @ \cup {s}] ELSE recon

VenueFills(id) ==
  /\ venueOrders[id] # None /\ venueOrders[id].live
  /\ \E q \in 1 .. venueOrders[id].qty - venueOrders[id].filled :
       LET cum  == venueOrders[id].filled + q
           done == cum = venueOrders[id].qty
       IN  /\ venueOrders' = [venueOrders EXCEPT ![id] = [@ EXCEPT !.filled = cum, !.live = ~done]]
           /\ venuePos' = [venuePos EXCEPT ![id[1]] = @ + Signed(venueOrders[id].side, q)]
           /\ execs' = Publish(execs, EventEntry(id, FillOf(q, cum)))
           /\ updates' = Publish(updates,
                [id |-> id, status |-> IF done THEN "Filled" ELSE "PartiallyFilled"])
  /\ missed' = IF socket THEN missed ELSE missed \cup {id}
  /\ Overtakes(id[1])
  /\ UNCHANGED <<wire, answer, socket, bookVars, loopVars, proc, cursor, canTrade, streamed,
                 logVars, crashes, drops, recons, moves>>

(* The venue pulls the remainder, or refuses an order it had accepted.     *)
VenueCloses(id) ==
  /\ VenueMayClose /\ venueOrders[id] # None /\ venueOrders[id].live
  /\ \E status \in {"Cancelled", "Rejected"} :
       /\ status = "Rejected" => venueOrders[id].filled = 0
       /\ updates' = Publish(updates, [id |-> id, status |-> status])
  /\ venueOrders' = [venueOrders EXCEPT ![id] = [@ EXCEPT !.live = FALSE]]
  /\ UNCHANGED <<venuePos, wire, answer, execs, socket, bookVars, loopVars, pipeVars, logVars, counters>>

(* A manual trade, a liquidation or an attached stop moves the position.   *)
VenueMoves(s) ==
  /\ moves < MaxMoves
  /\ moves' = moves + 1
  /\ \E d \in {-1, 1} : venuePos' = [venuePos EXCEPT ![s] = @ + d]
  /\ Overtakes(s)
  /\ UNCHANGED <<venueOrders, wire, answer, updates, execs, socket, bookVars, loopVars,
                 proc, cursor, canTrade, streamed, logVars, missed, crashes, drops, recons>>

Connect ==
  /\ proc # "down" /\ ~socket
  /\ socket' = TRUE
  /\ UNCHANGED <<venueOrders, venuePos, wire, answer, updates, execs,
                 bookVars, loopVars, pipeVars, logVars, counters>>

(* The socket drops: what was not delivered never will be.                 *)
Disconnect ==
  /\ socket /\ drops < MaxDrops
  /\ drops' = drops + 1
  /\ socket' = FALSE /\ updates' = <<>> /\ execs' = <<>>
  /\ missed' = missed \cup {execs[i].id : i \in DOMAIN execs}
  /\ UNCHANGED <<venueOrders, venuePos, wire, answer,
                 bookVars, loopVars, pipeVars, logVars, crashes, recons, moves>>
-----------------------------------------------------------------------------
(***************************************************************************)
(* The private stream's callbacks.  Each topic is delivered in order; the  *)
(* two topics are not ordered with each other.                             *)
(***************************************************************************)

(* accountEvents.orderUpdateToEvent; "none" is dropped by the caller.      *)
UpdateEvent(status) ==
  CASE status = "New"       -> "ack"
    [] status = "Cancelled" -> "cancel"
    [] status = "Rejected"  -> "reject"
    [] status \in {"Filled", "PartiallyFilled"} -> "none"

OpenEntry(id) == [t |-> "open", id |-> id, side |-> orders[id].side, qty |-> orders[id].qty]

(* Mutants of HandleAccountEvent: the event is queued twice; the newest is *)
(* drained first; only the first event of an order is journalled.          *)
HandleAccountEventTwice(id, event) ==
  LET opens == orders[id] # None /\ id \notin journaledOpens
  IN  /\ journal' = Append(IF opens THEN Append(journal, OpenEntry(id)) ELSE journal,
                            EventEntry(id, event))
      /\ journaledOpens' = IF opens THEN journaledOpens \cup {id} ELSE journaledOpens
      /\ outbox' = outbox \o <<EventEntry(id, event), EventEntry(id, event)>>

HandleAccountEventUnshifts(id, event) ==
  LET opens == orders[id] # None /\ id \notin journaledOpens
  IN  /\ journal' = Append(IF opens THEN Append(journal, OpenEntry(id)) ELSE journal,
                            EventEntry(id, event))
      /\ journaledOpens' = IF opens THEN journaledOpens \cup {id} ELSE journaledOpens
      /\ outbox' = <<EventEntry(id, event)>> \o outbox

HandleAccountEventOpensOnly(id, event) ==
  LET opens == orders[id] # None /\ id \notin journaledOpens
  IN  /\ journal' = IF opens THEN journal \o <<OpenEntry(id), EventEntry(id, event)>>
                                ELSE journal
      /\ journaledOpens' = IF opens THEN journaledOpens \cup {id} ELSE journaledOpens
      /\ outbox' = Append(outbox, EventEntry(id, event))

(* Journal first -- with an "open" marker the first time the engine's      *)
(* record is seen -- then the broker's outbox.                             *)
HandleAccountEvent(id, event) ==
  LET opens == orders[id] # None /\ id \notin journaledOpens
  IN  /\ journal' = Append(IF opens THEN Append(journal, OpenEntry(id)) ELSE journal,
                            EventEntry(id, event))
      /\ journaledOpens' = IF opens THEN journaledOpens \cup {id} ELSE journaledOpens
      /\ outbox' = Append(outbox, EventEntry(id, event))

DeliverUpdate ==
  /\ Yielded /\ updates # <<>>
  /\ LET id   == Head(updates).id
         type == UpdateEvent(Head(updates).status)
     IN  IF type = "none"
         THEN UNCHANGED logVars
         ELSE HandleAccountEvent(id, Plain(type))
  /\ updates' = Tail(updates)
  /\ UNCHANGED <<venueOrders, venuePos, wire, answer, execs, socket,
                 bookVars, loopVars, pipeVars, counters>>

DeliverExecution ==
  /\ Yielded /\ execs # <<>>
  /\ HandleAccountEvent(Head(execs).id, Head(execs).event)
  /\ execs' = Tail(execs)
  /\ UNCHANGED <<venueOrders, venuePos, wire, answer, updates, socket,
                 bookVars, loopVars, pipeVars, counters>>

(* onStreamedPosition: only the set of symbols is ever read back.          *)
DeliverPosition(s) ==
  /\ Yielded /\ socket /\ s \notin streamed /\ (moves > 0 \/ venuePos[s] # 0)
  /\ streamed' = streamed \cup {s}
  /\ UNCHANGED <<venueVars, bookVars, loopVars, proc, cursor, canTrade, recon, logVars, counters>>
-----------------------------------------------------------------------------
(***************************************************************************)
(* Reconciliation and cold start.                                          *)
(***************************************************************************)
StartPull == recon' = [IdleRecon EXCEPT !.active = TRUE]

ReconStart ==
  /\ proc = "up" /\ Yielded /\ ~recon.active
  /\ recons < MaxRecons /\ recons' = recons + 1
  /\ StartPull
  /\ UNCHANGED <<venueVars, bookVars, loopVars, proc, cursor, canTrade, streamed, logVars,
                 missed, crashes, drops, moves>>

IsFill(entry) == entry.t = "event" /\ entry.event.type = "fill"

(* What the engine has still to take in. *)
UndeliveredEvents == ToSet(outbox) \cup ToSet(execs)

(* The venue answers the two GETs, each at a moment of its own.            *)
ReadOpenOrders ==
  /\ recon.active /\ ~recon.gotOrders
  /\ recon' = [recon EXCEPT !.gotOrders = TRUE,
                            !.orders = {id \in Ids : venueOrders[id] # None /\ venueOrders[id].live}]
  /\ UNCHANGED <<venueVars, bookVars, loopVars, proc, cursor, canTrade, streamed, logVars, counters>>

ReadPositions ==
  /\ recon.active /\ ~recon.gotPositions
  /\ recon' = [recon EXCEPT !.gotPositions = TRUE, !.positions = venuePos,
                            !.overtaken = {e.id[1] : e \in {d \in UndeliveredEvents : IsFill(d)}}]
  /\ UNCHANGED <<venueVars, bookVars, loopVars, proc, cursor, canTrade, streamed, logVars, counters>>

(* enginePositionSymbols: the venue's own list holds only open positions.  *)
Covered == {s \in Symbols : recon.positions[s] # 0}
             \cup {id[1] : id \in {i \in Ids : orders[i] # None}}
             \cup streamed

LocallyLive == {id \in Ids : orders[id] # None /\ IsLive(orders[id])}

(* Mutant of Mismatched: a symbol the venue is flat in is not compared. *)
MismatchedListed == {s \in Covered : recon.positions[s] # 0 /\ positions[s] # recon.positions[s]}

Mismatched  == {s \in Covered : positions[s] # recon.positions[s]}
NoDrift     == LocallyLive = recon.orders /\ Mismatched = {}

(* reconcile() and positionCorrections(): order drift is only logged.      *)
ApplyCorrections ==
  /\ positions' = [s \in Symbols |-> IF s \in Mismatched THEN recon.positions[s] ELSE positions[s]]
  /\ corrected' = [s \in Symbols |-> corrected[s] + positions'[s] - positions[s]]

(* Both GETs are in: diff and correct.  A cold start opens the gate with   *)
(* or without drift, and leaves the marker only without.                   *)
ReconFinish ==
  /\ Yielded /\ recon.gotOrders /\ recon.gotPositions
  /\ ApplyCorrections
  /\ recon' = IdleRecon
  /\ canTrade' = (canTrade \/ proc = "cold")
  /\ journal' = IF proc = "cold" /\ NoDrift THEN Append(journal, [t |-> "reconciled"]) ELSE journal
  /\ proc' = "up"
  /\ UNCHANGED <<venueVars, orders, loopVars, cursor, streamed, journaledOpens, outbox, counters>>

(* Mutant of ReconFails: the failure is swallowed inside the cold start. *)
ReconFailsSwallowed ==
  /\ NetworkMayFail /\ Yielded /\ recon.active
  /\ recon' = IdleRecon
  /\ UNCHANGED <<venueVars, bookVars, loopVars, proc, cursor, canTrade, streamed, logVars, counters>>

(* A GET throws: a cold start leaves the gate closed.                      *)
ReconFails ==
  /\ NetworkMayFail /\ Yielded /\ recon.active
  /\ recon' = IdleRecon
  /\ proc' = "up"
  /\ UNCHANGED <<venueVars, bookVars, loopVars, cursor, canTrade, streamed, logVars, counters>>

(* The process dies; the exchange, the network and the journal remain.     *)
Crash ==
  /\ proc # "down" /\ crashes < MaxCrashes
  /\ crashes' = crashes + 1
  /\ proc' = "down" /\ pc' = "idle" /\ pending' = <<>> /\ call' = None /\ intentSeq' = 0
  /\ orders' = [id \in Ids |-> None] /\ positions' = Flat /\ corrected' = Flat
  /\ canTrade' = FALSE /\ cursor' = 1 /\ journaledOpens' = {} /\ outbox' = <<>>
  /\ streamed' = {} /\ recon' = IdleRecon
  /\ socket' = FALSE /\ updates' = <<>> /\ execs' = <<>> /\ answer' = "none"
  /\ UNCHANGED <<venueOrders, venuePos, wire, journal, missed, drops, recons, moves>>

(* Mutant of ColdStart: the replay misses the first entry of the journal. *)
ColdStartSkipsFirst ==
  /\ proc = "down"
  /\ proc' = "replay" /\ cursor' = 2
  /\ canTrade' = FALSE
  /\ UNCHANGED <<venueVars, bookVars, loopVars, streamed, recon, logVars, counters>>

(* coldStart(): block the gate and read the journal.                       *)
ColdStart ==
  /\ proc = "down"
  /\ proc' = "replay"
  /\ canTrade' = FALSE
  /\ UNCHANGED <<venueVars, bookVars, loopVars, cursor, streamed, recon, logVars, counters>>

(***************************************************************************)
(* One turn of recoverState's loop over `book' and `pos', the maps it      *)
(* fills.                                                                  *)
(***************************************************************************)
ReplayOrder(book, entry) ==
  CASE entry.t = "open" -> [book EXCEPT ![entry.id] = NewOrder(entry.side, entry.qty)]
    [] entry.t = "event" ->
         IF book[entry.id] = None THEN book
         ELSE [book EXCEPT ![entry.id] = ApplyOrderEvent(@, entry.event).order]
    [] entry.t = "reconciled" -> book

ReplayPosition(book, pos, entry) ==
  IF entry.t = "event" /\ entry.event.type = "fill"
  THEN IF book[entry.id] # None /\ ApplyOrderEvent(book[entry.id], entry.event).ok
       THEN [pos EXCEPT ![entry.id[1]] = @ + Signed(book[entry.id].side, entry.event.qty)]
       ELSE pos
  ELSE pos

(* The new engine's maps are empty and coldStart copies the rebuilt ones   *)
(* into them before its first await, so they are rebuilt in place.         *)
ReplayOne ==
  /\ proc = "replay" /\ cursor <= Len(journal)
  /\ orders' = ReplayOrder(orders, journal[cursor])
  /\ positions' = ReplayPosition(orders, positions, journal[cursor])
  /\ cursor' = cursor + 1
  /\ UNCHANGED <<venueVars, corrected, loopVars, proc, canTrade, streamed, recon, logVars, counters>>

ReplayDone ==
  /\ proc = "replay" /\ cursor > Len(journal)
  /\ proc' = "cold"
  /\ StartPull
  /\ UNCHANGED <<venueVars, bookVars, loopVars, cursor, canTrade, streamed, logVars, counters>>
-----------------------------------------------------------------------------
EngineStep == HandleEvent \/ DrainOne \/ RunStrategy \/ Veto \/ BeginSubmit
                \/ SubmitReturns \/ SubmitFails \/ HandleDone

VenueStep ==
  \/ \E request \in wire : VenueAccepts(request) \/ VenueRefuses(request) \/ RequestLost(request)
  \/ \E id \in Ids : VenueFills(id) \/ VenueCloses(id)
  \/ \E s \in Symbols : VenueMoves(s)
  \/ Connect \/ Disconnect

StreamStep == DeliverUpdate \/ DeliverExecution \/ \E s \in Symbols : DeliverPosition(s)

PipelineStep == ReconStart \/ ReadOpenOrders \/ ReadPositions \/ ReconFinish \/ ReconFails
                  \/ Crash \/ ColdStart \/ ReplayOne \/ ReplayDone

Next == EngineStep \/ VenueStep \/ StreamStep \/ PipelineStep

Spec == Init /\ [][Next]_vars
-----------------------------------------------------------------------------
VenueTypes ==
  /\ venueOrders \in [Ids -> VenueOrder \cup {None}]
  /\ venuePos \in [Symbols -> Int]
  /\ wire \in SUBSET Requests
  /\ answer \in {"none", "ok", "reject", "duplicate"}
  /\ updates \in Seq([id : Ids, status : Statuses])
  /\ execs \in Seq(EventEntries)
  /\ socket \in BOOLEAN

BookTypes ==
  /\ orders \in [Ids -> OrderRecord \cup {None}]
  /\ positions \in [Symbols -> Int]
  /\ corrected \in [Symbols -> Int]

LoopTypes ==
  /\ pc \in {"idle", "drain", "intents", "await"}
  /\ intentSeq \in 0 .. MaxSeq
  /\ pending \in Seq(Intents)
  /\ call \in Requests \cup {None}
  /\ pc = "await" => call # None

PipeTypes ==
  /\ proc \in {"down", "replay", "cold", "up"}
  /\ cursor \in Nat \ {0}
  /\ canTrade \in BOOLEAN
  /\ streamed \in SUBSET Symbols
  /\ recon \in Pulls

LogTypes ==
  /\ journal \in Seq(Entries)
  /\ journaledOpens \in SUBSET Ids
  /\ outbox \in Seq(EventEntries)

CounterTypes ==
  /\ missed \in SUBSET Ids
  /\ crashes \in Nat /\ drops \in Nat /\ recons \in Nat /\ moves \in Nat

(* Every variable has its type. *)
TypeOk == VenueTypes /\ BookTypes /\ LoopTypes /\ PipeTypes /\ LogTypes /\ CounterTypes

Tracked(id) == orders[id] # None
Filled(id)      == IF Tracked(id) THEN orders[id].filledQty ELSE 0
VenueFilled(id) == IF venueOrders[id] # None THEN venueOrders[id].filled ELSE 0

(* Every record of the engine's book keeps its state and its fills in      *)
(* agreement, through late rejects, replays and reused ids.                *)
BookWellFormed == \A id \in Ids : Tracked(id) => WellFormed(orders[id])

(* The book never shows a fill the venue did not make: no execution is     *)
(* counted twice, whether it comes from the stream, the outbox or the      *)
(* journal, and a `Filled' order update adds nothing to its executions.    *)
EngineNeverAhead == \A id \in Ids : Filled(id) <= VenueFilled(id)

SignedFill(id) == IF Tracked(id) THEN Signed(orders[id].side, orders[id].filledQty) ELSE 0

IdsOf(s) == {id \in Ids : id[1] = s}

Balanced ==
  \A s \in Symbols : positions[s] = corrected[s] + MapThenSumSet(SignedFill, IdsOf(s))

(* Engine.positions and the fills of Engine.orders are two accounts of the *)
(* same trades, kept by separate statements of drainBroker and of          *)
(* recoverState; they differ by exactly what reconciliation corrected.     *)
PositionMatchesBook == proc # "replay" => Balanced

(* What the executions of one order in a queue add up to.                  *)
FillsIn(queue, id) ==
  Total([i \in DOMAIN queue |-> IF queue[i].id = id THEN queue[i].event.qty ELSE 0])

(* Every execution is accounted for while its order is open or filled: the *)
(* venue's fill is the book's fill plus what is still in the stream or the *)
(* outbox.  Only a cancelled or rejected record can lack fills.            *)
NoFillLost ==
  crashes = 0 =>
    \A id \in Ids \ missed :
      Tracked(id) /\ orders[id].state \notin {"CANCELLED", "REJECTED"} =>
        VenueFilled(id) = Filled(id) + FillsIn(outbox, id) + FillsIn(execs, id)

JournaledFill(id, cum) ==
  \E k \in 1 .. Len(journal) :
    IsFill(journal[k]) /\ journal[k].id = id /\ journal[k].event.cum >= cum

(* Durability first: whatever the book holds of an order, or is about to   *)
(* hold, can be read back from the journal after a crash.                  *)
FillsAreDurable ==
  /\ \A id \in Ids : Filled(id) > 0 => JournaledFill(id, Filled(id))
  /\ \A i \in 1 .. Len(outbox) :
       IsFill(outbox[i]) => JournaledFill(outbox[i].id, outbox[i].event.cum)

Rank == [NEW |-> 0, SUBMITTED |-> 1, ACK |-> 2, PARTIAL |-> 3,
         FILLED |-> 4, CANCELLED |-> 4, REJECTED |-> 4, EXPIRED |-> 4]

(* Within one life of the process a tracked order keeps its side and       *)
(* quantity, never loses a fill and never walks backwards -- so two        *)
(* intents never share an id, and no answer revives a closed order.        *)
BookNeverForgets ==
  [][ crashes' = crashes =>
        \A id \in Ids : Tracked(id) =>
          /\ orders'[id] # None
          /\ orders'[id].side = orders[id].side /\ orders'[id].qty = orders[id].qty
          /\ orders'[id].filledQty >= orders[id].filledQty
          /\ Rank[orders'[id].state] >= Rank[orders[id].state]
          /\ IsTerminal(orders[id].state) => orders'[id] = orders[id] ]_vars

(* The fills of an order, and of a symbol, on their way to the engine. *)
Arriving(id) ==
  IF Tracked(id) THEN Signed(orders[id].side, FillsIn(outbox, id) + FillsIn(execs, id)) ELSE 0

InFlight(s) == MapThenSumSet(Arriving, IdsOf(s))

(* The engine will hold the venue's position when those have arrived.      *)
Agrees(s) == positions[s] + InFlight(s) = venuePos[s]

(* A fill of s that its record refuses, as it was closed before. *)
FillRefused(s) ==
  /\ DrainOne /\ Head(outbox).id[1] = s /\ IsFill(Head(outbox))
  /\ orders[Head(outbox).id].state \in {"CANCELLED", "REJECTED"}

(* In the first life of the process the engine's position of a symbol      *)
(* comes apart from the venue's for five reasons only: a trade of someone  *)
(* else, a fill while the socket is down, the loss of the socket with      *)
(* fills on it, a fill that comes after its order was closed, and a        *)
(* reconciliation that a fill overtook -- it applies the position it read  *)
(* although fills of it were or will be counted as well.  A pass that      *)
(* nothing overtook brings the two together on every symbol it covers,     *)
(* however far apart they were.                                            *)
DriftHasACause ==
  [][ crashes' = 0 =>
        \A s \in Symbols :
          /\ ReconFinish /\ s \in Covered \ recon.overtaken => positions'[s] = venuePos[s] /\ Agrees(s)'
          /\ Agrees(s) /\ ~Agrees(s)' =>
               \/ VenueMoves(s) \/ Disconnect \/ FillRefused(s)
               \/ ~socket /\ \E id \in IdsOf(s) : VenueFills(id)
               \/ ReconFinish /\ s \in recon.overtaken ]_vars

(* Cold start fails closed: the gate is open only in a process that has    *)
(* been through a cold start, and then the engine knows every order the    *)
(* journal opened in this or an earlier life, so that no execution of one  *)
(* is dropped as an unknown order's.                                       *)
GateNeedsBook ==
  canTrade => /\ proc = "up"
              /\ \A k \in 1 .. Len(journal) : journal[k].t = "open" => Tracked(journal[k].id)

(***************************************************************************)
(* Why the book never runs ahead.  The executions of one order carry the   *)
(* venue's cumulative fill, and they stay in the venue's order in the      *)
(* stream, in the outbox, in the journal, and from one to the next.        *)
(***************************************************************************)
Precedes(e, f) ==
  IsFill(e) /\ IsFill(f) /\ e.id = f.id => e.event.cum + f.event.qty <= f.event.cum

Ordered(queue) == \A i, j \in 1 .. Len(queue) : i < j => Precedes(queue[i], queue[j])

Before(first, second) ==
  \A i \in 1 .. Len(first), j \in 1 .. Len(second) : Precedes(first[i], second[j])

(* The venue made this fill. *)
Real(e) == IsFill(e) => e.event.qty <= e.event.cum /\ e.event.cum <= VenueFilled(e.id)

(* The book does not contain this fill yet. *)
Unbooked(e) == IsFill(e) => Filled(e.id) + e.event.qty <= e.event.cum

ExecutionsInOrder ==
  /\ Ordered(execs) /\ Ordered(outbox) /\ Ordered(journal)
  /\ Before(outbox, execs) /\ Before(journal, execs)

ExecutionsReal ==
  /\ \A i \in 1 .. Len(execs) : Real(execs[i])
  /\ \A i \in 1 .. Len(outbox) : Real(outbox[i])
  /\ \A k \in 1 .. Len(journal) : Real(journal[k])

UndeliveredUnbooked ==
  /\ \A i \in 1 .. Len(execs) : Unbooked(execs[i])
  /\ \A i \in 1 .. Len(outbox) : Unbooked(outbox[i])
  /\ proc \in {"down", "replay"} =>
       /\ \A k \in cursor .. Len(journal) : Unbooked(journal[k])
       /\ outbox = <<>>

(* The inductive invariant of LivePipelineProofs. *)
IInv ==
  /\ TypeOk
  /\ BookWellFormed /\ EngineNeverAhead /\ FillsAreDurable
  /\ ExecutionsInOrder /\ ExecutionsReal /\ UndeliveredUnbooked

(***************************************************************************)
(* Why nothing is lost and nothing restarts in the first life of the       *)
(* process: an intent's id is new when its order is sent, and everything   *)
(* the exchange holds or sends is about an order of the book, of the same  *)
(* side and quantity.  A crash ends it: the next life numbers its intents  *)
(* from zero again.                                                        *)
(***************************************************************************)
FreshIds ==
  /\ \A id \in Ids : id[2] >= intentSeq => ~Tracked(id)
  /\ \A i \in 1 .. Len(pending) : pending[i].id[2] < intentSeq /\ ~Tracked(pending[i].id)
  /\ \A i, j \in 1 .. Len(pending) : i < j => pending[i].id # pending[j].id

(* The journal is empty until the engine runs. *)
NothingToReplay == proc \in {"down", "replay"} => journal = <<>>

SameTrades ==
  /\ \A request \in wire :
       /\ Tracked(request.id)
       /\ orders[request.id].side = request.side /\ orders[request.id].qty = request.qty
  /\ \A id \in Ids : venueOrders[id] # None =>
       /\ Tracked(id)
       /\ orders[id].side = venueOrders[id].side /\ orders[id].qty = venueOrders[id].qty
       /\ venueOrders[id].filled <= venueOrders[id].qty

OwnMessages ==
  /\ \A i \in 1 .. Len(updates) : Tracked(updates[i].id)
  /\ \A i \in 1 .. Len(execs) : Tracked(execs[i].id) /\ IsFill(execs[i])
  /\ \A i \in 1 .. Len(outbox) :
       /\ Tracked(outbox[i].id)
       /\ outbox[i].event.type \in {"ack", "fill", "cancel", "reject"}
       /\ outbox[i].event.type # "fill" => outbox[i].event.qty = 0

OpenStates == {"SUBMITTED", "ACK", "PARTIAL", "FILLED", "CANCELLED", "REJECTED"}

(* The inductive invariant of what the engine knows. *)
LifeInv ==
  crashes = 0 =>
    /\ FreshIds /\ NothingToReplay /\ SameTrades /\ OwnMessages
    /\ \A id \in Ids : Tracked(id) => orders[id].state \in OpenStates
    /\ Balanced /\ NoFillLost

(* Why an undisturbed pass may trust what it read: of a symbol nothing has *)
(* overtaken, the position is still the venue's and no fill is under way.  *)
SnapshotHolds ==
  recon.gotPositions =>
    \A s \in Symbols \ recon.overtaken :
      /\ recon.positions[s] = venuePos[s]
      /\ \A e \in UndeliveredEvents : IsFill(e) => e.id[1] # s

Quiet == /\ proc = "up" /\ pc = "idle" /\ ~recon.active
         /\ outbox = <<>> /\ execs = <<>> /\ updates = <<>>

(* With nothing in flight and nothing lost by the socket, a crash or a     *)
(* trade of someone else, the engine holds the position the venue shows.   *)
QuietAgreement ==
  Quiet /\ missed = {} /\ crashes = 0 /\ moves = 0 => positions = venuePos
-----------------------------------------------------------------------------
(* The event loop keeps running: synchronous code of handle() and          *)
(* coldStart() goes on, and every REST call is answered or times out.      *)
Fairness ==
  /\ WF_vars(DrainOne \/ RunStrategy \/ Veto \/ BeginSubmit \/ HandleDone)
  /\ WF_vars(SubmitReturns \/ SubmitFails)
  /\ WF_vars(ReplayOne \/ ReplayDone)
  /\ WF_vars(ReconFinish \/ ReconFails)

FairSpec == Spec /\ Fairness

(* No market event blocks the loop for ever: whatever the venue and the    *)
(* network do with its orders, handle() returns.                           *)
HandleCompletes == pc # "idle" ~> pc = "idle"

(* A cold start comes to a decision, open or closed, unless the process    *)
(* dies first.                                                             *)
ColdStartDecides == proc \in {"replay", "cold"} ~> proc \in {"up", "down"}
=============================================================================
