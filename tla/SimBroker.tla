----------------------------- MODULE SimBroker ------------------------------
(***************************************************************************)
(* The simulated broker of packages/adapters-sim, with the engine's order  *)
(* records it feeds: latency, depth, and a place in the queue.             *)
(*                                                                         *)
(* A book is one level per side, [bid, ask, size]; price 0 is an empty     *)
(* side.  Orders of another symbol are skipped by `step' and left out;     *)
(* fees are left out; the slippage limit is 1/SlipPart of the mid.  Styles *)
(* other than limit and passive are swept as market orders.                *)
(***************************************************************************)
EXTENDS OrderState, Sequences, FiniteSets, FiniteSetsExt, SequencesExt

CONSTANTS Orders,        \* link ids
          Books, Limits, \* what the book may be; limit prices
          Latency, SlipPart, MaxQty, MaxNow,
          MaxTraded      \* bound on the history `traded'; no queue is longer

VARIABLES books,     \* the last book known; a set of at most one
          pending,   \* set of PendingOrder
          outbox,    \* sequence of [id, event]
          seen,      \* seenLinkIds
          now,
          record,    \* the engine's record per link id, NoRecord before it is submitted
          refused,   \* history: the engine refused an event
          start,     \* history: per id, the time it may be live and the queue it joined
          traded,    \* history: per id, volume traded at its price since it was live
          fills      \* history: [id, at, how]

vars == <<books, pending, outbox, seen, now, record, refused, start, traded, fills>>

NoRecord == [state |-> "none"]
Styles   == [kind : {"market", "passive"}, price : {0}] \cup [kind : {"limit"}, price : Limits]

Init == /\ books = {} /\ pending = {} /\ outbox = <<>> /\ seen = {} /\ now = 0
        /\ record = [id \in Orders |-> NoRecord] /\ refused = FALSE
        /\ start = [id \in Orders |-> [at |-> 0, queue |-> 0]]
        /\ traded = [id \in Orders |-> 0] /\ fills = {}

Near(book, side) == IF side = "buy" THEN book.bid ELSE book.ask
Far(book, side)  == IF side = "buy" THEN book.ask ELSE book.bid

(* Price 0 stands for `null': a passive order on an empty side is swept.   *)
LimitPrice(style, book, side) ==
  IF style.kind = "passive" THEN Near(book, side) ELSE style.price

Sweepable(book, side, qty) == Far(book, side) # 0 /\ book.size >= qty

SlipsTooFar(book) ==
  /\ book.bid # 0 /\ book.ask # 0
  /\ SlipPart * (book.ask - book.bid) > book.ask + book.bid

QueueAheadAt(book, side, price) == IF Near(book, side) = price THEN book.size ELSE 0

Accepts(book, side, qty, limit) ==
  limit = 0 => Sweepable(book, side, qty) /\ ~SlipsTooFar(book)

Pend(id, side, qty, limit, book) ==
  [id |-> id, side |-> side, qty |-> qty, limit |-> limit, visibleAt |-> now + Latency, acked |-> FALSE,
   queueAhead |-> IF limit = 0 THEN 0 ELSE QueueAheadAt(book, side, limit)]

Sent(side, qty) == ApplyOrderEvent(NewOrder(side, qty), [type |-> "submit", qty |-> 0]).order
Turned(order)   == ApplyOrderEvent(order, [type |-> "reject", qty |-> 0]).order

(* The engine submits: a refusal, for want of a book, of depth or for its slippage, *)
(* uses the id up all the same.                                                     *)
Submit(id, side, qty, style) ==
  /\ id \notin seen /\ seen' = seen \cup {id}
  /\ \/ \E book \in books :
          LET limit == LimitPrice(style, book, side)
              order == Pend(id, side, qty, limit, book)
          IN  /\ Accepts(book, side, qty, limit)
              /\ pending' = pending \cup {order}
              /\ start' = [start EXCEPT ![id] = [at |-> order.visibleAt, queue |-> order.queueAhead]]
              /\ record' = [record EXCEPT ![id] = Sent(side, qty)]
     \/ /\ \A book \in books : ~Accepts(book, side, qty, LimitPrice(style, book, side))
        /\ record' = [record EXCEPT ![id] = Turned(Sent(side, qty))]
        /\ UNCHANGED <<pending, start>>
  /\ UNCHANGED <<books, outbox, now, refused, traded, fills>>

Event(id, type, qty) == [id |-> id, event |-> [type |-> type, qty |-> qty]]

Cancel(order) ==
  /\ pending' = pending \ {order}
  /\ outbox' = Append(outbox, Event(order.id, "cancel", 0))
  /\ UNCHANGED <<books, seen, now, record, refused, start, traded, fills>>

Through(order, book) ==
  IF order.side = "buy" THEN book.ask < order.limit ELSE book.bid > order.limit

Behind(order, volume, price) == price = order.limit /\ order.queueAhead > volume

(* fillMarket and fillLimit: how an order fills on this step, or "no".     *)
HowFills(order, book, volume, price) ==
  IF order.limit = 0 THEN (IF Sweepable(book, order.side, order.qty) THEN "sweep" ELSE "no")
  ELSE IF book.bid = 0 \/ book.ask = 0 THEN "no"
  ELSE IF Through(order, book) THEN "through"
  ELSE IF price # order.limit \/ volume = 0 \/ Behind(order, volume, price) THEN "no"
  ELSE "queue"

Queued(order, book, volume, price) ==
  IF order.limit # 0 /\ book.bid # 0 /\ book.ask # 0 /\ ~Through(order, book) /\ price = order.limit
  THEN order.queueAhead - volume ELSE order.queueAhead

(* Mutant of InFlight: an order is live at once. *)
InFlightNever(order) == FALSE

InFlight(order) == now < order.visibleAt

Events(order, how) ==
  (IF order.acked THEN <<>> ELSE <<Event(order.id, "ack", 0)>>)
    \o (IF how = "no" THEN <<>> ELSE <<Event(order.id, "fill", order.qty)>>)

(* step: one market event for every order that is live, in the order they came. *)
Step(book, volume, price) ==
  LET live == {o \in pending : ~InFlight(o)}
      how(o) == HowFills(o, book, volume, price)
      after(o) == [o EXCEPT !.acked = TRUE, !.queueAhead = Queued(o, book, volume, price)]
  IN  /\ books' = {book}
      /\ pending' = (pending \ live) \cup {after(o) : o \in {x \in live : how(x) = "no"}}
      /\ \E line \in [1 .. Cardinality(live) -> live] :
            /\ \A o \in live : \E k \in DOMAIN line : line[k] = o
            /\ outbox' = outbox \o FoldLeft(LAMBDA out, o : out \o Events(o, how(o)), <<>>, line)
      /\ fills' = fills \cup {[id |-> o.id, at |-> now, how |-> how(o)] : o \in {x \in live : how(x) # "no"}}
      /\ traded' = [id \in Orders |->
           IF \E o \in pending : o.id = id /\ now >= start[id].at /\ o.limit = price
             THEN Min({traded[id] + volume, MaxTraded}) ELSE traded[id]]
      /\ UNCHANGED <<seen, now, record, refused, start>>

(* The engine drains all events. *)
Drain ==
  /\ outbox # <<>> /\ outbox' = <<>>
  /\ LET apply(acc, e) ==
           LET result == ApplyOrderEvent(acc.record[e.id], e.event)
           IN  [record |-> [acc.record EXCEPT ![e.id] = result.order], refused |-> acc.refused \/ ~result.ok]
         end == FoldLeft(apply, [record |-> record, refused |-> refused], outbox)
     IN  record' = end.record /\ refused' = end.refused
  /\ UNCHANGED <<books, pending, seen, now, start, traded, fills>>

TimePasses ==
  /\ now < MaxNow /\ now' = now + 1
  /\ UNCHANGED <<books, pending, outbox, seen, record, refused, start, traded, fills>>

Next == \/ \E id \in Orders, side \in Sides, qty \in 1 .. MaxQty, style \in Styles : Submit(id, side, qty, style)
        \/ \E order \in pending : Cancel(order)
        \/ \E book \in Books, volume \in 0 .. 1, price \in Limits : Step(book, volume, price)
        \/ Drain \/ TimePasses

Spec == Init /\ [][Next]_vars
-----------------------------------------------------------------------------
TypeOk == /\ books \subseteq Books /\ seen \subseteq Orders /\ now \in 0 .. MaxNow /\ refused \in BOOLEAN
          /\ \A id \in seen : record[id] \in OrderRecord

(* Every fill is earned: it comes no earlier than the latency after the    *)
(* submission, a fill at the order's own price only after the volume that  *)
(* stood ahead of it at submission has traded there, no order fills twice, *)
(* and the engine's record takes every event the simulator sends.          *)
FillsAreEarned ==
  /\ ~refused
  /\ \A f \in fills : f.at >= start[f.id].at /\ (f.how = "queue" => traded[f.id] >= start[f.id].queue)
  /\ \A f, g \in fills : f.id = g.id => f = g

(* Inductive.  What is pending is what the engine has submitted, and has   *)
(* acknowledged once every event that is on its way has arrived; nothing   *)
(* follows the event that ends an order; and what is ahead of an order in  *)
(* its queue is at least what has not traded there yet.                    *)
Pendings == [id : Orders, side : Sides, qty : Nat \ {0}, limit : Nat, visibleAt : Nat,
             acked : BOOLEAN, queueAhead : Int]
IdsOf(set) == {x.id : x \in set}

AckSent(id) == \E i \in DOMAIN outbox : outbox[i].id = id /\ outbox[i].event.type = "ack"

PendingSent == \A o \in pending :
  /\ o.id \in seen /\ record[o.id].qty = o.qty /\ record[o.id].filledQty = 0
  /\ record[o.id].state = IF o.acked /\ ~AckSent(o.id) THEN "ACK" ELSE "SUBMITTED"
  /\ AckSent(o.id) => o.acked
  /\ \A p \in pending : p.id = o.id => p = o

QueuesKept == \A o \in pending :
  /\ o.visibleAt = start[o.id].at
  /\ traded[o.id] + o.queueAhead >= start[o.id].queue \/ traded[o.id] = MaxTraded

EventsTaken == \A i \in DOMAIN outbox :
  LET id   == outbox[i].id
      type == outbox[i].event.type
  IN  /\ id \in seen /\ record[id].state \in {"SUBMITTED", "ACK"} /\ record[id].filledQty = 0
      /\ \/ type = "ack" /\ record[id].state = "SUBMITTED" /\ \A j \in 1 .. i - 1 : outbox[j].id # id
         \/ /\ type = "cancel" \/ (type = "fill" /\ outbox[i].event.qty = record[id].qty)
            /\ id \notin IdsOf(pending) /\ \A j \in DOMAIN outbox : j > i => outbox[j].id # id

SimTypes ==
  /\ pending \subseteq Pendings /\ IsFiniteSet(pending)
  /\ outbox \in Seq([id : Orders, event : [type : EventTypes, qty : Nat]])
  /\ record \in [Orders -> OrderRecord \cup {NoRecord}]
  /\ start \in [Orders -> [at : Nat, queue : 0 .. MaxTraded]] /\ traded \in [Orders -> 0 .. MaxTraded]
  /\ fills \subseteq [id : seen, at : Nat, how : {"sweep", "through", "queue"}]

SimInv == /\ TypeOk /\ SimTypes /\ FillsAreEarned
          /\ PendingSent /\ QueuesKept /\ EventsTaken /\ IdsOf(fills) \cap IdsOf(pending) = {}
=============================================================================
