------------------------------ MODULE BookFeed ------------------------------
(***************************************************************************)
(* The public order book stream: BybitIngestion (bybitWs.ts) and the       *)
(* OrderBook (orderbook.ts) it rebuilds, for one symbol.  The venue numbers*)
(* its updates; Books[u] is its book after update u, a set of <<side,      *)
(* price>> levels whose sizes are left out.  Messages wait in the inbox of *)
(* their connection; some fail validation and are dropped.  Callbacks of   *)
(* old connections act on the same object as those of the current one.     *)
(***************************************************************************)
EXTENDS Integers, Sequences, SequencesExt, FiniteSetsExt

CONSTANTS
  None,       \* no socket, no reason, nothing emitted
  Books,      \* the venue's book after each update
  MaxStarts,  \* bound: calls of start()
  MaxDrops,   \* bound: connections the network drops or breaks
  MaxLosses   \* bound: messages that fail validation

VARIABLES
  stopped, connected, current, timer,  \* fields of BybitIngestion
  health, reason, lastU, levels,       \* fields of OrderBook
  emitted,                             \* the last book event: update id and levels
  sockets,                             \* connections: phase, subscription, inbox
  venueU,                              \* the venue's last update
  starts, drops, losses,               \* bounds
  blind, hasty                         \* history: a snapshot was lost; start() was
                                       \* called before the last socket had closed

feedVars  == <<stopped, connected, current, timer>>
bookVars  == <<health, reason, lastU, levels, emitted>>
boundVars == <<starts, drops, losses, blind, hasty>>
vars == <<feedVars, bookVars, sockets, venueU, boundVars>>

SocketIds == DOMAIN sockets
NewSocket == [phase |-> "connecting", subscribed |-> FALSE, inbox |-> <<>>]

Init ==
  /\ stopped = FALSE /\ connected = FALSE /\ current = None /\ timer = FALSE
  /\ health = "EMPTY" /\ reason = None /\ lastU = -1 /\ levels = {}
  /\ emitted = None
  /\ sockets = <<>> /\ venueU = 1
  /\ starts = 0 /\ drops = 0 /\ losses = 0 /\ blind = FALSE /\ hasty = FALSE
-----------------------------------------------------------------------------
(***************************************************************************)
(* OrderBook.apply.                                                        *)
(***************************************************************************)
SnapshotAt(u) == [type |-> "snapshot", u |-> u, set |-> Books[u], removed |-> {}]
DeltaAt(u)    == [type |-> "delta", u |-> u, set |-> Books[u] \ Books[u - 1],
                  removed |-> Books[u - 1] \ Books[u]]

Crossed(book) == \E b, a \in book : b[1] = "bid" /\ a[1] = "ask" /\ b[2] >= a[2]

MarkStale(why) == health' = "STALE" /\ reason' = why

(* invalidate *)
Invalidate(why) == IF health = "EMPTY" THEN UNCHANGED <<health, reason>> ELSE MarkStale(why)

ValidatedNext(u, book) ==                        \* mutant: expects one too many
  /\ lastU' = u + 1 /\ levels' = book
  /\ health' = "HEALTHY" /\ reason' = None /\ emitted' = [u |-> u, levels |-> book]

(* The new levels are kept; what is emitted depends on the check.          *)
Validated(u, book) ==
  /\ lastU' = u /\ levels' = book
  /\ IF Crossed(book)
     THEN MarkStale("crossed") /\ UNCHANGED emitted
     ELSE health' = "HEALTHY" /\ reason' = None /\ emitted' = [u |-> u, levels |-> book]

ApplySnapshot(msg) == Validated(msg.u, msg.set)

AppliesLeniently(msg) ==                        \* mutant: a gap is not noticed
  health = "HEALTHY" /\ msg.u > lastU

Applies(msg) == health = "HEALTHY" /\ msg.u = lastU + 1
Gap(msg) == health = "HEALTHY" /\ msg.u > lastU + 1

ApplyDelta(msg) ==
  \/ Applies(msg) /\ Validated(msg.u, (levels \ msg.removed) \cup msg.set)
  \/ Gap(msg) /\ ~Applies(msg) /\ MarkStale("gap") /\ UNCHANGED <<lastU, levels, emitted>>
  \/ ~Applies(msg) /\ ~Gap(msg) /\ UNCHANGED bookVars
-----------------------------------------------------------------------------
(***************************************************************************)
(* BybitIngestion.                                                         *)
(***************************************************************************)
(* send() writes to the current socket if it is open and `connected' says  *)
(* so; the venue answers a (re)subscription with a snapshot.               *)
Subscribe(all, known) ==
  IF current = None \/ ~known \/ all[current].phase # "open" THEN all
  ELSE [all EXCEPT ![current].subscribed = TRUE,
                   ![current].inbox = Append(@, SnapshotAt(venueU))]

Close(all, k) ==
  IF k = None \/ all[k].phase = "closed" THEN all ELSE [all EXCEPT ![k].phase = "closing"]

Open ==
  /\ sockets' = Append(sockets, NewSocket)
  /\ current' = Len(sockets) + 1

Start ==
  /\ starts < MaxStarts /\ starts' = starts + 1
  /\ stopped' = FALSE
  /\ Open
  /\ hasty' = (hasty \/ timer \/ \E k \in SocketIds : sockets[k].phase # "closed")
  /\ UNCHANGED <<connected, timer, bookVars, venueU, drops, losses, blind>>

Stop ==
  /\ starts > 0 /\ ~stopped
  /\ stopped' = TRUE /\ timer' = FALSE /\ connected' = FALSE
  /\ sockets' = Close(sockets, current) /\ current' = None
  /\ UNCHANGED <<bookVars, venueU, boundVars>>

(* onOpen *)
SocketOpens(k) ==
  /\ sockets[k].phase = "connecting"
  /\ connected' = TRUE
  /\ sockets' = Subscribe([sockets EXCEPT ![k].phase = "open"], TRUE)
  /\ UNCHANGED <<stopped, current, timer, bookVars, venueU, boundVars>>

ClosesKeepingBook(k) ==                        \* mutant: the book stays
  /\ \/ sockets[k].phase = "closing" /\ UNCHANGED drops
     \/ sockets[k].phase \in {"connecting", "open"} /\ drops < MaxDrops /\ drops' = drops + 1
  /\ sockets' = [sockets EXCEPT ![k] = [NewSocket EXCEPT !.phase = "closed"]]
  /\ connected' = FALSE /\ timer' = (timer \/ ~stopped) /\ blind' = FALSE
  /\ UNCHANGED <<stopped, current, bookVars, venueU, starts, losses, hasty>>

(* onClose.  The snapshot that was lost with this connection is moot.      *)
SocketCloses(k) ==
  /\ \/ sockets[k].phase = "closing" /\ UNCHANGED drops
     \/ sockets[k].phase \in {"connecting", "open"} /\ drops < MaxDrops /\ drops' = drops + 1
  /\ sockets' = [sockets EXCEPT ![k] = [NewSocket EXCEPT !.phase = "closed"]]
  /\ connected' = FALSE
  /\ Invalidate("closed")
  /\ timer' = (timer \/ ~stopped)
  /\ blind' = FALSE
  /\ UNCHANGED <<stopped, current, lastU, levels, emitted, venueU, starts, losses, hasty>>

SocketErrorsTwice(k) ==                 \* mutant: reconnects before the close event
  /\ sockets[k].phase # "closed" /\ drops < MaxDrops /\ drops' = drops + 1
  /\ sockets' = Close(sockets, k)
  /\ timer' = TRUE
  /\ UNCHANGED <<stopped, connected, current, bookVars, venueU, starts, losses, blind, hasty>>

(* onError: a socket that breaks, or that was closed before it was open.   *)
SocketErrors(k) ==
  /\ sockets[k].phase # "closed" /\ drops < MaxDrops /\ drops' = drops + 1
  /\ sockets' = Close(sockets, k)
  /\ UNCHANGED <<feedVars, bookVars, venueU, starts, losses, blind, hasty>>

TimerFires ==
  /\ timer /\ timer' = FALSE
  /\ Open
  /\ UNCHANGED <<stopped, connected, bookVars, venueU, boundVars>>

Readable(k) == sockets[k].phase \in {"open", "closing"} /\ sockets[k].inbox # <<>>

DeliverNoRebuild(k) ==                         \* mutant: a gap does not resubscribe
  /\ Readable(k)
  /\ LET msg == Head(sockets[k].inbox)
     IN  IF msg.type = "snapshot" THEN ApplySnapshot(msg) ELSE ApplyDelta(msg)
  /\ sockets' = [sockets EXCEPT ![k].inbox = Tail(@)]
  /\ UNCHANGED <<feedVars, venueU, boundVars>>

(* handleBook: a gap resubscribes, which asks for a fresh snapshot.        *)
Deliver(k) ==
  /\ Readable(k)
  /\ LET msg  == Head(sockets[k].inbox)
         rest == [sockets EXCEPT ![k].inbox = Tail(@)]
     IN  \/ /\ msg.type = "snapshot"
            /\ ApplySnapshot(msg) /\ sockets' = rest
         \/ /\ msg.type = "delta"
            /\ ApplyDelta(msg)
            /\ sockets' = IF Gap(msg) THEN Subscribe(rest, connected) ELSE rest
  /\ UNCHANGED <<feedVars, venueU, boundVars>>

(* A message that fails validation is counted and dropped. *)
DropInvalid(k) ==
  /\ Readable(k) /\ losses < MaxLosses /\ losses' = losses + 1
  /\ sockets' = [sockets EXCEPT ![k].inbox = Tail(@)]
  /\ blind' = (blind \/ Head(sockets[k].inbox).type = "snapshot")
  /\ UNCHANGED <<feedVars, bookVars, venueU, starts, drops, hasty>>

(* The venue (external) changes its book and tells its subscribers. *)
VenueUpdates ==
  /\ venueU < Len(Books) /\ venueU' = venueU + 1
  /\ sockets' = [k \in SocketIds |->
                   IF sockets[k].phase = "open" /\ sockets[k].subscribed
                   THEN [sockets[k] EXCEPT !.inbox = Append(@, DeltaAt(venueU + 1))]
                   ELSE sockets[k]]
  /\ UNCHANGED <<feedVars, bookVars, boundVars>>
-----------------------------------------------------------------------------
SocketStep == \E k \in SocketIds :
  \/ SocketOpens(k) \/ Deliver(k)
  \/ sockets[k].phase = "closing" /\ SocketCloses(k)

Fault == \E k \in SocketIds : SocketErrors(k) \/ SocketCloses(k) \/ DropInvalid(k)

Next == Start \/ Stop \/ TimerFires \/ SocketStep \/ Fault \/ VenueUpdates

(* Sockets open, deliver and close; the timer fires; the market moves. *)
Fairness == WF_vars(TimerFires) /\ WF_vars(SocketStep) /\ WF_vars(VenueUpdates)

Spec     == Init /\ [][Next]_vars
FairSpec == Spec /\ Fairness
-----------------------------------------------------------------------------
(* Every variable has its type. *)
TypeOk ==
  /\ {stopped, connected, timer, blind, hasty} \subseteq BOOLEAN
  /\ current \in SocketIds \cup {None}
  /\ health \in {"EMPTY", "HEALTHY", "STALE"} /\ reason \in {None, "gap", "crossed", "closed"}
  /\ lastU \in -1 .. Len(Books) /\ venueU \in DOMAIN Books
  /\ emitted = None \/ emitted.u \in DOMAIN Books
  /\ \A k \in SocketIds : sockets[k].phase \in {"connecting", "open", "closing", "closed"}

(* A healthy book is exactly the venue's book at its update id, through    *)
(* losses, reconnects and two connections feeding it (orderbook.ts: "A     *)
(* BOOK THAT MIGHT BE WRONG SERVES NOTHING").                              *)
HealthyIsExact == health = "HEALTHY" => levels = Books[lastU]

(* A healthy book is fed: a connection still delivers to it, or its close  *)
(* event is on its way (bybitWs.ts: "guarantees that no stale price        *)
(* survives a disconnect").                                                *)
HealthyIsFed ==
  health = "HEALTHY" => \E k \in SocketIds : sockets[k].phase = "closing"
                                             \/ (sockets[k].phase = "open" /\ sockets[k].subscribed)

(* Book events never go back in time, unless two connections feed the book.*)
BookAdvances == emitted # None /\ emitted' # emitted => (emitted'.u > emitted.u \/ hasty)
EmissionsAdvance == [][BookAdvances]_vars

(* A book that went stale by a gap or a lost connection heals, unless its  *)
(* snapshot was lost or the venue's own book was crossed.                  *)
Heals ==
  (health = "STALE" /\ reason \in {"gap", "closed"}) ~>
    (health = "HEALTHY" \/ reason = "crossed" \/ stopped \/ blind)
=============================================================================
