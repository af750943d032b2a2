---------------------------- MODULE StreamProofs ----------------------------
(***************************************************************************)
(* Proofs about the two websocket clients: the order book feed serves only *)
(* exact books that are still fed, and the account stream never runs       *)
(* without its dead-man switch.                                            *)
(***************************************************************************)
EXTENDS MCStreams, TLAPS, SequenceTheorems

-----------------------------------------------------------------------------
(***************************************************************************)
(* Inboxes: genuine messages, in the order of the venue.                   *)
(***************************************************************************)
Messages == {Feed!SnapshotAt(u) : u \in DOMAIN Books} \cup {Feed!DeltaAt(u) : u \in DOMAIN Books \ {1}}

Orderly(box) == \A i, j \in DOMAIN box : i <= j => box[i].u <= box[j].u
UpTo(box, n) == \A i \in DOMAIN box : box[i].u <= n
From(box, e) == \A i \in DOMAIN box : e <= box[i].u

LEMMA BooksFacts ==
  /\ Books \in Seq(SUBSET ({"bid", "ask"} \X Nat)) /\ Len(Books) \in Nat \ {0}
  /\ DOMAIN Books = 1 .. Len(Books)
<1>1. Books \in Seq(SUBSET ({"bid", "ask"} \X Nat)) /\ Books # <<>>
  BY BooksAssumption
<1>2. Len(Books) \in Nat /\ DOMAIN Books = 1 .. Len(Books)
  BY <1>1
<1>3. Len(Books) # 0
  BY <1>1, EmptySeq
<1>. QED
  BY <1>1, <1>2, <1>3

LEMMA MessageFacts ==
  ASSUME NEW m \in Messages
  PROVE  /\ m.u \in DOMAIN Books /\ m.u \in Nat
         /\ m.type = "snapshot" => m.set = Books[m.u]
         /\ m.type = "delta" => /\ m.u - 1 \in DOMAIN Books
                                /\ (Books[m.u - 1] \ m.removed) \cup m.set = Books[m.u]
         /\ m.type \in {"snapshot", "delta"}
<1>1. ASSUME NEW u \in DOMAIN Books, m = Feed!SnapshotAt(u)
      PROVE  m.u = u /\ m.type = "snapshot" /\ m.set = Books[u]
  BY <1>1 DEF Feed!SnapshotAt
<1>2. ASSUME NEW u \in DOMAIN Books \ {1}, m = Feed!DeltaAt(u)
      PROVE  m.u = u /\ m.type = "delta" /\ m.set = Books[u] \ Books[u - 1]
             /\ m.removed = Books[u - 1] \ Books[u]
  BY <1>2 DEF Feed!DeltaAt
<1>3. \A u \in DOMAIN Books : u \in Nat /\ (u # 1 => u - 1 \in DOMAIN Books)
  BY BooksFacts
<1>. QED
  BY <1>1, <1>2, <1>3 DEF Messages

LEMMA BoxAppends ==
  ASSUME NEW box \in Seq(Messages), NEW n \in Nat, Orderly(box), UpTo(box, n),
         NEW m \in Messages, n <= m.u
  PROVE  /\ Append(box, m) \in Seq(Messages) /\ Append(box, m) # <<>>
         /\ Orderly(Append(box, m)) /\ UpTo(Append(box, m), m.u)
         /\ \A e \in Nat : e <= n /\ From(box, e) => From(Append(box, m), e)
<1>1. PICK l \in Nat : l = Len(box) /\ DOMAIN box = 1 .. l
  OBVIOUS
<1>2. PICK q \in Seq(Messages) : q = Append(box, m)
  BY AppendProperties
<1>3. Len(q) = l + 1 /\ DOMAIN q = 1 .. (l + 1) /\ q[l + 1] = m /\ \A i \in 1 .. l : q[i] = box[i]
  BY <1>1, <1>2
<1>4. \A i \in 1 .. l : box[i].u \in Nat
  BY <1>1, MessageFacts
<1>5. m.u \in Nat
  BY MessageFacts
<1>6. Orderly(q) /\ UpTo(q, m.u)
  <2>1. \A i \in 1 .. l : q[i].u <= n /\ q[i].u \in Nat
    BY <1>1, <1>3, <1>4 DEF UpTo
  <2>2. \A i \in 1 .. (l + 1) : q[i].u <= m.u
    BY <1>3, <1>5, <2>1
  <2>3. ASSUME NEW i \in 1 .. (l + 1), NEW j \in 1 .. (l + 1), i <= j PROVE q[i].u <= q[j].u
    <3>1. CASE j = l + 1
      BY <1>3, <2>2, <3>1
    <3>2. CASE j # l + 1
      <4>1. i \in 1 .. l /\ j \in 1 .. l
        BY <1>1, <2>3, <3>2
      <4>. QED BY <1>1, <1>3, <2>3, <4>1 DEF Orderly
    <3>. QED BY <3>1, <3>2
  <2>. QED BY <1>3, <2>2, <2>3 DEF Orderly, UpTo
<1>7. ASSUME NEW e \in Nat, e <= n, From(box, e) PROVE From(q, e)
  BY <1>1, <1>3, <1>5, <1>7 DEF From
<1>8. q # <<>>
  BY <1>3
<1>. QED
  BY <1>2, <1>6, <1>7, <1>8

LEMMA BoxReads ==
  ASSUME NEW box \in Seq(Messages), box # <<>>, Orderly(box)
  PROVE  /\ Head(box) \in Messages /\ Tail(box) \in Seq(Messages)
         /\ Orderly(Tail(box)) /\ From(Tail(box), Head(box).u)
         /\ \A n \in Nat : UpTo(box, n) => UpTo(Tail(box), n) /\ Head(box).u <= n
         /\ \A e \in Nat : From(box, e) => From(Tail(box), e) /\ e <= Head(box).u
<1>1. PICK l \in Nat : l = Len(box) /\ DOMAIN box = 1 .. l
  OBVIOUS
<1>2. l # 0
  BY <1>1, EmptySeq
<1>3. PICK q \in Seq(Messages) : q = Tail(box)
  BY HeadTailProperties
<1>4. Len(q) = l - 1 /\ DOMAIN q = 1 .. (l - 1) /\ \A i \in 1 .. (l - 1) : q[i] = box[i + 1]
  BY <1>1, <1>2, <1>3
<1>5. Head(box) = box[1] /\ 1 \in 1 .. l /\ Head(box) \in Messages
  BY <1>1, <1>2
<1>6. \A i \in 1 .. (l - 1) : i + 1 \in 1 .. l /\ 1 <= i + 1
  BY <1>1
<1>7. Orderly(q)
  <2>1. ASSUME NEW i \in 1 .. (l - 1), NEW j \in 1 .. (l - 1), i <= j PROVE q[i].u <= q[j].u
    <3>1. q[i] = box[i + 1] /\ q[j] = box[j + 1]
      BY <1>4
    <3>2. i + 1 \in 1 .. l /\ j + 1 \in 1 .. l /\ i + 1 <= j + 1
      BY <1>1, <2>1
    <3>. QED BY <1>1, <3>1, <3>2 DEF Orderly
  <2>. QED BY <1>4, <2>1 DEF Orderly
<1>8. From(q, Head(box).u)
  BY <1>1, <1>4, <1>5, <1>6 DEF From, Orderly
<1>9. ASSUME NEW n \in Nat, UpTo(box, n) PROVE UpTo(q, n) /\ Head(box).u <= n
  BY <1>1, <1>4, <1>5, <1>6, <1>9 DEF UpTo
<1>10. ASSUME NEW e \in Nat, From(box, e) PROVE From(q, e) /\ e <= Head(box).u
  BY <1>1, <1>4, <1>5, <1>6, <1>10 DEF From
<1>. QED
  BY <1>3, <1>5, <1>7, <1>8, <1>9, <1>10
-----------------------------------------------------------------------------
(***************************************************************************)
(* The connections of the feed, as a value.                                *)
(***************************************************************************)
FeedSocket == [phase : {"connecting", "open", "closing", "closed"}, subscribed : BOOLEAN,
               inbox : Seq(Messages)]

SocketOk(s, n) ==
  /\ s \in FeedSocket
  /\ s.inbox # <<>> => s.phase \in {"open", "closing"} /\ s.subscribed
  /\ Orderly(s.inbox) /\ UpTo(s.inbox, n)

AllOk(all, n) == all \in Seq(FeedSocket) /\ \A k \in DOMAIN all : SocketOk(all[k], n)

Delivers(s) == s.phase = "closing" \/ (s.phase = "open" /\ s.subscribed)
Alive(all)  == {k \in DOMAIN all : all[k].phase # "closed"}
LoneIn(all) == \A j, k \in Alive(all) : j = k

Ahead(all, e) == \A k \in DOMAIN all : From(all[k].inbox, e)

(* No connection comes back, and one that delivers goes on. *)
Evolves(all, q) == DOMAIN q = DOMAIN all /\ Alive(q) \subseteq Alive(all)
GoesOn(all, q)  == \A k \in DOMAIN all : Delivers(all[k]) => Delivers(q[k])

LEMMA Replaced ==
  ASSUME NEW n \in Nat, NEW all, AllOk(all, n), NEW k \in DOMAIN all, NEW s, SocketOk(s, n),
         s.phase = "closed" \/ all[k].phase # "closed"
  PROVE  /\ AllOk([all EXCEPT ![k] = s], n) /\ Evolves(all, [all EXCEPT ![k] = s])
         /\ (Delivers(all[k]) => Delivers(s)) => GoesOn(all, [all EXCEPT ![k] = s])
         /\ \A e \in Nat : Ahead(all, e) /\ From(s.inbox, e) => Ahead([all EXCEPT ![k] = s], e)
<1>1. all \in Seq(FeedSocket) /\ s \in FeedSocket
  BY DEF AllOk, SocketOk
<1>2. PICK q \in Seq(FeedSocket) : q = [all EXCEPT ![k] = s]
  <2>1. [all EXCEPT ![k] = s] \in Seq(FeedSocket)
    BY <1>1, ExceptSeq
  <2>. QED BY <2>1
<1>3. DOMAIN q = DOMAIN all /\ \A j \in DOMAIN all : q[j] = IF j = k THEN s ELSE all[j]
  BY <1>1, <1>2
<1>4. AllOk(q, n)
  BY <1>3 DEF AllOk
<1>5. Evolves(all, q)
  BY <1>3 DEF Evolves, Alive
<1>6. (Delivers(all[k]) => Delivers(s)) => GoesOn(all, q)
  BY <1>3 DEF GoesOn
<1>7. \A e \in Nat : Ahead(all, e) /\ From(s.inbox, e) => Ahead(q, e)
  BY <1>3 DEF Ahead
<1>. QED
  BY <1>2, <1>4, <1>5, <1>6, <1>7

LEMMA Closed ==
  ASSUME NEW n \in Nat, NEW all, AllOk(all, n), NEW k \in DOMAIN all \cup {None}
  PROVE  /\ AllOk(Feed!Close(all, k), n) /\ Evolves(all, Feed!Close(all, k))
         /\ GoesOn(all, Feed!Close(all, k))
         /\ \A e \in Nat : Ahead(all, e) => Ahead(Feed!Close(all, k), e)
<1>1. CASE k = None \/ all[k].phase = "closed"
  <2>1. Feed!Close(all, k) = all
    BY <1>1 DEF Feed!Close
  <2>. QED BY <2>1 DEF Evolves, GoesOn
<1>2. CASE ~(k = None \/ all[k].phase = "closed")
  <2>0. k \in DOMAIN all /\ all[k] \in FeedSocket /\ SocketOk(all[k], n)
    BY <1>2 DEF AllOk, SocketOk
  <2>1. PICK s : s = [all[k] EXCEPT !.phase = "closing"]
    OBVIOUS
  <2>2. s \in FeedSocket /\ s.phase = "closing" /\ s.subscribed = all[k].subscribed /\ s.inbox = all[k].inbox
    BY <2>0, <2>1 DEF FeedSocket
  <2>3. SocketOk(s, n) /\ Delivers(s)
    BY <2>0, <2>2 DEF SocketOk, Delivers
  <2>4. Feed!Close(all, k) = [all EXCEPT ![k] = s]
    BY <1>2, <2>1 DEF Feed!Close
  <2>5. \A e \in Nat : Ahead(all, e) => From(s.inbox, e)
    BY <2>0, <2>2 DEF Ahead
  <2>6. PICK q : q = [all EXCEPT ![k] = s]
    OBVIOUS
  <2>7. /\ AllOk(q, n) /\ Evolves(all, q) /\ GoesOn(all, q)
        /\ \A e \in Nat : Ahead(all, e) /\ From(s.inbox, e) => Ahead(q, e)
    BY <1>2, <2>0, <2>3, <2>6, Replaced
  <2>. QED BY <2>4, <2>5, <2>6, <2>7
<1>. QED
  BY <1>1, <1>2

LEMMA Subscribed ==
  ASSUME venueU \in DOMAIN Books, NEW all, AllOk(all, venueU), current \in DOMAIN all \cup {None}, NEW known
  PROVE  /\ AllOk(Feed!Subscribe(all, known), venueU) /\ Evolves(all, Feed!Subscribe(all, known))
         /\ GoesOn(all, Feed!Subscribe(all, known))
         /\ \A e \in Nat : Ahead(all, e) /\ e <= venueU => Ahead(Feed!Subscribe(all, known), e)
<1>0. venueU \in Nat
  BY BooksFacts
<1>1. CASE current = None \/ ~known \/ all[current].phase # "open"
  <2>1. Feed!Subscribe(all, known) = all
    BY <1>1 DEF Feed!Subscribe
  <2>. QED BY <2>1 DEF Evolves, GoesOn
<1>2. CASE ~(current = None \/ ~known \/ all[current].phase # "open")
  <2>0. current \in DOMAIN all /\ all[current] \in FeedSocket /\ SocketOk(all[current], venueU)
    BY <1>2 DEF AllOk, SocketOk
  <2>1. PICK m \in Messages : m = Feed!SnapshotAt(venueU)
    BY DEF Messages
  <2>2. m.u = venueU
    BY <2>1 DEF Feed!SnapshotAt
  <2>3. PICK box : box = Append(all[current].inbox, m)
    OBVIOUS
  <2>4. /\ all[current].inbox \in Seq(Messages) /\ Orderly(all[current].inbox)
        /\ UpTo(all[current].inbox, venueU)
    BY <2>0 DEF SocketOk, FeedSocket
  <2>5. /\ box \in Seq(Messages) /\ Orderly(box) /\ UpTo(box, venueU)
        /\ \A e \in Nat : e <= venueU /\ From(all[current].inbox, e) => From(box, e)
    BY <1>0, <2>2, <2>3, <2>4, BoxAppends
  <2>6. PICK s : s = [all[current] EXCEPT !.subscribed = TRUE, !.inbox = box]
    OBVIOUS
  <2>7. s \in FeedSocket /\ s.phase = "open" /\ s.subscribed /\ s.inbox = box
    BY <1>2, <2>0, <2>5, <2>6 DEF FeedSocket
  <2>8. SocketOk(s, venueU) /\ Delivers(s)
    BY <2>5, <2>7 DEF SocketOk, Delivers
  <2>9. Feed!Subscribe(all, known) = [all EXCEPT ![current] = s]
    <3>1. s = [all[current] EXCEPT !.subscribed = TRUE,
                                   !.inbox = Append(all[current].inbox, Feed!SnapshotAt(venueU))]
      BY <2>1, <2>3, <2>6
    <3>2. Feed!Subscribe(all, known) =
            [all EXCEPT ![current] = [all[current] EXCEPT !.subscribed = TRUE,
                                        !.inbox = Append(all[current].inbox, Feed!SnapshotAt(venueU))]]
      BY <1>2, <2>0 DEF Feed!Subscribe, AllOk, FeedSocket
    <3>. QED BY <3>1, <3>2
  <2>10. \A e \in Nat : Ahead(all, e) /\ e <= venueU => From(s.inbox, e)
    BY <2>0, <2>5, <2>7 DEF Ahead
  <2>11. PICK q : q = [all EXCEPT ![current] = s]
    OBVIOUS
  <2>12. /\ AllOk(q, venueU) /\ Evolves(all, q) /\ GoesOn(all, q)
         /\ \A e \in Nat : Ahead(all, e) /\ From(s.inbox, e) => Ahead(q, e)
    BY <1>0, <1>2, <2>0, <2>8, <2>11, Replaced
  <2>. QED BY <2>9, <2>10, <2>11, <2>12
<1>. QED
  BY <1>1, <1>2

LEMMA ReadOne ==
  ASSUME NEW n \in Nat, NEW all, AllOk(all, n), NEW k \in DOMAIN all,
         all[k].phase \in {"open", "closing"}, all[k].inbox # <<>>
  PROVE  /\ AllOk([all EXCEPT ![k].inbox = Tail(@)], n)
         /\ Evolves(all, [all EXCEPT ![k].inbox = Tail(@)])
         /\ GoesOn(all, [all EXCEPT ![k].inbox = Tail(@)])
         /\ \A e \in Nat : Ahead(all, e) => Ahead([all EXCEPT ![k].inbox = Tail(@)], e)
         /\ Head(all[k].inbox) \in Messages /\ Head(all[k].inbox).u <= n
         /\ \A e \in Nat : Ahead(all, e) => e <= Head(all[k].inbox).u
         /\ Delivers(all[k])
         /\ LoneIn(all) => Ahead([all EXCEPT ![k].inbox = Tail(@)], Head(all[k].inbox).u)
<1>0. /\ all[k] \in FeedSocket /\ SocketOk(all[k], n) /\ all[k].inbox \in Seq(Messages)
      /\ Orderly(all[k].inbox) /\ UpTo(all[k].inbox, n) /\ all[k].subscribed
  BY DEF AllOk, SocketOk, FeedSocket
<1>1. PICK box : box = Tail(all[k].inbox)
  OBVIOUS
<1>2. /\ Head(all[k].inbox) \in Messages /\ Head(all[k].inbox).u <= n
      /\ box \in Seq(Messages) /\ Orderly(box) /\ UpTo(box, n) /\ From(box, Head(all[k].inbox).u)
      /\ \A e \in Nat : From(all[k].inbox, e) => From(box, e) /\ e <= Head(all[k].inbox).u
  BY <1>0, <1>1, BoxReads
<1>3. PICK s : s = [all[k] EXCEPT !.inbox = box]
  OBVIOUS
<1>4. s \in FeedSocket /\ s.phase = all[k].phase /\ s.subscribed = all[k].subscribed /\ s.inbox = box
  BY <1>0, <1>2, <1>3 DEF FeedSocket
<1>5. SocketOk(s, n) /\ Delivers(s) /\ Delivers(all[k])
  BY <1>0, <1>2, <1>4 DEF SocketOk, Delivers
<1>6. PICK q : q = [all EXCEPT ![k] = s]
  OBVIOUS
<1>7. [all EXCEPT ![k].inbox = Tail(@)] = q
  BY <1>1, <1>3, <1>6
<1>8. AllOk(q, n) /\ Evolves(all, q) /\ GoesOn(all, q)
      /\ \A e \in Nat : Ahead(all, e) /\ From(s.inbox, e) => Ahead(q, e)
  BY <1>5, <1>6, Replaced
<1>9. \A e \in Nat : Ahead(all, e) => From(all[k].inbox, e)
  BY DEF Ahead
<1>10. ASSUME LoneIn(all) PROVE Ahead(q, Head(all[k].inbox).u)
  <2>1. all \in Seq(FeedSocket) /\ DOMAIN q = DOMAIN all /\ q[k] = s
        /\ \A j \in DOMAIN all : j # k => q[j] = all[j]
    BY <1>6 DEF AllOk
  <2>2. \A j \in DOMAIN all : j # k => all[j].inbox = <<>>
    BY <1>10 DEF LoneIn, Alive, AllOk, SocketOk
  <2>3. \A e : From(<<>>, e)
    BY DEF From
  <2>. QED BY <1>2, <1>4, <2>1, <2>2, <2>3 DEF Ahead
<1>. QED
  BY <1>2, <1>4, <1>5, <1>7, <1>8, <1>9, <1>10
-----------------------------------------------------------------------------
(***************************************************************************)
(* The invariant of the feed.                                              *)
(***************************************************************************)
FeedTypes ==
  /\ {stopped, connected, timer, blind, hasty} \subseteq BOOLEAN
  /\ current \in DOMAIN sockets \cup {None}
  /\ health \in {"EMPTY", "HEALTHY", "STALE"} /\ reason \in {None, "gap", "crossed", "closed"}
  /\ lastU \in -1 .. Len(Books) /\ venueU \in DOMAIN Books
  /\ emitted = None \/ emitted.u \in DOMAIN Books

(* Messages are genuine, in order, and on subscribed connections only. *)
FeedSockets == AllOk(sockets, venueU)

FeedExact == health = "HEALTHY" => lastU \in DOMAIN Books /\ levels = Books[lastU]
FeedFed   == health = "HEALTHY" => \E k \in DOMAIN sockets : Delivers(sockets[k])

(* One connection at a time, and the timer runs only when there is none. *)
FeedLone == ~hasty => LoneIn(sockets) /\ (timer => Alive(sockets) = {})

(* What waits in the inboxes is no older than what was emitted. *)
FeedAhead == emitted # None =>
  /\ emitted.u \in 1 .. venueU /\ emitted = [u |-> emitted.u, levels |-> Books[emitted.u]]
  /\ ~hasty => Ahead(sockets, emitted.u)

FeedInv == FeedTypes /\ FeedSockets /\ FeedExact /\ FeedFed /\ FeedLone /\ FeedAhead

(* What the callbacks that do not touch the book leave to show.            *)
LEMMA BookStays ==
  ASSUME FeedInv, FeedTypes', FeedSockets', UNCHANGED <<levels, emitted, lastU, venueU>>,
         health' = health \/ health' # "HEALTHY",
         GoesOn(sockets, sockets') \/ health' # "HEALTHY",
         DOMAIN sockets \subseteq DOMAIN sockets', ~hasty' => ~hasty, FeedLone',
         \A e \in Nat : e <= venueU /\ Ahead(sockets, e) => Ahead(sockets', e)
  PROVE  FeedInv'
<1>1. FeedExact'
  BY DEF FeedInv, FeedExact
<1>2. FeedFed'
  BY DEF FeedInv, FeedFed, GoesOn
<1>3. FeedAhead'
  <2>1. ASSUME emitted # None
        PROVE  /\ emitted.u \in 1 .. venueU /\ emitted = [u |-> emitted.u, levels |-> Books[emitted.u]]
               /\ ~hasty' => Ahead(sockets', emitted.u)
    BY <2>1 DEF FeedInv, FeedAhead
  <2>. QED BY <2>1 DEF FeedAhead
<1>. QED
  BY <1>1, <1>2, <1>3 DEF FeedInv

LEMMA OpensOne ==
  ASSUME FeedInv, Feed!Open, venueU' = venueU
  PROVE  /\ FeedSockets' /\ current' \in DOMAIN sockets' /\ GoesOn(sockets, sockets')
         /\ DOMAIN sockets \subseteq DOMAIN sockets'
         /\ \A e \in Nat : Ahead(sockets, e) => Ahead(sockets', e)
         /\ Alive(sockets) = {} => LoneIn(sockets')
<1>0. sockets \in Seq(FeedSocket) /\ venueU \in Nat
  BY BooksFacts DEF FeedInv, FeedSockets, AllOk, FeedTypes
<1>1. PICK s : s = [phase |-> "connecting", subscribed |-> FALSE, inbox |-> <<>>]
  OBVIOUS
<1>2. s \in FeedSocket /\ s.phase = "connecting" /\ s.inbox = <<>>
  <2>1. <<>> \in Seq(Messages)
    OBVIOUS
  <2>. QED BY <1>1, <2>1 DEF FeedSocket
<1>3. \A e : From(s.inbox, e)
  BY <1>2 DEF From
<1>4. SocketOk(s, venueU)
  BY <1>2 DEF SocketOk, Orderly, UpTo
<1>5. sockets' = Append(sockets, s) /\ current' = Len(sockets) + 1
  BY <1>1 DEF Feed!Open, Feed!NewSocket
<1>6. PICK l \in Nat : l = Len(sockets) /\ DOMAIN sockets = 1 .. l
  BY <1>0
<1>7. /\ sockets' \in Seq(FeedSocket) /\ DOMAIN sockets' = 1 .. (l + 1) /\ sockets'[l + 1] = s
      /\ \A k \in 1 .. l : sockets'[k] = sockets[k]
  BY <1>0, <1>2, <1>5, <1>6
<1>8. FeedSockets'
  <2>1. \A k \in 1 .. (l + 1) : k \in 1 .. l \/ k = l + 1
    OBVIOUS
  <2>2. \A k \in 1 .. (l + 1) : SocketOk(sockets'[k], venueU)
    BY <1>4, <1>6, <1>7, <2>1 DEF FeedInv, FeedSockets, AllOk
  <2>. QED BY <1>7, <2>2 DEF FeedSockets, AllOk
<1>9. GoesOn(sockets, sockets')
  BY <1>6, <1>7 DEF GoesOn
<1>10. ASSUME NEW e \in Nat, Ahead(sockets, e) PROVE Ahead(sockets', e)
  BY <1>3, <1>6, <1>7, <1>10 DEF Ahead
<1>11. ASSUME Alive(sockets) = {} PROVE LoneIn(sockets')
  <2>1. Alive(sockets') \subseteq {l + 1}
    BY <1>6, <1>7, <1>11 DEF Alive
  <2>. QED BY <2>1 DEF LoneIn
<1>. QED
  BY <1>5, <1>6, <1>7, <1>8, <1>9, <1>10, <1>11

LEMMA FewerAlive ==
  ASSUME FeedInv, Alive(sockets') \subseteq Alive(sockets), hasty' = hasty,
         timer' = timer \/ ~timer' \/ Alive(sockets') = {}
  PROVE  FeedLone'
  BY DEF FeedInv, FeedTypes, FeedLone, LoneIn

(* What a delivery does to the book. *)
LEMMA DeliveryApplies ==
  ASSUME FeedInv, NEW m \in Messages, m.u <= venueU,
         \/ m.type = "snapshot" /\ Feed!ApplySnapshot(m)
         \/ m.type = "delta" /\ Feed!ApplyDelta(m)
  PROVE  /\ health' \in {"EMPTY", "HEALTHY", "STALE"} /\ reason' \in {None, "gap", "crossed", "closed"}
         /\ lastU' \in -1 .. Len(Books)
         /\ health' = "HEALTHY" => lastU' \in DOMAIN Books /\ levels' = Books[lastU']
         /\ emitted' = emitted \/ emitted' = [u |-> m.u, levels |-> Books[m.u]]
<1>0. /\ m.u \in DOMAIN Books /\ m.u \in Nat /\ DOMAIN Books = 1 .. Len(Books) /\ Len(Books) \in Nat
      /\ lastU \in Int
  BY MessageFacts, BooksFacts DEF FeedInv, FeedTypes
<1>1. ASSUME Feed!Validated(m.u, Books[m.u])
      PROVE  /\ health' \in {"EMPTY", "HEALTHY", "STALE"} /\ reason' \in {None, "gap", "crossed", "closed"}
             /\ lastU' \in -1 .. Len(Books)
             /\ health' = "HEALTHY" => lastU' \in DOMAIN Books /\ levels' = Books[lastU']
             /\ emitted' = emitted \/ emitted' = [u |-> m.u, levels |-> Books[m.u]]
  BY <1>0, <1>1 DEF Feed!Validated, Feed!MarkStale
<1>2. CASE m.type = "snapshot"
  <2>1. Feed!Validated(m.u, Books[m.u])
    BY <1>2, MessageFacts DEF Feed!ApplySnapshot
  <2>. QED BY <1>1, <2>1
<1>3. CASE m.type = "delta"
  <2>1. CASE Feed!Applies(m) /\ Feed!Validated(m.u, (levels \ m.removed) \cup m.set)
    <3>1. levels = Books[m.u - 1]
      BY <1>0, <2>1 DEF Feed!Applies, FeedInv, FeedExact
    <3>2. Feed!Validated(m.u, Books[m.u])
      BY <1>3, <2>1, <3>1, MessageFacts
    <3>. QED BY <1>1, <3>2
  <2>2. CASE Feed!MarkStale("gap") /\ UNCHANGED <<lastU, levels, emitted>>
    BY <2>2 DEF Feed!MarkStale, FeedInv, FeedTypes
  <2>3. CASE UNCHANGED <<health, reason, lastU, levels, emitted>>
    BY <2>3 DEF FeedInv, FeedTypes, FeedExact
  <2>. QED BY <1>3, <2>1, <2>2, <2>3 DEF Feed!ApplyDelta, Feed!bookVars
<1>. QED
  BY <1>2, <1>3

LEMMA FeedDelivers ==
  ASSUME FeedInv, NEW k \in DOMAIN sockets, Feed!Deliver(k)
  PROVE  FeedInv' /\ Feed!BookAdvances
<1>0. AllOk(sockets, venueU) /\ venueU \in Nat /\ venueU \in DOMAIN Books
  BY BooksFacts DEF FeedInv, FeedSockets, FeedTypes
<1>1. PICK m : m = Head(sockets[k].inbox)
  OBVIOUS
<1>2. PICK rest : rest = [sockets EXCEPT ![k].inbox = Tail(@)]
  OBVIOUS
<1>3. sockets[k].phase \in {"open", "closing"} /\ sockets[k].inbox # <<>>
  BY DEF Feed!Deliver, Feed!Readable
<1>4. /\ m \in Messages /\ m.u <= venueU /\ Delivers(sockets[k])
      /\ \A e \in Nat : Ahead(sockets, e) => e <= m.u
      /\ LoneIn(sockets) => Ahead(rest, m.u)
      /\ \A e \in Nat : Ahead(sockets, e) => Ahead(rest, e)
      /\ AllOk(rest, venueU) /\ Evolves(sockets, rest) /\ GoesOn(sockets, rest)
  BY <1>0, <1>1, <1>2, <1>3, ReadOne
<1>5. /\ \/ m.type = "snapshot" /\ Feed!ApplySnapshot(m) /\ sockets' = rest
         \/ m.type = "delta" /\ Feed!ApplyDelta(m)
            /\ sockets' = IF Feed!Gap(m) THEN Feed!Subscribe(rest, connected) ELSE rest
      /\ UNCHANGED <<stopped, connected, current, timer, venueU, starts, drops, losses, blind, hasty>>
  BY <1>1, <1>2 DEF Feed!Deliver, Feed!feedVars, Feed!boundVars
<1>6. current \in DOMAIN rest \cup {None}
  BY <1>4 DEF FeedInv, FeedTypes, Evolves
<1>7. /\ AllOk(sockets', venueU) /\ Evolves(sockets, sockets') /\ GoesOn(sockets, sockets')
      /\ \A e \in Nat : Ahead(rest, e) /\ e <= venueU => Ahead(sockets', e)
  <2>1. CASE sockets' = rest
    BY <1>4, <2>1
  <2>2. CASE sockets' = Feed!Subscribe(rest, connected)
    <3>1. /\ AllOk(sockets', venueU) /\ Evolves(rest, sockets') /\ GoesOn(rest, sockets')
          /\ \A e \in Nat : Ahead(rest, e) /\ e <= venueU => Ahead(sockets', e)
      BY <1>0, <1>4, <1>6, <2>2, Subscribed
    <3>. QED BY <1>4, <3>1 DEF Evolves, GoesOn
  <2>. QED BY <1>5, <2>1, <2>2
<1>8. /\ health' \in {"EMPTY", "HEALTHY", "STALE"} /\ reason' \in {None, "gap", "crossed", "closed"}
      /\ lastU' \in -1 .. Len(Books)
      /\ health' = "HEALTHY" => lastU' \in DOMAIN Books /\ levels' = Books[lastU']
      /\ emitted' = emitted \/ emitted' = [u |-> m.u, levels |-> Books[m.u]]
  BY <1>4, <1>5, DeliveryApplies
<1>9. m.u \in DOMAIN Books /\ m.u \in Nat /\ m.u \in 1 .. venueU
  BY <1>0, <1>4, MessageFacts, BooksFacts
<1>10. FeedTypes'
  BY <1>5, <1>7, <1>8, <1>9 DEF FeedInv, FeedTypes, Evolves
<1>11. FeedSockets' /\ FeedExact'
  BY <1>5, <1>7, <1>8 DEF FeedSockets, FeedExact
<1>12. FeedFed'
  BY <1>4, <1>7 DEF FeedFed, GoesOn, Evolves
<1>13. FeedLone'
  BY <1>5, <1>7, FewerAlive DEF Evolves
<1>14. FeedAhead'
  <2>1. CASE emitted' = emitted
    <3>1. ASSUME emitted # None
          PROVE  /\ emitted.u \in 1 .. venueU /\ emitted = [u |-> emitted.u, levels |-> Books[emitted.u]]
                 /\ ~hasty => Ahead(sockets', emitted.u)
      <4>1. emitted.u \in 1 .. venueU /\ emitted = [u |-> emitted.u, levels |-> Books[emitted.u]]
            /\ (~hasty => Ahead(sockets, emitted.u))
        BY <3>1 DEF FeedInv, FeedAhead
      <4>2. emitted.u \in Nat /\ emitted.u <= venueU
        BY <1>0, <4>1
      <4>. QED BY <1>4, <1>7, <4>1, <4>2
    <3>. QED BY <1>5, <2>1, <3>1 DEF FeedAhead
  <2>2. CASE emitted' = [u |-> m.u, levels |-> Books[m.u]]
    <3>1. ~hasty => Ahead(sockets', m.u)
      BY <1>4, <1>7, <1>9 DEF FeedInv, FeedLone
    <3>2. emitted'.u = m.u
      BY <2>2
    <3>. QED BY <1>5, <1>9, <2>2, <3>1, <3>2 DEF FeedAhead
  <2>. QED BY <1>8, <2>1, <2>2
<1>15. Feed!BookAdvances
  <2>1. SUFFICES ASSUME emitted # None, emitted' # emitted, ~hasty PROVE emitted'.u > emitted.u
    BY DEF Feed!BookAdvances
  <2>2. emitted' = [u |-> m.u, levels |-> Books[m.u]] /\ emitted'.u = m.u
    BY <1>8, <2>1
  <2>3. emitted.u \in 1 .. venueU /\ emitted = [u |-> emitted.u, levels |-> Books[emitted.u]]
        /\ Ahead(sockets, emitted.u)
    BY <2>1 DEF FeedInv, FeedAhead
  <2>4. emitted.u \in Nat /\ emitted.u <= m.u
    BY <1>0, <1>4, <2>3
  <2>5. emitted.u # m.u
    BY <2>1, <2>2, <2>3
  <2>. QED BY <1>9, <2>2, <2>4, <2>5
<1>. QED
  BY <1>10, <1>11, <1>12, <1>13, <1>14, <1>15 DEF FeedInv

LEMMA FeedCloses ==
  ASSUME FeedInv, NEW k \in DOMAIN sockets, Feed!SocketCloses(k)
  PROVE  FeedInv'
<1>0. AllOk(sockets, venueU) /\ venueU \in Nat /\ sockets[k].phase # "closed"
  BY BooksFacts DEF FeedInv, FeedSockets, FeedTypes, Feed!SocketCloses
<1>1. PICK s : s = [Feed!NewSocket EXCEPT !.phase = "closed"]
  OBVIOUS
<1>2. s \in FeedSocket /\ s.phase = "closed" /\ s.inbox = <<>>
  <2>1. <<>> \in Seq(Messages)
    OBVIOUS
  <2>. QED BY <1>1, <2>1 DEF FeedSocket, Feed!NewSocket
<1>3. SocketOk(s, venueU) /\ \A e : From(s.inbox, e)
  BY <1>2 DEF SocketOk, Orderly, UpTo, From
<1>4. sockets' = [sockets EXCEPT ![k] = s]
  BY <1>1 DEF Feed!SocketCloses
<1>5. /\ AllOk(sockets', venueU) /\ Evolves(sockets, sockets')
      /\ \A e \in Nat : Ahead(sockets, e) => Ahead(sockets', e)
  <2>1. PICK q : q = [sockets EXCEPT ![k] = s]
    OBVIOUS
  <2>2. /\ AllOk(q, venueU) /\ Evolves(sockets, q)
        /\ \A e \in Nat : Ahead(sockets, e) /\ From(s.inbox, e) => Ahead(q, e)
    BY <1>0, <1>2, <1>3, <2>1, Replaced
  <2>. QED BY <1>3, <1>4, <2>1, <2>2
<1>6. /\ connected' = FALSE /\ timer' = (timer \/ ~stopped) /\ blind' = FALSE
      /\ UNCHANGED <<stopped, current, lastU, levels, emitted, venueU, hasty>>
      /\ \/ health = "EMPTY" /\ UNCHANGED <<health, reason>>
         \/ health' = "STALE" /\ reason' = "closed"
  BY DEF Feed!SocketCloses, Feed!Invalidate, Feed!MarkStale
<1>7. FeedTypes'
  BY <1>5, <1>6 DEF FeedInv, FeedTypes, Evolves
<1>8. FeedSockets'
  BY <1>5, <1>6 DEF FeedSockets
<1>9. FeedLone'
  <2>1. ASSUME ~hasty PROVE LoneIn(sockets') /\ Alive(sockets') = {}
    <3>1. Alive(sockets) = {k}
      BY <1>0, <2>1 DEF FeedInv, FeedLone, LoneIn, Alive
    <3>2. k \notin Alive(sockets')
      BY <1>0, <1>2, <1>4 DEF Alive, AllOk
    <3>. QED BY <1>5, <3>1, <3>2 DEF Evolves, LoneIn
  <2>. QED BY <1>6, <2>1 DEF FeedLone
<1>10. health' # "HEALTHY" /\ DOMAIN sockets \subseteq DOMAIN sockets'
  BY <1>5, <1>6 DEF Evolves
<1>. QED
  BY <1>5, <1>6, <1>7, <1>8, <1>9, <1>10, BookStays

LEMMA FeedUpdates ==
  ASSUME FeedInv, Feed!VenueUpdates
  PROVE  FeedInv'
<1>0. /\ sockets \in Seq(FeedSocket) /\ venueU \in Nat \ {0} /\ venueU' = venueU + 1
      /\ AllOk(sockets, venueU)
      /\ venueU' \in DOMAIN Books \ {1}
  BY BooksFacts DEF FeedInv, FeedSockets, AllOk, FeedTypes, Feed!VenueUpdates
<1>1. PICK m \in Messages : m = Feed!DeltaAt(venueU + 1)
  BY <1>0 DEF Messages
<1>2. m.u = venueU + 1
  BY <1>1 DEF Feed!DeltaAt
<1>3. ASSUME NEW k \in DOMAIN sockets
      PROVE  /\ SocketOk(sockets'[k], venueU') /\ sockets'[k].phase = sockets[k].phase
             /\ sockets'[k].subscribed = sockets[k].subscribed
             /\ \A e \in Nat : e <= venueU /\ From(sockets[k].inbox, e) => From(sockets'[k].inbox, e)
  <2>0. /\ SocketOk(sockets[k], venueU) /\ sockets[k] \in FeedSocket /\ sockets[k].inbox \in Seq(Messages)
        /\ Orderly(sockets[k].inbox) /\ UpTo(sockets[k].inbox, venueU)
    BY <1>0 DEF AllOk, SocketOk, FeedSocket
  <2>1. CASE sockets[k].phase = "open" /\ sockets[k].subscribed
    <3>1. sockets'[k] = [sockets[k] EXCEPT !.inbox = Append(sockets[k].inbox, m)]
      BY <1>1, <2>1 DEF Feed!VenueUpdates, Feed!SocketIds
    <3>2. PICK box : box = Append(sockets[k].inbox, m)
      OBVIOUS
    <3>3. /\ box \in Seq(Messages) /\ Orderly(box) /\ UpTo(box, m.u)
          /\ \A e \in Nat : e <= venueU /\ From(sockets[k].inbox, e) => From(box, e)
      BY <1>0, <1>2, <2>0, <3>2, BoxAppends
    <3>4. sockets'[k].inbox = box /\ sockets'[k].phase = "open" /\ sockets'[k].subscribed
          /\ sockets'[k] \in FeedSocket
      BY <2>0, <2>1, <3>1, <3>2, <3>3 DEF FeedSocket
    <3>5. sockets'[k].subscribed = sockets[k].subscribed
      BY <2>0, <3>1 DEF FeedSocket
    <3>. QED BY <1>0, <1>2, <2>1, <3>3, <3>4, <3>5 DEF SocketOk
  <2>2. CASE ~(sockets[k].phase = "open" /\ sockets[k].subscribed)
    <3>1. sockets'[k] = sockets[k]
      BY <2>2 DEF Feed!VenueUpdates, Feed!SocketIds
    <3>2. \A i \in DOMAIN sockets[k].inbox : sockets[k].inbox[i].u \in Nat
      BY <2>0, MessageFacts
    <3>3. UpTo(sockets[k].inbox, venueU')
      BY <1>0, <2>0, <3>2 DEF UpTo
    <3>. QED BY <2>0, <3>1, <3>3 DEF SocketOk
  <2>. QED BY <2>1, <2>2
<1>4. DOMAIN sockets' = DOMAIN sockets
  BY DEF Feed!VenueUpdates, Feed!SocketIds
<1>5. sockets' \in Seq(FeedSocket)
  <2>1. PICK l \in Nat : l = Len(sockets) /\ DOMAIN sockets = 1 .. l
    BY <1>0
  <2>2. sockets' \in [1 .. l -> FeedSocket]
    <3>1. \A k \in 1 .. l : sockets'[k] \in FeedSocket
      BY <1>3, <2>1 DEF SocketOk
    <3>2. sockets' = [k \in 1 .. l |-> sockets'[k]]
      BY <2>1 DEF Feed!VenueUpdates, Feed!SocketIds
    <3>. QED BY <3>1, <3>2
  <2>. QED BY <2>2, <2>1
<1>6. FeedSockets'
  BY <1>3, <1>4, <1>5 DEF FeedSockets, AllOk
<1>7. /\ UNCHANGED <<stopped, connected, current, timer, health, reason, lastU, levels, emitted, blind, hasty>>
  BY DEF Feed!VenueUpdates, Feed!feedVars, Feed!bookVars, Feed!boundVars
<1>8. FeedTypes' /\ FeedExact'
  BY <1>0, <1>4, <1>7 DEF FeedInv, FeedTypes, FeedExact
<1>9. FeedFed'
  BY <1>3, <1>4, <1>7 DEF FeedInv, FeedFed, Delivers
<1>10. FeedLone'
  <2>1. Alive(sockets') \subseteq Alive(sockets)
    BY <1>3, <1>4 DEF Alive
  <2>. QED BY <1>7, <2>1, FewerAlive
<1>11. FeedAhead'
  <2>1. ASSUME emitted # None
        PROVE  /\ emitted.u \in 1 .. venueU' /\ emitted = [u |-> emitted.u, levels |-> Books[emitted.u]]
               /\ ~hasty => Ahead(sockets', emitted.u)
    <3>1. emitted.u \in 1 .. venueU /\ emitted = [u |-> emitted.u, levels |-> Books[emitted.u]]
          /\ (~hasty => Ahead(sockets, emitted.u))
      BY <2>1 DEF FeedInv, FeedAhead
    <3>2. emitted.u \in Nat /\ emitted.u <= venueU /\ emitted.u \in 1 .. venueU'
      BY <1>0, <3>1
    <3>3. ~hasty => Ahead(sockets', emitted.u)
      BY <1>3, <1>4, <3>1, <3>2 DEF Ahead
    <3>. QED BY <3>1, <3>2, <3>3
  <2>. QED BY <1>7, <2>1 DEF FeedAhead
<1>. QED
  BY <1>6, <1>8, <1>9, <1>10, <1>11 DEF FeedInv

LEMMA FeedSteps ==
  ASSUME FeedInv, Feed!Next
  PROVE  FeedInv' /\ Feed!BookAdvances
<1>. USE DEF Feed!feedVars, Feed!bookVars, Feed!boundVars
<1>0. /\ AllOk(sockets, venueU) /\ venueU \in Nat /\ venueU \in DOMAIN Books
      /\ current \in DOMAIN sockets \cup {None}
  BY BooksFacts DEF FeedInv, FeedSockets, FeedTypes
<1>1. CASE Feed!Start
  <2>1. Feed!Open /\ venueU' = venueU
        /\ hasty' = (hasty \/ timer \/ \E k \in DOMAIN sockets : sockets[k].phase # "closed")
        /\ stopped' = FALSE /\ UNCHANGED <<connected, timer, health, reason, lastU, levels, emitted, blind>>
    BY <1>1 DEF Feed!Start, Feed!SocketIds
  <2>2. /\ FeedSockets' /\ current' \in DOMAIN sockets' /\ GoesOn(sockets, sockets')
        /\ DOMAIN sockets \subseteq DOMAIN sockets'
        /\ \A e \in Nat : Ahead(sockets, e) => Ahead(sockets', e)
        /\ Alive(sockets) = {} => LoneIn(sockets')
    BY <2>1, OpensOne
  <2>3. hasty' \in BOOLEAN /\ (~hasty' => ~hasty /\ ~timer /\ Alive(sockets) = {})
    BY <2>1 DEF FeedInv, FeedTypes, Alive
  <2>4. FeedTypes'
    BY <2>1, <2>2, <2>3 DEF FeedInv, FeedTypes
  <2>5. FeedLone'
    BY <2>1, <2>2, <2>3 DEF FeedLone
  <2>6. FeedInv'
    BY <2>1, <2>2, <2>3, <2>4, <2>5, BookStays
  <2>. QED BY <2>1, <2>6 DEF Feed!BookAdvances
<1>2. CASE Feed!Stop
  <2>1. /\ stopped' = TRUE /\ timer' = FALSE /\ connected' = FALSE
        /\ sockets' = Feed!Close(sockets, current) /\ current' = None
        /\ UNCHANGED <<health, reason, lastU, levels, emitted, venueU, blind, hasty>>
    BY <1>2 DEF Feed!Stop
  <2>2. /\ AllOk(sockets', venueU) /\ Evolves(sockets, sockets') /\ GoesOn(sockets, sockets')
        /\ \A e \in Nat : Ahead(sockets, e) => Ahead(sockets', e)
    BY <1>0, <2>1, Closed
  <2>3. FeedTypes' /\ FeedSockets' /\ DOMAIN sockets \subseteq DOMAIN sockets'
    BY <2>1, <2>2 DEF FeedInv, FeedTypes, FeedSockets, Evolves
  <2>4. FeedLone'
    BY <2>1, <2>2, FewerAlive DEF Evolves
  <2>5. FeedInv'
    BY <2>1, <2>2, <2>3, <2>4, BookStays
  <2>. QED BY <2>1, <2>5 DEF Feed!BookAdvances
<1>3. CASE Feed!TimerFires
  <2>1. Feed!Open /\ venueU' = venueU /\ timer /\ timer' = FALSE
        /\ UNCHANGED <<stopped, connected, health, reason, lastU, levels, emitted, blind, hasty>>
    BY <1>3 DEF Feed!TimerFires
  <2>2. /\ FeedSockets' /\ current' \in DOMAIN sockets' /\ GoesOn(sockets, sockets')
        /\ DOMAIN sockets \subseteq DOMAIN sockets'
        /\ \A e \in Nat : Ahead(sockets, e) => Ahead(sockets', e)
        /\ Alive(sockets) = {} => LoneIn(sockets')
    BY <2>1, OpensOne
  <2>3. FeedTypes'
    BY <2>1, <2>2 DEF FeedInv, FeedTypes
  <2>4. FeedLone'
    BY <2>1, <2>2 DEF FeedInv, FeedLone
  <2>5. FeedInv'
    BY <2>1, <2>2, <2>3, <2>4, BookStays
  <2>. QED BY <2>1, <2>5 DEF Feed!BookAdvances
<1>4. ASSUME NEW k \in DOMAIN sockets, Feed!SocketOpens(k) PROVE FeedInv' /\ Feed!BookAdvances
  <2>1. /\ sockets[k].phase = "connecting" /\ connected' = TRUE
        /\ sockets' = Feed!Subscribe([sockets EXCEPT ![k].phase = "open"], TRUE)
        /\ UNCHANGED <<stopped, current, timer, health, reason, lastU, levels, emitted, venueU, blind, hasty>>
    BY <1>4 DEF Feed!SocketOpens
  <2>2. SocketOk(sockets[k], venueU) /\ sockets[k] \in FeedSocket
    BY <1>0 DEF AllOk, SocketOk
  <2>3. PICK s : s = [sockets[k] EXCEPT !.phase = "open"]
    OBVIOUS
  <2>4. s \in FeedSocket /\ s.phase = "open" /\ s.inbox = sockets[k].inbox
    BY <2>2, <2>3 DEF FeedSocket
  <2>5. SocketOk(s, venueU) /\ ~Delivers(sockets[k])
    BY <2>1, <2>2, <2>4 DEF SocketOk, Delivers
  <2>6. PICK q : q = [sockets EXCEPT ![k] = s]
    OBVIOUS
  <2>7. /\ AllOk(q, venueU) /\ Evolves(sockets, q) /\ GoesOn(sockets, q)
        /\ \A e \in Nat : Ahead(sockets, e) /\ From(s.inbox, e) => Ahead(q, e)
    BY <1>0, <2>1, <2>5, <2>6, Replaced
  <2>8. [sockets EXCEPT ![k].phase = "open"] = q
    BY <2>3, <2>6
  <2>9. current \in DOMAIN q \cup {None}
    BY <1>0, <2>7 DEF Evolves
  <2>10. /\ AllOk(sockets', venueU) /\ Evolves(q, sockets') /\ GoesOn(q, sockets')
         /\ \A e \in Nat : Ahead(q, e) /\ e <= venueU => Ahead(sockets', e)
    BY <1>0, <2>1, <2>7, <2>8, <2>9, Subscribed
  <2>11. \A e \in Nat : e <= venueU /\ Ahead(sockets, e) => Ahead(sockets', e)
    BY <2>4, <2>7, <2>10 DEF Ahead
  <2>12. Evolves(sockets, sockets') /\ GoesOn(sockets, sockets')
    BY <2>7, <2>10 DEF Evolves, GoesOn
  <2>13. FeedTypes' /\ FeedSockets' /\ DOMAIN sockets \subseteq DOMAIN sockets'
    BY <2>1, <2>10, <2>12 DEF FeedInv, FeedTypes, FeedSockets, Evolves
  <2>14. FeedLone'
    BY <2>1, <2>12, FewerAlive DEF Evolves
  <2>15. FeedInv'
    BY <2>1, <2>11, <2>12, <2>13, <2>14, BookStays
  <2>. QED BY <2>1, <2>15 DEF Feed!BookAdvances
<1>5. ASSUME NEW k \in DOMAIN sockets, Feed!Deliver(k) PROVE FeedInv' /\ Feed!BookAdvances
  BY <1>5, FeedDelivers
<1>6. ASSUME NEW k \in DOMAIN sockets, Feed!SocketCloses(k) PROVE FeedInv' /\ Feed!BookAdvances
  <2>1. emitted' = emitted
    BY <1>6 DEF Feed!SocketCloses
  <2>. QED BY <1>6, <2>1, FeedCloses DEF Feed!BookAdvances
<1>7. ASSUME NEW k \in DOMAIN sockets, Feed!SocketErrors(k) PROVE FeedInv' /\ Feed!BookAdvances
  <2>1. /\ sockets' = Feed!Close(sockets, k)
        /\ UNCHANGED <<stopped, connected, current, timer, health, reason, lastU, levels, emitted, venueU, blind, hasty>>
    BY <1>7 DEF Feed!SocketErrors
  <2>2. /\ AllOk(sockets', venueU) /\ Evolves(sockets, sockets') /\ GoesOn(sockets, sockets')
        /\ \A e \in Nat : Ahead(sockets, e) => Ahead(sockets', e)
    BY <1>0, <2>1, Closed
  <2>3. FeedTypes' /\ FeedSockets' /\ DOMAIN sockets \subseteq DOMAIN sockets'
    BY <2>1, <2>2 DEF FeedInv, FeedTypes, FeedSockets, Evolves
  <2>4. FeedLone'
    BY <2>1, <2>2, FewerAlive DEF Evolves
  <2>5. FeedInv'
    BY <2>1, <2>2, <2>3, <2>4, BookStays
  <2>. QED BY <2>1, <2>5 DEF Feed!BookAdvances
<1>8. ASSUME NEW k \in DOMAIN sockets, Feed!DropInvalid(k) PROVE FeedInv' /\ Feed!BookAdvances
  <2>1. /\ sockets' = [sockets EXCEPT ![k].inbox = Tail(@)]
        /\ sockets[k].phase \in {"open", "closing"} /\ sockets[k].inbox # <<>>
        /\ blind' = (blind \/ Head(sockets[k].inbox).type = "snapshot")
        /\ UNCHANGED <<stopped, connected, current, timer, health, reason, lastU, levels, emitted, venueU, hasty>>
    BY <1>8 DEF Feed!DropInvalid, Feed!Readable
  <2>2. /\ AllOk(sockets', venueU) /\ Evolves(sockets, sockets') /\ GoesOn(sockets, sockets')
        /\ \A e \in Nat : Ahead(sockets, e) => Ahead(sockets', e)
    BY <1>0, <2>1, ReadOne
  <2>3. blind' \in BOOLEAN
    BY <2>1 DEF FeedInv, FeedTypes
  <2>4. FeedTypes' /\ FeedSockets' /\ DOMAIN sockets \subseteq DOMAIN sockets'
    BY <2>1, <2>2, <2>3 DEF FeedInv, FeedTypes, FeedSockets, Evolves
  <2>5. FeedLone'
    BY <2>1, <2>2, FewerAlive DEF Evolves
  <2>6. FeedInv'
    BY <2>1, <2>2, <2>4, <2>5, BookStays
  <2>. QED BY <2>1, <2>6 DEF Feed!BookAdvances
<1>9. CASE Feed!VenueUpdates
  <2>1. emitted' = emitted
    BY <1>9 DEF Feed!VenueUpdates
  <2>. QED BY <1>9, <2>1, FeedUpdates DEF Feed!BookAdvances
<1>. QED
  BY <1>1, <1>2, <1>3, <1>4, <1>5, <1>6, <1>7, <1>8, <1>9
  DEF Feed!Next, Feed!SocketStep, Feed!Fault, Feed!SocketIds
-----------------------------------------------------------------------------
(***************************************************************************)
(* The account stream.                                                     *)
(***************************************************************************)
PrivSocket == [phase : {"connecting", "open", "closing", "closed"},
               answer : {"none", "success", "failure"},
               login : {"none", "asked", "granted", "refused"},
               grants : SUBSET {"set_dcp", "subscribe"},
               dcp : {"no", "refused", "armed"},
               subscribed : {"no", "refused", "bare", "taken"}]

(* The venue was asked for no subscription before it was for the switch.   *)
PrivOk(s)      == s \in PrivSocket /\ (s.subscribed # "no" => Stream!Served(s))
AllPrivOk(all) == all \in Seq(PrivSocket) /\ \A k \in DOMAIN all : PrivOk(all[k])

(* The venue granted the login it says it granted. *)
LoginOk(s) == /\ s.answer = "success" => s.login = "granted"
              /\ s.phase = "connecting" => s.answer = "none"

(* How a connection stands after the venue's answer to a login. *)
Answered(socket, s) ==
  \/ s = [socket EXCEPT !.login = "refused", !.answer = "failure"]
  \/ \E g \in SUBSET {"set_dcp", "subscribe"} :
       s = [socket EXCEPT !.login = "granted", !.answer = "success", !.grants = g]

StreamTypes ==
  /\ state \in {"DISCONNECTED", "CONNECTING", "AUTHENTICATING", "READY", "ERROR"}
  /\ {stopped, authRejected, timer, hasty} \subseteq BOOLEAN
  /\ current \in DOMAIN sockets \cup {None}

(* One connection at a time, which is the current one until it closes; the *)
(* timer runs only when there is none, and not after a rejected login.     *)
StreamLone == ~hasty =>
  /\ LoneIn(sockets)
  /\ timer => Alive(sockets) = {} /\ ~authRejected
  /\ \A k \in DOMAIN sockets : sockets[k].phase \in {"connecting", "open"} => current = k

StreamLogins == ~hasty => \A k \in DOMAIN sockets : LoginOk(sockets[k])

StreamReady == state = "READY" /\ ~hasty =>
  \E k \in DOMAIN sockets : sockets[k].phase = "closing" \/ Stream!Served(sockets[k])

StreamInv == StreamTypes /\ AllPrivOk(sockets) /\ StreamLone /\ StreamLogins /\ StreamReady

(* No connection comes back, or goes back from closing. *)
PrivStep(all, q) ==
  /\ Evolves(all, q)
  /\ \A k \in DOMAIN all : q[k].phase \in {"connecting", "open"} =>
                             all[k].phase \in {"connecting", "open"}

LEMMA PrivReplaced ==
  ASSUME NEW all, AllPrivOk(all), NEW k \in DOMAIN all, NEW s, PrivOk(s),
         NEW q, q = [all EXCEPT ![k] = s]
  PROVE  /\ AllPrivOk(q) /\ DOMAIN q = DOMAIN all /\ q[k] = s
         /\ \A j \in DOMAIN all : j # k => q[j] = all[j]
<1>1. all \in Seq(PrivSocket) /\ s \in PrivSocket
  BY DEF AllPrivOk, PrivOk
<1>2. q \in Seq(PrivSocket)
  BY <1>1, ExceptSeq
<1>3. DOMAIN q = DOMAIN all /\ q[k] = s /\ \A j \in DOMAIN all : j # k => q[j] = all[j]
  BY <1>1
<1>4. AllPrivOk(q)
  BY <1>2, <1>3 DEF AllPrivOk
<1>. QED
  BY <1>3, <1>4

LEMMA PrivStepOf ==
  ASSUME NEW all, NEW k \in DOMAIN all, NEW q, DOMAIN q = DOMAIN all,
         \A j \in DOMAIN all : j # k => q[j] = all[j],
         q[k].phase # "closed" => all[k].phase # "closed",
         q[k].phase \in {"connecting", "open"} => all[k].phase \in {"connecting", "open"}
  PROVE  PrivStep(all, q)
BY DEF PrivStep, Evolves, Alive

LEMMA PrivClosed ==
  ASSUME NEW all, AllPrivOk(all), NEW k \in DOMAIN all \cup {None}, NEW q, q = Stream!Close(all, k)
  PROVE  /\ AllPrivOk(q) /\ PrivStep(all, q)
         /\ (\A j \in DOMAIN all : LoginOk(all[j])) => (\A j \in DOMAIN q : LoginOk(q[j]))
         /\ k # None => q[k].phase \in {"closing", "closed"}
<1>1. CASE k = None \/ all[k].phase = "closed"
  <2>1. q = all
    BY <1>1 DEF Stream!Close
  <2>. QED BY <1>1, <2>1 DEF PrivStep, Evolves
<1>2. CASE ~(k = None \/ all[k].phase = "closed")
  <2>1. k \in DOMAIN all /\ PrivOk(all[k]) /\ all[k] \in PrivSocket
    BY <1>2 DEF AllPrivOk, PrivOk
  <2>2. PICK s : s = [all[k] EXCEPT !.phase = "closing"]
    OBVIOUS
  <2>3. PrivOk(s) /\ s.phase = "closing" /\ s.answer = all[k].answer /\ s.login = all[k].login
    BY <2>1, <2>2 DEF PrivOk, PrivSocket, Stream!Served
  <2>4. PICK q1 : q1 = [all EXCEPT ![k] = s]
    OBVIOUS
  <2>5. AllPrivOk(q1) /\ DOMAIN q1 = DOMAIN all /\ q1[k] = s /\ \A j \in DOMAIN all : j # k => q1[j] = all[j]
    BY <2>1, <2>3, <2>4, PrivReplaced
  <2>7. q = q1
    BY <1>2, <2>2, <2>4 DEF Stream!Close
  <2>6. PrivStep(all, q)
    BY <1>2, <2>1, <2>3, <2>5, <2>7, PrivStepOf
  <2>. QED BY <2>1, <2>3, <2>5, <2>6, <2>7 DEF LoginOk
<1>. QED
  BY <1>1, <1>2

(* A connection takes on what the program wrote to it. *)
LEMMA AuthTaken ==
  ASSUME NEW s, PrivOk(s)
  PROVE  /\ PrivOk(Stream!Takes(s, "auth")) /\ Stream!Takes(s, "auth").phase = s.phase
         /\ Stream!Takes(s, "auth").answer = s.answer
BY DEF Stream!Takes, Stream!Served, PrivOk, PrivSocket

LEMMA SwitchTaken ==
  ASSUME NEW s, PrivOk(s)
  PROVE  /\ PrivOk(Stream!Takes(s, "set_dcp")) /\ Stream!Takes(s, "set_dcp").phase = s.phase
         /\ Stream!Takes(s, "set_dcp").answer = s.answer /\ Stream!Takes(s, "set_dcp").login = s.login
         /\ s.login = "granted" => Stream!Takes(s, "set_dcp").dcp # "no"
BY DEF Stream!Takes, Stream!Served, PrivOk, PrivSocket

LEMMA SubscriptionTaken ==
  ASSUME NEW s, PrivOk(s), s.login = "granted" => s.dcp # "no"
  PROVE  /\ PrivOk(Stream!Takes(s, "subscribe")) /\ Stream!Takes(s, "subscribe").phase = s.phase
         /\ Stream!Takes(s, "subscribe").answer = s.answer /\ Stream!Takes(s, "subscribe").login = s.login
         /\ s.login = "granted" => Stream!Served(Stream!Takes(s, "subscribe"))
BY DEF Stream!Takes, Stream!Served, PrivOk, PrivSocket

LEMMA Readied ==
  ASSUME NEW all, AllPrivOk(all), current \in DOMAIN all \cup {None}, NEW q,
         q = Stream!Send(Stream!Send(all, "set_dcp"), "subscribe")
  PROVE  /\ AllPrivOk(q) /\ PrivStep(all, q)
         /\ \A j \in DOMAIN all : q[j].answer = all[j].answer /\ q[j].login = all[j].login
                                  /\ q[j].phase = all[j].phase
         /\ current # None /\ all[current].phase = "open" /\ all[current].login = "granted" =>
              Stream!Served(q[current])
<1>1. CASE current = None \/ all[current].phase # "open"
  <2>1. q = all
    BY <1>1 DEF Stream!Send
  <2>. QED BY <1>1, <2>1 DEF PrivStep, Evolves
<1>2. CASE ~(current = None \/ all[current].phase # "open")
  <2>1. current \in DOMAIN all /\ PrivOk(all[current])
    BY <1>2 DEF AllPrivOk
  <2>2. PICK s : s = Stream!Takes(all[current], "set_dcp")
    OBVIOUS
  <2>3. /\ PrivOk(s) /\ s.phase = "open" /\ s.answer = all[current].answer /\ s.login = all[current].login
        /\ s.login = "granted" => s.dcp # "no"
    BY <1>2, <2>1, <2>2, SwitchTaken
  <2>4. PICK q1 : q1 = [all EXCEPT ![current] = s]
    OBVIOUS
  <2>5. AllPrivOk(q1) /\ DOMAIN q1 = DOMAIN all /\ q1[current] = s
        /\ \A j \in DOMAIN all : j # current => q1[j] = all[j]
    BY <2>1, <2>3, <2>4, PrivReplaced
  <2>6. Stream!Send(all, "set_dcp") = q1
    BY <1>2, <2>2, <2>4 DEF Stream!Send
  <2>7. PICK r : r = Stream!Takes(s, "subscribe")
    OBVIOUS
  <2>8. /\ PrivOk(r) /\ r.phase = "open" /\ r.answer = s.answer /\ r.login = s.login
        /\ r.login = "granted" => Stream!Served(r)
    BY <2>3, <2>7, SubscriptionTaken
  <2>9. q = [q1 EXCEPT ![current] = r]
    BY <1>2, <2>3, <2>5, <2>6, <2>7 DEF Stream!Send
  <2>10. AllPrivOk(q) /\ DOMAIN q = DOMAIN q1 /\ q[current] = r
         /\ \A j \in DOMAIN q1 : j # current => q[j] = q1[j]
    BY <2>1, <2>5, <2>8, <2>9, PrivReplaced
  <2>11. \A j \in DOMAIN all : j # current => q[j] = all[j]
    BY <2>5, <2>10
  <2>12. PrivStep(all, q)
    BY <1>2, <2>1, <2>5, <2>8, <2>10, <2>11, PrivStepOf
  <2>. QED BY <1>2, <2>1, <2>3, <2>5, <2>8, <2>10, <2>11, <2>12
<1>. QED
  BY <1>1, <1>2

(* What the callbacks that open nothing leave to show. *)
LEMMA LoneStays ==
  ASSUME StreamInv, PrivStep(sockets, sockets'), UNCHANGED hasty, current' = current,
         timer' => timer \/ (~hasty => Alive(sockets') = {} /\ ~authRejected'),
         timer => authRejected' = authRejected \/ hasty
  PROVE  StreamLone'
<1>1. SUFFICES ASSUME ~hasty PROVE StreamLone'
  BY DEF StreamLone
<1>2. LoneIn(sockets') /\ DOMAIN sockets' = DOMAIN sockets /\ Alive(sockets') \subseteq Alive(sockets)
  BY <1>1 DEF StreamInv, StreamLone, PrivStep, Evolves, LoneIn
<1>3. timer' => Alive(sockets') = {} /\ ~authRejected'
  BY <1>1, <1>2 DEF StreamInv, StreamLone, StreamTypes
<1>4. \A k \in DOMAIN sockets' : sockets'[k].phase \in {"connecting", "open"} => current' = k
  BY <1>1, <1>2 DEF StreamInv, StreamLone, PrivStep
<1>. QED
  BY <1>2, <1>3, <1>4 DEF StreamLone

LEMMA StreamOpens ==
  ASSUME StreamInv, Stream!Open, ~hasty' => ~hasty /\ Alive(sockets) = {}, timer' = timer \/ timer' = FALSE,
         timer' => hasty'
  PROVE  /\ AllPrivOk(sockets') /\ current' \in DOMAIN sockets' /\ StreamLone' /\ StreamLogins' /\ StreamReady'
<1>0. sockets \in Seq(PrivSocket) /\ AllPrivOk(sockets)
  BY DEF StreamInv, AllPrivOk
<1>1. PICK s : s = Stream!NewSocket
  OBVIOUS
<1>2. PrivOk(s) /\ s \in PrivSocket /\ s.phase = "connecting" /\ LoginOk(s)
  BY <1>1 DEF PrivOk, PrivSocket, LoginOk, Stream!NewSocket
<1>3. sockets' = Append(sockets, s) /\ current' = Len(sockets) + 1 /\ state' = "CONNECTING"
  BY <1>1 DEF Stream!Open
<1>4. PICK l \in Nat : l = Len(sockets) /\ DOMAIN sockets = 1 .. l
  BY <1>0
<1>5. /\ sockets' \in Seq(PrivSocket) /\ DOMAIN sockets' = 1 .. (l + 1) /\ sockets'[l + 1] = s
      /\ \A k \in 1 .. l : sockets'[k] = sockets[k]
  BY <1>0, <1>2, <1>3, <1>4
<1>6. \A k \in 1 .. (l + 1) : k \in 1 .. l \/ k = l + 1
  OBVIOUS
<1>7. AllPrivOk(sockets')
  BY <1>0, <1>2, <1>4, <1>5, <1>6 DEF AllPrivOk
<1>8. StreamLogins'
  BY <1>2, <1>4, <1>5, <1>6 DEF StreamInv, StreamLogins
<1>9. StreamLone'
  <2>1. SUFFICES ASSUME ~hasty' PROVE StreamLone'
    BY DEF StreamLone
  <2>2. \A k \in 1 .. l : sockets'[k].phase = "closed"
    BY <1>4, <1>5, <2>1 DEF Alive
  <2>3. Alive(sockets') \subseteq {l + 1}
    BY <1>5, <1>6, <2>2 DEF Alive
  <2>4. \A k \in DOMAIN sockets' : sockets'[k].phase \in {"connecting", "open"} => current' = k
    BY <1>3, <1>4, <1>5, <1>6, <2>2
  <2>. QED BY <2>1, <2>3, <2>4 DEF StreamLone, LoneIn
<1>. QED
  BY <1>3, <1>4, <1>5, <1>7, <1>8, <1>9 DEF StreamReady

LEMMA StreamSteps ==
  ASSUME StreamInv, Stream!Next
  PROVE  StreamInv' /\ Stream!OpensNothing
<1>. USE DEF Stream!fields
<1>0. /\ AllPrivOk(sockets) /\ current \in DOMAIN sockets \cup {None} /\ StreamTypes
      /\ \A k \in DOMAIN sockets : PrivOk(sockets[k]) /\ sockets[k] \in PrivSocket
      /\ {stopped, authRejected, timer, hasty} \subseteq BOOLEAN
  BY DEF StreamInv, StreamTypes, AllPrivOk, PrivOk
<1>1. CASE Stream!Start
  <2>1. Stream!Open /\ stopped' = FALSE /\ authRejected' = FALSE /\ UNCHANGED timer
        /\ hasty' = (hasty \/ timer \/ \E k \in DOMAIN sockets : sockets[k].phase # "closed")
    BY <1>1 DEF Stream!Start, Stream!SocketIds
  <2>2. hasty' \in BOOLEAN /\ (~hasty' => ~hasty /\ ~timer /\ Alive(sockets) = {})
    BY <1>0, <2>1 DEF Alive
  <2>3. /\ AllPrivOk(sockets') /\ current' \in DOMAIN sockets' /\ StreamLone' /\ StreamLogins' /\ StreamReady'
    BY <1>0, <2>1, <2>2, StreamOpens
  <2>4. state' = "CONNECTING"
    BY <2>1 DEF Stream!Open
  <2>5. StreamTypes'
    BY <1>0, <2>1, <2>2, <2>3, <2>4 DEF StreamTypes
  <2>. QED BY <2>1, <2>3, <2>5 DEF StreamInv, Stream!OpensNothing
<1>2. CASE Stream!TimerFires
  <2>1. Stream!Open /\ timer /\ timer' = FALSE /\ UNCHANGED <<stopped, authRejected, hasty>>
    BY <1>2 DEF Stream!TimerFires
  <2>2. ~hasty => Alive(sockets) = {} /\ ~authRejected
    BY <2>1 DEF StreamInv, StreamLone
  <2>3. /\ AllPrivOk(sockets') /\ current' \in DOMAIN sockets' /\ StreamLone' /\ StreamLogins' /\ StreamReady'
    BY <1>0, <2>1, <2>2, StreamOpens
  <2>4. state' = "CONNECTING"
    BY <2>1 DEF Stream!Open
  <2>5. StreamTypes'
    BY <1>0, <2>1, <2>3, <2>4 DEF StreamTypes
  <2>. QED BY <2>2, <2>3, <2>5 DEF StreamInv, Stream!OpensNothing
<1>3. CASE Stream!Stop
  <2>1. /\ stopped' = TRUE /\ timer' = FALSE /\ sockets' = Stream!Close(sockets, current)
        /\ current' = None /\ state' = "DISCONNECTED" /\ UNCHANGED <<authRejected, hasty>>
    BY <1>3 DEF Stream!Stop
  <2>2. /\ AllPrivOk(sockets') /\ PrivStep(sockets, sockets')
        /\ (\A j \in DOMAIN sockets : LoginOk(sockets[j])) => (\A j \in DOMAIN sockets' : LoginOk(sockets'[j]))
        /\ current # None => sockets'[current].phase \in {"closing", "closed"}
    BY <1>0, <2>1, PrivClosed
  <2>3. StreamTypes'
    BY <1>0, <2>1 DEF StreamTypes
  <2>4. StreamLogins'
    BY <2>1, <2>2 DEF StreamInv, StreamLogins
  <2>5. StreamLone'
    <3>1. SUFFICES ASSUME ~hasty PROVE StreamLone'
      BY <2>1 DEF StreamLone
    <3>2. LoneIn(sockets') /\ DOMAIN sockets' = DOMAIN sockets
      BY <2>2, <3>1 DEF StreamInv, StreamLone, PrivStep, Evolves, LoneIn
    <3>3. ASSUME NEW k \in DOMAIN sockets PROVE sockets'[k].phase \notin {"connecting", "open"}
      <4>1. CASE current = k
        <5>1. current # None
          BY <1>0, <4>1, NoneAssumption DEF AllPrivOk
        <5>. QED BY <2>2, <4>1, <5>1
      <4>2. CASE current # k
        BY <2>2, <3>1, <4>2 DEF StreamInv, StreamLone, PrivStep
      <4>. QED BY <4>1, <4>2
    <3>. QED BY <2>1, <3>2, <3>3 DEF StreamLone
  <2>6. Len(sockets') = Len(sockets)
    BY <1>0, <2>2 DEF AllPrivOk, PrivStep, Evolves
  <2>. QED BY <2>1, <2>2, <2>3, <2>4, <2>5, <2>6 DEF StreamInv, StreamReady, Stream!OpensNothing
<1>4. ASSUME NEW k \in DOMAIN sockets, Stream!SocketOpens(k) PROVE StreamInv' /\ Stream!OpensNothing
  <2>1. /\ sockets[k].phase = "connecting" /\ state' = "AUTHENTICATING"
        /\ sockets' = Stream!Send([sockets EXCEPT ![k].phase = "open"], "auth")
        /\ UNCHANGED <<stopped, authRejected, current, timer, hasty>>
    BY <1>4 DEF Stream!SocketOpens
  <2>2. PICK s : s = [sockets[k] EXCEPT !.phase = "open"]
    OBVIOUS
  <2>3. PrivOk(s) /\ s.phase = "open" /\ s.answer = sockets[k].answer
    BY <1>0, <2>2 DEF PrivOk, PrivSocket, Stream!Served
  <2>4. PICK q : q = [sockets EXCEPT ![k] = s]
    OBVIOUS
  <2>5. AllPrivOk(q) /\ DOMAIN q = DOMAIN sockets /\ q[k] = s
        /\ \A j \in DOMAIN sockets : j # k => q[j] = sockets[j]
    BY <1>0, <2>3, <2>4, PrivReplaced
  <2>6. sockets' = Stream!Send(q, "auth")
    BY <2>1, <2>2, <2>4
  <2>7. PrivStep(sockets, q)
    BY <2>1, <2>3, <2>5, PrivStepOf
  <2>8. CASE current = None \/ q[current].phase # "open"
    <3>1. sockets' = q
      BY <2>6, <2>8 DEF Stream!Send
    <3>2. current # k \/ k = None
      BY <2>3, <2>5, <2>8
    <3>3. k # None
      BY <1>0, NoneAssumption DEF AllPrivOk
    <3>4. hasty
      BY <2>1, <3>2, <3>3 DEF StreamInv, StreamLone
    <3>. QED BY <1>0, <2>1, <2>5, <3>1, <3>4 DEF StreamInv, StreamTypes, StreamLone, StreamLogins, StreamReady,
         Stream!OpensNothing
  <2>9. CASE ~(current = None \/ q[current].phase # "open")
    <3>1. current \in DOMAIN q /\ PrivOk(q[current])
      BY <1>0, <2>5, <2>9 DEF AllPrivOk
    <3>2. PICK r : r = Stream!Takes(q[current], "auth")
      OBVIOUS
    <3>3. PrivOk(r) /\ r.phase = "open" /\ r.answer = q[current].answer
      BY <2>9, <3>1, <3>2, AuthTaken
    <3>4. sockets' = [q EXCEPT ![current] = r]
      BY <2>6, <2>9, <3>2 DEF Stream!Send
    <3>5. AllPrivOk(sockets') /\ DOMAIN sockets' = DOMAIN q /\ sockets'[current] = r
          /\ \A j \in DOMAIN q : j # current => sockets'[j] = q[j]
      BY <2>5, <3>1, <3>3, <3>4, PrivReplaced
    <3>6. PrivStep(q, sockets')
      BY <2>9, <3>1, <3>3, <3>5, PrivStepOf
    <3>7. PrivStep(sockets, sockets')
      BY <2>5, <2>7, <3>6 DEF PrivStep, Evolves
    <3>8. StreamLone'
      BY <1>0, <2>1, <3>7, LoneStays
    <3>9. StreamLogins'
      <4>1. SUFFICES ASSUME ~hasty PROVE StreamLogins'
        BY <2>1 DEF StreamLogins
      <4>2. current = k /\ sockets[k].answer = "none"
        BY <2>1, <4>1 DEF StreamInv, StreamLone, StreamLogins, LoginOk
      <4>3. r.answer = "none"
        BY <2>3, <2>5, <3>3, <4>2
      <4>. QED BY <2>5, <3>3, <3>5, <4>1, <4>2, <4>3 DEF StreamInv, StreamLogins, LoginOk
    <3>10. StreamTypes'
      BY <1>0, <2>1, <2>5, <3>5 DEF StreamTypes
    <3>11. Len(sockets') = Len(sockets)
      BY <1>0, <2>5, <3>5 DEF AllPrivOk
    <3>. QED BY <2>1, <3>5, <3>8, <3>9, <3>10, <3>11 DEF StreamInv, StreamReady, Stream!OpensNothing
  <2>. QED BY <2>8, <2>9
<1>5. ASSUME NEW k \in DOMAIN sockets, Stream!AuthSucceeds(k) PROVE StreamInv' /\ Stream!OpensNothing
  <2>1. /\ sockets[k].phase \in {"open", "closing"} /\ sockets[k].answer = "success" /\ state' = "READY"
        /\ sockets' = Stream!Send(Stream!Send([sockets EXCEPT ![k].answer = "none"], "set_dcp"), "subscribe")
        /\ UNCHANGED <<stopped, authRejected, current, timer, hasty>>
    BY <1>5 DEF Stream!AuthSucceeds
  <2>2. PICK s : s = [sockets[k] EXCEPT !.answer = "none"]
    OBVIOUS
  <2>3. PrivOk(s) /\ s.phase = sockets[k].phase /\ s.answer = "none" /\ s.login = sockets[k].login
    BY <1>0, <2>2 DEF PrivOk, PrivSocket, Stream!Served
  <2>4. PICK q : q = [sockets EXCEPT ![k] = s]
    OBVIOUS
  <2>5. AllPrivOk(q) /\ DOMAIN q = DOMAIN sockets /\ q[k] = s
        /\ \A j \in DOMAIN sockets : j # k => q[j] = sockets[j]
    BY <1>0, <2>3, <2>4, PrivReplaced
  <2>6. sockets' = Stream!Send(Stream!Send(q, "set_dcp"), "subscribe")
    BY <2>1, <2>2, <2>4
  <2>7. PrivStep(sockets, q)
    BY <2>3, <2>5, PrivStepOf
  <2>8. /\ AllPrivOk(sockets') /\ PrivStep(q, sockets')
        /\ \A j \in DOMAIN q : sockets'[j].answer = q[j].answer /\ sockets'[j].login = q[j].login
                               /\ sockets'[j].phase = q[j].phase
        /\ current # None /\ q[current].phase = "open" /\ q[current].login = "granted" =>
             Stream!Served(sockets'[current])
    BY <1>0, <2>5, <2>6, Readied
  <2>9. PrivStep(sockets, sockets')
    BY <2>5, <2>7, <2>8 DEF PrivStep, Evolves
  <2>10. StreamLone'
    BY <1>0, <2>1, <2>9, LoneStays
  <2>11. DOMAIN sockets' = DOMAIN sockets
    BY <2>9 DEF PrivStep, Evolves
  <2>12. StreamLogins'
    <3>1. SUFFICES ASSUME ~hasty, NEW j \in DOMAIN sockets PROVE LoginOk(sockets'[j])
      BY <2>1, <2>11 DEF StreamLogins
    <3>2. LoginOk(sockets[j])
      BY <3>1 DEF StreamInv, StreamLogins
    <3>3. LoginOk(q[j])
      BY <2>3, <2>5, <3>2 DEF LoginOk
    <3>. QED BY <2>5, <2>8, <3>3 DEF LoginOk
  <2>13. StreamReady'
    <3>1. SUFFICES ASSUME ~hasty
                   PROVE  \E j \in DOMAIN sockets' : sockets'[j].phase = "closing"
                                                     \/ Stream!Served(sockets'[j])
      BY <2>1 DEF StreamReady
    <3>2. CASE sockets[k].phase = "closing"
      BY <2>3, <2>5, <2>8, <2>11, <3>2
    <3>3. CASE sockets[k].phase = "open"
      <4>1. current = k /\ sockets[k].login = "granted" /\ k # None
        BY <1>0, <2>1, <3>1, <3>3, NoneAssumption DEF StreamInv, StreamLone, StreamLogins, LoginOk, AllPrivOk
      <4>. QED BY <2>3, <2>5, <2>8, <2>11, <3>3, <4>1
    <3>. QED BY <2>1, <3>2, <3>3
  <2>14. StreamTypes'
    BY <1>0, <2>1, <2>11 DEF StreamTypes
  <2>15. Len(sockets') = Len(sockets)
    BY <1>0, <2>8, <2>11 DEF AllPrivOk
  <2>. QED BY <2>8, <2>10, <2>12, <2>13, <2>14, <2>15 DEF StreamInv, Stream!OpensNothing
<1>6. ASSUME NEW k \in DOMAIN sockets, Stream!AuthFails(k) PROVE StreamInv' /\ Stream!OpensNothing
  <2>1. /\ sockets[k].phase \in {"open", "closing"} /\ state' = "ERROR" /\ authRejected' = TRUE
        /\ sockets' = Stream!Close([sockets EXCEPT ![k].answer = "none"], current)
        /\ UNCHANGED <<stopped, current, timer, hasty>>
    BY <1>6 DEF Stream!AuthFails
  <2>2. PICK s : s = [sockets[k] EXCEPT !.answer = "none"]
    OBVIOUS
  <2>3. PrivOk(s) /\ s.phase = sockets[k].phase /\ s.answer = "none"
    BY <1>0, <2>2 DEF PrivOk, PrivSocket, Stream!Served
  <2>4. PICK q : q = [sockets EXCEPT ![k] = s]
    OBVIOUS
  <2>5. AllPrivOk(q) /\ DOMAIN q = DOMAIN sockets /\ q[k] = s
        /\ \A j \in DOMAIN sockets : j # k => q[j] = sockets[j]
    BY <1>0, <2>3, <2>4, PrivReplaced
  <2>6. sockets' = Stream!Close(q, current)
    BY <2>1, <2>2, <2>4
  <2>7. PrivStep(sockets, q)
    BY <2>3, <2>5, PrivStepOf
  <2>8. /\ AllPrivOk(sockets') /\ PrivStep(q, sockets')
        /\ (\A j \in DOMAIN q : LoginOk(q[j])) => (\A j \in DOMAIN sockets' : LoginOk(sockets'[j]))
    BY <1>0, <2>5, <2>6, PrivClosed
  <2>9. PrivStep(sockets, sockets')
    BY <2>5, <2>7, <2>8 DEF PrivStep, Evolves
  <2>10. timer => hasty
    BY <2>1 DEF StreamInv, StreamLone, Alive
  <2>11. StreamLone'
    BY <1>0, <2>1, <2>9, <2>10, LoneStays
  <2>12. StreamLogins'
    BY <2>1, <2>3, <2>5, <2>8, ZenonT(40) DEF StreamInv, StreamLogins, LoginOk
  <2>13. StreamTypes' /\ DOMAIN sockets' = DOMAIN sockets
    BY <1>0, <2>1, <2>9 DEF StreamTypes, PrivStep, Evolves
  <2>14. Len(sockets') = Len(sockets)
    BY <1>0, <2>8, <2>13 DEF AllPrivOk
  <2>. QED BY <2>1, <2>8, <2>11, <2>12, <2>13, <2>14 DEF StreamInv, StreamReady, Stream!OpensNothing
<1>7. ASSUME NEW k \in DOMAIN sockets, Stream!SocketCloses(k) PROVE StreamInv' /\ Stream!OpensNothing
  <2>1. /\ sockets[k].phase # "closed"
        /\ sockets' = [sockets EXCEPT ![k] = [Stream!NewSocket EXCEPT !.phase = "closed"]]
        /\ state' \in {"ERROR", "DISCONNECTED"}
        /\ timer' = timer \/ (~authRejected /\ timer' = (timer \/ ~stopped))
        /\ UNCHANGED <<stopped, authRejected, current, hasty>>
    BY <1>7 DEF Stream!SocketCloses, Stream!ScheduleReconnect
  <2>2. PICK s : s = [Stream!NewSocket EXCEPT !.phase = "closed"]
    OBVIOUS
  <2>3. PrivOk(s) /\ s.phase = "closed" /\ LoginOk(s)
    BY <2>2 DEF PrivOk, PrivSocket, LoginOk, Stream!NewSocket
  <2>4. sockets' = [sockets EXCEPT ![k] = s]
    BY <2>1, <2>2
  <2>5. AllPrivOk(sockets') /\ DOMAIN sockets' = DOMAIN sockets /\ sockets'[k] = s
        /\ \A j \in DOMAIN sockets : j # k => sockets'[j] = sockets[j]
    BY <1>0, <2>3, <2>4, PrivReplaced
  <2>6. PrivStep(sockets, sockets')
    BY <2>3, <2>5, PrivStepOf
  <2>7. ~hasty => Alive(sockets') = {}
    BY <2>1, <2>3, <2>5 DEF StreamInv, StreamLone, LoneIn, Alive
  <2>8. timer' \in BOOLEAN /\ (timer' => timer \/ (~hasty => Alive(sockets') = {} /\ ~authRejected'))
    <3>1. CASE timer' = timer
      BY <1>0, <2>1, <3>1
    <3>2. CASE ~authRejected /\ timer' = (timer \/ ~stopped)
      BY <1>0, <2>1, <2>7, <3>2
    <3>. QED BY <2>1, <3>1, <3>2
  <2>9. StreamLone'
    BY <1>0, <2>1, <2>6, <2>8, LoneStays
  <2>10. StreamLogins'
    BY <2>1, <2>3, <2>5 DEF StreamInv, StreamLogins
  <2>11. StreamTypes'
    BY <1>0, <2>1, <2>5, <2>8 DEF StreamTypes
  <2>12. Len(sockets') = Len(sockets)
    BY <1>0, <2>5 DEF AllPrivOk
  <2>. QED BY <2>1, <2>5, <2>9, <2>10, <2>11, <2>12 DEF StreamInv, StreamReady, Stream!OpensNothing
<1>8. ASSUME NEW k \in DOMAIN sockets, Stream!SocketErrors(k) PROVE StreamInv' /\ Stream!OpensNothing
  <2>1. /\ state' = "ERROR" /\ sockets' = Stream!Close(sockets, k)
        /\ UNCHANGED <<stopped, authRejected, current, timer, hasty>>
    BY <1>8 DEF Stream!SocketErrors
  <2>2. /\ AllPrivOk(sockets') /\ PrivStep(sockets, sockets')
        /\ (\A j \in DOMAIN sockets : LoginOk(sockets[j])) => (\A j \in DOMAIN sockets' : LoginOk(sockets'[j]))
    BY <1>0, <2>1, PrivClosed
  <2>3. StreamLone'
    BY <1>0, <2>1, <2>2, LoneStays
  <2>4. StreamLogins'
    BY <2>1, <2>2 DEF StreamInv, StreamLogins
  <2>5. StreamTypes' /\ DOMAIN sockets' = DOMAIN sockets
    BY <1>0, <2>1, <2>2 DEF StreamTypes, PrivStep, Evolves
  <2>6. Len(sockets') = Len(sockets)
    BY <1>0, <2>2, <2>5 DEF AllPrivOk
  <2>. QED BY <2>1, <2>2, <2>3, <2>4, <2>5, <2>6 DEF StreamInv, StreamReady, Stream!OpensNothing
<1>9. ASSUME NEW k \in DOMAIN sockets, Stream!VenueAnswers(k) PROVE StreamInv' /\ Stream!OpensNothing
  <2>1. \/ sockets' = [sockets EXCEPT ![k].login = "refused", ![k].answer = "failure"]
        \/ \E g \in SUBSET {"set_dcp", "subscribe"} :
             sockets' = [sockets EXCEPT ![k].login = "granted", ![k].answer = "success",
                                        ![k].grants = g]
    BY <1>9 DEF Stream!VenueAnswers
  <2>2. sockets[k].phase = "open" /\ UNCHANGED <<state, stopped, authRejected, current, timer, hasty>>
    BY <1>9 DEF Stream!VenueAnswers
  <2>3. PICK s : sockets' = [sockets EXCEPT ![k] = s] /\ Answered(sockets[k], s)
    <3>1. CASE sockets' = [sockets EXCEPT ![k].login = "refused", ![k].answer = "failure"]
      <4>1. PICK s : s = [sockets[k] EXCEPT !.login = "refused", !.answer = "failure"]
        OBVIOUS
      <4>2. sockets' = [sockets EXCEPT ![k] = s]
        BY <1>0, <3>1, <4>1 DEF AllPrivOk, PrivSocket
      <4>. QED BY <4>1, <4>2 DEF Answered
    <3>2. ASSUME NEW g \in SUBSET {"set_dcp", "subscribe"},
                 sockets' = [sockets EXCEPT ![k].login = "granted", ![k].answer = "success",
                                            ![k].grants = g]
          PROVE  \E s : sockets' = [sockets EXCEPT ![k] = s] /\ Answered(sockets[k], s)
      <4>1. PICK s : s = [sockets[k] EXCEPT !.login = "granted", !.answer = "success", !.grants = g]
        OBVIOUS
      <4>2. sockets' = [sockets EXCEPT ![k] = s]
        BY <1>0, <3>2, <4>1 DEF AllPrivOk, PrivSocket
      <4>. QED BY <4>1, <4>2 DEF Answered
    <3>. QED BY <2>1, <3>1, <3>2
  <2>4. PrivOk(s) /\ s.phase = "open" /\ (Stream!Served(s) <=> Stream!Served(sockets[k]))
        /\ (s.answer = "success" => s.login = "granted")
    BY <1>0, <2>2, <2>3 DEF Answered, PrivOk, PrivSocket, Stream!Served
  <2>5. sockets' = [sockets EXCEPT ![k] = s]
    BY <2>3
  <2>6. AllPrivOk(sockets') /\ DOMAIN sockets' = DOMAIN sockets /\ sockets'[k] = s
        /\ \A j \in DOMAIN sockets : j # k => sockets'[j] = sockets[j]
    BY <1>0, <2>4, <2>5, PrivReplaced
  <2>7. PrivStep(sockets, sockets')
    BY <2>2, <2>4, <2>6, PrivStepOf
  <2>8. StreamLone'
    BY <1>0, <2>2, <2>7, LoneStays
  <2>9. StreamLogins'
    BY <2>2, <2>4, <2>6 DEF StreamInv, StreamLogins, LoginOk
  <2>10. StreamReady'
    BY <2>2, <2>4, <2>6 DEF StreamInv, StreamReady
  <2>11. StreamTypes'
    BY <1>0, <2>2, <2>6 DEF StreamTypes
  <2>12. Len(sockets') = Len(sockets)
    BY <1>0, <2>6 DEF AllPrivOk
  <2>. QED BY <2>6, <2>8, <2>9, <2>10, <2>11, <2>12 DEF StreamInv, Stream!OpensNothing
<1>. QED
  BY <1>1, <1>2, <1>3, <1>4, <1>5, <1>6, <1>7, <1>8, <1>9
  DEF Stream!Next, Stream!SocketStep, Stream!Fault, Stream!SocketIds

-----------------------------------------------------------------------------
(***************************************************************************)
(* The two clients, side by side: a behaviour runs one of them.            *)
(***************************************************************************)
Inv == /\ part \in {"feed", "stream"}
       /\ part = "feed" => FeedInv
       /\ part = "stream" => StreamInv

LEMMA InitInv == Init => Inv
<1> SUFFICES ASSUME Init PROVE Inv
  OBVIOUS
<1>1. /\ part \in {"feed", "stream"} /\ stopped = FALSE /\ connected = FALSE /\ current = None
      /\ timer = FALSE /\ health = "EMPTY" /\ reason = None /\ lastU = -1 /\ emitted = None
      /\ sockets = <<>> /\ venueU = 1 /\ blind = FALSE /\ hasty = FALSE
      /\ state = "DISCONNECTED" /\ authRejected = FALSE
  BY DEF Init, Feed!Init, Stream!Init
<1>2. /\ DOMAIN sockets = {} /\ sockets \in Seq(FeedSocket) /\ sockets \in Seq(PrivSocket)
  BY <1>1
<1>3. FeedInv
  <2>1. FeedTypes
    <3>1. venueU \in DOMAIN Books /\ lastU \in -1 .. Len(Books)
      BY <1>1, BooksFacts
    <3>2. current \in DOMAIN sockets \cup {None} /\ (emitted = None \/ emitted.u \in DOMAIN Books)
      BY <1>1
    <3>3. {stopped, connected, timer, blind, hasty} \subseteq BOOLEAN
      BY <1>1
    <3>. QED BY <1>1, <3>1, <3>2, <3>3 DEF FeedTypes
  <2>2. FeedSockets
    BY <1>2 DEF FeedSockets, AllOk
  <2>3. FeedExact /\ FeedFed /\ FeedLone /\ FeedAhead
    BY <1>1, <1>2 DEF FeedExact, FeedFed, FeedLone, FeedAhead, LoneIn, Alive
  <2>. QED BY <2>1, <2>2, <2>3 DEF FeedInv
<1>4. StreamInv
  <2>1. StreamTypes
    BY <1>1 DEF StreamTypes
  <2>2. AllPrivOk(sockets)
    BY <1>2 DEF AllPrivOk
  <2>3. StreamLone /\ StreamLogins /\ StreamReady
    BY <1>1, <1>2 DEF StreamLone, StreamLogins, StreamReady, LoneIn, Alive
  <2>. QED BY <2>1, <2>2, <2>3 DEF StreamInv
<1>. QED
  BY <1>1, <1>3, <1>4 DEF Inv

LEMMA NextInv ==
  ASSUME Inv, [Next]_vars
  PROVE  Inv' /\ (part = "feed" => Feed!BookAdvances) /\ (part = "stream" => Stream!OpensNothing)
<1>1. CASE InFeed(Feed!Next)
  <2>1. part = "feed" /\ part' = "feed" /\ FeedInv /\ Feed!Next
    BY <1>1 DEF InFeed, Inv
  <2>2. FeedInv' /\ Feed!BookAdvances
    BY <2>1, FeedSteps
  <2>. QED BY <2>1, <2>2 DEF Inv
<1>2. CASE InStream(Stream!Next)
  <2>1. part = "stream" /\ part' = "stream" /\ StreamInv /\ Stream!Next
    BY <1>2 DEF InStream, Inv
  <2>2. StreamInv' /\ Stream!OpensNothing
    BY <2>1, StreamSteps
  <2>. QED BY <2>1, <2>2 DEF Inv
<1>3. CASE UNCHANGED vars
  <2>1. UNCHANGED <<part, stopped, current, timer, sockets, hasty, connected, health, reason,
                    lastU, levels, emitted, venueU, blind, state, authRejected>>
    BY <1>3 DEF vars, shared, feedOnly, onlyPriv
  <2>2. FeedInv => FeedInv'
    BY <2>1 DEF FeedInv, FeedTypes, FeedSockets, FeedExact, FeedFed, FeedLone, FeedAhead
  <2>3. StreamInv => StreamInv'
    BY <2>1 DEF StreamInv, StreamTypes, StreamLone, StreamLogins, StreamReady
  <2>. QED BY <2>1, <2>2, <2>3 DEF Inv, Feed!BookAdvances, Stream!OpensNothing
<1>. QED
  BY <1>1, <1>2, <1>3 DEF Next

(* The inductive invariant of the two websocket clients.                   *)
THEOREM StreamsInv == Spec => []Inv
<1>1. Inv /\ [Next]_vars => Inv'
  BY NextInv
<1>. QED
  BY InitInv, <1>1, PTL DEF Spec

(* A healthy order book is exactly the venue's at its update id, and is    *)
(* still fed (BybitIngestion and OrderBook of bybitWs.ts, orderbook.ts).   *)
THEOREM StreamsHealthyBook == Spec => []HealthyBook
<1>1. Inv => HealthyBook
  BY DEF Inv, HealthyBook, Feed!HealthyIsExact, Feed!HealthyIsFed, Feed!SocketIds, FeedInv,
         FeedExact, FeedFed, Delivers
<1>. QED
  BY <1>1, StreamsInv, PTL

(* No connection is subscribed before its dead-man switch was asked for on *)
(* it, logged in; READY is said of a connection that was asked for both;   *)
(* and the account is streamed once (privateWs.ts).  What the venue does   *)
(* not hold then it has refused: the code does not look at its replies.    *)
THEOREM StreamsArmedAndAlone == Spec => []ArmedAndAlone
<1>1. ASSUME Inv, part = "stream" PROVE Stream!NeverBare
  BY <1>1 DEF Inv, StreamInv, AllPrivOk, PrivOk, Stream!NeverBare, Stream!SocketIds
<1>2. ASSUME Inv, part = "stream" PROVE Stream!ReadyMeansAsked
  BY <1>2 DEF Inv, StreamInv, StreamReady, Stream!ReadyMeansAsked, Stream!SocketIds
<1>3. ASSUME Inv, part = "stream" PROVE Stream!OneStream
  BY <1>3 DEF Inv, StreamInv, StreamLone, LoneIn, Alive, Stream!OneStream, Stream!SocketIds
<1>4. Inv => ArmedAndAlone
  BY <1>1, <1>2, <1>3 DEF ArmedAndAlone
<1>. QED
  BY <1>4, StreamsInv, PTL

(* Every variable of the two clients has its type.                         *)
THEOREM StreamsTypes == Spec => []TypeOk
<1>1. ASSUME Inv, part = "feed" PROVE Feed!TypeOk
  <2>1. FeedTypes /\ \A k \in DOMAIN sockets : sockets[k] \in FeedSocket
    BY <1>1 DEF Inv, FeedInv, FeedSockets, AllOk
  <2>. QED BY <2>1 DEF FeedTypes, FeedSocket, Feed!TypeOk, Feed!SocketIds
<1>2. ASSUME Inv, part = "stream" PROVE Stream!TypeOk
  <2>1. StreamTypes /\ \A k \in DOMAIN sockets : sockets[k] \in PrivSocket
    BY <1>2 DEF Inv, StreamInv, AllPrivOk
  <2>2. Stream!Range(sockets) \subseteq PrivSocket
    BY <2>1 DEF Stream!Range
  <2>. QED BY <2>1, <2>2 DEF StreamTypes, PrivSocket, Stream!TypeOk, Stream!SocketIds
<1>3. Inv => TypeOk
  BY <1>1, <1>2 DEF Inv, TypeOk
<1>. QED
  BY <1>3, StreamsInv, PTL

(* Book events never go back in time on a single connection, and a         *)
(* rejected login opens nothing until start().                             *)
THEOREM StreamsNeverGoBack == Spec => NeverGoesBack
<1>1. Inv /\ [Next]_vars =>
        [ /\ part = "feed" => Feed!BookAdvances
          /\ part = "stream" => Stream!OpensNothing ]_vars
  BY NextInv
<1>. QED
  BY <1>1, StreamsInv, PTL DEF Spec, NeverGoesBack
=============================================================================
