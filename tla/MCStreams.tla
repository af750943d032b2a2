----------------------------- MODULE MCStreams ------------------------------
(***************************************************************************)
(* BookFeed and PrivateStream for TLC.  The two connections share nothing, *)
(* so a behaviour runs one of them: `part' says which, the variables they  *)
(* name alike are those of that one, and the other's keep their initial    *)
(* values.                                                                 *)
(***************************************************************************)
EXTENDS Integers, Sequences

CONSTANTS None, Books, MaxStarts, MaxDrops, MaxLosses

ASSUME BooksAssumption == Books # <<>> /\ Books \in Seq(SUBSET ({"bid", "ask"} \X Nat))
ASSUME NoneAssumption  == None \notin Nat

VARIABLES part,
  stopped, current, timer, sockets, starts, drops, hasty,                 \* both
  connected, health, reason, lastU, levels, emitted, venueU, losses, blind,
  state, authRejected

Feed   == INSTANCE BookFeed
Stream == INSTANCE PrivateStream

shared   == <<stopped, current, timer, sockets, starts, drops, hasty>>
feedOnly == <<connected, health, reason, lastU, levels, emitted, venueU, losses, blind>>
onlyPriv == <<state, authRejected>>
vars     == <<part, shared, feedOnly, onlyPriv>>

(* A book that moves on one side, then on both, then is locked.            *)
Level(bid, ask) == {<<"bid", bid>>, <<"ask", ask>>}
McBooks == <<Level(1, 3), Level(1, 4), Level(2, 4), Level(4, 4)>>

Init == part \in {"feed", "stream"} /\ Feed!Init /\ Stream!Init

InFeed(A)   == part = "feed" /\ A /\ UNCHANGED <<part, onlyPriv>>
InStream(A) == part = "stream" /\ A /\ UNCHANGED <<part, feedOnly>>

Next == InFeed(Feed!Next) \/ InStream(Stream!Next)

Spec ==
  /\ Init /\ [][Next]_vars
  /\ WF_vars(InFeed(Feed!TimerFires)) /\ WF_vars(InFeed(Feed!SocketStep))
  /\ WF_vars(InFeed(Feed!VenueUpdates))
  /\ WF_vars(InStream(Stream!TimerFires)) /\ WF_vars(InStream(Stream!SocketStep))
-----------------------------------------------------------------------------
(* The properties, each of the part it speaks of; BookFeed and             *)
(* PrivateStream say what they mean.                                       *)

(* Every variable has its type. *)
TypeOk == IF part = "feed" THEN Feed!TypeOk ELSE Stream!TypeOk

(* A healthy book is exactly the venue's book at its update id, and it is  *)
(* fed, or the close event of its connection is coming.                    *)
HealthyBook == part = "feed" => Feed!HealthyIsExact /\ Feed!HealthyIsFed

(* A stale book heals. *)
Heals == part = "feed" => Feed!Heals

(* No subscription precedes the asking for the dead-man switch, READY is   *)
(* said of a connection that holds both as far as the venue grants them,   *)
(* and at most one connection streams the account.                         *)
ArmedAndAlone == part = "stream" => Stream!NeverBare /\ Stream!ReadyMeansAsked /\ Stream!OneStream

(* Book events never go back in time, and a rejected login opens nothing   *)
(* until start().                                                          *)
NeverGoesBack == [][ /\ part = "feed" => Feed!BookAdvances
                     /\ part = "stream" => Stream!OpensNothing ]_vars

(* A stream that should run stays ready once the network is quiet. *)
StaysReady == part = "stream" => Stream!StaysReady
=============================================================================
