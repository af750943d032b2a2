--------------------------- MODULE PrivateStream ----------------------------
(***************************************************************************)
(* The private account stream of adapters-bybit/src/privateWs.ts: connect, *)
(* authenticate, arm the dead-man switch, subscribe, and reconnect.  The   *)
(* callbacks of every socket ever opened act on the same object, and a     *)
(* closed socket reports its close (and what was already received) later,  *)
(* so callbacks of an old socket meet the state of a new one.              *)
(***************************************************************************)
EXTENDS Naturals, Sequences, SequencesExt

CONSTANTS
  None,       \* no socket
  MaxStarts,  \* bound: calls of start()
  MaxDrops    \* bound: connections the network drops or breaks

VARIABLES
  state,         \* ConnectionState
  stopped,       \* this.stopped
  authRejected,  \* this.authRejected
  current,       \* this.socket
  timer,         \* whether this.reconnectTimer is set
  sockets,       \* the connections opened so far, and what the venue holds of them
  starts, drops, \* bounds
  hasty          \* history: start() was called before the last socket had closed

fields == <<state, stopped, authRejected, current, timer>>
vars   == <<fields, sockets, starts, drops, hasty>>

SocketIds == DOMAIN sockets

(* answer: the venue's reply to auth that is on its way.  login, dcp (the  *)
(* dead-man switch) and subscribed are the venue's view, grants what it    *)
(* will not refuse; a subscription taken before the switch was asked for   *)
(* is "bare".                                                              *)
NewSocket == [phase |-> "connecting", answer |-> "none", login |-> "none", grants |-> {},
              dcp |-> "no", subscribed |-> "no"]

Init ==
  /\ state = "DISCONNECTED" /\ stopped = FALSE /\ authRejected = FALSE
  /\ current = None /\ timer = FALSE
  /\ sockets = <<>> /\ starts = 0 /\ drops = 0 /\ hasty = FALSE
-----------------------------------------------------------------------------
(* The venue takes a request on a connection; before the login it ignores  *)
(* it.  Its replies to set_dcp and subscribe are not looked at.            *)
Takes(socket, op) ==
  IF op = "auth" THEN [socket EXCEPT !.login = "asked"]
  ELSE IF socket.login # "granted" THEN socket
  ELSE IF op = "set_dcp"
       THEN [socket EXCEPT !.dcp = IF op \in socket.grants THEN "armed" ELSE "refused"]
       ELSE [socket EXCEPT !.subscribed = IF op \notin socket.grants THEN "refused"
                                          ELSE IF socket.dcp = "no" THEN "bare" ELSE "taken"]

(* send() writes to the current socket, and only if that one is open. *)
Send(all, op) ==
  IF current = None \/ all[current].phase # "open" THEN all
  ELSE [all EXCEPT ![current] = Takes(@, op)]

(* close() on a socket: its close event is still to come. *)
Close(all, k) ==
  IF k = None \/ all[k].phase = "closed" THEN all ELSE [all EXCEPT ![k].phase = "closing"]

Open ==
  /\ state' = "CONNECTING"
  /\ sockets' = Append(sockets, NewSocket)
  /\ current' = Len(sockets) + 1

Start ==
  /\ starts < MaxStarts /\ starts' = starts + 1
  /\ stopped' = FALSE /\ authRejected' = FALSE
  /\ Open
  /\ hasty' = (hasty \/ timer \/ \E k \in SocketIds : sockets[k].phase # "closed")
  /\ UNCHANGED <<timer, drops>>

Stop ==
  /\ starts > 0 /\ ~stopped
  /\ stopped' = TRUE /\ timer' = FALSE
  /\ sockets' = Close(sockets, current)
  /\ current' = None
  /\ state' = "DISCONNECTED"
  /\ UNCHANGED <<authRejected, starts, drops, hasty>>

(* onOpen: authenticate. *)
SocketOpens(k) ==
  /\ sockets[k].phase = "connecting"
  /\ state' = "AUTHENTICATING"
  /\ sockets' = Send([sockets EXCEPT ![k].phase = "open"], "auth")
  /\ UNCHANGED <<stopped, authRejected, current, timer, starts, drops, hasty>>

SubscribeThenArm(k) ==                                   \* mutant: swapped order
  /\ sockets[k].phase \in {"open", "closing"} /\ sockets[k].answer = "success"
  /\ state' = "READY"
  /\ sockets' = Send(Send([sockets EXCEPT ![k].answer = "none"], "subscribe"), "set_dcp")
  /\ UNCHANGED <<stopped, authRejected, current, timer, starts, drops, hasty>>

ArmsOnce(k) ==                           \* mutant: a reconnect does not arm again
  /\ sockets[k].phase \in {"open", "closing"} /\ sockets[k].answer = "success"
  /\ state' = "READY"
  /\ LET read == [sockets EXCEPT ![k].answer = "none"]
     IN  sockets' = Send(IF k = 1 THEN Send(read, "set_dcp") ELSE read, "subscribe")
  /\ UNCHANGED <<stopped, authRejected, current, timer, starts, drops, hasty>>

(* handleMessage of an auth reply: arm the switch, then subscribe. *)
AuthSucceeds(k) ==
  /\ sockets[k].phase \in {"open", "closing"} /\ sockets[k].answer = "success"
  /\ state' = "READY"
  /\ sockets' = Send(Send([sockets EXCEPT ![k].answer = "none"], "set_dcp"), "subscribe")
  /\ UNCHANGED <<stopped, authRejected, current, timer, starts, drops, hasty>>

AuthFails(k) ==
  /\ sockets[k].phase \in {"open", "closing"} /\ sockets[k].answer = "failure"
  /\ authRejected' = TRUE /\ state' = "ERROR"
  /\ sockets' = Close([sockets EXCEPT ![k].answer = "none"], current)
  /\ UNCHANGED <<stopped, current, timer, starts, drops, hasty>>

(* scheduleReconnect *)
ScheduleReconnect == timer' = (timer \/ ~stopped)

ClosesAlways(k) ==                        \* mutant: a rejected login reconnects
  /\ \/ sockets[k].phase = "closing" /\ UNCHANGED drops
     \/ sockets[k].phase \in {"connecting", "open"} /\ drops < MaxDrops /\ drops' = drops + 1
  /\ sockets' = [sockets EXCEPT ![k] = [NewSocket EXCEPT !.phase = "closed"]]
  /\ state' = "DISCONNECTED" /\ ScheduleReconnect
  /\ UNCHANGED <<stopped, authRejected, current, starts, hasty>>

(* onClose: of a socket the program closed, or that the network dropped.   *)
(* A rejected login does not reconnect.                                    *)
SocketCloses(k) ==
  /\ \/ sockets[k].phase = "closing" /\ UNCHANGED drops
     \/ sockets[k].phase \in {"connecting", "open"} /\ drops < MaxDrops /\ drops' = drops + 1
  /\ sockets' = [sockets EXCEPT ![k] = [NewSocket EXCEPT !.phase = "closed"]]
  /\ IF authRejected
     THEN state' = "ERROR" /\ UNCHANGED timer
     ELSE state' = "DISCONNECTED" /\ ScheduleReconnect
  /\ UNCHANGED <<stopped, authRejected, current, starts, hasty>>

SocketErrorsTwice(k) ==                 \* mutant: reconnects before the close event
  /\ sockets[k].phase # "closed" /\ drops < MaxDrops /\ drops' = drops + 1
  /\ state' = "ERROR"
  /\ sockets' = Close(sockets, k)
  /\ timer' = TRUE
  /\ UNCHANGED <<stopped, authRejected, current, starts, hasty>>

(* onError: a socket that breaks, or that was closed before it was open.   *)
SocketErrors(k) ==
  /\ sockets[k].phase # "closed" /\ drops < MaxDrops /\ drops' = drops + 1
  /\ state' = "ERROR"
  /\ sockets' = Close(sockets, k)
  /\ UNCHANGED <<stopped, authRejected, current, timer, starts, hasty>>

TimerKeeps ==                                    \* mutant: does not open
  /\ timer /\ timer' = FALSE
  /\ UNCHANGED <<state, stopped, authRejected, current, sockets, starts, drops, hasty>>

TimerFires ==
  /\ timer /\ timer' = FALSE
  /\ Open
  /\ UNCHANGED <<stopped, authRejected, starts, drops, hasty>>

(* The venue (external) answers a login; of one it grants it may yet       *)
(* refuse the switch, or the subscription.                                 *)
VenueAnswers(k) ==
  /\ sockets[k].phase = "open" /\ sockets[k].login = "asked"
  /\ \/ sockets' = [sockets EXCEPT ![k].login = "refused", ![k].answer = "failure"]
     \/ \E g \in SUBSET {"set_dcp", "subscribe"} :
          sockets' = [sockets EXCEPT ![k].login = "granted", ![k].answer = "success",
                                     ![k].grants = g]
  /\ UNCHANGED <<fields, starts, drops, hasty>>
-----------------------------------------------------------------------------
SocketStep == \E k \in SocketIds :
  \/ SocketOpens(k) \/ VenueAnswers(k) \/ AuthSucceeds(k) \/ AuthFails(k)
  \/ sockets[k].phase = "closing" /\ SocketCloses(k)

Fault == \E k \in SocketIds : SocketErrors(k) \/ SocketCloses(k)

Next == Start \/ Stop \/ TimerFires \/ SocketStep \/ Fault

(* Sockets open, answer and close; the timer fires. *)
Fairness == WF_vars(TimerFires) /\ WF_vars(SocketStep)

Spec     == Init /\ [][Next]_vars
FairSpec == Spec /\ Fairness
-----------------------------------------------------------------------------
(* Every variable has its type. *)
TypeOk ==
  /\ state \in {"DISCONNECTED", "CONNECTING", "AUTHENTICATING", "READY", "ERROR"}
  /\ {stopped, authRejected, timer, hasty} \subseteq BOOLEAN
  /\ current \in SocketIds \cup {None}
  /\ Range(sockets) \subseteq
       [phase : {"connecting", "open", "closing", "closed"},
        answer : {"none", "success", "failure"},
        login : {"none", "asked", "granted", "refused"},
        grants : SUBSET {"set_dcp", "subscribe"},
        dcp : {"no", "refused", "armed"}, subscribed : {"no", "refused", "bare", "taken"}]

(* The venue was asked for the switch and then for the subscription of a   *)
(* connection that is logged in: what it does not hold it has refused.     *)
Served(socket) == socket.dcp # "no" /\ socket.subscribed \in {"refused", "taken"}

(* No connection is ever subscribed to the account before its dead-man     *)
(* switch was asked for on that connection, logged in, whichever callbacks *)
(* of old sockets come in between; it is armed then, unless the venue      *)
(* refused (armDeadMansSwitch: "Sent BEFORE the subscribe").               *)
NeverBare == \A k \in SocketIds : sockets[k].subscribed # "no" => Served(sockets[k])

(* READY is said of a connection that is logged in, armed and subscribed,  *)
(* or refused one of these by the venue (the code does not look), as long  *)
(* as it has not begun to close: a reply that arrives after stop() or an   *)
(* error still sets READY, until the close event comes.                    *)
ReadyMeansAsked ==
  state = "READY" /\ ~hasty => \E k \in SocketIds : sockets[k].phase = "closing" \/ Served(sockets[k])

(* At most one connection streams the account: executions are not doubled. *)
OneStream ==
  ~hasty => \A j, k \in SocketIds : sockets[j].phase # "closed" /\ sockets[k].phase # "closed" => j = k

(* A rejected login opens nothing until start() (privateWs.ts: "retrying   *)
(* the same credentials would spin").                                      *)
OpensNothing == authRejected /\ authRejected' /\ ~hasty => Len(sockets') = Len(sockets)
RejectionIsFinal == [][OpensNothing]_vars

(* Once the network is quiet, a stream that should run stays ready on a    *)
(* connection that has all the venue grants it, even if start() was hasty. *)
StaysReady ==
  <>[](\/ starts = 0 \/ stopped \/ authRejected
       \/ state = "READY" /\ \E k \in SocketIds : Served(sockets[k]))
=============================================================================
