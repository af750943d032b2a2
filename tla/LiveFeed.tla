------------------------------ MODULE LiveFeed ------------------------------
(***************************************************************************)
(* The dashboard's live channel: the server's fan-out (bus.ts, ws.ts), the *)
(* browser's socket (useLiveFeed.ts) and the token gate around it          *)
(* (App.tsx, TokenGate.tsx).  A server event is [type, payload].  Status   *)
(* stands for every event whose payload replaces what the page shows       *)
(* (account, positions, breaker); trades and logs are merged by id.        *)
(***************************************************************************)
EXTENDS Integers, Sequences, SequencesExt, FiniteSetsExt, Sums

CONSTANTS
  Tokens,      \* API tokens the server may run with
  Trades,      \* trades the engine opens and closes
  StrictModes, \* {TRUE} in development: React runs the first effect twice
  Sockets,     \* bound: 1 .. n, sockets of the page at one time
  MaxLogs, Replayed, MaxShown,  \* server buffer, lines replayed, lines shown
  MaxEvents,   \* bound: events the server publishes
  MaxFaults    \* bound: dropped connections and server restarts

VARIABLES
  server,   \* token, cors, status, logs, trades, nextLog
  sockets,  \* phase, inbox
  page,     \* auth, token, timers
  client,   \* connected, unauthorised, status, logs, trades
  raced,    \* history: a socket closed by an effect's clean-up reported late
  missed,   \* history: a trade event reached no socket
  events, faults
feedVars == <<server, sockets, page, client, raced, missed, events, faults>>

NoSocket == [phase |-> "none", inbox |-> <<>>]
Blank == [connected |-> FALSE, unauthorised |-> FALSE, status |-> "none", logs |-> <<>>, trades |-> <<>>]

Init ==
  /\ server \in [token : Tokens, cors : {TRUE}, status : {"STOPPED"}, logs : {<<>>},
                 trades : {[t \in Trades |-> "none"]}, nextLog : {1}]
  /\ sockets = [i \in Sockets |-> NoSocket]
  /\ page \in [auth : {"checking"}, token : Tokens, timers : {0}]
  /\ client = Blank /\ raced = FALSE /\ missed = FALSE /\ events = 0 /\ faults = 0
-----------------------------------------------------------------------------
Live(i)    == sockets[i].phase \in {"connecting", "open"}
Subscribed == {i \in Sockets : sockets[i].phase = "open"}
LastOf(s, n) == SubSeq(s, Max({1, Len(s) - n + 1}), Len(s))
Connect(socks) ==
  LET i == Min({i \in Sockets : socks[i] = NoSocket}) IN [socks EXCEPT ![i].phase = "connecting"]
Room == \E i \in Sockets : sockets[i] = NoSocket

(* bus.emitEvent reaches every socket that is still subscribed.            *)
Deliver(event) ==
  sockets' = [i \in Sockets |->
    IF i \in Subscribed THEN [sockets[i] EXCEPT !.inbox = Append(@, event)] ELSE sockets[i]]
Publish(event) ==
  /\ events < MaxEvents /\ events' = events + 1
  /\ Deliver(event)
  /\ missed' = (missed \/ (event.type = "trade" /\ Subscribed = {}))
  /\ UNCHANGED <<page, client, raced, faults>>

Logged == [server EXCEPT !.logs = LastOf(Append(@, server.nextLog), MaxLogs), !.nextLog = @ + 1]

PublishStatus ==
  LET new == IF server.status = "STOPPED" THEN "RUNNING" ELSE "STOPPED"
  IN  server' = [server EXCEPT !.status = new] /\ Publish([type |-> "status", payload |-> new])
PublishLog == server' = Logged /\ Publish([type |-> "log", payload |-> server.nextLog])
PublishTrade(t) ==
  LET new == IF server.trades[t] = "none" THEN "open" ELSE "closed"
  IN  /\ server.trades[t] # "closed"
      /\ server' = [server EXCEPT !.trades[t] = new]
      /\ Publish([type |-> "trade", payload |-> <<t, new>>])

(* A restart drops the sockets, empties the log buffer and may change what *)
(* the environment configures; the trades are in the database.             *)
RestartServer(token, cors) ==
  /\ faults < MaxFaults /\ faults' = faults + 1
  /\ server' = [server EXCEPT !.token = token, !.cors = cors, !.status = "STOPPED", !.logs = <<>>]
  /\ sockets' = [i \in Sockets |-> IF Live(i) THEN [phase |-> "dropped", inbox |-> <<>>] ELSE sockets[i]]
  /\ missed' = (missed \/ \E i \in Sockets : sockets[i].inbox # <<>>)
  /\ UNCHANGED <<page, client, raced, events>>

(* ws.ts: the handler refuses or sends the current state, then subscribes; *)
(* both ways the browser first sees the socket open.                       *)
StateReplay ==
  <<[type |-> "status", payload |-> server.status]>>
    \o [i \in 1 .. Min({Replayed, Len(server.logs)}) |->
          [type |-> "log", payload |-> LastOf(server.logs, Replayed)[i]]]

Handshake(i) ==
  /\ sockets[i].phase = "connecting"
  /\ LET answer == CASE ~server.cors -> [phase |-> "foreign", inbox |-> <<>>]
                     [] server.cors /\ page.token # server.token -> [phase |-> "refused", inbox |-> <<>>]
                     [] OTHER -> [phase |-> "open", inbox |-> StateReplay]
     IN  sockets' = [sockets EXCEPT ![i] = answer]
  /\ client' = [client EXCEPT !.connected = TRUE]
  /\ UNCHANGED <<server, page, raced, missed, events, faults>>

Drop(i) ==
  /\ Live(i) /\ faults < MaxFaults /\ faults' = faults + 1
  /\ sockets' = [sockets EXCEPT ![i] = [phase |-> "dropped", inbox |-> <<>>]]
  /\ missed' = (missed \/ sockets[i].inbox # <<>>)
  /\ UNCHANGED <<server, page, client, raced, events>>
-----------------------------------------------------------------------------
(* useLiveFeed: onmessage.                                                 *)
WithoutTrade(rows, t) == Kept(rows, {i \in DOMAIN rows : rows[i][1] # t})

WithTradeTwice(rows, row) == LastOf(Append(rows, row), MaxShown)  \* mutant: appends both

WithTrade(rows, row) == LastOf(Append(WithoutTrade(rows, row[1]), row), MaxShown)

WithLog(lines, id) == IF Contains(lines, id) THEN lines ELSE LastOf(Append(lines, id), MaxShown)

Receive(i) ==
  /\ sockets[i].phase = "open" /\ sockets[i].inbox # <<>>
  /\ LET event == Head(sockets[i].inbox)
     IN  client' = CASE event.type = "status" -> [client EXCEPT !.status = event.payload]
                     [] event.type = "trade"  -> [client EXCEPT !.trades = WithTrade(@, event.payload)]
                     [] event.type = "log"    -> [client EXCEPT !.logs = WithLog(@, event.payload)]
  /\ sockets' = [sockets EXCEPT ![i].inbox = Tail(@)]
  /\ UNCHANGED <<server, page, raced, missed, events, faults>>

(* onclose.  closedByUs is already FALSE again when the socket that the    *)
(* first of two effects closed reports.                                    *)
OnClose(i) ==
  LET phase == sockets[i].phase
  IN  /\ phase \in {"foreign", "refused", "dropped", "closing"}
      /\ sockets' = [sockets EXCEPT ![i] = NoSocket]
      /\ client' = [client EXCEPT !.connected = FALSE, !.unauthorised = @ \/ phase = "refused"]
      /\ page' = IF phase \in {"dropped", "closing"} THEN [page EXCEPT !.timers = @ + 1] ELSE page
      /\ raced' = (raced \/ phase = "closing")
      /\ UNCHANGED <<server, missed, events, faults>>

Reconnect ==
  /\ page.timers > 0 /\ Room
  /\ page' = [page EXCEPT !.timers = @ - 1]
  /\ sockets' = Connect(sockets)
  /\ UNCHANGED <<server, client, raced, missed, events, faults>>
-----------------------------------------------------------------------------
(* App: AuthenticatedApp mounts with a feed of its own; StrictMode runs    *)
(* connect, clean-up and connect again.                                    *)
Mounted(strict) ==
  LET none  == [i \in Sockets |-> NoSocket]
      first == IF strict THEN [none EXCEPT ![1].phase = "closing"] ELSE none
  IN  sockets' = Connect(first) /\ client' = Blank

(* The probe on load: an unreachable server counts as authenticated.       *)
Probe(reachable, strict) ==
  /\ page.auth = "checking"
  /\ IF reachable /\ page.token # server.token
     THEN page' = [page EXCEPT !.auth = "required"] /\ UNCHANGED <<sockets, client>>
     ELSE page' = [page EXCEPT !.auth = "authenticated"] /\ Mounted(strict)
  /\ UNCHANGED <<server, raced, missed, events, faults>>

(* A rejected socket brings the gate back and unmounts the feed.           *)
OnUnauthorised ==
  /\ page.auth = "authenticated" /\ client.unauthorised
  /\ page' = [page EXCEPT !.auth = "required", !.timers = 0]
  /\ sockets' = [i \in Sockets |-> NoSocket]
  /\ UNCHANGED <<server, client, raced, missed, events, faults>>

(* TokenGate.submit with the right token; a wrong one leaves the gate.     *)
Submit(strict) ==
  /\ page.auth = "required"
  /\ page' = [page EXCEPT !.auth = "authenticated", !.token = server.token]
  /\ Mounted(strict)
  /\ raced' = FALSE /\ missed' = TRUE
  /\ UNCHANGED <<server, events, faults>>

Next ==
  \/ PublishStatus \/ PublishLog \/ \E t \in Trades : PublishTrade(t)
  \/ \E token \in Tokens, cors \in BOOLEAN : RestartServer(token, cors)
  \/ \E i \in Sockets : Handshake(i) \/ Drop(i) \/ Receive(i) \/ OnClose(i)
  \/ Reconnect \/ OnUnauthorised
  \/ \E strict \in StrictModes : Submit(strict) \/ \E reachable \in BOOLEAN : Probe(reachable, strict)
-----------------------------------------------------------------------------
Phases == {"none", "connecting", "open", "foreign", "refused", "dropped", "closing"}
Rows   == Trades \X {"open", "closed"}
Events == [type : {"status"}, payload : {"STOPPED", "RUNNING"}] \cup [type : {"log"}, payload : Nat]
            \cup [type : {"trade"}, payload : Rows]

TypeOk ==
  /\ server \in [token : Tokens, cors : BOOLEAN, status : {"STOPPED", "RUNNING"}, logs : Seq(Nat),
                 trades : [Trades -> {"none", "open", "closed"}], nextLog : Nat]
  /\ sockets \in [Sockets -> [phase : Phases, inbox : Seq(Events)]]
  /\ page \in [auth : {"checking", "required", "authenticated"}, token : Tokens, timers : Nat]
  /\ client \in [connected : BOOLEAN, unauthorised : BOOLEAN, status : {"none", "STOPPED", "RUNNING"},
                 logs : Seq(Nat), trades : Seq(Rows)]
  /\ Len(server.logs) <= MaxLogs /\ Len(client.logs) <= MaxShown
  /\ raced \in BOOLEAN /\ missed \in BOOLEAN /\ events \in 0 .. MaxEvents /\ faults \in 0 .. MaxFaults

(* Whatever is replayed, no row is shown twice, and a socket is only ever  *)
(* fed under the server's own token.  Unless a cleaned-up socket reported  *)
(* late (and a second socket replays an older state over the newer one),   *)
(* the page shows the server's status once everything sent has arrived,    *)
(* and its trades if no trade event was published to nobody; there is one  *)
(* connection attempt at a time, none after a refused token, and the log   *)
(* is in order.                                                            *)
FeedHolds ==
  LET settled == Subscribed # {} /\ \A i \in Sockets : sockets[i].inbox = <<>>
      waiting == page.timers + Cardinality({i \in Sockets : sockets[i].phase # "none"})
  IN  /\ IsInjective(client.logs) /\ IsInjective([i \in DOMAIN client.trades |-> client.trades[i][1]])
      /\ settled /\ ~raced => client.status = server.status
      /\ settled /\ ~raced /\ ~missed =>
           \A i \in DOMAIN client.trades : client.trades[i][2] = server.trades[client.trades[i][1]]
      /\ Subscribed # {} => page.token = server.token
      /\ ~raced /\ (\A i \in Sockets : sockets[i].phase # "closing") =>
           /\ waiting <= 1
           /\ client.unauthorised => waiting = 0
           /\ client.connected => waiting = 1
           /\ \A i \in 1 .. Len(client.logs) - 1 : client.logs[i] < client.logs[i + 1]
-----------------------------------------------------------------------------
(* The inductive invariant behind FeedHolds, of PartsProofs.  Only an open *)
(* socket carries messages, and without the gate there is none.            *)
Active(i) == sockets[i].phase \notin {"none", "closing"}

Contained ==
  /\ \A i \in Sockets : sockets[i].phase # "open" => sockets[i].inbox = <<>>
  /\ page.auth # "authenticated" => page.timers = 0 /\ \A i \in Sockets : sockets[i] = NoSocket
  /\ Subscribed # {} => page.token = server.token

(* One connection attempt: a socket or a timer. *)
Alone ==
  /\ \A i, j \in Sockets : Active(i) /\ Active(j) => i = j
  /\ page.timers <= 1
  /\ page.timers = 1 \/ client.unauthorised => \A i \in Sockets : ~Active(i)
  /\ client.unauthorised => page.timers = 0
  /\ client.connected => \E i \in Sockets : Active(i)

(* Log lines are numbered without a gap where they are written.            *)
Numbered ==
  /\ \A k \in DOMAIN server.logs : server.logs[k] = server.nextLog - 1 - Len(server.logs) + k
  /\ \A k \in DOMAIN client.logs : client.logs[k] < server.nextLog
  /\ \A i \in Sockets : \A k \in DOMAIN sockets[i].inbox :
       sockets[i].inbox[k].type = "log" => sockets[i].inbox[k].payload < server.nextLog

(* A line of the server is shown, or newer than what is.                   *)
ShownOrNewer(lines, id) == Contains(lines, id) \/ \A k \in DOMAIN lines : lines[k] < id

InOrder ==
  /\ \A k, l \in DOMAIN client.logs : k < l => client.logs[l] - client.logs[k] >= l - k
  /\ \A i \in Sockets : \A k \in DOMAIN sockets[i].inbox :
       sockets[i].inbox[k].type = "log" =>
         /\ ShownOrNewer(client.logs, sockets[i].inbox[k].payload)
         /\ \A l \in DOMAIN sockets[i].inbox :
              k < l /\ sockets[i].inbox[l].type = "log" =>
                sockets[i].inbox[k].payload < sockets[i].inbox[l].payload
  /\ \A k \in DOMAIN server.logs : k > Len(server.logs) - Replayed =>
       /\ ShownOrNewer(client.logs, server.logs[k])
       /\ \A i \in Subscribed :
            \/ Contains(client.logs, server.logs[k])
            \/ \E l \in DOMAIN sockets[i].inbox :
                 sockets[i].inbox[l] = [type |-> "log", payload |-> server.logs[k]]

(* The last status on its way, or the one shown, is the server's; and of   *)
(* each trade the last event on its way, or the row shown.                 *)
LastStatus(s, k) == s[k].type = "status" /\ \A l \in DOMAIN s : l > k => s[l].type # "status"
About(e, t)      == e.type = "trade" /\ e.payload[1] = t
LastTrade(s, k, t) == About(s[k], t) /\ \A l \in DOMAIN s : l > k => ~About(s[l], t)

StatusComes ==
  \A i \in Subscribed :
    LET s == sockets[i].inbox
    IN  /\ \A k \in DOMAIN s : LastStatus(s, k) => s[k].payload = server.status
        /\ (\A k \in DOMAIN s : s[k].type # "status") => client.status = server.status

TradesCome ==
  \A t \in Trades :
    /\ \A i \in Sockets : \A k \in DOMAIN sockets[i].inbox :
         LastTrade(sockets[i].inbox, k, t) => sockets[i].inbox[k].payload[2] = server.trades[t]
    /\ (\A i \in Sockets : \A k \in DOMAIN sockets[i].inbox : ~About(sockets[i].inbox[k], t)) =>
         \A r \in DOMAIN client.trades : client.trades[r][1] = t => client.trades[r][2] = server.trades[t]

NoRepeats == /\ IsInjective(client.logs)
             /\ \A k, l \in DOMAIN client.trades : client.trades[k][1] = client.trades[l][1] => k = l

Flowing == /\ Numbered /\ NoRepeats
           /\ ~raced => InOrder /\ StatusComes /\ (~missed => TradesCome)

FeedInv == TypeOk /\ Contained /\ (~raced => Alone) /\ Flowing
=============================================================================
