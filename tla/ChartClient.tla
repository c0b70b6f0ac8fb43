---------------------------- MODULE ChartClient ----------------------------
(***************************************************************************)
(* How a browser follows a server: RadarWebSocket and the AIS store of the *)
(* web client on one side, the '/ais' path of WsServerProvider and         *)
(* AisGateway on the other.  The operator may point the client to another  *)
(* server (setIPSetting), which closes the RadarWebSocket in use and makes *)
(* a new one; the 'close' event of the old one comes later.                *)
(*                                                                         *)
(* RadarWebSocket r is the r-th that was made; it has one browser socket   *)
(* at a time.  A browser drops what arrives once a socket is closing.      *)
(* What is kept of the data is the server it came from; the clock counts   *)
(* minutes, and the time-out of the data fires on time.                    *)
(***************************************************************************)
EXTENDS Naturals, Sequences

CONSTANTS
  Servers,
  NoData,         \* an empty list of vessels
  DataTimeout,    \* the two minutes of checkDataTimeout
  MaxSockets,     \* RadarWebSockets made in a behaviour
  MaxBroadcasts,  \* messages the servers broadcast in a behaviour
  MaxClock,       \* last minute of a behaviour
  MaxFaults       \* servers that stop, connections that break and paths that die

ASSUME ChartClientAssumption ==
  /\ NoData \notin Servers
  /\ DataTimeout \in Nat \ {0} /\ MaxSockets \in Nat \ {0}
  /\ MaxBroadcasts \in Nat /\ MaxClock \in Nat /\ MaxFaults \in Nat

VARIABLES
  aisIP,           \* the server of the IP setting
  aisSocket,       \* state.aisSocket, the last RadarWebSocket made
  url,             \* per RadarWebSocket, the server it connects to
  ws,              \* per RadarWebSocket, its browser socket
  isManualClose,   \* the RadarWebSockets that were closed on purpose
  reconnectTimer,  \* the RadarWebSockets with a reconnect timer
  isConnected, isReceivce,
  aisData,         \* the server whose vessels are shown, or NoData
  timers,          \* deadlines of the pending data time-outs
  timeoutId,       \* state.timeoutId: the deadline of its time-out, or 0
  running,         \* the servers that run
  aisConnected,    \* per server, AisGateway.aisConnected
  broadcasts, clock,
  lastData,        \* history: minute of the last data
  faults

socketVars == <<aisIP, aisSocket, url, isManualClose, reconnectTimer>>
statusVars == <<isConnected, isReceivce, aisData, timers, timeoutId, lastData>>
serverVars == <<running, aisConnected, broadcasts>>
vars == <<socketVars, ws, statusVars, serverVars, clock, faults>>

Sockets == 1..MaxSockets
Messages == [type : {"AISConnected"}, status : BOOLEAN] \union [type : {"AISData"}]
NoSocket == [phase |-> "none", peer |-> FALSE, inbox |-> <<>>]
NewSocket == [NoSocket EXCEPT !.phase = "connecting"]

\* "peer": the server has accepted the socket, holds it in pathClientMap and
\* reaches it.  A "dead" socket is OPEN to the browser, but its path is gone and
\* no event will say so: the client never sends, since startHeartbeat is
\* commented out.
Live(r) == ws[r].phase = "open" /\ ws[r].peer

Fault == faults < MaxFaults /\ faults' = faults + 1

Init ==
  /\ aisIP \in Servers /\ aisSocket = 1
  /\ url = [r \in Sockets |-> aisIP]
  /\ ws = [r \in Sockets |-> IF r = 1 THEN NewSocket ELSE NoSocket]
  /\ isManualClose = {} /\ reconnectTimer = {}
  /\ isConnected = FALSE /\ isReceivce = FALSE /\ aisData = NoData
  /\ timers = {} /\ timeoutId = 0
  /\ running \in SUBSET Servers /\ aisConnected \in [Servers -> BOOLEAN]
  /\ \A s \in Servers \ running : ~aisConnected[s]
  /\ broadcasts = 0 /\ clock = 0 /\ lastData = 0 /\ faults = 0

----------------------------------------------------------------------------
(* The browser. *)

\* Mutant: whatever closes is opened again.
ReconnectsAlways(r) == TRUE

\* Mutant: the flag is taken the wrong way round.
ReconnectsIfManual(r) == r \in isManualClose

Reconnects(r) == r \notin isManualClose

ClearDataTimeout == timers' = timers \ {timeoutId} /\ timeoutId' = 0

\* The 'close' event, for a server that went, refuses or answers our close.
\* The store is told whichever RadarWebSocket it is by now.
OnClose(r) ==
  /\ \/ ws[r].phase = "closing"
     \/ ws[r].phase = "open" /\ ~ws[r].peer
     \/ ws[r].phase = "connecting" /\ ~ws[r].peer /\ url[r] \notin running
  /\ ws' = [ws EXCEPT ![r] = [NoSocket EXCEPT !.phase = "closed"]]
  /\ ClearDataTimeout
  /\ isConnected' = FALSE
  /\ reconnectTimer' = IF Reconnects(r) THEN reconnectTimer \union {r} ELSE reconnectTimer
  /\ UNCHANGED <<aisIP, aisSocket, url, isManualClose, isReceivce, aisData, lastData,
                 serverVars, clock, faults>>

ReconnectTimer(r) ==
  /\ r \in reconnectTimer
  /\ reconnectTimer' = reconnectTimer \ {r}
  /\ ws' = [ws EXCEPT ![r] = NewSocket]
  /\ UNCHANGED <<aisIP, aisSocket, url, isManualClose, statusVars, serverVars, clock, faults>>

OnOpen(r) ==
  /\ ws[r].phase = "connecting" /\ ws[r].peer
  /\ ws' = [ws EXCEPT ![r].phase = "open"]
  /\ isConnected' = TRUE
  /\ UNCHANGED <<socketVars, isReceivce, aisData, timers, timeoutId, lastData, serverVars,
                 clock, faults>>

\* Mutant: the time-out of the data before stays.
CheckDataTimeoutAdds ==
  timers' = timers \union {clock + DataTimeout} /\ timeoutId' = clock + DataTimeout

CheckDataTimeout ==
  /\ timers' = (timers \ {timeoutId}) \union {clock + DataTimeout}
  /\ timeoutId' = clock + DataTimeout

OnMessage(r) ==
  /\ ws[r].phase = "open" /\ ws[r].inbox # <<>>
  /\ ws' = [ws EXCEPT ![r].inbox = Tail(@)]
  /\ \/ /\ Head(ws[r].inbox).type = "AISConnected"
        /\ isConnected' = Head(ws[r].inbox).status
        /\ UNCHANGED <<isReceivce, aisData, timers, timeoutId, lastData>>
     \/ /\ Head(ws[r].inbox).type = "AISData"
        /\ aisData' = url[r] /\ isReceivce' = TRUE /\ lastData' = clock
        /\ CheckDataTimeout
        /\ UNCHANGED isConnected
  /\ UNCHANGED <<socketVars, serverVars, clock, faults>>

DataTimesOut(deadline) ==
  /\ deadline \in timers /\ deadline = clock
  /\ timers' = timers \ {deadline}
  /\ isReceivce' = FALSE /\ timeoutId' = 0
  /\ UNCHANGED <<socketVars, ws, isConnected, aisData, lastData, serverVars, clock, faults>>

\* Mutant: the RadarWebSocket is let go of without being closed.
ClosedNever(socket) == socket

\* RadarWebSocket.close(), of its browser socket.
Closed(socket) ==
  IF socket.phase = "closed" THEN socket ELSE [NoSocket EXCEPT !.phase = "closing"]

\* setIPSetting: disconnectAISSocket, then connectAISSocket.
SetIPSetting(s) ==
  /\ aisSocket < MaxSockets
  /\ aisIP' = s /\ aisData' = NoData
  /\ ClearDataTimeout
  /\ isManualClose' = isManualClose \union {aisSocket}
  /\ reconnectTimer' = reconnectTimer \ {aisSocket}
  /\ isConnected' = FALSE
  /\ aisSocket' = aisSocket + 1
  /\ url' = [url EXCEPT ![aisSocket'] = s]
  /\ ws' = [ws EXCEPT ![aisSocket] = Closed(@), ![aisSocket'] = NewSocket]
  /\ UNCHANGED <<isReceivce, lastData, serverVars, clock, faults>>

----------------------------------------------------------------------------
(* The servers. *)

\* Mutant: the message goes out without the status.
GreetingBare(s) == <<[type |-> "AISConnected"]>>

Greeting(s) == <<[type |-> "AISConnected", status |-> aisConnected[s]]>>

Accept(r) ==
  /\ ws[r].phase = "connecting" /\ ~ws[r].peer /\ url[r] \in running
  /\ ws' = [ws EXCEPT ![r].peer = TRUE, ![r].inbox = Greeting(url[r])]
  /\ UNCHANGED <<socketVars, statusVars, serverVars, clock, faults>>

\* sendToPath: to every client the server holds.
SendToAll(s, message) ==
  /\ s \in running /\ broadcasts < MaxBroadcasts
  /\ broadcasts' = broadcasts + 1
  /\ ws' = [r \in Sockets |->
       IF ws[r].peer /\ url[r] = s THEN [ws[r] EXCEPT !.inbox = Append(@, message)] ELSE ws[r]]

SendAisDataToClients(s) ==
  /\ SendToAll(s, [type |-> "AISData"])
  /\ UNCHANGED <<socketVars, statusVars, running, aisConnected, clock, faults>>

BroadcastDeviceStatus(s, status) ==
  /\ aisConnected' = [aisConnected EXCEPT ![s] = status]
  /\ SendToAll(s, [type |-> "AISConnected", status |-> status])
  /\ UNCHANGED <<socketVars, statusVars, running, clock, faults>>

\* An accepted socket whose connection ends, before or after it was open.
Lost(socket) ==
  IF socket.phase = "connecting" THEN [NoSocket EXCEPT !.phase = "closing"]
  ELSE [socket EXCEPT !.peer = FALSE]

\* What the connection still carried may be lost with it.
ConnectionBreaks(r) ==
  /\ ws[r].peer /\ Fault
  /\ \E lost \in {Lost(ws[r]), [Lost(ws[r]) EXCEPT !.inbox = <<>>]} : ws' = [ws EXCEPT ![r] = lost]
  /\ UNCHANGED <<socketVars, statusVars, serverVars, clock>>

\* The path dies without a FIN.  (A handshake that stalls, or a close, is ended
\* by the browser's own time-out: ConnectionBreaks and OnClose.)
PathDies(r) ==
  /\ Live(r) /\ Fault
  /\ ws' = [ws EXCEPT ![r] = [NoSocket EXCEPT !.phase = "dead"]]
  /\ UNCHANGED <<socketVars, statusVars, serverVars, clock>>

ServerStops(s) ==
  /\ s \in running /\ Fault
  /\ running' = running \ {s}
  /\ aisConnected' = [aisConnected EXCEPT ![s] = FALSE]
  /\ ws' = [r \in Sockets |-> IF ws[r].peer /\ url[r] = s THEN Lost(ws[r]) ELSE ws[r]]
  /\ UNCHANGED <<socketVars, statusVars, broadcasts, clock>>

ServerStarts(s) ==
  /\ s \notin running
  /\ running' = running \union {s}
  /\ UNCHANGED <<socketVars, ws, statusVars, aisConnected, broadcasts, clock, faults>>

Tick ==
  /\ clock < MaxClock /\ \A deadline \in timers : clock < deadline
  /\ clock' = clock + 1
  /\ UNCHANGED <<socketVars, ws, statusVars, serverVars, faults>>

Next ==
  \/ \E r \in Sockets :
       OnClose(r) \/ ReconnectTimer(r) \/ OnOpen(r) \/ OnMessage(r) \/ Accept(r)
         \/ ConnectionBreaks(r) \/ PathDies(r)
  \/ \E s \in Servers :
       SetIPSetting(s) \/ SendAisDataToClients(s) \/ ServerStops(s) \/ ServerStarts(s)
  \/ \E s \in Servers, status \in BOOLEAN : BroadcastDeviceStatus(s, status)
  \/ \E deadline \in timers : DataTimesOut(deadline)
  \/ Tick

Spec == Init /\ [][Next]_vars

\* Events and timers come, and a server that runs accepts.  The close event is
\* promised only for a connection whose end the browser learns of: never for
\* one whose path died.  Nothing promises that a server starts or sends.
Fairness ==
  \A r \in Sockets :
    /\ WF_vars(OnClose(r)) /\ WF_vars(ReconnectTimer(r))
    /\ WF_vars(OnOpen(r)) /\ WF_vars(Accept(r))

FairSpec == Spec /\ Fairness

----------------------------------------------------------------------------
(* Properties. *)

\* Every variable keeps its type.
TypeOK ==
  /\ aisIP \in Servers /\ aisSocket \in Sockets
  /\ url \in [Sockets -> Servers]
  /\ \A r \in Sockets :
       /\ ws[r].phase \in {"none", "connecting", "open", "dead", "closing", "closed"}
       /\ ws[r].peer \in BOOLEAN
       /\ \A i \in DOMAIN ws[r].inbox : ws[r].inbox[i] \in Messages
  /\ isManualClose \subseteq Sockets /\ reconnectTimer \subseteq Sockets
  /\ isConnected \in BOOLEAN /\ isReceivce \in BOOLEAN
  /\ aisData \in Servers \union {NoData}
  /\ timers \subseteq 1..(MaxClock + DataTimeout) /\ timeoutId \in 0..(MaxClock + DataTimeout)
  /\ running \subseteq Servers /\ aisConnected \in [Servers -> BOOLEAN]
  /\ broadcasts \in 0..MaxBroadcasts /\ clock \in 0..MaxClock /\ lastData \in 0..MaxClock
  /\ faults \in 0..MaxFaults

\* Only the RadarWebSocket in the store is connected or will be: one that was
\* closed on purpose never comes back, whenever its events arrive.
OneLiveSocket ==
  \A r \in Sockets :
    ws[r].phase \in {"connecting", "open", "dead"} \/ r \in reconnectTimer => r = aisSocket

\* Setting.js:198: once the IP setting has changed, vessels of the server
\* before are not shown any more.
ShowsConfiguredServer == aisData \in {NoData, aisIP}

\* The alarm goes up only after two minutes without data.
NoFalseAlarm == [][isReceivce /\ ~isReceivce' => clock >= lastData + DataTimeout]_vars

\* Once the configured server stays up, the client is connected for good, unless
\* it is left with a socket whose path died silently: that one it never notices,
\* and only the operator gets it off (SetIPSetting).
ComesBack ==
  \A s \in Servers :
    <>[](s \in running /\ aisIP = s /\ ws[aisSocket].phase # "dead") => <>[]Live(aisSocket)

\* AISPage.vue:130: after two minutes without data the alarm is up.
SilenceAlarmed == isReceivce => clock <= lastData + DataTimeout
=============================================================================
