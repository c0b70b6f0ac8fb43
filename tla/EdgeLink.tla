------------------------------ MODULE EdgeLink ------------------------------
(***************************************************************************)
(* The WebSocket link over which an edge (SITE_MODE=edge) pushes decoded   *)
(* AIS reports to the central server: CentralClientService on the edge     *)
(* (connect, reconnect, heartbeat, ring buffer), the network between them, *)
(* and the side of IngestGateway / WsServerProvider that accepts sockets   *)
(* and takes reports in.                                                   *)
(*                                                                         *)
(* A report is its number: the r-th call of pushAis.  A socket is its      *)
(* number too; a socket the server never accepted leaves no trace, so its  *)
(* number is used again.  Bytes written to a socket sit in "wire" until    *)
(* the server reads them: the kernel may still deliver what an old socket  *)
(* wrote after the edge has opened a new one.  Timers fire after an        *)
(* arbitrary delay; only the clock that stamps buffered reports is kept,   *)
(* because only their age changes what the code does.                      *)
(***************************************************************************)
EXTENDS Naturals, Sequences, FiniteSets

CONSTANTS
  MaxReports,   \* reports pushed in a behaviour
  MaxConns,     \* sockets the server accepts in a behaviour
  MaxClock,     \* last value of the clock
  MaxFaults,    \* failures of path, server, socket or edge process
  BufferSpan,   \* BUFFER_MAX_MS, in ticks of the clock
  BufferCap     \* BUFFER_MAX_ITEMS

ASSUME EdgeLinkAssumption ==
  /\ MaxReports \in Nat
  /\ MaxConns \in Nat \ {0}
  /\ MaxClock \in Nat
  /\ MaxFaults \in Nat
  /\ BufferSpan \in Nat
  /\ BufferCap \in Nat \ {0}

Reports == 1..MaxReports
Conns == 1..MaxConns
Envelopes == [id : Reports, ts : 0..MaxClock]

VARIABLES
  ws,              \* readyState of this.ws
  conn,            \* the number of the socket this.ws is
  connected,       \* this.connected
  reconnectTimer,  \* a reconnect timer is pending
  pingTimer,       \* the ping interval is running
  pongTimer,       \* 0, or the socket whose pong the pending timer waits for
  stopped,         \* this.stopped: onModuleDestroy ran
  ringBuffer,      \* this.ringBuffer, oldest first
  pushed,          \* number of pushAis calls
  wire,            \* per socket, the envelopes written and not yet read
  server,          \* per socket, what the server knows of it
  received,        \* the envelopes the server took in, with their socket
  pathUp,          \* packets get through between edge and server
  centralUp,       \* the server process is running
  clock,           \* Date.now() of the edge
  faults           \* failures so far

timerVars == <<reconnectTimer, pingTimer, pongTimer>>
edgeVars == <<ws, conn, connected, timerVars, stopped>>
dataVars == <<ringBuffer, pushed, wire, received>>
netVars == <<server, pathUp, centralUp>>
boundVars == <<clock, faults>>
vars == <<edgeVars, dataVars, netVars, boundVars>>

ReadyStates == {"CONNECTING", "OPEN", "CLOSING", "CLOSED"}

\* A failure that no earlier event explains spends one of MaxFaults.
Fault == faults < MaxFaults /\ faults' = faults + 1

Init ==
  /\ \/ ws = "CONNECTING" /\ reconnectTimer = FALSE
     \/ ws = "CLOSED" /\ reconnectTimer = TRUE
  /\ conn = 1 /\ connected = FALSE
  /\ pingTimer = FALSE /\ pongTimer = 0
  /\ stopped = FALSE
  /\ ringBuffer = <<>> /\ pushed = 0
  /\ wire = [c \in Conns |-> <<>>] /\ received = {}
  /\ server = [c \in Conns |-> "none"]
  /\ pathUp \in BOOLEAN /\ centralUp \in BOOLEAN
  /\ clock = 0 /\ faults = 0

----------------------------------------------------------------------------
(* The ring buffer. *)

Expired(item) == item.ts + BufferSpan < clock

\* Reports are stamped in the order they are pushed, so the expired ones are
\* at the front: the loop of pushToBuffer and the filter of flushBuffer both
\* keep the rest.
ExpiredCount(buf) == Cardinality({i \in DOMAIN buf : Expired(buf[i])})

DropExpired(buf) == SubSeq(buf, ExpiredCount(buf) + 1, Len(buf))

DropOldest(buf) ==
  IF Len(buf) > BufferCap
  THEN SubSeq(buf, Len(buf) - BufferCap + 1, Len(buf))
  ELSE buf

\* Mutant: the newest report goes to the front.
PushToBufferFront(buf, item) == DropOldest(<<item>> \o DropExpired(buf))

\* Mutant: the envelope goes in without its time.
PushToBufferBare(buf, item) == DropOldest(Append(DropExpired(buf), [id |-> item.id]))

PushToBuffer(buf, item) == DropOldest(Append(DropExpired(buf), item))

\* Mutant: a flush sends what is too old, too.
FlushBufferStale ==
  /\ wire' = [wire EXCEPT ![conn] = @ \o ringBuffer]
  /\ ringBuffer' = <<>>

\* Mutant: the buffer is sent and never emptied.
FlushBufferKeeps ==
  /\ wire' = [wire EXCEPT ![conn] = @ \o DropExpired(ringBuffer)]
  /\ UNCHANGED ringBuffer

FlushBuffer ==
  /\ wire' = [wire EXCEPT ![conn] = @ \o DropExpired(ringBuffer)]
  /\ ringBuffer' = <<>>

----------------------------------------------------------------------------
(* The link: connect, reconnect, heartbeat. *)

\* Mutant: the interval is cleared and the pending pong timer is forgotten.
StopHeartbeatKeepsPong == pingTimer' = FALSE /\ UNCHANGED pongTimer

StopHeartbeat == pingTimer' = FALSE /\ pongTimer' = 0

\* Mutant: no retry once a connection has been up.
ScheduleReconnectOnlyBeforeOpen == reconnectTimer' = (reconnectTimer \/ ~connected)

ScheduleReconnect == IF stopped THEN UNCHANGED reconnectTimer ELSE reconnectTimer' = TRUE

\* connect: new WebSocket(centralUrl) ...
NewSocket ==
  /\ ws' = "CONNECTING" /\ reconnectTimer' = FALSE
  /\ IF server[conn] = "none" THEN conn' = conn
     ELSE conn < MaxConns /\ conn' = conn + 1

\* ... or its constructor throws: there is no socket, and a retry is scheduled.
ConstructorFails == ws' = "CLOSED" /\ reconnectTimer' = TRUE /\ UNCHANGED conn

ReconnectTimer ==
  /\ reconnectTimer /\ ~stopped
  /\ \/ NewSocket /\ UNCHANGED faults
     \/ ConstructorFails /\ Fault
  /\ UNCHANGED <<connected, pingTimer, pongTimer, stopped, dataVars, netVars, clock>>

\* The 'open' event: the buffer is flushed into the new socket before any
\* later report is written to it, and the heartbeat starts afresh.
OnOpen ==
  /\ ws = "CONNECTING" /\ server[conn] # "none" /\ pathUp /\ ~stopped
  /\ ws' = "OPEN" /\ connected' = TRUE
  /\ FlushBuffer
  /\ pingTimer' = TRUE /\ pongTimer' = 0
  /\ UNCHANGED <<conn, reconnectTimer, stopped, pushed, received, netVars, boundVars>>

\* The socket sees the peer's close before its 'close' event.
PeerCloses ==
  /\ ws = "OPEN" /\ server[conn] = "closed" /\ pathUp
  /\ ws' = "CLOSING"
  /\ UNCHANGED <<conn, connected, timerVars, stopped, dataVars, netVars, boundVars>>

\* The 'close' event ends a socket that is closing, or a handshake that was
\* refused or timed out (handshakeTimeout).
SocketEnds ==
  \/ ws = "CLOSING"
  \/ ws = "CONNECTING" /\ (~pathUp \/ ~centralUp \/ server[conn] = "closed")

OnClose ==
  /\ SocketEnds /\ ~stopped
  /\ ws' = "CLOSED" /\ connected' = FALSE
  /\ StopHeartbeat
  /\ ScheduleReconnect
  /\ UNCHANGED <<conn, stopped, dataVars, netVars, boundVars>>

\* The 'error' event only logs; 'close' follows and retries.
OnError ==
  /\ ws \in {"CONNECTING", "OPEN"} /\ ~stopped /\ Fault
  /\ ws' = "CLOSING"
  /\ UNCHANGED <<conn, connected, timerVars, stopped, dataVars, netVars, clock>>

\* The 10 s pong timer runs out before the next 30 s ping, so a ping never
\* finds one pending.
PingInterval ==
  /\ pingTimer /\ ws = "OPEN" /\ pongTimer = 0
  /\ pongTimer' = conn
  /\ UNCHANGED <<ws, conn, connected, reconnectTimer, pingTimer, stopped, dataVars, netVars, boundVars>>

OnPong ==
  /\ ws = "OPEN" /\ pongTimer # 0 /\ pathUp /\ server[conn] = "open" /\ ~stopped
  /\ pongTimer' = 0
  /\ UNCHANGED <<ws, conn, connected, reconnectTimer, pingTimer, stopped, dataVars, netVars, boundVars>>

\* Mutant: the timeout is logged and nothing else.
PongTimeoutLogs ==
  /\ pongTimer # 0
  /\ pongTimer' = 0
  /\ IF pathUp /\ server[conn] = "open" THEN Fault ELSE UNCHANGED faults
  /\ UNCHANGED <<ws, conn, connected, reconnectTimer, pingTimer, stopped, dataVars, netVars, clock>>

\* terminate() on whatever socket this.ws is by then.  With the path up and
\* the server there, a pong this late is a fault of its own.
PongTimeout ==
  /\ pongTimer # 0
  /\ pongTimer' = 0
  /\ ws' = IF ws = "CLOSED" THEN "CLOSED" ELSE "CLOSING"
  /\ IF pathUp /\ server[conn] = "open" THEN Fault ELSE UNCHANGED faults
  /\ UNCHANGED <<conn, connected, reconnectTimer, pingTimer, stopped, dataVars, netVars, clock>>

----------------------------------------------------------------------------
(* Reports. *)

Sendable == connected /\ ws = "OPEN"

PushAis ==
  /\ pushed < MaxReports
  /\ pushed' = pushed + 1
  /\ LET envelope == [id |-> pushed + 1, ts |-> clock]
     IN  IF Sendable
         THEN /\ wire' = [wire EXCEPT ![conn] = Append(@, envelope)]
              /\ UNCHANGED ringBuffer
         ELSE /\ ringBuffer' = PushToBuffer(ringBuffer, envelope)
              /\ UNCHANGED wire
  /\ UNCHANGED <<received, edgeVars, netVars, boundVars>>

\* handleIngest on the server: the next envelope of any socket it has open.
Ingest(c) ==
  /\ pathUp /\ server[c] = "open" /\ wire[c] # <<>>
  /\ received' = received \union {[id |-> Head(wire[c]).id, conn |-> c]}
  /\ wire' = [wire EXCEPT ![c] = Tail(@)]
  /\ UNCHANGED <<ringBuffer, pushed, edgeVars, netVars, boundVars>>

----------------------------------------------------------------------------
(* Process life cycle, network and time. *)

\* onModuleDestroy: listeners are removed before the socket is closed.
Stop ==
  /\ ~stopped /\ Fault
  /\ stopped' = TRUE
  /\ reconnectTimer' = FALSE /\ StopHeartbeat
  /\ ws' = IF ws = "CLOSED" THEN "CLOSED" ELSE "CLOSING"
  /\ UNCHANGED <<conn, connected, dataVars, netVars, clock>>

\* PM2 starts the process again, after a stop or a crash; memory is gone.
Restart ==
  /\ IF stopped THEN UNCHANGED faults ELSE Fault
  /\ NewSocket \/ ConstructorFails
  /\ connected' = FALSE /\ stopped' = FALSE
  /\ StopHeartbeat
  /\ ringBuffer' = <<>>
  /\ UNCHANGED <<pushed, wire, received, netVars, clock>>

Accept ==
  /\ ws = "CONNECTING" /\ server[conn] = "none" /\ pathUp /\ centralUp
  /\ server' = [server EXCEPT ![conn] = "open"]
  /\ UNCHANGED <<edgeVars, dataVars, pathUp, centralUp, boundVars>>

\* The edge has let go of socket c.
Abandoned(c) == c # conn \/ ws = "CLOSED" \/ stopped

\* The server sees the end of an abandoned socket after what was written to it.
ServerSeesEnd(c) ==
  /\ pathUp /\ server[c] = "open" /\ Abandoned(c) /\ wire[c] = <<>>
  /\ server' = [server EXCEPT ![c] = "closed"]
  /\ UNCHANGED <<edgeVars, dataVars, pathUp, centralUp, boundVars>>

\* What was written to a socket is lost with it.
LoseInFlight(c) ==
  /\ wire[c] # <<>>
  /\ Abandoned(c) \/ server[c] = "closed" \/ (c = conn /\ ws = "CLOSING")
  /\ wire' = [wire EXCEPT ![c] = <<>>]
  /\ UNCHANGED <<ringBuffer, pushed, received, edgeVars, netVars, boundVars>>

CutPath ==
  /\ pathUp /\ Fault
  /\ pathUp' = FALSE
  /\ UNCHANGED <<edgeVars, dataVars, server, centralUp, clock>>

HealPath ==
  /\ ~pathUp
  /\ pathUp' = TRUE
  /\ UNCHANGED <<edgeVars, dataVars, server, centralUp, boundVars>>

CentralStops ==
  /\ centralUp /\ Fault
  /\ centralUp' = FALSE
  /\ server' = [c \in Conns |-> IF server[c] = "open" THEN "closed" ELSE server[c]]
  /\ UNCHANGED <<edgeVars, dataVars, pathUp, clock>>

CentralStarts ==
  /\ ~centralUp
  /\ centralUp' = TRUE
  /\ UNCHANGED <<edgeVars, dataVars, server, pathUp, boundVars>>

Tick ==
  /\ clock < MaxClock
  /\ clock' = clock + 1
  /\ UNCHANGED <<edgeVars, dataVars, netVars, faults>>

Client ==
  \/ ReconnectTimer \/ OnOpen \/ PeerCloses \/ OnClose \/ OnError
  \/ PingInterval \/ OnPong \/ PongTimeout \/ PushAis

Environment ==
  \/ Stop \/ Restart \/ Accept \/ CutPath \/ HealPath
  \/ CentralStops \/ CentralStarts \/ Tick
  \/ \E c \in Conns : Ingest(c) \/ ServerSeesEnd(c) \/ LoseInFlight(c)

Next == Client \/ Environment

Spec == Init /\ [][Next]_vars

\* Timers fire, sockets that are over say so, the server accepts, and PM2
\* restarts a stopped process.  Nothing promises that the path heals, that
\* the server comes back, or that a report is ever pushed.
Fairness ==
  /\ WF_vars(ReconnectTimer) /\ WF_vars(OnOpen) /\ WF_vars(PeerCloses)
  /\ WF_vars(OnClose) /\ WF_vars(PingInterval) /\ WF_vars(OnPong)
  /\ WF_vars(PongTimeout) /\ WF_vars(Accept) /\ WF_vars(stopped /\ Restart)
  /\ \A c \in Conns : WF_vars(Ingest(c))

FairSpec == Spec /\ Fairness

----------------------------------------------------------------------------
(* Properties. *)

BufferedIds == {ringBuffer[i].id : i \in DOMAIN ringBuffer}
WireIds(c) == {wire[c][i].id : i \in DOMAIN wire[c]}
InFlightIds == UNION {WireIds(c) : c \in Conns}
ReceivedOn(c) == {m.id : m \in {n \in received : n.conn = c}}
ReceivedIds == {m.id : m \in received}

\* Every variable keeps its type.
TypeOK ==
  /\ ws \in ReadyStates /\ conn \in Conns
  /\ connected \in BOOLEAN /\ stopped \in BOOLEAN
  /\ reconnectTimer \in BOOLEAN /\ pingTimer \in BOOLEAN
  /\ pongTimer \in Conns \union {0}
  /\ ringBuffer \in Seq(Envelopes) /\ pushed \in 0..MaxReports
  /\ wire \in [Conns -> Seq(Envelopes)]
  /\ server \in [Conns -> {"none", "open", "closed"}]
  /\ received \subseteq [id : Reports, conn : Conns]
  /\ pathUp \in BOOLEAN /\ centralUp \in BOOLEAN
  /\ clock \in 0..MaxClock /\ faults \in 0..MaxFaults

\* The ring buffer never holds more than BUFFER_MAX_ITEMS reports.
BufferBounded == Len(ringBuffer) <= BufferCap

\* While reports go straight to the socket nothing is left in the buffer, so
\* a live report never overtakes a buffered one.
DrainedWhileConnected == Sendable => ringBuffer = <<>>

Increasing(s) == \A i, j \in DOMAIN s : i < j => s[i].id < s[j].id

\* Reports are put on the wire in the order they were pushed, over all the
\* sockets of the edge and over the buffer that is still to be flushed.
SendOrder ==
  /\ Increasing(ringBuffer)
  /\ \A c \in Conns :
       /\ Increasing(wire[c])
       /\ \A r \in ReceivedOn(c), s \in WireIds(c) : r < s
       /\ \A r \in WireIds(c) \union ReceivedOn(c) :
            /\ \A s \in BufferedIds : r < s
            /\ \A d \in Conns : c < d => \A s \in WireIds(d) \union ReceivedOn(d) : r < s

\* A pending pong timer waits for the socket in use: when it runs out it
\* cannot terminate a connection that was opened after the ping it belongs to.
PongTimerOfThisSocket == pongTimer # 0 => pongTimer = conn /\ pingTimer

\* A retry is pending only while there is no socket: at most one connection
\* attempt is under way.
OneAttempt == reconnectTimer => ws = "CLOSED" /\ ~connected

\* A client without a socket has a retry pending, until it is stopped.
AlwaysRetrying == ws = "CLOSED" /\ ~stopped => reconnectTimer

\* Of failed attempts, closed sockets and timers, exactly one retry comes.
RetryExactly == OneAttempt /\ AlwaysRetrying

\* A report leaves the buffer only for the wire, or because it is too old, or
\* because the buffer is full, or with the process; and what is too old is
\* never put on the wire.
BufferPolicy ==
  [][/\ \A i \in DOMAIN ringBuffer :
          \/ ringBuffer[i].id \in BufferedIds' \union InFlightIds'
          \/ Expired(ringBuffer[i])
          \/ Len(ringBuffer) = BufferCap /\ i = 1 /\ pushed' # pushed
          \/ Restart
     /\ \A c \in Conns : \A j \in (Len(wire[c]) + 1)..Len(wire'[c]) : ~Expired(wire'[c][j])]_vars

\* The link is an at-most-once channel.
Channel == INSTANCE ReportChannel WITH
  pending <- BufferedIds \union InFlightIds, received <- ReceivedIds
AtMostOnce == Channel!Spec

\* Once path and server stay up, the edge ends up connected for good.
ReconnectsForGood == <>[](pathUp /\ centralUp) => <>[]Sendable

\* A path that dies without a word is noticed: the heartbeat ends it.
SilentLinkNoticed == connected /\ ~pathUp ~> ~connected \/ pathUp
=============================================================================
