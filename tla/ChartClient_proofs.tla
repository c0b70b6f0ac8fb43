------------------------- MODULE ChartClient_proofs -------------------------
(***************************************************************************)
(* Proofs about ChartClient, for any servers, number of sockets, clock and *)
(* faults: its types, that a RadarWebSocket that was closed on purpose     *)
(* never comes back, that only vessels of the configured server are shown, *)
(* and that the alarm of the data time-out is never false.                 *)
(***************************************************************************)
EXTENDS ChartClient, TLAPS, SequenceTheorems

BrowserSockets ==
  [phase : {"none", "connecting", "open", "dead", "closing", "closed"}, peer : BOOLEAN,
   inbox : Seq(Messages)]

----------------------------------------------------------------------------
(* What the operators return. *)

LEMMA NoSocketTyped ==
  /\ NoSocket \in BrowserSockets /\ NewSocket \in BrowserSockets
  /\ [NoSocket EXCEPT !.phase = "closed"] \in BrowserSockets
  /\ [NoSocket EXCEPT !.phase = "closing"] \in BrowserSockets
  /\ [NoSocket EXCEPT !.phase = "dead"] \in BrowserSockets
  /\ NoSocket.phase = "none" /\ NewSocket.phase = "connecting"
  /\ [NoSocket EXCEPT !.phase = "closed"].phase = "closed"
  /\ [NoSocket EXCEPT !.phase = "closing"].phase = "closing"
  /\ [NoSocket EXCEPT !.phase = "dead"].phase = "dead"
<1>1. <<>> \in Seq(Messages)
  BY EmptySeq
<1> QED
  BY <1>1 DEF NoSocket, NewSocket, BrowserSockets

\* Nothing of a socket that is closed is live any more.
LEMMA ClosedTyped ==
  ASSUME NEW socket \in BrowserSockets
  PROVE  Closed(socket) \in BrowserSockets /\ Closed(socket).phase \in {"closing", "closed"}
  BY NoSocketTyped DEF Closed

\* A connection that ends makes no socket live that was not.
LEMMA LostTyped ==
  ASSUME NEW socket \in BrowserSockets
  PROVE  /\ Lost(socket) \in BrowserSockets
         /\ Lost(socket).phase \in {"connecting", "open", "dead"} => socket.phase = Lost(socket).phase
         /\ socket.phase = "none" => Lost(socket).phase = "none"
<1>1. CASE socket.phase = "connecting"
  BY <1>1, NoSocketTyped DEF Lost
<1>2. CASE socket.phase # "connecting"
  <2>1. Lost(socket) = [socket EXCEPT !.peer = FALSE]
    BY <1>2 DEF Lost
  <2> QED
    BY <2>1 DEF BrowserSockets
<1> QED
  BY <1>1, <1>2

\* What a server sends is a message, and what a socket reads was one.
LEMMA MessagesTyped ==
  /\ [type |-> "AISData"] \in Messages
  /\ \A status \in BOOLEAN : [type |-> "AISConnected", status |-> status] \in Messages
  /\ \A m \in Messages : m.type = "AISConnected" => m.status \in BOOLEAN
  BY DEF Messages

\* The inbox of a socket takes a message.
LEMMA SentTyped ==
  ASSUME NEW socket \in BrowserSockets, NEW message \in Messages
  PROVE  /\ [socket EXCEPT !.inbox = Append(@, message)] \in BrowserSockets
         /\ [socket EXCEPT !.inbox = Append(@, message)].phase = socket.phase
<1>1. Append(socket.inbox, message) \in Seq(Messages)
  BY AppendProperties DEF BrowserSockets
<1> QED
  BY <1>1 DEF BrowserSockets

\* Every other update of an inbox.
LEMMA InboxTyped ==
  ASSUME NEW socket \in BrowserSockets, NEW inbox \in Seq(Messages)
  PROVE  /\ [socket EXCEPT !.inbox = inbox] \in BrowserSockets
         /\ [socket EXCEPT !.inbox = inbox].phase = socket.phase
         /\ [socket EXCEPT !.peer = TRUE, !.inbox = inbox] \in BrowserSockets
         /\ [socket EXCEPT !.peer = TRUE, !.inbox = inbox].phase = socket.phase
  BY DEF BrowserSockets

----------------------------------------------------------------------------
(* Invariants. *)

WsTyped == ws \in [Sockets -> BrowserSockets]

\* RadarWebSockets are made one after the other: those before the one in use
\* were closed on purpose, and those after it do not exist yet.  Without it a
\* late 'close' event could start one of them again.
MadeInTurn ==
  \A r \in Sockets :
    /\ r < aisSocket => r \in isManualClose
    /\ r > aisSocket => ws[r].phase = "none"

\* The RadarWebSocket in use is the one of the IP setting.
Configured == url[aisSocket] = aisIP

\* There is one time-out at most, and it is that of the last data.
OneTimeout == \A deadline \in timers : deadline = timeoutId /\ deadline = lastData + DataTimeout

Phased(r) ==
  /\ ws'[r].phase \in {"connecting", "open", "dead"} \/ r \in reconnectTimer' =>
       ws[r].phase \in {"connecting", "open", "dead"} \/ r \in reconnectTimer
  /\ ws[r].phase = "none" => ws'[r].phase = "none"

SocketsSound == MadeInTurn /\ OneLiveSocket

\* A step that brings no socket to life keeps them as they should be.
LEMMA PhasesKept ==
  ASSUME SocketsSound, \A r \in Sockets : Phased(r), UNCHANGED <<aisSocket, isManualClose>>
  PROVE  SocketsSound'
  BY DEF SocketsSound, MadeInTurn, OneLiveSocket, Phased

----------------------------------------------------------------------------
(* The browser sockets. *)

\* Where the sockets change in a step: one of them, or the inboxes of many.
LEMMA OneSocketChanges ==
  ASSUME WsTyped, NEW r \in Sockets, NEW socket \in BrowserSockets,
         ws' = [ws EXCEPT ![r] = socket]
  PROVE  WsTyped' /\ ws'[r] = socket /\ \A t \in Sockets \ {r} : ws'[t] = ws[t]
  BY DEF WsTyped

LEMMA OnCloseSound ==
  ASSUME TypeOK, WsTyped, SocketsSound, NEW r \in Sockets, OnClose(r)
  PROVE  WsTyped' /\ SocketsSound'
<1>1. /\ WsTyped' /\ ws'[r].phase = "closed"
      /\ \A t \in Sockets \ {r} : ws'[t] = ws[t]
  BY NoSocketTyped, OneSocketChanges DEF OnClose
<1>2. r \in reconnectTimer' => r = aisSocket \/ r \in reconnectTimer
  <2>1. CASE r \in isManualClose
    BY <2>1 DEF OnClose, Reconnects
  <2>2. CASE r \notin isManualClose
    <3>1. r = aisSocket
      BY <2>2 DEF OnClose, SocketsSound, MadeInTurn, TypeOK, Sockets
    <3> QED
      BY <3>1
  <2> QED
    BY <2>1, <2>2
<1>3. /\ \A t \in Sockets \ {r} : t \in reconnectTimer' <=> t \in reconnectTimer
      /\ UNCHANGED <<aisSocket, isManualClose>>
  BY DEF OnClose
<1>4. ws[r].phase # "none"
  BY DEF OnClose
<1> QED
  BY <1>1, <1>2, <1>3, <1>4 DEF SocketsSound, MadeInTurn, OneLiveSocket

LEMMA ReconnectTimerSound ==
  ASSUME TypeOK, WsTyped, SocketsSound, NEW r \in Sockets, ReconnectTimer(r)
  PROVE  WsTyped' /\ SocketsSound'
<1>1. WsTyped' /\ \A t \in Sockets \ {r} : ws'[t] = ws[t]
  BY NoSocketTyped, OneSocketChanges DEF ReconnectTimer
<1>2. r = aisSocket /\ UNCHANGED <<aisSocket, isManualClose>>
  BY DEF ReconnectTimer, SocketsSound, OneLiveSocket
<1>3. reconnectTimer' \subseteq reconnectTimer
  BY DEF ReconnectTimer
<1> QED
  BY <1>1, <1>2, <1>3 DEF SocketsSound, MadeInTurn, OneLiveSocket, TypeOK, Sockets

LEMMA SetIPSettingSound ==
  ASSUME TypeOK, WsTyped, SocketsSound, NEW s \in Servers, SetIPSetting(s)
  PROVE  WsTyped' /\ SocketsSound' /\ Configured'
<1> DEFINE old == aisSocket
           new == aisSocket + 1
<1>1. old \in Sockets /\ new \in Sockets /\ old # new /\ aisSocket' = new
  BY ChartClientAssumption DEF SetIPSetting, TypeOK, Sockets
<1>2. Closed(ws[old]) \in BrowserSockets /\ Closed(ws[old]).phase \in {"closing", "closed"}
  BY <1>1, ClosedTyped DEF WsTyped
<1>3. /\ WsTyped' /\ ws'[old] = Closed(ws[old]) /\ ws'[new] = NewSocket
      /\ \A t \in Sockets \ {old, new} : ws'[t] = ws[t]
  BY <1>1, <1>2, NoSocketTyped DEF SetIPSetting, WsTyped
<1>4. isManualClose' = isManualClose \union {old} /\ reconnectTimer' = reconnectTimer \ {old}
  BY DEF SetIPSetting
<1>5. \A t \in Sockets : t < new <=> t < old \/ t = old
  BY <1>1 DEF Sockets
<1>6. \A t \in Sockets : t > new => t > old /\ t # old /\ t # new
  BY <1>1 DEF Sockets
<1>7. Configured'
  BY <1>1 DEF SetIPSetting, Configured, TypeOK
<1>8. MadeInTurn'
  BY <1>1, <1>3, <1>4, <1>5, <1>6 DEF SocketsSound, MadeInTurn
<1>9. OneLiveSocket'
  BY <1>1, <1>2, <1>3, <1>4 DEF SocketsSound, OneLiveSocket
<1> QED
  BY <1>3, <1>7, <1>8, <1>9 DEF SocketsSound

\* Whatever else happens to a socket: it opens, reads, is accepted, lost or dead.
LEMMA EventSound ==
  ASSUME TypeOK, WsTyped, SocketsSound, NEW r \in Sockets,
         OnOpen(r) \/ OnMessage(r) \/ Accept(r) \/ ConnectionBreaks(r) \/ PathDies(r)
  PROVE  WsTyped' /\ SocketsSound'
<1>1. ws[r] \in BrowserSockets
  BY DEF WsTyped
<1>2. ASSUME NEW socket \in BrowserSockets, ws' = [ws EXCEPT ![r] = socket],
             socket.phase \in {"connecting", "open", "dead"} => ws[r].phase \in {"connecting", "open", "dead"},
             ws[r].phase = "none" => socket.phase = "none",
             UNCHANGED <<aisSocket, isManualClose, reconnectTimer>>
      PROVE  WsTyped' /\ SocketsSound'
  <2>1. WsTyped' /\ ws'[r] = socket /\ \A t \in Sockets \ {r} : ws'[t] = ws[t]
    BY <1>2, OneSocketChanges
  <2> QED
    BY <1>2, <2>1, PhasesKept DEF Phased
<1>3. CASE OnOpen(r)
  <2>1. /\ [ws[r] EXCEPT !.phase = "open"] \in BrowserSockets
        /\ [ws[r] EXCEPT !.phase = "open"].phase = "open"
    BY <1>1 DEF BrowserSockets
  <2>2. ws' = [ws EXCEPT ![r] = [ws[r] EXCEPT !.phase = "open"]] /\ ws[r].phase = "connecting"
    BY <1>3 DEF OnOpen
  <2> QED
    BY <1>2, <1>3, <2>1, <2>2 DEF OnOpen, socketVars
<1>4. CASE OnMessage(r)
  <2>1. Tail(ws[r].inbox) \in Seq(Messages)
    BY <1>1, <1>4, HeadTailProperties DEF OnMessage, BrowserSockets
  <2>2. ws' = [ws EXCEPT ![r] = [ws[r] EXCEPT !.inbox = Tail(ws[r].inbox)]]
    BY <1>4 DEF OnMessage
  <2> QED
    BY <1>1, <1>2, <1>4, <2>1, <2>2, InboxTyped DEF OnMessage, socketVars
<1>5. CASE Accept(r)
  <2>1. Greeting(url[r]) \in Seq(Messages)
    <3>1. [type |-> "AISConnected", status |-> aisConnected[url[r]]] \in Messages
      BY MessagesTyped DEF TypeOK
    <3> QED
      BY <3>1 DEF Greeting
  <2>2. ws' = [ws EXCEPT ![r] = [ws[r] EXCEPT !.peer = TRUE, !.inbox = Greeting(url[r])]]
    BY <1>5 DEF Accept
  <2> QED
    BY <1>1, <1>2, <1>5, <2>1, <2>2, InboxTyped DEF Accept, socketVars
<1>6. CASE ConnectionBreaks(r)
  <2>1. Lost(ws[r]) \in BrowserSockets
    BY <1>1, LostTyped
  <2>2. <<>> \in Seq(Messages)
    BY EmptySeq
  <2>3. ASSUME NEW lost \in {Lost(ws[r]), [Lost(ws[r]) EXCEPT !.inbox = <<>>]}
        PROVE  lost \in BrowserSockets /\ lost.phase = Lost(ws[r]).phase
    BY <2>1, <2>2, InboxTyped, ZenonT(40)
  <2> QED
    BY <1>1, <1>2, <1>6, <2>3, LostTyped DEF ConnectionBreaks, socketVars
<1>7. CASE PathDies(r)
  <2>1. ws' = [ws EXCEPT ![r] = [NoSocket EXCEPT !.phase = "dead"]] /\ ws[r].phase = "open"
    BY <1>7 DEF PathDies, Live
  <2> QED
    BY <1>2, <1>7, <2>1, NoSocketTyped DEF PathDies, socketVars
<1> QED
  BY <1>3, <1>4, <1>5, <1>6, <1>7

\* What a server does to all its sockets.
LEMMA ServerSound ==
  ASSUME TypeOK, WsTyped, SocketsSound, NEW s \in Servers,
         \/ SendAisDataToClients(s) \/ ServerStops(s)
         \/ \E status \in BOOLEAN : BroadcastDeviceStatus(s, status)
  PROVE  WsTyped' /\ SocketsSound'
<1>1. ASSUME NEW message \in Messages, SendToAll(s, message), UNCHANGED socketVars
      PROVE  WsTyped' /\ SocketsSound'
  <2>1. \A r \in Sockets : ws'[r] \in BrowserSockets /\ ws'[r].phase = ws[r].phase
    BY <1>1, SentTyped DEF SendToAll, WsTyped
  <2>2. WsTyped'
    BY <1>1, <2>1 DEF SendToAll, WsTyped
  <2> QED
    BY <1>1, <2>1, <2>2, PhasesKept DEF Phased, socketVars
<1>2. CASE ServerStops(s)
  <2>1. \A r \in Sockets : ws'[r] = IF ws[r].peer /\ url[r] = s THEN Lost(ws[r]) ELSE ws[r]
    BY <1>2 DEF ServerStops
  <2>2. \A r \in Sockets : ws'[r] \in BrowserSockets /\ Phased(r)
    BY <1>2, <2>1, LostTyped DEF WsTyped, Phased, ServerStops, socketVars
  <2>3. WsTyped'
    BY <1>2, <2>2 DEF ServerStops, WsTyped
  <2> QED
    BY <1>2, <2>2, <2>3, PhasesKept DEF ServerStops, socketVars
<1> QED
  BY <1>1, <1>2, MessagesTyped DEF SendAisDataToClients, BroadcastDeviceStatus

\* Every step keeps the browser sockets in turn, and one of them live.
LEMMA SocketsStep ==
  ASSUME TypeOK, WsTyped, SocketsSound, [Next]_vars
  PROVE  WsTyped' /\ SocketsSound'
<1>1. ASSUME NEW r \in Sockets,
             OnClose(r) \/ ReconnectTimer(r) \/ OnOpen(r) \/ OnMessage(r) \/ Accept(r)
               \/ ConnectionBreaks(r) \/ PathDies(r)
      PROVE  WsTyped' /\ SocketsSound'
  BY <1>1, OnCloseSound, ReconnectTimerSound, EventSound
<1>2. ASSUME NEW s \in Servers, SetIPSetting(s) PROVE WsTyped' /\ SocketsSound'
  BY <1>2, SetIPSettingSound
<1>3. ASSUME NEW s \in Servers,
             \/ SendAisDataToClients(s) \/ ServerStops(s)
             \/ \E status \in BOOLEAN : BroadcastDeviceStatus(s, status)
      PROVE  WsTyped' /\ SocketsSound'
  BY <1>3, ServerSound
<1>4. ASSUME UNCHANGED <<socketVars, ws>> PROVE WsTyped' /\ SocketsSound'
  BY <1>4, PhasesKept DEF WsTyped, Phased, socketVars
<1>5. CASE Tick \/ UNCHANGED vars
  BY <1>4, <1>5 DEF Tick, vars
<1>6. ASSUME NEW s \in Servers, ServerStarts(s) PROVE WsTyped' /\ SocketsSound'
  BY <1>4, <1>6 DEF ServerStarts
<1>7. ASSUME NEW deadline \in timers, DataTimesOut(deadline) PROVE WsTyped' /\ SocketsSound'
  BY <1>4, <1>7 DEF DataTimesOut
<1> QED
  BY <1>1, <1>2, <1>3, <1>5, <1>6, <1>7 DEF Next

----------------------------------------------------------------------------
(* The data and its time-out. *)

\* The messages that change what is shown come from the configured server.
LEMMA ShownStep ==
  ASSUME TypeOK, WsTyped, SocketsSound, Configured, ShowsConfiguredServer, [Next]_vars
  PROVE  Configured' /\ ShowsConfiguredServer'
<1>1. ASSUME NEW r \in Sockets, OnMessage(r) PROVE Configured' /\ ShowsConfiguredServer'
  <2>1. r = aisSocket
    BY <1>1 DEF OnMessage, SocketsSound, OneLiveSocket
  <2>2. aisData' \in {aisData, url[r]} /\ UNCHANGED <<aisIP, aisSocket, url>>
    BY <1>1 DEF OnMessage, socketVars
  <2> QED
    BY <2>1, <2>2 DEF Configured, ShowsConfiguredServer
<1>2. ASSUME NEW s \in Servers, SetIPSetting(s) PROVE Configured' /\ ShowsConfiguredServer'
  <2>1. Configured'
    BY <1>2, SetIPSettingSound
  <2> QED
    BY <1>2, <2>1 DEF SetIPSetting, ShowsConfiguredServer
<1>3. ASSUME UNCHANGED <<aisIP, aisSocket, url, aisData>>
      PROVE  Configured' /\ ShowsConfiguredServer'
  BY <1>3 DEF Configured, ShowsConfiguredServer
<1>4. ASSUME NEW r \in Sockets,
             \/ OnClose(r) \/ ReconnectTimer(r) \/ OnOpen(r) \/ Accept(r)
             \/ ConnectionBreaks(r) \/ PathDies(r)
      PROVE  Configured' /\ ShowsConfiguredServer'
  BY <1>3, <1>4 DEF OnClose, ReconnectTimer, OnOpen, Accept, ConnectionBreaks, PathDies, socketVars, statusVars
<1>5. ASSUME NEW s \in Servers,
             \/ SendAisDataToClients(s) \/ ServerStops(s) \/ ServerStarts(s)
             \/ \E status \in BOOLEAN : BroadcastDeviceStatus(s, status)
      PROVE  Configured' /\ ShowsConfiguredServer'
  BY <1>3, <1>5 DEF SendAisDataToClients, ServerStops, ServerStarts, BroadcastDeviceStatus,
                    socketVars, statusVars
<1>6. ASSUME NEW deadline \in timers, DataTimesOut(deadline)
      PROVE  Configured' /\ ShowsConfiguredServer'
  BY <1>3, <1>6 DEF DataTimesOut, socketVars
<1>7. CASE Tick \/ UNCHANGED vars
  BY <1>3, <1>7 DEF Tick, vars, socketVars, statusVars
<1> QED
  BY <1>1, <1>2, <1>4, <1>5, <1>6, <1>7 DEF Next

\* What a step does to the time-out: nothing, it is cleared, or it starts anew
\* with the data.
LEMMA TimeoutSteps ==
  ASSUME TypeOK, [Next]_vars
  PROVE  \/ UNCHANGED <<timers, timeoutId, lastData>>
         \/ ClearDataTimeout /\ lastData' = lastData
         \/ CheckDataTimeout /\ lastData' = clock
         \/ \E deadline \in timers :
              timers' = timers \ {deadline} /\ timeoutId' = 0 /\ lastData' = lastData
<1>1. ASSUME NEW r \in Sockets,
             OnClose(r) \/ ReconnectTimer(r) \/ OnOpen(r) \/ OnMessage(r) \/ Accept(r)
               \/ ConnectionBreaks(r) \/ PathDies(r)
      PROVE  \/ UNCHANGED <<timers, timeoutId, lastData>>
             \/ ClearDataTimeout /\ lastData' = lastData
             \/ CheckDataTimeout /\ lastData' = clock
  BY <1>1 DEF OnClose, ReconnectTimer, OnOpen, OnMessage, Accept, ConnectionBreaks, PathDies, statusVars
<1>2. ASSUME NEW s \in Servers,
             \/ SetIPSetting(s) \/ SendAisDataToClients(s) \/ ServerStops(s) \/ ServerStarts(s)
             \/ \E status \in BOOLEAN : BroadcastDeviceStatus(s, status)
      PROVE  \/ UNCHANGED <<timers, timeoutId, lastData>>
             \/ ClearDataTimeout /\ lastData' = lastData
  BY <1>2 DEF SetIPSetting, SendAisDataToClients, ServerStops, ServerStarts,
              BroadcastDeviceStatus, statusVars
<1>3. CASE Tick \/ UNCHANGED vars
  BY <1>3 DEF Tick, vars, statusVars
<1>4. ASSUME NEW deadline \in timers, DataTimesOut(deadline)
      PROVE  timers' = timers \ {deadline} /\ timeoutId' = 0 /\ lastData' = lastData
  BY <1>4 DEF DataTimesOut
<1> QED
  BY <1>1, <1>2, <1>3, <1>4 DEF Next

LEMMA TimeoutStep ==
  ASSUME TypeOK, OneTimeout, [Next]_vars
  PROVE  OneTimeout'
<1>1. CASE UNCHANGED <<timers, timeoutId, lastData>>
  BY <1>1 DEF OneTimeout
<1>2. CASE ClearDataTimeout /\ lastData' = lastData
  BY <1>2 DEF OneTimeout, ClearDataTimeout
<1>3. CASE CheckDataTimeout /\ lastData' = clock
  BY <1>3 DEF OneTimeout, CheckDataTimeout
<1>4. ASSUME NEW deadline \in timers,
             timers' = timers \ {deadline}, timeoutId' = 0, lastData' = lastData
      PROVE  OneTimeout'
  BY <1>4 DEF OneTimeout
<1> QED
  BY <1>1, <1>2, <1>3, <1>4, TimeoutSteps

----------------------------------------------------------------------------
(* Types. *)

\* The browser sockets, as the type invariant puts it.
LEMMA WsTypes ==
  ASSUME WsTyped
  PROVE  \A r \in Sockets :
           /\ ws[r].phase \in {"none", "connecting", "open", "dead", "closing", "closed"}
           /\ ws[r].peer \in BOOLEAN
           /\ \A i \in DOMAIN ws[r].inbox : ws[r].inbox[i] \in Messages
<1> TAKE r \in Sockets
<1>1. ws[r] \in BrowserSockets
  BY DEF WsTyped
<1>2. ws[r].inbox \in Seq(Messages)
  BY <1>1 DEF BrowserSockets
<1>3. \A i \in DOMAIN ws[r].inbox : ws[r].inbox[i] \in Messages
  BY <1>2, LenProperties, ElementOfSeq
<1> QED
  BY <1>1, <1>3 DEF BrowserSockets

\* The types of what is not a browser socket.
RestTyped ==
  /\ aisIP \in Servers /\ aisSocket \in Sockets /\ url \in [Sockets -> Servers]
  /\ isManualClose \subseteq Sockets /\ reconnectTimer \subseteq Sockets
  /\ isConnected \in BOOLEAN /\ isReceivce \in BOOLEAN
  /\ aisData \in Servers \union {NoData}
  /\ timers \subseteq 1..(MaxClock + DataTimeout) /\ timeoutId \in 0..(MaxClock + DataTimeout)
  /\ running \subseteq Servers /\ aisConnected \in [Servers -> BOOLEAN]
  /\ broadcasts \in 0..MaxBroadcasts /\ clock \in 0..MaxClock /\ lastData \in 0..MaxClock
  /\ faults \in 0..MaxFaults

LEMMA RestStep ==
  ASSUME TypeOK, WsTyped, [Next]_vars
  PROVE  RestTyped'
<1> USE ChartClientAssumption
<1>1. RestTyped /\ 0 \in 0..(MaxClock + DataTimeout)
  BY DEF TypeOK, RestTyped
<1>2. /\ timers' \subseteq 1..(MaxClock + DataTimeout) /\ timeoutId' \in 0..(MaxClock + DataTimeout)
      /\ lastData' \in 0..MaxClock
  <2>1. clock + DataTimeout \in 1..(MaxClock + DataTimeout)
    BY <1>1 DEF RestTyped
  <2>2. CASE ClearDataTimeout /\ lastData' = lastData
    BY <1>1, <2>2 DEF RestTyped, ClearDataTimeout
  <2>3. CASE CheckDataTimeout /\ lastData' = clock
    <3>1. timers' \subseteq timers \union {clock + DataTimeout} /\ timeoutId' = clock + DataTimeout
      BY <2>3 DEF CheckDataTimeout
    <3>2. timeoutId' \in 0..(MaxClock + DataTimeout)
      BY <2>1, <3>1
    <3> QED
      BY <1>1, <2>1, <2>3, <3>1, <3>2 DEF RestTyped
  <2>4. CASE UNCHANGED <<timers, timeoutId, lastData>>
    BY <1>1, <2>4 DEF RestTyped
  <2>5. CASE \E deadline \in timers :
               timers' = timers \ {deadline} /\ timeoutId' = 0 /\ lastData' = lastData
    BY <1>1, <2>5 DEF RestTyped
  <2> QED
    BY <2>2, <2>3, <2>4, <2>5, TimeoutSteps
<1>3. ASSUME NEW r \in Sockets, OnMessage(r) PROVE RestTyped'
  <2>1. isConnected' \in BOOLEAN
    <3>1. ws[r].inbox \in Seq(Messages)
      BY DEF WsTyped, BrowserSockets
    <3>2. Head(ws[r].inbox) \in Messages
      BY <1>3, <3>1, HeadTailProperties DEF OnMessage
    <3>3. Head(ws[r].inbox).type = "AISConnected" => Head(ws[r].inbox).status \in BOOLEAN
      BY <3>2, MessagesTyped
    <3> QED
      BY <1>1, <1>3, <3>3 DEF OnMessage, RestTyped
  <2>2. aisData' \in Servers \union {NoData} /\ isReceivce' \in BOOLEAN
    BY <1>1, <1>3 DEF OnMessage, RestTyped
  <2> QED
    BY <1>1, <1>2, <1>3, <2>1, <2>2 DEF OnMessage, RestTyped, socketVars, serverVars
<1>4. ASSUME NEW r \in Sockets, OnClose(r) \/ ReconnectTimer(r) \/ OnOpen(r) \/ Accept(r)
      PROVE  RestTyped'
  BY <1>1, <1>2, <1>4
  DEF OnClose, ReconnectTimer, OnOpen, Accept, RestTyped, socketVars, statusVars, serverVars
<1>5. ASSUME NEW r \in Sockets, ConnectionBreaks(r) \/ PathDies(r) PROVE RestTyped'
  BY <1>1, <1>5 DEF ConnectionBreaks, PathDies, Fault, RestTyped, socketVars, statusVars, serverVars
<1>6. ASSUME NEW s \in Servers, SetIPSetting(s) PROVE RestTyped'
  <2>1. aisSocket' \in Sockets /\ url' \in [Sockets -> Servers]
    BY <1>1, <1>6 DEF SetIPSetting, RestTyped, Sockets
  <2> QED
    BY <1>1, <1>2, <1>6, <2>1 DEF SetIPSetting, RestTyped, serverVars
<1>7. ASSUME NEW s \in Servers, SendAisDataToClients(s) \/ ServerStops(s) \/ ServerStarts(s)
      PROVE  RestTyped'
  <2>1. CASE SendAisDataToClients(s)
    BY <1>1, <2>1, SMTT(30) DEF SendAisDataToClients, SendToAll, RestTyped, socketVars, statusVars
  <2>2. CASE ServerStops(s)
    BY <1>1, <2>2 DEF ServerStops, Fault, RestTyped, socketVars, statusVars
  <2>3. CASE ServerStarts(s)
    BY <1>1, <2>3 DEF ServerStarts, RestTyped, socketVars, statusVars
  <2> QED
    BY <1>7, <2>1, <2>2, <2>3
<1>8. ASSUME NEW s \in Servers, NEW status \in BOOLEAN, BroadcastDeviceStatus(s, status)
      PROVE  RestTyped'
  BY <1>1, <1>8, SMTT(30) DEF BroadcastDeviceStatus, SendToAll, RestTyped, socketVars, statusVars
<1>9. ASSUME NEW deadline \in timers, DataTimesOut(deadline) PROVE RestTyped'
  <2>1. isReceivce' = FALSE /\ UNCHANGED <<socketVars, isConnected, aisData, serverVars, clock, faults>>
    BY <1>9 DEF DataTimesOut
  <2> QED
    BY <1>1, <1>2, <2>1 DEF RestTyped, socketVars, serverVars
<1>10. CASE Tick
  <2>1. clock' \in 0..MaxClock
    BY <1>1, <1>10 DEF Tick, RestTyped
  <2> QED
    BY <1>1, <1>10, <2>1 DEF Tick, RestTyped, socketVars, statusVars, serverVars
<1>11. CASE UNCHANGED vars
  BY <1>1, <1>11 DEF vars, RestTyped, socketVars, statusVars, serverVars
<1> QED
  BY <1>3, <1>4, <1>5, <1>6, <1>7, <1>8, <1>9, <1>10, <1>11 DEF Next

----------------------------------------------------------------------------
(* The theorems. *)

IInv == WsTyped /\ RestTyped /\ MadeInTurn /\ OneLiveSocket /\ Configured
          /\ ShowsConfiguredServer /\ OneTimeout

LEMMA Typed == IInv => TypeOK
  BY WsTypes DEF IInv, TypeOK, RestTyped

LEMMA InitSound ==
  ASSUME Init
  PROVE  IInv
<1> USE ChartClientAssumption
<1>1. 1 \in Sockets /\ aisSocket = 1
  BY DEF Init, Sockets
<1>2. WsTyped
  BY NoSocketTyped DEF Init, WsTyped
<1>3. RestTyped
  <2>1. aisIP \in Servers /\ url \in [Sockets -> Servers] /\ aisConnected \in [Servers -> BOOLEAN]
    BY DEF Init
  <2>2. /\ 0 \in 0..MaxClock /\ 0 \in 0..(MaxClock + DataTimeout)
        /\ 0 \in 0..MaxBroadcasts /\ 0 \in 0..MaxFaults
    OBVIOUS
  <2> QED
    BY <1>1, <2>1, <2>2 DEF Init, RestTyped
<1>5. \A r \in Sockets : r # 1 => ws[r].phase = "none" /\ ~(r < 1)
  BY NoSocketTyped DEF Init, Sockets
<1>6. MadeInTurn /\ OneLiveSocket
  BY <1>1, <1>5 DEF Init, MadeInTurn, OneLiveSocket, Sockets
<1>7. Configured /\ ShowsConfiguredServer /\ OneTimeout
  BY <1>1 DEF Init, Configured, ShowsConfiguredServer, OneTimeout
<1> QED
  BY <1>2, <1>3, <1>6, <1>7 DEF IInv

LEMMA StepSound ==
  ASSUME IInv, [Next]_vars
  PROVE  IInv'
<1>1. TypeOK /\ WsTyped /\ SocketsSound /\ Configured /\ ShowsConfiguredServer /\ OneTimeout
  BY Typed DEF IInv, SocketsSound
<1>2. WsTyped' /\ SocketsSound'
  BY <1>1, SocketsStep
<1>3. Configured' /\ ShowsConfiguredServer'
  BY <1>1, ShownStep
<1>4. OneTimeout'
  BY <1>1, TimeoutStep
<1>5. RestTyped'
  BY <1>1, RestStep
<1> QED
  BY <1>2, <1>3, <1>4, <1>5 DEF IInv, SocketsSound

\* The invariant holds throughout.
LEMMA AlwaysSound == Spec => []IInv
<1>1. Init => IInv
  BY InitSound
<1>2. IInv /\ [Next]_vars => IInv'
  BY StepSound
<1> QED
  BY <1>1, <1>2, PTL DEF Spec

\* Every variable keeps its type.
THEOREM ChartClientTyped == Spec => []TypeOK
  BY Typed, AlwaysSound, PTL

\* A RadarWebSocket that was closed on purpose never comes back.
THEOREM ClosedForGood == Spec => []OneLiveSocket
<1>1. IInv => OneLiveSocket
  BY DEF IInv
<1> QED
  BY <1>1, AlwaysSound, PTL

\* Only vessels of the configured server are shown.
THEOREM ShowsTheConfigured == Spec => []ShowsConfiguredServer
<1>1. IInv => ShowsConfiguredServer
  BY DEF IInv
<1> QED
  BY <1>1, AlwaysSound, PTL

\* The alarm goes up only after DataTimeout minutes without data.
THEOREM AlarmsAreTrue == Spec => NoFalseAlarm
<1>1. ASSUME IInv, [Next]_vars
      PROVE  [isReceivce /\ ~isReceivce' => clock >= lastData + DataTimeout]_vars
  <2>1. ASSUME NEW deadline \in timers, DataTimesOut(deadline)
        PROVE  clock >= lastData + DataTimeout
    BY <1>1, <2>1, ChartClientAssumption DEF DataTimesOut, IInv, OneTimeout, RestTyped
  <2>2. CASE ~\E deadline \in timers : DataTimesOut(deadline)
    <3>1. isReceivce' = isReceivce \/ isReceivce' = TRUE
      BY <1>1, <2>2
      DEF Next, vars, OnClose, ReconnectTimer, OnOpen, OnMessage, Accept, ConnectionBreaks, PathDies,
          SetIPSetting, SendAisDataToClients, BroadcastDeviceStatus, ServerStops, ServerStarts,
          Tick, statusVars
    <3> QED
      BY <3>1
  <2> QED
    BY <2>1, <2>2
<1> QED
  BY <1>1, AlwaysSound, PTL DEF Spec, NoFalseAlarm
=============================================================================
