----------------------------- MODULE DeviceLink -----------------------------
(***************************************************************************)
(* How AisService keeps its AIS receivers attached: one serial port per    *)
(* configured path, or one TCP connection, with reconnect timers, a        *)
(* drought watchdog, and a reload whenever the operator saves another      *)
(* communication setting.                                                  *)
(*                                                                         *)
(* A SerialPort object lives in a slot of its path: it may outlive its     *)
(* entry in portStates, because close() and open() end asynchronously and  *)
(* the entry is dropped at once.  A port keeps its listeners while "bound" *)
(* (removeAllListeners unbinds it); the callback given to open() runs in   *)
(* any case.  The operating system lets one object hold a path at a time.  *)
(*                                                                         *)
(* A step is one event handler with the promise continuations it starts:   *)
(* the setting is read from the in-process cache, so no timer or socket    *)
(* event comes between.  SerialPort.list() is a real wait (see retrying).  *)
(* Timers fire after an arbitrary delay.                                   *)
(***************************************************************************)
EXTENDS Naturals, FiniteSets

CONSTANTS
  Paths,        \* serial port paths
  Tcp,          \* the key 'tcp' of the reconnect timers
  Configs,      \* the communication settings an operator may save
  Slots,        \* SerialPort objects per path, and TCP sockets, at a time
  MaxReloads,   \* settings saved in a behaviour
  MaxFaults     \* failures of devices in a behaviour

AllConfigs ==
  {[type |-> "serial", ports |-> ps] : ps \in SUBSET Paths}
    \union {[type |-> "tcp", ports |-> {}]}

ASSUME DeviceLinkAssumption ==
  /\ Tcp \notin Paths
  /\ Configs \subseteq AllConfigs /\ Configs # {}
  /\ Slots \in Nat \ {0}
  /\ MaxReloads \in Nat /\ MaxFaults \in Nat

Keys == Paths \union {Tcp}
SlotIds == 1..Slots

VARIABLES
  config,       \* communicationType and the configured ports
  serial,       \* per path and slot, the phase of a SerialPort and whether it is bound
  portStates,   \* per path, the slot of the registered port, or 0
  intentionallyClosedPaths,
  reconnectTimeouts,   \* the keys with a reconnect timer
  retrying,     \* paths whose timer callback waits for SerialPort.list()
  sock,         \* per slot, the phase of a TCP socket
  tcpClient,    \* the slot of this.tcpClient, or 0
  isDeviceConnected,
  portLastDataAt,      \* per key: no entry, within droughtMs, or longer ago
  plugged,      \* the paths whose device is there
  tcpUp,        \* the TCP device accepts connections
  reloads, faults,
  overtaken     \* history: paths whose retry waited when the setting last changed

serialVars == <<serial, portStates, intentionallyClosedPaths, retrying>>
tcpVars == <<sock, tcpClient>>
deviceVars == <<plugged, tcpUp>>
reloadVars == <<reloads, overtaken>>
vars == <<config, serialVars, reconnectTimeouts, tcpVars, isDeviceConnected,
          portLastDataAt, deviceVars, reloadVars, faults>>

Fault == faults < MaxFaults /\ faults' = faults + 1

----------------------------------------------------------------------------
(* Helpers. *)

Ports == [phase : {"free", "opening", "open", "closing"}, bound : BOOLEAN]
NoPort == [phase |-> "free", bound |-> FALSE]
NewPort == [phase |-> "opening", bound |-> TRUE]

AnyOf(S) == CHOOSE k \in S : TRUE
FreeSlots(objects) == {k \in SlotIds : objects[k].phase = "free"}
FreeSocks(sockets) == {k \in SlotIds : sockets[k] = "free"}

\* Listeners go; a port that is open is closed, one that is still opening is
\* left to itself.
Detached(port) ==
  [phase |-> IF port.phase = "open" THEN "closing" ELSE port.phase, bound |-> FALSE]

\* The objects of path p once its registered port is let go of.
Released(p) ==
  IF portStates[p] = 0 THEN serial[p]
  ELSE [serial[p] EXCEPT ![portStates[p]] = Detached(@)]

WithNewPort(objects) == [objects EXCEPT ![AnyOf(FreeSlots(objects))] = NewPort]

Registered == {p \in Paths : portStates[p] # 0}
OpenPaths == {p \in Registered : serial[p][portStates[p]].phase = "open"}

\* getCommunicationStatus.  A TCP client that is still connecting is neither
\* destroyed nor ended, and counts.
CommunicationStatus == IF config.type = "serial" THEN OpenPaths # {} ELSE tcpClient # 0

\* Mutant: timers are kept by kind of communication instead of by port.
ScheduleByType(type, key) ==
  reconnectTimeouts' =
    IF key \in intentionallyClosedPaths \/ config.type # type THEN reconnectTimeouts
    ELSE reconnectTimeouts \union {type}

\* Mutant: any port that closes is taken for one closed on purpose.
ScheduleNever(type, key) == UNCHANGED reconnectTimeouts

\* Mutant: the kind of communication is not looked at.
ScheduleAnyType(type, key) ==
  reconnectTimeouts' =
    IF key \in intentionallyClosedPaths THEN reconnectTimeouts
    ELSE reconnectTimeouts \union {key}

\* scheduleReconnect: nothing for a path that was closed on purpose, nor for
\* the kind of communication that is not in use.
ScheduleReconnect(type, key) ==
  reconnectTimeouts' =
    IF key \in intentionallyClosedPaths \/ config.type # type THEN reconnectTimeouts
    ELSE reconnectTimeouts \union {key}

\* The sockets once tcpClient is let go of: a socket still connecting leaves
\* its 5 s connection timeout behind.
ReleasedSock ==
  IF tcpClient = 0 THEN sock
  ELSE [sock EXCEPT ![tcpClient] = IF @ = "connecting" THEN "replaced" ELSE "free"]

----------------------------------------------------------------------------
(* Connecting. *)

ConnectSerialPort(p) ==
  /\ FreeSlots(Released(p)) # {}
  /\ serial' = [serial EXCEPT ![p] = WithNewPort(Released(p))]
  /\ portStates' = [portStates EXCEPT ![p] = AnyOf(FreeSlots(Released(p)))]
  /\ intentionallyClosedPaths' = intentionallyClosedPaths \union ({p} \intersect Registered)
  /\ reconnectTimeouts' = reconnectTimeouts \ {p}

\* Every serial port is closed, the previous client destroyed, and a new
\* socket connects.
ConnectTcp ==
  /\ reconnectTimeouts' = {}
  /\ intentionallyClosedPaths' = intentionallyClosedPaths \union Registered
  /\ serial' = [p \in Paths |-> Released(p)]
  /\ portStates' = [p \in Paths |-> 0]
  /\ FreeSocks(ReleasedSock) # {}
  /\ tcpClient' = AnyOf(FreeSocks(ReleasedSock))
  /\ sock' = [ReleasedSock EXCEPT ![tcpClient'] = "connecting"]

ConnectSerialPorts(ports) ==
  /\ reconnectTimeouts' = {}
  /\ intentionallyClosedPaths' = intentionallyClosedPaths \union Registered
  /\ \A p \in ports : FreeSlots(Released(p)) # {}
  /\ serial' = [p \in Paths |-> IF p \in ports THEN WithNewPort(Released(p)) ELSE Released(p)]
  /\ portStates' = [p \in Paths |-> IF p \in ports THEN AnyOf(FreeSlots(Released(p))) ELSE 0]
  /\ sock' = ReleasedSock /\ tcpClient' = 0

\* The setting is saved and AisService told to reload it.
ReloadCommunicationConfig ==
  /\ reloads < MaxReloads /\ reloads' = reloads + 1
  /\ \E c \in Configs :
       /\ config' = c
       /\ IF c.type = "tcp" THEN ConnectTcp ELSE ConnectSerialPorts(c.ports)
  /\ overtaken' = retrying
  /\ UNCHANGED <<retrying, isDeviceConnected, portLastDataAt, deviceVars, faults>>

\* onModuleInit, in a process where nothing is connected yet.
Init ==
  /\ config \in Configs
  /\ serial = [p \in Paths |->
       [k \in SlotIds |-> IF k = 1 /\ p \in config.ports THEN NewPort ELSE NoPort]]
  /\ portStates = [p \in Paths |-> IF p \in config.ports THEN 1 ELSE 0]
  /\ intentionallyClosedPaths = {} /\ reconnectTimeouts = {} /\ retrying = {}
  /\ sock = [k \in SlotIds |-> IF k = 1 /\ config.type = "tcp" THEN "connecting" ELSE "free"]
  /\ tcpClient = IF config.type = "tcp" THEN 1 ELSE 0
  /\ isDeviceConnected = FALSE
  /\ portLastDataAt = [k \in Keys |-> "none"]
  /\ plugged \in SUBSET Paths /\ tcpUp \in BOOLEAN
  /\ reloads = 0 /\ faults = 0 /\ overtaken = {}

----------------------------------------------------------------------------
(* The reconnect timers. *)

\* A serial retry first lists the ports, which takes a while.
SerialTimer(p) ==
  /\ p \in reconnectTimeouts /\ p \notin retrying
  /\ reconnectTimeouts' = reconnectTimeouts \ {p}
  /\ retrying' = IF config.type = "serial" THEN retrying \union {p} ELSE retrying
  /\ UNCHANGED <<config, serial, portStates, intentionallyClosedPaths, tcpVars,
                 isDeviceConnected, portLastDataAt, deviceVars, reloadVars, faults>>

SerialTimerResumes(p) ==
  /\ p \in retrying
  /\ retrying' = retrying \ {p}
  /\ ConnectSerialPort(p)
  /\ UNCHANGED <<config, tcpVars, isDeviceConnected, portLastDataAt, deviceVars, reloadVars, faults>>

TcpTimer ==
  /\ Tcp \in reconnectTimeouts
  /\ IF config.type = "tcp" THEN ConnectTcp
     ELSE /\ reconnectTimeouts' = reconnectTimeouts \ {Tcp}
          /\ UNCHANGED <<serial, portStates, intentionallyClosedPaths, tcpVars>>
  /\ UNCHANGED <<config, retrying, isDeviceConnected, portLastDataAt, deviceVars, reloadVars, faults>>

----------------------------------------------------------------------------
(* Serial port events. *)

Held(p, k) == \E j \in SlotIds \ {k} : serial[p][j].phase \in {"open", "closing"}

SerialOpens(p, k) ==
  /\ serial[p][k].phase = "opening" /\ p \in plugged /\ ~Held(p, k)
  /\ serial' = [serial EXCEPT ![p][k].phase = "open"]
  /\ IF serial[p][k].bound
     THEN /\ intentionallyClosedPaths' = intentionallyClosedPaths \ {p}
          /\ portLastDataAt' = [portLastDataAt EXCEPT ![p] = "recent"]
          /\ isDeviceConnected' = TRUE
     ELSE UNCHANGED <<intentionallyClosedPaths, portLastDataAt, isDeviceConnected>>
  /\ UNCHANGED <<config, portStates, reconnectTimeouts, retrying, tcpVars, deviceVars, reloadVars, faults>>

\* The entry of the path goes, whichever port it is for by now.
SerialOpenFails(p, k) ==
  /\ serial[p][k].phase = "opening" /\ (p \notin plugged \/ Held(p, k))
  /\ serial' = [serial EXCEPT ![p][k] = NoPort]
  /\ portStates' = [portStates EXCEPT ![p] = 0]
  /\ ScheduleReconnect("serial", p)
  /\ UNCHANGED <<config, intentionallyClosedPaths, retrying, tcpVars, isDeviceConnected,
                 portLastDataAt, deviceVars, reloadVars, faults>>

\* Mutant: the status goes down with any port.
StatusAfterCloseOfAny(p) == FALSE

StatusAfterClose(p) == isDeviceConnected /\ OpenPaths \ {p} # {}

SerialCloses(p, k) ==
  /\ serial[p][k].phase = "closing"
  /\ serial' = [serial EXCEPT ![p][k] = NoPort]
  /\ IF serial[p][k].bound
     THEN /\ portStates' = [portStates EXCEPT ![p] = 0]
          /\ isDeviceConnected' = StatusAfterClose(p)
          /\ ScheduleReconnect("serial", p)
          /\ intentionallyClosedPaths' = intentionallyClosedPaths \ {p}
     ELSE UNCHANGED <<portStates, isDeviceConnected, reconnectTimeouts, intentionallyClosedPaths>>
  /\ UNCHANGED <<config, retrying, tcpVars, portLastDataAt, deviceVars, reloadVars, faults>>

OnSerialData(p) ==
  /\ p \in OpenPaths /\ p \in plugged
  /\ portLastDataAt' = [portLastDataAt EXCEPT ![p] = "recent"]
  /\ UNCHANGED <<config, serialVars, reconnectTimeouts, tcpVars, isDeviceConnected,
                 deviceVars, reloadVars, faults>>

\* Mutant: the port is forgotten and never closed.
DecoderErrorForgets(p) ==
  /\ p \in OpenPaths /\ Fault
  /\ portStates' = [portStates EXCEPT ![p] = 0]
  /\ ScheduleReconnect("serial", p)
  /\ UNCHANGED <<config, serial, intentionallyClosedPaths, retrying, tcpVars,
                 isDeviceConnected, portLastDataAt, deviceVars, reloadVars>>

\* A decoder that fails is dead; its port is closed to come back with another.
DecoderError(p) ==
  /\ p \in OpenPaths /\ Fault
  /\ serial' = [serial EXCEPT ![p][portStates[p]].phase = "closing"]
  /\ UNCHANGED <<config, portStates, intentionallyClosedPaths, retrying, reconnectTimeouts,
                 tcpVars, isDeviceConnected, portLastDataAt, deviceVars, reloadVars>>

----------------------------------------------------------------------------
(* TCP socket events. *)

\* The 'close' handler of the client in use.
LoseTcpClient ==
  /\ sock' = [sock EXCEPT ![tcpClient] = "free"]
  /\ tcpClient' = 0
  /\ isDeviceConnected' = FALSE
  /\ ScheduleReconnect("tcp", Tcp)

TcpConnects ==
  /\ tcpClient # 0 /\ sock[tcpClient] = "connecting" /\ tcpUp
  /\ sock' = [sock EXCEPT ![tcpClient] = "open"]
  /\ isDeviceConnected' = TRUE
  /\ portLastDataAt' = [portLastDataAt EXCEPT ![Tcp] = "recent"]
  /\ UNCHANGED <<config, serialVars, reconnectTimeouts, tcpClient, deviceVars, reloadVars, faults>>

\* 'error' and 'close' of a refused or broken connection, the 30 s idle
\* timeout and a dead decoder (destroy, then 'close').
TcpCloses ==
  /\ tcpClient # 0
  /\ \/ ~tcpUp /\ UNCHANGED faults
     \/ sock[tcpClient] = "open" /\ Fault
  /\ LoseTcpClient
  /\ UNCHANGED <<config, serialVars, portLastDataAt, deviceVars, reloadVars>>

\* Mutant: the rejection is not caught by anyone who retries.
TcpConnectTimeoutIgnored(s) ==
  /\ sock[s] \in {"connecting", "replaced"}
  /\ sock[s] = "connecting" => ~tcpUp
  /\ sock' = [sock EXCEPT ![s] = "free"]
  /\ tcpClient' = IF tcpClient = s THEN 0 ELSE tcpClient
  /\ UNCHANGED <<config, serialVars, reconnectTimeouts, isDeviceConnected, portLastDataAt,
                 deviceVars, reloadVars, faults>>

\* The connection timeout of a socket, in use or replaced meanwhile, rejects
\* the promise of connectTcp; whoever awaited it schedules a retry.
TcpConnectTimeout(s) ==
  /\ sock[s] \in {"connecting", "replaced"}
  /\ sock[s] = "connecting" => ~tcpUp
  /\ sock' = [sock EXCEPT ![s] = "free"]
  /\ tcpClient' = IF tcpClient = s THEN 0 ELSE tcpClient
  /\ ScheduleReconnect("tcp", Tcp)
  /\ UNCHANGED <<config, serialVars, isDeviceConnected, portLastDataAt, deviceVars, reloadVars, faults>>

OnTcpData ==
  /\ tcpClient # 0 /\ sock[tcpClient] = "open" /\ tcpUp
  /\ portLastDataAt' = [portLastDataAt EXCEPT ![Tcp] = "recent"]
  /\ UNCHANGED <<config, serialVars, reconnectTimeouts, tcpVars, isDeviceConnected,
                 deviceVars, reloadVars, faults>>

----------------------------------------------------------------------------
(* The drought watchdog, every 15 s. *)

\* "old" closes the port and forgets when it last spoke; no entry counts as
\* now, for a first grace period.
AfterWatch(last) == IF last = "none" THEN "recent" ELSE IF last = "old" THEN "none" ELSE last

WatchSerial ==
  /\ config.type = "serial"
  /\ \E p \in OpenPaths : portLastDataAt[p] # "recent"
  /\ serial' = [p \in Paths |->
       IF p \in OpenPaths /\ portLastDataAt[p] = "old"
       THEN [serial[p] EXCEPT ![portStates[p]].phase = "closing"] ELSE serial[p]]
  /\ portLastDataAt' = [k \in Keys |->
       IF k \in OpenPaths THEN AfterWatch(portLastDataAt[k]) ELSE portLastDataAt[k]]
  /\ UNCHANGED <<config, portStates, intentionallyClosedPaths, retrying, reconnectTimeouts,
                 tcpVars, isDeviceConnected, deviceVars, reloadVars, faults>>

WatchTcp ==
  /\ config.type = "tcp" /\ tcpClient # 0 /\ portLastDataAt[Tcp] # "recent"
  /\ portLastDataAt' = [portLastDataAt EXCEPT ![Tcp] = AfterWatch(@)]
  /\ IF portLastDataAt[Tcp] = "old" THEN LoseTcpClient
     ELSE UNCHANGED <<tcpVars, isDeviceConnected, reconnectTimeouts>>
  /\ UNCHANGED <<config, serialVars, deviceVars, reloadVars, faults>>

----------------------------------------------------------------------------
(* The devices. *)

\* droughtMs pass without a byte from the device.
Silence(k) ==
  /\ portLastDataAt[k] = "recent" /\ Fault
  /\ portLastDataAt' = [portLastDataAt EXCEPT ![k] = "old"]
  /\ UNCHANGED <<config, serialVars, reconnectTimeouts, tcpVars, isDeviceConnected,
                 deviceVars, reloadVars>>

Unplug(p) ==
  /\ p \in plugged /\ Fault
  /\ plugged' = plugged \ {p}
  /\ serial' = [serial EXCEPT ![p] = [k \in SlotIds |->
       IF @[k].phase = "open" THEN [@[k] EXCEPT !.phase = "closing"] ELSE @[k]]]
  /\ UNCHANGED <<config, portStates, intentionallyClosedPaths, retrying, reconnectTimeouts,
                 tcpVars, isDeviceConnected, portLastDataAt, tcpUp, reloadVars>>

Plug(p) ==
  /\ p \notin plugged
  /\ plugged' = plugged \union {p}
  /\ UNCHANGED <<config, serialVars, reconnectTimeouts, tcpVars, isDeviceConnected,
                 portLastDataAt, tcpUp, reloadVars, faults>>

TcpDeviceToggles ==
  /\ IF tcpUp THEN Fault ELSE UNCHANGED faults
  /\ tcpUp' = ~tcpUp
  /\ UNCHANGED <<config, serialVars, reconnectTimeouts, tcpVars, isDeviceConnected,
                 portLastDataAt, plugged, reloadVars>>

Next ==
  \/ ReloadCommunicationConfig \/ TcpTimer \/ TcpConnects \/ TcpCloses \/ OnTcpData
  \/ WatchSerial \/ WatchTcp \/ TcpDeviceToggles
  \/ \E p \in Paths :
       SerialTimer(p) \/ SerialTimerResumes(p) \/ OnSerialData(p) \/ DecoderError(p)
         \/ Unplug(p) \/ Plug(p)
  \/ \E p \in Paths, k \in SlotIds :
       SerialOpens(p, k) \/ SerialOpenFails(p, k) \/ SerialCloses(p, k)
  \/ \E s \in SlotIds : TcpConnectTimeout(s)
  \/ \E k \in Keys : Silence(k)

Spec == Init /\ [][Next]_vars

\* Timers and the events that end an open, a close or a connect do come.
Fairness ==
  /\ WF_vars(TcpTimer) /\ WF_vars(TcpConnects) /\ WF_vars(~tcpUp /\ TcpCloses)
  /\ \A s \in SlotIds : WF_vars(TcpConnectTimeout(s))
  /\ \A p \in Paths : WF_vars(SerialTimer(p)) /\ WF_vars(SerialTimerResumes(p))
  /\ \A p \in Paths, k \in SlotIds :
       /\ WF_vars(SerialOpens(p, k)) /\ WF_vars(SerialOpenFails(p, k))
       /\ WF_vars(SerialCloses(p, k))

FairSpec == Spec /\ Fairness

----------------------------------------------------------------------------
(* Properties. *)

\* Every variable keeps its type.
TypeOK ==
  /\ config \in AllConfigs
  /\ serial \in [Paths -> [SlotIds -> Ports]]
  /\ portStates \in [Paths -> 0..Slots]
  /\ intentionallyClosedPaths \subseteq Paths
  /\ reconnectTimeouts \subseteq Keys /\ retrying \subseteq Paths
  /\ sock \in [SlotIds -> {"free", "connecting", "open", "replaced"}]
  /\ tcpClient \in 0..Slots
  /\ isDeviceConnected \in BOOLEAN
  /\ portLastDataAt \in [Keys -> {"none", "recent", "old"}]
  /\ plugged \subseteq Paths /\ tcpUp \in BOOLEAN
  /\ reloads \in 0..MaxReloads /\ faults \in 0..MaxFaults /\ overtaken \subseteq Paths

\* A configured serial port is registered, or a retry for it is under way:
\* no failure leaves it closed for good.
RetryPending ==
  config.type = "serial" =>
    \A p \in config.ports : portStates[p] # 0 \/ p \in reconnectTimeouts \union retrying

\* A port that is open is the one in portStates: data from it is decoded, the
\* watchdog sees it, and the next reload closes it.
OpenPortIsRegistered ==
  \A p \in Paths, k \in SlotIds : serial[p][k].phase = "open" => portStates[p] = k

\* The clients are told that a serial receiver is connected exactly when one
\* is, so that its data is broadcast: the flag that every open and close
\* maintains agrees with the status the dialog computes anew.  A port that is
\* closing still counts.
StatusExact ==
  config.type = "serial" =>
    /\ isDeviceConnected =>
         \E p \in Registered : serial[p][portStates[p]].phase \in {"open", "closing"}
    /\ CommunicationStatus => isDeviceConnected

\* After any reloads, one kind of communication works: at most one TCP socket is
\* alive, and it is tcpClient; retries are for the kind in use; and with TCP in
\* use no serial port delivers data, except of a path whose retry was waiting in
\* SerialPort.list() when the setting changed, which opens its port all the same.
NoLeftovers ==
  /\ \A s \in SlotIds : sock[s] \in {"connecting", "open"} => s = tcpClient
  /\ reconnectTimeouts \subseteq (IF config.type = "tcp" THEN {Tcp} ELSE Paths)
  /\ config.type = "tcp" => Registered \subseteq overtaken

\* A configured port whose device stays plugged in is open in the end.
PortComesBack ==
  \A p \in Paths : <>[](p \in plugged /\ p \in config.ports) => <>[](p \in OpenPaths)

\* A TCP device that stays up is connected in the end, whatever was reloaded.
TcpComesBack ==
  <>[](tcpUp /\ config.type = "tcp") => <>[](tcpClient # 0 /\ sock[tcpClient] = "open")
=============================================================================
