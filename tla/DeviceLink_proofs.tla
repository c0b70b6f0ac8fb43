------------------------- MODULE DeviceLink_proofs -------------------------
(***************************************************************************)
(* Proofs about DeviceLink, for any number of paths, settings, slots,      *)
(* reloads and faults:                                                     *)
(*                                                                         *)
(*   1. what the operators on ports and sockets return, and the types;     *)
(*   2. reloads leave no socket, no timer, and no serial port but those of  *)
(*      retries they overtook;                                             *)
(*   3. until the first reload, every open port is registered, the status  *)
(*      is exact and no port is left closed for good.                      *)
(***************************************************************************)
EXTENDS DeviceLink, TLAPS

Objects == [SlotIds -> Ports]

----------------------------------------------------------------------------
(* 1. Types. *)

\* An object goes from one phase to the next, and the others stay.
LEMMA PhaseTyped ==
  ASSUME NEW objects \in Objects, NEW k \in SlotIds,
         NEW phase \in {"free", "opening", "open", "closing"}
  PROVE  /\ [objects EXCEPT ![k].phase = phase] \in Objects
         /\ \A j \in SlotIds : [objects EXCEPT ![k].phase = phase][j] =
              IF j = k THEN [phase |-> phase, bound |-> objects[k].bound] ELSE objects[j]
<1>1. [objects[k] EXCEPT !.phase = phase] = [phase |-> phase, bound |-> objects[k].bound]
  BY DEF Objects, Ports
<1>2. [phase |-> phase, bound |-> objects[k].bound] \in Ports
  BY DEF Objects, Ports
<1> QED
  BY <1>1, <1>2 DEF Objects

\* Letting go of a port leaves the objects of its path ports.
LEMMA ReleasedTyped ==
  ASSUME TypeOK, NEW p \in Paths
  PROVE  Released(p) \in Objects
<1>1. serial[p] \in Objects /\ portStates[p] \in 0..Slots
  BY DEF TypeOK, Objects
<1>2. \A k \in SlotIds : Detached(serial[p][k]) \in Ports
  BY <1>1 DEF Detached, Ports, Objects
<1> QED
  BY <1>1, <1>2 DEF Released, Objects, SlotIds

\* A new port takes one of the free slots and no other.
LEMMA NewPortTaken ==
  ASSUME NEW objects \in Objects, FreeSlots(objects) # {}
  PROVE  /\ AnyOf(FreeSlots(objects)) \in SlotIds
         /\ objects[AnyOf(FreeSlots(objects))].phase = "free"
         /\ WithNewPort(objects) \in Objects
         /\ \A k \in SlotIds : WithNewPort(objects)[k] =
              IF k = AnyOf(FreeSlots(objects)) THEN NewPort ELSE objects[k]
<1>1. AnyOf(FreeSlots(objects)) \in FreeSlots(objects)
  BY DEF AnyOf
<1>2. NewPort \in Ports
  BY DEF NewPort, Ports
<1> QED
  BY <1>1, <1>2 DEF FreeSlots, WithNewPort, Objects

Phases == {"free", "connecting", "open", "replaced"}

\* Letting go of the TCP client leaves sockets, none of which is in use.
LEMMA ReleasedSockTyped ==
  ASSUME TypeOK
  PROVE  /\ ReleasedSock \in [SlotIds -> Phases]
         /\ \A s \in SlotIds : ReleasedSock[s] =
              IF s = tcpClient THEN IF sock[s] = "connecting" THEN "replaced" ELSE "free"
              ELSE sock[s]
  BY DEF TypeOK, ReleasedSock, Phases, SlotIds

\* The part of the types that connecting is about.
LinksTyped ==
  /\ serial \in [Paths -> Objects] /\ portStates \in [Paths -> 0..Slots]
  /\ intentionallyClosedPaths \subseteq Paths /\ reconnectTimeouts \subseteq Keys
  /\ sock \in [SlotIds -> Phases] /\ tcpClient \in 0..Slots

LEMMA ConnectSerialPortTyped ==
  ASSUME TypeOK, NEW p \in Paths, ConnectSerialPort(p), UNCHANGED tcpVars
  PROVE  LinksTyped'
<1>1. Released(p) \in Objects /\ FreeSlots(Released(p)) # {}
  BY ReleasedTyped DEF ConnectSerialPort
<1>2. AnyOf(FreeSlots(Released(p))) \in SlotIds /\ WithNewPort(Released(p)) \in Objects
  BY <1>1, NewPortTaken
<1> QED
  BY <1>2, DeviceLinkAssumption
  DEF ConnectSerialPort, tcpVars, LinksTyped, TypeOK, Objects, SlotIds, Phases, Keys, Registered

LEMMA ConnectTcpTyped ==
  ASSUME TypeOK, ConnectTcp
  PROVE  LinksTyped'
<1>1. AnyOf(FreeSocks(ReleasedSock)) \in SlotIds
  BY DEF ConnectTcp, AnyOf, FreeSocks
<1>2. \A p \in Paths : Released(p) \in Objects
  BY ReleasedTyped
<1>3. tcpClient' \in SlotIds /\ sock' \in [SlotIds -> Phases]
  BY <1>1, ReleasedSockTyped DEF ConnectTcp, Phases
<1>4. serial' \in [Paths -> Objects] /\ portStates' \in [Paths -> 0..Slots]
  BY <1>2, DeviceLinkAssumption DEF ConnectTcp
<1> QED
  BY <1>3, <1>4, DeviceLinkAssumption DEF ConnectTcp, LinksTyped, TypeOK, SlotIds, Registered

LEMMA ConnectSerialPortsTyped ==
  ASSUME TypeOK, NEW ports \in SUBSET Paths, ConnectSerialPorts(ports)
  PROVE  LinksTyped'
<1>1. ASSUME NEW p \in Paths
      PROVE  /\ Released(p) \in Objects
             /\ p \in ports => /\ AnyOf(FreeSlots(Released(p))) \in SlotIds
                               /\ WithNewPort(Released(p)) \in Objects
  <2>1. p \in ports => FreeSlots(Released(p)) # {}
    BY DEF ConnectSerialPorts
  <2> QED
    BY <2>1, ReleasedTyped, NewPortTaken
<1>2. serial' \in [Paths -> Objects] /\ portStates' \in [Paths -> 0..Slots]
  BY <1>1, DeviceLinkAssumption DEF ConnectSerialPorts, SlotIds
<1>3. sock' \in [SlotIds -> Phases] /\ tcpClient' \in 0..Slots
  BY ReleasedSockTyped, DeviceLinkAssumption DEF ConnectSerialPorts
<1> QED
  BY <1>2, <1>3, DeviceLinkAssumption DEF ConnectSerialPorts, LinksTyped, TypeOK, Registered

\* A retry is only ever scheduled for a key.
LEMMA ScheduleTyped ==
  ASSUME TypeOK, NEW type, NEW key \in Keys, ScheduleReconnect(type, key)
  PROVE  reconnectTimeouts' \subseteq Keys
  BY DEF TypeOK, ScheduleReconnect

\* Every setting that may be saved is one.
LEMMA ConfigTyped ==
  ASSUME NEW c \in Configs
  PROVE  c \in AllConfigs /\ c.ports \in SUBSET Paths /\ c.type \in {"serial", "tcp"}
  BY DeviceLinkAssumption DEF AllConfigs

\* Every event, timer, reload and fault keeps the types.
LEMMA StepTyped ==
  ASSUME TypeOK, [Next]_vars
  PROVE  TypeOK'
<1> USE DeviceLinkAssumption
<1>1. CASE ReloadCommunicationConfig
  <2>1. PICK c \in Configs :
          config' = c /\ IF c.type = "tcp" THEN ConnectTcp ELSE ConnectSerialPorts(c.ports)
    BY <1>1 DEF ReloadCommunicationConfig
  <2>2. LinksTyped' /\ config' \in AllConfigs
    BY <2>1, ConfigTyped, ConnectTcpTyped, ConnectSerialPortsTyped
  <2> QED
    BY <1>1, <2>2 DEF ReloadCommunicationConfig, deviceVars, reloadVars, LinksTyped, TypeOK, Objects, Phases
<1>2. CASE TcpTimer
  <2>1. LinksTyped'
    <3>1. CASE config.type = "tcp"
      BY <1>2, <3>1, ConnectTcpTyped DEF TcpTimer
    <3>2. CASE config.type # "tcp"
      BY <1>2, <3>2 DEF TcpTimer, tcpVars, LinksTyped, TypeOK, Objects, Phases
    <3> QED
      BY <3>1, <3>2
  <2> QED
    BY <1>2, <2>1 DEF TcpTimer, deviceVars, reloadVars, LinksTyped, TypeOK, Objects, Phases
<1>3. ASSUME NEW p \in Paths, SerialTimerResumes(p) PROVE TypeOK'
  <2>1. LinksTyped'
    BY <1>3, ConnectSerialPortTyped DEF SerialTimerResumes
  <2> QED
    BY <1>3, <2>1 DEF SerialTimerResumes, deviceVars, reloadVars, LinksTyped, TypeOK, Objects, Phases
<1>4. ASSUME NEW p \in Paths, SerialTimer(p) PROVE TypeOK'
  BY <1>4 DEF SerialTimer, tcpVars, deviceVars, reloadVars, TypeOK
<1>5. ASSUME Tcp \in Keys, NEW s \in SlotIds, TcpConnectTimeout(s) PROVE TypeOK'
  <2>1. reconnectTimeouts' \subseteq Keys
    BY <1>5, ScheduleTyped DEF TcpConnectTimeout
  <2> QED
    BY <1>5, <2>1 DEF TcpConnectTimeout, serialVars, deviceVars, reloadVars, TypeOK
<1>6. Tcp \in Keys /\ Paths \subseteq Keys
  BY DEF Keys
<1>7. ASSUME LoseTcpClient, tcpClient # 0
      PROVE  /\ sock' \in [SlotIds -> Phases] /\ tcpClient' \in 0..Slots
             /\ isDeviceConnected' \in BOOLEAN /\ reconnectTimeouts' \subseteq Keys
  <2>1. reconnectTimeouts' \subseteq Keys
    BY <1>6, <1>7, ScheduleTyped DEF LoseTcpClient
  <2>2. sock \in [SlotIds -> Phases] /\ "free" \in Phases
    BY DEF TypeOK, Phases
  <2>3. sock' \in [SlotIds -> Phases]
    BY <1>7, <2>2 DEF LoseTcpClient
  <2>4. 0 \in 0..Slots
    OBVIOUS
  <2> QED
    BY <1>7, <2>1, <2>3, <2>4 DEF LoseTcpClient
<1>8. CASE TcpConnects
  BY <1>6, <1>8 DEF TcpConnects, serialVars, deviceVars, reloadVars, TypeOK
<1>9. CASE TcpCloses
  BY <1>7, <1>9 DEF TcpCloses, Fault, serialVars, deviceVars, reloadVars, TypeOK, Phases
<1>10. CASE OnTcpData
  BY <1>6, <1>10 DEF OnTcpData, serialVars, tcpVars, deviceVars, reloadVars, TypeOK
<1>11. CASE WatchSerial
  <2>1. serial' \in [Paths -> Objects]
    <3>1. ASSUME NEW p \in OpenPaths
          PROVE  [serial[p] EXCEPT ![portStates[p]].phase = "closing"] \in Objects
      <4>1. serial[p] \in Objects /\ portStates[p] \in SlotIds
        BY DEF OpenPaths, Registered, TypeOK, Objects, SlotIds
      <4> QED
        BY <4>1, PhaseTyped
    <3> QED
      BY <1>11, <3>1 DEF WatchSerial, TypeOK, Objects
  <2>2. portLastDataAt' \in [Keys -> {"none", "recent", "old"}]
    BY <1>11 DEF WatchSerial, AfterWatch, TypeOK
  <2> QED
    BY <1>11, <2>1, <2>2 DEF WatchSerial, tcpVars, deviceVars, reloadVars, TypeOK, Objects
<1>12. CASE WatchTcp
  <2>1. portLastDataAt' \in [Keys -> {"none", "recent", "old"}]
    BY <1>6, <1>12 DEF WatchTcp, AfterWatch, TypeOK
  <2>2. /\ sock' \in [SlotIds -> Phases] /\ tcpClient' \in 0..Slots
        /\ isDeviceConnected' \in BOOLEAN /\ reconnectTimeouts' \subseteq Keys
    BY <1>7, <1>12 DEF WatchTcp, tcpVars, TypeOK, Phases
  <2> QED
    BY <1>12, <2>1, <2>2 DEF WatchTcp, serialVars, deviceVars, reloadVars, TypeOK, Phases
<1>13. ASSUME NEW p \in Paths, NEW k \in SlotIds, SerialOpens(p, k) PROVE TypeOK'
  <2>1. serial' \in [Paths -> Objects]
    <3>1. [serial[p] EXCEPT ![k].phase = "open"] \in Objects
      BY PhaseTyped DEF TypeOK, Objects
    <3> QED
      BY <1>13, <3>1 DEF SerialOpens, TypeOK, Objects
  <2> QED
    BY <1>6, <1>13, <2>1 DEF SerialOpens, tcpVars, deviceVars, reloadVars, TypeOK, Objects
<1>14. ASSUME NEW p \in Paths, NEW k \in SlotIds, SerialOpenFails(p, k) PROVE TypeOK'
  <2>1. serial' \in [Paths -> Objects] /\ reconnectTimeouts' \subseteq Keys
    BY <1>6, <1>14, ScheduleTyped DEF SerialOpenFails, NoPort, TypeOK, Objects, Ports
  <2> QED
    BY <1>14, <2>1 DEF SerialOpenFails, tcpVars, deviceVars, reloadVars, TypeOK, Objects
<1>15. ASSUME NEW p \in Paths, NEW k \in SlotIds, SerialCloses(p, k) PROVE TypeOK'
  <2>1. serial' \in [Paths -> Objects] /\ reconnectTimeouts' \subseteq Keys
    BY <1>6, <1>15, ScheduleTyped DEF SerialCloses, NoPort, TypeOK, Objects, Ports
  <2>2. isDeviceConnected' \in BOOLEAN
    BY <1>15 DEF SerialCloses, StatusAfterClose, TypeOK
  <2> QED
    BY <1>15, <2>1, <2>2 DEF SerialCloses, tcpVars, deviceVars, reloadVars, TypeOK, Objects
<1>16. ASSUME NEW p \in Paths, OnSerialData(p) PROVE TypeOK'
  BY <1>6, <1>16 DEF OnSerialData, serialVars, tcpVars, deviceVars, reloadVars, TypeOK
<1>17. ASSUME NEW p \in Paths, DecoderError(p) PROVE TypeOK'
  <2>1. serial' \in [Paths -> Objects]
    <3>1. serial[p] \in Objects /\ portStates[p] \in SlotIds
      BY <1>17 DEF DecoderError, OpenPaths, Registered, TypeOK, Objects, SlotIds
    <3>2. [serial[p] EXCEPT ![portStates[p]].phase = "closing"] \in Objects
      BY <3>1, PhaseTyped
    <3> QED
      BY <1>17, <3>2 DEF DecoderError, TypeOK, Objects
  <2> QED
    BY <1>17, <2>1 DEF DecoderError, Fault, tcpVars, deviceVars, reloadVars, TypeOK, Objects
<1>18. ASSUME NEW k \in Keys, Silence(k) PROVE TypeOK'
  BY <1>18 DEF Silence, Fault, serialVars, tcpVars, deviceVars, reloadVars, TypeOK
<1>19. ASSUME NEW p \in Paths, Unplug(p) PROVE TypeOK'
  <2>1. [k \in SlotIds |-> IF serial[p][k].phase = "open"
                           THEN [serial[p][k] EXCEPT !.phase = "closing"]
                           ELSE serial[p][k]] \in Objects
    <3>1. ASSUME NEW k \in SlotIds PROVE serial[p][k] \in Ports
      BY DEF TypeOK
    <3>2. ASSUME NEW k \in SlotIds PROVE [serial[p][k] EXCEPT !.phase = "closing"] \in Ports
      BY <3>1 DEF Ports
    <3> QED
      BY <3>1, <3>2 DEF Objects
  <2>2. serial' \in [Paths -> Objects]
    BY <1>19, <2>1 DEF Unplug, TypeOK, Objects
  <2> QED
    BY <1>19, <2>2 DEF Unplug, Fault, tcpVars, reloadVars, TypeOK, Objects
<1>20. ASSUME NEW p \in Paths, Plug(p) PROVE TypeOK'
  BY <1>20 DEF Plug, serialVars, tcpVars, reloadVars, TypeOK
<1>21. CASE TcpDeviceToggles
  BY <1>21 DEF TcpDeviceToggles, Fault, serialVars, tcpVars, reloadVars, TypeOK
<1>22. CASE UNCHANGED vars
  BY <1>22 DEF vars, serialVars, tcpVars, deviceVars, reloadVars, TypeOK
<1> QED
  BY <1>1, <1>2, <1>3, <1>4, <1>5, <1>6, <1>8, <1>9, <1>10, <1>11, <1>12, <1>13, <1>14, <1>15,
     <1>16, <1>17, <1>18, <1>19, <1>20, <1>21, <1>22
  DEF Next

\* Every variable keeps its type.
THEOREM DeviceLinkTyped == Spec => []TypeOK
<1>1. ASSUME Init PROVE TypeOK
  <2>1. NoPort \in Ports /\ NewPort \in Ports
    BY DEF NoPort, NewPort, Ports
  <2>2. config \in AllConfigs /\ config.ports \in SUBSET Paths
    BY <1>1, ConfigTyped DEF Init
  <2>3. Slots \in Nat /\ 1 \in 0..Slots /\ 0 \in 0..Slots
    BY DeviceLinkAssumption
  <2>4. serial \in [Paths -> Objects] /\ portStates \in [Paths -> 0..Slots]
    BY <1>1, <2>1, <2>3 DEF Init, Objects
  <2>5. sock \in [SlotIds -> Phases] /\ tcpClient \in 0..Slots
    BY <1>1, <2>3 DEF Init, Phases
  <2>6. /\ portLastDataAt \in [Keys -> {"none", "recent", "old"}]
        /\ reloads \in 0..MaxReloads /\ faults \in 0..MaxFaults /\ overtaken \subseteq Paths
    BY <1>1, DeviceLinkAssumption DEF Init
  <2> QED
    BY <1>1, <2>2, <2>4, <2>5, <2>6 DEF Init, TypeOK, Objects, Phases
<1>2. TypeOK /\ [Next]_vars => TypeOK'
  BY StepTyped
<1> QED
  BY <1>1, <1>2, PTL DEF Spec

----------------------------------------------------------------------------
(* 2. What a reload leaves behind. *)

\* The part of NoLeftovers about TCP sockets and timers.
OneKindOfLink ==
  /\ \A s \in SlotIds : sock[s] \in {"connecting", "open"} => s = tcpClient
  /\ reconnectTimeouts \subseteq (IF config.type = "tcp" THEN {Tcp} ELSE Paths)

\* The part about serial ports: with TCP in use, what is registered, or is about
\* to be, are paths whose retry the last change of the setting overtook.
SerialOvertaken == config.type = "tcp" => Registered \union retrying \subseteq overtaken

Alive == {"connecting", "open"}

\* Once the client is let go of, no socket is alive.
LEMMA ReleasedSockDead ==
  ASSUME TypeOK, OneKindOfLink, NEW s \in SlotIds
  PROVE  ReleasedSock[s] \notin Alive
  BY ReleasedSockTyped DEF OneKindOfLink, Alive

\* A retry is scheduled for the kind of communication in use only.
LEMMA ScheduleInUse ==
  ASSUME OneKindOfLink, ScheduleReconnect("tcp", Tcp) \/ \E p \in Paths : ScheduleReconnect("serial", p),
         config' = config
  PROVE  reconnectTimeouts' \subseteq (IF config'.type = "tcp" THEN {Tcp} ELSE Paths)
  BY DEF OneKindOfLink, ScheduleReconnect

LEMMA ConnectTcpAlone ==
  ASSUME TypeOK, OneKindOfLink, ConnectTcp
  PROVE  OneKindOfLink'
<1>1. AnyOf(FreeSocks(ReleasedSock)) \in SlotIds
  BY DEF ConnectTcp, AnyOf, FreeSocks
<1>2. \A s \in SlotIds : sock'[s] = IF s = tcpClient' THEN "connecting" ELSE ReleasedSock[s]
  BY <1>1, ReleasedSockTyped DEF ConnectTcp
<1> QED
  BY <1>2, ReleasedSockDead DEF ConnectTcp, OneKindOfLink, Alive

\* Reloads, retries and events keep one socket and the timers of one kind.
LEMMA OneKindOfLinkStep ==
  ASSUME TypeOK, OneKindOfLink, [Next]_vars
  PROVE  OneKindOfLink'
<1>1. CASE ReloadCommunicationConfig
  <2>1. PICK c \in Configs : IF c.type = "tcp" THEN ConnectTcp ELSE ConnectSerialPorts(c.ports)
    BY <1>1 DEF ReloadCommunicationConfig
  <2>2. CASE ConnectTcp
    BY <2>2, ConnectTcpAlone
  <2>3. CASE ConnectSerialPorts(c.ports)
    BY <2>3, ReleasedSockDead DEF ConnectSerialPorts, OneKindOfLink, Alive
  <2> QED
    BY <2>1, <2>2, <2>3
<1>2. CASE TcpTimer
  BY <1>2, ConnectTcpAlone DEF TcpTimer, tcpVars, OneKindOfLink
<1>3. ASSUME NEW p \in Paths, SerialTimer(p) \/ SerialTimerResumes(p) PROVE OneKindOfLink'
  BY <1>3 DEF SerialTimer, SerialTimerResumes, ConnectSerialPort, tcpVars, OneKindOfLink
<1>4. CASE TcpConnects
  BY <1>4 DEF TcpConnects, OneKindOfLink, TypeOK
<1>5. ASSUME LoseTcpClient, config' = config PROVE OneKindOfLink'
  <2>1. reconnectTimeouts' \subseteq (IF config'.type = "tcp" THEN {Tcp} ELSE Paths)
    BY <1>5, ScheduleInUse DEF LoseTcpClient
  <2>2. \A s \in SlotIds : sock'[s] \notin Alive
    BY <1>5 DEF LoseTcpClient, OneKindOfLink, TypeOK, Alive
  <2> QED
    BY <2>1, <2>2 DEF OneKindOfLink, Alive
<1>6. CASE TcpCloses
  BY <1>5, <1>6 DEF TcpCloses
<1>7. CASE WatchTcp
  BY <1>5, <1>7 DEF WatchTcp, tcpVars, OneKindOfLink
<1>8. ASSUME NEW s \in SlotIds, TcpConnectTimeout(s) PROVE OneKindOfLink'
  <2>1. reconnectTimeouts' \subseteq (IF config'.type = "tcp" THEN {Tcp} ELSE Paths)
    BY <1>8, ScheduleInUse DEF TcpConnectTimeout
  <2>2. \A t \in SlotIds : sock'[t] = IF t = s THEN "free" ELSE sock[t]
    BY <1>8 DEF TcpConnectTimeout, TypeOK
  <2> QED
    BY <1>8, <2>1, <2>2 DEF TcpConnectTimeout, OneKindOfLink
<1>9. ASSUME NEW p \in Paths, NEW k \in SlotIds,
             SerialOpens(p, k) \/ SerialOpenFails(p, k) \/ SerialCloses(p, k)
      PROVE  OneKindOfLink'
  <2>1. config' = config /\ sock' = sock /\ tcpClient' = tcpClient
    BY <1>9 DEF SerialOpens, SerialOpenFails, SerialCloses, tcpVars
  <2>2. reconnectTimeouts' = reconnectTimeouts \/ ScheduleReconnect("serial", p)
    BY <1>9 DEF SerialOpens, SerialOpenFails, SerialCloses
  <2>3. reconnectTimeouts' \subseteq (IF config'.type = "tcp" THEN {Tcp} ELSE Paths)
    BY <2>1, <2>2, ScheduleInUse DEF OneKindOfLink
  <2> QED
    BY <2>1, <2>3 DEF OneKindOfLink
<1>10. ASSUME UNCHANGED <<config, sock, tcpClient, reconnectTimeouts>> PROVE OneKindOfLink'
  BY <1>10 DEF OneKindOfLink
<1>11. CASE OnTcpData \/ WatchSerial \/ TcpDeviceToggles \/ UNCHANGED vars
  BY <1>10, <1>11 DEF OnTcpData, WatchSerial, TcpDeviceToggles, vars, tcpVars
<1>12. ASSUME NEW p \in Paths, OnSerialData(p) \/ DecoderError(p) \/ Unplug(p) \/ Plug(p)
       PROVE  OneKindOfLink'
  BY <1>10, <1>12 DEF OnSerialData, DecoderError, Unplug, Plug, tcpVars
<1>13. ASSUME NEW k \in Keys, Silence(k) PROVE OneKindOfLink'
  BY <1>10, <1>13 DEF Silence, tcpVars
<1> QED
  BY <1>1, <1>2, <1>3, <1>4, <1>6, <1>7, <1>8, <1>9, <1>11, <1>12, <1>13 DEF Next

\* A reload notes the retries under way and lets go of every port; no retry of
\* a serial port starts while TCP is in use, and no other step registers a port.
LEMMA SerialOvertakenStep ==
  ASSUME TypeOK, SerialOvertaken, [Next]_vars
  PROVE  SerialOvertaken'
<1>1. CASE ReloadCommunicationConfig
  <2>1. PICK c \in Configs :
          config' = c /\ IF c.type = "tcp" THEN ConnectTcp ELSE ConnectSerialPorts(c.ports)
    BY <1>1 DEF ReloadCommunicationConfig
  <2>2. overtaken' = retrying /\ retrying' = retrying
    BY <1>1 DEF ReloadCommunicationConfig
  <2>3. config'.type = "tcp" => Registered' = {}
    BY <2>1 DEF ConnectTcp, Registered
  <2> QED
    BY <2>2, <2>3 DEF SerialOvertaken
<1>2. ASSUME UNCHANGED <<config, overtaken>>,
             config.type = "tcp" => retrying' \subseteq retrying,
             \A p \in Paths : portStates'[p] # 0 => portStates[p] # 0 \/ p \in retrying
      PROVE  SerialOvertaken'
  BY <1>2 DEF SerialOvertaken, Registered
<1>3. CASE TcpTimer
  <2>1. \A p \in Paths : portStates'[p] # 0 => portStates[p] # 0
    BY <1>3 DEF TcpTimer, ConnectTcp
  <2> QED
    BY <1>2, <1>3, <2>1 DEF TcpTimer, reloadVars
<1>4. ASSUME NEW p \in Paths, SerialTimer(p) PROVE SerialOvertaken'
  BY <1>2, <1>4 DEF SerialTimer, reloadVars
<1>5. ASSUME NEW p \in Paths, SerialTimerResumes(p) PROVE SerialOvertaken'
  <2>1. \A q \in Paths : portStates'[q] # 0 => portStates[q] # 0 \/ q \in retrying
    BY <1>5 DEF SerialTimerResumes, ConnectSerialPort, TypeOK
  <2> QED
    BY <1>2, <1>5, <2>1 DEF SerialTimerResumes, reloadVars
<1>6. ASSUME NEW p \in Paths, NEW k \in SlotIds,
             SerialOpens(p, k) \/ SerialOpenFails(p, k) \/ SerialCloses(p, k)
      PROVE  SerialOvertaken'
  <2>1. portStates' = portStates \/ portStates' = [portStates EXCEPT ![p] = 0]
    BY <1>6 DEF SerialOpens, SerialOpenFails, SerialCloses
  <2>2. \A q \in Paths : portStates'[q] # 0 => portStates[q] # 0
    BY <2>1 DEF TypeOK
  <2> QED
    BY <1>2, <1>6, <2>2 DEF SerialOpens, SerialOpenFails, SerialCloses, reloadVars
<1>7. CASE TcpConnects \/ TcpCloses \/ OnTcpData \/ WatchSerial \/ WatchTcp \/ TcpDeviceToggles
             \/ UNCHANGED vars
  BY <1>2, <1>7
  DEF TcpConnects, TcpCloses, OnTcpData, WatchSerial, WatchTcp, TcpDeviceToggles, vars, serialVars, reloadVars
<1>8. ASSUME NEW p \in Paths, OnSerialData(p) \/ DecoderError(p) \/ Unplug(p) \/ Plug(p)
      PROVE  SerialOvertaken'
  BY <1>2, <1>8 DEF OnSerialData, DecoderError, Unplug, Plug, serialVars, reloadVars
<1>9. ASSUME NEW s \in SlotIds, TcpConnectTimeout(s) PROVE SerialOvertaken'
  BY <1>2, <1>9 DEF TcpConnectTimeout, serialVars, reloadVars
<1>10. ASSUME NEW k \in Keys, Silence(k) PROVE SerialOvertaken'
  BY <1>2, <1>10 DEF Silence, serialVars, reloadVars
<1> QED
  BY <1>1, <1>3, <1>4, <1>5, <1>6, <1>7, <1>8, <1>9, <1>10 DEF Next

LEMMA AlwaysOneKindOfLink == Spec => []OneKindOfLink
<1>1. Init => OneKindOfLink
  BY DeviceLinkAssumption DEF Init, OneKindOfLink, SlotIds
<1>2. TypeOK /\ OneKindOfLink /\ [Next]_vars => OneKindOfLink'
  BY OneKindOfLinkStep
<1> QED
  BY <1>1, <1>2, DeviceLinkTyped, PTL DEF Spec

\* However often the setting is reloaded: one TCP socket at most, retries for
\* the kind of communication in use, and with TCP in use no registered serial
\* port but those whose retry was waiting when the setting changed.
THEOREM ReloadsLeaveNothing == Spec => []NoLeftovers
<1>1. Init => SerialOvertaken
  BY DeviceLinkAssumption DEF Init, SerialOvertaken, Registered, AllConfigs
<1>2. TypeOK /\ SerialOvertaken /\ [Next]_vars => SerialOvertaken'
  BY SerialOvertakenStep
<1>3. OneKindOfLink /\ SerialOvertaken => NoLeftovers
  BY DEF OneKindOfLink, SerialOvertaken, NoLeftovers
<1> QED
  BY <1>1, <1>2, <1>3, DeviceLinkTyped, AlwaysOneKindOfLink, PTL DEF Spec

----------------------------------------------------------------------------
(* 3. Until the first reload.  A reload lets go of ports that are still     *)
(* opening, and of what follows none holds afterwards: see device_retry.    *)

\* Path p as the retries leave it: nothing was closed on purpose, the one
\* object that is not free is the registered one, with its listeners, and a
\* retry is for a path without a port.
PathAttached(p) ==
  /\ p \notin intentionallyClosedPaths
  /\ p \in reconnectTimeouts \union retrying => portStates[p] = 0
  /\ \A k \in SlotIds :
       serial[p][k].phase # "free" => portStates[p] = k /\ serial[p][k].bound
  /\ config.type = "serial" /\ p \in config.ports =>
       portStates[p] # 0 \/ p \in reconnectTimeouts \union retrying

\* One kind of communication at a time.
OneKind ==
  /\ config.type = "tcp" => Registered = {} /\ retrying = {}
  /\ config.type = "serial" => tcpClient = 0

Attached == OneKind /\ (\A p \in Paths : PathAttached(p)) /\ StatusExact

Delivering(p) == portStates[p] # 0 /\ serial[p][portStates[p]].phase \in {"open", "closing"}

\* The status, path by path.
LEMMA StatusByPath ==
  ASSUME config.type = "serial"
  PROVE  StatusExact <=>
           /\ isDeviceConnected => \E p \in Paths : Delivering(p)
           /\ (\E p \in Paths : p \in OpenPaths) => isDeviceConnected
  BY DEF StatusExact, CommunicationStatus, OpenPaths, Registered, Delivering

\* What keeps every port that counts, and opens none, keeps the status.
LEMMA StatusKept ==
  ASSUME StatusExact, UNCHANGED <<config, isDeviceConnected>>,
         \A p \in Paths : (Delivering(p) => Delivering(p)') /\ (p \in OpenPaths' => p \in OpenPaths)
  PROVE  StatusExact'
<1>1. CASE config.type = "serial"
  <2>1. /\ isDeviceConnected => \E p \in Paths : Delivering(p)
        /\ (\E p \in Paths : p \in OpenPaths) => isDeviceConnected
    BY <1>1, StatusByPath
  <2>2. /\ isDeviceConnected' => \E p \in Paths : Delivering(p)'
        /\ (\E p \in Paths : p \in OpenPaths') => isDeviceConnected'
    BY <2>1
  <2> QED
    BY <1>1, <2>2 DEF StatusExact, CommunicationStatus, OpenPaths, Registered, Delivering
<1>2. CASE config.type # "serial"
  BY <1>2 DEF StatusExact
<1> QED
  BY <1>1, <1>2

\* A path that a step does not touch stays attached.
LEMMA PathKept ==
  ASSUME NEW p \in Paths, PathAttached(p), config' = config,
         serial'[p] = serial[p], portStates'[p] = portStates[p],
         p \in intentionallyClosedPaths' => p \in intentionallyClosedPaths,
         p \in reconnectTimeouts' \union retrying' <=> p \in reconnectTimeouts \union retrying
  PROVE  PathAttached(p)' /\ (Delivering(p) <=> Delivering(p)') /\ (p \in OpenPaths <=> p \in OpenPaths')
  BY DEF PathAttached, Delivering, OpenPaths, Registered

\* Init: the configured ports are opening.
LEMMA InitAttached ==
  ASSUME Init
  PROVE  Attached
<1> USE DeviceLinkAssumption
<1>1. config.ports \subseteq Paths /\ (config.type = "tcp" => config.ports = {})
  BY DEF Init, AllConfigs
<1>2. 1 \in SlotIds /\ \A p \in Paths, k \in SlotIds :
        /\ serial[p][k].phase = IF k = 1 /\ p \in config.ports THEN "opening" ELSE "free"
        /\ p \in config.ports => serial[p][1].bound
        /\ portStates[p] = IF p \in config.ports THEN 1 ELSE 0
  BY DEF Init, SlotIds, NewPort, NoPort
<1>3. OneKind
  BY <1>1, <1>2 DEF Init, OneKind, Registered
<1>4. \A p \in Paths : PathAttached(p)
  BY <1>2 DEF Init, PathAttached
<1>5. StatusExact
  BY <1>2 DEF Init, StatusExact, CommunicationStatus, OpenPaths, Registered
<1> QED
  BY <1>3, <1>4, <1>5 DEF Attached

\* A serial retry opens the one port of a path that has none.
LEMMA RetryAttached ==
  ASSUME TypeOK, Attached, NEW p \in Paths, SerialTimerResumes(p)
  PROVE  Attached'
<1>1. portStates[p] = 0 /\ Released(p) = serial[p] /\ config.type # "tcp" /\ p \notin Registered
  BY DEF Attached, OneKind, PathAttached, SerialTimerResumes, Released, Registered
<1>2. serial[p] \in Objects /\ FreeSlots(serial[p]) # {}
  BY <1>1 DEF SerialTimerResumes, ConnectSerialPort, TypeOK, Objects
<1> DEFINE new == AnyOf(FreeSlots(serial[p]))
<1>3. /\ new \in SlotIds
      /\ \A k \in SlotIds : serial'[p][k] = IF k = new THEN NewPort ELSE serial[p][k]
      /\ portStates'[p] = new
  BY <1>1, <1>2, NewPortTaken DEF SerialTimerResumes, ConnectSerialPort, TypeOK
<1>4. new # 0 /\ serial'[p][new].phase = "opening" /\ serial'[p][new].bound
  BY <1>3 DEF NewPort, SlotIds
<1> HIDE DEF new
<1>5. /\ \A q \in Paths \ {p} : serial'[q] = serial[q] /\ portStates'[q] = portStates[q]
      /\ intentionallyClosedPaths' = intentionallyClosedPaths
      /\ reconnectTimeouts' = reconnectTimeouts \ {p} /\ retrying' = retrying \ {p}
      /\ UNCHANGED <<config, tcpClient, isDeviceConnected>>
  BY <1>1 DEF SerialTimerResumes, ConnectSerialPort, tcpVars, TypeOK
<1>6. \A q \in Paths \ {p} :
        PathAttached(q)' /\ (Delivering(q) <=> Delivering(q)') /\ (q \in OpenPaths <=> q \in OpenPaths')
  BY <1>5, PathKept DEF Attached
<1>7. PathAttached(p)' /\ ~Delivering(p) /\ p \notin OpenPaths'
  <2>1. \A k \in SlotIds : serial[p][k].phase = "free"
    BY <1>1 DEF Attached, PathAttached, SlotIds
  <2>2. \A k \in SlotIds :
          serial'[p][k].phase # "free" => portStates'[p] = k /\ serial'[p][k].bound
    BY <1>3, <1>4, <2>1
  <2>3. p \notin intentionallyClosedPaths' /\ p \notin reconnectTimeouts' \union retrying'
    BY <1>5 DEF Attached, PathAttached
  <2> QED
    BY <1>1, <1>3, <1>4, <2>2, <2>3 DEF PathAttached, Delivering, OpenPaths, Registered
<1>8. StatusExact'
  BY <1>5, <1>6, <1>7, StatusKept DEF Attached
<1>9. OneKind'
  BY <1>1, <1>5 DEF Attached, OneKind
<1> QED
  BY <1>6, <1>7, <1>8, <1>9 DEF Attached

\* An object that is not free is the one of its path, and the communication is
\* serial.
LEMMA TheObject ==
  ASSUME TypeOK, Attached, NEW p \in Paths, NEW k \in SlotIds, serial[p][k].phase # "free"
  PROVE  /\ portStates[p] = k /\ serial[p][k].bound /\ config.type = "serial"
         /\ \A j \in SlotIds \ {k} : serial[p][j].phase = "free"
         /\ p \notin intentionallyClosedPaths
<1>1. k # 0 /\ config.type \in {"serial", "tcp"}
  BY DEF TypeOK, AllConfigs, SlotIds
<1>2. portStates[p] = k /\ serial[p][k].bound
  BY DEF Attached, PathAttached
<1>3. config.type = "serial"
  BY <1>1, <1>2 DEF Attached, OneKind, Registered
<1> QED
  BY <1>2, <1>3 DEF Attached, PathAttached

\* The object of a path goes to another phase, with nothing else changed.
LEMMA PhaseAttached ==
  ASSUME TypeOK, Attached, NEW p \in Paths, NEW k \in SlotIds,
         NEW phase \in {"opening", "open", "closing"},
         serial[p][k].phase # "free",
         serial'[p] = [serial[p] EXCEPT ![k].phase = phase],
         p \notin intentionallyClosedPaths',
         UNCHANGED <<config, portStates, retrying, reconnectTimeouts>>
  PROVE  /\ PathAttached(p)'
         /\ Delivering(p)' <=> phase \in {"open", "closing"}
         /\ p \in OpenPaths' <=> phase = "open"
         /\ Delivering(p) <=> serial[p][k].phase \in {"open", "closing"}
         /\ p \in OpenPaths <=> serial[p][k].phase = "open"
<1>1. portStates[p] = k /\ k # 0
  BY TheObject DEF SlotIds
<1>2. \A j \in SlotIds : serial'[p][j] =
        IF j = k THEN [phase |-> phase, bound |-> serial[p][k].bound] ELSE serial[p][j]
  <2>1. serial[p] \in Objects /\ serial[p][k] \in Ports
    BY DEF TypeOK, Objects
  <2>2. [serial[p][k] EXCEPT !.phase = phase] = [phase |-> phase, bound |-> serial[p][k].bound]
    BY <2>1 DEF Ports
  <2> QED
    BY <2>1, <2>2 DEF Objects
<1>3. PathAttached(p)'
  BY <1>1, <1>2 DEF Attached, PathAttached
<1>4. serial'[p][k].phase = phase
  BY <1>2
<1> QED
  BY <1>1, <1>3, <1>4 DEF Delivering, OpenPaths, Registered

\* A port that opens is the registered one, and the status goes up.
LEMMA OpensAttached ==
  ASSUME TypeOK, Attached, NEW p \in Paths, NEW k \in SlotIds, SerialOpens(p, k)
  PROVE  Attached'
<1>1. serial[p][k].phase = "opening"
  BY DEF SerialOpens
<1>2. portStates[p] = k /\ serial[p][k].bound /\ config.type = "serial"
  BY <1>1, TheObject
<1>3. /\ serial'[p] = [serial[p] EXCEPT ![k].phase = "open"]
      /\ \A q \in Paths \ {p} : serial'[q] = serial[q]
      /\ intentionallyClosedPaths' = intentionallyClosedPaths \ {p} /\ isDeviceConnected' = TRUE
      /\ UNCHANGED <<config, portStates, reconnectTimeouts, retrying, tcpClient>>
  BY <1>2 DEF SerialOpens, TypeOK, tcpVars
<1>4. PathAttached(p)' /\ Delivering(p)'
  BY <1>1, <1>3, PhaseAttached
<1>5. \A q \in Paths \ {p} : PathAttached(q)'
  BY <1>3, PathKept DEF Attached
<1>6. StatusExact'
  BY <1>3, <1>4 DEF StatusExact, Delivering, Registered
<1>7. OneKind'
  BY <1>2, <1>3 DEF Attached, OneKind
<1> QED
  BY <1>4, <1>5, <1>6, <1>7 DEF Attached

\* A port that goes leaves its path without one, and with a retry.
LEMMA PortGone ==
  ASSUME TypeOK, Attached, NEW p \in Paths, NEW k \in SlotIds, serial[p][k].phase # "free",
         serial' = [serial EXCEPT ![p][k] = NoPort],
         portStates' = [portStates EXCEPT ![p] = 0],
         ScheduleReconnect("serial", p),
         p \notin intentionallyClosedPaths', intentionallyClosedPaths' \subseteq intentionallyClosedPaths,
         UNCHANGED <<config, retrying, tcpClient>>
  PROVE  /\ \A q \in Paths : PathAttached(q)'
         /\ ~Delivering(p)' /\ p \notin OpenPaths'
         /\ \A q \in Paths \ {p} :
              (Delivering(q) <=> Delivering(q)') /\ (q \in OpenPaths <=> q \in OpenPaths')
         /\ OneKind'
<1>1. /\ portStates[p] = k /\ config.type = "serial" /\ p \notin intentionallyClosedPaths
      /\ \A j \in SlotIds \ {k} : serial[p][j].phase = "free"
  BY TheObject
<1>2. portStates'[p] = 0 /\ reconnectTimeouts' = reconnectTimeouts \union {p}
  BY <1>1 DEF ScheduleReconnect, TypeOK
<1>3. \A j \in SlotIds : serial'[p][j].phase = "free"
  BY <1>1 DEF TypeOK, NoPort
<1>4. PathAttached(p)' /\ ~Delivering(p)' /\ p \notin OpenPaths'
  BY <1>2, <1>3 DEF PathAttached, Delivering, OpenPaths, Registered
<1>5. \A q \in Paths \ {p} : serial'[q] = serial[q] /\ portStates'[q] = portStates[q]
  BY DEF TypeOK
<1>6. \A q \in Paths \ {p} :
        PathAttached(q)' /\ (Delivering(q) <=> Delivering(q)') /\ (q \in OpenPaths <=> q \in OpenPaths')
  BY <1>2, <1>5, PathKept DEF Attached
<1>7. OneKind'
  BY <1>1 DEF Attached, OneKind
<1> QED
  BY <1>4, <1>6, <1>7

LEMMA OpenFailsAttached ==
  ASSUME TypeOK, Attached, NEW p \in Paths, NEW k \in SlotIds, SerialOpenFails(p, k)
  PROVE  Attached'
<1>1. serial[p][k].phase = "opening"
  BY DEF SerialOpenFails
<1>2. portStates[p] = k /\ p \notin intentionallyClosedPaths
  BY <1>1, TheObject
<1>3. /\ \A q \in Paths : PathAttached(q)'
      /\ ~Delivering(p)' /\ p \notin OpenPaths'
      /\ \A q \in Paths \ {p} :
           (Delivering(q) <=> Delivering(q)') /\ (q \in OpenPaths <=> q \in OpenPaths')
      /\ OneKind'
  BY <1>1, <1>2, PortGone DEF SerialOpenFails, tcpVars
<1>4. ~Delivering(p)
  BY <1>1, <1>2 DEF Delivering
<1>5. StatusExact'
  BY <1>3, <1>4, StatusKept DEF Attached, SerialOpenFails
<1> QED
  BY <1>3, <1>5 DEF Attached

\* When the port closes, the status goes down unless another is open.
LEMMA ClosesAttached ==
  ASSUME TypeOK, Attached, NEW p \in Paths, NEW k \in SlotIds, SerialCloses(p, k)
  PROVE  Attached'
<1>1. serial[p][k].phase = "closing"
  BY DEF SerialCloses
<1>2. /\ portStates[p] = k /\ serial[p][k].bound /\ config.type = "serial"
      /\ p \notin intentionallyClosedPaths
  BY <1>1, TheObject
<1>3. /\ \A q \in Paths : PathAttached(q)'
      /\ ~Delivering(p)' /\ p \notin OpenPaths'
      /\ \A q \in Paths \ {p} :
           (Delivering(q) <=> Delivering(q)') /\ (q \in OpenPaths <=> q \in OpenPaths')
      /\ OneKind'
  BY <1>1, <1>2, PortGone DEF SerialCloses, tcpVars
<1>4. isDeviceConnected' = (isDeviceConnected /\ OpenPaths \ {p} # {}) /\ config' = config
  BY <1>2 DEF SerialCloses, StatusAfterClose
<1>5. \A q \in Paths : q \in OpenPaths' <=> q \in OpenPaths \ {p}
  BY <1>3
<1>6. \A q \in Paths : q \in OpenPaths => Delivering(q)
  BY DEF OpenPaths, Registered, Delivering
<1>7. (\E q \in Paths : q \in OpenPaths) => isDeviceConnected
  BY <1>2, StatusByPath DEF Attached
<1>8. OpenPaths \subseteq Paths
  BY DEF OpenPaths, Registered
<1>9. /\ isDeviceConnected' => \E q \in Paths : Delivering(q)'
      /\ (\E q \in Paths : q \in OpenPaths') => isDeviceConnected'
  BY <1>3, <1>4, <1>5, <1>6, <1>7, <1>8
<1>10. StatusExact'
  BY <1>9 DEF StatusExact, CommunicationStatus, OpenPaths, Registered, Delivering
<1> QED
  BY <1>3, <1>10 DEF Attached

\* Any open ports start to close: the watchdog, a dead decoder, a device that
\* is pulled.
LEMMA ClosingAttached ==
  ASSUME TypeOK, Attached,
         \A p \in Paths :
           \/ serial'[p] = serial[p]
           \/ \E k \in SlotIds :
                /\ serial[p][k].phase = "open"
                /\ serial'[p] = [serial[p] EXCEPT ![k].phase = "closing"],
         UNCHANGED <<config, portStates, intentionallyClosedPaths, retrying, reconnectTimeouts,
                     tcpClient, isDeviceConnected>>
  PROVE  Attached'
<1>1. ASSUME NEW p \in Paths
      PROVE  /\ PathAttached(p)' /\ (Delivering(p) => Delivering(p)')
             /\ (p \in OpenPaths' => p \in OpenPaths)
  <2>1. CASE serial'[p] = serial[p]
    BY <2>1, PathKept DEF Attached
  <2>2. ASSUME NEW k \in SlotIds, serial[p][k].phase = "open",
               serial'[p] = [serial[p] EXCEPT ![k].phase = "closing"]
        PROVE  /\ PathAttached(p)' /\ (Delivering(p) => Delivering(p)')
               /\ (p \in OpenPaths' => p \in OpenPaths)
    <3>1. p \notin intentionallyClosedPaths'
      BY DEF Attached, PathAttached
    <3> QED
      BY <2>2, <3>1, PhaseAttached
  <2> QED
    BY <2>1, <2>2
<1>2. StatusExact'
  BY <1>1, StatusKept DEF Attached
<1>3. OneKind'
  BY DEF Attached, OneKind, Registered
<1> QED
  BY <1>1, <1>2, <1>3 DEF Attached

\* While serial ports are in use no TCP event changes a thing, and TCP steps
\* find no serial port to close.
LEMMA ConnectTcpAttached ==
  ASSUME TypeOK, Attached, config.type = "tcp", ConnectTcp, UNCHANGED <<config, retrying>>
  PROVE  Attached'
<1>1. Registered = {} /\ retrying = {} /\ \A p \in Paths : portStates[p] = 0
  BY DEF Attached, OneKind, Registered
<1>2. /\ serial' = serial /\ portStates' = portStates
      /\ intentionallyClosedPaths' = intentionallyClosedPaths /\ reconnectTimeouts' = {}
  BY <1>1 DEF ConnectTcp, Released, TypeOK
<1>3. \A p \in Paths : PathAttached(p)'
  BY <1>1, <1>2 DEF Attached, PathAttached
<1> QED
  BY <1>1, <1>2, <1>3 DEF Attached, OneKind, Registered, StatusExact

\* Steps that touch no port, no path's retry and no TCP client.
LEMMA AttachedKept ==
  ASSUME Attached,
         UNCHANGED <<config, serial, portStates, intentionallyClosedPaths>>,
         \A p \in Paths :
           p \in reconnectTimeouts' \union retrying' <=> p \in reconnectTimeouts \union retrying,
         config.type = "tcp" => retrying' = {},
         config.type = "serial" => UNCHANGED <<tcpClient, isDeviceConnected>>
  PROVE  Attached'
<1>1. \A p \in Paths :
        PathAttached(p)' /\ (Delivering(p) <=> Delivering(p)') /\ (p \in OpenPaths <=> p \in OpenPaths')
  BY PathKept DEF Attached
<1>2. StatusExact'
  BY <1>1, StatusKept DEF Attached, StatusExact
<1>3. OneKind'
  BY DEF Attached, OneKind, Registered
<1> QED
  BY <1>1, <1>2, <1>3 DEF Attached

\* Every step but a reload keeps it.
LEMMA AttachedStep ==
  ASSUME TypeOK, OneKindOfLink, Attached, [Next]_vars, reloads' = reloads
  PROVE  Attached'
<1> USE DeviceLinkAssumption
<1>1. /\ reloads \in Nat /\ config.type \in {"serial", "tcp"}
      /\ config.type = "tcp" => Registered = {} /\ OpenPaths = {}
      /\ config.type = "serial" => tcpClient = 0
  BY DEF TypeOK, AllConfigs, Attached, OneKind, OpenPaths
<1>2. ~ReloadCommunicationConfig
  BY <1>1 DEF ReloadCommunicationConfig
<1>3. CASE TcpTimer
  BY <1>1, <1>3, ConnectTcpAttached DEF TcpTimer, OneKindOfLink
<1>4. ASSUME NEW p \in Paths, SerialTimer(p) PROVE Attached'
  <2>1. config.type = "serial"
    BY <1>1, <1>4 DEF SerialTimer, OneKindOfLink
  <2> QED
    BY <1>4, <2>1, AttachedKept DEF SerialTimer, tcpVars
<1>5. ASSUME NEW p \in Paths, SerialTimerResumes(p) PROVE Attached'
  BY <1>5, RetryAttached
<1>6. ASSUME config.type = "tcp", UNCHANGED <<config, serial, portStates, intentionallyClosedPaths, retrying>>,
             \A p \in Paths : p \in reconnectTimeouts' => p \in reconnectTimeouts,
             \A p \in Paths : p \in reconnectTimeouts => p \in reconnectTimeouts'
      PROVE  Attached'
  <2>1. retrying' = {}
    BY <1>6 DEF Attached, OneKind
  <2> QED
    BY <1>6, <2>1, AttachedKept
<1>7. ASSUME ScheduleReconnect("tcp", Tcp)
      PROVE  \A p \in Paths : p \in reconnectTimeouts' <=> p \in reconnectTimeouts
  BY <1>7 DEF ScheduleReconnect
<1>8. CASE TcpConnects \/ TcpCloses \/ WatchTcp
  <2>1. config.type = "tcp"
    BY <1>1, <1>8 DEF TcpConnects, TcpCloses, WatchTcp
  <2>2. \A p \in Paths : p \in reconnectTimeouts' <=> p \in reconnectTimeouts
    BY <1>7, <1>8 DEF TcpConnects, TcpCloses, WatchTcp, LoseTcpClient
  <2> QED
    BY <1>6, <1>8, <2>1, <2>2 DEF TcpConnects, TcpCloses, WatchTcp, serialVars
<1>9. ASSUME NEW s \in SlotIds, TcpConnectTimeout(s) PROVE Attached'
  <2>1. \A p \in Paths : p \in reconnectTimeouts' <=> p \in reconnectTimeouts
    BY <1>7, <1>9 DEF TcpConnectTimeout
  <2>2. config.type = "serial" => tcpClient' = tcpClient
    BY <1>1, <1>9 DEF TcpConnectTimeout
  <2>3. config.type = "tcp" => retrying' = {}
    BY <1>9 DEF Attached, OneKind, TcpConnectTimeout, serialVars
  <2> QED
    BY <1>9, <2>1, <2>2, <2>3, AttachedKept DEF TcpConnectTimeout, serialVars
<1>10. ASSUME NEW p \in Paths, NEW k \in SlotIds,
              SerialOpens(p, k) \/ SerialOpenFails(p, k) \/ SerialCloses(p, k)
       PROVE  Attached'
  BY <1>10, OpensAttached, OpenFailsAttached, ClosesAttached
<1>11. \A p \in OpenPaths : p \in Paths /\ portStates[p] \in SlotIds /\ serial[p][portStates[p]].phase = "open"
  BY DEF OpenPaths, Registered, TypeOK, SlotIds
<1>12. CASE WatchSerial
  <2>1. \A p \in Paths :
          \/ serial'[p] = serial[p]
          \/ \E k \in SlotIds : /\ serial[p][k].phase = "open"
                               /\ serial'[p] = [serial[p] EXCEPT ![k].phase = "closing"]
    BY <1>11, <1>12 DEF WatchSerial
  <2> QED
    BY <1>12, <2>1, ClosingAttached DEF WatchSerial, tcpVars
<1>13. ASSUME NEW p \in Paths, DecoderError(p) PROVE Attached'
  <2>1. serial' = [serial EXCEPT ![p] = [serial[p] EXCEPT ![portStates[p]].phase = "closing"]]
    BY <1>13 DEF DecoderError
  <2>2. \A q \in Paths :
          \/ serial'[q] = serial[q]
          \/ \E k \in SlotIds : /\ serial[q][k].phase = "open"
                               /\ serial'[q] = [serial[q] EXCEPT ![k].phase = "closing"]
    BY <1>11, <1>13, <2>1 DEF DecoderError, TypeOK
  <2> QED
    BY <1>13, <2>2, ClosingAttached DEF DecoderError, tcpVars
<1>14. ASSUME NEW p \in Paths, Unplug(p) PROVE Attached'
  <2> DEFINE pulled == [k \in SlotIds |-> IF serial[p][k].phase = "open"
                                          THEN [serial[p][k] EXCEPT !.phase = "closing"]
                                          ELSE serial[p][k]]
  <2>1. serial' = [serial EXCEPT ![p] = pulled] /\ serial[p] \in Objects
    BY <1>14 DEF Unplug, TypeOK, Objects
  <2>2. CASE \A k \in SlotIds : serial[p][k].phase # "open"
    <3>1. pulled = serial[p]
      BY <2>1, <2>2 DEF Objects
    <3> QED
      BY <1>14, <2>1, <3>1, ClosingAttached DEF Unplug, tcpVars, TypeOK
  <2>3. ASSUME NEW k \in SlotIds, serial[p][k].phase = "open" PROVE Attached'
    <3>1. \A j \in SlotIds \ {k} : serial[p][j].phase = "free"
      BY <2>3, TheObject
    <3>2. pulled = [serial[p] EXCEPT ![k] = [@ EXCEPT !.phase = "closing"]]
      BY <2>1, <2>3, <3>1 DEF Objects
    <3>3. pulled = [serial[p] EXCEPT ![k].phase = "closing"]
      BY <3>2
    <3> QED
      BY <1>14, <2>1, <2>3, <3>3, ClosingAttached DEF Unplug, tcpVars, TypeOK
  <2> QED
    BY <2>2, <2>3
<1>15. ASSUME UNCHANGED <<config, serialVars, reconnectTimeouts, tcpVars, isDeviceConnected>>
       PROVE  Attached'
  <2>1. config.type = "tcp" => retrying' = {}
    BY <1>15 DEF Attached, OneKind, serialVars
  <2> QED
    BY <1>15, <2>1, AttachedKept DEF serialVars, tcpVars
<1>16. CASE OnTcpData \/ TcpDeviceToggles \/ UNCHANGED vars
  BY <1>15, <1>16 DEF OnTcpData, TcpDeviceToggles, vars
<1>17. ASSUME NEW p \in Paths, OnSerialData(p) \/ Plug(p) PROVE Attached'
  BY <1>15, <1>17 DEF OnSerialData, Plug
<1>18. ASSUME NEW k \in Keys, Silence(k) PROVE Attached'
  BY <1>15, <1>18 DEF Silence
<1> QED
  BY <1>2, <1>3, <1>4, <1>5, <1>8, <1>9, <1>10, <1>12, <1>13, <1>14, <1>16, <1>17, <1>18 DEF Next

\* The receivers are attached as long as the setting is the first one.
FirstSetting == reloads = 0 => Attached

LEMMA AlwaysFirstSetting == Spec => []FirstSetting
<1>1. Init => FirstSetting
  BY InitAttached DEF FirstSetting
<1>2. TypeOK /\ OneKindOfLink /\ FirstSetting /\ [Next]_vars => FirstSetting'
  <2> SUFFICES ASSUME TypeOK, OneKindOfLink, FirstSetting, [Next]_vars, reloads' = 0
               PROVE  Attached'
    BY DEF FirstSetting
  <2>1. reloads' = reloads \/ reloads' = reloads + 1
    BY DEF Next, vars, reloadVars, ReloadCommunicationConfig, TcpTimer, TcpConnects, TcpCloses, OnTcpData,
           WatchSerial, WatchTcp, TcpDeviceToggles, SerialTimer, SerialTimerResumes, OnSerialData,
           DecoderError, Unplug, Plug, SerialOpens, SerialOpenFails, SerialCloses,
           TcpConnectTimeout, Silence
  <2>2. reloads' = reloads /\ reloads = 0
    BY <2>1, DeviceLinkAssumption DEF TypeOK
  <2> QED
    BY <2>2, AttachedStep DEF FirstSetting
<1> QED
  BY <1>1, <1>2, DeviceLinkTyped, AlwaysOneKindOfLink, PTL DEF Spec

\* Until a reload, data always comes from a registered port.
THEOREM OpenPortsRegistered == Spec => [](reloads = 0 => OpenPortIsRegistered)
<1>1. FirstSetting => (reloads = 0 => OpenPortIsRegistered)
  BY DEF FirstSetting, Attached, PathAttached, OpenPortIsRegistered
<1> QED
  BY <1>1, AlwaysFirstSetting, PTL

\* Until a reload, the clients are told exactly whether a receiver is there.
THEOREM StatusIsExact == Spec => [](reloads = 0 => StatusExact)
<1>1. FirstSetting => (reloads = 0 => StatusExact)
  BY DEF FirstSetting, Attached
<1> QED
  BY <1>1, AlwaysFirstSetting, PTL

\* Until a reload, no failure leaves a configured port closed for good.
THEOREM PortsAreRetried == Spec => [](reloads = 0 => RetryPending)
<1>1. ASSUME TypeOK, FirstSetting PROVE reloads = 0 => RetryPending
  <2>1. config.ports \subseteq Paths
    BY <1>1 DEF TypeOK, AllConfigs
  <2> QED
    BY <1>1, <2>1 DEF FirstSetting, Attached, PathAttached, RetryPending
<1> QED
  BY <1>1, AlwaysFirstSetting, DeviceLinkTyped, PTL
=============================================================================
