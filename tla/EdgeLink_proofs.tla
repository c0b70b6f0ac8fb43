-------------------------- MODULE EdgeLink_proofs --------------------------
(***************************************************************************)
(* Proofs about EdgeLink, for every value of its constants.                *)
(*                                                                         *)
(*   1. the typing of the buffer operations;                               *)
(*   2. TypeOK;                                                            *)
(*   3. the control of the link: one attempt at a time, a retry whenever   *)
(*      there is no socket, a pong timer of the socket in use;             *)
(*   4. the order in which reports are sent;                               *)
(*   5. what leaves the buffer, and what is put on the wire;               *)
(*   6. EdgeLink implements ReportChannel.                                 *)
(***************************************************************************)
EXTENDS EdgeLink, TLAPS, SequenceTheorems, FiniteSetTheorems

----------------------------------------------------------------------------
(* 1. The ring buffer. *)

\* Dropping expired items keeps a suffix of the buffer.
LEMMA DropExpiredProperties ==
  ASSUME NEW buf \in Seq(Envelopes)
  PROVE  /\ ExpiredCount(buf) \in 0..Len(buf)
         /\ DropExpired(buf) \in Seq(Envelopes)
         /\ Len(DropExpired(buf)) = Len(buf) - ExpiredCount(buf)
         /\ \A i \in 1..Len(DropExpired(buf)) : DropExpired(buf)[i] = buf[i + ExpiredCount(buf)]
<1> DEFINE old == {i \in DOMAIN buf : Expired(buf[i])}
<1>1. DOMAIN buf = 1..Len(buf) /\ Len(buf) \in Nat
  BY LenProperties
<1>2. IsFiniteSet(1..Len(buf)) /\ Cardinality(1..Len(buf)) = Len(buf)
  BY <1>1, FS_Interval, SMTT(30)
<1>3. old \subseteq 1..Len(buf)
  BY <1>1
<1>4. Cardinality(old) \in Nat /\ Cardinality(old) <= Len(buf)
  BY <1>2, <1>3, FS_Subset, FS_CardinalityType
<1>5. ExpiredCount(buf) \in 0..Len(buf)
  BY <1>1, <1>4 DEF ExpiredCount
<1>6. \A i \in (ExpiredCount(buf) + 1)..Len(buf) : buf[i] \in Envelopes
  BY <1>1, <1>5, ElementOfSeq
<1>7. /\ DropExpired(buf) \in Seq(Envelopes)
      /\ Len(DropExpired(buf)) = IF ExpiredCount(buf) + 1 <= Len(buf)
                                 THEN Len(buf) - (ExpiredCount(buf) + 1) + 1 ELSE 0
      /\ \A i \in 1..(Len(buf) - (ExpiredCount(buf) + 1) + 1) :
           DropExpired(buf)[i] = buf[(ExpiredCount(buf) + 1) + i - 1]
  <2> DEFINE k == ExpiredCount(buf) + 1
  <2>1. k \in Int /\ Len(buf) \in Int
    BY <1>1, <1>5
  <2> HIDE DEF k
  <2>2. \A i \in k..Len(buf) : buf[i] \in Envelopes
    BY <1>6 DEF k
  <2>3. /\ SubSeq(buf, k, Len(buf)) \in Seq(Envelopes)
        /\ Len(SubSeq(buf, k, Len(buf))) = IF k <= Len(buf) THEN Len(buf) - k + 1 ELSE 0
        /\ \A i \in 1..(Len(buf) - k + 1) : SubSeq(buf, k, Len(buf))[i] = buf[k + i - 1]
    BY <2>1, <2>2, SubSeqProperties
  <2> QED
    BY <2>3 DEF k, DropExpired
<1>8. Len(DropExpired(buf)) = Len(buf) - ExpiredCount(buf)
  BY <1>1, <1>5, <1>7
<1>9. ASSUME NEW i \in 1..(Len(buf) - ExpiredCount(buf))
      PROVE  DropExpired(buf)[i] = buf[i + ExpiredCount(buf)]
  <2>1. i \in 1..(Len(buf) - (ExpiredCount(buf) + 1) + 1)
    BY <1>1, <1>5
  <2>2. (ExpiredCount(buf) + 1) + i - 1 = i + ExpiredCount(buf)
    BY <1>1, <1>5
  <2> QED
    BY <1>7, <2>1, <2>2
<1> QED
  BY <1>5, <1>7, <1>8, <1>9

\* Making room drops a prefix, and leaves no more than BufferCap items.
LEMMA DropOldestProperties ==
  ASSUME NEW buf \in Seq(Envelopes)
  PROVE  \E k \in 0..Len(buf) :
           /\ DropOldest(buf) \in Seq(Envelopes)
           /\ Len(DropOldest(buf)) = Len(buf) - k
           /\ Len(DropOldest(buf)) <= BufferCap
           /\ \A i \in 1..Len(DropOldest(buf)) : DropOldest(buf)[i] = buf[i + k]
<1>1. Len(buf) \in Nat /\ BufferCap \in Nat /\ BufferCap # 0
  BY LenProperties, EdgeLinkAssumption
<1>2. CASE Len(buf) <= BufferCap
  <2>1. DropOldest(buf) = buf
    BY <1>1, <1>2 DEF DropOldest
  <2>2. /\ 0 \in 0..Len(buf)
        /\ \A i \in 1..Len(DropOldest(buf)) : DropOldest(buf)[i] = buf[i + 0]
    BY <1>1, <2>1
  <2> QED
    BY <1>1, <1>2, <2>1, <2>2
<1>3. CASE Len(buf) > BufferCap
  <2> DEFINE k == Len(buf) - BufferCap
             m == k + 1
  <2>1. k \in 0..Len(buf) /\ m \in Int /\ m <= Len(buf)
    BY <1>1, <1>3
  <2>2. DropOldest(buf) = SubSeq(buf, m, Len(buf))
    BY <1>1, <1>3 DEF DropOldest
  <2> HIDE DEF m
  <2>3. \A i \in m..Len(buf) : buf[i] \in Envelopes
    BY <1>1, <2>1, ElementOfSeq DEF m
  <2>4. /\ SubSeq(buf, m, Len(buf)) \in Seq(Envelopes)
        /\ Len(SubSeq(buf, m, Len(buf))) = IF m <= Len(buf) THEN Len(buf) - m + 1 ELSE 0
        /\ \A i \in 1..(Len(buf) - m + 1) : SubSeq(buf, m, Len(buf))[i] = buf[m + i - 1]
    BY <1>1, <2>1, <2>3, SubSeqProperties
  <2>5. /\ DropOldest(buf) \in Seq(Envelopes)
        /\ Len(DropOldest(buf)) = Len(buf) - k
        /\ Len(DropOldest(buf)) <= BufferCap
        /\ \A i \in 1..Len(DropOldest(buf)) : DropOldest(buf)[i] = buf[i + k]
    BY <1>1, <1>3, <2>1, <2>2, <2>4 DEF m
  <2> HIDE DEF k
  <2> QED
    BY <2>1, <2>5
<1> QED
  BY <1>1, <1>2, <1>3

\* What pushToBuffer leaves: a suffix of the buffer, with the item behind it.
LEMMA PushToBufferProperties ==
  ASSUME NEW buf \in Seq(Envelopes), NEW item \in Envelopes
  PROVE  \E k \in 0..(Len(buf) + 1) :
           /\ PushToBuffer(buf, item) \in Seq(Envelopes)
           /\ Len(PushToBuffer(buf, item)) = Len(buf) + 1 - k
           /\ Len(PushToBuffer(buf, item)) <= BufferCap
           /\ \A i \in 1..Len(PushToBuffer(buf, item)) :
                PushToBuffer(buf, item)[i] =
                  IF i + k <= Len(buf) THEN buf[i + k] ELSE item
<1> DEFINE young == DropExpired(buf)
           all == Append(young, item)
           e == ExpiredCount(buf)
<1>1. Len(buf) \in Nat
  BY LenProperties
<1>2. /\ e \in 0..Len(buf)
      /\ young \in Seq(Envelopes)
      /\ Len(young) = Len(buf) - e
      /\ \A i \in 1..Len(young) : young[i] = buf[i + e]
  BY DropExpiredProperties
<1>3. /\ all \in Seq(Envelopes)
      /\ Len(all) = Len(young) + 1
      /\ \A i \in 1..Len(young) : all[i] = young[i]
      /\ all[Len(young) + 1] = item
  BY <1>2, AppendProperties
<1>4. PICK d \in 0..Len(all) :
        /\ DropOldest(all) \in Seq(Envelopes)
        /\ Len(DropOldest(all)) = Len(all) - d
        /\ Len(DropOldest(all)) <= BufferCap
        /\ \A i \in 1..Len(DropOldest(all)) : DropOldest(all)[i] = all[i + d]
  BY <1>3, DropOldestProperties
<1>5. PushToBuffer(buf, item) = DropOldest(all)
  BY DEF PushToBuffer
<1> HIDE DEF young, all, e
<1>6. e + d \in 0..(Len(buf) + 1)
  BY <1>1, <1>2, <1>3, <1>4
<1>7. \A i \in 1..Len(DropOldest(all)) :
        DropOldest(all)[i] = IF i + (e + d) <= Len(buf) THEN buf[i + (e + d)] ELSE item
  <2> TAKE i \in 1..Len(DropOldest(all))
  <2>1. i + d \in 1..Len(all) /\ DropOldest(all)[i] = all[i + d]
    BY <1>1, <1>2, <1>3, <1>4, SMTT(30)
  <2>2. i \in Int /\ d \in Int /\ e \in Int /\ Len(young) = Len(buf) - e /\ Len(buf) \in Int
    BY <1>1, <1>2, <1>3, <1>4
  <2>3. CASE i + d <= Len(young)
    <3>1. i + d \in 1..Len(young)
      BY <2>1, <2>2, <2>3
    <3>2. all[i + d] = buf[(i + d) + e]
      BY <1>2, <1>3, <3>1
    <3>3. (i + d) + e = i + (e + d) /\ i + (e + d) <= Len(buf)
      BY <2>2, <2>3
    <3> QED
      BY <2>1, <3>2, <3>3
  <2>4. CASE i + d = Len(young) + 1
    <3>1. all[i + d] = item
      BY <1>3, <2>4
    <3>2. ~(i + (e + d) <= Len(buf))
      BY <2>2, <2>4
    <3> QED
      BY <2>1, <3>1, <3>2
  <2> QED
    BY <1>3, <2>1, <2>2, <2>3, <2>4
<1>8. Len(DropOldest(all)) = Len(buf) + 1 - (e + d)
  BY <1>1, <1>2, <1>3, <1>4
<1> QED
  BY <1>4, <1>5, <1>6, <1>7, <1>8

----------------------------------------------------------------------------
(* 2. Types. *)

\* A step of the buffer or the wire keeps envelopes in both.
LEMMA DataTyped ==
  ASSUME TypeOK
  PROVE  /\ DropExpired(ringBuffer) \in Seq(Envelopes)
         /\ wire[conn] \o DropExpired(ringBuffer) \in Seq(Envelopes)
         /\ \A e \in Envelopes : /\ Append(wire[conn], e) \in Seq(Envelopes)
                                 /\ PushToBuffer(ringBuffer, e) \in Seq(Envelopes)
         /\ \A c \in Conns : wire[c] # <<>> =>
              Head(wire[c]) \in Envelopes /\ Tail(wire[c]) \in Seq(Envelopes)
<1>1. /\ ringBuffer \in Seq(Envelopes) /\ conn \in Conns
      /\ wire \in [Conns -> Seq(Envelopes)]
  BY DEF TypeOK
<1>2. DropExpired(ringBuffer) \in Seq(Envelopes)
  BY <1>1, DropExpiredProperties
<1>3. wire[conn] \o DropExpired(ringBuffer) \in Seq(Envelopes)
  BY <1>1, <1>2, ConcatProperties
<1>4. ASSUME NEW e \in Envelopes
      PROVE  /\ Append(wire[conn], e) \in Seq(Envelopes)
             /\ PushToBuffer(ringBuffer, e) \in Seq(Envelopes)
  BY <1>1, AppendProperties, PushToBufferProperties
<1>5. ASSUME NEW c \in Conns, wire[c] # <<>>
      PROVE  Head(wire[c]) \in Envelopes /\ Tail(wire[c]) \in Seq(Envelopes)
  BY <1>1, <1>5, HeadTailProperties
<1> QED
  BY <1>2, <1>3, <1>4, <1>5

\* connect makes a socket with a number in range, or schedules a retry.
LEMMA ConnectTyped ==
  ASSUME TypeOK, NewSocket \/ ConstructorFails
  PROVE  /\ conn' \in Conns
         /\ \/ ws' = "CONNECTING" /\ reconnectTimer' = FALSE
            \/ ws' = "CLOSED" /\ reconnectTimer' = TRUE /\ conn' = conn
<1>1. CASE NewSocket
  BY <1>1, EdgeLinkAssumption DEF TypeOK, NewSocket, Conns
<1>2. CASE ConstructorFails
  BY <1>2 DEF TypeOK, ConstructorFails
<1> QED
  BY <1>1, <1>2

LEMMA FaultTyped ==
  ASSUME TypeOK, Fault \/ UNCHANGED faults
  PROVE  faults' \in 0..MaxFaults
BY EdgeLinkAssumption DEF TypeOK, Fault

\* Every variable of the initial state has its type.
LEMMA InitTyped == Init => TypeOK
<1> SUFFICES ASSUME Init PROVE TypeOK
  OBVIOUS
<1>1. 1 \in Conns /\ 0 \in 0..MaxReports /\ 0 \in 0..MaxClock /\ 0 \in 0..MaxFaults
  BY EdgeLinkAssumption DEF Conns
<1>2. <<>> \in Seq(Envelopes)
  BY EmptySeq
<1> QED
  BY <1>1, <1>2 DEF Init, TypeOK, ReadyStates

\* Every step of the link keeps the types.
LEMMA NextTyped == TypeOK /\ [Next]_vars => TypeOK'
<1> SUFFICES ASSUME TypeOK, [Next]_vars PROVE TypeOK'
  OBVIOUS
<1> USE DEF ReadyStates
<1>1. CASE ReconnectTimer
  BY <1>1, ConnectTyped, FaultTyped DEF ReconnectTimer, TypeOK, dataVars, netVars
<1>2. CASE OnOpen
  <2>1. /\ ringBuffer' = <<>>
        /\ wire' = [wire EXCEPT ![conn] = wire[conn] \o DropExpired(ringBuffer)]
    BY <1>2 DEF OnOpen, FlushBuffer
  <2>2. wire' \in [Conns -> Seq(Envelopes)] /\ ringBuffer' \in Seq(Envelopes)
    BY <2>1, DataTyped, EmptySeq DEF TypeOK
  <2> QED
    BY <1>2, <2>2 DEF OnOpen, TypeOK, netVars, boundVars
<1>3. CASE PeerCloses \/ OnClose \/ OnError
  BY <1>3, FaultTyped DEF PeerCloses, OnClose, OnError, StopHeartbeat, ScheduleReconnect,
       TypeOK, timerVars, dataVars, netVars, boundVars
<1>4. CASE PingInterval \/ OnPong \/ PongTimeout
  BY <1>4, FaultTyped DEF PingInterval, OnPong, PongTimeout, TypeOK, timerVars, dataVars, netVars, boundVars
<1>5. CASE PushAis
  <2> DEFINE envelope == [id |-> pushed + 1, ts |-> clock]
  <2>1. pushed' = pushed + 1 /\ pushed + 1 \in 1..MaxReports /\ pushed' \in 0..MaxReports
    BY <1>5, EdgeLinkAssumption DEF PushAis, TypeOK
  <2>2. envelope \in Envelopes
    BY <2>1 DEF Envelopes, Reports, TypeOK
  <2> HIDE DEF envelope
  <2>3. \/ wire' = [wire EXCEPT ![conn] = Append(wire[conn], envelope)] /\ ringBuffer' = ringBuffer
        \/ ringBuffer' = PushToBuffer(ringBuffer, envelope) /\ wire' = wire
    BY <1>5 DEF PushAis, envelope
  <2>4. wire' \in [Conns -> Seq(Envelopes)] /\ ringBuffer' \in Seq(Envelopes)
    BY <2>2, <2>3, DataTyped DEF TypeOK
  <2> QED
    BY <1>5, <2>1, <2>4 DEF PushAis, TypeOK, edgeVars, timerVars, netVars, boundVars
<1>6. CASE Stop
  BY <1>6, FaultTyped DEF Stop, StopHeartbeat, TypeOK, dataVars, netVars
<1>7. CASE Restart
  <2>1. ringBuffer' \in Seq(Envelopes)
    BY <1>7, EmptySeq DEF Restart
  <2>2. faults' \in 0..MaxFaults
    BY <1>7, FaultTyped DEF Restart
  <2> QED
    BY <1>7, <2>1, <2>2, ConnectTyped DEF Restart, StopHeartbeat, TypeOK, netVars
<1>8. CASE Accept \/ CutPath \/ HealPath \/ CentralStops \/ CentralStarts
  BY <1>8, FaultTyped, ZenonT(40) DEF Accept, CutPath, HealPath, CentralStops, CentralStarts,
       TypeOK, edgeVars, timerVars, dataVars, boundVars
<1>9. CASE Tick
  BY <1>9, EdgeLinkAssumption DEF Tick, TypeOK, edgeVars, timerVars, dataVars, netVars
<1>10. ASSUME NEW c \in Conns, Ingest(c) PROVE TypeOK'
  <2>1. Head(wire[c]) \in Envelopes /\ Tail(wire[c]) \in Seq(Envelopes)
    BY <1>10, DataTyped DEF Ingest
  <2>2. [id |-> Head(wire[c]).id, conn |-> c] \in [id : Reports, conn : Conns]
    BY <2>1 DEF Envelopes
  <2>3. received' \subseteq [id : Reports, conn : Conns] /\ wire' \in [Conns -> Seq(Envelopes)]
    BY <1>10, <2>1, <2>2 DEF Ingest, TypeOK
  <2> QED
    BY <1>10, <2>3 DEF Ingest, TypeOK, edgeVars, timerVars, netVars, boundVars
<1>11. ASSUME NEW c \in Conns, ServerSeesEnd(c) PROVE TypeOK'
  BY <1>11 DEF ServerSeesEnd, TypeOK, edgeVars, timerVars, dataVars, boundVars
<1>12. ASSUME NEW c \in Conns, LoseInFlight(c) PROVE TypeOK'
  <2>1. wire' \in [Conns -> Seq(Envelopes)]
    BY <1>12, EmptySeq DEF LoseInFlight, TypeOK
  <2> QED
    BY <1>12, <2>1 DEF LoseInFlight, TypeOK, edgeVars, timerVars, netVars, boundVars
<1>13. CASE UNCHANGED vars
  BY <1>13 DEF vars, edgeVars, timerVars, dataVars, netVars, boundVars, TypeOK
<1> QED
  BY <1>1, <1>2, <1>3, <1>4, <1>5, <1>6, <1>7, <1>8, <1>9, <1>10, <1>11, <1>12, <1>13
     DEF Next, Client, Environment

\* Every variable keeps its type, whatever the link goes through.
THEOREM TypeCorrect == Spec => []TypeOK
BY InitTyped, NextTyped, PTL DEF Spec

----------------------------------------------------------------------------
(* 3. The control of the link. *)

\* What the three control properties need to be inductive: a socket that is
\* closed has no pong pending.
LinkInv ==
  /\ OneAttempt /\ AlwaysRetrying /\ PongTimerOfThisSocket
  /\ ws = "CLOSED" => pongTimer = 0

LEMMA LinkInvInductive == TypeOK /\ LinkInv /\ [Next]_vars => LinkInv'
<1> SUFFICES ASSUME TypeOK, LinkInv, [Next]_vars PROVE LinkInv'
  OBVIOUS
<1> USE DEF LinkInv, OneAttempt, AlwaysRetrying, PongTimerOfThisSocket
<1>1. CASE ReconnectTimer
  BY <1>1, ConnectTyped DEF ReconnectTimer
<1>2. CASE OnOpen
  BY <1>2 DEF OnOpen
<1>3. CASE OnClose
  BY <1>3 DEF OnClose, StopHeartbeat, ScheduleReconnect
<1>4. CASE PeerCloses \/ OnError
  BY <1>4 DEF PeerCloses, OnError, timerVars
<1>5. CASE PingInterval \/ OnPong
  BY <1>5 DEF PingInterval, OnPong
<1>6. CASE PongTimeout
  BY <1>6 DEF PongTimeout
<1>7. CASE Stop
  BY <1>7 DEF Stop, StopHeartbeat
<1>8. CASE Restart
  BY <1>8, ConnectTyped DEF Restart, StopHeartbeat
<1>9. CASE UNCHANGED edgeVars
  BY <1>9 DEF edgeVars, timerVars
<1>10. PushAis \/ Accept \/ CutPath \/ HealPath \/ CentralStops \/ CentralStarts \/ Tick
       \/ (\E c \in Conns : Ingest(c) \/ ServerSeesEnd(c) \/ LoseInFlight(c)) \/ UNCHANGED vars
       => UNCHANGED edgeVars
  BY DEF PushAis, Accept, CutPath, HealPath, CentralStops, CentralStarts, Tick,
         Ingest, ServerSeesEnd, LoseInFlight, vars
<1> QED
  BY <1>1, <1>2, <1>3, <1>4, <1>5, <1>6, <1>7, <1>8, <1>9, <1>10 DEF Next, Client, Environment

\* The control invariant holds in every state of the link.
LEMMA LinkInvariant == Spec => []LinkInv
<1>1. Init => LinkInv
  BY DEF Init, LinkInv, OneAttempt, AlwaysRetrying, PongTimerOfThisSocket
<1> QED
  BY <1>1, LinkInvInductive, TypeCorrect, PTL DEF Spec

\* scheduleReconnect never leads to two connection attempts: a retry is only
\* ever pending while there is no socket.
THEOREM NeverTwoAttempts == Spec => []OneAttempt
<1>1. LinkInv => OneAttempt
  BY DEF LinkInv
<1> QED
  BY <1>1, LinkInvariant, PTL

\* Whatever ended the last socket, the edge has a retry pending.
THEOREM RetriesUntilStopped == Spec => []AlwaysRetrying
<1>1. LinkInv => AlwaysRetrying
  BY DEF LinkInv
<1> QED
  BY <1>1, LinkInvariant, PTL

\* Both at once, as the runs check it: whatever combination of error, close and
\* timers ends a socket, it leaves one retry behind.
THEOREM RetryIsExact == Spec => []RetryExactly
<1>1. OneAttempt /\ AlwaysRetrying <=> RetryExactly
  BY DEF RetryExactly
<1> QED
  BY <1>1, NeverTwoAttempts, RetriesUntilStopped, PTL

\* The 10 s pong timer never outlives its socket, so terminate() hits the
\* connection the ping was sent on.
THEOREM PongTimerNeverOutlivesSocket == Spec => []PongTimerOfThisSocket
<1>1. LinkInv => PongTimerOfThisSocket
  BY DEF LinkInv
<1> QED
  BY <1>1, LinkInvariant, PTL

----------------------------------------------------------------------------
(* 4. The order in which reports are sent. *)

\* The reports in a sequence of envelopes.
Ids(s) == {s[i].id : i \in DOMAIN s}

LEMMA IdsTyped ==
  ASSUME NEW s \in Seq(Envelopes)
  PROVE  /\ DOMAIN s = 1..Len(s) /\ Len(s) \in Nat
         /\ \A i \in 1..Len(s) : s[i] \in Envelopes /\ s[i].id \in Reports
         /\ Ids(s) \subseteq Reports
<1>1. DOMAIN s = 1..Len(s) /\ Len(s) \in Nat
  BY LenProperties
<1>2. \A i \in 1..Len(s) : s[i] \in Envelopes
  BY ElementOfSeq
<1> QED
  BY <1>1, <1>2 DEF Ids, Envelopes

LEMMA AppendIds ==
  ASSUME NEW s \in Seq(Envelopes), NEW e \in Envelopes
  PROVE  /\ Ids(Append(s, e)) = Ids(s) \union {e.id}
         /\ Increasing(s) /\ (\A r \in Ids(s) : r < e.id) => Increasing(Append(s, e))
<1> DEFINE t == Append(s, e)
<1>1. /\ t \in Seq(Envelopes) /\ Len(t) = Len(s) + 1
      /\ \A i \in 1..Len(s) : t[i] = s[i]
      /\ t[Len(s) + 1] = e
  BY AppendProperties
<1>2. DOMAIN s = 1..Len(s) /\ DOMAIN t = 1..(Len(s) + 1) /\ Len(s) \in Nat
  BY <1>1, IdsTyped
<1> HIDE DEF t
<1>3. 1..(Len(s) + 1) = (1..Len(s)) \union {Len(s) + 1}
  BY <1>2
<1>4. Ids(t) = Ids(s) \union {e.id}
  BY <1>1, <1>2, <1>3 DEF Ids
<1>5. ASSUME Increasing(s), \A r \in Ids(s) : r < e.id
      PROVE  Increasing(t)
  <2>1. ASSUME NEW i \in 1..(Len(s) + 1), NEW j \in 1..(Len(s) + 1), i < j
        PROVE  t[i].id < t[j].id
    <3>1. i \in 1..Len(s) /\ t[i] = s[i]
      BY <1>1, <1>2, <2>1
    <3>2. CASE j = Len(s) + 1
      BY <1>1, <1>2, <1>5, <3>1, <3>2 DEF Ids
    <3>3. CASE j \in 1..Len(s)
      BY <1>1, <1>2, <1>5, <2>1, <3>1, <3>3 DEF Increasing
    <3> QED
      BY <1>3, <3>2, <3>3
  <2> QED
    BY <1>2, <2>1 DEF Increasing
<1> QED
  BY <1>4, <1>5 DEF t

LEMMA ConcatIds ==
  ASSUME NEW s \in Seq(Envelopes), NEW t \in Seq(Envelopes)
  PROVE  /\ Ids(s \o t) = Ids(s) \union Ids(t)
         /\ Increasing(s) /\ Increasing(t) /\ (\A r \in Ids(s), q \in Ids(t) : r < q)
              => Increasing(s \o t)
<1> DEFINE u == s \o t
<1>1. /\ u \in Seq(Envelopes) /\ Len(u) = Len(s) + Len(t)
      /\ \A i \in 1..(Len(s) + Len(t)) : u[i] = IF i <= Len(s) THEN s[i] ELSE t[i - Len(s)]
  BY ConcatProperties
<1>2. /\ DOMAIN s = 1..Len(s) /\ Len(s) \in Nat
      /\ DOMAIN t = 1..Len(t) /\ Len(t) \in Nat
      /\ DOMAIN u = 1..(Len(s) + Len(t))
  BY <1>1, IdsTyped
<1> HIDE DEF u
<1>3. \A i \in 1..Len(s) : i \in DOMAIN u /\ u[i] = s[i]
  BY <1>1, <1>2
<1>4. \A i \in 1..Len(t) : i + Len(s) \in DOMAIN u /\ u[i + Len(s)] = t[i]
  <2> TAKE i \in 1..Len(t)
  <2>1. /\ i + Len(s) \in 1..(Len(s) + Len(t)) /\ ~(i + Len(s) <= Len(s))
        /\ (i + Len(s)) - Len(s) = i
    BY <1>2
  <2> QED
    BY <1>1, <1>2, <2>1
<1>5. \A k \in DOMAIN u : \/ k \in 1..Len(s) /\ u[k] = s[k]
                          \/ k - Len(s) \in 1..Len(t) /\ u[k] = t[k - Len(s)] /\ k > Len(s)
  <2> TAKE k \in DOMAIN u
  <2>1. CASE k <= Len(s)
    BY <1>1, <1>2, <2>1
  <2>2. CASE ~(k <= Len(s))
    BY <1>1, <1>2, <2>2
  <2> QED
    BY <2>1, <2>2
<1>6. Ids(u) = Ids(s) \union Ids(t)
  <2>1. Ids(u) \subseteq Ids(s) \union Ids(t)
    BY <1>2, <1>5 DEF Ids
  <2>2. Ids(s) \subseteq Ids(u)
    BY <1>2, <1>3 DEF Ids
  <2>3. Ids(t) \subseteq Ids(u)
    <3>1. ASSUME NEW i \in 1..Len(t) PROVE t[i].id \in Ids(u)
      <4>1. i + Len(s) \in DOMAIN u /\ u[i + Len(s)].id = t[i].id
        BY <1>4
      <4> QED
        BY <4>1 DEF Ids
    <3> QED
      BY <1>2, <3>1 DEF Ids
  <2> QED
    BY <2>1, <2>2, <2>3
<1>7. ASSUME Increasing(s), Increasing(t), \A r \in Ids(s), q \in Ids(t) : r < q
      PROVE  Increasing(u)
  <2>1. ASSUME NEW i \in DOMAIN u, NEW j \in DOMAIN u, i < j
        PROVE  u[i].id < u[j].id
    <3>1. CASE i \in 1..Len(s) /\ u[i] = s[i] /\ j \in 1..Len(s) /\ u[j] = s[j]
      BY <1>2, <1>7, <2>1, <3>1 DEF Increasing
    <3>2. CASE i \in 1..Len(s) /\ u[i] = s[i] /\ j - Len(s) \in 1..Len(t) /\ u[j] = t[j - Len(s)]
      BY <1>2, <1>7, <3>2 DEF Ids
    <3>3. CASE /\ i - Len(s) \in 1..Len(t) /\ u[i] = t[i - Len(s)]
               /\ j - Len(s) \in 1..Len(t) /\ u[j] = t[j - Len(s)]
      <4>1. i - Len(s) < j - Len(s)
        BY <1>2, <2>1
      <4> QED
        BY <1>2, <1>7, <3>3, <4>1 DEF Increasing
    <3>4. CASE i > Len(s) /\ j \in 1..Len(s)
      BY <1>2, <2>1, <3>4
    <3> QED
      BY <1>5, <3>1, <3>2, <3>3, <3>4
  <2> QED
    BY <2>1 DEF Increasing
<1> QED
  BY <1>6, <1>7 DEF u

LEMMA TailIds ==
  ASSUME NEW s \in Seq(Envelopes), s # <<>>
  PROVE  /\ Ids(s) = {Head(s).id} \union Ids(Tail(s))
         /\ Increasing(s) => /\ Increasing(Tail(s))
                             /\ \A r \in Ids(Tail(s)) : Head(s).id < r
<1> DEFINE t == Tail(s)
<1>1. /\ t \in Seq(Envelopes) /\ Len(t) = Len(s) - 1 /\ Len(s) \in Nat \ {0}
      /\ \A i \in 1..Len(t) : t[i] = s[i + 1]
      /\ Head(s) = s[1]
  BY HeadTailProperties, LenProperties, EmptySeq
<1>2. DOMAIN s = 1..Len(s) /\ DOMAIN t = 1..(Len(s) - 1)
  BY <1>1, IdsTyped
<1> HIDE DEF t
<1>3. \A i \in 1..(Len(s) - 1) : i + 1 \in 1..Len(s) /\ 1 < i + 1 /\ t[i] = s[i + 1]
  BY <1>1
<1>4. \A k \in 1..Len(s) : k = 1 \/ (k - 1 \in 1..(Len(s) - 1) /\ t[k - 1] = s[k])
  <2> TAKE k \in 1..Len(s)
  <2>1. k = 1 \/ (k - 1 \in 1..(Len(s) - 1) /\ (k - 1) + 1 = k)
    BY <1>1
  <2> QED
    BY <1>3, <2>1
<1>5. 1 \in 1..Len(s)
  BY <1>1
<1>6. Ids(s) = {Head(s).id} \union Ids(t)
  <2>1. Ids(s) \subseteq {Head(s).id} \union Ids(t)
    <3>1. ASSUME NEW k \in 1..Len(s) PROVE s[k].id \in {Head(s).id} \union Ids(t)
      BY <1>1, <1>2, <1>4 DEF Ids
    <3> QED
      BY <1>2, <3>1 DEF Ids
  <2>2. Head(s).id \in Ids(s)
    BY <1>1, <1>2, <1>5 DEF Ids
  <2>3. Ids(t) \subseteq Ids(s)
    BY <1>2, <1>3 DEF Ids
  <2> QED
    BY <2>1, <2>2, <2>3
<1>7. ASSUME Increasing(s)
      PROVE  Increasing(t) /\ \A r \in Ids(t) : Head(s).id < r
  <2>1. ASSUME NEW i \in 1..(Len(s) - 1), NEW j \in 1..(Len(s) - 1), i < j
        PROVE  t[i].id < t[j].id
    <3>1. i + 1 < j + 1
      BY <1>1, <2>1
    <3> QED
      BY <1>2, <1>3, <1>7, <3>1 DEF Increasing
  <2>2. ASSUME NEW i \in 1..(Len(s) - 1) PROVE Head(s).id < t[i].id
    BY <1>1, <1>2, <1>3, <1>5, <1>7 DEF Increasing
  <2> QED
    BY <1>2, <2>1, <2>2 DEF Increasing, Ids
<1> QED
  BY <1>6, <1>7 DEF t

\* What DropExpired leaves is still in order.
LEMMA DropExpiredIds ==
  ASSUME NEW buf \in Seq(Envelopes)
  PROVE  /\ Ids(DropExpired(buf)) \subseteq Ids(buf)
         /\ Increasing(buf) => Increasing(DropExpired(buf))
<1> DEFINE t == DropExpired(buf)
           e == ExpiredCount(buf)
<1>1. /\ e \in 0..Len(buf) /\ t \in Seq(Envelopes) /\ Len(t) = Len(buf) - e
      /\ \A i \in 1..Len(t) : t[i] = buf[i + e]
  BY DropExpiredProperties
<1>2. DOMAIN buf = 1..Len(buf) /\ Len(buf) \in Nat /\ DOMAIN t = 1..Len(t)
  BY <1>1, IdsTyped
<1> HIDE DEF t, e
<1>3. \A i \in 1..Len(t) : i + e \in 1..Len(buf) /\ t[i] = buf[i + e]
  BY <1>1, <1>2
<1>4. Ids(t) \subseteq Ids(buf)
  BY <1>2, <1>3 DEF Ids
<1>5. ASSUME Increasing(buf) PROVE Increasing(t)
  <2>1. ASSUME NEW i \in 1..Len(t), NEW j \in 1..Len(t), i < j
        PROVE  t[i].id < t[j].id
    <3>1. i + e < j + e
      BY <1>1, <1>2, <2>1
    <3> QED
      BY <1>2, <1>3, <1>5, <3>1 DEF Increasing
  <2> QED
    BY <1>2, <2>1 DEF Increasing
<1> QED
  BY <1>4, <1>5 DEF t

\* What pushToBuffer leaves is in order when the item is the newest report.
LEMMA PushToBufferIds ==
  ASSUME NEW buf \in Seq(Envelopes), NEW item \in Envelopes
  PROVE  /\ Ids(PushToBuffer(buf, item)) \subseteq Ids(buf) \union {item.id}
         /\ Increasing(buf) /\ (\A r \in Ids(buf) : r < item.id)
              => Increasing(PushToBuffer(buf, item))
<1> DEFINE t == PushToBuffer(buf, item)
<1>1. PICK k \in 0..(Len(buf) + 1) :
        /\ t \in Seq(Envelopes) /\ Len(t) = Len(buf) + 1 - k
        /\ \A i \in 1..Len(t) : t[i] = IF i + k <= Len(buf) THEN buf[i + k] ELSE item
  BY PushToBufferProperties
<1>2. DOMAIN buf = 1..Len(buf) /\ Len(buf) \in Nat /\ DOMAIN t = 1..Len(t)
  BY <1>1, IdsTyped
<1> HIDE DEF t
<1>3. \A i \in 1..Len(t) : \/ i + k \in 1..Len(buf) /\ t[i] = buf[i + k]
                           \/ i + k = Len(buf) + 1 /\ t[i] = item
  <2> TAKE i \in 1..Len(t)
  <2>1. CASE i + k <= Len(buf)
    BY <1>1, <1>2, <2>1
  <2>2. CASE ~(i + k <= Len(buf))
    <3>1. t[i] = item
      BY <1>1, <2>2
    <3>2. i + k = Len(buf) + 1
      <4>1. Len(t) = Len(buf) + 1 - k /\ i \in Int /\ i <= Len(t) /\ k \in Int
        BY <1>1, <1>2
      <4> QED
        BY <1>2, <2>2, <4>1
    <3> QED
      BY <3>1, <3>2
  <2> QED
    BY <2>1, <2>2
<1>4. Ids(t) \subseteq Ids(buf) \union {item.id}
  BY <1>2, <1>3 DEF Ids
<1>5. ASSUME Increasing(buf), \A r \in Ids(buf) : r < item.id
      PROVE  Increasing(t)
  <2>1. ASSUME NEW i \in 1..Len(t), NEW j \in 1..Len(t), i < j
        PROVE  t[i].id < t[j].id
    <3>1. i + k < j + k /\ i + k # Len(buf) + 1 /\ i + k \in 1..Len(buf)
      BY <1>1, <1>2, <1>3, <2>1
    <3>2. t[i] = buf[i + k]
      BY <1>3, <3>1
    <3>3. CASE j + k \in 1..Len(buf) /\ t[j] = buf[j + k]
      BY <1>2, <1>5, <3>1, <3>2, <3>3 DEF Increasing
    <3>4. CASE t[j] = item
      BY <1>2, <1>5, <3>1, <3>2, <3>4 DEF Ids
    <3> QED
      BY <1>3, <3>3, <3>4
  <2> QED
    BY <1>2, <2>1 DEF Increasing
<1> QED
  BY <1>4, <1>5 DEF t

\* What SendOrder needs to be inductive: no report is newer than the last one
\* pushed, sockets that do not exist yet have carried nothing, and the buffer
\* is empty while reports bypass it.
OrderInv ==
  /\ SendOrder
  /\ DrainedWhileConnected
  /\ \A r \in BufferedIds : r <= pushed
  /\ \A c \in Conns : \A r \in WireIds(c) \union ReceivedOn(c) : r <= pushed
  /\ \A c \in Conns : c > conn => WireIds(c) \union ReceivedOn(c) = {}

\* Sendable becomes true only where the buffer is emptied.
LEMMA BypassOnlyAfterOpen ==
  ASSUME Next \/ UNCHANGED vars, Sendable'
  PROVE  Sendable \/ OnOpen
<1> USE DEF Sendable
<1>1. CASE ReconnectTimer \/ Restart
  BY <1>1 DEF ReconnectTimer, Restart, NewSocket, ConstructorFails
<1>2. CASE PeerCloses \/ OnClose \/ OnError
  BY <1>2 DEF PeerCloses, OnClose, OnError
<1>3. CASE PingInterval \/ OnPong \/ PongTimeout \/ Stop
  BY <1>3 DEF PingInterval, OnPong, PongTimeout, Stop
<1>4. PushAis \/ Accept \/ CutPath \/ HealPath \/ CentralStops \/ CentralStarts \/ Tick
      \/ (\E c \in Conns : Ingest(c) \/ ServerSeesEnd(c) \/ LoseInFlight(c)) \/ UNCHANGED vars
      => UNCHANGED edgeVars
  BY DEF PushAis, Accept, CutPath, HealPath, CentralStops, CentralStarts, Tick,
         Ingest, ServerSeesEnd, LoseInFlight, vars
<1>5. CASE UNCHANGED edgeVars
  BY <1>5 DEF edgeVars
<1> QED
  BY <1>1, <1>2, <1>3, <1>4, <1>5 DEF Next, Client, Environment

\* The buffer and the sets of reports on a socket, in the terms of Ids.
LEMMA IdsOfState ==
  /\ BufferedIds = Ids(ringBuffer) /\ BufferedIds' = Ids(ringBuffer')
  /\ \A c \in Conns : WireIds(c) = Ids(wire[c]) /\ WireIds(c)' = Ids(wire'[c])
BY DEF BufferedIds, WireIds, Ids

\* A step that puts nothing on a wire and takes nothing in keeps the order.
LEMMA QuietStepKeepsOrder ==
  ASSUME TypeOK, TypeOK', OrderInv, DrainedWhileConnected',
         received' = received, pushed' = pushed, conn' \in Nat, conn' >= conn,
         ringBuffer' \in {ringBuffer, <<>>},
         \A c \in Conns : wire'[c] \in {wire[c], <<>>}
  PROVE  OrderInv'
<1>1. Increasing(<<>>) /\ Ids(<<>>) = {}
  BY DEF Increasing, Ids
<1>2. Increasing(ringBuffer') /\ BufferedIds' \subseteq BufferedIds
  BY <1>1, IdsOfState DEF OrderInv, SendOrder
<1>3. \A c \in Conns : /\ Increasing(wire'[c]) /\ WireIds(c)' \subseteq WireIds(c)
                       /\ ReceivedOn(c)' = ReceivedOn(c)
  BY <1>1, IdsOfState DEF OrderInv, SendOrder, ReceivedOn
<1>4. SendOrder'
  BY <1>2, <1>3 DEF OrderInv, SendOrder
<1>5. \A c \in Conns : c > conn' => c > conn
  BY DEF TypeOK, Conns
<1> QED
  BY <1>2, <1>3, <1>4, <1>5 DEF OrderInv

LEMMA DrainedInductive ==
  ASSUME DrainedWhileConnected, Next \/ UNCHANGED vars
  PROVE  DrainedWhileConnected'
<1>1. CASE OnOpen
  BY <1>1 DEF OnOpen, FlushBuffer, DrainedWhileConnected
<1>2. CASE PushAis
  BY <1>2 DEF PushAis, Sendable, edgeVars, DrainedWhileConnected
<1>3. CASE ~OnOpen /\ ~PushAis
  <2>1. ringBuffer' \in {ringBuffer, <<>>}
    BY <1>3 DEF Next, Client, Environment, ReconnectTimer, PeerCloses, OnClose, OnError,
         PingInterval, OnPong, PongTimeout, Stop, Restart, Accept, CutPath, HealPath,
         CentralStops, CentralStarts, Tick, Ingest, ServerSeesEnd, LoseInFlight, vars, dataVars
  <2>2. Sendable' => Sendable
    BY <1>3, BypassOnlyAfterOpen
  <2> QED
    BY <2>1, <2>2 DEF DrainedWhileConnected
<1> QED
  BY <1>1, <1>2, <1>3

LEMMA OnOpenKeepsOrder ==
  ASSUME TypeOK, OrderInv, DrainedWhileConnected', OnOpen
  PROVE  OrderInv'
<1> DEFINE young == DropExpired(ringBuffer)
<1>1. /\ ringBuffer' = <<>> /\ conn' = conn /\ pushed' = pushed /\ received' = received
      /\ wire' = [wire EXCEPT ![conn] = wire[conn] \o young]
  BY DEF OnOpen, FlushBuffer
<1>2. /\ ringBuffer \in Seq(Envelopes) /\ young \in Seq(Envelopes)
      /\ conn \in Conns /\ conn \in Nat /\ wire \in [Conns -> Seq(Envelopes)]
      /\ wire[conn] \in Seq(Envelopes)
  BY DataTyped DEF TypeOK, Conns
<1>3. Ids(young) \subseteq BufferedIds /\ Increasing(young)
  BY <1>2, DropExpiredIds, IdsOfState DEF OrderInv, SendOrder
<1> HIDE DEF young
<1>4. \A r \in WireIds(conn) \union ReceivedOn(conn), q \in Ids(young) : r < q
  BY <1>2, <1>3 DEF OrderInv, SendOrder
<1>5. Ids(wire[conn] \o young) = WireIds(conn) \union Ids(young)
  BY <1>2, ConcatIds, IdsOfState
<1>6. Increasing(wire[conn] \o young)
  BY <1>2, <1>3, <1>4, ConcatIds, IdsOfState DEF OrderInv, SendOrder
<1>7. \A c \in Conns : c = conn => /\ WireIds(c)' = WireIds(c) \union Ids(young)
                                  /\ Increasing(wire'[c])
  BY <1>1, <1>2, <1>5, <1>6, IdsOfState
<1>8. \A c \in Conns : /\ ReceivedOn(c)' = ReceivedOn(c)
                       /\ c # conn => wire'[c] = wire[c] /\ WireIds(c)' = WireIds(c)
  BY <1>1, <1>2, IdsOfState DEF ReceivedOn
<1>9. BufferedIds' = {} /\ Increasing(ringBuffer')
  BY <1>1, IdsOfState DEF Ids, Increasing
<1>10. SendOrder'
  <2>1. ASSUME NEW c \in Conns
        PROVE  Increasing(wire'[c]) /\ \A r \in ReceivedOn(c)', s \in WireIds(c)' : r < s
    <3>1. CASE c = conn
      <4>1. \A r \in ReceivedOn(c) : \A s \in WireIds(c) \union Ids(young) : r < s
        BY <1>2, <1>4, <3>1 DEF OrderInv, SendOrder
      <4> QED
        BY <1>2, <1>7, <1>8, <3>1, <4>1
    <3>2. CASE c # conn
      <4>1. Increasing(wire[c]) /\ \A r \in ReceivedOn(c), s \in WireIds(c) : r < s
        BY DEF OrderInv, SendOrder
      <4> QED
        BY <1>8, <3>2, <4>1
    <3> QED
      BY <3>1, <3>2
  <2>2. ASSUME NEW c \in Conns, NEW d \in Conns, c < d,
               NEW r \in WireIds(c)' \union ReceivedOn(c)', NEW s \in WireIds(d)' \union ReceivedOn(d)'
        PROVE  r < s
    <3>1. CASE c = conn
      <4>1. d > conn /\ d # conn
        BY <1>2, <2>2, <3>1 DEF Conns
      <4> QED
        BY <1>8, <2>2, <4>1 DEF OrderInv
    <3>2. CASE c # conn
      <4>1. r \in WireIds(c) \union ReceivedOn(c)
        BY <1>8, <2>2, <3>2
      <4>2. s \in WireIds(d) \union ReceivedOn(d) \/ s \in BufferedIds
        BY <1>3, <1>7, <1>8, <2>2
      <4> QED
        BY <2>2, <4>1, <4>2 DEF OrderInv, SendOrder
    <3> QED
      BY <3>1, <3>2
  <2> QED
    BY <1>9, <2>1, <2>2 DEF SendOrder
<1>11. \A c \in Conns : \A r \in WireIds(c)' \union ReceivedOn(c)' : r <= pushed'
  BY <1>1, <1>3, <1>7, <1>8 DEF OrderInv
<1>12. \A c \in Conns : c > conn' => WireIds(c)' \union ReceivedOn(c)' = {}
  BY <1>1, <1>2, <1>8 DEF OrderInv, Conns
<1> QED
  BY <1>9, <1>10, <1>11, <1>12 DEF OrderInv

LEMMA PushAisKeepsOrder ==
  ASSUME TypeOK, OrderInv, DrainedWhileConnected', PushAis
  PROVE  /\ OrderInv'
         /\ BufferedIds' \subseteq BufferedIds \union {pushed + 1}
         /\ \A c \in Conns : WireIds(c)' \subseteq WireIds(c) \union {pushed + 1}
<1> DEFINE envelope == [id |-> pushed + 1, ts |-> clock]
<1>1. /\ pushed \in Nat /\ pushed + 1 \in Reports /\ pushed' = pushed + 1
      /\ conn' = conn /\ conn \in Conns /\ conn \in Nat /\ received' = received
      /\ ringBuffer \in Seq(Envelopes) /\ wire \in [Conns -> Seq(Envelopes)]
      /\ wire[conn] \in Seq(Envelopes)
  BY EdgeLinkAssumption DEF PushAis, TypeOK, Reports, Conns, edgeVars
<1>2. envelope \in Envelopes /\ envelope.id = pushed + 1
  BY <1>1 DEF Envelopes, TypeOK
<1>3. \/ /\ Sendable /\ ringBuffer' = ringBuffer
         /\ wire' = [wire EXCEPT ![conn] = Append(wire[conn], envelope)]
      \/ ringBuffer' = PushToBuffer(ringBuffer, envelope) /\ wire' = wire
  BY DEF PushAis
<1> HIDE DEF envelope
<1>4. /\ \A r \in BufferedIds : r < pushed + 1 /\ r \in Nat
      /\ \A c \in Conns : \A r \in WireIds(c) \union ReceivedOn(c) : r < pushed + 1 /\ r \in Nat
  <2>1. BufferedIds \subseteq Reports
    BY <1>1, IdsTyped, IdsOfState
  <2>2. \A c \in Conns : WireIds(c) \subseteq Reports
    BY <1>1, IdsTyped, IdsOfState
  <2>3. \A c \in Conns : ReceivedOn(c) \subseteq Reports
    BY DEF TypeOK, ReceivedOn
  <2> QED
    BY <1>1, <2>1, <2>2, <2>3 DEF OrderInv, Reports
<1>5. \A c \in Conns : ReceivedOn(c)' = ReceivedOn(c)
  BY <1>1 DEF ReceivedOn
<1>6. CASE Sendable /\ ringBuffer' = ringBuffer
           /\ wire' = [wire EXCEPT ![conn] = Append(wire[conn], envelope)]
  <2>1. BufferedIds = {} /\ BufferedIds' = {} /\ Increasing(ringBuffer')
    BY <1>6, IdsOfState DEF OrderInv, SendOrder, DrainedWhileConnected, Ids
  <2>2. \A c \in Conns : c = conn => /\ WireIds(c)' = WireIds(c) \union {pushed + 1}
                                    /\ Increasing(wire'[c])
    <3>1. wire'[conn] = Append(wire[conn], envelope)
      BY <1>1, <1>6
    <3>2. Ids(Append(wire[conn], envelope)) = WireIds(conn) \union {pushed + 1}
      BY <1>1, <1>2, AppendIds, IdsOfState
    <3>3. Increasing(Append(wire[conn], envelope))
      BY <1>1, <1>2, <1>4, AppendIds, IdsOfState DEF OrderInv, SendOrder
    <3> QED
      BY <3>1, <3>2, <3>3, IdsOfState
  <2>3. \A c \in Conns : c # conn => wire'[c] = wire[c] /\ WireIds(c)' = WireIds(c)
    BY <1>1, <1>6, IdsOfState
  <2>4. ASSUME NEW c \in Conns
        PROVE  Increasing(wire'[c]) /\ \A r \in ReceivedOn(c)', s \in WireIds(c)' : r < s
    BY <1>1, <1>4, <1>5, <2>2, <2>3 DEF OrderInv, SendOrder
  <2>5. ASSUME NEW c \in Conns, NEW d \in Conns, c < d,
               NEW r \in WireIds(c)' \union ReceivedOn(c)', NEW s \in WireIds(d)' \union ReceivedOn(d)'
        PROVE  r < s
    <3>1. c # conn
      <4>1. SUFFICES ASSUME c = conn PROVE FALSE
        OBVIOUS
      <4>2. d > conn /\ d # conn
        BY <1>1, <2>5, <4>1 DEF Conns
      <4> QED
        BY <1>5, <2>3, <2>5, <4>2 DEF OrderInv
    <3>2. r \in WireIds(c) \union ReceivedOn(c)
      BY <1>5, <2>3, <2>5, <3>1
    <3>3. CASE s = pushed + 1
      BY <1>4, <3>2, <3>3
    <3>4. CASE s \in WireIds(d) \union ReceivedOn(d)
      BY <2>5, <3>2, <3>4 DEF OrderInv, SendOrder
    <3>5. s = pushed + 1 \/ s \in WireIds(d) \union ReceivedOn(d)
      BY <1>5, <2>2, <2>3, <2>5
    <3> QED
      BY <3>3, <3>4, <3>5
  <2>6. SendOrder'
    BY <2>1, <2>4, <2>5 DEF SendOrder
  <2>7. \A c \in Conns : \A r \in WireIds(c)' \union ReceivedOn(c)' : r <= pushed'
    BY <1>1, <1>4, <1>5, <2>2, <2>3
  <2>8. \A c \in Conns : c > conn' => WireIds(c)' \union ReceivedOn(c)' = {}
    BY <1>1, <1>5, <2>3 DEF OrderInv, Conns
  <2>9. OrderInv'
    BY <2>1, <2>6, <2>7, <2>8 DEF OrderInv
  <2>10. \A c \in Conns : WireIds(c)' \subseteq WireIds(c) \union {pushed + 1}
    BY <2>2, <2>3
  <2> QED
    BY <2>1, <2>9, <2>10
<1>7. CASE ringBuffer' = PushToBuffer(ringBuffer, envelope) /\ wire' = wire
  <2>1. BufferedIds' \subseteq BufferedIds \union {pushed + 1} /\ Increasing(ringBuffer')
    BY <1>1, <1>2, <1>4, <1>7, PushToBufferIds, IdsOfState DEF OrderInv, SendOrder
  <2>2. \A c \in Conns : WireIds(c)' = WireIds(c)
    BY <1>7, IdsOfState
  <2>3. \A c \in Conns : \A r \in WireIds(c) \union ReceivedOn(c), s \in BufferedIds' : r < s
    BY <1>4, <2>1 DEF OrderInv, SendOrder
  <2>4. SendOrder'
    BY <1>5, <1>7, <2>1, <2>2, <2>3 DEF OrderInv, SendOrder
  <2>5. /\ \A r \in BufferedIds' : r <= pushed'
        /\ \A c \in Conns : \A r \in WireIds(c)' \union ReceivedOn(c)' : r <= pushed'
    BY <1>1, <1>4, <1>5, <2>1, <2>2
  <2> QED
    BY <1>1, <1>5, <2>1, <2>2, <2>4, <2>5 DEF OrderInv
<1> QED
  BY <1>3, <1>6, <1>7

\* Taking in the head of a wire moves the smallest report on it.
LEMMA IngestKeepsOrder ==
  ASSUME TypeOK, OrderInv, DrainedWhileConnected', NEW k \in Conns, Ingest(k)
  PROVE  /\ OrderInv'
         /\ BufferedIds' = BufferedIds
         /\ Head(wire[k]).id \notin WireIds(k)'
         /\ WireIds(k) = WireIds(k)' \union {Head(wire[k]).id}
         /\ \A c \in Conns : c # k => WireIds(c)' = WireIds(c)
<1> DEFINE h == Head(wire[k]).id
<1>1. /\ wire[k] # <<>> /\ wire' = [wire EXCEPT ![k] = Tail(wire[k])]
      /\ received' = received \union {[id |-> h, conn |-> k]}
      /\ ringBuffer' = ringBuffer /\ pushed' = pushed /\ conn' = conn
  BY DEF Ingest, edgeVars
<1>2. wire \in [Conns -> Seq(Envelopes)] /\ wire[k] \in Seq(Envelopes)
  BY DEF TypeOK
<1> HIDE DEF h
<1>3. /\ WireIds(k) = WireIds(k)' \union {h} /\ Increasing(wire'[k])
      /\ \A r \in WireIds(k)' : h < r
  BY <1>1, <1>2, TailIds, IdsOfState DEF OrderInv, SendOrder, h
<1>4. \A c \in Conns : c # k => wire'[c] = wire[c] /\ WireIds(c)' = WireIds(c)
  BY <1>1, <1>2, IdsOfState
<1>5. /\ ReceivedOn(k)' = ReceivedOn(k) \union {h}
      /\ \A c \in Conns : c # k => ReceivedOn(c)' = ReceivedOn(c)
  <2> DEFINE one == [id |-> h, conn |-> k]
  <2>1. received' = received \union {one} /\ one.id = h /\ one.conn = k
    BY <1>1
  <2> HIDE DEF one
  <2> QED
    BY <2>1 DEF ReceivedOn
<1>6. \A c \in Conns : WireIds(c)' \union ReceivedOn(c)' = WireIds(c) \union ReceivedOn(c)
  BY <1>3, <1>4, <1>5
<1>7. h \in Nat
  BY <1>2, <1>3, IdsTyped, IdsOfState DEF Reports
<1>8. BufferedIds' = BufferedIds
  BY <1>1, IdsOfState
<1>9. ASSUME NEW c \in Conns
      PROVE  Increasing(wire'[c]) /\ \A r \in ReceivedOn(c)', s \in WireIds(c)' : r < s
  <2>1. Increasing(wire[c]) /\ \A r \in ReceivedOn(c), s \in WireIds(c) : r < s
    BY DEF OrderInv, SendOrder
  <2>2. CASE c = k
    BY <1>3, <1>5, <2>1, <2>2
  <2>3. CASE c # k
    BY <1>4, <1>5, <2>1, <2>3
  <2> QED
    BY <2>2, <2>3
<1>10. SendOrder'
  BY <1>1, <1>6, <1>8, <1>9 DEF OrderInv, SendOrder
<1>11. OrderInv'
  BY <1>1, <1>6, <1>8, <1>10 DEF OrderInv
<1>12. h \notin WireIds(k)'
  BY <1>3, <1>7
<1> QED
  BY <1>3, <1>4, <1>8, <1>11, <1>12 DEF h

\* The remaining steps only forget: the buffer, or what is on a wire.
QuietStep ==
  \/ ReconnectTimer \/ PeerCloses \/ OnClose \/ OnError \/ PingInterval \/ OnPong
  \/ PongTimeout \/ Stop \/ Restart \/ Accept \/ CutPath \/ HealPath \/ CentralStops
  \/ CentralStarts \/ Tick \/ (\E c \in Conns : ServerSeesEnd(c) \/ LoseInFlight(c))
  \/ UNCHANGED vars

LEMMA StepSplit == Next \/ UNCHANGED vars => OnOpen \/ PushAis \/ (\E c \in Conns : Ingest(c)) \/ QuietStep
BY DEF Next, Client, Environment, QuietStep

LEMMA QuietStepEffect ==
  ASSUME TypeOK, QuietStep
  PROVE  /\ received' = received /\ pushed' = pushed /\ conn' \in Nat /\ conn' >= conn
         /\ ringBuffer' \in {ringBuffer, <<>>}
         /\ \A c \in Conns : wire'[c] \in {wire[c], <<>>}
<1>1. conn \in Nat /\ wire \in [Conns -> Seq(Envelopes)]
  BY DEF TypeOK, Conns
<1>2. CASE ReconnectTimer \/ Restart
  BY <1>1, <1>2 DEF ReconnectTimer, Restart, NewSocket, ConstructorFails, dataVars
<1>3. CASE PeerCloses \/ OnClose \/ OnError \/ PingInterval \/ OnPong \/ PongTimeout \/ Stop
  BY <1>1, <1>3 DEF PeerCloses, OnClose, OnError, PingInterval, OnPong, PongTimeout, Stop, dataVars
<1>4. CASE \/ Accept \/ CutPath \/ HealPath \/ CentralStops \/ CentralStarts \/ Tick
           \/ (\E c \in Conns : ServerSeesEnd(c)) \/ UNCHANGED vars
  BY <1>1, <1>4 DEF Accept, CutPath, HealPath, CentralStops, CentralStarts, Tick,
       ServerSeesEnd, vars, dataVars, edgeVars
<1>5. ASSUME NEW c \in Conns, LoseInFlight(c)
      PROVE  /\ received' = received /\ pushed' = pushed /\ conn' = conn
             /\ ringBuffer' = ringBuffer
             /\ \A d \in Conns : wire'[d] \in {wire[d], <<>>}
  BY <1>1, <1>5 DEF LoseInFlight, edgeVars
<1> QED
  BY <1>1, <1>2, <1>3, <1>4, <1>5 DEF QuietStep

LEMMA OrderInvInductive == TypeOK /\ OrderInv /\ TypeOK' /\ [Next]_vars => OrderInv'
<1> SUFFICES ASSUME TypeOK, OrderInv, TypeOK', [Next]_vars PROVE OrderInv'
  OBVIOUS
<1>1. DrainedWhileConnected'
  BY DrainedInductive DEF OrderInv
<1>2. CASE OnOpen
  BY <1>1, <1>2, OnOpenKeepsOrder
<1>3. CASE PushAis
  BY <1>1, <1>3, PushAisKeepsOrder
<1>4. ASSUME NEW c \in Conns, Ingest(c) PROVE OrderInv'
  BY <1>1, <1>4, IngestKeepsOrder
<1>5. CASE QuietStep
  BY <1>1, <1>5, QuietStepEffect, QuietStepKeepsOrder
<1> QED
  BY <1>2, <1>3, <1>4, <1>5, StepSplit

LEMMA OrderInvariant == Spec => []OrderInv
<1>1. Init => OrderInv
  BY DEF Init, OrderInv, SendOrder, DrainedWhileConnected, Sendable, Increasing,
         BufferedIds, WireIds, ReceivedOn
<1> QED
  BY <1>1, OrderInvInductive, TypeCorrect, PTL DEF Spec

\* Over all sockets and the buffer, reports are sent in the order of pushAis.
THEOREM ReportsSentInOrder == Spec => []SendOrder
<1>1. OrderInv => SendOrder
  BY DEF OrderInv
<1> QED
  BY <1>1, OrderInvariant, PTL

\* A live report never overtakes one that is still in the ring buffer.
THEOREM NothingBufferedWhileConnected == Spec => []DrainedWhileConnected
<1>1. OrderInv => DrainedWhileConnected
  BY DEF OrderInv
<1> QED
  BY <1>1, OrderInvariant, PTL

\* The ring buffer holds at most BUFFER_MAX_ITEMS reports.
THEOREM BufferStaysBounded == Spec => []BufferBounded
<1>1. Init => BufferBounded
  BY EdgeLinkAssumption, EmptySeq DEF Init, BufferBounded
<1>2. TypeOK /\ BufferBounded /\ [Next]_vars => BufferBounded'
  <2> SUFFICES ASSUME TypeOK, BufferBounded, [Next]_vars PROVE BufferBounded'
    OBVIOUS
  <2>1. Len(<<>>) <= BufferCap
    BY EdgeLinkAssumption
  <2>2. CASE OnOpen
    BY <2>1, <2>2 DEF OnOpen, FlushBuffer, BufferBounded
  <2>3. CASE PushAis
    <3> DEFINE envelope == [id |-> pushed + 1, ts |-> clock]
    <3>1. ringBuffer \in Seq(Envelopes) /\ envelope \in Envelopes
      BY <2>3, EdgeLinkAssumption DEF PushAis, TypeOK, Envelopes, Reports
    <3>2. ringBuffer' \in {ringBuffer, PushToBuffer(ringBuffer, envelope)}
      BY <2>3 DEF PushAis
    <3> HIDE DEF envelope
    <3>3. Len(PushToBuffer(ringBuffer, envelope)) <= BufferCap
      BY <3>1, PushToBufferProperties
    <3> QED
      BY <3>2, <3>3 DEF BufferBounded
  <2>4. ASSUME NEW c \in Conns, Ingest(c) PROVE BufferBounded'
    BY <2>4 DEF Ingest, BufferBounded
  <2>5. CASE QuietStep
    BY <2>1, <2>5, QuietStepEffect DEF BufferBounded
  <2> QED
    BY <2>2, <2>3, <2>4, <2>5, StepSplit
<1> QED
  BY <1>1, <1>2, TypeCorrect, PTL DEF Spec

----------------------------------------------------------------------------
(* 5. What leaves the buffer. *)

\* Items carry the time of their push: none is from the future, and they stand
\* in the order of these times.
StampedBy(buf, now) ==
  /\ \A i \in DOMAIN buf : buf[i].ts <= now
  /\ \A i, j \in DOMAIN buf : i < j => buf[i].ts <= buf[j].ts

Stamped == StampedBy(ringBuffer, clock)

LEMMA EnvelopesTyped ==
  ASSUME NEW s \in Seq(Envelopes)
  PROVE  /\ DOMAIN s = 1..Len(s) /\ Len(s) \in Nat
         /\ \A i \in 1..Len(s) : s[i] \in Envelopes /\ s[i].ts \in Nat
<1>1. \A i \in 1..Len(s) : s[i] \in Envelopes
  BY ElementOfSeq
<1> QED
  BY <1>1, LenProperties DEF Envelopes

\* pushToBuffer keeps the order of time when the item is of now.
LEMMA PushToBufferStamped ==
  ASSUME NEW buf \in Seq(Envelopes), NEW item \in Envelopes, clock \in Nat,
         StampedBy(buf, clock), item.ts = clock
  PROVE  StampedBy(PushToBuffer(buf, item), clock)
<1> DEFINE t == PushToBuffer(buf, item)
<1>1. PICK k \in 0..(Len(buf) + 1) :
        /\ t \in Seq(Envelopes) /\ Len(t) = Len(buf) + 1 - k
        /\ \A i \in 1..Len(t) : t[i] = IF i + k <= Len(buf) THEN buf[i + k] ELSE item
  BY PushToBufferProperties
<1>2. /\ DOMAIN buf = 1..Len(buf) /\ Len(buf) \in Nat /\ DOMAIN t = 1..Len(t) /\ Len(t) \in Nat
      /\ \A i \in 1..Len(buf) : buf[i].ts \in Nat
  BY <1>1, EnvelopesTyped
<1> HIDE DEF t
<1>3. \A i \in 1..Len(t) : \/ i + k \in 1..Len(buf) /\ t[i] = buf[i + k]
                           \/ ~(i + k <= Len(buf)) /\ t[i] = item
  BY <1>1, <1>2
<1>4. \A i \in 1..Len(t) : t[i].ts <= clock
  <2>1. item.ts <= clock /\ \A n \in 1..Len(buf) : buf[n].ts <= clock
    BY <1>2 DEF StampedBy
  <2> QED
    BY <1>3, <2>1
<1>5. ASSUME NEW i \in 1..Len(t), NEW j \in 1..Len(t), i < j
      PROVE  t[i].ts <= t[j].ts
  <2>1. i + k < j + k
    BY <1>1, <1>2, <1>5
  <2>2. CASE t[j] = item
    BY <1>4, <2>2
  <2>3. CASE j + k \in 1..Len(buf) /\ t[j] = buf[j + k]
    <3>1. i + k \in 1..Len(buf) /\ t[i] = buf[i + k]
      BY <1>1, <1>2, <1>3, <2>1, <2>3
    <3> QED
      BY <1>2, <2>1, <2>3, <3>1 DEF StampedBy
  <2> QED
    BY <1>3, <2>2, <2>3
<1> QED
  BY <1>2, <1>4, <1>5 DEF StampedBy, t

\* No step makes the clock run backwards.
LEMMA TimePasses ==
  ASSUME TypeOK, [Next]_vars
  PROVE  clock' \in Nat /\ clock' >= clock /\ (clock' = clock \/ ringBuffer' = ringBuffer)
<1>1. clock \in Nat
  BY EdgeLinkAssumption DEF TypeOK
<1>2. CASE Tick
  BY <1>1, <1>2 DEF Tick, dataVars
<1>3. CASE ~Tick
  <2>1. clock' = clock
    BY <1>3 DEF Next, Client, Environment, ReconnectTimer, OnOpen, PeerCloses, OnClose, OnError,
         PingInterval, OnPong, PongTimeout, PushAis, Stop, Restart, Accept, CutPath, HealPath,
         CentralStops, CentralStarts, Ingest, ServerSeesEnd, LoseInFlight, vars, boundVars
  <2> QED
    BY <1>1, <2>1
<1> QED
  BY <1>2, <1>3

LEMMA StampedInductive == TypeOK /\ Stamped /\ [Next]_vars => Stamped'
<1> SUFFICES ASSUME TypeOK, Stamped, [Next]_vars PROVE Stamped'
  OBVIOUS
<1>1. /\ ringBuffer \in Seq(Envelopes) /\ clock \in Nat /\ clock' \in Nat /\ clock' >= clock
      /\ clock' = clock \/ ringBuffer' = ringBuffer
  BY EdgeLinkAssumption, TimePasses DEF TypeOK
<1>2. CASE ringBuffer' = <<>>
  BY <1>2 DEF Stamped, StampedBy
<1>3. CASE ringBuffer' = ringBuffer
  BY <1>1, <1>3, EnvelopesTyped DEF Stamped, StampedBy
<1>4. CASE PushAis
  <2> DEFINE envelope == [id |-> pushed + 1, ts |-> clock]
  <2>1. envelope \in Envelopes /\ envelope.ts = clock
    BY <1>4, EdgeLinkAssumption DEF PushAis, TypeOK, Envelopes, Reports
  <2>2. ringBuffer' = ringBuffer \/ ringBuffer' = PushToBuffer(ringBuffer, envelope)
    BY <1>4 DEF PushAis
  <2> HIDE DEF envelope
  <2>3. StampedBy(PushToBuffer(ringBuffer, envelope), clock)
    BY <1>1, <2>1, PushToBufferStamped DEF Stamped
  <2>4. clock' = clock
    BY <1>4 DEF PushAis, boundVars
  <2> QED
    BY <1>3, <2>2, <2>3, <2>4 DEF Stamped
<1>5. CASE ~PushAis
  <2>1. ringBuffer' \in {ringBuffer, <<>>}
    <3>1. CASE OnOpen
      BY <3>1 DEF OnOpen, FlushBuffer
    <3>2. ASSUME NEW c \in Conns, Ingest(c) PROVE ringBuffer' = ringBuffer
      BY <3>2 DEF Ingest
    <3>3. CASE QuietStep
      BY <3>3, QuietStepEffect
    <3> QED
      BY <1>5, <3>1, <3>2, <3>3, StepSplit
  <2> QED
    BY <1>2, <1>3, <2>1
<1> QED
  BY <1>4, <1>5

\* The expired items of a buffer in the order of time are its first ones, so
\* dropping as many from the front drops these and no other.
LEMMA ExpiredAreInFront ==
  ASSUME NEW buf \in Seq(Envelopes), clock \in Nat, StampedBy(buf, clock)
  PROVE  \A i \in DOMAIN buf : Expired(buf[i]) <=> i <= ExpiredCount(buf)
<1> DEFINE old == {i \in DOMAIN buf : Expired(buf[i])}
           e == ExpiredCount(buf)
<1>1. /\ DOMAIN buf = 1..Len(buf) /\ Len(buf) \in Nat
      /\ \A i \in 1..Len(buf) : buf[i].ts \in Nat
      /\ e \in Nat /\ e = Cardinality(old)
  BY EnvelopesTyped, DropExpiredProperties DEF ExpiredCount
<1>2. IsFiniteSet(old)
  <2>1. IsFiniteSet(1..Len(buf)) /\ old \subseteq 1..Len(buf)
    BY <1>1, FS_Interval
  <2> QED
    BY <2>1, FS_Subset
<1>3. \A i \in old, j \in 1..Len(buf) : j <= i => j \in old
  <2> TAKE i \in old, j \in 1..Len(buf)
  <2>1. i \in 1..Len(buf) /\ buf[i].ts + BufferSpan < clock
    BY <1>1 DEF Expired
  <2>2. j <= i => buf[j].ts <= buf[i].ts
    <3>1. CASE j < i
      BY <1>1, <2>1, <3>1 DEF StampedBy
    <3>2. CASE j = i
      BY <1>1, <2>1, <3>2
    <3> QED
      BY <2>1, <3>1, <3>2
  <2>3. buf[i].ts \in Nat /\ buf[j].ts \in Nat /\ BufferSpan \in Nat
    BY <1>1, <2>1, EdgeLinkAssumption
  <2> QED
    BY <1>1, <2>1, <2>2, <2>3 DEF Expired
<1> HIDE DEF e
<1>4. ASSUME NEW i \in 1..Len(buf), i \in old PROVE i <= e
  <2>1. 1..i \subseteq old
    BY <1>1, <1>3, <1>4
  <2>2. Cardinality(1..i) = i
    BY <1>1, FS_Interval
  <2>3. Cardinality(1..i) <= Cardinality(old)
    BY <1>2, <2>1, FS_Subset
  <2> QED
    BY <1>1, <2>2, <2>3
<1>5. ASSUME NEW i \in 1..Len(buf), i \notin old PROVE ~(i <= e)
  <2>1. old \subseteq 1..(i - 1)
    BY <1>1, <1>3, <1>5
  <2>2. IsFiniteSet(1..(i - 1)) /\ Cardinality(1..(i - 1)) = i - 1
    <3> DEFINE b == i - 1
    <3>1. b \in Nat /\ 1 \in Int /\ b \in Int
      BY <1>1
    <3> HIDE DEF b
    <3>2. IsFiniteSet(1..b) /\ Cardinality(1..b) = IF 1 > b THEN 0 ELSE b - 1 + 1
      BY <3>1, FS_Interval
    <3>3. Cardinality(1..b) = b
      BY <3>1, <3>2
    <3> QED
      BY <3>2, <3>3 DEF b
  <2>3. Cardinality(old) <= Cardinality(1..(i - 1))
    BY <2>1, <2>2, FS_Subset
  <2> QED
    BY <1>1, <2>2, <2>3
<1> QED
  BY <1>1, <1>4, <1>5 DEF e

\* pushToBuffer gives up the expired items and, when the buffer is full, the
\* oldest one.
LEMMA PushToBufferKeeps ==
  ASSUME NEW buf \in Seq(Envelopes), NEW item \in Envelopes, Len(buf) <= BufferCap,
         NEW i \in DOMAIN buf, i > ExpiredCount(buf), ~(Len(buf) = BufferCap /\ i = 1)
  PROVE  buf[i].id \in Ids(PushToBuffer(buf, item))
<1> DEFINE young == DropExpired(buf)
           all == Append(young, item)
           e == ExpiredCount(buf)
<1>1. /\ e \in 0..Len(buf) /\ young \in Seq(Envelopes) /\ Len(young) = Len(buf) - e
      /\ \A k \in 1..Len(young) : young[k] = buf[k + e]
  BY DropExpiredProperties
<1>2. /\ all \in Seq(Envelopes) /\ Len(all) = Len(young) + 1
      /\ \A k \in 1..Len(young) : all[k] = young[k]
  BY <1>1, AppendProperties
<1>3. /\ DOMAIN buf = 1..Len(buf) /\ Len(buf) \in Nat /\ i \in 1..Len(buf) /\ i > e
      /\ BufferCap \in Nat /\ PushToBuffer(buf, item) = DropOldest(all)
  BY EnvelopesTyped, EdgeLinkAssumption DEF PushToBuffer
<1> HIDE DEF young, all, e
<1>4. /\ i - e \in 1..Len(young) /\ (i - e) + e = i /\ i - e \in 1..Len(all)
      /\ all[i - e] = buf[i] /\ Len(all) \in Nat
  BY <1>1, <1>2, <1>3, SMTT(30)
<1>5. DOMAIN all = 1..Len(all)
  BY <1>2, EnvelopesTyped
<1>6. CASE ~(Len(all) > BufferCap)
  <2>1. PushToBuffer(buf, item) = all
    BY <1>3, <1>6 DEF DropOldest
  <2> QED
    BY <1>4, <1>5, <2>1 DEF Ids
<1>7. CASE Len(all) > BufferCap
  <2> DEFINE t == PushToBuffer(buf, item)
  <2>1. /\ e = 0 /\ Len(buf) = BufferCap /\ i # 1 /\ Len(all) = BufferCap + 1
    BY <1>1, <1>2, <1>3, <1>7, SMTT(30)
  <2>2. t = SubSeq(all, 2, Len(all))
    BY <1>3, <1>7, <2>1 DEF DropOldest
  <2>3. \A k \in 2..Len(all) : all[k] \in Envelopes
    BY <1>2, <1>4, EnvelopesTyped
  <2>4. /\ t \in Seq(Envelopes) /\ Len(t) = Len(all) - 1
        /\ \A k \in 1..(Len(all) - 1) : t[k] = all[k + 1]
    <3>1. /\ SubSeq(all, 2, Len(all)) \in Seq(Envelopes)
          /\ Len(SubSeq(all, 2, Len(all))) = IF 2 <= Len(all) THEN Len(all) - 2 + 1 ELSE 0
          /\ \A k \in 1..(Len(all) - 2 + 1) : SubSeq(all, 2, Len(all))[k] = all[2 + k - 1]
      BY <1>4, <2>3, SubSeqProperties
    <3>2. Len(all) - 2 + 1 = Len(all) - 1 /\ 2 <= Len(all)
      BY <1>3, <1>4, <2>1
    <3>3. \A k \in 1..(Len(all) - 1) : 2 + k - 1 = k + 1
      BY <1>4
    <3> QED
      BY <2>2, <3>1, <3>2, <3>3
  <2>5. DOMAIN t = 1..Len(t)
    BY <2>4, EnvelopesTyped
  <2> HIDE DEF t
  <2>6. i - 1 \in 1..Len(t) /\ (i - 1) + 1 = i /\ i - 1 \in 1..(Len(all) - 1) /\ i - e = i
    BY <1>3, <1>4, <2>1, <2>4
  <2>7. t[i - 1] = buf[i]
    BY <1>4, <2>4, <2>6
  <2>8. buf[i].id \in Ids(t)
    BY <2>5, <2>6, <2>7 DEF Ids
  <2> QED
    BY <2>8 DEF t
<1> QED
  BY <1>6, <1>7

\* What may become of an item of the buffer, and of a wire.
ItemGone(i) ==
  \/ ringBuffer[i].id \in BufferedIds' \union InFlightIds'
  \/ Expired(ringBuffer[i])
  \/ Len(ringBuffer) = BufferCap /\ i = 1 /\ pushed' # pushed
  \/ Restart

FreshOnWire(c) == \A j \in (Len(wire[c]) + 1)..Len(wire'[c]) : ~Expired(wire'[c][j])

\* Nothing is put on a wire that is left alone, shortened or cut.
LEMMA NothingWritten ==
  ASSUME TypeOK, NEW c \in Conns, Len(wire'[c]) \in Nat, Len(wire'[c]) <= Len(wire[c])
  PROVE  FreshOnWire(c)
<1>1. Len(wire[c]) \in Nat
  BY LenProperties DEF TypeOK
<1> QED
  BY <1>1 DEF FreshOnWire

LEMMA OpeningFlushesTheYoung ==
  ASSUME TypeOK, Stamped, OnOpen
  PROVE  /\ \A i \in DOMAIN ringBuffer : ItemGone(i)
         /\ \A c \in Conns : FreshOnWire(c)
<1> DEFINE young == DropExpired(ringBuffer)
           e == ExpiredCount(ringBuffer)
           old == wire[conn]
<1>1. /\ ringBuffer \in Seq(Envelopes) /\ wire \in [Conns -> Seq(Envelopes)] /\ conn \in Conns
      /\ clock \in Nat /\ old \in Seq(Envelopes)
  BY EdgeLinkAssumption DEF TypeOK
<1>2. wire' = [wire EXCEPT ![conn] = old \o young]
  BY DEF OnOpen, FlushBuffer
<1>3. /\ e \in 0..Len(ringBuffer) /\ young \in Seq(Envelopes) /\ Len(young) = Len(ringBuffer) - e
      /\ \A k \in 1..Len(young) : young[k] = ringBuffer[k + e]
  BY <1>1, DropExpiredProperties
<1>4. \A i \in DOMAIN ringBuffer : Expired(ringBuffer[i]) <=> i <= e
  BY <1>1, ExpiredAreInFront DEF Stamped
<1>5. /\ DOMAIN ringBuffer = 1..Len(ringBuffer) /\ Len(ringBuffer) \in Nat
      /\ Len(old) \in Nat /\ Len(young) \in Nat
  BY <1>1, <1>3, EnvelopesTyped
<1>6. /\ Len(old \o young) = Len(old) + Len(young) /\ old \o young \in Seq(Envelopes)
      /\ \A j \in 1..(Len(old) + Len(young)) :
           (old \o young)[j] = IF j <= Len(old) THEN old[j] ELSE young[j - Len(old)]
  BY <1>1, <1>3, ConcatProperties
<1>7. wire'[conn] = old \o young /\ \A c \in Conns : c # conn => wire'[c] = wire[c]
  BY <1>1, <1>2
<1> HIDE DEF young, e, old
<1>8. ASSUME NEW i \in DOMAIN ringBuffer PROVE ItemGone(i)
  <2>1. CASE i <= e
    BY <1>4, <2>1 DEF ItemGone
  <2>2. CASE ~(i <= e)
    <3>1. i - e \in 1..Len(young) /\ (i - e) + e = i
      BY <1>3, <1>5, <2>2
    <3>2. ringBuffer[i].id \in Ids(young)
      <4>1. young[i - e] = ringBuffer[i] /\ DOMAIN young = 1..Len(young)
        BY <1>3, <3>1, EnvelopesTyped
      <4> QED
        BY <3>1, <4>1 DEF Ids
    <3>3. ringBuffer[i].id \in Ids(wire'[conn])
      BY <1>1, <1>3, <1>7, <3>2, ConcatIds
    <3>4. ringBuffer[i].id \in InFlightIds'
      BY <1>1, <3>3, IdsOfState DEF InFlightIds
    <3> QED
      BY <3>4 DEF ItemGone
  <2> QED
    BY <2>1, <2>2
<1>9. FreshOnWire(conn)
  <2> SUFFICES ASSUME NEW j \in (Len(old) + 1)..(Len(old) + Len(young))
               PROVE  ~Expired((old \o young)[j])
    BY <1>6, <1>7 DEF FreshOnWire, old
  <2>1. j \in 1..(Len(old) + Len(young)) /\ ~(j <= Len(old)) /\ j - Len(old) \in 1..Len(young)
    BY <1>5
  <2>2. (old \o young)[j] = ringBuffer[(j - Len(old)) + e]
    BY <1>3, <1>6, <2>1
  <2>3. (j - Len(old)) + e \in 1..Len(ringBuffer) /\ ~((j - Len(old)) + e <= e)
    BY <1>3, <1>5, <2>1
  <2> QED
    BY <1>4, <1>5, <2>2, <2>3
<1>10. ASSUME NEW c \in Conns, c # conn PROVE FreshOnWire(c)
  <2>1. wire'[c] = wire[c] /\ Len(wire[c]) \in Nat
    BY <1>1, <1>7, <1>10, EnvelopesTyped
  <2> QED
    BY <2>1, NothingWritten
<1> QED
  BY <1>8, <1>9, <1>10

LEMMA PushingKeepsPolicy ==
  ASSUME TypeOK, Stamped, BufferBounded, PushAis
  PROVE  /\ \A i \in DOMAIN ringBuffer : ItemGone(i)
         /\ \A c \in Conns : FreshOnWire(c)
<1> DEFINE envelope == [id |-> pushed + 1, ts |-> clock]
<1>1. /\ ringBuffer \in Seq(Envelopes) /\ wire \in [Conns -> Seq(Envelopes)] /\ conn \in Conns
      /\ clock \in Nat /\ pushed \in Nat
  BY EdgeLinkAssumption DEF TypeOK
<1>2. envelope \in Envelopes /\ envelope.ts = clock /\ pushed' # pushed
  BY <1>1, EdgeLinkAssumption DEF PushAis, TypeOK, Envelopes, Reports
<1>3. \/ wire' = [wire EXCEPT ![conn] = Append(wire[conn], envelope)] /\ ringBuffer' = ringBuffer
      \/ ringBuffer' = PushToBuffer(ringBuffer, envelope) /\ wire' = wire
  BY DEF PushAis
<1> HIDE DEF envelope
<1>4. CASE wire' = [wire EXCEPT ![conn] = Append(wire[conn], envelope)] /\ ringBuffer' = ringBuffer
  <2>1. \A i \in DOMAIN ringBuffer : ItemGone(i)
    BY <1>4 DEF ItemGone, BufferedIds
  <2>2. /\ wire[conn] \in Seq(Envelopes) /\ Len(wire[conn]) \in Nat
        /\ wire'[conn] = Append(wire[conn], envelope)
    BY <1>1, <1>4, EnvelopesTyped
  <2>3. /\ Len(wire'[conn]) = Len(wire[conn]) + 1
        /\ wire'[conn][Len(wire[conn]) + 1] = envelope
    BY <1>2, <2>2, AppendProperties
  <2>4. ~Expired(envelope)
    BY <1>1, <1>2, EdgeLinkAssumption DEF Expired
  <2>5. FreshOnWire(conn)
    <3>1. \A j \in (Len(wire[conn]) + 1)..Len(wire'[conn]) : j = Len(wire[conn]) + 1
      BY <2>2, <2>3
    <3> QED
      BY <2>3, <2>4, <3>1 DEF FreshOnWire
  <2>6. ASSUME NEW c \in Conns, c # conn PROVE FreshOnWire(c)
    <3>1. wire'[c] = wire[c] /\ Len(wire[c]) \in Nat
      BY <1>1, <1>4, <2>6, EnvelopesTyped
    <3> QED
      BY <3>1, NothingWritten
  <2> QED
    BY <2>1, <2>5, <2>6
<1>5. CASE ringBuffer' = PushToBuffer(ringBuffer, envelope) /\ wire' = wire
  <2>1. ASSUME NEW i \in DOMAIN ringBuffer PROVE ItemGone(i)
    <3>1. CASE Expired(ringBuffer[i]) \/ (Len(ringBuffer) = BufferCap /\ i = 1)
      BY <1>2, <3>1 DEF ItemGone
    <3>2. CASE ~Expired(ringBuffer[i]) /\ ~(Len(ringBuffer) = BufferCap /\ i = 1)
      <4>1. i > ExpiredCount(ringBuffer)
        <5>1. ~(i <= ExpiredCount(ringBuffer))
          BY <1>1, <3>2, ExpiredAreInFront DEF Stamped
        <5>2. i \in Nat /\ ExpiredCount(ringBuffer) \in Nat
          BY <1>1, EnvelopesTyped, DropExpiredProperties
        <5> QED
          BY <5>1, <5>2
      <4>2. ringBuffer[i].id \in Ids(ringBuffer')
        BY <1>1, <1>2, <1>5, <3>2, <4>1, PushToBufferKeeps DEF BufferBounded
      <4> QED
        BY <4>2, IdsOfState DEF ItemGone
    <3> QED
      BY <3>1, <3>2
  <2>2. ASSUME NEW c \in Conns PROVE FreshOnWire(c)
    <3>1. wire'[c] = wire[c] /\ Len(wire[c]) \in Nat
      BY <1>1, <1>5, EnvelopesTyped
    <3> QED
      BY <3>1, NothingWritten
  <2> QED
    BY <2>1, <2>2
<1> QED
  BY <1>3, <1>4, <1>5

LEMMA RestKeepsPolicy ==
  ASSUME TypeOK, QuietStep \/ \E c \in Conns : Ingest(c)
  PROVE  /\ \A i \in DOMAIN ringBuffer : ItemGone(i)
         /\ \A c \in Conns : FreshOnWire(c)
<1>1. wire \in [Conns -> Seq(Envelopes)]
  BY DEF TypeOK
<1>2. ringBuffer' = ringBuffer \/ Restart
  BY DEF QuietStep, ReconnectTimer, PeerCloses, OnClose, OnError, PingInterval, OnPong, PongTimeout,
       Stop, Accept, CutPath, HealPath, CentralStops, CentralStarts, Tick, Ingest, ServerSeesEnd,
       LoseInFlight, vars, dataVars
<1>3. \A i \in DOMAIN ringBuffer : ItemGone(i)
  BY <1>2 DEF ItemGone, BufferedIds
<1>4. ASSUME NEW c \in Conns PROVE Len(wire'[c]) \in Nat /\ Len(wire'[c]) <= Len(wire[c])
  <2>1. Len(wire[c]) \in Nat /\ Len(<<>>) = 0
    BY <1>1, EnvelopesTyped
  <2>2. CASE QuietStep
    <3>1. wire'[c] = wire[c] \/ wire'[c] = <<>>
      BY <2>2, QuietStepEffect
    <3> QED
      BY <2>1, <3>1
  <2>3. ASSUME NEW d \in Conns, Ingest(d)
        PROVE  Len(wire'[c]) \in Nat /\ Len(wire'[c]) <= Len(wire[c])
    <3>1. wire[d] # <<>> /\ wire' = [wire EXCEPT ![d] = Tail(wire[d])]
      BY <2>3 DEF Ingest
    <3>2. Len(Tail(wire[d])) = Len(wire[d]) - 1 /\ Len(wire[d]) \in Nat \ {0}
      BY <1>1, <3>1, EmptySeq, EnvelopesTyped, HeadTailProperties
    <3>3. wire'[c] = IF c = d THEN Tail(wire[d]) ELSE wire[c]
      BY <1>1, <3>1
    <3> QED
      BY <2>1, <3>2, <3>3
  <2> QED
    BY <2>2, <2>3
<1> QED
  BY <1>3, <1>4, NothingWritten

\* A report leaves the buffer only for the wire, or because it is too old, or
\* because the buffer is full, or with the process; and none that is too old
\* is ever put on the wire.
THEOREM BufferFollowsPolicy == Spec => BufferPolicy
<1>1. Init => Stamped
  BY DEF Init, Stamped, StampedBy
<1>2. ASSUME TypeOK, Stamped, BufferBounded, [Next]_vars
      PROVE  /\ \A i \in DOMAIN ringBuffer : ItemGone(i)
             /\ \A c \in Conns : FreshOnWire(c)
  BY <1>2, OpeningFlushesTheYoung, PushingKeepsPolicy, RestKeepsPolicy, StepSplit
<1>3. TypeOK /\ Stamped /\ BufferBounded /\ [Next]_vars =>
        [/\ \A i \in DOMAIN ringBuffer :
              \/ ringBuffer[i].id \in BufferedIds' \union InFlightIds'
              \/ Expired(ringBuffer[i])
              \/ Len(ringBuffer) = BufferCap /\ i = 1 /\ pushed' # pushed
              \/ Restart
         /\ \A c \in Conns : \A j \in (Len(wire[c]) + 1)..Len(wire'[c]) : ~Expired(wire'[c][j])]_vars
  BY <1>2 DEF ItemGone, FreshOnWire
<1> QED
  BY <1>1, <1>3, StampedInductive, TypeCorrect, BufferStaysBounded, PTL DEF Spec, BufferPolicy

----------------------------------------------------------------------------
(* 6. EdgeLink implements ReportChannel. *)

Pending == BufferedIds \union InFlightIds

\* A step that only forgets reports is a GiveUp of the channel.
LEMMA ForgettingIsGivingUp ==
  ASSUME pushed' = pushed, received' = received,
         BufferedIds' \subseteq BufferedIds,
         \A c \in Conns : WireIds(c)' \subseteq WireIds(c)
  PROVE  Channel!Next
<1>1. Pending' \subseteq Pending /\ ReceivedIds' = ReceivedIds
  BY DEF Pending, InFlightIds, ReceivedIds
<1> QED
  BY <1>1 DEF Channel!Next, Channel!GiveUp, Pending

LEMMA StepImplementsChannel ==
  ASSUME TypeOK, TypeOK', OrderInv, OrderInv', [Next]_vars
  PROVE  [Channel!Next]_(Channel!vars)
<1>1. CASE OnOpen
  <2> DEFINE young == DropExpired(ringBuffer)
  <2>1. /\ ringBuffer' = <<>> /\ pushed' = pushed /\ received' = received
        /\ wire' = [wire EXCEPT ![conn] = wire[conn] \o young]
    BY <1>1 DEF OnOpen, FlushBuffer
  <2>2. /\ ringBuffer \in Seq(Envelopes) /\ young \in Seq(Envelopes)
        /\ conn \in Conns /\ wire \in [Conns -> Seq(Envelopes)] /\ wire[conn] \in Seq(Envelopes)
    BY DataTyped DEF TypeOK
  <2>3. Ids(young) \subseteq BufferedIds
    BY <2>2, DropExpiredIds, IdsOfState
  <2> HIDE DEF young
  <2>4. \A c \in Conns : c = conn => WireIds(c)' = WireIds(c) \union Ids(young)
    <3>1. wire'[conn] = wire[conn] \o young
      BY <2>1, <2>2
    <3>2. Ids(wire[conn] \o young) = WireIds(conn) \union Ids(young)
      BY <2>2, ConcatIds, IdsOfState
    <3> QED
      BY <3>1, <3>2, IdsOfState
  <2>5. \A c \in Conns : c # conn => WireIds(c)' = WireIds(c)
    BY <2>1, <2>2, IdsOfState
  <2>6. BufferedIds' = {}
    BY <2>1, IdsOfState DEF Ids
  <2>7. \A c \in Conns : WireIds(c)' \subseteq WireIds(c) \union BufferedIds
    BY <2>3, <2>4, <2>5
  <2>8. Pending' \subseteq Pending /\ ReceivedIds' = ReceivedIds
    BY <2>1, <2>6, <2>7 DEF Pending, InFlightIds, ReceivedIds
  <2> QED
    BY <2>1, <2>8 DEF Channel!Next, Channel!GiveUp, Pending
<1>2. CASE PushAis
  <2>1. /\ BufferedIds' \subseteq BufferedIds \union {pushed + 1}
        /\ \A c \in Conns : WireIds(c)' \subseteq WireIds(c) \union {pushed + 1}
    BY <1>2, PushAisKeepsOrder DEF OrderInv
  <2>2. Pending' \subseteq Pending \union {pushed + 1}
    BY <2>1 DEF Pending, InFlightIds
  <2>3. pushed < MaxReports /\ pushed' = pushed + 1 /\ ReceivedIds' = ReceivedIds
    BY <1>2 DEF PushAis, ReceivedIds
  <2> QED
    BY <2>2, <2>3 DEF Channel!Next, Channel!Push, Pending
<1>3. ASSUME NEW k \in Conns, Ingest(k) PROVE Channel!Next
  <2> DEFINE h == Head(wire[k]).id
  <2>1. /\ BufferedIds' = BufferedIds /\ h \notin WireIds(k)'
        /\ WireIds(k) = WireIds(k)' \union {h}
        /\ \A c \in Conns : c # k => WireIds(c)' = WireIds(c)
    BY <1>3, IngestKeepsOrder DEF OrderInv
  <2>2. pushed' = pushed /\ received' = received \union {[id |-> h, conn |-> k]}
    BY <1>3 DEF Ingest
  <2> HIDE DEF h
  <2>3. k \in Nat /\ Conns \subseteq Nat /\ h \in Nat
    <3>1. wire[k] \in Seq(Envelopes)
      BY DEF TypeOK
    <3>2. WireIds(k) \subseteq Reports
      BY <3>1, IdsTyped, IdsOfState
    <3> QED
      BY <2>1, <3>2 DEF Conns, Reports
  <2>4. h \notin BufferedIds
    BY <2>1, <2>3 DEF OrderInv, SendOrder
  <2>5. \A c \in Conns : c # k => h \notin WireIds(c) /\ h \notin ReceivedOn(c)
    <3> TAKE c \in Conns
    <3>1. ASSUME c # k PROVE c < k \/ k < c
      BY <2>3, <3>1
    <3>2. CASE c < k
      <4>1. \A r \in WireIds(c) \union ReceivedOn(c) : r < h
        BY <2>1, <3>2 DEF OrderInv, SendOrder
      <4> QED
        BY <2>3, <4>1
    <3>3. CASE k < c
      <4>1. \A r \in WireIds(c) \union ReceivedOn(c) : h < r
        BY <2>1, <3>3 DEF OrderInv, SendOrder
      <4> QED
        BY <2>3, <4>1
    <3> QED
      BY <3>1, <3>2, <3>3
  <2>6. h \notin ReceivedOn(k)
    BY <2>1, <2>3 DEF OrderInv, SendOrder
  <2>7. h \notin ReceivedIds
    BY <2>5, <2>6 DEF ReceivedIds, ReceivedOn, TypeOK
  <2>8. Pending' = Pending \ {h} /\ h \in Pending
    BY <2>1, <2>4, <2>5 DEF Pending, InFlightIds
  <2>9. ReceivedIds' = ReceivedIds \union {h}
    <3> DEFINE one == [id |-> h, conn |-> k]
    <3>1. received' = received \union {one} /\ one.id = h
      BY <2>2
    <3> HIDE DEF one
    <3> QED
      BY <3>1 DEF ReceivedIds
  <2>10. \E r \in Pending : /\ Pending' = Pending \ {r} /\ ReceivedIds' = ReceivedIds \union {r}
                           /\ r \notin ReceivedIds /\ pushed' = pushed
    BY <2>2, <2>7, <2>8, <2>9
  <2> QED
    BY <2>10 DEF Channel!Next, Channel!Receive, Pending
<1>4. CASE QuietStep
  <2>1. /\ received' = received /\ pushed' = pushed /\ ringBuffer' \in {ringBuffer, <<>>}
        /\ \A c \in Conns : wire'[c] \in {wire[c], <<>>}
    BY <1>4, QuietStepEffect
  <2>2. /\ BufferedIds' \subseteq BufferedIds
        /\ \A c \in Conns : WireIds(c)' \subseteq WireIds(c)
    BY <2>1, IdsOfState DEF Ids
  <2> QED
    BY <2>1, <2>2, ForgettingIsGivingUp
<1> QED
  BY <1>1, <1>2, <1>3, <1>4, StepSplit

\* Reconnecting, buffering, flushing and losing sockets never hand a report to
\* the central server twice: the link is an at-most-once channel.
THEOREM LinkIsAtMostOnce == Spec => AtMostOnce
<1>1. Init => Channel!Init
  BY DEF Init, Channel!Init, BufferedIds, InFlightIds, WireIds, ReceivedIds
<1>2. TypeOK /\ TypeOK' /\ OrderInv /\ OrderInv' /\ [Next]_vars => [Channel!Next]_(Channel!vars)
  BY StepImplementsChannel
<1> QED
  BY <1>1, <1>2, TypeCorrect, OrderInvariant, PTL DEF Spec, AtMostOnce, Channel!Spec
=============================================================================
