---------------------------- MODULE VesselTrack ----------------------------
(***************************************************************************)
(* What AisService makes of the positions it receives, in the modes that   *)
(* keep a database (standalone, central, combined): the trail of every     *)
(* vessel in pointHistory, the sources that heard it, the throttled        *)
(* broadcast to the clients, the one-minute job that stores history rows   *)
(* and the AIS table, and the load of that table when the process starts.  *)
(*                                                                         *)
(* The clock counts minutes from 1.  The 3 s dedup window and the 5 s      *)
(* throttle are shorter than that: each is a flag that goes down by a step *)
(* of its own, and with the minute.  A position is a member of a set: two  *)
(* different ones are more than 5 m apart.  The awaits of saveAISData and  *)
(* of the minute job are points where another handler may run; the load at *)
(* start is one step.                                                      *)
(***************************************************************************)
EXTENDS Naturals, Sequences, FiniteSets

CONSTANTS
  Vessels,          \* MMSIs
  Senders,          \* the sites reports come from
  Site,             \* this.siteName
  NoSource,         \* the missing source of a point that was loaded
  Positions,
  SerialEnabled,    \* the site mode has receivers of its own
  StartsWithWait,   \* onModuleInit waits for a TCP connect before it loads
  TrailCap,         \* the 20 of slice(1, 20) and slice(0, 20)
  Window,           \* minutes a point is kept
  SourceTtl,        \* ACTIVE_SOURCE_TTL_MS, in minutes
  SaveSpan,         \* minutes a call of saveAISData may last
  MaxClock,         \* last minute of a behaviour
  MaxRestarts,      \* restarts of the process
  MaxFaults         \* failures of database or receiver

ASSUME VesselTrackAssumption ==
  /\ SerialEnabled \in BOOLEAN /\ StartsWithWait \in BOOLEAN
  /\ NoSource \notin Senders \union {Site}
  /\ TrailCap \in Nat /\ TrailCap >= 2
  /\ Window \in Nat \ {0} /\ SourceTtl \in Nat /\ SaveSpan \in Nat
  /\ MaxClock \in Nat \ {0} /\ MaxRestarts \in Nat /\ MaxFaults \in Nat

Times == 1..MaxClock
Points == [ts : Times, pos : Positions, src : Senders \union {NoSource}]
HistoryRows == [mmsi : Vessels, ts : Times, src : Senders \union {Site}, at : Times]
NoRow == [updatedAt |-> 0]
AISRows == [pos : Positions, ts : Times, src : Senders \union {Site},
            sources : SUBSET (Senders \union {Site}), updatedAt : Times, deleteSent : BOOLEAN]

VARIABLES
  clock,
  pointHistory,     \* per vessel, its trail, newest point first; empty: no entry
  recent,           \* vessels whose mmsiLastReceived is in the dedup window
  processingMMSI,
  saving,           \* calls of saveAISData that wait for distance and static data
  activeSources,    \* activeSourcesByMmsi: per vessel and source, last minute or 0
  isDeviceConnected,
  throttled,        \* lastAisDataSendTime is less than AIS_SEND_INTERVAL ago
  sendTimer,        \* aisDataSendTimer is set
  aisHisotry,       \* rows to be inserted
  uncommitted,      \* rows inserted in the open transaction
  cron,             \* where cleanupAISData stands in this minute
  loading,          \* onModuleInit has not loaded the AIS table yet
  stored,           \* the AISHistory table
  ais,              \* the AIS table
  heard,            \* history: per vessel and sender, minute of its last report, or 0
  unseen,           \* history: vessels saved since the last broadcast
  missed,           \* history: there was no receiver since the last broadcast
  restarts, faults

memoryVars == <<pointHistory, recent, processingMMSI, saving, activeSources>>
sendVars == <<isDeviceConnected, throttled, sendTimer, unseen, missed>>
rowVars == <<aisHisotry, uncommitted, stored>>
boundVars == <<restarts, faults>>
vars == <<clock, memoryVars, sendVars, rowVars, cron, loading, ais, heard, boundVars>>

Fault == faults < MaxFaults /\ faults' = faults + 1

Tracked == {m \in Vessels : pointHistory[m] # <<>>}

----------------------------------------------------------------------------
(* The broadcast: sendAisData and executeSendAisData. *)

\* The throttle starts again whether or not anything went out.
ExecuteSend(ignoreDeviceCheck, fresh) ==
  /\ throttled' = TRUE /\ sendTimer' = FALSE
  /\ IF ignoreDeviceCheck \/ isDeviceConnected
     THEN unseen' = {} /\ missed' = ~isDeviceConnected
     ELSE unseen' = unseen \union fresh /\ UNCHANGED missed

\* Mutant: nothing is left to a timer.
SendNowOrNever(fresh) ==
  IF throttled THEN unseen' = unseen \union fresh /\ UNCHANGED <<throttled, sendTimer, missed>>
  ELSE ExecuteSend(FALSE, fresh)

\* sendAisData(false), after the vessels in fresh were saved.
SendAisData(fresh) ==
  IF throttled
  THEN /\ sendTimer' = TRUE
       /\ unseen' = unseen \union fresh
       /\ UNCHANGED <<throttled, missed>>
  ELSE ExecuteSend(FALSE, fresh)

SendTimer ==
  /\ sendTimer /\ ~throttled
  /\ ExecuteSend(FALSE, {})
  /\ UNCHANGED <<clock, memoryVars, isDeviceConnected, rowVars, cron, loading, ais, heard, boundVars>>

ThrottleEnds ==
  /\ throttled /\ throttled' = FALSE
  /\ UNCHANGED <<clock, memoryVars, isDeviceConnected, sendTimer, unseen, missed, rowVars, cron,
                 loading, ais, heard, boundVars>>

\* DeviceLink: the receivers come and go, at a site that has any.
DeviceStatus ==
  /\ SerialEnabled
  /\ IF isDeviceConnected THEN Fault ELSE UNCHANGED faults
  /\ isDeviceConnected' = ~isDeviceConnected
  /\ missed' = TRUE
  /\ UNCHANGED <<clock, memoryVars, throttled, sendTimer, unseen, rowVars, cron, loading, ais,
                 heard, restarts>>

----------------------------------------------------------------------------
(* saveAISData. *)

\* markActiveSource, with its cleaning of what is older than the TTL.
Marked(m, source) ==
  [activeSources EXCEPT ![m] =
     [s \in Senders |->
        IF s = source THEN clock ELSE IF @[s] + SourceTtl < clock THEN 0 ELSE @[s]]]

\* getActiveSourcesJson.
ActiveSources(m) ==
  IF \A s \in Senders : activeSources[m][s] = 0 THEN {Site}
  ELSE {s \in Senders : activeSources[m][s] # 0 /\ activeSources[m][s] + SourceTtl >= clock}

NewPoint(source, pos) == [ts |-> clock, pos |-> pos, src |-> source]

\* Mutant: a vessel that is being processed is processed again.
AcceptUnlocked(m, point) ==
  IF m \in recent THEN UNCHANGED <<recent, processingMMSI, saving>>
  ELSE /\ recent' = recent \union {m}
       /\ processingMMSI' = processingMMSI \union {m}
       /\ saving' = saving \union {[mmsi |-> m, history |-> pointHistory[m], point |-> point]}

\* The dedup window, then the lock of the vessel.
Accept(m, point) ==
  IF m \in recent THEN UNCHANGED <<recent, processingMMSI, saving>>
  ELSE /\ recent' = recent \union {m}
       /\ IF m \in processingMMSI THEN UNCHANGED <<processingMMSI, saving>>
          ELSE /\ processingMMSI' = processingMMSI \union {m}
               /\ saving' = saving \union
                    {[mmsi |-> m, history |-> pointHistory[m], point |-> point]}

\* Mutant: a report in the dedup window is dropped before its source counts.
SaveAISDataDropsFirst(m, source, pos) ==
  /\ heard' = [heard EXCEPT ![m][source] = clock]
  /\ activeSources' = IF m \in recent THEN activeSources ELSE Marked(m, source)
  /\ Accept(m, NewPoint(source, pos))
  /\ UNCHANGED <<clock, pointHistory, sendVars, rowVars, cron, loading, ais, boundVars>>

\* Up to the first await.
SaveAISData(m, source, pos) ==
  /\ heard' = [heard EXCEPT ![m][source] = clock]
  /\ activeSources' = Marked(m, source)
  /\ Accept(m, NewPoint(source, pos))
  /\ UNCHANGED <<clock, pointHistory, sendVars, rowVars, cron, loading, ais, boundVars>>

\* slice(first, 20) of a trail.
Slice(trail, first) ==
  SubSeq(trail, first, IF Len(trail) < TrailCap THEN Len(trail) ELSE TrailCap)

\* Mutant: the head it had is kept as well, whatever the length.
WithHeadUncut(history, point) ==
  IF history = <<>> THEN <<point, point>> ELSE <<point>> \o history

\* The trail with a new head: the head it had is replaced, the rest kept.
WithHead(history, point) ==
  IF history = <<>> THEN <<point, point>> ELSE <<point>> \o Slice(history, 2)

\* After the awaits, on the history read before them.
SaveResumes(call) ==
  /\ saving' = saving \ {call}
  /\ pointHistory' = [pointHistory EXCEPT ![call.mmsi] = WithHead(call.history, call.point)]
  /\ processingMMSI' = processingMMSI \ {call.mmsi}
  /\ SendAisData({call.mmsi})
  /\ UNCHANGED <<clock, recent, activeSources, isDeviceConnected, rowVars, cron, loading, ais,
                 heard, boundVars>>

\* Mutant: the vessel stays marked as being processed.
SaveFailsLocked(call) ==
  /\ Fault
  /\ saving' = saving \ {call}
  /\ UNCHANGED <<clock, pointHistory, recent, processingMMSI, activeSources, sendVars, rowVars,
                 cron, loading, ais, heard, restarts>>

\* Distance or static data cannot be read: the report is dropped.
SaveFails(call) ==
  /\ Fault
  /\ saving' = saving \ {call}
  /\ processingMMSI' = processingMMSI \ {call.mmsi}
  /\ UNCHANGED <<clock, pointHistory, recent, activeSources, sendVars, rowVars, cron, loading,
                 ais, heard, restarts>>

DedupWindowPasses(m) ==
  /\ m \in recent
  /\ recent' = recent \ {m}
  /\ UNCHANGED <<clock, pointHistory, processingMMSI, saving, activeSources, sendVars, rowVars,
                 cron, loading, ais, heard, boundVars>>

----------------------------------------------------------------------------
(* cleanupAISData, once a minute, await by await. *)

Young(point) == point.ts + Window > clock

\* filter, point by point: the young ones of a trail, in their order.
YoungOf(trail) ==
  LET kept[n \in 0..Len(trail)] ==
        IF n = 0 THEN <<>>
        ELSE IF Young(trail[n]) THEN Append(kept[n - 1], trail[n]) ELSE kept[n - 1]
  IN  kept[Len(trail)]

\* Mutant: a trail without a point younger than the window is left alone.
YoungPointsOrAll(m) ==
  IF YoungOf(pointHistory[m]) = <<>> THEN pointHistory[m] ELSE YoungOf(pointHistory[m])

YoungPoints(m) == YoungOf(pointHistory[m])

\* deleteAISHistory, and deleteAISPoint, which catches its own failure.
DeletePoints ==
  /\ cron = "due" /\ cron' = "add"
  /\ pointHistory' = [m \in Vessels |-> YoungPoints(m)]
  /\ \/ /\ ais' = [m \in Vessels |->
             IF ais[m] # NoRow /\ ais[m].updatedAt + Window < clock
             THEN [ais[m] EXCEPT !.deleteSent = TRUE] ELSE ais[m]]
        /\ UNCHANGED faults
     \/ Fault /\ UNCHANGED ais
  /\ UNCHANGED <<clock, recent, processingMMSI, saving, activeSources, sendVars, rowVars, loading,
                 heard, restarts>>

SourceOf(point) == IF point.src = NoSource THEN Site ELSE point.src

\* A vessel that has moved gets its live position as a new point of its trail.
Extended(trail) ==
  IF Len(trail) >= 2 /\ trail[1].pos # trail[2].pos
  THEN <<trail[1]>> \o Slice(trail, 1) ELSE trail

\* addAISHistory.
AddAISHistory ==
  /\ cron = "add" /\ cron' = "insert"
  /\ aisHisotry' = aisHisotry \union
       {[mmsi |-> m, ts |-> pointHistory[m][1].ts, src |-> SourceOf(pointHistory[m][1]),
         at |-> clock] : m \in Tracked}
  /\ pointHistory' = [m \in Vessels |-> Extended(pointHistory[m])]
  /\ UNCHANGED <<clock, recent, processingMMSI, saving, activeSources, sendVars, uncommitted,
                 stored, loading, ais, heard, boundVars>>

\* Mutant: the rows of a failed insert are forgotten.
InsertFailsForgets == Fault /\ cron' \in {"idle", "update"} /\ aisHisotry' = {} /\ UNCHANGED uncommitted

\* The two ends of the insert of upsertAISHistory.  No transaction: the whole
\* job is off for this minute.  A failed insert is rolled back.
InsertFails == Fault /\ cron' \in {"idle", "update"} /\ UNCHANGED <<aisHisotry, uncommitted>>

\* Mutant: the rows stay queued after they were inserted.
InsertedKeeps == cron' = "commit" /\ uncommitted' = aisHisotry /\ UNCHANGED <<aisHisotry, faults>>

Inserted == cron' = "commit" /\ uncommitted' = aisHisotry /\ aisHisotry' = {} /\ UNCHANGED faults

InsertHistory ==
  /\ cron = "insert"
  /\ IF aisHisotry = {} THEN cron' = "update" /\ UNCHANGED <<aisHisotry, uncommitted, faults>>
     ELSE Inserted \/ InsertFails
  /\ UNCHANGED <<clock, memoryVars, sendVars, stored, loading, ais, heard, restarts>>

\* Its commit.  The rows of a commit that fails are in no queue any more.
CommitHistory ==
  /\ cron = "commit" /\ cron' = "update"
  /\ uncommitted' = {}
  /\ \/ stored' = stored \union uncommitted /\ UNCHANGED faults
     \/ Fault /\ UNCHANGED stored
  /\ UNCHANGED <<clock, memoryVars, sendVars, aisHisotry, loading, ais, heard, restarts>>

\* batchUpdateAisData; the broadcast is not reached when it fails.
BatchUpdateAisData ==
  /\ cron = "update" /\ cron' = "idle"
  /\ \/ /\ ais' = [m \in Vessels |->
             IF m \in Tracked /\ pointHistory[m][1].ts + Window >= clock
             THEN [pos |-> pointHistory[m][1].pos, ts |-> pointHistory[m][1].ts,
                   src |-> SourceOf(pointHistory[m][1]), sources |-> ActiveSources(m),
                   updatedAt |-> clock, deleteSent |-> FALSE]
             ELSE ais[m]]
        /\ ExecuteSend(FALSE, {})
        /\ UNCHANGED faults
     \/ Fault /\ UNCHANGED <<ais, throttled, sendTimer, unseen, missed>>
  /\ UNCHANGED <<clock, memoryVars, isDeviceConnected, rowVars, loading, heard, restarts>>

----------------------------------------------------------------------------
(* Start, restart and time. *)

RecentRows == {m \in Vessels : ais[m] # NoRow /\ ais[m].updatedAt + Window >= clock}

\* The time of the row becomes the time of the point, and the point has no
\* source.
LoadTrails(loaded) ==
  pointHistory' = [m \in Vessels |->
    IF m \in loaded
    THEN LET point == [ts |-> ais[m].updatedAt, pos |-> ais[m].pos, src |-> NoSource]
         IN  <<point, point>>
    ELSE pointHistory[m]]

\* loadRecentAISDataFromDB, newest rows first.  A failure on the way is logged:
\* what is loaded by then stays, nothing is sent, and the start goes on.
LoadRecentAISData ==
  /\ loading /\ loading' = FALSE
  /\ \/ /\ LoadTrails(RecentRows)
        /\ IF RecentRows = {} THEN UNCHANGED <<throttled, sendTimer, unseen, missed>>
           ELSE ExecuteSend(TRUE, {})
        /\ UNCHANGED faults
     \/ /\ Fault
        /\ \E loaded \in SUBSET RecentRows :
             /\ \A m \in loaded, n \in RecentRows \ loaded : ais[m].updatedAt >= ais[n].updatedAt
             /\ LoadTrails(loaded)
        /\ UNCHANGED <<throttled, sendTimer, unseen, missed>>
  /\ UNCHANGED <<clock, recent, processingMMSI, saving, activeSources, isDeviceConnected, rowVars,
                 cron, ais, heard, restarts>>

NoTrails == [m \in Vessels |-> <<>>]
Unheard == [m \in Vessels |-> [s \in Senders |-> 0]]

Init ==
  /\ clock = 1
  /\ pointHistory = NoTrails /\ activeSources = Unheard
  /\ recent = {} /\ processingMMSI = {} /\ saving = {}
  /\ isDeviceConnected \in IF SerialEnabled THEN BOOLEAN ELSE {FALSE}
  /\ throttled = FALSE /\ sendTimer = FALSE /\ unseen = {} /\ missed = ~isDeviceConnected
  /\ aisHisotry = {} /\ uncommitted = {} /\ stored = {}
  /\ cron = "idle" /\ loading = TRUE
  /\ ais = [m \in Vessels |-> NoRow]
  /\ heard = Unheard
  /\ restarts = 0 /\ faults = 0

\* The process ends at any time and starts again; only the tables are left.
Restart ==
  /\ restarts < MaxRestarts /\ restarts' = restarts + 1
  /\ pointHistory' = NoTrails /\ activeSources' = Unheard
  /\ recent' = {} /\ processingMMSI' = {} /\ saving' = {}
  /\ isDeviceConnected' = FALSE
  /\ throttled' = FALSE /\ sendTimer' = FALSE /\ unseen' = {} /\ missed' = TRUE
  /\ aisHisotry' = {} /\ uncommitted' = {}
  /\ cron' = "idle" /\ loading' = TRUE
  /\ UNCHANGED <<clock, stored, ais, heard, faults>>

\* Jobs start once onModuleInit is done.  A job ends within the minute, a save
\* lasts over SaveSpan changes of the minute at most.
Minute ==
  /\ clock < MaxClock /\ clock' = clock + 1
  /\ cron = "idle" /\ ~loading
  /\ \A call \in saving : clock < call.point.ts + SaveSpan
  /\ cron' = "due"
  /\ recent' = {} /\ throttled' = FALSE
  /\ UNCHANGED <<pointHistory, processingMMSI, saving, activeSources, isDeviceConnected, sendTimer,
                 unseen, missed, rowVars, loading, ais, heard, boundVars>>

\* While onModuleInit waits, only reports of edges come in.
Receivable(source) == ~loading \/ (StartsWithWait /\ source # Site)

Next ==
  \/ SendTimer \/ ThrottleEnds \/ DeviceStatus
  \/ DeletePoints \/ AddAISHistory \/ InsertHistory \/ CommitHistory \/ BatchUpdateAisData
  \/ LoadRecentAISData \/ Restart \/ Minute
  \/ \E m \in Vessels, source \in Senders, pos \in Positions :
       Receivable(source) /\ SaveAISData(m, source, pos)
  \/ \E call \in saving : SaveResumes(call) \/ SaveFails(call)
  \/ \E m \in Vessels : DedupWindowPasses(m)

Spec == Init /\ [][Next]_vars

\* Timers fire.  Nothing promises another report.
Fairness == WF_vars(SendTimer) /\ WF_vars(ThrottleEnds)

FairSpec == Spec /\ Fairness

----------------------------------------------------------------------------
(* Properties. *)

\* Every variable keeps its type, and only a vessel whose report is in flight
\* is locked: no outcome of a save leaves it out of all later ones.
TypeOK ==
  /\ clock \in Times
  /\ \A m \in Vessels : \A i \in DOMAIN pointHistory[m] : pointHistory[m][i] \in Points
  /\ recent \subseteq Vessels /\ processingMMSI = {call.mmsi : call \in saving}
  /\ \A call \in saving : call.mmsi \in Vessels /\ call.point \in Points
  /\ activeSources \in [Vessels -> [Senders -> 0..MaxClock]]
  /\ {isDeviceConnected, throttled, sendTimer, loading, missed} \subseteq BOOLEAN
  /\ aisHisotry \union uncommitted \union stored \subseteq HistoryRows
  /\ cron \in {"idle", "due", "add", "insert", "commit", "update"}
  /\ \A m \in Vessels : ais[m] = NoRow \/ ais[m] \in AISRows
  /\ heard \in [Vessels -> [Senders -> 0..MaxClock]]
  /\ unseen \subseteq Vessels
  /\ restarts \in 0..MaxRestarts /\ faults \in 0..MaxFaults

\* A newer position of a vessel never gives way to an older one, whatever
\* calls of saveAISData are under way.
NewestWins ==
  [][\A m \in Tracked \intersect Tracked' : pointHistory'[m][1].ts >= pointHistory[m][1].ts
       \/ restarts' # restarts]_vars

\* A trail is in the order of reception and never longer than 21 points.
TrailOrdered ==
  \A m \in Vessels :
    /\ Len(pointHistory[m]) <= TrailCap + 1
    /\ \A i, j \in DOMAIN pointHistory[m] :
         i < j => pointHistory[m][i].ts >= pointHistory[m][j].ts

LastHeard(m) == CHOOSE t \in {heard[m][s] : s \in Senders} : \A s \in Senders : heard[m][s] <= t

\* Once the job of the minute is done, a vessel silent for the window is gone.
SilentVesselsGo ==
  cron = "idle" => \A m \in Tracked : clock - LastHeard(m) < Window

HeardLately(m) == {s \in Senders : heard[m][s] # 0 /\ clock - heard[m][s] <= SourceTtl}

\* OPERATIONS.md, section 9: a row that is written lists exactly the sources
\* heard in the last five minutes, reports dropped as duplicates included.
ActiveSourcesExact ==
  [][\A m \in Vessels :
       cron = "update" /\ ais'[m] # ais[m] => ais'[m].sources = HeardLately(m)]_vars

\* A history row is queued, in the open transaction or stored, never in two
\* of these: a retried insert does not store a row twice.
EachRowOnce ==
  /\ aisHisotry \intersect (uncommitted \union stored) = {}
  /\ uncommitted \intersect stored = {}

\* A row leaves the queue for a transaction only, or with the process.
RowsKeptUntilInserted ==
  [][aisHisotry \subseteq aisHisotry' \union uncommitted' \/ restarts' # restarts]_vars

\* What was saved since the last broadcast is broadcast in the end, unless a
\* receiver was missing meanwhile.
SavesAreSeen == unseen # {} /\ ~missed ~> unseen = {} \/ missed
=============================================================================
