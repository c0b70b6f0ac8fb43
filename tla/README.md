# TLA+ models of the han_river AIS system

han_river receives AIS reports of vessels at river sites and shows them on a
chart. A NestJS server (`뚝섬/`) reads AIS receivers over serial ports or TCP,
keeps a trail per vessel, stores history in SQLite and broadcasts to browsers
(`클라이언트/`, Vue). The same server runs in four site modes: *standalone*
(receivers, database, UI), *edge* (receivers only, pushes every decoded report to
a central server), *central* (no receivers, takes reports of edges, database, UI)
and *combined*.

This directory holds the models of the parts of that system whose correctness
depends on the order of events: connections that are lost and retried, handlers
that interleave at their awaits, jobs that fail half-way and processes that
restart. `PROJECT.json` maps every definition to the lines it translates.

Contents: 1 inventory, 2 modules and code, 3 runs, bounds and fairness,
4 proofs, 5 what the models show of the code, 6 what is not modelled,
7 plan.

## 1 Inventory

Server paths are below `뚝섬/src/`, client paths below `클라이언트/src/`.

| component | source | state | operations | correct when |
|---|---|---|---|---|
| Receivers | `ais/ais.service.ts` 114-660, 1441-1469 | `portStates`, `tcpClient`, `intentionallyClosedPaths`, `reconnectTimeouts`, `portLastDataAt`, `isDeviceConnected` | connect, open/close/error/data events, reconnect timers, drought watchdog, reload of the setting | no failure leaves a receiver closed for good; one owner per port, one TCP socket; the status tells the truth |
| Reception pipeline | `ais/ais.service.ts` 666-747, 1516-1548 | `pointHistory`, `mmsiLastReceived`, `processingMMSI`, `activeSourcesByMmsi` | `saveAISData` up to and after its awaits | newest position wins; no vessel locked out; the list of sources is exact |
| History and AIS table | `ais/ais.service.ts` 147-206, 911-1006, 1118-1137, 1388-1433 | `aisHisotry` (queue), tables AISHistory and AIS | the one-minute job, await by await; load at start | rows stored once and not dropped from the queue; a silent vessel leaves |
| Broadcast | `ais/ais.service.ts` 1046-1115, `ais/ais.gateway.ts` | `lastAisDataSendTime`, `aisDataSendTimer` | throttled and forced sends | what is saved reaches the UI within the throttle |
| Central client | `ais/central-client.service.ts` | `ws`, `connected`, `ringBuffer`, reconnect, ping and pong timers | connect and its events, heartbeat, push, flush, stop | reports sent in order, at most once, not stale; one retry pending, always one |
| Ingest endpoint | `ais/ingest.gateway.ts`, `common/ws/ws-server.provider.ts` | sockets per path, connected edges | accept, hello, ingest, close | a frame is handled once, in the order of its socket |
| Settings | `setting/setting.service.ts` | one row, a cache with 1 h life | get and set of three settings, reload of the receivers | each setting is read as it was saved, across failures, expiry and restart; receivers, where there are any, run with it |
| Query API | `ais/ais.controller.ts`, `ais/ais.service.ts` 1319-1346 | none | paged history, health, lists | the pages of a query return every row once |
| Authentication, users | `auth/`, `user/` | tables User and UserSetting | register, create, update, reset, remove, login, tokens | a confirmed registration stays whole; only a reset that read before can undo an update |
| Web client: socket | `utils/RadarWebSocket.js`, `store/modules/AIS.js` 177-244 | socket, reconnect timer, data time-out | connect, close, reconnect, change of server | one live socket; a stale event does not change the state of the new one |
| Web client: history | `page/AISPage.vue` 681-764, `store/modules/AIS.js` 252-278 | selection, period, dates, list, cursor | select, set period, load more, answers | the list is one run of rows of one query |
| Web client: chart | `components/AISCanvas.vue`, `components/ElectronicChart.vue` | frame handle, hidden flag, drawer timer, map | watchers, frames, map events, redraw every 30 s | what changed gets painted; silent vessels leave; a hidden chart comes back |
| Site modes | `common/const/site-mode.const.ts` | none | which components run | each mode offers what its row says |
| Plumbing | `main.ts`, `app.module.ts`, `common/logger`, `mqtt/`, interceptors, DTOs, entities | none | bootstrap, logging, glue | - |

**How they interact.** A receiver calls the decoder, which calls either
`saveAISData` (standalone, combined) or `pushAis` of the central client (edge).
The central client writes frames to a WebSocket whose server side is the ingest
gateway; it calls `saveAISData` of the central server with the name of the edge
as the source. `saveAISData` and the one-minute job share `pointHistory`; both
end in `sendAisData`, which `isDeviceConnected` gates: a field of the receivers.
Saving a communication setting writes row and cache and calls
`reloadCommunicationConfig` of the receivers, which reads the cache. The page of
the client selects a vessel, which queries its history, opens the drawer and
thereby hides the canvas for a moment; the chart's map reports its view once per
frame, through the page to the canvas and through the store.

**What is hard.** Everything runs on one event loop, so the interleavings are
those of callbacks: (a) asynchronous open and close of ports whose entry in
`portStates` is dropped at once, so that events of a replaced port or socket
arrive after its successor exists; (b) shared maps read before an await and
written after it; (c) several steps of which one fails (insert, commit, update,
broadcast); (d) timers that must be cancelled by the event they wait for (pong,
reconnect, throttle, connect time-out, animation frames); (e) a network that dies without a
FIN; (f) restarts that leave only the tables; (g) limits: ring buffer, trail,
dedup window, 5-minute source window, 10-minute vessel window. The list with a
line for each is `hazards` in `PROJECT.json`.

## 2 Modules and code

| module | models | composes |
|---|---|---|
| `ReportChannel` | abstract: a report is handed over at most once, a report given up never comes back | - |
| `EdgeLink` | `CentralClientService`, the network, the accepting side of `IngestGateway` / `WsServerProvider` | implements `ReportChannel` |
| `EdgeLink_proofs` | theorems about `EdgeLink` for all values of the constants | extends `EdgeLink`, TLAPS |
| `DeviceLink` | the receivers of `AisService` | - |
| `DeviceLink_proofs` | theorems about `DeviceLink` | extends `DeviceLink`, TLAPS |
| `VesselTrack` | reception, trails, history job, AIS table, broadcast | takes `isDeviceConnected` of `DeviceLink` as a free input and the reports of `EdgeLink` as calls of `SaveAISData` |
| `VesselTrack_proofs` | theorems about `VesselTrack` | extends `VesselTrack`, TLAPS |
| `ChartClient` | `RadarWebSocket` and the socket part of the AIS store, `setIPSetting`, the `/ais` path of `AisGateway` / `WsServerProvider` | takes what `VesselTrack` broadcasts as `SendAisDataToClients` |
| `ChartClient_proofs` | theorems about `ChartClient` | extends `ChartClient`, TLAPS |
| `Settings` | `SettingService`, the reload and the TCP retry of `AisService` as far as they read settings, the communication dialog of `AISPage` | what `DeviceLink` is reloaded with is `inUse` here |
| `Settings_proofs` | theorems about `Settings` for all values of the constants | extends `Settings`, TLAPS |
| `HistoryPages` | the history query of `AisController` and `AisService`, insert and prune of rows, and the history part of the page and its store | rows come as `VesselTrack` commits them |
| `HistoryPages_proofs` | theorems about `HistoryPages` | extends `HistoryPages`, TLAPS |
| `ChartCanvas` | `AISCanvas`, `ElectronicChart`, the part of `AISPage` that hides the canvas | its `SetAISData` is what `ChartClient` receives |
| `ChartCanvas_proofs` | theorems about `ChartCanvas` | extends `ChartCanvas`, TLAPS |
| `Accounts` | `AuthService` and `UserService` as far as they write | - |
| `Accounts_proofs` | theorems about `Accounts` | extends `Accounts`, TLAPS |
| `MC...` | instances of each for TLC | - |

Conventions: an action is an event handler, a timer callback or the part of an
async function between two awaits, and has the name of the function it models.
A VARIABLE has the name of the field (`aisHisotry` is spelt as in the code).
Operators called `...Kept`, `...Stale`, `...Unlocked` and the like, each under a
comment that starts with "Mutant:", are plausible mistakes that are used by no
specification: they show that a property notices them.

**EdgeLink.** A report is the number of its `pushAis` call; a socket is the
number of the accepted connection. `wire[c]` is what has been written to socket
`c` and not been read, in the kernels and on the path. It is lost with the
socket (`LoseInFlight`) or may still be read by the server after the edge has
opened another. `ws` is `readyState`. `connected` is a field of its own and
lags behind it (`PeerCloses` before `OnClose`), as in the code. `pongTimer`
holds the number of the socket the timer was started for, so that a timer
that outlives its socket is visible. The exponential back-off chooses only a
delay, and timers fire after any delay. A constructor that throws (`ConstructorFails`) leaves no
socket and a retry. `ringBuffer` and `flushBuffer` are
modelled item by item; serialisation of a frame is a record.
`Stop` is `onModuleDestroy`; `Restart` is PM2 starting the process after a stop
or a crash (buffer lost).

**DeviceLink.** `serial[p][k]` is the k-th SerialPort object of path `p`: more
than one may live, because `removeAllListeners` and `close()` let go of an
object long before the operating system does. `bound` says whether it still
has its listeners; the callback given to `open()` runs either way, which is
what `SerialOpenFails` without a look at `portStates` models. `sock` holds TCP
sockets: `replaced` is a client that was destroyed while connecting and whose
5 s time-out is still to reject its promise. A step is one event handler with
its promise continuations, because `getAISCommunicationConfig` answers from the
in-process cache (a cache miss reads better-sqlite3, which is synchronous: both
only queue microtasks, and no timer or I/O callback runs in between). Two awaits
are real: `SerialPort.list()` in a serial retry (`retrying` between `SerialTimer` and
`SerialTimerResumes`) and the connection of TCP. `SerialTimer` assumes that
`list()` ends before the next timer of the path, 3 s later at the earliest.
`overtaken` is history: the paths that were waiting there when the setting last changed.

**VesselTrack.** The unit of time is the minute of the job. The 3 s dedup
window and the 5 s throttle are flags with a step of their own. `saving` is the
set of calls of `saveAISData` that are between reading the trail and writing it.
In the present build their awaits end in microtasks (in-process cache,
better-sqlite3); the model lets other handlers run there as well, an
over-approximation that keeps the result when the database driver or the cache
store becomes a remote one. `SaveSpan` says over how many minutes such a call may
last: 1 where calls and the job are to meet (`trail`), 0 elsewhere. None of the violations in section 5 needs such an
interleaving. `upsert` is taken to refresh `updatedAt` (TypeORM's
`UpdateDateColumn`). Two different positions are more than 5 m apart, so that
`Extended` is the code's movement test. The filter of a trail is a recursive
function of the number of points (`YoungOf`). `LoadRecentAISData` may fail on the way, newest rows
first: what is loaded by then stays and nothing is sent. `heard`, `unseen` and `missed` are
history variables: no action reads them.

**ChartClient.** `RadarWebSocket` r is the r-th that was made; the store refers
to the last one (`aisSocket`). `ws[r]` is its browser socket; `peer` says that
the server holds it in `pathClientMap`, `inbox` is what is on its way to the
browser, which drops it once the socket is closing. A connection ends in one of two ways:
the browser learns of it and emits `close` (`ConnectionBreaks`), or its path dies without a
FIN (`PathDies`, phase "dead"). Nobody learns of that: the client's heartbeat is
commented out (RadarWebSocket.js:28-29, 92-103) and the client never sends. `SetIPSetting` is the whole
action with its mutation: the old object is closed, the list is
emptied and the new object made in one synchronous run; only the `close` event of the old
one is left for later. `timers` keeps every pending data time-out by its
deadline, so that one the store has lost sight of would still fire. The client
page has one route and its chart is never unmounted, so that `disconnectAISSocket`
occurs only within `setIPSetting`.

**Settings.** A handler is one step, for the reason given under `DeviceLink`. The
three settings share `row`; each has its entry in `cache`. `Store` is update or
create followed by the cache; `ok` is FALSE when the database throws, before the
cache is touched. `MergedComm` is the merge by fields that were sent, so that
what goes into the row and what goes into the cache differ when a part was
saved empty; `Agrees` compares the part the type uses, and says what an emptied part may
be: empty, the default address, or what was given before it (`lastGiven`, history).
`serialEnabled` is the capability of the site: without it (central) `onModuleInit` loads no
receivers, while a save reloads them at every site, as in the code. `form` holds what an operator's dialog was filled with; `intact`
is history: it becomes FALSE when the form no longer shows what is saved.

**HistoryPages.** `Serve` is the query at the time it runs, `Answer` the commit of
its result into the store; between them the operator and the table go on, and
answers overtake each other. Ids grow with insertion, so the cursor is an id, and
`ORDER BY` picks the one sequence of the rows found in which ids fall (`NewestFirst`). A
"first" answer replaces the list, a "more" answer is appended, as in the code without
asking what the list is by then. `shown` is history: the query the list
answers, the first id that was free when it ran, and whether a further page was appended that
had been asked for another list (`tangled`).

**ChartCanvas.** `painted`, `drawn` and `placed` say what is on the canvas,
`stale` which inputs have changed since they were painted (history). `rafHandle`
and `drawPending` are kept apart as in the code: the frame is cancelled through
one and asked for through the other. `isZooming` is one flag with two writers:
the drawer's timer and the map's events. Time passes in units of thirty seconds
and not while a frame, a timer of the drawer or a movement is under way, which
last a fraction of a second in a page that is in front (a page in the background
paints nothing, and nobody sees it). `kakaoMap` waits for the SDK, is made, or is
given up after five seconds; without a map points are placed by
`convertGPSToCanvas`'s fallback (`Placement`).

**Accounts.** A request waits with what it has read (`request[r]`), for the hash
that bcrypt computes in another thread. Constraints are those of the entities
and of `PRAGMA foreign_keys = ON`. `asked` is history: the number
that was last asked for each user, by a registration or an update that succeeded. A password
reset asks for none. Passwords, names and tokens are left out.

## 3 Runs, bounds and fairness

| run | asks | bounds | distinct states |
|---|---|---|---|
| `edge_link` | order, freshness, at-most-once, one retry, timers; does the link come back, is a silent path noticed | 3 reports, 4 sockets, clock 0..2 with a 1-tick buffer life, buffer of 2, 3 faults | 303,891 |
| `device_serial` | two ports, no change of settings: ownership, status, every port comes back | 2 paths, 2 objects per path, 3 faults | 2,928 |
| `device_reload` | reloads between serial and TCP leave nothing behind but a retry in `SerialPort.list()`, TCP comes back | 1 path, 4 slots, 2 reloads, 2 faults | 45,028 |
| `device_retry` | expected violation | 1 path, 1 reload, 1 fault | - |
| `trail` | two edges report one vessel, saves fail, the job runs | 1 vessel, 2 sources, trail of 2(+1), window 2, source life 1, 3 minutes, a save lasting into the next minute, 1 fault | 1,151,931 |
| `store` | transactions fail, receivers flap, one restart | 1 vessel, 1 edge, 2 positions, 3 minutes, 1 fault, 1 restart | 1,246,889 |
| `chart_client` | servers stop, connections break, paths die, the operator changes the server | 2 servers, 2 RadarWebSockets, 2 broadcasts, minutes 0..3, time-out 2, 2 faults | 265,112 |
| `chart_alarm` | expected violation | smallest that shows it | - |
| `settings` | saves, failures, expiry, restarts, two dialogs, with and without receivers | 2 ports, 2 addresses, 2 values, 2 operators, 2 saves, 1 fault | 1,686,200 |
| `history` | paging against inserts, prunes and late answers | 2 vessels, 3 rows, pages of 1, 4 acts, 2 requests under way, days of 2 hours | 1,051,239 |
| `canvas` | frames, watchers, timers and map events | 2 vessels, 2 zoom levels, ages up to 2 units, 4 acts | 834,380 |
| `accounts` | interleaved registrations, updates, resets, removals: what is confirmed lasts, what may undo an update | 2 numbers, 3 requests at a time, 7 in all, 3 users, 1 restart | 314,723 |

*Why these are enough.* `edge_link`: three reports with a buffer of two make
the buffer overflow, and with a life of one tick and three instants some
reports expire behind and some before others; four sockets and three faults allow a socket that dies
with data, its successor, and a server that still reads the first. `trail`:
`Window` 2 and `SourceTtl` 1 keep the order of the code's 10 and 5 minutes, and
three minutes cover arrival, expiry of a source and expiry of the vessel.
Vessels are independent of each other but for the common queue, job and
broadcast, so one vessel with two sources shows the races; `device_serial` needs
two ports because the status summarises several. `settings`: two saves are one
operator's and another's between opening and saving, or one that fails and one
that does not; three settings always share the row. `history`: three rows with
pages of one give a first, a middle and a last page, and a row that arrives or is pruned
between them; two requests under way overtake each other. `canvas`: the drawer, a
zoom, a click and a change of data are four acts. `accounts`: a race has two
requests, a third removes or updates the user under them. Every bound is a
constant in a guard (`MaxReports`, `MaxConns`, `MaxClock`, `MaxFaults`, `Slots`,
`MaxReloads`, `MaxRestarts`, `MaxSaves`, `MaxRows`, `MaxActs`, `MaxOpen`,
`MaxUsers`, `MaxRequests`); a fault that repairs itself (path heals, device
is plugged in, server starts) costs nothing.

*Deadlock* is checked in `edge_link`, `device_serial`, `settings` and `canvas`. It is off in
the other device runs: a port that was replaced while opening may then stay
open without an owner and hold its path, so that the system really comes to
rest. It is off in the VesselTrack and ChartClient runs, where a behaviour ends with
its last minute, and in `history` and `accounts`, where it ends with the last act
of the operator or the last request.

*Fairness.* `EdgeLink`: timers fire, sockets that are over emit `close`, the
server accepts, PM2 restarts a stopped process. Nothing promises that the path
heals or the server returns: `ReconnectsForGood` has both as its premise.
`DeviceLink`: timers fire, and the callbacks of open, close and connect come.
Plugging a device in, data, and the watchdog have none. `VesselTrack`: timers
fire; no further report, no minute and no receiver is promised. `ChartClient`:
events and the reconnect timer come and a running server accepts; the `close` event is
promised only for a connection whose end the browser learns of, never on a path
that died, and `ComesBack` leaves a client with such a socket out. No server is
promised to start or to send. `ChartCanvas`: the browser runs frames and timers
of a page in front, the first layout and the redraw interval come, and the map ends its
movements; no data, no act of the operator and no SDK is promised. The other
modules state no fairness: their properties are about safety.

## 4 Proofs

Each component has its theorems in a module of its own, `..._proofs`. They hold
for every value of the constants that satisfies the module's named assumption
(numbers are naturals, a page and a buffer hold at least one, a
placeholder such as `None` is none of the values it stands beside); hypotheses
beyond that are in the statement of the theorem and in the tables below. All
safety and action properties that the passing runs check are proved, five of them
under such a hypothesis; the bounds of their runs satisfy it too, and section 5
says what happens without it.

### The link of an edge (`EdgeLink_proofs`)

| theorem | statement |
|---|---|
| `TypeCorrect` | `Spec => []TypeOK` |
| `NeverTwoAttempts`, `RetriesUntilStopped`, `RetryIsExact` | `[]OneAttempt`, `[]AlwaysRetrying`, both as `[]RetryExactly` |
| `PongTimerNeverOutlivesSocket` | `[]PongTimerOfThisSocket` |
| `ReportsSentInOrder`, `NothingBufferedWhileConnected` | `[]SendOrder`, `[]DrainedWhileConnected` |
| `BufferStaysBounded` | `[]BufferBounded` |
| `BufferFollowsPolicy` | `Spec => BufferPolicy` |
| `LinkIsAtMostOnce` | `Spec => AtMostOnce`, that is, `EdgeLink` implements `ReportChannel` |

*The link* (`LinkInv`): `OneAttempt`, `AlwaysRetrying` and
`PongTimerOfThisSocket` are preserved together, with one fact more: a
closed socket has no pong timer. Without it the step of `ReconnectTimer`, which
changes `conn`, could leave a pong timer of the previous socket.

*The order* (`OrderInv`): `SendOrder` alone is not inductive. A new report is
above all others only because every number in use is at most `pushed`; a flush
into `wire[conn]` keeps the order over sockets only because sockets above
`conn` have carried nothing; and a report may bypass the buffer only because
the buffer is then empty, which is `DrainedWhileConnected`. These are the
conjuncts. The steps are split into the three that move reports (`OnOpen`,
`PushAis`, `Ingest`) and the rest, which leave data where it is or
drop it.

*The policy of the buffer* needs that time stamps in the buffer never decrease
and are not from the future (`Stamped`): `DropExpired` stops at the first item
that is young enough, and only in such a buffer are all the expired ones before it
(`ExpiredAreInFront`). What follows is an action property: a report that leaves the
buffer goes to the wire, or is too old, or makes room, or dies with the process.

*The refinement*: `Ingest` is `Receive`, `PushAis` is `Push`, every step that
forgets reports is `GiveUp`, the rest stutter. That `Receive` finds its report
not yet received, and that it leaves the pending ones, both follow from `OrderInv`: a report in
order is nowhere twice.

### The receivers (`DeviceLink_proofs`)

| theorem | statement |
|---|---|
| `DeviceLinkTyped` | `Spec => []TypeOK` |
| `ReloadsLeaveNothing` | `Spec => []NoLeftovers` |
| `OpenPortsRegistered` | `Spec => [](reloads = 0 => OpenPortIsRegistered)` |
| `StatusIsExact` | `Spec => [](reloads = 0 => StatusExact)` |
| `PortsAreRetried` | `Spec => [](reloads = 0 => RetryPending)` |

`reloads = 0` is the process before its first change of settings. It is not a
convenience: a reload lets go of ports that are still opening, and after one all three
statements are false (`device_retry` shows it for `RetryPending`, section 5 names
the others). `device_serial`, which checks the first two, has `MaxReloads = 0`. The inductive invariant is `Attached`: nothing was closed on
purpose, the only object of a path that is not free is the registered one and
it still has its listeners, a retry is for a path without a port, a configured path has
one or the other, and only one kind of communication is in use.

`NoLeftovers` holds with reloads. Its part on sockets and timers is inductive with the types
(`OneKindOfLink`). Its part on ports is not: with TCP in use a port is registered by a retry
that comes out of `SerialPort.list()`, so the invariant has to speak of those that still
wait (`SerialOvertaken`: with TCP in use, what is registered or waiting was waiting when the
setting changed). No timer of a port survives the change, so none begins to wait later.

### Reception, history and broadcast (`VesselTrack_proofs`)

| theorem | statement |
|---|---|
| `VesselTrackTyped` | `Spec => []TypeOK` |
| `TrailsInOrder` | `Spec => []TrailOrdered` |
| `RowsAreStoredOnce`, `RowsAreKept` | `Spec => []EachRowOnce`, `Spec => RowsKeptUntilInserted` |
| `NewestPositionStays` | `~StartsWithWait \/ MaxRestarts = 0` implies `Spec => NewestWins` |
| `SilentVesselsAreGone` | `SaveSpan < Window` implies `Spec => [](restarts = 0 => SilentVesselsGo)` |
| `RowsListTheHeard` | `MaxRestarts = 0` implies `Spec => ActiveSourcesExact` |

*Types* include the lock: `processingMMSI` is exactly the set of vessels with a
call under way, each with one call (`Locked`). *Trails* are in order only because no call
holds a point younger than the clock, nor a history younger than its point,
nor the AIS table a time of update that is still to come (`InOrder`). *Rows* are kept apart
by the minute they were made in: before the job of a minute has made its rows
there is none of that minute (`RowsApart`). *The newest position* stays because the
point of a call is at least as young as the trail it will be put on, though
the job may change that trail between the awaits (`CallsAreNewest`); and
because the first load finds no rows (`Starting`). *Silence* needs two invariants:
no trail is younger than the last report of its vessel (`Vouched`), and
no call outlasts its span, so that every tracked vessel has a young position
except between the start of a minute and the filter of its job (`Fresh`). *Sources*:
a mark is the last report of its source, or was cleaned when too old to count
(`MarksExact`).

The hypotheses are what the code needs. A site that waits for a receiver before it
loads takes reports meanwhile, and after a restart the load puts old points over them
(`StartsWithWait`); loaded points are given the time of their row and carry no
source, so that after a restart a vessel looks younger than it is and its marks are
gone: section 5 names these. A save as long as the window (ten
minutes in the code) would put an old point into a filtered trail.

### The client's socket and chart

| theorem | statement |
|---|---|
| `ChartClientTyped` | `Spec => []TypeOK` |
| `ClosedForGood` | `Spec => []OneLiveSocket` |
| `ShowsTheConfigured` | `Spec => []ShowsConfiguredServer` |
| `AlarmsAreTrue` | `Spec => NoFalseAlarm` |
| `ChartCanvasTyped` | `Spec => []TypeOK` |
| `PictureIsRepaired` | `Spec => []RepaintDue` |
| `SilentVesselsAreRepainted` | `Spec => []SilentVesselsLeave` |

`ChartClient_proofs`: `OneLiveSocket` alone does not exclude that a late
`close` event starts a socket that was let go. `MadeInTurn` does: all
RadarWebSockets before the one in use were closed on purpose, those after it do not
exist yet. What is shown is the configured server's because the one in use has
its URL (`Configured`). An alarm is never false because there is one time-out at most, and it is
that of the last data (`OneTimeout`): `setTimeout` without the `clearTimeout`
before it would leave two.

`ChartCanvas_proofs`: each of the two properties is inductive with the types, and
the lemmas are about what asks for a frame, cancels one or paints. Every step that
makes the picture stale, or ages a vessel out of it, must have left something
behind that paints again: a frame, a timer of the drawer, a movement that will end or
the redraw interval.

### The history page by page (`HistoryPages_proofs`)

| theorem | statement |
|---|---|
| `HistoryTyped` | `Spec => []TypeOK` |
| `PagesOfAQueryFit` | `Spec => []PagesFitTogether` |

A `Run` is a list of rows of one query below a bound, newest first, with every row of
the table between its last one and the bound (with more to come), or all of them
(without). Three lemmas carry the proof: a run stays one when rows are pruned, or
inserted from the bound on (`RunStays`); a page is a run below its cursor, or below the
first id that was free (`PageIsRun`); a run, and one of the same query below its last
row, make one (`RunsJoin`). The inductive invariant says of every request under way
that its page, once served, is a run from its cursor (`RequestsSound`), that the cursor of the list is its
last row (`ListSound`), and that each further page that is not marked stale was
asked with the query and the cursor of the list that is shown now. The last is why an
answer must outdate the others: two pages asked with one cursor cannot both be
appended. `OrderExists` shows that rows of different ids can be put in order
at all, so that `NewestFirst` picks something.

### Settings and accounts

| theorem | statement |
|---|---|
| `SettingsTyped` | `Spec => []TypeOK` |
| `SettingsReadAsSaved` | `Spec => []ReadAsSaved` |
| `ReceiversFollowSettings` | `Spec => []ReceiversFollow` |
| `UneditedDialogsKeep` | `Spec => UneditedSaveKeeps` |
| `AccountsTyped` | `Spec => []TypeOK` |
| `RegistrationsLast` | `Spec => []RegisteredForGood` |
| `SettledAccountsStay` | `Spec => SettledStays` |

`Settings_proofs`: `ReadAsSaved` is not inductive. It speaks of what a read returns, which is the
cache entry if there is one, and says nothing of the row an expiry or a restart
brings to light. `TablesFaithful` asks both places to agree with what was saved,
and `Faithful` adds the receivers, because a TCP retry reads the tables and
reloads them. A part that was saved empty is what makes both hard: the row keeps the
parts given before while the cache holds the empty one, so the invariant says of the row
that its parts are exactly what was last given. That receivers are there at all (`ReceiversLoaded`) is a
second invariant: without `serialEnabled`, or after a failed query, they may be none. The lemmas follow the code: `StoreTyped` and `StoreFaithful` are about a
save (own setting changed, the other two not, a failure changes nothing),
`FilledFaithful` about a read that fills the cache, `SavedAgrees` and
`ConnectedAgrees` about the merge by fields and about the receivers' defaults.
A dialog that is saved as it was opened changes nothing because, until somebody
saves, an open form shows what is saved (`FormsAgree`).

`Accounts_proofs`: `resetPassword` and an update save a user that they read before the hash, who may
be gone or changed by then. The invariant therefore relates what the waiting requests
hold to the tables: an id they may write has been given out (`WaitsWith`), and
AUTOINCREMENT is ahead of every id (`TablesSound`); without it an insert could
overwrite a row. A registered user stays because a setting refers to it (a foreign
key) and no step removes a setting. `SettledStays` asks, beyond types, that no two
users have the same id or number (`UniqueKeys`), so that a user's number is one thing;
then each write is either by a request that changes what was asked, or refused, or by a
reset, which writes what it read: that is the number last asked for unless the reset
is stale, and a reset that begins now reads that number (`NotStale`, `SettledByRequest`).

### How the proofs are built, and their limits

The provers have no induction over data (the library's induction theorems take an
operator). Where a fact about all numbers or all lengths was needed, it is proved by
the least counterexample: a set of numbers that is not all of `0..n` has a
least missing one, by `WFMin` and `NatLessThanWellFounded` (`UpTo`, `LeastNumber`). `KeptExists` uses it to
show that the recursion of `YoungOf` has a solution, `OrderExists` that rows can
be sorted. Definitions that pick one of several things use `CHOOSE` (`AnyOf`,
`NewestFirst`), so that the proofs rest on what every choice satisfies.

*Checked by TLC only*: liveness, because fairness and ENABLED are out of the prover's reach:
`ReconnectsForGood`, `SilentLinkNoticed`, `PortComesBack`, `TcpComesBack`,
`SavesAreSeen`, `ComesBack`, `ChartReappears`. The two runs that expect a violation are
evidence by their traces and have nothing to prove.

## 5 What the models show of the code

Two statements of documents or of the user interface are violated by what the
code does: each is a run with `expect: violation`, with its trace as the evidence.

1. `device_retry`: a reload while a port is opening leaves the path in
   `intentionallyClosedPaths`; if the next open fails, no retry is scheduled.
2. `chart_alarm`: when a connection ends, or the server is changed, the client
   cancels its two-minute time-out and leaves the reception flag up: it shows
   LIVE, and no alarm, while nothing arrives.

Behaviours that the models have (or that were met on the way) and no run
claims anything of:

- *Edge and receivers.* A report written to a half-dead socket is lost until the
  pong time-out. A reload leaves `isDeviceConnected` as it was. A port replaced while
  opening may open with no owner. A serial retry that waits in
  `SerialPort.list()` opens its port although the type has become TCP (`NoLeftovers` names
it). A port that was let go while opening still opens, and holds its path. The
  connection time-out of a replaced TCP socket schedules a retry that replaces a
  healthy connection once. While a TCP client is connecting the dialog's status
  already says connected.
- *Trails and rows.* A vessel that does not move ends up with a trail of one point,
  and `addAISHistory` extends only trails of two: it never gets a second one back. After a restart loaded points have no
  source, and rows of vessels that only an edge has heard are written back with
  this site as their last source. In central mode no receiver ever raises
  `isDeviceConnected`, so that what edges push is saved and not broadcast. The
  load at start overwrites a trail that an edge has just written. Rows of a
  failed commit are in no queue any more; while inserts fail the queue grows
  without a bound; entries of `activeSourcesByMmsi` stay for vessels that left.
- *Client.* A path that dies without a FIN (a pulled cable, a dead router) is never noticed by
  the client: its heartbeat is commented out and it sends nothing. No `close` comes and no
  reconnect; after two minutes the alarm goes up, and only an operator who changes the
  server, or reloads the page, gets it back. At page load the reception flag is down, so
  the alarm shows at once; `NoFalseAlarm` is about the change from received to not.
  `ShowsConfiguredServer` is about the live list: the list of a period
  (`allAISData`, AISPage.vue:564-571) is not emptied when the server changes.
- *Settings.* At a central site, which has no serial reception (env.const.ts:30,
  site-mode.const.ts:11, 39), a save of the communication connects receivers all the same,
  and a restart drops them. Neither of the two plain settings checks for an empty value:
  the cache returns it as empty and the row as the default.
  Saving type serial without ports, or an empty address, keeps the
  old ones in the row (setting.service.ts:176-183) and the empty ones in
  the cache: the receivers stop, and find the old ports again after an hour or a
  restart. A dialog whose GET failed shows `/dev/tty.usbserial-110`; saving it
  makes that the setting. The answer of the IP dialog's GET may overwrite what was
  typed meanwhile (AISPage.vue:811). A failed GET of the building's place writes a default into
  the browser's storage (Setting.js:260-263).
- *History.* Loading more twice before the first answer appends the page twice,
  and a further page asked for the previous vessel is appended to the list of the
  next one; a first answer of the previous vessel that comes late replaces the list of the
  next (`PagesFitTogether` leaves lists that met one of these out); until the first answer the previous list stands under the new header.
  The label "최근 1시간" (the last hour; AISPage.vue:672, 730) goes with a query that the controller
  widens to whole days (ais.controller.ts:36-40). "조회 중..." (querying) is also shown
  when no query runs. The real-time list filters by `Date.now()` in a computed
  value, which is not computed again by time alone.
- *Chart.* Frames are painted while the canvas is hidden when something asks for
  one. `isZooming` is shared: a movement that ends while the drawer slides shows the
  canvas early. A zoom button at the last level leaves `isZooming` up until the
  next movement; `setZoom` reports the view itself (ElectronicChart.vue:143), so that the
  next frame repaints. The model lets thirty seconds and the redraw pass in one step:
  how far the clock of the redraw is behind a vessel's, up to thirty seconds, and a skew
  between the clocks of server and browser are not in it.
- *Accounts.* `UserService.create` writes `nickName`, which the entity of the
  setting does not have: the user is saved, the setting refused, and the number
  is taken from then on. A server that stops between the two saves of a registration
  leaves the same; `RegisteredForGood` is about registrations that were confirmed. `resetPassword` saves the whole user as it was
  read: it undoes an update made during the hash and brings a removed user back.
  A user with a setting cannot be removed (foreign key without an action).

## 6 What is not modelled

NMEA framing and decoding, static data, WAL checkpoint and the weekly maintenance, logging and
health counters: they keep no state that a property of the system relates to. Of the two
deletes of old rows, the daily prune of the history (14 days unless
`HISTORY_RETENTION_DAYS` says otherwise, ais.service.ts:1164-1190) is `PruneAISHistory` of
`HistoryPages`; the delete after six months (lines 1250-1298) is left out: it
touches rows that no other module relates to.

Every restart in the models is that of a process: what was committed is there
afterwards. A power cut is more: with `PRAGMA synchronous = NORMAL` (app.module.ts:49, 57)
it may take the last one or two transactions, so that what `store`, `settings`
and `accounts` say of restarts does not extend to it.

 Login, tokens and the auth middleware are functions of a request;
`updateSetting` writes columns nothing here reads. Of the dialogs, only the communication
dialog's fields are modelled; the IP dialog enters as `SetIPSetting`, the
GPS dialog as `SetBuildingGPS`. CSV export, search, formats and layout are left
out. `AISList.vue` is part of no page. The radar part of the client's store is used by
no page. `main.ts`, modules, DTOs and the MQTT client are glue.

## 7 Plan

Done: the link of an edge; receivers; trails, history and broadcast; the socket,
the history and the chart of the client; settings; accounts; for each of them
the theorems of section 4, which state every safety and action property of the
passing runs.

Next:

1. `ReportChannel` gives what a central server may rely on. The theorem still
   missing between the parts is that `SaveAISData` calls of a central server are
   in the order of an edge's reports; it needs a module that composes `EdgeLink` and
   `VesselTrack`.
2. `DeviceLink` after a reload: the weaker statements that hold then (a port that
   was let go delivers nothing; a retry is missing only for a path that was closed on
   purpose), first as invariants of `device_reload`, then as theorems.
3. `VesselTrack` after a restart: how long the loaded points can keep a silent
   vessel (`Window` after the load), instead of `restarts = 0`.
4. `Broadcast`: a safety half of `SavesAreSeen` (what is unseen has a timer or a
   receiver that is away), which the prover can take.
