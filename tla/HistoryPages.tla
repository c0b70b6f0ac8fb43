---------------------------- MODULE HistoryPages ----------------------------
(***************************************************************************)
(* The history of a vessel, page by page: the query over the AISHistory    *)
(* table, in which rows are inserted and pruned meanwhile, and the page of *)
(* the web client that asks for it, in which the operator selects vessels, *)
(* sets a period and loads more while answers are under way.               *)
(*                                                                         *)
(* A request is served in one step and its answer is taken in a later one, *)
(* in any order.  Time is counted in hours; browser and server have the    *)
(* same time zone.                                                         *)
(***************************************************************************)
EXTENDS Naturals, Sequences, FiniteSets, SequencesExt

CONSTANTS
  Vessels,
  None,
  Take,          \* rows of a page
  HoursPerDay,
  Retention,     \* days that rows are kept
  StartHour,     \* first and last hour of a behaviour
  MaxHour,
  MaxRows,       \* rows inserted in a behaviour
  MaxActs,       \* acts of the operator in a behaviour
  MaxOpen        \* requests under way at a time

ASSUME HistoryAssumption ==
  /\ None \notin Vessels \union 1..MaxRows
  /\ Take \in Nat \ {0} /\ HoursPerDay \in Nat \ {0} /\ Retention \in Nat
  /\ MaxHour \in Nat /\ StartHour \in 0..MaxHour /\ MaxRows \in Nat /\ MaxActs \in Nat /\ MaxOpen \in Nat

VARIABLES
  rows, nextId,    \* the table AISHistory and its AUTOINCREMENT
  hour,
  requests,        \* under way, oldest first; "page" is None until it is served
  acts,            \* of the operator so far
  selectedMMSI, periodActive,
  dates,           \* startDate and endDate, or None
  lastFetchArgs,
  aisDateData, aisDateNextCursor, aisDateHasNext,
  shown            \* history: the query the list answers, the first id that was
                   \* free then, and whether a page came for another list

serverVars == <<rows, nextId, hour>>
listVars == <<aisDateData, aisDateNextCursor, aisDateHasNext, shown>>
choiceVars == <<selectedMMSI, periodActive, dates>>
vars == <<serverVars, requests, acts, choiceVars, lastFetchArgs, listVars>>

Days == 0..(MaxHour \div HoursPerDay)
Day(h) == h \div HoursPerDay
FirstHour(d) == d * HoursPerDay
LastHour(d) == (d + 1) * HoursPerDay - 1

Rows == [id : 1..MaxRows, mmsi : Vessels, at : 0..MaxHour]
Args == [mmsi : Vessels, from : Nat, to : Nat]
NothingShown == [args |-> None, upTo |-> 0, tangled |-> FALSE]

----------------------------------------------------------------------------
(* The server. *)

\* The controller widens the range to whole days.
Matches(r, args) ==
  /\ r.mmsi = args.mmsi
  /\ FirstHour(Day(args.from)) <= r.at /\ r.at <= LastHour(Day(args.to))

\* By falling id, each once.
NewestFirst(set) ==
  CHOOSE s \in [1..Cardinality(set) -> set] :
    ToSet(s) = set /\ \A i, j \in DOMAIN s : i < j => s[i].id > s[j].id

Found(args, cursor) ==
  NewestFirst({r \in rows : Matches(r, args) /\ (cursor # None => r.id < cursor)})

\* Mutant: one row is fetched for a look at what follows, and not kept.
PageSkips(args, cursor) ==
  LET found == Found(args, cursor)
      hasNext == Len(found) > Take
  IN  [items |-> SubSeq(found, 1, IF hasNext THEN Take ELSE Len(found)), hasNext |-> hasNext,
       nextCursor |-> IF hasNext THEN found[Take + 1].id ELSE None, upTo |-> nextId]

\* findAISHistoryByDateRange: one row more than the page tells if there is a
\* next one.  "upTo" is history: rows from that id on are younger.
Page(args, cursor) ==
  LET found == Found(args, cursor)
      hasNext == Len(found) > Take
      items == SubSeq(found, 1, IF hasNext THEN Take ELSE Len(found))
  IN  [items |-> items, hasNext |-> hasNext,
       nextCursor |-> IF hasNext THEN Last(items).id ELSE None, upTo |-> nextId]

Serve(i) ==
  /\ requests[i].page = None
  /\ requests' = [requests EXCEPT ![i].page = Page(requests[i].args, requests[i].cursor)]
  /\ UNCHANGED <<serverVars, acts, choiceVars, lastFetchArgs, listVars>>

\* The one-minute job stores a row.
InsertRow(m) ==
  /\ nextId <= MaxRows
  /\ rows' = rows \union {[id |-> nextId, mmsi |-> m, at |-> hour]}
  /\ nextId' = nextId + 1
  /\ UNCHANGED <<hour, requests, acts, choiceVars, lastFetchArgs, listVars>>

PruneAISHistory ==
  /\ rows' = {r \in rows : r.at + Retention * HoursPerDay >= hour}
  /\ rows' # rows
  /\ UNCHANGED <<nextId, hour, requests, acts, choiceVars, lastFetchArgs, listVars>>

Hour ==
  /\ hour < MaxHour
  /\ hour' = hour + 1
  /\ UNCHANGED <<rows, nextId, requests, acts, choiceVars, lastFetchArgs, listVars>>

----------------------------------------------------------------------------
(* The client. *)

Act == acts < MaxActs /\ acts' = acts + 1

\* The further pages under way were asked for a list that changes now.
Outdated(open) ==
  [i \in DOMAIN open |-> [open[i] EXCEPT !.stale = (open[i].kind = "more")]]

\* setAISDateData([]): cursor and hasNext stay as they were.
ClearList ==
  /\ aisDateData' = <<>> /\ shown' = NothingShown
  /\ requests' = Outdated(requests)
  /\ UNCHANGED <<aisDateNextCursor, aisDateHasNext>>

Request(kind, args, cursor) ==
  [kind |-> kind, args |-> args, cursor |-> cursor, stale |-> args # shown.args, page |-> None]

Send(new) ==
  /\ Len(requests) + Len(new) <= MaxOpen
  /\ requests' = requests \o new

\* What fetchTrackData asks for: the chosen days, or the last hour.
FetchArgs(m) ==
  IF dates # None
  THEN [mmsi |-> m, from |-> FirstHour(dates[1]), to |-> LastHour(dates[2])]
  ELSE [mmsi |-> m, from |-> IF hour = 0 THEN 0 ELSE hour - 1, to |-> hour]

\* The same query goes out n times: a vessel that is on the chart reports its
\* selection by itself as well.
FetchTrackData(m, n) ==
  /\ lastFetchArgs' = FetchArgs(m)
  /\ Send([i \in 1..n |-> Request("first", FetchArgs(m), None)])

\* A click on a vessel, in the list or on the chart; in period mode it asks.
SelectShip(m, n) ==
  /\ Act
  /\ selectedMMSI # m /\ selectedMMSI' = m
  /\ IF periodActive THEN FetchTrackData(m, n)
     ELSE n = 1 /\ UNCHANGED <<requests, lastFetchArgs>>
  /\ UNCHANGED <<serverVars, listVars, periodActive, dates>>

\* A click on the vessel that is selected.
DeselectShip ==
  /\ Act
  /\ selectedMMSI # None /\ selectedMMSI' = None
  /\ ClearList
  /\ UNCHANGED <<serverVars, lastFetchArgs, periodActive, dates>>

\* The button for a new query, in either mode, and that of the date panel.
Refetch ==
  /\ Act
  /\ selectedMMSI # None
  /\ FetchTrackData(selectedMMSI, 1)
  /\ UNCHANGED <<serverVars, choiceVars, listVars>>

TogglePeriod ==
  /\ Act
  /\ periodActive' = ~periodActive
  /\ dates' = IF periodActive THEN None ELSE dates
  /\ ClearList
  /\ UNCHANGED <<serverVars, selectedMMSI, lastFetchArgs>>

\* The fields of the date panel, and its presets; nothing is asked yet.
SetDates(first, last) ==
  /\ Act
  /\ periodActive
  /\ dates' = <<first, last>>
  /\ UNCHANGED <<serverVars, requests, selectedMMSI, periodActive, lastFetchArgs, listVars>>

ClearDateFilter ==
  /\ Act
  /\ periodActive /\ dates' = None
  /\ ClearList
  /\ UNCHANGED <<serverVars, selectedMMSI, periodActive, lastFetchArgs>>

\* The button is there with a vessel, a list and more to come.
LoadMoreHistory ==
  /\ Act
  /\ selectedMMSI # None /\ aisDateData # <<>> /\ aisDateHasNext /\ lastFetchArgs # None
  /\ Send(<<Request("more", lastFetchArgs, aisDateNextCursor)>>)
  /\ UNCHANGED <<serverVars, choiceVars, lastFetchArgs, listVars>>

\* Mutant: the cursor of the page before is kept.
TakeCursorOnce(q) == IF q.kind = "first" THEN q.page.nextCursor ELSE aisDateNextCursor

TakeCursor(q) == q.page.nextCursor

\* getAISDataBetweenDate sets the list, loadMoreAISHistory appends to it.
Answer(i) ==
  LET q == requests[i] IN
  /\ q.page # None
  /\ requests' = Outdated(RemoveAt(requests, i))
  /\ aisDateNextCursor' = TakeCursor(q) /\ aisDateHasNext' = q.page.hasNext
  /\ \/ /\ q.kind = "first"
        /\ aisDateData' = q.page.items
        /\ shown' = [args |-> q.args, upTo |-> q.page.upTo, tangled |-> FALSE]
     \/ /\ q.kind = "more"
        /\ aisDateData' = aisDateData \o q.page.items
        /\ shown' = [shown EXCEPT !.tangled = @ \/ q.stale]
  /\ UNCHANGED <<serverVars, acts, choiceVars, lastFetchArgs>>

\* Ten seconds without an answer, or an error: nothing but a log line.
RequestFails(i) ==
  /\ requests' = RemoveAt(requests, i)
  /\ UNCHANGED <<serverVars, acts, choiceVars, lastFetchArgs, listVars>>

----------------------------------------------------------------------------

Init ==
  /\ rows = {} /\ nextId = 1 /\ hour = StartHour
  /\ requests = <<>> /\ acts = 0
  /\ selectedMMSI = None /\ periodActive = FALSE /\ dates = None /\ lastFetchArgs = None
  /\ aisDateData = <<>> /\ aisDateNextCursor = None /\ aisDateHasNext = FALSE
  /\ shown = NothingShown

Next ==
  \/ \E m \in Vessels : InsertRow(m) \/ \E n \in 1..2 : SelectShip(m, n)
  \/ PruneAISHistory \/ Hour
  \/ DeselectShip \/ Refetch \/ TogglePeriod \/ ClearDateFilter \/ LoadMoreHistory
  \/ \E d, e \in Days : SetDates(d, e)
  \/ \E i \in DOMAIN requests : Serve(i) \/ Answer(i) \/ RequestFails(i)

Spec == Init /\ [][Next]_vars

----------------------------------------------------------------------------
(* Properties. *)

\* Every variable keeps its type.
TypeOK ==
  /\ rows \subseteq Rows /\ nextId \in 1..(MaxRows + 1) /\ hour \in 0..MaxHour
  /\ \A q \in ToSet(requests) :
       /\ q.kind \in {"first", "more"} /\ q.args \in Args /\ q.stale \in BOOLEAN
       /\ q.cursor \in {None} \union 1..MaxRows
       /\ q.page # None => q.page.nextCursor \in {None} \union 1..MaxRows
  /\ acts \in 0..MaxActs /\ Len(requests) <= MaxOpen
  /\ selectedMMSI \in Vessels \union {None} /\ periodActive \in BOOLEAN
  /\ dates \in {None} \union (Days \X Days) /\ lastFetchArgs \in {None} \union Args
  /\ aisDateData \in Seq(Rows)
  /\ aisDateNextCursor \in {None} \union 1..MaxRows
  /\ aisDateHasNext = (aisDateNextCursor # None)

\* The rows the query of the list should have found, as far as they still
\* exist.
Expected == {r \in rows : Matches(r, shown.args) /\ r.id < shown.upTo}
Untangled == shown.args # None /\ ~shown.tangled

\* As long as each further page was asked for the list it is appended to, the
\* list is one run of rows of one query, newest first: no row twice, none left
\* out, whatever was inserted or pruned between the pages.  When the page says
\* that everything has been loaded, it has.
PagesFitTogether ==
  Untangled =>
    /\ \A i \in DOMAIN aisDateData :
         /\ Matches(aisDateData[i], shown.args)
         /\ \A j \in DOMAIN aisDateData : i < j => aisDateData[i].id > aisDateData[j].id
    /\ aisDateData # <<>> =>
         \A r \in Expected : r.id >= Last(aisDateData).id => r \in ToSet(aisDateData)
    /\ ~aisDateHasNext => Expected \subseteq ToSet(aisDateData)
=============================================================================
