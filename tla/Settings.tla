------------------------------ MODULE Settings ------------------------------
(***************************************************************************)
(* The settings of a site: one row of the table, a cache entry of an hour  *)
(* for each of three settings, the receivers that follow one of them, and  *)
(* the dialog of the web client in which operators change that one.  Only  *)
(* a site with serialEnabled (not a central one) loads receivers when it   *)
(* starts; a save reloads them at every site.                              *)
(*                                                                         *)
(* A handler is one step: its awaits (in-process cache, better-sqlite3)    *)
(* end in microtasks, between which no other request runs.  What can come  *)
(* between are whole handlers, a save that throws, an entry that expires   *)
(* and a restart.  Ports are a set: each is connected by itself.           *)
(***************************************************************************)
EXTENDS Naturals

CONSTANTS
  Paths,           \* serial ports an operator can name
  Addresses,       \* addresses of a TCP receiver
  Values,          \* values of the other two settings
  Operators,       \* web clients
  None,            \* no row, no cache entry, no receivers, no dialog
  Blank,           \* a field that is empty; of an address, or was not sent
  DefaultPort, DefaultAddress, DefaultValue,
  MaxSaves,        \* settings saved in a behaviour
  MaxFaults        \* saves and queries that fail

Comm == "aisCommunication"
Plain == {"externalApi", "aisGPS"}
Keys == Plain \union {Comm}
Configs == [type : {"serial", "tcp"}, ports : SUBSET Paths, tcp : Addresses \union {Blank}]
StoredConfigs == [type : {"serial", "tcp"}, ports : SUBSET Paths, tcp : Addresses]
PlainValues == Values \union {Blank}
Rows == [Keys -> PlainValues \union StoredConfigs]

ASSUME SettingsAssumption ==
  /\ DefaultPort \in Paths /\ DefaultAddress \in Addresses /\ DefaultValue \in Values
  /\ Blank \notin Addresses \union Values
  /\ None \notin Rows \union StoredConfigs
  /\ MaxSaves \in Nat /\ MaxFaults \in Nat

VARIABLES
  serialEnabled,  \* of the mode of the site; does not change
  row,        \* the row of the table, or None
  cache,      \* per key, the value the cache manager holds, or None
  inUse,      \* what the receivers were last connected with, or None
  form,       \* per operator, what the open dialog was filled with
  lastSaved,  \* history: per key, what was last asked for with success
  lastGiven,  \* history: the last ports and the last address that were not empty
  saves, faults

boundVars == <<saves, faults>>
savedVars == <<lastSaved, lastGiven>>
vars == <<serialEnabled, row, cache, inUse, form, savedVars, boundVars>>

Fault == faults < MaxFaults /\ faults' = faults + 1
Saving == saves < MaxSaves /\ saves' = saves + 1

----------------------------------------------------------------------------
(* The table and the cache. *)

\* The defaults of the columns, and of a read without a row.
Defaults ==
  [k \in Keys |-> IF k = Comm THEN [type |-> "serial", ports |-> {}, tcp |-> DefaultAddress]
                  ELSE DefaultValue]

Current == IF row = None THEN Defaults ELSE row

OrDefault(v, d) == IF v = Blank THEN d ELSE v

FromRow(k) == IF k = Comm THEN Current[k] ELSE OrDefault(Current[k], DefaultValue)

\* getExternalApiConfig, getAISCommunicationConfig, getAISGPS; a miss fills
\* the cache.
Get(k) == IF cache[k] = None THEN FromRow(k) ELSE cache[k]
Filled(k) == [cache EXCEPT ![k] = Get(k)]

\* Mutant: a save makes a row of its own.
StoreInNewRow(k, value, entry, ok) ==
  /\ row' = IF ok THEN [Defaults EXCEPT ![k] = value] ELSE row
  /\ cache' = IF ok THEN [cache EXCEPT ![k] = entry] ELSE cache

\* Update or create, and then the cache: a save that throws leaves both.
Store(k, value, entry, ok) ==
  /\ row' = IF ok THEN [Current EXCEPT ![k] = value] ELSE row
  /\ cache' = IF ok THEN [cache EXCEPT ![k] = entry] ELSE cache

Remember(k, value, ok) ==
  lastSaved' = IF ok THEN [lastSaved EXCEPT ![k] = value] ELSE lastSaved

\* The history of a save of the communication.
RememberComm(c, ok) ==
  /\ Remember(Comm, c, ok)
  /\ lastGiven' = IF ~ok THEN lastGiven
                  ELSE [ports |-> IF c.ports = {} THEN lastGiven.ports ELSE c.ports,
                        tcp |-> OrDefault(c.tcp, lastGiven.tcp)]

\* Mutant: a field that was not sent is stored as empty.
MergedCommEmpties(c) == c

\* Fields that were not sent keep what the row has.
MergedComm(c) ==
  [type |-> c.type,
   ports |-> IF c.ports = {} THEN Current[Comm].ports ELSE c.ports,
   tcp |-> OrDefault(c.tcp, Current[Comm].tcp)]

\* The receivers take defaults for what is missing.
Connected(c) == [c EXCEPT !.tcp = OrDefault(@, DefaultAddress)]

\* Mutant: the receivers reload before the new setting is in the cache.
ReloadedEarly(c) == Connected(Get(Comm))

\* reloadCommunicationConfig reads the setting anew, from the cache just set.
Reloaded(c) == Connected(c)

----------------------------------------------------------------------------
(* Requests. *)

SetPlain(k, v, ok) ==
  /\ Saving /\ IF ok THEN UNCHANGED faults ELSE Fault
  /\ Store(k, v, v, ok) /\ Remember(k, v, ok)
  /\ UNCHANGED <<serialEnabled, inUse, form, lastGiven>>

\* Either may be saved empty, which nothing checks: the cache then returns it
\* as it is, and the row as the default.
SetExternalApiConfig(v, ok) == SetPlain("externalApi", v, ok)
SetAISGPS(v, ok) == SetPlain("aisGPS", v, ok)

GetPlain(k) ==
  /\ cache' = Filled(k)
  /\ UNCHANGED <<serialEnabled, row, inUse, form, savedVars, boundVars>>

\* Mutant: the dialog shows the first port only, as before there were several.
FormOfFirst(c) ==
  [Connected(c) EXCEPT !.ports = IF @ = {} THEN {} ELSE {CHOOSE p \in @ : TRUE}]

\* The fields of the dialog; a client that has no answer makes one up.
FormOf(c) == Connected(c)
FallbackForm == [type |-> "serial", ports |-> {DefaultPort}, tcp |-> DefaultAddress]

\* "intact": filled by the server, and nobody has saved since.
OpenAISCommunicationDialog(o) ==
  /\ form[o] = None
  /\ cache' = Filled(Comm)
  /\ form' = [form EXCEPT ![o] = [fields |-> FormOf(Get(Comm)), intact |-> TRUE]]
  /\ UNCHANGED <<serialEnabled, row, inUse, savedVars, boundVars>>

OpenDialogWithoutAnswer(o) ==
  /\ form[o] = None /\ Fault
  /\ form' = [form EXCEPT ![o] = [fields |-> FallbackForm, intact |-> FALSE]]
  /\ UNCHANGED <<serialEnabled, row, cache, inUse, savedVars, saves>>

\* What the dialog sends: the fields of the chosen type only.
Request(f) ==
  IF f.type = "serial" THEN [f EXCEPT !.tcp = Blank] ELSE [f EXCEPT !.ports = {}]
Requests == {Request(f) : f \in Configs}

CloseDialog(o) ==
  form' = [q \in Operators |->
    IF q = o \/ form[q] = None THEN None ELSE [form[q] EXCEPT !.intact = FALSE]]

\* The operator saves c, edited or not; the dialog closes either way.
SaveAISCommunicationConfig(o, c, ok) ==
  /\ form[o] # None
  /\ Saving /\ IF ok THEN UNCHANGED faults ELSE Fault
  /\ Store(Comm, MergedComm(c), c, ok) /\ RememberComm(c, ok)
  /\ inUse' = IF ok THEN Reloaded(c) ELSE inUse
  /\ CloseDialog(o)
  /\ UNCHANGED serialEnabled

CancelDialog(o) ==
  /\ form[o] # None
  /\ form' = [form EXCEPT ![o] = None]
  /\ UNCHANGED <<serialEnabled, row, cache, inUse, savedVars, boundVars>>

----------------------------------------------------------------------------
(* The server without a request. *)

\* The retry of a TCP receiver reads the setting again.
TcpRetry ==
  /\ inUse # None /\ inUse.type = "tcp"
  /\ cache' = Filled(Comm)
  /\ inUse' = [inUse EXCEPT !.tcp = Connected(Get(Comm)).tcp]
  /\ UNCHANGED <<serialEnabled, row, form, savedVars, boundVars>>

Expire(k) ==
  /\ cache[k] # None
  /\ cache' = [cache EXCEPT ![k] = None]
  /\ UNCHANGED <<serialEnabled, row, inUse, form, savedVars, boundVars>>

\* onModuleInit loads the setting and connects, unless the site has no
\* receivers or the query throws.
Loads(ok) == serialEnabled /\ ok
CacheAtStart(ok) == [k \in Keys |-> IF k = Comm /\ Loads(ok) THEN FromRow(k) ELSE None]
ReceiversAtStart(ok) == IF Loads(ok) THEN Connected(FromRow(Comm)) ELSE None

Restart(ok) ==
  /\ IF ok THEN UNCHANGED faults ELSE serialEnabled /\ Fault
  /\ cache' = CacheAtStart(ok)
  /\ inUse' = ReceiversAtStart(ok)
  /\ UNCHANGED <<serialEnabled, row, form, savedVars, saves>>

Init ==
  /\ serialEnabled \in BOOLEAN
  /\ \/ row = None
     \/ \E api, gps \in Values, c \in StoredConfigs :
          row = [k \in Keys |->
                   CASE k = "externalApi" -> api [] k = "aisGPS" -> gps [] k = Comm -> c]
  /\ cache = CacheAtStart(TRUE)
  /\ inUse = ReceiversAtStart(TRUE)
  /\ form = [o \in Operators |-> None]
  /\ lastSaved = Current
  /\ lastGiven = [ports |-> Current[Comm].ports, tcp |-> Current[Comm].tcp]
  /\ saves = 0 /\ faults = 0

Next ==
  \/ \E k \in Plain : GetPlain(k)
  \/ \E v \in PlainValues, ok \in BOOLEAN : SetExternalApiConfig(v, ok) \/ SetAISGPS(v, ok)
  \/ \E o \in Operators :
       \/ OpenAISCommunicationDialog(o) \/ OpenDialogWithoutAnswer(o) \/ CancelDialog(o)
       \/ \E c \in Requests, ok \in BOOLEAN : SaveAISCommunicationConfig(o, c, ok)
  \/ TcpRetry
  \/ \E ok \in BOOLEAN : Restart(ok)
  \/ \E k \in Keys : Expire(k)

Spec == Init /\ [][Next]_vars

----------------------------------------------------------------------------
(* Properties. *)

\* Every variable keeps its type.
TypeOK ==
  /\ serialEnabled \in BOOLEAN
  /\ row \in Rows \union {None}
  /\ Current[Comm] \in StoredConfigs /\ \A k \in Plain : Current[k] \in PlainValues
  /\ DOMAIN cache = Keys /\ cache[Comm] \in Configs \union {None}
  /\ \A k \in Plain : cache[k] \in PlainValues \union {None}
  /\ inUse \in StoredConfigs \union {None}
  /\ form \in [Operators -> {None} \union [fields : StoredConfigs, intact : BOOLEAN]]
  /\ DOMAIN lastSaved = Keys /\ lastSaved[Comm] \in Configs
  /\ \A k \in Plain : lastSaved[k] \in PlainValues
  /\ lastGiven \in [ports : SUBSET Paths, tcp : Addresses]
  /\ saves \in 0..MaxSaves /\ faults \in 0..MaxFaults

\* Configuration c is the saved one in what its type uses.  A part that was
\* saved empty may be empty, or be again what was given before it.
Agrees(c, saved, given) ==
  /\ c.type = saved.type
  /\ c.type = "serial" =>
       c.ports = saved.ports \/ (saved.ports = {} /\ c.ports = given.ports)
  /\ c.type = "tcp" =>
       c.tcp = saved.tcp \/ (saved.tcp = Blank /\ c.tcp \in {DefaultAddress, given.tcp})

AsSaved(c) == Agrees(c, lastSaved[Comm], lastGiven)

\* Whatever fails, expires or restarts, and although the three settings share
\* a row, each is read as it was last saved; what was saved empty is read as
\* empty, as the default or, in the communication, as what was given before.
ReadAsSaved ==
  /\ AsSaved(Get(Comm))
  /\ \A k \in Plain :
       Get(k) = lastSaved[k] \/ (lastSaved[k] = Blank /\ Get(k) = DefaultValue)

\* Receivers run with the communication setting that was last saved, by
\* whichever operator, through failures, retries and restarts (a part saved
\* empty as above).  There are none only at a site that starts without, or
\* once something has failed: the query at the start.
ReceiversFollow ==
  /\ inUse # None => AsSaved(inUse)
  /\ inUse = None => ~serialEnabled \/ faults > 0

\* To open the dialog and save it as it is changes nothing, unless another
\* operator has saved meanwhile or the dialog was filled without an answer.
UneditedSaveKeeps ==
  [][\A o \in Operators :
       /\ form[o] # None /\ form[o].intact
       /\ SaveAISCommunicationConfig(o, Request(form[o].fields), TRUE)
       => Agrees(Get(Comm)', lastSaved[Comm], lastGiven)]_vars
=============================================================================
