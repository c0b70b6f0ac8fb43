-------------------------- MODULE Settings_proofs --------------------------
(***************************************************************************)
(* Proofs about Settings, for every set of ports, addresses, values and    *)
(* operators, at a site of any mode: its types, that a setting is read as  *)
(* it was last saved, that the receivers run with it, and that a dialog    *)
(* saved as it was opened changes nothing.                                 *)
(***************************************************************************)
EXTENDS Settings, TLAPS

USE DEF Keys, Plain, Comm

----------------------------------------------------------------------------
(* What the operators return. *)

\* The defaults are a row, and what the row says of a setting has its type.
LEMMA DefaultsTyped ==
  /\ Defaults \in Rows /\ Defaults[Comm] \in StoredConfigs
  /\ \A k \in Plain : Defaults[k] \in PlainValues
  BY SettingsAssumption DEF Defaults, Rows, StoredConfigs, PlainValues

\* A read, with or without a cache entry, returns a configuration.
LEMMA GetTyped ==
  ASSUME TypeOK
  PROVE  /\ FromRow(Comm) \in StoredConfigs /\ Get(Comm) \in Configs
         /\ \A k \in Plain : FromRow(k) \in PlainValues /\ Get(k) \in PlainValues
<1>1. FromRow(Comm) \in StoredConfigs /\ StoredConfigs \subseteq Configs
  BY DEF TypeOK, FromRow, StoredConfigs, Configs
<1>2. \A k \in Plain : FromRow(k) \in PlainValues
  BY SettingsAssumption DEF TypeOK, FromRow, OrDefault, PlainValues
<1> QED
  BY <1>1, <1>2 DEF TypeOK, Get

\* What a missing address is replaced by makes a configuration complete.
LEMMA ConnectedTyped ==
  ASSUME NEW c \in Configs
  PROVE  Connected(c) \in StoredConfigs
  BY SettingsAssumption DEF Connected, OrDefault, Configs, StoredConfigs

\* A saved configuration, completed from the row, is complete.
LEMMA MergedCommTyped ==
  ASSUME TypeOK, NEW c \in Configs
  PROVE  MergedComm(c) \in StoredConfigs
  BY DEF TypeOK, MergedComm, OrDefault, Configs, StoredConfigs

\* The dialog sends a configuration.
LEMMA RequestsTyped == Requests \subseteq Configs
  BY DEF Requests, Request, Configs

\* A save that does not throw leaves a row with the new value, and the others
\* as they were.
LEMMA StoreWrites ==
  ASSUME TypeOK, NEW k \in Keys, NEW value, NEW entry, NEW ok \in BOOLEAN,
         value \in PlainValues \union StoredConfigs,
         Store(k, value, entry, ok)
  PROVE  /\ row' \in Rows \union {None}
         /\ Current' = IF ok THEN [Current EXCEPT ![k] = value] ELSE Current
         /\ Current \in Rows
         /\ cache' = IF ok THEN [cache EXCEPT ![k] = entry] ELSE cache
<1>1. Current \in Rows
  BY DefaultsTyped DEF TypeOK, Current
<1>2. [Current EXCEPT ![k] = value] \in Rows
  BY <1>1 DEF Rows
<1>3. [Current EXCEPT ![k] = value] # None
  BY <1>2, SettingsAssumption
<1> QED
  BY <1>1, <1>2, <1>3 DEF Store, Current, TypeOK

----------------------------------------------------------------------------
(* Types. *)

\* The part of the types that the table and the cache are about.
TablesTyped ==
  /\ row \in Rows \union {None}
  /\ Current[Comm] \in StoredConfigs /\ \A k \in Plain : Current[k] \in PlainValues
  /\ DOMAIN cache = Keys /\ cache[Comm] \in Configs \union {None}
  /\ \A k \in Plain : cache[k] \in PlainValues \union {None}
  /\ DOMAIN lastSaved = Keys /\ lastSaved[Comm] \in Configs
  /\ \A k \in Plain : lastSaved[k] \in PlainValues

Givens == [ports : SUBSET Paths, tcp : Addresses]
Forms == [Operators -> {None} \union [fields : StoredConfigs, intact : BOOLEAN]]

\* A save of either kind keeps table, cache and history typed.
LEMMA StoreTyped ==
  ASSUME TypeOK, NEW k \in Keys, NEW value, NEW entry, NEW ok \in BOOLEAN,
         k = Comm => value \in StoredConfigs /\ entry \in Configs,
         k \in Plain => value \in PlainValues /\ entry \in PlainValues,
         Store(k, value, entry, ok), Remember(k, entry, ok)
  PROVE  TablesTyped'
<1>1. /\ row' \in Rows \union {None}
      /\ Current' = IF ok THEN [Current EXCEPT ![k] = value] ELSE Current
      /\ Current \in Rows
      /\ cache' = IF ok THEN [cache EXCEPT ![k] = entry] ELSE cache
  BY StoreWrites
<1>2. Current'[Comm] \in StoredConfigs /\ \A j \in Plain : Current'[j] \in PlainValues
  BY <1>1 DEF TypeOK, Rows
<1>3. /\ DOMAIN cache' = Keys /\ cache'[Comm] \in Configs \union {None}
      /\ \A j \in Plain : cache'[j] \in PlainValues \union {None}
  BY <1>1 DEF TypeOK
<1>4. /\ DOMAIN lastSaved' = Keys /\ lastSaved'[Comm] \in Configs
      /\ \A j \in Plain : lastSaved'[j] \in PlainValues
  BY DEF TypeOK, Remember
<1> QED
  BY <1>1, <1>2, <1>3, <1>4 DEF TablesTyped

\* Filling the cache on a miss keeps it typed.
LEMMA FilledTyped ==
  ASSUME TypeOK, NEW k \in Keys, cache' = Filled(k), UNCHANGED <<row, savedVars>>
  PROVE  TablesTyped' /\ lastGiven' \in Givens
<1>1. /\ DOMAIN cache' = Keys /\ cache'[Comm] \in Configs \union {None}
      /\ \A j \in Plain : cache'[j] \in PlainValues \union {None}
  BY GetTyped DEF TypeOK, Filled
<1> QED
  BY <1>1 DEF TypeOK, TablesTyped, Current, savedVars, Givens

\* What a start finds makes a cache and receivers.
LEMMA StartTyped ==
  ASSUME FromRow(Comm) \in StoredConfigs, NEW ok \in BOOLEAN
  PROVE  /\ DOMAIN CacheAtStart(ok) = Keys
         /\ CacheAtStart(ok)[Comm] \in Configs \union {None}
         /\ \A k \in Plain : CacheAtStart(ok)[k] = None
         /\ ReceiversAtStart(ok) \in StoredConfigs \union {None}
<1>1. FromRow(Comm) \in Configs
  BY DEF StoredConfigs, Configs
<1>2. Connected(FromRow(Comm)) \in StoredConfigs
  BY <1>1, ConnectedTyped
<1> QED
  BY <1>1, <1>2 DEF CacheAtStart, ReceiversAtStart

\* The two settings beside the communication are saved alike.
LEMMA PlainSaves ==
  ASSUME NEW v, NEW ok, SetExternalApiConfig(v, ok) \/ SetAISGPS(v, ok)
  PROVE  \E k \in Plain : SetPlain(k, v, ok)
<1>1. CASE SetExternalApiConfig(v, ok)
  BY <1>1 DEF SetExternalApiConfig, Plain
<1>2. CASE SetAISGPS(v, ok)
  BY <1>2 DEF SetAISGPS, Plain
<1> QED
  BY <1>1, <1>2

\* Every request, failure, expiry and restart keeps the types.
THEOREM SettingsTyped == Spec => []TypeOK
<1>1. ASSUME Init PROVE TypeOK
  <2>1. /\ row \in Rows \union {None}
        /\ Current[Comm] \in StoredConfigs /\ \A k \in Plain : Current[k] \in PlainValues
    <3>1. CASE row = None
      BY <3>1, DefaultsTyped DEF Current
    <3>2. CASE row # None
      <4>1. PICK api \in Values, gps \in Values, c \in StoredConfigs :
              row = [k \in Keys |->
                       CASE k = "externalApi" -> api [] k = "aisGPS" -> gps [] k = Comm -> c]
        BY <1>1, <3>2 DEF Init
      <4>2. row["externalApi"] = api /\ row["aisGPS"] = gps /\ row[Comm] = c
        BY <4>1
      <4>3. row \in Rows
        BY <4>1, <4>2 DEF Rows, PlainValues
      <4> QED
        BY <3>2, <4>2, <4>3 DEF Current, PlainValues
    <3> QED
      BY <3>1, <3>2
  <2>2. Current \in Rows
    BY <2>1, DefaultsTyped DEF Current
  <2>3. FromRow(Comm) \in StoredConfigs
    BY <2>1 DEF FromRow
  <2>4. /\ inUse \in StoredConfigs \union {None}
        /\ DOMAIN cache = Keys /\ cache[Comm] \in Configs \union {None}
        /\ \A k \in Plain : cache[k] = None
    BY <1>1, <2>3, StartTyped DEF Init
  <2>5. /\ DOMAIN lastSaved = Keys /\ lastSaved[Comm] \in Configs
        /\ \A k \in Plain : lastSaved[k] \in PlainValues
    BY <1>1, <2>1, <2>2 DEF Init, Rows, StoredConfigs, Configs
  <2>6. lastGiven \in Givens
    BY <1>1, <2>1 DEF Init, Givens, StoredConfigs
  <2> QED
    <3>1. /\ serialEnabled \in BOOLEAN /\ form \in Forms
          /\ saves \in 0..MaxSaves /\ faults \in 0..MaxFaults
      BY <1>1, SettingsAssumption DEF Init, Forms
    <3>2. \A k \in Plain : cache[k] \in PlainValues \union {None}
      BY <2>4
    <3> QED
      BY <2>1, <2>4, <2>5, <2>6, <3>1, <3>2 DEF TypeOK, Givens, Forms
<1>2. ASSUME TypeOK, [Next]_vars PROVE TypeOK'
  <2> USE <1>2
  <2>1. ASSUME NEW k \in Plain, GetPlain(k) PROVE TypeOK'
    BY <2>1, FilledTyped DEF GetPlain, boundVars, TypeOK, TablesTyped, Givens
  <2>2. ASSUME NEW k \in Plain, NEW v \in PlainValues, NEW ok \in BOOLEAN, SetPlain(k, v, ok)
        PROVE  TypeOK'
    <3>1. TablesTyped'
      BY <2>2, StoreTyped DEF SetPlain
    <3>2. saves' \in 0..MaxSaves /\ faults' \in 0..MaxFaults
      BY <2>2, SettingsAssumption DEF SetPlain, Saving, Fault, TypeOK
    <3> QED
      BY <2>2, <3>1, <3>2 DEF SetPlain, TypeOK, TablesTyped
  <2>3. ASSUME NEW o \in Operators, OpenAISCommunicationDialog(o) PROVE TypeOK'
    <3>1. TablesTyped' /\ lastGiven' \in Givens
      BY <2>3, FilledTyped DEF OpenAISCommunicationDialog
    <3>2. form' \in Forms
      BY <2>3, GetTyped, ConnectedTyped DEF OpenAISCommunicationDialog, FormOf, Forms, TypeOK
    <3> QED
      BY <2>3, <3>1, <3>2 DEF OpenAISCommunicationDialog, TypeOK, TablesTyped, Forms, Givens, boundVars
  <2>4. ASSUME NEW o \in Operators, OpenDialogWithoutAnswer(o) PROVE TypeOK'
    <3>1. FallbackForm \in StoredConfigs
      BY SettingsAssumption DEF FallbackForm, StoredConfigs
    <3>2. form' \in Forms
      BY <2>4, <3>1 DEF OpenDialogWithoutAnswer, Forms, TypeOK
    <3>3. faults' \in 0..MaxFaults
      BY <2>4, SettingsAssumption DEF OpenDialogWithoutAnswer, Fault, TypeOK
    <3> QED
      BY <2>4, <3>2, <3>3 DEF OpenDialogWithoutAnswer, TypeOK, Forms, Current, savedVars
  <2>5. ASSUME NEW o \in Operators, CancelDialog(o) PROVE TypeOK'
    <3>1. form' \in Forms
      BY <2>5 DEF CancelDialog, Forms, TypeOK
    <3> QED
      BY <2>5, <3>1 DEF CancelDialog, TypeOK, Forms, Current, savedVars, boundVars
  <2>6. ASSUME NEW o \in Operators, NEW c \in Requests, NEW ok \in BOOLEAN,
               SaveAISCommunicationConfig(o, c, ok)
        PROVE  TypeOK'
    <3>1. c \in Configs /\ MergedComm(c) \in StoredConfigs /\ Connected(c) \in StoredConfigs
      BY RequestsTyped, MergedCommTyped, ConnectedTyped
    <3>2. TablesTyped'
      BY <2>6, <3>1, StoreTyped DEF SaveAISCommunicationConfig, RememberComm
    <3>3. inUse' \in StoredConfigs \union {None}
      BY <2>6, <3>1 DEF SaveAISCommunicationConfig, Reloaded, TypeOK
    <3>4. form' \in Forms
      <4>1. form' = [q \in Operators |-> IF q = o \/ form[q] = None THEN None
                                        ELSE [form[q] EXCEPT !.intact = FALSE]]
        BY <2>6 DEF SaveAISCommunicationConfig, CloseDialog
      <4>2. ASSUME NEW q \in Operators, form[q] # None
            PROVE  [form[q] EXCEPT !.intact = FALSE] \in [fields : StoredConfigs, intact : BOOLEAN]
        <5>1. form[q] \in [fields : StoredConfigs, intact : BOOLEAN]
          BY <4>2 DEF TypeOK
        <5> QED
          BY <5>1
      <4> QED
        BY <4>1, <4>2 DEF Forms
    <3>5. saves' \in 0..MaxSaves /\ faults' \in 0..MaxFaults
      BY <2>6, SettingsAssumption DEF SaveAISCommunicationConfig, Saving, Fault, TypeOK
    <3>6. lastGiven' \in Givens
      BY <2>6, <3>1 DEF SaveAISCommunicationConfig, RememberComm, OrDefault, TypeOK, Givens, Configs
    <3>7. serialEnabled' \in BOOLEAN
      BY <2>6 DEF SaveAISCommunicationConfig, TypeOK
    <3> QED
      BY <3>2, <3>3, <3>4, <3>5, <3>6, <3>7 DEF TypeOK, TablesTyped, Forms, Givens
  <2>7. ASSUME TcpRetry PROVE TypeOK'
    <3>1. TablesTyped' /\ lastGiven' \in Givens
      BY <2>7, FilledTyped DEF TcpRetry
    <3>2. inUse' \in StoredConfigs
      BY <2>7, GetTyped, ConnectedTyped DEF TcpRetry, TypeOK, StoredConfigs
    <3> QED
      BY <2>7, <3>1, <3>2 DEF TcpRetry, TypeOK, TablesTyped, Givens, boundVars
  <2>8. ASSUME NEW ok \in BOOLEAN, Restart(ok) PROVE TypeOK'
    <3>1. /\ DOMAIN cache' = Keys /\ cache'[Comm] \in Configs \union {None}
          /\ \A k \in Plain : cache'[k] \in PlainValues \union {None}
          /\ inUse' \in StoredConfigs \union {None}
      BY <2>8, GetTyped, StartTyped DEF Restart
    <3>2. faults' \in 0..MaxFaults
      BY <2>8, SettingsAssumption DEF Restart, Fault, TypeOK
    <3> QED
      BY <2>8, <3>1, <3>2 DEF Restart, TypeOK, Current, savedVars
  <2>9. ASSUME NEW k \in Keys, Expire(k) PROVE TypeOK'
    BY <2>9 DEF Expire, TypeOK, Current, savedVars, boundVars
  <2>10. CASE UNCHANGED vars
    BY <2>10 DEF vars, savedVars, boundVars, TypeOK, Current
  <2>11. ASSUME NEW v \in PlainValues, NEW ok \in BOOLEAN,
               SetExternalApiConfig(v, ok) \/ SetAISGPS(v, ok)
         PROVE  TypeOK'
    BY <2>2, <2>11, PlainSaves
  <2> QED
    BY <2>1, <2>3, <2>4, <2>5, <2>6, <2>7, <2>8, <2>9, <2>10, <2>11 DEF Next
<1> QED
  BY <1>1, <1>2, PTL DEF Spec

----------------------------------------------------------------------------
(* Values. *)

\* Neither the row nor an entry of the cache contradicts what was last saved,
\* and the row keeps what was last given.  A read takes whichever is there, so
\* both are needed.
TablesFaithful ==
  /\ Current[Comm].ports = lastGiven.ports /\ Current[Comm].tcp = lastGiven.tcp
  /\ AsSaved(FromRow(Comm))
  /\ cache[Comm] # None => AsSaved(cache[Comm])
  /\ \A k \in Plain :
       /\ Current[k] = lastSaved[k]
       /\ cache[k] # None =>
            cache[k] = lastSaved[k] \/ (lastSaved[k] = Blank /\ cache[k] = DefaultValue)

ReceiversAgree == inUse # None => AsSaved(inUse)
ReceiversLoaded == inUse = None => ~serialEnabled \/ faults > 0

Faithful == TablesFaithful /\ ReceiversAgree

\* The invariant is about the two places a read may come from.
LEMMA FaithfulReads ==
  ASSUME TablesFaithful
  PROVE  ReadAsSaved
<1>1. AsSaved(Get(Comm))
  BY DEF TablesFaithful, Get
<1>2. \A k \in Plain :
        Get(k) = lastSaved[k] \/ (lastSaved[k] = Blank /\ Get(k) = DefaultValue)
  BY DEF TablesFaithful, Get, FromRow, OrDefault
<1> QED
  BY <1>1, <1>2 DEF ReadAsSaved

\* Where neither the row nor the history changes, only the cache has to be
\* looked at.
LEMMA CacheFaithful ==
  ASSUME TablesFaithful, UNCHANGED <<row, savedVars>>,
         cache'[Comm] # None => AsSaved(cache'[Comm]),
         \A k \in Plain : cache'[k] # None =>
           cache'[k] = lastSaved[k] \/ (lastSaved[k] = Blank /\ cache'[k] = DefaultValue)
  PROVE  TablesFaithful'
<1>1. Current' = Current /\ FromRow(Comm)' = FromRow(Comm)
  BY DEF Current, FromRow, savedVars
<1>2. lastSaved' = lastSaved /\ lastGiven' = lastGiven
  BY DEF savedVars
<1> QED
  BY <1>1, <1>2 DEF TablesFaithful, AsSaved

\* A read that fills the cache leaves both places as they should be.
LEMMA FilledFaithful ==
  ASSUME TypeOK, TablesFaithful, NEW k \in Keys, cache' = Filled(k), UNCHANGED <<row, savedVars>>
  PROVE  TablesFaithful'
<1>1. \A j \in Keys : cache'[j] = IF j = k THEN Get(k) ELSE cache[j]
  BY DEF TypeOK, Filled
<1>2. /\ AsSaved(Get(Comm))
      /\ \A j \in Plain :
           Get(j) = lastSaved[j] \/ (lastSaved[j] = Blank /\ Get(j) = DefaultValue)
  BY FaithfulReads DEF ReadAsSaved
<1>3. cache'[Comm] # None => AsSaved(cache'[Comm])
  BY <1>1, <1>2 DEF TablesFaithful
<1>4. \A j \in Plain : cache'[j] # None =>
        cache'[j] = lastSaved[j] \/ (lastSaved[j] = Blank /\ cache'[j] = DefaultValue)
  BY <1>1, <1>2 DEF TablesFaithful
<1> QED
  BY <1>3, <1>4, CacheFaithful

\* What is saved of a communication setting, and what the receivers make of
\* it, is what was asked for, or what was given before.
LEMMA SavedAgrees ==
  ASSUME TypeOK, TablesFaithful, NEW c \in Configs, RememberComm(c, TRUE)
  PROVE  /\ lastSaved'[Comm] = c
         /\ Agrees(MergedComm(c), c, lastGiven') /\ Agrees(c, c, lastGiven')
         /\ Agrees(Connected(c), c, lastGiven')
         /\ MergedComm(c).ports = lastGiven'.ports /\ MergedComm(c).tcp = lastGiven'.tcp
<1>1. lastSaved'[Comm] = c
  BY DEF RememberComm, Remember, TypeOK
<1>2. MergedComm(c).ports = lastGiven'.ports /\ MergedComm(c).tcp = lastGiven'.tcp
  BY DEF RememberComm, MergedComm, TablesFaithful
<1>3. Agrees(MergedComm(c), c, lastGiven')
  BY <1>2 DEF Agrees, MergedComm, OrDefault, Configs
<1>4. Agrees(c, c, lastGiven') /\ Agrees(Connected(c), c, lastGiven')
  BY DEF Agrees, Connected, OrDefault, Configs
<1> QED
  BY <1>1, <1>2, <1>3, <1>4

\* Agreement carries over to what the receivers make of a configuration.
LEMMA ConnectedAgrees ==
  ASSUME NEW c \in Configs, NEW saved \in Configs, NEW given, Agrees(c, saved, given)
  PROVE  Agrees(Connected(c), saved, given)
  BY DEF Agrees, Connected, OrDefault, Configs

\* A save that throws changes nothing.
LEMMA FailedSave ==
  ASSUME TypeOK, TablesFaithful, NEW k \in Keys, NEW value, NEW entry,
         Store(k, value, entry, FALSE), UNCHANGED savedVars
  PROVE  TablesFaithful'
<1>1. row' = row /\ cache' = cache
  BY DEF Store
<1> QED
  BY <1>1, CacheFaithful DEF TablesFaithful

\* A save of the communication writes it into both places, and no other.
LEMMA CommStored ==
  ASSUME TypeOK, TablesFaithful, NEW c \in Configs,
         Store(Comm, MergedComm(c), c, TRUE), RememberComm(c, TRUE)
  PROVE  TablesFaithful'
<1>1. /\ Current' = [Current EXCEPT ![Comm] = MergedComm(c)] /\ Current \in Rows
      /\ cache' = [cache EXCEPT ![Comm] = c]
  <2>1. MergedComm(c) \in StoredConfigs
    BY MergedCommTyped
  <2>2. ASSUME NEW ok \in BOOLEAN, Store(Comm, MergedComm(c), c, ok)
        PROVE  /\ Current' = IF ok THEN [Current EXCEPT ![Comm] = MergedComm(c)] ELSE Current
               /\ Current \in Rows
               /\ cache' = IF ok THEN [cache EXCEPT ![Comm] = c] ELSE cache
    BY <2>1, <2>2, StoreWrites
  <2> QED
    BY <2>2
<1>2. /\ Current'[Comm] = MergedComm(c) /\ FromRow(Comm)' = MergedComm(c)
      /\ \A k \in Plain : Current'[k] = Current[k]
  BY <1>1 DEF Rows, FromRow
<1>3. cache'[Comm] = c /\ \A k \in Plain : cache'[k] = cache[k]
  BY <1>1 DEF TypeOK
<1>4. \A k \in Plain : lastSaved'[k] = lastSaved[k]
  BY DEF RememberComm, Remember, TypeOK
<1>5. /\ lastSaved'[Comm] = c
      /\ Agrees(MergedComm(c), c, lastGiven') /\ Agrees(c, c, lastGiven')
      /\ MergedComm(c).ports = lastGiven'.ports /\ MergedComm(c).tcp = lastGiven'.tcp
  BY SavedAgrees
<1>6. AsSaved(FromRow(Comm))' /\ AsSaved(cache[Comm])'
  BY <1>2, <1>3, <1>5 DEF AsSaved
<1>7. \A k \in Plain :
        /\ Current'[k] = lastSaved'[k]
        /\ cache'[k] # None =>
             cache'[k] = lastSaved'[k] \/ (lastSaved'[k] = Blank /\ cache'[k] = DefaultValue)
  BY <1>2, <1>3, <1>4 DEF TablesFaithful
<1> QED
  BY <1>2, <1>5, <1>6, <1>7 DEF TablesFaithful

\* A save of another setting writes that one into both places.
LEMMA PlainStored ==
  ASSUME TypeOK, TablesFaithful, NEW k \in Plain, NEW v \in PlainValues,
         Store(k, v, v, TRUE), Remember(k, v, TRUE), lastGiven' = lastGiven
  PROVE  TablesFaithful'
<1>1. /\ Current' = [Current EXCEPT ![k] = v] /\ Current \in Rows
      /\ cache' = [cache EXCEPT ![k] = v]
  <2>1. ASSUME NEW ok \in BOOLEAN, Store(k, v, v, ok)
        PROVE  /\ Current' = IF ok THEN [Current EXCEPT ![k] = v] ELSE Current
               /\ Current \in Rows
               /\ cache' = IF ok THEN [cache EXCEPT ![k] = v] ELSE cache
    BY <2>1, StoreWrites
  <2> QED
    BY <2>1
<1>2. \A j \in Keys : /\ Current'[j] = IF j = k THEN v ELSE Current[j]
                      /\ cache'[j] = IF j = k THEN v ELSE cache[j]
                      /\ lastSaved'[j] = IF j = k THEN v ELSE lastSaved[j]
  BY <1>1 DEF Rows, TypeOK, Remember
<1>3. /\ Current'[Comm] = Current[Comm] /\ cache'[Comm] = cache[Comm]
      /\ lastSaved'[Comm] = lastSaved[Comm] /\ FromRow(Comm)' = FromRow(Comm)
  BY <1>2 DEF FromRow
<1>4. \A j \in Plain :
        /\ Current'[j] = lastSaved'[j]
        /\ cache'[j] # None =>
             cache'[j] = lastSaved'[j] \/ (lastSaved'[j] = Blank /\ cache'[j] = DefaultValue)
  BY <1>2 DEF TablesFaithful
<1> QED
  BY <1>3, <1>4 DEF TablesFaithful, AsSaved

\* The settings are right from the start.
LEMMA FaithfulInit ==
  ASSUME Init, TypeOK
  PROVE  Faithful /\ ReceiversLoaded
<1>1. FromRow(Comm) = lastSaved[Comm] /\ lastSaved[Comm] \in Configs
  BY DEF Init, FromRow, TypeOK
<1>2. AsSaved(FromRow(Comm)) /\ AsSaved(Connected(FromRow(Comm)))
  <2>1. AsSaved(FromRow(Comm))
    BY <1>1 DEF AsSaved, Agrees
  <2> QED
    BY <1>1, <2>1, ConnectedAgrees DEF AsSaved
<1>3. /\ cache[Comm] # None => AsSaved(cache[Comm])
      /\ \A k \in Plain : cache[k] = None
      /\ inUse # None => inUse = Connected(FromRow(Comm))
  BY <1>2 DEF Init, CacheAtStart, ReceiversAtStart
<1>4. TablesFaithful
  BY <1>2, <1>3 DEF Init, TablesFaithful
<1>5. ReceiversAgree
  BY <1>2, <1>3 DEF ReceiversAgree
<1>6. ReceiversLoaded
  <2>1. Connected(FromRow(Comm)) # None
    BY GetTyped, ConnectedTyped, SettingsAssumption DEF StoredConfigs, Configs
  <2> QED
    BY <2>1 DEF Init, ReceiversLoaded, ReceiversAtStart, Loads
<1> QED
  BY <1>4, <1>5, <1>6 DEF Faithful

\* Every step keeps table, cache and receivers with what was last saved.
LEMMA FaithfulStep ==
  ASSUME TypeOK, Faithful, [Next]_vars
  PROVE  Faithful'
<1>1. TablesFaithful /\ ReceiversAgree
  BY DEF Faithful
<1>2. ASSUME TablesFaithful', inUse' = inUse, lastSaved'[Comm] = lastSaved[Comm],
             lastGiven' = lastGiven
      PROVE  Faithful'
  BY <1>1, <1>2 DEF Faithful, ReceiversAgree, AsSaved
<1>3. ASSUME NEW k \in Plain, NEW v \in PlainValues, NEW ok \in BOOLEAN, SetPlain(k, v, ok)
      PROVE  Faithful'
  <2>1. TablesFaithful'
    <3>1. CASE ok
      BY <1>1, <1>3, <3>1, PlainStored DEF SetPlain
    <3>2. CASE ~ok
      <4>1. Store(k, v, v, FALSE) /\ UNCHANGED savedVars
        BY <1>3, <3>2 DEF SetPlain, Remember, savedVars, Store
      <4> QED
        BY <1>1, <4>1, FailedSave
    <3> QED
      BY <3>1, <3>2
  <2> QED
    BY <1>2, <1>3, <2>1 DEF SetPlain, Remember, TypeOK
<1>4. ASSUME NEW k \in Plain, GetPlain(k) PROVE Faithful'
  BY <1>1, <1>2, <1>4, FilledFaithful DEF GetPlain, savedVars
<1>5. ASSUME NEW o \in Operators, OpenAISCommunicationDialog(o) PROVE Faithful'
  BY <1>1, <1>2, <1>5, FilledFaithful DEF OpenAISCommunicationDialog, savedVars
<1>6. ASSUME UNCHANGED <<row, cache, inUse, savedVars>> PROVE Faithful'
  <2>1. TablesFaithful'
    BY <1>1, <1>6, CacheFaithful DEF TablesFaithful
  <2> QED
    BY <1>2, <1>6, <2>1 DEF savedVars
<1>7. ASSUME NEW o \in Operators, OpenDialogWithoutAnswer(o) \/ CancelDialog(o) PROVE Faithful'
  BY <1>6, <1>7 DEF OpenDialogWithoutAnswer, CancelDialog
<1>8. ASSUME NEW o \in Operators, NEW c \in Requests, NEW ok \in BOOLEAN,
             SaveAISCommunicationConfig(o, c, ok)
      PROVE  Faithful'
  <2>1. c \in Configs
    BY RequestsTyped
  <2>2. CASE ok
    <3>1. Store(Comm, MergedComm(c), c, TRUE) /\ RememberComm(c, TRUE) /\ inUse' = Connected(c)
      BY <1>8, <2>2 DEF SaveAISCommunicationConfig, Reloaded
    <3>2. TablesFaithful'
      BY <1>1, <2>1, <3>1, CommStored
    <3>3. lastSaved'[Comm] = c /\ Agrees(Connected(c), c, lastGiven')
      BY <1>1, <2>1, <3>1, SavedAgrees
    <3> QED
      BY <3>1, <3>2, <3>3 DEF Faithful, ReceiversAgree, AsSaved
  <2>3. CASE ~ok
    <3>1. Store(Comm, MergedComm(c), c, FALSE) /\ UNCHANGED <<savedVars, inUse>>
      BY <1>8, <2>3 DEF SaveAISCommunicationConfig, RememberComm, Remember, savedVars, Store
    <3>2. TablesFaithful'
      BY <1>1, <3>1, FailedSave
    <3> QED
      BY <1>2, <3>1, <3>2 DEF savedVars
  <2> QED
    BY <2>2, <2>3
<1>9. ASSUME TcpRetry PROVE Faithful'
  <2>1. TablesFaithful'
    BY <1>1, <1>9, FilledFaithful DEF TcpRetry
  <2>2. AsSaved(Connected(Get(Comm))) /\ AsSaved(inUse)
    <3>1. AsSaved(Get(Comm)) /\ Get(Comm) \in Configs /\ lastSaved[Comm] \in Configs
      BY <1>1, FaithfulReads, GetTyped DEF ReadAsSaved, TypeOK
    <3> QED
      BY <1>1, <1>9, <3>1, ConnectedAgrees DEF AsSaved, TcpRetry, ReceiversAgree
  <2>3. /\ inUse'.type = "tcp" /\ inUse.type = "tcp"
        /\ inUse'.tcp = Connected(Get(Comm)).tcp
    BY <1>9 DEF TcpRetry, TypeOK, StoredConfigs
  <2>4. Connected(Get(Comm)).type = inUse.type
    BY <2>2 DEF AsSaved, Agrees
  <2>5. AsSaved(inUse')
    BY <2>2, <2>3, <2>4 DEF AsSaved, Agrees
  <2> QED
    BY <1>9, <2>1, <2>5 DEF TcpRetry, Faithful, ReceiversAgree, AsSaved, savedVars
<1>10. ASSUME NEW ok \in BOOLEAN, Restart(ok) PROVE Faithful'
  <2>1. /\ cache'[Comm] # None => cache'[Comm] = FromRow(Comm)
        /\ \A k \in Plain : cache'[k] = None
        /\ inUse' # None => inUse' = Connected(FromRow(Comm))
        /\ UNCHANGED <<row, savedVars>>
    BY <1>10 DEF Restart, CacheAtStart, ReceiversAtStart
  <2>2. TablesFaithful'
    <3>1. cache'[Comm] # None => AsSaved(cache'[Comm])
      BY <1>1, <2>1 DEF TablesFaithful
    <3> QED
      BY <1>1, <2>1, <3>1, CacheFaithful
  <2>3. AsSaved(Connected(FromRow(Comm)))
    BY <1>1, GetTyped, ConnectedAgrees
    DEF TablesFaithful, AsSaved, TypeOK, StoredConfigs, Configs
  <2> QED
    BY <2>1, <2>2, <2>3 DEF Faithful, ReceiversAgree, AsSaved, savedVars
<1>11. ASSUME NEW k \in Keys, Expire(k) PROVE Faithful'
  <2>1. /\ \A j \in Keys : cache'[j] = IF j = k THEN None ELSE cache[j]
        /\ UNCHANGED <<row, savedVars, inUse>>
    BY <1>11 DEF Expire, TypeOK
  <2>2. TablesFaithful'
    BY <1>1, <2>1, CacheFaithful DEF TablesFaithful
  <2> QED
    BY <1>2, <2>1, <2>2 DEF savedVars
<1>12. CASE UNCHANGED vars
  BY <1>6, <1>12 DEF vars
<1>13. ASSUME NEW v \in PlainValues, NEW ok \in BOOLEAN,
              SetExternalApiConfig(v, ok) \/ SetAISGPS(v, ok)
       PROVE  Faithful'
  BY <1>3, <1>13, PlainSaves
<1> QED
  BY <1>4, <1>5, <1>7, <1>8, <1>9, <1>10, <1>11, <1>12, <1>13 DEF Next

\* A step leaves no receivers only at a site without, or when it fails.
LEMMA LoadedStep ==
  ASSUME TypeOK, ReceiversLoaded, [Next]_vars
  PROVE  ReceiversLoaded'
<1>1. faults \in Nat
  BY SettingsAssumption DEF TypeOK
<1>2. ASSUME serialEnabled' = serialEnabled,
             faults' = faults \/ faults' = faults + 1,
             inUse' = None => inUse = None \/ ~serialEnabled \/ faults' = faults + 1
      PROVE  ReceiversLoaded'
  BY <1>1, <1>2 DEF ReceiversLoaded
<1>3. ASSUME NEW o \in Operators, NEW c \in Requests, NEW ok \in BOOLEAN,
             SaveAISCommunicationConfig(o, c, ok)
      PROVE  ReceiversLoaded'
  <2>1. Connected(c) # None
    BY RequestsTyped, ConnectedTyped, SettingsAssumption
  <2>2. inUse' = None => inUse = None
    BY <1>3, <2>1 DEF SaveAISCommunicationConfig, Reloaded
  <2> QED
    BY <1>2, <1>3, <2>2 DEF SaveAISCommunicationConfig, Fault
<1>4. ASSUME TcpRetry PROVE ReceiversLoaded'
  <2>1. inUse' # None
    <3>1. inUse \in StoredConfigs /\ Connected(Get(Comm)).tcp \in Addresses
      BY <1>4, GetTyped, ConnectedTyped DEF TcpRetry, TypeOK, StoredConfigs
    <3>2. inUse' \in StoredConfigs
      BY <1>4, <3>1 DEF TcpRetry, StoredConfigs
    <3> QED
      BY <3>2, SettingsAssumption
  <2> QED
    BY <1>2, <1>4, <2>1 DEF TcpRetry, boundVars
<1>5. ASSUME NEW ok \in BOOLEAN, Restart(ok) PROVE ReceiversLoaded'
  <2>1. Connected(FromRow(Comm)) # None
    BY GetTyped, ConnectedTyped, SettingsAssumption DEF StoredConfigs, Configs
  <2> QED
    BY <1>2, <1>5, <2>1 DEF Restart, ReceiversAtStart, Loads, Fault
<1>6. ASSUME inUse' = inUse, serialEnabled' = serialEnabled, faults' = faults \/ Fault
      PROVE  ReceiversLoaded'
  BY <1>2, <1>6 DEF Fault
<1>7. ASSUME NEW v \in PlainValues, NEW ok \in BOOLEAN,
             SetExternalApiConfig(v, ok) \/ SetAISGPS(v, ok)
      PROVE  ReceiversLoaded'
  BY <1>6, <1>7, PlainSaves DEF SetPlain
<1>8. ASSUME NEW k \in Keys, (k \in Plain /\ GetPlain(k)) \/ Expire(k) PROVE ReceiversLoaded'
  BY <1>6, <1>8 DEF GetPlain, Expire, boundVars
<1>9. ASSUME NEW o \in Operators,
             OpenAISCommunicationDialog(o) \/ OpenDialogWithoutAnswer(o) \/ CancelDialog(o)
      PROVE  ReceiversLoaded'
  BY <1>6, <1>9 DEF OpenAISCommunicationDialog, OpenDialogWithoutAnswer, CancelDialog, boundVars
<1>10. CASE UNCHANGED vars
  BY <1>6, <1>10 DEF vars, boundVars
<1> QED
  BY <1>3, <1>4, <1>5, <1>7, <1>8, <1>9, <1>10 DEF Next

\* Table, cache and receivers always agree with what was last saved.
LEMMA AlwaysFaithful == Spec => [](Faithful /\ ReceiversLoaded)
<1>1. Init /\ TypeOK => Faithful /\ ReceiversLoaded
  BY FaithfulInit
<1>2. TypeOK /\ Faithful /\ ReceiversLoaded /\ [Next]_vars => Faithful' /\ ReceiversLoaded'
  BY FaithfulStep, LoadedStep
<1> QED
  BY <1>1, <1>2, SettingsTyped, PTL DEF Spec

\* Whatever fails, expires or restarts, a setting is read as it was last saved.
THEOREM SettingsReadAsSaved == Spec => []ReadAsSaved
<1>1. Faithful => ReadAsSaved
  BY FaithfulReads DEF Faithful
<1> QED
  BY <1>1, AlwaysFaithful, PTL

\* Whoever saves, fails or restarts, the receivers run with the communication
\* setting that was last saved, or with what stands in for a part saved empty;
\* only a site that starts without them, or a failure, leaves it with none.
THEOREM ReceiversFollowSettings == Spec => []ReceiversFollow
<1>1. Faithful /\ ReceiversLoaded => ReceiversFollow
  BY DEF Faithful, ReceiversAgree, ReceiversLoaded, ReceiversFollow
<1> QED
  BY <1>1, AlwaysFaithful, PTL

----------------------------------------------------------------------------
(* The dialog. *)

\* As long as nobody has saved since the server filled it, an open dialog
\* shows what is saved.
FormsAgree ==
  \A o \in Operators : form[o] # None /\ form[o].intact => AsSaved(form[o].fields)

LEMMA FormsAgreeStep ==
  ASSUME TypeOK, Faithful, FormsAgree, [Next]_vars
  PROVE  FormsAgree'
<1>1. CASE form' = form /\ lastSaved'[Comm] = lastSaved[Comm] /\ lastGiven' = lastGiven
  BY <1>1 DEF FormsAgree, AsSaved
<1>2. ASSUME NEW k \in Plain, GetPlain(k) PROVE FormsAgree'
  BY <1>1, <1>2 DEF GetPlain, savedVars
<1>3. ASSUME NEW k \in Plain, NEW v \in PlainValues, NEW ok \in BOOLEAN, SetPlain(k, v, ok)
      PROVE  FormsAgree'
  BY <1>1, <1>3 DEF SetPlain, Remember, TypeOK
<1>4. ASSUME NEW o \in Operators, OpenAISCommunicationDialog(o) PROVE FormsAgree'
  <2>1. AsSaved(Connected(Get(Comm)))
    BY FaithfulReads, GetTyped, ConnectedAgrees DEF Faithful, ReadAsSaved, AsSaved, TypeOK
  <2>2. /\ lastSaved' = lastSaved /\ lastGiven' = lastGiven
        /\ form' = [form EXCEPT ![o] = [fields |-> Connected(Get(Comm)), intact |-> TRUE]]
    BY <1>4 DEF OpenAISCommunicationDialog, FormOf, savedVars
  <2>3. form'[o].fields = Connected(Get(Comm)) /\ \A q \in Operators : q # o => form'[q] = form[q]
    BY <2>2 DEF TypeOK
  <2> QED
    BY <2>1, <2>2, <2>3 DEF FormsAgree, AsSaved
<1>5. ASSUME NEW o \in Operators, OpenDialogWithoutAnswer(o) \/ CancelDialog(o) PROVE FormsAgree'
  <2>1. \/ form' = [form EXCEPT ![o] = [fields |-> FallbackForm, intact |-> FALSE]]
        \/ form' = [form EXCEPT ![o] = None]
    BY <1>5 DEF OpenDialogWithoutAnswer, CancelDialog
  <2>2. lastSaved' = lastSaved /\ lastGiven' = lastGiven
    BY <1>5 DEF OpenDialogWithoutAnswer, CancelDialog, savedVars
  <2> QED
    BY <2>1, <2>2 DEF FormsAgree, AsSaved, TypeOK
<1>6. ASSUME NEW o \in Operators, NEW c \in Requests, NEW ok \in BOOLEAN,
             SaveAISCommunicationConfig(o, c, ok)
      PROVE  FormsAgree'
  <2>1. ASSUME NEW q \in Operators, form'[q] # None PROVE form'[q].intact = FALSE
    <3>1. form'[q] = [form[q] EXCEPT !.intact = FALSE] /\ form[q] # None
      BY <1>6, <2>1 DEF SaveAISCommunicationConfig, CloseDialog
    <3>2. form[q] \in [fields : StoredConfigs, intact : BOOLEAN]
      BY <3>1 DEF TypeOK
    <3> QED
      BY <3>1, <3>2
  <2> QED
    BY <2>1 DEF FormsAgree
<1>7. ASSUME TcpRetry \/ (\E ok \in BOOLEAN : Restart(ok)) \/ \E k \in Keys : Expire(k)
      PROVE  FormsAgree'
  BY <1>1, <1>7 DEF TcpRetry, Restart, Expire, savedVars
<1>8. CASE UNCHANGED vars
  BY <1>1, <1>8 DEF vars, savedVars
<1>9. ASSUME NEW v \in PlainValues, NEW ok \in BOOLEAN,
             SetExternalApiConfig(v, ok) \/ SetAISGPS(v, ok)
      PROVE  FormsAgree'
  BY <1>3, <1>9, PlainSaves
<1> QED
  BY <1>2, <1>4, <1>5, <1>6, <1>7, <1>8, <1>9 DEF Next

\* What the dialog sends of fields that show what is saved says the same, and
\* so does the row after the merge.
LEMMA UneditedRequestAgrees ==
  ASSUME TypeOK, TablesFaithful, NEW f \in StoredConfigs, AsSaved(f)
  PROVE  AsSaved(Request(f)) /\ AsSaved(MergedComm(Request(f)))
<1> DEFINE saved == lastSaved[Comm]
<1>1. Current[Comm].ports = lastGiven.ports /\ lastGiven \in Givens /\ saved \in Configs
  BY DEF TablesFaithful, TypeOK, Givens
<1>2. CASE f.type = "serial"
  <2>1. Request(f) = [type |-> "serial", ports |-> f.ports, tcp |-> Blank]
    BY <1>2 DEF Request, StoredConfigs
  <2>2. saved.type = "serial" /\ (f.ports = saved.ports \/ (saved.ports = {} /\ f.ports = lastGiven.ports))
    BY <1>2 DEF AsSaved, Agrees
  <2> QED
    BY <1>1, <2>1, <2>2 DEF AsSaved, Agrees, MergedComm
<1>3. CASE f.type = "tcp"
  <2>1. Request(f) = [type |-> "tcp", ports |-> {}, tcp |-> f.tcp] /\ f.tcp # Blank
    BY <1>3, SettingsAssumption DEF Request, StoredConfigs
  <2>2. /\ saved.type = "tcp"
        /\ f.tcp = saved.tcp \/ (saved.tcp = Blank /\ f.tcp \in {DefaultAddress, lastGiven.tcp})
    BY <1>3 DEF AsSaved, Agrees
  <2> QED
    BY <2>1, <2>2 DEF AsSaved, Agrees, MergedComm, OrDefault
<1> QED
  BY <1>2, <1>3 DEF StoredConfigs

\* Saving an unedited dialog changes nothing of what is read.
LEMMA UneditedSave ==
  ASSUME TypeOK, TablesFaithful, FormsAgree, NEW o \in Operators, form[o] # None, form[o].intact,
         SaveAISCommunicationConfig(o, Request(form[o].fields), TRUE)
  PROVE  Agrees(Get(Comm)', lastSaved[Comm], lastGiven)
<1> DEFINE f == form[o].fields
           c == Request(f)
<1>1. f \in StoredConfigs /\ AsSaved(f)
  BY DEF TypeOK, FormsAgree
<1>2. AsSaved(c) /\ AsSaved(MergedComm(c))
  BY <1>1, UneditedRequestAgrees
<1>3. c \in Configs /\ MergedComm(c) \in StoredConfigs
  <2>1. f \in Configs
    BY <1>1 DEF StoredConfigs, Configs
  <2>2. c \in Configs
    BY <2>1 DEF Request, Configs
  <2> QED
    BY <2>2, MergedCommTyped
<1> HIDE DEF c, f
<1>4. Store(Comm, MergedComm(c), c, TRUE)
  BY DEF SaveAISCommunicationConfig, c, f
<1>5. Current' = [Current EXCEPT ![Comm] = MergedComm(c)] /\ Current \in Rows
      /\ cache' = [cache EXCEPT ![Comm] = c]
  <2>1. ASSUME NEW ok \in BOOLEAN, Store(Comm, MergedComm(c), c, ok)
        PROVE  /\ Current' = IF ok THEN [Current EXCEPT ![Comm] = MergedComm(c)] ELSE Current
               /\ Current \in Rows
               /\ cache' = IF ok THEN [cache EXCEPT ![Comm] = c] ELSE cache
    BY <1>3, <2>1, StoreWrites
  <2> QED
    BY <1>4, <2>1
<1>6. FromRow(Comm)' = MergedComm(c) /\ cache'[Comm] = c
  BY <1>5 DEF FromRow, Rows, TypeOK
<1>7. Get(Comm)' = MergedComm(c) \/ Get(Comm)' = c
  BY <1>6 DEF Get
<1> QED
  BY <1>2, <1>7 DEF AsSaved

\* To open the dialog and save it as it is changes nothing, unless another
\* operator has saved meanwhile or the dialog was filled without an answer.
THEOREM UneditedDialogsKeep == Spec => UneditedSaveKeeps
<1>1. Init => FormsAgree
  BY DEF Init, FormsAgree
<1>2. TypeOK /\ Faithful /\ FormsAgree /\ [Next]_vars => FormsAgree'
  BY FormsAgreeStep
<1>3. TypeOK /\ Faithful /\ FormsAgree =>
        [\A o \in Operators :
           /\ form[o] # None /\ form[o].intact
           /\ SaveAISCommunicationConfig(o, Request(form[o].fields), TRUE)
           => Agrees(Get(Comm)', lastSaved[Comm], lastGiven)]_vars
  BY UneditedSave DEF Faithful
<1> QED
  BY <1>1, <1>2, <1>3, SettingsTyped, AlwaysFaithful, PTL DEF Spec, UneditedSaveKeeps
=============================================================================
