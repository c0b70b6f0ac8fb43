-------------------------- MODULE Accounts_proofs --------------------------
(***************************************************************************)
(* Proofs about Accounts, for every set of numbers and requests and any    *)
(* number of users, requests and restarts: its types, that a registered    *)
(* account stays whole, and that what was asked for an account stays once  *)
(* no password reset that read it before is under way.                     *)
(***************************************************************************)
EXTENDS Accounts, TLAPS

\* What a request under way waits with: an id it may write has been given out
\* (is below next), and a number that it will write is one.
WaitsWith(q, next) ==
  /\ q.step \in {"idle", "hash", "write", "setting"}
  /\ q.step = "setting" => q.id \in Ids
  /\ q.step = "hash" /\ q.kind \in {"register", "create", "reset"} => q.phoneNumber \in Phones
  /\ q.step \in {"hash", "write"} /\ q.kind \in {"update", "reset"} =>
       /\ q.id \in Ids /\ q.id < next
       /\ q.kind = "update" => q.phoneNumber \in Phones \union {None}

----------------------------------------------------------------------------
(* The tables. *)

\* What the table's constraints leave: a number is one row's, and so is an id.
UniqueKeys ==
  \A u, v \in users : u.phoneNumber = v.phoneNumber \/ u.id = v.id => u = v

\* The part of the invariant that is about the tables.  AUTOINCREMENT is ahead
\* of every id: without it an insert could overwrite a row.
TablesSound ==
  /\ users \subseteq Users /\ settings \subseteq {u.id : u \in users}
  /\ registered \subseteq Ids
  /\ \A u \in users : u.id < nextId
  /\ UniqueKeys /\ RegisteredForGood

\* Inserting or overwriting a row takes no id from the table, and a number
\* that is another user's is refused.
LEMMA WriteUserSound ==
  ASSUME TablesSound, NEW row \in Users, WriteUser(row),
         nextId' \in Nat, nextId \in Nat, nextId <= nextId', row.id < nextId' \/ ~Fits(row),
         UNCHANGED <<settings, registered>>
  PROVE  TablesSound'
<1>1. CASE Fits(row)
  <2>1. users' = {u \in users : u.id # row.id} \union {row}
    BY <1>1 DEF WriteUser
  <2>2. users' \subseteq Users /\ \A u \in users' : u.id < nextId'
    BY <1>1, <2>1 DEF TablesSound, Users, Ids
  <2>3. \A i : HasUser(i) => HasUser(i)'
    BY <2>1 DEF HasUser
  <2>4. settings' \subseteq {u.id : u \in users'} /\ RegisteredForGood'
    BY <2>3 DEF TablesSound, HasUser, RegisteredForGood
  <2>5. UniqueKeys'
    BY <1>1, <2>1 DEF TablesSound, UniqueKeys, Fits
  <2> QED
    BY <2>2, <2>4, <2>5 DEF TablesSound
<1>2. CASE ~Fits(row)
  <2>1. users' = users /\ \A u \in users : u.id \in Nat
    BY <1>2 DEF WriteUser, TablesSound, Users, Ids
  <2> QED
    BY <2>1 DEF TablesSound, UniqueKeys, RegisteredForGood, HasUser
<1> QED
  BY <1>1, <1>2

\* A user with a setting is not deleted, so no registered account loses its
\* user.
LEMMA DeleteUserSound ==
  ASSUME TablesSound, NEW i \in Ids, DeleteUser(i), UNCHANGED <<nextId, registered>>
  PROVE  TablesSound'
<1>1. users' \subseteq users /\ settings' = settings
  BY DEF DeleteUser
<1>2. \A j \in settings : HasUser(j) => HasUser(j)'
  BY DEF DeleteUser, HasUser
<1>3. settings' \subseteq {u.id : u \in users'} /\ RegisteredForGood'
  BY <1>1, <1>2 DEF TablesSound, HasUser, RegisteredForGood
<1>4. UniqueKeys'
  BY <1>1 DEF TablesSound, UniqueKeys
<1> QED
  BY <1>1, <1>3, <1>4 DEF TablesSound

\* A setting is added for a user that is there.
LEMMA SettingSound ==
  ASSUME TablesSound, NEW i \in Ids, HasUser(i),
         settings' = settings \union {i}, registered' = registered \union {i},
         UNCHANGED <<users, nextId>>
  PROVE  TablesSound'
  BY DEF TablesSound, HasUser, UniqueKeys, RegisteredForGood

\* Steps that touch no table leave them as they are.
LEMMA TablesKept ==
  ASSUME TablesSound, UNCHANGED <<tables, registered>>
  PROVE  TablesSound'
  BY DEF TablesSound, tables, UniqueKeys, RegisteredForGood, HasUser

----------------------------------------------------------------------------
(* The requests. *)

\* The part of the invariant that is about the requests under way: what they
\* may still write names no id that has not been given out.
RequestsSound == DOMAIN request = Requests /\ \A r \in Requests : WaitsWith(request[r], nextId)

\* One request goes on, and ids are only ever given out.
LEMMA RequestSound ==
  ASSUME RequestsSound, NEW r \in Requests, NEW state, Wait(r, state), WaitsWith(state, nextId'),
         nextId \in Nat, nextId' \in Nat, nextId <= nextId'
  PROVE  RequestsSound'
<1>1. \A s \in Requests : request'[s] = IF s = r THEN state ELSE request[s]
  BY DEF RequestsSound, Wait
<1>2. \A s \in Requests : WaitsWith(request[s], nextId)'
  <2> TAKE s \in Requests
  <2>1. CASE s = r
    BY <1>1, <2>1 DEF WaitsWith
  <2>2. CASE s # r
    BY <1>1, <2>2 DEF WaitsWith, RequestsSound, Ids
  <2> QED
    BY <2>1, <2>2
<1> QED
  BY <1>2 DEF RequestsSound, Wait

----------------------------------------------------------------------------
(* Every step keeps the invariant. *)

IInv == TypeOK /\ TablesSound /\ RequestsSound

\* An empty server.
LEMMA InitSound ==
  ASSUME Init
  PROVE  IInv
<1>1. RequestsSound
  BY DEF Init, RequestsSound, WaitsWith, Idle
<1>2. TablesSound
  BY DEF Init, TablesSound, UniqueKeys, RegisteredForGood
<1>3. TypeOK
  BY AccountsAssumption DEF Init, TypeOK, Idle
<1> QED
  BY <1>1, <1>2, <1>3 DEF IInv

\* What is left of the types beside the tables and the requests.
CountersTyped ==
  /\ nextId \in 1..(MaxUsers + 1) /\ served \in 0..MaxRequests /\ restarts \in 0..MaxRestarts
  /\ asked \in [Ids -> Phones \union {None}]

LEMMA Composed == IInv <=> TablesSound /\ RequestsSound /\ CountersTyped
  BY DEF IInv, TypeOK, TablesSound, RequestsSound, WaitsWith, CountersTyped

\* Every step of a request, and a restart, keeps the invariant.
LEMMA StepSound ==
  ASSUME IInv, [Next]_vars
  PROVE  IInv'
<1> USE AccountsAssumption
<1>1. TablesSound /\ RequestsSound /\ CountersTyped
  BY Composed
<1>2. nextId \in Nat /\ \A r \in Requests : WaitsWith(request[r], nextId)
  BY <1>1 DEF CountersTyped, RequestsSound
<1>3. \A i : HasUser(i) => i \in Ids /\ i < nextId
  BY <1>1 DEF HasUser, TablesSound, Users
<1> SUFFICES TablesSound' /\ RequestsSound' /\ CountersTyped'
  BY DEF IInv, TypeOK, TablesSound, RequestsSound, WaitsWith, CountersTyped
<1>4. ASSUME NEW r \in Requests, NEW kind \in {"register", "create"}, NEW phone \in Phones,
             Register(r, kind, phone)
      PROVE  TablesSound' /\ RequestsSound' /\ CountersTyped'
  <2>1. TablesSound' /\ nextId' = nextId
    BY <1>1, <1>4, TablesKept DEF Register, tables, history
  <2>2. WaitsWith([step |-> "hash", kind |-> kind, phoneNumber |-> phone], nextId')
    BY DEF WaitsWith
  <2>3. RequestsSound'
    BY <1>1, <1>2, <1>4, <2>1, <2>2, RequestSound DEF Register
  <2> QED
    BY <1>1, <1>4, <2>1, <2>3 DEF Register, Begin, history, CountersTyped
<1>5. ASSUME NEW r \in Requests, SaveUser(r)
      PROVE  TablesSound' /\ RequestsSound' /\ CountersTyped'
  <2> DEFINE q == request[r]
             row == [id |-> nextId, phoneNumber |-> q.phoneNumber]
  <2>1. row \in Users /\ row.id = nextId
    BY <1>2, <1>5 DEF SaveUser, WaitsWith, Users
  <2>2. /\ WriteUser(row)
        /\ IF Fits(row)
           THEN /\ nextId' = nextId + 1
                /\ Wait(r, [step |-> "setting", kind |-> q.kind, id |-> nextId])
                /\ asked' = [asked EXCEPT ![nextId] = q.phoneNumber]
           ELSE Finish(r) /\ UNCHANGED <<nextId, asked>>
        /\ UNCHANGED <<settings, registered, served, restarts>> /\ nextId \in Ids
    BY <1>5 DEF SaveUser, bounds
  <2>3. nextId' \in Nat /\ nextId <= nextId' /\ (row.id < nextId' \/ ~Fits(row))
    BY <1>2, <2>1, <2>2
  <2>4. TablesSound'
    BY <1>1, <1>2, <2>1, <2>2, <2>3, WriteUserSound
  <2>5. WaitsWith([step |-> "setting", kind |-> q.kind, id |-> nextId], nextId') /\ WaitsWith(Idle, nextId')
    BY <2>2 DEF WaitsWith, Idle
  <2>6. \E state \in {[step |-> "setting", kind |-> q.kind, id |-> nextId], Idle} :
          Wait(r, state)
    BY <2>2 DEF Finish, Wait
  <2>7. RequestsSound'
    BY <1>1, <1>2, <2>3, <2>5, <2>6, RequestSound
  <2>8. asked' \in [Ids -> Phones \union {None}]
    BY <1>1, <2>1, <2>2 DEF CountersTyped, Users
  <2> QED
    BY <1>1, <2>2, <2>4, <2>7, <2>8 DEF CountersTyped, Ids
<1>6. WaitsWith(Idle, nextId')
  BY DEF WaitsWith, Idle
<1>7. ASSUME NEW r \in Requests, Finish(r), nextId' = nextId
      PROVE  RequestsSound'
  <2>1. Wait(r, Idle)
    BY <1>7 DEF Finish, Wait
  <2> QED
    BY <1>1, <1>2, <1>6, <1>7, <2>1, RequestSound
<1>8. ASSUME NEW r \in Requests, SaveSetting(r)
      PROVE  TablesSound' /\ RequestsSound' /\ CountersTyped'
  <2>1. RequestsSound'
    BY <1>7, <1>8 DEF SaveSetting
  <2>2. request[r].id \in Ids
    BY <1>2, <1>8 DEF SaveSetting, WaitsWith
  <2>3. TablesSound'
    <3>1. CASE UNCHANGED <<settings, registered>>
      BY <1>1, <1>8, <3>1, TablesKept DEF SaveSetting, tables
    <3>2. CASE /\ HasUser(request[r].id)
               /\ settings' = settings \union {request[r].id}
               /\ registered' = registered \union {request[r].id}
      BY <1>1, <1>8, <2>2, <3>2, SettingSound DEF SaveSetting
    <3> QED
      BY <1>8, <3>1, <3>2 DEF SaveSetting
  <2> QED
    BY <1>1, <1>8, <2>1, <2>3 DEF SaveSetting, bounds, CountersTyped
<1>9. ASSUME NEW r \in Requests, NEW i \in Ids, NEW phone \in Phones \union {None},
             NEW hashes \in BOOLEAN, Update(r, i, phone, hashes)
      PROVE  TablesSound' /\ RequestsSound' /\ CountersTyped'
  <2> DEFINE state == [step |-> IF hashes THEN "hash" ELSE "write", kind |-> "update", id |-> i,
                       phoneNumber |-> phone]
  <2>1. TablesSound' /\ nextId' = nextId
    BY <1>1, <1>9, TablesKept DEF Update, tables, history
  <2>2. WaitsWith(state, nextId')
    BY <1>3, <1>9, <2>1 DEF WaitsWith, Update
  <2>3. Wait(r, state)
    BY <1>9 DEF Update
  <2>4. RequestsSound'
    BY <1>1, <1>2, <2>1, <2>2, <2>3, RequestSound
  <2> QED
    BY <1>1, <1>9, <2>1, <2>4 DEF Update, Begin, history, CountersTyped
<1>10. ASSUME NEW r \in Requests, WriteUpdate(r)
       PROVE  TablesSound' /\ RequestsSound' /\ CountersTyped'
  <2> DEFINE row == [id |-> request[r].id, phoneNumber |-> request[r].phoneNumber]
  <2>1. RequestsSound'
    BY <1>7, <1>10 DEF WriteUpdate
  <2>2. TablesSound'
    <3>1. CASE UNCHANGED users
      BY <1>1, <1>10, <3>1, TablesKept DEF WriteUpdate, tables
    <3>2. CASE request[r].phoneNumber # None /\ WriteUser(row)
      <4>1. row \in Users /\ row.id < nextId
        BY <1>2, <1>10, <3>2 DEF WriteUpdate, WaitsWith, Users
      <4> QED
        BY <1>1, <1>2, <1>10, <3>2, <4>1, WriteUserSound DEF WriteUpdate
    <3> QED
      BY <1>10, <3>1, <3>2 DEF WriteUpdate
  <2>3. asked' \in [Ids -> Phones \union {None}]
    <3>1. CASE asked' = asked
      BY <1>1, <3>1 DEF CountersTyped
    <3>2. CASE /\ request[r].phoneNumber # None
               /\ asked' = [asked EXCEPT ![request[r].id] = request[r].phoneNumber]
      <4>1. request[r].phoneNumber \in Phones
        BY <1>2, <1>10, <3>2 DEF WriteUpdate, WaitsWith
      <4> QED
        BY <1>1, <3>2, <4>1 DEF CountersTyped
    <3> QED
      BY <1>10, <3>1, <3>2 DEF WriteUpdate
  <2> QED
    BY <1>1, <1>10, <2>1, <2>2, <2>3 DEF WriteUpdate, bounds, CountersTyped
<1>11. ASSUME NEW r \in Requests, NEW i \in Ids, ResetPassword(r, i)
       PROVE  TablesSound' /\ RequestsSound' /\ CountersTyped'
  <2> DEFINE state == [step |-> "hash", kind |-> "reset", id |-> i,
                       phoneNumber |-> UserAt(i).phoneNumber]
  <2>1. TablesSound' /\ nextId' = nextId
    BY <1>1, <1>11, TablesKept DEF ResetPassword, tables, history
  <2>2. UserAt(i) \in users
    BY <1>11 DEF ResetPassword, HasUser, UserAt
  <2>3. UserAt(i).phoneNumber \in Phones
    BY <1>1, <2>2 DEF TablesSound, Users
  <2>4. WaitsWith(state, nextId')
    BY <1>3, <1>11, <2>1, <2>3 DEF WaitsWith, ResetPassword
  <2>5. Wait(r, state)
    BY <1>11 DEF ResetPassword
  <2>6. RequestsSound'
    BY <1>1, <1>2, <2>1, <2>4, <2>5, RequestSound
  <2> QED
    BY <1>1, <1>11, <2>1, <2>6 DEF ResetPassword, Begin, history, CountersTyped
<1>12. ASSUME NEW r \in Requests, SaveReset(r)
       PROVE  TablesSound' /\ RequestsSound' /\ CountersTyped'
  <2> DEFINE row == [id |-> request[r].id, phoneNumber |-> request[r].phoneNumber]
  <2>1. RequestsSound'
    BY <1>7, <1>12 DEF SaveReset
  <2>2. row \in Users /\ row.id < nextId
    BY <1>2, <1>12 DEF SaveReset, WaitsWith, Users
  <2>3. TablesSound'
    BY <1>1, <1>2, <1>12, <2>2, WriteUserSound DEF SaveReset, history
  <2> QED
    BY <1>1, <1>12, <2>1, <2>3 DEF SaveReset, bounds, history, CountersTyped
<1>13. ASSUME NEW r \in Requests, NEW i \in Ids, Remove(r, i)
       PROVE  TablesSound' /\ RequestsSound' /\ CountersTyped'
  <2>1. TablesSound'
    BY <1>1, <1>13, DeleteUserSound DEF Remove
  <2>2. RequestsSound'
    BY <1>1, <1>13 DEF Remove, RequestsSound, WaitsWith
  <2> QED
    BY <1>1, <1>13, <2>1, <2>2 DEF Remove, Begin, CountersTyped
<1>14. CASE Restart
  <2>1. TablesSound'
    BY <1>1, <1>14, TablesKept DEF Restart, history
  <2>2. RequestsSound'
    BY <1>6, <1>14 DEF Restart, RequestsSound
  <2> QED
    BY <1>1, <1>14, <2>1, <2>2 DEF Restart, tables, history, CountersTyped
<1>15. CASE UNCHANGED vars
  <2>1. TablesSound'
    BY <1>1, <1>15, TablesKept DEF vars, history
  <2>2. RequestsSound' /\ CountersTyped'
    BY <1>1, <1>15 DEF vars, tables, bounds, history, RequestsSound, WaitsWith, CountersTyped
  <2> QED
    BY <2>1, <2>2
<1> QED
  BY <1>4, <1>5, <1>8, <1>9, <1>10, <1>11, <1>12, <1>13, <1>14, <1>15 DEF Next

----------------------------------------------------------------------------
(* What was asked for an account. *)

\* The number of a user is that of its row.
LEMMA NumberOfRow ==
  ASSUME UniqueKeys, NEW u \in users
  PROVE  HasUser(u.id) /\ UserAt(u.id) = u /\ NumberOf(u.id) = u.phoneNumber
<1>1. HasUser(u.id)
  BY DEF HasUser
<1>2. UserAt(u.id) \in users /\ UserAt(u.id).id = u.id
  BY DEF UserAt
<1> QED
  BY <1>1, <1>2 DEF NumberOf, UniqueKeys

\* Rows of other users do not touch a user's number.
LEMMA NumberKept ==
  ASSUME UniqueKeys, UniqueKeys', NEW i, \A u : u.id = i => (u \in users <=> u \in users')
  PROVE  NumberOf(i)' = NumberOf(i)
<1>1. CASE HasUser(i)
  <2>1. PICK u \in users : u.id = i
    BY <1>1 DEF HasUser
  <2>2. u \in users'
    BY <2>1
  <2>3. NumberOf(u.id)' = u.phoneNumber
    <3>1. HasUser(i)'
      BY <2>1, <2>2 DEF HasUser
    <3>2. UserAt(i)' \in users' /\ UserAt(i)'.id = i
      BY <2>1, <2>2 DEF UserAt
    <3>3. UserAt(i)' = u
      BY <2>1, <2>2, <3>2 DEF UniqueKeys
    <3> QED
      BY <2>1, <3>1, <3>3 DEF NumberOf
  <2> QED
    BY <2>1, <2>3, NumberOfRow
<1>2. CASE ~HasUser(i)
  BY <1>2 DEF HasUser, NumberOf
<1> QED
  BY <1>1, <1>2

\* A write gives its user the number, if it fits, and no one else.
LEMMA WriteUserGives ==
  ASSUME UniqueKeys, UniqueKeys', NEW row, WriteUser(row)
  PROVE  /\ \A i : i # row.id => NumberOf(i)' = NumberOf(i)
         /\ Fits(row) => NumberOf(row.id)' = row.phoneNumber
         /\ ~Fits(row) => \A i : NumberOf(i)' = NumberOf(i)
<1>1. ASSUME NEW i, i # row.id \/ ~Fits(row) PROVE NumberOf(i)' = NumberOf(i)
  <2>1. \A u : u.id = i => (u \in users <=> u \in users')
    BY <1>1 DEF WriteUser
  <2> QED
    BY <2>1, NumberKept
<1>2. ASSUME Fits(row) PROVE NumberOf(row.id)' = row.phoneNumber
  <2>1. row \in users'
    BY <1>2 DEF WriteUser
  <2>2. HasUser(row.id)' /\ UserAt(row.id)' \in users' /\ UserAt(row.id)'.id = row.id
    BY <2>1 DEF HasUser, UserAt
  <2>3. UserAt(row.id)' = row
    BY <2>1, <2>2 DEF UniqueKeys
  <2> QED
    BY <2>2, <2>3 DEF NumberOf
<1> QED
  BY <1>1, <1>2

\* The request q is no reset that read another number of user i than n.
NotStale(q, i, n) ==
  q.step = "hash" /\ q.kind = "reset" /\ q.id = i => q.phoneNumber = n

LEMMA SettledByRequest ==
  ASSUME NEW i
  PROVE  Settled(i) <=>
           NumberOf(i) = asked[i] /\ \A r \in Requests : NotStale(request[r], i, asked[i])
  BY DEF Settled, StaleReset, NotStale

\* A request that ends, or begins with the number that was asked for, leaves a
\* settled user settled if its number stays.
LEMMA SettledKept ==
  ASSUME RequestsSound, NEW i, Settled(i), asked'[i] = asked[i], NumberOf(i)' = NumberOf(i),
         NEW r \in Requests, NEW state, Wait(r, state), NotStale(state, i, asked[i])
  PROVE  Settled(i)'
<1>1. \A s \in Requests : request'[s] = IF s = r THEN state ELSE request[s]
  BY DEF RequestsSound, Wait
<1>2. \A s \in Requests : NotStale(request'[s], i, asked[i])
  BY <1>1, SettledByRequest
<1> QED
  BY <1>2 DEF Settled, StaleReset, NotStale

\* No step unsettles a user of whom nothing else is asked.
LEMMA SettledStep ==
  ASSUME IInv, IInv', [Next]_vars, NEW i \in Ids, Settled(i), asked'[i] = asked[i]
  PROVE  Settled(i)'
<1> USE AccountsAssumption
<1>1. /\ TablesSound /\ RequestsSound /\ CountersTyped /\ UniqueKeys /\ UniqueKeys'
      /\ nextId \in Nat /\ \A r \in Requests : WaitsWith(request[r], nextId)
  BY Composed DEF IInv, TablesSound, RequestsSound, CountersTyped
<1>2. NumberOf(i) = asked[i] /\ \A r \in Requests : NotStale(request[r], i, asked[i])
  BY SettledByRequest
<1>3. \A u \in users : u.phoneNumber \in Phones /\ u.phoneNumber # None
  BY <1>1 DEF TablesSound, Users
<1>4. HasUser(i) => NumberOf(i) \in Phones /\ NumberOf(i) = UserAt(i).phoneNumber
  BY <1>1, <1>3, NumberOfRow DEF HasUser
<1>5. ~HasUser(i) => NumberOf(i) = None
  BY DEF NumberOf
<1>6. ASSUME users' = users PROVE NumberOf(i)' = NumberOf(i)
  BY <1>1, <1>6, NumberKept
<1>7. ASSUME NEW r \in Requests, NEW state, Wait(r, state), NotStale(state, i, asked[i]),
             NumberOf(i)' = NumberOf(i)
      PROVE  Settled(i)'
  BY <1>1, <1>7, SettledKept
<1>8. ASSUME NEW r \in Requests, Finish(r), NumberOf(i)' = NumberOf(i)
      PROVE  Settled(i)'
  <2>1. Wait(r, Idle) /\ NotStale(Idle, i, asked[i])
    BY <1>8 DEF Finish, Wait, NotStale, Idle
  <2> QED
    BY <1>7, <1>8, <2>1
<1>9. ASSUME NEW r \in Requests, NEW kind \in {"register", "create"}, NEW phone \in Phones,
             Register(r, kind, phone)
      PROVE  Settled(i)'
  <2>1. NotStale([step |-> "hash", kind |-> kind, phoneNumber |-> phone], i, asked[i])
    BY DEF NotStale
  <2>2. NumberOf(i)' = NumberOf(i)
    BY <1>6, <1>9 DEF Register, tables
  <2> QED
    BY <1>7, <1>9, <2>1, <2>2 DEF Register
<1>10. ASSUME NEW r \in Requests, SaveUser(r) PROVE Settled(i)'
  <2> DEFINE q == request[r]
             row == [id |-> nextId, phoneNumber |-> q.phoneNumber]
             next == [step |-> "setting", kind |-> q.kind, id |-> nextId]
  <2>1. /\ WriteUser(row) /\ row.id = nextId /\ q.phoneNumber \in Phones /\ nextId \in Ids
        /\ Fits(row) => Wait(r, next) /\ asked' = [asked EXCEPT ![nextId] = q.phoneNumber]
        /\ ~Fits(row) => Finish(r)
    BY <1>1, <1>10 DEF SaveUser, WaitsWith
  <2>2. ~HasUser(nextId)
    BY <1>1 DEF TablesSound, HasUser, Users, Ids
  <2>3. CASE Fits(row)
    <3>1. i # nextId
      <4> SUFFICES ASSUME i = nextId PROVE FALSE
        OBVIOUS
      <4>1. asked[i] = q.phoneNumber
        BY <1>1, <2>1, <2>3 DEF CountersTyped
      <4> QED
        BY <1>2, <1>5, <2>1, <2>2, <4>1
    <3>2. NumberOf(i)' = NumberOf(i)
      BY <1>1, <2>1, <3>1, WriteUserGives
    <3>3. NotStale(next, i, asked[i])
      BY DEF NotStale
    <3> QED
      BY <1>7, <2>1, <2>3, <3>2, <3>3
  <2>4. CASE ~Fits(row)
    <3>1. NumberOf(i)' = NumberOf(i)
      BY <1>1, <2>1, <2>4, WriteUserGives
    <3> QED
      BY <1>8, <2>1, <2>4, <3>1
  <2> QED
    BY <2>3, <2>4
<1>11. ASSUME NEW r \in Requests, SaveSetting(r) PROVE Settled(i)'
  BY <1>6, <1>8, <1>11 DEF SaveSetting
<1>12. ASSUME NEW r \in Requests, NEW j \in Ids, NEW phone \in Phones \union {None},
              NEW hashes \in BOOLEAN, Update(r, j, phone, hashes)
       PROVE  Settled(i)'
  <2> DEFINE state == [step |-> IF hashes THEN "hash" ELSE "write", kind |-> "update", id |-> j,
                       phoneNumber |-> phone]
  <2>1. NotStale(state, i, asked[i]) /\ Wait(r, state)
    BY <1>12 DEF Update, NotStale
  <2>2. NumberOf(i)' = NumberOf(i)
    BY <1>6, <1>12 DEF Update, tables
  <2> QED
    BY <1>7, <2>1, <2>2
<1>13. ASSUME NEW r \in Requests, WriteUpdate(r) PROVE Settled(i)'
  <2> DEFINE q == request[r]
             row == [id |-> q.id, phoneNumber |-> q.phoneNumber]
  <2>1. CASE UNCHANGED users
    BY <1>6, <1>8, <1>13, <2>1 DEF WriteUpdate
  <2>2. CASE /\ WriteUser(row)
             /\ asked' = IF Fits(row) THEN [asked EXCEPT ![q.id] = q.phoneNumber] ELSE asked
    <3>1. CASE i = q.id /\ Fits(row)
      <4>1. NumberOf(i)' = q.phoneNumber
        BY <1>1, <2>2, <3>1, WriteUserGives
      <4>2. asked'[i] = q.phoneNumber
        BY <1>1, <2>2, <3>1 DEF CountersTyped
      <4> QED
        BY <1>2, <1>8, <1>13, <4>1, <4>2 DEF WriteUpdate
    <3>2. CASE i # q.id \/ ~Fits(row)
      <4>1. NumberOf(i)' = NumberOf(i)
        BY <1>1, <2>2, <3>2, WriteUserGives
      <4> QED
        BY <1>8, <1>13, <4>1 DEF WriteUpdate
    <3> QED
      BY <3>1, <3>2
  <2> QED
    BY <1>13, <2>1, <2>2 DEF WriteUpdate
<1>14. ASSUME NEW r \in Requests, NEW j \in Ids, ResetPassword(r, j) PROVE Settled(i)'
  <2> DEFINE state == [step |-> "hash", kind |-> "reset", id |-> j,
                       phoneNumber |-> UserAt(j).phoneNumber]
  <2>1. NotStale(state, i, asked[i]) /\ Wait(r, state)
    BY <1>2, <1>4, <1>14 DEF ResetPassword, NotStale
  <2>2. NumberOf(i)' = NumberOf(i)
    BY <1>6, <1>14 DEF ResetPassword, tables
  <2> QED
    BY <1>7, <2>1, <2>2
<1>15. ASSUME NEW r \in Requests, SaveReset(r) PROVE Settled(i)'
  <2> DEFINE q == request[r]
             row == [id |-> q.id, phoneNumber |-> q.phoneNumber]
  <2>1. /\ WriteUser(row) /\ Finish(r) /\ q.step = "hash" /\ q.kind = "reset"
    BY <1>15 DEF SaveReset
  <2>2. i = q.id => q.phoneNumber = asked[i]
    BY <1>2, <2>1 DEF NotStale
  <2>3. NumberOf(i)' = NumberOf(i)
    <3>1. CASE i = q.id /\ Fits(row)
      <4>1. NumberOf(i)' = q.phoneNumber
        BY <1>1, <2>1, <3>1, WriteUserGives
      <4> QED
        BY <1>2, <2>2, <3>1, <4>1
    <3>2. CASE i # q.id \/ ~Fits(row)
      BY <1>1, <2>1, <3>2, WriteUserGives
    <3> QED
      BY <3>1, <3>2
  <2> QED
    BY <1>8, <2>1, <2>3
<1>16. ASSUME UNCHANGED request, NumberOf(i)' = NumberOf(i) PROVE Settled(i)'
  BY <1>2, <1>16 DEF Settled, StaleReset, NotStale
<1>17. ASSUME NEW r \in Requests, NEW j \in Ids, Remove(r, j) PROVE Settled(i)'
  <2>1. CASE j \in settings
    BY <1>6, <1>16, <1>17, <2>1 DEF Remove, DeleteUser
  <2>2. CASE j \notin settings
    <3>1. users' = {u \in users : u.id # j} /\ asked' = [asked EXCEPT ![j] = None] /\ HasUser(j)
      BY <1>17, <2>2 DEF Remove, DeleteUser
    <3>2. i # j
      <4> SUFFICES ASSUME i = j PROVE FALSE
        OBVIOUS
      <4>1. asked[i] = None
        BY <1>1, <3>1 DEF CountersTyped
      <4> QED
        BY <1>2, <1>4, <3>1, <4>1
    <3>3. NumberOf(i)' = NumberOf(i)
      BY <1>1, <3>1, <3>2, NumberKept
    <3> QED
      BY <1>16, <1>17, <3>3 DEF Remove
  <2> QED
    BY <2>1, <2>2
<1>18. CASE Restart
  <2>1. NumberOf(i)' = NumberOf(i)
    BY <1>6, <1>18 DEF Restart, tables
  <2>2. \A r \in Requests : NotStale(request'[r], i, asked[i])
    BY <1>18 DEF Restart, Idle, NotStale
  <2> QED
    BY <1>2, <2>1, <2>2 DEF Settled, StaleReset, NotStale
<1>19. CASE UNCHANGED vars
  BY <1>6, <1>16, <1>19 DEF vars, tables
<1> QED
  BY <1>9, <1>10, <1>11, <1>12, <1>13, <1>14, <1>15, <1>17, <1>18, <1>19 DEF Next

----------------------------------------------------------------------------
(* The theorems. *)

\* The invariant holds throughout.
LEMMA AlwaysSound == Spec => []IInv
<1>1. Init => IInv
  BY InitSound
<1>2. IInv /\ [Next]_vars => IInv'
  BY StepSound
<1> QED
  BY <1>1, <1>2, PTL DEF Spec

\* Every request and every restart keeps the types.
THEOREM AccountsTyped == Spec => []TypeOK
<1>1. IInv => TypeOK
  BY DEF IInv
<1> QED
  BY <1>1, AlwaysSound, PTL

\* A registration that was answered with success is never undone by halves.
THEOREM RegistrationsLast == Spec => []RegisteredForGood
<1>1. IInv => RegisteredForGood
  BY DEF IInv, TablesSound
<1> QED
  BY <1>1, AlwaysSound, PTL

\* What was asked for an account stays, once no password reset that read it
\* before is under way: the lost update of a reset has no other cause.
THEOREM SettledAccountsStay == Spec => SettledStays
<1>1. IInv /\ IInv' /\ [Next]_vars =>
        [\A i \in Ids : Settled(i) /\ asked'[i] = asked[i] => Settled(i)']_vars
  BY SettledStep
<1> QED
  BY <1>1, AlwaysSound, PTL DEF Spec, SettledStays
=============================================================================
