------------------------------ MODULE Accounts ------------------------------
(***************************************************************************)
(* The accounts of the server: AuthService and UserService on the tables   *)
(* User and UserSetting.  A request reads, hashes a password in another    *)
(* thread and writes afterwards; other requests run meanwhile, and the     *)
(* server may stop between any two steps.                                  *)
(*                                                                         *)
(* Passwords and names are left out: what they are decides nothing here.   *)
(* The constraints of the tables are SQLite's: phone numbers are unique, a *)
(* user has at most one setting, and a setting needs its user.             *)
(***************************************************************************)
EXTENDS Naturals

CONSTANTS
  Phones,
  None,
  Requests,     \* requests under way at a time
  MaxUsers,     \* rows inserted by registrations
  MaxRequests,  \* requests in a behaviour
  MaxRestarts   \* of the server

ASSUME AccountsAssumption ==
  /\ None \notin Phones
  /\ MaxUsers \in Nat /\ MaxRequests \in Nat /\ MaxRestarts \in Nat

VARIABLES
  users,      \* rows of User
  settings,   \* the userId of each row of UserSetting
  nextId,     \* AUTOINCREMENT of User
  request,    \* what each request under way is waiting with
  served, restarts,
  registered, \* history: users whose registration was answered with success
  asked       \* history: per id, the number last asked for it, None once removed

tables == <<users, settings, nextId>>
bounds == <<served, restarts>>
history == <<registered, asked>>
vars == <<tables, request, bounds, history>>

Ids == 1..MaxUsers
Users == [id : Ids, phoneNumber : Phones]
Idle == [step |-> "idle"]

UserAt(i) == CHOOSE u \in users : u.id = i
HasUser(i) == \E u \in users : u.id = i
NumberOf(i) == IF HasUser(i) THEN UserAt(i).phoneNumber ELSE None
Taken(phone) == \E u \in users : u.phoneNumber = phone

----------------------------------------------------------------------------
(* The tables. *)

\* The number is no other user's.
Fits(row) == \A u \in users : u.phoneNumber = row.phoneNumber => u.id = row.id

\* The row is inserted or overwritten; what does not fit is refused.
WriteUser(row) ==
  users' = IF Fits(row) THEN {u \in users : u.id # row.id} \union {row} ELSE users

\* Mutant: foreign keys are not enforced.
DeleteUserAlways(i) ==
  /\ users' = {u \in users : u.id # i} /\ UNCHANGED settings

\* foreign_keys is ON and no action is set: a user with a setting stays.
DeleteUser(i) ==
  /\ users' = IF i \in settings THEN users ELSE {u \in users : u.id # i}
  /\ UNCHANGED settings

----------------------------------------------------------------------------
(* The requests. *)

Begin(r) ==
  /\ request[r] = Idle /\ served < MaxRequests /\ served' = served + 1
  /\ UNCHANGED restarts

Wait(r, state) == request' = [request EXCEPT ![r] = state]
Finish(r) == request' = [request EXCEPT ![r] = Idle]

\* register, and UserService.create: an unused number, then the hash.
Register(r, kind, phone) ==
  /\ Begin(r)
  /\ ~Taken(phone)
  /\ Wait(r, [step |-> "hash", kind |-> kind, phoneNumber |-> phone])
  /\ UNCHANGED <<tables, history>>

\* The hash is there: the number may be taken by now.
SaveUser(r) ==
  LET q == request[r]
      row == [id |-> nextId, phoneNumber |-> q.phoneNumber] IN
  /\ q.step = "hash" /\ q.kind \in {"register", "create"} /\ nextId \in Ids
  /\ WriteUser(row)
  /\ IF Fits(row)
     THEN /\ nextId' = nextId + 1
          /\ Wait(r, [step |-> "setting", kind |-> q.kind, id |-> nextId])
          /\ asked' = [asked EXCEPT ![nextId] = q.phoneNumber]
     ELSE Finish(r) /\ UNCHANGED <<nextId, asked>>
  /\ UNCHANGED <<settings, bounds, registered>>

\* Mutant: the answer does not wait for the setting.
SaveNoSetting(r) ==
  LET q == request[r] IN
  /\ q.step = "setting" /\ Finish(r)
  /\ registered' = registered \union {q.id}
  /\ UNCHANGED <<tables, bounds, asked>>

\* create writes a property the entity does not have, and leaves the nickname
\* empty, which the table refuses; register needs its user to be there still.
SaveSetting(r) ==
  LET q == request[r] IN
  /\ q.step = "setting" /\ Finish(r)
  /\ \/ /\ q.kind = "register" /\ HasUser(q.id) /\ q.id \notin settings
        /\ settings' = settings \union {q.id}
        /\ registered' = registered \union {q.id}
     \/ /\ q.kind = "create" \/ ~HasUser(q.id) \/ q.id \in settings
        /\ UNCHANGED <<settings, registered>>
  /\ UNCHANGED <<users, nextId, bounds, asked>>

\* update of a user that exists: a new password is hashed first.
Update(r, i, phone, hashes) ==
  /\ Begin(r)
  /\ HasUser(i)
  /\ Wait(r, [step |-> IF hashes THEN "hash" ELSE "write", kind |-> "update", id |-> i,
              phoneNumber |-> phone])
  /\ UNCHANGED <<tables, history>>

\* Mutant: saved as a whole user, as a password reset is, also over its removal.
SaveUpdate(r) ==
  LET q == request[r]
      row == [id |-> q.id, phoneNumber |-> q.phoneNumber] IN
  /\ q.step \in {"hash", "write"} /\ q.kind = "update"
  /\ Finish(r)
  /\ IF q.phoneNumber # None
     THEN /\ WriteUser(row)
          /\ asked' = IF HasUser(q.id) /\ Fits(row) THEN [asked EXCEPT ![q.id] = q.phoneNumber]
                      ELSE asked
     ELSE UNCHANGED <<users, asked>>
  /\ UNCHANGED <<settings, nextId, bounds, registered>>

\* UPDATE ... WHERE id writes the given columns, of no row when the user has
\* gone, and fails when the number is another user's.
WriteUpdate(r) ==
  LET q == request[r]
      row == [id |-> q.id, phoneNumber |-> q.phoneNumber] IN
  /\ q.step \in {"hash", "write"} /\ q.kind = "update"
  /\ Finish(r)
  /\ IF HasUser(q.id) /\ q.phoneNumber # None
     THEN /\ WriteUser(row)
          /\ asked' = IF Fits(row) THEN [asked EXCEPT ![q.id] = q.phoneNumber] ELSE asked
     ELSE UNCHANGED <<users, asked>>
  /\ UNCHANGED <<settings, nextId, bounds, registered>>

\* resetPassword reads the whole user and hashes ...
ResetPassword(r, i) ==
  /\ Begin(r)
  /\ HasUser(i)
  /\ Wait(r, [step |-> "hash", kind |-> "reset", id |-> i, phoneNumber |-> UserAt(i).phoneNumber])
  /\ UNCHANGED <<tables, history>>

\* ... and saves the whole user as it was read: over what an update wrote
\* meanwhile, and as a new row when it was removed.
SaveReset(r) ==
  LET q == request[r] IN
  /\ q.step = "hash" /\ q.kind = "reset"
  /\ Finish(r)
  /\ WriteUser([id |-> q.id, phoneNumber |-> q.phoneNumber])
  /\ UNCHANGED <<settings, nextId, bounds, history>>

\* remove of a user that exists.
Remove(r, i) ==
  /\ Begin(r)
  /\ HasUser(i)
  /\ DeleteUser(i)
  /\ asked' = IF i \in settings THEN asked ELSE [asked EXCEPT ![i] = None]
  /\ UNCHANGED <<nextId, request, registered>>

\* The requests under way are lost; the tables stay.
Restart ==
  /\ restarts < MaxRestarts /\ restarts' = restarts + 1
  /\ request' = [r \in Requests |-> Idle]
  /\ UNCHANGED <<tables, served, history>>

----------------------------------------------------------------------------

Init ==
  /\ users = {} /\ settings = {} /\ nextId = 1
  /\ request = [r \in Requests |-> Idle]
  /\ served = 0 /\ restarts = 0
  /\ registered = {} /\ asked = [i \in Ids |-> None]

Next ==
  \/ \E r \in Requests :
       \/ \E kind \in {"register", "create"}, phone \in Phones : Register(r, kind, phone)
       \/ \E i \in Ids :
            \/ \E phone \in Phones \union {None}, hashes \in BOOLEAN : Update(r, i, phone, hashes)
            \/ ResetPassword(r, i) \/ Remove(r, i)
       \/ SaveUser(r) \/ SaveSetting(r) \/ WriteUpdate(r) \/ SaveReset(r)
  \/ Restart

Spec == Init /\ [][Next]_vars

----------------------------------------------------------------------------
(* Properties. *)

\* Every variable keeps its type, and every setting has its user.
TypeOK ==
  /\ users \subseteq Users /\ settings \subseteq {u.id : u \in users}
  /\ nextId \in 1..(MaxUsers + 1)
  /\ \A r \in Requests : request[r].step \in {"idle", "hash", "write", "setting"}
  /\ served \in 0..MaxRequests /\ restarts \in 0..MaxRestarts
  /\ registered \subseteq Ids /\ asked \in [Ids -> Phones \union {None}]

\* A password reset under way that read another number than was last asked for
\* user i, or read a user that was removed since.
StaleReset(i) ==
  \E r \in Requests :
    /\ request[r].step = "hash" /\ request[r].kind = "reset" /\ request[r].id = i
    /\ request[r].phoneNumber # asked[i]

Settled(i) == NumberOf(i) = asked[i] /\ ~StaleReset(i)

\* Only a password reset that read the user before can undo an update or bring a
\* removed user back, and once none is under way the danger is over: until
\* something else is asked for the user, no update, registration, later reset or
\* restart changes its number or inserts it again, however they interleave.
SettledStays == [][\A i \in Ids : Settled(i) /\ asked'[i] = asked[i] => Settled(i)']_vars

\* An account whose registration was answered with success is whole for good:
\* nothing takes the user or its setting away again.
RegisteredForGood == \A i \in registered : HasUser(i) /\ i \in settings
=============================================================================
