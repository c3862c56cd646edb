---------------------------- MODULE AuthSession ----------------------------
(***************************************************************************)
(* Accounts: signing in with a code, the sessions in Redis and the devices *)
(* a login leaves behind, profiles, the change of a phone and additional   *)
(* phone numbers; AuthController, DeviceController and SessionController   *)
(* with their services, one step for each statement they await.            *)
(*                                                                         *)
(* A phone stands for its canonical form, on which all handlers agree.     *)
(* Clients know the codes they are sent; who enters a wrong one is refused *)
(* before anything is written.                                             *)
(***************************************************************************)
EXTENDS Requests, FiniteSets

CONSTANTS
  Accounts,    \* ids of the rows of User
  Phones, Devices, Names,
  SessionIds,  \* random ids of sessions
  MaxNumbers,  \* the longest list of numbers of a request
  MaxChecks,   \* the checks of numbers that may run at the same time
  MaxAsked,    \* the phones users ask for, all in all
  Suffixes,    \* random suffixes of user names that are taken
  Null         \* no user name, no suffix

(* Ways to give every account a phone of its own.                          *)
OwnPhones == {f \in [Accounts -> Phones] :
                \A a, b \in Accounts : f[a] = f[b] => a = b}

ASSUME AuthAssumption ==
  /\ Accounts # {} /\ OwnPhones # {} /\ Null \notin Suffixes
  /\ MaxNumbers \in Nat /\ MaxChecks \in Nat /\ MaxAsked \in Nat

VARIABLES
  accounts,  \* the rows of User by id
  requests,  \* rows of PhoneChangeRequests
  numbers,   \* rows of PhoneNumber, pairs of a number and its user
  devices,   \* rows of FCM, pairs of a user and a device
  sessions,  \* whether each session in Redis expires, by key
  checks,    \* checks of numbers nobody waits for
  asked,     \* the phones each user ever asked to change to
  orphaned   \* sessions whose login died with the server

rows == <<accounts, requests, numbers, devices, asked>>
vars == <<rows, sessions, checks, orphaned, pending, scope>>

(* A code that is in order is "fresh" until it expires.                    *)
Codes == {"none", "fresh", "expired"}

UserNames == Names \X (Suffixes \union {Null})

User == [ phone : Phones, code : Codes, isActive : BOOLEAN,
          userName : UserNames \union {Null} ]

NewUser(p, code) ==
  [phone |-> p, code |-> code, isActive |-> FALSE, userName |-> Null]

(* Faulty variant: the parts of the key in the wrong order.                *)
SwappedKey(u, id) == <<id, u>>

SessionKey(u, id) == <<u, id>>

Check == [ user : Accounts, phone : Phones, legal : BOOLEAN,
           next : {"primary", "number", "owned"} ]

TypeOK ==
  /\ DOMAIN accounts \subseteq Accounts
  /\ \A a \in DOMAIN accounts : accounts[a] \in User
  /\ requests \subseteq [user : Accounts, phone : Phones, fresh : BOOLEAN]
  /\ numbers \subseteq Phones \X Accounts
  /\ devices \subseteq Accounts \X Devices
  /\ DOMAIN sessions \subseteq Accounts \X SessionIds
  /\ \A k \in DOMAIN sessions : sessions[k] \in BOOLEAN
  /\ checks \subseteq Check
  /\ asked \subseteq Accounts \X Phones
  /\ orphaned \subseteq DOMAIN sessions

Nothing == [x \in {} |-> x]

WithRow(table, id, row) ==
  [i \in DOMAIN table \union {id} |-> IF i = id THEN row ELSE table[i]]

(* A behaviour starts without users, or with one or all of them, who have  *)
(* logged in before.  Which has which phone makes no difference.           *)
Init ==
  /\ NoRequests
  /\ IF "signup" \in scope THEN accounts = Nothing
     ELSE LET phone == CHOOSE f \in OwnPhones : TRUE
              A == IF "alone" \in scope
                   THEN {CHOOSE a \in Accounts : TRUE} ELSE Accounts
          IN  accounts = [a \in A |->
                [NewUser(phone[a], "none") EXCEPT !.isActive = TRUE]]
  /\ requests = {} /\ numbers = {} /\ devices = {}
  /\ sessions = Nothing /\ checks = {} /\ asked = {} /\ orphaned = {}

redis == <<sessions, orphaned>>

Arrives(s, op, by, c) ==
  op \in scope /\ Enter(s, by, c) /\ UNCHANGED <<rows, redis>>

(* A statement that only reads.                                            *)
Read(s, ok, c) == GoOnIf(s, ok, c) /\ UNCHANGED <<rows, redis, checks>>

Holder(p) == {a \in DOMAIN accounts : accounts[a].phone = p}

-----------------------------------------------------------------------------
(* Faulty variant: a schema without @unique.                               *)
FitsAnyway(a, row) == TRUE

(* The row of a user; the database refuses a phone or a user name twice.   *)
Fits(a, row) ==
  \A b \in DOMAIN accounts \ {a} :
    /\ accounts[b].phone # row.phone
    /\ row.userName # Null => accounts[b].userName # row.userName

Put(a, row) ==
  /\ accounts' = IF Fits(a, row) THEN WithRow(accounts, a, row)
                 ELSE accounts
  /\ UNCHANGED <<requests, numbers, devices, asked, redis, checks>>

NoUpdate == UNCHANGED <<rows, redis, checks>>

-----------------------------------------------------------------------------
(***************************************************************************)
(* Signing in.                                                             *)
(***************************************************************************)
sendOtp(s, p) ==
  /\ Holder(p) # {} \/ "signup" \in scope
  /\ UNCHANGED checks
  /\ Arrives(s, "code", p,
       [ do |-> IF Holder(p) # {} THEN "renewCode" ELSE "createUser",
         phone |-> p ])

RenewCode(s, c) ==
  /\ c.do = "renewCode"
  /\ IF Holder(c.phone) = {} THEN NoUpdate
     ELSE \E a \in Holder(c.phone) :
            Put(a, [accounts[a] EXCEPT !.code = "fresh"])
  /\ End(s)

CreateUser(s, c) ==
  /\ c.do = "createUser"
  /\ IF DOMAIN accounts = Accounts THEN NoUpdate
     ELSE LET new == CHOOSE a \in Accounts : a \notin DOMAIN accounts
          IN  Put(new, NewUser(c.phone, "fresh"))
  /\ End(s)

(* The look-up of the user, the look-up of the code and the update that    *)
(* clears the code go by the phone, each for itself.                       *)
verifyOtp(s, p, d) ==
  /\ Holder(p) # {}
  /\ UNCHANGED checks
  /\ Arrives(s, "login", p, [do |-> "findCode", phone |-> p, device |-> d])

FindCode(s, c) ==
  /\ c.do = "findCode"
  /\ Read(s, \E a \in Holder(c.phone) : accounts[a].code = "fresh",
          [c EXCEPT !.do = "clearCode"])

DeviceCreation(a, d, login) ==
  [do |-> "findDevice", user |-> a, device |-> d, login |-> login]

ClearCode(s, c) ==
  /\ c.do = "clearCode"
  /\ IF Holder(c.phone) = {} THEN NoUpdate /\ End(s)
     ELSE \E a \in Holder(c.phone) :
            /\ Put(a, [accounts[a] EXCEPT !.code = "none", !.isActive = TRUE])
            /\ GoOn(s, DeviceCreation(a, c.device, TRUE))

(* DeviceService.create, for a login or for POST /devices.                 *)
FindDevice(s, c) ==
  /\ c.do = "findDevice"
  /\ Read(s, TRUE,
       [c EXCEPT !.do = IF \E x \in devices : x[1] = c.user
                        THEN "updateDevice" ELSE "createDevice"])

(* What is left of a login once its device is stored, or its statement     *)
(* has failed; POST /devices ends.                                         *)
StoreDevice(s, c, ok, stored) ==
  /\ devices' = IF ok THEN stored ELSE devices
  /\ GoOnIf(s, ok /\ c.login, [do |-> "createSession", user |-> c.user])
  /\ UNCHANGED <<accounts, requests, numbers, asked, redis, checks>>

DevicesOf(a) == {x \in devices : x[1] = a}

(* updateMany gives all devices of a user the same id, which the unique    *)
(* pair refuses when there are two.                                        *)
Updatable(a) == Cardinality(DevicesOf(a)) <= 1
Updated(a, d) == (devices \ DevicesOf(a))
                   \union (IF DevicesOf(a) = {} THEN {} ELSE {<<a, d>>})

UpdateDevice(s, c) ==
  /\ c.do = "updateDevice"
  /\ StoreDevice(s, c, Updatable(c.user), Updated(c.user, c.device))

CreateDevice(s, c) ==
  /\ c.do = "createDevice"
  /\ StoreDevice(s, c, <<c.user, c.device>> \notin devices,
                 devices \union {<<c.user, c.device>>})

(* createUserSession: HSET, then EXPIRE.                                   *)
Sessions(f, c, s) ==
  /\ sessions' = f
  /\ orphaned' = orphaned \intersect DOMAIN f
  /\ IF c = Idle.call THEN End(s) ELSE GoOn(s, c)
  /\ UNCHANGED <<rows, checks>>

(* Ids are random; which of the free ones it is makes no difference.       *)
FreeKeys(u) == {SessionKey(u, id) : id \in SessionIds} \ DOMAIN sessions
NewKey(u) == CHOOSE k \in FreeKeys(u) : TRUE

(* Faulty variant: EXPIRE, of a key that is not there yet, then HSET.      *)
ExpireThenCreate(s, c) ==
  /\ c.do = "createSession"
  /\ FreeKeys(c.user) # {}
  /\ Sessions(WithRow(sessions, NewKey(c.user), FALSE), Idle.call, s)

CreateSession(s, c) ==
  /\ c.do = "createSession"
  /\ FreeKeys(c.user) # {}
  /\ LET k == NewKey(c.user)
     IN  Sessions(WithRow(sessions, k, FALSE),
                  [do |-> "expireSession", key |-> k], s)

ExpireSession(s, c) ==
  /\ c.do = "expireSession"
  /\ Sessions([k \in DOMAIN sessions |-> sessions[k] \/ k = c.key],
              Idle.call, s)

-----------------------------------------------------------------------------
(***************************************************************************)
(* Sessions and devices, by their owners or by other clients.              *)
(***************************************************************************)
Deleted(keys) == [k \in DOMAIN sessions \ keys |-> sessions[k]]

deleteUserSession(s, u, id) ==
  /\ UNCHANGED checks
  /\ Arrives(s, "logout", u,
             [do |-> "deleteKeys", keys |-> {SessionKey(u, id)}])

(* deleteAllUserSessions prefixes the keys it has read once more.          *)
deleteMySessions(s, u) ==
  /\ UNCHANGED checks
  /\ Arrives(s, "logout", u,
       [ do |-> "deleteAll",
         keys |-> {k \in DOMAIN sessions : k[1] = u} ])

DeleteKeys(s, c) ==
  c.do = "deleteKeys" /\ Sessions(Deleted(c.keys), Idle.call, s)

DeleteAll(s, c) ==
  /\ c.do = "deleteAll"
  /\ Sessions(Deleted({SessionKey(pending[s].by, k) : k \in c.keys}),
              Idle.call, s)

createDevice(s, a, d) ==
  /\ UNCHANGED checks
  /\ Arrives(s, "device", a, DeviceCreation(a, d, FALSE))

(* A handler of one statement.                                             *)
DeviceStatement(stored) ==
  /\ "device" \in scope
  /\ devices' = stored
  /\ UNCHANGED <<accounts, requests, numbers, asked, redis, checks>>
  /\ Aside

updateDevice(a, d) == Updatable(a) /\ DeviceStatement(Updated(a, d))

deleteDevice(a) == DeviceStatement(devices \ DevicesOf(a))

-----------------------------------------------------------------------------
(***************************************************************************)
(* Profiles and the change of a phone.                                     *)
(***************************************************************************)
(* generateUsername looks the name up, the user's own included.            *)
completeProfile(s, u, n) ==
  \E name \in {n} \X
       IF \E a \in DOMAIN accounts : accounts[a].userName = <<n, Null>>
       THEN Suffixes ELSE {Null} :
    /\ UNCHANGED checks
    /\ Arrives(s, "profile", u, [do |-> "saveProfile", name |-> name])

SaveProfile(s, c) ==
  /\ c.do = "saveProfile"
  /\ LET u == pending[s].by
     IN  Put(u, [accounts[u] EXCEPT !.userName = c.name])
  /\ End(s)

requestPhoneChange(s, u, p) ==
  /\ Cardinality(asked) < MaxAsked
  /\ Holder(p) \subseteq {u}
  /\ UNCHANGED checks
  /\ Arrives(s, "change", u, [do |-> "comparePhone", phone |-> p])

ComparePhone(s, c) ==
  /\ c.do = "comparePhone"
  /\ Read(s, accounts[pending[s].by].phone # c.phone,
          [c EXCEPT !.do = "addRequest"])

AddRequest(s, c) ==
  /\ c.do = "addRequest"
  /\ LET u == pending[s].by
     IN  /\ requests' = requests
              \union {[user |-> u, phone |-> c.phone, fresh |-> TRUE]}
         /\ asked' = asked \union {<<u, c.phone>>}
  /\ End(s)
  /\ UNCHANGED <<accounts, numbers, devices, redis, checks>>

verifyPhoneChange(s, u, p) ==
  /\ Holder(p) = {}
  /\ UNCHANGED checks
  /\ Arrives(s, "change", u, [do |-> "findRequest", phone |-> p])

(* Faulty variant: anybody's request for the phone is taken.               *)
RequestsForPhone(u, p) == {r \in requests : r.phone = p}

RequestsFor(u, p) == {r \in requests : r.user = u /\ r.phone = p}

(* findFirst without orderBy takes any of them, and an expired one ends    *)
(* the handler though there may be a fresh one.                            *)
FindRequest(s, c) ==
  /\ c.do = "findRequest"
  /\ LET found == RequestsFor(pending[s].by, c.phone)
     IN  \/ \E r \in found : Read(s, r.fresh, [c EXCEPT !.do = "dropRequests"])
         \/ found = {} /\ Read(s, FALSE, c)

DropRequests(s, c) ==
  /\ c.do = "dropRequests"
  /\ requests' = {r \in requests : r.user # pending[s].by}
  /\ GoOn(s, [c EXCEPT !.do = "changePhone"])
  /\ UNCHANGED <<accounts, numbers, devices, asked, redis, checks>>

ChangePhone(s, c) ==
  /\ c.do = "changePhone"
  /\ LET u == pending[s].by
     IN  Put(u, [accounts[u] EXCEPT !.phone = c.phone])
  /\ End(s)

-----------------------------------------------------------------------------
(***************************************************************************)
(* Additional numbers.  The checks run in forEach(async ...): the handler  *)
(* does not wait for them, and what they throw reaches nobody but Node,    *)
(* which stops the server.                                                 *)
(***************************************************************************)
LinkedTo(n) == {u \in Accounts : <<n, u>> \in numbers}

NewCheck(u, n, legal, next) ==
  [user |-> u, phone |-> n, legal |-> legal, next |-> next]

(* "legal": the number is nobody's when the request arrives.               *)
connectAnotherPhones(s, u, N) ==
  /\ Arrives(s, "link", u, [do |-> "findNumbers", numbers |-> N])
  /\ checks' = checks \union
       {NewCheck(u, n, Holder(n) = {} /\ LinkedTo(n) = {}, "primary") :
          n \in N}

(* "legal": the number is the user's own when the request arrives.         *)
disconnectExistingPhones(s, u, N) ==
  /\ Arrives(s, "unlink", u, [do |-> "deleteNumbers", numbers |-> N])
  /\ checks' = checks \union
       {NewCheck(u, n, LinkedTo(n) = {u}, "owned") : n \in N}

(* What a check does not put up with.                                      *)
Refuted(c) ==
  CASE c.next = "primary" -> Holder(c.phone) # {}
    [] c.next = "number"  -> LinkedTo(c.phone) # {}
    [] c.next = "owned"   -> LinkedTo(c.phone) # {c.user}

CheckPasses(c) ==
  /\ ~Refuted(c)
  /\ checks' = IF c.next = "primary"
               THEN (checks \ {c}) \union {[c EXCEPT !.next = "number"]}
               ELSE checks \ {c}
  /\ UNCHANGED <<rows, redis>>
  /\ Aside

(* The server stops and is started again: what is in flight is lost.       *)
Lost ==
  /\ pending' = [s \in Slots |-> Idle]
  /\ checks' = {}
  /\ orphaned' = {k \in DOMAIN sessions : ~sessions[k]}
  /\ UNCHANGED <<rows, sessions, scope>>

CheckThrows(c) == Refuted(c) /\ Lost

FindNumbers(s, c) ==
  /\ c.do = "findNumbers"
  /\ Read(s, \A n \in c.numbers : LinkedTo(n) = {},
          [c EXCEPT !.do = "insertNumbers"])

SetNumbers(s, set) ==
  /\ numbers' = set
  /\ End(s)
  /\ UNCHANGED <<accounts, requests, devices, asked, redis, checks>>

(* Faulty variant: createMany with skipDuplicates.                         *)
InsertFreeNumbers(s, c) ==
  /\ c.do = "insertNumbers"
  /\ SetNumbers(s, numbers \union
       ({n \in c.numbers : LinkedTo(n) = {}} \X {pending[s].by}))

InsertNumbers(s, c) ==
  /\ c.do = "insertNumbers"
  /\ SetNumbers(s, IF \A n \in c.numbers : LinkedTo(n) = {}
                   THEN numbers \union (c.numbers \X {pending[s].by})
                   ELSE numbers)

DeleteNumbers(s, c) ==
  /\ c.do = "deleteNumbers"
  /\ SetNumbers(s, numbers \ (c.numbers \X {pending[s].by}))

-----------------------------------------------------------------------------
(* Time, and the server.                                                   *)
TimePasses(what) == what /\ UNCHANGED checks /\ Aside

CodeExpires(a) ==
  /\ "time" \in scope
  /\ accounts[a].code = "fresh"
  /\ TimePasses(Put(a, [accounts[a] EXCEPT !.code = "expired"]))

RequestExpires(r) ==
  /\ "time" \in scope
  /\ r.fresh
  /\ requests' = (requests \ {r}) \union {[r EXCEPT !.fresh = FALSE]}
  /\ TimePasses(UNCHANGED <<accounts, numbers, devices, asked, redis>>)

SessionExpires(k) ==
  /\ k \in DOMAIN sessions /\ sessions[k]
  /\ sessions' = Deleted({k})
  /\ TimePasses(UNCHANGED <<rows, orphaned>>)

Restart == "crash" \in scope /\ Lost

-----------------------------------------------------------------------------
Lists == {N \in SUBSET Phones :
            /\ Cardinality(N) \in 1..MaxNumbers
            /\ Cardinality(checks) + Cardinality(N) <= MaxChecks}

Arrive(s) ==
  \/ \E p \in Phones :
       sendOtp(s, p) \/ \E d \in Devices : verifyOtp(s, p, d)
  \/ \E u \in DOMAIN accounts :
       \/ \E id \in SessionIds : deleteUserSession(s, u, id)
       \/ deleteMySessions(s, u)
       \/ \E d \in Devices : createDevice(s, u, d)
       \/ \E n \in Names : completeProfile(s, u, n)
       \/ \E p \in Phones :
            requestPhoneChange(s, u, p) \/ verifyPhoneChange(s, u, p)
       \/ \E N \in Lists :
            connectAnotherPhones(s, u, N) \/ disconnectExistingPhones(s, u, N)

Proceed(s) ==
  LET c == pending[s].call
  IN  \/ RenewCode(s, c) \/ CreateUser(s, c) \/ FindCode(s, c)
      \/ ClearCode(s, c) \/ FindDevice(s, c) \/ UpdateDevice(s, c)
      \/ CreateDevice(s, c) \/ CreateSession(s, c) \/ ExpireSession(s, c)
      \/ DeleteKeys(s, c) \/ DeleteAll(s, c) \/ SaveProfile(s, c)
      \/ ComparePhone(s, c) \/ AddRequest(s, c) \/ FindRequest(s, c)
      \/ DropRequests(s, c) \/ ChangePhone(s, c) \/ FindNumbers(s, c)
      \/ InsertNumbers(s, c) \/ DeleteNumbers(s, c)

Next ==
  \/ \E s \in Slots : Arrive(s) \/ Proceed(s)
  \/ \E c \in checks : CheckPasses(c) \/ CheckThrows(c)
  \/ \E a \in DOMAIN accounts :
       \/ \E d \in Devices : updateDevice(a, d)
       \/ deleteDevice(a)
       \/ CodeExpires(a)
  \/ \E r \in requests : RequestExpires(r)
  \/ \E k \in Accounts \X SessionIds : SessionExpires(k)
  \/ Restart

(* A statement in flight is not put off for ever, and Redis drops what has *)
(* expired.                                                                *)
Spec ==
  /\ Init /\ [][Next]_vars
  /\ \A s \in Slots : WF_vars(Proceed(s))
  /\ \A k \in Accounts \X SessionIds : WF_vars(SessionExpires(k))

-----------------------------------------------------------------------------
(***************************************************************************)
(* Properties.                                                             *)
(***************************************************************************)
(* Two accounts never share a phone or a user name, and a number is linked *)
(* to one of them: every handler looks first and writes later.             *)
AccountsDistinct ==
  /\ \A a, b \in DOMAIN accounts : a # b =>
       /\ accounts[a].phone # accounts[b].phone
       /\ accounts[a].userName = accounts[b].userName =>
            accounts[a].userName = Null
  /\ \A n \in Phones : Cardinality(LinkedTo(n)) <= 1

(* No session is left to live for ever but by a stop of the server: each   *)
(* one expires, or a login that is still in flight will see to that,       *)
(* whoever logs out and in again between its two calls of Redis.           *)
SessionsAwaited ==
  \A k \in DOMAIN sessions :
    \/ sessions[k]
    \/ k \in orphaned
    \/ \E s \in Slots : Doing(s, "expireSession") /\ pending[s].call.key = k

(* A session ends: whatever its user does, it is gone some day, unless the *)
(* server stopped before the session was given its expiry.                 *)
SessionsEnd ==
  \A k \in Accounts \X SessionIds :
    k \in DOMAIN sessions ~> k \notin DOMAIN sessions \/ k \in orphaned

(* The phone of a user only changes to one he asked for, whoever else      *)
(* changes phones at the same time.                                        *)
ChangedAsAsked ==
  [][\A a \in DOMAIN accounts :
       accounts'[a].phone # accounts[a].phone =>
         <<a, accounts'[a].phone>> \in asked]_vars

(* The numbers of one request are linked together or not at all, whoever   *)
(* else links one of them.                                                 *)
ConnectedTogether ==
  [][numbers' \ numbers # {} =>
       \E s \in Slots : /\ Doing(s, "insertNumbers")
                        /\ numbers' \ numbers =
                             pending[s].call.numbers \X {pending[s].by}]_vars

(* The tables keep the PhoneBook: who signs up, changes his phone or links *)
(* numbers does so in one statement, whose constraints, and the request    *)
(* the handler has looked up and dropped before, stand for the checks it   *)
(* made when others were still in flight.                                  *)
Book == INSTANCE PhoneBook WITH
  People  <- Accounts,
  Numbers <- Phones,
  phones  <- [a \in DOMAIN accounts |-> accounts[a].phone],
  wishes  <- asked,
  linked  <- numbers

ImplementsPhoneBook == Book!BookSpec

(* "Phone number already linked as additional verification method for      *)
(* you!": a check of connectAnotherPhones does not find linked a number    *)
(* that was nobody's when the request arrived.                             *)
LegalNumbersPass == \A c \in checks : c.legal => ~Refuted(c)

(* "Delete All My Sessions": the sessions a user had when he asked for     *)
(* that are gone when the handler ends.                                    *)
AllSessionsDeleted ==
  [][\A s \in Slots : Doing(s, "deleteAll") /\ pending'[s] = Idle =>
       pending[s].call.keys \intersect DOMAIN sessions' = {}]_vars
=============================================================================
