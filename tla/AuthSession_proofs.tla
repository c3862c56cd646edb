------------------------- MODULE AuthSession_proofs -------------------------
(***************************************************************************)
(* Theorems about AuthSession for every set of accounts, phones, devices,  *)
(* names and slots, every bound and every mix of operations.               *)
(***************************************************************************)
EXTENDS AuthSession, FiniteSetTheorems, TLAPS

Keys == Accounts \X SessionIds

(***************************************************************************)
(* What the handler of a request may have to do next, with its locals.     *)
(***************************************************************************)
Codings == [do : {"renewCode", "createUser"}, phone : Phones]

Logins == [ do : {"findCode", "clearCode"}, phone : Phones,
            device : Devices ]

Creations == [ do : {"findDevice", "updateDevice", "createDevice"},
               user : Accounts, device : Devices, login : BOOLEAN ]

Beginnings == [do : {"createSession"}, user : Accounts]

Expiries == [do : {"expireSession"}, key : Keys]

Deletions == [do : {"deleteKeys", "deleteAll"}, keys : SUBSET Keys]

Profiles == [do : {"saveProfile"}, name : UserNames]

Changes == [ do : {"comparePhone", "addRequest", "findRequest",
                   "dropRequests", "changePhone"},
             phone : Phones ]

Linkings == [ do : {"findNumbers", "insertNumbers", "deleteNumbers"},
              numbers : SUBSET Phones ]

Call == Codings \union Logins \union Creations \union Beginnings
          \union Expiries \union Deletions \union Profiles \union Changes
          \union Linkings

(* The steps of handlers that act for the account that is logged in.       *)
OwnSteps == {"deleteKeys", "deleteAll", "saveProfile", "comparePhone",
             "addRequest", "findRequest", "dropRequests", "changePhone",
             "findNumbers", "insertNumbers", "deleteNumbers"}

(* The steps after the look-up of a request for a phone.                   *)
Granted == {"dropRequests", "changePhone"}

Request == [by : Accounts \union Phones, call : Call]

(* A handler acts for an account that exists, changes a phone only to one  *)
(* its user asked for, and gives an expiry to a session that its own login *)
(* created, which is not one that a stop of the server has left without.   *)
Sound(r) ==
  /\ r \in Request
  /\ r.call.do \in OwnSteps => r.by \in DOMAIN accounts
  /\ r.call.do \in Granted => <<r.by, r.call.phone>> \in asked
  /\ r.call.do = "expireSession" => r.call.key \notin orphaned

PendingOK ==
  /\ pending \in [Slots -> Request \union {Idle}]
  /\ \A s \in Slots : InFlight(s) => Sound(pending[s])

AccountsApart ==
  \A a, b \in DOMAIN accounts : a # b =>
    /\ accounts[a].phone # accounts[b].phone
    /\ accounts[a].userName = accounts[b].userName =>
         accounts[a].userName = Null

NumbersOnce == \A x, y \in numbers : x[1] = y[1] => x = y

RequestsAsked == \A r \in requests : <<r.user, r.phone>> \in asked

OrphansStay == \A k \in orphaned : ~sessions[k]

RowsOK ==
  /\ TypeOK /\ AccountsApart /\ NumbersOnce /\ RequestsAsked
  /\ OrphansStay

(* The inductive invariant.                                                *)
IInv == RowsOK /\ PendingOK

(* What every step does while the server runs: accounts and wishes stay, a *)
(* phone changes to one that was asked for, and no session is orphaned.    *)
PhonesAsAsked ==
  \A a \in DOMAIN accounts :
    accounts'[a].phone # accounts[a].phone =>
      <<a, accounts'[a].phone>> \in asked

Grows ==
  /\ DOMAIN accounts \subseteq DOMAIN accounts'
  /\ asked \subseteq asked'
  /\ orphaned' \subseteq orphaned
  /\ PhonesAsAsked

-----------------------------------------------------------------------------
(* The slots.                                                              *)

(* What a call says it does determines which locals it has.                *)
LEMMA CallKinds ==
  ASSUME NEW c \in Call
  PROVE  /\ c.do \in {"renewCode", "createUser"} => c \in Codings
         /\ c.do \in {"findCode", "clearCode"} => c \in Logins
         /\ c.do \in {"findDevice", "updateDevice", "createDevice"} =>
              c \in Creations
         /\ c.do = "createSession" => c \in Beginnings
         /\ c.do = "expireSession" => c \in Expiries
         /\ c.do \in {"deleteKeys", "deleteAll"} => c \in Deletions
         /\ c.do = "saveProfile" => c \in Profiles
         /\ c.do \in {"comparePhone", "addRequest", "findRequest",
                      "dropRequests", "changePhone"} => c \in Changes
         /\ c.do \in {"findNumbers", "insertNumbers", "deleteNumbers"} =>
              c \in Linkings
         /\ c.do \notin {"idle", "stopped"}
BY DEF Call, Codings, Logins, Creations, Beginnings, Expiries, Deletions,
       Profiles, Changes, Linkings

(* A slot whose handler has something to do holds a sound request.         *)
LEMMA BusyRequest ==
  ASSUME PendingOK, NEW s \in Slots, pending[s].call.do # "idle"
  PROVE  /\ Sound(pending[s]) /\ pending[s] \in Request
         /\ pending[s].call \in Call
         /\ pending[s].by \in Accounts \union Phones
<1>1. InFlight(s)
  <2>1. pending[s] \in Request
    BY DEF PendingOK, Idle
  <2>2. pending[s].call.do # "stopped"
    BY <2>1, CallKinds DEF Request
  <2>3. QED
    BY <2>2 DEF InFlight, Idle, Stopped
<1>2. Sound(pending[s])
  BY <1>1 DEF PendingOK
<1>3. QED
  BY <1>2 DEF Sound, Request

(* What is sound stays so.                                                 *)
LEMMA StaysSound ==
  ASSUME Grows, NEW r, Sound(r)
  PROVE  Sound(r)'
BY DEF Sound, Grows

LEMMA SamePending ==
  ASSUME PendingOK, Grows, pending' = pending
  PROVE  PendingOK'
BY StaysSound DEF PendingOK, InFlight

LEMMA EndKeeps ==
  ASSUME PendingOK, Grows, NEW s \in Slots, End(s)
  PROVE  PendingOK'
<1>1. /\ pending' \in [Slots -> Request \union {Idle}]
      /\ pending'[s] = Idle
      /\ \A t \in Slots \ {s} : pending'[t] = pending[t]
  BY DEF End, PendingOK
<1>2. QED
  BY <1>1, StaysSound DEF PendingOK, InFlight

(* The request in slot s is r afterwards.                                  *)
LEMMA SlotKeeps ==
  ASSUME PendingOK, Grows, NEW s \in Slots, NEW r, Sound(r)',
         pending' = [pending EXCEPT ![s] = r]
  PROVE  PendingOK'
<1>1. r \in Request
  BY DEF Sound
<1>2. /\ pending' \in [Slots -> Request \union {Idle}]
      /\ pending'[s] = r
      /\ \A t \in Slots \ {s} : pending'[t] = pending[t]
  BY <1>1 DEF PendingOK
<1>3. QED
  BY <1>2, StaysSound DEF PendingOK, InFlight

(* A handler of somebody who is logged in goes on with another step of     *)
(* such a handler, or with one that anybody's may do.                      *)
LEMMA GoOnKeeps ==
  ASSUME PendingOK, Grows, NEW s \in Slots, Sound(pending[s]),
         NEW c \in Call, GoOn(s, c),
         c.do \in OwnSteps => pending[s].call.do \in OwnSteps,
         c.do \in Granted => <<pending[s].by, c.phone>> \in asked,
         c.do = "expireSession" => c.key \notin orphaned
  PROVE  PendingOK'
<1>0. PICK r : r = [pending[s] EXCEPT !.call = c]
  OBVIOUS
<1>1. r \in Request /\ r.by = pending[s].by /\ r.call = c
  BY <1>0 DEF Sound, Request
<1>2. pending' = [pending EXCEPT ![s] = r]
  BY <1>0 DEF GoOn, PendingOK
<1>3. Sound(r)'
  BY <1>1 DEF Sound, Grows
<1>4. QED
  BY <1>2, <1>3, SlotKeeps

LEMMA GoOnIfKeeps ==
  ASSUME PendingOK, Grows, NEW s \in Slots, Sound(pending[s]),
         NEW ok, NEW c, GoOnIf(s, ok, c),
         ok => /\ c \in Call
               /\ c.do \in OwnSteps => pending[s].call.do \in OwnSteps
               /\ c.do \in Granted => <<pending[s].by, c.phone>> \in asked
               /\ c.do # "expireSession"
  PROVE  PendingOK'
BY EndKeeps, GoOnKeeps DEF GoOnIf

LEMMA EnterKeeps ==
  ASSUME PendingOK, Grows, NEW s \in Slots,
         NEW u \in Accounts \union Phones, NEW c \in Call, Enter(s, u, c),
         c.do \in OwnSteps => u \in DOMAIN accounts, c.do \notin Granted,
         c.do # "expireSession"
  PROVE  PendingOK'
<1> DEFINE r == [by |-> u, call |-> c]
<1>1. r \in Request /\ r.by = u /\ r.call = c
  BY DEF Request
<1>2. pending' = [pending EXCEPT ![s] = r]
  BY DEF Enter
<1> HIDE DEF r
<1>3. Sound(r)'
  BY <1>1 DEF Sound, Grows
<1>4. QED
  BY <1>2, <1>3, SlotKeeps

-----------------------------------------------------------------------------
(* The statements.                                                         *)

LEMMA NoUpdateKeeps ==
  ASSUME RowsOK, UNCHANGED <<rows, redis>>, checks' \subseteq Check
  PROVE  RowsOK' /\ Grows
BY DEF rows, redis, RowsOK, TypeOK, AccountsApart, NumbersOnce,
       RequestsAsked, OrphansStay, Grows, PhonesAsAsked

(* The update of one account, or a new one.                                *)
LEMMA PutKeeps ==
  ASSUME RowsOK, NEW a \in Accounts, NEW row \in User, Put(a, row),
         a \in DOMAIN accounts => \/ row.phone = accounts[a].phone
                                  \/ <<a, row.phone>> \in asked
  PROVE  RowsOK' /\ Grows
<1>1. CASE ~Fits(a, row)
  <2>1. UNCHANGED <<rows, redis>> /\ checks' \subseteq Check
    BY <1>1 DEF Put, rows, redis, RowsOK, TypeOK
  <2>2. QED
    BY <2>1, NoUpdateKeeps
<1>2. CASE Fits(a, row)
  <2>1. accounts' = [b \in DOMAIN accounts \union {a} |->
                       IF b = a THEN row ELSE accounts[b]]
    BY <1>2 DEF Put, WithRow
  <2>2. /\ DOMAIN accounts' = DOMAIN accounts \union {a}
        /\ accounts'[a] = row
        /\ \A b \in DOMAIN accounts \ {a} : accounts'[b] = accounts[b]
    BY <2>1
  <2>3. /\ requests' = requests /\ numbers' = numbers
        /\ devices' = devices /\ asked' = asked /\ sessions' = sessions
        /\ orphaned' = orphaned /\ checks' = checks
    BY DEF Put, redis
  <2>4. TypeOK'
    BY <2>2, <2>3 DEF RowsOK, TypeOK
  <2>5. AccountsApart'
    BY <1>2, <2>2 DEF RowsOK, AccountsApart, Fits
  <2>6. NumbersOnce' /\ RequestsAsked' /\ OrphansStay'
    BY <2>3 DEF RowsOK, NumbersOnce, RequestsAsked, OrphansStay
  <2>7. Grows
    BY <2>2, <2>3 DEF Grows, PhonesAsAsked
  <2>8. QED
    BY <2>4, <2>5, <2>6, <2>7 DEF RowsOK
<1>3. QED
  BY <1>1, <1>2

(* Well-formed rows of the tables that are not about phones.               *)
LEMMA OthersKeep ==
  ASSUME RowsOK, UNCHANGED <<accounts, asked, redis, checks>>,
         devices' \subseteq Accounts \X Devices,
         numbers' \subseteq Phones \X Accounts, NumbersOnce',
         requests' \subseteq [user : Accounts, phone : Phones,
                              fresh : BOOLEAN],
         RequestsAsked'
  PROVE  RowsOK' /\ Grows
BY DEF redis, RowsOK, TypeOK, AccountsApart, OrphansStay, Grows,
       PhonesAsAsked

LEMMA SessionsKeep ==
  ASSUME RowsOK, NEW s, NEW c, NEW f, Sessions(f, c, s),
         DOMAIN f \subseteq Keys, \A k \in DOMAIN f : f[k] \in BOOLEAN,
         \A k \in DOMAIN f : k \in orphaned => ~f[k]
  PROVE  RowsOK' /\ Grows
BY DEF Sessions, rows, Keys, RowsOK, TypeOK, AccountsApart, NumbersOnce,
       RequestsAsked, OrphansStay, Grows, PhonesAsAsked

(* Time passes for the sessions, or the server stops.                      *)
LEMMA RedisKeeps ==
  ASSUME RowsOK, UNCHANGED rows, checks' \subseteq Check,
         DOMAIN sessions' \subseteq DOMAIN sessions,
         \A k \in DOMAIN sessions' : sessions'[k] = sessions[k],
         orphaned' \subseteq DOMAIN sessions', OrphansStay'
  PROVE  /\ RowsOK' /\ PhonesAsAsked
         /\ orphaned' \subseteq orphaned => Grows
BY DEF rows, RowsOK, TypeOK, AccountsApart, NumbersOnce, RequestsAsked,
       Grows, PhonesAsAsked

-----------------------------------------------------------------------------
(* The steps of the handlers, each with the case of an update.             *)

(* An account keeps its type when a column changes.                        *)
LEMMA Columns ==
  ASSUME TypeOK, NEW a \in DOMAIN accounts
  PROVE  /\ a \in Accounts
         /\ \A code \in Codes :
              /\ [accounts[a] EXCEPT !.code = code] \in User
              /\ [accounts[a] EXCEPT !.code = code].phone = accounts[a].phone
         /\ [accounts[a] EXCEPT !.code = "none", !.isActive = TRUE] \in User
         /\ [accounts[a] EXCEPT !.code = "none", !.isActive = TRUE].phone
              = accounts[a].phone
         /\ \A n \in UserNames :
              /\ [accounts[a] EXCEPT !.userName = n] \in User
              /\ [accounts[a] EXCEPT !.userName = n].phone
                   = accounts[a].phone
         /\ \A p \in Phones :
              /\ [accounts[a] EXCEPT !.phone = p] \in User
              /\ [accounts[a] EXCEPT !.phone = p].phone = p
<1>1. a \in Accounts /\ accounts[a] \in User
  BY DEF TypeOK
<1>2. QED
  BY <1>1 DEF User, Codes

LEMMA CodeStepsKeep ==
  ASSUME IInv, NEW s \in Slots, Sound(pending[s]), NEW c \in Call,
         RenewCode(s, c) \/ CreateUser(s, c)
  PROVE  RowsOK' /\ Grows /\ PendingOK'
<1>1. End(s) /\ checks' \subseteq Check
  BY DEF RenewCode, CreateUser, Put, NoUpdate, IInv, RowsOK, TypeOK
<1>2. c.phone \in Phones
  BY CallKinds DEF RenewCode, CreateUser, Codings
<1>3. CASE NoUpdate
  BY <1>1, <1>3, NoUpdateKeeps, EndKeeps DEF NoUpdate, IInv
<1>4. CASE \E a \in Holder(c.phone) :
             Put(a, [accounts[a] EXCEPT !.code = "fresh"])
  <2>1. PICK a \in DOMAIN accounts :
          Put(a, [accounts[a] EXCEPT !.code = "fresh"])
    BY <1>4 DEF Holder
  <2>2. RowsOK' /\ Grows
    BY <2>1, Columns, PutKeeps DEF IInv, RowsOK, Codes
  <2>3. QED
    BY <1>1, <2>2, EndKeeps DEF IInv
<1>5. CASE \E a \in Accounts \ DOMAIN accounts :
             Put(a, NewUser(c.phone, "fresh"))
  <2>1. PICK a \in Accounts \ DOMAIN accounts :
          Put(a, NewUser(c.phone, "fresh"))
    BY <1>5
  <2>2. NewUser(c.phone, "fresh") \in User
    BY <1>2 DEF NewUser, User, Codes
  <2>3. RowsOK' /\ Grows
    BY <2>1, <2>2, PutKeeps DEF IInv
  <2>4. QED
    BY <1>1, <2>3, EndKeeps DEF IInv
<1>6. QED
  <2>1. CASE RenewCode(s, c)
    BY <1>3, <1>4, <2>1 DEF RenewCode
  <2>2. CASE CreateUser(s, c)
    <3>1. CASE DOMAIN accounts = Accounts
      BY <1>3, <2>2, <3>1 DEF CreateUser
    <3>2. CASE DOMAIN accounts # Accounts
      <4> DEFINE new == CHOOSE a \in Accounts : a \notin DOMAIN accounts
      <4>1. \E a \in Accounts : a \notin DOMAIN accounts
        BY <3>2 DEF IInv, RowsOK, TypeOK
      <4>2. new \in Accounts \ DOMAIN accounts
        BY <4>1
      <4>3. Put(new, NewUser(c.phone, "fresh"))
        BY <2>2, <3>2 DEF CreateUser
      <4>4. QED
        BY <1>5, <4>2, <4>3
    <3>3. QED
      BY <3>1, <3>2
  <2>3. QED
    BY <2>1, <2>2

(* The steps that only read.                                               *)
LEMMA ReadKeeps ==
  ASSUME IInv, NEW s \in Slots, Sound(pending[s]), NEW ok, NEW c,
         Read(s, ok, c),
         ok => /\ c \in Call
               /\ c.do \in OwnSteps => pending[s].call.do \in OwnSteps
               /\ c.do \in Granted => <<pending[s].by, c.phone>> \in asked
               /\ c.do # "expireSession"
  PROVE  RowsOK' /\ Grows /\ PendingOK'
<1>1. UNCHANGED <<rows, redis>> /\ checks' \subseteq Check
  BY DEF Read, rows, redis, IInv, RowsOK, TypeOK
<1>2. RowsOK' /\ Grows
  BY <1>1, NoUpdateKeeps DEF IInv
<1>3. QED
  BY <1>2, GoOnIfKeeps DEF Read, IInv

LEMMA ReadsKeep ==
  ASSUME IInv, NEW s \in Slots, Sound(pending[s]), NEW c \in Call,
         c = pending[s].call,
         \/ FindCode(s, c) \/ FindDevice(s, c) \/ ComparePhone(s, c)
         \/ FindRequest(s, c) \/ FindNumbers(s, c)
  PROVE  RowsOK' /\ Grows /\ PendingOK'
<1>1. CASE FindCode(s, c)
  <2>1. /\ [c EXCEPT !.do = "clearCode"] \in Logins
        /\ [c EXCEPT !.do = "clearCode"].do = "clearCode"
    BY <1>1, CallKinds DEF FindCode, Logins
  <2>2. QED
    BY <1>1, <2>1, ReadKeeps DEF FindCode, Call, OwnSteps, Granted
<1>2. CASE FindDevice(s, c)
  <2> DEFINE d == [c EXCEPT !.do = IF \E x \in devices : x[1] = c.user
                                   THEN "updateDevice" ELSE "createDevice"]
  <2>1. d \in Creations /\ d.do \in {"updateDevice", "createDevice"}
    BY <1>2, CallKinds DEF FindDevice, Creations
  <2>2. Read(s, TRUE, d)
    BY <1>2 DEF FindDevice
  <2> HIDE DEF d
  <2>3. QED
    BY <2>1, <2>2, ReadKeeps DEF Call, OwnSteps, Granted
<1>3. CASE ComparePhone(s, c)
  <2>1. /\ [c EXCEPT !.do = "addRequest"] \in Changes
        /\ [c EXCEPT !.do = "addRequest"].do = "addRequest"
    BY <1>3, CallKinds DEF ComparePhone, Changes
  <2>2. c.do \in OwnSteps
    BY <1>3 DEF ComparePhone, OwnSteps
  <2>3. QED
    BY <1>3, <2>1, <2>2, ReadKeeps DEF ComparePhone, Call, Granted
<1>4. CASE FindRequest(s, c)
  <2> DEFINE d == [c EXCEPT !.do = "dropRequests"]
  <2>1. d \in Changes /\ d.do = "dropRequests" /\ d.phone = c.phone
    BY <1>4, CallKinds DEF FindRequest, Changes
  <2>2. c.do \in OwnSteps
    BY <1>4 DEF FindRequest, OwnSteps
  <2>3. CASE \E r \in RequestsFor(pending[s].by, c.phone) :
               Read(s, r.fresh, d)
    <3>1. PICK r \in RequestsFor(pending[s].by, c.phone) :
            Read(s, r.fresh, d)
      BY <2>3
    <3>2. <<pending[s].by, c.phone>> \in asked
      BY DEF RequestsFor, IInv, RowsOK, RequestsAsked
    <3> HIDE DEF d
    <3>3. QED
      BY <2>1, <2>2, <3>1, <3>2, ReadKeeps DEF Call
  <2>4. CASE Read(s, FALSE, c)
    BY <2>4, ReadKeeps
  <2>5. QED
    BY <1>4, <2>3, <2>4 DEF FindRequest
<1>5. CASE FindNumbers(s, c)
  <2>1. /\ [c EXCEPT !.do = "insertNumbers"] \in Linkings
        /\ [c EXCEPT !.do = "insertNumbers"].do = "insertNumbers"
    BY <1>5, CallKinds DEF FindNumbers, Linkings
  <2>2. c.do \in OwnSteps
    BY <1>5 DEF FindNumbers, OwnSteps
  <2>3. QED
    BY <1>5, <2>1, <2>2, ReadKeeps DEF FindNumbers, Call, Granted
<1>6. QED
  BY <1>1, <1>2, <1>3, <1>4, <1>5

LEMMA LoginStepsKeep ==
  ASSUME IInv, NEW s \in Slots, Sound(pending[s]), NEW c \in Call,
         ClearCode(s, c) \/ UpdateDevice(s, c) \/ CreateDevice(s, c)
  PROVE  RowsOK' /\ Grows /\ PendingOK'
<1>1. CASE ClearCode(s, c)
  <2>1. CASE NoUpdate /\ End(s)
    <3>1. checks' \subseteq Check
      BY <2>1 DEF NoUpdate, IInv, RowsOK, TypeOK
    <3>2. QED
      BY <2>1, <3>1, NoUpdateKeeps, EndKeeps DEF NoUpdate, IInv
  <2>2. CASE \E a \in Holder(c.phone) :
               /\ Put(a, [accounts[a] EXCEPT !.code = "none",
                                             !.isActive = TRUE])
               /\ GoOn(s, DeviceCreation(a, c.device, TRUE))
    <3>1. PICK a \in DOMAIN accounts :
            /\ Put(a, [accounts[a] EXCEPT !.code = "none",
                                          !.isActive = TRUE])
            /\ GoOn(s, DeviceCreation(a, c.device, TRUE))
      BY <2>2 DEF Holder
    <3>2. RowsOK' /\ Grows
      BY <3>1, Columns, PutKeeps DEF IInv, RowsOK
    <3>3. c.device \in Devices /\ a \in Accounts
      BY <1>1, CallKinds DEF ClearCode, Logins, IInv, RowsOK, TypeOK
    <3>4. /\ DeviceCreation(a, c.device, TRUE) \in Creations
          /\ DeviceCreation(a, c.device, TRUE).do = "findDevice"
      BY <3>3 DEF DeviceCreation, Creations
    <3>5. PendingOK'
      BY <3>1, <3>2, <3>4, GoOnKeeps DEF IInv, Call, OwnSteps, Granted
    <3>6. QED
      BY <3>2, <3>5
  <2>3. QED
    BY <1>1, <2>1, <2>2 DEF ClearCode
<1>2. ASSUME NEW ok, NEW stored, c.user \in Accounts,
             ok => stored \subseteq Accounts \X Devices,
             StoreDevice(s, c, ok, stored)
      PROVE  RowsOK' /\ Grows /\ PendingOK'
  <2>1. /\ UNCHANGED <<accounts, requests, numbers, asked, redis, checks>>
        /\ devices' \subseteq Accounts \X Devices
        /\ GoOnIf(s, ok /\ c.login, [do |-> "createSession",
                                     user |-> c.user])
    BY <1>2 DEF StoreDevice, IInv, RowsOK, TypeOK
  <2>2. RowsOK' /\ Grows
    BY <2>1, OthersKeep
       DEF IInv, RowsOK, TypeOK, NumbersOnce, RequestsAsked
  <2>3. [do |-> "createSession", user |-> c.user] \in Call
    BY <1>2 DEF Call, Beginnings
  <2>4. PendingOK'
    BY <2>1, <2>2, <2>3, GoOnIfKeeps DEF IInv, OwnSteps, Granted
  <2>5. QED
    BY <2>2, <2>4
<1>3. CASE UpdateDevice(s, c) \/ CreateDevice(s, c)
  <2>1. c.user \in Accounts /\ c.device \in Devices
    BY <1>3, CallKinds DEF UpdateDevice, CreateDevice, Creations
  <2>2. /\ Updated(c.user, c.device) \subseteq Accounts \X Devices
        /\ devices \union {<<c.user, c.device>>} \subseteq Accounts \X Devices
    BY <2>1 DEF Updated, IInv, RowsOK, TypeOK
  <2>3. QED
    BY <1>2, <1>3, <2>1, <2>2 DEF UpdateDevice, CreateDevice
<1>4. QED
  BY <1>1, <1>3

LEMMA SessionStepsKeep ==
  ASSUME IInv, NEW s \in Slots, Sound(pending[s]), NEW c \in Call,
         c = pending[s].call,
         \/ CreateSession(s, c) \/ ExpireSession(s, c)
         \/ DeleteKeys(s, c) \/ DeleteAll(s, c)
  PROVE  RowsOK' /\ Grows /\ PendingOK'
<1>1. ASSUME NEW f, NEW d, Sessions(f, d, s),
             DOMAIN f \subseteq Keys,
             \A k \in DOMAIN f : f[k] \in BOOLEAN,
             \A k \in DOMAIN f : k \in orphaned => ~f[k],
             d = Idle.call \/ (d \in Expiries /\ d.key \notin orphaned)
      PROVE  RowsOK' /\ Grows /\ PendingOK'
  <2>1. RowsOK' /\ Grows
    BY <1>1, SessionsKeep DEF IInv
  <2>2. End(s) \/ (GoOn(s, d) /\ d \in Expiries /\ d.key \notin orphaned)
    BY <1>1 DEF Sessions
  <2>3. d \in Expiries => d \in Call /\ d.do = "expireSession"
    BY DEF Expiries, Call
  <2>4. PendingOK'
    BY <2>1, <2>2, <2>3, EndKeeps, GoOnKeeps DEF IInv, OwnSteps, Granted
  <2>5. QED
    BY <2>1, <2>4
<1>2. /\ DOMAIN sessions \subseteq Keys
      /\ \A k \in DOMAIN sessions : sessions[k] \in BOOLEAN
      /\ \A k \in DOMAIN sessions : k \in orphaned => ~sessions[k]
      /\ orphaned \subseteq DOMAIN sessions
  BY DEF IInv, RowsOK, TypeOK, OrphansStay, Keys
<1>3. CASE CreateSession(s, c)
  <2>1. FreeKeys(c.user) # {} /\ c.user \in Accounts
    BY <1>3, CallKinds DEF CreateSession, Beginnings
  <2> DEFINE k == NewKey(c.user)
             f == WithRow(sessions, k, FALSE)
             d == [do |-> "expireSession", key |-> k]
  <2>2. k \in Keys /\ k \notin DOMAIN sessions
    <3>1. k \in FreeKeys(c.user)
      BY <2>1 DEF NewKey
    <3>2. QED
      BY <2>1, <3>1 DEF FreeKeys, SessionKey, Keys
  <2>3. Sessions(f, d, s)
    BY <1>3 DEF CreateSession
  <2> HIDE DEF k
  <2>4. /\ DOMAIN f \subseteq Keys /\ \A i \in DOMAIN f : f[i] \in BOOLEAN
        /\ \A i \in DOMAIN f : i \in orphaned => ~f[i]
    BY <1>2, <2>2 DEF WithRow
  <2>5. d \in Expiries /\ d.key \notin orphaned
    BY <1>2, <2>2 DEF Expiries
  <2> HIDE DEF f, d
  <2>6. QED
    BY <1>1, <2>3, <2>4, <2>5
<1>4. CASE ExpireSession(s, c)
  <2> DEFINE f == [k \in DOMAIN sessions |-> sessions[k] \/ k = c.key]
  <2>1. Sessions(f, Idle.call, s)
    BY <1>4 DEF ExpireSession
  <2>2. c.key \notin orphaned
    BY <1>4 DEF ExpireSession, Sound
  <2>3. /\ DOMAIN f \subseteq Keys /\ \A k \in DOMAIN f : f[k] \in BOOLEAN
        /\ \A k \in DOMAIN f : k \in orphaned => ~f[k]
    BY <1>2, <2>2
  <2> HIDE DEF f
  <2>4. QED
    BY <1>1, <2>1, <2>3
<1>5. CASE DeleteKeys(s, c) \/ DeleteAll(s, c)
  <2>1. PICK keys : Sessions(Deleted(keys), Idle.call, s)
    BY <1>5 DEF DeleteKeys, DeleteAll
  <2>2. /\ DOMAIN Deleted(keys) \subseteq Keys
        /\ \A k \in DOMAIN Deleted(keys) :
             /\ Deleted(keys)[k] \in BOOLEAN
             /\ k \in orphaned => ~Deleted(keys)[k]
    BY <1>2 DEF Deleted
  <2>3. QED
    BY <1>1, <2>1, <2>2
<1>6. QED
  BY <1>3, <1>4, <1>5

(* The steps of the handlers of one account.                               *)
LEMMA AccountStepsKeep ==
  ASSUME IInv, NEW s \in Slots, Sound(pending[s]), NEW c \in Call,
         c = pending[s].call, SaveProfile(s, c) \/ ChangePhone(s, c)
  PROVE  RowsOK' /\ Grows /\ PendingOK'
<1> DEFINE u == pending[s].by
<1>1. End(s) /\ u \in DOMAIN accounts
  BY DEF SaveProfile, ChangePhone, Sound, OwnSteps
<1>2. CASE SaveProfile(s, c)
  <2>1. c.name \in UserNames
    BY <1>2, CallKinds DEF SaveProfile, Profiles
  <2>2. Put(u, [accounts[u] EXCEPT !.userName = c.name])
    BY <1>2 DEF SaveProfile
  <2>3. RowsOK' /\ Grows
    BY <1>1, <2>1, <2>2, Columns, PutKeeps DEF IInv, RowsOK
  <2>4. QED
    BY <1>1, <2>3, EndKeeps DEF IInv
<1>3. CASE ChangePhone(s, c)
  <2>1. c.phone \in Phones /\ <<u, c.phone>> \in asked
    BY <1>3, CallKinds DEF ChangePhone, Changes, Sound, Granted
  <2>2. Put(u, [accounts[u] EXCEPT !.phone = c.phone])
    BY <1>3 DEF ChangePhone
  <2>3. RowsOK' /\ Grows
    BY <1>1, <2>1, <2>2, Columns, PutKeeps DEF IInv, RowsOK
  <2>4. QED
    BY <1>1, <2>3, EndKeeps DEF IInv
<1>4. QED
  BY <1>2, <1>3

LEMMA WishStepsKeep ==
  ASSUME IInv, NEW s \in Slots, Sound(pending[s]), NEW c \in Call,
         c = pending[s].call, AddRequest(s, c) \/ DropRequests(s, c)
  PROVE  RowsOK' /\ Grows /\ PendingOK'
<1> DEFINE u == pending[s].by
<1>1. /\ u \in Accounts /\ c.phone \in Phones
      /\ c \in Changes
  <2>1. u \in DOMAIN accounts
    BY DEF AddRequest, DropRequests, Sound, OwnSteps
  <2>2. c \in Changes
    BY CallKinds DEF AddRequest, DropRequests
  <2>3. QED
    BY <2>1, <2>2 DEF Changes, IInv, RowsOK, TypeOK
<1>2. CASE AddRequest(s, c)
  <2> DEFINE r == [user |-> u, phone |-> c.phone, fresh |-> TRUE]
  <2>1. /\ r \in [user : Accounts, phone : Phones, fresh : BOOLEAN]
        /\ r.user = u /\ r.phone = c.phone
    BY <1>1
  <2>2. /\ requests' = requests \union {r}
        /\ asked' = asked \union {<<u, c.phone>>}
        /\ UNCHANGED <<accounts, numbers, devices, redis, checks>> /\ End(s)
    BY <1>2 DEF AddRequest
  <2> HIDE DEF r
  <2>3. TypeOK'
    BY <1>1, <2>1, <2>2 DEF redis, IInv, RowsOK, TypeOK
  <2>4. RequestsAsked'
    BY <2>1, <2>2 DEF IInv, RowsOK, RequestsAsked
  <2>5. AccountsApart' /\ NumbersOnce' /\ OrphansStay' /\ Grows
    BY <2>2 DEF redis, IInv, RowsOK, AccountsApart, NumbersOnce,
       OrphansStay, Grows, PhonesAsAsked
  <2>6. QED
    BY <2>2, <2>3, <2>4, <2>5, EndKeeps DEF IInv, RowsOK
<1>3. CASE DropRequests(s, c)
  <2>1. requests' \subseteq requests
    BY <1>3 DEF DropRequests
  <2>2. RowsOK' /\ Grows
    BY <1>3, <2>1, OthersKeep
       DEF DropRequests, IInv, RowsOK, TypeOK, NumbersOnce, RequestsAsked
  <2> DEFINE d == [c EXCEPT !.do = "changePhone"]
  <2>3. d \in Changes /\ d.do = "changePhone" /\ d.phone = c.phone
    BY <1>1 DEF Changes
  <2>4. GoOn(s, d)
    BY <1>3 DEF DropRequests
  <2> HIDE DEF d
  <2>5. <<u, d.phone>> \in asked /\ c.do \in OwnSteps
    BY <1>3, <2>3 DEF DropRequests, Sound, Granted, OwnSteps
  <2>6. PendingOK'
    BY <2>2, <2>3, <2>4, <2>5, GoOnKeeps DEF IInv, Call
  <2>7. QED
    BY <2>2, <2>6
<1>4. QED
  BY <1>2, <1>3

LEMMA NumberStepsKeep ==
  ASSUME IInv, NEW s \in Slots, Sound(pending[s]), NEW c \in Call,
         c = pending[s].call, InsertNumbers(s, c) \/ DeleteNumbers(s, c)
  PROVE  RowsOK' /\ Grows /\ PendingOK'
<1> DEFINE u == pending[s].by
<1>1. u \in Accounts /\ c.numbers \subseteq Phones
  <2>1. u \in DOMAIN accounts
    BY DEF InsertNumbers, DeleteNumbers, Sound, OwnSteps
  <2>2. c \in Linkings
    BY CallKinds DEF InsertNumbers, DeleteNumbers
  <2>3. QED
    BY <2>1, <2>2 DEF Linkings, IInv, RowsOK, TypeOK
<1>2. numbers \subseteq Phones \X Accounts /\ NumbersOnce
  BY DEF IInv, RowsOK, TypeOK
<1>3. PICK set : SetNumbers(s, set) /\ \/ set \subseteq numbers
                                       \/ /\ set = numbers
                                                \union (c.numbers \X {u})
                                          /\ \A n \in c.numbers :
                                               LinkedTo(n) = {}
  BY DEF InsertNumbers, DeleteNumbers
<1>4. numbers' \subseteq Phones \X Accounts
  BY <1>1, <1>2, <1>3 DEF SetNumbers
<1>5. NumbersOnce'
  <2>1. CASE set \subseteq numbers
    BY <1>2, <1>3, <2>1 DEF SetNumbers, NumbersOnce
  <2>2. CASE /\ set = numbers \union (c.numbers \X {u})
             /\ \A n \in c.numbers : LinkedTo(n) = {}
    <3>1. \A x \in numbers : x[1] \notin c.numbers
      BY <1>2, <2>2 DEF LinkedTo
    <3>2. QED
      BY <1>2, <1>3, <2>2, <3>1 DEF SetNumbers, NumbersOnce
  <2>3. QED
    BY <1>3, <2>1, <2>2
<1>6. /\ UNCHANGED <<accounts, requests, devices, asked, redis, checks>>
      /\ End(s)
  BY <1>3 DEF SetNumbers
<1>7. RowsOK' /\ Grows
  BY <1>4, <1>5, <1>6, OthersKeep DEF IInv, RowsOK, TypeOK, RequestsAsked
<1>8. QED
  BY <1>6, <1>7, EndKeeps DEF IInv

(* Every step of a handler.                                                *)
LEMMA ProceedKeeps ==
  ASSUME IInv, NEW s \in Slots, Proceed(s)
  PROVE  RowsOK' /\ Grows /\ PendingOK'
<1>1. pending[s].call.do # "idle"
  BY DEF Proceed, RenewCode, CreateUser, FindCode, ClearCode, FindDevice,
     UpdateDevice, CreateDevice, CreateSession, ExpireSession, DeleteKeys,
     DeleteAll, SaveProfile, ComparePhone, AddRequest, FindRequest,
     DropRequests, ChangePhone, FindNumbers, InsertNumbers, DeleteNumbers
<1>2. Sound(pending[s]) /\ pending[s].call \in Call
  BY <1>1, BusyRequest DEF IInv
<1>3. PICK c \in Call : c = pending[s].call
  BY <1>2
<1>4. \/ RenewCode(s, c) \/ CreateUser(s, c) \/ FindCode(s, c)
      \/ ClearCode(s, c) \/ FindDevice(s, c) \/ UpdateDevice(s, c)
      \/ CreateDevice(s, c) \/ CreateSession(s, c) \/ ExpireSession(s, c)
      \/ DeleteKeys(s, c) \/ DeleteAll(s, c) \/ SaveProfile(s, c)
      \/ ComparePhone(s, c) \/ AddRequest(s, c) \/ FindRequest(s, c)
      \/ DropRequests(s, c) \/ ChangePhone(s, c) \/ FindNumbers(s, c)
      \/ InsertNumbers(s, c) \/ DeleteNumbers(s, c)
  BY <1>3 DEF Proceed
<1>5. QED
  BY <1>2, <1>3, <1>4, CodeStepsKeep, ReadsKeep, LoginStepsKeep,
     SessionStepsKeep, AccountStepsKeep, WishStepsKeep, NumberStepsKeep

-----------------------------------------------------------------------------
(* Requests, time and the server.                                          *)

(* A request arrives: nothing but its slot and its checks changes.         *)
LEMMA ArrivesKeeps ==
  ASSUME IInv, NEW s \in Slots, NEW op,
         NEW u \in Accounts \union Phones, NEW c \in Call,
         Arrives(s, op, u, c), checks' \subseteq Check,
         c.do \in OwnSteps => u \in DOMAIN accounts, c.do \notin Granted,
         c.do # "expireSession"
  PROVE  RowsOK' /\ Grows /\ PendingOK'
<1>1. UNCHANGED <<rows, redis>> /\ Enter(s, u, c)
  BY DEF Arrives, rows, redis
<1>2. RowsOK' /\ Grows
  BY <1>1, NoUpdateKeeps DEF IInv
<1>3. QED
  BY <1>1, <1>2, EnterKeeps DEF IInv

(* What arrives from somebody who need not be logged in.                   *)
LEMMA GuestKeeps ==
  ASSUME IInv, NEW s \in Slots, NEW p \in Phones,
         sendOtp(s, p) \/ \E d \in Devices : verifyOtp(s, p, d)
  PROVE  RowsOK' /\ Grows /\ PendingOK'
<1>1. checks' \subseteq Check
  BY DEF sendOtp, verifyOtp, IInv, RowsOK, TypeOK
<1>2. CASE sendOtp(s, p)
  <2> DEFINE c == [ do |-> IF Holder(p) # {} THEN "renewCode"
                           ELSE "createUser", phone |-> p ]
  <2>1. c \in Codings /\ c.do \in {"renewCode", "createUser"}
    BY DEF Codings
  <2>2. Arrives(s, "code", p, c)
    BY <1>2 DEF sendOtp
  <2> HIDE DEF c
  <2>3. /\ c \in Call /\ c.do \notin OwnSteps /\ c.do \notin Granted
        /\ c.do # "expireSession"
    BY <2>1 DEF Call, OwnSteps, Granted
  <2>4. QED
    BY <1>1, <2>2, <2>3, ArrivesKeeps
<1>3. ASSUME NEW d \in Devices, verifyOtp(s, p, d)
      PROVE  RowsOK' /\ Grows /\ PendingOK'
  <2> DEFINE c == [do |-> "findCode", phone |-> p, device |-> d]
  <2>1. c \in Logins /\ c.do = "findCode"
    BY DEF Logins
  <2>2. Arrives(s, "login", p, c)
    BY <1>3 DEF verifyOtp
  <2> HIDE DEF c
  <2>3. /\ c \in Call /\ c.do \notin OwnSteps /\ c.do \notin Granted
        /\ c.do # "expireSession"
    BY <2>1 DEF Call, OwnSteps, Granted
  <2>4. QED
    BY <1>1, <2>2, <2>3, ArrivesKeeps
<1>4. QED
  BY <1>2, <1>3

(* What arrives from somebody who is logged in, without checks.            *)
LEMMA MemberKeeps ==
  ASSUME IInv, NEW s \in Slots, NEW u \in DOMAIN accounts,
         \/ \E id \in SessionIds : deleteUserSession(s, u, id)
         \/ deleteMySessions(s, u)
         \/ \E d \in Devices : createDevice(s, u, d)
         \/ \E n \in Names : completeProfile(s, u, n)
         \/ \E p \in Phones :
              requestPhoneChange(s, u, p) \/ verifyPhoneChange(s, u, p)
  PROVE  RowsOK' /\ Grows /\ PendingOK'
<1>1. checks' \subseteq Check
  BY DEF deleteUserSession, deleteMySessions, createDevice, completeProfile,
     requestPhoneChange, verifyPhoneChange, IInv, RowsOK, TypeOK
<1>2. u \in Accounts
  BY DEF IInv, RowsOK, TypeOK
<1>3. ASSUME NEW op, NEW c \in Call, Arrives(s, op, u, c),
             c.do \notin Granted, c.do # "expireSession"
      PROVE  RowsOK' /\ Grows /\ PendingOK'
  BY <1>1, <1>2, <1>3, ArrivesKeeps
<1>4. ASSUME NEW id \in SessionIds, deleteUserSession(s, u, id)
      PROVE  RowsOK' /\ Grows /\ PendingOK'
  <2> DEFINE c == [do |-> "deleteKeys", keys |-> {SessionKey(u, id)}]
  <2>1. c \in Deletions /\ c.do = "deleteKeys"
    BY <1>2 DEF Deletions, Keys, SessionKey
  <2>2. Arrives(s, "logout", u, c)
    BY <1>4 DEF deleteUserSession
  <2> HIDE DEF c
  <2>3. QED
    BY <1>3, <2>1, <2>2 DEF Call, Granted
<1>5. CASE deleteMySessions(s, u)
  <2> DEFINE c == [ do |-> "deleteAll",
                    keys |-> {k \in DOMAIN sessions : k[1] = u} ]
  <2>1. DOMAIN sessions \subseteq Keys
    BY DEF IInv, RowsOK, TypeOK, Keys
  <2>2. c \in Deletions /\ c.do = "deleteAll"
    BY <2>1 DEF Deletions
  <2>3. Arrives(s, "logout", u, c)
    BY <1>5 DEF deleteMySessions
  <2> HIDE DEF c
  <2>4. QED
    BY <1>3, <2>2, <2>3 DEF Call, Granted
<1>6. ASSUME NEW d \in Devices, createDevice(s, u, d)
      PROVE  RowsOK' /\ Grows /\ PendingOK'
  <2>1. /\ DeviceCreation(u, d, FALSE) \in Creations
        /\ DeviceCreation(u, d, FALSE).do = "findDevice"
    BY <1>2 DEF DeviceCreation, Creations
  <2>2. Arrives(s, "device", u, DeviceCreation(u, d, FALSE))
    BY <1>6 DEF createDevice
  <2>3. QED
    BY <1>3, <2>1, <2>2 DEF Call, Granted
<1>7. ASSUME NEW n \in Names, completeProfile(s, u, n)
      PROVE  RowsOK' /\ Grows /\ PendingOK'
  <2>1. PICK name \in UserNames :
          Arrives(s, "profile", u, [do |-> "saveProfile", name |-> name])
    BY <1>7 DEF completeProfile, UserNames
  <2>2. /\ [do |-> "saveProfile", name |-> name] \in Profiles
        /\ [do |-> "saveProfile", name |-> name].do = "saveProfile"
    BY DEF Profiles
  <2>3. QED
    BY <1>3, <2>1, <2>2 DEF Call, Granted
<1>8. ASSUME NEW p \in Phones,
             requestPhoneChange(s, u, p) \/ verifyPhoneChange(s, u, p)
      PROVE  RowsOK' /\ Grows /\ PendingOK'
  <2>1. PICK step \in {"comparePhone", "findRequest"} :
          Arrives(s, "change", u, [do |-> step, phone |-> p])
    BY <1>8 DEF requestPhoneChange, verifyPhoneChange
  <2>2. /\ [do |-> step, phone |-> p] \in Changes
        /\ [do |-> step, phone |-> p].do = step
    BY DEF Changes
  <2>3. QED
    BY <1>3, <2>1, <2>2 DEF Call, Granted
<1>9. QED
  BY <1>4, <1>5, <1>6, <1>7, <1>8

(* The requests whose checks run on their own.                             *)
LEMMA CheckedKeeps ==
  ASSUME IInv, NEW s \in Slots, NEW u \in DOMAIN accounts,
         NEW N \in SUBSET Phones,
         connectAnotherPhones(s, u, N) \/ disconnectExistingPhones(s, u, N)
  PROVE  RowsOK' /\ Grows /\ PendingOK'
<1>1. u \in Accounts /\ checks \subseteq Check
  BY DEF IInv, RowsOK, TypeOK
<1>2. \A n \in N : \A legal \in BOOLEAN :
        \A next \in {"primary", "number", "owned"} :
          NewCheck(u, n, legal, next) \in Check
  BY <1>1 DEF NewCheck, Check
<1>3. checks' \subseteq Check
  <2>1. CASE connectAnotherPhones(s, u, N)
    BY <1>1, <1>2, <2>1 DEF connectAnotherPhones
  <2>2. CASE disconnectExistingPhones(s, u, N)
    BY <1>1, <1>2, <2>2 DEF disconnectExistingPhones
  <2>3. QED
    BY <2>1, <2>2
<1>4. PICK op \in {"link", "unlink"},
           step \in {"findNumbers", "deleteNumbers"} :
        Arrives(s, op, u, [do |-> step, numbers |-> N])
  BY DEF connectAnotherPhones, disconnectExistingPhones
<1>5. /\ [do |-> step, numbers |-> N] \in Linkings
      /\ [do |-> step, numbers |-> N].do = step
  BY DEF Linkings
<1>6. QED
  BY <1>1, <1>3, <1>4, <1>5, ArrivesKeeps DEF Call, Granted

LEMMA ArriveKeeps ==
  ASSUME IInv, NEW s \in Slots, Arrive(s)
  PROVE  RowsOK' /\ Grows /\ PendingOK'
<1>1. \A N \in Lists : N \in SUBSET Phones
  BY DEF Lists
<1>2. CASE \E p \in Phones :
             sendOtp(s, p) \/ \E d \in Devices : verifyOtp(s, p, d)
  BY <1>2, GuestKeeps
<1>3. CASE \E u \in DOMAIN accounts : \E N \in Lists :
             \/ connectAnotherPhones(s, u, N)
             \/ disconnectExistingPhones(s, u, N)
  BY <1>1, <1>3, CheckedKeeps
<1>4. CASE \E u \in DOMAIN accounts :
             \/ \E id \in SessionIds : deleteUserSession(s, u, id)
             \/ deleteMySessions(s, u)
             \/ \E d \in Devices : createDevice(s, u, d)
             \/ \E n \in Names : completeProfile(s, u, n)
             \/ \E p \in Phones : \/ requestPhoneChange(s, u, p)
                                  \/ verifyPhoneChange(s, u, p)
  BY <1>4, MemberKeeps
<1>5. QED
  BY <1>2, <1>3, <1>4 DEF Arrive

(* The server stops.                                                       *)
LEMMA LostKeeps ==
  ASSUME IInv, Lost
  PROVE  RowsOK' /\ PhonesAsAsked /\ PendingOK'
<1>1. RowsOK' /\ PhonesAsAsked
  BY RedisKeeps DEF Lost, rows, IInv, OrphansStay
<1>2. PendingOK'
  BY DEF Lost, PendingOK, InFlight
<1>3. QED
  BY <1>1, <1>2

LEMMA ChecksKeep ==
  ASSUME IInv, NEW c \in checks, CheckPasses(c) \/ CheckThrows(c)
  PROVE  RowsOK' /\ PhonesAsAsked /\ PendingOK'
<1>1. CASE CheckPasses(c)
  <2>1. c \in Check /\ checks \subseteq Check
    BY DEF IInv, RowsOK, TypeOK
  <2>2. [c EXCEPT !.next = "number"] \in Check
    BY <2>1 DEF Check
  <2>3. /\ checks' \subseteq Check /\ UNCHANGED <<rows, redis>>
        /\ pending' = pending
    BY <1>1, <2>1, <2>2 DEF CheckPasses, Aside
  <2>4. QED
    BY <2>3, NoUpdateKeeps, SamePending DEF IInv, Grows
<1>2. CASE CheckThrows(c)
  BY <1>2, LostKeeps DEF CheckThrows
<1>3. QED
  BY <1>1, <1>2

LEMMA DevicesKeep ==
  ASSUME IInv, NEW a \in DOMAIN accounts,
         (\E d \in Devices : updateDevice(a, d)) \/ deleteDevice(a)
  PROVE  RowsOK' /\ Grows /\ PendingOK'
<1>1. a \in Accounts /\ devices \subseteq Accounts \X Devices
  BY DEF IInv, RowsOK, TypeOK
<1>2. \A d \in Devices : Updated(a, d) \subseteq Accounts \X Devices
  BY <1>1 DEF Updated
<1>3. PICK stored \in SUBSET (Accounts \X Devices) : DeviceStatement(stored)
  <2>1. CASE \E d \in Devices : updateDevice(a, d)
    BY <1>2, <2>1 DEF updateDevice
  <2>2. CASE deleteDevice(a)
    BY <1>1, <2>2 DEF deleteDevice
  <2>3. QED
    BY <2>1, <2>2
<1>4. /\ UNCHANGED <<accounts, requests, numbers, asked, redis, checks>>
      /\ devices' \subseteq Accounts \X Devices /\ pending' = pending
  BY <1>3 DEF DeviceStatement, Aside
<1>5. RowsOK' /\ Grows
  BY <1>4, OthersKeep DEF IInv, RowsOK, TypeOK, NumbersOnce, RequestsAsked
<1>6. QED
  BY <1>4, <1>5, SamePending DEF IInv

LEMMA TimeKeeps ==
  ASSUME IInv,
         \/ \E a \in DOMAIN accounts : CodeExpires(a)
         \/ \E r \in requests : RequestExpires(r)
         \/ \E k \in Keys : SessionExpires(k)
  PROVE  RowsOK' /\ Grows /\ PendingOK'
<1>1. pending' = pending /\ checks' = checks
  BY DEF CodeExpires, RequestExpires, SessionExpires, TimePasses, Aside
<1>2. CASE \E a \in DOMAIN accounts : CodeExpires(a)
  <2>1. PICK a \in DOMAIN accounts :
          Put(a, [accounts[a] EXCEPT !.code = "expired"])
    BY <1>2 DEF CodeExpires, TimePasses
  <2>2. RowsOK' /\ Grows
    BY <2>1, Columns, PutKeeps DEF IInv, RowsOK, Codes
  <2>3. QED
    BY <1>1, <2>2, SamePending DEF IInv
<1>3. CASE \E r \in requests : RequestExpires(r)
  <2>1. PICK r \in requests : RequestExpires(r)
    BY <1>3
  <2>2. r \in [user : Accounts, phone : Phones, fresh : BOOLEAN]
    BY DEF IInv, RowsOK, TypeOK
  <2> DEFINE e == [r EXCEPT !.fresh = FALSE]
  <2>3. /\ e \in [user : Accounts, phone : Phones, fresh : BOOLEAN]
        /\ e.user = r.user /\ e.phone = r.phone
    BY <2>2
  <2>4. /\ requests' = (requests \ {r}) \union {e}
        /\ UNCHANGED <<accounts, numbers, devices, asked, redis, checks>>
    BY <2>1 DEF RequestExpires, TimePasses
  <2> HIDE DEF e
  <2>5. /\ requests' \subseteq [user : Accounts, phone : Phones,
                                fresh : BOOLEAN]
        /\ RequestsAsked'
    BY <2>3, <2>4 DEF IInv, RowsOK, TypeOK, RequestsAsked
  <2>6. RowsOK' /\ Grows
    BY <2>4, <2>5, OthersKeep DEF IInv, RowsOK, TypeOK, NumbersOnce
  <2>7. QED
    BY <1>1, <2>6, SamePending DEF IInv
<1>4. CASE \E k \in Keys : SessionExpires(k)
  <2>1. PICK k : /\ sessions[k] /\ sessions' = Deleted({k})
                 /\ UNCHANGED <<rows, orphaned>>
    BY <1>4 DEF SessionExpires, TimePasses
  <2>2. /\ DOMAIN sessions' \subseteq DOMAIN sessions
        /\ \A x \in DOMAIN sessions' : sessions'[x] = sessions[x]
    BY <2>1 DEF Deleted
  <2>3. orphaned' \subseteq DOMAIN sessions' /\ OrphansStay'
    BY <2>1 DEF Deleted, IInv, RowsOK, TypeOK, OrphansStay
  <2>4. RowsOK' /\ Grows
    BY <1>1, <2>1, <2>2, <2>3, RedisKeeps DEF IInv, RowsOK, TypeOK
  <2>5. QED
    BY <1>1, <2>4, SamePending DEF IInv
<1>5. QED
  BY <1>2, <1>3, <1>4

-----------------------------------------------------------------------------
(* The invariant.                                                          *)

LEMMA InitOK == Init => IInv
<1> SUFFICES ASSUME Init PROVE IInv
  OBVIOUS
<1>1. PendingOK
  BY DEF Init, NoRequests, PendingOK, InFlight
<1>2. /\ requests = {} /\ numbers = {} /\ devices = {}
      /\ sessions = Nothing /\ checks = {} /\ asked = {} /\ orphaned = {}
  BY DEF Init
<1>3. DOMAIN Nothing = {}
  BY DEF Nothing
<1>4. /\ DOMAIN accounts \subseteq Accounts
      /\ \A a \in DOMAIN accounts : accounts[a] \in User
      /\ AccountsApart
  <2>1. CASE accounts = Nothing
    BY <1>3, <2>1 DEF AccountsApart
  <2>2. CASE accounts # Nothing
    <3> DEFINE phone == CHOOSE f \in OwnPhones : TRUE
               A == IF "alone" \in scope
                    THEN {CHOOSE a \in Accounts : TRUE} ELSE Accounts
    <3>1. phone \in OwnPhones
      BY AuthAssumption
    <3>2. A \subseteq Accounts
      BY AuthAssumption
    <3>3. accounts = [a \in A |->
            [NewUser(phone[a], "none") EXCEPT !.isActive = TRUE]]
      BY <2>2 DEF Init
    <3> HIDE DEF phone, A
    <3>4. \A a \in A : /\ phone[a] \in Phones
                       /\ \A b \in A : phone[a] = phone[b] => a = b
      BY <3>1, <3>2 DEF OwnPhones
    <3>5. \A a \in A : accounts[a] = [phone |-> phone[a], code |-> "none",
                                      isActive |-> TRUE, userName |-> Null]
      BY <3>3 DEF NewUser
    <3>6. DOMAIN accounts = A
      BY <3>3
    <3>7. ASSUME NEW p \in Phones
          PROVE  LET row == [ phone |-> p, code |-> "none",
                              isActive |-> TRUE, userName |-> Null ]
                 IN  row \in User /\ row.phone = p /\ row.userName = Null
      BY DEF User, Codes
    <3>8. \A a \in A : /\ accounts[a] \in User
                       /\ accounts[a].phone = phone[a]
                       /\ accounts[a].userName = Null
      <4> SUFFICES ASSUME NEW a \in A
                   PROVE  /\ accounts[a] \in User
                          /\ accounts[a].phone = phone[a]
                          /\ accounts[a].userName = Null
        OBVIOUS
      <4>1. PICK p \in Phones : p = phone[a]
        BY <3>4
      <4>2. accounts[a] = [ phone |-> p, code |-> "none",
                            isActive |-> TRUE, userName |-> Null ]
        BY <3>5, <4>1
      <4>3. QED
        BY <3>7, <4>1, <4>2
    <3>9. AccountsApart
      BY <3>4, <3>6, <3>8 DEF AccountsApart
    <3>10. QED
      BY <3>2, <3>6, <3>8, <3>9
  <2>3. QED
    BY <2>1, <2>2
<1>5. TypeOK
  BY <1>2, <1>3, <1>4 DEF TypeOK
<1>6. NumbersOnce /\ RequestsAsked /\ OrphansStay
  BY <1>2 DEF NumbersOnce, RequestsAsked, OrphansStay
<1>7. QED
  BY <1>1, <1>4, <1>5, <1>6 DEF IInv, RowsOK

(* Every step keeps the invariant, and changes phones as asked.            *)
LEMMA NextKeeps ==
  ASSUME IInv, [Next]_vars
  PROVE  IInv' /\ PhonesAsAsked
<1>1. CASE UNCHANGED vars
  <2>1. /\ UNCHANGED <<rows, redis>> /\ checks' \subseteq Check
        /\ pending' = pending
    BY <1>1 DEF vars, redis, IInv, RowsOK, TypeOK
  <2>2. QED
    BY <2>1, NoUpdateKeeps, SamePending DEF IInv, Grows
<1>2. CASE \E s \in Slots : Arrive(s) \/ Proceed(s)
  BY <1>2, ArriveKeeps, ProceedKeeps DEF IInv, Grows
<1>3. CASE \E c \in checks : CheckPasses(c) \/ CheckThrows(c)
  BY <1>3, ChecksKeep DEF IInv
<1>4. CASE \E a \in DOMAIN accounts :
             (\E d \in Devices : updateDevice(a, d)) \/ deleteDevice(a)
  BY <1>4, DevicesKeep DEF IInv, Grows
<1>5. CASE \/ \E a \in DOMAIN accounts : CodeExpires(a)
           \/ \E r \in requests : RequestExpires(r)
           \/ \E k \in Keys : SessionExpires(k)
  BY <1>5, TimeKeeps DEF IInv, Grows
<1>6. CASE Restart
  BY <1>6, LostKeeps DEF Restart, IInv
<1>7. QED
  BY <1>1, <1>2, <1>3, <1>4, <1>5, <1>6 DEF Next, Keys

LEMMA Inductive == Spec => []IInv
<1>1. IInv /\ [Next]_vars => IInv'
  BY NextKeeps
<1>2. QED
  BY InitOK, <1>1, PTL DEF Spec

-----------------------------------------------------------------------------
(* The state of the accounts is well formed in every behaviour.            *)
THEOREM AccountsTypeCorrect == Spec => []TypeOK
<1>1. IInv => TypeOK
  BY DEF IInv, RowsOK
<1>2. QED
  BY Inductive, <1>1, PTL

(* Two accounts never share a phone or a user name, and a number is linked *)
(* to one account only, whatever the handlers read before they write.      *)
THEOREM AccountsStayDistinct == Spec => []AccountsDistinct
<1>1. IInv => AccountsDistinct
  <2> SUFFICES ASSUME IInv PROVE AccountsDistinct
    OBVIOUS
  <2>1. \A n \in Phones : Cardinality(LinkedTo(n)) <= 1
    <3> SUFFICES ASSUME NEW n \in Phones
                 PROVE  Cardinality(LinkedTo(n)) <= 1
      OBVIOUS
    <3>1. \A u, v \in LinkedTo(n) : u = v
      <4> SUFFICES ASSUME NEW u \in LinkedTo(n), NEW v \in LinkedTo(n)
                   PROVE  u = v
        OBVIOUS
      <4>1. <<n, u>> \in numbers /\ <<n, v>> \in numbers
        BY DEF LinkedTo
      <4>2. <<n, u>> = <<n, v>>
        BY <4>1 DEF IInv, RowsOK, NumbersOnce
      <4>3. QED
        BY <4>2
    <3>2. LinkedTo(n) = {} \/ \E u : LinkedTo(n) = {u}
      BY <3>1
    <3>3. Cardinality(LinkedTo(n)) \in {0, 1}
      <4>1. CASE LinkedTo(n) = {}
        BY <4>1, FS_EmptySet
      <4>2. CASE \E u : LinkedTo(n) = {u}
        BY <4>2, FS_Singleton
      <4>3. QED
        BY <3>2, <4>1, <4>2
    <3>4. QED
      BY <3>3
  <2>2. QED
    BY <2>1 DEF IInv, RowsOK, AccountsApart, AccountsDistinct
<1>2. QED
  BY Inductive, <1>1, PTL

(* The phone of a user changes only to one he asked for: the row that says *)
(* so was looked up by his id, before the handler awaited two more         *)
(* statements.                                                             *)
THEOREM PhonesChangeAsAsked == Spec => ChangedAsAsked
<1> DEFINE Body == \A a \in DOMAIN accounts :
                     accounts'[a].phone # accounts[a].phone =>
                       <<a, accounts'[a].phone>> \in asked
<1>1. IInv /\ [Next]_vars => [Body]_vars
  BY NextKeeps DEF PhonesAsAsked
<1>2. QED
  BY Inductive, <1>1, PTL DEF Spec, ChangedAsAsked

-----------------------------------------------------------------------------
(* What a session waits for.                                               *)

(* A step of one slot leaves the other slots alone.                        *)
LEMMA OtherSlots ==
  ASSUME PendingOK, NEW s \in Slots,
         End(s) \/ (\E c : GoOn(s, c)) \/ (\E u, c : Enter(s, u, c))
  PROVE  \A t \in Slots \ {s} : pending'[t] = pending[t]
BY DEF PendingOK, End, GoOn, Enter

(* A step that gives no session an expiry and makes none, of a slot that   *)
(* was not about to do so.                                                 *)
LEMMA StillAwaited ==
  ASSUME SessionsAwaited, NEW s \in Slots, ~Doing(s, "expireSession"),
         \A t \in Slots \ {s} : pending'[t] = pending[t],
         DOMAIN sessions' \subseteq DOMAIN sessions,
         \A k \in DOMAIN sessions' : sessions'[k] = sessions[k],
         \A k \in DOMAIN sessions' : k \in orphaned => k \in orphaned'
  PROVE  SessionsAwaited'
BY DEF SessionsAwaited, Doing

(* The two calls of a login.                                               *)
LEMMA LoginAwaited ==
  ASSUME IInv, SessionsAwaited, NEW s \in Slots,
         NEW c, c = pending[s].call,
         CreateSession(s, c) \/ ExpireSession(s, c)
  PROVE  SessionsAwaited'
<1>1. /\ orphaned \subseteq DOMAIN sessions
      /\ \A k \in DOMAIN sessions : sessions[k] \in BOOLEAN
      /\ PendingOK
  BY DEF IInv, RowsOK, TypeOK
<1>2. CASE CreateSession(s, c)
  <2> DEFINE k == NewKey(c.user)
  <2>1. /\ sessions' = WithRow(sessions, k, FALSE)
        /\ orphaned' = orphaned \intersect
                         DOMAIN WithRow(sessions, k, FALSE)
        /\ Sessions(WithRow(sessions, k, FALSE),
                    [do |-> "expireSession", key |-> k], s)
        /\ c.do = "createSession"
    BY <1>2 DEF CreateSession, Sessions
  <2>2. GoOn(s, [do |-> "expireSession", key |-> k])
    BY <2>1 DEF Sessions, Idle
  <2> HIDE DEF k
  <2>3. /\ Doing(s, "expireSession")' /\ pending'[s].call.key = k
        /\ \A t \in Slots \ {s} : pending'[t] = pending[t]
        /\ ~Doing(s, "expireSession")
    <3>1. pending[s] \in Request
      BY <1>1, <2>1, BusyRequest
    <3>2. pending'[s].call = [do |-> "expireSession", key |-> k]
      BY <1>1, <2>2, <3>1 DEF GoOn, PendingOK, Request
    <3>3. QED
      BY <1>1, <2>1, <2>2, <3>2, OtherSlots DEF Doing
  <2>4. /\ DOMAIN sessions' = DOMAIN sessions \union {k}
        /\ \A j \in DOMAIN sessions \ {k} : sessions'[j] = sessions[j]
        /\ orphaned' = orphaned
    BY <1>1, <2>1 DEF WithRow
  <2>5. QED
    BY <2>3, <2>4 DEF SessionsAwaited, Doing
<1>3. CASE ExpireSession(s, c)
  <2> DEFINE f == [k \in DOMAIN sessions |-> sessions[k] \/ k = c.key]
  <2>1. /\ Sessions(f, Idle.call, s) /\ sessions' = f
        /\ orphaned' = orphaned \intersect DOMAIN f
    BY <1>3 DEF ExpireSession, Sessions
  <2>2. \A t \in Slots \ {s} : pending'[t] = pending[t]
    BY <1>1, <2>1, OtherSlots DEF Sessions
  <2>3. /\ DOMAIN sessions' = DOMAIN sessions
        /\ orphaned' = orphaned
        /\ \A k \in DOMAIN sessions : sessions[k] => sessions'[k]
        /\ c.key \in DOMAIN sessions => sessions'[c.key]
    BY <1>1, <2>1
  <2>4. QED
    BY <2>2, <2>3 DEF SessionsAwaited, Doing
<1>4. QED
  BY <1>2, <1>3

(* A handler's step: most leave the sessions alone.                        *)
LEMMA ProceedAwaited ==
  ASSUME IInv, SessionsAwaited, NEW s \in Slots, Proceed(s)
  PROVE  SessionsAwaited'
<1>1. PICK c : c = pending[s].call
  OBVIOUS
<1>2. CASE CreateSession(s, c) \/ ExpireSession(s, c)
  BY <1>1, <1>2, LoginAwaited
<1>3. CASE DeleteKeys(s, c) \/ DeleteAll(s, c)
  <2>1. PICK keys : Sessions(Deleted(keys), Idle.call, s)
    BY <1>3 DEF DeleteKeys, DeleteAll
  <2>2. /\ DOMAIN sessions' \subseteq DOMAIN sessions
        /\ \A k \in DOMAIN sessions' : sessions'[k] = sessions[k]
        /\ \A k \in DOMAIN sessions' : k \in orphaned => k \in orphaned'
        /\ End(s)
    BY <2>1 DEF Sessions, Deleted
  <2>3. ~Doing(s, "expireSession")
    BY <1>1, <1>3 DEF DeleteKeys, DeleteAll, Doing
  <2>4. QED
    BY <2>2, <2>3, StillAwaited, OtherSlots DEF IInv
<1>4. CASE \/ RenewCode(s, c) \/ CreateUser(s, c) \/ FindCode(s, c)
           \/ ClearCode(s, c) \/ FindDevice(s, c) \/ UpdateDevice(s, c)
           \/ CreateDevice(s, c) \/ SaveProfile(s, c)
           \/ ComparePhone(s, c) \/ AddRequest(s, c) \/ FindRequest(s, c)
           \/ DropRequests(s, c) \/ ChangePhone(s, c) \/ FindNumbers(s, c)
           \/ InsertNumbers(s, c) \/ DeleteNumbers(s, c)
  <2>1. UNCHANGED redis
    BY <1>4 DEF RenewCode, CreateUser, FindCode, ClearCode, FindDevice,
       UpdateDevice, CreateDevice, SaveProfile, ComparePhone, AddRequest,
       FindRequest, DropRequests, ChangePhone, FindNumbers, InsertNumbers,
       DeleteNumbers, Read, Put, NoUpdate, StoreDevice, SetNumbers
  <2>2. End(s) \/ \E d : GoOn(s, d)
    BY <1>4 DEF RenewCode, CreateUser, FindCode, ClearCode, FindDevice,
       UpdateDevice, CreateDevice, SaveProfile, ComparePhone, AddRequest,
       FindRequest, DropRequests, ChangePhone, FindNumbers, InsertNumbers,
       DeleteNumbers, Read, StoreDevice, SetNumbers, GoOnIf
  <2>3. ~Doing(s, "expireSession")
    BY <1>1, <1>4 DEF Doing, RenewCode, CreateUser, FindCode, ClearCode,
       FindDevice, UpdateDevice, CreateDevice, SaveProfile, ComparePhone,
       AddRequest, FindRequest, DropRequests, ChangePhone, FindNumbers,
       InsertNumbers, DeleteNumbers
  <2>4. QED
    BY <2>1, <2>2, <2>3, StillAwaited, OtherSlots DEF IInv, redis
<1>5. QED
  BY <1>1, <1>2, <1>3, <1>4 DEF Proceed

LEMMA ArriveAwaited ==
  ASSUME IInv, SessionsAwaited, NEW s \in Slots, Arrive(s)
  PROVE  SessionsAwaited'
<1>1. PICK op, u, c : Arrives(s, op, u, c)
  BY DEF Arrive, sendOtp, verifyOtp, deleteUserSession, deleteMySessions,
     createDevice, completeProfile, requestPhoneChange, verifyPhoneChange,
     connectAnotherPhones, disconnectExistingPhones
<1>2. Enter(s, u, c) /\ UNCHANGED redis
  BY <1>1 DEF Arrives
<1>3. ~Doing(s, "expireSession")
  BY <1>2 DEF Enter, InFlight, Doing, Idle, Stopped
<1>4. QED
  BY <1>2, <1>3, StillAwaited, OtherSlots DEF IInv, redis

(* Every session expires some day, waits for the call of a login that is   *)
(* in flight, or lost that with the server: the half of SessionsEnd that   *)
(* needs no fairness.                                                      *)
THEOREM SessionsAlwaysAwaited == Spec => []SessionsAwaited
<1>1. Init => SessionsAwaited
  BY DEF Init, SessionsAwaited, Nothing
<1>2. IInv /\ SessionsAwaited /\ [Next]_vars => SessionsAwaited'
  <2> SUFFICES ASSUME IInv, SessionsAwaited, [Next]_vars
               PROVE  SessionsAwaited'
    OBVIOUS
  <2>1. CASE \E s \in Slots : Arrive(s) \/ Proceed(s)
    BY <2>1, ArriveAwaited, ProceedAwaited
  <2>2. CASE Lost
    BY <2>2 DEF Lost, SessionsAwaited
  <2>3. CASE UNCHANGED <<redis, pending>>
    BY <2>3 DEF redis, SessionsAwaited, Doing
  <2>4. CASE \E k \in Accounts \X SessionIds : SessionExpires(k)
    <3>1. PICK k : /\ sessions' = Deleted({k})
                   /\ orphaned' = orphaned /\ pending' = pending
      BY <2>4 DEF SessionExpires, TimePasses, Aside
    <3>2. QED
      BY <3>1 DEF Deleted, SessionsAwaited, Doing
  <2>5. CASE \E c \in checks : CheckPasses(c) \/ CheckThrows(c)
    BY <2>2, <2>3, <2>5 DEF CheckPasses, CheckThrows, Aside
  <2>6. CASE \/ \E a \in DOMAIN accounts :
                  \/ \E d \in Devices : updateDevice(a, d)
                  \/ deleteDevice(a)
                  \/ CodeExpires(a)
             \/ \E r \in requests : RequestExpires(r)
    BY <2>3, <2>6 DEF updateDevice, deleteDevice, DeviceStatement,
       CodeExpires, RequestExpires, TimePasses, Put, Aside
  <2>7. QED
    BY <2>1, <2>2, <2>3, <2>4, <2>5, <2>6 DEF Next, Restart, vars, redis
<1>3. QED
  BY Inductive, <1>1, <1>2, PTL DEF Spec

-----------------------------------------------------------------------------
(* The numbers of a request.                                               *)

(* One statement inserts numbers, all those of its request that are new.   *)
LEMMA InsertionsWhole ==
  ASSUME IInv, [Next]_vars, numbers' \ numbers # {}
  PROVE  \E s \in Slots :
           /\ Doing(s, "insertNumbers")
           /\ numbers' \ numbers =
                pending[s].call.numbers \X {pending[s].by}
<1>1. PICK s \in Slots : Proceed(s)
  <2> USE DEF rows
  <2>1. ~UNCHANGED numbers
    OBVIOUS
  <2>2. ~\E s \in Slots : Arrive(s)
    BY <2>1 DEF Arrive, Arrives, sendOtp, verifyOtp, deleteUserSession,
       deleteMySessions, createDevice, completeProfile, requestPhoneChange,
       verifyPhoneChange, connectAnotherPhones, disconnectExistingPhones
  <2>3. ~\E c \in checks : CheckPasses(c) \/ CheckThrows(c)
    BY <2>1 DEF CheckPasses, CheckThrows, Lost
  <2>4. ~\E a \in DOMAIN accounts :
           \/ \E d \in Devices : updateDevice(a, d)
           \/ deleteDevice(a)
           \/ CodeExpires(a)
    BY <2>1 DEF updateDevice, deleteDevice, DeviceStatement, CodeExpires,
       TimePasses, Put
  <2>5. ~\E r \in requests : RequestExpires(r)
    BY <2>1 DEF RequestExpires, TimePasses
  <2>6. ~(\E k \in Accounts \X SessionIds : SessionExpires(k))
    BY <2>1 DEF SessionExpires, TimePasses
  <2>7. ~Restart
    BY <2>1 DEF Restart, Lost
  <2>8. QED
    BY <2>1, <2>2, <2>3, <2>4, <2>5, <2>6, <2>7 DEF Next, vars
<1>2. PICK c : c = pending[s].call
  OBVIOUS
<1>3. InsertNumbers(s, c)
  BY <1>1, <1>2 DEF Proceed, RenewCode, CreateUser, FindCode, ClearCode,
     FindDevice, UpdateDevice, CreateDevice, CreateSession, ExpireSession,
     DeleteKeys, DeleteAll, SaveProfile, ComparePhone, AddRequest,
     FindRequest, DropRequests, ChangePhone, FindNumbers, DeleteNumbers,
     Read, Put, NoUpdate, StoreDevice, Sessions, SetNumbers, rows
<1>4. c.do = "insertNumbers" /\ Doing(s, "insertNumbers")
  BY <1>2, <1>3 DEF InsertNumbers, Doing
<1>5. /\ \A n \in c.numbers : LinkedTo(n) = {}
      /\ numbers' = numbers \union (c.numbers \X {pending[s].by})
  BY <1>3 DEF InsertNumbers, SetNumbers
<1>6. pending[s].by \in Accounts
  <2>1. Sound(pending[s])
    BY <1>2, <1>4, BusyRequest DEF IInv
  <2>2. QED
    BY <1>2, <1>4, <2>1 DEF Sound, OwnSteps, IInv, RowsOK, TypeOK
<1>7. \A x \in c.numbers \X {pending[s].by} : x \notin numbers
  BY <1>5, <1>6 DEF LinkedTo
<1>8. QED
  BY <1>2, <1>4, <1>5, <1>7

(* The numbers of one request are linked together or not at all.           *)
THEOREM NumbersConnectedTogether == Spec => ConnectedTogether
<1> DEFINE Body == numbers' \ numbers # {} =>
                     \E s \in Slots :
                       /\ Doing(s, "insertNumbers")
                       /\ numbers' \ numbers =
                            pending[s].call.numbers \X {pending[s].by}
<1>1. IInv /\ [Next]_vars => [Body]_vars
  BY InsertionsWhole
<1>2. QED
  BY Inductive, <1>1, PTL DEF Spec, ConnectedTogether

-----------------------------------------------------------------------------
(***************************************************************************)
(* AuthSession implements PhoneBook: each statement on the accounts and    *)
(* the numbers is a step of the book or changes nothing in it.             *)
(***************************************************************************)
Held == [a \in DOMAIN accounts |-> accounts[a].phone]

LEMMA SameBook ==
  ASSUME Held' = Held, UNCHANGED <<asked, numbers>>
  PROVE  UNCHANGED Book!pvars
BY DEF Book!pvars, Held

LEMMA AccountsAlike ==
  ASSUME UNCHANGED <<accounts, asked, numbers>>
  PROVE  UNCHANGED Book!pvars
BY SameBook DEF Held

(* Any other column of an account.                                         *)
LEMMA PutAside ==
  ASSUME NEW a \in DOMAIN accounts, NEW row,
         row.phone = accounts[a].phone, Put(a, row)
  PROVE  UNCHANGED Book!pvars
<1>1. /\ DOMAIN accounts' = DOMAIN accounts
      /\ \A b \in DOMAIN accounts : accounts'[b].phone = accounts[b].phone
      /\ UNCHANGED <<asked, numbers>>
  BY DEF Put, WithRow
<1>2. QED
  BY <1>1, SameBook DEF Held

LEMMA SignUpRefines ==
  ASSUME NEW a \in Accounts \ DOMAIN accounts, NEW p \in Phones,
         Put(a, NewUser(p, "fresh"))
  PROVE  [Book!BookNext]_(Book!pvars)
<1>1. CASE ~Fits(a, NewUser(p, "fresh"))
  BY <1>1, AccountsAlike DEF Put
<1>2. CASE Fits(a, NewUser(p, "fresh"))
  <2>1. NewUser(p, "fresh").phone = p
    BY DEF NewUser
  <2>2. \A b \in DOMAIN Held : Held[b] # p
    BY <1>2, <2>1 DEF Fits, Held
  <2>3. Held' = [b \in DOMAIN Held \union {a} |->
                   IF b = a THEN p ELSE Held[b]]
    <3>1. /\ DOMAIN accounts' = DOMAIN accounts \union {a}
          /\ accounts'[a].phone = p
          /\ \A b \in DOMAIN accounts : accounts'[b] = accounts[b]
      BY <1>2, <2>1 DEF Put, WithRow
    <3>2. QED
      BY <3>1 DEF Held
  <2>4. Book!SignUp(a, p)
    BY <2>2, <2>3 DEF Book!SignUp, Book!Entered, Book!Free, Held, Put
  <2>5. QED
    BY <2>4 DEF Book!BookNext
<1>3. QED
  BY <1>1, <1>2

(* The update of a phone fails if somebody else has it.                    *)
LEMMA MoveRefines ==
  ASSUME TypeOK, NEW a \in DOMAIN accounts, NEW p \in Phones,
         <<a, p>> \in asked, Put(a, [accounts[a] EXCEPT !.phone = p])
  PROVE  [Book!BookNext]_(Book!pvars)
<1> DEFINE row == [accounts[a] EXCEPT !.phone = p]
<1>0. a \in Accounts /\ row.phone = p
  BY Columns
<1>1. CASE ~Fits(a, row)
  BY <1>1, AccountsAlike DEF Put
<1>2. CASE p = accounts[a].phone
  BY <1>0, <1>2, PutAside
<1>3. CASE Fits(a, row) /\ p # accounts[a].phone
  <2> HIDE DEF row
  <2>1. \A b \in DOMAIN Held : Held[b] # p
    BY <1>0, <1>3 DEF Fits, Held
  <2>2. /\ DOMAIN accounts' = DOMAIN accounts
        /\ accounts'[a].phone = p
        /\ \A b \in DOMAIN accounts \ {a} : accounts'[b] = accounts[b]
    BY <1>0, <1>3 DEF Put, WithRow, row
  <2>3. Held' = [Held EXCEPT ![a] = p]
    BY <2>2 DEF Held
  <2>4. Book!Move(a, p)
    BY <2>1, <2>3 DEF Book!Move, Book!Entered, Book!Free, Held, Put
  <2>5. QED
    BY <1>0, <2>4 DEF Book!BookNext
<1>4. QED
  BY <1>1, <1>2, <1>3

LEMMA WishRefines ==
  ASSUME TypeOK, NEW a \in DOMAIN accounts, NEW p \in Phones,
         asked' = asked \union {<<a, p>>}, UNCHANGED <<accounts, numbers>>
  PROVE  [Book!BookNext]_(Book!pvars)
<1>1. Book!Wish(a, p)
  BY DEF Book!Wish, Book!Entered
<1>2. a \in Accounts
  BY DEF TypeOK
<1>3. QED
  BY <1>1, <1>2 DEF Book!BookNext

LEMMA NumbersRefine ==
  ASSUME TypeOK, NEW a \in DOMAIN accounts, NEW N \in SUBSET Phones,
         UNCHANGED <<accounts, asked>>,
         \/ numbers' = numbers
         \/ numbers' = numbers \ (N \X {a})
         \/ /\ numbers' = numbers \union (N \X {a})
            /\ \A n \in N : LinkedTo(n) = {}
  PROVE  [Book!BookNext]_(Book!pvars)
<1>0. a \in Accounts
  BY DEF TypeOK
<1>1. CASE numbers' = numbers
  BY <1>1, AccountsAlike
<1>2. CASE numbers' = numbers \ (N \X {a})
  <2>1. Book!Unlink(a, N)
    BY <1>2 DEF Book!Unlink
  <2>2. QED
    BY <1>0, <2>1 DEF Book!BookNext
<1>3. CASE /\ numbers' = numbers \union (N \X {a})
           /\ \A n \in N : LinkedTo(n) = {}
  <2>1. \A x \in numbers : x[1] \notin N
    BY <1>3 DEF LinkedTo, TypeOK
  <2>2. Book!Link(a, N)
    BY <1>3, <2>1 DEF Book!Link, Book!Entered
  <2>3. QED
    BY <1>0, <2>2 DEF Book!BookNext
<1>4. QED
  BY <1>1, <1>2, <1>3

(* The steps of the handlers.                                              *)
LEMMA ProceedRefines ==
  ASSUME IInv, NEW s \in Slots, Proceed(s)
  PROVE  [Book!BookNext]_(Book!pvars)
<1> DEFINE u == pending[s].by
<1>0. /\ TypeOK
      /\ pending[s].call.do # "idle" => /\ Sound(pending[s])
                                        /\ pending[s].call \in Call
  BY BusyRequest DEF IInv, RowsOK
<1>1. PICK c : c = pending[s].call
  OBVIOUS
<1>2. CASE RenewCode(s, c)
  <2>1. CASE NoUpdate
    BY <2>1, AccountsAlike DEF NoUpdate, rows
  <2>2. CASE \E a \in Holder(c.phone) :
               Put(a, [accounts[a] EXCEPT !.code = "fresh"])
    <3>1. PICK a \in DOMAIN accounts :
            Put(a, [accounts[a] EXCEPT !.code = "fresh"])
      BY <2>2 DEF Holder
    <3>2. [accounts[a] EXCEPT !.code = "fresh"].phone = accounts[a].phone
      BY <1>0, Columns DEF Codes
    <3>3. QED
      BY <3>1, <3>2, PutAside
  <2>3. QED
    BY <1>2, <2>1, <2>2 DEF RenewCode
<1>3. CASE CreateUser(s, c)
  <2>1. c.phone \in Phones
    BY <1>0, <1>1, <1>3, CallKinds DEF CreateUser, Codings
  <2>2. CASE DOMAIN accounts = Accounts
    BY <1>3, <2>2, AccountsAlike DEF CreateUser, NoUpdate, rows
  <2>3. CASE DOMAIN accounts # Accounts
    <3> DEFINE new == CHOOSE a \in Accounts : a \notin DOMAIN accounts
    <3>1. \E a \in Accounts : a \notin DOMAIN accounts
      BY <1>0, <2>3 DEF TypeOK
    <3>2. new \in Accounts \ DOMAIN accounts
      BY <3>1
    <3>3. Put(new, NewUser(c.phone, "fresh"))
      BY <1>3, <2>3 DEF CreateUser
    <3> HIDE DEF new
    <3>4. QED
      BY <2>1, <3>2, <3>3, SignUpRefines
  <2>4. QED
    BY <2>2, <2>3
<1>4. CASE ClearCode(s, c)
  <2>1. CASE NoUpdate
    BY <2>1, AccountsAlike DEF NoUpdate, rows
  <2>2. CASE \E a \in Holder(c.phone) :
               Put(a, [accounts[a] EXCEPT !.code = "none",
                                          !.isActive = TRUE])
    <3>1. PICK a \in DOMAIN accounts :
            Put(a, [accounts[a] EXCEPT !.code = "none", !.isActive = TRUE])
      BY <2>2 DEF Holder
    <3>2. [accounts[a] EXCEPT !.code = "none", !.isActive = TRUE].phone
            = accounts[a].phone
      BY <1>0, Columns
    <3>3. QED
      BY <3>1, <3>2, PutAside
  <2>3. QED
    BY <1>4, <2>1, <2>2 DEF ClearCode
<1>5. CASE SaveProfile(s, c)
  <2>1. u \in DOMAIN accounts /\ c.name \in UserNames
    BY <1>0, <1>1, <1>5, CallKinds DEF SaveProfile, Sound, OwnSteps, Profiles
  <2>2. [accounts[u] EXCEPT !.userName = c.name].phone = accounts[u].phone
    BY <1>0, <2>1, Columns
  <2>3. Put(u, [accounts[u] EXCEPT !.userName = c.name])
    BY <1>5 DEF SaveProfile
  <2>4. QED
    BY <2>1, <2>2, <2>3, PutAside
<1>6. CASE ChangePhone(s, c)
  <2>1. /\ u \in DOMAIN accounts /\ c.phone \in Phones
        /\ <<u, c.phone>> \in asked
    BY <1>0, <1>1, <1>6, CallKinds
       DEF ChangePhone, Sound, OwnSteps, Granted, Changes
  <2>2. Put(u, [accounts[u] EXCEPT !.phone = c.phone])
    BY <1>6 DEF ChangePhone
  <2>3. QED
    BY <1>0, <2>1, <2>2, MoveRefines
<1>7. CASE AddRequest(s, c)
  <2>1. u \in DOMAIN accounts /\ c.phone \in Phones
    BY <1>0, <1>1, <1>7, CallKinds DEF AddRequest, Sound, OwnSteps, Changes
  <2>2. /\ asked' = asked \union {<<u, c.phone>>}
        /\ UNCHANGED <<accounts, numbers>>
    BY <1>7 DEF AddRequest
  <2>3. QED
    BY <1>0, <2>1, <2>2, WishRefines
<1>8. CASE InsertNumbers(s, c) \/ DeleteNumbers(s, c)
  <2>1. u \in DOMAIN accounts /\ c.numbers \in SUBSET Phones
    BY <1>0, <1>1, <1>8, CallKinds
       DEF InsertNumbers, DeleteNumbers, Sound, OwnSteps, Linkings
  <2>2. /\ UNCHANGED <<accounts, asked>>
        /\ \/ numbers' = numbers
           \/ numbers' = numbers \ (c.numbers \X {u})
           \/ /\ numbers' = numbers \union (c.numbers \X {u})
              /\ \A n \in c.numbers : LinkedTo(n) = {}
    BY <1>8 DEF InsertNumbers, DeleteNumbers, SetNumbers
  <2>3. QED
    BY <1>0, <2>1, <2>2, NumbersRefine
<1>9. CASE \/ FindCode(s, c) \/ FindDevice(s, c) \/ UpdateDevice(s, c)
           \/ CreateDevice(s, c) \/ CreateSession(s, c)
           \/ ExpireSession(s, c) \/ DeleteKeys(s, c) \/ DeleteAll(s, c)
           \/ ComparePhone(s, c) \/ FindRequest(s, c)
           \/ DropRequests(s, c) \/ FindNumbers(s, c)
  <2>1. UNCHANGED <<accounts, asked, numbers>>
    BY <1>9 DEF FindCode, FindDevice, UpdateDevice, CreateDevice,
       CreateSession, ExpireSession, DeleteKeys, DeleteAll, ComparePhone,
       FindRequest, DropRequests, FindNumbers, Read, StoreDevice, Sessions,
       rows
  <2>2. QED
    BY <2>1, AccountsAlike
<1>10. QED
  BY <1>1, <1>2, <1>3, <1>4, <1>5, <1>6, <1>7, <1>8, <1>9 DEF Proceed

(* Requests arrive, devices are changed, time passes, the server stops.    *)
LEMMA OthersRefine ==
  ASSUME IInv, [Next]_vars, ~\E s \in Slots : Proceed(s)
  PROVE  UNCHANGED Book!pvars
<1>1. CASE \E s \in Slots : Arrive(s)
  <2>1. UNCHANGED rows
    BY <1>1 DEF Arrive, Arrives, sendOtp, verifyOtp, deleteUserSession,
       deleteMySessions, createDevice, completeProfile, requestPhoneChange,
       verifyPhoneChange, connectAnotherPhones, disconnectExistingPhones
  <2>2. QED
    BY <2>1, AccountsAlike DEF rows
<1>2. CASE \/ \E c \in checks : CheckPasses(c) \/ CheckThrows(c)
           \/ Restart
  BY <1>2, AccountsAlike DEF CheckPasses, CheckThrows, Restart, Lost, rows
<1>3. CASE \E a \in DOMAIN accounts :
             (\E d \in Devices : updateDevice(a, d)) \/ deleteDevice(a)
  BY <1>3, AccountsAlike DEF updateDevice, deleteDevice, DeviceStatement
<1>4. CASE \E a \in DOMAIN accounts : CodeExpires(a)
  <2>1. PICK a \in DOMAIN accounts :
          Put(a, [accounts[a] EXCEPT !.code = "expired"])
    BY <1>4 DEF CodeExpires, TimePasses
  <2>2. [accounts[a] EXCEPT !.code = "expired"].phone = accounts[a].phone
    BY Columns DEF IInv, RowsOK, Codes
  <2>3. QED
    BY <2>1, <2>2, PutAside
<1>5. CASE \/ \E r \in requests : RequestExpires(r)
           \/ \E k \in Accounts \X SessionIds : SessionExpires(k)
  BY <1>5, AccountsAlike DEF RequestExpires, SessionExpires, TimePasses, rows
<1>6. CASE UNCHANGED vars
  BY <1>6, AccountsAlike DEF vars, rows
<1>7. QED
  BY <1>1, <1>2, <1>3, <1>4, <1>5, <1>6 DEF Next

(* Every behaviour of the handlers is a behaviour of the phone book.       *)
THEOREM PhoneBookKept == Spec => ImplementsPhoneBook
<1>1. Init => Book!BookInit
  <2> SUFFICES ASSUME Init PROVE Book!BookInit
    OBVIOUS
  <2>1. AccountsApart /\ asked = {} /\ numbers = {}
    BY InitOK DEF Init, IInv, RowsOK
  <2>2. \A a, b \in DOMAIN Held : Held[a] = Held[b] => a = b
    BY <2>1 DEF Held, AccountsApart
  <2>3. QED
    BY <2>1, <2>2 DEF Book!BookInit, Book!Entered, Held
<1>2. IInv /\ [Next]_vars => [Book!BookNext]_(Book!pvars)
  BY ProceedRefines, OthersRefine
<1>3. QED
  BY <1>1, <1>2, Inductive, PTL
     DEF Spec, ImplementsPhoneBook, Book!BookSpec
=============================================================================
