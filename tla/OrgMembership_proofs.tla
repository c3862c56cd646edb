----------------------- MODULE OrgMembership_proofs -----------------------
(***************************************************************************)
(* Theorems about OrgMembership for every set of people and of slots,      *)
(* every bound on the ids and every activity.                              *)
(***************************************************************************)
EXTENDS OrgMembership, OrgTables_proofs

PendingOK == pending \in [Slots -> Request \union {Idle, Lost}]

(* The inductive invariant: each property needs the types, the references  *)
(* need what is referred to to be well-typed, and all of them are kept by  *)
(* the same statements.                                                    *)
IInv == TablesOK /\ PendingOK

LEMMA IInvProperties ==
  IInv => TypeOK /\ OrgReferences /\ OneMembership
BY DEF IInv, TablesOK, PendingOK, TypeOK, OrgReferences, References,
       OneMembership, Once

-----------------------------------------------------------------------------
(* The slots.                                                              *)

LEMMA EndKeepsPending ==
  ASSUME PendingOK, NEW s \in Slots, End(s)
  PROVE  PendingOK'
BY DEF PendingOK, End

LEMMA GoOnKeepsPending ==
  ASSUME PendingOK, NEW s \in Slots, NEW c \in Call,
         pending[s] \in Request, GoOn(s, c)
  PROVE  PendingOK'
<1>1. [pending[s] EXCEPT !.call = c] \in Request
  BY DEF Request
<1>2. QED
  BY <1>1 DEF PendingOK, GoOn

LEMMA EnterKeepsPending ==
  ASSUME PendingOK, TablesOK, NEW s \in Slots, NEW u, NEW c \in Call,
         Enter(s, u, c)
  PROVE  PendingOK' /\ u \in Persons
<1>1. u \in Persons
  BY DEF Enter, TablesOK, TablesTypeOK
<1>2. [by |-> u, call |-> c] \in Request
  BY <1>1 DEF Request
<1>3. QED
  BY <1>1, <1>2 DEF PendingOK, Enter

LEMMA ReadKeepsTables ==
  ASSUME TablesOK, Read
  PROVE  TablesOK'
BY UnchangedOK DEF Read

(* A slot whose handler has something to do holds a request.               *)
LEMMA BusyRequest ==
  ASSUME PendingOK, NEW s \in Slots,
         pending[s].call.do \notin {"idle", "lost"}
  PROVE  pending[s] \in Request /\ pending[s].call \in Call
BY DEF PendingOK, Request, Idle, Lost

-----------------------------------------------------------------------------
(* What the handler of a call has to hand.                                 *)
LEMMA CallFields ==
  ASSUME NEW c \in Call
  PROVE  /\ c.do \notin {"readOrg", "uninvite", "findInvites", "readInvite",
                         "setStatus", "setStatusUnseen"} => c.org \in OrgIds
         /\ c.do \in {"addEach", "findOrgOfPhones", "removeAll",
                      "answerInvited"} => c.people \in SUBSET Persons
         /\ c.do \in {"transfer", "findConnector", "checkConnector",
                      "registerConnector", "checkRole", "setRole",
                      "setStatus"} => c.person \in Persons
         /\ c.do = "setStatus" => c.org \in OrgIds
         /\ c.do \in {"findInvites", "readInvite"} => c.orgs \in SUBSET OrgIds
         /\ c.do \in {"findInvites", "readInvite", "setStatus",
                      "setStatusUnseen", "readOrg", "uninvite"} =>
              c.id \in InviteIds
         /\ c.do = "findInvites" => c.verdict \in Statuses \union {Remove}
         /\ c.do \in {"readInvite", "setStatus", "setStatusUnseen"} =>
              c.status \in Statuses
         /\ c.do = "checkMembers" => /\ c.left \in SUBSET MemberEntry
                                     /\ c.valid \in SUBSET MemberEntry
         /\ c.do = "addAll" => c.entries \in SUBSET MemberEntry
         /\ c.do \in {"findPeople", "findPending", "register"} =>
              /\ c.left \in SUBSET Persons
              /\ c.told \in SUBSET Persons
              /\ c.new \in SUBSET Persons
              /\ c.ok \in BOOLEAN
         /\ c.do = "inviteAll" => /\ c.told \in SUBSET Persons
                                  /\ c.new \in SUBSET Persons
         /\ c.do \in {"checkRole", "setRole"} => c.role \in Roles
         /\ c.do = "checkLeavers" => /\ c.left \in SUBSET Persons
                                     /\ c.valid \in SUBSET Persons
BY DEF Call

(* One answer to the statements of a stage.                                *)
LEMMA StageCalls ==
  ASSUME NEW c \in Call, NEW left \in SUBSET Persons,
         NEW told \in SUBSET Persons, NEW new \in SUBSET Persons,
         NEW ok \in BOOLEAN
  PROVE  /\ c.do = "findPeople" =>
              [c EXCEPT !.left = left, !.told = told, !.new = new] \in Call
         /\ c.do = "findPending" =>
              [c EXCEPT !.left = left, !.told = told] \in Call
         /\ c.do = "register" =>
              [c EXCEPT !.left = left, !.ok = ok] \in Call
BY DEF Call


-----------------------------------------------------------------------------
(* A request that arrives reads, or founds an org, and holds a call.       *)
LEMMA ArriveKeeps ==
  ASSUME IInv, NEW s \in Slots, Arrive(s)
  PROVE  IInv'
<1>0. TablesOK /\ PendingOK
  BY DEF IInv
<1>1. ASSUME NEW u, NEW c \in Call, Enter(s, u, c), Read
      PROVE  IInv'
  BY <1>0, <1>1, EnterKeepsPending, ReadKeepsTables DEF IInv
<1>2. ASSUME NEW u, NEW o, NEW c \in Call, OrgMemberGuard(s, u, o, c)
      PROVE  IInv'
  BY <1>1, <1>2 DEF OrgMemberGuard
<1>3. PICK u \in Clients :
        \/ \E people \in Lists : createOrganization(s, u, people)
        \/ \E o \in OrgIds :
             \/ deleteOrganization(s, u, o)
             \/ createOrgInvite(s, u, o)
             \/ \E p \in Named :
                  \/ createOwnershipTransfer(s, u, o, p)
                  \/ addConnectorAsMember(s, u, o, p)
                  \/ \E role \in GivenRoles :
                       updateOrgMemberRole(s, u, o, p, role)
             \/ \E people \in Lists :
                  \/ addMultipleMemberFromPhone(s, u, o, people)
                  \/ deleteOrgMembers(s, u, o, people)
                  \/ \E entries \in SUBSET [ memberId : people,
                                             role : GivenRoles ] :
                       createOrgMember(s, u, o, entries)
        \/ \E i \in InviteIds :
             \/ \E status \in Statuses : updateOrgInvite(s, u, i, status)
             \/ deleteOrgInvite(s, u, i)
  BY DEF Arrive
<1>4. ASSUME NEW people \in Lists, createOrganization(s, u, people)
      PROVE  IInv'
  <2> DEFINE c == [ do |-> "addEach", org |-> nextId["org"],
                    people |-> people \ {u} ]
  <2>1. createOrg(u) /\ Enter(s, u, c) /\ u \in users
    BY <1>4 DEF createOrganization, Enter
  <2>2. nextId["org"] \in OrgIds
    BY <1>0, <2>1, FreshId DEF createOrg, TablesOK
  <2>3. c \in Call
    BY <2>2, OrgActivityAssumption DEF Call
  <2> HIDE DEF c
  <2>4. QED
    BY <1>0, <2>1, <2>3, CreateOrgOK, EnterKeepsPending DEF IInv
<1>5. ASSUME NEW o \in OrgIds, deleteOrganization(s, u, o)
      PROVE  IInv'
  <2>1. [do |-> "close", org |-> o] \in Call
    BY DEF Call
  <2>2. QED
    BY <1>1, <1>5, <2>1 DEF deleteOrganization
<1>6. ASSUME NEW o \in OrgIds, createOrgInvite(s, u, o)
      PROVE  IInv'
  <2>1. [do |-> "findOrg", org |-> o] \in Call
    BY DEF Call
  <2>2. QED
    BY <1>1, <1>6, <2>1 DEF createOrgInvite
<1>7. ASSUME NEW o \in OrgIds, NEW p \in Named,
             createOwnershipTransfer(s, u, o, p)
      PROVE  IInv'
  <2>1. [do |-> "transfer", org |-> o, person |-> p] \in Call
    BY OrgActivityAssumption DEF Call
  <2>2. QED
    BY <1>1, <1>7, <2>1 DEF createOwnershipTransfer
<1>8. ASSUME NEW o \in OrgIds, NEW p \in Named,
             addConnectorAsMember(s, u, o, p)
      PROVE  IInv'
  <2>1. [do |-> "findConnector", org |-> o, person |-> p] \in Call
    BY OrgActivityAssumption DEF Call
  <2>2. QED
    BY <1>2, <1>8, <2>1 DEF addConnectorAsMember
<1>9. ASSUME NEW o \in OrgIds, NEW p \in Named, NEW role \in GivenRoles,
             updateOrgMemberRole(s, u, o, p, role)
      PROVE  IInv'
  <2>1. role \in Roles
    BY OrgActivityAssumption
  <2>2. [do |-> "checkRole", org |-> o, person |-> p, role |-> role] \in Call
    BY <2>1, OrgActivityAssumption DEF Call
  <2>3. QED
    BY <1>2, <1>9, <2>2 DEF updateOrgMemberRole
<1>10. ASSUME NEW o \in OrgIds, NEW people \in Lists,
              addMultipleMemberFromPhone(s, u, o, people)
       PROVE  IInv'
  <2>1. [do |-> "findOrgOfPhones", org |-> o, people |-> people] \in Call
    BY OrgActivityAssumption DEF Call
  <2>2. QED
    BY <1>2, <1>10, <2>1 DEF addMultipleMemberFromPhone
<1>11. ASSUME NEW o \in OrgIds, NEW people \in Lists,
              deleteOrgMembers(s, u, o, people)
       PROVE  IInv'
  <2>1. [ do |-> "checkLeavers", org |-> o, left |-> people,
          valid |-> {} ] \in Call
    BY OrgActivityAssumption DEF Call
  <2>2. QED
    BY <1>2, <1>11, <2>1 DEF deleteOrgMembers
<1>12. ASSUME NEW o \in OrgIds, NEW people \in Lists,
              NEW entries \in SUBSET [memberId : people, role : GivenRoles],
              createOrgMember(s, u, o, entries)
       PROVE  IInv'
  <2>1. entries \in SUBSET MemberEntry
    BY OrgActivityAssumption DEF MemberEntry
  <2>2. [ do |-> "checkMembers", org |-> o, left |-> entries,
          valid |-> {} ] \in Call
    BY <2>1 DEF Call
  <2>3. QED
    BY <1>2, <1>12, <2>2 DEF createOrgMember
<1>13. ASSUME NEW i \in InviteIds, NEW verdict \in Statuses \union {Remove},
              OrgInviteGuard(s, u, i, verdict)
       PROVE  IInv'
  <2>1. Owned(u) \in SUBSET OrgIds
    BY <1>0 DEF Owned, TablesOK, TablesTypeOK
  <2>2. [ do |-> "findInvites", orgs |-> Owned(u), id |-> i,
          verdict |-> verdict ] \in Call
    BY <2>1 DEF Call
  <2>3. QED
    BY <1>1, <1>13, <2>2 DEF OrgInviteGuard
<1>14. QED
  BY <1>3, <1>4, <1>5, <1>6, <1>7, <1>8, <1>9, <1>10, <1>11, <1>12, <1>13
     DEF updateOrgInvite, deleteOrgInvite

-----------------------------------------------------------------------------
(* The next statement of a request, one step per call.                     *)
LEMMA ProceedKeeps ==
  ASSUME IInv, NEW s \in Slots, Proceed(s)
  PROVE  IInv'
<1> DEFINE c == pending[s].call
<1>0. TablesOK /\ PendingOK /\ TablesTypeOK
  BY DEF IInv, TablesOK
<1>1. CASE AddEach(s, c)
  <2>0. c.do = "addEach" /\ pending[s] \in Request /\ c \in Call
    BY <1>0, <1>1, BusyRequest DEF AddEach
  <2>1. CASE Read /\ End(s)
    BY <1>0, <2>1, ReadKeepsTables, EndKeepsPending DEF IInv
  <2>2. ASSUME NEW p \in c.people, addMember(c.org, {Entry(p, "Member")}),
               GoOn(s, [c EXCEPT !.people = @ \ {p}])
        PROVE  IInv'
    <3>1. c.org \in OrgIds /\ c.people \in SUBSET Persons
      BY <2>0, CallFields
    <3>2. {Entry(p, "Member")} \in SUBSET MemberEntry
      BY <3>1 DEF Entry, MemberEntry, Roles
    <3>3. [c EXCEPT !.people = @ \ {p}] \in Call
      BY <2>0, <3>1 DEF Call
    <3>4. TablesOK'
      BY <1>0, <2>2, <3>2, AddMemberOK
    <3>5. PendingOK'
      BY <1>0, <2>0, <2>2, <3>3, GoOnKeepsPending
    <3>6. QED
      BY <3>4, <3>5 DEF IInv
  <2>3. QED
    BY <1>1, <2>1, <2>2 DEF AddEach
<1>2. CASE Transfer(s, c)
  <2>0. c.do = "transfer" /\ pending[s] \in Request /\ c \in Call
    BY <1>0, <1>2, BusyRequest DEF Transfer
  <2>1. QED
    BY <1>0, <1>2, TransferOK, EndKeepsPending DEF Transfer, IInv
<1>3. CASE Close(s, c)
  <2>0. c.do = "close" /\ pending[s] \in Request /\ c \in Call
    BY <1>0, <1>3, BusyRequest DEF Close
  <2>1. QED
    BY <1>0, <1>3, DeleteOrgOK, EndKeepsPending DEF Close, IInv
<1>4. CASE FindOrg(s, c)
  <2>0. c.do = "findOrg" /\ pending[s] \in Request /\ c \in Call
    BY <1>0, <1>4, BusyRequest DEF FindOrg
  <2>1. Live(c.org) =>
          [do |-> "invite", org |-> c.org, owner |-> orgs[c.org]] \in Call
    BY <1>0, <1>4, <2>0, CallFields DEF FindOrg, Call, Live, TablesTypeOK
  <2>2. QED
    BY <1>0, <1>4, <2>0, <2>1, ReadKeepsTables, EndKeepsPending,
       GoOnKeepsPending
       DEF FindOrg, IInv
<1>5. CASE Invite(s, c)
  <2>0. c.do = "invite" /\ pending[s] \in Request /\ c \in Call
    BY <1>0, <1>5, BusyRequest DEF Invite
  <2>1. QED
    BY <1>0, <1>5, CreateInviteOK, EndKeepsPending DEF Invite, IInv
<1>6. CASE FindInvites(s, c)
  <2>0. c.do = "findInvites" /\ pending[s] \in Request /\ c \in Call
    BY <1>0, <1>6, BusyRequest DEF FindInvites
  <2>1. /\ c.verdict # Remove =>
             [ do |-> "readInvite", orgs |-> c.orgs, id |-> c.id,
               status |-> c.verdict ] \in Call
        /\ [do |-> "readOrg", id |-> c.id] \in Call
    BY <1>0, <1>6, <2>0, CallFields DEF FindInvites, Call
  <2>2. QED
    BY <1>0, <1>6, <2>0, <2>1, ReadKeepsTables, EndKeepsPending,
       GoOnKeepsPending
       DEF FindInvites, IInv
<1>7. CASE ReadInvite(s, c)
  <2>0. c.do = "readInvite" /\ pending[s] \in Request /\ c \in Call
    BY <1>0, <1>7, BusyRequest DEF ReadInvite
  <2>1. c.id \in DOMAIN invites =>
          [ do |-> "setStatus", id |-> c.id, status |-> c.status,
            org |-> invites[c.id].orgId,
            person |-> invites[c.id].inviteeId ] \in Call
    BY <1>0, <1>7, <2>0, CallFields
       DEF ReadInvite, Call, TablesTypeOK, OrgInvite
  <2>2. [ do |-> "setStatusUnseen", id |-> c.id,
          status |-> c.status ] \in Call
    BY <2>0, CallFields DEF Call
  <2>3. QED
    BY <1>0, <1>7, <2>0, <2>1, <2>2, ReadKeepsTables, EndKeepsPending,
       GoOnKeepsPending
       DEF ReadInvite, IInv
<1>8. CASE SetStatus(s, c)
  <2>0. c.do = "setStatus" /\ pending[s] \in Request /\ c \in Call
    BY <1>0, <1>8, BusyRequest DEF SetStatus
  <2>1. Approve(c) \in Call
    BY <2>0, CallFields DEF Approve, Call, Entry, MemberEntry, Roles
  <2>2. c.status \in Statuses
    BY <2>0, CallFields
  <2>3. TablesOK'
    BY <1>0, <1>8, <2>2, UpdateInviteOK, ReadKeepsTables DEF SetStatus
  <2>4. PendingOK'
    BY <1>0, <1>8, <2>0, <2>1, EndKeepsPending, GoOnKeepsPending DEF SetStatus
  <2>5. QED
    BY <2>3, <2>4 DEF IInv
<1>9. CASE ReadOrg(s, c)
  <2>0. c.do = "readOrg" /\ pending[s] \in Request /\ c \in Call
    BY <1>0, <1>9, BusyRequest DEF ReadOrg
  <2>1. [do |-> "uninvite", id |-> c.id] \in Call
    BY <1>0, <1>9, <2>0, CallFields DEF ReadOrg, Call
  <2>2. QED
    BY <1>0, <1>9, <2>0, <2>1, ReadKeepsTables, EndKeepsPending,
       GoOnKeepsPending
       DEF ReadOrg, IInv
<1>10. CASE Uninvite(s, c)
  <2>0. c.do = "uninvite" /\ pending[s] \in Request /\ c \in Call
    BY <1>0, <1>10, BusyRequest DEF Uninvite
  <2>1. QED
    BY <1>0, <1>10, DeleteInviteOK, EndKeepsPending DEF Uninvite, IInv
<1>11. CASE CheckMembers(s, c)
  <2>0. c.do = "checkMembers" /\ pending[s] \in Request /\ c \in Call
    BY <1>0, <1>11, BusyRequest DEF CheckMembers
  <2>1. PICK e \in c.left :
          LET valid == IF Member(c.org, e.memberId) THEN c.valid
                       ELSE c.valid \union {e}
          IN  IF c.left # {e}
              THEN GoOn(s, [c EXCEPT !.left = @ \ {e}, !.valid = valid])
              ELSE IF valid # {}
              THEN GoOn(s, [ do |-> "addAll", org |-> c.org,
                             entries |-> valid ])
              ELSE End(s)
    BY <1>11 DEF CheckMembers
  <2> DEFINE valid == IF Member(c.org, e.memberId) THEN c.valid
                      ELSE c.valid \union {e}
  <2>2. /\ c.org \in OrgIds /\ c.left \in SUBSET MemberEntry
        /\ valid \in SUBSET MemberEntry
    BY <2>0, CallFields
  <2>3. \/ GoOn(s, [c EXCEPT !.left = @ \ {e}, !.valid = valid])
        \/ GoOn(s, [do |-> "addAll", org |-> c.org, entries |-> valid])
        \/ End(s)
    BY <2>1
  <2> HIDE DEF valid
  <2>4. /\ [c EXCEPT !.left = @ \ {e}, !.valid = valid] \in Call
        /\ [do |-> "addAll", org |-> c.org, entries |-> valid] \in Call
    BY <2>0, <2>2 DEF Call
  <2>5. PendingOK'
    BY <1>0, <2>0, <2>3, <2>4, EndKeepsPending, GoOnKeepsPending
  <2>6. QED
    BY <1>0, <1>11, <2>5, ReadKeepsTables DEF CheckMembers, IInv
<1>12. CASE AddAll(s, c)
  <2>0. c.do = "addAll" /\ pending[s] \in Request /\ c \in Call
    BY <1>0, <1>12, BusyRequest DEF AddAll
  <2>1. c.entries \in SUBSET MemberEntry
    BY <2>0, CallFields
  <2>2. QED
    BY <1>0, <1>12, <2>1, AddMemberOK, EndKeepsPending DEF AddAll, IInv
<1>13. CASE FindOrgOfPhones(s, c)
  <2>0. c.do = "findOrgOfPhones" /\ pending[s] \in Request /\ c \in Call
    BY <1>0, <1>13, BusyRequest DEF FindOrgOfPhones
  <2>1. [ do |-> "findPeople", org |-> c.org, left |-> c.people,
          told |-> {}, new |-> {}, ok |-> TRUE ] \in Call
    BY <1>0, <1>13, <2>0, CallFields DEF FindOrgOfPhones, Call
  <2>2. QED
    BY <1>0, <1>13, <2>0, <2>1, ReadKeepsTables, EndKeepsPending,
       GoOnKeepsPending
       DEF FindOrgOfPhones, IInv
<1>14. CASE FindPeople(s, c)
  <2>0. c.do = "findPeople" /\ pending[s] \in Request /\ c \in Call
    BY <1>0, <1>14, BusyRequest DEF FindPeople
  <2>1. /\ c.org \in OrgIds /\ c.left \in SUBSET Persons
        /\ c.told \in SUBSET Persons /\ c.new \in SUBSET Persons
        /\ c.ok \in BOOLEAN
    BY <2>0, CallFields
  <2>2. [c EXCEPT !.do = "findPending", !.left = c.told, !.told = {}] \in Call
    BY <2>0, <2>1 DEF Call
  <2>3. ASSUME NEW p \in c.left
        PROVE  [ c EXCEPT !.left = @ \ {p},
                          !.told = @ \union ({p} \intersect users),
                          !.new = @ \union ({p} \ users) ] \in Call
    <3>1. /\ c.left \ {p} \in SUBSET Persons
          /\ c.told \union ({p} \intersect users) \in SUBSET Persons
          /\ c.new \union ({p} \ users) \in SUBSET Persons
      BY <2>1, <2>3
    <3>2. QED
      BY <2>0, <2>1, <3>1, StageCalls
  <2>4. PendingOK'
    BY <1>0, <1>14, <2>0, <2>2, <2>3, GoOnKeepsPending DEF FindPeople
  <2>5. QED
    BY <1>0, <1>14, <2>4, ReadKeepsTables DEF FindPeople, IInv
<1>15. CASE FindPending(s, c)
  <2>0. c.do = "findPending" /\ pending[s] \in Request /\ c \in Call
    BY <1>0, <1>15, BusyRequest DEF FindPending
  <2>1. /\ c.org \in OrgIds /\ c.left \in SUBSET Persons
        /\ c.told \in SUBSET Persons /\ c.new \in SUBSET Persons
        /\ c.ok \in BOOLEAN
    BY <2>0, CallFields
  <2>2. [c EXCEPT !.do = "register", !.left = c.new] \in Call
    BY <2>0, <2>1 DEF Call
  <2>3. ASSUME NEW p \in c.left
        PROVE  [ c EXCEPT !.left = @ \ {p},
                          !.told = IF PendingInvitation(c.org, p) THEN @
                                   ELSE @ \union {p} ] \in Call
    <3> DEFINE told == IF PendingInvitation(c.org, p) THEN c.told
                       ELSE c.told \union {p}
    <3>1. c.left \ {p} \in SUBSET Persons /\ told \in SUBSET Persons
      BY <2>1, <2>3
    <3> HIDE DEF told
    <3>2. [c EXCEPT !.left = c.left \ {p}, !.told = told] \in Call
      BY <2>0, <2>1, <3>1, StageCalls
    <3>3. QED
      BY <3>2 DEF told
  <2>4. PendingOK'
    BY <1>0, <1>15, <2>0, <2>2, <2>3, GoOnKeepsPending DEF FindPending
  <2>5. QED
    BY <1>0, <1>15, <2>4, ReadKeepsTables DEF FindPending, IInv
<1>16. CASE Register(s, c)
  <2>0. c.do = "register" /\ pending[s] \in Request /\ c \in Call
    BY <1>0, <1>16, BusyRequest DEF Register
  <2>1. /\ c.org \in OrgIds /\ c.left \in SUBSET Persons
        /\ c.told \in SUBSET Persons /\ c.new \in SUBSET Persons
        /\ c.ok \in BOOLEAN
    BY <2>0, CallFields
  <2>2. PICK p \in c.left :
          /\ createUser(p)
          /\ GoOn(s, [ c EXCEPT !.left = @ \ {p},
                                !.ok = @ /\ p \notin users ])
    BY <1>16 DEF Register
  <2>3. [c EXCEPT !.left = @ \ {p}, !.ok = @ /\ p \notin users] \in Call
    <3> DEFINE ok == c.ok /\ p \notin users
    <3>1. c.left \ {p} \in SUBSET Persons /\ ok \in BOOLEAN
      BY <2>1
    <3> HIDE DEF ok
    <3>2. [c EXCEPT !.left = c.left \ {p}, !.ok = ok] \in Call
      BY <2>0, <2>1, <3>1, StageCalls
    <3>3. QED
      BY <3>2 DEF ok
  <2>4. PendingOK'
    BY <1>0, <2>0, <2>2, <2>3, GoOnKeepsPending
  <2>5. TablesOK'
    BY <1>0, <2>1, <2>2, CreateUserOK
  <2>6. QED
    BY <2>4, <2>5 DEF IInv
<1>17. CASE AfterRegister(s, c)
  <2>0. c.do = "register" /\ pending[s] \in Request /\ c \in Call
    BY <1>0, <1>17, BusyRequest DEF AfterRegister
  <2>1. /\ [ do |-> "answerInvited", org |-> c.org,
             people |-> c.told ] \in Call
        /\ [ do |-> "inviteAll", org |-> c.org, told |-> c.told,
             new |-> c.new ] \in Call
    BY <1>0, <1>17, <2>0, CallFields DEF AfterRegister, Call
  <2>2. QED
    BY <1>0, <1>17, <2>0, <2>1, ReadKeepsTables, EndKeepsPending,
       GoOnKeepsPending
       DEF AfterRegister, IInv
<1>18. CASE InviteAll(s, c)
  <2>0. c.do = "inviteAll" /\ pending[s] \in Request /\ c \in Call
    BY <1>0, <1>18, BusyRequest DEF InviteAll
  <2>1. /\ c.org \in OrgIds
        /\ c.told \in SUBSET Persons /\ c.new \in SUBSET Persons
    BY <2>0, CallFields
  <2>2. [ do |-> "answerInvited", org |-> c.org,
          people |-> c.told \union c.new ] \in Call
    BY <2>1 DEF Call
  <2>3. PendingOK'
    BY <1>0, <1>18, <2>0, <2>2, GoOnKeepsPending, EndKeepsPending DEF InviteAll
  <2>4. TablesOK'
    BY <1>0, <1>18, <2>1, ReadKeepsTables, CreateMultipleInviteOK DEF InviteAll
  <2>5. QED
    BY <2>3, <2>4 DEF IInv
<1>19. CASE AnswerInvited(s, c)
  <2>0. c.do = "answerInvited" /\ pending[s] \in Request /\ c \in Call
    BY <1>0, <1>19, BusyRequest DEF AnswerInvited
  <2>1. QED
    BY <1>0, <1>19, ReadKeepsTables, EndKeepsPending DEF AnswerInvited, IInv
<1>20. CASE FindConnector(s, c)
  <2>0. c.do = "findConnector" /\ pending[s] \in Request /\ c \in Call
    BY <1>0, <1>20, BusyRequest DEF FindConnector
  <2>1. [ c EXCEPT !.do = IF c.person \in users THEN "checkConnector"
                          ELSE "registerConnector" ] \in Call
    BY <2>0, CallFields DEF Call
  <2>2. QED
    BY <1>0, <1>20, <2>0, <2>1, ReadKeepsTables, GoOnKeepsPending
       DEF FindConnector, IInv
<1>21. CASE CheckConnector(s, c)
  <2>0. c.do = "checkConnector" /\ pending[s] \in Request /\ c \in Call
    BY <1>0, <1>21, BusyRequest DEF CheckConnector
  <2>1. Connect(c) \in Call
    BY <1>0, <1>21, <2>0, CallFields
       DEF CheckConnector, Call, Connect, Entry, MemberEntry, Roles
  <2>2. QED
    BY <1>0, <1>21, <2>0, <2>1, ReadKeepsTables, EndKeepsPending,
       GoOnKeepsPending
       DEF CheckConnector, IInv
<1>22. CASE RegisterConnector(s, c)
  <2>0. c.do = "registerConnector" /\ pending[s] \in Request /\ c \in Call
    BY <1>0, <1>22, BusyRequest DEF RegisterConnector
  <2>1. c.person \in Persons /\ Connect(c) \in Call
    BY <2>0, CallFields DEF Connect, Call, Entry, MemberEntry, Roles
  <2>2. QED
    BY <1>0, <1>22, <2>0, <2>1, CreateUserOK, EndKeepsPending, GoOnKeepsPending
       DEF RegisterConnector, IInv
<1>23. CASE CheckRole(s, c)
  <2>0. c.do = "checkRole" /\ pending[s] \in Request /\ c \in Call
    BY <1>0, <1>23, BusyRequest DEF CheckRole
  <2>1. [c EXCEPT !.do = "setRole"] \in Call
    BY <1>0, <1>23, <2>0, CallFields DEF CheckRole, Call
  <2>2. QED
    BY <1>0, <1>23, <2>0, <2>1, ReadKeepsTables, EndKeepsPending,
       GoOnKeepsPending
       DEF CheckRole, IInv
<1>24. CASE SetRole(s, c)
  <2>0. c.do = "setRole" /\ pending[s] \in Request /\ c \in Call
    BY <1>0, <1>24, BusyRequest DEF SetRole
  <2>1. c.role \in Roles
    BY <2>0, CallFields
  <2>2. QED
    BY <1>0, <1>24, <2>1, UpdateRoleOK, EndKeepsPending DEF SetRole, IInv
<1>25. CASE CheckLeavers(s, c)
  <2>0. c.do = "checkLeavers" /\ pending[s] \in Request /\ c \in Call
    BY <1>0, <1>25, BusyRequest DEF CheckLeavers
  <2>1. PICK p \in c.left :
          LET valid == IF Leaver(c.org, p) THEN c.valid \union {p}
                       ELSE c.valid
          IN  IF c.left # {p}
              THEN GoOn(s, [c EXCEPT !.left = @ \ {p}, !.valid = valid])
              ELSE IF valid # {}
              THEN GoOn(s, [ do |-> "removeAll", org |-> c.org,
                             people |-> valid ])
              ELSE End(s)
    BY <1>25 DEF CheckLeavers
  <2> DEFINE valid == IF Leaver(c.org, p) THEN c.valid \union {p} ELSE c.valid
  <2>2. /\ c.org \in OrgIds /\ c.left \in SUBSET Persons
        /\ valid \in SUBSET Persons
    BY <2>0, CallFields
  <2>3. \/ GoOn(s, [c EXCEPT !.left = @ \ {p}, !.valid = valid])
        \/ GoOn(s, [do |-> "removeAll", org |-> c.org, people |-> valid])
        \/ End(s)
    BY <2>1
  <2> HIDE DEF valid
  <2>4. /\ [c EXCEPT !.left = @ \ {p}, !.valid = valid] \in Call
        /\ [do |-> "removeAll", org |-> c.org, people |-> valid] \in Call
    BY <2>0, <2>2 DEF Call
  <2>5. PendingOK'
    BY <1>0, <2>0, <2>3, <2>4, EndKeepsPending, GoOnKeepsPending
  <2>6. QED
    BY <1>0, <1>25, <2>5, ReadKeepsTables DEF CheckLeavers, IInv
<1>26. CASE RemoveAll(s, c)
  <2>0. c.do = "removeAll" /\ pending[s] \in Request /\ c \in Call
    BY <1>0, <1>26, BusyRequest DEF RemoveAll
  <2>1. QED
    BY <1>0, <1>26, RemoveMembersOK, EndKeepsPending DEF RemoveAll, IInv
<1>27. CASE SetStatusUnseen(s, c)
  <2>0. c.do = "setStatusUnseen" /\ pending[s] \in Request /\ c \in Call
    BY <1>0, <1>27, BusyRequest DEF SetStatusUnseen
  <2>1. c.status \in Statuses
    BY <2>0, CallFields
  <2>2. TablesOK'
    BY <1>0, <1>27, <2>1, UpdateInviteOK, ReadKeepsTables
       DEF SetStatusUnseen
  <2>3. QED
    BY <1>0, <1>27, <2>2, EndKeepsPending DEF SetStatusUnseen, IInv
<1>28. QED
  BY <1>27, <1>1, <1>2, <1>3, <1>4, <1>5, <1>6, <1>7, <1>8, <1>9, <1>10,
     <1>11, <1>12, <1>13, <1>14, <1>15, <1>16, <1>17, <1>18, <1>19,
     <1>20, <1>21, <1>22, <1>23, <1>24, <1>25, <1>26 DEF Proceed

LEMMA ServerDiesKeeps ==
  ASSUME IInv, ServerDies
  PROVE  IInv'
BY UnchangedOK DEF IInv, ServerDies, PendingOK

LEMMA InductiveInvariant == Spec => []IInv
<1>1. Init => IInv
  BY InitOK DEF Init, IInv, PendingOK
<1>2. IInv /\ [Next]_vars => IInv'
  <2> SUFFICES ASSUME IInv, [Next]_vars
               PROVE  IInv'
    OBVIOUS
  <2>1. CASE ServerDies
    BY <2>1, ServerDiesKeeps
  <2>2. ASSUME NEW s \in Slots, Arrive(s)
        PROVE  IInv'
    BY <2>2, ArriveKeeps
  <2>3. ASSUME NEW s \in Slots, Proceed(s)
        PROVE  IInv'
    BY <2>3, ProceedKeeps
  <2>4. CASE UNCHANGED vars
    BY <2>4, UnchangedOK DEF vars, tables, IInv, PendingOK
  <2>5. QED
    BY <2>1, <2>2, <2>3, <2>4 DEF Next
<1>3. QED
  BY <1>1, <1>2, PTL DEF Spec

(* Every row and every request in flight keeps its type.                   *)
THEOREM OrgTypeCorrect == Spec => []TypeOK
BY InductiveInvariant, IInvProperties, PTL

(* Nothing refers to an org that is gone or to a person not registered.    *)
THEOREM OrgReferencesIntact == Spec => []OrgReferences
BY InductiveInvariant, IInvProperties, PTL

(* Nobody is a member of an org twice, whatever the handlers looked up     *)
(* before they inserted.                                                   *)
THEOREM MembershipOnce == Spec => []OneMembership
BY InductiveInvariant, IInvProperties, PTL

-----------------------------------------------------------------------------
(***************************************************************************)
(* OrgMembership implements OrgLedger: each statement on the tables is a   *)
(* step of the ledger or changes nothing in it, for every set of people    *)
(* and of slots and every bound on the ids.                                *)
(***************************************************************************)
(* The ledger's state, as Ledger maps it.                                  *)
Roll     == {<<m.orgId, m.memberId>> : m \in members}
Founded  == {o \in OrgIds : o < nextId["org"]}
Names    == ({"invite"} \X InviteIds) \union ({"transfer"} \X TransferIds)
Claimed  == {n \in Names : n[2] < nextId[n[1]]}
OpenOnes == ({"invite"} \X DOMAIN invites)
              \union ({"transfer"} \X DOMAIN transfers)
Claims   == [ n \in OpenOnes |->
                IF n[1] = "invite"
                THEN [ org   |-> invites[n[2]].orgId,
                       about |-> invites[n[2]].inviteeId ]
                ELSE [ org   |-> transfers[n[2]].orgId,
                       about |-> transfers[n[2]].newOwnerId ] ]

LEMMA SameLedger ==
  ASSUME orgs' = orgs, Founded' = Founded, Roll' = Roll, Claims' = Claims,
         Claimed' = Claimed
  PROVE  UNCHANGED Ledger!lvars
BY DEF Ledger!lvars, Founded, Roll, Claims, Claimed, Names, OpenOnes

LEMMA SameNames ==
  ASSUME nextId' = nextId
  PROVE  Founded' = Founded /\ Claimed' = Claimed
BY DEF Founded, Claimed, Names

LEMMA SameClaims ==
  ASSUME DOMAIN invites' = DOMAIN invites, transfers' = transfers,
         \A i \in DOMAIN invites :
           /\ invites'[i].orgId = invites[i].orgId
           /\ invites'[i].inviteeId = invites[i].inviteeId
  PROVE  Claims' = Claims
BY DEF Claims, OpenOnes

LEMMA ReadRefines ==
  ASSUME UNCHANGED tables
  PROVE  UNCHANGED Ledger!lvars
BY SameLedger, SameNames, SameClaims DEF tables, Roll

LEMMA CreateUserRefines ==
  ASSUME NEW p, createUser(p)
  PROVE  UNCHANGED Ledger!lvars
BY SameLedger, SameNames, SameClaims DEF createUser, Roll

-----------------------------------------------------------------------------
(* Orgs.                                                                   *)
LEMMA CreateOrgRefines ==
  ASSUME TablesOK, NEW p \in users, createOrg(p)
  PROVE  Ledger!LedgerNext
<1> DEFINE o == nextId["org"]
<1>1. o \in OrgIds /\ p \in Persons
  BY FreshId DEF createOrg, TablesOK, TablesTypeOK
<1>2. /\ nextId \in [Sequences -> Nat]
      /\ nextId' = [nextId EXCEPT !["org"] = @ + 1]
  BY DEF createOrg, Draw, TablesOK, TablesTypeOK
<1>3. o \notin Founded /\ Founded' = Founded \union {o}
  BY <1>1, <1>2, OrgBoundsAssumption DEF Founded, OrgIds, Sequences
<1>4. Claimed' = Claimed
  <2>1. \A n \in Names : nextId'[n[1]] = nextId[n[1]]
    BY <1>2 DEF Names, Sequences
  <2>2. QED
    BY <2>1 DEF Claimed, Names
<1>5. Claims' = Claims /\ Roll' = Roll
  BY SameClaims DEF createOrg, Roll
<1>6. orgs' = [q \in DOMAIN orgs \union {o} |-> IF q = o THEN p ELSE orgs[q]]
  BY DEF createOrg, WithRow
<1>7. Ledger!Found(o, p)
  BY <1>3, <1>4, <1>5, <1>6
     DEF Ledger!Found, Ledger!Standing, Founded, Claims, Claimed, Roll,
         Names, OpenOnes
<1>8. QED
  BY <1>1, <1>7 DEF Ledger!LedgerNext

LEMMA DeleteOrgRefines ==
  ASSUME TablesOK, NEW o \in OrgIds, deleteOrg(o)
  PROVE  [Ledger!LedgerNext]_(Ledger!lvars)
<1>1. Founded' = Founded /\ Claimed' = Claimed
  BY SameNames DEF deleteOrg
<1>2. Claims' = Claims /\ Roll' = Roll
  BY SameClaims DEF deleteOrg, Roll
<1>3. CASE UNCHANGED orgs
  BY <1>1, <1>2, <1>3, SameLedger
<1>4. CASE Live(o) /\ ~Referred(o) /\ orgs' = WithoutRow(orgs, o)
  <2>1. \A p \in Persons : <<o, p>> \notin Roll
    BY <1>4 DEF Referred, Roll
  <2>2. \A n \in DOMAIN Claims : Claims[n].org # o
    BY <1>4 DEF Referred, Claims, OpenOnes
  <2>3. orgs' = [q \in DOMAIN orgs \ {o} |-> orgs[q]]
    BY <1>4 DEF WithoutRow
  <2>4. Ledger!Dissolve(o)
    BY <1>1, <1>2, <1>4, <2>1, <2>2, <2>3
       DEF Ledger!Dissolve, Ledger!Standing, Founded, Claims, Claimed, Roll,
           Names, OpenOnes, Live
  <2>5. QED
    BY <2>4 DEF Ledger!LedgerNext
<1>5. QED
  BY <1>3, <1>4 DEF deleteOrg

-----------------------------------------------------------------------------
(* Members.                                                                *)
LEMMA AddMemberRefines ==
  ASSUME TablesOK, NEW o \in OrgIds, NEW entries \in SUBSET MemberEntry,
         addMember(o, entries)
  PROVE  [Ledger!LedgerNext]_(Ledger!lvars)
<1> DEFINE people == {e.memberId : e \in entries}
<1>1. /\ Founded' = Founded /\ Claimed' = Claimed /\ Claims' = Claims
      /\ orgs' = orgs
  BY SameNames, SameClaims DEF addMember
<1>2. CASE ~Insertable(o, entries)
  BY <1>1, <1>2, SameLedger DEF addMember, Roll
<1>3. CASE Insertable(o, entries)
  <2>1. people \in SUBSET Persons
    BY DEF MemberEntry
  <2>2. \A p \in people : <<o, p>> \notin Roll
    BY <1>3 DEF Insertable, Member, Roll
  <2>3. \A e \in entries : /\ MemberRow(o, e).orgId = o
                           /\ MemberRow(o, e).memberId = e.memberId
    BY DEF MemberRow
  <2>4. Roll' = Roll \union ({o} \X people)
    <3>1. members' = members \union {MemberRow(o, e) : e \in entries}
      BY <1>3 DEF addMember
    <3>2. QED
      BY <2>3, <3>1 DEF Roll
  <2> HIDE DEF people
  <2>5. Ledger!Join(o, people)
    BY <1>1, <1>3, <2>2, <2>4
       DEF Ledger!Join, Ledger!Standing, Founded, Claims, Claimed, Roll,
           Names, OpenOnes, Insertable, Live
  <2>6. QED
    BY <2>1, <2>5 DEF Ledger!LedgerNext
<1>4. QED
  BY <1>2, <1>3

(* The role is no part of the roll.                                        *)
LEMMA UpdateRoleRefines ==
  ASSUME NEW o, NEW p, NEW role, updateMemberRole(o, p, role)
  PROVE  UNCHANGED Ledger!lvars
<1>1. /\ Founded' = Founded /\ Claimed' = Claimed /\ Claims' = Claims
      /\ orgs' = orgs
  BY SameNames, SameClaims DEF updateMemberRole
<1>2. Roll' = Roll
  <2> DEFINE row == MemberRow(o, Entry(p, role))
  <2>1. CASE ~Member(o, p)
    BY <2>1 DEF updateMemberRole, Roll
  <2>2. CASE Member(o, p)
    <3>1. members' = {m \in members : m.orgId # o \/ m.memberId # p}
                       \union {row}
      BY <2>2 DEF updateMemberRole
    <3>2. row.orgId = o /\ row.memberId = p
      BY DEF MemberRow, Entry
    <3>3. <<o, p>> \in Roll
      BY <2>2 DEF Member, Roll
    <3> HIDE DEF row
    <3>4. QED
      BY <3>1, <3>2, <3>3 DEF Roll
  <2>3. QED
    BY <2>1, <2>2
<1>3. QED
  BY <1>1, <1>2, SameLedger

LEMMA RemoveMembersRefines ==
  ASSUME NEW o \in OrgIds, NEW people \in SUBSET Persons,
         removeMembers(o, people)
  PROVE  Ledger!LedgerNext
<1>1. /\ Founded' = Founded /\ Claimed' = Claimed /\ Claims' = Claims
      /\ orgs' = orgs
  BY SameNames, SameClaims DEF removeMembers
<1>2. Roll' = Roll \ ({o} \X people)
  BY DEF removeMembers, Roll
<1>3. Ledger!Leave(o, people)
  BY <1>1, <1>2
     DEF Ledger!Leave, Founded, Claims, Claimed, Roll, Names, OpenOnes
<1>4. QED
  BY <1>3 DEF Ledger!LedgerNext

-----------------------------------------------------------------------------
(* Claims.                                                                 *)

(* Ids drawn from a sequence are names never used before.                  *)
LEMMA DrawnNames ==
  ASSUME TablesTypeOK, NEW q \in {"invite", "transfer"}, NEW n \in Nat,
         Fresh(q, n), Draw(q, n)
  PROVE  LET names == {q} \X (nextId[q] .. (nextId[q] + n - 1))
         IN  /\ names \in SUBSET Names
             /\ names \intersect Claimed = {}
             /\ Claimed' = Claimed \union names
             /\ Founded' = Founded
<1> DEFINE ids == nextId[q] .. (nextId[q] + n - 1)
           names == {q} \X ids
<1>1. /\ nextId \in [Sequences -> Nat] /\ nextId[q] \in Nat /\ nextId[q] >= 1
      /\ nextId' = [nextId EXCEPT ![q] = @ + n]
  BY DEF Draw, TablesTypeOK, Sequences
<1>2. /\ q = "invite" => ids \subseteq InviteIds
      /\ q = "transfer" => ids \subseteq TransferIds
  BY <1>1, OrgBoundsAssumption
     DEF Fresh, SequenceMax, InviteIds, TransferIds
<1>3. nextId'[q] = nextId[q] + n
  BY <1>1 DEF Sequences
<1>4. \A x \in Sequences \ {q} : nextId'[x] = nextId[x]
  BY <1>1
<1> HIDE DEF ids
<1>5. names \in SUBSET Names
  BY <1>2 DEF Names
<1>6. ASSUME NEW m \in Names
      PROVE  /\ m \in names => ~(m[2] < nextId[m[1]])
             /\ (m[2] < nextId'[m[1]]) <=> (m[2] < nextId[m[1]] \/ m \in names)
  <2>1. /\ m = <<m[1], m[2]>> /\ m[2] \in Nat
        /\ m[1] \in {"invite", "transfer"}
    BY OrgBoundsAssumption DEF Names, InviteIds, TransferIds
  <2>2. CASE m[1] = q
    <3>1. m \in names <=> m[2] \in ids
      BY <2>1, <2>2
    <3>2. m[2] \in ids <=> nextId[q] <= m[2] /\ m[2] < nextId[q] + n
      BY <1>1, <2>1 DEF ids
    <3>3. QED
      BY <1>1, <1>3, <2>1, <2>2, <3>1, <3>2
  <2>3. CASE m[1] # q
    <3>1. m \notin names
      BY <2>1, <2>3
    <3>2. nextId'[m[1]] = nextId[m[1]]
      BY <1>4, <2>1, <2>3 DEF Sequences
    <3>3. QED
      BY <3>1, <3>2
  <2>4. QED
    BY <2>2, <2>3
<1>7. names \intersect Claimed = {} /\ Claimed' = Claimed \union names
  BY <1>5, <1>6 DEF Claimed, Names
<1>8. Founded' = Founded
  BY <1>4 DEF Founded, Sequences
<1>9. QED
  BY <1>5, <1>7, <1>8 DEF ids

LEMMA LoseRefines ==
  ASSUME NEW names \in SUBSET Names, names \intersect Claimed = {},
         Claimed' = Claimed \union names, Founded' = Founded,
         UNCHANGED <<orgs, members, invites, transfers>>
  PROVE  Ledger!LedgerNext
<1>1. Claims' = Claims /\ Roll' = Roll
  BY SameClaims DEF Roll
<1>2. Ledger!Lose(names)
  BY <1>1 DEF Ledger!Lose, Founded, Claims, Claimed, Roll, Names, OpenOnes
<1>3. QED
  BY <1>2 DEF Ledger!LedgerNext, Names

(* Claims about the org are entered under the names.                       *)
Entered(names, o, about) ==
  /\ names \in SUBSET Names
  /\ names \intersect Claimed = {}
  /\ Claimed' = Claimed \union names
  /\ about \in [names -> Persons]
  /\ Claims' = [ n \in DOMAIN Claims \union names |->
                   IF n \in names THEN [org |-> o, about |-> about[n]]
                   ELSE Claims[n] ]

LEMMA ClaimRefines ==
  ASSUME TablesOK, NEW o, Live(o), NEW names, NEW about,
         Entered(names, o, about), Founded' = Founded,
         UNCHANGED <<orgs, members>>
  PROVE  Ledger!LedgerNext
<1>1. Roll' = Roll
  BY DEF Roll
<1>2. Ledger!Claim(o, names, about)
  BY <1>1
     DEF Entered, Ledger!Claim, Ledger!Standing, Founded, Claims, Claimed,
         Roll, Names, OpenOnes, Live
<1>3. /\ o \in OrgIds /\ names \in SUBSET Names
      /\ about \in [names -> Persons]
  BY DEF Live, TablesOK, TablesTypeOK, Entered
<1>4. QED
  BY <1>2, <1>3 DEF Ledger!LedgerNext, Names

LEMMA NoDrawRefines ==
  ASSUME NEW q, NEW n, ~Fresh(q, n), Draw(q, n),
         UNCHANGED <<orgs, members, invites, transfers>>
  PROVE  UNCHANGED Ledger!lvars
BY SameNames, SameClaims, SameLedger DEF Draw, Roll

(* Invitations to the org are inserted under the next n ids.               *)
Inserted(n, o, at) ==
  LET ids == nextId["invite"] .. (nextId["invite"] + n - 1)
  IN  /\ at \in [ids -> Persons]
      /\ DOMAIN invites' = DOMAIN invites \union ids
      /\ \A i \in ids : /\ invites'[i].orgId = o
                        /\ invites'[i].inviteeId = at[i]
      /\ \A i \in DOMAIN invites \ ids : invites'[i] = invites[i]

LEMMA InvitesRefine ==
  ASSUME TablesOK, NEW n \in Nat, Fresh("invite", n), Draw("invite", n),
         NEW o, Live(o), NEW at, Inserted(n, o, at),
         UNCHANGED <<orgs, members, transfers>>
  PROVE  Ledger!LedgerNext
<1> DEFINE ids == nextId["invite"] .. (nextId["invite"] + n - 1)
           names == {"invite"} \X ids
           about == [m \in names |-> at[m[2]]]
<1>1. /\ names \in SUBSET Names /\ names \intersect Claimed = {}
      /\ Claimed' = Claimed \union names /\ Founded' = Founded
  BY DrawnNames DEF TablesOK
<1>2. /\ at \in [ids -> Persons]
      /\ DOMAIN invites' = DOMAIN invites \union ids
      /\ \A i \in ids : /\ invites'[i].orgId = o
                        /\ invites'[i].inviteeId = at[i]
      /\ \A i \in DOMAIN invites \ ids : invites'[i] = invites[i]
  BY DEF Inserted
<1> HIDE DEF ids
<1>3. about \in [names -> Persons]
  BY <1>2
<1>4. Claims' = [ m \in DOMAIN Claims \union names |->
                    IF m \in names THEN [org |-> o, about |-> about[m]]
                    ELSE Claims[m] ]
  <2>1. OpenOnes' = OpenOnes \union names
    BY <1>2 DEF OpenOnes
  <2>2. ASSUME NEW m \in OpenOnes'
        PROVE  (IF m[1] = "invite"
                THEN [ org   |-> invites'[m[2]].orgId,
                       about |-> invites'[m[2]].inviteeId ]
                ELSE [ org   |-> transfers'[m[2]].orgId,
                       about |-> transfers'[m[2]].newOwnerId ])
               = (IF m \in names THEN [org |-> o, about |-> about[m]]
                  ELSE Claims[m])
    <3>1. CASE m \in names
      BY <1>2, <3>1
    <3>2. CASE m \notin names
      <4>1. m \in OpenOnes
        BY <2>1, <3>2
      <4>2. m[1] = "invite" => m[2] \in DOMAIN invites \ ids
        BY <3>2, <4>1 DEF OpenOnes
      <4>3. QED
        BY <1>2, <3>2, <4>1, <4>2 DEF Claims
    <3>3. QED
      BY <3>1, <3>2
  <2> HIDE DEF names, about
  <2>3. DOMAIN Claims = OpenOnes
    BY DEF Claims
  <2>4. QED
    BY <2>1, <2>2, <2>3 DEF Claims
<1> HIDE DEF names, about
<1>5. Entered(names, o, about)
  BY <1>1, <1>3, <1>4 DEF Entered
<1>6. QED
  BY <1>1, <1>5, ClaimRefines

LEMMA CreateInviteRefines ==
  ASSUME TablesOK, NEW o, NEW owner, NEW p, createInvite(o, owner, p)
  PROVE  [Ledger!LedgerNext]_(Ledger!lvars)
<1> DEFINE i == nextId["invite"]
           names == {"invite"} \X (i .. (i + 1 - 1))
           ids == i .. (i + 1 - 1)
<1>1. Cardinality({p}) = 1
  BY FS_Singleton
<1>2. CASE ~Fresh("invite", 1)
  BY <1>1, <1>2, NoDrawRefines DEF createInvite, Invitable
<1>3. CASE Fresh("invite", 1) /\ ~Invitable(o, owner, {p})
  <2>1. /\ names \in SUBSET Names /\ names \intersect Claimed = {}
        /\ Claimed' = Claimed \union names /\ Founded' = Founded
    BY <1>3, DrawnNames DEF TablesOK, createInvite
  <2> HIDE DEF names
  <2>2. QED
    BY <1>3, <2>1, LoseRefines DEF createInvite
<1>4. CASE Invitable(o, owner, {p})
  <2>1. ids = {i}
    BY DEF TablesOK, TablesTypeOK, Sequences
  <2>2. p \in Persons /\ Live(o) /\ Fresh("invite", 1)
    BY <1>1, <1>4 DEF Invitable, TablesOK, TablesTypeOK
  <2>3. /\ DOMAIN invites' = DOMAIN invites \union ids
        /\ invites'[i].orgId = o /\ invites'[i].inviteeId = p
        /\ \A j \in DOMAIN invites \ ids : invites'[j] = invites[j]
    BY <1>4, <2>1 DEF createInvite, WithRow
  <2>4. Inserted(1, o, [j \in ids |-> p])
    BY <2>1, <2>2, <2>3 DEF Inserted
  <2>5. Draw("invite", 1) /\ UNCHANGED <<orgs, members, transfers>>
    BY DEF createInvite
  <2>6. QED
    BY <2>2, <2>4, <2>5, InvitesRefine
<1>5. QED
  BY <1>2, <1>3, <1>4

LEMMA CreateMultipleInviteRefines ==
  ASSUME TablesOK, NEW o, NEW owner, NEW people \in SUBSET Persons,
         createMultipleInvite(o, owner, people)
  PROVE  [Ledger!LedgerNext]_(Ledger!lvars)
<1> DEFINE n == Cardinality(people)
           first == nextId["invite"]
           ids == first .. (first + n - 1)
           names == {"invite"} \X ids
<1>1. n \in Nat
  BY OrgBoundsAssumption, FS_Subset, FS_CardinalityType
<1>2. Draw("invite", n) /\ UNCHANGED <<orgs, members, transfers>>
  BY DEF createMultipleInvite
<1>3. CASE ~Fresh("invite", n)
  BY <1>2, <1>3, NoDrawRefines DEF createMultipleInvite, Invitable
<1>4. CASE Fresh("invite", n) /\ ~Invitable(o, owner, people)
  <2>1. UNCHANGED invites
    BY <1>4 DEF createMultipleInvite
  <2> HIDE DEF n
  <2>2. /\ names \in SUBSET Names /\ names \intersect Claimed = {}
        /\ Claimed' = Claimed \union names /\ Founded' = Founded
    BY <1>1, <1>2, <1>4, DrawnNames DEF TablesOK
  <2> HIDE DEF names
  <2>3. QED
    BY <1>2, <2>1, <2>2, LoseRefines
<1>5. CASE Invitable(o, owner, people)
  <2>1. PICK at \in [ids -> people] :
          invites' = [ i \in DOMAIN invites \union ids |->
                         IF i \in ids
                         THEN [ orgId |-> o, ownerId |-> owner,
                                inviteeId |-> at[i], status |-> "Pending" ]
                         ELSE invites[i] ]
    BY <1>5 DEF createMultipleInvite
  <2>2. Live(o) /\ Fresh("invite", n)
    BY <1>5 DEF Invitable
  <2> HIDE DEF n
  <2>3. Inserted(n, o, at)
    BY <2>1 DEF Inserted
  <2> HIDE DEF ids
  <2>4. QED
    BY <1>1, <1>2, <2>2, <2>3, InvitesRefine
<1>6. QED
  BY <1>3, <1>4, <1>5

LEMMA TransferRefines ==
  ASSUME TablesOK, NEW o, NEW by, NEW to,
         requestOwnershipTransfer(o, by, to)
  PROVE  [Ledger!LedgerNext]_(Ledger!lvars)
<1> DEFINE t == nextId["transfer"]
           names == {"transfer"} \X (t .. (t + 1 - 1))
           row == [orgId |-> o, requestedBy |-> by, newOwnerId |-> to]
<1>1. Draw("transfer", 1) /\ UNCHANGED <<orgs, members, invites>>
  BY DEF requestOwnershipTransfer
<1>2. CASE ~Fresh("transfer", 1)
  BY <1>1, <1>2, NoDrawRefines DEF requestOwnershipTransfer
<1>3. ASSUME Fresh("transfer", 1)
      PROVE  /\ names \in SUBSET Names /\ names \intersect Claimed = {}
             /\ Claimed' = Claimed \union names /\ Founded' = Founded
  BY <1>1, <1>3, DrawnNames DEF TablesOK
<1>4. CASE Fresh("transfer", 1) /\ ~(Live(o) /\ {by, to} \subseteq users)
  <2>1. UNCHANGED transfers
    BY <1>4 DEF requestOwnershipTransfer
  <2> HIDE DEF names
  <2>2. QED
    BY <1>1, <1>3, <1>4, <2>1, LoseRefines
<1>5. CASE Fresh("transfer", 1) /\ Live(o) /\ {by, to} \subseteq users
  <2> DEFINE about == [m \in names |-> to]
  <2>1. names = {<<"transfer", t>>}
    BY DEF TablesOK, TablesTypeOK, Sequences
  <2>2. transfers' = WithRow(transfers, t, row)
    BY <1>5 DEF requestOwnershipTransfer
  <2>3. row.orgId = o /\ row.newOwnerId = to
    OBVIOUS
  <2>4. o \in OrgIds /\ to \in Persons
    BY <1>5 DEF Live, TablesOK, TablesTypeOK
  <2>5. about \in [names -> Persons]
    BY <2>4
  <2> HIDE DEF row
  <2>6. /\ DOMAIN transfers' = DOMAIN transfers \union {t}
        /\ transfers'[t] = row
        /\ \A k \in DOMAIN transfers : k # t => transfers'[k] = transfers[k]
    BY <2>2 DEF WithRow
  <2>7. Claims' = [ m \in DOMAIN Claims \union names |->
                      IF m \in names THEN [org |-> o, about |-> about[m]]
                      ELSE Claims[m] ]
    <3>1. OpenOnes' = OpenOnes \union names
      BY <1>1, <2>1, <2>6 DEF OpenOnes
    <3>2. ASSUME NEW m \in OpenOnes'
          PROVE  (IF m[1] = "invite"
                  THEN [ org   |-> invites'[m[2]].orgId,
                         about |-> invites'[m[2]].inviteeId ]
                  ELSE [ org   |-> transfers'[m[2]].orgId,
                         about |-> transfers'[m[2]].newOwnerId ])
                 = (IF m \in names THEN [org |-> o, about |-> about[m]]
                    ELSE Claims[m])
      <4>1. CASE m \in names
        <5>1. m[1] = "transfer" /\ m[2] = t
          BY <2>1, <4>1
        <5>2. about[m] = to
          BY <4>1
        <5>3. QED
          BY <2>3, <2>6, <4>1, <5>1, <5>2
      <4>2. CASE m \notin names
        <5>1. m \in OpenOnes
          BY <3>1, <4>2
        <5>2. m[1] # "invite" => m[2] \in DOMAIN transfers /\ m[2] # t
          BY <2>1, <4>2, <5>1 DEF OpenOnes
        <5>3. QED
          BY <1>1, <2>6, <4>2, <5>1, <5>2 DEF Claims
      <4>3. QED
        BY <4>1, <4>2
    <3> HIDE DEF names, about
    <3>3. DOMAIN Claims = OpenOnes
      BY DEF Claims
    <3>4. QED
      BY <3>1, <3>2, <3>3 DEF Claims
  <2> HIDE DEF names, about
  <2>8. Entered(names, o, about)
    BY <1>3, <1>5, <2>5, <2>7 DEF Entered
  <2>9. QED
    BY <1>1, <1>3, <1>5, <2>8, ClaimRefines
<1>6. QED
  BY <1>2, <1>4, <1>5

(* An answer changes the status only.                                      *)
LEMMA UpdateInviteRefines ==
  ASSUME TablesOK, NEW i, NEW status, updateInvite(i, status)
  PROVE  UNCHANGED Ledger!lvars
<1>1. invites[i] \in OrgInvite
  BY DEF updateInvite, TablesOK, TablesTypeOK
<1>2. /\ DOMAIN invites' = DOMAIN invites
      /\ \A j \in DOMAIN invites :
           /\ invites'[j].orgId = invites[j].orgId
           /\ invites'[j].inviteeId = invites[j].inviteeId
  BY <1>1 DEF updateInvite, OrgInvite
<1>3. QED
  BY <1>2, SameNames, SameClaims, SameLedger DEF updateInvite, Roll

LEMMA DeleteInviteRefines ==
  ASSUME NEW i \in InviteIds, deleteInvite(i)
  PROVE  [Ledger!LedgerNext]_(Ledger!lvars)
<1> DEFINE name == <<"invite", i>>
<1>1. /\ Founded' = Founded /\ Claimed' = Claimed /\ Roll' = Roll
      /\ orgs' = orgs /\ transfers' = transfers
  BY SameNames DEF deleteInvite, Roll
<1>2. /\ DOMAIN invites' = DOMAIN invites \ {i}
      /\ \A j \in DOMAIN invites' : invites'[j] = invites[j]
  BY DEF deleteInvite, WithoutRow
<1>3. CASE i \notin DOMAIN invites
  BY <1>1, <1>2, <1>3, SameClaims, SameLedger
<1>4. CASE i \in DOMAIN invites
  <2>1. OpenOnes' = OpenOnes \ {name} /\ name \in OpenOnes
    BY <1>1, <1>2, <1>4 DEF OpenOnes
  <2>2. Claims' = [m \in DOMAIN Claims \ {name} |-> Claims[m]]
    <3>1. DOMAIN Claims = OpenOnes
      BY DEF Claims
    <3>2. ASSUME NEW m \in OpenOnes'
          PROVE  Claims'[m] = Claims[m]
      BY <1>1, <1>2, <2>1 DEF Claims, OpenOnes
    <3>3. Claims' = [m \in OpenOnes' |-> Claims'[m]]
      BY DEF Claims
    <3>4. QED
      BY <2>1, <3>1, <3>2, <3>3
  <2>3. Ledger!Withdraw(name)
    BY <1>1, <2>1, <2>2
       DEF Ledger!Withdraw, Founded, Claims, Claimed, Roll, Names, OpenOnes
  <2>4. name \in Names
    BY DEF Names
  <2>5. QED
    BY <2>3, <2>4 DEF Ledger!LedgerNext, Names
<1>5. QED
  BY <1>3, <1>4

-----------------------------------------------------------------------------
(* The steps of the handlers.                                              *)

(* A request that arrives reads, or founds an org.                         *)
LEMMA ArriveRefines ==
  ASSUME IInv, NEW s \in Slots, Arrive(s)
  PROVE  [Ledger!LedgerNext]_(Ledger!lvars)
<1>1. Read \/ \E u \in users : createOrg(u)
  BY DEF Arrive, createOrganization, deleteOrganization, createOrgInvite,
         createOwnershipTransfer, addConnectorAsMember, updateOrgMemberRole,
         addMultipleMemberFromPhone, deleteOrgMembers, createOrgMember,
         updateOrgInvite, deleteOrgInvite, OrgInviteGuard, OrgMemberGuard,
         Enter
<1>2. QED
  BY <1>1, ReadRefines, CreateOrgRefines DEF Read, IInv

LEMMA ProceedRefines ==
  ASSUME IInv, NEW s \in Slots, Proceed(s)
  PROVE  [Ledger!LedgerNext]_(Ledger!lvars)
<1> DEFINE c == pending[s].call
<1>0. TablesOK /\ PendingOK
  BY DEF IInv
<1>1. ASSUME c.do \notin {"idle", "lost"}
      PROVE  c \in Call
  BY <1>0, <1>1, BusyRequest
<1>2. CASE Read
  BY <1>2, ReadRefines DEF Read
<1>3. CASE AddEach(s, c)
  <2>1. c.do = "addEach" /\ c.org \in OrgIds /\ c.people \in SUBSET Persons
    BY <1>1, <1>3, CallFields DEF AddEach
  <2>2. ASSUME NEW p \in c.people, addMember(c.org, {Entry(p, "Member")})
        PROVE  [Ledger!LedgerNext]_(Ledger!lvars)
    <3>1. {Entry(p, "Member")} \in SUBSET MemberEntry
      BY <2>1 DEF Entry, MemberEntry, Roles
    <3>2. QED
      BY <1>0, <2>1, <2>2, <3>1, AddMemberRefines
  <2>3. QED
    BY <1>2, <1>3, <2>2 DEF AddEach
<1>4. CASE Transfer(s, c)
  BY <1>0, <1>4, TransferRefines DEF Transfer
<1>5. CASE Close(s, c)
  <2>1. c.org \in OrgIds
    BY <1>1, <1>5, CallFields DEF Close
  <2>2. QED
    BY <1>0, <1>5, <2>1, DeleteOrgRefines DEF Close
<1>6. CASE Invite(s, c)
  BY <1>0, <1>6, CreateInviteRefines DEF Invite
<1>7. CASE SetStatus(s, c)
  BY <1>0, <1>2, <1>7, UpdateInviteRefines DEF SetStatus
<1>8. CASE Uninvite(s, c)
  <2>1. c.id \in InviteIds
    BY <1>1, <1>8, CallFields DEF Uninvite
  <2>2. QED
    BY <1>8, <2>1, DeleteInviteRefines DEF Uninvite
<1>9. CASE AddAll(s, c)
  <2>1. c.org \in OrgIds /\ c.entries \in SUBSET MemberEntry
    BY <1>1, <1>9, CallFields DEF AddAll
  <2>2. QED
    BY <1>0, <1>9, <2>1, AddMemberRefines DEF AddAll
<1>10. CASE Register(s, c)
  BY <1>10, CreateUserRefines DEF Register
<1>11. CASE InviteAll(s, c)
  <2>1. c.new \in SUBSET Persons
    BY <1>1, <1>11, CallFields DEF InviteAll
  <2>2. QED
    BY <1>0, <1>2, <1>11, <2>1, CreateMultipleInviteRefines DEF InviteAll
<1>12. CASE RegisterConnector(s, c)
  BY <1>12, CreateUserRefines DEF RegisterConnector
<1>13. CASE SetRole(s, c)
  BY <1>13, UpdateRoleRefines DEF SetRole
<1>14. CASE RemoveAll(s, c)
  <2>1. c.org \in OrgIds /\ c.people \in SUBSET Persons
    BY <1>1, <1>14, CallFields DEF RemoveAll
  <2>2. QED
    BY <1>14, <2>1, RemoveMembersRefines DEF RemoveAll
<1>15. CASE SetStatusUnseen(s, c)
  BY <1>0, <1>2, <1>15, UpdateInviteRefines DEF SetStatusUnseen
<1>16. QED
  BY <1>2, <1>3, <1>4, <1>5, <1>6, <1>7, <1>8, <1>9, <1>10, <1>11, <1>12,
     <1>13, <1>14, <1>15
     DEF Proceed, FindOrg, FindInvites, ReadInvite, ReadOrg, CheckMembers,
         FindOrgOfPhones, FindPeople, FindPending, AfterRegister,
         AnswerInvited, FindConnector, CheckConnector, CheckRole,
         CheckLeavers

(* Every behaviour of the handlers is a behaviour of the ledger.           *)
THEOREM LedgerImplemented == Spec => ImplementsLedger
<1>1. Init => Ledger!LedgerInit
  <2> SUFFICES ASSUME Init
               PROVE  Ledger!LedgerInit
    OBVIOUS
  <2>1. Founded = {} /\ Claimed = {}
    BY OrgBoundsAssumption
       DEF Init, TablesInit, Founded, Claimed, Names, OrgIds, InviteIds,
           TransferIds, Sequences
  <2>2. OpenOnes = {} /\ Roll = {}
    BY DEF Init, TablesInit, OpenOnes, Roll
  <2>3. QED
    BY <2>1, <2>2
       DEF Init, TablesInit, Ledger!LedgerInit, Founded, Claimed, Names,
           OpenOnes, Roll
<1>2. IInv /\ [Next]_vars => [Ledger!LedgerNext]_(Ledger!lvars)
  <2> SUFFICES ASSUME IInv, [Next]_vars
               PROVE  [Ledger!LedgerNext]_(Ledger!lvars)
    OBVIOUS
  <2>1. CASE ServerDies
    BY <2>1, ReadRefines DEF ServerDies
  <2>2. ASSUME NEW s \in Slots, Arrive(s)
        PROVE  [Ledger!LedgerNext]_(Ledger!lvars)
    BY <2>2, ArriveRefines
  <2>3. ASSUME NEW s \in Slots, Proceed(s)
        PROVE  [Ledger!LedgerNext]_(Ledger!lvars)
    BY <2>3, ProceedRefines
  <2>4. CASE UNCHANGED vars
    BY <2>4, ReadRefines DEF vars, tables
  <2>5. QED
    BY <2>1, <2>2, <2>3, <2>4 DEF Next
<1>3. QED
  BY <1>1, <1>2, InductiveInvariant, PTL
     DEF Spec, ImplementsLedger, Ledger!LedgerSpec

-----------------------------------------------------------------------------
(***************************************************************************)
(* Approvals.  That an id is never drawn again, and that a row keeps the   *)
(* org and the person it is about, is read off the ledger.                 *)
(***************************************************************************)

(* A step as the ledger sees it.                                           *)
LEMMA NextRefines ==
  ASSUME IInv, [Next]_vars
  PROVE  [Ledger!LedgerNext]_(Ledger!lvars)
<1>1. CASE ServerDies \/ UNCHANGED vars
  BY <1>1, ReadRefines DEF ServerDies, vars, tables
<1>2. CASE \E s \in Slots : Arrive(s) \/ Proceed(s)
  BY <1>2, ArriveRefines, ProceedRefines
<1>3. QED
  BY <1>1, <1>2 DEF Next

(* What the ledger promises of claims: a name is used once, and what a     *)
(* claim is about does not change.                                         *)
LEMMA ClaimsStay ==
  ASSUME [Ledger!LedgerNext]_(Ledger!lvars)
  PROVE  /\ Claimed \subseteq Claimed'
         /\ \A n \in DOMAIN Claims' :
              \/ n \in DOMAIN Claims /\ Claims'[n] = Claims[n]
              \/ n \in Claimed' /\ n \notin Claimed
<1>1. CASE \/ UNCHANGED Ledger!lvars
           \/ \E o, p : \/ Ledger!Found(o, p) \/ Ledger!Dissolve(o)
                        \/ Ledger!Join(o, p) \/ Ledger!Leave(o, p)
  <2>1. Claims' = Claims /\ Claimed' = Claimed
    BY <1>1 DEF Ledger!lvars, Ledger!Found, Ledger!Dissolve, Ledger!Join,
       Ledger!Leave, Claims, Claimed, Names, OpenOnes
  <2>2. QED
    BY <2>1
<1>2. CASE \E o, names, about : Ledger!Claim(o, names, about)
  <2>1. PICK o, names, about : Ledger!Claim(o, names, about)
    BY <1>2
  <2>2. /\ names \intersect Claimed = {}
        /\ Claimed' = Claimed \union names
        /\ Claims' = [n \in DOMAIN Claims \union names |->
                        IF n \in names THEN [org |-> o, about |-> about[n]]
                        ELSE Claims[n]]
    BY <2>1 DEF Ledger!Claim, Claims, Claimed, Names, OpenOnes
  <2>3. QED
    BY <2>2
<1>3. CASE \E names : Ledger!Lose(names)
  <2>1. PICK names : Ledger!Lose(names)
    BY <1>3
  <2>2. Claimed' = Claimed \union names /\ Claims' = Claims
    BY <2>1 DEF Ledger!Lose, Claims, Claimed, Names, OpenOnes
  <2>3. QED
    BY <2>2
<1>4. CASE \E n : Ledger!Withdraw(n)
  <2>1. PICK n : Ledger!Withdraw(n)
    BY <1>4
  <2>2. /\ Claims' = [m \in DOMAIN Claims \ {n} |-> Claims[m]]
        /\ Claimed' = Claimed
    BY <2>1 DEF Ledger!Withdraw, Claims, Claimed, Names, OpenOnes
  <2>3. QED
    BY <2>2
<1>5. QED
  BY <1>1, <1>2, <1>3, <1>4 DEF Ledger!LedgerNext

(* The ids in use have been drawn, and what a request is about to do with  *)
(* an invitation it read still fits its row, if there is one.              *)
Drawn(i) == <<"invite", i>> \in Claimed

Fitting(c) ==
  c.do = "setStatus" =>
    /\ Drawn(c.id)
    /\ c.id \in DOMAIN invites =>
         invites[c.id].orgId = c.org /\ invites[c.id].inviteeId = c.person

InvitesDrawn == \A i \in DOMAIN invites : Drawn(i)
CallsFit     == \A s \in Slots : Fitting(pending[s].call)

(* Invitations from one state to the next.                                 *)
LEMMA InvitesStay ==
  ASSUME IInv, [Next]_vars
  PROVE  /\ \A i : Drawn(i) => Drawn(i)'
         /\ \A i \in DOMAIN invites' :
              \/ /\ i \in DOMAIN invites
                 /\ invites'[i].orgId = invites[i].orgId
                 /\ invites'[i].inviteeId = invites[i].inviteeId
              \/ Drawn(i)' /\ ~Drawn(i)
<1>1. /\ Claimed \subseteq Claimed'
      /\ \A n \in DOMAIN Claims' :
           \/ n \in DOMAIN Claims /\ Claims'[n] = Claims[n]
           \/ n \in Claimed' /\ n \notin Claimed
  BY NextRefines, ClaimsStay
<1>2. ASSUME NEW i
      PROVE  /\ <<"invite", i>> \in DOMAIN Claims <=> i \in DOMAIN invites
             /\ i \in DOMAIN invites =>
                  Claims[<<"invite", i>>] =
                    [ org |-> invites[i].orgId,
                      about |-> invites[i].inviteeId ]
  BY DEF Claims, OpenOnes
<1>3. ASSUME NEW i
      PROVE  /\ <<"invite", i>> \in DOMAIN Claims' <=> i \in DOMAIN invites'
             /\ i \in DOMAIN invites' =>
                  Claims'[<<"invite", i>>] =
                    [ org |-> invites'[i].orgId,
                      about |-> invites'[i].inviteeId ]
  BY DEF Claims, OpenOnes
<1>4. ASSUME NEW i, Drawn(i)
      PROVE  Drawn(i)'
  BY <1>1, <1>4 DEF Drawn
<1>5. ASSUME NEW i \in DOMAIN invites'
      PROVE  \/ /\ i \in DOMAIN invites
                /\ invites'[i].orgId = invites[i].orgId
                /\ invites'[i].inviteeId = invites[i].inviteeId
             \/ Drawn(i)' /\ ~Drawn(i)
  <2> DEFINE n == <<"invite", i>>
  <2>1. n \in DOMAIN Claims'
    BY <1>3
  <2>2. \/ n \in DOMAIN Claims /\ Claims'[n] = Claims[n]
        \/ n \in Claimed' /\ n \notin Claimed
    BY <1>1, <2>1
  <2>3. CASE n \in DOMAIN Claims /\ Claims'[n] = Claims[n]
    <3>1. [org |-> invites'[i].orgId, about |-> invites'[i].inviteeId]
            = [org |-> invites[i].orgId, about |-> invites[i].inviteeId]
      BY <1>2, <1>3, <2>3
    <3>2. QED
      BY <1>2, <2>3, <3>1
  <2>4. QED
    BY <2>2, <2>3 DEF Drawn
<1>6. QED
  BY <1>4, <1>5

(* A request that goes on to the update of an invitation has read it.      *)
LEMMA UpdateHasRead ==
  ASSUME IInv, InvitesDrawn, NEW s \in Slots, Arrive(s) \/ Proceed(s)
  PROVE  /\ \A t \in Slots \ {s} : pending'[t] = pending[t]
         /\ pending'[s].call.do = "setStatus" =>
              /\ UNCHANGED invites
              /\ Fitting(pending'[s].call)
<1> DEFINE c == pending[s].call
<1>0. PendingOK
  BY DEF IInv
<1>1. CASE Arrive(s)
  <2>1. PICK u, o, i, p, people, role, entries, status :
          \/ createOrganization(s, u, people)
          \/ deleteOrganization(s, u, o) \/ createOrgInvite(s, u, o)
          \/ createOwnershipTransfer(s, u, o, p)
          \/ addConnectorAsMember(s, u, o, p)
          \/ updateOrgMemberRole(s, u, o, p, role)
          \/ addMultipleMemberFromPhone(s, u, o, people)
          \/ deleteOrgMembers(s, u, o, people)
          \/ createOrgMember(s, u, o, entries)
          \/ updateOrgInvite(s, u, i, status) \/ deleteOrgInvite(s, u, i)
    BY <1>1 DEF Arrive
  <2>2. PICK d : Enter(s, u, d) /\ d.do # "setStatus"
    BY <2>1
       DEF createOrganization, deleteOrganization, createOrgInvite,
           createOwnershipTransfer, addConnectorAsMember,
           updateOrgMemberRole, addMultipleMemberFromPhone,
           deleteOrgMembers, createOrgMember, updateOrgInvite,
           deleteOrgInvite, OrgInviteGuard, OrgMemberGuard
  <2>3. QED
    BY <1>0, <2>2 DEF Enter, PendingOK
<1>2. CASE Proceed(s)
  <2>1. c.do \notin {"idle", "lost"}
    BY <1>2
       DEF Proceed, AddEach, Transfer, Close, FindOrg, Invite, FindInvites,
           ReadInvite, SetStatus, SetStatusUnseen, ReadOrg, Uninvite,
           CheckMembers, AddAll, FindOrgOfPhones, FindPeople,
           FindPending, Register,
           AfterRegister, InviteAll, AnswerInvited, FindConnector,
           CheckConnector, RegisterConnector, CheckRole, SetRole,
           CheckLeavers, RemoveAll
  <2>2. pending[s] \in Request /\ c \in Call
    BY <1>0, <2>1, BusyRequest
  <2>3. \A d : GoOn(s, d) => pending'[s].call = d
    BY <1>0, <2>2 DEF GoOn, PendingOK, Request
  <2>4. End(s) => pending'[s].call.do = "idle"
    BY <1>0 DEF End, PendingOK, Idle
  <2>5. CASE ReadInvite(s, c)
    <3>1. CASE End(s)
      BY <1>0, <2>4, <3>1 DEF End, PendingOK
    <3>2. CASE /\ c.id \in DOMAIN invites
               /\ GoOn(s, [ do |-> "setStatus", id |-> c.id,
                            status |-> c.status,
                            org |-> invites[c.id].orgId,
                            person |-> invites[c.id].inviteeId ])
      <4>1. UNCHANGED invites
        BY <2>5 DEF ReadInvite, Read, tables
      <4>2. QED
        BY <1>0, <2>3, <3>2, <4>1
           DEF GoOn, PendingOK, Fitting, InvitesDrawn
    <3>3. CASE GoOn(s, [ do |-> "setStatusUnseen", id |-> c.id,
                         status |-> c.status ])
      BY <1>0, <2>3, <3>3 DEF GoOn, PendingOK
    <3>4. QED
      BY <2>5, <3>1, <3>2, <3>3 DEF ReadInvite
  <2>6. CASE ~ReadInvite(s, c)
    <3>1. "do" \in DOMAIN c /\ c = [x \in DOMAIN c |-> c[x]]
      BY <2>2 DEF Call
    <3>2. CASE \/ AddEach(s, c) \/ CheckMembers(s, c) \/ FindPeople(s, c)
               \/ FindPending(s, c) \/ Register(s, c)
               \/ FindConnector(s, c) \/ CheckRole(s, c)
               \/ CheckLeavers(s, c)
      <4>1. pending'[s].call.do # "setStatus"
        <5>1. CASE AddEach(s, c)
          BY <2>3, <2>4, <3>1, <5>1 DEF AddEach
        <5>2. CASE FindPeople(s, c)
          BY <2>3, <2>4, <3>1, <5>2 DEF FindPeople
        <5>3. CASE FindPending(s, c)
          BY <2>3, <2>4, <3>1, <5>3 DEF FindPending
        <5>4. CASE Register(s, c)
          BY <2>3, <2>4, <3>1, <5>4 DEF Register
        <5>5. CASE FindConnector(s, c)
          BY <2>3, <2>4, <3>1, <5>5 DEF FindConnector
        <5>6. CASE CheckRole(s, c)
          BY <2>3, <2>4, <3>1, <5>6 DEF CheckRole
        <5>7. CASE CheckMembers(s, c)
          <6>1. PICK x, y :
                  \/ End(s) \/ GoOn(s, [c EXCEPT !.left = x, !.valid = y])
                  \/ GoOn(s, [do |-> "addAll", org |-> c.org, entries |-> y])
            BY <5>7 DEF CheckMembers
          <6>2. c.do # "setStatus"
            BY <5>7 DEF CheckMembers
          <6>3. CASE GoOn(s, [c EXCEPT !.left = x, !.valid = y])
            <7>1. pending'[s].call = [c EXCEPT !.left = x, !.valid = y]
              BY <2>3, <6>3
            <7>2. pending'[s].call.do = c.do
              BY <3>1, <7>1
            <7>3. QED
              BY <6>2, <7>2
          <6>4. QED
            BY <2>3, <2>4, <6>1, <6>3
        <5>8. CASE CheckLeavers(s, c)
          <6>1. PICK x, y :
                  \/ End(s) \/ GoOn(s, [c EXCEPT !.left = x, !.valid = y])
                  \/ GoOn(s, [do |-> "removeAll", org |-> c.org, people |-> y])
            BY <5>8 DEF CheckLeavers
          <6>2. c.do # "setStatus"
            BY <5>8 DEF CheckLeavers
          <6>3. CASE GoOn(s, [c EXCEPT !.left = x, !.valid = y])
            <7>1. pending'[s].call = [c EXCEPT !.left = x, !.valid = y]
              BY <2>3, <6>3
            <7>2. pending'[s].call.do = c.do
              BY <3>1, <7>1
            <7>3. QED
              BY <6>2, <7>2
          <6>4. QED
            BY <2>3, <2>4, <6>1, <6>3
        <5>9. QED
          BY <3>2, <5>1, <5>2, <5>3, <5>4, <5>5, <5>6, <5>7, <5>8
      <4>2. End(s) \/ \E d : GoOn(s, d)
        BY <3>2 DEF AddEach, FindPeople, FindPending, Register,
           FindConnector, CheckRole, CheckMembers, CheckLeavers
      <4>3. QED
        BY <1>0, <4>1, <4>2 DEF End, GoOn, PendingOK
    <3>3. CASE \/ Transfer(s, c) \/ Close(s, c) \/ FindOrg(s, c)
               \/ Invite(s, c) \/ FindInvites(s, c) \/ SetStatus(s, c)
               \/ ReadOrg(s, c) \/ Uninvite(s, c) \/ AddAll(s, c)
               \/ FindOrgOfPhones(s, c) \/ AfterRegister(s, c)
               \/ InviteAll(s, c) \/ AnswerInvited(s, c)
               \/ CheckConnector(s, c) \/ RegisterConnector(s, c)
               \/ SetRole(s, c) \/ RemoveAll(s, c)
               \/ SetStatusUnseen(s, c)
      <4>1. PICK d : (End(s) \/ GoOn(s, d)) /\ d.do # "setStatus"
        BY <3>3 DEF Transfer, Close, FindOrg, Invite, FindInvites,
           SetStatus, ReadOrg, Uninvite, AddAll, FindOrgOfPhones,
           AfterRegister, InviteAll, AnswerInvited, CheckConnector,
           RegisterConnector, SetRole, RemoveAll, SetStatusUnseen, Approve,
           Connect
      <4>2. QED
        BY <1>0, <2>3, <2>4, <4>1 DEF End, GoOn, PendingOK
    <3>4. QED
      BY <1>2, <2>6, <3>2, <3>3 DEF Proceed
  <2>7. QED
    BY <2>5, <2>6
<1>3. QED
  BY <1>1, <1>2

(* Nothing takes an invitation's id, org or person from under a request.   *)
LEMMA FitsKept ==
  ASSUME IInv, InvitesDrawn, CallsFit, [Next]_vars
  PROVE  InvitesDrawn' /\ CallsFit'
<1>1. InvitesDrawn'
  BY InvitesStay DEF InvitesDrawn
<1>2. ASSUME NEW c, Fitting(c)
      PROVE  Fitting(c)'
  BY <1>2, InvitesStay DEF Fitting
<1>3. CASE \E s \in Slots : Arrive(s) \/ Proceed(s)
  <2>1. PICK s \in Slots : Arrive(s) \/ Proceed(s)
    BY <1>3
  <2>2. \A t \in Slots \ {s} : Fitting(pending[t].call)'
    BY <1>2, <2>1, UpdateHasRead DEF CallsFit
  <2>3. Fitting(pending[s].call)'
    <3>1. CASE pending'[s].call.do = "setStatus"
      <4>1. UNCHANGED invites /\ Fitting(pending'[s].call)
        BY <2>1, <3>1, UpdateHasRead
      <4>2. QED
        BY <1>2, <4>1
    <3>2. CASE pending'[s].call.do # "setStatus"
      BY <3>2 DEF Fitting
    <3>3. QED
      BY <3>1, <3>2
  <2>4. QED
    BY <1>1, <2>2, <2>3 DEF CallsFit
<1>4. CASE ServerDies
  <2>1. ASSUME NEW s \in Slots
        PROVE  Fitting(pending[s].call)'
    <3>1. pending'[s] \in {pending[s], Lost}
      BY <1>4, <2>1 DEF ServerDies
    <3>2. CASE pending'[s] = pending[s]
      BY <1>2, <2>1, <3>2 DEF CallsFit
    <3>3. CASE pending'[s] = Lost
      BY <3>3 DEF Fitting, Lost
    <3>4. QED
      BY <3>1, <3>2, <3>3
  <2>2. QED
    BY <1>1, <2>1 DEF CallsFit
<1>5. CASE UNCHANGED vars
  <2>1. \A s \in Slots : Fitting(pending'[s].call)
    BY <1>5 DEF vars, CallsFit
  <2>2. QED
    BY <1>1, <1>2, <2>1 DEF CallsFit
<1>6. QED
  BY <1>1, <1>3, <1>4, <1>5 DEF Next

(* What a step may do to an approval.                                      *)
ApprovalGoesOn(s, i, o, p) ==
  Approving(s, i, o, p) =>
    \/ Approving(s, i, o, p)'
    \/ Member(o, p)'
    \/ i \notin DOMAIN invites'
    \/ pending'[s] = Lost

(* A request keeps what it has left to do, and the invitation its row.     *)
LEMMA OthersLetIt ==
  ASSUME IInv, InvitesDrawn, [Next]_vars,
         NEW s \in Slots, NEW i, NEW o, NEW p, pending'[s] = pending[s]
  PROVE  ApprovalGoesOn(s, i, o, p)
BY InvitesStay DEF ApprovalGoesOn, Approving, InvitesDrawn

(* The request itself updates the invitation, and then enters the member:  *)
(* the invitation still holds the org and the person, so that only one who *)
(* is a member already is refused.                                         *)
LEMMA ApprovalProceeds ==
  ASSUME IInv, InvitesDrawn, CallsFit, [Next]_vars,
         NEW s \in Slots, Proceed(s),
         NEW i \in InviteIds, NEW o \in OrgIds, NEW p \in Persons
  PROVE  ApprovalGoesOn(s, i, o, p)
<1> SUFFICES ASSUME Approving(s, i, o, p), i \in DOMAIN invites'
             PROVE  Approving(s, i, o, p)' \/ Member(o, p)'
  BY DEF ApprovalGoesOn
<1>0. /\ PendingOK /\ References /\ i \in DOMAIN invites
      /\ invites'[i].orgId = invites[i].orgId
      /\ invites'[i].inviteeId = invites[i].inviteeId
  BY InvitesStay DEF IInv, TablesOK, Approving, InvitesDrawn
<1> DEFINE c == pending[s].call
<1>1. CASE c = [ do |-> "setStatus", id |-> i, status |-> "Approved",
                 org |-> o, person |-> p ]
  <2>1. invites[i].orgId = o /\ invites[i].inviteeId = p
    BY <1>0, <1>1 DEF CallsFit, Fitting
  <2>2. SetStatus(s, c)
    BY <1>1
       DEF Proceed, AddEach, Transfer, Close, FindOrg, Invite, FindInvites,
           ReadInvite, SetStatusUnseen, ReadOrg, Uninvite, CheckMembers,
           AddAll,
           FindOrgOfPhones, FindPeople, FindPending, Register,
           AfterRegister, InviteAll, AnswerInvited, FindConnector,
           CheckConnector, RegisterConnector, CheckRole, SetRole,
           CheckLeavers, RemoveAll
  <2>3. GoOn(s, Approve(c))
    BY <1>0, <1>1, <2>2 DEF SetStatus
  <2>4. pending[s] \in Request
    BY <1>0, <1>1, BusyRequest
  <2>5. pending'[s].call = Approve(c)
    BY <1>0, <2>3, <2>4 DEF GoOn, PendingOK, Request
  <2>6. Approve(c) = Approve([org |-> o, person |-> p])
    BY <1>1 DEF Approve
  <2>7. QED
    BY <1>0, <2>1, <2>5, <2>6 DEF Approving
<1>2. CASE /\ c = Approve([org |-> o, person |-> p])
           /\ invites[i].orgId = o /\ invites[i].inviteeId = p
  <2>1. Live(o) /\ p \in users
    BY <1>0, <1>2 DEF References
  <2>2. c = [do |-> "addAll", org |-> o, entries |-> {Entry(p, "Member")}]
    BY <1>2 DEF Approve
  <2>3. AddAll(s, c)
    BY <2>2
       DEF Proceed, AddEach, Transfer, Close, FindOrg, Invite, FindInvites,
           ReadInvite, SetStatus, SetStatusUnseen, ReadOrg, Uninvite,
           CheckMembers, FindOrgOfPhones, FindPeople, FindPending, Register,
           AfterRegister, InviteAll, AnswerInvited, FindConnector,
           CheckConnector, RegisterConnector, CheckRole, SetRole,
           CheckLeavers, RemoveAll
  <2>4. addMember(o, {Entry(p, "Member")})
    BY <2>2, <2>3 DEF AddAll
  <2>5. CASE Member(o, p)
    BY <2>4, <2>5 DEF addMember, Member
  <2>6. CASE ~Member(o, p)
    <3>1. Insertable(o, {Entry(p, "Member")})
      BY <2>1, <2>6 DEF Insertable, Entry
    <3>2. MemberRow(o, Entry(p, "Member")) \in members'
      BY <2>4, <3>1 DEF addMember
    <3>3. QED
      BY <3>2 DEF Member, MemberRow, Entry
  <2>7. QED
    BY <2>5, <2>6
<1>3. QED
  BY <1>1, <1>2 DEF Approving

(* An approval stays under way until its person is a member, or its        *)
(* invitation or the server goes: ApprovedJoins without its fairness.      *)
THEOREM ApprovalsCarriedOn == Spec => ApprovalsHold
<1> DEFINE Fit  == IInv /\ InvitesDrawn /\ CallsFit
           Body == \A s \in Slots, i \in InviteIds, o \in OrgIds,
                     p \in Persons : ApprovalGoesOn(s, i, o, p)
<1>1. Init => InvitesDrawn /\ CallsFit
  BY DEF Init, TablesInit, InvitesDrawn, CallsFit, Fitting, Idle
<1>2. Fit /\ [Next]_vars => InvitesDrawn' /\ CallsFit'
  BY FitsKept
<1>3. Fit /\ [Next]_vars => [Body]_vars
  <2> SUFFICES ASSUME Fit, [Next]_vars,
                      NEW s \in Slots, NEW i \in InviteIds,
                      NEW o \in OrgIds, NEW p \in Persons
               PROVE  ApprovalGoesOn(s, i, o, p)
    OBVIOUS
  <2>1. CASE pending'[s] = pending[s]
    BY <2>1, OthersLetIt
  <2>2. CASE ServerDies
    <3>1. pending'[s] \in {pending[s], Lost}
      BY <2>2 DEF ServerDies
    <3>2. QED
      BY <2>1, <3>1 DEF ApprovalGoesOn
  <2>3. CASE Proceed(s)
    BY <2>3, ApprovalProceeds
  <2>4. CASE Arrive(s)
    <3>1. ~InFlight(s)
      BY <2>4
         DEF Arrive, createOrganization, deleteOrganization,
             createOrgInvite, createOwnershipTransfer,
             addConnectorAsMember, updateOrgMemberRole,
             addMultipleMemberFromPhone, deleteOrgMembers,
             createOrgMember, updateOrgInvite, deleteOrgInvite,
             OrgInviteGuard, OrgMemberGuard, Enter
    <3>2. pending[s].call.do \in {"idle", "lost"}
      BY <3>1 DEF InFlight, Idle, Lost
    <3>3. QED
      BY <3>2 DEF ApprovalGoesOn, Approving, Approve
  <2>5. CASE \E t \in Slots \ {s} : Arrive(t) \/ Proceed(t)
    BY <2>1, <2>5, UpdateHasRead
  <2>6. CASE UNCHANGED vars
    BY <2>1, <2>6 DEF vars
  <2>7. QED
    BY <2>2, <2>3, <2>4, <2>5, <2>6 DEF Next
<1>4. Spec => []Fit
  BY InductiveInvariant, <1>1, <1>2, PTL DEF Spec
<1>5. QED
  BY <1>3, <1>4, PTL DEF Spec, ApprovalsHold, ApprovalGoesOn
=============================================================================
