--------------------------- MODULE OrgMembership ---------------------------
(***************************************************************************)
(* The HTTP handlers of OrgController, OrgInviteController and             *)
(* OrgMemberController over the tables of organisations.                   *)
(*                                                                         *)
(* A handler runs from one statement to the next.  A request in flight is  *)
(* the user who sent it and what its handler does next ("call"); each      *)
(* action runs one statement of one request, and leaves the next call or   *)
(* ends the request.  The first statement of a handler, most often that of *)
(* its guard, is the action of its name.  A request that is refused ends:  *)
(* only what it wrote before is seen.                                      *)
(*                                                                         *)
(* PATCH org/:id is declared before PATCH org/:requestId and answers both, *)
(* so that no request reaches approveOrRejectOwnershipRequest: a transfer  *)
(* stays as it was made and an org keeps its owner.                        *)
(***************************************************************************)
EXTENDS OrgTables

CONSTANTS
  Clients,      \* those who send requests
  Named,        \* those they name one at a time
  Lists,        \* the lists of people they send
  GivenRoles,   \* the roles they give to members
  Slots,        \* requests that may be in flight at the same time
  Activity      \* the operations the clients of this instance use

AllActivity == {"found", "close", "transfer", "ask", "answer", "withdraw",
                "add", "phones", "connector", "role", "remove", "die"}

ASSUME OrgActivityAssumption ==
  /\ Activity \subseteq AllActivity /\ GivenRoles \subseteq Roles
  /\ Clients \subseteq Persons /\ Named \subseteq Persons
  /\ Lists \subseteq SUBSET Persons

VARIABLE pending    \* the request in each slot

vars == <<users, orgs, members, invites, transfers, nextId, pending>>

(* What DELETE org-invite/:id asks of an invitation, beside the statuses.  *)
Remove == "Remove"

(* What the handler of a request does next.  A loop over people keeps      *)
(* those it has "left" and those it has found good so far.                 *)
Call ==
  [do : {"addEach", "findOrgOfPhones", "removeAll", "answerInvited"},
   org : OrgIds, people : SUBSET Persons]
  \union [do : {"transfer", "findConnector", "checkConnector",
                "registerConnector"}, org : OrgIds, person : Persons]
  \union [do : {"close", "findOrg"}, org : OrgIds]
  \union [do : {"invite"}, org : OrgIds, owner : Persons]
  \union [do : {"findInvites"}, orgs : SUBSET OrgIds, id : InviteIds,
          verdict : Statuses \union {Remove}]
  \union [do : {"readInvite"}, orgs : SUBSET OrgIds, id : InviteIds,
          status : Statuses]
  \union [do : {"setStatus"}, id : InviteIds, status : Statuses,
          org : OrgIds, person : Persons]
  \union [do : {"setStatusUnseen"}, id : InviteIds, status : Statuses]
  \union [do : {"readOrg", "uninvite"}, id : InviteIds]
  \union [do : {"checkMembers"}, org : OrgIds, left : SUBSET MemberEntry,
          valid : SUBSET MemberEntry]
  \union [do : {"addAll"}, org : OrgIds, entries : SUBSET MemberEntry]
  \union [do : {"findPeople", "findPending", "register"}, org : OrgIds,
          left : SUBSET Persons, told : SUBSET Persons,
          new : SUBSET Persons, ok : BOOLEAN]
  \union [do : {"inviteAll"}, org : OrgIds, told : SUBSET Persons,
          new : SUBSET Persons]
  \union [do : {"checkRole", "setRole"}, org : OrgIds, person : Persons,
          role : Roles]
  \union [do : {"checkLeavers"}, org : OrgIds, left : SUBSET Persons,
          valid : SUBSET Persons]

Request == [by : Persons, call : Call]

Idle == [by |-> {}, call |-> [do |-> "idle"]]
Lost == [by |-> {}, call |-> [do |-> "lost"]]

TypeOK ==
  /\ TablesTypeOK
  /\ pending \in [Slots -> Request \union {Idle, Lost}]

Init ==
  /\ TablesInit
  /\ pending = [s \in Slots |-> Idle]

InFlight(s) == pending[s] \notin {Idle, Lost}

(* A request of u arrives in slot s, and its handler goes on with c.       *)
Enter(s, u, c) ==
  /\ ~InFlight(s)
  /\ u \in users
  /\ pending' = [pending EXCEPT ![s] = [by |-> u, call |-> c]]

GoOn(s, c) == pending' = [pending EXCEPT ![s].call = c]
End(s)     == pending' = [pending EXCEPT ![s] = Idle]

(* A statement that only reads.                                            *)
Read == UNCHANGED tables

(* "orgs.length && !orgs.includes(orgId)" refuses.                         *)
Includes(owned, o) == owned = {} \/ o \in owned

(* The guard of the member handlers reads the user's orgs, and the handler *)
(* compares them with the org of the request at once.                      *)
OrgMemberGuard(s, u, o, c) ==
  /\ Includes(Owned(u), o)
  /\ Enter(s, u, c)
  /\ Read

-----------------------------------------------------------------------------
(* Organisations.                                                          *)

(* The org, then one insert for each member, all started together.  A body *)
(* without members fails after the insert, and leaves the org.             *)
createOrganization(s, u, people) ==
  /\ "found" \in Activity
  /\ createOrg(u)
  /\ Enter(s, u, [ do |-> "addEach", org |-> nextId["org"],
                   people |-> people \ {u} ])

(* Faulty variant: one insert after the other, until one fails.            *)
AddEachInTurn(s, c) ==
  /\ c.do = "addEach"
  /\ \/ /\ c.people = {}
        /\ Read
        /\ End(s)
     \/ \E p \in c.people :
          /\ addMember(c.org, {Entry(p, "Member")})
          /\ IF Insertable(c.org, {Entry(p, "Member")})
             THEN GoOn(s, [c EXCEPT !.people = @ \ {p}]) ELSE End(s)

(* An insert that fails leaves the others alone.                           *)
AddEach(s, c) ==
  /\ c.do = "addEach"
  /\ \/ /\ c.people = {}
        /\ Read
        /\ End(s)
     \/ \E p \in c.people :
          /\ addMember(c.org, {Entry(p, "Member")})
          /\ GoOn(s, [c EXCEPT !.people = @ \ {p}])

createOwnershipTransfer(s, u, o, p) ==
  /\ "transfer" \in Activity
  /\ o \in Owned(u)
  /\ Enter(s, u, [do |-> "transfer", org |-> o, person |-> p])
  /\ Read

Transfer(s, c) ==
  /\ c.do = "transfer"
  /\ requestOwnershipTransfer(c.org, pending[s].by, c.person)
  /\ End(s)

deleteOrganization(s, u, o) ==
  /\ "close" \in Activity
  /\ o \in Owned(u)
  /\ Enter(s, u, [do |-> "close", org |-> o])
  /\ Read

Close(s, c) ==
  /\ c.do = "close"
  /\ deleteOrg(c.org)
  /\ End(s)

-----------------------------------------------------------------------------
(* Invitations.                                                            *)

(* Despite its name the invitation is asked for by the invitee.            *)
createOrgInvite(s, u, o) ==
  /\ "ask" \in Activity
  /\ ~PendingInvitation(o, u)
  /\ Enter(s, u, [do |-> "findOrg", org |-> o])
  /\ Read

FindOrg(s, c) ==
  /\ c.do = "findOrg"
  /\ IF Live(c.org)
     THEN GoOn(s, [do |-> "invite", org |-> c.org, owner |-> orgs[c.org]])
     ELSE End(s)
  /\ Read

(* What follows the insert is the push to the owner's device, which may    *)
(* fail (and does if the owner has none): the invitation stays.            *)
Invite(s, c) ==
  /\ c.do = "invite"
  /\ createInvite(c.org, c.owner, pending[s].by)
  /\ End(s)

(* OrgInviteGuard reads the user's orgs, then his invitations.             *)
OrgInviteGuard(s, u, id, verdict) ==
  /\ Enter(s, u, [ do |-> "findInvites", orgs |-> Owned(u), id |-> id,
                   verdict |-> verdict ])
  /\ Read

updateOrgInvite(s, u, id, status) ==
  "answer" \in Activity /\ OrgInviteGuard(s, u, id, status)

deleteOrgInvite(s, u, id) ==
  "withdraw" \in Activity /\ OrgInviteGuard(s, u, id, Remove)

(* deleteOrgInvite then compares the id of the invitation with the user's  *)
(* orgs.                                                                   *)
FindInvites(s, c) ==
  /\ c.do = "findInvites"
  /\ IF c.orgs = {} /\ Invitations(pending[s].by) = {} THEN End(s)
     ELSE IF c.verdict # Remove
     THEN GoOn(s, [ do |-> "readInvite", orgs |-> c.orgs, id |-> c.id,
                    status |-> c.verdict ])
     ELSE IF Includes(c.orgs, c.id)
     THEN GoOn(s, [do |-> "readOrg", id |-> c.id])
     ELSE End(s)
  /\ Read

(* The org of the invitation is compared with the orgs of the user only if *)
(* he owns one: else the update is tried though no invitation was found.   *)
ReadInvite(s, c) ==
  /\ c.do = "readInvite"
  /\ IF c.id \notin DOMAIN invites
     THEN IF c.orgs = {}
          THEN GoOn(s, [ do |-> "setStatusUnseen", id |-> c.id,
                         status |-> c.status ])
          ELSE End(s)
     ELSE IF Includes(c.orgs, invites[c.id].orgId)
     THEN GoOn(s, [ do |-> "setStatus", id |-> c.id, status |-> c.status,
                    org |-> invites[c.id].orgId,
                    person |-> invites[c.id].inviteeId ])
     ELSE End(s)
  /\ Read

Approve(c) == [ do |-> "addAll", org |-> c.org,
                entries |-> {Entry(c.person, "Member")} ]

(* Faulty variant: the status is looked at as it was before the update.    *)
SetStatusStale(s, c) ==
  /\ c.do = "setStatus"
  /\ IF c.id \in DOMAIN invites
     THEN /\ updateInvite(c.id, c.status)
          /\ IF invites[c.id].status = "Approved" THEN GoOn(s, Approve(c))
                                                  ELSE End(s)
     ELSE Read /\ End(s)

(* Any status is written over any other.                                   *)
SetStatus(s, c) ==
  /\ c.do = "setStatus"
  /\ IF c.id \in DOMAIN invites
     THEN /\ updateInvite(c.id, c.status)
          /\ IF c.status = "Approved" THEN GoOn(s, Approve(c)) ELSE End(s)
     ELSE Read /\ End(s)

(* An invitation inserted since the look-up may be approved, but what was  *)
(* looked up has nobody to make a member.                                  *)
SetStatusUnseen(s, c) ==
  /\ c.do = "setStatusUnseen"
  /\ IF c.id \in DOMAIN invites THEN updateInvite(c.id, c.status) ELSE Read
  /\ End(s)

(* deleteInvite looks the id of the invitation up among the orgs.          *)
ReadOrg(s, c) ==
  /\ c.do = "readOrg"
  /\ IF c.id \in Owned(pending[s].by)
     THEN GoOn(s, [do |-> "uninvite", id |-> c.id])
     ELSE End(s)
  /\ Read

Uninvite(s, c) ==
  /\ c.do = "uninvite"
  /\ deleteInvite(c.id)
  /\ End(s)

-----------------------------------------------------------------------------
(* Members.                                                                *)

(* The user himself is passed over.  The same person may be listed twice   *)
(* with different roles.                                                   *)
createOrgMember(s, u, o, entries) ==
  /\ "add" \in Activity
  /\ entries # {} /\ \A e \in entries : e.memberId # u
  /\ OrgMemberGuard(s, u, o, [ do |-> "checkMembers", org |-> o,
                               left |-> entries, valid |-> {} ])

(* Those who are members already are left out, one look-up each.           *)
CheckMembers(s, c) ==
  /\ c.do = "checkMembers"
  /\ \E e \in c.left :
       LET valid == IF Member(c.org, e.memberId) THEN c.valid
                    ELSE c.valid \union {e}
       IN  IF c.left # {e}
           THEN GoOn(s, [c EXCEPT !.left = @ \ {e}, !.valid = valid])
           ELSE IF valid # {}
           THEN GoOn(s, [do |-> "addAll", org |-> c.org, entries |-> valid])
           ELSE End(s)
  /\ Read

(* One createMany: all of the rows or none.                                *)
AddAll(s, c) ==
  /\ c.do = "addAll"
  /\ addMember(c.org, c.entries)
  /\ End(s)

addMultipleMemberFromPhone(s, u, o, people) ==
  /\ "phones" \in Activity
  /\ people # {}
  /\ OrgMemberGuard(s, u, o, [ do |-> "findOrgOfPhones", org |-> o,
                               people |-> people ])

FindOrgOfPhones(s, c) ==
  /\ c.do = "findOrgOfPhones"
  /\ IF Live(c.org)
     THEN GoOn(s, [ do |-> "findPeople", org |-> c.org, left |-> c.people,
                    told |-> {}, new |-> {}, ok |-> TRUE ])
     ELSE End(s)
  /\ Read

(* The statements of a stage run together, and the next stage starts when *)
(* all have answered: who is registered already ("told"), and who is not   *)
(* ("new").                                                                *)
FindPeople(s, c) ==
  /\ c.do = "findPeople"
  /\ \/ /\ c.left = {}
        /\ GoOn(s, [ c EXCEPT !.do = "findPending", !.left = c.told,
                              !.told = {} ])
     \/ \E p \in c.left :
          GoOn(s, [ c EXCEPT !.left = @ \ {p},
                             !.told = @ \union ({p} \intersect users),
                             !.new = @ \union ({p} \ users) ])
  /\ Read

(* The registered ones with a pending invitation are left out.             *)
FindPending(s, c) ==
  /\ c.do = "findPending"
  /\ \/ c.left = {} /\ GoOn(s, [c EXCEPT !.do = "register", !.left = c.new])
     \/ \E p \in c.left :
          GoOn(s, [ c EXCEPT !.left = @ \ {p},
                             !.told = IF PendingInvitation(c.org, p) THEN @
                                      ELSE @ \union {p} ])
  /\ Read

(* The new ones are registered.  One who has registered since makes the    *)
(* request fail, but the other inserts go on.                              *)
Register(s, c) ==
  /\ c.do = "register"
  /\ \E p \in c.left :
       /\ createUser(p)
       /\ GoOn(s, [c EXCEPT !.left = @ \ {p}, !.ok = @ /\ p \notin users])

AfterRegister(s, c) ==
  /\ c.do = "register" /\ c.left = {}
  /\ IF ~c.ok \/ c.new \union c.told = {} THEN End(s)
     ELSE IF c.new = {}
     THEN GoOn(s, [do |-> "answerInvited", org |-> c.org, people |-> c.told])
     ELSE GoOn(s, [ do |-> "inviteAll", org |-> c.org, told |-> c.told,
                    new |-> c.new ])
  /\ Read

(* The pushes come before the insert, to those who have logged in since    *)
(* they were registered: one that fails ends the request.                  *)
InviteAll(s, c) ==
  /\ c.do = "inviteAll"
  /\ \/ Read /\ End(s)
     \/ /\ createMultipleInvite(c.org, pending[s].by, c.new)
        /\ IF Invitable(c.org, pending[s].by, c.new)
           THEN GoOn(s, [ do |-> "answerInvited", org |-> c.org,
                          people |-> c.told \union c.new ])
           ELSE End(s)

(* "... Members Invited TO Org successfully", with their ids.              *)
AnswerInvited(s, c) ==
  /\ c.do = "answerInvited"
  /\ Read
  /\ End(s)

addConnectorAsMember(s, u, o, p) ==
  /\ "connector" \in Activity
  /\ OrgMemberGuard(s, u, o, [ do |-> "findConnector", org |-> o,
                               person |-> p ])

FindConnector(s, c) ==
  /\ c.do = "findConnector"
  /\ GoOn(s, [c EXCEPT !.do = IF c.person \in users THEN "checkConnector"
                              ELSE "registerConnector"])
  /\ Read

Connect(c) == [ do |-> "addAll", org |-> c.org,
                entries |-> {Entry(c.person, "Connector")} ]

CheckConnector(s, c) ==
  /\ c.do = "checkConnector"
  /\ IF Member(c.org, c.person) THEN End(s) ELSE GoOn(s, Connect(c))
  /\ Read

RegisterConnector(s, c) ==
  /\ c.do = "registerConnector"
  /\ createUser(c.person)
  /\ IF c.person \in users THEN End(s) ELSE GoOn(s, Connect(c))

updateOrgMemberRole(s, u, o, p, role) ==
  /\ "role" \in Activity
  /\ OrgMemberGuard(s, u, o, [ do |-> "checkRole", org |-> o, person |-> p,
                               role |-> role ])

CheckRole(s, c) ==
  /\ c.do = "checkRole"
  /\ IF Member(c.org, c.person) THEN GoOn(s, [c EXCEPT !.do = "setRole"])
     ELSE End(s)
  /\ Read

SetRole(s, c) ==
  /\ c.do = "setRole"
  /\ updateMemberRole(c.org, c.person, c.role)
  /\ End(s)

deleteOrgMembers(s, u, o, people) ==
  /\ "remove" \in Activity
  /\ people # {} /\ u \notin people
  /\ OrgMemberGuard(s, u, o, [ do |-> "checkLeavers", org |-> o,
                               left |-> people, valid |-> {} ])

(* Those who are no members, or have the role Owner, are left out.         *)
Leaver(o, p) ==
  \E m \in members : m.orgId = o /\ m.memberId = p /\ m.role # "Owner"

CheckLeavers(s, c) ==
  /\ c.do = "checkLeavers"
  /\ \E p \in c.left :
       LET valid == IF Leaver(c.org, p) THEN c.valid \union {p} ELSE c.valid
       IN  IF c.left # {p}
           THEN GoOn(s, [c EXCEPT !.left = @ \ {p}, !.valid = valid])
           ELSE IF valid # {}
           THEN GoOn(s, [do |-> "removeAll", org |-> c.org, people |-> valid])
           ELSE End(s)
  /\ Read

RemoveAll(s, c) ==
  /\ c.do = "removeAll"
  /\ removeMembers(c.org, c.people)
  /\ End(s)

-----------------------------------------------------------------------------
(* The process ends, for a rejection nobody handles elsewhere or for a     *)
(* deployment, and is started again.                                       *)
ServerDies ==
  /\ "die" \in Activity
  /\ \E s \in Slots : InFlight(s)
  /\ pending' = [s \in Slots |-> IF InFlight(s) THEN Lost ELSE pending[s]]
  /\ UNCHANGED tables

Arrive(s) ==
  \E u \in Clients :
    \/ \E people \in Lists : createOrganization(s, u, people)
    \/ \E o \in OrgIds :
         \/ deleteOrganization(s, u, o)
         \/ createOrgInvite(s, u, o)
         \/ \E p \in Named :
              \/ createOwnershipTransfer(s, u, o, p)
              \/ addConnectorAsMember(s, u, o, p)
              \/ \E role \in GivenRoles : updateOrgMemberRole(s, u, o, p, role)
         \/ \E people \in Lists :
              \/ addMultipleMemberFromPhone(s, u, o, people)
              \/ deleteOrgMembers(s, u, o, people)
              \/ \E entries \in SUBSET [memberId : people, role : GivenRoles] :
                   createOrgMember(s, u, o, entries)
    \/ \E i \in InviteIds :
         \/ \E status \in Statuses : updateOrgInvite(s, u, i, status)
         \/ deleteOrgInvite(s, u, i)

Proceed(s) ==
  LET c == pending[s].call
  IN  \/ AddEach(s, c) \/ Transfer(s, c) \/ Close(s, c)
      \/ FindOrg(s, c) \/ Invite(s, c)
      \/ FindInvites(s, c) \/ ReadInvite(s, c) \/ SetStatus(s, c)
      \/ SetStatusUnseen(s, c)
      \/ ReadOrg(s, c) \/ Uninvite(s, c)
      \/ CheckMembers(s, c) \/ AddAll(s, c)
      \/ FindOrgOfPhones(s, c) \/ FindPeople(s, c) \/ FindPending(s, c)
      \/ Register(s, c) \/ AfterRegister(s, c) \/ InviteAll(s, c)
      \/ AnswerInvited(s, c)
      \/ FindConnector(s, c) \/ CheckConnector(s, c)
      \/ RegisterConnector(s, c)
      \/ CheckRole(s, c) \/ SetRole(s, c)
      \/ CheckLeavers(s, c) \/ RemoveAll(s, c)

Next == ServerDies \/ \E s \in Slots : Arrive(s) \/ Proceed(s)

Spec == Init /\ [][Next]_vars

(* A request in flight goes on: the event loop runs every continuation and *)
(* Postgres answers every statement.                                       *)
FairSpec == Spec /\ \A s \in Slots : WF_vars(Proceed(s))
-----------------------------------------------------------------------------
(***************************************************************************)
(* Properties.                                                             *)
(***************************************************************************)

(* What the rows refer to exists: an org is only deleted when nothing in   *)
(* these tables refers to it, and no request that looked an org or a       *)
(* person up before leaves a row about one that is gone by then.           *)
OrgReferences ==
  /\ \A o \in DOMAIN orgs : orgs[o] \in users
  /\ \A m \in members : Live(m.orgId) /\ m.memberId \in users
  /\ \A i \in DOMAIN invites :
       /\ Live(invites[i].orgId)
       /\ {invites[i].ownerId, invites[i].inviteeId} \subseteq users
  /\ \A t \in DOMAIN transfers :
       /\ Live(transfers[t].orgId)
       /\ {transfers[t].requestedBy, transfers[t].newOwnerId} \subseteq users

(* A person is a member of an org once, with one role, however many        *)
(* requests found him not to be a member before one of them entered him.   *)
OneMembership ==
  \A m, n \in members :
    m.orgId = n.orgId /\ m.memberId = n.memberId => m = n

(* The tables implement OrgLedger: an org keeps its owner and goes only    *)
(* when nothing refers to it, a request changes the membership of one org, *)
(* by people who were not in it and by all of a statement's rows or none,  *)
(* and an invitation stays about the same org and person, whatever ids the *)
(* requests still hold of rows that are gone.                              *)
Ledger == INSTANCE OrgLedger WITH
  OrgNames   <- OrgIds,
  ClaimNames <- ({"invite"} \X InviteIds) \union
                  ({"transfer"} \X TransferIds),
  Folk       <- Persons,
  owner      <- orgs,
  founded    <- {o \in OrgIds : o < nextId["org"]},
  roll       <- {<<m.orgId, m.memberId>> : m \in members},
  claims     <- [n \in ({"invite"} \X DOMAIN invites) \union
                          ({"transfer"} \X DOMAIN transfers) |->
                   IF n[1] = "invite"
                   THEN [ org   |-> invites[n[2]].orgId,
                          about |-> invites[n[2]].inviteeId ]
                   ELSE [ org   |-> transfers[n[2]].orgId,
                          about |-> transfers[n[2]].newOwnerId ]],
  claimed    <- {n \in ({"invite"} \X InviteIds) \union
                         ({"transfer"} \X TransferIds) : n[2] < nextId[n[1]]}

ImplementsLedger == Ledger!LedgerSpec

(* A statement started together with others is run though another of them *)
(* fails and its request is answered with an error: the people a new org   *)
(* is founded with become members, the registered ones, while the org is   *)
(* there, and the new numbers of a list are registered, unless the server  *)
(* dies before.                                                            *)
EntriesApplied ==
  \A s \in Slots, p \in Persons :
    /\ \A o \in OrgIds :
         (/\ pending[s].call.do = "addEach" /\ pending[s].call.org = o
          /\ p \in pending[s].call.people)
           ~> (Member(o, p) \/ ~Live(o) \/ p \notin users
               \/ pending[s] = Lost)
    /\ (/\ pending[s].call.do = "register"
        /\ p \in pending[s].call.left)
         ~> (p \in users \/ pending[s] = Lost)

(* The approval of invitation i, by which p joins o, is under way.         *)
Approving(s, i, o, p) ==
  /\ i \in DOMAIN invites
  /\ \/ pending[s].call = [ do |-> "setStatus", id |-> i,
                             status |-> "Approved", org |-> o, person |-> p ]
     \/ /\ pending[s].call = Approve([org |-> o, person |-> p])
        /\ invites[i].orgId = o /\ invites[i].inviteeId = p

(* No step turns an approval into nothing: it stays under way until its    *)
(* person is a member, its invitation is deleted or the server dies.  What *)
(* the request carries is what it read of the invitation, whose row keeps  *)
(* the org and the person in place.                                        *)
ApprovalsHold ==
  [][\A s \in Slots, i \in InviteIds, o \in OrgIds, p \in Persons :
       Approving(s, i, o, p) =>
         \/ Approving(s, i, o, p)'
         \/ Member(o, p)'
         \/ i \notin DOMAIN invites'
         \/ pending'[s] = Lost]_vars

(* Whoever's approval is under way becomes a member, whatever requests add *)
(* or remove him in between, unless his invitation is deleted, and perhaps *)
(* the org after it, before the two statements have run, or the server     *)
(* dies between them.                                                      *)
ApprovedJoins ==
  \A s \in Slots, i \in InviteIds, o \in OrgIds, p \in Persons :
    (pending[s].call = [ do |-> "setStatus", id |-> i, status |-> "Approved",
                         org |-> o, person |-> p ])
      ~> (Member(o, p) \/ i \notin DOMAIN invites \/ pending[s] = Lost)
=============================================================================
