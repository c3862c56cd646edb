----------------------------- MODULE OrgGroups -----------------------------
(***************************************************************************)
(* Groups with their members, administrators, polls and connectors: the    *)
(* HTTP handlers of OrgGroupController, OrgGroupMembersController,         *)
(* ConnectorController and PollController with their guards, over the rows *)
(* their services write, while the orgs the groups belong to change.       *)
(*                                                                         *)
(* A behaviour starts from a database that is in use: an org, one group    *)
(* with members, and requests of connectors.  No handler of this version   *)
(* inserts a member: Prisma refuses the "data" of the one and the rows of  *)
(* the other break the unique constraint.                                  *)
(***************************************************************************)
EXTENDS OrgTables, Requests

CONSTANTS
  Clients,     \* the users who send requests
  Founder,     \* who owns the orgs, and the personal group, at the start
  Names,       \* the names clients give to groups
  Options,     \* what a vote may be for
  Nobody,      \* a null column
  MaxGroups,   \* the largest id of the OrgGroup sequence
  MaxPolls     \* the largest id of the Poll sequence

ASSUME GroupBoundsAssumption ==
  /\ MaxGroups \in Nat \ {0, 1} /\ MaxPolls \in Nat
  /\ Clients \subseteq Persons /\ Founder \in Clients
  /\ Nobody \notin Persons \union OrgIds

(* The tables of groups, one field each: groups by id with what they say,  *)
(* pairs of a group and a person in "joined" (OrgGroupMember), "admins"    *)
(* (OrgGroupAdmin) and "notices" (the messages that somebody left), the    *)
(* groups "welcomed" with a first task, "requests" (OrgConnecterRequest),  *)
(* "connections" (OrgConnecter), the group of each poll, the votes, and    *)
(* the next ids.                                                           *)
VARIABLE db
vars == <<tables, db, pending, scope>>

GroupIds == 1..MaxGroups
PollIds  == 1..MaxPolls

OrgGroup == [ orgId : OrgIds \union {Nobody},
              createdBy : Persons \union {Nobody},
              name : Names \union {Nobody}, isPinned : BOOLEAN,
              isConnector : BOOLEAN ]

(* Faulty variant: the creator and the org are taken for one another.      *)
GroupRowSwapped(o, creator, n, isConnector) ==
  [ orgId |-> creator, createdBy |-> o, name |-> n, isPinned |-> FALSE,
    isConnector |-> isConnector ]

(* "Nobody" is also a name no client gives: that of the first group and,   *)
(* "... X ...", those of connector groups.                                 *)
GroupRow(o, creator, n, isConnector) ==
  [ orgId |-> o, createdBy |-> creator, name |-> n, isPinned |-> FALSE,
    isConnector |-> isConnector ]

OrgConnecterRequest ==
  [orgId : OrgIds, connecterId : Persons, status : Statuses]

PollVote == [pollId : PollIds, userId : Persons, option : Options]

TypeOK ==
  /\ TablesTypeOK
  /\ DOMAIN db.groups \subseteq GroupIds
  /\ \A g \in DOMAIN db.groups : db.groups[g] \in OrgGroup
  /\ db.joined \union db.admins \union db.notices \subseteq GroupIds \X Persons
  /\ db.welcomed \subseteq GroupIds
  /\ db.requests \subseteq OrgConnecterRequest
  /\ db.connections \subseteq OrgIds \X Persons
  /\ DOMAIN db.polls \subseteq PollIds
  /\ \A q \in DOMAIN db.polls : db.polls[q] \in GroupIds
  /\ db.votes \subseteq PollVote
  /\ db.groupId \in Nat /\ db.pollId \in Nat

NoRows == [i \in {} |-> 0]

(* Where members are removed somebody who sends no request is around.      *)
Around == IF "evict" \in scope THEN Persons ELSE Clients

Colleagues(people) ==
  {MemberRow(o, Entry(p, "Member")) : o \in OrgIds, p \in people}

(* One group, of org o or of nobody's, and those who asked to be           *)
(* connected.  The ids before the first a new group gets were used up by   *)
(* inserts the database refused.                                           *)
InUse(o, joined, admins, asking) ==
  [ groups |-> WithRow(NoRows, 1, GroupRow(o,
      IF o = Nobody THEN Founder ELSE Nobody, Nobody, FALSE)),
    joined |-> joined, admins |-> admins, notices |-> {},
    welcomed |-> {1}, connections |-> {},
    requests |->
      {[orgId |-> i, connecterId |-> p, status |-> "Pending"] :
         i \in OrgIds, p \in asking},
    polls |-> NoRows, votes |-> {}, pollId |-> 1,
    groupId |-> IF "create" \in scope THEN MaxGroups ELSE 2 ]

Init ==
  /\ NoRequests
  /\ users = Persons
  /\ orgs = [o \in OrgIds |-> Founder]
  /\ \E people \in IF "evict" \in scope THEN {{}, Around} ELSE SUBSET Around :
       members = Colleagues(people)
  /\ invites = NoRows
  /\ transfers = NoRows
  /\ nextId = [q \in Sequences |-> IF q = "org" THEN MaxOrgs + 1 ELSE 1]
  /\ \E o \in OrgIds \union {Nobody}, joined \in SUBSET ({1} \X Around) :
     \E admins \in SUBSET IF "evict" \in scope THEN {} ELSE joined,
        asking \in IF "connect" \in scope
                  THEN {Clients \ {Founder}, Persons \ {Founder}} ELSE {{}} :
       db = InUse(o, joined, admins, asking)

Exists(g) == g \in DOMAIN db.groups

(* A step of a handler that only reads, and goes on with c when ok holds.  *)
Check(s, ok, c) == UNCHANGED <<tables, db>> /\ GoOnIf(s, ok, c)

(* The last statement of a handler leaves the tables d, which are those    *)
(* there were when the database refuses it.                                *)
Finish(s, d) == UNCHANGED tables /\ db' = d /\ End(s)

Arrives(s, op, u, c) ==
  op \in scope /\ Enter(s, u, c) /\ UNCHANGED <<tables, db>>

-----------------------------------------------------------------------------
(***************************************************************************)
(* Groups.                                                                 *)
(***************************************************************************)
(* OrgGroupGuard only reads the orgs of the user; createOrgMember creates  *)
(* a group, of one of these orgs or a personal one.                        *)
createOrgMember(s, u, o, n) ==
  /\ o = Nobody \/ o \in Owned(u)
  /\ Arrives(s, "create", u, [do |-> "findSame", org |-> o, name |-> n])

isAlreadyGroupExists(o, n) ==
  \E g \in DOMAIN db.groups :
    db.groups[g].name = n /\ (o = Nobody \/ db.groups[g].orgId = o)

FindSame(s, c) ==
  /\ c.do = "findSame"
  /\ Check(s, ~isAlreadyGroupExists(c.org, c.name),
           [c EXCEPT !.do = "addGroup"])

WithGroup(d, row) == [d EXCEPT !.groups = WithRow(@, d.groupId, row),
                               !.groupId = @ + 1]

addOrgGroup(s, c) ==
  /\ c.do = "addGroup"
  /\ IF db.groupId <= MaxGroups /\ (c.org = Nobody \/ Live(c.org))
     THEN /\ db' = WithGroup(db, GroupRow(c.org,
               IF c.org = Nobody THEN pending[s].by ELSE Nobody,
               c.name, FALSE))
          /\ UNCHANGED tables
          /\ GoOn(s, [do |-> "firstTask", group |-> db.groupId])
     ELSE Finish(s, db)

createFirstTask(s, c) ==
  /\ c.do = "firstTask"
  /\ Finish(s, IF Exists(c.group)
               THEN [db EXCEPT !.welcomed = @ \union {c.group}] ELSE db)

(* The guard of a request about one group keeps the user's orgs; "then" is *)
(* what its handler goes on with.                                          *)
OrgGroupGuard(s, op, u, g, then) ==
  Arrives(s, op, u, [ do |-> "findGroup", orgs |-> Owned(u), group |-> g,
                      then |-> then ])

updateOrgGroup(s, u, g, n) ==
  OrgGroupGuard(s, "rename", u, g,
    [do |-> "findName", group |-> g, name |-> n, org |-> Nobody])

pinUnpinOrgGroup(s, u, g, pin) ==
  OrgGroupGuard(s, "pin", u, g, [do |-> "pin", group |-> g, pin |-> pin])

deleteOrgGroup(s, u, g) ==
  OrgGroupGuard(s, "drop", u, g, [do |-> "deleteGroup", group |-> g])

(* "orgs.length && orgGroup && !orgs.includes(orgGroup.orgId)" refuses.    *)
MayKeep(c) ==
  c.orgs = {} \/ ~Exists(c.group) \/ db.groups[c.group].orgId \in c.orgs

FindGroup(s, c) ==
  /\ c.do = "findGroup" /\ c.then.do # "findName"
  /\ Check(s, MayKeep(c), c.then)

(* updateOrgGroup reads the orgId of a group that is not there and fails.  *)
FindGroupToRename(s, c) ==
  /\ c.do = "findGroup" /\ c.then.do = "findName"
  /\ Check(s, MayKeep(c) /\ Exists(c.group),
           [c.then EXCEPT !.org = db.groups[c.group].orgId])

FindName(s, c) ==
  /\ c.do = "findName"
  /\ Check(s, \A g \in DOMAIN db.groups :
                db.groups[g].name # c.name \/ db.groups[g].orgId # c.org,
           [c EXCEPT !.do = "rename"])

updateGroup(s, c) ==
  /\ c.do = "rename"
  /\ Finish(s, IF Exists(c.group)
               THEN [db EXCEPT !.groups[c.group].name = c.name] ELSE db)

pinUnpinGroup(s, c) ==
  /\ c.do = "pin"
  /\ Finish(s, IF Exists(c.group)
               THEN [db EXCEPT !.groups[c.group].isPinned = c.pin] ELSE db)

(* Faulty variant: the rows that refer to a group do not hold it.          *)
HeldByNothing(g) == FALSE

(* Members, administrators, polls and mutes are ON DELETE RESTRICT, tasks, *)
(* messages and pins go with the group.                                    *)
Held(g) == \/ \E r \in db.joined \union db.admins : r[1] = g
           \/ \E q \in DOMAIN db.polls : db.polls[q] = g

(* The mutes, which other handlers write, may hold the group as well.      *)
deleteGroup(s, c) ==
  /\ c.do = "deleteGroup"
  /\ \/ /\ Exists(c.group) /\ ~Held(c.group)
        /\ Finish(s, [db EXCEPT !.groups = WithoutRow(@, c.group),
                                !.welcomed = @ \ {c.group},
                                !.notices = {n \in @ : n[1] # c.group}])
     \/ Finish(s, db)

-----------------------------------------------------------------------------
(***************************************************************************)
(* Members and administrators of a group.                                  *)
(***************************************************************************)
(* Both guards keep the orgs of the user and look at the group the body    *)
(* names; "person" is the member the body names, whom only the guard of    *)
(* administrators looks up.                                                *)
GroupMembersGuard(s, op, u, g, p, then) ==
  Arrives(s, op, u, [ do |-> "guardGroup", orgs |-> Owned(u), group |-> g,
                      person |-> p, then |-> then ])

addOrgMemberToGroup(s, u, g, people) ==
  GroupMembersGuard(s, "add", u, g, Nobody,
    [do |-> "findNewcomers", group |-> g, people |-> people])

makeOrgMemberAdmin(s, u, g, p) ==
  GroupMembersGuard(s, "admin", u, g, p,
    [do |-> "findAdmin", group |-> g, person |-> p, then |-> "addAdmin"])

(* The routes of these two name the group once more, and the second the    *)
(* person: the handlers use these.                                         *)
leaveOrgGroup(s, u, b, p, g) ==
  GroupMembersGuard(s, "leave", u, b, p,
    [do |-> "findMembership", group |-> g, person |-> u, role |-> "member"])

removeGroupAdmin(s, u, b, p, g, q) ==
  GroupMembersGuard(s, "admin", u, b, p,
    [do |-> "findAdmin", group |-> g, person |-> q, then |-> "findUser"])

GuardGroup(s, c) ==
  /\ c.do = "guardGroup"
  /\ LET row == db.groups[c.group]
     IN  IF ~Exists(c.group) THEN Finish(s, db)
         ELSE IF row.orgId = Nobody
         THEN Check(s, row.createdBy = pending[s].by, c.then)
         ELSE IF c.person = Nobody
         THEN Check(s, row.orgId \in c.orgs, c.then)
         ELSE Check(s, TRUE, [ do |-> "findOrgMember", org |-> row.orgId,
                               orgs |-> c.orgs, person |-> c.person,
                               then |-> c.then ])

FindOrgMember(s, c) ==
  /\ c.do = "findOrgMember"
  /\ Check(s, Member(c.org, c.person) /\ c.org \in c.orgs, c.then)

(* Members and the user himself are left out; the loop over the others is  *)
(* one step here, since nothing can be written after it.                   *)
FindNewcomers(s, c) ==
  /\ c.do = "findNewcomers"
  /\ Check(s, \E p \in c.people \ {pending[s].by} :
                <<c.group, p>> \notin db.joined, [do |-> "addMultiple"])

(* "data: { ...rows }" is an object with the keys 0, 1, ..., which Prisma  *)
(* refuses before any row is inserted.                                     *)
addMultipleOrgGroupMembers(s, c) == c.do = "addMultiple" /\ Finish(s, db)

(* An administrator to be made must not be one, one to be removed must.    *)
FindAdmin(s, c) ==
  /\ c.do = "findAdmin"
  /\ Check(s, (<<c.group, c.person>> \in db.admins) = (c.then = "findUser"),
           [ do |-> c.then, group |-> c.group, person |-> c.person,
             role |-> "admin" ])

addOrgMemberAdmin(s, c) ==
  /\ c.do = "addAdmin"
  /\ Finish(s, IF Exists(c.group)
               THEN [db EXCEPT !.admins = @ \union {<<c.group, c.person>>}]
               ELSE db)

FindMembership(s, c) ==
  /\ c.do = "findMembership"
  /\ Check(s, <<c.group, c.person>> \in db.joined,
           [c EXCEPT !.do = "findUser"])

FindUser(s, c) ==
  /\ c.do = "findUser"
  /\ Check(s, c.person \in users, [c EXCEPT !.do = "notice"])

(* The message that somebody left comes first, the deletion after it.      *)
memberLeavedGroupMessage(s, c) ==
  /\ c.do = "notice"
  /\ IF Exists(c.group)
     THEN /\ db' = [db EXCEPT !.notices = @ \union {<<c.group, c.person>>}]
          /\ UNCHANGED tables
          /\ GoOn(s, [c EXCEPT !.do = "deleteMember"])
     ELSE Finish(s, db)

(* Faulty variant: the one who asks is taken out, as of a group he leaves. *)
deleteAsker(s, c) ==
  /\ c.do = "deleteMember"
  /\ Finish(s, [db EXCEPT !.joined = @ \ {<<c.group, pending[s].by>>}])

deleteMember(s, c) ==
  /\ c.do = "deleteMember"
  /\ Finish(s, [db EXCEPT !.joined = @ \ {<<c.group, c.person>>}])

removeMemberFromGroup(s, u, g, people) ==
  /\ people \ {u} # {}
  /\ Arrives(s, "evict", u, [ do |-> "checkEach", orgs |-> Owned(u),
       group |-> g, left |-> people \ {u}, valid |-> {} ])

CheckEach(s, c) ==
  /\ c.do = "checkEach"
  /\ \E p \in c.left :
       LET valid == c.valid \union {x \in {p} : <<c.group, x>> \in db.joined}
       IN  IF c.left # {p}
           THEN Check(s, TRUE, [c EXCEPT !.left = @ \ {p}, !.valid = valid])
           ELSE Check(s, valid # {}, [ do |-> "findGroupOf", orgs |-> c.orgs,
                                       group |-> c.group, people |-> valid ])

FindGroupOf(s, c) ==
  /\ c.do = "findGroupOf"
  /\ Check(s, Exists(c.group),
           [ do |-> "checkOwner", orgs |-> c.orgs, group |-> c.group,
             org |-> db.groups[c.group].orgId, people |-> c.people ])

(* The org is taken from the first of its members: one without members, or *)
(* a personal group that is gone at the second look, makes it fail.        *)
CheckOwner(s, c) ==
  /\ c.do = "checkOwner"
  /\ Check(s, IF c.org = Nobody
              THEN /\ Exists(c.group)
                   /\ db.groups[c.group].createdBy = pending[s].by
              ELSE c.org \in c.orgs /\ \E m \in members : m.orgId = c.org,
           [do |-> "evict", group |-> c.group, people |-> c.people])

(* Faulty variant: those who are still members go, whoever else has left.  *)
removeThoseLeft(s, c) ==
  /\ c.do = "evict"
  /\ Finish(s, [db EXCEPT !.joined = @ \ ({c.group} \X c.people)])

(* One transaction of deletes: one row that is gone undoes the others.     *)
removeMultipleGroupMembers(s, c) ==
  /\ c.do = "evict"
  /\ LET rows == {c.group} \X c.people
     IN  Finish(s, IF rows \subseteq db.joined
                   THEN [db EXCEPT !.joined = @ \ rows] ELSE db)

-----------------------------------------------------------------------------
(***************************************************************************)
(* Connectors.                                                             *)
(***************************************************************************)
(* "create" tests the promise of its look-up, not the row, and refuses     *)
(* every request.                                                          *)
requestConnecter(u, o) ==
  "connect" \in scope /\ UNCHANGED <<tables, db>> /\ Aside

(* findOne, with the org and its owner of that time.                       *)
updateRequest(s, u, r, status) ==
  /\ r.status = "Pending" /\ orgs[r.orgId] = u
  /\ Arrives(s, "connect", u,
       [do |-> "decide", request |-> r, status |-> status])

(* Faulty variant: a second approval connects again.                       *)
ConnectableAgain(o, p) == Live(o) /\ db.groupId <= MaxGroups

(* The foreign keys and @@unique([orgId, connecterId]).                    *)
Connectable(o, p) ==
  Live(o) /\ <<o, p>> \notin db.connections /\ db.groupId <= MaxGroups

(* One transaction for the connection and its group; the connecter it is   *)
(* told of is the user who approves.  The request keeps its status.        *)
ApproveRequest(s, c) ==
  /\ c.do = "decide" /\ c.status = "Approved"
  /\ LET o == c.request.orgId
         u == pending[s].by
     IN  IF Connectable(o, u)
         THEN /\ db' = [WithGroup(db, GroupRow(o, Nobody, Nobody, TRUE)) EXCEPT
                          !.connections = @ \union {<<o, u>>}]
              /\ UNCHANGED tables
              /\ GoOn(s, [do |-> "enterBoth"])
         ELSE Finish(s, db)

(* The rows of the owner and of the connecter are the same row, so that    *)
(* the unique constraint refuses both.                                     *)
EnterBoth(s, c) == c.do = "enterBoth" /\ Finish(s, db)

RejectRequest(s, c) ==
  /\ c.do = "decide" /\ c.status = "Rejected"
  /\ Finish(s, IF c.request \notin db.requests THEN db ELSE
       [db EXCEPT !.requests = (@ \ {c.request}) \union
                                 {[c.request EXCEPT !.status = "Rejected"]}])

removeRequest(s, u, r) ==
  /\ r.connecterId = u
  /\ Arrives(s, "connect", u, [do |-> "remove", org |-> r.orgId])

RemoveRequest(s, c) ==
  /\ c.do = "remove"
  /\ Finish(s, [db EXCEPT !.requests =
       {r \in @ : r.orgId # c.org \/ r.connecterId # pending[s].by}])

-----------------------------------------------------------------------------
(***************************************************************************)
(* Polls.  All handlers but "vote" are one statement, or a check of what   *)
(* never changes before it.                                                *)
(***************************************************************************)
WritePolls(op, d) ==
  op \in scope /\ db' = d /\ UNCHANGED tables /\ Aside

createPoll(g) ==
  /\ db.pollId <= MaxPolls /\ Exists(g)
  /\ WritePolls("poll", [db EXCEPT !.polls = WithRow(@, db.pollId, g),
                                   !.pollId = @ + 1])

(* A poll somebody voted in is held by the votes.                          *)
deletePoll(q) ==
  /\ \A v \in db.votes : v.pollId # q
  /\ WritePolls("poll", [db EXCEPT !.polls = WithoutRow(@, q)])

isAlreadyVoted(q, u) == \E v \in db.votes : v.pollId = q /\ v.userId = u

vote(s, u, q, option) ==
  /\ ~isAlreadyVoted(q, u)
  /\ Arrives(s, "vote", u, [do |-> "vote", poll |-> q, option |-> option])

(* Faulty variant: isAlreadyVoted is all that keeps a user from voting     *)
(* twice.                                                                  *)
VotableTwice(q, u) == q \in DOMAIN db.polls

(* The foreign key and @@unique([pollId, userId]).                         *)
Votable(q, u) == q \in DOMAIN db.polls /\ ~isAlreadyVoted(q, u)

createVote(s, c) ==
  /\ c.do = "vote"
  /\ Finish(s, IF Votable(c.poll, pending[s].by)
               THEN [db EXCEPT !.votes = @ \union
                      {[ pollId |-> c.poll, userId |-> pending[s].by,
                         option |-> c.option ]}]
               ELSE db)

retractVote(v) == WritePolls("vote", [db EXCEPT !.votes = @ \ {v}])

-----------------------------------------------------------------------------
(* What the handlers of OrgMembership do meanwhile.  OrgGroup.org is ON    *)
(* DELETE SET NULL, connections and requests restrict.                     *)
OrgDeleted(o) ==
  /\ "org" \in scope
  /\ deleteOrg(o) /\ ~Live(o)'
  /\ \A r \in db.connections : r[1] # o
  /\ \A r \in db.requests : r.orgId # o
  /\ db' = [db EXCEPT !.groups =
       [g \in DOMAIN @ |-> IF @[g].orgId = o
                           THEN [@[g] EXCEPT !.orgId = Nobody] ELSE @[g]]]
  /\ Aside

OrgMembersChange(o, p) ==
  /\ "org" \in scope
  /\ addMember(o, {Entry(p, "Member")}) \/ removeMembers(o, {p})
  /\ UNCHANGED db
  /\ Aside

(* What the database has done of a request stays done.                     *)
Restart == StopAll /\ UNCHANGED <<tables, db>>

(* The ids clients may have been told of.                                  *)
KnownGroups == 1 .. (db.groupId - 1)

Arrive(s, u) ==
  \/ \E n \in Names, o \in OrgIds \union {Nobody} :
       createOrgMember(s, u, o, n)
  \/ \E g \in KnownGroups :
       \/ \E n \in Names : updateOrgGroup(s, u, g, n)
       \/ \E pin \in BOOLEAN : pinUnpinOrgGroup(s, u, g, pin)
       \/ deleteOrgGroup(s, u, g)
       \/ \E people \in SUBSET Around \ {{}} :
            \/ addOrgMemberToGroup(s, u, g, people)
            \/ removeMemberFromGroup(s, u, g, people)
       \/ \E p \in Around :
            \/ makeOrgMemberAdmin(s, u, g, p)
            \/ \E h \in KnownGroups :
                 \/ leaveOrgGroup(s, u, g, p, h)
                 \/ \E q \in Around : removeGroupAdmin(s, u, g, p, h, q)
  \/ \E r \in db.requests :
       \/ \E status \in {"Approved", "Rejected"} :
            updateRequest(s, u, r, status)
       \/ removeRequest(s, u, r)
  \/ \E q \in PollIds, option \in Options : vote(s, u, q, option)

Proceed(s) ==
  LET c == pending[s].call
  IN  \/ FindSame(s, c) \/ addOrgGroup(s, c) \/ createFirstTask(s, c)
      \/ FindGroup(s, c) \/ FindGroupToRename(s, c) \/ FindName(s, c)
      \/ updateGroup(s, c) \/ pinUnpinGroup(s, c) \/ deleteGroup(s, c)
      \/ GuardGroup(s, c) \/ FindOrgMember(s, c)
      \/ FindNewcomers(s, c) \/ addMultipleOrgGroupMembers(s, c)
      \/ FindAdmin(s, c) \/ addOrgMemberAdmin(s, c)
      \/ FindMembership(s, c) \/ FindUser(s, c)
      \/ memberLeavedGroupMessage(s, c) \/ deleteMember(s, c)
      \/ CheckEach(s, c) \/ FindGroupOf(s, c) \/ CheckOwner(s, c)
      \/ removeMultipleGroupMembers(s, c)
      \/ ApproveRequest(s, c) \/ EnterBoth(s, c) \/ RejectRequest(s, c)
      \/ RemoveRequest(s, c) \/ createVote(s, c)

Next ==
  \/ \E s \in Slots : Proceed(s) \/ \E u \in Clients : Arrive(s, u)
  \/ \E u \in Clients, o \in OrgIds : requestConnecter(u, o)
  \/ \E g \in KnownGroups : createPoll(g)
  \/ \E q \in DOMAIN db.polls : deletePoll(q)
  \/ \E v \in db.votes : retractVote(v)
  \/ \E o \in OrgIds : OrgDeleted(o)
  \/ \E o \in OrgIds, p \in Around : OrgMembersChange(o, p)
  \/ Restart

Spec == Init /\ [][Next]_vars

-----------------------------------------------------------------------------
(***************************************************************************)
(* Properties.                                                             *)
(***************************************************************************)

(* A group goes only when nobody is in it and no poll is asked in it; what *)
(* a request inserts for a group it looked up is not left behind when the  *)
(* group is gone by then, nor is the group of an org that is gone left     *)
(* pointing at it.                                                         *)
GroupReferences ==
  /\ \A r \in db.joined \union db.admins \union db.notices : Exists(r[1])
  /\ db.welcomed \subseteq DOMAIN db.groups
  /\ \A g \in DOMAIN db.groups :
       db.groups[g].orgId = Nobody \/ Live(db.groups[g].orgId)
  /\ \A q \in DOMAIN db.polls : Exists(db.polls[q])
  /\ \A v \in db.votes : v.pollId \in DOMAIN db.polls
  /\ \A r \in db.connections : Live(r[1])

(* A user has one vote in a poll, however many of his requests found that  *)
(* he had not voted.                                                       *)
OneVote ==
  \A v, w \in db.votes : v.pollId = w.pollId /\ v.userId = w.userId => v = w

(* The tables keep the GroupRoster: what a request looked up may be gone   *)
(* or taken when it writes, and every statement asks again for what it     *)
(* needs.                                                                  *)
Roster == INSTANCE GroupRoster WITH
  Groups  <- GroupIds,
  Polls   <- PollIds,
  Orgs    <- OrgIds,
  People  <- Persons,
  NoOrg   <- Nobody,
  live    <- DOMAIN orgs,
  open    <- [g \in DOMAIN db.groups |->
                [ org      |-> db.groups[g].orgId,
                  connects |-> db.groups[g].isConnector ]],
  used    <- 1 .. (db.groupId - 1),
  inside  <- db.joined,
  heads   <- db.admins,
  linked  <- db.connections,
  polls   <- db.polls,
  asked   <- 1 .. (db.pollId - 1),
  votes   <- {<<v.pollId, v.userId, v.option>> : v \in db.votes}

ImplementsRoster == Roster!RosterSpec

(* Two approvals of one request, or of two requests of one org, that both  *)
(* found it pending make one connector group.                              *)
OneConnectorGroup ==
  \A o \in OrgIds :
    Cardinality({g \in DOMAIN db.groups :
                   db.groups[g].orgId = o /\ db.groups[g].isConnector})
      <= Cardinality({r \in db.connections : r[1] = o})

(* Who is said to have left a group and is still in it, though no request  *)
(* is about to take him out.                                               *)
Leaves(s, n) ==
  LET c == pending[s].call
  IN  c.do = "deleteMember" /\ <<c.group, c.person>> = n

Unfinished ==
  {n \in db.notices \intersect db.joined : \A s \in Slots : ~Leaves(s, n)}

(* The notice that somebody left comes before he is taken out, so that a   *)
(* stop of the server in between leaves him in.  Nothing else does: not    *)
(* another request that takes him or others out, and not the removal of    *)
(* somebody as an administrator.                                           *)
LeaversAreOut ==
  [][ \A n \in Unfinished' \ Unfinished :
        \E s \in Slots : Leaves(s, n) /\ pending'[s] = Stopped ]_vars

(* Those a request found to be members are taken out together or stay      *)
(* together, also when one of them left meanwhile.                         *)
EvictedTogether ==
  [][ \A s \in Slots :
        LET c == pending[s].call
        IN  Doing(s, "evict") /\ pending'[s] = Idle =>
              \/ db'.joined = db.joined
              \/ {c.group} \X c.people \subseteq db.joined \ db'.joined ]_vars
=============================================================================
