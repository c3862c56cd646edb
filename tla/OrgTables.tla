----------------------------- MODULE OrgTables -----------------------------
(***************************************************************************)
(* The tables of organisations: Org, OrgMember, OrgInvite and              *)
(* OwnershipTransfer, with the users that exist, as                        *)
(* src/prisma/schema.prisma declares them and as the statements of         *)
(* OrgService, OrgMemberService and OrgInviteService write them.           *)
(*                                                                         *)
(* A person stands for a phone number and for the user registered under    *)
(* it.  Names, positions, logos and timestamps are left out.               *)
(***************************************************************************)
EXTENDS Naturals, FiniteSets

CONSTANTS
  Persons,        \* the people the requests may name
  Registered,     \* those who have a row in User at the start
  MaxOrgs,        \* the largest id of the Org sequence
  MaxInvites,     \* the largest id of the OrgInvite sequence
  MaxTransfers    \* the largest id of the OwnershipTransfer sequence

ASSUME OrgBoundsAssumption ==
  /\ MaxOrgs \in Nat /\ MaxInvites \in Nat /\ MaxTransfers \in Nat
  /\ Registered \subseteq Persons
  /\ IsFiniteSet(Persons)

OrgIds      == 1..MaxOrgs
InviteIds   == 1..MaxInvites
TransferIds == 1..MaxTransfers
Sequences   == {"org", "invite", "transfer"}

Roles    == {"Member", "Admin", "Owner", "Connector"}
Statuses == {"Pending", "Approved", "Rejected"}

VARIABLES
  users,      \* the persons who have a row in User
  orgs,       \* the owner of each Org row, by id
  members,    \* the rows of OrgMember
  invites,    \* the rows of OrgInvite, by id
  transfers,  \* the rows of OwnershipTransfer, by id
  nextId      \* the next value of each id sequence

tables == <<users, orgs, members, invites, transfers, nextId>>

OrgMember == [orgId : OrgIds, memberId : Persons, role : Roles]

(* What a request says of a member it adds.                                *)
MemberEntry    == [memberId : Persons, role : Roles]
Entry(p, role) == [memberId |-> p, role |-> role]

OrgInvite == [ orgId : OrgIds, ownerId : Persons, inviteeId : Persons,
               status : Statuses ]

(* Nothing changes the status of a transfer, see OrgMembership.            *)
OwnershipTransfer ==
  [orgId : OrgIds, requestedBy : Persons, newOwnerId : Persons]

SequenceMax(q) == IF q = "org" THEN MaxOrgs
                  ELSE IF q = "invite" THEN MaxInvites
                  ELSE MaxTransfers

TablesTypeOK ==
  /\ users \subseteq Persons
  /\ DOMAIN orgs \subseteq OrgIds
  /\ \A o \in DOMAIN orgs : orgs[o] \in Persons
  /\ members \subseteq OrgMember
  /\ DOMAIN invites \subseteq InviteIds
  /\ \A i \in DOMAIN invites : invites[i] \in OrgInvite
  /\ DOMAIN transfers \subseteq TransferIds
  /\ \A t \in DOMAIN transfers : transfers[t] \in OwnershipTransfer
  /\ nextId \in [Sequences -> Nat]
  /\ \A q \in Sequences : nextId[q] >= 1

TablesInit ==
  /\ users = Registered
  /\ orgs = [o \in {} |-> 0]
  /\ members = {}
  /\ invites = [i \in {} |-> 0]
  /\ transfers = [t \in {} |-> 0]
  /\ nextId = [q \in Sequences |-> 1]

Live(o)        == o \in DOMAIN orgs
Member(o, p)   == \E m \in members : m.orgId = o /\ m.memberId = p
Owned(p)       == {o \in DOMAIN orgs : orgs[o] = p}
Invitations(p) == {i \in DOMAIN invites : invites[i].inviteeId = p}

PendingInvitation(o, p) ==
  \E i \in Invitations(p) :
    invites[i].orgId = o /\ invites[i].status = "Pending"

-----------------------------------------------------------------------------
(***************************************************************************)
(* The statements.  An insert draws its id before its constraints are      *)
(* checked; one past the end of its sequence fails, which is how the       *)
(* bounds enter the model.  A statement that fails writes no row.          *)
(***************************************************************************)
Fresh(q, n) == nextId[q] + n - 1 <= SequenceMax(q)

Draw(q, n) == nextId' = IF Fresh(q, n) THEN [nextId EXCEPT ![q] = @ + n]
                        ELSE nextId

WithRow(table, id, row) ==
  [i \in DOMAIN table \union {id} |-> IF i = id THEN row ELSE table[i]]

WithoutRow(table, id) == [i \in DOMAIN table \ {id} |-> table[i]]

createOrg(p) ==
  /\ Fresh("org", 1)
  /\ Draw("org", 1)
  /\ orgs' = WithRow(orgs, nextId["org"], p)
  /\ UNCHANGED <<users, members, invites, transfers>>

(* Faulty variant: the rows that refer to an org do not hold it.           *)
ReferredUnchecked(o) == FALSE

(* Each of these references is ON DELETE RESTRICT.                         *)
Referred(o) ==
  \/ \E m \in members : m.orgId = o
  \/ \E i \in DOMAIN invites : invites[i].orgId = o
  \/ \E t \in DOMAIN transfers : transfers[t].orgId = o

(* Faulty variant: the members and invitations go with the org.            *)
deleteOrgCascades(o) ==
  /\ Live(o)
  /\ orgs' = WithoutRow(orgs, o)
  /\ members' = {m \in members : m.orgId # o}
  /\ invites' = [i \in {j \in DOMAIN invites : invites[j].orgId # o} |->
                    invites[i]]
  /\ UNCHANGED <<users, transfers, nextId>>

(* Catalog entries and connector requests, kept by other modules, hold the *)
(* org as well: the delete may also fail for them.                         *)
deleteOrg(o) ==
  /\ \/ Live(o) /\ ~Referred(o) /\ orgs' = WithoutRow(orgs, o)
     \/ UNCHANGED orgs
  /\ UNCHANGED <<users, members, invites, transfers, nextId>>

requestOwnershipTransfer(o, by, to) ==
  /\ Draw("transfer", 1)
  /\ transfers' = IF /\ Fresh("transfer", 1) /\ Live(o)
                     /\ {by, to} \subseteq users
                  THEN WithRow(transfers, nextId["transfer"],
                               [ orgId |-> o, requestedBy |-> by,
                                 newOwnerId |-> to ])
                  ELSE transfers
  /\ UNCHANGED <<users, orgs, members, invites>>

(* Faulty variant: the handler's look-up is all that keeps a person from   *)
(* being entered twice.                                                    *)
InsertableTwice(o, entries) ==
  Live(o) /\ \A e \in entries : e.memberId \in users

(* The constraints of OrgMember on the rows of one createMany: the foreign *)
(* keys and @@unique([orgId, memberId]).                                   *)
Insertable(o, entries) ==
  /\ Live(o)
  /\ \A e \in entries : e.memberId \in users /\ ~Member(o, e.memberId)
  /\ \A e, f \in entries : e.memberId = f.memberId => e = f

(* Faulty variant: two columns are mixed up.                               *)
MemberRowSwapped(o, e) ==
  [orgId |-> e.memberId, memberId |-> o, role |-> e.role]

MemberRow(o, e) ==
  [orgId |-> o, memberId |-> e.memberId, role |-> e.role]

addMember(o, entries) ==
  /\ members' = IF Insertable(o, entries)
                THEN members \union {MemberRow(o, e) : e \in entries}
                ELSE members
  /\ UNCHANGED <<users, orgs, invites, transfers, nextId>>

updateMemberRole(o, p, role) ==
  /\ members' = IF Member(o, p)
                THEN {m \in members : m.orgId # o \/ m.memberId # p}
                       \union {MemberRow(o, Entry(p, role))}
                ELSE members
  /\ UNCHANGED <<users, orgs, invites, transfers, nextId>>

removeMembers(o, people) ==
  /\ members' = {m \in members : m.orgId # o \/ m.memberId \notin people}
  /\ UNCHANGED <<users, orgs, invites, transfers, nextId>>

(* The foreign keys of invitations of the people to an org of the owner.   *)
Invitable(o, owner, people) ==
  /\ Fresh("invite", Cardinality(people))
  /\ Live(o)
  /\ {owner} \union people \subseteq users

createInvite(o, owner, p) ==
  /\ Draw("invite", 1)
  /\ invites' = IF Invitable(o, owner, {p})
                THEN WithRow(invites, nextId["invite"],
                             [ orgId |-> o, ownerId |-> owner,
                               inviteeId |-> p, status |-> "Pending" ])
                ELSE invites
  /\ UNCHANGED <<users, orgs, members, transfers>>

(* One createMany, which numbers the rows in the order of the list.        *)
createMultipleInvite(o, owner, people) ==
  LET n == Cardinality(people)
      first == nextId["invite"]
      ids == first .. (first + n - 1)
  IN  /\ Draw("invite", n)
      /\ IF Invitable(o, owner, people)
         THEN \E at \in [ids -> people] :
                /\ \A p \in people : \E i \in ids : at[i] = p
                /\ invites' =
                     [ i \in DOMAIN invites \union ids |->
                         IF i \in ids
                         THEN [ orgId |-> o, ownerId |-> owner,
                                inviteeId |-> at[i], status |-> "Pending" ]
                         ELSE invites[i] ]
         ELSE UNCHANGED invites
      /\ UNCHANGED <<users, orgs, members, transfers>>

updateInvite(i, status) ==
  /\ i \in DOMAIN invites
  /\ invites' = [invites EXCEPT ![i].status = status]
  /\ UNCHANGED <<users, orgs, members, transfers, nextId>>

deleteInvite(i) ==
  /\ invites' = WithoutRow(invites, i)
  /\ UNCHANGED <<users, orgs, members, transfers, nextId>>

(* The unique phone number makes the second of two inserts fail.           *)
createUser(p) ==
  /\ users' = users \union {p}
  /\ UNCHANGED <<orgs, members, invites, transfers, nextId>>
=============================================================================
