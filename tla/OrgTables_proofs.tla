-------------------------- MODULE OrgTables_proofs --------------------------
(***************************************************************************)
(* What the statements on the tables of organisations preserve: the type   *)
(* of every row, that what a row refers to exists, and that a person is in *)
(* an org once.                                                            *)
(***************************************************************************)
EXTENDS OrgTables, FiniteSetTheorems, TLAPS

(* The tables' part of OrgReferences.                                      *)
References ==
  /\ \A o \in DOMAIN orgs : orgs[o] \in users
  /\ \A m \in members : Live(m.orgId) /\ m.memberId \in users
  /\ \A i \in DOMAIN invites :
       /\ Live(invites[i].orgId)
       /\ {invites[i].ownerId, invites[i].inviteeId} \subseteq users
  /\ \A t \in DOMAIN transfers :
       /\ Live(transfers[t].orgId)
       /\ {transfers[t].requestedBy, transfers[t].newOwnerId} \subseteq users

Once ==
  \A m, n \in members :
    m.orgId = n.orgId /\ m.memberId = n.memberId => m = n

TablesOK == TablesTypeOK /\ References /\ Once

-----------------------------------------------------------------------------
LEMMA UnchangedOK ==
  ASSUME TablesOK, UNCHANGED tables
  PROVE  TablesOK'
BY DEF TablesOK, TablesTypeOK, References, Once, tables, Live

LEMMA InitOK ==
  ASSUME TablesInit
  PROVE  TablesOK
BY OrgBoundsAssumption DEF TablesInit, TablesOK, TablesTypeOK, References, Once

(* A drawn id has its type, and so has the next one.                       *)
LEMMA FreshId ==
  ASSUME TablesTypeOK
  PROVE  /\ Fresh("org", 1) => nextId["org"] \in OrgIds
         /\ Fresh("invite", 1) => nextId["invite"] \in InviteIds
         /\ Fresh("transfer", 1) => nextId["transfer"] \in TransferIds
BY OrgBoundsAssumption
   DEF TablesTypeOK, Fresh, SequenceMax, Sequences, OrgIds, InviteIds,
       TransferIds

LEMMA DrawType ==
  ASSUME TablesTypeOK, NEW q \in Sequences, NEW n \in Nat, Draw(q, n)
  PROVE  /\ nextId' \in [Sequences -> Nat]
         /\ \A x \in Sequences : nextId'[x] >= 1
BY DEF TablesTypeOK, Draw

LEMMA CreateOrgOK ==
  ASSUME TablesOK, NEW p \in users, createOrg(p)
  PROVE  TablesOK'
<1>1. nextId["org"] \in OrgIds /\ p \in Persons
  BY FreshId DEF createOrg, TablesOK, TablesTypeOK
<1>2. /\ nextId' \in [Sequences -> Nat]
      /\ \A x \in Sequences : nextId'[x] >= 1
  BY DrawType DEF createOrg, TablesOK, Sequences
<1>3. /\ DOMAIN orgs' = DOMAIN orgs \union {nextId["org"]}
      /\ \A o \in DOMAIN orgs' :
           orgs'[o] = IF o = nextId["org"] THEN p ELSE orgs[o]
  BY DEF createOrg, WithRow
<1>4. TablesTypeOK'
  BY <1>1, <1>2, <1>3 DEF createOrg, TablesOK, TablesTypeOK
<1>5. References' /\ Once'
  BY <1>3 DEF createOrg, TablesOK, References, Once, Live
<1>6. QED
  BY <1>4, <1>5 DEF TablesOK

(* What is deleted is referred to by nothing.                              *)
LEMMA DeleteOrgOK ==
  ASSUME TablesOK, NEW o, deleteOrg(o)
  PROVE  TablesOK'
<1>1. CASE UNCHANGED orgs
  BY <1>1, UnchangedOK DEF deleteOrg, tables
<1>2. CASE ~Referred(o) /\ orgs' = WithoutRow(orgs, o)
  <2>1. /\ DOMAIN orgs' = DOMAIN orgs \ {o}
        /\ \A q \in DOMAIN orgs' : orgs'[q] = orgs[q]
    BY <1>2 DEF WithoutRow
  <2>2. TablesTypeOK'
    BY <2>1 DEF deleteOrg, TablesOK, TablesTypeOK
  <2>3. References' /\ Once'
    BY <1>2, <2>1 DEF deleteOrg, Referred, TablesOK, References, Once, Live
  <2>4. QED
    BY <2>2, <2>3 DEF TablesOK
<1>3. QED
  BY <1>1, <1>2 DEF deleteOrg

LEMMA TransferOK ==
  ASSUME TablesOK, NEW o, NEW by, NEW to,
         requestOwnershipTransfer(o, by, to)
  PROVE  TablesOK'
<1> DEFINE row == [orgId |-> o, requestedBy |-> by, newOwnerId |-> to]
<1>1. /\ nextId' \in [Sequences -> Nat]
      /\ \A x \in Sequences : nextId'[x] >= 1
  BY DrawType DEF requestOwnershipTransfer, TablesOK, Sequences
<1>2. CASE UNCHANGED transfers
  BY <1>1, <1>2
     DEF requestOwnershipTransfer, TablesOK, TablesTypeOK, References, Once,
         Live
<1>3. CASE /\ Fresh("transfer", 1) /\ Live(o) /\ {by, to} \subseteq users
           /\ transfers' = WithRow(transfers, nextId["transfer"], row)
  <2>1. nextId["transfer"] \in TransferIds
    BY <1>3, FreshId DEF TablesOK
  <2>2. row \in OwnershipTransfer
    BY <1>3 DEF OwnershipTransfer, Live, TablesOK, TablesTypeOK
  <2>3. /\ row.orgId = o /\ row.requestedBy = by /\ row.newOwnerId = to
    OBVIOUS
  <2> HIDE DEF row
  <2>4. /\ DOMAIN transfers' = DOMAIN transfers \union {nextId["transfer"]}
        /\ \A t \in DOMAIN transfers' :
             transfers'[t] = IF t = nextId["transfer"] THEN row
                             ELSE transfers[t]
    BY <1>3 DEF WithRow
  <2>5. TablesTypeOK'
    BY <1>1, <2>1, <2>2, <2>4
       DEF requestOwnershipTransfer, TablesOK, TablesTypeOK
  <2>6. References' /\ Once'
    BY <1>3, <2>3, <2>4
       DEF requestOwnershipTransfer, TablesOK, References, Once, Live
  <2>7. QED
    BY <2>5, <2>6 DEF TablesOK
<1>4. QED
  BY <1>2, <1>3 DEF requestOwnershipTransfer

(* The unique constraint, with distinct people among the new rows.         *)
LEMMA AddMemberOK ==
  ASSUME TablesOK, NEW o, NEW entries \in SUBSET MemberEntry,
         addMember(o, entries)
  PROVE  TablesOK'
<1>1. CASE ~Insertable(o, entries)
  BY <1>1, UnchangedOK DEF addMember, tables
<1>2. CASE Insertable(o, entries)
  <2>1. /\ members' = members \union {MemberRow(o, e) : e \in entries}
        /\ UNCHANGED <<users, orgs, invites, transfers, nextId>>
    BY <1>2 DEF addMember
  <2>2. ASSUME NEW e \in entries
        PROVE  /\ MemberRow(o, e) \in OrgMember
               /\ MemberRow(o, e).orgId = o
               /\ MemberRow(o, e).memberId = e.memberId
    BY <1>2 DEF MemberRow, OrgMember, MemberEntry, Insertable, Live,
                TablesOK, TablesTypeOK
  <2>3. TablesTypeOK'
    BY <2>1, <2>2 DEF TablesOK, TablesTypeOK
  <2>4. References'
    BY <1>2, <2>1, <2>2 DEF TablesOK, References, Insertable, Live
  <2>5. ASSUME NEW m \in members', NEW n \in members',
               m.orgId = n.orgId, m.memberId = n.memberId
        PROVE  m = n
    <3>1. CASE m \in members /\ n \in members
      BY <2>5, <3>1 DEF TablesOK, Once
    <3>2. CASE m \notin members \/ n \notin members
      <4>1. ASSUME NEW e \in entries, NEW f \in members,
                   f.orgId = o, f.memberId = e.memberId
            PROVE  FALSE
        BY <1>2, <4>1 DEF Insertable, Member
      <4>2. m \notin members => \E e \in entries : m = MemberRow(o, e)
        BY <2>1
      <4>3. n \notin members => \E e \in entries : n = MemberRow(o, e)
        BY <2>1
      <4>4. m \notin members /\ n \notin members
        BY <2>2, <2>5, <3>2, <4>1, <4>2, <4>3
      <4>5. PICK e \in entries, f \in entries :
              m = MemberRow(o, e) /\ n = MemberRow(o, f)
        BY <4>2, <4>3, <4>4
      <4>6. e = f
        BY <1>2, <2>2, <2>5, <4>5 DEF Insertable
      <4>7. QED
        BY <4>5, <4>6
    <3>3. QED
      BY <3>1, <3>2
  <2>6. QED
    BY <2>3, <2>4, <2>5 DEF TablesOK, Once
<1>3. QED
  BY <1>1, <1>2

LEMMA UpdateRoleOK ==
  ASSUME TablesOK, NEW o, NEW p, NEW role \in Roles,
         updateMemberRole(o, p, role)
  PROVE  TablesOK'
<1> DEFINE row == MemberRow(o, Entry(p, role))
<1>1. CASE ~Member(o, p)
  BY <1>1, UnchangedOK DEF updateMemberRole, tables
<1>2. CASE Member(o, p)
  <2>1. /\ members' = {m \in members : m.orgId # o \/ m.memberId # p}
                        \union {row}
        /\ UNCHANGED <<users, orgs, invites, transfers, nextId>>
    BY <1>2 DEF updateMemberRole
  <2>2. PICK old \in members : old.orgId = o /\ old.memberId = p
    BY <1>2 DEF Member
  <2>3. row = [orgId |-> o, memberId |-> p, role |-> role]
    BY DEF MemberRow, Entry
  <2>4. row \in OrgMember /\ row.orgId = o /\ row.memberId = p
    BY <2>2, <2>3 DEF OrgMember, TablesOK, TablesTypeOK
  <2> HIDE DEF row
  <2>5. TablesTypeOK'
    BY <2>1, <2>4 DEF TablesOK, TablesTypeOK
  <2>6. References'
    BY <2>1, <2>2, <2>4 DEF TablesOK, References, Live
  <2>7. Once'
    BY <2>1, <2>4 DEF TablesOK, Once
  <2>8. QED
    BY <2>5, <2>6, <2>7 DEF TablesOK
<1>3. QED
  BY <1>1, <1>2

LEMMA RemoveMembersOK ==
  ASSUME TablesOK, NEW o, NEW people, removeMembers(o, people)
  PROVE  TablesOK'
BY DEF removeMembers, TablesOK, TablesTypeOK, References, Once, Live

LEMMA CreateUserOK ==
  ASSUME TablesOK, NEW p \in Persons, createUser(p)
  PROVE  TablesOK'
BY DEF createUser, TablesOK, TablesTypeOK, References, Once, Live

(* Invitations inserted together take the ids from the next one on.        *)
LEMMA InsertInvitesOK ==
  ASSUME TablesOK, NEW ids \in SUBSET InviteIds, NEW o, NEW owner \in users,
         NEW people \in SUBSET users,
         Live(o),
         DOMAIN invites' = DOMAIN invites \union ids,
         \A i \in ids : \E p \in people :
           invites'[i] = [ orgId |-> o, ownerId |-> owner, inviteeId |-> p,
                           status |-> "Pending" ],
         \A i \in DOMAIN invites \ ids : invites'[i] = invites[i],
         nextId' \in [Sequences -> Nat],
         \A x \in Sequences : nextId'[x] >= 1,
         UNCHANGED <<users, orgs, members, transfers>>
  PROVE  TablesOK'
<1>1. \A i \in ids : /\ invites'[i] \in OrgInvite
                     /\ invites'[i].orgId = o
                     /\ invites'[i].ownerId = owner
                     /\ invites'[i].inviteeId \in people
  BY DEF OrgInvite, Statuses, Live, TablesOK, TablesTypeOK
<1>2. TablesTypeOK'
  BY <1>1 DEF TablesOK, TablesTypeOK
<1>3. References'
  BY <1>1 DEF TablesOK, References, Live
<1>4. Once'
  BY DEF TablesOK, Once
<1>5. QED
  BY <1>2, <1>3, <1>4 DEF TablesOK

LEMMA NotInvitedOK ==
  ASSUME TablesOK, UNCHANGED <<users, orgs, members, transfers, invites>>,
         nextId' \in [Sequences -> Nat],
         \A x \in Sequences : nextId'[x] >= 1
  PROVE  TablesOK'
BY DEF TablesOK, TablesTypeOK, References, Once, Live

LEMMA CreateInviteOK ==
  ASSUME TablesOK, NEW o, NEW owner, NEW p, createInvite(o, owner, p)
  PROVE  TablesOK'
<1>1. /\ nextId' \in [Sequences -> Nat]
      /\ \A x \in Sequences : nextId'[x] >= 1
  BY DrawType DEF createInvite, TablesOK, Sequences
<1>2. CASE ~Invitable(o, owner, {p})
  BY <1>1, <1>2, NotInvitedOK DEF createInvite
<1>3. CASE Invitable(o, owner, {p})
  <2> DEFINE ids == {nextId["invite"]}
             row == [ orgId |-> o, ownerId |-> owner, inviteeId |-> p,
                      status |-> "Pending" ]
  <2>1. Cardinality({p}) = 1
    BY FS_Singleton
  <2>2. ids \in SUBSET InviteIds
    BY <1>3, <2>1, FreshId DEF Invitable, TablesOK
  <2>3. /\ DOMAIN invites' = DOMAIN invites \union ids
        /\ \A i \in ids : invites'[i] = row
        /\ \A i \in DOMAIN invites \ ids : invites'[i] = invites[i]
    BY <1>3 DEF createInvite, WithRow
  <2>4. \A i \in ids : \E q \in {p} :
          invites'[i] = [ orgId |-> o, ownerId |-> owner, inviteeId |-> q,
                          status |-> "Pending" ]
    BY <2>3
  <2>5. /\ Live(o) /\ owner \in users /\ {p} \in SUBSET users
        /\ UNCHANGED <<users, orgs, members, transfers>>
    BY <1>3 DEF Invitable, createInvite
  <2> HIDE DEF ids, row
  <2>6. QED
    BY <1>1, <2>2, <2>3, <2>4, <2>5, InsertInvitesOK
<1>4. QED
  BY <1>2, <1>3

LEMMA CreateMultipleInviteOK ==
  ASSUME TablesOK, NEW o, NEW owner, NEW people \in SUBSET Persons,
         createMultipleInvite(o, owner, people)
  PROVE  TablesOK'
<1> DEFINE n == Cardinality(people)
           first == nextId["invite"]
           ids == first .. (first + n - 1)
<1>1. n \in Nat
  BY OrgBoundsAssumption, FS_Subset, FS_CardinalityType
<1>2. /\ nextId' \in [Sequences -> Nat]
      /\ \A x \in Sequences : nextId'[x] >= 1
  BY <1>1, DrawType DEF createMultipleInvite, TablesOK, Sequences
<1>3. CASE ~Invitable(o, owner, people)
  BY <1>2, <1>3, NotInvitedOK DEF createMultipleInvite
<1>4. CASE Invitable(o, owner, people)
  <2>1. ids \subseteq InviteIds
    <3>1. first \in Nat /\ first >= 1
      BY DEF TablesOK, TablesTypeOK, Sequences
    <3>2. first + n - 1 <= MaxInvites
      BY <1>4 DEF Invitable, Fresh, SequenceMax
    <3>3. QED
      BY <1>1, <3>1, <3>2, OrgBoundsAssumption DEF InviteIds
  <2>2. PICK at \in [ids -> people] :
          invites' = [ i \in DOMAIN invites \union ids |->
                         IF i \in ids
                         THEN [ orgId |-> o, ownerId |-> owner,
                                inviteeId |-> at[i], status |-> "Pending" ]
                         ELSE invites[i] ]
    BY <1>4 DEF createMultipleInvite
  <2>3. /\ Live(o) /\ owner \in users /\ people \in SUBSET users
        /\ UNCHANGED <<users, orgs, members, transfers>>
    BY <1>4 DEF Invitable, createMultipleInvite
  <2> HIDE DEF ids, n, first
  <2>4. /\ DOMAIN invites' = DOMAIN invites \union ids
        /\ \A i \in DOMAIN invites \ ids : invites'[i] = invites[i]
        /\ \A i \in ids : \E p \in people :
             invites'[i] = [ orgId |-> o, ownerId |-> owner, inviteeId |-> p,
                             status |-> "Pending" ]
    BY <2>2
  <2>5. QED
    BY <1>2, <2>1, <2>3, <2>4, InsertInvitesOK
<1>5. QED
  BY <1>3, <1>4

LEMMA UpdateInviteOK ==
  ASSUME TablesOK, NEW i, NEW status \in Statuses, updateInvite(i, status)
  PROVE  TablesOK'
<1> DEFINE row == [invites[i] EXCEPT !.status = status]
<1>1. invites[i] \in OrgInvite
  BY DEF updateInvite, TablesOK, TablesTypeOK
<1>2. /\ row \in OrgInvite
      /\ row.orgId = invites[i].orgId
      /\ row.ownerId = invites[i].ownerId
      /\ row.inviteeId = invites[i].inviteeId
  BY <1>1 DEF OrgInvite
<1>3. /\ DOMAIN invites' = DOMAIN invites
      /\ \A j \in DOMAIN invites :
           invites'[j] = IF j = i THEN row ELSE invites[j]
  BY DEF updateInvite
<1> HIDE DEF row
<1>4. TablesTypeOK'
  BY <1>2, <1>3 DEF updateInvite, TablesOK, TablesTypeOK
<1>5. References' /\ Once'
  BY <1>2, <1>3 DEF updateInvite, TablesOK, References, Once, Live
<1>6. QED
  BY <1>4, <1>5 DEF TablesOK

LEMMA DeleteInviteOK ==
  ASSUME TablesOK, NEW i, deleteInvite(i)
  PROVE  TablesOK'
<1>1. /\ DOMAIN invites' = DOMAIN invites \ {i}
      /\ \A j \in DOMAIN invites' : invites'[j] = invites[j]
  BY DEF deleteInvite, WithoutRow
<1>2. TablesTypeOK'
  BY <1>1 DEF deleteInvite, TablesOK, TablesTypeOK
<1>3. References' /\ Once'
  BY <1>1 DEF deleteInvite, TablesOK, References, Once, Live
<1>4. QED
  BY <1>2, <1>3 DEF TablesOK
=============================================================================
