-------------------------- MODULE OrgGroups_proofs --------------------------
(***************************************************************************)
(* Theorems about OrgGroups for every set of people, names, options and    *)
(* slots, every bound on the ids and every mix of operations.              *)
(***************************************************************************)
EXTENDS OrgGroups, OrgTables_proofs

(***************************************************************************)
(* What the handler of a request may have to do next, with its locals.     *)
(***************************************************************************)
NewGroups == [ do : {"findSame", "addGroup"}, org : OrgIds \union {Nobody},
               name : Names ]

FirstTasks == [do : {"firstTask"}, group : GroupIds]

Renames == [ do : {"findName", "rename"}, group : GroupIds, name : Names,
             org : OrgIds \union {Nobody} ]

Pins == [do : {"pin"}, group : GroupIds, pin : BOOLEAN]

Drops == [do : {"deleteGroup"}, group : GroupIds]

GroupChecks == [ do : {"findGroup"}, orgs : SUBSET OrgIds, group : GroupIds,
                 then : Renames \union Pins \union Drops ]

Newcomers == [ do : {"findNewcomers"}, group : GroupIds,
               people : SUBSET Persons ]

AdminChecks == [ do : {"findAdmin"}, group : GroupIds, person : Persons,
                 then : {"addAdmin", "findUser"} ]

(* About one member or administrator.                                      *)
OfMember == [ do : {"findMembership", "addAdmin", "findUser", "notice",
                    "deleteMember"},
              group : GroupIds, person : Persons,
              role : {"member", "admin"} ]

Guarded == Newcomers \union AdminChecks \union OfMember

MemberChecks ==
  [ do : {"guardGroup"}, orgs : SUBSET OrgIds, group : GroupIds,
    person : Persons \union {Nobody}, then : Guarded ]
  \union
  [ do : {"findOrgMember"}, org : OrgIds, orgs : SUBSET OrgIds,
    person : Persons, then : Guarded ]

Evictions ==
  [ do : {"checkEach"}, orgs : SUBSET OrgIds, group : GroupIds,
    left : SUBSET Persons, valid : SUBSET Persons ]
  \union
  [ do : {"findGroupOf"}, orgs : SUBSET OrgIds, group : GroupIds,
    people : SUBSET Persons ]
  \union
  [ do : {"checkOwner"}, orgs : SUBSET OrgIds, group : GroupIds,
    org : OrgIds \union {Nobody}, people : SUBSET Persons ]
  \union
  [do : {"evict"}, group : GroupIds, people : SUBSET Persons]

Decisions == [ do : {"decide"}, request : OrgConnecterRequest,
               status : Statuses ]

Withdrawals == [do : {"remove"}, org : OrgIds]

Ballots == [do : {"vote"}, poll : PollIds, option : Options]

Closings == [do : {"addMultiple", "enterBoth"}]

Call == NewGroups \union FirstTasks \union Renames \union Pins \union Drops
          \union GroupChecks \union Guarded \union MemberChecks
          \union Evictions \union Decisions \union Withdrawals
          \union Ballots \union Closings

Request == [by : Persons, call : Call]

PendingOK == pending \in [Slots -> Request \union {Idle, Stopped}]

Fields == { "groups", "joined", "admins", "notices", "welcomed",
            "connections", "requests", "polls", "votes", "pollId",
            "groupId" }

(* The ids of groups given out are those below the next one.               *)
Numbered ==
  /\ DOMAIN db = Fields
  /\ \A g \in DOMAIN db.groups : g < db.groupId
  /\ db.groupId \in 1 .. (MaxGroups + 1) /\ db.pollId >= 1

(* The part of the properties that is about the rows.                      *)
RowsOK == TypeOK /\ Numbered /\ GroupReferences /\ OneVote

(* The inductive invariant.                                                *)
IInv == TablesOK /\ RowsOK /\ PendingOK

-----------------------------------------------------------------------------
(* The slots.                                                              *)

(* What a call says it does determines which locals it has.                *)
LEMMA CallKinds ==
  ASSUME NEW c \in Call
  PROVE  /\ c.do \in {"findSame", "addGroup"} => c \in NewGroups
         /\ c.do = "firstTask" => c \in FirstTasks
         /\ c.do \in {"findName", "rename"} => c \in Renames
         /\ c.do = "pin" => c \in Pins
         /\ c.do = "deleteGroup" => c \in Drops
         /\ c.do = "findGroup" => c \in GroupChecks
         /\ c.do = "findNewcomers" => c \in Newcomers
         /\ c.do = "findAdmin" => c \in AdminChecks
         /\ c.do \in {"findMembership", "addAdmin", "findUser", "notice",
                      "deleteMember"} => c \in OfMember
         /\ c.do \in {"guardGroup", "findOrgMember"} => c \in MemberChecks
         /\ c.do \in {"checkEach", "findGroupOf", "checkOwner", "evict"}
              => c \in Evictions
         /\ c.do = "decide" => c \in Decisions
         /\ c.do = "vote" => c \in Ballots
         /\ c.do \notin {"idle", "stopped"}
BY DEF Call, NewGroups, FirstTasks, Renames, Pins, Drops, GroupChecks,
       Guarded, Newcomers, AdminChecks, OfMember, MemberChecks, Evictions,
       Decisions, Withdrawals, Ballots, Closings

LEMMA MemberCheckKinds ==
  ASSUME NEW c \in MemberChecks
  PROVE  /\ c.orgs \in SUBSET OrgIds /\ c.then \in Guarded
         /\ c.do = "guardGroup" => c.person \in Persons \union {Nobody}
         /\ c.do = "findOrgMember" => c.person \in Persons
BY DEF MemberChecks

LEMMA EvictionKinds ==
  ASSUME NEW c \in Evictions
  PROVE  /\ c.group \in GroupIds
         /\ c.do # "evict" => c.orgs \in SUBSET OrgIds
         /\ c.do # "checkEach" => c.people \in SUBSET Persons
         /\ c.do = "checkEach" => /\ c.left \in SUBSET Persons
                                  /\ c.valid \in SUBSET Persons
BY DEF Evictions

(* A slot whose handler has something to do holds a request.               *)
LEMMA BusyRequest ==
  ASSUME PendingOK, NEW s \in Slots,
         pending[s].call.do \notin {"idle", "stopped"}
  PROVE  pending[s] \in Request /\ pending[s].call \in Call
BY DEF PendingOK, Request, Idle, Stopped

LEMMA EndKeepsPending ==
  ASSUME PendingOK, NEW s \in Slots, End(s)
  PROVE  PendingOK'
BY DEF PendingOK, End

LEMMA GoOnKeepsPending ==
  ASSUME PendingOK, NEW s \in Slots, pending[s] \in Request,
         NEW c \in Call, GoOn(s, c)
  PROVE  PendingOK'
<1>1. [pending[s] EXCEPT !.call = c] \in Request
  BY DEF Request
<1>2. QED
  BY <1>1 DEF PendingOK, GoOn

LEMMA EnterKeepsPending ==
  ASSUME PendingOK, NEW s \in Slots, NEW u \in Persons, NEW c \in Call,
         Enter(s, u, c)
  PROVE  PendingOK'
<1>1. [by |-> u, call |-> c] \in Request
  BY DEF Request
<1>2. QED
  BY <1>1 DEF PendingOK, Enter

LEMMA RowsUnchanged ==
  ASSUME TablesOK, RowsOK, UNCHANGED <<tables, db>>
  PROVE  TablesOK' /\ RowsOK'
<1>1. TablesOK'
  BY UnchangedOK
<1>2. RowsOK'
  BY DEF tables, RowsOK, TypeOK, TablesTypeOK, Numbered, GroupReferences,
         OneVote, Exists, Live
<1>3. QED
  BY <1>1, <1>2

LEMMA CheckKeeps ==
  ASSUME IInv, NEW s \in Slots, pending[s] \in Request, NEW ok,
         NEW c, ok => c \in Call, Check(s, ok, c)
  PROVE  IInv'
<1>1. PendingOK'
  BY EndKeepsPending, GoOnKeepsPending DEF Check, GoOnIf, IInv
<1>2. TablesOK' /\ RowsOK'
  BY RowsUnchanged DEF Check, IInv
<1>3. QED
  BY <1>1, <1>2 DEF IInv

LEMMA ArrivesKeeps ==
  ASSUME IInv, NEW s \in Slots, NEW u \in Persons, NEW op, NEW c \in Call,
         Arrives(s, op, u, c)
  PROVE  IInv'
<1>1. PendingOK'
  BY EnterKeepsPending DEF Arrives, IInv
<1>2. TablesOK' /\ RowsOK'
  BY RowsUnchanged DEF Arrives, IInv
<1>3. QED
  BY <1>1, <1>2 DEF IInv

(* A last statement that leaves well-formed rows.                          *)
LEMMA FinishKeeps ==
  ASSUME IInv, NEW s \in Slots, NEW d, Finish(s, d), RowsOK'
  PROVE  IInv'
<1>1. PendingOK'
  BY EndKeepsPending DEF Finish, IInv
<1>2. TablesOK'
  BY UnchangedOK DEF Finish, IInv
<1>3. QED
  BY <1>1, <1>2 DEF IInv

LEMMA NothingWritten ==
  ASSUME IInv, NEW s \in Slots, Finish(s, db)
  PROVE  IInv'
<1>1. RowsOK'
  BY RowsUnchanged DEF Finish, IInv
<1>2. QED
  BY <1>1, FinishKeeps

-----------------------------------------------------------------------------
(* The statements.                                                         *)

LEMMA SameTables ==
  ASSUME TypeOK, UNCHANGED tables
  PROVE  /\ TablesTypeOK'
         /\ \A o : Live(o)' <=> Live(o)
BY DEF TypeOK, TablesTypeOK, tables, Live

(* A group row with a new id.                                              *)
LEMMA WithGroupOK ==
  ASSUME RowsOK, UNCHANGED tables, db.groupId <= MaxGroups,
         NEW o \in OrgIds \union {Nobody}, o = Nobody \/ Live(o),
         NEW creator \in Persons \union {Nobody},
         NEW n \in Names \union {Nobody}, NEW isConnector \in BOOLEAN,
         NEW connections \in SUBSET (OrgIds \X Persons),
         \A r \in connections : Live(r[1]),
         db' = [WithGroup(db, GroupRow(o, creator, n, isConnector)) EXCEPT
                  !.connections = connections]
  PROVE  RowsOK'
<1> DEFINE row == GroupRow(o, creator, n, isConnector)
<1>1. row \in OrgGroup /\ row.orgId = o
  BY DEF GroupRow, OrgGroup
<1> HIDE DEF row
<1>2. /\ DOMAIN db' = Fields
      /\ db'.groups = WithRow(db.groups, db.groupId, row)
      /\ db'.groupId = db.groupId + 1
      /\ db'.connections = connections
      /\ \A f \in Fields \ {"groups", "groupId", "connections"} :
           db'[f] = db[f]
  BY DEF WithGroup, row, RowsOK, Numbered, Fields
<1>3. /\ db'.joined = db.joined /\ db'.admins = db.admins
      /\ db'.notices = db.notices /\ db'.welcomed = db.welcomed
      /\ db'.requests = db.requests /\ db'.polls = db.polls
      /\ db'.votes = db.votes /\ db'.pollId = db.pollId
  BY <1>2 DEF Fields
<1>4. /\ DOMAIN db'.groups = DOMAIN db.groups \union {db.groupId}
      /\ \A g \in DOMAIN db'.groups :
           \/ g \in DOMAIN db.groups /\ db'.groups[g] = db.groups[g]
           \/ db'.groups[g] = row
  BY <1>2 DEF WithRow
<1>5. /\ db.groupId \in GroupIds
      /\ db.groupId + 1 \in 1 .. (MaxGroups + 1)
  BY GroupBoundsAssumption DEF RowsOK, TypeOK, Numbered, GroupIds
<1>6. TypeOK'
  BY <1>1, <1>2, <1>3, <1>4, <1>5, SameTables DEF RowsOK, TypeOK
<1>7. Numbered'
  BY <1>2, <1>3, <1>4, <1>5 DEF RowsOK, TypeOK, Numbered, GroupIds
<1>8. GroupReferences'
  BY <1>1, <1>2, <1>3, <1>4, SameTables
     DEF RowsOK, GroupReferences, Exists
<1>9. OneVote'
  BY <1>3 DEF RowsOK, OneVote
<1>10. QED
  BY <1>6, <1>7, <1>8, <1>9 DEF RowsOK

(* The columns of one group row that no other row depends on.              *)
LEMMA UpdateGroupOK ==
  ASSUME RowsOK, UNCHANGED tables, NEW g, Exists(g), NEW row \in OrgGroup,
         row.orgId = db.groups[g].orgId,
         db' = [db EXCEPT !.groups = [@ EXCEPT ![g] = row]]
  PROVE  RowsOK'
<1>1. /\ DOMAIN db' = Fields
      /\ db'.groups = [db.groups EXCEPT ![g] = row]
      /\ \A f \in Fields \ {"groups"} : db'[f] = db[f]
  BY DEF RowsOK, Numbered, Fields
<1>2. /\ db'.joined = db.joined /\ db'.admins = db.admins
      /\ db'.notices = db.notices /\ db'.welcomed = db.welcomed
      /\ db'.requests = db.requests /\ db'.polls = db.polls
      /\ db'.votes = db.votes /\ db'.pollId = db.pollId
      /\ db'.connections = db.connections /\ db'.groupId = db.groupId
  BY <1>1 DEF Fields
<1>3. /\ DOMAIN db'.groups = DOMAIN db.groups
      /\ \A h \in DOMAIN db.groups :
           /\ db'.groups[h] \in OrgGroup
           /\ db'.groups[h].orgId = db.groups[h].orgId
  BY <1>1 DEF RowsOK, TypeOK
<1>4. TypeOK'
  BY <1>2, <1>3, SameTables DEF RowsOK, TypeOK
<1>5. Numbered'
  BY <1>1, <1>2, <1>3 DEF RowsOK, Numbered
<1>6. GroupReferences'
  BY <1>2, <1>3, SameTables DEF RowsOK, GroupReferences, Exists
<1>7. OneVote'
  BY <1>2 DEF RowsOK, OneVote
<1>8. QED
  BY <1>4, <1>5, <1>6, <1>7 DEF RowsOK

(* Rows that refer to groups come with the group and go at any time.       *)
LEMMA AttachedOK ==
  ASSUME RowsOK, UNCHANGED tables, DOMAIN db' = Fields,
         NEW F \in SUBSET {"joined", "admins", "notices", "welcomed",
                           "requests"},
         \A f \in Fields \ F : db'[f] = db[f],
         db'.joined \union db'.admins \union db'.notices
           \subseteq (DOMAIN db.groups) \X Persons,
         db'.welcomed \subseteq DOMAIN db.groups,
         db'.requests \subseteq OrgConnecterRequest
  PROVE  RowsOK'
<1>1. /\ db'.groups = db.groups /\ db'.polls = db.polls
      /\ db'.votes = db.votes /\ db'.pollId = db.pollId
      /\ db'.connections = db.connections /\ db'.groupId = db.groupId
  BY DEF Fields
<1>2. TypeOK'
  <2>1. DOMAIN db.groups \subseteq GroupIds
    BY DEF RowsOK, TypeOK
  <2>2. /\ db'.joined \union db'.admins \union db'.notices
             \subseteq GroupIds \X Persons
        /\ db'.welcomed \subseteq GroupIds
    BY <2>1
  <2>3. QED
    BY <1>1, <2>2, SameTables DEF RowsOK, TypeOK
<1>3. Numbered'
  BY <1>1 DEF RowsOK, Numbered
<1>4. GroupReferences'
  <2>1. \A r \in db'.joined \union db'.admins \union db'.notices :
          r[1] \in DOMAIN db'.groups
    BY <1>1
  <2>2. \A o : Live(o)' <=> Live(o)
    BY SameTables DEF RowsOK
  <2>3. QED
    BY <1>1, <2>1, <2>2 DEF RowsOK, GroupReferences, Exists
<1>5. OneVote'
  BY <1>1 DEF RowsOK, OneVote
<1>6. QED
  BY <1>2, <1>3, <1>4, <1>5 DEF RowsOK

(* The pairs of GroupReferences are of groups that exist.                  *)
LEMMA AttachedNow ==
  ASSUME RowsOK
  PROVE  /\ DOMAIN db = Fields
         /\ db.joined \union db.admins \union db.notices
              \subseteq (DOMAIN db.groups) \X Persons
         /\ db.welcomed \subseteq DOMAIN db.groups
         /\ db.requests \subseteq OrgConnecterRequest
<1>1. \A r \in db.joined \union db.admins \union db.notices :
        r \in GroupIds \X Persons /\ r[1] \in DOMAIN db.groups
  BY DEF RowsOK, TypeOK, GroupReferences, Exists
<1>2. db.joined \union db.admins \union db.notices
        \subseteq (DOMAIN db.groups) \X Persons
  BY <1>1
<1>3. QED
  BY <1>2 DEF RowsOK, TypeOK, Numbered, GroupReferences

(* A group that is not held goes with what refers to it.                   *)
LEMMA WithoutGroupOK ==
  ASSUME RowsOK, UNCHANGED tables, NEW g, ~Held(g),
         db' = [db EXCEPT !.groups = WithoutRow(@, g),
                          !.welcomed = @ \ {g},
                          !.notices = {n \in @ : n[1] # g}]
  PROVE  RowsOK'
<1>1. /\ DOMAIN db' = Fields
      /\ db'.groups = WithoutRow(db.groups, g)
      /\ db'.welcomed = db.welcomed \ {g}
      /\ db'.notices = {n \in db.notices : n[1] # g}
      /\ \A f \in Fields \ {"groups", "welcomed", "notices"} :
           db'[f] = db[f]
  BY DEF RowsOK, Numbered, Fields
<1>2. /\ db'.joined = db.joined /\ db'.admins = db.admins
      /\ db'.requests = db.requests /\ db'.polls = db.polls
      /\ db'.votes = db.votes /\ db'.pollId = db.pollId
      /\ db'.connections = db.connections /\ db'.groupId = db.groupId
  BY <1>1 DEF Fields
<1>3. /\ DOMAIN db'.groups = DOMAIN db.groups \ {g}
      /\ \A h \in DOMAIN db'.groups : db'.groups[h] = db.groups[h]
  <2>1. db'.groups = [h \in (DOMAIN db.groups) \ {g} |-> db.groups[h]]
    BY <1>1 DEF WithoutRow
  <2>2. QED
    BY <2>1
<1>4. TypeOK'
  BY <1>1, <1>2, <1>3, SameTables DEF RowsOK, TypeOK
<1>5. Numbered'
  BY <1>1, <1>2, <1>3 DEF RowsOK, Numbered
<1>6. GroupReferences'
  BY <1>1, <1>2, <1>3, SameTables DEF RowsOK, GroupReferences, Exists, Held
<1>7. OneVote'
  BY <1>2 DEF RowsOK, OneVote
<1>8. QED
  BY <1>4, <1>5, <1>6, <1>7 DEF RowsOK

(* A poll is asked in a group that exists.                                 *)
LEMMA CreatePollOK ==
  ASSUME RowsOK, NEW g, createPoll(g)
  PROVE  RowsOK' /\ UNCHANGED tables
<1> USE DEF createPoll, WritePolls
<1>1. /\ DOMAIN db' = Fields
      /\ db'.polls = WithRow(db.polls, db.pollId, g)
      /\ db'.pollId = db.pollId + 1
      /\ \A f \in Fields \ {"polls", "pollId"} : db'[f] = db[f]
  BY DEF RowsOK, Numbered, Fields
<1>2. /\ db'.joined = db.joined /\ db'.admins = db.admins
      /\ db'.notices = db.notices /\ db'.welcomed = db.welcomed
      /\ db'.requests = db.requests /\ db'.groups = db.groups
      /\ db'.votes = db.votes
      /\ db'.connections = db.connections /\ db'.groupId = db.groupId
  BY <1>1 DEF Fields
<1>3. /\ DOMAIN db'.polls = DOMAIN db.polls \union {db.pollId}
      /\ \A q \in DOMAIN db'.polls :
           \/ q \in DOMAIN db.polls /\ db'.polls[q] = db.polls[q]
           \/ db'.polls[q] = g
  <2>1. db'.polls = [q \in (DOMAIN db.polls) \union {db.pollId} |->
                       IF q = db.pollId THEN g ELSE db.polls[q]]
    BY <1>1 DEF WithRow
  <2>2. QED
    BY <2>1
<1>4. /\ db.pollId \in PollIds /\ db.pollId + 1 \in Nat
      /\ db.pollId + 1 >= 1 /\ g \in GroupIds
  BY GroupBoundsAssumption DEF RowsOK, TypeOK, Numbered, PollIds, Exists
<1>5. TypeOK'
  BY <1>1, <1>2, <1>3, <1>4, SameTables DEF RowsOK, TypeOK
<1>6. Numbered'
  BY <1>1, <1>2, <1>4 DEF RowsOK, Numbered
<1>7. GroupReferences'
  BY <1>2, <1>3, SameTables DEF RowsOK, GroupReferences, Exists
<1>8. OneVote'
  BY <1>2 DEF RowsOK, OneVote
<1>9. QED
  BY <1>5, <1>6, <1>7, <1>8 DEF RowsOK

(* A poll goes when nobody voted in it.                                    *)
LEMMA DeletePollOK ==
  ASSUME RowsOK, NEW q, deletePoll(q)
  PROVE  RowsOK' /\ UNCHANGED tables
<1> USE DEF deletePoll, WritePolls
<1>1. /\ DOMAIN db' = Fields
      /\ db'.polls = WithoutRow(db.polls, q)
      /\ \A f \in Fields \ {"polls"} : db'[f] = db[f]
  BY DEF RowsOK, Numbered, Fields
<1>2. /\ db'.joined = db.joined /\ db'.admins = db.admins
      /\ db'.notices = db.notices /\ db'.welcomed = db.welcomed
      /\ db'.requests = db.requests /\ db'.groups = db.groups
      /\ db'.votes = db.votes /\ db'.pollId = db.pollId
      /\ db'.connections = db.connections /\ db'.groupId = db.groupId
  BY <1>1 DEF Fields
<1>3. /\ DOMAIN db'.polls = DOMAIN db.polls \ {q}
      /\ \A x \in DOMAIN db'.polls : db'.polls[x] = db.polls[x]
  <2>1. db'.polls = [x \in (DOMAIN db.polls) \ {q} |-> db.polls[x]]
    BY <1>1 DEF WithoutRow
  <2>2. QED
    BY <2>1
<1>4. TypeOK'
  BY <1>2, <1>3, SameTables DEF RowsOK, TypeOK
<1>5. Numbered'
  BY <1>1, <1>2 DEF RowsOK, Numbered
<1>6. GroupReferences'
  BY <1>2, <1>3, SameTables DEF RowsOK, GroupReferences, Exists
<1>7. OneVote'
  BY <1>2 DEF RowsOK, OneVote
<1>8. QED
  BY <1>4, <1>5, <1>6, <1>7 DEF RowsOK

(* Votes that are one of each user in polls that exist.                    *)
LEMMA VotesOK ==
  ASSUME RowsOK, UNCHANGED tables, NEW votes,
         db' = [db EXCEPT !.votes = votes],
         votes \subseteq PollVote,
         \A v \in votes : v.pollId \in DOMAIN db.polls,
         \A v, w \in votes :
           v.pollId = w.pollId /\ v.userId = w.userId => v = w
  PROVE  RowsOK'
<1>1. /\ DOMAIN db' = Fields
      /\ db'.votes = votes
      /\ \A f \in Fields \ {"votes"} : db'[f] = db[f]
  BY DEF RowsOK, Numbered, Fields
<1>2. /\ db'.joined = db.joined /\ db'.admins = db.admins
      /\ db'.notices = db.notices /\ db'.welcomed = db.welcomed
      /\ db'.requests = db.requests /\ db'.groups = db.groups
      /\ db'.polls = db.polls /\ db'.pollId = db.pollId
      /\ db'.connections = db.connections /\ db'.groupId = db.groupId
  BY <1>1 DEF Fields
<1>3. TypeOK'
  BY <1>1, <1>2, SameTables DEF RowsOK, TypeOK
<1>4. Numbered'
  BY <1>1, <1>2 DEF RowsOK, Numbered
<1>5. GroupReferences'
  BY <1>1, <1>2, SameTables DEF RowsOK, GroupReferences, Exists
<1>6. OneVote'
  BY <1>1 DEF OneVote
<1>7. QED
  BY <1>3, <1>4, <1>5, <1>6 DEF RowsOK

(* The groups of an org that goes point at none, and what would be left    *)
(* pointing at it holds it.                                                *)
LEMMA OrgDeletedOK ==
  ASSUME TablesOK, RowsOK, NEW o \in OrgIds, OrgDeleted(o)
  PROVE  TablesOK' /\ RowsOK'
<1>1. TablesOK' /\ DOMAIN orgs' = DOMAIN orgs \ {o}
  <2>1. TablesOK'
    BY DeleteOrgOK DEF OrgDeleted
  <2>2. orgs' = WithoutRow(orgs, o) \/ orgs' = orgs
    BY DEF OrgDeleted, deleteOrg
  <2>3. QED
    BY <2>1, <2>2 DEF OrgDeleted, WithoutRow, Live
<1> DEFINE row(g) == IF db.groups[g].orgId = o
                     THEN [db.groups[g] EXCEPT !.orgId = Nobody]
                     ELSE db.groups[g]
<1>2. /\ DOMAIN db' = Fields
      /\ db'.groups = [g \in DOMAIN db.groups |-> row(g)]
      /\ \A f \in Fields \ {"groups"} : db'[f] = db[f]
  BY DEF OrgDeleted, RowsOK, Numbered, Fields
<1>3. /\ db'.joined = db.joined /\ db'.admins = db.admins
      /\ db'.notices = db.notices /\ db'.welcomed = db.welcomed
      /\ db'.requests = db.requests /\ db'.votes = db.votes
      /\ db'.polls = db.polls /\ db'.pollId = db.pollId
      /\ db'.connections = db.connections /\ db'.groupId = db.groupId
  BY <1>2 DEF Fields
<1>4. \A g \in DOMAIN db.groups :
        /\ row(g) \in OrgGroup
        /\ row(g).orgId = Nobody \/ (row(g).orgId = db.groups[g].orgId
                                     /\ row(g).orgId # o)
  BY DEF RowsOK, TypeOK, OrgGroup
<1> HIDE DEF row
<1>5. /\ DOMAIN db'.groups = DOMAIN db.groups
      /\ \A g \in DOMAIN db.groups : db'.groups[g] = row(g)
  BY <1>2
<1>6. TypeOK'
  BY <1>1, <1>3, <1>4, <1>5 DEF RowsOK, TypeOK, TablesOK
<1>7. Numbered'
  BY <1>2, <1>3, <1>5 DEF RowsOK, Numbered
<1>8. GroupReferences'
  BY <1>1, <1>3, <1>4, <1>5
     DEF RowsOK, GroupReferences, Exists, Live, OrgDeleted
<1>9. OneVote'
  BY <1>3 DEF RowsOK, OneVote
<1>10. QED
  BY <1>1, <1>6, <1>7, <1>8, <1>9 DEF RowsOK

-----------------------------------------------------------------------------
(* The steps of the handlers.                                              *)

(* The steps that only read.                                               *)
LEMMA ReadsKeep ==
  ASSUME IInv, NEW s \in Slots, pending[s] \in Request, NEW c \in Call,
         \/ FindSame(s, c) \/ FindGroup(s, c) \/ FindGroupToRename(s, c)
         \/ FindName(s, c) \/ FindOrgMember(s, c) \/ FindNewcomers(s, c)
         \/ FindAdmin(s, c) \/ FindMembership(s, c) \/ FindUser(s, c)
         \/ CheckEach(s, c) \/ FindGroupOf(s, c) \/ CheckOwner(s, c)
  PROVE  IInv'
<1>1. CASE FindSame(s, c)
  <2>1. [c EXCEPT !.do = "addGroup"] \in Call
    BY <1>1, CallKinds DEF FindSame, NewGroups, Call
  <2>2. QED
    BY <1>1, <2>1, CheckKeeps DEF FindSame
<1>2. CASE FindGroup(s, c)
  <2>1. c.then \in Call
    BY <1>2, CallKinds DEF FindGroup, GroupChecks, Call
  <2>2. QED
    BY <1>2, <2>1, CheckKeeps DEF FindGroup
<1>3. CASE FindGroupToRename(s, c)
  <2>1. c.then \in Renames /\ c.group \in GroupIds
    BY <1>3, CallKinds
       DEF FindGroupToRename, GroupChecks, Renames, Pins, Drops
  <2>2. Exists(c.group) =>
          db.groups[c.group].orgId \in OrgIds \union {Nobody}
    BY DEF IInv, RowsOK, TypeOK, OrgGroup, Exists
  <2>3. Exists(c.group) =>
          [c.then EXCEPT !.org = db.groups[c.group].orgId] \in Call
    BY <2>1, <2>2 DEF Renames, Call
  <2>4. QED
    BY <1>3, <2>3, CheckKeeps DEF FindGroupToRename
<1>4. CASE FindName(s, c)
  <2>1. [c EXCEPT !.do = "rename"] \in Call
    BY <1>4, CallKinds DEF FindName, Renames, Call
  <2>2. QED
    BY <1>4, <2>1, CheckKeeps DEF FindName
<1>5. CASE FindOrgMember(s, c)
  <2>1. c.then \in Call
    BY <1>5, CallKinds, MemberCheckKinds DEF FindOrgMember, Call
  <2>2. QED
    BY <1>5, <2>1, CheckKeeps DEF FindOrgMember
<1>6. CASE FindNewcomers(s, c)
  <2>1. [do |-> "addMultiple"] \in Call
    BY DEF Closings, Call
  <2>2. QED
    BY <1>6, <2>1, CheckKeeps DEF FindNewcomers
<1>7. CASE FindAdmin(s, c)
  <2>1. [ do |-> c.then, group |-> c.group, person |-> c.person,
          role |-> "admin" ] \in OfMember
    BY <1>7, CallKinds DEF FindAdmin, AdminChecks, OfMember
  <2>2. [ do |-> c.then, group |-> c.group, person |-> c.person,
          role |-> "admin" ] \in Call
    BY <2>1 DEF Call, Guarded
  <2>3. QED
    BY <1>7, <2>2, CheckKeeps DEF FindAdmin
<1>8. CASE FindMembership(s, c)
  <2>1. [c EXCEPT !.do = "findUser"] \in OfMember
    BY <1>8, CallKinds DEF FindMembership, OfMember
  <2>2. [c EXCEPT !.do = "findUser"] \in Call
    BY <2>1 DEF Call, Guarded
  <2>3. QED
    BY <1>8, <2>2, CheckKeeps DEF FindMembership
<1>9. CASE FindUser(s, c)
  <2>1. [c EXCEPT !.do = "notice"] \in OfMember
    BY <1>9, CallKinds DEF FindUser, OfMember
  <2>2. [c EXCEPT !.do = "notice"] \in Call
    BY <2>1 DEF Call, Guarded
  <2>3. QED
    BY <1>9, <2>2, CheckKeeps DEF FindUser
<1>10. CASE CheckEach(s, c)
  <2>1. c \in [ do : {"checkEach"}, orgs : SUBSET OrgIds,
                group : GroupIds, left : SUBSET Persons,
                valid : SUBSET Persons ]
    BY <1>10, CallKinds DEF CheckEach, Evictions
  <2> DEFINE valid(p) ==
        c.valid \union {x \in {p} : <<c.group, x>> \in db.joined}
  <2>2. PICK p \in c.left :
          IF c.left # {p}
          THEN Check(s, TRUE, [c EXCEPT !.left = @ \ {p},
                                        !.valid = valid(p)])
          ELSE Check(s, valid(p) # {},
                 [ do |-> "findGroupOf", orgs |-> c.orgs,
                   group |-> c.group, people |-> valid(p) ])
    BY <1>10 DEF CheckEach
  <2>3. valid(p) \in SUBSET Persons
    BY <2>1
  <2> HIDE DEF valid
  <2>4. /\ [c EXCEPT !.left = @ \ {p}, !.valid = valid(p)] \in Evictions
        /\ [ do |-> "findGroupOf", orgs |-> c.orgs, group |-> c.group,
             people |-> valid(p) ] \in Evictions
    BY <2>1, <2>3 DEF Evictions
  <2>5. /\ [c EXCEPT !.left = @ \ {p}, !.valid = valid(p)] \in Call
        /\ [ do |-> "findGroupOf", orgs |-> c.orgs, group |-> c.group,
             people |-> valid(p) ] \in Call
    BY <2>4 DEF Call
  <2>6. QED
    BY <2>2, <2>5, CheckKeeps
<1>11. CASE FindGroupOf(s, c)
  <2>1. /\ c.orgs \in SUBSET OrgIds /\ c.group \in GroupIds
        /\ c.people \in SUBSET Persons
    BY <1>11, CallKinds, EvictionKinds DEF FindGroupOf
  <2>2. Exists(c.group) =>
          db.groups[c.group].orgId \in OrgIds \union {Nobody}
    BY DEF IInv, RowsOK, TypeOK, OrgGroup, Exists
  <2>3. Exists(c.group) =>
          [ do |-> "checkOwner", orgs |-> c.orgs, group |-> c.group,
            org |-> db.groups[c.group].orgId, people |-> c.people ]
            \in Evictions
    BY <2>1, <2>2 DEF Evictions
  <2>4. QED
    BY <1>11, <2>3, CheckKeeps DEF FindGroupOf, Call
<1>12. CASE CheckOwner(s, c)
  <2>1. c.group \in GroupIds /\ c.people \in SUBSET Persons
    BY <1>12, CallKinds, EvictionKinds DEF CheckOwner
  <2>2. [do |-> "evict", group |-> c.group, people |-> c.people]
          \in Evictions
    BY <2>1 DEF Evictions
  <2>3. QED
    BY <1>12, <2>2, CheckKeeps DEF CheckOwner, Call
<1>13. QED
  BY <1>1, <1>2, <1>3, <1>4, <1>5, <1>6, <1>7, <1>8, <1>9, <1>10, <1>11,
     <1>12

(* The guard goes on with what the handler does next, or with the look-up  *)
(* of a member of the group's org.                                         *)
LEMMA GuardKeeps ==
  ASSUME IInv, NEW s \in Slots, pending[s] \in Request, NEW c \in Call,
         GuardGroup(s, c)
  PROVE  IInv'
<1> DEFINE row == db.groups[c.group]
           lookUp == [ do |-> "findOrgMember", org |-> row.orgId,
                       orgs |-> c.orgs, person |-> c.person,
                       then |-> c.then ]
<1>1. CASE ~Exists(c.group)
  BY <1>1, NothingWritten DEF GuardGroup
<1>2. CASE Exists(c.group)
  <2>1. /\ c.orgs \in SUBSET OrgIds /\ c.then \in Guarded
        /\ c.person \in Persons \union {Nobody}
    BY CallKinds, MemberCheckKinds DEF GuardGroup
  <2>2. row.orgId \in OrgIds \union {Nobody}
    BY <1>2 DEF IInv, RowsOK, TypeOK, OrgGroup, Exists
  <2>3. c.then \in Call
    BY <2>1 DEF Call
  <2>4. \/ \E ok : Check(s, ok, c.then)
        \/ row.orgId # Nobody /\ c.person # Nobody
             /\ Check(s, TRUE, lookUp)
    BY <1>2 DEF GuardGroup
  <2>5. CASE row.orgId # Nobody /\ c.person # Nobody
    <3>1. lookUp \in MemberChecks
      BY <2>1, <2>2, <2>5 DEF MemberChecks
    <3>2. lookUp \in Call
      BY <3>1 DEF Call
    <3> HIDE DEF lookUp
    <3>3. QED
      BY <2>3, <2>4, <3>2, CheckKeeps
  <2>6. QED
    BY <2>3, <2>4, <2>5, CheckKeeps
<1>3. QED
  BY <1>1, <1>2

(* A group of an org that exists, or of nobody's, made by who asks.        *)
LEMMA AddGroupKeeps ==
  ASSUME IInv, NEW s \in Slots, pending[s] \in Request, NEW c \in Call,
         addOrgGroup(s, c)
  PROVE  IInv'
<1>1. CASE db.groupId <= MaxGroups /\ (c.org = Nobody \/ Live(c.org))
  <2>1. c.org \in OrgIds \union {Nobody} /\ c.name \in Names
    BY CallKinds DEF addOrgGroup, NewGroups
  <2> DEFINE creator == IF c.org = Nobody THEN pending[s].by ELSE Nobody
  <2>2. creator \in Persons \union {Nobody}
    BY DEF Request
  <2> HIDE DEF creator
  <2>3. /\ db' = WithGroup(db, GroupRow(c.org, creator, c.name, FALSE))
        /\ UNCHANGED tables
        /\ GoOn(s, [do |-> "firstTask", group |-> db.groupId])
    BY <1>1 DEF addOrgGroup, creator
  <2>4. /\ db.connections \in SUBSET (OrgIds \X Persons)
        /\ \A r \in db.connections : Live(r[1])
    BY DEF IInv, RowsOK, TypeOK, GroupReferences
  <2>5. db' = [WithGroup(db, GroupRow(c.org, creator, c.name, FALSE))
                 EXCEPT !.connections = db.connections]
    BY <2>3 DEF WithGroup, IInv, RowsOK, Numbered, Fields
  <2>6. RowsOK'
    BY <1>1, <2>1, <2>2, <2>3, <2>4, <2>5, WithGroupOK DEF IInv
  <2>7. [do |-> "firstTask", group |-> db.groupId] \in Call
    <3>1. db.groupId \in GroupIds
      BY <1>1, GroupBoundsAssumption
         DEF IInv, RowsOK, TypeOK, Numbered, GroupIds
    <3>2. QED
      BY <3>1 DEF Call, FirstTasks
  <2>8. PendingOK' /\ TablesOK'
    BY <2>3, <2>7, GoOnKeepsPending, UnchangedOK DEF IInv
  <2>9. QED
    BY <2>6, <2>8 DEF IInv
<1>2. CASE ~(db.groupId <= MaxGroups /\ (c.org = Nobody \/ Live(c.org)))
  BY <1>2, NothingWritten DEF addOrgGroup
<1>3. QED
  BY <1>1, <1>2

(* The group of a connection belongs to the org of the connection.         *)
LEMMA ApproveKeeps ==
  ASSUME IInv, NEW s \in Slots, pending[s] \in Request, NEW c \in Call,
         ApproveRequest(s, c)
  PROVE  IInv'
<1> DEFINE o == c.request.orgId
           u == pending[s].by
           connections == db.connections \union {<<o, u>>}
<1>1. CASE Connectable(o, u)
  <2>1. o \in OrgIds /\ u \in Persons
    BY CallKinds
       DEF ApproveRequest, Decisions, OrgConnecterRequest, Request
  <2>2. /\ db' = [WithGroup(db, GroupRow(o, Nobody, Nobody, TRUE)) EXCEPT
                    !.connections = @ \union {<<o, u>>}]
        /\ UNCHANGED tables
        /\ GoOn(s, [do |-> "enterBoth"])
    BY <1>1 DEF ApproveRequest
  <2>3. /\ connections \in SUBSET (OrgIds \X Persons)
        /\ \A r \in connections : Live(r[1])
    BY <1>1, <2>1 DEF IInv, RowsOK, TypeOK, GroupReferences, Connectable
  <2>4. db' = [WithGroup(db, GroupRow(o, Nobody, Nobody, TRUE)) EXCEPT
                 !.connections = connections]
    <3>1. WithGroup(db, GroupRow(o, Nobody, Nobody, TRUE)).connections
            = db.connections
      BY DEF WithGroup, IInv, RowsOK, Numbered, Fields
    <3>2. QED
      BY <2>2, <3>1
  <2> HIDE DEF connections, o, u
  <2>5. RowsOK'
    BY <1>1, <2>1, <2>2, <2>3, <2>4, WithGroupOK DEF IInv, Connectable
  <2>6. [do |-> "enterBoth"] \in Call
    BY DEF Call, Closings
  <2>7. PendingOK' /\ TablesOK'
    BY <2>2, <2>6, GoOnKeepsPending, UnchangedOK DEF IInv
  <2>8. QED
    BY <2>5, <2>7 DEF IInv
<1>2. CASE ~Connectable(o, u)
  BY <1>2, NothingWritten DEF ApproveRequest
<1>3. QED
  BY <1>1, <1>2

(* The row of who is said to have left is of a group that exists.          *)
LEMMA NoticeKeeps ==
  ASSUME IInv, NEW s \in Slots, pending[s] \in Request, NEW c \in Call,
         memberLeavedGroupMessage(s, c)
  PROVE  IInv'
<1>1. CASE Exists(c.group)
  <2>1. c \in OfMember
    BY CallKinds DEF memberLeavedGroupMessage
  <2>2. /\ db' = [db EXCEPT !.notices =
                    @ \union {<<c.group, c.person>>}]
        /\ UNCHANGED tables
        /\ GoOn(s, [c EXCEPT !.do = "deleteMember"])
    BY <1>1 DEF memberLeavedGroupMessage
  <2>3. RowsOK'
    <3>1. RowsOK /\ DOMAIN db = Fields
      BY DEF IInv, RowsOK, Numbered
    <3>2. /\ DOMAIN db' = Fields
          /\ \A f \in Fields \ {"notices"} : db'[f] = db[f]
          /\ db'.notices = db.notices \union {<<c.group, c.person>>}
      BY <2>2, <3>1 DEF Fields
    <3>3. /\ db'.joined = db.joined /\ db'.admins = db.admins
          /\ db'.welcomed = db.welcomed /\ db'.requests = db.requests
      BY <3>2 DEF Fields
    <3>4. <<c.group, c.person>> \in (DOMAIN db.groups) \X Persons
      BY <1>1, <2>1 DEF OfMember, Exists
    <3>5. QED
      BY <2>2, <3>1, <3>2, <3>3, <3>4, AttachedNow, AttachedOK
  <2>4. [c EXCEPT !.do = "deleteMember"] \in OfMember
    BY <2>1 DEF OfMember
  <2>5. [c EXCEPT !.do = "deleteMember"] \in Call
    BY <2>4 DEF Call, Guarded
  <2>6. PendingOK' /\ TablesOK'
    BY <2>2, <2>5, GoOnKeepsPending, UnchangedOK DEF IInv
  <2>7. QED
    BY <2>3, <2>6 DEF IInv
<1>2. CASE ~Exists(c.group)
  BY <1>2, NothingWritten DEF memberLeavedGroupMessage
<1>3. QED
  BY <1>1, <1>2

(* The last statements on one group row.                                   *)
LEMMA GroupWritesKeep ==
  ASSUME IInv, NEW s \in Slots, pending[s] \in Request, NEW c \in Call,
         updateGroup(s, c) \/ pinUnpinGroup(s, c) \/ deleteGroup(s, c)
  PROVE  IInv'
<1> DEFINE named  == [db.groups[c.group] EXCEPT !.name = c.name]
           pinned == [db.groups[c.group] EXCEPT !.isPinned = c.pin]
<1>1. CASE updateGroup(s, c)
  <2>1. CASE Exists(c.group)
    <3>1. /\ Finish(s, [db EXCEPT !.groups[c.group].name = c.name])
          /\ UNCHANGED tables
      BY <1>1, <2>1 DEF updateGroup, Finish
    <3>2. c.name \in Names
      BY <1>1, CallKinds DEF updateGroup, Renames
    <3>3. named \in OrgGroup /\ named.orgId = db.groups[c.group].orgId
      BY <2>1, <3>2 DEF IInv, RowsOK, TypeOK, OrgGroup, Exists
    <3>4. db' = [db EXCEPT !.groups = [@ EXCEPT ![c.group] = named]]
      BY <2>1, <3>1 DEF Finish, Exists
    <3> HIDE DEF named
    <3>5. RowsOK'
      BY <2>1, <3>1, <3>3, <3>4, UpdateGroupOK DEF IInv
    <3>6. QED
      BY <3>1, <3>5, FinishKeeps
  <2>2. CASE ~Exists(c.group)
    BY <1>1, <2>2, NothingWritten DEF updateGroup
  <2>3. QED
    BY <2>1, <2>2
<1>2. CASE pinUnpinGroup(s, c)
  <2>1. CASE Exists(c.group)
    <3>1. /\ Finish(s, [db EXCEPT !.groups[c.group].isPinned = c.pin])
          /\ UNCHANGED tables
      BY <1>2, <2>1 DEF pinUnpinGroup, Finish
    <3>2. c.pin \in BOOLEAN
      BY <1>2, CallKinds DEF pinUnpinGroup, Pins
    <3>3. pinned \in OrgGroup /\ pinned.orgId = db.groups[c.group].orgId
      BY <2>1, <3>2 DEF IInv, RowsOK, TypeOK, OrgGroup, Exists
    <3>4. db' = [db EXCEPT !.groups = [@ EXCEPT ![c.group] = pinned]]
      BY <2>1, <3>1 DEF Finish, Exists
    <3> HIDE DEF pinned
    <3>5. RowsOK'
      BY <2>1, <3>1, <3>3, <3>4, UpdateGroupOK DEF IInv
    <3>6. QED
      BY <3>1, <3>5, FinishKeeps
  <2>2. CASE ~Exists(c.group)
    BY <1>2, <2>2, NothingWritten DEF pinUnpinGroup
  <2>3. QED
    BY <2>1, <2>2
<1>3. CASE deleteGroup(s, c)
  <2> DEFINE without == [db EXCEPT !.groups = WithoutRow(@, c.group),
                                   !.welcomed = @ \ {c.group},
                                   !.notices = {n \in @ : n[1] # c.group}]
  <2>1. CASE ~Held(c.group) /\ Finish(s, without)
    <3>1. UNCHANGED tables /\ db' = without
      BY <2>1 DEF Finish
    <3>2. RowsOK'
      BY <2>1, <3>1, WithoutGroupOK DEF IInv
    <3>3. QED
      BY <2>1, <3>2, FinishKeeps
  <2>2. CASE Finish(s, db)
    BY <2>2, NothingWritten
  <2>3. QED
    BY <1>3, <2>1, <2>2 DEF deleteGroup
<1>4. QED
  BY <1>1, <1>2, <1>3

(* A last statement on the rows that refer to groups.                      *)
LEMMA AttachKeeps ==
  ASSUME IInv, NEW s \in Slots, NEW d, Finish(s, d), DOMAIN d = Fields,
         NEW F \in SUBSET {"joined", "admins", "notices", "welcomed",
                           "requests"},
         \A f \in Fields \ F : d[f] = db[f],
         d.joined \union d.admins \union d.notices
           \subseteq (DOMAIN db.groups) \X Persons,
         d.welcomed \subseteq DOMAIN db.groups,
         d.requests \subseteq OrgConnecterRequest
  PROVE  IInv'
<1>1. UNCHANGED tables /\ db' = d
  BY DEF Finish
<1>2. RowsOK'
  BY <1>1, AttachedOK DEF IInv
<1>3. QED
  BY <1>2, FinishKeeps

LEMMA AttachedWritesKeep ==
  ASSUME IInv, NEW s \in Slots, pending[s] \in Request, NEW c \in Call,
         \/ createFirstTask(s, c) \/ addMultipleOrgGroupMembers(s, c)
         \/ addOrgMemberAdmin(s, c) \/ deleteMember(s, c)
         \/ removeMultipleGroupMembers(s, c) \/ EnterBoth(s, c)
         \/ RejectRequest(s, c) \/ RemoveRequest(s, c)
  PROVE  IInv'
<1>0. /\ DOMAIN db = Fields
      /\ db.joined \union db.admins \union db.notices
           \subseteq (DOMAIN db.groups) \X Persons
      /\ db.welcomed \subseteq DOMAIN db.groups
      /\ db.requests \subseteq OrgConnecterRequest
  BY AttachedNow DEF IInv
<1>a. SUFFICES ASSUME ~Finish(s, db)
               PROVE  IInv'
  BY NothingWritten
<1>1. CASE createFirstTask(s, c)
  <2> DEFINE d == [db EXCEPT !.welcomed = @ \union {c.group}]
  <2>1. Finish(s, d) /\ c.group \in DOMAIN db.groups
    BY <1>a, <1>1 DEF createFirstTask, Exists
  <2>2. /\ DOMAIN d = Fields
        /\ \A f \in Fields \ {"welcomed"} : d[f] = db[f]
        /\ d.welcomed = db.welcomed \union {c.group}
    BY <1>0 DEF Fields
  <2>3. /\ d.joined = db.joined /\ d.admins = db.admins
        /\ d.notices = db.notices /\ d.requests = db.requests
    BY <2>2 DEF Fields
  <2> HIDE DEF d
  <2>4. QED
    BY <1>0, <2>1, <2>2, <2>3, AttachKeeps
<1>2. CASE addMultipleOrgGroupMembers(s, c) \/ EnterBoth(s, c)
  BY <1>a, <1>2 DEF addMultipleOrgGroupMembers, EnterBoth
<1>3. CASE addOrgMemberAdmin(s, c)
  <2> DEFINE d == [db EXCEPT !.admins =
                     @ \union {<<c.group, c.person>>}]
  <2>1. Finish(s, d) /\ c.group \in DOMAIN db.groups
    BY <1>a, <1>3 DEF addOrgMemberAdmin, Exists
  <2>2. c.person \in Persons
    BY <1>3, CallKinds DEF addOrgMemberAdmin, OfMember
  <2>3. /\ DOMAIN d = Fields
        /\ \A f \in Fields \ {"admins"} : d[f] = db[f]
        /\ d.admins = db.admins \union {<<c.group, c.person>>}
    BY <1>0 DEF Fields
  <2>4. /\ d.joined = db.joined /\ d.welcomed = db.welcomed
        /\ d.notices = db.notices /\ d.requests = db.requests
    BY <2>3 DEF Fields
  <2> HIDE DEF d
  <2>5. <<c.group, c.person>> \in (DOMAIN db.groups) \X Persons
    BY <2>1, <2>2
  <2>6. d.joined \union d.admins \union d.notices
          \subseteq (DOMAIN db.groups) \X Persons
    BY <1>0, <2>3, <2>4, <2>5
  <2>7. QED
    BY <1>0, <2>1, <2>3, <2>4, <2>6, AttachKeeps
<1>4. CASE deleteMember(s, c) \/ removeMultipleGroupMembers(s, c)
  <2>1. PICK rows : Finish(s, [db EXCEPT !.joined = @ \ rows])
    BY <1>a, <1>4 DEF deleteMember, removeMultipleGroupMembers
  <2> DEFINE d == [db EXCEPT !.joined = @ \ rows]
  <2>2. /\ DOMAIN d = Fields
        /\ \A f \in Fields \ {"joined"} : d[f] = db[f]
        /\ d.joined = db.joined \ rows
    BY <1>0 DEF Fields
  <2>3. /\ d.admins = db.admins /\ d.welcomed = db.welcomed
        /\ d.notices = db.notices /\ d.requests = db.requests
    BY <2>2 DEF Fields
  <2>4. Finish(s, d)
    BY <2>1
  <2> HIDE DEF d
  <2>5. d.joined \union d.admins \union d.notices
          \subseteq (DOMAIN db.groups) \X Persons
    BY <1>0, <2>2, <2>3
  <2>6. /\ {"joined"} \subseteq {"joined", "admins", "notices",
                                 "welcomed", "requests"}
        /\ d.welcomed \subseteq DOMAIN db.groups
        /\ d.requests \subseteq OrgConnecterRequest
    BY <1>0, <2>3
  <2>7. QED
    BY <2>2, <2>4, <2>5, <2>6, AttachKeeps
<1>5. CASE RejectRequest(s, c) \/ RemoveRequest(s, c)
  <2>1. PICK requests \in SUBSET OrgConnecterRequest :
          Finish(s, [db EXCEPT !.requests = requests])
    <3>1. CASE RejectRequest(s, c)
      <4>1. /\ c.request \in db.requests
            /\ Finish(s, [db EXCEPT !.requests = (@ \ {c.request}) \union
                            {[c.request EXCEPT !.status = "Rejected"]}])
        BY <1>a, <3>1 DEF RejectRequest
      <4>2. [c.request EXCEPT !.status = "Rejected"]
              \in OrgConnecterRequest
        BY <1>0, <4>1 DEF OrgConnecterRequest, Statuses
      <4>3. QED
        BY <1>0, <4>1, <4>2
    <3>2. CASE RemoveRequest(s, c)
      BY <1>0, <3>2 DEF RemoveRequest
    <3>3. QED
      BY <1>5, <3>1, <3>2
  <2> DEFINE d == [db EXCEPT !.requests = requests]
  <2>2. /\ DOMAIN d = Fields
        /\ \A f \in Fields \ {"requests"} : d[f] = db[f]
        /\ d.requests = requests
    BY <1>0 DEF Fields
  <2>3. /\ d.admins = db.admins /\ d.welcomed = db.welcomed
        /\ d.notices = db.notices /\ d.joined = db.joined
    BY <2>2 DEF Fields
  <2>4. Finish(s, d)
    BY <2>1
  <2> HIDE DEF d
  <2>5. QED
    BY <1>0, <2>2, <2>3, <2>4, AttachKeeps
<1>6. QED
  BY <1>1, <1>2, <1>3, <1>4, <1>5

(* A vote comes with its poll, and when the user has none there.           *)
LEMMA VoteKeeps ==
  ASSUME IInv, NEW s \in Slots, pending[s] \in Request, NEW c \in Call,
         createVote(s, c)
  PROVE  IInv'
<1> DEFINE ballot == [ pollId |-> c.poll, userId |-> pending[s].by,
                       option |-> c.option ]
<1>1. CASE Votable(c.poll, pending[s].by)
  <2>1. Finish(s, [db EXCEPT !.votes = @ \union {ballot}])
    BY <1>1 DEF createVote
  <2>2. /\ ballot \in PollVote /\ ballot.pollId \in DOMAIN db.polls
        /\ \A v \in db.votes : ~( /\ v.pollId = ballot.pollId
                                  /\ v.userId = ballot.userId )
    BY <1>1, CallKinds
       DEF createVote, Ballots, PollVote, Request, Votable, isAlreadyVoted
  <2> HIDE DEF ballot
  <2> DEFINE votes == db.votes \union {ballot}
  <2>3. /\ votes \subseteq PollVote
        /\ \A v \in votes : v.pollId \in DOMAIN db.polls
        /\ \A v, w \in votes :
             v.pollId = w.pollId /\ v.userId = w.userId => v = w
    BY <2>2 DEF IInv, RowsOK, TypeOK, GroupReferences, OneVote
  <2>4. UNCHANGED tables /\ db' = [db EXCEPT !.votes = votes]
    BY <2>1 DEF Finish
  <2> HIDE DEF votes
  <2>5. RowsOK'
    BY <2>3, <2>4, VotesOK DEF IInv
  <2>6. QED
    BY <2>1, <2>5, FinishKeeps
<1>2. CASE ~Votable(c.poll, pending[s].by)
  BY <1>2, NothingWritten DEF createVote
<1>3. QED
  BY <1>1, <1>2

-----------------------------------------------------------------------------
(* The steps.                                                              *)

(* A request that proceeds is in flight.                                   *)
LEMMA ProceedsRequest ==
  ASSUME IInv, NEW s \in Slots, Proceed(s)
  PROVE  pending[s] \in Request /\ pending[s].call \in Call
<1>1. pending[s].call.do \notin {"idle", "stopped"}
  BY DEF Proceed, FindSame, addOrgGroup, createFirstTask, FindGroup,
         FindGroupToRename, FindName, updateGroup, pinUnpinGroup,
         deleteGroup, GuardGroup, FindOrgMember, FindNewcomers,
         addMultipleOrgGroupMembers, FindAdmin, addOrgMemberAdmin,
         FindMembership, FindUser, memberLeavedGroupMessage, deleteMember,
         CheckEach, FindGroupOf, CheckOwner, removeMultipleGroupMembers,
         ApproveRequest, EnterBoth, RejectRequest, RemoveRequest, createVote
<1>2. QED
  BY <1>1, BusyRequest DEF IInv

LEMMA ProceedKeeps ==
  ASSUME IInv, NEW s \in Slots, Proceed(s)
  PROVE  IInv'
<1>2. pending[s] \in Request /\ pending[s].call \in Call
  BY ProceedsRequest
<1>3. PICK c \in Call : c = pending[s].call
  BY <1>2
<1>4. \/ \/ FindSame(s, c) \/ FindGroup(s, c) \/ FindGroupToRename(s, c)
         \/ FindName(s, c) \/ FindOrgMember(s, c) \/ FindNewcomers(s, c)
         \/ FindAdmin(s, c) \/ FindMembership(s, c) \/ FindUser(s, c)
         \/ CheckEach(s, c) \/ FindGroupOf(s, c) \/ CheckOwner(s, c)
      \/ GuardGroup(s, c) \/ addOrgGroup(s, c) \/ ApproveRequest(s, c)
      \/ memberLeavedGroupMessage(s, c) \/ createVote(s, c)
      \/ updateGroup(s, c) \/ pinUnpinGroup(s, c) \/ deleteGroup(s, c)
      \/ \/ createFirstTask(s, c) \/ addMultipleOrgGroupMembers(s, c)
         \/ addOrgMemberAdmin(s, c) \/ deleteMember(s, c)
         \/ removeMultipleGroupMembers(s, c) \/ EnterBoth(s, c)
         \/ RejectRequest(s, c) \/ RemoveRequest(s, c)
  BY <1>3 DEF Proceed
<1>5. QED
  BY <1>2, <1>4, ReadsKeep, GuardKeeps, AddGroupKeeps, ApproveKeeps,
     NoticeKeeps, VoteKeeps, GroupWritesKeep, AttachedWritesKeep

(* What a request comes with is of its type.                               *)
LEMMA ArriveKeeps ==
  ASSUME IInv, NEW s \in Slots, NEW u \in Clients, Arrive(s, u)
  PROVE  IInv'
<1>1. u \in Persons /\ Owned(u) \in SUBSET OrgIds /\ Around \subseteq Persons
  BY GroupBoundsAssumption
     DEF Around, Owned, IInv, TablesOK, TablesTypeOK
<1>2. KnownGroups \subseteq GroupIds
  BY GroupBoundsAssumption
     DEF KnownGroups, GroupIds, IInv, RowsOK, Numbered
<1>3. ASSUME NEW n \in Names, NEW o \in OrgIds \union {Nobody},
             createOrgMember(s, u, o, n)
      PROVE  IInv'
  <2>1. [do |-> "findSame", org |-> o, name |-> n] \in Call
    BY DEF NewGroups, Call
  <2>2. QED
    BY <1>1, <1>3, <2>1, ArrivesKeeps DEF createOrgMember
<1>4. ASSUME NEW g \in GroupIds, NEW op, NEW then,
             then \in Renames \union Pins \union Drops,
             OrgGroupGuard(s, op, u, g, then)
      PROVE  IInv'
  <2>1. [ do |-> "findGroup", orgs |-> Owned(u), group |-> g,
          then |-> then ] \in GroupChecks
    BY <1>1, <1>4 DEF GroupChecks
  <2>2. [ do |-> "findGroup", orgs |-> Owned(u), group |-> g,
          then |-> then ] \in Call
    BY <2>1 DEF Call
  <2>3. QED
    BY <1>1, <1>4, <2>2, ArrivesKeeps DEF OrgGroupGuard
<1>5. ASSUME NEW g \in GroupIds,
             \/ \E n \in Names : updateOrgGroup(s, u, g, n)
             \/ \E pin \in BOOLEAN : pinUnpinOrgGroup(s, u, g, pin)
             \/ deleteOrgGroup(s, u, g)
      PROVE  IInv'
  <2>1. ASSUME NEW n \in Names, updateOrgGroup(s, u, g, n)
        PROVE  IInv'
    <3>1. [do |-> "findName", group |-> g, name |-> n, org |-> Nobody]
            \in Renames
      BY DEF Renames
    <3>2. QED
      BY <1>4, <2>1, <3>1 DEF updateOrgGroup
  <2>2. ASSUME NEW pin \in BOOLEAN, pinUnpinOrgGroup(s, u, g, pin)
        PROVE  IInv'
    <3>1. [do |-> "pin", group |-> g, pin |-> pin] \in Pins
      BY DEF Pins
    <3>2. QED
      BY <1>4, <2>2, <3>1 DEF pinUnpinOrgGroup
  <2>3. ASSUME deleteOrgGroup(s, u, g)
        PROVE  IInv'
    <3>1. [do |-> "deleteGroup", group |-> g] \in Drops
      BY DEF Drops
    <3>2. QED
      BY <1>4, <2>3, <3>1 DEF deleteOrgGroup
  <2>4. QED
    BY <1>5, <2>1, <2>2, <2>3
<1>6. ASSUME NEW g \in GroupIds, NEW op, NEW p \in Persons \union {Nobody},
             NEW then \in Guarded,
             GroupMembersGuard(s, op, u, g, p, then)
      PROVE  IInv'
  <2>1. [ do |-> "guardGroup", orgs |-> Owned(u), group |-> g,
          person |-> p, then |-> then ] \in MemberChecks
    BY <1>1 DEF MemberChecks
  <2>2. [ do |-> "guardGroup", orgs |-> Owned(u), group |-> g,
          person |-> p, then |-> then ] \in Call
    BY <2>1 DEF Call
  <2>3. QED
    BY <1>1, <1>6, <2>2, ArrivesKeeps DEF GroupMembersGuard
<1>7. ASSUME NEW g \in GroupIds, NEW people \in SUBSET Persons,
             \/ addOrgMemberToGroup(s, u, g, people)
             \/ removeMemberFromGroup(s, u, g, people)
      PROVE  IInv'
  <2>1. CASE addOrgMemberToGroup(s, u, g, people)
    <3>1. [do |-> "findNewcomers", group |-> g, people |-> people]
            \in Guarded
      BY DEF Guarded, Newcomers
    <3>2. QED
      BY <1>6, <2>1, <3>1 DEF addOrgMemberToGroup
  <2>2. CASE removeMemberFromGroup(s, u, g, people)
    <3>1. [ do |-> "checkEach", orgs |-> Owned(u), group |-> g,
            left |-> people \ {u}, valid |-> {} ] \in Evictions
      BY <1>1 DEF Evictions
    <3>2. [ do |-> "checkEach", orgs |-> Owned(u), group |-> g,
            left |-> people \ {u}, valid |-> {} ] \in Call
      BY <3>1 DEF Call
    <3>3. QED
      BY <1>1, <2>2, <3>2, ArrivesKeeps DEF removeMemberFromGroup
  <2>3. QED
    BY <1>7, <2>1, <2>2
<1>8. ASSUME NEW g \in GroupIds, NEW h \in GroupIds, NEW p \in Persons,
             NEW q \in Persons,
             \/ makeOrgMemberAdmin(s, u, g, p)
             \/ leaveOrgGroup(s, u, g, p, h)
             \/ removeGroupAdmin(s, u, g, p, h, q)
      PROVE  IInv'
  <2>1. CASE makeOrgMemberAdmin(s, u, g, p)
    <3>1. [do |-> "findAdmin", group |-> g, person |-> p,
           then |-> "addAdmin"] \in Guarded
      BY DEF Guarded, AdminChecks
    <3>2. QED
      BY <1>6, <2>1, <3>1 DEF makeOrgMemberAdmin
  <2>2. CASE leaveOrgGroup(s, u, g, p, h)
    <3>1. [do |-> "findMembership", group |-> h, person |-> u,
           role |-> "member"] \in Guarded
      BY <1>1 DEF Guarded, OfMember
    <3>2. QED
      BY <1>6, <2>2, <3>1 DEF leaveOrgGroup
  <2>3. CASE removeGroupAdmin(s, u, g, p, h, q)
    <3>1. [do |-> "findAdmin", group |-> h, person |-> q,
           then |-> "findUser"] \in Guarded
      BY DEF Guarded, AdminChecks
    <3>2. QED
      BY <1>6, <2>3, <3>1 DEF removeGroupAdmin
  <2>4. QED
    BY <1>8, <2>1, <2>2, <2>3
<1>9. ASSUME NEW r \in db.requests,
             \/ \E status \in {"Approved", "Rejected"} :
                  updateRequest(s, u, r, status)
             \/ removeRequest(s, u, r)
      PROVE  IInv'
  <2>1. r \in OrgConnecterRequest
    BY DEF IInv, RowsOK, TypeOK
  <2>2. ASSUME NEW status \in {"Approved", "Rejected"},
               updateRequest(s, u, r, status)
        PROVE  IInv'
    <3>1. [do |-> "decide", request |-> r, status |-> status] \in Call
      BY <2>1 DEF Decisions, Statuses, Call
    <3>2. QED
      BY <1>1, <2>2, <3>1, ArrivesKeeps DEF updateRequest
  <2>3. ASSUME removeRequest(s, u, r)
        PROVE  IInv'
    <3>1. [do |-> "remove", org |-> r.orgId] \in Call
      BY <2>1 DEF Withdrawals, OrgConnecterRequest, Call
    <3>2. QED
      BY <1>1, <2>3, <3>1, ArrivesKeeps DEF removeRequest
  <2>4. QED
    BY <1>9, <2>2, <2>3
<1>10. ASSUME NEW q \in PollIds, NEW option \in Options,
              vote(s, u, q, option)
       PROVE  IInv'
  <2>1. [do |-> "vote", poll |-> q, option |-> option] \in Call
    BY DEF Ballots, Call
  <2>2. QED
    BY <1>1, <1>10, <2>1, ArrivesKeeps DEF vote
<1>11. ASSUME NEW g \in KnownGroups,
              \/ \E n \in Names : updateOrgGroup(s, u, g, n)
              \/ \E pin \in BOOLEAN : pinUnpinOrgGroup(s, u, g, pin)
              \/ deleteOrgGroup(s, u, g)
              \/ \E people \in SUBSET Around \ {{}} :
                   \/ addOrgMemberToGroup(s, u, g, people)
                   \/ removeMemberFromGroup(s, u, g, people)
              \/ \E p \in Around :
                   \/ makeOrgMemberAdmin(s, u, g, p)
                   \/ \E h \in KnownGroups :
                        \/ leaveOrgGroup(s, u, g, p, h)
                        \/ \E q \in Around :
                             removeGroupAdmin(s, u, g, p, h, q)
       PROVE  IInv'
  <2>1. g \in GroupIds
    BY <1>2
  <2>2. CASE \E people \in SUBSET Around \ {{}} :
               \/ addOrgMemberToGroup(s, u, g, people)
               \/ removeMemberFromGroup(s, u, g, people)
    BY <1>1, <1>7, <2>1, <2>2
  <2>3. CASE \E p \in Around :
               \/ makeOrgMemberAdmin(s, u, g, p)
               \/ \E h \in KnownGroups :
                    \/ leaveOrgGroup(s, u, g, p, h)
                    \/ \E q \in Around : removeGroupAdmin(s, u, g, p, h, q)
    BY <1>1, <1>2, <1>8, <2>1, <2>3
  <2>4. QED
    BY <1>5, <1>11, <2>1, <2>2, <2>3
<1>12. QED
  BY <1>3, <1>9, <1>10, <1>11 DEF Arrive

(* What is no step of a request in flight.                                 *)
LEMMA AsideKeeps ==
  ASSUME IInv,
         \/ \E u \in Clients, o \in OrgIds : requestConnecter(u, o)
         \/ \E g \in KnownGroups : createPoll(g)
         \/ \E q \in DOMAIN db.polls : deletePoll(q)
         \/ \E v \in db.votes : retractVote(v)
         \/ \E o \in OrgIds : OrgDeleted(o)
         \/ \E o \in OrgIds, p \in Around : OrgMembersChange(o, p)
  PROVE  IInv'
<1>1. PendingOK'
  BY DEF Aside, requestConnecter, createPoll, deletePoll, retractVote,
         WritePolls, OrgDeleted, OrgMembersChange, IInv, PendingOK
<1>2. CASE \E u \in Clients, o \in OrgIds : requestConnecter(u, o)
  BY <1>1, <1>2, RowsUnchanged DEF requestConnecter, IInv
<1>3. CASE \/ \E g \in KnownGroups : createPoll(g)
           \/ \E q \in DOMAIN db.polls : deletePoll(q)
  BY <1>1, <1>3, CreatePollOK, DeletePollOK, UnchangedOK DEF IInv
<1>4. CASE \E v \in db.votes : retractVote(v)
  <2>1. PICK v : db' = [db EXCEPT !.votes = @ \ {v}] /\ UNCHANGED tables
    BY <1>4 DEF retractVote, WritePolls
  <2> DEFINE votes == db.votes \ {v}
  <2>2. /\ votes \subseteq PollVote
        /\ \A w \in votes : w.pollId \in DOMAIN db.polls
        /\ \A w, x \in votes :
             w.pollId = x.pollId /\ w.userId = x.userId => w = x
    BY DEF IInv, RowsOK, TypeOK, GroupReferences, OneVote
  <2>3. db' = [db EXCEPT !.votes = votes]
    BY <2>1
  <2> HIDE DEF votes
  <2>4. RowsOK'
    BY <2>1, <2>2, <2>3, VotesOK DEF IInv
  <2>5. QED
    BY <1>1, <2>1, <2>4, UnchangedOK DEF IInv
<1>5. CASE \E o \in OrgIds : OrgDeleted(o)
  BY <1>1, <1>5, OrgDeletedOK DEF IInv
<1>6. CASE \E o \in OrgIds, p \in Around : OrgMembersChange(o, p)
  <2>1. PICK o \in OrgIds, p \in Around : OrgMembersChange(o, p)
    BY <1>6
  <2>2. p \in Persons
    BY GroupBoundsAssumption DEF Around
  <2>3. TablesOK'
    <3>1. {Entry(p, "Member")} \in SUBSET MemberEntry
      BY <2>2 DEF Entry, MemberEntry, Roles
    <3>2. QED
      BY <2>1, <3>1, AddMemberOK, RemoveMembersOK
         DEF OrgMembersChange, IInv
  <2>4. UNCHANGED orgs /\ UNCHANGED db
    BY <2>1 DEF OrgMembersChange, addMember, removeMembers
  <2>5. RowsOK'
    BY <2>3, <2>4
       DEF IInv, RowsOK, TypeOK, TablesOK, Numbered, GroupReferences,
           OneVote, Exists, Live
  <2>6. QED
    BY <1>1, <2>3, <2>5 DEF IInv
<1>7. QED
  BY <1>2, <1>3, <1>4, <1>5, <1>6

(* A stop of the server leaves the tables alone.                           *)
LEMMA RestartKeeps ==
  ASSUME IInv, Restart
  PROVE  IInv'
<1>1. PendingOK'
  BY DEF Restart, StopAll, IInv, PendingOK
<1>2. QED
  BY <1>1, RowsUnchanged DEF Restart, IInv

(* The database a behaviour starts from.                                   *)
LEMMA InitKeeps ==
  ASSUME Init
  PROVE  IInv
<1>1. PendingOK
  BY DEF Init, NoRequests, PendingOK
<1>2. /\ OrgIds \subseteq Nat /\ MaxOrgs + 1 \in Nat /\ MaxOrgs + 1 >= 1
      /\ Founder \in Persons /\ Around \subseteq Persons
      /\ 1 \in GroupIds
  BY OrgBoundsAssumption, GroupBoundsAssumption
     DEF OrgIds, Around, GroupIds
<1>3. PICK people \in SUBSET Around :
        members = {MemberRow(o, Entry(p, "Member")) :
                     o \in OrgIds, p \in people}
  BY DEF Init, Colleagues
<1>4. members \subseteq OrgMember /\ Once
  BY <1>2, <1>3 DEF MemberRow, Entry, OrgMember, Roles, Once
<1>5. TablesOK
  <2>1. TablesTypeOK
    BY <1>2, <1>4 DEF Init, NoRows, TablesTypeOK
  <2>2. References
    BY <1>2, <1>3 DEF Init, NoRows, References, MemberRow, Entry, Live
  <2>3. QED
    BY <1>4, <2>1, <2>2 DEF TablesOK
<1>6. PICK o \in OrgIds \union {Nobody}, joined \in SUBSET ({1} \X Around),
           admins \in SUBSET ({1} \X Around), asking \in SUBSET Persons :
        db = InUse(o, joined, admins, asking)
  <2> DEFINE Heads(J) == SUBSET IF "evict" \in scope THEN {} ELSE J
             Asking == IF "connect" \in scope
                       THEN {Clients \ {Founder}, Persons \ {Founder}}
                       ELSE {{}}
  <2>1. \E o \in OrgIds \union {Nobody}, joined \in SUBSET ({1} \X Around) :
        \E admins \in Heads(joined), asking \in Asking :
          db = InUse(o, joined, admins, asking)
    BY DEF Init
  <2>2. PICK o \in OrgIds \union {Nobody}, joined \in SUBSET ({1} \X Around) :
          \E admins \in Heads(joined), asking \in Asking :
            db = InUse(o, joined, admins, asking)
    BY <2>1
  <2>3. PICK admins \in Heads(joined), asking \in Asking :
          db = InUse(o, joined, admins, asking)
    BY <2>2
  <2>4. admins \in SUBSET ({1} \X Around) /\ asking \in SUBSET Persons
    BY GroupBoundsAssumption
  <2>5. QED
    BY <2>3, <2>4
<1> DEFINE row == GroupRow(o, IF o = Nobody THEN Founder ELSE Nobody,
                           Nobody, FALSE)
<1>7. row \in OrgGroup /\ row.orgId = o
  BY <1>2 DEF GroupRow, OrgGroup
<1>8. /\ DOMAIN WithRow(NoRows, 1, row) = {1}
      /\ WithRow(NoRows, 1, row)[1] = row
  BY DEF WithRow, NoRows
<1> HIDE DEF row
<1>9. /\ DOMAIN db = Fields
      /\ DOMAIN db.groups = {1} /\ db.groups[1] = row
      /\ db.joined \union db.admins \union db.notices \subseteq {1} \X Persons
      /\ db.welcomed = {1} /\ db.connections = {} /\ db.votes = {}
      /\ DOMAIN db.polls = {} /\ db.pollId = 1
      /\ db.requests =
           {[orgId |-> i, connecterId |-> p, status |-> "Pending"] :
              i \in OrgIds, p \in asking}
  <2>1. /\ DOMAIN db = Fields
        /\ db.groups = WithRow(NoRows, 1, row)
        /\ db.joined = joined /\ db.admins = admins /\ db.notices = {}
        /\ db.welcomed = {1} /\ db.connections = {} /\ db.votes = {}
        /\ db.polls = NoRows /\ db.pollId = 1
        /\ db.requests =
             {[orgId |-> i, connecterId |-> p, status |-> "Pending"] :
                i \in OrgIds, p \in asking}
    BY <1>6 DEF InUse, row, Fields
  <2>2. joined \union admins \subseteq {1} \X Persons
    BY <1>2
  <2>3. QED
    BY <1>8, <2>1, <2>2 DEF NoRows
<1>10. db.groupId \in 2 .. (MaxGroups + 1)
  <2>1. db.groupId = IF "create" \in scope THEN MaxGroups ELSE 2
    BY <1>6 DEF InUse
  <2>2. QED
    BY <2>1, GroupBoundsAssumption
<1>11. TypeOK
  <2>1. db.requests \subseteq OrgConnecterRequest
    BY <1>9, GroupBoundsAssumption DEF OrgConnecterRequest, Statuses
  <2>2. db.joined \union db.admins \union db.notices
          \subseteq GroupIds \X Persons
    BY <1>2, <1>9
  <2>3. db.groupId \in Nat
    BY <1>10, GroupBoundsAssumption
  <2>4. QED
    BY <1>2, <1>5, <1>7, <1>9, <2>1, <2>2, <2>3 DEF TypeOK, TablesOK
<1>12. Numbered
  BY <1>9, <1>10, GroupBoundsAssumption DEF Numbered
<1>13. GroupReferences
  <2>1. \A r \in db.joined \union db.admins \union db.notices : r[1] = 1
    BY <1>9
  <2>2. row.orgId = Nobody \/ Live(row.orgId)
    BY <1>7 DEF Init, Live
  <2>3. QED
    BY <1>9, <2>1, <2>2 DEF GroupReferences, Exists
<1>14. OneVote
  BY <1>9 DEF OneVote
<1>15. QED
  BY <1>1, <1>5, <1>11, <1>12, <1>13, <1>14 DEF IInv, RowsOK

LEMMA NextKeeps ==
  ASSUME IInv, [Next]_vars
  PROVE  IInv'
<1>1. CASE UNCHANGED vars
  BY <1>1, RowsUnchanged DEF vars, IInv, PendingOK
<1>2. CASE Next
  BY <1>2, ProceedKeeps, ArriveKeeps, AsideKeeps, RestartKeeps DEF Next
<1>3. QED
  BY <1>1, <1>2

LEMMA Inductive == Spec => []IInv
<1>1. Init => IInv
  BY InitKeeps
<1>2. IInv /\ [Next]_vars => IInv'
  BY NextKeeps
<1>3. QED
  BY <1>1, <1>2, PTL DEF Spec

(* The rows have their types, whatever the orders of the requests.         *)
THEOREM GroupsTypeCorrect == Spec => []TypeOK
<1>1. IInv => TypeOK
  BY DEF IInv, RowsOK
<1>2. QED
  BY <1>1, Inductive, PTL

(* A group goes only when nothing holds it, and nothing is left pointing   *)
(* at a group, a poll or an org that is gone.                              *)
THEOREM GroupReferencesIntact == Spec => []GroupReferences
<1>1. IInv => GroupReferences
  BY DEF IInv, RowsOK
<1>2. QED
  BY <1>1, Inductive, PTL

(* Requests that both found no vote of the user leave one.                 *)
THEOREM VotesUnique == Spec => []OneVote
<1>1. IInv => OneVote
  BY DEF IInv, RowsOK
<1>2. QED
  BY <1>1, Inductive, PTL

-----------------------------------------------------------------------------
(* Who is in a group, who is said to have left it, and the groups of       *)
(* connectors: what the steps do to them.                                  *)

ConnectorGroups(o) == {g \in DOMAIN db.groups :
                         db.groups[g].orgId = o /\ db.groups[g].isConnector}

(* Nobody enters a group, is newly said to have left one or is connected,  *)
(* and no connector group comes.                                           *)
Quiet ==
  /\ db'.joined \subseteq db.joined
  /\ db'.notices \subseteq db.notices
  /\ db'.connections = db.connections
  /\ \A o \in OrgIds : ConnectorGroups(o)' \subseteq ConnectorGroups(o)

(* The request in slot s says that somebody has left, and takes him out    *)
(* next.                                                                   *)
Noticed(s) ==
  LET c == pending[s].call
  IN  /\ db'.joined = db.joined
      /\ db'.notices = db.notices \union {<<c.group, c.person>>}
      /\ db'.connections = db.connections
      /\ \A o \in OrgIds : ConnectorGroups(o)' \subseteq ConnectorGroups(o)
      /\ Doing(s, "deleteMember")'
      /\ pending'[s].call.group = c.group
      /\ pending'[s].call.person = c.person

(* An approval connects u and makes one group.                             *)
Connected(o, u) ==
  /\ db'.joined = db.joined
  /\ db'.notices = db.notices
  /\ <<o, u>> \notin db.connections
  /\ db'.connections = db.connections \union {<<o, u>>}
  /\ ConnectorGroups(o)' \subseteq ConnectorGroups(o) \union {db.groupId}
  /\ \A i \in OrgIds \ {o} :
       ConnectorGroups(i)' \subseteq ConnectorGroups(i)

(* Steps that leave the groups and the connections alone.                  *)
LEMMA SameGroupsQuiet ==
  ASSUME db'.groups = db.groups, db'.connections = db.connections,
         db'.joined \subseteq db.joined, db'.notices \subseteq db.notices
  PROVE  Quiet
BY DEF Quiet, ConnectorGroups

(* Steps that leave everything but the groups, the welcomed ones and some  *)
(* notices alone, and make no group a connector's.                         *)
LEMMA NoConnectorQuiet ==
  ASSUME db'.connections = db.connections, db'.joined = db.joined,
         db'.notices \subseteq db.notices,
         \A g \in DOMAIN db'.groups :
           db'.groups[g].isConnector /\ db'.groups[g].orgId # Nobody =>
             /\ g \in DOMAIN db.groups
             /\ db.groups[g].isConnector
             /\ db.groups[g].orgId = db'.groups[g].orgId
  PROVE  Quiet
BY GroupBoundsAssumption DEF Quiet, ConnectorGroups

LEMMA FinishAttachedQuiet ==
  ASSUME IInv, NEW s \in Slots, pending[s] \in Request, NEW c \in Call,
         \/ createFirstTask(s, c) \/ addMultipleOrgGroupMembers(s, c)
         \/ addOrgMemberAdmin(s, c) \/ deleteMember(s, c)
         \/ removeMultipleGroupMembers(s, c) \/ EnterBoth(s, c)
         \/ RejectRequest(s, c) \/ RemoveRequest(s, c) \/ createVote(s, c)
  PROVE  Quiet
<1>1. DOMAIN db = Fields
  BY DEF IInv, RowsOK, Numbered
<1>2. /\ db'.groups = db.groups /\ db'.connections = db.connections
      /\ db'.joined \subseteq db.joined /\ db'.notices = db.notices
  <2>1. CASE createFirstTask(s, c)
    BY <1>1, <2>1 DEF createFirstTask, Finish, Fields
  <2>2. CASE addMultipleOrgGroupMembers(s, c) \/ EnterBoth(s, c)
    BY <2>2 DEF addMultipleOrgGroupMembers, EnterBoth, Finish
  <2>3. CASE addOrgMemberAdmin(s, c)
    BY <1>1, <2>3 DEF addOrgMemberAdmin, Finish, Fields
  <2>4. CASE deleteMember(s, c)
    BY <1>1, <2>4 DEF deleteMember, Finish, Fields
  <2>5. CASE removeMultipleGroupMembers(s, c)
    BY <1>1, <2>5 DEF removeMultipleGroupMembers, Finish, Fields
  <2>6. CASE RejectRequest(s, c)
    BY <1>1, <2>6 DEF RejectRequest, Finish, Fields
  <2>7. CASE RemoveRequest(s, c)
    BY <1>1, <2>7 DEF RemoveRequest, Finish, Fields
  <2>8. CASE createVote(s, c)
    BY <1>1, <2>8 DEF createVote, Finish, Fields
  <2>9. QED
    BY <2>1, <2>2, <2>3, <2>4, <2>5, <2>6, <2>7, <2>8
<1>3. QED
  BY <1>2, SameGroupsQuiet

LEMMA FinishGroupQuiet ==
  ASSUME IInv, NEW s \in Slots, pending[s] \in Request, NEW c \in Call,
         \/ updateGroup(s, c) \/ pinUnpinGroup(s, c) \/ deleteGroup(s, c)
         \/ addOrgGroup(s, c)
  PROVE  Quiet
<1>1. /\ DOMAIN db = Fields
      /\ \A g \in DOMAIN db.groups : db.groups[g] \in OrgGroup
  BY DEF IInv, RowsOK, TypeOK, Numbered
<1>a. CASE db' = db
  BY <1>a, SameGroupsQuiet
<1>2. ASSUME NEW g \in DOMAIN db.groups, NEW x,
             \/ db' = [db EXCEPT !.groups[g].name = x]
             \/ db' = [db EXCEPT !.groups[g].isPinned = x]
      PROVE  Quiet
  <2>1. /\ db'.connections = db.connections
        /\ db'.joined = db.joined /\ db'.notices = db.notices
        /\ \/ db'.groups = [db.groups EXCEPT ![g].name = x]
           \/ db'.groups = [db.groups EXCEPT ![g].isPinned = x]
    BY <1>1, <1>2 DEF Fields
  <2>2. /\ DOMAIN db'.groups = DOMAIN db.groups
        /\ \A h \in DOMAIN db.groups :
             /\ db'.groups[h].isConnector = db.groups[h].isConnector
             /\ db'.groups[h].orgId = db.groups[h].orgId
    BY <1>1, <2>1 DEF OrgGroup
  <2>3. QED
    BY <2>1, <2>2, NoConnectorQuiet
<1>3. CASE updateGroup(s, c)
  <2>1. CASE Exists(c.group)
    <3>1. db' = [db EXCEPT !.groups[c.group].name = c.name]
      BY <1>3, <2>1 DEF updateGroup, Finish
    <3>2. QED
      BY <1>2, <2>1, <3>1 DEF Exists
  <2>2. QED
    BY <1>a, <1>3, <2>1 DEF updateGroup, Finish
<1>4. CASE pinUnpinGroup(s, c)
  <2>1. CASE Exists(c.group)
    <3>1. db' = [db EXCEPT !.groups[c.group].isPinned = c.pin]
      BY <1>4, <2>1 DEF pinUnpinGroup, Finish
    <3>2. QED
      BY <1>2, <2>1, <3>1 DEF Exists
  <2>2. QED
    BY <1>a, <1>4, <2>1 DEF pinUnpinGroup, Finish
<1>5. CASE deleteGroup(s, c)
  <2>1. CASE db' = [db EXCEPT !.groups = WithoutRow(@, c.group),
                              !.welcomed = @ \ {c.group},
                              !.notices = {n \in @ : n[1] # c.group}]
    <3>1. /\ db'.connections = db.connections
          /\ db'.joined = db.joined
          /\ db'.notices = {n \in db.notices : n[1] # c.group}
          /\ db'.groups = WithoutRow(db.groups, c.group)
      BY <1>1, <2>1 DEF Fields
    <3>2. db'.groups = [h \in (DOMAIN db.groups) \ {c.group} |->
                          db.groups[h]]
      BY <3>1 DEF WithoutRow
    <3>3. QED
      BY <3>1, <3>2, NoConnectorQuiet
  <2>2. QED
    BY <1>a, <1>5, <2>1 DEF deleteGroup, Finish
<1>6. CASE addOrgGroup(s, c)
  <2>1. CASE \E creator :
               db' = WithGroup(db, GroupRow(c.org, creator, c.name, FALSE))
    <3>1. PICK creator :
            db' = WithGroup(db, GroupRow(c.org, creator, c.name, FALSE))
      BY <2>1
    <3> DEFINE row == GroupRow(c.org, creator, c.name, FALSE)
    <3>2. row.isConnector = FALSE
      BY DEF GroupRow
    <3> HIDE DEF row
    <3>3. /\ db'.connections = db.connections
          /\ db'.joined = db.joined /\ db'.notices = db.notices
          /\ db'.groups = WithRow(db.groups, db.groupId, row)
      BY <1>1, <3>1 DEF Fields, WithGroup, row
    <3>4. db'.groups = [h \in (DOMAIN db.groups) \union {db.groupId} |->
                          IF h = db.groupId THEN row ELSE db.groups[h]]
      BY <3>3 DEF WithRow
    <3>5. QED
      BY <3>2, <3>3, <3>4, NoConnectorQuiet
  <2>2. QED
    BY <1>a, <1>6, <2>1 DEF addOrgGroup, Finish
<1>7. QED
  BY <1>3, <1>4, <1>5, <1>6

(* Steps that write nothing.                                               *)
LEMMA SameDbQuiet ==
  ASSUME db' = db
  PROVE  Quiet
BY SameGroupsQuiet

LEMMA RestartQuiet ==
  ASSUME Restart
  PROVE  Quiet
BY SameDbQuiet DEF Restart

LEMMA NoticeEffect ==
  ASSUME IInv, NEW s \in Slots, pending[s] \in Request, NEW c \in Call,
         c = pending[s].call, memberLeavedGroupMessage(s, c)
  PROVE  Quiet \/ Noticed(s)
<1>1. CASE Exists(c.group)
  <2>1. /\ db' = [db EXCEPT !.notices = @ \union {<<c.group, c.person>>}]
        /\ GoOn(s, [c EXCEPT !.do = "deleteMember"])
    BY <1>1 DEF memberLeavedGroupMessage
  <2>2. /\ db'.groups = db.groups /\ db'.connections = db.connections
        /\ db'.joined = db.joined
        /\ db'.notices = db.notices \union {<<c.group, c.person>>}
    BY <2>1 DEF IInv, RowsOK, Numbered, Fields
  <2>3. \A o \in OrgIds : ConnectorGroups(o)' \subseteq ConnectorGroups(o)
    BY <2>2 DEF ConnectorGroups
  <2>4. c \in OfMember
    BY CallKinds DEF memberLeavedGroupMessage
  <2>5. pending'[s].call = [c EXCEPT !.do = "deleteMember"]
    BY <2>1 DEF GoOn, IInv, PendingOK, Request
  <2>6. /\ pending'[s].call.do = "deleteMember"
        /\ pending'[s].call.group = c.group
        /\ pending'[s].call.person = c.person
    BY <2>4, <2>5 DEF OfMember
  <2>7. QED
    BY <2>2, <2>3, <2>6 DEF Noticed, Doing
<1>2. CASE ~Exists(c.group)
  BY <1>2, SameDbQuiet DEF memberLeavedGroupMessage, Finish
<1>3. QED
  BY <1>1, <1>2

LEMMA ApproveEffect ==
  ASSUME IInv, NEW s \in Slots, pending[s] \in Request, NEW c \in Call,
         ApproveRequest(s, c)
  PROVE  Quiet \/ \E o \in OrgIds, u \in Persons : Connected(o, u)
<1> DEFINE o == c.request.orgId
           u == pending[s].by
           row == GroupRow(o, Nobody, Nobody, TRUE)
<1>1. CASE Connectable(o, u)
  <2>1. o \in OrgIds /\ u \in Persons
    BY CallKinds
       DEF ApproveRequest, Decisions, OrgConnecterRequest, Request
  <2>2. db' = [WithGroup(db, row) EXCEPT
                 !.connections = @ \union {<<o, u>>}]
    BY <1>1 DEF ApproveRequest
  <2>3. row.orgId = o
    BY DEF GroupRow
  <2> HIDE DEF row, o, u
  <2>4. /\ db'.groups = WithRow(db.groups, db.groupId, row)
        /\ db'.connections = db.connections \union {<<o, u>>}
        /\ db'.joined = db.joined /\ db'.notices = db.notices
    BY <2>2 DEF WithGroup, IInv, RowsOK, Numbered, Fields
  <2>5. db'.groups = [h \in (DOMAIN db.groups) \union {db.groupId} |->
                        IF h = db.groupId THEN row ELSE db.groups[h]]
    BY <2>4 DEF WithRow
  <2>6. ConnectorGroups(o)' \subseteq ConnectorGroups(o) \union {db.groupId}
    BY <2>5 DEF ConnectorGroups
  <2>7. \A i \in OrgIds \ {o} :
          ConnectorGroups(i)' \subseteq ConnectorGroups(i)
    BY <2>3, <2>5 DEF ConnectorGroups
  <2>8. QED
    BY <1>1, <2>1, <2>4, <2>6, <2>7 DEF Connected, Connectable
<1>2. CASE ~Connectable(o, u)
  BY <1>2, SameDbQuiet DEF ApproveRequest, Finish
<1>3. QED
  BY <1>1, <1>2

LEMMA ProceedEffect ==
  ASSUME IInv, NEW s \in Slots, Proceed(s)
  PROVE  \/ Quiet
         \/ Doing(s, "notice") /\ Noticed(s)
         \/ \E o \in OrgIds, u \in Persons : Connected(o, u)
<1>1. pending[s] \in Request /\ pending[s].call \in Call
  BY ProceedsRequest
<1>2. PICK c \in Call : c = pending[s].call
  BY <1>1
<1>3. \/ \/ FindSame(s, c) \/ FindGroup(s, c) \/ FindGroupToRename(s, c)
         \/ FindName(s, c) \/ FindOrgMember(s, c) \/ FindNewcomers(s, c)
         \/ FindAdmin(s, c) \/ FindMembership(s, c) \/ FindUser(s, c)
         \/ CheckEach(s, c) \/ FindGroupOf(s, c) \/ CheckOwner(s, c)
         \/ GuardGroup(s, c)
      \/ memberLeavedGroupMessage(s, c) \/ ApproveRequest(s, c)
      \/ \/ updateGroup(s, c) \/ pinUnpinGroup(s, c) \/ deleteGroup(s, c)
         \/ addOrgGroup(s, c)
      \/ \/ createFirstTask(s, c) \/ addMultipleOrgGroupMembers(s, c)
         \/ addOrgMemberAdmin(s, c) \/ deleteMember(s, c)
         \/ removeMultipleGroupMembers(s, c) \/ EnterBoth(s, c)
         \/ RejectRequest(s, c) \/ RemoveRequest(s, c) \/ createVote(s, c)
  BY <1>2 DEF Proceed
<1>4. CASE \/ FindSame(s, c) \/ FindGroup(s, c) \/ FindGroupToRename(s, c)
           \/ FindName(s, c) \/ FindOrgMember(s, c) \/ FindNewcomers(s, c)
           \/ FindAdmin(s, c) \/ FindMembership(s, c) \/ FindUser(s, c)
           \/ CheckEach(s, c) \/ FindGroupOf(s, c) \/ CheckOwner(s, c)
           \/ GuardGroup(s, c)
  <2>1. db' = db
    BY <1>4
       DEF FindSame, FindGroup, FindGroupToRename, FindName, FindOrgMember,
           FindNewcomers, FindAdmin, FindMembership, FindUser, CheckEach,
           FindGroupOf, CheckOwner, GuardGroup, Check, Finish
  <2>2. QED
    BY <2>1, SameDbQuiet
<1>5. CASE memberLeavedGroupMessage(s, c)
  BY <1>1, <1>2, <1>5, NoticeEffect DEF Doing, memberLeavedGroupMessage
<1>6. QED
  BY <1>1, <1>3, <1>4, <1>5, ApproveEffect, FinishGroupQuiet,
     FinishAttachedQuiet

(* What is no step of a request leaves the requests in flight alone.       *)
LEMMA AsideEffect ==
  ASSUME IInv,
         \/ \E u \in Clients, o \in OrgIds : requestConnecter(u, o)
         \/ \E g \in KnownGroups : createPoll(g)
         \/ \E q \in DOMAIN db.polls : deletePoll(q)
         \/ \E v \in db.votes : retractVote(v)
         \/ \E o \in OrgIds : OrgDeleted(o)
         \/ \E o \in OrgIds, p \in Around : OrgMembersChange(o, p)
  PROVE  Quiet /\ pending' = pending
<1>1. pending' = pending
  BY DEF Aside, requestConnecter, createPoll, deletePoll, retractVote,
         WritePolls, OrgDeleted, OrgMembersChange
<1>2. DOMAIN db = Fields
  BY DEF IInv, RowsOK, Numbered
<1>3. CASE \/ \E u \in Clients, o \in OrgIds : requestConnecter(u, o)
           \/ \E o \in OrgIds, p \in Around : OrgMembersChange(o, p)
  BY <1>1, <1>3, SameDbQuiet DEF requestConnecter, OrgMembersChange
<1>4. CASE \/ \E g \in KnownGroups : createPoll(g)
           \/ \E q \in DOMAIN db.polls : deletePoll(q)
           \/ \E v \in db.votes : retractVote(v)
  <2>1. /\ db'.groups = db.groups /\ db'.connections = db.connections
        /\ db'.joined = db.joined /\ db'.notices = db.notices
    <3>1. CASE \E g \in KnownGroups : createPoll(g)
      BY <1>2, <3>1 DEF createPoll, WritePolls, Fields
    <3>2. CASE \E q \in DOMAIN db.polls : deletePoll(q)
      BY <1>2, <3>2 DEF deletePoll, WritePolls, Fields
    <3>3. CASE \E v \in db.votes : retractVote(v)
      BY <1>2, <3>3 DEF retractVote, WritePolls, Fields
    <3>4. QED
      BY <1>4, <3>1, <3>2, <3>3
  <2>2. QED
    BY <1>1, <2>1, SameGroupsQuiet
<1>5. CASE \E o \in OrgIds : OrgDeleted(o)
  <2>1. PICK o \in OrgIds : OrgDeleted(o)
    BY <1>5
  <2> DEFINE row(g) == IF db.groups[g].orgId = o
                       THEN [db.groups[g] EXCEPT !.orgId = Nobody]
                       ELSE db.groups[g]
  <2>2. /\ db'.connections = db.connections
        /\ db'.joined = db.joined /\ db'.notices = db.notices
        /\ db'.groups = [g \in DOMAIN db.groups |-> row(g)]
    BY <1>2, <2>1 DEF OrgDeleted, Fields
  <2>3. \A g \in DOMAIN db.groups :
          /\ row(g).isConnector = db.groups[g].isConnector
          /\ row(g).orgId \in {Nobody, db.groups[g].orgId}
    BY DEF IInv, RowsOK, TypeOK, OrgGroup
  <2> HIDE DEF row
  <2>4. QED
    BY <1>1, <2>2, <2>3, NoConnectorQuiet
<1>6. QED
  BY <1>3, <1>4, <1>5

(* A step of the request in one slot leaves the other slots alone.         *)
LEMMA OneSlot ==
  ASSUME IInv, NEW s \in Slots,
         Proceed(s) \/ \E u \in Clients : Arrive(s, u)
  PROVE  \A t \in Slots \ {s} : pending'[t] = pending[t]
<1>1. CASE Proceed(s)
  <2>1. PICK c : c = pending[s].call
    OBVIOUS
  <2>2. End(s) \/ \E d : GoOn(s, d)
    <3>1. CASE \/ FindSame(s, c) \/ FindGroup(s, c)
               \/ FindGroupToRename(s, c) \/ FindName(s, c)
               \/ FindOrgMember(s, c) \/ FindNewcomers(s, c)
               \/ FindAdmin(s, c) \/ FindMembership(s, c)
               \/ FindUser(s, c) \/ CheckEach(s, c) \/ FindGroupOf(s, c)
               \/ CheckOwner(s, c) \/ GuardGroup(s, c)
      <4>1. (\E ok, d : Check(s, ok, d)) \/ Finish(s, db)
        BY <3>1
           DEF FindSame, FindGroup, FindGroupToRename, FindName,
               FindOrgMember, FindNewcomers, FindAdmin, FindMembership,
               FindUser, CheckEach, FindGroupOf, CheckOwner, GuardGroup
      <4>2. QED
        BY <4>1 DEF Check, GoOnIf, Finish
    <3>2. CASE \/ addOrgGroup(s, c) \/ memberLeavedGroupMessage(s, c)
               \/ ApproveRequest(s, c)
      <4>1. CASE addOrgGroup(s, c)
        BY <4>1 DEF addOrgGroup, Finish
      <4>2. CASE memberLeavedGroupMessage(s, c)
        BY <4>2 DEF memberLeavedGroupMessage, Finish
      <4>3. CASE ApproveRequest(s, c)
        BY <4>3 DEF ApproveRequest, Finish
      <4>4. QED
        BY <3>2, <4>1, <4>2, <4>3
    <3>3. CASE \/ createFirstTask(s, c) \/ updateGroup(s, c)
               \/ pinUnpinGroup(s, c) \/ deleteGroup(s, c)
               \/ addMultipleOrgGroupMembers(s, c)
               \/ addOrgMemberAdmin(s, c) \/ deleteMember(s, c)
               \/ removeMultipleGroupMembers(s, c) \/ EnterBoth(s, c)
               \/ RejectRequest(s, c) \/ RemoveRequest(s, c)
               \/ createVote(s, c)
      BY <3>3
         DEF createFirstTask, updateGroup, pinUnpinGroup, deleteGroup,
             addMultipleOrgGroupMembers, addOrgMemberAdmin, deleteMember,
             removeMultipleGroupMembers, EnterBoth, RejectRequest,
             RemoveRequest, createVote, Finish
    <3>4. QED
      BY <1>1, <2>1, <3>1, <3>2, <3>3 DEF Proceed
  <2>3. QED
    BY <2>2 DEF End, GoOn, IInv, PendingOK
<1>2. CASE \E u \in Clients : Arrive(s, u)
  <2>1. PICK u \in Clients : Arrive(s, u)
    BY <1>2
  <2>2. \E c : Enter(s, u, c)
    BY <2>1
       DEF Arrive, createOrgMember, updateOrgGroup, pinUnpinOrgGroup,
           deleteOrgGroup, addOrgMemberToGroup, removeMemberFromGroup,
           makeOrgMemberAdmin, leaveOrgGroup, removeGroupAdmin,
           updateRequest, removeRequest, vote, OrgGroupGuard,
           GroupMembersGuard, Arrives
  <2>3. QED
    BY <2>2 DEF Enter, IInv, PendingOK
<1>3. QED
  BY <1>1, <1>2

(* A request arrives in a slot that is free, and writes nothing.           *)
LEMMA ArriveEffect ==
  ASSUME NEW s \in Slots, NEW u \in Clients, Arrive(s, u)
  PROVE  Quiet /\ ~InFlight(s)
<1>1. db' = db /\ ~InFlight(s)
  BY DEF Arrive, createOrgMember, updateOrgGroup, pinUnpinOrgGroup,
         deleteOrgGroup, addOrgMemberToGroup, removeMemberFromGroup,
         makeOrgMemberAdmin, leaveOrgGroup, removeGroupAdmin,
         updateRequest, removeRequest, vote, OrgGroupGuard,
         GroupMembersGuard, Arrives, Enter
<1>2. QED
  BY <1>1, SameDbQuiet

-----------------------------------------------------------------------------
(* Who left.                                                               *)

(* The request in slot s that is about to take somebody out still is,      *)
(* unless it did.                                                          *)
LEMMA StillLeaving ==
  ASSUME IInv, [Next]_vars, NEW s \in Slots, Doing(s, "deleteMember")
  PROVE  \/ pending'[s] = pending[s]
         \/ <<pending[s].call.group, pending[s].call.person>>
              \notin db'.joined
         \/ pending'[s] = Stopped
<1>1. InFlight(s)
  BY DEF InFlight, Idle, Stopped, Doing
<1>2. CASE Proceed(s)
  <2>1. deleteMember(s, pending[s].call)
    BY <1>2
       DEF Doing, Proceed, FindSame, addOrgGroup, createFirstTask, FindGroup,
           FindGroupToRename, FindName, updateGroup, pinUnpinGroup,
           deleteGroup, GuardGroup, FindOrgMember, FindNewcomers,
           addMultipleOrgGroupMembers, FindAdmin, addOrgMemberAdmin,
           FindMembership, FindUser, memberLeavedGroupMessage, CheckEach,
           FindGroupOf, CheckOwner, removeMultipleGroupMembers,
           ApproveRequest, EnterBoth, RejectRequest, RemoveRequest,
           createVote
  <2>2. PICK n : n = <<pending[s].call.group, pending[s].call.person>>
    OBVIOUS
  <2>3. db' = [db EXCEPT !.joined = @ \ {n}]
    BY <2>1, <2>2 DEF deleteMember, Finish
  <2>4. n \notin db'.joined
    BY <2>3 DEF IInv, RowsOK, Numbered, Fields
  <2>5. QED
    BY <2>2, <2>4
<1>3. CASE \E t \in Slots \ {s} :
             Proceed(t) \/ \E u \in Clients : Arrive(t, u)
  BY <1>3, OneSlot
<1>4. CASE \E u \in Clients : Arrive(s, u)
  BY <1>1, <1>4, ArriveEffect
<1>5. CASE UNCHANGED vars
  BY <1>5 DEF vars
<1>6. CASE Restart
  BY <1>1, <1>6 DEF Restart, StopAll
<1>7. QED
  BY <1>2, <1>3, <1>4, <1>5, <1>6, AsideEffect DEF Next

LEMMA LeaversKept ==
  ASSUME IInv, [Next]_vars, NEW n \in Unfinished' \ Unfinished
  PROVE  \E s \in Slots : Leaves(s, n) /\ pending'[s] = Stopped
<1>1. /\ n \in db'.notices \intersect db'.joined
      /\ \A s \in Slots : ~Leaves(s, n)'
  BY DEF Unfinished
<1>2. CASE n \in db.notices \intersect db.joined
  <2>1. PICK s \in Slots : Leaves(s, n)
    BY <1>2 DEF Unfinished
  <2>2. pending'[s] # pending[s]
    BY <1>1, <2>1 DEF Leaves
  <2>3. Doing(s, "deleteMember")
        /\ <<pending[s].call.group, pending[s].call.person>> = n
    BY <2>1 DEF Leaves, Doing
  <2>4. pending'[s] = Stopped
    BY <1>1, <2>2, <2>3, StillLeaving
  <2>5. QED
    BY <2>1, <2>4
<1>3. CASE n \notin db.notices \intersect db.joined
  <2>1. ASSUME Quiet
        PROVE  FALSE
    BY <1>1, <1>3, <2>1 DEF Quiet
  <2>2. CASE \E s \in Slots : Proceed(s)
    <3>1. PICK s \in Slots : Proceed(s)
      BY <2>2
    <3>2. ASSUME NEW o, NEW u, Connected(o, u)
          PROVE  FALSE
      BY <1>1, <1>3, <3>2 DEF Connected
    <3>3. Noticed(s)
      BY <2>1, <3>1, <3>2, ProceedEffect
    <3>4. n = <<pending[s].call.group, pending[s].call.person>>
      BY <1>1, <1>3, <3>3 DEF Noticed
    <3>5. Leaves(s, n)'
      BY <3>3, <3>4 DEF Noticed, Leaves, Doing
    <3>6. QED
      BY <1>1, <3>5
  <2>3. CASE UNCHANGED vars
    BY <2>1, <2>3, SameDbQuiet DEF vars
  <2>4. QED
    BY <2>1, <2>2, <2>3, ArriveEffect, AsideEffect, RestartQuiet DEF Next
<1>4. QED
  BY <1>2, <1>3

(* Who is said to have left a group is out of it, or a request is about to *)
(* take him out, or the server stopped before such a request did.          *)
THEOREM LeaversGone == Spec => LeaversAreOut
<1>1. IInv /\ [Next]_vars
        => [ \A n \in Unfinished' \ Unfinished :
               \E s \in Slots : Leaves(s, n) /\ pending'[s] = Stopped ]_vars
  BY LeaversKept
<1>2. QED
  BY <1>1, Inductive, PTL DEF Spec, LeaversAreOut

-----------------------------------------------------------------------------
(* Those who are taken out together.                                       *)

(* One transaction takes out all those a request found, or nobody.         *)
THEOREM EvictionsWhole == Spec => EvictedTogether
<1> DEFINE Body ==
      \A s \in Slots :
        LET c == pending[s].call
        IN  Doing(s, "evict") /\ pending'[s] = Idle =>
              \/ db'.joined = db.joined
              \/ {c.group} \X c.people \subseteq db.joined \ db'.joined
<1>1. IInv /\ [Next]_vars => [Body]_vars
  <2> SUFFICES ASSUME IInv, [Next]_vars, NEW s \in Slots,
                      Doing(s, "evict"), pending'[s] = Idle
               PROVE  \/ db'.joined = db.joined
                      \/ {pending[s].call.group} \X pending[s].call.people
                           \subseteq db.joined \ db'.joined
    OBVIOUS
  <2>1. InFlight(s) /\ pending'[s] # pending[s]
    BY DEF InFlight, Idle, Stopped, Doing
  <2>2. CASE Proceed(s)
    <3>1. removeMultipleGroupMembers(s, pending[s].call)
      BY <2>2
         DEF Doing, Proceed, FindSame, addOrgGroup, createFirstTask,
             FindGroup, FindGroupToRename, FindName, updateGroup,
             pinUnpinGroup, deleteGroup, GuardGroup, FindOrgMember,
             FindNewcomers, addMultipleOrgGroupMembers, FindAdmin,
             addOrgMemberAdmin, FindMembership, FindUser,
             memberLeavedGroupMessage, deleteMember, CheckEach,
             FindGroupOf, CheckOwner, ApproveRequest, EnterBoth,
             RejectRequest, RemoveRequest, createVote
    <3>2. PICK rows :
            rows = {pending[s].call.group} \X pending[s].call.people
      OBVIOUS
    <3>3. db' = IF rows \subseteq db.joined
                THEN [db EXCEPT !.joined = @ \ rows] ELSE db
      BY <3>1, <3>2 DEF removeMultipleGroupMembers, Finish
    <3>4. db'.joined = db.joined \/ rows \subseteq db.joined \ db'.joined
      BY <3>3 DEF IInv, RowsOK, Numbered, Fields
    <3>5. QED
      BY <3>2, <3>4
  <2>3. CASE \E t \in Slots \ {s} :
               Proceed(t) \/ \E u \in Clients : Arrive(t, u)
    BY <2>1, <2>3, OneSlot
  <2>4. CASE \E u \in Clients : Arrive(s, u)
    BY <2>1, <2>4, ArriveEffect
  <2>5. CASE UNCHANGED vars
    BY <2>1, <2>5 DEF vars
  <2>6. CASE Restart
    BY <2>1, <2>6 DEF Restart, StopAll, Idle, Stopped
  <2>7. QED
    BY <2>1, <2>2, <2>3, <2>4, <2>5, <2>6, AsideEffect DEF Next
<1>2. QED
  BY <1>1, Inductive, PTL DEF Spec, EvictedTogether

-----------------------------------------------------------------------------
(* Connections and their groups.                                           *)

Connections(o) == {r \in db.connections : r[1] = o}

(* There are finitely many connections and groups.                         *)
LEMMA Countable ==
  ASSUME NEW S, S \subseteq OrgIds \X Persons \/ S \subseteq GroupIds
  PROVE  IsFiniteSet(S) /\ Cardinality(S) \in Nat
<1>1. IsFiniteSet(OrgIds \X Persons)
  <2>1. IsFiniteSet(OrgIds)
    BY FS_Interval, OrgBoundsAssumption DEF OrgIds
  <2>2. QED
    BY <2>1, FS_Product, OrgBoundsAssumption
<1>2. IsFiniteSet(GroupIds)
  BY FS_Interval, GroupBoundsAssumption DEF GroupIds
<1>3. IsFiniteSet(S)
  BY <1>1, <1>2, FS_Subset
<1>4. QED
  BY <1>3, FS_CardinalityType

LEMMA ConnectionsFinite ==
  ASSUME TypeOK, NEW o
  PROVE  /\ IsFiniteSet(Connections(o))
         /\ IsFiniteSet(ConnectorGroups(o))
         /\ Cardinality(Connections(o)) \in Nat
         /\ Cardinality(ConnectorGroups(o)) \in Nat
<1>1. /\ Connections(o) \subseteq OrgIds \X Persons
      /\ ConnectorGroups(o) \subseteq GroupIds
  BY DEF Connections, ConnectorGroups, TypeOK
<1>2. QED
  BY <1>1, Countable

LEMMA ConnectionsFiniteNext ==
  ASSUME TypeOK', NEW o
  PROVE  /\ Cardinality(Connections(o)') \in Nat
         /\ Cardinality(ConnectorGroups(o)') \in Nat
<1>1. /\ Connections(o)' \subseteq OrgIds \X Persons
      /\ ConnectorGroups(o)' \subseteq GroupIds
  BY DEF Connections, ConnectorGroups, TypeOK
<1>2. QED
  BY <1>1, Countable

(* What the property compares, in the names used here.                     *)
LEMMA OneConnectorGroupMeans ==
  OneConnectorGroup <=>
    \A o \in OrgIds :
      Cardinality(ConnectorGroups(o)) <= Cardinality(Connections(o))
BY DEF OneConnectorGroup, ConnectorGroups, Connections

LEMMA ConnectedKeeps ==
  ASSUME TypeOK, TypeOK', NEW o \in OrgIds, NEW u \in Persons,
         Connected(o, u), OneConnectorGroup, NEW i \in OrgIds
  PROVE  Cardinality(ConnectorGroups(i)') <= Cardinality(Connections(i)')
<1>1. Cardinality(ConnectorGroups(i)) <= Cardinality(Connections(i))
  BY OneConnectorGroupMeans
<1>2. /\ IsFiniteSet(Connections(i)) /\ IsFiniteSet(ConnectorGroups(i))
      /\ Cardinality(ConnectorGroups(i)) \in Nat
      /\ Cardinality(Connections(i)) \in Nat
      /\ Cardinality(ConnectorGroups(i)') \in Nat
  BY ConnectionsFinite, ConnectionsFiniteNext
<1>3. CASE i = o
  <2>1. /\ Connections(i)' = Connections(i) \union {<<o, u>>}
        /\ <<o, u>> \notin Connections(i)
    BY <1>3 DEF Connected, Connections
  <2>2. Cardinality(Connections(i)') = Cardinality(Connections(i)) + 1
    BY <1>2, <2>1, FS_AddElement
  <2> DEFINE more == ConnectorGroups(i) \union {db.groupId}
  <2>3. /\ IsFiniteSet(more)
        /\ Cardinality(more) <= Cardinality(ConnectorGroups(i)) + 1
    <3>1. /\ IsFiniteSet(more)
          /\ \/ Cardinality(more) = Cardinality(ConnectorGroups(i))
             \/ Cardinality(more) = Cardinality(ConnectorGroups(i)) + 1
      BY <1>2, FS_AddElement
    <3> HIDE DEF more
    <3>2. QED
      BY <1>2, <3>1
  <2>4. ConnectorGroups(i)' \subseteq more
    BY <1>3 DEF Connected
  <2>5. Cardinality(ConnectorGroups(i)') <= Cardinality(more)
    BY <2>3, <2>4, FS_Subset
  <2>6. Cardinality(more) \in Nat
    BY <2>3, FS_CardinalityType
  <2> HIDE DEF more
  <2>7. QED
    BY <1>1, <1>2, <2>2, <2>3, <2>5, <2>6
<1>4. CASE i # o
  <2>1. /\ Connections(i)' = Connections(i)
        /\ ConnectorGroups(i)' \subseteq ConnectorGroups(i)
    BY <1>4 DEF Connected, Connections
  <2>2. Cardinality(ConnectorGroups(i)') <= Cardinality(ConnectorGroups(i))
    BY <1>2, <2>1, FS_Subset
  <2>3. QED
    BY <1>1, <1>2, <2>1, <2>2
<1>5. QED
  BY <1>3, <1>4

LEMMA QuietConnectors ==
  ASSUME TypeOK, TypeOK', OneConnectorGroup, NEW i \in OrgIds,
         db'.connections = db.connections,
         ConnectorGroups(i)' \subseteq ConnectorGroups(i)
  PROVE  Cardinality(ConnectorGroups(i)') <= Cardinality(Connections(i)')
<1>1. Cardinality(ConnectorGroups(i)) <= Cardinality(Connections(i))
  BY OneConnectorGroupMeans
<1>2. /\ IsFiniteSet(ConnectorGroups(i))
      /\ Cardinality(ConnectorGroups(i)) \in Nat
      /\ Cardinality(Connections(i)) \in Nat
      /\ Cardinality(ConnectorGroups(i)') \in Nat
  BY ConnectionsFinite, ConnectionsFiniteNext
<1>3. Connections(i)' = Connections(i)
  BY DEF Connections
<1>4. Cardinality(ConnectorGroups(i)') <= Cardinality(ConnectorGroups(i))
  BY <1>2, FS_Subset
<1>5. QED
  BY <1>1, <1>2, <1>3, <1>4

LEMMA ConnectorsKept ==
  ASSUME IInv, IInv', [Next]_vars, OneConnectorGroup
  PROVE  OneConnectorGroup'
<1>1. SUFFICES ASSUME NEW i \in OrgIds
               PROVE  Cardinality(ConnectorGroups(i)')
                        <= Cardinality(Connections(i)')
  BY DEF OneConnectorGroup, ConnectorGroups, Connections
<1>2. TypeOK /\ TypeOK'
  BY DEF IInv, RowsOK
<1>3. CASE Quiet \/ \E s \in Slots : Noticed(s)
  <2>1. /\ db'.connections = db.connections
        /\ ConnectorGroups(i)' \subseteq ConnectorGroups(i)
    BY <1>3 DEF Quiet, Noticed
  <2>2. QED
    BY <1>2, <2>1, QuietConnectors
<1>4. CASE \E o \in OrgIds, u \in Persons : Connected(o, u)
  BY <1>2, <1>4, ConnectedKeeps
<1>5. CASE UNCHANGED vars
  BY <1>3, <1>5, SameDbQuiet DEF vars
<1>6. QED
  BY <1>3, <1>4, <1>5, ProceedEffect, ArriveEffect, AsideEffect,
     RestartQuiet DEF Next

(* However many approvals of requests of an org found them pending, there  *)
(* are no more groups of connectors than connections.                      *)
THEOREM ConnectorGroupsCounted == Spec => []OneConnectorGroup
<1>1. Init => OneConnectorGroup
  <2> SUFFICES ASSUME Init, NEW o \in OrgIds
               PROVE  Cardinality(ConnectorGroups(o))
                        <= Cardinality(Connections(o))
    BY OneConnectorGroupMeans
  <2>1. \A g \in DOMAIN db.groups : ~db.groups[g].isConnector
    <3>1. PICK i, joined, admins, asking :
            db = InUse(i, joined, admins, asking)
      BY DEF Init
    <3>2. db.groups = WithRow(NoRows, 1, GroupRow(i,
                        IF i = Nobody THEN Founder ELSE Nobody, Nobody,
                        FALSE))
      BY <3>1 DEF InUse
    <3>3. QED
      BY <3>2 DEF WithRow, NoRows, GroupRow
  <2>2. ConnectorGroups(o) = {}
    BY <2>1 DEF ConnectorGroups
  <2>3. /\ Cardinality(ConnectorGroups(o)) = 0
        /\ Cardinality(Connections(o)) \in Nat
    BY <2>2, InitKeeps, ConnectionsFinite, FS_EmptySet DEF IInv, RowsOK
  <2>4. QED
    BY <2>3
<1>2. IInv /\ IInv' /\ [Next]_vars /\ OneConnectorGroup
        => OneConnectorGroup'
  BY ConnectorsKept
<1>3. QED
  BY <1>1, <1>2, Inductive, PTL DEF Spec

-----------------------------------------------------------------------------
(***************************************************************************)
(* OrgGroups implements GroupRoster: each statement that a handler issues  *)
(* is a step of the roster or changes nothing in it.                       *)
(***************************************************************************)
OpenNow == [g \in DOMAIN db.groups |->
              [ org      |-> db.groups[g].orgId,
                connects |-> db.groups[g].isConnector ]]

VotesNow == {<<v.pollId, v.userId, v.option>> : v \in db.votes}

(* The tables besides the groups that the roster shows.                    *)
Shown == { "joined", "admins", "connections", "polls", "votes", "groupId",
           "pollId" }

(* What the variables of the roster are once their values are known.       *)
LEMMA SameRoster ==
  ASSUME DOMAIN orgs' = DOMAIN orgs, OpenNow' = OpenNow,
         \A f \in Shown : db'[f] = db[f]
  PROVE  UNCHANGED Roster!rvars
BY DEF Roster!rvars, OpenNow, Shown

LEMMA SameDbRoster ==
  ASSUME DOMAIN orgs' = DOMAIN orgs, UNCHANGED db
  PROVE  UNCHANGED Roster!rvars
BY SameRoster DEF OpenNow

(* Groups that keep their org and whether they connect.                    *)
LEMMA SameOpen ==
  ASSUME DOMAIN db'.groups = DOMAIN db.groups,
         \A g \in DOMAIN db.groups :
           /\ db'.groups[g].orgId = db.groups[g].orgId
           /\ db'.groups[g].isConnector = db.groups[g].isConnector
  PROVE  OpenNow' = OpenNow
BY DEF OpenNow

(* The steps of a group, of the roster's.                                  *)
LEMMA GroupSteps ==
  ASSUME NEW g \in GroupIds,
         \/ \E o \in OrgIds \union {Nobody} : Roster!Open(g, o)
         \/ \E o \in OrgIds, p \in Persons : Roster!Connect(g, o, p)
         \/ Roster!Close(g)
         \/ \E who \in SUBSET Persons : Roster!Leave(g, who)
         \/ \E p \in Persons : Roster!Appoint(g, p)
  PROVE  Roster!RosterNext
BY DEF Roster!RosterNext

(* A group with the next id.                                               *)
LEMMA OpenedRefines ==
  ASSUME IInv, NEW g, g = db.groupId, NEW o, NEW creator, NEW n,
         NEW isConnector, NEW d,
         d.groups =
           WithGroup(db, GroupRow(o, creator, n, isConnector)).groups,
         d.groupId = db.groupId + 1, db' = d, UNCHANGED tables,
         \A f \in {"joined", "admins", "polls", "votes", "pollId"} :
           db'[f] = db[f]
  PROVE  Roster!Opened(g, o, isConnector)
<1> DEFINE row == GroupRow(o, creator, n, isConnector)
<1>1. row.orgId = o /\ row.isConnector = isConnector
  BY DEF GroupRow
<1>2. db'.groups = WithRow(db.groups, db.groupId, row)
  BY DEF WithGroup, IInv, RowsOK, Numbered, Fields
<1> HIDE DEF row
<1>3. /\ DOMAIN db'.groups = DOMAIN db.groups \union {g}
      /\ db'.groups[g] = row
      /\ \A h \in DOMAIN db.groups \ {g} : db'.groups[h] = db.groups[h]
  BY <1>2 DEF WithRow
<1>4. OpenNow' = [z \in DOMAIN OpenNow \union {g} |->
                    IF z = g THEN [org |-> o, connects |-> isConnector]
                    ELSE OpenNow[z]]
  BY <1>1, <1>3 DEF OpenNow
<1>5. /\ g \notin 1 .. (db.groupId - 1)
      /\ 1 .. (db'.groupId - 1) = (1 .. (db.groupId - 1)) \union {g}
  BY GroupBoundsAssumption DEF IInv, RowsOK, Numbered
<1>6. /\ db'.joined = db.joined /\ db'.admins = db.admins
      /\ db'.polls = db.polls /\ db'.votes = db.votes
      /\ db'.pollId = db.pollId /\ DOMAIN orgs' = DOMAIN orgs
  BY DEF tables
<1>7. QED
  BY <1>4, <1>5, <1>6 DEF Roster!Opened, Roster!With, OpenNow

(* A group is opened for an org that exists, or for nobody's.              *)
LEMMA AddGroupRefines ==
  ASSUME IInv, NEW s \in Slots, NEW c \in Call, addOrgGroup(s, c)
  PROVE  [Roster!RosterNext]_(Roster!rvars)
<1>1. CASE db.groupId <= MaxGroups /\ (c.org = Nobody \/ Live(c.org))
  <2>1. PICK creator :
          db' = WithGroup(db, GroupRow(c.org, creator, c.name, FALSE))
    BY <1>1 DEF addOrgGroup
  <2> DEFINE row == GroupRow(c.org, creator, c.name, FALSE)
  <2>2. /\ db'.groups = WithGroup(db, row).groups
        /\ db'.groupId = db.groupId + 1
        /\ \A f \in {"joined", "admins", "polls", "votes", "pollId",
                     "connections"} : db'[f] = db[f]
    BY <2>1 DEF WithGroup, IInv, RowsOK, Numbered, Fields
  <2>3. UNCHANGED tables
    BY <1>1 DEF addOrgGroup
  <2>4. c.org \in OrgIds \union {Nobody}
    BY CallKinds DEF addOrgGroup, NewGroups
  <2>5. PICK g \in GroupIds : g = db.groupId
    BY <1>1 DEF IInv, RowsOK, Numbered, GroupIds
  <2>6. Roster!Opened(g, c.org, FALSE)
    BY <2>2, <2>3, <2>5, OpenedRefines
  <2>7. Roster!Open(g, c.org)
    BY <1>1, <2>2, <2>6 DEF Roster!Open, Roster!AnOrg, Live
  <2>8. QED
    BY <2>4, <2>7, GroupSteps
<1>2. CASE ~(db.groupId <= MaxGroups /\ (c.org = Nobody \/ Live(c.org)))
  BY <1>2, SameDbRoster DEF addOrgGroup, Finish, tables
<1>3. QED
  BY <1>1, <1>2

(* An approval connects its user and opens one group.                      *)
LEMMA ApproveRefines ==
  ASSUME IInv, NEW s \in Slots, pending[s] \in Request, NEW c \in Call,
         ApproveRequest(s, c)
  PROVE  [Roster!RosterNext]_(Roster!rvars)
<1> DEFINE o == c.request.orgId
           u == pending[s].by
           row == GroupRow(o, Nobody, Nobody, TRUE)
<1>1. CASE Connectable(o, u)
  <2>1. /\ o \in OrgIds /\ u \in Persons
    BY CallKinds
       DEF ApproveRequest, Decisions, OrgConnecterRequest, Request
  <2>2. /\ db' = [WithGroup(db, row) EXCEPT
                    !.connections = @ \union {<<o, u>>}]
        /\ UNCHANGED tables
    BY <1>1 DEF ApproveRequest
  <2>3. /\ db'.groups = WithGroup(db, row).groups
        /\ db'.groupId = db.groupId + 1
        /\ db'.connections = db.connections \union {<<o, u>>}
        /\ \A f \in {"joined", "admins", "polls", "votes", "pollId"} :
             db'[f] = db[f]
    BY <2>2 DEF WithGroup, IInv, RowsOK, Numbered, Fields
  <2> HIDE DEF u, o
  <2>4. PICK g \in GroupIds : g = db.groupId
    BY <1>1 DEF Connectable, IInv, RowsOK, Numbered, GroupIds
  <2>5. PICK p \in Persons : p = u
    BY <2>1
  <2>6. Roster!Opened(g, o, TRUE)
    BY <2>2, <2>3, <2>4, OpenedRefines
  <2>7. Roster!Connect(g, o, p)
    BY <1>1, <2>3, <2>5, <2>6 DEF Roster!Connect, Connectable, Live
  <2>8. QED
    BY <2>1, <2>7, GroupSteps
<1>2. CASE ~Connectable(o, u)
  BY <1>2, SameDbRoster DEF ApproveRequest, Finish, tables
<1>3. QED
  BY <1>1, <1>2

(* A name and a pin are no part of the roster; a group that nothing holds  *)
(* is closed.                                                              *)
LEMMA GroupWritesRefine ==
  ASSUME IInv, NEW s \in Slots, NEW c \in Call,
         updateGroup(s, c) \/ pinUnpinGroup(s, c) \/ deleteGroup(s, c)
  PROVE  [Roster!RosterNext]_(Roster!rvars)
<1>1. /\ DOMAIN db = Fields
      /\ \A g \in DOMAIN db.groups : db.groups[g] \in OrgGroup
      /\ DOMAIN db.groups \subseteq GroupIds
      /\ DOMAIN orgs' = DOMAIN orgs
  BY DEF IInv, RowsOK, TypeOK, Numbered, updateGroup, pinUnpinGroup,
         deleteGroup, Finish, tables
<1>2. CASE UNCHANGED db
  BY <1>1, <1>2, SameDbRoster
<1>3. ASSUME NEW g \in DOMAIN db.groups, NEW x,
             \/ db' = [db EXCEPT !.groups[g].name = x]
             \/ db' = [db EXCEPT !.groups[g].isPinned = x]
      PROVE  UNCHANGED Roster!rvars
  <2>1. /\ \A f \in Shown : db'[f] = db[f]
        /\ \/ db'.groups = [db.groups EXCEPT ![g].name = x]
           \/ db'.groups = [db.groups EXCEPT ![g].isPinned = x]
    BY <1>1, <1>3 DEF Fields, Shown
  <2>2. OpenNow' = OpenNow
    BY <1>1, <2>1, SameOpen DEF OrgGroup
  <2>3. QED
    BY <1>1, <2>1, <2>2, SameRoster
<1>4. CASE db' = [db EXCEPT !.groups = WithoutRow(@, c.group),
                            !.welcomed = @ \ {c.group},
                            !.notices = {n \in @ : n[1] # c.group}]
           /\ Exists(c.group) /\ ~Held(c.group)
  <2>1. /\ \A f \in Shown : db'[f] = db[f]
        /\ db'.groups = WithoutRow(db.groups, c.group)
    BY <1>1, <1>4 DEF Fields, Shown
  <2>2. OpenNow' = [z \in DOMAIN OpenNow \ {c.group} |-> OpenNow[z]]
    BY <2>1 DEF OpenNow, WithoutRow
  <2>3. /\ db'.joined = db.joined /\ db'.admins = db.admins
        /\ db'.polls = db.polls /\ db'.votes = db.votes
        /\ db'.connections = db.connections
        /\ db'.pollId = db.pollId /\ db'.groupId = db.groupId
    BY <2>1 DEF Shown
  <2>4. /\ c.group \in DOMAIN OpenNow
        /\ \A r \in db.joined \union db.admins : r[1] # c.group
        /\ \A q \in DOMAIN db.polls : db.polls[q] # c.group
    BY <1>4 DEF Held, Exists, OpenNow
  <2>5. Roster!Close(c.group)
    BY <1>1, <2>2, <2>3, <2>4 DEF Roster!Close, Roster!Without, OpenNow
  <2>6. QED
    BY <1>1, <1>4, <2>5, GroupSteps DEF Exists
<1>5. \/ UNCHANGED db
      \/ \E g \in DOMAIN db.groups : \E x :
           \/ db' = [db EXCEPT !.groups[g].name = x]
           \/ db' = [db EXCEPT !.groups[g].isPinned = x]
      \/ db' = [db EXCEPT !.groups = WithoutRow(@, c.group),
                          !.welcomed = @ \ {c.group},
                          !.notices = {n \in @ : n[1] # c.group}]
         /\ Exists(c.group) /\ ~Held(c.group)
  <2>1. CASE updateGroup(s, c)
    BY <2>1 DEF updateGroup, Finish, Exists
  <2>2. CASE pinUnpinGroup(s, c)
    BY <2>2 DEF pinUnpinGroup, Finish, Exists
  <2>3. CASE deleteGroup(s, c)
    BY <2>3 DEF deleteGroup, Finish
  <2>4. QED
    BY <2>1, <2>2, <2>3
<1>6. QED
  BY <1>2, <1>3, <1>4, <1>5

(* Who leaves is taken out of one group, who is made an administrator of a *)
(* group that exists; notices, tasks and requests are no part of the       *)
(* roster.                                                                 *)
LEMMA AttachedRefine ==
  ASSUME IInv, NEW s \in Slots, NEW c \in Call,
         \/ createFirstTask(s, c) \/ addMultipleOrgGroupMembers(s, c)
         \/ addOrgMemberAdmin(s, c) \/ deleteMember(s, c)
         \/ removeMultipleGroupMembers(s, c) \/ EnterBoth(s, c)
         \/ RejectRequest(s, c) \/ RemoveRequest(s, c)
  PROVE  [Roster!RosterNext]_(Roster!rvars)
<1>1. DOMAIN db = Fields /\ UNCHANGED tables
  BY DEF IInv, RowsOK, Numbered, createFirstTask, Finish,
         addMultipleOrgGroupMembers, addOrgMemberAdmin, deleteMember,
         removeMultipleGroupMembers, EnterBoth, RejectRequest, RemoveRequest
<1>2. DOMAIN orgs' = DOMAIN orgs
  BY <1>1 DEF tables
<1>3. CASE UNCHANGED db
  BY <1>2, <1>3, SameDbRoster
<1>4. CASE createFirstTask(s, c) \/ RejectRequest(s, c) \/ RemoveRequest(s, c)
  <2>1. /\ \A f \in Shown : db'[f] = db[f]
        /\ db'.groups = db.groups
    BY <1>1, <1>4
       DEF createFirstTask, RejectRequest, RemoveRequest, Finish, Fields,
           Shown
  <2>2. OpenNow' = OpenNow
    BY <2>1 DEF OpenNow
  <2>3. QED
    BY <1>2, <2>1, <2>2, SameRoster
<1>5. ASSUME c.group \in GroupIds, NEW who \in SUBSET Persons,
             db' = [db EXCEPT !.joined = @ \ ({c.group} \X who)]
      PROVE  Roster!RosterNext
  <2>1. /\ db'.joined = db.joined \ ({c.group} \X who)
        /\ db'.groups = db.groups
        /\ \A f \in Shown \ {"joined"} : db'[f] = db[f]
    BY <1>1, <1>5 DEF Fields, Shown
  <2>2. Roster!Leave(c.group, who)
    BY <1>2, <2>1 DEF Roster!Leave, Shown
  <2>3. QED
    BY <1>5, <2>2, GroupSteps
<1>6. CASE deleteMember(s, c)
  <2>1. c \in OfMember
    BY <1>6, CallKinds DEF deleteMember
  <2>2. c.group \in GroupIds /\ {c.person} \in SUBSET Persons
    BY <2>1 DEF OfMember
  <2>3. {<<c.group, c.person>>} = {c.group} \X {c.person}
    OBVIOUS
  <2>4. db' = [db EXCEPT !.joined = @ \ ({c.group} \X {c.person})]
    BY <1>6, <2>3 DEF deleteMember, Finish
  <2>5. QED
    BY <1>5, <2>2, <2>4
<1>7. CASE removeMultipleGroupMembers(s, c)
  <2>1. c \in Evictions /\ c.do = "evict"
    BY <1>7, CallKinds DEF removeMultipleGroupMembers
  <2>2. c.group \in GroupIds /\ c.people \in SUBSET Persons
    BY <2>1, EvictionKinds
  <2>3. \/ UNCHANGED db
        \/ db' = [db EXCEPT !.joined = @ \ ({c.group} \X c.people)]
    BY <1>7 DEF removeMultipleGroupMembers, Finish
  <2>4. QED
    BY <1>3, <1>5, <2>2, <2>3
<1>8. CASE addOrgMemberAdmin(s, c) /\ Exists(c.group)
  <2>1. c \in OfMember
    BY <1>8, CallKinds DEF addOrgMemberAdmin
  <2>2. c.group \in GroupIds /\ c.person \in Persons
    BY <2>1 DEF OfMember
  <2>3. db' = [db EXCEPT !.admins = @ \union {<<c.group, c.person>>}]
    BY <1>8 DEF addOrgMemberAdmin, Finish
  <2>4. /\ db'.admins = db.admins \union {<<c.group, c.person>>}
        /\ db'.groups = db.groups
        /\ \A f \in Shown \ {"admins"} : db'[f] = db[f]
    BY <1>1, <2>3 DEF Fields, Shown
  <2>5. Roster!Appoint(c.group, c.person)
    BY <1>2, <1>8, <2>4 DEF Roster!Appoint, Shown, Exists
  <2>6. QED
    BY <2>2, <2>5, GroupSteps
<1>9. QED
  BY <1>3, <1>4, <1>6, <1>7, <1>8
     DEF addMultipleOrgGroupMembers, EnterBoth, addOrgMemberAdmin, Finish

(* The steps of polls, of the roster's.                                    *)
LEMMA PollSteps ==
  ASSUME NEW q \in PollIds,
         \/ \E g \in GroupIds : Roster!Ask(q, g)
         \/ Roster!Withdraw(q)
         \/ \E p \in Persons, option \in Options : Roster!Vote(q, p, option)
  PROVE  Roster!RosterNext
BY DEF Roster!RosterNext

(* A vote is one that its user did not have.                               *)
LEMMA VoteRefines ==
  ASSUME IInv, NEW s \in Slots, pending[s] \in Request, NEW c \in Call,
         createVote(s, c)
  PROVE  [Roster!RosterNext]_(Roster!rvars)
<1>1. PICK p \in Persons : p = pending[s].by
  BY DEF Request
<1>2. c.poll \in PollIds /\ c.option \in Options
  BY CallKinds DEF createVote, Ballots
<1>3. UNCHANGED tables
  BY DEF createVote, Finish
<1>4. CASE Votable(c.poll, p)
  <2> DEFINE ballot == [ pollId |-> c.poll, userId |-> p,
                         option |-> c.option ]
  <2>1. db' = [db EXCEPT !.votes = @ \union {ballot}]
    BY <1>1, <1>4 DEF createVote, Finish
  <2>2. /\ db'.votes = db.votes \union {ballot}
        /\ db'.groups = db.groups
        /\ \A f \in Shown \ {"votes"} : db'[f] = db[f]
    BY <2>1 DEF IInv, RowsOK, Numbered, Fields, Shown
  <2>3. VotesNow' = VotesNow \union {<<c.poll, p, c.option>>}
    <3>1. <<ballot.pollId, ballot.userId, ballot.option>>
            = <<c.poll, p, c.option>>
      OBVIOUS
    <3> HIDE DEF ballot
    <3>2. QED
      BY <2>2, <3>1 DEF VotesNow
  <2>4. \A v \in VotesNow : v[1] # c.poll \/ v[2] # p
    BY <1>4 DEF VotesNow, Votable, isAlreadyVoted
  <2>5. Roster!Vote(c.poll, p, c.option)
    BY <1>3, <1>4, <2>2, <2>3, <2>4
       DEF Roster!Vote, Shown, VotesNow, Votable, tables
  <2>6. QED
    BY <1>2, <2>5, PollSteps
<1>5. CASE ~Votable(c.poll, p)
  BY <1>1, <1>3, <1>5, SameDbRoster DEF createVote, Finish, tables
<1>6. QED
  BY <1>4, <1>5

(* Polls are asked in groups that exist and go without votes.              *)
LEMMA PollsRefine ==
  ASSUME IInv,
         \/ \E g \in KnownGroups : createPoll(g)
         \/ \E q \in DOMAIN db.polls : deletePoll(q)
         \/ \E v \in db.votes : retractVote(v)
  PROVE  Roster!RosterNext
<1>1. /\ DOMAIN db = Fields /\ TypeOK /\ db.pollId >= 1
      /\ UNCHANGED tables
  BY DEF IInv, RowsOK, Numbered, createPoll, deletePoll, retractVote,
         WritePolls
<1>2. CASE \E g \in KnownGroups : createPoll(g)
  <2>1. PICK g \in KnownGroups : createPoll(g)
    BY <1>2
  <2>2. PICK q \in PollIds : q = db.pollId
    <3>1. db.pollId <= MaxPolls
      BY <2>1 DEF createPoll
    <3>2. db.pollId \in PollIds
      BY <1>1, <3>1, GroupBoundsAssumption DEF PollIds, TypeOK
    <3>3. QED
      BY <3>2
  <2>3. /\ g \in DOMAIN db.groups /\ g \in GroupIds
        /\ db' = [db EXCEPT !.polls = WithRow(@, q, g), !.pollId = @ + 1]
    BY <1>1, <2>1, <2>2 DEF createPoll, WritePolls, Exists, TypeOK
  <2>4. /\ db'.polls = WithRow(db.polls, q, g)
        /\ db'.pollId = db.pollId + 1
        /\ db'.groups = db.groups
        /\ \A f \in Shown \ {"polls", "pollId"} : db'[f] = db[f]
    BY <1>1, <2>3 DEF Fields, Shown
  <2>5. /\ q \notin 1 .. (db.pollId - 1)
        /\ 1 .. (db'.pollId - 1) = (1 .. (db.pollId - 1)) \union {q}
    BY <1>1, <2>2, <2>4 DEF TypeOK
  <2>6. db'.polls = [z \in DOMAIN db.polls \union {q} |->
                       IF z = q THEN g ELSE db.polls[z]]
    BY <2>4 DEF WithRow
  <2>7. Roster!Ask(q, g)
    BY <1>1, <2>3, <2>4, <2>5, <2>6
       DEF Roster!Ask, Roster!With, Shown, tables
  <2>8. QED
    BY <2>3, <2>7, PollSteps
<1>3. CASE \E q \in DOMAIN db.polls : deletePoll(q)
  <2>1. PICK q \in DOMAIN db.polls : deletePoll(q)
    BY <1>3
  <2>2. /\ q \in PollIds
        /\ db' = [db EXCEPT !.polls = WithoutRow(@, q)]
        /\ \A v \in db.votes : v.pollId # q
    BY <1>1, <2>1 DEF deletePoll, WritePolls, TypeOK
  <2>3. /\ db'.polls = WithoutRow(db.polls, q)
        /\ db'.groups = db.groups
        /\ \A f \in Shown \ {"polls"} : db'[f] = db[f]
    BY <1>1, <2>2 DEF Fields, Shown
  <2>4. db'.polls = [z \in DOMAIN db.polls \ {q} |-> db.polls[z]]
    BY <2>3 DEF WithoutRow
  <2>5. \A v \in VotesNow : v[1] # q
    BY <2>2 DEF VotesNow
  <2>6. Roster!Withdraw(q)
    BY <1>1, <2>1, <2>3, <2>4, <2>5
       DEF Roster!Withdraw, Roster!Without, Shown, VotesNow, tables
  <2>7. QED
    BY <2>2, <2>6, PollSteps
<1>4. CASE \E v \in db.votes : retractVote(v)
  <2>1. PICK v \in db.votes : db' = [db EXCEPT !.votes = @ \ {v}]
    BY <1>4 DEF retractVote, WritePolls
  <2>2. /\ db'.votes = db.votes \ {v}
        /\ db'.groups = db.groups
        /\ \A f \in Shown \ {"votes"} : db'[f] = db[f]
    BY <1>1, <2>1 DEF Fields, Shown
  <2>3. PICK ballot : ballot = <<v.pollId, v.userId, v.option>>
    OBVIOUS
  <2>4. \A w \in db.votes :
          <<w.pollId, w.userId, w.option>> = ballot => w = v
    BY <1>1, <2>3 DEF TypeOK, PollVote
  <2>5. VotesNow' = VotesNow \ {ballot} /\ ballot \in VotesNow
    BY <2>2, <2>3, <2>4 DEF VotesNow
  <2>6. Roster!Retract(ballot)
    BY <1>1, <2>2, <2>5 DEF Roster!Retract, Shown, VotesNow, tables
  <2>7. QED
    BY <2>5, <2>6 DEF Roster!RosterNext, VotesNow
<1>5. QED
  BY <1>2, <1>3, <1>4

(* An org that goes has nobody connected, and leaves its groups alone.     *)
LEMMA OrgDeletedRefines ==
  ASSUME IInv, NEW o \in OrgIds, OrgDeleted(o)
  PROVE  [Roster!RosterNext]_(Roster!rvars)
<1> DEFINE row(g) == IF db.groups[g].orgId = o
                     THEN [db.groups[g] EXCEPT !.orgId = Nobody]
                     ELSE db.groups[g]
<1>1. /\ db'.groups = [g \in DOMAIN db.groups |-> row(g)]
      /\ \A f \in Shown : db'[f] = db[f]
  BY DEF OrgDeleted, IInv, RowsOK, Numbered, Fields, Shown
<1>2. \A g \in DOMAIN db.groups :
        /\ row(g).orgId = IF db.groups[g].orgId = o THEN Nobody
                          ELSE db.groups[g].orgId
        /\ row(g).isConnector = db.groups[g].isConnector
  BY DEF IInv, RowsOK, TypeOK, OrgGroup
<1> HIDE DEF row
<1>3. /\ deleteOrg(o) /\ o \notin DOMAIN orgs'
      /\ \A r \in db.connections : r[1] # o
  BY DEF OrgDeleted, Live
<1>4. CASE Live(o)
  <2>1. DOMAIN orgs' = DOMAIN orgs \ {o} /\ o \in DOMAIN orgs
    BY <1>3, <1>4 DEF deleteOrg, Live, WithoutRow
  <2>2. OpenNow' = [g \in DOMAIN OpenNow |->
                      IF OpenNow[g].org = o
                      THEN [OpenNow[g] EXCEPT !.org = Nobody]
                      ELSE OpenNow[g]]
    BY <1>1, <1>2 DEF OpenNow
  <2>3. Roster!Dissolve(o)
    BY <1>1, <1>3, <2>1, <2>2 DEF Roster!Dissolve, OpenNow, Shown
  <2>4. QED
    BY <2>3 DEF Roster!RosterNext
<1>5. CASE ~Live(o)
  <2>1. orgs' = orgs
    BY <1>3, <1>5 DEF deleteOrg
  <2>2. o # Nobody
    BY GroupBoundsAssumption
  <2>3. \A g \in DOMAIN db.groups : db.groups[g].orgId # o
    BY <1>5, <2>2 DEF IInv, RowsOK, GroupReferences
  <2>4. OpenNow' = OpenNow
    BY <1>1, <1>2, <2>3 DEF OpenNow
  <2>5. QED
    BY <1>1, <2>1, <2>4, SameRoster
<1>6. QED
  BY <1>4, <1>5

(* A step of a request.                                                    *)
LEMMA ProceedRefines ==
  ASSUME IInv, NEW s \in Slots, Proceed(s)
  PROVE  [Roster!RosterNext]_(Roster!rvars)
<1>1. pending[s] \in Request /\ pending[s].call \in Call
  BY ProceedsRequest
<1>2. PICK c \in Call : c = pending[s].call
  BY <1>1
<1>3. \/ \/ FindSame(s, c) \/ FindGroup(s, c) \/ FindGroupToRename(s, c)
         \/ FindName(s, c) \/ FindOrgMember(s, c) \/ FindNewcomers(s, c)
         \/ FindAdmin(s, c) \/ FindMembership(s, c) \/ FindUser(s, c)
         \/ CheckEach(s, c) \/ FindGroupOf(s, c) \/ CheckOwner(s, c)
         \/ GuardGroup(s, c)
      \/ memberLeavedGroupMessage(s, c) \/ ApproveRequest(s, c)
      \/ addOrgGroup(s, c) \/ createVote(s, c)
      \/ updateGroup(s, c) \/ pinUnpinGroup(s, c) \/ deleteGroup(s, c)
      \/ \/ createFirstTask(s, c) \/ addMultipleOrgGroupMembers(s, c)
         \/ addOrgMemberAdmin(s, c) \/ deleteMember(s, c)
         \/ removeMultipleGroupMembers(s, c) \/ EnterBoth(s, c)
         \/ RejectRequest(s, c) \/ RemoveRequest(s, c)
  BY <1>2 DEF Proceed
<1>4. CASE \/ FindSame(s, c) \/ FindGroup(s, c) \/ FindGroupToRename(s, c)
           \/ FindName(s, c) \/ FindOrgMember(s, c) \/ FindNewcomers(s, c)
           \/ FindAdmin(s, c) \/ FindMembership(s, c) \/ FindUser(s, c)
           \/ CheckEach(s, c) \/ FindGroupOf(s, c) \/ CheckOwner(s, c)
           \/ GuardGroup(s, c)
  <2>1. UNCHANGED db /\ UNCHANGED tables
    BY <1>4
       DEF FindSame, FindGroup, FindGroupToRename, FindName, FindOrgMember,
           FindNewcomers, FindAdmin, FindMembership, FindUser, CheckEach,
           FindGroupOf, CheckOwner, GuardGroup, Check, Finish
  <2>2. QED
    BY <2>1, SameDbRoster DEF tables
<1>5. CASE memberLeavedGroupMessage(s, c)
  <2>1. /\ UNCHANGED tables
        /\ \/ UNCHANGED db
           \/ db' = [db EXCEPT !.notices = @ \union {<<c.group, c.person>>}]
    BY <1>5 DEF memberLeavedGroupMessage, Finish
  <2>2. \A f \in Shown \union {"groups"} : db'[f] = db[f]
    BY <2>1 DEF IInv, RowsOK, Numbered, Fields, Shown
  <2>3. OpenNow' = OpenNow
    BY <2>2 DEF OpenNow
  <2>4. QED
    BY <2>1, <2>2, <2>3, SameRoster DEF tables
<1>6. QED
  BY <1>1, <1>3, <1>4, <1>5, ApproveRefines, AddGroupRefines, VoteRefines,
     GroupWritesRefine, AttachedRefine

LEMMA NextRefines ==
  ASSUME IInv, [Next]_vars
  PROVE  [Roster!RosterNext]_(Roster!rvars)
<1>1. CASE \E s \in Slots : Proceed(s)
  BY <1>1, ProceedRefines
<1>2. CASE \/ \E s \in Slots, u \in Clients : Arrive(s, u)
           \/ \E u \in Clients, o \in OrgIds : requestConnecter(u, o)
           \/ Restart \/ UNCHANGED vars
  <2>1. ASSUME NEW s \in Slots, NEW u \in Clients, Arrive(s, u)
        PROVE  UNCHANGED <<tables, db>>
    <3>1. \E op, v, c : Arrives(s, op, v, c)
      BY <2>1
         DEF Arrive, createOrgMember, updateOrgGroup, pinUnpinOrgGroup,
             deleteOrgGroup, addOrgMemberToGroup, removeMemberFromGroup,
             makeOrgMemberAdmin, leaveOrgGroup, removeGroupAdmin,
             updateRequest, removeRequest, vote, OrgGroupGuard,
             GroupMembersGuard
    <3>2. QED
      BY <3>1 DEF Arrives
  <2>2. UNCHANGED <<tables, db>>
    BY <1>2, <2>1 DEF requestConnecter, Restart, vars
  <2>3. QED
    BY <2>2, SameDbRoster DEF tables
<1>3. CASE \E o \in OrgIds, p \in Around : OrgMembersChange(o, p)
  <2>1. UNCHANGED orgs /\ UNCHANGED db
    BY <1>3 DEF OrgMembersChange, addMember, removeMembers
  <2>2. QED
    BY <2>1, SameDbRoster
<1>4. QED
  BY <1>1, <1>2, <1>3, PollsRefine, OrgDeletedRefines DEF Next

(* Every behaviour of the handlers is a behaviour of the roster.           *)
THEOREM RosterKept == Spec => ImplementsRoster
<1>1. Init => Roster!RosterInit
  <2> SUFFICES ASSUME Init PROVE Roster!RosterInit
    OBVIOUS
  <2>1. RowsOK
    BY InitKeeps DEF IInv
  <2>2. /\ DOMAIN orgs \subseteq OrgIds
        /\ \A g \in DOMAIN OpenNow :
             OpenNow[g].org \in DOMAIN orgs \union {Nobody}
        /\ \A r \in db.joined \union db.admins : r[1] \in DOMAIN OpenNow
        /\ \A r \in db.connections : r[1] \in DOMAIN orgs
        /\ \A q \in DOMAIN db.polls : db.polls[q] \in DOMAIN OpenNow
    BY <2>1
       DEF RowsOK, TypeOK, TablesTypeOK, GroupReferences, OpenNow, Exists,
           Live
  <2>3. DOMAIN OpenNow \subseteq 1 .. (db.groupId - 1)
    BY <2>1, GroupBoundsAssumption
       DEF RowsOK, TypeOK, Numbered, OpenNow, GroupIds
  <2>4. db.polls = NoRows /\ db.votes = {}
    BY DEF Init, InUse
  <2>5. DOMAIN db.polls = {} /\ VotesNow = {}
    BY <2>4 DEF NoRows, VotesNow
  <2>6. QED
    BY <2>2, <2>3, <2>5
       DEF Roster!RosterInit, Roster!AnOrg, OpenNow, VotesNow
<1>2. IInv /\ [Next]_vars => [Roster!RosterNext]_(Roster!rvars)
  BY NextRefines
<1>3. QED
  BY <1>1, <1>2, Inductive, PTL
     DEF Spec, ImplementsRoster, Roster!RosterSpec
=============================================================================
