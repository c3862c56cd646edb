# A verification development for dh-api

dh-api is a NestJS server (TypeScript) over PostgreSQL (through Prisma), Redis and
socket.io. It keeps organisations, their members and groups, the tasks and polls of a
group, and a chat between users and inside groups. This directory holds TLA+ models of
the parts where several requests meet, the TLC configurations that check them on small
instances, and theorems about them whose proofs TLAPS checks for every instance.

All paths below are relative to the repository (`src/...` of the server are under
`src/src/`).

## 1. How the system runs

* **One process, one event loop.** A handler runs from one `await` to the next without
  interruption; at an `await` any other request may run. Between a read and the write it
  decides there is therefore always room for other requests.
* **PostgreSQL.** Nearly every statement is a transaction of its own. The exceptions are
  the removal and the reorder of tasks, the approval of a connector and the removal of
  several group members, which use `$transaction`. Foreign keys, unique constraints and
  cascades (`prisma/schema.prisma`) are the only things that hold across statements.
* **Errors.** A statement that fails rejects its promise: P2002 (unique) is answered
  with 400, P2025 (row not found) with 404, everything else with 500
  (`common/prisma-exception`). What the request wrote before stays.
* **Rejections nobody handles** end the process (Node 20, no handler installed);
  `docker-compose.prod.yml` starts it again. Requests in flight are lost.
* **Tests.** The repository's tests are the generated "should be defined" stubs, so
  comments, messages and the schema are the only statements of intent.

## 2. Inventory

| Component | State | Operations | Hard parts | What makes it correct |
|---|---|---|---|---|
| Message tables (`private-chat.service.ts`, schema, pinnedAt middleware) | PrivateMessage, GroupMessage, Reaction, SavedMessage, id sequences | insert, reply, forward, delete, hide, archive, seen, pin, react, save | cascades through replies and forwards over both tables and all users; unique reactions | nothing dangles; a removal takes exactly its thread; ids are not reused |
| Chat HTTP handlers (`private-chat.controller.ts`) | requests in flight | the same, behind checks | check, `await`, write; walks over several messages; a refusal in the middle of a walk | an accepted request takes hold; refused ones write nothing; flags of one party are not the other's to change |
| Chat gateway (`private-chat.gateway.ts`) | sockets and their rooms | the same, then an event to rooms | rooms are a snapshot read in three statements; an event follows the write after another `await`; error after write | who was in the room when something was written hears of it |
| Organisations (`org`) | Org, OwnershipTransfer | create, update, delete, request and answer a transfer | several writes, no transaction | one owner, at most one answer per transfer |
| Invitations (`org-invite`) | OrgInvite | create, answer, delete | status written before the member; no check that it is pending | an approved invitation has its member; at most one pending |
| Organisation members (`org-member`) | OrgMember, users created by phone | add (several, by phone, connector), role, delete | check per member, one insert for all | unique membership, counts told to the client |
| Connectors (`connector`) | OrgConnecterRequest, OrgConnecter, a group | request, answer | a pair in a transaction, members after it; an unawaited look-up | an approval makes one connector group |
| Groups (`org-group`) | OrgGroup, PinnedGroups, first task | create, rename, pin, delete | restricted and cascading deletes; the org of a group read before its org goes | nothing refers to a group that is gone, and a group to no org that is |
| Group members, administrators (`org-group-members`) | OrgGroupMember, OrgGroupAdmin, system messages | add, remove, promote, demote | message before row; demotion removes the other row; several removed in one transaction | who is said to have left is out; several are removed together or not at all |
| Tasks (`task`) | Task, TaskAsignee, ArchivedTasks, positions | create, update, assign, move, archive, remove, reorder | assignees and task in separate statements, from differences that may be stale; positions from a stale list; subtasks under a task that goes | nothing hangs on a task that is gone; an update leaves the assignees asked for; a reorder takes hold as a whole |
| Polls (`poll`) | Poll, PollVote | create, vote | one vote per user | unique votes |
| Authentication (`auth`, `auth/otp`) | User.otpCode and expiry, PhoneChangeRequests, PhoneNumber | send, verify, change phone, connect phones | codes checked and cleared in separate statements; `forEach(async)` | a phone, a user name and an additional number have one owner; a phone changes to one that was asked for |
| Sessions (`redis`, `session`) | `user_sessions:*` hashes with expiry | create, list, delete one or all | hash and expiry in two calls | a session ends; "delete all" deletes |
| Devices (`common/device`) | FCM rows | create or update at login, delete at logout | look-up, then write | a login is not stopped by its device |
| Notifications (`notification`) | Notification rows | push, schedule | push and mark | pushed once |
| Contacts (`contact`) | Contact, UserContact, visibility | store, look up | - | visibility is respected |
| Last seen, quick replies, catalog, backup settings, admin, advertisement, industry, region | one table each | create, read, update, delete | none | - |
| MinIO, Cloudinary, configuration, wiring | none | I/O | - | - |

Who calls whom: controllers and the gateway call services; services write PostgreSQL.
The gateway uses the same chat service as the controllers. Invitations add members;
connector approval adds a group and its members; group deletion takes the group's
messages and tasks; logins write a device row and a Redis session.

## 3. The modules

### MessageStore

The chat tables as state: `msgs` maps the key `<<table, id>>` of each existing row to its
columns, `reactions` and `saved` are the rows attached to messages, `groups` the OrgGroup
rows that exist, `nextId` the four id sequences. There is one operator per statement the
service issues, with its failure: an insert draws an id first and inserts only if every
foreign key and unique constraint holds (a failed insert has used its id); an update of a
row that is gone writes nothing; a delete removes the least set of rows closed under the
cascades of the schema and clears the one reference that is `SET NULL` (a group message
forwarded from a group message).

`Cascade` is stated as the least closed set instead of by recursion: that is what the
cascade computes, and it can be proved about. Content, type, captions and timestamps are
left out, except whether a row is younger than five minutes (`recent`, ended by `Age` in
the order of the ids) and whether `pinnedAt` is set.

`MaxMessages`, `MaxReactions` and `MaxSaved` are the ends of the id sequences: an insert
past them fails. They stand for the end of PostgreSQL's `Int` sequences and bound the
state space without a state constraint.

### PrivateChat

The HTTP handlers over these tables. `pending` holds the request in each slot: who sent
it (`by`), the messages it still has to look up (`reads`), those it keeps (`valid`, the
code's `validMessageIds`), the statements it has still to issue (`todo`), and whether the
client was already refused (`refused`).

* A handler that issues one statement is one action (`sendPrivateMessage`,
  `deletePrivateMessage`, `save`, ...). The handler's checks are the action's guard: a
  request that is refused changes nothing.
* A handler that reads, decides and then writes is the action of its name, which leaves
  its statements in a slot, and `Execute`, which runs one of them. The values it writes
  are those computed from what it read (`HideStatement`, `togglePinned`).
* `deletePrivateMessages` starts the update of each message as it walks them. A message
  of someone else makes it answer 403; the updates before that one go on unattended
  (`refused`). If the row of such an update is gone its rejection is handled by nobody:
  `Fatal` ends the process and every request in flight is `Lost`.
* `deleteGroupMessages` looks messages up one by one (`CheckGroupMessage`). Whether the
  user owns the organisation or administers the group belongs to other modules, so both
  outcomes are possible.
* `deleteOrgGroup` is the org-group module's delete, for its cascade.

`Activity` selects the operations of an instance; the theorems are about `Spec` with any
of them. `MCPrivateChat` divides all operations into four parts (`threads`, `races`,
`hides`, `marks`), one of which a behaviour keeps to, so that a run spends its states on
the interleavings its questions are about and not on the product of all. Every step of a
part is a step of `PrivateChat!Next`, so that what the theorems say holds for it too.

| Action | Code |
|---|---|
| `sendPrivateMessage`, `replyPrivateMessage` | `private-chat.controller.ts` 47-72 |
| `sendGroupMessage`, `replyGroupMessage` | 474-495 |
| `forwardToPrivateMessage`, `forwardToGroupMessage` | 304-329, service 460-515 |
| `unsendPrivateMessage`, `unsendGroupMessage` | 208-260 |
| `deletePrivateMessages`, `deleteGroupMessages`, `deletePrivateMessage` | 76-163, 458-461 |
| `markSeen`, `togglePinned` | 333-358, 499-525 |
| `react`, `removeReaction`, `save`, `unsave` | 290-300, 465-469, 168-178, 545-552 |
| `Execute` | the write after the last `await` of those handlers |

### MessageForest

What the tables promise, without columns, requests or cascade rules: a message is posted
under a fresh name while everything it hangs from exists; what it hangs from never
changes; a removal of a private message, or of a group, takes exactly what hangs from it,
and no group message is removed on its own account. A group may still be founded if it is
`vacant`, and one that is dissolved never comes back; any forest will do to begin with.
Both sets of handlers over the tables implement it: `PrivateChat`, for which no group is
vacant, and `ChatGateway`, where groups are created too. The mapping is the same (`Posts`,
`Used` of `MessageStore`): the parents of a message are the messages it would fall with,
its home is its group, the used names are the ids drawn from the sequences (names used up
by failed inserts are the abstract `Lose`).

### Faulty variants

Beside several definitions stands a `(* Faulty variant *)`: the same operation with a
plausible mistake (a missing foreign key, a cascade of one level, a soft delete where the
code deletes). Replacing the definition by it must break the property it is listed with
in PROJECT.json; nothing else uses them.

### OrgTables

The tables of organisations: `orgs` (the owner of each Org row), `members`, `invites`,
`transfers`, the `users` that exist, and the three id sequences. One operator per
statement, with the constraints that can make it fail: the foreign keys, which are
`RESTRICT` (`Referred` keeps an org from being deleted), and `@@unique([orgId, memberId])`
(`Insertable`). An insert that fails has used its ids; one past the end of its sequence
(`MaxOrgs`, `MaxInvites`, `MaxTransfers`) fails. A person stands for a phone number and
for the user registered under it: `users` are those with a row. Names, positions, logos
and timestamps are left out.

### OrgMembership

The handlers of `org`, `org-invite` and `org-member`. A request in a slot is who sent it
and a `Call`: the statement the handler has come to, with the values it kept from its
earlier statements, as a closure would. The action of a handler's name is its arrival, up
to the first `await`; the actions with capital letters are what follows each further
`await`. What a guard read is therefore old when the statement it protects runs.

| Arrival | Then | Code |
|---|---|---|
| `createOrganization` | `AddEach` | `org.controller.ts` 39-70 |
| `deleteOrganization` | `Close` | `org.service.ts` 131-147 |
| `createOwnershipTransfer` | `Transfer` | `org.controller.ts` 74-94 |
| `createOrgInvite` | `FindOrg`, `Invite` | `org-invite.controller.ts` 40-68 |
| `updateOrgInvite` | `FindInvites`, `ReadInvite`, `SetStatus`, `AddAll`, or `SetStatusUnseen` | 70-114, guard 16-38 |
| `deleteOrgInvite` | `FindInvites`, `ReadOrg`, `Uninvite` | 153-165, service 114-129 |
| `createOrgMember` | `CheckMembers`, `AddAll` | `org-member.controller.ts` 45-95 |
| `addMultipleMemberFromPhone` | `FindOrgOfPhones`, `FindPeople`, `FindPending`, `Register`, `AfterRegister`, `InviteAll`, `AnswerInvited` | 99-163 |
| `addConnectorAsMember` | `FindConnector`, `CheckConnector` or `RegisterConnector`, `AddAll` | 167-206 |
| `updateOrgMemberRole` | `CheckRole`, `SetRole` | 212-236 |
| `deleteOrgMembers` | `CheckLeavers`, `RemoveAll` | 325-345, service 201-224 |

* The loops keep the people `left` and those found good; the statements of one
  `Promise.all` run in any order, and the next stage starts when all have answered.
* `ServerDies` ends the process between any two statements; the requests are `Lost`.
* Guards are modelled as they are coded: `Includes` is `orgs.length &&
  !orgs.includes(orgId)`: a user without orgs passes, and in `updateOrgInvite` goes on to
  the update even if no invitation was found (`SetStatusUnseen`); and `deleteOrgInvite` compares the id of the invitation with
  the ids of orgs.
* `PATCH org/:id` is declared before `PATCH org/:requestId` and matches the same paths:
  no request reaches `approveOrRejectOwnershipRequest`. A transfer stays as it was made
  and an org keeps its owner.
* `updateOrg` and `updateOrgMember` change only columns the model leaves out.
* Pushes go to a service outside. One that fails ends the request where it stands
  (`InviteAll`); after `Invite` there is nothing left to do.

### OrgLedger

What these tables promise, without handlers, statuses or roles: an org is founded once,
under a fresh name, and keeps its owner; it is dissolved only when it has no member and
no claim is open; people join an org that exists and that they are not in, all of a group
or none; a claim (an invitation or a transfer) is made under a fresh name and what it is
about never changes. `OrgMembership` implements it under the mapping in
`OrgMembership!Ledger`: the roll is `members` without roles, a claim's name is its table
and id, used names are the ids drawn (a failed insert is the abstract `Lose`).

### Requests

What the handlers of the following modules have in common. A slot holds a request: who
sent it and what its handler does next, a record whose field `do` names the statement and
whose other fields are the locals it still needs. `Enter`, `GoOn`, `End` and `GoOnIf` are
the arrival, the step to the next statement, the end, and a check. `StopAll` is a stop of
the server: the requests in flight are `Stopped`, the tables stay. `scope` is the set of
operations clients use in a behaviour.

### OrgGroups

Groups, members, administrators, polls and connectors, over the orgs and members of
`OrgTables`. The tables of groups are the fields of one record `db`: `groups`, `joined`,
`admins`, `notices` (the messages that somebody left), `welcomed` (groups that have got
their first task), `requests` and `connections` of connectors, `polls`, `votes`.

| Arrival | Then | Code |
|---|---|---|
| `createOrgMember` | `FindSame`, `addOrgGroup`, `createFirstTask` | `org-group.controller.ts` 33-75 |
| `updateOrgGroup` | `FindGroupToRename`, `FindName`, `updateGroup` | 77-105 |
| `pinUnpinOrgGroup`, `deleteOrgGroup` | `FindGroup`, `pinUnpinGroup` or `deleteGroup` | 107-126, 186-198 |
| `addOrgMemberToGroup` | `GuardGroup`, `FindNewcomers`, `addMultipleOrgGroupMembers` | `org-group-members.controller.ts` 36-73, guard |
| `makeOrgMemberAdmin` | `GuardGroup`, `FindOrgMember`, `FindAdmin`, `addOrgMemberAdmin` | 79-95, both guards |
| `removeGroupAdmin` | the same, then `FindUser`, `memberLeavedGroupMessage`, `deleteMember` | 174-195, service 72-93 |
| `leaveOrgGroup` | `GuardGroup`, `FindMembership`, `FindUser`, ... | 155-172 |
| `removeMemberFromGroup` | `CheckEach`, `FindGroupOf`, `CheckOwner`, `removeMultipleGroupMembers` | 101-148 |
| `updateRequest`, `removeRequest` | `ApproveRequest`, `EnterBoth` or `RejectRequest`; `RemoveRequest` | `connector.controller.ts` 61-109, service 59-94 |
| `vote` | `createVote` | `poll.controller.ts` 77-91 |

The guards read the orgs of the user and the group at the start; what they read is old
when the statement they protect runs. `Held` and `Connectable`, `Votable` are the foreign
keys and unique constraints. The notice that somebody left and the removal of his row are two statements of one
request, and the server may stop between them (`Restart`). `OrgDeleted` and
`OrgMembersChange` are what `OrgMembership`
does to the same tables meanwhile: an org that goes leaves its groups without one.

### GroupRoster

What the tables of groups promise, without guards, names, notices, pins or the status of a
request: a group opens under a fresh name, for an org that exists or for none, and closes
only when nobody is in it or administers it and no poll is asked in it; it keeps its org
while that exists; people in it only leave (no handler of this version can add anybody,
because Prisma refuses the insert); everybody has one vote in a poll, and a poll with
votes stays; a person is connected to an org once, together with a group opened in the
same step, and an org somebody is connected to stays. `OrgGroups` implements it under the
mapping in `OrgGroups!Roster`, which hides the slots: the used names are the ids
below the next one.

### ChatLists

`getMyChats` and `getMyRecentConversations` as folds over the rows of `MessageStore`, in
the order the service walks them, against what they ought to show: each partner once, in
the order of the last message; the last private message with each partner whatever order
`groupBy` returns its rows in. `Gateway` checks them over every history of up to three
private messages and after every request.

### ChatGateway

The socket handlers over the same tables. Connecting is a sequence of stages, one for each
await of `handleConnection`: the user's own room, the groups he is a member of, the orgs he
owns and their groups, those he created, and the rooms joined at the end. Between two of
them an org or a group may go, a group be created or a member leave; `steady` keeps what he
had all the while: the pairs of a group and why he is in it, since each reason is read at a
moment of its own. A handler
is a look-up (`Find`), a write and `Announce`, one statement each. `owed` are the pairs of
a user who was in a room when something was written for it and the request that owes him
the announcement. A group message with a bad caption is inserted before the caption is
checked (`Refuse`): the client is told of an error and the row stays. `Restart` ends all
sockets and requests. What all of it does to messages and groups is `MessageForest`'s
(`ImplementsForest`); the groups that may still be created (`ahead`) are its vacant homes.

| Arrival | Then | Code (`private-chat.gateway.ts`) |
|---|---|---|
| `Connect` | `JoinOwnRoom`, `ReadMemberGroups`, `ReadMyOrgs`, `ReadMyGroups`, `JoinRooms` | `handleConnection` |
| `handleMessage`, `handleGroupMessage`, `forwardToPrivate`, `forwardToGroup` | `Find`, `CreateRow`, `Announce` or `Refuse` | `message`, `groupMessage`, forwards |
| `sendReaction`, `removeReaction` | `CreateReaction`, `FindReaction`, `DeleteReaction` | `react`, `removeReaction` |
| `unpin`, `handleDelete`, `messageSeen` | `UpdatePinned`, `DeleteMessage`, `FindUnseen`, `UpdateSeen` | handlers of these names |

### AuthSession

Accounts by phone, codes, devices, sessions, profiles, the change of a phone and additional
numbers. A login is `verifyOtp`, `FindCode`, `ClearCode`, `FindDevice`, `CreateDevice` or
`UpdateDevice`, `CreateSession` (HSET) and `ExpireSession` (EXPIRE): the server may stop
between the last two, and `orphaned` are the sessions that then never end. `checks` are
the bodies of `forEach(async ...)` in `connectAnotherPhones` and
`disconnectExistingPhones`, which no handler awaits; one that throws stops the server
(`CheckThrows`). Phones stand for their canonical form. Who may log in as whom, and the
secrecy of codes, is not a question of this model: clients enter the codes they were sent.

| Arrival | Then | Code |
|---|---|---|
| `sendOtp` | `RenewCode` or `CreateUser` | `auth.controller.ts`, `auth.service.ts` |
| `verifyOtp` | see above | `auth.controller.ts`, `device.service.ts`, `redis.service.ts` |
| `createDevice`, `updateDevice`, `deleteDevice` | `FindDevice`, ... | `device.controller.ts`, `device.service.ts` |
| `deleteUserSession`, `deleteMySessions` | `DeleteKeys`, `DeleteAll` | `session.controller.ts`, `redis.service.ts` |
| `completeProfile` | `SaveProfile` | `auth.controller.ts` |
| `requestPhoneChange`, `verifyPhoneChange` | `ComparePhone`, `AddRequest`; `FindRequest`, `DropRequests`, `ChangePhone` | `auth.controller.ts`, `auth.service.ts` |
| `connectAnotherPhones`, `disconnectExistingPhones` | `FindNumbers`, `InsertNumbers`; `DeleteNumbers` | `auth.controller.ts` |

### PhoneBook

What the tables of accounts promise about phones, without codes, devices, sessions or
requests: an account is entered under a phone nobody has and stays; it moves to a phone it
has wished for and that nobody has; numbers are linked to an account all or none, if none
of them is linked, and only their account gives them up. `AuthSession` implements it under
the mapping in `AuthSession!Book`: the wishes are the changes of phone asked for so far
(`asked`), whether or not their rows are still there. That no account shares its phone
with the additional number of another is not promised, because no constraint joins the
two tables.

### Tasks

Tasks with parent and position, their assignees and archives. `Permission` is what the
handlers check before they write: the group, and for the group of an org its people in a
read of their own. `updateTask` reads the task, computes who is to be added and who is to
go, and applies these differences in two statements before it saves the task; `undisturbed`
are the requests whose differences nobody has made stale, and a stop of the server
(`Restart`) may come between the statements. `getTaskByGroupId` is the list of a group, its
tasks without a parent; `Reachable` is what can be opened from there, one level after the
other. `WithSubtasks` is what the
cascade of the schema takes, stated as the least closed set. A removal and a reorder are one
transaction each, which fails as a whole. `PeopleChange` and `GroupDeleted` are what the
handlers of groups and orgs do meanwhile.

| Arrival | Then | Code |
|---|---|---|
| `createTask` | `FindGroup`, `FindMembers`, `FindParent`, `InsertSubtask`, `InsertAssignees` | `task.controller.ts`, `task.service.ts` |
| `AssignTask`, `removeTaskAssigned` | `FindAssigned`, `InsertAssignees`; `DeleteAssignee` | the same |
| `updateTask` | `FindTask`, `InsertAssignees`, `DropAssignees`, `SaveTask` | the same |
| `removeTask`, `reorderTasks` | `DeleteTask`, `UpdatePositions` | the same |
| `archiveTask`, `toggleArchiveUnarchiveTask`, `unarchiveTask`, `deleteArchiveTask` | `FindArchive`, `InsertArchive`, `SetArchive`, `DeleteArchive` | the same |

### How the modules fit together

`PrivateChat` and `ChatGateway` (through `ChatLists`) are two sets of handlers over the one
store of `MessageStore`; `OrgMembership` and `OrgGroups` two over the one `OrgTables`.
Where a component sees another only through a row that comes or goes, that is an action of
its own (`deleteOrgGroup` in `PrivateChat`, `GroupRowsChange` in `ChatGateway`,
`PeopleChange` in `Tasks`). `Requests` is shared by `OrgGroups`,
`ChatGateway`, `AuthSession` and `Tasks`.

## 4. What is checked

| Run | Checks | Shows |
|---|---|---|
| `chat_threads` (ChatThreads.cfg) | `TypeOK`, `RefIntegrity`, `ReactionsDistinct`, `ImplementsForest` | Threads of replies and forwards across both tables, looked up in one step and inserted in another while deletes cut them; and two requests in flight on one message of each table, with reactions, saved messages and group deletions. Nothing dangles, no reaction is there twice, and each removal takes exactly the thread below its root. |
| `chat_answers` (ChatAnswers.cfg) | `RequestsEnd`, `UnsentStaysGone`, `BatchHideApplied`, `MarksStick`, `MarksNeverUndone` | With two requests in flight every one of them ends; an accepted unsend removes its message for good; each message walked by a multiple delete gets its flag, also when the request is refused half-way; a seen mark and the hiding of a group message take hold and are never undone, unless the server died; and no step takes a mark or a removal back. |
| `unsend_seen` (UnsendSeen.cfg, violated) | `UnsendOnlyUnseen` | An unsend that passed its check removes a message that has been seen since. |
| `receiver_delete` (ReceiverDelete.cfg, violated) | `ReceiverDeletesForThemselves` | The delete of the receiver takes back the delete of the sender. |
| `gateway` (Gateway.cfg) | `TypeOK`, `SteadyInRooms`, `ChatsListed`, `RecentListed`, `ImplementsForest`, `WritesAreAnnounced` | Two clients connect, disconnect and use every handler of the gateway, two requests in flight, while orgs go, groups come and go, members leave and the server restarts: rooms, announcements, the lists of chats, and that what they do to messages is the forest's. |
| `auth` (Auth.cfg) | `TypeOK`, `AccountsDistinct`, `SessionsAwaited`, `ImplementsPhoneBook`, `SessionsEnd`, `ConnectedTogether` | Two requests at a time sign up, log in, change phones, complete profiles and link numbers, each statement on its own, codes expire and the server may stop: accounts stay distinct and the tables a phone book, every session expires or has a login in flight that will see to that, unless the server stopped while it was written, a phone changes only as its user asked, and the numbers of a request are linked together or not at all. |
| `linked_numbers` (LinkedNumbers.cfg, violated) | `LegalNumbersPass` | A request for a new additional number is refuted by the row it has inserted itself, because its checks are not awaited; what they throw stops the server. |
| `deleted_sessions` (DeletedSessions.cfg, violated) | `AllSessionsDeleted` | Deleting all sessions of a user leaves every one of them in Redis. |
| `org_entries` (OrgEntries.cfg) | `OneMembership`, `EntriesApplied` | Two requests that found, close, add, register, promote or remove at the same time: a person is in an org once, and of the statements that a request starts together those that can be applied are, though others fail and the request answers an error. |
| `org_invitations` (OrgInvitations.cfg) | `TypeOK`, `OrgReferences`, `ImplementsLedger`, `ApprovalsHold`, `ApprovedJoins` | Invitations and transfers asked for, answered and deleted while members are added and removed and the org is deleted: nothing dangles, the tables are a ledger of memberships and claims, no step turns an approval under way into nothing, and it makes a member. |
| `tasks` (Tasks.cfg) | `TypeOK`, `TaskReferences`, `ArchivedOnce`, `AssigneesUpdated`, `ReorderedTogether`, `StaysReachable` | Two requests at a time create, update, assign, move, reorder, archive and remove tasks while the people of the group change: nothing is left behind by a removal, a task is archived once per user, an undisturbed update leaves the assignees it was asked for and has them all in before it takes anybody out, so that a stop of the server leaves nobody out, a list is reordered as a whole, and a task that can be reached from the list of its group can be reached until it is removed, unless a move makes an island of its branch. |
| `groups` (Groups.cfg) | `TypeOK`, `GroupReferences`, `OneConnectorGroup`, `LeaversAreOut`, `ImplementsRoster`, `EvictedTogether` | Groups made, renamed, pinned and deleted, administrators made and removed, members who leave or are removed, connectors and polls, two requests at a time, while the org they belong to changes and goes and the server stops: nothing dangles, people only leave groups and vote once, who is said to have left is out unless the server stopped between the notice and the deletion, and every step is one the abstract roster allows. |

**Parts and scopes.** The operations of a component are many and most of them do not
touch the same rows. A behaviour of a run keeps to one part (`Parts`, chat) or to one set
of operations (`Scopes`, the other modules), chosen in the initial state; each set puts
together the operations that meet in the same rows. Every operation is in some set.

**Bounds.** `ChatThreads`: the part `threads` has two messages in each table, the smallest
instance in which a thread has three levels and crosses from one table to the other and
back (a private message, its forward to a group, the forward of that to a private chat, a
reply), with one request in flight; the part `races` has one message in each table and
two requests in flight, all that a race on one message needs, and both rows a saved
message refers to. `ChatAnswers` has three users, so that a multiple delete can hold a
message of two others (the first message is one user's, since users are interchangeable), and two requests, so that the server can die with one of them in
flight; its part `marks` has one user and two messages: one can be marked, pinned or
archived while the other is.

`OrgEntries` and `OrgInvitations` have one person registered at the start (so that both
branches of adding by phone run and a person can be registered by one request while
another looks him up), one org, and two requests in flight. `OrgEntries` has two more
people, both in every list that is sent (`Lists`), so that one of two statements that run
together can fail; those who send requests (`Clients`) and those named one at a time
(`Named`) are one each. One invitation and one transfer suffice for `OrgInvitations`: what
can go wrong is an answer, a deletion and the deletion of the org around the same row; an
invitation inserted between a look-up that missed it and its update (`SetStatusUnseen`)
would be a second one and is left to the theorems. The org's sequence ends at one, so a
second `createOrganization` fails. What a further person, org or request adds is left to
the theorems.

`Groups` starts from any members and administrators of one group, of the org or personal.
Two clients send requests, two at a time; where several members are removed at once a
third person is around, so that one of two can be gone when the transaction runs, and the
members are in the org all or none. Where connectors are
asked for, either one person has asked for the org or all have, so that two requests of one
org are approved as well. The server may stop in the scopes `{"evict", "leave", "stop"}`
and `{"admin", "stop"}`, between a notice and the removal it announces. Three group ids leave room for a second connector
group; where groups are created the ids before the last are used up.

`Gateway` has two clients of three users, so that somebody in a conversation can be
without a socket; a group of an org and a personal one, a message in each table, one
reaction, and two requests in flight. `MaxHistory` = 3 messages, from and to anybody, are
what the lists are computed from: three partners or both directions of one conversation
with another in between. Everybody starts as a member of every group there is. In scopes
without `connect` everybody is connected and in all rooms; in those with `org` anybody owns
the org and some groups are yet to be created.

`Auth` has two accounts, three phones (one for each and one to change to), two devices and
two requests in flight. `MaxNumbers` and `MaxChecks` bound the numbers of a request and
the checks nobody waits for, `MaxAsked` the changes of phone asked for. A behaviour starts
without users (`signup`), with one (`alone`) or with two. One session id for each user is
enough to see one end while nothing else is there.

`Tasks` starts with a task and its subtask in one group, of the org or personal; one more
task can be made, two archived. Where tasks are moved they start as a chain of three, so
that one can go under the task below it with another one further down, and none is made
meanwhile. The server may stop while tasks are updated and removed. The client is the owner of the one group and a member of
the other; somebody else can be assigned, leave and join. Lists to reorder are all lists
of known tasks without repetition.

Users and reaction types are interchangeable in `ChatThreads`, slots in `Groups` and
`Tasks`, and declared symmetric there; no run with liveness has a symmetry. Deadlock is
not checked: a server without requests stops.

**Fairness.** The specifications of the chat, organisations, gateway and accounts have
`WF(Proceed(s))` for each slot: a request in flight goes on. The event loop runs every
continuation that is ready, and PostgreSQL and Redis answer every statement. Accounts add
`WF(SessionExpires(k))` for a key that has its expiry: Redis drops it some day. No request
is ever forced to arrive, no socket to connect, and no other time need pass. Groups and
tasks have safety properties only and state no fairness.

**Stops of the server.** An action of each component ends all requests in flight and keeps
the tables: `ServerDies` (organisations) and `Restart` (gateway, accounts, groups, tasks)
may come between any two statements, `Fatal` (chat) where a rejection is handled by nobody. Properties that wait for a
statement excuse the requests a stop has cut short; the ones about what is left behind
(`LeaversAreOut`, `AssigneesUpdated`, `SessionsAwaited`) say what a stop may leave.

**Findings.** Four runs show a disagreement between the code and what it says of itself:

* `unsend_seen`: an unsend checks `is_seen` and deletes in another statement; the message
  may have been seen in between.
* `receiver_delete`: the receiver's delete writes both flags, and shows the message to the
  sender again who had deleted it.
* `linked_numbers`: the checks of `connectAnotherPhones` run in `forEach(async ...)`, which
  nobody waits for. Such a check can find the number the request itself has just linked
  and throws "already linked as additional verification method for you!" where nobody
  catches it, which stops the server.
* `deleted_sessions`: "Delete All My Sessions" prefixes the keys it has read with
  `user_sessions:` once more and deletes keys that do not exist.

Seen while modelling, and in the models as the code has it, without a run of their own:

* Two toggles of one pin that are in flight together write the same value
  (`private-chat.controller.ts:499-525`).
* A multiple delete that is refused half-way has written some flags; the updates it leaves
  behind can end the process (`Fatal`, `private-chat.controller.ts:76-120`). The liveness
  properties of the chat hold only "unless the server dies", and `ChatAnswers` reaches
  such states.
* The look-up of a pending invitation and the insert are statements of their own, and two
  requests of one person both insert (`org-invite.controller.ts:44-51`).
* Of the members added by phone only those without a user get an invitation; the answer
  counts the others among the invited (`org-member.controller.ts:149-160`).
* The removal of an administrator writes that he left and deletes his row of the members,
  not that of the administrators (`org-group-members.controller.ts:177-193`).
* `addMultipleOrgGroupMembers` gives Prisma an object instead of a list and always fails
  (`org-group-members.service.ts:46-55`); the two rows of members an approved connector
  gets are the same row, and the unique pair refuses both (`connector.service.ts:76-84`);
  a connector request tests a promise and is always refused (`connector.controller.ts:29`).
* The filter "assigned to me" uses `every`, which a task without assignees satisfies
  (`task.service.ts:150`).
* A task can become a subtask of itself, or of one of its own subtasks: it and all below it
  are then no longer under any task of the list of their group (`task.service.ts:299`).
  `StaysReachable` names that update as the only one that takes a task out of reach.
* A stop of the server between the notice that somebody left and the removal leaves him in the group (`org-group-members.service.ts:79-90`).
  `LeaversAreOut` says which request has left such a notice behind.
* A group message with a caption that is refused has been inserted by then, and nobody is
  told of it (`private-chat.gateway.ts:161`).
* Permissions and roles are read before the statement they protect and not looked at again:
  the administrator of a group whose messages are archived together
  (`private-chat.controller.ts:144-160`), the member who has been made an owner before he is
  removed (`org-member.service.ts:205-218`).
* `react` looks for a reaction after it has created it and reports each new one as
  existing (`private-chat.gateway.ts:249`).
* A user with two device rows cannot log in any more: `updateMany` gives both rows the
  same device id, which the unique pair refuses (`device.service.ts:9`).
* `PATCH org/:requestId` and `GET auth/logout` are shadowed by routes declared before them.

## 5. What is proved

The proofs hold for every set of users, groups, reaction types and slots, every bound and
every activity. Liveness apart, they cover every invariant, every action property and
every refinement that a passing run checks. Their assumptions, which TLC evaluates in
every run of the component, are:

* `BoundsAssumption` (the bounds of the chat are naturals), `NullAssumption` ("no group"
  is the name of no group), `ActivityAssumption`, `NobodyAssumption` ("nobody" is the name
  of no user);
* `OrgBoundsAssumption` (naturals, finitely many people), `OrgActivityAssumption`;
* `GroupBoundsAssumption`, `TasksAssumption`: two ids at least, which the initial states
  use, clients are people, and "nobody" is nobody's name;
* `AuthAssumption`: there is an account, there are phones for all of them, and no suffix of
  a user name is the one that stands for "none";
* `GatewayAssumption`: somebody connects, two message ids at least, and each group has its
  org and its creator, or none.

Every component has the same argument. Its type invariant says what each row and variable
may be; its proof module adds `Call`, the set of what a handler may have to do next with
the locals it carries, which is where the values read before an `await` are. The inductive
invariant `IInv` joins the types of rows and of calls with what relates them. There is one
lemma per statement or stage of a handler, stating that it keeps `IInv`, and one per
property for what a step may do to it.

The chat (`MessageStore_proofs`, `PrivateChat_proofs`):

* **`TypeCorrect`**: `Spec => []TypeOK`. `TypeOK` is inductive. One lemma per statement of
  `MessageStore_proofs` shows that it keeps the tables' types, and `ArriveType`,
  `ProceedType` and `AtOnceType` that requests stay well-formed; the delicate part is that
  a request only ever holds statements about keys and rows of the right type although the
  rows may be gone when it runs.
* **`ReferencesIntact`**: `Spec => []RefIntegrity`. The invariant `RefsHold` of the store is
  inductive together with `TypeOK`. The argument turns on deletes: `CascadeClosed` shows
  that the least closed set is closed, so a row that survives a delete refers to no row
  that fell, except through the reference `Forget` clears. What the handlers looked up
  plays no role: an insert re-checks its references, and that is what the proof shows to
  be enough.
* **`ForestImplemented`**: `Spec => ImplementsForest`. Initial states map to initial states,
  and each step to a step of the forest or a stutter. `CascadeLeast` gives the second half
  of `GoesWith`: nothing falls that does not hang from something that fell. Updates map to
  stutters because they change neither what a row hangs from nor its group; a failed
  insert maps to `Lose`. One lemma per statement of the store (`CreatePosts`,
  `CascadePrunes`, `DeletePosts`, ...) says so in terms of `Posts` and `Used`; the gateway's
  proof uses the same ones.
* **`ReactionsUnique`**: `Spec => []ReactionsDistinct`, inductive alone: the insert asks for
  the pair (`AlreadyReacted`) in the same statement, whatever the handler found before.
* **`MarksStay`**: `Spec => MarksNeverUndone`. An insert writes a row of its own only because
  every id in use has been given out: `IdsGivenOut` is the strengthening, inductive with
  `TypeOK`. Updates leave the other columns as they are when the statement runs, not as the
  handler read them; deletes take rows and change only a forward reference. With fairness
  this is what `MarksStick` and `UnsentStaysGone` rest on: what is left of
  them is that the statement runs.

Organisations (`OrgTables_proofs`, `OrgMembership_proofs`):

* **`OrgTypeCorrect`, `OrgReferencesIntact`, `MembershipOnce`**: `Spec => []TypeOK`,
  `[]OrgReferences`, `[]OneMembership`, for every finite set of people, every set of
  slots, every bound and activity. They share one inductive invariant, `IInv`: the types of
  the tables and of the calls, the references, and uniqueness. None of the three is
  inductive alone: the references need the types, the types of a founded org its founder's
  row, and uniqueness the shape of the rows. `OrgTables_proofs` has one lemma per
  statement; `ProceedKeeps` one step per call, whose point is that the values a call kept
  have the right type when the statement runs. That nothing else about them is needed (not
  that the org still exists, nor that a person is still out) is the content of the
  theorem: the constraints alone keep the tables sound.
* **`LedgerImplemented`**: `Spec => ImplementsLedger`. Each statement is a step of the
  ledger or a stutter. `DrawnNames` says that drawn ids are names never used before;
  `InvitesRefine` covers one and several invitations inserted together; a role or a status
  is no part of the ledger, so their updates stutter. The rest goes by `IInv`.
* **`ApprovalsCarriedOn`**: `Spec => ApprovalsHold`. An approval is two statements that carry
  what was read of the invitation before them. `CallsFit` says that the org and the person
  a call carries are those of its invitation as long as the row is there, and `InvitesDrawn`
  that the row's id has been drawn, so that no later row can take its place. That what an
  invitation is about never changes is not proved again: it is read off the refinement of
  the ledger, whose claims do not change (`ClaimsStay`, `InvitesStay`). The same holds for
  the last statement: the invitation's row keeps org and person in place (`OrgReferences`),
  so the insert it protects can fail only for somebody who is a member already
  (`ApprovalProceeds`); what other requests do leaves both alone (`OthersLetIt`).

Groups (`OrgGroups_proofs`, over `OrgTables_proofs`):

* **`GroupsTypeCorrect`, `GroupReferencesIntact`, `VotesUnique`**: `IInv` is the tables of
  the org, the rows of groups (their types, ids in use below the next one, references, one
  vote) and the calls. A group goes only if nothing holds it (`WithoutGroupOK`), an org
  that goes leaves its groups without one (`OrgDeletedOK`), and whatever a request attaches
  to a group it looked up before asks for the group again (`AttachedOK`). The run checks
  `OneVote` as a part of `ImplementsRoster`.
* **`LeaversGone`**: `Spec => LeaversAreOut`. A notice and the removal it announces are
  two statements, and the server may stop between them: then, and only then, a notice is
  left of somebody who is still in the group and whom no request is about to take out.
  Nothing a request does makes somebody a member, so the notice stays true once the removal
  has run, and the slot that wrote it holds the removal until it runs or the server stops.
  This is an effect lemma for each call (`NoticeEffect`, `ProceedEffect`, `ArriveEffect`):
  members only go, notices come with their removal in the same slot.
* **`EvictionsWhole`**: `Spec => EvictedTogether`, from the type of the call.
* **`ConnectorGroupsCounted`**: `Spec => []OneConnectorGroup`. Connector groups of an org are
  counted against its connections: an approval makes one of each in one transaction
  (`ApproveEffect`), the unique pair refuses the second, no rename makes a group a
  connector group, and a connection never goes. That the sets are finite
  (`ConnectionsFinite`, `Countable`) is part of the induction, since cardinality says
  nothing about sets that are not.
* **`RosterKept`**: `Spec => ImplementsRoster`. One lemma for each kind of statement
  (`AddGroupRefines`, `ApproveRefines`, `GroupWritesRefine`, `AttachedRefine`, `VoteRefines`,
  `PollsRefine`, `OrgDeletedRefines`); names, pins, notices, first tasks and the requests themselves are no part of
  the roster (`SameRoster`, `SameDbRoster`). `IInv` gives what the guards do not: that a new
  id is fresh, that a ballot taken out is the only one of its voter in that poll, and that
  an org somebody deletes a second time has no group left to lose it (`OrgDeletedRefines`).

Tasks (`Tasks_proofs`):

* **`TasksTypeCorrect`, `TaskReferencesIntact`, `ArchivesUnique`**: `IInv` is the types, ids
  below the next one, the references, one archive for each user and task, and the calls.
  A removal takes the least set closed under subtasks, so no task that stays has a parent
  that went; assignees, subtasks and archives are inserted under their foreign keys.
* **`UpdatesApplied`**: `Spec => []AssigneesUpdated`. An update carries its later statements
  in its call, all about the same task (`Adds`, `Drops` in `Call`). Its invariant says what
  the assignees will be after the statements it has left, as long as the request is
  `undisturbed`; a step of anybody else that changes assignees ends that. Since those who
  are added come before those who are taken out (`AddLeaves`, `DropLeaves`), all who were
  asked for are assigned at every moment from then on, so that a stop leaves nobody out.
  The invariant speaks of the moment before the statement the request has come to, which
  is when a stop or an error would leave things as they are.
* **`ReordersWhole`**: `Spec => ReorderedTogether`; a list under reordering has no task twice
  (`Orders`).
* **`ReachKept`**: `Spec => StaysReachable`. What can be reached is the least set that holds
  the lists and is closed under subtasks, so a proof starts from any such set of the state
  after a step and makes one of the state before it. A step after which the tasks that are
  left have their parents and groups keeps all of them in reach (`StillReached`); an insert
  does so, and a removal because it takes whole branches (`CascadeReach`). A move leaves what
  is outside the branch it moves in reach, and the branch as well if it goes below a
  task in reach that is not its own (`MoveReach`); what is left is `TakenAlong`. Nothing is
  counted, so islands of any size are covered.

Accounts (`AuthSession_proofs`):

* **`AccountsTypeCorrect`, `AccountsStayDistinct`**: unique phones, user names and linked
  numbers, by the constraints each insert and update asks for (`Fits`). `TypeOK` is not
  inductive by itself: that an orphaned session exists needs that nothing gives it an
  expiry, hence `OrphansStay` (an orphan has no expiry) and, in `Sound`, that a request
  about to set an expiry does so for a session of its own login, which is no orphan.
* **`PhonesChangeAsAsked`**: `Spec => ChangedAsAsked`. The row that says what was asked for is
  looked up, all rows are dropped, and then the phone changes: by then no row is left to
  show it. The invariant keeps it in the call (`Granted`: the request's user has asked for
  the phone it carries) and in the rows (`RequestsAsked`). The run checks it as a part of
  `ImplementsPhoneBook`.
* **`NumbersConnectedTogether`**: `Spec => ConnectedTogether`; the insert of several numbers
  is one statement and fails as a whole.
* **`SessionsAlwaysAwaited`**: `Spec => []SessionsAwaited`. A login writes its session and
  gives it an expiry in two calls; a logout may delete the key and another login write it
  again in between. A step of another slot leaves the login in its place (`OtherSlots`,
  `StillAwaited`), the one that writes a session is its own witness (`LoginAwaited`), and a
  stop of the server turns every session without expiry into an orphan. The invariant
  needs the types of the calls, but no strengthening of its own.
* **`PhoneBookKept`**: `Spec => ImplementsPhoneBook`. One lemma per kind of statement
  (`SignUpRefines`, `WishRefines`, `MoveRefines`, `NumbersRefine`); everything else changes
  no phone, wish or number (`SameBook`, `PutAside`, `OthersRefine`). That a phone moves only
  as wished is what `Granted` and `RequestsAsked` keep; that it is free, and that no number
  is linked yet, is what the statements ask for again when they run (`Fits`).

The gateway (`ChatGateway_proofs`, over `MessageStore_proofs`):

* **`GatewayTypeCorrect`, `GatewayReferencesIntact`**: types and references of the store
  under the second set of handlers; the lemmas of `MessageStore_proofs` are the same that
  `PrivateChat_proofs` uses.
* **`SteadyGroupsJoined`**: `Spec => []SteadyInRooms`. `Covers` says, stage by stage of
  `handleConnection`, what has been read so far of what its user had all the while: groups
  he is a member of from the first read on; after the second the orgs, and after the third
  the groups, of what he owns; those he created at the last. No room is joined
  before. Whatever comes or goes in between only makes `steady` smaller.
* **`ChatsAlwaysListed`, `RecentAlwaysListed`**: `Spec => []ChatsListed`, `[]RecentListed`,
  for any number of messages. Both lists are folds over the rows in the order of their
  ids. `FoldExists` shows that the fold of the library has the value its recursive equation
  gives, and the fold after each prefix is then compared with what should be listed so far
  (`ListedSoFar`, `KeptSoFar`): the argument is by the shortest prefix on which they differ
  (`WFMin` over `NatLessThanWellFounded`, since the induction theorems take an operator),
  and one more row keeps it. That private messages go to users (`PrivateToUsers`) is the
  strengthening the specification needs.
* **`GatewayKeepsForest`**: `Spec => ImplementsForest`, by the lemmas about the store's
  statements that `ForestImplemented` uses. A group that is created was `ahead`, one that
  goes takes the messages at home in it with everything that hangs from them.
* **`WritersStillTell`**: `Spec => []OwedInFlight`. Whoever was in a room when a request wrote
  is in one of its rooms until it announces: a socket only gets more rooms until it goes, one
  that goes is owed nothing more, and a request that has written has only announcing steps
  left (`Telling`).

Only model-checked are the liveness properties: `RequestsEnd`, `UnsentStaysGone`,
`BatchHideApplied`, `MarksStick`, `EntriesApplied`, `ApprovedJoins`,
`SessionsEnd` and `WritesAreAnnounced` need fairness and ENABLED, which are out of the
prover's reach. Their safety halves are theorems: `MarksStay` (what a statement has marked
stays marked), `ApprovalsCarriedOn` (an approval goes on until its person is a member),
`SessionsAlwaysAwaited` (a session without expiry has a login that will give it one) and
`WritersStillTell` (who is owed an announcement has a request that will make it). What is
left to TLC is that the statement they wait for runs. The four properties a run refutes
are of course not theorems.

## 6. Not modelled, and what comes next

Not modelled because nothing there can go wrong by interleaving or order: single-table
create/read/update/delete modules (quick replies, catalog, backup settings, reference
data, contacts), configuration, wiring, uploads to MinIO and Cloudinary, pushes to
Firebase and their schedule (the services are outside). Left out of the modelled parts:
captions, contents, names and timestamps where no property tells them apart, the read-only
queries that return rows as they are, and the HTTP layer's validation of bodies, whose
outcome is an input that is not enumerated. Next, in the order of the plan:

1. Safety halves of the remaining liveness properties: what a hide or an archive under way
   still has to write (`BatchHideApplied`, `MarksStick`).
2. Composition of `OrgGroups` with the messages of a group: today each deletes groups on
   its own account (`deleteOrgGroup` in `PrivateChat`, `deleteGroup` in `OrgGroups`).
3. Contacts and mutes, once they have a property that is not a look-up.

