---------------------------- MODULE ChatGateway ----------------------------
(***************************************************************************)
(* The WebSocket handlers of PrivateChatGateway over the message tables:   *)
(* the rooms a socket joins when it connects, what each handler writes and *)
(* whom it tells of it.                                                    *)
(*                                                                         *)
(* A user has at most one socket here.  The room of a user or of a group   *)
(* is named by the user or the group; an announcement goes to a set of     *)
(* rooms and reaches every socket in one of them once.                     *)
(***************************************************************************)
EXTENDS ChatLists, Requests

CONSTANTS
  Clients,    \* the users who connect a socket
  MaxHistory, \* the messages of a history that is only listed
  Orgs,       \* the orgs, which may be deleted
  Nobody,     \* no org, or no creator
  OrgOf,      \* the org of each group
  CreatedBy   \* createdBy of each group

ASSUME GatewayAssumption ==
  /\ Clients \subseteq Users /\ Clients # {} /\ Nobody \notin Users \union Orgs
  /\ MaxHistory \in 0..MaxMessages /\ MaxMessages > 1
  /\ OrgOf \in [Groups -> Orgs \union {Nobody}]
  /\ CreatedBy \in [Groups -> Users \union {Nobody}]

VARIABLES
  owner,      \* the owner of each org there is
  joined,     \* the pairs of a user and a group in OrgGroupMember
  ahead,      \* the groups that are yet to be created
  sockets,    \* the socket of each user
  steady,     \* what a user had without a break since he connected: the
              \* pairs of why he is in a group, and the group
  owed        \* the pairs of a user in a room a request has written
              \* something for, and the slot of the request

vars == <<storeVars, owner, joined, ahead, sockets, steady, owed, pending,
          scope>>

dbVars == <<storeVars, owner, joined, ahead>>

(* handleConnection goes through the stages in this order.                 *)
Stages == <<"closed", "open", "members", "orgs", "groups", "created",
            "joined">>

Socket == [ stage : Range(Stages), orgs : SUBSET Orgs,
            found : SUBSET Groups, rooms : SUBSET Groups ]

Offline == [stage |-> "closed", orgs |-> {}, found |-> {}, rooms |-> {}]

(* Why a user is in a group, each reason with a read of its own.           *)
Claims == {"member", "owner", "creator"} \X Groups

TypeOK ==
  /\ StoreTypeOK
  /\ DOMAIN owner \subseteq Orgs /\ Range(owner) \subseteq Clients
  /\ joined \subseteq Clients \X Groups
  /\ ahead \subseteq Groups
  /\ sockets \in [Clients -> Socket]
  /\ steady \in [Clients -> SUBSET Claims]
  /\ owed \subseteq Clients \X Slots

-----------------------------------------------------------------------------
(***************************************************************************)
(* Connecting.                                                             *)
(***************************************************************************)
(* Members of a group without an org are filtered out, and an org that is  *)
(* deleted leaves its groups without one.                                  *)
MemberGroups(u) ==
  {g \in groups : <<u, g>> \in joined /\ OrgOf[g] \in DOMAIN owner}

CreatedGroups(u) == {g \in groups : CreatedBy[g] = u}

GroupsOfOrgs(O) ==
  {g \in groups : OrgOf[g] \in O \intersect DOMAIN owner}

OwnedOrgs(u) == {o \in DOMAIN owner : owner[o] = u}

ClaimsOf(u) ==
  ({"member"} \X MemberGroups(u))
    \union ({"owner"} \X GroupsOfOrgs(OwnedOrgs(u)))
    \union ({"creator"} \X CreatedGroups(u))

(* The groups whose rooms handleConnection means u to be in.               *)
GroupsOf(u) == {c[2] : c \in ClaimsOf(u)}

(* A message of each table, the ids before theirs used up.  Any group will *)
(* do for it while everybody stays in the rooms of all of them.            *)
Stocked ==
  LET last == MaxMessages - 1
      u    == CHOOSE c \in Clients : TRUE
  IN  /\ \E v \in Clients, g \in Groups \ ahead :
           /\ u # v
           /\ scope \intersect {"connect", "org"} # {}
              \/ g = CHOOSE h \in Groups \ ahead : TRUE
           /\ msgs = [k \in Tables \X {last} |->
                        NewRow(u, IF k[1] = "private" THEN v ELSE g,
                               Null, Null)]
      /\ reactions = {} /\ saved = {}
      /\ nextId = [q \in Sequences |-> IF q \in Tables THEN last + 1 ELSE 1]

(* Any private messages, in a behaviour that only lists them.              *)
Listing ==
  /\ \E n \in 0..MaxHistory :
     \E rows \in [1..n -> Users \X Users] :
       /\ msgs = [k \in {"private"} \X (1..n) |->
                    NewRow(rows[k[2]][1], rows[k[2]][2], Null, Null)]
       /\ nextId = [q \in Sequences |-> IF q = "private" THEN n + 1 ELSE 1]
  /\ reactions = {} /\ saved = {}

(* A behaviour in which nobody connects starts with everybody connected;   *)
(* everybody is in all groups.  Where orgs and groups come and go, anybody *)
(* owns an org and some groups are not there yet.                          *)
Init ==
  /\ NoRequests
  /\ ahead \in SUBSET IF "org" \in scope THEN Groups ELSE {}
  /\ groups = Groups \ ahead
  /\ IF scope = {"list"} THEN Listing ELSE Stocked
  /\ owner \in [Orgs -> IF "org" \in scope THEN Clients
                       ELSE {CHOOSE u \in Clients : TRUE}]
  /\ joined = Clients \X groups
  /\ steady = [u \in Clients |-> IF "connect" \in scope THEN {}
                                 ELSE ClaimsOf(u)]
  /\ sockets = [u \in Clients |-> IF "connect" \in scope THEN Offline
                  ELSE [Offline EXCEPT !.stage = "joined",
                                       !.rooms = GroupsOf(u)]]
  /\ owed = {}

-----------------------------------------------------------------------------
(* Connecting.                                                             *)

(* The socket of u goes on to the next stage, with what it has read.       *)
Stage(u, from, to, socket) ==
  /\ sockets[u].stage = from
  /\ sockets' = [sockets EXCEPT ![u] = [socket EXCEPT !.stage = to]]
  /\ UNCHANGED <<dbVars, owed>>
  /\ Aside

Connect(u) ==
  /\ "connect" \in scope
  /\ Stage(u, "closed", "open", Offline)
  /\ steady' = [steady EXCEPT ![u] = ClaimsOf(u)]

JoinOwnRoom(u) ==
  Stage(u, "open", "members", sockets[u]) /\ UNCHANGED steady

ReadMemberGroups(u) ==
  /\ Stage(u, "members", "orgs",
           [sockets[u] EXCEPT !.found = MemberGroups(u)])
  /\ UNCHANGED steady

ReadMyOrgs(u) ==
  /\ Stage(u, "orgs", "groups", [sockets[u] EXCEPT !.orgs = OwnedOrgs(u)])
  /\ UNCHANGED steady

(* Faulty variant: the groups of the user's orgs replace those he is in.   *)
ReadMyGroupsOnly(u) ==
  /\ Stage(u, "groups", "created",
           [sockets[u] EXCEPT !.found = GroupsOfOrgs(sockets[u].orgs)])
  /\ UNCHANGED steady

ReadMyGroups(u) ==
  /\ Stage(u, "groups", "created",
           [sockets[u] EXCEPT !.found =
              @ \union GroupsOfOrgs(sockets[u].orgs)])
  /\ UNCHANGED steady

JoinRooms(u) ==
  /\ Stage(u, "created", "joined",
           [Offline EXCEPT !.rooms = sockets[u].found \union CreatedGroups(u)])
  /\ UNCHANGED steady

(* The client goes, or handleConnection refuses it.                        *)
Disconnect(u) ==
  /\ "connect" \in scope
  /\ sockets[u].stage # "closed"
  /\ sockets' = [sockets EXCEPT ![u] = Offline]
  /\ steady' = [steady EXCEPT ![u] = {}]
  /\ owed' = {d \in owed : d[1] # u}
  /\ UNCHANGED dbVars
  /\ Aside

(* The server dies and is started again.                                   *)
Restart ==
  /\ "connect" \in scope
  /\ sockets' = [u \in Clients |-> Offline]
  /\ steady' = [u \in Clients |-> {}]
  /\ owed' = {}
  /\ pending' = [s \in Slots |-> Idle]
  /\ UNCHANGED <<dbVars, scope>>

(* What HTTP handlers do to the rows rooms are made of.                    *)
GroupRowsChange ==
  /\ "org" \in scope
  /\ steady' = [u \in Clients |-> steady[u] \intersect ClaimsOf(u)']
  /\ UNCHANGED <<sockets, owed>>
  /\ Aside

OrgDeleted(o) ==
  /\ owner' = [i \in DOMAIN owner \ {o} |-> owner[i]]
  /\ UNCHANGED <<storeVars, joined, ahead>>
  /\ GroupRowsChange

(* Nobody is a member of a new group: every handler that would make him    *)
(* one fails (see addMultipleOrgGroupMembers and EnterBoth in OrgGroups).  *)
GroupCreated(g) ==
  /\ g \in ahead /\ OrgOf[g] \in DOMAIN owner \union {Nobody}
  /\ ahead' = ahead \ {g}
  /\ groups' = groups \union {g}
  /\ UNCHANGED <<msgs, reactions, saved, nextId, owner, joined>>
  /\ GroupRowsChange

MemberLeaves(u, g) ==
  /\ <<u, g>> \in joined
  /\ joined' = joined \ {<<u, g>>}
  /\ UNCHANGED <<storeVars, owner, ahead>>
  /\ GroupRowsChange

(* OrgGroupMember holds a group, its messages go with it.                  *)
GroupDeleted(g) ==
  /\ g \in groups /\ \A r \in joined : r[2] # g
  /\ deleteGroup(g)
  /\ UNCHANGED <<owner, joined, ahead>>
  /\ GroupRowsChange

-----------------------------------------------------------------------------
(***************************************************************************)
(* Writing and announcing.                                                 *)
(***************************************************************************)
Audience(rooms) ==
  {u \in Clients : /\ sockets[u].stage \notin {"closed", "open"}
                   /\ \/ u \in rooms
                      \/ sockets[u].rooms \intersect rooms # {}}

RoomsOf(k) == IF k[1] = "private" THEN {msgs[k].sender, msgs[k].to}
              ELSE {msgs[k].to}

connectionVars == <<owner, joined, ahead, sockets, steady>>

(* PrivateChatGuard authenticates the socket once more, whatever stage     *)
(* handleConnection has reached.                                           *)
Arrives(s, op, u, c) ==
  /\ op \in scope
  /\ sockets[u].stage # "closed"
  /\ Enter(s, u, c)
  /\ UNCHANGED <<storeVars, connectionVars, owed>>

(* A look-up, after which the handler goes on with c or emits an error.    *)
Check(s, ok, c) ==
  GoOnIf(s, ok, c) /\ UNCHANGED <<storeVars, connectionVars, owed>>

(* The writing statement of a handler: when the database takes it, those   *)
(* in the rooms are owed an announcement.                                  *)
Write(s, ok, statement, c) ==
  /\ GoOnIf(s, ok, c)
  /\ statement
  /\ owed' = IF ok THEN owed \union (Audience(c.rooms) \X {s}) ELSE owed
  /\ UNCHANGED connectionVars

Announcement(rooms) == [do |-> "announce", rooms |-> rooms]

(* Faulty variant: the client's own socket is left out, as client.to does. *)
AnnounceToOthers(s, c) ==
  /\ c.do = "announce"
  /\ owed' = owed \ ((Audience(c.rooms) \ {pending[s].by}) \X {s})
  /\ End(s)
  /\ UNCHANGED <<storeVars, connectionVars>>

Announce(s, c) ==
  /\ c.do = "announce"
  /\ owed' = owed \ (Audience(c.rooms) \X {s})
  /\ End(s)
  /\ UNCHANGED <<storeVars, connectionVars>>

(* The row is there, and nobody but the client, who is told that it        *)
(* failed, hears of it.                                                    *)
Refuse(s, c) ==
  /\ c.do = "refuse"
  /\ owed' = {d \in owed : d[2] # s}
  /\ End(s)
  /\ UNCHANGED <<storeVars, connectionVars>>

Lookup(k, then) == [do |-> "find", key |-> k, then |-> then]

Find(s, c) == c.do = "find" /\ Check(s, c.key \in Live, c.then)

-----------------------------------------------------------------------------
(***************************************************************************)
(* The handlers.                                                           *)
(***************************************************************************)
Creation(t, row, rooms, after) ==
  [do |-> "create", table |-> t, row |-> row, rooms |-> rooms, after |-> after]

(* A caption on a text is refused before anything is written; nothing is   *)
(* looked up, the foreign key alone checks replyToId.                      *)
handleMessage(s, u, v, replyTo) ==
  Arrives(s, "send", u,
    Creation("private", NewRow(u, v, replyTo, Null), {u, v}, "announce"))

(* A caption on a text is refused after the message is written.            *)
handleGroupMessage(s, u, g, replyTo, badCaption) ==
  Arrives(s, "post", u,
    Creation("group", NewRow(u, g, replyTo, Null), {g},
             IF badCaption THEN "refuse" ELSE "announce"))

(* The gateway finds the original, and so does the service.                *)
Forward(s, op, u, k, creation) ==
  Arrives(s, op, u, Lookup(k, Lookup(k, creation)))

(* The sockets of the sender are not told.                                 *)
forwardToPrivate(s, u, k, v) ==
  Forward(s, "forward", u, k,
    Creation("private", NewRow(u, v, Null, k), {v}, "announce"))

forwardToGroup(s, u, k, g) ==
  Forward(s, "share", u, k,
    Creation("group", NewRow(u, g, Null, k), {g}, "announce"))

CreateRow(s, c) ==
  /\ c.do = "create"
  /\ Write(s, ~Exhausted(c.table) /\ ReferencesHold(c.table, c.row),
           createMessage(c.table, c.row),
           [do |-> c.after, rooms |-> c.rooms])

sendReaction(s, u, k, e) ==
  Arrives(s, "react", u,
          Lookup(k, [do |-> "react", key |-> k, type |-> e]))

CreateReaction(s, c) ==
  /\ c.do = "react"
  /\ LET u == pending[s].by
     IN  Write(s, /\ c.key \in Live /\ ~Exhausted("reaction")
                  /\ ~AlreadyReacted(u, c.key, c.type),
               createReaction(u, c.key, c.type),
               [ do |-> "findReaction", key |-> c.key, type |-> c.type,
                 rooms |-> IF c.key \in Live THEN RoomsOf(c.key) ELSE {} ])

(* getReactionByMessageId: whoever has just reacted is told by an error    *)
(* that the reaction exists, and the reaction is announced all the same.   *)
FindReaction(s, c) ==
  c.do = "findReaction" /\ Check(s, TRUE, Announcement(c.rooms))

removeReaction(s, u, r) ==
  /\ r.userId = u
  /\ Arrives(s, "react", u, [do |-> "unreact", reaction |-> r])

DeleteReaction(s, c) ==
  /\ c.do = "unreact"
  /\ Write(s, c.reaction \in reactions, deleteReaction(c.reaction.id),
           Announcement(IF c.reaction \in reactions
                        THEN RoomsOf(c.reaction.key) ELSE {}))

(* The three handlers that change one row of a message, and announce the   *)
(* row the statement returned.                                             *)
WriteMessage(s, c, statement) ==
  Write(s, c.key \in Live, statement,
        Announcement(IF c.key \in Live THEN RoomsOf(c.key) ELSE {}))

unpin(s, u, k, pin) ==
  Arrives(s, "pin", u, [do |-> "pin", key |-> k, pin |-> pin])

UpdatePinned(s, c) ==
  c.do = "pin" /\ WriteMessage(s, c, updateMessageIsPinned(c.key, c.pin))

handleDelete(s, u, k) ==
  Arrives(s, "delete", u, [do |-> "delete", key |-> k])

DeleteMessage(s, c) ==
  /\ c.do = "delete"
  /\ WriteMessage(s, c, IF c.key[1] = "private" THEN deleteMessage(c.key)
                        ELSE archiveMessages({c.key}))

messageSeen(s, u, k) ==
  Arrives(s, "seen", u, [do |-> "findUnseen", key |-> k])

(* A message that is gone fails, one that has been seen ends in silence.   *)
FindUnseen(s, c) ==
  /\ c.do = "findUnseen"
  /\ Check(s, c.key \in Live /\ ~msgs[c.key].is_seen,
           [do |-> "seen", key |-> c.key])

UpdateSeen(s, c) ==
  c.do = "seen" /\ WriteMessage(s, c, updateMessageSeen(c.key))

-----------------------------------------------------------------------------
(* The messages clients may have been told of; they write to clients.      *)
KnownKeys == Used

Arrive(s, u) ==
  \/ \E v \in Clients, r \in KnownKeys \union {Null} :
       /\ r[1] # "group"
       /\ handleMessage(s, u, v, r)
  \/ \E g \in Groups, r \in KnownKeys \union {Null}, bad \in BOOLEAN :
       /\ r[1] # "private"
       /\ handleGroupMessage(s, u, g, r, bad)
  \/ \E k \in KnownKeys :
       \/ \E v \in Clients : forwardToPrivate(s, u, k, v)
       \/ \E g \in Groups : forwardToGroup(s, u, k, g)
       \/ \E e \in Emojis : sendReaction(s, u, k, e)
       \/ \E pin \in BOOLEAN : unpin(s, u, k, pin)
       \/ handleDelete(s, u, k)
       \/ messageSeen(s, u, k)
  \/ \E r \in reactions : removeReaction(s, u, r)

Proceed(s) ==
  LET c == pending[s].call
  IN  \/ Find(s, c) \/ CreateRow(s, c) \/ CreateReaction(s, c)
      \/ FindReaction(s, c) \/ DeleteReaction(s, c) \/ UpdatePinned(s, c)
      \/ DeleteMessage(s, c) \/ FindUnseen(s, c) \/ UpdateSeen(s, c)
      \/ Announce(s, c) \/ Refuse(s, c)

SocketStep(u) ==
  \/ Connect(u) \/ JoinOwnRoom(u) \/ ReadMemberGroups(u) \/ ReadMyOrgs(u)
  \/ ReadMyGroups(u) \/ JoinRooms(u) \/ Disconnect(u)

Next ==
  \/ \E s \in Slots : Proceed(s) \/ \E u \in Clients : Arrive(s, u)
  \/ \E u \in Clients : SocketStep(u)
  \/ \E o \in DOMAIN owner : OrgDeleted(o)
  \/ \E u \in Clients, g \in Groups : MemberLeaves(u, g)
  \/ \E g \in Groups : GroupCreated(g) \/ GroupDeleted(g)
  \/ Restart

(* A statement and an emission of a request in flight are not put off for  *)
(* ever; clients and sockets need do nothing.                              *)
Spec == Init /\ [][Next]_vars /\ \A s \in Slots : WF_vars(Proceed(s))

-----------------------------------------------------------------------------
(***************************************************************************)
(* Properties.                                                             *)
(***************************************************************************)

(* A socket that has connected is in the room of every group its user has  *)
(* been a member of, owned the org of or created, without a break since:   *)
(* each of the three is read at a moment of its own, and what else the     *)
(* reads find may have come or gone in between.                            *)
SteadyInRooms ==
  \A u \in Clients : sockets[u].stage = "joined" =>
                     \A c \in steady[u] : c[2] \in sockets[u].rooms

(* The lists of ChatLists, computed between requests.                      *)
Quiet == \A s \in Slots : ~InFlight(s)

ChatsListed  == Quiet => MyChatsRight
RecentListed == Quiet => RecentRight

(* The handlers keep the tables a MessageForest, while the groups and the  *)
(* orgs they look at come and go: what they insert after a look-up hangs   *)
(* from nothing that is gone by then, and what they delete takes exactly   *)
(* its thread.                                                             *)
Forest == INSTANCE MessageForest WITH
  Names     <- Keys,
  Removable <- PrivateKeys,
  Homes     <- Groups,
  NoHome    <- Null,
  posts     <- Posts,
  used      <- Used,
  homes     <- groups,
  vacant    <- ahead

ImplementsForest == Forest!ForestSpec

(* Whatever a handler writes is announced to everybody who was in the room *)
(* when it was written and has not disconnected, unless the client is told *)
(* that it failed.                                                         *)
WritesAreAnnounced ==
  \A u \in Clients, s \in Slots : <<u, s>> \in owed ~> <<u, s>> \notin owed
=============================================================================
