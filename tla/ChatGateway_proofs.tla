------------------------- MODULE ChatGateway_proofs -------------------------
(***************************************************************************)
(* Theorems about ChatGateway for every set of clients, groups, orgs and   *)
(* slots, every bound and every mix of operations.                         *)
(***************************************************************************)
EXTENDS ChatGateway, MessageStore_proofs, FiniteSetTheorems, SequenceTheorems

(***************************************************************************)
(* What the handler of a request may have to do next, with its locals.     *)
(***************************************************************************)
Rooms == SUBSET (Users \union Groups)

Announcings == [do : {"announce", "refuse"}, rooms : Rooms]

Followups == [ do : {"findReaction"}, key : Keys, type : Emojis,
               rooms : Rooms ]

Creations ==
  {c \in [ do : {"create"}, table : Tables, row : Row, rooms : Rooms,
           after : {"announce", "refuse"} ] :
     c.table = "private" => c.row.to \in Users}

Reactings == [do : {"react"}, key : Keys, type : Emojis]

Retractions == [do : {"unreact"}, reaction : Reaction]

Pinnings == [do : {"pin"}, key : Keys, pin : BOOLEAN]

Changes == [do : {"delete", "findUnseen", "seen"}, key : Keys]

Lookups == [do : {"find"}, key : Keys, then : Creations \union Reactings]

Forwards == [do : {"find"}, key : Keys, then : Lookups]

Call == Announcings \union Followups \union Creations \union Reactings
          \union Retractions \union Pinnings \union Changes \union Lookups
          \union Forwards

(* The steps of a request that has written and has yet to tell of it.      *)
Telling == {"findReaction", "announce", "refuse"}

Request == [by : Clients, call : Call]

PendingOK == pending \in [Slots -> Request \union {Idle}]

(***************************************************************************)
(* What handleConnection has read so far covers what its user had all the  *)
(* while, for each reason from the read that finds it on; and no room of a *)
(* group is joined before the last of the reads.                           *)
(***************************************************************************)
Covers(socket, claims) ==
  /\ socket.stage # "joined" => socket.rooms = {}
  /\ \A c \in claims :
       /\ socket.stage \in {"orgs", "groups", "created"} =>
            (c[1] = "member" => c[2] \in socket.found)
       /\ socket.stage = "groups" =>
            (c[1] = "owner" => OrgOf[c[2]] \in socket.orgs)
       /\ socket.stage = "created" =>
            (c[1] = "owner" => c[2] \in socket.found)
       /\ socket.stage = "joined" => c[2] \in socket.rooms

SteadyOK == \A u \in Clients : /\ steady[u] \subseteq ClaimsOf(u)
                               /\ Covers(sockets[u], steady[u])

(* What is emitted to the rooms reaches the socket of u.                   *)
Reaches(rooms, u, socket) ==
  /\ socket.stage \notin {"closed", "open"}
  /\ u \in rooms \/ socket.rooms \intersect rooms # {}

(* Whoever is owed an announcement is in the rooms of a request that has   *)
(* written and has not told of it yet.                                     *)
OwedInFlight ==
  \A d \in owed :
    /\ pending[d[2]].call.do \in Telling
    /\ Reaches(pending[d[2]].call.rooms, d[1], sockets[d[1]])

(* The inductive invariant.                                                *)
IInv == TypeOK /\ RefsHold /\ PendingOK /\ SteadyOK /\ OwedInFlight

-----------------------------------------------------------------------------
(* The slots.                                                              *)

(* What a call says it does determines which locals it has.                *)
LEMMA CallKinds ==
  ASSUME NEW c \in Call
  PROVE  /\ c.do \in {"announce", "refuse"} => c \in Announcings
         /\ c.do = "findReaction" => c \in Followups
         /\ c.do = "create" => c \in Creations
         /\ c.do = "react" => c \in Reactings
         /\ c.do = "unreact" => c \in Retractions
         /\ c.do = "pin" => c \in Pinnings
         /\ c.do \in {"delete", "findUnseen", "seen"} => c \in Changes
         /\ c.do = "find" => c \in Lookups \union Forwards
         /\ c.do # "idle"
BY DEF Call, Announcings, Followups, Creations, Reactings, Retractions,
       Pinnings, Changes, Lookups, Forwards

(* A slot whose handler has something to do holds a request.               *)
LEMMA BusyRequest ==
  ASSUME PendingOK, NEW s \in Slots, pending[s].call.do # "idle"
  PROVE  /\ pending[s] \in Request /\ pending[s].by \in Clients
         /\ pending[s].call \in Call
BY DEF PendingOK, Request, Idle

LEMMA SlotKeeps ==
  ASSUME PendingOK, NEW s \in Slots, NEW r \in Request \union {Idle},
         pending' = [pending EXCEPT ![s] = r]
  PROVE  PendingOK' /\ pending'[s] = r
BY DEF PendingOK

(* The handler of s goes on with c when ok holds, or ends.                 *)
LEMMA GoOnIfKeeps ==
  ASSUME PendingOK, NEW s \in Slots, pending[s] \in Request,
         NEW ok, NEW c, ok => c \in Call, GoOnIf(s, ok, c)
  PROVE  /\ PendingOK'
         /\ \A t \in Slots \ {s} : pending'[t] = pending[t]
         /\ pending'[s] = IF ok THEN [pending[s] EXCEPT !.call = c]
                          ELSE Idle
         /\ ok => pending'[s].call = c
<1>1. CASE ok
  <2>1. PICK r : r = [pending[s] EXCEPT !.call = c]
    OBVIOUS
  <2>2. r \in Request /\ r.call = c
    BY <1>1, <2>1 DEF Request
  <2>3. pending' = [pending EXCEPT ![s] = r]
    BY <1>1, <2>1 DEF GoOnIf, GoOn, PendingOK
  <2>4. QED
    BY <1>1, <2>1, <2>2, <2>3 DEF PendingOK
<1>2. CASE ~ok
  BY <1>2 DEF GoOnIf, End, PendingOK
<1>3. QED
  BY <1>1, <1>2

LEMMA AudienceReached ==
  ASSUME NEW rooms
  PROVE  Audience(rooms) = {u \in Clients : Reaches(rooms, u, sockets[u])}
BY DEF Audience, Reaches

(* Only the request in slot s moves, and whoever it owes something then    *)
(* is told by what it has to do next.                                      *)
LEMMA OwedKeeps ==
  ASSUME OwedInFlight, owed \subseteq Clients \X Slots, NEW s \in Slots,
         sockets' = sockets,
         \A t \in Slots \ {s} : pending'[t] = pending[t],
         \A d \in owed' : d \in owed \/ d \in Clients \X {s},
         \A d \in owed' : d[2] = s =>
           /\ pending'[s].call.do \in Telling
           /\ Reaches(pending'[s].call.rooms, d[1], sockets[d[1]])
  PROVE  OwedInFlight'
<1> SUFFICES ASSUME NEW d \in owed'
             PROVE  /\ pending'[d[2]].call.do \in Telling
                    /\ Reaches(pending'[d[2]].call.rooms, d[1],
                               sockets'[d[1]])
  BY DEF OwedInFlight
<1>2. CASE d[2] = s
  BY <1>2
<1>3. CASE d[2] # s
  <2>1. d \in owed /\ d[2] \in Slots \ {s}
    BY <1>3
  <2>2. QED
    BY <2>1 DEF OwedInFlight
<1>4. QED
  BY <1>2, <1>3

-----------------------------------------------------------------------------
LEMMA ClaimsSame ==
  ASSUME UNCHANGED <<groups, owner, joined>>, NEW u
  PROVE  ClaimsOf(u)' = ClaimsOf(u)
BY DEF ClaimsOf, MemberGroups, GroupsOfOrgs, OwnedOrgs, CreatedGroups

(* The rows of groups and the sockets stay as they are.                    *)
LEMMA SteadySame ==
  ASSUME SteadyOK, UNCHANGED <<groups, owner, joined, sockets, steady>>
  PROVE  SteadyOK'
BY ClaimsSame DEF SteadyOK

LEMMA StoreSame ==
  ASSUME StoreTypeOK, RefsHold, UNCHANGED storeVars
  PROVE  StoreTypeOK' /\ RefsHold'
BY DEF storeVars, StoreTypeOK, RefsHold, SavedReferencesHold, Live

(* A look-up of the request in slot s.                                     *)
LEMMA CheckKeeps ==
  ASSUME IInv, NEW s \in Slots, pending[s] \in Request,
         pending[s].call.do \notin Telling,
         NEW ok, NEW c, ok => c \in Call, Check(s, ok, c)
  PROVE  IInv'
<1>1. /\ UNCHANGED <<storeVars, connectionVars, owed>> /\ GoOnIf(s, ok, c)
  BY DEF Check
<1>2. TypeOK' /\ RefsHold' /\ SteadyOK'
  BY <1>1, SteadySame, StoreSame
     DEF storeVars, connectionVars, IInv, TypeOK
<1>3. /\ PendingOK'
      /\ \A t \in Slots \ {s} : pending'[t] = pending[t]
  BY <1>1, GoOnIfKeeps DEF IInv
<1>4. \A d \in owed' : d \in owed /\ d[2] # s
  BY <1>1 DEF IInv, OwedInFlight
<1>5. OwedInFlight'
  BY <1>1, <1>3, <1>4, OwedKeeps DEF connectionVars, IInv, TypeOK
<1>6. QED
  BY <1>2, <1>3, <1>5 DEF IInv

(* The writing statement of the request in slot s.                         *)
LEMMA WriteKeeps ==
  ASSUME IInv, NEW s \in Slots, pending[s] \in Request,
         pending[s].call.do \notin Telling,
         NEW ok, NEW c, ok => c \in Call /\ c.do \in Telling,
         GoOnIf(s, ok, c), UNCHANGED <<groups, connectionVars>>,
         owed' = (IF ok THEN owed \union (Audience(c.rooms) \X {s})
                  ELSE owed),
         StoreTypeOK' /\ RefsHold'
  PROVE  IInv'
<1>0. ok => c \in Call
  OBVIOUS
<1>1. /\ PendingOK'
      /\ \A t \in Slots \ {s} : pending'[t] = pending[t]
      /\ ok => pending'[s].call = c
  <2>1. PendingOK' /\ \A t \in Slots \ {s} : pending'[t] = pending[t]
    BY <1>0, GoOnIfKeeps DEF IInv
  <2>2. CASE ok
    BY <1>0, <2>2, GoOnIfKeeps DEF IInv
  <2>3. QED
    BY <2>1, <2>2
<1>2. Audience(c.rooms) = {u \in Clients : Reaches(c.rooms, u, sockets[u])}
  BY AudienceReached
<1>3. owed \subseteq Clients \X Slots
  BY DEF IInv, TypeOK
<1>4. owed' \subseteq Clients \X Slots
  BY <1>2, <1>3
<1>5. TypeOK' /\ RefsHold' /\ SteadyOK'
  BY <1>4, SteadySame DEF connectionVars, IInv, TypeOK
<1>6. \A d \in owed : d[2] # s
  BY DEF IInv, OwedInFlight
<1>7. OwedInFlight'
  <2>1. \A d \in owed' : d \in owed \/ d \in Clients \X {s}
    BY <1>2
  <2>2. \A d \in owed' : d[2] = s =>
          /\ pending'[s].call.do \in Telling
          /\ Reaches(pending'[s].call.rooms, d[1], sockets[d[1]])
    BY <1>1, <1>2, <1>6
  <2>3. QED
    BY <1>1, <1>3, <2>1, <2>2, OwedKeeps DEF connectionVars, IInv
<1>8. QED
  BY <1>1, <1>5, <1>7 DEF IInv

(* A request that has written ends, and owes nothing any more.             *)
LEMMA ToldKeeps ==
  ASSUME IInv, NEW s \in Slots, End(s),
         UNCHANGED <<storeVars, connectionVars>>,
         owed' \subseteq owed, \A d \in owed' : d[2] # s
  PROVE  IInv'
<1>1. /\ PendingOK'
      /\ \A t \in Slots \ {s} : pending'[t] = pending[t]
  BY DEF End, IInv, PendingOK
<1>2. TypeOK' /\ RefsHold' /\ SteadyOK'
  BY SteadySame, StoreSame DEF storeVars, connectionVars, IInv, TypeOK
<1>3. OwedInFlight'
  BY <1>1, OwedKeeps DEF connectionVars, IInv, TypeOK
<1>4. QED
  BY <1>1, <1>2, <1>3 DEF IInv

-----------------------------------------------------------------------------
(* The steps of the handlers.                                              *)

LEMMA RoomsType ==
  ASSUME StoreTypeOK, NEW k
  PROVE  (IF k \in Live THEN RoomsOf(k) ELSE {}) \in Rooms
BY DEF StoreTypeOK, Row, RoomsOf, Rooms

LEMMA FindsKeep ==
  ASSUME IInv, NEW s \in Slots, pending[s] \in Request, NEW c \in Call,
         c = pending[s].call, Find(s, c) \/ FindUnseen(s, c)
  PROVE  IInv'
<1>1. CASE Find(s, c)
  <2>1. c.do = "find" /\ Check(s, c.key \in Live, c.then)
    BY <1>1 DEF Find
  <2>2. c \in Lookups \union Forwards
    BY <2>1, CallKinds
  <2>3. c.then \in Call
    BY <2>2 DEF Lookups, Forwards, Call
  <2>4. QED
    BY <2>1, <2>3, CheckKeeps DEF Telling
<1>2. CASE FindUnseen(s, c)
  <2> DEFINE d == [do |-> "seen", key |-> c.key]
             ok == c.key \in Live /\ ~msgs[c.key].is_seen
  <2>1. c.do = "findUnseen" /\ Check(s, ok, d)
    BY <1>2 DEF FindUnseen
  <2>2. c \in Changes
    BY <2>1, CallKinds
  <2>3. d \in Call
    BY <2>2 DEF Changes, Call
  <2> HIDE DEF d, ok
  <2>4. QED
    BY <2>1, <2>3, CheckKeeps DEF Telling
<1>3. QED
  BY <1>1, <1>2

(* A statement that inserts a message or a reaction.                       *)
LEMMA InsertsKeep ==
  ASSUME IInv, NEW s \in Slots, pending[s] \in Request, NEW c \in Call,
         c = pending[s].call, CreateRow(s, c) \/ CreateReaction(s, c)
  PROVE  IInv'
<1>0. StoreTypeOK /\ RefsHold
  BY DEF IInv, TypeOK
<1>1. CASE CreateRow(s, c)
  <2> DEFINE d  == [do |-> c.after, rooms |-> c.rooms]
             ok == ~Exhausted(c.table) /\ ReferencesHold(c.table, c.row)
  <2>1. c.do = "create" /\ c \in Creations
    BY <1>1, CallKinds DEF CreateRow
  <2>2. d \in Announcings /\ d.rooms = c.rooms
    BY <2>1 DEF Creations, Announcings
  <2>3. d \in Call /\ d.do \in Telling
    BY <2>2 DEF Announcings, Call, Telling
  <2>4. createMessage(c.table, c.row) /\ Write(s, ok, TRUE, d)
    BY <1>1 DEF CreateRow, Write
  <2>5. StoreTypeOK' /\ RefsHold' /\ groups' = groups
    <3>1. c.table \in Tables /\ c.row \in Row
      BY <2>1 DEF Creations
    <3>2. QED
      BY <1>0, <2>4, <3>1, CreateMessageType, CreateMessageRefs
         DEF createMessage
  <2> HIDE DEF d, ok
  <2>6. QED
    BY <2>1, <2>3, <2>4, <2>5, WriteKeeps DEF Write, Telling
<1>2. CASE CreateReaction(s, c)
  <2> DEFINE u  == pending[s].by
             rs == IF c.key \in Live THEN RoomsOf(c.key) ELSE {}
             d  == [ do |-> "findReaction", key |-> c.key, type |-> c.type,
                     rooms |-> rs ]
             ok == /\ c.key \in Live /\ ~Exhausted("reaction")
                   /\ ~AlreadyReacted(u, c.key, c.type)
  <2>1. c.do = "react" /\ c \in Reactings
    BY <1>2, CallKinds DEF CreateReaction
  <2>2. c.key \in Keys /\ c.type \in Emojis
    BY <2>1 DEF Reactings
  <2>3. rs \in Rooms
    BY <1>0, RoomsType
  <2>4. createReaction(u, c.key, c.type) /\ Write(s, ok, TRUE, d)
    BY <1>2 DEF CreateReaction, Write
  <2> HIDE DEF rs, ok
  <2>5. d \in Followups /\ d.do = "findReaction"
    BY <2>2, <2>3 DEF Followups
  <2> HIDE DEF d
  <2>6. StoreTypeOK' /\ RefsHold' /\ groups' = groups
    <3>1. u \in Users
      BY GatewayAssumption DEF Request
    <3>2. QED
      BY <1>0, <2>2, <2>4, <3>1, CreateReactionType, CreateReactionRefs
         DEF createReaction
  <2>7. QED
    BY <2>1, <2>4, <2>5, <2>6, WriteKeeps DEF Write, Call, Telling
<1>3. QED
  BY <1>1, <1>2

(* A statement that updates a row.                                         *)
LEMMA RowKeeps ==
  ASSUME StoreTypeOK, RefsHold, NEW k, NEW r, UpdateRow(k, r),
         k \in Live => /\ r \in Row /\ r.replyTo = msgs[k].replyTo
                       /\ r.fwdFrom = msgs[k].fwdFrom /\ r.to = msgs[k].to
  PROVE  StoreTypeOK' /\ RefsHold' /\ groups' = groups
BY UpdateRowType, UpdateRowRefs DEF UpdateRow

(* A statement that deletes or updates what is announced afterwards.       *)
LEMMA AnnouncedKeeps ==
  ASSUME IInv, NEW s \in Slots, pending[s] \in Request,
         pending[s].call.do \notin Telling, NEW ok, NEW rooms \in Rooms,
         Write(s, ok, TRUE, Announcement(rooms)),
         StoreTypeOK', RefsHold', groups' = groups
  PROVE  IInv'
<1>1. /\ Announcement(rooms) \in Announcings
      /\ Announcement(rooms).do = "announce"
  BY DEF Announcement, Announcings
<1>2. Announcement(rooms) \in Call /\ Announcement(rooms).do \in Telling
  BY <1>1 DEF Call, Telling
<1> DEFINE d == Announcement(rooms)
<1>3. Write(s, ok, TRUE, d)
  OBVIOUS
<1> HIDE DEF d
<1>4. d \in Call /\ d.do \in Telling
  BY <1>2 DEF d
<1>5. QED
  BY <1>3, <1>4, WriteKeeps DEF Write

LEMMA UpdatesKeep ==
  ASSUME IInv, NEW s \in Slots, pending[s] \in Request, NEW c \in Call,
         c = pending[s].call,
         \/ DeleteReaction(s, c) \/ UpdatePinned(s, c)
         \/ DeleteMessage(s, c) \/ UpdateSeen(s, c)
  PROVE  IInv'
<1>0. StoreTypeOK /\ RefsHold
  BY DEF IInv, TypeOK
<1> DEFINE rs == IF c.key \in Live THEN RoomsOf(c.key) ELSE {}
<1>1. rs \in Rooms
  BY <1>0, RoomsType
<1>2. CASE DeleteReaction(s, c)
  <2> DEFINE rooms == IF c.reaction \in reactions
                      THEN RoomsOf(c.reaction.key) ELSE {}
  <2>1. c.do = "unreact" /\ deleteReaction(c.reaction.id)
    BY <1>2 DEF DeleteReaction, Write
  <2>2. Write(s, c.reaction \in reactions, TRUE, Announcement(rooms))
    BY <1>2 DEF DeleteReaction, Write
  <2>3. StoreTypeOK' /\ RefsHold' /\ groups' = groups
    BY <1>0, <2>1
       DEF deleteReaction, StoreTypeOK, RefsHold, SavedReferencesHold, Live
  <2>4. rooms \in Rooms
    <3>1. CASE c.reaction \in reactions
      BY <1>0, <3>1, RoomsType DEF RefsHold
    <3>2. CASE c.reaction \notin reactions
      BY <3>2 DEF Rooms
    <3>3. QED
      BY <3>1, <3>2
  <2> HIDE DEF rooms
  <2>5. QED
    BY <2>1, <2>2, <2>3, <2>4, AnnouncedKeeps DEF Telling
<1>3. CASE UpdatePinned(s, c)
  <2>1. /\ c.do = "pin" /\ updateMessageIsPinned(c.key, c.pin)
        /\ Write(s, c.key \in Live, TRUE, Announcement(rs))
    BY <1>3 DEF UpdatePinned, WriteMessage, Write
  <2>2. c.pin \in BOOLEAN
    BY <2>1, CallKinds DEF Pinnings
  <2>3. c.key \in Live => msgs[c.key] \in Row
    BY <1>0 DEF StoreTypeOK
  <2>4. StoreTypeOK' /\ RefsHold' /\ groups' = groups
    BY <1>0, <2>1, <2>2, <2>3, RowKeeps, UpdatedRows
       DEF updateMessageIsPinned
  <2> HIDE DEF rs
  <2>5. QED
    BY <1>1, <2>1, <2>4, AnnouncedKeeps DEF Telling
<1>4. CASE DeleteMessage(s, c)
  <2>1. /\ c.do = "delete"
        /\ deleteMessage(c.key) \/ archiveMessages({c.key})
        /\ Write(s, c.key \in Live, TRUE, Announcement(rs))
    BY <1>4 DEF DeleteMessage, WriteMessage, Write
  <2>2. CASE deleteMessage(c.key)
    <3>1. /\ deleteRows({c.key} \intersect Live) /\ groups' = groups
          /\ {c.key} \intersect Live \subseteq Live /\ groups' \subseteq Groups
      BY <1>0, <2>2 DEF deleteMessage, StoreTypeOK
    <3>2. StoreTypeOK' /\ RefsHold'
      BY <1>0, <3>1, DeleteRowsType, DeleteRowsRefs DEF RefsHold
    <3> HIDE DEF rs
    <3>3. QED
      BY <1>1, <2>1, <3>1, <3>2, AnnouncedKeeps DEF Telling
  <2>3. CASE archiveMessages({c.key})
    <3>1. StoreTypeOK' /\ RefsHold' /\ groups' = groups
      BY <1>0, <2>3, ArchiveType, ArchiveRefs DEF archiveMessages
    <3> HIDE DEF rs
    <3>2. QED
      BY <1>1, <2>1, <3>1, AnnouncedKeeps DEF Telling
  <2>4. QED
    BY <2>1, <2>2, <2>3
<1>5. CASE UpdateSeen(s, c)
  <2>1. /\ c.do = "seen" /\ updateMessageSeen(c.key)
        /\ Write(s, c.key \in Live, TRUE, Announcement(rs))
    BY <1>5 DEF UpdateSeen, WriteMessage, Write
  <2>2. c.key \in Live => msgs[c.key] \in Row
    BY <1>0 DEF StoreTypeOK
  <2>3. StoreTypeOK' /\ RefsHold' /\ groups' = groups
    BY <1>0, <2>1, <2>2, RowKeeps, UpdatedRows DEF updateMessageSeen
  <2> HIDE DEF rs
  <2>4. QED
    BY <1>1, <2>1, <2>3, AnnouncedKeeps DEF Telling
<1>6. QED
  BY <1>2, <1>3, <1>4, <1>5

(* What is left to do once something is written.                           *)
LEMMA TellingsKeep ==
  ASSUME IInv, NEW s \in Slots, pending[s] \in Request, NEW c \in Call,
         c = pending[s].call,
         FindReaction(s, c) \/ Announce(s, c) \/ Refuse(s, c)
  PROVE  IInv'
<1>1. CASE FindReaction(s, c)
  <2> DEFINE d == Announcement(c.rooms)
  <2>1. /\ c.do = "findReaction" /\ GoOnIf(s, TRUE, d)
        /\ UNCHANGED <<storeVars, connectionVars, owed>>
    BY <1>1 DEF FindReaction, Check
  <2>2. c \in Followups
    BY <2>1, CallKinds
  <2>3. d \in Announcings /\ d.do = "announce" /\ d.rooms = c.rooms
    BY <2>2 DEF Followups, Announcings, Announcement
  <2> HIDE DEF d
  <2>4. /\ PendingOK' /\ pending'[s].call = d
        /\ \A t \in Slots \ {s} : pending'[t] = pending[t]
    BY <2>1, <2>3, GoOnIfKeeps DEF IInv, Call
  <2>5. TypeOK' /\ RefsHold' /\ SteadyOK'
    BY <2>1, SteadySame, StoreSame
       DEF storeVars, connectionVars, IInv, TypeOK
  <2>6. \A e \in owed' : e[2] = s =>
          /\ pending'[s].call.do \in Telling
          /\ Reaches(pending'[s].call.rooms, e[1], sockets[e[1]])
    BY <2>1, <2>3, <2>4 DEF IInv, OwedInFlight, Telling
  <2>7. OwedInFlight'
    BY <2>1, <2>4, <2>6, OwedKeeps DEF connectionVars, IInv, TypeOK
  <2>8. QED
    BY <2>4, <2>5, <2>7 DEF IInv
<1>2. CASE Announce(s, c)
  <2>1. /\ End(s) /\ owed' = owed \ (Audience(c.rooms) \X {s})
        /\ UNCHANGED <<storeVars, connectionVars>>
    BY <1>2 DEF Announce
  <2>2. \A d \in owed : d[2] = s => d \in Audience(c.rooms) \X {s}
    <3>1. Audience(c.rooms) =
            {u \in Clients : Reaches(c.rooms, u, sockets[u])}
      BY AudienceReached
    <3>2. QED
      BY <3>1 DEF IInv, TypeOK, OwedInFlight
  <2>3. QED
    BY <2>1, <2>2, ToldKeeps
<1>3. CASE Refuse(s, c)
  BY <1>3, ToldKeeps DEF Refuse
<1>4. QED
  BY <1>1, <1>2, <1>3

LEMMA ProceedKeeps ==
  ASSUME IInv, NEW s \in Slots, Proceed(s)
  PROVE  IInv'
<1>1. pending[s].call.do # "idle"
  BY DEF Proceed, Find, CreateRow, CreateReaction, FindReaction,
     DeleteReaction, UpdatePinned, DeleteMessage, FindUnseen, UpdateSeen,
     Announce, Refuse
<1>2. pending[s] \in Request /\ pending[s].call \in Call
  BY <1>1, BusyRequest DEF IInv
<1>3. PICK c \in Call : c = pending[s].call
  BY <1>2
<1>4. \/ Find(s, c) \/ CreateRow(s, c) \/ CreateReaction(s, c)
      \/ FindReaction(s, c) \/ DeleteReaction(s, c) \/ UpdatePinned(s, c)
      \/ DeleteMessage(s, c) \/ FindUnseen(s, c) \/ UpdateSeen(s, c)
      \/ Announce(s, c) \/ Refuse(s, c)
  BY <1>3 DEF Proceed
<1>5. QED
  BY <1>2, <1>3, <1>4, FindsKeep, InsertsKeep, UpdatesKeep, TellingsKeep

-----------------------------------------------------------------------------
(* Requests that arrive.                                                   *)

LEMMA ArrivesKeeps ==
  ASSUME IInv, NEW s \in Slots, NEW op, NEW u \in Clients, NEW c \in Call,
         Arrives(s, op, u, c)
  PROVE  IInv'
<1> DEFINE r == [by |-> u, call |-> c]
<1>1. /\ pending' = [pending EXCEPT ![s] = r]
      /\ pending[s] \in {Idle, Stopped}
      /\ UNCHANGED <<storeVars, connectionVars, owed>>
  BY DEF Arrives, Enter, InFlight
<1>2. r \in Request
  BY DEF Request
<1> HIDE DEF r
<1>3. PendingOK' /\ \A t \in Slots \ {s} : pending'[t] = pending[t]
  BY <1>1, <1>2 DEF IInv, PendingOK
<1>4. TypeOK' /\ RefsHold' /\ SteadyOK'
  BY <1>1, SteadySame, StoreSame
     DEF storeVars, connectionVars, IInv, TypeOK
<1>5. pending[s].call.do \in {"idle", "stopped"}
  BY <1>1 DEF Idle, Stopped
<1>6. \A d \in owed' : d \in owed /\ d[2] # s
  BY <1>1, <1>5 DEF IInv, OwedInFlight, Telling
<1>7. OwedInFlight'
  BY <1>1, <1>3, <1>6, OwedKeeps DEF connectionVars, IInv, TypeOK
<1>8. QED
  BY <1>3, <1>4, <1>7 DEF IInv

(* What handlers may insert.                                               *)
LEMMA CreationType ==
  ASSUME NEW t \in Tables, NEW u \in Users, NEW to \in Users \union Groups,
         NEW r \in Keys \union {Null}, NEW f \in Keys \union {Null},
         NEW rooms \in Rooms, NEW after \in {"announce", "refuse"},
         t = "private" => to \in Users
  PROVE  Creation(t, NewRow(u, to, r, f), rooms, after) \in Creations
<1>1. PICK row \in Row : row = NewRow(u, to, r, f) /\ row.to = to
  BY NewRowType DEF NewRow
<1>2. QED
  BY <1>1 DEF Creation, Creations

LEMMA ForwardKeeps ==
  ASSUME IInv, NEW s \in Slots, NEW op, NEW u \in Clients,
         NEW k \in Keys, NEW c \in Creations, Forward(s, op, u, k, c)
  PROVE  IInv'
<1>1. Lookup(k, c) \in Lookups
  BY DEF Lookup, Lookups
<1>2. Lookup(k, Lookup(k, c)) \in Forwards
  BY <1>1 DEF Lookup, Forwards
<1>3. QED
  BY <1>2, ArrivesKeeps DEF Forward, Call

LEMMA SendKeeps ==
  ASSUME IInv, NEW s \in Slots, NEW u \in Clients,
         NEW r \in KnownKeys \union {Null},
         \/ \E v \in Clients : handleMessage(s, u, v, r)
         \/ \E g \in Groups, bad \in BOOLEAN :
              handleGroupMessage(s, u, g, r, bad)
  PROVE  IInv'
<1>1. r \in Keys \union {Null} /\ u \in Users /\ Clients \subseteq Users
  BY GatewayAssumption DEF KnownKeys, Used
<1>2. ASSUME NEW v \in Clients, handleMessage(s, u, v, r)
      PROVE  IInv'
  <2>1. v \in Users /\ {u, v} \in Rooms /\ "private" \in Tables
    BY <1>1 DEF Rooms, Tables
  <2>2. Creation("private", NewRow(u, v, r, Null), {u, v}, "announce")
          \in Creations
    BY <1>1, <2>1, CreationType
  <2>3. QED
    BY <1>2, <2>2, ArrivesKeeps DEF handleMessage, Call
<1>3. ASSUME NEW g \in Groups, NEW bad \in BOOLEAN,
             handleGroupMessage(s, u, g, r, bad)
      PROVE  IInv'
  <2>1. {g} \in Rooms /\ "group" \in Tables
    BY DEF Rooms, Tables
  <2>2. \A after \in {"announce", "refuse"} :
          Creation("group", NewRow(u, g, r, Null), {g}, after) \in Creations
    BY <1>1, <2>1, CreationType
  <2>3. QED
    BY <1>3, <2>2, ArrivesKeeps DEF handleGroupMessage, Call
<1>4. QED
  BY <1>2, <1>3

LEMMA KeyKeeps ==
  ASSUME IInv, NEW s \in Slots, NEW u \in Clients, NEW k \in KnownKeys,
         \/ \E v \in Clients : forwardToPrivate(s, u, k, v)
         \/ \E g \in Groups : forwardToGroup(s, u, k, g)
         \/ \E e \in Emojis : sendReaction(s, u, k, e)
         \/ \E pin \in BOOLEAN : unpin(s, u, k, pin)
         \/ handleDelete(s, u, k)
         \/ messageSeen(s, u, k)
  PROVE  IInv'
<1>1. k \in Keys /\ u \in Users /\ Clients \subseteq Users
  BY GatewayAssumption DEF KnownKeys, Used
<1>2. ASSUME NEW v \in Clients, forwardToPrivate(s, u, k, v)
      PROVE  IInv'
  <2>1. v \in Users /\ {v} \in Rooms /\ "private" \in Tables
    BY <1>1 DEF Rooms, Tables
  <2>2. Creation("private", NewRow(u, v, Null, k), {v}, "announce")
          \in Creations
    BY <1>1, <2>1, CreationType
  <2>3. QED
    BY <1>1, <1>2, <2>2, ForwardKeeps DEF forwardToPrivate
<1>3. ASSUME NEW g \in Groups, forwardToGroup(s, u, k, g)
      PROVE  IInv'
  <2>1. {g} \in Rooms /\ "group" \in Tables
    BY DEF Rooms, Tables
  <2>2. Creation("group", NewRow(u, g, Null, k), {g}, "announce")
          \in Creations
    BY <1>1, <2>1, CreationType
  <2>3. QED
    BY <1>1, <1>3, <2>2, ForwardKeeps DEF forwardToGroup
<1>4. ASSUME NEW e \in Emojis, sendReaction(s, u, k, e)
      PROVE  IInv'
  <2>1. [do |-> "react", key |-> k, type |-> e] \in Reactings
    BY <1>1 DEF Reactings
  <2>2. Lookup(k, [do |-> "react", key |-> k, type |-> e]) \in Lookups
    BY <1>1, <2>1 DEF Lookup, Lookups
  <2>3. QED
    BY <1>4, <2>2, ArrivesKeeps DEF sendReaction, Call
<1>5. ASSUME NEW pin \in BOOLEAN, unpin(s, u, k, pin)
      PROVE  IInv'
  <2>1. [do |-> "pin", key |-> k, pin |-> pin] \in Pinnings
    BY <1>1 DEF Pinnings
  <2>2. QED
    BY <1>5, <2>1, ArrivesKeeps DEF unpin, Call
<1>6. CASE handleDelete(s, u, k)
  <2>1. [do |-> "delete", key |-> k] \in Changes
    BY <1>1 DEF Changes
  <2>2. QED
    BY <1>6, <2>1, ArrivesKeeps DEF handleDelete, Call
<1>7. CASE messageSeen(s, u, k)
  <2>1. [do |-> "findUnseen", key |-> k] \in Changes
    BY <1>1 DEF Changes
  <2>2. QED
    BY <1>7, <2>1, ArrivesKeeps DEF messageSeen, Call
<1>8. QED
  BY <1>2, <1>3, <1>4, <1>5, <1>6, <1>7

LEMMA ArriveKeeps ==
  ASSUME IInv, NEW s \in Slots, NEW u \in Clients, Arrive(s, u)
  PROVE  IInv'
<1>1. ASSUME NEW r \in reactions, removeReaction(s, u, r)
      PROVE  IInv'
  <2>1. r \in Reaction
    BY DEF IInv, TypeOK, StoreTypeOK
  <2>2. [do |-> "unreact", reaction |-> r] \in Retractions
    BY <2>1 DEF Retractions
  <2>3. QED
    BY <1>1, <2>2, ArrivesKeeps DEF removeReaction, Call
<1>2. QED
  BY <1>1, SendKeeps, KeyKeeps DEF Arrive

-----------------------------------------------------------------------------
(* The sockets.                                                            *)

(* The socket of u goes on, and what it is told of still reaches it.       *)
LEMMA SocketKeeps ==
  ASSUME IInv, NEW u \in Clients, NEW socket \in Socket, NEW claims,
         sockets' = [sockets EXCEPT ![u] = socket],
         steady' = [steady EXCEPT ![u] = claims],
         UNCHANGED <<dbVars, pending>>,
         claims \subseteq ClaimsOf(u), Covers(socket, claims),
         owed' \subseteq owed,
         \A d \in owed' : d[1] = u =>
           \A rooms : Reaches(rooms, u, sockets[u])
                        => Reaches(rooms, u, socket)
  PROVE  IInv'
<1>1. /\ sockets \in [Clients -> Socket]
      /\ steady \in [Clients -> SUBSET Claims]
      /\ groups \subseteq Groups /\ owed \subseteq Clients \X Slots
  BY DEF IInv, TypeOK, StoreTypeOK
<1>2. ClaimsOf(u) \subseteq Claims
  BY <1>1 DEF ClaimsOf, Claims, MemberGroups, GroupsOfOrgs, CreatedGroups
<1>3. /\ sockets' \in [Clients -> Socket] /\ sockets'[u] = socket
      /\ \A v \in Clients \ {u} : sockets'[v] = sockets[v]
  BY <1>1
<1>4. /\ steady' \in [Clients -> SUBSET Claims] /\ steady'[u] = claims
      /\ \A v \in Clients \ {u} : steady'[v] = steady[v]
  BY <1>1, <1>2
<1>5. TypeOK' /\ RefsHold'
  BY <1>1, <1>3, <1>4, StoreSame DEF dbVars, IInv, TypeOK
<1>6. SteadyOK'
  <2>1. \A v \in Clients : ClaimsOf(v)' = ClaimsOf(v)
    BY ClaimsSame DEF dbVars, storeVars
  <2>2. QED
    BY <1>3, <1>4, <2>1 DEF IInv, SteadyOK
<1>7. PendingOK'
  BY DEF IInv, PendingOK
<1>8. OwedInFlight'
  BY <1>1, <1>3 DEF IInv, OwedInFlight
<1>9. QED
  BY <1>5, <1>6, <1>7, <1>8 DEF IInv

(* A step of handleConnection after the first.                             *)
LEMMA StageKeeps ==
  ASSUME IInv, NEW u \in Clients, NEW from, NEW to, NEW socket,
         from # "closed", from # "open" => to # "open", to # "closed",
         Stage(u, from, to, socket), UNCHANGED steady,
         [socket EXCEPT !.stage = to] \in Socket,
         sockets[u].rooms \subseteq socket.rooms,
         Covers([socket EXCEPT !.stage = to], steady[u])
  PROVE  IInv'
<1>1. PICK new \in Socket : new = [socket EXCEPT !.stage = to]
  OBVIOUS
<1>2. /\ sockets' = [sockets EXCEPT ![u] = new]
      /\ UNCHANGED <<dbVars, pending>> /\ owed' = owed
      /\ sockets[u].stage = from
  BY <1>1 DEF Stage, Aside
<1>3. steady' = [steady EXCEPT ![u] = steady[u]]
  BY DEF IInv, TypeOK
<1>4. steady[u] \subseteq ClaimsOf(u)
  BY DEF IInv, SteadyOK
<1>5. new.stage = to /\ sockets[u].rooms \subseteq new.rooms
  BY <1>1 DEF Socket
<1>6. ASSUME NEW rooms, Reaches(rooms, u, sockets[u])
      PROVE  Reaches(rooms, u, new)
  BY <1>2, <1>5, <1>6 DEF Reaches
<1>7. QED
  BY <1>1, <1>2, <1>3, <1>4, <1>6, SocketKeeps

(* What the stages of a connection are.                                    *)
LEMMA StageNames ==
  Range(Stages) = {"closed", "open", "members", "orgs", "groups", "created",
                   "joined"}
BY DEF Range, Stages

LEMMA ClaimsWhy ==
  ASSUME NEW u, NEW c \in ClaimsOf(u)
  PROVE  /\ c[1] \in {"member", "owner", "creator"} /\ c[2] \in groups
         /\ c[1] = "member" => c[2] \in MemberGroups(u)
         /\ c[1] = "owner" => OrgOf[c[2]] \in OwnedOrgs(u)
         /\ c[1] = "creator" => c[2] \in CreatedGroups(u)
BY DEF ClaimsOf, MemberGroups, GroupsOfOrgs, OwnedOrgs, CreatedGroups

LEMMA SocketStepKeeps ==
  ASSUME IInv, NEW u \in Clients, SocketStep(u)
  PROVE  IInv'
<1>1. /\ sockets[u] \in Socket /\ groups \subseteq Groups
      /\ DOMAIN owner \subseteq Orgs
      /\ steady[u] \subseteq ClaimsOf(u) /\ Covers(sockets[u], steady[u])
  BY DEF IInv, TypeOK, StoreTypeOK, SteadyOK
<1>2. /\ MemberGroups(u) \subseteq Groups /\ OwnedOrgs(u) \subseteq Orgs
      /\ CreatedGroups(u) \subseteq Groups
      /\ \A O : GroupsOfOrgs(O) \subseteq Groups
  BY <1>1 DEF MemberGroups, OwnedOrgs, CreatedGroups, GroupsOfOrgs
<1>3. Offline \in Socket /\ Offline.rooms = {}
  BY StageNames DEF Offline, Socket
<1> DEFINE old == sockets[u]
<1>4. CASE Connect(u)
  <2>1. PICK new : new = [Offline EXCEPT !.stage = "open"]
    OBVIOUS
  <2>2. /\ sockets' = [sockets EXCEPT ![u] = new]
        /\ steady' = [steady EXCEPT ![u] = ClaimsOf(u)]
        /\ UNCHANGED <<dbVars, pending, owed>> /\ old.stage = "closed"
    BY <1>4, <2>1 DEF Connect, Stage, Aside
  <2>3. /\ new \in Socket /\ new.stage = "open" /\ new.rooms = {}
    BY <1>3, <2>1, StageNames DEF Socket
  <2>4. Covers(new, ClaimsOf(u))
    BY <2>3 DEF Covers
  <2>5. \A rooms : ~Reaches(rooms, u, old)
    BY <2>2 DEF Reaches
  <2>6. QED
    BY <2>2, <2>3, <2>4, <2>5, SocketKeeps
<1>5. CASE JoinOwnRoom(u)
  <2>1. Stage(u, "open", "members", old) /\ UNCHANGED steady
    BY <1>5 DEF JoinOwnRoom
  <2>2. old.stage = "open"
    BY <2>1 DEF Stage
  <2>3. [old EXCEPT !.stage = "members"] \in Socket
    BY <1>1, StageNames DEF Socket
  <2>4. Covers([old EXCEPT !.stage = "members"], steady[u])
    BY <1>1, <2>2 DEF Covers, Socket
  <2>5. QED
    BY <2>1, <2>3, <2>4, StageKeeps
<1>6. CASE ReadMemberGroups(u)
  <2>1. PICK s : s = [old EXCEPT !.found = MemberGroups(u)]
    OBVIOUS
  <2>2. Stage(u, "members", "orgs", s) /\ UNCHANGED steady
    BY <1>6, <2>1 DEF ReadMemberGroups
  <2>3. old.stage = "members" /\ old.rooms = {}
    BY <1>1, <2>2 DEF Stage, Covers
  <2>4. s \in Socket /\ s.found = MemberGroups(u) /\ s.rooms = {}
    BY <1>1, <1>2, <2>1, <2>3 DEF Socket
  <2>5. PICK new : new = [s EXCEPT !.stage = "orgs"]
    OBVIOUS
  <2>6. /\ new \in Socket /\ new.stage = "orgs" /\ new.rooms = {}
        /\ new.found = MemberGroups(u)
    BY <2>4, <2>5, StageNames DEF Socket
  <2>7. Covers(new, steady[u])
    BY <1>1, <2>6, ClaimsWhy DEF Covers
  <2>8. QED
    BY <2>2, <2>3, <2>4, <2>5, <2>6, <2>7, StageKeeps
<1>7. CASE ReadMyOrgs(u)
  <2>1. PICK s : s = [old EXCEPT !.orgs = OwnedOrgs(u)]
    OBVIOUS
  <2>2. Stage(u, "orgs", "groups", s) /\ UNCHANGED steady
    BY <1>7, <2>1 DEF ReadMyOrgs
  <2>3. old.stage = "orgs" /\ old.rooms = {}
    BY <1>1, <2>2 DEF Stage, Covers
  <2>4. /\ s \in Socket /\ s.orgs = OwnedOrgs(u) /\ s.found = old.found
        /\ s.rooms = {}
    BY <1>1, <1>2, <2>1, <2>3 DEF Socket
  <2>5. PICK new : new = [s EXCEPT !.stage = "groups"]
    OBVIOUS
  <2>6. /\ new \in Socket /\ new.stage = "groups" /\ new.rooms = {}
        /\ new.orgs = OwnedOrgs(u) /\ new.found = old.found
    BY <2>4, <2>5, StageNames DEF Socket
  <2>7. Covers(new, steady[u])
    BY <1>1, <2>3, <2>6, ClaimsWhy DEF Covers
  <2>8. QED
    BY <2>2, <2>3, <2>4, <2>5, <2>6, <2>7, StageKeeps
<1>8. CASE ReadMyGroups(u)
  <2>1. PICK s : s = [old EXCEPT !.found = @ \union GroupsOfOrgs(old.orgs)]
    OBVIOUS
  <2>2. Stage(u, "groups", "created", s) /\ UNCHANGED steady
    BY <1>8, <2>1 DEF ReadMyGroups
  <2>3. old.stage = "groups" /\ old.rooms = {}
    BY <1>1, <2>2 DEF Stage, Covers
  <2>4. old.found \subseteq Groups
    BY <1>1 DEF Socket
  <2>5. /\ s \in Socket /\ s.found = old.found \union GroupsOfOrgs(old.orgs)
        /\ s.rooms = {}
    BY <1>1, <1>2, <2>1, <2>3, <2>4 DEF Socket
  <2>6. PICK new : new = [s EXCEPT !.stage = "created"]
    OBVIOUS
  <2>7. /\ new \in Socket /\ new.stage = "created" /\ new.rooms = {}
        /\ new.found = old.found \union GroupsOfOrgs(old.orgs)
    BY <2>5, <2>6, StageNames DEF Socket
  <2>8. \A c \in steady[u] :
          c[1] = "owner" => c[2] \in GroupsOfOrgs(old.orgs)
    BY <1>1, <2>3, ClaimsWhy DEF Covers, GroupsOfOrgs, OwnedOrgs
  <2>9. Covers(new, steady[u])
    BY <1>1, <2>3, <2>7, <2>8 DEF Covers
  <2>10. QED
    BY <2>2, <2>3, <2>5, <2>6, <2>7, <2>9, StageKeeps
<1>9. CASE JoinRooms(u)
  <2>1. PICK s : s = [Offline EXCEPT !.rooms = old.found
                                                 \union CreatedGroups(u)]
    OBVIOUS
  <2>2. Stage(u, "created", "joined", s) /\ UNCHANGED steady
    BY <1>9, <2>1 DEF JoinRooms
  <2>3. old.stage = "created" /\ old.rooms = {}
    BY <1>1, <2>2 DEF Stage, Covers
  <2>4. old.found \subseteq Groups
    BY <1>1 DEF Socket
  <2>5. s \in Socket /\ s.rooms = old.found \union CreatedGroups(u)
    BY <1>2, <1>3, <2>1, <2>4 DEF Socket
  <2>6. PICK new : new = [s EXCEPT !.stage = "joined"]
    OBVIOUS
  <2>7. /\ new \in Socket /\ new.stage = "joined"
        /\ new.rooms = old.found \union CreatedGroups(u)
    BY <2>5, <2>6, StageNames DEF Socket
  <2>8. Covers(new, steady[u])
    BY <1>1, <2>3, <2>7, ClaimsWhy DEF Covers
  <2>9. QED
    BY <2>2, <2>3, <2>5, <2>6, <2>7, <2>8, StageKeeps
<1>10. CASE Disconnect(u)
  <2>1. /\ sockets' = [sockets EXCEPT ![u] = Offline]
        /\ steady' = [steady EXCEPT ![u] = {}]
        /\ owed' = {d \in owed : d[1] # u} /\ UNCHANGED <<dbVars, pending>>
    BY <1>10 DEF Disconnect, Aside
  <2>2. Covers(Offline, {})
    BY DEF Covers, Offline
  <2>3. QED
    BY <1>3, <2>1, <2>2, SocketKeeps
<1>11. QED
  BY <1>4, <1>5, <1>6, <1>7, <1>8, <1>9, <1>10 DEF SocketStep

LEMMA RestartKeeps ==
  ASSUME IInv, Restart
  PROVE  IInv'
<1>1. TypeOK' /\ RefsHold'
  BY StoreSame, StageNames DEF Restart, dbVars, IInv, TypeOK, Offline, Socket
<1>2. PendingOK'
  BY DEF Restart, PendingOK
<1>3. SteadyOK'
  <2>1. Covers(Offline, {})
    BY DEF Covers, Offline
  <2>2. QED
    BY <2>1 DEF Restart, SteadyOK
<1>4. OwedInFlight'
  BY DEF Restart, OwedInFlight
<1>5. QED
  BY <1>1, <1>2, <1>3, <1>4 DEF IInv

-----------------------------------------------------------------------------
(* The rows of groups change.                                              *)

LEMMA RowsChangeKeeps ==
  ASSUME IInv, GroupRowsChange, StoreTypeOK', RefsHold',
         DOMAIN owner' \subseteq Orgs, Range(owner') \subseteq Clients,
         joined' \subseteq Clients \X Groups, ahead' \subseteq Groups
  PROVE  IInv'
<1>1. /\ sockets' = sockets /\ owed' = owed /\ pending' = pending
      /\ steady' = [u \in Clients |-> steady[u] \intersect ClaimsOf(u)']
  BY DEF GroupRowsChange, Aside
<1>2. TypeOK'
  BY <1>1 DEF IInv, TypeOK
<1>3. SteadyOK'
  <2>1. \A u \in Clients : /\ steady'[u] \subseteq steady[u]
                           /\ steady'[u] \subseteq ClaimsOf(u)'
    BY <1>1
  <2>2. \A u \in Clients : Covers(sockets'[u], steady'[u])
    BY <1>1, <2>1 DEF IInv, SteadyOK, Covers
  <2>3. QED
    BY <2>1, <2>2 DEF SteadyOK
<1>4. PendingOK' /\ OwedInFlight'
  BY <1>1 DEF IInv, PendingOK, OwedInFlight
<1>5. QED
  BY <1>2, <1>3, <1>4 DEF IInv

LEMMA RowStepsKeep ==
  ASSUME IInv,
         \/ \E o \in DOMAIN owner : OrgDeleted(o)
         \/ \E u \in Clients, g \in Groups : MemberLeaves(u, g)
         \/ \E g \in Groups : GroupCreated(g) \/ GroupDeleted(g)
  PROVE  IInv'
<1>1. /\ StoreTypeOK /\ RefsHold
      /\ DOMAIN owner \subseteq Orgs
      /\ \A o \in DOMAIN owner : owner[o] \in Clients
      /\ joined \subseteq Clients \X Groups /\ ahead \subseteq Groups
  BY DEF IInv, TypeOK, Range
<1>2. CASE \E o \in DOMAIN owner : OrgDeleted(o)
  <2>1. DOMAIN owner' \subseteq Orgs /\ Range(owner') \subseteq Clients
    BY <1>1, <1>2 DEF OrgDeleted, Range
  <2>2. UNCHANGED <<storeVars, joined, ahead>> /\ GroupRowsChange
    BY <1>2 DEF OrgDeleted
  <2>3. QED
    BY <1>1, <2>1, <2>2, StoreSame, RowsChangeKeeps
<1>3. CASE \E u \in Clients, g \in Groups : MemberLeaves(u, g)
  <2>1. joined' \subseteq Clients \X Groups
    BY <1>1, <1>3 DEF MemberLeaves
  <2>2. UNCHANGED <<storeVars, owner, ahead>> /\ GroupRowsChange
    BY <1>3 DEF MemberLeaves
  <2>3. QED
    BY <1>1, <2>1, <2>2, StoreSame, RowsChangeKeeps DEF Range
<1>4. CASE \E g \in Groups : GroupDeleted(g)
  <2>1. PICK g \in Groups : GroupDeleted(g)
    BY <1>4
  <2> DEFINE D == {k \in Live : k[1] = "group" /\ msgs[k].to = g}
  <2>2. groups' = groups \ {g} /\ deleteRows(D)
    BY <2>1 DEF GroupDeleted, deleteGroup
  <2>3. D \subseteq Live /\ groups' \subseteq Groups
    BY <1>1, <2>2 DEF StoreTypeOK
  <2>4. \A k \in Live \ D : k[1] = "group" => msgs[k].to \in groups'
    BY <1>1, <2>2 DEF RefsHold
  <2> HIDE DEF D
  <2>5. StoreTypeOK' /\ RefsHold'
    BY <1>1, <2>2, <2>3, <2>4, DeleteRowsType, DeleteRowsRefs
  <2>6. UNCHANGED <<owner, joined, ahead>> /\ GroupRowsChange
    BY <2>1 DEF GroupDeleted
  <2>7. QED
    BY <1>1, <2>5, <2>6, RowsChangeKeeps DEF Range
<1>5. CASE \E g \in Groups : GroupCreated(g)
  <2>1. PICK g \in Groups : GroupCreated(g)
    BY <1>5
  <2>2. /\ groups' = groups \union {g} /\ ahead' = ahead \ {g}
        /\ UNCHANGED <<msgs, reactions, saved, nextId, owner, joined>>
    BY <2>1 DEF GroupCreated
  <2>3. StoreTypeOK' /\ RefsHold'
    BY <1>1, <2>2 DEF StoreTypeOK, RefsHold, Live, SavedReferencesHold
  <2>4. GroupRowsChange
    BY <2>1 DEF GroupCreated
  <2>5. QED
    BY <1>1, <2>2, <2>3, <2>4, RowsChangeKeeps DEF Range
<1>6. QED
  BY <1>2, <1>3, <1>4, <1>5

-----------------------------------------------------------------------------
(* The invariant.                                                          *)

(* The messages a behaviour starts with.                                   *)
LEMMA StartingRows ==
  ASSUME Stocked \/ Listing, groups = Groups \ ahead
  PROVE  StoreTypeOK /\ RefsHold
<1>1. Null \notin Keys /\ MaxMessages \in Nat
  BY BoundsAssumption DEF Null, Keys, Tables
<1>2. groups \subseteq Groups /\ reactions = {} /\ saved = {}
  BY DEF Stocked, Listing
<1>3. ASSUME /\ Live \subseteq Keys
             /\ \A k \in Live :
                  \E u \in Users, to \in Users \union Groups :
                    /\ msgs[k] = NewRow(u, to, Null, Null)
                    /\ k[1] = "group" => to \in groups
             /\ nextId \in [Sequences -> Nat]
             /\ \A q \in Sequences : nextId[q] >= 1
      PROVE  StoreTypeOK /\ RefsHold
  <2>1. \A k \in Live :
          /\ msgs[k] \in Row /\ msgs[k].replyTo = Null
          /\ msgs[k].fwdFrom = Null
          /\ k[1] = "group" => msgs[k].to \in groups
    <3> SUFFICES ASSUME NEW k \in Live
                 PROVE  /\ msgs[k] \in Row /\ msgs[k].replyTo = Null
                        /\ msgs[k].fwdFrom = Null
                        /\ k[1] = "group" => msgs[k].to \in groups
      OBVIOUS
    <3>1. PICK u \in Users, to \in Users \union Groups :
            /\ msgs[k] = NewRow(u, to, Null, Null)
            /\ k[1] = "group" => to \in groups
      BY <1>3
    <3>2. msgs[k] \in Row
      BY <1>2, <3>1, NewRowType
    <3>3. QED
      BY <3>1, <3>2 DEF NewRow
  <2>2. StoreTypeOK
    BY <1>2, <1>3, <2>1 DEF StoreTypeOK
  <2>3. RefsHold
    BY <1>2, <2>1 DEF RefsHold
  <2>4. QED
    BY <2>2, <2>3
<1>4. CASE Stocked
  <2> DEFINE last == MaxMessages - 1
             u == CHOOSE c \in Clients : TRUE
  <2>1. u \in Clients /\ last \in 1..MaxMessages /\ Clients \subseteq Users
    BY <1>1, GatewayAssumption
  <2>2. PICK v \in Clients, g \in groups :
          msgs = [k \in Tables \X {last} |->
                    NewRow(u, IF k[1] = "private" THEN v ELSE g, Null, Null)]
    BY <1>4 DEF Stocked
  <2>3. nextId = [q \in Sequences |-> IF q \in Tables THEN last + 1 ELSE 1]
    BY <1>4 DEF Stocked
  <2> HIDE DEF last, u
  <2>4. Live = Tables \X {last}
    BY <2>2 DEF Live
  <2>5. Live \subseteq Keys
    BY <2>1, <2>4 DEF Keys
  <2>6. \A k \in Live :
          \E w \in Users, to \in Users \union Groups :
            /\ msgs[k] = NewRow(w, to, Null, Null)
            /\ k[1] = "group" => to \in groups
    <3> SUFFICES ASSUME NEW k \in Live
                 PROVE  \E to \in Users \union Groups :
                          /\ msgs[k] = NewRow(u, to, Null, Null)
                          /\ k[1] = "group" => to \in groups
      BY <2>1
    <3>1. PICK to : to = IF k[1] = "private" THEN v ELSE g
      OBVIOUS
    <3>2. msgs[k] = NewRow(u, to, Null, Null)
      BY <2>2, <2>4, <3>1
    <3>3. to \in Users \union Groups /\ (k[1] = "group" => to \in groups)
      BY <1>2, <2>1, <3>1
    <3>4. QED
      BY <3>2, <3>3
  <2>7. /\ nextId \in [Sequences -> Nat]
        /\ \A q \in Sequences : nextId[q] >= 1
    BY <1>1, <2>1, <2>3
  <2>8. QED
    BY <1>3, <2>5, <2>6, <2>7
<1>5. CASE Listing
  <2>1. PICK n \in 0..MaxHistory : \E rows \in [1..n -> Users \X Users] :
          /\ msgs = [k \in {"private"} \X (1..n) |->
                       NewRow(rows[k[2]][1], rows[k[2]][2], Null, Null)]
          /\ nextId = [q \in Sequences |-> IF q = "private" THEN n + 1
                                           ELSE 1]
    BY <1>5 DEF Listing
  <2>2. PICK rows \in [1..n -> Users \X Users] :
          /\ msgs = [k \in {"private"} \X (1..n) |->
                       NewRow(rows[k[2]][1], rows[k[2]][2], Null, Null)]
          /\ nextId = [q \in Sequences |-> IF q = "private" THEN n + 1
                                           ELSE 1]
    BY <2>1
  <2>3. n \in Nat /\ n <= MaxMessages
    BY <1>1, GatewayAssumption
  <2>4. Live = {"private"} \X (1..n)
    BY <2>2 DEF Live
  <2>5. Live \subseteq Keys
    BY <1>1, <2>3, <2>4 DEF Keys, Tables
  <2>6. \A k \in Live :
          \E w \in Users, to \in Users \union Groups :
            /\ msgs[k] = NewRow(w, to, Null, Null)
            /\ k[1] = "group" => to \in groups
    BY <2>2, <2>4
  <2>7. /\ nextId \in [Sequences -> Nat]
        /\ \A q \in Sequences : nextId[q] >= 1
    BY <2>2, <2>3
  <2>8. QED
    BY <1>3, <2>5, <2>6, <2>7
<1>6. QED
  BY <1>4, <1>5

LEMMA InitOK == Init => IInv
<1> SUFFICES ASSUME Init PROVE IInv
  OBVIOUS
<1>1. StoreTypeOK /\ RefsHold
  BY StartingRows DEF Init
<1>2. PendingOK
  BY DEF Init, NoRequests, PendingOK
<1>3. owed = {} /\ OwedInFlight
  BY DEF Init, OwedInFlight
<1>4. /\ DOMAIN owner \subseteq Orgs /\ Range(owner) \subseteq Clients
      /\ joined \subseteq Clients \X Groups /\ ahead \subseteq Groups
  BY GatewayAssumption DEF Init, Range
<1>5. ASSUME NEW u \in Clients
      PROVE  /\ GroupsOf(u) \subseteq Groups /\ ClaimsOf(u) \subseteq Claims
             /\ \A c \in ClaimsOf(u) : c[2] \in GroupsOf(u)
  <2>1. groups \subseteq Groups
    BY <1>1 DEF StoreTypeOK
  <2>2. QED
    BY <2>1 DEF GroupsOf, ClaimsOf, Claims, MemberGroups, GroupsOfOrgs,
       CreatedGroups
<1>6. Offline \in Socket /\ Offline.stage = "closed" /\ Offline.rooms = {}
  BY StageNames DEF Offline, Socket
<1>7. ASSUME NEW u \in Clients
      PROVE  /\ sockets[u] \in Socket
             /\ steady[u] \subseteq Claims /\ steady[u] \subseteq ClaimsOf(u)
             /\ Covers(sockets[u], steady[u])
  <2>1. CASE "connect" \in scope
    <3>1. sockets[u] = Offline /\ steady[u] = {}
      BY <2>1 DEF Init
    <3>2. QED
      BY <1>6, <3>1 DEF Covers
  <2>2. CASE "connect" \notin scope
    <3>1. PICK socket : socket = [Offline EXCEPT !.stage = "joined",
                                                 !.rooms = GroupsOf(u)]
      OBVIOUS
    <3>2. /\ socket \in Socket /\ socket.stage = "joined"
          /\ socket.rooms = GroupsOf(u)
      BY <1>5, <1>6, <3>1, StageNames DEF Socket
    <3>3. sockets[u] = socket /\ steady[u] = ClaimsOf(u)
      BY <2>2, <3>1 DEF Init
    <3>4. QED
      BY <1>5, <3>2, <3>3 DEF Covers
  <2>3. QED
    BY <2>1, <2>2
<1>8. TypeOK
  <2>1. /\ sockets = [u \in Clients |-> sockets[u]]
        /\ steady = [u \in Clients |-> steady[u]]
    BY DEF Init
  <2>2. /\ sockets \in [Clients -> Socket]
        /\ steady \in [Clients -> SUBSET Claims]
    BY <1>7, <2>1
  <2>3. QED
    BY <1>1, <1>3, <1>4, <2>2 DEF TypeOK
<1>9. QED
  BY <1>1, <1>2, <1>3, <1>7, <1>8 DEF IInv, SteadyOK

LEMMA NextKeeps ==
  ASSUME IInv, [Next]_vars
  PROVE  IInv'
<1>1. CASE UNCHANGED vars
  <2>1. UNCHANGED <<storeVars, owner, joined, ahead, sockets, steady, owed,
                  pending>>
    BY <1>1 DEF vars
  <2>2. TypeOK' /\ RefsHold' /\ SteadyOK'
    BY <2>1, StoreSame, SteadySame DEF storeVars, IInv, TypeOK
  <2>3. QED
    BY <2>1, <2>2 DEF IInv, PendingOK, OwedInFlight
<1>2. CASE \E s \in Slots : Proceed(s) \/ \E u \in Clients : Arrive(s, u)
  BY <1>2, ProceedKeeps, ArriveKeeps
<1>3. CASE (\E u \in Clients : SocketStep(u)) \/ Restart
  BY <1>3, SocketStepKeeps, RestartKeeps
<1>4. QED
  BY <1>1, <1>2, <1>3, RowStepsKeep DEF Next

LEMMA Inductive == Spec => []IInv
<1>1. IInv /\ [Next]_vars => IInv'
  BY NextKeeps
<1>2. QED
  BY InitOK, <1>1, PTL DEF Spec

-----------------------------------------------------------------------------
(* The state of the gateway is well formed in every behaviour.             *)
THEOREM GatewayTypeCorrect == Spec => []TypeOK
<1>1. IInv => TypeOK
  BY DEF IInv
<1>2. QED
  BY Inductive, <1>1, PTL

(* Whatever a message, a reaction or a saved message refers to exists,     *)
(* while groups go and clients forward and answer messages that may be     *)
(* gone.                                                                   *)
THEOREM GatewayReferencesIntact == Spec => []RefsHold
<1>1. IInv => RefsHold
  BY DEF IInv
<1>2. QED
  BY Inductive, <1>1, PTL

(* A socket is in the rooms of what its user had all the while, whatever   *)
(* comes or goes between the reads of handleConnection.                    *)
THEOREM SteadyGroupsJoined == Spec => []SteadyInRooms
<1>1. IInv => SteadyInRooms
  BY DEF IInv, SteadyOK, Covers, SteadyInRooms
<1>2. QED
  BY Inductive, <1>1, PTL

(* Who is owed an announcement is in a room of a request that has written  *)
(* and still has to tell of it: when it does, nobody is forgotten.         *)
THEOREM WritersStillTell == Spec => []OwedInFlight
<1>1. IInv => OwedInFlight
  BY DEF IInv
<1>2. QED
  BY Inductive, <1>1, PTL

-----------------------------------------------------------------------------
(***************************************************************************)
(* The lists of conversations.  What a fold or a sort yields is proved by  *)
(* the least number of rows for which it would not be so.                  *)
(***************************************************************************)
(* The induction of this section: a claim that fails for some number fails *)
(* for a least one.                                                        *)
LEMMA LeastNatural ==
  ASSUME NEW S \in SUBSET Nat, S # {}
  PROVE  \E m \in S : \A k \in S : m <= k
<1>1. PICK m \in S : \A k \in S : <<k, m>> \notin OpToRel(<, Nat)
  BY WFMin, NatLessThanWellFounded
<1>2. \A k \in S : ~(k < m)
  BY <1>1 DEF OpToRel
<1>3. QED
  BY <1>2

(* Max, which FoldLeft takes apart its indices with.                       *)
LEMMA MaxIsIn ==
  ASSUME NEW n \in Nat, NEW S \in SUBSET (1..n), S # {}
  PROVE  Max(S) \in S /\ \A k \in S : k <= Max(S)
<1>1. PICK m \in {b \in Nat : \A k \in S : k <= b} :
        \A b \in {b \in Nat : \A k \in S : k <= b} : m <= b
  <2> DEFINE B == {b \in Nat : \A k \in S : k <= b}
  <2>1. B \in SUBSET Nat /\ n \in B
    OBVIOUS
  <2>2. QED
    BY <2>1, LeastNatural
<1>2. m \in S
  <2>1. SUFFICES ASSUME m \notin S PROVE FALSE
    OBVIOUS
  <2>2. \A k \in S : k \in Nat /\ k >= 1 /\ k <= m - 1
    BY <1>1, <2>1
  <2>3. m - 1 \in Nat
    <3>1. PICK k \in S : TRUE
      OBVIOUS
    <3>2. k \in Nat /\ k >= 1 /\ k <= m
      BY <1>1
    <3>3. QED
      BY <1>1, <3>2
  <2>4. m <= m - 1
    BY <1>1, <2>2, <2>3
  <2>5. QED
    BY <1>1, <2>4
<1>3. m >= m /\ \A k \in S : m >= k
  BY <1>1
<1>4. QED
  BY <1>2, <1>3 DEF Max

(* f is what MapThenFoldSet builds over the sets of indices up to m.       *)
IsFold(f, m, T, base, step) ==
  /\ f \in [SUBSET (1..m) -> T]
  /\ \A S \in SUBSET (1..m) :
       f[S] = IF S = {} THEN base ELSE step[<<Max(S), f[S \ {Max(S)}]>>]

(* A fold has a value.                                                     *)
LEMMA FoldExists ==
  ASSUME NEW n \in Nat, NEW T, NEW base \in T,
         NEW step \in [(1..n) \X T -> T]
  PROVE  \E f : IsFold(f, n, T, base, step)
<1> DEFINE Fold(f, m) == IsFold(f, m, T, base, step)
           Bad == {m \in 0..n : ~\E f : Fold(f, m)}
<1>1. SUFFICES ASSUME Bad # {} PROVE FALSE
  OBVIOUS
<1>2. PICK m \in Bad : \A k \in Bad : m <= k
  <2>1. Bad \in SUBSET Nat
    OBVIOUS
  <2> HIDE DEF Bad
  <2>2. QED
    BY <1>1, <2>1, LeastNatural
<1>3. m # 0
  <2>1. Fold([S \in {{}} |-> base], 0)
    <3>1. SUBSET (1..0) = {{}}
      OBVIOUS
    <3>2. QED
      BY <3>1 DEF IsFold
  <2>2. SUFFICES ASSUME m = 0 PROVE FALSE
    OBVIOUS
  <2>3. 0 \in Bad
    BY <1>2, <2>2
  <2>4. QED
    BY <2>1, <2>3
<1>4. PICK f : Fold(f, m - 1)
  <2>1. m - 1 \in 0..n /\ m \in Int /\ ~(m <= m - 1)
    BY <1>3
  <2>2. m - 1 \notin Bad
    BY <1>2, <2>1
  <2>3. QED
    BY <2>1, <2>2
<1> DEFINE g == [S \in SUBSET (1..m) |->
                   IF m \in S THEN step[<<m, f[S \ {m}]>>] ELSE f[S]]
<1> HIDE DEF g
<1>5. ASSUME NEW S \in SUBSET (1..m)
      PROVE  /\ g[S] \in T
             /\ g[S] = IF S = {} THEN base
                       ELSE step[<<Max(S), g[S \ {Max(S)}]>>]
  <2>0. m \in 1..n
    BY <1>2, <1>3
  <2>1. CASE m \in S
    <3>1. Max(S) = m
      <4>1. m \in Nat
        BY <2>0
      <4>2. Max(S) \in S /\ m <= Max(S)
        BY <2>1, <4>1, MaxIsIn
      <4>3. \A k \in S : k \in Nat /\ k <= m
        BY <4>1
      <4>4. Max(S) \in Nat /\ Max(S) <= m
        BY <4>2, <4>3
      <4>5. QED
        BY <4>1, <4>2, <4>4
    <3>2. S \ {m} \in SUBSET (1..(m-1)) /\ S \ {m} \in SUBSET (1..m)
      BY <2>0
    <3>3. g[S \ {m}] = f[S \ {m}] /\ f[S \ {m}] \in T
      BY <3>2, <1>4 DEF g, IsFold
    <3>4. g[S] = step[<<m, f[S \ {m}]>>]
      BY <2>1 DEF g
    <3>5. g[S] \in T
      BY <3>3, <3>4, <2>0
    <3>6. QED
      BY <3>1, <3>3, <3>4, <3>5, <2>1
  <2>2. CASE m \notin S
    <3>1. S \in SUBSET (1..(m-1))
      BY <2>0, <2>2
    <3>2. g[S] = f[S] /\ f[S] \in T
      BY <2>2, <3>1, <1>4 DEF g, IsFold
    <3>3. CASE S # {}
      <4>1. /\ S \ {Max(S)} \in SUBSET (1..(m-1))
            /\ S \ {Max(S)} \in SUBSET (1..m)
        BY <3>1
      <4>2. g[S \ {Max(S)}] = f[S \ {Max(S)}]
        BY <4>1, <2>2 DEF g
      <4>3. f[S] = step[<<Max(S), f[S \ {Max(S)}]>>]
        BY <1>4, <3>1, <3>3 DEF IsFold
      <4>4. QED
        BY <3>2, <3>3, <4>2, <4>3
    <3>4. CASE S = {}
      BY <1>4, <3>1, <3>2, <3>4 DEF IsFold
    <3>5. QED
      BY <3>3, <3>4
  <2>3. QED
    BY <2>1, <2>2
<1>6. Fold(g, m)
  <2>1. g \in [SUBSET (1..m) -> T]
    BY <1>5 DEF g
  <2>2. QED
    BY <1>5, <2>1 DEF IsFold
<1>7. QED
  BY <1>2, <1>6

LEMMA MaxOfInterval ==
  ASSUME NEW n \in Nat, n # 0
  PROVE  Max(1..n) = n /\ (1..n) \ {n} = 1..(n - 1)
<1>1. Max(1..n) \in 1..n /\ \A k \in 1..n : k <= Max(1..n)
  <2>1. 1..n \in SUBSET (1..n) /\ 1..n # {}
    OBVIOUS
  <2>2. QED
    BY <2>1, MaxIsIn
<1>2. n \in 1..n
  OBVIOUS
<1>3. QED
  BY <1>1, <1>2

(* The values g of a fold f after each of its first n indices.             *)
StepsOf(g, f, n, T, base, step) ==
  /\ g \in [0..n -> T] /\ g[n] = f[1..n]
  /\ g[0] = base
  /\ \A i \in 1..n : g[i] = step[<<i, g[i - 1]>>]

LEMMA FoldPrefixes ==
  ASSUME NEW n \in Nat, NEW T, NEW base \in T,
         NEW step \in [(1..n) \X T -> T],
         NEW f, IsFold(f, n, T, base, step)
  PROVE  \E g : StepsOf(g, f, n, T, base, step)
<1> DEFINE g == [i \in 0..n |-> f[1..i]]
<1>1. ASSUME NEW i \in 0..n
      PROVE  1..i \in SUBSET (1..n)
  OBVIOUS
<1>2. \A i \in 0..n : g[i] \in T
  BY <1>1 DEF IsFold
<1>3. g[0] = base
  <2>1. 1..0 = {} /\ 0 \in 0..n
    OBVIOUS
  <2>2. QED
    BY <1>1, <2>1 DEF IsFold
<1>4. ASSUME NEW i \in 1..n
      PROVE  g[i] = step[<<i, g[i - 1]>>]
  <2>1. Max(1..i) = i /\ (1..i) \ {i} = 1..(i - 1)
    BY MaxOfInterval
  <2>2. 1..i # {} /\ i \in 0..n /\ i - 1 \in 0..n
    OBVIOUS
  <2>3. f[1..i] = step[<<i, f[1..(i - 1)]>>]
    BY <1>1, <2>1, <2>2 DEF IsFold
  <2>4. QED
    BY <2>2, <2>3
<1>5. g \in [0..n -> T] /\ g[n] = f[1..n]
  BY <1>2
<1> HIDE DEF g
<1>6. QED
  BY <1>3, <1>4, <1>5 DEF StepsOf

(* A fold stays in T when each of its steps does.                          *)
LEMMA FoldTyped ==
  ASSUME NEW n \in Nat, NEW T, NEW h, h[{}] \in T,
         \A S \in SUBSET (1..n) :
           S # {} /\ h[S \ {Max(S)}] \in T => h[S] \in T
  PROVE  \A S \in SUBSET (1..n) : h[S] \in T
<1> DEFINE Bad == {m \in 0..n : \E S \in SUBSET (1..m) : h[S] \notin T}
<1>1. SUFFICES ASSUME Bad # {} PROVE FALSE
  OBVIOUS
<1>2. PICK m \in Bad : \A k \in Bad : m <= k
  <2>1. Bad \in SUBSET Nat
    OBVIOUS
  <2> HIDE DEF Bad
  <2>2. QED
    BY <1>1, <2>1, LeastNatural
<1>3. m \in 0..n /\ \E S \in SUBSET (1..m) : h[S] \notin T
  BY <1>2
<1>4. PICK S \in SUBSET (1..m) : h[S] \notin T
  BY <1>3
<1>5. S # {} /\ S \in SUBSET (1..n) /\ m \in Nat
  <2>1. S # {}
    BY <1>4
  <2>2. m \in Nat /\ 1..m \subseteq 1..n
    BY <1>3
  <2>3. QED
    BY <2>1, <2>2
<1>6. PICK x : x = Max(S)
  OBVIOUS
<1>7. x \in 1..m /\ \A k \in S : k <= x
  BY <1>4, <1>5, <1>6, MaxIsIn
<1>8. x - 1 \in 0..n /\ x - 1 < m /\ S \ {x} \in SUBSET (1..(x - 1))
  BY <1>3, <1>4, <1>7
<1>9. x - 1 \notin Bad
  <2>1. ~(m <= x - 1)
    BY <1>3, <1>8
  <2>2. QED
    BY <1>2, <2>1
<1>10. h[S \ {x}] \in T
  BY <1>8, <1>9
<1>11. QED
  BY <1>4, <1>5, <1>6, <1>10

(* getMyChats over given rows, and its values row by row.                  *)
ChatList(u, rows) ==
  FoldLeft(LAMBDA list, k : ListPartner(u, list, k), <<>>, rows)

ChatSteps(g, u, n, rows, T) ==
  /\ g \in [0..n -> T] /\ g[n] = ChatList(u, rows)
  /\ g[0] = <<>>
  /\ \A i \in 1..n : g[i] = ListPartner(u, g[i - 1], rows[i])

LEMMA ChatsFold ==
  ASSUME NEW u, NEW n \in Nat, NEW K, NEW rows \in [1..n -> K],
         NEW T, <<>> \in T,
         \A list \in T, k \in K : ListPartner(u, list, k) \in T
  PROVE  \E g : ChatSteps(g, u, n, rows, T)
<1> DEFINE Body(f) ==
             [S \in SUBSET (1..n) |->
                IF S = {} THEN <<>>
                ELSE ListPartner(u, f[S \ {Max(S)}], rows[Max(S)])]
           step == [p \in (1..n) \X T |-> ListPartner(u, p[2], rows[p[1]])]
           h == CHOOSE f : f = Body(f)
<1>1. ChatList(u, rows) = h[1..n]
  BY DEF ChatList, FoldLeft, MapThenFoldSet
<1>2. step \in [(1..n) \X T -> T]
  OBVIOUS
<1>3. ASSUME NEW f \in [SUBSET (1..n) -> T]
      PROVE  IsFold(f, n, T, <<>>, step) <=> f = Body(f)
  <2>1. ASSUME NEW S \in SUBSET (1..n), S # {}
        PROVE  step[<<Max(S), f[S \ {Max(S)}]>>]
                 = ListPartner(u, f[S \ {Max(S)}], rows[Max(S)])
    BY <2>1, MaxIsIn
  <2> HIDE DEF step
  <2>2. QED
    BY <2>1 DEF IsFold
<1> HIDE DEF step
<1>4. h = Body(h)
  <2>1. PICK f : IsFold(f, n, T, <<>>, step)
    BY <1>2, FoldExists
  <2>2. f = Body(f)
    BY <1>3, <2>1 DEF IsFold
  <2> HIDE DEF Body
  <2>3. QED
    BY <2>2
<1> HIDE DEF h
<1>5. h \in [SUBSET (1..n) -> T]
  <2>1. h[{}] \in T
    BY <1>4
  <2>2. ASSUME NEW S \in SUBSET (1..n), S # {}, h[S \ {Max(S)}] \in T
        PROVE  h[S] \in T
    <3>1. h[S] = ListPartner(u, h[S \ {Max(S)}], rows[Max(S)])
      BY <1>4, <2>2
    <3>2. rows[Max(S)] \in K
      BY <2>2, MaxIsIn
    <3>3. QED
      BY <2>2, <3>1, <3>2
  <2>3. \A S \in SUBSET (1..n) : h[S] \in T
    BY <2>1, <2>2, FoldTyped
  <2>4. QED
    BY <1>4, <2>3
<1>6. IsFold(h, n, T, <<>>, step)
  BY <1>3, <1>4, <1>5
<1>7. PICK g : StepsOf(g, h, n, T, <<>>, step)
  BY <1>2, <1>6, FoldPrefixes
<1>8. \A i \in 1..n : g[i] = ListPartner(u, g[i - 1], rows[i])
  <2>1. \A i \in 1..n : g[i - 1] \in T
    BY <1>7 DEF StepsOf
  <2>2. QED
    BY <1>7, <2>1 DEF step, StepsOf
<1>9. QED
  BY <1>1, <1>7, <1>8 DEF StepsOf, ChatSteps

-----------------------------------------------------------------------------
(* Rows no two of which have the same id.                                  *)
DistinctIds(K) == \A j, k \in K : k[2] \in Nat /\ (j[2] = k[2] => j = k)

Sorted(rows) ==
  \A i, j \in DOMAIN rows : i < j => rows[i][2] > rows[j][2]

(* Finitely many such rows can be put newest first.                        *)
LEMMA SortExists ==
  ASSUME NEW K, IsFiniteSet(K), DistinctIds(K)
  PROVE  \E rows \in SetToSeqs(K) : Sorted(rows)
<1> DEFINE Bad == {S \in SUBSET K : ~\E rows \in SetToSeqs(S) : Sorted(rows)}
           Sizes == {Cardinality(S) : S \in Bad}
<1>1. SUFFICES ASSUME Bad # {} PROVE FALSE
  OBVIOUS
<1>2. \A S \in SUBSET K : IsFiniteSet(S) /\ Cardinality(S) \in Nat
  BY FS_Subset, FS_CardinalityType
<1>3. PICK S \in Bad : \A Q \in Bad : Cardinality(S) <= Cardinality(Q)
  <2>1. Sizes \in SUBSET Nat /\ Sizes # {}
    BY <1>1, <1>2
  <2>2. PICK c \in Sizes : \A k \in Sizes : c <= k
    <3> HIDE DEF Sizes
    <3>1. QED
      BY <2>1, LeastNatural
  <2>3. QED
    BY <2>2
<1>4. S # {}
  <2>1. SUFFICES ASSUME S = {} PROVE FALSE
    OBVIOUS
  <2>2. Cardinality({}) = 0
    BY FS_EmptySet
  <2>3. <<>> \in SetToSeqs({}) /\ Sorted(<<>>)
    <3>1. 1..0 = {} /\ <<>> \in [{} -> {}] /\ DOMAIN <<>> = {}
      OBVIOUS
    <3>2. QED
      BY <2>2, <3>1 DEF SetToSeqs, Sorted
  <2>4. QED
    BY <1>3, <2>1, <2>3
<1>5. PICK m \in S : \A k \in S : m[2] <= k[2]
  <2> DEFINE ids == {k[2] : k \in S}
  <2>1. ids \in SUBSET Nat /\ ids # {}
    BY <1>3, <1>4 DEF DistinctIds
  <2>2. PICK i \in ids : \A k \in ids : i <= k
    <3> HIDE DEF ids
    <3>1. QED
      BY <2>1, LeastNatural
  <2>3. QED
    BY <2>2
<1>6. PICK n : n = Cardinality(S)
  OBVIOUS
<1>7. n \in Nat /\ n # 0 /\ Cardinality(S \ {m}) = n - 1
  <2>1. S \in SUBSET K
    BY <1>3
  <2>2. QED
    BY <1>2, <1>4, <1>5, <1>6, <2>1, FS_EmptySet, FS_RemoveElement
<1>8. S \ {m} \in SUBSET K /\ S \ {m} \notin Bad
  <2>1. S \ {m} \in SUBSET K
    BY <1>3
  <2>2. ~(Cardinality(S) <= Cardinality(S \ {m}))
    BY <1>6, <1>7
  <2>3. QED
    BY <1>3, <2>1, <2>2
<1>9. PICK f \in SetToSeqs(S \ {m}) : Sorted(f)
  BY <1>8
<1>10. /\ f \in [1..(n - 1) -> S \ {m}]
       /\ \A i, j \in 1..(n - 1) : i # j => f[i] # f[j]
       /\ \A i, j \in 1..(n - 1) : i < j => f[i][2] > f[j][2]
  BY <1>7, <1>9 DEF SetToSeqs, Sorted
<1> DEFINE g == [i \in 1..n |-> IF i = n THEN m ELSE f[i]]
<1>11. \A i \in 1..n : i # n => /\ g[i] = f[i] /\ i \in 1..(n - 1)
                              /\ f[i] \in S /\ f[i] # m
  BY <1>7, <1>10
<1>12. n \in 1..n /\ g[n] = m
  BY <1>7
<1>13. g \in [1..n -> S]
  BY <1>5, <1>11, <1>12
<1> HIDE DEF g
<1>14. ASSUME NEW i \in 1..n, NEW j \in 1..n, i < j
       PROVE  g[i][2] > g[j][2] /\ g[i] # g[j]
  <2>1. i # n
    BY <1>7, <1>14
  <2>2. CASE j = n
    <3>1. f[i][2] \in Nat /\ m[2] \in Nat /\ f[i][2] # m[2]
      BY <1>3, <1>5, <1>11, <2>1 DEF DistinctIds
    <3>2. m[2] <= f[i][2]
      BY <1>5, <1>11, <2>1
    <3>3. QED
      BY <1>11, <1>12, <2>1, <2>2, <3>1, <3>2
  <2>3. CASE j # n
    BY <1>10, <1>11, <1>14, <2>1, <2>3
  <2>4. QED
    BY <2>2, <2>3
<1>15. g \in SetToSeqs(S) /\ Sorted(g)
  <2>1. \A i, j \in 1..n : i # j => g[i] # g[j]
    <3>1. \A i, j \in 1..n : i # j => i < j \/ j < i
      BY <1>7
    <3>2. QED
      BY <1>14, <3>1
  <2>2. g \in SetToSeqs(S)
    BY <1>6, <1>13, <2>1 DEF SetToSeqs
  <2>3. QED
    BY <1>13, <1>14, <2>2 DEF Sorted
<1>16. QED
  BY <1>3, <1>15

(* rows holds each of K, newest first.                                     *)
Enumerates(rows, n, K) ==
  /\ n \in Nat /\ rows \in [1..n -> K]
  /\ \A k \in K : \E i \in 1..n : rows[i] = k
  /\ \A i, j \in 1..n : i < j => rows[i][2] > rows[j][2]

(* What SetToSeqs orders it orders all of.                                 *)
LEMMA SeqsOnto ==
  ASSUME NEW K, IsFiniteSet(K), NEW rows \in SetToSeqs(K)
  PROVE  /\ Cardinality(K) \in Nat
         /\ rows \in [1..Cardinality(K) -> K]
         /\ \A k \in K : \E i \in 1..Cardinality(K) : rows[i] = k
<1> DEFINE n == Cardinality(K)
<1>1. n \in Nat
  BY FS_CardinalityType
<1>2. rows \in [1..n -> K] /\ \A i, j \in 1..n : i # j => rows[i] # rows[j]
  BY DEF SetToSeqs
<1> HIDE DEF n
<1>3. rows \in Injection(1..n, K)
  BY <1>2 DEF Injection, IsInjective
<1>4. Cardinality(1..n) = n
  BY <1>1, FS_Interval
<1>5. rows \in Surjection(1..n, K)
  BY <1>3, <1>4, FS_Injection DEF n
<1>6. \A k \in K : \E i \in 1..n : rows[i] = k
  BY <1>5 DEF Surjection
<1>7. QED
  BY <1>1, <1>2, <1>6 DEF n

LEMMA NewestFirstSorts ==
  ASSUME NEW K, IsFiniteSet(K), DistinctIds(K)
  PROVE  Enumerates(NewestFirst(K), Cardinality(K), K)
<1>1. NewestFirst(K) \in SetToSeqs(K) /\ Sorted(NewestFirst(K))
  BY SortExists DEF NewestFirst, Sorted
<1>2. /\ Cardinality(K) \in Nat
      /\ NewestFirst(K) \in [1..Cardinality(K) -> K]
      /\ \A k \in K : \E i \in 1..Cardinality(K) : NewestFirst(K)[i] = k
  BY <1>1, SeqsOnto
<1>3. QED
  BY <1>1, <1>2 DEF Sorted, Enumerates

-----------------------------------------------------------------------------
(* A private message is for a user.                                        *)
PrivateToUsers ==
  \A k \in Live : k[1] = "private" => msgs[k].to \in Users

(* The rows of one table.                                                  *)
LEMMA TableFinite ==
  ASSUME StoreTypeOK, NEW t, NEW K, K \subseteq Live,
         \A k \in K : k[1] = t
  PROVE  IsFiniteSet(K) /\ DistinctIds(K)
<1>1. \A k \in K : /\ k = <<t, k[2]>>
                   /\ k[2] \in 1..MaxMessages /\ k[2] \in Nat
  BY BoundsAssumption DEF StoreTypeOK, Keys
<1>2. DistinctIds(K)
  BY <1>1 DEF DistinctIds
<1>3. [k \in K |-> k[2]] \in Injection(K, 1..MaxMessages)
  BY <1>1 DEF Injection, IsInjective
<1>4. IsFiniteSet(1..MaxMessages)
  BY BoundsAssumption, FS_Interval
<1>5. QED
  BY <1>2, <1>3, <1>4, FS_Injection

LEMMA NewestIs ==
  ASSUME NEW K, DistinctIds(K), NEW m \in K, \A k \in K : k[2] <= m[2]
  PROVE  Newest(K) = m
<1>1. Newest(K) \in K /\ \A k \in K : k[2] <= Newest(K)[2]
  BY DEF Newest
<1>2. Newest(K)[2] = m[2]
  BY <1>1 DEF DistinctIds
<1>3. QED
  BY <1>1, <1>2 DEF DistinctIds

(* Whom u chats with in one of his messages, perhaps himself.              *)
Partner(u, k) == IF msgs[k].sender # u THEN msgs[k].sender ELSE msgs[k].to

LEMMA PartnerOf ==
  ASSUME StoreTypeOK, PrivateToUsers, NEW u \in Users, NEW k \in Private(u)
  PROVE  /\ Partner(u, k) \in Users
         /\ \A v : k \in Between(u, v) <=> v = Partner(u, k)
         /\ \A list : ListPartner(u, list, k) =
                       IF Partner(u, k) = u \/ Listed(list, Partner(u, k))
                       THEN list ELSE Append(list, Partner(u, k))
<1>1. /\ k \in Live /\ k[1] = "private" /\ msgs[k] \in Row
      /\ u \in {msgs[k].sender, msgs[k].to}
      /\ msgs[k].to \in Users
  BY DEF Private, StoreTypeOK, PrivateToUsers
<1>2. msgs[k].sender \in Users
  BY <1>1 DEF Row
<1>3. QED
  BY <1>1, <1>2 DEF Partner, Between, ListPartner

(* The list after the rows 1..i: their partners, each once and in the order *)
(* of the newest row of each chat.                                         *)
ListedSoFar(u, rows, i, list) ==
  /\ \A a, b \in DOMAIN list : a # b => list[a] # list[b]
  /\ \A v : Listed(list, v) <=>
              v # u /\ \E p \in 1..i : v = Partner(u, rows[p])
  /\ \A a \in DOMAIN list :
       \E p \in 1..i : rows[p] = Newest(Between(u, list[a]))
  /\ \A a, b \in DOMAIN list : a < b =>
       Newest(Between(u, list[a]))[2] > Newest(Between(u, list[b]))[2]

(* The next row adds its partner when none of the newer ones had him, and  *)
(* is then the newest of that chat.                                        *)
LEMMA ListGrows ==
  ASSUME StoreTypeOK, PrivateToUsers, NEW u \in Users,
         NEW n, NEW rows, Enumerates(rows, n, Private(u)),
         NEW i \in 1..n, NEW list \in Seq(Users),
         ListedSoFar(u, rows, i - 1, list)
  PROVE  ListedSoFar(u, rows, i, ListPartner(u, list, rows[i]))
<1> DEFINE v == Partner(u, rows[i])
           next == ListPartner(u, list, rows[i])
<1>0. /\ n \in Nat /\ rows \in [1..n -> Private(u)]
      /\ \A k \in Private(u) : \E p \in 1..n : rows[p] = k
      /\ \A p, q \in 1..n : p < q => rows[p][2] > rows[q][2]
  BY DEF Enumerates
<1>1. /\ rows[i] \in Private(u) /\ v \in Users
      /\ next = IF v = u \/ Listed(list, v) THEN list ELSE Append(list, v)
  BY <1>0, PartnerOf
<1>2. i \in Nat /\ 1..i = (1..(i - 1)) \union {i}
  BY <1>0
<1> HIDE DEF v, next
<1>3. CASE v = u \/ Listed(list, v)
  <2>1. next = list
    BY <1>1, <1>3
  <2>2. \A w : (w # u /\ \E p \in 1..i : w = Partner(u, rows[p]))
              <=> (w # u /\ \E p \in 1..(i - 1) : w = Partner(u, rows[p]))
    BY <1>2, <1>3 DEF v, ListedSoFar
  <2>3. ListedSoFar(u, rows, i, list)
    BY <1>2, <2>2 DEF ListedSoFar
  <2>4. QED
    BY <2>1, <2>3 DEF next
<1>4. CASE v # u /\ ~Listed(list, v)
  <2>1. next = Append(list, v)
    BY <1>1, <1>4
  <2>2. PICK l : l = Len(list)
    OBVIOUS
  <2>3. /\ l \in Nat /\ DOMAIN list = 1..l
        /\ DOMAIN next = 1..(l + 1) /\ next[l + 1] = v
        /\ \A a \in 1..l : next[a] = list[a]
    BY <1>1, <2>1, <2>2
  <2>4. rows[i] = Newest(Between(u, v))
    <3>1. rows[i] \in Between(u, v)
      BY <1>1, PartnerOf DEF v
    <3>2. DistinctIds(Between(u, v))
      BY TableFinite DEF Between
    <3>3. ASSUME NEW k \in Between(u, v)
          PROVE  k[2] <= rows[i][2]
      <4>1. k \in Private(u)
        BY DEF Between, Private
      <4>2. PICK p \in 1..n : rows[p] = k
        BY <1>0, <4>1
      <4>3. Partner(u, k) = v
        BY <4>1, PartnerOf
      <4>4. p \notin 1..(i - 1)
        BY <1>4, <4>2, <4>3 DEF ListedSoFar
      <4>5. p = i \/ i < p
        BY <1>0, <4>4
      <4>6. k[2] \in Nat /\ rows[i][2] \in Nat
        BY <3>1, <3>2 DEF DistinctIds
      <4>7. QED
        BY <1>0, <4>2, <4>5, <4>6
    <3>4. QED
      BY <3>1, <3>2, <3>3, NewestIs
  <2>5. \A w : Listed(next, w) <=> Listed(list, w) \/ w = v
    <3>1. ASSUME NEW w, Listed(next, w)
          PROVE  Listed(list, w) \/ w = v
      <4>1. PICK a \in 1..(l + 1) : next[a] = w
        BY <2>3, <3>1 DEF Listed, Range
      <4>2. CASE a = l + 1
        BY <2>3, <4>1, <4>2
      <4>3. CASE a # l + 1
        <5>1. a \in 1..l
          BY <2>3, <4>3
        <5>2. QED
          BY <2>3, <4>1, <5>1 DEF Listed, Range
      <4>4. QED
        BY <4>2, <4>3
    <3>2. ASSUME NEW w, Listed(list, w)
          PROVE  Listed(next, w)
      <4>1. PICK a \in 1..l : list[a] = w
        BY <2>3, <3>2 DEF Listed, Range
      <4>2. a \in DOMAIN next /\ next[a] = w
        BY <2>3, <4>1
      <4>3. QED
        BY <4>2 DEF Listed, Range
    <3>3. Listed(next, v)
      <4>1. l + 1 \in DOMAIN next
        BY <2>3
      <4>2. QED
        BY <2>3, <4>1 DEF Listed, Range
    <3>4. QED
      BY <3>1, <3>2, <3>3
  <2>6. \A a \in 1..l : next[a] # v
    BY <1>4, <2>3 DEF Listed, Range
  <2>7. \A a, b \in DOMAIN next : a # b => next[a] # next[b]
    <3>1. \A a, b \in 1..l : a # b => list[a] # list[b]
      BY <2>3 DEF ListedSoFar
    <3>2. \A a \in DOMAIN next : a \in 1..l \/ a = l + 1
      BY <2>3
    <3>3. QED
      BY <2>3, <2>6, <3>1, <3>2
  <2>8. \A w : Listed(next, w) <=>
               w # u /\ \E p \in 1..i : w = Partner(u, rows[p])
    BY <1>2, <1>4, <2>5 DEF ListedSoFar, v
  <2>9. \A a \in 1..l : \E p \in 1..(i - 1) :
                          rows[p] = Newest(Between(u, next[a]))
    BY <2>3 DEF ListedSoFar
  <2>10. \A a \in DOMAIN next : \E p \in 1..i :
                                 rows[p] = Newest(Between(u, next[a]))
    <3>1. ASSUME NEW a \in DOMAIN next
          PROVE  \E p \in 1..i : rows[p] = Newest(Between(u, next[a]))
      <4>1. CASE a = l + 1
        BY <1>2, <2>3, <2>4, <4>1
      <4>2. CASE a # l + 1
        <5>1. a \in 1..l
          BY <2>3, <4>2
        <5>2. QED
          BY <1>2, <2>9, <5>1
      <4>3. QED
        BY <4>1, <4>2
    <3>2. QED
      BY <3>1
  <2>11. ASSUME NEW a \in DOMAIN next, NEW b \in DOMAIN next, a < b
         PROVE  Newest(Between(u, next[a]))[2] > Newest(Between(u, next[b]))[2]
    <3>1. a \in 1..l
      BY <2>3, <2>11
    <3>2. CASE b = l + 1
      <4>1. PICK p \in 1..(i - 1) : rows[p] = Newest(Between(u, next[a]))
        BY <2>9, <3>1
      <4>2. rows[p][2] > rows[i][2]
        BY <1>0
      <4>3. QED
        BY <2>3, <2>4, <3>2, <4>1, <4>2
    <3>3. CASE b # l + 1
      <4>1. b \in 1..l
        BY <2>3, <3>3
      <4>2. QED
        BY <2>3, <2>11, <3>1, <4>1 DEF ListedSoFar
    <3>4. QED
      BY <3>2, <3>3
  <2>12. QED
    BY <2>7, <2>8, <2>10, <2>11 DEF ListedSoFar, next
<1>5. QED
  BY <1>3, <1>4

(* The chats of every user are right, whatever messages there are.         *)
LEMMA ChatsAreRight ==
  ASSUME StoreTypeOK, PrivateToUsers
  PROVE  MyChatsRight
<1> SUFFICES ASSUME NEW u \in Users
             PROVE  LET list == getMyChats(u)
                    IN  /\ IsInjective(list)
                        /\ Range(list) = Partners(u)
                        /\ \A i, j \in DOMAIN list : i < j =>
                             Newest(Between(u, list[i]))[2]
                               > Newest(Between(u, list[j]))[2]
  BY DEF MyChatsRight
<1> DEFINE n == Cardinality(Private(u))
           rows == NewestFirst(Private(u))
<1>1. Enumerates(rows, n, Private(u))
  <2>1. IsFiniteSet(Private(u)) /\ DistinctIds(Private(u))
    BY TableFinite DEF Private
  <2>2. QED
    BY <2>1, NewestFirstSorts
<1>2. getMyChats(u) = ChatList(u, rows)
  BY DEF getMyChats, ChatList
<1> HIDE DEF n, rows
<1>a. n \in Nat /\ rows \in [1..n -> Private(u)]
  BY <1>1 DEF Enumerates
<1>3. \A list \in Seq(Users), k \in Private(u) :
        ListPartner(u, list, k) \in Seq(Users)
  BY PartnerOf
<1>4. PICK g : ChatSteps(g, u, n, rows, Seq(Users))
  <2>1. <<>> \in Seq(Users)
    OBVIOUS
  <2>2. QED
    BY <1>a, <1>3, <2>1, ChatsFold
<1>b. /\ g \in [0..n -> Seq(Users)] /\ g[n] = ChatList(u, rows)
      /\ g[0] = <<>>
      /\ \A i \in 1..n : g[i] = ListPartner(u, g[i - 1], rows[i])
  BY <1>4 DEF ChatSteps
<1>5. ListedSoFar(u, rows, n, g[n])
  <2> DEFINE Bad == {i \in 0..n : ~ListedSoFar(u, rows, i, g[i])}
  <2>1. SUFFICES ASSUME Bad # {} PROVE FALSE
    <3>1. n \in 0..n
      BY <1>a
    <3>2. QED
      BY <3>1
  <2>2. PICK i \in Bad : \A k \in Bad : i <= k
    <3>1. Bad \in SUBSET Nat
      OBVIOUS
    <3> HIDE DEF Bad
    <3>2. QED
      BY <2>1, <3>1, LeastNatural
  <2>3. i # 0
    <3>1. ListedSoFar(u, rows, 0, <<>>)
      BY DEF ListedSoFar, Listed, Range
    <3>2. QED
      BY <1>b, <2>2, <3>1
  <2>4. i \in 1..n /\ i - 1 \in 0..n /\ ~(i <= i - 1)
    BY <1>a, <2>2, <2>3
  <2>5. ListedSoFar(u, rows, i - 1, g[i - 1]) /\ g[i - 1] \in Seq(Users)
    BY <1>b, <2>2, <2>4
  <2>6. ListedSoFar(u, rows, i, g[i])
    <3>1. ListedSoFar(u, rows, i, ListPartner(u, g[i - 1], rows[i]))
      BY <1>1, <2>4, <2>5, ListGrows
    <3>2. QED
      BY <1>b, <2>4, <3>1
  <2>7. QED
    BY <2>2, <2>6
<1>6. PICK list : list = g[n]
  OBVIOUS
<1>7. getMyChats(u) = list /\ ListedSoFar(u, rows, n, list)
  BY <1>2, <1>b, <1>5, <1>6
<1>8. Range(list) = Partners(u)
  <2>1. ASSUME NEW v
        PROVE  Listed(list, v) <=> v \in Partners(u)
    <3>1. ASSUME Listed(list, v)
          PROVE  v \in Partners(u)
      <4>1. PICK p \in 1..n : v # u /\ v = Partner(u, rows[p])
        BY <1>7, <3>1 DEF ListedSoFar
      <4>2. v \in Users /\ rows[p] \in Between(u, v)
        BY <1>a, <4>1, PartnerOf
      <4>3. QED
        BY <4>1, <4>2 DEF Partners
    <3>2. ASSUME v \in Partners(u)
          PROVE  Listed(list, v)
      <4>1. PICK k \in Between(u, v) : v # u
        BY <3>2 DEF Partners
      <4>2. k \in Private(u)
        BY DEF Between, Private
      <4>3. PICK p \in 1..n : rows[p] = k
        BY <1>1, <4>2 DEF Enumerates
      <4>4. v = Partner(u, k)
        BY <4>2, PartnerOf
      <4>5. QED
        BY <1>7, <4>1, <4>3, <4>4 DEF ListedSoFar
    <3>3. QED
      BY <3>1, <3>2
  <2>2. QED
    BY <2>1 DEF Listed
<1>9. IsInjective(list)
  BY <1>7 DEF ListedSoFar, IsInjective
<1>10. QED
  BY <1>7, <1>8, <1>9 DEF ListedSoFar

-----------------------------------------------------------------------------
(* The merge of the recent conversations, and its values row by row.       *)
KeptOf(rows) == FoldLeft(KeepNewer, {}, rows)

KeptSteps(g, n, rows, T) ==
  /\ g \in [0..n -> T] /\ g[n] = KeptOf(rows)
  /\ g[0] = {}
  /\ \A i \in 1..n : g[i] = KeepNewer(g[i - 1], rows[i])

LEMMA KeptFold ==
  ASSUME NEW n \in Nat, NEW K, NEW rows \in [1..n -> K],
         NEW T, {} \in T,
         \A kept \in T, k \in K : KeepNewer(kept, k) \in T
  PROVE  \E g : KeptSteps(g, n, rows, T)
<1> DEFINE Body(f) ==
             [S \in SUBSET (1..n) |->
                IF S = {} THEN {}
                ELSE KeepNewer(f[S \ {Max(S)}], rows[Max(S)])]
           step == [p \in (1..n) \X T |-> KeepNewer(p[2], rows[p[1]])]
           h == CHOOSE f : f = Body(f)
<1>1. KeptOf(rows) = h[1..n]
  BY DEF KeptOf, FoldLeft, MapThenFoldSet
<1>2. step \in [(1..n) \X T -> T]
  OBVIOUS
<1>3. ASSUME NEW f \in [SUBSET (1..n) -> T]
      PROVE  IsFold(f, n, T, {}, step) <=> f = Body(f)
  <2>1. ASSUME NEW S \in SUBSET (1..n), S # {}
        PROVE  step[<<Max(S), f[S \ {Max(S)}]>>]
                 = KeepNewer(f[S \ {Max(S)}], rows[Max(S)])
    BY <2>1, MaxIsIn
  <2> HIDE DEF step
  <2>2. QED
    BY <2>1 DEF IsFold
<1> HIDE DEF step
<1>4. h = Body(h)
  <2>1. PICK f : IsFold(f, n, T, {}, step)
    BY <1>2, FoldExists
  <2>2. f \in [SUBSET (1..n) -> T]
    BY <2>1 DEF IsFold
  <2> HIDE DEF Body
  <2>a. f = Body(f)
    BY <1>3, <2>1, <2>2
  <2>3. QED
    BY <2>a
<1> HIDE DEF h
<1>5. h \in [SUBSET (1..n) -> T]
  <2>1. h[{}] \in T
    BY <1>4
  <2>2. ASSUME NEW S \in SUBSET (1..n), S # {}, h[S \ {Max(S)}] \in T
        PROVE  h[S] \in T
    <3>1. h[S] = KeepNewer(h[S \ {Max(S)}], rows[Max(S)])
      BY <1>4, <2>2
    <3>2. rows[Max(S)] \in K
      BY <2>2, MaxIsIn
    <3>3. QED
      BY <2>2, <3>1, <3>2
  <2>3. \A S \in SUBSET (1..n) : h[S] \in T
    BY <2>1, <2>2, FoldTyped
  <2>4. QED
    BY <1>4, <2>3
<1>6. IsFold(h, n, T, {}, step)
  BY <1>3, <1>4, <1>5
<1>7. PICK g : StepsOf(g, h, n, T, {}, step)
  BY <1>2, <1>6, FoldPrefixes
<1>8. \A i \in 1..n : g[i] = KeepNewer(g[i - 1], rows[i])
  <2>1. \A i \in 1..n : g[i - 1] \in T
    BY <1>7 DEF StepsOf
  <2>2. QED
    BY <1>7, <2>1 DEF step, StepsOf
<1>9. QED
  BY <1>1, <1>7, <1>8 DEF StepsOf, KeptSteps

(* There is a newest row among any of a table.                             *)
LEMMA NewestIn ==
  ASSUME StoreTypeOK, NEW t, NEW K, K \subseteq Live, K # {},
         \A k \in K : k[1] = t
  PROVE  Newest(K) \in K /\ \A k \in K : k[2] <= Newest(K)[2]
<1>1. IsFiniteSet(K) /\ DistinctIds(K)
  BY TableFinite
<1> DEFINE n == Cardinality(K)
           rows == NewestFirst(K)
<1>2. Enumerates(rows, n, K)
  BY <1>1, NewestFirstSorts
<1> HIDE DEF n, rows
<1>3. /\ n \in Nat /\ rows \in [1..n -> K]
      /\ \A k \in K : \E i \in 1..n : rows[i] = k
      /\ \A i, j \in 1..n : i < j => rows[i][2] > rows[j][2]
  BY <1>2 DEF Enumerates
<1>4. 1 \in 1..n
  BY <1>3
<1>5. ASSUME NEW k \in K
      PROVE  k[2] <= rows[1][2]
  <2>1. PICK i \in 1..n : rows[i] = k
    BY <1>3
  <2>2. i = 1 \/ 1 < i
    BY <1>3
  <2>3. k[2] \in Nat /\ rows[1][2] \in Nat
    BY <1>1, <1>3, <1>4 DEF DistinctIds
  <2>4. QED
    BY <1>3, <1>4, <2>1, <2>2, <2>3
<1>6. rows[1] \in K
  BY <1>3, <1>4
<1>7. Newest(K) = rows[1]
  BY <1>1, <1>5, <1>6, NewestIs
<1>8. QED
  BY <1>5, <1>6, <1>7

(* The merge after the rows 1..i: of each chat among them one row, no      *)
(* older than any of them.                                                 *)
KeptSoFar(rows, i, kept) ==
  /\ \A j \in kept : \E p \in 1..i : j = rows[p]
  /\ \A p \in 1..i : \E j \in kept : SameConversation(j, rows[p])
                                     /\ j[2] >= rows[p][2]
  /\ \A j, k \in kept : SameConversation(j, k) => j = k

LEMMA KeptGrows ==
  ASSUME NEW K, DistinctIds(K), NEW n \in Nat, NEW rows \in [1..n -> K],
         NEW i \in 1..n, NEW kept \in SUBSET K,
         KeptSoFar(rows, i - 1, kept)
  PROVE  KeptSoFar(rows, i, KeepNewer(kept, rows[i]))
<1> DEFINE k == rows[i]
           next == KeepNewer(kept, k)
<1>1. 1..i = (1..(i - 1)) \union {i} /\ k \in K
  OBVIOUS
<1>2. \A j \in K : j[2] \in Nat
  BY DEF DistinctIds
<1> HIDE DEF k
<1>3. CASE \A j \in kept : ~SameConversation(j, k)
  <2>1. next = kept \union {k}
    BY <1>3 DEF KeepNewer
  <2>2. \A j \in next : \E p \in 1..i : j = rows[p]
    BY <1>1, <2>1 DEF KeptSoFar, k
  <2>3. ASSUME NEW p \in 1..i
        PROVE  \E j \in next : SameConversation(j, rows[p])
                               /\ j[2] >= rows[p][2]
    <3>1. CASE p = i
      BY <1>1, <1>2, <2>1, <3>1 DEF k, SameConversation
    <3>2. CASE p # i
      BY <1>1, <2>1, <3>2 DEF KeptSoFar
    <3>3. QED
      BY <3>1, <3>2
  <2>4. \A j, l \in next : SameConversation(j, l) => j = l
    BY <1>3, <2>1 DEF KeptSoFar, SameConversation
  <2>5. QED
    BY <2>2, <2>3, <2>4 DEF KeptSoFar, k
<1>4. ASSUME NEW m \in kept, SameConversation(m, k)
      PROVE  KeptSoFar(rows, i, next)
  <2>1. \A j \in kept : SameConversation(j, k) <=> j = m
    BY <1>4 DEF KeptSoFar, SameConversation
  <2>2. next = {IF SameConversation(j, k) /\ k[2] > j[2] THEN k ELSE j :
                  j \in kept}
    BY <1>4 DEF KeepNewer
  <2> DEFINE new == IF k[2] > m[2] THEN k ELSE m
  <2>3. next = (kept \ {m}) \union {new}
    BY <2>1, <2>2
  <2>4. /\ new \in {k, m} /\ new[2] >= k[2] /\ new[2] >= m[2]
        /\ SameConversation(new, k)
    BY <1>1, <1>2, <1>4 DEF SameConversation
  <2> HIDE DEF new, next
  <2>5. \A j \in next : \E p \in 1..i : j = rows[p]
    BY <1>1, <2>3, <2>4 DEF KeptSoFar, k
  <2>6. ASSUME NEW p \in 1..i
        PROVE  \E j \in next : SameConversation(j, rows[p])
                               /\ j[2] >= rows[p][2]
    <3>1. CASE p = i
      BY <2>3, <2>4, <3>1 DEF k
    <3>2. CASE p # i
      <4>1. PICK j \in kept : SameConversation(j, rows[p])
                             /\ j[2] >= rows[p][2]
        BY <1>1, <3>2 DEF KeptSoFar
      <4>2. CASE j = m
        <5>1. SameConversation(new, rows[p])
          BY <1>4, <2>4, <4>1, <4>2 DEF SameConversation
        <5>2. rows[p] \in K /\ new \in K
          BY <1>1, <2>4
        <5>3. new[2] >= rows[p][2]
          BY <1>2, <2>4, <4>1, <4>2, <5>2
        <5>4. QED
          BY <2>3, <5>1, <5>3
      <4>3. CASE j # m
        BY <2>3, <4>1, <4>3
      <4>4. QED
        BY <4>2, <4>3
    <3>3. QED
      BY <3>1, <3>2
  <2>7. ASSUME NEW j \in next, NEW l \in next, SameConversation(j, l)
        PROVE  j = l
    <3>1. \A q \in kept \ {m} : ~SameConversation(q, new)
                                /\ ~SameConversation(new, q)
      BY <2>1, <2>4 DEF SameConversation
    <3>2. QED
      BY <2>3, <2>7, <3>1 DEF KeptSoFar
  <2>8. QED
    BY <2>5, <2>6, <2>7 DEF KeptSoFar
<1>5. QED
  BY <1>3, <1>4 DEF k, next

(* Recent conversations are right, whatever messages there are and in      *)
(* whatever order the database lists the two directions of a chat.         *)
LEMMA RecentIsRight ==
  ASSUME StoreTypeOK, PrivateToUsers
  PROVE  RecentRight
<1> SUFFICES ASSUME NEW u \in Users,
                    NEW directions \in SetToSeqs(Directions(u))
             PROVE
      LET list == getMyRecentConversations(u, groups, directions)
          of(g) == {k \in Live : k[1] = "group" /\ msgs[k].to = g}
      IN  /\ {k \in list : k[1] = "private"} =
               {Newest(Between(u, v)) :
                  v \in {w \in Users : Between(u, w) # {}}}
          /\ \A g \in groups : of(g) # {} => Newest(of(g)) \in list
  BY DEF RecentRight
<1> DEFINE Way(a, b) == {k \in Private(u) : msgs[k].sender = a
                                          /\ msgs[k].to = b}
<1>1. ASSUME NEW k \in Private(u)
      PROVE  LET m == Newest(Way(msgs[k].sender, msgs[k].to))
             IN  m \in Way(msgs[k].sender, msgs[k].to)
                 /\ \A j \in Way(msgs[k].sender, msgs[k].to) : j[2] <= m[2]
  <2>1. /\ k \in Way(msgs[k].sender, msgs[k].to)
        /\ Way(msgs[k].sender, msgs[k].to) \subseteq Live
        /\ \A j \in Way(msgs[k].sender, msgs[k].to) : j[1] = "private"
    BY DEF Private
  <2> HIDE DEF Way
  <2>2. QED
    BY <2>1, NewestIn
<1>2. Directions(u) =
        {Newest(Way(d[1], d[2])) :
           d \in {<<msgs[k].sender, msgs[k].to>> : k \in Private(u)}}
  BY DEF Directions
<1>3. ASSUME NEW k \in Private(u)
      PROVE  Newest(Way(msgs[k].sender, msgs[k].to)) \in Directions(u)
  <2>1. PICK d : d = <<msgs[k].sender, msgs[k].to>>
    OBVIOUS
  <2> HIDE DEF Way
  <2>2. Newest(Way(d[1], d[2])) \in Directions(u)
    BY <1>2, <2>1
  <2>3. QED
    BY <2>1, <2>2
<1>4. Directions(u) \subseteq Private(u)
  <2>1. ASSUME NEW j \in Directions(u)
        PROVE  j \in Private(u)
    <3>1. PICK k \in Private(u) : j = Newest(Way(msgs[k].sender, msgs[k].to))
      <4> HIDE DEF Way
      <4>1. QED
        BY <1>2
    <3>2. QED
      BY <1>1, <3>1
  <2>2. QED
    BY <2>1
<1>5. \A k \in Private(u) : k \in Live /\ k[1] = "private"
  BY DEF Private
<1>6. DistinctIds(Private(u)) /\ IsFiniteSet(Directions(u))
      /\ DistinctIds(Directions(u))
  BY <1>4, <1>5, TableFinite
(* The two directions of a chat merge into its newest row.                 *)
<1> DEFINE n == Cardinality(Directions(u))
           kept == KeptOf(directions)
<1>7. n \in Nat /\ directions \in [1..n -> Directions(u)]
      /\ \A k \in Directions(u) : \E p \in 1..n : directions[p] = k
  BY <1>6, SeqsOnto
<1> HIDE DEF n
<1>8. kept \in SUBSET Directions(u) /\ KeptSoFar(directions, n, kept)
  <2>1. \A S \in SUBSET Directions(u), k \in Directions(u) :
          KeepNewer(S, k) \in SUBSET Directions(u)
    BY DEF KeepNewer
  <2>2. {} \in SUBSET Directions(u)
    OBVIOUS
  <2>3. PICK g : KeptSteps(g, n, directions, SUBSET Directions(u))
    BY <1>7, <2>1, <2>2, KeptFold
  <2>4. /\ g \in [0..n -> SUBSET Directions(u)] /\ g[n] = kept
        /\ g[0] = {}
        /\ \A i \in 1..n : g[i] = KeepNewer(g[i - 1], directions[i])
    BY <2>3 DEF KeptSteps
  <2> DEFINE Bad == {i \in 0..n : ~KeptSoFar(directions, i, g[i])}
  <2> HIDE DEF kept
  <2>5. SUFFICES ASSUME Bad # {} PROVE FALSE
    <3>1. n \in 0..n
      BY <1>7
    <3>2. QED
      BY <2>4, <3>1
  <2>6. PICK i \in Bad : \A k \in Bad : i <= k
    <3>1. Bad \in SUBSET Nat
      OBVIOUS
    <3> HIDE DEF Bad
    <3>2. QED
      BY <2>5, <3>1, LeastNatural
  <2>7. i # 0
    <3>1. KeptSoFar(directions, 0, {})
      BY DEF KeptSoFar
    <3>2. QED
      BY <2>4, <2>6, <3>1
  <2>8. i \in 1..n /\ i - 1 \in 0..n /\ ~(i <= i - 1)
    BY <1>7, <2>6, <2>7
  <2>9. KeptSoFar(directions, i - 1, g[i - 1])
        /\ g[i - 1] \in SUBSET Directions(u)
    BY <2>4, <2>6, <2>8
  <2>10. KeptSoFar(directions, i, KeepNewer(g[i - 1], directions[i]))
    BY <1>6, <1>7, <2>8, <2>9, KeptGrows
  <2>11. QED
    BY <2>4, <2>6, <2>8, <2>10
<1> HIDE DEF kept, Way
<1>9. ASSUME NEW v \in Users, Between(u, v) # {}
      PROVE  Newest(Between(u, v)) \in kept
  <2> DEFINE m == Newest(Between(u, v))
  <2>1. m \in Between(u, v) /\ \A k \in Between(u, v) : k[2] <= m[2]
    BY <1>9, NewestIn DEF Between
  <2> HIDE DEF m
  <2>2. m \in Private(u)
    BY <2>1 DEF Between, Private
  <2>3. Newest(Way(msgs[m].sender, msgs[m].to)) = m
    <3>1. /\ m \in Way(msgs[m].sender, msgs[m].to)
          /\ Way(msgs[m].sender, msgs[m].to) \subseteq Between(u, v)
          /\ Way(msgs[m].sender, msgs[m].to) \subseteq Private(u)
      BY <2>1, <2>2 DEF Way, Between, Private
    <3>2. DistinctIds(Way(msgs[m].sender, msgs[m].to))
      BY <1>6, <3>1 DEF DistinctIds
    <3>3. QED
      BY <2>1, <3>1, <3>2, NewestIs
  <2>4. m \in Directions(u)
    BY <1>3, <2>2, <2>3
  <2>5. PICK p \in 1..n : directions[p] = m
    BY <1>7, <2>4
  <2>6. PICK j \in kept : SameConversation(j, m) /\ j[2] >= m[2]
    BY <1>8, <2>5 DEF KeptSoFar
  <2>7. j \in Private(u) /\ j \in Between(u, v)
    BY <1>4, <1>8, <2>1, <2>6 DEF Between, Private, SameConversation
  <2>8. j[2] = m[2]
    BY <1>6, <2>1, <2>2, <2>6, <2>7 DEF DistinctIds
  <2>9. j = m
    BY <1>6, <2>2, <2>7, <2>8 DEF DistinctIds
  <2>10. QED
    BY <2>6, <2>9 DEF m
<1>10. ASSUME NEW j \in kept
       PROVE  \E v \in {w \in Users : Between(u, w) # {}} :
                j = Newest(Between(u, v))
  <2>1. j \in Private(u)
    BY <1>4, <1>8
  <2>2. PICK v : v = Partner(u, j)
    OBVIOUS
  <2>3. v \in Users /\ j \in Between(u, v)
    BY <2>1, <2>2, PartnerOf
  <2>4. PICK m : m = Newest(Between(u, v))
    OBVIOUS
  <2>5. m \in kept
    BY <1>9, <2>3, <2>4
  <2>6. m \in Between(u, v)
    BY <2>3, <2>4, NewestIn DEF Between
  <2>7. SameConversation(j, m)
    BY <2>3, <2>6 DEF Between, SameConversation
  <2>8. j = m
    BY <1>8, <2>5, <2>7 DEF KeptSoFar
  <2>9. QED
    BY <2>3, <2>4, <2>8
(* The rows of groups.                                                     *)
<1> DEFINE list == getMyRecentConversations(u, groups, directions)
           of(g) == {k \in Live : k[1] = "group" /\ msgs[k].to = g}
<1>11. list = kept \union NewestInGroups(u, groups)
  BY DEF getMyRecentConversations, kept, KeptOf
<1>12. \A k \in kept : k[1] = "private"
  BY <1>4, <1>5, <1>8
<1> DEFINE shown == NewestInGroups(u, groups)
           K == {k \in Live : /\ k[1] = "group"
                             /\ \/ msgs[k].sender = u
                                \/ msgs[k].to \in groups}
           Of(g) == {k \in K : msgs[k].to = g}
<1>13. shown = {Newest(Of(g)) : g \in {msgs[k].to : k \in K}}
  BY DEF NewestInGroups
<1>14. \A k \in shown : k[1] = "group"
  <2>1. ASSUME NEW h \in K
        PROVE  Newest(Of(msgs[h].to))[1] = "group"
    <3>1. Of(msgs[h].to) # {} /\ Of(msgs[h].to) \subseteq Live
          /\ \A k \in Of(msgs[h].to) : k[1] = "group"
      OBVIOUS
    <3> HIDE DEF Of
    <3>2. QED
      BY <3>1, NewestIn
  <2> HIDE DEF Of, K, shown
  <2>2. QED
    BY <1>13, <2>1
<1>15. ASSUME NEW g \in groups, of(g) # {}
       PROVE  Newest(of(g)) \in shown
  <2>1. of(g) = Of(g)
    OBVIOUS
  <2>2. g \in {msgs[k].to : k \in K}
    BY <1>15
  <2> HIDE DEF Of, of, K, shown
  <2>3. QED
    BY <1>13, <2>1, <2>2
<1>16. {k \in list : k[1] = "private"} = kept
  <2> HIDE DEF list, shown
  <2>1. list = kept \union shown
    BY <1>11 DEF shown
  <2>2. QED
    BY <1>12, <1>14, <2>1
<1>17. kept = {Newest(Between(u, v)) :
                 v \in {w \in Users : Between(u, w) # {}}}
  BY <1>9, <1>10
<1>18. \A g \in groups : of(g) # {} => Newest(of(g)) \in list
  BY <1>11, <1>15
<1>19. QED
  BY <1>16, <1>17, <1>18

-----------------------------------------------------------------------------
(* Who private messages are for.                                           *)

LEMMA StartsToUsers == Init => PrivateToUsers
<1> SUFFICES ASSUME Init, NEW k \in Live, k[1] = "private"
             PROVE  msgs[k].to \in Users
  BY DEF PrivateToUsers
<1>1. Clients \subseteq Users
  BY GatewayAssumption
<1>2. CASE Stocked
  <2> DEFINE last == MaxMessages - 1
             u == CHOOSE c \in Clients : TRUE
  <2>1. PICK v \in Clients, g \in Groups :
          msgs = [j \in Tables \X {last} |->
                    NewRow(u, IF j[1] = "private" THEN v ELSE g, Null, Null)]
    BY <1>2 DEF Stocked
  <2> HIDE DEF last, u
  <2>2. k \in Tables \X {last}
    BY <2>1 DEF Live
  <2>3. msgs[k] = NewRow(u, v, Null, Null)
    BY <2>1, <2>2
  <2>4. QED
    BY <1>1, <2>3 DEF NewRow
<1>3. CASE Listing
  <2>1. PICK n \in 0..MaxHistory : \E rows \in [1..n -> Users \X Users] :
          msgs = [j \in {"private"} \X (1..n) |->
                    NewRow(rows[j[2]][1], rows[j[2]][2], Null, Null)]
    BY <1>3 DEF Listing
  <2>2. PICK rows \in [1..n -> Users \X Users] :
          msgs = [j \in {"private"} \X (1..n) |->
                    NewRow(rows[j[2]][1], rows[j[2]][2], Null, Null)]
    BY <2>1
  <2>3. k \in {"private"} \X (1..n)
    BY <2>2 DEF Live
  <2>4. msgs[k].to = rows[k[2]][2]
    BY <2>2, <2>3 DEF NewRow
  <2>5. QED
    BY <2>3, <2>4
<1>4. QED
  BY <1>2, <1>3 DEF Init

(* The rows that stay are for whom they were for.                          *)
LEMMA SameReceivers ==
  ASSUME PrivateToUsers, Live' \subseteq Live,
         \A k \in Live' : msgs'[k].to = msgs[k].to
  PROVE  PrivateToUsers'
BY DEF PrivateToUsers

LEMMA DeleteReceivers ==
  ASSUME PrivateToUsers, StoreTypeOK, NEW D, deleteRows(D)
  PROVE  PrivateToUsers'
<1>1. /\ Live' = Live \ Cascade(D)
      /\ \A k \in Live' : msgs'[k] = Forget(Cascade(D), msgs[k])
  BY DEF deleteRows, Live
<1>2. \A k \in Live' : msgs'[k].to = msgs[k].to
  BY <1>1 DEF Forget, StoreTypeOK, Row
<1>3. QED
  BY <1>1, <1>2, SameReceivers

LEMMA UpdateReceivers ==
  ASSUME PrivateToUsers, NEW k, NEW r, UpdateRow(k, r),
         k \in Live => r.to = msgs[k].to
  PROVE  PrivateToUsers'
<1>1. Live' = Live /\ \A j \in Live : msgs'[j].to = msgs[j].to
  BY DEF UpdateRow, Live
<1>2. QED
  BY <1>1, SameReceivers

(* What a handler writes.                                                  *)
LEMMA WriteReceivers ==
  ASSUME IInv, PrivateToUsers, NEW s \in Slots, Proceed(s)
  PROVE  PrivateToUsers'
<1>1. pending[s].call.do # "idle"
  BY DEF Proceed, Find, CreateRow, CreateReaction, FindReaction,
     DeleteReaction, UpdatePinned, DeleteMessage, FindUnseen, UpdateSeen,
     Announce, Refuse
<1>2. PICK c \in Call : c = pending[s].call
  BY <1>1, BusyRequest DEF IInv
<1>3. StoreTypeOK /\ \A k \in Live : msgs[k] \in Row
  BY DEF IInv, TypeOK, StoreTypeOK
<1>4. CASE CreateRow(s, c)
  <2>1. /\ createMessage(c.table, c.row)
        /\ c.table = "private" => c.row.to \in Users
    BY <1>4, CallKinds DEF CreateRow, Write, Creations
  <2>2. PICK new : new = <<c.table, nextId[c.table]>>
    OBVIOUS
  <2>3. CASE msgs' = msgs
    BY <2>3, SameReceivers DEF Live
  <2>4. CASE msgs' = WithRow(new, c.row)
    <3>1. /\ Live' = Live \union {new} /\ msgs'[new] = c.row
          /\ \A k \in Live : k # new => msgs'[k] = msgs[k]
      BY <2>4 DEF WithRow, Live
    <3>2. new[1] = c.table
      BY <2>2
    <3>3. QED
      BY <2>1, <3>1, <3>2 DEF PrivateToUsers
  <2>5. QED
    BY <2>1, <2>2, <2>3, <2>4 DEF createMessage
<1>5. CASE DeleteMessage(s, c)
  <2>1. deleteMessage(c.key) \/ archiveMessages({c.key})
    BY <1>5 DEF DeleteMessage, WriteMessage, Write
  <2>2. CASE deleteMessage(c.key)
    BY <1>3, <2>2, DeleteReceivers DEF deleteMessage
  <2>3. CASE archiveMessages({c.key})
    <3>1. Live' = Live /\ \A k \in Live : msgs'[k].to = msgs[k].to
      BY <2>3 DEF archiveMessages, Live
    <3>2. QED
      BY <3>1, SameReceivers
  <2>4. QED
    BY <2>1, <2>2, <2>3
<1>6. CASE UpdatePinned(s, c)
  <2>1. updateMessageIsPinned(c.key, c.pin) /\ c.pin \in BOOLEAN
    BY <1>6, CallKinds DEF UpdatePinned, WriteMessage, Write, Pinnings
  <2>2. QED
    BY <1>3, <2>1, UpdatedRows, UpdateReceivers DEF updateMessageIsPinned
<1>7. CASE UpdateSeen(s, c)
  <2>1. updateMessageSeen(c.key)
    BY <1>7 DEF UpdateSeen, WriteMessage, Write
  <2>2. QED
    BY <1>3, <2>1, UpdatedRows, UpdateReceivers DEF updateMessageSeen
<1>8. CASE \/ Find(s, c) \/ CreateReaction(s, c) \/ FindReaction(s, c)
           \/ DeleteReaction(s, c) \/ FindUnseen(s, c) \/ Announce(s, c)
           \/ Refuse(s, c)
  <2>1. msgs' = msgs
    BY <1>8 DEF Find, CreateReaction, FindReaction, DeleteReaction,
       FindUnseen, Announce, Refuse, Check, Write, createReaction,
       deleteReaction, storeVars
  <2>2. QED
    BY <2>1, SameReceivers DEF Live
<1>9. \/ Find(s, c) \/ CreateRow(s, c) \/ CreateReaction(s, c)
      \/ FindReaction(s, c) \/ DeleteReaction(s, c) \/ UpdatePinned(s, c)
      \/ DeleteMessage(s, c) \/ FindUnseen(s, c) \/ UpdateSeen(s, c)
      \/ Announce(s, c) \/ Refuse(s, c)
  BY <1>2 DEF Proceed
<1>10. QED
  BY <1>4, <1>5, <1>6, <1>7, <1>8, <1>9

(* A request that arrives writes nothing yet.                              *)
LEMMA ArriveWritesNothing ==
  ASSUME NEW s \in Slots, NEW u \in Clients, Arrive(s, u)
  PROVE  UNCHANGED storeVars /\ ahead' = ahead
<1>1. \A op, c : Arrives(s, op, u, c) => UNCHANGED storeVars /\ ahead' = ahead
  BY DEF Arrives, connectionVars
<1>2. \A v, k, g, e, pin, bad, r :
        \/ handleMessage(s, u, v, r) \/ forwardToPrivate(s, u, k, v)
        \/ handleGroupMessage(s, u, g, r, bad)
        \/ forwardToGroup(s, u, k, g) \/ sendReaction(s, u, k, e)
        \/ unpin(s, u, k, pin) \/ handleDelete(s, u, k)
        \/ messageSeen(s, u, k) \/ removeReaction(s, u, r)
        => UNCHANGED storeVars /\ ahead' = ahead
  BY <1>1 DEF handleMessage, handleGroupMessage, forwardToPrivate,
     forwardToGroup, Forward, sendReaction, unpin, handleDelete,
     messageSeen, removeReaction
<1>3. QED
  BY <1>2 DEF Arrive

LEMMA ReceiversKeep ==
  ASSUME IInv, PrivateToUsers, [Next]_vars
  PROVE  PrivateToUsers'
<1>1. CASE \E s \in Slots : Proceed(s)
  BY <1>1, WriteReceivers
<1>2. CASE \E g \in Groups : GroupDeleted(g)
  BY <1>2, DeleteReceivers DEF GroupDeleted, deleteGroup, IInv, TypeOK
<1>3. CASE \/ UNCHANGED vars
           \/ \E s \in Slots, u \in Clients : Arrive(s, u)
           \/ \E u \in Clients : SocketStep(u)
           \/ \E o \in DOMAIN owner : OrgDeleted(o)
           \/ \E u \in Clients, g \in Groups : MemberLeaves(u, g)
           \/ \E g \in Groups : GroupCreated(g)
           \/ Restart
  <2>1. \A s \in Slots, u \in Clients : Arrive(s, u) => msgs' = msgs
    BY ArriveWritesNothing DEF storeVars
  <2>2. \A u \in Clients : SocketStep(u) => msgs' = msgs
    BY DEF SocketStep, Connect, JoinOwnRoom, ReadMemberGroups, ReadMyOrgs,
       ReadMyGroups, JoinRooms, Disconnect, Stage, dbVars, storeVars
  <2>3. msgs' = msgs
    BY <1>3, <2>1, <2>2 DEF OrgDeleted, MemberLeaves, GroupCreated, Restart,
       dbVars, storeVars, vars
  <2>4. QED
    BY <2>3, SameReceivers DEF Live
<1>4. QED
  BY <1>1, <1>2, <1>3 DEF Next

LEMMA AlwaysToUsers == Spec => []PrivateToUsers
<1>1. IInv /\ PrivateToUsers /\ [Next]_vars => PrivateToUsers'
  BY ReceiversKeep
<1>2. QED
  BY Inductive, StartsToUsers, <1>1, PTL DEF Spec

-----------------------------------------------------------------------------
(* In every state the gateway can be in, with any number of messages, the  *)
(* chats of a user are each listed once, all of them, and in the order of  *)
(* their last messages.                                                    *)
THEOREM ChatsAlwaysListed == Spec => []ChatsListed
<1>1. IInv /\ PrivateToUsers => ChatsListed
  BY ChatsAreRight DEF IInv, TypeOK, ChatsListed
<1>2. QED
  BY Inductive, AlwaysToUsers, <1>1, PTL

(* In every state the gateway can be in, recent conversations show the     *)
(* last private message with each partner and the last of each group,      *)
(* whatever order the database lists the two directions of a chat in.      *)
THEOREM RecentAlwaysListed == Spec => []RecentListed
<1>1. IInv /\ PrivateToUsers => RecentListed
  BY RecentIsRight DEF IInv, TypeOK, RecentListed
<1>2. QED
  BY Inductive, AlwaysToUsers, <1>1, PTL

-----------------------------------------------------------------------------
(***************************************************************************)
(* ChatGateway implements MessageForest: what a handler inserts is posted, *)
(* what it deletes is removed with its thread, a group that is created is  *)
(* founded and one that is deleted dissolved; nothing else touches the     *)
(* forest.                                                                 *)
(***************************************************************************)
LEMMA ForestState == Forest!There = Live
BY DEF Forest!There, Posts

LEMMA ForestStutters ==
  ASSUME Posts' = Posts, Used' = Used, groups' = groups, ahead' = ahead
  PROVE  UNCHANGED Forest!fvars
BY DEF Forest!fvars

LEMMA SameStore ==
  ASSUME UNCHANGED storeVars, ahead' = ahead
  PROVE  UNCHANGED Forest!fvars
BY AttachPosts, ForestStutters DEF storeVars

(* The statements of the handlers.                                         *)
LEMMA CreateRefines ==
  ASSUME StoreTypeOK, NEW t \in Tables, NEW r \in Row, createMessage(t, r),
         ahead' = ahead
  PROVE  [Forest!ForestNext]_(Forest!fvars)
<1>1. groups' = groups
  BY DEF createMessage
<1>2. ASSUME NEW n \in Keys \ Used, NEW parents \in SUBSET Live,
             NEW home \in groups \union {Null}, Gains(n, parents, home)
      PROVE  Forest!ForestNext
  <2>1. Forest!Post(n)
    BY <1>1, <1>2, ForestState DEF Forest!Post, Gains
  <2>2. QED
    BY <2>1 DEF Forest!ForestNext
<1>3. ASSUME NEW n \in Keys \ Used, Used' = Used \union {n}, Posts' = Posts
      PROVE  Forest!ForestNext
  BY <1>1, <1>3 DEF Forest!Lose, Forest!ForestNext
<1>4. QED
  BY <1>1, <1>2, <1>3, CreatePosts, ForestStutters

LEMMA DeleteRefines ==
  ASSUME StoreTypeOK, NEW k \in PrivateKeys, deleteMessage(k), ahead' = ahead
  PROVE  [Forest!ForestNext]_(Forest!fvars)
<1>1. CASE k \in Live
  <2>1. Prunes({k}) /\ groups' = groups
    BY <1>1, DeletePosts
  <2>2. Forest!Remove(k)
    BY <1>1, <2>1, ForestState
       DEF Forest!Remove, Forest!Prune, Forest!GoesWith, Prunes
  <2>3. QED
    BY <2>2 DEF Forest!ForestNext, PrivateKeys
<1>2. CASE k \notin Live
  BY <1>2, DeletePosts, ForestStutters
<1>3. QED
  BY <1>1, <1>2

LEMMA DeleteGroupRefines ==
  ASSUME StoreTypeOK, NEW g \in groups, deleteGroup(g), ahead' = ahead
  PROVE  Forest!ForestNext
<1>1. g \in Groups
  BY DEF StoreTypeOK
<1>2. Prunes({k \in Live : Posts[k].home = g}) /\ groups' = groups \ {g}
  BY DeleteGroupPosts
<1>3. Forest!Dissolve(g)
  BY <1>2, ForestState
     DEF Forest!Dissolve, Forest!Prune, Forest!GoesWith, Prunes
<1>4. QED
  BY <1>1, <1>3 DEF Forest!ForestNext

(* What the request in a slot does next.                                   *)
LEMMA ProceedRefines ==
  ASSUME IInv, NEW s \in Slots, Proceed(s)
  PROVE  [Forest!ForestNext]_(Forest!fvars)
<1>1. pending[s].call.do # "idle"
  BY DEF Proceed, Find, CreateRow, CreateReaction, FindReaction,
     DeleteReaction, UpdatePinned, DeleteMessage, FindUnseen, UpdateSeen,
     Announce, Refuse
<1>2. PICK c \in Call : c = pending[s].call
  BY <1>1, BusyRequest DEF IInv
<1>3. StoreTypeOK /\ \A k \in Live : msgs[k] \in Row
  BY DEF IInv, TypeOK, StoreTypeOK
<1>4. CASE CreateRow(s, c)
  <2>1. /\ createMessage(c.table, c.row) /\ ahead' = ahead
        /\ c.table \in Tables /\ c.row \in Row
    BY <1>4, CallKinds DEF CreateRow, Write, Creations, connectionVars
  <2>2. QED
    BY <1>3, <2>1, CreateRefines
<1>5. CASE DeleteMessage(s, c)
  <2>1. /\ ahead' = ahead /\ c.key \in Keys
        /\ IF c.key[1] = "private" THEN deleteMessage(c.key)
           ELSE archiveMessages({c.key})
    BY <1>5, CallKinds
       DEF DeleteMessage, WriteMessage, Write, Changes, connectionVars
  <2>2. CASE c.key[1] = "private"
    <3>1. c.key \in PrivateKeys /\ deleteMessage(c.key)
      BY <2>1, <2>2 DEF PrivateKeys
    <3>2. QED
      BY <1>3, <2>1, <3>1, DeleteRefines
  <2>3. CASE c.key[1] # "private"
    BY <2>1, <2>3, ArchivePosts, ForestStutters
  <2>4. QED
    BY <2>2, <2>3
<1>6. CASE UpdatePinned(s, c)
  <2>1. /\ updateMessageIsPinned(c.key, c.pin) /\ c.pin \in BOOLEAN
        /\ ahead' = ahead
    BY <1>6, CallKinds
       DEF UpdatePinned, WriteMessage, Write, Pinnings, connectionVars
  <2>2. Posts' = Posts /\ Used' = Used /\ groups' = groups
    BY <1>3, <2>1, UpdatedRows, UpdatePosts DEF updateMessageIsPinned
  <2>3. QED
    BY <2>1, <2>2, ForestStutters
<1>7. CASE UpdateSeen(s, c)
  <2>1. updateMessageSeen(c.key) /\ ahead' = ahead
    BY <1>7 DEF UpdateSeen, WriteMessage, Write, connectionVars
  <2>2. Posts' = Posts /\ Used' = Used /\ groups' = groups
    BY <1>3, <2>1, UpdatedRows, UpdatePosts DEF updateMessageSeen
  <2>3. QED
    BY <2>1, <2>2, ForestStutters
<1>8. CASE CreateReaction(s, c) \/ DeleteReaction(s, c)
  <2>1. /\ ahead' = ahead
        /\ \/ createReaction(pending[s].by, c.key, c.type)
           \/ deleteReaction(c.reaction.id)
    BY <1>8 DEF CreateReaction, DeleteReaction, Write, connectionVars
  <2>2. /\ msgs' = msgs /\ groups' = groups
        /\ \A t \in Tables : nextId'[t] = nextId[t]
    BY <1>3, <2>1, DrawElsewhere DEF createReaction, deleteReaction
  <2>3. QED
    BY <2>1, <2>2, AttachPosts, ForestStutters
<1>9. CASE \/ Find(s, c) \/ FindReaction(s, c) \/ FindUnseen(s, c)
           \/ Announce(s, c) \/ Refuse(s, c)
  <2>1. UNCHANGED storeVars /\ ahead' = ahead
    BY <1>9 DEF Find, FindReaction, FindUnseen, Announce, Refuse, Check,
       connectionVars
  <2>2. QED
    BY <2>1, SameStore
<1>10. \/ Find(s, c) \/ CreateRow(s, c) \/ CreateReaction(s, c)
       \/ FindReaction(s, c) \/ DeleteReaction(s, c) \/ UpdatePinned(s, c)
       \/ DeleteMessage(s, c) \/ FindUnseen(s, c) \/ UpdateSeen(s, c)
       \/ Announce(s, c) \/ Refuse(s, c)
  BY <1>2 DEF Proceed
<1>11. QED
  BY <1>4, <1>5, <1>6, <1>7, <1>8, <1>9, <1>10

LEMMA NextRefines ==
  ASSUME IInv, [Next]_vars
  PROVE  [Forest!ForestNext]_(Forest!fvars)
<1>1. StoreTypeOK /\ ahead \subseteq Groups
  BY DEF IInv, TypeOK
<1>2. CASE \E s \in Slots : Proceed(s)
  BY <1>2, ProceedRefines
<1>3. ASSUME NEW g \in Groups, GroupDeleted(g)
      PROVE  Forest!ForestNext
  BY <1>1, <1>3, DeleteGroupRefines DEF GroupDeleted
<1>4. ASSUME NEW g \in Groups, GroupCreated(g)
      PROVE  Forest!ForestNext
  <2>1. /\ g \in ahead /\ groups' = groups \union {g}
        /\ ahead' = ahead \ {g} /\ msgs' = msgs /\ nextId' = nextId
    BY <1>4 DEF GroupCreated
  <2>2. Forest!Found(g)
    BY <2>1, AttachPosts DEF Forest!Found
  <2>3. QED
    BY <2>2 DEF Forest!ForestNext
<1>5. CASE \/ UNCHANGED vars
           \/ \E s \in Slots, u \in Clients : Arrive(s, u)
           \/ \E u \in Clients : SocketStep(u)
           \/ \E o \in DOMAIN owner : OrgDeleted(o)
           \/ \E u \in Clients, g \in Groups : MemberLeaves(u, g)
           \/ Restart
  <2>1. \A s \in Slots, u \in Clients :
          Arrive(s, u) => UNCHANGED storeVars /\ ahead' = ahead
    BY ArriveWritesNothing
  <2>2. \A u \in Clients :
          SocketStep(u) => UNCHANGED storeVars /\ ahead' = ahead
    BY DEF SocketStep, Connect, JoinOwnRoom, ReadMemberGroups, ReadMyOrgs,
       ReadMyGroups, JoinRooms, Disconnect, Stage, dbVars
  <2>3. UNCHANGED storeVars /\ ahead' = ahead
    BY <1>5, <2>1, <2>2 DEF OrgDeleted, MemberLeaves, Restart, dbVars, vars
  <2>4. QED
    BY <2>3, SameStore
<1>6. QED
  BY <1>2, <1>3, <1>4, <1>5 DEF Next

(* The ids of the messages a behaviour starts with are used up.            *)
LEMMA StartsUsed == Init => Live \subseteq Used
<1> SUFFICES ASSUME Init, NEW k \in Live
             PROVE  k[2] < nextId[k[1]] /\ k \in Keys
  BY DEF Used
<1>1. k \in Keys
  BY InitOK DEF IInv, TypeOK, StoreTypeOK
<1>2. CASE Stocked
  <2> DEFINE last == MaxMessages - 1
             u == CHOOSE c \in Clients : TRUE
  <2>1. PICK v \in Clients, g \in Groups :
          msgs = [j \in Tables \X {last} |->
                    NewRow(u, IF j[1] = "private" THEN v ELSE g, Null, Null)]
    BY <1>2 DEF Stocked
  <2>2. nextId = [q \in Sequences |-> IF q \in Tables THEN last + 1 ELSE 1]
    BY <1>2 DEF Stocked
  <2>3. last \in Int
    BY BoundsAssumption
  <2> HIDE DEF last, u
  <2>4. k \in Tables \X {last}
    BY <2>1 DEF Live
  <2>5. nextId[k[1]] = last + 1 /\ k[2] = last
    BY <2>2, <2>4 DEF Sequences
  <2>6. QED
    BY <1>1, <2>3, <2>5
<1>3. CASE Listing
  <2>1. PICK n \in 0..MaxHistory : \E rows \in [1..n -> Users \X Users] :
          /\ msgs = [j \in {"private"} \X (1..n) |->
                       NewRow(rows[j[2]][1], rows[j[2]][2], Null, Null)]
          /\ nextId = [q \in Sequences |-> IF q = "private" THEN n + 1
                                           ELSE 1]
    BY <1>3 DEF Listing
  <2>2. k \in {"private"} \X (1..n)
    BY <2>1 DEF Live
  <2>3. nextId["private"] = n + 1
    BY <2>1 DEF Sequences, Tables
  <2>4. QED
    BY <1>1, <2>2, <2>3
<1>4. QED
  BY <1>2, <1>3 DEF Init

(* Every behaviour of the gateway, from whatever messages it starts with,  *)
(* is a behaviour of the message forest: a message is inserted only while  *)
(* what it answers or forwards and its group are there, however long ago   *)
(* the handler looked, and goes only with what it hangs from.              *)
THEOREM GatewayKeepsForest == Spec => ImplementsForest
<1>1. Init => Forest!ForestInit
  <2> SUFFICES ASSUME Init
               PROVE  Forest!ForestInit
    OBVIOUS
  <2>1. StoreTypeOK /\ RefsHold /\ ahead \subseteq Groups
    BY InitOK DEF IInv, TypeOK
  <2>2. /\ Live \subseteq Used /\ Used \subseteq Keys
        /\ groups = Groups \ ahead
    BY StartsUsed DEF Init, Used
  <2>3. \A n \in Live : /\ Posts[n].parents \subseteq Live
                        /\ Posts[n].home \in groups \union {Null}
    BY <2>1, RefsRooted
  <2>4. QED
    BY <2>1, <2>2, <2>3, ForestState DEF Forest!ForestInit
<1>2. IInv /\ [Next]_vars => [Forest!ForestNext]_(Forest!fvars)
  BY NextRefines
<1>3. QED
  BY <1>1, <1>2, Inductive, PTL
     DEF Spec, ImplementsForest, Forest!ForestSpec
=============================================================================
