------------------------- MODULE PrivateChat_proofs -------------------------
(***************************************************************************)
(* Theorems about PrivateChat for every set of users, groups, reaction     *)
(* types and slots, every bound on the ids and every activity.             *)
(***************************************************************************)
EXTENDS PrivateChat, MessageStore_proofs

-----------------------------------------------------------------------------
(* A row the message exists for is a row.                                  *)
LEMMA LiveRow ==
  ASSUME TypeOK, NEW k \in Live
  PROVE  k \in Keys /\ msgs[k] \in Row
BY DEF TypeOK, StoreTypeOK

(* A slot with something left to do holds a request.                       *)
LEMMA BusyRequest ==
  ASSUME TypeOK, NEW s \in Slots,
         pending[s].todo # {} \/ pending[s].reads # {}
  PROVE  pending[s] \in Request
BY DEF TypeOK, Idle, Lost

LEMMA StoreUnchangedType ==
  ASSUME StoreTypeOK, UNCHANGED storeVars
  PROVE  StoreTypeOK'
BY DEF StoreTypeOK, storeVars, Live

LEMMA EnterType ==
  ASSUME TypeOK, NEW s \in Slots, NEW u \in Users, NEW reads \in SUBSET Keys,
         NEW statements \in SUBSET Statement, NEW refused \in BOOLEAN,
         Enter(s, u, reads, statements, refused)
  PROVE  TypeOK'
<1>1. [ by |-> u, reads |-> reads, valid |-> {}, todo |-> statements,
        refused |-> refused ] \in Request
  BY DEF Request
<1>2. pending' \in [Slots -> Request \union {Idle, Lost}]
  BY <1>1 DEF Enter, TypeOK
<1>3. StoreTypeOK'
  BY StoreUnchangedType DEF Enter, TypeOK
<1>4. QED
  BY <1>2, <1>3 DEF TypeOK

LEMMA AcceptType ==
  ASSUME TypeOK, NEW s \in Slots, NEW u \in Users,
         NEW statements \in SUBSET Statement, Accept(s, u, statements)
  PROVE  TypeOK'
BY EnterType DEF Accept

LEMMA CreateStatementType ==
  ASSUME NEW t \in Tables, NEW r \in Row
  PROVE  CreateStatement(t, r) \in Statement
BY DEF CreateStatement, Statement

-----------------------------------------------------------------------------
(* A request that is decided holds well-formed statements.                 *)
LEMMA ArriveType ==
  ASSUME TypeOK, NEW s \in Slots, Arrive(s)
  PROVE  TypeOK'
<1>1. PICK u \in Users :
        \/ \E r \in Users, k \in Live :
             \/ replyPrivateMessage(s, u, r, k)
             \/ forwardToPrivateMessage(s, u, r, k)
        \/ \E g \in Groups, k \in Live :
             \/ replyGroupMessage(s, u, g, k)
             \/ forwardToGroupMessage(s, u, g, k)
        \/ \E k \in Live :
             \/ unsendPrivateMessage(s, u, k)
             \/ unsendGroupMessage(s, u, k)
             \/ markSeen(s, u, k)
             \/ togglePinned(s, u, k)
             \/ \E e \in Emojis : react(s, u, k, e)
        \/ \E ids \in SUBSET PrivateLive : \E started \in SUBSET ids :
             deletePrivateMessages(s, u, ids, started)
        \/ \E ids \in SUBSET Keys : deleteGroupMessages(s, u, ids)
        \/ \E r \in reactions : removeReaction(s, u, r)
  BY DEF Arrive
<1> "private" \in Tables /\ "group" \in Tables
  BY DEF Tables
<1>2. ASSUME NEW r \in Users, NEW k \in Live,
             \/ replyPrivateMessage(s, u, r, k)
             \/ forwardToPrivateMessage(s, u, r, k)
      PROVE  TypeOK'
  <2>1. k \in Keys \union {Null} /\ Null \in Keys \union {Null}
    BY LiveRow
  <2>2. CASE replyPrivateMessage(s, u, r, k)
    <3>1. NewRow(u, r, k, Null) \in Row
      BY <2>1, NewRowType
    <3>2. QED
      BY <2>2, <3>1, CreateStatementType, AcceptType
         DEF replyPrivateMessage
  <2>3. CASE forwardToPrivateMessage(s, u, r, k)
    <3>1. NewRow(u, r, Null, k) \in Row
      BY <2>1, NewRowType
    <3>2. QED
      BY <2>3, <3>1, CreateStatementType, AcceptType
         DEF forwardToPrivateMessage
  <2>4. QED
    BY <1>2, <2>2, <2>3
<1>3. ASSUME NEW g \in Groups, NEW k \in Live,
             \/ replyGroupMessage(s, u, g, k)
             \/ forwardToGroupMessage(s, u, g, k)
      PROVE  TypeOK'
  <2>1. k \in Keys \union {Null} /\ Null \in Keys \union {Null}
    BY LiveRow
  <2>2. CASE replyGroupMessage(s, u, g, k)
    <3>1. NewRow(u, g, k, Null) \in Row
      BY <2>1, NewRowType
    <3>2. QED
      BY <2>2, <3>1, CreateStatementType, AcceptType DEF replyGroupMessage
  <2>3. CASE forwardToGroupMessage(s, u, g, k)
    <3>1. NewRow(u, g, Null, k) \in Row
      BY <2>1, NewRowType
    <3>2. QED
      BY <2>3, <3>1, CreateStatementType, AcceptType
         DEF forwardToGroupMessage
  <2>4. QED
    BY <1>3, <2>2, <2>3
<1>4. ASSUME NEW k \in Live, unsendPrivateMessage(s, u, k)
      PROVE  TypeOK'
  <2>1. {[do |-> "delete", key |-> k]} \in SUBSET Statement
    BY <1>4, LiveRow
       DEF unsendPrivateMessage, PrivateLive, PrivateKeys, Statement
  <2>2. QED
    BY <1>4, <2>1, AcceptType DEF unsendPrivateMessage
<1>5. ASSUME NEW k \in Live, unsendGroupMessage(s, u, k)
      PROVE  TypeOK'
  <2>1. {[do |-> "archive", keys |-> {k}]} \in SUBSET Statement
    BY LiveRow DEF Statement
  <2>2. QED
    BY <1>5, <2>1, AcceptType DEF unsendGroupMessage
<1>6. ASSUME NEW k \in Live, markSeen(s, u, k)
      PROVE  TypeOK'
  <2>1. {[do |-> "seen", key |-> k]} \in SUBSET Statement
    BY LiveRow DEF Statement
  <2>2. QED
    BY <1>6, <2>1, AcceptType DEF markSeen
<1>7. ASSUME NEW k \in Live, togglePinned(s, u, k)
      PROVE  TypeOK'
  <2>1. {[ do |-> "pin", key |-> k, is_pinned |-> ~msgs[k].is_pinned ]}
          \in SUBSET Statement
    BY LiveRow DEF Statement
  <2>2. QED
    BY <1>7, <2>1, AcceptType DEF togglePinned
<1>8. ASSUME NEW k \in Live, NEW e \in Emojis, react(s, u, k, e)
      PROVE  TypeOK'
  <2>1. {[do |-> "react", key |-> k, type |-> e]} \in SUBSET Statement
    BY LiveRow DEF Statement
  <2>2. QED
    BY <1>8, <2>1, AcceptType DEF react
<1>9. ASSUME NEW ids \in SUBSET PrivateLive, NEW started \in SUBSET ids,
             deletePrivateMessages(s, u, ids, started)
      PROVE  TypeOK'
  <2>1. ASSUME NEW k \in started
        PROVE  HideStatement(u, k) \in Statement
    <3>1. k \in PrivateKeys /\ msgs[k] \in Row
      BY LiveRow DEF PrivateLive, PrivateKeys
    <3>2. /\ (msgs[k].sender = u) \in BOOLEAN
          /\ (~(msgs[k].sender = u) \/ msgs[k].recent) \in BOOLEAN
      BY <3>1 DEF Row
    <3>3. QED
      BY <3>1, <3>2 DEF HideStatement, Statement
  <2>2. {HideStatement(u, k) : k \in started} \in SUBSET Statement
    BY <2>1
  <2>3. QED
    BY <1>9, <2>2, EnterType DEF deletePrivateMessages
<1>10. ASSUME NEW ids \in SUBSET Keys, deleteGroupMessages(s, u, ids)
       PROVE  TypeOK'
  BY <1>10, EnterType DEF deleteGroupMessages
<1>11. ASSUME NEW r \in reactions, removeReaction(s, u, r)
       PROVE  TypeOK'
  <2>1. {[do |-> "unreact", id |-> r.id]} \in SUBSET Statement
    BY DEF Statement, TypeOK, StoreTypeOK, Reaction
  <2>2. QED
    BY <1>11, <2>1, AcceptType DEF removeReaction
<1>12. QED
  BY <1>1, <1>2, <1>3, <1>4, <1>5, <1>6, <1>7, <1>8, <1>9, <1>10, <1>11

-----------------------------------------------------------------------------
LEMMA FlagsType ==
  ASSUME NEW m \in Row, NEW a \in BOOLEAN, NEW b \in BOOLEAN
  PROVE  [m EXCEPT !.deletedBySender = a, !.deletedByReceiver = b] \in Row
<1>1. [m EXCEPT !.deletedBySender = a] \in Row
  BY DEF Row
<1>2. [[m EXCEPT !.deletedBySender = a] EXCEPT !.deletedByReceiver = b] \in Row
  BY <1>1 DEF Row
<1>3. QED
  BY <1>2 DEF Row

(* The statement of a request leaves well-typed tables.                    *)
LEMMA EffectType ==
  ASSUME TypeOK, NEW s \in Slots, NEW st \in pending[s].todo, Effect(s, st)
  PROVE  StoreTypeOK'
<1>1. StoreTypeOK /\ st \in Statement /\ pending[s].by \in Users
  BY BusyRequest DEF TypeOK, Request
<1>2. CASE st.do = "create" /\ createMessage(st.table, st.row)
  <2>1. st.table \in Tables /\ st.row \in Row
    BY <1>1, <1>2 DEF Statement
  <2>2. QED
    BY <1>1, <1>2, <2>1, CreateMessageType
<1>3. CASE st.do = "delete" /\ deleteMessage(st.key)
  <2>1. deleteRows({st.key} \intersect Live) /\ groups' = groups
    BY <1>3 DEF deleteMessage
  <2>2. QED
    BY <1>1, <2>1, DeleteRowsType DEF StoreTypeOK
<1>4. CASE st.do = "archive" /\ archiveMessages(st.keys)
  BY <1>1, <1>4, ArchiveType
<1>5. CASE st.do = "hide"
           /\ updatePrivateMessageDelete(st.key, st.bySender, st.byReceiver)
  <2> DEFINE r == [msgs[st.key] EXCEPT !.deletedBySender = st.bySender,
                                       !.deletedByReceiver = st.byReceiver]
  <2>1. st.bySender \in BOOLEAN /\ st.byReceiver \in BOOLEAN
    BY <1>1, <1>5 DEF Statement
  <2>2. st.key \in Live => r \in Row
    BY <2>1, LiveRow, FlagsType
  <2>3. UpdateRow(st.key, r)
    BY <1>5 DEF updatePrivateMessageDelete
  <2>4. QED
    BY <1>1, <2>2, <2>3, UpdateRowType
<1>6. CASE st.do = "seen" /\ updateMessageSeen(st.key)
  <2> DEFINE r == [msgs[st.key] EXCEPT !.is_seen = TRUE]
  <2>1. st.key \in Live => r \in Row
    BY LiveRow DEF Row
  <2>2. UpdateRow(st.key, r)
    BY <1>6 DEF updateMessageSeen
  <2>3. QED
    BY <1>1, <2>1, <2>2, UpdateRowType
<1>7. CASE st.do = "pin" /\ updateMessageIsPinned(st.key, st.is_pinned)
  <2> DEFINE r == setPinnedAt([msgs[st.key] EXCEPT
                                 !.is_pinned = st.is_pinned], st.is_pinned)
  <2>1. st.is_pinned \in BOOLEAN
    BY <1>1, <1>7 DEF Statement
  <2>2. st.key \in Live => r \in Row
    BY <2>1, LiveRow, UpdatedRows
  <2>3. UpdateRow(st.key, r)
    BY <1>7 DEF updateMessageIsPinned
  <2>4. QED
    BY <1>1, <2>2, <2>3, UpdateRowType
<1>8. CASE st.do = "react" /\ createReaction(pending[s].by, st.key, st.type)
  <2>1. st.key \in Keys /\ st.type \in Emojis
    BY <1>1, <1>8 DEF Statement
  <2>2. QED
    BY <1>1, <1>8, <2>1, CreateReactionType
<1>9. CASE st.do = "unreact" /\ deleteReaction(st.id)
  BY <1>1, <1>9 DEF deleteReaction, StoreTypeOK, Live
<1>10. QED
  BY <1>2, <1>3, <1>4, <1>5, <1>6, <1>7, <1>8, <1>9 DEF Effect

(* Running a statement, or looking up one of the messages of a multiple    *)
(* group delete, leaves the slot idle or with the rest of its request.     *)
LEMMA AfterCheckType ==
  ASSUME NEW r \in Request, NEW rest \in SUBSET Keys,
         NEW valid \in SUBSET Keys
  PROVE  AfterCheck(r, rest, valid) \in Request \union {Idle}
<1>1. {[do |-> "archive", keys |-> valid]} \in SUBSET Statement
  BY DEF Statement
<1>2. CASE rest # {}
  BY <1>2 DEF AfterCheck, Request
<1>3. CASE rest = {} /\ valid = {}
  BY <1>3 DEF AfterCheck
<1>4. CASE rest = {} /\ valid # {}
  <2> DEFINE todo == {[do |-> "archive", keys |-> valid]}
  <2>1. AfterCheck(r, rest, valid)
          = [r EXCEPT !.reads = {}, !.valid = {}, !.todo = todo]
    BY <1>4 DEF AfterCheck
  <2> HIDE DEF todo
  <2>2. QED
    BY <1>1, <2>1 DEF Request, todo
<1>5. QED
  BY <1>2, <1>3, <1>4

LEMMA WithoutType ==
  ASSUME NEW r \in Request, NEW st
  PROVE  Without(r, st) \in Request \union {Idle}
BY DEF Without, Request

LEMMA ProceedType ==
  ASSUME TypeOK, NEW s \in Slots, Proceed(s)
  PROVE  TypeOK'
<1>1. ASSUME NEW k \in pending[s].reads, CheckGroupMessage(s, k)
      PROVE  TypeOK'
  <2>1. pending[s] \in Request
    BY BusyRequest
  <2>2. /\ k \in Keys
        /\ pending[s].reads \ {k} \in SUBSET Keys
        /\ pending[s].valid \in SUBSET Keys
        /\ pending[s].valid \union {k} \in SUBSET Keys
    BY <2>1 DEF Request
  <2>3. PICK next : /\ next \in Request \union {Idle}
                    /\ pending' = [pending EXCEPT ![s] = next]
    BY <1>1, <2>1, <2>2, AfterCheckType DEF CheckGroupMessage
  <2>4. pending' \in [Slots -> Request \union {Idle, Lost}]
    BY <2>3 DEF TypeOK
  <2>5. QED
    BY <1>1, <2>4, StoreUnchangedType DEF CheckGroupMessage, TypeOK
<1>2. ASSUME NEW st \in pending[s].todo, Execute(s, st)
      PROVE  TypeOK'
  <2>1. StoreTypeOK'
    BY <1>2, EffectType DEF Execute
  <2>2. Without(pending[s], st) \in Request \union {Idle}
    BY BusyRequest, WithoutType
  <2>3. pending' \in [Slots -> Request \union {Idle, Lost}]
    BY <1>2, <2>2 DEF Execute, TypeOK
  <2>4. QED
    BY <2>1, <2>3 DEF TypeOK
<1>3. QED
  BY <1>1, <1>2 DEF Proceed

-----------------------------------------------------------------------------
LEMMA AtOnceType ==
  ASSUME TypeOK, AtOnce
  PROVE  TypeOK'
<1> "private" \in Tables /\ "group" \in Tables
  BY DEF Tables
<1>1. StoreTypeOK
  BY DEF TypeOK
<1>2. SUFFICES StoreTypeOK' /\ UNCHANGED pending
  BY DEF TypeOK
<1>3. ASSUME NEW u \in Users, NEW r \in Users, sendPrivateMessage(u, r)
      PROVE  StoreTypeOK' /\ UNCHANGED pending
  <2>1. NewRow(u, r, Null, Null) \in Row
    BY NewRowType
  <2>2. QED
    BY <1>1, <1>3, <2>1, CreateMessageType DEF sendPrivateMessage
<1>4. ASSUME NEW u \in Users, NEW g \in Groups, sendGroupMessage(u, g)
      PROVE  StoreTypeOK' /\ UNCHANGED pending
  <2>1. NewRow(u, g, Null, Null) \in Row
    BY NewRowType
  <2>2. QED
    BY <1>1, <1>4, <2>1, CreateMessageType DEF sendGroupMessage
<1>5. ASSUME NEW u \in Users, NEW id \in 1..MaxMessages, save(u, id)
      PROVE  StoreTypeOK' /\ UNCHANGED pending
  BY <1>1, <1>5, SaveMessageType DEF save
<1>6. ASSUME NEW u \in Users, NEW v \in saved, unsave(u, v)
      PROVE  StoreTypeOK' /\ UNCHANGED pending
  BY <1>1, <1>6 DEF unsave, removeSavedMessage, StoreTypeOK, Live
<1>7. ASSUME NEW k \in Keys, deletePrivateMessage(k)
      PROVE  StoreTypeOK' /\ UNCHANGED pending
  <2>1. deleteRows({k} \intersect Live) /\ groups' = groups
    BY <1>7 DEF deletePrivateMessage, deleteMessage
  <2>2. QED
    BY <1>1, <1>7, <2>1, DeleteRowsType DEF deletePrivateMessage, StoreTypeOK
<1>8. ASSUME NEW g \in Groups, deleteOrgGroup(g)
      PROVE  StoreTypeOK' /\ UNCHANGED pending
  <2> DEFINE D == {k \in Live : k[1] = "group" /\ msgs[k].to = g}
  <2>1. deleteRows(D) /\ groups' \subseteq Groups /\ D \subseteq Live
    BY <1>1, <1>8 DEF deleteOrgGroup, deleteGroup, StoreTypeOK
  <2>2. QED
    BY <1>1, <1>8, <2>1, DeleteRowsType DEF deleteOrgGroup
<1>9. ASSUME NEW k \in Live, FiveMinutesPass(k)
      PROVE  StoreTypeOK' /\ UNCHANGED pending
  <2>1. UpdateRow(k, [msgs[k] EXCEPT !.recent = FALSE])
    BY <1>9 DEF FiveMinutesPass, Age
  <2>2. [msgs[k] EXCEPT !.recent = FALSE] \in Row
    BY LiveRow DEF Row
  <2>3. QED
    BY <1>1, <1>9, <2>1, <2>2, UpdateRowType DEF FiveMinutesPass
<1>10. QED
  BY <1>3, <1>4, <1>5, <1>6, <1>7, <1>8, <1>9 DEF AtOnce

(* Every variable keeps its type: in particular no id goes past the end of *)
(* its sequence and every statement in flight is a statement of the code.  *)
THEOREM TypeCorrect == Spec => []TypeOK
<1>1. Init => TypeOK
  BY BoundsAssumption
     DEF Init, StoreInit, TypeOK, StoreTypeOK, Live
<1>2. TypeOK /\ [Next]_vars => TypeOK'
  <2> SUFFICES ASSUME TypeOK, [Next]_vars
               PROVE  TypeOK'
    OBVIOUS
  <2>1. CASE AtOnce
    BY <2>1, AtOnceType
  <2>2. ASSUME NEW s \in Slots, Arrive(s)
        PROVE  TypeOK'
    BY <2>2, ArriveType
  <2>3. ASSUME NEW s \in Slots, Proceed(s)
        PROVE  TypeOK'
    BY <2>3, ProceedType
  <2>4. CASE UNCHANGED vars
    BY <2>4, StoreUnchangedType DEF vars, storeVars, TypeOK
  <2>5. QED
    BY <2>1, <2>2, <2>3, <2>4 DEF Next
<1>3. QED
  BY <1>1, <1>2, PTL DEF Spec

-----------------------------------------------------------------------------
(* Referential integrity: an insert checks its foreign keys, an update     *)
(* writes none of the referring columns, and a delete takes a set of rows  *)
(* closed under the cascade.                                               *)
LEMMA RefIntegrityIsRefsHold == RefIntegrity <=> RefsHold
BY DEF RefIntegrity, RefsHold

LEMMA EffectRefs ==
  ASSUME TypeOK, RefsHold, NEW s \in Slots, NEW st \in pending[s].todo,
         Effect(s, st)
  PROVE  RefsHold'
<1>1. st \in Statement
  BY BusyRequest DEF Request
<1>2. CASE st.do = "create" /\ createMessage(st.table, st.row)
  <2>1. st.table \in Tables
    BY <1>1, <1>2 DEF Statement
  <2>2. QED
    BY <1>2, <2>1, CreateMessageRefs
<1>3. CASE st.do = "delete" /\ deleteMessage(st.key)
  <2>1. deleteRows({st.key} \intersect Live) /\ groups' = groups
    BY <1>3 DEF deleteMessage
  <2>2. \A k \in Live : k[1] = "group" => msgs[k].to \in groups'
    BY <2>1 DEF RefsHold
  <2>3. QED
    BY <2>1, <2>2, DeleteRowsRefs
<1>4. CASE st.do = "archive" /\ archiveMessages(st.keys)
  BY <1>4, ArchiveRefs
<1>5. CASE st.do = "hide"
           /\ updatePrivateMessageDelete(st.key, st.bySender, st.byReceiver)
  <2> DEFINE r == [msgs[st.key] EXCEPT !.deletedBySender = st.bySender,
                                       !.deletedByReceiver = st.byReceiver]
  <2>1. UpdateRow(st.key, r)
    BY <1>5 DEF updatePrivateMessageDelete
  <2>2. st.key \in Live => /\ r.replyTo = msgs[st.key].replyTo
                           /\ r.fwdFrom = msgs[st.key].fwdFrom
                           /\ r.to = msgs[st.key].to
    BY LiveRow DEF Row
  <2>3. QED
    BY <2>1, <2>2, UpdateRowRefs
<1>6. CASE st.do = "seen" /\ updateMessageSeen(st.key)
  <2> DEFINE r == [msgs[st.key] EXCEPT !.is_seen = TRUE]
  <2>1. UpdateRow(st.key, r)
    BY <1>6 DEF updateMessageSeen
  <2>2. st.key \in Live => /\ r.replyTo = msgs[st.key].replyTo
                           /\ r.fwdFrom = msgs[st.key].fwdFrom
                           /\ r.to = msgs[st.key].to
    BY LiveRow DEF Row
  <2>3. QED
    BY <2>1, <2>2, UpdateRowRefs
<1>7. CASE st.do = "pin" /\ updateMessageIsPinned(st.key, st.is_pinned)
  <2> DEFINE r == setPinnedAt([msgs[st.key] EXCEPT
                                 !.is_pinned = st.is_pinned], st.is_pinned)
  <2>0. st.is_pinned \in BOOLEAN
    BY <1>1, <1>7 DEF Statement
  <2>1. UpdateRow(st.key, r)
    BY <1>7 DEF updateMessageIsPinned
  <2>2. st.key \in Live => /\ r.replyTo = msgs[st.key].replyTo
                           /\ r.fwdFrom = msgs[st.key].fwdFrom
                           /\ r.to = msgs[st.key].to
    BY <2>0, LiveRow, UpdatedRows
  <2>3. QED
    BY <2>1, <2>2, UpdateRowRefs
<1>8. CASE st.do = "react" /\ createReaction(pending[s].by, st.key, st.type)
  BY <1>8, CreateReactionRefs
<1>9. CASE st.do = "unreact" /\ deleteReaction(st.id)
  BY <1>9 DEF deleteReaction, RefsHold, Live, SavedReferencesHold
<1>10. QED
  BY <1>2, <1>3, <1>4, <1>5, <1>6, <1>7, <1>8, <1>9 DEF Effect

LEMMA StoreUnchangedRefs ==
  ASSUME RefsHold, UNCHANGED storeVars
  PROVE  RefsHold'
BY DEF RefsHold, storeVars, Live, SavedReferencesHold

LEMMA ArriveLeavesStore ==
  ASSUME NEW s \in Slots, Arrive(s)
  PROVE  UNCHANGED storeVars
BY DEF Arrive, Accept, Enter, replyPrivateMessage, forwardToPrivateMessage,
       replyGroupMessage, forwardToGroupMessage, unsendPrivateMessage,
       unsendGroupMessage, markSeen, togglePinned, react,
       deletePrivateMessages, deleteGroupMessages, removeReaction

LEMMA AtOnceRefs ==
  ASSUME TypeOK, RefsHold, AtOnce
  PROVE  RefsHold'
<1> "private" \in Tables /\ "group" \in Tables
  BY DEF Tables
<1>1. ASSUME NEW u \in Users, NEW r \in Users, sendPrivateMessage(u, r)
      PROVE  RefsHold'
  BY <1>1, CreateMessageRefs DEF sendPrivateMessage
<1>2. ASSUME NEW u \in Users, NEW g \in Groups, sendGroupMessage(u, g)
      PROVE  RefsHold'
  BY <1>2, CreateMessageRefs DEF sendGroupMessage
<1>3. ASSUME NEW u \in Users, NEW id \in 1..MaxMessages, save(u, id)
      PROVE  RefsHold'
  BY <1>3, SaveMessageRefs DEF save
<1>4. ASSUME NEW u \in Users, NEW v \in saved, unsave(u, v)
      PROVE  RefsHold'
  BY <1>4 DEF unsave, removeSavedMessage, RefsHold, Live, SavedReferencesHold
<1>5. ASSUME NEW k \in Keys, deletePrivateMessage(k)
      PROVE  RefsHold'
  <2>1. deleteRows({k} \intersect Live) /\ groups' = groups
    BY <1>5 DEF deletePrivateMessage, deleteMessage
  <2>2. \A j \in Live : j[1] = "group" => msgs[j].to \in groups'
    BY <2>1 DEF RefsHold
  <2>3. QED
    BY <2>1, <2>2, DeleteRowsRefs
<1>6. ASSUME NEW g \in Groups, deleteOrgGroup(g)
      PROVE  RefsHold'
  <2> DEFINE D == {k \in Live : k[1] = "group" /\ msgs[k].to = g}
  <2>1. deleteRows(D) /\ groups' = groups \ {g}
    BY <1>6 DEF deleteOrgGroup, deleteGroup
  <2>2. \A k \in Live \ D : k[1] = "group" => msgs[k].to \in groups'
    BY <2>1 DEF RefsHold
  <2>3. D \subseteq Live
    OBVIOUS
  <2>4. QED
    BY <2>1, <2>2, <2>3, DeleteRowsRefs
<1>7. ASSUME NEW k \in Live, FiveMinutesPass(k)
      PROVE  RefsHold'
  <2> DEFINE r == [msgs[k] EXCEPT !.recent = FALSE]
  <2>1. UpdateRow(k, r)
    BY <1>7 DEF FiveMinutesPass, Age
  <2>2. /\ r.replyTo = msgs[k].replyTo
        /\ r.fwdFrom = msgs[k].fwdFrom
        /\ r.to = msgs[k].to
    BY LiveRow DEF Row
  <2>3. QED
    BY <2>1, <2>2, UpdateRowRefs
<1>8. QED
  BY <1>1, <1>2, <1>3, <1>4, <1>5, <1>6, <1>7 DEF AtOnce

(* No row ever refers to a row that is gone, whatever the handlers looked  *)
(* up before their inserts and whatever was removed in between.            *)
THEOREM ReferencesIntact == Spec => []RefIntegrity
<1>1. Init => RefsHold
  BY DEF Init, StoreInit, RefsHold, Live
<1>2. TypeOK /\ RefsHold /\ [Next]_vars => RefsHold'
  <2> SUFFICES ASSUME TypeOK, RefsHold, [Next]_vars
               PROVE  RefsHold'
    OBVIOUS
  <2>1. CASE AtOnce
    BY <2>1, AtOnceRefs
  <2>2. ASSUME NEW s \in Slots, Arrive(s)
        PROVE  RefsHold'
    BY <2>2, ArriveLeavesStore, StoreUnchangedRefs
  <2>3. ASSUME NEW s \in Slots, NEW k \in pending[s].reads,
               CheckGroupMessage(s, k)
        PROVE  RefsHold'
    BY <2>3, StoreUnchangedRefs DEF CheckGroupMessage
  <2>4. ASSUME NEW s \in Slots, NEW st \in pending[s].todo, Execute(s, st)
        PROVE  RefsHold'
    BY <2>4, EffectRefs DEF Execute
  <2>5. CASE UNCHANGED vars
    BY <2>5, StoreUnchangedRefs DEF vars, storeVars
  <2>6. QED
    BY <2>1, <2>2, <2>3, <2>4, <2>5 DEF Next, Proceed
<1>3. QED
  BY <1>1, <1>2, TypeCorrect, RefIntegrityIsRefsHold, PTL DEF Spec

-----------------------------------------------------------------------------
(* The unique constraint of Reaction: whether the pair is there already is *)
(* asked by the insert itself, after the requests have looked.             *)
LEMMA FewerReactionsDistinct ==
  ASSUME ReactionsDistinct, reactions' \subseteq reactions
  PROVE  ReactionsDistinct'
BY DEF ReactionsDistinct

LEMMA CreateReactionDistinct ==
  ASSUME ReactionsDistinct, NEW u, NEW k, NEW e, createReaction(u, k, e)
  PROVE  ReactionsDistinct'
<1> DEFINE new == [ id |-> nextId["reaction"], userId |-> u,
                    key |-> k, type |-> e ]
<1>1. CASE reactions' = reactions
  BY <1>1, FewerReactionsDistinct
<1>2. CASE ~AlreadyReacted(u, k, e) /\ reactions' = reactions \union {new}
  <2>1. new.userId = u /\ new.key = k /\ new.type = e
    OBVIOUS
  <2> HIDE DEF new
  <2>2. \A r \in reactions :
          ~(r.userId = new.userId /\ r.key = new.key /\ r.type = new.type)
    BY <1>2, <2>1 DEF AlreadyReacted
  <2>3. QED
    BY <1>2, <2>2 DEF ReactionsDistinct
<1>3. QED
  BY <1>1, <1>2 DEF createReaction

LEMMA EffectDistinct ==
  ASSUME ReactionsDistinct, NEW s \in Slots, NEW st, Effect(s, st)
  PROVE  ReactionsDistinct'
<1>1. CASE st.do = "react" /\ createReaction(pending[s].by, st.key, st.type)
  BY <1>1, CreateReactionDistinct
<1>2. CASE st.do = "delete" /\ deleteMessage(st.key)
  BY <1>2, FewerReactionsDistinct DEF deleteMessage, deleteRows
<1>3. CASE st.do = "unreact" /\ deleteReaction(st.id)
  BY <1>3, FewerReactionsDistinct DEF deleteReaction
<1>4. CASE st.do \notin {"react", "delete", "unreact"}
  <2>1. UNCHANGED reactions
    BY <1>4
       DEF Effect, createMessage, archiveMessages, updateMessageSeen,
           updatePrivateMessageDelete, updateMessageIsPinned, UpdateRow
  <2>2. QED
    BY <2>1, FewerReactionsDistinct
<1>5. QED
  BY <1>1, <1>2, <1>3, <1>4 DEF Effect

LEMMA AtOnceDistinct ==
  ASSUME ReactionsDistinct, AtOnce
  PROVE  ReactionsDistinct'
<1>1. reactions' \subseteq reactions
  BY DEF AtOnce, sendPrivateMessage, sendGroupMessage, save, unsave,
         deletePrivateMessage, deleteOrgGroup, FiveMinutesPass, Age,
         createMessage, saveMessage, removeSavedMessage, deleteMessage,
         deleteGroup, deleteRows, UpdateRow
<1>2. QED
  BY <1>1, FewerReactionsDistinct

(* No user ever has the same reaction twice on a message, however many of  *)
(* his requests found the message before one of them inserted.             *)
THEOREM ReactionsUnique == Spec => []ReactionsDistinct
<1>1. Init => ReactionsDistinct
  BY DEF Init, StoreInit, ReactionsDistinct
<1>2. ReactionsDistinct /\ [Next]_vars => ReactionsDistinct'
  <2> SUFFICES ASSUME ReactionsDistinct, [Next]_vars
               PROVE  ReactionsDistinct'
    OBVIOUS
  <2>1. CASE AtOnce
    BY <2>1, AtOnceDistinct
  <2>2. ASSUME NEW s \in Slots, Arrive(s)
        PROVE  ReactionsDistinct'
    BY <2>2, ArriveLeavesStore, FewerReactionsDistinct DEF storeVars
  <2>3. ASSUME NEW s \in Slots, NEW k \in pending[s].reads,
               CheckGroupMessage(s, k)
        PROVE  ReactionsDistinct'
    BY <2>3, FewerReactionsDistinct DEF CheckGroupMessage, storeVars
  <2>4. ASSUME NEW s \in Slots, NEW st \in pending[s].todo, Execute(s, st)
        PROVE  ReactionsDistinct'
    BY <2>4, EffectDistinct DEF Execute
  <2>5. CASE UNCHANGED vars
    BY <2>5, FewerReactionsDistinct DEF vars, storeVars
  <2>6. QED
    BY <2>1, <2>2, <2>3, <2>4, <2>5 DEF Next, Proceed
<1>3. QED
  BY <1>1, <1>2, PTL DEF Spec

-----------------------------------------------------------------------------
(***************************************************************************)
(* What MarksStick and UnsentStaysGone rest on besides fairness: no step   *)
(* undoes what they say has been reached.                                  *)
(***************************************************************************)
(* The id of every row has been given out: what makes an insert a new row, *)
(* never the rewriting of one that is there.                               *)
IdsGivenOut == \A k \in Live : k[2] < nextId[k[1]]

MovesOn == RowsMoveOn /\ GoneStaysGone /\ IdsGivenOut'

LEMMA SameRowMoves ==
  ASSUME NEW r
  PROVE  MovedOn(r, r)
BY DEF MovedOn

(* The id sequences never go back.                                         *)
LEMMA DrawOnward ==
  ASSUME TypeOK, NEW q \in Sequences, Draw(q)
  PROVE  \A t \in Sequences : nextId'[t] >= nextId[t]
BY DEF Draw, TypeOK, StoreTypeOK

LEMMA SameRowsMoveOn ==
  ASSUME TypeOK, IdsGivenOut, msgs' = msgs,
         \/ nextId' = nextId
         \/ \E q \in {"reaction", "saved"} : Draw(q)
  PROVE  MovesOn
<1>1. RowsMoveOn /\ GoneStaysGone
  BY SameRowMoves DEF RowsMoveOn, GoneStaysGone, Live
<1>2. \A q \in Sequences : /\ nextId'[q] >= nextId[q]
                           /\ nextId'[q] \in Nat /\ nextId[q] \in Nat
  BY DrawOnward DEF TypeOK, StoreTypeOK, Sequences, Draw
<1>3. IdsGivenOut'
  <2>1. \A k \in Live : k[1] \in Sequences /\ k[2] \in Nat
    BY LiveRow, BoundsAssumption DEF Keys, Sequences
  <2>2. Live' = Live
    BY DEF Live
  <2>3. QED
    BY <1>2, <2>1, <2>2 DEF IdsGivenOut
<1>4. QED
  BY <1>1, <1>3 DEF MovesOn

LEMMA UpdateMovesOn ==
  ASSUME IdsGivenOut, NEW k, NEW r, UpdateRow(k, r),
         k \in Live => MovedOn(msgs[k], r)
  PROVE  MovesOn
<1>1. Live' = Live
  BY DEF UpdateRow, Live
<1>2. ASSUME NEW j \in Live
      PROVE  MovedOn(msgs[j], msgs'[j])
  <2>1. CASE j = k
    BY <1>2, <2>1 DEF UpdateRow, Live
  <2>2. CASE j # k
    <3>1. msgs'[j] = msgs[j]
      BY <1>2, <2>2 DEF UpdateRow, Live
    <3>2. QED
      BY <3>1, SameRowMoves
  <2>3. QED
    BY <2>1, <2>2
<1>3. IdsGivenOut'
  BY <1>1 DEF UpdateRow, IdsGivenOut
<1>4. QED
  BY <1>1, <1>2, <1>3 DEF RowsMoveOn, GoneStaysGone, MovesOn

LEMMA CreateMovesOn ==
  ASSUME TypeOK, IdsGivenOut, NEW t \in Tables, NEW r, createMessage(t, r)
  PROVE  MovesOn
<1> DEFINE n == <<t, nextId[t]>>
<1>1. /\ n[1] = t /\ n[2] = nextId[t] /\ t \in Sequences
      /\ \A q \in Sequences : nextId[q] \in Nat
  BY DEF TypeOK, StoreTypeOK, Tables, Sequences
<1>2. \A k \in Live : k[1] \in Sequences /\ k[2] \in Nat
  BY LiveRow, BoundsAssumption DEF Keys, Sequences
<1>3. /\ \A q \in Sequences : nextId'[q] >= nextId[q]
      /\ ~Exhausted(t) => nextId'[t] = nextId[t] + 1
  BY <1>1, DrawOnward DEF createMessage, Draw, TypeOK, StoreTypeOK
<1>4. \A q \in Sequences : nextId'[q] \in Nat
  BY <1>1 DEF createMessage, Draw, TypeOK, StoreTypeOK
<1>5. CASE msgs' = msgs
  <2>1. Live' = Live
    BY <1>5 DEF Live
  <2>2. IdsGivenOut'
    BY <1>1, <1>2, <1>3, <1>4, <2>1 DEF IdsGivenOut
  <2>3. QED
    BY <1>5, <2>1, <2>2, SameRowMoves
       DEF RowsMoveOn, GoneStaysGone, MovesOn
<1>6. CASE ~Exhausted(t) /\ msgs' = WithRow(n, r)
  <2>1. Live' = Live \union {n} /\ \A k \in Live \ {n} : msgs'[k] = msgs[k]
    BY <1>6 DEF WithRow, Live
  <2>2. n \notin Live
    BY <1>1 DEF IdsGivenOut
  <2>3. RowsMoveOn
    BY <2>1, <2>2, SameRowMoves DEF RowsMoveOn
  <2>4. GoneStaysGone
    BY <1>1, <2>1 DEF GoneStaysGone
  <2>5. IdsGivenOut'
    BY <1>1, <1>2, <1>3, <1>4, <1>6, <2>1 DEF IdsGivenOut
  <2>6. QED
    BY <2>3, <2>4, <2>5 DEF MovesOn
<1>7. QED
  BY <1>5, <1>6 DEF createMessage

LEMMA DeleteMovesOn ==
  ASSUME TypeOK, IdsGivenOut, NEW D, deleteRows(D)
  PROVE  MovesOn
<1> DEFINE gone == Cascade(D)
<1>1. msgs' = [k \in Live \ gone |-> Forget(gone, msgs[k])]
  BY DEF deleteRows
<1> HIDE DEF gone
<1>2. Live' = Live \ gone
  BY <1>1 DEF Live
<1>3. ASSUME NEW k \in Live \ gone
      PROVE  MovedOn(msgs[k], msgs'[k])
  <2>1. msgs'[k] = Forget(gone, msgs[k]) /\ msgs[k] \in Row
    BY <1>1, <1>3, LiveRow
  <2>2. QED
    BY <2>1 DEF Forget, MovedOn, Row
<1>4. IdsGivenOut'
  BY <1>2 DEF IdsGivenOut, deleteRows
<1>5. QED
  BY <1>2, <1>3, <1>4 DEF RowsMoveOn, GoneStaysGone, MovesOn

LEMMA EffectMovesOn ==
  ASSUME TypeOK, IdsGivenOut,
         NEW s \in Slots, NEW st \in pending[s].todo, Effect(s, st)
  PROVE  MovesOn
<1>1. st \in Statement
  BY BusyRequest DEF Request
<1>2. CASE st.do = "create" /\ createMessage(st.table, st.row)
  BY <1>1, <1>2, CreateMovesOn DEF Statement
<1>3. CASE st.do = "delete" /\ deleteMessage(st.key)
  BY <1>3, DeleteMovesOn DEF deleteMessage
<1>4. CASE st.do = "archive" /\ archiveMessages(st.keys)
  <2>1. Live' = Live
    BY <1>4 DEF archiveMessages, Live
  <2>2. ASSUME NEW k \in Live
        PROVE  MovedOn(msgs[k], msgs'[k])
    <3>1. msgs[k] \in Row
      BY LiveRow
    <3>2. \/ msgs'[k] = msgs[k]
          \/ msgs'[k] = [msgs[k] EXCEPT !.is_archived = TRUE]
      BY <1>4 DEF archiveMessages
    <3>3. QED
      BY <3>1, <3>2 DEF MovedOn, Row
  <2>3. IdsGivenOut'
    BY <1>4, <2>1 DEF archiveMessages, IdsGivenOut
  <2>4. QED
    BY <2>1, <2>2, <2>3 DEF RowsMoveOn, GoneStaysGone, MovesOn
<1>5. CASE st.do = "hide"
           /\ updatePrivateMessageDelete(st.key, st.bySender, st.byReceiver)
  <2> DEFINE r == [msgs[st.key] EXCEPT !.deletedBySender = st.bySender,
                                       !.deletedByReceiver = st.byReceiver]
  <2>1. UpdateRow(st.key, r)
    BY <1>5 DEF updatePrivateMessageDelete
  <2>2. st.key \in Live => MovedOn(msgs[st.key], r)
    BY LiveRow DEF Row, MovedOn
  <2>3. QED
    BY <2>1, <2>2, UpdateMovesOn
<1>6. CASE st.do = "seen" /\ updateMessageSeen(st.key)
  <2> DEFINE r == [msgs[st.key] EXCEPT !.is_seen = TRUE]
  <2>1. UpdateRow(st.key, r)
    BY <1>6 DEF updateMessageSeen
  <2>2. st.key \in Live => MovedOn(msgs[st.key], r)
    BY LiveRow DEF Row, MovedOn
  <2>3. QED
    BY <2>1, <2>2, UpdateMovesOn
<1>7. CASE st.do = "pin" /\ updateMessageIsPinned(st.key, st.is_pinned)
  <2> DEFINE r == setPinnedAt([msgs[st.key] EXCEPT
                                 !.is_pinned = st.is_pinned], st.is_pinned)
  <2>1. UpdateRow(st.key, r)
    BY <1>7 DEF updateMessageIsPinned
  <2>2. st.key \in Live => MovedOn(msgs[st.key], r)
    BY LiveRow DEF Row, MovedOn, setPinnedAt
  <2>3. QED
    BY <2>1, <2>2, UpdateMovesOn
<1>8. CASE st.do = "react" /\ createReaction(pending[s].by, st.key, st.type)
  BY <1>8, SameRowsMoveOn DEF createReaction
<1>9. CASE st.do = "unreact" /\ deleteReaction(st.id)
  BY <1>9, SameRowsMoveOn DEF deleteReaction
<1>10. QED
  BY <1>2, <1>3, <1>4, <1>5, <1>6, <1>7, <1>8, <1>9 DEF Effect

LEMMA AtOnceMovesOn ==
  ASSUME TypeOK, IdsGivenOut, AtOnce
  PROVE  MovesOn
<1> "private" \in Tables /\ "group" \in Tables
  BY DEF Tables
<1>1. ASSUME NEW u \in Users, NEW r \in Users, sendPrivateMessage(u, r)
      PROVE  MovesOn
  BY <1>1, CreateMovesOn DEF sendPrivateMessage
<1>2. ASSUME NEW u \in Users, NEW g \in Groups, sendGroupMessage(u, g)
      PROVE  MovesOn
  BY <1>2, CreateMovesOn DEF sendGroupMessage
<1>3. ASSUME NEW u \in Users, NEW id \in 1..MaxMessages, save(u, id)
      PROVE  MovesOn
  BY <1>3, SameRowsMoveOn DEF save, saveMessage
<1>4. ASSUME NEW u \in Users, NEW v \in saved, unsave(u, v)
      PROVE  MovesOn
  BY <1>4, SameRowsMoveOn DEF unsave, removeSavedMessage
<1>5. ASSUME NEW k \in Keys, deletePrivateMessage(k)
      PROVE  MovesOn
  BY <1>5, DeleteMovesOn DEF deletePrivateMessage, deleteMessage
<1>6. ASSUME NEW g \in Groups, deleteOrgGroup(g)
      PROVE  MovesOn
  BY <1>6, DeleteMovesOn DEF deleteOrgGroup, deleteGroup
<1>7. ASSUME NEW k \in Live, FiveMinutesPass(k)
      PROVE  MovesOn
  <2> DEFINE r == [msgs[k] EXCEPT !.recent = FALSE]
  <2>1. UpdateRow(k, r)
    BY <1>7 DEF FiveMinutesPass, Age
  <2>2. MovedOn(msgs[k], r)
    BY LiveRow DEF Row, MovedOn
  <2>3. QED
    BY <2>1, <2>2, UpdateMovesOn
<1>8. QED
  BY <1>1, <1>2, <1>3, <1>4, <1>5, <1>6, <1>7 DEF AtOnce

(* No step of any handler takes a mark back, rewrites whose message it is  *)
(* or what it answers, or brings a removed message back: what is left of   *)
(* the three properties above is that the statement runs at all.           *)
THEOREM MarksStay == Spec => MarksNeverUndone
<1>1. Init => IdsGivenOut
  BY DEF Init, StoreInit, IdsGivenOut, Live
<1>2. TypeOK /\ IdsGivenOut /\ [Next]_vars
        => [RowsMoveOn /\ GoneStaysGone]_vars /\ IdsGivenOut'
  <2> SUFFICES ASSUME TypeOK, IdsGivenOut, [Next]_vars
               PROVE  MovesOn
    BY DEF MovesOn
  <2>1. CASE AtOnce
    BY <2>1, AtOnceMovesOn
  <2>2. ASSUME NEW s \in Slots, Arrive(s)
        PROVE  MovesOn
    BY <2>2, ArriveLeavesStore, SameRowsMoveOn DEF storeVars
  <2>3. ASSUME NEW s \in Slots, NEW k \in pending[s].reads,
               CheckGroupMessage(s, k)
        PROVE  MovesOn
    BY <2>3, SameRowsMoveOn DEF CheckGroupMessage, storeVars
  <2>4. ASSUME NEW s \in Slots, NEW st \in pending[s].todo, Execute(s, st)
        PROVE  MovesOn
    BY <2>4, EffectMovesOn DEF Execute
  <2>5. CASE UNCHANGED vars
    BY <2>5, SameRowsMoveOn DEF vars
  <2>6. QED
    BY <2>1, <2>2, <2>3, <2>4, <2>5 DEF Next, Proceed
<1>3. QED
  BY <1>1, <1>2, TypeCorrect, PTL DEF Spec, MarksNeverUndone

-----------------------------------------------------------------------------
(***************************************************************************)
(* PrivateChat implements MessageForest: its initial state maps to the     *)
(* empty forest, and every step of every handler to a step of the forest   *)
(* or to none.                                                             *)
(***************************************************************************)
LEMMA ForestState == Forest!There = Live
BY DEF Forest!There, Posts

LEMMA ForestStutters ==
  ASSUME Posts' = Posts, Used' = Used, groups' = groups
  PROVE  UNCHANGED Forest!fvars
BY DEF Forest!fvars

(* One removal: of a private message and its thread, or of nothing when it *)
(* is gone already.                                                        *)
LEMMA DeleteRefines ==
  ASSUME TypeOK, NEW k \in PrivateKeys, deleteMessage(k)
  PROVE  [Forest!ForestNext]_(Forest!fvars)
<1>0. StoreTypeOK /\ k \in Keys
  BY DEF TypeOK, PrivateKeys
<1>1. CASE k \in Live
  <2>1. Prunes({k}) /\ groups' = groups
    BY <1>0, <1>1, DeletePosts
  <2>2. Forest!Remove(k)
    BY <1>1, <2>1, ForestState
       DEF Forest!Remove, Forest!Prune, Forest!GoesWith, Prunes
  <2>3. QED
    BY <1>0, <2>2 DEF Forest!ForestNext
<1>2. CASE k \notin Live
  BY <1>0, <1>2, DeletePosts, ForestStutters
<1>3. QED
  BY <1>1, <1>2

(* A group that is deleted dissolves with its messages and their threads.  *)
LEMMA DeleteGroupRefines ==
  ASSUME TypeOK, NEW g \in groups, deleteGroup(g)
  PROVE  Forest!ForestNext
<1>1. StoreTypeOK /\ g \in Groups
  BY DEF TypeOK, StoreTypeOK
<1>2. Prunes({k \in Live : Posts[k].home = g}) /\ groups' = groups \ {g}
  BY <1>1, DeleteGroupPosts
<1>3. Forest!Dissolve(g)
  BY <1>2, ForestState
     DEF Forest!Dissolve, Forest!Prune, Forest!GoesWith, Prunes
<1>4. QED
  BY <1>1, <1>3 DEF Forest!ForestNext

LEMMA CreateRefines ==
  ASSUME TypeOK, NEW t \in Tables, NEW r \in Row, createMessage(t, r)
  PROVE  [Forest!ForestNext]_(Forest!fvars)
<1>1. groups' = groups /\ StoreTypeOK
  BY DEF createMessage, TypeOK
<1>2. ASSUME NEW n \in Keys \ Used, NEW parents \in SUBSET Live,
             NEW home \in groups \union {Null}, Gains(n, parents, home)
      PROVE  Forest!ForestNext
  <2>1. Forest!Post(n)
    BY <1>1, <1>2, ForestState DEF Forest!Post, Gains
  <2>2. QED
    BY <2>1 DEF Forest!ForestNext
<1>3. ASSUME NEW n \in Keys \ Used, Used' = Used \union {n}, Posts' = Posts
      PROVE  Forest!ForestNext
  BY <1>1, <1>3 DEF Forest!Lose, Forest!ForestNext
<1>4. QED
  BY <1>1, <1>2, <1>3, CreatePosts, ForestStutters

LEMMA EffectRefines ==
  ASSUME TypeOK, NEW s \in Slots, NEW st \in pending[s].todo, Effect(s, st)
  PROVE  [Forest!ForestNext]_(Forest!fvars)
<1>1. st \in Statement
  BY BusyRequest DEF Request
<1>2. CASE st.do = "create" /\ createMessage(st.table, st.row)
  <2>1. st.table \in Tables /\ st.row \in Row
    BY <1>1, <1>2 DEF Statement
  <2>2. QED
    BY <1>2, <2>1, CreateRefines
<1>3. CASE st.do = "delete" /\ deleteMessage(st.key)
  <2>1. st.key \in PrivateKeys
    BY <1>1, <1>3 DEF Statement
  <2>2. QED
    BY <1>3, <2>1, DeleteRefines
<1>4. CASE st.do = "archive" /\ archiveMessages(st.keys)
  BY <1>4, ArchivePosts, ForestStutters
<1>5. CASE st.do = "hide"
           /\ updatePrivateMessageDelete(st.key, st.bySender, st.byReceiver)
  <2> DEFINE r == [msgs[st.key] EXCEPT !.deletedBySender = st.bySender,
                                       !.deletedByReceiver = st.byReceiver]
  <2>1. UpdateRow(st.key, r)
    BY <1>5 DEF updatePrivateMessageDelete
  <2>2. st.key \in Live => /\ r.replyTo = msgs[st.key].replyTo
                           /\ r.fwdFrom = msgs[st.key].fwdFrom
                           /\ r.to = msgs[st.key].to
    BY LiveRow DEF Row
  <2>3. QED
    BY <2>1, <2>2, UpdatePosts, ForestStutters
<1>6. CASE st.do = "seen" /\ updateMessageSeen(st.key)
  <2> DEFINE r == [msgs[st.key] EXCEPT !.is_seen = TRUE]
  <2>1. UpdateRow(st.key, r)
    BY <1>6 DEF updateMessageSeen
  <2>2. st.key \in Live => /\ r.replyTo = msgs[st.key].replyTo
                           /\ r.fwdFrom = msgs[st.key].fwdFrom
                           /\ r.to = msgs[st.key].to
    BY LiveRow DEF Row
  <2>3. QED
    BY <2>1, <2>2, UpdatePosts, ForestStutters
<1>7. CASE st.do = "pin" /\ updateMessageIsPinned(st.key, st.is_pinned)
  <2> DEFINE r == setPinnedAt([msgs[st.key] EXCEPT
                                 !.is_pinned = st.is_pinned], st.is_pinned)
  <2>1. UpdateRow(st.key, r)
    BY <1>7 DEF updateMessageIsPinned
  <2>2. st.key \in Live => /\ r.replyTo = msgs[st.key].replyTo
                           /\ r.fwdFrom = msgs[st.key].fwdFrom
                           /\ r.to = msgs[st.key].to
    BY LiveRow DEF Row, setPinnedAt
  <2>3. QED
    BY <2>1, <2>2, UpdatePosts, ForestStutters
<1>8. CASE st.do = "react" /\ createReaction(pending[s].by, st.key, st.type)
  BY <1>8, DrawElsewhere, AttachPosts, ForestStutters
     DEF createReaction, TypeOK
<1>9. CASE st.do = "unreact" /\ deleteReaction(st.id)
  BY <1>9, AttachPosts, ForestStutters DEF deleteReaction
<1>10. QED
  BY <1>2, <1>3, <1>4, <1>5, <1>6, <1>7, <1>8, <1>9 DEF Effect

LEMMA AtOnceRefines ==
  ASSUME TypeOK, AtOnce
  PROVE  [Forest!ForestNext]_(Forest!fvars)
<1> "private" \in Tables /\ "group" \in Tables
  BY DEF Tables
<1>1. ASSUME NEW u \in Users, NEW r \in Users, sendPrivateMessage(u, r)
      PROVE  [Forest!ForestNext]_(Forest!fvars)
  <2>1. NewRow(u, r, Null, Null) \in Row
    BY NewRowType
  <2>2. QED
    BY <1>1, <2>1, CreateRefines DEF sendPrivateMessage
<1>2. ASSUME NEW u \in Users, NEW g \in Groups, sendGroupMessage(u, g)
      PROVE  [Forest!ForestNext]_(Forest!fvars)
  <2>1. NewRow(u, g, Null, Null) \in Row
    BY NewRowType
  <2>2. QED
    BY <1>2, <2>1, CreateRefines DEF sendGroupMessage
<1>3. ASSUME NEW u \in Users, NEW id \in 1..MaxMessages, save(u, id)
      PROVE  UNCHANGED Forest!fvars
  BY <1>3, DrawElsewhere, AttachPosts, ForestStutters
     DEF save, saveMessage, TypeOK
<1>4. ASSUME NEW u \in Users, NEW v \in saved, unsave(u, v)
      PROVE  UNCHANGED Forest!fvars
  BY <1>4, AttachPosts, ForestStutters DEF unsave, removeSavedMessage
<1>5. ASSUME NEW k \in Keys, deletePrivateMessage(k)
      PROVE  [Forest!ForestNext]_(Forest!fvars)
  BY <1>5, DeleteRefines DEF deletePrivateMessage, PrivateKeys
<1>6. ASSUME NEW g \in Groups, deleteOrgGroup(g)
      PROVE  Forest!ForestNext
  BY <1>6, DeleteGroupRefines DEF deleteOrgGroup
<1>7. ASSUME NEW k \in Live, FiveMinutesPass(k)
      PROVE  UNCHANGED Forest!fvars
  <2> DEFINE r == [msgs[k] EXCEPT !.recent = FALSE]
  <2>1. UpdateRow(k, r)
    BY <1>7 DEF FiveMinutesPass, Age
  <2>2. /\ r.replyTo = msgs[k].replyTo
        /\ r.fwdFrom = msgs[k].fwdFrom
        /\ r.to = msgs[k].to
    BY LiveRow DEF Row
  <2>3. QED
    BY <2>1, <2>2, UpdatePosts, ForestStutters
<1>8. QED
  BY <1>1, <1>2, <1>3, <1>4, <1>5, <1>6, <1>7 DEF AtOnce

LEMMA SameStoreRefines ==
  ASSUME TypeOK, UNCHANGED storeVars
  PROVE  UNCHANGED Forest!fvars
BY AttachPosts, ForestStutters DEF storeVars

(* Every behaviour of the handlers is a behaviour of the message forest.   *)
THEOREM ForestImplemented == Spec => ImplementsForest
<1>1. Init => Forest!ForestInit
  <2> SUFFICES ASSUME Init
               PROVE  Forest!ForestInit
    OBVIOUS
  <2>1. Live = {} /\ groups = Groups
    BY DEF Init, StoreInit, Live
  <2>2. Forest!There = {} /\ Used \subseteq Keys
    BY <2>1, ForestState DEF Used
  <2>3. QED
    BY <2>1, <2>2 DEF Forest!ForestInit
<1>2. TypeOK /\ [Next]_vars => [Forest!ForestNext]_(Forest!fvars)
  <2> SUFFICES ASSUME TypeOK, [Next]_vars
               PROVE  [Forest!ForestNext]_(Forest!fvars)
    OBVIOUS
  <2>1. CASE AtOnce
    BY <2>1, AtOnceRefines
  <2>2. ASSUME NEW s \in Slots, Arrive(s)
        PROVE  UNCHANGED Forest!fvars
    BY <2>2, ArriveLeavesStore, SameStoreRefines
  <2>3. ASSUME NEW s \in Slots, NEW k \in pending[s].reads,
               CheckGroupMessage(s, k)
        PROVE  UNCHANGED Forest!fvars
    BY <2>3, SameStoreRefines DEF CheckGroupMessage
  <2>4. ASSUME NEW s \in Slots, NEW st \in pending[s].todo, Execute(s, st)
        PROVE  [Forest!ForestNext]_(Forest!fvars)
    BY <2>4, EffectRefines DEF Execute
  <2>5. CASE UNCHANGED vars
    BY <2>5, SameStoreRefines DEF vars, storeVars
  <2>6. QED
    BY <2>1, <2>2, <2>3, <2>4, <2>5 DEF Next, Proceed
<1>3. QED
  BY <1>1, <1>2, TypeCorrect, PTL
     DEF Spec, ImplementsForest, Forest!ForestSpec
=============================================================================
