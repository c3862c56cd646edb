---------------------------- MODULE PrivateChat ----------------------------
(***************************************************************************)
(* The HTTP handlers of PrivateChatController over the message tables.     *)
(*                                                                         *)
(* A handler that only issues one statement is one action.  A handler that *)
(* reads first, decides, and then writes without a transaction is two: the *)
(* action of its name is the request up to the decision, and leaves in a   *)
(* slot the statements the handler goes on to issue; Execute runs one of   *)
(* them.  Between the two every other request may run.  A request refused  *)
(* by its checks writes nothing, and is the guard of the action.           *)
(*                                                                         *)
(* Private messages are keyed <<"private", id>>, group messages            *)
(* <<"group", id>>.                                                        *)
(***************************************************************************)
EXTENDS MessageStore

CONSTANTS
  Slots,      \* requests that may be in flight at the same time
  Activity    \* the operations the clients of this instance use

AllActivity == {"send", "post", "reply", "forward", "unsend", "delete", "hide",
                "archive", "seen", "pin", "react", "save", "group", "age"}

ASSUME ActivityAssumption == Activity \subseteq AllActivity

VARIABLE pending    \* the request in each slot

vars == <<msgs, groups, reactions, saved, nextId, pending>>

(* The statements a handler may still have to issue once it has decided.   *)
Statement ==
  [do : {"delete"}, key : PrivateKeys]
    \union [do : {"seen"}, key : Keys]
    \union [do : {"pin"}, key : Keys, is_pinned : BOOLEAN]
    \union [do : {"hide"}, key : PrivateKeys,
            bySender : BOOLEAN, byReceiver : BOOLEAN]
    \union [do : {"archive"}, keys : SUBSET Keys]
    \union [do : {"create"}, table : Tables, row : Row]
    \union [do : {"react"}, key : Keys, type : Emojis]
    \union [do : {"unreact"}, id : 1..MaxReactions]

Nobody == "nobody"

ASSUME NobodyAssumption == Nobody \notin Users

(* "by" is req.user.id; "reads" are the messages the handler has yet to    *)
(* look up and "valid" those it keeps (validMessageIds); "todo" are the    *)
(* statements it has yet to issue; "refused" says that the client has been *)
(* refused while statements of the request still run.                      *)
Request == [ by : Users, reads : SUBSET Keys, valid : SUBSET Keys,
             todo : SUBSET Statement, refused : BOOLEAN ]

Idle == [ by |-> Nobody, reads |-> {}, valid |-> {}, todo |-> {},
          refused |-> FALSE ]

(* The request that was in the slot died with the server.                  *)
Lost == [Idle EXCEPT !.refused = TRUE]

TypeOK ==
  /\ StoreTypeOK
  /\ pending \in [Slots -> Request \union {Idle, Lost}]

Init ==
  /\ StoreInit
  /\ pending = [s \in Slots |-> Idle]

InFlight(s) == pending[s] \notin {Idle, Lost}

Enter(s, u, reads, statements, refused) ==
  /\ ~InFlight(s)
  /\ pending' = [pending EXCEPT ![s] =
                   [ by |-> u, reads |-> reads, valid |-> {},
                     todo |-> statements, refused |-> refused ]]
  /\ UNCHANGED storeVars

(* The handler of request s, from u, has decided to issue the statements.  *)
Accept(s, u, statements) == Enter(s, u, {}, statements, FALSE)

PrivateLive == {k \in Live : k[1] = "private"}
GroupLive   == {k \in Live : k[1] = "group"}

-----------------------------------------------------------------------------
(* Sending, replying and forwarding.                                       *)

CreateStatement(t, r) == [do |-> "create", table |-> t, row |-> r]

sendPrivateMessage(u, receiver) ==
  /\ "send" \in Activity
  /\ u # receiver
  /\ createMessage("private", NewRow(u, receiver, Null, Null))
  /\ UNCHANGED pending

(* The reply is looked up by id only: any private message will do.         *)
replyPrivateMessage(s, u, receiver, replyTo) ==
  /\ "reply" \in Activity
  /\ u # receiver
  /\ replyTo \in PrivateLive
  /\ Accept(s, u, {CreateStatement("private",
                                   NewRow(u, receiver, replyTo, Null))})

sendGroupMessage(u, g) ==
  /\ "post" \in Activity
  /\ createMessage("group", NewRow(u, g, Null, Null))
  /\ UNCHANGED pending

replyGroupMessage(s, u, g, replyTo) ==
  /\ "reply" \in Activity
  /\ replyTo \in GroupLive
  /\ Accept(s, u, {CreateStatement("group", NewRow(u, g, replyTo, Null))})

forwardToPrivateMessage(s, u, receiver, original) ==
  /\ "forward" \in Activity
  /\ original \in Live
  /\ Accept(s, u, {CreateStatement("private",
                                   NewRow(u, receiver, Null, original))})

forwardToGroupMessage(s, u, g, original) ==
  /\ "forward" \in Activity
  /\ original \in Live
  /\ Accept(s, u, {CreateStatement("group", NewRow(u, g, Null, original))})

-----------------------------------------------------------------------------
(* Taking messages back.                                                   *)

(* Both unsend handlers refuse anyone but the sender, a message older than *)
(* five minutes and one that has been seen.                                *)
MayUnsend(u, k) ==
  /\ msgs[k].sender = u
  /\ msgs[k].recent
  /\ ~msgs[k].is_seen

unsendPrivateMessage(s, u, k) ==
  /\ "unsend" \in Activity
  /\ k \in PrivateLive
  /\ MayUnsend(u, k)
  /\ Accept(s, u, {[do |-> "delete", key |-> k]})

unsendGroupMessage(s, u, k) ==
  /\ "unsend" \in Activity
  /\ k \in GroupLive
  /\ MayUnsend(u, k)
  /\ Accept(s, u, {[do |-> "archive", keys |-> {k}]})

(* DELETE private/:id asks nothing of the message.                         *)
deletePrivateMessage(k) ==
  /\ "delete" \in Activity
  /\ k[1] = "private"
  /\ deleteMessage(k)
  /\ UNCHANGED pending

(* What u's delete writes in the flags of a message: both flags, whoever   *)
(* asks.                                                                   *)
HideStatement(u, k) ==
  LET isSender == msgs[k].sender = u
  IN  [ do |-> "hide", key |-> k, bySender |-> isSender,
        byReceiver |-> ~isSender \/ msgs[k].recent ]

MayHide(u, k) == u \in {msgs[k].sender, msgs[k].to}

(* The messages found are walked in an order Postgres chooses.  The update *)
(* of each message starts at once; the first message that is not the       *)
(* user's makes the handler answer 403, and those started before it go on. *)
deletePrivateMessages(s, u, ids, started) ==
  /\ "hide" \in Activity
  /\ ids \subseteq PrivateLive
  /\ started \subseteq {k \in ids : MayHide(u, k)}
  /\ started # {}
  /\ started # ids => \E k \in ids : ~MayHide(u, k)
  /\ Enter(s, u, {}, {HideStatement(u, k) : k \in started}, started # ids)

(* deleteGroupMessages looks the messages up one by one, keeps those of a  *)
(* group the user owns or administers, and archives them together.         *)
deleteGroupMessages(s, u, ids) ==
  /\ "archive" \in Activity
  /\ ids # {} /\ \A k \in ids : k[1] = "group"
  /\ Enter(s, u, ids, {}, FALSE)

(* With no message kept the handler refuses.                               *)
AfterCheck(request, rest, valid) ==
  IF rest # {} THEN [request EXCEPT !.reads = rest, !.valid = valid]
  ELSE IF valid = {} THEN Idle
  ELSE [request EXCEPT !.reads = {}, !.valid = {},
                       !.todo = {[do |-> "archive", keys |-> valid]}]

(* Whether the user owns the org of the group or administers the group is  *)
(* kept by other modules: either may be the case.  The handler fails on a  *)
(* message that is gone, or whose group has no org.                        *)
CheckGroupMessage(s, k) ==
  LET now == pending[s]
  IN  /\ k \in now.reads
      /\ \/ /\ k \in Live
            /\ \E valid \in {now.valid, now.valid \union {k}} :
                 pending' = [pending EXCEPT ![s] =
                               AfterCheck(now, now.reads \ {k}, valid)]
         \/ pending' = [pending EXCEPT ![s] = Idle]
      /\ UNCHANGED storeVars

(* OrgGroup rows are deleted by the org-group module.                      *)
deleteOrgGroup(g) ==
  /\ "group" \in Activity
  /\ g \in groups
  /\ deleteGroup(g)
  /\ UNCHANGED pending

-----------------------------------------------------------------------------
(* Seen marks, pins, reactions and saved messages.                         *)

markSeen(s, u, k) ==
  /\ "seen" \in Activity
  /\ k \in Live
  /\ Accept(s, u, {[do |-> "seen", key |-> k]})

togglePinned(s, u, k) ==
  /\ "pin" \in Activity
  /\ k \in Live
  /\ Accept(s, u, {[ do |-> "pin", key |-> k,
                     is_pinned |-> ~msgs[k].is_pinned ]})

react(s, u, k, e) ==
  /\ "react" \in Activity
  /\ k \in Live
  /\ Accept(s, u, {[do |-> "react", key |-> k, type |-> e]})

removeReaction(s, u, r) ==
  /\ "react" \in Activity
  /\ r \in reactions
  /\ r.userId = u
  /\ Accept(s, u, {[do |-> "unreact", id |-> r.id]})

save(u, id) ==
  /\ "save" \in Activity
  /\ saveMessage(u, id)
  /\ UNCHANGED pending

unsave(u, v) ==
  /\ "save" \in Activity
  /\ v \in saved
  /\ removeSavedMessage(u, v.id)
  /\ UNCHANGED pending

FiveMinutesPass(k) ==
  /\ "age" \in Activity
  /\ Age(k)
  /\ UNCHANGED pending

-----------------------------------------------------------------------------
Effect(s, st) ==
  \/ st.do = "create"  /\ createMessage(st.table, st.row)
  \/ st.do = "delete"  /\ deleteMessage(st.key)
  \/ st.do = "archive" /\ archiveMessages(st.keys)
  \/ st.do = "hide"    /\ updatePrivateMessageDelete(st.key, st.bySender,
                                                     st.byReceiver)
  \/ st.do = "seen"    /\ updateMessageSeen(st.key)
  \/ st.do = "pin"     /\ updateMessageIsPinned(st.key, st.is_pinned)
  \/ st.do = "react"   /\ createReaction(pending[s].by, st.key, st.type)
  \/ st.do = "unreact" /\ deleteReaction(st.id)

(* Faulty variant: the first statement to end ends the request.            *)
WithoutRest(request, st) == Idle

Without(request, st) ==
  IF request.todo = {st} THEN Idle
  ELSE [request EXCEPT !.todo = @ \ {st}]

(* The update of a row that is gone fails.  Promise.all still waits for    *)
(* the updates of a request that was not refused; nothing waits for those  *)
(* of a refused one, and a rejection nothing handles ends the process      *)
(* (Node's default: no handler is installed, docker-compose.prod.yml       *)
(* starts the server again).                                               *)
Fatal(s, st) ==
  /\ pending[s].refused
  /\ st.do = "hide"
  /\ st.key \notin Live

(* The statements of a request run in any order, and one that fails does   *)
(* not stop the others.                                                    *)
Execute(s, st) ==
  /\ pending[s].reads = {}
  /\ st \in pending[s].todo
  /\ Effect(s, st)
  /\ pending' = IF Fatal(s, st)
                THEN [t \in Slots |-> IF InFlight(t) THEN Lost ELSE pending[t]]
                ELSE [pending EXCEPT ![s] = Without(pending[s], st)]

Proceed(s) ==
  \/ \E k \in pending[s].reads : CheckGroupMessage(s, k)
  \/ \E st \in pending[s].todo : Execute(s, st)

Arrive(s) ==
  \E u \in Users :
    \/ \E r \in Users, k \in Live :
         \/ replyPrivateMessage(s, u, r, k)
         \/ forwardToPrivateMessage(s, u, r, k)
    \/ \E g \in Groups, k \in Live :
         \/ replyGroupMessage(s, u, g, k)
         \/ forwardToGroupMessage(s, u, g, k)
    \/ \E k \in Live :
         \/ unsendPrivateMessage(s, u, k)
         \/ unsendGroupMessage(s, u, k)
         \/ markSeen(s, u, k)
         \/ togglePinned(s, u, k)
         \/ \E e \in Emojis : react(s, u, k, e)
    \/ \E ids \in SUBSET PrivateLive : \E started \in SUBSET ids :
         deletePrivateMessages(s, u, ids, started)
    \/ \E ids \in SUBSET Keys : deleteGroupMessages(s, u, ids)
    \/ \E r \in reactions : removeReaction(s, u, r)

AtOnce ==
  \/ \E u, r \in Users : sendPrivateMessage(u, r)
  \/ \E u \in Users, g \in Groups : sendGroupMessage(u, g)
  \/ \E u \in Users, id \in 1..MaxMessages : save(u, id)
  \/ \E u \in Users, v \in saved : unsave(u, v)
  \/ \E k \in Keys : deletePrivateMessage(k)
  \/ \E g \in Groups : deleteOrgGroup(g)
  \/ \E k \in Live : FiveMinutesPass(k)

Next == AtOnce \/ \E s \in Slots : Arrive(s) \/ Proceed(s)

Spec == Init /\ [][Next]_vars

(* A request in flight goes on: the event loop runs every continuation and *)
(* Postgres answers every statement.  Nothing makes a client send one.     *)
FairSpec == Spec /\ \A s \in Slots : WF_vars(Proceed(s))

-----------------------------------------------------------------------------
(***************************************************************************)
(* Properties.                                                             *)
(***************************************************************************)

(* Whatever a row refers to exists: the message a reply answers, the       *)
(* original of a forward, the group of a group message, the message of a   *)
(* reaction and both messages a saved message refers to.  The handlers     *)
(* look the target up in one step and insert in another, and the target's  *)
(* whole thread may be removed in between.                                 *)
RefIntegrity ==
  /\ \A k \in Live :
       /\ msgs[k].replyTo \in Live \union {Null}
       /\ msgs[k].fwdFrom \in Live \union {Null}
       /\ k[1] = "group" => msgs[k].to \in groups
  /\ \A r \in reactions : r.key \in Live
  /\ \A v \in saved : SavedReferencesHold(v.messageId)

(* The same user never has the same reaction twice on a message, however   *)
(* many of his requests found the message before one of them inserted.     *)
ReactionsDistinct ==
  \A r, q \in reactions :
    r.userId = q.userId /\ r.key = q.key /\ r.type = q.type => r = q

(* The tables implement MessageForest: what falls with what is fixed when  *)
(* a message is created, ids are never given out twice, a removal takes    *)
(* exactly the thread below its root, and group messages are only hidden   *)
(* (is_archived), never removed, by the requests about them.               *)
Forest == INSTANCE MessageForest WITH
  Names     <- Keys,
  Removable <- PrivateKeys,
  Homes     <- Groups,
  NoHome    <- Null,
  posts     <- Posts,
  used      <- Used,
  homes     <- groups,
  vacant    <- {}

ImplementsForest == Forest!ForestSpec

(* Every request ends: also when the row it was going to write is gone by  *)
(* then, when one of its statements fails, and when another request takes  *)
(* the server down.                                                        *)
RequestsEnd == \A s \in Slots : InFlight(s) ~> ~InFlight(s)

(* Once an unsend has passed its checks the message goes and stays gone,   *)
(* unless the server dies first.                                           *)
UnsentStaysGone ==
  \A s \in Slots, k \in PrivateKeys :
    ([do |-> "delete", key |-> k] \in pending[s].todo)
      ~> ([](k \notin Live) \/ pending[s] = Lost)

(* Each message of a multiple delete that was walked for the sender gets   *)
(* its flag or is gone, also when the request as a whole is refused, and   *)
(* whatever happens to its other messages, unless the server dies.         *)
BatchHideApplied ==
  \A s \in Slots, k \in PrivateKeys, both \in BOOLEAN :
    ([ do |-> "hide", key |-> k, bySender |-> TRUE, byReceiver |-> both ]
       \in pending[s].todo)
      ~> ((k \in Live => msgs[k].deletedBySender) \/ pending[s] = Lost)

(* A message a request marks as seen is seen from some point on, for as    *)
(* long as it exists, whatever pins, deletes and other marks run between;  *)
(* and each group message a delete or an unsend was accepted for is hidden *)
(* from some point on, and does not come back.                             *)
MarksStick ==
  \A s \in Slots, k \in Keys :
    /\ ([do |-> "seen", key |-> k] \in pending[s].todo)
         ~> ([](k \in Live => msgs[k].is_seen) \/ pending[s] = Lost)
    /\ (\E st \in pending[s].todo : st.do = "archive" /\ k \in st.keys)
         ~> ([](k \in Live => msgs[k].is_archived) \/ pending[s] = Lost)

(* The row a step may leave where there was the row r.                     *)
MovedOn(r, now) ==
  /\ r.is_seen => now.is_seen
  /\ r.is_archived => now.is_archived
  /\ now.recent => r.recent
  /\ now.sender = r.sender /\ now.to = r.to /\ now.replyTo = r.replyTo

(* An id that has been given out and has no row is never a row again.      *)
GoneStaysGone ==
  \A k \in Keys \ Live : k[2] < nextId[k[1]] => k \notin Live'

RowsMoveOn == \A k \in Live : k \in Live' => MovedOn(msgs[k], msgs'[k])

(* A mark that is set stays set for as long as the message exists, a       *)
(* message keeps its author, its place and the message it answers, and a   *)
(* message that is gone does not come back.                                *)
MarksNeverUndone == [][RowsMoveOn /\ GoneStaysGone]_vars

(* The statement st of the request in slot s runs in this step.            *)
Runs(s, st) == st \in pending[s].todo /\ st \notin pending'[s].todo

(* "You can only unsend messages that have not been seen by the receiver   *)
(* yet": the message an unsend removes is unseen when it is removed.       *)
UnsendOnlyUnseen ==
  [][\A s \in Slots, k \in Live :
       Runs(s, [do |-> "delete", key |-> k]) => ~msgs[k].is_seen]_vars

(* "Receiver deletes message for themselves": a delete by the receiver     *)
(* leaves alone whether the message is deleted for its sender.             *)
ReceiverDeletesForThemselves ==
  [][\A s \in Slots, k \in Live :
       Runs(s, [ do |-> "hide", key |-> k, bySender |-> FALSE,
                 byReceiver |-> TRUE ])
         => msgs'[k].deletedBySender = msgs[k].deletedBySender]_vars
=============================================================================
