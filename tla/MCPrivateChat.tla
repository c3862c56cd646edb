--------------------------- MODULE MCPrivateChat ---------------------------
(* Instances of PrivateChat for TLC.  The clients of a behaviour keep to   *)
(* one part of what they may do, so that the product of all the parts is   *)
(* not explored.  Every step of a part is a step of PrivateChat!Next.      *)
EXTENDS PrivateChat, TLC

CONSTANTS
  Parts,      \* the parts this run explores
  OneSlot,    \* the slot of the part with one request in flight
  OneUser     \* one of the users

VARIABLE part

Symmetry == Permutations(Users) \union Permutations(Emojis)

(* Threads of replies and forwards across both tables, cut by deletes.     *)
ThreadsNext ==
  \/ \E u \in Users :
       \/ \E r \in Users : sendPrivateMessage(u, r)
       \/ \E g \in Groups : sendGroupMessage(u, g)
       \/ \E s \in OneSlot, k \in Live :
            \/ \E r \in Users : \/ replyPrivateMessage(s, u, r, k)
                                \/ forwardToPrivateMessage(s, u, r, k)
            \/ \E g \in Groups : \/ replyGroupMessage(s, u, g, k)
                                 \/ forwardToGroupMessage(s, u, g, k)
  \/ \E k \in Keys : deletePrivateMessage(k)
  \/ \E g \in Groups : deleteOrgGroup(g)
  \/ \E s \in OneSlot : Proceed(s)

(* Two requests in flight on the first message of each table.              *)
First(t) == nextId[t] = 1

RacesNext ==
  \/ \E u \in Users :
       \/ First("private") /\ \E r \in Users : sendPrivateMessage(u, r)
       \/ First("group")   /\ \E g \in Groups : sendGroupMessage(u, g)
       \/ save(u, 1)
       \/ \E v \in saved : unsave(u, v)
       \/ \E s \in Slots :
            \/ \E k \in Live :
                 \/ unsendPrivateMessage(s, u, k)
                 \/ unsendGroupMessage(s, u, k)
                 \/ \E e \in Emojis : react(s, u, k, e)
            \/ deleteGroupMessages(s, u, {<<"group", 1>>})
            \/ \E r \in reactions : removeReaction(s, u, r)
  \/ \E k \in Keys : deletePrivateMessage(k)
  \/ \E g \in Groups : deleteOrgGroup(g)
  \/ \E s \in Slots : Proceed(s)

(* A multiple delete that can hold a message that is not the user's.  The  *)
(* users are interchangeable: the first message may be anybody's.          *)
HidesNext ==
  \/ \E u, r \in Users :
       /\ First("private") => u \in OneUser
       /\ sendPrivateMessage(u, r)
  \/ \E s \in Slots, u \in Users :
       \/ \E k \in Live : unsendPrivateMessage(s, u, k)
       \/ \E ids \in SUBSET PrivateLive : \E started \in SUBSET ids :
            deletePrivateMessages(s, u, ids, started)
  \/ \E s \in Slots : Proceed(s)

(* Seen marks, pins and hidden group messages.                             *)
MarksNext ==
  \/ \E u \in OneUser, g \in Groups : sendGroupMessage(u, g)
  \/ \E k \in Live : FiveMinutesPass(k)
  \/ \E s \in Slots, u \in OneUser :
       \/ \E k \in Live :
            \/ unsendGroupMessage(s, u, k)
            \/ markSeen(s, u, k)
            \/ togglePinned(s, u, k)
       \/ \E ids \in SUBSET Keys : deleteGroupMessages(s, u, ids)
  \/ \E s \in Slots : Proceed(s)

MCInit == Init /\ part \in Parts

MCNext ==
  /\ \/ part = "threads" /\ ThreadsNext
     \/ part = "races"   /\ RacesNext
     \/ part = "hides"   /\ HidesNext
     \/ part = "marks"   /\ MarksNext
  /\ UNCHANGED part

MCSpec == MCInit /\ [][MCNext]_<<vars, part>>

MCFairSpec ==
  MCSpec /\ \A s \in Slots : WF_<<vars, part>>(Proceed(s) /\ UNCHANGED part)
=============================================================================
