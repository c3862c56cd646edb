----------------------------- MODULE ChatLists -----------------------------
(***************************************************************************)
(* The lists of conversations that PrivateChatService computes from the    *)
(* message tables, and what they ought to be.  createdAt orders private    *)
(* messages as their ids do.                                               *)
(***************************************************************************)
EXTENDS MessageStore, SequencesExt

(* The private messages of a user, and those between two users.            *)
Private(u) ==
  {k \in Live : k[1] = "private" /\ u \in {msgs[k].sender, msgs[k].to}}

Between(u, v) ==
  {k \in Live : k[1] = "private" /\ \/ msgs[k].sender = u /\ msgs[k].to = v
                                    \/ msgs[k].sender = v /\ msgs[k].to = u}

Newest(K) == CHOOSE k \in K : \A j \in K : j[2] <= k[2]

Partners(u) == {v \in Users \ {u} : Between(u, v) # {}}

-----------------------------------------------------------------------------
NewestFirst(K) ==
  CHOOSE rows \in SetToSeqs(K) :
    \A i, j \in DOMAIN rows : i < j => rows[i][2] > rows[j][2]

Listed(list, v) == v \in Range(list)

(* Faulty variant: only the sender of a message is looked for in the list. *)
ListReceiver(u, list, k) ==
  IF msgs[k].sender # u /\ ~Listed(list, msgs[k].sender)
  THEN Append(list, msgs[k].sender)
  ELSE IF msgs[k].to # u THEN Append(list, msgs[k].to) ELSE list

(* What one message adds to the list of the users u has chatted with.      *)
ListPartner(u, list, k) ==
  IF msgs[k].sender # u /\ ~Listed(list, msgs[k].sender)
  THEN Append(list, msgs[k].sender)
  ELSE IF msgs[k].to # u /\ ~Listed(list, msgs[k].to)
  THEN Append(list, msgs[k].to)
  ELSE list

getMyChats(u) ==
  FoldLeft(LAMBDA list, k : ListPartner(u, list, k), <<>>,
           NewestFirst(Private(u)))

-----------------------------------------------------------------------------
(* groupBy(senderId, receiverId) with the newest message of each, in an    *)
(* order the database is free to choose.                                   *)
Directions(u) ==
  {Newest({k \in Private(u) : msgs[k].sender = d[1] /\ msgs[k].to = d[2]}) :
     d \in {<<msgs[k].sender, msgs[k].to>> : k \in Private(u)}}

(* Faulty variant: the other direction of a conversation is another one.   *)
SameDirection(j, k) ==
  msgs[j].sender = msgs[k].sender /\ msgs[j].to = msgs[k].to

(* key1 or key2 of one is the key of the other.                            *)
SameConversation(j, k) ==
  {msgs[j].sender, msgs[j].to} = {msgs[k].sender, msgs[k].to}

KeepNewer(kept, k) ==
  IF \E j \in kept : SameConversation(j, k)
  THEN {IF SameConversation(j, k) /\ k[2] > j[2] THEN k ELSE j : j \in kept}
  ELSE kept \union {k}

(* The newest message of each group among those u sent and those of his    *)
(* groups; the order of the answer, by createdAt in both tables, is left   *)
(* out.                                                                    *)
NewestInGroups(u, mine) ==
  LET K == {k \in Live : k[1] = "group" /\ \/ msgs[k].sender = u
                                           \/ msgs[k].to \in mine}
  IN  {Newest({k \in K : msgs[k].to = g}) : g \in {msgs[k].to : k \in K}}

getMyRecentConversations(u, mine, directions) ==
  FoldLeft(KeepNewer, {}, directions) \union NewestInGroups(u, mine)

-----------------------------------------------------------------------------
(* The users somebody has chatted with are each listed once, whoever wrote *)
(* last, and in the order of the last message of each chat.                *)
MyChatsRight ==
  \A u \in Users :
    LET list == getMyChats(u)
    IN  /\ IsInjective(list)
        /\ Range(list) = Partners(u)
        /\ \A i, j \in DOMAIN list : i < j =>
             Newest(Between(u, list[i]))[2] > Newest(Between(u, list[j]))[2]

(* Recent conversations show the last private message with each partner,   *)
(* oneself included, and nothing else of private chats, in whatever order  *)
(* the database lists the two directions of each; and the last message of  *)
(* each group, whoever sent it, to a user who is a member of all.          *)
RecentRight ==
  \A u \in Users :
    \A directions \in SetToSeqs(Directions(u)) :
      LET list == getMyRecentConversations(u, groups, directions)
          of(g) == {k \in Live : k[1] = "group" /\ msgs[k].to = g}
      IN  /\ {k \in list : k[1] = "private"} =
               {Newest(Between(u, v)) :
                  v \in {w \in Users : Between(u, w) # {}}}
          /\ \A g \in groups : of(g) # {} => Newest(of(g)) \in list
=============================================================================
