---------------------------- MODULE MessageStore ----------------------------
(***************************************************************************)
(* The message tables of the chat, as src/prisma/schema.prisma declares    *)
(* them and as the statements of PrivateChatService write them: the rows   *)
(* of PrivateMessage and GroupMessage, the Reaction and SavedMessage rows  *)
(* attached to them, and the OrgGroup rows group messages belong to.       *)
(*                                                                         *)
(* A message is named by its key <<table, id>>: the two tables draw their  *)
(* ids from two sequences, so the same id may name a message in each.      *)
(* Content, type, caption and the timestamps other than the age of a row   *)
(* and pinnedAt are left out: no property tells them apart.                *)
(***************************************************************************)
EXTENDS Naturals, FiniteSets

CONSTANTS
  Users,          \* the registered users (rows of User)
  Groups,         \* the groups there may be (ids of OrgGroup)
  Emojis,         \* the reaction types the clients send
  MaxMessages,    \* the largest id of the two message sequences
  MaxReactions,   \* the largest id of the Reaction sequence
  MaxSaved        \* the largest id of the SavedMessage sequence

ASSUME BoundsAssumption ==
  MaxMessages \in Nat /\ MaxReactions \in Nat /\ MaxSaved \in Nat

Tables    == {"private", "group"}
Sequences == Tables \union {"reaction", "saved"}
Keys      == Tables \X (1..MaxMessages)
Null      == <<"null", 0>>

ASSUME NullAssumption == Null \notin Groups

VARIABLES
  msgs,       \* the rows of the two message tables, by key
  groups,     \* the groups that still exist
  reactions,  \* the rows of Reaction
  saved,      \* the rows of SavedMessage
  nextId      \* the next value of each id sequence

storeVars == <<msgs, groups, reactions, saved, nextId>>

Live == DOMAIN msgs

(***************************************************************************)
(* A row of either table.  "to" is receiverId or groupId; "fwdFrom" is the *)
(* one forwardedFrom... column that is not null; "recent" says that        *)
(* createdAt is less than five minutes ago.  A column the table does not   *)
(* have keeps its default: deletedBy... in a group row, is_archived in a   *)
(* private one.                                                            *)
(***************************************************************************)
Row == [ sender            : Users,
         to                : Users \union Groups,
         replyTo           : Keys \union {Null},
         fwdFrom           : Keys \union {Null},
         is_seen           : BOOLEAN,
         is_pinned         : BOOLEAN,
         pinnedAt          : BOOLEAN,
         deletedBySender   : BOOLEAN,
         deletedByReceiver : BOOLEAN,
         is_archived       : BOOLEAN,
         recent            : BOOLEAN ]

Reaction     == [ id : 1..MaxReactions, userId : Users,
                  key : Keys, type : Emojis ]
SavedMessage == [ id : 1..MaxSaved, userId : Users,
                  messageId : 1..MaxMessages ]

SequenceMax(q) == IF q = "reaction" THEN MaxReactions
                  ELSE IF q = "saved" THEN MaxSaved
                  ELSE MaxMessages

StoreTypeOK ==
  /\ Live \subseteq Keys
  /\ \A k \in Live : msgs[k] \in Row
  /\ groups \subseteq Groups
  /\ reactions \subseteq Reaction
  /\ saved \subseteq SavedMessage
  /\ nextId \in [Sequences -> Nat]
  /\ \A q \in Sequences : nextId[q] >= 1

StoreInit ==
  /\ msgs = [k \in {} |-> Null]
  /\ groups = Groups
  /\ reactions = {}
  /\ saved = {}
  /\ nextId = [q \in Sequences |-> 1]

-----------------------------------------------------------------------------
(***************************************************************************)
(* Inserts.  An insert draws its id before the foreign keys and the unique *)
(* constraints are checked, and a sequence is not rolled back: an insert   *)
(* that fails has used its id.  A sequence past its largest id makes the   *)
(* insert fail, which is how the bounds Max... enter the model.            *)
(***************************************************************************)
Exhausted(q) == nextId[q] > SequenceMax(q)

Draw(q) == nextId' = IF Exhausted(q) THEN nextId
                     ELSE [nextId EXCEPT ![q] = @ + 1]

(* Faulty variant: the references are not foreign keys.                    *)
ReferencesUnchecked(t, r) == TRUE

(* The foreign keys of a message row: replyTo, the forwardedFrom columns   *)
(* and, for a group row, groupId.                                          *)
ReferencesHold(t, r) ==
  /\ r.replyTo \in Live \union {Null}
  /\ r.fwdFrom \in Live \union {Null}
  /\ t = "group" => r.to \in groups

(* Faulty variant: two columns are mixed up.                               *)
NewRowSwapped(sender, to, replyTo, fwdFrom) ==
  [ sender |-> to, to |-> sender, replyTo |-> replyTo, fwdFrom |-> fwdFrom,
    is_seen |-> FALSE, is_pinned |-> FALSE, pinnedAt |-> FALSE,
    deletedBySender |-> FALSE, deletedByReceiver |-> FALSE,
    is_archived |-> FALSE, recent |-> TRUE ]

NewRow(sender, to, replyTo, fwdFrom) ==
  [ sender |-> sender, to |-> to, replyTo |-> replyTo, fwdFrom |-> fwdFrom,
    is_seen |-> FALSE, is_pinned |-> FALSE, pinnedAt |-> FALSE,
    deletedBySender |-> FALSE, deletedByReceiver |-> FALSE,
    is_archived |-> FALSE, recent |-> TRUE ]

WithRow(k, r) == [j \in Live \union {k} |-> IF j = k THEN r ELSE msgs[j]]

createMessage(t, r) ==
  /\ Draw(t)
  /\ msgs' = IF ~Exhausted(t) /\ ReferencesHold(t, r)
             THEN WithRow(<<t, nextId[t]>>, r)
             ELSE msgs
  /\ UNCHANGED <<groups, reactions, saved>>

(* Faulty variant: no unique constraint, only the handler's look-up.       *)
NoUniqueReaction(u, k, e) == FALSE

(* @@unique([userId, privateMessageId, type]) and the same for groups.     *)
AlreadyReacted(u, k, e) ==
  \E r \in reactions : r.userId = u /\ r.key = k /\ r.type = e

createReaction(u, k, e) ==
  /\ Draw("reaction")
  /\ reactions' = IF Exhausted("reaction") \/ k \notin Live
                     \/ AlreadyReacted(u, k, e)
                  THEN reactions
                  ELSE reactions \union
                         {[ id |-> nextId["reaction"], userId |-> u,
                            key |-> k, type |-> e ]}
  /\ UNCHANGED <<msgs, groups, saved>>

(* SavedMessage.messageId is declared twice as a foreign key, to           *)
(* PrivateMessage and to GroupMessage: Postgres enforces both.             *)
SavedReferencesHold(id) == \A t \in Tables : <<t, id>> \in Live

saveMessage(u, id) ==
  /\ Draw("saved")
  /\ saved' = IF Exhausted("saved") \/ ~SavedReferencesHold(id) THEN saved
              ELSE saved \union {[ id |-> nextId["saved"], userId |-> u,
                                   messageId |-> id ]}
  /\ UNCHANGED <<msgs, groups, reactions>>

-----------------------------------------------------------------------------
(***************************************************************************)
(* Deletes.  Every reference to a message is declared ON DELETE CASCADE,   *)
(* except that a group message forwarded from a group message keeps its    *)
(* row and loses the reference (the default of an optional relation, SET   *)
(* NULL).  A delete takes the least set of rows closed under the cascade.  *)
(***************************************************************************)
FallsWith(k, p) ==
  \/ msgs[k].replyTo = p
  \/ msgs[k].fwdFrom = p /\ <<k[1], p[1]>> # <<"group", "group">>

(* Faulty variant: only direct replies and forwards fall.                  *)
CascadeOneLevel(D) == D \union {k \in Live : \E p \in D : FallsWith(k, p)}

Closed(C) == \A k \in Live : (\E p \in C : FallsWith(k, p)) => k \in C

Cascade(D) == {k \in Live : \A C \in SUBSET Live :
                              D \subseteq C /\ Closed(C) => k \in C}

Forget(gone, r) == [r EXCEPT !.fwdFrom = IF @ \in gone THEN Null ELSE @]

deleteRows(D) ==
  LET gone == Cascade(D)
  IN  /\ msgs' = [k \in Live \ gone |-> Forget(gone, msgs[k])]
      /\ reactions' = {r \in reactions : r.key \notin gone}
      /\ saved' = {v \in saved :
                     \A t \in Tables : <<t, v.messageId>> \notin gone}
      /\ UNCHANGED nextId

(* Faulty variant: the message is flagged for both instead of removed.     *)
deleteMessageSoftly(k) ==
  /\ msgs' = IF k \in Live
             THEN [msgs EXCEPT ![k].deletedBySender = TRUE,
                               ![k].deletedByReceiver = TRUE]
             ELSE msgs
  /\ UNCHANGED <<groups, reactions, saved, nextId>>

(* prisma.privateMessage.delete fails (P2025) when the row is gone.        *)
deleteMessage(k) ==
  /\ deleteRows({k} \intersect Live)
  /\ UNCHANGED groups

deleteReaction(id) ==
  /\ reactions' = {r \in reactions : r.id # id}
  /\ UNCHANGED <<msgs, groups, saved, nextId>>

(* prisma.savedMessage.delete({ where: { id, userId } })                   *)
removeSavedMessage(u, id) ==
  /\ saved' = {v \in saved : ~(v.id = id /\ v.userId = u)}
  /\ UNCHANGED <<msgs, groups, reactions, nextId>>

(* GroupMessage.group is ON DELETE CASCADE: a group takes its messages.    *)
deleteGroup(g) ==
  /\ groups' = groups \ {g}
  /\ deleteRows({k \in Live : k[1] = "group" /\ msgs[k].to = g})

-----------------------------------------------------------------------------
(***************************************************************************)
(* Updates write the named columns of the row as it is when the statement  *)
(* runs.  A row that is gone makes update fail (P2025) and is skipped by   *)
(* updateMany; either way nothing is written.                              *)
(***************************************************************************)
(* Faulty variant: a row that is gone leaves the request unanswered.       *)
UpdateRowThere(k, r) ==
  /\ k \in Live
  /\ msgs' = [msgs EXCEPT ![k] = r]
  /\ UNCHANGED <<groups, reactions, saved, nextId>>

UpdateRow(k, r) ==
  /\ msgs' = IF k \in Live THEN [msgs EXCEPT ![k] = r] ELSE msgs
  /\ UNCHANGED <<groups, reactions, saved, nextId>>

(* Faulty variant: the mark is toggled, as a pin is.                       *)
updateMessageSeenToggles(k) ==
  UpdateRow(k, [msgs[k] EXCEPT !.is_seen = ~@])

updateMessageSeen(k) == UpdateRow(k, [msgs[k] EXCEPT !.is_seen = TRUE])

(* The Prisma middleware keeps pinnedAt in step with is_pinned.            *)
setPinnedAt(r, is_pinned) == [r EXCEPT !.pinnedAt = is_pinned]

updateMessageIsPinned(k, is_pinned) ==
  UpdateRow(k, setPinnedAt([msgs[k] EXCEPT !.is_pinned = is_pinned],
                           is_pinned))

updatePrivateMessageDelete(k, bySender, byReceiver) ==
  UpdateRow(k, [msgs[k] EXCEPT !.deletedBySender = bySender,
                               !.deletedByReceiver = byReceiver])

(* Faulty variant: the column is written in every row.                     *)
archiveMessagesOnly(S) ==
  /\ msgs' = [k \in Live |-> [msgs[k] EXCEPT !.is_archived = k \in S]]
  /\ UNCHANGED <<groups, reactions, saved, nextId>>

(* update and updateMany of is_archived: one statement for all the ids.    *)
archiveMessages(S) ==
  /\ msgs' = [k \in Live |-> IF k \in S
                             THEN [msgs[k] EXCEPT !.is_archived = TRUE]
                             ELSE msgs[k]]
  /\ UNCHANGED <<groups, reactions, saved, nextId>>

(* Five minutes pass for a row, never before they pass for an older row of *)
(* its table.                                                              *)
Age(k) ==
  /\ k \in Live /\ msgs[k].recent
  /\ \A j \in Live : j[1] = k[1] /\ j[2] < k[2] => ~msgs[j].recent
  /\ UpdateRow(k, [msgs[k] EXCEPT !.recent = FALSE])

-----------------------------------------------------------------------------
(***************************************************************************)
(* The tables as MessageForest sees them: what each message falls with,    *)
(* the group it is in, and the ids given out so far.                       *)
(***************************************************************************)
Parents(k) == {p \in Keys : FallsWith(k, p)}

HomeOf(k) == IF k[1] = "group" THEN msgs[k].to ELSE Null

Posts == [k \in Live |-> [parents |-> Parents(k), home |-> HomeOf(k)]]

Used == {k \in Keys : k[2] < nextId[k[1]]}

PrivateKeys == {k \in Keys : k[1] = "private"}
=============================================================================
