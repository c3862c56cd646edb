------------------------ MODULE MessageStore_proofs ------------------------
(***************************************************************************)
(* What the statements on the message tables preserve: the type of every   *)
(* row, and that whatever a row refers to exists.                          *)
(***************************************************************************)
EXTENDS MessageStore, TLAPS

(* Whatever a row refers to exists (the store's part of RefIntegrity).     *)
RefsHold ==
  /\ \A k \in Live :
       /\ msgs[k].replyTo \in Live \union {Null}
       /\ msgs[k].fwdFrom \in Live \union {Null}
       /\ k[1] = "group" => msgs[k].to \in groups
  /\ \A r \in reactions : r.key \in Live
  /\ \A v \in saved : SavedReferencesHold(v.messageId)

-----------------------------------------------------------------------------
(* A cascade holds its roots and everything that falls with a member of    *)
(* it: no surviving row refers to a removed one through a cascading        *)
(* reference.                                                              *)
LEMMA CascadeClosed ==
  ASSUME NEW D, D \subseteq Live
  PROVE  /\ D \subseteq Cascade(D)
         /\ Cascade(D) \subseteq Live
         /\ Closed(Cascade(D))
<1>1. D \subseteq Cascade(D) /\ Cascade(D) \subseteq Live
  BY DEF Cascade
<1>2. ASSUME NEW k \in Live, NEW p \in Cascade(D), FallsWith(k, p)
      PROVE  k \in Cascade(D)
  <2>1. ASSUME NEW C \in SUBSET Live, D \subseteq C, Closed(C)
        PROVE  k \in C
    <3>1. p \in C
      BY <1>2, <2>1 DEF Cascade
    <3>2. QED
      BY <1>2, <2>1, <3>1 DEF Closed
  <2>2. QED
    BY <2>1 DEF Cascade
<1>3. QED
  BY <1>1, <1>2 DEF Closed

(* Nothing beyond that falls: every set that holds the roots and is closed *)
(* under the cascade holds the whole cascade.                              *)
LEMMA CascadeLeast ==
  ASSUME NEW D, NEW C \in SUBSET Live, D \subseteq C, Closed(C)
  PROVE  Cascade(D) \subseteq C
BY DEF Cascade

(* A fresh row is a row.                                                   *)
LEMMA NewRowType ==
  ASSUME NEW u \in Users, NEW to \in Users \union Groups,
         NEW r \in Keys \union {Null}, NEW f \in Keys \union {Null}
  PROVE  NewRow(u, to, r, f) \in Row
BY DEF NewRow, Row

(* A row whose marks are updated stays a row, and refers to the same rows.  *)
LEMMA UpdatedRows ==
  ASSUME NEW r \in Row, NEW p \in BOOLEAN
  PROVE  LET seen   == [r EXCEPT !.is_seen = TRUE]
             pinned == setPinnedAt([r EXCEPT !.is_pinned = p], p)
         IN  /\ seen \in Row /\ seen.replyTo = r.replyTo
             /\ seen.fwdFrom = r.fwdFrom /\ seen.to = r.to
             /\ pinned \in Row /\ pinned.replyTo = r.replyTo
             /\ pinned.fwdFrom = r.fwdFrom /\ pinned.to = r.to
<1>1. [r EXCEPT !.is_seen = TRUE] \in Row
  BY DEF Row
<1>2. PICK pin : pin = [r EXCEPT !.is_pinned = p]
  OBVIOUS
<1>3. /\ pin \in Row /\ pin.replyTo = r.replyTo
      /\ pin.fwdFrom = r.fwdFrom /\ pin.to = r.to
  BY <1>2 DEF Row
<1>4. [pin EXCEPT !.pinnedAt = p] \in Row
  BY <1>3 DEF Row
<1>5. QED
  BY <1>1, <1>2, <1>3, <1>4 DEF setPinnedAt, Row

LEMMA DrawType ==
  ASSUME StoreTypeOK, NEW q \in Sequences, Draw(q)
  PROVE  /\ nextId' \in [Sequences -> Nat]
         /\ \A x \in Sequences : nextId'[x] >= 1
BY DEF StoreTypeOK, Draw

-----------------------------------------------------------------------------
(* Type correctness of each statement.                                     *)

LEMMA CreateMessageType ==
  ASSUME StoreTypeOK, NEW t \in Tables, NEW r \in Row, createMessage(t, r)
  PROVE  StoreTypeOK'
<1>1. t \in Sequences
  BY DEF Sequences
<1>2. /\ nextId' \in [Sequences -> Nat]
      /\ \A x \in Sequences : nextId'[x] >= 1
  BY <1>1, DrawType DEF createMessage
<1>3. CASE ~Exhausted(t) /\ ReferencesHold(t, r)
  <2>1. <<t, nextId[t]>> \in Keys
    BY <1>1, <1>3, BoundsAssumption
       DEF Exhausted, SequenceMax, StoreTypeOK, Keys, Tables
  <2>2. msgs' = WithRow(<<t, nextId[t]>>, r)
    BY <1>3 DEF createMessage
  <2>3. /\ Live' = Live \union {<<t, nextId[t]>>}
        /\ \A k \in Live' : msgs'[k] \in Row
    BY <2>2 DEF WithRow, Live, StoreTypeOK
  <2>4. QED
    BY <1>2, <2>1, <2>3 DEF createMessage, StoreTypeOK
<1>4. CASE ~(~Exhausted(t) /\ ReferencesHold(t, r))
  <2>1. msgs' = msgs
    BY <1>4 DEF createMessage
  <2>2. QED
    BY <1>2, <2>1 DEF createMessage, StoreTypeOK, Live
<1>5. QED
  BY <1>3, <1>4

LEMMA CreateReactionType ==
  ASSUME StoreTypeOK, NEW u \in Users, NEW k \in Keys, NEW e \in Emojis,
         createReaction(u, k, e)
  PROVE  StoreTypeOK'
<1>1. "reaction" \in Sequences
  BY DEF Sequences
<1>2. /\ nextId' \in [Sequences -> Nat]
      /\ \A x \in Sequences : nextId'[x] >= 1
  BY <1>1, DrawType DEF createReaction
<1>3. ~Exhausted("reaction") => nextId["reaction"] \in 1..MaxReactions
  BY <1>1, BoundsAssumption DEF Exhausted, SequenceMax, StoreTypeOK
<1>4. reactions' \subseteq Reaction
  BY <1>3 DEF createReaction, Reaction, StoreTypeOK
<1>5. QED
  BY <1>2, <1>4 DEF createReaction, StoreTypeOK, Live

LEMMA SaveMessageType ==
  ASSUME StoreTypeOK, NEW u \in Users, NEW id \in 1..MaxMessages,
         saveMessage(u, id)
  PROVE  StoreTypeOK'
<1>1. "saved" \in Sequences
  BY DEF Sequences
<1>2. /\ nextId' \in [Sequences -> Nat]
      /\ \A x \in Sequences : nextId'[x] >= 1
  BY <1>1, DrawType DEF saveMessage
<1>3. ~Exhausted("saved") => nextId["saved"] \in 1..MaxSaved
  BY <1>1, BoundsAssumption DEF Exhausted, SequenceMax, StoreTypeOK
<1>4. saved' \subseteq SavedMessage
  BY <1>3 DEF saveMessage, SavedMessage, StoreTypeOK
<1>5. QED
  BY <1>2, <1>4 DEF saveMessage, StoreTypeOK, Live

LEMMA DeleteRowsType ==
  ASSUME StoreTypeOK, NEW D, D \subseteq Live, deleteRows(D),
         groups' \subseteq Groups
  PROVE  StoreTypeOK'
<1> DEFINE gone == Cascade(D)
<1>1. Live' = Live \ gone /\ \A k \in Live' : msgs'[k] = Forget(gone, msgs[k])
  BY DEF deleteRows, Live
<1>2. \A k \in Live' : msgs'[k] \in Row
  <2>1. SUFFICES ASSUME NEW k \in Live, msgs[k] \in Row
                 PROVE  Forget(gone, msgs[k]) \in Row
    BY <1>1 DEF StoreTypeOK
  <2> HIDE DEF gone
  <2>2. QED
    BY <2>1 DEF Forget, Row
<1>3. QED
  BY <1>1, <1>2 DEF deleteRows, StoreTypeOK

LEMMA UpdateRowType ==
  ASSUME StoreTypeOK, NEW k, NEW r, k \in Live => r \in Row, UpdateRow(k, r)
  PROVE  StoreTypeOK'
<1>1. Live' = Live /\ \A j \in Live : msgs'[j] \in Row
  BY DEF UpdateRow, Live, StoreTypeOK
<1>2. QED
  BY <1>1 DEF UpdateRow, StoreTypeOK

LEMMA ArchiveType ==
  ASSUME StoreTypeOK, NEW S, archiveMessages(S)
  PROVE  StoreTypeOK'
<1>1. Live' = Live
  BY DEF archiveMessages, Live
<1>2. \A k \in Live : msgs'[k] \in Row
  BY DEF archiveMessages, StoreTypeOK, Row
<1>3. QED
  BY <1>1, <1>2 DEF archiveMessages, StoreTypeOK

-----------------------------------------------------------------------------
(* Referential integrity of each statement.                                *)

LEMMA CreateMessageRefs ==
  ASSUME RefsHold, NEW t \in Tables, NEW r, createMessage(t, r)
  PROVE  RefsHold'
<1>1. CASE ~Exhausted(t) /\ ReferencesHold(t, r)
  <2> DEFINE new == <<t, nextId[t]>>
  <2>1. /\ Live' = Live \union {new}
        /\ msgs'[new] = r
        /\ \A k \in Live : k # new => msgs'[k] = msgs[k]
    BY <1>1 DEF createMessage, WithRow, Live
  <2>2. /\ groups' = groups
        /\ reactions' = reactions
        /\ saved' = saved
    BY DEF createMessage
  <2>3. ASSUME NEW k \in Live'
        PROVE  /\ msgs'[k].replyTo \in Live' \union {Null}
               /\ msgs'[k].fwdFrom \in Live' \union {Null}
               /\ k[1] = "group" => msgs'[k].to \in groups'
    <3>1. CASE k = new
      BY <1>1, <2>1, <2>2, <3>1 DEF ReferencesHold
    <3>2. CASE k # new
      BY <2>1, <2>2, <3>2 DEF RefsHold
    <3>3. QED
      BY <3>1, <3>2
  <2>4. QED
    BY <2>1, <2>2, <2>3 DEF RefsHold, SavedReferencesHold
<1>2. CASE ~(~Exhausted(t) /\ ReferencesHold(t, r))
  BY <1>2 DEF createMessage, RefsHold, Live, SavedReferencesHold
<1>3. QED
  BY <1>1, <1>2

LEMMA CreateReactionRefs ==
  ASSUME RefsHold, NEW u, NEW k, NEW e, createReaction(u, k, e)
  PROVE  RefsHold'
BY DEF createReaction, RefsHold, Live, SavedReferencesHold

LEMMA SaveMessageRefs ==
  ASSUME RefsHold, NEW u, NEW id, saveMessage(u, id)
  PROVE  RefsHold'
BY DEF saveMessage, RefsHold, Live, SavedReferencesHold

(* A delete of any rows, in which the groups of the other group rows stay. *)
LEMMA DeleteRowsRefs ==
  ASSUME RefsHold, NEW D, D \subseteq Live, deleteRows(D),
         \A k \in Live \ D : k[1] = "group" => msgs[k].to \in groups'
  PROVE  RefsHold'
<1> DEFINE gone == Cascade(D)
<1>1. Live' = Live \ gone /\ \A k \in Live' : msgs'[k] = Forget(gone, msgs[k])
  BY DEF deleteRows, Live
<1>2. D \subseteq gone /\ Closed(gone)
  BY CascadeClosed
<1> HIDE DEF gone
<1>3. ASSUME NEW k \in Live'
      PROVE  /\ msgs'[k].replyTo \in Live' \union {Null}
             /\ msgs'[k].fwdFrom \in Live' \union {Null}
             /\ k[1] = "group" => msgs'[k].to \in groups'
  <2>1. k \in Live /\ k \notin gone /\ msgs'[k] = Forget(gone, msgs[k])
    BY <1>1
  <2>2. msgs[k].replyTo \notin gone
    BY <1>2, <2>1 DEF Closed, FallsWith
  <2>3. msgs'[k].replyTo \in Live' \union {Null}
    BY <1>1, <2>1, <2>2 DEF Forget, RefsHold
  <2>4. msgs'[k].fwdFrom \in Live' \union {Null}
    BY <1>1, <2>1 DEF Forget, RefsHold
  <2>5. k[1] = "group" => msgs'[k].to \in groups'
    BY <1>2, <2>1 DEF Forget
  <2>6. QED
    BY <2>3, <2>4, <2>5
<1>4. \A r \in reactions' : r.key \in Live'
  BY <1>1 DEF deleteRows, RefsHold, gone
<1>5. \A v \in saved' : SavedReferencesHold(v.messageId)'
  BY <1>1 DEF deleteRows, RefsHold, SavedReferencesHold, gone
<1>6. QED
  BY <1>3, <1>4, <1>5 DEF RefsHold

LEMMA UpdateRowRefs ==
  ASSUME RefsHold, NEW k, NEW r, UpdateRow(k, r),
         k \in Live => /\ r.replyTo = msgs[k].replyTo
                       /\ r.fwdFrom = msgs[k].fwdFrom
                       /\ r.to = msgs[k].to
  PROVE  RefsHold'
<1>1. Live' = Live
  BY DEF UpdateRow, Live
<1>2. \A j \in Live : /\ msgs'[j].replyTo = msgs[j].replyTo
                      /\ msgs'[j].fwdFrom = msgs[j].fwdFrom
                      /\ msgs'[j].to = msgs[j].to
  BY DEF UpdateRow, Live
<1>3. QED
  BY <1>1, <1>2 DEF UpdateRow, RefsHold, SavedReferencesHold

LEMMA ArchiveRefs ==
  ASSUME RefsHold, NEW S, archiveMessages(S)
  PROVE  RefsHold'
<1>1. Live' = Live
  BY DEF archiveMessages, Live
<1>2. \A j \in Live : /\ msgs'[j].replyTo = msgs[j].replyTo
                      /\ msgs'[j].fwdFrom = msgs[j].fwdFrom
                      /\ msgs'[j].to = msgs[j].to
  BY DEF archiveMessages
<1>3. QED
  BY <1>1, <1>2 DEF archiveMessages, RefsHold, SavedReferencesHold

-----------------------------------------------------------------------------
(***************************************************************************)
(* The tables as a MessageForest: what each statement does to Posts and    *)
(* Used.                                                                   *)
(***************************************************************************)
(* What hangs from the roots D goes with them, and nothing else changes.   *)
Prunes(D) ==
  /\ \E gone \in SUBSET Live :
       /\ D \subseteq gone
       /\ \A n \in Live \ gone : Posts[n].parents \intersect gone = {}
       /\ \A n \in gone \ D : Posts[n].parents \intersect gone # {}
       /\ Posts' = [n \in Live \ gone |-> Posts[n]]
  /\ Used' = Used

(* A message n is posted.                                                  *)
Gains(n, parents, home) ==
  /\ Used' = Used \union {n}
  /\ Posts' = [m \in Live \union {n} |->
                 IF m = n THEN [parents |-> parents, home |-> home]
                 ELSE Posts[m]]

LEMMA NullIsNoKey == Null \notin Keys
BY DEF Null, Keys, Tables

LEMMA RowOf ==
  ASSUME StoreTypeOK, NEW k \in Live
  PROVE  k \in Keys /\ msgs[k] \in Row
BY DEF StoreTypeOK

(* A cascade from any roots prunes the forest: it takes no more than hangs *)
(* from the roots, and the rows that stay keep what they hang from.        *)
LEMMA CascadePrunes ==
  ASSUME StoreTypeOK, NEW D, D \subseteq Live, deleteRows(D)
  PROVE  Prunes(D)
<1> DEFINE gone == Cascade(D)
<1>1. D \subseteq gone /\ gone \subseteq Live /\ Closed(gone)
  BY CascadeClosed
<1>2. Live' = Live \ gone /\ \A k \in Live' : msgs'[k] = Forget(gone, msgs[k])
  BY DEF deleteRows, Live
<1>3. \A C \in SUBSET Live : D \subseteq C /\ Closed(C) => gone \subseteq C
  BY CascadeLeast
<1>4. Used' = Used
  BY DEF Used, deleteRows
<1> HIDE DEF gone
<1>5. \A n \in Live \ gone : Parents(n) \intersect gone = {}
  BY <1>1 DEF Closed, Parents
<1>6. ASSUME NEW n \in gone \ D
      PROVE  Parents(n) \intersect gone # {}
  <2>1. SUFFICES ASSUME Parents(n) \intersect gone = {}
                 PROVE  FALSE
    OBVIOUS
  <2>2. \A p \in gone : ~FallsWith(n, p)
    BY <1>1, <2>1, RowOf DEF Parents
  <2>3. Closed(gone \ {n})
    BY <1>1, <2>2 DEF Closed
  <2>4. gone \subseteq gone \ {n}
    BY <1>1, <1>3, <2>3
  <2>5. QED
    BY <2>4
<1>7. ASSUME NEW k \in Live \ gone
      PROVE  Parents(k)' = Parents(k) /\ HomeOf(k)' = HomeOf(k)
  <2>1. msgs[k] \in Row /\ msgs'[k] = Forget(gone, msgs[k])
    BY <1>2, RowOf
  <2>2. msgs'[k].replyTo = msgs[k].replyTo /\ msgs'[k].to = msgs[k].to
    BY <2>1 DEF Forget, Row
  <2>3. msgs'[k].fwdFrom = IF msgs[k].fwdFrom \in gone THEN Null
                           ELSE msgs[k].fwdFrom
    BY <2>1 DEF Forget, Row
  <2>4. \A p \in Keys : FallsWith(k, p)' <=> FallsWith(k, p)
    <3>1. ASSUME NEW p \in Keys
          PROVE  FallsWith(k, p)' <=> FallsWith(k, p)
      <4>1. CASE msgs[k].fwdFrom \in gone
        <5>1. ~FallsWith(k, msgs[k].fwdFrom)
          BY <1>1, <4>1 DEF Closed
        <5>2. QED
          BY <2>2, <2>3, <4>1, <5>1, NullIsNoKey DEF FallsWith
      <4>2. CASE msgs[k].fwdFrom \notin gone
        BY <2>2, <2>3, <4>2 DEF FallsWith
      <4>3. QED
        BY <4>1, <4>2
    <3>2. QED
      BY <3>1
  <2>5. Parents(k)' = Parents(k)
    BY <2>4 DEF Parents, Keys, Tables
  <2>6. QED
    BY <2>2, <2>5 DEF HomeOf
<1>8. Posts' = [n \in Live \ gone |-> Posts[n]]
  BY <1>2, <1>7 DEF Posts
<1>9. QED
  BY <1>1, <1>4, <1>5, <1>6, <1>8 DEF Posts, Prunes

(* Steps that write no referring column and draw no message id leave the   *)
(* forest as it is.                                                        *)
LEMMA SameForest ==
  ASSUME Live' = Live, nextId' = nextId, groups' = groups,
         \A k \in Live : /\ msgs'[k].replyTo = msgs[k].replyTo
                         /\ msgs'[k].fwdFrom = msgs[k].fwdFrom
                         /\ msgs'[k].to = msgs[k].to
  PROVE  Posts' = Posts /\ Used' = Used
<1>1. ASSUME NEW k \in Live
      PROVE  Parents(k)' = Parents(k) /\ HomeOf(k)' = HomeOf(k)
  BY DEF Parents, HomeOf, FallsWith, Keys, Tables
<1>2. Posts' = Posts
  BY <1>1 DEF Posts
<1>3. QED
  BY <1>2 DEF Used

(* An insert posts one message under the next id, or loses that id, or     *)
(* finds the sequence exhausted and changes nothing.                       *)
LEMMA CreatePosts ==
  ASSUME StoreTypeOK, NEW t \in Tables, NEW r \in Row,
         createMessage(t, r)
  PROVE  \/ \E n \in Keys \ Used, parents \in SUBSET Live,
              home \in groups \union {Null} : Gains(n, parents, home)
         \/ \E n \in Keys \ Used : Used' = Used \union {n} /\ Posts' = Posts
         \/ Posts' = Posts /\ Used' = Used
<1>0. PICK n : n = <<t, nextId[t]>>
  OBVIOUS
<1>1. t \in Sequences /\ nextId[t] \in Nat /\ nextId[t] >= 1
  BY DEF Sequences, StoreTypeOK
<1>2. CASE Exhausted(t)
  <2>1. msgs' = msgs /\ nextId' = nextId
    BY <1>2 DEF createMessage, Draw
  <2>2. Posts' = Posts /\ Used' = Used
    BY <2>1, SameForest DEF createMessage, Live
  <2>3. QED
    BY <2>2
<1>3. CASE ~Exhausted(t)
  <2>1. n \in Keys /\ n \notin Used
    BY <1>0, <1>1, <1>3, BoundsAssumption
       DEF Exhausted, SequenceMax, Keys, Used, Tables
  <2>2. nextId' = [nextId EXCEPT ![t] = @ + 1]
    BY <1>3 DEF createMessage, Draw
  <2>3. Used' = Used \union {n}
    <3>1. ASSUME NEW k \in Keys
          PROVE  k[2] < nextId'[k[1]] <=> k[2] < nextId[k[1]] \/ k = n
      <4>1. k[1] \in Sequences /\ k[2] \in Nat /\ k = <<k[1], k[2]>>
        BY BoundsAssumption DEF Keys, Sequences
      <4>2. nextId[k[1]] \in Nat
        BY <4>1 DEF StoreTypeOK
      <4>3. CASE k[1] = t
        <5>1. nextId'[t] = nextId[t] + 1
          BY <1>1, <2>2 DEF StoreTypeOK
        <5>2. QED
          BY <1>0, <4>1, <4>2, <4>3, <5>1
      <4>4. CASE k[1] # t
        <5>1. nextId'[k[1]] = nextId[k[1]]
          BY <2>2, <4>1, <4>4 DEF StoreTypeOK
        <5>2. QED
          BY <1>0, <4>4, <5>1
      <4>5. QED
        BY <4>3, <4>4
    <3>2. QED
      BY <2>1, <3>1 DEF Used
  <2>4. CASE ~ReferencesHold(t, r)
    <3>1. msgs' = msgs
      BY <2>4 DEF createMessage
    <3>2. Posts' = Posts
      BY <3>1 DEF Posts, Parents, HomeOf, FallsWith, Live, Keys, Tables
    <3>3. QED
      BY <2>1, <2>3, <3>2
  <2>5. CASE ReferencesHold(t, r)
    <3>1. /\ Live' = Live \union {n}
          /\ msgs'[n] = r
          /\ \A k \in Live : k # n => msgs'[k] = msgs[k]
      BY <1>0, <1>3, <2>5 DEF createMessage, WithRow, Live
    <3>2. Parents(n)' \subseteq Live
      BY <2>5, <3>1, NullIsNoKey DEF Parents, FallsWith, ReferencesHold
    <3>3. HomeOf(n)' \in groups \union {Null}
      BY <1>0, <2>5, <3>1 DEF HomeOf, ReferencesHold, Tables
    <3>4. ASSUME NEW k \in Live, k # n
          PROVE  Parents(k)' = Parents(k) /\ HomeOf(k)' = HomeOf(k)
      BY <3>1, <3>4 DEF Parents, HomeOf, FallsWith, Keys, Tables
    <3>5. Posts' = [m \in Live \union {n} |->
                      IF m = n
                      THEN [parents |-> Parents(n)', home |-> HomeOf(n)']
                      ELSE Posts[m]]
      BY <3>1, <3>4 DEF Posts
    <3>6. PICK parents \in SUBSET Live, home \in groups \union {Null} :
            parents = Parents(n)' /\ home = HomeOf(n)'
      BY <3>2, <3>3
    <3>7. Gains(n, parents, home)
      BY <2>3, <3>5, <3>6 DEF Gains
    <3>8. QED
      BY <2>1, <3>7
  <2>6. QED
    BY <2>4, <2>5
<1>4. QED
  BY <1>2, <1>3

(* A message that is deleted goes with its thread; one that is gone        *)
(* already leaves the forest as it is.                                     *)
LEMMA DeletePosts ==
  ASSUME StoreTypeOK, NEW k, deleteMessage(k)
  PROVE  /\ groups' = groups
         /\ k \in Live => Prunes({k})
         /\ k \notin Live => Posts' = Posts /\ Used' = Used
<1>1. deleteRows({k} \intersect Live) /\ groups' = groups
  BY DEF deleteMessage
<1>2. CASE k \in Live
  <2>1. {k} \intersect Live = {k} /\ {k} \subseteq Live
    BY <1>2
  <2>2. QED
    BY <1>1, <1>2, <2>1, CascadePrunes
<1>3. CASE k \notin Live
  <2>1. Cascade({}) = {}
    <3>1. Closed({})
      BY DEF Closed
    <3>2. QED
      BY <3>1, CascadeLeast
  <2>2. {k} \intersect Live = {}
    BY <1>3
  <2>3. msgs' = [j \in Live |-> Forget({}, msgs[j])] /\ nextId' = nextId
    BY <1>1, <2>1, <2>2 DEF deleteRows
  <2>4. \A j \in Live : msgs'[j] = msgs[j]
    BY <2>3, RowOf DEF Forget, Row
  <2>5. Live' = Live
    BY <2>3 DEF Live
  <2>6. QED
    BY <1>1, <1>3, <2>3, <2>4, <2>5, SameForest
<1>4. QED
  BY <1>1, <1>2, <1>3

(* A group that is deleted takes its messages and their threads.           *)
LEMMA DeleteGroupPosts ==
  ASSUME StoreTypeOK, NEW g \in groups, deleteGroup(g)
  PROVE  /\ Prunes({k \in Live : Posts[k].home = g})
         /\ groups' = groups \ {g}
<1>1. PICK D : D = {k \in Live : k[1] = "group" /\ msgs[k].to = g}
  OBVIOUS
<1>2. deleteRows(D) /\ groups' = groups \ {g} /\ D \subseteq Live
  BY <1>1 DEF deleteGroup
<1>3. g # Null
  BY NullAssumption DEF StoreTypeOK
<1>4. D = {k \in Live : Posts[k].home = g}
  BY <1>1, <1>3 DEF Posts, HomeOf
<1>5. QED
  BY <1>2, <1>4, CascadePrunes

(* An update of columns no reference is kept in.                           *)
LEMMA UpdatePosts ==
  ASSUME NEW k, NEW r, UpdateRow(k, r),
         k \in Live => /\ r.replyTo = msgs[k].replyTo
                       /\ r.fwdFrom = msgs[k].fwdFrom
                       /\ r.to = msgs[k].to
  PROVE  Posts' = Posts /\ Used' = Used /\ groups' = groups
<1>1. /\ Live' = Live /\ nextId' = nextId /\ groups' = groups
      /\ \A j \in Live : /\ msgs'[j].replyTo = msgs[j].replyTo
                         /\ msgs'[j].fwdFrom = msgs[j].fwdFrom
                         /\ msgs'[j].to = msgs[j].to
  BY DEF UpdateRow, Live
<1>2. QED
  BY <1>1, SameForest

LEMMA ArchivePosts ==
  ASSUME NEW S, archiveMessages(S)
  PROVE  Posts' = Posts /\ Used' = Used /\ groups' = groups
<1>1. /\ Live' = Live /\ nextId' = nextId /\ groups' = groups
      /\ \A j \in Live : /\ msgs'[j].replyTo = msgs[j].replyTo
                         /\ msgs'[j].fwdFrom = msgs[j].fwdFrom
                         /\ msgs'[j].to = msgs[j].to
  BY DEF archiveMessages, Live
<1>2. QED
  BY <1>1, SameForest

(* The reactions and the saved messages have sequences of their own.       *)
LEMMA AttachPosts ==
  ASSUME msgs' = msgs, \A t \in Tables : nextId'[t] = nextId[t]
  PROVE  Posts' = Posts /\ Used' = Used
<1>1. Posts' = Posts
  BY DEF Posts, Parents, HomeOf, FallsWith, Live, Keys, Tables
<1>2. Used' = Used
  BY DEF Used, Keys, Tables
<1>3. QED
  BY <1>1, <1>2

LEMMA DrawElsewhere ==
  ASSUME StoreTypeOK, NEW q \in {"reaction", "saved"}, Draw(q)
  PROVE  \A t \in Tables : nextId'[t] = nextId[t]
BY DEF Draw, Tables, StoreTypeOK, Sequences

(* Whatever a message hangs from is there, and so is its group.            *)
LEMMA RefsRooted ==
  ASSUME StoreTypeOK, RefsHold
  PROVE  \A n \in Live : /\ Posts[n].parents \subseteq Live
                         /\ Posts[n].home \in groups \union {Null}
BY NullIsNoKey DEF RefsHold, Posts, Parents, HomeOf, FallsWith
=============================================================================
