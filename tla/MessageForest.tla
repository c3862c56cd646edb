---------------------------- MODULE MessageForest ----------------------------
(***************************************************************************)
(* What the message tables promise about the existence of messages,        *)
(* whatever the handlers do and however their statements interleave:       *)
(*  - a message is posted once, under a name never used before, and only   *)
(*    while everything it hangs from exists;                               *)
(*  - what it hangs from never changes;                                    *)
(*  - messages go only as a whole: a private message that is removed, or a *)
(*    group that is dissolved, takes exactly what hangs from it.  No group *)
(*    message is ever removed on its own account;                          *)
(*  - a group is founded once, and one that is dissolved never comes back. *)
(***************************************************************************)
CONSTANTS
  Names,       \* the names messages can have
  Removable,   \* the names of messages that may be removed directly
  Homes,       \* the groups
  NoHome       \* the home of a message outside every group

VARIABLES
  posts,       \* for each existing message what it hangs from and its home
  used,        \* every name given to a message, or lost, so far
  homes,       \* the groups that exist
  vacant       \* the groups that may still be founded

fvars == <<posts, used, homes, vacant>>

There == DOMAIN posts

(* Any forest will do, whatever was posted and removed before.             *)
ForestInit ==
  /\ There \subseteq used /\ used \subseteq Names
  /\ \A n \in There : /\ posts[n].parents \subseteq There
                       /\ posts[n].home \in homes \union {NoHome}
  /\ homes \subseteq Homes /\ vacant \subseteq Homes \ homes

Post(n) ==
  /\ used' = used \union {n}
  /\ \E parents \in SUBSET There, home \in homes \union {NoHome} :
       posts' = [m \in There \union {n} |->
                   IF m = n THEN [parents |-> parents, home |-> home]
                   ELSE posts[m]]
  /\ UNCHANGED <<homes, vacant>>

Lose(n) ==
  /\ used' = used \union {n}
  /\ UNCHANGED <<posts, homes, vacant>>

(* "gone" is what goes when the roots go: it holds whatever hangs from one *)
(* of its members, and nothing that does not.                              *)
GoesWith(roots, gone) ==
  /\ roots \subseteq gone
  /\ \A n \in There \ gone : posts[n].parents \intersect gone = {}
  /\ \A n \in gone \ roots : posts[n].parents \intersect gone # {}

Prune(roots) ==
  /\ UNCHANGED used
  /\ \E gone \in SUBSET There :
       /\ posts' = [n \in There \ gone |-> posts[n]]
       /\ GoesWith(roots, gone)

Remove(n) ==
  /\ n \in There \intersect Removable
  /\ UNCHANGED <<homes, vacant>>
  /\ Prune({n})

Found(h) ==
  /\ h \in vacant
  /\ homes' = homes \union {h}
  /\ vacant' = vacant \ {h}
  /\ UNCHANGED <<posts, used>>

Dissolve(h) ==
  /\ h \in homes
  /\ homes' = homes \ {h}
  /\ Prune({n \in There : posts[n].home = h})
  /\ UNCHANGED vacant

ForestNext ==
  \/ \E n \in Names \ used : Post(n) \/ Lose(n)
  \/ \E n \in Names : Remove(n)
  \/ \E h \in Homes : Found(h) \/ Dissolve(h)

ForestSpec == ForestInit /\ [][ForestNext]_fvars
=============================================================================
