---------------------------- MODULE GroupRoster ----------------------------
(***************************************************************************)
(* What the tables of groups promise, whatever requests are in flight:     *)
(*  - a group is opened once, under a name never used before, for an org   *)
(*    that exists or for none, and closes only when nobody is in it or     *)
(*    administers it and no poll is asked in it;                           *)
(*  - it keeps its org as long as that exists, and is without one after;   *)
(*  - people who are in a group only leave it, administrators stay;        *)
(*  - a person is connected to an org once, with one group opened in the   *)
(*    same step, for ever, and an org somebody is connected to stays;      *)
(*  - a poll goes only without votes, and everybody has one vote in it.    *)
(***************************************************************************)
CONSTANTS
  Groups,    \* the names groups can have
  Polls,     \* the names polls can have
  Orgs,      \* the orgs
  People,
  Options,   \* what a vote may be for
  NoOrg      \* the org of a group outside every org

VARIABLES
  live,      \* the orgs that exist
  open,      \* the groups that exist, with org and whether they connect
  used,      \* every group opened so far
  inside,    \* who is in which group, <<group, person>>
  heads,     \* who administers which group, <<group, person>>
  linked,    \* who is connected to which org, <<org, person>>
  polls,     \* the group of each poll that exists
  asked,     \* every poll asked so far
  votes      \* the votes, <<poll, voter, option>>

rvars == <<live, open, used, inside, heads, linked, polls, asked, votes>>

AnOrg == live \union {NoOrg}

(* Any roster will do whose parts fit.                                     *)
RosterInit ==
  /\ live \subseteq Orgs /\ DOMAIN open \subseteq used
  /\ \A g \in DOMAIN open : open[g].org \in AnOrg
  /\ \A r \in inside \union heads : r[1] \in DOMAIN open
  /\ \A r \in linked : r[1] \in live
  /\ DOMAIN polls \subseteq asked
  /\ \A q \in DOMAIN polls : polls[q] \in DOMAIN open
  /\ \A v \in votes : v[1] \in DOMAIN polls
  /\ \A v, w \in votes : v[1] = w[1] /\ v[2] = w[2] => v = w

With(f, x, y) == [z \in DOMAIN f \union {x} |-> IF z = x THEN y ELSE f[z]]
Without(f, x) == [z \in DOMAIN f \ {x} |-> f[z]]

-----------------------------------------------------------------------------
Opened(g, o, connects) ==
  /\ g \notin used
  /\ used' = used \union {g}
  /\ open' = With(open, g, [org |-> o, connects |-> connects])
  /\ UNCHANGED <<live, inside, heads, polls, asked, votes>>

Open(g, o) == o \in AnOrg /\ Opened(g, o, FALSE) /\ UNCHANGED linked

Connect(g, o, p) ==
  /\ o \in live /\ <<o, p>> \notin linked
  /\ linked' = linked \union {<<o, p>>}
  /\ Opened(g, o, TRUE)

Close(g) ==
  /\ g \in DOMAIN open
  /\ \A r \in inside \union heads : r[1] # g
  /\ \A q \in DOMAIN polls : polls[q] # g
  /\ open' = Without(open, g)
  /\ UNCHANGED <<live, used, inside, heads, linked, polls, asked, votes>>

Leave(g, who) ==
  /\ inside' = inside \ ({g} \X who)
  /\ UNCHANGED <<live, open, used, heads, linked, polls, asked, votes>>

Appoint(g, p) ==
  /\ g \in DOMAIN open
  /\ heads' = heads \union {<<g, p>>}
  /\ UNCHANGED <<live, open, used, inside, linked, polls, asked, votes>>

Ask(q, g) ==
  /\ q \notin asked /\ g \in DOMAIN open
  /\ asked' = asked \union {q}
  /\ polls' = With(polls, q, g)
  /\ UNCHANGED <<live, open, used, inside, heads, linked, votes>>

Withdraw(q) ==
  /\ q \in DOMAIN polls /\ \A v \in votes : v[1] # q
  /\ polls' = Without(polls, q)
  /\ UNCHANGED <<live, open, used, inside, heads, linked, asked, votes>>

Vote(q, p, option) ==
  /\ q \in DOMAIN polls
  /\ \A v \in votes : v[1] # q \/ v[2] # p
  /\ votes' = votes \union {<<q, p, option>>}
  /\ UNCHANGED <<live, open, used, inside, heads, linked, polls, asked>>

Retract(v) ==
  /\ votes' = votes \ {v}
  /\ UNCHANGED <<live, open, used, inside, heads, linked, polls, asked>>

Dissolve(o) ==
  /\ o \in live /\ \A r \in linked : r[1] # o
  /\ live' = live \ {o}
  /\ open' = [g \in DOMAIN open |->
                IF open[g].org = o THEN [open[g] EXCEPT !.org = NoOrg]
                ELSE open[g]]
  /\ UNCHANGED <<used, inside, heads, linked, polls, asked, votes>>

RosterNext ==
  \/ \E g \in Groups :
       \/ \E o \in Orgs \union {NoOrg} : Open(g, o)
       \/ \E o \in Orgs, p \in People : Connect(g, o, p)
       \/ Close(g)
       \/ \E who \in SUBSET People : Leave(g, who)
       \/ \E p \in People : Appoint(g, p)
  \/ \E q \in Polls :
       \/ \E g \in Groups : Ask(q, g)
       \/ Withdraw(q)
       \/ \E p \in People, option \in Options : Vote(q, p, option)
  \/ \E v \in votes : Retract(v)
  \/ \E o \in Orgs : Dissolve(o)

RosterSpec == RosterInit /\ [][RosterNext]_rvars
=============================================================================
