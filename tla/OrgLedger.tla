----------------------------- MODULE OrgLedger -----------------------------
(***************************************************************************)
(* What the tables of organisations promise, whatever the handlers do and  *)
(* however their statements interleave:                                    *)
(*  - an org is founded once, under a name never used before, and has one  *)
(*    owner for as long as it exists;                                      *)
(*  - it is dissolved only when it has no member and no claim is open;     *)
(*  - people join and leave one org at a time, join only an org that       *)
(*    exists and that they are not in, and those entered together all join *)
(*    or none does;                                                        *)
(*  - a claim (an invitation, a transfer) is made once, under a new name,  *)
(*    and what it is about never changes.                                  *)
(***************************************************************************)
CONSTANTS
  OrgNames,      \* the names orgs can have
  ClaimNames,    \* the names claims can have
  Folk           \* the people

VARIABLES
  owner,     \* the owner of each org that exists
  founded,   \* every name given to an org so far
  roll,      \* the memberships <<org, person>>
  claims,    \* for each open claim the org and the person it is about
  claimed    \* every name given to a claim, or lost, so far

lvars == <<owner, founded, roll, claims, claimed>>

Standing == DOMAIN owner

LedgerInit ==
  /\ owner = [o \in {} |-> 0]
  /\ founded = {}
  /\ roll = {}
  /\ claims = [n \in {} |-> 0]
  /\ claimed = {}

Found(o, p) ==
  /\ o \notin founded
  /\ founded' = founded \union {o}
  /\ owner' = [q \in Standing \union {o} |-> IF q = o THEN p ELSE owner[q]]
  /\ UNCHANGED <<roll, claims, claimed>>

Dissolve(o) ==
  /\ o \in Standing
  /\ \A p \in Folk : <<o, p>> \notin roll
  /\ \A n \in DOMAIN claims : claims[n].org # o
  /\ owner' = [q \in Standing \ {o} |-> owner[q]]
  /\ UNCHANGED <<founded, roll, claims, claimed>>

Join(o, people) ==
  /\ o \in Standing
  /\ \A p \in people : <<o, p>> \notin roll
  /\ roll' = roll \union ({o} \X people)
  /\ UNCHANGED <<owner, founded, claims, claimed>>

Leave(o, people) ==
  /\ roll' = roll \ ({o} \X people)
  /\ UNCHANGED <<owner, founded, claims, claimed>>

(* Several claims of one org may be made at once.                          *)
Claim(o, names, about) ==
  /\ o \in Standing
  /\ names \intersect claimed = {}
  /\ claimed' = claimed \union names
  /\ claims' = [n \in DOMAIN claims \union names |->
                  IF n \in names THEN [org |-> o, about |-> about[n]]
                  ELSE claims[n]]
  /\ UNCHANGED <<owner, founded, roll>>

Lose(names) ==
  /\ names \intersect claimed = {}
  /\ claimed' = claimed \union names
  /\ UNCHANGED <<owner, founded, roll, claims>>

Withdraw(n) ==
  /\ n \in DOMAIN claims
  /\ claims' = [m \in DOMAIN claims \ {n} |-> claims[m]]
  /\ UNCHANGED <<owner, founded, roll, claimed>>

LedgerNext ==
  \/ \E o \in OrgNames :
       \/ \E p \in Folk : Found(o, p)
       \/ Dissolve(o)
       \/ \E people \in SUBSET Folk : Join(o, people) \/ Leave(o, people)
       \/ \E names \in SUBSET ClaimNames :
            \E about \in [names -> Folk] : Claim(o, names, about)
  \/ \E names \in SUBSET ClaimNames : Lose(names)
  \/ \E n \in ClaimNames : Withdraw(n)

LedgerSpec == LedgerInit /\ [][LedgerNext]_lvars
=============================================================================
