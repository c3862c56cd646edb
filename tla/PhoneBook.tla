----------------------------- MODULE PhoneBook -----------------------------
(***************************************************************************)
(* What the tables of accounts promise about phones, whatever requests are *)
(* in flight: an account is entered under a phone nobody has and stays; it *)
(* moves to another phone only when it has wished for it and nobody has    *)
(* it; numbers are linked to an account all or none, if none is linked,    *)
(* and only their account gives them up.  A linked number may be the phone *)
(* of an account: no constraint keeps the two tables apart.                *)
(***************************************************************************)
CONSTANTS
  People,    \* the names accounts can have
  Numbers    \* phones and linked numbers

VARIABLES
  phones,  \* the phone of each account
  wishes,  \* the changes of phone asked for so far, <<account, phone>>
  linked   \* the numbers linked, <<number, account>>

pvars == <<phones, wishes, linked>>

Entered == DOMAIN phones

Free(p) == \A a \in Entered : phones[a] # p

BookInit ==
  /\ \A a, b \in Entered : phones[a] = phones[b] => a = b
  /\ wishes = {} /\ linked = {}

SignUp(a, p) ==
  /\ a \notin Entered
  /\ Free(p)
  /\ phones' = [b \in Entered \union {a} |-> IF b = a THEN p ELSE phones[b]]
  /\ UNCHANGED <<wishes, linked>>

Wish(a, p) ==
  /\ a \in Entered
  /\ wishes' = wishes \union {<<a, p>>}
  /\ UNCHANGED <<phones, linked>>

Move(a, p) ==
  /\ a \in Entered /\ <<a, p>> \in wishes
  /\ Free(p)
  /\ phones' = [phones EXCEPT ![a] = p]
  /\ UNCHANGED <<wishes, linked>>

Link(a, N) ==
  /\ a \in Entered
  /\ \A x \in linked : x[1] \notin N
  /\ linked' = linked \union (N \X {a})
  /\ UNCHANGED <<phones, wishes>>

Unlink(a, N) ==
  /\ linked' = linked \ (N \X {a})
  /\ UNCHANGED <<phones, wishes>>

BookNext ==
  \E a \in People :
    \/ \E p \in Numbers : SignUp(a, p) \/ Wish(a, p) \/ Move(a, p)
    \/ \E N \in SUBSET Numbers : Link(a, N) \/ Unlink(a, N)

BookSpec == BookInit /\ [][BookNext]_pvars
=============================================================================
