--------------------------- MODULE MCChatGateway ---------------------------
(* An instance of ChatGateway for TLC: a group of an org and a personal    *)
(* group.                                                                  *)
EXTENDS ChatGateway

CONSTANTS u1, u2, u3, o1, g1, g2

MCOrgOf     == [g \in {g1, g2} |-> IF g = g1 THEN o1 ELSE Nobody]
MCCreatedBy == [g \in {g1, g2} |-> IF g = g1 THEN Nobody ELSE u1]
=============================================================================
