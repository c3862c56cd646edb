------------------------------ MODULE MCTasks ------------------------------
(* Instances of Tasks for TLC: the client owns the personal group, somebody *)
(* else the org of the other one.                                          *)
EXTENDS Tasks, TLC

CONSTANTS boss, client

MCOwnerOf == [g \in Groups |-> IF g \in OrgGroups THEN boss ELSE client]

Symmetry == Permutations(Slots)
=============================================================================
