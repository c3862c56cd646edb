---------------------------- MODULE MCOrgGroups ----------------------------
(* Instances of OrgGroups for TLC.  Slots are interchangeable.             *)
EXTENDS OrgGroups, TLC

Symmetry == Permutations(Slots)
=============================================================================
