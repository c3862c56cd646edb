-------------------------- MODULE MCOrgMembership --------------------------
(* Instances of OrgMembership for TLC.                                     *)
EXTENDS OrgMembership, TLC
=============================================================================
