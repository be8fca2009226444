------------------------------ MODULE MCOrgOwners ------------------------------
(* Small instances of OrgOwners.                                             *)
EXTENDS OrgOwners, TLC

Requests == Permutations(Request)
=============================================================================
