-------------------------- MODULE MCRoleProvisioning --------------------------
(* Instances of RoleProvisioning for TLC. *)
EXTENDS RoleProvisioning, TLC

MCSymmetry == Permutations(Names \ Protected)
=============================================================================
