---------------------------- MODULE MCWorkspace ----------------------------
(* Workspace for TLC: the configurations name the deliveries and removers. *)
EXTENDS Workspace, TLC
=============================================================================
