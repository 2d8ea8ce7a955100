----------------------------- MODULE MCDeployment -----------------------------
(* An old release with one migration and one table, a new one with two. *)
EXTENDS Deployment

CONSTANTS old, new, users, simulations

MCFilesOf == [s \in Stacks |-> IF s = old THEN {1} ELSE {1, 2}]
MCTablesOf == [s \in Stacks |-> IF s = old THEN {users} ELSE {users, simulations}]
=============================================================================
