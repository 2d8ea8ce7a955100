-------------------------- MODULE MCOutputRetention --------------------------
(***************************************************************************)
(* Instances of OutputRetention for TLC.                                   *)
(***************************************************************************)
EXTENDS OutputRetention
=============================================================================
