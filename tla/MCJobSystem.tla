---------------------------- MODULE MCJobSystem ----------------------------
(* JobSystem for TLC: where the deliveries of the simulation land. *)
EXTENDS JobSystem, TLC

\* One worker host, as in the compose deployment.
OneHost == [n \in Attempts |-> "h1"]
=============================================================================
