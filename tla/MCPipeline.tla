----------------------------- MODULE MCPipeline -----------------------------
(* Pipeline for TLC: four steps are every kind of step there is. *)
EXTENDS Pipeline

\* Files written in several pieces, the checkpoint, and a step in place that
\* reads their results.
MCSteps == <<"fault_plane", "deform", "tsunami", "maxola">>
=============================================================================
