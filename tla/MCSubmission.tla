----------------------------- MODULE MCSubmission -----------------------------
(***************************************************************************)
(* Instances of Submission for TLC: the form's call, retries with the same *)
(* input, and another client with a different one.                         *)
(***************************************************************************)
EXTENDS Submission

CONSTANTS quake, other

MCInputs == {quake, other}
MCInputOf == [c \in Calls |-> IF c \in Foreign THEN other ELSE quake]
=============================================================================
