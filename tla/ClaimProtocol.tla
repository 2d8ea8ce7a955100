---------------------------- MODULE ClaimProtocol ----------------------------
(***************************************************************************)
(* What a workspace claim promises (docs/jobs.md, WorkspaceClaim in        *)
(* packages/api/api/core/tasks.py): one party at a time holds the          *)
(* workspace, a kernel thread is inside only while its party holds it, and *)
(* the party lets go when the thread and the coroutine have both left, in  *)
(* whichever order.  Taking it is one step.                                *)
(*                                                                         *)
(* Workspace implements this with open, flock, close and a count of        *)
(* shares, JobSystem with one step for each of the operations.             *)
(***************************************************************************)
CONSTANT Parties

VARIABLES
  holders,   \* who holds the workspace
  inside     \* whose kernel thread is in it

Init == holders = {} /\ inside = {}

\* A claim is given only when nobody has one.
Take(p) ==
  /\ holders = {}
  /\ holders' = {p}
  /\ UNCHANGED inside

Enter(p) ==
  /\ p \in holders
  /\ inside' = inside \cup {p}
  /\ UNCHANGED holders

\* The thread leaves, or dies; the last of the two sides lets go.
Leave(p) ==
  /\ p \in inside
  /\ inside' = inside \ {p}
  /\ holders' \in {holders, holders \ {p}}

\* Letting go with no thread inside.
Give(p) ==
  /\ p \in holders \ inside
  /\ holders' = holders \ {p}
  /\ UNCHANGED inside

Next == \E p \in Parties : Take(p) \/ Enter(p) \/ Leave(p) \/ Give(p)

Spec == Init /\ [][Next]_<<holders, inside>>

\* What the protocol is for: one holder, and no kernel outside a claim.
Exclusive == (\A p, q \in holders : p = q) /\ inside \subseteq holders
=============================================================================
