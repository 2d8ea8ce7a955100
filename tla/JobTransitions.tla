--------------------------- MODULE JobTransitions ---------------------------
(***************************************************************************)
(* What the compute row promises whoever watches it: the transition table  *)
(* of docs/jobs.md over the status a researcher sees and the attempt that  *)
(* owns it.  Who makes a transition, and what it had to survive, is left   *)
(* to JobSystem, which implements this specification.                      *)
(***************************************************************************)
EXTENDS Integers

CONSTANT MaxAttempt

VARIABLES status, owner

Unowned == -1
Finished == {"failed", "completed"}

Init == status = "absent" /\ owner = Unowned

\* The row and its queue entry are created together.
Create ==
  /\ status = "absent"
  /\ status' = "queued"
  /\ UNCHANGED owner

\* A delivered attempt claims a row no newer attempt owns.  A failed row is
\* claimed only by a strictly newer attempt, a completed one never.
Claim(n) ==
  /\ \/ status \in {"queued", "running"} /\ owner <= n
     \/ status = "failed" /\ owner < n
  /\ status' = "running"
  /\ owner' = n

\* The owner reports its result or its failure.
Finish ==
  /\ status = "running"
  /\ status' \in Finished
  /\ UNCHANGED owner

\* Reconciliation fails an unfinished row that no attempt newer than k took,
\* and stamps it so that attempt k cannot claim it afterwards.
Reconcile(k) ==
  /\ status \in {"queued", "running"}
  /\ owner <= k
  /\ status' = "failed"
  /\ owner' = k

Next ==
  \/ Create \/ Finish
  \/ \E n \in 1..MaxAttempt : Claim(n)
  \/ \E k \in 0..MaxAttempt : Reconcile(k)

Spec == Init /\ [][Next]_<<status, owner>>
=============================================================================
