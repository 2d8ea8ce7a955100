----------------------------- MODULE Repository -----------------------------
(***************************************************************************)
(* The compute.jobs row of one simulation, and the statements of           *)
(* packages/api/api/core/repository.py that change it.  Every statement is *)
(* keyed by the row's id and commits alone, so each is a guard (the WHERE  *)
(* clause) and an effect (the SET list) on one row.                        *)
(*                                                                         *)
(* Kept of the row: the status, owner_attempt (NULL is NoOwner), whether   *)
(* finished_at is set, and where the error came from.  Texts, progress     *)
(* columns and time stamps are left out: no statement is guarded by them.  *)
(***************************************************************************)
EXTENDS Integers

NoOwner == -1

\* TERMINAL_STATUSES of core/lifecycle.py.
TerminalStatuses == {"failed", "completed"}

\* "absent" is the row before create_or_get_job inserted it.
Statuses == {"absent", "queued", "running"} \cup TerminalStatuses

\* compute.jobs rows for attempt numbers up to `top`.
Rows(top) ==
  [status: Statuses, owner: {NoOwner} \cup 0..top,
   finished: {"null", "set"}, error: {"null", "run", "reconciled"}]

Row(status, owner, finished, error) ==
  [status |-> status, owner |-> owner, finished |-> finished, error |-> error]

AbsentRow == Row("absent", NoOwner, "null", "null")

\* create_or_get_job: the INSERT.  A second request finds the row and changes
\* nothing (ON CONFLICT DO NOTHING).
QueuedRow == Row("queued", NoOwner, "null", "null")

-----------------------------------------------------------------------------
(* mark_started *)

MayClaimSuperseded(j, n) ==
  /\ j.status # "completed"
  /\ j.status = "failed" => (j.owner = NoOwner \/ j.owner < n)

MayClaim(j, n) ==
  /\ j.status # "absent"
  /\ j.owner = NoOwner \/ j.owner <= n
  /\ j.status # "completed"
  /\ j.status = "failed" => (j.owner = NoOwner \/ j.owner < n)

ClaimedOffByOne(j, n) == Row("running", n + 1, "null", "null")

ClaimedKeepingError(j, n) == Row("running", n, j.finished, j.error)

Claimed(j, n) == Row("running", n, "null", "null")

-----------------------------------------------------------------------------
(* record_progress, record_failure and complete_job: an attempt's own writes *)

MayProgress(j, n) == j.owner = n /\ j.status \notin TerminalStatuses

Progressed(j) == Row("running", j.owner, j.finished, j.error)

MayFail(j, n) == j.owner = n /\ j.status \notin TerminalStatuses

FailedByRun(j) == Row("failed", j.owner, "set", "run")

MayCompleteUnfenced(j, n) == j.status \notin TerminalStatuses

MayComplete(j, n) == j.owner = n /\ j.status \notin TerminalStatuses

Completed(j) == Row("completed", j.owner, "set", "null")

-----------------------------------------------------------------------------
(* reconcile_terminal_jobs, for a queue row that gave up at attempt k *)

MayReconcileNewer(j, k) == j.status \notin TerminalStatuses

MayReconcileFinished(j, k) == j.owner = NoOwner \/ j.owner <= k

MayReconcileOwnedOnly(j, k) ==
  j.status \notin TerminalStatuses /\ j.owner # NoOwner /\ j.owner <= k

MayReconcile(j, k) ==
  /\ j.status \notin TerminalStatuses
  /\ j.owner = NoOwner \/ j.owner <= k

\* GREATEST(COALESCE(owner_attempt, 0), k).
ReconciledOwner(j, k) ==
  LET owner == IF j.owner = NoOwner THEN 0 ELSE j.owner
  IN  IF owner >= k THEN owner ELSE k

ReconciledUnstamped(j, k) == Row("failed", j.owner, "set", "reconciled")

Reconciled(j, k) == Row("failed", ReconciledOwner(j, k), "set", "reconciled")
=============================================================================
