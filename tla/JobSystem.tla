------------------------------ MODULE JobSystem ------------------------------
(***************************************************************************)
(* One simulation in the stores that describe it: its compute.jobs row     *)
(* (Repository), its queue row (TaskQueue), the objects of its result, and *)
(* the workers that run its deliveries (run_simulation_task in             *)
(* packages/api/api/core/tasks.py).  Statements are keyed by the job, so   *)
(* simulations do not interact and one is enough.                          *)
(*                                                                         *)
(* A delivery is named by the attempt number its lease gave it.  Its       *)
(* coroutine and its kernel thread step independently, the thread can      *)
(* outlive the coroutine, and deliveries overlap: an attempt that lost its *)
(* lease runs on until something stops it.                                 *)
(***************************************************************************)
EXTENDS Repository, TaskQueue

CONSTANTS
  MaxAttempt,    \* bound: no more deliveries than this
  Budget,        \* MAX_ATTEMPTS, the budget the producer stamps on the row
  MaxRetries,    \* bound: operator retries
  HostOf,        \* the host each delivery lands on
  Reconcilers    \* worker processes whose reconciliation pass runs

Attempts == 1..MaxAttempt
NoSnapshot == -1

ASSUME BoundsAssumption ==
  /\ MaxAttempt \in Nat \ {0}
  /\ Budget \in Attempts
  /\ MaxRetries \in Nat

VARIABLES
  job,       \* the compute.jobs row
  queue,     \* the task_queue.jobs row
  pc,        \* where each attempt's coroutine is
  thread,    \* what each attempt's kernel or upload thread is doing
  outcome,   \* the outcome an attempt carries to rqueue
  budget,    \* the max_attempts in each attempt's TaskContext
  uploaded,  \* attempts that stored the complete set of result objects
  snapshot,  \* the queue attempt each reconciliation statement has read
  purge,     \* whether the purge pass has preselected the queue row
  retries    \* operator retries so far

vars == <<job, queue, pc, thread, outcome, budget, uploaded, snapshot, purge, retries>>
attemptVars == <<pc, thread, outcome, budget, uploaded>>
passVars == <<snapshot, purge>>

\* Coroutine positions.  "fetch": before mark_started returned; "refused":
\* _stand_down; "claim": before the workspace claim; "kernel": awaiting the
\* kernel thread; "upload" and "record": inside complete_job; "cleanup":
\* removing the workspace; "fail": _record_failure; "report": back in rqueue.
PCs == {"idle", "fetch", "refused", "claim", "kernel", "upload", "record",
        "cleanup", "fail", "report", "ended"}

\* "progress" is blocked in run_coroutine_threadsafe(...).result().
Threads == {"none", "queued", "running", "progress", "uploading", "ended"}

Errors == {"transient", "permanent"}
Outcomes == {"none", "succeeded", "cancelled"} \cup Errors

TypeOK ==
  /\ job \in Rows(MaxAttempt)
  /\ queue \in Tasks(MaxAttempt)
  /\ pc \in [Attempts -> PCs]
  /\ thread \in [Attempts -> Threads]
  /\ outcome \in [Attempts -> Outcomes]
  /\ budget \in [Attempts -> 0..MaxAttempt]
  /\ uploaded \in SUBSET Attempts
  /\ snapshot \in [Reconcilers -> {NoSnapshot} \cup 0..MaxAttempt]
  /\ purge \in {"idle", "selected"}
  /\ retries \in 0..MaxRetries

Init ==
  /\ job = AbsentRow
  /\ queue = AbsentTask
  /\ pc = [n \in Attempts |-> "idle"]
  /\ thread = [n \in Attempts |-> "none"]
  /\ outcome = [n \in Attempts |-> "none"]
  /\ budget = [n \in Attempts |-> 0]
  /\ uploaded = {}
  /\ snapshot = [r \in Reconcilers |-> NoSnapshot]
  /\ purge = "idle"
  /\ retries = 0

-----------------------------------------------------------------------------
(* Helpers *)

\* The coroutine of n moves to p, carrying outcome o.
Goto(n, p, o) ==
  /\ pc' = [pc EXCEPT ![n] = p]
  /\ outcome' = [outcome EXCEPT ![n] = o]

\* WorkspaceClaim: the kernel thread's share lasts while the thread runs, the
\* coroutine's from the claim to the end of its try block.
HoldsWorkspace(n) ==
  \/ thread[n] \in {"running", "progress"}
  \/ pc[n] \in {"kernel", "upload", "record", "fail"} /\ thread[n] # "none"

WorkspaceFree(n) ==
  \A m \in Attempts : HostOf[m] = HostOf[n] => ~HoldsWorkspace(m)

\* context.will_retry, and the decision rqueue makes from the same facts.
WillRetry(n) == outcome[n] = "transient" /\ n < budget[n]

-----------------------------------------------------------------------------
(* The producer *)

\* create_or_get_job: the row and its queue entry commit together.
Submit ==
  /\ job.status = "absent"
  /\ job' = QueuedRow
  /\ queue' = EnqueuedTask(Budget)
  /\ UNCHANGED <<attemptVars, passVars, retries>>

-----------------------------------------------------------------------------
(* run_simulation_task: the coroutine of attempt n *)

LeaseJob(n) ==
  /\ queue.state = "pending"
  /\ n = queue.attempt + 1
  /\ queue' = LeasedTask(queue)
  /\ Goto(n, "fetch", "none")
  /\ budget' = [budget EXCEPT ![n] = queue.max]
  /\ UNCHANGED <<job, thread, uploaded, passVars, retries>>

\* The SELECT, the payload's validation or mark_started raises and nothing is
\* written; no handler of the task covers these, so no failure is recorded.
StartFails(n) ==
  /\ pc[n] = "fetch"
  /\ \E e \in Errors : Goto(n, "report", e)
  /\ UNCHANGED <<job, queue, thread, budget, uploaded, passVars, retries>>

\* mark_started.  The commit can succeed and its acknowledgement be lost.
MarkStarted(n) ==
  /\ pc[n] = "fetch"
  /\ \/ /\ MayClaim(job, n)
        /\ job' = Claimed(job, n)
        /\ Goto(n, "claim", "none") \/ Goto(n, "report", "transient")
     \/ /\ ~MayClaim(job, n)
        /\ Goto(n, "refused", "none")
        /\ UNCHANGED job
  /\ UNCHANGED <<queue, thread, budget, uploaded, passVars, retries>>

\* _stand_down: a redelivery of a completed job returns, any other raises
\* CancelJob; the fetch itself may fail.
StandDown(n) ==
  /\ pc[n] = "refused"
  /\ \/ Goto(n, "report", IF job.status = "completed" THEN "succeeded"
                                                      ELSE "cancelled")
     \/ \E e \in Errors : Goto(n, "report", e)
  /\ UNCHANGED <<job, queue, thread, budget, uploaded, passVars, retries>>

\* claim_workspace: a held lock is a transient error (a remover can hold it
\* too), any other OSError a permanent one.
ClaimWorkspace(n) ==
  /\ pc[n] = "claim"
  /\ \/ /\ WorkspaceFree(n)
        /\ Goto(n, "kernel", "none")
        /\ thread' = [thread EXCEPT ![n] = "queued"]
     \/ /\ \E e \in Errors : Goto(n, "fail", e)
        /\ UNCHANGED thread
  /\ UNCHANGED <<job, queue, budget, uploaded, passVars, retries>>

\* complete_job, the UPDATE after the upload.
CompleteJob(n) ==
  /\ pc[n] = "record"
  /\ \/ /\ MayComplete(job, n)
        /\ job' = Completed(job)
        /\ Goto(n, "cleanup", "none") \/ Goto(n, "fail", "transient")
     \/ /\ ~MayComplete(job, n)
        /\ Goto(n, "report", "cancelled")
        /\ UNCHANGED job
     \/ /\ \E e \in Errors : Goto(n, "fail", e)
        /\ UNCHANGED job
  /\ UNCHANGED <<queue, thread, budget, uploaded, passVars, retries>>

RemoveFinishedWorkspace(n) ==
  /\ pc[n] = "cleanup"
  /\ Goto(n, "report", "succeeded")
  /\ UNCHANGED <<job, queue, thread, budget, uploaded, passVars, retries>>

\* _record_failure: the retry decision is rqueue's; a refused or failed write
\* is swallowed and the exception goes on.
RecordFailure(n) ==
  /\ pc[n] = "fail"
  /\ \/ /\ ~WillRetry(n) /\ MayFail(job, n)
        /\ job' = FailedByRun(job)
     \/ UNCHANGED job
  /\ Goto(n, "report", outcome[n])
  /\ UNCHANGED <<queue, thread, budget, uploaded, passVars, retries>>

\* rqueue records the handler's outcome if the attempt still has its lease.
Report(n) ==
  /\ pc[n] = "report"
  /\ queue' = IF ~HoldsLease(queue, n) THEN queue
              ELSE IF WillRetry(n) THEN PendingTask(queue, queue.max)
              ELSE SettledTask(queue, IF outcome[n] \in {"succeeded", "cancelled"}
                                      THEN outcome[n] ELSE "failed")
  /\ Goto(n, "ended", "none")
  /\ UNCHANGED <<job, thread, budget, uploaded, passVars, retries>>

-----------------------------------------------------------------------------
(* run_kernel: the thread of attempt n *)

\* run_kernel_if_not_cancelled enters run_kernel.
KernelStarts(n) ==
  /\ thread[n] = "queued"
  /\ thread' = [thread EXCEPT ![n] = "running"]
  /\ UNCHANGED <<job, queue, pc, outcome, budget, uploaded, passVars, retries>>

\* on_progress schedules its write on the loop and blocks.
SubmitProgress(n) ==
  /\ thread[n] = "running" /\ pc[n] = "kernel"
  /\ thread' = [thread EXCEPT ![n] = "progress"]
  /\ UNCHANGED <<job, queue, pc, outcome, budget, uploaded, passVars, retries>>

\* The thread ends; a coroutine still awaiting it at `at` moves to p with
\* outcome o.
ThreadEnds(n, at, p, o) ==
  /\ thread' = [thread EXCEPT ![n] = "ended"]
  /\ IF pc[n] = at THEN Goto(n, p, o) ELSE UNCHANGED <<pc, outcome>>

\* _write_progress runs on the loop even when the coroutine is gone.  A
\* refused write raises AbandonedAttempt in the thread, an error surfaces in
\* the simulation; an error can follow a commit.
WriteProgress(n) ==
  /\ thread[n] = "progress"
  /\ \/ /\ MayProgress(job, n)
        /\ job' = Progressed(job)
        /\ \/ /\ thread' = [thread EXCEPT ![n] = "running"]
              /\ UNCHANGED <<pc, outcome>>
           \/ ThreadEnds(n, "kernel", "fail", "transient")
     \/ /\ ~MayProgress(job, n)
        /\ ThreadEnds(n, "kernel", "report", "cancelled")
        /\ UNCHANGED job
     \/ /\ \E e \in Errors : ThreadEnds(n, "kernel", "fail", e)
        /\ UNCHANGED job
  /\ UNCHANGED <<queue, budget, uploaded, passVars, retries>>

\* run_simulation returned: complete_job hands the upload to a thread.
KernelReturns(n) ==
  /\ thread[n] = "running" /\ pc[n] = "kernel"
  /\ Goto(n, "upload", "none")
  /\ thread' = [thread EXCEPT ![n] = "uploading"]
  /\ UNCHANGED <<job, queue, budget, uploaded, passVars, retries>>

\* run_simulation raised, or a thread nobody awaits finished or found the
\* abandoned event set at a step boundary.
KernelStops(n) ==
  /\ thread[n] = "running"
  /\ ThreadEnds(n, "kernel", "fail", "permanent")
  /\ UNCHANGED <<job, queue, budget, uploaded, passVars, retries>>

\* upload_simulation_result stores every object, or raises.
Upload(n) ==
  /\ thread[n] = "uploading"
  /\ \/ /\ ThreadEnds(n, "upload", "record", "none")
        /\ uploaded' = uploaded \cup {n}
     \/ /\ \E e \in Errors : ThreadEnds(n, "upload", "fail", e)
        /\ UNCHANGED uploaded
  /\ UNCHANGED <<job, queue, budget, passVars, retries>>

-----------------------------------------------------------------------------
(* Lost leases, cancellation, crashes and operators *)

\* An await of the task is interrupted.  A kernel that had not started never
\* will; a started kernel or upload thread runs on.
CancelCoroutine(n) ==
  /\ pc[n] \in PCs \ {"idle", "report", "ended"}
  /\ Goto(n, "ended", "none")
  /\ thread' = IF thread[n] = "queued" THEN [thread EXCEPT ![n] = "none"]
                                       ELSE thread

\* The heartbeat finds the lease lost and cancels the task.
CancelLostLease(n) ==
  /\ ~HoldsLease(queue, n)
  /\ CancelCoroutine(n)
  /\ UNCHANGED <<job, queue, budget, uploaded, passVars, retries>>

\* worker.stop: the task is cancelled and its claim goes back to the queue.
StopWorker(n) ==
  /\ HoldsLease(queue, n)
  /\ n < MaxAttempt
  /\ CancelCoroutine(n)
  /\ queue' = ReturnedTask(queue)
  /\ UNCHANGED <<job, budget, uploaded, passVars, retries>>

\* The process dies (os._exit after a stop included) and takes its threads.
Crash(n) ==
  /\ pc[n] \notin {"idle", "ended"} \/ thread[n] \notin {"none", "ended"}
  /\ Goto(n, "ended", "none")
  /\ thread' = [thread EXCEPT ![n] = "ended"]
  /\ UNCHANGED <<job, queue, budget, uploaded, passVars, retries>>

\* A lease not renewed in time, whether or not its holder is alive.
ExpireLease ==
  /\ queue.state = "leased"
  /\ queue' = RecoveredTask(queue)
  /\ UNCHANGED <<job, attemptVars, passVars, retries>>

\* Admin.retry_job.
OperatorRetry ==
  /\ queue.state \in TerminalStates
  /\ retries < MaxRetries
  /\ \E max \in Attempts :
       max > queue.attempt /\ max >= queue.max /\ queue' = RetriedTask(queue, max)
  /\ retries' = retries + 1
  /\ UNCHANGED <<job, attemptVars, passVars>>

OperatorCancel ==
  /\ queue.state = "pending"
  /\ queue' = SettledTask(queue, "cancelled")
  /\ UNCHANGED <<job, attemptVars, passVars, retries>>

-----------------------------------------------------------------------------
(* Maintenance passes and time *)

PassGrace ==
  /\ queue.state \in TerminalStates /\ queue.age = "fresh"
  /\ queue' = AgedTask(queue, "grace")
  /\ UNCHANGED <<job, attemptVars, passVars, retries>>

\* JOB_RETENTION outlasts every delivery that has yet to reach mark_started.
PassRetention ==
  /\ queue.state \in TerminalStates /\ queue.age = "grace"
  /\ \A n \in Attempts : pc[n] # "fetch"
  /\ queue' = AgedTask(queue, "old")
  /\ UNCHANGED <<job, attemptVars, passVars, retries>>

\* The statement's view of the queue row: gave_up, read once.  READ COMMITTED
\* looks only at compute rows that qualify in that view.
ReconcileRead(r) ==
  /\ snapshot[r] = NoSnapshot
  /\ queue.state \in GaveUpStates /\ queue.age # "fresh"
  /\ MayReconcile(job, queue.attempt)
  /\ snapshot' = [snapshot EXCEPT ![r] = queue.attempt]
  /\ UNCHANGED <<job, queue, attemptVars, purge, retries>>

\* The UPDATE, once it holds the row lock: the guard is evaluated again.
ReconcileWrite(r) ==
  /\ snapshot[r] # NoSnapshot
  /\ job' = IF MayReconcile(job, snapshot[r])
            THEN Reconciled(job, snapshot[r]) ELSE job
  /\ snapshot' = [snapshot EXCEPT ![r] = NoSnapshot]
  /\ UNCHANGED <<queue, attemptVars, purge, retries>>

\* The pass raises or its worker dies; the loop runs it again later.
ReconcileAborts(r) ==
  /\ snapshot[r] # NoSnapshot
  /\ snapshot' = [snapshot EXCEPT ![r] = NoSnapshot]
  /\ UNCHANGED <<job, queue, attemptVars, purge, retries>>

Purgeable == queue.state \in TerminalStates /\ queue.age = "old"

\* _eligible_queue_job_ids.
PurgeSelect ==
  /\ purge = "idle"
  /\ Purgeable /\ job.status \in TerminalStatuses
  /\ purge' = "selected"
  /\ UNCHANGED <<job, queue, attemptVars, snapshot, retries>>

MayPurgeQueueOnly == Purgeable

\* The DELETE under the purger's row policy, which checks all of it again.
MayPurge == Purgeable /\ job.status \in TerminalStatuses

PurgeDelete ==
  /\ purge = "selected"
  /\ queue' = IF MayPurge THEN PurgedTask(queue) ELSE queue
  /\ purge' = "idle"
  /\ UNCHANGED <<job, attemptVars, snapshot, retries>>

-----------------------------------------------------------------------------

Coroutine(n) ==
  \/ StartFails(n) \/ MarkStarted(n) \/ StandDown(n) \/ ClaimWorkspace(n)
  \/ CompleteJob(n) \/ RemoveFinishedWorkspace(n) \/ RecordFailure(n) \/ Report(n)

Kernel(n) ==
  \/ KernelStarts(n) \/ SubmitProgress(n) \/ WriteProgress(n)
  \/ KernelReturns(n) \/ KernelStops(n) \/ Upload(n)

Fault(n) == CancelLostLease(n) \/ StopWorker(n) \/ Crash(n)

Attempt(n) == LeaseJob(n) \/ Coroutine(n) \/ Kernel(n) \/ Fault(n)

Reconcile(r) == ReconcileRead(r) \/ ReconcileWrite(r) \/ ReconcileAborts(r)

Next ==
  \/ Submit
  \/ \E n \in Attempts : Attempt(n)
  \/ \E r \in Reconcilers : Reconcile(r)
  \/ ExpireLease \/ OperatorRetry \/ OperatorCancel
  \/ PassGrace \/ PassRetention \/ PurgeSelect \/ PurgeDelete

Spec == Init /\ [][Next]_vars

(***************************************************************************)
(* Fairness.  Workers poll, the event loop runs what is ready and every    *)
(* statement returns or raises: weak fairness of leasing, of the coroutine *)
(* and of the thread.  A simulation has finitely many steps, so a kernel   *)
(* that keeps reporting progress also ends: strong fairness.  A dead       *)
(* holder's lease expires.  The reconciliation loop survives its failures  *)
(* and does not fail forever: strong fairness of its write.  Nothing is    *)
(* assumed of operators, crashes, retention or the leases of live holders. *)
(***************************************************************************)
ExpireDeadLease ==
  /\ \A n \in Attempts : HoldsLease(queue, n) => pc[n] = "ended"
  /\ ExpireLease

Fairness ==
  /\ \A n \in Attempts :
       /\ WF_vars(LeaseJob(n)) /\ WF_vars(Coroutine(n)) /\ WF_vars(Kernel(n))
       /\ SF_vars(KernelReturns(n) \/ KernelStops(n))
  /\ WF_vars(ExpireDeadLease) /\ WF_vars(PassGrace)
  /\ \A r \in Reconcilers : WF_vars(ReconcileRead(r)) /\ SF_vars(ReconcileWrite(r))

FairSpec == Spec /\ Fairness

-----------------------------------------------------------------------------
(* Properties *)

\* "owner_attempt never exceeds the queue's attempt counter"
\* (_reconcile_sql): without it a later reconciliation could skip, forever, a
\* row whose queue row has settled.
OwnerBounded == job.owner <= queue.attempt

\* The queue records `succeeded` only after complete_job committed
\* (QUEUE_GAVE_UP leaves `succeeded` out for this reason), whichever attempts
\* overlapped, crashed or were redelivered on the way.
SucceededMeansCompleted == queue.state = "succeeded" => job.status = "completed"

\* What status_from_row returns to clients agrees with itself: finished_at is
\* set exactly on a finished row and error exactly on a failed one, through
\* every reclaim of a failed row.
FinishedFieldsAgree ==
  /\ job.finished = "set" <=> job.status \in TerminalStatuses
  /\ job.error # "null" <=> job.status = "failed"

\* complete_job: a completed row is owned by an attempt that had stored all of
\* its result objects, even when several attempts upload to the same keys.
CompletedHasOutputs == job.status = "completed" => job.owner \in uploaded

\* "Reconciliation does not overrule a live attempt" (docs/jobs.md), nor does
\* any straggler: while the lease holder that won its claim works, it owns an
\* unfinished row.  (A lost acknowledgement of its own completion is the
\* exception.)
LiveAttemptOwnsRow ==
  \A n \in Attempts :
    HoldsLease(queue, n) /\ pc[n] \in {"claim", "kernel", "upload", "record", "fail"}
      => /\ job.owner = n
         /\ job.status = "running" \/ (pc[n] = "fail" /\ job.status = "completed")

\* The workspace lock: two attempts on one host never hold one workspace, while
\* an abandoned kernel thread may outlive its coroutine by any length of time.
WorkspaceExclusive ==
  \A m, n \in Attempts :
    m # n /\ HostOf[m] = HostOf[n] => ~(HoldsWorkspace(m) /\ HoldsWorkspace(n))

\* Retention deletes a queue row only under a finished compute row, and no
\* straggler reopens that row once nothing is left to reconcile it.
PurgedMeansFinished == queue.state = "purged" => job.status \in TerminalStatuses

\* "a wedged attempt that wakes up later cannot reopen the row while an
\* operator retry can" (reconcile_terminal_jobs): without an operator a
\* reconciled row never changes again.
ReconciledNeedsOperator ==
  [][job.error = "reconciled" /\ retries = 0 => job' = job]_vars

\* The documented transition table of the compute row.
Transitions ==
  INSTANCE JobTransitions WITH status <- job.status, owner <- job.owner

\* Every step of the composed system is a transition docs/jobs.md allows, or
\* leaves status and owner_attempt alone.
ImplementsTransitions == Transitions!Spec

\* Who holds the workspace on host h, and whose kernel thread is in it.
HoldersOn(h) == {n \in Attempts : HostOf[n] = h /\ HoldsWorkspace(n)}
KernelsOn(h) == {n \in Attempts : HostOf[n] = h /\ thread[n] \in {"running", "progress"}}

\* The claim of the workspace on host h, which Workspace.tla implements.
Claim(h) ==
  INSTANCE ClaimProtocol
  WITH Parties <- Attempts, holders <- HoldersOn(h), inside <- KernelsOn(h)

\* A submitted simulation reaches a finished state it never leaves, through
\* crashes, lost leases, lost writes and reconciliation.
EventuallySettles ==
  job.status # "absent" ~> [](job.status \in TerminalStatuses)
=============================================================================
