-------------------------- MODULE JobSystemProofs --------------------------
(***************************************************************************)
(* The safety properties of JobSystem, for every bound on attempts and     *)
(* retries, every budget, every placement of the deliveries on hosts and   *)
(* every set of reconciling workers.  The parts of the inductive invariant *)
(* IInv are stated next to the step lemma that preserves them; each lemma  *)
(* takes one case per action.                                              *)
(***************************************************************************)
EXTENDS JobSystem, TLAPS

\* Adding an element of a set to a subset of it gives a subset.
LEMMA AddToSubset ==
  ASSUME NEW S, NEW T \in SUBSET S, NEW x \in S PROVE T \cup {x} \in SUBSET S
  OBVIOUS

USE DEF Attempts, NoSnapshot, NoOwner, PCs, Threads, Errors, Outcomes,
        TerminalStatuses, Statuses, GaveUpStates, TerminalStates, QueueStates

\* Every step, or stuttering, keeps the variables in their types.
LEMMA TypeStep == ASSUME BoundsAssumption, TypeOK, [Next]_vars PROVE TypeOK'
<1> USE DEF TypeOK, Rows, Tasks, Row, Task, BoundsAssumption,
  PendingTask, SettledTask, AgedTask, PurgedTask
<1>1. CASE Submit
  BY <1>1 DEF Submit, QueuedRow, AbsentRow, EnqueuedTask, attemptVars, passVars
<1>2. ASSUME NEW n \in Attempts, Attempt(n) PROVE TypeOK'
  <2> USE DEF Goto, passVars
  <2>1. CASE LeaseJob(n) BY <2>1 DEF LeaseJob, LeasedTask
  <2>2. CASE StartFails(n) BY <2>2 DEF StartFails
  <2>3. CASE MarkStarted(n)
    <3>1. pc' \in [Attempts -> PCs] BY <2>3, SMTT(30) DEF MarkStarted
    <3>2. outcome' \in [Attempts -> Outcomes] BY <2>3 DEF MarkStarted
    <3>3. job' \in Rows(MaxAttempt) BY <2>3 DEF MarkStarted, Claimed
    <3>4. QED BY <2>3, <3>1, <3>2, <3>3 DEF MarkStarted
  <2>4. CASE StandDown(n)
    <3>1. pc' \in [Attempts -> PCs] BY <2>4 DEF StandDown
    <3>2. outcome' \in [Attempts -> Outcomes] BY <2>4 DEF StandDown
    <3>3. QED BY <2>4, <3>1, <3>2 DEF StandDown
  <2>5. CASE ClaimWorkspace(n)
    <3>1. pc' \in [Attempts -> PCs] BY <2>5, SMTT(30) DEF ClaimWorkspace
    <3>2. outcome' \in [Attempts -> Outcomes] BY <2>5 DEF ClaimWorkspace
    <3>3. thread' \in [Attempts -> Threads] BY <2>5 DEF ClaimWorkspace
    <3>4. QED BY <2>5, <3>1, <3>2, <3>3 DEF ClaimWorkspace
  <2>6. CASE CompleteJob(n)
    <3>1. pc' \in [Attempts -> PCs] BY <2>6 DEF CompleteJob
    <3>2. outcome' \in [Attempts -> Outcomes] BY <2>6 DEF CompleteJob
    <3>3. job' \in Rows(MaxAttempt) BY <2>6 DEF CompleteJob, Completed
    <3>4. QED BY <2>6, <3>1, <3>2, <3>3 DEF CompleteJob
  <2>7. CASE RemoveFinishedWorkspace(n) BY <2>7 DEF RemoveFinishedWorkspace
  <2>8. CASE RecordFailure(n) BY <2>8 DEF RecordFailure, FailedByRun
  <2>9. CASE Report(n)
    <3>1. pc' \in [Attempts -> PCs] BY <2>9 DEF Report, HoldsLease
    <3>2. outcome' \in [Attempts -> Outcomes] BY <2>9 DEF Report, HoldsLease
    <3>3. queue' \in Tasks(MaxAttempt) BY <2>9 DEF Report, HoldsLease
    <3>4. QED BY <2>9, <3>1, <3>2, <3>3 DEF Report
  <2>10. CASE KernelStarts(n) BY <2>10 DEF KernelStarts
  <2>11. CASE SubmitProgress(n) BY <2>11 DEF SubmitProgress
  <2>12. CASE WriteProgress(n)
    <3>1. pc' \in [Attempts -> PCs]
      BY <2>12, SMTT(30) DEF WriteProgress, ThreadEnds, Progressed
    <3>2. outcome' \in [Attempts -> Outcomes]
      BY <2>12, SMTT(30) DEF WriteProgress, ThreadEnds, Progressed
    <3>3. thread' \in [Attempts -> Threads]
      BY <2>12, SMTT(30) DEF WriteProgress, ThreadEnds, Progressed
    <3>4. job' \in Rows(MaxAttempt)
      BY <2>12, SMTT(30) DEF WriteProgress, ThreadEnds, Progressed
    <3>5. QED BY <2>12, <3>1, <3>2, <3>3, <3>4 DEF WriteProgress
  <2>13. CASE KernelReturns(n) BY <2>13 DEF KernelReturns
  <2>14. CASE KernelStops(n)
    <3>1. pc' \in [Attempts -> PCs] BY <2>14 DEF KernelStops, ThreadEnds
    <3>2. outcome' \in [Attempts -> Outcomes] BY <2>14 DEF KernelStops, ThreadEnds
    <3>3. thread' \in [Attempts -> Threads] BY <2>14 DEF KernelStops, ThreadEnds
    <3>4. QED BY <2>14, <3>1, <3>2, <3>3 DEF KernelStops
  <2>15. CASE Upload(n)
    <3>1. pc' \in [Attempts -> PCs] BY <2>15 DEF Upload, ThreadEnds
    <3>2. outcome' \in [Attempts -> Outcomes] BY <2>15 DEF Upload, ThreadEnds
    <3>3. thread' \in [Attempts -> Threads] BY <2>15 DEF Upload, ThreadEnds
    <3>4. uploaded' \in SUBSET Attempts
      <4>1. uploaded' = uploaded \/ uploaded' = uploaded \cup {n}
        BY <2>15 DEF Upload
      <4>2. uploaded \in SUBSET Attempts OBVIOUS
      <4>3. uploaded \cup {n} \in SUBSET Attempts BY <4>2, AddToSubset
      <4>4. QED BY <4>1, <4>2, <4>3, Zenon
    <3>5. QED BY <2>15, <3>1, <3>2, <3>3, <3>4 DEF Upload
  <2>16. CASE CancelLostLease(n) BY <2>16 DEF CancelLostLease, CancelCoroutine
  <2>17. CASE StopWorker(n)
    BY <2>17 DEF StopWorker, CancelCoroutine, ReturnedTask, HoldsLease
  <2>18. CASE Crash(n) BY <2>18 DEF Crash
  <2>19. QED
    BY <1>2, <2>1, <2>2, <2>3, <2>4, <2>5, <2>6, <2>7, <2>8, <2>9, <2>10, <2>11,
       <2>12, <2>13, <2>14, <2>15, <2>16, <2>17, <2>18
    DEF Attempt, Coroutine, Kernel, Fault
<1>3. ASSUME NEW r \in Reconcilers, Reconcile(r) PROVE TypeOK'
  <2> USE DEF attemptVars
  <2>1. CASE ReconcileRead(r) BY <2>1 DEF ReconcileRead
  <2>2. CASE ReconcileWrite(r)
    BY <2>2, SMTT(30) DEF ReconcileWrite, Reconciled, ReconciledOwner
  <2>3. CASE ReconcileAborts(r) BY <2>3 DEF ReconcileAborts
  <2>4. QED BY <1>3, <2>1, <2>2, <2>3 DEF Reconcile
<1>4. CASE ExpireLease
  BY <1>4 DEF ExpireLease, RecoveredTask, SettledTask, attemptVars, passVars
<1>5. CASE OperatorRetry
  BY <1>5 DEF OperatorRetry, RetriedTask, attemptVars, passVars
<1>6. CASE OperatorCancel
  BY <1>6 DEF OperatorCancel, SettledTask, attemptVars, passVars
<1>7. CASE PassGrace BY <1>7 DEF PassGrace, attemptVars, passVars
<1>8. CASE PassRetention BY <1>8 DEF PassRetention, attemptVars, passVars
<1>9. CASE PurgeSelect BY <1>9 DEF PurgeSelect, attemptVars
<1>10. CASE PurgeDelete BY <1>10 DEF PurgeDelete, attemptVars
<1>11. CASE UNCHANGED vars BY <1>11 DEF vars
<1>12. QED
  BY <1>1, <1>2, <1>3, <1>4, <1>5, <1>6, <1>7, <1>8, <1>9, <1>10, <1>11 DEF Next

\* Every reachable state is well typed: no claim, retry or reconciliation
\* takes an attempt number, a status or an outcome out of its range.
THEOREM TypeCorrect == Spec => []TypeOK
<1>1. Init => TypeOK
  BY BoundsAssumption DEF Init, TypeOK, Rows, Tasks, Row, Task, AbsentRow,
    AbsentTask, BoundsAssumption
<1>2. TypeOK /\ [Next]_vars => TypeOK' BY BoundsAssumption, TypeStep
<1>3. QED BY <1>1, <1>2, PTL DEF Spec

-----------------------------------------------------------------------------
(* The compute row against the queue row *)

\* A row is owned exactly once an attempt or a reconciliation took it, and
\* exists exactly when its queue row was enqueued.
RowShape ==
  /\ job.status \in {"absent", "queued"} => job.owner = NoOwner
  /\ job.status \in {"running", "completed"} => job.owner \in Attempts
  /\ job.status = "failed" => job.owner # NoOwner
  /\ job.status = "absent" => queue.state = "absent" /\ queue.attempt = 0

\* Nothing has happened yet to a delivery the queue has not made.
UndeliveredIdle ==
  \A n \in Attempts : n > queue.attempt => pc[n] = "idle" /\ thread[n] = "none"

\* A reconciliation's view of the queue row is no newer than the queue row,
\* and older than the delivery of a leased one.
SnapshotBounded ==
  \A r \in Reconcilers :
    /\ snapshot[r] <= queue.attempt
    /\ queue.state = "leased" => snapshot[r] < queue.attempt
    /\ snapshot[r] # NoSnapshot => job.status # "absent"

\* A coroutine that is past its lease belongs to an existing row.
StartedRowExists ==
  \A n \in Attempts : pc[n] # "idle" => job.status # "absent"

RowInv ==
  /\ RowShape /\ OwnerBounded /\ FinishedFieldsAgree
  /\ UndeliveredIdle /\ SnapshotBounded /\ StartedRowExists

\* Every step keeps the two rows in step with each other.
LEMMA RowStep ==
  ASSUME BoundsAssumption, TypeOK, TypeOK', RowInv, [Next]_vars
  PROVE  RowInv'
<1> USE DEF RowInv, RowShape, OwnerBounded, FinishedFieldsAgree, UndeliveredIdle,
  SnapshotBounded, StartedRowExists, TypeOK, Rows, Tasks, Row, Task,
  BoundsAssumption, Goto, attemptVars, passVars,
  PendingTask, SettledTask, AgedTask, PurgedTask
<1>1. CASE Submit
  BY <1>1 DEF Submit, QueuedRow, EnqueuedTask
<1>2. ASSUME NEW n \in Attempts, Attempt(n) PROVE RowInv'
  <2>1. CASE LeaseJob(n) BY <2>1, SMTT(30) DEF LeaseJob, LeasedTask
  <2>2. CASE StartFails(n) BY <2>2 DEF StartFails
  <2>3. CASE MarkStarted(n) BY <2>3, SMTT(30) DEF MarkStarted, Claimed, MayClaim
  <2>4. CASE StandDown(n) BY <2>4 DEF StandDown
  <2>5. CASE ClaimWorkspace(n) BY <2>5 DEF ClaimWorkspace
  <2>6. CASE CompleteJob(n) BY <2>6 DEF CompleteJob, Completed, MayComplete
  <2>7. CASE RemoveFinishedWorkspace(n) BY <2>7 DEF RemoveFinishedWorkspace
  <2>8. CASE RecordFailure(n) BY <2>8 DEF RecordFailure, FailedByRun, MayFail
  <2>9. CASE Report(n) BY <2>9 DEF Report, HoldsLease
  <2>10. CASE KernelStarts(n) BY <2>10 DEF KernelStarts
  <2>11. CASE SubmitProgress(n) BY <2>11 DEF SubmitProgress
  <2>12. CASE WriteProgress(n)
    BY <2>12, SMTT(30) DEF WriteProgress, ThreadEnds, Progressed, MayProgress
  <2>13. CASE KernelReturns(n) BY <2>13 DEF KernelReturns
  <2>14. CASE KernelStops(n) BY <2>14 DEF KernelStops, ThreadEnds
  <2>15. CASE Upload(n) BY <2>15, SMTT(30) DEF Upload, ThreadEnds
  <2>16. CASE CancelLostLease(n) BY <2>16 DEF CancelLostLease, CancelCoroutine
  <2>17. CASE StopWorker(n)
    BY <2>17 DEF StopWorker, CancelCoroutine, ReturnedTask, HoldsLease
  <2>18. CASE Crash(n) BY <2>18 DEF Crash
  <2>19. QED
    BY <1>2, <2>1, <2>2, <2>3, <2>4, <2>5, <2>6, <2>7, <2>8, <2>9, <2>10,
       <2>11, <2>12, <2>13, <2>14, <2>15, <2>16, <2>17, <2>18
    DEF Attempt, Coroutine, Kernel, Fault
<1>3. ASSUME NEW r \in Reconcilers, Reconcile(r) PROVE RowInv'
  <2>1. CASE ReconcileRead(r) BY <2>1 DEF ReconcileRead, MayReconcile
  <2>2. CASE ReconcileWrite(r)
    BY <2>2 DEF ReconcileWrite, Reconciled, ReconciledOwner, MayReconcile
  <2>3. CASE ReconcileAborts(r) BY <2>3 DEF ReconcileAborts
  <2>4. QED BY <1>3, <2>1, <2>2, <2>3 DEF Reconcile
<1>4. CASE ExpireLease BY <1>4 DEF ExpireLease, RecoveredTask
<1>5. CASE OperatorRetry BY <1>5 DEF OperatorRetry, RetriedTask
<1>6. CASE OperatorCancel BY <1>6 DEF OperatorCancel
<1>7. CASE PassGrace BY <1>7 DEF PassGrace
<1>8. CASE PassRetention BY <1>8 DEF PassRetention
<1>9. CASE PurgeSelect BY <1>9 DEF PurgeSelect
<1>10. CASE PurgeDelete BY <1>10 DEF PurgeDelete, MayPurge, Purgeable
<1>11. CASE UNCHANGED vars BY <1>11 DEF vars
<1>12. QED
  BY <1>1, <1>2, <1>3, <1>4, <1>5, <1>6, <1>7, <1>8, <1>9, <1>10, <1>11 DEF Next

-----------------------------------------------------------------------------
(* Completion is durable *)

\* Who will report success has seen the completed row; who will record the
\* completion has stored its objects.
DurableInv ==
  /\ SucceededMeansCompleted /\ CompletedHasOutputs
  /\ \A n \in Attempts : pc[n] = "record" => n \in uploaded
  /\ \A n \in Attempts :
       pc[n] = "cleanup" \/ outcome[n] = "succeeded" => job.status = "completed"

\* A completed row is never left, so what rests on it lasts.
LEMMA DurableStep ==
  ASSUME BoundsAssumption, TypeOK, DurableInv, [Next]_vars
  PROVE  DurableInv'
<1> USE DEF DurableInv, SucceededMeansCompleted, CompletedHasOutputs,
  TypeOK, Rows, Tasks, Row, Task, BoundsAssumption, Goto, attemptVars, passVars,
  PendingTask, SettledTask, AgedTask, PurgedTask
<1>1. CASE Submit
  BY <1>1 DEF Submit, QueuedRow, EnqueuedTask
<1>2. ASSUME NEW n \in Attempts, Attempt(n) PROVE DurableInv'
  <2>1. CASE LeaseJob(n) BY <2>1 DEF LeaseJob, LeasedTask
  <2>2. CASE StartFails(n) BY <2>2 DEF StartFails
  <2>3. CASE MarkStarted(n) BY <2>3, SMTT(30) DEF MarkStarted, Claimed, MayClaim
  <2>4. CASE StandDown(n) BY <2>4, SMTT(30) DEF StandDown
  <2>5. CASE ClaimWorkspace(n) BY <2>5, SMTT(30) DEF ClaimWorkspace
  <2>6. CASE CompleteJob(n)
    BY <2>6, SMTT(30) DEF CompleteJob, Completed, MayComplete
  <2>7. CASE RemoveFinishedWorkspace(n) BY <2>7 DEF RemoveFinishedWorkspace
  <2>8. CASE RecordFailure(n) BY <2>8 DEF RecordFailure, FailedByRun, MayFail
  <2>9. CASE Report(n) BY <2>9 DEF Report, HoldsLease
  <2>10. CASE KernelStarts(n) BY <2>10 DEF KernelStarts
  <2>11. CASE SubmitProgress(n) BY <2>11 DEF SubmitProgress
  <2>12. CASE WriteProgress(n)
    BY <2>12, SMTT(30) DEF WriteProgress, ThreadEnds, Progressed, MayProgress
  <2>13. CASE KernelReturns(n) BY <2>13 DEF KernelReturns
  <2>14. CASE KernelStops(n) BY <2>14, SMTT(30) DEF KernelStops, ThreadEnds
  <2>15. CASE Upload(n) BY <2>15, SMTT(30) DEF Upload, ThreadEnds
  <2>16. CASE CancelLostLease(n) BY <2>16 DEF CancelLostLease, CancelCoroutine
  <2>17. CASE StopWorker(n)
    BY <2>17 DEF StopWorker, CancelCoroutine, ReturnedTask, HoldsLease
  <2>18. CASE Crash(n) BY <2>18 DEF Crash
  <2>19. QED
    BY <1>2, <2>1, <2>2, <2>3, <2>4, <2>5, <2>6, <2>7, <2>8, <2>9, <2>10,
       <2>11, <2>12, <2>13, <2>14, <2>15, <2>16, <2>17, <2>18
    DEF Attempt, Coroutine, Kernel, Fault
<1>3. ASSUME NEW r \in Reconcilers, Reconcile(r) PROVE DurableInv'
  <2>1. CASE ReconcileRead(r) BY <2>1 DEF ReconcileRead, MayReconcile
  <2>2. CASE ReconcileWrite(r)
    BY <2>2 DEF ReconcileWrite, Reconciled, ReconciledOwner, MayReconcile
  <2>3. CASE ReconcileAborts(r) BY <2>3 DEF ReconcileAborts
  <2>4. QED BY <1>3, <2>1, <2>2, <2>3 DEF Reconcile
<1>4. CASE ExpireLease BY <1>4 DEF ExpireLease, RecoveredTask
<1>5. CASE OperatorRetry BY <1>5, SMTT(30) DEF OperatorRetry, RetriedTask
<1>6. CASE OperatorCancel BY <1>6 DEF OperatorCancel
<1>7. CASE PassGrace BY <1>7 DEF PassGrace
<1>8. CASE PassRetention BY <1>8 DEF PassRetention
<1>9. CASE PurgeSelect BY <1>9 DEF PurgeSelect
<1>10. CASE PurgeDelete BY <1>10 DEF PurgeDelete, MayPurge, Purgeable
<1>11. CASE UNCHANGED vars BY <1>11 DEF vars
<1>12. QED
  BY <1>1, <1>2, <1>3, <1>4, <1>5, <1>6, <1>7, <1>8, <1>9, <1>10, <1>11 DEF Next

-----------------------------------------------------------------------------
(* The lease holder's row *)

\* Nobody takes or finishes the row under the working lease holder.
LEMMA LiveStep ==
  ASSUME BoundsAssumption, TypeOK, RowInv, LiveAttemptOwnsRow, [Next]_vars
  PROVE  LiveAttemptOwnsRow'
<1> USE DEF LiveAttemptOwnsRow, RowInv, RowShape, OwnerBounded, UndeliveredIdle,
  SnapshotBounded, HoldsLease, TypeOK, Rows, Tasks, Row, Task, BoundsAssumption,
  Goto, attemptVars, passVars,
  PendingTask, SettledTask, AgedTask, PurgedTask
<1>1. CASE Submit
  BY <1>1 DEF Submit, QueuedRow, EnqueuedTask
<1>2. ASSUME NEW n \in Attempts, Attempt(n) PROVE LiveAttemptOwnsRow'
  <2>1. CASE LeaseJob(n) BY <2>1 DEF LeaseJob, LeasedTask
  <2>2. CASE StartFails(n) BY <2>2 DEF StartFails
  <2>3. CASE MarkStarted(n) BY <2>3 DEF MarkStarted, Claimed, MayClaim
  <2>4. CASE StandDown(n) BY <2>4 DEF StandDown
  <2>5. CASE ClaimWorkspace(n) BY <2>5 DEF ClaimWorkspace
  <2>6. CASE CompleteJob(n) BY <2>6 DEF CompleteJob, Completed, MayComplete
  <2>7. CASE RemoveFinishedWorkspace(n) BY <2>7 DEF RemoveFinishedWorkspace
  <2>8. CASE RecordFailure(n) BY <2>8 DEF RecordFailure, FailedByRun, MayFail
  <2>9. CASE Report(n) BY <2>9 DEF Report, HoldsLease
  <2>10. CASE KernelStarts(n) BY <2>10 DEF KernelStarts
  <2>11. CASE SubmitProgress(n) BY <2>11 DEF SubmitProgress
  <2>12. CASE WriteProgress(n)
    BY <2>12 DEF WriteProgress, ThreadEnds, Progressed, MayProgress
  <2>13. CASE KernelReturns(n) BY <2>13 DEF KernelReturns
  <2>14. CASE KernelStops(n) BY <2>14 DEF KernelStops, ThreadEnds
  <2>15. CASE Upload(n) BY <2>15 DEF Upload, ThreadEnds
  <2>16. CASE CancelLostLease(n) BY <2>16 DEF CancelLostLease, CancelCoroutine
  <2>17. CASE StopWorker(n)
    BY <2>17 DEF StopWorker, CancelCoroutine, ReturnedTask, HoldsLease
  <2>18. CASE Crash(n) BY <2>18 DEF Crash
  <2>19. QED
    BY <1>2, <2>1, <2>2, <2>3, <2>4, <2>5, <2>6, <2>7, <2>8, <2>9, <2>10,
       <2>11, <2>12, <2>13, <2>14, <2>15, <2>16, <2>17, <2>18
    DEF Attempt, Coroutine, Kernel, Fault
<1>3. ASSUME NEW r \in Reconcilers, Reconcile(r) PROVE LiveAttemptOwnsRow'
  <2>1. CASE ReconcileRead(r) BY <2>1 DEF ReconcileRead, MayReconcile
  <2>2. CASE ReconcileWrite(r)
    BY <2>2 DEF ReconcileWrite, Reconciled, ReconciledOwner, MayReconcile
  <2>3. CASE ReconcileAborts(r) BY <2>3 DEF ReconcileAborts
  <2>4. QED BY <1>3, <2>1, <2>2, <2>3 DEF Reconcile
<1>4. CASE ExpireLease BY <1>4 DEF ExpireLease, RecoveredTask
<1>5. CASE OperatorRetry BY <1>5 DEF OperatorRetry, RetriedTask
<1>6. CASE OperatorCancel BY <1>6 DEF OperatorCancel
<1>7. CASE PassGrace BY <1>7 DEF PassGrace
<1>8. CASE PassRetention BY <1>8 DEF PassRetention
<1>9. CASE PurgeSelect BY <1>9 DEF PurgeSelect
<1>10. CASE PurgeDelete BY <1>10 DEF PurgeDelete, MayPurge, Purgeable
<1>11. CASE UNCHANGED vars BY <1>11 DEF vars
<1>12. QED
  BY <1>1, <1>2, <1>3, <1>4, <1>5, <1>6, <1>7, <1>8, <1>9, <1>10, <1>11 DEF Next

-----------------------------------------------------------------------------
(* The workspace *)

\* A thread exists only after the claim, and a kernel waits only for the
\* coroutine that queued it.
WorkspaceInv ==
  /\ WorkspaceExclusive
  /\ \A n \in Attempts :
       pc[n] \in {"idle", "fetch", "refused", "claim"} => thread[n] = "none"
  /\ \A n \in Attempts : thread[n] = "queued" => pc[n] = "kernel"

\* Only a claim of a free workspace adds a holder.
LEMMA WorkspaceStep ==
  ASSUME BoundsAssumption, TypeOK, UndeliveredIdle, WorkspaceInv, [Next]_vars
  PROVE  WorkspaceInv'
<1> USE DEF WorkspaceInv, WorkspaceExclusive, HoldsWorkspace, WorkspaceFree,
  UndeliveredIdle, TypeOK, Rows, Tasks, Row, Task, BoundsAssumption, Goto,
  attemptVars, passVars, PendingTask, SettledTask, AgedTask, PurgedTask
<1>1. CASE Submit
  BY <1>1 DEF Submit, QueuedRow, EnqueuedTask
<1>2. ASSUME NEW n \in Attempts, Attempt(n) PROVE WorkspaceInv'
  <2>1. CASE LeaseJob(n) BY <2>1, SMTT(30) DEF LeaseJob, LeasedTask
  <2>2. CASE StartFails(n) BY <2>2, SMTT(30) DEF StartFails
  <2>3. CASE MarkStarted(n) BY <2>3, SMTT(30) DEF MarkStarted, Claimed, MayClaim
  <2>4. CASE StandDown(n) BY <2>4, SMTT(30) DEF StandDown
  <2>5. CASE ClaimWorkspace(n)
    <3>1. CASE /\ WorkspaceFree(n) /\ Goto(n, "kernel", "none")
               /\ thread' = [thread EXCEPT ![n] = "queued"]
      BY <2>5, <3>1, SMTT(30)
    <3>2. CASE (\E e \in Errors : Goto(n, "fail", e)) /\ UNCHANGED thread
      <4>1. \A m \in Attempts : HoldsWorkspace(m)' => HoldsWorkspace(m)
        BY <2>5, <3>2 DEF ClaimWorkspace
      <4>2. WorkspaceExclusive' BY <4>1
      <4>3. QED BY <2>5, <3>2, <4>2 DEF ClaimWorkspace
    <3>3. QED BY <2>5, <3>1, <3>2 DEF ClaimWorkspace
  <2>6. CASE CompleteJob(n)
    BY <2>6, SMTT(30) DEF CompleteJob, Completed, MayComplete
  <2>7. CASE RemoveFinishedWorkspace(n) BY <2>7 DEF RemoveFinishedWorkspace
  <2>8. CASE RecordFailure(n) BY <2>8 DEF RecordFailure, FailedByRun, MayFail
  <2>9. CASE Report(n) BY <2>9 DEF Report, HoldsLease
  <2>10. CASE KernelStarts(n) BY <2>10 DEF KernelStarts
  <2>11. CASE SubmitProgress(n) BY <2>11, SMTT(30) DEF SubmitProgress
  <2>12. CASE WriteProgress(n)
    <3>1. \A m \in Attempts : HoldsWorkspace(m)' => HoldsWorkspace(m)
      BY <2>12, SMTT(30) DEF WriteProgress, ThreadEnds
    <3>2. WorkspaceExclusive' BY <3>1
    <3>3. \A m \in Attempts :
            /\ pc'[m] \in {"idle", "fetch", "refused", "claim"} 
                 => thread'[m] = "none"
            /\ thread'[m] = "queued" => pc'[m] = "kernel"
      BY <2>12, SMTT(30) DEF WriteProgress, ThreadEnds
    <3>4. QED BY <3>2, <3>3
  <2>13. CASE KernelReturns(n) BY <2>13 DEF KernelReturns
  <2>14. CASE KernelStops(n) BY <2>14, SMTT(30) DEF KernelStops, ThreadEnds
  <2>15. CASE Upload(n)
    <3>1. \A m \in Attempts : HoldsWorkspace(m)' => HoldsWorkspace(m)
      BY <2>15 DEF Upload, ThreadEnds
    <3>2. WorkspaceExclusive' BY <3>1
    <3>3. \A m \in Attempts :
            /\ pc'[m] \in {"idle", "fetch", "refused", "claim"} 
                 => thread'[m] = "none"
            /\ thread'[m] = "queued" => pc'[m] = "kernel"
      BY <2>15, SMTT(30) DEF Upload, ThreadEnds
    <3>4. QED BY <3>2, <3>3
  <2>16. CASE CancelLostLease(n)
    BY <2>16, SMTT(30) DEF CancelLostLease, CancelCoroutine
  <2>17. CASE StopWorker(n)
    BY <2>17 DEF StopWorker, CancelCoroutine, ReturnedTask, HoldsLease
  <2>18. CASE Crash(n) BY <2>18 DEF Crash
  <2>19. QED
    BY <1>2, <2>1, <2>2, <2>3, <2>4, <2>5, <2>6, <2>7, <2>8, <2>9, <2>10,
       <2>11, <2>12, <2>13, <2>14, <2>15, <2>16, <2>17, <2>18
    DEF Attempt, Coroutine, Kernel, Fault
<1>3. ASSUME NEW r \in Reconcilers, Reconcile(r) PROVE WorkspaceInv'
  <2>1. CASE ReconcileRead(r) BY <2>1 DEF ReconcileRead, MayReconcile
  <2>2. CASE ReconcileWrite(r)
    BY <2>2 DEF ReconcileWrite, Reconciled, ReconciledOwner, MayReconcile
  <2>3. CASE ReconcileAborts(r) BY <2>3 DEF ReconcileAborts
  <2>4. QED BY <1>3, <2>1, <2>2, <2>3 DEF Reconcile
<1>4. CASE ExpireLease BY <1>4 DEF ExpireLease, RecoveredTask
<1>5. CASE OperatorRetry BY <1>5 DEF OperatorRetry, RetriedTask
<1>6. CASE OperatorCancel BY <1>6 DEF OperatorCancel
<1>7. CASE PassGrace BY <1>7 DEF PassGrace
<1>8. CASE PassRetention BY <1>8 DEF PassRetention
<1>9. CASE PurgeSelect BY <1>9 DEF PurgeSelect
<1>10. CASE PurgeDelete BY <1>10 DEF PurgeDelete, MayPurge, Purgeable
<1>11. CASE UNCHANGED vars BY <1>11 DEF vars
<1>12. QED
  BY <1>1, <1>2, <1>3, <1>4, <1>5, <1>6, <1>7, <1>8, <1>9, <1>10, <1>11 DEF Next

-----------------------------------------------------------------------------
(* The claim protocol *)

\* The kernel thread of n is in the workspace.
InWorkspace(n) == thread[n] \in {"running", "progress"}

\* One delivery n at a time moves: it takes a free workspace, its thread enters
\* or leaves, or it lets go with no thread inside.
LEMMA ClaimMoves ==
  ASSUME NEW h, NEW n \in Attempts,
         \A m \in Attempts : m # n => pc'[m] = pc[m] /\ thread'[m] = thread[m],
         \/ /\ HoldsWorkspace(n)' <=> HoldsWorkspace(n)
            /\ InWorkspace(n)' <=> InWorkspace(n)
         \/ /\ WorkspaceFree(n) /\ HoldsWorkspace(n)'
            /\ InWorkspace(n)' <=> InWorkspace(n)
         \/ HoldsWorkspace(n) /\ HoldsWorkspace(n)' /\ InWorkspace(n)'
         \/ /\ InWorkspace(n) /\ ~InWorkspace(n)'
            /\ HoldsWorkspace(n)' => HoldsWorkspace(n)
         \/ /\ HoldsWorkspace(n) /\ ~InWorkspace(n)
            /\ ~HoldsWorkspace(n)' /\ ~InWorkspace(n)'
  PROVE  [Claim(h)!Next]_<<HoldersOn(h), KernelsOn(h)>>
<1> DEFINE H == HoldersOn(h)  K == KernelsOn(h)
           G == HoldersOn(h)' L == KernelsOn(h)'
<1>1. /\ \A m \in Attempts : m # n => (HoldsWorkspace(m)' <=> HoldsWorkspace(m))
      /\ \A m \in Attempts : m # n => (InWorkspace(m)' <=> InWorkspace(m))
  BY DEF HoldsWorkspace, InWorkspace
<1>2. /\ \A m : m \in H <=> m \in Attempts /\ HostOf[m] = h /\ HoldsWorkspace(m)
      /\ \A m : m \in G <=> m \in Attempts /\ HostOf[m] = h /\ HoldsWorkspace(m)'
      /\ \A m : m \in K <=> m \in Attempts /\ HostOf[m] = h /\ InWorkspace(m)
      /\ \A m : m \in L <=> m \in Attempts /\ HostOf[m] = h /\ InWorkspace(m)'
  BY DEF HoldersOn, KernelsOn, InWorkspace
<1> HIDE DEF H, K, G, L
<1>3. CASE HostOf[n] # h
  <2>1. G = H /\ L = K BY <1>1, <1>2, <1>3
  <2>2. QED BY <2>1 DEF H, K, G, L
<1>4. CASE HostOf[n] = h
  <2>1. CASE /\ HoldsWorkspace(n)' <=> HoldsWorkspace(n)
             /\ InWorkspace(n)' <=> InWorkspace(n)
    <3>1. G = H /\ L = K BY <1>1, <1>2, <2>1
    <3>2. QED BY <3>1 DEF H, K, G, L
  <2>2. CASE /\ WorkspaceFree(n) /\ HoldsWorkspace(n)'
             /\ InWorkspace(n)' <=> InWorkspace(n)
    <3>1. H = {} BY <1>2, <1>4, <2>2 DEF WorkspaceFree
    <3>2. G = {n} /\ L = K BY <1>1, <1>2, <1>4, <2>2, <3>1
    <3>3. Claim(h)!Take(n) BY <3>1, <3>2 DEF Claim!Take, H, K, G, L
    <3>4. QED BY <3>3 DEF Claim!Next
  <2>3. CASE HoldsWorkspace(n) /\ HoldsWorkspace(n)' /\ InWorkspace(n)'
    <3>1. n \in H /\ G = H /\ L = K \cup {n} BY <1>1, <1>2, <1>4, <2>3
    <3>2. Claim(h)!Enter(n) BY <3>1 DEF Claim!Enter, H, K, G, L
    <3>3. QED BY <3>2 DEF Claim!Next
  <2>4. CASE /\ InWorkspace(n) /\ ~InWorkspace(n)'
             /\ HoldsWorkspace(n)' => HoldsWorkspace(n)
    <3>1. n \in K /\ L = K \ {n} BY <1>1, <1>2, <1>4, <2>4
    <3>2. G = H \/ G = H \ {n} BY <1>1, <1>2, <1>4, <2>4
    <3>3. Claim(h)!Leave(n) BY <3>1, <3>2 DEF Claim!Leave, H, K, G, L
    <3>4. QED BY <3>3 DEF Claim!Next
  <2>5. CASE /\ HoldsWorkspace(n) /\ ~InWorkspace(n)
             /\ ~HoldsWorkspace(n)' /\ ~InWorkspace(n)'
    <3>1. n \in H /\ n \notin K /\ G = H \ {n} /\ L = K
      BY <1>1, <1>2, <1>4, <2>5
    <3>2. Claim(h)!Give(n) BY <3>1 DEF Claim!Give, H, K, G, L
    <3>3. QED BY <3>2 DEF Claim!Next
  <2>6. QED BY <2>1, <2>2, <2>3, <2>4, <2>5
<1>5. QED BY <1>3, <1>4

\* Every step is a step of the protocol on each host, or a stutter.
LEMMA ClaimStep ==
  ASSUME BoundsAssumption, TypeOK, UndeliveredIdle, WorkspaceInv, [Next]_vars,
         NEW h
  PROVE  [Claim(h)!Next]_<<HoldersOn(h), KernelsOn(h)>>
<1> DEFINE Goal == [Claim(h)!Next]_<<HoldersOn(h), KernelsOn(h)>>
<1> SUFFICES Goal OBVIOUS
<1> HIDE DEF Goal
<1>1. ASSUME NEW n \in Attempts, Attempt(n) PROVE Goal
  <2> USE DEF Goto, HoldsWorkspace, InWorkspace, TypeOK
  <2>1. \A m \in Attempts : m # n => pc'[m] = pc[m] /\ thread'[m] = thread[m]
    <3> USE <1>1
    <3>1. CASE LeaseJob(n) \/ Coroutine(n)
      BY <3>1 DEF LeaseJob, Coroutine, StartFails, MarkStarted, StandDown,
        ClaimWorkspace, CompleteJob, RemoveFinishedWorkspace, RecordFailure, Report
    <3>2. CASE Kernel(n)
      BY <3>2 DEF Kernel, KernelStarts, SubmitProgress, WriteProgress,
        KernelReturns, KernelStops, Upload, ThreadEnds
    <3>3. CASE Fault(n)
      BY <3>3 DEF Fault, CancelLostLease, StopWorker, Crash, CancelCoroutine
    <3>4. QED BY <3>1, <3>2, <3>3 DEF Attempt
  <2>2. ASSUME \/ /\ HoldsWorkspace(n)' <=> HoldsWorkspace(n)
                  /\ InWorkspace(n)' <=> InWorkspace(n)
               \/ /\ WorkspaceFree(n) /\ HoldsWorkspace(n)'
                  /\ InWorkspace(n)' <=> InWorkspace(n)
               \/ HoldsWorkspace(n) /\ HoldsWorkspace(n)' /\ InWorkspace(n)'
               \/ /\ InWorkspace(n) /\ ~InWorkspace(n)'
                  /\ HoldsWorkspace(n)' => HoldsWorkspace(n)
               \/ /\ HoldsWorkspace(n) /\ ~InWorkspace(n)
                  /\ ~HoldsWorkspace(n)' /\ ~InWorkspace(n)'
        PROVE  Goal
    <3> HIDE DEF HoldsWorkspace, InWorkspace, TypeOK
    <3> QED BY <2>1, <2>2, ClaimMoves DEF Goal
  <2>3. CASE LeaseJob(n)
    <3>1. pc[n] = "idle" /\ thread[n] = "none"
      BY <2>3 DEF LeaseJob, UndeliveredIdle, Tasks, Task
    <3>2. pc'[n] = "fetch" /\ thread'[n] = "none" BY <2>3, <3>1 DEF LeaseJob
    <3>3. QED BY <2>2, <3>1, <3>2
  <2>4. CASE StartFails(n)
    BY <2>2, <2>4 DEF StartFails, WorkspaceInv
  <2>5. CASE MarkStarted(n)
    BY <2>2, <2>5 DEF MarkStarted, WorkspaceInv
  <2>6. CASE StandDown(n)
    BY <2>2, <2>6 DEF StandDown, WorkspaceInv
  <2>7. CASE ClaimWorkspace(n)
    BY <2>2, <2>7 DEF ClaimWorkspace, WorkspaceInv
  <2>8. CASE CompleteJob(n)
    BY <2>2, <2>8 DEF CompleteJob, WorkspaceInv
  <2>9. CASE RemoveFinishedWorkspace(n)
    BY <2>2, <2>9 DEF RemoveFinishedWorkspace, WorkspaceInv
  <2>10. CASE RecordFailure(n)
    BY <2>2, <2>10 DEF RecordFailure, WorkspaceInv
  <2>11. CASE Report(n)
    BY <2>2, <2>11 DEF Report, WorkspaceInv
  <2>12. CASE KernelStarts(n)
    BY <2>2, <2>12 DEF KernelStarts, WorkspaceInv
  <2>13. CASE SubmitProgress(n)
    BY <2>2, <2>13 DEF SubmitProgress, WorkspaceInv
  <2>14. CASE WriteProgress(n)
    BY <2>2, <2>14 DEF WriteProgress, ThreadEnds, WorkspaceInv
  <2>15. CASE KernelReturns(n)
    BY <2>2, <2>15 DEF KernelReturns, WorkspaceInv
  <2>16. CASE KernelStops(n)
    BY <2>2, <2>16 DEF KernelStops, ThreadEnds, WorkspaceInv
  <2>17. CASE Upload(n)
    BY <2>2, <2>17 DEF Upload, ThreadEnds, WorkspaceInv
  <2>18. CASE CancelLostLease(n)
    BY <2>2, <2>18 DEF CancelLostLease, CancelCoroutine, WorkspaceInv
  <2>19. CASE StopWorker(n)
    BY <2>2, <2>19 DEF StopWorker, CancelCoroutine, WorkspaceInv
  <2>20. CASE Crash(n)
    BY <2>2, <2>20 DEF Crash, WorkspaceInv
  <2>21. QED
    BY <1>1, <2>3, <2>4, <2>5, <2>6, <2>7, <2>8, <2>9, <2>10, <2>11, <2>12,
       <2>13, <2>14, <2>15, <2>16, <2>17, <2>18, <2>19, <2>20
    DEF Attempt, Coroutine, Kernel, Fault
<1>2. ASSUME UNCHANGED <<pc, thread>> PROVE Goal
  <2>1. HoldersOn(h)' = HoldersOn(h) BY <1>2 DEF HoldersOn, HoldsWorkspace
  <2>2. KernelsOn(h)' = KernelsOn(h) BY <1>2 DEF KernelsOn
  <2>3. QED BY <2>1, <2>2 DEF Goal
<1>3. CASE \E r \in Reconcilers : Reconcile(r)
  BY <1>2, <1>3
  DEF Reconcile, ReconcileRead, ReconcileWrite, ReconcileAborts, attemptVars
<1>4. CASE Submit \/ ExpireLease \/ OperatorRetry \/ OperatorCancel
  BY <1>2, <1>4 DEF Submit, ExpireLease, OperatorRetry, OperatorCancel, attemptVars
<1>5. CASE PassGrace \/ PassRetention \/ PurgeSelect \/ PurgeDelete
  BY <1>2, <1>5 DEF PassGrace, PassRetention, PurgeSelect, PurgeDelete, attemptVars
<1>6. CASE UNCHANGED vars BY <1>2, <1>6 DEF vars
<1>7. QED BY <1>1, <1>3, <1>4, <1>5, <1>6 DEF Next

-----------------------------------------------------------------------------
(* Retention *)

\* A queue row old enough to purge outlived every delivery that could still
\* claim the compute row.
PurgeInv ==
  /\ PurgedMeansFinished
  /\ queue.state = "purged" => queue.age = "old"
  /\ queue.age # "fresh" => queue.state \in TerminalStates \cup {"purged"}
  /\ queue.age = "old" => \A n \in Attempts : pc[n] # "fetch"

\* Nothing reopens the compute row of a purged queue row.
LEMMA PurgeStep ==
  ASSUME BoundsAssumption, TypeOK, PurgeInv, [Next]_vars
  PROVE  PurgeInv'
<1> USE DEF PurgeInv, PurgedMeansFinished, TypeOK, Rows, Tasks, Row, Task,
  BoundsAssumption, Goto, attemptVars, passVars,
  PendingTask, SettledTask, AgedTask, PurgedTask
<1>1. CASE Submit
  BY <1>1 DEF Submit, QueuedRow, EnqueuedTask
<1>2. ASSUME NEW n \in Attempts, Attempt(n) PROVE PurgeInv'
  <2>1. CASE LeaseJob(n) BY <2>1 DEF LeaseJob, LeasedTask
  <2>2. CASE StartFails(n) BY <2>2 DEF StartFails
  <2>3. CASE MarkStarted(n) BY <2>3 DEF MarkStarted, Claimed, MayClaim
  <2>4. CASE StandDown(n) BY <2>4 DEF StandDown
  <2>5. CASE ClaimWorkspace(n) BY <2>5 DEF ClaimWorkspace
  <2>6. CASE CompleteJob(n) BY <2>6 DEF CompleteJob, Completed, MayComplete
  <2>7. CASE RemoveFinishedWorkspace(n) BY <2>7 DEF RemoveFinishedWorkspace
  <2>8. CASE RecordFailure(n) BY <2>8 DEF RecordFailure, FailedByRun, MayFail
  <2>9. CASE Report(n) BY <2>9 DEF Report, HoldsLease
  <2>10. CASE KernelStarts(n) BY <2>10 DEF KernelStarts
  <2>11. CASE SubmitProgress(n) BY <2>11 DEF SubmitProgress
  <2>12. CASE WriteProgress(n)
    BY <2>12 DEF WriteProgress, ThreadEnds, Progressed, MayProgress
  <2>13. CASE KernelReturns(n) BY <2>13 DEF KernelReturns
  <2>14. CASE KernelStops(n) BY <2>14 DEF KernelStops, ThreadEnds
  <2>15. CASE Upload(n) BY <2>15 DEF Upload, ThreadEnds
  <2>16. CASE CancelLostLease(n) BY <2>16 DEF CancelLostLease, CancelCoroutine
  <2>17. CASE StopWorker(n)
    BY <2>17 DEF StopWorker, CancelCoroutine, ReturnedTask, HoldsLease
  <2>18. CASE Crash(n) BY <2>18 DEF Crash
  <2>19. QED
    BY <1>2, <2>1, <2>2, <2>3, <2>4, <2>5, <2>6, <2>7, <2>8, <2>9, <2>10,
       <2>11, <2>12, <2>13, <2>14, <2>15, <2>16, <2>17, <2>18
    DEF Attempt, Coroutine, Kernel, Fault
<1>3. ASSUME NEW r \in Reconcilers, Reconcile(r) PROVE PurgeInv'
  <2>1. CASE ReconcileRead(r) BY <2>1 DEF ReconcileRead, MayReconcile
  <2>2. CASE ReconcileWrite(r)
    BY <2>2 DEF ReconcileWrite, Reconciled, ReconciledOwner, MayReconcile
  <2>3. CASE ReconcileAborts(r) BY <2>3 DEF ReconcileAborts
  <2>4. QED BY <1>3, <2>1, <2>2, <2>3 DEF Reconcile
<1>4. CASE ExpireLease BY <1>4 DEF ExpireLease, RecoveredTask
<1>5. CASE OperatorRetry BY <1>5 DEF OperatorRetry, RetriedTask
<1>6. CASE OperatorCancel BY <1>6 DEF OperatorCancel
<1>7. CASE PassGrace BY <1>7 DEF PassGrace
<1>8. CASE PassRetention BY <1>8 DEF PassRetention
<1>9. CASE PurgeSelect BY <1>9 DEF PurgeSelect
<1>10. CASE PurgeDelete BY <1>10 DEF PurgeDelete, MayPurge, Purgeable
<1>11. CASE UNCHANGED vars BY <1>11 DEF vars
<1>12. QED
  BY <1>1, <1>2, <1>3, <1>4, <1>5, <1>6, <1>7, <1>8, <1>9, <1>10, <1>11 DEF Next

-----------------------------------------------------------------------------
(* Reconciliation *)

\* Until an operator intervenes a queue row that gave up stays so, and both a
\* pass in progress and a row it failed name that row's last attempt.
ReconcileInv ==
  retries = 0 =>
    /\ \A r \in Reconcilers :
         snapshot[r] # NoSnapshot =>
           /\ queue.state \in GaveUpStates \cup {"purged"}
           /\ snapshot[r] = queue.attempt
    /\ job.error = "reconciled" =>
         /\ queue.state \in GaveUpStates \cup {"purged"}
         /\ job.owner = queue.attempt

\* The stamp of a reconciled row names the last attempt.
LEMMA ReconcileStep ==
  ASSUME BoundsAssumption, TypeOK, RowInv, ReconcileInv, [Next]_vars
  PROVE  ReconcileInv'
<1> USE DEF ReconcileInv, RowInv, RowShape, OwnerBounded, FinishedFieldsAgree,
  UndeliveredIdle, TypeOK, Rows, Tasks, Row, Task, BoundsAssumption, Goto,
  attemptVars, passVars,
  PendingTask, SettledTask, AgedTask, PurgedTask
<1>1. CASE Submit
  BY <1>1 DEF Submit, QueuedRow, EnqueuedTask
<1>2. ASSUME NEW n \in Attempts, Attempt(n) PROVE ReconcileInv'
  <2>1. CASE LeaseJob(n) BY <2>1 DEF LeaseJob, LeasedTask
  <2>2. CASE StartFails(n) BY <2>2 DEF StartFails
  <2>3. CASE MarkStarted(n) BY <2>3 DEF MarkStarted, Claimed, MayClaim
  <2>4. CASE StandDown(n) BY <2>4 DEF StandDown
  <2>5. CASE ClaimWorkspace(n) BY <2>5 DEF ClaimWorkspace
  <2>6. CASE CompleteJob(n) BY <2>6 DEF CompleteJob, Completed, MayComplete
  <2>7. CASE RemoveFinishedWorkspace(n) BY <2>7 DEF RemoveFinishedWorkspace
  <2>8. CASE RecordFailure(n) BY <2>8 DEF RecordFailure, FailedByRun, MayFail
  <2>9. CASE Report(n) BY <2>9 DEF Report, HoldsLease
  <2>10. CASE KernelStarts(n) BY <2>10 DEF KernelStarts
  <2>11. CASE SubmitProgress(n) BY <2>11 DEF SubmitProgress
  <2>12. CASE WriteProgress(n)
    BY <2>12 DEF WriteProgress, ThreadEnds, Progressed, MayProgress
  <2>13. CASE KernelReturns(n) BY <2>13 DEF KernelReturns
  <2>14. CASE KernelStops(n) BY <2>14 DEF KernelStops, ThreadEnds
  <2>15. CASE Upload(n) BY <2>15 DEF Upload, ThreadEnds
  <2>16. CASE CancelLostLease(n) BY <2>16 DEF CancelLostLease, CancelCoroutine
  <2>17. CASE StopWorker(n)
    BY <2>17 DEF StopWorker, CancelCoroutine, ReturnedTask, HoldsLease
  <2>18. CASE Crash(n) BY <2>18 DEF Crash
  <2>19. QED
    BY <1>2, <2>1, <2>2, <2>3, <2>4, <2>5, <2>6, <2>7, <2>8, <2>9, <2>10,
       <2>11, <2>12, <2>13, <2>14, <2>15, <2>16, <2>17, <2>18
    DEF Attempt, Coroutine, Kernel, Fault
<1>3. ASSUME NEW r \in Reconcilers, Reconcile(r) PROVE ReconcileInv'
  <2>1. CASE ReconcileRead(r) BY <2>1 DEF ReconcileRead, MayReconcile
  <2>2. CASE ReconcileWrite(r)
    BY <2>2 DEF ReconcileWrite, Reconciled, ReconciledOwner, MayReconcile
  <2>3. CASE ReconcileAborts(r) BY <2>3 DEF ReconcileAborts
  <2>4. QED BY <1>3, <2>1, <2>2, <2>3 DEF Reconcile
<1>4. CASE ExpireLease BY <1>4 DEF ExpireLease, RecoveredTask
<1>5. CASE OperatorRetry BY <1>5 DEF OperatorRetry, RetriedTask
<1>6. CASE OperatorCancel BY <1>6 DEF OperatorCancel
<1>7. CASE PassGrace BY <1>7 DEF PassGrace
<1>8. CASE PassRetention BY <1>8 DEF PassRetention
<1>9. CASE PurgeSelect BY <1>9 DEF PurgeSelect
<1>10. CASE PurgeDelete BY <1>10 DEF PurgeDelete, MayPurge, Purgeable
<1>11. CASE UNCHANGED vars BY <1>11 DEF vars
<1>12. QED
  BY <1>1, <1>2, <1>3, <1>4, <1>5, <1>6, <1>7, <1>8, <1>9, <1>10, <1>11 DEF Next

\* No step without an operator changes a reconciled row.
LEMMA FrozenStep ==
  ASSUME BoundsAssumption, TypeOK, RowInv, ReconcileInv, job.error = "reconciled",
         retries = 0, [Next]_vars
  PROVE  job' = job
<1> USE DEF RowInv, RowShape, OwnerBounded, FinishedFieldsAgree, UndeliveredIdle,
  ReconcileInv, TypeOK, Rows, Tasks, Row, Task, BoundsAssumption, Goto,
  attemptVars, passVars,
  PendingTask, SettledTask, AgedTask, PurgedTask
<1>1. CASE Submit
  BY <1>1 DEF Submit, QueuedRow, EnqueuedTask
<1>2. ASSUME NEW n \in Attempts, Attempt(n) PROVE job' = job
  <2>1. CASE LeaseJob(n) BY <2>1 DEF LeaseJob, LeasedTask
  <2>2. CASE StartFails(n) BY <2>2 DEF StartFails
  <2>3. CASE MarkStarted(n) BY <2>3 DEF MarkStarted, Claimed, MayClaim
  <2>4. CASE StandDown(n) BY <2>4 DEF StandDown
  <2>5. CASE ClaimWorkspace(n) BY <2>5 DEF ClaimWorkspace
  <2>6. CASE CompleteJob(n) BY <2>6 DEF CompleteJob, Completed, MayComplete
  <2>7. CASE RemoveFinishedWorkspace(n) BY <2>7 DEF RemoveFinishedWorkspace
  <2>8. CASE RecordFailure(n) BY <2>8 DEF RecordFailure, FailedByRun, MayFail
  <2>9. CASE Report(n) BY <2>9 DEF Report, HoldsLease
  <2>10. CASE KernelStarts(n) BY <2>10 DEF KernelStarts
  <2>11. CASE SubmitProgress(n) BY <2>11 DEF SubmitProgress
  <2>12. CASE WriteProgress(n)
    BY <2>12 DEF WriteProgress, ThreadEnds, Progressed, MayProgress
  <2>13. CASE KernelReturns(n) BY <2>13 DEF KernelReturns
  <2>14. CASE KernelStops(n) BY <2>14 DEF KernelStops, ThreadEnds
  <2>15. CASE Upload(n) BY <2>15 DEF Upload, ThreadEnds
  <2>16. CASE CancelLostLease(n) BY <2>16 DEF CancelLostLease, CancelCoroutine
  <2>17. CASE StopWorker(n)
    BY <2>17 DEF StopWorker, CancelCoroutine, ReturnedTask, HoldsLease
  <2>18. CASE Crash(n) BY <2>18 DEF Crash
  <2>19. QED
    BY <1>2, <2>1, <2>2, <2>3, <2>4, <2>5, <2>6, <2>7, <2>8, <2>9, <2>10,
       <2>11, <2>12, <2>13, <2>14, <2>15, <2>16, <2>17, <2>18
    DEF Attempt, Coroutine, Kernel, Fault
<1>3. ASSUME NEW r \in Reconcilers, Reconcile(r) PROVE job' = job
  <2>1. CASE ReconcileRead(r) BY <2>1 DEF ReconcileRead, MayReconcile
  <2>2. CASE ReconcileWrite(r)
    BY <2>2 DEF ReconcileWrite, Reconciled, ReconciledOwner, MayReconcile
  <2>3. CASE ReconcileAborts(r) BY <2>3 DEF ReconcileAborts
  <2>4. QED BY <1>3, <2>1, <2>2, <2>3 DEF Reconcile
<1>4. CASE ExpireLease BY <1>4 DEF ExpireLease, RecoveredTask
<1>5. CASE OperatorRetry BY <1>5 DEF OperatorRetry, RetriedTask
<1>6. CASE OperatorCancel BY <1>6 DEF OperatorCancel
<1>7. CASE PassGrace BY <1>7 DEF PassGrace
<1>8. CASE PassRetention BY <1>8 DEF PassRetention
<1>9. CASE PurgeSelect BY <1>9 DEF PurgeSelect
<1>10. CASE PurgeDelete BY <1>10 DEF PurgeDelete, MayPurge, Purgeable
<1>11. CASE UNCHANGED vars BY <1>11 DEF vars
<1>12. QED
  BY <1>1, <1>2, <1>3, <1>4, <1>5, <1>6, <1>7, <1>8, <1>9, <1>10, <1>11 DEF Next

-----------------------------------------------------------------------------
(* Refinement *)

\* Every step is a documented transition of the compute row or leaves its
\* status and owner alone.
LEMMA TransitionStep ==
  ASSUME BoundsAssumption, TypeOK, RowInv, [Next]_vars
  PROVE  [Transitions!Next]_<<job.status, job.owner>>
<1> USE DEF RowInv, RowShape, OwnerBounded, UndeliveredIdle, SnapshotBounded,
  Transitions!Next, Transitions!Create, Transitions!Claim, Transitions!Finish,
  Transitions!Reconcile, Transitions!Finished,
  TypeOK, Rows, Tasks, Row, Task, BoundsAssumption, Goto, attemptVars, passVars,
  PendingTask, SettledTask, AgedTask, PurgedTask
<1>1. CASE Submit
  BY <1>1 DEF Submit, QueuedRow, EnqueuedTask
<1>2. ASSUME NEW n \in Attempts, Attempt(n)
  PROVE [Transitions!Next]_<<job.status, job.owner>>
  <2>1. CASE LeaseJob(n) BY <2>1 DEF LeaseJob, LeasedTask
  <2>2. CASE StartFails(n) BY <2>2 DEF StartFails
  <2>3. CASE MarkStarted(n) BY <2>3 DEF MarkStarted, Claimed, MayClaim
  <2>4. CASE StandDown(n) BY <2>4 DEF StandDown
  <2>5. CASE ClaimWorkspace(n) BY <2>5 DEF ClaimWorkspace
  <2>6. CASE CompleteJob(n) BY <2>6 DEF CompleteJob, Completed, MayComplete
  <2>7. CASE RemoveFinishedWorkspace(n) BY <2>7 DEF RemoveFinishedWorkspace
  <2>8. CASE RecordFailure(n) BY <2>8 DEF RecordFailure, FailedByRun, MayFail
  <2>9. CASE Report(n) BY <2>9 DEF Report, HoldsLease
  <2>10. CASE KernelStarts(n) BY <2>10 DEF KernelStarts
  <2>11. CASE SubmitProgress(n) BY <2>11 DEF SubmitProgress
  <2>12. CASE WriteProgress(n)
    BY <2>12 DEF WriteProgress, ThreadEnds, Progressed, MayProgress
  <2>13. CASE KernelReturns(n) BY <2>13 DEF KernelReturns
  <2>14. CASE KernelStops(n) BY <2>14 DEF KernelStops, ThreadEnds
  <2>15. CASE Upload(n) BY <2>15 DEF Upload, ThreadEnds
  <2>16. CASE CancelLostLease(n) BY <2>16 DEF CancelLostLease, CancelCoroutine
  <2>17. CASE StopWorker(n)
    BY <2>17 DEF StopWorker, CancelCoroutine, ReturnedTask, HoldsLease
  <2>18. CASE Crash(n) BY <2>18 DEF Crash
  <2>19. QED
    BY <1>2, <2>1, <2>2, <2>3, <2>4, <2>5, <2>6, <2>7, <2>8, <2>9, <2>10,
       <2>11, <2>12, <2>13, <2>14, <2>15, <2>16, <2>17, <2>18
    DEF Attempt, Coroutine, Kernel, Fault
<1>3. ASSUME NEW r \in Reconcilers, Reconcile(r)
  PROVE [Transitions!Next]_<<job.status, job.owner>>
  <2>1. CASE ReconcileRead(r) BY <2>1 DEF ReconcileRead, MayReconcile
  <2>2. CASE ReconcileWrite(r)
    BY <2>2 DEF ReconcileWrite, Reconciled, ReconciledOwner, MayReconcile
  <2>3. CASE ReconcileAborts(r) BY <2>3 DEF ReconcileAborts
  <2>4. QED BY <1>3, <2>1, <2>2, <2>3 DEF Reconcile
<1>4. CASE ExpireLease BY <1>4 DEF ExpireLease, RecoveredTask
<1>5. CASE OperatorRetry BY <1>5 DEF OperatorRetry, RetriedTask
<1>6. CASE OperatorCancel BY <1>6 DEF OperatorCancel
<1>7. CASE PassGrace BY <1>7 DEF PassGrace
<1>8. CASE PassRetention BY <1>8 DEF PassRetention
<1>9. CASE PurgeSelect BY <1>9 DEF PurgeSelect
<1>10. CASE PurgeDelete BY <1>10 DEF PurgeDelete, MayPurge, Purgeable
<1>11. CASE UNCHANGED vars BY <1>11 DEF vars
<1>12. QED
  BY <1>1, <1>2, <1>3, <1>4, <1>5, <1>6, <1>7, <1>8, <1>9, <1>10, <1>11 DEF Next

-----------------------------------------------------------------------------
(* Theorems *)

\* The conjunction that every step preserves.
IInv ==
  /\ TypeOK /\ RowInv /\ DurableInv /\ LiveAttemptOwnsRow
  /\ WorkspaceInv /\ PurgeInv /\ ReconcileInv

\* Nothing is submitted, so nothing disagrees.
LEMMA InitIInv == Init => IInv
<1> SUFFICES ASSUME Init PROVE IInv OBVIOUS
<1> USE DEF Init, AbsentRow, AbsentTask, Row, Task
<1>1. TypeOK BY BoundsAssumption DEF TypeOK, Rows, Tasks
<1>2. RowInv
  BY DEF RowInv, RowShape, OwnerBounded, FinishedFieldsAgree, UndeliveredIdle,
         SnapshotBounded, StartedRowExists
<1>3. DurableInv BY DEF DurableInv, SucceededMeansCompleted, CompletedHasOutputs
<1>4. LiveAttemptOwnsRow BY DEF LiveAttemptOwnsRow, HoldsLease
<1>5. WorkspaceInv BY DEF WorkspaceInv, WorkspaceExclusive, HoldsWorkspace
<1>6. PurgeInv BY DEF PurgeInv, PurgedMeansFinished
<1>7. ReconcileInv BY DEF ReconcileInv
<1>8. QED BY <1>1, <1>2, <1>3, <1>4, <1>5, <1>6, <1>7 DEF IInv

\* The inductive invariant: types, the two rows, and the parts of the passes.
LEMMA InductiveIInv == Spec => []IInv
<1>1. IInv /\ [Next]_vars => IInv'
  <2> SUFFICES ASSUME IInv, [Next]_vars PROVE IInv' OBVIOUS
  <2>1. TypeOK' BY BoundsAssumption, TypeStep DEF IInv
  <2>2. RowInv' BY <2>1, BoundsAssumption, RowStep DEF IInv
  <2>3. DurableInv' BY BoundsAssumption, DurableStep DEF IInv
  <2>4. LiveAttemptOwnsRow' BY BoundsAssumption, LiveStep DEF IInv
  <2>5. WorkspaceInv' BY BoundsAssumption, WorkspaceStep DEF IInv, RowInv
  <2>6. PurgeInv' BY BoundsAssumption, PurgeStep DEF IInv
  <2>7. ReconcileInv' BY BoundsAssumption, ReconcileStep DEF IInv
  <2>8. QED BY <2>1, <2>2, <2>3, <2>4, <2>5, <2>6, <2>7 DEF IInv
<1>2. QED BY <1>1, InitIInv, PTL DEF Spec

\* For any number of deliveries, operators' retries, hosts and workers,
\* owner_attempt never exceeds the queue's attempt counter.
THEOREM OwnerStaysBounded == Spec => []OwnerBounded
<1>1. IInv => OwnerBounded BY DEF IInv, RowInv
<1>2. QED BY <1>1, InductiveIInv, PTL

\* finished_at and error always agree with the status a client is shown.
THEOREM FieldsStayConsistent == Spec => []FinishedFieldsAgree
<1>1. IInv => FinishedFieldsAgree BY DEF IInv, RowInv
<1>2. QED BY <1>1, InductiveIInv, PTL

\* A queue row that succeeded names a completed compute row.
THEOREM SuccessIsDurable == Spec => []SucceededMeansCompleted
<1>1. IInv => SucceededMeansCompleted BY DEF IInv, DurableInv
<1>2. QED BY <1>1, InductiveIInv, PTL

\* A completed row's owner had stored its result objects.
THEOREM CompletionHasOutputs == Spec => []CompletedHasOutputs
<1>1. IInv => CompletedHasOutputs BY DEF IInv, DurableInv
<1>2. QED BY <1>1, InductiveIInv, PTL

\* Neither reconciliation nor a straggler takes the row from the working
\* lease holder.
THEOREM LiveAttemptKeepsRow == Spec => []LiveAttemptOwnsRow
<1>1. IInv => LiveAttemptOwnsRow BY DEF IInv
<1>2. QED BY <1>1, InductiveIInv, PTL

\* Two attempts on one host never hold one workspace (with the lock taken as
\* one step; Workspace.tla opens that step up).
THEOREM WorkspaceStaysExclusive == Spec => []WorkspaceExclusive
<1>1. IInv => WorkspaceExclusive BY DEF IInv, WorkspaceInv
<1>2. QED BY <1>1, InductiveIInv, PTL

\* A purged queue row leaves a finished compute row behind.
THEOREM PurgeIsSafe == Spec => []PurgedMeansFinished
<1>1. IInv => PurgedMeansFinished BY DEF IInv, PurgeInv
<1>2. QED BY <1>1, InductiveIInv, PTL

\* Without an operator nothing reopens a reconciled row, a wedged attempt
\* included.
THEOREM ReconciledRowFrozen == Spec => ReconciledNeedsOperator
<1>1. IInv /\ [Next]_vars
        => [job.error = "reconciled" /\ retries = 0 => job' = job]_vars
  BY BoundsAssumption, FrozenStep DEF IInv
<1>2. QED BY <1>1, InductiveIInv, PTL DEF Spec, ReconciledNeedsOperator

\* The composed system implements the transition table of docs/jobs.md.
THEOREM Refinement == Spec => ImplementsTransitions
<1>1. Init => Transitions!Init
  BY DEF Init, AbsentRow, Row, Transitions!Init, Transitions!Unowned
<1>2. IInv /\ [Next]_vars => [Transitions!Next]_<<job.status, job.owner>>
  BY BoundsAssumption, TransitionStep DEF IInv
<1>3. QED
  BY <1>1, <1>2, InductiveIInv, PTL DEF Spec, ImplementsTransitions,
    Transitions!Spec

\* For any number of deliveries, on every host, the deliveries keep to the
\* claim protocol that the lock file implements (WorkspaceProofs): an abandoned
\* kernel thread keeps the claim until it ends.
THEOREM ClaimRefinement == ASSUME NEW h PROVE Spec => Claim(h)!Spec
<1>1. Init => Claim(h)!Init
  BY DEF Init, HoldersOn, KernelsOn, HoldsWorkspace, Claim!Init
<1>2. IInv /\ [Next]_vars => [Claim(h)!Next]_<<HoldersOn(h), KernelsOn(h)>>
  BY BoundsAssumption, ClaimStep DEF IInv, RowInv
<1>3. QED BY <1>1, <1>2, InductiveIInv, PTL DEF Spec, Claim!Spec
=============================================================================
