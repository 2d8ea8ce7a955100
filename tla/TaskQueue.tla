------------------------------ MODULE TaskQueue ------------------------------
(***************************************************************************)
(* The task_queue.jobs row of one simulation.  rqueue is a library outside *)
(* the repository: these operators are what core/tasks.py, repository.py   *)
(* and docs/jobs.md rely on.  Every lease increments `attempt`; a          *)
(* transition by a holder is fenced on its lease; an operator retry raises *)
(* `max` and never resets `attempt`.                                       *)
(*                                                                         *)
(* `age` abstracts now() - finished_at of a terminal row: "fresh", past    *)
(* RECONCILE_GRACE ("grace"), past JOB_RETENTION ("old").                  *)
(***************************************************************************)
EXTENDS Integers

\* repository.QUEUE_GAVE_UP.
GaveUpStates == {"failed", "cancelled"}

\* rqueue.models.TERMINAL_STATES.
TerminalStates == GaveUpStates \cup {"succeeded"}

\* "absent" before the enqueue, "purged" after retention deleted the row.
QueueStates == {"absent", "pending", "leased", "purged"} \cup TerminalStates

Tasks(top) ==
  [state: QueueStates, attempt: 0..top, max: 0..top,
   age: {"fresh", "grace", "old"}]

Task(state, attempt, max, age) ==
  [state |-> state, attempt |-> attempt, max |-> max, age |-> age]

AbsentTask == Task("absent", 0, 0, "fresh")

\* enqueue_simulation, with the registered retry budget stamped on the row.
EnqueuedTask(budget) == Task("pending", 0, budget, "fresh")

\* The lease fence of every transition a holder makes.
HoldsLease(q, n) == q.state = "leased" /\ q.attempt = n

LeasedTask(q) == Task("leased", q.attempt + 1, q.max, q.age)

\* Back to claimable, after a transient error or for another worker.
PendingTask(q, max) == Task("pending", q.attempt, max, "fresh")

\* A terminal transition; finished_at is now.
SettledTask(q, state) == Task(state, q.attempt, q.max, "fresh")

AgedTask(q, age) == Task(q.state, q.attempt, q.max, age)

PurgedTask(q) == Task("purged", q.attempt, q.max, q.age)

\* An expired lease: redelivered within the budget, else failed without a
\* handler call.
RecoveredTask(q) ==
  IF q.attempt < q.max THEN PendingTask(q, q.max) ELSE SettledTask(q, "failed")

\* A stopped worker hands its claim back; a last attempt keeps one delivery.
ReturnedTask(q) ==
  PendingTask(q, IF q.attempt < q.max THEN q.max ELSE q.attempt + 1)

\* Admin.retry_job on a terminal row, with the raised ceiling `max`.
RetriedTask(q, max) == PendingTask(q, max)
=============================================================================
